------------------------------ MODULE Channel ------------------------------
(***************************************************************************)
(* One channel of src/lib/io/channel.c between a network thread, the       *)
(* requestor, and a worker, the responder, with what network.c and         *)
(* worker.c do at its two ends.                                            *)
(*                                                                         *)
(* Data goes through two atomic queues, each with one writer and one       *)
(* reader (AtomicQueue).  Signals go through the control planes (Control), *)
(* taken here as reliable queues in which a signal is lost only when it is *)
(* full: the sender ignores that.  A request is named by its sequence      *)
(* number.  must_signal and the acknowledgements in the signals are read   *)
(* only by code under ENABLE_SKIPS, which is off.                          *)
(*                                                                         *)
(* fr_channel_send_reply reads the request queue until it is empty, and    *)
(* the worker may answer what it reads at once: the calls of the worker    *)
(* nest, and its stack is part of the state.                               *)
(***************************************************************************)
EXTENDS Integers, Sequences, FiniteSets

CONSTANTS
    AqSize,         \* entries of each atomic queue (1024)
    CtlSize,        \* signals a control plane holds
    Sleeps,         \* whether the worker tells that it sleeps
    MaxRequests     \* bound: requests sent on the channel

ASSUME ChannelAssumption == AqSize \in Nat \ {0} /\ CtlSize \in Nat \ {0}
                            /\ Sleeps \in BOOLEAN /\ MaxRequests \in Nat

VARIABLES
    requestor,      \* end[TO_RESPONDER], owned by the network thread
    responder,      \* end[TO_REQUESTOR], owned by the worker
    requests,       \* the atomic queue of requests
    replies,        \* the atomic queue of replies
    toResponder,    \* signals on their way to the worker
    toRequestor,    \* signals on their way to the network thread
    network,        \* what the network thread is doing
    gone,           \* the network thread has removed the worker
    open,           \* the channel is in the list of the worker
    freed,          \* the worker has freed the message set of its replies
    slept,          \* was_sleeping: the last signal of the worker was that it sleeps
    calls,          \* the stack of the worker, innermost call first
    running         \* the requests the worker has accepted and not answered

networkVars == <<requestor, network, gone>>
workerVars == <<responder, open, freed, slept, calls, running>>
vars == <<networkVars, workerVars, requests, replies, toResponder, toRequestor>>

NewEnd == [sequence |-> 0, ack |-> 0, view |-> 0, outstanding |-> 0, active |-> TRUE]

\* fr_channel_create, and fr_channel_signal_open called by the network thread.
Init ==
    /\ requestor = NewEnd /\ responder = NewEnd
    /\ requests = << >> /\ replies = << >>
    /\ toResponder = <<"OPEN">> /\ toRequestor = << >>
    /\ network = "idle" /\ gone = FALSE
    /\ open = FALSE /\ freed = FALSE /\ slept = FALSE
    /\ calls = << >> /\ running = {}

\* fr_control_message_send: a full control plane refuses the signal.
Signalled(queue, signal) == IF Len(queue) < CtlSize THEN Append(queue, signal) ELSE queue

\* fr_channel_active
Active == requestor.active /\ responder.active

-----------------------------------------------------------------------------
(* The network thread *)

\* fr_channel_send_request, up to the push.
SendRequest ==
    /\ network = "idle" /\ ~gone
    /\ requestor.active /\ requestor.sequence < MaxRequests
    /\ Len(requests) < AqSize
    /\ requests' = Append(requests, [sequence |-> requestor.sequence + 1, ack |-> requestor.ack])
    /\ requestor' = [requestor EXCEPT !.sequence = @ + 1, !.outstanding = @ + 1]
    /\ network' = "pushed"
    /\ UNCHANGED <<gone, workerVars, replies, toResponder, toRequestor>>

\* The end of fr_channel_send_request: fr_channel_data_ready.
SignalRequest ==
    /\ network = "pushed"
    /\ toResponder' = Signalled(toResponder, "DATA_TO_RESPONDER")
    /\ network' = "idle"
    /\ UNCHANGED <<requestor, gone, workerVars, requests, replies, toRequestor>>

\* The queue is full: the replies are read, and the packet is dropped.
SendRequestFails ==
    /\ network = "idle" /\ ~gone
    /\ requestor.active /\ requestor.sequence < MaxRequests
    /\ Len(requests) = AqSize
    /\ network' = "reading"
    /\ UNCHANGED <<requestor, gone, workerVars, requests, replies, toResponder, toRequestor>>

\* Variant of RecvReply: the last request is taken as answered.
RecvReplyForAll ==
    /\ network = "reading" /\ replies # << >>
    /\ requestor' = [requestor EXCEPT !.outstanding = @ - 1, !.ack = requestor.sequence,
                                      !.view = Head(replies).ack]
    /\ replies' = Tail(replies)
    /\ UNCHANGED <<network, gone, workerVars, requests, toResponder, toRequestor>>

\* fr_channel_recv_reply
RecvReply ==
    /\ network = "reading" /\ replies # << >>
    /\ requestor' = [requestor EXCEPT !.outstanding = @ - 1, !.ack = Head(replies).sequence,
                                      !.view = Head(replies).ack]
    /\ replies' = Tail(replies)
    /\ UNCHANGED <<network, gone, workerVars, requests, toResponder, toRequestor>>

\* It finds no reply, and the loop around it ends.
NoMoreReplies ==
    /\ network = "reading" /\ replies = << >>
    /\ network' = "idle"
    /\ UNCHANGED <<requestor, gone, workerVars, requests, replies, toResponder, toRequestor>>

\* The network thread takes a signal from its control plane.
NetworkGets(signal) ==
    /\ network = "idle"
    /\ toRequestor # << >> /\ Head(toRequestor) = signal
    /\ toRequestor' = Tail(toRequestor)

\* fr_network_channel_callback: there are replies.
ReplySignal ==
    /\ NetworkGets("DATA_TO_REQUESTOR")
    /\ network' = "reading"
    /\ UNCHANGED <<requestor, gone, workerVars, requests, replies, toResponder>>

\* The worker has answered everything: it is signalled again, then the replies
\* are read.  When that signal is refused, the event is an error and they are not.
DoneSignal ==
    /\ NetworkGets("DATA_DONE_RESPONDER")
    /\ toResponder' = Signalled(toResponder, "DATA_TO_RESPONDER")
    /\ network' = IF Len(toResponder) < CtlSize THEN "reading" ELSE "idle"
    /\ UNCHANGED <<requestor, gone, workerVars, requests, replies>>

\* The worker sleeps with requests outstanding: it is signalled again.
SleepingSignal ==
    /\ NetworkGets("RESPONDER_SLEEPING")
    /\ toResponder' = Signalled(toResponder, "DATA_TO_RESPONDER")
    /\ UNCHANGED <<networkVars, workerVars, requests, replies>>

\* The worker has acknowledged the close.
CloseAcked ==
    /\ NetworkGets("CLOSE")
    /\ gone' = TRUE
    /\ UNCHANGED <<requestor, network, workerVars, requests, replies, toResponder>>

\* fr_channel_signal_responder_close, called by fr_network_destroy.
SignalClose ==
    /\ network = "idle" /\ requestor.active
    /\ toResponder' = Signalled(toResponder, "CLOSE")
    /\ network' = "closing"
    /\ UNCHANGED <<requestor, gone, workerVars, requests, replies, toRequestor>>

Deactivate ==
    /\ network = "closing"
    /\ requestor' = [requestor EXCEPT !.active = FALSE]
    /\ network' = "idle"
    /\ UNCHANGED <<gone, workerVars, requests, replies, toResponder, toRequestor>>

-----------------------------------------------------------------------------
(* The worker *)

Call(op, n) == [op |-> op, n |-> n]
Calls(op) == calls # << >> /\ Head(calls).op = op

\* Calls that read requests until there are none: the handler of a signal, and
\* fr_channel_send_reply after a push that succeeded or failed.
Reads == Calls("serve") \/ Calls("replied") \/ Calls("failed")

WorkerGets(signal) ==
    /\ calls = << >>
    /\ toResponder # << >> /\ Head(toResponder) = signal
    /\ toResponder' = Tail(toResponder)

\* worker_channel_callback
OpenSignal ==
    /\ WorkerGets("OPEN")
    /\ open' = TRUE /\ slept' = FALSE
    /\ UNCHANGED <<networkVars, responder, freed, calls, running, requests, replies, toRequestor>>

RequestSignal ==
    /\ WorkerGets("DATA_TO_RESPONDER")
    /\ calls' = <<Call("serve", 0)>>
    /\ UNCHANGED <<networkVars, responder, open, freed, slept, running, requests, replies, toRequestor>>

\* Variant of CloseSignal: the acknowledgement overtakes the signals for the replies.
CloseSignalFirst ==
    /\ WorkerGets("CLOSE")
    /\ responder' = [responder EXCEPT !.active = FALSE]
    /\ toRequestor' = IF Len(toRequestor) < CtlSize THEN <<"CLOSE">> \o toRequestor ELSE toRequestor
    /\ open' = FALSE /\ freed' = TRUE /\ slept' = FALSE
    /\ UNCHANGED <<networkVars, calls, running, requests, replies>>

\* Variant of CloseSignal: a worker with requests does not acknowledge.
CloseSignalBusy ==
    /\ WorkerGets("CLOSE")
    /\ responder' = [responder EXCEPT !.active = FALSE]
    /\ toRequestor' = IF running = {} THEN Signalled(toRequestor, "CLOSE") ELSE toRequestor
    /\ open' = FALSE /\ freed' = TRUE /\ slept' = FALSE
    /\ UNCHANGED <<networkVars, calls, running, requests, replies>>

\* fr_channel_responder_ack_close, and the message set is freed.
CloseSignal ==
    /\ WorkerGets("CLOSE")
    /\ responder' = [responder EXCEPT !.active = FALSE]
    /\ toRequestor' = Signalled(toRequestor, "CLOSE")
    /\ open' = FALSE /\ freed' = TRUE /\ slept' = FALSE
    /\ UNCHANGED <<networkVars, calls, running, requests, replies>>

\* fr_channel_recv_request and its callback, worker_recv_request.
RecvRequest ==
    /\ Reads /\ requests # << >>
    /\ responder' = [responder EXCEPT !.outstanding = @ + 1, !.ack = Head(requests).sequence,
                                      !.view = Head(requests).ack]
    /\ requests' = Tail(requests)
    /\ calls' = <<Call("bootstrap", Head(requests).sequence)>> \o calls
    /\ slept' = (slept /\ ~Calls("serve"))
    /\ UNCHANGED <<networkVars, open, freed, running, replies, toResponder, toRequestor>>

\* Variant of NoMoreRequests: there is no signal while requests are outstanding.
NoMoreRequestsQuiet ==
    /\ Reads /\ requests = << >>
    /\ toRequestor' = IF Calls("replied") /\ responder.outstanding = 0
                      THEN Signalled(toRequestor, "DATA_DONE_RESPONDER") ELSE toRequestor
    /\ calls' = Tail(calls)
    /\ UNCHANGED <<networkVars, responder, open, freed, slept, running, requests, replies, toResponder>>

\* There are no more requests; fr_channel_send_reply ends by signalling.
NoMoreRequests ==
    /\ Reads /\ requests = << >>
    /\ toRequestor' = IF Calls("replied")
                      THEN Signalled(toRequestor, IF responder.outstanding = 0
                                                  THEN "DATA_DONE_RESPONDER" ELSE "DATA_TO_REQUESTOR")
                      ELSE toRequestor
    /\ calls' = Tail(calls)
    /\ UNCHANGED <<networkVars, responder, open, freed, slept, running, requests, replies, toResponder>>

\* worker_request_bootstrap: the request will be run.  Also the end of Conflict.
Accept ==
    /\ Calls("bootstrap") \/ Calls("insert")
    /\ running' = running \cup {Head(calls).n}
    /\ calls' = Tail(calls)
    /\ UNCHANGED <<networkVars, responder, open, freed, slept, requests, replies, toResponder, toRequestor>>

\* It is a duplicate: fr_channel_null_reply.
NullReply ==
    /\ Calls("bootstrap")
    /\ responder' = [responder EXCEPT !.sequence = @ + 1]
    /\ calls' = Tail(calls)
    /\ UNCHANGED <<networkVars, open, freed, slept, running, requests, replies, toResponder, toRequestor>>

\* It is refused: worker_nak.
Nak ==
    /\ Calls("bootstrap")
    /\ calls' = <<Call("reply", Head(calls).n)>> \o Tail(calls)
    /\ UNCHANGED <<networkVars, responder, open, freed, slept, running, requests, replies, toResponder,
                   toRequestor>>

\* It replaces an older one, which is stopped and answered first.  The answer
\* is left out when the channel is closing.
Conflict(old) ==
    /\ Calls("bootstrap") /\ old \in running
    /\ running' = running \ {old}
    /\ LET insert == <<Call("insert", Head(calls).n)>> \o Tail(calls)
       IN  calls' = IF Active THEN <<Call("reply", old)>> \o insert ELSE insert
    /\ UNCHANGED <<networkVars, responder, open, freed, slept, requests, replies, toResponder, toRequestor>>

\* worker_run_request resumes a request, which ends: worker_send_reply is
\* called, or the request is stopped as the channel is closing.
Finish(n) ==
    /\ calls = << >> /\ n \in running
    /\ running' = running \ {n}
    /\ calls' = IF Active THEN <<Call("reply", n)>> ELSE << >>
    /\ UNCHANGED <<networkVars, responder, open, freed, slept, requests, replies, toResponder, toRequestor>>

\* worker_send_reply and worker_nak find the channel active.
MayReply ==
    /\ Calls("reply") /\ Active
    /\ calls' = <<Call("send", Head(calls).n)>> \o Tail(calls)
    /\ UNCHANGED <<networkVars, responder, open, freed, slept, running, requests, replies, toResponder,
                   toRequestor>>

\* fr_channel_send_reply, up to the push.  It looks at the end of the worker only:
\* the network thread may have closed the channel by now.
SendReply ==
    /\ Calls("send") /\ responder.active
    /\ Len(replies) < AqSize
    /\ replies' = Append(replies, [sequence |-> responder.sequence + 1, ack |-> responder.ack])
    /\ responder' = [responder EXCEPT !.sequence = @ + 1, !.outstanding = @ - 1]
    /\ calls' = <<Call("replied", Head(calls).n)>> \o Tail(calls)
    /\ UNCHANGED <<networkVars, open, freed, slept, running, requests, toResponder, toRequestor>>

\* The queue is full: requests are read, and the reply is dropped.
SendReplyFails ==
    /\ Calls("send") /\ responder.active
    /\ Len(replies) = AqSize
    /\ calls' = <<Call("failed", Head(calls).n)>> \o Tail(calls)
    /\ UNCHANGED <<networkVars, responder, open, freed, slept, running, requests, replies, toResponder,
                   toRequestor>>

\* The channel is no longer active: an assertion fails, and there is no reply.
ReplyRefused ==
    /\ Calls("reply") /\ ~Active
    /\ calls' = Tail(calls)
    /\ UNCHANGED <<networkVars, responder, open, freed, slept, running, requests, replies, toResponder,
                   toRequestor>>

\* fr_channel_responder_sleeping, for the idle loop of the worker.  worker.c does
\* not call it now; its flag that suppresses "multiple sleep signals in a row"
\* and the handler of the network thread are there.
Sleeping ==
    /\ Sleeps
    /\ calls = << >> /\ open /\ ~slept
    /\ responder.outstanding > 0
    /\ slept' = TRUE
    /\ toRequestor' = Signalled(toRequestor, "RESPONDER_SLEEPING")
    /\ UNCHANGED <<networkVars, responder, open, freed, calls, running, requests, replies, toResponder>>

-----------------------------------------------------------------------------

NetworkServes ==
    \/ SignalRequest \/ RecvReply \/ NoMoreReplies \/ ReplySignal \/ DoneSignal \/ SleepingSignal
    \/ CloseAcked \/ Deactivate

WorkerServes ==
    \/ OpenSignal \/ RequestSignal \/ CloseSignal \/ RecvRequest \/ NoMoreRequests
    \/ Accept \/ NullReply \/ Nak \/ (\E old \in running : Conflict(old))
    \/ MayReply \/ SendReply \/ SendReplyFails \/ ReplyRefused

Next ==
    \/ NetworkServes \/ SendRequest \/ SendRequestFails \/ SignalClose
    \/ WorkerServes \/ Sleeping \/ (\E n \in running : Finish(n))

\* Both threads serve their control planes and finish what they have begun.
\* Nothing is assumed about packets arriving, requests ending or the shutdown.
Spec == Init /\ [][Next]_vars
FairSpec == Spec /\ WF_vars(NetworkServes) /\ WF_vars(WorkerServes)

-----------------------------------------------------------------------------
(* Properties *)

Numbers == 0 .. MaxRequests
Ends == [sequence : Numbers, ack : Numbers, view : Numbers, outstanding : Numbers, active : BOOLEAN]
Packets == [sequence : 1 .. MaxRequests, ack : Numbers]
Signals == {"DATA_TO_RESPONDER", "DATA_TO_REQUESTOR", "DATA_DONE_RESPONDER", "RESPONDER_SLEEPING",
            "OPEN", "CLOSE"}
Ops == {"serve", "replied", "failed", "bootstrap", "insert", "reply", "send"}

TypeOK ==
    /\ requestor \in Ends /\ responder \in Ends
    /\ requests \in Seq(Packets) /\ Len(requests) <= AqSize
    /\ replies \in Seq(Packets) /\ Len(replies) <= AqSize
    /\ toResponder \in Seq(Signals) /\ Len(toResponder) <= CtlSize
    /\ toRequestor \in Seq(Signals) /\ Len(toRequestor) <= CtlSize
    /\ network \in {"idle", "pushed", "reading", "closing"}
    /\ gone \in BOOLEAN /\ open \in BOOLEAN /\ freed \in BOOLEAN /\ slept \in BOOLEAN
    /\ calls \in Seq([op : Ops, n : Numbers])
    /\ running \subseteq Numbers

\* The assertions of fr_channel_recv_reply hold for the reply it will read:
\* requests are outstanding, and the reply is newer than the last one and not
\* newer than the last request.
ReplyAssertions ==
    replies # << >> =>
        /\ requestor.outstanding > 0
        /\ Head(replies).sequence > requestor.ack
        /\ Head(replies).sequence <= requestor.sequence

\* The assertions of fr_channel_recv_request hold for the request it will read:
\* "must have more requests than replies".
RequestAssertions ==
    requests # << >> =>
        /\ Head(requests).sequence > responder.ack
        /\ Head(requests).sequence >= responder.sequence

\* The assertions of fr_channel_send_reply: there is a request to answer, and
\* the network thread has not acknowledged a reply that was never sent.
AnswerAssertions ==
    /\ Calls("reply") \/ Calls("send") => responder.outstanding > 0
    /\ responder.view <= responder.sequence

\* No assertion of the two ends fails: answers, refusals, null replies and stopped
\* requests keep the numbers of both threads in step, in every order of events.
Assertions == TypeOK /\ ReplyAssertions /\ RequestAssertions /\ AnswerAssertions

\* When the close has been acknowledged to the network thread, nothing is left
\* in the queues of the channel, which goes away with it.
NothingLeftBehind == gone => requests = << >> /\ replies = << >>

\* The worker reads every request, "at some point, it will pick up the message",
\* and the network thread reads every reply, although both leave signals out.
EveryMessageRead == \A n \in 1 .. MaxRequests :
    /\ (\E i \in DOMAIN requests : requests[i].sequence = n) ~> (responder.ack >= n)
    /\ (\E i \in DOMAIN replies : replies[i].sequence = n) ~> (requestor.ack >= n)

\* A shutdown ends: once the network thread has closed the channel, the worker
\* is removed from its list.
CloseCompletes == ~requestor.active ~> gone
=============================================================================
