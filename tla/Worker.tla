------------------------------- MODULE Worker -------------------------------
(***************************************************************************)
(* A worker thread: src/lib/io/worker.c.  It makes requests of the packets *)
(* that a network thread sends, runs them, and answers.                    *)
(*                                                                         *)
(* Sending a reply also reads the channel, so the functions of the worker  *)
(* call each other: a request that ends may start or end others before the *)
(* call that ended it returns.  The calls that have not returned are in    *)
(* stack, each with the work it still has to do; every call is a step.     *)
(*                                                                         *)
(* There is one channel.  A request has the name of its packet.  What the  *)
(* interpreter does with it is left open: it yields, runs a subrequest     *)
(* (src/lib/unlang/subrequest.c) and waits for it, or is done.  A          *)
(* subrequest makes none of its own and does not detach.  The priority of  *)
(* a request is not here: nothing sets async->priority, so the runnable    *)
(* heap is in the order of arrival.  All listeners track duplicates.       *)
(***************************************************************************)
EXTENDS Integers, Sequences, FiniteSets

CONSTANTS
    Packets,        \* packets the network thread sends
    Children,       \* subrequests the interpreter may make
    Ctx,            \* Ctx[p]: packet_ctx, by which duplicates are found
    RecvTime,       \* RecvTime[r]: when r was received, or made by the interpreter
    Dups,           \* packets marked as duplicates (is_dup)
    MaxRequests,    \* config.max_requests
    QueueSize       \* ATOMIC_QUEUE_SIZE, of the queue of replies

ASSUME WorkerAssumption ==
    /\ IsFiniteSet(Packets) /\ IsFiniteSet(Children) /\ Packets \cap Children = {}
    /\ RecvTime \in [Packets \cup Children -> Nat] /\ Dups \subseteq Packets
    /\ MaxRequests \in Nat \ {0} /\ QueueSize \in Nat \ {0}

VARIABLES
    queue,          \* the packets in the channel
    phase,          \* [Requests -> new, queued, live, done, stopped or freed]
    runnable,       \* heap of requests that can run
    time_order,     \* heap of all requests
    dedup,          \* tree of requests, at most one for a packet_ctx
    num_active,     \* worker->num_active; below zero it has wrapped
    yielded,        \* requests that wait for an event or for their subrequest
    parent,         \* [Children -> Requests]: request->parent, or itself
    again,          \* requests that worker_request_time_tracking_end had twice
    stack,          \* the calls that have not returned, innermost first
    answers,        \* [Packets -> Nat]: how often a packet was answered
    replies,        \* replies in the channel that the network has not read
    refused,        \* packets whose reply the full channel did not take
    channel,        \* active, closing (the network has closed its end) or closed
    state           \* running, exiting or destroyed

vars == <<queue, phase, runnable, time_order, dedup, num_active, yielded, parent, again, stack, answers, replies, refused, channel, state>>

Requests == Packets \cup Children

Init ==
    /\ queue = <<>> /\ phase = [r \in Requests |-> "new"]
    /\ runnable = {} /\ time_order = {} /\ dedup = {} /\ num_active = 0 /\ yielded = {}
    /\ parent = [c \in Children |-> c] /\ again = {}
    /\ stack = <<>> /\ answers = [p \in Packets |-> 0] /\ replies = 0 /\ refused = {}
    /\ channel = "active" /\ state = "running"

\* What a call has still to do, and the request or the time it is about.
Call(op, arg) == [op |-> op, arg |-> arg]
Drain == Call("drain", 0)

EventLoop == stack = <<>> /\ state # "destroyed"
Top == Head(stack)
Caller == Tail(stack)
In(op) == stack # <<>> /\ Top.op = op

Oldest(S) == {r \in S : \A q \in S : RecvTime[r] <= RecvTime[q]}

-----------------------------------------------------------------------------
(* The network thread *)

\* A duplicate follows its original.
SendRequest(p) ==
    /\ channel = "active" /\ phase[p] = "new"
    /\ p \in Dups => \E q \in Packets \ Dups :
          Ctx[q] = Ctx[p] /\ RecvTime[q] = RecvTime[p] /\ phase[q] # "new"
    /\ queue' = Append(queue, p)
    /\ phase' = [phase EXCEPT ![p] = "queued"]
    /\ UNCHANGED <<runnable, time_order, dedup, num_active, yielded, parent, again, stack, answers, replies, refused, channel, state>>

\* fr_channel_signal_responder_close.  No reply is sent any more, so that what is
\* known of the queue of replies is forgotten.
SignalClose ==
    /\ channel = "active"
    /\ channel' = "closing" /\ replies' = 0 /\ refused' = {}
    /\ UNCHANGED <<queue, phase, runnable, time_order, dedup, num_active, yielded, parent, again, stack, answers, state>>

\* fr_channel_recv_reply
RecvReply ==
    /\ replies > 0
    /\ replies' = replies - 1
    /\ UNCHANGED <<queue, phase, runnable, time_order, dedup, num_active, yielded, parent, again, stack, answers, refused, channel, state>>

-----------------------------------------------------------------------------
(* The end of a request *)

\* fr_atomic_queue_push: the reply is sent, or lost when the queue is full.
PushReply(p) ==
    IF replies < QueueSize
    THEN /\ answers' = [answers EXCEPT ![p] = @ + 1]
         /\ replies' = replies + 1
         /\ UNCHANGED refused
    ELSE /\ refused' = refused \cup {p}
         /\ UNCHANGED <<answers, replies>>

\* fr_channel_send_reply inside worker_send_reply or worker_nak, with what is
\* to be done afterwards.  The channel is read also when the reply is refused;
\* on a channel that is closed nothing is sent.
Reply(p, rest) ==
    IF channel = "active"
    THEN /\ PushReply(p)
         /\ stack' = <<Drain>> \o rest
    ELSE /\ UNCHANGED <<answers, replies, refused>>
         /\ stack' = rest

\* fr_rb_delete finds the entry by packet_ctx.
Untrack(r) == dedup' = {d \in dedup : Ctx[d] # Ctx[r]}

\* worker_request_time_tracking_end, for every request in S.  For one that was
\* ended before, fr_time_tracking_end asserts that it is still tracked and, once
\* that has gone wrong, "fr_assert(worker->num_active > 0)" can fail as well;
\* without assertions it is counted down a second time.  again records it.
TimeTrackingEnd(S) ==
    /\ time_order' = time_order \ S
    /\ num_active' = num_active - Cardinality(S)
    /\ again' = again \cup (S \ time_order)

\* _worker_request_done_external: the request is freed when the call returns.
DoneExternal(r, rest) ==
    /\ Untrack(r)
    /\ Reply(r, <<Call("free", r)>> \o rest)

\* The subrequest of r, which request->data and the frame that waits for it name.
ChildOf(r) == {c \in Children : parent[c] = r}

\* phase, with every request in S in phase p
InPhase(S, p) == [r \in Requests |-> IF r \in S THEN p ELSE phase[r]]

\* talloc_free, for every request in S
Free(S) ==
    /\ phase' = InPhase(S, "freed")
    /\ parent' = [c \in Children |-> IF c \in S THEN c ELSE parent[c]]

\* _worker_request_done_internal: what made the subrequest frees it.
DoneInternal(rest) ==
    /\ stack' = rest
    /\ UNCHANGED <<dedup, answers, replies, refused>>

\* _worker_request_stop, for every request in S
RequestStop(S) ==
    /\ runnable' = runnable \ S
    /\ yielded' = yielded \ S

\* unlang_interpret_signal with FR_SIGNAL_CANCEL for the requests in S, of which
\* r comes last: each is stopped, and then done.
Cancel(S, r, rest) ==
    /\ RequestStop(S)
    /\ TimeTrackingEnd(S)
    /\ phase' = InPhase(S \cap Children, "stopped")
    /\ IF r \in Packets THEN DoneExternal(r, rest) ELSE DoneInternal(rest)
    /\ UNCHANGED parent

\* Variant of StopRequest: the signal is not passed on.
StopRequestAlone(r, rest) == Cancel({r}, r, rest)

\* worker_stop_request.  The frame that waits for a subrequest passes the signal
\* on, whether or not that subrequest has ended; the frame of a subrequest
\* ignores it, so that its parent is not told.
StopRequest(r, rest) == Cancel({r} \cup ChildOf(r), r, rest)

\* talloc_free(request) after the reply; its data, and so its subrequest, go too.
FreeRequest ==
    /\ In("free")
    /\ Free({Top.arg} \cup ChildOf(Top.arg))
    /\ stack' = Caller
    /\ UNCHANGED <<queue, runnable, time_order, dedup, num_active, yielded, again, answers, replies, refused, channel, state>>

-----------------------------------------------------------------------------
(* The beginning of a request: worker_request_bootstrap *)

\* FR_CHANNEL_DATA_READY_RESPONDER: the channel is read until it is empty.
DataReady ==
    /\ EventLoop /\ channel # "closed" /\ queue # <<>>
    /\ stack' = <<Drain>>
    /\ UNCHANGED <<queue, phase, runnable, time_order, dedup, num_active, yielded, parent, again, answers, replies, refused, channel, state>>

DrainEnds ==
    /\ In("drain") /\ queue = <<>>
    /\ stack' = Caller
    /\ UNCHANGED <<queue, phase, runnable, time_order, dedup, num_active, yielded, parent, again, answers, replies, refused, channel, state>>

\* fr_channel_recv_request pops p.
Recv(p) == In("drain") /\ queue # <<>> /\ p = Head(queue) /\ queue' = Tail(queue)

Full == Cardinality(time_order) >= MaxRequests

\* Variant of Nak: the function goes on after the NAK.
NakGoesOn(p) ==
    /\ Recv(p)
    /\ Reply(p, <<Call("insert", p)>> \o stack)
    /\ UNCHANGED <<phase, runnable, time_order, dedup, num_active, yielded, parent, again, channel, state>>

\* Too many requests, or the packet cannot be decoded: worker_nak.
Nak(p) ==
    /\ Recv(p)
    /\ phase' = [phase EXCEPT ![p] = "freed"]
    /\ Reply(p, stack)
    /\ UNCHANGED <<runnable, time_order, dedup, num_active, yielded, parent, again, channel, state>>

Old(p) == {d \in dedup : Ctx[d] = Ctx[p]}

\* fr_channel_null_reply: the network learns of it without a reply.
NullReply(p) ==
    /\ answers' = [answers EXCEPT ![p] = @ + 1]
    /\ phase' = [phase EXCEPT ![p] = "freed"]
    /\ UNCHANGED <<runnable, time_order, dedup, num_active, yielded, parent, again, stack, replies, refused, channel, state>>

\* "Ignore duplicate packets where we've already sent the reply", and the
\* duplicate of a request that is there; the signal FR_SIGNAL_DUP does nothing
\* in the worker.
Duplicate(p) ==
    /\ Recv(p) /\ ~Full
    /\ IF Old(p) = {} THEN p \in Dups ELSE \E old \in Old(p) : RecvTime[old] = RecvTime[p]
    /\ NullReply(p)

\* worker_request_time_tracking_start
TimeTrackingStart(r) ==
    /\ time_order' = time_order \cup {r}
    /\ num_active' = num_active + 1
    /\ runnable' = runnable \cup {r}
    /\ phase' = [phase EXCEPT ![r] = "live"]

\* fr_rb_insert, whose result is ignored
Start(p) ==
    /\ dedup' = IF Old(p) = {} THEN dedup \cup {p} ELSE dedup
    /\ TimeTrackingStart(p)
    /\ UNCHANGED <<yielded, parent, again>>

NewRequest(p) ==
    /\ Recv(p) /\ ~Full
    /\ Old(p) = {} /\ p \notin Dups
    /\ Start(p)
    /\ UNCHANGED <<stack, answers, replies, refused, channel, state>>

\* Variant of Conflict: the old request goes on.
ConflictKeepsOld(p) ==
    /\ Recv(p) /\ ~Full
    /\ \E old \in Old(p) : RecvTime[old] # RecvTime[p]
    /\ stack' = <<Call("insert", p)>> \o stack
    /\ UNCHANGED <<phase, runnable, time_order, dedup, num_active, yielded, parent, again, answers, replies, refused, channel, state>>

\* The old request is stopped, and then the new one inserted.
Conflict(p) ==
    /\ Recv(p) /\ ~Full
    /\ \E old \in Old(p) : RecvTime[old] # RecvTime[p] /\ StopRequest(old, <<Call("insert", p)>> \o stack)
    /\ UNCHANGED <<channel, state>>

\* The old request is gone: the label insert_new.
InsertNew ==
    /\ In("insert")
    /\ Start(Top.arg)
    /\ stack' = Caller
    /\ UNCHANGED <<queue, answers, replies, refused, channel, state>>

-----------------------------------------------------------------------------
(* Running requests *)

\* A request that waited for its subrequest frees it.  That its attributes cannot
\* be copied, which leaves it until the request ends, is left out.
ParentResume(r) == Free(ChildOf(r))

\* worker_run_request takes the first request of the heap.  A request of a packet
\* is stopped when the channel is gone; a subrequest has no channel.
RunRequest(r) ==
    /\ EventLoop
    /\ r \in Oldest(runnable)
    /\ IF r \in Packets /\ channel # "active"
       THEN /\ StopRequest(r, <<>>)
       ELSE /\ runnable' = runnable \ {r}
            /\ yielded' = yielded \ {r}
            /\ ParentResume(r)
            /\ stack' = <<Call("interpret", r)>>
            /\ UNCHANGED <<time_order, dedup, num_active, again, answers, replies, refused>>
    /\ UNCHANGED <<queue, channel, state>>

\* unlang_interpret returns: the request yields.
Yield ==
    /\ In("interpret")
    /\ yielded' = yielded \cup {Top.arg}
    /\ stack' = Caller
    /\ UNCHANGED <<queue, phase, runnable, time_order, dedup, num_active, parent, again, answers, replies, refused, channel, state>>

\* unlang_subrequest_child_run calls _worker_request_internal_init, and the
\* parent yields.
ChildRun(c) ==
    /\ TimeTrackingStart(c)
    /\ yielded' = yielded \cup {Top.arg}
    /\ stack' = Caller

\* unlang_subrequest_parent_init: the request makes a subrequest and waits for it.
Subrequest(c) ==
    /\ In("interpret") /\ Top.arg \in Packets
    /\ phase[c] = "new" /\ RecvTime[c] >= RecvTime[Top.arg]
    /\ parent' = [parent EXCEPT ![c] = Top.arg]
    /\ ChildRun(c)
    /\ UNCHANGED <<queue, dedup, again, answers, replies, refused, channel, state>>

\* The request of a packet is done.
Finish ==
    /\ In("interpret") /\ Top.arg \in Packets
    /\ TimeTrackingEnd({Top.arg})
    /\ DoneExternal(Top.arg, Caller)
    /\ UNCHANGED <<queue, phase, runnable, yielded, parent, channel, state>>

\* unlang_interpret_mark_runnable, for a request that has yielded
WithRunnable(r) == runnable \cup ({r} \cap yielded)

\* A subrequest is done: unlang_subrequest_child_done wakes its parent.
ChildDone ==
    /\ In("interpret") /\ Top.arg \in Children
    /\ runnable' = WithRunnable(parent[Top.arg])
    /\ TimeTrackingEnd({Top.arg})
    /\ phase' = InPhase({Top.arg}, "done")
    /\ DoneInternal(Caller)
    /\ UNCHANGED <<queue, yielded, parent, channel, state>>

\* The event a request waits for: _worker_request_runnable.  Nothing but its
\* subrequest wakes the request that waits for one.
MarkRunnable(r) ==
    /\ EventLoop /\ r \in yielded \ runnable /\ ChildOf(r) = {}
    /\ runnable' = WithRunnable(r)
    /\ UNCHANGED <<queue, phase, time_order, dedup, num_active, yielded, parent, again, stack, answers, replies, refused, channel, state>>

-----------------------------------------------------------------------------
(* worker_max_request_time *)

\* The timer runs when requests received until t are too old.
MaxRequestTime(t) ==
    /\ EventLoop /\ time_order # {}
    /\ stack' = <<Call("timer", t)>>
    /\ UNCHANGED <<queue, phase, runnable, time_order, dedup, num_active, yielded, parent, again, answers, replies, refused, channel, state>>

\* fr_heap_peek_tail: the last entry of the array, never the first of several.
PeekTail == {r \in time_order : time_order = {r} \/ \E q \in time_order \ {r} : RecvTime[q] <= RecvTime[r]}

\* Variant of TimerStops: only requests that can run are looked at.
TimerStopsRunnable ==
    /\ In("timer")
    /\ \E r \in PeekTail \cap runnable : RecvTime[r] <= Top.arg /\ StopRequest(r, stack)
    /\ UNCHANGED <<queue, channel, state>>

\* One turn of the loop.
TimerStops ==
    /\ In("timer")
    /\ \E r \in PeekTail : RecvTime[r] <= Top.arg /\ StopRequest(r, stack)
    /\ UNCHANGED <<queue, channel, state>>

TimerEnds ==
    /\ In("timer")
    /\ time_order = {} \/ \E r \in PeekTail : RecvTime[r] > Top.arg
    /\ stack' = Caller
    /\ UNCHANGED <<queue, phase, runnable, time_order, dedup, num_active, yielded, parent, again, answers, replies, refused, channel, state>>

-----------------------------------------------------------------------------
(* The end of the worker *)

\* FR_CHANNEL_CLOSE: the last channel closes, so the worker exits.
Close ==
    /\ EventLoop /\ channel = "closing"
    /\ channel' = "closed"
    /\ state' = "exiting"
    /\ UNCHANGED <<queue, phase, runnable, time_order, dedup, num_active, yielded, parent, again, stack, answers, replies, refused>>

\* fr_worker_destroy: one turn of the loop that stops the oldest request, and
\* the end.
Destroy ==
    /\ EventLoop /\ state = "exiting"
    /\ IF time_order # {}
       THEN \E r \in Oldest(time_order) : StopRequest(r, stack) /\ UNCHANGED state
       ELSE state' = "destroyed" /\ UNCHANGED <<phase, runnable, time_order, dedup, num_active, yielded, parent, again, stack, answers, replies, refused>>
    /\ UNCHANGED <<queue, channel>>

Next ==
    \/ \E p \in Packets : SendRequest(p) \/ Nak(p) \/ Duplicate(p) \/ NewRequest(p) \/ Conflict(p)
    \/ \E r \in Requests : RunRequest(r) \/ MarkRunnable(r) \/ MaxRequestTime(RecvTime[r])
    \/ \E c \in Children : Subrequest(c)
    \/ RecvReply \/ SignalClose \/ Close \/ Destroy
    \/ DataReady \/ DrainEnds \/ FreeRequest \/ InsertNew
    \/ Yield \/ Finish \/ ChildDone \/ TimerStops \/ TimerEnds

Spec == Init /\ [][Next]_vars

\* Calls return, and the event loop serves the channel, the heap of requests
\* and the timer, which in time is late enough for every request.
FairSpec ==
    /\ Spec
    /\ WF_vars(\E p \in Packets : Nak(p) \/ Duplicate(p) \/ NewRequest(p) \/ Conflict(p))
    /\ WF_vars(DrainEnds \/ FreeRequest \/ InsertNew \/ Yield \/ Finish \/ ChildDone \/ TimerStops \/ TimerEnds)
    /\ SF_vars(DataReady) /\ SF_vars(\E r \in Requests : RunRequest(r))
    /\ SF_vars(MaxRequestTime(CHOOSE t \in {RecvTime[r] : r \in Requests} : \A r \in Requests : RecvTime[r] <= t))
    /\ SF_vars(Close) /\ SF_vars(Destroy)

-----------------------------------------------------------------------------
(* Properties *)

Calls == {"drain", "free", "insert", "interpret", "timer"}

TypeOK ==
    /\ phase \in [Requests -> {"new", "queued", "live", "done", "stopped", "freed"}]
    /\ runnable \cup time_order \cup yielded \subseteq Requests /\ dedup \subseteq Packets
    /\ num_active \in Int /\ again \subseteq Children /\ parent \in [Children -> Requests]
    /\ replies \in 0 .. QueueSize /\ refused \subseteq Packets
    /\ \A i \in DOMAIN stack : stack[i].op \in Calls
    /\ channel \in {"active", "closing", "closed"} /\ state \in {"running", "exiting", "destroyed"}

\* The network thread "believes that a worker is running a request until that
\* request has been NAK'd" or answered: every packet is answered at most once,
\* and while the channel is open the request is not freed without an answer,
\* unless the queue of replies was full when it was to be sent.
AnsweredOnce ==
    \A p \in Packets :
        /\ answers[p] <= 1
        /\ p \in refused => answers[p] = 0
        /\ phase[p] = "freed" /\ channel = "active" => answers[p] = 1 \/ p \in refused

\* A request waits for its subrequest, and the subrequest wakes it: while the
\* subrequest is active its parent is suspended, once it is done its parent can
\* run.  A subrequest is not freed later than its parent, although it is not a
\* talloc child of it.
ParentsWait ==
    \A c \in Children :
        /\ c \in time_order => parent[c] \in yielded \ runnable
        /\ phase[c] = "done" => parent[c] \in yielded \cap runnable
        /\ phase[c] \in {"live", "done", "stopped"} => phase[parent[c]] = "live"

\* The heaps, the tree and the counter agree: what can run, waits or is tracked
\* is a live request in the time order, whatever other calls are under way; and
\* when fr_worker_destroy has stopped the active requests none is left, which is
\* its assertion.  The counter is exact until a subrequest that had ended is ended
\* again, by the signal for its parent, against the assertions of the code.  A
\* call that has not returned will use its request, so no call inside it frees
\* that request, and no two calls have the same one.
HeapsAgree ==
    /\ TypeOK
    /\ ParentsWait
    /\ again = {} => num_active = Cardinality(time_order)
    /\ runnable \cup yielded \cup dedup \subseteq time_order
    /\ \A r \in time_order : phase[r] = "live"
    /\ state = "destroyed" => time_order = {}
    /\ LET held == {i \in DOMAIN stack : stack[i].op \in {"free", "insert", "interpret"}}
       IN  \A i \in held :
            /\ phase[stack[i].arg] = IF stack[i].op = "insert" THEN "queued" ELSE "live"
            /\ \A j \in held \ {i} : stack[j].arg # stack[i].arg

\* "There's a new packet.  Do we keep the old one, or the new one?"  Of packets
\* with the same packet_ctx one request is active.  This needs that no third
\* packet of that packet_ctx comes while the first is stopped for the second.
OneRequestPerContext ==
    (\A c \in {Ctx[p] : p \in Packets} : Cardinality({p \in Packets \ Dups : Ctx[p] = c}) <= 2)
        => \A q, r \in time_order \cap Packets : Ctx[q] = Ctx[r] => q = r

\* max_request_time: every packet that was sent is answered, however long its
\* request would wait, unless the channel closes or the queue of replies is full
\* when the reply is sent; that reply is not sent again.
EveryPacketAnswered ==
    \A p \in Packets :
        phase[p] = "queued" ~> (answers[p] = 1 \/ p \in refused \/ channel # "active")
=============================================================================
