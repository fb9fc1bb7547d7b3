--------------------------- MODULE NetworkSocket ---------------------------
(***************************************************************************)
(* The sockets of a network thread: src/lib/io/network.c from the packet   *)
(* read to the reply written.  The thread serves one event at a time, and  *)
(* after the events fr_network_post_event hands the replies to the         *)
(* sockets.  fr_network_read and fr_network_write are loops around calls   *)
(* of the transport, whose answers are free choices here; each turn of a   *)
(* loop is a step.                                                         *)
(*                                                                         *)
(* Where a packet goes in between is the matter of Dispatch and Channel:   *)
(* here it is with a worker until its reply, if there is one, is put into  *)
(* the heap of replies.  The order of that heap is left open.  The heap of *)
(* waiting messages of a socket is not here: a message is inserted only    *)
(* into an empty one, and taken out by the write that follows at once.     *)
(* Assertions are not part of the build.                                   *)
(***************************************************************************)
EXTENDS Integers, FiniteSets

CONSTANTS
    Listeners,      \* fr_listen_t
    Packets,        \* packets, each read once or written once by a listener
    Burst,          \* turns of fr_network_read after which it stops (16)
    NULL

ASSUME SocketAssumption ==
    Burst \in Nat /\ IsFiniteSet(Packets) /\ NULL \notin Packets \cup Listeners

VARIABLES
    socket,         \* fr_network_socket_t of every listener
    packet,         \* where every packet is
    call,           \* the handler that is running
    posting,        \* whether fr_network_post_event is running
    exited          \* whether fr_network_destroy has run

vars == <<socket, packet, call, posting, exited>>

Unused == [state |-> "none", dead |-> FALSE, blocked |-> FALSE, outstanding |-> 0, cd |-> FALSE,
           pending |-> NULL, written |-> 0]
NewPacket == [at |-> "new", listen |-> NULL, localized |-> FALSE]
NoCall == [op |-> "none", s |-> NULL, n |-> 0, cd |-> NULL]

Init ==
    /\ socket = [s \in Listeners |-> Unused]
    /\ packet = [p \in Packets |-> NewPacket]
    /\ call = NoCall /\ posting = FALSE /\ exited = FALSE

\* The event loop is about to call a handler.
Event == call = NoCall /\ ~posting /\ ~exited

Open(s) == socket[s].state = "open"
Of(s, places) == {p \in Packets : packet[p].listen = s /\ packet[p].at \in places}

Move(p, place) == [packet EXCEPT ![p].at = place]

-----------------------------------------------------------------------------
(* The life of a socket *)

\* fr_network_listen_callback
Listen(s) ==
    /\ Event /\ socket[s].state = "none"
    /\ socket' = [socket EXCEPT ![s].state = "open"]
    /\ UNCHANGED <<packet, call, posting, exited>>

Freed == [Unused EXCEPT !.state = "freed"]

\* _network_socket_free: the replies the socket still has are done.
FreeReplies(pk, s) ==
    [p \in Packets |-> IF pk[p].listen = s /\ pk[p].at = "pending"
                       THEN [pk[p] EXCEPT !.at = "done"] ELSE pk[p]]

\* Variant of DeadSocket: the socket is freed at once.
DeadSocketFreed(sk) == IF sk.dead THEN sk ELSE Freed

\* fr_network_socket_dead
DeadSocket(sk) ==
    IF sk.dead THEN sk
    ELSE IF sk.outstanding = 0 THEN Freed
    ELSE [sk EXCEPT !.dead = TRUE]

\* What becomes of socket s, of the packets, and of the handler's last write.
Dies(s, sk, pk) ==
    /\ socket' = [socket EXCEPT ![s] = DeadSocket(sk)]
    /\ packet' = IF DeadSocket(sk) = Freed THEN FreeReplies(pk, s) ELSE pk
    /\ call' = NoCall

\* fr_network_error, and fr_network_socket_delete called by the listener.
Error(s) ==
    /\ Event /\ Open(s)
    /\ Dies(s, socket[s], packet)
    /\ UNCHANGED <<posting, exited>>

\* fr_network_destroy: all sockets are freed, and all replies are done.
Destroy ==
    /\ Event
    /\ exited' = TRUE
    /\ socket' = [s \in Listeners |-> IF Open(s) THEN Freed ELSE socket[s]]
    /\ packet' = [p \in Packets |-> IF packet[p].at \in {"heap", "pending"}
                                    THEN [packet[p] EXCEPT !.at = "done"] ELSE packet[p]]
    /\ UNCHANGED <<call, posting>>

-----------------------------------------------------------------------------
(* Reading *)

\* fr_network_read begins, for an event, fr_network_listen_read or an injected
\* packet; the latter two find dead sockets as well.  Without a cached message
\* one is reserved.
ReadBegins(s) ==
    /\ Event /\ Open(s)
    /\ call' = [NoCall EXCEPT !.op = "read", !.s = s]
    /\ UNCHANGED <<socket, packet, posting, exited>>

\* The reservation fails and there is no cached message.
NoMessage ==
    /\ call.op = "read" /\ call.n = 0
    /\ ~socket[call.s].cd
    /\ Dies(call.s, socket[call.s], packet)
    /\ UNCHANGED <<posting, exited>>

\* Enough turns, or no data: the message is cached.
ReadEnds ==
    /\ call.op = "read"
    /\ socket' = [socket EXCEPT ![call.s].cd = TRUE]
    /\ call' = NoCall
    /\ UNCHANGED <<packet, posting, exited>>

\* The transport says that the socket is no longer usable.
ReadFails ==
    /\ call.op = "read" /\ call.n <= Burst
    /\ Dies(call.s, socket[call.s], packet)
    /\ UNCHANGED <<posting, exited>>

\* s->outstanding after fr_network_send_request
Counted(n, sent) == IF sent THEN n + 1 ELSE n

\* A packet is read and sent, or dropped; with another message in the buffer,
\* the loop goes on.
ReadPacket(p, sent, next) ==
    /\ call.op = "read" /\ call.n <= Burst
    /\ packet[p].at = "new"
    /\ packet' = [packet EXCEPT ![p] = [at |-> IF sent THEN "worker" ELSE "done",
                                        listen |-> call.s, localized |-> FALSE]]
    /\ socket' = [socket EXCEPT ![call.s].cd = FALSE, ![call.s].outstanding = Counted(@, sent)]
    /\ call' = IF next THEN [call EXCEPT !.n = @ + 1] ELSE NoCall
    /\ UNCHANGED <<posting, exited>>

\* fr_network_listen_write, called by a transport that reads a duplicate: its
\* old reply is put into the heap as a localized message.
ListenWrite(s, p) ==
    /\ call.op = "read" /\ Open(s)
    /\ packet[p].at = "new"
    /\ packet' = [packet EXCEPT ![p] = [at |-> "heap", listen |-> s, localized |-> TRUE]]
    /\ UNCHANGED <<socket, call, posting, exited>>

-----------------------------------------------------------------------------
(* The worker's answer *)

\* fr_network_recv_reply, for an event or inside fr_network_send_request.
RecvReply(p) ==
    /\ call.op # "write" /\ ~posting /\ ~exited
    /\ packet[p].at = "worker"
    /\ packet' = Move(p, "heap")
    /\ UNCHANGED <<socket, call, posting, exited>>

\* fr_channel_null_reply: the network thread does not hear of it.
NullReply(p) ==
    /\ packet[p].at = "worker"
    /\ packet' = Move(p, "null")
    /\ UNCHANGED <<socket, call, posting, exited>>

-----------------------------------------------------------------------------
(* Handing the replies to the sockets *)

\* fr_network_post_event begins.
PostBegins ==
    /\ Event
    /\ \E p \in Packets : packet[p].at = "heap"
    /\ posting' = TRUE
    /\ UNCHANGED <<socket, packet, call, exited>>

PostEnds ==
    /\ posting /\ call = NoCall
    /\ \A p \in Packets : packet[p].at # "heap"
    /\ posting' = FALSE
    /\ UNCHANGED <<socket, packet, call, exited>>

PostTurn(p) == posting /\ call = NoCall /\ packet[p].at = "heap"

\* "This shouldn't happen, but be safe..."
NoSocket(p) ==
    /\ PostTurn(p) /\ ~Open(packet[p].listen)
    /\ packet' = Move(p, "done")
    /\ UNCHANGED <<socket, call, posting, exited>>

\* One packet less is outstanding, unless the listener wrote this one.
Answered(p, sk) == IF packet[p].localized THEN sk ELSE [sk EXCEPT !.outstanding = @ - 1]

\* Variant of DeadTurn: the socket stays.
DeadTurnStays(p) ==
    LET s == packet[p].listen
    IN  /\ PostTurn(p) /\ Open(s) /\ socket[s].dead
        /\ socket' = [socket EXCEPT ![s] = Answered(p, @)]
        /\ packet' = Move(p, "done")
        /\ UNCHANGED <<call, posting, exited>>

\* A reply for a dead socket, which is freed with the last one.
DeadTurn(p) ==
    LET s == packet[p].listen
        sk == Answered(p, socket[s])
    IN  /\ PostTurn(p) /\ Open(s) /\ socket[s].dead
        /\ socket' = [socket EXCEPT ![s] = IF sk.outstanding = 0 THEN Freed ELSE sk]
        /\ packet' = IF sk.outstanding = 0 THEN FreeReplies(Move(p, "done"), s) ELSE Move(p, "done")
        /\ UNCHANGED <<call, posting, exited>>

\* A reply without data.
EmptyTurn(p) ==
    LET s == packet[p].listen
    IN  /\ PostTurn(p) /\ Open(s) /\ ~socket[s].dead
        /\ socket' = [socket EXCEPT ![s] = Answered(p, @)]
        /\ packet' = Move(p, "done")
        /\ UNCHANGED <<call, posting, exited>>

\* Nothing is pending: the reply is inserted, and fr_network_write called.
WriteTurn(p) ==
    LET s == packet[p].listen
    IN  /\ PostTurn(p) /\ Open(s) /\ ~socket[s].dead
        /\ socket[s].pending = NULL
        /\ socket' = [socket EXCEPT ![s] = Answered(p, @)]
        /\ packet' = Move(p, "writing")
        /\ call' = [NoCall EXCEPT !.op = "write", !.s = s, !.cd = p]
        /\ UNCHANGED <<posting, exited>>

\* Something is pending: the reply is left where it is, in no list.
PendingTurn(p) ==
    LET s == packet[p].listen
    IN  /\ PostTurn(p) /\ Open(s) /\ ~socket[s].dead
        /\ socket[s].pending # NULL
        /\ socket' = [socket EXCEPT ![s] = Answered(p, @)]
        /\ packet' = Move(p, "nowhere")
        /\ UNCHANGED <<call, posting, exited>>

-----------------------------------------------------------------------------
(* Writing *)

\* Variant of WriteReady: the priority heap first.
WriteReadyWaiting(s) ==
    /\ Event /\ Open(s) /\ ~socket[s].dead
    /\ socket[s].blocked
    /\ socket' = [socket EXCEPT ![s].blocked = FALSE]
    /\ UNCHANGED <<packet, call, posting, exited>>

\* The event loop calls fr_network_write: the pending message goes first.
WriteReady(s) ==
    /\ Event /\ Open(s) /\ ~socket[s].dead
    /\ socket[s].blocked /\ socket[s].pending # NULL
    /\ call' = [NoCall EXCEPT !.op = "write", !.s = s, !.cd = socket[s].pending]
    /\ socket' = [socket EXCEPT ![s].pending = NULL]
    /\ UNCHANGED <<packet, posting, exited>>

\* The transport closes the socket or fails, or the message cannot be saved:
\* the label dead.
WriteFails ==
    /\ call.op = "write"
    /\ Dies(call.s, socket[call.s], Move(call.cd, "done"))
    /\ UNCHANGED <<posting, exited>>

\* The label save_pending: the message is localized, and there is a callback.
Saved(sk, p, part) == [sk EXCEPT !.pending = p, !.blocked = TRUE, !.written = IF part THEN 1 ELSE @]

\* The write would block, or wrote a part of the message.
WriteBlocks(part) ==
    /\ call.op = "write"
    /\ socket' = [socket EXCEPT ![call.s] = Saved(@, call.cd, part)]
    /\ packet' = [packet EXCEPT ![call.cd].at = "pending", ![call.cd].localized = TRUE]
    /\ call' = NoCall
    /\ UNCHANGED <<posting, exited>>

\* All is written: the write callback goes, and if that fails, the socket.
Written(removed) ==
    LET s == call.s
        sk == [socket[s] EXCEPT !.written = 0, !.blocked = FALSE]
    IN  /\ call.op = "write"
        /\ IF removed
           THEN /\ socket' = [socket EXCEPT ![s] = sk]
                /\ packet' = Move(call.cd, "done")
                /\ call' = NoCall
           ELSE Dies(s, sk, Move(call.cd, "done"))
        /\ UNCHANGED <<posting, exited>>

Next ==
    \/ \E s \in Listeners : Listen(s) \/ Error(s) \/ ReadBegins(s) \/ WriteReady(s)
    \/ \E s \in Listeners, p \in Packets : ListenWrite(s, p)
    \/ \E p \in Packets, sent, next \in BOOLEAN : ReadPacket(p, sent, next)
    \/ NoMessage \/ ReadEnds \/ ReadFails
    \/ \E p \in Packets : RecvReply(p) \/ NullReply(p)
    \/ PostBegins \/ PostEnds
    \/ \E p \in Packets : NoSocket(p) \/ DeadTurn(p) \/ EmptyTurn(p) \/ WriteTurn(p) \/ PendingTurn(p)
    \/ WriteFails \/ (\E part \in BOOLEAN : WriteBlocks(part)) \/ (\E removed \in BOOLEAN : Written(removed))
    \/ Destroy

Spec == Init /\ [][Next]_vars

\* Handlers end, and the event loop calls fr_network_post_event after every
\* round of events; workers answer; a blocked socket is served again and again
\* when it can be written, and does not block for ever.
FairSpec ==
    /\ Spec
    /\ WF_vars(ReadEnds) /\ SF_vars(PostBegins) /\ WF_vars(PostEnds)
    /\ WF_vars(\E p \in Packets : RecvReply(p) \/ NullReply(p))
    /\ WF_vars(\E p \in Packets : NoSocket(p) \/ DeadTurn(p) \/ EmptyTurn(p) \/ WriteTurn(p) \/ PendingTurn(p))
    /\ \A s \in Listeners : SF_vars(WriteReady(s)) /\ SF_vars(call.s = s /\ (Written(TRUE) \/ WriteFails))

-----------------------------------------------------------------------------
(* Properties *)

Places == {"new", "worker", "null", "heap", "writing", "pending", "nowhere", "done"}

TypeOK ==
    /\ \A s \in Listeners :
         /\ socket[s].state \in {"none", "open", "freed"}
         /\ {socket[s].dead, socket[s].blocked, socket[s].cd} \subseteq BOOLEAN
         /\ socket[s].outstanding \in 0 .. Cardinality(Packets)
         /\ socket[s].pending \in Packets \cup {NULL} /\ socket[s].written \in 0 .. 1
    /\ packet \in [Packets -> [at : Places, listen : Listeners \cup {NULL}, localized : BOOLEAN]]
    /\ call.op \in {"none", "read", "write"} /\ call.n \in 0 .. Burst + 1

\* s->outstanding is the number of packets whose reply has not been handed out;
\* a null reply is never handed out.  "DON'T free it until all of the replies
\* have come in": the packets lie in the message set of the socket, so while the
\* network runs a socket is freed only when no worker holds a packet of it.
\* fr_assert(!s->blocked) of fr_network_post_event, and what a saved write needs
\* to be continued: between writes a live socket has a pending message exactly
\* when it has a write callback, and the part already written is of that message.
SocketsAccounted ==
    /\ TypeOK
    /\ \A s \in Listeners : Open(s) =>
         socket[s].outstanding = Cardinality({p \in Of(s, {"worker", "heap", "null"}) : ~packet[p].localized})
    /\ \A s \in Listeners : socket[s].state = "freed" /\ ~exited => Of(s, {"worker"}) = {}
    /\ \A s \in Listeners : Open(s) /\ ~socket[s].dead /\ ~(call.op = "write" /\ call.s = s) =>
        /\ socket[s].blocked <=> socket[s].pending # NULL
        /\ socket[s].written > 0 => socket[s].pending # NULL
        /\ socket[s].pending # NULL => packet[socket[s].pending].at = "pending"

\* "When we've received all of the replies, then fr_network_post_event() will
\* clean up this socket": a dead socket is freed, unless a request of it ended
\* without a reply.
DeadIsFreed ==
    \A s \in Listeners : socket[s].dead ~> (~Open(s) \/ Of(s, {"null"}) # {})

\* A pending message is written in the end, or its socket dies.
PendingIsFinished ==
    \A p \in Packets : packet[p].at = "pending"
        ~> (packet[p].at = "done" \/ \E s \in Listeners : p \in Of(s, {"pending"}) /\ socket[s].dead)
=============================================================================
