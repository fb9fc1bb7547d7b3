------------------------------ MODULE Control ------------------------------
(***************************************************************************)
(* The control plane of src/lib/io/control.c: threads send small messages  *)
(* to one thread, which is woken through a pipe.  A sender keeps its       *)
(* messages in its own ring buffer, pushes pointers to them on the atomic  *)
(* queue of the receiver and writes one byte for each; the receiver reads  *)
(* the bytes and pops one message per byte.                                *)
(*                                                                         *)
(* A push claims an entry of the atomic queue and then publishes it, as in *)
(* AtomicQueue.  Messages take one unit of the ring buffer.  The order of  *)
(* the messages of a sender is kept as a sequence number.  Every id has a  *)
(* callback; the mode in which both ends are in the same thread calls it   *)
(* directly and needs none of this.                                        *)
(***************************************************************************)
EXTENDS RingOps, FiniteSets

CONSTANTS
    Senders,        \* the threads that send
    RbSize,         \* messages in the ring buffer of a sender
    AqSize,         \* entries of the atomic queue
    PipeSize,       \* bytes the pipe holds
    ReadSize,       \* bytes read from the pipe at once (256)
    MaxSends        \* bound: calls of fr_control_message_send by each sender

ASSUME ControlAssumption ==
    /\ IsFiniteSet(Senders)
    /\ RbSize \in Nat \ {0} /\ AqSize \in Nat \ {0} /\ ReadSize \in Nat \ {0} /\ MaxSends \in Nat
    /\ PipeSize \in Nat /\ AqSize <= PipeSize

VARIABLES
    rb,         \* rb[s]: the ring buffer of sender s
    status,     \* status[s][o]: the status of the message at offset o of rb[s]
    pc,         \* pc[s]: where sender s is in fr_control_message_send
    calls,      \* calls[s]: the calls it has made
    aq,         \* the entries of the atomic queue: pointer, sequence number, published
    bytes,      \* the bytes in the pipe
    todo,       \* the bytes read by pipe_read for which it has not popped a message yet
    got,        \* the message that fr_control_message_pop has popped and is copying
    seen        \* history: seen[s] is the last message of s that reached its callback

vars == <<rb, status, pc, calls, aq, bytes, todo, got, seen>>

Offsets == 0 .. RbSize - 1
Statuses == {"FREE", "USED", "DONE"}
Nothing == [from |-> "none", at |-> NoRoom, n |-> 0, published |-> FALSE]

Init ==
    /\ rb = [s \in Senders |-> NewRing(RbSize)]
    /\ status = [s \in Senders |-> [o \in Offsets |-> "FREE"]]
    /\ pc = [s \in Senders |-> "idle"]
    /\ calls = [s \in Senders |-> 0]
    /\ aq = << >>
    /\ bytes = 0
    /\ todo = 0
    /\ got = Nothing
    /\ seen = [s \in Senders |-> 0]

-----------------------------------------------------------------------------
(* A sender *)

\* How many messages fr_control_gc can free: the oldest ones, up to the first
\* that is not done.
Collectable(s) ==
    LET oldest == Layout(rb[s])
    IN  {n \in 0 .. Len(oldest) : \A k \in 1 .. n : status[s][oldest[k]] = "DONE"}

\* fr_control_gc frees all of them.  The status of freed memory is not read
\* again.  There is one such ring buffer.
Collected(s) == {Free(rb[s], n) : n \in {m \in Collectable(s) : m + 1 \notin Collectable(s)}}

\* The ring buffer from which fr_control_message_alloc takes the message.
RoomFor(s) == IF Fits(rb[s], 1) THEN {rb[s]} ELSE Collected(s)

\* fr_control_message_push finds no room, also after collecting.
NoMessage(s) ==
    /\ pc[s] = "idle" /\ calls[s] < MaxSends
    /\ \E room \in RoomFor(s) : ~Fits(room, 1) /\ rb' = [rb EXCEPT ![s] = room]
    /\ calls' = [calls EXCEPT ![s] = @ + 1]
    /\ UNCHANGED <<status, pc, aq, bytes, todo, got, seen>>

\* The entry of the atomic queue for the message at offset o.
NewEntry(s, o) == [from |-> s, at |-> o, n |-> calls[s] + 1, published |-> FALSE]

\* fr_control_message_alloc, then fr_atomic_queue_push claims an entry.
Claim(s) ==
    /\ pc[s] = "idle" /\ calls[s] < MaxSends
    /\ Len(aq) < AqSize
    /\ \E room \in RoomFor(s) :
         /\ Fits(room, 1)
         /\ rb' = [rb EXCEPT ![s] = Alloc(room, 1)]
         /\ status' = [status EXCEPT ![s][Place(room, 1)] = "USED"]
         /\ aq' = Append(aq, NewEntry(s, Place(room, 1)))
    /\ calls' = [calls EXCEPT ![s] = @ + 1]
    /\ pc' = [pc EXCEPT ![s] = "publish"]
    /\ UNCHANGED <<bytes, todo, got, seen>>

\* fr_atomic_queue_push fails: the message is marked done, and the call returns
\* without writing to the pipe.
QueueFull(s) ==
    /\ pc[s] = "idle" /\ calls[s] < MaxSends
    /\ Len(aq) = AqSize
    /\ \E room \in RoomFor(s) :
         /\ Fits(room, 1)
         /\ rb' = [rb EXCEPT ![s] = Alloc(room, 1)]
         /\ status' = [status EXCEPT ![s][Place(room, 1)] = "DONE"]
    /\ calls' = [calls EXCEPT ![s] = @ + 1]
    /\ UNCHANGED <<pc, aq, bytes, todo, got, seen>>

\* The entry becomes visible to the receiver.
Publish(s) ==
    /\ pc[s] = "publish"
    /\ aq' = [i \in DOMAIN aq |->
                IF aq[i].from = s
                THEN [from |-> s, at |-> aq[i].at, n |-> aq[i].n, published |-> TRUE]
                ELSE aq[i]]
    /\ pc' = [pc EXCEPT ![s] = "write"]
    /\ UNCHANGED <<rb, status, calls, bytes, todo, got, seen>>

\* Variant of Write: the byte is written only if the pipe is empty.
WriteIfEmpty(s) ==
    /\ pc[s] = "write"
    /\ bytes' = IF bytes = 0 THEN 1 ELSE bytes
    /\ pc' = [pc EXCEPT ![s] = "idle"]
    /\ UNCHANGED <<rb, status, calls, aq, todo, got, seen>>

\* The byte that wakes the receiver; a full pipe refuses it and that is ignored.
Write(s) ==
    /\ pc[s] = "write"
    /\ bytes' = IF bytes < PipeSize THEN bytes + 1 ELSE bytes
    /\ pc' = [pc EXCEPT ![s] = "idle"]
    /\ UNCHANGED <<rb, status, calls, aq, todo, got, seen>>

-----------------------------------------------------------------------------
(* The receiver *)

\* Variant of Read: all bytes are read, and one message is popped for them.
ReadForOne ==
    /\ todo = 0 /\ bytes > 0
    /\ todo' = 1
    /\ bytes' = IF bytes < ReadSize THEN 0 ELSE bytes - ReadSize
    /\ UNCHANGED <<rb, status, pc, calls, aq, got, seen>>

\* pipe_read: the event loop calls it when the pipe is readable.
Read ==
    /\ todo = 0 /\ bytes > 0
    /\ todo' = IF bytes < ReadSize THEN bytes ELSE ReadSize
    /\ bytes' = bytes - todo'
    /\ UNCHANGED <<rb, status, pc, calls, aq, got, seen>>

\* Variant of Pop: the message is marked done before it is copied.
PopDone ==
    /\ todo > 0 /\ got = Nothing
    /\ aq # << >> /\ Head(aq).published
    /\ got' = Head(aq)
    /\ aq' = Tail(aq)
    /\ status' = [status EXCEPT ![Head(aq).from][Head(aq).at] = "DONE"]
    /\ UNCHANGED <<rb, pc, calls, bytes, todo, seen>>

\* Variant of Pop: the newest entry is taken.
PopNewest ==
    /\ todo > 0 /\ got = Nothing
    /\ aq # << >> /\ aq[Len(aq)].published
    /\ got' = aq[Len(aq)]
    /\ aq' = SubSeq(aq, 1, Len(aq) - 1)
    /\ UNCHANGED <<rb, status, pc, calls, bytes, todo, seen>>

\* fr_control_message_pop takes the first entry of the queue.
Pop ==
    /\ todo > 0 /\ got = Nothing
    /\ aq # << >> /\ Head(aq).published
    /\ got' = Head(aq)
    /\ aq' = Tail(aq)
    /\ UNCHANGED <<rb, status, pc, calls, bytes, todo, seen>>

\* The queue looks empty, and pipe_read returns: the other bytes are forgotten.
PopFails ==
    /\ todo > 0 /\ got = Nothing
    /\ aq = << >> \/ ~Head(aq).published
    /\ todo' = 0
    /\ UNCHANGED <<rb, status, pc, calls, aq, bytes, got, seen>>

\* The message has been copied; it is done, and its callback is called.
Deliver ==
    /\ got # Nothing
    /\ status' = [status EXCEPT ![got.from][got.at] = "DONE"]
    /\ seen' = [seen EXCEPT ![got.from] = got.n]
    /\ got' = Nothing
    /\ todo' = todo - 1
    /\ UNCHANGED <<rb, pc, calls, aq, bytes>>

Send(s) == NoMessage(s) \/ Claim(s) \/ QueueFull(s) \/ Publish(s) \/ Write(s)
Receive == Read \/ Pop \/ PopFails \/ Deliver

Next == (\E s \in Senders : Send(s)) \/ Receive

\* A call that has begun is finished, and the receiver keeps serving its pipe.
Fairness == (\A s \in Senders : WF_vars(Publish(s) \/ Write(s))) /\ WF_vars(Receive)

Spec == Init /\ [][Next]_vars
FairSpec == Spec /\ Fairness

-----------------------------------------------------------------------------
(* Properties *)

Entries == [from : Senders, at : Offsets, n : 1 .. MaxSends, published : BOOLEAN]

TypeOK ==
    /\ rb \in [Senders -> Rings({RbSize})]
    /\ status \in [Senders -> [Offsets -> Statuses]]
    /\ pc \in [Senders -> {"idle", "publish", "write"}]
    /\ calls \in [Senders -> 0 .. MaxSends]
    /\ aq \in Seq(Entries) /\ Len(aq) <= AqSize
    /\ bytes \in 0 .. PipeSize
    /\ todo \in 0 .. ReadSize
    /\ got \in Entries \cup {Nothing}
    /\ seen \in [Senders -> 0 .. MaxSends]

Pending == {aq[i] : i \in DOMAIN aq} \cup ({got} \ {Nothing})

\* A message that is queued or being copied is still allocated in the ring
\* buffer of its sender, is in use, and shares its place with no other: the
\* assertion on m->status in fr_control_message_pop, and the copy behind it.
MessagesIntact ==
    /\ TypeOK
    /\ \A e \in Pending :
         /\ status[e.from][e.at] = "USED"
         /\ e.at \in {Layout(rb[e.from])[i] : i \in DOMAIN Layout(rb[e.from])}
    /\ \A e, f \in Pending : e.from = f.from /\ e.at = f.at => e = f

\* The messages of a sender reach their callbacks in the order of the calls.
DeliveredInOrder == [][\A s \in Senders : seen'[s] >= seen[s]]_vars

Busy == Cardinality({s \in Senders : pc[s] # "idle"})

\* So far no more than one thread has sent to this control plane.
OneCaller == Cardinality({s \in Senders : calls[s] > 0}) <= 1

\* As long as one thread sends, there is a byte for every message: in the pipe,
\* read by pipe_read, or about to be written.  The pipe never refuses a byte.
ByteForEveryMessage ==
    OneCaller =>
        /\ Len(aq) <= bytes + todo + Busy
        /\ \A s \in Senders : pc[s] = "write" => bytes < PipeSize

\* As long as one thread sends, every message reaches its callback.
DeliveredIfAlone ==
    \A s \in Senders : \A n \in 1 .. MaxSends :
        OneCaller /\ (\E e \in Pending : e.from = s /\ e.n = n) ~> (seen[s] = n \/ ~OneCaller)

\* Every message that was pushed reaches its callback: the receiver "already
\* has the packet in its inbound queue, so at some point, it will pick up the
\* message".
EveryMessageDelivered ==
    \A s \in Senders : \A n \in 1 .. MaxSends :
        (\E e \in Pending : e.from = s /\ e.n = n) ~> (seen[s] = n)
=============================================================================
