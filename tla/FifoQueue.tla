----------------------------- MODULE FifoQueue -----------------------------
(***************************************************************************)
(* What the queue of src/lib/io/atomic_queue.c promises: a bounded FIFO.   *)
(* An element is in the queue from the moment its ticket is claimed, and   *)
(* belongs to one consumer from the moment that ticket is claimed again.   *)
(***************************************************************************)
EXTENDS Naturals, Sequences

CONSTANTS Consumers, Data, NULL, Capacity

VARIABLES
    queue,          \* the elements pushed and not yet popped, oldest first
    taken           \* taken[c]: the last element consumer c was given

fvars == <<queue, taken>>

FifoInit ==
    /\ queue = << >>
    /\ taken = [c \in Consumers |-> NULL]

Enqueue(d) ==
    /\ Len(queue) < Capacity
    /\ queue' = Append(queue, d)
    /\ UNCHANGED taken

Dequeue(c) ==
    /\ queue # << >>
    /\ taken' = [taken EXCEPT ![c] = Head(queue)]
    /\ queue' = Tail(queue)

FifoNext ==
    \/ \E d \in Data : Enqueue(d)
    \/ \E c \in Consumers : Dequeue(c)

FifoSpec == FifoInit /\ [][FifoNext]_fvars
=============================================================================
