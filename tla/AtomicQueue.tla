---------------------------- MODULE AtomicQueue ----------------------------
(***************************************************************************)
(* The bounded multi-producer, multi-consumer queue of                     *)
(* src/lib/io/atomic_queue.c.  Every load, compare-and-swap and store of a *)
(* shared location is a step of its own.  The loads and stores are         *)
(* acquire/release pairs on entry[i].seq, so interleaving of whole steps   *)
(* is what the C11 memory model allows here.                               *)
(*                                                                         *)
(* A producer claims a ticket by moving head, then writes the entry, then  *)
(* publishes it through the entry's sequence number; a consumer claims a   *)
(* ticket by moving tail, then reads the entry, then releases it for the   *)
(* producer one lap ahead.                                                 *)
(*                                                                         *)
(* fr_atomic_queue_push(aq, NULL) and fr_atomic_queue_pop(aq, NULL) return *)
(* false before they touch the queue and are left out.                     *)
(***************************************************************************)
EXTENDS Integers, Sequences

CONSTANTS
    Producers,      \* threads that call fr_atomic_queue_push
    Consumers,      \* threads that call fr_atomic_queue_pop
    Data,           \* the pointers pushed
    NULL,           \* the data of an entry nothing was written to
    Size,           \* aq->size
    MaxTicket       \* bound on head: the int64_t tickets handed out

ASSUME SizeAssumption == Size \in Nat \ {0}     \* fr_atomic_queue_alloc refuses 0

ASSUME MaxTicketAssumption == MaxTicket \in Nat

ASSUME NullAssumption == NULL \notin Data

VARIABLES
    head,           \* aq->head: the next ticket to push
    tail,           \* aq->tail: the next ticket to pop
    seq,            \* aq->entry[i].seq
    data,           \* aq->entry[i].data
    ppc, ppos, parg,    \* push: where it is, its local head, its argument
    cpc, cpos, cgot,    \* pop: where it is, its local tail, its *p_data
    hist            \* history: hist[t + 1] is what ticket t was claimed for

pvars == <<ppc, ppos, parg>>
cvars == <<cpc, cpos, cgot>>
vars == <<head, tail, seq, data, pvars, cvars, hist>>

Slots == 0 .. Size - 1

\* &aq->entry[ticket % aq->size]
Slot(t) == t % Size

\* The sequence number that publishes ticket t, read by the consumer of t.
PublishedSeq(t) == t + 1

\* Variant of ReleasedSeq: the entry is released for the same lap.
ReleaseThisLap(t) == t + 1

\* The sequence number that releases the entry of ticket t, read by the
\* producer one lap ahead.
ReleasedSeq(t) == t + Size

TypeOK ==
    /\ head \in Nat
    /\ tail \in Nat
    /\ seq \in [Slots -> Nat]
    /\ data \in [Slots -> Data \cup {NULL}]
    /\ ppc \in [Producers -> {"idle", "seq", "reload", "cas", "data", "publish"}]
    /\ ppos \in [Producers -> Nat]
    /\ parg \in [Producers -> Data \cup {NULL}]
    /\ cpc \in [Consumers -> {"idle", "seq", "reload", "cas", "data", "release"}]
    /\ cpos \in [Consumers -> Nat]
    /\ cgot \in [Consumers -> Data \cup {NULL}]
    /\ hist \in Seq(Data)

\* fr_atomic_queue_alloc
Init ==
    /\ head = 0
    /\ tail = 0
    /\ seq = [i \in Slots |-> i]
    /\ data = [i \in Slots |-> NULL]
    /\ ppc = [p \in Producers |-> "idle"]
    /\ ppos = [p \in Producers |-> 0]
    /\ parg = [p \in Producers |-> NULL]
    /\ cpc = [c \in Consumers |-> "idle"]
    /\ cpos = [c \in Consumers |-> 0]
    /\ cgot = [c \in Consumers |-> NULL]
    /\ hist = << >>

-----------------------------------------------------------------------------
(* fr_atomic_queue_push *)

\* The call, up to head = load(aq->head).
PushStart(p, d) ==
    /\ ppc[p] = "idle"
    /\ head < MaxTicket
    /\ parg' = [parg EXCEPT ![p] = d]
    /\ ppos' = [ppos EXCEPT ![p] = head]
    /\ ppc' = [ppc EXCEPT ![p] = "seq"]
    /\ UNCHANGED <<head, tail, seq, data, cvars, hist>>

\* seq = aquire(entry->seq); diff < 0: the entry is still in use, return false.
PushFull(p) ==
    /\ ppc[p] = "seq"
    /\ seq[Slot(ppos[p])] < ppos[p]
    /\ ppc' = [ppc EXCEPT ![p] = "idle"]
    /\ UNCHANGED <<head, tail, seq, data, ppos, parg, cvars, hist>>

\* A variant without the test for a full queue.
PushSeqOverfills(p) ==
    /\ ppc[p] = "seq"
    /\ ppc' = [ppc EXCEPT ![p] = IF seq[Slot(ppos[p])] > ppos[p] THEN "reload" ELSE "cas"]
    /\ UNCHANGED <<head, tail, seq, data, ppos, parg, cvars, hist>>

\* diff > 0: someone else took the ticket.  diff = 0: try to take it.
PushSeq(p) ==
    /\ ppc[p] = "seq"
    /\ \/ /\ seq[Slot(ppos[p])] > ppos[p]
          /\ ppc' = [ppc EXCEPT ![p] = "reload"]
       \/ /\ seq[Slot(ppos[p])] = ppos[p]
          /\ ppc' = [ppc EXCEPT ![p] = "cas"]
    /\ UNCHANGED <<head, tail, seq, data, ppos, parg, cvars, hist>>

\* head = load(aq->head) inside the loop
PushReload(p) ==
    /\ ppc[p] = "reload"
    /\ ppos' = [ppos EXCEPT ![p] = head]
    /\ ppc' = [ppc EXCEPT ![p] = "seq"]
    /\ UNCHANGED <<head, tail, seq, data, parg, cvars, hist>>

\* cas_incr(aq->head, head), which stores the current head on failure
PushCas(p) ==
    /\ ppc[p] = "cas"
    /\ \/ /\ head = ppos[p]
          /\ head' = head + 1
          /\ hist' = Append(hist, parg[p])
          /\ ppc' = [ppc EXCEPT ![p] = "data"]
          /\ UNCHANGED ppos
       \/ /\ head # ppos[p]
          /\ ppos' = [ppos EXCEPT ![p] = head]
          /\ ppc' = [ppc EXCEPT ![p] = "seq"]
          /\ UNCHANGED <<head, hist>>
    /\ UNCHANGED <<tail, seq, data, parg, cvars>>

\* entry->data = data
PushData(p) ==
    /\ ppc[p] = "data"
    /\ data' = [data EXCEPT ![Slot(ppos[p])] = parg[p]]
    /\ ppc' = [ppc EXCEPT ![p] = "publish"]
    /\ UNCHANGED <<head, tail, seq, ppos, parg, cvars, hist>>

\* store(entry->seq, head + 1); return true
PushPublish(p) ==
    /\ ppc[p] = "publish"
    /\ seq' = [seq EXCEPT ![Slot(ppos[p])] = PublishedSeq(ppos[p])]
    /\ ppc' = [ppc EXCEPT ![p] = "idle"]
    /\ UNCHANGED <<head, tail, data, ppos, parg, cvars, hist>>

-----------------------------------------------------------------------------
(* fr_atomic_queue_pop *)

\* The call, up to tail = load(aq->tail).
PopStart(c) ==
    /\ cpc[c] = "idle"
    /\ cpos' = [cpos EXCEPT ![c] = tail]
    /\ cpc' = [cpc EXCEPT ![c] = "seq"]
    /\ UNCHANGED <<head, tail, seq, data, pvars, cgot, hist>>

\* seq = aquire(entry->seq); diff < 0: nothing published there, return false.
PopEmpty(c) ==
    /\ cpc[c] = "seq"
    /\ seq[Slot(cpos[c])] < cpos[c] + 1
    /\ cpc' = [cpc EXCEPT ![c] = "idle"]
    /\ UNCHANGED <<head, tail, seq, data, pvars, cpos, cgot, hist>>

\* A variant that compares with tail instead of tail + 1.
PopSeqEarly(c) ==
    /\ cpc[c] = "seq"
    /\ cpc' = [cpc EXCEPT ![c] = IF seq[Slot(cpos[c])] > cpos[c] + 1 THEN "reload" ELSE "cas"]
    /\ seq[Slot(cpos[c])] >= cpos[c]
    /\ UNCHANGED <<head, tail, seq, data, pvars, cpos, cgot, hist>>

PopSeq(c) ==
    /\ cpc[c] = "seq"
    /\ \/ /\ seq[Slot(cpos[c])] > cpos[c] + 1
          /\ cpc' = [cpc EXCEPT ![c] = "reload"]
       \/ /\ seq[Slot(cpos[c])] = cpos[c] + 1
          /\ cpc' = [cpc EXCEPT ![c] = "cas"]
    /\ UNCHANGED <<head, tail, seq, data, pvars, cpos, cgot, hist>>

PopReload(c) ==
    /\ cpc[c] = "reload"
    /\ cpos' = [cpos EXCEPT ![c] = tail]
    /\ cpc' = [cpc EXCEPT ![c] = "seq"]
    /\ UNCHANGED <<head, tail, seq, data, pvars, cgot, hist>>

\* A variant that stores tail + 1 without comparing.
PopCasStores(c) ==
    /\ cpc[c] = "cas"
    /\ tail' = cpos[c] + 1
    /\ cpc' = [cpc EXCEPT ![c] = "data"]
    /\ UNCHANGED <<head, seq, data, pvars, cpos, cgot, hist>>

\* cas_incr(aq->tail, tail)
PopCas(c) ==
    /\ cpc[c] = "cas"
    /\ \/ /\ tail = cpos[c]
          /\ tail' = tail + 1
          /\ cpc' = [cpc EXCEPT ![c] = "data"]
          /\ UNCHANGED cpos
       \/ /\ tail # cpos[c]
          /\ cpos' = [cpos EXCEPT ![c] = tail]
          /\ cpc' = [cpc EXCEPT ![c] = "seq"]
          /\ UNCHANGED tail
    /\ UNCHANGED <<head, seq, data, pvars, cgot, hist>>

\* *p_data = entry->data
PopData(c) ==
    /\ cpc[c] = "data"
    /\ cgot' = [cgot EXCEPT ![c] = data[Slot(cpos[c])]]
    /\ cpc' = [cpc EXCEPT ![c] = "release"]
    /\ UNCHANGED <<head, tail, seq, data, pvars, cpos, hist>>

\* store(entry->seq, tail + aq->size); return true
PopRelease(c) ==
    /\ cpc[c] = "release"
    /\ seq' = [seq EXCEPT ![Slot(cpos[c])] = ReleasedSeq(cpos[c])]
    /\ cpc' = [cpc EXCEPT ![c] = "idle"]
    /\ UNCHANGED <<head, tail, data, pvars, cpos, cgot, hist>>

-----------------------------------------------------------------------------

\* The steps of a push, once called.
PushStep(p) ==
    PushFull(p) \/ PushSeq(p) \/ PushReload(p) \/ PushCas(p) \/ PushData(p) \/ PushPublish(p)

PopStep(c) ==
    PopEmpty(c) \/ PopSeq(c) \/ PopReload(c) \/ PopCas(c) \/ PopData(c) \/ PopRelease(c)

Next ==
    \/ \E p \in Producers : PushStep(p) \/ \E d \in Data : PushStart(p, d)
    \/ \E c \in Consumers : PopStep(c) \/ PopStart(c)

Spec == Init /\ [][Next]_vars

-----------------------------------------------------------------------------
(* Properties *)

\* p is between claiming its ticket and publishing it: it owns the entry.
Pushing(p) == ppc[p] \in {"data", "publish"}

\* c is between claiming its ticket and releasing it.
Popping(c) == cpc[c] \in {"data", "release"}

\* Ticket t is claimed by a push and not yet published.
Unpublished(t) == \E p \in Producers : Pushing(p) /\ ppos[p] = t

\* Two threads inside fr_atomic_queue_push or fr_atomic_queue_pop never work on
\* the same entry: neither two producers, nor two consumers, nor one of each.
SlotExclusive ==
    /\ \A p, q \in Producers :
          p # q /\ Pushing(p) /\ Pushing(q) => Slot(ppos[p]) # Slot(ppos[q])
    /\ \A c, e \in Consumers :
          c # e /\ Popping(c) /\ Popping(e) => Slot(cpos[c]) # Slot(cpos[e])
    /\ \A p \in Producers, c \in Consumers :
          Pushing(p) /\ Popping(c) => Slot(ppos[p]) # Slot(cpos[c])

\* The element a pop of ticket t returns is the one the push of ticket t was
\* given, so that every element comes out once and in the order of the tickets.
PopsWhatWasPushed ==
    \A c \in Consumers :
       cpc[c] = "release" => cpos[c] < head /\ cgot[c] = hist[cpos[c] + 1]

\* At most aq->size tickets are claimed by pushes and not by pops.
Bounded == tail <= head /\ head <= tail + Size

\* Ticket t is claimed by a pop and not yet released.
Unreleased(t) == \E c \in Consumers : Popping(c) /\ cpos[c] = t

\* What the sequence number of ticket t's entry says about t: free or still in
\* use by an earlier lap, claimed, published, being read, released.
SeqTellsTicket(t) ==
    /\ t >= head => seq[Slot(t)] <= t
    /\ Unpublished(t) => seq[Slot(t)] = t
    /\ tail <= t /\ t < head /\ ~Unpublished(t) =>
          seq[Slot(t)] = t + 1 /\ data[Slot(t)] = hist[t + 1]
    /\ Unreleased(t) => seq[Slot(t)] = t + 1
    /\ t < tail /\ ~Unreleased(t) => seq[Slot(t)] >= t + Size

\* What a thread inside a push knows of its ticket.
ProducerKnows(p) ==
    /\ ppos[p] <= head
    /\ ppc[p] = "cas" /\ head = ppos[p] => seq[Slot(head)] = head
    /\ Pushing(p) => /\ tail <= ppos[p]
                     /\ ppos[p] < head
                     /\ parg[p] = hist[ppos[p] + 1]
    /\ ppc[p] = "publish" => data[Slot(ppos[p])] = parg[p]
    /\ ppc[p] # "idle" => parg[p] \in Data
    /\ \A q \in Producers : p # q /\ Pushing(p) /\ Pushing(q) => ppos[p] # ppos[q]

\* What a thread inside a pop knows of its ticket.
ConsumerKnows(c) ==
    /\ cpos[c] <= tail
    /\ cpc[c] = "cas" /\ tail = cpos[c] => seq[Slot(tail)] = tail + 1
    /\ Popping(c) => cpos[c] < tail
    /\ cpc[c] = "data" => data[Slot(cpos[c])] = hist[cpos[c] + 1]
    /\ cpc[c] = "release" => cgot[c] = hist[cpos[c] + 1]
    /\ \A e \in Consumers : c # e /\ Popping(c) /\ Popping(e) => cpos[c] # cpos[e]

\* The queue implements a bounded FIFO: a push takes effect when it moves head,
\* a pop when it moves tail.
Fifo == INSTANCE FifoQueue WITH
    Capacity <- Size,
    queue <- SubSeq(hist, tail + 1, head),
    taken <- [c \in Consumers |->
                IF cpc[c] = "data" THEN hist[cpos[c] + 1] ELSE cgot[c]]

RefinesFifo == Fifo!FifoSpec

\* "false on queue full": fr_atomic_queue_push returns false only when the entry
\* it needs holds an element that has not been released by its consumer.
PushFalseMeansInUse ==
    [][\A p \in Producers :
          PushFull(p) => \/ head = tail + Size
                         \/ \E c \in Consumers :
                               Popping(c) /\ Slot(cpos[c]) = Slot(ppos[p])]_vars
=============================================================================
