------------------------- MODULE AtomicQueueProofs -------------------------
(***************************************************************************)
(* Proofs about AtomicQueue, for every number of threads and every size    *)
(* greater than one.  (With one entry the sequence number that publishes a *)
(* ticket is the one that frees it for the next ticket.)                   *)
(***************************************************************************)
EXTENDS AtomicQueue, TLAPS

-----------------------------------------------------------------------------
(* Arithmetic of the entries *)

LEMMA MulMonotone ==
    ASSUME NEW k \in Int, k > 0
    PROVE  Size * k >= Size
BY SizeAssumption

LEMMA DivMod ==
    ASSUME NEW a \in Nat
    PROVE  /\ a \div Size \in Int
           /\ a = Size * (a \div Size) + (a % Size)
           /\ a % Size \in 0 .. Size - 1
BY SizeAssumption

\* A ticket's entry is an entry of the array.
LEMMA SlotInSlots ==
    ASSUME NEW t \in Nat
    PROVE  Slot(t) \in Slots
BY DivMod, Zenon DEF Slot, Slots

\* Two tickets that share an entry are at least one lap apart.
LEMMA SameSlotLap ==
    ASSUME NEW a \in Nat, NEW b \in Nat, a < b, Slot(a) = Slot(b)
    PROVE  b >= a + Size
<1> DEFINE k == (b \div Size) - (a \div Size)
<1>1. k \in Int
  BY DivMod
<1>2. b - a = Size * k
  BY DivMod, SizeAssumption DEF Slot
<1>3. k > 0
  BY <1>1, <1>2, SizeAssumption
<1>4. Size * k >= Size
  BY <1>1, <1>3, MulMonotone, Zenon
<1> QED
  BY <1>2, <1>4, SizeAssumption

\* One lap ahead is the same entry.
LEMMA NextLapSameSlot ==
    ASSUME NEW t \in Nat
    PROVE  Slot(t + Size) = Slot(t)
<1> DEFINE k == ((t + Size) \div Size) - (t \div Size) - 1
<1>1. k \in Int
  BY DivMod, SizeAssumption
<1>2. Size * k = (t % Size) - ((t + Size) % Size)
  BY DivMod, SizeAssumption
<1>3. ~(k > 0)
  BY <1>1, <1>2, SizeAssumption, MulMonotone, DivMod
<1>4. ~(-k > 0)
  <2> SUFFICES ASSUME -k > 0 PROVE FALSE
    BY Zenon
  <2>1. Size * (-k) >= Size
    BY MulMonotone, <1>1
  <2>2. Size * (-k) = ((t + Size) % Size) - (t % Size)
    BY <1>1, <1>2, SizeAssumption, DivMod
  <2> QED
    BY <2>1, <2>2, DivMod, SizeAssumption
<1> HIDE DEF k
<1>5. k = 0
  BY <1>1, <1>3, <1>4
<1>6. Size * k = 0
  BY <1>5, SizeAssumption
<1>7. t % Size \in Nat /\ (t + Size) % Size \in Nat
  BY DivMod, SizeAssumption
<1> QED
  BY <1>2, <1>6, <1>7 DEF Slot

-----------------------------------------------------------------------------
(* The type invariant *)

WellTyped == TypeOK /\ \A p \in Producers : ppc[p] # "idle" => parg[p] \in Data

LEMMA TypeInit == Init => WellTyped
BY SMTT(20), SizeAssumption DEF Init, TypeOK, Slots, WellTyped

LEMMA TypeStep ==
    ASSUME WellTyped, [Next]_vars
    PROVE  WellTyped'
<1> USE SizeAssumption DEF TypeOK, WellTyped
<1> SUFFICES ASSUME \A p \in Producers : Slot(ppos[p]) \in Slots,
                    \A c \in Consumers : Slot(cpos[c]) \in Slots
             PROVE  WellTyped'
  BY SlotInSlots, Zenon
<1>1. ASSUME NEW p \in Producers, NEW d \in Data, PushStart(p, d) PROVE WellTyped'
  BY <1>1, Zenon DEF PushStart, cvars
<1>2. ASSUME NEW p \in Producers, PushFull(p) \/ PushSeq(p) PROVE WellTyped'
  BY <1>2, Zenon DEF PushFull, PushSeq, cvars
<1>3. ASSUME NEW p \in Producers, PushReload(p) PROVE WellTyped'
  BY <1>3, Zenon DEF PushReload, cvars
<1>4. ASSUME NEW p \in Producers, PushCas(p) PROVE WellTyped'
  <2>1. CASE head = ppos[p]
    <3>1. /\ head' = head + 1
          /\ hist' = Append(hist, parg[p])
          /\ ppc' = [ppc EXCEPT ![p] = "data"]
          /\ UNCHANGED <<tail, seq, data, ppos, parg, cpc, cpos, cgot>>
      BY <1>4, <2>1, Zenon DEF PushCas, cvars
    <3>2. parg[p] \in Data
      BY <1>4, Zenon DEF PushCas
    <3> QED
      BY <3>1, <3>2
  <2>2. CASE head # ppos[p]
    BY ZenonT(30), <1>4, <2>2 DEF PushCas, cvars
  <2> QED
    BY SMTT(20), <2>1, <2>2
<1>5. ASSUME NEW p \in Producers, PushData(p) PROVE WellTyped'
  BY <1>5, Zenon DEF PushData, cvars
<1>6. ASSUME NEW p \in Producers, PushPublish(p) PROVE WellTyped'
  BY <1>6 DEF PushPublish, PublishedSeq, cvars
<1>7. ASSUME NEW c \in Consumers, PopStart(c) PROVE WellTyped'
  BY <1>7, Zenon DEF PopStart, pvars
<1>8. ASSUME NEW c \in Consumers, PopEmpty(c) \/ PopSeq(c) PROVE WellTyped'
  BY <1>8, Zenon DEF PopEmpty, PopSeq, pvars
<1>9. ASSUME NEW c \in Consumers, PopReload(c) PROVE WellTyped'
  BY <1>9, Zenon DEF PopReload, pvars
<1>10. ASSUME NEW c \in Consumers, PopCas(c) PROVE WellTyped'
  <2>1. CASE tail = cpos[c]
    <3>1. /\ tail' = tail + 1
          /\ cpc' = [cpc EXCEPT ![c] = "data"]
          /\ UNCHANGED <<head, seq, data, ppc, ppos, parg, cpos, cgot, hist>>
      BY <1>10, <2>1, Zenon DEF PopCas, pvars
    <3> QED
      BY <3>1
  <2>2. CASE tail # cpos[c]
    BY <1>10, <2>2, ZenonT(40) DEF PopCas, pvars
  <2> QED
    BY <2>1, <2>2, Zenon
<1>11. ASSUME NEW c \in Consumers, PopData(c) PROVE WellTyped'
  BY <1>11, Zenon DEF PopData, pvars
<1>12. ASSUME NEW c \in Consumers, PopRelease(c) PROVE WellTyped'
  BY <1>12 DEF PopRelease, ReleasedSeq, pvars
<1>13. CASE UNCHANGED vars
  BY <1>13, Zenon DEF vars, pvars, cvars
<1> QED
  BY <1>1, <1>2, <1>3, <1>4, <1>5, <1>6, <1>7, <1>8, <1>9, <1>10, <1>11, <1>12,
     <1>13, Zenon DEF Next, PushStep, PopStep

\* Every step keeps head and tail natural numbers, the entries within the array,
\* and every thread at one of the program points of push and pop.
THEOREM TypeCorrect == Spec => []WellTyped
<1>1. WellTyped /\ [Next]_vars => WellTyped'
  BY TypeStep, Zenon
<1> QED
  BY TypeInit, <1>1, PTL DEF Spec

-----------------------------------------------------------------------------
(* The inductive invariant *)

IInv ==
    /\ WellTyped
    /\ Bounded
    /\ Len(hist) = head
    /\ \A t \in Nat : SeqTellsTicket(t)
    /\ \A p \in Producers : ProducerKnows(p)
    /\ \A c \in Consumers : ConsumerKnows(c)

LEMMA InitIInv ==
    ASSUME Size > 1, Init
    PROVE  IInv
<1>1. WellTyped
  BY TypeInit, Zenon
<1>2. ASSUME NEW t \in Nat PROVE seq[Slot(t)] <= t
  <2>1. Slot(t) \in Slots /\ Slot(t) <= t
    BY DivMod, SizeAssumption DEF Slot, Slots
  <2> QED
    BY <2>1, Zenon DEF Init
<1>3. ASSUME NEW t \in Nat PROVE SeqTellsTicket(t)
  BY <1>2, <1>3 DEF Init, SeqTellsTicket, Unpublished, Unreleased, Pushing, Popping
<1> QED
  BY <1>1, <1>3, SizeAssumption
     DEF Init, IInv, Bounded, ProducerKnows, ConsumerKnows, Pushing, Popping

\* A step that claims nothing, writes no entry and lets no thread into or out of
\* an entry keeps the invariant, if the thread that is about to try a claim has
\* just seen the sequence number it needs.
LEMMA LocalStep ==
    ASSUME IInv, WellTyped',
           UNCHANGED <<head, tail, seq, data, hist>>,
           \A p \in Producers :
              /\ ppos'[p] <= head
              /\ Pushing(p)' <=> Pushing(p)
              /\ Pushing(p) => UNCHANGED <<ppc[p], ppos[p], parg[p]>>
              /\ (ppc[p] = "cas")' /\ head = ppos'[p] => seq[Slot(head)] = head,
           \A c \in Consumers :
              /\ cpos'[c] <= tail
              /\ Popping(c)' <=> Popping(c)
              /\ Popping(c) => UNCHANGED <<cpc[c], cpos[c], cgot[c]>>
              /\ (cpc[c] = "cas")' /\ tail = cpos'[c] => seq[Slot(tail)] = tail + 1
    PROVE  IInv'
<1>1. ASSUME NEW t \in Nat PROVE /\ Unpublished(t)' <=> Unpublished(t)
                                 /\ Unreleased(t)' <=> Unreleased(t)
  BY Zenon DEF Unpublished, Unreleased
<1>2. ASSUME NEW t \in Nat PROVE SeqTellsTicket(t)'
  BY SMTT(20), <1>1, <1>2 DEF IInv, SeqTellsTicket
<1>3. ASSUME NEW p \in Producers PROVE ProducerKnows(p)'
  BY <1>3 DEF IInv, ProducerKnows, Pushing, WellTyped
<1>4. ASSUME NEW c \in Consumers PROVE ConsumerKnows(c)'
  BY <1>4 DEF IInv, ConsumerKnows, Popping
<1> QED
  BY <1>2, <1>3, <1>4, Zenon DEF IInv, Bounded

\* The sequence numbers tell the tickets of one entry apart: a ticket that is
\* claimed, published or being read shares its entry with no other such ticket.
LEMMA EntryAlone ==
    ASSUME Size > 1, IInv, NEW t \in Nat, NEW u \in Nat, t # u, Slot(t) = Slot(u),
           (tail <= u /\ u < head) \/ Unreleased(u)
    PROVE  ~(tail <= t /\ t < head) /\ ~Unreleased(t)
<1>1. SeqTellsTicket(t) /\ SeqTellsTicket(u)
  BY Zenon DEF IInv
<1>2. \/ seq[Slot(t)] = u
      \/ seq[Slot(t)] = u + 1
  BY <1>1, Zenon DEF SeqTellsTicket
<1>3. t >= u + Size \/ u >= t + Size
  BY SameSlotLap
<1>4. seq[Slot(t)] # t /\ seq[Slot(t)] # t + 1
  BY <1>2, <1>3, SizeAssumption
<1> QED
  BY <1>1, <1>4, Zenon DEF SeqTellsTicket

LEMMA PushClaims ==
    ASSUME Size > 1, IInv, WellTyped', NEW p \in Producers, PushCas(p), head = ppos[p]
    PROVE  IInv'
<1> USE SizeAssumption
<1>0. /\ head \in Nat /\ tail \in Nat /\ hist \in Seq(Data)
      /\ parg[p] \in Data /\ ppc[p] = "cas" /\ ppos \in [Producers -> Nat]
      /\ ppc \in [Producers -> {"idle", "seq", "reload", "cas", "data", "publish"}]
  BY Zenon DEF IInv, WellTyped, TypeOK, PushCas
<1>1. /\ head' = head + 1
      /\ hist' = Append(hist, parg[p])
      /\ ppc' = [ppc EXCEPT ![p] = "data"]
      /\ UNCHANGED <<tail, seq, data, ppos, parg, cpc, cpos, cgot>>
  BY Zenon DEF PushCas, cvars
<1>2. seq[Slot(head)] = head
  BY <1>0, Zenon DEF IInv, ProducerKnows
<1>3. Len(hist') = head' /\ hist'[head + 1] = parg[p]
      /\ \A t \in 1 .. head : hist'[t] = hist[t]
  BY <1>0, <1>1 DEF IInv
<1>4. Bounded'
  <2> SUFFICES ASSUME head >= tail + Size PROVE FALSE
    BY <1>0, <1>1 DEF IInv, Bounded
  <2> DEFINE t == head - Size
  <2>0. t \in Nat /\ t + Size = head
    BY <1>0
  <2>1. t \in Nat /\ Slot(t) = Slot(head)
    BY <2>0, NextLapSameSlot, Zenon
  <2>2. SeqTellsTicket(t) /\ tail <= t /\ t < head
    BY <1>0, <2>1 DEF IInv
  <2>3. seq[Slot(t)] = t \/ seq[Slot(t)] = t + 1
    BY <2>1, <2>2, Zenon DEF SeqTellsTicket
  <2> QED
    BY <1>0, <1>2, <2>0, <2>1, <2>3
<1>5. \A t \in Nat : Unreleased(t)' <=> Unreleased(t)
  BY <1>1, Zenon DEF Unreleased, Popping
<1>6. \A q \in Producers : Pushing(q)' <=> Pushing(q) \/ q = p
  BY <1>0, <1>1, Zenon DEF Pushing
<1>7. \A t \in Nat : Unpublished(t)' <=> Unpublished(t) \/ t = head
  BY <1>0, <1>1, <1>6, Zenon DEF Unpublished
<1>8. ASSUME NEW t \in Nat PROVE SeqTellsTicket(t)'
  <2>1. SeqTellsTicket(t)
    BY Zenon DEF IInv
  <2>2. CASE t = head
    BY <1>0, <1>1, <1>2, <1>5, <1>7, <2>1, <2>2 DEF SeqTellsTicket, IInv, Bounded
  <2>3. CASE t # head
    <3>1. t < head => hist'[t + 1] = hist[t + 1]
      BY <1>0, <1>3
    <3>2. t < head' <=> t < head
      BY <1>0, <1>1, <2>3
    <3>3. t >= head' => t >= head
      BY <1>0, <1>1
    <3> QED
      BY ZenonT(30), <1>1, <1>5, <1>7, <2>1, <2>3, <3>1, <3>2, <3>3 DEF SeqTellsTicket
  <2> QED
    BY <2>2, <2>3, Zenon
<1>9. ASSUME NEW q \in Producers PROVE ProducerKnows(q)'
  <2>1. ProducerKnows(q) /\ \A r \in Producers : Pushing(r) => ppos[r] < head
    BY Zenon DEF IInv, ProducerKnows
  <2>2. (ppc[q] = "cas")' => ppos[q] # head'
    BY SMTT(20), <1>0, <1>1, <2>1 DEF ProducerKnows
  <2> QED
    BY SMTT(20), <1>0, <1>1, <1>3, <1>6, <2>1, <2>2 DEF ProducerKnows, Pushing, IInv, Bounded
<1>10. ASSUME NEW c \in Consumers PROVE ConsumerKnows(c)'
  BY SMTT(20), <1>0, <1>1, <1>3 DEF IInv, ConsumerKnows, Popping, WellTyped, TypeOK, Bounded
<1> QED
  BY <1>3, <1>4, <1>8, <1>9, <1>10, Zenon DEF IInv

LEMMA PushWrites ==
    ASSUME Size > 1, IInv, WellTyped', NEW p \in Producers, PushData(p)
    PROVE  IInv'
<1> USE SizeAssumption
<1> DEFINE u == ppos[p]
<1>0. /\ head \in Nat /\ tail \in Nat /\ u \in Nat /\ cpos \in [Consumers -> Nat]
      /\ ppc \in [Producers -> {"idle", "seq", "reload", "cas", "data", "publish"}]
      /\ data \in [Slots -> Data \cup {NULL}] /\ ppos \in [Producers -> Nat]
  BY Zenon DEF IInv, WellTyped, TypeOK
<1>1. /\ ppc[p] = "data"
      /\ data' = [data EXCEPT ![Slot(u)] = parg[p]]
      /\ ppc' = [ppc EXCEPT ![p] = "publish"]
      /\ UNCHANGED <<head, tail, seq, ppos, parg, cpc, cpos, cgot, hist>>
  BY Zenon DEF PushData, cvars
<1>2. tail <= u /\ u < head /\ parg[p] = hist[u + 1]
  BY <1>1, Zenon DEF IInv, ProducerKnows, Pushing
<1>3. Slot(u) \in Slots
  BY <1>0, SlotInSlots, Zenon
<1>4. \A q \in Producers : Pushing(q)' <=> Pushing(q)
  BY <1>0, <1>1, Zenon DEF Pushing
<1>5. \A t \in Nat : /\ Unpublished(t)' <=> Unpublished(t)
                     /\ Unreleased(t)' <=> Unreleased(t)
  BY <1>1, <1>4, Zenon DEF Unpublished, Unreleased, Popping
<1>6. ASSUME NEW t \in Nat, t # u, (tail <= t /\ t < head) \/ Unreleased(t)
      PROVE  data'[Slot(t)] = data[Slot(t)]
  <2>1. Slot(t) # Slot(u)
    BY <1>0, <1>2, <1>6, EntryAlone, Zenon
  <2> QED
    BY <1>0, <1>1, <1>3, <2>1, <1>6, SlotInSlots, Zenon
<1>7. Unpublished(u)
  BY <1>1, Zenon DEF Unpublished, Pushing
<1>8. ASSUME NEW t \in Nat PROVE SeqTellsTicket(t)'
  <2>1. SeqTellsTicket(t)
    BY Zenon DEF IInv
  <2> QED
    BY <1>1, <1>5, <1>6, <1>7, <2>1, Zenon DEF SeqTellsTicket
<1>9. ASSUME NEW q \in Producers PROVE ProducerKnows(q)'
  <2>1. ProducerKnows(q) /\ ProducerKnows(p)
    BY Zenon DEF IInv
  <2>2. CASE q = p
    BY SMTT(20), <1>0, <1>1, <1>2, <1>3, <1>4, <2>1, <2>2 DEF ProducerKnows, Pushing
  <2>3. CASE q # p
    <3>1. Pushing(q) => ppos[q] # u /\ data'[Slot(ppos[q])] = data[Slot(ppos[q])]
      BY SMTT(20), <1>0, <1>1, <1>6, <2>1, <2>3 DEF ProducerKnows, Pushing
    <3> QED
      BY <1>0, <1>1, <1>4, <2>1, <2>3, <3>1, Zenon DEF ProducerKnows, Pushing
  <2> QED
    BY <2>2, <2>3, Zenon
<1>10. ASSUME NEW c \in Consumers PROVE ConsumerKnows(c)'
  <2>1. ConsumerKnows(c)
    BY Zenon DEF IInv
  <2>2. Popping(c) => data'[Slot(cpos[c])] = data[Slot(cpos[c])]
    <3> SUFFICES ASSUME Popping(c) PROVE data'[Slot(cpos[c])] = data[Slot(cpos[c])]
      BY Zenon
    <3>1. Unreleased(cpos[c]) /\ cpos[c] \in Nat /\ cpos[c] # u
      BY <1>0, <1>2, <2>1 DEF Unreleased, ConsumerKnows
    <3> QED
      BY <3>1, <1>6, Zenon
  <2> QED
    BY <1>1, <2>1, <2>2, Zenon DEF ConsumerKnows, Popping
<1> QED
  BY <1>1, <1>8, <1>9, <1>10, Zenon DEF IInv, Bounded

LEMMA PushPublishes ==
    ASSUME Size > 1, IInv, WellTyped', NEW p \in Producers, PushPublish(p)
    PROVE  IInv'
<1> USE SizeAssumption
<1> DEFINE u == ppos[p]
<1>0. /\ head \in Nat /\ tail \in Nat /\ u \in Nat /\ cpos \in [Consumers -> Nat]
      /\ ppc \in [Producers -> {"idle", "seq", "reload", "cas", "data", "publish"}]
      /\ seq \in [Slots -> Nat] /\ ppos \in [Producers -> Nat]
  BY Zenon DEF IInv, WellTyped, TypeOK
<1>1. /\ ppc[p] = "publish"
      /\ seq' = [seq EXCEPT ![Slot(u)] = u + 1]
      /\ ppc' = [ppc EXCEPT ![p] = "idle"]
      /\ UNCHANGED <<head, tail, data, ppos, parg, cpc, cpos, cgot, hist>>
  BY Zenon DEF PushPublish, PublishedSeq, cvars
<1>2. /\ tail <= u /\ u < head /\ data[Slot(u)] = hist[u + 1]
  BY SMTT(20), <1>1 DEF IInv, ProducerKnows, Pushing
<1>3. Slot(u) \in Slots /\ seq[Slot(u)] = u /\ Unpublished(u)
  BY <1>0, <1>1, SlotInSlots, SMTT(20) DEF IInv, SeqTellsTicket, Unpublished, Pushing
<1>4. \A q \in Producers : Pushing(q)' <=> Pushing(q) /\ q # p
  BY <1>0, <1>1, Zenon DEF Pushing
<1>5. \A q \in Producers : q # p /\ Pushing(q) => ppos[q] # u
  BY <1>1, Zenon DEF IInv, ProducerKnows, Pushing
<1>6. \A t \in Nat : /\ Unpublished(t)' <=> Unpublished(t) /\ t # u
                     /\ Unreleased(t)' <=> Unreleased(t)
  BY <1>1, <1>4, <1>5, Zenon DEF Unpublished, Unreleased, Popping
<1>7. ASSUME NEW t \in Nat PROVE SeqTellsTicket(t)'
  <2>1. SeqTellsTicket(t)
    BY Zenon DEF IInv
  <2>2. CASE Slot(t) # Slot(u)
    <3>1. seq'[Slot(t)] = seq[Slot(t)] /\ t # u
      BY SMTT(20), <1>0, <1>1, <2>2, SlotInSlots
    <3> QED
      BY <1>1, <1>6, <2>1, <3>1, Zenon DEF SeqTellsTicket
  <2>3. CASE t = u
    <3>1. seq'[Slot(t)] = u + 1
      BY SMTT(20), <1>0, <1>1, <1>3, <2>3
    <3>2. ~Unreleased(t)
      BY SMTT(20), <1>3, <2>1, <2>3, <1>0 DEF SeqTellsTicket
    <3> QED
      BY <1>0, <1>1, <1>2, <1>6, <2>3, <3>1, <3>2 DEF SeqTellsTicket
  <2>4. CASE t # u /\ Slot(t) = Slot(u)
    <3>1. seq'[Slot(t)] = u + 1
      BY <1>0, <1>1, <1>3, <2>4, Zenon
    <3>2. ~(tail <= t /\ t < head) /\ ~Unreleased(t)
      BY <1>0, <1>2, <2>4, EntryAlone, Zenon
    <3>3. t >= u + Size \/ u >= t + Size
      BY <1>0, <2>4, SameSlotLap
    <3>4. ~Unpublished(t)
      BY SMTT(20), <1>0, <3>2 DEF Unpublished, IInv, ProducerKnows
    <3> QED
      BY <1>0, <1>1, <1>2, <1>6, <3>1, <3>2, <3>3, <3>4 DEF SeqTellsTicket
  <2> QED
    BY <2>2, <2>3, <2>4, Zenon
<1>8. ASSUME NEW q \in Producers PROVE ProducerKnows(q)'
  <2>1. ProducerKnows(q)
    BY Zenon DEF IInv
  <2>2. seq[Slot(head)] = head => Slot(head) # Slot(u)
    BY <1>0, <1>2, <1>3
  <2>3. seq[Slot(head)] = head => seq'[Slot(head)] = head
    BY <1>0, <1>1, <2>2, SlotInSlots, Zenon
  <2> QED
    BY <1>0, <1>1, <1>4, <2>1, <2>3, Zenon DEF ProducerKnows, Pushing
<1>9. ASSUME NEW c \in Consumers PROVE ConsumerKnows(c)'
  <2>1. ConsumerKnows(c)
    BY Zenon DEF IInv
  <2>2. seq[Slot(tail)] = tail + 1 => Slot(tail) # Slot(u)
    <3> SUFFICES ASSUME seq[Slot(tail)] = tail + 1, Slot(tail) = Slot(u) PROVE FALSE
      BY Zenon
    <3>1. u = tail + 1
      BY <1>3, Zenon
    <3> QED
      BY <1>0, <3>1, SameSlotLap
  <2>3. seq[Slot(tail)] = tail + 1 => seq'[Slot(tail)] = tail + 1
    BY <1>0, <1>1, <2>2, SlotInSlots, Zenon
  <2> QED
    BY <1>0, <1>1, <2>1, <2>3, Zenon DEF ConsumerKnows, Popping
<1> QED
  BY <1>1, <1>7, <1>8, <1>9, Zenon DEF IInv, Bounded

LEMMA PopClaims ==
    ASSUME Size > 1, IInv, WellTyped', NEW c \in Consumers, PopCas(c), tail = cpos[c]
    PROVE  IInv'
<1> USE SizeAssumption
<1>0. /\ head \in Nat /\ tail \in Nat /\ cpos \in [Consumers -> Nat]
      /\ ppos \in [Producers -> Nat] /\ cpc[c] = "cas"
      /\ cpc \in [Consumers -> {"idle", "seq", "reload", "cas", "data", "release"}]
  BY Zenon DEF IInv, WellTyped, TypeOK, PopCas
<1>1. /\ tail' = tail + 1
      /\ cpc' = [cpc EXCEPT ![c] = "data"]
      /\ UNCHANGED <<head, seq, data, ppc, ppos, parg, cpos, cgot, hist>>
  BY <1>0, Zenon DEF PopCas, pvars
<1>2. seq[Slot(tail)] = tail + 1 /\ SeqTellsTicket(tail)
  BY <1>0, Zenon DEF IInv, ConsumerKnows
<1>3. /\ tail < head /\ ~Unpublished(tail) /\ ~Unreleased(tail)
      /\ data[Slot(tail)] = hist[tail + 1]
  <2>1. tail < head /\ ~Unpublished(tail)
    BY <1>0, <1>2 DEF SeqTellsTicket
  <2>2. ~Unreleased(tail)
    BY <1>0 DEF Unreleased, IInv, ConsumerKnows
  <2> QED
    BY <1>0, <1>2, <2>1, <2>2 DEF SeqTellsTicket
<1>4. \A t \in Nat : Unpublished(t)' <=> Unpublished(t)
  BY <1>1, Zenon DEF Unpublished, Pushing
<1>5. \A e \in Consumers : Popping(e)' <=> Popping(e) \/ e = c
  BY <1>0, <1>1, Zenon DEF Popping
<1>6. \A t \in Nat : Unreleased(t)' <=> Unreleased(t) \/ t = tail
  BY <1>0, <1>1, <1>5, Zenon DEF Unreleased
<1>7. ASSUME NEW t \in Nat PROVE SeqTellsTicket(t)'
  <2>1. SeqTellsTicket(t)
    BY Zenon DEF IInv
  <2>2. CASE t = tail
    BY SMTT(20), <1>0, <1>1, <1>2, <1>3, <1>4, <1>6, <2>2 DEF SeqTellsTicket
  <2>3. CASE t # tail
    <3>1. (t < tail' <=> t < tail) /\ (tail' <= t => tail <= t)
      BY <1>0, <1>1, <2>3
    <3> QED
      BY <1>1, <1>4, <1>6, <2>1, <2>3, <3>1, Zenon DEF SeqTellsTicket
  <2> QED
    BY <2>2, <2>3, Zenon
<1>8. ASSUME NEW p \in Producers PROVE ProducerKnows(p)'
  <2>1. ProducerKnows(p)
    BY Zenon DEF IInv
  <2>2. Pushing(p) => ppos[p] # tail
    BY SMTT(20), <1>3 DEF Unpublished
  <2> QED
    BY <1>0, <1>1, <2>1, <2>2 DEF ProducerKnows, Pushing
<1>9. ASSUME NEW e \in Consumers PROVE ConsumerKnows(e)'
  <2>1. ConsumerKnows(e) /\ \A f \in Consumers : Popping(f) => cpos[f] < tail
    BY Zenon DEF IInv, ConsumerKnows
  <2>2. (cpc[e] = "cas")' => cpos[e] # tail'
    BY SMTT(20), <1>0, <1>1, <2>1 DEF ConsumerKnows
  <2> QED
    BY <1>0, <1>1, <1>3, <1>5, <2>1, <2>2 DEF ConsumerKnows, Popping
<1>10. Bounded' /\ Len(hist') = head'
  BY <1>0, <1>1, <1>3 DEF IInv, Bounded
<1> QED
  BY <1>7, <1>8, <1>9, <1>10, Zenon DEF IInv

LEMMA PopReads ==
    ASSUME IInv, WellTyped', NEW c \in Consumers, PopData(c)
    PROVE  IInv'
<1>0. /\ cgot \in [Consumers -> Data \cup {NULL}]
      /\ cpc \in [Consumers -> {"idle", "seq", "reload", "cas", "data", "release"}]
  BY Zenon DEF IInv, WellTyped, TypeOK
<1>1. /\ cpc[c] = "data"
      /\ cgot' = [cgot EXCEPT ![c] = data[Slot(cpos[c])]]
      /\ cpc' = [cpc EXCEPT ![c] = "release"]
      /\ UNCHANGED <<head, tail, seq, data, ppc, ppos, parg, cpos, hist>>
  BY Zenon DEF PopData, pvars
<1>2. \A e \in Consumers : Popping(e)' <=> Popping(e)
  BY <1>0, <1>1, Zenon DEF Popping
<1>3. \A t \in Nat : /\ Unpublished(t)' <=> Unpublished(t)
                     /\ Unreleased(t)' <=> Unreleased(t)
  BY SMTT(20), <1>1, <1>2 DEF Unpublished, Pushing, Unreleased
<1>4. ASSUME NEW t \in Nat PROVE SeqTellsTicket(t)'
  BY <1>1, <1>3, Zenon DEF IInv, SeqTellsTicket
<1>5. ASSUME NEW p \in Producers PROVE ProducerKnows(p)'
  BY SMTT(20), <1>1 DEF IInv, ProducerKnows, Pushing
<1>6. ASSUME NEW e \in Consumers PROVE ConsumerKnows(e)'
  BY <1>0, <1>1, <1>2, Zenon DEF IInv, ConsumerKnows
<1> QED
  BY <1>1, <1>4, <1>5, <1>6, Zenon DEF IInv, Bounded

LEMMA PopReleases ==
    ASSUME Size > 1, IInv, WellTyped', NEW c \in Consumers, PopRelease(c)
    PROVE  IInv'
<1> USE SizeAssumption
<1> DEFINE u == cpos[c]
<1>0. /\ head \in Nat /\ tail \in Nat /\ u \in Nat /\ tail <= head
      /\ cpc \in [Consumers -> {"idle", "seq", "reload", "cas", "data", "release"}]
      /\ seq \in [Slots -> Nat] /\ cpos \in [Consumers -> Nat]
      /\ ppos \in [Producers -> Nat]
  BY Zenon DEF IInv, WellTyped, TypeOK, Bounded
<1>1. /\ cpc[c] = "release"
      /\ seq' = [seq EXCEPT ![Slot(u)] = u + Size]
      /\ cpc' = [cpc EXCEPT ![c] = "idle"]
      /\ UNCHANGED <<head, tail, data, ppc, ppos, parg, cpos, cgot, hist>>
  BY Zenon DEF PopRelease, ReleasedSeq, pvars
<1>2. u < tail
  BY SMTT(20), <1>1 DEF IInv, ConsumerKnows, Popping
<1>3. Slot(u) \in Slots /\ seq[Slot(u)] = u + 1 /\ Unreleased(u)
  BY <1>0, <1>1, SlotInSlots, Zenon DEF IInv, SeqTellsTicket, Unreleased, Popping
<1>4. \A e \in Consumers : Popping(e)' <=> Popping(e) /\ e # c
  BY <1>0, <1>1, Zenon DEF Popping
<1>5. \A e \in Consumers : e # c /\ Popping(e) => cpos[e] # u
  BY SMTT(20), <1>1 DEF IInv, ConsumerKnows, Popping
<1>6. \A t \in Nat : /\ Unpublished(t)' <=> Unpublished(t)
                     /\ Unreleased(t)' <=> Unreleased(t) /\ t # u
  BY <1>1, <1>4, <1>5, Zenon DEF Unpublished, Unreleased, Pushing
<1>7. ASSUME NEW t \in Nat PROVE SeqTellsTicket(t)'
  <2>1. SeqTellsTicket(t)
    BY Zenon DEF IInv
  <2>2. CASE Slot(t) # Slot(u)
    <3>1. seq'[Slot(t)] = seq[Slot(t)] /\ t # u
      BY <1>0, <1>1, <2>2, SlotInSlots, Zenon
    <3> QED
      BY <1>1, <1>6, <2>1, <3>1, Zenon DEF SeqTellsTicket
  <2>3. CASE t = u
    <3>1. seq'[Slot(t)] = u + Size
      BY SMTT(20), <1>0, <1>1, <1>3, <2>3
    <3>2. ~Unpublished(t)
      BY <1>3, <2>1, <2>3, <1>0 DEF SeqTellsTicket
    <3> QED
      BY <1>0, <1>1, <1>2, <1>6, <2>3, <3>1, <3>2 DEF SeqTellsTicket
  <2>4. CASE t # u /\ Slot(t) = Slot(u)
    <3>1. seq'[Slot(t)] = u + Size
      BY <1>0, <1>1, <1>3, <2>4, Zenon
    <3>2. ~(tail <= t /\ t < head) /\ ~Unreleased(t)
      BY <1>0, <1>3, <2>4, EntryAlone, Zenon
    <3>3. t >= u + Size \/ u >= t + Size
      BY <1>0, <2>4, SameSlotLap
    <3>4. ~Unpublished(t)
      BY <1>0, <3>2, Zenon DEF Unpublished, IInv, ProducerKnows
    <3>5. t < tail => u >= t
      BY SMTT(20), <1>0, <1>3, <2>1, <2>4, <3>2 DEF SeqTellsTicket
    <3> QED
      BY <1>0, <1>1, <1>2, <1>6, <3>1, <3>2, <3>3, <3>4, <3>5 DEF SeqTellsTicket
  <2> QED
    BY <2>2, <2>3, <2>4, Zenon
<1>8. ASSUME NEW p \in Producers PROVE ProducerKnows(p)'
  <2>1. ProducerKnows(p)
    BY Zenon DEF IInv
  <2>2. seq[Slot(head)] = head => Slot(head) # Slot(u)
    <3> SUFFICES ASSUME seq[Slot(head)] = head, Slot(head) = Slot(u) PROVE FALSE
      BY Zenon
    <3>1. head = u + 1
      BY <1>3, Zenon
    <3> QED
      BY <1>0, <3>1, SameSlotLap
  <2>3. seq[Slot(head)] = head => seq'[Slot(head)] = head
    BY SMTT(20), <1>0, <1>1, <2>2, SlotInSlots
  <2> QED
    BY <1>0, <1>1, <2>1, <2>3, Zenon DEF ProducerKnows, Pushing
<1>9. ASSUME NEW e \in Consumers PROVE ConsumerKnows(e)'
  <2>1. ConsumerKnows(e)
    BY Zenon DEF IInv
  <2>2. seq[Slot(tail)] = tail + 1 => Slot(tail) # Slot(u)
    BY <1>0, <1>2, <1>3
  <2>3. seq[Slot(tail)] = tail + 1 => seq'[Slot(tail)] = tail + 1
    BY <1>0, <1>1, <2>2, SlotInSlots, Zenon
  <2> QED
    BY <1>0, <1>1, <1>4, <2>1, <2>3, Zenon DEF ConsumerKnows, Popping
<1> QED
  BY <1>1, <1>7, <1>8, <1>9, Zenon DEF IInv, Bounded

LEMMA IInvStep ==
    ASSUME Size > 1, IInv, [Next]_vars
    PROVE  IInv'
<1>0. WellTyped'
  BY TypeStep, Zenon DEF IInv
<1>t. /\ head \in Nat /\ tail \in Nat
      /\ ppos \in [Producers -> Nat] /\ cpos \in [Consumers -> Nat]
      /\ ppc \in [Producers -> {"idle", "seq", "reload", "cas", "data", "publish"}]
      /\ cpc \in [Consumers -> {"idle", "seq", "reload", "cas", "data", "release"}]
      /\ parg \in [Producers -> Data \cup {NULL}]
  BY Zenon DEF IInv, WellTyped, TypeOK
<1>k. /\ \A p \in Producers : ProducerKnows(p)
      /\ \A c \in Consumers : ConsumerKnows(c)
  BY Zenon DEF IInv
<1> USE DEF Pushing, Popping
<1>1. ASSUME NEW p \in Producers, NEW d \in Data, PushStart(p, d) PROVE IInv'
  <2> SUFFICES /\ UNCHANGED <<head, tail, seq, data, hist, cpc, cpos, cgot>>
               /\ ppc[p] = "idle" /\ ppc' = [ppc EXCEPT ![p] = "seq"]
               /\ parg' = [parg EXCEPT ![p] = d]
               /\ ppos' = [ppos EXCEPT ![p] = head]
    BY <1>0, <1>t, <1>k, LocalStep DEF ProducerKnows, ConsumerKnows
  <2> QED
    BY SMTT(20), <1>1 DEF PushStart, cvars
<1>2. ASSUME NEW p \in Producers, PushFull(p) \/ PushSeq(p) \/ PushReload(p)
      PROVE  IInv'
  <2>1. UNCHANGED <<head, tail, seq, data, hist, parg, cpc, cpos, cgot>>
    BY SMTT(20), <1>2 DEF PushFull, PushSeq, PushReload, cvars
  <2>2. CASE PushFull(p) \/ PushSeq(p)
    BY SMTT(20), <1>0, <1>t, <1>k, <2>1, <2>2, LocalStep
       DEF PushFull, PushSeq, ProducerKnows, ConsumerKnows
  <2>3. CASE PushReload(p)
    BY <1>0, <1>t, <1>k, <2>1, <2>3, LocalStep
       DEF PushReload, ProducerKnows, ConsumerKnows
  <2> QED
    BY <1>2, <2>2, <2>3, Zenon
<1>3. ASSUME NEW p \in Producers, PushCas(p) PROVE IInv'
  <2>1. CASE head = ppos[p]
    BY SMTT(20), <1>0, <1>3, <2>1, PushClaims
  <2>2. CASE head # ppos[p]
    <3>1. /\ UNCHANGED <<head, tail, seq, data, hist, parg, cpc, cpos, cgot>>
          /\ ppc[p] = "cas" /\ ppc' = [ppc EXCEPT ![p] = "seq"]
          /\ ppos' = [ppos EXCEPT ![p] = head]
      BY <1>3, <2>2, Zenon DEF PushCas, cvars
    <3> QED
      BY <1>0, <1>t, <1>k, <3>1, LocalStep DEF ProducerKnows, ConsumerKnows
  <2> QED
    BY <2>1, <2>2, Zenon
<1>4. ASSUME NEW p \in Producers, PushData(p) PROVE IInv'
  BY <1>0, <1>4, PushWrites, Zenon
<1>5. ASSUME NEW p \in Producers, PushPublish(p) PROVE IInv'
  BY <1>0, <1>5, PushPublishes, Zenon
<1>6. ASSUME NEW c \in Consumers, PopStart(c) \/ PopEmpty(c) \/ PopSeq(c) \/ PopReload(c)
      PROVE  IInv'
  <2>1. UNCHANGED <<head, tail, seq, data, hist, ppc, ppos, parg, cgot>>
    BY SMTT(20), <1>6 DEF PopStart, PopEmpty, PopSeq, PopReload, pvars
  <2>2. CASE PopEmpty(c) \/ PopSeq(c)
    BY SMTT(20), <1>0, <1>t, <1>k, <2>1, <2>2, LocalStep
       DEF PopEmpty, PopSeq, ProducerKnows, ConsumerKnows
  <2>3. CASE PopStart(c) \/ PopReload(c)
    BY SMTT(20), <1>0, <1>t, <1>k, <2>1, <2>3, LocalStep
       DEF PopStart, PopReload, ProducerKnows, ConsumerKnows
  <2> QED
    BY <1>6, <2>2, <2>3, Zenon
<1>7. ASSUME NEW c \in Consumers, PopCas(c) PROVE IInv'
  <2>1. CASE tail = cpos[c]
    BY <1>0, <1>7, <2>1, PopClaims, Zenon
  <2>2. CASE tail # cpos[c]
    <3>1. /\ UNCHANGED <<head, tail, seq, data, hist, ppc, ppos, parg, cgot>>
          /\ cpc[c] = "cas" /\ cpc' = [cpc EXCEPT ![c] = "seq"]
          /\ cpos' = [cpos EXCEPT ![c] = tail]
      BY <1>7, <2>2, Zenon DEF PopCas, pvars
    <3> QED
      BY <1>0, <1>t, <1>k, <3>1, LocalStep DEF ProducerKnows, ConsumerKnows
  <2> QED
    BY <2>1, <2>2, Zenon
<1>8. ASSUME NEW c \in Consumers, PopData(c) PROVE IInv'
  BY SMTT(20), <1>0, <1>8, PopReads
<1>9. ASSUME NEW c \in Consumers, PopRelease(c) PROVE IInv'
  BY <1>0, <1>9, PopReleases, Zenon
<1>10. CASE UNCHANGED vars
  BY <1>0, <1>k, <1>10, LocalStep, Zenon DEF vars, pvars, cvars, ProducerKnows, ConsumerKnows
<1> QED
  BY <1>1, <1>2, <1>3, <1>4, <1>5, <1>6, <1>7, <1>8, <1>9, <1>10, Zenon
     DEF Next, PushStep, PopStep

\* The inductive invariant holds in every reachable state of a queue of two or
\* more entries, whatever the number of threads and of calls.
THEOREM InvariantHolds == ASSUME Size > 1 PROVE Spec => []IInv
<1>1. Init => IInv
  BY InitIInv, Zenon
<1>2. IInv /\ [Next]_vars => IInv'
  BY IInvStep, Zenon
<1> QED
  BY <1>1, <1>2, PTL DEF Spec

\* No two threads inside fr_atomic_queue_push or fr_atomic_queue_pop ever write,
\* or write and read, the same entry.
THEOREM NoSharedEntry == ASSUME Size > 1 PROVE Spec => []SlotExclusive
<1>1. IInv => SlotExclusive
  <2> SUFFICES ASSUME IInv PROVE SlotExclusive
    BY Zenon
  <2>1. /\ \A p \in Producers : Pushing(p) => /\ ppos[p] \in Nat
                                              /\ tail <= ppos[p] /\ ppos[p] < head
        /\ \A c \in Consumers : Popping(c) => /\ cpos[c] \in Nat /\ cpos[c] < tail
                                              /\ Unreleased(cpos[c])
        /\ tail \in Nat
    BY SMTT(20) DEF IInv, WellTyped, TypeOK, ProducerKnows, ConsumerKnows, Unreleased
  <2>2. \A p, q \in Producers :
          p # q /\ Pushing(p) /\ Pushing(q) => Slot(ppos[p]) # Slot(ppos[q])
    BY SMTT(20), <2>1, EntryAlone DEF IInv, ProducerKnows
  <2>3. \A c, e \in Consumers :
          c # e /\ Popping(c) /\ Popping(e) => Slot(cpos[c]) # Slot(cpos[e])
    BY <2>1, EntryAlone DEF IInv, ConsumerKnows
  <2>4. \A p \in Producers, c \in Consumers :
          Pushing(p) /\ Popping(c) => Slot(ppos[p]) # Slot(cpos[c])
    BY <2>1, EntryAlone
  <2> QED
    BY <2>2, <2>3, <2>4, Zenon DEF SlotExclusive
<1> QED
  BY <1>1, InvariantHolds, PTL

\* A pop returns the element that was pushed with its ticket.
THEOREM PopReturnsPushed == ASSUME Size > 1 PROVE Spec => []PopsWhatWasPushed
<1>1. IInv => PopsWhatWasPushed
  <2> SUFFICES ASSUME IInv, NEW c \in Consumers, cpc[c] = "release"
               PROVE  cpos[c] < head /\ cgot[c] = hist[cpos[c] + 1]
    BY Zenon DEF PopsWhatWasPushed
  <2>1. ConsumerKnows(c) /\ tail <= head /\ tail \in Nat /\ head \in Nat /\ cpos[c] \in Nat
    BY Zenon DEF IInv, Bounded, WellTyped, TypeOK
  <2> QED
    BY <2>1 DEF ConsumerKnows, Popping
<1> QED
  BY <1>1, InvariantHolds, PTL

\* An entry is never behind its first lap.
FirstLap == \A i \in Slots : seq[i] >= i

LEMMA SlotBelow ==
    ASSUME NEW t \in Nat
    PROVE  Slot(t) \in Nat /\ Slot(t) <= t /\ (t < Size => Slot(t) = t)
BY SizeAssumption DEF Slot

LEMMA FirstLapStep ==
    ASSUME WellTyped, FirstLap, [Next]_vars
    PROVE  FirstLap'
<1>0. seq \in [Slots -> Nat] /\ ppos \in [Producers -> Nat] /\ cpos \in [Consumers -> Nat]
  BY Zenon DEF WellTyped, TypeOK
<1>1. ASSUME NEW t \in Nat, NEW n \in Nat, n >= t, seq' = [seq EXCEPT ![Slot(t)] = n]
      PROVE  FirstLap'
  <2>1. n >= Slot(t)
    BY <1>1, SlotBelow
  <2>2. \A i \in Slots : seq'[i] = seq[i] \/ (i = Slot(t) /\ seq'[i] = n)
    BY <1>0, <1>1, Zenon
  <2> QED
    BY <2>1, <2>2, Zenon DEF FirstLap
<1>2. ASSUME NEW p \in Producers, PushPublish(p)
      PROVE  FirstLap'
  <2>1. seq' = [seq EXCEPT ![Slot(ppos[p])] = ppos[p] + 1]
    BY <1>2, Zenon DEF PushPublish, PublishedSeq
  <2>2. PICK t \in Nat : t = ppos[p]
    BY <1>0
  <2>3. t + 1 \in Nat /\ t + 1 >= t
    OBVIOUS
  <2> QED
    BY <1>1, <2>1, <2>2, <2>3, Zenon
<1>3. ASSUME NEW c \in Consumers, PopRelease(c)
      PROVE  FirstLap'
  <2>1. seq' = [seq EXCEPT ![Slot(cpos[c])] = cpos[c] + Size]
    BY <1>3, Zenon DEF PopRelease, ReleasedSeq
  <2>2. PICK t \in Nat : t = cpos[c]
    BY <1>0
  <2>3. t + Size \in Nat /\ t + Size >= t
    BY SizeAssumption
  <2> QED
    BY <1>1, <2>1, <2>2, <2>3, Zenon
<1>4. CASE seq' = seq
  BY <1>4, Zenon DEF FirstLap
<1> QED
  BY <1>2, <1>3, <1>4, Zenon DEF Next, PushStep, PushFull, PushSeq, PushReload, PushCas, PushData,
     PushStart, PopStep, PopEmpty, PopSeq, PopReload, PopCas, PopData, PopStart, vars

\* "false on queue full": fr_atomic_queue_push returns false only when the queue
\* is full, or when a pop has not yet released the entry the push needs.
THEOREM PushFailsInUse == ASSUME Size > 1 PROVE Spec => PushFalseMeansInUse
<1> DEFINE Busy(p) == \/ head = tail + Size
                      \/ \E c \in Consumers : Popping(c) /\ Slot(cpos[c]) = Slot(ppos[p])
<1>1. Init => FirstLap
  BY SizeAssumption DEF Init, FirstLap, Slots
<1>2. IInv /\ FirstLap /\ [Next]_vars => FirstLap'
  BY FirstLapStep, Zenon DEF IInv
<1>3. IInv /\ FirstLap => \A p \in Producers : PushFull(p) => Busy(p)
  <2> SUFFICES ASSUME IInv, FirstLap, NEW p \in Producers, PushFull(p), head # tail + Size
               PROVE  \E c \in Consumers : Popping(c) /\ Slot(cpos[c]) = Slot(ppos[p])
    BY Zenon
  <2>0. /\ head \in Nat /\ tail \in Nat /\ ppos[p] \in Nat /\ head <= tail + Size
        /\ ppos[p] <= head /\ seq[Slot(ppos[p])] < ppos[p]
        /\ seq[Slot(ppos[p])] \in Nat
    BY SlotInSlots, Zenon DEF IInv, WellTyped, TypeOK, Bounded, ProducerKnows, PushFull
  <2>1. PICK u \in Nat : u = ppos[p]
    BY <2>0
  <2>2. SeqTellsTicket(u)
    BY Zenon DEF IInv
  <2>3. u = head
    BY <2>0, <2>1, <2>2, SizeAssumption DEF SeqTellsTicket
  <2>4. u >= Size
    <3>1. seq[Slot(u)] >= Slot(u)
      BY SlotInSlots, Zenon DEF FirstLap
    <3> QED
      BY <2>0, <2>1, <3>1, SlotBelow, SizeAssumption
  <2>5. PICK t \in Nat : t + Size = u
    <3>1. u - Size \in Nat /\ (u - Size) + Size = u
      BY <2>4, SizeAssumption
    <3> QED
      BY <3>1, Zenon
  <2>6. Slot(t) = Slot(u) /\ SeqTellsTicket(t)
    BY <2>5, NextLapSameSlot, Zenon DEF IInv
  <2>7. t < tail /\ ~(seq[Slot(t)] >= t + Size)
    BY <2>0, <2>1, <2>3, <2>5, <2>6, SizeAssumption
  <2>8. Unreleased(t)
    BY <2>6, <2>7, Zenon DEF SeqTellsTicket
  <2> QED
    BY <2>1, <2>6, <2>8, Zenon DEF Unreleased
<1>4. Spec => [](IInv /\ FirstLap)
  <2>1. Spec => []IInv
    BY InvariantHolds
  <2> QED
    BY <1>1, <1>2, <2>1, PTL DEF Spec
<1>5. IInv /\ FirstLap /\ [Next]_vars => [\A p \in Producers : PushFull(p) => Busy(p)]_vars
  BY <1>3, Zenon
<1> QED
  BY <1>4, <1>5, PTL DEF Spec, PushFalseMeansInUse

-----------------------------------------------------------------------------
(* The queue is a bounded FIFO. *)

LOCAL INSTANCE SequenceTheorems

Waiting == SubSeq(hist, tail + 1, head)

Given == [c \in Consumers |-> IF cpc[c] = "data" THEN hist[cpos[c] + 1] ELSE cgot[c]]

LEMMA Slice ==
    ASSUME NEW s \in Seq(Data), NEW m \in Nat, NEW n \in Nat, m <= n, n <= Len(s)
    PROVE  /\ SubSeq(s, m + 1, n) \in Seq(Data)
           /\ Len(SubSeq(s, m + 1, n)) = n - m
           /\ \A i \in 1 .. n - m : SubSeq(s, m + 1, n)[i] = s[m + i]
<1>1. \A i \in m + 1 .. n : s[i] \in Data
  BY ElementOfSeq
<1>2. Len(SubSeq(s, m + 1, n)) = n - m /\ SubSeq(s, m + 1, n) \in Seq(Data)
  BY <1>1, SubSeqProperties
<1>3. ASSUME NEW i \in 1 .. n - m
      PROVE  SubSeq(s, m + 1, n)[i] = s[m + i]
  BY <1>1, SubSeqProperties
<1> QED
  BY <1>2, <1>3, Zenon

LEMMA WaitingLength ==
    ASSUME IInv
    PROVE  Waiting \in Seq(Data) /\ Len(Waiting) = head - tail
<1>1. head \in Nat /\ tail \in Nat /\ tail <= head /\ hist \in Seq(Data) /\ Len(hist) = head
  BY Zenon DEF IInv, WellTyped, TypeOK, Bounded
<1> QED
  BY <1>1, Slice DEF Waiting

LEMMA ClaimEnqueues ==
    ASSUME Size > 1, IInv, IInv', NEW p \in Producers, PushCas(p), head = ppos[p]
    PROVE  Fifo!Enqueue(parg[p])
<1>0. /\ head \in Nat /\ tail \in Nat /\ tail <= head /\ hist \in Seq(Data)
      /\ Len(hist) = head /\ parg[p] \in Data /\ head' <= tail' + Size
  BY SMTT(20) DEF IInv, WellTyped, TypeOK, Bounded, PushCas
<1>1. /\ head' = head + 1 /\ tail' = tail /\ hist' = Append(hist, parg[p])
      /\ UNCHANGED <<cpc, cpos, cgot>>
  BY Zenon DEF PushCas, cvars
<1>2. /\ hist' \in Seq(Data) /\ Len(hist') = head + 1 /\ hist'[head + 1] = parg[p]
      /\ \A i \in 1 .. head : hist'[i] = hist[i]
  BY <1>0, <1>1, AppendProperties
<1>3. Waiting' = Append(Waiting, parg[p])
  <2>1. /\ Waiting' \in Seq(Data) /\ Len(Waiting') = head + 1 - tail
        /\ \A i \in 1 .. head + 1 - tail : Waiting'[i] = hist'[tail + i]
    <3>1. Waiting' = SubSeq(hist', tail + 1, head + 1)
      BY <1>1, Zenon DEF Waiting
    <3>2. ASSUME NEW s \in Seq(Data), Len(s) = head + 1
          PROVE  /\ SubSeq(s, tail + 1, head + 1) \in Seq(Data)
                 /\ Len(SubSeq(s, tail + 1, head + 1)) = head + 1 - tail
                 /\ \A i \in 1 .. head + 1 - tail :
                       SubSeq(s, tail + 1, head + 1)[i] = s[tail + i]
      <4>1. head + 1 \in Nat /\ tail <= head + 1
        BY <1>0
      <4> QED
        BY <1>0, <3>2, <4>1, Slice, SMTT(30)
    <3> QED
      BY <1>2, <3>1, <3>2, Zenon
  <2>2. /\ Waiting \in Seq(Data) /\ Len(Waiting) = head - tail
        /\ \A i \in 1 .. head - tail : Waiting[i] = hist[tail + i]
    BY <1>0, Slice DEF Waiting
  <2>3. /\ Append(Waiting, parg[p]) \in Seq(Data)
        /\ Len(Append(Waiting, parg[p])) = head + 1 - tail
        /\ \A i \in 1 .. head - tail : Append(Waiting, parg[p])[i] = Waiting[i]
        /\ Append(Waiting, parg[p])[head + 1 - tail] = parg[p]
    BY <1>0, <2>2, AppendProperties
  <2>4. ASSUME NEW i \in 1 .. head + 1 - tail
        PROVE  Waiting'[i] = Append(Waiting, parg[p])[i]
    <3>1. CASE i = head + 1 - tail
      <4>1. tail + i = head + 1
        BY <1>0, <3>1
      <4> QED
        BY <1>2, <2>1, <2>3, <3>1, <4>1, Zenon
    <3>2. CASE i # head + 1 - tail
      <4>1. i \in 1 .. head - tail /\ tail + i \in 1 .. head
        BY <1>0, <3>2
      <4> QED
        BY <1>2, <2>1, <2>2, <2>3, <4>1, Zenon
    <3> QED
      BY <3>1, <3>2, Zenon
  <2> QED
    BY <2>1, <2>3, <2>4, SeqEqual, Zenon
<1>4. Given' = Given
  <2>1. ASSUME NEW c \in Consumers, cpc[c] = "data"
        PROVE  hist'[cpos[c] + 1] = hist[cpos[c] + 1]
    <3>0. cpos[c] \in Nat /\ ConsumerKnows(c)
      BY Zenon DEF IInv, WellTyped, TypeOK
    <3>1. cpos[c] \in Nat /\ cpos[c] < head
      BY <1>0, <2>1, <3>0 DEF ConsumerKnows, Popping
    <3>2. cpos[c] + 1 \in 1 .. head
      BY <1>0, <3>1
    <3> QED
      BY <1>2, <3>2, Zenon
  <2> QED
    BY <1>1, <2>1, Zenon DEF Given
<1>5. Len(Waiting) < Size
  BY SMTT(20), <1>0, <1>1, WaitingLength, SizeAssumption
<1> QED
  BY <1>3, <1>4, <1>5, Zenon DEF Fifo!Enqueue, Waiting, Given

LEMMA ClaimDequeues ==
    ASSUME Size > 1, IInv, IInv', NEW c \in Consumers, PopCas(c), tail = cpos[c]
    PROVE  Fifo!Dequeue(c)
<1>0. /\ head \in Nat /\ tail \in Nat /\ hist \in Seq(Data) /\ Len(hist) = head
      /\ cpc[c] = "cas" /\ tail' <= head' /\ cgot \in [Consumers -> Data \cup {NULL}]
      /\ cpc \in [Consumers -> {"idle", "seq", "reload", "cas", "data", "release"}]
  BY SMTT(20) DEF IInv, WellTyped, TypeOK, Bounded, PopCas
<1>1. /\ tail' = tail + 1 /\ head' = head /\ hist' = hist
      /\ cpc' = [cpc EXCEPT ![c] = "data"]
      /\ UNCHANGED <<cpos, cgot>>
  BY <1>0, Zenon DEF PopCas, pvars
<1>2. Head(Waiting) = hist[tail + 1] /\ Tail(Waiting) = SubSeq(hist, (tail + 1) + 1, head)
  <2>1. tail + 1 \in 1 .. Len(hist) /\ head \in tail + 1 .. Len(hist)
    BY <1>0, <1>1
  <2>2. ASSUME NEW m \in 1 .. Len(hist), NEW n \in m .. Len(hist)
        PROVE  /\ Head(SubSeq(hist, m, n)) = hist[m]
               /\ Tail(SubSeq(hist, m, n)) = SubSeq(hist, m + 1, n)
    BY <1>0, HeadTailOfSubSeq, Zenon
  <2> QED
    BY <2>1, <2>2, Zenon DEF Waiting
<1>3. Waiting # << >>
  BY <1>0, <1>1, WaitingLength
<1>4. Waiting' = Tail(Waiting)
  BY <1>1, <1>2, Zenon DEF Waiting
<1>5. Given' = [Given EXCEPT ![c] = Head(Waiting)]
  BY <1>0, <1>1, <1>2, Zenon DEF Given
<1> QED
  BY <1>3, <1>4, <1>5, Zenon DEF Fifo!Dequeue, Waiting, Given

LEMMA OthersStutter ==
    ASSUME IInv, UNCHANGED <<head, tail, hist>>, Given' = Given
    PROVE  UNCHANGED Fifo!fvars
BY Zenon DEF Fifo!fvars, Given

LEMMA StepRefines ==
    ASSUME Size > 1, IInv, IInv', [Next]_vars
    PROVE  [Fifo!FifoNext]_Fifo!fvars
<1>0. /\ cgot \in [Consumers -> Data \cup {NULL}]
      /\ cpc \in [Consumers -> {"idle", "seq", "reload", "cas", "data", "release"}]
      /\ cpos \in [Consumers -> Nat]
  BY Zenon DEF IInv, WellTyped, TypeOK
<1>1. ASSUME NEW p \in Producers,
             PushStep(p) \/ \E d \in Data : PushStart(p, d)
      PROVE  [Fifo!FifoNext]_Fifo!fvars
  <2>1. CASE PushCas(p) /\ head = ppos[p]
    BY <2>1, ClaimEnqueues, Zenon DEF Fifo!FifoNext, IInv, WellTyped, PushCas
  <2>2. CASE ~(PushCas(p) /\ head = ppos[p])
    <3>1. UNCHANGED <<head, tail, hist, cpc, cpos, cgot>>
      BY <1>1, <2>2 DEF PushStep, PushStart, PushFull, PushSeq, PushReload, PushCas,
                        PushData, PushPublish, cvars
    <3> QED
      BY SMTT(20), <3>1, OthersStutter DEF Given
  <2> QED
    BY <2>1, <2>2, Zenon
<1>2. ASSUME NEW c \in Consumers, PopStep(c) \/ PopStart(c)
      PROVE  [Fifo!FifoNext]_Fifo!fvars
  <2>1. CASE PopCas(c) /\ tail = cpos[c]
    BY <2>1, ClaimDequeues, Zenon DEF Fifo!FifoNext
  <2>2. CASE PopCas(c) /\ tail # cpos[c]
    <3>1. /\ UNCHANGED <<head, tail, hist, cgot>> /\ cpc[c] = "cas"
          /\ cpc' = [cpc EXCEPT ![c] = "seq"] /\ cpos' = [cpos EXCEPT ![c] = tail]
      BY <2>2, Zenon DEF PopCas
    <3> QED
      BY <1>0, <3>1, OthersStutter, Zenon DEF Given
  <2>3. CASE PopData(c)
    <3>1. /\ UNCHANGED <<head, tail, hist, cpos>> /\ cpc[c] = "data"
          /\ cpc' = [cpc EXCEPT ![c] = "release"]
          /\ cgot' = [cgot EXCEPT ![c] = hist[cpos[c] + 1]]
      BY ZenonT(30), <2>3 DEF PopData, IInv, ConsumerKnows
    <3> QED
      BY <1>0, <3>1, OthersStutter, Zenon DEF Given
  <2>4. CASE PopStart(c) \/ PopEmpty(c) \/ PopSeq(c) \/ PopReload(c) \/ PopRelease(c)
    <3>1. /\ UNCHANGED <<head, tail, hist, cgot>> /\ cpc[c] # "data" /\ cpc'[c] # "data"
          /\ \A e \in Consumers : e # c => cpc'[e] = cpc[e] /\ cpos'[e] = cpos[e]
      BY <1>0, <2>4, Zenon DEF PopStart, PopEmpty, PopSeq, PopReload, PopRelease
    <3> QED
      BY SMTT(20), <1>0, <3>1, OthersStutter DEF Given
  <2> QED
    BY <1>2, <2>1, <2>2, <2>3, <2>4, Zenon DEF PopStep
<1>3. CASE UNCHANGED vars
  BY <1>3, OthersStutter, Zenon DEF vars, cvars, Given
<1> QED
  BY <1>1, <1>2, <1>3, Zenon DEF Next

\* The queue of src/lib/io/atomic_queue.c, with two or more entries and used by
\* any number of threads, implements a FIFO of that many elements.
THEOREM ImplementsFifo == ASSUME Size > 1 PROVE Spec => RefinesFifo
<1>1. Init => Fifo!FifoInit
  <2> SUFFICES ASSUME Init PROVE Fifo!FifoInit
    BY Zenon
  <2>1. SubSeq(hist, tail + 1, head) = << >>
    BY SubSeqEmpty DEF Init
  <2> QED
    BY <2>1, Zenon DEF Init, Fifo!FifoInit
<1>2. IInv /\ IInv' /\ [Next]_vars => [Fifo!FifoNext]_Fifo!fvars
  BY StepRefines, Zenon
<1> QED
  BY <1>1, <1>2, InvariantHolds, PTL DEF Spec, RefinesFifo, Fifo!FifoSpec

=============================================================================
