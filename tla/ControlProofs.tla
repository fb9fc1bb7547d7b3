--------------------------- MODULE ControlProofs ---------------------------
(***************************************************************************)
(* Proofs about Control, for every number of senders and every size of the *)
(* ring buffers, the queue, the pipe and the read buffer.                  *)
(*                                                                         *)
(* A message that is queued or being copied keeps its place in the ring    *)
(* buffer, because fr_control_gc frees only messages that are done.  The   *)
(* messages of one sender stand in the line in the order of the calls.     *)
(*                                                                         *)
(* As long as only one thread has sent, the messages in the queue and the  *)
(* one being copied are exactly as many as the bytes in the pipe, those    *)
(* already read, and the one the sender is about to write.  To keep that   *)
(* count, a pop must never find a queue that only looks empty: an entry    *)
(* that is not published is the last one, and its byte has not been        *)
(* written.                                                                *)
(***************************************************************************)
EXTENDS Control, TLAPS

Good(r) == r \in Rings(Nat \ {0}) /\ Shape(r)

\* What the proofs use of the ring buffers: they hold distinct offsets,
\* fr_ring_buffer_alloc adds one at the end, fr_ring_buffer_free drops the first
\* ones.  RingFactsHold, at the end, takes these facts from RingBufferProofs.
Distinct(r) ==
    /\ r.size \in Nat \ {0} /\ Used(r) \in Nat /\ Len(Layout(r)) = Used(r)
    /\ \A i, j \in 1 .. Used(r) : Layout(r)[i] = Layout(r)[j] => i = j

Adds(r) ==
    /\ Good(Alloc(r, 1)) /\ Alloc(r, 1).size = r.size /\ Used(Alloc(r, 1)) = Used(r) + 1
    /\ Place(r, 1) \in Nat /\ Place(r, 1) + 1 <= r.size
    /\ \A i \in 1 .. Used(r) : Layout(Alloc(r, 1))[i] = Layout(r)[i]
    /\ Layout(Alloc(r, 1))[Used(r) + 1] = Place(r, 1) + 1 - 1

Drops(r, n) ==
    /\ Good(Free(r, n)) /\ Free(r, n).size = r.size /\ Used(Free(r, n)) = Used(r) - n
    /\ \A i \in 1 .. Used(Free(r, n)) : Layout(Free(r, n))[i] = Layout(r)[n + i]

RingFacts ==
    /\ \A r : Good(r) => Distinct(r)
    /\ \A r : Good(r) /\ Fits(r, 1) => Adds(r)
    /\ \A r : \A n \in Nat \ {0} : Good(r) /\ n <= Used(r) => Drops(r, n)

LEMMA RingNew ==
    ASSUME NEW size \in Nat \ {0}
    PROVE  Good(NewRing(size))
BY DEF Good, NewRing, Rings, Shape

\* The offsets of the messages in a ring buffer.
Bytes(r) == {Layout(r)[i] : i \in 1 .. Used(r)}

\* The message of an entry is in its ring buffer, and in use.
Live(e) == status[e.from][e.at] = "USED" /\ e.at \in Bytes(rb[e.from])

\* The message was sent, and no later one has reached its callback.
Waiting(e) == e.n <= calls[e.from] /\ seen[e.from] < e.n

\* Two entries of one sender hold two messages, the first one older.
Before(e, f) == e.from = f.from => e.at # f.at /\ e.n < f.n

QueueSound ==
    /\ \A i \in 1 .. Len(aq) : Live(aq[i]) /\ Waiting(aq[i])
    /\ \A i, j \in 1 .. Len(aq) : i < j => Before(aq[i], aq[j])

CopySound ==
    got # Nothing => Live(got) /\ Waiting(got) /\ \A i \in 1 .. Len(aq) : Before(got, aq[i])

\* A message is copied only on behalf of a byte.
CopiesForByte == got # Nothing => todo > 0

RingsGood == \A s \in Senders : Good(rb[s])

\* Only a message that was sent has reached its callback.
SeenSound == \A s \in Senders : seen[s] <= calls[s]

IInv == TypeOK /\ RingsGood /\ CopiesForByte /\ SeenSound /\ QueueSound /\ CopySound

-----------------------------------------------------------------------------
(* A ring buffer of messages of one unit *)

\* The message goes to a place that no other one has.
LEMMA OneMore ==
    ASSUME RingFacts, NEW r, Good(r), Fits(r, 1)
    PROVE  /\ Good(Alloc(r, 1)) /\ Alloc(r, 1).size = r.size
           /\ Place(r, 1) \in 0 .. r.size - 1
           /\ Place(r, 1) \notin Bytes(r)
           /\ Bytes(r) \subseteq Bytes(Alloc(r, 1))
           /\ Place(r, 1) \in Bytes(Alloc(r, 1))
<1> DEFINE a == Alloc(r, 1)
           u == Used(r)
           p == Place(r, 1)
<1>1. Good(a) /\ a.size = r.size /\ Used(a) = u + 1 /\ u \in Nat
  BY DEF RingFacts, Adds, Distinct
<1>2. p \in Nat /\ p + 1 <= r.size /\ r.size \in Nat
  BY DEF RingFacts, Adds, Distinct
<1>3. p \in 0 .. r.size - 1
  BY <1>2
<1>4. \A i \in 1 .. u : Layout(a)[i] = Layout(r)[i]
  BY DEF RingFacts, Adds
<1>5. Layout(a)[u + 1] = p
  <2>1. Layout(a)[u + 1] = p + 1 - 1
    BY DEF RingFacts, Adds
  <2> QED
    BY <1>2, <2>1
<1> HIDE DEF a, p
<1>6. \A i \in 1 .. u : i \in 1 .. Used(a) /\ i # u + 1
  BY <1>1
<1>7. u + 1 \in 1 .. Used(a)
  BY <1>1
<1>8. p \notin Bytes(r)
  BY <1>1, <1>4, <1>5, <1>6, <1>7 DEF Bytes, RingFacts, Distinct
<1>9. Bytes(r) \subseteq Bytes(a) /\ p \in Bytes(a)
  BY <1>4, <1>5, <1>6, <1>7, Zenon DEF Bytes
<1> QED
  BY <1>1, <1>3, <1>8, <1>9 DEF a, p

\* What fr_control_message_alloc works on has the right shape, and keeps every
\* message that is in use.
LEMMA RoomKeeps ==
    ASSUME RingFacts, IInv, NEW s \in Senders, NEW room \in RoomFor(s)
    PROVE  /\ Good(room) /\ room.size = RbSize
           /\ \A o \in Bytes(rb[s]) : status[s][o] = "USED" => o \in Bytes(room)
<1>1. Good(rb[s]) /\ rb[s].size = RbSize
  BY DEF IInv, RingsGood, TypeOK, Rings
<1>2. ASSUME NEW n \in Collectable(s)
      PROVE  /\ Good(Free(rb[s], n)) /\ Free(rb[s], n).size = RbSize
             /\ \A o \in Bytes(rb[s]) : status[s][o] = "USED" => o \in Bytes(Free(rb[s], n))
  <2>1. PICK r : r = rb[s]
    OBVIOUS
  <2>2. Good(r) /\ r.size = RbSize
    BY <1>1, <2>1
  <2>3. Len(Layout(r)) = Used(r) /\ Used(r) \in Nat
    BY <2>2 DEF RingFacts, Distinct
  <2>4. n \in 0 .. Used(r) /\ \A k \in 1 .. n : status[s][Layout(r)[k]] = "DONE"
    BY <2>1, <2>3 DEF Collectable
  <2>5. CASE n = 0
    BY <2>1, <2>2, <2>5 DEF Free
  <2>6. CASE n # 0
    <3>1. n \in Nat \ {0} /\ n <= Used(r)
      BY <2>3, <2>4, <2>6
    <3>2. Good(Free(r, n)) /\ Free(r, n).size = RbSize /\ Used(Free(r, n)) = Used(r) - n
      BY <2>2, <3>1 DEF RingFacts, Drops
    <3>3. Used(r) - Used(Free(r, n)) = n
      BY <2>3, <3>1, <3>2
    <3>4. \A i \in 1 .. Used(Free(r, n)) : Layout(Free(r, n))[i] = Layout(r)[n + i]
      BY <2>2, <3>1 DEF RingFacts, Drops
    <3>5. ASSUME NEW j \in 1 .. Used(r), status[s][Layout(r)[j]] = "USED"
          PROVE  Layout(r)[j] \in Bytes(Free(r, n))
      <4>1. j \notin 1 .. n
        BY <2>4, <3>5
      <4>2. j - n \in 1 .. Used(Free(r, n)) /\ n + (j - n) = j
        BY <2>3, <3>1, <3>2, <4>1
      <4> QED
        BY <3>4, <4>2 DEF Bytes
    <3> QED
      BY <2>1, <3>2, <3>5 DEF Bytes
  <2> QED
    BY <2>5, <2>6
<1> QED
  BY <1>1, <1>2 DEF RoomFor, Collected

-----------------------------------------------------------------------------
(* What a step must keep *)

LEMMA EntryFields ==
    ASSUME NEW e \in Entries
    PROVE  /\ e.from \in Senders /\ e.at \in Offsets /\ e.n \in 1 .. MaxSends
           /\ e.published \in BOOLEAN /\ e # Nothing
<1>1. e.from \in Senders /\ e.at \in Offsets /\ e.n \in 1 .. MaxSends /\ e.published \in BOOLEAN
  BY DEF Entries
<1>2. e.n # 0
  BY <1>1
<1> QED
  BY <1>1, <1>2 DEF Nothing

LEMMA LineTypes ==
    ASSUME TypeOK
    PROVE  /\ Len(aq) \in Nat
           /\ \A i \in 1 .. Len(aq) : aq[i] \in Entries
           /\ got # Nothing => got \in Entries
BY DEF TypeOK

\* A sender's new ring buffer has the type the invariant asks for.
LEMMA RingTyped ==
    ASSUME IInv, NEW s \in Senders, NEW r, Good(r), r.size = RbSize,
           rb' = [rb EXCEPT ![s] = r]
    PROVE  rb' \in [Senders -> Rings({RbSize})] /\ RingsGood'
<1>1. r \in Rings({RbSize})
  BY DEF Good, Rings
<1>2. rb \in [Senders -> Rings({RbSize})] /\ \A t \in Senders : Good(rb[t])
  BY Zenon DEF IInv, TypeOK, RingsGood
<1> QED
  BY <1>1, <1>2, Zenon DEF RingsGood

\* A message in use stays so when its sender's ring buffer keeps it.
LEMMA StillLive ==
    ASSUME IInv, NEW s \in Senders, NEW r,
           rb' = [rb EXCEPT ![s] = r],
           \A t \in Senders : t # s => status'[t] = status[t],
           \A o \in Bytes(rb[s]) : status[s][o] = "USED" => o \in Bytes(r) /\ status'[s][o] = "USED",
           NEW e \in Entries, Live(e)
    PROVE  status'[e.from][e.at] = "USED" /\ e.at \in Bytes(rb'[e.from])
<1>1. e.from \in Senders
  BY EntryFields
<1>2. rb \in [Senders -> Rings({RbSize})]
  BY Zenon DEF IInv, TypeOK
<1>3. CASE e.from = s
  <2>1. rb'[s] = r
    BY <1>2, Zenon
  <2> QED
    BY <1>3, <2>1, Zenon DEF Live
<1>4. CASE e.from # s
  <2>1. rb'[e.from] = rb[e.from]
    BY <1>1, <1>2, <1>4, Zenon
  <2> QED
    BY <1>1, <1>4, <2>1, Zenon DEF Live
<1> QED
  BY <1>3, <1>4

\* A call adds to the number of calls.
LEMMA StillWaiting ==
    ASSUME IInv, NEW s \in Senders, calls' = [calls EXCEPT ![s] = @ + 1], seen' = seen,
           NEW e \in Entries, Waiting(e)
    PROVE  e.n <= calls'[e.from] /\ seen'[e.from] < e.n
<1>1. e.from \in Senders /\ e.n \in 1 .. MaxSends
  BY EntryFields
<1>2. calls[e.from] \in Nat /\ calls \in [Senders -> 0 .. MaxSends]
  BY <1>1, ControlAssumption DEF IInv, TypeOK
<1>3. calls'[e.from] = calls[e.from] \/ calls'[e.from] = calls[e.from] + 1
  BY <1>1, <1>2
<1> QED
  BY <1>1, <1>2, <1>3, ControlAssumption DEF Waiting

\* A step that moves no entry keeps the line.
LEMMA LineKept ==
    ASSUME IInv, got' = got, Len(aq') = Len(aq),
           \A i \in 1 .. Len(aq) : /\ aq'[i].from = aq[i].from
                                   /\ aq'[i].at = aq[i].at
                                   /\ aq'[i].n = aq[i].n,
           \A e \in Entries : Live(e) => status'[e.from][e.at] = "USED" /\ e.at \in Bytes(rb'[e.from]),
           \A e \in Entries : Waiting(e) => e.n <= calls'[e.from] /\ seen'[e.from] < e.n
    PROVE  QueueSound' /\ CopySound'
<1>1. /\ \A i \in 1 .. Len(aq) : aq[i] \in Entries
      /\ got # Nothing => got \in Entries
  BY LineTypes DEF IInv
<1>2. \A i \in 1 .. Len(aq) : Live(aq[i])' /\ Waiting(aq[i])'
  <2> SUFFICES ASSUME NEW i \in 1 .. Len(aq)
               PROVE  Live(aq[i])' /\ Waiting(aq[i])'
    OBVIOUS
  <2>1. Live(aq[i]) /\ Waiting(aq[i]) /\ aq[i] \in Entries
    BY <1>1, Zenon DEF IInv, QueueSound
  <2> QED
    BY <2>1, Zenon DEF Live, Waiting
<1>3. ASSUME NEW i \in 1 .. Len(aq), NEW j \in 1 .. Len(aq), i < j
      PROVE  Before(aq[i], aq[j])'
  <2>1. Before(aq[i], aq[j])
    BY <1>3, Zenon DEF IInv, QueueSound
  <2>2. /\ aq'[i].from = aq[i].from /\ aq'[i].at = aq[i].at /\ aq'[i].n = aq[i].n
        /\ aq'[j].from = aq[j].from /\ aq'[j].at = aq[j].at /\ aq'[j].n = aq[j].n
    BY Zenon
  <2> QED
    BY <2>1, <2>2 DEF Before
<1>4. QueueSound'
  BY <1>2, <1>3, Zenon DEF QueueSound
<1>5. CASE got # Nothing
  <2>1. Live(got)' /\ Waiting(got)'
    <3>1. Live(got) /\ Waiting(got) /\ got \in Entries
      BY <1>1, <1>5, Zenon DEF IInv, CopySound
    <3> QED
      BY <3>1, Zenon DEF Live, Waiting
  <2>2. \A i \in 1 .. Len(aq) : Before(got, aq[i])'
    BY <1>5, Zenon DEF IInv, CopySound, Before
  <2> QED
    BY <1>4, <2>1, <2>2, Zenon DEF CopySound
<1>6. CASE got = Nothing
  BY <1>4, <1>6, Zenon DEF CopySound
<1> QED
  BY <1>5, <1>6

-----------------------------------------------------------------------------
(* The sender *)

LEMMA CallTypes ==
    ASSUME IInv, NEW s \in Senders, calls[s] < MaxSends, calls' = [calls EXCEPT ![s] = @ + 1]
    PROVE  calls' \in [Senders -> 0 .. MaxSends] /\ (seen' = seen => SeenSound')
<1>1. /\ calls \in [Senders -> 0 .. MaxSends] /\ calls[s] + 1 \in 0 .. MaxSends
      /\ seen \in [Senders -> 0 .. MaxSends]
  BY ControlAssumption DEF IInv, TypeOK
<1>2. calls' \in [Senders -> 0 .. MaxSends]
  BY <1>1, Zenon
<1>3. ASSUME NEW t \in Senders, seen' = seen
      PROVE  seen'[t] <= calls'[t]
  <2>1. seen[t] <= calls[t] /\ seen[t] \in Nat /\ calls[t] \in Nat
    BY <1>1, ControlAssumption DEF IInv, SeenSound
  <2>2. calls'[t] = calls[t] \/ calls'[t] = calls[t] + 1
    BY <1>1
  <2> QED
    BY <1>3, <2>1, <2>2
<1> QED
  BY <1>2, <1>3, Zenon DEF SeenSound

LEMMA NoMessageKeeps ==
    ASSUME RingFacts, IInv, NEW s \in Senders, NoMessage(s)
    PROVE  IInv'
<1>1. /\ calls[s] < MaxSends /\ calls' = [calls EXCEPT ![s] = @ + 1]
      /\ UNCHANGED <<status, pc, aq, bytes, todo, got, seen>>
  BY Zenon DEF NoMessage
<1>2. PICK room \in RoomFor(s) : rb' = [rb EXCEPT ![s] = room]
  BY Zenon DEF NoMessage
<1>3. /\ Good(room) /\ room.size = RbSize
      /\ \A o \in Bytes(rb[s]) : status[s][o] = "USED" => o \in Bytes(room)
  BY RoomKeeps, Zenon
<1>4. rb' \in [Senders -> Rings({RbSize})] /\ RingsGood'
  BY <1>2, <1>3, RingTyped, Zenon
<1>5. TypeOK' /\ CopiesForByte' /\ SeenSound'
  BY <1>1, <1>4, CallTypes, Zenon DEF IInv, TypeOK, CopiesForByte
<1>6. \A e \in Entries : Live(e) => status'[e.from][e.at] = "USED" /\ e.at \in Bytes(rb'[e.from])
  BY <1>1, <1>2, <1>3, StillLive, Zenon
<1>7. \A e \in Entries : Waiting(e) => e.n <= calls'[e.from] /\ seen'[e.from] < e.n
  BY <1>1, StillWaiting, Zenon
<1>8. QueueSound' /\ CopySound'
  BY <1>1, <1>6, <1>7, LineKept, Zenon
<1> QED
  BY <1>4, <1>5, <1>8, Zenon DEF IInv

\* What an allocation for sender s keeps, with the message left in status v.
LEMMA AllocKeeps ==
    ASSUME RingFacts, IInv, NEW s \in Senders, NEW room \in RoomFor(s), Fits(room, 1),
           NEW v \in Statuses,
           rb' = [rb EXCEPT ![s] = Alloc(room, 1)],
           status' = [status EXCEPT ![s][Place(room, 1)] = v]
    PROVE  /\ rb' \in [Senders -> Rings({RbSize})] /\ RingsGood'
           /\ status' \in [Senders -> [Offsets -> Statuses]]
           /\ Place(room, 1) \in Offsets
           /\ status'[s][Place(room, 1)] = v
           /\ Place(room, 1) \in Bytes(rb'[s])
           /\ \A e \in Entries : Live(e) => /\ status'[e.from][e.at] = "USED"
                                            /\ e.at \in Bytes(rb'[e.from])
           /\ \A e \in Entries : Live(e) /\ e.from = s => e.at # Place(room, 1)
<1> DEFINE p == Place(room, 1)
           a == Alloc(room, 1)
<1>1. /\ Good(room) /\ room.size = RbSize
      /\ \A o \in Bytes(rb[s]) : status[s][o] = "USED" => o \in Bytes(room)
  BY RoomKeeps, Zenon
<1>2. /\ Good(a) /\ a.size = RbSize /\ p \in Offsets /\ p \notin Bytes(room)
      /\ Bytes(room) \subseteq Bytes(a) /\ p \in Bytes(a)
  BY <1>1, OneMore, Zenon DEF Offsets
<1> HIDE DEF p, a
<1>3. rb' = [rb EXCEPT ![s] = a] /\ status' = [status EXCEPT ![s][p] = v]
  BY Zenon DEF a, p
<1>4. /\ status \in [Senders -> [Offsets -> Statuses]] /\ rb \in [Senders -> Rings({RbSize})]
  BY Zenon DEF IInv, TypeOK
<1>5. rb' \in [Senders -> Rings({RbSize})] /\ RingsGood'
  BY <1>2, <1>3, RingTyped, Zenon
<1>6. status[s] \in [Offsets -> Statuses]
  BY <1>4, Zenon
<1>7. status' = [status EXCEPT ![s] = [status[s] EXCEPT ![p] = v]]
  BY <1>3, Zenon
<1>8. status'[s] = [status[s] EXCEPT ![p] = v] /\ \A t \in Senders : t # s => status'[t] = status[t]
  BY <1>4, <1>7, Zenon
<1>9. status' \in [Senders -> [Offsets -> Statuses]]
  <2>1. [status[s] EXCEPT ![p] = v] \in [Offsets -> Statuses]
    BY <1>6, Zenon
  <2> QED
    BY <1>4, <1>7, <2>1, Zenon
<1>10. status'[s][p] = v /\ \A o \in Offsets : o # p => status'[s][o] = status[s][o]
  BY <1>2, <1>6, <1>8, ZenonT(40)
<1>11. rb'[s] = a
  BY <1>3, <1>4, Zenon
<1>12. ASSUME NEW e \in Entries, Live(e)
       PROVE  /\ status'[e.from][e.at] = "USED" /\ e.at \in Bytes(rb'[e.from])
              /\ e.from = s => e.at # p
  <2>1. e.from \in Senders /\ e.at \in Offsets
    BY EntryFields, Zenon
  <2>2. CASE e.from = s
    <3>1. e.at \in Bytes(room) /\ e.at # p
      BY <1>1, <1>2, <1>12, <2>2, Zenon DEF Live
    <3> QED
      BY <1>2, <1>10, <1>11, <1>12, <2>1, <2>2, <3>1, Zenon DEF Live
  <2>3. CASE e.from # s
    <3>1. rb'[e.from] = rb[e.from]
      BY <1>3, <1>4, <2>1, <2>3, Zenon
    <3> QED
      BY <1>8, <1>12, <2>1, <2>3, <3>1, Zenon DEF Live
  <2> QED
    BY <2>2, <2>3, Zenon
<1> QED
  BY <1>2, <1>5, <1>9, <1>10, <1>11, <1>12, Zenon DEF p

LEMMA QueueFullKeeps ==
    ASSUME RingFacts, IInv, NEW s \in Senders, QueueFull(s)
    PROVE  IInv'
<1>1. /\ calls[s] < MaxSends /\ calls' = [calls EXCEPT ![s] = @ + 1]
      /\ UNCHANGED <<pc, aq, bytes, todo, got, seen>>
  BY Zenon DEF QueueFull
<1>2. PICK room \in RoomFor(s) : /\ Fits(room, 1) /\ rb' = [rb EXCEPT ![s] = Alloc(room, 1)]
                                 /\ status' = [status EXCEPT ![s][Place(room, 1)] = "DONE"]
  BY Zenon DEF QueueFull
<1>3. "DONE" \in Statuses
  BY DEF Statuses
<1>4. /\ rb' \in [Senders -> Rings({RbSize})] /\ RingsGood'
      /\ status' \in [Senders -> [Offsets -> Statuses]]
      /\ \A e \in Entries : Live(e) => status'[e.from][e.at] = "USED" /\ e.at \in Bytes(rb'[e.from])
  BY <1>2, <1>3, AllocKeeps, Zenon
<1>5. TypeOK' /\ CopiesForByte' /\ SeenSound'
  BY <1>1, <1>4, CallTypes, Zenon DEF IInv, TypeOK, CopiesForByte
<1>6. \A e \in Entries : Waiting(e) => e.n <= calls'[e.from] /\ seen'[e.from] < e.n
  BY <1>1, StillWaiting, Zenon
<1>7. QueueSound' /\ CopySound'
  BY <1>1, <1>4, <1>6, LineKept, Zenon
<1> QED
  BY <1>4, <1>5, <1>7, Zenon DEF IInv

LEMMA ClaimKeeps ==
    ASSUME RingFacts, IInv, NEW s \in Senders, Claim(s)
    PROVE  IInv'
<1>1. /\ calls[s] < MaxSends /\ calls' = [calls EXCEPT ![s] = @ + 1] /\ Len(aq) < AqSize
      /\ pc' = [pc EXCEPT ![s] = "publish"]
      /\ UNCHANGED <<bytes, todo, got, seen>>
  BY Zenon DEF Claim
<1>2. PICK room \in RoomFor(s) : /\ Fits(room, 1) /\ rb' = [rb EXCEPT ![s] = Alloc(room, 1)]
                                 /\ status' = [status EXCEPT ![s][Place(room, 1)] = "USED"]
                                 /\ aq' = Append(aq, NewEntry(s, Place(room, 1)))
  BY Zenon DEF Claim
<1> DEFINE p == Place(room, 1)
<1>3. "USED" \in Statuses
  BY DEF Statuses
<1>4. /\ rb' \in [Senders -> Rings({RbSize})] /\ RingsGood'
      /\ status' \in [Senders -> [Offsets -> Statuses]]
      /\ p \in Offsets /\ status'[s][p] = "USED" /\ p \in Bytes(rb'[s])
      /\ \A e \in Entries : Live(e) => status'[e.from][e.at] = "USED" /\ e.at \in Bytes(rb'[e.from])
      /\ \A e \in Entries : Live(e) /\ e.from = s => e.at # p
  BY <1>2, <1>3, AllocKeeps, Zenon
<1> HIDE DEF p
<1>5. calls \in [Senders -> 0 .. MaxSends] /\ seen \in [Senders -> 0 .. MaxSends]
  BY Zenon DEF IInv, TypeOK
<1>6. calls[s] + 1 \in 1 .. MaxSends /\ calls'[s] = calls[s] + 1 /\ seen'[s] \in 0 .. MaxSends
  BY <1>1, <1>5, ControlAssumption
<1>7. PICK x : x = NewEntry(s, p)
  OBVIOUS
<1>8. x \in Entries /\ x.from = s /\ x.at = p /\ x.n = calls[s] + 1
  BY <1>4, <1>6, <1>7 DEF NewEntry, Entries
<1>9. /\ aq \in Seq(Entries) /\ aq' = Append(aq, x) /\ Len(aq) \in Nat
  BY <1>2, <1>7 DEF IInv, TypeOK, p
<1>10. /\ aq' \in Seq(Entries) /\ Len(aq') = Len(aq) + 1 /\ aq'[Len(aq) + 1] = x
       /\ \A i \in 1 .. Len(aq) : aq'[i] = aq[i]
  BY <1>8, <1>9
<1>11. pc' \in [Senders -> {"idle", "publish", "write"}]
  BY <1>1, Zenon DEF IInv, TypeOK
<1>12. Len(aq') <= AqSize
  BY <1>1, <1>9, <1>10, ControlAssumption
<1>13. TypeOK' /\ CopiesForByte' /\ SeenSound'
  BY <1>1, <1>4, <1>10, <1>11, <1>12, CallTypes, Zenon DEF IInv, TypeOK, CopiesForByte
<1>14. \A e \in Entries : Waiting(e) => e.n <= calls'[e.from] /\ seen'[e.from] < e.n
  BY <1>1, StillWaiting, Zenon
<1>15. ASSUME NEW e \in Entries, Live(e), Waiting(e)
       PROVE  Before(e, x)
  <2>1. e.from = s => e.n < calls[s] + 1
    BY <1>5, <1>15, EntryFields DEF Waiting
  <2>2. e.from = s => e.at # p
    BY <1>4, <1>15, Zenon
  <2> QED
    BY <1>8, <2>1, <2>2 DEF Before
<1>16. \A i \in 1 .. Len(aq) : aq[i] \in Entries /\ Live(aq[i]) /\ Waiting(aq[i])
  BY LineTypes, Zenon DEF IInv, QueueSound
<1>17. seen'[s] < x.n /\ x.n <= calls'[s]
  <2>1. seen[s] <= calls[s]
    BY Zenon DEF SeenSound, IInv
  <2> QED
    BY <1>1, <1>5, <1>6, <1>8, <2>1
<1>18. \A i \in 1 .. Len(aq') : i \in 1 .. Len(aq) \/ i = Len(aq) + 1
  BY <1>9, <1>10
<1>19. ASSUME NEW i \in 1 .. Len(aq')
       PROVE  Live(aq[i])' /\ Waiting(aq[i])'
  <2>1. CASE i \in 1 .. Len(aq)
    BY <1>4, <1>10, <1>14, <1>16, <2>1, Zenon DEF Live, Waiting
  <2>2. CASE i = Len(aq) + 1
    BY <1>4, <1>8, <1>10, <1>17, <2>2, Zenon DEF Live, Waiting
  <2> QED
    BY <1>18, <2>1, <2>2, Zenon
<1>20. ASSUME NEW i \in 1 .. Len(aq'), NEW j \in 1 .. Len(aq'), i < j
       PROVE  Before(aq[i], aq[j])'
  <2>1. i \in 1 .. Len(aq)
    BY <1>9, <1>10, <1>20
  <2>2. CASE j \in 1 .. Len(aq)
    <3>1. Before(aq[i], aq[j])
      BY <1>20, <2>1, <2>2, Zenon DEF IInv, QueueSound
    <3> QED
      BY <1>10, <2>1, <2>2, <3>1, Zenon DEF Before
  <2>3. CASE j = Len(aq) + 1
    <3>1. Before(aq[i], x)
      BY <1>15, <1>16, <2>1, Zenon
    <3> QED
      BY <1>10, <2>1, <2>3, <3>1, Zenon DEF Before
  <2> QED
    BY <1>18, <2>2, <2>3, Zenon
<1>21. QueueSound'
  BY <1>19, <1>20, Zenon DEF QueueSound
<1>22. CASE got # Nothing
  <2>1. got \in Entries /\ Live(got) /\ Waiting(got) /\ \A i \in 1 .. Len(aq) : Before(got, aq[i])
    BY <1>22, LineTypes, Zenon DEF IInv, CopySound
  <2>2. Live(got)' /\ Waiting(got)'
    BY <1>1, <1>4, <1>14, <2>1, Zenon DEF Live, Waiting
  <2>3. Before(got, x)
    BY <1>15, <2>1, Zenon
  <2>4. ASSUME NEW i \in 1 .. Len(aq')
        PROVE  Before(got, aq[i])'
    <3>1. CASE i \in 1 .. Len(aq)
      BY <1>1, <1>10, <2>1, <3>1, Zenon DEF Before
    <3>2. CASE i = Len(aq) + 1
      BY <1>1, <1>10, <2>3, <3>2, Zenon DEF Before
    <3> QED
      BY <1>18, <3>1, <3>2, Zenon
  <2> QED
    BY <1>4, <1>13, <1>21, <2>2, <2>4, Zenon DEF IInv, CopySound
<1>23. CASE got = Nothing
  BY <1>1, <1>4, <1>13, <1>21, <1>23, Zenon DEF IInv, CopySound
<1> QED
  BY <1>22, <1>23

LEMMA PublishKeeps ==
    ASSUME IInv, NEW s \in Senders, Publish(s)
    PROVE  IInv'
<1> DEFINE pub(i) == [from |-> s, at |-> aq[i].at, n |-> aq[i].n, published |-> TRUE]
           new(i) == IF aq[i].from = s THEN pub(i) ELSE aq[i]
<1>1. /\ aq' = [i \in DOMAIN aq |-> new(i)] /\ pc' = [pc EXCEPT ![s] = "write"]
      /\ UNCHANGED <<rb, status, calls, bytes, todo, got, seen>>
  BY Zenon DEF Publish
<1>2. DOMAIN aq = 1 .. Len(aq) /\ Len(aq) \in Nat /\ \A i \in 1 .. Len(aq) : aq[i] \in Entries
  BY DEF IInv, TypeOK
<1>3. ASSUME NEW i \in 1 .. Len(aq)
      PROVE  /\ new(i) \in Entries /\ new(i).from = aq[i].from
             /\ new(i).at = aq[i].at /\ new(i).n = aq[i].n
  <2>1. aq[i].at \in Offsets /\ aq[i].n \in 1 .. MaxSends /\ aq[i] \in Entries
    BY <1>2, EntryFields, Zenon
  <2>2. pub(i) \in Entries /\ pub(i).from = s /\ pub(i).at = aq[i].at /\ pub(i).n = aq[i].n
    BY <2>1 DEF Entries
  <2> HIDE DEF pub
  <2>3. CASE aq[i].from = s
    BY <2>2, <2>3
  <2>4. CASE aq[i].from # s
    BY <2>1, <2>4
  <2> QED
    BY <2>3, <2>4
<1> HIDE DEF new
<1>4. aq' = [i \in 1 .. Len(aq) |-> new(i)]
  BY <1>1, <1>2
<1>5. aq' \in Seq(Entries) /\ Len(aq') = Len(aq)
  BY <1>2, <1>3, <1>4
<1>6. \A i \in 1 .. Len(aq) : /\ aq'[i].from = aq[i].from
                              /\ aq'[i].at = aq[i].at
                              /\ aq'[i].n = aq[i].n
  BY <1>3, <1>4, Zenon
<1>7. pc' \in [Senders -> {"idle", "publish", "write"}]
  BY <1>1, Zenon DEF IInv, TypeOK
<1>8. TypeOK' /\ RingsGood' /\ CopiesForByte' /\ SeenSound'
  BY <1>1, <1>5, <1>7, Zenon DEF IInv, TypeOK, RingsGood, CopiesForByte, SeenSound
<1>9. QueueSound' /\ CopySound'
  BY <1>1, <1>5, <1>6, LineKept, Zenon DEF Live, Waiting
<1> QED
  BY <1>8, <1>9, Zenon DEF IInv

LEMMA WriteKeeps ==
    ASSUME IInv, NEW s \in Senders, Write(s)
    PROVE  IInv'
<1>1. /\ bytes' = (IF bytes < PipeSize THEN bytes + 1 ELSE bytes) /\ pc' = [pc EXCEPT ![s] = "idle"]
      /\ UNCHANGED <<rb, status, calls, aq, todo, got, seen>>
  BY Zenon DEF Write
<1>2. bytes' \in 0 .. PipeSize
  BY <1>1, ControlAssumption DEF IInv, TypeOK
<1>3. pc' \in [Senders -> {"idle", "publish", "write"}]
  BY <1>1, Zenon DEF IInv, TypeOK
<1>4. TypeOK' /\ RingsGood' /\ CopiesForByte' /\ SeenSound'
  BY <1>1, <1>2, <1>3, Zenon DEF IInv, TypeOK, RingsGood, CopiesForByte, SeenSound
<1>5. QueueSound' /\ CopySound'
  BY <1>1, LineKept, Zenon DEF Live, Waiting
<1> QED
  BY <1>4, <1>5, Zenon DEF IInv

-----------------------------------------------------------------------------
(* The receiver *)

LEMMA ReadKeeps ==
    ASSUME IInv, Read
    PROVE  IInv'
<1>1. /\ todo = 0 /\ bytes > 0 /\ todo' = (IF bytes < ReadSize THEN bytes ELSE ReadSize)
      /\ bytes' = bytes - todo'
      /\ UNCHANGED <<rb, status, pc, calls, aq, got, seen>>
  BY Zenon DEF Read
<1>2. bytes' \in 0 .. PipeSize /\ todo' \in 0 .. ReadSize
  BY <1>1, ControlAssumption DEF IInv, TypeOK
<1>3. todo' > 0
  BY <1>1, ControlAssumption DEF IInv, TypeOK
<1>4. TypeOK' /\ RingsGood' /\ CopiesForByte' /\ SeenSound'
  BY <1>1, <1>2, <1>3, Zenon DEF IInv, TypeOK, RingsGood, CopiesForByte, SeenSound
<1>5. QueueSound' /\ CopySound'
  BY <1>1, LineKept, Zenon DEF Live, Waiting
<1> QED
  BY <1>4, <1>5, Zenon DEF IInv

LEMMA PopFailsKeeps ==
    ASSUME IInv, PopFails
    PROVE  IInv'
<1>1. got = Nothing /\ todo' = 0 /\ UNCHANGED <<rb, status, pc, calls, aq, bytes, got, seen>>
  BY Zenon DEF PopFails
<1>2. 0 \in 0 .. ReadSize
  BY ControlAssumption
<1>3. TypeOK' /\ RingsGood' /\ CopiesForByte' /\ SeenSound'
  BY <1>1, <1>2, Zenon DEF IInv, TypeOK, RingsGood, CopiesForByte, SeenSound
<1>4. QueueSound' /\ CopySound'
  BY <1>1, LineKept, Zenon DEF Live, Waiting
<1> QED
  BY <1>3, <1>4, Zenon DEF IInv

LEMMA PopKeeps ==
    ASSUME IInv, Pop
    PROVE  IInv'
<1>1. /\ todo > 0 /\ got = Nothing /\ aq # << >> /\ got' = Head(aq) /\ aq' = Tail(aq)
      /\ UNCHANGED <<rb, status, pc, calls, bytes, todo, seen>>
  BY Zenon DEF Pop
<1>2. /\ aq' \in Seq(Entries) /\ Len(aq) \in Nat /\ Len(aq) > 0 /\ Len(aq') = Len(aq) - 1
      /\ got' = aq[1] /\ \A i \in 1 .. Len(aq') : aq'[i] = aq[i + 1]
  BY <1>1 DEF IInv, TypeOK
<1>3. 1 \in 1 .. Len(aq) /\ \A i \in 1 .. Len(aq') : i + 1 \in 1 .. Len(aq) /\ 1 < i + 1
  BY <1>2
<1>4. Len(aq') <= AqSize
  BY <1>2, ControlAssumption DEF IInv, TypeOK
<1>5. got' \in Entries
  BY <1>2, <1>3, LineTypes, Zenon DEF IInv
<1>6. TypeOK' /\ RingsGood' /\ CopiesForByte' /\ SeenSound'
  BY <1>1, <1>2, <1>4, <1>5, Zenon DEF IInv, TypeOK, RingsGood, CopiesForByte, SeenSound
<1>7. /\ \A i \in 1 .. Len(aq) : Live(aq[i]) /\ Waiting(aq[i])
      /\ \A i, j \in 1 .. Len(aq) : i < j => Before(aq[i], aq[j])
  BY Zenon DEF IInv, QueueSound
<1>8. \A i \in 1 .. Len(aq') : Live(aq[i])' /\ Waiting(aq[i])'
  BY <1>1, <1>2, <1>3, <1>7, Zenon DEF Live, Waiting
<1>9. ASSUME NEW i \in 1 .. Len(aq'), NEW j \in 1 .. Len(aq'), i < j
      PROVE  Before(aq[i], aq[j])'
  <2>1. i + 1 < j + 1
    BY <1>9
  <2>2. Before(aq[i + 1], aq[j + 1])
    BY <1>3, <1>7, <2>1, Zenon
  <2> QED
    BY <1>2, <2>2, Zenon DEF Before
<1>10. QueueSound'
  BY <1>8, <1>9, Zenon DEF QueueSound
<1>11. Live(got)' /\ Waiting(got)'
  BY <1>1, <1>2, <1>3, <1>7, Zenon DEF Live, Waiting
<1>12. ASSUME NEW i \in 1 .. Len(aq')
       PROVE  Before(got, aq[i])'
  <2>1. Before(aq[1], aq[i + 1])
    BY <1>3, <1>7, Zenon
  <2> QED
    BY <1>2, <2>1, Zenon DEF Before
<1> QED
  BY <1>6, <1>10, <1>11, <1>12, Zenon DEF IInv, CopySound

LEMMA DeliverKeeps ==
    ASSUME IInv, Deliver
    PROVE  IInv'
<1>1. /\ got # Nothing /\ got' = Nothing /\ todo' = todo - 1
      /\ status' = [status EXCEPT ![got.from][got.at] = "DONE"]
      /\ seen' = [seen EXCEPT ![got.from] = got.n]
      /\ UNCHANGED <<rb, pc, calls, aq, bytes>>
  BY Zenon DEF Deliver
<1>2. PICK e : e = got
  OBVIOUS
<1>3. /\ e \in Entries /\ e.from \in Senders /\ e.at \in Offsets /\ e.n \in 1 .. MaxSends
      /\ Waiting(e) /\ \A i \in 1 .. Len(aq) : Before(e, aq[i])
  BY <1>1, <1>2, LineTypes, EntryFields, Zenon DEF IInv, CopySound
<1>4. /\ status \in [Senders -> [Offsets -> Statuses]] /\ seen \in [Senders -> 0 .. MaxSends]
      /\ status[e.from] \in [Offsets -> Statuses]
  BY <1>3, Zenon DEF IInv, TypeOK
<1>5. status' = [status EXCEPT ![e.from] = [status[e.from] EXCEPT ![e.at] = "DONE"]]
  BY <1>1, <1>2
<1>6. status' \in [Senders -> [Offsets -> Statuses]]
  <2>1. [status[e.from] EXCEPT ![e.at] = "DONE"] \in [Offsets -> Statuses]
    BY <1>4, Zenon DEF Statuses
  <2> QED
    BY <1>4, <1>5, <2>1, Zenon
<1>7. \A t \in Senders, o \in Offsets :
          t # e.from \/ o # e.at => status'[t][o] = status[t][o]
  <2>1. \A t \in Senders : t # e.from => status'[t] = status[t]
    BY <1>4, <1>5, Zenon
  <2>2. status'[e.from] = [status[e.from] EXCEPT ![e.at] = "DONE"]
    BY <1>3, <1>4, <1>5, Zenon
  <2>3. \A o \in Offsets : o # e.at => status'[e.from][o] = status[e.from][o]
    BY <1>4, <2>2, Zenon
  <2> QED
    BY <2>1, <2>3, Zenon
<1>8. /\ seen' = [seen EXCEPT ![e.from] = e.n] /\ e.n \in 0 .. MaxSends
  BY <1>1, <1>2, <1>3
<1>9. /\ seen' \in [Senders -> 0 .. MaxSends] /\ seen'[e.from] = e.n
      /\ \A t \in Senders : t # e.from => seen'[t] = seen[t]
  BY <1>3, <1>4, <1>8, Zenon
<1>10. todo' \in 0 .. ReadSize
  BY <1>1, ControlAssumption DEF IInv, TypeOK, CopiesForByte
<1>11. SeenSound'
  BY <1>1, <1>3, <1>9, Zenon DEF IInv, SeenSound, Waiting
<1>12. TypeOK' /\ RingsGood' /\ CopiesForByte'
  BY <1>1, <1>6, <1>9, <1>10, Zenon DEF IInv, TypeOK, RingsGood, CopiesForByte
<1>13. ASSUME NEW i \in 1 .. Len(aq)
       PROVE  Live(aq[i])' /\ Waiting(aq[i])'
  <2>1. PICK f : f = aq[i]
    OBVIOUS
  <2>2. f \in Entries /\ Live(f) /\ Waiting(f) /\ f.from \in Senders /\ f.at \in Offsets
    BY <2>1, LineTypes, EntryFields, Zenon DEF IInv, QueueSound
  <2>3. f.from = e.from => f.at # e.at /\ e.n < f.n
    BY <1>3, <2>1, Zenon DEF Before
  <2>4. status'[f.from][f.at] = "USED" /\ f.at \in Bytes(rb'[f.from])
    BY <1>1, <1>7, <2>2, <2>3, Zenon DEF Live
  <2>5. f.n <= calls'[f.from] /\ seen'[f.from] < f.n
    BY <1>1, <1>9, <2>2, <2>3, Zenon DEF Waiting
  <2> QED
    BY <1>1, <2>1, <2>4, <2>5, Zenon DEF Live, Waiting
<1>14. ASSUME NEW i \in 1 .. Len(aq), NEW j \in 1 .. Len(aq), i < j
       PROVE  Before(aq[i], aq[j])'
  BY <1>1, <1>14, Zenon DEF IInv, QueueSound, Before
<1>15. QueueSound' /\ CopySound'
  BY <1>1, <1>13, <1>14, Zenon DEF QueueSound, CopySound
<1> QED
  BY <1>11, <1>12, <1>15, Zenon DEF IInv

-----------------------------------------------------------------------------
(* The messages of all senders *)

LEMMA InitIInv ==
    ASSUME Init
    PROVE  IInv
<1>1. Good(NewRing(RbSize)) /\ NewRing(RbSize) \in Rings({RbSize})
  BY RingNew, ControlAssumption DEF NewRing, Rings
<1>2. 0 \in 0 .. MaxSends /\ 0 \in 0 .. PipeSize /\ 0 \in 0 .. ReadSize /\ 0 <= 0 /\ 0 <= AqSize
  BY ControlAssumption
<1>3. aq \in Seq(Entries) /\ Len(aq) = 0 /\ 1 .. Len(aq) = {}
  BY DEF Init
<1>4. TypeOK
  BY <1>1, <1>2, <1>3, Zenon DEF Init, TypeOK, Statuses
<1>5. RingsGood /\ CopiesForByte /\ SeenSound
  BY <1>1, <1>2, Zenon DEF Init, RingsGood, CopiesForByte, SeenSound
<1>6. QueueSound /\ CopySound
  BY <1>3, Zenon DEF Init, QueueSound, CopySound
<1> QED
  BY <1>4, <1>5, <1>6, Zenon DEF IInv

LEMMA NextIInv ==
    ASSUME RingFacts, IInv, [Next]_vars
    PROVE  IInv'
<1>1. ASSUME NEW s \in Senders, Send(s)
      PROVE  IInv'
  BY <1>1, NoMessageKeeps, ClaimKeeps, QueueFullKeeps, PublishKeeps, WriteKeeps, Zenon DEF Send
<1>2. CASE Receive
  BY <1>2, ReadKeeps, PopKeeps, PopFailsKeeps, DeliverKeeps, Zenon DEF Receive
<1>3. CASE UNCHANGED vars
  <2>1. UNCHANGED <<rb, status, pc, calls, aq, bytes, todo, got, seen>>
    BY <1>3, Zenon DEF vars
  <2>2. TypeOK' /\ RingsGood' /\ CopiesForByte' /\ SeenSound'
    BY <2>1, Zenon DEF IInv, TypeOK, RingsGood, CopiesForByte, SeenSound
  <2>3. QueueSound' /\ CopySound'
    BY <2>1, LineKept, Zenon DEF Live, Waiting
  <2> QED
    BY <2>2, <2>3, Zenon DEF IInv
<1> QED
  BY <1>1, <1>2, <1>3, Zenon DEF Next

LEMMA IntactInIInv ==
    IInv => MessagesIntact
<1> SUFFICES ASSUME IInv
             PROVE  MessagesIntact
  OBVIOUS
<1>1. \A s \in Senders : Bytes(rb[s]) = {Layout(rb[s])[i] : i \in DOMAIN Layout(rb[s])}
  BY Zenon DEF Bytes, Layout
<1>2. DOMAIN aq = 1 .. Len(aq)
  BY DEF IInv, TypeOK
<1>3. ASSUME NEW e \in Pending
      PROVE  /\ e \in Entries /\ Live(e)
             /\ (\E i \in 1 .. Len(aq) : e = aq[i]) \/ (got # Nothing /\ e = got)
  BY <1>2, LineTypes, Zenon DEF Pending, IInv, QueueSound, CopySound
<1>4. ASSUME NEW e \in Pending
      PROVE  /\ status[e.from][e.at] = "USED"
             /\ e.at \in {Layout(rb[e.from])[i] : i \in DOMAIN Layout(rb[e.from])}
  BY <1>1, <1>3, EntryFields, Zenon DEF Live
<1>5. ASSUME NEW e \in Pending, NEW f \in Pending, e.from = f.from, e.at = f.at
      PROVE  e = f
  <2>1. ASSUME NEW i \in 1 .. Len(aq), NEW j \in 1 .. Len(aq), i # j,
               aq[i].from = aq[j].from, aq[i].at = aq[j].at
        PROVE  FALSE
    <3>1. i < j \/ j < i
      BY <2>1
    <3>2. Before(aq[i], aq[j]) \/ Before(aq[j], aq[i])
      BY <3>1, Zenon DEF IInv, QueueSound
    <3> QED
      BY <2>1, <3>2, Zenon DEF Before
  <2>2. ASSUME NEW i \in 1 .. Len(aq), got # Nothing
        PROVE  ~(got.from = aq[i].from /\ got.at = aq[i].at)
    BY <2>2, Zenon DEF IInv, CopySound, Before
  <2> QED
    BY <1>3, <1>5, <2>1, <2>2, ZenonT(40)
<1> QED
  BY <1>4, <1>5, Zenon DEF MessagesIntact, IInv

LEMMA InOrderStep ==
    IInv /\ [Next]_vars => [\A s \in Senders : seen'[s] >= seen[s]]_vars
<1> SUFFICES ASSUME IInv, Next
             PROVE  \A s \in Senders : seen'[s] >= seen[s]
  BY Zenon
<1>1. \A s \in Senders : seen[s] \in Nat
  BY DEF IInv, TypeOK
<1>2. CASE Deliver
  <2>1. got # Nothing /\ seen' = [seen EXCEPT ![got.from] = got.n]
    BY <1>2, Zenon DEF Deliver
  <2>2. PICK e : e = got
    OBVIOUS
  <2>3. e \in Entries /\ e.from \in Senders /\ e.n \in 1 .. MaxSends /\ seen[e.from] < e.n
    BY <2>1, <2>2, LineTypes, EntryFields, Zenon DEF IInv, CopySound, Waiting
  <2>4. seen'[e.from] = e.n /\ \A s \in Senders : s # e.from => seen'[s] = seen[s]
    BY <2>1, <2>2, <2>3, Zenon DEF IInv, TypeOK
  <2>5. ASSUME NEW s \in Senders
        PROVE  seen'[s] >= seen[s]
    <3>1. CASE s = e.from
      BY <1>1, <2>3, <2>4, <3>1, ControlAssumption
    <3>2. CASE s # e.from
      BY <1>1, <2>4, <3>2
    <3> QED
      BY <3>1, <3>2
  <2> QED
    BY <2>5
<1>3. CASE ~Deliver
  <2>1. seen' = seen
    BY <1>3, Zenon DEF Next, Send, Receive, NoMessage, Claim, QueueFull, Publish, Write, Read, Pop, PopFails
  <2> QED
    BY <1>1, <2>1
<1> QED
  BY <1>2, <1>3

-----------------------------------------------------------------------------
(* The bytes in the pipe, as long as one thread sends *)

\* No thread but s has made a call.
Alone(s) == \A t \in Senders : t # s => calls[t] = 0

\* An entry that is not published is the last one, and its sender is there.
UnpublishedIsLast ==
    \A i \in 1 .. Len(aq) : ~aq[i].published => i = Len(aq) /\ pc[aq[i].from] = "publish"

Holding == IF got = Nothing THEN 0 ELSE 1
Owed(s) == IF pc[s] = "idle" THEN 0 ELSE 1

\* The count, if only s sends.
Balance(s) == Len(aq) + Holding = bytes + todo + Owed(s)

\* A thread that has not called is in no call.
SilentIdle == \A t \in Senders : calls[t] = 0 => pc[t] = "idle"

ByteInv == SilentIdle /\ \A s \in Senders : Alone(s) => UnpublishedIsLast /\ Balance(s)

LEMMA Numbers ==
    ASSUME IInv
    PROVE  /\ Len(aq) \in Nat /\ Len(aq) <= AqSize /\ bytes \in Nat /\ bytes <= PipeSize
           /\ todo \in Nat /\ (got # Nothing => todo > 0)
           /\ AqSize \in Nat /\ PipeSize \in Nat /\ AqSize <= PipeSize
           /\ Holding \in {0, 1} /\ \A s \in Senders : Owed(s) \in {0, 1}
BY ControlAssumption DEF IInv, TypeOK, CopiesForByte, Holding, Owed

LEMMA AllFromOne ==
    ASSUME IInv, NEW s \in Senders, Alone(s), NEW i \in 1 .. Len(aq)
    PROVE  aq[i].from = s
<1>1. PICK e : e = aq[i]
  OBVIOUS
<1>2. e \in Entries /\ Waiting(e) /\ e.from \in Senders /\ e.n \in 1 .. MaxSends
  BY <1>1, LineTypes, EntryFields, Zenon DEF IInv, QueueSound
<1>3. calls[e.from] # 0
  BY <1>2, ControlAssumption DEF Waiting, IInv, TypeOK
<1> QED
  BY <1>1, <1>2, <1>3, Zenon DEF Alone

\* If only s sends and is not between its claim and its publication, every
\* entry is published.
LEMMA AllPublished ==
    ASSUME IInv, NEW s \in Senders, Alone(s), UnpublishedIsLast, pc[s] # "publish"
    PROVE  \A i \in 1 .. Len(aq) : aq[i].published
BY AllFromOne, Zenon DEF UnpublishedIsLast

LEMMA SenderBalances ==
    ASSUME IInv, NEW s \in Senders, Alone(s), UnpublishedIsLast, Balance(s), Send(s)
    PROVE  UnpublishedIsLast' /\ Balance(s)'
<1>0. pc \in [Senders -> {"idle", "publish", "write"}] /\ aq \in Seq(Entries)
  BY Zenon DEF IInv, TypeOK
<1>1. CASE NoMessage(s) \/ QueueFull(s)
  <2>1. UNCHANGED <<pc, aq, bytes, todo, got>>
    BY <1>1, Zenon DEF NoMessage, QueueFull
  <2> QED
    BY <2>1, Zenon DEF UnpublishedIsLast, Balance, Holding, Owed
<1>2. CASE Claim(s)
  <2>1. PICK o : aq' = Append(aq, NewEntry(s, o))
    BY <1>2, Zenon DEF Claim
  <2>2. /\ pc[s] = "idle" /\ pc' = [pc EXCEPT ![s] = "publish"] /\ UNCHANGED <<bytes, todo, got>>
    BY <1>2, Zenon DEF Claim
  <2>3. pc'[s] = "publish" /\ Owed(s) = 0 /\ Owed(s)' = 1 /\ Holding' = Holding
    BY <1>0, <2>2 DEF Owed, Holding
  <2>4. PICK e : e = NewEntry(s, o)
    OBVIOUS
  <2>5. ~e.published /\ e.from = s
    BY <2>4 DEF NewEntry
  <2>6. /\ Len(aq) \in Nat /\ Len(aq') = Len(aq) + 1 /\ aq'[Len(aq) + 1] = e
        /\ \A i \in 1 .. Len(aq) : aq'[i] = aq[i]
    BY <1>0, <2>1, <2>4
  <2>7. \A i \in 1 .. Len(aq) : aq'[i].published
    BY <2>2, <2>6, AllPublished
  <2>8. \A i \in 1 .. Len(aq') : i \in 1 .. Len(aq) \/ i = Len(aq')
    BY <2>6
  <2>9. UnpublishedIsLast'
    BY <2>3, <2>5, <2>6, <2>7, <2>8, ZenonT(40) DEF UnpublishedIsLast
  <2>10. Balance(s)'
    BY <2>2, <2>3, <2>6, Numbers DEF Balance
  <2> QED
    BY <2>9, <2>10
<1>3. CASE Publish(s)
  <2>1. /\ pc[s] = "publish" /\ pc' = [pc EXCEPT ![s] = "write"] /\ UNCHANGED <<bytes, todo, got>>
        /\ aq' = [i \in DOMAIN aq |->
                    IF aq[i].from = s
                    THEN [from |-> s, at |-> aq[i].at, n |-> aq[i].n, published |-> TRUE]
                    ELSE aq[i]]
    BY <1>3, Zenon DEF Publish
  <2>2. DOMAIN aq = 1 .. Len(aq) /\ Len(aq) \in Nat
    BY <1>0
  <2>3. ASSUME NEW i \in 1 .. Len(aq)
        PROVE  aq'[i].published
    <3>1. aq'[i] = [from |-> s, at |-> aq[i].at, n |-> aq[i].n, published |-> TRUE]
      BY <2>1, <2>2, AllFromOne, Zenon
    <3> QED
      BY <3>1
  <2>4. aq' \in Seq(Entries) /\ Len(aq') = Len(aq)
    <3>1. TypeOK'
      BY <1>3, PublishKeeps, Zenon DEF IInv
    <3>2. DOMAIN aq' = DOMAIN aq
      BY <2>1, Zenon
    <3>3. aq' \in Seq(Entries) /\ DOMAIN aq' = 1 .. Len(aq') /\ Len(aq') \in Nat
      BY <3>1 DEF TypeOK
    <3> QED
      BY <2>2, <3>2, <3>3
  <2>5. UnpublishedIsLast'
    BY <2>3, <2>4, Zenon DEF UnpublishedIsLast
  <2>6. Owed(s)' = Owed(s) /\ Holding' = Holding
    BY <1>0, <2>1 DEF Owed, Holding
  <2> QED
    BY <2>1, <2>4, <2>5, <2>6, Zenon DEF Balance
<1>4. CASE Write(s)
  <2>1. /\ pc[s] = "write" /\ pc' = [pc EXCEPT ![s] = "idle"] /\ UNCHANGED <<aq, todo, got>>
        /\ bytes' = IF bytes < PipeSize THEN bytes + 1 ELSE bytes
    BY <1>4, Zenon DEF Write
  <2>2. Owed(s) = 1 /\ Owed(s)' = 0 /\ Holding' = Holding
    BY <1>0, <2>1 DEF Owed, Holding
  <2>3. bytes < PipeSize
    BY <2>2, Numbers DEF Balance, Holding
  <2>4. Balance(s)'
    BY <2>1, <2>2, <2>3, Numbers DEF Balance
  <2>5. \A i \in 1 .. Len(aq) : aq[i].published
    BY <2>1, AllPublished
  <2>6. UnpublishedIsLast'
    BY <2>1, <2>5, Zenon DEF UnpublishedIsLast
  <2> QED
    BY <2>4, <2>6
<1> QED
  BY <1>1, <1>2, <1>3, <1>4, Zenon DEF Send

\* A pop never finds a queue that only looks empty.
LEMMA ReceiverBalances ==
    ASSUME IInv, NEW s \in Senders, Alone(s), UnpublishedIsLast, Balance(s), Receive
    PROVE  UnpublishedIsLast' /\ Balance(s)'
<1>0. aq \in Seq(Entries)
  BY Zenon DEF IInv, TypeOK
<1>1. CASE Read
  <2>1. /\ todo = 0 /\ bytes' = bytes - todo' /\ UNCHANGED <<pc, aq, got>>
        /\ todo' = IF bytes < ReadSize THEN bytes ELSE ReadSize
    BY <1>1, Zenon DEF Read
  <2>2. UnpublishedIsLast' /\ Owed(s)' = Owed(s) /\ Holding' = Holding
    BY <2>1, Zenon DEF UnpublishedIsLast, Owed, Holding
  <2>3. bytes' + todo' = bytes + todo
    BY <2>1, Numbers, ControlAssumption
  <2>4. Balance(s)'
    BY <2>1, <2>2, <2>3, Numbers DEF Balance
  <2> QED
    BY <2>2, <2>4
<1>2. CASE Pop
  <2>1. /\ got = Nothing /\ aq # << >> /\ got' = Head(aq) /\ aq' = Tail(aq)
        /\ UNCHANGED <<pc, bytes, todo>>
    BY <1>2, Zenon DEF Pop
  <2>2. /\ Len(aq) \in Nat /\ Len(aq) > 0 /\ Len(aq') = Len(aq) - 1 /\ got' \in Entries
        /\ \A i \in 1 .. Len(aq') : aq'[i] = aq[i + 1]
    BY <1>0, <2>1
  <2>3. got' # Nothing
    BY <2>2, EntryFields, Zenon
  <2>4. UnpublishedIsLast'
    <3> SUFFICES ASSUME NEW i \in 1 .. Len(aq'), ~aq'[i].published
                 PROVE  i = Len(aq') /\ pc'[aq'[i].from] = "publish"
      BY Zenon DEF UnpublishedIsLast
    <3>1. i + 1 \in 1 .. Len(aq)
      BY <2>2
    <3>2. i + 1 = Len(aq) /\ pc[aq[i + 1].from] = "publish"
      BY <2>2, <3>1, Zenon DEF UnpublishedIsLast
    <3>3. i = Len(aq')
      BY <2>2, <3>2
    <3> QED
      BY <2>1, <2>2, <3>2, <3>3, Zenon
  <2>5. Holding = 0 /\ Holding' = 1 /\ Owed(s)' = Owed(s)
    BY <2>1, <2>3 DEF Holding, Owed
  <2>6. Balance(s)'
    BY <2>1, <2>2, <2>5, Numbers DEF Balance
  <2> QED
    BY <2>4, <2>6
<1>3. CASE PopFails
  <2>1. todo > 0 /\ got = Nothing /\ (aq = << >> \/ ~Head(aq).published)
    BY <1>3, Zenon DEF PopFails
  <2>2. Len(aq) > 0
    BY <2>1, Numbers DEF Balance, Holding
  <2>3. aq # << >> /\ Head(aq) = aq[1] /\ 1 \in 1 .. Len(aq)
    BY <1>0, <2>2
  <2>4. ~aq[1].published
    BY <2>1, <2>3
  <2>5. Len(aq) = 1 /\ pc[s] = "publish"
    BY <2>3, <2>4, AllFromOne, Zenon DEF UnpublishedIsLast
  <2>6. Owed(s) = 1 /\ Holding = 0
    BY <2>1, <2>5 DEF Owed, Holding
  <2> QED
    BY <2>1, <2>5, <2>6, Numbers DEF Balance
<1>4. CASE Deliver
  <2>1. got # Nothing /\ got' = Nothing /\ todo' = todo - 1 /\ UNCHANGED <<pc, aq, bytes>>
    BY <1>4, Zenon DEF Deliver
  <2>2. UnpublishedIsLast' /\ Owed(s)' = Owed(s) /\ Holding = 1 /\ Holding' = 0
    BY <2>1, Zenon DEF UnpublishedIsLast, Owed, Holding
  <2>3. Balance(s)'
    BY <2>1, <2>2, Numbers, SMTT(30) DEF Balance
  <2> QED
    BY <2>2, <2>3
<1> QED
  BY <1>1, <1>2, <1>3, <1>4, Zenon DEF Receive

LEMMA NextByteInv ==
    ASSUME IInv, ByteInv, [Next]_vars
    PROVE  ByteInv'
<1>0. calls \in [Senders -> Nat] /\ pc \in [Senders -> {"idle", "publish", "write"}]
  BY ControlAssumption DEF IInv, TypeOK
<1>1. CASE UNCHANGED vars
  BY <1>1, Zenon
     DEF vars, ByteInv, SilentIdle, Alone, UnpublishedIsLast, Balance, Holding, Owed
<1>2. CASE Receive
  <2>1. UNCHANGED <<pc, calls>>
    BY <1>2, Zenon DEF Receive, Read, Pop, PopFails, Deliver
  <2>2. ASSUME NEW s \in Senders, Alone(s)'
        PROVE  UnpublishedIsLast' /\ Balance(s)'
    <3>1. Alone(s)
      BY <2>1, <2>2, Zenon DEF Alone
    <3> QED
      BY <1>2, <3>1, ReceiverBalances, Zenon DEF ByteInv
  <2> QED
    BY <2>1, <2>2, Zenon DEF ByteInv, SilentIdle
<1>3. ASSUME NEW u \in Senders, Send(u)
      PROVE  ByteInv'
  <2>1. \A t \in Senders : t # u => calls'[t] = calls[t] /\ pc'[t] = pc[t]
    BY <1>0, <1>3, Zenon DEF Send, NoMessage, Claim, QueueFull, Publish, Write
  <2>2. calls'[u] # 0
    <3>1. CASE NoMessage(u) \/ Claim(u) \/ QueueFull(u)
      <4>1. calls' = [calls EXCEPT ![u] = @ + 1]
        BY <3>1, Zenon DEF NoMessage, Claim, QueueFull
      <4> QED
        BY <1>0, <4>1
    <3>2. CASE Publish(u) \/ Write(u)
      <4>1. pc[u] # "idle" /\ calls' = calls
        BY <3>2 DEF Publish, Write
      <4> QED
        BY <4>1, Zenon DEF ByteInv, SilentIdle
    <3> QED
      BY <1>3, <3>1, <3>2, Zenon DEF Send
  <2>3. SilentIdle'
    BY <2>1, <2>2, Zenon DEF ByteInv, SilentIdle
  <2>4. ASSUME NEW s \in Senders, Alone(s)'
        PROVE  UnpublishedIsLast' /\ Balance(s)'
    <3>1. u = s
      BY <2>2, <2>4, Zenon DEF Alone
    <3>2. Alone(s)
      BY <2>1, <2>4, <3>1, Zenon DEF Alone
    <3> QED
      BY <1>3, <3>1, <3>2, SenderBalances, Zenon DEF ByteInv
  <2> QED
    BY <2>3, <2>4, Zenon DEF ByteInv
<1> QED
  BY <1>1, <1>2, <1>3, Zenon DEF Next

LEMMA InitByteInv ==
    ASSUME Init
    PROVE  ByteInv
<1>1. Len(aq) = 0 /\ 1 .. Len(aq) = {}
  BY DEF Init
<1>2. \A s \in Senders : Balance(s)
  BY <1>1 DEF Init, Balance, Holding, Owed
<1> QED
  BY <1>1, <1>2, Zenon DEF Init, ByteInv, SilentIdle, UnpublishedIsLast

-----------------------------------------------------------------------------
(* The property counts the threads with Cardinality *)

Sets == INSTANCE FiniteSetTheorems

LEMMA SameCardinality ==
    ASSUME NEW S
    PROVE  Sets!Cardinality(S) = Cardinality(S) /\ (Sets!IsFiniteSet(S) <=> IsFiniteSet(S))
BY DEF Cardinality, Sets!Cardinality, IsFiniteSet, Sets!IsFiniteSet

LEMMA CountEmpty == Cardinality({}) = 0
BY SameCardinality, Sets!FS_EmptySet

LEMMA CountOne ==
    ASSUME NEW x
    PROVE  Cardinality({x}) = 1
BY SameCardinality, Sets!FS_Singleton

LEMMA AtMostOne ==
    ASSUME NEW S, IsFiniteSet(S), NEW T \in SUBSET S, Cardinality(T) <= 1, NEW x \in T, NEW y \in T
    PROVE  x = y
<1>1. Sets!IsFiniteSet(S) /\ Sets!Cardinality(T) <= 1
  BY SameCardinality
<1>2. Sets!IsFiniteSet(T)
  BY <1>1, Sets!FS_Subset
<1>3. Sets!IsFiniteSet(T \ {x}) /\ Sets!Cardinality(T \ {x}) = Sets!Cardinality(T) - 1
  BY <1>2, Sets!FS_RemoveElement
<1>4. Sets!Cardinality(T \ {x}) \in Nat /\ Sets!Cardinality(T) \in Nat
  BY <1>2, <1>3, Sets!FS_CardinalityType
<1>5. Sets!Cardinality(T \ {x}) = 0
  BY <1>1, <1>3, <1>4
<1>6. T \ {x} = {}
  BY <1>3, <1>5, Sets!FS_EmptySet
<1> QED
  BY <1>6

LEMMA EnoughBytes ==
    IInv /\ ByteInv => ByteForEveryMessage
<1> SUFFICES ASSUME IInv, ByteInv, OneCaller
             PROVE  /\ Len(aq) <= bytes + todo + Busy
                    /\ \A s \in Senders : pc[s] = "write" => bytes < PipeSize
  BY DEF ByteForEveryMessage
<1>1. CASE Senders = {}
  <2>1. Busy = 0
    <3>1. {s \in Senders : pc[s] # "idle"} = {}
      BY <1>1, Zenon
    <3> QED
      BY <3>1, CountEmpty, Zenon DEF Busy
  <2>2. 1 \notin 1 .. Len(aq)
    BY <1>1, LineTypes, EntryFields, Zenon DEF IInv
  <2> QED
    BY <1>1, <2>1, <2>2, Numbers
<1>2. CASE Senders # {}
  <2>1. \E s \in Senders : Alone(s)
    <3>1. \A t \in Senders : calls[t] \in Nat
      BY DEF IInv, TypeOK
    <3>2. CASE \E s \in Senders : calls[s] > 0
      <4>1. PICK s \in Senders : calls[s] > 0
        BY <3>2
      <4>2. ASSUME NEW t \in Senders, calls[t] > 0
            PROVE  t = s
        <5> DEFINE C == {x \in Senders : calls[x] > 0}
        <5>1. Cardinality(C) <= 1 /\ C \in SUBSET Senders /\ s \in C /\ t \in C
          BY <4>1, <4>2, Zenon DEF OneCaller
        <5> HIDE DEF C
        <5> QED
          BY <5>1, AtMostOne, ControlAssumption, Zenon
      <4>3. \A t \in Senders : t # s => calls[t] = 0
        BY <3>1, <4>2
      <4> QED
        BY <4>3, Zenon DEF Alone
    <3>3. CASE ~ \E s \in Senders : calls[s] > 0
      <4>1. \A t \in Senders : calls[t] = 0
        BY <3>1, <3>3
      <4> QED
        BY <1>2, <4>1, Zenon DEF Alone
    <3> QED
      BY <3>2, <3>3
  <2>2. PICK s \in Senders : Alone(s)
    BY <2>1
  <2>3. Balance(s) /\ \A t \in Senders : pc[t] # "idle" => t = s
    BY <2>2, Zenon DEF ByteInv, SilentIdle, Alone
  <2>4. Busy = Owed(s)
    <3>1. CASE pc[s] = "idle"
      <4>1. {t \in Senders : pc[t] # "idle"} = {}
        BY <2>3, <3>1, Zenon
      <4> QED
        BY <3>1, <4>1, CountEmpty, Zenon DEF Busy, Owed
    <3>2. CASE pc[s] # "idle"
      <4>1. {t \in Senders : pc[t] # "idle"} = {s}
        BY <2>3, <3>2, Zenon
      <4> QED
        BY <3>2, <4>1, CountOne, Zenon DEF Busy, Owed
    <3> QED
      BY <3>1, <3>2
  <2>5. Len(aq) <= bytes + todo + Busy
    BY <2>2, <2>3, <2>4, Numbers DEF Balance
  <2>6. ASSUME NEW t \in Senders, pc[t] = "write"
        PROVE  bytes < PipeSize
    <3>1. t = s
      BY <2>3, <2>6
    <3>2. Owed(s) = 1
      BY <2>6, <3>1 DEF Owed
    <3> QED
      BY <2>3, <3>2, Numbers DEF Balance, Holding
  <2> QED
    BY <2>5, <2>6
<1> QED
  BY <1>1, <1>2

-----------------------------------------------------------------------------
(* The facts about ring buffers *)

\* The ring buffers of the senders as an instance of RingBuffer.
Ring == INSTANCE RingBufferProofs WITH
            Buffers <- Senders, Size <- RbSize, Requests <- {1},
            gone <- [s \in Senders |-> FALSE],
            live <- [s \in Senders |-> Layout(rb[s])],
            held <- [s \in Senders |-> NoRoom],
            emptied <- [s \in Senders |-> FALSE]

LEMMA SameOps ==
    ASSUME NEW r, NEW n
    PROVE  /\ Ring!Good(r) <=> Good(r)
           /\ Ring!Used(r) = Used(r)
           /\ Ring!Layout(r) = Layout(r)
           /\ Ring!Place(r, n) = Place(r, n)
           /\ Ring!Fits(r, n) <=> Fits(r, n)
           /\ Ring!Alloc(r, n) = Alloc(r, n)
           /\ Ring!Free(r, n) = Free(r, n)
           /\ Ring!NewRing(n) = NewRing(n)
<1>1. Ring!Good(r) <=> Good(r)
  BY Zenon DEF Ring!Good, Good, Ring!Rings, Rings, Ring!Shape, Shape
<1>2. Ring!Used(r) = Used(r)
  BY Zenon DEF Ring!Used, Used, Ring!Wrapped, Wrapped
<1>3. Ring!Layout(r) = Layout(r)
  BY <1>2, ZenonT(40) DEF Ring!Layout, Layout, Ring!ByteAt, ByteAt
<1>4. Ring!Place(r, n) = Place(r, n)
  BY Zenon DEF Ring!Place, Place, Ring!Wrapped, Wrapped, Ring!NoRoom, NoRoom
<1>5. Ring!Fits(r, n) <=> Fits(r, n)
  BY <1>4, Zenon DEF Ring!Fits, Fits, Ring!NoRoom, NoRoom
<1>6. Ring!Alloc(r, n) = Alloc(r, n)
  BY <1>4, <1>5, Zenon DEF Ring!Alloc, Alloc, Ring!Moved, Moved, Ring!Shrunk, Shrunk, Ring!Wrapped, Wrapped
<1>7. Ring!Free(r, n) = Free(r, n)
  BY Zenon DEF Ring!Free, Free, Ring!Unwrapped, Unwrapped, Ring!Moved, Moved, Ring!Wrapped, Wrapped,
               Ring!Dropped, Dropped, Ring!Emptied, Emptied
<1>8. Ring!NewRing(n) = NewRing(n)
  BY Zenon DEF Ring!NewRing, NewRing
<1> QED
  BY <1>1, <1>2, <1>3, <1>4, <1>5, <1>6, <1>7, <1>8, ZenonT(40)

LEMMA RingConstants == RbSize \in Nat \ {0} /\ {1} \subseteq Nat \ {0}
BY ControlAssumption

\* A ring buffer holds distinct offsets.
LEMMA LayoutFacts ==
    ASSUME NEW r, Good(r)
    PROVE  Distinct(r)
<1>1. Ring!Good(r) /\ Ring!Used(r) = Used(r) /\ Ring!Layout(r) = Layout(r)
  BY SameOps, Zenon
<1>2. r.size \in Nat \ {0} /\ Ring!Used(r) \in Nat /\ Len(Ring!Layout(r)) = Ring!Used(r)
  BY <1>1, RingConstants, Ring!GoodFields, Ring!UsedNat, Ring!LayoutSeq, Zenon
<1>3. \A i, j \in 1 .. Ring!Used(r) : Ring!Layout(r)[i] = Ring!Layout(r)[j] => i = j
  BY <1>1, RingConstants, Ring!LayoutDistinct, ZenonT(40)
<1> QED
  BY <1>1, <1>2, <1>3, ZenonT(40) DEF Distinct

\* fr_ring_buffer_alloc adds one offset at the end.
LEMMA AllocFacts ==
    ASSUME NEW r, Good(r), Fits(r, 1)
    PROVE  Adds(r)
<1>1. PICK n \in Nat \ {0} : n = 1
  OBVIOUS
<1>2. PICK a : a = Alloc(r, n)
  OBVIOUS
<1>3. /\ Ring!Good(r) /\ Ring!Fits(r, n) /\ Ring!Alloc(r, n) = a /\ Ring!Place(r, n) = Place(r, n)
      /\ Ring!Used(r) = Used(r) /\ Ring!Layout(r) = Layout(r)
  BY <1>1, <1>2, SameOps, Zenon
<1>4. (Ring!Good(a) <=> Good(a)) /\ Ring!Used(a) = Used(a) /\ Ring!Layout(a) = Layout(a)
  BY SameOps, ZenonT(40)
<1>5. Ring!Good(a) /\ a.size = r.size /\ Ring!Used(a) = Ring!Used(r) + n
  BY <1>3, RingConstants, Ring!AllocGood, Zenon
<1>6. Ring!Place(r, n) \in Nat /\ Ring!Place(r, n) + n <= r.size
  <2>1. Ring!Place(r, n) # Ring!NoRoom
    BY <1>3, Zenon DEF Ring!Fits
  <2> QED
    BY <1>3, <2>1, RingConstants, Ring!PlaceInside, ZenonT(40)
<1>7. /\ \A i \in 1 .. Ring!Used(r) : Ring!Layout(a)[i] = Ring!Layout(r)[i]
      /\ \A i \in 1 .. n : Ring!Layout(a)[Ring!Used(r) + i] = Ring!Place(r, n) + i - 1
  BY <1>3, RingConstants, Ring!AllocAdds, ZenonT(40)
<1>8. 1 \in 1 .. n
  BY <1>1
<1> QED
  BY <1>1, <1>2, <1>3, <1>4, <1>5, <1>6, <1>7, <1>8, Zenon DEF Adds

\* fr_ring_buffer_free drops the first n offsets.
LEMMA FreeFacts ==
    ASSUME NEW r, Good(r), NEW n \in Nat \ {0}, n <= Used(r)
    PROVE  Drops(r, n)
<1>1. PICK f : f = Free(r, n)
  OBVIOUS
<1>2. /\ Ring!Good(r) /\ Ring!Free(r, n) = f
      /\ Ring!Used(r) = Used(r) /\ Ring!Layout(r) = Layout(r)
  BY <1>1, SameOps, Zenon
<1>3. (Ring!Good(f) <=> Good(f)) /\ Ring!Used(f) = Used(f) /\ Ring!Layout(f) = Layout(f)
  BY SameOps, Zenon
<1>4. Ring!Good(f) /\ f.size = r.size /\ Ring!Used(f) = Ring!Used(r) - n
  BY <1>2, RingConstants, Ring!FreeGood, Zenon
<1>5. \A i \in 1 .. Ring!Used(f) : Ring!Layout(f)[i] = Ring!Layout(r)[(Ring!Used(r) - Ring!Used(f)) + i]
  BY <1>2, RingConstants, Ring!FreeDrops, Zenon
<1>6. Used(r) - Used(f) = n
  <2>1. Used(r) \in Nat /\ Used(f) = Used(r) - n
    BY <1>2, <1>3, <1>4, LayoutFacts, ZenonT(40) DEF Distinct
  <2> QED
    BY <2>1
<1> QED
  BY <1>1, <1>2, <1>3, <1>4, <1>5, <1>6, ZenonT(40) DEF Drops

LEMMA RingFactsHold == RingFacts
BY LayoutFacts, AllocFacts, FreeFacts, ZenonT(40) DEF RingFacts

-----------------------------------------------------------------------------
(* The theorems *)

\* The inductive invariant of the control plane.
THEOREM IInvInvariant == Spec => []IInv
<1>1. Init => IInv
  BY InitIInv
<1>2. IInv /\ [Next]_vars => IInv'
  BY RingFactsHold, NextIInv, SMTT(30)
<1> QED
  BY <1>1, <1>2, PTL DEF Spec

\* A message that is queued or being copied is still in the ring buffer of its
\* sender and in use, and no other one has its place, so that the assertion and
\* the copy in fr_control_message_pop are sound, whatever fr_control_gc frees
\* and however many threads send.
THEOREM MessagesInvariant == Spec => []MessagesIntact
BY IntactInIInv, IInvInvariant, PTL

\* The messages of each sender reach their callbacks in the order in which it
\* called fr_control_message_send.
THEOREM InOrder == Spec => DeliveredInOrder
BY InOrderStep, IInvInvariant, PTL DEF Spec, DeliveredInOrder

\* The count, with the invariant it rests on.
THEOREM ByteInvariant == Spec => [](IInv /\ ByteInv)
<1>1. Init => IInv /\ ByteInv
  BY InitIInv, InitByteInv, SMTT(30)
<1>2. IInv /\ ByteInv /\ [Next]_vars => IInv' /\ ByteInv'
  BY RingFactsHold, NextIInv, NextByteInv, SMTT(30)
<1> QED
  BY <1>1, <1>2, PTL DEF Spec

\* As long as one thread sends, there is a byte for every message in the queue,
\* and the pipe has room when the byte is written: no wake-up is lost.
THEOREM LoneSenderNeverStranded == Spec => []ByteForEveryMessage
BY EnoughBytes, ByteInvariant, PTL

=============================================================================
