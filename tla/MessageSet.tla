----------------------------- MODULE MessageSet -----------------------------
(***************************************************************************)
(* The message sets of src/lib/io/message.c.  The originator reserves,     *)
(* allocates and collects messages; recipients in other threads only mark  *)
(* them done.  Headers live in message rings and packet data in ring       *)
(* buffers; both are kept in arrays whose entries double in size.          *)
(*                                                                         *)
(* A header takes one unit of its ring, packet data is counted in bytes.   *)
(* Packing the arrays moves the rings, so a ring is named by an id, and a  *)
(* message by the id of its ring and its offset there.  Memory allocation  *)
(* does not fail.  A recipient that localizes a message marks it done in   *)
(* the same way as one that has finished with it; its copy is private.     *)
(***************************************************************************)
EXTENDS RingOps, SequencesExt

CONSTANTS
    NumMessages,    \* headers in the first message ring
    RbSize,         \* bytes in the first ring buffer
    ArraySize,      \* MSG_ARRAY_SIZE
    MaxClean,       \* messages cleaned by one collection of the set (128)
    RingClean,      \* messages cleaned by one collection of a ring (4)
    Reserves,       \* the sizes the originator reserves
    Leftovers,      \* the bytes of a partial packet that follow a full one
    Instances       \* the bounds to choose from: no message ring grows beyond max_mr
                    \* and no ring buffer beyond max_rb, packets have one of sizes,
                    \* and overtakes messages are finished before an older one

ASSUME MessageSetAssumption ==
    /\ NumMessages \in Nat \ {0} /\ RbSize \in Nat \ {0}
    /\ ArraySize \in Nat \ {0, 1}
    /\ MaxClean \in Nat \ {0} /\ RingClean \in Nat \ {0}
    /\ Reserves \subseteq Nat \ {0} /\ Leftovers \subseteq Nat
    /\ Instances \subseteq [max_mr : Nat, max_rb : Nat, sizes : SUBSET Nat, overtakes : Nat]

VARIABLES
    ms,     \* the message set: the arrays mr and rb, and the current entry of each
    cd,     \* the message the originator has reserved but not yet allocated
    sent,   \* history: the messages recipients hold, oldest first
    overtakes, \* history: messages that were finished before an older one
    spilled,   \* history: a message accounts for more bytes than its packet has
    open,   \* FALSE once the set is about to be freed
    bounds  \* the one of Instances that holds

vars == <<ms, cd, sent, overtakes, spilled, open, bounds>>

NULL == <<0, 0>>

\* A header that is not in use; a ring buffer id of 0 is a NULL m->rb.
NoMessage == [status |-> "FREE", rb |-> 0, data |-> 0, data_size |-> 0, rb_size |-> 0]

NewMr(id, n) == [id |-> id, ring |-> NewRing(n), msgs |-> [o \in 0 .. n - 1 |-> NoMessage]]
NewRb(id, n) == [id |-> id, ring |-> NewRing(n)]

Init ==
    /\ ms = [mr |-> <<NewMr(1, NumMessages)>>, rb |-> <<NewRb(1, RbSize)>>,
             mr_current |-> 1, rb_current |-> 1]
    /\ cd = NULL
    /\ sent = << >>
    /\ overtakes = 0
    /\ spilled = FALSE
    /\ open = TRUE
    /\ bounds \in Instances

-----------------------------------------------------------------------------
(* Rings and messages *)

HasEntry(array, id) == \E i \in DOMAIN array : array[i].id = id
Entry(array, id) == CHOOSE i \in DOMAIN array : array[i].id = id

Msg(s, p) == IF HasEntry(s.mr, p[1]) THEN s.mr[Entry(s.mr, p[1])].msgs[p[2]] ELSE NoMessage
SetMsg(s, p, m) == [s EXCEPT !.mr[Entry(s.mr, p[1])].msgs[p[2]] = m]

\* The headers that have been allocated and not yet collected.
Headers(s) == UNION {{<<s.mr[i].id, o>> : o \in Range(Layout(s.mr[i].ring))} : i \in DOMAIN s.mr}

NewId(ids) == Min((1 .. Cardinality(ids) + 1) \ ids)
RbIds(s) == {s.rb[i].id : i \in DOMAIN s.rb} \cup {Msg(s, p).rb : p \in Headers(s)}

-----------------------------------------------------------------------------
(* Garbage collection *)

\* One turn of the loop of fr_message_ring_gc.  The data is freed from the
\* start of its ring buffer, wherever it is.  A ring buffer that was dropped as
\* empty under a message that accounts for it, which takes a message that
\* overtakes or spills, is left alone here; the code follows the stale m->rb.
CollectOne(s, i, o) ==
    LET m == s.mr[i].msgs[o]
        freed == IF HasEntry(s.rb, m.rb)
                 THEN [s EXCEPT !.rb[Entry(s.rb, m.rb)].ring = Free(@, m.rb_size)]
                 ELSE s
    IN  [freed EXCEPT !.mr[i].msgs[o] = NoMessage, !.mr[i].ring = Free(@, 1)]

\* How many messages at the start of message ring i are done, up to max.
Cleanable(s, i, max) ==
    LET oldest == Layout(s.mr[i].ring)
        done(n) == \A k \in 1 .. n : s.mr[i].msgs[oldest[k]].status = "DONE"
    IN  Max({n \in 0 .. Min({Len(oldest), max}) : done(n)})

\* fr_message_ring_gc
RingGc(s, i, max) ==
    LET oldest == SubSeq(Layout(s.mr[i].ring), 1, Cleanable(s, i, max))
    IN  FoldLeft(LAMBDA t, o : CollectOne(t, i, o), s, oldest)

\* The first loop of fr_message_gc: every message ring in turn, up to max in all.
CollectAll(s, max) ==
    FoldLeft(LAMBDA t, i : [s |-> RingGc(t.s, i, max - t.n), n |-> t.n + Cleanable(t.s, i, max - t.n)],
             [s |-> s, n |-> 0], [i \in DOMAIN s.mr |-> i])

\* Variant of Packed: all but the largest ring are dropped.
PackedToOne(array) == <<Last(array)>>

\* Keep the two largest rings, used or not, and of the others those in use.
Packed(array) ==
    LET largest == {array[i].id : i \in {j \in DOMAIN array : j > Len(array) - 2}}
    IN  SelectSeq(array, LAMBDA e : e.id \in largest \/ Used(e.ring) # 0)

\* The ring buffer with most free space; among equals the last one, else the first.
Roomiest(array) ==
    LET room(i) == array[i].ring.size - Used(array[i].ring)
        best == {i \in DOMAIN array : \A j \in DOMAIN array : room(j) <= room(i)}
    IN  IF Len(array) \in best THEN Len(array) ELSE Min(best)

\* The rest of fr_message_gc, after c.n messages were cleaned.
Repacked(s, c) ==
    LET mr == Packed(c.s.mr)
        rb == Packed(c.s.rb)
    IN  IF c.n = 0 THEN s
        ELSE [mr |-> mr, rb |-> rb, rb_current |-> Roomiest(rb),
              mr_current |-> IF Len(mr) < Len(s.mr) THEN Len(mr) ELSE s.mr_current]

\* fr_message_gc
Gc(s, max) == Repacked(s, CollectAll(s, max))

-----------------------------------------------------------------------------
(* Getting a header.  These operators return the message set and a pointer. *)

\* fr_ring_buffer_alloc on message ring i, and what is done with the result.
Take(s, i) ==
    LET ring == s.mr[i].ring
    IN  IF Fits(ring, 1)
        THEN [s |-> [s EXCEPT !.mr[i].ring = Alloc(ring, 1),
                              !.mr[i].msgs[Place(ring, 1)] = [NoMessage EXCEPT !.status = "USED"]],
              p |-> <<s.mr[i].id, Place(ring, 1)>>]
        ELSE [s |-> s, p |-> NULL]

\* fr_message_ring_alloc, with clean: if nothing can be cleaned it gives up.
CleanAndTake(s, i) ==
    IF Cleanable(s, i, RingClean) = 0 THEN [s |-> s, p |-> NULL] ELSE Take(RingGc(s, i, RingClean), i)

\* A new message ring, twice the size of the largest one, becomes current.
DoubleMr(s) ==
    LET size == Last(s.mr).ring.size * 2
        id == NewId({s.mr[i].id : i \in DOMAIN s.mr})
    IN  Take([s EXCEPT !.mr = Append(@, NewMr(id, size)), !.mr_current = Len(s.mr) + 1], Len(s.mr) + 1)

\* Any ring will do, the largest first.
TakeAnywhere(s) ==
    FoldLeft(LAMBDA r, i :
               IF r.p # NULL THEN r
               ELSE LET t == CleanAndTake(r.s, i)
                    IN  IF t.p = NULL THEN t ELSE [t EXCEPT !.s.mr_current = i],
             [s |-> s, p |-> NULL], Reverse([i \in DOMAIN s.mr |-> i]))

GrowIfNone(r) == IF r.p # NULL \/ Len(r.s.mr) >= ArraySize THEN r ELSE DoubleMr(r.s)
ElseAnywhere(r) == IF r.p # NULL THEN r ELSE GrowIfNone(TakeAnywhere(r.s))
CurrentFirst(s) == ElseAnywhere(CleanAndTake(s, s.mr_current))

\* fr_message_get_message after it found the current ring full.
CleanThenGet(s) == CurrentFirst(Gc(s, MaxClean))

\* fr_message_get_message
GetMessage(s) ==
    LET first == Take(s, s.mr_current)
    IN  IF first.p # NULL THEN first ELSE CleanThenGet(s)

\* The value of *p_cleaned.
Cleans(s) == Take(s, s.mr_current).p = NULL

-----------------------------------------------------------------------------
(* Getting room for the packet data *)

\* Message p reserves its rb_size bytes from ring buffer i.
ReserveIn(s, p, i) ==
    LET m == Msg(s, p)
        ring == s.rb[i].ring
        at == [m EXCEPT !.rb = s.rb[i].id, !.data = Place(ring, m.rb_size)]
    IN  SetMsg([s EXCEPT !.rb[i].ring = Reserve(ring, m.rb_size), !.rb_current = i], p, at)

Roomy(s, p) == {i \in DOMAIN s.rb : Fits(s.rb[i].ring, Msg(s, p).rb_size)}

DoubleRb(s, p) ==
    LET size == Last(s.rb).ring.size * 2
        grown == [s EXCEPT !.rb = Append(@, NewRb(NewId(RbIds(s)), size))]
    IN  ReserveIn(grown, p, Len(grown.rb))

\* The label cleanup: the message is given up.
GiveUp(s, p) == SetMsg(s, p, [Msg(s, p) EXCEPT !.rb = 0, !.status = "DONE"])

\* The ring buffers after a garbage collection: the current one, any other,
\* a new one.
FindRoom(s, p) ==
    IF s.rb_current \in Roomy(s, p) THEN [s |-> ReserveIn(s, p, s.rb_current), p |-> p]
    ELSE IF Roomy(s, p) # {} THEN [s |-> ReserveIn(s, p, Max(Roomy(s, p))), p |-> p]
    ELSE IF Len(s.rb) < ArraySize THEN [s |-> DoubleRb(s, p), p |-> p]
    ELSE [s |-> GiveUp(s, p), p |-> NULL]

\* fr_message_get_ring_buffer
GetRingBuffer(s, p, cleaned) ==
    IF s.rb_current \in Roomy(s, p) THEN [s |-> ReserveIn(s, p, s.rb_current), p |-> p]
    ELSE IF ~cleaned /\ Len(s.rb) = 1 THEN [s |-> DoubleRb(s, p), p |-> p]
    ELSE FindRoom(IF cleaned THEN s ELSE Gc(s, MaxClean), p)

\* The header g has its size, then its room.
ReserveRoom(g, n, cleaned) ==
    IF g.p = NULL THEN g
    ELSE GetRingBuffer(SetMsg(g.s, g.p, [Msg(g.s, g.p) EXCEPT !.rb_size = n]), g.p, cleaned)

\* fr_message_reserve: the header, then the room; data_size stays 0.
MessageReserve(s, n) ==
    IF n > RbSize \div 2 THEN [s |-> s, p |-> NULL] ELSE ReserveRoom(GetMessage(s), n, Cleans(s))

-----------------------------------------------------------------------------
(* The originator *)

\* The bound on the instance: rings that are dropped make place for larger ones.
WithinBounds(s) == Last(s.mr).ring.size <= bounds.max_mr /\ Last(s.rb).ring.size <= bounds.max_rb

\* fr_message_reserve, as called by fr_network_read and worker_send_reply.
ReserveMessage(n) ==
    /\ open /\ cd = NULL
    /\ \E r \in {MessageReserve(ms, n)} : WithinBounds(r.s) /\ ms' = r.s /\ cd' = r.p
    /\ UNCHANGED <<sent, overtakes, spilled, open, bounds>>

\* Variant of AllocData: the message keeps the size of its reservation.
AllocKeepsSize(s, p, k) ==
    LET m == Msg(s, p)
        i == Entry(s.rb, m.rb)
    IN  SetMsg([s EXCEPT !.rb[i].ring = [Alloc(@, k) EXCEPT !.reserved = 0]], p, [m EXCEPT !.data_size = k])

\* The first k bytes of the reserved message become its packet.  What is left
\* in rb->reserved is not read again before the next reservation sets it.
AllocData(s, p, k) ==
    LET m == Msg(s, p)
        i == Entry(s.rb, m.rb)
    IN  SetMsg([s EXCEPT !.rb[i].ring = [Alloc(@, k) EXCEPT !.reserved = 0]], p, [m EXCEPT !.data_size = k, !.rb_size = k])

\* fr_message_alloc; fr_network_read calls it when nothing is left over.
AllocMessage(k) ==
    /\ cd # NULL
    /\ Msg(ms, cd).data_size = 0
    /\ k <= Msg(ms, cd).rb_size
    /\ ms' = AllocData(ms, cd, k)
    /\ sent' = Append(sent, cd)
    /\ cd' = NULL
    /\ UNCHANGED <<overtakes, spilled, open, bounds>>

\* m accounts for all it had reserved when the next message has moved away.
Settled(g, p, p2, m_rb_size) ==
    IF g.p = NULL \/ Msg(g.s, p2).rb # Msg(g.s, p).rb
    THEN [g EXCEPT !.s = SetMsg(@, p, [Msg(@, p) EXCEPT !.rb_size = m_rb_size])]
    ELSE g

\* The room for the next message is taken from the ring buffer of m when it
\* has any, else from another one.
ReserveNext(s, p, p2, m_rb_size) ==
    LET own == Entry(s.rb, Msg(s, p).rb)
    IN  IF own \in Roomy(s, p2)
        THEN [s |-> [ReserveIn(s, p2, own) EXCEPT !.rb_current = s.rb_current], p |-> p2]
        ELSE Settled(GetRingBuffer(s, p2, FALSE), p, p2, m_rb_size)

\* The header g of the next message, which starts with the leftover bytes.
MoveLeftover(g, p, left, n, m_rb_size) ==
    IF g.p = NULL THEN g
    ELSE ReserveNext(SetMsg(g.s, g.p, [Msg(g.s, g.p) EXCEPT !.data_size = left, !.rb_size = n]), p, g.p, m_rb_size)

\* fr_message_alloc_reserve with leftover bytes.
AllocAndMove(s, p, k, left, n) ==
    MoveLeftover(GetMessage(AllocData(s, p, k)), p, left, n, Msg(s, p).rb_size)

\* fr_message_alloc_reserve
AllocReserve(k, left, n) ==
    /\ cd # NULL
    /\ Msg(ms, cd).data_size # 0 \/ left # 0
    /\ k + left <= Msg(ms, cd).rb_size /\ left <= n
    /\ \E r \in {IF left = 0 THEN MessageReserve(AllocData(ms, cd, k), n) ELSE AllocAndMove(ms, cd, k, left, n)} :
          WithinBounds(r.s) /\ ms' = r.s /\ cd' = r.p
    /\ sent' = Append(sent, cd)
    /\ spilled' = (spilled \/ Msg(ms', cd).rb_size > k)
    /\ UNCHANGED <<overtakes, open, bounds>>

\* Variant of CollectSet: only the first pass.
CollectOnce ==
    /\ open /\ cd = NULL
    /\ ms' = FoldLeft(LAMBDA t, i : RingGc(t, i, 1), ms, [i \in DOMAIN ms.mr |-> i])
    /\ open' = FALSE
    /\ UNCHANGED <<cd, sent, overtakes, spilled, bounds>>

\* fr_message_set_gc: ~0 is a negative limit, so the first pass cleans one
\* message of each ring, and the second everything.  The callers then free
\* the set.
CollectSet ==
    /\ open /\ cd = NULL
    /\ open' = FALSE
    /\ LET once == FoldLeft(LAMBDA t, i : RingGc(t, i, 1), ms, [i \in DOMAIN ms.mr |-> i])
       IN  ms' = Gc(once, Cardinality(Headers(ms)) + 1)
    /\ UNCHANGED <<cd, sent, overtakes, spilled, bounds>>

(* A recipient *)

\* fr_message_done and fr_message_localize on a message in a ring.
Done(p) ==
    /\ open
    /\ \/ p = Head(sent) /\ UNCHANGED overtakes
       \/ p # Head(sent) /\ overtakes < bounds.overtakes /\ overtakes' = overtakes + 1
    /\ ms' = SetMsg(ms, p, [Msg(ms, p) EXCEPT !.status = "DONE"])
    /\ sent' = SelectSeq(sent, LAMBDA q : q # p)
    /\ UNCHANGED <<cd, spilled, open, bounds>>

Next ==
    \/ \E n \in Reserves : ReserveMessage(n)
    \/ \E k \in bounds.sizes : AllocMessage(k)
    \/ \E k \in bounds.sizes, left \in Leftovers, n \in Reserves : AllocReserve(k, left, n)
    \/ CollectSet
    \/ \E p \in Range(sent) : Done(p)

Spec == Init /\ [][Next]_vars

-----------------------------------------------------------------------------
(* Properties *)

Holding == Range(sent) \cup ({cd} \ {NULL})

\* Types, and what the collection relies on: the rings of an array get larger,
\* so that the last two are the largest.
TypeOK ==
    /\ \A array \in {ms.mr, ms.rb} : \A i \in 2 .. Len(array) :
         array[i].ring.size > array[i - 1].ring.size
    /\ \A i \in DOMAIN ms.mr : ms.mr[i].ring \in Rings(Nat)
    /\ \A i \in DOMAIN ms.rb : ms.rb[i].ring \in Rings(Nat)
    /\ ms.mr_current \in DOMAIN ms.mr /\ ms.rb_current \in DOMAIN ms.rb
    /\ Len(ms.mr) <= ArraySize /\ Len(ms.rb) <= ArraySize
    /\ IsInjective(sent) /\ cd \notin Range(sent)

\* A message that a recipient or the originator holds is in a header that is
\* in use: it is not collected, reused, or in a ring that has been dropped, also
\* when recipients finish out of order.  Between reserve and alloc the ring
\* buffer stays in the set, and the allocation will get the room that was
\* reserved, at m->data: the assertions p != NULL and p == m->data of
\* fr_message_alloc.
HeadersSurvive ==
    /\ TypeOK
    /\ \A p \in Holding : p \in Headers(ms) /\ Msg(ms, p).status = "USED"
    /\ cd # NULL =>
        LET m == Msg(ms, cd)
        IN  /\ HasEntry(ms.rb, m.rb)
            /\ Place(ms.rb[Entry(ms.rb, m.rb)].ring, m.rb_size) = m.data

Bytes(m) == {<<m.rb, m.data + j>> : j \in 0 .. m.data_size - 1}
BytesInUse == UNION {{<<ms.rb[i].id, o>> : o \in Range(Layout(ms.rb[i].ring))} : i \in DOMAIN ms.rb}

\* The packet data of a message that a recipient holds is in a ring buffer of
\* the set, among its bytes in use, and is not shared with another message, as
\* long as messages are finished in the order they were sent and no leftover had
\* to move to another ring buffer.  The collection frees data in the order of the
\* headers, so a message of a later message ring that is finished first takes the
\* bytes of an older one with it.  And after a move fr_message_alloc_reserve gives
\* the old message back its whole reservation as rb_size, of which the ring buffer
\* has only the packet: collecting it takes bytes of the message after it.
DataSurvives ==
    open /\ overtakes = 0 /\ ~spilled =>
        /\ \A p \in Range(sent) : Bytes(Msg(ms, p)) \subseteq BytesInUse
        /\ \A p, q \in Range(sent) : p # q => Bytes(Msg(ms, p)) \cap Bytes(Msg(ms, q)) = {}

\* The last collection leaves no header behind once recipients have finished:
\* "all messages marked done MUST also be marked free".
LastCollectionEmpties == ~open /\ sent = << >> => Headers(ms) = {}
=============================================================================
