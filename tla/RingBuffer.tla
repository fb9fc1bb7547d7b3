---------------------------- MODULE RingBuffer ----------------------------
(***************************************************************************)
(* The ring buffers of src/lib/io/ring_buffer.c, driven by a caller that   *)
(* reserves, allocates and frees.  A ring buffer does not remember single  *)
(* allocations, so the history variable live does: the bytes handed out    *)
(* and not yet given back, oldest first.  A caller gives bytes back in the *)
(* order it got them ("Mark data as free" takes only a size).              *)
(***************************************************************************)
EXTENDS RingOps

CONSTANTS
    Buffers,        \* the ring buffers
    Size,           \* rb->size
    Requests        \* the sizes the caller asks for

ASSUME SizeAssumption == Size \in Nat \ {0}

ASSUME RequestsAssumption == Requests \subseteq Nat \ {0}

VARIABLES
    rb,             \* rb[b]: the fields of the buffer
    gone,           \* gone[b]: fr_ring_buffer_free has freed the buffer itself
    live,           \* history: the bytes in use, oldest first
    held,           \* held[b]: the pointer of the caller's reservation, or NoRoom
    emptied         \* history: a free has emptied the buffer since it was made

vars == <<rb, gone, live, held, emptied>>

TypeOK ==
    /\ rb \in [Buffers -> Rings({Size})]
    /\ gone \in [Buffers -> BOOLEAN]
    /\ live \in [Buffers -> Seq(0 .. Size - 1)]
    /\ held \in [Buffers -> {NoRoom} \cup 0 .. Size]
    /\ emptied \in [Buffers -> BOOLEAN]

Init ==
    /\ rb = [b \in Buffers |-> NewRing(Size)]
    /\ gone = [b \in Buffers |-> FALSE]
    /\ live = [b \in Buffers |-> << >>]
    /\ held = [b \in Buffers |-> NoRoom]
    /\ emptied = [b \in Buffers |-> FALSE]

\* fr_ring_buffer_reserve; a refused request leaves an older reservation alone.
ReserveBytes(b, n) ==
    /\ ~gone[b]
    /\ rb' = [rb EXCEPT ![b] = Reserve(@, n)]
    /\ held' = [held EXCEPT ![b] = IF Fits(rb[b], n) THEN Place(rb[b], n) ELSE @]
    /\ emptied' = [emptied EXCEPT ![b] = @ /\ ~Fits(rb[b], n)]
    /\ UNCHANGED <<gone, live>>

\* fr_ring_buffer_alloc; what is left of the reservation starts behind it.
AllocBytes(b, n) ==
    LET p == Place(rb[b], n)
        ok == Fits(rb[b], n)
        new == Alloc(rb[b], n)
    IN  /\ ~gone[b]
        /\ rb' = [rb EXCEPT ![b] = new]
        /\ live' = [live EXCEPT ![b] = IF ok THEN @ \o Block(p, n) ELSE @]
        /\ held' = [held EXCEPT ![b] =
                        IF rb[b].closed THEN @
                        ELSE IF new.reserved = 0 \/ @ = NoRoom THEN NoRoom
                        ELSE IF ok THEN p + n ELSE @]
        /\ emptied' = [emptied EXCEPT ![b] = @ /\ rb[b].closed]
        /\ UNCHANGED gone

\* fr_ring_buffer_reserve_split: reserve n bytes in dst and move m reserved
\* bytes of src there.  Within one buffer the new reservation always starts
\* at write_offset, so it returns before the reservation of src is dropped.
ReserveSplit(dst, n, src, m) ==
    /\ ~gone[dst] /\ ~gone[src]
    /\ ~rb[dst].closed
    /\ rb[src].reserved >= m
    /\ Fits(rb[dst], n)
    /\ rb' = IF src = dst
             THEN [rb EXCEPT ![dst] = Reserve(@, n)]
             ELSE [rb EXCEPT ![dst] = Reserve(@, n),
                             ![src] = Moved(@, @.start, @.end, @.write, 0)]
    /\ held' = [held EXCEPT ![src] = NoRoom, ![dst] = Place(rb[dst], n)]
    /\ emptied' = [emptied EXCEPT ![src] = FALSE, ![dst] = FALSE]
    /\ UNCHANGED <<gone, live>>

\* fr_ring_buffer_free of n bytes in use.  Emptying the buffer moves
\* write_offset back to the start and says nothing to who holds a reservation.
FreeBytes(b, n) ==
    LET empties == n = Used(rb[b])
    IN  /\ ~gone[b]
        /\ n \in 1 .. Used(rb[b])
        /\ rb' = [rb EXCEPT ![b] = Free(@, n)]
        /\ live' = [live EXCEPT ![b] = SubSeq(@, n + 1, Len(@))]
        /\ emptied' = [emptied EXCEPT ![b] = @ \/ empties]
        /\ gone' = [gone EXCEPT ![b] = empties /\ rb[b].closed]
        /\ UNCHANGED held

\* fr_ring_buffer_free of more bytes than are in use: an error.
FreeTooMany(b, n) ==
    /\ ~gone[b]
    /\ n > Used(rb[b])
    /\ rb' = [rb EXCEPT ![b] = Free(@, n)]
    /\ live' = [live EXCEPT ![b] = SubSeq(@, Used(rb[b]) - Used(Free(rb[b], n)) + 1, Len(@))]
    /\ UNCHANGED <<gone, held, emptied>>

\* fr_ring_buffer_close
Close(b) ==
    /\ ~gone[b]
    /\ rb' = [rb EXCEPT ![b] = Closed(@)]
    /\ UNCHANGED <<gone, live, held, emptied>>

Next ==
    \E b \in Buffers :
        \/ \E n \in Requests :
              \/ ReserveBytes(b, n)
              \/ AllocBytes(b, n)
              \/ FreeTooMany(b, n)
              \/ \E s \in Buffers, m \in Requests : ReserveSplit(b, n, s, m)
        \/ \E n \in 1 .. Size : FreeBytes(b, n)
        \/ Close(b)

Spec == Init /\ [][Next]_vars

-----------------------------------------------------------------------------
\* The shape that every function of the file asserts.
ShapeHolds == \A b \in Buffers : Shape(rb[b])

\* fr_ring_buffer_alloc never hands out a byte that is still in use, whatever
\* the order of reservations, allocations, frees and wraps.
NoByteTwice ==
    \A b \in Buffers : \A i, j \in 1 .. Len(live[b]) : live[b][i] = live[b][j] => i = j

\* The fields describe exactly the bytes in use, in the order in which
\* fr_ring_buffer_free will give them back.
FieldsDescribeLive == \A b \in Buffers : live[b] = Layout(rb[b])

\* Every request up to the reserved size would be placed at h.
Honours(r, h) == h # NoRoom /\ ~r.closed => \A n \in 1 .. r.reserved : Place(r, n) = h

\* Where a reservation with pointer h is once a free has emptied its buffer.
Pointer(h, moved) == IF h # NoRoom /\ moved THEN 0 ELSE h

\* A reservation is good until it is used: an allocation of at most the
\* reserved size succeeds, and at the pointer that fr_ring_buffer_reserve
\* returned, even after frees of other data.  A free that empties the buffer is
\* the exception: the allocation still succeeds, but at the start of the buffer
\* and not at the pointer the caller holds.
ReservationHonoured == \A b \in Buffers : Honours(rb[b], Pointer(held[b], emptied[b]))

\* The inductive invariant of RingBufferProofs.
Inv ==
    /\ TypeOK
    /\ ShapeHolds
    /\ FieldsDescribeLive
    /\ ReservationHonoured

=============================================================================
