------------------------------ MODULE RingOps ------------------------------
(***************************************************************************)
(* The arithmetic of src/lib/io/ring_buffer.c as operators on a record     *)
(* that holds the fields of fr_ring_buffer_t.  The bytes are the offsets   *)
(* 0 .. size - 1; only their ownership matters, so the buffer itself is    *)
(* left out.  A pointer is its offset, and NULL is NoRoom.                 *)
(*                                                                         *)
(*     |....S****WE....|   linear:  start <= end = write                   *)
(*     |***W....S****E..|  wrapped: write < start < end                    *)
(***************************************************************************)
EXTENDS Integers, Sequences

NoRoom == -1

\* fr_ring_buffer_create rounds the size up to a power of two; every size
\* works for the operations below.
NewRing(size) ==
    [size |-> size, start |-> 0, end |-> 0, write |-> 0, reserved |-> 0, closed |-> FALSE]

Rings(sizes) ==
    [size : sizes, start : Nat, end : Nat, write : Nat, reserved : Nat, closed : BOOLEAN]

Wrapped(rb) == rb.write < rb.start

\* The buffer rb with new values of the four fields that the operations move.
Moved(rb, start, end, write, reserved) ==
    [size |-> rb.size, start |-> start, end |-> end, write |-> write,
     reserved |-> reserved, closed |-> rb.closed]

\* Variant of Place that the properties must reject: the wrapped gap is taken to
\* be one byte longer than it is.
PlaceFillsGap(rb, n) ==
    IF Wrapped(rb)
    THEN IF rb.write + n <= rb.start THEN rb.write ELSE NoRoom
    ELSE IF rb.write + n <= rb.size THEN rb.write
         ELSE IF n <= rb.start THEN 0 ELSE NoRoom

\* Where fr_ring_buffer_reserve and fr_ring_buffer_alloc put n bytes.
Place(rb, n) ==
    IF Wrapped(rb)
    THEN IF rb.write + n < rb.start THEN rb.write ELSE NoRoom
    ELSE IF rb.write + n <= rb.size THEN rb.write
         ELSE IF n < rb.start THEN 0 ELSE NoRoom

Fits(rb, n) == ~rb.closed /\ Place(rb, n) # NoRoom

\* fr_ring_buffer_reserve: a refused request changes nothing.
Reserve(rb, n) ==
    IF Fits(rb, n) THEN Moved(rb, rb.start, rb.end, Place(rb, n), n) ELSE rb

\* Variant of Shrunk: the reservation outlives the allocation made from it.
ShrunkNever(rb, n) == rb.reserved

\* An allocation consumes the reservation, also one that is then refused.
Shrunk(rb, n) == IF rb.reserved >= n THEN rb.reserved - n ELSE 0

\* fr_ring_buffer_alloc: the end of the data moves unless the bytes go to
\* the start of the buffer, in front of older data.
Alloc(rb, n) ==
    IF rb.closed THEN rb
    ELSE IF ~Fits(rb, n) THEN Moved(rb, rb.start, rb.end, rb.write, Shrunk(rb, n))
    ELSE LET p == Place(rb, n)
             front == Wrapped(rb) \/ p # rb.write
         IN  Moved(rb, rb.start, IF front THEN rb.end ELSE p + n, p + n, Shrunk(rb, n))

\* fr_ring_buffer_used
Used(rb) == (IF Wrapped(rb) THEN rb.write ELSE 0) + (rb.end - rb.start)

\* Free the older of the two blocks of a wrapped buffer.
Unwrapped(rb) ==
    IF Wrapped(rb) THEN Moved(rb, 0, rb.write, rb.write, rb.reserved) ELSE rb

Emptied(rb) == Moved(rb, 0, 0, 0, rb.reserved)

\* Drop the first n bytes of the older block.
Dropped(rb, n) == Moved(rb, rb.start + n, rb.end, rb.write, rb.reserved)

\* Variant of Free: the second block is freed from its start although the
\* first one was only partly freed.
FreeForgetsFirst(rb, n) ==
    LET u == Unwrapped(rb)
    IN  IF n > u.end - u.start THEN u
        ELSE IF n < u.end - u.start THEN Dropped(u, n)
        ELSE Emptied(u)

\* fr_ring_buffer_free: the n oldest bytes become free.  Freeing more than
\* is in use is an error, but the older block of a wrapped buffer is gone.
Free(rb, n) ==
    LET first == rb.end - rb.start
        u == Unwrapped(rb)
        rest == IF Wrapped(rb) THEN n - first ELSE n
    IN  IF n = 0 THEN rb
        ELSE IF Wrapped(rb) /\ n < first THEN Dropped(rb, n)
        ELSE IF rest > u.end - u.start THEN u
        ELSE IF rest < u.end - u.start THEN Dropped(u, rest)
        ELSE Emptied(rb)

\* fr_ring_buffer_close
Closed(rb) ==
    [size |-> rb.size, start |-> rb.start, end |-> rb.end, write |-> rb.write,
     reserved |-> rb.reserved, closed |-> TRUE]

\* The shape every function of the file asserts: data either lies in one
\* block that ends where writing goes on, or wraps and leaves a gap.
Shape(rb) ==
    /\ rb.end <= rb.size
    /\ \/ rb.start <= rb.end /\ rb.write = rb.end /\ (rb.start = rb.end => rb.start = 0)
       \/ rb.write < rb.start /\ rb.start < rb.end

\* The bytes in use, oldest first, as the fields imply them.
ByteAt(rb, i) ==
    IF i <= rb.end - rb.start THEN rb.start + i - 1 ELSE i - (rb.end - rb.start) - 1

Layout(rb) == [i \in 1 .. Used(rb) |-> ByteAt(rb, i)]

\* The n bytes at offset p.
Block(p, n) == [i \in 1 .. n |-> p + i - 1]
=============================================================================
