------------------------- MODULE RingBufferProofs -------------------------
(***************************************************************************)
(* Proofs about RingBuffer, for every number of buffers, every size and    *)
(* every set of request sizes.  The first lemmas say what an operation of  *)
(* RingOps does to one buffer as a value, reading its bytes as a sequence; *)
(* then the reservation is followed through the operations, and the        *)
(* theorems lift all that to the specification.  ControlProofs uses the    *)
(* lemmas on one buffer for the rings of the senders.                      *)
(***************************************************************************)
EXTENDS RingBuffer, TLAPS

\* A well-formed ring buffer.
Good(r) == r \in Rings(Nat \ {0}) /\ Shape(r)

LEMMA NewRingGood ==
    ASSUME NEW size \in Nat \ {0}
    PROVE  /\ Good(NewRing(size)) /\ NewRing(size).size = size
           /\ Used(NewRing(size)) = 0
BY DEF Good, NewRing, Rings, Shape, Used, Wrapped

LEMMA UsedNat ==
    ASSUME NEW r, Good(r)
    PROVE  Used(r) \in Nat /\ Used(r) <= r.size /\ r.end - r.start \in 0 .. Used(r)
BY DEF Good, Rings, Shape, Used, Wrapped

(* A place that was found lies inside the buffer *)
LEMMA PlaceInside ==
    ASSUME NEW r, Good(r), NEW n \in Nat \ {0}, Place(r, n) # NoRoom
    PROVE  Place(r, n) \in Nat /\ Place(r, n) + n <= r.size
BY DEF Good, Rings, Shape, Place, Wrapped, NoRoom

LEMMA GoodFields ==
    ASSUME NEW r, Good(r)
    PROVE  /\ r \in Rings(Nat \ {0}) /\ r.size \in Nat \ {0}
           /\ r.start \in Nat /\ r.end \in Nat /\ r.write \in Nat /\ r.reserved \in Nat
           /\ r.closed \in BOOLEAN
           /\ \/ r.start <= r.end /\ r.write = r.end /\ (r.start = r.end => r.start = 0)
              \/ r.write < r.start /\ r.start < r.end
           /\ r.end <= r.size
BY DEF Good, Rings, Shape

LEMMA ReserveGood ==
    ASSUME NEW r, Good(r), NEW n \in Nat \ {0}
    PROVE  /\ Good(Reserve(r, n)) /\ Reserve(r, n).size = r.size
           /\ Used(Reserve(r, n)) = Used(r)
           /\ Reserve(r, n).start = r.start
           /\ Reserve(r, n).end = r.end
           /\ Reserve(r, n).closed = r.closed
           /\ Fits(r, n) => /\ Reserve(r, n).write = Place(r, n)
                            /\ Reserve(r, n).reserved = n
<1>1. CASE ~Fits(r, n)
  BY <1>1 DEF Reserve
<1>2. CASE Fits(r, n)
  <2>1. Place(r, n) \in Nat
    BY <1>2, PlaceInside DEF Fits
  <2>2. \/ Place(r, n) = r.write
        \/ ~Wrapped(r) /\ Place(r, n) = 0 /\ r.start > 0 /\ r.write # r.start
    BY <1>2, GoodFields DEF Fits, Place, NoRoom, Wrapped
  <2>3. Reserve(r, n) = Moved(r, r.start, r.end, Place(r, n), n)
    BY <1>2 DEF Reserve
  <2>4. /\ r.start \in Nat /\ r.end \in Nat /\ r.write \in Nat /\ n \in Nat
        /\ r.size \in Nat \ {0} /\ r.closed \in BOOLEAN
        /\ \/ r.start <= r.end /\ r.write = r.end /\ (r.start = r.end => r.start = 0)
           \/ r.write < r.start /\ r.start < r.end
        /\ r.end <= r.size
    BY GoodFields
  <2>5. /\ Reserve(r, n) \in Rings(Nat \ {0}) /\ Reserve(r, n).size = r.size
        /\ Reserve(r, n).start = r.start /\ Reserve(r, n).end = r.end
        /\ Reserve(r, n).write = Place(r, n) /\ Reserve(r, n).reserved = n
        /\ Reserve(r, n).closed = r.closed
    BY <2>1, <2>3, <2>4 DEF Moved, Rings
  <2>6. Shape(Reserve(r, n)) /\ Used(Reserve(r, n)) = Used(r)
    BY <2>1, <2>2, <2>4, <2>5 DEF Shape, Used, Wrapped
  <2> QED
    BY <2>5, <2>6 DEF Good
<1> QED
  BY <1>1, <1>2

LEMMA ShrunkNat ==
    ASSUME NEW r, Good(r), NEW n \in Nat \ {0}
    PROVE  /\ Shrunk(r, n) \in Nat
           /\ Shrunk(r, n) > 0 => r.reserved = Shrunk(r, n) + n
BY GoodFields DEF Shrunk

(* An allocation goes behind the data, or in front of it *)
LEMMA AllocCases ==
    ASSUME NEW r, Good(r), NEW n \in Nat \ {0}, Fits(r, n)
    PROVE  LET p == Place(r, n)
               a == Alloc(r, n)
           IN  /\ a \in Rings(Nat \ {0}) /\ a.size = r.size /\ a.start = r.start /\ a.write = p + n
               /\ a.reserved = Shrunk(r, n) /\ a.closed = r.closed
               /\ \/ Wrapped(r) /\ p = r.write /\ p + n < r.start /\ a.end = r.end
                  \/ ~Wrapped(r) /\ p = r.write /\ p + n <= r.size /\ a.end = p + n
                  \/ ~Wrapped(r) /\ p = 0 /\ n < r.start /\ r.write # r.start /\ a.end = r.end
<1> DEFINE p == Place(r, n)
           e == IF Wrapped(r) \/ p # r.write THEN r.end ELSE p + n
<1>1. p \in Nat /\ p + n \in Nat /\ Shrunk(r, n) \in Nat
  BY PlaceInside, ShrunkNat DEF Fits
<1>2. Alloc(r, n) = Moved(r, r.start, e, p + n, Shrunk(r, n))
  BY DEF Alloc, Fits
<1>3. e \in Nat
  BY <1>1, GoodFields
<1>4. \/ Wrapped(r) /\ p = r.write /\ p + n < r.start
      \/ ~Wrapped(r) /\ p = r.write /\ p + n <= r.size
      \/ ~Wrapped(r) /\ p = 0 /\ n < r.start /\ r.write # r.start /\ p # r.write
  BY GoodFields DEF Fits, Place, NoRoom, Wrapped
<1>5. \/ Wrapped(r) /\ p = r.write /\ p + n < r.start /\ e = r.end
      \/ ~Wrapped(r) /\ p = r.write /\ p + n <= r.size /\ e = p + n
      \/ ~Wrapped(r) /\ p = 0 /\ n < r.start /\ r.write # r.start /\ e = r.end
  BY <1>4
<1> HIDE DEF e, p
<1>6. r.start \in Nat /\ r.size \in Nat \ {0} /\ r.closed \in BOOLEAN
  BY GoodFields
<1>7. /\ Alloc(r, n) \in Rings(Nat \ {0}) /\ Alloc(r, n).size = r.size
      /\ Alloc(r, n).start = r.start /\ Alloc(r, n).end = e /\ Alloc(r, n).write = p + n
      /\ Alloc(r, n).reserved = Shrunk(r, n) /\ Alloc(r, n).closed = r.closed
  BY <1>1, <1>2, <1>3, <1>6 DEF Moved, Rings
<1> QED
  BY <1>5, <1>7 DEF p

LEMMA AllocGood ==
    ASSUME NEW r, Good(r), NEW n \in Nat \ {0}, Fits(r, n)
    PROVE  Good(Alloc(r, n)) /\ Alloc(r, n).size = r.size /\ Used(Alloc(r, n)) = Used(r) + n
<1> DEFINE p == Place(r, n)
           a == Alloc(r, n)
<1>1. p \in Nat
  BY PlaceInside DEF Fits
<1>2. /\ a \in Rings(Nat \ {0}) /\ a.size = r.size /\ a.start = r.start /\ a.write = p + n
      /\ \/ Wrapped(r) /\ p = r.write /\ p + n < r.start /\ a.end = r.end
         \/ ~Wrapped(r) /\ p = r.write /\ p + n <= r.size /\ a.end = p + n
         \/ ~Wrapped(r) /\ p = 0 /\ n < r.start /\ r.write # r.start /\ a.end = r.end
  BY AllocCases
<1>3. /\ r.start \in Nat /\ r.end \in Nat /\ r.write \in Nat
      /\ \/ r.start <= r.end /\ r.write = r.end /\ (r.start = r.end => r.start = 0)
         \/ r.write < r.start /\ r.start < r.end
      /\ r.end <= r.size
  BY GoodFields
<1> HIDE DEF p, a
<1>4. Shape(a) /\ Used(a) = Used(r) + n
  BY <1>1, <1>2, <1>3 DEF Shape, Used, Wrapped
<1> QED
  BY <1>2, <1>4 DEF Good, a

LEMMA RefusedAlloc ==
    ASSUME NEW r, Good(r), NEW n \in Nat \ {0}, ~Fits(r, n)
    PROVE  /\ Good(Alloc(r, n)) /\ Alloc(r, n).size = r.size
           /\ Used(Alloc(r, n)) = Used(r)
           /\ Alloc(r, n).start = r.start /\ Alloc(r, n).end = r.end
           /\ Alloc(r, n).write = r.write /\ Alloc(r, n).closed = r.closed
           /\ ~r.closed => Alloc(r, n).reserved = Shrunk(r, n)
<1>1. CASE r.closed
  BY <1>1, Zenon DEF Alloc
<1>2. CASE ~r.closed
  <2>1. Alloc(r, n) = Moved(r, r.start, r.end, r.write, Shrunk(r, n))
    BY <1>2 DEF Alloc
  <2>2. /\ Shrunk(r, n) \in Nat /\ r.start \in Nat /\ r.end \in Nat /\ r.write \in Nat
        /\ r.size \in Nat \ {0} /\ r.closed \in BOOLEAN
    BY ShrunkNat, GoodFields
  <2>3. /\ Alloc(r, n) \in Rings(Nat \ {0}) /\ Alloc(r, n).size = r.size
        /\ Alloc(r, n).start = r.start /\ Alloc(r, n).end = r.end
        /\ Alloc(r, n).write = r.write /\ Alloc(r, n).closed = r.closed
        /\ Alloc(r, n).reserved = Shrunk(r, n)
    BY <2>1, <2>2 DEF Moved, Rings
  <2>4. Shape(r) /\ r.size \in Nat \ {0}
    BY GoodFields DEF Good
  <2> QED
    BY <2>3, <2>4 DEF Good, Shape, Used, Wrapped
<1> QED
  BY <1>1, <1>2

(* What a free does, case by case: the block it takes the bytes from *)
LEMMA FreeCases ==
    ASSUME NEW r, Good(r), NEW n \in Nat \ {0}
    PROVE  LET f == Free(r, n) IN
           /\ f \in Rings(Nat \ {0}) /\ f.size = r.size
           /\ f.reserved = r.reserved /\ f.closed = r.closed
           /\ \/ /\ n < r.end - r.start
                 /\ f.start = r.start + n /\ f.end = r.end /\ f.write = r.write
              \/ /\ Wrapped(r) /\ n >= r.end - r.start /\ n < Used(r)
                 /\ f.start = n - (r.end - r.start) /\ f.end = r.write /\ f.write = r.write
              \/ /\ n = Used(r)
                 /\ f.start = 0 /\ f.end = 0 /\ f.write = 0
              \/ /\ n > Used(r) /\ Wrapped(r)
                 /\ f.start = 0 /\ f.end = r.write /\ f.write = r.write
              \/ /\ n > Used(r) /\ ~Wrapped(r) /\ f = r
<1> DEFINE len == r.end - r.start
           u == Unwrapped(r)
           f == Free(r, n)
<1>0. /\ r \in Rings(Nat \ {0}) /\ r.size \in Nat \ {0}
      /\ r.start \in Nat /\ r.end \in Nat /\ r.write \in Nat /\ r.reserved \in Nat
      /\ r.start <= r.end /\ len \in Nat /\ r.closed \in BOOLEAN
  BY GoodFields
<1>1. ASSUME NEW s \in Nat, NEW e \in Nat, NEW w \in Nat, f = Moved(r, s, e, w, r.reserved)
      PROVE  /\ f \in Rings(Nat \ {0}) /\ f.size = r.size /\ f.start = s /\ f.end = e /\ f.write = w
             /\ f.reserved = r.reserved /\ f.closed = r.closed
  BY <1>0, <1>1 DEF Moved, Rings
<1>2. CASE Wrapped(r)
  <2>1. /\ u = Moved(r, 0, r.write, r.write, r.reserved)
        /\ Used(r) = r.write + len
    BY <1>2 DEF Unwrapped, Used
  <2>2. /\ u.start = 0 /\ u.end = r.write /\ u.write = r.write /\ u.reserved = r.reserved
        /\ u.size = r.size /\ u.closed = r.closed
    BY <2>1 DEF Moved
  <2>3. CASE n < len
    <3>1. f = Moved(r, r.start + n, r.end, r.write, r.reserved) /\ r.start + n \in Nat
      BY <1>0, <1>2, <2>3 DEF Free, Dropped
    <3> HIDE DEF f
    <3> QED
      BY ZenonT(40), <1>0, <1>1, <2>3, <3>1 DEF f
  <2>4. CASE ~(n < len)
    <3>1. n - len \in Nat /\ n - len + len = n
      BY <1>0, <2>4
    <3>2. f = IF n - len > r.write THEN u
              ELSE IF n - len < r.write THEN Dropped(u, n - len)
              ELSE Emptied(r)
      <4>1. n # 0 /\ u.end - u.start = r.write
        BY <1>0, <2>2
      <4> QED
        BY <1>2, <2>4, <4>1 DEF Free
    <3>3. Dropped(u, n - len) = Moved(r, n - len, r.write, r.write, r.reserved)
      <4>1. u.start + (n - len) = n - len
        BY <2>2, <3>1
      <4> QED
        BY <2>2, <4>1 DEF Dropped, Moved
    <3>4. Emptied(r) = Moved(r, 0, 0, 0, r.reserved)
      BY DEF Emptied
    <3> HIDE DEF f, len, u
    <3>5. CASE n - len > r.write
      <4>1. f = Moved(r, 0, r.write, r.write, r.reserved) /\ n > Used(r)
        BY <1>0, <2>1, <3>1, <3>2, <3>5
      <4> QED
        BY ZenonT(40), <1>0, <1>1, <1>2, <4>1 DEF f
    <3>6. CASE n - len < r.write
      <4>1. f = Moved(r, n - len, r.write, r.write, r.reserved) /\ n < Used(r) /\ n >= len
        BY <1>0, <2>1, <2>4, <3>1, <3>2, <3>3, <3>6
      <4> QED
        BY <1>0, <1>1, <1>2, <3>1, <4>1, ZenonT(40) DEF f, len
    <3>7. CASE n - len = r.write
      <4>1. f = Moved(r, 0, 0, 0, r.reserved) /\ n = Used(r)
        BY <1>0, <2>1, <3>1, <3>2, <3>4, <3>7
      <4>2. /\ f \in Rings(Nat \ {0}) /\ f.size = r.size /\ f.start = 0 /\ f.end = 0 /\ f.write = 0
            /\ f.reserved = r.reserved /\ f.closed = r.closed
        BY <1>0, <4>1 DEF Moved, Rings
      <4> QED
        BY <4>1, <4>2 DEF f
    <3> QED
      BY <1>0, <3>1, <3>5, <3>6, <3>7
  <2> QED
    BY <2>3, <2>4
<1>3. CASE ~Wrapped(r)
  <2>1. u = r /\ Used(r) = len
    BY <1>0, <1>3 DEF Unwrapped, Used
  <2>2. f = IF n > len THEN r
            ELSE IF n < len THEN Moved(r, r.start + n, r.end, r.write, r.reserved)
            ELSE Moved(r, 0, 0, 0, r.reserved)
    BY <1>3, <2>1 DEF Free, Dropped, Emptied
  <2> HIDE DEF f
  <2>3. CASE n > len
    BY <1>0, <1>3, <2>1, <2>2, <2>3 DEF f
  <2>4. CASE n < len
    <3>1. f = Moved(r, r.start + n, r.end, r.write, r.reserved) /\ r.start + n \in Nat
      BY <1>0, <2>2, <2>4
    <3> QED
      BY <1>0, <1>1, <2>4, <3>1, ZenonT(40) DEF f
  <2>5. CASE n = len
    <3>1. f = Moved(r, 0, 0, 0, r.reserved)
      BY <1>0, <2>2, <2>5
    <3> QED
      BY <1>0, <1>1, <2>1, <2>5, <3>1 DEF f
  <2> QED
    BY <1>0, <2>3, <2>4, <2>5
<1> QED
  BY <1>2, <1>3

LEMMA FreeGood ==
    ASSUME NEW r, Good(r), NEW n \in Nat \ {0}
    PROVE  /\ Good(Free(r, n)) /\ Free(r, n).size = r.size
           /\ n <= Used(r) => Used(Free(r, n)) = Used(r) - n
           /\ n > Used(r) => Used(Free(r, n)) = IF Wrapped(r) THEN r.write ELSE Used(r)
<1> DEFINE f == Free(r, n)
<1>1. /\ f \in Rings(Nat \ {0}) /\ f.size = r.size
      /\ \/ /\ n < r.end - r.start
            /\ f.start = r.start + n /\ f.end = r.end /\ f.write = r.write
         \/ /\ Wrapped(r) /\ n >= r.end - r.start /\ n < Used(r)
            /\ f.start = n - (r.end - r.start) /\ f.end = r.write /\ f.write = r.write
         \/ /\ n = Used(r)
            /\ f.start = 0 /\ f.end = 0 /\ f.write = 0
         \/ /\ n > Used(r) /\ Wrapped(r)
            /\ f.start = 0 /\ f.end = r.write /\ f.write = r.write
         \/ /\ n > Used(r) /\ ~Wrapped(r) /\ f = r
  BY FreeCases
<1>2. /\ r.start \in Nat /\ r.end \in Nat /\ r.write \in Nat
      /\ \/ r.start <= r.end /\ r.write = r.end /\ (r.start = r.end => r.start = 0)
         \/ r.write < r.start /\ r.start < r.end
      /\ r.end <= r.size /\ r.size \in Nat
  BY GoodFields
<1> SUFFICES /\ Shape(f)
             /\ n <= Used(r) => Used(f) = Used(r) - n
             /\ n > Used(r) => Used(f) = IF Wrapped(r) THEN r.write ELSE Used(r)
  BY <1>1 DEF Good
<1> HIDE DEF f
<1>3. f.size = r.size
  BY <1>1
<1>4. CASE n > Used(r) /\ ~Wrapped(r) /\ f = r
  BY <1>2, <1>3, <1>4 DEF Shape, Used, Wrapped
<1>5. CASE /\ n < r.end - r.start
           /\ f.start = r.start + n /\ f.end = r.end /\ f.write = r.write
  BY <1>2, <1>3, <1>5 DEF Shape, Used, Wrapped
<1>6. CASE /\ Wrapped(r) /\ n >= r.end - r.start /\ n < Used(r)
           /\ f.start = n - (r.end - r.start) /\ f.end = r.write /\ f.write = r.write
  BY <1>2, <1>3, <1>6 DEF Shape, Used, Wrapped
<1>7. CASE n = Used(r) /\ f.start = 0 /\ f.end = 0 /\ f.write = 0
  BY <1>2, <1>3, <1>7 DEF Shape, Used, Wrapped
<1>8. CASE /\ n > Used(r) /\ Wrapped(r)
           /\ f.start = 0 /\ f.end = r.write /\ f.write = r.write
  BY <1>2, <1>3, <1>8 DEF Shape, Used, Wrapped
<1> QED
  BY <1>1, <1>4, <1>5, <1>6, <1>7, <1>8

-----------------------------------------------------------------------------
(* The bytes a record describes *)

LEMMA FunctionIsSeq ==
    ASSUME NEW S, NEW n \in Nat, NEW g \in [1 .. n -> S]
    PROVE  g \in Seq(S) /\ Len(g) = n
OBVIOUS

LEMMA SameElements ==
    ASSUME NEW S, NEW s \in Seq(S), NEW t \in Seq(S),
           Len(s) = Len(t), \A i \in 1 .. Len(s) : s[i] = t[i]
    PROVE  s = t
OBVIOUS

LEMMA ConcatIs ==
    ASSUME NEW S, NEW s \in Seq(S), NEW t \in Seq(S)
    PROVE  /\ s \o t \in Seq(S) /\ Len(s \o t) = Len(s) + Len(t)
           /\ \A i \in 1 .. Len(s) + Len(t) : (s \o t)[i] = IF i <= Len(s) THEN s[i] ELSE t[i - Len(s)]
OBVIOUS

LEMMA SubSeqIs ==
    ASSUME NEW S, NEW s \in Seq(S), NEW u \in Nat, Len(s) = u, NEW m \in Nat, m <= u
    PROVE  /\ SubSeq(s, m + 1, u) \in Seq(S)
           /\ Len(SubSeq(s, m + 1, u)) = u - m
           /\ \A i \in 1 .. u - m : SubSeq(s, m + 1, u)[i] = s[m + i]
OBVIOUS

LEMMA LayoutSeq ==
    ASSUME NEW r, Good(r)
    PROVE  /\ Layout(r) \in Seq(0 .. r.size - 1)
           /\ Len(Layout(r)) = Used(r)
           /\ \A i \in 1 .. Used(r) : Layout(r)[i] = ByteAt(r, i)
<1>0. /\ r.start \in Nat /\ r.end \in Nat /\ r.write \in Nat
      /\ \/ r.start <= r.end /\ r.write = r.end /\ (r.start = r.end => r.start = 0)
         \/ r.write < r.start /\ r.start < r.end
      /\ r.end <= r.size /\ r.size \in Nat
  BY GoodFields
<1>1. Used(r) \in Nat
  BY UsedNat
<1>2. ASSUME NEW i \in 1 .. Used(r)
      PROVE  ByteAt(r, i) \in 0 .. r.size - 1
  BY <1>0 DEF Used, Wrapped, ByteAt
<1>3. Layout(r) \in [1 .. Used(r) -> 0 .. r.size - 1]
  BY <1>2 DEF Layout
<1>4. Layout(r) \in Seq(0 .. r.size - 1) /\ Len(Layout(r)) = Used(r)
  BY <1>1, <1>3, FunctionIsSeq, Zenon
<1> QED
  BY <1>4, Zenon DEF Layout

LEMMA LayoutDistinct ==
    ASSUME NEW r, Good(r), NEW i \in 1 .. Used(r), NEW j \in 1 .. Used(r),
           Layout(r)[i] = Layout(r)[j]
    PROVE  i = j
<1>0. /\ r.start \in Nat /\ r.end \in Nat /\ r.write \in Nat
      /\ \/ r.start <= r.end /\ r.write = r.end
         \/ r.write < r.start /\ r.start < r.end
  BY GoodFields
<1>1. ByteAt(r, i) = ByteAt(r, j)
  BY LayoutSeq
<1>2. CASE Wrapped(r)
  BY <1>0, <1>1, <1>2 DEF Used, Wrapped, ByteAt
<1>3. CASE ~Wrapped(r)
  BY <1>0, <1>1, <1>3 DEF Used, Wrapped, ByteAt
<1> QED
  BY <1>2, <1>3

LEMMA SameFieldsSameLayout ==
    ASSUME NEW r, NEW t, Used(t) = Used(r), t.start = r.start, t.end = r.end
    PROVE  Layout(t) = Layout(r)
BY DEF Layout, ByteAt

\* A reservation leaves the bytes in use alone.
LEMMA LayoutReserve ==
    ASSUME NEW r, Good(r), NEW n \in Nat \ {0}
    PROVE  /\ Good(Reserve(r, n)) /\ Reserve(r, n).size = r.size
           /\ Layout(Reserve(r, n)) = Layout(r)
<1>1. /\ Good(Reserve(r, n)) /\ Reserve(r, n).size = r.size
      /\ Used(Reserve(r, n)) = Used(r)
      /\ Reserve(r, n).start = r.start
      /\ Reserve(r, n).end = r.end
  BY ReserveGood
<1>2. Layout(Reserve(r, n)) = Layout(r)
  BY <1>1, SameFieldsSameLayout, Zenon
<1> QED
  BY <1>1, <1>2

\* An allocation adds its block behind the bytes in use.
LEMMA AllocAdds ==
    ASSUME NEW r, Good(r), NEW n \in Nat \ {0}, Fits(r, n)
    PROVE  /\ \A i \in 1 .. Used(r) : Layout(Alloc(r, n))[i] = Layout(r)[i]
           /\ \A i \in 1 .. n : Layout(Alloc(r, n))[Used(r) + i] = Place(r, n) + i - 1
<1> DEFINE p == Place(r, n)
           a == Alloc(r, n)
<1>1. p \in Nat /\ p + n <= r.size
  BY PlaceInside DEF Fits
<1>2. /\ Good(a) /\ Used(a) = Used(r) + n /\ Used(r) \in Nat
      /\ a.start = r.start
      /\ \/ Wrapped(r) /\ p = r.write /\ p + n < r.start /\ a.end = r.end
         \/ ~Wrapped(r) /\ p = r.write /\ p + n <= r.size /\ a.end = p + n
         \/ ~Wrapped(r) /\ p = 0 /\ n < r.start /\ r.write # r.start /\ a.end = r.end
  BY AllocCases, AllocGood, UsedNat
<1>3. /\ r.start \in Nat /\ r.end \in Nat /\ r.write \in Nat
      /\ \/ r.start <= r.end /\ r.write = r.end /\ (r.start = r.end => r.start = 0)
         \/ r.write < r.start /\ r.start < r.end
  BY GoodFields
<1> HIDE DEF p, a
<1>4. ASSUME NEW i \in 1 .. Used(r)
      PROVE  Layout(a)[i] = Layout(r)[i]
  <2>1. i \in 1 .. Used(a)
    BY <1>2
  <2>2. Layout(a)[i] = ByteAt(a, i) /\ Layout(r)[i] = ByteAt(r, i)
    BY <1>2, <2>1, LayoutSeq
  <2> QED
    BY <1>1, <1>2, <1>3, <2>2 DEF Used, Wrapped, ByteAt
<1>5. ASSUME NEW i \in 1 .. n
      PROVE  Layout(a)[Used(r) + i] = p + i - 1
  <2>1. Used(r) + i \in 1 .. Used(a)
    BY <1>2
  <2>2. Layout(a)[Used(r) + i] = ByteAt(a, Used(r) + i)
    BY <1>2, <2>1, LayoutSeq
  <2> QED
    BY <1>1, <1>2, <1>3, <2>2 DEF Used, Wrapped, ByteAt
<1> QED
  BY <1>4, <1>5 DEF a, p

\* A free takes away the oldest of the bytes in use.
LEMMA FreeDrops ==
    ASSUME NEW r, Good(r), NEW n \in Nat \ {0}
    PROVE  LET k == Used(r) - Used(Free(r, n))
           IN  /\ k \in Nat /\ k <= Used(r)
               /\ \A i \in 1 .. Used(Free(r, n)) : Layout(Free(r, n))[i] = Layout(r)[k + i]
<1> DEFINE f == Free(r, n)
           k == Used(r) - Used(f)
<1>1. /\ f \in Rings(Nat \ {0}) /\ f.size = r.size
      /\ \/ /\ n < r.end - r.start
            /\ f.start = r.start + n /\ f.end = r.end /\ f.write = r.write
         \/ /\ Wrapped(r) /\ n >= r.end - r.start /\ n < Used(r)
            /\ f.start = n - (r.end - r.start) /\ f.end = r.write /\ f.write = r.write
         \/ /\ n = Used(r)
            /\ f.start = 0 /\ f.end = 0 /\ f.write = 0
         \/ /\ n > Used(r) /\ Wrapped(r)
            /\ f.start = 0 /\ f.end = r.write /\ f.write = r.write
         \/ /\ n > Used(r) /\ ~Wrapped(r) /\ f = r
  BY FreeCases
<1>2. /\ r.start \in Nat /\ r.end \in Nat /\ r.write \in Nat
      /\ \/ r.start <= r.end /\ r.write = r.end /\ (r.start = r.end => r.start = 0)
         \/ r.write < r.start /\ r.start < r.end
  BY GoodFields
<1>3. /\ Good(f) /\ Used(r) \in Nat /\ Used(f) \in Nat
      /\ n <= Used(r) => Used(f) = Used(r) - n
      /\ n > Used(r) => Used(f) = IF Wrapped(r) THEN r.write ELSE Used(r)
  BY FreeGood, UsedNat
<1> HIDE DEF f
<1>4. k \in Nat /\ k <= Used(r)
  BY <1>2, <1>3 DEF Used, Wrapped
<1>5. ASSUME NEW i \in 1 .. Used(f)
      PROVE  Layout(f)[i] = Layout(r)[k + i]
  <2>1. Layout(f)[i] = ByteAt(f, i)
    BY <1>3, LayoutSeq
  <2>2. k + i \in 1 .. Used(r)
    BY <1>3, <1>4
  <2>3. Layout(r)[k + i] = ByteAt(r, k + i)
    BY <2>2, LayoutSeq
  <2>4. CASE f = r
    BY <1>3, <2>4
  <2>5. CASE f # r
    BY <1>1, <1>2, <1>3, <2>1, <2>3, <2>5 DEF Used, Wrapped, ByteAt
  <2> QED
    BY <2>4, <2>5
<1> QED
  BY <1>4, <1>5 DEF f

(* The bytes a record describes, as sequences *)

LEMMA LayoutAlloc ==
    ASSUME NEW r, Good(r), NEW n \in Nat \ {0}, Fits(r, n)
    PROVE  Layout(Alloc(r, n)) = Layout(r) \o Block(Place(r, n), n)
<1> DEFINE p == Place(r, n)
           a == Alloc(r, n)
           S == 0 .. r.size - 1
<1>1. p \in Nat /\ p + n <= r.size /\ r.size \in Nat
  BY PlaceInside, GoodFields DEF Fits
<1>2. Good(a) /\ a.size = r.size /\ Used(a) = Used(r) + n /\ Used(r) \in Nat
  BY AllocGood, UsedNat
<1>3. /\ \A i \in 1 .. Used(r) : Layout(a)[i] = Layout(r)[i]
      /\ \A i \in 1 .. n : Layout(a)[Used(r) + i] = p + i - 1
  BY AllocAdds
<1> HIDE DEF p, a
<1>4. /\ Block(p, n) \in Seq(S) /\ Len(Block(p, n)) = n
      /\ \A i \in 1 .. n : Block(p, n)[i] = p + i - 1
  <2>1. \A i \in 1 .. n : p + i - 1 \in S
    BY <1>1
  <2> QED
    BY <2>1 DEF Block
<1>5. /\ Layout(r) \in Seq(S) /\ Len(Layout(r)) = Used(r)
      /\ Layout(a) \in Seq(S) /\ Len(Layout(a)) = Used(r) + n
  BY <1>2, LayoutSeq
<1>6. /\ Layout(r) \o Block(p, n) \in Seq(S)
      /\ Len(Layout(r) \o Block(p, n)) = Used(r) + n
      /\ \A i \in 1 .. Used(r) + n :
            (Layout(r) \o Block(p, n))[i] =
                IF i <= Used(r) THEN Layout(r)[i] ELSE Block(p, n)[i - Used(r)]
  <2> HIDE DEF S
  <2>1. ASSUME NEW s \in Seq(S), NEW t \in Seq(S), NEW m \in Nat, Len(s) = m, Len(t) = n
        PROVE  /\ s \o t \in Seq(S) /\ Len(s \o t) = m + n
               /\ \A i \in 1 .. m + n : (s \o t)[i] = IF i <= m THEN s[i] ELSE t[i - m]
    BY <2>1, ConcatIs, ZenonT(40)
  <2>2. /\ Layout(r) \in Seq(S) /\ Block(p, n) \in Seq(S) /\ Used(r) \in Nat
        /\ Len(Layout(r)) = Used(r) /\ Len(Block(p, n)) = n
    BY <1>2, <1>4, <1>5
  <2> QED
    BY <2>1, <2>2, Zenon
<1>7. ASSUME NEW i \in 1 .. Used(r) + n
      PROVE  Layout(a)[i] = (Layout(r) \o Block(p, n))[i]
  <2>1. CASE i \in 1 .. Used(r)
    BY <1>2, <1>3, <1>6, <2>1
  <2>2. CASE i \notin 1 .. Used(r)
    <3>1. i - Used(r) \in 1 .. n /\ ~(i <= Used(r)) /\ Used(r) + (i - Used(r)) = i
      BY <1>2, <2>2
    <3>2. Layout(a)[Used(r) + (i - Used(r))] = p + (i - Used(r)) - 1
      BY <1>3, <3>1
    <3>3. Block(p, n)[i - Used(r)] = p + (i - Used(r)) - 1
      BY <1>4, <3>1
    <3> QED
      BY <1>6, <3>1, <3>2, <3>3
  <2> QED
    BY <2>1, <2>2, Zenon
<1>8. Layout(a) = Layout(r) \o Block(p, n)
  BY <1>5, <1>6, <1>7, SameElements, SMTT(30)
<1> QED
  BY <1>8 DEF a, p

LEMMA LayoutFree ==
    ASSUME NEW r, Good(r), NEW n \in Nat \ {0}
    PROVE  Layout(Free(r, n)) =
              SubSeq(Layout(r), Used(r) - Used(Free(r, n)) + 1, Used(r))
<1> DEFINE f == Free(r, n)
           k == Used(r) - Used(f)
           S == 0 .. r.size - 1
<1>3. Good(f) /\ f.size = r.size /\ Used(r) \in Nat /\ Used(f) \in Nat
  BY FreeGood, UsedNat
<1>4. k \in Nat /\ k <= Used(r) /\ \A i \in 1 .. Used(f) : Layout(f)[i] = Layout(r)[k + i]
  BY FreeDrops
<1> HIDE DEF f
<1>5. /\ Layout(r) \in Seq(S) /\ Len(Layout(r)) = Used(r)
      /\ Layout(f) \in Seq(S) /\ Len(Layout(f)) = Used(f)
  BY <1>3, LayoutSeq
<1>6. /\ SubSeq(Layout(r), k + 1, Used(r)) \in Seq(S)
      /\ Len(SubSeq(Layout(r), k + 1, Used(r))) = Used(f)
      /\ \A i \in 1 .. Used(f) : SubSeq(Layout(r), k + 1, Used(r))[i] = Layout(r)[k + i]
  <2> HIDE DEF S
  <2>1. ASSUME NEW s \in Seq(S), Len(s) = Used(r), NEW m \in Nat, m <= Used(r)
        PROVE  /\ SubSeq(s, m + 1, Used(r)) \in Seq(S)
               /\ Len(SubSeq(s, m + 1, Used(r))) = Used(r) - m
               /\ \A i \in 1 .. Used(r) - m : SubSeq(s, m + 1, Used(r))[i] = s[m + i]
    BY <1>3, <2>1, SubSeqIs, SMTT(30)
  <2>2. Used(r) - k = Used(f)
    BY <1>3
  <2> HIDE DEF k
  <2> QED
    BY <1>4, <1>5, <2>1, <2>2
<1>8. Layout(f) = SubSeq(Layout(r), k + 1, Used(r))
  <2> HIDE DEF k
  <2> QED
    BY <1>4, <1>5, <1>6, SameElements, Zenon
<1> QED
  BY <1>8 DEF f

-----------------------------------------------------------------------------
(* A reservation and the operations that follow it *)

LEMMA ReserveHonours ==
    ASSUME NEW r, Good(r), NEW n \in Nat \ {0}, Fits(r, n)
    PROVE  Honours(Reserve(r, n), Place(r, n))
<1> DEFINE t == Reserve(r, n)
           p == Place(r, n)
<1>1. /\ t.start = r.start /\ t.write = p /\ t.reserved = n /\ t.size = r.size
  BY ReserveGood, GoodFields
<1>2. r.start \in Nat /\ r.write \in Nat /\ r.size \in Nat
  BY GoodFields
<1>3. \/ Wrapped(r) /\ p = r.write /\ p + n < r.start
      \/ ~Wrapped(r) /\ p = r.write /\ p + n <= r.size
      \/ ~Wrapped(r) /\ p = 0 /\ n < r.start
  <2>1. p # NoRoom
    BY DEF Fits
  <2> QED
    BY <1>1, <2>1 DEF Place
<1> HIDE DEF t, p
<1>4. ASSUME NEW m \in 1 .. n
      PROVE  Place(t, m) = p
  BY <1>1, <1>2, <1>3 DEF Place, Wrapped
<1> QED
  BY <1>1, <1>4 DEF Honours, t, p

LEMMA AllocHonours ==
    ASSUME NEW r, Good(r), NEW n \in Nat \ {0}, NEW h, h # NoRoom, ~r.closed,
           Honours(r, h), Alloc(r, n).reserved # 0
    PROVE  Fits(r, n) /\ Honours(Alloc(r, n), Place(r, n) + n)
<1> DEFINE p == Place(r, n)
           a == Alloc(r, n)
<1>1. a.reserved = Shrunk(r, n)
  BY AllocCases, RefusedAlloc
<1>2. Shrunk(r, n) \in Nat /\ r.reserved = Shrunk(r, n) + n
  BY <1>1, ShrunkNat
<1>3. n \in 1 .. r.reserved
  BY <1>2
<1>4. \A m \in 1 .. r.reserved : Place(r, m) = h
  BY DEF Honours
<1>5. Fits(r, n) /\ p = h
  BY <1>3, <1>4 DEF Fits
<1>6. /\ a.size = r.size /\ a.start = r.start /\ a.write = p + n
      /\ \/ Wrapped(r) /\ p = r.write /\ p + n < r.start /\ a.end = r.end
         \/ ~Wrapped(r) /\ p = r.write /\ p + n <= r.size /\ a.end = p + n
         \/ ~Wrapped(r) /\ p = 0 /\ n < r.start /\ r.write # r.start /\ a.end = r.end
  BY <1>5, AllocCases
<1>7. /\ r.start \in Nat /\ r.write \in Nat /\ r.size \in Nat
      /\ p \in Nat
  BY <1>5, GoodFields, PlaceInside DEF Fits
<1> HIDE DEF a, p
<1>8. ASSUME NEW m \in 1 .. Shrunk(r, n)
      PROVE  Place(a, m) = p + n
  <2>1. m + n \in 1 .. r.reserved
    BY <1>2
  <2>2. Place(r, m + n) = p
    BY <1>4, <1>5, <2>1
  <2>3. CASE Wrapped(r)
    <3>1. r.write + (m + n) < r.start
      <4>1. CASE ~(r.write + (m + n) < r.start)
        BY <1>7, <2>2, <2>3, <4>1 DEF Place, NoRoom
      <4> QED
        BY <4>1
    <3> QED
      <4>1. a.write = p + n /\ a.start = r.start /\ p = r.write
        BY <1>6, <2>3
      <4>2. m \in Nat /\ a.write + m < a.start /\ a.write < a.start
        BY <1>2, <1>7, <3>1, <4>1
      <4> QED
        BY <4>1, <4>2 DEF Place, Wrapped
  <2>4. CASE ~Wrapped(r)
    <3>1. \/ r.write + (m + n) <= r.size /\ p = r.write
          \/ p = 0 /\ m + n < r.start
      <4>1. Place(r, m + n) # NoRoom
        BY <1>7, <2>2 DEF NoRoom
      <4> QED
        BY <1>7, <2>2, <2>4, <4>1 DEF Place
    <3> QED
      <4>1. /\ a.write = p + n /\ a.start = r.start /\ a.size = r.size /\ m \in Nat
            /\ r.start <= r.write
        BY <1>2, <1>6, <1>7, <2>4 DEF Wrapped
      <4>2. CASE r.write + (m + n) <= r.size /\ p = r.write
        <5>1. ~(a.write < a.start) /\ a.write + m <= a.size
          BY <1>7, <4>1, <4>2
        <5> QED
          BY <1>7, <4>1, <5>1 DEF Place, Wrapped
      <4>3. CASE p = 0 /\ m + n < r.start
        <5>1. a.write < a.start /\ a.write + m < a.start
          BY <1>7, <4>1, <4>3
        <5> QED
          BY <1>7, <4>1, <5>1 DEF Place, Wrapped
      <4> QED
        BY <3>1, <4>2, <4>3
  <2> QED
    BY <2>3, <2>4
<1>9. Honours(a, p + n)
  BY <1>1, <1>8 DEF Honours, a
<1> QED
  BY <1>5, <1>9 DEF a, p

LEMMA FreeHonours ==
    ASSUME NEW r, Good(r), NEW n \in Nat \ {0}, n # Used(r), NEW h, Honours(r, h)
    PROVE  Honours(Free(r, n), h)
<1> DEFINE f == Free(r, n)
<1>1. /\ f.size = r.size /\ f.reserved = r.reserved /\ f.closed = r.closed
      /\ \/ /\ n < r.end - r.start
            /\ f.start = r.start + n /\ f.end = r.end /\ f.write = r.write
         \/ /\ Wrapped(r) /\ n >= r.end - r.start /\ n < Used(r)
            /\ f.start = n - (r.end - r.start) /\ f.end = r.write /\ f.write = r.write
         \/ /\ n > Used(r) /\ Wrapped(r)
            /\ f.start = 0 /\ f.end = r.write /\ f.write = r.write
         \/ /\ n > Used(r) /\ ~Wrapped(r) /\ f = r
  BY FreeCases
<1>2. /\ r.start \in Nat /\ r.end \in Nat /\ r.write \in Nat
      /\ \/ r.start <= r.end /\ r.write = r.end /\ (r.start = r.end => r.start = 0)
         \/ r.write < r.start /\ r.start < r.end
      /\ r.end <= r.size /\ r.size \in Nat
  BY GoodFields
<1>3. CASE f = r
  BY <1>3
<1>4. CASE f # r
  <2> HIDE DEF f
  <2>1. ASSUME NEW m \in Nat \ {0}, h # NoRoom, Place(r, m) = h
        PROVE  Place(f, m) = h
    <3>1. CASE Wrapped(r)
      <4>1. h = r.write /\ r.write + m < r.start
        BY <1>2, <2>1, <3>1 DEF Place
      <4>2. CASE f.start = r.start + n
        BY <1>1, <1>2, <1>4, <3>1, <4>1, <4>2 DEF Place, Wrapped
      <4>3. CASE f.start # r.start + n
        <5>1. f.start <= f.write
          BY <1>1, <1>2, <1>4, <3>1, <4>3 DEF Used, Wrapped
        <5> QED
          BY <1>1, <1>2, <1>4, <3>1, <4>1, <5>1 DEF Place, Wrapped
      <4> QED
        BY <4>2, <4>3
    <3>2. CASE ~Wrapped(r)
      <4>1. f.start = r.start + n /\ f.write = r.write /\ r.start + n < r.end /\ r.write = r.end
        BY <1>1, <1>2, <1>4, <3>2 DEF Wrapped
      <4> QED
        BY <1>1, <1>2, <2>1, <3>2, <4>1 DEF Place, Wrapped
    <3> QED
      BY <3>1, <3>2
  <2> QED
    BY <1>1, <2>1, GoodFields DEF Honours, f
<1> QED
  BY <1>3, <1>4

LEMMA EmptyingHonours ==
    ASSUME NEW r, Good(r), NEW n \in Nat \ {0}, n = Used(r), NEW h, h # NoRoom, Honours(r, h)
    PROVE  Honours(Free(r, n), 0)
<1> DEFINE f == Free(r, n)
<1>1. /\ f.size = r.size /\ f.reserved = r.reserved /\ f.closed = r.closed
      /\ f.start = 0 /\ f.write = 0
  BY UsedNat, FreeCases
<1>2. /\ r.start \in Nat /\ r.end \in Nat /\ r.write \in Nat /\ r.reserved \in Nat
      /\ \/ r.start <= r.end /\ r.write = r.end /\ (r.start = r.end => r.start = 0)
         \/ r.write < r.start /\ r.start < r.end
      /\ r.end <= r.size /\ r.size \in Nat
  BY GoodFields
<1> HIDE DEF f
<1>3. ASSUME ~r.closed, NEW m \in 1 .. r.reserved
      PROVE  Place(f, m) = 0
  <2>1. Place(r, m) # NoRoom
    BY <1>3 DEF Honours
  <2>2. m \in Nat
    BY <1>2
  <2>3. \/ r.write + m < r.start
        \/ r.write + m <= r.size
        \/ m < r.start
    BY <2>1 DEF Place
  <2>4. m <= r.size
    BY <1>2, <2>2, <2>3
  <2>5. ~Wrapped(f) /\ f.write + m <= f.size /\ f.write = 0
    BY <1>1, <2>2, <2>4 DEF Wrapped
  <2> QED
    BY <2>5 DEF Place
<1> QED
  BY <1>1, <1>3 DEF Honours, f

-----------------------------------------------------------------------------
(* The specification *)

\* What Inv says of one buffer: its record, its bytes in use, its reservation.
OneBuffer(r, l, h) ==
    /\ Good(r) /\ r.size = Size
    /\ l = Layout(r)
    /\ h \in {NoRoom} \cup 0 .. Size
    /\ Honours(r, h)

IInv ==
    /\ rb \in [Buffers -> Rings({Size})]
    /\ gone \in [Buffers -> BOOLEAN]
    /\ live \in [Buffers -> Seq(0 .. Size - 1)]
    /\ held \in [Buffers -> {NoRoom} \cup 0 .. Size]
    /\ emptied \in [Buffers -> BOOLEAN]
    /\ \A b \in Buffers : OneBuffer(rb[b], live[b], Pointer(held[b], emptied[b]))

LEMMA PointerType ==
    ASSUME NEW h \in {NoRoom} \cup 0 .. Size, NEW e
    PROVE  Pointer(h, e) \in {NoRoom} \cup 0 .. Size
BY SizeAssumption DEF Pointer

LEMMA IInvIsInv == IInv <=> Inv
<1>1. \A r \in Rings({Size}) : r.size = Size /\ r \in Rings(Nat \ {0})
  BY SizeAssumption DEF Rings
<1>2. ASSUME held \in [Buffers -> {NoRoom} \cup 0 .. Size]
      PROVE  \A b \in Buffers : Pointer(held[b], emptied[b]) \in {NoRoom} \cup 0 .. Size
  BY <1>2, PointerType
<1> QED
  BY <1>1, <1>2, Zenon
     DEF IInv, Inv, TypeOK, ShapeHolds, FieldsDescribeLive, ReservationHonoured, OneBuffer, Good

LEMMA OneBufferTypes ==
    ASSUME NEW r, NEW l, NEW h, OneBuffer(r, l, h)
    PROVE  r \in Rings({Size}) /\ l \in Seq(0 .. Size - 1) /\ h \in {NoRoom} \cup 0 .. Size
BY LayoutSeq DEF OneBuffer, Good, Rings

(* A step that changes one buffer only *)
LEMMA ChangeOne ==
    ASSUME IInv, NEW b \in Buffers, NEW r, NEW l,
           NEW h \in {NoRoom} \cup 0 .. Size, NEW e \in BOOLEAN, OneBuffer(r, l, Pointer(h, e)),
           gone' \in [Buffers -> BOOLEAN],
           rb' = [rb EXCEPT ![b] = r],
           live' = [live EXCEPT ![b] = l],
           held' = [held EXCEPT ![b] = h],
           emptied' = [emptied EXCEPT ![b] = e]
    PROVE  IInv'
<1>1. r \in Rings({Size}) /\ l \in Seq(0 .. Size - 1)
  BY OneBufferTypes, Zenon
<1>2. /\ rb' \in [Buffers -> Rings({Size})]
      /\ live' \in [Buffers -> Seq(0 .. Size - 1)]
      /\ held' \in [Buffers -> {NoRoom} \cup 0 .. Size]
      /\ emptied' \in [Buffers -> BOOLEAN]
  BY <1>1, Zenon DEF IInv
<1>3. ASSUME NEW c \in Buffers
      PROVE  OneBuffer(rb'[c], live'[c], Pointer(held'[c], emptied'[c]))
  <2>1. CASE c = b
    <3>1. rb'[c] = r /\ live'[c] = l /\ held'[c] = h /\ emptied'[c] = e
      BY <2>1 DEF IInv
    <3> QED
      BY <3>1
  <2>2. CASE c # b
    <3>1. /\ rb'[c] = rb[c] /\ live'[c] = live[c] /\ held'[c] = held[c]
          /\ emptied'[c] = emptied[c]
      BY <2>2 DEF IInv
    <3>2. OneBuffer(rb[c], live[c], Pointer(held[c], emptied[c]))
      BY DEF IInv
    <3> QED
      BY <3>1, <3>2
  <2> QED
    BY <2>1, <2>2
<1> QED
  BY <1>2, <1>3, Zenon DEF IInv

LEMMA SameLive ==
    ASSUME IInv, NEW b \in Buffers, live' = live
    PROVE  live' = [live EXCEPT ![b] = live[b]]
BY DEF IInv

LEMMA SameHeld ==
    ASSUME IInv, NEW b \in Buffers, held' = held
    PROVE  held' = [held EXCEPT ![b] = held[b]]
BY DEF IInv

LEMMA SameEmptied ==
    ASSUME IInv, NEW b \in Buffers, emptied' = emptied
    PROVE  emptied' = [emptied EXCEPT ![b] = emptied[b]]
BY DEF IInv

LEMMA InvTypes ==
    ASSUME IInv, NEW b \in Buffers
    PROVE  /\ OneBuffer(rb[b], live[b], Pointer(held[b], emptied[b]))
           /\ Good(rb[b]) /\ rb[b].size = Size /\ live[b] = Layout(rb[b])
           /\ held[b] \in {NoRoom} \cup 0 .. Size /\ emptied[b] \in BOOLEAN
           /\ Honours(rb[b], Pointer(held[b], emptied[b]))
BY DEF IInv, OneBuffer

LEMMA ReserveKeepsInv ==
    ASSUME IInv, NEW b \in Buffers, NEW n \in Nat \ {0}, ReserveBytes(b, n)
    PROVE  IInv'
<1> DEFINE h == IF Fits(rb[b], n) THEN Place(rb[b], n) ELSE held[b]
           e == emptied[b] /\ ~Fits(rb[b], n)
<1>1. /\ Good(rb[b]) /\ rb[b].size = Size /\ live[b] = Layout(rb[b])
      /\ held[b] \in {NoRoom} \cup 0 .. Size /\ emptied[b] \in BOOLEAN
      /\ Honours(rb[b], Pointer(held[b], emptied[b]))
  BY InvTypes
<1>2. /\ Good(Reserve(rb[b], n)) /\ Reserve(rb[b], n).size = Size
      /\ Layout(Reserve(rb[b], n)) = Layout(rb[b])
  BY <1>1, LayoutReserve
<1>3. h \in {NoRoom} \cup 0 .. Size /\ Honours(Reserve(rb[b], n), Pointer(h, e))
  <2>1. CASE Fits(rb[b], n)
    <3>1. Pointer(h, e) = Place(rb[b], n) /\ h = Place(rb[b], n)
      BY <2>1 DEF Pointer
    <3>2. Place(rb[b], n) \in Nat /\ Place(rb[b], n) + n <= Size
      BY <1>1, <2>1, PlaceInside DEF Fits
    <3>3. Place(rb[b], n) \in 0 .. Size
      BY <3>2, SizeAssumption
    <3> QED
      BY <1>1, <2>1, <3>1, <3>3, ReserveHonours
  <2>2. CASE ~Fits(rb[b], n)
    <3>1. h = held[b] /\ e = emptied[b] /\ Reserve(rb[b], n) = rb[b]
      BY <1>1, <2>2 DEF Reserve
    <3> QED
      BY <1>1, <3>1, Zenon
  <2> QED
    BY <2>1, <2>2
<1>4. e \in BOOLEAN
  OBVIOUS
<1>5. OneBuffer(Reserve(rb[b], n), live[b], Pointer(h, e))
  <2> HIDE DEF h, e
  <2> QED
    BY <1>1, <1>2, <1>3, PointerType, Zenon DEF OneBuffer
<1>6. /\ rb' = [rb EXCEPT ![b] = Reserve(rb[b], n)]
      /\ held' = [held EXCEPT ![b] = h]
      /\ emptied' = [emptied EXCEPT ![b] = e]
      /\ live' = [live EXCEPT ![b] = live[b]]
      /\ gone' \in [Buffers -> BOOLEAN]
  BY SameLive DEF ReserveBytes, IInv
<1> HIDE DEF h, e
<1> QED
  BY <1>3, <1>4, <1>5, <1>6, ChangeOne, Zenon

LEMMA AllocKeepsInv ==
    ASSUME IInv, NEW b \in Buffers, NEW n \in Nat \ {0}, AllocBytes(b, n)
    PROVE  IInv'
<1> DEFINE r == rb[b]
           p == Place(r, n)
           ok == Fits(r, n)
           a == Alloc(r, n)
           l == IF ok THEN live[b] \o Block(p, n) ELSE live[b]
           h == IF r.closed THEN held[b]
                ELSE IF a.reserved = 0 \/ held[b] = NoRoom THEN NoRoom
                ELSE IF ok THEN p + n ELSE held[b]
           e == emptied[b] /\ r.closed
<1>1. /\ Good(r) /\ r.size = Size /\ live[b] = Layout(r)
      /\ held[b] \in {NoRoom} \cup 0 .. Size /\ emptied[b] \in BOOLEAN
      /\ Honours(r, Pointer(held[b], emptied[b]))
  BY InvTypes
<1>2. Good(a) /\ a.size = Size /\ l = Layout(a)
  <2>1. CASE ok
    BY <1>1, <2>1, AllocGood, LayoutAlloc, Zenon
  <2>2. CASE ~ok
    <3>1. Good(a) /\ a.size = Size /\ Used(a) = Used(r) /\ a.start = r.start /\ a.end = r.end
      BY <1>1, <2>2, RefusedAlloc
    <3>2. Layout(a) = Layout(r)
      BY SMTT(20), <3>1, SameFieldsSameLayout
    <3> QED
      BY <1>1, <2>2, <3>1, <3>2
  <2> QED
    BY <2>1, <2>2
<1>3. h \in {NoRoom} \cup 0 .. Size /\ Honours(a, Pointer(h, e))
  <2>1. CASE r.closed
    <3>1. h = held[b] /\ e = emptied[b] /\ a = r
      BY SMTT(20), <1>1, <2>1 DEF Alloc
    <3> QED
      BY <1>1, <3>1, Zenon
  <2>2. CASE ~r.closed /\ (a.reserved = 0 \/ held[b] = NoRoom)
    <3>1. h = NoRoom
      BY <2>2
    <3> QED
      BY <3>1 DEF Honours, Pointer
  <2>3. CASE ~r.closed /\ a.reserved # 0 /\ held[b] # NoRoom
    <3> HIDE DEF r, a, p, ok
    <3>0. Pointer(held[b], emptied[b]) # NoRoom
      BY <2>3 DEF Pointer, NoRoom
    <3>1. Fits(r, n) /\ Honours(a, p + n)
      BY <1>1, <2>3, <3>0, AllocHonours DEF p, a
    <3>2. p \in Nat /\ p + n <= Size
      BY <1>1, <3>1, PlaceInside DEF Fits, p
    <3>3. p + n \in 0 .. Size
      BY <3>2, SizeAssumption
    <3>4. h = p + n /\ Pointer(h, e) = h
      BY <2>3, <3>1 DEF ok, Pointer
    <3> QED
      BY <3>1, <3>3, <3>4
  <2> QED
    BY SMTT(20), <2>1, <2>2, <2>3
<1>4. /\ rb' = [rb EXCEPT ![b] = a]
      /\ live' = [live EXCEPT ![b] = l]
      /\ held' = [held EXCEPT ![b] = h]
      /\ emptied' = [emptied EXCEPT ![b] = e]
      /\ gone' \in [Buffers -> BOOLEAN]
  BY DEF AllocBytes, IInv
<1>5. e \in BOOLEAN
  OBVIOUS
<1> HIDE DEF l, h, a, e
<1>6. OneBuffer(a, l, Pointer(h, e))
  BY <1>2, <1>3, PointerType, Zenon DEF OneBuffer
<1> QED
  BY <1>3, <1>4, <1>5, <1>6, ChangeOne, Zenon

LEMMA FreeKeepsOne ==
    ASSUME NEW r, NEW l, NEW h, OneBuffer(r, l, h), NEW n \in Nat \ {0}
    PROVE  /\ n # Used(r) => OneBuffer(Free(r, n),
                                     SubSeq(l, Used(r) - Used(Free(r, n)) + 1, Len(l)), h)
           /\ n = Used(r) => OneBuffer(Free(r, n), SubSeq(l, n + 1, Len(l)), Pointer(h, TRUE))
           /\ n < Used(r) => OneBuffer(Free(r, n), SubSeq(l, n + 1, Len(l)), h)
<1>1. Good(r) /\ r.size = Size /\ l = Layout(r) /\ Len(l) = Used(r) /\ Used(r) \in Nat
  BY LayoutSeq, UsedNat DEF OneBuffer
<1>2. Good(Free(r, n)) /\ Free(r, n).size = Size /\ (n <= Used(r) => Used(Free(r, n)) = Used(r) - n)
  BY <1>1, FreeGood
<1>3. Layout(Free(r, n)) = SubSeq(l, Used(r) - Used(Free(r, n)) + 1, Len(l))
  BY <1>1, LayoutFree
<1>4. n <= Used(r) => Used(r) - Used(Free(r, n)) + 1 = n + 1
  BY <1>1, <1>2
<1>5. n # Used(r) => Honours(Free(r, n), h)
  BY <1>1, FreeHonours DEF OneBuffer
<1>6. /\ n = Used(r) => Honours(Free(r, n), Pointer(h, TRUE))
      /\ Pointer(h, TRUE) \in {NoRoom} \cup 0 .. Size
  <2>1. CASE h = NoRoom
    BY <2>1 DEF Honours, Pointer
  <2>2. CASE h # NoRoom
    <3>1. Pointer(h, TRUE) = 0
      BY <2>2 DEF Pointer
    <3>2. ASSUME n = Used(r) PROVE Honours(Free(r, n), 0)
      <4>1. Honours(r, h) /\ Good(r)
        BY DEF OneBuffer
      <4> QED
        BY <2>2, <3>2, <4>1, EmptyingHonours, Zenon
    <3>3. 0 \in 0 .. Size
      BY SizeAssumption
    <3> QED
      BY <3>1, <3>2, <3>3, Zenon
  <2> QED
    BY <2>1, <2>2, Zenon
<1>7. n < Used(r) => n <= Used(r) /\ n # Used(r)
  BY <1>1
<1>8. n = Used(r) => n <= Used(r)
  BY <1>1
<1> QED
  BY <1>2, <1>3, <1>4, <1>5, <1>6, <1>7, <1>8, Zenon DEF OneBuffer

LEMMA FreeKeepsInv ==
    ASSUME IInv, NEW b \in Buffers, NEW n \in Nat, FreeBytes(b, n)
    PROVE  IInv'
<1> DEFINE r == rb[b]
           l == SubSeq(live[b], n + 1, Len(live[b]))
           h == held[b]
           e == emptied[b] \/ n = Used(r)
<1>1. /\ OneBuffer(r, live[b], Pointer(h, emptied[b])) /\ Used(r) \in Nat
      /\ h \in {NoRoom} \cup 0 .. Size /\ emptied[b] \in BOOLEAN
  BY InvTypes, UsedNat
<1>2. n \in Nat \ {0} /\ n <= Used(r)
  BY <1>1 DEF FreeBytes
<1>3. /\ rb' = [rb EXCEPT ![b] = Free(r, n)]
      /\ live' = [live EXCEPT ![b] = l]
      /\ held' = [held EXCEPT ![b] = h]
      /\ emptied' = [emptied EXCEPT ![b] = e]
  BY SameHeld DEF FreeBytes
<1>4. gone' \in [Buffers -> BOOLEAN]
  <2>1. gone' = [gone EXCEPT ![b] = (n = Used(r) /\ rb[b].closed)] /\ gone \in [Buffers -> BOOLEAN]
    BY DEF FreeBytes, IInv
  <2> QED
    BY <2>1
<1>5. OneBuffer(Free(r, n), l, Pointer(h, e))
  <2>1. CASE n = Used(r)
    <3>1. Pointer(Pointer(h, emptied[b]), TRUE) = Pointer(h, e)
      BY <2>1 DEF Pointer, NoRoom
    <3>2. OneBuffer(Free(r, n), l, Pointer(Pointer(h, emptied[b]), TRUE))
      BY <1>1, <1>2, <2>1, FreeKeepsOne, Zenon
    <3> QED
      BY <3>1, <3>2, Zenon
  <2>2. CASE n # Used(r)
    <3>1. n < Used(r) /\ e = emptied[b]
      BY <1>1, <1>2, <2>2
    <3>2. OneBuffer(Free(r, n), l, Pointer(h, emptied[b]))
      BY <1>1, <1>2, <2>2, <3>1, FreeKeepsOne, Zenon
    <3> QED
      BY <3>1, <3>2
  <2> QED
    BY <2>1, <2>2
<1>6. e \in BOOLEAN
  BY <1>1
<1> HIDE DEF l, h, r, e
<1> QED
  BY <1>1, <1>3, <1>4, <1>5, <1>6, ChangeOne, Zenon

LEMMA OverFreeKeepsInv ==
    ASSUME IInv, NEW b \in Buffers, NEW n \in Nat \ {0}, FreeTooMany(b, n)
    PROVE  IInv'
<1> DEFINE r == rb[b]
           l == SubSeq(live[b], Used(r) - Used(Free(r, n)) + 1, Len(live[b]))
           h == held[b]
           e == emptied[b]
<1>1. /\ OneBuffer(r, live[b], Pointer(h, e)) /\ Used(r) \in Nat
      /\ h \in {NoRoom} \cup 0 .. Size /\ e \in BOOLEAN
  BY InvTypes, UsedNat
<1>2. n # Used(r)
  BY <1>1 DEF FreeTooMany
<1>3. OneBuffer(Free(r, n), l, Pointer(h, e))
  BY <1>1, <1>2, FreeKeepsOne, Zenon
<1>4. /\ rb' = [rb EXCEPT ![b] = Free(r, n)]
      /\ live' = [live EXCEPT ![b] = l]
      /\ held' = [held EXCEPT ![b] = h]
      /\ emptied' = [emptied EXCEPT ![b] = e]
      /\ gone' \in [Buffers -> BOOLEAN]
  BY SameHeld, SameEmptied DEF FreeTooMany, IInv
<1> HIDE DEF l, r, h, e
<1> QED
  BY <1>1, <1>3, <1>4, ChangeOne, Zenon

LEMMA CloseKeepsInv ==
    ASSUME IInv, NEW b \in Buffers, Close(b)
    PROVE  IInv'
<1> DEFINE c == Closed(rb[b])
           h == held[b]
           e == emptied[b]
<1>1. /\ OneBuffer(rb[b], live[b], Pointer(h, e)) /\ rb[b] \in Rings({Size})
      /\ h \in {NoRoom} \cup 0 .. Size /\ e \in BOOLEAN
  BY InvTypes, Zenon DEF IInv
<1>2. /\ c \in Rings({Size}) /\ c.size = rb[b].size /\ c.start = rb[b].start
      /\ c.end = rb[b].end /\ c.write = rb[b].write /\ c.closed
  BY <1>1 DEF Closed, Rings
<1> HIDE DEF c
<1>3. Good(c) /\ c.size = Size /\ Used(c) = Used(rb[b])
  BY <1>1, <1>2, SizeAssumption DEF OneBuffer, Good, Shape, Used, Wrapped, Rings
<1>4. Layout(c) = Layout(rb[b])
  BY <1>2, <1>3, SameFieldsSameLayout
<1>5. OneBuffer(c, live[b], Pointer(h, e))
  BY <1>1, <1>2, <1>3, <1>4 DEF OneBuffer, Honours
<1>6. /\ rb' = [rb EXCEPT ![b] = c]
      /\ live' = [live EXCEPT ![b] = live[b]]
      /\ held' = [held EXCEPT ![b] = h]
      /\ emptied' = [emptied EXCEPT ![b] = e]
      /\ gone' \in [Buffers -> BOOLEAN]
  BY SameHeld, SameLive, SameEmptied DEF Close, IInv, c
<1> HIDE DEF h, e
<1> QED
  BY <1>1, <1>5, <1>6, ChangeOne, Zenon

LEMMA SplitKeepsInv ==
    ASSUME IInv, NEW d \in Buffers, NEW n \in Nat \ {0}, NEW s \in Buffers, NEW m \in Nat,
           ReserveSplit(d, n, s, m)
    PROVE  IInv'
<1> DEFINE p == Place(rb[d], n)
           q == Moved(rb[s], rb[s].start, rb[s].end, rb[s].write, 0)
<1>1. /\ Good(rb[d]) /\ rb[d].size = Size /\ live[d] = Layout(rb[d]) /\ Fits(rb[d], n)
      /\ Good(rb[s]) /\ rb[s].size = Size /\ live[s] = Layout(rb[s])
      /\ gone' \in [Buffers -> BOOLEAN] /\ live' = live
  BY InvTypes, Zenon DEF IInv, ReserveSplit
<1>2. p \in {NoRoom} \cup 0 .. Size /\ OneBuffer(Reserve(rb[d], n), live[d], Pointer(p, FALSE))
  <2>1. /\ Good(Reserve(rb[d], n)) /\ Reserve(rb[d], n).size = Size
        /\ Layout(Reserve(rb[d], n)) = Layout(rb[d])
    BY <1>1, LayoutReserve
  <2>2. Honours(Reserve(rb[d], n), p)
    BY <1>1, ReserveHonours
  <2>3. p \in Nat /\ p + n <= Size
    BY <1>1, PlaceInside DEF Fits
  <2>4. p \in 0 .. Size
    BY <2>3, SizeAssumption
  <2>5. Pointer(p, FALSE) = p
    BY DEF Pointer
  <2> HIDE DEF p
  <2> QED
    BY <1>1, <2>1, <2>2, <2>4, <2>5, Zenon DEF OneBuffer
<1>3. OneBuffer(q, live[s], Pointer(NoRoom, FALSE))
  <2>1. /\ rb[s].size = Size /\ rb[s].start \in Nat /\ rb[s].end \in Nat
        /\ rb[s].write \in Nat /\ rb[s].closed \in BOOLEAN
    BY <1>1, GoodFields
  <2>2. /\ q \in Rings({Size}) /\ q.size = rb[s].size /\ q.start = rb[s].start
        /\ q.end = rb[s].end /\ q.write = rb[s].write
    BY SMTT(20), <2>1 DEF Moved, Rings
  <2> HIDE DEF q
  <2>3. Good(q) /\ q.size = Size /\ Used(q) = Used(rb[s])
    BY <1>1, <2>2, SizeAssumption DEF Good, Shape, Used, Wrapped, Rings
  <2>4. Layout(q) = Layout(rb[s])
    BY <2>2, <2>3, SameFieldsSameLayout
  <2> QED
    BY <1>1, <2>3, <2>4 DEF OneBuffer, Honours, Pointer
<1>4. CASE s = d
  <2>1. /\ rb' = [rb EXCEPT ![d] = Reserve(rb[d], n)]
        /\ held' = [held EXCEPT ![d] = p]
        /\ emptied' = [emptied EXCEPT ![d] = FALSE]
        /\ live' = [live EXCEPT ![d] = live[d]]
    BY <1>1, <1>4, SameLive, Zenon DEF ReserveSplit, IInv
  <2> HIDE DEF p
  <2> QED
    BY <1>1, <1>2, <2>1, ChangeOne, ZenonT(40)
<1>5. CASE s # d
  <2> HIDE DEF p, q
  <2>1. /\ rb' = [rb EXCEPT ![d] = Reserve(rb[d], n), ![s] = q]
        /\ held' = [held EXCEPT ![s] = NoRoom, ![d] = p]
        /\ emptied' = [emptied EXCEPT ![s] = FALSE, ![d] = FALSE]
    BY <1>5 DEF ReserveSplit, IInv, p, q
  <2>2. /\ Reserve(rb[d], n) \in Rings({Size}) /\ q \in Rings({Size})
    BY <1>2, <1>3, OneBufferTypes, Zenon
  <2>3. /\ rb' \in [Buffers -> Rings({Size})]
        /\ live' \in [Buffers -> Seq(0 .. Size - 1)]
        /\ held' \in [Buffers -> {NoRoom} \cup 0 .. Size]
        /\ emptied' \in [Buffers -> BOOLEAN]
    BY <1>1, <1>2, <2>1, <2>2, Zenon DEF IInv
  <2>4. ASSUME NEW c \in Buffers
        PROVE  OneBuffer(rb'[c], live'[c], Pointer(held'[c], emptied'[c]))
    <3>1. CASE c = d
      <4>1. /\ rb'[c] = Reserve(rb[d], n) /\ held'[c] = p /\ live'[c] = live[d]
            /\ ~emptied'[c] /\ emptied'[c] \in BOOLEAN
        BY <1>1, <1>5, <2>1, <3>1 DEF IInv
      <4> QED
        BY <1>2, <4>1 DEF Pointer
    <3>2. CASE c = s
      <4>1. /\ rb'[c] = q /\ held'[c] = NoRoom /\ live'[c] = live[s]
            /\ ~emptied'[c] /\ emptied'[c] \in BOOLEAN
        BY <1>1, <1>5, <2>1, <3>2, Zenon DEF IInv
      <4> QED
        BY <1>3, <4>1 DEF Pointer
    <3>3. CASE c # d /\ c # s
      <4>1. /\ rb'[c] = rb[c] /\ held'[c] = held[c] /\ live'[c] = live[c]
            /\ emptied'[c] = emptied[c]
        BY <1>1, <2>1, <3>3 DEF IInv
      <4>2. OneBuffer(rb[c], live[c], Pointer(held[c], emptied[c]))
        BY DEF IInv
      <4> QED
        BY <4>1, <4>2
    <3> QED
      BY <3>1, <3>2, <3>3
  <2> QED
    BY <1>1, <2>3, <2>4, Zenon DEF IInv
<1> QED
  BY <1>4, <1>5

LEMMA InitEstablishesInv == Init => IInv
<1> SUFFICES ASSUME Init PROVE IInv
  OBVIOUS
<1>1. NewRing(Size) \in Rings({Size}) /\ Layout(NewRing(Size)) = << >>
  BY NewRingGood, SizeAssumption DEF Good, Layout, NewRing, Rings
<1>2. OneBuffer(NewRing(Size), << >>, Pointer(NoRoom, FALSE))
  BY <1>1, NewRingGood, SizeAssumption DEF OneBuffer, Honours, Pointer
<1>3. << >> \in Seq(0 .. Size - 1)
  OBVIOUS
<1> QED
  BY <1>1, <1>2, <1>3, Zenon DEF Init, IInv

LEMMA StepKeepsInv == IInv /\ [Next]_vars => IInv'
<1> SUFFICES ASSUME IInv, [Next]_vars PROVE IInv'
  OBVIOUS
<1>1. CASE UNCHANGED vars
  BY <1>1, Zenon DEF IInv, vars
<1>2. ASSUME NEW b \in Buffers, NEW n \in Requests,
             \/ ReserveBytes(b, n) \/ AllocBytes(b, n) \/ FreeTooMany(b, n)
             \/ \E s \in Buffers, m \in Requests : ReserveSplit(b, n, s, m)
      PROVE  IInv'
  <2>1. n \in Nat \ {0} /\ Requests \subseteq Nat
    BY RequestsAssumption
  <2>2. CASE ReserveBytes(b, n)
    BY <2>1, <2>2, ReserveKeepsInv
  <2>3. CASE AllocBytes(b, n)
    BY <2>1, <2>3, AllocKeepsInv
  <2>4. CASE FreeTooMany(b, n)
    BY <2>1, <2>4, OverFreeKeepsInv
  <2>5. ASSUME NEW s \in Buffers, NEW m \in Requests, ReserveSplit(b, n, s, m)
        PROVE  IInv'
    BY <2>1, <2>5, SplitKeepsInv
  <2> QED
    BY <1>2, <2>2, <2>3, <2>4, <2>5
<1>3. ASSUME NEW b \in Buffers, NEW n \in 1 .. Size, FreeBytes(b, n)
      PROVE  IInv'
  <2>1. n \in Nat
    BY SizeAssumption
  <2> QED
    BY <1>3, <2>1, FreeKeepsInv
<1>4. ASSUME NEW b \in Buffers, Close(b)
      PROVE  IInv'
  BY <1>4, CloseKeepsInv
<1> QED
  BY <1>1, <1>2, <1>3, <1>4 DEF Next

\* The offsets of fr_ring_buffer_t always describe exactly the bytes the
\* caller has not freed, in the order of their allocation, and a reservation
\* stays good until it is used, for every size and every sequence of calls.
THEOREM InvariantHolds == Spec => []Inv
<1>1. Spec => []IInv
  BY InitEstablishesInv, StepKeepsInv, PTL DEF Spec
<1> QED
  BY <1>1, IInvIsInv, PTL

\* fr_ring_buffer_alloc never hands out a byte that is still in use.
THEOREM BytesAreNeverShared == Spec => []NoByteTwice
<1>1. ASSUME Inv PROVE NoByteTwice
  <2>1. ASSUME NEW b \in Buffers, NEW i \in 1 .. Len(live[b]), NEW j \in 1 .. Len(live[b]),
               live[b][i] = live[b][j]
        PROVE  i = j
    <3>1. Good(rb[b]) /\ live[b] = Layout(rb[b])
      BY <1>1, IInvIsInv DEF IInv, OneBuffer
    <3>2. Len(live[b]) = Used(rb[b])
      BY <3>1, LayoutSeq
    <3>3. i \in 1 .. Used(rb[b]) /\ j \in 1 .. Used(rb[b]) /\ Layout(rb[b])[i] = Layout(rb[b])[j]
      BY <2>1, <3>1, <3>2
    <3> QED
      BY <3>1, <3>3, LayoutDistinct
  <2> QED
    BY <2>1 DEF NoByteTwice
<1>2. Inv => NoByteTwice
  BY <1>1
<1> QED
  BY <1>2, InvariantHolds, PTL

\* An allocation within a reservation succeeds at the reserved pointer, which
\* fr_message_alloc asserts, whatever other data was allocated or freed since;
\* after a free that emptied the buffer it succeeds at its start.
THEOREM ReservationsAreHonoured == Spec => []ReservationHonoured
<1>1. Inv => ReservationHonoured
  BY DEF Inv
<1> QED
  BY <1>1, InvariantHolds, PTL
=============================================================================
