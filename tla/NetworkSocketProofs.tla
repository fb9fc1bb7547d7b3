------------------------ MODULE NetworkSocketProofs ------------------------
(***************************************************************************)
(* The sockets of a network thread are accounted for, for every number of  *)
(* listeners and packets and every length of a burst of reads.             *)
(*                                                                         *)
(* A packet that a handler works on is in no other place: the one that is  *)
(* being written is not the pending one of a socket, and the pending one   *)
(* belongs to the socket that holds it, so that a socket which is freed    *)
(* takes nothing from another.                                             *)
(***************************************************************************)
EXTENDS NetworkSocket, TLAPS

SocketRec == [state : {"none", "open", "freed"}, dead : BOOLEAN, blocked : BOOLEAN, outstanding : Int,
              cd : BOOLEAN, pending : Packets \cup {NULL}, written : 0 .. 1]
PacketRec == [at : Places, listen : Listeners \cup {NULL}, localized : BOOLEAN]
CallRec == [op : {"none", "read", "write"}, s : Listeners \cup {NULL}, n : 0 .. Burst + 1,
            cd : Packets \cup {NULL}]

\* The packets of s that s->outstanding counts.
Held(s) == {p \in Of(s, {"worker", "heap", "null"}) : ~packet[p].localized}

Typed ==
    /\ socket \in [Listeners -> SocketRec] /\ packet \in [Packets -> PacketRec] /\ call \in CallRec
    /\ posting \in BOOLEAN /\ exited \in BOOLEAN

CallSound ==
    /\ call.op = "none" => call = NoCall
    /\ call.op # "none" => call.s \in Listeners /\ Open(call.s)
    /\ call.op = "write" =>
        /\ call.cd \in Packets /\ packet[call.cd].listen = call.s
        /\ packet[call.cd].at \in {"writing", "pending"}
        /\ ~socket[call.s].dead /\ socket[call.s].pending = NULL

PacketsSound ==
    \A p \in Packets :
        /\ packet[p].at # "new" => packet[p].listen \in Listeners /\ socket[packet[p].listen].state # "none"
        /\ packet[p].at = "new" => packet[p].listen = NULL
        /\ packet[p].at = "worker" => ~packet[p].localized

\* A socket that is not open has nothing.
ClosedSound ==
    \A s \in Listeners :
        /\ ~Open(s) => socket[s] \in {Unused, Freed}
        /\ socket[s].state = "freed" /\ ~exited => Of(s, {"worker"}) = {}

Counts == \A s \in Listeners : Open(s) => socket[s].outstanding = Cardinality(Held(s))

\* What is pending belongs to the socket; between writes a live socket has a
\* write callback exactly when something is pending.
PendingOf(s) ==
    /\ socket[s].pending # NULL =>
         packet[socket[s].pending].at = "pending" /\ packet[socket[s].pending].listen = s
    /\ ~socket[s].dead /\ ~(call.op = "write" /\ call.s = s) =>
         /\ socket[s].blocked <=> socket[s].pending # NULL
         /\ socket[s].written > 0 => socket[s].pending # NULL

PendingSound == \A s \in Listeners : Open(s) => PendingOf(s)

IInv == Typed /\ CallSound /\ PacketsSound /\ ClosedSound /\ Counts /\ PendingSound

-----------------------------------------------------------------------------
(* What a socket holds *)

\* What the steps need of counting; CountingHolds below shows that it is so.
Counting ==
    \A S \in SUBSET Packets :
        /\ Cardinality(S) \in Nat /\ Cardinality(S) <= Cardinality(Packets)
        /\ Cardinality(S) = 0 <=> S = {}
        /\ \A x \in Packets : /\ x \notin S => Cardinality(S \cup {x}) = Cardinality(S) + 1
                             /\ x \in S => Cardinality(S \ {x}) = Cardinality(S) - 1

LEMMA CountAdd ==
    ASSUME Counting, NEW S \in SUBSET Packets, NEW x \in Packets, x \notin S
    PROVE  Cardinality(S \cup {x}) = Cardinality(S) + 1
BY DEF Counting

LEMMA HeldIs ==
    ASSUME NEW s
    PROVE  Held(s) \in SUBSET Packets
BY Zenon DEF Held, Of

\* Writes do not change what the sockets hold.
LEMMA WritesHold ==
    ASSUME \A p \in Packets :
             \/ packet'[p] = packet[p]
             \/ /\ packet[p].at \in {"writing", "pending"} /\ packet'[p].at \in {"pending", "done"}
                /\ packet'[p].listen = packet[p].listen
    PROVE  \A s : Held(s)' = Held(s) /\ Of(s, {"worker"})' = Of(s, {"worker"})
<1> SUFFICES ASSUME NEW s
             PROVE  Held(s)' = Held(s) /\ Of(s, {"worker"})' = Of(s, {"worker"})
  BY Zenon
<1>1. ASSUME NEW p \in Packets
      PROVE  /\ p \in Held(s)' <=> p \in Held(s)
             /\ p \in Of(s, {"worker"})' <=> p \in Of(s, {"worker"})
  <2>1. CASE packet'[p] = packet[p]
    BY <2>1, Zenon DEF Held, Of
  <2>2. CASE packet[p].at \in {"writing", "pending"} /\ packet'[p].at \in {"pending", "done"}
    BY <2>2, Zenon DEF Held, Of
  <2> QED
    BY <2>1, <2>2, Zenon
<1> QED
  BY <1>1, Zenon DEF Held, Of

\* A socket is freed when nothing of it is outstanding, so no worker has a
\* packet of it.
LEMMA NothingHeld ==
    ASSUME Counting, IInv, NEW s \in Listeners, Open(s), socket[s].outstanding = 0
    PROVE  Held(s) = {} /\ Of(s, {"worker"}) = {}
<1>1. Cardinality(Held(s)) = 0
  BY Zenon DEF IInv, Counts
<1>2. Held(s) = {}
  BY <1>1, HeldIs, Zenon DEF Counting
<1>3. ASSUME NEW p \in Of(s, {"worker"})
      PROVE  p \in Held(s)
  BY <1>3, Zenon DEF Held, Of, IInv, PacketsSound
<1> QED
  BY <1>2, <1>3, Zenon

LEMMA CountsKept ==
    ASSUME IInv, \A s : Held(s)' = Held(s),
           \A s \in Listeners : Open(s)' => Open(s) /\ socket'[s].outstanding = socket[s].outstanding
    PROVE  Counts'
<1> SUFFICES ASSUME NEW s \in Listeners, Open(s)'
             PROVE  socket'[s].outstanding = Cardinality(Held(s)')
  BY Zenon DEF Counts
<1>1. socket[s].outstanding = Cardinality(Held(s))
  BY Zenon DEF IInv, Counts
<1> QED
  BY <1>1, Zenon

-----------------------------------------------------------------------------
(* A socket dies *)

LEMMA UnusedIs ==
    /\ Unused \in SocketRec /\ Freed \in SocketRec
    /\ Unused.state = "none" /\ Freed.state = "freed"
    /\ Unused.outstanding = 0 /\ Freed.outstanding = 0 /\ Unused.pending = NULL
    /\ ~Unused.blocked /\ Unused.written = 0 /\ ~Unused.dead
<1>1. 0 \in Int /\ 0 \in 0 .. 1 /\ NULL \in Packets \cup {NULL}
  OBVIOUS
<1>2. /\ Unused \in SocketRec /\ Unused.state = "none" /\ Unused.outstanding = 0 /\ Unused.pending = NULL
      /\ ~Unused.blocked /\ Unused.written = 0 /\ ~Unused.dead
  BY <1>1, Zenon DEF Unused, SocketRec
<1>3. ASSUME NEW r \in SocketRec
      PROVE  /\ [r EXCEPT !.state = "freed"] \in SocketRec /\ [r EXCEPT !.state = "freed"].state = "freed"
             /\ [r EXCEPT !.state = "freed"].outstanding = r.outstanding
  BY Zenon DEF SocketRec
<1> QED
  BY <1>2, <1>3, Zenon DEF Freed

LEMMA DeadSocketIs ==
    ASSUME NEW sk \in SocketRec, sk.state = "open"
    PROVE  /\ DeadSocket(sk) \in SocketRec
           /\ \/ DeadSocket(sk) = Freed /\ DeadSocket(sk).state = "freed" /\ sk.outstanding = 0
              \/ /\ DeadSocket(sk) # Freed /\ DeadSocket(sk).state = "open" /\ DeadSocket(sk).dead
                 /\ DeadSocket(sk).outstanding = sk.outstanding /\ DeadSocket(sk).pending = sk.pending
<1>1. Freed \in SocketRec /\ Freed.state = "freed"
  BY UnusedIs, Zenon
<1>2. CASE sk.dead
  BY <1>1, <1>2, Zenon DEF DeadSocket, SocketRec
<1>3. CASE ~sk.dead /\ sk.outstanding = 0
  BY <1>1, <1>3, Zenon DEF DeadSocket
<1>4. CASE ~sk.dead /\ sk.outstanding # 0
  <2>1. DeadSocket(sk) = [sk EXCEPT !.dead = TRUE]
    BY <1>4, Zenon DEF DeadSocket
  <2>2. /\ [sk EXCEPT !.dead = TRUE] \in SocketRec /\ [sk EXCEPT !.dead = TRUE].state = "open"
        /\ [sk EXCEPT !.dead = TRUE].dead = TRUE
        /\ [sk EXCEPT !.dead = TRUE].outstanding = sk.outstanding /\ [sk EXCEPT !.dead = TRUE].pending = sk.pending
    BY Zenon DEF SocketRec
  <2>3. [sk EXCEPT !.dead = TRUE] # Freed
    BY <2>2, <1>1, Zenon
  <2> QED
    BY <2>1, <2>2, <2>3, Zenon
<1> QED
  BY <1>2, <1>3, <1>4, Zenon

\* The replies of a socket that is freed, and no other packet
LEMMA FreeRepliesIs ==
    ASSUME NEW s, NEW pk \in [Packets -> PacketRec]
    PROVE  /\ FreeReplies(pk, s) \in [Packets -> PacketRec]
           /\ \A p \in Packets :
                \/ FreeReplies(pk, s)[p] = pk[p]
                \/ /\ pk[p].listen = s /\ pk[p].at = "pending"
                   /\ FreeReplies(pk, s)[p] = [pk[p] EXCEPT !.at = "done"]
<1>1. \A p \in Packets : [pk[p] EXCEPT !.at = "done"] \in PacketRec /\ pk[p] \in PacketRec
  BY Zenon DEF PacketRec, Places
<1> QED
  BY <1>1, Zenon DEF FreeReplies

LEMMA DoneIs ==
    ASSUME NEW r \in PacketRec
    PROVE  /\ [r EXCEPT !.at = "done"].at = "done" /\ [r EXCEPT !.at = "done"].listen = r.listen
           /\ [r EXCEPT !.at = "done"].localized = r.localized
BY Zenon DEF PacketRec

\* Whatever the handler, a socket that dies leaves the rest as it was.
LEMMA DiesKeeps ==
    ASSUME Counting, IInv, NEW s \in Listeners, Open(s),
           NEW sk \in SocketRec, sk.state = "open", sk.outstanding = socket[s].outstanding,
           sk.pending = socket[s].pending,
           NEW pk \in [Packets -> PacketRec],
           \A p \in Packets : \/ pk[p] = packet[p]
                              \/ /\ call.op = "write" /\ p = call.cd
                                 /\ pk[p] = [packet[p] EXCEPT !.at = "done"],
           call.op = "write" => call.s = s,
           Dies(s, sk, pk), UNCHANGED <<posting, exited>>
    PROVE  IInv'
<1> DEFINE D == DeadSocket(sk)
<1>d. /\ D \in SocketRec
      /\ \/ D = Freed /\ D.state = "freed" /\ sk.outstanding = 0
         \/ /\ D # Freed /\ D.state = "open" /\ D.dead
            /\ D.outstanding = socket[s].outstanding /\ D.pending = socket[s].pending
  BY DeadSocketIs, Zenon
<1>s. socket' = [socket EXCEPT ![s] = D] /\ call' = NoCall
  BY Zenon DEF Dies
<1>p. packet' = IF D = Freed THEN FreeReplies(pk, s) ELSE pk
  BY Zenon DEF Dies
<1> HIDE DEF D
<1>t. socket \in [Listeners -> SocketRec] /\ packet \in [Packets -> PacketRec]
  BY Zenon DEF IInv, Typed
<1>1. socket'[s] = D /\ \A t \in Listeners : t # s => socket'[t] = socket[t]
  BY <1>s, <1>t, Zenon
<1>2. packet' \in [Packets -> PacketRec]
  BY <1>p, FreeRepliesIs, Zenon
<1>w. call.op = "write" =>
        /\ call.cd \in Packets /\ packet[call.cd].listen = s /\ packet[call.cd].at \in {"writing", "pending"}
        /\ socket[s].pending = NULL
  BY Zenon DEF IInv, CallSound
<1>3. ASSUME NEW p \in Packets
      PROVE  \/ packet'[p] = packet[p]
             \/ /\ packet[p].at \in {"writing", "pending"} /\ packet[p].listen = s
                /\ packet'[p].at = "done" /\ packet'[p].listen = s
                /\ packet'[p].localized = packet[p].localized
                /\ D = Freed \/ (call.op = "write" /\ p = call.cd)
  <2>1. packet[p] \in PacketRec /\ pk[p] \in PacketRec
    BY <1>t, Zenon
  <2>2. \/ pk[p] = packet[p]
        \/ /\ packet[p].at \in {"writing", "pending"} /\ packet[p].listen = s
           /\ pk[p].at = "done" /\ pk[p].listen = s /\ pk[p].localized = packet[p].localized
           /\ call.op = "write" /\ p = call.cd
    BY <2>1, <1>w, DoneIs, ZenonT(40)
  <2>3. CASE D # Freed
    BY <1>p, <2>2, <2>3, Zenon
  <2>4. CASE D = Freed
    <3>1. packet'[p] = FreeReplies(pk, s)[p]
      BY <1>p, <2>4, Zenon
    <3>2. CASE packet'[p] = pk[p]
      BY <2>2, <2>4, <3>2, Zenon
    <3>3. CASE pk[p].listen = s /\ pk[p].at = "pending" /\ packet'[p] = [pk[p] EXCEPT !.at = "done"]
      <4>1. packet'[p].at = "done" /\ packet'[p].listen = s /\ packet'[p].localized = pk[p].localized
        BY <3>3, <2>1, DoneIs, ZenonT(40)
      <4>2. pk[p] = packet[p]
        BY <2>2, <3>3, Zenon
      <4> QED
        BY <4>1, <4>2, <3>3, <2>4, Zenon
    <3>4. \/ FreeReplies(pk, s)[p] = pk[p]
          \/ /\ pk[p].listen = s /\ pk[p].at = "pending"
             /\ FreeReplies(pk, s)[p] = [pk[p] EXCEPT !.at = "done"]
      BY FreeRepliesIs, Zenon
    <3> QED
      BY <3>1, <3>2, <3>3, <3>4, Zenon
  <2> QED
    BY <2>3, <2>4, Zenon
<1>h. \A t : Held(t)' = Held(t) /\ Of(t, {"worker"})' = Of(t, {"worker"})
  <2>1. \A p \in Packets :
             \/ packet'[p] = packet[p]
             \/ /\ packet[p].at \in {"writing", "pending"} /\ packet'[p].at \in {"pending", "done"}
                /\ packet'[p].listen = packet[p].listen
    BY <1>3, Zenon
  <2> QED
    BY <2>1, WritesHold, Zenon
<1>4. Typed'
  <2>1. NoCall \in CallRec
    BY SocketAssumption DEF NoCall, CallRec
  <2> QED
    BY <2>1, <1>s, <1>2, <1>t, <1>d, Zenon DEF IInv, Typed
<1>5. CallSound'
  BY <1>s, Zenon DEF CallSound, NoCall
<1>6. PacketsSound'
  <2> SUFFICES ASSUME NEW p \in Packets
               PROVE  /\ packet'[p].at # "new" =>
                           packet'[p].listen \in Listeners /\ socket'[packet'[p].listen].state # "none"
                      /\ packet'[p].at = "new" => packet'[p].listen = NULL
                      /\ packet'[p].at = "worker" => ~packet'[p].localized
    BY Zenon DEF PacketsSound
  <2>1. /\ packet[p].at # "new" => packet[p].listen \in Listeners /\ socket[packet[p].listen].state # "none"
        /\ packet[p].at = "new" => packet[p].listen = NULL
        /\ packet[p].at = "worker" => ~packet[p].localized
    BY Zenon DEF IInv, PacketsSound
  <2>2. socket'[s].state # "none"
    BY <1>d, <1>1, Zenon
  <2>3. \A t \in Listeners : socket[t].state # "none" => socket'[t].state # "none"
    BY <2>2, <1>1, Zenon
  <2>4. CASE packet'[p] = packet[p]
    BY <2>4, <2>1, <2>3, Zenon
  <2>5. CASE packet'[p].at = "done" /\ packet'[p].listen = s
    BY <2>5, <2>2, Zenon
  <2> QED
    BY <2>4, <2>5, <1>3, Zenon
<1>7. ClosedSound'
  <2> SUFFICES ASSUME NEW t \in Listeners
               PROVE  /\ ~Open(t)' => socket'[t] \in {Unused, Freed}
                      /\ socket'[t].state = "freed" /\ ~exited' => Of(t, {"worker"})' = {}
    BY Zenon DEF ClosedSound
  <2>1. CASE t # s
    BY <2>1, <1>1, <1>h, ZenonT(40) DEF IInv, ClosedSound, Open
  <2>2. CASE t = s
    <3>1. CASE D = Freed /\ sk.outstanding = 0
      BY <3>1, <2>2, <1>1, <1>h, NothingHeld, Zenon
    <3>2. CASE D.state = "open"
      BY <3>2, <2>2, <1>1, Zenon DEF Open
    <3> QED
      BY <3>1, <3>2, <1>d, Zenon
  <2> QED
    BY <2>1, <2>2, Zenon
<1>8. Counts'
  <2>1. ASSUME NEW t \in Listeners, Open(t)'
        PROVE  Open(t) /\ socket'[t].outstanding = socket[t].outstanding
    <3>1. CASE t # s
      BY <3>1, <2>1, <1>1, Zenon DEF Open
    <3>2. CASE t = s
      BY <3>2, <2>1, <1>1, <1>d, Zenon DEF Open
    <3> QED
      BY <3>1, <3>2, Zenon
  <2> QED
    BY <2>1, <1>h, CountsKept, Zenon
<1>9. PendingSound'
  <2> SUFFICES ASSUME NEW t \in Listeners, Open(t)'
               PROVE  /\ socket'[t].pending # NULL =>
                           packet'[socket'[t].pending].at = "pending" /\ packet'[socket'[t].pending].listen = t
                      /\ ~socket'[t].dead /\ ~(call'.op = "write" /\ call'.s = t) =>
                           /\ socket'[t].blocked <=> socket'[t].pending # NULL
                           /\ socket'[t].written > 0 => socket'[t].pending # NULL
    BY Zenon DEF PendingSound, PendingOf
  <2>0. t = s => D # Freed /\ D.dead /\ D.pending = socket[s].pending
    BY <1>d, <1>1, Zenon DEF Open
  <2>1. Open(t) /\ socket'[t].pending = socket[t].pending
    BY <2>0, <1>1, Zenon DEF Open
  <2>2. ASSUME socket[t].pending # NULL
        PROVE  packet'[socket[t].pending].at = "pending" /\ packet'[socket[t].pending].listen = t
    <3> DEFINE p == socket[t].pending
    <3>1. p \in Packets
      BY <2>2, <1>t, Zenon DEF SocketRec
    <3>2. packet[p].at = "pending" /\ packet[p].listen = t
      BY <2>1, <2>2, Zenon DEF IInv, PendingSound, PendingOf
    <3>3. call.op = "write" /\ p = call.cd => t = s /\ socket[s].pending = NULL
      BY <1>w, <3>2, Zenon
    <3> HIDE DEF p
    <3>4. packet'[p] = packet[p]
      BY <3>1, <3>2, <3>3, <2>2, <2>0, <1>3, Zenon DEF p
    <3> QED
      BY <3>2, <3>4, Zenon DEF p
  <2>3. CASE t = s
    BY <2>0, <2>1, <2>2, <2>3, <1>1, Zenon
  <2>4. CASE t # s
    <3>1. ~(call.op = "write" /\ call.s = t)
      BY <2>4, Zenon
    <3>2. ~socket[t].dead =>
            /\ socket[t].blocked <=> socket[t].pending # NULL
            /\ socket[t].written > 0 => socket[t].pending # NULL
      BY <2>1, <3>1, Zenon DEF IInv, PendingSound, PendingOf
    <3>3. socket'[t] = socket[t]
      BY <2>4, <1>1, Zenon
    <3> QED
      BY <2>2, <3>2, <3>3, Zenon
  <2> QED
    BY <2>3, <2>4, Zenon
<1> QED
  BY <1>4, <1>5, <1>6, <1>7, <1>8, <1>9, Zenon DEF IInv

-----------------------------------------------------------------------------
(* What most steps leave alone *)

LEMMA ClosedKept ==
    ASSUME IInv, exited' = exited,
           \A t \in Listeners :
             \/ Open(t)'
             \/ socket'[t] = socket[t] /\ Of(t, {"worker"})' \subseteq Of(t, {"worker"})
    PROVE  ClosedSound'
<1> SUFFICES ASSUME NEW t \in Listeners
             PROVE  /\ ~Open(t)' => socket'[t] \in {Unused, Freed}
                    /\ socket'[t].state = "freed" /\ ~exited' => Of(t, {"worker"})' = {}
  BY Zenon DEF ClosedSound
<1>1. CASE Open(t)'
  BY <1>1, Zenon DEF Open
<1>2. CASE socket'[t] = socket[t] /\ Of(t, {"worker"})' \subseteq Of(t, {"worker"})
  <2>1. /\ ~Open(t) => socket[t] \in {Unused, Freed}
        /\ socket[t].state = "freed" /\ ~exited => Of(t, {"worker"}) = {}
    BY Zenon DEF IInv, ClosedSound
  <2>2. Open(t)' <=> Open(t)
    BY <1>2, Zenon DEF Open
  <2> QED
    BY <2>1, <2>2, <1>2, Zenon
<1> QED
  BY <1>1, <1>2, Zenon

LEMMA PacketsKept ==
    ASSUME IInv, \A t \in Listeners : socket[t].state # "none" => socket'[t].state # "none",
           \A p \in Packets :
             \/ packet'[p] = packet[p]
             \/ packet'[p].listen = packet[p].listen /\ packet[p].at # "new" /\ packet'[p].at \notin {"new", "worker"}
             \/ /\ packet'[p].at # "new" /\ packet'[p].listen \in Listeners /\ Open(packet'[p].listen)
                /\ packet'[p].at = "worker" => ~packet'[p].localized
    PROVE  PacketsSound'
<1> SUFFICES ASSUME NEW p \in Packets
             PROVE  /\ packet'[p].at # "new" =>
                         packet'[p].listen \in Listeners /\ socket'[packet'[p].listen].state # "none"
                    /\ packet'[p].at = "new" => packet'[p].listen = NULL
                    /\ packet'[p].at = "worker" => ~packet'[p].localized
  BY Zenon DEF PacketsSound
<1>1. /\ packet[p].at # "new" => packet[p].listen \in Listeners /\ socket[packet[p].listen].state # "none"
      /\ packet[p].at = "new" => packet[p].listen = NULL
      /\ packet[p].at = "worker" => ~packet[p].localized
  BY Zenon DEF IInv, PacketsSound
<1>2. CASE packet'[p] = packet[p]
  BY <1>1, <1>2, Zenon
<1>3. CASE packet'[p].listen = packet[p].listen /\ packet[p].at # "new" /\ packet'[p].at \notin {"new", "worker"}
  BY <1>1, <1>3, Zenon
<1>4. CASE /\ packet'[p].at # "new" /\ packet'[p].listen \in Listeners /\ Open(packet'[p].listen)
           /\ packet'[p].at = "worker" => ~packet'[p].localized
  BY <1>4, Zenon DEF Open
<1> QED
  BY <1>2, <1>3, <1>4, Zenon

LEMMA PendingKept ==
    ASSUME IInv, NEW t \in Listeners, Open(t),
           socket'[t].dead = socket[t].dead, socket'[t].blocked = socket[t].blocked,
           socket'[t].pending = socket[t].pending, socket'[t].written = socket[t].written,
           call.op = "write" /\ call.s = t => call'.op = "write" /\ call'.s = t,
           \A p \in Packets : packet[p].at = "pending" /\ packet[p].listen = t => packet'[p] = packet[p]
    PROVE  PendingOf(t)'
<1>1. PendingOf(t)
  BY Zenon DEF IInv, PendingSound
<1>2. ASSUME socket[t].pending # NULL
      PROVE  packet'[socket[t].pending] = packet[socket[t].pending]
  <2>1. socket[t].pending \in Packets
    BY <1>2, Zenon DEF IInv, Typed, SocketRec
  <2> QED
    BY <2>1, <1>1, <1>2, Zenon DEF PendingOf
<1> QED
  BY <1>1, <1>2, ZenonT(40) DEF PendingOf

LEMMA MoveIs ==
    ASSUME Typed, NEW p \in Packets, NEW place \in Places, packet' = Move(p, place)
    PROVE  /\ packet' \in [Packets -> PacketRec]
           /\ packet'[p].at = place /\ packet'[p].listen = packet[p].listen
           /\ packet'[p].localized = packet[p].localized
           /\ \A q \in Packets : q # p => packet'[q] = packet[q]
BY Zenon DEF Typed, Move, PacketRec

\* Only packet p moves, and replies of a socket that is freed.
LEMMA OneHolds ==
    ASSUME NEW p \in Packets,
           \A q \in Packets : q # p =>
             packet'[q] = packet[q] \/ (packet[q].at = "pending" /\ packet'[q].at = "done")
    PROVE  \A t : /\ p \in Held(t)' => Held(t)' = Held(t) \cup {p}
                  /\ p \notin Held(t)' => Held(t)' = Held(t) \ {p}
                  /\ p \notin Of(t, {"worker"})' => Of(t, {"worker"})' = Of(t, {"worker"}) \ {p}
<1> SUFFICES ASSUME NEW t
             PROVE  /\ p \in Held(t)' => Held(t)' = Held(t) \cup {p}
                    /\ p \notin Held(t)' => Held(t)' = Held(t) \ {p}
                    /\ p \notin Of(t, {"worker"})' => Of(t, {"worker"})' = Of(t, {"worker"}) \ {p}
  BY Zenon
<1>1. ASSUME NEW q, q # p
      PROVE  (q \in Held(t)' <=> q \in Held(t)) /\ (q \in Of(t, {"worker"})' <=> q \in Of(t, {"worker"}))
  <2>1. CASE q \in Packets /\ packet'[q] = packet[q]
    BY <2>1, Zenon DEF Held, Of
  <2>2. CASE q \in Packets /\ packet[q].at = "pending" /\ packet'[q].at = "done"
    BY <2>2, Zenon DEF Held, Of
  <2>3. CASE q \notin Packets
    BY <2>3, Zenon DEF Held, Of
  <2> QED
    BY <1>1, <2>1, <2>2, <2>3, Zenon
<1> QED
  BY <1>1, Zenon

\* No socket is opened, freed or charged.
LEMMA QuietKeeps ==
    ASSUME IInv, Typed', CallSound', exited' = exited,
           \A t \in Listeners : /\ socket'[t].state = socket[t].state
                                /\ socket'[t].outstanding = socket[t].outstanding
                                /\ ~Open(t) => socket'[t] = socket[t]
                                /\ Open(t) => Held(t)' = Held(t)
                                /\ Of(t, {"worker"})' \subseteq Of(t, {"worker"}),
           \A p \in Packets :
             \/ packet'[p] = packet[p]
             \/ packet'[p].listen = packet[p].listen /\ packet[p].at # "new" /\ packet'[p].at \notin {"new", "worker"}
             \/ /\ packet'[p].at # "new" /\ packet'[p].listen \in Listeners /\ Open(packet'[p].listen)
                /\ packet'[p].at = "worker" => ~packet'[p].localized,
           \A t \in Listeners : Open(t) => PendingOf(t)'
    PROVE  IInv'
<1>1. \A t \in Listeners : Open(t)' <=> Open(t)
  BY Zenon DEF Open
<1>2. PacketsSound'
  BY PacketsKept, Zenon
<1>3. ClosedSound'
  BY <1>1, ClosedKept, Zenon
<1>4. Counts'
  <2> SUFFICES ASSUME NEW t \in Listeners, Open(t)
               PROVE  socket'[t].outstanding = Cardinality(Held(t)')
    BY <1>1, Zenon DEF Counts
  <2>1. socket[t].outstanding = Cardinality(Held(t))
    BY Zenon DEF IInv, Counts
  <2> QED
    BY <2>1, Zenon
<1>5. PendingSound'
  BY <1>1, Zenon DEF PendingSound
<1> QED
  BY <1>2, <1>3, <1>4, <1>5, Zenon DEF IInv

LEMMA NoCallIs ==
    /\ NoCall \in CallRec /\ NoCall.op = "none"
    /\ \A s \in Listeners : /\ [NoCall EXCEPT !.op = "read", !.s = s] \in CallRec
                            /\ [NoCall EXCEPT !.op = "read", !.s = s].op = "read"
                            /\ [NoCall EXCEPT !.op = "read", !.s = s].s = s
    /\ \A s \in Listeners, p \in Packets :
         /\ [NoCall EXCEPT !.op = "write", !.s = s, !.cd = p] \in CallRec
         /\ [NoCall EXCEPT !.op = "write", !.s = s, !.cd = p].op = "write"
         /\ [NoCall EXCEPT !.op = "write", !.s = s, !.cd = p].s = s
         /\ [NoCall EXCEPT !.op = "write", !.s = s, !.cd = p].cd = p
<1>1. 0 \in 0 .. Burst + 1
  BY SocketAssumption
<1> QED
  BY <1>1, Zenon DEF NoCall, CallRec

\* The packets stay where they are.
LEMMA StillHold ==
    ASSUME packet' = packet
    PROVE  \A t : Held(t)' = Held(t) /\ Of(t, {"worker"})' = Of(t, {"worker"})
BY Zenon DEF Held, Of

LEMMA ReadBeginsKeeps ==
    ASSUME IInv, NEW s \in Listeners, ReadBegins(s)
    PROVE  IInv'
<1>1. /\ Event /\ Open(s) /\ call' = [NoCall EXCEPT !.op = "read", !.s = s]
      /\ socket' = socket /\ packet' = packet /\ posting' = posting /\ exited' = exited
  BY Zenon DEF ReadBegins
<1>2. call.op = "none"
  BY <1>1, NoCallIs, Zenon DEF Event
<1>3. call' \in CallRec /\ call'.op = "read" /\ call'.s = s
  BY <1>1, NoCallIs, Zenon
<1>4. Typed'
  BY <1>1, <1>3, Zenon DEF IInv, Typed
<1>5. CallSound'
  BY <1>1, <1>2, <1>3, Zenon DEF CallSound, Open
<1>6. \A t \in Listeners : Open(t) => PendingOf(t)'
  BY <1>1, <1>2, PendingKept, Zenon
<1> QED
  BY <1>1, <1>4, <1>5, <1>6, StillHold, QuietKeeps, Zenon

LEMMA PostKeeps ==
    ASSUME IInv, PostBegins \/ PostEnds
    PROVE  IInv'
<1>1. /\ posting' \in BOOLEAN
      /\ socket' = socket /\ packet' = packet /\ call' = call /\ exited' = exited
  BY Zenon DEF PostBegins, PostEnds
<1>4. Typed'
  BY <1>1, Zenon DEF IInv, Typed
<1>5. CallSound'
  BY <1>1, Zenon DEF IInv, CallSound, Open
<1>6. \A t \in Listeners : Open(t) => PendingOf(t)'
  BY <1>1, PendingKept, Zenon
<1> QED
  BY <1>1, <1>4, <1>5, <1>6, StillHold, QuietKeeps, Zenon

LEMMA ReadEndsKeeps ==
    ASSUME IInv, ReadEnds
    PROVE  IInv'
<1> DEFINE s == call.s
<1>1. /\ call.op = "read" /\ call' = NoCall /\ socket' = [socket EXCEPT ![s].cd = TRUE]
      /\ packet' = packet /\ posting' = posting /\ exited' = exited
  BY Zenon DEF ReadEnds
<1>2. s \in Listeners
  BY <1>1, Zenon DEF IInv, CallSound
<1> HIDE DEF s
<1>3. /\ socket' \in [Listeners -> SocketRec]
      /\ \A t \in Listeners : /\ t # s => socket'[t] = socket[t]
                              /\ socket'[t].state = socket[t].state
                              /\ socket'[t].outstanding = socket[t].outstanding
                              /\ socket'[t].dead = socket[t].dead /\ socket'[t].blocked = socket[t].blocked
                              /\ socket'[t].pending = socket[t].pending /\ socket'[t].written = socket[t].written
  BY <1>1, <1>2, ZenonT(40) DEF IInv, Typed, SocketRec
<1>o. Open(s)
  BY <1>1, Zenon DEF IInv, CallSound, s
<1>4. Typed'
  BY <1>1, <1>3, NoCallIs, Zenon DEF IInv, Typed
<1>5. CallSound'
  BY <1>1, NoCallIs, Zenon DEF CallSound
<1>6. \A t \in Listeners : Open(t) => PendingOf(t)'
  BY <1>1, <1>3, PendingKept, Zenon
<1> QED
  BY <1>1, <1>3, <1>4, <1>5, <1>6, <1>o, StillHold, QuietKeeps, Zenon

LEMMA WriteReadyKeeps ==
    ASSUME IInv, NEW s \in Listeners, WriteReady(s)
    PROVE  IInv'
<1> DEFINE p == socket[s].pending
<1>1. /\ Event /\ Open(s) /\ ~socket[s].dead /\ p # NULL
      /\ call' = [NoCall EXCEPT !.op = "write", !.s = s, !.cd = p]
      /\ socket' = [socket EXCEPT ![s].pending = NULL] /\ packet' = packet /\ posting' = posting /\ exited' = exited
  BY Zenon DEF WriteReady
<1>2. call.op = "none"
  BY <1>1, NoCallIs, Zenon DEF Event
<1>p. p \in Packets /\ packet[p].at = "pending" /\ packet[p].listen = s
  <2>1. p \in Packets
    BY <1>1, Zenon DEF IInv, Typed, SocketRec
  <2> QED
    BY <2>1, <1>1, Zenon DEF IInv, PendingSound, PendingOf
<1> HIDE DEF p
<1>3. call' \in CallRec /\ call'.op = "write" /\ call'.s = s /\ call'.cd = p
  <2>1. p \in Packets /\ call' = [NoCall EXCEPT !.op = "write", !.s = s, !.cd = p]
    BY <1>1, <1>p, Zenon
  <2>2. \A q \in Packets :
          /\ [NoCall EXCEPT !.op = "write", !.s = s, !.cd = q] \in CallRec
          /\ [NoCall EXCEPT !.op = "write", !.s = s, !.cd = q].op = "write"
          /\ [NoCall EXCEPT !.op = "write", !.s = s, !.cd = q].s = s
          /\ [NoCall EXCEPT !.op = "write", !.s = s, !.cd = q].cd = q
    BY NoCallIs, Zenon
  <2> QED
    BY <2>1, <2>2, Zenon
<1>4. /\ socket' \in [Listeners -> SocketRec]
      /\ socket'[s].pending = NULL
      /\ \A t \in Listeners : /\ t # s => socket'[t] = socket[t]
                              /\ socket'[t].state = socket[t].state
                              /\ socket'[t].outstanding = socket[t].outstanding
                              /\ socket'[t].dead = socket[t].dead
  BY <1>1, ZenonT(40) DEF IInv, Typed, SocketRec
<1>5. Typed'
  BY <1>1, <1>3, <1>4, Zenon DEF IInv, Typed
<1>6. CallSound'
  BY <1>1, <1>2, <1>3, <1>4, <1>p, Zenon DEF CallSound, Open
<1>7. ASSUME NEW t \in Listeners, Open(t)
      PROVE  PendingOf(t)'
  <2>1. CASE t = s
    BY <2>1, <1>3, <1>4, Zenon DEF PendingOf
  <2>2. CASE t # s
    BY <2>2, <1>1, <1>2, <1>4, <1>7, PendingKept, Zenon
  <2> QED
    BY <2>1, <2>2, Zenon
<1> QED
  BY <1>1, <1>4, <1>5, <1>6, <1>7, StillHold, QuietKeeps, Zenon

\* fr_network_listen_callback: no packet is of a socket that is not yet open.
LEMMA ListenKeeps ==
    ASSUME Counting, IInv, NEW s \in Listeners, Listen(s)
    PROVE  IInv'
<1>1. /\ Event /\ socket[s].state = "none" /\ socket' = [socket EXCEPT ![s].state = "open"]
      /\ packet' = packet /\ call' = call /\ posting' = posting /\ exited' = exited
  BY Zenon DEF Listen
<1>2. call.op = "none" /\ call = NoCall
  BY <1>1, NoCallIs, Zenon DEF Event
<1>3. /\ socket' \in [Listeners -> SocketRec] /\ socket'[s].state = "open"
      /\ socket'[s].outstanding = socket[s].outstanding /\ socket'[s].pending = socket[s].pending
      /\ socket'[s].blocked = socket[s].blocked /\ socket'[s].written = socket[s].written
      /\ \A t \in Listeners : t # s => socket'[t] = socket[t]
  BY <1>1, Zenon DEF IInv, Typed, SocketRec
<1>u. socket[s] = Unused
  <2>1. ~Open(s)
    BY <1>1, Zenon DEF Open
  <2>2. socket[s] \in {Unused, Freed}
    BY <2>1, Zenon DEF IInv, ClosedSound
  <2> QED
    BY <2>2, <1>1, UnusedIs, Zenon
<1>v. socket'[s].outstanding = 0 /\ socket'[s].pending = NULL /\ ~socket'[s].blocked /\ socket'[s].written = 0
  BY <1>u, <1>3, UnusedIs, Zenon
<1>4. Held(s) = {}
  <2>1. ASSUME NEW p \in Packets, packet[p].listen = s
        PROVE  FALSE
    <3>1. packet[p].at # "new"
      BY <2>1, SocketAssumption, Zenon DEF IInv, PacketsSound
    <3> QED
      BY <3>1, <2>1, <1>1, Zenon DEF IInv, PacketsSound
  <2> QED
    BY <2>1, Zenon DEF Held, Of
<1>5. Typed'
  BY <1>1, <1>3, Zenon DEF IInv, Typed
<1>6. CallSound'
  BY <1>1, <1>2, NoCallIs, Zenon DEF CallSound
<1>7. PacketsSound'
  <2>1. \A t \in Listeners : socket[t].state # "none" => socket'[t].state # "none"
    BY <1>1, <1>3, Zenon
  <2> QED
    BY <2>1, <1>1, PacketsKept, Zenon
<1>8. ClosedSound'
  BY <1>1, <1>3, StillHold, ClosedKept, Zenon DEF Open
<1>9. Counts'
  <2> SUFFICES ASSUME NEW t \in Listeners, Open(t)'
               PROVE  socket'[t].outstanding = Cardinality(Held(t)')
    BY Zenon DEF Counts
  <2>1. Held(t)' = Held(t)
    BY <1>1, StillHold, Zenon
  <2>2. CASE t = s
    <3>1. Cardinality({}) = 0
      BY Zenon DEF Counting
    <3> QED
      BY <2>1, <2>2, <3>1, <1>v, <1>4, Zenon
  <2>3. CASE t # s
    BY <2>1, <2>3, <1>3, Zenon DEF IInv, Counts, Open
  <2> QED
    BY <2>2, <2>3, Zenon
<1>10. PendingSound'
  <2> SUFFICES ASSUME NEW t \in Listeners, Open(t)'
               PROVE  PendingOf(t)'
    BY Zenon DEF PendingSound
  <2>1. CASE t = s
    <3>1. ~(socket'[t].written > 0)
      BY <2>1, <1>v
    <3> QED
      BY <2>1, <3>1, <1>v, Zenon DEF PendingOf
  <2>2. CASE t # s
    <3>1. Open(t) /\ socket'[t] = socket[t]
      BY <2>2, <1>3, Zenon DEF Open
    <3> QED
      BY <3>1, <1>1, <1>2, PendingKept, Zenon
  <2> QED
    BY <2>1, <2>2, Zenon
<1> QED
  BY <1>5, <1>6, <1>7, <1>8, <1>9, <1>10, Zenon DEF IInv

\* fr_network_listen_write
LEMMA ListenWriteKeeps ==
    ASSUME IInv, NEW s \in Listeners, NEW p \in Packets, ListenWrite(s, p)
    PROVE  IInv'
<1>1. /\ call.op = "read" /\ Open(s) /\ packet[p].at = "new"
      /\ packet' = [packet EXCEPT ![p] = [at |-> "heap", listen |-> s, localized |-> TRUE]]
      /\ socket' = socket /\ call' = call /\ posting' = posting /\ exited' = exited
  BY Zenon DEF ListenWrite
<1>2. /\ packet' \in [Packets -> PacketRec]
      /\ packet'[p].at = "heap" /\ packet'[p].listen = s /\ packet'[p].localized = TRUE
      /\ \A q \in Packets : q # p => packet'[q] = packet[q]
  BY <1>1, Zenon DEF IInv, Typed, PacketRec, Places
<1>3. Typed'
  BY <1>1, <1>2, Zenon DEF IInv, Typed
<1>4. CallSound'
  BY <1>1, Zenon DEF IInv, CallSound, Open
<1>5. \A t : Held(t)' = Held(t) /\ Of(t, {"worker"})' = Of(t, {"worker"})
  <2>1. \A t : p \notin Held(t) /\ p \notin Held(t)' /\ p \notin Of(t, {"worker"}) /\ p \notin Of(t, {"worker"})'
    BY <1>1, <1>2, Zenon DEF Held, Of
  <2> QED
    BY <2>1, <1>2, OneHolds
<1>6. ASSUME NEW t \in Listeners, Open(t)
      PROVE  PendingOf(t)'
  <2>1. \A q \in Packets : packet[q].at = "pending" /\ packet[q].listen = t => packet'[q] = packet[q]
    BY <1>1, <1>2, Zenon
  <2> QED
    BY <2>1, <1>1, <1>6, PendingKept, Zenon
<1>7. \A q \in Packets :
        \/ packet'[q] = packet[q]
        \/ /\ packet'[q].at # "new" /\ packet'[q].listen \in Listeners /\ Open(packet'[q].listen)
           /\ packet'[q].at = "worker" => ~packet'[q].localized
  BY <1>1, <1>2, Zenon
<1> QED
  BY <1>1, <1>3, <1>4, <1>5, <1>6, <1>7, QuietKeeps, Zenon

\* The answer of a worker: the packet is still counted, and the worker has one
\* less.
LEMMA AnswerKeeps ==
    ASSUME IInv, NEW p \in Packets, RecvReply(p) \/ NullReply(p)
    PROVE  IInv'
<1> PICK place \in {"heap", "null"} :
            /\ packet[p].at = "worker" /\ packet' = Move(p, place)
            /\ socket' = socket /\ call' = call /\ posting' = posting /\ exited' = exited
  BY Zenon DEF RecvReply, NullReply
<1>1. /\ packet' \in [Packets -> PacketRec]
      /\ packet'[p].at = place /\ packet'[p].listen = packet[p].listen
      /\ packet'[p].localized = packet[p].localized
      /\ \A q \in Packets : q # p => packet'[q] = packet[q]
  <2>1. Typed /\ place \in Places
    BY Zenon DEF IInv, Places
  <2> QED
    BY <2>1, MoveIs, Zenon
<1>2. Typed'
  BY <1>1, Zenon DEF IInv, Typed
<1>3. CallSound'
  <2>1. call.op = "write" => call.cd # p
    BY Zenon DEF IInv, CallSound
  <2> QED
    BY <2>1, <1>1, Zenon DEF IInv, CallSound, Open
<1>4. \A t : Held(t)' = Held(t) /\ Of(t, {"worker"})' \subseteq Of(t, {"worker"})
  <2>1. \A t : (p \in Held(t)' <=> p \in Held(t)) /\ p \notin Of(t, {"worker"})'
    BY <1>1, Zenon DEF Held, Of
  <2> QED
    BY <2>1, <1>1, OneHolds
<1>5. ASSUME NEW t \in Listeners, Open(t)
      PROVE  PendingOf(t)'
  <2>1. \A q \in Packets : packet[q].at = "pending" /\ packet[q].listen = t => packet'[q] = packet[q]
    BY <1>1, Zenon
  <2> QED
    BY <2>1, <1>5, PendingKept, Zenon
<1>6. \A q \in Packets :
        \/ packet'[q] = packet[q]
        \/ packet'[q].listen = packet[q].listen /\ packet[q].at # "new" /\ packet'[q].at \notin {"new", "worker"}
  BY <1>1, Zenon
<1> QED
  BY <1>2, <1>3, <1>4, <1>5, <1>6, QuietKeeps, Zenon

\* A reply for a socket that is gone: nothing counts it.
LEMMA NoSocketKeeps ==
    ASSUME IInv, NEW p \in Packets, NoSocket(p)
    PROVE  IInv'
<1>0. /\ call = NoCall /\ packet[p].at = "heap" /\ ~Open(packet[p].listen) /\ packet' = Move(p, "done")
      /\ socket' = socket /\ call' = call /\ posting' = posting /\ exited' = exited
  BY Zenon DEF NoSocket, PostTurn
<1>1. /\ packet' \in [Packets -> PacketRec]
      /\ packet'[p].at = "done" /\ packet'[p].listen = packet[p].listen
      /\ packet'[p].localized = packet[p].localized
      /\ \A q \in Packets : q # p => packet'[q] = packet[q]
  <2>1. Typed /\ "done" \in Places
    BY Zenon DEF IInv, Places
  <2> QED
    BY <2>1, <1>0, MoveIs, Zenon
<1>2. Typed'
  BY <1>0, <1>1, Zenon DEF IInv, Typed
<1>3. CallSound'
  BY <1>0, NoCallIs, Zenon DEF CallSound
<1>4. \A t : (Open(t) => Held(t)' = Held(t)) /\ Of(t, {"worker"})' \subseteq Of(t, {"worker"})
  <2>1. \A t : p \notin Held(t)' /\ p \notin Of(t, {"worker"})' /\ (Open(t) => p \notin Held(t))
    BY <1>0, <1>1, Zenon DEF Held, Of
  <2> QED
    BY <2>1, <1>1, OneHolds
<1>5. ASSUME NEW t \in Listeners, Open(t)
      PROVE  PendingOf(t)'
  <2>1. \A q \in Packets : packet[q].at = "pending" /\ packet[q].listen = t => packet'[q] = packet[q]
    BY <1>0, <1>1, Zenon
  <2> QED
    BY <2>1, <1>0, <1>5, PendingKept, Zenon
<1>6. \A q \in Packets :
        \/ packet'[q] = packet[q]
        \/ packet'[q].listen = packet[q].listen /\ packet[q].at # "new" /\ packet'[q].at \notin {"new", "worker"}
  BY <1>0, <1>1, Zenon
<1> QED
  BY <1>0, <1>2, <1>3, <1>4, <1>5, <1>6, QuietKeeps, Zenon

\* Socket r with the rest of message p saved
AllSaved(r, p) == {Saved(r, p, part) : part \in BOOLEAN}

LEMMA SavedIs ==
    ASSUME NEW r \in SocketRec, NEW p \in Packets, NEW c \in AllSaved(r, p)
    PROVE  /\ c \in SocketRec /\ c.pending = p /\ c.blocked
           /\ c.state = r.state /\ c.outstanding = r.outstanding
<1>1. r.written \in 0 .. 1 /\ 1 \in 0 .. 1
  BY DEF SocketRec
<1>2. PICK w \in 0 .. 1 : c = [r EXCEPT !.pending = p, !.blocked = TRUE, !.written = w]
  BY <1>1, Zenon DEF Saved, AllSaved
<1> QED
  BY <1>2, Zenon DEF SocketRec

LEMMA ClearedIs ==
    ASSUME NEW r \in SocketRec, NEW c, c = [r EXCEPT !.written = 0, !.blocked = FALSE]
    PROVE  /\ c \in SocketRec /\ c.state = r.state /\ c.outstanding = r.outstanding
           /\ c.blocked = FALSE /\ c.pending = r.pending /\ c.written = 0
<1> DEFINE m == [r EXCEPT !.written = 0]
<1>1. /\ m \in SocketRec /\ m.state = r.state /\ m.outstanding = r.outstanding
      /\ m.pending = r.pending /\ m.written = 0
  BY DEF SocketRec
<1>2. c = [m EXCEPT !.blocked = FALSE]
  BY Zenon
<1> HIDE DEF m
<1>3. /\ c \in SocketRec /\ c.state = m.state /\ c.outstanding = m.outstanding
      /\ c.pending = m.pending /\ c.written = m.written
  BY <1>1, <1>2, Zenon DEF SocketRec
<1>4. c.blocked = FALSE
  BY <1>1, <1>2, Zenon DEF SocketRec
<1> QED
  BY <1>1, <1>3, <1>4, Zenon

LEMMA LocalizedIs ==
    ASSUME packet \in [Packets -> PacketRec], NEW p \in Packets,
           packet' = [packet EXCEPT ![p].at = "pending", ![p].localized = TRUE]
    PROVE  /\ packet' \in [Packets -> PacketRec] /\ packet'[p].listen = packet[p].listen /\ packet'[p].at = "pending"
           /\ \A q \in Packets : q # p => packet'[q] = packet[q]
<1>1. ASSUME NEW r \in PacketRec
      PROVE  /\ [r EXCEPT !.at = "pending"] \in PacketRec /\ [r EXCEPT !.localized = TRUE] \in PacketRec
             /\ [r EXCEPT !.at = "pending"].listen = r.listen /\ [r EXCEPT !.at = "pending"].at = "pending"
             /\ [r EXCEPT !.localized = TRUE].listen = r.listen /\ [r EXCEPT !.localized = TRUE].at = r.at
  BY Zenon DEF PacketRec, Places
<1>2. ASSUME NEW f \in [Packets -> PacketRec]
      PROVE  /\ [f EXCEPT ![p].at = "pending"] \in [Packets -> PacketRec]
             /\ [f EXCEPT ![p].at = "pending"][p] = [f[p] EXCEPT !.at = "pending"]
             /\ [f EXCEPT ![p].localized = TRUE] \in [Packets -> PacketRec]
             /\ [f EXCEPT ![p].localized = TRUE][p] = [f[p] EXCEPT !.localized = TRUE]
             /\ \A q \in Packets : q # p => /\ [f EXCEPT ![p].at = "pending"][q] = f[q]
                                            /\ [f EXCEPT ![p].localized = TRUE][q] = f[q]
  BY <1>1, Zenon
<1> DEFINE m == [packet EXCEPT ![p].at = "pending"]
<1>3. packet' = [m EXCEPT ![p].localized = TRUE]
  BY Zenon
<1>4. /\ m \in [Packets -> PacketRec] /\ m[p] = [packet[p] EXCEPT !.at = "pending"]
      /\ \A q \in Packets : q # p => m[q] = packet[q]
  BY <1>2, Zenon
<1> HIDE DEF m
<1>5. /\ packet' \in [Packets -> PacketRec] /\ packet'[p] = [m[p] EXCEPT !.localized = TRUE]
      /\ \A q \in Packets : q # p => packet'[q] = m[q]
  <2> DEFINE n == [m EXCEPT ![p].localized = TRUE]
  <2>1. /\ n \in [Packets -> PacketRec] /\ n[p] = [m[p] EXCEPT !.localized = TRUE]
        /\ \A q \in Packets : q # p => n[q] = m[q]
    BY <1>2, <1>4, Zenon
  <2>2. packet' = n
    BY <1>3, Zenon
  <2> HIDE DEF n
  <2> QED
    BY <2>1, <2>2, Zenon
<1>6. packet'[p].listen = m[p].listen /\ packet'[p].at = m[p].at
  BY <1>1, <1>4, <1>5, ZenonT(40)
<1>7. m[p].listen = packet[p].listen /\ m[p].at = "pending"
  <2>1. packet[p] \in PacketRec
    BY Zenon
  <2> QED
    BY <2>1, <1>1, <1>4, Zenon
<1> QED
  BY <1>4, <1>5, <1>6, <1>7, Zenon

\* A write that ends without the death of the socket: the message is saved, or
\* it is done.
Writes == (\E part \in BOOLEAN : WriteBlocks(part)) \/ Written(TRUE)

LEMMA WriteKeeps ==
    ASSUME IInv, Writes
    PROVE  IInv'
<1> DEFINE s == call.s  p == call.cd
<1>0. /\ call.op = "write" /\ call' = NoCall /\ posting' = posting /\ exited' = exited
      /\ \/ /\ \E c \in AllSaved(socket[s], p) : socket' = [socket EXCEPT ![s] = c]
            /\ packet' = [packet EXCEPT ![p].at = "pending", ![p].localized = TRUE]
         \/ /\ socket' = [socket EXCEPT ![s] = [socket[s] EXCEPT !.written = 0, !.blocked = FALSE]]
            /\ packet' = Move(p, "done")
  BY Zenon DEF Writes, WriteBlocks, Written, AllSaved
<1>1. /\ s \in Listeners /\ Open(s) /\ p \in Packets /\ packet[p].listen = s
      /\ packet[p].at \in {"writing", "pending"} /\ ~socket[s].dead /\ socket[s].pending = NULL
  BY <1>0, Zenon DEF IInv, CallSound
<1>n. NULL \notin Packets
  BY SocketAssumption, Zenon
<1> HIDE DEF s, p
<1>t. socket \in [Listeners -> SocketRec] /\ packet \in [Packets -> PacketRec] /\ posting \in BOOLEAN /\ exited \in BOOLEAN
  BY Zenon DEF IInv, Typed
<1>2. /\ socket' \in [Listeners -> SocketRec] /\ packet' \in [Packets -> PacketRec]
      /\ \A q \in Packets : q # p => packet'[q] = packet[q]
      /\ packet'[p].listen = s /\ packet'[p].at \in {"pending", "done"}
      /\ \A t \in Listeners : t # s => socket'[t] = socket[t]
      /\ socket'[s].state = socket[s].state /\ socket'[s].outstanding = socket[s].outstanding
      /\ \/ socket'[s].blocked /\ socket'[s].pending = p /\ packet'[p].at = "pending"
         \/ ~socket'[s].blocked /\ socket'[s].pending = NULL /\ socket'[s].written = 0
  <2>1. CASE /\ \E c \in AllSaved(socket[s], p) : socket' = [socket EXCEPT ![s] = c]
             /\ packet' = [packet EXCEPT ![p].at = "pending", ![p].localized = TRUE]
    <3>1. socket[s] \in SocketRec
      BY <1>1, <1>t, Zenon
    <3>2. PICK c \in AllSaved(socket[s], p) : socket' = [socket EXCEPT ![s] = c]
      BY <2>1, Zenon
    <3>4. socket'[s] = c /\ \A t \in Listeners : t # s => socket'[t] = socket[t]
      BY <3>2, <1>1, <1>t, Zenon
    <3>5. /\ c \in SocketRec /\ c.pending = p /\ c.blocked
          /\ c.state = socket[s].state /\ c.outstanding = socket[s].outstanding
      <4> DEFINE r == socket[s]
      <4>1. r \in SocketRec /\ p \in Packets /\ c \in AllSaved(r, p)
        BY <3>1, <1>1, Zenon
      <4> HIDE DEF r
      <4>2. c \in SocketRec /\ c.pending = p /\ c.blocked /\ c.state = r.state /\ c.outstanding = r.outstanding
        BY <4>1, SavedIs, Zenon
      <4> QED
        BY <4>2, Zenon DEF r
    <3>6. socket' \in [Listeners -> SocketRec]
      BY <3>2, <3>5, <1>t, Zenon
    <3>7. /\ socket' \in [Listeners -> SocketRec] /\ \A t \in Listeners : t # s => socket'[t] = socket[t]
          /\ socket'[s].state = socket[s].state /\ socket'[s].outstanding = socket[s].outstanding
          /\ socket'[s].blocked /\ socket'[s].pending = p
      BY <3>4, <3>5, <3>6, Zenon
    <3>3. /\ packet' \in [Packets -> PacketRec] /\ packet'[p].listen = packet[p].listen /\ packet'[p].at = "pending"
          /\ \A q \in Packets : q # p => packet'[q] = packet[q]
      BY <2>1, <1>1, <1>t, LocalizedIs, Zenon
    <3> QED
      BY <3>7, <3>3, <1>1, Zenon
  <2>2. CASE /\ socket' = [socket EXCEPT ![s] = [socket[s] EXCEPT !.written = 0, !.blocked = FALSE]]
             /\ packet' = Move(p, "done")
    <3>1. /\ socket' \in [Listeners -> SocketRec] /\ \A t \in Listeners : t # s => socket'[t] = socket[t]
          /\ socket'[s].state = socket[s].state /\ socket'[s].outstanding = socket[s].outstanding
          /\ socket'[s].blocked = FALSE /\ socket'[s].pending = socket[s].pending /\ socket'[s].written = 0
      <4> DEFINE c == [socket[s] EXCEPT !.written = 0, !.blocked = FALSE]
      <4>1. socket' = [socket EXCEPT ![s] = c] /\ socket[s] \in SocketRec
        BY <2>2, <1>1, <1>t, Zenon
      <4>2. /\ c \in SocketRec /\ c.state = socket[s].state /\ c.outstanding = socket[s].outstanding
            /\ c.blocked = FALSE /\ c.pending = socket[s].pending /\ c.written = 0
        BY <4>1, ClearedIs, Zenon
      <4> HIDE DEF c
      <4>3. socket'[s] = c /\ socket' \in [Listeners -> SocketRec]
            /\ \A t \in Listeners : t # s => socket'[t] = socket[t]
        BY <4>1, <4>2, <1>1, <1>t, Zenon
      <4> QED
        BY <4>2, <4>3, Zenon
    <3>2. Typed /\ "done" \in Places
      BY Zenon DEF IInv, Places
    <3>3. /\ packet' \in [Packets -> PacketRec] /\ packet'[p].listen = packet[p].listen /\ packet'[p].at = "done"
          /\ \A q \in Packets : q # p => packet'[q] = packet[q]
      BY <2>2, <3>2, <1>1, MoveIs, Zenon
    <3> QED
      BY <3>1, <3>3, <1>1, Zenon
  <2> QED
    BY <2>1, <2>2, <1>0, Zenon
<1>3. Typed'
  BY <1>0, <1>2, <1>t, NoCallIs, Zenon DEF Typed
<1>4. CallSound'
  BY <1>0, NoCallIs, Zenon DEF CallSound
<1>5. \A t : Held(t)' = Held(t) /\ Of(t, {"worker"})' = Of(t, {"worker"})
  <2>1. \A q \in Packets :
          \/ packet'[q] = packet[q]
          \/ /\ packet[q].at \in {"writing", "pending"} /\ packet'[q].at \in {"pending", "done"}
             /\ packet'[q].listen = packet[q].listen
    BY <1>1, <1>2, Zenon
  <2> QED
    BY <2>1, WritesHold, Zenon
<1>6. ASSUME NEW t \in Listeners, Open(t)
      PROVE  PendingOf(t)'
  <2>1. CASE t = s
    <3>1. CASE socket'[s].blocked /\ socket'[s].pending = p /\ packet'[p].at = "pending"
      BY <3>1, <2>1, <1>1, <1>2, <1>n, Zenon DEF PendingOf
    <3>2. CASE ~socket'[s].blocked /\ socket'[s].pending = NULL /\ socket'[s].written = 0
      <4>1. ~(socket'[s].written > 0)
        BY <3>2
      <4> QED
        BY <4>1, <3>2, <2>1, Zenon DEF PendingOf
    <3> QED
      BY <3>1, <3>2, <1>2, Zenon
  <2>2. CASE t # s
    <3>1. \A q \in Packets : packet[q].at = "pending" /\ packet[q].listen = t => packet'[q] = packet[q]
      BY <2>2, <1>1, <1>2, Zenon
    <3>2. ~(call.op = "write" /\ call.s = t) /\ socket'[t] = socket[t]
      BY <2>2, <1>2, Zenon DEF s
    <3> QED
      BY <3>1, <3>2, <1>6, PendingKept, Zenon
  <2> QED
    BY <2>1, <2>2, Zenon
<1>7. \A q \in Packets :
        \/ packet'[q] = packet[q]
        \/ packet'[q].listen = packet[q].listen /\ packet[q].at # "new" /\ packet'[q].at \notin {"new", "worker"}
  BY <1>1, <1>2, Zenon
<1>8. \A t \in Listeners : /\ socket'[t].state = socket[t].state
                           /\ socket'[t].outstanding = socket[t].outstanding
                           /\ ~Open(t) => socket'[t] = socket[t]
  BY <1>1, <1>2, Zenon
<1> QED
  BY <1>0, <1>3, <1>4, <1>5, <1>6, <1>7, <1>8, QuietKeeps, Zenon

-----------------------------------------------------------------------------
(* The handlers that end with fr_network_socket_dead *)

Kills == (\E s \in Listeners : Error(s)) \/ NoMessage \/ ReadFails \/ WriteFails \/ Written(FALSE)

LEMMA KillsKeeps ==
    ASSUME Counting, IInv, Kills
    PROVE  IInv'
<1>t. socket \in [Listeners -> SocketRec] /\ packet \in [Packets -> PacketRec]
  BY Zenon DEF IInv, Typed
<1>1. ASSUME NEW s \in Listeners, Open(s), call.op = "write" => call.s = s,
             Dies(s, socket[s], packet), UNCHANGED <<posting, exited>>
      PROVE  IInv'
  <2> DEFINE r == socket[s]
  <2>1. r \in SocketRec /\ r.state = "open" /\ r.outstanding = socket[s].outstanding
        /\ r.pending = socket[s].pending /\ Dies(s, r, packet)
    BY <1>1, <1>t, Zenon DEF Open
  <2> HIDE DEF r
  <2> QED
    BY <2>1, <1>1, <1>t, DiesKeeps, Zenon
<1>2. ASSUME NEW s \in Listeners, Error(s)
      PROVE  IInv'
  <2>1. Event /\ Open(s) /\ Dies(s, socket[s], packet) /\ UNCHANGED <<posting, exited>>
    BY <1>2, Zenon DEF Error
  <2>2. call.op # "write"
    BY <2>1, NoCallIs, Zenon DEF Event
  <2> QED
    BY <2>1, <2>2, <1>1, Zenon
<1>3. CASE NoMessage \/ ReadFails
  <2>1. call.op = "read" /\ Dies(call.s, socket[call.s], packet) /\ UNCHANGED <<posting, exited>>
    BY <1>3, Zenon DEF NoMessage, ReadFails
  <2>2. call.s \in Listeners /\ Open(call.s)
    BY <2>1, Zenon DEF IInv, CallSound
  <2> QED
    BY <2>1, <2>2, <1>1, Zenon
<1>4. CASE WriteFails \/ Written(FALSE)
  <2> DEFINE s == call.s  pk == Move(call.cd, "done")
             sk == [socket[s] EXCEPT !.written = 0, !.blocked = FALSE]
  <2>1. /\ call.op = "write" /\ UNCHANGED <<posting, exited>>
        /\ Dies(s, socket[s], pk) \/ Dies(s, sk, pk)
    BY <1>4, Zenon DEF WriteFails, Written
  <2>2. s \in Listeners /\ Open(s) /\ call.cd \in Packets
    BY <2>1, Zenon DEF IInv, CallSound
  <2>3. socket[s] \in SocketRec /\ socket[s].state = "open"
    BY <2>2, <1>t, Zenon DEF Open
  <2>4. /\ sk \in SocketRec /\ sk.state = socket[s].state /\ sk.outstanding = socket[s].outstanding
        /\ sk.pending = socket[s].pending
    BY <2>3, ClearedIs, Zenon
  <2>5. /\ pk \in [Packets -> PacketRec]
        /\ \A p \in Packets : \/ pk[p] = packet[p]
                              \/ p = call.cd /\ pk[p] = [packet[p] EXCEPT !.at = "done"]
    BY <2>2, <1>t, Zenon DEF Move, PacketRec, Places
  <2> DEFINE r == IF Dies(s, sk, pk) THEN sk ELSE socket[s]
  <2>6. /\ r \in SocketRec /\ r.state = "open" /\ r.outstanding = socket[s].outstanding
        /\ r.pending = socket[s].pending
    BY <2>3, <2>4, Zenon
  <2>7. Dies(s, r, pk)
    BY <2>1, Zenon
  <2> HIDE DEF r, sk, pk
  <2> QED
    BY <2>1, <2>2, <2>5, <2>6, <2>7, DiesKeeps, ZenonT(40)
<1> QED
  BY <1>2, <1>3, <1>4, Zenon DEF Kills

-----------------------------------------------------------------------------
(* A packet is sent, and its reply handed out *)

LEMMA AnsweredIs ==
    ASSUME NEW p, NEW r \in SocketRec
    PROVE  /\ Answered(p, r) \in SocketRec /\ Answered(p, r).state = r.state /\ Answered(p, r).dead = r.dead
           /\ Answered(p, r).blocked = r.blocked /\ Answered(p, r).pending = r.pending
           /\ Answered(p, r).written = r.written
           /\ packet[p].localized => Answered(p, r).outstanding = r.outstanding
           /\ ~packet[p].localized => Answered(p, r).outstanding = r.outstanding - 1
<1>1. CASE packet[p].localized
  BY <1>1, Zenon DEF Answered
<1>2. CASE ~packet[p].localized
  <2>1. Answered(p, r) = [r EXCEPT !.outstanding = @ - 1]
    BY <1>2, Zenon DEF Answered
  <2> QED
    BY <2>1, <1>2 DEF SocketRec
<1> QED
  BY <1>1, <1>2, Zenon

\* The count of a socket whose reply p is handed out
LEMMA TurnCounts ==
    ASSUME Counting, IInv, NEW p \in Packets, packet[p].at = "heap", NEW s \in Listeners, packet[p].listen = s, Open(s),
           packet'[p].listen = s, packet'[p].at \in {"done", "writing", "nowhere"},
           \A q \in Packets : q # p =>
             packet'[q] = packet[q] \/ (packet[q].at = "pending" /\ packet'[q].at = "done")
    PROVE  /\ \A t : t # s => Held(t)' = Held(t)
           /\ \A t : Of(t, {"worker"})' \subseteq Of(t, {"worker"})
           /\ packet[p].localized => Cardinality(Held(s)') = socket[s].outstanding
           /\ ~packet[p].localized => Cardinality(Held(s)') = socket[s].outstanding - 1
<1>1. \A t : p \notin Held(t)' /\ p \notin Of(t, {"worker"})' /\ (t # s => p \notin Held(t))
  BY Zenon DEF Held, Of
<1>2. p \in Held(s) <=> ~packet[p].localized
  BY Zenon DEF Held, Of
<1>3. Held(s)' = Held(s) \ {p}
  BY <1>1, OneHolds, Zenon
<1>4. socket[s].outstanding = Cardinality(Held(s))
  BY Zenon DEF IInv, Counts
<1>5. \A t : (t # s => Held(t)' = Held(t)) /\ Of(t, {"worker"})' \subseteq Of(t, {"worker"})
  <2>1. \A t : Held(t)' = Held(t) \ {p} /\ Of(t, {"worker"})' = Of(t, {"worker"}) \ {p}
    BY <1>1, OneHolds, Zenon
  <2> QED
    BY <2>1, <1>1, Zenon
<1>6. CASE packet[p].localized
  <2>1. Held(s)' = Held(s)
    BY <1>2, <1>3, <1>6, Zenon
  <2> QED
    BY <2>1, <1>4, <1>5, <1>6, Zenon
<1>7. CASE ~packet[p].localized
  <2>1. Cardinality(Held(s) \ {p}) = Cardinality(Held(s)) - 1
    BY <1>2, <1>7, HeldIs, Zenon DEF Counting
  <2> QED
    BY <2>1, <1>3, <1>4, <1>5, <1>7, Zenon
<1> QED
  BY <1>6, <1>7, Zenon

\* A turn of fr_network_post_event that leaves the socket
LEMMA TurnKeeps ==
    ASSUME Counting, IInv, NEW p \in Packets, PostTurn(p), NEW s \in Listeners, packet[p].listen = s, Open(s),
           NEW place \in {"done", "writing", "nowhere"}, packet' = Move(p, place),
           socket' = [socket EXCEPT ![s] = Answered(p, @)],
           call' \in CallRec, CallSound', UNCHANGED <<posting, exited>>
    PROVE  IInv'
<1> DEFINE r == socket[s]  c == Answered(p, socket[s])
<1>0. call.op = "none" /\ packet[p].at = "heap"
  BY NoCallIs, Zenon DEF PostTurn
<1>t. socket \in [Listeners -> SocketRec] /\ r \in SocketRec
  BY Zenon DEF IInv, Typed
<1>s. socket' = [socket EXCEPT ![s] = c] /\ c = Answered(p, r)
  BY Zenon
<1>r. r = socket[s]
  BY Zenon
<1> HIDE DEF c, r
<1>c. /\ c \in SocketRec /\ c.state = r.state /\ c.dead = r.dead /\ c.blocked = r.blocked
      /\ c.pending = r.pending /\ c.written = r.written
      /\ packet[p].localized => c.outstanding = r.outstanding
      /\ ~packet[p].localized => c.outstanding = r.outstanding - 1
  <2>1. /\ Answered(p, r) \in SocketRec /\ Answered(p, r).state = r.state /\ Answered(p, r).dead = r.dead
        /\ Answered(p, r).blocked = r.blocked /\ Answered(p, r).pending = r.pending
        /\ Answered(p, r).written = r.written
        /\ packet[p].localized => Answered(p, r).outstanding = r.outstanding
        /\ ~packet[p].localized => Answered(p, r).outstanding = r.outstanding - 1
    BY <1>t, AnsweredIs, Zenon
  <2>2. c = Answered(p, r)
    BY <1>s, Zenon
  <2> QED
    BY <2>1, <2>2, Zenon
<1>1. socket' \in [Listeners -> SocketRec] /\ socket'[s] = c /\ \A t \in Listeners : t # s => socket'[t] = socket[t]
  <2>1. c \in SocketRec /\ socket' = [socket EXCEPT ![s] = c]
    BY <1>c, <1>s, Zenon
  <2> QED
    BY <2>1, <1>t
<1>2. /\ packet' \in [Packets -> PacketRec]
      /\ packet'[p].at = place /\ packet'[p].listen = s
      /\ \A q \in Packets : q # p => packet'[q] = packet[q]
  <2>1. Typed /\ place \in Places
    BY Zenon DEF IInv, Places
  <2> QED
    BY <2>1, MoveIs, Zenon
<1>3. /\ \A t : t # s => Held(t)' = Held(t)
      /\ \A t : Of(t, {"worker"})' \subseteq Of(t, {"worker"})
      /\ packet[p].localized => Cardinality(Held(s)') = r.outstanding
      /\ ~packet[p].localized => Cardinality(Held(s)') = r.outstanding - 1
  BY <1>0, <1>2, <1>r, TurnCounts, Zenon
<1>4. Typed'
  BY <1>1, <1>2, Zenon DEF IInv, Typed
<1>o. \A t \in Listeners : (Open(t)' <=> Open(t)) /\ socket'[t].state = socket[t].state
  BY <1>1, <1>c, <1>r, Zenon DEF Open
<1>5. PacketsSound'
  <2>1. \A q \in Packets :
          \/ packet'[q] = packet[q]
          \/ packet'[q].listen = packet[q].listen /\ packet[q].at # "new" /\ packet'[q].at \notin {"new", "worker"}
    BY <1>0, <1>2, Zenon
  <2> QED
    BY <2>1, <1>o, PacketsKept, Zenon
<1>6. ClosedSound'
  <2>1. \A t \in Listeners : Open(t)' \/ socket'[t] = socket[t]
    BY <1>1, <1>o, Zenon
  <2> QED
    BY <2>1, <1>3, ClosedKept, Zenon
<1>7. Counts'
  <2> SUFFICES ASSUME NEW t \in Listeners, Open(t)'
               PROVE  socket'[t].outstanding = Cardinality(Held(t)')
    BY Zenon DEF Counts
  <2>1. CASE t # s
    <3>1. socket[t].outstanding = Cardinality(Held(t))
      BY <1>o, Zenon DEF IInv, Counts
    <3>2. socket'[t] = socket[t] /\ Held(t)' = Held(t)
      BY <2>1, <1>1, <1>3, Zenon
    <3> QED
      BY <3>1, <3>2, Zenon
  <2>2. CASE t = s
    BY <2>2, <1>1, <1>3, <1>c, Zenon
  <2> QED
    BY <2>1, <2>2, Zenon
<1>8. PendingSound'
  <2> SUFFICES ASSUME NEW t \in Listeners, Open(t)
               PROVE  PendingOf(t)'
    BY <1>o, Zenon DEF PendingSound
  <2>1. \A q \in Packets : packet[q].at = "pending" /\ packet[q].listen = t => packet'[q] = packet[q]
    BY <1>0, <1>2, Zenon
  <2>2. /\ socket'[t].dead = socket[t].dead /\ socket'[t].blocked = socket[t].blocked
        /\ socket'[t].pending = socket[t].pending /\ socket'[t].written = socket[t].written
    BY <1>1, <1>c, <1>r, Zenon
  <2>3. call.op # "write"
    BY <1>0, Zenon
  <2> QED
    BY <2>1, <2>2, <2>3, PendingKept, Zenon
<1> QED
  BY <1>4, <1>5, <1>6, <1>7, <1>8, Zenon DEF IInv

\* The last reply of a dead socket: the socket is freed.
LEMMA LastTurnKeeps ==
    ASSUME Counting, IInv, NEW p \in Packets, PostTurn(p), NEW s \in Listeners, packet[p].listen = s, Open(s),
           Answered(p, socket[s]).outstanding = 0,
           socket' = [socket EXCEPT ![s] = Freed], packet' = FreeReplies(Move(p, "done"), s),
           UNCHANGED <<call, posting, exited>>
    PROVE  IInv'
<1>0. call = NoCall /\ call' = NoCall /\ call.op = "none" /\ packet[p].at = "heap"
  BY NoCallIs, Zenon DEF PostTurn
<1>t. socket \in [Listeners -> SocketRec] /\ packet \in [Packets -> PacketRec]
  BY Zenon DEF IInv, Typed
<1>1. socket' \in [Listeners -> SocketRec] /\ socket'[s] = Freed /\ \A t \in Listeners : t # s => socket'[t] = socket[t]
  BY <1>t, UnusedIs, Zenon
<1>2. /\ packet' \in [Packets -> PacketRec]
      /\ packet'[p].at = "done" /\ packet'[p].listen = s
      /\ \A q \in Packets : q # p =>
           \/ packet'[q] = packet[q]
           \/ /\ packet[q].at = "pending" /\ packet'[q].at = "done" /\ packet[q].listen = s /\ packet'[q].listen = s
  <2> DEFINE pk == Move(p, "done")
  <2>1. /\ pk \in [Packets -> PacketRec] /\ pk[p].at = "done" /\ pk[p].listen = packet[p].listen
        /\ \A q \in Packets : q # p => pk[q] = packet[q]
    BY <1>t, Zenon DEF Move, PacketRec, Places
  <2>2. packet' = FreeReplies(pk, s)
    BY Zenon
  <2> HIDE DEF pk
  <2>3. /\ packet' \in [Packets -> PacketRec]
        /\ \A q \in Packets :
             \/ packet'[q] = pk[q]
             \/ pk[q].listen = s /\ pk[q].at = "pending" /\ packet'[q] = [pk[q] EXCEPT !.at = "done"]
    <3>1. /\ FreeReplies(pk, s) \in [Packets -> PacketRec]
          /\ \A q \in Packets :
               \/ FreeReplies(pk, s)[q] = pk[q]
               \/ pk[q].listen = s /\ pk[q].at = "pending" /\ FreeReplies(pk, s)[q] = [pk[q] EXCEPT !.at = "done"]
      <4>1. pk \in [Packets -> PacketRec]
        BY <2>1, Zenon
      <4> QED
        BY <4>1, FreeRepliesIs
    <3> QED
      BY <3>1, <2>2, Zenon
  <2>4. packet'[p] = pk[p]
    BY <2>1, <2>3, Zenon
  <2>5. ASSUME NEW q \in Packets, q # p
        PROVE  \/ packet'[q] = packet[q]
               \/ packet[q].at = "pending" /\ packet'[q].at = "done" /\ packet[q].listen = s /\ packet'[q].listen = s
    <3>1. CASE packet'[q] = pk[q]
      BY <3>1, <2>1, <2>5, Zenon
    <3>2. CASE pk[q].listen = s /\ pk[q].at = "pending" /\ packet'[q] = [pk[q] EXCEPT !.at = "done"]
      <4>1. pk[q] = packet[q] /\ pk[q] \in PacketRec
        BY <2>1, <2>5, Zenon
      <4>2. packet'[q].at = "done" /\ packet'[q].listen = pk[q].listen
        BY <3>2, <4>1, DoneIs, Zenon
      <4> QED
        BY <3>2, <4>1, <4>2, Zenon
    <3> QED
      BY <3>1, <3>2, <2>3, Zenon
  <2> QED
    BY <2>1, <2>3, <2>4, <2>5, Zenon
<1>3. /\ \A t : t # s => Held(t)' = Held(t)
      /\ \A t : Of(t, {"worker"})' \subseteq Of(t, {"worker"})
      /\ packet[p].localized => Cardinality(Held(s)') = socket[s].outstanding
      /\ ~packet[p].localized => Cardinality(Held(s)') = socket[s].outstanding - 1
  <2>1. /\ packet'[p].at \in {"done", "writing", "nowhere"}
        /\ \A q \in Packets : q # p =>
             packet'[q] = packet[q] \/ (packet[q].at = "pending" /\ packet'[q].at = "done")
    BY <1>2, Zenon
  <2> QED
    BY <2>1, <1>0, <1>2, TurnCounts, Zenon
<1>4. Of(s, {"worker"})' = {}
  <2> DEFINE r == socket[s]  c == Answered(p, socket[s])
  <2>1. r \in SocketRec /\ c = Answered(p, r) /\ c.outstanding = 0
    BY <1>t, Zenon
  <2>r. r = socket[s]
    BY Zenon
  <2> HIDE DEF r, c
  <2>2. /\ packet[p].localized => c.outstanding = r.outstanding
        /\ ~packet[p].localized => c.outstanding = r.outstanding - 1
    <3>1. /\ packet[p].localized => Answered(p, r).outstanding = r.outstanding
          /\ ~packet[p].localized => Answered(p, r).outstanding = r.outstanding - 1
      BY <2>1, AnsweredIs, Zenon
    <3> QED
      BY <3>1, <2>1, Zenon
  <2>3. Cardinality(Held(s)') = 0
    BY <2>1, <2>2, <2>r, <1>3, Zenon
  <2>4. Held(s)' \in SUBSET Packets
    BY Zenon DEF Held, Of
  <2>5. Held(s)' = {}
    BY <2>3, <2>4, Zenon DEF Counting
  <2>6. ASSUME NEW q \in Of(s, {"worker"})'
        PROVE  FALSE
    <3>1. q \in Of(s, {"worker"})
      BY <1>3, <2>6, Zenon
    <3>2. q \in Packets /\ packet[q].at = "worker" /\ ~packet[q].localized /\ packet[q].listen = s
      BY <3>1, Zenon DEF Of, IInv, PacketsSound
    <3>3. packet'[q] = packet[q]
      BY <3>2, <1>0, <1>2, Zenon
    <3>4. q \in Held(s)'
      BY <3>2, <3>3, Zenon DEF Held, Of
    <3> QED
      BY <3>4, <2>5, Zenon
  <2> QED
    BY <2>6, Zenon
<1>5. Typed'
  BY <1>0, <1>1, <1>2, NoCallIs, ZenonT(40) DEF IInv, Typed
<1>6. CallSound'
  BY <1>0, NoCallIs, Zenon DEF CallSound
<1>f. socket'[s].state = "freed" /\ ~Open(s)'
  BY <1>1, UnusedIs, Zenon DEF Open
<1>7. PacketsSound'
  <2>1. \A q \in Packets :
          \/ packet'[q] = packet[q]
          \/ packet'[q].listen = packet[q].listen /\ packet[q].at # "new" /\ packet'[q].at \notin {"new", "worker"}
    BY <1>0, <1>2, Zenon
  <2>2. \A t \in Listeners : socket[t].state # "none" => socket'[t].state # "none"
    BY <1>1, <1>f, Zenon
  <2> QED
    BY <2>1, <2>2, PacketsKept, Zenon
<1>8. ClosedSound'
  <2> SUFFICES ASSUME NEW t \in Listeners
               PROVE  /\ ~Open(t)' => socket'[t] \in {Unused, Freed}
                      /\ socket'[t].state = "freed" /\ ~exited' => Of(t, {"worker"})' = {}
    BY Zenon DEF ClosedSound
  <2>1. CASE t = s
    BY <2>1, <1>1, <1>4, Zenon
  <2>2. CASE t # s
    <3>1. /\ ~Open(t) => socket[t] \in {Unused, Freed}
          /\ socket[t].state = "freed" /\ ~exited => Of(t, {"worker"}) = {}
      BY Zenon DEF IInv, ClosedSound
    <3>2. socket'[t] = socket[t] /\ (Open(t)' <=> Open(t)) /\ exited' = exited
      BY <2>2, <1>1, Zenon DEF Open
    <3>3. Of(t, {"worker"})' \subseteq Of(t, {"worker"})
      BY <1>3, Zenon
    <3>4. socket'[t].state = "freed" /\ ~exited' => Of(t, {"worker"})' = {}
      BY <3>1, <3>2, <3>3
    <3> QED
      BY <3>1, <3>2, <3>4, Zenon
  <2> QED
    BY <2>1, <2>2, Zenon
<1>9. Counts'
  <2> SUFFICES ASSUME NEW t \in Listeners, Open(t)'
               PROVE  socket'[t].outstanding = Cardinality(Held(t)')
    BY Zenon DEF Counts
  <2>1. t # s /\ Open(t) /\ socket'[t] = socket[t]
    BY <1>1, <1>f, Zenon DEF Open
  <2> QED
    BY <2>1, <1>3, Zenon DEF IInv, Counts
<1>10. PendingSound'
  <2> SUFFICES ASSUME NEW t \in Listeners, Open(t)'
               PROVE  PendingOf(t)'
    BY Zenon DEF PendingSound
  <2>1. t # s /\ Open(t) /\ socket'[t] = socket[t]
    BY <1>1, <1>f, Zenon DEF Open
  <2>2. \A q \in Packets : packet[q].at = "pending" /\ packet[q].listen = t => packet'[q] = packet[q]
    BY <2>1, <1>0, <1>2, Zenon
  <2>3. call.op # "write"
    BY <1>0, Zenon
  <2> QED
    BY <2>1, <2>2, <2>3, PendingKept, Zenon
<1> QED
  BY <1>5, <1>6, <1>7, <1>8, <1>9, <1>10, Zenon DEF IInv

\* A turn of fr_network_post_event
Turn(p) == DeadTurn(p) \/ EmptyTurn(p) \/ WriteTurn(p) \/ PendingTurn(p)

LEMMA TurnsKeep ==
    ASSUME Counting, IInv, NEW p \in Packets, Turn(p)
    PROVE  IInv'
<1> DEFINE s == packet[p].listen
<1>1. PostTurn(p) /\ Open(s) /\ posting' = posting /\ exited' = exited
  BY Zenon DEF Turn, DeadTurn, EmptyTurn, WriteTurn, PendingTurn
<1>2. call = NoCall /\ packet[p].at = "heap"
  BY <1>1, Zenon DEF PostTurn
<1>3. s \in Listeners
  BY <1>2, Zenon DEF IInv, PacketsSound
<1>4. call' = call => call' \in CallRec /\ CallSound'
  BY <1>2, NoCallIs, Zenon DEF CallSound
<1>5. CASE DeadTurn(p)
  <2>1. /\ call' = call
        /\ socket' = [socket EXCEPT ![s] = IF Answered(p, socket[s]).outstanding = 0 THEN Freed
                                           ELSE Answered(p, socket[s])]
        /\ packet' = IF Answered(p, socket[s]).outstanding = 0 THEN FreeReplies(Move(p, "done"), s)
                     ELSE Move(p, "done")
    BY <1>5, Zenon DEF DeadTurn
  <2>2. CASE Answered(p, socket[s]).outstanding = 0
    BY <2>1, <2>2, <1>1, <1>3, LastTurnKeeps, Zenon
  <2>3. CASE Answered(p, socket[s]).outstanding # 0
    <3>1. packet' = Move(p, "done") /\ socket' = [socket EXCEPT ![s] = Answered(p, @)]
      BY <2>1, <2>3, Zenon
    <3> QED
      BY <3>1, <2>1, <1>1, <1>3, <1>4, TurnKeeps, Zenon
  <2> QED
    BY <2>2, <2>3, Zenon
<1>6. CASE EmptyTurn(p) \/ PendingTurn(p)
  <2>1. /\ call' = call /\ socket' = [socket EXCEPT ![s] = Answered(p, @)]
        /\ packet' = Move(p, "done") \/ packet' = Move(p, "nowhere")
    BY <1>6, Zenon DEF EmptyTurn, PendingTurn
  <2> QED
    BY <2>1, <1>1, <1>3, <1>4, TurnKeeps, Zenon
<1>7. CASE WriteTurn(p)
  <2>1. /\ call' = [NoCall EXCEPT !.op = "write", !.s = s, !.cd = p] /\ socket' = [socket EXCEPT ![s] = Answered(p, @)]
        /\ packet' = Move(p, "writing") /\ socket[s].pending = NULL /\ ~socket[s].dead
    BY <1>7, Zenon DEF WriteTurn
  <2>2. call' \in CallRec /\ call'.op = "write" /\ call'.s = s /\ call'.cd = p
    <3> HIDE DEF s
    <3>1. \A q \in Packets :
            /\ [NoCall EXCEPT !.op = "write", !.s = s, !.cd = q] \in CallRec
            /\ [NoCall EXCEPT !.op = "write", !.s = s, !.cd = q].op = "write"
            /\ [NoCall EXCEPT !.op = "write", !.s = s, !.cd = q].s = s
            /\ [NoCall EXCEPT !.op = "write", !.s = s, !.cd = q].cd = q
      BY <1>3, NoCallIs, Zenon
    <3> QED
      BY <2>1, <3>1, Zenon
  <2>3. packet'[p].at = "writing" /\ packet'[p].listen = s
    <3>1. Typed /\ "writing" \in Places
      BY Zenon DEF IInv, Places
    <3> QED
      BY <3>1, <2>1, MoveIs, Zenon
  <2>4. socket'[s].state = "open" /\ ~socket'[s].dead /\ socket'[s].pending = NULL
    <3> DEFINE r == socket[s]
    <3>1. socket \in [Listeners -> SocketRec]
      BY Zenon DEF IInv, Typed
    <3>2. socket'[s] = Answered(p, r) /\ r \in SocketRec /\ r.state = "open" /\ ~r.dead /\ r.pending = NULL
      BY <3>1, <2>1, <1>1, <1>3, Zenon DEF Open
    <3> HIDE DEF r
    <3>3. Answered(p, r).state = r.state /\ Answered(p, r).dead = r.dead /\ Answered(p, r).pending = r.pending
      BY <3>2, AnsweredIs, Zenon
    <3> QED
      BY <3>2, <3>3, Zenon
  <2>5. CallSound'
    BY <2>2, <2>3, <2>4, <1>3, Zenon DEF CallSound, Open
  <2> QED
    BY <2>1, <2>2, <2>5, <1>1, <1>3, TurnKeeps, Zenon
<1> QED
  BY <1>5, <1>6, <1>7, Zenon DEF Turn

\* A packet is sent to a worker, and counted, or it is dropped.
LEMMA ReadPacketKeeps ==
    ASSUME Counting, IInv, NEW p \in Packets, NEW sent \in BOOLEAN, NEW next \in BOOLEAN, ReadPacket(p, sent, next)
    PROVE  IInv'
<1>0. PICK s : s = call.s
  BY Zenon
<1> DEFINE n == Counted(socket[s].outstanding, sent)
           v == [at |-> IF sent THEN "worker" ELSE "done", listen |-> s, localized |-> FALSE]
           c == [socket[s] EXCEPT !.cd = FALSE, !.outstanding = n]
<1>1. /\ call.op = "read" /\ call.n <= Burst /\ packet[p].at = "new"
      /\ packet' = [packet EXCEPT ![p] = v]
      /\ call' = IF next THEN [call EXCEPT !.n = @ + 1] ELSE NoCall
      /\ posting' = posting /\ exited' = exited
  BY <1>0, Zenon DEF ReadPacket
<1>2. s \in Listeners /\ Open(s)
  BY <1>0, <1>1, Zenon DEF IInv, CallSound
<1>t. /\ socket \in [Listeners -> SocketRec] /\ packet \in [Packets -> PacketRec] /\ call \in CallRec
      /\ socket[s] \in SocketRec
  BY <1>2, Zenon DEF IInv, Typed
<1>n. n \in Int /\ (sent => n = socket[s].outstanding + 1) /\ (~sent => n = socket[s].outstanding)
  BY <1>t DEF Counted, SocketRec
<1>c. /\ c \in SocketRec /\ c.state = socket[s].state /\ c.outstanding = n
      /\ c.dead = socket[s].dead /\ c.blocked = socket[s].blocked
      /\ c.pending = socket[s].pending /\ c.written = socket[s].written
  <2> DEFINE r == socket[s]
  <2> HIDE DEF n, r
  <2>1. r \in SocketRec /\ n \in Int
    BY <1>t, <1>n, Zenon DEF r
  <2>2. ASSUME NEW d, d = [r EXCEPT !.cd = FALSE, !.outstanding = n]
        PROVE  /\ d \in SocketRec /\ d.state = r.state /\ d.outstanding = n
               /\ d.dead = r.dead /\ d.blocked = r.blocked /\ d.pending = r.pending /\ d.written = r.written
    BY <2>1, <2>2, Zenon DEF SocketRec
  <2> QED
    BY <2>2, Zenon DEF r
<1>s. socket' = [socket EXCEPT ![s] = c]
  <2>1. socket' = [socket EXCEPT ![s].cd = FALSE, ![s].outstanding = Counted(@, sent)]
    BY <1>0, Zenon DEF ReadPacket
  <2> QED
    BY <2>1, <1>2, <1>t, Zenon DEF SocketRec
<1>3. /\ packet' \in [Packets -> PacketRec] /\ packet'[p] = v
      /\ \A q \in Packets : q # p => packet'[q] = packet[q]
  <2>1. v \in PacketRec
    BY <1>2, Zenon DEF PacketRec, Places
  <2> HIDE DEF v
  <2> QED
    BY <2>1, <1>1, <1>t, Zenon
<1>4. packet'[p].listen = s /\ ~packet'[p].localized /\ packet'[p].at \in {"worker", "done"}
      /\ (packet'[p].at = "worker" <=> sent)
  BY <1>3
<1> HIDE DEF c, n, v
<1>5. /\ socket' \in [Listeners -> SocketRec] /\ socket'[s] = c
      /\ \A t \in Listeners : t # s => socket'[t] = socket[t]
  <2>1. c \in SocketRec
    BY <1>c, Zenon
  <2> QED
    BY <2>1, <1>s, <1>2, <1>t, Zenon
<1>6. call' \in CallRec /\ (call' = NoCall \/ (call'.op = "read" /\ call'.s = s))
  <2>1. CASE next
    <3>1. call' = [call EXCEPT !.n = @ + 1]
      BY <2>1, <1>1, Zenon
    <3> QED
      BY <3>1, <1>0, <1>1, <1>t, SocketAssumption DEF CallRec
  <2>2. CASE ~next
    BY <2>2, <1>1, NoCallIs, Zenon
  <2> QED
    BY <2>1, <2>2, Zenon
<1>7. Typed'
  BY <1>1, <1>3, <1>5, <1>6, Zenon DEF IInv, Typed
<1>o. \A t \in Listeners : (Open(t)' <=> Open(t)) /\ socket'[t].state = socket[t].state
  BY <1>5, <1>c, Zenon DEF Open
<1>8. CallSound'
  <2>1. CASE call' = NoCall
    BY <2>1, NoCallIs, Zenon DEF CallSound
  <2>2. CASE call'.op = "read" /\ call'.s = s
    <3>1. Open(s)'
      BY <1>o, <1>2, Zenon
    <3> QED
      BY <2>2, <3>1, <1>2, Zenon DEF CallSound, Open
  <2> QED
    BY <2>1, <2>2, <1>6, Zenon
<1>9. PacketsSound'
  <2>1. \A q \in Packets :
          \/ packet'[q] = packet[q]
          \/ /\ packet'[q].at # "new" /\ packet'[q].listen \in Listeners /\ Open(packet'[q].listen)
             /\ packet'[q].at = "worker" => ~packet'[q].localized
    BY <1>2, <1>3, <1>4, Zenon
  <2> QED
    BY <2>1, <1>o, PacketsKept, Zenon
<1>h. /\ \A t : t # s => Held(t)' = Held(t) /\ Of(t, {"worker"})' \subseteq Of(t, {"worker"})
      /\ p \notin Held(s) /\ (sent => Held(s)' = Held(s) \cup {p}) /\ (~sent => Held(s)' = Held(s))
  <2>1. /\ \A t : t # s => p \notin Held(t)' /\ p \notin Of(t, {"worker"})'
        /\ \A t : p \notin Held(t)
        /\ p \in Held(s)' <=> sent
    BY <1>1, <1>4, Zenon DEF Held, Of
  <2>2. \A t : /\ p \in Held(t)' => Held(t)' = Held(t) \cup {p}
               /\ p \notin Held(t)' => Held(t)' = Held(t) \ {p}
               /\ p \notin Of(t, {"worker"})' => Of(t, {"worker"})' = Of(t, {"worker"}) \ {p}
    BY <1>3, OneHolds, Zenon
  <2>3. \A t : Held(t) \ {p} = Held(t)
    BY <2>1, Zenon
  <2>4. \A t : Of(t, {"worker"}) \ {p} \subseteq Of(t, {"worker"})
    BY Zenon
  <2> QED
    BY <2>1, <2>2, <2>3, <2>4, Zenon
<1>10. ClosedSound'
  <2>1. \A t \in Listeners : Open(t)' \/ (socket'[t] = socket[t] /\ Of(t, {"worker"})' \subseteq Of(t, {"worker"}))
    <3>1. Open(s)'
      BY <1>o, <1>2, Zenon
    <3> QED
      BY <3>1, <1>5, <1>h, Zenon
  <2> QED
    BY <2>1, <1>1, ClosedKept, Zenon
<1>11. Counts'
  <2> SUFFICES ASSUME NEW t \in Listeners, Open(t)'
               PROVE  socket'[t].outstanding = Cardinality(Held(t)')
    BY Zenon DEF Counts
  <2>1. socket[t].outstanding = Cardinality(Held(t))
    BY <1>o, Zenon DEF IInv, Counts
  <2>2. CASE t # s
    <3>1. socket'[t] = socket[t] /\ Held(t)' = Held(t)
      BY <2>2, <1>5, <1>h, Zenon
    <3> QED
      BY <3>1, <2>1, Zenon
  <2>3. CASE t = s /\ sent
    <3>1. Cardinality(Held(s) \cup {p}) = Cardinality(Held(s)) + 1
      <4> DEFINE H == Held(s)
      <4>1. p \notin H /\ H \in SUBSET Packets
        BY <1>h, HeldIs, Zenon
      <4> HIDE DEF H
      <4>2. Cardinality(H \cup {p}) = Cardinality(H) + 1
        BY <4>1, CountAdd, Zenon
      <4> QED
        BY <4>2, Zenon DEF H
    <3>2. socket'[t].outstanding = socket[t].outstanding + 1 /\ Held(s)' = Held(s) \cup {p}
      BY <2>3, <1>5, <1>c, <1>n, <1>h, Zenon
    <3> QED
      BY <3>1, <3>2, <2>1, <2>3, Zenon
  <2>4. CASE t = s /\ ~sent
    <3>1. socket'[t].outstanding = socket[t].outstanding /\ Held(s)' = Held(s)
      BY <2>4, <1>5, <1>c, <1>n, <1>h, Zenon
    <3> QED
      BY <3>1, <2>1, <2>4, Zenon
  <2> QED
    BY <2>2, <2>3, <2>4, Zenon
<1>12. PendingSound'
  <2> SUFFICES ASSUME NEW t \in Listeners, Open(t)
               PROVE  PendingOf(t)'
    BY <1>o, Zenon DEF PendingSound
  <2>1. \A q \in Packets : packet[q].at = "pending" /\ packet[q].listen = t => packet'[q] = packet[q]
    BY <1>1, <1>3, Zenon
  <2>2. /\ socket'[t].dead = socket[t].dead /\ socket'[t].blocked = socket[t].blocked
        /\ socket'[t].pending = socket[t].pending /\ socket'[t].written = socket[t].written
    BY <1>5, <1>c, Zenon
  <2>3. call.op # "write"
    BY <1>1, Zenon
  <2> QED
    BY <2>1, <2>2, <2>3, PendingKept, Zenon
<1> QED
  BY <1>7, <1>8, <1>9, <1>10, <1>11, <1>12, Zenon DEF IInv

\* fr_network_destroy: what workers still hold has no socket any more.
LEMMA DestroyKeeps ==
    ASSUME IInv, Destroy
    PROVE  IInv'
<1>1. /\ Event /\ exited' = TRUE /\ call' = call /\ posting' = posting
      /\ socket' = [s \in Listeners |-> IF Open(s) THEN Freed ELSE socket[s]]
      /\ packet' = [p \in Packets |-> IF packet[p].at \in {"heap", "pending"}
                                      THEN [packet[p] EXCEPT !.at = "done"] ELSE packet[p]]
  BY Zenon DEF Destroy
<1>t. socket \in [Listeners -> SocketRec] /\ packet \in [Packets -> PacketRec]
  BY Zenon DEF IInv, Typed
<1>2. call' = NoCall
  BY <1>1, Zenon DEF Event
<1>3. \A s \in Listeners : \/ Open(s) /\ socket'[s] = Freed
                           \/ ~Open(s) /\ socket'[s] = socket[s]
  BY <1>1, Zenon
<1>4. \A s \in Listeners : /\ ~Open(s)' /\ socket'[s] \in {Unused, Freed}
                           /\ socket[s].state # "none" => socket'[s].state # "none"
  <2> SUFFICES ASSUME NEW s \in Listeners
               PROVE  /\ ~Open(s)' /\ socket'[s] \in {Unused, Freed}
                      /\ socket[s].state # "none" => socket'[s].state # "none"
    BY Zenon
  <2>1. CASE Open(s) /\ socket'[s] = Freed
    BY <2>1, UnusedIs, Zenon DEF Open
  <2>2. CASE ~Open(s) /\ socket'[s] = socket[s]
    BY <2>2, Zenon DEF IInv, ClosedSound, Open
  <2> QED
    BY <2>1, <2>2, <1>3, Zenon
<1>5. socket' \in [Listeners -> SocketRec]
  BY <1>1, <1>t, UnusedIs, Zenon
<1>6. /\ packet' \in [Packets -> PacketRec]
      /\ \A p \in Packets :
           \/ packet'[p] = packet[p]
           \/ packet'[p].listen = packet[p].listen /\ packet[p].at # "new" /\ packet'[p].at \notin {"new", "worker"}
  BY <1>1, <1>t, Zenon DEF PacketRec, Places
<1>7. Typed'
  <2>1. posting' \in BOOLEAN /\ exited' \in BOOLEAN
    BY <1>1, Zenon DEF IInv, Typed
  <2>2. call' \in CallRec
    BY <1>2, NoCallIs, Zenon
  <2> QED
    BY <2>1, <2>2, <1>5, <1>6, Zenon DEF Typed
<1>8. CallSound'
  BY <1>2, NoCallIs, Zenon DEF CallSound
<1>9. PacketsSound'
  BY <1>4, <1>6, PacketsKept, Zenon
<1>10. ClosedSound' /\ Counts' /\ PendingSound'
  BY <1>1, <1>4, Zenon DEF ClosedSound, Counts, PendingSound
<1> QED
  BY <1>7, <1>8, <1>9, <1>10, Zenon DEF IInv

-----------------------------------------------------------------------------
(* The theorem *)

LEMMA InitIInv ==
    Init => IInv
<1> SUFFICES ASSUME Init
             PROVE  IInv
  BY Zenon
<1>1. /\ socket = [s \in Listeners |-> Unused] /\ packet = [p \in Packets |-> NewPacket]
      /\ call = NoCall /\ posting = FALSE /\ exited = FALSE
  BY Zenon DEF Init
<1>2. NewPacket \in PacketRec /\ NewPacket.at = "new" /\ NewPacket.listen = NULL
  BY Zenon DEF NewPacket, PacketRec, Places
<1>3. \A s \in Listeners : socket[s] = Unused /\ socket[s].state = "none" /\ ~Open(s)
  BY <1>1, UnusedIs, Zenon DEF Open
<1>4. \A p \in Packets : packet[p].at = "new" /\ packet[p].listen = NULL
  BY <1>1, <1>2, Zenon
<1>5. Typed
  BY <1>1, <1>2, UnusedIs, NoCallIs, Zenon DEF Typed
<1>6. CallSound
  BY <1>1, NoCallIs, Zenon DEF CallSound
<1>7. PacketsSound
  BY <1>4, Zenon DEF PacketsSound
<1>8. ClosedSound
  BY <1>3, Zenon DEF ClosedSound
<1>9. Counts /\ PendingSound
  BY <1>3, Zenon DEF Counts, PendingSound
<1> QED
  BY <1>5, <1>6, <1>7, <1>8, <1>9, Zenon DEF IInv

LEMMA NextIInv ==
    ASSUME Counting, IInv, [Next]_vars
    PROVE  IInv'
<1>1. CASE Writes
  BY <1>1, WriteKeeps, Zenon
<1>2. CASE Kills
  BY <1>2, KillsKeeps, Zenon
<1>3. ASSUME NEW s \in Listeners, Listen(s) \/ ReadBegins(s) \/ WriteReady(s)
      PROVE  IInv'
  BY <1>3, ListenKeeps, ReadBeginsKeeps, WriteReadyKeeps, Zenon
<1>4. ASSUME NEW s \in Listeners, NEW p \in Packets, ListenWrite(s, p)
      PROVE  IInv'
  BY <1>4, ListenWriteKeeps, Zenon
<1>5. ASSUME NEW p \in Packets, NEW sent \in BOOLEAN, NEW next \in BOOLEAN, ReadPacket(p, sent, next)
      PROVE  IInv'
  BY <1>5, ReadPacketKeeps, Zenon
<1>6. ASSUME NEW p \in Packets, RecvReply(p) \/ NullReply(p)
      PROVE  IInv'
  BY <1>6, AnswerKeeps, Zenon
<1>7. ASSUME NEW p \in Packets, NoSocket(p)
      PROVE  IInv'
  BY <1>7, NoSocketKeeps, Zenon
<1>8. ASSUME NEW p \in Packets, Turn(p)
      PROVE  IInv'
  BY <1>8, TurnsKeep, Zenon
<1>9. CASE ReadEnds
  BY <1>9, ReadEndsKeeps, Zenon
<1>10. CASE PostBegins \/ PostEnds
  BY <1>10, PostKeeps, Zenon
<1>11. CASE Destroy
  BY <1>11, DestroyKeeps, Zenon
<1>12. CASE UNCHANGED vars
  <2>1. socket' = socket /\ packet' = packet /\ call' = call /\ posting' = posting /\ exited' = exited
    BY <1>12, Zenon DEF vars
  <2>2. Typed' /\ CallSound'
    BY <2>1, Zenon DEF IInv, Typed, CallSound, Open
  <2>3. \A t \in Listeners : Open(t) => PendingOf(t)'
    BY <2>1, PendingKept, Zenon
  <2> QED
    BY <2>1, <2>2, <2>3, StillHold, QuietKeeps, Zenon
<1>13. CASE \E removed \in BOOLEAN : Written(removed)
  <2>1. Written(TRUE) \/ Written(FALSE)
    BY <1>13, Zenon
  <2> QED
    BY <2>1, <1>1, <1>2, Zenon DEF Writes, Kills
<1>14. CASE Next
  BY <1>14, <1>1, <1>2, <1>3, <1>4, <1>5, <1>6, <1>7, <1>8, <1>9, <1>10, <1>11, <1>13, Zenon
     DEF Next, Writes, Kills, Turn
<1> QED
  BY <1>12, <1>14, Zenon

LEMMA IInvImplies ==
    ASSUME Counting, IInv
    PROVE  SocketsAccounted
<1>1. ASSUME NEW s \in Listeners
      PROVE  socket[s].outstanding \in 0 .. Cardinality(Packets)
  <2>1. CASE Open(s)
    <3>1. socket[s].outstanding = Cardinality(Held(s))
      BY <2>1, Zenon DEF IInv, Counts
    <3>2. /\ Cardinality(Held(s)) \in Nat /\ Cardinality(Packets) \in Nat
          /\ Cardinality(Held(s)) <= Cardinality(Packets)
      <4>1. Packets \in SUBSET Packets
        BY Zenon
      <4> QED
        BY <4>1, HeldIs, Zenon DEF Counting
    <3> QED
      BY <3>1, <3>2
  <2>2. CASE ~Open(s)
    <3>1. socket[s].outstanding = 0
      BY <2>2, UnusedIs, Zenon DEF IInv, ClosedSound
    <3>2. Cardinality(Packets) \in Nat
      <4>1. Packets \in SUBSET Packets
        BY Zenon
      <4> QED
        BY <4>1, Zenon DEF Counting
    <3> QED
      BY <3>1, <3>2
  <2> QED
    BY <2>1, <2>2, Zenon
<1>2. \A s \in Listeners :
        /\ socket[s].state \in {"none", "open", "freed"}
        /\ {socket[s].dead, socket[s].blocked, socket[s].cd} \subseteq BOOLEAN
        /\ socket[s].pending \in Packets \cup {NULL} /\ socket[s].written \in 0 .. 1
  BY Zenon DEF IInv, Typed, SocketRec
<1>3. call.op \in {"none", "read", "write"} /\ call.n \in 0 .. Burst + 1
  BY Zenon DEF IInv, Typed, CallRec
<1>4. TypeOK
  BY <1>1, <1>2, <1>3, Zenon DEF TypeOK, IInv, Typed, PacketRec
<1>5. \A s \in Listeners : Open(s) =>
        socket[s].outstanding = Cardinality({p \in Of(s, {"worker", "heap", "null"}) : ~packet[p].localized})
  BY Zenon DEF IInv, Counts, Held
<1>6. \A s \in Listeners : Open(s) /\ ~socket[s].dead /\ ~(call.op = "write" /\ call.s = s) =>
        /\ socket[s].blocked <=> socket[s].pending # NULL
        /\ socket[s].written > 0 => socket[s].pending # NULL
        /\ socket[s].pending # NULL => packet[socket[s].pending].at = "pending"
  BY Zenon DEF IInv, PendingSound, PendingOf
<1> QED
  BY <1>4, <1>5, <1>6, Zenon DEF SocketsAccounted, IInv, ClosedSound

Sets == INSTANCE FiniteSetTheorems

LEMMA SameCardinality ==
    ASSUME NEW S
    PROVE  Sets!Cardinality(S) = Cardinality(S) /\ (Sets!IsFiniteSet(S) <=> IsFiniteSet(S))
BY Zenon DEF Cardinality, Sets!Cardinality, IsFiniteSet, Sets!IsFiniteSet

LEMMA CountingHolds == Counting
<1> SUFFICES ASSUME NEW S \in SUBSET Packets
             PROVE  /\ Cardinality(S) \in Nat /\ Cardinality(S) <= Cardinality(Packets)
                    /\ Cardinality(S) = 0 <=> S = {}
                    /\ \A x \in Packets : /\ x \notin S => Cardinality(S \cup {x}) = Cardinality(S) + 1
                                         /\ x \in S => Cardinality(S \ {x}) = Cardinality(S) - 1
  BY Zenon DEF Counting
<1>1. Sets!IsFiniteSet(Packets)
  BY SocketAssumption, SameCardinality, Zenon
<1>2. Sets!IsFiniteSet(S) /\ Sets!Cardinality(S) <= Sets!Cardinality(Packets)
  BY <1>1, Sets!FS_Subset, Zenon
<1>3. Sets!Cardinality(S) \in Nat
  BY <1>2, Sets!FS_CardinalityType, Zenon
<1>4. Sets!Cardinality(S) = 0 <=> S = {}
  BY <1>2, Sets!FS_EmptySet, Zenon
<1>5. ASSUME NEW x, x \notin S
      PROVE  Sets!Cardinality(S \cup {x}) = Sets!Cardinality(S) + 1
  BY <1>2, <1>5, Sets!FS_AddElement, Zenon
<1>6. ASSUME NEW x \in S
      PROVE  Sets!Cardinality(S \ {x}) = Sets!Cardinality(S) - 1
  BY <1>2, <1>6, Sets!FS_RemoveElement, Zenon
<1> QED
  BY <1>2, <1>3, <1>4, <1>5, <1>6, SameCardinality, Zenon

\* The packets a socket waits for are counted through every read, reply, write
\* and death of a socket: s->outstanding of network.c neither leaks nor runs
\* below the packets the workers have, so that fr_network_socket_dead and
\* fr_network_post_event free a socket only when no worker has a packet of it;
\* and a blocked socket and its pending message go together.
THEOREM SocketsInvariant == Spec => []SocketsAccounted
<1>1. IInv /\ [Next]_vars => IInv'
  BY CountingHolds, NextIInv, Zenon
<1>2. IInv => SocketsAccounted
  BY CountingHolds, IInvImplies, Zenon
<1> QED
  BY <1>1, <1>2, InitIInv, PTL DEF Spec
=============================================================================
