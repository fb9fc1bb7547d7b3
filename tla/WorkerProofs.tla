---------------------------- MODULE WorkerProofs ----------------------------
(***************************************************************************)
(* However the calls of a worker nest, every packet is answered at most    *)
(* once, its heaps, its tree and its counter agree, and when no packet_ctx *)
(* has a third packet, a packet_ctx has one request; for every set of      *)
(* packets and subrequests and every limit on the requests.                *)
(*                                                                         *)
(* The invariant says where a request can be.  One that is queued is in    *)
(* the channel or about to be inserted; one that is live is in the time    *)
(* order or about to be freed; none is in two of these places, and none in *)
(* one of them twice.  What happens inside a call is then of no concern to *)
(* the calls around it.                                                    *)
(*                                                                         *)
(* One request for a packet_ctx needs the order in which packets leave the *)
(* channel.  A request is inserted late, after the one it replaces is      *)
(* stopped, which reads the channel.  What that finds cannot be a third    *)
(* packet: the old request and the new one are, or repeat, the two there   *)
(* are, and both have left the channel.                                    *)
(***************************************************************************)
EXTENDS Worker, TLAPS

HeldOps == {"free", "insert", "interpret"}
AllCalls == [op : Calls, arg : Requests \cup Nat]

\* The requests that the calls in s with one of the operations ops are about.
Args(s, ops) == {s[i].arg : i \in {k \in DOMAIN s : s[k].op \in ops}}

\* No two calls in s hold the same request.
HeldOnce(s) ==
    \A i, j \in DOMAIN s :
        s[i].op \in HeldOps /\ s[j].op \in HeldOps /\ i # j => s[i].arg # s[j].arg

\* What will be freed, inserted, and what the interpreter runs.
Frees == Args(stack, {"free"})
Inserts == Args(stack, {"insert"})
Runs == Args(stack, {"interpret"})

InQueue(p) == \E i \in DOMAIN queue : queue[i] = p

Typed ==
    /\ queue \in Seq(Packets)
    /\ phase \in [Requests -> {"new", "queued", "live", "done", "stopped", "freed"}]
    /\ runnable \subseteq Requests /\ time_order \subseteq Requests /\ yielded \subseteq Requests
    /\ dedup \subseteq Packets
    /\ again \subseteq Children /\ parent \in [Children -> Requests]
    /\ stack \in Seq(AllCalls) /\ answers \in [Packets -> 0 .. 1]
    /\ replies \in 0 .. QueueSize /\ refused \subseteq Packets
    /\ channel \in {"active", "closing", "closed"} /\ state \in {"running", "exiting", "destroyed"}

\* What the calls hold is where no other call finds it, and the interpreter is
\* not called from another call.
StackSound ==
    /\ HeldOnce(stack)
    /\ Frees \subseteq Packets /\ Inserts \subseteq Packets
    /\ \A p \in Frees : phase[p] = "live" /\ p \notin time_order
    /\ \A p \in Inserts : phase[p] = "queued" /\ ~InQueue(p)
    /\ Runs \subseteq time_order \ (runnable \cup yielded)
    /\ Runs # {} => Len(stack) = 1
    /\ \A c \in Children : parent[c] \notin Runs \/ parent[c] = c
    /\ state = "destroyed" => stack = <<>> /\ time_order = {}

QueueSound ==
    /\ \A i \in DOMAIN queue : phase[queue[i]] = "queued"
    /\ \A i, j \in DOMAIN queue : queue[i] = queue[j] => i = j

HeapsSound ==
    /\ runnable \cup yielded \cup dedup \subseteq time_order
    /\ \A r \in time_order : phase[r] = "live"

\* A subrequest has a parent while it is there, which has no other; what was
\* ended a second time is not ended a third time.
ChildrenSound ==
    /\ \A c \in Children :
        /\ phase[c] # "queued"
        /\ phase[c] \in {"new", "freed"} => parent[c] = c
        /\ phase[c] \notin {"new", "freed"} => parent[c] \in Packets
        /\ phase[c] = "live" => c \in time_order
    /\ \A c, d \in Children : parent[c] = parent[d] => c = d
    /\ \A c \in again : \/ phase[c] = "freed"
                        \/ phase[c] = "stopped" /\ parent[c] \notin time_order

\* The answer was sent, or refused by the full queue.
Replied(p) == answers[p] = 1 \/ p \in refused

\* An answer is sent when the request is about to be freed.
AnswersSound ==
    \A p \in Packets :
        /\ Replied(p) => phase[p] = "freed" \/ p \in Frees
        /\ channel = "active" /\ (phase[p] = "freed" \/ p \in Frees) => Replied(p)
        /\ p \in refused => answers[p] = 0

IInv ==
    /\ Typed /\ StackSound /\ QueueSound /\ HeapsSound /\ ChildrenSound /\ ParentsWait
    /\ AnswersSound

-----------------------------------------------------------------------------
(* The stack and the queue *)

LEMMA Push ==
    ASSUME NEW s \in Seq(AllCalls), NEW c \in AllCalls
    PROVE  /\ <<c>> \o s \in Seq(AllCalls) /\ <<c>> \o s # <<>> /\ Len(<<c>> \o s) = Len(s) + 1
           /\ \A ops : c.op \in ops => Args(<<c>> \o s, ops) = Args(s, ops) \cup {c.arg}
           /\ \A ops : c.op \notin ops => Args(<<c>> \o s, ops) = Args(s, ops)
           /\ HeldOnce(<<c>> \o s) <=>
                HeldOnce(s) /\ (c.op \in HeldOps => c.arg \notin Args(s, HeldOps))
<1> DEFINE t == <<c>> \o s
<1>0. t = <<c>> \o s
  BY Zenon
<1>1. /\ t \in Seq(AllCalls) /\ t # <<>> /\ Len(t) = Len(s) + 1 /\ t[1] = c
      /\ \A i \in 1 .. Len(s) : t[i + 1] = s[i]
  OBVIOUS
<1>2. /\ DOMAIN s = 1 .. Len(s) /\ DOMAIN t = 1 .. Len(s) + 1 /\ Len(s) \in Nat
  BY <1>1
<1>3. \A i \in DOMAIN s : i + 1 \in DOMAIN t /\ t[i + 1] = s[i]
  BY <1>1, <1>2
<1>4. 1 \in DOMAIN t /\ \A j \in DOMAIN t : j = 1 \/ \E i \in DOMAIN s : j = i + 1
  <2>1. 1 \in DOMAIN t
    BY <1>2
  <2>2. ASSUME NEW j \in DOMAIN t, j # 1
        PROVE  \E i \in DOMAIN s : j = i + 1
    <3>1. j - 1 \in DOMAIN s /\ j = (j - 1) + 1
      BY <1>2, <2>2
    <3> QED
      BY <3>1, Zenon
  <2> QED
    BY <2>1, <2>2, Zenon
<1> HIDE DEF t
<1>5. ASSUME NEW ops
      PROVE  /\ c.op \in ops => Args(t, ops) = Args(s, ops) \cup {c.arg}
             /\ c.op \notin ops => Args(t, ops) = Args(s, ops)
  <2>1. ASSUME NEW x \in Args(t, ops)
        PROVE  x \in Args(s, ops) \/ (c.op \in ops /\ x = c.arg)
    <3>1. PICK j \in DOMAIN t : t[j].op \in ops /\ x = t[j].arg
      BY <2>1, Zenon DEF Args
    <3>2. CASE j = 1
      BY <3>1, <3>2, <1>1, Zenon
    <3>3. CASE j # 1
      BY <3>1, <3>3, <1>3, <1>4, ZenonT(40) DEF Args
    <3> QED
      BY <3>2, <3>3, Zenon
  <2>2. ASSUME NEW x \in Args(s, ops)
        PROVE  x \in Args(t, ops)
    <3>1. PICK i \in DOMAIN s : s[i].op \in ops /\ x = s[i].arg
      BY <2>2, Zenon DEF Args
    <3> QED
      BY <3>1, <1>3, Zenon DEF Args
  <2>3. c.op \in ops => c.arg \in Args(t, ops)
    BY <1>1, <1>4, Zenon DEF Args
  <2> QED
    BY <2>1, <2>2, <2>3, Zenon
<1>6. ASSUME HeldOnce(t)
      PROVE  HeldOnce(s) /\ (c.op \in HeldOps => c.arg \notin Args(s, HeldOps))
  <2>1. HeldOnce(s)
    <3> SUFFICES ASSUME NEW i \in DOMAIN s, NEW j \in DOMAIN s, i # j,
                        s[i].op \in HeldOps, s[j].op \in HeldOps
                 PROVE  s[i].arg # s[j].arg
      BY Zenon DEF HeldOnce
    <3>1. i + 1 # j + 1
      BY <1>2
    <3> QED
      BY <1>3, <1>6, <3>1, Zenon DEF HeldOnce
  <2>2. ASSUME c.op \in HeldOps, c.arg \in Args(s, HeldOps)
        PROVE  FALSE
    <3>1. PICK i \in DOMAIN s : s[i].op \in HeldOps /\ c.arg = s[i].arg
      BY <2>2, Zenon DEF Args
    <3>2. i + 1 # 1
      BY <1>2
    <3> QED
      BY <1>1, <1>3, <1>4, <1>6, <2>2, <3>1, <3>2, Zenon DEF HeldOnce
  <2> QED
    BY <2>1, <2>2, Zenon
<1>7. ASSUME HeldOnce(s), c.op \in HeldOps => c.arg \notin Args(s, HeldOps)
      PROVE  HeldOnce(t)
  <2> SUFFICES ASSUME NEW i \in DOMAIN t, NEW j \in DOMAIN t, i # j,
                      t[i].op \in HeldOps, t[j].op \in HeldOps, t[i].arg = t[j].arg
               PROVE  FALSE
    BY Zenon DEF HeldOnce
  <2>1. CASE i = 1
    BY <2>1, <1>1, <1>3, <1>4, <1>7 DEF Args
  <2>2. CASE j = 1
    BY <2>2, <1>1, <1>3, <1>4, <1>7 DEF Args
  <2>3. CASE i # 1 /\ j # 1
    BY <2>3, <1>3, <1>4, <1>7 DEF HeldOnce
  <2> QED
    BY <2>1, <2>2, <2>3, Zenon
<1>8. HeldOnce(t) <=> HeldOnce(s) /\ (c.op \in HeldOps => c.arg \notin Args(s, HeldOps))
  BY <1>6, <1>7, Zenon
<1> QED
  BY <1>0, <1>1, <1>5, <1>8, Zenon

\* Calls that hold nothing do not matter.
LEMMA PushOther ==
    ASSUME NEW s \in Seq(AllCalls), NEW c \in AllCalls, c.op \notin HeldOps
    PROVE  /\ <<c>> \o s \in Seq(AllCalls) /\ <<c>> \o s # <<>>
           /\ HeldOnce(<<c>> \o s) <=> HeldOnce(s)
           /\ Args(<<c>> \o s, {"free"}) = Args(s, {"free"})
           /\ Args(<<c>> \o s, {"insert"}) = Args(s, {"insert"})
           /\ Args(<<c>> \o s, {"interpret"}) = Args(s, {"interpret"})
<1>1. c.op \notin {"free"} /\ c.op \notin {"insert"} /\ c.op \notin {"interpret"}
  BY Zenon DEF HeldOps
<1>2. ASSUME NEW ops, c.op \notin ops
      PROVE  Args(<<c>> \o s, ops) = Args(s, ops)
  BY <1>2, Push, ZenonT(40)
<1> QED
  BY <1>1, <1>2, Push, Zenon

LEMMA Pop ==
    ASSUME NEW s \in Seq(AllCalls), s # <<>>
    PROVE  /\ Head(s) \in AllCalls /\ Tail(s) \in Seq(AllCalls) /\ Len(s) = Len(Tail(s)) + 1
           /\ \A ops : Head(s).op \in ops => Args(s, ops) = Args(Tail(s), ops) \cup {Head(s).arg}
           /\ \A ops : Head(s).op \notin ops => Args(s, ops) = Args(Tail(s), ops)
           /\ HeldOnce(s) <=>
                HeldOnce(Tail(s)) /\ (Head(s).op \in HeldOps => Head(s).arg \notin Args(Tail(s), HeldOps))
<1>1. /\ Head(s) \in AllCalls /\ Tail(s) \in Seq(AllCalls) /\ s = <<Head(s)>> \o Tail(s)
  OBVIOUS
<1>2. ASSUME NEW c \in AllCalls, NEW u \in Seq(AllCalls), s = <<c>> \o u
      PROVE  /\ Len(s) = Len(u) + 1
             /\ \A ops : c.op \in ops => Args(s, ops) = Args(u, ops) \cup {c.arg}
             /\ \A ops : c.op \notin ops => Args(s, ops) = Args(u, ops)
             /\ HeldOnce(s) <=> HeldOnce(u) /\ (c.op \in HeldOps => c.arg \notin Args(u, HeldOps))
  BY <1>2, Push
<1> QED
  BY <1>1, <1>2, Zenon

LEMMA EmptyStack ==
    /\ <<>> \in Seq(AllCalls) /\ HeldOnce(<<>>) /\ Len(<<>>) = 0
    /\ \A ops : Args(<<>>, ops) = {}
    /\ \A s \in Seq(AllCalls) : Len(s) = 0 => s = <<>>
BY DEF HeldOnce, Args

LEMMA HeldArgs ==
    ASSUME NEW s \in Seq(AllCalls)
    PROVE  Args(s, HeldOps) = Args(s, {"free"}) \cup Args(s, {"insert"}) \cup Args(s, {"interpret"})
BY Zenon DEF Args, HeldOps

LEMMA CallTypes ==
    /\ \A r \in Requests, op \in Calls : Call(op, r) \in AllCalls
    /\ \A t \in Nat, op \in Calls : Call(op, t) \in AllCalls
    /\ Drain \in AllCalls
    /\ \A op, a : Call(op, a).op = op /\ Call(op, a).arg = a
BY Zenon DEF Call, Drain, AllCalls, Calls

\* fr_channel_recv_request takes the first packet, and no other is the same.
LEMMA QueueHead ==
    ASSUME IInv, queue # <<>>, NEW p, p = Head(queue), queue' = Tail(queue)
    PROVE  /\ p \in Packets /\ phase[p] = "queued" /\ InQueue(p)
           /\ queue' \in Seq(Packets)
           /\ \A q : InQueue(q)' <=> InQueue(q) /\ q # p
           /\ \A i, j \in DOMAIN queue' : queue'[i] = queue'[j] => i = j
<1>1. /\ queue \in Seq(Packets) /\ 1 \in DOMAIN queue /\ p = queue[1] /\ queue' \in Seq(Packets)
      /\ p \in Packets /\ Len(queue') = Len(queue) - 1
      /\ \A i \in 1 .. Len(queue) - 1 : queue'[i] = queue[i + 1]
  BY DEF IInv, Typed
<1>2. /\ DOMAIN queue = 1 .. Len(queue) /\ DOMAIN queue' = 1 .. Len(queue) - 1 /\ Len(queue) \in Nat
      /\ \A i, j \in DOMAIN queue : queue[i] = queue[j] => i = j
  BY <1>1 DEF IInv, QueueSound
<1>3. ASSUME NEW q, InQueue(q), q # p
      PROVE  InQueue(q)'
  <2>1. PICK i \in DOMAIN queue : queue[i] = q
    BY <1>3, Zenon DEF InQueue
  <2>2. i # 1 /\ i - 1 \in DOMAIN queue' /\ queue'[i - 1] = q
    BY <1>1, <1>2, <1>3, <2>1
  <2> QED
    BY <2>2, Zenon DEF InQueue
<1>4. ASSUME NEW q, InQueue(q)'
      PROVE  InQueue(q) /\ q # p
  <2>1. PICK i \in DOMAIN queue' : queue'[i] = q
    BY <1>4, Zenon DEF InQueue
  <2>2. i + 1 \in DOMAIN queue /\ queue[i + 1] = q /\ i + 1 # 1
    BY <1>1, <1>2, <2>1
  <2> QED
    BY <1>1, <1>2, <2>2, Zenon DEF InQueue
<1>5. ASSUME NEW i \in DOMAIN queue', NEW j \in DOMAIN queue', queue'[i] = queue'[j]
      PROVE  i = j
  <2>1. i + 1 \in DOMAIN queue /\ j + 1 \in DOMAIN queue /\ queue[i + 1] = queue[j + 1]
    BY <1>1, <1>2, <1>5
  <2> QED
    BY <1>2, <2>1
<1>6. phase[p] = "queued" /\ InQueue(p)
  BY <1>1, Zenon DEF IInv, QueueSound, InQueue
<1> QED
  BY <1>1, <1>3, <1>4, <1>5, <1>6, Zenon

-----------------------------------------------------------------------------
(* The end of a request *)

\* _worker_request_done_external pushes what is left to do.
LEMMA DonePushes ==
    ASSUME NEW r \in Packets, NEW rest \in Seq(AllCalls), HeldOnce(rest),
           r \notin Args(rest, HeldOps), Reply(r, <<Call("free", r)>> \o rest)
    PROVE  /\ stack' \in Seq(AllCalls) /\ HeldOnce(stack') /\ stack' # <<>>
           /\ Frees' = Args(rest, {"free"}) \cup {r}
           /\ Inserts' = Args(rest, {"insert"}) /\ Runs' = Args(rest, {"interpret"})
<1> DEFINE f == Call("free", r)
           t == <<f>> \o rest
<1>1. f \in AllCalls /\ f.op = "free" /\ f.arg = r
  BY CallTypes, Zenon DEF Requests, Calls
<1> HIDE DEF f
<1>2. /\ t \in Seq(AllCalls) /\ HeldOnce(t) /\ t # <<>>
      /\ Args(t, {"free"}) = Args(rest, {"free"}) \cup {r}
      /\ Args(t, {"insert"}) = Args(rest, {"insert"}) /\ Args(t, {"interpret"}) = Args(rest, {"interpret"})
  BY <1>1, Push DEF HeldOps
<1>3. stack' = t \/ stack' = <<Drain>> \o t
  BY Zenon DEF Reply, f
<1> HIDE DEF t
<1>4. /\ stack' \in Seq(AllCalls) /\ HeldOnce(stack') /\ stack' # <<>>
      /\ Args(stack', {"free"}) = Args(t, {"free"}) /\ Args(stack', {"insert"}) = Args(t, {"insert"})
      /\ Args(stack', {"interpret"}) = Args(t, {"interpret"})
  <2>1. CASE stack' = t
    BY <1>2, <2>1, Zenon
  <2>2. CASE stack' = <<Drain>> \o t
    <3>1. Drain \in AllCalls /\ Drain.op \notin HeldOps
      BY CallTypes DEF Drain, HeldOps
    <3> QED
      BY <1>2, <2>2, <3>1, PushOther, Zenon
  <2> QED
    BY <1>3, <2>1, <2>2, Zenon
<1> QED
  BY <1>2, <1>4, Zenon DEF Frees, Inserts, Runs

\* The reply to a packet that has none: fr_channel_send_reply.
LEMMA ReplySends ==
    ASSUME IInv, NEW p \in Packets, ~Replied(p), NEW rest, Reply(p, rest)
    PROVE  /\ answers' \in [Packets -> 0 .. 1] /\ replies' \in 0 .. QueueSize /\ refused' \subseteq Packets
           /\ \A q \in Packets : q # p => (Replied(q)' <=> Replied(q))
           /\ \A q \in Packets : q \in refused' => answers'[q] = 0
           /\ channel = "active" => Replied(p)'
<1>1. /\ answers \in [Packets -> 0 .. 1] /\ replies \in 0 .. QueueSize /\ refused \subseteq Packets
      /\ \A q \in Packets : q \in refused => answers[q] = 0
  BY Zenon DEF IInv, Typed, AnswersSound
<1>2. answers[p] = 0 /\ p \notin refused
  BY <1>1 DEF Replied
<1>3. CASE channel # "active"
  BY <1>1, <1>3, Zenon DEF Reply, Replied
<1>4. CASE channel = "active" /\ replies < QueueSize
  <2>1. answers' = [answers EXCEPT ![p] = @ + 1] /\ replies' = replies + 1 /\ refused' = refused
    BY <1>4, Zenon DEF Reply, PushReply
  <2>2. /\ answers' \in [Packets -> 0 .. 1] /\ answers'[p] = 1
        /\ \A q \in Packets : q # p => answers'[q] = answers[q]
    BY <1>1, <1>2, <2>1
  <2>3. replies' \in 0 .. QueueSize
    BY <1>1, <1>4, <2>1, WorkerAssumption
  <2> QED
    BY <1>1, <1>2, <2>1, <2>2, <2>3, Zenon DEF Replied
<1>5. CASE channel = "active" /\ ~(replies < QueueSize)
  <2>1. answers' = answers /\ replies' = replies /\ refused' = refused \cup {p}
    BY <1>5, Zenon DEF Reply, PushReply
  <2> QED
    BY <1>1, <1>2, <2>1, Zenon DEF Replied
<1> QED
  BY <1>3, <1>4, <1>5, Zenon

\* What a request that is stopped takes with it.
LEMMA StoppedSet ==
    ASSUME IInv, NEW r \in time_order
    PROVE  /\ r \in Requests /\ phase[r] = "live" /\ r \notin Frees /\ r \notin Inserts
           /\ {r} \cup ChildOf(r) \subseteq Requests
           /\ r \in Packets => ({r} \cup ChildOf(r)) \cap Children = ChildOf(r)
           /\ r \in Children => ChildOf(r) = {}
<1>1. r \in Requests /\ phase[r] = "live" /\ r \notin Frees /\ r \notin Inserts
  BY Zenon DEF IInv, Typed, HeapsSound, StackSound
<1>2. ASSUME r \in Children, NEW c \in ChildOf(r)
      PROVE  FALSE
  <2>1. c \in Children /\ parent[c] = r /\ r \notin Packets
    BY <1>2, WorkerAssumption, Zenon DEF ChildOf
  <2>2. parent[c] = c
    BY <2>1, Zenon DEF IInv, ChildrenSound
  <2> QED
    BY <1>1, <2>1, <2>2, Zenon DEF IInv, ChildrenSound
<1> QED
  BY <1>1, <1>2, WorkerAssumption, Zenon DEF ChildOf, Requests

\* Of what is stopped, the subrequest may have ended before.
LEMMA StoppedAgain ==
    ASSUME IInv, NEW r \in time_order
    PROVE  ({r} \cup ChildOf(r)) \ time_order
             = {c \in ({r} \cup ChildOf(r)) \cap Children : phase[c] # "live"}
<1>1. \A c \in Children : phase[c] = "live" <=> c \in time_order
  BY Zenon DEF IInv, HeapsSound, ChildrenSound
<1>2. ChildOf(r) \subseteq Children
  BY Zenon DEF ChildOf
<1> QED
  BY <1>1, <1>2, Zenon

\* The calls that are left when a request is stopped.
LEMMA CancelCalls ==
    ASSUME IInv, NEW r \in time_order, NEW rest \in Seq(AllCalls),
           Cancel({r} \cup ChildOf(r), r, rest),
           HeldOnce(rest), Args(rest, {"free"}) = Frees, Args(rest, {"interpret"}) = {},
           \A p \in Args(rest, {"insert"}) : phase[p] = "queued"
    PROVE  /\ stack' \in Seq(AllCalls) /\ HeldOnce(stack')
           /\ Frees' = Frees \cup ({r} \cap Packets)
           /\ Inserts' = Args(rest, {"insert"}) /\ Runs' = {}
<1>1. phase[r] = "live" /\ r \notin Frees
  BY StoppedSet, Zenon
<1>2. CASE r \in Packets
  <2>1. r \notin Args(rest, HeldOps)
    BY <1>1, HeldArgs
  <2>2. Reply(r, <<Call("free", r)>> \o rest)
    BY <1>2, Zenon DEF Cancel, DoneExternal
  <2> QED
    BY <1>2, <2>1, <2>2, DonePushes
<1>3. CASE r \notin Packets
  BY <1>3 DEF Cancel, DoneInternal, Frees, Inserts, Runs
<1> QED
  BY <1>2, <1>3, Zenon

\* A request that is stopped, with its subrequest: worker_stop_request.  rest is
\* what its caller has still to do.
LEMMA CancelKeeps ==
    ASSUME IInv, NEW r \in time_order, NEW rest \in Seq(AllCalls),
           Cancel({r} \cup ChildOf(r), r, rest),
           HeldOnce(rest), Args(rest, {"free"}) = Frees, Args(rest, {"interpret"}) = {},
           Args(rest, {"insert"}) \subseteq Packets,
           \A p \in Args(rest, {"insert"}) : phase[p] = "queued" /\ ~InQueue(p)',
           queue' \in Seq(Packets), \A p : InQueue(p)' => InQueue(p),
           \A i, j \in DOMAIN queue' : queue'[i] = queue'[j] => i = j,
           channel' = channel, state' = state, state # "destroyed"
    PROVE  IInv'
<1> DEFINE S == {r} \cup ChildOf(r)
<1>1. /\ r \in Requests /\ phase[r] = "live" /\ r \notin Frees
      /\ S \subseteq Requests
      /\ r \in Packets => S \cap Children = ChildOf(r)
      /\ r \in Children => S = {r}
  BY StoppedSet, Zenon
<1>2. /\ time_order' = time_order \ S /\ runnable' = runnable \ S /\ yielded' = yielded \ S
      /\ again' = again \cup {c \in S \cap Children : phase[c] # "live"}
      /\ parent' = parent /\ phase' = InPhase(S \cap Children, "stopped")
      /\ IF r \in Packets THEN DoneExternal(r, rest) ELSE DoneInternal(rest)
  <2>1. S \ time_order = {c \in S \cap Children : phase[c] # "live"}
    BY StoppedAgain, Zenon
  <2> HIDE DEF S
  <2>2. Cancel(S, r, rest)
    BY Zenon DEF S
  <2> QED
    BY <2>1, <2>2, Zenon DEF Cancel, RequestStop, TimeTrackingEnd
<1>3. /\ \A c \in Children : c \in S <=> c = r \/ parent[c] = r
      /\ \A p \in Packets : p \in S <=> p = r
  BY <1>1, WorkerAssumption, Zenon DEF ChildOf
<1> HIDE DEF S
<1>4. /\ phase' \in [Requests -> {"new", "queued", "live", "done", "stopped", "freed"}]
      /\ \A q \in Requests : phase'[q] = IF q \in S /\ q \in Children THEN "stopped" ELSE phase[q]
      /\ \A p \in Packets : phase'[p] = phase[p]
  BY <1>2, WorkerAssumption, Zenon DEF InPhase, Requests, IInv, Typed
<1>5. /\ stack' \in Seq(AllCalls) /\ HeldOnce(stack')
      /\ Frees' = Frees \cup ({r} \cap Packets)
      /\ Inserts' = Args(rest, {"insert"}) /\ Runs' = {}
  BY CancelCalls, Zenon
<1>6. dedup' \subseteq dedup /\ r \notin dedup'
  BY <1>2, Zenon DEF DoneExternal, DoneInternal, Untrack, IInv, Typed
<1>7. /\ answers' \in [Packets -> 0 .. 1] /\ replies' \in 0 .. QueueSize /\ refused' \subseteq Packets
      /\ \A p \in Packets : p # r => (Replied(p)' <=> Replied(p))
      /\ \A p \in Packets : p \in refused' => answers'[p] = 0
      /\ r \in Packets /\ channel = "active" => Replied(r)'
  <2>1. CASE r \in Packets
    <3>1. ~Replied(r)
      BY <1>1, <2>1, Zenon DEF IInv, AnswersSound
    <3>2. Reply(r, <<Call("free", r)>> \o rest)
      BY <1>2, <2>1, Zenon DEF DoneExternal
    <3> QED
      BY <2>1, <3>1, <3>2, ReplySends, Zenon
  <2>2. CASE r \notin Packets
    BY <1>2, <2>2, Zenon DEF DoneInternal, IInv, Typed, AnswersSound, Replied
  <2> QED
    BY <2>1, <2>2, Zenon
<1>8. Typed'
  <2>1. runnable' \subseteq Requests /\ time_order' \subseteq Requests /\ yielded' \subseteq Requests
        /\ dedup' \subseteq Packets /\ again' \subseteq Children
    BY <1>2, <1>6, Zenon DEF IInv, Typed
  <2> QED
    BY <1>2, <1>4, <1>5, <1>7, <2>1, Zenon DEF IInv, Typed
<1>9. StackSound'
  <2>1. Frees' \subseteq Packets /\ Inserts' \subseteq Packets
    BY <1>5, Zenon DEF IInv, StackSound
  <2>2. \A p \in Frees' : phase'[p] = "live" /\ p \notin time_order'
    <3>1. ASSUME NEW p \in Frees'
          PROVE  phase'[p] = "live" /\ p \notin time_order'
      <4>1. p \in Packets /\ phase'[p] = phase[p]
        BY <2>1, <1>4, Zenon
      <4>2. CASE p = r
        BY <1>1, <1>2, <1>3, <4>1, <4>2, Zenon
      <4>3. CASE p # r
        BY <1>2, <1>5, <4>1, <4>3, Zenon DEF IInv, StackSound
      <4> QED
        BY <4>2, <4>3, Zenon
    <3> QED
      BY <3>1, Zenon
  <2>3. \A p \in Inserts' : phase'[p] = "queued" /\ ~InQueue(p)'
    BY <1>4, <1>5, Zenon
  <2>4. Runs' \subseteq time_order' \ (runnable' \cup yielded') /\ (Runs' # {} => Len(stack') = 1)
        /\ \A c \in Children : parent'[c] \notin Runs' \/ parent'[c] = c
    BY <1>5, Zenon
  <2> QED
    BY <1>5, <2>1, <2>2, <2>3, <2>4, Zenon DEF StackSound
<1>10. QueueSound'
  <2>1. ASSUME NEW i \in DOMAIN queue'
        PROVE  phase'[queue'[i]] = "queued"
    <3>1. queue'[i] \in Packets
      BY <2>1
    <3>2. PICK j \in DOMAIN queue : queue[j] = queue'[i]
      BY <2>1, Zenon DEF InQueue
    <3> QED
      BY <1>4, <3>1, <3>2, Zenon DEF IInv, QueueSound
  <2> QED
    BY <2>1, Zenon DEF QueueSound
<1>11. HeapsSound'
  <2>3. runnable \cup yielded \cup dedup \subseteq time_order /\ dedup \subseteq Packets
    BY Zenon DEF IInv, HeapsSound, Typed
  <2>4. runnable' \cup yielded' \subseteq time_order'
    BY <1>2, <2>3, Zenon
  <2>5. dedup' \subseteq time_order'
    <3> SUFFICES ASSUME NEW p \in dedup'
                 PROVE  p \in time_order'
      BY Zenon
    <3>1. p \in Packets /\ p \in time_order /\ p # r
      BY <1>6, <2>3, Zenon
    <3> QED
      BY <1>2, <1>3, <3>1, Zenon
  <2>1. runnable' \cup yielded' \cup dedup' \subseteq time_order'
    BY <2>4, <2>5, Zenon
  <2>2. \A q \in time_order' : phase'[q] = "live"
    BY <1>2, <1>4, Zenon DEF IInv, HeapsSound, Typed
  <2> QED
    BY <2>1, <2>2, Zenon DEF HeapsSound
<1>12. ChildrenSound'
  <2>1. ASSUME NEW c \in Children
        PROVE  /\ phase'[c] # "queued"
               /\ phase'[c] \in {"new", "freed"} => parent'[c] = c
               /\ phase'[c] \notin {"new", "freed"} => parent'[c] \in Packets
               /\ phase'[c] = "live" => c \in time_order'
    <3>1. c \in Requests
      BY Zenon DEF Requests
    <3>2. CASE c \notin S
      BY <1>2, <1>4, <3>1, <3>2, ZenonT(40) DEF IInv, ChildrenSound
    <3>3. CASE c \in S
      <4>1. phase'[c] = "stopped" /\ parent'[c] = parent[c]
        BY <1>2, <1>4, <3>1, <3>3, Zenon
      <4>2. parent[c] \in Packets
        <5>1. CASE c = r
          BY <1>1, <5>1, Zenon DEF IInv, ChildrenSound
        <5>2. CASE parent[c] = r /\ c # r
          BY <5>2, Zenon DEF IInv, ChildrenSound
        <5> QED
          BY <1>3, <3>3, <5>1, <5>2, Zenon
      <4> QED
        BY <4>1, <4>2, Zenon
    <3> QED
      BY <3>2, <3>3, Zenon
  <2>2. \A c, d \in Children : parent'[c] = parent'[d] => c = d
    BY <1>2, Zenon DEF IInv, ChildrenSound
  <2>3. ASSUME NEW c \in again'
        PROVE  \/ phase'[c] = "freed"
               \/ phase'[c] = "stopped" /\ parent'[c] \notin time_order'
    <3>1. c \in Children /\ c \in Requests
      BY <1>2, Zenon DEF IInv, Typed, Requests
    <3>2. CASE c \in S
      <4>1. phase'[c] = "stopped" /\ parent'[c] = parent[c]
        BY <1>2, <1>4, <3>1, <3>2, Zenon
      <4>2. c # r
        BY <1>1, <1>2, <3>1, Zenon DEF IInv, ChildrenSound
      <4>3. parent[c] = r /\ r \in S
        BY <1>3, <3>1, <3>2, <4>2, <1>1, Zenon DEF S
      <4> QED
        BY <1>2, <4>1, <4>3, Zenon
    <3>3. CASE c \notin S
      BY <1>2, <1>4, <3>1, <3>3, Zenon DEF IInv, ChildrenSound
    <3> QED
      BY <3>2, <3>3, Zenon
  <2> QED
    BY <2>1, <2>2, <2>3, Zenon DEF ChildrenSound
<1>13. ParentsWait'
  <2> SUFFICES ASSUME NEW c \in Children
               PROVE  /\ c \in time_order' => parent'[c] \in yielded' \ runnable'
                      /\ phase'[c] = "done" => parent'[c] \in yielded' \cap runnable'
                      /\ phase'[c] \in {"live", "done", "stopped"} => phase'[parent'[c]] = "live"
    BY Zenon DEF ParentsWait
  <2>1. c \in Requests /\ parent'[c] = parent[c] /\ parent[c] \in Requests
    BY <1>2, Zenon DEF Requests, IInv, Typed
  <2>2. phase[c] \in {"live", "done", "stopped"} => parent[c] \in Packets /\ phase'[parent[c]] = "live"
    BY <1>4, Zenon DEF IInv, ChildrenSound, ParentsWait
  <2>3. phase'[c] \in {"live", "done", "stopped"} => phase[c] \in {"live", "done", "stopped"}
    <3>1. CASE c \notin S
      BY <1>4, <2>1, <3>1, Zenon
    <3>2. CASE c = r
      BY <1>1, <3>2, Zenon
    <3>3. CASE c # r /\ parent[c] = r
      <4>1. phase[c] \notin {"new", "freed", "queued"}
        BY <3>3, Zenon DEF IInv, ChildrenSound
      <4> QED
        BY <2>1, <4>1, Zenon DEF IInv, Typed
    <3> QED
      BY <1>3, <3>1, <3>2, <3>3, Zenon
  <2>4. c \notin S /\ phase[c] \in {"live", "done"} => parent[c] \notin S
    BY <1>3, <2>2, Zenon
  <2>5. c \in time_order' \/ phase'[c] = "done" => c \notin S /\ phase[c] \in {"live", "done"}
    BY <1>2, <1>4, <2>1, Zenon DEF IInv, HeapsSound
  <2>6. c \notin S => phase'[c] = phase[c] /\ (c \in time_order' => c \in time_order)
    BY <1>2, <1>4, <2>1, Zenon
  <2> QED
    BY <1>2, <2>1, <2>2, <2>3, <2>4, <2>5, <2>6, Zenon DEF IInv, ParentsWait
<1>15. AnswersSound'
  <2> SUFFICES ASSUME NEW p \in Packets
               PROVE  /\ Replied(p)' => phase'[p] = "freed" \/ p \in Frees'
                      /\ channel' = "active" /\ (phase'[p] = "freed" \/ p \in Frees') => Replied(p)'
                      /\ p \in refused' => answers'[p] = 0
    BY Zenon DEF AnswersSound
  <2>1. CASE p = r
    BY <1>4, <1>5, <1>7, <2>1, Zenon
  <2>2. CASE p # r
    BY <1>4, <1>5, <1>7, <2>2, Zenon DEF IInv, AnswersSound
  <2> QED
    BY <2>1, <2>2, Zenon
<1> QED
  BY <1>8, <1>9, <1>10, <1>11, <1>12, <1>13, <1>15, Zenon DEF IInv

-----------------------------------------------------------------------------
(* The other steps *)

\* A call that is not the interpreter's has no call of the interpreter below.
LEMMA NotRunning ==
    ASSUME IInv, stack # <<>>, Top.op # "interpret"
    PROVE  Runs = {}
<1>1. stack \in Seq(AllCalls) /\ (Runs # {} => Len(stack) = 1)
  BY Zenon DEF IInv, Typed, StackSound
<1> DEFINE u == Tail(stack)
<1>2. u \in Seq(AllCalls) /\ Len(stack) = Len(u) + 1 /\ Runs = Args(u, {"interpret"})
  BY <1>1, Pop, Zenon DEF Top, Runs
<1> HIDE DEF u
<1>3. Len(u) \in Nat /\ (Len(u) = 0 => u = <<>>)
  BY <1>2, EmptyStack
<1>4. Len(u) = 0 => Runs = {}
  BY <1>2, <1>3, EmptyStack, Zenon
<1>5. Len(stack) = Len(u) + 1
  BY <1>2, Zenon
<1> QED
  BY <1>1, <1>3, <1>4, <1>5

\* The interpreter is not called from another call.
LEMMA Running ==
    ASSUME IInv, stack # <<>>, Top.op = "interpret"
    PROVE  Top.arg \in Runs /\ Top.arg \in time_order /\ Caller = <<>> /\ Frees = {} /\ Inserts = {}
<1> DEFINE u == Tail(stack)
           t == Head(stack)
<1>1. stack \in Seq(AllCalls) /\ (Runs # {} => Len(stack) = 1)
  BY Zenon DEF IInv, Typed, StackSound
<1>2. u \in Seq(AllCalls) /\ Len(stack) = Len(u) + 1
  BY <1>1, Pop, Zenon
<1>3. t.op \in {"interpret"} /\ t.op \notin {"free"} /\ t.op \notin {"insert"}
  BY DEF Top
<1>4. /\ Runs = Args(u, {"interpret"}) \cup {t.arg}
      /\ Frees = Args(u, {"free"}) /\ Inserts = Args(u, {"insert"})
  BY <1>1, <1>3, Pop, Zenon DEF Runs, Frees, Inserts
<1> HIDE DEF u, t
<1>5. u = <<>>
  <2>1. Len(stack) = 1
    BY <1>1, <1>4
  <2>3. Len(u) \in Nat /\ Len(stack) = Len(u) + 1
    BY <1>2
  <2>2. Len(u) = 0
    BY <2>1, <2>3, SMTT(30)
  <2> QED
    BY <1>2, <2>2, EmptyStack, Zenon
<1>6. Runs \subseteq time_order
  BY Zenon DEF IInv, StackSound
<1> QED
  BY <1>4, <1>5, <1>6, EmptyStack, Zenon DEF Top, Caller, u, t

\* What becomes of the calls when the innermost one returns.
LEMMA Returns ==
    ASSUME IInv, stack # <<>>, stack' = Caller
    PROVE  /\ Top \in AllCalls /\ stack' \in Seq(AllCalls) /\ HeldOnce(stack')
           /\ Frees' = IF Top.op = "free" THEN Frees \ {Top.arg} ELSE Frees
           /\ Inserts' = IF Top.op = "insert" THEN Inserts \ {Top.arg} ELSE Inserts
           /\ Runs' = {}
           /\ Top.op = "free" => Top.arg \in Frees
           /\ Top.op = "insert" => Top.arg \in Inserts
           /\ Top.op = "interpret" => Top.arg \in Runs /\ stack' = <<>> /\ Frees = {} /\ Inserts = {}
<1> DEFINE t == Top
           u == Caller
<1>1. stack \in Seq(AllCalls) /\ HeldOnce(stack) /\ (Runs # {} => Len(stack) = 1)
  BY Zenon DEF IInv, Typed, StackSound
<1>2. /\ t \in AllCalls /\ u \in Seq(AllCalls) /\ Len(stack) = Len(u) + 1 /\ HeldOnce(u)
      /\ \A ops : t.op \in ops => Args(stack, ops) = Args(u, ops) \cup {t.arg}
      /\ \A ops : t.op \notin ops => Args(stack, ops) = Args(u, ops)
      /\ t.op \in HeldOps => t.arg \notin Args(u, HeldOps)
  BY <1>1, Pop, Zenon DEF Top, Caller
<1>3. Args(u, HeldOps) = Args(u, {"free"}) \cup Args(u, {"insert"}) \cup Args(u, {"interpret"})
  BY <1>2, HeldArgs, Zenon
<1>4. stack' = u /\ Frees' = Args(u, {"free"}) /\ Inserts' = Args(u, {"insert"}) /\ Runs' = Args(u, {"interpret"})
  BY Zenon DEF Frees, Inserts, Runs
<1>5. t.op = "interpret" => Len(u) = 0
  <2>1. t.op = "interpret" => Runs = Args(u, {"interpret"}) \cup {t.arg}
    BY <1>2, Zenon DEF Runs
  <2>2. Len(u) \in Nat /\ Len(stack) = Len(u) + 1
    BY <1>2
  <2>3. t.op = "interpret" => Len(stack) = 1
    BY <1>1, <2>1, Zenon
  <2> QED
    BY <2>2, <2>3
<1>6. Len(u) = 0 => u = <<>>
  BY <1>2, EmptyStack, Zenon
<1>7. Runs' = {}
  <2>1. CASE t.op = "interpret"
    BY <1>4, <1>5, <1>6, <2>1, EmptyStack, Zenon
  <2>2. CASE t.op # "interpret"
    <3>1. Runs = Args(u, {"interpret"})
      BY <1>2, <2>2, Zenon DEF Runs
    <3> QED
      BY <1>4, <2>2, <3>1, NotRunning, Zenon
  <2> QED
    BY <2>1, <2>2, Zenon
<1>8. Frees = IF t.op = "free" THEN Frees' \cup {t.arg} ELSE Frees'
  BY <1>2, <1>4, Zenon DEF Frees
<1>9. Inserts = IF t.op = "insert" THEN Inserts' \cup {t.arg} ELSE Inserts'
  BY <1>2, <1>4, Zenon DEF Inserts
<1>10. (t.op = "free" => t.arg \notin Frees') /\ (t.op = "insert" => t.arg \notin Inserts')
  BY <1>2, <1>3, <1>4, Zenon DEF HeldOps
<1>11. t.op = "interpret" => t.arg \in Runs
  BY <1>2, Zenon DEF Runs
<1>12. t.op = "interpret" => Frees' = {} /\ Inserts' = {}
  BY <1>4, <1>5, <1>6, EmptyStack, Zenon
<1>13. t = Top
  BY Zenon
<1> HIDE DEF t, u
<1>14. /\ Frees' = IF t.op = "free" THEN Frees \ {t.arg} ELSE Frees
       /\ t.op = "free" => t.arg \in Frees
  BY <1>8, <1>10, Zenon
<1>15. /\ Inserts' = IF t.op = "insert" THEN Inserts \ {t.arg} ELSE Inserts
       /\ t.op = "insert" => t.arg \in Inserts
  BY <1>9, <1>10, Zenon
<1>16. t.op = "interpret" => t.arg \in Runs /\ stack' = <<>> /\ Frees = {} /\ Inserts = {}
  BY <1>4, <1>5, <1>6, <1>8, <1>9, <1>11, <1>12, Zenon
<1> QED
  BY <1>2, <1>4, <1>7, <1>13, <1>14, <1>15, <1>16, Zenon

\* Steps that change only the calls, or close the channel.
LEMMA StackKeeps ==
    ASSUME IInv, stack' \in Seq(AllCalls), HeldOnce(stack'), Frees' = Frees, Inserts' = Inserts,
           Runs' = {} \/ stack' = stack,
           UNCHANGED <<queue, phase, runnable, time_order, dedup, num_active, yielded, parent, again, answers>>,
           replies' \in 0 .. QueueSize, refused' \subseteq refused, channel' = "active" => refused' = refused,
           channel' \in {"active", "closing", "closed"}, channel' = "active" => channel = "active",
           state' \in {"running", "exiting", "destroyed"},
           state' = "destroyed" => stack' = <<>> /\ time_order = {}
    PROVE  IInv'
<1>1. Typed'
  BY Zenon DEF IInv, Typed
<1>2. \A p : InQueue(p)' <=> InQueue(p)
  BY Zenon DEF InQueue
<1>3. Runs' = {} \/ (Runs' = Runs /\ stack' = stack)
  BY Zenon DEF Runs
<1>4. StackSound'
  BY <1>2, <1>3, Zenon DEF IInv, StackSound
<1>5. QueueSound' /\ HeapsSound' /\ ChildrenSound' /\ ParentsWait'
  BY Zenon DEF IInv, QueueSound, HeapsSound, ChildrenSound, ParentsWait
<1>6. AnswersSound'
  BY Zenon DEF IInv, AnswersSound, Replied
<1> QED
  BY <1>1, <1>4, <1>5, <1>6, Zenon DEF IInv

LEMMA StackActions ==
    ASSUME IInv,
           \/ DataReady \/ DrainEnds \/ TimerEnds \/ SignalClose \/ Close \/ RecvReply
           \/ \E r \in Requests : MaxRequestTime(RecvTime[r])
    PROVE  IInv'
<1>1. /\ UNCHANGED <<queue, phase, runnable, time_order, dedup, num_active, yielded, parent, again, answers>>
      /\ channel' \in {"active", "closing", "closed"} /\ (channel' = "active" => channel = "active")
      /\ state' \in {"running", "exiting", "destroyed"}
      /\ refused' \subseteq refused /\ (channel' = "active" => refused' = refused)
  BY Zenon DEF IInv, Typed, DataReady, DrainEnds, TimerEnds, SignalClose, Close, RecvReply, MaxRequestTime
<1>5. replies' \in 0 .. QueueSize
  <2>1. replies \in 0 .. QueueSize /\ QueueSize \in Nat
    BY WorkerAssumption, Zenon DEF IInv, Typed
  <2>2. replies' = replies \/ replies' = 0 \/ (replies > 0 /\ replies' = replies - 1)
    BY Zenon DEF DataReady, DrainEnds, TimerEnds, SignalClose, Close, RecvReply, MaxRequestTime
  <2> QED
    BY <2>1, <2>2
<1>2. CASE DataReady \/ \E r \in Requests : MaxRequestTime(RecvTime[r])
  <2>1. PICK c \in AllCalls : c.op \notin HeldOps /\ stack' = <<c>> /\ stack = <<>> /\ state' # "destroyed"
    <3>1. CASE DataReady
      BY <3>1, CallTypes, Zenon DEF DataReady, EventLoop, HeldOps, Drain
    <3>2. CASE \E r \in Requests : MaxRequestTime(RecvTime[r])
      <4>1. PICK r \in Requests : MaxRequestTime(RecvTime[r])
        BY <3>2, Zenon
      <4>2. RecvTime[r] \in Nat /\ "timer" \in Calls
        BY WorkerAssumption, Zenon DEF Requests, Calls
      <4>3. Call("timer", RecvTime[r]) \in AllCalls /\ Call("timer", RecvTime[r]).op = "timer"
        BY <4>2, CallTypes, Zenon
      <4> QED
        BY <4>1, <4>3, Zenon DEF MaxRequestTime, EventLoop, HeldOps
    <3> QED
      BY <1>2, <3>1, <3>2, Zenon
  <2>2. stack' = <<c>> \o stack /\ stack \in Seq(AllCalls) /\ stack' \in Seq(AllCalls)
    BY <2>1 DEF IInv, Typed
  <2>5. HeldOnce(stack) /\ \A ops : Args(stack, ops) = {}
    BY <2>1, EmptyStack, Zenon
  <2>3. /\ HeldOnce(stack') /\ Args(stack', {"free"}) = {} /\ Args(stack', {"insert"}) = {}
        /\ Args(stack', {"interpret"}) = {}
    BY <2>1, <2>2, <2>5, PushOther, Zenon
  <2>4. Frees = {} /\ Inserts = {}
    BY <2>1, EmptyStack, Zenon DEF Frees, Inserts
  <2> QED
    BY <1>1, <1>5, <2>1, <2>2, <2>3, <2>4, StackKeeps, Zenon DEF Frees, Inserts, Runs
<1>3. CASE DrainEnds \/ TimerEnds
  <2>1. stack # <<>> /\ stack' = Caller /\ Top.op \notin {"free", "insert"} /\ UNCHANGED state
    BY <1>3, Zenon DEF DrainEnds, TimerEnds, In
  <2>2. state' # "destroyed"
    BY <2>1, Zenon DEF IInv, StackSound
  <2> QED
    BY <1>1, <1>5, <2>1, <2>2, Returns, StackKeeps, Zenon
<1>4. CASE SignalClose \/ Close \/ RecvReply
  <2>1. stack' = stack /\ (state' = "destroyed" => state = "destroyed")
    BY <1>4, Zenon DEF SignalClose, Close, RecvReply
  <2> QED
    BY <1>1, <1>5, <2>1, StackKeeps, Zenon DEF Frees, Inserts, Runs, IInv, Typed, StackSound
<1> QED
  BY <1>2, <1>3, <1>4, Zenon

\* A packet enters the channel.
LEMMA SendRequestKeeps ==
    ASSUME IInv, NEW p \in Packets, SendRequest(p)
    PROVE  IInv'
<1>1. /\ phase[p] = "new" /\ queue' = Append(queue, p) /\ phase' = [phase EXCEPT ![p] = "queued"]
      /\ UNCHANGED <<runnable, time_order, dedup, num_active, yielded, parent, again, stack, answers, replies, refused, channel, state>>
  BY Zenon DEF SendRequest
<1>2. p \in Requests /\ p \notin Children
  BY WorkerAssumption, Zenon DEF Requests
<1>3. /\ phase' \in [Requests -> {"new", "queued", "live", "done", "stopped", "freed"}]
      /\ phase'[p] = "queued" /\ \A q \in Requests : q # p => phase'[q] = phase[q]
  BY <1>1, <1>2, Zenon DEF IInv, Typed
<1>4. /\ queue \in Seq(Packets) /\ queue' \in Seq(Packets) /\ Len(queue') = Len(queue) + 1
      /\ DOMAIN queue = 1 .. Len(queue) /\ DOMAIN queue' = 1 .. Len(queue) + 1 /\ Len(queue) \in Nat
      /\ queue'[Len(queue) + 1] = p /\ \A i \in DOMAIN queue : queue'[i] = queue[i] /\ queue[i] \in Packets
  BY <1>1 DEF IInv, Typed
<1>5. \A q : InQueue(q)' => InQueue(q) \/ q = p
  BY <1>4 DEF InQueue
<1>6. p \notin Frees /\ p \notin Inserts /\ p \notin time_order /\ \A i \in DOMAIN queue : queue[i] # p
  BY <1>1, Zenon DEF IInv, StackSound, HeapsSound, QueueSound
<1>7. Frees' = Frees /\ Inserts' = Inserts /\ Runs' = Runs
  BY <1>1, Zenon DEF Frees, Inserts, Runs
<1>8. Typed'
  BY <1>1, <1>3, <1>4, Zenon DEF IInv, Typed
<1>9. StackSound'
  <2>1. \A q \in Frees : phase'[q] = "live"
    BY <1>3, <1>6, Zenon DEF IInv, StackSound, Requests
  <2>2. \A q \in Inserts : phase'[q] = "queued" /\ ~InQueue(q)'
    BY <1>3, <1>5, <1>6, Zenon DEF IInv, StackSound, Requests
  <2> QED
    BY <1>1, <1>7, <2>1, <2>2, Zenon DEF IInv, StackSound
<1>10. QueueSound'
  <2>1. ASSUME NEW i \in DOMAIN queue'
        PROVE  (i = Len(queue) + 1 /\ queue'[i] = p) \/ (i \in DOMAIN queue /\ queue'[i] = queue[i])
    BY <1>4
  <2>2. \A i \in DOMAIN queue' : phase'[queue'[i]] = "queued"
    BY <1>3, <1>4, <2>1 DEF IInv, QueueSound, Requests
  <2>3. \A i, j \in DOMAIN queue' : queue'[i] = queue'[j] => i = j
    BY <1>6, <2>1, Zenon DEF IInv, QueueSound
  <2> QED
    BY <2>2, <2>3, Zenon DEF QueueSound
<1>11. HeapsSound'
  BY <1>1, <1>3, <1>6, Zenon DEF IInv, Typed, HeapsSound
<1>12. \A c \in Children : c \in Requests /\ phase'[c] = phase[c]
  BY <1>2, <1>3, Zenon DEF Requests
<1>13. ChildrenSound'
  BY <1>1, <1>12, Zenon DEF IInv, Typed, ChildrenSound
<1>14. ParentsWait'
  <2>1. \A c \in Children : phase[c] \in {"live", "done", "stopped"} => parent[c] \in Requests /\ parent[c] # p
    BY <1>1, Zenon DEF IInv, Typed, ParentsWait
  <2> QED
    BY <1>1, <1>3, <1>12, <2>1, Zenon DEF IInv, ParentsWait
<1>15. AnswersSound'
  BY <1>1, <1>2, <1>3, <1>6, <1>7, Zenon DEF IInv, AnswersSound, Replied, Requests
<1> QED
  BY <1>8, <1>9, <1>10, <1>11, <1>13, <1>14, <1>15, Zenon DEF IInv

\* A packet that is refused or a duplicate: worker_nak and fr_channel_null_reply.
LEMMA RefuseKeeps ==
    ASSUME IInv, NEW p, Nak(p) \/ Duplicate(p)
    PROVE  IInv'
<1>1. /\ stack # <<>> /\ Top.op = "drain" /\ queue # <<>> /\ p = Head(queue) /\ queue' = Tail(queue)
      /\ phase' = [phase EXCEPT ![p] = "freed"]
      /\ UNCHANGED <<runnable, time_order, dedup, num_active, yielded, parent, again, channel, state>>
  BY Zenon DEF Nak, Duplicate, NullReply, Recv, In
<1>2. /\ p \in Packets /\ phase[p] = "queued" /\ InQueue(p) /\ queue' \in Seq(Packets)
      /\ \A q : InQueue(q)' <=> InQueue(q) /\ q # p
      /\ \A i, j \in DOMAIN queue' : queue'[i] = queue'[j] => i = j
  BY <1>1, QueueHead, Zenon
<1>3. p \in Requests /\ p \notin Children
  BY <1>2, WorkerAssumption, Zenon DEF Requests
<1>4. /\ phase' \in [Requests -> {"new", "queued", "live", "done", "stopped", "freed"}]
      /\ phase'[p] = "freed" /\ \A q \in Requests : q # p => phase'[q] = phase[q]
  BY <1>1, <1>3, Zenon DEF IInv, Typed
<1>5. p \notin Frees /\ p \notin Inserts /\ p \notin time_order
  BY <1>2, Zenon DEF IInv, StackSound, HeapsSound
<1>6. /\ stack' \in Seq(AllCalls) /\ HeldOnce(stack')
      /\ Frees' = Frees /\ Inserts' = Inserts /\ Runs' = {}
  <2>1. stack' = stack \/ stack' = <<Drain>> \o stack
    BY Zenon DEF Nak, Duplicate, NullReply, Reply
  <2>2. Runs = {} /\ stack \in Seq(AllCalls) /\ HeldOnce(stack)
    BY <1>1, NotRunning, Zenon DEF IInv, Typed, StackSound
  <2>3. Drain \in AllCalls /\ Drain.op \notin HeldOps
    BY CallTypes DEF Drain, HeldOps
  <2>4. CASE stack' = stack
    BY <2>2, <2>4, Zenon DEF Frees, Inserts, Runs
  <2>5. CASE stack' = <<Drain>> \o stack
    BY <2>2, <2>3, <2>5, PushOther, Zenon DEF Frees, Inserts, Runs
  <2> QED
    BY <2>1, <2>4, <2>5, Zenon
<1>7. /\ answers' \in [Packets -> 0 .. 1] /\ replies' \in 0 .. QueueSize /\ refused' \subseteq Packets
      /\ \A q \in Packets : q # p => (Replied(q)' <=> Replied(q))
      /\ \A q \in Packets : q \in refused' => answers'[q] = 0
      /\ channel = "active" => Replied(p)'
  <2>1. ~Replied(p)
    BY <1>2, <1>5, Zenon DEF IInv, AnswersSound
  <2>2. CASE Nak(p)
    <3>1. Reply(p, stack)
      BY <2>2, Zenon DEF Nak
    <3> QED
      BY <1>2, <2>1, <3>1, ReplySends, Zenon
  <2>3. CASE Duplicate(p)
    <3>1. answers' = [answers EXCEPT ![p] = @ + 1] /\ replies' = replies /\ refused' = refused
      BY <2>3, Zenon DEF Duplicate, NullReply
    <3>2. /\ answers \in [Packets -> 0 .. 1] /\ replies \in 0 .. QueueSize /\ refused \subseteq Packets
          /\ \A q \in Packets : q \in refused => answers[q] = 0
      BY Zenon DEF IInv, Typed, AnswersSound
    <3>3. answers[p] = 0 /\ p \notin refused
      BY <1>2, <2>1, <3>2 DEF Replied
    <3>4. /\ answers' \in [Packets -> 0 .. 1] /\ answers'[p] = 1
          /\ \A q \in Packets : q # p => answers'[q] = answers[q]
      BY <1>2, <3>1, <3>2, <3>3
    <3> QED
      BY <3>1, <3>2, <3>3, <3>4, Zenon DEF Replied
  <2> QED
    BY <2>2, <2>3, Zenon
<1>8. Typed'
  BY <1>1, <1>2, <1>4, <1>6, <1>7, Zenon DEF IInv, Typed
<1>9. StackSound'
  <2>1. \A q \in Frees : phase'[q] = "live"
    BY <1>4, <1>5, Zenon DEF IInv, StackSound, Requests
  <2>2. \A q \in Inserts : phase'[q] = "queued" /\ ~InQueue(q)'
    BY <1>2, <1>4, <1>5, Zenon DEF IInv, StackSound, Requests
  <2>3. state' # "destroyed"
    BY <1>1, Zenon DEF IInv, StackSound
  <2> QED
    BY <1>1, <1>6, <2>1, <2>2, <2>3, Zenon DEF IInv, StackSound
<1>10. QueueSound'
  <2>1. ASSUME NEW i \in DOMAIN queue'
        PROVE  phase'[queue'[i]] = "queued"
    <3>1. queue'[i] \in Packets /\ queue'[i] # p
      BY <1>2, <2>1 DEF InQueue
    <3>2. PICK j \in DOMAIN queue : queue[j] = queue'[i]
      BY <1>2, <2>1, Zenon DEF InQueue
    <3> QED
      BY <1>4, <3>1, <3>2, Zenon DEF IInv, QueueSound, Requests
  <2> QED
    BY <1>2, <2>1, Zenon DEF QueueSound
<1>11. HeapsSound'
  BY <1>1, <1>4, <1>5 DEF IInv, Typed, HeapsSound
<1>12. \A c \in Children : c \in Requests /\ phase'[c] = phase[c]
  BY <1>3, <1>4, Zenon DEF Requests
<1>13. ChildrenSound'
  BY <1>1, <1>12, Zenon DEF IInv, Typed, ChildrenSound
<1>14. ParentsWait'
  <2>1. \A c \in Children : phase[c] \in {"live", "done", "stopped"} => parent[c] \in Requests /\ parent[c] # p
    BY <1>2, Zenon DEF IInv, Typed, ParentsWait
  <2> QED
    BY <1>1, <1>4, <1>12, <2>1, Zenon DEF IInv, ParentsWait
<1>15. AnswersSound'
  <2> SUFFICES ASSUME NEW q \in Packets
               PROVE  /\ Replied(q)' => phase'[q] = "freed" \/ q \in Frees'
                      /\ channel' = "active" /\ (phase'[q] = "freed" \/ q \in Frees') => Replied(q)'
                      /\ q \in refused' => answers'[q] = 0
    BY Zenon DEF AnswersSound
  <2>1. CASE q = p
    BY <1>1, <1>4, <1>7, <2>1, Zenon
  <2>2. CASE q # p
    BY <1>1, <1>4, <1>6, <1>7, <2>2, Zenon DEF IInv, AnswersSound, Requests
  <2> QED
    BY <2>1, <2>2, Zenon
<1> QED
  BY <1>8, <1>9, <1>10, <1>11, <1>13, <1>14, <1>15, Zenon DEF IInv

\* A request begins, received just now or after the old one was stopped.
LEMMA StartKeeps ==
    ASSUME IInv, NEW p \in Packets, Start(p), phase[p] = "queued", stack # <<>>,
           queue' \in Seq(Packets), \A q : InQueue(q)' <=> InQueue(q) /\ q # p,
           \A i, j \in DOMAIN queue' : queue'[i] = queue'[j] => i = j,
           stack' \in Seq(AllCalls), HeldOnce(stack'), Frees' = Frees, Inserts' = Inserts \ {p},
           Runs' = {}, UNCHANGED <<answers, replies, refused, channel, state>>
    PROVE  IInv'
<1>1. /\ dedup' = IF Old(p) = {} THEN dedup \cup {p} ELSE dedup
      /\ time_order' = time_order \cup {p} /\ num_active' = num_active + 1
      /\ runnable' = runnable \cup {p} /\ phase' = [phase EXCEPT ![p] = "live"]
      /\ UNCHANGED <<yielded, parent, again>>
  BY Zenon DEF Start, TimeTrackingStart
<1>3. p \in Requests /\ p \notin Children
  BY WorkerAssumption, Zenon DEF Requests
<1>4. /\ phase' \in [Requests -> {"new", "queued", "live", "done", "stopped", "freed"}]
      /\ phase'[p] = "live" /\ \A q \in Requests : q # p => phase'[q] = phase[q]
  BY <1>1, <1>3, Zenon DEF IInv, Typed
<1>5. p \notin Frees /\ p \notin time_order
  BY Zenon DEF IInv, StackSound, HeapsSound
<1>8. Typed'
  BY <1>1, <1>3, <1>4, Zenon DEF IInv, Typed
<1>9. StackSound'
  <2>1. \A q \in Frees : phase'[q] = "live" /\ q \notin time_order'
    BY <1>1, <1>4, <1>5, Zenon DEF IInv, StackSound, Requests
  <2>2. \A q \in Inserts' : phase'[q] = "queued" /\ ~InQueue(q)'
    BY <1>4, Zenon DEF IInv, StackSound, Requests
  <2>3. state' # "destroyed"
    BY Zenon DEF IInv, StackSound
  <2> QED
    BY <2>1, <2>2, <2>3, Zenon DEF IInv, StackSound
<1>10. QueueSound'
  <2>1. ASSUME NEW i \in DOMAIN queue'
        PROVE  phase'[queue'[i]] = "queued"
    <3>1. queue'[i] \in Packets /\ queue'[i] # p
      BY <2>1 DEF InQueue
    <3>2. PICK j \in DOMAIN queue : queue[j] = queue'[i]
      BY <2>1, Zenon DEF InQueue
    <3> QED
      BY <1>4, <3>1, <3>2 DEF IInv, QueueSound, Requests
  <2> QED
    BY <2>1, Zenon DEF QueueSound
<1>11. HeapsSound'
  BY <1>1, <1>4, Zenon DEF IInv, Typed, HeapsSound
<1>12. \A c \in Children : c \in Requests /\ phase'[c] = phase[c] /\ c # p
  BY <1>3, <1>4, Zenon DEF Requests
<1>17. \A c \in Children : phase[c] \in {"live", "done", "stopped"} => parent[c] \in Requests /\ parent[c] # p
  BY Zenon DEF IInv, Typed, ParentsWait
<1>13. ChildrenSound'
  BY <1>1, <1>12, <1>17, Zenon DEF IInv, Typed, ChildrenSound
<1>14. ParentsWait'
  <2>1. \A c \in Children : c \in time_order => phase[c] = "live"
    BY Zenon DEF IInv, HeapsSound
  <2> QED
    BY <1>1, <1>4, <1>12, <1>17, <2>1, Zenon DEF IInv, ParentsWait
<1>15. AnswersSound'
  BY <1>3, <1>4, <1>5, Zenon DEF IInv, AnswersSound, Replied, Requests
<1> QED
  BY <1>8, <1>9, <1>10, <1>11, <1>13, <1>14, <1>15, Zenon DEF IInv

LEMMA BeginKeeps ==
    ASSUME IInv, InsertNew \/ \E p \in Packets : NewRequest(p)
    PROVE  IInv'
<1>1. CASE InsertNew
  <2> DEFINE p == Top.arg
  <2>1. stack # <<>> /\ Top.op = "insert" /\ stack' = Caller /\ Start(p) /\ UNCHANGED <<queue, answers, replies, refused, channel, state>>
    BY <1>1, Zenon DEF InsertNew, In
  <2>2. /\ stack' \in Seq(AllCalls) /\ HeldOnce(stack') /\ Frees' = Frees /\ Inserts' = Inserts \ {p}
        /\ Runs' = {} /\ p \in Inserts
    BY <2>1, Returns, Zenon
  <2> HIDE DEF p
  <2>3. p \in Packets /\ phase[p] = "queued" /\ ~InQueue(p)
    BY <2>2, Zenon DEF IInv, StackSound
  <2>4. \A q : InQueue(q)' <=> InQueue(q) /\ q # p
    BY <2>1, <2>3, Zenon DEF InQueue
  <2>5. queue' \in Seq(Packets) /\ \A i, j \in DOMAIN queue' : queue'[i] = queue'[j] => i = j
    BY <2>1, Zenon DEF IInv, Typed, QueueSound
  <2> QED
    BY <2>1, <2>2, <2>3, <2>4, <2>5, StartKeeps, Zenon
<1>2. ASSUME NEW p \in Packets, NewRequest(p)
      PROVE  IInv'
  <2>1. /\ stack # <<>> /\ Top.op = "drain" /\ queue # <<>> /\ p = Head(queue) /\ queue' = Tail(queue)
        /\ Start(p) /\ UNCHANGED <<stack, answers, replies, refused, channel, state>>
    BY <1>2, Zenon DEF NewRequest, Recv, In
  <2>2. /\ phase[p] = "queued" /\ InQueue(p) /\ queue' \in Seq(Packets)
        /\ \A q : InQueue(q)' <=> InQueue(q) /\ q # p
        /\ \A i, j \in DOMAIN queue' : queue'[i] = queue'[j] => i = j
    BY <2>1, QueueHead, Zenon
  <2>3. Runs = {} /\ p \notin Inserts
    BY <2>1, <2>2, NotRunning, Zenon DEF IInv, StackSound
  <2>4. stack' \in Seq(AllCalls) /\ HeldOnce(stack') /\ Frees' = Frees /\ Inserts' = Inserts \ {p} /\ Runs' = {}
    BY <2>1, <2>3, Zenon DEF IInv, Typed, StackSound, Frees, Inserts, Runs
  <2> QED
    BY <2>1, <2>2, <2>4, StartKeeps, Zenon
<1> QED
  BY <1>1, <1>2, Zenon

\* The calls that end a request: those of the timer, of fr_worker_destroy and of
\* the interpreter, and the conflict with a newer packet.
LEMMA EndKeeps ==
    ASSUME IInv,
           \/ TimerStops \/ Destroy \/ Finish
           \/ \E p \in Packets : Conflict(p)
           \/ \E r \in Requests : RunRequest(r) /\ r \in Packets /\ channel # "active"
    PROVE  IInv'
<1>1. /\ queue \in Seq(Packets) /\ (\A i, j \in DOMAIN queue : queue[i] = queue[j] => i = j)
      /\ stack \in Seq(AllCalls) /\ HeldOnce(stack) /\ Inserts \subseteq Packets
      /\ \A p \in Inserts : phase[p] = "queued" /\ ~InQueue(p)
  BY Zenon DEF IInv, Typed, StackSound, QueueSound
<1>2. ASSUME NEW r \in time_order, StopRequest(r, stack), Runs = {},
             UNCHANGED <<queue, channel, state>>, state # "destroyed"
      PROVE  IInv'
  <2>1. \A p : InQueue(p)' <=> InQueue(p)
    BY <1>2, Zenon DEF InQueue
  <2>2. Cancel({r} \cup ChildOf(r), r, stack)
    BY <1>2, Zenon DEF StopRequest
  <2>3. Args(stack, {"free"}) = Frees /\ Args(stack, {"interpret"}) = {} /\ Args(stack, {"insert"}) = Inserts
    BY <1>2, Zenon DEF Frees, Runs, Inserts
  <2> QED
    BY <1>1, <1>2, <2>1, <2>2, <2>3, CancelKeeps, Zenon
<1>3. stack = <<>> => Runs = {}
  BY EmptyStack, Zenon DEF Runs
<1>4. CASE TimerStops
  <2>1. /\ stack # <<>> /\ Top.op = "timer" /\ UNCHANGED <<queue, channel, state>>
        /\ \E r \in PeekTail : StopRequest(r, stack)
    BY <1>4, Zenon DEF TimerStops, In
  <2>2. PICK r \in time_order : StopRequest(r, stack)
    BY <2>1, Zenon DEF PeekTail
  <2>3. Runs = {} /\ state # "destroyed"
    BY <2>1, NotRunning, Zenon DEF IInv, StackSound
  <2> QED
    BY <1>2, <2>1, <2>2, <2>3, Zenon
<1>5. CASE Destroy
  <2>1. CASE time_order # {}
    <3>1. /\ stack = <<>> /\ state # "destroyed" /\ UNCHANGED <<queue, channel, state>>
          /\ \E r \in Oldest(time_order) : StopRequest(r, stack)
      BY <1>5, <2>1, Zenon DEF Destroy, EventLoop
    <3>2. PICK r \in time_order : StopRequest(r, stack)
      BY <3>1, Zenon DEF Oldest
    <3> QED
      BY <1>2, <1>3, <3>1, <3>2, Zenon
  <2>2. CASE time_order = {}
    BY <1>1, <1>5, <2>2, StackKeeps, Zenon DEF Destroy, EventLoop, Frees, Inserts, IInv, Typed
  <2> QED
    BY <2>1, <2>2, Zenon
<1>6. ASSUME NEW r \in Requests, RunRequest(r), r \in Packets, channel # "active"
      PROVE  IInv'
  <2>1. /\ stack = <<>> /\ state # "destroyed" /\ UNCHANGED <<queue, channel, state>>
        /\ r \in runnable /\ StopRequest(r, stack)
    BY <1>6, Zenon DEF RunRequest, EventLoop, Oldest
  <2>2. r \in time_order
    BY <2>1, Zenon DEF IInv, HeapsSound
  <2> QED
    BY <1>2, <1>3, <2>1, <2>2, Zenon
<1>7. ASSUME NEW p \in Packets, Conflict(p)
      PROVE  IInv'
  <2> DEFINE c == Call("insert", p)
             rest == <<c>> \o stack
  <2>1. /\ stack # <<>> /\ Top.op = "drain" /\ queue # <<>> /\ p = Head(queue) /\ queue' = Tail(queue)
        /\ UNCHANGED <<channel, state>> /\ \E old \in Old(p) : StopRequest(old, rest)
    BY <1>7, Zenon DEF Conflict, Recv, In
  <2>2. PICK r \in time_order : Cancel({r} \cup ChildOf(r), r, rest)
    BY <2>1, Zenon DEF IInv, HeapsSound, Old, StopRequest
  <2>3. /\ phase[p] = "queued" /\ InQueue(p) /\ queue' \in Seq(Packets)
        /\ \A q : InQueue(q)' <=> InQueue(q) /\ q # p
        /\ \A i, j \in DOMAIN queue' : queue'[i] = queue'[j] => i = j
    BY <2>1, QueueHead, Zenon
  <2>4. Runs = {} /\ p \notin Inserts /\ p \notin Frees /\ state # "destroyed"
    BY <2>1, <2>3, NotRunning, Zenon DEF IInv, StackSound
  <2>5. c \in AllCalls /\ c.op = "insert" /\ c.arg = p
    BY CallTypes, Zenon DEF Requests, Calls
  <2>6. p \notin Args(stack, HeldOps)
    BY <1>1, <2>4, HeldArgs, Zenon DEF Frees, Inserts, Runs
  <2> HIDE DEF c
  <2>7. /\ rest \in Seq(AllCalls) /\ HeldOnce(rest)
        /\ Args(rest, {"free"}) = Args(stack, {"free"})
        /\ Args(rest, {"insert"}) = Args(stack, {"insert"}) \cup {p}
        /\ Args(rest, {"interpret"}) = Args(stack, {"interpret"})
    BY <1>1, <2>5, <2>6, Push DEF HeldOps
  <2> HIDE DEF rest
  <2>8. /\ Args(rest, {"free"}) = Frees /\ Args(rest, {"interpret"}) = {} /\ Args(rest, {"insert"}) \subseteq Packets
        /\ \A q \in Args(rest, {"insert"}) : phase[q] = "queued" /\ ~InQueue(q)'
    BY <1>1, <2>3, <2>4, <2>7, Zenon DEF Frees, Inserts, Runs
  <2> QED
    BY <2>1, <2>2, <2>3, <2>4, <2>7, <2>8, CancelKeeps, Zenon
<1>8. CASE Finish
  <2> DEFINE r == Top.arg
             u == Caller
  <2>1. /\ stack # <<>> /\ Top.op = "interpret" /\ r \in Packets
        /\ TimeTrackingEnd({r}) /\ DoneExternal(r, u)
        /\ UNCHANGED <<queue, phase, runnable, yielded, parent, channel, state>>
    BY <1>8, Zenon DEF Finish, In
  <2>2. r \in Runs /\ u = <<>> /\ Frees = {} /\ Inserts = {}
    BY <2>1, Running, Zenon
  <2> HIDE DEF r, u
  <2>3. r \in time_order /\ r \notin runnable /\ r \notin yielded /\ ChildOf(r) = {} /\ state # "destroyed"
    <3>1. \A c \in Children : parent[c] # r
      BY <2>1, <2>2, WorkerAssumption, Zenon DEF IInv, StackSound
    <3> QED
      BY <2>1, <2>2, <3>1, Zenon DEF IInv, StackSound, ChildOf
  <2>4. ({r} \cup ChildOf(r)) = {r} /\ {r} \cap Children = {}
    BY <2>1, <2>3, WorkerAssumption, Zenon
  <2>5. phase' = InPhase({}, "stopped")
    BY <2>1, Zenon DEF InPhase, IInv, Typed
  <2>6. Cancel({r}, r, u)
    BY <2>1, <2>3, <2>4, <2>5, Zenon DEF Cancel, RequestStop
  <2>7. /\ u \in Seq(AllCalls) /\ HeldOnce(u) /\ Args(u, {"free"}) = {} /\ Args(u, {"interpret"}) = {}
        /\ Args(u, {"insert"}) = {}
    BY <2>2, EmptyStack, Zenon
  <2>8. \A p : InQueue(p)' <=> InQueue(p)
    BY <2>1, Zenon DEF InQueue
  <2> QED
    BY <1>1, <2>1, <2>2, <2>3, <2>4, <2>6, <2>7, <2>8, CancelKeeps, Zenon
<1> QED
  BY <1>4, <1>5, <1>6, <1>7, <1>8, Zenon

-----------------------------------------------------------------------------
(* The interpreter, and the end of the calls it makes *)

LEMMA FreeKeeps ==
    ASSUME IInv, FreeRequest
    PROVE  IInv'
<1> DEFINE p == Top.arg
           S == {p} \cup ChildOf(p)
<1>1. /\ stack # <<>> /\ Top.op = "free" /\ stack' = Caller /\ Free(S)
      /\ UNCHANGED <<queue, runnable, time_order, dedup, num_active, yielded, again, answers, replies, refused, channel, state>>
  BY Zenon DEF FreeRequest, In
<1>2. /\ stack' \in Seq(AllCalls) /\ HeldOnce(stack') /\ Frees' = Frees \ {p} /\ Inserts' = Inserts
      /\ Runs' = {} /\ p \in Frees
  BY <1>1, Returns, Zenon
<1> HIDE DEF p
<1>3. /\ p \in Packets /\ p \in Requests /\ p \notin Children /\ phase[p] = "live" /\ p \notin time_order
  BY <1>2, WorkerAssumption, Zenon DEF IInv, StackSound, Requests
<1>4. /\ \A c \in Children : c \in S <=> parent[c] = p
      /\ \A q \in Packets : q \in S <=> q = p
  BY <1>3, WorkerAssumption, Zenon DEF ChildOf
<1> HIDE DEF S
<1>5. /\ phase' \in [Requests -> {"new", "queued", "live", "done", "stopped", "freed"}]
      /\ \A q \in Requests : q \in S => phase'[q] = "freed"
      /\ \A q \in Requests : q \notin S => phase'[q] = phase[q]
      /\ parent' \in [Children -> Requests]
      /\ \A c \in Children : c \in S => parent'[c] = c
      /\ \A c \in Children : c \notin S => parent'[c] = parent[c]
  <2>1. phase' = InPhase(S, "freed") /\ parent' = [c \in Children |-> IF c \in S THEN c ELSE parent[c]]
    BY <1>1, Zenon DEF Free
  <2> QED
    BY <2>1, Zenon DEF InPhase, IInv, Typed, Requests
<1>6. \A c \in Children : c \in S => c \notin time_order
  <2>1. \A c \in Children : c \in time_order => parent[c] \in yielded
    BY Zenon DEF IInv, ParentsWait
  <2>2. yielded \subseteq time_order
    BY Zenon DEF IInv, HeapsSound
  <2> QED
    BY <1>3, <1>4, <2>1, <2>2, Zenon
<1>7. \A q \in time_order : q \in Requests /\ q \notin S
  BY <1>3, <1>4, <1>6, Zenon DEF IInv, Typed, Requests
<1>8. Typed'
  BY <1>1, <1>2, <1>5, Zenon DEF IInv, Typed
<1>9. StackSound'
  <2>1. \A q \in Frees' : q \in Packets /\ phase'[q] = "live" /\ q \notin time_order'
    BY <1>1, <1>2, <1>4, <1>5, Zenon DEF IInv, StackSound, Requests
  <2>2. \A q \in Inserts : q \in Packets /\ phase'[q] = "queued" /\ ~InQueue(q)'
    <3>1. \A q : InQueue(q)' <=> InQueue(q)
      BY <1>1, Zenon DEF InQueue
    <3> QED
      BY <1>3, <1>4, <1>5, <3>1, Zenon DEF IInv, StackSound, Requests
  <2>3. state' # "destroyed"
    BY <1>1, Zenon DEF IInv, StackSound
  <2> QED
    BY <1>2, <2>1, <2>2, <2>3, Zenon DEF StackSound
<1>10. QueueSound'
  <2>1. \A i \in DOMAIN queue : queue[i] \in Packets /\ phase[queue[i]] = "queued"
    BY DEF IInv, Typed, QueueSound
  <2>2. \A i \in DOMAIN queue : phase'[queue[i]] = "queued"
    BY <1>3, <1>4, <1>5, <2>1, Zenon DEF Requests
  <2> QED
    BY <1>1, <2>2, Zenon DEF IInv, QueueSound
<1>11. HeapsSound'
  BY <1>1, <1>5, <1>7, Zenon DEF IInv, HeapsSound
<1>12. ChildrenSound'
  <2>1. ASSUME NEW c \in Children
        PROVE  /\ phase'[c] # "queued"
               /\ phase'[c] \in {"new", "freed"} => parent'[c] = c
               /\ phase'[c] \notin {"new", "freed"} => parent'[c] \in Packets
               /\ phase'[c] = "live" => c \in time_order'
    <3>1. CASE c \in S
      BY <1>5, <3>1 DEF Requests
    <3>2. CASE c \notin S
      <4>1. phase'[c] = phase[c] /\ parent'[c] = parent[c] /\ time_order' = time_order
        BY <1>1, <1>5, <3>2, Zenon DEF Requests
      <4> QED
        BY <4>1, Zenon DEF IInv, ChildrenSound
    <3> QED
      BY <3>1, <3>2, Zenon
  <2>2. ASSUME NEW c \in Children, NEW d \in Children, parent'[c] = parent'[d]
        PROVE  c = d
    <3>1. c \in S /\ d \notin S => parent[d] = c /\ parent[c] = p
      BY <1>4, <1>5, <2>2, Zenon
    <3>2. d \in S /\ c \notin S => parent[c] = d /\ parent[d] = p
      BY <1>4, <1>5, <2>2, Zenon
    <3>3. \A e \in Children : parent[e] \in Children => parent[e] = e
      BY WorkerAssumption, Zenon DEF IInv, ChildrenSound
    <3>4. c \in S <=> d \in S
      BY <1>3, <3>1, <3>2, <3>3, Zenon
    <3> QED
      BY <1>5, <2>2, <3>4 DEF IInv, ChildrenSound
  <2>3. ASSUME NEW c \in again'
        PROVE  phase'[c] = "freed" \/ (phase'[c] = "stopped" /\ parent'[c] \notin time_order')
    BY <1>1, <1>5, <2>3, Zenon DEF IInv, Typed, ChildrenSound, Requests
  <2> QED
    BY <2>1, <2>2, <2>3, Zenon DEF ChildrenSound
<1>13. ParentsWait'
  <2> SUFFICES ASSUME NEW c \in Children
               PROVE  /\ c \in time_order' => parent'[c] \in yielded' \ runnable'
                      /\ phase'[c] = "done" => parent'[c] \in yielded' \cap runnable'
                      /\ phase'[c] \in {"live", "done", "stopped"} => phase'[parent'[c]] = "live"
    BY Zenon DEF ParentsWait
  <2>1. CASE c \in S
    BY <1>1, <1>5, <1>6, <2>1, Zenon DEF Requests
  <2>2. CASE c \notin S
    <3>1. phase[c] \in {"live", "done", "stopped"} => parent[c] \in Packets
      BY Zenon DEF IInv, ChildrenSound
    <3>2. parent[c] \in Packets => parent[c] \notin S /\ parent[c] \in Requests
      BY <1>4, <2>2, Zenon DEF Requests
    <3>3. c \in Requests /\ phase'[c] = phase[c] /\ parent'[c] = parent[c]
      BY <1>5, <2>2, Zenon DEF Requests
    <3>4. /\ c \in time_order => parent[c] \in yielded \ runnable
          /\ phase[c] = "done" => parent[c] \in yielded \cap runnable
          /\ phase[c] \in {"live", "done", "stopped"} => phase[parent[c]] = "live"
      BY Zenon DEF IInv, ParentsWait
    <3> QED
      BY <1>1, <1>5, <3>1, <3>2, <3>3, <3>4, Zenon
  <2> QED
    BY <2>1, <2>2, Zenon
<1>14. AnswersSound'
  <2> SUFFICES ASSUME NEW q \in Packets
               PROVE  /\ Replied(q)' => phase'[q] = "freed" \/ q \in Frees'
                      /\ channel' = "active" /\ (phase'[q] = "freed" \/ q \in Frees') => Replied(q)'
                      /\ q \in refused' => answers'[q] = 0
    BY Zenon DEF AnswersSound
  <2>1. /\ Replied(q)' <=> Replied(q)
        /\ Replied(q) => phase[q] = "freed" \/ q \in Frees
        /\ channel = "active" /\ (phase[q] = "freed" \/ q \in Frees) => Replied(q)
        /\ q \in refused => answers[q] = 0
    BY <1>1, Zenon DEF IInv, AnswersSound, Replied
  <2> QED
    BY <1>1, <1>2, <1>3, <1>4, <1>5, <2>1, Zenon DEF Requests
<1> QED
  BY <1>8, <1>9, <1>10, <1>11, <1>12, <1>13, <1>14, Zenon DEF IInv

\* Steps that leave phase, parent, time_order and the answers alone.
LEMMA YieldKeeps ==
    ASSUME IInv, Yield \/ \E r \in Requests : MarkRunnable(r)
    PROVE  IInv'
<1>1. /\ UNCHANGED <<queue, phase, time_order, dedup, num_active, parent, again, answers, replies, refused, channel, state>>
      /\ state # "destroyed"
  BY Zenon DEF Yield, MarkRunnable, EventLoop, In, IInv, StackSound
<1>2. \A q : InQueue(q)' <=> InQueue(q)
  BY <1>1, Zenon DEF InQueue
<1>3. CASE Yield
  <2> DEFINE r == Top.arg
  <2>1. stack # <<>> /\ Top.op = "interpret" /\ stack' = Caller /\ runnable' = runnable /\ yielded' = yielded \cup {r}
    BY <1>3, Zenon DEF Yield, In
  <2>2. /\ stack' \in Seq(AllCalls) /\ HeldOnce(stack') /\ Frees' = Frees /\ Inserts' = Inserts
        /\ Runs' = {} /\ r \in Runs
    BY <2>1, Returns, Zenon
  <2> HIDE DEF r
  <2>3. r \in time_order /\ r \in Requests /\ r \notin runnable /\ \A c \in Children : parent[c] # r \/ parent[c] = c
    BY <2>2, Zenon DEF IInv, StackSound, Typed
  <2>4. Typed' /\ QueueSound' /\ HeapsSound'
    BY <1>1, <2>1, <2>2, <2>3, Zenon DEF IInv, Typed, QueueSound, HeapsSound
  <2>5. StackSound'
    BY <1>1, <1>2, <2>2, Zenon DEF IInv, StackSound
  <2>6. ChildrenSound' /\ AnswersSound'
    BY <1>1, <2>2, Zenon DEF IInv, ChildrenSound, AnswersSound, Replied
  <2>7. ParentsWait'
    BY <1>1, <2>1, Zenon DEF IInv, ParentsWait
  <2> QED
    BY <2>4, <2>5, <2>6, <2>7, Zenon DEF IInv
<1>4. ASSUME NEW r \in Requests, MarkRunnable(r)
      PROVE  IInv'
  <2>1. /\ stack = <<>> /\ stack' = stack /\ yielded' = yielded /\ r \in yielded
        /\ runnable' = runnable \cup {r} /\ \A c \in Children : parent[c] # r
    BY <1>4, Zenon DEF MarkRunnable, EventLoop, ChildOf, WithRunnable
  <2>2. Frees' = Frees /\ Inserts' = Inserts /\ Runs' = {}
    BY <2>1, EmptyStack, Zenon DEF Frees, Inserts, Runs
  <2>4. Typed' /\ QueueSound' /\ HeapsSound'
    BY <1>1, <2>1, <2>2, ZenonT(40) DEF IInv, Typed, QueueSound, HeapsSound
  <2>5. StackSound'
    BY <1>1, <1>2, <2>1, <2>2, Zenon DEF IInv, StackSound
  <2>6. ChildrenSound' /\ AnswersSound'
    BY <1>1, <2>2, Zenon DEF IInv, ChildrenSound, AnswersSound, Replied
  <2>7. ParentsWait'
    BY <1>1, <2>1, Zenon DEF IInv, ParentsWait
  <2> QED
    BY <2>4, <2>5, <2>6, <2>7, Zenon DEF IInv
<1> QED
  BY <1>3, <1>4, Zenon

\* The interpreter is called for a request, which frees the subrequest it waited for.
LEMMA RunKeeps ==
    ASSUME IInv, NEW r \in Requests, RunRequest(r), ~(r \in Packets /\ channel # "active")
    PROVE  IInv'
<1> DEFINE S == ChildOf(r)
           c == Call("interpret", r)
<1>1. /\ stack = <<>> /\ state # "destroyed" /\ r \in runnable /\ stack' = <<c>> \o stack
      /\ runnable' = runnable \ {r} /\ yielded' = yielded \ {r} /\ Free(S)
      /\ UNCHANGED <<queue, time_order, dedup, num_active, again, answers, replies, refused, channel, state>>
  BY DEF RunRequest, EventLoop, Oldest, ParentResume
<1>2. r \in time_order
  BY <1>1, Zenon DEF IInv, HeapsSound
<1>3. r \in Children => S = {}
  BY <1>2, StoppedSet, Zenon
<1>4. /\ stack' \in Seq(AllCalls) /\ HeldOnce(stack') /\ Frees' = {} /\ Frees = {} /\ Inserts' = {}
      /\ Inserts = {} /\ Runs' = {r} /\ Len(stack') = 1
  <2>1. c \in AllCalls /\ c.op = "interpret" /\ c.arg = r
    BY CallTypes, Zenon DEF Calls
  <2>2. stack \in Seq(AllCalls) /\ HeldOnce(stack) /\ (\A ops : Args(stack, ops) = {}) /\ Len(stack) = 0
    BY <1>1, EmptyStack, Zenon
  <2> DEFINE t == <<c>> \o stack
  <2>4. stack' = t /\ c.arg \notin Args(stack, HeldOps)
    BY <1>1, <2>2, Zenon
  <2> HIDE DEF c
  <2>5. c.op \notin {"free"} /\ c.op \notin {"insert"} /\ c.op \in {"interpret"}
    BY <2>1, Zenon
  <2>3. /\ t \in Seq(AllCalls) /\ Len(t) = Len(stack) + 1
        /\ HeldOnce(t) <=> HeldOnce(stack) /\ (c.op \in HeldOps => c.arg \notin Args(stack, HeldOps))
    BY <2>1, <2>2, Push, Zenon
  <2>6. ASSUME NEW ops, c.op \notin ops
        PROVE  Args(t, ops) = Args(stack, ops)
    BY <2>1, <2>2, <2>6, Push, ZenonT(40)
  <2>7. Args(t, {"interpret"}) = Args(stack, {"interpret"}) \cup {c.arg}
    BY <2>1, <2>2, <2>5, Push, ZenonT(40)
  <2> HIDE DEF t
  <2> QED
    BY <2>1, <2>2, <2>3, <2>4, <2>5, <2>6, <2>7 DEF Frees, Inserts, Runs
<1>5. S \subseteq Children /\ (\A d \in Children : d \in S <=> parent[d] = r)
      /\ \A q \in Packets : q \notin S
  BY WorkerAssumption, Zenon DEF ChildOf
<1> HIDE DEF S, c
<1>6. /\ phase' \in [Requests -> {"new", "queued", "live", "done", "stopped", "freed"}]
      /\ \A q \in Requests : q \in S => phase'[q] = "freed"
      /\ \A q \in Requests : q \notin S => phase'[q] = phase[q]
      /\ parent' \in [Children -> Requests]
      /\ \A d \in Children : d \in S => parent'[d] = d
      /\ \A d \in Children : d \notin S => parent'[d] = parent[d]
  <2>1. phase' = InPhase(S, "freed") /\ parent' = [d \in Children |-> IF d \in S THEN d ELSE parent[d]]
    BY <1>1, Zenon DEF Free
  <2> QED
    BY <2>1, Zenon DEF InPhase, IInv, Typed, Requests
<1>7. \A q \in time_order : q \in Requests /\ q \notin S
  <2>1. \A d \in Children : d \in time_order => parent[d] \in yielded \ runnable
    BY Zenon DEF IInv, ParentsWait
  <2> QED
    BY <1>1, <1>5, <2>1, Zenon DEF IInv, Typed, Requests
<1>8. Typed'
  BY <1>1, <1>4, <1>6, Zenon DEF IInv, Typed
<1>9. StackSound'
  <2>1. \A d \in Children : parent'[d] # r \/ parent'[d] = d
    BY <1>5, <1>6, Zenon
  <2> QED
    BY <1>1, <1>2, <1>4, <2>1, Zenon DEF StackSound
<1>10. QueueSound'
  <2>1. \A i \in DOMAIN queue : queue[i] \in Packets /\ phase[queue[i]] = "queued"
    BY DEF IInv, Typed, QueueSound
  <2>2. \A i \in DOMAIN queue : phase'[queue[i]] = "queued"
    BY <1>5, <1>6, <2>1, Zenon DEF Requests
  <2> QED
    BY <1>1, <2>2, Zenon DEF IInv, QueueSound
<1>11. HeapsSound'
  BY <1>1, <1>6, <1>7, Zenon DEF IInv, HeapsSound
<1>12. ChildrenSound'
  <2>1. ASSUME NEW d \in Children
        PROVE  /\ phase'[d] # "queued"
               /\ phase'[d] \in {"new", "freed"} => parent'[d] = d
               /\ phase'[d] \notin {"new", "freed"} => parent'[d] \in Packets
               /\ phase'[d] = "live" => d \in time_order'
    BY <1>1, <1>6, ZenonT(40) DEF IInv, ChildrenSound, Requests
  <2>2. ASSUME NEW d \in Children, NEW e \in Children, parent'[d] = parent'[e]
        PROVE  d = e
    <3>1. d \in S /\ e \notin S => parent[e] = d /\ parent[d] = r
      BY <1>5, <1>6, <2>2, Zenon
    <3>2. e \in S /\ d \notin S => parent[d] = e /\ parent[e] = r
      BY <1>5, <1>6, <2>2, Zenon
    <3>3. \A f \in Children : parent[f] \in Children => parent[f] = f
      BY WorkerAssumption, Zenon DEF IInv, ChildrenSound
    <3>4. d \in S <=> e \in S
      BY <1>3, <3>1, <3>2, <3>3, Zenon
    <3> QED
      BY <1>6, <2>2, <3>4 DEF IInv, ChildrenSound
  <2>3. ASSUME NEW d \in again'
        PROVE  phase'[d] = "freed" \/ (phase'[d] = "stopped" /\ parent'[d] \notin time_order')
    BY <1>1, <1>6, <2>3, Zenon DEF IInv, Typed, ChildrenSound, Requests
  <2> QED
    BY <2>1, <2>2, <2>3, Zenon DEF ChildrenSound
<1>13. ParentsWait'
  <2> SUFFICES ASSUME NEW d \in Children
               PROVE  /\ d \in time_order' => parent'[d] \in yielded' \ runnable'
                      /\ phase'[d] = "done" => parent'[d] \in yielded' \cap runnable'
                      /\ phase'[d] \in {"live", "done", "stopped"} => phase'[parent'[d]] = "live"
    BY Zenon DEF ParentsWait
  <2>1. CASE d \in S
    BY <1>1, <1>6, <1>7, <2>1, Zenon DEF Requests
  <2>2. CASE d \notin S
    <3>1. phase[d] \in {"live", "done", "stopped"} => parent[d] \in Packets
      BY Zenon DEF IInv, ChildrenSound
    <3>2. parent[d] \in Packets => parent[d] \notin S /\ parent[d] \in Requests
      BY <1>5, Zenon DEF Requests
    <3>3. d \in Requests /\ phase'[d] = phase[d] /\ parent'[d] = parent[d] /\ parent[d] # r
      BY <1>5, <1>6, <2>2, Zenon DEF Requests
    <3>4. /\ d \in time_order => parent[d] \in yielded \ runnable
          /\ phase[d] = "done" => parent[d] \in yielded \cap runnable
          /\ phase[d] \in {"live", "done", "stopped"} => phase[parent[d]] = "live"
      BY Zenon DEF IInv, ParentsWait
    <3> QED
      BY <1>1, <1>6, <3>1, <3>2, <3>3, <3>4, Zenon
  <2> QED
    BY <2>1, <2>2, Zenon
<1>14. AnswersSound'
  <2>1. \A q \in Packets : q \in Requests /\ phase'[q] = phase[q]
    BY <1>5, <1>6, Zenon DEF Requests
  <2> QED
    BY <1>1, <1>4, <2>1, Zenon DEF IInv, AnswersSound, Replied
<1> QED
  BY <1>8, <1>9, <1>10, <1>11, <1>12, <1>13, <1>14, Zenon DEF IInv

LEMMA SubrequestKeeps ==
    ASSUME IInv, NEW c \in Children, Subrequest(c)
    PROVE  IInv'
<1> DEFINE r == Top.arg
<1>1. /\ stack # <<>> /\ Top.op = "interpret" /\ r \in Packets /\ phase[c] = "new" /\ stack' = Caller
      /\ parent' = [parent EXCEPT ![c] = r] /\ phase' = [phase EXCEPT ![c] = "live"]
      /\ time_order' = time_order \cup {c} /\ num_active' = num_active + 1
      /\ runnable' = runnable \cup {c} /\ yielded' = yielded \cup {r}
      /\ UNCHANGED <<queue, dedup, again, answers, replies, refused, channel, state>>
  BY Zenon DEF Subrequest, ChildRun, TimeTrackingStart, In
<1>2. /\ stack' \in Seq(AllCalls) /\ HeldOnce(stack') /\ Frees' = {} /\ Frees = {} /\ Inserts' = {}
      /\ Inserts = {} /\ Runs' = {} /\ r \in Runs
  BY <1>1, Returns, Zenon
<1> HIDE DEF r
<1>3. /\ r \in time_order /\ r \in Requests /\ r \notin runnable /\ r # c /\ phase[r] = "live"
      /\ c \notin Packets /\ c \in Requests
      /\ \A d \in Children : parent[d] # r
  BY <1>1, <1>2, WorkerAssumption DEF IInv, StackSound, Typed, HeapsSound, Requests
<1>4. c \notin time_order /\ c \notin again
  BY <1>1, Zenon DEF IInv, HeapsSound, ChildrenSound
<1>5. /\ phase' \in [Requests -> {"new", "queued", "live", "done", "stopped", "freed"}]
      /\ phase'[c] = "live" /\ \A q \in Requests : q # c => phase'[q] = phase[q]
      /\ parent' \in [Children -> Requests]
      /\ parent'[c] = r /\ \A d \in Children : d # c => parent'[d] = parent[d]
  BY <1>1, <1>3, Zenon DEF IInv, Typed
<1>6. Typed'
  BY <1>1, <1>2, <1>3, <1>5, ZenonT(40) DEF IInv, Typed
<1>7. StackSound'
  BY <1>1, <1>2, Zenon DEF IInv, StackSound
<1>8. QueueSound'
  <2>1. \A i \in DOMAIN queue : queue[i] \in Packets /\ phase[queue[i]] = "queued"
    BY DEF IInv, Typed, QueueSound
  <2>2. \A i \in DOMAIN queue : phase'[queue[i]] = "queued"
    BY <1>3, <1>5, <2>1, Zenon DEF Requests
  <2> QED
    BY <1>1, <2>2, Zenon DEF IInv, QueueSound
<1>9. HeapsSound'
  BY <1>1, <1>3, <1>5 DEF IInv, Typed, HeapsSound
<1>11. ChildrenSound'
  <2>1. ASSUME NEW d \in Children
        PROVE  /\ phase'[d] # "queued"
               /\ phase'[d] \in {"new", "freed"} => parent'[d] = d
               /\ phase'[d] \notin {"new", "freed"} => parent'[d] \in Packets
               /\ phase'[d] = "live" => d \in time_order'
    BY <1>1, <1>5, Zenon DEF IInv, ChildrenSound, Requests
  <2>2. ASSUME NEW d \in Children, NEW e \in Children, parent'[d] = parent'[e]
        PROVE  d = e
    BY <1>3, <1>5, <2>2 DEF IInv, ChildrenSound
  <2>3. ASSUME NEW d \in again'
        PROVE  phase'[d] = "freed" \/ (phase'[d] = "stopped" /\ parent'[d] \notin time_order')
    <3>1. /\ d \in Children /\ d # c /\ d \in Requests
          /\ phase[d] = "freed" \/ (phase[d] = "stopped" /\ parent[d] \notin time_order)
          /\ phase[d] = "stopped" => parent[d] \in Packets
      BY <1>1, <1>4, <2>3, Zenon DEF IInv, Typed, ChildrenSound, Requests
    <3> QED
      BY <1>1, <1>3, <1>5, <3>1, Zenon
  <2> QED
    BY <2>1, <2>2, <2>3, Zenon DEF ChildrenSound
<1>12. ParentsWait'
  <2> SUFFICES ASSUME NEW d \in Children
               PROVE  /\ d \in time_order' => parent'[d] \in yielded' \ runnable'
                      /\ phase'[d] = "done" => parent'[d] \in yielded' \cap runnable'
                      /\ phase'[d] \in {"live", "done", "stopped"} => phase'[parent'[d]] = "live"
    BY Zenon DEF ParentsWait
  <2>1. CASE d = c
    BY <1>1, <1>3, <1>5, <2>1, Zenon
  <2>2. CASE d # c
    <3>1. d \in Requests /\ phase'[d] = phase[d] /\ parent'[d] = parent[d]
      BY <1>5, <2>2, Zenon DEF Requests
    <3>2. phase[d] \in {"live", "done", "stopped"} => parent[d] \in Packets
      BY Zenon DEF IInv, ChildrenSound
    <3>3. d \in time_order => phase[d] = "live"
      BY Zenon DEF IInv, HeapsSound
    <3>4. /\ d \in time_order => parent[d] \in yielded \ runnable
          /\ phase[d] = "done" => parent[d] \in yielded \cap runnable
          /\ phase[d] \in {"live", "done", "stopped"} => phase[parent[d]] = "live"
      BY Zenon DEF IInv, ParentsWait
    <3>5. parent[d] \in Packets => parent[d] # c /\ parent[d] \in Requests
      BY <1>3, Zenon DEF Requests
    <3> QED
      BY <1>1, <1>5, <2>2, <3>1, <3>2, <3>3, <3>4, <3>5, ZenonT(40)
  <2> QED
    BY <2>1, <2>2, Zenon
<1>13. AnswersSound'
  <2>1. \A q \in Packets : q \in Requests /\ phase'[q] = phase[q]
    BY <1>3, <1>5, Zenon DEF Requests
  <2> QED
    BY <1>1, <1>2, <2>1, Zenon DEF IInv, AnswersSound, Replied
<1> QED
  BY <1>6, <1>7, <1>8, <1>9, <1>11, <1>12, <1>13, Zenon DEF IInv

LEMMA ChildDoneKeeps ==
    ASSUME IInv, ChildDone
    PROVE  IInv'
<1> DEFINE c == Top.arg
           r == parent[c]
<1>1. /\ stack # <<>> /\ Top.op = "interpret" /\ c \in Children /\ stack' = Caller
      /\ runnable' = runnable \cup ({r} \cap yielded) /\ time_order' = time_order \ {c}
      /\ phase' = InPhase({c}, "done")
      /\ UNCHANGED <<queue, yielded, parent, again, dedup, answers, replies, refused, channel, state>>
  <2>1. /\ stack # <<>> /\ Top.op = "interpret" /\ again' = again \cup ({c} \ time_order)
        /\ ChildDone
    BY Zenon DEF ChildDone, TimeTrackingEnd, In
  <2>2. c \in time_order
    BY <2>1, Running, Zenon
  <2>3. again' = again
    BY <2>1, <2>2, Zenon
  <2> QED
    BY <2>3, Zenon DEF ChildDone, TimeTrackingEnd, DoneInternal, WithRunnable, In
<1>2. /\ stack' \in Seq(AllCalls) /\ HeldOnce(stack') /\ Frees' = {} /\ Frees = {} /\ Inserts' = {}
      /\ Inserts = {} /\ Runs' = {} /\ c \in Runs
  BY <1>1, Returns, Zenon
<1> HIDE DEF c
<1>3. /\ c \in time_order /\ c \in Requests /\ c \notin runnable /\ c \notin yielded /\ phase[c] = "live"
      /\ c \notin Packets /\ c \notin again
  BY <1>1, <1>2, WorkerAssumption, Zenon DEF IInv, StackSound, Typed, HeapsSound, ChildrenSound, Requests
<1>4. r \in Packets /\ r \in yielded /\ r \notin runnable /\ r # c /\ \A d \in Children : parent[d] = r => d = c
  BY <1>1, <1>3, WorkerAssumption DEF IInv, ParentsWait, ChildrenSound
<1>5. /\ phase' \in [Requests -> {"new", "queued", "live", "done", "stopped", "freed"}]
      /\ phase'[c] = "done" /\ \A q \in Requests : q # c => phase'[q] = phase[q]
  BY <1>1, <1>3, Zenon DEF IInv, Typed, InPhase
<1>6. runnable' = runnable \cup {r}
  BY <1>1, <1>4, Zenon
<1>8. Typed'
  BY <1>1, <1>2, <1>4, <1>5, <1>6, Zenon DEF IInv, Typed, Requests
<1>9. StackSound'
  BY <1>1, <1>2, Zenon DEF IInv, StackSound
<1>10. QueueSound'
  <2>1. \A i \in DOMAIN queue : queue[i] \in Packets /\ phase[queue[i]] = "queued"
    BY DEF IInv, Typed, QueueSound
  <2>2. \A i \in DOMAIN queue : phase'[queue[i]] = "queued"
    BY <1>3, <1>5, <2>1, Zenon DEF Requests
  <2> QED
    BY <1>1, <2>2, Zenon DEF IInv, QueueSound
<1>11. HeapsSound'
  <2>1. r \in time_order /\ time_order \subseteq Requests /\ dedup \subseteq Packets
    BY <1>4, Zenon DEF IInv, Typed, HeapsSound
  <2> QED
    BY <1>1, <1>3, <1>4, <1>5, <1>6, <2>1, ZenonT(40) DEF IInv, HeapsSound
<1>12. ChildrenSound'
  <2>1. ASSUME NEW d \in Children
        PROVE  /\ phase'[d] # "queued"
               /\ phase'[d] \in {"new", "freed"} => parent'[d] = d
               /\ phase'[d] \notin {"new", "freed"} => parent'[d] \in Packets
               /\ phase'[d] = "live" => d \in time_order'
    BY <1>1, <1>3, <1>4, <1>5, Zenon DEF IInv, ChildrenSound, Requests
  <2>2. ASSUME NEW d \in again'
        PROVE  phase'[d] = "freed" \/ (phase'[d] = "stopped" /\ parent'[d] \notin time_order')
    <3>1. /\ d \in Requests /\ d # c /\ parent[d] \in Requests
          /\ phase[d] = "freed" \/ (phase[d] = "stopped" /\ parent[d] \notin time_order)
      BY <1>1, <1>3, <2>2, Zenon DEF IInv, Typed, ChildrenSound, Requests
    <3> QED
      BY <1>1, <1>5, <3>1, Zenon
  <2> QED
    BY <1>1, <2>1, <2>2, Zenon DEF IInv, ChildrenSound
<1>13. ParentsWait'
  <2> SUFFICES ASSUME NEW d \in Children
               PROVE  /\ d \in time_order' => parent'[d] \in yielded' \ runnable'
                      /\ phase'[d] = "done" => parent'[d] \in yielded' \cap runnable'
                      /\ phase'[d] \in {"live", "done", "stopped"} => phase'[parent'[d]] = "live"
    BY Zenon DEF ParentsWait
  <2>1. /\ d \in time_order => parent[d] \in yielded \ runnable
        /\ phase[d] = "done" => parent[d] \in yielded \cap runnable
        /\ phase[d] \in {"live", "done", "stopped"} => phase[parent[d]] = "live" /\ parent[d] \in Packets
    BY Zenon DEF IInv, ParentsWait, ChildrenSound
  <2>2. parent[d] \in Packets => parent[d] # c /\ parent[d] \in Requests
    BY <1>3, Zenon DEF Requests
  <2>3. CASE d = c
    BY <1>1, <1>3, <1>4, <1>5, <1>6, <2>1, <2>2, <2>3, Zenon
  <2>4. CASE d # c
    <3>1. d \in Requests /\ phase'[d] = phase[d] /\ parent'[d] = parent[d] /\ parent[d] # r
      BY <1>1, <1>4, <1>5, <2>4, Zenon DEF Requests
    <3> QED
      BY <1>1, <1>5, <1>6, <2>1, <2>2, <3>1, Zenon
  <2> QED
    BY <2>3, <2>4, Zenon
<1>14. AnswersSound'
  <2>1. \A q \in Packets : q \in Requests /\ phase'[q] = phase[q]
    BY <1>3, <1>5, Zenon DEF Requests
  <2> QED
    BY <1>1, <1>2, <2>1, Zenon DEF IInv, AnswersSound, Replied
<1> QED
  BY <1>8, <1>9, <1>10, <1>11, <1>12, <1>13, <1>14, Zenon DEF IInv

-----------------------------------------------------------------------------
(* The invariant *)

LEMMA InitIInv == Init => IInv
<1> SUFFICES ASSUME Init PROVE IInv
  BY Zenon
<1>1. Frees = {} /\ Inserts = {} /\ Runs = {} /\ HeldOnce(stack) /\ stack \in Seq(AllCalls)
  BY EmptyStack, Zenon DEF Init, Frees, Inserts, Runs
<1>3. Typed /\ QueueSound /\ HeapsSound
  BY <1>1, WorkerAssumption DEF Init, Typed, QueueSound, HeapsSound, Requests
<1>4. StackSound
  BY <1>1, Zenon DEF Init, StackSound
<1>6. ChildrenSound /\ ParentsWait
  BY Zenon DEF Init, ChildrenSound, ParentsWait, Requests
<1>7. AnswersSound
  BY <1>1 DEF Init, AnswersSound, Replied, Requests
<1> QED
  BY <1>3, <1>4, <1>6, <1>7, Zenon DEF IInv

LEMMA NextIInv ==
    ASSUME IInv, [Next]_vars
    PROVE  IInv'
<1>1. CASE UNCHANGED vars
  <2>1. /\ stack' = stack /\ channel' = channel /\ state' = state
        /\ UNCHANGED <<queue, phase, runnable, time_order, dedup, num_active, yielded, parent, again, answers, replies, refused>>
    BY <1>1, Zenon DEF vars
  <2>2. Frees' = Frees /\ Inserts' = Inserts
    BY <2>1, Zenon DEF Frees, Inserts
  <2>3. /\ stack \in Seq(AllCalls) /\ HeldOnce(stack) /\ channel \in {"active", "closing", "closed"}
        /\ state \in {"running", "exiting", "destroyed"}
        /\ state = "destroyed" => stack = <<>> /\ time_order = {}
        /\ replies \in 0 .. QueueSize
    BY Zenon DEF IInv, Typed, StackSound
  <2> QED
    BY <2>1, <2>2, <2>3, StackKeeps, Zenon
<1>2. ASSUME NEW p \in Packets, SendRequest(p) \/ Nak(p) \/ Duplicate(p) \/ NewRequest(p) \/ Conflict(p)
      PROVE  IInv'
  BY <1>2, SendRequestKeeps, RefuseKeeps, BeginKeeps, EndKeeps, Zenon
<1>3. ASSUME NEW r \in Requests, RunRequest(r) \/ MarkRunnable(r) \/ MaxRequestTime(RecvTime[r])
      PROVE  IInv'
  BY <1>3, RunKeeps, EndKeeps, YieldKeeps, StackActions, Zenon
<1>4. ASSUME NEW c \in Children, Subrequest(c)
      PROVE  IInv'
  BY <1>4, SubrequestKeeps, Zenon
<1>5. CASE RecvReply \/ SignalClose \/ Close \/ DataReady \/ DrainEnds \/ TimerEnds
  BY <1>5, StackActions, Zenon
<1>6. CASE Destroy \/ Finish \/ TimerStops
  BY <1>6, EndKeeps, Zenon
<1>7. CASE FreeRequest \/ InsertNew \/ Yield \/ ChildDone
  BY <1>7, FreeKeeps, BeginKeeps, YieldKeeps, ChildDoneKeeps, Zenon
<1> QED
  BY <1>1, <1>2, <1>3, <1>4, <1>5, <1>6, <1>7, Zenon DEF Next

\* Where the requests of a worker can be: what worker_request_bootstrap,
\* worker_stop_request, worker_run_request and the calls that nest in them keep.
THEOREM IInvInvariant == Spec => []IInv
BY InitIInv, NextIInv, PTL DEF Spec

\* Every packet is answered at most once, and while the channel is open its
\* request is freed only with an answer that was sent, or that the full queue of
\* replies refused: worker_send_reply and worker_nak.
THEOREM AnsweredOnceInvariant == Spec => []AnsweredOnce
<1>1. IInv => AnsweredOnce
  <2> SUFFICES ASSUME IInv, NEW p \in Packets
               PROVE  /\ answers[p] <= 1
                      /\ p \in refused => answers[p] = 0
                      /\ phase[p] = "freed" /\ channel = "active" => answers[p] = 1 \/ p \in refused
    BY Zenon DEF AnsweredOnce
  <2>1. answers[p] \in 0 .. 1
    BY Zenon DEF IInv, Typed
  <2> QED
    BY <2>1 DEF IInv, AnswersSound, Replied
<1> QED
  BY <1>1, IInvInvariant, PTL

-----------------------------------------------------------------------------
(* One request for a packet_ctx *)

\* Of three originals with one packet_ctx two are the same: the hypothesis of
\* OneRequestPerContext, as NoThird below shows.
TwoOriginals ==
    \A p, q, r \in Packets \ Dups : Ctx[q] = Ctx[p] /\ Ctx[r] = Ctx[p] => p = q \/ p = r \/ q = r

\* The packet has left the channel.
Received(p) == phase[p] # "new" /\ ~InQueue(p)

IsOriginal(q, p) == q \notin Dups /\ Ctx[q] = Ctx[p] /\ RecvTime[q] = RecvTime[p]

\* A duplicate leaves the channel after its original.
OriginalsFirst ==
    /\ \A p \in Packets : Received(p) => \E q \in Packets : IsOriginal(q, p) /\ Received(q)
    /\ \A i \in DOMAIN queue :
        \E q \in Packets : IsOriginal(q, queue[i]) /\ (Received(q) \/ \E j \in 1 .. i : queue[j] = q)

\* While a request is about to be inserted, only duplicates can still come.
InsertsLast ==
    \A p \in Inserts : \A q \in Packets \ Dups : Ctx[q] = Ctx[p] => Received(q)

\* The tree finds all requests of packets, and none that is about to be inserted.
Tracked ==
    /\ time_order \cap Packets \subseteq dedup
    /\ \A p, q \in dedup \cup Inserts : Ctx[p] = Ctx[q] => p = q

CtxInv == OriginalsFirst /\ InsertsLast /\ Tracked

\* Steps that neither send nor receive a packet.
LEMMA SameReceived ==
    ASSUME queue' = queue, \A p \in Packets : phase'[p] = "new" <=> phase[p] = "new"
    PROVE  /\ \A p \in Packets : Received(p)' <=> Received(p)
           /\ OriginalsFirst => OriginalsFirst'
<1>1. \A p \in Packets : Received(p)' <=> Received(p)
  BY Zenon DEF Received, InQueue
<1>2. ASSUME OriginalsFirst
      PROVE  OriginalsFirst'
  <2>1. \A p, q : IsOriginal(q, p)' <=> IsOriginal(q, p)
    BY Zenon DEF IsOriginal
  <2> QED
    BY <1>1, <1>2, <2>1, Zenon DEF OriginalsFirst
<1> QED
  BY <1>1, <1>2, Zenon

\* A packet is sent: a duplicate stands behind its original.
LEMMA SendCtx ==
    ASSUME IInv, CtxInv, NEW p \in Packets, SendRequest(p)
    PROVE  CtxInv'
<1>1. /\ phase[p] = "new" /\ queue' = Append(queue, p) /\ phase' = [phase EXCEPT ![p] = "queued"]
      /\ UNCHANGED <<time_order, dedup, stack>>
      /\ p \in Dups => \E q \in Packets \ Dups : IsOriginal(q, p) /\ phase[q] # "new"
  BY Zenon DEF SendRequest, IsOriginal
<1>2. queue \in Seq(Packets) /\ phase \in [Requests -> {"new", "queued", "live", "done", "stopped", "freed"}]
  BY Zenon DEF IInv, Typed
<1>3. /\ Len(queue) \in Nat /\ DOMAIN queue = 1 .. Len(queue) /\ DOMAIN queue' = 1 .. Len(queue) + 1
      /\ queue'[Len(queue) + 1] = p /\ \A i \in 1 .. Len(queue) : queue'[i] = queue[i]
  BY <1>1, <1>2
<1>4. ASSUME NEW q \in Packets
      PROVE  InQueue(q)' <=> InQueue(q) \/ q = p
  <2>1. ASSUME NEW i \in DOMAIN queue', queue'[i] = q, q # p
        PROVE  \E j \in DOMAIN queue : queue[j] = q
    <3>1. i \in 1 .. Len(queue)
      BY <1>3, <2>1
    <3> QED
      BY <1>3, <2>1, <3>1, Zenon
  <2>2. ASSUME NEW i \in DOMAIN queue, queue[i] = q
        PROVE  \E j \in DOMAIN queue' : queue'[j] = q
    <3>1. i \in DOMAIN queue' /\ queue'[i] = q
      BY <1>3, <2>2
    <3> QED
      BY <3>1, Zenon
  <2>3. Len(queue) + 1 \in DOMAIN queue'
    BY <1>3
  <2> QED
    BY <1>3, <2>1, <2>2, <2>3, Zenon DEF InQueue
<1>5. \A q \in Packets : Received(q)' <=> Received(q)
  <2>1. \A q \in Packets : q # p => phase'[q] = phase[q]
    BY <1>1, <1>2, Zenon DEF Requests
  <2> QED
    BY <1>1, <1>4, <2>1, Zenon DEF Received
<1>6. OriginalsFirst'
  <2>1. \A q \in Packets : Received(q)' => \E o \in Packets : IsOriginal(o, q) /\ Received(o)'
    BY <1>5, Zenon DEF CtxInv, OriginalsFirst
  <2>2. ASSUME NEW i \in DOMAIN queue'
        PROVE  \E q \in Packets : IsOriginal(q, queue'[i]) /\ (Received(q)' \/ \E j \in 1 .. i : queue'[j] = q)
    <3>1. CASE i \in 1 .. Len(queue)
      <4>1. PICK q \in Packets : IsOriginal(q, queue[i]) /\ (Received(q) \/ \E j \in 1 .. i : queue[j] = q)
        BY <1>3, <3>1, Zenon DEF CtxInv, OriginalsFirst
      <4>2. \A j \in 1 .. i : queue'[j] = queue[j]
        BY <1>3, <3>1
      <4>3. i \in 1 .. i
        BY <1>3, <3>1
      <4> QED
        BY <1>5, <4>1, <4>2, <4>3, Zenon
    <3>2. CASE i = Len(queue) + 1
      <4>1. CASE p \notin Dups
        <5>1. IsOriginal(p, queue'[i]) /\ i \in 1 .. i /\ queue'[i] = p
          BY <1>3, <3>2, <4>1, Zenon DEF IsOriginal
        <5> QED
          BY <5>1, Zenon
      <4>2. CASE p \in Dups
        <5>1. PICK q \in Packets : IsOriginal(q, p) /\ phase[q] # "new"
          BY <1>1, <4>2, Zenon
        <5>2. queue'[i] = p /\ \A j \in DOMAIN queue : j \in 1 .. i /\ queue'[j] = queue[j]
          BY <1>3, <3>2
        <5>3. CASE Received(q)
          BY <1>5, <5>1, <5>2, <5>3, Zenon
        <5>4. CASE ~Received(q)
          <6>1. PICK j \in DOMAIN queue : queue[j] = q
            BY <5>1, <5>4, Zenon DEF Received, InQueue
          <6>2. j \in 1 .. i /\ queue'[j] = q
            BY <5>2, <6>1, Zenon
          <6> QED
            BY <5>1, <5>2, <6>2, Zenon
        <5> QED
          BY <5>3, <5>4, Zenon
      <4> QED
        BY <4>1, <4>2, Zenon
    <3> QED
      BY <1>3, <3>1, <3>2
  <2>3. \A a, b : IsOriginal(a, b)' <=> IsOriginal(a, b)
    BY Zenon DEF IsOriginal
  <2> QED
    BY <2>1, <2>2, <2>3, Zenon DEF OriginalsFirst, IsOriginal
<1>7. Inserts' = Inserts
  BY <1>1, Zenon DEF Inserts
<1> QED
  BY <1>1, <1>5, <1>6, <1>7, Zenon DEF CtxInv, InsertsLast, Tracked

\* A packet is received, and its original is or was too.
LEMMA RecvCtx ==
    ASSUME IInv, CtxInv, NEW p \in Packets, Recv(p), \A q \in Packets : phase'[q] = "new" <=> phase[q] = "new"
    PROVE  /\ OriginalsFirst' /\ InQueue(p) /\ phase[p] = "queued"
           /\ \A q \in Packets : Received(q)' <=> Received(q) \/ q = p
<1>1. queue # <<>> /\ p = Head(queue) /\ queue' = Tail(queue)
  BY Zenon DEF Recv
<1>2. phase[p] = "queued" /\ InQueue(p) /\ \A q : InQueue(q)' <=> InQueue(q) /\ q # p
  BY <1>1, QueueHead, Zenon
<1>3. \A q \in Packets : Received(q)' <=> Received(q) \/ q = p
  BY <1>2, Zenon DEF Received
<1>4. queue \in Seq(Packets)
  BY Zenon DEF IInv, Typed
<1>5. /\ Len(queue) \in Nat /\ DOMAIN queue = 1 .. Len(queue) /\ queue[1] = p /\ 1 \in DOMAIN queue
      /\ DOMAIN queue' = 1 .. Len(queue) - 1 /\ \A i \in DOMAIN queue' : queue'[i] = queue[i + 1]
  BY <1>1, <1>4
<1>6. \E q \in Packets : IsOriginal(q, p) /\ Received(q)'
  <2>1. PICK q \in Packets : IsOriginal(q, p) /\ (Received(q) \/ \E j \in 1 .. 1 : queue[j] = q)
    BY <1>5, Zenon DEF CtxInv, OriginalsFirst
  <2>2. Received(q) \/ q = p
    BY <1>5, <2>1
  <2> QED
    BY <1>3, <2>1, <2>2, Zenon
<1>7. \A q \in Packets : Received(q)' => \E o \in Packets : IsOriginal(o, q) /\ Received(o)'
  BY <1>3, <1>6, Zenon DEF CtxInv, OriginalsFirst
<1>8. ASSUME NEW i \in DOMAIN queue'
      PROVE  \E q \in Packets : IsOriginal(q, queue'[i]) /\ (Received(q)' \/ \E j \in 1 .. i : queue'[j] = q)
  <2>1. i + 1 \in DOMAIN queue /\ queue'[i] = queue[i + 1]
    BY <1>5
  <2>2. PICK q \in Packets : IsOriginal(q, queue'[i]) /\ (Received(q) \/ \E j \in 1 .. i + 1 : queue[j] = q)
    BY <2>1, Zenon DEF CtxInv, OriginalsFirst
  <2>3. CASE Received(q)
    BY <1>3, <2>2, <2>3, Zenon
  <2>4. ASSUME NEW j \in 1 .. i + 1, queue[j] = q
        PROVE  Received(q)' \/ \E k \in 1 .. i : queue'[k] = q
    <3>1. CASE j = 1
      BY <1>3, <1>5, <2>4, <3>1, Zenon
    <3>2. CASE j # 1
      <4>1. j - 1 \in 1 .. i /\ j - 1 \in DOMAIN queue' /\ (j - 1) + 1 = j
        BY <1>5, <1>8, <3>2
      <4>2. queue'[j - 1] = q
        BY <1>5, <2>4, <4>1, Zenon
      <4> QED
        BY <4>1, <4>2, Zenon
    <3> QED
      BY <3>1, <3>2, Zenon
  <2> QED
    BY <2>2, <2>3, <2>4, Zenon
<1>9. OriginalsFirst'
  BY <1>7, <1>8, Zenon DEF OriginalsFirst, IsOriginal
<1> QED
  BY <1>2, <1>3, <1>9, Zenon

\* Steps that leave the tree, the packets and what is to be inserted alone.
LEMMA QuietCtx ==
    ASSUME CtxInv, queue' = queue, \A p \in Packets : phase'[p] = "new" <=> phase[p] = "new",
           dedup' = dedup, Inserts' = Inserts, Inserts \subseteq Packets,
           time_order' \cap Packets \subseteq time_order \cap Packets
    PROVE  CtxInv'
<1>1. OriginalsFirst' /\ \A p \in Packets : Received(p)' <=> Received(p)
  BY SameReceived, Zenon DEF CtxInv
<1>2. InsertsLast'
  BY <1>1, Zenon DEF CtxInv, InsertsLast
<1>3. Tracked'
  BY Zenon DEF CtxInv, Tracked
<1> QED
  BY <1>1, <1>2, <1>3, Zenon DEF CtxInv

\* A packet that is refused, and the duplicate of a request.
LEMMA RefuseCtx ==
    ASSUME IInv, CtxInv, NEW p \in Packets, Nak(p) \/ Duplicate(p)
    PROVE  CtxInv'
<1>1. /\ Recv(p) /\ UNCHANGED <<time_order, dedup>> /\ phase' = [phase EXCEPT ![p] = "freed"]
      /\ stack' = stack \/ stack' = <<Drain>> \o stack
  BY Zenon DEF Nak, Duplicate, NullReply, Reply
<1>2. phase[p] # "new" /\ phase \in [Requests -> {"new", "queued", "live", "done", "stopped", "freed"}]
  BY <1>1, QueueHead, Zenon DEF Recv, IInv, Typed
<1>3. \A q \in Packets : phase'[q] = "new" <=> phase[q] = "new"
  BY <1>1, <1>2, Zenon DEF Requests
<1>4. Inserts' = Inserts
  <2>1. stack \in Seq(AllCalls) /\ Drain \in AllCalls /\ Drain.op \notin HeldOps
    BY CallTypes DEF IInv, Typed, Drain, HeldOps
  <2> QED
    BY <1>1, <2>1, PushOther, Zenon DEF Inserts
<1>5. OriginalsFirst' /\ \A q \in Packets : Received(q) => Received(q)'
  BY <1>1, <1>3, RecvCtx, Zenon
<1> QED
  BY <1>1, <1>4, <1>5, Zenon DEF CtxInv, InsertsLast, Tracked

\* A new request: while another is about to be inserted in its place, it would
\* have left the channel before.
LEMMA NewRequestCtx ==
    ASSUME IInv, CtxInv, NEW p \in Packets, NewRequest(p)
    PROVE  CtxInv'
<1>1. /\ Recv(p) /\ Old(p) = {} /\ p \notin Dups /\ dedup' = dedup \cup {p} /\ time_order' = time_order \cup {p}
      /\ phase' = [phase EXCEPT ![p] = "live"] /\ stack' = stack
  BY Zenon DEF NewRequest, Start, TimeTrackingStart
<1>2. phase[p] # "new" /\ phase \in [Requests -> {"new", "queued", "live", "done", "stopped", "freed"}]
  BY <1>1, QueueHead, Zenon DEF Recv, IInv, Typed
<1>3. \A q \in Packets : phase'[q] = "new" <=> phase[q] = "new"
  BY <1>1, <1>2, Zenon DEF Requests
<1>4. Inserts' = Inserts
  BY <1>1, Zenon DEF Inserts
<1>5. OriginalsFirst' /\ InQueue(p) /\ \A q \in Packets : Received(q) => Received(q)'
  BY <1>1, <1>3, RecvCtx, Zenon
<1>6. \A q \in Inserts : Ctx[q] # Ctx[p]
  BY <1>1, <1>5, Zenon DEF CtxInv, InsertsLast, Received
<1>7. \A q \in dedup : Ctx[q] # Ctx[p]
  BY <1>1, Zenon DEF Old
<1> QED
  BY <1>1, <1>4, <1>5, <1>6, <1>7, Zenon DEF CtxInv, InsertsLast, Tracked

\* The request that replaces another finds nothing in the tree.
LEMMA InsertNewCtx ==
    ASSUME IInv, CtxInv, InsertNew
    PROVE  CtxInv'
<1> DEFINE p == Top.arg
<1>1. /\ stack # <<>> /\ Top.op = "insert" /\ stack' = Caller /\ queue' = queue
      /\ dedup' = IF Old(p) = {} THEN dedup \cup {p} ELSE dedup
      /\ time_order' = time_order \cup {p} /\ phase' = [phase EXCEPT ![p] = "live"]
  BY Zenon DEF InsertNew, In, Start, TimeTrackingStart
<1>2. Inserts' = Inserts \ {p} /\ p \in Inserts
  BY <1>1, Returns, Zenon
<1> HIDE DEF p
<1>3. p \in Packets /\ phase[p] = "queued" /\ Inserts \subseteq Packets
  BY <1>2, Zenon DEF IInv, StackSound
<1>4. p \notin dedup
  BY <1>3, Zenon DEF IInv, HeapsSound
<1>5. Old(p) = {}
  BY <1>2, <1>4, Zenon DEF CtxInv, Tracked, Old
<1>6. dedup' = dedup \cup {p}
  BY <1>1, <1>5, Zenon
<1>7. \A q \in Packets : phase'[q] = "new" <=> phase[q] = "new"
  BY <1>1, <1>3, Zenon DEF IInv, Typed, Requests
<1>8. OriginalsFirst' /\ \A q \in Packets : Received(q)' <=> Received(q)
  BY <1>1, <1>7, SameReceived, Zenon DEF CtxInv
<1>9. InsertsLast'
  BY <1>2, <1>3, <1>8, Zenon DEF CtxInv, InsertsLast
<1>10. Tracked'
  BY <1>1, <1>2, <1>6, Zenon DEF CtxInv, Tracked
<1> QED
  BY <1>8, <1>9, <1>10, Zenon DEF CtxInv

\* What the tree finds when a request has ended.
LEMMA EndTracked ==
    ASSUME IInv, CtxInv, NEW r \in time_order, NEW S, r \in S, time_order' = time_order \ S,
           r \in Packets => Untrack(r), r \notin Packets => dedup' = dedup
    PROVE  /\ time_order' \cap Packets \subseteq dedup' /\ dedup' \subseteq dedup
           /\ r \in Packets => \A d \in dedup' : Ctx[d] # Ctx[r]
<1>1. /\ time_order \cap Packets \subseteq dedup
      /\ \A p, q \in dedup : Ctx[p] = Ctx[q] => p = q
  BY Zenon DEF CtxInv, Tracked
<1>2. CASE r \in Packets
  <2>1. dedup' = {d \in dedup : Ctx[d] # Ctx[r]}
    BY <1>2, Zenon DEF Untrack
  <2> QED
    BY <1>1, <1>2, <2>1, Zenon
<1>3. CASE r \notin Packets
  BY <1>1, <1>3, Zenon
<1> QED
  BY <1>2, <1>3, Zenon

LEMMA StopTracked ==
    ASSUME IInv, CtxInv, NEW r \in time_order, NEW rest, StopRequest(r, rest)
    PROVE  /\ time_order' \cap Packets \subseteq dedup' /\ dedup' \subseteq dedup
           /\ r \in Packets => \A d \in dedup' : Ctx[d] # Ctx[r]
           /\ \A p \in Packets : phase'[p] = phase[p]
<1> DEFINE S == {r} \cup ChildOf(r)
<1>1. /\ time_order' = time_order \ S /\ phase' = InPhase(S \cap Children, "stopped")
      /\ r \in Packets => Untrack(r)
      /\ r \notin Packets => dedup' = dedup
  BY Zenon DEF StopRequest, Cancel, TimeTrackingEnd, DoneExternal, DoneInternal
<1>2. r \in S
  BY Zenon
<1>3. \A p \in Packets : phase'[p] = phase[p]
  BY <1>1, WorkerAssumption, Zenon DEF InPhase, Requests
<1> HIDE DEF S
<1> QED
  BY <1>1, <1>2, <1>3, EndTracked, Zenon

\* A request ends, and the calls go on.
LEMMA EndCtx ==
    ASSUME IInv, CtxInv,
           TimerStops \/ Destroy \/ Finish \/ \E r \in Requests : RunRequest(r) /\ r \in Packets /\ channel # "active"
    PROVE  CtxInv'
<1>1. /\ stack \in Seq(AllCalls) /\ HeldOnce(stack) /\ Inserts \subseteq Packets
      /\ \A p \in Inserts : phase[p] = "queued"
  BY Zenon DEF IInv, Typed, StackSound
<1>2. ASSUME time_order' \cap Packets \subseteq dedup', dedup' \subseteq dedup, Inserts' = Inserts, queue' = queue,
             \A p \in Packets : phase'[p] = phase[p]
      PROVE  CtxInv'
  <2>1. OriginalsFirst' /\ \A q \in Packets : Received(q)' <=> Received(q)
    BY <1>2, SameReceived, Zenon DEF CtxInv
  <2>2. InsertsLast'
    BY <1>1, <1>2, <2>1, Zenon DEF CtxInv, InsertsLast
  <2>3. Tracked'
    BY <1>2, Zenon DEF CtxInv, Tracked
  <2> QED
    BY <2>1, <2>2, <2>3, Zenon DEF CtxInv
<1>3. ASSUME NEW r \in time_order, StopRequest(r, stack), Runs = {}, queue' = queue
      PROVE  CtxInv'
  <2>1. Cancel({r} \cup ChildOf(r), r, stack)
    BY <1>3, Zenon DEF StopRequest
  <2>2. Args(stack, {"free"}) = Frees /\ Args(stack, {"interpret"}) = {} /\ Args(stack, {"insert"}) = Inserts
    BY <1>3, Zenon DEF Frees, Runs, Inserts
  <2>3. Inserts' = Inserts
    BY <1>1, <2>1, <2>2, CancelCalls, Zenon
  <2> QED
    BY <1>2, <1>3, <2>3, StopTracked, Zenon
<1>4. stack = <<>> => Runs = {}
  BY EmptyStack, Zenon DEF Runs
<1>5. CASE TimerStops
  <2>1. stack # <<>> /\ Top.op = "timer" /\ queue' = queue /\ \E r \in PeekTail : StopRequest(r, stack)
    BY <1>5, Zenon DEF TimerStops, In
  <2>2. PICK r \in time_order : StopRequest(r, stack)
    BY <2>1, Zenon DEF PeekTail
  <2>3. Runs = {}
    BY <2>1, NotRunning, Zenon
  <2> QED
    BY <1>3, <2>1, <2>2, <2>3, Zenon
<1>6. CASE Destroy
  <2>1. CASE time_order # {}
    BY <1>3, <1>4, <1>6, <2>1, Zenon DEF Destroy, EventLoop, Oldest
  <2>2. CASE time_order = {}
    <3>1. UNCHANGED <<queue, phase, time_order, dedup, stack>>
      BY <1>6, <2>2, Zenon DEF Destroy
    <3>2. Inserts' = Inserts
      BY <3>1, Zenon DEF Inserts
    <3> QED
      BY <1>1, <3>1, <3>2, QuietCtx, Zenon
  <2> QED
    BY <2>1, <2>2, Zenon
<1>7. ASSUME NEW r \in Requests, RunRequest(r), r \in Packets, channel # "active"
      PROVE  CtxInv'
  <2>1. stack = <<>> /\ queue' = queue /\ r \in runnable /\ StopRequest(r, stack)
    BY <1>7, Zenon DEF RunRequest, EventLoop, Oldest
  <2>2. r \in time_order
    BY <2>1, Zenon DEF IInv, HeapsSound
  <2> QED
    BY <1>3, <1>4, <2>1, <2>2, Zenon
<1>8. CASE Finish
  <2> DEFINE r == Top.arg
             u == Caller
             S == {r}
  <2>1. /\ stack # <<>> /\ Top.op = "interpret" /\ r \in Packets /\ time_order' = time_order \ S
        /\ Untrack(r) /\ Reply(r, <<Call("free", r)>> \o u) /\ UNCHANGED <<queue, phase>>
    BY <1>8, Zenon DEF Finish, In, TimeTrackingEnd, DoneExternal
  <2>2. r \in time_order /\ u = <<>> /\ Inserts = {}
    BY <2>1, Running, Zenon
  <2>3. r \in S
    BY Zenon
  <2> HIDE DEF r, u, S
  <2>4. /\ u \in Seq(AllCalls) /\ HeldOnce(u) /\ r \notin Args(u, HeldOps) /\ Args(u, {"insert"}) = {}
    BY <2>2, EmptyStack, Zenon
  <2>5. Inserts' = {}
    BY <2>1, <2>4, DonePushes, Zenon
  <2>6. time_order' \cap Packets \subseteq dedup' /\ dedup' \subseteq dedup
    BY <2>1, <2>2, <2>3, EndTracked, Zenon
  <2> QED
    BY <1>2, <2>1, <2>2, <2>5, <2>6, ZenonT(40)
<1> QED
  BY <1>5, <1>6, <1>7, <1>8, Zenon

\* The new request of a conflict: with it and the old one the packets of their
\* packet_ctx have left the channel, but for duplicates.
LEMMA ConflictCtx ==
    ASSUME TwoOriginals, IInv, CtxInv, NEW p \in Packets, Conflict(p)
    PROVE  CtxInv'
<1> DEFINE c == Call("insert", p)
           rest == <<c>> \o stack
<1>1. /\ stack # <<>> /\ Top.op = "drain" /\ Recv(p)
      /\ \E old \in Old(p) : RecvTime[old] # RecvTime[p] /\ StopRequest(old, rest)
  BY Zenon DEF Conflict, Recv, In
<1>2. PICK r \in dedup : Ctx[r] = Ctx[p] /\ RecvTime[r] # RecvTime[p] /\ StopRequest(r, rest)
  BY <1>1, Zenon DEF Old
<1>3. r \in time_order /\ r \in Packets /\ phase[r] = "live"
  BY <1>2, Zenon DEF IInv, HeapsSound, Typed
<1>4. /\ time_order' \cap Packets \subseteq dedup' /\ dedup' \subseteq dedup
      /\ \A d \in dedup' : Ctx[d] # Ctx[r]
      /\ \A q \in Packets : phase'[q] = phase[q]
  BY <1>2, <1>3, StopTracked, Zenon
<1>5. /\ OriginalsFirst' /\ InQueue(p) /\ phase[p] = "queued"
      /\ \A q \in Packets : Received(q)' <=> Received(q) \/ q = p
  BY <1>1, <1>4, RecvCtx, Zenon
<1>6. Inserts' = Inserts \cup {p}
  <2>1. Runs = {} /\ p \notin Inserts /\ p \notin Frees /\ \A q \in Inserts : phase[q] = "queued"
    BY <1>1, <1>5, NotRunning, Zenon DEF IInv, StackSound
  <2>2. c \in AllCalls /\ c.op = "insert" /\ c.arg = p
    BY CallTypes, Zenon DEF Requests, Calls
  <2>3. stack \in Seq(AllCalls) /\ HeldOnce(stack)
    BY Zenon DEF IInv, Typed, StackSound
  <2>4. p \notin Args(stack, HeldOps)
    BY <2>1, <2>3, HeldArgs, Zenon DEF Frees, Inserts, Runs
  <2> HIDE DEF c
  <2>5. /\ rest \in Seq(AllCalls) /\ HeldOnce(rest)
        /\ Args(rest, {"free"}) = Args(stack, {"free"})
        /\ Args(rest, {"insert"}) = Args(stack, {"insert"}) \cup {p}
        /\ Args(rest, {"interpret"}) = Args(stack, {"interpret"})
    BY <2>2, <2>3, <2>4, Push DEF HeldOps
  <2>6. Cancel({r} \cup ChildOf(r), r, rest)
    BY <1>2, Zenon DEF StopRequest
  <2> HIDE DEF rest
  <2>7. /\ Args(rest, {"free"}) = Frees /\ Args(rest, {"interpret"}) = {}
        /\ \A q \in Args(rest, {"insert"}) : phase[q] = "queued"
    BY <1>5, <2>1, <2>5, Zenon DEF Frees, Inserts, Runs
  <2>8. Inserts' = Args(rest, {"insert"})
    BY <1>3, <2>5, <2>6, <2>7, CancelCalls, Zenon
  <2> QED
    BY <2>5, <2>8, Zenon DEF Inserts
<1>7. Received(r)
  <2>1. ~InQueue(r)
    BY <1>3, Zenon DEF IInv, QueueSound, InQueue
  <2> QED
    BY <1>3, <2>1, Zenon DEF Received
<1>8. \A q \in Packets \ Dups : Ctx[q] = Ctx[p] => Received(q)'
  <2>1. PICK a \in Packets : IsOriginal(a, r) /\ Received(a)
    BY <1>3, <1>7, Zenon DEF CtxInv, OriginalsFirst
  <2>2. PICK b \in Packets : IsOriginal(b, p) /\ Received(b)'
    BY <1>5, Zenon DEF OriginalsFirst, IsOriginal
  <2>3. a # b /\ a \in Packets \ Dups /\ b \in Packets \ Dups /\ Ctx[a] = Ctx[p] /\ Ctx[b] = Ctx[p]
    BY <1>2, <2>1, <2>2, Zenon DEF IsOriginal
  <2>4. ASSUME NEW q \in Packets \ Dups, Ctx[q] = Ctx[p]
        PROVE  q = a \/ q = b
    <3>1. Ctx[b] = Ctx[a] /\ Ctx[q] = Ctx[a]
      BY <2>3, <2>4, Zenon
    <3> QED
      BY <2>3, <3>1, Zenon DEF TwoOriginals
  <2> QED
    BY <1>5, <2>1, <2>2, <2>4, Zenon
<1>9. InsertsLast'
  BY <1>5, <1>6, <1>8, Zenon DEF CtxInv, InsertsLast
<1>10. Tracked'
  <2>1. ASSUME NEW q \in Inserts
        PROVE  Ctx[q] # Ctx[p]
    <3>1. phase[q] = "queued"
      BY Zenon DEF IInv, StackSound
    <3> QED
      BY <1>2, <1>3, <3>1, Zenon DEF CtxInv, Tracked
  <2> QED
    BY <1>2, <1>4, <1>6, <2>1, ZenonT(40) DEF CtxInv, Tracked
<1> QED
  BY <1>5, <1>9, <1>10, Zenon DEF CtxInv

\* The calls of the event loop insert nothing, and neither does a return from a
\* call that did not.
LEMMA CallBegins ==
    ASSUME stack = <<>>, NEW c, stack' = <<c>>, c.op # "insert"
    PROVE  Inserts' = Inserts
<1>1. Args(<<c>>, {"insert"}) = {}
  BY DEF Args
<1>2. Args(<<>>, {"insert"}) = {}
  BY EmptyStack, Zenon
<1> QED
  BY <1>1, <1>2, Zenon DEF Inserts

LEMMA CallReturns ==
    ASSUME IInv, stack # <<>>, stack' = Caller, Top.op # "insert"
    PROVE  Inserts' = Inserts
BY Returns, Zenon

LEMMA OtherCtx ==
    ASSUME IInv, CtxInv,
           \/ RecvReply \/ SignalClose \/ Close \/ DataReady \/ DrainEnds \/ TimerEnds \/ Yield
           \/ \E r \in Requests : MarkRunnable(r) \/ MaxRequestTime(RecvTime[r])
           \/ UNCHANGED vars
    PROVE  CtxInv'
<1>1. UNCHANGED <<queue, phase, time_order, dedup>>
  BY Zenon DEF RecvReply, SignalClose, Close, DataReady, DrainEnds, TimerEnds, Yield, MarkRunnable, MaxRequestTime, vars
<1>2. Inserts \subseteq Packets
  BY Zenon DEF IInv, StackSound
<1>3. Inserts' = Inserts
  <2>1. CASE RecvReply \/ SignalClose \/ Close \/ (\E r \in Requests : MarkRunnable(r)) \/ UNCHANGED vars
    BY <2>1, Zenon DEF RecvReply, SignalClose, Close, MarkRunnable, vars, Inserts
  <2>2. CASE DrainEnds \/ TimerEnds \/ Yield
    <3>1. stack # <<>> /\ stack' = Caller /\ Top.op # "insert"
      BY <2>2, Zenon DEF DrainEnds, TimerEnds, Yield, In
    <3> QED
      BY <3>1, CallReturns, Zenon
  <2>3. CASE DataReady \/ \E r \in Requests : MaxRequestTime(RecvTime[r])
    <3>1. stack = <<>> /\ \E c : stack' = <<c>> /\ c.op # "insert"
      BY <2>3 DEF DataReady, MaxRequestTime, EventLoop, Drain, Call
    <3> QED
      BY <3>1, CallBegins, Zenon
  <2> QED
    BY <2>1, <2>2, <2>3, Zenon
<1> QED
  BY <1>1, <1>2, <1>3, QuietCtx, Zenon

\* The steps of the interpreter change no packet that has not left the channel.
LEMMA InterpretCtx ==
    ASSUME IInv, CtxInv,
           \/ FreeRequest \/ ChildDone \/ \E c \in Children : Subrequest(c)
           \/ \E r \in Requests : RunRequest(r) /\ ~(r \in Packets /\ channel # "active")
    PROVE  CtxInv'
<1>1. /\ Inserts \subseteq Packets /\ \A p \in Packets : p \in Requests /\ p \notin Children
      /\ phase \in [Requests -> {"new", "queued", "live", "done", "stopped", "freed"}]
  BY WorkerAssumption, Zenon DEF IInv, StackSound, Typed, Requests
<1>2. CASE FreeRequest
  <2> DEFINE p == Top.arg
  <2>1. /\ stack # <<>> /\ Top.op = "free" /\ stack' = Caller /\ phase' = InPhase({p} \cup ChildOf(p), "freed")
        /\ UNCHANGED <<queue, time_order, dedup>>
    BY <1>2, Zenon DEF FreeRequest, In, Free
  <2>2. p \in Frees /\ Inserts' = Inserts
    BY <2>1, Returns, Zenon
  <2>3. phase[p] = "live"
    BY <2>2, Zenon DEF IInv, StackSound
  <2> HIDE DEF p
  <2>4. \A q \in Packets : phase'[q] = "new" <=> phase[q] = "new"
    BY <1>1, <2>1, <2>3, Zenon DEF InPhase, ChildOf
  <2> QED
    BY <1>1, <2>1, <2>2, <2>4, QuietCtx, Zenon
<1>3. CASE ChildDone
  <2> DEFINE c == Top.arg
  <2>1. /\ stack # <<>> /\ Top.op = "interpret" /\ stack' = Caller /\ c \in Children
        /\ phase' = InPhase({c}, "done") /\ time_order' = time_order \ {c} /\ UNCHANGED <<queue, dedup>>
    BY <1>3, Zenon DEF ChildDone, In, TimeTrackingEnd, DoneInternal
  <2>2. Inserts' = Inserts
    <3>1. Top.op # "insert"
      BY <2>1, Zenon
    <3> QED
      BY <2>1, <3>1, CallReturns, Zenon
  <2> HIDE DEF c
  <2>3. \A q \in Packets : phase'[q] = "new" <=> phase[q] = "new"
    BY <1>1, <2>1, Zenon DEF InPhase
  <2>4. time_order' \cap Packets \subseteq time_order \cap Packets
    BY <2>1, Zenon
  <2> QED
    BY <1>1, <2>1, <2>2, <2>3, <2>4, QuietCtx, Zenon
<1>4. ASSUME NEW c \in Children, Subrequest(c)
      PROVE  CtxInv'
  <2>1. /\ stack # <<>> /\ Top.op = "interpret" /\ stack' = Caller
        /\ phase' = [phase EXCEPT ![c] = "live"] /\ time_order' = time_order \cup {c} /\ UNCHANGED <<queue, dedup>>
    BY <1>4, Zenon DEF Subrequest, In, ChildRun, TimeTrackingStart
  <2>2. Inserts' = Inserts
    <3>1. Top.op # "insert"
      BY <2>1, Zenon
    <3> QED
      BY <2>1, <3>1, CallReturns, Zenon
  <2>3. \A q \in Packets : phase'[q] = "new" <=> phase[q] = "new"
    BY <1>1, <2>1, Zenon
  <2>4. time_order' \cap Packets \subseteq time_order \cap Packets
    BY <1>1, <2>1, Zenon
  <2> QED
    BY <1>1, <2>1, <2>2, <2>3, <2>4, QuietCtx, ZenonT(40)
<1>5. ASSUME NEW r \in Requests, RunRequest(r), ~(r \in Packets /\ channel # "active")
      PROVE  CtxInv'
  <2>1. /\ stack = <<>> /\ stack' = <<Call("interpret", r)>> /\ phase' = InPhase(ChildOf(r), "freed")
        /\ UNCHANGED <<queue, time_order, dedup>>
    BY <1>5, Zenon DEF RunRequest, EventLoop, ParentResume, Free
  <2>2. Call("interpret", r).op # "insert"
    BY CallTypes
  <2>3. Inserts' = Inserts
    BY <2>1, <2>2, CallBegins, Zenon
  <2>4. \A q \in Packets : phase'[q] = "new" <=> phase[q] = "new"
    BY <1>1, <2>1, Zenon DEF InPhase, ChildOf
  <2> QED
    BY <1>1, <2>1, <2>3, <2>4, QuietCtx, Zenon
<1> QED
  BY <1>2, <1>3, <1>4, <1>5, Zenon

LEMMA NextCtx ==
    ASSUME TwoOriginals, IInv, CtxInv, [Next]_vars
    PROVE  CtxInv'
<1>1. ASSUME NEW p \in Packets, SendRequest(p) \/ Nak(p) \/ Duplicate(p) \/ NewRequest(p) \/ Conflict(p)
      PROVE  CtxInv'
  BY <1>1, SendCtx, RefuseCtx, NewRequestCtx, ConflictCtx, Zenon
<1>2. ASSUME NEW r \in Requests, RunRequest(r) \/ MarkRunnable(r) \/ MaxRequestTime(RecvTime[r])
      PROVE  CtxInv'
  BY <1>2, EndCtx, InterpretCtx, OtherCtx, Zenon
<1>3. CASE InsertNew
  BY <1>3, InsertNewCtx, Zenon
<1>4. CASE TimerStops \/ Destroy \/ Finish
  BY <1>4, EndCtx, Zenon
<1>5. CASE FreeRequest \/ ChildDone \/ \E c \in Children : Subrequest(c)
  BY <1>5, InterpretCtx, Zenon
<1>6. CASE RecvReply \/ SignalClose \/ Close \/ DataReady \/ DrainEnds \/ TimerEnds \/ Yield \/ UNCHANGED vars
  BY <1>6, OtherCtx, Zenon
<1> QED
  BY <1>1, <1>2, <1>3, <1>4, <1>5, <1>6, Zenon DEF Next

-----------------------------------------------------------------------------
(* What is counted: the counter of active requests and the originals of a packet_ctx *)

Sets == INSTANCE FiniteSetTheorems

LEMMA SameCardinality ==
    ASSUME NEW S
    PROVE  Sets!Cardinality(S) = Cardinality(S) /\ (Sets!IsFiniteSet(S) <=> IsFiniteSet(S))
BY DEF Cardinality, Sets!Cardinality, IsFiniteSet, Sets!IsFiniteSet

LEMMA CountType ==
    ASSUME NEW S, IsFiniteSet(S)
    PROVE  Cardinality(S) \in Nat
BY SameCardinality, Sets!FS_CardinalityType

LEMMA CountEmpty == Cardinality({}) = 0
BY SameCardinality, Sets!FS_EmptySet

LEMMA CountOne ==
    ASSUME NEW x
    PROVE  IsFiniteSet({x}) /\ Cardinality({x}) = 1
BY SameCardinality, Sets!FS_Singleton, Zenon

LEMMA CountSubset ==
    ASSUME NEW S, IsFiniteSet(S), NEW T \in SUBSET S
    PROVE  IsFiniteSet(T) /\ Cardinality(T) <= Cardinality(S)
BY SameCardinality, Sets!FS_Subset

LEMMA RequestsFinite == IsFiniteSet(Requests)
<1>1. Sets!IsFiniteSet(Packets) /\ Sets!IsFiniteSet(Children)
  BY SameCardinality, WorkerAssumption
<1>2. Sets!IsFiniteSet(Packets \cup Children)
  BY <1>1, Sets!FS_Union, Zenon
<1> QED
  BY <1>2, SameCardinality DEF Requests

LEMMA CountRemove ==
    ASSUME NEW S, IsFiniteSet(S), NEW x \in S
    PROVE  /\ IsFiniteSet(S \ {x}) /\ Cardinality(S) \in Nat
           /\ Cardinality(S \ {x}) = Cardinality(S) - 1
BY SameCardinality, CountType, Sets!FS_RemoveElement

LEMMA CountAdd ==
    ASSUME NEW S, IsFiniteSet(S), NEW x, x \notin S
    PROVE  /\ IsFiniteSet(S \cup {x}) /\ Cardinality(S) \in Nat
           /\ Cardinality(S \cup {x}) = Cardinality(S) + 1
BY SameCardinality, CountType, Sets!FS_AddElement

\* worker->num_active, which a subrequest that was ended twice has left short.
Counted == num_active \in Int /\ num_active + Cardinality(again) = Cardinality(time_order)

\* The counter, when a request is stopped with its subrequest.
LEMMA StopCounted ==
    ASSUME IInv, Counted, NEW r \in time_order, NEW rest, Cancel({r} \cup ChildOf(r), r, rest)
    PROVE  Counted'
<1> DEFINE S == {r} \cup ChildOf(r)
<1>6. /\ time_order' = time_order \ S /\ num_active' = num_active - Cardinality(S)
      /\ again' = again \cup {c \in S \cap Children : phase[c] # "live"}
  <2>1. S \ time_order = {c \in S \cap Children : phase[c] # "live"}
    BY StoppedAgain, Zenon
  <2> HIDE DEF S
  <2>2. Cancel(S, r, rest)
    BY Zenon DEF S
  <2> QED
    BY <2>1, <2>2, Zenon DEF Cancel, TimeTrackingEnd
<1>7. /\ r \in Requests /\ phase[r] = "live"
      /\ r \in Packets => S \cap Children = ChildOf(r)
      /\ r \in Children => S = {r}
  BY StoppedSet, Zenon
<1> HIDE DEF S
<1>1. num_active \in Int /\ num_active + Cardinality(again) = Cardinality(time_order)
  BY Zenon DEF Counted
<1>2. IsFiniteSet(time_order) /\ IsFiniteSet(again)
  BY RequestsFinite, CountSubset, WorkerAssumption, Zenon DEF IInv, Typed
<1>3. CASE ChildOf(r) = {}
  <2>1. S = {r}
    BY <1>3, Zenon DEF S
  <2>2. again' = again
    BY <1>7, <1>6, <2>1, Zenon
  <2>3. Cardinality(S) = 1
    BY <2>1, CountOne, Zenon
  <2>4. Cardinality(time_order') = Cardinality(time_order) - 1 /\ Cardinality(time_order) \in Nat
    BY <1>6, <1>2, <2>1, CountRemove, Zenon
  <2>5. Cardinality(again) \in Nat
    BY <1>2, CountType, Zenon
  <2> QED
    BY <1>1, <1>6, <2>2, <2>3, <2>4, <2>5 DEF Counted
<1>4. ASSUME NEW c \in ChildOf(r)
      PROVE  Counted'
  <2>1. /\ c \in Children /\ parent[c] = r /\ c # r /\ r \in Packets
        /\ ChildOf(r) = {c} /\ S = {r, c} /\ S \cap Children = {c}
    <3>1. c \in Children /\ parent[c] = r
      BY <1>4, Zenon DEF ChildOf
    <3>2. r \in Packets /\ c # r
      BY <1>7, <1>4, StoppedSet, WorkerAssumption, SMTT(30) DEF Requests, ChildOf
    <3>3. ChildOf(r) = {c}
      BY <3>1 DEF ChildOf, IInv, ChildrenSound
    <3> QED
      BY <1>7, <3>1, <3>2, <3>3, Zenon DEF S
  <2>2. Cardinality(S) = 2
    <3>1. IsFiniteSet({r}) /\ Cardinality({r}) = 1 /\ c \notin {r} /\ {r} \cup {c} = S
      BY <2>1, CountOne, Zenon
    <3>2. Cardinality(S) = Cardinality({r}) + 1
      BY <3>1, CountAdd, Zenon
    <3> QED
      BY <3>1, <3>2
  <2>3. /\ IsFiniteSet(time_order \ {r}) /\ Cardinality(time_order \ {r}) = Cardinality(time_order) - 1
        /\ Cardinality(time_order) \in Nat /\ Cardinality(again) \in Nat
    BY <1>2, CountRemove, CountType, Zenon
  <2>4. CASE phase[c] = "live"
    <3>1. c \in time_order \ {r}
      BY <2>1, <2>4, Zenon DEF IInv, ChildrenSound
    <3>2. time_order' = (time_order \ {r}) \ {c}
      BY <1>6, <2>1, Zenon
    <3>3. again' = again
      BY <1>6, <2>1, <2>4, Zenon
    <3>4. Cardinality(time_order') = Cardinality(time_order) - 2
      <4>1. Cardinality(time_order') = Cardinality(time_order \ {r}) - 1
        BY <2>3, <3>1, <3>2, CountRemove, Zenon
      <4> QED
        BY <2>3, <4>1
    <3> QED
      BY <1>1, <1>6, <2>2, <2>3, <3>3, <3>4, SMTT(30) DEF Counted
  <2>5. CASE phase[c] # "live"
    <3>1. c \notin time_order /\ c \notin again
      BY <2>1, <2>5, Zenon DEF IInv, HeapsSound, ChildrenSound
    <3>2. time_order' = time_order \ {r}
      BY <1>6, <2>1, <3>1, Zenon
    <3>3. again' = again \cup {c}
      BY <1>6, <2>1, <2>5, Zenon
    <3>5. Cardinality(time_order') = Cardinality(time_order) - 1
      BY <2>3, <3>2, Zenon
    <3>4. Cardinality(again') = Cardinality(again) + 1
      BY <1>2, <3>1, <3>3, CountAdd, Zenon
    <3> QED
      BY <1>1, <1>6, <2>2, <2>3, <3>4, <3>5, SMTT(30) DEF Counted
  <2> QED
    BY <2>4, <2>5, Zenon
<1> QED
  BY <1>3, <1>4, Zenon

\* The counter, when a request begins.
LEMMA StartCounted ==
    ASSUME IInv, Counted, NEW r, r \notin time_order, TimeTrackingStart(r), UNCHANGED again
    PROVE  Counted'
<1>1. time_order' = time_order \cup {r} /\ num_active' = num_active + 1 /\ again' = again
  BY Zenon DEF TimeTrackingStart
<1>2. IsFiniteSet(time_order) /\ Cardinality(again) \in Nat
  BY RequestsFinite, CountSubset, CountType, WorkerAssumption, Zenon DEF IInv, Typed
<1>3. Cardinality(time_order') = Cardinality(time_order) + 1 /\ Cardinality(time_order) \in Nat
  BY <1>1, <1>2, CountAdd, Zenon
<1> QED
  BY <1>1, <1>2, <1>3 DEF Counted

\* The counter, when a request that runs is done.
LEMMA DoneCounted ==
    ASSUME IInv, Counted, Finish \/ ChildDone
    PROVE  Counted'
<1> DEFINE r == Top.arg
<1>1. /\ time_order' = time_order \ {r} /\ num_active' = num_active - Cardinality({r})
      /\ again' = again \cup ({r} \ time_order)
      /\ stack # <<>> /\ Top.op = "interpret"
  BY Zenon DEF Finish, ChildDone, TimeTrackingEnd, In
<1>2. IsFiniteSet(time_order) /\ Cardinality(again) \in Nat
  BY RequestsFinite, CountSubset, CountType, WorkerAssumption, Zenon DEF IInv, Typed
<1>3. r \in time_order
  BY <1>1, Running, Zenon
<1> HIDE DEF r
<1>4. Cardinality(time_order') = Cardinality(time_order) - 1 /\ Cardinality(time_order) \in Nat
  BY <1>1, <1>2, <1>3, CountRemove, Zenon
<1>5. Cardinality({r}) = 1 /\ again' = again
  BY <1>1, <1>3, CountOne, Zenon
<1>6. num_active' = num_active - 1 /\ Cardinality(again') = Cardinality(again)
  BY <1>1, <1>5, Zenon
<1> QED
  BY <1>2, <1>4, <1>6 DEF Counted

LEMMA NextCounted ==
    ASSUME IInv, Counted, [Next]_vars
    PROVE  Counted'
<1>1. UNCHANGED <<time_order, again, num_active>> => Counted'
  BY Zenon DEF Counted
<1>2. ASSUME NEW p \in Packets, NewRequest(p)
      PROVE  Counted'
  <2>1. queue # <<>> /\ p = Head(queue) /\ queue' = Tail(queue) /\ TimeTrackingStart(p) /\ UNCHANGED again
    BY <1>2, Zenon DEF NewRequest, Recv, Start
  <2>2. phase[p] = "queued"
    BY <2>1, QueueHead, Zenon
  <2>3. p \notin time_order
    BY <2>2, Zenon DEF IInv, HeapsSound
  <2> QED
    BY <2>1, <2>3, StartCounted, Zenon
<1>3. CASE InsertNew
  <2>1. stack # <<>> /\ Top.op = "insert" /\ stack' = Caller /\ TimeTrackingStart(Top.arg) /\ UNCHANGED again
    BY <1>3, Zenon DEF InsertNew, In, Start
  <2>2. Top.arg \in Inserts
    BY <2>1, Returns, Zenon
  <2>3. Top.arg \notin time_order
    BY <2>2, Zenon DEF IInv, StackSound, HeapsSound
  <2> QED
    BY <2>1, <2>3, StartCounted, Zenon
<1>4. ASSUME NEW c \in Children, Subrequest(c)
      PROVE  Counted'
  <2>1. phase[c] = "new" /\ TimeTrackingStart(c) /\ UNCHANGED again
    BY <1>4, Zenon DEF Subrequest, ChildRun
  <2>2. c \notin time_order
    BY <2>1, Zenon DEF IInv, HeapsSound
  <2> QED
    BY <2>1, <2>2, StartCounted, Zenon
<1>5. ASSUME NEW r \in time_order, NEW rest, StopRequest(r, rest)
      PROVE  Counted'
  BY <1>5, StopCounted, Zenon DEF StopRequest
<1>6. ASSUME NEW p \in Packets, Conflict(p)
      PROVE  Counted'
  BY <1>5, <1>6, Zenon DEF Conflict, Old, IInv, HeapsSound
<1>7. CASE TimerStops
  BY <1>5, <1>7, Zenon DEF TimerStops, PeekTail
<1>8. CASE Destroy
  BY <1>1, <1>5, <1>8, Zenon DEF Destroy, Oldest
<1>9. ASSUME NEW r \in Requests, RunRequest(r)
      PROVE  Counted'
  <2>1. r \in time_order
    BY <1>9, Zenon DEF RunRequest, Oldest, IInv, HeapsSound
  <2> QED
    BY <1>1, <1>5, <1>9, <2>1, Zenon DEF RunRequest
<1>10. ASSUME NEW p \in Packets, SendRequest(p) \/ Nak(p) \/ Duplicate(p)
       PROVE  Counted'
  BY <1>1, <1>10, Zenon DEF SendRequest, Nak, Duplicate, NullReply
<1>11. ASSUME NEW r \in Requests, MarkRunnable(r) \/ MaxRequestTime(RecvTime[r])
       PROVE  Counted'
  BY <1>1, <1>11, Zenon DEF MarkRunnable, MaxRequestTime
<1>12. CASE RecvReply \/ SignalClose \/ Close \/ DataReady \/ DrainEnds \/ TimerEnds \/ FreeRequest \/ Yield \/ UNCHANGED vars
  BY <1>1, <1>12, Zenon DEF RecvReply, SignalClose, Close, DataReady, DrainEnds, TimerEnds, FreeRequest, Yield, vars
<1>13. CASE Finish \/ ChildDone
  BY <1>13, DoneCounted, Zenon
<1> QED
  BY <1>2, <1>3, <1>4, <1>6, <1>7, <1>8, <1>9, <1>10, <1>11, <1>12, <1>13, Zenon DEF Next

\* The heaps, the tree and the counter of a worker agree, whatever calls are
\* under way, and none of them frees what another will use; the counter as long
\* as no subrequest is ended a second time: worker.c.
THEOREM HeapsInvariant == Spec => []HeapsAgree
<1>1. IInv /\ Counted => HeapsAgree
  <2> SUFFICES ASSUME IInv, Counted PROVE HeapsAgree
    BY Zenon
  <2>1. TypeOK
    <3>1. \A i \in DOMAIN stack : stack[i] \in AllCalls
      BY DEF IInv, Typed
    <3>2. \A i \in DOMAIN stack : stack[i].op \in Calls
      BY <3>1, Zenon DEF AllCalls
    <3> QED
      BY <3>2, Zenon DEF IInv, Typed, TypeOK, Counted
  <2>2. ASSUME NEW i \in DOMAIN stack, stack[i].op \in HeldOps
        PROVE  phase[stack[i].arg] = IF stack[i].op = "insert" THEN "queued" ELSE "live"
    <3>1. /\ stack[i].op = "free" => stack[i].arg \in Frees
          /\ stack[i].op = "insert" => stack[i].arg \in Inserts
          /\ stack[i].op = "interpret" => stack[i].arg \in Runs
      BY <2>2, Zenon DEF Frees, Inserts, Runs, Args
    <3> QED
      BY <2>2, <3>1, Zenon DEF IInv, StackSound, HeapsSound, HeldOps
  <2>3. \A i, j \in DOMAIN stack : stack[i].op \in HeldOps /\ stack[j].op \in HeldOps /\ i # j
            => stack[i].arg # stack[j].arg
    BY Zenon DEF IInv, StackSound, HeldOnce
  <2>5. ASSUME again = {} PROVE num_active = Cardinality(time_order)
    <3>1. Cardinality(again) = 0 /\ num_active \in Int /\ num_active + Cardinality(again) = Cardinality(time_order)
      BY <2>5, CountEmpty, Zenon DEF Counted
    <3> QED
      BY <3>1
  <2>4. /\ ParentsWait /\ (again = {} => num_active = Cardinality(time_order))
        /\ runnable \cup yielded \cup dedup \subseteq time_order
        /\ \A r \in time_order : phase[r] = "live"
        /\ state = "destroyed" => time_order = {}
    BY <2>5, Zenon DEF IInv, HeapsSound, StackSound
  <2> QED
    BY <2>1, <2>2, <2>3, <2>4, Zenon DEF HeapsAgree, HeldOps
<1>2. Init => Counted
  <2>1. Cardinality({}) = 0
    BY CountEmpty, Zenon
  <2> QED
    BY <2>1 DEF Init, Counted
<1> QED
  BY <1>1, <1>2, InitIInv, NextIInv, NextCounted, PTL DEF Spec

\* The hypothesis of OneRequestPerContext
FewOriginals == \A c \in {Ctx[p] : p \in Packets} : Cardinality({p \in Packets \ Dups : Ctx[p] = c}) <= 2

\* Of three originals with one packet_ctx two are the same.
LEMMA NoThird ==
    ASSUME FewOriginals, NEW p \in Packets \ Dups, NEW q \in Packets \ Dups, NEW r \in Packets \ Dups,
           Ctx[q] = Ctx[p], Ctx[r] = Ctx[p]
    PROVE  p = q \/ p = r \/ q = r
<1> SUFFICES ASSUME p # q, p # r, q # r
             PROVE  FALSE
  BY Zenon
<1> DEFINE S == {x \in Packets \ Dups : Ctx[x] = Ctx[p]}
<1>1. Cardinality(S) <= 2
  BY Zenon DEF FewOriginals
<1>2. S \in SUBSET Packets /\ (({p} \cup {q}) \cup {r}) \in SUBSET S
  BY Zenon
<1> HIDE DEF S
<1>3. IsFiniteSet({p}) /\ Cardinality({p}) = 1
  BY CountOne, Zenon
<1>4. IsFiniteSet({p} \cup {q}) /\ Cardinality({p} \cup {q}) = Cardinality({p}) + 1
  <2>1. q \notin {p}
    BY Zenon
  <2> QED
    BY <1>3, <2>1, CountAdd, Zenon
<1>5. Cardinality(({p} \cup {q}) \cup {r}) = Cardinality({p} \cup {q}) + 1
  <2>1. r \notin {p} \cup {q}
    BY Zenon
  <2> QED
    BY <1>4, <2>1, CountAdd, Zenon
<1>6. IsFiniteSet(S)
  BY <1>2, CountSubset, WorkerAssumption, Zenon
<1>7. Cardinality(({p} \cup {q}) \cup {r}) <= Cardinality(S) /\ Cardinality(S) \in Nat
  BY <1>2, <1>6, CountSubset, CountType, Zenon
<1>8. Cardinality(({p} \cup {q}) \cup {r}) = 3
  BY <1>3, <1>4, <1>5
<1> QED
  BY <1>1, <1>7, <1>8

\* Of packets with the same packet_ctx one request is active, when no packet_ctx
\* has more than two packets that are not duplicates: worker_request_bootstrap.
THEOREM OneRequestInvariant == Spec => []OneRequestPerContext
<1>1. CASE FewOriginals
  <2>0. TwoOriginals
    BY <1>1, NoThird, Zenon DEF TwoOriginals
  <2>1. Init => CtxInv
    <3> SUFFICES ASSUME Init PROVE CtxInv
      BY Zenon
    <3>1. Inserts = {} /\ queue = <<>> /\ dedup = {} /\ time_order = {} /\ \A p \in Packets : ~Received(p)
      BY EmptyStack, Zenon DEF Init, Inserts, Received, Requests
    <3> QED
      BY <3>1 DEF CtxInv, OriginalsFirst, InsertsLast, Tracked
  <2>2. IInv /\ CtxInv => OneRequestPerContext
    BY Zenon DEF CtxInv, Tracked, OneRequestPerContext
  <2>3. IInv /\ CtxInv /\ [Next]_vars => CtxInv'
    BY <2>0, NextCtx, Zenon
  <2> QED
    BY <2>1, <2>2, <2>3, InitIInv, NextIInv, PTL DEF Spec
<1>2. CASE ~FewOriginals
  <2>1. OneRequestPerContext
    BY <1>2, Zenon DEF FewOriginals, OneRequestPerContext
  <2> QED
    BY <2>1, PTL
<1> QED
  BY <1>1, <1>2, Zenon
=============================================================================
