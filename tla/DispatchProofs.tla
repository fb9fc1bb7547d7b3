--------------------------- MODULE DispatchProofs ---------------------------
(***************************************************************************)
(* The flags and counters by which a network thread knows its workers      *)
(* agree, for every number of workers, sockets and packets, every size of  *)
(* the queues and every limit.                                             *)
(*                                                                         *)
(* The invariant says what the choice of a worker rests on: until the      *)
(* exit, the first num_workers places of the array hold the workers that   *)
(* have started, a call has chosen one of these that is not blocked, and   *)
(* only these are ever blocked.  So when as many are blocked as have       *)
(* started, they are the same.  No worker comes once there are sockets,    *)
(* and the network is suspended only while there are.                      *)
(***************************************************************************)
EXTENDS Dispatch, TLAPS

Replies == [cpu_time : Nat, time : Nat]
ChannelRec == [queue : 0 .. AqSize, held : Nat, replies : Seq(Replies), spent : Nat]

\* What is counted and flagged of a worker; predicted may be anything.
IsWorker(x) ==
    /\ DOMAIN x = {"blocked", "cpu_time", "predicted", "in", "out"}
    /\ x.blocked \in BOOLEAN /\ x.in \in Nat /\ x.out \in Nat

Typed ==
    /\ workers \in [Slots -> Workers \cup {NULL, Torn}] /\ num_workers \in Nat
    /\ DOMAIN worker = Workers /\ \A w \in Workers : IsWorker(worker[w])
    /\ channel \in [Workers -> ChannelRec]
    /\ sockets \subseteq Sockets /\ paused \subseteq sockets
    /\ suspended \in BOOLEAN /\ exiting \in BOOLEAN /\ acked \subseteq Workers
    /\ step \in {"idle", "choose", "full"} /\ target \in Workers \cup {NULL}
    /\ packets \in 0 .. MaxPackets /\ dropped \in Nat

\* num_workers counts the workers that have not acknowledged a close.
ArraySound ==
    /\ num_workers = Cardinality(Started \ acked)
    /\ ~exiting => acked = {}
    /\ ~exiting => \A i \in Slots : /\ i < num_workers => workers[i] \in Workers
                                    /\ i >= num_workers => workers[i] = NULL
    /\ \A i, j \in Slots : workers[i] \in Workers /\ workers[i] = workers[j] => i = j

CallSound ==
    /\ exiting => step = "idle" /\ sockets = {}
    /\ step # "idle" => sockets # {}
    /\ step = "full" => target \in Started /\ ~worker[target].blocked

BlockedSound ==
    /\ num_blocked = Cardinality(Blocked)
    /\ ~exiting => Blocked \subseteq Started
    /\ suspended /\ ~exiting => sockets # {} /\ Started \subseteq Blocked
    /\ paused # {} => suspended

\* Packets that were handed out or given up.
Sent == IF step = "idle" THEN packets ELSE packets - 1

\* Requests and replies that the network has not got back.
Owed(c) == c.queue + c.held + Len(c.replies)

\* What the worker owes is covered by the difference of its two counters.
Covered(w) == worker[w].in - worker[w].out >= Owed(channel[w])

Limits == dropped <= Sent /\ \A w \in Workers : Covered(w) /\ worker[w].in <= Sent

IInv == Typed /\ ArraySound /\ CallSound /\ BlockedSound /\ Limits

\* What the steps need of counting; CountingHolds below shows that it is so.
Counting ==
    \A S \in SUBSET Workers :
        /\ Cardinality(S) \in Nat /\ Cardinality(S) <= Cardinality(Workers)
        /\ Cardinality(S) = 0 <=> S = {}
        /\ \A T \in SUBSET S : Cardinality(T) = Cardinality(S) => T = S
        /\ \A x \in Workers : /\ x \notin S => Cardinality(S \cup {x}) = Cardinality(S) + 1
                             /\ x \in S => Cardinality(S \ {x}) = Cardinality(S) - 1

LEMMA CountBounds ==
    ASSUME Counting, NEW S \in SUBSET Workers
    PROVE  Cardinality(S) \in Nat /\ Cardinality(S) <= Cardinality(Workers) /\ Cardinality(Workers) \in Nat
<1>1. Workers \in SUBSET Workers
  BY Zenon
<1> QED
  BY <1>1, Zenon DEF Counting

LEMMA CountAdd ==
    ASSUME Counting, NEW S \in SUBSET Workers, NEW x \in Workers, x \notin S
    PROVE  Cardinality(S \cup {x}) = Cardinality(S) + 1
BY DEF Counting

LEMMA CountRemove ==
    ASSUME Counting, NEW S \in SUBSET Workers, NEW x \in S
    PROVE  Cardinality(S \ {x}) = Cardinality(S) - 1
<1>1. x \in Workers
  BY Zenon
<1> QED
  BY <1>1, Zenon DEF Counting

-----------------------------------------------------------------------------
(* Workers and their records *)

LEMMA StartedIs == Started \in SUBSET Workers /\ Blocked \in SUBSET Workers
BY Zenon DEF Started, Blocked

\* Until the exit the places in use hold the workers that have started.
LEMMA Places ==
    ASSUME Counting, IInv
    PROVE  /\ num_workers \in 0 .. Cardinality(Workers) /\ num_blocked \in 0 .. Cardinality(Workers)
           /\ 0 .. num_workers - 1 \subseteq Slots
           /\ ~exiting => Active = Started /\ num_workers = Cardinality(Started)
<1>1. Started \ acked \in SUBSET Workers /\ Blocked \in SUBSET Workers
  BY StartedIs, Zenon
<1>2. /\ Cardinality(Workers) \in Nat
      /\ Cardinality(Started \ acked) \in Nat /\ Cardinality(Started \ acked) <= Cardinality(Workers)
      /\ Cardinality(Blocked) \in Nat /\ Cardinality(Blocked) <= Cardinality(Workers)
  BY <1>1, Zenon DEF Counting
<1>3. /\ num_workers \in 0 .. Cardinality(Workers) /\ num_blocked \in 0 .. Cardinality(Workers)
      /\ 0 .. num_workers - 1 \subseteq Slots
  BY <1>2 DEF IInv, ArraySound, BlockedSound, Slots
<1>4. ASSUME ~exiting
      PROVE  Active = Started /\ num_workers = Cardinality(Started)
  <2>1. \A i \in 0 .. num_workers - 1 : i \in Slots /\ i < num_workers
    BY <1>2, <1>3 DEF Slots
  <2>2. \A i \in Slots : i \in 0 .. num_workers - 1 \/ i >= num_workers
    BY <1>2, <1>3 DEF Slots
  <2>3. acked = {} /\ Started \ acked = Started
    BY <1>4, Zenon DEF IInv, ArraySound
  <2>4. \A w \in Active : w \in Started
    BY <1>4, <2>1, Zenon DEF IInv, ArraySound, Active, Started
  <2>5. \A w \in Started : w \in Active
    BY <1>4, <2>2, DispatchAssumption, Zenon DEF IInv, ArraySound, Active, Started
  <2> QED
    BY <2>3, <2>4, <2>5, Zenon DEF IInv, ArraySound
<1> QED
  BY <1>3, <1>4, Zenon

\* The worker that is chosen has started and is not blocked.
LEMMA Chosen ==
    ASSUME Counting, IInv, step = "choose", NEW w \in Candidates
    PROVE  w \in Workers /\ w \in Started /\ ~worker[w].blocked /\ ~exiting
<1>1. ~exiting
  BY Zenon DEF IInv, CallSound
<1>2. /\ num_workers \in 0 .. Cardinality(Workers) /\ Active = Started /\ num_blocked = Cardinality(Blocked)
  BY <1>1, Places, Zenon DEF IInv, BlockedSound
<1>3. \A i \in 0 .. num_workers - 1 : workers[i] \in Started
  BY <1>2, Zenon DEF Active
<1>4. Started \subseteq Workers
  BY StartedIs, Zenon
<1> DEFINE all == 0 .. num_workers - 1
<1>5. CASE num_workers = 1
  <2>1. w \in {v \in {workers[0]} : ~worker[v].blocked}
    BY <1>5, Zenon DEF Candidates
  <2>2. 0 \in 0 .. num_workers - 1
    BY <1>5
  <2> QED
    BY <1>1, <1>3, <1>4, <2>1, <2>2, Zenon
<1>6. CASE num_workers # 1 /\ num_blocked = 0
  <2>1. PICK pair \in {pair \in all \X all : pair[1] # pair[2]} :
          w = workers[IF worker[workers[pair[1]]].cpu_time < worker[workers[pair[2]]].cpu_time
                      THEN pair[1] ELSE pair[2]]
    BY <1>6, Zenon DEF Candidates
  <2>2. pair[1] \in all /\ pair[2] \in all
    BY <2>1
  <2>3. w \in Started
    BY <1>3, <2>1, <2>2, Zenon
  <2>4. Blocked = {}
    BY <1>2, <1>6, StartedIs, Zenon DEF Counting
  <2> QED
    BY <1>1, <1>4, <2>3, <2>4, Zenon DEF Blocked
<1>7. CASE num_workers # 1 /\ num_blocked # 0
  <2> DEFINE found == {i \in all : ~worker[workers[i]].blocked /\ worker[workers[i]].cpu_time < NoLimit}
  <2>1. PICK i \in {i \in found : \A j \in found : j <= i} : w = workers[i]
    BY <1>7, Zenon DEF Candidates
  <2>2. i \in all /\ ~worker[workers[i]].blocked
    BY <2>1, Zenon
  <2> QED
    BY <1>1, <1>3, <1>4, <2>1, <2>2, Zenon
<1> QED
  BY <1>5, <1>6, <1>7, Zenon

-----------------------------------------------------------------------------
(* Steps that leave workers and channels alone *)

LEMMA ArrayKept ==
    ASSUME ArraySound, UNCHANGED <<workers, num_workers, exiting, acked>>
    PROVE  ArraySound' /\ Started' = Started
BY Zenon DEF ArraySound, Started

LEMMA ListenKeeps ==
    ASSUME IInv, NEW s \in Sockets, Listen(s)
    PROVE  IInv'
<1>1. /\ sockets' = sockets \cup {s} /\ ~exiting /\ step = "idle"
      /\ UNCHANGED <<workers, num_workers, num_blocked, worker, suspended, paused, step, target, packets,
                     dropped, exiting, acked, channel>>
  BY Zenon DEF Listen, networkVars, callVars, exitVars
<1>2. ArraySound' /\ Started' = Started /\ Blocked' = Blocked
  BY <1>1, ArrayKept, Zenon DEF IInv, Blocked
<1>3. Typed' /\ CallSound' /\ BlockedSound'
  BY <1>1, <1>2, Zenon DEF IInv, Typed, CallSound, BlockedSound
<1>4. Limits'
  BY <1>1, Zenon DEF IInv, Limits, Sent, Covered
<1> QED
  BY <1>2, <1>3, <1>4, Zenon DEF IInv

\* The numbers of packets, when a call begins or ends.
LEMMA SentKept ==
    ASSUME IInv, UNCHANGED <<worker, channel>>,
           packets' \in Nat, dropped' \in Nat, dropped' <= Sent', Sent <= Sent', Sent' \in Int
    PROVE  Limits'
<1>1. \A w \in Workers : Covered(w)'
  BY Zenon DEF IInv, Limits, Covered
<1>2. \A w \in Workers : worker'[w].in <= Sent'
  <2>1. \A w \in Workers : worker'[w].in \in Nat /\ worker'[w].in <= Sent
    BY Zenon DEF IInv, Limits, Typed, IsWorker
  <2>2. Sent \in Int
    BY DEF IInv, Typed, Sent
  <2> QED
    BY <2>1, <2>2
<1> QED
  BY <1>1, <1>2, Zenon DEF Limits

LEMMA ReadKeeps ==
    ASSUME IInv, Read
    PROVE  IInv'
<1>1. /\ step = "idle" /\ step' = "choose" /\ packets < MaxPackets /\ packets' = packets + 1 /\ sockets # {}
      /\ UNCHANGED <<workers, num_workers, num_blocked, worker, suspended, sockets, paused, target,
                     dropped, exiting, acked, channel>>
  BY Zenon DEF Read, networkVars, socketVars, exitVars
<1>2. ArraySound' /\ Started' = Started /\ Blocked' = Blocked
  BY <1>1, ArrayKept, Zenon DEF IInv, Blocked
<1>3. packets \in Nat /\ packets' \in 0 .. MaxPackets /\ Sent = packets /\ Sent' = packets
  BY <1>1, DispatchAssumption DEF IInv, Typed, Sent
<1>4. Typed' /\ BlockedSound'
  BY <1>1, <1>2, <1>3, Zenon DEF IInv, Typed, BlockedSound
<1>5. CallSound'
  BY <1>1, Zenon DEF IInv, CallSound
<1>6. Limits'
  BY <1>1, <1>3, SentKept, DispatchAssumption DEF IInv, Typed, Limits
<1> QED
  BY <1>2, <1>4, <1>5, <1>6, Zenon DEF IInv

LEMMA DropKeeps ==
    ASSUME IInv, NoChoice \/ TooMany
    PROVE  IInv'
<1>1. /\ step = "choose" /\ step' = "idle" /\ target' = NULL /\ dropped' = dropped + 1
      /\ UNCHANGED <<workers, num_workers, num_blocked, worker, suspended, sockets, paused, packets,
                     exiting, acked, channel>>
  BY Zenon DEF NoChoice, TooMany, Drop, networkVars, socketVars, exitVars
<1>2. ArraySound' /\ Started' = Started /\ Blocked' = Blocked
  BY <1>1, ArrayKept, Zenon DEF IInv, Blocked
<1>3. packets \in Nat /\ Sent = packets - 1 /\ Sent' = packets /\ dropped \in Nat /\ dropped' \in Nat
      /\ dropped <= Sent /\ packets' \in Nat
  BY <1>1, DispatchAssumption DEF IInv, Typed, Sent, Limits
<1>4. Typed' /\ CallSound' /\ BlockedSound'
  BY <1>1, <1>2, <1>3, Zenon DEF IInv, Typed, CallSound, BlockedSound
<1>5. Limits'
  <2>1. dropped' <= Sent' /\ Sent <= Sent' /\ Sent' \in Int
    BY <1>1, <1>3
  <2> QED
    BY <1>1, <1>3, <2>1, SentKept, Zenon
<1> QED
  BY <1>2, <1>4, <1>5, Zenon DEF IInv

LEMMA QueueFullKeeps ==
    ASSUME Counting, IInv, QueueFull
    PROVE  IInv'
<1>1. /\ step = "choose" /\ step' = "full" /\ target' \in Candidates
      /\ UNCHANGED <<workers, num_workers, num_blocked, worker, suspended, sockets, paused, packets, dropped,
                     exiting, acked, channel>>
  BY Zenon DEF QueueFull, networkVars, socketVars, exitVars
<1>2. ArraySound' /\ Started' = Started /\ Blocked' = Blocked
  BY <1>1, ArrayKept, Zenon DEF IInv, Blocked
<1>3. target' \in Workers /\ target' \in Started /\ ~worker[target'].blocked /\ ~exiting
  BY <1>1, Chosen, Zenon
<1>4. Typed' /\ CallSound' /\ BlockedSound'
  BY <1>1, <1>2, <1>3, Zenon DEF IInv, Typed, CallSound, BlockedSound
<1>5. Limits'
  BY <1>1, Zenon DEF IInv, Limits, Sent, Covered
<1> QED
  BY <1>2, <1>4, <1>5, Zenon DEF IInv

\* With the sockets everything goes that waits for a worker.
LEMMA DestroyKeeps ==
    ASSUME IInv, Destroy
    PROVE  IInv'
<1>1. /\ step = "idle" /\ ~exiting /\ exiting' = TRUE /\ sockets' = {} /\ paused' = {}
      /\ UNCHANGED <<workers, num_workers, num_blocked, worker, suspended, step, target, packets, dropped,
                     acked, channel>>
  BY Zenon DEF Destroy, networkVars, callVars
<1>2. Started' = Started /\ Blocked' = Blocked
  BY <1>1, Zenon DEF Started, Blocked
<1>3. Typed' /\ ArraySound' /\ CallSound' /\ BlockedSound'
  BY <1>1, <1>2, Zenon DEF IInv, Typed, ArraySound, CallSound, BlockedSound
<1>4. Limits'
  BY <1>1, Zenon DEF IInv, Limits, Sent, Covered
<1> QED
  BY <1>3, <1>4, Zenon DEF IInv

-----------------------------------------------------------------------------
(* Workers come and go *)

LEMMA WorkerStartedKeeps ==
    ASSUME Counting, IInv, NEW w \in Workers, WorkerStarted(w)
    PROVE  IInv'
<1> DEFINE free == {i \in Slots : workers[i] = NULL}
<1>1. /\ w \notin Started /\ sockets = {} /\ ~exiting
      /\ workers' = [workers EXCEPT ![Min(free)] = w] /\ num_workers' = num_workers + 1
      /\ UNCHANGED <<num_blocked, worker, suspended, sockets, paused, step, target, packets, dropped,
                     exiting, acked, channel>>
  BY Zenon DEF WorkerStarted, socketVars, callVars, exitVars
<1>2. /\ num_workers \in Nat /\ num_workers = Cardinality(Started) /\ acked = {}
      /\ \A i \in Slots : /\ i < num_workers => workers[i] \in Workers
                          /\ i >= num_workers => workers[i] = NULL
      /\ \A i, j \in Slots : workers[i] \in Workers /\ workers[i] = workers[j] => i = j
      /\ workers \in [Slots -> Workers \cup {NULL, Torn}]
  BY <1>1, Places, Zenon DEF IInv, Typed, ArraySound
<1>3. num_workers \in Slots /\ num_workers \in free
  <2>1. Started \cup {w} \in SUBSET Workers /\ Started \in SUBSET Workers
    BY StartedIs, Zenon
  <2>2. /\ Cardinality(Started \cup {w}) = Cardinality(Started) + 1
        /\ Cardinality(Started \cup {w}) <= Cardinality(Workers)
        /\ Cardinality(Workers) \in Nat /\ Cardinality(Started) \in Nat
    BY <1>1, <2>1, CountAdd, CountBounds
  <2>3. num_workers \in Slots
    BY <1>2, <2>2 DEF Slots
  <2> QED
    BY <1>2, <2>3
<1>4. Min(free) = num_workers
  <2>1. \A i \in free : i \in Slots /\ i \in Int /\ ~(i < num_workers)
    <3>1. \A i \in free : i \in Slots /\ workers[i] \notin Workers
      BY DispatchAssumption, Zenon
    <3> QED
      BY <1>2, <3>1 DEF Slots
  <2>2. \A i \in free : num_workers <= i
    BY <1>2, <2>1
  <2>3. \A i \in free : (\A j \in free : i <= j) => i = num_workers
    BY <1>2, <1>3, <2>1, <2>2
  <2> HIDE DEF free
  <2>4. \E i \in free : \A j \in free : i <= j
    BY <1>3, <2>2, Zenon
  <2>5. Min(free) \in free /\ \A j \in free : Min(free) <= j
    BY <2>4, Zenon DEF Min
  <2> QED
    BY <2>3, <2>5, Zenon
<1> HIDE DEF free
<1>5. /\ workers' \in [Slots -> Workers \cup {NULL, Torn}] /\ workers'[num_workers] = w
      /\ \A i \in Slots : i # num_workers => workers'[i] = workers[i]
      /\ workers[num_workers] = NULL
  BY <1>1, <1>2, <1>3, <1>4, Zenon DEF free
<1>6. Started' = Started \cup {w}
  BY <1>3, <1>5, DispatchAssumption, Zenon DEF Started
<1>7. Typed'
  <2>1. num_workers' \in Nat
    BY <1>1, <1>2
  <2> QED
    BY <1>1, <1>5, <2>1, Zenon DEF IInv, Typed
<1>8. ArraySound'
  <2>1. acked' = {} /\ num_workers' = Cardinality(Started' \ acked')
    <3>1. Cardinality(Started \cup {w}) = Cardinality(Started) + 1
      BY <1>1, StartedIs, CountAdd
    <3>2. acked' = {} /\ Started' \ acked' = Started \cup {w}
      BY <1>1, <1>2, <1>6, Zenon
    <3> QED
      BY <1>1, <1>2, <3>1, <3>2, Zenon
  <2>2. \A i \in Slots : i \in Int /\ (i < num_workers' <=> i < num_workers \/ i = num_workers)
                         /\ (i >= num_workers' => i >= num_workers /\ i # num_workers)
    BY <1>1, <1>2 DEF Slots
  <2>3. \A i \in Slots : /\ i < num_workers' => workers'[i] \in Workers
                         /\ i >= num_workers' => workers'[i] = NULL
    BY <1>2, <1>5, <2>2, Zenon
  <2>4. \A i \in Slots : workers[i] # w
    BY <1>1, Zenon DEF Started
  <2>5. \A i, j \in Slots : workers'[i] \in Workers /\ workers'[i] = workers'[j] => i = j
    BY <1>2, <1>5, <2>4, ZenonT(40)
  <2> QED
    BY <2>1, <2>3, <2>5, Zenon DEF ArraySound
<1>9. CallSound' /\ BlockedSound'
  <2>1. Blocked' = Blocked
    BY <1>1, Zenon DEF Blocked
  <2>2. ~suspended /\ step = "idle"
    BY <1>1, Zenon DEF IInv, BlockedSound, CallSound
  <2> QED
    BY <1>1, <1>6, <2>1, <2>2, Zenon DEF IInv, CallSound, BlockedSound
<1>10. Limits'
  BY <1>1, Zenon DEF IInv, Limits, Sent, Covered
<1> QED
  BY <1>7, <1>8, <1>9, <1>10, Zenon DEF IInv

\* Wherever the worker was in the array, no other one leaves it.
LEMMA CloseAckedKeeps ==
    ASSUME Counting, IInv, NEW w \in Workers, CloseAcked(w)
    PROVE  IInv'
<1> DEFINE at == {i \in 0 .. num_workers - 1 : workers[i] = w}
<1>1. /\ exiting /\ w \in Started \ acked /\ acked' = acked \cup {w} /\ num_workers' = num_workers - 1
      /\ UNCHANGED <<num_blocked, worker, suspended, sockets, paused, step, target, packets, dropped,
                     exiting, channel>>
  BY Zenon DEF CloseAcked, socketVars, callVars
<1>2. /\ workers \in [Slots -> Workers \cup {NULL, Torn}] /\ 0 .. num_workers - 1 \subseteq Slots
      /\ \A i, j \in Slots : workers[i] \in Workers /\ workers[i] = workers[j] => i = j
      /\ num_workers = Cardinality(Started \ acked)
  BY Places, Zenon DEF IInv, Typed, ArraySound
<1>3. /\ workers' \in [Slots -> Workers \cup {NULL, Torn}]
      /\ \A i \in Slots : workers'[i] = workers[i] \/ (workers[i] = w /\ workers'[i] \in {NULL, Torn})
  <2>1. CASE at = {}
    BY <1>2, <2>1, Zenon DEF CloseAcked
  <2>2. ASSUME NEW i \in at
        PROVE  \E p \in {NULL, Torn} : workers' = [workers EXCEPT ![i] = p]
    <3>1. i \in Slots /\ i \in Int /\ workers[i] = w
      BY <1>2, <2>2
    <3>2. at = {i}
      BY <1>2, <2>2, <3>1, Zenon
    <3>3. Min(at) = i
      <4>1. \A k \in at : k = i /\ \A y \in at : k <= y
        BY <3>1, <3>2
      <4> HIDE DEF at
      <4>2. Min(at) \in at
        BY <2>2, <4>1, Zenon DEF Min
      <4> QED
        BY <4>1, <4>2, Zenon
    <3>4. at # {}
      BY <2>2, Zenon
    <3>5. \E p \in {NULL, Torn} : workers' = [workers EXCEPT ![Min(at)] = p]
      BY <3>4, Zenon DEF CloseAcked
    <3> QED
      BY <3>3, <3>5, Zenon
  <2>3. ASSUME NEW i \in at
        PROVE  /\ workers' \in [Slots -> Workers \cup {NULL, Torn}]
               /\ \A k \in Slots : workers'[k] = workers[k] \/ (workers[k] = w /\ workers'[k] \in {NULL, Torn})
    <3>1. i \in Slots /\ workers[i] = w
      BY <1>2, <2>3, Zenon
    <3>2. PICK p \in {NULL, Torn} : workers' = [workers EXCEPT ![i] = p]
      BY <2>2, <2>3, Zenon
    <3> HIDE DEF at
    <3> QED
      BY <1>2, <3>1, <3>2, Zenon
  <2> QED
    BY <2>1, <2>3, Zenon
<1> HIDE DEF at
<1>4. Started' \ acked' = (Started \ acked) \ {w}
  BY <1>1, <1>3, DispatchAssumption, Zenon DEF Started
<1>5. Cardinality((Started \ acked) \ {w}) = Cardinality(Started \ acked) - 1
      /\ Cardinality((Started \ acked) \ {w}) \in Nat
  <2>1. Started \ acked \in SUBSET Workers /\ (Started \ acked) \ {w} \in SUBSET Workers
    BY StartedIs, Zenon
  <2> QED
    BY <1>1, <2>1, CountRemove, CountBounds
<1>6. num_workers' = Cardinality(Started' \ acked') /\ num_workers' \in Nat
  BY <1>1, <1>2, <1>4, <1>5, Zenon
<1>7. \A i, j \in Slots : workers'[i] \in Workers /\ workers'[i] = workers'[j] => i = j
  BY <1>2, <1>3, DispatchAssumption, Zenon
<1>8. Typed' /\ ArraySound'
  BY <1>1, <1>3, <1>6, <1>7, Zenon DEF IInv, Typed, ArraySound
<1>9. CallSound' /\ BlockedSound'
  <2>1. Blocked' = Blocked /\ step = "idle" /\ sockets = {}
    BY <1>1, Zenon DEF Blocked, IInv, CallSound
  <2> QED
    BY <1>1, <2>1, Zenon DEF IInv, CallSound, BlockedSound
<1>10. Limits'
  BY <1>1, Zenon DEF IInv, Limits, Sent, Covered
<1> QED
  BY <1>8, <1>9, <1>10, Zenon DEF IInv

-----------------------------------------------------------------------------
(* Requests and replies *)

LEMMA ChannelFields ==
    ASSUME NEW c \in ChannelRec
    PROVE  /\ c.queue \in 0 .. AqSize /\ c.queue \in Nat /\ c.held \in Nat /\ c.spent \in Nat
           /\ c.replies \in Seq(Replies) /\ Len(c.replies) \in Nat /\ Owed(c) \in Nat
BY DispatchAssumption DEF ChannelRec, Owed

\* The ways in which a channel changes.
LEMMA ChannelSent ==
    ASSUME NEW d \in ChannelRec, d.queue < AqSize, NEW c, c = [d EXCEPT !.queue = @ + 1]
    PROVE  c \in ChannelRec /\ Owed(c) = Owed(d) + 1
<1>1. PICK q \in 0 .. AqSize : q = d.queue + 1
  BY ChannelFields, DispatchAssumption
<1>2. c \in ChannelRec /\ c.queue = q /\ c.held = d.held /\ c.replies = d.replies
  BY <1>1 DEF ChannelRec
<1>3. PICK a \in Nat, b \in Nat, l \in Nat : a = d.queue /\ b = d.held /\ l = Len(d.replies)
  BY ChannelFields, Zenon
<1>4. Owed(d) = a + b + l /\ Owed(c) = (a + 1) + b + l
  BY <1>1, <1>2, <1>3, Zenon DEF Owed
<1> QED
  BY <1>2, <1>4

LEMMA ChannelRead ==
    ASSUME NEW d \in ChannelRec, d.queue > 0, NEW c, c = [d EXCEPT !.queue = @ - 1, !.held = @ + 1]
    PROVE  c \in ChannelRec /\ Owed(d) >= Owed(c)
<1>1. PICK q \in 0 .. AqSize : q = d.queue - 1
  BY ChannelFields, DispatchAssumption
<1>2. PICK h \in Nat : h = d.held + 1
  BY ChannelFields
<1>3. c \in ChannelRec /\ c.queue = q /\ c.held = h /\ c.replies = d.replies
  BY <1>1, <1>2, Zenon DEF ChannelRec
<1>4. PICK a \in Nat, b \in Nat, l \in Nat : a = d.queue /\ b = d.held /\ l = Len(d.replies)
  BY ChannelFields, Zenon
<1>5. Owed(d) = a + b + l /\ Owed(c) = (a - 1) + (b + 1) + l
  BY <1>1, <1>2, <1>3, <1>4, Zenon DEF Owed
<1> QED
  BY <1>3, <1>5

LEMMA ChannelReplied ==
    ASSUME NEW d \in ChannelRec, d.held > 0, NEW u \in Nat, NEW rs \in Seq(Replies), Len(rs) <= Len(d.replies) + 1,
           NEW c, c = [d EXCEPT !.held = @ - 1, !.spent = @ + u, !.replies = rs]
    PROVE  c \in ChannelRec /\ Owed(d) >= Owed(c)
<1>1. PICK h \in Nat : h = d.held - 1
  BY ChannelFields
<1>2. PICK t \in Nat : t = d.spent + u
  BY ChannelFields
<1>3. c \in ChannelRec /\ c.queue = d.queue /\ c.held = h /\ c.replies = rs
  BY <1>1, <1>2, Zenon DEF ChannelRec
<1>4. PICK m \in Nat : m = Len(rs)
  OBVIOUS
<1>5. PICK a \in Nat, b \in Nat, l \in Nat : a = d.queue /\ b = d.held /\ l = Len(d.replies)
  BY ChannelFields, Zenon
<1>6. Owed(d) = a + b + l /\ Owed(c) = a + (b - 1) + m /\ m <= l + 1
  BY <1>1, <1>3, <1>4, <1>5, Zenon DEF Owed
<1> QED
  BY <1>3, <1>6

LEMMA ChannelEnded ==
    ASSUME NEW d \in ChannelRec, d.held > 0, NEW c, c = [d EXCEPT !.held = @ - 1]
    PROVE  c \in ChannelRec /\ Owed(d) >= Owed(c)
<1>1. PICK h \in Nat : h = d.held - 1
  BY ChannelFields
<1>2. c \in ChannelRec /\ c.queue = d.queue /\ c.held = h /\ c.replies = d.replies
  BY <1>1 DEF ChannelRec
<1>3. PICK a \in Nat, b \in Nat, l \in Nat : a = d.queue /\ b = d.held /\ l = Len(d.replies)
  BY ChannelFields, Zenon
<1>4. Owed(d) = a + b + l /\ Owed(c) = a + (b - 1) + l
  BY <1>1, <1>2, <1>3, Zenon DEF Owed
<1> QED
  BY <1>2, <1>4

LEMMA ChannelDrained ==
    ASSUME NEW d \in ChannelRec, NEW c, c = [d EXCEPT !.replies = << >>]
    PROVE  c \in ChannelRec /\ Owed(c) = Owed(d) - Len(d.replies)
<1>0. << >> \in Seq(Replies)
  OBVIOUS
<1>1. PICK rs \in Seq(Replies) : rs = << >>
  BY <1>0, Zenon
<1>2. c \in ChannelRec /\ c.queue = d.queue /\ c.held = d.held /\ c.replies = rs
  BY <1>1, Zenon DEF ChannelRec
<1>3. Len(rs) = 0
  BY <1>1
<1>4. PICK a \in Nat, b \in Nat, l \in Nat : a = d.queue /\ b = d.held /\ l = Len(d.replies)
  BY ChannelFields, Zenon
<1>5. Owed(d) = a + b + l /\ Owed(c) = a + b + 0
  BY <1>2, <1>3, <1>4, Zenon DEF Owed
<1> QED
  BY <1>2, <1>4, <1>5

LEMMA AtLeast ==
    ASSUME NEW a \in Int, NEW b \in Int, NEW c \in Int, a >= b, b >= c
    PROVE  a >= c
OBVIOUS

\* A step of one worker that leaves the network alone.
LEMMA ChannelStep ==
    ASSUME IInv, NEW w \in Workers, NEW c \in ChannelRec, channel' = [channel EXCEPT ![w] = c],
           Owed(channel[w]) >= Owed(c), UNCHANGED <<networkVars, socketVars, callVars, exitVars>>
    PROVE  IInv'
<1>1. UNCHANGED <<workers, num_workers, num_blocked, worker, suspended, sockets, paused, step, target,
                  packets, dropped, exiting, acked>>
  BY Zenon DEF networkVars, socketVars, callVars, exitVars
<1>2. ArraySound' /\ Started' = Started /\ Blocked' = Blocked
  BY <1>1, ArrayKept, Zenon DEF IInv, Blocked
<1>3. channel \in [Workers -> ChannelRec] /\ channel[w] \in ChannelRec
  BY Zenon DEF IInv, Typed
<1>4. /\ channel' \in [Workers -> ChannelRec] /\ channel'[w] = c
      /\ \A v \in Workers : v # w => channel'[v] = channel[v]
  BY <1>3, Zenon
<1>5. Typed' /\ CallSound' /\ BlockedSound'
  BY <1>1, <1>2, <1>4, Zenon DEF IInv, Typed, CallSound, BlockedSound
<1>6. Covered(w)'
  <2>1. PICK n : n = worker[w].in - worker[w].out
    OBVIOUS
  <2>2. PICK m : m = Owed(channel[w])
    OBVIOUS
  <2>3. worker[w].in \in Nat /\ worker[w].out \in Nat /\ n >= m
    BY <2>1, <2>2, Zenon DEF IInv, Typed, IsWorker, Limits, Covered
  <2>4. n \in Int
    BY <2>1, <2>3
  <2>5. m \in Int /\ Owed(c) \in Int
    <3>1. m \in Nat /\ Owed(c) \in Nat
      BY <1>3, <2>2, ChannelFields, Zenon
    <3> QED
      BY <3>1
  <2>6. n >= Owed(c)
    BY <2>2, <2>3, <2>4, <2>5, AtLeast, Zenon
  <2> QED
    BY <1>1, <1>4, <2>1, <2>6, Zenon DEF Covered
<1>7. \A v \in Workers : v # w => Covered(v)'
  BY <1>1, <1>4, Zenon DEF IInv, Limits, Covered
<1>8. Limits'
  BY <1>1, <1>6, <1>7, Zenon DEF IInv, Limits, Sent
<1> QED
  BY <1>2, <1>5, <1>8, Zenon DEF IInv

LEMMA WorkerStepKeeps ==
    ASSUME IInv, NEW w \in Workers, WorkerReads(w) \/ WorkerReplies(w) \/ WorkerNullReply(w)
    PROVE  IInv'
<1>1. PICK d \in ChannelRec : d = channel[w]
  BY DEF IInv, Typed
<1>2. UNCHANGED <<networkVars, socketVars, callVars, exitVars>>
  BY Zenon DEF WorkerReads, WorkerReplies, WorkerNullReply
<1>3. CASE WorkerReads(w)
  <2>1. PICK c : c = [d EXCEPT !.queue = @ - 1, !.held = @ + 1]
    OBVIOUS
  <2>2. channel' = [channel EXCEPT ![w] = c] /\ d.queue > 0
    BY <1>1, <1>3, <2>1, Zenon DEF WorkerReads
  <2>3. c \in ChannelRec /\ Owed(d) >= Owed(c)
    BY <2>1, <2>2, ChannelRead, Zenon
  <2> QED
    BY <1>1, <1>2, <2>2, <2>3, ChannelStep, Zenon
<1>4. CASE WorkerNullReply(w)
  <2>1. PICK c : c = [d EXCEPT !.held = @ - 1]
    BY ZenonT(40)
  <2>2. channel' = [channel EXCEPT ![w] = c] /\ d.held > 0
    BY <1>1, <1>4, <2>1 DEF WorkerNullReply
  <2>3. c \in ChannelRec /\ Owed(d) >= Owed(c)
    BY <2>1, <2>2, ChannelEnded, Zenon
  <2> QED
    BY <1>1, <1>2, <2>2, <2>3, ChannelStep, Zenon
<1>5. CASE WorkerReplies(w)
  <2>1. PICK u \in Times :
          channel' = [channel EXCEPT ![w] =
             [d EXCEPT !.held = @ - 1, !.spent = @ + u,
                       !.replies = IF Len(d.replies) < AqSize
                                   THEN Append(d.replies, [cpu_time |-> d.spent + u, time |-> u])
                                   ELSE d.replies]]
    BY <1>1, <1>5, Zenon DEF WorkerReplies
  <2>2. PICK r : r = [cpu_time |-> d.spent + u, time |-> u]
    BY Zenon
  <2>3. PICK rs : rs = IF Len(d.replies) < AqSize THEN Append(d.replies, r) ELSE d.replies
    BY Zenon
  <2>4. PICK c : c = [d EXCEPT !.held = @ - 1, !.spent = @ + u, !.replies = rs]
    OBVIOUS
  <2>5. channel' = [channel EXCEPT ![w] = c] /\ d.held > 0
    BY <1>1, <1>5, <2>1, <2>2, <2>3, <2>4, Zenon DEF WorkerReplies
  <2>6. u \in Nat /\ d.spent \in Nat /\ d.replies \in Seq(Replies)
    BY ChannelFields, DispatchAssumption, Zenon
  <2>7. r \in Replies
    BY <2>2, <2>6 DEF Replies
  <2>8. rs \in Seq(Replies) /\ Len(rs) <= Len(d.replies) + 1
    <3>1. PICK ss \in Seq(Replies) : ss = d.replies
      BY <2>6, Zenon
    <3>2. Append(ss, r) \in Seq(Replies) /\ Len(Append(ss, r)) = Len(ss) + 1 /\ Len(ss) \in Nat
      BY <2>7
    <3> QED
      BY <2>3, <3>1, <3>2
  <2>9. c \in ChannelRec /\ Owed(d) >= Owed(c)
    BY <2>4, <2>5, <2>6, <2>8, ChannelReplied, Zenon
  <2> QED
    BY <1>1, <1>2, <2>5, <2>9, ChannelStep, Zenon
<1> QED
  BY <1>3, <1>4, <1>5, Zenon

LEMMA SendKeeps ==
    ASSUME Counting, IInv, Send
    PROVE  IInv'
<1>1. PICK w \in Candidates :
        /\ channel[w].queue < AqSize
        /\ channel' = [channel EXCEPT ![w].queue = @ + 1]
        /\ worker' = [worker EXCEPT ![w].in = @ + 1, ![w].cpu_time = @ + worker[w].predicted]
  BY Zenon DEF Send
<1>2. /\ step = "choose" /\ step' = "idle"
      /\ UNCHANGED <<workers, num_workers, num_blocked, suspended, sockets, paused, target, packets, dropped,
                     exiting, acked>>
  BY Zenon DEF Send, socketVars, exitVars
<1>3. w \in Workers
  BY <1>2, Chosen, Zenon
<1>4. DOMAIN worker = Workers /\ channel \in [Workers -> ChannelRec] /\ \A v \in Workers : IsWorker(worker[v])
  BY Zenon DEF IInv, Typed
<1>5. PICK x : x = worker[w]
  OBVIOUS
<1>6. PICK d \in ChannelRec : d = channel[w]
  BY <1>3, <1>4
<1> DEFINE y == [x EXCEPT !.in = @ + 1, !.cpu_time = @ + x.predicted]
           c == [d EXCEPT !.queue = @ + 1]
<1>7. worker' = [worker EXCEPT ![w] = y] /\ channel' = [channel EXCEPT ![w] = c]
  BY <1>1, <1>3, <1>4, <1>5, <1>6, Zenon
<1>8. IsWorker(x) /\ x.in \in Nat /\ x.out \in Nat /\ x.blocked \in BOOLEAN
  BY <1>3, <1>4, <1>5, Zenon DEF IsWorker
<1>9. IsWorker(y) /\ y.in = x.in + 1 /\ y.out = x.out /\ y.blocked = x.blocked
  BY <1>8 DEF IsWorker
<1>10. c \in ChannelRec /\ Owed(d) \in Nat /\ Owed(c) = Owed(d) + 1
  BY <1>1, <1>6, ChannelSent, ChannelFields, Zenon
<1> HIDE DEF y, c
<1>11. /\ DOMAIN worker' = Workers /\ worker'[w] = y /\ \A v \in Workers : v # w => worker'[v] = worker[v]
       /\ channel' \in [Workers -> ChannelRec] /\ channel'[w] = c
       /\ \A v \in Workers : v # w => channel'[v] = channel[v]
  BY <1>3, <1>4, <1>7, <1>10, Zenon
<1>12. Blocked' = Blocked
  BY <1>3, <1>5, <1>9, <1>11, Zenon DEF Blocked
<1>13. ArraySound' /\ Started' = Started
  BY <1>2, ArrayKept, Zenon DEF IInv
<1>14. Typed'
  BY <1>2, <1>9, <1>11, Zenon DEF IInv, Typed
<1>15. CallSound' /\ BlockedSound'
  BY <1>2, <1>12, <1>13, Zenon DEF IInv, CallSound, BlockedSound
<1>16. packets \in Nat /\ Sent = packets - 1 /\ Sent' = packets /\ dropped \in Nat /\ dropped <= Sent
  BY <1>2 DEF IInv, Typed, Sent, Limits
<1>17. Covered(w)' /\ worker'[w].in <= Sent'
  <2>1. x.in - x.out >= Owed(d) /\ x.in <= Sent
    BY <1>3, <1>5, <1>6, Zenon DEF IInv, Limits, Covered
  <2>3. y.in - y.out >= Owed(c) /\ y.in <= Sent'
    BY <1>8, <1>9, <1>10, <1>16, <2>1
  <2> QED
    BY <1>11, <2>3, Zenon DEF Covered
<1>18. ASSUME NEW v \in Workers, v # w
       PROVE  Covered(v)' /\ worker'[v].in <= Sent'
  <2>1. Covered(v) /\ worker[v].in <= Sent /\ worker[v].in \in Nat
    BY <1>4, Zenon DEF IInv, Limits, IsWorker
  <2>2. worker[v].in <= Sent'
    BY <1>16, <2>1
  <2> QED
    BY <1>11, <1>18, <2>1, <2>2, Zenon DEF Covered
<1>19. Limits'
  <2>1. dropped' <= Sent'
    BY <1>2, <1>16
  <2> QED
    BY <1>17, <1>18, <2>1, Zenon DEF Limits
<1> QED
  BY <1>13, <1>14, <1>15, <1>19, Zenon DEF IInv

-----------------------------------------------------------------------------
(* Replies are read *)

LEMMA ReceivedFields ==
    ASSUME NEW x, IsWorker(x), NEW rs \in Seq(Replies), NEW y, y = Received(x, rs)
    PROVE  /\ IsWorker(y) /\ y.in = x.in /\ y.out = x.out + Len(rs)
           /\ rs # << >> => ~y.blocked
<1>1. CASE rs = << >>
  <2>1. y = x
    BY <1>1, Zenon DEF Received
  <2>2. Len(rs) = 0
    BY <1>1
  <2>3. x.out = x.out + Len(rs)
    BY <2>2 DEF IsWorker
  <2> QED
    BY <1>1, <2>1, <2>3, Zenon
<1>2. CASE rs # << >>
  <2>1. PICK p : p = Predicted(x.predicted, rs)
    OBVIOUS
  <2>2. PICK t : t = rs[Len(rs)].cpu_time
    OBVIOUS
  <2>3. PICK o \in Nat : o = x.out + Len(rs)
    BY DEF IsWorker
  <2>4. y = [blocked |-> FALSE, cpu_time |-> t, predicted |-> p, in |-> x.in, out |-> o]
    BY <1>2, <2>1, <2>2, <2>3, Zenon DEF Received
  <2> QED
    BY <2>3, <2>4 DEF IsWorker
<1> QED
  BY <1>1, <1>2, Zenon

\* The channel and the record of a worker whose replies have been read.
LEMMA RepliesRead ==
    ASSUME IInv, NEW w \in Workers, NEW y, IsWorker(y), y.in = worker[w].in,
           y.out = worker[w].out + Len(channel[w].replies),
           worker' = [worker EXCEPT ![w] = y], channel' = [channel EXCEPT ![w].replies = << >>]
    PROVE  /\ DOMAIN worker' = Workers /\ channel' \in [Workers -> ChannelRec] /\ worker'[w] = y
           /\ \A v \in Workers : v # w => worker'[v] = worker[v]
           /\ \A v \in Workers : IsWorker(worker'[v]) /\ Covered(v)' /\ worker'[v].in = worker[v].in
<1>1. DOMAIN worker = Workers /\ channel \in [Workers -> ChannelRec] /\ \A v \in Workers : IsWorker(worker[v])
  BY Zenon DEF IInv, Typed
<1>2. PICK d \in ChannelRec : d = channel[w]
  BY <1>1
<1>3. PICK c : c = [d EXCEPT !.replies = << >>]
  BY Zenon
<1>4. c \in ChannelRec /\ Owed(c) = Owed(d) - Len(d.replies)
  BY <1>3, ChannelDrained, Zenon
<1>5. channel' = [channel EXCEPT ![w] = c]
  BY <1>1, <1>2, <1>3
<1>6. /\ DOMAIN worker' = Workers /\ worker'[w] = y /\ \A v \in Workers : v # w => worker'[v] = worker[v]
      /\ channel' \in [Workers -> ChannelRec] /\ channel'[w] = c
      /\ \A v \in Workers : v # w => channel'[v] = channel[v]
  BY <1>1, <1>4, <1>5, Zenon
<1>7. y.in - y.out >= Owed(c)
  <2>1. PICK i \in Nat, o \in Nat : i = worker[w].in /\ o = worker[w].out
    BY <1>1, Zenon DEF IsWorker
  <2>2. PICK n \in Nat, l \in Nat : n = Owed(d) /\ l = Len(d.replies)
    BY ChannelFields, Zenon
  <2>3. i - o >= n
    BY <1>2, <2>1, <2>2, Zenon DEF IInv, Limits, Covered
  <2>4. i - (o + l) >= n - l
    BY <2>3
  <2> QED
    BY <1>2, <1>4, <2>1, <2>2, <2>4, Zenon
<1>8. Covered(w)' /\ \A v \in Workers : v # w => Covered(v)'
  BY <1>6, <1>7, Zenon DEF IInv, Limits, Covered
<1> QED
  BY <1>1, <1>6, <1>8, Zenon

LEMMA ReadRepliesKeeps ==
    ASSUME Counting, IInv, NEW w \in Workers, ReadReplies(w)
    PROVE  IInv'
<1>1. PICK x : x = worker[w]
  OBVIOUS
<1>2. PICK rs \in Seq(Replies) : rs = channel[w].replies
  BY DEF IInv, Typed, ChannelRec
<1>3. PICK y : y = Received(x, rs)
  OBVIOUS
<1>4. IsWorker(x) /\ DOMAIN worker = Workers
  BY <1>1, Zenon DEF IInv, Typed
<1>5. /\ worker' = [worker EXCEPT ![w] = y] /\ channel' = [channel EXCEPT ![w].replies = << >>]
      /\ rs # << >> /\ step = "idle"
      /\ UNCHANGED <<workers, num_workers, sockets, step, target, packets, dropped, exiting, acked>>
  BY <1>1, <1>2, <1>3, <1>4, Zenon DEF ReadReplies, callVars, exitVars
<1>6. IsWorker(y) /\ y.in = x.in /\ y.out = x.out + Len(rs) /\ ~y.blocked
  BY <1>3, <1>4, <1>5, ReceivedFields, Zenon
<1>7. /\ DOMAIN worker' = Workers /\ channel' \in [Workers -> ChannelRec] /\ worker'[w] = y
      /\ \A v \in Workers : v # w => worker'[v] = worker[v]
      /\ \A v \in Workers : IsWorker(worker'[v]) /\ Covered(v)' /\ worker'[v].in = worker[v].in
  BY <1>1, <1>2, <1>5, <1>6, RepliesRead, Zenon
<1>8. ArraySound' /\ Started' = Started
  BY <1>5, ArrayKept, Zenon DEF IInv
<1>9. Typed' /\ CallSound'
  <2>1. suspended' \in BOOLEAN /\ paused' \subseteq sockets
    BY Zenon DEF ReadReplies, IInv, Typed
  <2> QED
    BY <1>5, <1>7, <2>1, Zenon DEF IInv, Typed, CallSound
<1>10. Limits'
  BY <1>5, <1>7, Zenon DEF IInv, Limits, Sent
<1>11. BlockedSound'
  <2>1. Blocked' = Blocked \ {w}
    BY <1>6, <1>7, Zenon DEF Blocked
  <2>2. CASE w \in Blocked
    <3>1. Unblocks(w)
      BY <1>2, <1>5, <2>2, Zenon DEF Unblocks, Blocked
    <3>2. num_blocked' = num_blocked - 1 /\ suspended' = FALSE /\ paused' = IF suspended THEN {} ELSE paused
      BY <3>1, Zenon DEF ReadReplies
    <3>3. num_blocked' = Cardinality(Blocked')
      BY <2>1, <2>2, <3>2, CountRemove, StartedIs DEF IInv, BlockedSound
    <3>4. paused' = {}
      BY <3>2, Zenon DEF IInv, BlockedSound
    <3> QED
      BY <1>5, <1>8, <2>1, <3>2, <3>3, <3>4, Zenon DEF IInv, BlockedSound
  <2>3. CASE w \notin Blocked
    <3>1. ~Unblocks(w)
      BY <2>3, Zenon DEF Unblocks, Blocked
    <3>2. num_blocked' = num_blocked /\ suspended' = suspended /\ paused' = paused
      BY <3>1, Zenon DEF ReadReplies, IInv, Typed
    <3>3. Blocked' = Blocked
      BY <2>1, <2>3, Zenon
    <3> QED
      BY <1>5, <1>8, <3>2, <3>3, Zenon DEF IInv, BlockedSound
  <2> QED
    BY <2>2, <2>3, Zenon
<1> QED
  BY <1>8, <1>9, <1>10, <1>11, Zenon DEF IInv

\* When the counter reaches num_workers, exactly the workers that have started
\* are blocked.
LEMMA BlockKeeps ==
    ASSUME Counting, IInv, Block
    PROVE  IInv'
<1>1. step = "full" /\ ~exiting /\ target \in Started /\ ~worker[target].blocked /\ sockets # {}
  BY Zenon DEF Block, IInv, CallSound, Typed
<1>2. PICK w \in Workers : w = target
  BY <1>1, StartedIs, Zenon
<1>3. PICK x : x = worker[w]
  OBVIOUS
<1>4. PICK rs \in Seq(Replies) : rs = channel[w].replies
  BY DEF IInv, Typed, ChannelRec
<1>5. PICK z : z = Received(x, rs)
  OBVIOUS
<1>6. PICK y : y = [z EXCEPT !.blocked = TRUE]
  BY Zenon
<1>7. IsWorker(x) /\ DOMAIN worker = Workers
  BY <1>3, Zenon DEF IInv, Typed
<1>8. /\ worker' = [worker EXCEPT ![w] = y] /\ channel' = [channel EXCEPT ![w].replies = << >>]
      /\ num_blocked' = num_blocked + 1
      /\ UNCHANGED <<workers, num_workers, sockets, exiting, acked>>
  <2>1. UNCHANGED <<workers, num_workers, sockets, exiting, acked>>
    BY Zenon DEF Block, exitVars
  <2>2. worker' = [worker EXCEPT ![w] = [Received(worker[w], channel[w].replies) EXCEPT !.blocked = TRUE]]
    BY <1>2, <1>7 DEF Block
  <2>3. channel' = [channel EXCEPT ![w].replies = << >>] /\ num_blocked' = num_blocked + 1
    BY <1>2, Zenon DEF Block
  <2> QED
    BY <1>3, <1>4, <1>5, <1>6, <2>1, <2>2, <2>3, Zenon
<1>9. IsWorker(z) /\ z.in = x.in /\ z.out = x.out + Len(rs)
  BY <1>5, <1>7, ReceivedFields, Zenon
<1>10. IsWorker(y) /\ y.in = z.in /\ y.out = z.out /\ y.blocked
  BY <1>6, <1>9 DEF IsWorker
<1>11. /\ DOMAIN worker' = Workers /\ channel' \in [Workers -> ChannelRec] /\ worker'[w] = y
       /\ \A v \in Workers : v # w => worker'[v] = worker[v]
       /\ \A v \in Workers : IsWorker(worker'[v]) /\ Covered(v)' /\ worker'[v].in = worker[v].in
  BY <1>3, <1>4, <1>8, <1>9, <1>10, RepliesRead, Zenon
<1>12. ArraySound' /\ Started' = Started
  BY <1>8, ArrayKept, Zenon DEF IInv
<1>13. Blocked' = Blocked \cup {w} /\ w \notin Blocked /\ Blocked' \subseteq Started
  BY <1>1, <1>2, <1>10, <1>11, Zenon DEF Blocked, IInv, BlockedSound
<1>14. num_blocked' = Cardinality(Blocked')
  BY <1>8, <1>13, CountAdd, StartedIs DEF IInv, BlockedSound
<1>15. packets \in Nat /\ Sent = packets - 1 /\ dropped \in Nat /\ dropped <= Sent
  BY <1>1 DEF IInv, Typed, Sent, Limits
<1>16. \A v \in Workers : worker'[v].in <= packets - 1 /\ worker'[v].in \in Nat
  BY <1>11, <1>15, Zenon DEF IInv, Limits, IsWorker
<1>17. CASE num_blocked' = num_workers
  <2>1. /\ step' = "idle" /\ target' = NULL /\ dropped' = dropped + 1 /\ packets' = packets
        /\ suspended' = TRUE /\ paused' = IF suspended THEN paused ELSE sockets
    BY <1>17, Zenon DEF Block, Drop
  <2>2. Blocked' = Started
    <3>1. num_workers = Cardinality(Started)
      BY <1>1, Places, Zenon
    <3>2. PICK B \in SUBSET Started : B = Blocked'
      BY <1>13, Zenon
    <3>3. Cardinality(B) = Cardinality(Started)
      BY <1>14, <1>17, <3>1, <3>2, Zenon
    <3> QED
      BY <3>2, <3>3, StartedIs, Zenon DEF Counting
  <2>3. Sent' = packets /\ dropped' \in Nat /\ dropped' <= Sent'
    BY <1>15, <2>1 DEF Sent
  <2>4. \A v \in Workers : worker'[v].in <= Sent'
    BY <1>15, <1>16, <2>3
  <2>5. Typed' /\ CallSound'
    BY <1>1, <1>8, <1>11, <2>1, <2>3, Zenon DEF IInv, Typed, CallSound
  <2>6. BlockedSound'
    BY <1>1, <1>8, <1>12, <1>14, <2>1, <2>2, Zenon DEF BlockedSound
  <2> QED
    BY <1>11, <1>12, <2>3, <2>4, <2>5, <2>6, Zenon DEF IInv, Limits
<1>18. CASE num_blocked' # num_workers
  <2>1. step' = "choose" /\ target' = NULL /\ UNCHANGED <<packets, dropped, suspended, paused>>
    BY <1>18, Zenon DEF Block
  <2>2. Sent' = packets - 1
    BY <2>1 DEF Sent
  <2>3. Typed' /\ CallSound'
    BY <1>1, <1>8, <1>11, <2>1, Zenon DEF IInv, Typed, CallSound
  <2>4. ~suspended
    BY <1>1, <1>2, <1>13, Zenon DEF IInv, BlockedSound
  <2>5. BlockedSound'
    BY <1>8, <1>12, <1>13, <1>14, <2>1, <2>4, Zenon DEF IInv, BlockedSound
  <2>6. Limits'
    BY <1>11, <1>15, <1>16, <2>1, <2>2, Zenon DEF Limits
  <2> QED
    BY <1>12, <2>3, <2>5, <2>6, Zenon DEF IInv
<1> QED
  BY <1>17, <1>18, Zenon

-----------------------------------------------------------------------------
(* The invariant *)

LEMMA InitIInv ==
    ASSUME Counting, Init
    PROVE  IInv
<1>1. Started = {} /\ Blocked = {}
  <2>1. \A i \in Slots : workers[i] = NULL
    BY Zenon DEF Init
  <2>2. \A w \in Workers : worker[w].blocked = FALSE
    BY DEF Init, NewWorker
  <2> QED
    BY <2>1, <2>2, DispatchAssumption, Zenon DEF Started, Blocked
<1>2. Cardinality({}) = 0
  <2>1. {} \in SUBSET Workers
    BY Zenon
  <2> QED
    BY <2>1, Zenon DEF Counting
<1>3. NewChannel \in ChannelRec /\ Owed(NewChannel) = 0
  <2>1. PICK rs \in Seq(Replies) : rs = << >>
    <3>1. << >> \in Seq(Replies)
      OBVIOUS
    <3> QED
      BY <3>1, Zenon
  <2>2. Len(rs) = 0
    BY <2>1
  <2>3. PICK c : c = [queue |-> 0, held |-> 0, replies |-> rs, spent |-> 0]
    BY Zenon
  <2>4. c \in ChannelRec /\ c.queue = 0 /\ c.held = 0 /\ c.replies = rs
    BY <2>3, DispatchAssumption DEF ChannelRec
  <2>5. c = NewChannel
    BY <2>1, <2>3, Zenon DEF NewChannel
  <2>6. Owed(c) = 0 + 0 + 0
    BY <2>2, <2>4, Zenon DEF Owed
  <2> QED
    BY <2>4, <2>5, <2>6
<1>4. IsWorker(NewWorker) /\ NewWorker.in = 0 /\ NewWorker.out = 0
  BY DEF IsWorker, NewWorker
<1>5. /\ DOMAIN worker = Workers /\ \A w \in Workers : worker[w] = NewWorker /\ channel[w] = NewChannel
      /\ channel \in [Workers -> ChannelRec]
  BY <1>3, Zenon DEF Init
<1>6. Typed
  <2>1. workers \in [Slots -> Workers \cup {NULL, Torn}]
    BY Zenon DEF Init
  <2>2. packets \in 0 .. MaxPackets /\ dropped \in Nat /\ num_workers \in Nat
    BY DispatchAssumption DEF Init
  <2> QED
    BY <1>4, <1>5, <2>1, <2>2, Zenon DEF Init, Typed
<1>7. ArraySound
  <2>1. num_workers = Cardinality(Started \ acked)
    <3>1. Started \ acked = {}
      BY <1>1, Zenon
    <3> QED
      BY <1>2, <3>1, Zenon DEF Init
  <2>2. \A i \in Slots : workers[i] = NULL /\ ~(i < num_workers)
    BY DEF Init, Slots
  <2> QED
    BY <2>1, <2>2, DispatchAssumption, Zenon DEF Init, ArraySound
<1>8. CallSound
  BY DEF Init, CallSound
<1>9. BlockedSound
  BY <1>1, <1>2, Zenon DEF Init, BlockedSound
<1>10. Limits
  <2>1. Sent = 0 /\ dropped <= Sent
    BY DEF Init, Sent
  <2>2. NewWorker.in - NewWorker.out >= Owed(NewChannel) /\ NewWorker.in <= Sent
    BY <1>3, <1>4, <2>1
  <2> QED
    BY <1>5, <2>1, <2>2, Zenon DEF Limits, Covered
<1> QED
  BY <1>6, <1>7, <1>8, <1>9, <1>10, Zenon DEF IInv

LEMMA NextIInv ==
    ASSUME Counting, IInv, [Next]_vars
    PROVE  IInv'
<1>1. ASSUME NEW w \in Workers, WorkerStarted(w) \/ ReadReplies(w) \/ CloseAcked(w)
      PROVE  IInv'
  BY <1>1, WorkerStartedKeeps, ReadRepliesKeeps, CloseAckedKeeps, Zenon
<1>2. ASSUME NEW w \in Workers, WorkerReads(w) \/ WorkerReplies(w) \/ WorkerNullReply(w)
      PROVE  IInv'
  BY <1>2, WorkerStepKeeps, Zenon
<1>3. ASSUME NEW s \in Sockets, Listen(s)
      PROVE  IInv'
  BY <1>3, ListenKeeps, Zenon
<1>4. CASE Read \/ NoChoice \/ TooMany \/ Send
  BY <1>4, ReadKeeps, DropKeeps, SendKeeps, Zenon
<1>5. CASE QueueFull \/ Block \/ Destroy
  BY <1>5, QueueFullKeeps, BlockKeeps, DestroyKeeps, Zenon
<1>6. CASE UNCHANGED vars
  <2>1. UNCHANGED <<workers, num_workers, num_blocked, worker, suspended, sockets, paused, step, target,
                    packets, dropped, exiting, acked, channel>>
    BY <1>6, Zenon DEF vars, networkVars, socketVars, callVars, exitVars
  <2>2. ArraySound' /\ Started' = Started /\ Blocked' = Blocked
    BY <2>1, ArrayKept, Zenon DEF IInv, Blocked
  <2> QED
    BY <2>1, <2>2, Zenon DEF IInv, Typed, CallSound, BlockedSound, Limits, Sent, Covered
<1> QED
  BY <1>1, <1>2, <1>3, <1>4, <1>5, <1>6, Zenon DEF Next

LEMMA IInvImplies ==
    ASSUME Counting, IInv
    PROVE  WorkersAccounted
<1>1. /\ num_workers \in 0 .. Cardinality(Workers) /\ num_blocked \in 0 .. Cardinality(Workers)
      /\ ~exiting => Active = Started
  BY Places, Zenon
<1>2. packets \in Nat /\ MaxPackets \in Nat /\ packets <= MaxPackets /\ dropped \in Nat
  BY DispatchAssumption DEF IInv, Typed
<1>3. Sent \in Int /\ Sent <= packets
  BY <1>2 DEF Sent
<1>4. dropped \in 0 .. packets
  <2>1. dropped <= Sent
    BY Zenon DEF IInv, Limits
  <2> QED
    BY <1>2, <1>3, <2>1
<1>5. ASSUME NEW w \in Workers
      PROVE  channel[w].queue \in 0 .. AqSize /\ channel[w].held \in 0 .. MaxPackets
  <2>1. PICK d \in ChannelRec : d = channel[w]
    BY DEF IInv, Typed
  <2>2. PICK q \in Nat, h \in Nat, l \in Nat : q = d.queue /\ h = d.held /\ l = Len(d.replies)
    BY ChannelFields, Zenon
  <2>3. PICK i \in Nat, o \in Nat : i = worker[w].in /\ o = worker[w].out
    BY Zenon DEF IInv, Typed, IsWorker
  <2>4. i - o >= q + h + l /\ i <= Sent
    BY <2>1, <2>2, <2>3, Zenon DEF IInv, Limits, Covered, Owed
  <2>5. h \in 0 .. MaxPackets
    BY <1>2, <1>3, <2>4
  <2> QED
    BY <2>1, <2>2, <2>5, ChannelFields, Zenon
<1>6. TypeOK
  BY <1>1, <1>4, <1>5, Zenon DEF IInv, Typed, TypeOK
<1>7. \A w \in Workers : LET c == channel[w]
                         IN  worker[w].in - worker[w].out >= c.queue + c.held + Len(c.replies)
  BY Zenon DEF IInv, Limits, Covered, Owed
<1> QED
  BY <1>1, <1>6, <1>7, Zenon DEF WorkersAccounted, IInv, BlockedSound

Sets == INSTANCE FiniteSetTheorems

LEMMA SameCardinality ==
    ASSUME NEW S
    PROVE  Sets!Cardinality(S) = Cardinality(S) /\ (Sets!IsFiniteSet(S) <=> IsFiniteSet(S))
BY Zenon DEF Cardinality, Sets!Cardinality, IsFiniteSet, Sets!IsFiniteSet

LEMMA CountingHolds == Counting
<1> SUFFICES ASSUME NEW S \in SUBSET Workers
             PROVE  /\ Cardinality(S) \in Nat /\ Cardinality(S) <= Cardinality(Workers)
                    /\ Cardinality(S) = 0 <=> S = {}
                    /\ \A T \in SUBSET S : Cardinality(T) = Cardinality(S) => T = S
                    /\ \A x \in Workers : /\ x \notin S => Cardinality(S \cup {x}) = Cardinality(S) + 1
                                         /\ x \in S => Cardinality(S \ {x}) = Cardinality(S) - 1
  BY Zenon DEF Counting
<1>1. Sets!IsFiniteSet(Workers)
  BY DispatchAssumption, SameCardinality, Zenon
<1>2. Sets!IsFiniteSet(S) /\ Sets!Cardinality(S) <= Sets!Cardinality(Workers)
  BY <1>1, Sets!FS_Subset, Zenon
<1>3. Sets!Cardinality(S) \in Nat
  BY <1>2, Sets!FS_CardinalityType, Zenon
<1>4. Sets!Cardinality(S) = 0 <=> S = {}
  BY <1>2, Sets!FS_EmptySet, Zenon
<1>5. ASSUME NEW T \in SUBSET S, Sets!Cardinality(T) = Sets!Cardinality(S)
      PROVE  T = S
  BY <1>2, <1>5, Sets!FS_Subset, Zenon
<1>6. ASSUME NEW x, x \notin S
      PROVE  Sets!Cardinality(S \cup {x}) = Sets!Cardinality(S) + 1
  BY <1>2, <1>6, Sets!FS_AddElement, Zenon
<1>7. ASSUME NEW x \in S
      PROVE  Sets!Cardinality(S \ {x}) = Sets!Cardinality(S) - 1
  BY <1>2, <1>7, Sets!FS_RemoveElement, Zenon
<1>8. \A T \in SUBSET S : Cardinality(T) = Cardinality(S) => T = S
  BY <1>5, SameCardinality, Zenon
<1>9. \A x \in Workers : /\ x \notin S => Cardinality(S \cup {x}) = Cardinality(S) + 1
                         /\ x \in S => Cardinality(S \ {x}) = Cardinality(S) - 1
  BY <1>6, <1>7, SameCardinality, Zenon
<1>10. Cardinality(S) \in Nat /\ Cardinality(S) <= Cardinality(Workers) /\ (Cardinality(S) = 0 <=> S = {})
  BY <1>2, <1>3, <1>4, SameCardinality, Zenon
<1> QED
  BY <1>8, <1>9, <1>10, Zenon

\* num_blocked, which fr_network_send_request and fr_network_recv_reply of
\* network.c keep by hand, always counts the workers with the flag set; the
\* sockets are suspended only while every worker of the array is blocked; and
\* stats.in - stats.out, to which max_outstanding is compared, covers all that
\* a worker has queued, holds or has answered.
THEOREM WorkersInvariant == Spec => []WorkersAccounted
<1>1. Init => IInv
  BY CountingHolds, InitIInv, Zenon
<1>2. IInv /\ [Next]_vars => IInv'
  BY CountingHolds, NextIInv, Zenon
<1>3. IInv => WorkersAccounted
  BY CountingHolds, IInvImplies, Zenon
<1> QED
  BY <1>1, <1>2, <1>3, PTL DEF Spec

=============================================================================
