------------------------------ MODULE Dispatch ------------------------------
(***************************************************************************)
(* How a network thread spreads packets over its workers: the array of     *)
(* workers of src/lib/io/network.c, the choice made for every packet, the  *)
(* blocking of workers that do not read their queue, the suspension of the *)
(* sockets, and the orderly exit.                                          *)
(*                                                                         *)
(* A channel (Channel) is reduced to what is counted here: requests in its *)
(* queue, requests its worker holds, and queued replies.  Signals are left *)
(* out: Channel shows that what is queued is read.  A worker may also end  *)
(* a request without a reply (fr_channel_null_reply), and a full queue     *)
(* refuses a reply.                                                        *)
(***************************************************************************)
EXTENDS Integers, Sequences, FiniteSetsExt

CONSTANTS
    Workers,        \* worker threads
    Sockets,        \* listeners
    NULL,           \* an empty place in the array, no packet in hand
    Torn,           \* a pointer of which only some bytes were written
    AqSize,         \* entries of each atomic queue
    MaxOutstanding, \* config.max_outstanding; 0 is no limit
    Times,          \* processing times of a request
    MaxPackets      \* bound: packets read from the sockets

ASSUME DispatchAssumption ==
    /\ IsFiniteSet(Workers) /\ AqSize \in Nat \ {0} /\ MaxOutstanding \in Nat
    /\ Times \subseteq Nat /\ MaxPackets \in Nat
    /\ NULL \notin Workers /\ Torn \notin Workers /\ NULL # Torn

VARIABLES
    workers,        \* the array, from 0
    num_workers,
    num_blocked,
    worker,         \* fr_network_worker_t of every worker
    sockets,        \* open sockets
    paused,         \* sockets whose read callback is suspended
    suspended,
    step,           \* where fr_network_send_request is
    target,         \* the worker it has chosen
    exiting,        \* fr_network_destroy has run
    acked,          \* workers that have acknowledged the close
    channel,        \* per worker: queue, held, replies, and CPU time spent
    packets,        \* packets read
    dropped         \* packets given up

networkVars == <<workers, num_workers, num_blocked, worker, suspended>>
socketVars == <<sockets, paused>>
callVars == <<step, target, packets, dropped>>
exitVars == <<exiting, acked>>
vars == <<networkVars, socketVars, callVars, exitVars, channel>>

Slots == 0 .. Cardinality(Workers) - 1

NewWorker == [blocked |-> FALSE, cpu_time |-> 0, predicted |-> 0, in |-> 0, out |-> 0]
NewChannel == [queue |-> 0, held |-> 0, replies |-> << >>, spent |-> 0]

Init ==
    /\ workers = [i \in Slots |-> NULL] /\ num_workers = 0 /\ num_blocked = 0
    /\ worker = [w \in Workers |-> NewWorker]
    /\ sockets = {} /\ paused = {} /\ suspended = FALSE
    /\ step = "idle" /\ target = NULL
    /\ exiting = FALSE /\ acked = {}
    /\ channel = [w \in Workers |-> NewChannel]
    /\ packets = 0 /\ dropped = 0

Started == {w \in Workers : \E i \in Slots : workers[i] = w}

-----------------------------------------------------------------------------
(* Workers and sockets come *)

\* fr_network_worker_started_callback.  The scheduler waits for its workers
\* before it opens a socket.
WorkerStarted(w) ==
    /\ w \notin Started /\ sockets = {} /\ ~exiting
    /\ workers' = [workers EXCEPT ![Min({i \in Slots : workers[i] = NULL})] = w]
    /\ num_workers' = num_workers + 1
    /\ UNCHANGED <<num_blocked, worker, suspended, socketVars, callVars, exitVars, channel>>

\* fr_network_listen_callback: a new socket is read even while suspended.
Listen(s) ==
    /\ num_workers > 0 /\ ~exiting /\ step = "idle"
    /\ s \notin sockets
    /\ sockets' = sockets \cup {s}
    /\ UNCHANGED <<networkVars, paused, callVars, exitVars, channel>>

-----------------------------------------------------------------------------
(* A packet is sent to the best worker *)

\* fr_network_read has a packet for fr_network_send_request.
Read ==
    /\ step = "idle"
    /\ packets < MaxPackets
    /\ sockets \ paused # {}
    /\ step' = "choose"
    /\ packets' = packets + 1
    /\ UNCHANGED <<networkVars, socketVars, target, dropped, exitVars, channel>>

Blocked == {w \in Workers : worker[w].blocked}

\* The type of cpu_time is signed: ~((fr_time_t) 0) is no upper limit.
NoLimit == -1

\* The workers the code may choose.  With blocked workers about, the loop
\* keeps the last one that passes its test.
Candidates ==
    LET at(i) == worker[workers[i]]
        all == 0 .. num_workers - 1
        found == {i \in all : ~at(i).blocked /\ at(i).cpu_time < NoLimit}
        pairs == {pair \in all \X all : pair[1] # pair[2]}
    IN  CASE num_workers = 1 -> {w \in {workers[0]} : ~worker[w].blocked}
          [] num_workers # 1 /\ num_blocked = 0 ->
                {workers[IF at(pair[1]).cpu_time < at(pair[2]).cpu_time THEN pair[1] ELSE pair[2]] : pair \in pairs}
          [] OTHER -> {workers[i] : i \in {i \in found : \A j \in found : j <= i}}

\* The limit on the packets of one worker.
AtLimit(w) == MaxOutstanding # 0 /\ worker[w].in - worker[w].out >= MaxOutstanding

Drop ==
    /\ step' = "idle" /\ target' = NULL
    /\ dropped' = dropped + 1
    /\ UNCHANGED packets

\* No worker to choose: the packet is dropped.
NoChoice ==
    /\ step = "choose"
    /\ Candidates = {}
    /\ Drop
    /\ UNCHANGED <<networkVars, socketVars, exitVars, channel>>

\* The chosen worker has too many packets outstanding: drop.
TooMany ==
    /\ step = "choose"
    /\ \E w \in Candidates : AtLimit(w)
    /\ Drop
    /\ UNCHANGED <<networkVars, socketVars, exitVars, channel>>

\* fr_channel_send_request takes the packet.
Send ==
    /\ step = "choose"
    /\ \E w \in Candidates :
         /\ ~AtLimit(w) /\ channel[w].queue < AqSize
         /\ channel' = [channel EXCEPT ![w].queue = @ + 1]
         /\ worker' = [worker EXCEPT ![w].in = @ + 1, ![w].cpu_time = @ + worker[w].predicted]
    /\ step' = "idle"
    /\ UNCHANGED <<workers, num_workers, num_blocked, suspended, socketVars, target, packets, dropped, exitVars>>

\* The queue is full: what the worker does from here on is seen below.
QueueFull ==
    /\ step = "choose"
    /\ \E w \in Candidates : ~AtLimit(w) /\ channel[w].queue = AqSize /\ target' = w
    /\ step' = "full"
    /\ UNCHANGED <<networkVars, socketVars, packets, dropped, exitVars, channel>>

\* The macro RTT
Rtt(old, new) == (new + 7 * old) \div 8

\* Variant of Received: the worker stays blocked.
ReceivedBlocked(info, rs) ==
    IF rs = << >> THEN info
    ELSE [info EXCEPT !.out = @ + Len(rs), !.cpu_time = rs[Len(rs)].cpu_time]

\* The processing time that is expected of the next request.
Predicted(old, rs) ==
    LET after[n \in 0 .. Len(rs)] ==
          IF n = 0 THEN old
          ELSE IF after[n - 1] = 0 THEN rs[n].time ELSE Rtt(after[n - 1], rs[n].time)
    IN  after[Len(rs)]

\* fr_network_recv_reply for the replies rs of a worker.
Received(info, rs) ==
    IF rs = << >> THEN info
    ELSE [blocked |-> FALSE, cpu_time |-> rs[Len(rs)].cpu_time, predicted |-> Predicted(info.predicted, rs),
          in |-> info.in, out |-> info.out + Len(rs)]

\* Reading replies unblocks the worker; fr_network_unsuspend resumes the sockets.
Unblocks(w) == worker[w].blocked /\ channel[w].replies # << >>

\* Variant of ReadReplies: the counter is not decremented.
ReadRepliesUncounted(w) ==
    /\ step = "idle" /\ num_workers > 0
    /\ channel[w].replies # << >>
    /\ channel' = [channel EXCEPT ![w].replies = << >>]
    /\ worker' = [worker EXCEPT ![w] = Received(@, channel[w].replies)]
    /\ suspended' = (suspended /\ ~Unblocks(w))
    /\ paused' = IF suspended /\ Unblocks(w) THEN {} ELSE paused
    /\ UNCHANGED <<workers, num_workers, num_blocked, sockets, callVars, exitVars>>

\* while (fr_channel_recv_reply(ch)), called for the signal that data is ready.
ReadReplies(w) ==
    /\ step = "idle" /\ num_workers > 0
    /\ channel[w].replies # << >>
    /\ channel' = [channel EXCEPT ![w].replies = << >>]
    /\ worker' = [worker EXCEPT ![w] = Received(@, channel[w].replies)]
    /\ num_blocked' = IF Unblocks(w) THEN num_blocked - 1 ELSE num_blocked
    /\ suspended' = (suspended /\ ~Unblocks(w))
    /\ paused' = IF suspended /\ Unblocks(w) THEN {} ELSE paused
    /\ UNCHANGED <<workers, num_workers, sockets, callVars, exitVars>>

\* The failed send reads the replies, then the worker is marked as blocked.
\* When all workers are, the sockets are suspended; else another is tried.
Block ==
    /\ step = "full"
    /\ channel' = [channel EXCEPT ![target].replies = << >>]
    /\ worker' = [worker EXCEPT ![target] = [Received(@, channel[target].replies) EXCEPT !.blocked = TRUE]]
    /\ num_blocked' = num_blocked + 1
    /\ IF num_blocked' = num_workers
       THEN Drop /\ suspended' = TRUE /\ paused' = IF suspended THEN paused ELSE sockets
       ELSE step' = "choose" /\ target' = NULL /\ UNCHANGED <<packets, dropped, suspended, paused>>
    /\ UNCHANGED <<workers, num_workers, sockets, exitVars>>

-----------------------------------------------------------------------------
(* The exit *)

\* fr_network_destroy: the sockets are freed and the workers told to close.
Destroy ==
    /\ step = "idle" /\ ~exiting /\ num_workers > 0
    /\ exiting' = TRUE
    /\ sockets' = {} /\ paused' = {}
    /\ UNCHANGED <<networkVars, callVars, acked, channel>>

\* Variant of CloseAcked: only a worker that is found is counted.
CloseAckedFound(w) ==
    /\ exiting /\ w \in Started \ acked
    /\ acked' = acked \cup {w}
    /\ LET at == {i \in 0 .. num_workers - 1 : workers[i] = w}
       IN  IF at = {} THEN UNCHANGED <<workers, num_workers>>
           ELSE workers' = [workers EXCEPT ![Min(at)] = NULL] /\ num_workers' = num_workers - 1
    /\ UNCHANGED <<num_blocked, worker, suspended, socketVars, callVars, exiting, channel>>

\* FR_CHANNEL_CLOSE: memcpy moves as many bytes as there are workers behind
\* the hole, which is part of one pointer and may or may not be zero.
CloseAcked(w) ==
    /\ exiting /\ w \in Started \ acked
    /\ acked' = acked \cup {w}
    /\ LET at == {i \in 0 .. num_workers - 1 : workers[i] = w}
       IN  IF at = {} THEN UNCHANGED workers
           ELSE \E p \in IF num_workers - 1 \in at THEN {NULL} ELSE {NULL, Torn} :
                   workers' = [workers EXCEPT ![Min(at)] = p]
    /\ num_workers' = num_workers - 1
    /\ UNCHANGED <<num_blocked, worker, suspended, socketVars, callVars, exiting, channel>>

-----------------------------------------------------------------------------
(* The workers, as far as they are seen here *)

WorkerReads(w) ==
    /\ channel[w].queue > 0 /\ w \notin acked
    /\ channel' = [channel EXCEPT ![w].queue = @ - 1, ![w].held = @ + 1]
    /\ UNCHANGED <<networkVars, socketVars, callVars, exitVars>>

\* worker_send_reply; the reply has the CPU time the worker has used so far.
WorkerReplies(w) ==
    /\ channel[w].held > 0 /\ w \notin acked
    /\ \E t \in Times :
         LET c == channel[w]
             reply == [cpu_time |-> c.spent + t, time |-> t]
         IN  channel' = [channel EXCEPT ![w] =
                 [c EXCEPT !.held = @ - 1, !.spent = @ + t,
                           !.replies = IF Len(@) < AqSize THEN Append(@, reply) ELSE @]]
    /\ UNCHANGED <<networkVars, socketVars, callVars, exitVars>>

\* fr_channel_null_reply
WorkerNullReply(w) ==
    /\ channel[w].held > 0 /\ w \notin acked
    /\ channel' = [channel EXCEPT ![w].held = @ - 1]
    /\ UNCHANGED <<networkVars, socketVars, callVars, exitVars>>

Next ==
    \/ \E w \in Workers : WorkerStarted(w) \/ ReadReplies(w) \/ CloseAcked(w)
    \/ \E w \in Workers : WorkerReads(w) \/ WorkerReplies(w) \/ WorkerNullReply(w)
    \/ \E s \in Sockets : Listen(s)
    \/ Read \/ NoChoice \/ TooMany \/ Send \/ QueueFull \/ Block \/ Destroy

Spec == Init /\ [][Next]_vars

\* The network thread finishes a call and services its channels; the workers
\* read their queues and end their requests; a close is acknowledged.
FairSpec ==
    /\ Spec
    /\ WF_vars(NoChoice \/ TooMany \/ Send \/ QueueFull \/ Block)
    /\ \A w \in Workers :
         /\ WF_vars(ReadReplies(w)) /\ WF_vars(CloseAcked(w))
         /\ WF_vars(WorkerReads(w)) /\ WF_vars(WorkerReplies(w) \/ WorkerNullReply(w))

-----------------------------------------------------------------------------
(* Properties *)

Active == {workers[i] : i \in 0 .. num_workers - 1}

TypeOK ==
    /\ workers \in [Slots -> Workers \cup {NULL, Torn}]
    /\ num_workers \in 0 .. Cardinality(Workers) /\ num_blocked \in 0 .. Cardinality(Workers)
    /\ sockets \subseteq Sockets /\ paused \subseteq sockets
    /\ step \in {"idle", "choose", "full"} /\ target \in Workers \cup {NULL}
    /\ packets \in 0 .. MaxPackets /\ dropped \in 0 .. packets
    /\ \A w \in Workers : channel[w].queue \in 0 .. AqSize /\ channel[w].held \in 0 .. MaxPackets

\* num_blocked, kept by hand in two functions, is the number of workers whose
\* flag is set, whatever order failed sends and replies come in; the sockets
\* are suspended only while every worker is blocked, and a socket is paused
\* only while the network is suspended: one reply from any worker is enough to
\* read packets again.  fr_assert(worker->stats.in >= worker->stats.out) of
\* fr_network_send_request, and more: what a worker still owes is covered by the
\* difference, so that max_outstanding limits what it really holds.
WorkersAccounted ==
    /\ TypeOK
    /\ num_blocked = Cardinality(Blocked)
    /\ suspended /\ ~exiting => Active \subseteq Blocked
    /\ paused # {} => suspended
    /\ \A w \in Workers : LET c == channel[w]
                          IN  worker[w].in - worker[w].out >= c.queue + c.held + Len(c.replies)

\* Once a blocked worker has sent a reply it becomes available again, and the
\* sockets that were suspended for it are read.
BlockedUntilReply ==
    \A w \in Workers : worker[w].blocked /\ channel[w].replies # << >>
                         ~> exiting \/ (~worker[w].blocked /\ paused = {})

\* Once told to exit, the network counts its workers down to zero, which ends
\* the loop of fr_network.
NetworkExits == exiting ~> num_workers = 0

=============================================================================
