-------------------------------- MODULE Trunk --------------------------------
(***************************************************************************)
(* The trunk of src/src/lib/server/trunk.c: the connections a worker has   *)
(* to one server, the requests that wait for them or are on them, and the  *)
(* client that uses it, src/src/modules/rlm_radius/rlm_radius_udp.c.       *)
(*                                                                         *)
(* One thread runs all of this, and one call reaches far: a request that   *)
(* leaves a full connection makes it active, which moves other requests to *)
(* it and drains the backlog into it, which can fill it again.  The        *)
(* functions of the code call each other in a circle; here they are        *)
(* recursive operators from the trunk before the call to the trunk after   *)
(* it, and a handler of the event loop is one step.                        *)
(*                                                                         *)
(* The connections are those of module Connection, seen from the watchers: *)
(* no shutdown callback, I/O that always registers.  always_writable is    *)
(* false, start is zero.  A heap of more than two connections is taken to  *)
(* be sorted, and where a list has several members that the code could     *)
(* have in any order, any may be next.                                     *)
(***************************************************************************)
EXTENDS Naturals, Sequences, FiniteSets, SequencesExt

CONSTANTS
    Requests,       \* requests of the client, each enqueued once
    Conns,          \* places for trunk connections
    MaxConns, MinConns,       \* conf.max, conf.min
    Connecting,     \* conf.connecting
    Target, PerConn,\* conf.target_req_per_conn, conf.max_req_per_conn
    MaxUses,        \* conf.max_uses, 0 for no limit
    Confs,          \* the sets of settings that are tried
    NoConn,         \* the NULL pointer to a connection
    Disturbances    \* bound: failures, timeouts, expiries and cancellations

ASSUME TrunkAssumption ==
    /\ MaxConns \in Nat \ {0} /\ MinConns \in Nat /\ Connecting \in Nat \ {0}
    /\ Target \in Nat \ {0} /\ PerConn \in Nat \ {0}
    /\ MaxUses \in Nat /\ Disturbances \in Nat
    /\ NoConn \notin Conns /\ IsFiniteSet(Requests) /\ IsFiniteSet(Conns)
    /\ Requests \cap Conns = {}
    /\ Confs \subseteq SUBSET {"cancel_mux",         \* there is a request_cancel_mux
                               "delay",              \* a reconnection_delay
                               "lifetime",           \* conf.lifetime > 0
                               "backlog_on_failed",  \* conf.backlog_on_failed_conn
                               "status_check",       \* zombies are probed, not revived
                               "one_answer"}         \* num_answers_to_alive is 1

VARIABLES
    trunk,          \* the trunk, its connections, its requests and their clients
    conf,           \* the settings that are on
    left            \* disturbances still to come

vars == <<trunk, conf, left>>

(***************************************************************************)
(* The treq of the status check of a connection is named as the connection.*)
(***************************************************************************)
Treqs == Requests \cup Conns

OnConn == {"PENDING", "PARTIAL", "SENT", "CANCEL", "CANCEL_PARTIAL", "CANCEL_SENT"}
Cancelling == {"CANCEL", "CANCEL_PARTIAL", "CANCEL_SENT"}

Draining == {"INACTIVE_DRAINING", "DRAINING", "DRAINING_TO_FREE"}
Up == Draining \cup {"ACTIVE", "FULL", "INACTIVE"}
Serviceable == Up \ {"FULL"}

(***************************************************************************)
(* fr_trunk_alloc.  NONE is a place without a tconn.  active is the array  *)
(* of the heap; failed says that the last failure came after the last time *)
(* a connection connected, above that the trunk was above its target last. *)
(* zombie holds the connections that are being checked or will be revived, *)
(* tried the requests that went out over the connection they are on.       *)
(* client is what the owner of a request knows: it waits, it was told the  *)
(* result, or it gave up.  tripped names the assertion that failed.        *)
(***************************************************************************)
NewTrunk ==
    [conn |-> [c \in Conns |-> "NONE"], active |-> <<>>,
     list |-> [c \in Conns |-> [s \in OnConn |-> {}]],
     events |-> [c \in Conns |-> {}],
     sent_count |-> [c \in Conns |-> 0], lifetime_ev |-> {}, zombie |-> {}, tried |-> {},
     to_free |-> {}, in_handler |-> FALSE, freeing |-> FALSE,
     req |-> [r \in Treqs |-> "INIT"], tconn |-> [r \in Treqs |-> NoConn],
     backlog |-> {}, failed |-> FALSE, above |-> TRUE, req_per_conn |-> 0,
     client |-> [r \in Requests |-> "new"], tripped |-> "no"]

Init ==
    /\ trunk = NewTrunk
    /\ conf \in Confs
    /\ left = Disturbances

-----------------------------------------------------------------------------
(* Counting                                                                *)

(* An assertion fails, or a BAD_STATE_TRANSITION: the process aborts.      *)
Trip(t, why) == IF t.tripped = "no" THEN [t EXCEPT !.tripped = why] ELSE t
Check(t, test, why) == IF test THEN t ELSE Trip(t, why)

InState(t, states) == {c \in Conns : t.conn[c] \in states}
On(t, c) == UNION {t.list[c][s] : s \in OnConn}
Count(t, c) == Cardinality(On(t, c))
Full(t, c) == Count(t, c) >= PerConn

(* The requests on all of some connections, each in one list.              *)
CountAll(t, cs) == Cardinality(UNION {On(t, c) : c \in cs})
HeapOrIn(t, states) == Range(t.active) \cup InState(t, states)

(* FR_TRUNK_CONN_ALL lacks INACTIVE_DRAINING, so that XOR adds it to the   *)
(* connections, and does not count the requests on them.                   *)
ConnCount(t) ==
    Cardinality(HeapOrIn(t, {"INIT", "CONNECTING", "CLOSED", "FULL", "INACTIVE",
                             "INACTIVE_DRAINING"}))
ReqCount(t) ==
    CountAll(t, HeapOrIn(t, {"FULL", "INACTIVE", "DRAINING"})) + Cardinality(t.backlog)

CeilDiv(a, b) == (a + b - 1) \div b
PerConnection(conns, reqs) == IF conns = 0 \/ reqs = 0 THEN 0 ELSE CeilDiv(reqs, conns)

(* Variant of Side: a trunk without connections is like any other.         *)
SideAlike(above, conns, reqs) ==
    CASE PerConnection(conns, reqs) > Target -> TRUE
      [] PerConnection(conns, reqs) < Target -> FALSE
      [] OTHER -> above

(* trunk_requests_per_connection: which side of the target came last.      *)
Side(above, conns, reqs) ==
    CASE conns = 0 -> above \/ reqs > 0
      [] conns > 0 /\ PerConnection(conns, reqs) > Target -> TRUE
      [] conns > 0 /\ PerConnection(conns, reqs) < Target -> FALSE
      [] OTHER -> above
Rated(t, conns, reqs) ==
    [t EXCEPT !.req_per_conn = IF t.freeing THEN 0 ELSE PerConnection(conns, reqs),
              !.above = IF t.freeing THEN @ ELSE Side(@, conns, reqs)]
Ratio(t) == Rated(t, ConnCount(t), ReqCount(t))

-----------------------------------------------------------------------------
(* A connection in the heap, its lists and its events                      *)

(* fr_heap_insert: in front of the connections that have no fewer requests.*)
HeapInsert(t, c) ==
    LET fewer == SelectSeq(t.active, LAMBDA d : Count(t, d) < Count(t, c))
    IN  [t EXCEPT !.active = fewer \o <<c>> \o
                             SelectSeq(@, LAMBDA d : Count(t, d) >= Count(t, c))]
HeapExtract(t, c) ==
    Check([t EXCEPT !.active = SelectSeq(@, LAMBDA d : d # c)], c \in Range(t.active), "heap")

(* CONN_REORDER *)
Reorder(t, c) ==
    IF Len(t.active) = 1 THEN t
    ELSE HeapInsert(HeapExtract(Check(t, t.conn[c] = "ACTIVE", "reorder"), c), c)

(* trunk_connection_remove and CONN_STATE_TRANSITION: out of its list, into  *)
(* another (or the heap, by the caller), and the ratio again.              *)
Leave(t, c) == IF t.conn[c] = "ACTIVE" THEN HeapExtract(t, c) ELSE t
MoveTo(t, c, state) == Ratio([Leave(t, c) EXCEPT !.conn[c] = state])

(* trunk_connection_event_update *)
Wanted(t, c) ==
    LET some(states) == \E s \in states : t.list[c][s] # {}
        mux(states) == IF "cancel_mux" \in conf THEN states ELSE {}
    IN  {e \in {"WRITE", "READ"} :
            /\ t.conn[c] \in Up
            /\ \/ e = "WRITE" /\ some({"PENDING", "PARTIAL"} \cup mux({"CANCEL", "CANCEL_PARTIAL"}))
               \/ e = "READ" /\ some({"SENT"} \cup mux({"CANCEL_SENT"}))}
EventUpdate(t, c) == [t EXCEPT !.events[c] = Wanted(t, c)]

(* trunk_connection_enter_full, _auto_full *)
EnterFull(t, c) ==
    IF t.conn[c] = "ACTIVE" THEN MoveTo(t, c, "FULL") ELSE Trip(t, "FULL")
AutoFull(t, c) == IF t.conn[c] = "ACTIVE" /\ Full(t, c) THEN EnterFull(t, c) ELSE t

(* trunk_connection_enter_inactive *)
EnterInactive(t, c) ==
    IF t.conn[c] \in {"ACTIVE", "FULL"} THEN MoveTo(t, c, "INACTIVE") ELSE Trip(t, "INACTIVE")

(* Out of the list of its state, and into the one of another state.        *)
Extract(t, r) ==
    [Check(t, r \in t.list[t.tconn[r]][t.req[r]], "extract")
        EXCEPT !.list[t.tconn[r]][t.req[r]] = @ \ {r}]
Shift(t, r, state) ==
    [Extract(t, r) EXCEPT !.list[t.tconn[r]][state] = @ \cup {r}, !.req[r] = state]

(* Variant of Free: the ratio stays as it was.                             *)
FreeStale(t, r) == [t EXCEPT !.req[r] = "INIT", !.tconn[r] = NoConn]

(* fr_trunk_request_free: the ratio is made again with the request gone.   *)
Free(t, r) == Ratio([t EXCEPT !.req[r] = "INIT", !.tconn[r] = NoConn])

(* request_complete or request_fail of the client: the request resumes.    *)
Tell(t, r) ==
    IF r \in Conns THEN t
    ELSE [Check(t, t.client[r] = "waiting", "told") EXCEPT !.client[r] = "told"]

-----------------------------------------------------------------------------
(* The circle of functions that move requests and connections              *)

RECURSIVE EnterActive(_, _)

(* Variant of Settle: a full connection stays full.                        *)
SettleFull(t, c) == IF t.conn[c] = "ACTIVE" THEN Reorder(t, c) ELSE t

(* trunk_request_remove_from_conn.  A connection that was full and is not  *)
(* becomes active at once, with what that brings.                          *)
ReorderUnlessFull(t, c) == IF t.conn[c] = "FULL" THEN t ELSE Reorder(t, c)
Settle(t, c) ==
    CASE t.conn[c] = "FULL" /\ ~Full(t, c) -> ReorderUnlessFull(EnterActive(t, c), c)
      [] t.conn[c] = "ACTIVE" -> Reorder(t, c)
      [] OTHER -> t
Forget(t, r) == [t EXCEPT !.tconn[r] = NoConn, !.tried = @ \ {r}]
RemoveFromConn(t, r) ==
    CASE t.req[r] = "UNASSIGNED" -> t
      [] t.req[r] \in OnConn ->
            EventUpdate(Forget(Settle(Extract(t, r), t.tconn[r]), r), t.tconn[r])
      [] OTHER -> Trip(t, "remove")

(* trunk_request_enter_unassigned *)
EnterUnassigned(t, r) ==
    [CASE t.req[r] = "BACKLOG" -> [t EXCEPT !.backlog = @ \ {r}]
       [] t.req[r] \in {"PENDING"} \cup Cancelling -> RemoveFromConn(t, r)
       [] t.req[r] = "UNASSIGNED" -> t
       [] OTHER -> Trip(t, "UNASSIGNED") EXCEPT !.req[r] = "UNASSIGNED"]

(* trunk_request_enter_cancel *)
EnterCancel(t, r) ==
    IF t.req[r] \in {"PARTIAL", "SENT"} THEN EventUpdate(Shift(t, r, "CANCEL"), t.tconn[r])
    ELSE Trip(t, "CANCEL")

(* trunk_request_enter_failed *)
EnterFailed(t, r) ==
    Free(Tell(IF t.req[r] = "BACKLOG" THEN [t EXCEPT !.backlog = @ \ {r}]
              ELSE RemoveFromConn(t, r), r), r)

(* trunk_request_enter_backlog.  That the manager is called is not shown:  *)
(* it may run at any time.                                                 *)
RatioIf(new, t) == IF new THEN Ratio(t) ELSE t
EnterBacklog(t, r, new) ==
    IF t.req[r] \in {"INIT", "UNASSIGNED"}
    THEN RatioIf(new, [t EXCEPT !.req[r] = "BACKLOG", !.backlog = @ \cup {r}])
    ELSE Trip(t, "BACKLOG")

(* Variant of Arrive: nobody asks to be told when the socket is writable.  *)
ArriveUnwatched(t, c) == IF t.conn[c] = "ACTIVE" THEN Reorder(t, c) ELSE t

(* trunk_request_enter_pending *)
Arrive(t, c) ==
    EventUpdate(IF t.conn[c] = "ACTIVE" THEN Reorder(t, c) ELSE t, c)
Took(t, r) ==
    CASE t.req[r] \in {"INIT", "UNASSIGNED"} -> Check(t, t.tconn[r] = NoConn, "PENDING")
      [] t.req[r] = "BACKLOG" -> [t EXCEPT !.backlog = @ \ {r}]
      [] t.req[r] = "CANCEL" -> Extract(t, r)
      [] OTHER -> Trip(t, "PENDING")
EnterPending(t, r, c, new) ==
    Arrive(AutoFull(RatioIf(new,
        [Took(Check(t, t.conn[c] \in Serviceable, "serviceable"), r)
            EXCEPT !.tconn[r] = c, !.req[r] = "PENDING", !.list[c]["PENDING"] = @ \cup {r}]), c), c)

(* trunk_request_check_enqueue.  The count leaves INACTIVE_DRAINING out.   *)
CheckEnqueue(t) ==
    CASE t.active # <<>> -> "OK"
      [] t.active = <<>> /\ t.failed /\ "backlog_on_failed" \notin conf -> "DST_UNAVAILABLE"
      [] t.active = <<>> /\ ~(t.failed /\ "backlog_on_failed" \notin conf) ->
            IF CountAll(t, InState(t, Up \ {"ACTIVE", "INACTIVE_DRAINING"}))
                 + Cardinality(t.backlog) >= MaxConns * PerConn
            THEN "NO_CAPACITY" ELSE "IN_BACKLOG"

(* trunk_connection_requests_dequeue: the requests in these states leave   *)
(* the connection, at most max of them.  The result is a pair of the trunk *)
(* and the requests.                                                       *)
Detach(t, r) ==
    EnterUnassigned(IF t.req[r] \in {"PARTIAL", "SENT"} THEN EnterCancel(t, r) ELSE t, r)
RECURSIVE Dequeue(_, _, _, _, _)
Dequeue(t, out, c, states, max) ==
    IF states = <<>> \/ Len(out) = max THEN <<t, out>>
    ELSE IF t.list[c][Head(states)] = {} THEN Dequeue(t, out, c, Tail(states), max)
    ELSE LET r == CHOOSE r \in t.list[c][Head(states)] : TRUE
         IN  Dequeue(Detach(t, r), Append(out, r), c, states, max)

(* trunk_connection_requests_requeue.  The connection is not in the heap   *)
(* while its requests are given to others.  Requests bound to it stay, or  *)
(* fail; those the client gave up are freed without a word.  The result is *)
(* a pair of the trunk and whether a request was moved.                    *)
Place(t, r, c, fail_bound) ==
    LET to == {d \in Conns : IF r \in Conns THEN d = c /\ ~fail_bound /\ t.conn[c] \in Serviceable
                             ELSE t.active # <<>> /\ d = Head(t.active)}
    IN  CASE to # {} -> EnterPending(t, r, CHOOSE d \in to : TRUE, FALSE)
          [] to = {} /\ r \notin Conns /\ CheckEnqueue(t) = "IN_BACKLOG" -> EnterBacklog(t, r, FALSE)
          [] OTHER -> EnterFailed(t, r)
RECURSIVE PlaceAll(_, _, _, _)
PlaceAll(t, out, c, fail_bound) ==
    IF out = <<>> THEN t
    ELSE PlaceAll(Place(t, Head(out), c, fail_bound), Tail(out), c, fail_bound)
RECURSIVE FreeAll(_, _)
FreeAll(t, out) == IF out = <<>> THEN t ELSE FreeAll(Free(t, Head(out)), Tail(out))

Back(t, c) == IF t.conn[c] = "ACTIVE" THEN HeapInsert(t, c) ELSE t
Redistribute(dequeued, c, fail_bound) ==
    Back(PlaceAll(Leave(dequeued[1], c), dequeued[2], c, fail_bound), c)
Discard(dequeued) == FreeAll(dequeued[1], dequeued[2])

NoMax == Cardinality(Treqs) + 1
RequeuePending(t, c, max) ==
    LET dequeued == Dequeue(t, <<>>, c, <<"PENDING">>, max)
    IN  <<Ratio(Redistribute(dequeued, c, FALSE)), dequeued[2] # <<>>>>
RequeueAll(t, c, fail_bound) ==
    Ratio(Discard(Dequeue(Redistribute(
        Dequeue(t, <<>>, c, <<"PENDING", "PARTIAL", "SENT">>, NoMax), c, fail_bound),
        <<>>, c, <<"CANCEL", "CANCEL_SENT", "CANCEL_PARTIAL">>, NoMax)))

(* trunk_rebalance: from the last of the heap, until the first changes.    *)
RECURSIVE RebalanceFrom(_, _)
RebalanceFrom(t, head) ==
    IF t.active = <<>> \/ Head(t.active) # head THEN t
    ELSE LET moved == RequeuePending(t, Last(t.active), 1)
         IN  IF moved[2] THEN RebalanceFrom(moved[1], head) ELSE moved[1]
Rebalance(t) ==
    IF Count(t, Last(t.active)) = Count(t, Head(t.active)) THEN t
    ELSE RebalanceFrom(t, Head(t.active))

(* trunk_backlog_drain *)
RECURSIVE BacklogDrain(_)
BacklogDrain(t) ==
    IF t.backlog = {} THEN t
    ELSE LET r == CHOOSE r \in t.backlog : TRUE
         IN  CASE CheckEnqueue(t) = "OK" -> BacklogDrain(EnterPending(t, r, Head(t.active), FALSE))
               [] CheckEnqueue(t) = "DST_UNAVAILABLE" -> BacklogDrain(EnterFailed(t, r))
               [] OTHER -> t

(* trunk_connection_enter_active *)
Activated(t, c) == Reorder(Ratio([HeapInsert(t, c) EXCEPT !.conn[c] = "ACTIVE"]), c)
EnterActive(t, c) ==
    IF t.conn[c] \in {"FULL", "INACTIVE", "INACTIVE_DRAINING", "DRAINING", "CONNECTING"}
    THEN BacklogDrain(Rebalance(Activated(
            Check(t, t.conn[c] = "CONNECTING" => Count(t, c) = 0, "ACTIVE"), c)))
    ELSE Trip(t, "ACTIVE")

(* trunk_connection_enter_draining, _inactive_draining, _draining_to_free  *)
EnterDrainingState(t, c, from, state) ==
    IF t.conn[c] \in from THEN RequeuePending(MoveTo(t, c, state), c, NoMax)[1]
    ELSE Trip(t, state)
EnterInactiveDraining(t, c) ==
    EnterDrainingState(t, c, {"INACTIVE", "DRAINING"}, "INACTIVE_DRAINING")
EnterDraining(t, c) ==
    EnterDrainingState(t, c, {"ACTIVE", "FULL", "INACTIVE", "INACTIVE_DRAINING"}, "DRAINING")
EnterDrainingToFree(t, c, caller) ==
    IF t.conn[c] = "DRAINING_TO_FREE" THEN Trip(t, caller)
    ELSE EnterDrainingState(t, c, Up, "DRAINING_TO_FREE")

-----------------------------------------------------------------------------
(* Requests that are sent, answered, cancelled or sent again               *)

(* trunk_request_enter_sent *)
EnterSent(t, r) ==
    LET c == t.tconn[r]
        sent == [Shift(t, r, "SENT") EXCEPT !.sent_count[c] = @ + 1]
    IN  EventUpdate(IF MaxUses > 0 /\ t.sent_count[c] + 1 >= MaxUses
                    THEN EnterDrainingToFree(sent, c, "max_uses") ELSE sent, c)

(* trunk_request_enter_partial *)
EnterPartial(t, r) ==
    Shift(Check(t, t.list[t.tconn[r]]["PARTIAL"] = {}, "PARTIAL"), r, "PARTIAL")

(* trunk_request_enter_complete *)
EnterComplete(t, r) == Free(Tell(RemoveFromConn(t, r), r), r)

(* fr_trunk_request_requeue *)
RequeueRequest(t, r) ==
    CASE t.tconn[r] = NoConn -> t
      [] t.tconn[r] # NoConn /\ t.conn[t.tconn[r]] \notin Serviceable -> EnterFailed(t, r)
      [] t.tconn[r] # NoConn /\ t.conn[t.tconn[r]] \in Serviceable ->
            IF t.req[r] = "PENDING" THEN t ELSE EnterPending(EnterCancel(t, r), r, t.tconn[r], FALSE)

(* Variant of SignalCancel: the request fails.                             *)
SignalCancelFails(t, r) ==
    CASE t.req[r] \in {"PARTIAL", "SENT"} /\ "cancel_mux" \in conf -> EnterCancel(t, r)
      [] t.req[r] \in Cancelling -> t
      [] OTHER -> EnterFailed(t, r)

(* fr_trunk_request_signal_cancel *)
SignalCancel(t, r) ==
    CASE t.req[r] \in {"PARTIAL", "SENT"} /\ "cancel_mux" \in conf -> EnterCancel(t, r)
      [] t.req[r] \in Cancelling -> t
      [] OTHER -> Free(Detach(t, r), r)

(* trunk_request_enter_cancel_partial, _cancel_sent, _cancel_complete *)
EnterCancelPartial(t, r) ==
    Shift(Check(t, t.list[t.tconn[r]]["PARTIAL"] = {}, "CANCEL_PARTIAL"), r, "CANCEL_PARTIAL")
EnterCancelSent(t, r) == EventUpdate(Shift(t, r, "CANCEL_SENT"), t.tconn[r])
EnterCancelComplete(t, r) == Free(RemoveFromConn(t, r), r)

(* fr_trunk_request_alloc: the limit on requests that are allocated.       *)
AllocLimit(t) == Cardinality({r \in Treqs : t.req[r] # "INIT"}) >= MaxConns * PerConn

(* fr_trunk_request_enqueue_on_conn, for a status check.  MEM exits when   *)
(* the limit of fr_trunk_request_alloc is reached.                         *)
EnqueueOnConn(t, c) ==
    IF AllocLimit(t) THEN Trip(t, "MEM") ELSE EnterPending(t, c, c, TRUE)

-----------------------------------------------------------------------------
(* What the watchers of the connection do                                  *)

(* _trunk_connection_on_closed.  The handle of the client goes with it.    *)
Closed(t, c) ==
    EventUpdate([Check(t, Count(t, c) = 0, "CLOSED") EXCEPT
        !.sent_count[c] = 0, !.lifetime_ev = @ \ {c}, !.zombie = @ \ {c}], c)
CloseUnused(t, c) ==
    IF t.conn[c] \in {"INIT", "CONNECTING"} THEN Closed(MoveTo(t, c, "CLOSED"), c)
    ELSE Trip(t, "CLOSED")
OnClosed(t, c) ==
    CASE t.conn[c] \in Up -> Closed(RequeueAll(MoveTo(t, c, "CLOSED"), c, TRUE), c)
      [] OTHER -> CloseUnused(t, c)

(* _trunk_connection_on_halted, _trunk_connection_free *)
Halted(t, c) ==
    IF t.in_handler THEN [t EXCEPT !.to_free = @ \cup {c}] ELSE [t EXCEPT !.conn[c] = "NONE"]
OnHalted(t, c) ==
    IF t.conn[c] \in {"INIT", "CLOSED"}
    THEN Halted(Check(MoveTo(t, c, "HALTED"), Count(t, c) = 0, "HALTED"), c)
    ELSE Trip(t, "HALTED")

(* _trunk_connection_on_failed.  Its test for draining the backlog compares*)
(* the state that was entered, FAILED, with CONNECTED: it never drains.    *)
OnFailed(t) == [t EXCEPT !.failed = TRUE]

(* _trunk_connection_on_connecting, _on_init *)
OnConnecting(t, c) ==
    IF t.conn[c] \in {"INIT", "CLOSED"}
    THEN Check(MoveTo(t, c, "CONNECTING"), Count(t, c) = 0, "CONNECTING")
    ELSE Trip(t, "CONNECTING")
OnInit(t, c) ==
    IF t.conn[c] \in {"HALTED", "CLOSED"} THEN MoveTo(t, c, "INIT") ELSE Trip(t, "INIT")

(* _trunk_connection_on_connected *)
OnConnected(t, c) ==
    EnterActive([Check(t, Count(t, c) = 0, "CONNECTED") EXCEPT
        !.failed = FALSE,
        !.lifetime_ev = IF "lifetime" \in conf THEN @ \cup {c} ELSE @], c)

(***************************************************************************)
(* The paths of module Connection through these watchers: a failure waits  *)
(* for the reconnection timer or, without one, halts; so does an init that *)
(* fails; shutdown without a callback, and halt, close and then halt.      *)
(***************************************************************************)
Delayed(t, c) == IF "delay" \in conf THEN t ELSE OnHalted(t, c)
Fail(t, c) == Delayed(OnClosed(OnFailed(t), c), c)
FailUnused(t, c) == Delayed(CloseUnused(OnFailed(t), c), c)
Halt(t, c) == OnHalted(IF t.conn[c] = "CLOSED" THEN t ELSE OnClosed(t, c), c)
Start(t, c, ok) ==
    IF ok THEN OnConnecting(OnInit(t, c), c)
    ELSE FailUnused(OnInit(t, c), c)

-----------------------------------------------------------------------------
(* The handlers of the event loop                                          *)

Running == trunk.tripped = "no" /\ ~trunk.freeing
Step(t) == /\ Running
           /\ UNCHANGED <<conf, left>>
           /\ trunk' = t
Disturb(t) == /\ Running /\ left > 0
              /\ left' = left - 1
              /\ UNCHANGED conf
              /\ trunk' = t

(* mod_enqueue, fr_trunk_request_enqueue.  A request that is refused once  *)
(* it is allocated is freed again, which makes the ratio again.            *)
Accepted(t, r) == [t EXCEPT !.client[r] = "waiting"]
Refused(t, r) == [t EXCEPT !.client[r] = "told"]
Enqueue(r) ==
    /\ trunk.client[r] = "new"
    /\ Step(CASE AllocLimit(trunk) -> Refused(trunk, r)
              [] ~AllocLimit(trunk) /\ CheckEnqueue(trunk) = "OK" ->
                    EnterPending(Accepted(trunk, r), r, Head(trunk.active), TRUE)
              [] ~AllocLimit(trunk) /\ CheckEnqueue(trunk) = "IN_BACKLOG" ->
                    EnterBacklog(Accepted(trunk, r), r, TRUE)
              [] OTHER -> Ratio(Refused(trunk, r)))

(***************************************************************************)
(* The connection is writable: trunk_connection_writable, and one request  *)
(* of request_mux.  A partial write comes back first, a status check next. *)
(* What sendmmsg did not take was marked sent and is put back.  That a     *)
(* status check cannot be encoded is left out, and that a packet is too    *)
(* large for the socket: request_mux goes on to use the treq it failed.    *)
(***************************************************************************)
Popped(c) ==
    LET list == trunk.list[c]
    IN  CASE list["PARTIAL"] # {} -> list["PARTIAL"]
          [] list["PARTIAL"] = {} /\ c \in list["PENDING"] -> {c}
          [] OTHER -> list["PENDING"]
MuxSent(c) ==
    \E r \in Popped(c) : Step([EnterSent(trunk, r) EXCEPT !.tried = @ \cup ({r} \cap Requests)])
MuxUnsent(c) == \E r \in Popped(c) : Disturb(RequeueRequest(EnterSent(trunk, r), r))
MuxPartial(c) ==
    \E r \in Popped(c) \cap Requests : trunk.req[r] = "PENDING" /\ Disturb(EnterPartial(trunk, r))
MuxFails(c) == \E r \in Popped(c) \cap Requests : Disturb(EnterFailed(trunk, r))

(* request_cancel_mux.  A message that is partly written is finished first. *)
PoppedCancel(c) ==
    LET list == trunk.list[c]
    IN  IF list["CANCEL_PARTIAL"] # {} THEN list["CANCEL_PARTIAL"] ELSE list["CANCEL"]
MuxCancelSent(c) == \E r \in PoppedCancel(c) : Step(EnterCancelSent(trunk, r))
MuxCancelPartial(c) ==
    \E r \in PoppedCancel(c) :
        /\ trunk.req[r] = "CANCEL" /\ trunk.list[c]["PARTIAL"] = {}
        /\ Disturb(EnterCancelPartial(trunk, r))

Writable(c) ==
    /\ "WRITE" \in trunk.events[c]
    /\ \/ MuxSent(c) \/ MuxUnsent(c) \/ MuxPartial(c) \/ MuxFails(c)
       \/ "cancel_mux" \in conf /\ (MuxCancelSent(c) \/ MuxCancelPartial(c))

(* fr_trunk_connection_signal_active, _inactive *)
SignalActive(t, c) ==
    CASE t.conn[c] \in {"FULL", "INACTIVE"} /\ ~Full(t, c) -> EnterActive(t, c)
      [] t.conn[c] = "INACTIVE" /\ Full(t, c) -> EnterFull(t, c)
      [] t.conn[c] = "INACTIVE_DRAINING" -> EnterDraining(t, c)
      [] OTHER -> t
SignalInactive(t, c) ==
    CASE t.conn[c] \in {"ACTIVE", "FULL"} -> EnterInactive(t, c)
      [] t.conn[c] = "DRAINING" -> EnterInactiveDraining(t, c)
      [] OTHER -> t

(***************************************************************************)
(* The connection is readable: request_demux.  The timer for another check *)
(* that status_check_reply sets after too few answers, and their number,   *)
(* are reset by request_conn_release before the same handler returns: with *)
(* more than one answer wanted, the first is the last there will be.       *)
(***************************************************************************)
Answer(c) == \E r \in trunk.list[c]["SENT"] \cap Requests : Step(EnterComplete(trunk, r))
Alive(t, c) == [t EXCEPT !.zombie = @ \ {c}]
StatusAnswer(c) ==
    /\ c \in trunk.list[c]["SENT"]
    /\ Step(EnterComplete(IF "one_answer" \in conf THEN SignalActive(Alive(trunk, c), c)
                          ELSE trunk, c))
CancelAcked(c) == \E r \in trunk.list[c]["CANCEL_SENT"] : Step(EnterCancelComplete(trunk, r))

Readable(c) ==
    /\ "READ" \in trunk.events[c]
    /\ Answer(c) \/ StatusAnswer(c) \/ CancelAcked(c)

(* check_for_zombie, from a timeout, a duplicate or before a write: since  *)
(* the connection was idle a packet was sent, which may be waiting to go   *)
(* out again, and no answer came for zombie_period.  A packet that went    *)
(* out over another connection first counts like any other.                *)
Inactive(t, c) ==
    IF t.conn[c] \in {"ACTIVE", "FULL", "INACTIVE"} THEN RequeueAll(t, c, FALSE) ELSE t
Probe(t, c) == IF "status_check" \in conf THEN EnqueueOnConn(t, c) ELSE t
Undead(t, c) == [t EXCEPT !.zombie = @ \cup {c}]
Zombie(c) ==
    /\ trunk.conn[c] \in Up /\ c \notin trunk.zombie
    /\ \E r \in trunk.tried : trunk.tconn[r] = c
    /\ Disturb(Probe(Inactive(SignalInactive(Undead(trunk, c), c), c), c))

(* revive_timer *)
Revive(c) ==
    /\ c \in trunk.zombie /\ "status_check" \notin conf
    /\ Step(Fail(trunk, c))

(* request_timeout, and a duplicate from the client: send it again, or the *)
(* last one, which for a status check means that the connection is dead.   *)
(* GiveUp is for the asynchronous mode, which has the timer.  A duplicate  *)
(* of a request in the backlog, whose NULL tconn mod_signal follows, is    *)
(* left out.                                                               *)
Retry(r) == trunk.req[r] = "SENT" /\ Disturb(RequeueRequest(trunk, r))
GiveUp(r) == trunk.req[r] = "SENT" /\ Step(EnterComplete(trunk, r))
StatusDead(c) ==
    /\ trunk.req[c] = "SENT"
    /\ Step(Fail(Alive(EnterComplete(trunk, c), c), c))

(* mod_signal, FR_SIGNAL_CANCEL *)
Cancel(r) ==
    /\ trunk.client[r] = "waiting"
    /\ Disturb(SignalCancel([trunk EXCEPT !.client[r] = "cancelled"], r))

(* The connection opens, or fails before or after; in_handler is set while *)
(* the client writes or reads.                                             *)
ConnOpens(c) == trunk.conn[c] = "CONNECTING" /\ Step(OnConnected(trunk, c))
ConnFails(c) == trunk.conn[c] = "CONNECTING" /\ Disturb(FailUnused(trunk, c))
ConnTimesOut(c) ==
    /\ trunk.conn[c] = "CONNECTING"
    /\ \E ok \in BOOLEAN : Disturb(Start(CloseUnused(OnFailed(trunk), c), c, ok))
IoError(c) ==
    /\ trunk.conn[c] \in Up
    /\ \E handler \in BOOLEAN :
        Disturb([Fail([trunk EXCEPT !.in_handler = handler], c) EXCEPT !.in_handler = FALSE])
Reconnect(c) ==
    /\ trunk.conn[c] = "CLOSED"
    /\ \E ok \in BOOLEAN : \E t \in {Start(trunk, c, ok)} :
        (ok /\ Step(t)) \/ (~ok /\ Disturb(t))

(* _trunk_connection_lifetime_expire *)
LifetimeExpire(c) ==
    /\ c \in trunk.lifetime_ev
    /\ Disturb(EnterDrainingToFree([trunk EXCEPT !.lifetime_ev = @ \ {c}], c, "lifetime"))

-----------------------------------------------------------------------------
(* trunk_manage                                                            *)

(* trunk_connection_close_if_empty, and the connections to free.           *)
Tidy(t) ==
    LET u == FoldSet(LAMBDA c, v : Halt(v, c), t, {c \in InState(t, Draining) : Count(t, c) = 0})
    IN  [u EXCEPT !.conn = [c \in Conns |-> IF c \in u.to_free THEN "NONE" ELSE u.conn[c]],
                  !.to_free = {}]

(* trunk_requests_per_connection with verify *)
Current(t) == t.req_per_conn \in {0, PerConnection(ConnCount(t), ReqCount(t))}
Verify(t) == Ratio(Check(t, Current(t), "ratio"))

(* The tests before a connection is opened.  waited: open_delay is over.   *)
WantsMore(t, waited) ==
    /\ ConnCount(t) > 0 => waited
    /\ ConnCount(t) < MaxConns /\ ReqCount(t) > 0
    /\ ConnCount(t) > 0 => CeilDiv(ReqCount(t), ConnCount(t) + 1) >= Target
Reactivates(t) == ConnCount(t) > 0 /\ InState(t, {"DRAINING"}) # {}
Reactivated(t) ==
    {IF Full(t, c) THEN EnterFull(t, c) ELSE EnterActive(t, c) : c \in InState(t, {"DRAINING"})}

(* trunk_connection_spawn, in a free place; ok: the socket can be opened.  *)
Spawned(t, ok) ==
    LET free == InState(t, {"NONE"})
    IN  IF free = {} THEN {t} ELSE {Start([t EXCEPT !.conn[c] = "HALTED"], c, ok) : c \in free}
OpenOne(t, waited, ok) ==
    CASE ~WantsMore(t, waited) -> {t}
      [] WantsMore(t, waited) /\ Reactivates(t) -> Reactivated(t)
      [] OTHER -> Spawned(t, ok)
Opens(t, waited) ==
    /\ t.above /\ Cardinality(InState(t, {"CONNECTING"})) < Connecting
    /\ WantsMore(t, waited) /\ ~Reactivates(t) /\ InState(t, {"NONE"}) # {}

(* The tests before one is closed, and which it is.                        *)
WantsFewer(t) ==
    /\ ConnCount(t) > 0 /\ (MinConns > 0 => ConnCount(t) - 1 >= MinConns)
    /\ ReqCount(t) > 0 => /\ ConnCount(t) > 1
                          /\ CeilDiv(ReqCount(t), ConnCount(t) - 1) <= Target
Unneeded(t) ==
    CASE InState(t, {"INACTIVE"}) # {} -> InState(t, {"INACTIVE"})
      [] InState(t, {"INACTIVE"}) = {} /\ InState(t, {"CONNECTING"}) # {} -> InState(t, {"CONNECTING"})
      [] OTHER -> {c \in Range(t.active) : c = Last(t.active)}
CloseOne(t) ==
    IF ~WantsFewer(t) \/ Unneeded(t) = {} THEN {t}
    ELSE {CASE t.conn[c] = "CONNECTING" \/ Count(t, c) = 0 -> Halt(t, c)
            [] t.conn[c] = "INACTIVE" /\ Count(t, c) > 0 -> EnterInactiveDraining(t, c)
            [] t.conn[c] = "ACTIVE" /\ Count(t, c) > 0 -> EnterDraining(t, c) : c \in Unneeded(t)}

(* What the manager may leave behind, with t the trunk once it is tidy.    *)
Managed(t, waited, ok) ==
    CASE t.above /\ Cardinality(InState(t, {"CONNECTING"})) < Connecting -> OpenOne(Verify(t), waited, ok)
      [] ~t.above /\ waited -> CloseOne(Verify(t))
      [] OTHER -> {t}
Manage(waited) ==
    \E t \in {Tidy(trunk)} :
        \E ok \in BOOLEAN : \E u \in Managed(t, waited, ok) :
            \/ ok /\ Step(u)
            \/ ~ok /\ Opens(t, waited) /\ Disturb(u)

(* _trunk_free: the thread ends.                                           *)
RECURSIVE HaltAll(_)
HaltAll(t) ==
    LET rest == InState(t, Up \cup {"INIT", "CONNECTING", "CLOSED"})
        first == IF t.active # <<>> THEN Head(t.active) ELSE CHOOSE c \in rest : TRUE
    IN  IF rest = {} THEN t ELSE HaltAll(Halt(t, first))
TrunkFree ==
    \E t \in {HaltAll([trunk EXCEPT !.freeing = TRUE])} :
        Step(FoldSet(LAMBDA r, v : EnterFailed(v, r), t, t.backlog))

-----------------------------------------------------------------------------
OfConn(c) ==
    \/ Writable(c) \/ Readable(c)
    \/ Zombie(c) \/ Revive(c) \/ StatusDead(c)
    \/ ConnOpens(c) \/ ConnFails(c) \/ ConnTimesOut(c) \/ IoError(c)
    \/ Reconnect(c) \/ LifetimeExpire(c)
OfRequest(r) == Enqueue(r) \/ GiveUp(r) \/ Cancel(r)

Next ==
    \/ \E c \in Conns : OfConn(c)
    \/ \E r \in Requests : OfRequest(r)
    \/ \E r \in Treqs : Retry(r)
    \/ \E waited \in BOOLEAN : Manage(waited)
    \/ TrunkFree

(***************************************************************************)
(* The event loop serves every socket and every timer that is ready, and   *)
(* the server takes the connections and the data it is offered once the    *)
(* disturbances are over.  One condition for all of the handlers is enough.*)
(* The manager, whose work the handlers may undo and redo, runs again and  *)
(* again.  The guards are written out next to the actions.                 *)
(***************************************************************************)
Event ==
    \/ \E c \in Conns :
        \/ Writable(c) \/ Readable(c) \/ StatusDead(c)
        \/ ConnOpens(c) \/ Revive(c) \/ Reconnect(c)
    \/ \E r \in Requests : GiveUp(r)
Ready ==
    /\ Running
    /\ \/ \E c \in Conns : trunk.events[c] # {} \/ trunk.conn[c] \in {"CONNECTING", "CLOSED"}
       \/ \E r \in Requests : trunk.req[r] = "SENT"
       \/ trunk.zombie # {} /\ "status_check" \notin conf
Work == Running /\ \E u \in Managed(Tidy(trunk), TRUE, TRUE) : u # trunk

Fairness ==
    /\ []<>(~Ready) \/ []<><<UNCHANGED left /\ Event>>_vars
    /\ <>[](~Work) \/ []<><<UNCHANGED left /\ Manage(TRUE)>>_vars

Spec == Init /\ [][Next]_vars /\ Fairness

-----------------------------------------------------------------------------
(* Every request is where its state and its connection say, and nowhere    *)
(* else; only a connection that is up has requests, the heap holds the     *)
(* active ones, and the events that are registered are the ones the lists  *)
(* call for: nothing waits on a socket nobody watches.  The lists, the     *)
(* heap, the events and the states are changed by a dozen functions that   *)
(* call each other in the middle of their work.                            *)
RequestsPlaced ==
    /\ \A r \in Treqs, c \in Conns, s \in OnConn :
        r \in trunk.list[c][s] <=> trunk.req[r] = s /\ trunk.tconn[r] = c
    /\ \A r \in Treqs :
        /\ (trunk.tconn[r] # NoConn) <=> trunk.req[r] \in OnConn
        /\ r \in trunk.backlog <=> trunk.req[r] = "BACKLOG"
        /\ trunk.req[r] \in OnConn \cup {"INIT", "BACKLOG"}
        /\ r \in Conns /\ trunk.tconn[r] # NoConn => trunk.tconn[r] = r
    /\ \A c \in Conns :
        /\ trunk.conn[c] \notin Up => On(trunk, c) = {}
        /\ trunk.events[c] = Wanted(trunk, c)
        /\ c \in Range(trunk.active) <=> trunk.conn[c] = "ACTIVE"
    /\ IsInjective(trunk.active)

(* A request waits in the backlog only while no connection can take it: no *)
(* connection is active, an active one has room, a full one has none.      *)
(* trunk_backlog_drain and trunk_connection_auto_unfull run inside other   *)
(* changes, each of which can undo what they rely on.                      *)
NoIdleCapacity ==
    /\ trunk.backlog # {} => trunk.active = <<>>
    /\ \A c \in Conns :
        /\ trunk.conn[c] = "ACTIVE" => ~Full(trunk, c)
        /\ trunk.conn[c] = "FULL" => Full(trunk, c)

(* The client is told exactly once, and never after it gave up: who waits  *)
(* has a request in the trunk, until the trunk is freed, and a request in  *)
(* the trunk belongs to one who waits or is being cancelled.               *)
ToldOnce ==
    /\ trunk.tripped # "told"
    /\ \A r \in Requests :
        /\ trunk.client[r] = "waiting" <=> trunk.req[r] \in (OnConn \ Cancelling) \cup {"BACKLOG"}
        /\ trunk.req[r] \in Cancelling => trunk.client[r] = "cancelled"
    /\ trunk.freeing => \A r \in Treqs : trunk.req[r] = "INIT"

(* No BAD_STATE_TRANSITION and no assertion of trunk.c fails, that of      *)
(* trunk_requests_per_connection on a stale ratio included, save two that  *)
(* the code does run into.  Both ask that a connection be freed once it is *)
(* drained when it drains for that already: it sends again past max_uses,  *)
(* or its lifetime ends, whose timer is deleted only when it closes.       *)
NoBadTransition == trunk.tripped \in {"no", "max_uses", "lifetime"}

(* Every request that is accepted is told its result, whatever connections *)
(* fail, fill, drain or become zombies on the way.  Nothing is claimed     *)
(* after an assertion has failed, which ends the process, for the          *)
(* synchronous mode, in which no request has a timer, nor for a connection *)
(* that must answer more than one status check: it stays inactive, and     *)
(* counts as one that could take requests.                                 *)
EveryRequestTold ==
    \A r \in Requests :
        trunk.client[r] = "waiting" ~>
            \/ trunk.client[r] # "waiting" \/ trunk.tripped # "no"
            \/ "status_check" \in conf /\ "one_answer" \notin conf
=============================================================================
