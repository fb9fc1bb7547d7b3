------------------------------ MODULE Connection ------------------------------
(***************************************************************************)
(* The outbound connection of src/src/lib/server/connection.c, with the    *)
(* trunk connection of trunk.c that watches it.                            *)
(*                                                                         *)
(* All of this runs in one thread, yet one event can change the state      *)
(* several times: a state function calls its watchers and its callback,    *)
(* these may signal the connection, a signal raised inside a handler is    *)
(* deferred, and the deferred signals are processed as soon as the         *)
(* outermost handler returns, which is in the middle of the state function *)
(* that called it.  So the C stack is state: calls lists what is still to  *)
(* be executed, the innermost function first.  A handler with the          *)
(* HANDLER_END after it is one step, and in_handler is true only within it.*)
(*                                                                         *)
(* owner is one of the ways the repository uses a connection:              *)
(* rlm_radius_udp (a trunk, a failed callback), lib/redis/io.c (a trunk, a *)
(* shutdown callback) and rlm_logtee (an open callback and no trunk).      *)
(* Inserting a timer or a descriptor in the event loop always succeeds,    *)
(* and nobody reconnects a connection with FR_CONNECTION_EXPIRED.          *)
(***************************************************************************)
EXTENDS Naturals, Sequences

CONSTANT Owners

ASSUME OwnersAssumption == Owners \subseteq {"radius", "redis", "logtee"}

VARIABLES
    owner, timeout, delay,      \* the callbacks, and whether connection_timeout
                                \* and reconnection_delay are set
    state,                      \* conn->pub.state
    ev,                         \* conn->ev: "none", "timeout" or "reconnect"
    is_closed,                  \* conn->is_closed
    handle,                     \* the handle of the API client exists
    fd,                         \* the I/O handlers of fr_connection_signal_on_fd and
                                \* the two oneshot watchers that remove them exist
    deferred,                   \* conn->deferred_signals
    processing,                 \* conn->processing_signals
    freed,                      \* the variable of connection_deferred_signal_process
    calls,                      \* the C stack
    tconn,                      \* the trunk connection; its states while the
                                \* connection is up are one, "ACTIVE"
    in_mux,                     \* trunk->in_handler is set
    alive,                      \* the connection's memory has not been freed
    tripped                     \* an assertion failed, or a BAD_STATE_TRANSITION

confvars == <<owner, timeout, delay>>
connvars == <<state, ev, is_closed, handle, fd>>
sigvars == <<deferred, processing, freed>>
trunkvars == <<tconn, in_mux>>
vars == <<confvars, connvars, sigvars, calls, trunkvars, alive, tripped>>

States == {"HALTED", "INIT", "CONNECTING", "TIMEOUT", "CONNECTED", "SHUTDOWN",
           "FAILED", "CLOSED"}
Deferrable == {"RECONNECT_FAILED", "FREE"}
TrunkStates == {"NONE", "HALTED", "INIT", "CONNECTING", "ACTIVE", "CLOSED",
                "TO_FREE", "FREED"}

HasTrunk == owner \in {"radius", "redis"}
HasShutdown == owner = "redis"

(***************************************************************************)
(* A call is what to do, with the state the connection was in before it    *)
(* failed, which connection_state_enter_failed remembers.                  *)
(***************************************************************************)
Call(f) == <<f, "">>
Doing(f) == calls # <<>> /\ Head(calls)[1] = f
Was == Head(calls)[2]
Then(ops) == calls' = ops \o Tail(calls)
Return == calls' = Tail(calls)

(* fr_connection_alloc, and fr_connection_signal_init right after it.      *)
Init ==
    /\ owner \in Owners /\ timeout \in BOOLEAN /\ delay \in BOOLEAN
    /\ state = "HALTED" /\ ev = "none"
    /\ is_closed = TRUE /\ handle = FALSE /\ fd = FALSE
    /\ deferred = <<>> /\ processing = FALSE /\ freed = FALSE
    /\ calls = <<Call("init")>>
    /\ tconn = IF HasTrunk THEN "HALTED" ELSE "NONE"
    /\ in_mux = FALSE /\ alive = TRUE /\ tripped = FALSE

-----------------------------------------------------------------------------
(* Signals                                                                 *)

(* connection_deferred_signal_add: no duplicate of the last one.           *)
Added(q, sig) == IF q # <<>> /\ q[Len(q)] = sig THEN q ELSE Append(q, sig)

(* The functions that process the signals start only if no instance of     *)
(* connection_deferred_signal_process is running further up the stack.     *)
ProcessFirst(ops) ==
    IF processing
    THEN Then(ops) /\ UNCHANGED <<processing, freed>>
    ELSE Then(<<Call("process")>> \o ops) /\ processing' = TRUE /\ freed' = FALSE

(* HANDLER_END of a handler that deferred no signal, or the signal sig,    *)
(* before ops.  With nothing deferred the processor is entered and left.   *)
HandlerEnd(ops) ==
    IF deferred = <<>> THEN Then(ops) /\ UNCHANGED sigvars
                       ELSE ProcessFirst(ops) /\ UNCHANGED deferred

HandlerEndAfter(sig, ops) == deferred' = Added(deferred, sig) /\ ProcessFirst(ops)

(* What a signal makes a connection do that is in no handler.              *)
Ignores == [RECONNECT_FAILED |-> {"CLOSED", "INIT"},
            SHUTDOWN |-> {"HALTED", "SHUTDOWN"},
            HALT |-> {"HALTED"}]

SignalCalls(sig) ==
    CASE state \in Ignores[sig] -> <<>>
      [] sig = "RECONNECT_FAILED" /\ state = "HALTED" -> <<Call("init")>>
      [] sig = "RECONNECT_FAILED" /\ state # "HALTED" -> <<Call("failed")>>
      [] sig = "SHUTDOWN" /\ state = "CONNECTED" /\ HasShutdown -> <<Call("shutdown")>>
      [] state \in {"INIT", "CLOSED"} -> <<Call("halted")>>
      [] OTHER -> <<Call("closed"), Call("halted")>>

(* _connection_free that is not deferred; the memory goes last.            *)
FreeCalls ==
    CASE state = "HALTED" -> <<Call("gone")>>
      [] state \in {"CONNECTING", "CONNECTED"} ->
            <<Call("closed"), Call("halted"), Call("gone")>>
      [] OTHER -> <<Call("halted"), Call("gone")>>

(* connection_deferred_signal_process: the test of freed, the end of the   *)
(* loop, and one turn of it.  The watcher on_halted sets freed.            *)
ProcessAborts ==
    /\ Doing("process") /\ freed
    /\ Return
    /\ UNCHANGED <<confvars, connvars, sigvars, trunkvars, alive, tripped>>

ProcessEndsBusy ==                                       \* a variant
    /\ Doing("process") /\ ~freed /\ deferred = <<>>
    /\ Return
    /\ UNCHANGED <<confvars, connvars, sigvars, trunkvars, alive, tripped>>

ProcessEnds ==
    /\ Doing("process") /\ ~freed /\ deferred = <<>>
    /\ processing' = FALSE
    /\ Return
    /\ UNCHANGED <<confvars, connvars, deferred, freed, trunkvars, alive, tripped>>

ProcessSignal ==
    /\ Doing("process") /\ ~freed /\ deferred # <<>>
    /\ deferred' = Tail(deferred)
    /\ Then(IF Head(deferred) = "FREE" THEN FreeCalls
            ELSE SignalCalls(Head(deferred)) \o <<Call("process")>>)
    /\ UNCHANGED <<confvars, connvars, processing, freed, trunkvars, alive, tripped>>

-----------------------------------------------------------------------------
(* Watchers: WATCH_PRE and WATCH_POST look up the list of the state the    *)
(* connection is in now.  An empty list is no handler.                     *)

Watched == tconn \notin {"NONE", "FREED"}
FdWatched == fd /\ state \in {"CLOSED", "CONNECTED"}
PreWatched == FdWatched \/ (Watched /\ state \in {"INIT", "FAILED", "CLOSED"})
PostWatched == Watched /\ state \in {"CONNECTING", "CONNECTED", "SHUTDOWN"}

(* trunk_connection_enter_*, and CONN_BAD_STATE_TRANSITION.                *)
TrunkMoves(from, to) ==
    IF tconn \in from THEN tconn' = to /\ UNCHANGED tripped
                      ELSE tripped' = TRUE /\ UNCHANGED tconn

OnInit == TrunkMoves({"HALTED", "CLOSED"}, "INIT")
OnClosed == TrunkMoves({"ACTIVE", "INIT", "CONNECTING"}, "CLOSED")
OnFailedIgnored == UNCHANGED <<tconn, tripped>>          \* a variant
OnFailed == IF Was = "INIT" THEN OnClosed ELSE UNCHANGED <<tconn, tripped>>

WatchPre ==
    /\ Doing("pre")
    /\ PreWatched
    /\ CASE state = "INIT" -> OnInit
         [] state = "FAILED" -> OnFailed
         [] state = "CLOSED" /\ Watched -> OnClosed
         [] OTHER -> UNCHANGED <<tconn, tripped>>
    /\ fd' = (fd /\ ~FdWatched)         \* _connection_signal_on_fd_cleanup
    /\ HandlerEnd(<<>>)
    /\ UNCHANGED <<confvars, state, ev, is_closed, handle, in_mux, alive>>

NoPreWatcher ==
    /\ Doing("pre")
    /\ ~PreWatched
    /\ Return
    /\ UNCHANGED <<confvars, connvars, sigvars, trunkvars, alive, tripped>>

OnConnecting ==
    /\ Doing("post") /\ state = "CONNECTING" /\ Watched
    /\ TrunkMoves({"INIT", "CLOSED"}, "CONNECTING")
    /\ HandlerEnd(<<>>)
    /\ UNCHANGED <<confvars, connvars, in_mux, alive>>

(* The connection becomes active and gets the backlog.  A mux that cannot  *)
(* write asks for a reconnection.                                          *)
OnConnected ==
    /\ Doing("post") /\ state = "CONNECTED" /\ Watched
    /\ TrunkMoves({"CONNECTING", "ACTIVE"}, "ACTIVE")
    /\ (HandlerEnd(<<>>) \/ HandlerEndAfter("RECONNECT_FAILED", <<>>))
    /\ UNCHANGED <<confvars, connvars, in_mux, alive>>

OnShutdown ==
    /\ Doing("post") /\ state = "SHUTDOWN" /\ Watched
    /\ TrunkMoves({"ACTIVE"}, "ACTIVE")
    /\ HandlerEnd(<<>>)
    /\ UNCHANGED <<confvars, connvars, in_mux, alive>>

(* The processor's own watcher comes first and tells it to stop.  The      *)
(* trunk connection is freed, and asks for the connection to be freed; or  *)
(* trunk_manage will do that, if the trunk is in a handler.                *)
OnHalted ==
    /\ Doing("post") /\ state = "HALTED" /\ Watched
    /\ TrunkMoves({"INIT", "CLOSED"}, IF in_mux THEN "TO_FREE" ELSE "FREED")
    /\ deferred' = IF tconn' = "FREED" THEN Added(deferred, "FREE") ELSE deferred
    /\ IF processing THEN freed' = TRUE /\ Return /\ UNCHANGED processing
       ELSE ProcessFirst(<<>>)
    /\ UNCHANGED <<confvars, connvars, in_mux, alive>>

OnHaltedUnwatched ==
    /\ Doing("post") /\ state = "HALTED" /\ ~Watched
    /\ freed' = (freed \/ processing)
    /\ Return
    /\ UNCHANGED <<confvars, connvars, deferred, processing, trunkvars, alive, tripped>>

NoPostWatcher ==
    /\ Doing("post")
    /\ state # "HALTED" /\ ~PostWatched
    /\ Return
    /\ UNCHANGED <<confvars, connvars, sigvars, trunkvars, alive, tripped>>

-----------------------------------------------------------------------------
(* The state functions connection_state_enter_*, and the callbacks         *)

(* A state function that moves from one of the states in from, and goes on *)
(* with ops; BAD_STATE_TRANSITION otherwise.                               *)
Enters(from, to, ops) ==
    /\ IF state \in from THEN state' = to /\ Then(ops) /\ UNCHANGED tripped
                         ELSE tripped' = TRUE /\ Return /\ UNCHANGED state
    /\ UNCHANGED <<confvars, is_closed, handle, fd, sigvars, trunkvars, alive>>

Closed ==
    /\ Doing("closed")
    /\ Enters({"CONNECTING", "CONNECTED", "FAILED"}, "CLOSED",
              <<Call("pre"), Call("close"), Call("post")>>)
    /\ ev' = IF state' = "CLOSED" THEN "none" ELSE ev

Close ==
    /\ Doing("close")
    /\ tripped' = (tripped \/ is_closed)
    /\ handle' = (handle /\ is_closed)
    /\ is_closed' = TRUE
    /\ HandlerEnd(<<>>)
    /\ UNCHANGED <<confvars, state, ev, fd, trunkvars, alive>>

Halted ==
    /\ Doing("halted")
    /\ IF state \in {"FAILED", "CLOSED"}
       THEN state' = "HALTED" /\ ev' = "none" /\ Then(<<Call("post")>>)
       ELSE Return /\ UNCHANGED <<state, ev>>
    /\ tripped' = (tripped \/ ~is_closed \/ state \notin {"FAILED", "CLOSED"})
    /\ UNCHANGED <<confvars, is_closed, handle, fd, sigvars, trunkvars, alive>>

Initialise ==
    /\ Doing("init")
    /\ Enters({"HALTED", "CLOSED", "FAILED"}, "INIT", <<Call("pre"), Call("init_cb")>>)
    /\ UNCHANGED ev

(* _reconnect_delay_done                                                   *)
DelayDone ==
    /\ Doing("delay_done")
    /\ IF state \in {"FAILED", "CLOSED"} THEN Then(<<Call("init")>>) /\ UNCHANGED tripped
                                        ELSE Return /\ tripped' = TRUE
    /\ UNCHANGED <<confvars, connvars, sigvars, trunkvars, alive>>

(* The callback makes a handle, and may wait for its descriptor; rlm_radius_udp *)
(* waits for the answer to a status check instead, lib/redis for hiredis.  *)
UsesFd == CASE owner = "radius" -> BOOLEAN [] owner = "redis" -> {FALSE} [] OTHER -> {TRUE}

InitSucceeds ==
    /\ Doing("init_cb")
    /\ handle' = TRUE /\ is_closed' = FALSE
    /\ fd' \in UsesFd
    /\ HandlerEnd(<<Call("post"), Call("connecting")>>)
    /\ UNCHANGED <<confvars, state, ev, trunkvars, alive, tripped>>

InitFails ==
    /\ Doing("init_cb")
    /\ HandlerEnd(<<Call("failed")>>)
    /\ UNCHANGED <<confvars, connvars, trunkvars, alive, tripped>>

Connecting ==
    /\ Doing("connecting")
    /\ Enters({"INIT"}, "CONNECTING", <<Call("pre"), Call("post"), Call("timer")>>)
    /\ UNCHANGED ev

(* The last statement of two state functions, whatever state it finds.     *)
StartTimer ==
    /\ Doing("timer")
    /\ ev' = IF timeout THEN "timeout" ELSE ev
    /\ Return
    /\ UNCHANGED <<confvars, state, is_closed, handle, fd, sigvars, trunkvars, alive, tripped>>

Connected ==
    /\ Doing("connected")
    /\ Enters({"CONNECTING"}, "CONNECTED", <<Call("pre"), Call("open"), Call("post")>>)
    /\ ev' = "none"

(* Callbacks that only rlm_logtee and rlm_radius_udp have, and which always *)
(* return CONNECTED and INIT.                                              *)
OpenCallback ==
    /\ Doing("open")
    /\ IF owner = "logtee" THEN HandlerEnd(<<>>) ELSE Return /\ UNCHANGED sigvars
    /\ UNCHANGED <<confvars, connvars, trunkvars, alive, tripped>>

FailedCallback ==
    /\ Doing("failed_cb")
    /\ IF owner = "radius" THEN HandlerEnd(<<>>) ELSE Return /\ UNCHANGED sigvars
    /\ UNCHANGED <<confvars, connvars, trunkvars, alive, tripped>>

Shutdown ==
    /\ Doing("shutdown")
    /\ Enters({"CONNECTED"}, "SHUTDOWN",
              <<Call("pre"), Call("shutdown_cb"), Call("post"), Call("timer")>>)
    /\ UNCHANGED ev

(* redisAsyncDisconnect may call _redis_disconnected before it returns.    *)
ShutdownCallback ==
    /\ Doing("shutdown_cb")
    /\ (HandlerEnd(<<>>) \/ HandlerEndAfter("RECONNECT_FAILED", <<>>))
    /\ UNCHANGED <<confvars, connvars, trunkvars, alive, tripped>>

Timeout ==
    /\ Doing("timeout")
    /\ Enters({"CONNECTING", "SHUTDOWN"}, "TIMEOUT", <<Call("failed")>>)
    /\ UNCHANGED ev

Failed ==
    /\ Doing("failed")
    /\ tripped' = (tripped \/ state = "FAILED")
    /\ state' = "FAILED" /\ ev' = "none"
    /\ Then(<< <<"pre", state>>, <<"failed_cb", state>>, <<"post", state>>,
               <<"failed_close", state>>, <<"failed_next", state>> >>)
    /\ UNCHANGED <<confvars, is_closed, handle, fd, sigvars, trunkvars, alive>>

(* The states with a handle: all that are past INIT.                       *)
HadHandleNoTimeout == Was \in {"CONNECTED", "CONNECTING", "SHUTDOWN"}     \* a variant
HadHandle == Was \in {"CONNECTED", "CONNECTING", "TIMEOUT", "SHUTDOWN"}

FailedClose ==
    /\ Doing("failed_close")
    /\ Then(IF HadHandle THEN <<Call("closed")>> ELSE <<>>)
    /\ UNCHANGED <<confvars, connvars, sigvars, trunkvars, alive, tripped>>

(* Try again after reconnection_delay, or at once after a timeout, or not. *)
FailedWaitsIfUp == Was \in {"INIT", "CONNECTED", "SHUTDOWN"}              \* a variant
FailedWaits == Was \in {"INIT", "CONNECTED", "CONNECTING", "SHUTDOWN"}

FailedNext ==
    /\ Doing("failed_next")
    /\ tripped' = (tripped \/ ~(FailedWaits \/ Was = "TIMEOUT"))
    /\ ev' = IF FailedWaits /\ delay THEN "reconnect" ELSE ev
    /\ Then(CASE Was = "TIMEOUT" -> <<Call("init")>>
              [] FailedWaits /\ ~delay -> <<Call("halted")>>
              [] OTHER -> <<>>)
    /\ UNCHANGED <<confvars, state, is_closed, handle, fd, sigvars, trunkvars, alive>>

Gone ==
    /\ Doing("gone")
    /\ alive' = FALSE
    /\ Return
    /\ UNCHANGED <<confvars, connvars, sigvars, trunkvars, tripped>>

-----------------------------------------------------------------------------
(* Events                                                                  *)

Idle == alive /\ calls = <<>>

Event(ops, mux) ==
    /\ calls' = ops
    /\ in_mux' = mux
    /\ UNCHANGED <<confvars, state, is_closed, handle, fd, alive, tripped>>

(* The outcome of the attempt, from _connection_writable, _connection_error *)
(* or from the library's callbacks.                                        *)
Opened ==
    /\ Idle /\ state = "CONNECTING"
    /\ Event(<<Call("connected")>>, FALSE)
    /\ UNCHANGED <<ev, sigvars, tconn>>

ConnectFails ==
    /\ Idle /\ state = "CONNECTING"
    /\ Event(<<Call("failed")>>, FALSE)
    /\ UNCHANGED <<ev, sigvars, tconn>>

(* fr_connection_signal_reconnect from an I/O handler, or from the mux or  *)
(* demux it called.                                                        *)
IoError ==
    /\ Idle /\ state \in {"CONNECTED", "SHUTDOWN"}
    /\ \E mux \in BOOLEAN : (mux => HasTrunk) /\ Event(SignalCalls("RECONNECT_FAILED"), mux)
    /\ UNCHANGED <<ev, sigvars, tconn>>

(* The same between fr_connection_signals_pause and ..._resume.            *)
ErrorWhilePaused ==
    /\ Idle /\ HasTrunk /\ state \in {"CONNECTED", "SHUTDOWN"}
    /\ deferred' = Added(deferred, "RECONNECT_FAILED")
    /\ processing' = TRUE /\ freed' = FALSE
    /\ Event(<<Call("process")>>, FALSE)
    /\ UNCHANGED <<ev, tconn>>

(* trunk_connection_close_if_empty; trunk_manage and _trunk_free.          *)
TrunkSignals(sig, from) ==
    /\ Idle /\ tconn \in from
    /\ Event(SignalCalls(sig), FALSE)
    /\ UNCHANGED <<ev, sigvars, tconn>>

SignalShutdown == TrunkSignals("SHUTDOWN", {"ACTIVE"})
SignalHalt == TrunkSignals("HALT", {"CONNECTING", "ACTIVE", "CLOSED"})

FreeLater ==
    /\ Idle /\ tconn = "TO_FREE"
    /\ tconn' = "FREED" /\ ev' = "none"
    /\ Event(FreeCalls, FALSE)
    /\ UNCHANGED sigvars

FreeByOwner ==
    /\ Idle /\ ~HasTrunk
    /\ ev' = "none"
    /\ Event(FreeCalls, FALSE)
    /\ UNCHANGED <<sigvars, tconn>>

Timer ==
    /\ Idle /\ ev # "none"
    /\ ev' = "none"
    /\ Event(<<Call(IF ev = "timeout" THEN "timeout" ELSE "delay_done")>>, FALSE)
    /\ UNCHANGED <<sigvars, tconn>>

-----------------------------------------------------------------------------

Runs ==
    \/ ProcessAborts \/ ProcessEnds \/ ProcessSignal
    \/ WatchPre \/ NoPreWatcher
    \/ OnConnecting \/ OnConnected \/ OnShutdown \/ OnHalted \/ OnHaltedUnwatched \/ NoPostWatcher
    \/ Closed \/ Close \/ Halted \/ Initialise \/ DelayDone \/ InitSucceeds \/ InitFails \/ Connecting
    \/ StartTimer \/ Connected \/ OpenCallback \/ Shutdown \/ ShutdownCallback \/ Timeout
    \/ Failed \/ FailedCallback \/ FailedClose \/ FailedNext \/ Gone

Next ==
    \/ Runs
    \/ Opened \/ ConnectFails \/ IoError \/ ErrorWhilePaused
    \/ SignalShutdown \/ SignalHalt \/ FreeLater \/ FreeByOwner \/ Timer

(* The stack runs to its end, and the timers of the event loop go off.     *)
Spec == Init /\ [][Next]_vars /\ WF_vars(Runs) /\ WF_vars(Timer) /\ WF_vars(FreeLater)

-----------------------------------------------------------------------------
(* Properties                                                              *)

TypeOK ==
    /\ owner \in Owners /\ {timeout, delay, is_closed, handle, fd} \subseteq BOOLEAN
    /\ state \in States /\ ev \in {"none", "timeout", "reconnect"}
    /\ deferred \in Seq(Deferrable) /\ {processing, freed} \subseteq BOOLEAN
    /\ tconn \in TrunkStates /\ {in_mux, alive, tripped} \subseteq BOOLEAN

AtRest == alive /\ calls = <<>>

(* However the state functions nest, the handle is made once and closed    *)
(* once: connection_state_enter_init never asks for a handle while there   *)
(* is one, is_closed tells the truth when the event loop runs, the I/O     *)
(* handlers of fr_connection_signal_on_fd do not outlive the descriptor,   *)
(* and no function goes on with a connection that has been freed, nor is   *)
(* one freed with its handle open.                                         *)
HandleSound ==
    /\ TypeOK
    /\ Doing("init_cb") => ~handle
    /\ AtRest => handle = ~is_closed
    /\ fd => handle
    /\ ~alive => calls = <<>> /\ ~handle

(* When the event loop runs, the trunk connection is where the connection  *)
(* is, after any nesting of watchers and signals: the trunk sends requests *)
(* only to a connection that is up, and counts as connecting only one that *)
(* is.  The watchers of trunk.c keep the two together.                     *)
TrunkFollows ==
    AtRest /\ HasTrunk =>
        tconn \in CASE state = "CONNECTING" -> {"CONNECTING"}
                    [] state \in {"CONNECTED", "SHUTDOWN"} -> {"ACTIVE"}
                    [] state \in {"FAILED", "CLOSED"} -> {"CLOSED"}
                    [] state = "HALTED" -> {"TO_FREE", "FREED"}
                    [] OTHER -> {}

(* No signal waits while the event loop runs: what a handler deferred has  *)
(* been processed by the time the event that called it ends.  The          *)
(* exception is a connection that connection_deferred_signal_process       *)
(* halted, which needs reconnection_delay to be unset: its loop returns    *)
(* and leaves the request to free the connection behind it.                *)
SignalsProcessed ==
    AtRest => \/ deferred = <<>> /\ ~processing
              \/ ~delay /\ freed /\ state = "HALTED"

(* A connection does not stay down by itself: an attempt ends when there   *)
(* is a connection_timeout, and a connection that failed is opened again,  *)
(* or halted if there is no reconnection_delay.  lib/redis is excepted: a  *)
(* shutdown callback that signals a failure before it returns loses its    *)
(* timer to the one connection_state_enter_shutdown sets after it.         *)
Recovers ==
    /\ timeout => (state = "CONNECTING" ~> state # "CONNECTING")
    /\ owner # "redis" => (state \in {"FAILED", "CLOSED"} ~> state \in {"INIT", "HALTED"})
=============================================================================
