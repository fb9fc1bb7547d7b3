---------------------------- MODULE SessionStore ----------------------------
(***************************************************************************)
(* What the session state of src/lib/server/state.c promises: the state    *)
(* of a session is in one place, stored under the State value that the     *)
(* client was told, or held by one request.  It is taken once, by a        *)
(* request that has this value, and a value is never given out twice.      *)
(***************************************************************************)
CONSTANTS
    Requests,       \* requests
    Contexts        \* session states (session_state_ctx)

VARIABLES
    stored,         \* pairs of a value and the session state stored under it
    held,           \* [Requests -> Contexts]
    told            \* the values clients were told

vars == <<stored, held, told>>

Init ==
    /\ stored = {} /\ told = {}
    /\ held \in [Requests -> Contexts]
    /\ \A q, r \in Requests : q # r => held[q] # held[r]

Under(v) == {s \in stored : s[1] = v}

\* No request holds c and it is not stored.
Unused(c) == (\A r \in Requests : held[r] # c) /\ (\A s \in stored : s[2] # c)

\* r gets an empty session state.
Afresh(r) == \E c \in Contexts : Unused(c) /\ held' = [held EXCEPT ![r] = c]

\* r has the value v, and takes what is stored under it.
Take(r, v) == \E s \in Under(v) :
    /\ held' = [held EXCEPT ![r] = s[2]]
    /\ stored' = stored \ {s}
    /\ UNCHANGED told

\* r leaves its session state under a new value.
Put(r, v) ==
    /\ v \notin told
    /\ stored' = stored \cup {<<v, held[r]>>}
    /\ told' = told \cup {v}
    /\ Afresh(r)

\* r is done with its session, and with what is stored under its value.
Finish(r, v) ==
    /\ stored' = stored \ Under(v)
    /\ Afresh(r)
    /\ UNCHANGED told

\* Sessions nobody came back to.
Expire(S) ==
    /\ stored' = stored \ S
    /\ UNCHANGED <<held, told>>

Next ==
    \/ \E r \in Requests, v \in told' : Take(r, v) \/ Put(r, v) \/ Finish(r, v)
    \/ \E S \in SUBSET stored : Expire(S)

Spec == Init /\ [][Next]_vars

=============================================================================
