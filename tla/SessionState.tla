---------------------------- MODULE SessionState ----------------------------
(***************************************************************************)
(* Session state, src/lib/server/state.c, and the requests that use it as  *)
(* src/process/radius/base.c does: a request that brings a State attribute *)
(* takes the session, a challenge saves it under a new value, an accept or *)
(* a reject discards it.                                                   *)
(*                                                                         *)
(* Each section of code under the mutex is a step.  state_entry_create     *)
(* releases the mutex in the middle, so saving is two of them.  A worker   *)
(* runs one request at a time, and does not leave it between the two.      *)
(*                                                                         *)
(* A value has a random part, the count of rounds, and a part that is      *)
(* mixed (exclusive or) with the context_id of the tree: what is in the    *)
(* tree is never what the client has.                                      *)
(***************************************************************************)
EXTENDS Integers, Sequences, FiniteSets

CONSTANTS
    Requests,       \* requests
    NumWorkers,     \* worker threads
    MaxSessions,    \* state->max_sessions
    Timeout,        \* state->timeout
    MaxTime         \* bound on the clock

ASSUME SessionAssumption ==
    /\ IsFiniteSet(Requests) /\ NumWorkers \in Nat \ {0}
    /\ MaxSessions \in Nat /\ Timeout \in Nat /\ MaxTime \in Nat

\* A request is allocated with the session state <<r, 0>> and gets <<r, 1>>
\* when it has given that away; its subrequest is allocated with <<r, 2>>.
Contexts == Requests \X (0..2)
None == <<>>
NoState == [random |-> 0, mixed |-> FALSE, tries |-> 0]
NoEntry == [state |-> NoState, tries |-> 0, cleanup |-> 0]
Values == [random : Nat, mixed : BOOLEAN, tries : 0..255]

VARIABLES
    clock,          \* fr_time()
    tree,           \* the entries, which are also those in to_expire
    to_expire,      \* their values, in the order of the list
    randoms,        \* random parts used so far
    told,           \* State values that were sent in a reply
    pc,             \* where a request is
    state,          \* the State attribute it came with
    new,            \* the entry it is creating
    ctx,            \* its session_state_ctx
    child,          \* the session_state_ctx of its subrequest, or None
    live,           \* the session states that are allocated
    pairs,          \* those that have attributes
    kid             \* kid[c]: what a subrequest stored in c as data, or None

treevars == <<tree, to_expire, randoms, told>>
ctxvars == <<live, pairs, kid>>
vars == <<clock, treevars, pc, state, new, ctx, child, ctxvars>>

Init ==
    /\ clock = 0 /\ tree = {} /\ to_expire = <<>> /\ randoms = 0 /\ told = {}
    /\ pc = [r \in Requests |-> "new"]
    /\ state = [r \in Requests |-> NoState]
    /\ new = [r \in Requests |-> NoEntry]
    /\ ctx = [r \in Requests |-> <<r, 0>>]
    /\ child = [r \in Requests |-> None]
    /\ live = {<<r, 0>> : r \in Requests} /\ pairs = {}
    /\ kid = [c \in Contexts |-> None]

-----------------------------------------------------------------------------
(* The tree *)

\* context_id ^= state->context_id, in state_entry_create and state_entry_find
Mix(v) == [random |-> v.random, mixed |-> ~v.mixed, tries |-> v.tries]

\* state_entry_find
Find(v) == {e \in tree : e.state = Mix(v)}

\* fr_dlist_remove: the list without the entries that have the values X.
Remove(list, X) ==
    LET kept[i \in 0..Len(list)] == IF i = 0 THEN <<>>
                                    ELSE IF list[i] \in X THEN kept[i - 1]
                                    ELSE Append(kept[i - 1], list[i])
    IN  kept[Len(list)]

\* state_entry_unlink
Unlink(E) ==
    /\ tree' = tree \ E
    /\ to_expire' = Remove(to_expire, {e.state : e \in E})

\* The session states C are freed, with what subrequests stored in them, and N
\* are allocated.
Replace(C, N) == \E dead \in {C \cup {kid[c] : c \in C \ {None}}} :
    /\ live' = (live \ dead) \cup N
    /\ pairs' = pairs \ dead
    /\ kid' = [c \in Contexts |-> IF c \in dead THEN None ELSE kid[c]]

\* The entries removed from the head of the list: old is skipped, the first
\* that is not too old ends it.
Expired(old) == {e \in tree \ old : \E i \in 1..Len(to_expire) :
    /\ to_expire[i] = e.state
    /\ \A d \in tree \ old : d.cleanup < clock \/ \A j \in 1..i : to_expire[j] # d.state}

\* fr_dlist_empty(&entry->data): the data goes where the session state goes.
DataEmpty(e) == e.ctx = None \/ kid[e.ctx] = None

-----------------------------------------------------------------------------
(* A request begins: fr_state_to_request, called by recv_access_request *)

Begins(r, v, where) ==
    /\ pc[r] = "new"
    /\ pc' = [pc EXCEPT ![r] = where]
    /\ state' = [state EXCEPT ![r] = v]

\* No State, or one that is not known: the request goes on without a session.
RecvUnknown(r, v) ==
    /\ Begins(r, v, "run")
    /\ Find(v) = {}
    /\ UNCHANGED <<clock, treevars, new, ctx, child, ctxvars>>

\* Variant of Thaw: the entry keeps the session state.
ThawKeeps(e, r) == [state |-> e.state, tries |-> e.tries, cleanup |-> e.cleanup,
                    ctx |-> e.ctx, thawed |-> <<r>>]

Thaw(e, r) == [state |-> e.state, tries |-> e.tries, cleanup |-> e.cleanup,
               ctx |-> None, thawed |-> <<r>>]

\* The request takes the session state; the entry stays in the tree without it.
RecvKnown(r, v) ==
    /\ Begins(r, v, "run")
    /\ \E e \in Find(v) :
        /\ e.thawed = None
        /\ tree' = (tree \ {e}) \cup {Thaw(e, r)}
        /\ ctx' = [ctx EXCEPT ![r] = e.ctx]
    /\ Replace({ctx[r]}, {})
    /\ UNCHANGED <<clock, to_expire, randoms, told, new, child>>

\* Another request has taken it: "send Access-Reject" is run.
RecvThawed(r, v) ==
    /\ Begins(r, v, "rejected")
    /\ \E e \in Find(v) : e.thawed # None
    /\ UNCHANGED <<clock, treevars, new, ctx, child, ctxvars>>

-----------------------------------------------------------------------------
(* What the request does *)

Runs(r) == pc[r] = "run" /\ child[r] = None

\* The policy adds attributes to &session-state.
Policy(r) ==
    /\ Runs(r) /\ ctx[r] \notin pairs
    /\ pairs' = pairs \cup {ctx[r]}
    /\ UNCHANGED <<clock, treevars, pc, state, new, ctx, child, live, kid>>

\* A subrequest begins: fr_state_restore_to_child.  If there is something to
\* restore, what the subrequest was allocated with is freed.
RestoreToChild(r) ==
    /\ Runs(r)
    /\ IF kid[ctx[r]] = None
       THEN /\ child' = [child EXCEPT ![r] = <<r, 2>>]
            /\ live' = live \cup {<<r, 2>>}
            /\ UNCHANGED kid
       ELSE /\ child' = [child EXCEPT ![r] = kid[ctx[r]]]
            /\ kid' = [kid EXCEPT ![ctx[r]] = None]
            /\ UNCHANGED live
    /\ UNCHANGED <<clock, treevars, pc, state, new, ctx, pairs>>

\* It has run, and may have added attributes: fr_state_store_in_parent.  Then
\* the subrequest is freed.
StoreInParent(r, adds) ==
    /\ child[r] # None
    /\ IF adds \/ child[r] \in pairs
       THEN /\ pairs' = pairs \cup {child[r]}
            /\ kid' = [kid EXCEPT ![ctx[r]] = child[r]]
            /\ UNCHANGED live
       ELSE Replace({child[r]}, {})
    /\ child' = [child EXCEPT ![r] = None]
    /\ UNCHANGED <<clock, treevars, pc, state, new, ctx>>

\* fr_state_discard_child
DiscardChild(r) ==
    /\ Runs(r) /\ kid[ctx[r]] # None
    /\ live' = live \ {kid[ctx[r]]} /\ pairs' = pairs \ {kid[ctx[r]]}
    /\ kid' = [kid EXCEPT ![ctx[r]] = None]
    /\ UNCHANGED <<clock, treevars, pc, state, new, ctx, child>>

-----------------------------------------------------------------------------
(* The request ends *)

Ends(r) == pc' = [pc EXCEPT ![r] = "ended"]

\* The reply is an Access-Accept or an Access-Reject: fr_state_discard, which
\* leaves the request alone when there is no entry.
Discard(r) ==
    /\ Runs(r) \/ pc[r] = "rejected"
    /\ Ends(r)
    /\ IF Find(state[r]) = {}
       THEN UNCHANGED <<tree, to_expire, ctx, ctxvars>>
       ELSE /\ Unlink(Find(state[r]))
            /\ Replace({e.ctx : e \in Find(state[r])} \cup {ctx[r]}, {<<r, 1>>})
            /\ ctx' = [ctx EXCEPT ![r] = <<r, 1>>]
    /\ UNCHANGED <<clock, randoms, told, state, new, child>>

\* No reply, or a challenge of a request that has nothing to save.
EndWithout(r) ==
    /\ Runs(r)
    /\ Ends(r)
    /\ UNCHANGED <<clock, treevars, state, new, ctx, child, ctxvars>>

\* Variant of TooMany: off by one.
TooManyByOne(old, kept) == old = {} /\ Cardinality(kept) > MaxSessions

\* A session that goes on is never refused.
TooMany(old, kept) == old = {} /\ Cardinality(kept) >= MaxSessions

\* Variant of NewEntry: the count of rounds does not go into the value.
NewEntrySame(old, own, cleanup) ==
    IF old = {} \/ own
    THEN [state |-> [random |-> randoms + 1, mixed |-> FALSE, tries |-> 1],
          tries |-> 0, cleanup |-> cleanup]
    ELSE LET e == CHOOSE e \in old : TRUE
         IN  [state |-> e.state, tries |-> e.tries + 1, cleanup |-> cleanup]

\* The state value: another round of the old session, or a random one.
\* own: a module has put a State, random as well, into the reply.
NewEntry(old, own, cleanup) ==
    IF old = {} \/ own
    THEN [state |-> [random |-> randoms + 1, mixed |-> FALSE, tries |-> 1],
          tries |-> 0, cleanup |-> cleanup]
    ELSE LET e == CHOOSE e \in old : TRUE
         IN  [state |-> [random |-> e.state.random, mixed |-> e.state.mixed,
                         tries |-> (e.tries + 2) % 256],
              tries |-> e.tries + 1, cleanup |-> cleanup]

\* Requests whose worker is between the two sections of state_entry_create.
InWindow == {r \in Requests : pc[r] = "saving"}

\* fr_request_to_state: the first half of state_entry_create, which ends with
\* the mutex released and the unlinked entries freed.
Save(r, own) ==
    /\ Runs(r) /\ (ctx[r] \in pairs \/ kid[ctx[r]] # None)
    /\ Cardinality(InWindow) < NumWorkers
    /\ \E old \in {Find(state[r])} : \E gone \in {Expired(old) \cup {e \in old : DataEmpty(e)}} :
        /\ Unlink(gone)
        /\ Replace({e.ctx : e \in gone}, {})
        /\ IF TooMany(old, tree \ Expired(old))
           THEN Ends(r) /\ UNCHANGED <<randoms, new>>
           ELSE /\ pc' = [pc EXCEPT ![r] = "saving"]
                /\ new' = [new EXCEPT ![r] = NewEntry(old, own, clock + Timeout)]
                /\ randoms' = IF old = {} \/ own THEN randoms + 1 ELSE randoms
    /\ UNCHANGED <<clock, told, state, ctx, child>>

\* The second half, with the mutex again, and the rest of fr_request_to_state.
\* A value that is in the tree is refused, and the request keeps its session.
Insert(r) ==
    /\ pc[r] = "saving"
    /\ IF \E d \in tree : d.state = Mix(new[r].state)
       THEN UNCHANGED <<tree, to_expire, told, ctx, live>>
       ELSE /\ tree' = tree \cup {[state |-> Mix(new[r].state), tries |-> new[r].tries,
                                   cleanup |-> new[r].cleanup, ctx |-> ctx[r], thawed |-> None]}
            /\ to_expire' = Append(to_expire, Mix(new[r].state))
            /\ told' = told \cup {new[r].state}
            /\ ctx' = [ctx EXCEPT ![r] = <<r, 1>>]
            /\ live' = live \cup {<<r, 1>>}
    /\ Ends(r)
    /\ new' = [new EXCEPT ![r] = NoEntry]
    /\ UNCHANGED <<clock, randoms, state, child, pairs, kid>>

\* _request_free
Free(r) ==
    /\ pc[r] = "ended"
    /\ pc' = [pc EXCEPT ![r] = "freed"]
    /\ state' = [state EXCEPT ![r] = NoState]
    /\ Replace({ctx[r]}, {})
    /\ UNCHANGED <<clock, treevars, new, ctx, child>>

Tick ==
    /\ clock < MaxTime
    /\ clock' = clock + 1
    /\ UNCHANGED <<treevars, pc, state, new, ctx, child, ctxvars>>

Next ==
    \/ \E r \in Requests :
        \/ \E v \in told \cup {NoState} : RecvUnknown(r, v) \/ RecvKnown(r, v) \/ RecvThawed(r, v)
        \/ Policy(r) \/ RestoreToChild(r) \/ DiscardChild(r)
        \/ \E adds \in BOOLEAN : StoreInParent(r, adds)
        \/ \E own \in BOOLEAN : Save(r, own)
        \/ Insert(r) \/ Discard(r) \/ EndWithout(r) \/ Free(r)
    \/ Tick

Spec == Init /\ [][Next]_vars

-----------------------------------------------------------------------------

TypeOK ==
    /\ clock \in 0..MaxTime
    /\ tree \subseteq [state : Values, tries : Nat, cleanup : Nat, ctx : Contexts \cup {None},
                       thawed : {None} \cup {<<r>> : r \in Requests}]
    /\ told \subseteq Values /\ randoms \in Nat
    /\ pc \in [Requests -> {"new", "run", "rejected", "saving", "ended", "freed"}]
    /\ state \in [Requests -> Values]
    /\ new \in [Requests -> [state : Values, tries : Nat, cleanup : Nat]]
    /\ ctx \in [Requests -> Contexts] /\ child \in [Requests -> Contexts \cup {None}]
    /\ live \subseteq Contexts /\ pairs \subseteq live
    /\ kid \in [Contexts -> Contexts \cup {None}]

\* What is in the tree is in the list, once.
ListAgrees ==
    /\ {e.state : e \in tree} = {to_expire[i] : i \in 1..Len(to_expire)}
    /\ Len(to_expire) = Cardinality(tree)

\* Who points to c.
Owners(c) ==
    {<<"request", r>> : r \in {r \in Requests : pc[r] # "freed" /\ ctx[r] = c}}
    \cup {<<"subrequest", r>> : r \in {r \in Requests : child[r] = c}}
    \cup {<<"entry", e>> : e \in {e \in tree : e.ctx = c}}
    \cup {<<"data", d>> : d \in {d \in Contexts : kid[d] = c}}

\* A session state has one owner as long as it is allocated, and none when it
\* is not: it is not freed twice, used after it was freed, or forgotten.
OneOwner == TypeOK /\ \A c \in Contexts :
    /\ Owners(c) # {} <=> c \in live
    /\ \A a, b \in Owners(c) : a = b

\* The sessions, and those about to be inserted, against the limit.
WithinLimit == Cardinality(tree) + Cardinality(InWindow) < MaxSessions + NumWorkers

\* max_sessions is tested, the mutex released, and the entry inserted when it
\* is taken again: the limit is exceeded by at most one session less than there
\* are workers.  The list the entries expire by holds each of them once.
SessionsBounded == ListAgrees /\ WithinLimit

\* The sessions that can be taken, with the values their clients were told.
Stored == {<<Mix(e.state), e.ctx>> : e \in {e \in tree : e.ctx # None}}

Store == INSTANCE SessionStore WITH stored <- Stored, held <- ctx

\* The code implements SessionStore: a session is stored under one value or held
\* by one request, is taken once, and no value is given out a second time.  An
\* entry that has been thawed stays in the tree with nothing stored in it.
RefinesStore == Store!Spec
=============================================================================
