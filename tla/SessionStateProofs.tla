------------------------- MODULE SessionStateProofs -------------------------
(***************************************************************************)
(* The session state of a request has one owner, for every number of       *)
(* requests, workers and sessions and whatever values clients send.  While *)
(* no session has come to the end of its count of rounds, which is a byte, *)
(* a session has one value at a time; the table then implements            *)
(* SessionStore, and its size is bounded by the limit and the workers.     *)
(***************************************************************************)
EXTENDS SessionState, TLAPS

\* Where session states can be: what a request was allocated with is held by
\* requests and entries, what it gets afterwards it keeps until it is freed,
\* and what its subrequest was allocated with goes from a subrequest to the
\* data of a session state and back.
Placed ==
    /\ \A r \in Requests :
        /\ ctx[r][2] = 0 \/ (ctx[r] = <<r, 1>> /\ pc[r] \in {"ended", "freed"})
        /\ child[r] # None => child[r][2] = 2 /\ pc[r] = "run" /\ kid[ctx[r]] = None
    /\ \A e \in tree : /\ e.ctx # None => e.ctx[2] = 0
                       /\ e.ctx = None <=> e.thawed # None
    /\ \A c \in Contexts : kid[c] # None => kid[c][2] = 2 /\ c[2] # 2

\* Everything that is pointed to is allocated.
NoneDangles ==
    /\ \A r \in Requests : /\ pc[r] # "freed" => ctx[r] \in live
                           /\ child[r] # None => child[r] \in live
    /\ \A e \in tree : e.ctx # None => e.ctx \in live
    /\ \A c \in Contexts : kid[c] # None => c \in live /\ kid[c] \in live

\* Everything that is allocated is pointed to.
NoneLeaks ==
    \A c \in live : \/ \E r \in Requests : pc[r] # "freed" /\ ctx[r] = c
                    \/ \E r \in Requests : child[r] = c
                    \/ \E e \in tree : e.ctx = c
                    \/ \E d \in Contexts : kid[d] = c

\* Nothing is pointed to twice.
NoneShared ==
    /\ \A q, r \in Requests : /\ ctx[q] = ctx[r] /\ pc[q] # "freed" /\ pc[r] # "freed" => q = r
                              /\ child[q] = child[r] /\ child[q] # None => q = r
    /\ \A e, d \in tree : e.ctx = d.ctx /\ e.ctx # None => e = d
    /\ \A e \in tree, r \in Requests : e.ctx = ctx[r] => pc[r] = "freed"
    /\ \A c, d \in Contexts : kid[c] = kid[d] /\ kid[c] # None => c = d
    /\ \A c \in Contexts, r \in Requests : kid[c] = child[r] => kid[c] = None

\* What a request is going to allocate is not in use.
Fresh ==
    \A r \in Requests :
        /\ pc[r] \notin {"ended", "freed"} => <<r, 1>> \notin live
        /\ <<r, 2>> \in live => /\ pc[r] \notin {"new", "rejected"}
                                /\ pc[r] = "run" => child[r] = <<r, 2>> \/ kid[ctx[r]] = <<r, 2>>

Owned == Placed /\ NoneDangles /\ NoneLeaks /\ NoneShared /\ Fresh
OwnInv == TypeOK /\ Owned

-----------------------------------------------------------------------------
LEMMA NoneIsNoContext == None \notin Contexts
BY DEF None, Contexts

LEMMA InitOwn == Init => OwnInv
<1> SUFFICES ASSUME Init PROVE OwnInv
  BY Zenon
<1>1. TypeOK
  BY SessionAssumption DEF Init, TypeOK, Contexts, None, NoState, NoEntry, Values
<1>2. Placed
  BY NoneIsNoContext, Zenon DEF Init, Placed, Contexts
<1>3. NoneDangles
  BY NoneIsNoContext, Zenon DEF Init, NoneDangles
<1>4. NoneLeaks
  BY Zenon DEF Init, NoneLeaks
<1>5. NoneShared
  BY NoneIsNoContext, Zenon DEF Init, NoneShared
<1>6. Fresh
  BY DEF Init, Fresh
<1> QED
  BY <1>1, <1>2, <1>3, <1>4, <1>5, <1>6, Zenon DEF OwnInv, Owned

LEMMA NoStateIsValue == NoState \in Values
BY DEF NoState, Values

\* What Replace does, given that data is never nested.
LEMMA ReplaceOne ==
    ASSUME OwnInv, NEW c \in Contexts, NEW N \in SUBSET Contexts, Replace({c}, N)
    PROVE  /\ live' = (live \ {c, kid[c]}) \cup N
           /\ pairs' = pairs \ {c, kid[c]}
           /\ kid' = [d \in Contexts |-> IF d = c THEN None ELSE kid[d]]
<1> DEFINE dead == {c} \cup {kid[d] : d \in {c} \ {None}}
<1>1. dead = {c, kid[c]}
  BY NoneIsNoContext, Zenon
<1>2. /\ live' = (live \ dead) \cup N
      /\ pairs' = pairs \ dead
      /\ kid' = [d \in Contexts |-> IF d \in dead THEN None ELSE kid[d]]
  BY Zenon DEF Replace
<1>3. \A d \in Contexts : d = kid[c] => kid[d] = None
  BY NoneIsNoContext DEF OwnInv, Owned, Placed, TypeOK
<1>4. kid' = [d \in Contexts |-> IF d = c THEN None ELSE kid[d]]
  BY <1>1, <1>2, <1>3, Zenon
<1> QED
  BY <1>1, <1>2, <1>4, Zenon

LEMMA ReplaceSome ==
    ASSUME OwnInv, NEW C \in SUBSET (Contexts \cup {None}), NEW N \in SUBSET Contexts, Replace(C, N)
    PROVE  /\ live' = (live \ (C \cup {kid[c] : c \in C \ {None}})) \cup N
           /\ pairs' = pairs \ (C \cup {kid[c] : c \in C \ {None}})
           /\ kid' = [d \in Contexts |-> IF d \in C THEN None ELSE kid[d]]
<1> DEFINE dead == C \cup {kid[c] : c \in C \ {None}}
<1>1. /\ live' = (live \ dead) \cup N
      /\ pairs' = pairs \ dead
      /\ kid' = [d \in Contexts |-> IF d \in dead THEN None ELSE kid[d]]
  BY Zenon DEF Replace
<1>2. \A d \in Contexts : d \in dead /\ d \notin C => kid[d] = None
  BY NoneIsNoContext DEF OwnInv, Owned, Placed, TypeOK
<1>3. kid' = [d \in Contexts |-> IF d \in C THEN None ELSE kid[d]]
  <2>1. \A d \in Contexts : (IF d \in dead THEN None ELSE kid[d]) = (IF d \in C THEN None ELSE kid[d])
    BY <1>2, Zenon
  <2> HIDE DEF dead
  <2> QED
    BY <1>1, <2>1, Zenon
<1> QED
  BY <1>1, <1>3, Zenon

-----------------------------------------------------------------------------
(* Steps                                                                   *)

LEMMA RecvUnknownOwn ==
    ASSUME OwnInv, NEW r \in Requests, NEW v \in told \cup {NoState}, RecvUnknown(r, v)
    PROVE  OwnInv'
<1> USE DEF OwnInv, Owned, RecvUnknown, Begins, vars, treevars, ctxvars
<1>1. TypeOK'
  BY NoStateIsValue, Zenon DEF TypeOK
<1>2. Placed'
  BY Zenon DEF TypeOK, Placed
<1>3. NoneDangles'
  BY Zenon DEF TypeOK, NoneDangles
<1>4. NoneLeaks'
  BY Zenon DEF TypeOK, NoneLeaks
<1>5. NoneShared'
  BY Zenon DEF TypeOK, NoneShared
<1>6. Fresh'
  BY Zenon DEF TypeOK, Fresh
<1> QED
  BY <1>1, <1>2, <1>3, <1>4, <1>5, <1>6, Zenon

LEMMA RecvKnownOwn ==
    ASSUME OwnInv, NEW r \in Requests, NEW v \in told \cup {NoState}, RecvKnown(r, v)
    PROVE  OwnInv'
<1>1. ctx[r] \in Contexts
  BY Zenon DEF OwnInv, TypeOK
<1>2. /\ live' = live \ {ctx[r], kid[ctx[r]]}
      /\ pairs' = pairs \ {ctx[r], kid[ctx[r]]}
      /\ kid' = [d \in Contexts |-> IF d = ctx[r] THEN None ELSE kid[d]]
  <2>1. Replace({ctx[r]}, {})
    BY Zenon DEF RecvKnown
  <2>2. {} \in SUBSET Contexts
    BY Zenon
  <2>3. /\ live' = (live \ {ctx[r], kid[ctx[r]]}) \cup {}
        /\ pairs' = pairs \ {ctx[r], kid[ctx[r]]}
        /\ kid' = [d \in Contexts |-> IF d = ctx[r] THEN None ELSE kid[d]]
    BY <1>1, <2>1, <2>2, ReplaceOne, Zenon
  <2> QED
    BY <2>3, Zenon
<1> USE NoneIsNoContext DEF OwnInv, Owned
<1>3. PICK e \in tree : /\ e.thawed = None
                        /\ tree' = (tree \ {e}) \cup {Thaw(e, r)}
                        /\ ctx' = [ctx EXCEPT ![r] = e.ctx]
  BY Zenon DEF RecvKnown, Find
<1>4. /\ pc[r] = "new" /\ pc' = [pc EXCEPT ![r] = "run"] /\ state' = [state EXCEPT ![r] = v]
      /\ UNCHANGED <<clock, randoms, told, new, child>>
  BY Zenon DEF RecvKnown, Begins
<1>5. e.ctx \in Contexts /\ e.ctx[2] = 0 /\ e.ctx \in live
  BY <1>3, Zenon DEF TypeOK, Placed, NoneDangles
<1>6. Thaw(e, r).ctx = None /\ Thaw(e, r).thawed # None
  BY Zenon DEF Thaw, None
<1>7. e.ctx # ctx[r] /\ e.ctx # kid[ctx[r]]
  BY <1>4, <1>1, <1>5 DEF NoneShared, Placed, TypeOK
<1>8. TypeOK'
  <2>1. Thaw(e, r) \in [state : Values, tries : Nat, cleanup : Nat, ctx : Contexts \cup {None},
                        thawed : {None} \cup {<<q>> : q \in Requests}]
    BY Zenon DEF Thaw, TypeOK
  <2>2. tree' \subseteq [state : Values, tries : Nat, cleanup : Nat, ctx : Contexts \cup {None},
                         thawed : {None} \cup {<<q>> : q \in Requests}]
    BY <2>1, <1>3, Zenon DEF TypeOK
  <2>3. kid' \in [Contexts -> Contexts \cup {None}]
    BY <1>2, Zenon DEF TypeOK
  <2> QED
    BY <2>2, <2>3, <1>3, <1>4, <1>2, <1>5, NoStateIsValue, Zenon DEF TypeOK
<1>9. Placed'
  BY <1>3, <1>4, <1>2, <1>5, <1>6, Zenon DEF TypeOK, Placed
<1>10. NoneDangles'
  <2>1. \A q \in Requests : /\ pc'[q] # "freed" => ctx'[q] \in live'
                            /\ child'[q] # None => child'[q] \in live'
    BY <1>3, <1>4, <1>2, <1>5, <1>7 DEF TypeOK, Placed, NoneDangles, NoneShared
  <2>2. \A d \in tree' : d.ctx # None => d.ctx \in live'
    BY <1>3, <1>4, <1>2, <1>6 DEF TypeOK, Placed, NoneDangles, NoneShared
  <2>3. \A c \in Contexts : kid'[c] # None => c \in live' /\ kid'[c] \in live'
    BY <1>1, <1>2 DEF TypeOK, Placed, NoneDangles, NoneShared
  <2> QED
    BY <2>1, <2>2, <2>3, Zenon DEF NoneDangles
<1>11. NoneLeaks'
  BY <1>3, <1>4, <1>2, <1>5, <1>6, <1>7 DEF TypeOK, NoneLeaks
<1>12. NoneShared'
  BY <1>3, <1>4, <1>2, <1>5, <1>6 DEF TypeOK, NoneShared
<1>13. Fresh'
  BY <1>3, <1>4, <1>1, <1>2, <1>5, <1>7, Zenon DEF TypeOK, NoneShared, Fresh
<1> QED
  BY <1>8, <1>9, <1>10, <1>11, <1>12, <1>13, Zenon

LEMMA RecvThawedOwn ==
    ASSUME OwnInv, NEW r \in Requests, NEW v \in told \cup {NoState}, RecvThawed(r, v)
    PROVE  OwnInv'
<1> USE DEF OwnInv, Owned, RecvThawed, Begins, vars, treevars, ctxvars
<1>1. TypeOK'
  BY NoStateIsValue, Zenon DEF TypeOK
<1>2. Placed'
  BY Zenon DEF TypeOK, Placed
<1>3. NoneDangles'
  BY Zenon DEF TypeOK, NoneDangles
<1>4. NoneLeaks'
  BY Zenon DEF TypeOK, NoneLeaks
<1>5. NoneShared'
  BY Zenon DEF TypeOK, NoneShared
<1>6. Fresh'
  BY Zenon DEF TypeOK, Fresh
<1> QED
  BY <1>1, <1>2, <1>3, <1>4, <1>5, <1>6, Zenon

LEMMA PolicyOwn ==
    ASSUME OwnInv, NEW r \in Requests, Policy(r)
    PROVE  OwnInv'
<1> USE DEF OwnInv, Owned, Policy, Runs, vars, treevars, ctxvars
<1>1. TypeOK'
  BY Zenon DEF TypeOK, NoneDangles
<1>2. Placed' /\ NoneDangles' /\ NoneLeaks' /\ NoneShared' /\ Fresh'
  BY DEF Placed, NoneDangles, NoneLeaks, NoneShared, Fresh
<1> QED
  BY <1>1, <1>2, Zenon

\* The subrequest takes what an earlier one has left, or is new.
LEMMA RestoreToChildOwn ==
    ASSUME OwnInv, NEW r \in Requests, RestoreToChild(r)
    PROVE  OwnInv'
<1> USE NoneIsNoContext DEF OwnInv, Owned
<1>1. /\ pc[r] = "run" /\ child[r] = None /\ ctx[r] \in live /\ ctx[r] \in Contexts
      /\ UNCHANGED <<clock, tree, to_expire, randoms, told, pc, state, new, ctx, pairs>>
  BY Zenon DEF RestoreToChild, Runs, treevars, NoneDangles, TypeOK
<1>2. CASE kid[ctx[r]] = None
  <2>1. <<r, 2>> \in Contexts
    BY DEF Contexts
  <2>2. PICK c \in Contexts : c = <<r, 2>>
    BY <2>1, Zenon
  <2>3. /\ child' = [child EXCEPT ![r] = c]
        /\ live' = live \cup {c} /\ kid' = kid
    BY <1>2, <2>2, Zenon DEF RestoreToChild
  <2>4. c # None /\ c[2] = 2 /\ \A q \in Requests : <<q, 1>> # c /\ (<<q, 2>> = c => q = r)
    BY <2>2
  <2>5. c \notin live
    BY <1>1, <1>2, <2>2, <2>4, Zenon DEF Fresh
  <2>6. TypeOK'
    BY <1>1, <2>3, Zenon DEF TypeOK
  <2>7. Placed'
    BY <1>1, <1>2, <2>3, <2>4, Zenon DEF TypeOK, Placed
  <2>8. NoneDangles'
    BY <1>1, <2>3, Zenon DEF TypeOK, NoneDangles
  <2>9. NoneLeaks'
    <3>1. child'[r] = c
      BY <2>3, Zenon DEF TypeOK
    <3>2. \A q \in Requests : child[q] # None => child'[q] = child[q]
      BY <1>1, <2>3, Zenon DEF TypeOK
    <3>3. ASSUME NEW d \in live PROVE d # None
      BY Zenon DEF TypeOK
    <3> QED
      BY <1>1, <2>3, <3>1, <3>2, <3>3 DEF NoneLeaks
  <2>10. NoneShared'
    BY <1>1, <2>3, <2>4, <2>5 DEF TypeOK, NoneDangles, NoneShared
  <2>11. Fresh'
    <3>1. child'[r] = c /\ \A q \in Requests : q # r => child'[q] = child[q]
      BY <2>3, Zenon DEF TypeOK
    <3>2. c = <<r, 2>>
      BY <2>2, Zenon
    <3> QED
      BY <1>1, <2>3, <2>4, <3>1, <3>2, Zenon DEF Fresh
  <2> QED
    BY <2>6, <2>7, <2>8, <2>9, <2>10, <2>11, Zenon
<1>3. CASE kid[ctx[r]] # None
  <2>1. /\ child' = [child EXCEPT ![r] = kid[ctx[r]]]
        /\ kid' = [kid EXCEPT ![ctx[r]] = None] /\ live' = live
    BY <1>3, Zenon DEF RestoreToChild
  <2>2. kid[ctx[r]] \in live /\ kid[ctx[r]] \in Contexts /\ kid[ctx[r]][2] = 2
    BY <1>1, <1>3, Zenon DEF TypeOK, NoneDangles, Placed
  <2>3. TypeOK'
    BY <1>1, <2>1, <2>2, Zenon DEF TypeOK
  <2>4. Placed'
    BY <1>1, <2>1, <2>2, Zenon DEF TypeOK, Placed
  <2>5. NoneDangles'
    BY <1>1, <2>1, <2>2, Zenon DEF TypeOK, NoneDangles
  <2>6. NoneLeaks'
    BY <1>1, <2>1, <2>2 DEF TypeOK, NoneLeaks
  <2>7. NoneShared'
    BY <1>1, <2>1, <2>2, <1>3 DEF TypeOK, NoneShared
  <2>8. Fresh'
    BY <1>1, <2>1, <2>2, Zenon DEF TypeOK, NoneShared, Fresh
  <2> QED
    BY <2>3, <2>4, <2>5, <2>6, <2>7, <2>8, Zenon
<1> QED
  BY <1>2, <1>3, Zenon

\* The subrequest leaves its session state with the parent, or it goes.
LEMMA StoreInParentOwn ==
    ASSUME OwnInv, NEW r \in Requests, NEW adds \in BOOLEAN, StoreInParent(r, adds)
    PROVE  OwnInv'
<1>1. /\ child[r] # None /\ child[r] \in Contexts /\ child[r] \in live /\ child[r][2] = 2
      /\ pc[r] = "run" /\ ctx[r] \in Contexts /\ ctx[r] \in live /\ ctx[r][2] = 0
      /\ child' = [child EXCEPT ![r] = None]
      /\ UNCHANGED <<clock, tree, to_expire, randoms, told, pc, state, new, ctx>>
  BY NoneIsNoContext, Zenon DEF OwnInv, Owned, StoreInParent, treevars, NoneDangles, Placed, TypeOK
<1>2. CASE adds \/ child[r] \in pairs
  <2> USE NoneIsNoContext DEF OwnInv, Owned
  <2>1. /\ pairs' = pairs \cup {child[r]}
        /\ kid' = [kid EXCEPT ![ctx[r]] = child[r]] /\ live' = live
    BY <1>2, Zenon DEF StoreInParent
  <2>2. kid[ctx[r]] = None
    BY <1>1, Zenon DEF Placed
  <2>3. TypeOK'
    BY <1>1, <2>1, Zenon DEF TypeOK
  <2>4. Placed'
    BY <1>1, <2>1 DEF TypeOK, Placed, NoneShared
  <2>5. NoneDangles'
    BY <1>1, <2>1, Zenon DEF TypeOK, NoneDangles
  <2>6. NoneLeaks'
    BY <1>1, <2>1, <2>2 DEF TypeOK, NoneLeaks
  <2>7. NoneShared'
    BY <1>1, <2>1 DEF TypeOK, NoneShared
  <2>8. Fresh'
    BY <1>1, <2>1, <2>2, ZenonT(40) DEF TypeOK, NoneShared, Fresh
  <2> QED
    BY <2>3, <2>4, <2>5, <2>6, <2>7, <2>8, Zenon
<1>3. CASE ~(adds \/ child[r] \in pairs)
  <2>1. Replace({child[r]}, {}) /\ {} \in SUBSET Contexts
    BY <1>3, Zenon DEF StoreInParent
  <2>2. /\ live' = (live \ {child[r], kid[child[r]]}) \cup {}
        /\ pairs' = pairs \ {child[r], kid[child[r]]}
        /\ kid' = [d \in Contexts |-> IF d = child[r] THEN None ELSE kid[d]]
    BY <1>1, <2>1, ReplaceOne, Zenon
  <2> USE NoneIsNoContext DEF OwnInv, Owned
  <2>3. kid[child[r]] = None /\ None \notin live
    BY <1>1, Zenon DEF TypeOK, Placed
  <2>4. /\ live' = live \ {child[r]} /\ pairs' = pairs \ {child[r]} /\ kid' = kid
    BY <2>2, <2>3 DEF TypeOK
  <2>5. TypeOK'
    BY <1>1, <2>4, Zenon DEF TypeOK
  <2>6. Placed'
    BY <1>1, <2>4, Zenon DEF TypeOK, Placed
  <2>7. NoneDangles'
    BY <1>1, <2>4, SMTT(20) DEF TypeOK, Placed, NoneDangles, NoneShared
  <2>8. NoneLeaks'
    <3>1. \A q \in Requests : child[q] # child[r] => child'[q] = child[q]
      BY <1>1, SMTT(20) DEF TypeOK
    <3> QED
      BY <1>1, <2>4, <3>1 DEF NoneLeaks
  <2>9. NoneShared'
    BY <1>1, <2>4 DEF TypeOK, NoneShared
  <2>10. Fresh'
    BY <1>1, <2>4, Zenon DEF TypeOK, NoneShared, Fresh
  <2> QED
    BY <2>5, <2>6, <2>7, <2>8, <2>9, <2>10, Zenon
<1> QED
  BY <1>2, <1>3, Zenon

LEMMA DiscardChildOwn ==
    ASSUME OwnInv, NEW r \in Requests, DiscardChild(r)
    PROVE  OwnInv'
<1> USE NoneIsNoContext DEF OwnInv, Owned
<1>1. /\ pc[r] = "run" /\ child[r] = None /\ ctx[r] \in live /\ ctx[r] \in Contexts
      /\ kid[ctx[r]] # None /\ kid[ctx[r]] \in Contexts /\ kid[ctx[r]][2] = 2
      /\ live' = live \ {kid[ctx[r]]} /\ pairs' = pairs \ {kid[ctx[r]]}
      /\ kid' = [kid EXCEPT ![ctx[r]] = None]
      /\ UNCHANGED <<clock, tree, to_expire, randoms, told, pc, state, new, ctx, child>>
  BY Zenon DEF DiscardChild, Runs, treevars, NoneDangles, Placed, TypeOK
<1>2. TypeOK'
  BY <1>1, Zenon DEF TypeOK
<1>3. Placed'
  BY <1>1, SMTT(20) DEF TypeOK, Placed
<1>4. NoneDangles'
  BY <1>1, SMTT(20) DEF TypeOK, Placed, NoneDangles, NoneShared
<1>5. NoneLeaks'
  <2>1. \A d \in Contexts : kid[d] # kid[ctx[r]] => kid'[d] = kid[d]
    BY <1>1, SMTT(20) DEF TypeOK
  <2> QED
    BY <1>1, <2>1, SMTT(20) DEF NoneLeaks
<1>6. NoneShared'
  BY <1>1 DEF TypeOK, NoneShared
<1>7. Fresh'
  BY <1>1, Zenon DEF TypeOK, NoneShared, Fresh
<1> QED
  BY <1>2, <1>3, <1>4, <1>5, <1>6, <1>7, Zenon

LEMMA EndWithoutOwn ==
    ASSUME OwnInv, NEW r \in Requests, EndWithout(r)
    PROVE  OwnInv'
<1> USE DEF OwnInv, Owned, EndWithout, Runs, Ends, vars, treevars, ctxvars
<1>1. TypeOK'
  BY Zenon DEF TypeOK
<1>2. Placed'
  BY Zenon DEF TypeOK, Placed
<1>3. NoneDangles'
  BY Zenon DEF TypeOK, NoneDangles
<1>4. NoneLeaks'
  BY Zenon DEF TypeOK, NoneLeaks
<1>5. NoneShared'
  BY Zenon DEF TypeOK, NoneShared
<1>6. Fresh'
  BY Zenon DEF TypeOK, Fresh
<1> QED
  BY <1>1, <1>2, <1>3, <1>4, <1>5, <1>6, Zenon

LEMMA FreeOwn ==
    ASSUME OwnInv, NEW r \in Requests, Free(r)
    PROVE  OwnInv'
<1>1. /\ pc[r] = "ended" /\ pc' = [pc EXCEPT ![r] = "freed"] /\ state' = [state EXCEPT ![r] = NoState]
      /\ ctx[r] \in Contexts
      /\ UNCHANGED <<clock, tree, to_expire, randoms, told, new, ctx, child>>
  BY Zenon DEF Free, OwnInv, TypeOK, treevars
<1>2. Replace({ctx[r]}, {}) /\ {} \in SUBSET Contexts
  BY Zenon DEF Free
<1>3. /\ live' = (live \ {ctx[r], kid[ctx[r]]}) \cup {}
      /\ pairs' = pairs \ {ctx[r], kid[ctx[r]]}
      /\ kid' = [d \in Contexts |-> IF d = ctx[r] THEN None ELSE kid[d]]
  BY <1>1, <1>2, ReplaceOne, Zenon
<1>4. live' = live \ {ctx[r], kid[ctx[r]]}
  BY <1>3, SMTT(20)
<1> USE NoneIsNoContext DEF OwnInv, Owned
<1>5. TypeOK'
  BY <1>1, <1>3, <1>4, NoStateIsValue, Zenon DEF TypeOK
<1>6. Placed'
  BY <1>1, <1>3, Zenon DEF TypeOK, Placed
<1>7. NoneDangles'
  BY <1>1, <1>3, <1>4, SMTT(20) DEF TypeOK, Placed, NoneDangles, NoneShared
<1>8. NoneLeaks'
  BY <1>1, <1>3, <1>4, SMTT(20) DEF TypeOK, NoneLeaks
<1>9. NoneShared'
  BY <1>1, <1>3 DEF TypeOK, NoneShared
<1>10. Fresh'
  BY <1>1, <1>3, <1>4, Zenon DEF TypeOK, NoneShared, Fresh
<1> QED
  BY <1>5, <1>6, <1>7, <1>8, <1>9, <1>10, Zenon

LEMMA TickOwn ==
    ASSUME OwnInv, Tick
    PROVE  OwnInv'
<1>1. TypeOK'
  BY SessionAssumption DEF OwnInv, Tick, TypeOK, treevars, ctxvars
<1>2. Owned'
  BY DEF OwnInv, Tick, treevars, ctxvars, Owned, Placed, NoneDangles, NoneLeaks, NoneShared, Fresh
<1> QED
  BY <1>1, <1>2, Zenon DEF OwnInv

\* The entry and what the request holds go; the request gets a new one.
LEMMA DiscardOwn ==
    ASSUME OwnInv, NEW r \in Requests, Discard(r)
    PROVE  OwnInv'
<1>1. /\ pc[r] \in {"run", "rejected"} /\ child[r] = None
      /\ pc' = [pc EXCEPT ![r] = "ended"]
      /\ ctx[r] \in Contexts /\ ctx[r] \in live
      /\ UNCHANGED <<clock, randoms, told, state, new, child>>
  BY NoneIsNoContext, Zenon DEF Discard, Runs, Ends, OwnInv, Owned, TypeOK, Placed, NoneDangles
<1>2. CASE Find(state[r]) = {}
  <2> USE DEF OwnInv, Owned
  <2>1. UNCHANGED <<tree, to_expire, ctx, live, pairs, kid>>
    BY <1>2, Zenon DEF Discard, ctxvars
  <2>2. TypeOK'
    BY <1>1, <2>1, Zenon DEF TypeOK
  <2>3. Placed'
    BY <1>1, <2>1, Zenon DEF TypeOK, Placed
  <2>4. NoneDangles'
    BY <1>1, <2>1, Zenon DEF TypeOK, NoneDangles
  <2>5. NoneLeaks'
    BY <1>1, <2>1, Zenon DEF TypeOK, NoneLeaks
  <2>6. NoneShared'
    BY <1>1, <2>1 DEF TypeOK, NoneShared
  <2>7. Fresh'
    BY <1>1, <2>1, Zenon DEF TypeOK, Fresh
  <2> QED
    BY <2>2, <2>3, <2>4, <2>5, <2>6, <2>7, Zenon
<1>3. CASE Find(state[r]) # {}
  <2> DEFINE E == Find(state[r])
             C == {e.ctx : e \in E} \cup {ctx[r]}
             K == {kid[d] : d \in C \ {None}}
  <2>1. E \subseteq tree
    BY Zenon DEF Find
  <2>2. <<r, 1>> \in Contexts /\ <<r, 1>> # None /\ <<r, 1>>[2] = 1
    BY DEF Contexts, None
  <2>3. PICK n \in Contexts : n = <<r, 1>>
    BY <2>2, Zenon
  <2>4. C \in SUBSET (Contexts \cup {None}) /\ {n} \in SUBSET Contexts
    BY <1>1, <2>1 DEF OwnInv, TypeOK
  <2>5. Replace(C, {n}) /\ tree' = tree \ E /\ ctx' = [ctx EXCEPT ![r] = n]
    BY <1>3, <2>3, Zenon DEF Discard, Unlink
  <2>6. /\ live' = (live \ (C \cup K)) \cup {n}
        /\ pairs' = pairs \ (C \cup K)
        /\ kid' = [d \in Contexts |-> IF d \in C THEN None ELSE kid[d]]
    <3> HIDE DEF C
    <3> QED
      BY <2>4, <2>5, ReplaceSome, Zenon
  <2> USE NoneIsNoContext DEF OwnInv, Owned
  <2>7. n \notin live /\ n[2] = 1
    BY <1>1, <2>3, <2>2, Zenon DEF Fresh
  <2>8. ctx[r] \in C /\ \A e \in tree : e \in E => e.ctx \in C
    BY Zenon
  <2>9. \A c \in C : c # None => c[2] = 0 /\ (c = ctx[r] \/ \E e \in E : e.ctx = c)
    BY <1>1, <2>1 DEF TypeOK, Placed
  <2>10. \A k \in K : k # None => k[2] = 2 /\ \E c \in C : c \in Contexts /\ kid[c] = k
    BY <2>4 DEF TypeOK, Placed
  <2>11. \A c \in Contexts : c \in C /\ kid[c] # None => kid[c] \in K
    BY Zenon
  <2> HIDE DEF C, K, E
  <2>12. TypeOK'
    BY <1>1, <2>5, <2>6, Zenon DEF TypeOK
  <2>13. Placed'
    BY <1>1, <2>3, <2>5, <2>6, <2>7, Zenon DEF TypeOK, Placed
  <2>14. \A q \in Requests : q # r /\ pc[q] # "freed" => ctx[q] \notin C \cup K
    <3> SUFFICES ASSUME NEW q \in Requests, q # r, pc[q] # "freed"
                 PROVE  ctx[q] \notin C \cup K
      BY Zenon
    <3>1. ctx[q] \in Contexts /\ ctx[q][2] # 2
      BY DEF TypeOK, Placed
    <3>2. ctx[q] # ctx[r] /\ \A e \in E : e.ctx # ctx[q]
      BY <1>1, <2>1, Zenon DEF NoneShared
    <3> QED
      BY <2>9, <2>10, <3>1, <3>2
  <2>15. \A q \in Requests : child[q] # None => child[q] \notin C \cup K
    BY <2>9, <2>10 DEF TypeOK, Placed, NoneShared
  <2>16. \A e \in tree \ E : e.ctx # None => e.ctx \notin C \cup K
    BY <1>1, <2>1, <2>9, <2>10 DEF TypeOK, Placed, NoneShared
  <2>17. \A c \in Contexts : c \notin C /\ kid[c] # None => c \notin K /\ kid[c] \notin C \cup K
    BY <2>9, <2>10 DEF TypeOK, Placed, NoneShared
  <2>18. NoneDangles'
    <3>1. \A q \in Requests : /\ pc'[q] # "freed" => ctx'[q] \in live'
                              /\ child'[q] # None => child'[q] \in live'
      BY <1>1, <2>5, <2>6, <2>14, <2>15, Zenon DEF TypeOK, NoneDangles
    <3>2. \A e \in tree' : e.ctx # None => e.ctx \in live'
      BY <2>5, <2>6, <2>16, Zenon DEF NoneDangles
    <3>3. \A c \in Contexts : kid'[c] # None => c \in live' /\ kid'[c] \in live'
      BY <2>6, <2>17, Zenon DEF NoneDangles
    <3> QED
      BY <3>1, <3>2, <3>3, Zenon DEF NoneDangles
  <2>19. NoneLeaks'
    <3> SUFFICES ASSUME NEW c \in live'
                 PROVE  \/ \E q \in Requests : pc'[q] # "freed" /\ ctx'[q] = c
                        \/ \E q \in Requests : child'[q] = c
                        \/ \E e \in tree' : e.ctx = c
                        \/ \E d \in Contexts : kid'[d] = c
      BY Zenon DEF NoneLeaks
    <3>1. CASE c = n
      BY <3>1, <1>1, <2>5, Zenon DEF TypeOK
    <3>2. CASE c # n
      <4>1. c \in live /\ c \notin C \cup K
        BY <3>2, <2>6, Zenon
      <4>2. CASE \E q \in Requests : pc[q] # "freed" /\ ctx[q] = c
        BY <4>1, <4>2, <1>1, <2>5, <2>8, Zenon DEF TypeOK
      <4>3. CASE \E q \in Requests : child[q] = c
        BY <4>3, <1>1, Zenon
      <4>4. CASE \E e \in tree : e.ctx = c
        BY <4>1, <4>4, <2>5, <2>8, Zenon
      <4>5. CASE \E d \in Contexts : kid[d] = c
        <5>1. c # None
          BY <4>1, Zenon DEF TypeOK
        <5> QED
          BY <4>1, <4>5, <5>1, <2>6, <2>11, Zenon
      <4> QED
        BY <4>1, <4>2, <4>3, <4>4, <4>5, Zenon DEF NoneLeaks
    <3> QED
      BY <3>1, <3>2, Zenon
  <2>20. NoneShared'
    BY <1>1, <2>5, <2>6, <2>7, SMTT(20) DEF TypeOK, NoneShared, NoneDangles
  <2>21. Fresh'
    <3>1. \A q \in Requests : <<q, 2>> # n /\ (<<q, 1>> = n => q = r)
      BY <2>3
    <3>2. \A q \in Requests : q # r => pc'[q] = pc[q] /\ ctx'[q] = ctx[q] /\ child'[q] = child[q]
      BY <1>1, <2>5, Zenon DEF TypeOK
    <3>3. pc'[r] = "ended"
      BY <1>1, Zenon DEF TypeOK
    <3>4. \A q \in Requests : q # r /\ pc[q] = "run" => kid'[ctx[q]] = kid[ctx[q]]
      BY <2>6, <2>14, Zenon DEF TypeOK
    <3> QED
      BY <2>6, <3>1, <3>2, <3>3, <3>4, ZenonT(40) DEF Fresh
  <2> QED
    BY <2>12, <2>13, <2>18, <2>19, <2>20, <2>21, Zenon
<1> QED
  BY <1>2, <1>3, Zenon


\* The entry takes the session state of the request, which gets a new one.
LEMMA InsertOwn ==
    ASSUME OwnInv, NEW r \in Requests, Insert(r)
    PROVE  OwnInv'
<1> USE NoneIsNoContext DEF OwnInv, Owned
<1>1. /\ pc[r] = "saving" /\ pc' = [pc EXCEPT ![r] = "ended"]
      /\ new' = [new EXCEPT ![r] = NoEntry]
      /\ ctx[r] \in Contexts /\ ctx[r] \in live /\ ctx[r][2] = 0 /\ child[r] = None
      /\ UNCHANGED <<clock, randoms, state, child, pairs, kid>>
  BY Zenon DEF Insert, Ends, TypeOK, NoneDangles, Placed
<1>2. NoEntry \in [state : Values, tries : Nat, cleanup : Nat]
  BY NoStateIsValue, Zenon DEF NoEntry
<1>3. CASE \E d \in tree : d.state = Mix(new[r].state)
  <2>1. UNCHANGED <<tree, to_expire, told, ctx, live>>
    BY <1>3, SMTT(20) DEF Insert
  <2>2. TypeOK'
    BY <1>1, <1>2, <2>1, Zenon DEF TypeOK
  <2>3. Placed'
    BY <1>1, <2>1, Zenon DEF TypeOK, Placed
  <2>4. NoneDangles'
    BY <1>1, <2>1, Zenon DEF TypeOK, NoneDangles
  <2>5. NoneLeaks'
    BY <1>1, <2>1, Zenon DEF TypeOK, NoneLeaks
  <2>6. NoneShared'
    BY <1>1, <2>1 DEF TypeOK, NoneShared
  <2>7. Fresh'
    BY <1>1, <2>1, Zenon DEF TypeOK, Fresh
  <2> QED
    BY <2>2, <2>3, <2>4, <2>5, <2>6, <2>7, Zenon
<1>4. CASE ~\E d \in tree : d.state = Mix(new[r].state)
  <2> DEFINE e == [state |-> Mix(new[r].state), tries |-> new[r].tries,
                   cleanup |-> new[r].cleanup, ctx |-> ctx[r], thawed |-> None]
  <2>1. <<r, 1>> \in Contexts /\ <<r, 1>> # None /\ <<r, 1>>[2] = 1
    BY DEF Contexts, None
  <2>2. PICK n \in Contexts : n = <<r, 1>>
    BY <2>1, Zenon
  <2>3. /\ tree' = tree \cup {e} /\ told' = told \cup {new[r].state}
        /\ ctx' = [ctx EXCEPT ![r] = n] /\ live' = live \cup {n}
    BY <1>4, <2>2, Zenon DEF Insert
  <2>4. e.ctx = ctx[r] /\ e.thawed = None
    BY Zenon
  <2>5. n \notin live /\ n[2] = 1
    BY <1>1, <2>1, <2>2, Zenon DEF Fresh
  <2>6. TypeOK'
    <3>1. new[r] \in [state : Values, tries : Nat, cleanup : Nat]
      BY Zenon DEF TypeOK
    <3>2. new[r].state \in Values /\ Mix(new[r].state) \in Values
      BY <3>1, Zenon DEF Mix, Values
    <3>3. e \in [state : Values, tries : Nat, cleanup : Nat, ctx : Contexts \cup {None},
                 thawed : {None} \cup {<<q>> : q \in Requests}]
      BY <1>1, <3>1, <3>2, Zenon
    <3> HIDE DEF e
    <3> QED
      BY <1>1, <1>2, <2>3, <3>2, <3>3, Zenon DEF TypeOK
  <2> HIDE DEF e
  <2>7. Placed'
    BY <1>1, <2>2, <2>3, <2>4, <2>5, ZenonT(40) DEF TypeOK, Placed
  <2>8. NoneDangles'
    BY <1>1, <2>3, <2>4, Zenon DEF TypeOK, NoneDangles
  <2>9. NoneLeaks'
    <3>1. \A q \in Requests : q # r => pc'[q] = pc[q] /\ ctx'[q] = ctx[q]
      BY <1>1, <2>3, Zenon DEF TypeOK
    <3>2. pc'[r] # "freed" /\ ctx'[r] = n
      BY <1>1, <2>3, Zenon DEF TypeOK
    <3> QED
      BY <1>1, <2>3, <2>4, <3>1, <3>2 DEF NoneLeaks
  <2>10. NoneShared'
    <3>1. \A q, p \in Requests :
            /\ ctx'[q] = ctx'[p] /\ pc'[q] # "freed" /\ pc'[p] # "freed" => q = p
            /\ child'[q] = child'[p] /\ child'[q] # None => q = p
      BY <1>1, <2>3, <2>5, SMTT(20) DEF TypeOK, NoneDangles, NoneShared
    <3>2. \A d, f \in tree' : d.ctx = f.ctx /\ d.ctx # None => d = f
      BY <1>1, <2>3, <2>4, SMTT(20) DEF NoneShared
    <3>3. \A d \in tree', q \in Requests : d.ctx = ctx'[q] => pc'[q] = "freed"
      BY <1>1, <2>3, <2>4, <2>5 DEF TypeOK, NoneDangles, NoneShared
    <3>4. UNCHANGED <<kid, child>>
      BY <1>1, Zenon
    <3> QED
      BY <3>1, <3>2, <3>3, <3>4, SMTT(20) DEF NoneShared
  <2>11. Fresh'
    <3>1. \A q \in Requests : <<q, 2>> # n /\ (<<q, 1>> = n => q = r)
      BY <2>2
    <3>2. \A q \in Requests : q # r => pc'[q] = pc[q] /\ ctx'[q] = ctx[q]
      BY <1>1, <2>3, Zenon DEF TypeOK
    <3>3. pc'[r] = "ended"
      BY <1>1, Zenon DEF TypeOK
    <3> QED
      BY <1>1, <2>3, <3>1, <3>2, <3>3, ZenonT(40) DEF Fresh
  <2> QED
    BY <2>6, <2>7, <2>8, <2>9, <2>10, <2>11, Zenon
<1> QED
  BY <1>3, <1>4, Zenon

LEMMA NewEntryType ==
    ASSUME TypeOK, NEW old \in SUBSET tree, NEW own \in BOOLEAN, NEW cleanup \in Nat
    PROVE  NewEntry(old, own, cleanup) \in [state : Values, tries : Nat, cleanup : Nat]
<1>1. CASE old = {} \/ own
  BY <1>1 DEF NewEntry, TypeOK, Values
<1>2. CASE ~(old = {} \/ own)
  <2> DEFINE e == CHOOSE e \in old : TRUE
  <2>1. e \in tree
    BY <1>2, Zenon
  <2>2. e.state \in Values /\ e.tries \in Nat
    BY <2>1, Zenon DEF TypeOK
  <2>3. NewEntry(old, own, cleanup) =
            [state |-> [random |-> e.state.random, mixed |-> e.state.mixed, tries |-> (e.tries + 2) % 256],
             tries |-> e.tries + 1, cleanup |-> cleanup]
    BY <1>2, Zenon DEF NewEntry
  <2> HIDE DEF e
  <2>4. (e.tries + 2) % 256 \in 0..255
    BY <2>2
  <2>5. [random |-> e.state.random, mixed |-> e.state.mixed, tries |-> (e.tries + 2) % 256] \in Values
    BY <2>2, <2>4, Zenon DEF Values
  <2> QED
    BY <2>2, <2>3, <2>5
<1> QED
  BY <1>1, <1>2, SMTT(20)

\* Entries go, with what they hold; no request is touched.
LEMMA SaveOwn ==
    ASSUME OwnInv, NEW r \in Requests, NEW own \in BOOLEAN, Save(r, own)
    PROVE  OwnInv'
<1> DEFINE old == Find(state[r])
<1>1. old \subseteq tree
  BY Zenon DEF Find
<1>2. PICK gone \in SUBSET tree :
        /\ Unlink(gone) /\ Replace({e.ctx : e \in gone}, {})
        /\ IF TooMany(old, tree \ Expired(old))
           THEN Ends(r) /\ UNCHANGED <<randoms, new>>
           ELSE /\ pc' = [pc EXCEPT ![r] = "saving"]
                /\ new' = [new EXCEPT ![r] = NewEntry(old, own, clock + Timeout)]
                /\ randoms' = IF old = {} \/ own THEN randoms + 1 ELSE randoms
  <2>1. (Expired(old) \cup {e \in old : DataEmpty(e)}) \in SUBSET tree
    BY <1>1, Zenon DEF Expired
  <2> QED
    BY <2>1, Zenon DEF Save
<1> DEFINE C == {e.ctx : e \in gone}
           K == {kid[d] : d \in C \ {None}}
<1>3. C \in SUBSET (Contexts \cup {None}) /\ {} \in SUBSET Contexts
  BY DEF OwnInv, TypeOK
<1>4. /\ live' = (live \ (C \cup K)) \cup {}
      /\ pairs' = pairs \ (C \cup K)
      /\ kid' = [d \in Contexts |-> IF d \in C THEN None ELSE kid[d]]
  <2>1. Replace(C, {})
    BY <1>2, Zenon
  <2> HIDE DEF C
  <2> QED
    BY <1>3, <2>1, ReplaceSome, Zenon
<1>5. live' = live \ (C \cup K) /\ tree' = tree \ gone
  BY <1>2, <1>4, Zenon DEF Unlink
<1>6. /\ pc[r] = "run" /\ child[r] = None
      /\ UNCHANGED <<clock, told, state, ctx, child>>
  BY Zenon DEF Save, Runs
<1>7. pc' \in {[pc EXCEPT ![r] = "saving"], [pc EXCEPT ![r] = "ended"]}
  BY <1>2, Zenon DEF Ends
<1> USE NoneIsNoContext DEF OwnInv, Owned
<1>8. \A e \in gone : e.ctx \in C
  BY Zenon
<1>9. \A c \in C : c # None => c[2] = 0 /\ \E e \in gone : e.ctx = c
  BY DEF Placed
<1>10. \A k \in K : k # None => k[2] = 2 /\ \E c \in C : c \in Contexts /\ kid[c] = k
  BY <1>3 DEF TypeOK, Placed
<1>11. \A c \in Contexts : c \in C /\ kid[c] # None => kid[c] \in K
  BY Zenon
<1>12. new' \in [Requests -> [state : Values, tries : Nat, cleanup : Nat]] /\ randoms' \in Nat
  <2>1. clock + Timeout \in Nat
    BY SessionAssumption DEF TypeOK
  <2>2. NewEntry(old, own, clock + Timeout) \in [state : Values, tries : Nat, cleanup : Nat]
    BY <1>1, <2>1, NewEntryType, Zenon
  <2> HIDE DEF old
  <2> QED
    BY <1>2, <2>2 DEF TypeOK
<1> HIDE DEF old, C, K
<1>13. \A q \in Requests : pc[q] # "freed" => ctx[q] \notin C \cup K
  <2> SUFFICES ASSUME NEW q \in Requests, pc[q] # "freed"
               PROVE  ctx[q] \notin C \cup K
    BY Zenon
  <2>1. ctx[q] \in Contexts /\ ctx[q][2] # 2
    BY DEF TypeOK, Placed
  <2>2. \A e \in gone : e.ctx # ctx[q]
    BY Zenon DEF NoneShared
  <2> QED
    BY <1>9, <1>10, <2>1, <2>2, Zenon
<1>14. \A q \in Requests : child[q] # None => child[q] \notin C \cup K
  BY <1>9, <1>10 DEF TypeOK, Placed, NoneShared
<1>15. \A e \in tree \ gone : e.ctx # None => e.ctx \notin C \cup K
  BY <1>9, <1>10 DEF TypeOK, Placed, NoneShared
<1>16. \A c \in Contexts : c \notin C /\ kid[c] # None => c \notin K /\ kid[c] \notin C \cup K
  BY <1>9, <1>10 DEF TypeOK, Placed, NoneShared
<1>17. TypeOK'
  <2>1. pc' \in [Requests -> {"new", "run", "rejected", "saving", "ended", "freed"}]
    BY <1>7, Zenon DEF TypeOK
  <2> QED
    BY <2>1, <1>4, <1>5, <1>6, <1>12, Zenon DEF TypeOK
<1>18. /\ pc'[r] \in {"saving", "ended"}
       /\ \A q \in Requests : q # r => pc'[q] = pc[q]
  BY <1>7, Zenon DEF TypeOK
<1>19. Placed'
  BY <1>4, <1>5, <1>6, <1>18, SMTT(20) DEF TypeOK, Placed
<1>20. NoneDangles'
  <2>1. \A q \in Requests : /\ pc'[q] # "freed" => ctx'[q] \in live'
                            /\ child'[q] # None => child'[q] \in live'
    BY <1>5, <1>6, <1>13, <1>14, <1>18, Zenon DEF NoneDangles
  <2>2. \A e \in tree' : e.ctx # None => e.ctx \in live'
    BY <1>5, <1>15, Zenon DEF NoneDangles
  <2>3. \A c \in Contexts : kid'[c] # None => c \in live' /\ kid'[c] \in live'
    BY <1>4, <1>5, <1>16, Zenon DEF NoneDangles
  <2> QED
    BY <2>1, <2>2, <2>3, Zenon DEF NoneDangles
<1>21. NoneLeaks'
  <2> SUFFICES ASSUME NEW c \in live'
               PROVE  \/ \E q \in Requests : pc'[q] # "freed" /\ ctx'[q] = c
                      \/ \E q \in Requests : child'[q] = c
                      \/ \E e \in tree' : e.ctx = c
                      \/ \E d \in Contexts : kid'[d] = c
    BY Zenon DEF NoneLeaks
  <2>1. c \in live /\ c \notin C \cup K
    BY <1>5, Zenon
  <2>2. CASE \E q \in Requests : pc[q] # "freed" /\ ctx[q] = c
    BY <2>2, <1>6, <1>18, Zenon
  <2>3. CASE \E q \in Requests : child[q] = c
    BY <2>3, <1>6, Zenon
  <2>4. CASE \E e \in tree : e.ctx = c
    BY <2>1, <2>4, <1>5, <1>8, Zenon
  <2>5. CASE \E d \in Contexts : kid[d] = c
    <3>1. c # None
      BY <2>1, SMTT(20) DEF TypeOK
    <3> QED
      BY <2>1, <2>5, <3>1, <1>4, <1>11, Zenon
  <2> QED
    BY <2>1, <2>2, <2>3, <2>4, <2>5, Zenon DEF NoneLeaks
<1>22. NoneShared'
  BY <1>4, <1>5, <1>6, <1>18, SMTT(30) DEF TypeOK, NoneShared
<1>23. Fresh'
  <2>1. \A q \in Requests : pc[q] = "run" => kid'[ctx[q]] = kid[ctx[q]]
    BY <1>4, <1>13, Zenon DEF TypeOK
  <2> QED
    BY <1>5, <1>6, <1>18, <2>1, Zenon DEF Fresh
<1> QED
  BY <1>17, <1>19, <1>20, <1>21, <1>22, <1>23, Zenon

LEMMA NextOwn == OwnInv /\ [Next]_vars => OwnInv'
<1> SUFFICES ASSUME OwnInv, [Next]_vars
             PROVE  OwnInv'
  BY Zenon
<1>1. CASE UNCHANGED vars
  BY <1>1 DEF vars, treevars, ctxvars, OwnInv, TypeOK, Owned, Placed, NoneDangles, NoneLeaks, NoneShared, Fresh
<1>2. CASE Tick
  BY <1>2, TickOwn, Zenon
<1>3. ASSUME NEW r \in Requests,
             \/ \E v \in told \cup {NoState} : RecvUnknown(r, v) \/ RecvKnown(r, v) \/ RecvThawed(r, v)
             \/ Policy(r) \/ RestoreToChild(r) \/ DiscardChild(r)
             \/ \E adds \in BOOLEAN : StoreInParent(r, adds)
             \/ \E own \in BOOLEAN : Save(r, own)
             \/ Insert(r) \/ Discard(r) \/ EndWithout(r) \/ Free(r)
      PROVE  OwnInv'
  <2>1. CASE \E v \in told \cup {NoState} : RecvUnknown(r, v) \/ RecvKnown(r, v) \/ RecvThawed(r, v)
    <3>1. told \cup {NoState} \subseteq Values
      BY NoStateIsValue, Zenon DEF OwnInv, TypeOK
    <3> QED
      BY <2>1, <3>1, RecvUnknownOwn, RecvKnownOwn, RecvThawedOwn, SMTT(20)
  <2>2. CASE \E adds \in BOOLEAN : StoreInParent(r, adds)
    BY <2>2, StoreInParentOwn, Zenon
  <2>3. CASE \E own \in BOOLEAN : Save(r, own)
    BY <2>3, SaveOwn, Zenon
  <2> QED
    BY <1>3, <2>1, <2>2, <2>3, PolicyOwn, RestoreToChildOwn, DiscardChildOwn, InsertOwn, DiscardOwn,
       EndWithoutOwn, FreeOwn
<1> QED
  BY <1>1, <1>2, <1>3, Zenon DEF Next

LEMMA OwnInvOneOwner == OwnInv => OneOwner
<1> SUFFICES ASSUME OwnInv
             PROVE  OneOwner
  BY Zenon
<1> USE DEF OwnInv, Owned
<1>1. ASSUME NEW c \in Contexts
      PROVE  Owners(c) # {} <=> c \in live
  <2>1. Owners(c) # {} <=> \/ \E r \in Requests : pc[r] # "freed" /\ ctx[r] = c
                           \/ \E r \in Requests : child[r] = c
                           \/ \E e \in tree : e.ctx = c
                           \/ \E d \in Contexts : kid[d] = c
    BY Zenon DEF Owners
  <2> QED
    BY <2>1, NoneIsNoContext, Zenon DEF NoneDangles, NoneLeaks
<1>2. ASSUME NEW c \in Contexts, NEW a \in Owners(c), NEW b \in Owners(c)
      PROVE  a = b
  <2>1. c # None
    BY NoneIsNoContext, Zenon
  <2> DEFINE Ra == \E r \in Requests : a = <<"request", r>> /\ pc[r] # "freed" /\ ctx[r] = c
             Rb == \E r \in Requests : b = <<"request", r>> /\ pc[r] # "freed" /\ ctx[r] = c
             Sa == \E r \in Requests : a = <<"subrequest", r>> /\ child[r] = c
             Sb == \E r \in Requests : b = <<"subrequest", r>> /\ child[r] = c
             Ea == \E e \in tree : a = <<"entry", e>> /\ e.ctx = c
             Eb == \E e \in tree : b = <<"entry", e>> /\ e.ctx = c
             Da == \E d \in Contexts : a = <<"data", d>> /\ kid[d] = c
             Db == \E d \in Contexts : b = <<"data", d>> /\ kid[d] = c
  <2>2. (Ra \/ Sa \/ Ea \/ Da) /\ (Rb \/ Sb \/ Eb \/ Db)
    BY Zenon DEF Owners
  <2>3. /\ Ra \/ Rb \/ Ea \/ Eb => c[2] # 2
        /\ Sa \/ Sb \/ Da \/ Db => c[2] = 2
    BY <2>1 DEF Placed
  <2>4. CASE Ra /\ Rb
    BY <2>4, Zenon DEF NoneShared
  <2>5. CASE Ea /\ Eb
    BY <2>1, <2>5, Zenon DEF NoneShared
  <2>6. CASE Sa /\ Sb
    BY <2>1, <2>6, Zenon DEF NoneShared
  <2>7. CASE Da /\ Db
    BY <2>1, <2>7, Zenon DEF NoneShared
  <2>8. ~(Ra /\ Eb) /\ ~(Ea /\ Rb)
    BY Zenon DEF NoneShared
  <2>9. ~(Sa /\ Db) /\ ~(Da /\ Sb)
    BY <2>1 DEF NoneShared
  <2> HIDE DEF Ra, Rb, Sa, Sb, Ea, Eb, Da, Db
  <2> QED
    BY <2>2, <2>3, <2>4, <2>5, <2>6, <2>7, <2>8, <2>9, Zenon
<1> QED
  BY <1>1, <1>2, Zenon DEF OneOwner

\* OneOwner holds for any requests and any limits: what state.c hands from a
\* request to an entry and back, and what it frees on the way, is never
\* forgotten, shared or used after it was freed.
THEOREM Ownership == Spec => []OneOwner
<1>1. Spec => []OwnInv
  BY InitOwn, NextOwn, PTL DEF Spec
<1> QED
  BY <1>1, OwnInvOneOwner, PTL
-----------------------------------------------------------------------------
(* The values of a session *)

\* No session that is being saved has come to the end of its count of rounds:
\* the count is a byte of the value, and goes on from 0.
FewRounds == \A r \in Requests : new[r].tries < 255

\* A value that was told is random, and a request has no other.
ToldValues ==
    /\ \A v \in told : v.random \in 1..randoms
    /\ \A r \in Requests : state[r] \in told \cup {NoState}

\* An entry has the latest value of its session, and is the only one.
LatestInTree ==
    /\ \A e \in tree : /\ Mix(e.state) \in told
                       /\ e.state.tries = e.tries + 1
                       /\ \A v \in told : v.random = e.state.random => v.tries <= e.state.tries
    /\ \A e, d \in tree : e.state.random = d.state.random => e = d

\* What is going to be inserted is a later value, of a session that is not in
\* the tree and not with another request.
LaterInWindow ==
    \A r \in InWindow :
        /\ new[r].state.random \in 1..randoms
        /\ new[r].state.tries = new[r].tries + 1
        /\ \A v \in told : v.random = new[r].state.random => v.tries < new[r].state.tries
        /\ \A e \in tree : e.state.random # new[r].state.random
        /\ \A q \in InWindow : new[q].state.random = new[r].state.random => q = r

\* The entry a request finds a second time is the one it has taken.
FindsItsOwn ==
    \A r \in Requests : pc[r] = "run" => \A e \in Find(state[r]) : e.thawed = <<r>>

Valued == ToldValues /\ LatestInTree /\ LaterInWindow /\ FindsItsOwn

-----------------------------------------------------------------------------
LEMMA MixValue ==
    ASSUME NEW v \in Values
    PROVE  /\ Mix(v) \in Values /\ Mix(v).random = v.random /\ Mix(v).tries = v.tries
           /\ Mix(Mix(v)) = v
BY Zenon DEF Mix, Values

\* Find by the value the client has.
LEMMA FindValue ==
    ASSUME TypeOK, NEW v \in Values, NEW e \in tree
    PROVE  e \in Find(v) <=> Mix(e.state) = v
<1>1. e.state \in Values
  BY Zenon DEF TypeOK
<1> QED
  BY <1>1, MixValue, Zenon DEF Find

LEMMA InitValued == Init => Valued
<1> SUFFICES ASSUME Init PROVE Valued
  BY Zenon
<1>1. InWindow = {} /\ tree = {} /\ told = {}
  BY Zenon DEF Init, InWindow
<1> QED
  BY <1>1, Zenon DEF Init, Valued, ToldValues, LatestInTree, LaterInWindow, FindsItsOwn, NoState

\* The steps that leave the values, the tree and the place of a request alone.
LEMMA StepValued ==
    ASSUME Valued,
           UNCHANGED <<tree, told, randoms, new, state>>,
           \A r \in Requests : pc'[r] = "saving" <=> pc[r] = "saving",
           \A r \in Requests : pc'[r] = "run" => pc[r] = "run"
    PROVE  Valued'
<1>1. InWindow' = InWindow
  BY Zenon DEF InWindow
<1>2. \A r \in Requests : Find(state[r])' = Find(state[r])
  BY Zenon DEF Find
<1> USE DEF Valued
<1>3. ToldValues'
  BY Zenon DEF ToldValues
<1>4. LatestInTree'
  BY Zenon DEF LatestInTree
<1>5. LaterInWindow'
  BY <1>1, Zenon DEF LaterInWindow
<1>6. FindsItsOwn'
  BY <1>2, Zenon DEF FindsItsOwn
<1> QED
  BY <1>3, <1>4, <1>5, <1>6, Zenon

\* A request begins, or is freed, and the tree is left alone.
LEMMA BeginsValued ==
    ASSUME TypeOK, Valued, NEW r \in Requests, NEW v \in told \cup {NoState}, NEW where,
           pc[r] # "saving", where # "saving", where = "run" => Find(v) = {},
           pc' = [pc EXCEPT ![r] = where], state' = [state EXCEPT ![r] = v],
           UNCHANGED <<tree, told, randoms, new>>
    PROVE  Valued'
<1> USE DEF Valued
<1>1. /\ pc'[r] = where /\ state'[r] = v
      /\ \A q \in Requests : q # r => pc'[q] = pc[q] /\ state'[q] = state[q]
  BY Zenon DEF TypeOK
<1>2. InWindow' = InWindow
  BY <1>1, Zenon DEF InWindow
<1>3. \A q \in Requests : Find(state[q])' = Find(state'[q])
  BY Zenon DEF Find
<1>4. ToldValues'
  BY <1>1, Zenon DEF ToldValues
<1>5. LatestInTree' /\ LaterInWindow'
  BY <1>2, ZenonT(40) DEF LatestInTree, LaterInWindow
<1>6. FindsItsOwn'
  BY <1>1, <1>3, Zenon DEF FindsItsOwn
<1> QED
  BY <1>4, <1>5, <1>6, Zenon

\* One entry becomes another with the same value.
LEMMA RecvKnownValued ==
    ASSUME TypeOK, Valued, NEW r \in Requests, NEW v \in told \cup {NoState}, RecvKnown(r, v)
    PROVE  Valued'
<1> USE DEF Valued
<1>1. PICK e \in Find(v) : e.thawed = None /\ tree' = (tree \ {e}) \cup {Thaw(e, r)}
  BY Zenon DEF RecvKnown
<1>2. /\ pc[r] = "new" /\ pc' = [pc EXCEPT ![r] = "run"] /\ state' = [state EXCEPT ![r] = v]
      /\ UNCHANGED <<told, randoms, new>>
  BY Zenon DEF RecvKnown, Begins
<1>3. /\ pc'[r] = "run" /\ state'[r] = v
      /\ \A q \in Requests : q # r => pc'[q] = pc[q] /\ state'[q] = state[q]
  BY <1>2, Zenon DEF TypeOK
<1>4. InWindow' = InWindow
  BY <1>2, <1>3, Zenon DEF InWindow
<1>5. e \in tree
  BY Zenon DEF Find
<1>6. PICK t : t = Thaw(e, r)
  BY Zenon
<1>7. t.state = e.state /\ t.tries = e.tries /\ t.thawed = <<r>>
  BY <1>6, Zenon DEF Thaw
<1>8. tree' = (tree \ {e}) \cup {t}
  BY <1>1, <1>6, Zenon
<1>9. ToldValues'
  BY <1>2, <1>3, Zenon DEF ToldValues
<1>10. LatestInTree'
  BY <1>2, <1>5, <1>7, <1>8 DEF LatestInTree
<1>11. LaterInWindow'
  BY <1>2, <1>4, <1>5, <1>7, <1>8 DEF LaterInWindow
<1>12. FindsItsOwn'
  <2> SUFFICES ASSUME NEW q \in Requests, pc'[q] = "run", NEW d \in tree', d.state = Mix(state'[q])
               PROVE  d.thawed = <<q>>
    BY Zenon DEF FindsItsOwn, Find, Mix
  <2>1. CASE q = r
    <3>1. e.state = Mix(v) /\ d.state = Mix(v)
      BY <1>3, <2>1, Zenon DEF Find
    <3>2. d = t
      BY <1>5, <1>8, <3>1, Zenon DEF LatestInTree
    <3> QED
      BY <1>7, <2>1, <3>2, Zenon
  <2>2. CASE q # r
    <3>1. pc[q] = "run" /\ d.state = Mix(state[q])
      BY <1>3, <2>2, Zenon
    <3>2. d # t
      <4> SUFFICES ASSUME d = t PROVE FALSE
        BY Zenon
      <4>1. e \in Find(state[q])
        BY <1>5, <1>7, <3>1, Zenon DEF Find
      <4> QED
        BY <1>1, <3>1, <4>1 DEF FindsItsOwn, None
    <3> QED
      BY <1>8, <3>1, <3>2, Zenon DEF FindsItsOwn, Find
  <2> QED
    BY <2>1, <2>2, Zenon
<1> QED
  BY <1>9, <1>10, <1>11, <1>12, Zenon

\* A request ends, and entries go.
LEMMA EndsValued ==
    ASSUME TypeOK, Valued, NEW r \in Requests, pc[r] # "saving", Ends(r),
           tree' \subseteq tree, UNCHANGED <<told, randoms, new, state>>
    PROVE  Valued'
<1> USE DEF Valued
<1>1. pc' = [pc EXCEPT ![r] = "ended"]
  BY Zenon DEF Ends
<1>2. pc'[r] = "ended" /\ \A q \in Requests : q # r => pc'[q] = pc[q]
  BY <1>1, Zenon DEF TypeOK
<1>3. InWindow' = InWindow
  BY <1>1, <1>2, Zenon DEF InWindow
<1>4. ToldValues' /\ LatestInTree' /\ LaterInWindow'
  BY <1>1, <1>3, ZenonT(40) DEF ToldValues, LatestInTree, LaterInWindow
<1>5. FindsItsOwn'
  BY <1>1, <1>2, Zenon DEF FindsItsOwn, Find
<1> QED
  BY <1>4, <1>5, Zenon

\* The value was not told, so nobody finds the entry.
LEMMA InsertValued ==
    ASSUME TypeOK, Valued, NEW r \in Requests, Insert(r)
    PROVE  Valued'
<1> USE DEF Valued
<1> DEFINE w == new[r].state
<1>1. r \in InWindow /\ w \in Values
  BY Zenon DEF Insert, InWindow, TypeOK
<1>2. ~\E d \in tree : d.state = Mix(w)
  BY <1>1, MixValue DEF LaterInWindow
<1>3. PICK t : t = [state |-> Mix(w), tries |-> new[r].tries,
                    cleanup |-> new[r].cleanup, ctx |-> ctx[r], thawed |-> None]
  BY Zenon
<1>4. /\ tree' = tree \cup {t} /\ told' = told \cup {w}
      /\ pc' = [pc EXCEPT ![r] = "ended"] /\ new' = [new EXCEPT ![r] = NoEntry]
      /\ UNCHANGED <<randoms, state>>
  BY <1>2, <1>3, Zenon DEF Insert, Ends
<1>5. /\ pc'[r] = "ended"
      /\ \A q \in Requests : q # r => pc'[q] = pc[q] /\ new'[q] = new[q]
  BY <1>4, Zenon DEF TypeOK
<1>6. InWindow' = InWindow \ {r}
  BY <1>1, <1>5, Zenon DEF InWindow
<1>7. t.state = Mix(w) /\ t.tries = new[r].tries
  BY <1>3, Zenon
<1>8. /\ Mix(t.state) = w /\ t.state.random = w.random /\ t.state.tries = w.tries
      /\ t.state.tries = t.tries + 1
  BY <1>1, <1>7, MixValue DEF LaterInWindow
<1>9. ToldValues'
  BY <1>1, <1>4, ZenonT(40) DEF ToldValues, LaterInWindow
<1>10. LatestInTree'
  <2>1. w.tries \in Nat
    BY <1>1 DEF Values
  <2>2. \A v \in told : v.tries \in Nat
    <3>1. told \subseteq Values
      BY Zenon DEF TypeOK
    <3> QED
      BY <3>1 DEF Values
  <2>3. \A e \in tree : e.state.random # w.random
    BY <1>1, Zenon DEF LaterInWindow
  <2>4. \A v \in told : v.random = w.random => v.tries < w.tries
    BY <1>1, Zenon DEF LaterInWindow
  <2> HIDE DEF w
  <2>5. \A v \in told' : v.random = t.state.random => v.tries <= t.state.tries
    <3> SUFFICES ASSUME NEW v \in told', v.random = w.random
                 PROVE  v.tries <= w.tries
      BY <1>8, Zenon
    <3>1. CASE v = w
      BY <2>1, <3>1
    <3>2. CASE v \in told
      <4>1. v.tries < w.tries /\ v.tries \in Nat
        BY <2>2, <2>4, <3>2, Zenon
      <4> QED
        BY <2>1, <4>1
    <3> QED
      BY <1>4, <3>1, <3>2, Zenon
  <2>6. \A e \in tree : \A v \in told' : v.random = e.state.random => v.tries <= e.state.tries
    BY <1>4, <2>3, Zenon DEF LatestInTree
  <2>7. \A e, d \in tree' : e.state.random = d.state.random => e = d
    BY <1>4, <1>8, <2>3 DEF LatestInTree
  <2> QED
    BY <1>4, <1>8, <2>5, <2>6, <2>7 DEF LatestInTree, Mix
<1>11. LaterInWindow'
  <2> SUFFICES ASSUME NEW q \in InWindow, q # r
               PROVE  /\ new[q].state.random \in 1..randoms
                      /\ new[q].state.tries = new[q].tries + 1
                      /\ \A v \in told' : v.random = new[q].state.random => v.tries < new[q].state.tries
                      /\ \A e \in tree' : e.state.random # new[q].state.random
                      /\ \A p \in InWindow \ {r} : new[p].state.random = new[q].state.random => p = q
    BY <1>4, <1>5, <1>6 DEF LaterInWindow, InWindow
  <2>1. w.random # new[q].state.random
    BY <1>1, Zenon DEF LaterInWindow
  <2> QED
    BY <1>4, <1>8, <2>1, Zenon DEF LaterInWindow
<1>12. FindsItsOwn'
  <2> SUFFICES ASSUME NEW q \in Requests, pc'[q] = "run", NEW d \in tree', d.state = Mix(state[q])
               PROVE  d.thawed = <<q>>
    BY <1>4, Zenon DEF FindsItsOwn, Find, Mix
  <2>1. q # r /\ pc[q] = "run"
    BY <1>5, Zenon
  <2>2. d # t
    <3> SUFFICES ASSUME d = t PROVE FALSE
      BY Zenon
    <3>1. state[q] \in Values /\ state[q] = w
      BY <1>1, <1>7, MixValue, SMTT(30) DEF TypeOK
    <3>2. w.random # 0 /\ w \notin told
      BY <1>1, SMTT(30) DEF LaterInWindow, TypeOK, Values
    <3> QED
      BY <3>1, <3>2 DEF ToldValues, NoState
  <2> QED
    BY <1>4, <2>1, <2>2, SMTT(20) DEF FindsItsOwn, Find
<1> QED
  BY <1>9, <1>10, <1>11, <1>12, Zenon

LEMMA DiscardValued ==
    ASSUME TypeOK, Valued, NEW r \in Requests, Discard(r)
    PROVE  Valued'
<1>1. /\ tree' \subseteq tree /\ pc[r] # "saving" /\ Ends(r)
      /\ UNCHANGED <<told, randoms, new, state>>
  BY Zenon DEF Discard, Unlink, Runs
<1> QED
  BY <1>1, EndsValued, Zenon


\* A session that goes on leaves the tree before its next value can enter it.
LEMMA SaveValued ==
    ASSUME OwnInv, Valued, FewRounds', NEW r \in Requests, NEW own \in BOOLEAN, Save(r, own)
    PROVE  Valued'
<1> DEFINE old == Find(state[r])
           E == Expired(old)
           n == NewEntry(old, own, clock + Timeout)
<1>1. /\ pc[r] = "run" /\ UNCHANGED <<told, state>> /\ Cardinality(InWindow) < NumWorkers
      /\ tree' = tree \ (E \cup {e \in old : DataEmpty(e)})
      /\ IF TooMany(old, tree \ E)
         THEN Ends(r) /\ UNCHANGED <<randoms, new>>
         ELSE /\ pc' = [pc EXCEPT ![r] = "saving"]
              /\ new' = [new EXCEPT ![r] = n]
              /\ randoms' = IF old = {} \/ own THEN randoms + 1 ELSE randoms
  BY Zenon DEF Save, Runs, Unlink
<1>2. CASE TooMany(old, tree \ E)
  <2>1. TypeOK
    BY Zenon DEF OwnInv
  <2> QED
    BY <1>1, <1>2, <2>1, EndsValued, Zenon
<1>3. CASE ~TooMany(old, tree \ E)
  <2>1. \A e \in old : e.thawed = <<r>>
    BY <1>1, Zenon DEF Valued, FindsItsOwn
  <2>2. \A e \in old : e \in tree /\ DataEmpty(e)
    BY <2>1 DEF Find, DataEmpty, OwnInv, Owned, Placed, None
  <2>3. /\ pc' = [pc EXCEPT ![r] = "saving"] /\ new' = [new EXCEPT ![r] = n]
        /\ randoms' = IF old = {} \/ own THEN randoms + 1 ELSE randoms
    BY <1>1, <1>3, Zenon
  <2>4. /\ pc'[r] = "saving" /\ new'[r] = n
        /\ \A q \in Requests : q # r => pc'[q] = pc[q] /\ new'[q] = new[q]
    BY <2>3, Zenon DEF OwnInv, TypeOK
  <2>5. InWindow' = InWindow \cup {r} /\ r \notin InWindow
    BY <1>1, <2>4, Zenon DEF InWindow
  <2>6. tree' = (tree \ E) \ old
    BY <1>1, <2>2, ZenonT(40)
  <2>7. randoms \in Nat /\ randoms' \in Nat /\ randoms <= randoms'
    BY <2>3, SMTT(20) DEF OwnInv, TypeOK
  <2>8. /\ n.state.random \in 1..randoms' /\ n.state.tries = n.tries + 1
        /\ \A v \in told : v.random = n.state.random => v.tries < n.state.tries
        /\ \A e \in tree' : e.state.random # n.state.random
        /\ \A q \in InWindow : new[q].state.random # n.state.random
    <3>1. CASE old = {} \/ own
      <4>1. n.state.random = randoms + 1 /\ n.state.tries = 1 /\ n.tries = 0 /\ randoms' = randoms + 1
        BY <2>3, <3>1, Zenon DEF NewEntry
      <4>2. \A e \in tree : e.state.random \in 1..randoms
        <5>1. \A e \in tree : e.state \in Values
          BY Zenon DEF OwnInv, TypeOK
        <5> QED
          BY <5>1, MixValue, Zenon DEF Valued, LatestInTree, ToldValues
      <4>3. \A v \in told : v.random \in 1..randoms
        BY Zenon DEF Valued, ToldValues
      <4>4. \A q \in InWindow : new[q].state.random \in 1..randoms
        BY ZenonT(40) DEF Valued, LaterInWindow
      <4> QED
        BY <2>6, <2>7, <4>1, <4>2, <4>3, <4>4
    <3>2. CASE ~(old = {} \/ own)
      <4> DEFINE e == CHOOSE e \in old : TRUE
      <4>1. e \in old /\ e \in tree
        BY <2>2, <3>2, SMTT(20)
      <4>2. /\ n.state.random = e.state.random /\ n.state.tries = (e.tries + 2) % 256
            /\ n.tries = e.tries + 1 /\ randoms' = randoms
        BY <2>3, <3>2, Zenon DEF NewEntry
      <4> HIDE DEF e
      <4>3. e.tries \in Nat /\ e.state \in Values
        BY <4>1, Zenon DEF OwnInv, TypeOK
      <4>4. e.tries + 1 < 255
        BY <2>4, <4>2, Zenon DEF FewRounds
      <4>5. n.state.tries = e.tries + 2
        BY <4>2, <4>3, <4>4
      <4>6. n.state.random \in 1..randoms'
        BY <4>1, <4>2, <4>3, MixValue DEF Valued, LatestInTree, ToldValues
      <4>7. \A v \in told : v.random = e.state.random => v.tries <= e.tries + 1
        BY <4>1, Zenon DEF Valued, LatestInTree
      <4>8. \A v \in told : v.tries \in Int
        <5>1. told \subseteq Values
          BY Zenon DEF OwnInv, TypeOK
        <5> QED
          BY <5>1 DEF Values
      <4>9. \A v \in told : v.random = n.state.random => v.tries < n.state.tries
        BY <4>2, <4>3, <4>5, <4>7, <4>8
      <4>10. \A d \in tree' : d.state.random # n.state.random
        BY <2>6, <4>1, <4>2, SMTT(30) DEF Valued, LatestInTree
      <4>11. \A q \in InWindow : new[q].state.random # n.state.random
        BY <4>1, <4>2 DEF Valued, LaterInWindow
      <4> QED
        BY <4>2, <4>3, <4>5, <4>6, <4>9, <4>10, <4>11
    <3> QED
      BY <3>1, <3>2, Zenon
  <2> HIDE DEF n
  <2>9. Valued'
    <3>1. ToldValues'
      BY <1>1, <2>7, SMTT(20) DEF Valued, ToldValues
    <3>2. LatestInTree'
      BY <1>1, <2>6, Zenon DEF Valued, LatestInTree
    <3>3. LaterInWindow'
      <4>1. \A q \in InWindow : q # r /\ new'[q] = new[q]
        BY <2>4, <2>5, SMTT(20) DEF InWindow
      <4>2. ASSUME NEW q \in InWindow
            PROVE  /\ new[q].state.random \in 1..randoms'
                   /\ new[q].state.tries = new[q].tries + 1
                   /\ \A v \in told : v.random = new[q].state.random => v.tries < new[q].state.tries
                   /\ \A e \in tree' : e.state.random # new[q].state.random
                   /\ \A p \in InWindow : new[p].state.random = new[q].state.random => p = q
        BY <2>6, <2>7, SMTT(20) DEF Valued, LaterInWindow
      <4>3. \A q \in InWindow' : \A p \in InWindow' :
                new'[p].state.random = new'[q].state.random => p = q
        BY <2>4, <2>5, <2>8, <4>1, <4>2
      <4>4. \A q \in InWindow' :
                /\ new'[q].state.random \in 1..randoms'
                /\ new'[q].state.tries = new'[q].tries + 1
                /\ \A v \in told : v.random = new'[q].state.random => v.tries < new'[q].state.tries
                /\ \A e \in tree' : e.state.random # new'[q].state.random
        BY <2>4, <2>5, <2>8, <4>1, <4>2
      <4> QED
        BY <1>1, <4>3, <4>4, Zenon DEF LaterInWindow
    <3>4. FindsItsOwn'
      BY <1>1, <2>4, <2>6, Zenon DEF Valued, FindsItsOwn, Find
    <3> QED
      BY <3>1, <3>2, <3>3, <3>4, SMTT(20) DEF Valued
  <2> QED
    BY <2>9, Zenon
<1> QED
  BY <1>2, <1>3, Zenon

LEMMA NextValued == OwnInv /\ Valued /\ FewRounds' /\ [Next]_vars => Valued'
<1> SUFFICES ASSUME OwnInv, Valued, FewRounds', [Next]_vars
             PROVE  Valued'
  BY Zenon
<1>1. TypeOK
  BY Zenon DEF OwnInv
<1>2. CASE UNCHANGED vars \/ Tick
  <2>1. UNCHANGED <<tree, told, randoms, new, state, pc>>
    BY <1>2, Zenon DEF vars, treevars, Tick
  <2> QED
    BY <2>1, StepValued, Zenon
<1>3. ASSUME NEW r \in Requests,
             \/ \E v \in told \cup {NoState} : RecvUnknown(r, v) \/ RecvKnown(r, v) \/ RecvThawed(r, v)
             \/ Policy(r) \/ RestoreToChild(r) \/ DiscardChild(r)
             \/ \E adds \in BOOLEAN : StoreInParent(r, adds)
             \/ \E own \in BOOLEAN : Save(r, own)
             \/ Insert(r) \/ Discard(r) \/ EndWithout(r) \/ Free(r)
      PROVE  Valued'
  <2>1. ASSUME NEW v \in told \cup {NoState}, RecvUnknown(r, v)
        PROVE  Valued'
    <3>1. /\ pc[r] # "saving" /\ Find(v) = {}
          /\ pc' = [pc EXCEPT ![r] = "run"] /\ state' = [state EXCEPT ![r] = v]
          /\ UNCHANGED <<tree, told, randoms, new>>
      BY <2>1, Zenon DEF RecvUnknown, Begins, treevars
    <3> QED
      BY <1>1, <3>1, BeginsValued, Zenon
  <2>2. ASSUME NEW v \in told \cup {NoState}, RecvThawed(r, v)
        PROVE  Valued'
    <3>1. /\ pc[r] # "saving"
          /\ pc' = [pc EXCEPT ![r] = "rejected"] /\ state' = [state EXCEPT ![r] = v]
          /\ UNCHANGED <<tree, told, randoms, new>>
      BY <2>2, Zenon DEF RecvThawed, Begins, treevars
    <3> QED
      BY <1>1, <3>1, BeginsValued, Zenon
  <2>3. CASE Free(r)
    <3>1. /\ pc[r] # "saving"
          /\ pc' = [pc EXCEPT ![r] = "freed"] /\ state' = [state EXCEPT ![r] = NoState]
          /\ UNCHANGED <<tree, told, randoms, new>>
      BY <2>3, Zenon DEF Free, treevars
    <3> QED
      BY <1>1, <3>1, BeginsValued, Zenon
  <2>4. CASE EndWithout(r)
    BY <1>1, <2>4, EndsValued, Zenon DEF EndWithout, Runs, treevars
  <2>5. CASE Policy(r) \/ RestoreToChild(r) \/ DiscardChild(r) \/ \E adds \in BOOLEAN : StoreInParent(r, adds)
    <3>1. UNCHANGED <<tree, told, randoms, new, state, pc>>
      BY <2>5, Zenon DEF Policy, RestoreToChild, DiscardChild, StoreInParent, treevars
    <3> QED
      BY <3>1, StepValued, Zenon
  <2> QED
    BY <1>1, <1>3, <2>1, <2>2, <2>3, <2>4, <2>5, RecvKnownValued, SaveValued, InsertValued, DiscardValued, Zenon
<1> QED
  BY <1>2, <1>3, Zenon DEF Next

LEMMA ValuesInvariant == Spec /\ []FewRounds => [](OwnInv /\ Valued)
<1>1. Init => OwnInv /\ Valued
  BY InitOwn, InitValued, Zenon
<1>2. OwnInv /\ Valued /\ FewRounds' /\ [Next]_vars => (OwnInv /\ Valued)'
  BY NextOwn, NextValued, Zenon
<1> QED
  BY <1>1, <1>2, PTL DEF Spec

-----------------------------------------------------------------------------
(* The refinement *)

LEMMA StoredPairs ==
    \A s : s \in Stored <=> \E e \in tree : e.ctx # None /\ s = <<Mix(e.state), e.ctx>>
BY Zenon DEF Stored

LEMMA StoredPairsNext ==
    \A s : s \in Stored' <=> \E e \in tree' : e.ctx # None /\ s = <<Mix(e.state), e.ctx>>
BY Zenon DEF Stored, Mix

LEMMA InitRefines == Init => Store!Init
<1> SUFFICES ASSUME Init PROVE Store!Init
  BY Zenon
<1>1. Stored = {}
  BY Zenon DEF Init, Stored
<1>2. ctx \in [Requests -> Contexts] /\ \A q, r \in Requests : q # r => ctx[q] # ctx[r]
  BY DEF Init, Contexts
<1> QED
  BY <1>1, <1>2, Zenon DEF Init, Store!Init

LEMMA StutterRefines ==
    ASSUME UNCHANGED <<tree, ctx, told>>
    PROVE  UNCHANGED Store!vars
BY Zenon DEF Store!vars, Stored, Mix

\* What a request gets when it has given its session state away.
LEMMA AfreshRefines ==
    ASSUME OwnInv, NEW r \in Requests, pc[r] \notin {"ended", "freed"}, ctx' = [ctx EXCEPT ![r] = <<r, 1>>]
    PROVE  Store!Afresh(r)
<1>1. PICK n \in Contexts : n = <<r, 1>>
  <2>1. <<r, 1>> \in Contexts
    BY DEF Contexts
  <2> QED
    BY <2>1, Zenon
<1>2. n[2] = 1 /\ \A q \in Requests : <<q, 1>> = n => q = r
  BY <1>1, Zenon
<1>3. \A q \in Requests : ctx[q] # n
  <2> SUFFICES ASSUME NEW q \in Requests, ctx[q] = n
               PROVE  FALSE
    BY Zenon
  <2>1. ctx[q] = <<q, 1>> /\ pc[q] \in {"ended", "freed"}
    <3>1. ctx[q][2] = 0 \/ (ctx[q] = <<q, 1>> /\ pc[q] \in {"ended", "freed"})
      BY Zenon DEF OwnInv, Owned, Placed
    <3>2. ctx[q][2] = 1
      BY <1>2, Zenon
    <3> QED
      BY <3>1, <3>2
  <2>2. q = r
    BY <1>2, <2>1, Zenon
  <2> QED
    BY <2>1, <2>2, Zenon
<1>4. \A s \in Stored : s[2] # n
  BY <1>2, StoredPairs DEF OwnInv, Owned, Placed
<1>5. Store!Unused(n)
  BY <1>3, <1>4, Zenon DEF Store!Unused
<1> QED
  BY <1>1, <1>5, Zenon DEF Store!Afresh

LEMMA RecvKnownRefines ==
    ASSUME OwnInv, Valued, NEW r \in Requests, NEW v \in told \cup {NoState}, RecvKnown(r, v)
    PROVE  Store!Next
<1>1. PICK e \in Find(v) : /\ e.thawed = None /\ tree' = (tree \ {e}) \cup {Thaw(e, r)}
                           /\ ctx' = [ctx EXCEPT ![r] = e.ctx]
  BY Zenon DEF RecvKnown
<1>2. e \in tree /\ e.ctx # None /\ UNCHANGED told
  BY <1>1, SMTT(20) DEF RecvKnown, Find, OwnInv, Owned, Placed
<1>3. v \in Values
  BY NoStateIsValue, Zenon DEF OwnInv, TypeOK
<1>4. Mix(e.state) = v
  BY <1>2, <1>3, FindValue, Zenon DEF OwnInv
<1>5. v \in told'
  BY <1>2, <1>4, Zenon DEF Valued, LatestInTree
<1>6. PICK s : s = <<v, e.ctx>>
  BY Zenon
<1>7. s \in Stored
  BY <1>2, <1>4, <1>6, StoredPairs, Zenon
<1>8. Thaw(e, r).ctx = None
  BY Zenon DEF Thaw
<1>9. \A d \in tree : d # e /\ d.ctx # None => d.ctx # e.ctx
  BY <1>2, Zenon DEF OwnInv, Owned, NoneShared
<1>10. Stored' = Stored \ {s}
  BY <1>1, <1>4, <1>6, <1>8, <1>9, StoredPairs, StoredPairsNext
<1>11. s[1] = v /\ s[2] = e.ctx
  BY <1>6, Zenon
<1>12. Store!Take(r, v)
  BY <1>1, <1>2, <1>7, <1>10, <1>11, Zenon DEF Store!Take, Store!Under
<1> QED
  BY <1>5, <1>12, Zenon DEF Store!Next

LEMMA InsertRefines ==
    ASSUME OwnInv, Valued, NEW r \in Requests, Insert(r)
    PROVE  Store!Next
<1> DEFINE w == new[r].state
<1>1. r \in InWindow /\ w \in Values
  BY SMTT(20) DEF Insert, InWindow, OwnInv, TypeOK
<1>2. w \notin told /\ ~\E d \in tree : d.state = Mix(w)
  BY <1>1, MixValue, SMTT(20) DEF Valued, LaterInWindow, Values
<1>3. PICK t : t = [state |-> Mix(w), tries |-> new[r].tries,
                    cleanup |-> new[r].cleanup, ctx |-> ctx[r], thawed |-> None]
  BY Zenon
<1>4. /\ tree' = tree \cup {t} /\ told' = told \cup {w} /\ ctx' = [ctx EXCEPT ![r] = <<r, 1>>]
      /\ pc[r] = "saving"
  BY <1>2, <1>3, SMTT(20) DEF Insert
<1>5. Mix(t.state) = w /\ t.ctx = ctx[r] /\ ctx[r] # None
  BY <1>1, <1>3, MixValue, NoneIsNoContext, SMTT(20) DEF OwnInv, TypeOK
<1>6. Stored' = Stored \cup {<<w, ctx[r]>>}
  <2> HIDE DEF w
  <2> QED
    BY <1>4, <1>5, StoredPairs, StoredPairsNext, Zenon
<1>7. Store!Afresh(r)
  BY <1>4, AfreshRefines, Zenon
<1>8. Store!Put(r, w)
  BY <1>2, <1>4, <1>6, <1>7, Zenon DEF Store!Put
<1> QED
  BY <1>4, <1>8, SMTT(20) DEF Store!Next

LEMMA DiscardRefines ==
    ASSUME OwnInv, Valued, NEW r \in Requests, Discard(r)
    PROVE  [Store!Next]_Store!vars
<1>1. CASE Find(state[r]) = {}
  BY <1>1, StutterRefines, Zenon DEF Discard
<1>2. CASE Find(state[r]) # {}
  <2> DEFINE v == state[r]
  <2>1. v \in Values /\ TypeOK
    BY Zenon DEF OwnInv, TypeOK
  <2>2. /\ tree' = tree \ Find(v) /\ ctx' = [ctx EXCEPT ![r] = <<r, 1>>] /\ UNCHANGED told
        /\ pc[r] \notin {"ended", "freed"}
    BY <1>2, Zenon DEF Discard, Unlink, Runs
  <2>3. \A e \in tree : e \in Find(v) <=> Mix(e.state) = v
    BY <2>1, FindValue, Zenon
  <2>4. v \in told'
    BY <1>2, <2>2, <2>3, Zenon DEF Valued, LatestInTree, Find
  <2> HIDE DEF v
  <2>5. \A s \in Stored : s \in Stored' <=> s[1] # v
    BY <2>2, <2>3, StoredPairs, StoredPairsNext
  <2>6. Stored' \subseteq Stored
    BY <2>2, StoredPairs, StoredPairsNext, Zenon
  <2>7. Stored' = Stored \ Store!Under(v)
    BY <2>5, <2>6, Zenon DEF Store!Under
  <2>8. Store!Finish(r, v)
    BY <2>2, <2>7, AfreshRefines, Zenon DEF Store!Finish
  <2> QED
    BY <2>4, <2>8, Zenon DEF Store!Next
<1> QED
  BY <1>1, <1>2, Zenon

LEMMA SaveRefines ==
    ASSUME NEW r \in Requests, NEW own \in BOOLEAN, Save(r, own)
    PROVE  Store!Next
<1>1. tree' \subseteq tree /\ UNCHANGED <<ctx, told>>
  BY Zenon DEF Save, Unlink
<1>2. Stored' \subseteq Stored
  BY <1>1, StoredPairs, StoredPairsNext, Zenon
<1>3. PICK S \in SUBSET Stored : S = Stored \ Stored'
  BY Zenon
<1>4. Store!Expire(S)
  BY <1>1, <1>2, <1>3, Zenon DEF Store!Expire
<1> QED
  BY <1>4, Zenon DEF Store!Next

LEMMA NextRefines == OwnInv /\ Valued /\ [Next]_vars => [Store!Next]_Store!vars
<1> SUFFICES ASSUME OwnInv, Valued, [Next]_vars
             PROVE  [Store!Next]_Store!vars
  BY Zenon
<1>1. CASE UNCHANGED vars \/ Tick
  BY <1>1, StutterRefines, Zenon DEF vars, treevars, Tick
<1>2. ASSUME NEW r \in Requests,
             \/ \E v \in told \cup {NoState} : RecvUnknown(r, v) \/ RecvKnown(r, v) \/ RecvThawed(r, v)
             \/ Policy(r) \/ RestoreToChild(r) \/ DiscardChild(r)
             \/ \E adds \in BOOLEAN : StoreInParent(r, adds)
             \/ \E own \in BOOLEAN : Save(r, own)
             \/ Insert(r) \/ Discard(r) \/ EndWithout(r) \/ Free(r)
      PROVE  [Store!Next]_Store!vars
  <2>1. CASE \/ \E v \in told \cup {NoState} : RecvUnknown(r, v) \/ RecvThawed(r, v)
             \/ Policy(r) \/ RestoreToChild(r) \/ DiscardChild(r)
             \/ \E adds \in BOOLEAN : StoreInParent(r, adds)
             \/ EndWithout(r) \/ Free(r)
    <3>1. UNCHANGED <<tree, ctx, told>>
      BY <2>1, Zenon DEF RecvUnknown, RecvThawed, Policy, RestoreToChild, DiscardChild, StoreInParent, EndWithout,
                  Free, treevars
    <3> QED
      BY <3>1, StutterRefines, Zenon
  <2> QED
    BY <1>2, <2>1, RecvKnownRefines, SaveRefines, InsertRefines, DiscardRefines, Zenon
<1> QED
  BY <1>1, <1>2, Zenon DEF Next

\* RefinesStore holds for any requests and any limits while no session has used
\* up its rounds: what state.c stores under a value is taken once, by one
\* request, and no value is given out a second time.
THEOREM Refinement == Spec /\ []FewRounds => RefinesStore
<1>1. Spec => Store!Init
  BY InitRefines, Zenon DEF Spec
<1> QED
  BY <1>1, ValuesInvariant, NextRefines, PTL DEF Spec, RefinesStore, Store!Spec

-----------------------------------------------------------------------------
(* The list the entries expire by *)

\* Induction on the length of the list; InductionHolds, at the end, has the proof.
Induction == \A S \in SUBSET Nat : 0 \in S /\ (\A n \in S : n + 1 \in S) => S = Nat

Members(s) == {s[i] : i \in 1..Len(s)}
Once(s) == \A i, j \in 1..Len(s) : s[i] = s[j] => i = j

LEMMA AppendMember ==
    ASSUME NEW V, NEW s \in Seq(V), NEW v \in V
    PROVE  /\ Append(s, v) \in Seq(V)
           /\ Members(Append(s, v)) = Members(s) \cup {v}
           /\ Once(s) /\ v \notin Members(s) => Once(Append(s, v))
<1> DEFINE t == Append(s, v)
           m == Len(s)
<1>1. m \in Nat
  OBVIOUS
<1>2. t \in Seq(V) /\ Len(t) = m + 1 /\ t[m + 1] = v /\ \A i \in 1..m : t[i] = s[i]
  OBVIOUS
<1> HIDE DEF t
<1>3. \A i \in 1..m + 1 : i \in 1..m \/ i = m + 1
  BY <1>1
<1>4. m + 1 \in 1..m + 1 /\ \A i \in 1..m : i \in 1..m + 1 /\ i # m + 1
  BY <1>1
<1>5. Members(t) = Members(s) \cup {v}
  BY <1>1, <1>2, <1>3, <1>4, Zenon DEF Members
<1>6. Once(s) /\ v \notin Members(s) => Once(t)
  <2> SUFFICES ASSUME Once(s), v \notin Members(s), NEW i \in 1..m + 1, NEW j \in 1..m + 1, t[i] = t[j]
               PROVE  i = j
    BY <1>2, Zenon DEF Once
  <2>1. \A k \in 1..m : t[k] # v
    BY <1>2, Zenon DEF Members
  <2> QED
    BY <1>2, <1>3, <2>1, Zenon DEF Once
<1> QED
  BY <1>2, <1>5, <1>6, Zenon DEF t

\* What Remove computes, as an equation.
Rest(s, X, k) == [i \in 0..Len(s) |-> IF i = 0 THEN <<>>
                                      ELSE IF s[i] \in X THEN k[i - 1]
                                      ELSE Append(k[i - 1], s[i])]

LEMMA RestExists ==
    ASSUME Induction, NEW V, NEW s \in Seq(V), NEW X
    PROVE  \E k : k = Rest(s, X, k)
<1> DEFINE Upto(n, k) == /\ k = [i \in 0..n |-> k[i]] /\ k[0] = <<>>
                         /\ \A i \in 1..n : k[i] = IF s[i] \in X THEN k[i - 1] ELSE Append(k[i - 1], s[i])
           S == {n \in Nat : \E k : Upto(n, k)}
<1>1. 0 \in S
  <2> DEFINE k == [i \in 0..0 |-> <<>>]
  <2>1. Upto(0, k)
    OBVIOUS
  <2> QED
    BY <2>1, Zenon
<1>2. ASSUME NEW n \in S PROVE n + 1 \in S
  <2>1. n \in Nat /\ n + 1 \in Nat
    OBVIOUS
  <2>2. PICK k : Upto(n, k)
    OBVIOUS
  <2> DEFINE v == IF s[n + 1] \in X THEN k[n] ELSE Append(k[n], s[n + 1])
             m == [i \in 0..n + 1 |-> IF i = n + 1 THEN v ELSE k[i]]
  <2> HIDE DEF v
  <2>3. m = [i \in 0..n + 1 |-> m[i]] /\ m[n + 1] = v /\ \A i \in 0..n : m[i] = k[i]
    BY <2>1
  <2> HIDE DEF m
  <2>4. ASSUME NEW i \in 1..n + 1
        PROVE  m[i] = IF s[i] \in X THEN m[i - 1] ELSE Append(m[i - 1], s[i])
    <3>1. CASE i = n + 1
      <4>1. i - 1 = n /\ n \in 0..n
        BY <2>1, <3>1
      <4>2. m[i] = v /\ m[i - 1] = k[n]
        BY <2>3, <3>1, <4>1, Zenon
      <4> QED
        BY <3>1, <4>2, Zenon DEF v
    <3>2. CASE i # n + 1
      <4>1. i \in 1..n /\ i \in 0..n /\ i - 1 \in 0..n
        BY <2>1, <3>2
      <4>2. m[i] = k[i] /\ m[i - 1] = k[i - 1]
        BY <2>3, <4>1, Zenon
      <4> QED
        BY <2>2, <4>1, <4>2, Zenon
    <3> QED
      BY <3>1, <3>2, Zenon
  <2>5. m[0] = <<>>
    <3>1. 0 \in 0..n
      BY <2>1
    <3> QED
      BY <2>2, <2>3, <3>1, Zenon
  <2>6. Upto(n + 1, m)
    BY <2>3, <2>4, <2>5, Zenon
  <2> QED
    BY <2>1, <2>6, Zenon
<1>3. Len(s) \in S
  <2>1. S \in SUBSET Nat /\ Len(s) \in Nat
    OBVIOUS
  <2> HIDE DEF S
  <2> QED
    BY <1>1, <1>2, <2>1, Zenon DEF Induction
<1>4. PICK k : Upto(Len(s), k)
  BY <1>3
<1>5. k = [i \in 0..Len(s) |-> k[i]] /\ k[0] = <<>>
  BY <1>4, Zenon
<1>6. \A i \in 0..Len(s) : k[i] = Rest(s, X, k)[i]
  <2>1. \A i \in 0..Len(s) : i = 0 \/ i \in 1..Len(s)
    OBVIOUS
  <2> QED
    BY <1>4, <2>1 DEF Rest
<1> QED
  BY <1>5, <1>6, Zenon DEF Rest

\* fr_dlist_remove: what is left is the list without the values, each of them
\* as often as before.
LEMMA RemoveMembers ==
    ASSUME Induction, NEW V, NEW s \in Seq(V), Once(s), NEW X
    PROVE  /\ Remove(s, X) \in Seq(V) /\ Once(Remove(s, X))
           /\ Members(Remove(s, X)) = Members(s) \ X
<1>1. PICK k : k = Rest(s, X, k) /\ Remove(s, X) = k[Len(s)]
  <2> DEFINE k == CHOOSE k : k = Rest(s, X, k)
  <2>1. k = Rest(s, X, k)
    BY RestExists, Zenon
  <2>2. Remove(s, X) = k[Len(s)]
    BY Zenon DEF Remove, Rest
  <2> QED
    BY <2>1, <2>2, Zenon
<1>2. PICK m \in Nat : m = Len(s)
  OBVIOUS
<1>3. k[0] = <<>>
  <2>1. 0 \in 0..m
    BY <1>2
  <2> QED
    BY <1>1, <1>2, <2>1, Zenon DEF Rest
<1>4. \A i \in 1..m : k[i] = IF s[i] \in X THEN k[i - 1] ELSE Append(k[i - 1], s[i])
  <2>1. \A i \in 1..m : i \in 0..m /\ i # 0
    BY <1>2
  <2> QED
    BY <1>1, <1>2, <2>1, Zenon DEF Rest
<1>5. \A i \in 1..m : s[i] \in V
  BY <1>2
<1> DEFINE First(n) == {s[i] : i \in 1..n}
           Right(n) == k[n] \in Seq(V) /\ Once(k[n]) /\ Members(k[n]) = First(n) \ X
           S == {n \in Nat : n <= m => Right(n)}
<1>6. 0 \in S
  <2>1. <<>> \in Seq(V) /\ Once(<<>>) /\ Members(<<>>) = {}
    BY DEF Once, Members
  <2>2. First(0) = {}
    OBVIOUS
  <2>3. Right(0)
    BY <1>3, <2>1, <2>2, Zenon
  <2> QED
    BY <2>3
<1>7. ASSUME NEW n \in S PROVE n + 1 \in S
  <2> SUFFICES ASSUME n + 1 <= m PROVE Right(n + 1)
    OBVIOUS
  <2>1. n \in Nat /\ n <= m /\ n + 1 \in 1..m /\ (n + 1) - 1 = n
    BY <1>2
  <2>2. Right(n)
    BY <2>1
  <2>3. PICK v : v = s[n + 1]
    OBVIOUS
  <2>4. v \in V /\ k[n + 1] = IF v \in X THEN k[n] ELSE Append(k[n], v)
    BY <1>4, <1>5, <2>1, <2>3, Zenon
  <2>5. First(n + 1) = First(n) \cup {v}
    <3>1. \A i \in 1..n + 1 : i \in 1..n \/ i = n + 1
      BY <2>1
    <3>2. n + 1 \in 1..n + 1 /\ \A i \in 1..n : i \in 1..n + 1
      BY <2>1
    <3> QED
      BY <2>3, <3>1, <3>2, Zenon
  <2>6. v \notin First(n)
    <3>1. \A i \in 1..n : i \in 1..m /\ i # n + 1
      BY <2>1, <1>2
    <3> QED
      BY <1>2, <2>1, <2>3, <3>1, Zenon DEF Once
  <2> HIDE DEF First
  <2>7. CASE v \in X
    BY <2>2, <2>4, <2>5, <2>7, Zenon
  <2>8. CASE v \notin X
    <3>1. k[n + 1] = Append(k[n], v) /\ v \notin Members(k[n])
      BY <2>2, <2>4, <2>6, <2>8, Zenon
    <3>2. /\ Append(k[n], v) \in Seq(V) /\ Once(Append(k[n], v))
          /\ Members(Append(k[n], v)) = Members(k[n]) \cup {v}
      BY <2>2, <2>4, <3>1, AppendMember
    <3> QED
      BY <2>2, <2>5, <2>8, <3>1, <3>2, Zenon
  <2> QED
    BY <2>7, <2>8, Zenon
<1>8. m \in S
  <2>1. S \in SUBSET Nat
    OBVIOUS
  <2> HIDE DEF S
  <2> QED
    BY <1>2, <1>6, <1>7, <2>1, Zenon DEF Induction
<1>9. Right(m)
  <2>1. m <= m
    BY <1>2
  <2> QED
    BY <1>8, <2>1, Zenon
<1> QED
  BY <1>1, <1>2, <1>9, Zenon DEF Members

\* The entries are in the list, each once, and have different values.
ListSound ==
    /\ to_expire \in Seq(Values) /\ Once(to_expire)
    /\ {e.state : e \in tree} = Members(to_expire)
    /\ \A d, e \in tree : d.state = e.state => d = e

LEMMA InitList == Init => ListSound
<1> SUFFICES ASSUME Init PROVE ListSound
  BY Zenon
<1>1. to_expire = <<>> /\ tree = {}
  BY Zenon DEF Init
<1>2. to_expire \in Seq(Values) /\ Once(to_expire) /\ Members(to_expire) = {}
  BY <1>1 DEF Once, Members
<1> QED
  BY <1>1, <1>2, Zenon DEF ListSound

LEMMA UnlinkList ==
    ASSUME Induction, ListSound, NEW E \in SUBSET tree, Unlink(E)
    PROVE  ListSound'
<1>1. PICK X : X = {e.state : e \in E}
  BY Zenon
<1>2. tree' = tree \ E /\ to_expire' = Remove(to_expire, X)
  BY <1>1, Zenon DEF Unlink
<1>3. /\ to_expire' \in Seq(Values) /\ Once(to_expire')
      /\ Members(to_expire') = Members(to_expire) \ X
  BY <1>2, RemoveMembers, ZenonT(40) DEF ListSound
<1>4. {e.state : e \in tree'} = {e.state : e \in tree} \ X
  BY <1>1, <1>2, Zenon DEF ListSound
<1>5. \A d, e \in tree' : d.state = e.state => d = e
  BY <1>2, Zenon DEF ListSound
<1> QED
  BY <1>3, <1>4, <1>5, Zenon DEF ListSound, Once, Members

LEMMA RecvKnownList ==
    ASSUME ListSound, NEW r \in Requests, NEW v \in told \cup {NoState}, RecvKnown(r, v)
    PROVE  ListSound'
<1>1. PICK e \in tree : tree' = (tree \ {e}) \cup {Thaw(e, r)}
  BY Zenon DEF RecvKnown, Find
<1>2. PICK t : t = Thaw(e, r)
  OBVIOUS
<1>3. tree' = (tree \ {e}) \cup {t} /\ t.state = e.state /\ UNCHANGED to_expire
  BY <1>1, <1>2, Zenon DEF Thaw, RecvKnown
<1>4. {d.state : d \in tree'} = {d.state : d \in tree}
  <2>1. ASSUME NEW d \in tree PROVE d.state \in {c.state : c \in tree'}
    BY <1>3, Zenon
  <2>2. ASSUME NEW d \in tree' PROVE d.state \in {c.state : c \in tree}
    BY <1>3, Zenon
  <2> QED
    BY <2>1, <2>2, Zenon
<1>5. \A c, d \in tree' : c.state = d.state => c = d
  BY <1>3, Zenon DEF ListSound
<1> QED
  BY <1>3, <1>4, <1>5, Zenon DEF ListSound

LEMMA InsertList ==
    ASSUME TypeOK, ListSound, NEW r \in Requests, Insert(r)
    PROVE  ListSound'
<1>1. CASE UNCHANGED <<tree, to_expire>>
  BY <1>1, Zenon DEF ListSound
<1>2. CASE ~ \E d \in tree : d.state = Mix(new[r].state)
  <2>1. PICK t : t = [state |-> Mix(new[r].state), tries |-> new[r].tries,
                      cleanup |-> new[r].cleanup, ctx |-> ctx[r], thawed |-> None]
    BY Zenon
  <2>2. PICK w : w = Mix(new[r].state)
    OBVIOUS
  <2>3. tree' = tree \cup {t} /\ to_expire' = Append(to_expire, w) /\ t.state = w
    BY <1>2, <2>1, <2>2, Zenon DEF Insert
  <2>4. w \in Values
    BY <2>2, MixValue, Zenon DEF TypeOK
  <2>5. \A d \in tree : d.state # w
    BY <1>2, <2>2, Zenon
  <2>6. w \notin Members(to_expire)
    <3>1. w \notin {e.state : e \in tree}
      BY <2>5, Zenon
    <3> QED
      BY <3>1, Zenon DEF ListSound
  <2>7. /\ to_expire' \in Seq(Values) /\ Once(to_expire')
        /\ Members(to_expire') = Members(to_expire) \cup {w}
    BY <2>3, <2>4, <2>6, AppendMember DEF ListSound
  <2>8. {e.state : e \in tree'} = {e.state : e \in tree} \cup {w}
    BY <2>3, Zenon
  <2>9. \A d, e \in tree' : d.state = e.state => d = e
    BY <2>3, <2>5, Zenon DEF ListSound
  <2> QED
    BY <2>7, <2>8, <2>9, Zenon DEF ListSound, Once, Members
<1> QED
  BY <1>1, <1>2, Zenon DEF Insert

LEMMA NextList == Induction /\ TypeOK /\ ListSound /\ [Next]_vars => ListSound'
<1> SUFFICES ASSUME Induction, TypeOK, ListSound, [Next]_vars
             PROVE  ListSound'
  BY Zenon
<1>1. CASE UNCHANGED <<tree, to_expire>>
  BY <1>1, Zenon DEF ListSound
<1>2. ASSUME NEW r \in Requests, NEW own \in BOOLEAN, Save(r, own)
      PROVE  ListSound'
  <2>1. \E E \in SUBSET tree : Unlink(E)
    BY <1>2, Zenon DEF Save, Expired, Find
  <2> QED
    BY <2>1, UnlinkList, Zenon
<1>3. ASSUME NEW r \in Requests, Discard(r)
      PROVE  ListSound'
  <2>1. Find(state[r]) \in SUBSET tree
    BY Zenon DEF Find
  <2> QED
    BY <1>1, <1>3, <2>1, UnlinkList, Zenon DEF Discard
<1>4. ASSUME NEW r \in Requests,
             \/ \E v \in told \cup {NoState} : RecvUnknown(r, v) \/ RecvThawed(r, v)
             \/ Policy(r) \/ RestoreToChild(r) \/ DiscardChild(r)
             \/ \E adds \in BOOLEAN : StoreInParent(r, adds)
             \/ EndWithout(r) \/ Free(r)
      PROVE  UNCHANGED <<tree, to_expire>>
  BY <1>4, ZenonT(40) DEF RecvUnknown, RecvThawed, Policy, RestoreToChild, DiscardChild, StoreInParent, EndWithout, Free, treevars
<1>5. CASE UNCHANGED vars \/ Tick
  BY <1>1, <1>5, Zenon DEF vars, treevars, Tick
<1> QED
  BY <1>1, <1>2, <1>3, <1>4, <1>5, RecvKnownList, InsertList, ZenonT(40) DEF Next

-----------------------------------------------------------------------------
(* The limit *)

Sets == INSTANCE FiniteSetTheorems

LEMMA SameCardinality ==
    ASSUME NEW S
    PROVE  Sets!Cardinality(S) = Cardinality(S) /\ (Sets!IsFiniteSet(S) <=> IsFiniteSet(S))
BY DEF Cardinality, Sets!Cardinality, IsFiniteSet, Sets!IsFiniteSet

LEMMA CountType ==
    ASSUME NEW S, IsFiniteSet(S)
    PROVE  Cardinality(S) \in Nat
BY SameCardinality, Sets!FS_CardinalityType, Zenon

LEMMA CountEmpty == IsFiniteSet({}) /\ Cardinality({}) = 0
BY SameCardinality, Sets!FS_EmptySet

LEMMA CountAdd ==
    ASSUME NEW S, NEW x, IsFiniteSet(S)
    PROVE  /\ IsFiniteSet(S \cup {x})
           /\ x \notin S => Cardinality(S \cup {x}) = Cardinality(S) + 1
BY SameCardinality, Sets!FS_AddElement

LEMMA CountRemove ==
    ASSUME NEW S, NEW x, IsFiniteSet(S)
    PROVE  /\ IsFiniteSet(S \ {x})
           /\ x \in S => Cardinality(S \ {x}) = Cardinality(S) - 1
BY SameCardinality, Sets!FS_RemoveElement

LEMMA CountSubset ==
    ASSUME NEW S, IsFiniteSet(S), NEW T \in SUBSET S
    PROVE  IsFiniteSet(T) /\ Cardinality(T) <= Cardinality(S)
BY SameCardinality, Sets!FS_Subset

Limited == IsFiniteSet(tree) /\ WithinLimit

LEMMA InitLimited == Init => Limited
<1> SUFFICES ASSUME Init PROVE Limited
  BY Zenon
<1>1. InWindow = {} /\ tree = {}
  BY Zenon DEF Init, InWindow
<1> QED
  BY <1>1, CountEmpty, SessionAssumption DEF Limited, WithinLimit

LEMMA Cardinalities ==
    ASSUME Limited
    PROVE  /\ IsFiniteSet(InWindow)
           /\ Cardinality(tree) \in Nat /\ Cardinality(InWindow) \in Nat
<1>1. IsFiniteSet(InWindow)
  BY CountSubset, SessionAssumption, Zenon DEF InWindow
<1> QED
  BY <1>1, CountType, Zenon DEF Limited

\* Steps that insert nothing and leave those that are saving alone.
LEMMA ShrinkLimited ==
    ASSUME Limited, tree' \subseteq tree, \A r \in Requests : pc'[r] = "saving" <=> pc[r] = "saving"
    PROVE  Limited'
<1>1. InWindow' = InWindow
  BY Zenon DEF InWindow
<1>2. IsFiniteSet(tree') /\ Cardinality(tree') <= Cardinality(tree)
  BY CountSubset, Zenon DEF Limited
<1>3. Cardinality(tree') \in Nat
  BY <1>2, CountType, Zenon
<1> QED
  BY <1>1, <1>2, <1>3, Cardinalities, SessionAssumption DEF Limited, WithinLimit

LEMMA RecvKnownLimited ==
    ASSUME TypeOK, Limited, NEW r \in Requests, NEW v \in told \cup {NoState}, RecvKnown(r, v)
    PROVE  Limited'
<1>1. PICK e \in tree : tree' = (tree \ {e}) \cup {Thaw(e, r)}
  BY Zenon DEF RecvKnown, Find
<1>2. PICK t : t = Thaw(e, r)
  BY Zenon
<1>3. InWindow' = InWindow
  BY Zenon DEF RecvKnown, Begins, InWindow, TypeOK
<1>4. IsFiniteSet(tree \ {e}) /\ Cardinality(tree \ {e}) = Cardinality(tree) - 1
  BY CountRemove, Zenon DEF Limited
<1>5. IsFiniteSet(tree') /\ Cardinality(tree') <= Cardinality(tree)
  <2>1. tree' = (tree \ {e}) \cup {t}
    BY <1>1, <1>2, Zenon
  <2>2. CASE t \in tree \ {e}
    <3>1. tree' = tree \ {e}
      BY <2>1, <2>2, Zenon
    <3> QED
      BY <1>4, <3>1, Cardinalities
  <2>3. CASE t \notin tree \ {e}
    <3>1. IsFiniteSet(tree') /\ Cardinality(tree') = Cardinality(tree \ {e}) + 1
      BY <1>4, <2>1, <2>3, CountAdd, Zenon
    <3> QED
      BY <1>4, <3>1, Cardinalities
  <2> QED
    BY <2>2, <2>3, Zenon
<1>6. Cardinality(tree') \in Nat
  BY <1>5, CountType, Zenon
<1> QED
  BY <1>3, <1>5, <1>6, Cardinalities, SessionAssumption DEF Limited, WithinLimit

\* One more in the tree, and one less about to be.
LEMMA InsertLimited ==
    ASSUME TypeOK, Valued, Limited, NEW r \in Requests, Insert(r)
    PROVE  Limited'
<1> DEFINE w == new[r].state
<1>1. r \in InWindow /\ w \in Values
  BY Zenon DEF Insert, InWindow, TypeOK
<1>2. ~\E d \in tree : d.state = Mix(w)
  BY <1>1, MixValue DEF Valued, LaterInWindow
<1>3. PICK t : /\ t = [state |-> Mix(w), tries |-> new[r].tries,
                       cleanup |-> new[r].cleanup, ctx |-> ctx[r], thawed |-> None]
               /\ tree' = tree \cup {t}
  BY <1>2, Zenon DEF Insert
<1>4. t \notin tree
  BY <1>2, <1>3, Zenon
<1>5. InWindow' = InWindow \ {r}
  BY <1>1, Zenon DEF Insert, Ends, InWindow, TypeOK
<1>6. IsFiniteSet(tree') /\ Cardinality(tree') = Cardinality(tree) + 1
  BY <1>3, <1>4, CountAdd, Zenon DEF Limited
<1>7. Cardinality(InWindow') = Cardinality(InWindow) - 1
  BY <1>1, <1>5, Cardinalities, CountRemove, Zenon
<1> QED
  BY <1>6, <1>7, Cardinalities DEF Limited, WithinLimit

\* One more about to be inserted: there is room for it, or it takes the place of
\* the entry its session had.
LEMMA SaveLimited ==
    ASSUME OwnInv, Valued, Limited, NEW r \in Requests, NEW own \in BOOLEAN, Save(r, own)
    PROVE  Limited'
<1> DEFINE old == Find(state[r])
           E == Expired(old)
<1>1. /\ pc[r] = "run" /\ Cardinality(InWindow) < NumWorkers
      /\ tree' = tree \ (E \cup {e \in old : DataEmpty(e)})
      /\ IF TooMany(old, tree \ E) THEN Ends(r) ELSE pc' = [pc EXCEPT ![r] = "saving"]
  BY Zenon DEF Save, Runs, Unlink
<1> HIDE DEF E
<1>2. CASE TooMany(old, tree \ E)
  <2>1. tree' \subseteq tree /\ \A q \in Requests : pc'[q] = "saving" <=> pc[q] = "saving"
    BY <1>1, <1>2, Zenon DEF Ends, OwnInv, TypeOK
  <2> QED
    BY <2>1, ShrinkLimited, Zenon
<1>3. CASE ~TooMany(old, tree \ E)
  <2>1. \A e \in old : e.thawed = <<r>>
    BY <1>1, ZenonT(40) DEF Valued, FindsItsOwn
  <2>2. \A e \in old : e \in tree /\ DataEmpty(e)
    BY <2>1 DEF Find, DataEmpty, OwnInv, Owned, Placed, None
  <2>3. tree' = (tree \ E) \ old
    BY <1>1, <2>2, Zenon
  <2>4. InWindow' = InWindow \cup {r} /\ r \notin InWindow
    BY <1>1, <1>3, ZenonT(40) DEF InWindow, OwnInv, TypeOK
  <2>5. IsFiniteSet(tree \ E) /\ IsFiniteSet(tree')
    BY <2>3, CountSubset, Zenon DEF Limited
  <2>6. Cardinality(tree \ E) \in Nat /\ Cardinality(tree') \in Nat
    BY <2>5, CountType, Zenon
  <2>7. Cardinality(InWindow') = Cardinality(InWindow) + 1
    BY <2>4, Cardinalities, CountAdd, ZenonT(40)
  <2>8. CASE old = {}
    <3>1. Cardinality(tree') < MaxSessions
      BY <1>3, <2>3, <2>6, <2>8, SessionAssumption, SMTT(30) DEF TooMany
    <3> QED
      BY <1>1, <2>5, <2>6, <2>7, <3>1, Cardinalities, SessionAssumption, SMTT(30) DEF Limited, WithinLimit
  <2>9. CASE old # {}
    <3>1. PICK e \in old : TRUE
      BY <2>9, Zenon
    <3>2. IsFiniteSet(tree \ {e}) /\ Cardinality(tree \ {e}) = Cardinality(tree) - 1
      BY <2>2, <3>1, CountRemove, Zenon DEF Limited
    <3>3. Cardinality(tree') <= Cardinality(tree \ {e})
      BY <2>3, <3>1, <3>2, CountSubset, Zenon
    <3> QED
      BY <2>5, <2>6, <2>7, <3>2, <3>3, Cardinalities, SessionAssumption, SMTT(30) DEF Limited, WithinLimit
  <2> QED
    BY <2>8, <2>9, Zenon
<1> QED
  BY <1>2, <1>3, Zenon

LEMMA NextLimited == OwnInv /\ Valued /\ Limited /\ [Next]_vars => Limited'
<1> SUFFICES ASSUME OwnInv, Valued, Limited, [Next]_vars
             PROVE  Limited'
  BY Zenon
<1>1. TypeOK
  BY Zenon DEF OwnInv
<1>2. CASE UNCHANGED vars \/ Tick
  BY <1>2, ShrinkLimited, Zenon DEF vars, treevars, Tick
<1>3. ASSUME NEW r \in Requests,
             \/ \E v \in told \cup {NoState} : RecvUnknown(r, v) \/ RecvKnown(r, v) \/ RecvThawed(r, v)
             \/ Policy(r) \/ RestoreToChild(r) \/ DiscardChild(r)
             \/ \E adds \in BOOLEAN : StoreInParent(r, adds)
             \/ \E own \in BOOLEAN : Save(r, own)
             \/ Insert(r) \/ Discard(r) \/ EndWithout(r) \/ Free(r)
      PROVE  Limited'
  <2>1. CASE \/ \E v \in told \cup {NoState} : RecvUnknown(r, v) \/ RecvThawed(r, v)
             \/ Policy(r) \/ RestoreToChild(r) \/ DiscardChild(r)
             \/ \E adds \in BOOLEAN : StoreInParent(r, adds)
             \/ Discard(r) \/ EndWithout(r) \/ Free(r)
    <3>1. tree' \subseteq tree
      <4>1. CASE Discard(r)
        BY <4>1, Zenon DEF Discard, Unlink
      <4>2. CASE ~Discard(r)
        <5>1. UNCHANGED treevars
          BY <2>1, <4>2, ZenonT(40) DEF RecvUnknown, RecvThawed, Policy, RestoreToChild, DiscardChild,
                                   StoreInParent, EndWithout, Free
        <5> QED
          BY <5>1, Zenon DEF treevars
      <4> QED
        BY <4>1, <4>2, Zenon
    <3>2. /\ pc' = pc \/ \E where \in {"run", "rejected", "ended", "freed"} : pc' = [pc EXCEPT ![r] = where]
          /\ pc' = pc \/ pc[r] # "saving"
      BY <2>1, Zenon DEF RecvUnknown, RecvThawed, Begins, Policy, RestoreToChild, DiscardChild, StoreInParent,
                  Discard, EndWithout, Runs, Ends, Free
    <3>3. \A q \in Requests : pc'[q] = "saving" <=> pc[q] = "saving"
      BY <1>1, <3>2, Zenon DEF TypeOK
    <3> QED
      BY <3>1, <3>3, ShrinkLimited, SMTT(20)
  <2> QED
    BY <1>1, <1>3, <2>1, RecvKnownLimited, SaveLimited, InsertLimited, SMTT(30)
<1> QED
  BY <1>2, <1>3, Zenon DEF Next

\* WithinLimit holds for any number of workers and any limit while no session
\* has used up its rounds: what is tested before state_entry_create releases
\* the mutex still bounds the sessions when the entries are inserted.
THEOREM Limit == Spec /\ []FewRounds => []WithinLimit
<1>1. Spec /\ []FewRounds => []Limited
  BY ValuesInvariant, InitLimited, NextLimited, PTL DEF Spec
<1> QED
  BY <1>1, PTL DEF Limited
-----------------------------------------------------------------------------
(* The length of the list *)

LEMMA CountedByList ==
    ASSUME ListSound
    PROVE  Cardinality(tree) = Len(to_expire)
<1> DEFINE n == Len(to_expire)
           f == [i \in 1..n |-> CHOOSE e \in tree : e.state = to_expire[i]]
<1>1. n \in Nat
  BY DEF ListSound
<1>2. ASSUME NEW i \in 1..n
      PROVE  f[i] \in tree /\ f[i].state = to_expire[i]
  <2>1. to_expire[i] \in {e.state : e \in tree}
    BY <1>2, Zenon DEF ListSound, Members
  <2>2. \E e \in tree : e.state = to_expire[i]
    BY <2>1, Zenon
  <2> QED
    BY <2>2, Zenon
<1> HIDE DEF n
<1>3. f \in [1..n -> tree]
  <2>1. \A i \in 1..n : (CHOOSE e \in tree : e.state = to_expire[i]) \in tree
    BY <1>2, Zenon
  <2> QED
    BY <2>1, Zenon
<1> HIDE DEF f
<1>4. \A i, j \in 1..n : f[i] = f[j] => i = j
  BY <1>2, ZenonT(40) DEF ListSound, Once, n
<1>5. \A e \in tree : \E i \in 1..n : f[i] = e
  <2> TAKE e \in tree
  <2>1. e.state \in Members(to_expire)
    BY Zenon DEF ListSound
  <2>2. PICK i \in 1..n : to_expire[i] = e.state
    BY <2>1, Zenon DEF Members, n
  <2> QED
    BY <1>2, <2>2, Zenon DEF ListSound
<1>6. f \in Sets!Bijection(1..n, tree)
  BY <1>3, <1>4, <1>5, Zenon DEF Sets!Bijection, Sets!Injection, Sets!Surjection, Sets!IsInjective
<1>7. Sets!ExistsBijection(1..n, tree)
  BY <1>6, Zenon DEF Sets!ExistsBijection
<1> QED
  BY <1>1, <1>7, Sets!FS_CountingElements, SameCardinality, Zenon DEF n

LEMMA InductionHolds == Induction
<1> SUFFICES ASSUME NEW S \in SUBSET Nat, 0 \in S, \A n \in S : n + 1 \in S
             PROVE  S = Nat
  BY Zenon DEF Induction
<1> DEFINE R == Sets!OpToRel(<, Nat)
           T == Nat \ S
<1>1. Sets!IsWellFoundedOn(R, Nat)
  BY Sets!NatLessThanWellFounded
<1>2. \A x, y \in Nat : <<x, y>> \in R <=> x < y
  BY DEF Sets!OpToRel
<1> HIDE DEF R
<1>3. SUFFICES ASSUME T # {} PROVE FALSE
  BY Zenon
<1>4. PICK m \in T : \A y \in T : ~(<<y, m>> \in R)
  <2>1. T \subseteq Nat
    OBVIOUS
  <2> HIDE DEF T
  <2> QED
    BY <1>1, <1>3, <2>1, Sets!WFMin, Zenon
<1>5. m \in Nat /\ m # 0
  OBVIOUS
<1>6. m - 1 \in Nat /\ m - 1 < m /\ (m - 1) + 1 = m
  BY <1>5
<1>7. m - 1 \in S
  BY <1>2, <1>4, <1>5, <1>6, Zenon
<1> QED
  BY <1>4, <1>6, <1>7

\* The list the entries of state.c expire by holds every entry of the tree once
\* and nothing else, whatever is unlinked, inserted or refused, for any requests,
\* workers and limits and however many rounds a session has had.
THEOREM ListInvariant == Spec => []ListAgrees
<1>1. Init => OwnInv /\ ListSound
  BY InitOwn, InitList, Zenon
<1>2. OwnInv /\ ListSound /\ [Next]_vars => OwnInv' /\ ListSound'
  BY NextOwn, NextList, InductionHolds, Zenon DEF OwnInv
<1>3. ListSound => ListAgrees
  BY CountedByList, Zenon DEF ListAgrees, ListSound, Members
<1> QED
  BY <1>1, <1>2, <1>3, PTL DEF Spec

\* SessionsBounded holds for any number of workers and any limit while no session
\* has used up its rounds.
THEOREM Bounded == Spec /\ []FewRounds => []SessionsBounded
BY Limit, ListInvariant, PTL DEF SessionsBounded

=============================================================================
