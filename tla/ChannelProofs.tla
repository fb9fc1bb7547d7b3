---------------------------- MODULE ChannelProofs ----------------------------
(***************************************************************************)
(* The two ends of a channel keep their numbers in step, for every size of *)
(* the queues and every number of requests, and a close that is            *)
(* acknowledged leaves nothing in the queues as long as no signal is       *)
(* refused.                                                                *)
(*                                                                         *)
(* The first invariant counts what the worker owes: the requests it is     *)
(* running and those its nested calls are about to accept, to answer or to *)
(* put in the place of another.  No request is owed twice, a reply is sent *)
(* for one that is owed, and a request that is dropped only makes the      *)
(* counters of the worker larger than what it owes.                        *)
(*                                                                         *)
(* The second one says why a signal may be left out: a request in the      *)
(* queue is still to be signalled, or its signal is on its way ahead of    *)
(* the close, or a call of the worker is bound to read the queue until it  *)
(* is empty; and the same for the replies.                                 *)
(***************************************************************************)
EXTENDS Channel, TLAPS

Frames == [op : Ops, n : Numbers]

\* Calls that end with their request accepted or answered.
Owing == {"bootstrap", "insert", "reply", "send"}
Mine(c) == IF c.op \in Owing THEN {c.n} ELSE {}
OwedBy(s) == UNION {Mine(s[i]) : i \in 1 .. Len(s)}
Apart(s) == \A i, j \in 1 .. Len(s) : s[i].op \in Owing /\ s[j].op \in Owing /\ s[i].n = s[j].n => i = j

\* The requests the worker owes an answer.
Owed == running \cup OwedBy(calls)

OwedOnce ==
    /\ Apart(calls) /\ running \cap OwedBy(calls) = {}
    /\ Owed \subseteq 1 .. responder.ack
    /\ Cardinality(Owed) <= responder.outstanding
    /\ responder.sequence + Cardinality(Owed) <= responder.ack

RequestsInStep ==
    /\ responder.ack + Len(requests) = requestor.sequence
    /\ \A i \in 1 .. Len(requests) : requests[i].sequence = responder.ack + i
    /\ \A i \in 1 .. Len(requests) : requests[i].ack <= responder.sequence
    /\ responder.view <= responder.sequence

RepliesInStep ==
    /\ requestor.ack <= responder.sequence
    /\ \A i \in 1 .. Len(replies) : /\ requestor.ack < replies[i].sequence
                                    /\ replies[i].sequence <= responder.sequence
    /\ \A i, j \in 1 .. Len(replies) : i < j => replies[i].sequence < replies[j].sequence

CountsAgree ==
    /\ requestor.outstanding = Len(requests) + responder.outstanding + Len(replies)
    /\ requestor.outstanding <= requestor.sequence

IInv == TypeOK /\ OwedOnce /\ RequestsInStep /\ RepliesInStep /\ CountsAgree

\* What the steps need of counting; CountingHolds below shows that it is so.
Counting ==
    \A m \in Nat : \A S \in SUBSET (1 .. m) :
        /\ Cardinality(S) \in Nat
        /\ Cardinality(S) = 0 <=> S = {}
        /\ \A T \in SUBSET S : Cardinality(T) \in Nat /\ Cardinality(T) <= Cardinality(S)
        /\ \A x \in Nat : /\ x \notin S => Cardinality(S \cup {x}) = Cardinality(S) + 1
                          /\ x \in S => Cardinality(S \ {x}) = Cardinality(S) - 1

-----------------------------------------------------------------------------
(* The stack of the worker *)

LEMMA PushStack ==
    ASSUME NEW s \in Seq(Frames), NEW c \in Frames
    PROVE  /\ <<c>> \o s \in Seq(Frames) /\ Len(<<c>> \o s) = Len(s) + 1
           /\ (<<c>> \o s)[1] = c
           /\ \A i \in 1 .. Len(s) : (<<c>> \o s)[i + 1] = s[i]
OBVIOUS

LEMMA PopStack ==
    ASSUME NEW s \in Seq(Frames), s # << >>
    PROVE  /\ Head(s) \in Frames /\ Tail(s) \in Seq(Frames) /\ Len(s) \in Nat \ {0}
           /\ s = <<Head(s)>> \o Tail(s)
OBVIOUS

LEMMA PushOwes ==
    ASSUME NEW s \in Seq(Frames), NEW c \in Frames
    PROVE  /\ OwedBy(<<c>> \o s) = Mine(c) \cup OwedBy(s)
           /\ Apart(<<c>> \o s) <=> Apart(s) /\ Mine(c) \cap OwedBy(s) = {}
<1> DEFINE t == <<c>> \o s
<1>1. /\ Len(t) = Len(s) + 1 /\ t[1] = c /\ Len(s) \in Nat
      /\ \A i \in 1 .. Len(s) : t[i + 1] = s[i]
  BY PushStack
<1> HIDE DEF t
<1>2. PICK m \in Nat : m = Len(s)
  BY <1>1
<1>3. 1 \in 1 .. m + 1 /\ \A i \in 1 .. m : i + 1 \in 1 .. m + 1 /\ i + 1 # 1
  BY <1>2
<1>4. \A j \in 1 .. m + 1 : j = 1 \/ \E i \in 1 .. m : j = i + 1
  <2> TAKE j \in 1 .. m + 1
  <2>1. j = 1 \/ (j - 1 \in 1 .. m /\ j = (j - 1) + 1)
    BY <1>2
  <2> QED
    BY <2>1
<1>5. \A i, j \in 1 .. m : i + 1 = j + 1 => i = j
  BY <1>2
<1>6. Len(t) = m + 1 /\ t[1] = c /\ \A i \in 1 .. m : t[i + 1] = s[i]
  BY <1>1, <1>2
<1>7. OwedBy(t) = Mine(c) \cup OwedBy(s)
  <2>1. ASSUME NEW x \in OwedBy(t) PROVE x \in Mine(c) \cup OwedBy(s)
    <3>1. PICK j \in 1 .. m + 1 : x \in Mine(t[j])
      BY <2>1, <1>6, Zenon DEF OwedBy
    <3>2. j = 1 \/ \E i \in 1 .. m : j = i + 1
      BY <1>4, Zenon
    <3>3. CASE j = 1
      BY <3>1, <3>3, <1>6, Zenon
    <3>4. ASSUME NEW i \in 1 .. m, j = i + 1 PROVE x \in OwedBy(s)
      <4>1. x \in Mine(s[i])
        BY <3>1, <3>4, <1>6, Zenon
      <4> QED
        BY <4>1, <1>2, Zenon DEF OwedBy
    <3> QED
      BY <3>2, <3>3, <3>4, Zenon
  <2>2. ASSUME NEW x \in OwedBy(s) PROVE x \in OwedBy(t)
    <3>1. PICK i \in 1 .. m : x \in Mine(s[i])
      BY <2>2, <1>2, Zenon DEF OwedBy
    <3> QED
      BY <3>1, <1>3, <1>6, Zenon DEF OwedBy
  <2>3. Mine(c) \subseteq OwedBy(t)
    BY <1>3, <1>6, Zenon DEF OwedBy
  <2> QED
    BY <2>1, <2>2, <2>3, Zenon
<1>8. ASSUME Apart(t) PROVE Apart(s) /\ Mine(c) \cap OwedBy(s) = {}
  <2>1. Apart(s)
    <3> SUFFICES ASSUME NEW i \in 1 .. m, NEW j \in 1 .. m,
                        s[i].op \in Owing, s[j].op \in Owing, s[i].n = s[j].n
                 PROVE  i = j
      BY <1>2, Zenon DEF Apart
    <3>1. i + 1 \in 1 .. Len(t) /\ j + 1 \in 1 .. Len(t) /\ t[i + 1] = s[i] /\ t[j + 1] = s[j]
      BY <1>3, <1>6, Zenon
    <3>2. i + 1 = j + 1
      BY <1>8, <3>1, Zenon DEF Apart
    <3> QED
      BY <3>2, <1>5, Zenon
  <2>2. ASSUME NEW x \in Mine(c), x \in OwedBy(s) PROVE FALSE
    <3>1. PICK i \in 1 .. m : x \in Mine(s[i])
      BY <2>2, <1>2, Zenon DEF OwedBy
    <3>2. c.op \in Owing /\ c.n = x /\ s[i].op \in Owing /\ s[i].n = x
      BY <2>2, <3>1 DEF Mine
    <3>3. i + 1 \in 1 .. Len(t) /\ 1 \in 1 .. Len(t) /\ i + 1 # 1 /\ t[i + 1] = s[i] /\ t[1] = c
      BY <1>3, <1>6, <3>1, Zenon
    <3> QED
      BY <1>8, <3>2, <3>3, Zenon DEF Apart
  <2> QED
    BY <2>1, <2>2, Zenon
<1>9. ASSUME Apart(s), Mine(c) \cap OwedBy(s) = {} PROVE Apart(t)
  <2> SUFFICES ASSUME NEW i \in 1 .. m + 1, NEW j \in 1 .. m + 1,
                      t[i].op \in Owing, t[j].op \in Owing, t[i].n = t[j].n
               PROVE  i = j
    BY <1>6, Zenon DEF Apart
  <2>1. \A k \in 1 .. m : s[k].op \in Owing => s[k].n \in OwedBy(s)
    BY <1>2, Zenon DEF OwedBy, Mine
  <2>2. \A k \in 1 .. m : s[k].op \in Owing /\ c.op \in Owing => s[k].n # c.n
    BY <2>1, <1>9, Zenon DEF Mine
  <2>3. (i = 1 \/ \E k \in 1 .. m : i = k + 1) /\ (j = 1 \/ \E k \in 1 .. m : j = k + 1)
    BY <1>4, Zenon
  <2>4. \A k, l \in 1 .. m : s[k].op \in Owing /\ s[l].op \in Owing /\ s[k].n = s[l].n => k = l
    BY <1>2, <1>9, Zenon DEF Apart
  <2>5. ASSUME NEW k \in 1 .. m, i = k + 1, j = 1 PROVE FALSE
    BY <2>2, <2>5, <1>6, Zenon
  <2>6. ASSUME NEW k \in 1 .. m, j = k + 1, i = 1 PROVE FALSE
    BY <2>2, <2>6, <1>6, Zenon
  <2>7. ASSUME NEW k \in 1 .. m, NEW l \in 1 .. m, i = k + 1, j = l + 1 PROVE i = j
    BY <2>4, <2>7, <1>6, Zenon
  <2> QED
    BY <2>3, <2>5, <2>6, <2>7, Zenon
<1> QED
  BY <1>7, <1>8, <1>9, Zenon DEF t

LEMMA PopOwes ==
    ASSUME NEW s \in Seq(Frames), s # << >>
    PROVE  /\ OwedBy(s) = Mine(Head(s)) \cup OwedBy(Tail(s))
           /\ Apart(s) <=> Apart(Tail(s)) /\ Mine(Head(s)) \cap OwedBy(Tail(s)) = {}
<1>1. PICK c \in Frames, t \in Seq(Frames) : c = Head(s) /\ t = Tail(s)
  BY PopStack, Zenon
<1>2. s = <<c>> \o t
  BY <1>1, PopStack, Zenon
<1>3. /\ OwedBy(<<c>> \o t) = Mine(c) \cup OwedBy(t)
      /\ Apart(<<c>> \o t) <=> Apart(t) /\ Mine(c) \cap OwedBy(t) = {}
  BY PushOwes
<1> QED
  BY <1>1, <1>2, <1>3, Zenon

-----------------------------------------------------------------------------
(* The two ends *)

LEMMA EndFields ==
    ASSUME NEW r \in Ends
    PROVE  /\ r.sequence \in Numbers /\ r.ack \in Numbers /\ r.view \in Numbers
           /\ r.outstanding \in Numbers /\ r.active \in BOOLEAN
BY DEF Ends

LEMMA NumberIs == Numbers = 0 .. MaxRequests /\ MaxRequests \in Nat /\ Numbers \subseteq Nat
BY ChannelAssumption DEF Numbers

LEMMA EndCloses ==
    ASSUME NEW r \in Ends,
           NEW e, e = [r EXCEPT !.active = FALSE]
    PROVE  /\ e \in Ends /\ e.sequence = r.sequence /\ e.outstanding = r.outstanding
           /\ e.ack = r.ack /\ e.view = r.view /\ e.active = FALSE
BY Zenon DEF Ends

LEMMA PacketIs ==
    ASSUME NEW s \in 1 .. MaxRequests, NEW a \in Numbers
    PROVE  LET p == [sequence |-> s, ack |-> a] IN p \in Packets /\ p.sequence = s /\ p.ack = a
BY DEF Packets

LEMMA PacketFields ==
    ASSUME NEW p \in Packets
    PROVE  p.sequence \in 1 .. MaxRequests /\ p.ack \in Numbers
BY DEF Packets

LEMMA QueueTail ==
    ASSUME NEW X, NEW q \in Seq(X), q # << >>
    PROVE  /\ Head(q) \in X /\ Head(q) = q[1] /\ Tail(q) \in Seq(X)
           /\ Len(q) \in Nat \ {0} /\ Len(Tail(q)) = Len(q) - 1
           /\ \A i \in 1 .. Len(q) - 1 : Tail(q)[i] = q[i + 1]
OBVIOUS

LEMMA QueueAppend ==
    ASSUME NEW X, NEW q \in Seq(X), NEW x \in X
    PROVE  /\ Append(q, x) \in Seq(X) /\ Len(q) \in Nat /\ Len(Append(q, x)) = Len(q) + 1
           /\ \A i \in 1 .. Len(q) : Append(q, x)[i] = q[i]
           /\ Append(q, x)[Len(q) + 1] = x
OBVIOUS

LEMMA SignalledType ==
    ASSUME NEW q \in Seq(Signals), Len(q) <= CtlSize, NEW x \in Signals
    PROVE  Signalled(q, x) \in Seq(Signals) /\ Len(Signalled(q, x)) <= CtlSize
<1>1. CtlSize \in Nat /\ Len(q) \in Nat
  BY ChannelAssumption
<1>2. Append(q, x) \in Seq(Signals) /\ Len(Append(q, x)) = Len(q) + 1
  BY QueueAppend
<1> QED
  BY <1>1, <1>2 DEF Signalled

-----------------------------------------------------------------------------
(* What is owed *)

LEMMA OwedFacts ==
    ASSUME Counting, IInv
    PROVE  /\ Owed \in SUBSET (1 .. responder.ack) /\ responder.ack \in Nat
           /\ Cardinality(Owed) \in Nat
<1>1. Owed \in SUBSET (1 .. responder.ack) /\ responder.ack \in Nat
  BY EndFields, NumberIs DEF IInv, TypeOK, OwedOnce
<1> QED
  BY <1>1, Zenon DEF Counting

\* No call ends with an answer, and no request is read.
LEMMA OwesNoMore ==
    ASSUME Counting, IInv, Apart(calls'), running' \cap OwedBy(calls') = {}, Owed' \subseteq Owed,
           responder'.ack = responder.ack, responder'.outstanding = responder.outstanding,
           responder'.sequence = responder.sequence
    PROVE  OwedOnce'
<1>1. Owed' \subseteq 1 .. responder.ack
  BY Zenon DEF IInv, OwedOnce
<1>2. Cardinality(Owed') <= Cardinality(Owed) /\ Cardinality(Owed') \in Nat /\ Cardinality(Owed) \in Nat
  BY OwedFacts, <1>1, Zenon DEF Counting
<1>3. responder.ack \in Nat /\ responder.outstanding \in Nat /\ responder.sequence \in Nat
  BY EndFields, NumberIs DEF IInv, TypeOK
<1>4. Cardinality(Owed) <= responder.outstanding /\ responder.sequence + Cardinality(Owed) <= responder.ack
  BY Zenon DEF IInv, OwedOnce
<1>5. PICK k \in Nat, l \in Nat : k = Cardinality(Owed) /\ l = Cardinality(Owed')
  BY <1>2, Zenon
<1>6. l <= responder.outstanding /\ responder.sequence + l <= responder.ack
  BY <1>2, <1>3, <1>4, <1>5
<1> QED
  BY <1>1, <1>5, <1>6 DEF OwedOnce

\* The request of the innermost call is answered.
LEMMA OwesOneLess ==
    ASSUME Counting, IInv, NEW x \in Owed
    PROVE  /\ Cardinality(Owed \ {x}) = Cardinality(Owed) - 1
           /\ Cardinality(Owed) \in Nat \ {0}
           /\ responder.outstanding \in Nat \ {0}
           /\ Cardinality(Owed \ {x}) <= responder.outstanding - 1
           /\ Cardinality(Owed \ {x}) <= responder.outstanding
           /\ responder.sequence + 1 + Cardinality(Owed \ {x}) <= responder.ack
           /\ responder.sequence + 1 <= responder.ack
<1>1. Owed \in SUBSET (1 .. responder.ack) /\ responder.ack \in Nat /\ Cardinality(Owed) \in Nat
  BY OwedFacts
<1>2. x \in Nat
  BY <1>1
<1>3. Cardinality(Owed \ {x}) = Cardinality(Owed) - 1 /\ Cardinality(Owed) # 0
  BY <1>1, <1>2, Zenon DEF Counting
<1>4. responder.outstanding \in Nat /\ responder.sequence \in Nat
  BY EndFields, NumberIs DEF IInv, TypeOK
<1>5. Cardinality(Owed) <= responder.outstanding /\ responder.sequence + Cardinality(Owed) <= responder.ack
  BY Zenon DEF IInv, OwedOnce
<1>6. PICK k \in Nat : k = Cardinality(Owed)
  BY <1>1, Zenon
<1> QED
  BY <1>1, <1>3, <1>4, <1>5, <1>6

\* The innermost call owes an answer to its request.
LEMMA TopOwes ==
    ASSUME IInv, calls # << >>
    PROVE  /\ Head(calls) \in Frames /\ Tail(calls) \in Seq(Frames) /\ calls \in Seq(Frames)
           /\ Head(calls).n \in Numbers /\ Head(calls).op \in Ops
           /\ OwedBy(calls) = Mine(Head(calls)) \cup OwedBy(Tail(calls))
           /\ Apart(Tail(calls)) /\ Mine(Head(calls)) \cap OwedBy(Tail(calls)) = {}
           /\ running \cap OwedBy(calls) = {} /\ Apart(calls)
           /\ Head(calls).op \in Owing => /\ Mine(Head(calls)) = {Head(calls).n}
                                          /\ Head(calls).n \in Owed
                                          /\ Head(calls).n \notin running \cup OwedBy(Tail(calls))
                                          /\ Owed \ {Head(calls).n} = running \cup OwedBy(Tail(calls))
<1>1. calls \in Seq(Frames)
  BY Zenon DEF IInv, TypeOK, Frames
<1>2. Head(calls) \in Frames /\ Tail(calls) \in Seq(Frames)
  BY <1>1, PopStack, Zenon
<1>3. Head(calls).n \in Numbers /\ Head(calls).op \in Ops
  BY <1>2 DEF Frames
<1>4. /\ OwedBy(calls) = Mine(Head(calls)) \cup OwedBy(Tail(calls))
      /\ Apart(calls) <=> Apart(Tail(calls)) /\ Mine(Head(calls)) \cap OwedBy(Tail(calls)) = {}
  BY <1>1, PopOwes
<1>5. Apart(calls) /\ running \cap OwedBy(calls) = {}
  BY Zenon DEF IInv, OwedOnce
<1>6. Head(calls).op \in Owing => Mine(Head(calls)) = {Head(calls).n}
  BY Zenon DEF Mine
<1> QED
  BY <1>1, <1>2, <1>3, <1>4, <1>5, <1>6, Zenon DEF Owed

-----------------------------------------------------------------------------
(* Steps that send and read no data *)

OtherTypes ==
    /\ toResponder \in Seq(Signals) /\ Len(toResponder) <= CtlSize
    /\ toRequestor \in Seq(Signals) /\ Len(toRequestor) <= CtlSize
    /\ network \in {"idle", "pushed", "reading", "closing"}
    /\ gone \in BOOLEAN /\ open \in BOOLEAN /\ freed \in BOOLEAN /\ slept \in BOOLEAN
    /\ calls \in Seq(Frames)
    /\ running \subseteq Numbers

LEMMA TypesAre ==
    TypeOK <=> /\ OtherTypes /\ requestor \in Ends /\ responder \in Ends
               /\ requests \in Seq(Packets) /\ Len(requests) <= AqSize
               /\ replies \in Seq(Packets) /\ Len(replies) <= AqSize
BY Zenon DEF TypeOK, OtherTypes, Frames

SameNumbers(r, s) ==
    r.sequence = s.sequence /\ r.ack = s.ack /\ r.view = s.view /\ r.outstanding = s.outstanding

LEMMA QuietStep ==
    ASSUME IInv, requests' = requests, replies' = replies, requestor' \in Ends, responder' \in Ends,
           SameNumbers(requestor', requestor), SameNumbers(responder', responder),
           OtherTypes', OwedOnce'
    PROVE  IInv'
<1>1. TypeOK'
  BY TypesAre, Zenon DEF IInv, TypeOK, OtherTypes, Frames
<1>2. RequestsInStep'
  BY Zenon DEF IInv, RequestsInStep, SameNumbers
<1>3. RepliesInStep'
  BY Zenon DEF IInv, RepliesInStep, SameNumbers
<1>4. CountsAgree'
  BY Zenon DEF IInv, CountsAgree, SameNumbers
<1> QED
  BY <1>1, <1>2, <1>3, <1>4, Zenon DEF IInv

LEMMA SameEnds ==
    ASSUME IInv
    PROVE  /\ requestor \in Ends /\ responder \in Ends /\ OtherTypes
           /\ SameNumbers(requestor, requestor) /\ SameNumbers(responder, responder)
BY TypesAre, Zenon DEF IInv, SameNumbers

\* Of the network thread.
LEMMA SameWorkerOwes ==
    ASSUME IInv, UNCHANGED workerVars
    PROVE  OwedOnce'
<1>1. UNCHANGED <<responder, calls, running>>
  BY Zenon DEF workerVars
<1> QED
  BY <1>1, Zenon DEF IInv, OwedOnce, Owed

LEMMA SignalTypes ==
    ASSUME IInv
    PROVE  /\ \A x \in Signals : /\ Signalled(toResponder, x) \in Seq(Signals)
                                 /\ Len(Signalled(toResponder, x)) <= CtlSize
                                 /\ Signalled(toRequestor, x) \in Seq(Signals)
                                 /\ Len(Signalled(toRequestor, x)) <= CtlSize
           /\ toResponder # << >> => /\ Tail(toResponder) \in Seq(Signals)
                                     /\ Len(Tail(toResponder)) <= CtlSize
           /\ toRequestor # << >> => /\ Tail(toRequestor) \in Seq(Signals)
                                     /\ Len(Tail(toRequestor)) <= CtlSize
<1>1. /\ toResponder \in Seq(Signals) /\ Len(toResponder) <= CtlSize
      /\ toRequestor \in Seq(Signals) /\ Len(toRequestor) <= CtlSize
  BY Zenon DEF IInv, TypeOK
<1>2. ASSUME NEW q \in Seq(Signals), Len(q) <= CtlSize, q # << >>
      PROVE  Tail(q) \in Seq(Signals) /\ Len(Tail(q)) <= CtlSize
  <2>1. Tail(q) \in Seq(Signals) /\ Len(Tail(q)) = Len(q) - 1 /\ Len(q) \in Nat
    BY <1>2, QueueTail
  <2>2. CtlSize \in Nat
    BY ChannelAssumption
  <2> QED
    BY <1>2, <2>1, <2>2
<1> QED
  BY <1>1, <1>2, SignalledType, Zenon

LEMMA QuietNetwork ==
    ASSUME IInv, \/ SignalRequest \/ SendRequestFails \/ NoMoreReplies \/ ReplySignal \/ DoneSignal
                 \/ SleepingSignal \/ CloseAcked \/ SignalClose
    PROVE  IInv'
<1>1. UNCHANGED <<requestor, workerVars, requests, replies>>
  BY Zenon DEF SignalRequest, SendRequestFails, NoMoreReplies, ReplySignal, DoneSignal,
               SleepingSignal, CloseAcked, SignalClose, networkVars
<1>2. UNCHANGED <<responder, open, freed, slept, calls, running>>
  BY <1>1, Zenon DEF workerVars
<1>3. network' \in {"idle", "pushed", "reading", "closing"} /\ gone' \in BOOLEAN
  BY SameEnds, Zenon DEF SignalRequest, SendRequestFails, NoMoreReplies, ReplySignal, DoneSignal,
                         SleepingSignal, CloseAcked, SignalClose, networkVars, OtherTypes
<1>4. "DATA_TO_RESPONDER" \in Signals /\ "CLOSE" \in Signals
  BY DEF Signals
<1>5. toResponder' \in Seq(Signals) /\ Len(toResponder') <= CtlSize
  BY SameEnds, SignalTypes, <1>4, Zenon
     DEF SignalRequest, SendRequestFails, NoMoreReplies, ReplySignal, DoneSignal,
         SleepingSignal, CloseAcked, SignalClose, OtherTypes
<1>6. toRequestor' \in Seq(Signals) /\ Len(toRequestor') <= CtlSize
  BY SameEnds, SignalTypes, Zenon
     DEF SignalRequest, SendRequestFails, NoMoreReplies, ReplySignal, DoneSignal,
         SleepingSignal, CloseAcked, SignalClose, OtherTypes, NetworkGets
<1>7. OtherTypes'
  BY SameEnds, <1>2, <1>3, <1>5, <1>6, Zenon DEF OtherTypes
<1>8. requestor' = requestor /\ responder' = responder /\ requests' = requests /\ replies' = replies
  BY <1>1, <1>2, Zenon
<1> QED
  BY <1>1, <1>7, <1>8, SameEnds, SameWorkerOwes, QuietStep, Zenon

LEMMA DeactivateIInv ==
    ASSUME IInv, Deactivate
    PROVE  IInv'
<1>1. /\ requestor' = [requestor EXCEPT !.active = FALSE] /\ network' = "idle"
      /\ UNCHANGED <<gone, workerVars, requests, replies, toResponder, toRequestor>>
  BY Zenon DEF Deactivate
<1>2. UNCHANGED <<responder, open, freed, slept, calls, running>>
  BY <1>1, Zenon DEF workerVars
<1>3. requestor' \in Ends /\ SameNumbers(requestor', requestor)
  <2>1. requestor \in Ends
    BY SameEnds, Zenon
  <2> QED
    BY <1>1, <2>1, EndCloses, Zenon DEF SameNumbers
<1>4. OtherTypes'
  BY SameEnds, <1>1, <1>2, Zenon DEF OtherTypes
<1>5. responder' = responder /\ requests' = requests /\ replies' = replies
  BY <1>1, <1>2, Zenon
<1> QED
  BY <1>1, <1>3, <1>4, <1>5, SameEnds, SameWorkerOwes, QuietStep, Zenon

\* Of the worker: calls end and begin, and no more is owed than before.
StackStep ==
    /\ calls' \in Seq(Frames) /\ running' \subseteq Numbers
    /\ Apart(calls') /\ running' \cap OwedBy(calls') = {} /\ Owed' \subseteq Owed

LEMMA EmptyStack == << >> \in Seq(Frames) /\ OwedBy(<< >>) = {} /\ Apart(<< >>)
<1>1. << >> \in Seq(Frames) /\ Len(<< >>) = 0 /\ 1 .. 0 = {}
  OBVIOUS
<1>2. \A i \in 1 .. Len(<< >>) : FALSE
  BY <1>1
<1> QED
  BY <1>1, <1>2, Zenon DEF OwedBy, Apart

LEMMA SameStack ==
    ASSUME IInv, UNCHANGED <<calls, running>>
    PROVE  StackStep
<1>1. calls \in Seq(Frames) /\ running \subseteq Numbers
  BY SameEnds, Zenon DEF OtherTypes
<1> QED
  BY <1>1, Zenon DEF StackStep, Owed, IInv, OwedOnce

WorkerTypes ==
    /\ toResponder' \in Seq(Signals) /\ Len(toResponder') <= CtlSize
    /\ toRequestor' \in Seq(Signals) /\ Len(toRequestor') <= CtlSize
    /\ open' \in BOOLEAN /\ freed' \in BOOLEAN /\ slept' \in BOOLEAN

LEMMA QuietWorker ==
    ASSUME Counting, IInv, UNCHANGED <<networkVars, requests, replies>>,
           responder' \in Ends, SameNumbers(responder', responder), StackStep, WorkerTypes
    PROVE  IInv'
<1>1. UNCHANGED <<requestor, network, gone>> /\ requests' = requests /\ replies' = replies
  BY Zenon DEF networkVars
<1>2. OtherTypes'
  BY SameEnds, <1>1, Zenon DEF OtherTypes, WorkerTypes, StackStep
<1>3. OwedOnce'
  BY OwesNoMore, Zenon DEF StackStep, SameNumbers
<1>4. requestor' \in Ends /\ SameNumbers(requestor', requestor)
  BY SameEnds, <1>1, Zenon
<1> QED
  BY <1>1, <1>2, <1>3, <1>4, QuietStep, Zenon

LEMMA SignalsToWorker ==
    ASSUME Counting, IInv, OpenSignal \/ RequestSignal \/ CloseSignal
    PROVE  IInv'
<1>1. /\ UNCHANGED <<networkVars, requests, replies, running>> /\ calls = << >>
      /\ toResponder # << >> /\ toResponder' = Tail(toResponder)
  BY Zenon DEF OpenSignal, RequestSignal, CloseSignal, WorkerGets
<1>2. responder' \in Ends /\ SameNumbers(responder', responder)
  <2>1. responder \in Ends /\ SameNumbers(responder, responder)
    BY SameEnds, Zenon
  <2>2. CASE CloseSignal
    BY <2>1, <2>2, EndCloses, Zenon DEF SameNumbers, CloseSignal
  <2>3. CASE ~CloseSignal
    BY <2>1, <2>3, Zenon DEF OpenSignal, RequestSignal
  <2> QED
    BY <2>2, <2>3, Zenon
<1>3. StackStep
  <2>1. CASE calls' = calls
    BY <1>1, <2>1, SameStack, Zenon
  <2>2. CASE calls' = <<Call("serve", 0)>>
    <3>1. Call("serve", 0) \in Frames /\ Mine(Call("serve", 0)) = {}
      BY NumberIs DEF Call, Frames, Ops, Mine, Owing
    <3>2. PICK c \in Frames : c = Call("serve", 0) /\ Mine(c) = {}
      BY <3>1, Zenon
    <3>3. <<c>> \o << >> \in Seq(Frames) /\ OwedBy(<<c>> \o << >>) = {} /\ Apart(<<c>> \o << >>)
      <4>1. PICK e \in Seq(Frames) : e = << >> /\ OwedBy(e) = {} /\ Apart(e)
        BY EmptyStack, Zenon
      <4>2. /\ <<c>> \o e \in Seq(Frames) /\ OwedBy(<<c>> \o e) = Mine(c) \cup OwedBy(e)
            /\ Apart(<<c>> \o e) <=> Apart(e) /\ Mine(c) \cap OwedBy(e) = {}
        BY PushStack, PushOwes
      <4> QED
        BY <3>2, <4>1, <4>2, Zenon
    <3>5. calls' = <<c>> \o << >>
      BY <2>2, <3>2
    <3>4. running \subseteq Numbers
      BY SameEnds, Zenon DEF OtherTypes
    <3> QED
      BY <1>1, <3>3, <3>4, <3>5, Zenon DEF StackStep, Owed
  <2> QED
    BY <2>1, <2>2, Zenon DEF OpenSignal, RequestSignal, CloseSignal
<1>4. WorkerTypes
  <2>1. "CLOSE" \in Signals
    BY DEF Signals
  <2>2. toResponder' \in Seq(Signals) /\ Len(toResponder') <= CtlSize
    BY <1>1, SignalTypes, Zenon
  <2>3. toRequestor' \in Seq(Signals) /\ Len(toRequestor') <= CtlSize
    BY <2>1, SignalTypes, SameEnds, Zenon DEF OpenSignal, RequestSignal, CloseSignal, OtherTypes
  <2>4. open' \in BOOLEAN /\ freed' \in BOOLEAN /\ slept' \in BOOLEAN
    BY SameEnds, Zenon DEF OpenSignal, RequestSignal, CloseSignal, OtherTypes
  <2> QED
    BY <2>2, <2>3, <2>4, Zenon DEF WorkerTypes
<1> QED
  BY <1>1, <1>2, <1>3, <1>4, QuietWorker, Zenon

\* The call on top ends, or becomes one that owes no more than it did.
LEMMA TopReplaced ==
    ASSUME IInv, calls # << >>, UNCHANGED running,
           \/ calls' = Tail(calls)
           \/ \E c \in Frames : Mine(c) \subseteq Mine(Head(calls)) /\ calls' = <<c>> \o Tail(calls)
    PROVE  StackStep
<1>1. PICK h \in Frames, t \in Seq(Frames) : h = Head(calls) /\ t = Tail(calls)
  BY TopOwes, Zenon
<1>2. /\ OwedBy(calls) = Mine(h) \cup OwedBy(t) /\ Apart(t) /\ Mine(h) \cap OwedBy(t) = {}
      /\ running \cap OwedBy(calls) = {} /\ running \subseteq Numbers
  BY <1>1, TopOwes, SameEnds, Zenon DEF OtherTypes
<1>3. CASE calls' = Tail(calls)
  BY <1>1, <1>2, <1>3, Zenon DEF StackStep, Owed
<1>4. ASSUME NEW c \in Frames, Mine(c) \subseteq Mine(h), calls' = <<c>> \o t
      PROVE  StackStep
  <2>1. /\ calls' \in Seq(Frames) /\ OwedBy(calls') = Mine(c) \cup OwedBy(t)
        /\ Apart(calls') <=> Apart(t) /\ Mine(c) \cap OwedBy(t) = {}
    BY <1>4, PushStack, PushOwes
  <2> QED
    BY <2>1, <1>2, <1>4, Zenon DEF StackStep, Owed
<1> QED
  BY <1>1, <1>3, <1>4, Zenon

LEMMA SameOthers ==
    ASSUME IInv, UNCHANGED <<open, freed, slept, toResponder, toRequestor>>
    PROVE  WorkerTypes
BY SameEnds, Zenon DEF WorkerTypes, OtherTypes

LEMMA CallIs ==
    ASSUME NEW op \in Ops, NEW n \in Numbers
    PROVE  /\ Call(op, n) \in Frames /\ Call(op, n).op = op /\ Call(op, n).n = n
           /\ op \in Owing => Mine(Call(op, n)) = {n}
           /\ op \notin Owing => Mine(Call(op, n)) = {}
BY DEF Call, Frames, Mine

LEMMA OpsAre ==
    /\ "serve" \in Ops /\ "replied" \in Ops /\ "failed" \in Ops
    /\ "bootstrap" \in Ops /\ "insert" \in Ops /\ "reply" \in Ops /\ "send" \in Ops
    /\ "serve" \notin Owing /\ "replied" \notin Owing /\ "failed" \notin Owing
    /\ "bootstrap" \in Owing /\ "insert" \in Owing /\ "reply" \in Owing /\ "send" \in Owing
BY DEF Ops, Owing

LEMMA NoMoreRequestsIInv ==
    ASSUME Counting, IInv, NoMoreRequests
    PROVE  IInv'
<1>1. /\ UNCHANGED <<networkVars, responder, open, freed, slept, running, requests, replies, toResponder>>
      /\ calls' = Tail(calls) /\ calls # << >>
  BY Zenon DEF NoMoreRequests, Reads, Calls
<1>2. StackStep
  BY <1>1, TopReplaced, Zenon
<1>3. toRequestor' \in Seq(Signals) /\ Len(toRequestor') <= CtlSize
  <2>1. "DATA_DONE_RESPONDER" \in Signals /\ "DATA_TO_REQUESTOR" \in Signals
    BY DEF Signals
  <2>2. toRequestor \in Seq(Signals) /\ Len(toRequestor) <= CtlSize
    BY SameEnds, Zenon DEF OtherTypes
  <2>3. PICK x \in Signals : toRequestor' = toRequestor \/ toRequestor' = Signalled(toRequestor, x)
    BY <2>1, Zenon DEF NoMoreRequests
  <2> QED
    BY <2>2, <2>3, SignalTypes, Zenon
<1>4. WorkerTypes
  BY <1>1, <1>3, SameEnds, Zenon DEF WorkerTypes, OtherTypes
<1>5. responder' \in Ends /\ SameNumbers(responder', responder)
  BY <1>1, SameEnds, Zenon
<1> QED
  BY <1>1, <1>2, <1>4, <1>5, QuietWorker, Zenon

LEMMA NoReply ==
    ASSUME Counting, IInv, Nak \/ MayReply \/ SendReplyFails \/ ReplyRefused
    PROVE  IInv'
<1>1. /\ UNCHANGED <<networkVars, responder, open, freed, slept, running, requests, replies,
                     toResponder, toRequestor>>
      /\ calls # << >>
  BY Zenon DEF Nak, MayReply, SendReplyFails, ReplyRefused, Calls
<1>2. PICK n \in Numbers : n = Head(calls).n
  BY <1>1, TopOwes, Zenon
<1>3. Head(calls).op \in Owing => Mine(Head(calls)) = {n}
  BY <1>1, <1>2, TopOwes, Zenon
<1>4. StackStep
  <2>1. CASE Nak
    <3>1. Mine(Call("reply", n)) \subseteq Mine(Head(calls)) /\ Call("reply", n) \in Frames
      <4>1. Head(calls).op = "bootstrap"
        BY <2>1, Zenon DEF Nak, Calls
      <4>2. Mine(Head(calls)) = {n}
        BY <4>1, <1>3, OpsAre, Zenon
      <4> QED
        BY <4>2, OpsAre, CallIs, Zenon
    <3>2. calls' = <<Call("reply", n)>> \o Tail(calls)
      BY <2>1, <1>2, Zenon DEF Nak
    <3> QED
      BY <1>1, <3>1, <3>2, TopReplaced, Zenon
  <2>2. CASE SendReplyFails
    <3>1. Mine(Call("failed", n)) \subseteq Mine(Head(calls)) /\ Call("failed", n) \in Frames
      BY OpsAre, CallIs, Zenon
    <3>2. calls' = <<Call("failed", n)>> \o Tail(calls)
      BY <2>2, <1>2, Zenon DEF SendReplyFails
    <3> QED
      BY <1>1, <3>1, <3>2, TopReplaced, Zenon
  <2>3. CASE ReplyRefused
    BY <1>1, <2>3, TopReplaced, Zenon DEF ReplyRefused
  <2>4. CASE MayReply
    <3>1. Mine(Call("send", n)) \subseteq Mine(Head(calls)) /\ Call("send", n) \in Frames
      <4>1. Head(calls).op = "reply"
        BY <2>4, Zenon DEF MayReply, Calls
      <4>2. Mine(Head(calls)) = {n}
        BY <4>1, <1>3, OpsAre, Zenon
      <4> QED
        BY <4>2, OpsAre, CallIs, Zenon
    <3>2. calls' = <<Call("send", n)>> \o Tail(calls)
      BY <2>4, <1>2, Zenon DEF MayReply
    <3> QED
      BY <1>1, <3>1, <3>2, TopReplaced, Zenon
  <2> QED
    BY <2>1, <2>2, <2>3, <2>4, Zenon
<1>5. responder' \in Ends /\ SameNumbers(responder', responder)
  BY <1>1, SameEnds, Zenon
<1> QED
  BY <1>1, <1>4, <1>5, SameOthers, QuietWorker, Zenon

LEMMA AcceptIInv ==
    ASSUME Counting, IInv, Accept
    PROVE  IInv'
<1>1. /\ UNCHANGED <<networkVars, responder, open, freed, slept, requests, replies, toResponder, toRequestor>>
      /\ calls # << >> /\ Head(calls).op \in Owing
      /\ calls' = Tail(calls) /\ running' = running \cup {Head(calls).n}
  BY OpsAre, Zenon DEF Accept, Calls
<1>2. PICK n \in Numbers, t \in Seq(Frames) :
        /\ n = Head(calls).n /\ t = Tail(calls) /\ n \in Owed
        /\ n \notin running \cup OwedBy(t) /\ Apart(t) /\ running \cap OwedBy(calls) = {}
        /\ OwedBy(t) \subseteq OwedBy(calls)
  BY <1>1, TopOwes, Zenon
<1>3. running \subseteq Numbers
  BY SameEnds, Zenon DEF OtherTypes
<1>4. calls' = t /\ running' = running \cup {n}
  BY <1>1, <1>2, Zenon
<1>5. StackStep
  BY <1>2, <1>3, <1>4, Zenon DEF StackStep, Owed
<1>6. responder' \in Ends /\ SameNumbers(responder', responder)
  BY <1>1, SameEnds, Zenon
<1> QED
  BY <1>1, <1>5, <1>6, SameOthers, QuietWorker, Zenon

LEMMA ConflictIInv ==
    ASSUME Counting, IInv, NEW old \in running, Conflict(old)
    PROVE  IInv'
<1>1. /\ UNCHANGED <<networkVars, responder, open, freed, slept, requests, replies, toResponder, toRequestor>>
      /\ calls # << >> /\ Head(calls).op \in Owing /\ running' = running \ {old}
  BY OpsAre, Zenon DEF Conflict, Calls
<1>2. PICK n \in Numbers, t \in Seq(Frames) :
        /\ n = Head(calls).n /\ t = Tail(calls) /\ n \in Owed
        /\ n \notin running \cup OwedBy(t) /\ Apart(t) /\ running \cap OwedBy(calls) = {}
        /\ OwedBy(t) \subseteq OwedBy(calls)
  BY <1>1, TopOwes, Zenon
<1>3. running \subseteq Numbers /\ old \in Numbers
  BY SameEnds, Zenon DEF OtherTypes
<1>4. PICK c \in Frames : c = Call("insert", n) /\ Mine(c) = {n}
  <2>1. Call("insert", n) \in Frames /\ Mine(Call("insert", n)) = {n}
    BY OpsAre, CallIs
  <2> QED
    BY <2>1, Zenon
<1>5. PICK d \in Frames : d = Call("reply", old) /\ Mine(d) = {old}
  <2>1. Call("reply", old) \in Frames /\ Mine(Call("reply", old)) = {old}
    BY <1>3, OpsAre, CallIs
  <2> QED
    BY <2>1, Zenon
<1>6. PICK s \in Seq(Frames) : s = <<c>> \o t
  BY PushStack, Zenon
<1>7. OwedBy(s) = {n} \cup OwedBy(t) /\ Apart(s)
  <2>1. /\ OwedBy(<<c>> \o t) = Mine(c) \cup OwedBy(t)
        /\ Apart(<<c>> \o t) <=> Apart(t) /\ Mine(c) \cap OwedBy(t) = {}
    BY PushOwes
  <2> QED
    BY <2>1, <1>2, <1>4, <1>6, ZenonT(40)
<1>8. old \notin OwedBy(s)
  BY <1>2, <1>7, Zenon
<1>9. /\ <<d>> \o s \in Seq(Frames) /\ OwedBy(<<d>> \o s) = {old} \cup OwedBy(s) /\ Apart(<<d>> \o s)
  <2>1. /\ OwedBy(<<d>> \o s) = Mine(d) \cup OwedBy(s)
        /\ Apart(<<d>> \o s) <=> Apart(s) /\ Mine(d) \cap OwedBy(s) = {}
        /\ <<d>> \o s \in Seq(Frames)
    BY PushOwes, PushStack
  <2> QED
    BY <2>1, <1>5, <1>7, <1>8, Zenon
<1>10. calls' = <<d>> \o s \/ calls' = s
  BY <1>2, <1>4, <1>5, <1>6, Zenon DEF Conflict
<1>11. StackStep
  BY <1>1, <1>2, <1>3, <1>6, <1>7, <1>8, <1>9, <1>10, ZenonT(40) DEF StackStep, Owed
<1>12. responder' \in Ends /\ SameNumbers(responder', responder)
  BY <1>1, SameEnds, Zenon
<1> QED
  BY <1>1, <1>11, <1>12, SameOthers, QuietWorker, Zenon

LEMMA FinishIInv ==
    ASSUME Counting, IInv, NEW n \in running, Finish(n)
    PROVE  IInv'
<1>1. /\ UNCHANGED <<networkVars, responder, open, freed, slept, requests, replies, toResponder, toRequestor>>
      /\ calls = << >> /\ running' = running \ {n}
      /\ calls' = << >> \/ calls' = <<Call("reply", n)>>
  BY Zenon DEF Finish
<1>2. running \subseteq Numbers /\ n \in Numbers
  BY SameEnds, Zenon DEF OtherTypes
<1>3. PICK e \in Seq(Frames) : e = << >> /\ OwedBy(e) = {} /\ Apart(e)
  BY EmptyStack, Zenon
<1>4. PICK c \in Frames : c = Call("reply", n) /\ Mine(c) = {n}
  <2>1. Call("reply", n) \in Frames /\ Mine(Call("reply", n)) = {n}
    BY <1>2, OpsAre, CallIs
  <2> QED
    BY <2>1, Zenon
<1>5. /\ <<c>> \o e \in Seq(Frames) /\ OwedBy(<<c>> \o e) = {n} /\ Apart(<<c>> \o e)
  <2>1. /\ <<c>> \o e \in Seq(Frames) /\ OwedBy(<<c>> \o e) = Mine(c) \cup OwedBy(e)
        /\ Apart(<<c>> \o e) <=> Apart(e) /\ Mine(c) \cap OwedBy(e) = {}
    BY PushStack, PushOwes
  <2> QED
    BY <1>3, <1>4, <2>1, Zenon
<1>6. <<c>> \o e = <<c>>
  BY <1>3
<1>7. calls' = e \/ calls' = <<c>> \o e
  BY <1>1, <1>3, <1>4, <1>6, Zenon
<1>8. StackStep
  BY <1>1, <1>2, <1>3, <1>5, <1>7, Zenon DEF StackStep, Owed
<1>9. responder' \in Ends /\ SameNumbers(responder', responder)
  BY <1>1, SameEnds, Zenon
<1> QED
  BY <1>1, <1>8, <1>9, SameOthers, QuietWorker, Zenon

LEMMA SleepingIInv ==
    ASSUME Counting, IInv, Sleeping
    PROVE  IInv'
<1>1. /\ UNCHANGED <<networkVars, responder, open, freed, calls, running, requests, replies, toResponder>>
      /\ slept' = TRUE /\ toRequestor' = Signalled(toRequestor, "RESPONDER_SLEEPING")
  BY Zenon DEF Sleeping
<1>2. "RESPONDER_SLEEPING" \in Signals
  BY DEF Signals
<1>3. WorkerTypes
  BY <1>1, <1>2, SignalTypes, SameEnds, Zenon DEF WorkerTypes, OtherTypes
<1>4. responder' \in Ends /\ SameNumbers(responder', responder)
  BY <1>1, SameEnds, Zenon
<1> QED
  BY <1>1, <1>3, <1>4, SameStack, QuietWorker, Zenon

-----------------------------------------------------------------------------
(* Steps that send or read data *)

LEMMA Bounds ==
    ASSUME IInv
    PROVE  /\ requestor \in Ends /\ responder \in Ends
           /\ requests \in Seq(Packets) /\ Len(requests) \in Nat /\ Len(requests) <= AqSize
           /\ replies \in Seq(Packets) /\ Len(replies) \in Nat /\ Len(replies) <= AqSize
           /\ AqSize \in Nat /\ MaxRequests \in Nat
           /\ requestor.sequence \in Nat /\ requestor.sequence <= MaxRequests
           /\ requestor.ack \in Nat /\ requestor.ack <= MaxRequests
           /\ requestor.outstanding \in Nat /\ requestor.outstanding <= requestor.sequence
           /\ responder.sequence \in Nat /\ responder.sequence <= MaxRequests
           /\ responder.ack \in Nat /\ responder.ack <= MaxRequests
           /\ responder.outstanding \in Nat /\ responder.outstanding <= MaxRequests
           /\ responder.ack + Len(requests) = requestor.sequence
           /\ requestor.outstanding = Len(requests) + responder.outstanding + Len(replies)
<1>1. /\ requestor \in Ends /\ responder \in Ends
      /\ requests \in Seq(Packets) /\ Len(requests) <= AqSize
      /\ replies \in Seq(Packets) /\ Len(replies) <= AqSize
  BY TypesAre, Zenon DEF IInv
<1>2. Len(requests) \in Nat /\ Len(replies) \in Nat
  BY <1>1
<1>3. /\ requestor.sequence \in Numbers /\ requestor.ack \in Numbers /\ requestor.outstanding \in Numbers
      /\ responder.sequence \in Numbers /\ responder.ack \in Numbers /\ responder.outstanding \in Numbers
  BY <1>1, EndFields, Zenon
<1>4. \A x \in Numbers : x \in Nat /\ x <= MaxRequests
  BY NumberIs
<1>5. /\ requestor.outstanding <= requestor.sequence
      /\ responder.ack + Len(requests) = requestor.sequence
      /\ requestor.outstanding = Len(requests) + responder.outstanding + Len(replies)
  BY Zenon DEF IInv, RequestsInStep, CountsAgree
<1>6. AqSize \in Nat /\ MaxRequests \in Nat
  BY ChannelAssumption
<1> QED
  BY <1>1, <1>2, <1>3, <1>4, <1>5, <1>6, Zenon

\* The numbers of a state by name, and how they are bounded.
Named(rs, ra, ro, ss, sa, so, lq, lp) ==
    /\ requestor.sequence = rs /\ requestor.ack = ra /\ requestor.outstanding = ro
    /\ responder.sequence = ss /\ responder.ack = sa /\ responder.outstanding = so
    /\ Len(requests) = lq /\ Len(replies) = lp

Ordered(rs, ra, ro, ss, sa, so, lq, lp) ==
    /\ rs <= MaxRequests /\ ra <= MaxRequests /\ ro <= rs /\ ss <= MaxRequests
    /\ sa <= MaxRequests /\ so <= MaxRequests /\ lq <= AqSize /\ lp <= AqSize
    /\ sa + lq = rs /\ ro = lq + so + lp

LEMMA Plain ==
    ASSUME IInv
    PROVE  \E rs, ra, ro, ss, sa, so, lq, lp \in Nat :
             Named(rs, ra, ro, ss, sa, so, lq, lp) /\ Ordered(rs, ra, ro, ss, sa, so, lq, lp)
BY Bounds, Zenon DEF Named, Ordered

LEMMA SendRequestIInv ==
    ASSUME IInv, SendRequest
    PROVE  IInv'
<1>1. PICK rs, ra, ro, ss, sa, so, lq, lp \in Nat :
        Named(rs, ra, ro, ss, sa, so, lq, lp) /\ Ordered(rs, ra, ro, ss, sa, so, lq, lp)
  BY Plain, Zenon
<1> DEFINE p == [sequence |-> rs + 1, ack |-> ra]
<1>2. /\ rs < MaxRequests /\ lq < AqSize
      /\ requests' = Append(requests, p)
      /\ requestor' = [requestor EXCEPT !.sequence = rs + 1, !.outstanding = ro + 1]
      /\ network' = "pushed"
      /\ UNCHANGED <<gone, workerVars, replies, toResponder, toRequestor>>
  BY <1>1, Zenon DEF SendRequest, Named
<1>3. UNCHANGED <<responder, open, freed, slept, calls, running>>
  BY <1>2, Zenon DEF workerVars
<1>4. rs + 1 \in 1 .. MaxRequests /\ rs + 1 \in Numbers /\ ro + 1 \in Numbers /\ ra \in Numbers
  <2>1. rs < MaxRequests
    BY <1>2, Zenon
  <2> QED
    BY <1>1, <2>1, NumberIs DEF Ordered
<1>5. p \in Packets /\ p.sequence = rs + 1 /\ p.ack = ra
  BY <1>4, PacketIs
<1> HIDE DEF p
<1>6. /\ requestor' \in Ends /\ requestor'.sequence = rs + 1 /\ requestor'.outstanding = ro + 1
      /\ requestor'.ack = ra
  <2>1. requestor \in Ends
    BY Bounds
  <2>2. PICK s \in Numbers, o \in Numbers : s = rs + 1 /\ o = ro + 1
    BY <1>4, Zenon
  <2>3. requestor' = [requestor EXCEPT !.sequence = s, !.outstanding = o]
    BY <1>2, <2>2, Zenon
  <2>4. /\ requestor' \in Ends /\ requestor'.sequence = s /\ requestor'.outstanding = o
        /\ requestor'.ack = requestor.ack
    BY <2>1, <2>3, Zenon DEF Ends
  <2> QED
    BY <1>1, <2>2, <2>4, Zenon DEF Named
<1>7. /\ requests' \in Seq(Packets) /\ Len(requests') = lq + 1
      /\ \A i \in 1 .. lq : requests'[i] = requests[i]
      /\ requests'[lq + 1] = p
  <2>1. requests \in Seq(Packets) /\ Len(requests) = lq
    BY <1>1, Bounds, Zenon DEF Named
  <2>2. /\ Append(requests, p) \in Seq(Packets) /\ Len(Append(requests, p)) = Len(requests) + 1
        /\ \A i \in 1 .. Len(requests) : Append(requests, p)[i] = requests[i]
        /\ Append(requests, p)[Len(requests) + 1] = p
    BY <1>5, <2>1, QueueAppend
  <2> QED
    BY <1>2, <2>1, <2>2, Zenon
<1>8. \A i \in 1 .. lq + 1 : i \in 1 .. lq \/ i = lq + 1
  OBVIOUS
<1>9. TypeOK'
  <2>1. lq + 1 <= AqSize
    BY <1>2, ChannelAssumption
  <2>2. OtherTypes'
    BY SameEnds, <1>2, <1>3, Zenon DEF OtherTypes
  <2> QED
    BY <1>2, <1>3, <1>6, <1>7, <2>1, <2>2, Bounds, Zenon DEF TypeOK, OtherTypes, Frames
<1>10. RequestsInStep'
  <2>1. sa + (lq + 1) = rs + 1
    BY <1>1 DEF Ordered
  <2>2. \A i \in 1 .. lq + 1 : requests'[i].sequence = sa + i
    <3>1. \A i \in 1 .. lq : requests'[i].sequence = sa + i
      BY <1>1, <1>7, Zenon DEF IInv, RequestsInStep, Named
    <3> QED
      BY <3>1, <2>1, <1>5, <1>7, <1>8, Zenon
  <2>3. \A i \in 1 .. lq + 1 : requests'[i].ack <= ss
    <3>1. \A i \in 1 .. lq : requests'[i].ack <= ss
      BY <1>1, <1>7, Zenon DEF IInv, RequestsInStep, Named
    <3>2. p.ack <= ss
      BY <1>1, <1>5, Zenon DEF IInv, RepliesInStep, Named
    <3> QED
      BY <3>1, <3>2, <1>7, <1>8, Zenon
  <2>4. responder.view <= responder.sequence
    BY Zenon DEF IInv, RequestsInStep
  <2> QED
    BY <1>1, <1>3, <1>6, <1>7, <2>1, <2>2, <2>3, <2>4, Zenon DEF RequestsInStep, Named
<1>11. RepliesInStep'
  BY <1>1, <1>2, <1>3, <1>6, Zenon DEF IInv, RepliesInStep, Named
<1>12. CountsAgree'
  <2>1. ro + 1 = (lq + 1) + so + lp /\ ro + 1 <= rs + 1
    BY <1>1 DEF Ordered
  <2> QED
    BY <1>1, <1>2, <1>3, <1>6, <1>7, <2>1, Zenon DEF CountsAgree, Named
<1> QED
  BY <1>2, <1>9, <1>10, <1>11, <1>12, SameWorkerOwes, Zenon DEF IInv

LEMMA RecvReplyIInv ==
    ASSUME IInv, RecvReply
    PROVE  IInv'
<1>1. PICK rs, ra, ro, ss, sa, so, lq, lp \in Nat :
        Named(rs, ra, ro, ss, sa, so, lq, lp) /\ Ordered(rs, ra, ro, ss, sa, so, lq, lp)
  BY Plain, Zenon
<1> DEFINE p == Head(replies)
<1>2. /\ replies # << >> /\ replies' = Tail(replies)
      /\ requestor' = [requestor EXCEPT !.outstanding = ro - 1, !.ack = p.sequence, !.view = p.ack]
      /\ UNCHANGED <<network, gone, workerVars, requests, toResponder, toRequestor>>
  BY <1>1, Zenon DEF RecvReply, Named
<1>3. UNCHANGED <<responder, open, freed, slept, calls, running>>
  BY <1>2, Zenon DEF workerVars
<1>4. /\ p \in Packets /\ p = replies[1] /\ replies' \in Seq(Packets)
      /\ lp # 0 /\ Len(replies') = lp - 1
      /\ \A i \in 1 .. lp - 1 : replies'[i] = replies[i + 1]
  <2>1. replies \in Seq(Packets) /\ Len(replies) = lp
    BY <1>1, Bounds, Zenon DEF Named
  <2>2. /\ p \in Packets /\ p = replies[1] /\ Tail(replies) \in Seq(Packets)
        /\ Len(replies) \in Nat \ {0} /\ Len(Tail(replies)) = Len(replies) - 1
        /\ \A i \in 1 .. Len(replies) - 1 : Tail(replies)[i] = replies[i + 1]
    BY <1>2, <2>1, QueueTail
  <2> QED
    BY <1>2, <2>1, <2>2, Zenon
<1> HIDE DEF p
<1>5. p.sequence \in Numbers /\ p.ack \in Numbers
  BY <1>4, PacketFields, NumberIs
<1>6. PICK m \in Nat : m = lp - 1
  BY <1>4
<1>7. ro - 1 \in Numbers /\ ro - 1 = lq + so + m /\ ro - 1 <= rs /\ m <= AqSize
  BY <1>1, <1>4, <1>6, NumberIs, ChannelAssumption DEF Ordered
<1>8. /\ requestor' \in Ends /\ requestor'.sequence = rs /\ requestor'.outstanding = ro - 1
      /\ requestor'.ack = p.sequence
  <2>1. requestor \in Ends /\ requestor.sequence = rs
    BY <1>1, Bounds, Zenon DEF Named
  <2>2. PICK o \in Numbers, a \in Numbers, v \in Numbers : o = ro - 1 /\ a = p.sequence /\ v = p.ack
    BY <1>5, <1>7, Zenon
  <2>3. requestor' = [requestor EXCEPT !.outstanding = o, !.ack = a, !.view = v]
    BY <1>2, <2>2, Zenon
  <2>4. /\ requestor' \in Ends /\ requestor'.outstanding = o /\ requestor'.ack = a
        /\ requestor'.sequence = requestor.sequence
    BY <2>1, <2>3, Zenon DEF Ends
  <2> QED
    BY <2>1, <2>2, <2>4, Zenon
<1>9. TypeOK'
  <2>1. OtherTypes'
    BY SameEnds, <1>2, <1>3, Zenon DEF OtherTypes
  <2> QED
    BY <1>2, <1>3, <1>4, <1>6, <1>7, <1>8, <2>1, Bounds, Zenon DEF TypeOK, OtherTypes, Frames
<1>10. RequestsInStep'
  BY <1>1, <1>2, <1>3, <1>8, Zenon DEF IInv, RequestsInStep, Named
<1>11. RepliesInStep'
  <2>1. /\ 1 \in 1 .. lp
        /\ \A i \in 1 .. m : i + 1 \in 1 .. lp /\ 1 < i + 1
        /\ \A i, j \in 1 .. m : i < j => i + 1 < j + 1
    BY <1>4, <1>6
  <2>2. /\ \A i \in 1 .. lp : replies[i].sequence <= ss
        /\ \A i, j \in 1 .. lp : i < j => replies[i].sequence < replies[j].sequence
    BY <1>1, Zenon DEF IInv, RepliesInStep, Named
  <2>3. p.sequence <= ss
    BY <1>4, <2>1, <2>2, Zenon
  <2>4. \A i \in 1 .. m : p.sequence < replies'[i].sequence /\ replies'[i].sequence <= ss
    BY <1>4, <1>6, <2>1, <2>2, Zenon
  <2>5. \A i, j \in 1 .. m : i < j => replies'[i].sequence < replies'[j].sequence
    <3> SUFFICES ASSUME NEW i \in 1 .. m, NEW j \in 1 .. m, i < j
                 PROVE  replies'[i].sequence < replies'[j].sequence
      BY Zenon
    <3>1. replies'[i] = replies[i + 1] /\ replies'[j] = replies[j + 1]
      BY <1>4, <1>6, Zenon
    <3> QED
      BY <3>1, <2>1, <2>2, Zenon
  <2>6. Len(replies') = m
    BY <1>4, <1>6, Zenon
  <2> QED
    BY <1>1, <1>3, <1>8, <2>3, <2>4, <2>5, <2>6, Zenon DEF RepliesInStep, Named
<1>12. CountsAgree'
  BY <1>1, <1>2, <1>3, <1>4, <1>6, <1>7, <1>8, Zenon DEF CountsAgree, Named
<1> QED
  BY <1>2, <1>9, <1>10, <1>11, <1>12, SameWorkerOwes, Zenon DEF IInv

LEMMA RecvRequestOwes ==
    ASSUME Counting, IInv, NEW n \in Numbers, n = responder.ack + 1, UNCHANGED running,
           calls' = <<Call("bootstrap", n)>> \o calls,
           responder'.ack = n, responder'.outstanding = responder.outstanding + 1,
           responder'.sequence = responder.sequence
    PROVE  OwedOnce' /\ calls' \in Seq(Frames)
<1>1. PICK rs, ra, ro, ss, sa, so, lq, lp \in Nat :
        Named(rs, ra, ro, ss, sa, so, lq, lp) /\ Ordered(rs, ra, ro, ss, sa, so, lq, lp)
  BY Plain, Zenon
<1>2. PICK c \in Frames : c = Call("bootstrap", n) /\ Mine(c) = {n}
  <2>1. Call("bootstrap", n) \in Frames /\ Mine(Call("bootstrap", n)) = {n}
    BY OpsAre, CallIs
  <2> QED
    BY <2>1, Zenon
<1>3. calls \in Seq(Frames) /\ Apart(calls) /\ running \cap OwedBy(calls) = {}
  BY SameEnds, Zenon DEF OtherTypes, IInv, OwedOnce
<1>4. /\ <<c>> \o calls \in Seq(Frames) /\ OwedBy(<<c>> \o calls) = Mine(c) \cup OwedBy(calls)
      /\ Apart(<<c>> \o calls) <=> Apart(calls) /\ Mine(c) \cap OwedBy(calls) = {}
  BY <1>3, PushStack, PushOwes
<1>5. Owed \in SUBSET (1 .. sa) /\ Cardinality(Owed) \in Nat /\ Cardinality(Owed) <= so
      /\ ss + Cardinality(Owed) <= sa
  BY <1>1, OwedFacts, Zenon DEF Named, IInv, OwedOnce
<1>6. n = sa + 1 /\ n \in Nat /\ n \in 1 .. sa + 1 /\ n \notin 1 .. sa /\ 1 .. sa \subseteq 1 .. sa + 1
  <2>1. n = sa + 1
    BY <1>1, Zenon DEF Named
  <2> QED
    BY <2>1
<1>7. n \notin Owed
  BY <1>5, <1>6, Zenon
<1>8. Apart(calls') /\ running' \cap OwedBy(calls') = {} /\ Owed' = Owed \cup {n} /\ calls' \in Seq(Frames)
  BY <1>2, <1>3, <1>4, <1>7, Zenon DEF Owed
<1>9. Cardinality(Owed') = Cardinality(Owed) + 1
  BY <1>5, <1>6, <1>7, <1>8, Zenon DEF Counting
<1>10. Owed' \subseteq 1 .. n
  BY <1>5, <1>6, <1>8, Zenon
<1>11. PICK k \in Nat : k = Cardinality(Owed)
  BY <1>5, Zenon
<1>12. k + 1 <= so + 1 /\ ss + (k + 1) <= sa + 1
  BY <1>5, <1>11
<1> QED
  BY <1>1, <1>6, <1>8, <1>9, <1>10, <1>11, <1>12, Zenon DEF OwedOnce, Named

LEMMA RecvRequestIInv ==
    ASSUME Counting, IInv, RecvRequest
    PROVE  IInv'
<1>1. PICK rs, ra, ro, ss, sa, so, lq, lp \in Nat :
        Named(rs, ra, ro, ss, sa, so, lq, lp) /\ Ordered(rs, ra, ro, ss, sa, so, lq, lp)
  BY Plain, Zenon
<1> DEFINE p == Head(requests)
<1>2. /\ requests # << >> /\ requests' = Tail(requests)
      /\ responder' = [responder EXCEPT !.outstanding = so + 1, !.ack = p.sequence, !.view = p.ack]
      /\ calls' = <<Call("bootstrap", p.sequence)>> \o calls
      /\ slept' = (slept /\ ~Calls("serve"))
      /\ UNCHANGED <<networkVars, open, freed, running, replies, toResponder, toRequestor>>
  BY <1>1, Zenon DEF RecvRequest, Named
<1>3. UNCHANGED <<requestor, network, gone>>
  BY <1>2, Zenon DEF networkVars
<1>4. /\ p \in Packets /\ p = requests[1] /\ requests' \in Seq(Packets)
      /\ lq # 0 /\ Len(requests') = lq - 1
      /\ \A i \in 1 .. lq - 1 : requests'[i] = requests[i + 1]
  <2>1. requests \in Seq(Packets) /\ Len(requests) = lq
    BY <1>1, Bounds, Zenon DEF Named
  <2>2. /\ p \in Packets /\ p = requests[1] /\ Tail(requests) \in Seq(Packets)
        /\ Len(requests) \in Nat \ {0} /\ Len(Tail(requests)) = Len(requests) - 1
        /\ \A i \in 1 .. Len(requests) - 1 : Tail(requests)[i] = requests[i + 1]
    BY <1>2, <2>1, QueueTail
  <2> QED
    BY <1>2, <2>1, <2>2, Zenon
<1> HIDE DEF p
<1>5. PICK m \in Nat : m = lq - 1
  BY <1>4
<1>6. /\ 1 \in 1 .. lq /\ sa + 1 \in Numbers /\ so + 1 \in Numbers
      /\ (sa + 1) + m = rs /\ ro = m + (so + 1) + lp /\ m <= AqSize
  <2>1. lq # 0
    BY <1>4, Zenon
  <2>2. /\ 1 \in 1 .. lq /\ sa + 1 <= MaxRequests /\ so + 1 <= MaxRequests
        /\ (sa + 1) + m = rs /\ ro = m + (so + 1) + lp /\ m <= AqSize
    BY <1>1, <1>5, <2>1, ChannelAssumption DEF Ordered
  <2> QED
    BY <2>2, NumberIs
<1>7. p.sequence = sa + 1 /\ p.ack <= ss /\ p.ack \in Numbers
  <2>1. p.ack \in Numbers
    BY <1>4, PacketFields, Zenon
  <2> QED
    BY <1>1, <1>4, <1>6, <2>1, Zenon DEF IInv, RequestsInStep, Named
<1>8. /\ responder' \in Ends /\ responder'.sequence = ss /\ responder'.outstanding = so + 1
      /\ responder'.ack = sa + 1 /\ responder'.view = p.ack
  <2>1. responder \in Ends /\ responder.sequence = ss
    BY <1>1, Bounds, Zenon DEF Named
  <2>2. PICK o \in Numbers, a \in Numbers, v \in Numbers : o = so + 1 /\ a = sa + 1 /\ v = p.ack
    BY <1>6, <1>7, Zenon
  <2>3. responder' = [responder EXCEPT !.outstanding = o, !.ack = a, !.view = v]
    BY <1>2, <1>7, <2>2, Zenon
  <2>4. /\ responder' \in Ends /\ responder'.outstanding = o /\ responder'.ack = a
        /\ responder'.view = v /\ responder'.sequence = responder.sequence
    BY <2>1, <2>3, Zenon DEF Ends
  <2> QED
    BY <2>1, <2>2, <2>4, Zenon
<1>9. OwedOnce' /\ calls' \in Seq(Frames)
  <2>1. PICK n \in Numbers : n = sa + 1
    BY <1>6, Zenon
  <2>2. /\ n = responder.ack + 1 /\ calls' = <<Call("bootstrap", n)>> \o calls
        /\ responder'.ack = n /\ responder'.outstanding = responder.outstanding + 1
        /\ responder'.sequence = responder.sequence
    BY <1>1, <1>2, <1>7, <1>8, <2>1, Zenon DEF Named
  <2> QED
    BY <1>2, <2>2, RecvRequestOwes, Zenon
<1>10. TypeOK'
  <2>1. slept' \in BOOLEAN
    BY <1>2, Zenon
  <2>2. OtherTypes'
    BY SameEnds, <1>2, <1>3, <1>9, <2>1, Zenon DEF OtherTypes
  <2> QED
    BY <1>2, <1>3, <1>4, <1>5, <1>6, <1>8, <2>2, Bounds, Zenon DEF TypeOK, OtherTypes, Frames
<1>11. RequestsInStep'
  <2>1. \A i \in 1 .. m : i + 1 \in 1 .. lq /\ sa + (i + 1) = (sa + 1) + i
    BY <1>4, <1>5
  <2>2. /\ \A i \in 1 .. lq : requests[i].sequence = sa + i
        /\ \A i \in 1 .. lq : requests[i].ack <= ss
    BY <1>1, Zenon DEF IInv, RequestsInStep, Named
  <2>3. \A i \in 1 .. m : requests'[i].sequence = (sa + 1) + i /\ requests'[i].ack <= ss
    <3> TAKE i \in 1 .. m
    <3>1. requests'[i] = requests[i + 1] /\ i + 1 \in 1 .. lq /\ sa + (i + 1) = (sa + 1) + i
      BY <1>4, <1>5, <2>1, Zenon
    <3> QED
      BY <2>2, <3>1, Zenon
  <2>4. Len(requests') = m
    BY <1>4, <1>5, Zenon
  <2> QED
    BY <1>1, <1>3, <1>6, <1>7, <1>8, <2>3, <2>4, Zenon DEF RequestsInStep, Named
<1>12. RepliesInStep'
  BY <1>1, <1>2, <1>3, <1>8, Zenon DEF IInv, RepliesInStep, Named
<1>13. CountsAgree'
  <2>1. requestor.outstanding <= requestor.sequence
    BY Zenon DEF IInv, CountsAgree
  <2> QED
    BY <1>1, <1>2, <1>3, <1>4, <1>5, <1>6, <1>8, <2>1, Zenon DEF CountsAgree, Named
<1> QED
  BY <1>9, <1>10, <1>11, <1>12, <1>13, Zenon DEF IInv

LEMMA NullReplyIInv ==
    ASSUME Counting, IInv, NullReply
    PROVE  IInv'
<1>1. PICK rs, ra, ro, ss, sa, so, lq, lp \in Nat :
        Named(rs, ra, ro, ss, sa, so, lq, lp) /\ Ordered(rs, ra, ro, ss, sa, so, lq, lp)
  BY Plain, Zenon
<1>2. /\ responder' = [responder EXCEPT !.sequence = ss + 1]
      /\ calls # << >> /\ Head(calls).op \in Owing /\ calls' = Tail(calls)
      /\ UNCHANGED <<networkVars, open, freed, slept, running, requests, replies, toResponder, toRequestor>>
  BY <1>1, OpsAre, Zenon DEF NullReply, Calls, Named
<1>3. UNCHANGED <<requestor, network, gone>>
  BY <1>2, Zenon DEF networkVars
<1>4. PICK n \in Owed, t \in Seq(Frames) :
        /\ t = Tail(calls) /\ Apart(t) /\ OwedBy(t) \subseteq OwedBy(calls)
        /\ running \cap OwedBy(calls) = {} /\ Owed \ {n} = running \cup OwedBy(t)
  BY <1>2, TopOwes, Zenon
<1>5. PICK k \in Nat : k = Cardinality(Owed \ {n}) /\ k <= so /\ ss + 1 + k <= sa /\ ss + 1 <= sa
  <2>1. PICK l \in Nat \ {0} : l = Cardinality(Owed) /\ Cardinality(Owed \ {n}) = l - 1
    BY OwesOneLess
  <2>2. /\ Cardinality(Owed \ {n}) <= so /\ ss + 1 + Cardinality(Owed \ {n}) <= sa /\ ss + 1 <= sa
    BY <1>1, OwesOneLess, Zenon DEF Named
  <2>3. l - 1 \in Nat
    BY <2>1
  <2> QED
    BY <2>1, <2>2, <2>3, Zenon
<1>6. ss + 1 \in Numbers
  BY <1>1, <1>5, NumberIs DEF Ordered
<1>7. /\ responder' \in Ends /\ responder'.sequence = ss + 1 /\ responder'.outstanding = so
      /\ responder'.ack = sa /\ responder'.view = responder.view
  <2>1. responder \in Ends
    BY Bounds, Zenon
  <2>2. PICK s \in Numbers : s = ss + 1
    BY <1>6, Zenon
  <2>3. responder' = [responder EXCEPT !.sequence = s]
    BY <1>2, <2>2, Zenon
  <2>4. /\ responder' \in Ends /\ responder'.sequence = s /\ responder'.outstanding = responder.outstanding
        /\ responder'.ack = responder.ack /\ responder'.view = responder.view
    BY <2>1, <2>3 DEF Ends
  <2> QED
    BY <1>1, <2>2, <2>4, Zenon DEF Named
<1>8. OwedOnce'
  <2>1. Owed' = Owed \ {n} /\ Apart(calls') /\ running' \cap OwedBy(calls') = {}
    BY <1>2, <1>4, Zenon DEF Owed
  <2>2. Owed \subseteq 1 .. sa
    BY <1>1, Zenon DEF IInv, OwedOnce, Named
  <2> QED
    BY <1>5, <1>7, <2>1, <2>2, Zenon DEF OwedOnce
<1>9. TypeOK'
  <2>1. OtherTypes'
    BY SameEnds, <1>2, <1>3, <1>4, Zenon DEF OtherTypes
  <2> QED
    BY <1>2, <1>3, <1>7, <2>1, Bounds, Zenon DEF TypeOK, OtherTypes, Frames
<1>10. \A x \in Nat : x <= ss => x <= ss + 1
  OBVIOUS
<1>11. RequestsInStep'
  <2>1. responder.view \in Nat /\ responder.view <= ss
    BY <1>1, Bounds, EndFields, NumberIs, Zenon DEF IInv, RequestsInStep, Named
  <2>2. \A i \in 1 .. lq : requests[i].ack \in Nat
    <3> TAKE i \in 1 .. lq
    <3>1. requests \in Seq(Packets) /\ Len(requests) = lq
      BY <1>1, Bounds, Zenon DEF Named
    <3>2. requests[i] \in Packets
      BY <3>1
    <3> QED
      BY <3>2, PacketFields, NumberIs
  <2>3. \A i \in 1 .. lq : requests[i].ack <= ss + 1
    BY <1>1, <1>10, <2>2, Zenon DEF IInv, RequestsInStep, Named
  <2>4. responder.view <= ss + 1
    BY <1>10, <2>1, Zenon
  <2> QED
    BY <1>1, <1>2, <1>3, <1>7, <2>3, <2>4, Zenon DEF IInv, RequestsInStep, Named
<1>12. RepliesInStep'
  <2>1. \A i \in 1 .. lp : replies[i].sequence \in Nat
    <3> TAKE i \in 1 .. lp
    <3>1. replies \in Seq(Packets) /\ Len(replies) = lp
      BY <1>1, Bounds, Zenon DEF Named
    <3>2. replies[i] \in Packets
      BY <3>1
    <3> QED
      BY <3>2, PacketFields
  <2>2. \A i \in 1 .. lp : replies[i].sequence <= ss + 1
    BY <1>1, <1>10, <2>1, Zenon DEF IInv, RepliesInStep, Named
  <2>3. ra <= ss + 1
    BY <1>1, <1>10, Zenon DEF IInv, RepliesInStep, Named
  <2> QED
    BY <1>1, <1>2, <1>3, <1>7, <2>2, <2>3, Zenon DEF IInv, RepliesInStep, Named
<1>13. CountsAgree'
  BY <1>1, <1>2, <1>3, <1>7, Zenon DEF IInv, CountsAgree, Named
<1> QED
  BY <1>8, <1>9, <1>11, <1>12, <1>13, Zenon DEF IInv

LEMMA SendReplyIInv ==
    ASSUME Counting, IInv, SendReply
    PROVE  IInv'
<1>1. PICK rs, ra, ro, ss, sa, so, lq, lp \in Nat :
        Named(rs, ra, ro, ss, sa, so, lq, lp) /\ Ordered(rs, ra, ro, ss, sa, so, lq, lp)
  BY Plain, Zenon
<1> DEFINE p == [sequence |-> ss + 1, ack |-> sa]
<1>2. /\ responder' = [responder EXCEPT !.sequence = ss + 1, !.outstanding = so - 1]
      /\ lp < AqSize /\ replies' = Append(replies, p)
      /\ calls # << >> /\ Head(calls).op \in Owing
      /\ calls' = <<Call("replied", Head(calls).n)>> \o Tail(calls)
      /\ UNCHANGED <<networkVars, open, freed, slept, running, requests, toResponder, toRequestor>>
  BY <1>1, OpsAre, Zenon DEF SendReply, Calls, Named
<1>3. UNCHANGED <<requestor, network, gone>>
  BY <1>2, Zenon DEF networkVars
<1>4. PICK n \in Owed, t \in Seq(Frames) :
        /\ n = Head(calls).n /\ t = Tail(calls) /\ Apart(t) /\ OwedBy(t) \subseteq OwedBy(calls)
        /\ running \cap OwedBy(calls) = {} /\ Owed \ {n} = running \cup OwedBy(t) /\ n \in Numbers
  BY <1>2, TopOwes, Zenon
<1>5. PICK k \in Nat : k = Cardinality(Owed \ {n}) /\ k <= so - 1 /\ ss + 1 + k <= sa /\ ss + 1 <= sa /\ so # 0
  <2>1. PICK l \in Nat \ {0} : l = Cardinality(Owed) /\ Cardinality(Owed \ {n}) = l - 1
    BY OwesOneLess
  <2>2. /\ Cardinality(Owed \ {n}) <= so - 1 /\ ss + 1 + Cardinality(Owed \ {n}) <= sa /\ ss + 1 <= sa
        /\ so \in Nat \ {0}
    BY <1>1, OwesOneLess, Zenon DEF Named
  <2>3. l - 1 \in Nat /\ so # 0
    BY <2>1, <2>2
  <2> QED
    BY <2>1, <2>2, <2>3, Zenon
<1>6. /\ ss + 1 \in Numbers /\ ss + 1 \in 1 .. MaxRequests /\ so - 1 \in Numbers /\ sa \in Numbers
      /\ ro = lq + (so - 1) + (lp + 1) /\ lp + 1 <= AqSize
  <2>1. lp < AqSize
    BY <1>2, Zenon
  <2>2. /\ ss + 1 <= MaxRequests /\ so - 1 \in Nat /\ so - 1 <= MaxRequests /\ sa <= MaxRequests
        /\ ro = lq + (so - 1) + (lp + 1) /\ lp + 1 <= AqSize
    BY <1>1, <1>5, <2>1, ChannelAssumption DEF Ordered
  <2> QED
    BY <2>2, NumberIs
<1>7. /\ responder' \in Ends /\ responder'.sequence = ss + 1 /\ responder'.outstanding = so - 1
      /\ responder'.ack = sa /\ responder'.view = responder.view
  <2>1. responder \in Ends
    BY Bounds, Zenon
  <2>2. PICK s \in Numbers, o \in Numbers : s = ss + 1 /\ o = so - 1
    BY <1>6, Zenon
  <2>3. responder' = [responder EXCEPT !.sequence = s, !.outstanding = o]
    BY <1>2, <2>2, Zenon
  <2>4. /\ responder' \in Ends /\ responder'.sequence = s /\ responder'.outstanding = o
        /\ responder'.ack = responder.ack /\ responder'.view = responder.view
    BY <2>1, <2>3, Zenon DEF Ends
  <2> QED
    BY <1>1, <2>2, <2>4, Zenon DEF Named
<1>8. OwedOnce' /\ calls' \in Seq(Frames)
  <2>1. PICK c \in Frames : c = Call("replied", n) /\ Mine(c) = {}
    <3>1. Call("replied", n) \in Frames /\ Mine(Call("replied", n)) = {}
      BY <1>4, OpsAre, CallIs
    <3> QED
      BY <3>1, Zenon
  <2>2. /\ <<c>> \o t \in Seq(Frames) /\ OwedBy(<<c>> \o t) = Mine(c) \cup OwedBy(t)
        /\ Apart(<<c>> \o t) <=> Apart(t) /\ Mine(c) \cap OwedBy(t) = {}
    BY PushStack, PushOwes
  <2>3. calls' = <<c>> \o t
    BY <1>2, <1>4, <2>1, Zenon
  <2>4. Owed' = Owed \ {n} /\ Apart(calls') /\ running' \cap OwedBy(calls') = {} /\ calls' \in Seq(Frames)
    BY <1>2, <1>4, <2>1, <2>2, <2>3, Zenon DEF Owed
  <2>5. Owed \subseteq 1 .. sa
    BY <1>1, Zenon DEF IInv, OwedOnce, Named
  <2> QED
    BY <1>5, <1>7, <2>4, <2>5, Zenon DEF OwedOnce
<1>9. p \in Packets /\ p.sequence = ss + 1
  BY <1>6, PacketIs
<1> HIDE DEF p
<1>10. /\ replies' \in Seq(Packets) /\ Len(replies') = lp + 1
       /\ \A i \in 1 .. lp : replies'[i] = replies[i] /\ replies[i].sequence \in Nat
       /\ replies'[lp + 1] = p
  <2>1. replies \in Seq(Packets) /\ Len(replies) = lp
    BY <1>1, Bounds, Zenon DEF Named
  <2>2. /\ Append(replies, p) \in Seq(Packets) /\ Len(Append(replies, p)) = Len(replies) + 1
        /\ \A i \in 1 .. Len(replies) : Append(replies, p)[i] = replies[i]
        /\ Append(replies, p)[Len(replies) + 1] = p
    BY <1>9, <2>1, QueueAppend
  <2>3. \A i \in 1 .. lp : replies[i] \in Packets
    BY <2>1
  <2>4. \A i \in 1 .. lp : replies[i].sequence \in Nat
    BY <2>3, PacketFields
  <2> QED
    BY <1>2, <2>1, <2>2, <2>4, Zenon
<1>11. TypeOK'
  <2>1. OtherTypes'
    BY SameEnds, <1>2, <1>3, <1>8, Zenon DEF OtherTypes
  <2> QED
    BY <1>2, <1>3, <1>6, <1>7, <1>10, <2>1, Bounds, Zenon DEF TypeOK, OtherTypes, Frames
<1>12. \A x \in Nat : x <= ss => x <= ss + 1 /\ x < ss + 1
  OBVIOUS
<1>13. RequestsInStep'
  <2>1. responder.view \in Nat /\ responder.view <= ss
    BY <1>1, Bounds, EndFields, NumberIs, Zenon DEF IInv, RequestsInStep, Named
  <2>2. \A i \in 1 .. lq : requests[i].ack \in Nat
    <3> TAKE i \in 1 .. lq
    <3>1. requests \in Seq(Packets) /\ Len(requests) = lq
      BY <1>1, Bounds, Zenon DEF Named
    <3>2. requests[i] \in Packets
      BY <3>1
    <3> QED
      BY <3>2, PacketFields, NumberIs
  <2>3. \A i \in 1 .. lq : requests[i].ack <= ss + 1
    BY <1>1, <1>12, <2>2, Zenon DEF IInv, RequestsInStep, Named
  <2>4. responder.view <= ss + 1
    BY <1>12, <2>1, Zenon
  <2> QED
    BY <1>1, <1>2, <1>3, <1>7, <2>3, <2>4, Zenon DEF IInv, RequestsInStep, Named
<1>14. RepliesInStep'
  <2>1. \A i \in 1 .. lp + 1 : i \in 1 .. lp \/ i = lp + 1
    OBVIOUS
  <2>2. ra <= ss /\ ra <= ss + 1 /\ ra < ss + 1 /\ ss + 1 <= ss + 1
    <3>1. ra <= ss
      BY <1>1, Zenon DEF IInv, RepliesInStep, Named
    <3> QED
      BY <3>1
  <2>3. \A i \in 1 .. lp : /\ ra < replies[i].sequence /\ replies[i].sequence <= ss + 1
                           /\ replies[i].sequence < ss + 1
    BY <1>1, <1>10, <1>12, Zenon DEF IInv, RepliesInStep, Named
  <2>4. \A i \in 1 .. lp + 1 : ra < replies'[i].sequence /\ replies'[i].sequence <= ss + 1
    BY <1>9, <1>10, <2>1, <2>2, <2>3, Zenon
  <2>5. ASSUME NEW i \in 1 .. lp + 1, NEW j \in 1 .. lp + 1, i < j
        PROVE  replies'[i].sequence < replies'[j].sequence
    <3>1. i \in 1 .. lp
      BY <2>5
    <3>2. CASE j = lp + 1
      BY <1>9, <1>10, <2>3, <3>1, <3>2, Zenon
    <3>3. CASE j \in 1 .. lp
      BY <1>1, <1>10, <2>5, <3>1, <3>3, Zenon DEF IInv, RepliesInStep, Named
    <3> QED
      BY <2>1, <3>2, <3>3, Zenon
  <2> QED
    BY <1>1, <1>3, <1>7, <1>10, <2>2, <2>4, <2>5, Zenon DEF RepliesInStep, Named
<1>15. CountsAgree'
  <2>1. requestor.outstanding <= requestor.sequence
    BY Zenon DEF IInv, CountsAgree
  <2> QED
    BY <1>1, <1>2, <1>3, <1>6, <1>7, <1>10, <2>1, Zenon DEF CountsAgree, Named
<1> QED
  BY <1>8, <1>11, <1>13, <1>14, <1>15, Zenon DEF IInv

-----------------------------------------------------------------------------
(* The invariant *)

LEMMA InitIInv ==
    ASSUME Counting, Init
    PROVE  IInv
<1>1. /\ requestor = NewEnd /\ responder = NewEnd /\ requests = << >> /\ replies = << >>
      /\ toResponder = <<"OPEN">> /\ toRequestor = << >> /\ network = "idle"
      /\ gone = FALSE /\ open = FALSE /\ freed = FALSE /\ slept = FALSE
      /\ calls = << >> /\ running = {}
  BY Zenon DEF Init
<1>2. /\ NewEnd \in Ends /\ NewEnd.sequence = 0 /\ NewEnd.ack = 0 /\ NewEnd.view = 0
      /\ NewEnd.outstanding = 0
  BY NumberIs DEF NewEnd, Ends
<1>3. /\ << >> \in Seq(Packets) /\ Len(<< >>) = 0 /\ << >> \in Seq(Signals)
      /\ <<"OPEN">> \in Seq(Signals) /\ Len(<<"OPEN">>) = 1
  BY DEF Signals
<1>4. 0 <= AqSize /\ 0 <= CtlSize /\ 1 <= CtlSize /\ 0 <= 0 /\ 0 + 0 = 0 /\ 0 + 0 + 0 = 0
  BY ChannelAssumption
<1>5. TypeOK
  BY <1>1, <1>2, <1>3, <1>4, EmptyStack, Zenon DEF TypeOK, Frames
<1>6. \A i \in 1 .. 0 : FALSE
  OBVIOUS
<1>7. RequestsInStep /\ RepliesInStep /\ CountsAgree
  BY <1>1, <1>2, <1>3, <1>4, <1>6, Zenon DEF RequestsInStep, RepliesInStep, CountsAgree
<1>8. Owed = {} /\ Apart(calls) /\ running \cap OwedBy(calls) = {}
  BY <1>1, EmptyStack, Zenon DEF Owed
<1>9. Cardinality({}) = 0
  <2>1. {} \in SUBSET (1 .. 0) /\ 0 \in Nat
    OBVIOUS
  <2> QED
    BY <2>1, Zenon DEF Counting
<1>10. OwedOnce
  BY <1>1, <1>2, <1>4, <1>8, <1>9, Zenon DEF OwedOnce
<1> QED
  BY <1>5, <1>7, <1>10, Zenon DEF IInv

LEMMA NextIInv ==
    ASSUME Counting, IInv, [Next]_vars
    PROVE  IInv'
<1>1. CASE NetworkServes \/ SendRequest \/ SendRequestFails \/ SignalClose
  BY <1>1, QuietNetwork, DeactivateIInv, SendRequestIInv, RecvReplyIInv, Zenon DEF NetworkServes
<1>2. CASE WorkerServes
  BY <1>2, SignalsToWorker, RecvRequestIInv, NoMoreRequestsIInv, AcceptIInv, NullReplyIInv, NoReply,
     ConflictIInv, SendReplyIInv, Zenon DEF WorkerServes
<1>3. CASE Sleeping \/ \E n \in running : Finish(n)
  BY <1>3, SleepingIInv, FinishIInv, Zenon
<1>4. CASE UNCHANGED vars
  <2>1. UNCHANGED <<networkVars, responder, open, freed, slept, calls, running, requests, replies,
                    toResponder, toRequestor>>
    BY <1>4, Zenon DEF vars, workerVars
  <2>2. responder' \in Ends /\ SameNumbers(responder', responder)
    BY <2>1, SameEnds, Zenon
  <2> QED
    BY <2>1, <2>2, SameOthers, SameStack, QuietWorker, Zenon
<1> QED
  BY <1>1, <1>2, <1>3, <1>4, Zenon DEF Next

LEMMA IInvImplies ==
    ASSUME Counting, IInv
    PROVE  Assertions
<1>1. PICK rs, ra, ro, ss, sa, so, lq, lp \in Nat :
        Named(rs, ra, ro, ss, sa, so, lq, lp) /\ Ordered(rs, ra, ro, ss, sa, so, lq, lp)
  BY Plain, Zenon
<1>2. ss <= sa
  <2>1. PICK k \in Nat : k = Cardinality(Owed)
    BY OwedFacts, Zenon
  <2>2. ss + k <= sa
    BY <1>1, <2>1, Zenon DEF IInv, OwedOnce, Named
  <2> QED
    BY <2>2
<1>3. ReplyAssertions
  <2> SUFFICES ASSUME replies # << >>
               PROVE  /\ requestor.outstanding > 0 /\ Head(replies).sequence > requestor.ack
                      /\ Head(replies).sequence <= requestor.sequence
    BY Zenon DEF ReplyAssertions
  <2>1. Head(replies) = replies[1] /\ Head(replies) \in Packets /\ lp # 0
    <3>1. replies \in Seq(Packets) /\ Len(replies) = lp
      BY <1>1, Bounds, Zenon DEF Named
    <3> QED
      BY <3>1, QueueTail
  <2>2. PICK x \in Nat : x = Head(replies).sequence
    BY <2>1, PacketFields
  <2>3. 1 \in 1 .. lp
    BY <2>1
  <2>4. ra < x /\ x <= ss
    BY <1>1, <2>1, <2>2, <2>3, Zenon DEF IInv, RepliesInStep, Named
  <2>5. x > ra /\ x <= rs /\ ro > 0
    <3>1. lp # 0
      BY <2>1, Zenon
    <3> QED
      BY <1>1, <1>2, <2>4, <3>1 DEF Ordered
  <2> QED
    BY <1>1, <2>2, <2>5, Zenon DEF Named
<1>4. RequestAssertions
  <2> SUFFICES ASSUME requests # << >>
               PROVE  /\ Head(requests).sequence > responder.ack
                      /\ Head(requests).sequence >= responder.sequence
    BY Zenon DEF RequestAssertions
  <2>1. Head(requests) = requests[1] /\ lq # 0
    <3>1. requests \in Seq(Packets) /\ Len(requests) = lq
      BY <1>1, Bounds, Zenon DEF Named
    <3> QED
      BY <3>1, QueueTail
  <2>2. 1 \in 1 .. lq
    BY <2>1
  <2>3. Head(requests).sequence = sa + 1
    BY <1>1, <2>1, <2>2, Zenon DEF IInv, RequestsInStep, Named
  <2>4. sa + 1 > sa /\ sa + 1 >= ss
    BY <1>2
  <2> QED
    BY <1>1, <2>3, <2>4, Zenon DEF Named
<1>5. AnswerAssertions
  <2>1. ASSUME Calls("reply") \/ Calls("send")
        PROVE  responder.outstanding > 0
    <3>1. calls # << >> /\ Head(calls).op \in Owing
      BY <2>1, OpsAre, Zenon DEF Calls
    <3>2. PICK x \in Owed : TRUE
      BY <3>1, TopOwes, Zenon
    <3>3. responder.outstanding \in Nat \ {0}
      BY OwesOneLess, Zenon
    <3> QED
      BY <3>3
  <2>2. responder.view <= responder.sequence
    BY Zenon DEF IInv, RequestsInStep
  <2> QED
    BY <2>1, <2>2, Zenon DEF AnswerAssertions
<1> QED
  BY <1>3, <1>4, <1>5, Zenon DEF Assertions, IInv

-----------------------------------------------------------------------------
(* Signals and the close *)

\* Calls that read the requests until there are none.
Readers == {"serve", "replied", "failed"}
ToServe == {"DATA_TO_RESPONDER"}
Signs == {"DATA_TO_REQUESTOR", "DATA_DONE_RESPONDER"}

Has(s, ops) == \E i \in 1 .. Len(s) : s[i].op \in ops
HasClose(q) == \E i \in 1 .. Len(q) : q[i] = "CLOSE"
OnItsWay(q, S) == \E i \in 1 .. Len(q) : q[i] \in S /\ \A j \in 1 .. i - 1 : q[j] # "CLOSE"

\* The network thread has sent its close.
CloseSent == network = "closing" \/ ~requestor.active

RequestsCovered ==
    requests # << >> => \/ network = "pushed" \/ Has(calls, Readers)
                        \/ OnItsWay(toResponder, ToServe)

RepliesCovered ==
    replies # << >> => network = "reading" \/ Has(calls, {"replied"}) \/ OnItsWay(toRequestor, Signs)

Closing ==
    /\ HasClose(toResponder) => CloseSent
    /\ ~responder.active => CloseSent /\ requests = << >> /\ ~Has(calls, {"replied"})
    /\ HasClose(toRequestor) => ~responder.active
    /\ ~requestor.active => network \notin {"pushed", "closing"}
    /\ gone => ~responder.active /\ ~requestor.active /\ replies = << >>

Cover == RequestsCovered /\ RepliesCovered /\ Closing

\* Neither control plane is full.
RoomForSignals == Len(toResponder) < CtlSize /\ Len(toRequestor) < CtlSize

LEMMA AppendSignal ==
    ASSUME NEW q \in Seq(Signals), NEW x \in Signals
    PROVE  /\ HasClose(Append(q, x)) <=> HasClose(q) \/ x = "CLOSE"
           /\ \A S : OnItsWay(q, S) => OnItsWay(Append(q, x), S)
           /\ \A S : x \in S /\ ~HasClose(q) => OnItsWay(Append(q, x), S)
<1> DEFINE r == Append(q, x)
<1>1. /\ Len(q) \in Nat /\ Len(r) = Len(q) + 1 /\ r[Len(q) + 1] = x
      /\ \A i \in 1 .. Len(q) : r[i] = q[i]
  BY QueueAppend
<1> HIDE DEF r
<1>2. PICK m \in Nat : m = Len(q)
  BY <1>1, Zenon
<1>3. /\ \A i \in 1 .. m + 1 : i \in 1 .. m \/ i = m + 1
      /\ \A i \in 1 .. m : i \in 1 .. m + 1 /\ 1 .. i - 1 \subseteq 1 .. m
      /\ m + 1 \in 1 .. m + 1 /\ 1 .. (m + 1) - 1 = 1 .. m
  BY <1>2
<1>4. Len(r) = m + 1 /\ r[m + 1] = x /\ \A i \in 1 .. m : r[i] = q[i]
  BY <1>1, <1>2, Zenon
<1>5. HasClose(r) <=> HasClose(q) \/ x = "CLOSE"
  <2>1. ASSUME NEW i \in 1 .. m + 1, r[i] = "CLOSE" PROVE (\E j \in 1 .. m : q[j] = "CLOSE") \/ x = "CLOSE"
    BY <1>3, <1>4, <2>1, Zenon
  <2>2. ASSUME NEW i \in 1 .. m, q[i] = "CLOSE" PROVE i \in 1 .. m + 1 /\ r[i] = "CLOSE"
    BY <1>3, <1>4, <2>2, Zenon
  <2> QED
    BY <1>2, <1>3, <1>4, <2>1, <2>2, Zenon DEF HasClose
<1>6. ASSUME NEW S, OnItsWay(q, S) PROVE OnItsWay(r, S)
  <2>1. PICK i \in 1 .. m : q[i] \in S /\ \A j \in 1 .. i - 1 : q[j] # "CLOSE"
    BY <1>2, <1>6, Zenon DEF OnItsWay
  <2>2. i \in 1 .. m + 1 /\ r[i] \in S /\ \A j \in 1 .. i - 1 : r[j] # "CLOSE"
    BY <1>3, <1>4, <2>1, Zenon
  <2> QED
    BY <1>4, <2>2, Zenon DEF OnItsWay
<1>7. ASSUME NEW S, x \in S, ~HasClose(q) PROVE OnItsWay(r, S)
  <2>1. r[m + 1] \in S /\ \A j \in 1 .. (m + 1) - 1 : r[j] # "CLOSE"
    BY <1>2, <1>3, <1>4, <1>7, Zenon DEF HasClose
  <2> QED
    BY <1>3, <1>4, <2>1, Zenon DEF OnItsWay
<1> QED
  BY <1>5, <1>6, <1>7, Zenon DEF r

LEMMA TakeSignal ==
    ASSUME NEW q \in Seq(Signals), q # << >>
    PROVE  /\ HasClose(Tail(q)) => HasClose(q)
           /\ Head(q) = "CLOSE" => HasClose(q)
           /\ \A S : OnItsWay(q, S) /\ Head(q) \notin S => OnItsWay(Tail(q), S)
           /\ \A S : OnItsWay(q, S) /\ "CLOSE" \notin S => Head(q) # "CLOSE"
<1> DEFINE r == Tail(q)
<1>1. /\ Head(q) = q[1] /\ Len(q) \in Nat \ {0} /\ Len(r) = Len(q) - 1
      /\ \A i \in 1 .. Len(q) - 1 : r[i] = q[i + 1]
  BY QueueTail
<1> HIDE DEF r
<1>2. PICK m \in Nat : m = Len(r) /\ Len(q) = m + 1
  <2>1. PICK l \in Nat \ {0} : l = Len(q)
    BY <1>1, Zenon
  <2>2. l - 1 \in Nat /\ l = (l - 1) + 1
    BY <2>1
  <2> QED
    BY <1>1, <2>1, <2>2, Zenon
<1>3. /\ 1 \in 1 .. m + 1 /\ (m + 1) - 1 = m /\ \A i \in 1 .. m : i + 1 \in 1 .. m + 1
      /\ \A i \in 1 .. m : \A j \in 1 .. i - 1 : j + 1 \in 1 .. (i + 1) - 1 /\ j \in 1 .. m
      /\ \A i \in 1 .. m + 1 : i # 1 => 1 \in 1 .. i - 1
  BY <1>2
<1>4. \A i \in 1 .. m + 1 : i # 1 => \E k \in 1 .. m : i = k + 1
  <2> TAKE i \in 1 .. m + 1
  <2>1. i # 1 => i - 1 \in 1 .. m /\ i = (i - 1) + 1
    OBVIOUS
  <2> QED
    BY <2>1
<1>5. Len(q) = m + 1 /\ Len(r) = m /\ Head(q) = q[1] /\ \A i \in 1 .. m : r[i] = q[i + 1]
  BY <1>1, <1>2, <1>3, Zenon
<1>6. HasClose(r) => HasClose(q)
  <2>1. ASSUME NEW i \in 1 .. m, r[i] = "CLOSE" PROVE i + 1 \in 1 .. m + 1 /\ q[i + 1] = "CLOSE"
    BY <1>3, <1>5, <2>1, Zenon
  <2> QED
    BY <1>5, <2>1, Zenon DEF HasClose
<1>7. Head(q) = "CLOSE" => HasClose(q)
  BY <1>3, <1>5, Zenon DEF HasClose
<1>8. ASSUME NEW S, OnItsWay(q, S), Head(q) \notin S PROVE OnItsWay(r, S)
  <2>1. PICK i \in 1 .. m + 1 : q[i] \in S /\ \A j \in 1 .. i - 1 : q[j] # "CLOSE"
    BY <1>5, <1>8, Zenon DEF OnItsWay
  <2>2. i # 1
    BY <1>5, <1>8, <2>1, Zenon
  <2>3. PICK k \in 1 .. m : i = k + 1
    BY <1>4, <2>2, Zenon
  <2>4. r[k] \in S /\ \A j \in 1 .. k - 1 : r[j] # "CLOSE"
    <3>1. r[k] \in S
      BY <1>5, <2>1, <2>3, Zenon
    <3>2. ASSUME NEW j \in 1 .. k - 1 PROVE r[j] # "CLOSE"
      <4>1. j + 1 \in 1 .. i - 1 /\ j \in 1 .. m
        BY <1>3, <2>3, Zenon
      <4> QED
        BY <1>5, <2>1, <4>1, Zenon
    <3> QED
      BY <3>1, <3>2, Zenon
  <2> QED
    BY <1>5, <2>4, Zenon DEF OnItsWay
<1>9. ASSUME NEW S, OnItsWay(q, S), "CLOSE" \notin S, Head(q) = "CLOSE" PROVE FALSE
  <2>1. PICK i \in 1 .. m + 1 : q[i] \in S /\ \A j \in 1 .. i - 1 : q[j] # "CLOSE"
    BY <1>5, <1>9, Zenon DEF OnItsWay
  <2>2. i # 1
    BY <1>5, <1>9, <2>1, Zenon
  <2> QED
    BY <1>3, <1>5, <1>9, <2>1, <2>2, Zenon
<1> QED
  BY <1>6, <1>7, <1>8, <1>9, Zenon DEF r

LEMMA PushHas ==
    ASSUME NEW s \in Seq(Frames), NEW c \in Frames, NEW ops
    PROVE  Has(<<c>> \o s, ops) <=> c.op \in ops \/ Has(s, ops)
<1> DEFINE t == <<c>> \o s
<1>1. /\ Len(t) = Len(s) + 1 /\ t[1] = c /\ Len(s) \in Nat
      /\ \A i \in 1 .. Len(s) : t[i + 1] = s[i]
  BY PushStack
<1> HIDE DEF t
<1>2. PICK m \in Nat : m = Len(s)
  BY <1>1, Zenon
<1>3. 1 \in 1 .. m + 1 /\ \A i \in 1 .. m : i + 1 \in 1 .. m + 1
  BY <1>2
<1>4. \A j \in 1 .. m + 1 : j = 1 \/ \E i \in 1 .. m : j = i + 1
  <2> TAKE j \in 1 .. m + 1
  <2>1. j = 1 \/ (j - 1 \in 1 .. m /\ j = (j - 1) + 1)
    BY <1>2
  <2> QED
    BY <2>1
<1>5. Len(t) = m + 1 /\ t[1] = c /\ \A i \in 1 .. m : t[i + 1] = s[i]
  BY <1>1, <1>2, Zenon
<1>6. ASSUME NEW j \in 1 .. m + 1, t[j].op \in ops, c.op \notin ops PROVE \E i \in 1 .. m : s[i].op \in ops
  <2>1. PICK i \in 1 .. m : j = i + 1
    BY <1>4, <1>5, <1>6, Zenon
  <2> QED
    BY <1>5, <1>6, <2>1, Zenon
<1>7. ASSUME NEW i \in 1 .. m, s[i].op \in ops PROVE i + 1 \in 1 .. m + 1 /\ t[i + 1].op \in ops
  BY <1>3, <1>5, <1>7, Zenon
<1> QED
  BY <1>2, <1>3, <1>5, <1>6, <1>7, Zenon DEF Has, t

LEMMA PopHas ==
    ASSUME NEW s \in Seq(Frames), s # << >>, NEW ops
    PROVE  Has(s, ops) <=> Head(s).op \in ops \/ Has(Tail(s), ops)
<1>1. PICK c \in Frames, t \in Seq(Frames) : c = Head(s) /\ t = Tail(s)
  BY PopStack, Zenon
<1>2. s = <<c>> \o t
  BY <1>1, PopStack, Zenon
<1>3. Has(<<c>> \o t, ops) <=> c.op \in ops \/ Has(t, ops)
  BY PushHas
<1> QED
  BY <1>1, <1>2, <1>3, Zenon

LEMMA EmptyHas == \A ops : ~Has(<< >>, ops)
<1>1. \A i \in 1 .. Len(<< >>) : FALSE
  OBVIOUS
<1> QED
  BY <1>1, Zenon DEF Has

LEMMA SignalNames ==
    /\ "CLOSE" \in Signals /\ "OPEN" \in Signals /\ "DATA_TO_RESPONDER" \in Signals
    /\ "DATA_TO_REQUESTOR" \in Signals /\ "DATA_DONE_RESPONDER" \in Signals
    /\ "RESPONDER_SLEEPING" \in Signals
    /\ "DATA_TO_REQUESTOR" \in Signs /\ "DATA_DONE_RESPONDER" \in Signs /\ "CLOSE" \notin Signs
    /\ "RESPONDER_SLEEPING" \notin Signs
    /\ "DATA_TO_RESPONDER" \in ToServe /\ "CLOSE" \notin ToServe /\ "OPEN" \notin ToServe
BY DEF Signals, Signs, ToServe

\* With room a signal is queued.
LEMMA Queued ==
    ASSUME IInv, RoomForSignals
    PROVE  /\ toResponder \in Seq(Signals) /\ toRequestor \in Seq(Signals)
           /\ Len(toResponder) < CtlSize
           /\ \A x : Signalled(toResponder, x) = Append(toResponder, x)
           /\ \A x : Signalled(toRequestor, x) = Append(toRequestor, x)
BY SameEnds, Zenon DEF OtherTypes, Signalled, RoomForSignals

\* A signal to the worker, other than a close, disturbs nothing.
LEMMA ToWorker ==
    ASSUME IInv, RoomForSignals, NEW x \in Signals
    PROVE  LET q == Signalled(toResponder, x)
           IN  /\ HasClose(q) <=> HasClose(toResponder) \/ x = "CLOSE"
               /\ OnItsWay(toResponder, ToServe) => OnItsWay(q, ToServe)
               /\ x \in ToServe /\ ~HasClose(toResponder) => OnItsWay(q, ToServe)
<1>1. PICK q \in Seq(Signals) : q = toResponder
  BY Queued, Zenon
<1>2. Signalled(toResponder, x) = Append(q, x)
  BY <1>1, Queued, Zenon
<1>3. /\ HasClose(Append(q, x)) <=> HasClose(q) \/ x = "CLOSE"
      /\ \A S : OnItsWay(q, S) => OnItsWay(Append(q, x), S)
      /\ \A S : x \in S /\ ~HasClose(q) => OnItsWay(Append(q, x), S)
  BY AppendSignal, Zenon
<1> QED
  BY <1>1, <1>2, <1>3, Zenon

LEMMA ToNetwork ==
    ASSUME IInv, RoomForSignals, NEW x \in Signals
    PROVE  LET q == Signalled(toRequestor, x)
           IN  /\ HasClose(q) <=> HasClose(toRequestor) \/ x = "CLOSE"
               /\ OnItsWay(toRequestor, Signs) => OnItsWay(q, Signs)
               /\ x \in Signs /\ ~HasClose(toRequestor) => OnItsWay(q, Signs)
<1>1. PICK q \in Seq(Signals) : q = toRequestor
  BY Queued, Zenon
<1>2. Signalled(toRequestor, x) = Append(q, x)
  BY <1>1, Queued, Zenon
<1>3. /\ HasClose(Append(q, x)) <=> HasClose(q) \/ x = "CLOSE"
      /\ \A S : OnItsWay(q, S) => OnItsWay(Append(q, x), S)
      /\ \A S : x \in S /\ ~HasClose(q) => OnItsWay(Append(q, x), S)
  BY AppendSignal, Zenon
<1> QED
  BY <1>1, <1>2, <1>3, Zenon

LEMMA Taken ==
    ASSUME IInv
    PROVE  /\ toRequestor # << >> =>
                /\ HasClose(Tail(toRequestor)) => HasClose(toRequestor)
                /\ Head(toRequestor) = "CLOSE" => HasClose(toRequestor) /\ ~OnItsWay(toRequestor, Signs)
                /\ OnItsWay(toRequestor, Signs) /\ Head(toRequestor) \notin Signs
                    => OnItsWay(Tail(toRequestor), Signs)
           /\ toResponder # << >> =>
                /\ HasClose(Tail(toResponder)) => HasClose(toResponder)
                /\ Head(toResponder) = "CLOSE" => /\ HasClose(toResponder)
                                                  /\ ~OnItsWay(toResponder, ToServe)
                /\ OnItsWay(toResponder, ToServe) /\ Head(toResponder) \notin ToServe
                    => OnItsWay(Tail(toResponder), ToServe)
<1>1. toRequestor \in Seq(Signals) /\ toResponder \in Seq(Signals)
  BY SameEnds, Zenon DEF OtherTypes
<1>2. "CLOSE" \notin ToServe /\ "CLOSE" \notin Signs
  BY SignalNames
<1>3. ASSUME NEW q \in Seq(Signals), NEW S, "CLOSE" \notin S, q # << >>
      PROVE  /\ HasClose(Tail(q)) => HasClose(q)
             /\ Head(q) = "CLOSE" => HasClose(q) /\ ~OnItsWay(q, S)
             /\ OnItsWay(q, S) /\ Head(q) \notin S => OnItsWay(Tail(q), S)
  BY <1>3, TakeSignal, Zenon
<1>4. toRequestor # << >> =>
        /\ HasClose(Tail(toRequestor)) => HasClose(toRequestor)
        /\ Head(toRequestor) = "CLOSE" => HasClose(toRequestor) /\ ~OnItsWay(toRequestor, Signs)
        /\ OnItsWay(toRequestor, Signs) /\ Head(toRequestor) \notin Signs => OnItsWay(Tail(toRequestor), Signs)
  BY <1>1, <1>2, <1>3, Zenon
<1>5. toResponder # << >> =>
        /\ HasClose(Tail(toResponder)) => HasClose(toResponder)
        /\ Head(toResponder) = "CLOSE" => HasClose(toResponder) /\ ~OnItsWay(toResponder, ToServe)
        /\ OnItsWay(toResponder, ToServe) /\ Head(toResponder) \notin ToServe
            => OnItsWay(Tail(toResponder), ToServe)
  BY <1>1, <1>2, <1>3, Zenon
<1> QED
  BY <1>4, <1>5, Zenon

\* The network thread
LEMMA NetworkCover ==
    ASSUME IInv, Cover, RoomForSignals,
           \/ SendRequest \/ SignalRequest \/ SendRequestFails \/ RecvReply \/ NoMoreReplies
           \/ ReplySignal \/ DoneSignal \/ SleepingSignal \/ SignalClose \/ Deactivate
    PROVE  Cover'
<1>1. requestor \in Ends
  BY SameEnds, Zenon
<1>2. CASE SendRequest
  <2>1. requestor'.active = requestor.active
    BY <1>1, <1>2, Zenon DEF SendRequest, Ends
  <2>2. /\ network = "idle" /\ network' = "pushed" /\ requestor.active = TRUE
        /\ UNCHANGED <<gone, responder, calls, replies, toResponder, toRequestor>>
    BY <1>1, <1>2, EndFields, Zenon DEF SendRequest, workerVars
  <2> QED
    BY <2>1, <2>2, Zenon DEF Cover, RequestsCovered, RepliesCovered, Closing, CloseSent
<1>3. CASE SignalRequest
  <2>1. /\ network = "pushed" /\ network' = "idle" /\ toResponder' = Signalled(toResponder, "DATA_TO_RESPONDER")
        /\ UNCHANGED <<requestor, gone, responder, calls, requests, replies, toRequestor>>
    BY <1>3, Zenon DEF SignalRequest, workerVars
  <2>2. ~HasClose(toResponder) /\ requestor.active
    BY <2>1, Zenon DEF Cover, Closing, CloseSent
  <2>3. ~HasClose(toResponder') /\ OnItsWay(toResponder', ToServe)
    BY <2>1, <2>2, ToWorker, SignalNames, Zenon
  <2> QED
    BY <2>1, <2>2, <2>3, Zenon DEF Cover, RequestsCovered, RepliesCovered, Closing, CloseSent
<1>4. CASE SendRequestFails \/ NoMoreReplies
  <2>1. /\ network \in {"idle", "reading"} /\ network' \in {"idle", "reading"}
        /\ network = "reading" => replies = << >>
        /\ UNCHANGED <<requestor, gone, responder, calls, requests, replies, toResponder, toRequestor>>
    BY <1>4, Zenon DEF SendRequestFails, NoMoreReplies, workerVars
  <2> QED
    BY <2>1, Zenon DEF Cover, RequestsCovered, RepliesCovered, Closing, CloseSent
<1>5. CASE RecvReply
  <2>1. requestor'.active = requestor.active
    BY <1>1, <1>5 DEF RecvReply, Ends
  <2>2. /\ network = "reading" /\ network' = "reading" /\ replies # << >>
        /\ UNCHANGED <<gone, responder, calls, requests, toResponder, toRequestor>>
    BY <1>5, Zenon DEF RecvReply, workerVars
  <2> QED
    BY <2>1, <2>2, Zenon DEF Cover, RequestsCovered, RepliesCovered, Closing, CloseSent
<1>6. CASE ReplySignal \/ DoneSignal
  <2>1. /\ network = "idle" /\ network' = "reading"
        /\ toRequestor # << >> /\ toRequestor' = Tail(toRequestor)
        /\ toResponder' = toResponder \/ toResponder' = Signalled(toResponder, "DATA_TO_RESPONDER")
        /\ UNCHANGED <<requestor, gone, responder, calls, requests, replies>>
    BY <1>6, Queued, Zenon DEF ReplySignal, DoneSignal, NetworkGets, workerVars
  <2>2. /\ HasClose(toResponder') => HasClose(toResponder)
        /\ OnItsWay(toResponder, ToServe) => OnItsWay(toResponder', ToServe)
    BY <2>1, ToWorker, SignalNames, Zenon
  <2>3. HasClose(toRequestor') => HasClose(toRequestor)
    BY <2>1, Taken, Zenon
  <2> QED
    BY <2>1, <2>2, <2>3, Zenon DEF Cover, RequestsCovered, RepliesCovered, Closing, CloseSent
<1>7. CASE SleepingSignal
  <2>1. /\ toRequestor # << >> /\ toRequestor' = Tail(toRequestor)
        /\ Head(toRequestor) = "RESPONDER_SLEEPING"
        /\ toResponder' = Signalled(toResponder, "DATA_TO_RESPONDER")
        /\ UNCHANGED <<network, requestor, gone, responder, calls, requests, replies>>
    BY <1>7, Zenon DEF SleepingSignal, NetworkGets, workerVars, networkVars
  <2>2. /\ HasClose(toResponder') => HasClose(toResponder)
        /\ OnItsWay(toResponder, ToServe) => OnItsWay(toResponder', ToServe)
    BY <2>1, ToWorker, SignalNames, Zenon
  <2>3. /\ HasClose(toRequestor') => HasClose(toRequestor)
        /\ OnItsWay(toRequestor, Signs) => OnItsWay(toRequestor', Signs)
    BY <2>1, Taken, SignalNames, Zenon
  <2> QED
    BY <2>1, <2>2, <2>3, Zenon DEF Cover, RequestsCovered, RepliesCovered, Closing, CloseSent
<1>8. CASE SignalClose
  <2>1. /\ network = "idle" /\ network' = "closing" /\ requestor.active
        /\ toResponder' = Signalled(toResponder, "CLOSE")
        /\ UNCHANGED <<requestor, gone, responder, calls, requests, replies, toRequestor>>
    BY <1>8, Zenon DEF SignalClose, workerVars
  <2>2. OnItsWay(toResponder, ToServe) => OnItsWay(toResponder', ToServe)
    BY <2>1, ToWorker, SignalNames, Zenon
  <2> QED
    BY <2>1, <2>2, Zenon DEF Cover, RequestsCovered, RepliesCovered, Closing, CloseSent
<1>9. CASE Deactivate
  <2>1. requestor'.active = FALSE
    BY <1>1, <1>9 DEF Deactivate, Ends
  <2>2. /\ network = "closing" /\ network' = "idle"
        /\ UNCHANGED <<gone, responder, calls, requests, replies, toResponder, toRequestor>>
    BY <1>9, Zenon DEF Deactivate, workerVars
  <2> QED
    BY <2>1, <2>2, Zenon DEF Cover, RequestsCovered, RepliesCovered, Closing, CloseSent
<1> QED
  BY <1>2, <1>3, <1>4, <1>5, <1>6, <1>7, <1>8, <1>9, Zenon

\* Nothing is in the queues when the acknowledgement arrives.
LEMMA CloseAckedCover ==
    ASSUME IInv, Cover, CloseAcked
    PROVE  Cover'
<1>1. /\ network = "idle" /\ toRequestor # << >> /\ Head(toRequestor) = "CLOSE"
      /\ toRequestor' = Tail(toRequestor)
      /\ UNCHANGED <<requestor, network, responder, calls, requests, replies, toResponder>>
  BY Zenon DEF CloseAcked, NetworkGets, workerVars
<1>2. /\ HasClose(toRequestor) /\ ~OnItsWay(toRequestor, Signs)
      /\ HasClose(toRequestor') => HasClose(toRequestor)
  BY <1>1, Taken, Zenon
<1>3. ~responder.active /\ ~requestor.active /\ requests = << >> /\ replies = << >>
  BY <1>1, <1>2, Zenon DEF Cover, RepliesCovered, Closing, CloseSent
<1> QED
  BY <1>1, <1>2, <1>3, Zenon DEF Cover, RequestsCovered, RepliesCovered, Closing, CloseSent

\* The worker

\* A call ends, or makes way for another, and the reading goes on.
LEMMA StackCover ==
    ASSUME Cover, UNCHANGED <<network, requestor, gone, requests, replies, toResponder, toRequestor>>,
           responder'.active = responder.active,
           Has(calls, Readers) => Has(calls', Readers),
           Has(calls', {"replied"}) <=> Has(calls, {"replied"})
    PROVE  Cover'
BY Zenon DEF Cover, RequestsCovered, RepliesCovered, Closing, CloseSent

LEMMA TopHas ==
    ASSUME IInv, calls # << >>
    PROVE  /\ \A ops : Has(calls, ops) <=> Head(calls).op \in ops \/ Has(Tail(calls), ops)
           /\ \A op \in Ops, n \in Numbers : \A ops :
                Has(<<Call(op, n)>> \o Tail(calls), ops) <=> op \in ops \/ Has(Tail(calls), ops)
           /\ \A op, o \in Ops, n, m \in Numbers : \A ops :
                Has(<<Call(o, m)>> \o (<<Call(op, n)>> \o Tail(calls)), ops)
                    <=> o \in ops \/ op \in ops \/ Has(Tail(calls), ops)
           /\ \A op \in Ops, n \in Numbers : \A ops : Has(<<Call(op, n)>> \o calls, ops) <=> op \in ops \/ Has(calls, ops)
<1>1. PICK s \in Seq(Frames), t \in Seq(Frames) : s = calls /\ t = Tail(calls)
  BY TopOwes, Zenon
<1>2. \A ops : Has(calls, ops) <=> Head(calls).op \in ops \/ Has(Tail(calls), ops)
  BY <1>1, PopHas, Zenon
<1>3. ASSUME NEW q \in Seq(Frames), NEW op \in Ops, NEW n \in Numbers, NEW ops
      PROVE  /\ Has(<<Call(op, n)>> \o q, ops) <=> op \in ops \/ Has(q, ops)
             /\ <<Call(op, n)>> \o q \in Seq(Frames)
  <2>1. PICK c \in Frames : c = Call(op, n) /\ c.op = op
    BY CallIs, Zenon
  <2>2. (Has(<<c>> \o q, ops) <=> c.op \in ops \/ Has(q, ops)) /\ <<c>> \o q \in Seq(Frames)
    BY PushHas, PushStack
  <2> QED
    BY <2>1, <2>2, Zenon
<1>4. ASSUME NEW op \in Ops, NEW o \in Ops, NEW n \in Numbers, NEW m \in Numbers, NEW ops
      PROVE  Has(<<Call(o, m)>> \o (<<Call(op, n)>> \o t), ops) <=> o \in ops \/ op \in ops \/ Has(t, ops)
  <2>1. PICK u \in Seq(Frames) : u = <<Call(op, n)>> \o t /\ (Has(u, ops) <=> op \in ops \/ Has(t, ops))
    BY <1>3, Zenon
  <2>2. Has(<<Call(o, m)>> \o u, ops) <=> o \in ops \/ Has(u, ops)
    BY <1>3, Zenon
  <2> QED
    BY <2>1, <2>2, Zenon
<1> QED
  BY <1>1, <1>2, <1>3, <1>4, Zenon

LEMMA OpsApart ==
    /\ "bootstrap" \notin Readers /\ "insert" \notin Readers /\ "reply" \notin Readers
    /\ "send" \notin Readers /\ "send" \notin {"replied"}
    /\ "serve" \in Readers /\ "failed" \in Readers /\ "replied" \in Readers
    /\ "bootstrap" \notin {"replied"} /\ "insert" \notin {"replied"} /\ "reply" \notin {"replied"}
    /\ "failed" \notin {"replied"} /\ "serve" \notin {"replied"} /\ "replied" \in {"replied"}
BY DEF Readers

LEMMA CallsCover ==
    ASSUME IInv, Cover, Accept \/ NullReply \/ Nak \/ MayReply \/ SendReplyFails \/ ReplyRefused
    PROVE  Cover'
<1>1. /\ UNCHANGED <<network, requestor, gone, requests, replies, toResponder, toRequestor>>
      /\ calls # << >> /\ Head(calls).op \in {"bootstrap", "insert", "reply", "send"}
  BY Zenon DEF Accept, NullReply, Nak, MayReply, SendReplyFails, ReplyRefused, networkVars, Calls
<1>2. responder'.active = responder.active
  <2>1. CASE NullReply
    <3>1. responder \in Ends
      BY SameEnds, Zenon
    <3> QED
      BY <2>1, <3>1 DEF NullReply, Ends
  <2>2. CASE ~NullReply
    BY <2>2, Zenon DEF Accept, Nak, MayReply, SendReplyFails, ReplyRefused
  <2> QED
    BY <2>1, <2>2, Zenon
<1>3. /\ Has(calls, Readers) <=> Has(Tail(calls), Readers)
      /\ Has(calls, {"replied"}) <=> Has(Tail(calls), {"replied"})
  BY <1>1, TopHas, OpsApart, ZenonT(40)
<1>4. Head(calls).n \in Numbers
  BY <1>1, TopOwes, Zenon
<1>5. \/ calls' = Tail(calls)
      \/ calls' = <<Call("reply", Head(calls).n)>> \o Tail(calls)
      \/ calls' = <<Call("send", Head(calls).n)>> \o Tail(calls)
      \/ calls' = <<Call("failed", Head(calls).n)>> \o Tail(calls)
  BY Zenon DEF Accept, NullReply, Nak, MayReply, SendReplyFails, ReplyRefused
<1>6. /\ Has(calls, Readers) => Has(calls', Readers)
      /\ Has(calls', {"replied"}) <=> Has(calls, {"replied"})
  <2>1. PICK n \in Numbers : n = Head(calls).n
    BY <1>4, Zenon
  <2>2. /\ Has(<<Call("reply", n)>> \o Tail(calls), Readers) <=> Has(Tail(calls), Readers)
        /\ Has(<<Call("reply", n)>> \o Tail(calls), {"replied"}) <=> Has(Tail(calls), {"replied"})
    BY <1>1, TopHas, OpsApart, OpsAre, Zenon
  <2>4. /\ Has(<<Call("send", n)>> \o Tail(calls), Readers) <=> Has(Tail(calls), Readers)
        /\ Has(<<Call("send", n)>> \o Tail(calls), {"replied"}) <=> Has(Tail(calls), {"replied"})
    BY <1>1, TopHas, OpsApart, OpsAre, Zenon
  <2>3. /\ Has(<<Call("failed", n)>> \o Tail(calls), Readers)
        /\ Has(<<Call("failed", n)>> \o Tail(calls), {"replied"}) <=> Has(Tail(calls), {"replied"})
    BY <1>1, TopHas, OpsApart, OpsAre, Zenon
  <2> QED
    BY <1>3, <1>5, <2>1, <2>2, <2>3, <2>4, Zenon
<1> QED
  BY <1>1, <1>2, <1>6, StackCover, Zenon

LEMMA ConflictCover ==
    ASSUME IInv, Cover, NEW old \in running, Conflict(old)
    PROVE  Cover'
<1>1. /\ UNCHANGED <<network, requestor, gone, responder, requests, replies, toResponder, toRequestor>>
      /\ calls # << >> /\ Head(calls).op = "bootstrap"
  BY Zenon DEF Conflict, networkVars, Calls
<1>2. /\ Has(calls, Readers) <=> Has(Tail(calls), Readers)
      /\ Has(calls, {"replied"}) <=> Has(Tail(calls), {"replied"})
  BY <1>1, TopHas, OpsApart, Zenon
<1>3. PICK n \in Numbers : n = Head(calls).n
  BY <1>1, TopOwes, Zenon
<1>4. old \in Numbers
  BY SameEnds, Zenon DEF OtherTypes
<1>5. \/ calls' = <<Call("insert", n)>> \o Tail(calls)
      \/ calls' = <<Call("reply", old)>> \o (<<Call("insert", n)>> \o Tail(calls))
  BY <1>3, Zenon DEF Conflict
<1>6. /\ Has(calls, Readers) => Has(calls', Readers)
      /\ Has(calls', {"replied"}) <=> Has(calls, {"replied"})
  <2> DEFINE s == <<Call("insert", n)>> \o Tail(calls)
             t == <<Call("reply", old)>> \o (<<Call("insert", n)>> \o Tail(calls))
  <2>1. /\ Has(s, Readers) <=> Has(Tail(calls), Readers)
        /\ Has(s, {"replied"}) <=> Has(Tail(calls), {"replied"})
    BY <1>1, TopHas, OpsApart, OpsAre, Zenon
  <2>2. /\ Has(t, Readers) <=> Has(Tail(calls), Readers)
        /\ Has(t, {"replied"}) <=> Has(Tail(calls), {"replied"})
    BY <1>1, <1>4, TopHas, OpsApart, OpsAre, Zenon
  <2> QED
    BY <1>2, <1>5, <2>1, <2>2, Zenon
<1>7. responder'.active = responder.active
  BY <1>1, Zenon
<1> QED
  BY <1>1, <1>6, <1>7, StackCover, Zenon

LEMMA OneCall ==
    ASSUME NEW op \in Ops, NEW n \in Numbers, NEW ops
    PROVE  Has(<<Call(op, n)>>, ops) <=> op \in ops
<1>1. <<Call(op, n)>>[1] = Call(op, n) /\ 1 .. Len(<<Call(op, n)>>) = {1}
  OBVIOUS
<1>2. Call(op, n).op = op
  BY CallIs
<1> QED
  BY <1>1, <1>2, Zenon DEF Has

LEMMA FinishCover ==
    ASSUME IInv, Cover, NEW n \in running, Finish(n)
    PROVE  Cover'
<1>1. /\ UNCHANGED <<network, requestor, gone, responder, requests, replies, toResponder, toRequestor>>
      /\ calls = << >>
      /\ calls' = << >> \/ calls' = <<Call("reply", n)>>
  BY Zenon DEF Finish, networkVars
<1>2. n \in Numbers
  BY SameEnds, Zenon DEF OtherTypes
<1>3. ~Has(calls, Readers) /\ ~Has(calls, {"replied"}) /\ ~Has(calls', {"replied"})
  <2>1. ~Has(<<Call("reply", n)>>, {"replied"})
    BY <1>2, OneCall, OpsAre, OpsApart, Zenon
  <2> QED
    BY <1>1, <2>1, EmptyHas, Zenon
<1>4. responder'.active = responder.active
  BY <1>1, Zenon
<1> QED
  BY <1>1, <1>3, <1>4, StackCover, Zenon

LEMMA SignalsCover ==
    ASSUME IInv, Cover, RoomForSignals, OpenSignal \/ RequestSignal \/ CloseSignal \/ Sleeping
    PROVE  Cover'
<1>1. /\ UNCHANGED <<network, requestor, gone, requests, replies>> /\ calls = << >>
  BY Zenon DEF OpenSignal, RequestSignal, CloseSignal, Sleeping, WorkerGets, networkVars
<1>2. ~Has(calls, Readers) /\ ~Has(calls, {"replied"})
  BY <1>1, EmptyHas, Zenon
<1>3. CASE OpenSignal
  <2>1. /\ toResponder # << >> /\ Head(toResponder) = "OPEN" /\ toResponder' = Tail(toResponder)
        /\ UNCHANGED <<responder, calls, toRequestor>>
    BY <1>3, Zenon DEF OpenSignal, WorkerGets
  <2>2. "OPEN" \notin ToServe
    BY SignalNames, Zenon
  <2>3. /\ HasClose(toResponder') => HasClose(toResponder)
        /\ OnItsWay(toResponder, ToServe) => OnItsWay(toResponder', ToServe)
    BY <2>1, <2>2, Taken, Zenon
  <2> QED
    BY <1>1, <2>1, <2>3, Zenon DEF Cover, RequestsCovered, RepliesCovered, Closing, CloseSent
<1>4. CASE RequestSignal
  <2>1. /\ toResponder # << >> /\ toResponder' = Tail(toResponder) /\ calls' = <<Call("serve", 0)>>
        /\ UNCHANGED <<responder, toRequestor>>
    BY <1>4, Zenon DEF RequestSignal, WorkerGets
  <2>2. HasClose(toResponder') => HasClose(toResponder)
    BY <2>1, Taken, Zenon
  <2>3. 0 \in Numbers
    BY NumberIs
  <2>4. Has(calls', Readers) /\ ~Has(calls', {"replied"})
    BY <2>1, <2>3, OneCall, OpsAre, OpsApart, Zenon
  <2> QED
    BY <1>1, <1>2, <2>1, <2>2, <2>4, Zenon DEF Cover, RequestsCovered, RepliesCovered, Closing, CloseSent
<1>5. CASE CloseSignal
  <2>1. /\ toResponder # << >> /\ Head(toResponder) = "CLOSE" /\ toResponder' = Tail(toResponder)
        /\ toRequestor' = Signalled(toRequestor, "CLOSE") /\ UNCHANGED calls
    BY <1>5, Zenon DEF CloseSignal, WorkerGets
  <2>2. responder'.active = FALSE
    <3>1. responder \in Ends
      BY SameEnds, Zenon
    <3> QED
      BY <1>5, <3>1 DEF CloseSignal, Ends
  <2>3. /\ HasClose(toResponder) /\ ~OnItsWay(toResponder, ToServe)
        /\ HasClose(toResponder') => HasClose(toResponder)
    BY <2>1, Taken, Zenon
  <2>4. OnItsWay(toRequestor, Signs) => OnItsWay(toRequestor', Signs)
    BY <2>1, ToNetwork, SignalNames, Zenon
  <2>5. CloseSent /\ requests = << >>
    BY <1>2, <2>3, Zenon DEF Cover, RequestsCovered, Closing, CloseSent
  <2> QED
    BY <1>1, <1>2, <2>1, <2>2, <2>3, <2>4, <2>5, Zenon
       DEF Cover, RequestsCovered, RepliesCovered, Closing, CloseSent
<1>6. CASE Sleeping
  <2>1. /\ toRequestor' = Signalled(toRequestor, "RESPONDER_SLEEPING")
        /\ UNCHANGED <<responder, calls, toResponder>>
    BY <1>6, Zenon DEF Sleeping
  <2>2. "RESPONDER_SLEEPING" # "CLOSE"
    OBVIOUS
  <2>3. /\ OnItsWay(toRequestor, Signs) => OnItsWay(toRequestor', Signs)
        /\ HasClose(toRequestor') => HasClose(toRequestor)
    BY <2>1, <2>2, ToNetwork, SignalNames, Zenon
  <2> QED
    BY <1>1, <2>1, <2>3, Zenon DEF Cover, RequestsCovered, RepliesCovered, Closing, CloseSent
<1> QED
  BY <1>3, <1>4, <1>5, <1>6, Zenon

LEMMA DataCover ==
    ASSUME IInv, Cover, RoomForSignals, RecvRequest \/ NoMoreRequests \/ SendReply
    PROVE  Cover'
<1>1. /\ UNCHANGED <<network, requestor, gone, toResponder>> /\ calls # << >>
  BY Zenon DEF RecvRequest, NoMoreRequests, SendReply, Reads, Calls, networkVars
<1>2. responder \in Ends
  BY SameEnds, Zenon
<1>3. PICK n \in Numbers : n = Head(calls).n
  BY <1>1, TopOwes, Zenon
<1>4. CASE RecvRequest
  <2>1. /\ requests # << >> /\ calls' = <<Call("bootstrap", Head(requests).sequence)>> \o calls
        /\ UNCHANGED <<replies, toRequestor>>
    BY <1>4, Zenon DEF RecvRequest
  <2>2. Head(requests).sequence \in Numbers
    <3>1. requests \in Seq(Packets)
      BY Bounds, Zenon
    <3>2. Head(requests) \in Packets
      BY <2>1, <3>1
    <3> QED
      BY <3>2, PacketFields, NumberIs
  <2>3. Has(calls, Readers)
    <3>1. Head(calls).op \in Readers
      BY <1>4, OpsApart, Zenon DEF RecvRequest, Reads, Calls
    <3> QED
      BY <1>1, <3>1, TopHas, Zenon
  <2>4. Has(calls', Readers) /\ (Has(calls', {"replied"}) <=> Has(calls, {"replied"}))
    BY <1>1, <2>1, <2>2, <2>3, TopHas, OpsAre, OpsApart, Zenon
  <2>5. responder'.active = responder.active
    BY <1>2, <1>4 DEF RecvRequest, Ends
  <2> QED
    BY <1>1, <2>1, <2>4, <2>5, Zenon DEF Cover, RequestsCovered, RepliesCovered, Closing, CloseSent
<1>5. CASE NoMoreRequests
  <2>1. /\ requests = << >> /\ calls' = Tail(calls) /\ UNCHANGED <<responder, requests, replies>>
    BY <1>5, Zenon DEF NoMoreRequests
  <2>2. Has(calls', {"replied"}) => Has(calls, {"replied"})
    BY <1>1, <2>1, TopHas, Zenon
  <2>3. CASE Calls("replied")
    <3>1. PICK x \in Signs : x \in Signals /\ toRequestor' = Signalled(toRequestor, x)
      BY <1>5, <2>3, SignalNames, Zenon DEF NoMoreRequests
    <3>2. Has(calls, {"replied"})
      BY <1>1, <2>3, TopHas, OpsApart, Zenon DEF Calls
    <3>3. ~HasClose(toRequestor) /\ responder.active
      BY <3>2, Zenon DEF Cover, Closing
    <3>4. x # "CLOSE"
      BY <3>1, SignalNames, Zenon
    <3>5. OnItsWay(toRequestor', Signs) /\ ~HasClose(toRequestor')
      BY <3>1, <3>3, <3>4, ToNetwork, Zenon
    <3> QED
      BY <1>1, <2>1, <3>3, <3>5, Zenon DEF Cover, RequestsCovered, RepliesCovered, Closing, CloseSent
  <2>4. CASE ~Calls("replied")
    <3>1. toRequestor' = toRequestor
      BY <1>5, <2>4, Zenon DEF NoMoreRequests
    <3>2. Has(calls', {"replied"}) <=> Has(calls, {"replied"})
      BY <1>1, <2>1, <2>4, TopHas, Zenon DEF Calls
    <3> QED
      BY <1>1, <2>1, <3>1, <3>2, Zenon DEF Cover, RequestsCovered, RepliesCovered, Closing, CloseSent
  <2> QED
    BY <2>3, <2>4, Zenon
<1>6. CASE SendReply
  <2>1. /\ responder.active /\ Head(calls).op = "send"
        /\ calls' = <<Call("replied", n)>> \o Tail(calls)
        /\ UNCHANGED <<requests, toRequestor>>
    BY <1>3, <1>6, Zenon DEF SendReply, Calls
  <2>2. responder'.active = responder.active
    BY <1>2, <1>6 DEF SendReply, Ends
  <2>3. Has(calls', {"replied"}) /\ Has(calls', Readers)
    BY <1>1, <2>1, TopHas, OpsAre, OpsApart, Zenon
  <2> QED
    BY <1>1, <2>1, <2>2, <2>3, Zenon DEF Cover, RequestsCovered, RepliesCovered, Closing, CloseSent
<1> QED
  BY <1>4, <1>5, <1>6, Zenon

LEMMA NextCover ==
    ASSUME IInv, Cover, RoomForSignals, [Next]_vars
    PROVE  Cover'
<1>1. CASE NetworkServes \/ SendRequest \/ SendRequestFails \/ SignalClose
  BY <1>1, NetworkCover, CloseAckedCover, Zenon DEF NetworkServes
<1>2. CASE WorkerServes
  BY <1>2, SignalsCover, DataCover, CallsCover, ConflictCover, Zenon DEF WorkerServes
<1>3. CASE Sleeping \/ \E n \in running : Finish(n)
  BY <1>3, SignalsCover, FinishCover, Zenon
<1>4. CASE UNCHANGED vars
  BY <1>4, Zenon DEF vars, networkVars, workerVars, Cover, RequestsCovered, RepliesCovered, Closing, CloseSent
<1> QED
  BY <1>1, <1>2, <1>3, <1>4, Zenon DEF Next

LEMMA InitCover ==
    ASSUME Init
    PROVE  Cover
<1>1. /\ requestor.active /\ responder.active
  BY DEF Init, NewEnd
<1>2. requests = << >> /\ replies = << >> /\ gone = FALSE
  BY Zenon DEF Init
<1>3. ~HasClose(toResponder) /\ ~HasClose(toRequestor)
  BY DEF Init, HasClose
<1> QED
  BY <1>1, <1>2, <1>3, Zenon DEF Cover, RequestsCovered, RepliesCovered, Closing

-----------------------------------------------------------------------------
(* The theorems *)

Sets == INSTANCE FiniteSetTheorems

LEMMA SameCardinality ==
    ASSUME NEW S
    PROVE  Sets!Cardinality(S) = Cardinality(S) /\ (Sets!IsFiniteSet(S) <=> IsFiniteSet(S))
BY Zenon DEF Cardinality, Sets!Cardinality, IsFiniteSet, Sets!IsFiniteSet

LEMMA CountingHolds == Counting
<1> SUFFICES ASSUME NEW m \in Nat, NEW S \in SUBSET (1 .. m)
             PROVE  /\ Cardinality(S) \in Nat
                    /\ Cardinality(S) = 0 <=> S = {}
                    /\ \A T \in SUBSET S : Cardinality(T) \in Nat /\ Cardinality(T) <= Cardinality(S)
                    /\ \A x \in Nat : /\ x \notin S => Cardinality(S \cup {x}) = Cardinality(S) + 1
                                      /\ x \in S => Cardinality(S \ {x}) = Cardinality(S) - 1
  BY Zenon DEF Counting
<1>1. Sets!IsFiniteSet(1 .. m)
  <2>1. 1 \in Int /\ m \in Int
    OBVIOUS
  <2> QED
    BY <2>1, Sets!FS_Interval, Zenon
<1>2. Sets!IsFiniteSet(S)
  BY <1>1, Sets!FS_Subset, Zenon
<1>3. Sets!Cardinality(S) \in Nat
  BY <1>2, Sets!FS_CardinalityType, Zenon
<1>4. Sets!Cardinality(S) = 0 <=> S = {}
  BY <1>2, Sets!FS_EmptySet, Zenon
<1>5. ASSUME NEW T \in SUBSET S
      PROVE  Sets!Cardinality(T) \in Nat /\ Sets!Cardinality(T) <= Sets!Cardinality(S)
  BY <1>2, <1>5, Sets!FS_Subset, Sets!FS_CardinalityType, Zenon
<1>6. ASSUME NEW x, x \notin S
      PROVE  Sets!Cardinality(S \cup {x}) = Sets!Cardinality(S) + 1
  BY <1>2, <1>6, Sets!FS_AddElement, Zenon
<1>7. ASSUME NEW x \in S
      PROVE  Sets!Cardinality(S \ {x}) = Sets!Cardinality(S) - 1
  BY <1>2, <1>7, Sets!FS_RemoveElement, Zenon
<1>8. \A T \in SUBSET S : Cardinality(T) \in Nat /\ Cardinality(T) <= Cardinality(S)
  <2> TAKE T \in SUBSET S
  <2>1. Sets!Cardinality(T) = Cardinality(T) /\ Sets!Cardinality(S) = Cardinality(S)
    BY SameCardinality, Zenon
  <2> QED
    BY <1>5, <2>1
<1>9. \A x \in Nat : /\ x \notin S => Cardinality(S \cup {x}) = Cardinality(S) + 1
                     /\ x \in S => Cardinality(S \ {x}) = Cardinality(S) - 1
  BY <1>6, <1>7, SameCardinality, Zenon
<1>10. Cardinality(S) \in Nat /\ (Cardinality(S) = 0 <=> S = {})
  BY <1>3, <1>4, SameCardinality, Zenon
<1> QED
  BY <1>8, <1>9, <1>10, Zenon

\* No assertion of fr_channel_recv_reply, fr_channel_recv_request and
\* fr_channel_send_reply of channel.c fails, with whatever nesting of the calls
\* of the worker: replies that are dropped, null replies and stopped requests
\* never let a reply run ahead of the requests.
THEOREM NumbersInStep == Spec => []Assertions
<1>1. Init => IInv
  BY CountingHolds, InitIInv, Zenon
<1>2. IInv /\ [Next]_vars => IInv'
  BY CountingHolds, NextIInv, Zenon
<1>3. IInv => Assertions
  BY CountingHolds, IInvImplies, Zenon
<1> QED
  BY <1>1, <1>2, <1>3, PTL DEF Spec

\* The worker holds no request twice, so that none is answered twice: one that
\* it has received and not answered is running or is held by one nested call,
\* never by two of them.  The replies it still owes are at most num_outstanding
\* of its end, and with those it has sent at most the requests it has received.
THEOREM OwedAtMostOnce == Spec => []OwedOnce
<1>1. Init => IInv
  BY CountingHolds, InitIInv, Zenon
<1>2. IInv /\ [Next]_vars => IInv'
  BY CountingHolds, NextIInv, Zenon
<1>3. IInv => OwedOnce
  BY Zenon DEF IInv
<1> QED
  BY <1>1, <1>2, <1>3, PTL DEF Spec

\* As long as neither control plane is full, no signal that matters is missing:
\* when the network thread of network.c is told that the worker has closed the
\* channel, both queues of the channel are empty.
THEOREM ClosesEmpty == Spec /\ []RoomForSignals => []NothingLeftBehind
<1>1. Init => IInv /\ Cover
  BY CountingHolds, InitIInv, InitCover, Zenon
<1>2. IInv /\ Cover /\ RoomForSignals /\ [Next]_vars => IInv' /\ Cover'
  BY CountingHolds, NextIInv, NextCover, Zenon
<1>3. IInv /\ Cover => NothingLeftBehind
  BY Zenon DEF Cover, Closing, NothingLeftBehind
<1> QED
  BY <1>1, <1>2, <1>3, PTL DEF Spec

=============================================================================
