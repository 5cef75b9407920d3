-------------------------- MODULE AlertFanoutProofs --------------------------
(***************************************************************************)
(* Proofs about AlertFanout, for every set of alerts and sockets: that no  *)
(* alert is missed by a browser that stays connected, and that none is     *)
(* shown again unless an acknowledgement was lost.                         *)
(***************************************************************************)
EXTENDS AlertFanout, FiniteSetTheorems, TLAPS

(* A client that is connected is registered, and no broadcast is about to discard it: a
   broadcast knows nothing of the clients that are still to come. *)
RegisteredInv ==
    \A s \in Socket :
       /\ client[s] = "open" =>
             s \in sockets /\ \A i \in DOMAIN broadcasts : s \notin broadcasts[i].failed
       /\ client[s] = "new" =>
             \A i \in DOMAIN broadcasts : s \notin broadcasts[i].left \cup broadcasts[i].failed

(* Of what its acknowledgement would pass, a batch under way has still to schedule all that
   does not reach the sockets anyhow. *)
BatchInv ==
    thread = "handling" =>
       \A s \in Socket, d \in Doc :
          /\ client[s] = "open" /\ since[s] < version[d]
          /\ cursor < version[d] /\ version[d] <= upTo
          => version[d] \in todo \/ Reaches(version[d], s)

IInv == TypeOK /\ RegisteredInv /\ BatchInv /\ NothingMissed
-----------------------------------------------------------------------------
(* Sequences. *)

LEMMA AppendContains ==
    ASSUME NEW S, NEW q \in Seq(S), NEW e \in S, NEW v
    PROVE  /\ Contains(q, v) => Contains(Append(q, e), v)
           /\ Contains(Append(q, e), e)
<1>1. Contains(q, v) => Contains(Append(q, e), v)
  <2> SUFFICES ASSUME Contains(q, v) PROVE Contains(Append(q, e), v)
    OBVIOUS
  <2>1. PICK i \in 1..Len(q) : q[i] = v
    BY DEF Contains
  <2>2. i \in 1..Len(Append(q, e)) /\ Append(q, e)[i] = v
    BY <2>1
  <2> QED BY <2>2 DEF Contains
<1>2. Contains(Append(q, e), e)
  <2>1. Len(q) + 1 \in 1..Len(Append(q, e)) /\ Append(q, e)[Len(q) + 1] = e
    OBVIOUS
  <2> QED BY <2>1 DEF Contains
<1> QED BY <1>1, <1>2

LEMMA ConcatElements ==
    ASSUME NEW S, NEW a \in Seq(S), NEW b \in Seq(S)
    PROVE  /\ a \o b \in Seq(S)
           /\ Len(a \o b) = Len(a) + Len(b)
           /\ DOMAIN (a \o b) = 1..(Len(a) + Len(b))
           /\ \A k \in 1..(Len(a) + Len(b)) :
                 (a \o b)[k] = IF k <= Len(a) THEN a[k] ELSE b[k - Len(a)]
OBVIOUS

LEMMA TailContains ==
    ASSUME NEW S, NEW q \in Seq(S), q # <<>>, NEW v, Contains(q, v), v # Head(q)
    PROVE  Contains(Tail(q), v)
<1>1. PICK i \in 1..Len(q) : q[i] = v
  BY DEF Contains
<1>2. i # 1
  BY <1>1
<1>3. i - 1 \in 1..Len(Tail(q)) /\ Tail(q)[i - 1] = v
  BY <1>1, <1>2
<1> QED BY <1>3 DEF Contains

(* What is left of a sequence without one of its elements. *)
LEMMA RemoveAtShape ==
    ASSUME NEW S, NEW q \in Seq(S), NEW i \in DOMAIN q
    PROVE  /\ RemoveAt(q, i) \in Seq(S)
           /\ DOMAIN RemoveAt(q, i) = 1..(Len(q) - 1)
           /\ \A k \in 1..(Len(q) - 1) : RemoveAt(q, i)[k] = IF k < i THEN q[k] ELSE q[k + 1]
<1> DEFINE front == SubSeq(q, 1, i - 1)
           back == SubSeq(q, i + 1, Len(q))
           rest == RemoveAt(q, i)
<1>1. i \in 1..Len(q) /\ Len(q) \in Nat /\ DOMAIN q = 1..Len(q)
  OBVIOUS
<1>2. front \in Seq(S) /\ Len(front) = i - 1 /\ \A k \in 1..(i - 1) : front[k] = q[k]
  BY <1>1
<1>3. back \in Seq(S) /\ Len(back) = Len(q) - i /\ \A k \in 1..(Len(q) - i) : back[k] = q[k + i]
  BY <1>1
<1>4. rest = front \o back
  BY DEF RemoveAt
<1> HIDE DEF front, back, rest
<1>5. rest \in Seq(S) /\ DOMAIN rest = 1..(Len(q) - 1)
  <2>1. (i - 1) + (Len(q) - i) = Len(q) - 1
    BY <1>1
  <2> QED BY <1>2, <1>3, <1>4, <2>1, ConcatElements
<1>6. \A k \in 1..(Len(q) - 1) : rest[k] = IF k < i THEN q[k] ELSE q[k + 1]
  <2> SUFFICES ASSUME NEW k \in 1..(Len(q) - 1)
               PROVE  rest[k] = IF k < i THEN q[k] ELSE q[k + 1]
    OBVIOUS
  <2>3. (i - 1) + (Len(q) - i) = Len(q) - 1
    BY <1>1
  <2>4. rest[k] = IF k <= i - 1 THEN front[k] ELSE back[k - (i - 1)]
    BY <1>2, <1>3, <1>4, <2>3, ConcatElements
  <2>1. CASE k < i
    BY <1>1, <1>2, <2>1, <2>4
  <2>2. CASE k >= i
    <3>1. rest[k] = back[k - (i - 1)]
      BY <1>1, <2>2, <2>4
    <3>2. k - (i - 1) \in 1..(Len(q) - i) /\ (k - (i - 1)) + i = k + 1
      BY <1>1, <2>2
    <3> QED BY <1>1, <1>3, <2>2, <3>1, <3>2
  <2> QED BY <1>1, <2>1, <2>2
<1> QED BY <1>5, <1>6 DEF rest

LEMMA RemoveAtElements ==
    ASSUME NEW S, NEW q \in Seq(S), NEW i \in DOMAIN q
    PROVE  /\ RemoveAt(q, i) \in Seq(S)
           /\ \A k \in DOMAIN RemoveAt(q, i) : \E j \in DOMAIN q : RemoveAt(q, i)[k] = q[j]
           /\ \A j \in DOMAIN q \ {i} : \E k \in DOMAIN RemoveAt(q, i) : RemoveAt(q, i)[k] = q[j]
<1> DEFINE rest == RemoveAt(q, i)
<1>1. i \in 1..Len(q) /\ Len(q) \in Nat /\ DOMAIN q = 1..Len(q)
  OBVIOUS
<1>5. rest \in Seq(S) /\ DOMAIN rest = 1..(Len(q) - 1)
  BY RemoveAtShape
<1>6. \A k \in 1..(Len(q) - 1) : rest[k] = IF k < i THEN q[k] ELSE q[k + 1]
  BY RemoveAtShape
<1> HIDE DEF rest
<1>7. \A k \in DOMAIN rest : \E j \in DOMAIN q : rest[k] = q[j]
  <2> SUFFICES ASSUME NEW k \in 1..(Len(q) - 1) PROVE \E j \in DOMAIN q : rest[k] = q[j]
    BY <1>5
  <2>1. k \in DOMAIN q /\ k + 1 \in DOMAIN q
    BY <1>1
  <2> QED BY <1>6, <2>1
<1>8. \A j \in DOMAIN q \ {i} : \E k \in DOMAIN rest : rest[k] = q[j]
  <2> SUFFICES ASSUME NEW j \in 1..Len(q), j # i PROVE \E k \in DOMAIN rest : rest[k] = q[j]
    BY <1>1
  <2>1. CASE j < i
    <3>1. j \in 1..(Len(q) - 1)
      BY <1>1, <2>1
    <3> QED BY <1>5, <1>6, <2>1, <3>1
  <2>2. CASE j > i
    <3>1. j - 1 \in 1..(Len(q) - 1) /\ ~(j - 1 < i) /\ (j - 1) + 1 = j
      BY <1>1, <2>2
    <3>2. rest[j - 1] = q[j]
      BY <1>6, <3>1
    <3> QED BY <1>5, <3>1, <3>2
  <2> QED BY <1>1, <2>1, <2>2
<1> QED BY <1>5, <1>7, <1>8 DEF rest
-----------------------------------------------------------------------------
LEMMA InitIInv == ASSUME AlertFanoutAssumption, Init PROVE IInv
<1>1. TypeOK
  BY DEF AlertFanoutAssumption, Init, TypeOK
<1>2. RegisteredInv /\ BatchInv /\ NothingMissed
  BY DEF Init, RegisteredInv, BatchInv, NothingMissed
<1> QED BY <1>1, <1>2 DEF IInv

(* The properties about a socket outlive a step that takes nothing of what reaches it, if
   the step neither raises nor acknowledges nor delivers anything. *)
LEMMA ReachKept ==
    ASSUME BatchInv, NothingMissed, UNCHANGED <<docVars, threadVars>>,
           \A s \in Socket : client'[s] = "open" =>
              /\ client[s] = "open"
              /\ since'[s] = since[s]
              /\ \A d \in Doc : Reaches(version[d], s) => Reaches(version[d], s)'
    PROVE  BatchInv' /\ NothingMissed'
<1>1. /\ version' = version /\ cursor' = cursor /\ thread' = thread
      /\ todo' = todo /\ upTo' = upTo
  BY DEF docVars, threadVars
<1>2. BatchInv'
  <2> SUFFICES ASSUME thread' = "handling", NEW s \in Socket, NEW d \in Doc,
                      client'[s] = "open", since'[s] < version'[d],
                      cursor' < version'[d], version'[d] <= upTo'
               PROVE  version'[d] \in todo' \/ Reaches(version[d], s)'
    BY DEF BatchInv
  <2>1. version[d] \in todo \/ Reaches(version[d], s)
    BY <1>1 DEF BatchInv
  <2> QED BY <1>1, <2>1
<1>3. NothingMissed'
  <2> SUFFICES ASSUME NEW s \in Socket, NEW d \in Doc,
                      client'[s] = "open", since'[s] < version'[d], version'[d] <= cursor'
               PROVE  Reaches(version[d], s)'
    BY DEF NothingMissed
  <2>1. Reaches(version[d], s)
    BY <1>1 DEF NothingMissed
  <2> QED BY <2>1
<1> QED BY <1>2, <1>3

(* Nothing that reaches a socket is taken from it when nothing is broadcast or shown. *)
LEMMA SameReach ==
    ASSUME NEW s \in Socket, NEW v, Reaches(v, s),
           shown'[s] = shown[s], scheduled' = scheduled, broadcasts' = broadcasts
    PROVE  Reaches(v, s)'
BY DEF Reaches
-----------------------------------------------------------------------------
(* Alerts and the thread. *)

LEMMA RaiseKeeps == ASSUME AlertFanoutAssumption, IInv, NEW e \in Doc, Raise(e) PROVE IInv'
<1> USE DEF IInv
<1>1. /\ cursor' = cursor /\ thread' = thread /\ todo' = todo /\ upTo' = upTo
      /\ scheduled' = scheduled /\ broadcasts' = broadcasts /\ sockets' = sockets
      /\ client' = client /\ since' = since /\ shown' = shown /\ failures' = failures
  BY DEF Raise, threadVars, loopVars, clientVars
<1>2. /\ raised < MaxRaised /\ raised' = raised + 1
      /\ version' = [version EXCEPT ![e] = raised + 1]
  BY DEF Raise
<1>3. MaxRaised \in Nat /\ raised \in 0..MaxRaised /\ version \in [Doc -> 0..raised]
      /\ cursor \in 0..raised /\ upTo \in 0..raised /\ since \in [Socket -> 0..raised]
  BY DEF AlertFanoutAssumption, TypeOK
<1>4. TypeOK'
  <2>1. raised' \in 0..MaxRaised /\ version' \in [Doc -> 0..raised'] /\ cursor' \in 0..raised'
    BY <1>1, <1>2, <1>3
  <2>2. upTo' \in 0..raised' /\ since' \in [Socket -> 0..raised']
    BY <1>1, <1>2, <1>3
  <2> QED BY <1>1, <2>1, <2>2 DEF TypeOK
<1>5. RegisteredInv'
  BY <1>1 DEF RegisteredInv
<1>6. \A d \in Doc : version'[d] = version[d] \/ (version'[d] > cursor' /\ version'[d] > upTo')
  BY <1>1, <1>2, <1>3
<1>7. \A d \in Doc : version'[d] \in Nat /\ cursor' \in Nat /\ upTo' \in Nat
  BY <1>1, <1>2, <1>3
<1>8. BatchInv'
  <2> SUFFICES ASSUME thread' = "handling", NEW s \in Socket, NEW d \in Doc,
                      client'[s] = "open", since'[s] < version'[d],
                      cursor' < version'[d], version'[d] <= upTo'
               PROVE  version'[d] \in todo' \/ Reaches(version[d], s)'
    BY DEF BatchInv
  <2>1. version'[d] = version[d]
    BY <1>6, <1>7
  <2>2. version[d] \in todo \/ Reaches(version[d], s)
    BY <1>1, <2>1 DEF BatchInv
  <2> QED BY <1>1, <2>1, <2>2 DEF Reaches
<1>9. NothingMissed'
  <2> SUFFICES ASSUME NEW s \in Socket, NEW d \in Doc,
                      client'[s] = "open", since'[s] < version'[d], version'[d] <= cursor'
               PROVE  Reaches(version[d], s)'
    BY DEF NothingMissed
  <2>1. version'[d] = version[d]
    BY <1>6, <1>7
  <2>2. Reaches(version[d], s)
    BY <1>1, <2>1 DEF NothingMissed
  <2> QED BY <1>1, <2>1, <2>2 DEF Reaches
<1> QED BY <1>4, <1>5, <1>8, <1>9

(* Nothing is claimed of a document that has expired. *)
LEMMA ExpireKeeps == ASSUME IInv, NEW e \in Doc, Expire(e) PROVE IInv'
<1> USE DEF IInv
<1>1. /\ version' = [version EXCEPT ![e] = 0]
      /\ UNCHANGED <<raised, threadVars, loopVars, clientVars, failures>>
  BY DEF Expire
<1>2. /\ raised \in Nat /\ version \in [Doc -> 0..raised]
      /\ cursor \in 0..raised /\ since \in [Socket -> 0..raised]
  BY DEF TypeOK
<1>3. TypeOK'
  BY <1>1, <1>2 DEF TypeOK, threadVars, loopVars, clientVars
<1>4. RegisteredInv'
  BY <1>1 DEF RegisteredInv, loopVars, clientVars
<1>5. \A s \in Socket, d \in Doc : since'[s] < version'[d] => version'[d] = version[d]
  <2> SUFFICES ASSUME NEW s \in Socket, NEW d \in Doc, since'[s] < version'[d]
               PROVE  version'[d] = version[d]
    OBVIOUS
  <2>1. since'[s] \in Nat
    BY <1>1, <1>2 DEF clientVars
  <2>2. d # e
    BY <1>1, <1>2, <2>1
  <2> QED BY <1>1, <1>2, <2>2
<1>6. BatchInv'
  <2> SUFFICES ASSUME thread' = "handling", NEW s \in Socket, NEW d \in Doc,
                      client'[s] = "open", since'[s] < version'[d],
                      cursor' < version'[d], version'[d] <= upTo'
               PROVE  version'[d] \in todo' \/ Reaches(version[d], s)'
    BY DEF BatchInv
  <2>1. version'[d] = version[d]
    BY <1>5
  <2>2. version[d] \in todo \/ Reaches(version[d], s)
    BY <1>1, <2>1 DEF BatchInv, threadVars, clientVars
  <2> QED BY <1>1, <2>1, <2>2 DEF Reaches, threadVars, loopVars, clientVars
<1>7. NothingMissed'
  <2> SUFFICES ASSUME NEW s \in Socket, NEW d \in Doc,
                      client'[s] = "open", since'[s] < version'[d], version'[d] <= cursor'
               PROVE  Reaches(version[d], s)'
    BY DEF NothingMissed
  <2>1. version'[d] = version[d]
    BY <1>5
  <2>2. Reaches(version[d], s)
    BY <1>1, <2>1 DEF NothingMissed, threadVars, clientVars
  <2> QED BY <1>1, <2>1, <2>2 DEF Reaches, loopVars, clientVars
<1> QED BY <1>3, <1>4, <1>6, <1>7

LEMMA StartKeeps ==
    ASSUME IInv, Startup \/ CreateSubscription \/ End
    PROVE  IInv'
<1> USE DEF IInv
<1>1. /\ UNCHANGED <<docVars, cursor, loopVars, clientVars, failures>>
      /\ thread' \in {"creating", "idle", "ended"}
      /\ todo' \subseteq todo /\ upTo' \in {0, upTo}
  BY DEF Startup, CreateSubscription, End
<1>2. TypeOK'
  BY <1>1 DEF TypeOK, docVars, loopVars, clientVars
<1>3. RegisteredInv'
  BY <1>1 DEF RegisteredInv, loopVars, clientVars
<1>4. BatchInv'
  BY <1>1 DEF BatchInv
<1>5. NothingMissed'
  BY <1>1 DEF NothingMissed, Reaches, docVars, loopVars, clientVars
<1> QED BY <1>2, <1>3, <1>4, <1>5

LEMMA DeliverKeeps == ASSUME AlertFanoutAssumption, IInv, Deliver PROVE IInv'
<1> USE DEF IInv
<1>1. /\ UNCHANGED <<docVars, cursor, loopVars, clientVars, failures>>
      /\ thread' = "handling" /\ todo' = Pending /\ upTo' = raised
  BY DEF Deliver
<1>2. version \in [Doc -> 0..raised] /\ raised \in 0..MaxRaised /\ cursor \in 0..raised
  BY DEF TypeOK
<1>7. MaxRaised \in Nat
  BY DEF AlertFanoutAssumption
<1>3. TypeOK'
  <2>1. Pending \subseteq Etag
    <3> SUFFICES ASSUME NEW d \in Doc, version[d] \notin 0..cursor PROVE version[d] \in Etag
      BY DEF Pending
    <3>1. version[d] \in 0..raised
      BY <1>2
    <3> QED BY <1>2, <1>7, <3>1 DEF Etag
  <2> QED BY <1>1, <1>2, <2>1 DEF TypeOK, docVars, loopVars, clientVars
<1>4. RegisteredInv'
  BY <1>1 DEF RegisteredInv, loopVars, clientVars
<1>5. BatchInv'
  <2> SUFFICES ASSUME NEW d \in Doc, cursor' < version'[d] PROVE version'[d] \in todo'
    BY DEF BatchInv
  <2> QED BY <1>1, <1>2 DEF Pending, docVars
<1>6. NothingMissed'
  BY <1>1 DEF NothingMissed, Reaches, docVars, loopVars, clientVars
<1> QED BY <1>3, <1>4, <1>5, <1>6

LEMMA ScheduleKeeps == ASSUME IInv, Schedule PROVE IInv'
<1> USE DEF IInv
<1>1. PICK alert \in todo : scheduled' = Append(scheduled, alert) /\ todo' = todo \ {alert}
  BY DEF Schedule
<1>2. UNCHANGED <<docVars, cursor, thread, upTo, broadcasts, sockets, clientVars, failures>>
  BY DEF Schedule
<1>3. scheduled \in Seq(Etag) /\ alert \in Etag
  BY DEF TypeOK
<1>4. TypeOK'
  BY <1>1, <1>2, <1>3 DEF TypeOK, docVars, clientVars
<1>5. RegisteredInv'
  BY <1>2 DEF RegisteredInv, clientVars
<1>6. \A v : (Contains(scheduled, v) \/ v = alert) => Contains(scheduled', v)
  BY <1>1, <1>3, AppendContains
<1>7. \A s \in Socket, d \in Doc :
         Reaches(version[d], s) \/ version[d] = alert => Reaches(version[d], s)'
  BY <1>2, <1>6 DEF Reaches, docVars, clientVars
<1>8. BatchInv'
  <2> SUFFICES ASSUME thread' = "handling", NEW s \in Socket, NEW d \in Doc,
                      client'[s] = "open", since'[s] < version'[d],
                      cursor' < version'[d], version'[d] <= upTo'
               PROVE  version'[d] \in todo' \/ Reaches(version[d], s)'
    BY DEF BatchInv
  <2>1. version[d] \in todo \/ Reaches(version[d], s)
    BY <1>2 DEF BatchInv, docVars, clientVars
  <2> QED BY <1>1, <1>2, <1>7, <2>1 DEF docVars
<1>9. NothingMissed'
  <2> SUFFICES ASSUME NEW s \in Socket, NEW d \in Doc,
                      client'[s] = "open", since'[s] < version'[d], version'[d] <= cursor'
               PROVE  Reaches(version[d], s)'
    BY DEF NothingMissed
  <2>1. Reaches(version[d], s)
    BY <1>2 DEF NothingMissed, docVars, clientVars
  <2> QED BY <1>7, <2>1
<1> QED BY <1>4, <1>5, <1>8, <1>9

(* Here the batch's promise becomes the subscription's. *)
LEMMA AckKeeps == ASSUME AlertFanoutAssumption, IInv, Ack \/ AckLost PROVE IInv'
<1> USE DEF IInv
<1>1. /\ UNCHANGED <<docVars, todo, loopVars, clientVars>>
      /\ thread = "handling" /\ thread' = "idle" /\ todo = {} /\ upTo' = 0
      /\ cursor' \in {cursor, upTo} /\ failures' \in {failures, failures + 1}
      /\ failures' # failures => failures < MaxFailures
  BY DEF Ack, AckLost, BatchIsOver
<1>2. TypeOK'
  <2>1. failures' \in 0..MaxFailures
    BY <1>1 DEF TypeOK, AlertFanoutAssumption
  <2>2. cursor' \in 0..raised /\ upTo' \in 0..raised
    BY <1>1 DEF TypeOK
  <2>3. /\ raised' = raised /\ version' = version /\ todo' = todo
        /\ scheduled' = scheduled /\ broadcasts' = broadcasts /\ sockets' = sockets
        /\ client' = client /\ since' = since /\ shown' = shown
    BY <1>1 DEF docVars, loopVars, clientVars
  <2> QED BY <1>1, <2>1, <2>2, <2>3 DEF TypeOK
<1>3. RegisteredInv'
  BY <1>1 DEF RegisteredInv, loopVars, clientVars
<1>4. BatchInv'
  BY <1>1 DEF BatchInv
<1>5. NothingMissed'
  <2> SUFFICES ASSUME NEW s \in Socket, NEW d \in Doc,
                      client'[s] = "open", since'[s] < version'[d], version'[d] <= cursor'
               PROVE  Reaches(version[d], s)'
    BY DEF NothingMissed
  <2>1. /\ client[s] = "open" /\ since[s] < version[d]
        /\ version[d] <= cursor \/ version[d] <= upTo
    BY <1>1 DEF docVars, clientVars
  <2>2. version[d] \in Nat /\ cursor \in Nat
    BY DEF TypeOK
  <2>3. Reaches(version[d], s)
    BY <1>1, <2>1, <2>2 DEF BatchInv, NothingMissed
  <2> QED BY <1>1, <2>3 DEF Reaches, docVars, loopVars, clientVars
<1> QED BY <1>2, <1>3, <1>4, <1>5
-----------------------------------------------------------------------------
(* The event loop. *)

(* The copy that a broadcast goes through has every connected client in it. *)
LEMMA BeginKeeps == ASSUME IInv, Begin PROVE IInv'
<1> USE DEF IInv
<1> DEFINE new == [alert |-> Head(scheduled), left |-> sockets, failed |-> {}]
<1>1. /\ scheduled # <<>> /\ scheduled' = Tail(scheduled)
      /\ broadcasts' = Append(broadcasts, new)
      /\ UNCHANGED <<docVars, threadVars, sockets, clientVars, failures>>
  BY DEF Begin
<1>2. scheduled \in Seq(Etag) /\ broadcasts \in Seq(Broadcast) /\ sockets \subseteq Socket
  BY DEF TypeOK
<1>3. Head(scheduled) \in Etag /\ Tail(scheduled) \in Seq(Etag)
  BY <1>1, <1>2
<1>4. new \in Broadcast
  BY <1>2, <1>3 DEF Broadcast
<1>5. new.alert = Head(scheduled) /\ new.left = sockets /\ new.failed = {}
  OBVIOUS
<1> HIDE DEF new
<1>6. /\ broadcasts' \in Seq(Broadcast)
      /\ DOMAIN broadcasts' = 1..(Len(broadcasts) + 1)
      /\ \A i \in DOMAIN broadcasts : i \in DOMAIN broadcasts' /\ broadcasts'[i] = broadcasts[i]
      /\ broadcasts'[Len(broadcasts) + 1] = new
      /\ \A i \in DOMAIN broadcasts' : i \in DOMAIN broadcasts \/ broadcasts'[i] = new
  BY <1>1, <1>2, <1>4
<1>7. TypeOK'
  BY <1>1, <1>3, <1>6 DEF TypeOK, docVars, threadVars, clientVars
<1>8. RegisteredInv'
  <2>1. ASSUME NEW s \in Socket, client'[s] = "open"
        PROVE  s \in sockets' /\ \A i \in DOMAIN broadcasts' : s \notin broadcasts'[i].failed
    <3>1. s \in sockets /\ \A i \in DOMAIN broadcasts : s \notin broadcasts[i].failed
      BY <1>1, <2>1 DEF RegisteredInv, clientVars
    <3> QED BY <1>1, <1>5, <1>6, <3>1
  <2>2. ASSUME NEW s \in Socket, client'[s] = "new", NEW k \in DOMAIN broadcasts'
        PROVE  s \notin broadcasts'[k].left \cup broadcasts'[k].failed
    <3>1. /\ s \notin sockets
          /\ \A i \in DOMAIN broadcasts : s \notin broadcasts[i].left \cup broadcasts[i].failed
      BY <1>1, <2>2 DEF RegisteredInv, TypeOK, clientVars
    <3> QED BY <1>5, <1>6, <3>1
  <2> QED BY <2>1, <2>2 DEF RegisteredInv
<1>9. ASSUME NEW s \in Socket, client'[s] = "open", NEW d \in Doc, Reaches(version[d], s)
      PROVE  Reaches(version[d], s)'
  <2>1. s \in sockets
    BY <1>1, <1>9 DEF RegisteredInv, clientVars
  <2>2. version' = version /\ shown' = shown
    BY <1>1 DEF docVars, clientVars
  <2>3. CASE Contains(shown[s], version[d])
    BY <2>2, <2>3 DEF Reaches
  <2>4. CASE Contains(scheduled, version[d])
    <3>1. CASE version[d] = Head(scheduled)
      <4>1. Len(broadcasts) + 1 \in DOMAIN broadcasts'
        BY <1>2, <1>6
      <4> QED BY <1>5, <1>6, <2>1, <2>2, <3>1, <4>1 DEF Reaches
    <3>2. CASE version[d] # Head(scheduled)
      <4>1. Contains(scheduled', version[d])
        BY <1>1, <1>2, <2>4, <3>2, TailContains
      <4> QED BY <2>2, <4>1 DEF Reaches
    <3> QED BY <3>1, <3>2
  <2>5. CASE \E i \in DOMAIN broadcasts : broadcasts[i].alert = version[d] /\ s \in broadcasts[i].left
    BY <1>6, <2>2, <2>5 DEF Reaches
  <2> QED BY <1>9, <2>3, <2>4, <2>5 DEF Reaches
<1>10. BatchInv' /\ NothingMissed'
  <2>1. client' = client /\ since' = since /\ UNCHANGED <<docVars, threadVars>>
    BY <1>1 DEF clientVars
  <2> QED BY <1>9, <2>1, ReachKept
<1> QED BY <1>7, <1>8, <1>10

(* A connected client that leaves the copy has received the alert. *)
LEMMA SendKeeps ==
    ASSUME IInv, NEW i \in DOMAIN broadcasts, NEW t \in Socket, NEW raises \in BOOLEAN,
           Send(i, t, raises)
    PROVE  IInv'
<1> USE DEF IInv
<1> DEFINE b == broadcasts[i]
           sent == [b EXCEPT !.left = @ \ {t}, !.failed = IF raises THEN @ \cup {t} ELSE @]
<1>1. /\ t \in b.left /\ (client[t] = "open" => ~raises)
      /\ shown' = IF client[t] = "open" THEN [shown EXCEPT ![t] = Append(@, b.alert)] ELSE shown
      /\ UNCHANGED <<docVars, threadVars, scheduled, sockets, client, since, failures>>
  BY DEF Send
<1>2. broadcasts \in Seq(Broadcast) /\ b \in Broadcast /\ shown \in [Socket -> Seq(Etag)]
  BY DEF TypeOK
<1>3. /\ sent \in Broadcast /\ sent.alert = b.alert /\ sent.left = b.left \ {t}
      /\ sent.failed = IF raises THEN b.failed \cup {t} ELSE b.failed
  BY <1>2 DEF Broadcast
<1>4. broadcasts' = [broadcasts EXCEPT ![i] = sent]
  BY DEF Send
<1>5. b.alert \in Etag
  BY <1>2 DEF Broadcast
<1> HIDE DEF sent
<1>6. /\ broadcasts' \in Seq(Broadcast) /\ DOMAIN broadcasts' = DOMAIN broadcasts
      /\ broadcasts'[i] = sent
      /\ \A j \in DOMAIN broadcasts : j # i => broadcasts'[j] = broadcasts[j]
  BY <1>2, <1>3, <1>4
<1>7. /\ shown' \in [Socket -> Seq(Etag)]
      /\ client[t] = "open" => shown'[t] = Append(shown[t], b.alert)
      /\ \A s \in Socket : s # t => shown'[s] = shown[s]
  BY <1>1, <1>2, <1>5
<1>8. TypeOK'
  BY <1>1, <1>6, <1>7 DEF TypeOK, docVars, threadVars
<1>9. RegisteredInv'
  <2>1. ASSUME NEW s \in Socket, client'[s] = "open"
        PROVE  s \in sockets' /\ \A j \in DOMAIN broadcasts' : s \notin broadcasts'[j].failed
    <3>1. s \in sockets /\ \A j \in DOMAIN broadcasts : s \notin broadcasts[j].failed
      BY <1>1, <2>1 DEF RegisteredInv
    <3>2. s \notin sent.failed
      BY <1>1, <1>3, <2>1, <3>1
    <3> QED BY <1>1, <1>6, <3>1, <3>2
  <2>2. ASSUME NEW s \in Socket, client'[s] = "new", NEW j \in DOMAIN broadcasts'
        PROVE  s \notin broadcasts'[j].left \cup broadcasts'[j].failed
    <3>1. \A k \in DOMAIN broadcasts : s \notin broadcasts[k].left \cup broadcasts[k].failed
      BY <1>1, <2>2 DEF RegisteredInv
    <3>2. s \notin sent.left \cup sent.failed
      BY <1>1, <1>3, <3>1
    <3> QED BY <1>6, <3>1, <3>2
  <2> QED BY <2>1, <2>2 DEF RegisteredInv
<1>10. ASSUME NEW s \in Socket, client'[s] = "open", NEW d \in Doc, Reaches(version[d], s)
       PROVE  Reaches(version[d], s)'
  <2>1. version' = version /\ scheduled' = scheduled /\ client[s] = "open"
    BY <1>1, <1>10 DEF docVars
  <2>2. CASE Contains(shown[s], version[d])
    <3>1. shown[s] \in Seq(Etag)
      BY <1>2
    <3>2. Contains(shown'[s], version[d])
      <4>1. CASE s = t
        <5>1. Contains(Append(shown[s], b.alert), version[d])
          BY <1>5, <2>2, <3>1, AppendContains
        <5> QED BY <1>7, <2>1, <4>1, <5>1
      <4>2. CASE s # t
        BY <1>7, <2>2, <4>2
      <4> QED BY <4>1, <4>2
    <3> QED BY <2>1, <3>2 DEF Reaches
  <2>3. CASE Contains(scheduled, version[d])
    BY <2>1, <2>3 DEF Reaches
  <2>4. CASE \E j \in DOMAIN broadcasts : broadcasts[j].alert = version[d] /\ s \in broadcasts[j].left
    <3>1. PICK j \in DOMAIN broadcasts : broadcasts[j].alert = version[d] /\ s \in broadcasts[j].left
      BY <2>4
    <3>2. CASE j = i /\ s = t
      <4>1. Contains(shown'[s], version[d])
        <5>1. shown[s] \in Seq(Etag)
          BY <1>2
        <5>2. Contains(Append(shown[s], b.alert), b.alert)
          BY <1>5, <5>1, AppendContains
        <5> QED BY <1>7, <2>1, <3>1, <3>2, <5>2
      <4> QED BY <2>1, <4>1 DEF Reaches
    <3>3. CASE j = i /\ s # t
      <4>1. broadcasts'[i].alert = version[d] /\ s \in broadcasts'[i].left
        BY <1>3, <1>6, <3>1, <3>3
      <4> QED BY <1>6, <2>1, <4>1 DEF Reaches
    <3>4. CASE j # i
      BY <1>6, <2>1, <3>1, <3>4 DEF Reaches
    <3> QED BY <3>2, <3>3, <3>4
  <2> QED BY <1>10, <2>2, <2>3, <2>4 DEF Reaches
<1>11. BatchInv' /\ NothingMissed'
  <2>1. client' = client /\ since' = since /\ UNCHANGED <<docVars, threadVars>>
    BY <1>1
  <2> QED BY <1>10, <2>1, ReachKept
<1> QED BY <1>8, <1>9, <1>11

(* What a broadcast discards when it ends is not connected. *)
LEMMA FinishKeeps ==
    ASSUME IInv, NEW i \in DOMAIN broadcasts, Finish(i)
    PROVE  IInv'
<1> USE DEF IInv
<1>1. /\ broadcasts[i].left = {} /\ broadcasts' = RemoveAt(broadcasts, i)
      /\ sockets' = sockets \ broadcasts[i].failed
      /\ UNCHANGED <<docVars, threadVars, scheduled, clientVars, failures>>
  BY DEF Finish
<1>2. broadcasts \in Seq(Broadcast)
  BY DEF TypeOK
<1>3. /\ broadcasts' \in Seq(Broadcast)
      /\ \A k \in DOMAIN broadcasts' : \E j \in DOMAIN broadcasts : broadcasts'[k] = broadcasts[j]
      /\ \A j \in DOMAIN broadcasts \ {i} : \E k \in DOMAIN broadcasts' : broadcasts'[k] = broadcasts[j]
  BY <1>1, <1>2, RemoveAtElements
<1>4. TypeOK'
  BY <1>1, <1>3 DEF TypeOK, docVars, threadVars, clientVars
<1>5. RegisteredInv'
  BY <1>1, <1>3 DEF RegisteredInv, clientVars
<1>6. ASSUME NEW s \in Socket, NEW d \in Doc, Reaches(version[d], s)
      PROVE  Reaches(version[d], s)'
  BY <1>1, <1>3, <1>6 DEF Reaches, docVars, clientVars
<1>7. BatchInv' /\ NothingMissed'
  <2>1. client' = client /\ since' = since /\ UNCHANGED <<docVars, threadVars>>
    BY <1>1 DEF clientVars
  <2> QED BY <1>6, <2>1, ReachKept
<1> QED BY <1>4, <1>5, <1>7
-----------------------------------------------------------------------------
(* Sockets and the process. *)

(* What a new client must be shown has not been raised yet. *)
LEMMA ConnectKeeps == ASSUME IInv, NEW t \in Socket, Connect(t) PROVE IInv'
<1> USE DEF IInv
<1>1. /\ client' = [client EXCEPT ![t] = "open"]
      /\ since' = [since EXCEPT ![t] = raised]
      /\ sockets' = sockets \cup {t}
      /\ UNCHANGED <<docVars, threadVars, scheduled, broadcasts, shown, failures>>
  BY DEF Connect
<1>2. /\ client \in [Socket -> {"new", "open", "gone", "over"}]
      /\ since \in [Socket -> 0..raised] /\ version \in [Doc -> 0..raised] /\ raised \in Nat
  BY DEF TypeOK
<1>3. TypeOK'
  <2>1. client' \in [Socket -> {"new", "open", "gone", "over"}] /\ since' \in [Socket -> 0..raised]
    BY <1>1, <1>2
  <2>2. \A s \in sockets' : client'[s] \in {"open", "gone"}
    BY <1>1, <1>2 DEF TypeOK
  <2> QED BY <1>1, <2>1, <2>2 DEF TypeOK, docVars, threadVars
<1>4. RegisteredInv'
  <2>1. client[t] = "new"
    BY DEF Connect
  <2>2. \A i \in DOMAIN broadcasts : t \notin broadcasts[i].failed
    BY <2>1 DEF RegisteredInv
  <2> QED BY <1>1, <1>2, <2>1, <2>2 DEF RegisteredInv
<1>5. \A d \in Doc : ~(since'[t] < version'[d])
  BY <1>1, <1>2 DEF docVars
<1>6. ASSUME NEW s \in Socket, s # t
      PROVE  client'[s] = client[s] /\ since'[s] = since[s]
  BY <1>1, <1>2, <1>6
<1>7. BatchInv'
  BY <1>1, <1>5, <1>6 DEF BatchInv, Reaches, docVars, threadVars
<1>8. NothingMissed'
  BY <1>1, <1>5, <1>6 DEF NothingMissed, Reaches, docVars, threadVars
<1> QED BY <1>3, <1>4, <1>7, <1>8

LEMMA LeaveKeeps ==
    ASSUME IInv, NEW t \in Socket, Leave(t) \/ Disconnect(t)
    PROVE  IInv'
<1> USE DEF IInv
<1>1. /\ client[t] \in {"open", "gone"}
      /\ client' = [client EXCEPT ![t] = IF client[t] = "open" THEN "gone" ELSE "over"]
      /\ since' \in {since, [since EXCEPT ![t] = 0]}
      /\ shown' \in {shown, [shown EXCEPT ![t] = <<>>]}
      /\ \/ sockets' = sockets /\ client[t] = "open"
         \/ sockets' = sockets \ {t}
      /\ UNCHANGED <<docVars, threadVars, scheduled, broadcasts, failures>>
  BY DEF Leave, Disconnect, loopVars
<1>2. /\ client \in [Socket -> {"new", "open", "gone", "over"}]
      /\ since \in [Socket -> 0..raised] /\ shown \in [Socket -> Seq(Etag)]
      /\ raised \in Nat /\ sockets \subseteq Socket
  BY DEF TypeOK
<1>3. TypeOK'
  <2>1. client' \in [Socket -> {"new", "open", "gone", "over"}]
    BY <1>1, <1>2
  <2>4. since' \in [Socket -> 0..raised]
    <3>1. [since EXCEPT ![t] = 0] \in [Socket -> 0..raised]
      BY <1>2
    <3> QED BY <1>1, <1>2, <3>1
  <2>2. shown' \in [Socket -> Seq(Etag)]
    <3>1. [shown EXCEPT ![t] = <<>>] \in [Socket -> Seq(Etag)]
      BY <1>2
    <3> QED BY <1>1, <1>2, <3>1
  <2>3. \A s \in sockets' : client'[s] \in {"open", "gone"}
    BY <1>1, <1>2 DEF TypeOK
  <2> QED BY <1>1, <1>2, <2>1, <2>2, <2>3, <2>4 DEF TypeOK, docVars, threadVars
<1>4. \A s \in Socket :
         /\ client'[s] = "open" =>
               s # t /\ client[s] = "open" /\ since'[s] = since[s] /\ shown'[s] = shown[s]
         /\ client'[s] = "new" => client[s] = "new"
  BY <1>1, <1>2
<1>5. RegisteredInv'
  BY <1>1, <1>4 DEF RegisteredInv
<1>6. BatchInv' /\ NothingMissed'
  <2>1. ASSUME NEW s \in Socket, client'[s] = "open", NEW d \in Doc, Reaches(version[d], s)
        PROVE  Reaches(version[d], s)'
    BY <1>1, <1>4, <2>1 DEF Reaches, docVars
  <2>2. UNCHANGED <<docVars, threadVars>>
    BY <1>1
  <2> QED BY <1>4, <2>1, <2>2, ReachKept
<1> QED BY <1>3, <1>5, <1>6

LEMMA RestartKeeps ==
    ASSUME AlertFanoutAssumption, IInv, NEW newPod \in BOOLEAN, Restart(newPod)
    PROVE  IInv'
<1> USE DEF IInv
<1>1. TypeOK'
  <2>1. failures' \in 0..MaxFailures
    BY DEF Restart, TypeOK, AlertFanoutAssumption
  <2>2. client' \in [Socket -> {"new", "open", "gone", "over"}]
    BY DEF Restart
  <2>3. since' \in [Socket -> 0..raised] /\ cursor' \in 0..raised
    BY DEF Restart, TypeOK
  <2>4. shown' \in [Socket -> Seq(Etag)] /\ scheduled' \in Seq(Etag) /\ broadcasts' \in Seq(Broadcast)
    BY DEF Restart
  <2> QED BY <2>1, <2>2, <2>3, <2>4 DEF Restart, TypeOK, docVars
<1>2. \A s \in Socket : client'[s] # "open"
  BY DEF Restart
<1>3. RegisteredInv' /\ BatchInv' /\ NothingMissed'
  <2>1. DOMAIN broadcasts' = {}
    BY DEF Restart
  <2> QED BY <1>2, <2>1 DEF RegisteredInv, BatchInv, NothingMissed
<1> QED BY <1>1, <1>3

LEMMA StutterKeeps == ASSUME IInv, UNCHANGED vars PROVE IInv'
<1> USE DEF IInv, vars, docVars, threadVars, loopVars, clientVars
<1>1. TypeOK' /\ RegisteredInv'
  BY DEF TypeOK, RegisteredInv
<1>2. BatchInv' /\ NothingMissed'
  BY DEF BatchInv, NothingMissed, Reaches
<1> QED BY <1>1, <1>2
-----------------------------------------------------------------------------
LEMMA Inductive == ASSUME AlertFanoutAssumption PROVE Spec => []IInv
<1>1. Init => IInv
  BY InitIInv
<1>2. IInv /\ [Next]_vars => IInv'
  <2> SUFFICES ASSUME IInv, [Next]_vars PROVE IInv'
    OBVIOUS
  <2>1. CASE \E d \in Doc : Raise(d) \/ Expire(d)
    BY <2>1, RaiseKeeps, ExpireKeeps
  <2>2. CASE Thread \/ End \/ AckLost
    BY <2>2, StartKeeps, DeliverKeeps, ScheduleKeeps, AckKeeps DEF Thread
  <2>3. CASE Loop
    BY <2>3, BeginKeeps, SendKeeps, FinishKeeps DEF Loop
  <2>4. CASE \E s \in Socket : Connect(s) \/ Leave(s) \/ Disconnect(s)
    BY <2>4, ConnectKeeps, LeaveKeeps
  <2>5. CASE \E newPod \in BOOLEAN : Restart(newPod)
    BY <2>5, RestartKeeps
  <2>6. CASE UNCHANGED vars
    BY <2>6, StutterKeeps
  <2> QED BY <2>1, <2>2, <2>3, <2>4, <2>5, <2>6 DEF Next
<1> QED BY <1>1, <1>2, PTL DEF Spec

(* The state of a pod's fan-out stays within its types, and a socket that the set holds is
   one whose handler has not discarded it (app.py:170-182). *)
THEOREM TypeCorrect == Spec => []TypeOK
<1>1. Spec => []IInv
  BY AlertFanoutAssumption, Inductive
<1>2. IInv => TypeOK
  BY DEF IInv
<1> QED BY <1>1, <1>2, PTL

(* However many browsers come and go under however many broadcasts, and whatever sends
   fail, acknowledgements are lost or processes restart: an alert that the pod has
   acknowledged has reached, or will, each browser that was connected before it was raised
   and still is (_broadcast_alert's copy, its except clause, and what it discards after). *)
THEOREM NothingIsMissed == Spec => []NothingMissed
<1>1. Spec => []IInv
  BY AlertFanoutAssumption, Inductive
<1>2. IInv => NothingMissed
  BY DEF IInv
<1> QED BY <1>1, <1>2, PTL
-----------------------------------------------------------------------------
(* An alert is counted wherever it is on its way to a browser: scheduled, in a broadcast
   that has the browser's socket left, or shown. *)

(* How often a sequence has an element of T. *)
Places(q, T) == {i \in DOMAIN q : q[i] \in T}
Count(q, T) == Cardinality(Places(q, T))
One(P) == IF P THEN 1 ELSE 0

(* The broadcasts that have the alert v for the socket s. *)
Carrying(s, v) == {b \in Broadcast : b.alert = v /\ s \in b.left}

Copies(s, v) ==
    Count(shown[s], {v}) + Count(scheduled, {v}) + Count(broadcasts, Carrying(s, v))

(* The subscription will not deliver v again, or not before a batch that had it is
   acknowledged or given up. *)
Handed(v) ==
    \/ v <= cursor
    \/ thread = "ended"
    \/ thread = "handling" /\ v <= upTo /\ v \notin todo

(* A batch goes on from the acknowledged alerts, and acknowledges all that it has. *)
BatchShape ==
    /\ \A v \in todo : cursor < v /\ v <= upTo
    /\ thread = "handling" => cursor <= upTo

CopiesInv ==
    /\ BatchShape
    /\ \A s \in Socket : \A v \in Etag : Copies(s, v) <= failures + One(Handed(v))
-----------------------------------------------------------------------------
(* Counting. *)

LEMMA PlacesFinite ==
    ASSUME NEW S, NEW q \in Seq(S), NEW T
    PROVE  IsFiniteSet(Places(q, T)) /\ Count(q, T) \in Nat
<1>1. IsFiniteSet(1..Len(q))
  BY FS_Interval
<1>2. Places(q, T) \in SUBSET (1..Len(q))
  BY DEF Places
<1>3. IsFiniteSet(Places(q, T))
  BY <1>1, <1>2, FS_Subset
<1> QED BY <1>3, FS_CardinalityType DEF Count

(* A sequence has no more such elements than another one in which all of them have a place. *)
LEMMA CountInto ==
    ASSUME NEW S, NEW q \in Seq(S), NEW r \in Seq(S), NEW T, NEW P,
           P \subseteq Places(q, T), NEW f \in Injection(Places(r, T), P)
    PROVE  Count(r, T) <= Cardinality(P)
<1>1. IsFiniteSet(P)
  BY PlacesFinite, FS_Subset
<1> QED BY <1>1, FS_Injection DEF Count

LEMMA CountEmpty == \A T : Count(<<>>, T) = 0
<1> SUFFICES ASSUME NEW T PROVE Count(<<>>, T) = 0
  OBVIOUS
<1>1. Places(<<>>, T) = {}
  BY DEF Places
<1> QED BY <1>1, FS_EmptySet DEF Count

LEMMA CountAppend ==
    ASSUME NEW S, NEW q \in Seq(S), NEW e \in S, NEW T
    PROVE  Count(Append(q, e), T) <= Count(q, T) + One(e \in T)
<1> DEFINE r == Append(q, e)
           n == Len(q) + 1
<1>1. r \in Seq(S) /\ DOMAIN r = 1..n /\ n \in Nat /\ DOMAIN q = 1..Len(q) /\ Len(q) \in Nat
  OBVIOUS
<1>2. r[n] = e /\ \A i \in 1..Len(q) : r[i] = q[i]
  OBVIOUS
<1> HIDE DEF r
<1>3. Places(r, T) \subseteq Places(q, T) \cup {n}
  BY <1>1, <1>2 DEF Places
<1>4. IsFiniteSet(Places(q, T)) /\ Count(q, T) \in Nat
  BY PlacesFinite
<1>5. CASE e \in T
  <2>1. n \notin Places(q, T)
    BY <1>1 DEF Places
  <2>2. IsFiniteSet(Places(q, T) \cup {n})
        /\ Cardinality(Places(q, T) \cup {n}) = Count(q, T) + 1
    BY <1>4, <2>1, FS_AddElement DEF Count
  <2>3. Cardinality(Places(r, T)) <= Cardinality(Places(q, T) \cup {n})
    BY <1>3, <2>2, FS_Subset
  <2>4. One(e \in T) = 1
    BY <1>5 DEF One
  <2> QED BY <2>2, <2>3, <2>4 DEF Count, r
<1>6. CASE e \notin T
  <2>1. Places(r, T) \subseteq Places(q, T)
    BY <1>2, <1>3, <1>6 DEF Places
  <2>2. Cardinality(Places(r, T)) <= Cardinality(Places(q, T))
    BY <1>4, <2>1, FS_Subset
  <2>3. One(e \in T) = 0
    BY <1>6 DEF One
  <2> QED BY <1>4, <2>2, <2>3 DEF Count, r
<1> QED BY <1>5, <1>6

LEMMA CountTail ==
    ASSUME NEW S, NEW q \in Seq(S), q # <<>>, NEW T
    PROVE  Count(Tail(q), T) + One(Head(q) \in T) <= Count(q, T)
<1> DEFINE r == Tail(q)
<1>1. /\ r \in Seq(S) /\ DOMAIN r = 1..(Len(q) - 1) /\ DOMAIN q = 1..Len(q)
      /\ Len(q) \in Nat /\ Len(q) >= 1 /\ q[1] = Head(q)
      /\ \A i \in 1..(Len(q) - 1) : r[i] = q[i + 1]
  OBVIOUS
<1> HIDE DEF r
<1> DEFINE rest == Places(q, T) \ {1}
           f == [i \in Places(r, T) |-> i + 1]
<1>2. f \in Injection(Places(r, T), rest)
  <2>1. \A i \in Places(r, T) : i \in Nat /\ i + 1 \in rest
    BY <1>1 DEF Places
  <2>2. \A i, j \in Places(r, T) : f[i] = f[j] => i = j
    BY <2>1
  <2> QED BY <2>1, <2>2 DEF Injection, IsInjective
<1>3. Count(r, T) <= Cardinality(rest)
  <2>1. rest \subseteq Places(q, T)
    OBVIOUS
  <2> HIDE DEF rest, f
  <2> QED BY <1>1, <1>2, <2>1, CountInto
<1>4. /\ Count(q, T) \in Nat /\ Count(r, T) \in Nat
      /\ Cardinality(rest) = IF 1 \in Places(q, T) THEN Count(q, T) - 1 ELSE Count(q, T)
  BY <1>1, PlacesFinite, FS_RemoveElement DEF Count
<1>5. 1 \in Places(q, T) <=> Head(q) \in T
  BY <1>1 DEF Places
<1> QED BY <1>3, <1>4, <1>5 DEF One, r

LEMMA CountRemoveAt ==
    ASSUME NEW S, NEW q \in Seq(S), NEW i \in DOMAIN q, NEW T
    PROVE  Count(RemoveAt(q, i), T) <= Count(q, T)
<1> DEFINE r == RemoveAt(q, i)
<1>1. /\ r \in Seq(S) /\ DOMAIN r = 1..(Len(q) - 1)
      /\ \A k \in 1..(Len(q) - 1) : r[k] = IF k < i THEN q[k] ELSE q[k + 1]
  BY RemoveAtShape
<1>2. Len(q) \in Nat /\ DOMAIN q = 1..Len(q) /\ i \in 1..Len(q)
  OBVIOUS
<1> HIDE DEF r
<1> DEFINE f == [k \in Places(r, T) |-> IF k < i THEN k ELSE k + 1]
<1>3. f \in Injection(Places(r, T), Places(q, T))
  <2>1. \A k \in Places(r, T) : k \in 1..(Len(q) - 1) /\ r[k] \in T
    BY <1>1 DEF Places
  <2>2. \A k \in Places(r, T) : f[k] \in Places(q, T)
    <3> SUFFICES ASSUME NEW k \in Places(r, T) PROVE f[k] \in Places(q, T)
      OBVIOUS
    <3>1. CASE k < i
      BY <1>1, <1>2, <2>1, <3>1 DEF Places
    <3>2. CASE ~(k < i)
      BY <1>1, <1>2, <2>1, <3>2 DEF Places
    <3> QED BY <3>1, <3>2
  <2>3. \A k, l \in Places(r, T) : f[k] = f[l] => k = l
    BY <1>2, <2>1
  <2> QED BY <2>2, <2>3 DEF Injection, IsInjective
<1>4. Count(r, T) <= Cardinality(Places(q, T))
  <2> HIDE DEF f
  <2> QED BY <1>1, <1>3, CountInto
<1> QED BY <1>4 DEF Count, r

(* An element that is replaced by one that does not count, if it counted, is one fewer. *)
LEMMA CountReplace ==
    ASSUME NEW S, NEW q \in Seq(S), NEW i \in DOMAIN q, NEW e \in S, NEW T,
           e \in T => q[i] \in T
    PROVE  Count([q EXCEPT ![i] = e], T) + One(q[i] \in T /\ e \notin T) <= Count(q, T)
<1> DEFINE r == [q EXCEPT ![i] = e]
<1>1. r \in Seq(S) /\ DOMAIN r = DOMAIN q /\ r[i] = e /\ \A j \in DOMAIN q : j # i => r[j] = q[j]
  OBVIOUS
<1> HIDE DEF r
<1>2. IsFiniteSet(Places(q, T)) /\ Count(q, T) \in Nat /\ Count(r, T) \in Nat
  BY <1>1, PlacesFinite
<1>3. CASE q[i] \in T /\ e \notin T
  <2>1. Places(r, T) \subseteq Places(q, T) \ {i}
    BY <1>1, <1>3 DEF Places
  <2>2. i \in Places(q, T)
    BY <1>3 DEF Places
  <2>3. IsFiniteSet(Places(q, T) \ {i}) /\ Cardinality(Places(q, T) \ {i}) = Count(q, T) - 1
    BY <1>2, <2>2, FS_RemoveElement DEF Count
  <2>4. Count(r, T) <= Count(q, T) - 1
    BY <2>1, <2>3, FS_Subset DEF Count
  <2>5. One(q[i] \in T /\ e \notin T) = 1
    BY <1>3 DEF One
  <2> QED BY <1>2, <2>4, <2>5 DEF r
<1>4. CASE ~(q[i] \in T /\ e \notin T)
  <2>1. Places(r, T) \subseteq Places(q, T)
    BY <1>1, <1>4 DEF Places
  <2>2. Count(r, T) <= Count(q, T)
    BY <1>2, <2>1, FS_Subset DEF Count
  <2>3. One(q[i] \in T /\ e \notin T) = 0
    BY <1>4 DEF One
  <2> QED BY <1>2, <2>2, <2>3 DEF r
<1> QED BY <1>3, <1>4
-----------------------------------------------------------------------------
(* What CopiesInv is about, in numbers. *)
LEMMA Numbers ==
    ASSUME TypeOK, NEW s \in Socket, NEW v \in Etag
    PROVE  /\ Count(shown[s], {v}) \in Nat
           /\ Count(scheduled, {v}) \in Nat
           /\ Count(broadcasts, Carrying(s, v)) \in Nat
           /\ Copies(s, v) \in Nat
<1>1. shown[s] \in Seq(Etag) /\ scheduled \in Seq(Etag) /\ broadcasts \in Seq(Broadcast)
  BY DEF TypeOK
<1>2. Count(shown[s], {v}) \in Nat /\ Count(scheduled, {v}) \in Nat
  BY <1>1, PlacesFinite
<1>3. Count(broadcasts, Carrying(s, v)) \in Nat
  BY <1>1, PlacesFinite
<1> QED BY <1>2, <1>3 DEF Copies

(* The bound outlives a step of the event loop that adds no copy. *)
LEMMA CopiesKept ==
    ASSUME TypeOK, TypeOK', CopiesInv, UNCHANGED <<threadVars, failures>>,
           \A s \in Socket : \A v \in Etag : Copies(s, v)' <= Copies(s, v)
    PROVE  CopiesInv'
<1>1. \A v \in Etag : One(Handed(v))' = One(Handed(v)) /\ One(Handed(v)) \in {0, 1}
  BY DEF One, Handed, threadVars
<1>2. failures' = failures /\ failures \in Nat /\ todo' = todo /\ upTo' = upTo
  BY DEF TypeOK, threadVars
<1>3. ASSUME NEW s \in Socket, NEW v \in Etag
      PROVE  Copies(s, v)' <= failures' + One(Handed(v))'
  <2>1. Copies(s, v) \in Nat /\ Copies(s, v)' \in Nat
    <3>1. /\ (shown[s])' \in Seq(Etag) /\ scheduled' \in Seq(Etag)
          /\ broadcasts' \in Seq(Broadcast)
      BY DEF TypeOK
    <3>2. Count((shown[s])', {v}) \in Nat /\ Count(scheduled', {v}) \in Nat
      BY <3>1, PlacesFinite
    <3>3. Count(broadcasts', Carrying(s, v)) \in Nat
      BY <3>1, PlacesFinite
    <3> QED BY <3>2, <3>3, Numbers DEF Copies
  <2>2. Copies(s, v) <= failures + One(Handed(v))
    BY DEF CopiesInv
  <2> QED BY <1>1, <1>2, <2>1, <2>2
<1>4. BatchShape'
  BY DEF CopiesInv, BatchShape, threadVars
<1> QED BY <1>3, <1>4 DEF CopiesInv

(* The bound outlives a step of the thread that hands nothing over. *)
LEMMA HandedKept ==
    ASSUME TypeOK, CopiesInv, UNCHANGED <<loopVars, clientVars>>,
           failures' \in Nat, failures' >= failures,
           BatchShape',
           \A v \in Etag : failures' = failures => (Handed(v) => Handed(v)')
    PROVE  CopiesInv'
<1>1. failures \in Nat
  BY DEF TypeOK
<1>2. ASSUME NEW s \in Socket, NEW v \in Etag
      PROVE  Copies(s, v)' <= failures' + One(Handed(v))'
  <2>1. Copies(s, v)' = Copies(s, v)
    BY DEF Copies, loopVars, clientVars
  <2>2. Copies(s, v) <= failures + One(Handed(v)) /\ Copies(s, v) \in Nat
    BY Numbers DEF CopiesInv
  <2>3. One(Handed(v)) \in {0, 1} /\ One(Handed(v))' \in {0, 1}
    BY DEF One
  <2>4. CASE failures' = failures
    <3>1. One(Handed(v)) <= One(Handed(v))'
      <4>1. Handed(v) => Handed(v)'
        BY <2>4
      <4> QED BY <4>1 DEF One
    <3> QED BY <1>1, <2>1, <2>2, <2>3, <2>4, <3>1
  <2>5. CASE failures' > failures
    BY <1>1, <2>1, <2>2, <2>3, <2>5
  <2> QED BY <1>1, <2>4, <2>5
<1> QED BY <1>2 DEF CopiesInv
-----------------------------------------------------------------------------
LEMMA RaiseCopies ==
    ASSUME IInv, CopiesInv, NEW d \in Doc, Raise(d) \/ Expire(d)
    PROVE  CopiesInv'
<1>1. UNCHANGED <<threadVars, loopVars, clientVars, failures>>
  BY DEF Raise, Expire
<1>2. TypeOK /\ failures \in Nat
  BY DEF IInv, TypeOK
<1>3. BatchShape'
  BY <1>1 DEF CopiesInv, BatchShape, threadVars
<1>4. \A v \in Etag : Handed(v) => Handed(v)'
  BY <1>1 DEF Handed, threadVars
<1> QED BY <1>1, <1>2, <1>3, <1>4, HandedKept

LEMMA ThreadCopies ==
    ASSUME AlertFanoutAssumption, IInv, IInv', CopiesInv,
           Startup \/ CreateSubscription \/ End \/ Deliver \/ Ack \/ AckLost
    PROVE  CopiesInv'
<1>1. UNCHANGED <<loopVars, clientVars>>
  BY DEF Startup, CreateSubscription, End, Deliver, Ack, AckLost, BatchIsOver
<1>2. /\ TypeOK /\ failures \in Nat /\ failures' \in Nat
      /\ cursor \in 0..raised /\ upTo \in Nat /\ raised \in Nat /\ todo \subseteq Etag
      /\ version \in [Doc -> 0..raised]
  BY DEF IInv, TypeOK
<1>3. failures' >= failures
  BY <1>2 DEF Startup, CreateSubscription, End, Deliver, Ack, AckLost
<1>4. BatchShape'
  <2>1. CASE Deliver
    <3>1. \A v \in Pending : cursor < v /\ v <= raised
      BY <1>2 DEF Pending
    <3> QED BY <1>2, <2>1, <3>1 DEF Deliver, BatchShape
  <2>2. CASE End \/ Ack \/ AckLost
    BY <2>2 DEF End, Ack, AckLost, BatchIsOver, BatchShape
  <2>3. CASE Startup \/ CreateSubscription
    BY <2>3 DEF Startup, CreateSubscription, CopiesInv, BatchShape
  <2> QED BY <2>1, <2>2, <2>3
<1>5. \A v \in Etag : failures' = failures => (Handed(v) => Handed(v)')
  <2> SUFFICES ASSUME NEW v \in Etag, failures' = failures, Handed(v) PROVE Handed(v)'
    OBVIOUS
  <2>1. v \in Nat
    BY DEF Etag
  <2>2. CASE Startup \/ CreateSubscription \/ Deliver
    BY <2>2 DEF Startup, CreateSubscription, Deliver, Handed
  <2>3. CASE End
    BY <2>3 DEF End, Handed
  <2>4. CASE Ack
    <3>1. cursor' = upTo /\ thread = "handling"
      BY <2>4 DEF Ack, BatchIsOver
    <3>2. v <= cursor => v <= upTo
      BY <1>2, <2>1, <3>1 DEF CopiesInv, BatchShape
    <3> QED BY <3>1, <3>2 DEF Handed
  <2>5. CASE AckLost
    BY <1>2, <2>5 DEF AckLost
  <2> QED BY <2>2, <2>3, <2>4, <2>5
<1> QED BY <1>1, <1>2, <1>3, <1>4, <1>5, HandedKept

(* An alert that is scheduled was still to be handed over. *)
LEMMA ScheduleCopies == ASSUME IInv, IInv', CopiesInv, Schedule PROVE CopiesInv'
<1>1. PICK alert \in todo : scheduled' = Append(scheduled, alert) /\ todo' = todo \ {alert}
  BY DEF Schedule
<1>2. /\ UNCHANGED <<docVars, cursor, thread, upTo, broadcasts, sockets, clientVars, failures>>
      /\ thread = "handling"
  BY DEF Schedule
<1>3. /\ TypeOK /\ scheduled \in Seq(Etag) /\ alert \in Etag /\ failures \in Nat
      /\ cursor \in Nat /\ upTo \in Nat
  BY DEF IInv, TypeOK
<1>4. BatchShape'
  BY <1>1, <1>2 DEF CopiesInv, BatchShape
<1>5. ASSUME NEW s \in Socket, NEW v \in Etag
      PROVE  Copies(s, v)' <= failures' + One(Handed(v))'
  <2>1. Count(scheduled', {v}) <= Count(scheduled, {v}) + One(alert \in {v})
    BY <1>1, <1>3, CountAppend
  <2>2. /\ Count(shown[s], {v})' = Count(shown[s], {v})
        /\ Count(broadcasts, Carrying(s, v))' = Count(broadcasts, Carrying(s, v))
    BY <1>2 DEF clientVars
  <2>3. Count(scheduled', {v}) \in Nat
    <3>1. scheduled' \in Seq(Etag)
      BY <1>1, <1>3
    <3> QED BY <3>1, PlacesFinite
  <2>4. /\ Count(shown[s], {v}) \in Nat /\ Count(scheduled, {v}) \in Nat
        /\ Count(broadcasts, Carrying(s, v)) \in Nat
    BY <1>3, Numbers
  <2>5. Copies(s, v)' <= Copies(s, v) + One(alert = v)
    <3>1. One(alert \in {v}) = One(alert = v) /\ One(alert = v) \in {0, 1}
      BY DEF One
    <3> QED BY <2>1, <2>2, <2>3, <2>4, <3>1 DEF Copies
  <2>6. Copies(s, v) <= failures + One(Handed(v))
    BY DEF CopiesInv
  <2>7. Copies(s, v) \in Nat /\ Copies(s, v)' \in Nat
    BY <2>2, <2>3, <2>4 DEF Copies
  <2>8. One(alert = v) + One(Handed(v)) <= One(Handed(v))'
    <3>1. CASE alert = v
      <4>3. v \in Nat
        BY DEF Etag
      <4>1. ~Handed(v)
        BY <1>1, <1>2, <1>3, <3>1, <4>3 DEF Handed, CopiesInv, BatchShape
      <4>2. Handed(v)'
        BY <1>1, <1>2, <3>1 DEF Handed, CopiesInv, BatchShape
      <4> QED BY <3>1, <4>1, <4>2 DEF One
    <3>2. CASE alert # v
      <4>1. Handed(v) => Handed(v)'
        BY <1>1, <1>2, <3>2 DEF Handed
      <4> QED BY <3>2, <4>1 DEF One
    <3> QED BY <3>1, <3>2
  <2>9. One(alert = v) \in {0, 1} /\ One(Handed(v)) \in {0, 1} /\ One(Handed(v))' \in {0, 1}
    BY DEF One
  <2> QED BY <1>2, <1>3, <2>5, <2>6, <2>7, <2>8, <2>9
<1> QED BY <1>4, <1>5 DEF CopiesInv
-----------------------------------------------------------------------------
(* The event loop adds no copy. *)

LEMMA BeginCopies == ASSUME IInv, IInv', CopiesInv, Begin PROVE CopiesInv'
<1> DEFINE new == [alert |-> Head(scheduled), left |-> sockets, failed |-> {}]
<1>1. /\ scheduled # <<>> /\ scheduled' = Tail(scheduled)
      /\ broadcasts' = Append(broadcasts, new)
      /\ UNCHANGED <<docVars, threadVars, sockets, clientVars, failures>>
  BY DEF Begin
<1>2. /\ TypeOK /\ TypeOK' /\ scheduled \in Seq(Etag) /\ broadcasts \in Seq(Broadcast)
      /\ sockets \subseteq Socket /\ scheduled' \in Seq(Etag) /\ broadcasts' \in Seq(Broadcast)
  BY DEF IInv, TypeOK
<1>3. new \in Broadcast /\ new.alert = Head(scheduled)
  BY <1>1, <1>2 DEF Broadcast
<1> HIDE DEF new
<1>4. ASSUME NEW s \in Socket, NEW v \in Etag
      PROVE  Copies(s, v)' <= Copies(s, v)
  <2>1. Count(scheduled', {v}) + One(Head(scheduled) \in {v}) <= Count(scheduled, {v})
    BY <1>1, <1>2, CountTail
  <2>2. Count(broadcasts', Carrying(s, v))
           <= Count(broadcasts, Carrying(s, v)) + One(new \in Carrying(s, v))
    BY <1>1, <1>2, <1>3, CountAppend
  <2>3. One(new \in Carrying(s, v)) <= One(Head(scheduled) \in {v})
    BY <1>3 DEF One, Carrying
  <2>4. /\ Count(scheduled', {v}) \in Nat /\ Count(broadcasts', Carrying(s, v)) \in Nat
    <3>1. Count(scheduled', {v}) \in Nat
      BY <1>2, PlacesFinite
    <3>2. Count(broadcasts', Carrying(s, v)) \in Nat
      BY <1>2, PlacesFinite
    <3> QED BY <3>1, <3>2
  <2>5. /\ Count(shown[s], {v}) \in Nat /\ Count(scheduled, {v}) \in Nat
        /\ Count(broadcasts, Carrying(s, v)) \in Nat
    BY <1>2, Numbers
  <2>6. Count(shown[s], {v})' = Count(shown[s], {v})
    BY <1>1 DEF clientVars
  <2>7. One(new \in Carrying(s, v)) \in {0, 1} /\ One(Head(scheduled) \in {v}) \in {0, 1}
    BY DEF One
  <2> QED BY <2>1, <2>2, <2>3, <2>4, <2>5, <2>6, <2>7 DEF Copies
<1> QED BY <1>1, <1>2, <1>4, CopiesKept

(* What the socket is shown leaves the broadcast. *)
LEMMA SendCopies ==
    ASSUME IInv, IInv', CopiesInv, NEW i \in DOMAIN broadcasts, NEW t \in Socket,
           NEW raises \in BOOLEAN, Send(i, t, raises)
    PROVE  CopiesInv'
<1> DEFINE b == broadcasts[i]
           sent == [b EXCEPT !.left = @ \ {t}, !.failed = IF raises THEN @ \cup {t} ELSE @]
<1>1. /\ t \in b.left
      /\ shown' = IF client[t] = "open" THEN [shown EXCEPT ![t] = Append(@, b.alert)] ELSE shown
      /\ UNCHANGED <<docVars, threadVars, scheduled, sockets, client, since, failures>>
  BY DEF Send
<1>2. /\ TypeOK /\ TypeOK' /\ broadcasts \in Seq(Broadcast) /\ b \in Broadcast
      /\ shown \in [Socket -> Seq(Etag)]
      /\ shown' \in [Socket -> Seq(Etag)] /\ broadcasts' \in Seq(Broadcast)
  <2>1. TypeOK /\ TypeOK'
    BY DEF IInv
  <2>2. broadcasts \in Seq(Broadcast) /\ shown \in [Socket -> Seq(Etag)]
    BY <2>1 DEF TypeOK
  <2>3. broadcasts' \in Seq(Broadcast) /\ shown' \in [Socket -> Seq(Etag)]
    BY <2>1 DEF TypeOK
  <2>4. b \in Broadcast
    BY <2>2
  <2> QED BY <2>1, <2>2, <2>3, <2>4
<1>3. sent \in Broadcast /\ sent.alert = b.alert /\ sent.left = b.left \ {t} /\ b.alert \in Etag
  BY <1>2 DEF Broadcast
<1>4. broadcasts' = [broadcasts EXCEPT ![i] = sent]
  BY DEF Send
<1> HIDE DEF sent
<1>5. ASSUME NEW s \in Socket, NEW v \in Etag
      PROVE  Copies(s, v)' <= Copies(s, v)
  <2> DEFINE here == s = t /\ b.alert = v
  <2>1. /\ sent \in Carrying(s, v) => b \in Carrying(s, v)
        /\ here <=> b \in Carrying(s, v) /\ sent \notin Carrying(s, v)
    BY <1>1, <1>2, <1>3 DEF Carrying
  <2>2. Count(broadcasts', Carrying(s, v)) + One(here) <= Count(broadcasts, Carrying(s, v))
    <3>1. Count(broadcasts', Carrying(s, v))
             + One(b \in Carrying(s, v) /\ sent \notin Carrying(s, v))
             <= Count(broadcasts, Carrying(s, v))
      BY <1>2, <1>3, <1>4, <2>1, CountReplace
    <3>2. One(here) = One(b \in Carrying(s, v) /\ sent \notin Carrying(s, v))
      BY <2>1 DEF One
    <3> QED BY <3>1, <3>2
  <2>3. Count((shown[s])', {v}) <= Count(shown[s], {v}) + One(here)
    <3>1. Count(shown[s], {v}) \in Nat /\ One(here) \in {0, 1}
      BY <1>2, Numbers DEF One
    <3>2. CASE s = t /\ client[t] = "open"
      <4>1. (shown[s])' = Append(shown[s], b.alert) /\ shown[s] \in Seq(Etag)
        BY <1>1, <1>2, <3>2
      <4>2. Count((shown[s])', {v}) <= Count(shown[s], {v}) + One(b.alert \in {v})
        BY <1>3, <4>1, CountAppend
      <4>3. One(b.alert \in {v}) = One(here)
        BY <3>2 DEF One
      <4> QED BY <4>2, <4>3
    <3>3. CASE ~(s = t /\ client[t] = "open")
      <4>1. (shown[s])' = shown[s]
        BY <1>1, <1>2, <3>3
      <4> HIDE DEF here
      <4> QED BY <3>1, <4>1
    <3> QED BY <3>2, <3>3
  <2>4. /\ Count((shown[s])', {v}) \in Nat /\ Count(broadcasts', Carrying(s, v)) \in Nat
    <3>1. (shown[s])' \in Seq(Etag)
      BY <1>2
    <3>2. Count((shown[s])', {v}) \in Nat
      BY <3>1, PlacesFinite
    <3>3. Count(broadcasts', Carrying(s, v)) \in Nat
      BY <1>2, PlacesFinite
    <3> QED BY <3>2, <3>3
  <2>5. /\ Count(shown[s], {v}) \in Nat /\ Count(scheduled, {v}) \in Nat
        /\ Count(broadcasts, Carrying(s, v)) \in Nat /\ One(here) \in {0, 1}
    BY <1>2, Numbers DEF One
  <2>6. Count(scheduled, {v})' = Count(scheduled, {v})
    BY <1>1
  <2> HIDE DEF here
  <2> QED BY <2>2, <2>3, <2>4, <2>5, <2>6 DEF Copies
<1> QED BY <1>1, <1>2, <1>5, CopiesKept

LEMMA FinishCopies ==
    ASSUME IInv, IInv', CopiesInv, NEW i \in DOMAIN broadcasts, Finish(i)
    PROVE  CopiesInv'
<1>1. /\ broadcasts' = RemoveAt(broadcasts, i)
      /\ UNCHANGED <<docVars, threadVars, scheduled, clientVars, failures>>
  BY DEF Finish
<1>2. /\ TypeOK /\ TypeOK' /\ broadcasts \in Seq(Broadcast) /\ broadcasts' \in Seq(Broadcast)
  BY DEF IInv, TypeOK
<1>3. ASSUME NEW s \in Socket, NEW v \in Etag
      PROVE  Copies(s, v)' <= Copies(s, v)
  <2>1. Count(broadcasts', Carrying(s, v)) <= Count(broadcasts, Carrying(s, v))
    BY <1>1, <1>2, CountRemoveAt
  <2>2. Count(broadcasts', Carrying(s, v)) \in Nat
    BY <1>2, PlacesFinite
  <2>3. /\ Count(shown[s], {v}) \in Nat /\ Count(scheduled, {v}) \in Nat
        /\ Count(broadcasts, Carrying(s, v)) \in Nat
    BY <1>2, Numbers
  <2>4. /\ Count(scheduled, {v})' = Count(scheduled, {v})
        /\ Count(shown[s], {v})' = Count(shown[s], {v})
    BY <1>1 DEF clientVars
  <2> QED BY <2>1, <2>2, <2>3, <2>4 DEF Copies
<1> QED BY <1>1, <1>2, <1>3, CopiesKept
-----------------------------------------------------------------------------
(* Sockets and the process. *)

(* A browser that leaves is not asked what it saw. *)
LEMMA SocketCopies ==
    ASSUME IInv, IInv', CopiesInv, NEW t \in Socket, Connect(t) \/ Leave(t) \/ Disconnect(t)
    PROVE  CopiesInv'
<1>1. /\ shown' \in {shown, [shown EXCEPT ![t] = <<>>]}
      /\ UNCHANGED <<docVars, threadVars, scheduled, broadcasts, failures>>
  BY DEF Connect, Leave, Disconnect, loopVars
<1>2. /\ TypeOK /\ TypeOK' /\ shown \in [Socket -> Seq(Etag)]
  BY DEF IInv, TypeOK
<1>3. ASSUME NEW s \in Socket, NEW v \in Etag
      PROVE  Copies(s, v)' <= Copies(s, v)
  <2>1. (shown[s])' = shown[s] \/ (shown[s])' = <<>>
    <3>1. CASE shown' = shown
      BY <3>1
    <3>2. CASE shown' = [shown EXCEPT ![t] = <<>>]
      BY <1>2, <3>2
    <3> QED BY <1>1, <3>1, <3>2
  <2>2. /\ Count(shown[s], {v}) \in Nat /\ Count(scheduled, {v}) \in Nat
        /\ Count(broadcasts, Carrying(s, v)) \in Nat
    BY <1>2, Numbers
  <2>3. Count((shown[s])', {v}) <= Count(shown[s], {v}) /\ Count((shown[s])', {v}) \in Nat
    BY <2>1, <2>2, CountEmpty
  <2>4. /\ Count(scheduled, {v})' = Count(scheduled, {v})
        /\ Count(broadcasts, Carrying(s, v))' = Count(broadcasts, Carrying(s, v))
    BY <1>1
  <2> QED BY <2>2, <2>3, <2>4 DEF Copies
<1> QED BY <1>1, <1>2, <1>3, CopiesKept

LEMMA NoCopies ==
    ASSUME NEW s \in Socket, NEW v \in Etag,
           shown[s] = <<>>, scheduled = <<>>, broadcasts = <<>>
    PROVE  Copies(s, v) = 0
BY CountEmpty DEF Copies

(* A process that starts has nothing on its way. *)
LEMMA RestartCopies ==
    ASSUME IInv, IInv', NEW newPod \in BOOLEAN, Restart(newPod)
    PROVE  CopiesInv'
<1>1. /\ shown' = [s \in Socket |-> <<>>] /\ scheduled' = <<>> /\ broadcasts' = <<>>
      /\ todo' = {} /\ thread' = "down"
  BY DEF Restart
<1>2. failures' \in Nat
  BY DEF IInv, TypeOK
<1>3. ASSUME NEW s \in Socket, NEW v \in Etag
      PROVE  Copies(s, v)' <= failures' + One(Handed(v))'
  <2>1. Copies(s, v)' = 0
    BY <1>1, CountEmpty DEF Copies
  <2>2. One(Handed(v))' \in {0, 1}
    BY DEF One
  <2> QED BY <1>2, <2>1, <2>2
<1> QED BY <1>1, <1>3 DEF CopiesInv, BatchShape

LEMMA InitCopies == ASSUME AlertFanoutAssumption, Init PROVE CopiesInv
<1>1. ASSUME NEW s \in Socket, NEW v \in Etag
      PROVE  Copies(s, v) <= failures + One(Handed(v))
  <2>1. Copies(s, v) = 0
    BY NoCopies DEF Init
  <2>2. One(Handed(v)) \in {0, 1} /\ failures = 0
    BY DEF One, Init
  <2> QED BY <2>1, <2>2
<1> QED BY <1>1 DEF CopiesInv, BatchShape, Init

LEMMA StutterCopies == ASSUME IInv, CopiesInv, UNCHANGED vars PROVE CopiesInv'
BY DEF CopiesInv, BatchShape, Copies, Handed, vars, docVars, threadVars, loopVars, clientVars
-----------------------------------------------------------------------------
LEMMA CopiesBounded == ASSUME AlertFanoutAssumption PROVE Spec => []CopiesInv
<1>1. Init => CopiesInv
  BY InitCopies
<1>2. IInv /\ IInv' /\ CopiesInv /\ [Next]_vars => CopiesInv'
  <2> SUFFICES ASSUME IInv, IInv', CopiesInv, [Next]_vars PROVE CopiesInv'
    OBVIOUS
  <2>1. CASE \E d \in Doc : Raise(d) \/ Expire(d)
    BY <2>1, RaiseCopies
  <2>2. CASE Thread \/ End \/ AckLost
    BY <2>2, ThreadCopies, ScheduleCopies DEF Thread
  <2>3. CASE Loop
    BY <2>3, BeginCopies, SendCopies, FinishCopies DEF Loop
  <2>4. CASE \E s \in Socket : Connect(s) \/ Leave(s) \/ Disconnect(s)
    BY <2>4, SocketCopies
  <2>5. CASE \E newPod \in BOOLEAN : Restart(newPod)
    BY <2>5, RestartCopies
  <2>6. CASE UNCHANGED vars
    BY <2>6, StutterCopies
  <2> QED BY <2>1, <2>2, <2>3, <2>4, <2>5, <2>6 DEF Next
<1>3. Spec => []IInv
  BY Inductive
<1> QED BY <1>1, <1>2, <1>3, PTL DEF Spec

(* However the coroutines overlap and whatever fails, a browser is shown an alert no more
   often than once and once more for every acknowledgement that was lost: neither a
   broadcast nor what discards the sockets that failed sends an alert again
   (_handle_batch and _broadcast_alert, app.py:130-167). *)
THEOREM RepeatsBounded == Spec => []RepeatedOnlyOnLoss
<1>1. Spec => []CopiesInv
  BY AlertFanoutAssumption, CopiesBounded
<1>2. Spec => []IInv
  BY AlertFanoutAssumption, Inductive
<1>3. IInv /\ CopiesInv => RepeatedOnlyOnLoss
  <2> SUFFICES ASSUME IInv, CopiesInv, NEW s \in Socket, NEW v \in Etag
               PROVE  Times(s, v) <= 1 + failures
    BY DEF RepeatedOnlyOnLoss
  <2>1. TypeOK /\ failures \in Nat
    BY DEF IInv, TypeOK
  <2>2. Places(shown[s], {v}) = {i \in DOMAIN shown[s] : shown[s][i] = v}
    BY DEF Places
  <2>3. Times(s, v) = Count(shown[s], {v})
    BY <2>2 DEF Times, Count
  <2>4. Copies(s, v) <= failures + One(Handed(v)) /\ One(Handed(v)) \in {0, 1}
    BY DEF CopiesInv, One
  <2>5. /\ Count(shown[s], {v}) \in Nat /\ Count(scheduled, {v}) \in Nat
        /\ Count(broadcasts, Carrying(s, v)) \in Nat
    BY <2>1, Numbers
  <2> QED BY <2>1, <2>3, <2>4, <2>5 DEF Copies
<1> QED BY <1>1, <1>2, <1>3, PTL
=============================================================================
