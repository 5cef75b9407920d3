------------------------ MODULE UserDocumentsProofs ------------------------
(***************************************************************************)
(* What holds of the user documents for any number of requests, pods,      *)
(* words and crashes.  The argument: as long as no two pods are in the     *)
(* middle of an update of the same document, the copy in hand is the       *)
(* document, so that putting it back loses nothing.                        *)
(***************************************************************************)
EXTENDS UserDocuments, SequenceTheorems, TLAPS

(* What a request holds: an update of its own, and a copy of the document it is for. *)
HeldOK ==
    \A r \in Request : pc[r] = "holding" =>
        /\ op[r] \in Update(kind[r])
        /\ op[r] \in SessionOp => copy[r] \in SessionDoc
        /\ op[r] \notin SessionOp => copy[r] \in ProfileDoc

(* A document that was not raced for is held by one request, ... *)
Alone ==
    \A r, s \in Request :
        /\ pc[r] = "holding" /\ pc[s] = "holding"
        /\ DocOf(op[r]) = DocOf(op[s])
        /\ DocOf(op[r]) \notin raced
        => r = s

(* ... and its copy is the document. *)
Fresh ==
    \A r \in Request : pc[r] = "holding" =>
        /\ op[r] \in SessionOp /\ "session" \notin raced => copy[r] = session
        /\ op[r] \notin SessionOp /\ "profile" \notin raced => copy[r] = profile

(* A copy of the profile holds a list that has grown from a form's, as the profile does. *)
Grown(list) == \E base \in submitted \cup {<<>>} : GrownFrom(base, list)
CopiesGrown ==
    \A r \in Request : pc[r] = "holding" /\ op[r] \notin SessionOp => Grown(copy[r].list)

HoldInv == TypeOK /\ HeldOK /\ Alone /\ Fresh
-----------------------------------------------------------------------------
(* The updates are told apart by their names. *)
LEMMA SessionOps ==
    ASSUME NEW o \in Op
    PROVE  o \in SessionOp <=> o.name \in {"persist", "constrain"}
BY DEF Op, SessionOp, LearnOp, FormOp, EnsureOp, NoOp

LEMMA LearnOps ==
    ASSUME NEW o \in Op, o.name = "learn"
    PROVE  o.value \in Value
BY DEF Op, SessionOp, LearnOp, FormOp, EnsureOp, NoOp

LEMMA FormOps ==
    ASSUME NEW o \in Op, o.name = "form"
    PROVE  o.list \in FormList
BY DEF Op, SessionOp, LearnOp, FormOp, EnsureOp, NoOp

LEMMA UpdatesAreOps ==
    ASSUME NEW k \in {"chat", "form", "upload"}
    PROVE  Update(k) \subseteq Op
BY DEF Update, Op

LEMMA DocsTyped == NoSession \in SessionDoc /\ NoProfile \in ProfileDoc
BY DEF NoSession, NoProfile, SessionDoc, ProfileDoc

LEMMA NoOpIsNone == NoOp \in Op /\ NoOp.name = "none"
BY DEF Op, NoOp

(* An update of a document gives a document. *)
LEMMA WithTurnTyped ==
    ASSUME NEW doc \in SessionDoc, NEW r \in Request
    PROVE  WithTurn(doc, r) \in SessionDoc
<1>1. Exchange(r) \in Seq(Entry)
  BY DEF Exchange, Entry
<1>2. doc.turns \o Exchange(r) \in Seq(Entry)
  BY <1>1 DEF SessionDoc
<1> QED
  BY <1>2 DEF WithTurn, SessionDoc

LEMMA WithConstraintTyped ==
    ASSUME NEW doc \in SessionDoc, NEW r \in Request
    PROVE  WithConstraint(doc, r) \in SessionDoc
BY DEF WithConstraint, SessionDoc

LEMMA AddValueTyped ==
    ASSUME NEW list \in Seq(Value), NEW v \in Value
    PROVE  AddValue(list, v) \in Seq(Value)
BY DEF AddValue

LEMMA LearnTyped ==
    ASSUME NEW doc \in ProfileDoc, NEW v \in Value
    PROVE  Learn(doc, v) \in ProfileDoc
<1>1. AddValue(doc.list, v) \in Seq(Value)
  BY AddValueTyped DEF ProfileDoc
<1> QED
  BY <1>1 DEF Learn, ProfileDoc

LEMMA SaveFormTyped ==
    ASSUME NEW doc, NEW o \in Op, o.name = "form"
    PROVE  SaveForm(doc, o.list) \in ProfileDoc
<1>4. o.list \in Seq(Value)
  BY FormOps, UserDocumentsAssumption DEF Value
<1> QED
  BY <1>4 DEF SaveForm, ProfileDoc
-----------------------------------------------------------------------------
(* The holding request's update goes through: what Release leaves behind. *)
LEMMA ReleaseFrame ==
    ASSUME HoldInv, NEW r \in Request, NEW l \in {"open", "over"},
           pc[r] = "holding", Release(r, l)
    PROVE  /\ pc' \in [Request -> {"new", "open", "holding", "over"}]
           /\ op' \in [Request -> Op]
           /\ \A s \in Request : op'[s] \in Update(kind'[s]) \cup {NoOp}
           /\ copy' \in [Request -> SessionDoc \cup ProfileDoc]
           /\ loop' \in [Pod -> Request \cup {NoRequest}]
           /\ \A p \in Pod : loop'[p] # NoRequest => pod'[loop'[p]] = p
           /\ \A s \in Request : pc'[s] = "holding" <=> loop'[pod'[s]] = s
           /\ \A s \in Request : pc'[s] = "holding" =>
                  s # r /\ pc[s] = "holding" /\ op'[s] = op[s] /\ copy'[s] = copy[s]
<1>1. pc' = [pc EXCEPT ![r] = l] /\ pod' = pod /\ kind' = kind
  BY DEF Release, Goto
<1>2. loop[pod[r]] = r /\ pod[r] \in Pod
  BY DEF HoldInv, TypeOK
<1>3. loop' = [loop EXCEPT ![pod[r]] = NoRequest]
  BY DEF Release
<1>4. NoRequest \notin Request
  BY UserDocumentsAssumption
<1>5. pc' \in [Request -> {"new", "open", "holding", "over"}]
  BY <1>1 DEF HoldInv, TypeOK
<1>6. op' = [op EXCEPT ![r] = NoOp] /\ copy' = [copy EXCEPT ![r] = NoSession]
  BY DEF Release
<1>7. op' \in [Request -> Op] /\ copy' \in [Request -> SessionDoc \cup ProfileDoc]
  BY <1>6, DocsTyped, NoOpIsNone DEF HoldInv, TypeOK
<1>8. \A s \in Request : op'[s] \in Update(kind'[s]) \cup {NoOp}
  BY <1>1, <1>6 DEF HoldInv, TypeOK
<1>9. loop' \in [Pod -> Request \cup {NoRequest}]
  BY <1>3 DEF HoldInv, TypeOK
<1>10. \A p \in Pod : loop'[p] # NoRequest => pod'[loop'[p]] = p
  BY <1>1, <1>2, <1>3 DEF HoldInv, TypeOK
<1>11. \A s \in Request : pc'[s] = "holding" <=> loop'[pod'[s]] = s
  BY <1>1, <1>2, <1>3, <1>4 DEF HoldInv, TypeOK
<1>12. \A s \in Request : pc'[s] = "holding" =>
           s # r /\ pc[s] = "holding" /\ op'[s] = op[s] /\ copy'[s] = copy[s]
  BY <1>1, <1>6 DEF HoldInv, TypeOK
<1> QED
  BY <1>5, <1>7, <1>8, <1>9, <1>10, <1>11, <1>12

(* A put of the holding request: no other request holds the document unless it was raced
   for, so every other copy stays as good as it was. *)
LEMMA PutKeepsHold ==
    ASSUME HoldInv, NEW r \in Request, NEW l \in {"open", "over"},
           pc[r] = "holding", Release(r, l),
           session' \in SessionDoc, profile' \in ProfileDoc,
           op[r] \in SessionOp => profile' = profile,
           op[r] \notin SessionOp => session' = session
    PROVE  HoldInv'
<1>1. kind' = kind /\ pod' = pod /\ raced' = raced /\ crashes' = crashes
  BY DEF Release
<1>2. /\ pc' \in [Request -> {"new", "open", "holding", "over"}]
      /\ op' \in [Request -> Op]
      /\ \A s \in Request : op'[s] \in Update(kind'[s]) \cup {NoOp}
      /\ copy' \in [Request -> SessionDoc \cup ProfileDoc]
      /\ loop' \in [Pod -> Request \cup {NoRequest}]
      /\ \A p \in Pod : loop'[p] # NoRequest => pod'[loop'[p]] = p
      /\ \A s \in Request : pc'[s] = "holding" <=> loop'[pod'[s]] = s
  BY ReleaseFrame
<1>3. \A s \in Request : pc'[s] = "holding" =>
          s # r /\ pc[s] = "holding" /\ op'[s] = op[s] /\ copy'[s] = copy[s]
  BY ReleaseFrame
<1>4. TypeOK'
  BY <1>1, <1>2 DEF HoldInv, TypeOK
<1>5. HeldOK'
  BY <1>1, <1>3 DEF HoldInv, HeldOK
<1>6. Alone'
  BY <1>1, <1>3 DEF HoldInv, Alone, DocOf
<1>7. Fresh'
  <2> SUFFICES ASSUME NEW s \in Request, pc'[s] = "holding"
               PROVE  /\ op'[s] \in SessionOp /\ "session" \notin raced' => copy'[s] = session'
                      /\ op'[s] \notin SessionOp /\ "profile" \notin raced' => copy'[s] = profile'
    BY DEF Fresh
  <2>1. s # r /\ pc[s] = "holding" /\ op'[s] = op[s] /\ copy'[s] = copy[s]
    BY <1>3
  <2>2. CASE op[s] \in SessionOp /\ "session" \notin raced
    <3>1. op[r] \notin SessionOp
      BY <2>1, <2>2 DEF HoldInv, Alone, DocOf
    <3> QED
      BY <1>1, <2>1, <2>2, <3>1 DEF HoldInv, Fresh
  <2>3. CASE op[s] \notin SessionOp /\ "profile" \notin raced
    <3>1. op[r] \in SessionOp
      BY <2>1, <2>3 DEF HoldInv, Alone, DocOf
    <3> QED
      BY <1>1, <2>1, <2>3, <3>1 DEF HoldInv, Fresh
  <2> QED
    BY <1>1, <2>1, <2>2, <2>3
<1> QED
  BY <1>4, <1>5, <1>6, <1>7 DEF HoldInv
-----------------------------------------------------------------------------
LEMMA HoldInit == Init => HoldInv
<1> SUFFICES ASSUME Init PROVE HoldInv
  OBVIOUS
<1>1. \A r \in Request : pc[r] = "new"
  BY DEF Init
<1>2. session \in SessionDoc /\ profile \in ProfileDoc
  BY DocsTyped DEF Init
<1>3. op \in [Request -> Op] /\ copy \in [Request -> SessionDoc \cup ProfileDoc]
  BY DocsTyped, NoOpIsNone DEF Init
<1>4. \A r \in Request : op[r] \in Update(kind[r]) \cup {NoOp}
  BY DEF Init
<1>5. /\ loop \in [Pod -> Request \cup {NoRequest}]
      /\ \A p \in Pod : loop[p] = NoRequest
  BY DEF Init
<1>6. \A r \in Request : pc[r] = "holding" <=> loop[pod[r]] = r
  BY <1>1, <1>5, UserDocumentsAssumption DEF Init
<1>7. TypeOK
  BY <1>2, <1>3, <1>4, <1>5, <1>6, UserDocumentsAssumption DEF Init, TypeOK
<1> QED
  BY <1>1, <1>7 DEF HoldInv, HeldOK, Alone, Fresh

(* A request that only comes or goes holds nothing. *)
LEMMA MoveKeepsHold ==
    ASSUME HoldInv, NEW r \in Request, NEW l \in {"open", "over"},
           pc[r] \in {"new", "open"}, Goto(r, l),
           UNCHANGED <<kind, pod, op, copy, loop, docVars, crashes, historyVars>>
    PROVE  HoldInv'
<1>1. \A s \in Request : pc'[s] = "holding" <=> pc[s] = "holding"
  BY DEF HoldInv, TypeOK, Goto
<1>2. pc' \in [Request -> {"new", "open", "holding", "over"}]
  BY DEF HoldInv, TypeOK, Goto
<1>3. UNCHANGED <<kind, pod, op, copy, loop, session, profile, crashes, raced>>
  BY DEF docVars, historyVars
<1>4. TypeOK'
  BY <1>1, <1>2, <1>3 DEF HoldInv, TypeOK
<1>5. HeldOK' /\ Alone' /\ Fresh'
  BY <1>1, <1>3 DEF HoldInv, HeldOK, Alone, Fresh, DocOf
<1> QED
  BY <1>4, <1>5 DEF HoldInv

(* The first half of an update: the fresh copy is the document, and a second holder of it
   is on another pod and makes it raced for. *)
LEMMA LoadKeepsHold ==
    ASSUME HoldInv, NEW r \in Request, NEW o \in Update(kind[r]), Load(r, o)
    PROVE  HoldInv'
<1> DEFINE doc == IF o \in SessionOp THEN session ELSE profile
<1>1. /\ pc[r] = "open" /\ pc' = [pc EXCEPT ![r] = "holding"]
      /\ op' = [op EXCEPT ![r] = o] /\ copy' = [copy EXCEPT ![r] = doc]
      /\ loop[pod[r]] = NoRequest /\ loop' = [loop EXCEPT ![pod[r]] = r]
      /\ raced' = IF Races(r, o) THEN raced \cup {DocOf(o)} ELSE raced
      /\ UNCHANGED <<kind, pod, session, profile, crashes>>
  BY DEF Load, Goto, docVars
<1>2. o \in Op /\ DocOf(o) \in {"session", "profile"}
  BY UpdatesAreOps DEF HoldInv, TypeOK, DocOf
<1>3. /\ doc \in SessionDoc \cup ProfileDoc
      /\ o \in SessionOp => doc \in SessionDoc /\ doc = session
      /\ o \notin SessionOp => doc \in ProfileDoc /\ doc = profile
  BY DEF HoldInv, TypeOK
<1> HIDE DEF doc
<1>4. raced \subseteq raced' /\ raced' \subseteq {"session", "profile"}
  BY <1>1, <1>2 DEF HoldInv, TypeOK
<1>5. \A s \in Request \ {r} : pc'[s] = pc[s] /\ op'[s] = op[s] /\ copy'[s] = copy[s]
  BY <1>1 DEF HoldInv, TypeOK
<1>6. pc'[r] = "holding" /\ op'[r] = o /\ copy'[r] = doc
  BY <1>1 DEF HoldInv, TypeOK
<1>7. \A s \in Request : pc'[s] = "holding" <=> loop'[pod'[s]] = s
  BY <1>1, UserDocumentsAssumption DEF HoldInv, TypeOK
<1>8. TypeOK'
  <2>1. pc' \in [Request -> {"new", "open", "holding", "over"}] /\ op' \in [Request -> Op]
    BY <1>1, <1>2 DEF HoldInv, TypeOK
  <2>2. \A s \in Request : op'[s] \in Update(kind'[s]) \cup {NoOp}
    BY <1>1, <1>5, <1>6 DEF HoldInv, TypeOK
  <2>3. copy' \in [Request -> SessionDoc \cup ProfileDoc]
    BY <1>1, <1>3 DEF HoldInv, TypeOK
  <2>4. /\ loop' \in [Pod -> Request \cup {NoRequest}]
        /\ \A p \in Pod : loop'[p] # NoRequest => pod'[loop'[p]] = p
    BY <1>1 DEF HoldInv, TypeOK
  <2> QED
    BY <1>1, <1>4, <1>7, <2>1, <2>2, <2>3, <2>4 DEF HoldInv, TypeOK
<1>9. HeldOK'
  BY <1>1, <1>3, <1>5, <1>6 DEF HoldInv, HeldOK
<1>10. Alone'
  <2>1. \A s \in Request \ {r} : pc[s] = "holding" => pod[s] # pod[r]
    BY <1>1, UserDocumentsAssumption DEF HoldInv, TypeOK
  <2>2. \A s \in Request \ {r} : pc[s] = "holding" /\ DocOf(op[s]) = DocOf(o) => DocOf(o) \in raced'
    BY <1>1, <2>1 DEF Races, Holds
  <2> QED
    BY <1>4, <1>5, <1>6, <2>2 DEF HoldInv, Alone, DocOf
<1>11. Fresh'
  BY <1>1, <1>3, <1>4, <1>5, <1>6 DEF HoldInv, Fresh
<1> QED
  BY <1>8, <1>9, <1>10, <1>11 DEF HoldInv

(* A pod's death ends what it held. *)
LEMMA CrashKeepsHold ==
    ASSUME HoldInv, NEW p \in Pod, Crash(p)
    PROVE  HoldInv'
<1>1. UNCHANGED <<kind, pod, session, profile, raced>>
  BY DEF Crash, docVars, historyVars
<1>2. \A s \in Request : pc'[s] = "holding" =>
          pod[s] # p /\ pc[s] = "holding" /\ op'[s] = op[s] /\ copy'[s] = copy[s]
  BY DEF Crash, HoldInv, TypeOK
<1>3. TypeOK'
  <2>1. pc' \in [Request -> {"new", "open", "holding", "over"}]
    BY DEF Crash, HoldInv, TypeOK
  <2>2. /\ op' \in [Request -> Op]
        /\ \A s \in Request : op'[s] \in Update(kind'[s]) \cup {NoOp}
    BY <1>1, NoOpIsNone DEF Crash, HoldInv, TypeOK
  <2>3. copy' \in [Request -> SessionDoc \cup ProfileDoc]
    BY DocsTyped DEF Crash, HoldInv, TypeOK
  <2>4. /\ loop' \in [Pod -> Request \cup {NoRequest}]
        /\ \A q \in Pod : loop'[q] # NoRequest => pod'[loop'[q]] = q
    BY <1>1 DEF Crash, HoldInv, TypeOK
  <2>5. \A s \in Request : pc'[s] = "holding" <=> loop'[pod'[s]] = s
    BY <1>1, UserDocumentsAssumption DEF Crash, HoldInv, TypeOK
  <2>6. crashes' \in 0..MaxCrashes
    BY UserDocumentsAssumption DEF Crash, HoldInv, TypeOK
  <2> QED
    BY <1>1, <2>1, <2>2, <2>3, <2>4, <2>5, <2>6 DEF HoldInv, TypeOK
<1>4. HeldOK' /\ Alone' /\ Fresh'
  BY <1>1, <1>2 DEF HoldInv, HeldOK, Alone, Fresh, DocOf
<1> QED
  BY <1>3, <1>4 DEF HoldInv
-----------------------------------------------------------------------------
(* The five updates. *)
LEMMA HeldUpdate ==
    ASSUME HoldInv, NEW r \in Request, pc[r] = "holding"
    PROVE  /\ op[r] \in Op
           /\ op[r] \in SessionOp <=> op[r].name \in {"persist", "constrain"}
           /\ op[r].name = "learn" => op[r].value \in Value
           /\ op[r] \in SessionOp => copy[r] \in SessionDoc
           /\ op[r] \notin SessionOp => copy[r] \in ProfileDoc
<1>1. op[r] \in Op
  BY DEF HoldInv, TypeOK
<1> QED
  BY <1>1, SessionOps, LearnOps DEF HoldInv, HeldOK

LEMMA PersistKeepsHold ==
    ASSUME HoldInv, NEW r \in Request, PersistTurn(r)
    PROVE  HoldInv'
<1>1. pc[r] = "holding" /\ op[r].name = "persist" /\ Release(r, "over")
  BY DEF PersistTurn
<1>2. op[r] \in SessionOp /\ copy[r] \in SessionDoc
  BY <1>1, HeldUpdate
<1>3. session' \in SessionDoc /\ profile' = profile
  BY <1>2, WithTurnTyped DEF PersistTurn
<1>4. profile' \in ProfileDoc
  BY <1>3 DEF HoldInv, TypeOK
<1> QED
  BY <1>1, <1>2, <1>3, <1>4, PutKeepsHold

LEMMA ConstrainKeepsHold ==
    ASSUME HoldInv, NEW r \in Request, UpdateConstraints(r)
    PROVE  HoldInv'
<1>1. pc[r] = "holding" /\ op[r].name = "constrain" /\ Release(r, "open")
  BY DEF UpdateConstraints
<1>2. op[r] \in SessionOp /\ copy[r] \in SessionDoc
  BY <1>1, HeldUpdate
<1>3. session' \in SessionDoc /\ profile' = profile
  BY <1>2, WithConstraintTyped DEF UpdateConstraints
<1>4. profile' \in ProfileDoc
  BY <1>3 DEF HoldInv, TypeOK
<1> QED
  BY <1>1, <1>2, <1>3, <1>4, PutKeepsHold

LEMMA LearnKeepsHold ==
    ASSUME HoldInv, NEW r \in Request, UpdateProfile(r)
    PROVE  HoldInv'
<1>1. pc[r] = "holding" /\ op[r].name = "learn" /\ Release(r, "open")
  BY DEF UpdateProfile
<1>2. op[r] \notin SessionOp /\ copy[r] \in ProfileDoc /\ op[r].value \in Value
  BY <1>1, HeldUpdate
<1>3. profile' \in ProfileDoc /\ session' = session
  BY <1>2, LearnTyped DEF UpdateProfile
<1>4. session' \in SessionDoc
  BY <1>3 DEF HoldInv, TypeOK
<1> QED
  BY <1>1, <1>2, <1>3, <1>4, PutKeepsHold

LEMMA FormKeepsHold ==
    ASSUME HoldInv, NEW r \in Request, SaveDetails(r)
    PROVE  HoldInv'
<1>1. pc[r] = "holding" /\ op[r].name = "form" /\ Release(r, "over")
  BY DEF SaveDetails
<1>2. op[r] \notin SessionOp /\ op[r] \in Op
  BY <1>1, HeldUpdate
<1>3. profile' \in ProfileDoc /\ session' = session
  BY <1>1, <1>2, SaveFormTyped DEF SaveDetails
<1>4. session' \in SessionDoc
  BY <1>3 DEF HoldInv, TypeOK
<1> QED
  BY <1>1, <1>2, <1>3, <1>4, PutKeepsHold

LEMMA EnsureKeepsHold ==
    ASSUME HoldInv, NEW r \in Request, EnsureUserDoc(r)
    PROVE  HoldInv'
<1>1. pc[r] = "holding" /\ op[r].name = "ensure" /\ Release(r, "over")
  BY DEF EnsureUserDoc
<1>2. op[r] \notin SessionOp
  BY <1>1, HeldUpdate
<1>3. profile \in ProfileDoc /\ [exists |-> TRUE, list |-> <<>>] \in ProfileDoc
  BY DEF HoldInv, TypeOK, ProfileDoc
<1>4. profile' \in ProfileDoc /\ session' = session
  BY <1>3 DEF EnsureUserDoc
<1>5. session' \in SessionDoc
  BY <1>4 DEF HoldInv, TypeOK
<1> QED
  BY <1>1, <1>2, <1>4, <1>5, PutKeepsHold

LEMMA HoldStep ==
    ASSUME HoldInv, [Next]_vars
    PROVE  HoldInv'
<1>1. ASSUME NEW r \in Request, Begin(r) PROVE HoldInv'
  BY <1>1, MoveKeepsHold DEF Begin
<1>2. ASSUME NEW r \in Request, GiveUp(r) PROVE HoldInv'
  BY <1>2, MoveKeepsHold DEF GiveUp
<1>3. ASSUME NEW r \in Request, NEW o \in Update(kind[r]), Load(r, o) PROVE HoldInv'
  BY <1>3, LoadKeepsHold
<1>4. ASSUME NEW r \in Request, PersistTurn(r) PROVE HoldInv'
  BY <1>4, PersistKeepsHold
<1>5. ASSUME NEW r \in Request, UpdateConstraints(r) PROVE HoldInv'
  BY <1>5, ConstrainKeepsHold
<1>6. ASSUME NEW r \in Request, UpdateProfile(r) PROVE HoldInv'
  BY <1>6, LearnKeepsHold
<1>7. ASSUME NEW r \in Request, SaveDetails(r) PROVE HoldInv'
  BY <1>7, FormKeepsHold
<1>8. ASSUME NEW r \in Request, EnsureUserDoc(r) PROVE HoldInv'
  BY <1>8, EnsureKeepsHold
<1>9. ASSUME NEW p \in Pod, Crash(p) PROVE HoldInv'
  BY <1>9, CrashKeepsHold
<1>10. CASE UNCHANGED vars
  BY <1>10 DEF vars, requestVars, docVars, historyVars, HoldInv, TypeOK, HeldOK, Alone,
               Fresh, DocOf
<1> QED
  BY <1>1, <1>2, <1>3, <1>4, <1>5, <1>6, <1>7, <1>8, <1>9, <1>10 DEF Next

(* Type correctness for any requests, pods and words (save_conversation.py,
   update_user_profile.py): an event loop is held by one update at a time. *)
THEOREM TypeCorrect == Spec => []TypeOK
<1>1. Init => HoldInv
  BY HoldInit
<1>2. HoldInv /\ [Next]_vars => HoldInv'
  BY HoldStep
<1>3. HoldInv => TypeOK
  BY DEF HoldInv
<1> QED
  BY <1>1, <1>2, <1>3, PTL DEF Spec
-----------------------------------------------------------------------------
(* Turns and constraints: the copy that is put back is the document. *)
SessionKept == TurnsKept /\ ConstraintsKept

LEMMA SessionKeptStep ==
    ASSUME HoldInv, SessionKept, [Next]_vars
    PROVE  SessionKept'
<1>1. ASSUME NEW r \in Request, PersistTurn(r) PROVE SessionKept'
  <2>1. /\ pc[r] = "holding" /\ op[r].name = "persist" /\ raced' = raced
        /\ session' = WithTurn(copy[r], r) /\ written' = written \o Exchange(r)
        /\ constrained' = constrained
    BY <1>1 DEF PersistTurn, Release
  <2>2. op[r] \in SessionOp /\ copy[r] \in SessionDoc
    BY <2>1, HeldUpdate
  <2>3. "session" \notin raced => copy[r] = session
    BY <2>1, <2>2 DEF HoldInv, Fresh
  <2>4. /\ session'.turns = copy[r].turns \o Exchange(r)
        /\ session'.constraints = copy[r].constraints
    BY <2>1, <2>2 DEF WithTurn, SessionDoc
  <2> QED
    BY <2>1, <2>3, <2>4 DEF SessionKept, TurnsKept, ConstraintsKept
<1>2. ASSUME NEW r \in Request, UpdateConstraints(r) PROVE SessionKept'
  <2>1. /\ pc[r] = "holding" /\ op[r].name = "constrain" /\ raced' = raced
        /\ session' = WithConstraint(copy[r], r) /\ written' = written
        /\ constrained' = constrained \cup {r}
    BY <1>2 DEF UpdateConstraints, Release
  <2>2. op[r] \in SessionOp /\ copy[r] \in SessionDoc
    BY <2>1, HeldUpdate
  <2>3. "session" \notin raced => copy[r] = session
    BY <2>1, <2>2 DEF HoldInv, Fresh
  <2>4. /\ session'.turns = copy[r].turns
        /\ session'.constraints = copy[r].constraints \cup {r}
    BY <2>1, <2>2 DEF WithConstraint, SessionDoc
  <2> QED
    BY <2>1, <2>3, <2>4 DEF SessionKept, TurnsKept, ConstraintsKept
<1>3. CASE UNCHANGED <<session, written, constrained>> /\ raced \subseteq raced'
  BY <1>3 DEF SessionKept, TurnsKept, ConstraintsKept
<1>4. ASSUME NEW r \in Request,
             \/ Begin(r) \/ GiveUp(r) \/ \E o \in Update(kind[r]) : Load(r, o)
             \/ UpdateProfile(r) \/ SaveDetails(r) \/ EnsureUserDoc(r)
      PROVE  UNCHANGED <<session, written, constrained>> /\ raced \subseteq raced'
  BY <1>4 DEF Begin, GiveUp, Load, UpdateProfile, SaveDetails, EnsureUserDoc, Release,
              docVars, historyVars
<1>5. ASSUME NEW p \in Pod, Crash(p)
      PROVE  UNCHANGED <<session, written, constrained>> /\ raced \subseteq raced'
  BY <1>5 DEF Crash, docVars, historyVars
<1>6. CASE UNCHANGED vars
  BY <1>3, <1>6 DEF vars, docVars, historyVars
<1> QED
  BY <1>1, <1>2, <1>3, <1>4, <1>5, <1>6 DEF Next

LEMMA SessionKeptAlways == Spec => []SessionKept
<1>1. Init => HoldInv /\ SessionKept
  BY HoldInit DEF Init, NoSession, SessionKept, TurnsKept, ConstraintsKept
<1>2. HoldInv /\ SessionKept /\ [Next]_vars => HoldInv' /\ SessionKept'
  BY HoldStep, SessionKeptStep
<1> QED
  BY <1>1, <1>2, PTL DEF Spec

(* No exchange is lost, for any number of turns, tool calls and crashes, unless two pods
   updated the session document at once (save_conversation.py:40-52). *)
THEOREM NoTurnLost == Spec => []TurnsKept
<1>1. SessionKept => TurnsKept
  BY DEF SessionKept
<1> QED
  BY <1>1, SessionKeptAlways, PTL

(* No constraint is lost either (save_conversation.py:55-69). *)
THEOREM NoConstraintLost == Spec => []ConstraintsKept
<1>1. SessionKept => ConstraintsKept
  BY DEF SessionKept
<1> QED
  BY <1>1, SessionKeptAlways, PTL
-----------------------------------------------------------------------------
(* The profile: merging keeps what is known, and adds no word the list has. *)
LEMMA AddValueWords ==
    ASSUME NEW list \in Seq(Value), NEW v \in Value
    PROVE  Words(list) \cup {Folded(v)} \subseteq Words(AddValue(list, v))
<1>1. CASE Folded(v) \in Words(list)
  BY <1>1 DEF AddValue
<1>2. CASE Folded(v) \notin Words(list)
  <2>1. AddValue(list, v) = Append(list, v)
    BY <1>2 DEF AddValue
  <2>2. /\ DOMAIN Append(list, v) = 1..(Len(list) + 1)
        /\ \A i \in 1..Len(list) : Append(list, v)[i] = list[i]
        /\ Append(list, v)[Len(list) + 1] = v
    OBVIOUS
  <2>3. Words(list) = {Folded(list[i]) : i \in 1..Len(list)}
    BY DEF Words
  <2>4. Words(Append(list, v)) = {Folded(Append(list, v)[i]) : i \in 1..(Len(list) + 1)}
    BY <2>2 DEF Words
  <2>5. Len(list) \in Nat
    OBVIOUS
  <2> QED
    BY <2>1, <2>2, <2>3, <2>4, <2>5
<1> QED
  BY <1>1, <1>2

LEMMA AddValueGrows ==
    ASSUME NEW list \in Seq(Value), NEW v \in Value, NEW base \in Seq(Value),
           GrownFrom(base, list)
    PROVE  GrownFrom(base, AddValue(list, v))
<1>1. CASE Folded(v) \in Words(list)
  BY <1>1 DEF AddValue
<1>2. CASE Folded(v) \notin Words(list)
  <2>1. AddValue(list, v) = Append(list, v)
    BY <1>2 DEF AddValue
  <2> DEFINE longer == Append(list, v)
  <2>2. /\ Len(longer) = Len(list) + 1 /\ Len(list) \in Nat /\ Len(base) \in Nat
        /\ \A i \in 1..Len(list) : longer[i] = list[i]
        /\ longer[Len(list) + 1] = v
    OBVIOUS
  <2>3. \A i \in 1..Len(list) : Folded(list[i]) # Folded(v)
    BY <1>2 DEF Words
  <2> HIDE DEF longer
  <2>4. Len(base) <= Len(longer) /\ \A i \in 1..Len(base) : longer[i] = base[i]
    BY <2>2 DEF GrownFrom
  <2>5. ASSUME NEW i \in 1..Len(longer), NEW j \in (Len(base) + 1)..Len(longer),
               Folded(longer[i]) = Folded(longer[j])
        PROVE  i = j
    <3>1. CASE i \in 1..Len(list) /\ j \in 1..Len(list)
      <4>1. longer[i] = list[i] /\ longer[j] = list[j] /\ j \in (Len(base) + 1)..Len(list)
        BY <2>2, <3>1
      <4> QED
        BY <2>5, <3>1, <4>1 DEF GrownFrom
    <3>2. CASE i \in 1..Len(list) /\ j = Len(list) + 1
      BY <2>2, <2>3, <2>5, <3>2
    <3>3. CASE i = Len(list) + 1 /\ j \in 1..Len(list)
      BY <2>2, <2>3, <2>5, <3>3
    <3>4. i \in 1..Len(list) \/ i = Len(list) + 1
      BY <2>2
    <3>5. j \in 1..Len(list) \/ j = Len(list) + 1
      BY <2>2
    <3> QED
      BY <3>1, <3>2, <3>3, <3>4, <3>5
  <2>6. GrownFrom(base, longer)
    BY <2>4, <2>5 DEF GrownFrom
  <2> QED
    BY <2>1, <2>6 DEF longer
<1> QED
  BY <1>1, <1>2

(* A list is its own base. *)
LEMMA GrownFromItself ==
    ASSUME NEW list \in Seq(Value)
    PROVE  GrownFrom(list, list)
<1>1. Len(list) \in Nat
  OBVIOUS
<1>2. (Len(list) + 1)..Len(list) = {}
  BY <1>1
<1> QED
  BY <1>1, <1>2 DEF GrownFrom

(* An upload creates the user document only where there is nothing to lose. *)
NothingWithoutDoc == ~ profile.exists => profile.list = <<>>

ProfileKept ==
    /\ LearnedKept
    /\ ListGrownFromForm
    /\ CopiesGrown
    /\ NothingWithoutDoc
    /\ submitted \subseteq FormList

LEMMA NothingLearnedYet == ASSUME Init PROVE ProfileKept
<1>1. GrownFrom(<<>>, <<>>)
  <2>1. <<>> \in Seq(Value)
    OBVIOUS
  <2> QED
    BY <2>1, GrownFromItself
<1>2. ListGrownFromForm
  BY <1>1 DEF Init, NoProfile, ListGrownFromForm
<1> QED
  BY <1>2 DEF Init, NoProfile, ProfileKept, LearnedKept, CopiesGrown, NothingWithoutDoc

(* Copies: a new one is the profile, the others stay until they are put. *)
LEMMA CopiesStep ==
    ASSUME HoldInv, ProfileKept, [Next]_vars
    PROVE  CopiesGrown'
<1>1. Grown(profile.list)
  BY DEF ProfileKept, ListGrownFromForm, Grown
<1>2. ASSUME NEW r \in Request, NEW o \in Update(kind[r]), Load(r, o) PROVE CopiesGrown'
  BY <1>1, <1>2 DEF Load, Goto, HoldInv, TypeOK, ProfileKept, CopiesGrown, Grown
<1>3. ASSUME \A s \in Request : pc'[s] = "holding" =>
                 pc[s] = "holding" /\ op'[s] = op[s] /\ copy'[s] = copy[s],
             submitted \subseteq submitted'
      PROVE  CopiesGrown'
  BY <1>3 DEF ProfileKept, CopiesGrown, Grown
<1>4. ASSUME NEW r \in Request, Begin(r) \/ GiveUp(r) PROVE CopiesGrown'
  BY <1>3, <1>4 DEF Begin, GiveUp, Goto, HoldInv, TypeOK, historyVars
<1>5. ASSUME NEW r \in Request, NEW l \in {"open", "over"}, pc[r] = "holding", Release(r, l),
             submitted \subseteq submitted'
      PROVE  CopiesGrown'
  <2>1. \A s \in Request : pc'[s] = "holding" =>
            pc[s] = "holding" /\ op'[s] = op[s] /\ copy'[s] = copy[s]
    BY <1>5, ReleaseFrame
  <2> QED
    BY <1>3, <1>5, <2>1
<1>6. ASSUME NEW r \in Request,
             \/ PersistTurn(r) \/ UpdateConstraints(r) \/ UpdateProfile(r)
             \/ SaveDetails(r) \/ EnsureUserDoc(r)
      PROVE  CopiesGrown'
  BY <1>5, <1>6 DEF PersistTurn, UpdateConstraints, UpdateProfile, SaveDetails, EnsureUserDoc
<1>7. ASSUME NEW p \in Pod, Crash(p) PROVE CopiesGrown'
  BY <1>3, <1>7 DEF Crash, HoldInv, TypeOK, historyVars
<1>8. CASE UNCHANGED vars
  BY <1>3, <1>8 DEF vars, requestVars, historyVars
<1> QED
  BY <1>2, <1>4, <1>6, <1>7, <1>8 DEF Next

LEMMA ProfileKeptStep ==
    ASSUME HoldInv, ProfileKept, [Next]_vars
    PROVE  LearnedKept' /\ ListGrownFromForm' /\ NothingWithoutDoc' /\ submitted' \subseteq FormList
<1>3. ASSUME NEW r \in Request, UpdateProfile(r) PROVE LearnedKept' /\ ListGrownFromForm' /\ NothingWithoutDoc' /\ submitted' \subseteq FormList
  <2> DEFINE v == op[r].value
  <2>1. /\ pc[r] = "holding" /\ op[r].name = "learn" /\ raced' = raced
        /\ profile' = Learn(copy[r], v) /\ known' = known \cup {Folded(v)}
        /\ submitted' = submitted
    BY <1>3 DEF UpdateProfile, Release
  <2>2. op[r] \notin SessionOp /\ copy[r] \in ProfileDoc /\ v \in Value
    BY <2>1, HeldUpdate
  <2>3. "profile" \notin raced => copy[r] = profile
    BY <2>1, <2>2 DEF HoldInv, Fresh
  <2>4. copy[r].list \in Seq(Value)
    BY <2>2 DEF ProfileDoc
  <2>13. PICK base \in submitted \cup {<<>>} : GrownFrom(base, copy[r].list)
    BY <2>1, <2>2 DEF ProfileKept, CopiesGrown, Grown
  <2>14. base \in Seq(Value)
    <3>1. base \in FormList \/ base = <<>>
      BY <2>13 DEF ProfileKept
    <3>2. <<>> \in Seq(Value) /\ FormList \subseteq Seq(Value)
      BY UserDocumentsAssumption DEF Value
    <3> QED
      BY <3>1, <3>2
  <2> HIDE DEF v
  <2>5. profile'.list = AddValue(copy[r].list, v)
    BY <2>1 DEF Learn
  <2>6. Words(copy[r].list) \cup {Folded(v)} \subseteq Words(AddValue(copy[r].list, v))
    BY <2>2, <2>4, AddValueWords
  <2>7. GrownFrom(base, AddValue(copy[r].list, v))
    BY <2>2, <2>4, <2>13, <2>14, AddValueGrows
  <2>8. ListGrownFromForm'
    BY <2>1, <2>5, <2>7 DEF ListGrownFromForm
  <2>9. "profile" \notin raced => known \subseteq Words(copy[r].list)
    BY <2>3 DEF ProfileKept, LearnedKept
  <2>10. "profile" \notin raced' => known' \subseteq Words(AddValue(copy[r].list, v))
    BY <2>1, <2>6, <2>9
  <2>11. LearnedKept'
    BY <2>5, <2>10 DEF LearnedKept
  <2>12. NothingWithoutDoc'
    BY <2>1 DEF Learn, NothingWithoutDoc
  <2> QED
    BY <2>1, <2>8, <2>11, <2>12 DEF ProfileKept
<1>4. ASSUME NEW r \in Request, SaveDetails(r) PROVE LearnedKept' /\ ListGrownFromForm' /\ NothingWithoutDoc' /\ submitted' \subseteq FormList
  <2>1. /\ pc[r] = "holding" /\ op[r].name = "form"
        /\ profile' = SaveForm(copy[r], op[r].list) /\ known' = Words(op[r].list)
        /\ submitted' = submitted \cup {op[r].list}
    BY <1>4 DEF SaveDetails
  <2>2. op[r].list \in FormList /\ op[r].list \in Seq(Value)
    BY <2>1, HeldUpdate, FormOps, UserDocumentsAssumption DEF Value
  <2>3. profile'.list = op[r].list /\ profile'.exists
    BY <2>1 DEF SaveForm
  <2>4. GrownFrom(op[r].list, profile'.list)
    BY <2>2, <2>3, GrownFromItself
  <2>5. ListGrownFromForm'
    BY <2>1, <2>4 DEF ListGrownFromForm
  <2>6. LearnedKept' /\ NothingWithoutDoc'
    BY <2>1, <2>3 DEF LearnedKept, NothingWithoutDoc
  <2> QED
    BY <2>1, <2>2, <2>5, <2>6 DEF ProfileKept
<1>5. ASSUME NEW r \in Request, EnsureUserDoc(r) PROVE LearnedKept' /\ ListGrownFromForm' /\ NothingWithoutDoc' /\ submitted' \subseteq FormList
  <2>1. /\ pc[r] = "holding" /\ op[r].name = "ensure" /\ raced' = raced /\ known' = known
        /\ submitted' = submitted
        /\ profile' = IF copy[r].exists THEN profile ELSE [exists |-> TRUE, list |-> <<>>]
    BY <1>5 DEF EnsureUserDoc, Release
  <2>2. CASE copy[r].exists
    BY <2>1, <2>2 DEF ProfileKept, LearnedKept, ListGrownFromForm, NothingWithoutDoc
  <2>3. CASE ~ copy[r].exists
    <3>1. profile'.list = <<>>
      BY <2>1, <2>3
    <3>2. op[r] \notin SessionOp
      BY <2>1, HeldUpdate
    <3>3. "profile" \notin raced => ~ profile.exists
      BY <2>1, <2>3, <3>2 DEF HoldInv, Fresh
    <3>4. "profile" \notin raced => profile'.list = profile.list
      BY <3>1, <3>3 DEF ProfileKept, NothingWithoutDoc
    <3>5. LearnedKept'
      BY <2>1, <3>4 DEF ProfileKept, LearnedKept
    <3>6. GrownFrom(<<>>, profile'.list)
      <4>1. <<>> \in Seq(Value)
        OBVIOUS
      <4> QED
        BY <3>1, <4>1, GrownFromItself
    <3>7. ListGrownFromForm'
      BY <3>6 DEF ListGrownFromForm
    <3> QED
      BY <2>1, <3>1, <3>5, <3>7 DEF ProfileKept, NothingWithoutDoc
  <2> QED
    BY <2>2, <2>3
<1>6. ASSUME UNCHANGED <<profile, known, submitted>>, raced \subseteq raced'
      PROVE LearnedKept' /\ ListGrownFromForm' /\ NothingWithoutDoc' /\ submitted' \subseteq FormList
  BY <1>6 DEF ProfileKept, LearnedKept, ListGrownFromForm, NothingWithoutDoc
<1>7. ASSUME NEW r \in Request,
             \/ Begin(r) \/ GiveUp(r) \/ \E o \in Update(kind[r]) : Load(r, o)
             \/ PersistTurn(r) \/ UpdateConstraints(r)
      PROVE  UNCHANGED <<profile, known, submitted>> /\ raced \subseteq raced'
  BY <1>7 DEF Begin, GiveUp, Load, PersistTurn, UpdateConstraints, Release, docVars,
              historyVars
<1>8. ASSUME NEW p \in Pod, Crash(p)
      PROVE  UNCHANGED <<profile, known, submitted>> /\ raced \subseteq raced'
  BY <1>8 DEF Crash, docVars, historyVars
<1>9. CASE UNCHANGED vars
  BY <1>6, <1>9 DEF vars, docVars, historyVars
<1> QED
  BY <1>3, <1>4, <1>5, <1>6, <1>7, <1>8, <1>9 DEF Next

LEMMA ProfileKeptAlways == Spec => []ProfileKept
<1>1. Init => HoldInv /\ ProfileKept
  BY HoldInit, NothingLearnedYet
<1>2. HoldInv /\ ProfileKept /\ [Next]_vars => HoldInv' /\ ProfileKept'
  BY HoldStep, CopiesStep, ProfileKeptStep DEF ProfileKept
<1> QED
  BY <1>1, <1>2, PTL DEF Spec

(* Nothing learned is lost, for any words, spellings, forms, uploads and crashes, unless
   two pods updated the profile at once (update_user_profile.py:31-38, 63-125). *)
THEOREM NothingLearnedLost == Spec => []LearnedKept
<1>1. ProfileKept => LearnedKept
  BY DEF ProfileKept
<1> QED
  BY <1>1, ProfileKeptAlways, PTL

(* Even when two pods race, the list is one that a form put, or none, followed by words it
   did not hold before (update_user_profile.py:31-38, 76-108). *)
THEOREM GrowsFromForm == Spec => []ListGrownFromForm
<1>1. ProfileKept => ListGrownFromForm
  BY DEF ProfileKept
<1> QED
  BY <1>1, ProfileKeptAlways, PTL
-----------------------------------------------------------------------------
(* The turns of the session and of every copy are drawn from what was put, in order. *)
Whole(seq) == seq \in Seq(Entry) /\ Len(seq) = 2 * (Len(seq) \div 2)

LEMMA EmptyIsDrawn == DrawnFrom(<<>>, <<>>) /\ Whole(<<>>)
<1>1. Len(<<>>) = 0 /\ 0 \div 2 = 0 /\ <<>> \in Seq(Entry)
  OBVIOUS
<1>2. 1..0 = {}
  OBVIOUS
<1>3. \E at \in [1..0 -> 1..0] : TRUE
  <2>1. [i \in {} |-> i] \in [{} -> {}]
    OBVIOUS
  <2> QED
    BY <1>2, <2>1
<1>4. PICK at \in [1..0 -> 1..0] : TRUE
  BY <1>3
<1>5. (\A i, j \in 1..0 : i < j => at[i] < at[j]) /\ \A i \in 1..0 : FALSE
  BY <1>2
<1>6. Len(<<>>) \div 2 = 0 /\ Len(<<>>) = 2 * 0
  BY <1>1
<1>7. DrawnFrom(<<>>, <<>>)
  BY <1>4, <1>5, <1>6, Zenon DEF DrawnFrom
<1> QED
  BY <1>1, <1>7 DEF Whole

LEMMA LongerByOne ==
    ASSUME NEW seq, Whole(seq), NEW r \in Request
    PROVE  /\ Whole(seq \o Exchange(r))
           /\ Len(seq) \div 2 \in Nat
           /\ Len(seq \o Exchange(r)) \div 2 = (Len(seq) \div 2) + 1
           /\ Len(seq \o Exchange(r)) = Len(seq) + 2
           /\ \A i \in 1..Len(seq) : (seq \o Exchange(r))[i] = seq[i]
           /\ (seq \o Exchange(r))[Len(seq) + 1] = <<r, "user">>
           /\ (seq \o Exchange(r))[Len(seq) + 2] = <<r, "assistant">>
<1> DEFINE two == Exchange(r)
<1>1. two \in Seq(Entry) /\ Len(two) = 2 /\ two[1] = <<r, "user">> /\ two[2] = <<r, "assistant">>
  BY DEF Exchange, Entry
<1> HIDE DEF two
<1>2. seq \in Seq(Entry) /\ Len(seq) \in Nat /\ Len(seq) = 2 * (Len(seq) \div 2)
  BY DEF Whole
<1>3. /\ seq \o two \in Seq(Entry) /\ Len(seq \o two) = Len(seq) + 2
      /\ \A i \in 1..Len(seq) : (seq \o two)[i] = seq[i]
      /\ (seq \o two)[Len(seq) + 1] = two[1] /\ (seq \o two)[Len(seq) + 2] = two[2]
  <2>1. /\ seq \o two \in Seq(Entry)
        /\ Len(seq \o two) = Len(seq) + Len(two)
        /\ \A i \in 1..(Len(seq) + Len(two)) :
               (seq \o two)[i] = IF i <= Len(seq) THEN seq[i] ELSE two[i - Len(seq)]
    BY <1>1, <1>2, ConcatProperties, Zenon
  <2> QED
    BY <1>1, <1>2, <2>1
<1>4. \A m \in Nat : m \div 2 \in Nat /\ (m + 2) \div 2 = (m \div 2) + 1
  OBVIOUS
<1>5. Len(seq) \div 2 \in Nat /\ Len(seq \o two) \div 2 = (Len(seq) \div 2) + 1
  BY <1>2, <1>3, <1>4
<1>6. Len(seq \o two) = 2 * (Len(seq \o two) \div 2)
  BY <1>2, <1>3, <1>5
<1> QED
  BY <1>1, <1>3, <1>5, <1>6 DEF two, Whole

(* What is drawn stays drawn when more is put, ... *)
LEMMA StillDrawn ==
    ASSUME NEW turns, NEW all, Whole(all), DrawnFrom(turns, all), NEW r \in Request
    PROVE  DrawnFrom(turns, all \o Exchange(r))
<1> DEFINE n == Len(turns) \div 2
           m == Len(all) \div 2
           more == all \o Exchange(r)
<1>1. PICK at \in [1..n -> 1..m] :
          /\ \A i, j \in 1..n : i < j => at[i] < at[j]
          /\ \A i \in 1..n : /\ turns[2 * i - 1] = all[2 * at[i] - 1]
                             /\ turns[2 * i] = all[2 * at[i]]
  BY DEF DrawnFrom
<1>2. Len(turns) = 2 * n
  BY DEF DrawnFrom
<1>3. m \in Nat /\ Len(all) = 2 * m /\ Len(more) \div 2 = m + 1
  BY LongerByOne DEF Whole
<1>4. \A k \in 1..m : more[2 * k - 1] = all[2 * k - 1] /\ more[2 * k] = all[2 * k]
  <2>1. \A k \in 1..Len(all) : more[k] = all[k]
    BY LongerByOne
  <2> HIDE DEF m, more
  <2> QED
    BY <1>3, <2>1
<1>5. at \in [1..n -> 1..(m + 1)]
  <2> HIDE DEF n, m
  <2> QED
    BY <1>1, <1>3
<1>6. \A i \in 1..n : turns[2 * i - 1] = more[2 * at[i] - 1] /\ turns[2 * i] = more[2 * at[i]]
  <2> HIDE DEF n, m, more
  <2> QED
    BY <1>1, <1>4
<1> QED
  BY <1>1, <1>2, <1>3, <1>5, <1>6, Zenon DEF DrawnFrom

(* ... and so are turns that end with the exchange that is put. *)
LEMMA DrawnWithLast ==
    ASSUME NEW turns, NEW all, Whole(turns), Whole(all), DrawnFrom(turns, all),
           NEW r \in Request
    PROVE  DrawnFrom(turns \o Exchange(r), all \o Exchange(r))
<1> DEFINE n == Len(turns) \div 2
           m == Len(all) \div 2
           longer == turns \o Exchange(r)
           more == all \o Exchange(r)
<1>1. PICK at \in [1..n -> 1..m] :
          /\ \A i, j \in 1..n : i < j => at[i] < at[j]
          /\ \A i \in 1..n : /\ turns[2 * i - 1] = all[2 * at[i] - 1]
                             /\ turns[2 * i] = all[2 * at[i]]
  BY DEF DrawnFrom
<1>2. /\ m \in Nat /\ Len(all) = 2 * m /\ Len(more) \div 2 = m + 1
      /\ n \in Nat /\ Len(turns) = 2 * n /\ Len(longer) \div 2 = n + 1
      /\ Len(longer) = 2 * n + 2
  BY LongerByOne DEF Whole
<1>3. /\ \A k \in 1..Len(all) : more[k] = all[k]
      /\ more[Len(all) + 1] = <<r, "user">> /\ more[Len(all) + 2] = <<r, "assistant">>
      /\ \A k \in 1..Len(turns) : longer[k] = turns[k]
      /\ longer[Len(turns) + 1] = <<r, "user">> /\ longer[Len(turns) + 2] = <<r, "assistant">>
  BY LongerByOne
<1> DEFINE too == [i \in 1..(n + 1) |-> IF i = n + 1 THEN m + 1 ELSE at[i]]
<1> HIDE DEF longer, more, n, m
<1>5. too \in [1..(n + 1) -> 1..(m + 1)]
  BY <1>1, <1>2
<1>6. /\ too[n + 1] = m + 1
      /\ \A i \in 1..n : too[i] = at[i] /\ at[i] \in 1..m
  BY <1>1, <1>2
<1> HIDE DEF too
<1>7. \A i, j \in 1..(n + 1) : i < j => too[i] < too[j]
  <2> SUFFICES ASSUME NEW i \in 1..(n + 1), NEW j \in 1..(n + 1), i < j
               PROVE  too[i] < too[j]
    OBVIOUS
  <2>1. i \in 1..n /\ too[i] = at[i] /\ at[i] \in 1..m
    BY <1>2, <1>6
  <2>2. CASE j = n + 1
    BY <1>2, <1>6, <2>1, <2>2
  <2>3. CASE j \in 1..n
    BY <1>1, <1>6, <2>1, <2>3
  <2> QED
    BY <1>2, <2>2, <2>3
<1>8. \A i \in 1..n : longer[2 * i - 1] = more[2 * too[i] - 1] /\ longer[2 * i] = more[2 * too[i]]
  <2> SUFFICES ASSUME NEW i \in 1..n
               PROVE  longer[2 * i - 1] = more[2 * too[i] - 1] /\ longer[2 * i] = more[2 * too[i]]
    OBVIOUS
  <2>1. longer[2 * i - 1] = turns[2 * i - 1] /\ longer[2 * i] = turns[2 * i]
    BY <1>2, <1>3
  <2>2. at[i] \in 1..m /\ too[i] = at[i]
    BY <1>6
  <2>3. more[2 * at[i] - 1] = all[2 * at[i] - 1] /\ more[2 * at[i]] = all[2 * at[i]]
    BY <1>2, <1>3, <2>2
  <2> QED
    BY <1>1, <2>1, <2>2, <2>3
<1>9. /\ longer[2 * (n + 1) - 1] = more[2 * too[n + 1] - 1]
      /\ longer[2 * (n + 1)] = more[2 * too[n + 1]]
  <2>1. /\ 2 * (n + 1) - 1 = Len(turns) + 1 /\ 2 * (n + 1) = Len(turns) + 2
        /\ 2 * (m + 1) - 1 = Len(all) + 1 /\ 2 * (m + 1) = Len(all) + 2
    BY <1>2
  <2> QED
    BY <1>3, <1>6, <2>1, Zenon
<1>10. \A i \in 1..(n + 1) : /\ longer[2 * i - 1] = more[2 * too[i] - 1]
                              /\ longer[2 * i] = more[2 * too[i]]
  <2> SUFFICES ASSUME NEW i \in 1..(n + 1)
               PROVE  /\ longer[2 * i - 1] = more[2 * too[i] - 1]
                      /\ longer[2 * i] = more[2 * too[i]]
    OBVIOUS
  <2>1. i \in 1..n \/ i = n + 1
    BY <1>2
  <2> QED
    BY <1>8, <1>9, <2>1
<1>11. Len(longer) = 2 * (n + 1)
  BY <1>2
<1>12. DrawnFrom(longer, more)
  <2> DEFINE nn == Len(longer) \div 2
             mm == Len(more) \div 2
  <2>1. nn = n + 1 /\ mm = m + 1
    BY <1>2
  <2> HIDE DEF nn, mm
  <2>2. /\ Len(longer) = 2 * nn
        /\ too \in [1..nn -> 1..mm]
        /\ \A i, j \in 1..nn : i < j => too[i] < too[j]
        /\ \A i \in 1..nn : /\ longer[2 * i - 1] = more[2 * too[i] - 1]
                            /\ longer[2 * i] = more[2 * too[i]]
    BY <1>5, <1>7, <1>10, <1>11, <2>1, Zenon
  <2> QED
    BY <2>2, Zenon DEF DrawnFrom, nn, mm
<1> QED
  BY <1>12 DEF longer, more

(* The invariant: of every copy of the session document, and of the document itself. *)
Drawn ==
    /\ Whole(written)
    /\ Whole(session.turns) /\ DrawnFrom(session.turns, written)
    /\ \A r \in Request : pc[r] = "holding" /\ op[r] \in SessionOp =>
           Whole(copy[r].turns) /\ DrawnFrom(copy[r].turns, written)

LEMMA DrawnStep ==
    ASSUME HoldInv, Drawn, [Next]_vars
    PROVE  Drawn'
<1>1. ASSUME UNCHANGED written, session'.turns = session.turns,
             \A s \in Request : pc'[s] = "holding" =>
                 pc[s] = "holding" /\ op'[s] = op[s] /\ copy'[s] = copy[s]
      PROVE  Drawn'
  BY <1>1 DEF Drawn
<1>2. ASSUME NEW r \in Request, Begin(r) \/ GiveUp(r) PROVE Drawn'
  BY <1>1, <1>2 DEF Begin, GiveUp, Goto, HoldInv, TypeOK, docVars, historyVars
<1>3. ASSUME NEW r \in Request, NEW o \in Update(kind[r]), Load(r, o) PROVE Drawn'
  <2>1. UNCHANGED <<written, session>>
    BY <1>3 DEF Load, docVars
  <2>2. \A s \in Request \ {r} : pc'[s] = pc[s] /\ op'[s] = op[s] /\ copy'[s] = copy[s]
    BY <1>3 DEF Load, Goto, HoldInv, TypeOK
  <2>3. op'[r] = o /\ (o \in SessionOp => copy'[r] = session)
    BY <1>3 DEF Load, HoldInv, TypeOK
  <2> QED
    BY <2>1, <2>2, <2>3 DEF Drawn
<1>4. ASSUME NEW r \in Request, UpdateConstraints(r) PROVE Drawn'
  <2>1. /\ pc[r] = "holding" /\ op[r].name = "constrain" /\ Release(r, "open")
        /\ session' = WithConstraint(copy[r], r) /\ written' = written
    BY <1>4 DEF UpdateConstraints
  <2>2. op[r] \in SessionOp /\ copy[r] \in SessionDoc
    BY <2>1, HeldUpdate
  <2>3. session'.turns = copy[r].turns
    BY <2>1, <2>2 DEF WithConstraint, SessionDoc
  <2>4. \A s \in Request : pc'[s] = "holding" =>
            pc[s] = "holding" /\ op'[s] = op[s] /\ copy'[s] = copy[s]
    BY <2>1, ReleaseFrame
  <2> QED
    BY <2>1, <2>2, <2>3, <2>4 DEF Drawn
<1>5. ASSUME NEW r \in Request, PersistTurn(r) PROVE Drawn'
  <2>1. /\ pc[r] = "holding" /\ op[r].name = "persist" /\ Release(r, "over")
        /\ session' = WithTurn(copy[r], r) /\ written' = written \o Exchange(r)
    BY <1>5 DEF PersistTurn
  <2>2. op[r] \in SessionOp /\ copy[r] \in SessionDoc
    BY <2>1, HeldUpdate
  <2>3. session'.turns = copy[r].turns \o Exchange(r)
    BY <2>1, <2>2 DEF WithTurn, SessionDoc
  <2>4. \A s \in Request : pc'[s] = "holding" =>
            pc[s] = "holding" /\ op'[s] = op[s] /\ copy'[s] = copy[s]
    BY <2>1, ReleaseFrame
  <2>5. Whole(written) /\ Whole(copy[r].turns) /\ DrawnFrom(copy[r].turns, written)
    BY <2>1, <2>2 DEF Drawn
  <2>6. Whole(written \o Exchange(r)) /\ Whole(copy[r].turns \o Exchange(r))
    BY <2>5, LongerByOne
  <2>7. DrawnFrom(copy[r].turns \o Exchange(r), written \o Exchange(r))
    BY <2>5, DrawnWithLast
  <2>8. \A s \in Request : pc[s] = "holding" /\ op[s] \in SessionOp =>
            DrawnFrom(copy[s].turns, written \o Exchange(r))
    BY <2>5, StillDrawn DEF Drawn
  <2> QED
    BY <2>1, <2>3, <2>4, <2>6, <2>7, <2>8 DEF Drawn
<1>6. ASSUME NEW r \in Request, UpdateProfile(r) \/ SaveDetails(r) \/ EnsureUserDoc(r)
      PROVE  Drawn'
  <2>1. UNCHANGED <<written, session>> /\ pc[r] = "holding"
        /\ (Release(r, "open") \/ Release(r, "over"))
    BY <1>6 DEF UpdateProfile, SaveDetails, EnsureUserDoc
  <2>2. \A s \in Request : pc'[s] = "holding" =>
            pc[s] = "holding" /\ op'[s] = op[s] /\ copy'[s] = copy[s]
    BY <2>1, ReleaseFrame
  <2> QED
    BY <1>1, <2>1, <2>2
<1>7. ASSUME NEW p \in Pod, Crash(p) PROVE Drawn'
  BY <1>1, <1>7 DEF Crash, HoldInv, TypeOK, docVars, historyVars
<1>8. CASE UNCHANGED vars
  BY <1>1, <1>8 DEF vars, requestVars, docVars, historyVars
<1> QED
  BY <1>2, <1>3, <1>4, <1>5, <1>6, <1>7, <1>8 DEF Next

(* Whatever the pods' races lose, no exchange is torn, repeated or out of order, for any
   number of requests and pods (save_conversation.py:40-52). *)
THEOREM TurnsDrawn == Spec => []TurnsAreWritten
<1>1. Init => HoldInv /\ Drawn
  <2> SUFFICES ASSUME Init PROVE HoldInv /\ Drawn
    OBVIOUS
  <2>1. session.turns = <<>> /\ written = <<>> /\ \A r \in Request : pc[r] = "new"
    BY DEF Init, NoSession
  <2> QED
    BY <2>1, HoldInit, EmptyIsDrawn DEF Drawn
<1>2. HoldInv /\ Drawn /\ [Next]_vars => HoldInv' /\ Drawn'
  BY HoldStep, DrawnStep
<1>3. Drawn => TurnsAreWritten
  BY DEF Drawn, TurnsAreWritten
<1> QED
  BY <1>1, <1>2, <1>3, PTL DEF Spec
=============================================================================
