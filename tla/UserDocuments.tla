--------------------------- MODULE UserDocuments ---------------------------
(***************************************************************************)
(* The two documents the agent keeps of a user, Sessions and Users, and    *)
(* the requests that rewrite them: chat turns, which append their exchange *)
(* and may call update_constraints and update_user_profile; the Profile    *)
(* screen's form; and attachment uploads, which create the user document   *)
(* if there is none.                                                       *)
(*                                                                         *)
(* Every update loads the whole document and later puts the whole document *)
(* back, in two requests to RavenDB and without optimistic concurrency.    *)
(* Inside one pod nothing else runs in between: both are synchronous calls *)
(* on the event loop.  The k8s deployment runs two pods, and their updates *)
(* may overlap: raced is the history of the documents this happened to.    *)
(***************************************************************************)
EXTENDS Naturals, Sequences

CONSTANTS
    Request,      \* the HTTP requests
    NoRequest,    \* nobody is on a pod's event loop
    Pod,          \* the agent pods
    Word,         \* entries of a profile list, folded to lower case
    Spelling,     \* the ways to write an entry
    FormList,     \* bound: the lists that the form submits
    MaxCrashes    \* bound: pods that die in a behaviour

ASSUME UserDocumentsAssumption ==
    /\ NoRequest \notin Request
    /\ FormList \subseteq Seq(Word \X Spelling)
    /\ MaxCrashes \in Nat

VARIABLES
    kind,         \* what each request is: "chat", "form" or "upload"
    pod,          \* the pod that serves it
    pc,           \* its control point
    op,           \* the update it is in the middle of
    copy,         \* the document it loaded for it
    loop,         \* for each pod, the request that holds the event loop
    session,      \* the Sessions document: turns and active_constraints
    profile,      \* the Users document: whether it exists, and a list field
    crashes,      \* pods that died so far
    written,      \* history: the exchanges put, in order
    constrained,  \* history: the constraints put
    known,        \* history: the words learned, since the form was last saved
    submitted,    \* history: the lists the form has put
    raced         \* history: the documents of which two updates overlapped

requestVars == <<kind, pod, pc, op, copy>>
docVars == <<session, profile>>
historyVars == <<written, constrained, known, submitted, raced>>
vars == <<requestVars, loop, docVars, crashes, historyVars>>

Value == Word \X Spelling
Folded(v) == v[1]
Words(list) == {Folded(list[i]) : i \in DOMAIN list}

(* An exchange is two entries of the session's turns, the user's and the assistant's. *)
Exchange(r) == <<<<r, "user">>, <<r, "assistant">>>>
Entry == Request \X {"user", "assistant"}

NoSession == [turns |-> <<>>, constraints |-> {}]
NoProfile == [exists |-> FALSE, list |-> <<>>]

NoOp == [name |-> "none"]
SessionOp == {[name |-> "persist"], [name |-> "constrain"]}
LearnOp == {[name |-> "learn", value |-> v] : v \in Value}
FormOp == {[name |-> "form", list |-> l] : l \in FormList}
EnsureOp == {[name |-> "ensure"]}
DocOf(o) == IF o \in SessionOp THEN "session" ELSE "profile"

(* The updates a request may make: the tools a chat can call, and its exchange. *)
Update(k) ==
    CASE k = "chat"   -> SessionOp \cup LearnOp
      [] k = "form"   -> FormOp
      [] k = "upload" -> EnsureOp

Op == SessionOp \cup LearnOp \cup FormOp \cup EnsureOp \cup {NoOp}

SessionDoc == [turns : Seq(Entry), constraints : SUBSET Request]
ProfileDoc == [exists : BOOLEAN, list : Seq(Value)]

TypeOK ==
    /\ kind \in [Request -> {"chat", "form", "upload"}]
    /\ pod \in [Request -> Pod]
    /\ pc \in [Request -> {"new", "open", "holding", "over"}]
    /\ op \in [Request -> Op]
    /\ \A r \in Request : op[r] \in Update(kind[r]) \cup {NoOp}
    /\ copy \in [Request -> SessionDoc \cup ProfileDoc]
    /\ loop \in [Pod -> Request \cup {NoRequest}]
    /\ \A p \in Pod : loop[p] # NoRequest => pod[loop[p]] = p
    /\ \A r \in Request : pc[r] = "holding" <=> loop[pod[r]] = r
    /\ session \in SessionDoc
    /\ profile \in ProfileDoc
    /\ crashes \in 0..MaxCrashes
    /\ raced \subseteq {"session", "profile"}

Init ==
    /\ kind \in [Request -> {"chat", "form", "upload"}]
    /\ pod \in [Request -> Pod]
    /\ pc = [r \in Request |-> "new"]
    /\ op = [r \in Request |-> NoOp]
    /\ copy = [r \in Request |-> NoSession]
    /\ loop = [p \in Pod |-> NoRequest]
    /\ session = NoSession
    /\ profile = NoProfile
    /\ crashes = 0
    /\ written = <<>>
    /\ constrained = {}
    /\ known = {}
    /\ submitted = {}
    /\ raced = {}
-----------------------------------------------------------------------------
(* The updates, as functions of the loaded document. *)

(* A wrong variant of WithTurn: the newest exchange first. *)
MutWithTurn(doc, r) == [doc EXCEPT !.turns = Exchange(r) \o @]
WithTurn(doc, r) == [doc EXCEPT !.turns = @ \o Exchange(r)]

(* A wrong variant of WithConstraint: a fresh session document. *)
MutWithConstraint(doc, r) == [NoSession EXCEPT !.constraints = doc.constraints \cup {r}]
WithConstraint(doc, r) == [doc EXCEPT !.constraints = @ \cup {r}]

(* One value of a call is merged: a call with several does it for one after the other,
   before its one put.  A wrong variant of AddValue: spellings are compared. *)
MutAddValue(list, v) == IF v \in {list[i] : i \in DOMAIN list} THEN list ELSE Append(list, v)
AddValue(list, v) == IF Folded(v) \in Words(list) THEN list ELSE Append(list, v)

(* A wrong variant of Learn: the new values replace the list. *)
MutLearn(doc, v) == [exists |-> TRUE, list |-> <<v>>]
Learn(doc, v) == [exists |-> TRUE, list |-> AddValue(doc.list, v)]
SaveForm(doc, list) == [exists |-> TRUE, list |-> list]
-----------------------------------------------------------------------------
Goto(r, l) == pc' = [pc EXCEPT ![r] = l]

(* A request arrives; a chat's context is loaded, and its turn is then under way. *)
Begin(r) ==
    /\ pc[r] = "new"
    /\ loop[pod[r]] = NoRequest
    /\ Goto(r, "open")
    /\ UNCHANGED <<kind, pod, op, copy, loop, docVars, crashes, historyVars>>

(* The agent fails, or the client of a stream leaves: nothing is stored. *)
GiveUp(r) ==
    /\ pc[r] = "open"
    /\ Goto(r, "over")
    /\ UNCHANGED <<kind, pod, op, copy, loop, docVars, crashes, historyVars>>

Holds(r, d) == pc[r] = "holding" /\ DocOf(op[r]) = d

(* The other pod is between the two halves of an update of the same document. *)
Races(r, o) == \E s \in Request : pod[s] # pod[r] /\ Holds(s, DocOf(o))

(* A wrong variant of Load: an await between the two halves of an update. *)
MutLoad(r, o) ==
    /\ pc[r] = "open"
    /\ loop[pod[r]] = NoRequest
    /\ Goto(r, "holding")
    /\ op' = [op EXCEPT ![r] = o]
    /\ copy' = [copy EXCEPT ![r] = IF o \in SessionOp THEN session ELSE profile]
    /\ raced' = IF Races(r, o) THEN raced \cup {DocOf(o)} ELSE raced
    /\ UNCHANGED <<kind, pod, loop, docVars, crashes, written, constrained, known, submitted>>

(* The first half of an update: the document is loaded.  The event loop is not given up
   until the second half. *)
Load(r, o) ==
    /\ pc[r] = "open"
    /\ loop[pod[r]] = NoRequest
    /\ loop' = [loop EXCEPT ![pod[r]] = r]
    /\ Goto(r, "holding")
    /\ op' = [op EXCEPT ![r] = o]
    /\ copy' = [copy EXCEPT ![r] = IF o \in SessionOp THEN session ELSE profile]
    /\ raced' = IF Races(r, o) THEN raced \cup {DocOf(o)} ELSE raced
    /\ UNCHANGED <<kind, pod, docVars, crashes, written, constrained, known, submitted>>

(* The update is through; a tool call's gives the turn back to the model. *)
Release(r, l) ==
    /\ Goto(r, l)
    /\ loop' = [loop EXCEPT ![pod[r]] = NoRequest]
    /\ op' = [op EXCEPT ![r] = NoOp]
    /\ copy' = [copy EXCEPT ![r] = NoSession]
    /\ UNCHANGED <<kind, pod, crashes, raced>>

PersistTurn(r) ==
    /\ pc[r] = "holding" /\ op[r].name = "persist"
    /\ session' = WithTurn(copy[r], r)
    /\ written' = written \o Exchange(r)
    /\ Release(r, "over")
    /\ UNCHANGED <<profile, constrained, known, submitted>>

UpdateConstraints(r) ==
    /\ pc[r] = "holding" /\ op[r].name = "constrain"
    /\ session' = WithConstraint(copy[r], r)
    /\ constrained' = constrained \cup {r}
    /\ Release(r, "open")
    /\ UNCHANGED <<profile, written, known, submitted>>

UpdateProfile(r) ==
    /\ pc[r] = "holding" /\ op[r].name = "learn"
    /\ profile' = Learn(copy[r], op[r].value)
    /\ known' = known \cup {Folded(op[r].value)}
    /\ Release(r, "open")
    /\ UNCHANGED <<session, written, constrained, submitted>>

SaveDetails(r) ==
    /\ pc[r] = "holding" /\ op[r].name = "form"
    /\ profile' = SaveForm(copy[r], op[r].list)
    /\ known' = Words(op[r].list)
    /\ submitted' = submitted \cup {op[r].list}
    /\ Release(r, "over")
    /\ UNCHANGED <<session, written, constrained>>

(* _ensure_user_doc: nothing is put if the document was there. *)
EnsureUserDoc(r) ==
    /\ pc[r] = "holding" /\ op[r].name = "ensure"
    /\ profile' = IF copy[r].exists THEN profile ELSE [exists |-> TRUE, list |-> <<>>]
    /\ Release(r, "over")
    /\ UNCHANGED <<session, written, constrained, known, submitted>>

(* A pod dies with the requests it serves, and is replaced. *)
Crash(p) ==
    /\ crashes < MaxCrashes
    /\ crashes' = crashes + 1
    /\ loop' = [loop EXCEPT ![p] = NoRequest]
    /\ pc' = [r \in Request |-> IF pod[r] = p /\ pc[r] # "new" THEN "over" ELSE pc[r]]
    /\ op' = [r \in Request |-> IF pod[r] = p THEN NoOp ELSE op[r]]
    /\ copy' = [r \in Request |-> IF pod[r] = p THEN NoSession ELSE copy[r]]
    /\ UNCHANGED <<kind, pod, docVars, historyVars>>

Next ==
    \/ \E r \in Request :
          \/ Begin(r)
          \/ GiveUp(r)
          \/ \E o \in Update(kind[r]) : Load(r, o)
          \/ PersistTurn(r)
          \/ UpdateConstraints(r)
          \/ UpdateProfile(r)
          \/ SaveDetails(r)
          \/ EnsureUserDoc(r)
    \/ \E p \in Pod : Crash(p)

Spec == Init /\ [][Next]_vars
-----------------------------------------------------------------------------
(* Correctness. *)

(* No exchange is lost unless two pods updated the session document at once: its turns are
   the exchanges that were put, each whole and in order, whatever turns, tool calls,
   updates of the other document and crashes interleave (save_conversation.py:40-52). *)
TurnsKept == "session" \notin raced => session.turns = written

(* No constraint is lost either: storing a turn does not undo what a tool call of another
   turn of the same session reported (save_conversation.py:55-69). *)
ConstraintsKept == "session" \notin raced => session.constraints = constrained

(* Every word learned since the user last saved the form is in the list, in some spelling,
   unless two pods updated the profile at once (update_user_profile.py:31-38, 63-125). *)
LearnedKept == "profile" \notin raced => known \subseteq Words(profile.list)

(* "Earlier values are never dropped by a later call" (update_user_profile.py:16-17), said
   of the deployment's two pods without a condition. *)
NeverDropped == known \subseteq Words(profile.list)

(* What holds whatever the pods do: the turns are exchanges that were put, whole, each at
   most once and in the order they were put, although some may be missing. *)
DrawnFrom(turns, all) ==
    LET n == Len(turns) \div 2 IN
    /\ Len(turns) = 2 * n
    /\ \E at \in [1..n -> 1..(Len(all) \div 2)] :
          /\ \A i, j \in 1..n : i < j => at[i] < at[j]
          /\ \A i \in 1..n : /\ turns[2 * i - 1] = all[2 * at[i] - 1]
                             /\ turns[2 * i] = all[2 * at[i]]

TurnsAreWritten == DrawnFrom(session.turns, written)

(* Whatever spellings are learned in whatever order, and whichever pod's put wins: the list
   is one that a form put, or none, followed by learned words, none of which the list held
   before.  The form's own part may hold a word twice: SaveForm stores what was submitted
   (update_user_profile.py:31-38, 76-108). *)
GrownFrom(base, list) ==
    /\ Len(base) <= Len(list)
    /\ \A i \in 1..Len(base) : list[i] = base[i]
    /\ \A i \in 1..Len(list), j \in (Len(base) + 1)..Len(list) :
          Folded(list[i]) = Folded(list[j]) => i = j

ListGrownFromForm == \E base \in submitted \cup {<<>>} : GrownFrom(base, profile.list)
=============================================================================
