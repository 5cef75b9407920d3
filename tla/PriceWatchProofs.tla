-------------------------- MODULE PriceWatchProofs --------------------------
(***************************************************************************)
(* Proofs about PriceWatch, for every set of routes, prices and workers    *)
(* and every request cap.                                                  *)
(***************************************************************************)
EXTENDS PriceWatch, FiniteSetTheorems, TLAPS

(* A candidate is a document, written at some etag. *)
DocInv ==
    \A r \in Route :
       /\ hot[r] => price[r] \in Price /\ ver[r] > 0
       /\ ver[r] <= etag

(* Only the holder of the subscription is idle in it, and a worker that is down or
   waiting does not hold it. *)
HolderInv ==
    \A w \in Worker :
       /\ pc[w] = "idle" => holder = w
       /\ pc[w] \in {"down", "waiting"} => holder # w

(* Acknowledging a batch acknowledges no etag still to come. *)
UpToInv == \A w \in Worker : upTo[w] <= etag

(* As long as a worker's connection lives, its batch holds the current version of every
   candidate its acknowledgement would pass. *)
BatchInv ==
    \A w \in Worker : pc[w] \in {"handling", "saved"} /\ holder = w =>
       \A r \in Route : hot[r] /\ ver[r] <= upTo[w] /\ ver[r] > cursor =>
          r \in DOMAIN batch[w] /\ batch[w][r].ver = ver[r]

(* A saved batch has been compared. *)
SavedInv ==
    \A w \in Worker : pc[w] = "saved" =>
       \A r \in DOMAIN batch[w] : seenVer[r] >= batch[w][r].ver

IInv == TypeOK /\ DocInv /\ HolderInv /\ UpToInv /\ BatchInv /\ SavedInv /\ NoVersionSkipped
-----------------------------------------------------------------------------
(* An element of a set of partial functions has its domain in the one set and its values
   in the other. *)
LEMMA PartialFunctionsType ==
    ASSUME NEW S, NEW T, NEW f \in PartialFunctions(S, T)
    PROVE  /\ DOMAIN f \subseteq S
           /\ f = [x \in DOMAIN f |-> f[x]]
           /\ \A x \in DOMAIN f : f[x] \in T
BY DEF PartialFunctions

LEMMA PartialFunctionsIntro ==
    ASSUME NEW S, NEW T, NEW D \in SUBSET S, NEW f \in [D -> T]
    PROVE  f \in PartialFunctions(S, T)
BY DEF PartialFunctions

LEMMA EmptyIsPartial == ASSUME NEW S, NEW T PROVE Empty \in PartialFunctions(S, T)
<1>1. Empty \in [{} -> T]
  BY DEF Empty
<1> QED BY <1>1, PartialFunctionsIntro

(* The type of the worker's own variables is preserved when one worker forgets its session. *)
LEMMA ClearSessionType ==
    ASSUME TypeOK, NEW w \in Worker, ClearSession(w)
    PROVE  /\ batch' \in [Worker -> PartialFunctions(Route, Sent)]
           /\ upTo' \in [Worker -> 0..MaxWrites]
           /\ compared' \in [Worker -> PartialFunctions(Route, Comparison)]
           /\ requests' \in [Worker -> 0..MaxRequests]
<1>1. Empty \in PartialFunctions(Route, Sent) /\ Empty \in PartialFunctions(Route, Comparison)
  BY EmptyIsPartial
<1>2. batch' \in [Worker -> PartialFunctions(Route, Sent)]
  BY <1>1 DEF TypeOK, ClearSession
<1>3. compared' \in [Worker -> PartialFunctions(Route, Comparison)]
  BY <1>1 DEF TypeOK, ClearSession
<1>4. upTo' \in [Worker -> 0..MaxWrites] /\ requests' \in [Worker -> 0..MaxRequests]
  BY PriceWatchAssumption DEF TypeOK, ClearSession
<1> QED BY <1>2, <1>3, <1>4
-----------------------------------------------------------------------------
LEMMA InitInv == Init => IInv
<1> SUFFICES ASSUME Init PROVE IInv
  OBVIOUS
<1>1. TypeOK
  <2>1. Empty \in PartialFunctions(Route, Sent) /\ Empty \in PartialFunctions(Route, Comparison)
    BY EmptyIsPartial
  <2>2. \A r \in Route : alerted[r] \in Seq(Alert)
    BY DEF Init
  <2> QED BY <2>1, <2>2, PriceWatchAssumption DEF Init, TypeOK
<1>2. DocInv /\ HolderInv /\ UpToInv /\ BatchInv /\ SavedInv /\ NoVersionSkipped
  BY PriceWatchAssumption
  DEF Init, DocInv, HolderInv, UpToInv, BatchInv, SavedInv, NoVersionSkipped
<1> QED BY <1>1, <1>2 DEF IInv

LEMMA StutterInv == ASSUME IInv, UNCHANGED vars PROVE IInv'
<1> USE DEF IInv, vars, docVars, subVars, sessionVars, outVars
<1>1. TypeOK'
  BY DEF TypeOK
<1>2. DocInv' /\ HolderInv' /\ UpToInv' /\ BatchInv' /\ SavedInv' /\ NoVersionSkipped'
  BY DEF DocInv, HolderInv, UpToInv, BatchInv, SavedInv, NoVersionSkipped
<1> QED BY <1>1, <1>2

LEMMA PublishInv ==
    ASSUME IInv, NEW r \in Route, NEW p \in Price, NEW h \in BOOLEAN, Publish(r, p, h)
    PROVE  IInv'
<1> USE PriceWatchAssumption DEF IInv, Publish, docVars, subVars, sessionVars, outVars
<1>1. etag' \in 1..MaxWrites /\ etag' = etag + 1 /\ etag \in Nat /\ cursor \in 0..etag
  BY DEF TypeOK
<1>2. TypeOK'
  <2>1. published' \subseteq Version
    BY <1>1 DEF TypeOK, Version
  <2> QED BY <1>1, <2>1 DEF TypeOK
<1>3. DocInv'
  BY <1>1 DEF TypeOK, DocInv
<1>4. HolderInv'
  BY DEF HolderInv
<1>5. UpToInv' /\ SavedInv'
  BY <1>1 DEF TypeOK, UpToInv, SavedInv
<1>6. BatchInv'
  <2>1. \A w \in Worker : upTo[w] < ver'[r]
    BY <1>1 DEF TypeOK, UpToInv
  <2>2. \A q \in Route \ {r} : hot'[q] = hot[q] /\ ver'[q] = ver[q]
    BY DEF TypeOK
  <2> QED BY <2>1, <2>2, <1>1 DEF BatchInv, TypeOK
<1>7. NoVersionSkipped'
  BY <1>1 DEF TypeOK, NoVersionSkipped
<1> QED BY <1>2, <1>3, <1>4, <1>5, <1>6, <1>7

LEMMA PurgeInv == ASSUME IInv, NEW r \in Route, Purge(r) PROVE IInv'
<1> USE PriceWatchAssumption DEF IInv, Purge, docVars, subVars, sessionVars, outVars
<1>1. TypeOK'
  BY DEF TypeOK
<1>2. DocInv' /\ UpToInv'
  BY DEF TypeOK, DocInv, UpToInv
<1>3. HolderInv' /\ SavedInv'
  BY DEF HolderInv, SavedInv
<1>4. BatchInv' /\ NoVersionSkipped'
  BY DEF TypeOK, BatchInv, NoVersionSkipped
<1> QED BY <1>1, <1>2, <1>3, <1>4

LEMMA ExpireAlertInv == ASSUME IInv, ExpireAlert PROVE IInv'
<1> USE DEF IInv, ExpireAlert, docVars, subVars, sessionVars
<1>1. TypeOK'
  BY DEF TypeOK
<1>2. DocInv' /\ HolderInv' /\ UpToInv' /\ BatchInv' /\ SavedInv' /\ NoVersionSkipped'
  BY DEF DocInv, HolderInv, UpToInv, BatchInv, SavedInv, NoVersionSkipped
<1> QED BY <1>1, <1>2

LEMMA TickInv == ASSUME IInv, Tick PROVE IInv'
<1> USE PriceWatchAssumption DEF IInv, Tick, docVars, subVars, sessionVars, outVars
<1>1. TypeOK'
  BY DEF TypeOK
<1>2. DocInv' /\ HolderInv' /\ UpToInv' /\ BatchInv' /\ SavedInv' /\ NoVersionSkipped'
  BY DEF DocInv, HolderInv, UpToInv, BatchInv, SavedInv, NoVersionSkipped
<1> QED BY <1>1, <1>2

LEMMA StartInv == ASSUME IInv, NEW w \in Worker, Start(w) PROVE IInv'
<1> USE DEF IInv, Start, Goto, docVars, subVars, sessionVars, outVars
<1>1. TypeOK'
  BY DEF TypeOK
<1>2. DocInv' /\ UpToInv' /\ NoVersionSkipped'
  BY DEF DocInv, UpToInv, NoVersionSkipped
<1>3. HolderInv' /\ BatchInv' /\ SavedInv'
  BY DEF TypeOK, HolderInv, BatchInv, SavedInv
<1> QED BY <1>1, <1>2, <1>3

LEMMA OpenInv == ASSUME IInv, NEW w \in Worker, Open(w) PROVE IInv'
<1> USE PriceWatchAssumption DEF IInv, Open, Goto, docVars, sessionVars, outVars
<1>1. TypeOK'
  BY DEF TypeOK
<1>2. DocInv' /\ UpToInv' /\ NoVersionSkipped'
  BY DEF DocInv, UpToInv, NoVersionSkipped
<1>3. HolderInv' /\ BatchInv' /\ SavedInv'
  BY DEF TypeOK, HolderInv, BatchInv, SavedInv
<1> QED BY <1>1, <1>2, <1>3

LEMMA DeliverInv == ASSUME IInv, NEW w \in Worker, Deliver(w) PROVE IInv'
<1> USE PriceWatchAssumption DEF IInv, Deliver, Goto, docVars, subVars, outVars
<1>1. \A r \in Pending : [ver |-> ver[r], price |-> price[r]] \in Sent
  BY DEF TypeOK, DocInv, Pending, Sent
<1>2. batch'[w] \in PartialFunctions(Route, Sent)
  <2>1. batch'[w] = [r \in Pending |-> [ver |-> ver[r], price |-> price[r]]]
    BY DEF TypeOK
  <2>2. Pending \in SUBSET Route /\ batch'[w] \in [Pending -> Sent]
    BY <1>1, <2>1 DEF Pending
  <2> QED BY <2>2, PartialFunctionsIntro
<1>3. TypeOK'
  <2>1. batch' \in [Worker -> PartialFunctions(Route, Sent)]
    BY <1>2 DEF TypeOK
  <2>2. etag \in 0..MaxWrites
    BY DEF TypeOK
  <2> QED BY <2>1, <2>2 DEF TypeOK
<1>4. DocInv' /\ NoVersionSkipped'
  BY DEF DocInv, NoVersionSkipped
<1>5. HolderInv' /\ UpToInv' /\ SavedInv'
  BY DEF TypeOK, HolderInv, UpToInv, SavedInv
<1>6. BatchInv'
  <2>1. \A v \in Worker : v # w => pc'[v] = pc[v] /\ batch'[v] = batch[v] /\ upTo'[v] = upTo[v]
    BY DEF TypeOK
  <2>2. \A r \in Route : hot[r] /\ ver[r] > cursor =>
           r \in DOMAIN batch'[w] /\ batch'[w][r].ver = ver[r]
    BY DEF TypeOK, Pending
  <2> QED BY <2>1, <2>2 DEF BatchInv
<1> QED BY <1>3, <1>4, <1>5, <1>6

LEMMA LoadStateInv ==
    ASSUME IInv, NEW w \in Worker, NEW r \in Route, LoadState(w, r)
    PROVE  IInv'
<1> USE PriceWatchAssumption DEF IInv, LoadState, docVars, subVars, outVars
<1>1. compared' \in [Worker -> PartialFunctions(Route, Comparison)]
  <2> DEFINE D == DOMAIN compared[w] \cup {r}
             c == [q \in D |-> IF q = r THEN [last |-> lastPrice[r], at |-> clock]
                               ELSE compared[w][q]]
  <2>1. compared[w] \in PartialFunctions(Route, Comparison)
    BY DEF TypeOK
  <2>2. /\ DOMAIN compared[w] \subseteq Route
        /\ \A q \in DOMAIN compared[w] : compared[w][q] \in Comparison
    BY <2>1, PartialFunctionsType
  <2>3. [last |-> lastPrice[r], at |-> clock] \in Comparison
    BY DEF TypeOK, Comparison
  <2>4. D \in SUBSET Route /\ c \in [D -> Comparison]
    BY <2>2, <2>3
  <2>5. c \in PartialFunctions(Route, Comparison)
    BY <2>4, PartialFunctionsIntro
  <2> QED BY <2>5 DEF TypeOK
<1>2. requests' \in [Worker -> 0..MaxRequests]
  <2>1. requests \in [Worker -> 0..MaxRequests] /\ requests[w] < MaxRequests
    BY DEF TypeOK
  <2>2. MaxRequests \in Nat
    OBVIOUS
  <2> HIDE DEF LoadState, IInv
  <2>3. requests[w] + 1 \in 0..MaxRequests
    BY <2>1, <2>2
  <2>4. requests' = [requests EXCEPT ![w] = requests[w] + 1]
    BY DEF LoadState
  <2> QED BY <2>1, <2>3, <2>4
<1>3. TypeOK'
  BY <1>1, <1>2 DEF TypeOK
<1>4. DocInv' /\ HolderInv' /\ UpToInv' /\ BatchInv' /\ SavedInv' /\ NoVersionSkipped'
  BY DEF DocInv, HolderInv, UpToInv, BatchInv, SavedInv, NoVersionSkipped
<1> QED BY <1>3, <1>4

(* What a worker has when it is about to save: typed items, all of them compared. *)
LEMMA SaveItems ==
    ASSUME TypeOK, NEW w \in Worker, DOMAIN compared[w] = DOMAIN batch[w]
    PROVE  \A r \in DOMAIN batch[w] :
              /\ r \in Route
              /\ batch[w][r].ver \in 1..MaxWrites
              /\ batch[w][r].price \in Price
              /\ compared[w][r].last \in Price \cup {NoPrice}
              /\ compared[w][r].at \in 0..MaxClock
<1>1. /\ batch[w] \in PartialFunctions(Route, Sent)
      /\ compared[w] \in PartialFunctions(Route, Comparison)
  BY DEF TypeOK
<1>2. /\ DOMAIN batch[w] \subseteq Route
      /\ \A r \in DOMAIN batch[w] : batch[w][r] \in Sent
      /\ \A r \in DOMAIN compared[w] : compared[w][r] \in Comparison
  BY <1>1, PartialFunctionsType
<1> QED BY <1>2 DEF Sent, Comparison

LEMMA SaveType == ASSUME TypeOK, NEW w \in Worker, Save(w) PROVE TypeOK'
<1> USE DEF Save, Goto, docVars, subVars, sessionVars
<1>1. \A r \in DOMAIN batch[w] :
         /\ r \in Route
         /\ batch[w][r].ver \in 1..MaxWrites
         /\ batch[w][r].price \in Price
         /\ compared[w][r].last \in Price \cup {NoPrice}
         /\ compared[w][r].at \in 0..MaxClock
  BY SaveItems
<1>2. Changed(w) \subseteq DOMAIN batch[w] /\ Dropped(w) \subseteq DOMAIN batch[w]
  BY DEF Changed, Dropped
<1>3. lastPrice' \in [Route -> Price \cup {NoPrice}]
  BY <1>1, <1>2 DEF TypeOK
<1>4. alertDocs' \subseteq AlertDoc
  <2>1. NewAlertDocs(w) \subseteq AlertDoc
    BY <1>1, <1>2 DEF NewAlertDocs, AlertDoc, Dropped, IsDrop
  <2> QED BY <2>1 DEF TypeOK, PutAlerts
<1>5. seenVer' \in [Route -> 0..MaxWrites]
  BY <1>1 DEF TypeOK
<1>6. alerted' \in [Route -> Seq(Alert)]
  <2>1. \A r \in Dropped(w) : [ver |-> batch[w][r].ver, at |-> compared[w][r].at,
                                old |-> compared[w][r].last, new |-> batch[w][r].price] \in Alert
    BY <1>1, <1>2 DEF Alert, Dropped, IsDrop
  <2>2. \A r \in Route : alerted[r] \in Seq(Alert)
    BY DEF TypeOK
  <2>3. \A r \in Dropped(w) :
           Append(alerted[r], [ver |-> batch[w][r].ver, at |-> compared[w][r].at,
                               old |-> compared[w][r].last, new |-> batch[w][r].price])
           \in Seq(Alert)
    BY <1>1, <1>2, <2>1, <2>2
  <2> QED BY <2>2, <2>3
<1>7. pc' \in [Worker -> {"down", "waiting", "idle", "handling", "saved"}]
  BY DEF TypeOK
<1> QED BY <1>3, <1>4, <1>5, <1>6, <1>7 DEF TypeOK

LEMMA SaveInv == ASSUME IInv, NEW w \in Worker, Save(w) PROVE IInv'
<1> USE DEF IInv, Save, Goto, docVars, subVars, sessionVars
<1>1. TypeOK'
  BY SaveType
<1>2. DocInv' /\ UpToInv'
  BY DEF DocInv, UpToInv
<1>3. HolderInv' /\ BatchInv'
  BY DEF TypeOK, HolderInv, BatchInv
<1>4. \A r \in Route : seenVer'[r] \in Nat /\ seenVer[r] \in Nat /\ seenVer'[r] >= seenVer[r]
  <2>1. \A r \in DOMAIN batch[w] : batch[w][r].ver \in 1..MaxWrites
    BY SaveItems
  <2> QED BY <2>1 DEF TypeOK
<1>5. SavedInv'
  <2> SUFFICES ASSUME NEW v \in Worker, pc'[v] = "saved", NEW r \in DOMAIN batch[v]
               PROVE  seenVer'[r] >= batch[v][r].ver
    BY DEF SavedInv
  <2>1. batch[v] \in PartialFunctions(Route, Sent)
    BY DEF TypeOK
  <2>5. r \in Route /\ batch[v][r] \in Sent
    BY <2>1, PartialFunctionsType
  <2>2. r \in Route /\ batch[v][r].ver \in Nat
    BY <2>5 DEF Sent
  <2>3. CASE v = w
    BY <2>2, <2>3 DEF TypeOK
  <2>4. CASE v # w
    BY <2>2, <2>4, <1>4 DEF TypeOK, SavedInv
  <2> QED BY <2>3, <2>4
<1>6. NoVersionSkipped'
  BY <1>4 DEF TypeOK, NoVersionSkipped
<1> QED BY <1>1, <1>2, <1>3, <1>5, <1>6

(* Losing the session's content never breaks the invariant: the batch is sent again. *)
LEMMA ForgetInv ==
    ASSUME IInv, NEW w \in Worker, ClearSession(w), NEW l \in {"down", "waiting"},
           Goto(w, l), holder' = IF holder = w THEN NoWorker ELSE holder,
           UNCHANGED <<docVars, cursor, outVars, clock>>, failures' \in 0..MaxFailures
    PROVE  IInv'
<1> USE PriceWatchAssumption DEF IInv, Goto, docVars, outVars
<1>1. TypeOK'
  <2>1. /\ batch' \in [Worker -> PartialFunctions(Route, Sent)]
        /\ upTo' \in [Worker -> 0..MaxWrites]
        /\ compared' \in [Worker -> PartialFunctions(Route, Comparison)]
        /\ requests' \in [Worker -> 0..MaxRequests]
    BY ClearSessionType
  <2>2. holder' \in Worker \cup {NoWorker}
    BY DEF TypeOK
  <2>3. pc' \in [Worker -> {"down", "waiting", "idle", "handling", "saved"}]
    BY DEF TypeOK
  <2> QED BY <2>1, <2>2, <2>3 DEF TypeOK
<1>2. \A v \in Worker : v # w => /\ pc'[v] = pc[v] /\ batch'[v] = batch[v]
                                 /\ upTo'[v] = upTo[v]
                                 /\ (holder' = v <=> holder = v)
  BY DEF TypeOK, ClearSession
<1>3. pc'[w] = l /\ holder' # w /\ upTo'[w] = 0
  BY DEF TypeOK, ClearSession
<1>4. DocInv' /\ NoVersionSkipped'
  BY DEF DocInv, NoVersionSkipped
<1>5. HolderInv'
  BY <1>2, <1>3 DEF HolderInv
<1>6. UpToInv'
  <2>1. etag \in Nat
    BY DEF TypeOK
  <2> QED BY <1>2, <1>3, <2>1 DEF UpToInv
<1>7. BatchInv' /\ SavedInv'
  BY <1>2, <1>3 DEF BatchInv, SavedInv
<1> QED BY <1>1, <1>4, <1>5, <1>6, <1>7

LEMMA ExceedRequestsInv == ASSUME IInv, NEW w \in Worker, ExceedRequests(w) PROVE IInv'
<1>1. failures' \in 0..MaxFailures
  BY DEF IInv, TypeOK, ExceedRequests
<1> QED BY <1>1, ForgetInv DEF ExceedRequests, Release

LEMMA CrashInv == ASSUME IInv, NEW w \in Worker, Crash(w) PROVE IInv'
<1>1. failures' \in 0..MaxFailures
  BY PriceWatchAssumption DEF IInv, TypeOK, Crash
<1> QED BY <1>1, ForgetInv DEF Crash, Release

LEMMA ReconnectInv == ASSUME IInv, NEW w \in Worker, Reconnect(w) PROVE IInv'
<1>1. failures' \in 0..MaxFailures
  BY DEF IInv, TypeOK, Reconnect
<1>2. holder' = (IF holder = w THEN NoWorker ELSE holder) /\ cursor' = cursor
  BY DEF Reconnect, subVars
<1> QED BY <1>1, <1>2, ForgetInv DEF Reconnect

LEMMA AckInv == ASSUME IInv, NEW w \in Worker, Ack(w) PROVE IInv'
<1> USE PriceWatchAssumption DEF IInv, Ack, Goto, docVars, outVars
<1>1. cursor' \in 0..etag /\ cursor' = upTo[w]
  BY DEF TypeOK, UpToInv
<1>2. TypeOK'
  <2>1. /\ batch' \in [Worker -> PartialFunctions(Route, Sent)]
        /\ upTo' \in [Worker -> 0..MaxWrites]
        /\ compared' \in [Worker -> PartialFunctions(Route, Comparison)]
        /\ requests' \in [Worker -> 0..MaxRequests]
    BY ClearSessionType
  <2>2. pc' \in [Worker -> {"down", "waiting", "idle", "handling", "saved"}]
    BY DEF TypeOK
  <2> QED BY <1>1, <2>1, <2>2 DEF TypeOK
<1>3. pc'[w] = "idle" /\ upTo'[w] = 0
  BY DEF TypeOK, ClearSession
<1>4. \A v \in Worker : v # w => /\ pc'[v] = pc[v] /\ batch'[v] = batch[v]
                                 /\ upTo'[v] = upTo[v] /\ holder' # v
  BY DEF TypeOK, ClearSession
<1>5. DocInv'
  BY DEF DocInv
<1>6. HolderInv' /\ BatchInv'
  BY <1>3, <1>4 DEF HolderInv, BatchInv
<1>7. UpToInv' /\ SavedInv'
  <2>1. etag \in Nat
    BY DEF TypeOK
  <2> QED BY <1>3, <1>4, <2>1 DEF UpToInv, SavedInv
<1>8. NoVersionSkipped'
  <2> SUFFICES ASSUME NEW r \in Route, hot[r], ver[r] <= upTo[w]
               PROVE  seenVer[r] >= ver[r]
    BY <1>1 DEF NoVersionSkipped
  <2>1. CASE ver[r] <= cursor
    BY <2>1 DEF NoVersionSkipped
  <2>2. CASE ver[r] > cursor
    <3>1. r \in DOMAIN batch[w] /\ batch[w][r].ver = ver[r]
      BY <2>2 DEF BatchInv
    <3> QED BY <3>1 DEF SavedInv
  <2> QED BY <2>1, <2>2 DEF TypeOK
<1> QED BY <1>2, <1>5, <1>6, <1>7, <1>8

LEMMA LoseConnectionInv == ASSUME IInv, NEW w \in Worker, LoseConnection(w) PROVE IInv'
<1> USE PriceWatchAssumption DEF IInv, LoseConnection, Goto, docVars, sessionVars, outVars
<1>1. TypeOK'
  <2>1. pc' \in [Worker -> {"down", "waiting", "idle", "handling", "saved"}]
    BY DEF TypeOK
  <2> QED BY <2>1 DEF TypeOK
<1>2. holder' \notin Worker
  OBVIOUS
<1>3. \A v \in Worker : pc'[v] # "idle" /\ (pc'[v] = "saved" => pc[v] = "saved")
  BY DEF TypeOK, HolderInv
<1>4. DocInv' /\ UpToInv' /\ NoVersionSkipped'
  BY DEF DocInv, UpToInv, NoVersionSkipped
<1>5. HolderInv' /\ BatchInv' /\ SavedInv'
  BY <1>2, <1>3 DEF HolderInv, BatchInv, SavedInv
<1> QED BY <1>1, <1>4, <1>5
-----------------------------------------------------------------------------
LEMMA NextInv == IInv /\ [Next]_vars => IInv'
<1> SUFFICES ASSUME IInv, [Next]_vars PROVE IInv'
  OBVIOUS
<1>1. ASSUME NEW r \in Route, NEW p \in Price, NEW h \in BOOLEAN, Publish(r, p, h) PROVE IInv'
  BY <1>1, PublishInv
<1>2. ASSUME NEW r \in Route, Purge(r) PROVE IInv'
  BY <1>2, PurgeInv
<1>8. CASE ExpireAlert
  BY <1>8, ExpireAlertInv
<1>3. CASE Tick
  BY <1>3, TickInv
<1>4. ASSUME NEW w \in Worker, WorkerStep(w) PROVE IInv'
  <2>1. CASE Start(w)
    BY <2>1, StartInv
  <2>2. CASE Open(w)
    BY <2>2, OpenInv
  <2>3. CASE Deliver(w)
    BY <2>3, DeliverInv
  <2>4. ASSUME NEW r \in Route, LoadState(w, r) PROVE IInv'
    BY <2>4, LoadStateInv
  <2>5. CASE Save(w)
    BY <2>5, SaveInv
  <2>6. CASE ExceedRequests(w)
    BY <2>6, ExceedRequestsInv
  <2>7. CASE Ack(w)
    BY <2>7, AckInv
  <2>8. CASE Reconnect(w)
    BY <2>8, ReconnectInv
  <2> QED BY <1>4, <2>1, <2>2, <2>3, <2>4, <2>5, <2>6, <2>7, <2>8 DEF WorkerStep
<1>5. ASSUME NEW w \in Worker, LoseConnection(w) PROVE IInv'
  BY <1>5, LoseConnectionInv
<1>6. ASSUME NEW w \in Worker, Crash(w) PROVE IInv'
  BY <1>6, CrashInv
<1>7. CASE UNCHANGED vars
  BY <1>7, StutterInv
<1> QED BY <1>1, <1>2, <1>3, <1>4, <1>5, <1>6, <1>7, <1>8 DEF Next

(* The inductive invariant holds throughout. *)
LEMMA Invariance == Spec => []IInv
BY InitInv, NextInv, PTL DEF Spec

(* Every variable of the worker and its documents keeps its type: no alert is ever made
   from a missing price, the cursor never passes the last write, the session never makes
   more requests than the cap allows. *)
THEOREM TypeCorrect == Spec => []TypeOK
<1>1. IInv => TypeOK
  BY DEF IInv
<1> QED BY <1>1, Invariance, PTL

(* With any number of workers, crashes and lost connections, the subscription never
   passes a candidate's current version before its comparison is committed. *)
THEOREM NothingSkipped == Spec => []NoVersionSkipped
<1>1. IInv => NoVersionSkipped
  BY DEF IInv
<1> QED BY <1>1, Invariance, PTL
-----------------------------------------------------------------------------
(* An alert document is put over another one of its id only together with a newer alert
   of the same route and second. *)
LEMMA SaveStoresNewest ==
    ASSUME TypeOK, NewestAlertStored, NEW w \in Worker, Save(w)
    PROVE  NewestAlertStored'
<1> SUFFICES ASSUME NEW r \in Route, NEW i \in DOMAIN alerted'[r],
                    clock < alerted'[r][i].at + AlertTTL,
                    \A j \in DOMAIN alerted'[r] : j > i => alerted'[r][j].at # alerted'[r][i].at
             PROVE  AlertDocOf(r, alerted'[r][i]) \in alertDocs'
  BY DEF NewestAlertStored, Save
<1> DEFINE a == [ver |-> batch[w][r].ver, at |-> compared[w][r].at,
                 old |-> compared[w][r].last, new |-> batch[w][r].price]
<1>1. /\ alertDocs' = PutAlerts(alertDocs, NewAlertDocs(w))
      /\ alerted'[r] = IF r \in Dropped(w) THEN Append(alerted[r], a) ELSE alerted[r]
  BY DEF Save
<1>2. alerted[r] \in Seq(Alert)
  BY DEF TypeOK
<1>3. ASSUME i \in DOMAIN alerted[r], alerted'[r][i] = alerted[r][i],
             \A j \in DOMAIN alerted[r] : j \in DOMAIN alerted'[r] /\ alerted'[r][j] = alerted[r][j],
             r \in Dropped(w) => compared[w][r].at # alerted[r][i].at
      PROVE  AlertDocOf(r, alerted'[r][i]) \in alertDocs'
  <2>1. AlertDocOf(r, alerted[r][i]) \in alertDocs
    BY <1>3 DEF NewestAlertStored
  <2>2. \A n \in NewAlertDocs(w) : n.route = r => n.at # alerted[r][i].at
    BY <1>3 DEF NewAlertDocs
  <2>3. /\ AlertDocOf(r, alerted[r][i]).route = r
        /\ AlertDocOf(r, alerted[r][i]).at = alerted[r][i].at
    BY DEF AlertDocOf
  <2> QED BY <1>1, <1>3, <2>1, <2>2, <2>3 DEF PutAlerts
<1>4. CASE r \in Dropped(w)
  <2>1. r \in DOMAIN batch[w]
    BY <1>4 DEF Dropped, Save
  <2>2. a \in Alert
    <3>1. /\ batch[w][r].ver \in 1..MaxWrites /\ batch[w][r].price \in Price
          /\ compared[w][r].last \in Price \cup {NoPrice}
          /\ compared[w][r].at \in 0..MaxClock
      BY <2>1, SaveItems DEF Save
    <3> QED BY <1>4, <3>1 DEF Alert, Dropped, IsDrop
  <2>3. AlertDocOf(r, a) \in NewAlertDocs(w) /\ a.at = compared[w][r].at
    BY <1>4 DEF AlertDocOf, NewAlertDocs
  <2>4. AlertDocOf(r, a) \in alertDocs'
    BY <1>1, <2>3 DEF PutAlerts
  <2>5. alerted'[r] = Append(alerted[r], a)
    BY <1>1, <1>4
  <2> HIDE DEF a
  <2>6. PICK s, b : s = alerted[r] /\ b = a
    OBVIOUS
  <2>7. s \in Seq(Alert) /\ b \in Alert /\ alerted'[r] = Append(s, b)
    BY <1>2, <2>2, <2>5, <2>6
  <2>8. /\ DOMAIN alerted'[r] = 1..(Len(s) + 1) /\ DOMAIN s = 1..Len(s) /\ Len(s) \in Nat
        /\ alerted'[r][Len(s) + 1] = b
        /\ \A j \in DOMAIN s : alerted'[r][j] = s[j]
    BY <2>7
  <2>9. CASE i = Len(s) + 1
    BY <2>4, <2>6, <2>8, <2>9
  <2>10. CASE i # Len(s) + 1
    <3>1. i \in DOMAIN s /\ Len(s) + 1 \in DOMAIN alerted'[r] /\ Len(s) + 1 > i
      BY <2>8, <2>10
    <3>2. alerted'[r][i] = s[i] /\ b.at # s[i].at
      BY <2>8, <3>1
    <3>3. \A j \in DOMAIN alerted[r] : j \in DOMAIN alerted'[r] /\ alerted'[r][j] = alerted[r][j]
      BY <2>6, <2>8
    <3> QED BY <1>3, <2>3, <2>6, <3>1, <3>2, <3>3
  <2> QED BY <2>9, <2>10
<1>5. CASE r \notin Dropped(w)
  BY <1>1, <1>3, <1>5
<1> QED BY <1>4, <1>5

(* Whatever second the alerts of a route are raised in, by however many workers, and
   whatever ids they share: an alert is in its document until it expires or a newer one of
   its second is put there (run.py:101-108). *)
THEOREM NewestIsStored == Spec => []NewestAlertStored
<1>1. Init => NewestAlertStored
  BY DEF Init, NewestAlertStored
<1>2. IInv /\ NewestAlertStored /\ [Next]_vars => NewestAlertStored'
  <2> SUFFICES ASSUME IInv, NewestAlertStored, [Next]_vars PROVE NewestAlertStored'
    OBVIOUS
  <2>1. ASSUME NEW w \in Worker, Save(w) PROVE NewestAlertStored'
    BY <2>1, SaveStoresNewest DEF IInv
  <2>2. CASE ExpireAlert
    <3> SUFFICES ASSUME NEW r \in Route, NEW i \in DOMAIN alerted[r],
                        clock < alerted[r][i].at + AlertTTL,
                        \A j \in DOMAIN alerted[r] : j > i => alerted[r][j].at # alerted[r][i].at
                 PROVE  AlertDocOf(r, alerted[r][i]) \in alertDocs'
      BY <2>2 DEF ExpireAlert, NewestAlertStored
    <3>1. PICK d \in alertDocs : d.at + AlertTTL <= clock /\ alertDocs' = alertDocs \ {d}
      BY <2>2 DEF ExpireAlert
    <3>2. AlertDocOf(r, alerted[r][i]) \in alertDocs
      BY DEF NewestAlertStored
    <3>3. AlertDocOf(r, alerted[r][i]).at = alerted[r][i].at
      BY DEF AlertDocOf
    <3>4. clock \in Nat /\ AlertTTL \in Nat /\ d.at \in Nat
      BY PriceWatchAssumption DEF IInv, TypeOK, AlertDoc
    <3>5. AlertDocOf(r, alerted[r][i]) # d
      BY <3>1, <3>3, <3>4
    <3> QED BY <3>1, <3>2, <3>5
  <2>3. CASE Tick
    <3> SUFFICES ASSUME NEW r \in Route, NEW i \in DOMAIN alerted[r],
                        clock + 1 < alerted[r][i].at + AlertTTL,
                        \A j \in DOMAIN alerted[r] : j > i => alerted[r][j].at # alerted[r][i].at
                 PROVE  AlertDocOf(r, alerted[r][i]) \in alertDocs
      BY <2>3 DEF Tick, outVars, NewestAlertStored
    <3>1. alerted[r][i] \in Alert
      BY DEF IInv, TypeOK
    <3>2. clock < alerted[r][i].at + AlertTTL
      BY <3>1, PriceWatchAssumption DEF IInv, TypeOK, Alert
    <3> QED BY <3>2 DEF NewestAlertStored
  <2>4. CASE UNCHANGED <<alertDocs, alerted, clock>>
    BY <2>4 DEF NewestAlertStored
  <2>5. \/ ExpireAlert
        \/ Tick
        \/ \E w \in Worker : Save(w)
        \/ UNCHANGED <<alertDocs, alerted, clock>>
    BY DEF Next, WorkerStep, Publish, Purge, Start, Open, Deliver, LoadState,
           ExceedRequests, Ack, Reconnect, LoseConnection, Crash, outVars, vars
  <2> QED BY <2>1, <2>2, <2>3, <2>4, <2>5
<1> QED BY <1>1, <1>2, Invariance, PTL DEF Spec
-----------------------------------------------------------------------------
(* What any number of overlapping workers cannot break.                    *)

(* A price of the route that a committed comparison has seen. *)
Committed(r, p) == \E v \in published : v.route = r /\ v.price = p /\ v.ver <= seenVer[r]

(* Candidates, watch states, batches and loaded comparisons all hold prices of published
   versions, and a price to compare with was committed before it was loaded. *)
EvidenceInv ==
    /\ \A r \in Route : hot[r] => [route |-> r, ver |-> ver[r], price |-> price[r]] \in published
    /\ \A r \in Route : lastPrice[r] # NoPrice => Committed(r, lastPrice[r])
    /\ \A w \in Worker : \A r \in DOMAIN batch[w] :
          [route |-> r, ver |-> batch[w][r].ver, price |-> batch[w][r].price] \in published
    /\ \A w \in Worker : \A r \in DOMAIN compared[w] :
          compared[w][r].last # NoPrice => Committed(r, compared[w][r].last)

(* The handlers that may still alert about a version of a route. *)
Handling(r, n) ==
    {w \in Worker : pc[w] = "handling" /\ r \in DOMAIN batch[w] /\ batch[w][r].ver = n}

(* The subscription will not send the version unless something fails: it is acknowledged,
   or the batch it waits for holds it. *)
HandedOut(r, n) ==
    \/ n <= cursor
    \/ \E w \in Worker : /\ holder = w /\ pc[w] \in {"handling", "saved"}
                         /\ r \in DOMAIN batch[w] /\ batch[w][r].ver = n

Claims(r, n) == failures + (IF HandedOut(r, n) THEN 1 ELSE 0)

Claim(r, n) ==
    /\ IsFiniteSet(Handling(r, n))
    /\ Cardinality(AlertsAbout(r, n)) + Cardinality(Handling(r, n)) <= Claims(r, n)

(* A batch holds nothing its acknowledgement would not pass. *)
CoverInv ==
    \A w \in Worker : pc[w] \in {"handling", "saved"} =>
       /\ \A r \in DOMAIN batch[w] : batch[w][r].ver <= upTo[w]
       /\ holder = w => cursor <= upTo[w]

(* The alerts raised about a version and the handlers that may still raise one: as many
   as there were failures, and one more for the time it was handed out without any. *)
ClaimInv == CoverInv /\ \A r \in Route, n \in 1..MaxWrites : Claim(r, n)

Evidence == EvidenceInv /\ AlertComparesSeen

(* What was committed as seen stays so: versions are never unpublished and the version
   seen of a route never goes back. *)
LEMMA CommittedStays ==
    ASSUME TypeOK, NEW r \in Route, NEW p, Committed(r, p), published \subseteq published',
           seenVer'[r] \in Nat, seenVer'[r] >= seenVer[r]
    PROVE  Committed(r, p)'
<1>1. PICK v \in published : v.route = r /\ v.price = p /\ v.ver <= seenVer[r]
  BY DEF Committed
<1>2. v \in published' /\ v.ver \in Nat /\ seenVer[r] \in Nat
  BY DEF TypeOK, Version
<1>3. v.ver <= seenVer'[r]
  BY <1>1, <1>2
<1> QED BY <1>1, <1>2, <1>3 DEF Committed

(* An alert that compares seen versions goes on doing so. *)
LEMMA AlertEvidenceStays ==
    ASSUME TypeOK, AlertComparesSeen, published \subseteq published',
           NEW r \in Route, seenVer'[r] \in Nat, seenVer'[r] >= seenVer[r],
           NEW i \in DOMAIN alerted[r]
    PROVE  /\ alerted[r][i].new < alerted[r][i].old
           /\ [route |-> r, ver |-> alerted[r][i].ver, price |-> alerted[r][i].new] \in published'
           /\ alerted[r][i].ver <= seenVer'[r]
           /\ \E v \in published' : v.route = r /\ v.price = alerted[r][i].old /\ v.ver <= seenVer'[r]
<1> DEFINE a == alerted[r][i]
<1>1. /\ a.new < a.old
      /\ [route |-> r, ver |-> a.ver, price |-> a.new] \in published
      /\ a.ver <= seenVer[r]
      /\ Committed(r, a.old)
  BY DEF AlertComparesSeen, Committed
<1>2. a.ver \in Nat /\ seenVer[r] \in Nat
  BY <1>1 DEF TypeOK, Version
<1>3. a.ver <= seenVer'[r]
  BY <1>1, <1>2
<1>4. PICK p : p = a.old /\ Committed(r, p)
  BY <1>1
<1>5. Committed(r, p)'
  BY <1>4, CommittedStays
<1>6. \E v \in published' : v.route = r /\ v.price = a.old /\ v.ver <= seenVer'[r]
  BY <1>4, <1>5 DEF Committed
<1> QED BY <1>1, <1>3, <1>6

(* A step that writes neither documents nor outputs, and at most empties sessions. *)
LEMMA EvidencePassive ==
    ASSUME Evidence, UNCHANGED <<docVars, outVars>>,
           \A w \in Worker : /\ batch'[w] = batch[w] \/ batch'[w] = Empty
                             /\ compared'[w] = compared[w] \/ compared'[w] = Empty
    PROVE  Evidence'
<1> USE DEF Evidence, docVars, outVars
<1>1. AlertComparesSeen'
  BY DEF AlertComparesSeen
<1>2. DOMAIN Empty = {}
  BY DEF Empty
<1>3. \A r \in Route : hot'[r] => [route |-> r, ver |-> ver'[r], price |-> price'[r]] \in published'
  BY DEF EvidenceInv
<1>4. \A r \in Route : lastPrice'[r] # NoPrice => Committed(r, lastPrice[r])'
  BY DEF EvidenceInv, Committed
<1>5. \A w \in Worker : \A r \in DOMAIN batch'[w] :
         [route |-> r, ver |-> batch'[w][r].ver, price |-> batch'[w][r].price] \in published'
  BY <1>2 DEF EvidenceInv
<1>6. \A w \in Worker : \A r \in DOMAIN compared'[w] :
         compared'[w][r].last # NoPrice =>
            \E v \in published' : /\ v.route = r /\ v.price = compared'[w][r].last
                                  /\ v.ver <= seenVer'[r]
  BY <1>2 DEF EvidenceInv, Committed
<1> QED BY <1>1, <1>3, <1>4, <1>5, <1>6 DEF EvidenceInv, Committed

LEMMA EvidenceInit == Init => Evidence
<1> SUFFICES ASSUME Init PROVE Evidence
  OBVIOUS
<1>1. DOMAIN Empty = {}
  BY DEF Empty
<1> QED BY <1>1 DEF Init, Evidence, EvidenceInv, AlertComparesSeen, Committed

LEMMA EvidencePublish ==
    ASSUME IInv, Evidence, NEW r \in Route, NEW p \in Price, NEW h \in BOOLEAN, Publish(r, p, h)
    PROVE  Evidence'
<1> USE DEF Publish, sessionVars, outVars
<1>1. TypeOK /\ published \subseteq published' /\ etag \in Nat
  BY DEF IInv, TypeOK
<1>2. \A q \in Route : seenVer'[q] \in Nat /\ seenVer'[q] >= seenVer[q]
  BY <1>1 DEF TypeOK
<1>3. \A q \in Route : hot'[q] => [route |-> q, ver |-> ver'[q], price |-> price'[q]] \in published'
  <2> SUFFICES ASSUME NEW q \in Route, hot'[q]
               PROVE  [route |-> q, ver |-> ver'[q], price |-> price'[q]] \in published'
    OBVIOUS
  <2>1. CASE q = r
    BY <1>1, <2>1 DEF TypeOK
  <2>2. CASE q # r
    <3>1. hot[q] /\ ver'[q] = ver[q] /\ price'[q] = price[q]
      BY <1>1, <2>2 DEF TypeOK
    <3> QED BY <3>1, <1>1 DEF Evidence, EvidenceInv
  <2> QED BY <2>1, <2>2
<1>4. \A q \in Route : \A c : Committed(q, c) => Committed(q, c)'
  BY <1>1, <1>2, CommittedStays
<1>5. AlertComparesSeen'
  <2>1. alerted' = alerted
    OBVIOUS
  <2> QED BY <2>1, <1>1, <1>2, AlertEvidenceStays DEF Evidence, AlertComparesSeen, Committed
<1>6. EvidenceInv'
  <2>1. \A w \in Worker : DOMAIN compared[w] \subseteq Route
    BY <1>1, PartialFunctionsType DEF TypeOK
  <2>2. \A q \in Route : lastPrice[q] # NoPrice => Committed(q, lastPrice[q])'
    <3> SUFFICES ASSUME NEW q \in Route, lastPrice[q] # NoPrice PROVE Committed(q, lastPrice[q])'
      BY DEF Committed
    <3>1. PICK c : c = lastPrice[q] /\ Committed(q, c)
      BY DEF Evidence, EvidenceInv
    <3> QED BY <3>1, <1>4 DEF Committed
  <2>3. \A w \in Worker : \A q \in DOMAIN compared[w] :
           compared[w][q].last # NoPrice => Committed(q, compared[w][q].last)'
    <3> SUFFICES ASSUME NEW w \in Worker, NEW q \in DOMAIN compared[w],
                        compared[w][q].last # NoPrice
                 PROVE  Committed(q, compared[w][q].last)'
      BY DEF Committed
    <3>1. PICK c : c = compared[w][q].last /\ Committed(q, c)
      BY DEF Evidence, EvidenceInv
    <3> QED BY <3>1, <2>1, <1>4 DEF Committed
  <2>4. \A w \in Worker : \A q \in DOMAIN batch[w] :
           [route |-> q, ver |-> batch[w][q].ver, price |-> batch[w][q].price] \in published'
    BY <1>1 DEF Evidence, EvidenceInv
  <2> QED BY <1>3, <2>2, <2>3, <2>4 DEF EvidenceInv, Committed
<1> QED BY <1>5, <1>6 DEF Evidence

LEMMA EvidencePurge == ASSUME IInv, Evidence, NEW r \in Route, Purge(r) PROVE Evidence'
<1> USE DEF Purge, sessionVars, outVars
<1>1. \A q \in Route : hot'[q] => hot[q] /\ ver'[q] = ver[q] /\ price'[q] = price[q]
  BY DEF IInv, TypeOK
<1>2. AlertComparesSeen'
  BY DEF Evidence, AlertComparesSeen
<1>3. EvidenceInv'
  BY <1>1 DEF Evidence, EvidenceInv, Committed
<1> QED BY <1>2, <1>3 DEF Evidence

LEMMA EvidenceDeliver == ASSUME IInv, Evidence, NEW w \in Worker, Deliver(w) PROVE Evidence'
<1> USE DEF Deliver, docVars, outVars
<1>1. AlertComparesSeen'
  BY DEF Evidence, AlertComparesSeen
<1>2. \A v \in Worker : \A r \in DOMAIN batch'[v] :
         [route |-> r, ver |-> batch'[v][r].ver, price |-> batch'[v][r].price] \in published'
  <2> SUFFICES ASSUME NEW v \in Worker, NEW r \in DOMAIN batch'[v]
               PROVE  [route |-> r, ver |-> batch'[v][r].ver, price |-> batch'[v][r].price]
                         \in published
    OBVIOUS
  <2>1. CASE v = w
    <3>1. batch'[v] = [q \in Pending |-> [ver |-> ver[q], price |-> price[q]]]
      BY <2>1 DEF IInv, TypeOK
    <3>2. r \in Route /\ hot[r] /\ batch'[v][r].ver = ver[r] /\ batch'[v][r].price = price[r]
      BY <3>1 DEF Pending
    <3> QED BY <3>2 DEF Evidence, EvidenceInv
  <2>2. CASE v # w
    <3>1. batch'[v] = batch[v]
      BY <2>2 DEF IInv, TypeOK
    <3> QED BY <3>1 DEF Evidence, EvidenceInv
  <2> QED BY <2>1, <2>2
<1> QED BY <1>1, <1>2 DEF Evidence, EvidenceInv, Committed

LEMMA EvidenceLoadState ==
    ASSUME IInv, Evidence, NEW w \in Worker, NEW r \in Route, LoadState(w, r)
    PROVE  Evidence'
<1> USE DEF LoadState, docVars, outVars
<1>1. AlertComparesSeen'
  BY DEF Evidence, AlertComparesSeen
<1>2. \A v \in Worker : \A q \in DOMAIN compared'[v] :
         compared'[v][q].last # NoPrice => Committed(q, compared'[v][q].last)
  <2> SUFFICES ASSUME NEW v \in Worker, NEW q \in DOMAIN compared'[v],
                      compared'[v][q].last # NoPrice
               PROVE  Committed(q, compared'[v][q].last)
    OBVIOUS
  <2>1. CASE v = w /\ q = r
    <3>1. compared'[v][q] = [last |-> lastPrice[r], at |-> clock]
      BY <2>1 DEF IInv, TypeOK
    <3> QED BY <2>1, <3>1 DEF Evidence, EvidenceInv
  <2>2. CASE ~(v = w /\ q = r)
    <3>1. q \in DOMAIN compared[v] /\ compared'[v][q] = compared[v][q]
      BY <2>2 DEF IInv, TypeOK
    <3> QED BY <3>1 DEF Evidence, EvidenceInv
  <2> QED BY <2>1, <2>2
<1> QED BY <1>1, <1>2 DEF Evidence, EvidenceInv, Committed

(* Saving commits the versions of the batch as seen and alerts about them, comparing with
   prices that had been committed before. *)
LEMMA EvidenceSave == ASSUME IInv, Evidence, NEW w \in Worker, Save(w) PROVE Evidence'
<1> USE DEF Save, docVars, sessionVars
<1>1. TypeOK /\ published' = published
  BY DEF IInv
<1>2. \A r \in DOMAIN batch[w] :
         /\ r \in Route
         /\ batch[w][r].ver \in 1..MaxWrites
         /\ compared[w][r].last \in Price \cup {NoPrice}
  BY <1>1, SaveItems
<1>3. \A r \in Route : /\ seenVer'[r] \in Nat /\ seenVer'[r] >= seenVer[r]
                       /\ r \in DOMAIN batch[w] => seenVer'[r] >= batch[w][r].ver
  BY <1>1, <1>2 DEF TypeOK
<1>4. \A r \in Route : \A c : Committed(r, c) => Committed(r, c)'
  BY <1>1, <1>3, CommittedStays
<1>5. \A r \in DOMAIN batch[w] :
         /\ [route |-> r, ver |-> batch[w][r].ver, price |-> batch[w][r].price] \in published'
         /\ batch[w][r].ver <= seenVer'[r]
  BY <1>1, <1>2, <1>3 DEF Evidence, EvidenceInv
<1>6. \A r \in Route : lastPrice'[r] # NoPrice => Committed(r, lastPrice'[r])
                                                  \/ (r \in DOMAIN batch[w] /\ lastPrice'[r] = batch[w][r].price)
  BY <1>2 DEF Changed, Evidence, EvidenceInv
<1>7. EvidenceInv'
  <2>1. \A r \in Route : lastPrice'[r] # NoPrice =>
           \E v \in published' : v.route = r /\ v.price = lastPrice'[r] /\ v.ver <= seenVer'[r]
    <3> SUFFICES ASSUME NEW r \in Route, lastPrice'[r] # NoPrice
                 PROVE  \E v \in published' :
                           v.route = r /\ v.price = lastPrice'[r] /\ v.ver <= seenVer'[r]
      OBVIOUS
    <3>1. PICK c : c = lastPrice'[r]
      OBVIOUS
    <3>2. CASE Committed(r, c)
      <4>1. Committed(r, c)'
        BY <3>2, <1>4
      <4> QED BY <3>1, <4>1 DEF Committed
    <3>3. CASE r \in DOMAIN batch[w] /\ c = batch[w][r].price
      <4>1. [route |-> r, ver |-> batch[w][r].ver, price |-> c] \in published'
        BY <3>3, <1>5
      <4> QED BY <3>1, <3>3, <4>1, <1>5
    <3> QED BY <3>1, <3>2, <3>3, <1>6
  <2>2. \A v \in Worker : \A r \in DOMAIN compared[v] : compared[v][r].last # NoPrice =>
           \E u \in published' : u.route = r /\ u.price = compared[v][r].last /\ u.ver <= seenVer'[r]
    <3> SUFFICES ASSUME NEW v \in Worker, NEW r \in DOMAIN compared[v],
                        compared[v][r].last # NoPrice
                 PROVE  \E u \in published' : /\ u.route = r /\ u.price = compared[v][r].last
                                              /\ u.ver <= seenVer'[r]
      OBVIOUS
    <3>1. PICK c : c = compared[v][r].last /\ Committed(r, c)
      BY DEF Evidence, EvidenceInv
    <3>2. compared[v] \in PartialFunctions(Route, Comparison)
      BY <1>1 DEF TypeOK
    <3>3. r \in Route
      BY <3>2, PartialFunctionsType
    <3>4. Committed(r, c)'
      BY <3>1, <3>3, <1>4
    <3> QED BY <3>1, <3>4 DEF Committed
  <2> QED BY <1>1, <2>1, <2>2 DEF Evidence, EvidenceInv, Committed
<1>8. AlertComparesSeen'
  <2> DEFINE Fine(r, a) ==
        /\ a.new < a.old
        /\ [route |-> r, ver |-> a.ver, price |-> a.new] \in published'
        /\ a.ver <= seenVer'[r]
        /\ \E v \in published' : v.route = r /\ v.price = a.old /\ v.ver <= seenVer'[r]
  <2> SUFFICES ASSUME NEW r \in Route, NEW i \in DOMAIN alerted'[r]
               PROVE  Fine(r, alerted'[r][i])
    BY DEF AlertComparesSeen
  <2> DEFINE a == [ver |-> batch[w][r].ver, at |-> compared[w][r].at,
                   old |-> compared[w][r].last, new |-> batch[w][r].price]
  <2>1. alerted[r] \in Seq(Alert)
    BY <1>1 DEF TypeOK
  <2>2. alerted'[r] = IF r \in Dropped(w) THEN Append(alerted[r], a) ELSE alerted[r]
    OBVIOUS
  <2>3. ASSUME i \in DOMAIN alerted[r] PROVE Fine(r, alerted[r][i])
    <3>1. /\ alerted[r][i].new < alerted[r][i].old
          /\ [route |-> r, ver |-> alerted[r][i].ver, price |-> alerted[r][i].new] \in published'
          /\ alerted[r][i].ver <= seenVer'[r]
          /\ \E v \in published' : /\ v.route = r /\ v.price = alerted[r][i].old
                                  /\ v.ver <= seenVer'[r]
      <4>1. /\ AlertComparesSeen /\ published \subseteq published'
            /\ seenVer'[r] \in Nat /\ seenVer'[r] >= seenVer[r]
        BY <1>1, <1>3 DEF Evidence
      <4> HIDE DEF Save
      <4> QED BY <1>1, <2>3, <4>1, AlertEvidenceStays
    <3> QED BY <3>1
  <2>4. ASSUME r \in Dropped(w) PROVE Fine(r, a)
    <3>1. /\ r \in DOMAIN batch[w] /\ compared[w][r].last # NoPrice
          /\ batch[w][r].price < compared[w][r].last
      BY <2>4 DEF Dropped, IsDrop
    <3>2. PICK c : c = compared[w][r].last /\ Committed(r, c)
      BY <3>1 DEF Evidence, EvidenceInv
    <3>3. Committed(r, c)'
      BY <3>2, <1>4
    <3>4. \E v \in published' : /\ v.route = r /\ v.price = compared[w][r].last
                                /\ v.ver <= seenVer'[r]
      BY <3>2, <3>3 DEF Committed
    <3> QED BY <3>1, <3>4, <1>5
  <2>5. ASSUME r \in Dropped(w) PROVE a \in Alert
    <3>1. r \in DOMAIN batch[w]
      BY <2>5 DEF Dropped
    <3>2. /\ batch[w][r].ver \in 1..MaxWrites /\ batch[w][r].price \in Price
          /\ compared[w][r].last \in Price \cup {NoPrice} /\ compared[w][r].at \in 0..MaxClock
      BY <1>1, <3>1, SaveItems
    <3> QED BY <2>5, <3>2 DEF Alert, Dropped, IsDrop
  <2> HIDE DEF Fine, a
  <2>6. CASE r \in Dropped(w)
    <3>1. PICK s, b : s = alerted[r] /\ b = a
      OBVIOUS
    <3>2. s \in Seq(Alert) /\ b \in Alert /\ alerted'[r] = Append(s, b)
      BY <3>1, <2>1, <2>2, <2>5, <2>6
    <3>3. \/ i \in DOMAIN s /\ alerted'[r][i] = s[i]
          \/ alerted'[r][i] = b
      BY <3>2
    <3> QED BY <3>1, <3>3, <2>3, <2>4, <2>6
  <2>7. CASE r \notin Dropped(w)
    BY <2>2, <2>3, <2>7
  <2> QED BY <2>6, <2>7
<1> QED BY <1>7, <1>8 DEF Evidence
-----------------------------------------------------------------------------
(* Counting the alerts about a version.                                    *)

LEMMA AlertsFinite ==
    ASSUME TypeOK, NEW r \in Route, NEW n
    PROVE  IsFiniteSet(AlertsAbout(r, n)) /\ Cardinality(AlertsAbout(r, n)) \in Nat
<1>1. alerted[r] \in Seq(Alert)
  BY DEF TypeOK
<1>2. Len(alerted[r]) \in Nat /\ DOMAIN alerted[r] = 1..Len(alerted[r])
  BY <1>1
<1>3. IsFiniteSet(1..Len(alerted[r]))
  BY <1>2, FS_Interval
<1>4. AlertsAbout(r, n) \in SUBSET (1..Len(alerted[r]))
  BY <1>2 DEF AlertsAbout
<1>5. IsFiniteSet(AlertsAbout(r, n))
  BY <1>3, <1>4, FS_Subset
<1> QED BY <1>5, FS_CardinalityType

(* One more alert is one more about its version. *)
LEMMA AlertsAppended ==
    ASSUME TypeOK, NEW r \in Route, NEW n, NEW a \in Alert, alerted'[r] = Append(alerted[r], a)
    PROVE  AlertsAbout(r, n)' = AlertsAbout(r, n) \cup
                                   (IF a.ver = n THEN {Len(alerted[r]) + 1} ELSE {})
<1>1. PICK s \in Seq(Alert) : s = alerted[r]
  BY DEF TypeOK
<1>2. PICK t : t = Append(s, a)
  OBVIOUS
<1>3. /\ Len(s) \in Nat /\ DOMAIN s = 1..Len(s) /\ DOMAIN t = 1..(Len(s) + 1)
      /\ t[Len(s) + 1] = a
      /\ \A i \in 1..Len(s) : t[i] = s[i]
  BY <1>2
<1>4. {i \in DOMAIN t : t[i].ver = n} =
         {i \in DOMAIN s : s[i].ver = n} \cup (IF a.ver = n THEN {Len(s) + 1} ELSE {})
  BY <1>3
<1> QED BY <1>1, <1>2, <1>4 DEF AlertsAbout

LEMMA OneMore ==
    ASSUME NEW S, IsFiniteSet(S), NEW x
    PROVE  /\ IsFiniteSet(S \cup {x})
           /\ Cardinality(S) \in Nat /\ Cardinality(S \cup {x}) \in Nat
           /\ Cardinality(S \cup {x}) <= Cardinality(S) + 1
<1>1. IsFiniteSet(S \cup {x})
  BY FS_AddElement
<1>2. Cardinality(S \cup {x}) = IF x \in S THEN Cardinality(S) ELSE Cardinality(S) + 1
  BY FS_AddElement
<1>3. Cardinality(S) \in Nat
  BY FS_CardinalityType
<1> QED BY <1>1, <1>2, <1>3

(* Nothing new is handled, and what is no longer handed out has cost a failure. *)
LEMMA ClaimKept ==
    ASSUME TypeOK, NEW r \in Route, NEW n, Claim(r, n),
           AlertsAbout(r, n)' = AlertsAbout(r, n), Handling(r, n)' \subseteq Handling(r, n),
           failures' \in Nat, failures' >= failures,
           HandedOut(r, n) /\ ~HandedOut(r, n)' => failures' > failures
    PROVE  Claim(r, n)'
<1>1. AlertsAbout(r, n)' = AlertsAbout(r, n) /\ Cardinality(AlertsAbout(r, n)) \in Nat
  BY AlertsFinite
<1>2. PICK H, K : H = Handling(r, n) /\ K = Handling(r, n)'
  OBVIOUS
<1>3. IsFiniteSet(H) /\ K \in SUBSET H
  BY <1>2 DEF Claim
<1>4. IsFiniteSet(K) /\ Cardinality(K) <= Cardinality(H)
  BY <1>3, FS_Subset
<1>5. Cardinality(K) \in Nat /\ Cardinality(H) \in Nat
  BY <1>3, <1>4, FS_CardinalityType
<1>6. failures \in Nat
  BY DEF TypeOK
<1>7. Claims(r, n) <= Claims(r, n)' /\ Claims(r, n) \in Nat /\ Claims(r, n)' \in Nat
  <2>1. PICK f, g : f = failures /\ g = failures'
    OBVIOUS
  <2>2. PICK o \in {0, 1}, p \in {0, 1} :
           /\ o = (IF HandedOut(r, n) THEN 1 ELSE 0)
           /\ p = (IF HandedOut(r, n)' THEN 1 ELSE 0)
    OBVIOUS
  <2>3. f \in Nat /\ g \in Nat /\ g >= f
    BY <1>6, <2>1
  <2>4. o = 1 /\ p = 0 => g > f
    BY <2>1, <2>2
  <2>5. f + o <= g + p /\ f + o \in Nat /\ g + p \in Nat
    BY <2>2, <2>3, <2>4
  <2>6. Claims(r, n) = f + o /\ Claims(r, n)' = g + p
    BY <2>1, <2>2 DEF Claims
  <2> QED BY <2>5, <2>6
<1>8. Cardinality(AlertsAbout(r, n)) + Cardinality(H) <= Claims(r, n)
  BY <1>2 DEF Claim
<1>9. Cardinality(AlertsAbout(r, n)) + Cardinality(K) <= Claims(r, n)'
  BY <1>1, <1>4, <1>5, <1>7, <1>8
<1> QED BY <1>1, <1>2, <1>4, <1>9 DEF Claim

(* A handler that ends makes room for one alert, or for one more time it is handed out. *)
LEMMA ClaimSpent ==
    ASSUME TypeOK, NEW r \in Route, NEW n, Claim(r, n), NEW w \in Handling(r, n),
           Handling(r, n)' \subseteq Handling(r, n) \ {w}, failures' = failures,
           \/ alerted' = alerted
           \/ /\ HandedOut(r, n) => HandedOut(r, n)'
              /\ \E i : AlertsAbout(r, n)' = AlertsAbout(r, n) \cup {i}
    PROVE  Claim(r, n)'
<1>1. IsFiniteSet(AlertsAbout(r, n)) /\ Cardinality(AlertsAbout(r, n)) \in Nat
  BY AlertsFinite
<1>2. PICK H, K : H = Handling(r, n) /\ K = Handling(r, n)'
  OBVIOUS
<1>3. IsFiniteSet(H) /\ K \in SUBSET (H \ {w}) /\ w \in H
  BY <1>2 DEF Claim
<1>4. IsFiniteSet(H \ {w}) /\ Cardinality(H \ {w}) = Cardinality(H) - 1
  BY <1>3, FS_RemoveElement
<1>5. IsFiniteSet(K) /\ Cardinality(K) <= Cardinality(H \ {w})
  BY <1>3, <1>4, FS_Subset
<1>6. Cardinality(K) \in Nat /\ Cardinality(H) \in Nat
  BY <1>3, <1>5, FS_CardinalityType
<1>7. failures \in Nat
  BY DEF TypeOK
<1>8. Cardinality(AlertsAbout(r, n)) + Cardinality(H) <= Claims(r, n)
  BY <1>2 DEF Claim
<1>9. CASE alerted' = alerted
  <2>1. AlertsAbout(r, n)' = AlertsAbout(r, n)
    BY <1>9 DEF AlertsAbout
  <2>2. Claims(r, n) <= Claims(r, n)' + 1 /\ Claims(r, n) \in Nat /\ Claims(r, n)' \in Nat
    BY <1>7 DEF Claims
  <2>3. Cardinality(AlertsAbout(r, n)) + Cardinality(K) <= Claims(r, n)'
    BY <1>1, <1>4, <1>5, <1>6, <1>8, <2>2
  <2> QED BY <1>2, <1>5, <2>1, <2>3 DEF Claim
<1>10. CASE /\ HandedOut(r, n) => HandedOut(r, n)'
            /\ \E i : AlertsAbout(r, n)' = AlertsAbout(r, n) \cup {i}
  <2>1. PICK i : AlertsAbout(r, n)' = AlertsAbout(r, n) \cup {i}
    BY <1>10
  <2>2. PICK A : A = AlertsAbout(r, n)'
    OBVIOUS
  <2>3. Cardinality(A) <= Cardinality(AlertsAbout(r, n)) + 1 /\ Cardinality(A) \in Nat
    BY <1>1, <2>1, <2>2, OneMore
  <2>4. Claims(r, n) <= Claims(r, n)' /\ Claims(r, n) \in Nat /\ Claims(r, n)' \in Nat
    BY <1>7, <1>10 DEF Claims
  <2>5. Cardinality(A) + Cardinality(K) <= Claims(r, n)'
    BY <1>1, <1>4, <1>5, <1>6, <1>8, <2>3, <2>4
  <2> QED BY <1>2, <1>5, <2>2, <2>5 DEF Claim
<1> QED BY <1>9, <1>10

(* A version that was not handed out is: one handler may begin. *)
LEMMA ClaimMade ==
    ASSUME TypeOK, NEW r \in Route, NEW n, Claim(r, n), alerted' = alerted, NEW w,
           Handling(r, n)' \subseteq Handling(r, n) \cup {w}, failures' = failures,
           ~HandedOut(r, n), HandedOut(r, n)'
    PROVE  Claim(r, n)'
<1>1. AlertsAbout(r, n)' = AlertsAbout(r, n) /\ Cardinality(AlertsAbout(r, n)) \in Nat
  BY AlertsFinite DEF AlertsAbout
<1>2. PICK H, K : H = Handling(r, n) /\ K = Handling(r, n)'
  OBVIOUS
<1>3. IsFiniteSet(H) /\ K \in SUBSET (H \cup {w})
  BY <1>2 DEF Claim
<1>4. /\ IsFiniteSet(H \cup {w}) /\ Cardinality(H) \in Nat
      /\ Cardinality(H \cup {w}) <= Cardinality(H) + 1 /\ Cardinality(H \cup {w}) \in Nat
  BY <1>3, OneMore
<1>5. IsFiniteSet(K) /\ Cardinality(K) <= Cardinality(H \cup {w})
  BY <1>3, <1>4, FS_Subset
<1>6. Cardinality(K) \in Nat
  BY <1>5, FS_CardinalityType
<1>7. failures \in Nat
  BY DEF TypeOK
<1>8. Cardinality(AlertsAbout(r, n)) + Cardinality(H) <= failures
  BY <1>2, <1>7 DEF Claim, Claims
<1>9. Cardinality(AlertsAbout(r, n)) + Cardinality(K) <= failures + 1
  BY <1>1, <1>4, <1>5, <1>6, <1>7, <1>8
<1> QED BY <1>1, <1>2, <1>5, <1>9 DEF Claim, Claims
-----------------------------------------------------------------------------
InBatch(w, r, n) == r \in DOMAIN batch[w] /\ batch[w][r].ver = n
Busy(w) == pc[w] \in {"handling", "saved"}

(* A step that starts no handler and saves nothing.  If a handler or the connection it
   belongs to is lost then the step is a failure. *)
LEMMA ClaimPassive ==
    ASSUME IInv, IInv', ClaimInv, alerted' = alerted, cursor' = cursor,
           \A v \in Worker :
              /\ Busy(v)' => pc'[v] = pc[v] /\ batch'[v] = batch[v] /\ upTo'[v] = upTo[v]
              /\ Busy(v)' /\ holder' = v => holder = v,
           \/ failures' > failures
           \/ /\ failures' = failures
              /\ \A v \in Worker : Busy(v) /\ holder = v => Busy(v)' /\ holder' = v
    PROVE  ClaimInv'
<1>1. CoverInv'
  BY DEF ClaimInv, CoverInv, Busy
<1>2. ASSUME NEW r \in Route, NEW n \in 1..MaxWrites PROVE Claim(r, n)'
  <2>1. /\ TypeOK /\ Claim(r, n) /\ AlertsAbout(r, n)' = AlertsAbout(r, n)
        /\ failures \in Nat /\ failures' \in Nat
    <3>1. TypeOK /\ TypeOK' /\ Claim(r, n)
      BY DEF IInv, ClaimInv
    <3>2. failures \in Nat /\ failures' \in Nat
      BY <3>1 DEF TypeOK
    <3> QED BY <3>1, <3>2 DEF AlertsAbout
  <2>2. Handling(r, n)' \subseteq Handling(r, n)
    BY DEF Handling, Busy
  <2>3. failures' >= failures
    BY <2>1
  <2>4. ASSUME HandedOut(r, n), ~HandedOut(r, n)' PROVE failures' > failures
    <3>1. PICK v \in Worker : holder = v /\ Busy(v) /\ InBatch(v, r, n)
      BY <2>4 DEF HandedOut, Busy, InBatch
    <3>2. ~(Busy(v)' /\ holder' = v /\ batch'[v] = batch[v])
      BY <2>4, <3>1 DEF HandedOut, Busy, InBatch
    <3> QED BY <3>1, <3>2
  <2> QED BY <2>1, <2>2, <2>3, <2>4, ClaimKept
<1> QED BY <1>1, <1>2 DEF ClaimInv

LEMMA ClaimDeliver ==
    ASSUME IInv, IInv', ClaimInv, NEW w \in Worker, Deliver(w)
    PROVE  ClaimInv'
<1>1. /\ TypeOK /\ pc[w] = "idle" /\ pc'[w] = "handling" /\ holder = w
      /\ batch'[w] = [r \in Pending |-> [ver |-> ver[r], price |-> price[r]]]
      /\ upTo'[w] = etag
      /\ UNCHANGED <<holder, cursor, alerted, failures>>
  BY DEF IInv, TypeOK, Deliver, Goto, subVars, outVars
<1>2. \A v \in Worker : v # w => pc'[v] = pc[v] /\ batch'[v] = batch[v] /\ upTo'[v] = upTo[v]
  BY <1>1 DEF TypeOK, Deliver, Goto
<1>3. \A r \in Pending : r \in Route /\ ver[r] > cursor /\ ver[r] <= etag
  BY DEF Pending, IInv, DocInv
<1>4. CoverInv'
  <2>1. cursor <= etag
    BY <1>1 DEF TypeOK
  <2> QED BY <1>1, <1>2, <1>3, <2>1 DEF ClaimInv, CoverInv
<1>5. ASSUME NEW r \in Route, NEW n \in 1..MaxWrites PROVE Claim(r, n)'
  <2>1. Claim(r, n) /\ failures \in Nat
    BY <1>1 DEF TypeOK, ClaimInv
  <2>2. CASE r \in Pending /\ ver[r] = n
    <3>1. ~HandedOut(r, n)
      <4>1. ~(n <= cursor)
        BY <1>1, <1>3, <2>2 DEF TypeOK
      <4> QED BY <1>1, <4>1 DEF HandedOut
    <3>2. HandedOut(r, n)'
      BY <1>1, <2>2 DEF HandedOut
    <3>3. Handling(r, n)' \subseteq Handling(r, n) \cup {w}
      BY <1>2 DEF Handling
    <3> QED BY <1>1, <2>1, <3>1, <3>2, <3>3, ClaimMade
  <2>3. CASE ~(r \in Pending /\ ver[r] = n)
    <3>1. Handling(r, n)' \subseteq Handling(r, n)
      BY <1>1, <1>2, <2>3 DEF Handling
    <3>2. HandedOut(r, n) => HandedOut(r, n)'
      BY <1>1 DEF HandedOut
    <3>3. AlertsAbout(r, n)' = AlertsAbout(r, n)
      BY <1>1 DEF AlertsAbout
    <3> QED BY <1>1, <2>1, <3>1, <3>2, <3>3, ClaimKept
  <2> QED BY <2>2, <2>3
<1> QED BY <1>4, <1>5 DEF ClaimInv

LEMMA ClaimSave == ASSUME IInv, ClaimInv, NEW w \in Worker, Save(w) PROVE ClaimInv'
<1>1. /\ TypeOK /\ pc[w] = "handling" /\ pc'[w] = "saved" /\ DOMAIN compared[w] = DOMAIN batch[w]
      /\ \A v \in Worker : v # w => pc'[v] = pc[v]
      /\ UNCHANGED <<batch, upTo, holder, cursor, failures>>
  BY DEF IInv, TypeOK, Save, Goto, subVars, sessionVars
<1>2. CoverInv'
  BY <1>1 DEF ClaimInv, CoverInv
<1>3. ASSUME NEW r \in Route, NEW n \in 1..MaxWrites PROVE Claim(r, n)'
  <2> DEFINE a == [ver |-> batch[w][r].ver, at |-> compared[w][r].at,
                   old |-> compared[w][r].last, new |-> batch[w][r].price]
  <2>1. Claim(r, n) /\ failures \in Nat
    BY <1>1 DEF TypeOK, ClaimInv
  <2>2. HandedOut(r, n) => HandedOut(r, n)'
    BY <1>1 DEF HandedOut
  <2>3. alerted'[r] = IF r \in Dropped(w) THEN Append(alerted[r], a) ELSE alerted[r]
    BY DEF Save
  <2>4. Handling(r, n)' \subseteq Handling(r, n) \ {w}
    BY <1>1 DEF Handling
  <2>5. ASSUME r \in Dropped(w)
        PROVE  AlertsAbout(r, n)' = AlertsAbout(r, n) \cup
                  (IF InBatch(w, r, n) THEN {Len(alerted[r]) + 1} ELSE {})
    <3>1. r \in DOMAIN batch[w]
      BY <1>1, <2>5 DEF Dropped
    <3>2. a \in Alert
      <4>1. /\ batch[w][r].ver \in 1..MaxWrites /\ batch[w][r].price \in Price
            /\ compared[w][r].last \in Price \cup {NoPrice} /\ compared[w][r].at \in 0..MaxClock
        BY <1>1, <3>1, SaveItems
      <4> QED BY <2>5, <4>1 DEF Alert, Dropped, IsDrop
    <3>3. alerted'[r] = Append(alerted[r], a) /\ a.ver = batch[w][r].ver
      BY <2>3, <2>5
    <3> HIDE DEF a
    <3>4. AlertsAbout(r, n)' = AlertsAbout(r, n) \cup
             (IF a.ver = n THEN {Len(alerted[r]) + 1} ELSE {})
      BY <1>1, <3>2, <3>3, AlertsAppended
    <3> QED BY <3>1, <3>3, <3>4 DEF InBatch
  <2>6. CASE r \in Dropped(w) /\ InBatch(w, r, n)
    <3>1. w \in Handling(r, n)
      BY <1>1, <2>6 DEF Handling, InBatch
    <3>2. \E i : AlertsAbout(r, n)' = AlertsAbout(r, n) \cup {i}
      BY <2>5, <2>6
    <3> QED BY <1>1, <2>1, <2>2, <2>4, <3>1, <3>2, ClaimSpent
  <2>7. CASE ~(r \in Dropped(w) /\ InBatch(w, r, n))
    <3>1. AlertsAbout(r, n)' = AlertsAbout(r, n)
      <4>1. CASE r \in Dropped(w)
        BY <2>5, <2>7, <4>1
      <4>2. CASE r \notin Dropped(w)
        <5>1. alerted'[r] = alerted[r]
          BY <2>3, <4>2
        <5> QED BY <5>1 DEF AlertsAbout
      <4> QED BY <4>1, <4>2
    <3>2. Handling(r, n)' \subseteq Handling(r, n)
      BY <2>4
    <3> QED BY <1>1, <2>1, <2>2, <3>1, <3>2, ClaimKept
  <2> QED BY <2>6, <2>7
<1> QED BY <1>2, <1>3 DEF ClaimInv

LEMMA ClaimExceedRequests ==
    ASSUME IInv, ClaimInv, NEW w \in Worker, ExceedRequests(w)
    PROVE  ClaimInv'
<1>1. /\ TypeOK /\ pc[w] = "handling" /\ pc'[w] = "down"
      /\ holder' = (IF holder = w THEN NoWorker ELSE holder) /\ holder' # w
      /\ UNCHANGED <<cursor, alerted, failures>>
  BY PriceWatchAssumption DEF IInv, TypeOK, ExceedRequests, Goto, Release, outVars
<1>2. \A v \in Worker : v # w => /\ pc'[v] = pc[v] /\ batch'[v] = batch[v]
                                 /\ upTo'[v] = upTo[v] /\ (holder' = v <=> holder = v)
  BY <1>1, PriceWatchAssumption DEF TypeOK, ExceedRequests, Goto, ClearSession
<1>3. CoverInv'
  BY <1>1, <1>2 DEF ClaimInv, CoverInv
<1>4. ASSUME NEW r \in Route, NEW n \in 1..MaxWrites PROVE Claim(r, n)'
  <2>1. Claim(r, n) /\ failures \in Nat
    BY <1>1 DEF TypeOK, ClaimInv
  <2>2. Handling(r, n)' \subseteq Handling(r, n) \ {w}
    BY <1>1, <1>2 DEF Handling
  <2>3. CASE w \in Handling(r, n)
    BY <1>1, <2>1, <2>2, <2>3, ClaimSpent
  <2>4. CASE w \notin Handling(r, n)
    <3>1. HandedOut(r, n) => HandedOut(r, n)'
      BY <1>1, <1>2, <2>4 DEF HandedOut, Handling
    <3>2. AlertsAbout(r, n)' = AlertsAbout(r, n)
      BY <1>1 DEF AlertsAbout
    <3> QED BY <1>1, <2>1, <2>2, <3>1, <3>2, ClaimKept
  <2> QED BY <2>3, <2>4
<1> QED BY <1>3, <1>4 DEF ClaimInv

(* The acknowledgement passes every version of the batch. *)
LEMMA ClaimAck == ASSUME IInv, ClaimInv, NEW w \in Worker, Ack(w) PROVE ClaimInv'
<1>1. /\ TypeOK /\ pc[w] = "saved" /\ pc'[w] = "idle" /\ holder = w /\ holder' = w
      /\ cursor' = upTo[w] /\ UNCHANGED <<alerted, failures>>
  BY DEF IInv, TypeOK, Ack, Goto, outVars
<1>2. \A v \in Worker : v # w => /\ pc'[v] = pc[v] /\ batch'[v] = batch[v]
                                 /\ upTo'[v] = upTo[v]
  BY <1>1 DEF TypeOK, Ack, Goto, ClearSession
<1>3. cursor <= upTo[w] /\ \A r \in DOMAIN batch[w] : batch[w][r].ver <= upTo[w]
  BY <1>1 DEF ClaimInv, CoverInv
<1>4. CoverInv'
  BY <1>1, <1>2 DEF ClaimInv, CoverInv
<1>5. ASSUME NEW r \in Route, NEW n \in 1..MaxWrites PROVE Claim(r, n)'
  <2>1. Claim(r, n) /\ failures \in Nat /\ cursor \in Nat /\ upTo[w] \in Nat
    BY <1>1 DEF TypeOK, ClaimInv
  <2>2. Handling(r, n)' \subseteq Handling(r, n)
    BY <1>1, <1>2 DEF Handling
  <2>3. HandedOut(r, n) => n <= cursor'
    BY <1>1, <1>3, <2>1 DEF HandedOut
  <2>4. HandedOut(r, n) => HandedOut(r, n)'
    BY <2>3 DEF HandedOut
  <2>5. AlertsAbout(r, n)' = AlertsAbout(r, n)
    BY <1>1 DEF AlertsAbout
  <2> QED BY <1>1, <2>1, <2>2, <2>4, <2>5, ClaimKept
<1> QED BY <1>4, <1>5 DEF ClaimInv

LEMMA ClaimInit == Init => ClaimInv
<1> SUFFICES ASSUME Init PROVE ClaimInv
  OBVIOUS
<1>1. CoverInv
  BY DEF Init, CoverInv
<1>2. ASSUME NEW r \in Route, NEW n \in 1..MaxWrites PROVE Claim(r, n)
  <2>1. Handling(r, n) = {} /\ AlertsAbout(r, n) = {}
    BY DEF Init, Handling, AlertsAbout
  <2>2. ~HandedOut(r, n)
    BY PriceWatchAssumption DEF Init, HandedOut
  <2> QED BY <2>1, <2>2, FS_EmptySet DEF Claim, Claims, Init
<1> QED BY <1>1, <1>2 DEF ClaimInv

-----------------------------------------------------------------------------
EInv == IInv /\ Evidence /\ ClaimInv

(* What keeps the evidence of the alerts. *)
LEMMA EvidenceNext == ASSUME IInv, Evidence, [Next]_vars PROVE Evidence'
<1>1. ASSUME NEW r \in Route, NEW p \in Price, NEW h \in BOOLEAN, Publish(r, p, h) PROVE Evidence'
  BY <1>1, EvidencePublish
<1>2. ASSUME NEW r \in Route, Purge(r) PROVE Evidence'
  BY <1>2, EvidencePurge
<1>3. ASSUME NEW w \in Worker, Deliver(w) PROVE Evidence'
  BY <1>3, EvidenceDeliver
<1>4. ASSUME NEW w \in Worker, NEW r \in Route, LoadState(w, r) PROVE Evidence'
  BY <1>4, EvidenceLoadState
<1>5. ASSUME NEW w \in Worker, Save(w) PROVE Evidence'
  BY <1>5, EvidenceSave
<1>6. ASSUME NEW w \in Worker, ExceedRequests(w) \/ Ack(w) \/ Reconnect(w) \/ Crash(w)
      PROVE  Evidence'
  <2>1. UNCHANGED <<docVars, outVars>> /\ ClearSession(w)
    BY <1>6 DEF ExceedRequests, Ack, Reconnect, Crash
  <2>2. \A v \in Worker : /\ batch'[v] = batch[v] \/ batch'[v] = Empty
                          /\ compared'[v] = compared[v] \/ compared'[v] = Empty
    BY <2>1 DEF ClearSession, IInv, TypeOK
  <2> QED BY <2>1, <2>2, EvidencePassive
<1>7. ASSUME UNCHANGED <<docVars, outVars>>, UNCHANGED sessionVars PROVE Evidence'
  BY <1>7, EvidencePassive DEF sessionVars
<1>9. CASE ExpireAlert
  <2>1. UNCHANGED <<docVars, sessionVars, lastPrice, seenVer, alerted>>
    BY <1>9 DEF ExpireAlert
  <2>2. AlertComparesSeen'
    BY <2>1 DEF docVars, Evidence, AlertComparesSeen
  <2>3. EvidenceInv'
    BY <2>1 DEF docVars, sessionVars, Evidence, EvidenceInv, Committed
  <2> QED BY <2>2, <2>3 DEF Evidence
<1>8. CASE Tick \/ (\E w \in Worker : Start(w) \/ Open(w) \/ LoseConnection(w)) \/ UNCHANGED vars
  BY <1>7, <1>8 DEF Tick, Start, Open, LoseConnection, vars
<1> QED BY <1>1, <1>2, <1>3, <1>4, <1>5, <1>6, <1>8, <1>9 DEF Next, WorkerStep

LEMMA ClaimNext == ASSUME IInv, IInv', ClaimInv, [Next]_vars PROVE ClaimInv'
<1>1. ASSUME NEW w \in Worker, Deliver(w) PROVE ClaimInv'
  BY <1>1, ClaimDeliver
<1>2. ASSUME NEW w \in Worker, Save(w) PROVE ClaimInv'
  BY <1>2, ClaimSave
<1>3. ASSUME NEW w \in Worker, ExceedRequests(w) PROVE ClaimInv'
  BY <1>3, ClaimExceedRequests
<1>4. ASSUME NEW w \in Worker, Ack(w) PROVE ClaimInv'
  BY <1>4, ClaimAck
<1>5. ASSUME UNCHANGED <<alerted, cursor, failures, holder, pc, batch, upTo>> PROVE ClaimInv'
  BY <1>5, ClaimPassive DEF Busy
<1>6. CASE \/ \E r \in Route, p \in Price, h \in BOOLEAN : Publish(r, p, h)
           \/ \E r \in Route : Purge(r)
           \/ ExpireAlert
           \/ Tick
           \/ \E w \in Worker, r \in Route : LoadState(w, r)
           \/ UNCHANGED vars
  BY <1>5, <1>6 DEF Publish, Purge, ExpireAlert, Tick, LoadState, vars, subVars, sessionVars, outVars
<1>7. ASSUME NEW w \in Worker, Start(w) \/ Open(w) PROVE ClaimInv'
  <2>1. /\ pc[w] \in {"down", "waiting"} /\ pc'[w] \in {"waiting", "idle"}
        /\ \A v \in Worker : v # w => pc'[v] = pc[v]
        /\ UNCHANGED <<alerted, cursor, failures, batch, upTo>>
    BY <1>7 DEF Start, Open, Goto, IInv, TypeOK, subVars, sessionVars, outVars
  <2>2. \A v \in Worker : v # w => (holder' = v <=> holder = v)
    BY <1>7, PriceWatchAssumption DEF Start, Open, subVars
  <2> QED BY <2>1, <2>2, ClaimPassive DEF Busy
<1>8. ASSUME NEW w \in Worker, Reconnect(w) PROVE ClaimInv'
  <2>1. /\ pc'[w] = "waiting" /\ holder # w
        /\ \A v \in Worker : v # w => /\ pc'[v] = pc[v] /\ batch'[v] = batch[v]
                                      /\ upTo'[v] = upTo[v]
        /\ UNCHANGED <<alerted, cursor, failures, holder>>
    BY <1>8 DEF Reconnect, ClearSession, Goto, IInv, TypeOK, subVars, outVars
  <2> QED BY <2>1, ClaimPassive DEF Busy
<1>9. ASSUME NEW w \in Worker, LoseConnection(w) PROVE ClaimInv'
  <2>1. /\ \A v \in Worker : pc'[v] = pc[v] \/ pc'[v] = "waiting"
        /\ holder' \notin Worker /\ failures' > failures
        /\ UNCHANGED <<alerted, cursor, batch, upTo>>
    BY <1>9, PriceWatchAssumption
    DEF LoseConnection, Goto, IInv, TypeOK, sessionVars, outVars
  <2> QED BY <2>1, ClaimPassive DEF Busy
<1>10. ASSUME NEW w \in Worker, Crash(w) PROVE ClaimInv'
  <2>1. /\ pc'[w] = "down" /\ failures' > failures
        /\ \A v \in Worker : v # w => /\ pc'[v] = pc[v] /\ batch'[v] = batch[v]
                                      /\ upTo'[v] = upTo[v]
                                      /\ (holder' = v => holder = v)
        /\ UNCHANGED <<alerted, cursor>>
    BY <1>10, PriceWatchAssumption
    DEF Crash, ClearSession, Release, Goto, IInv, TypeOK, outVars
  <2> QED BY <2>1, ClaimPassive DEF Busy
<1> QED BY <1>1, <1>2, <1>3, <1>4, <1>6, <1>7, <1>8, <1>9, <1>10 DEF Next, WorkerStep

LEMMA EvidenceInvariance == Spec => []EInv
<1>1. Init => EInv
  BY InitInv, EvidenceInit, ClaimInit DEF EInv
<1>2. EInv /\ [Next]_vars => EInv'
  <2> SUFFICES ASSUME EInv, [Next]_vars PROVE EInv'
    OBVIOUS
  <2>1. IInv'
    BY NextInv DEF EInv
  <2> QED BY <2>1, EvidenceNext, ClaimNext DEF EInv
<1> QED BY <1>1, <1>2, PTL DEF Spec

(* Whatever pods overlap, an alert compares two published versions of its route, both
   committed as seen, and its new price is the lower one: no worker alerts about what
   another has half done (run.py:60-116, one save_changes per batch). *)
THEOREM AlertsCompareSeen == Spec => []AlertComparesSeen
<1>1. EInv => AlertComparesSeen
  BY DEF EInv, Evidence
<1> QED BY <1>1, EvidenceInvariance, PTL

(* However many pods overlap, a version is alerted about at most once more often than
   pods crashed and connections were lost: a subscription that has handed a version out
   takes a failure to hand it out again (WAIT_FOR_FREE, run.py:131-140). *)
THEOREM RepeatsNeedFailures == Spec => []RepeatedOnlyOnFailure
<1>1. EInv => RepeatedOnlyOnFailure
  <2> SUFFICES ASSUME EInv, NEW r \in Route, NEW n \in 1..MaxWrites
               PROVE  Cardinality(AlertsAbout(r, n)) <= 1 + failures
    BY DEF RepeatedOnlyOnFailure
  <2>1. TypeOK /\ Claim(r, n) /\ failures \in Nat
    BY DEF EInv, ClaimInv, IInv, TypeOK
  <2>2. Cardinality(AlertsAbout(r, n)) \in Nat
    BY <2>1, AlertsFinite
  <2>3. Cardinality(Handling(r, n)) \in Nat
    BY <2>1, FS_CardinalityType DEF Claim
  <2>4. Claims(r, n) \in Nat /\ Claims(r, n) <= 1 + failures
    BY <2>1 DEF Claims
  <2>5. Cardinality(AlertsAbout(r, n)) + Cardinality(Handling(r, n)) <= Claims(r, n)
    BY <2>1 DEF Claim
  <2> QED BY <2>1, <2>2, <2>3, <2>4, <2>5
<1> QED BY <1>1, EvidenceInvariance, PTL
=============================================================================
