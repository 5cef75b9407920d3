----------------------------- MODULE PriceWatch -----------------------------
(***************************************************************************)
(* The price-drop worker (src/worker/run.py) against the documents it      *)
(* reads and writes.                                                       *)
(*                                                                         *)
(* Writers (the scraper, a live refresh, the seed) publish route documents *)
(* in RavenDB; every write gets the next etag.  A data subscription sends  *)
(* the documents with hidden_city_score > 0.5 that changed since the last  *)
(* acknowledged etag, as one batch, to the one connection it accepts.  The *)
(* worker's handler _handle_batch loads the last price it saw of each item *)
(* (one request of the session each), notes a drop, and commits all states *)
(* and alerts in one save_changes; the client then acknowledges the batch. *)
(* The connection may be lost and the process may die between any two of   *)
(* these steps, and the subscription then sends the batch again.           *)
(***************************************************************************)
EXTENDS Naturals, Sequences, FiniteSets

CONSTANTS
    Route,        \* the route documents
    Price,        \* the values of typical_price.min
    NoPrice,      \* no document, or no price seen yet
    Worker,       \* the worker pods
    NoWorker,     \* nobody holds the subscription
    MaxRequests,  \* RavenDB's requests-per-session cap (30)
    AlertTTL,     \* seconds until an alert document expires (ALERT_TTL_MINUTES)
    MaxWrites,    \* bound: route writes in a behaviour
    MaxFailures,  \* bound: crashes and lost connections in a behaviour
    MaxClock      \* bound: seconds of wall clock in a behaviour

ASSUME PriceWatchAssumption ==
    /\ Price \subseteq Nat
    /\ NoPrice \notin Nat
    /\ NoWorker \notin Worker
    /\ MaxRequests \in Nat \ {0}
    /\ AlertTTL \in Nat \ {0}
    /\ MaxWrites \in Nat
    /\ MaxFailures \in Nat
    /\ MaxClock \in Nat

VARIABLES
    price,      \* route document: typical_price.min, NoPrice if there is no document
    hot,        \* route document: hidden_city_score > 0.5
    ver,        \* route document: etag of its last write
    etag,       \* etag of the last write in the database
    cursor,     \* subscription: highest acknowledged etag
    holder,     \* subscription: the connected worker
    pc,         \* each worker's control point
    batch,      \* each worker's batch: a function from its routes to the versions sent
    upTo,       \* the etag that acknowledging the batch acknowledges
    compared,   \* what the handler did: a function from the routes it has dealt with
                \*   to the last price it loaded and the second it did so
    requests,   \* requests the handler's session has made
    lastPrice,  \* the pricewatchstate documents
    alertDocs,  \* the PriceAlerts documents, whose id is <<route, at>>
    clock,      \* wall clock, in seconds
    failures,   \* crashes and lost connections so far
    published,  \* history: every candidate version ever published
    seenVer,    \* history: highest version of each route whose comparison was committed
    alerted     \* history: the alerts committed for each route, oldest first

docVars == <<price, hot, ver, etag, published>>
subVars == <<cursor, holder>>
sessionVars == <<batch, upTo, compared, requests>>
outVars == <<lastPrice, alertDocs, seenVer, alerted>>
vars == <<docVars, subVars, pc, sessionVars, outVars, clock, failures>>

Empty == [r \in {} |-> 0]

Version == [route : Route, ver : 1..MaxWrites, price : Price]
Sent == [ver : 1..MaxWrites, price : Price]
Comparison == [last : Price \cup {NoPrice}, at : 0..MaxClock]
Alert == [ver : 1..MaxWrites, at : 0..MaxClock, old : Price, new : Price]
AlertDoc == [route : Route, at : 0..MaxClock, old : Price, new : Price]

PartialFunctions(S, T) == UNION {[R -> T] : R \in SUBSET S}

TypeOK ==
    /\ price \in [Route -> Price \cup {NoPrice}]
    /\ hot \in [Route -> BOOLEAN]
    /\ ver \in [Route -> 0..MaxWrites]
    /\ etag \in 0..MaxWrites
    /\ cursor \in 0..etag
    /\ holder \in Worker \cup {NoWorker}
    /\ pc \in [Worker -> {"down", "waiting", "idle", "handling", "saved"}]
    /\ batch \in [Worker -> PartialFunctions(Route, Sent)]
    /\ upTo \in [Worker -> 0..MaxWrites]
    /\ compared \in [Worker -> PartialFunctions(Route, Comparison)]
    /\ requests \in [Worker -> 0..MaxRequests]
    /\ lastPrice \in [Route -> Price \cup {NoPrice}]
    /\ alertDocs \subseteq AlertDoc
    /\ clock \in 0..MaxClock
    /\ failures \in 0..MaxFailures
    /\ published \subseteq Version
    /\ seenVer \in [Route -> 0..MaxWrites]
    /\ alerted \in [Route -> Seq(Alert)]

Init ==
    /\ price = [r \in Route |-> NoPrice]
    /\ hot = [r \in Route |-> FALSE]
    /\ ver = [r \in Route |-> 0]
    /\ etag = 0
    /\ cursor = 0
    /\ holder = NoWorker
    /\ pc = [w \in Worker |-> "down"]
    /\ batch = [w \in Worker |-> Empty]
    /\ upTo = [w \in Worker |-> 0]
    /\ compared = [w \in Worker |-> Empty]
    /\ requests = [w \in Worker |-> 0]
    /\ lastPrice = [r \in Route |-> NoPrice]
    /\ alertDocs = {}
    /\ clock = 0
    /\ failures = 0
    /\ published = {}
    /\ seenVer = [r \in Route |-> 0]
    /\ alerted = [r \in Route |-> <<>>]
-----------------------------------------------------------------------------
(* The environment: writers, RavenDB's expiration sweep, time.             *)

(* put_document, or a live refresh: the whole route document is replaced. *)
Publish(r, p, h) ==
    /\ etag < MaxWrites
    /\ etag' = etag + 1
    /\ price' = [price EXCEPT ![r] = p]
    /\ hot' = [hot EXCEPT ![r] = h]
    /\ ver' = [ver EXCEPT ![r] = etag + 1]
    /\ published' = IF h THEN published \cup {[route |-> r, ver |-> etag + 1, price |-> p]}
                         ELSE published
    /\ UNCHANGED <<subVars, pc, sessionVars, outVars, clock, failures>>

(* The sweep deletes an expired route document; its pricewatchstate document has no
   @expires and stays. *)
Purge(r) ==
    /\ price[r] # NoPrice
    /\ price' = [price EXCEPT ![r] = NoPrice]
    /\ hot' = [hot EXCEPT ![r] = FALSE]
    /\ ver' = [ver EXCEPT ![r] = 0]
    /\ UNCHANGED <<etag, published, subVars, pc, sessionVars, outVars, clock, failures>>

(* The sweep deletes an alert document whose @expires has passed. *)
ExpireAlert ==
    \E d \in alertDocs :
       /\ d.at + AlertTTL <= clock
       /\ alertDocs' = alertDocs \ {d}
       /\ UNCHANGED <<docVars, subVars, pc, sessionVars, lastPrice, seenVer, alerted, clock,
                      failures>>

Tick ==
    /\ clock < MaxClock
    /\ clock' = clock + 1
    /\ UNCHANGED <<docVars, subVars, pc, sessionVars, outVars, failures>>
-----------------------------------------------------------------------------
(* The worker.                                                             *)

Goto(w, l) == pc' = [pc EXCEPT ![w] = l]

ClearSession(w) ==
    /\ batch' = [batch EXCEPT ![w] = Empty]
    /\ upTo' = [upTo EXCEPT ![w] = 0]
    /\ compared' = [compared EXCEPT ![w] = Empty]
    /\ requests' = [requests EXCEPT ![w] = 0]

Release(w) == holder' = IF holder = w THEN NoWorker ELSE holder

(* Kubernetes (re)starts the pod; run() makes sure the database and the subscription
   exist and asks for the subscription, waiting for it to be free. *)
Start(w) ==
    /\ pc[w] = "down"
    /\ Goto(w, "waiting")
    /\ UNCHANGED <<docVars, subVars, sessionVars, outVars, clock, failures>>

(* A wrong variant of Open: the subscription is taken over (TAKE_OVER). *)
MutOpen(w) ==
    /\ pc[w] = "waiting"
    /\ holder' = w
    /\ Goto(w, "idle")
    /\ UNCHANGED <<docVars, cursor, sessionVars, outVars, clock, failures>>

Open(w) ==
    /\ pc[w] = "waiting"
    /\ holder = NoWorker
    /\ holder' = w
    /\ Goto(w, "idle")
    /\ UNCHANGED <<docVars, cursor, sessionVars, outVars, clock, failures>>

(* The documents matching the subscription's query that changed since the cursor. *)
Pending == {r \in Route : hot[r] /\ ver[r] > cursor}

(* The server sends them as they are now, and the session of the batch is opened. *)
Deliver(w) ==
    /\ pc[w] = "idle"
    /\ holder = w
    /\ Pending # {}
    /\ batch' = [batch EXCEPT ![w] = [r \in Pending |-> [ver |-> ver[r], price |-> price[r]]]]
    /\ upTo' = [upTo EXCEPT ![w] = etag]
    /\ Goto(w, "handling")
    /\ UNCHANGED <<docVars, subVars, compared, requests, outVars, clock, failures>>

(* Wrong variants of IsDrop: the first sighting of a route, or any change, is a drop. *)
MutFirstSightingIsDrop(p, last) == p # last
MutChangeIsDrop(p, last) == last # NoPrice /\ p # last

IsDrop(p, last) == last # NoPrice /\ p < last

(* One turn of the for loop: the state document is loaded, which costs a request, and
   compared; a drop's alert is stored in the session with an id made of the current
   second.  The items of a batch are distinct documents, so their order is immaterial. *)
LoadState(w, r) ==
    /\ pc[w] = "handling"
    /\ r \in DOMAIN batch[w] \ DOMAIN compared[w]
    /\ requests[w] < MaxRequests
    /\ requests' = [requests EXCEPT ![w] = @ + 1]
    /\ compared' =
          [compared EXCEPT ![w] = [q \in DOMAIN compared[w] \cup {r} |->
              IF q = r THEN [last |-> lastPrice[r], at |-> clock] ELSE compared[w][q]]]
    /\ UNCHANGED <<docVars, subVars, pc, batch, upTo, outVars, clock, failures>>

(* Wrong variants of Changed: an existing state document is not updated, or only a drop
   updates it. *)
MutStateNotUpdated(w) == {r \in DOMAIN compared[w] : compared[w][r].last = NoPrice}
MutOnlyDropsUpdate(w) ==
    {r \in DOMAIN compared[w] : \/ compared[w][r].last = NoPrice
                               \/ IsDrop(batch[w][r].price, compared[w][r].last)}

(* The items whose state document the session has to write: save_changes sends only
   what differs from what was loaded.  A drop is one of them. *)
Changed(w) == {r \in DOMAIN compared[w] : compared[w][r].last # batch[w][r].price}
Dropped(w) == {r \in DOMAIN compared[w] : IsDrop(batch[w][r].price, compared[w][r].last)}

NewAlertDocs(w) ==
    {[route |-> r, at |-> compared[w][r].at,
      old |-> compared[w][r].last, new |-> batch[w][r].price] : r \in Dropped(w)}

(* A wrong variant of PutAlerts: an id that exists keeps its document. *)
MutFirstAlertWins(docs, new) ==
    docs \cup {n \in new : \A a \in docs : <<a.route, a.at>> # <<n.route, n.at>>}

(* Storing under an existing id overwrites the document: no optimistic concurrency.  The
   document's @expires is AlertTTL after the second in its id. *)
PutAlerts(docs, new) ==
    {a \in docs : \A n \in new : <<a.route, a.at>> # <<n.route, n.at>>} \cup new

(* save_changes: one transaction, one request if there is anything to write. *)
Save(w) ==
    /\ pc[w] = "handling"
    /\ DOMAIN compared[w] = DOMAIN batch[w]
    /\ Changed(w) # {} => requests[w] < MaxRequests
    /\ lastPrice' = [r \in Route |-> IF r \in Changed(w) THEN batch[w][r].price ELSE lastPrice[r]]
    /\ alertDocs' = PutAlerts(alertDocs, NewAlertDocs(w))
    /\ seenVer' = [r \in Route |->
          IF r \in DOMAIN batch[w] /\ batch[w][r].ver > seenVer[r]
          THEN batch[w][r].ver ELSE seenVer[r]]
    /\ alerted' = [r \in Route |->
          IF r \in Dropped(w)
          THEN Append(alerted[r], [ver |-> batch[w][r].ver, at |-> compared[w][r].at,
                                   old |-> compared[w][r].last, new |-> batch[w][r].price])
          ELSE alerted[r]]
    /\ Goto(w, "saved")
    /\ UNCHANGED <<docVars, subVars, sessionVars, clock, failures>>

(* The session refuses one request too many, the handler raises, the subscription worker
   stops with the error and the process exits. *)
ExceedRequests(w) ==
    /\ pc[w] = "handling"
    /\ requests[w] = MaxRequests
    /\ DOMAIN compared[w] = DOMAIN batch[w] => Changed(w) # {}
    /\ Goto(w, "down")
    /\ Release(w)
    /\ ClearSession(w)
    /\ UNCHANGED <<docVars, cursor, outVars, clock, failures>>

(* A wrong variant of Ack: acknowledges what was written while the handler ran as well. *)
MutAckEverything(w) ==
    /\ pc[w] = "saved"
    /\ holder = w
    /\ cursor' = etag
    /\ Goto(w, "idle")
    /\ ClearSession(w)
    /\ UNCHANGED <<docVars, holder, outVars, clock, failures>>

(* The handler returned: the client acknowledges the batch. *)
Ack(w) ==
    /\ pc[w] = "saved"
    /\ holder = w
    /\ cursor' = upTo[w]
    /\ Goto(w, "idle")
    /\ ClearSession(w)
    /\ UNCHANGED <<docVars, holder, outVars, clock, failures>>

(* The connection was lost while the handler ran: nothing can be acknowledged, and the
   client connects again. *)
Reconnect(w) ==
    /\ pc[w] = "saved"
    /\ holder # w
    /\ Goto(w, "waiting")
    /\ ClearSession(w)
    /\ UNCHANGED <<docVars, subVars, outVars, clock, failures>>

(* The connection drops.  A handler that is running keeps running: its session talks to
   the database over a connection of its own. *)
LoseConnection(w) ==
    /\ failures < MaxFailures
    /\ failures' = failures + 1
    /\ holder = w
    /\ holder' = NoWorker
    /\ IF pc[w] = "idle" THEN Goto(w, "waiting") ELSE UNCHANGED pc
    /\ UNCHANGED <<docVars, cursor, sessionVars, outVars, clock>>

(* The pod is killed, or the process dies of another error. *)
Crash(w) ==
    /\ failures < MaxFailures
    /\ failures' = failures + 1
    /\ pc[w] # "down"
    /\ Goto(w, "down")
    /\ Release(w)
    /\ ClearSession(w)
    /\ UNCHANGED <<docVars, cursor, outVars, clock>>
-----------------------------------------------------------------------------
(* What a live pod does next without anything going wrong around it. *)
WorkerStep(w) ==
    \/ Start(w)
    \/ Open(w)
    \/ Deliver(w)
    \/ \E r \in Route : LoadState(w, r)
    \/ Save(w)
    \/ ExceedRequests(w)
    \/ Ack(w)
    \/ Reconnect(w)

Next ==
    \/ \E r \in Route, p \in Price, h \in BOOLEAN : Publish(r, p, h)
    \/ \E r \in Route : Purge(r)
    \/ ExpireAlert
    \/ Tick
    \/ \E w \in Worker : WorkerStep(w) \/ LoseConnection(w) \/ Crash(w)

Spec == Init /\ [][Next]_vars

(* Kubernetes restarts the pod and the client library keeps its loop going. *)
FairSpec == Spec /\ \A w \in Worker : WF_vars(WorkerStep(w))
-----------------------------------------------------------------------------
(* Correctness.                                                            *)

(* No candidate is acknowledged unseen: when the subscription's cursor has passed the
   current version of a candidate route, so that it will never be sent again, a comparison
   of that version has been committed (run.py's handler saves before the client
   acknowledges, whatever crashes, disconnects or is redelivered in between). *)
NoVersionSkipped ==
    \A r \in Route : hot[r] /\ ver[r] <= cursor => seenVer[r] >= ver[r]

(* Every alert of a single worker is a real drop: its new price is that of a version of
   the route, its old price that of an earlier version, and the new one is lower.  A
   replay of the subscription, or a batch redelivered after its save, is not a drop
   (run.py's comment on _handle_batch). *)
AlertIsARealDrop ==
    \A r \in Route : \A i \in DOMAIN alerted[r] :
       LET a == alerted[r][i] IN
       /\ a.new < a.old
       /\ [route |-> r, ver |-> a.ver, price |-> a.new] \in published
       /\ \E v \in published : v.route = r /\ v.ver < a.ver /\ v.price = a.old

(* A version is alerted about at most once and alerts follow the order of the versions,
   although a batch is handled again after a crash between save_changes and the
   acknowledgement. *)
AlertedInOrder ==
    \A r \in Route : \A i, j \in DOMAIN alerted[r] :
       i < j => alerted[r][i].ver < alerted[r][j].ver

(* With any number of workers an alert compares two published versions of its route, and
   the price that it says the route has fallen from was committed as seen: no worker makes
   one up from what another has half done. *)
AlertComparesSeen ==
    \A r \in Route : \A i \in DOMAIN alerted[r] :
       LET a == alerted[r][i] IN
       /\ a.new < a.old
       /\ [route |-> r, ver |-> a.ver, price |-> a.new] \in published
       /\ a.ver <= seenVer[r]
       /\ \E v \in published : v.route = r /\ v.price = a.old /\ v.ver <= seenVer[r]

AlertsAbout(r, n) == {i \in DOMAIN alerted[r] : alerted[r][i].ver = n}

(* Workers that overlap may alert about one version several times, but only as often as a
   crash or a lost connection made the subscription send it again: a handler that its
   session refused, or one that merely took long, does not repeat an alert (WAIT_FOR_FREE,
   and the one save_changes of a batch). *)
RepeatedOnlyOnFailure ==
    \A r \in Route, n \in 1..MaxWrites : Cardinality(AlertsAbout(r, n)) <= 1 + failures

AlertDocOf(r, a) == [route |-> r, at |-> a.at, old |-> a.old, new |-> a.new]

(* An alert raised for a route is in its PriceAlerts document, with the prices it was
   raised with, until it expires an hour later or a newer alert of the same route and
   second is put under its id, which has a resolution of one second: nothing else takes it
   away or holds it back, no replay, no other worker and no sweep. *)
NewestAlertStored ==
    \A r \in Route : \A i \in DOMAIN alerted[r] :
       LET a == alerted[r][i] IN
       /\ clock < a.at + AlertTTL
       /\ \A j \in DOMAIN alerted[r] : j > i => alerted[r][j].at # a.at
       => AlertDocOf(r, a) \in alertDocs

(* The worker implements the ledger: in spite of batches, redeliveries and crashes each
   version is observed at most once, in order, and alerts are exactly the descents of
   what was observed.  Holds with one worker, the deployment k8s/worker describes. *)
Ledger == INSTANCE AlertLedger
LedgerSpec == Ledger!Spec

(* A candidate whose latest version has not been compared does not stay so: it is
   compared, or purged, or stops being a candidate.  In particular a drop that stays in
   the database is alerted about. *)
Behind(r) == hot[r] /\ seenVer[r] < ver[r]
CatchesUp == \A r \in Route : Behind(r) ~> ~Behind(r)
=============================================================================
