----------------------- MODULE PriceWatchLedgerProofs -----------------------
(***************************************************************************)
(* With a single worker, which is what the Recreate deployment of one      *)
(* replica gives, PriceWatch implements AlertLedger, and the invariants on *)
(* alerts follow.  Everything here holds for every set of routes and       *)
(* prices, every request cap, and any crashes and lost connections.        *)
(***************************************************************************)
EXTENDS PriceWatchProofs

SingleWorker == \A v, w \in Worker : v = w

Pub(r, n, p) == [route |-> r, ver |-> n, price |-> p]

(* Versions are unique, not in the future, and a candidate document is one of them. *)
PublishedInv ==
    /\ \A u \in published : u.ver <= etag
    /\ \A u, v \in published : u.ver = v.ver => u = v
    /\ \A r \in Route : hot[r] => Pub(r, ver[r], price[r]) \in published

(* The watch state of a route is the price of the newest version compared. *)
SeenInv ==
    \A r \in Route :
       /\ seenVer[r] <= etag
       /\ hot[r] => seenVer[r] <= ver[r]
       /\ IF seenVer[r] = 0 THEN lastPrice[r] = NoPrice
          ELSE Pub(r, seenVer[r], lastPrice[r]) \in published

(* A batch holds published versions, none newer than its document. *)
SentInv ==
    \A w \in Worker : pc[w] \in {"handling", "saved"} =>
       \A r \in DOMAIN batch[w] :
          /\ Pub(r, batch[w][r].ver, batch[w][r].price) \in published
          /\ hot[r] => batch[w][r].ver <= ver[r]

(* Until it is saved, a batch is not older than what was compared, and what was loaded
   is still what is stored: nobody else writes the watch states. *)
HandlingInv ==
    \A w \in Worker : pc[w] = "handling" =>
       /\ DOMAIN compared[w] \subseteq DOMAIN batch[w]
       /\ \A r \in DOMAIN batch[w] : seenVer[r] <= batch[w][r].ver
       /\ \A r \in DOMAIN compared[w] : compared[w][r].last = lastPrice[r]

(* Outside a handler nothing is compared. *)
IdleInv == \A w \in Worker : pc[w] \notin {"handling", "saved"} => compared[w] = Empty

AlertedSeen == \A r \in Route : \A i \in DOMAIN alerted[r] : alerted[r][i].ver <= seenVer[r]

LInv == /\ IInv /\ PublishedInv /\ SeenInv /\ SentInv /\ HandlingInv /\ IdleInv
        /\ AlertedSeen /\ AlertIsARealDrop /\ AlertedInOrder
-----------------------------------------------------------------------------
Ledgered == AlertedSeen /\ AlertIsARealDrop /\ AlertedInOrder

LEMMA LInitInv == Init => LInv
<1> SUFFICES ASSUME Init PROVE LInv
  OBVIOUS
<1>1. IInv
  BY InitInv
<1>2. PublishedInv /\ SeenInv /\ SentInv /\ HandlingInv /\ IdleInv
  BY DEF Init, PublishedInv, SeenInv, SentInv, HandlingInv, IdleInv
<1>3. AlertedSeen /\ AlertIsARealDrop /\ AlertedInOrder
  BY DEF Init, AlertedSeen, AlertIsARealDrop, AlertedInOrder
<1> QED BY <1>1, <1>2, <1>3 DEF LInv

(* A step that leaves the documents and the outputs alone and starts no handler. *)
LEMMA LPassive ==
    ASSUME LInv, UNCHANGED <<docVars, outVars>>,
           \A w \in Worker :
              /\ pc'[w] \in {"handling", "saved"} => /\ pc'[w] = pc[w]
                                                    /\ batch'[w] = batch[w]
                                                    /\ compared'[w] = compared[w]
              /\ pc'[w] \notin {"handling", "saved"} => compared'[w] = Empty
    PROVE  (PublishedInv /\ SeenInv /\ SentInv /\ HandlingInv /\ IdleInv /\ Ledgered)'
<1> USE DEF LInv, docVars, outVars
<1>1. PublishedInv' /\ SeenInv' /\ Ledgered'
  BY DEF PublishedInv, SeenInv, Ledgered, AlertedSeen, AlertIsARealDrop, AlertedInOrder
<1>2. SentInv' /\ HandlingInv' /\ IdleInv'
  BY DEF SentInv, HandlingInv, IdleInv
<1> QED BY <1>1, <1>2

(* The passive actions of a worker. *)
LEMMA LForget ==
    ASSUME LInv, NEW w \in Worker, ClearSession(w), NEW l \in {"down", "waiting", "idle"},
           Goto(w, l), UNCHANGED <<docVars, outVars>>
    PROVE  (PublishedInv /\ SeenInv /\ SentInv /\ HandlingInv /\ IdleInv /\ Ledgered)'
<1> USE DEF LInv, IInv, TypeOK, Goto, ClearSession
<1>1. \A v \in Worker : v # w => pc'[v] = pc[v] /\ batch'[v] = batch[v] /\ compared'[v] = compared[v]
  OBVIOUS
<1>2. pc'[w] = l /\ compared'[w] = Empty
  OBVIOUS
<1> QED BY <1>1, <1>2, LPassive DEF IdleInv

LEMMA LMove ==
    ASSUME LInv, NEW w \in Worker, NEW l \in {"down", "waiting", "idle"},
           pc[w] \notin {"handling", "saved"},
           Goto(w, l), UNCHANGED <<docVars, sessionVars, outVars>>
    PROVE  (PublishedInv /\ SeenInv /\ SentInv /\ HandlingInv /\ IdleInv /\ Ledgered)'
<1> USE DEF LInv, IInv, TypeOK, Goto, sessionVars
<1>1. \A v \in Worker : v # w => pc'[v] = pc[v]
  OBVIOUS
<1>2. pc'[w] = l
  OBVIOUS
<1> QED BY <1>1, <1>2, LPassive DEF IdleInv

LEMMA LPublish ==
    ASSUME LInv, NEW r \in Route, NEW p \in Price, NEW h \in BOOLEAN, Publish(r, p, h)
    PROVE  (PublishedInv /\ SeenInv /\ SentInv /\ HandlingInv /\ IdleInv /\ Ledgered)'
<1> USE PriceWatchAssumption
    DEF LInv, Publish, docVars, subVars, sessionVars, outVars
<1>1. /\ etag \in Nat /\ etag' = etag + 1
      /\ \A u \in published : u.ver \in Nat
      /\ seenVer \in [Route -> Nat] /\ ver \in [Route -> Nat]
  BY DEF IInv, TypeOK, Version
<1>2. published \subseteq published' /\ published' \subseteq published \cup {Pub(r, etag + 1, p)}
  BY DEF Pub
<1>3. /\ \A q \in Route \ {r} : hot'[q] = hot[q] /\ ver'[q] = ver[q] /\ price'[q] = price[q]
      /\ hot'[r] = h /\ ver'[r] = etag + 1 /\ price'[r] = p
  BY DEF IInv, TypeOK
<1>4. PublishedInv'
  <2>1. \A u \in published' : u.ver <= etag'
    BY <1>1, <1>2 DEF PublishedInv, Pub
  <2>2. \A u, v \in published' : u.ver = v.ver => u = v
    BY <1>1, <1>2 DEF PublishedInv, Pub
  <2>3. \A q \in Route : hot'[q] => Pub(q, ver'[q], price'[q]) \in published'
    BY <1>2, <1>3 DEF PublishedInv, Pub
  <2> QED BY <2>1, <2>2, <2>3 DEF PublishedInv
<1>5. SeenInv'
  <2> SUFFICES ASSUME NEW q \in Route
               PROVE  /\ seenVer[q] <= etag'
                      /\ hot'[q] => seenVer[q] <= ver'[q]
                      /\ IF seenVer[q] = 0 THEN lastPrice[q] = NoPrice
                         ELSE Pub(q, seenVer[q], lastPrice[q]) \in published'
    BY DEF SeenInv
  <2>1. seenVer[q] <= etag
    BY DEF SeenInv
  <2>2. seenVer[q] <= etag' /\ (hot'[q] => seenVer[q] <= ver'[q])
    BY <1>1, <1>3, <2>1 DEF SeenInv
  <2>3. IF seenVer[q] = 0 THEN lastPrice[q] = NoPrice
        ELSE Pub(q, seenVer[q], lastPrice[q]) \in published'
    BY <1>2 DEF SeenInv
  <2> QED BY <2>2, <2>3
<1>6. SentInv'
  <2> SUFFICES ASSUME NEW w \in Worker, pc[w] \in {"handling", "saved"}, NEW q \in DOMAIN batch[w]
               PROVE  /\ Pub(q, batch[w][q].ver, batch[w][q].price) \in published'
                      /\ hot'[q] => batch[w][q].ver <= ver'[q]
    BY DEF SentInv
  <2>1. Pub(q, batch[w][q].ver, batch[w][q].price) \in published
    BY DEF SentInv
  <2>2. batch[w][q].ver <= etag /\ batch[w][q].ver \in Nat
    BY <1>1, <2>1 DEF PublishedInv, Pub
  <2>3. q \in Route
    BY PartialFunctionsType DEF IInv, TypeOK
  <2> QED BY <1>1, <1>2, <1>3, <2>1, <2>2, <2>3 DEF SentInv
<1>7. HandlingInv' /\ IdleInv'
  BY DEF HandlingInv, IdleInv
<1>8. Ledgered'
  <2>1. AlertedSeen' /\ AlertedInOrder'
    BY DEF AlertedSeen, AlertedInOrder
  <2>2. AlertIsARealDrop'
    BY <1>2 DEF AlertIsARealDrop
  <2> QED BY <2>1, <2>2 DEF Ledgered
<1> QED BY <1>4, <1>5, <1>6, <1>7, <1>8

LEMMA LPurge ==
    ASSUME LInv, NEW r \in Route, Purge(r)
    PROVE  (PublishedInv /\ SeenInv /\ SentInv /\ HandlingInv /\ IdleInv /\ Ledgered)'
<1> USE DEF LInv, Purge, subVars, sessionVars, outVars
<1>1. /\ \A q \in Route \ {r} : hot'[q] = hot[q] /\ ver'[q] = ver[q] /\ price'[q] = price[q]
      /\ ~hot'[r]
  BY DEF IInv, TypeOK
<1>2. PublishedInv' /\ SeenInv'
  BY <1>1 DEF PublishedInv, SeenInv
<1>3. SentInv'
  <2>1. \A w \in Worker : DOMAIN batch[w] \subseteq Route
    BY PartialFunctionsType DEF IInv, TypeOK
  <2> QED BY <1>1, <2>1 DEF SentInv
<1>4. HandlingInv' /\ IdleInv' /\ Ledgered'
  BY DEF HandlingInv, IdleInv, Ledgered, AlertedSeen, AlertIsARealDrop, AlertedInOrder
<1> QED BY <1>2, <1>3, <1>4

LEMMA LDeliver ==
    ASSUME LInv, NEW w \in Worker, Deliver(w)
    PROVE  (PublishedInv /\ SeenInv /\ SentInv /\ HandlingInv /\ IdleInv /\ Ledgered)'
<1> USE DEF LInv, Deliver, Goto, docVars, subVars, outVars
<1>1. /\ \A v \in Worker : v # w => pc'[v] = pc[v] /\ batch'[v] = batch[v]
      /\ pc'[w] = "handling"
      /\ batch'[w] = [r \in Pending |-> [ver |-> ver[r], price |-> price[r]]]
  BY DEF IInv, TypeOK
<1>2. PublishedInv' /\ SeenInv' /\ Ledgered'
  BY DEF PublishedInv, SeenInv, Ledgered, AlertedSeen, AlertIsARealDrop, AlertedInOrder
<1>3. /\ DOMAIN batch'[w] = Pending
      /\ \A r \in Pending : /\ r \in Route /\ hot[r]
                            /\ batch'[w][r].ver = ver[r] /\ batch'[w][r].price = price[r]
  BY <1>1 DEF Pending
<1>4. \A r \in Route : ver[r] \in Nat
  BY DEF IInv, TypeOK
<1>5. SentInv'
  BY <1>1, <1>3, <1>4 DEF SentInv, PublishedInv
<1>6. compared[w] = Empty /\ DOMAIN compared[w] = {}
  BY DEF IdleInv, Empty
<1>7. HandlingInv'
  BY <1>1, <1>3, <1>6 DEF HandlingInv, SeenInv
<1>8. IdleInv'
  BY <1>1 DEF IdleInv
<1> QED BY <1>2, <1>5, <1>7, <1>8

LEMMA LLoadState ==
    ASSUME LInv, NEW w \in Worker, NEW r \in Route, LoadState(w, r)
    PROVE  (PublishedInv /\ SeenInv /\ SentInv /\ HandlingInv /\ IdleInv /\ Ledgered)'
<1> USE DEF LInv, LoadState, docVars, subVars, outVars
<1>1. \A v \in Worker : v # w => compared'[v] = compared[v]
  BY DEF IInv, TypeOK
<1>2. compared'[w] = [q \in DOMAIN compared[w] \cup {r} |->
              IF q = r THEN [last |-> lastPrice[r], at |-> clock] ELSE compared[w][q]]
  BY DEF IInv, TypeOK
<1>3. PublishedInv' /\ SeenInv' /\ Ledgered' /\ SentInv'
  <2>1. PublishedInv' /\ SeenInv' /\ SentInv'
    BY DEF PublishedInv, SeenInv, SentInv
  <2>2. Ledgered'
    BY DEF Ledgered, AlertedSeen, AlertIsARealDrop, AlertedInOrder
  <2> QED BY <2>1, <2>2
<1>4. HandlingInv'
  <2>1. \A q \in DOMAIN compared'[w] : compared'[w][q].last = lastPrice[q]
    BY <1>2 DEF HandlingInv
  <2>2. DOMAIN compared'[w] \subseteq DOMAIN batch[w]
    BY <1>2 DEF HandlingInv
  <2> QED BY <1>1, <2>1, <2>2 DEF HandlingInv
<1>5. IdleInv'
  BY <1>1 DEF IdleInv
<1> QED BY <1>3, <1>4, <1>5

(* What a single worker finds when it saves. *)
LEMMA LSaveItems ==
    ASSUME LInv, NEW w \in Worker, Save(w)
    PROVE  \A r \in DOMAIN batch[w] :
              /\ r \in Route
              /\ batch[w][r].ver \in 1..MaxWrites /\ seenVer[r] \in 0..MaxWrites
              /\ batch[w][r].price \in Price
              /\ Pub(r, batch[w][r].ver, batch[w][r].price) \in published
              /\ seenVer[r] <= batch[w][r].ver
              /\ compared[w][r].last = lastPrice[r]
              /\ seenVer[r] = batch[w][r].ver => lastPrice[r] = batch[w][r].price
<1>1. \A r \in DOMAIN batch[w] :
         /\ r \in Route
         /\ batch[w][r].ver \in 1..MaxWrites
         /\ batch[w][r].price \in Price
  BY SaveItems DEF LInv, IInv, Save
<1>2. \A r \in DOMAIN batch[w] :
         /\ seenVer[r] \in 0..MaxWrites
         /\ Pub(r, batch[w][r].ver, batch[w][r].price) \in published
         /\ seenVer[r] <= batch[w][r].ver
         /\ compared[w][r].last = lastPrice[r]
  BY <1>1 DEF LInv, IInv, TypeOK, Save, SentInv, HandlingInv
<1>3. ASSUME NEW r \in DOMAIN batch[w], seenVer[r] = batch[w][r].ver
      PROVE  lastPrice[r] = batch[w][r].price
  <2>1. Pub(r, seenVer[r], lastPrice[r]) \in published
    BY <1>1, <1>3 DEF LInv, SeenInv
  <2>2. Pub(r, seenVer[r], batch[w][r].price) \in published
    BY <1>2, <1>3
  <2>3. Pub(r, seenVer[r], lastPrice[r]) = Pub(r, seenVer[r], batch[w][r].price)
    BY <2>1, <2>2 DEF LInv, PublishedInv, Pub
  <2> QED BY <2>3 DEF Pub
<1> QED BY <1>1, <1>2, <1>3

(* What saving does to the watch state, stated without the session: the batch's versions
   become the ones seen, and an alert is a fresh version cheaper than the last. *)
LEMMA LSaveEffect ==
    ASSUME LInv, NEW w \in Worker, Save(w)
    PROVE  \A r \in Route :
              IF r \in DOMAIN batch[w]
              THEN /\ seenVer'[r] = batch[w][r].ver
                   /\ lastPrice'[r] = batch[w][r].price
                   /\ alerted'[r] =
                        IF seenVer[r] < batch[w][r].ver /\ IsDrop(batch[w][r].price, lastPrice[r])
                        THEN Append(alerted[r], [ver |-> batch[w][r].ver, at |-> compared[w][r].at,
                                                 old |-> lastPrice[r], new |-> batch[w][r].price])
                        ELSE alerted[r]
              ELSE /\ seenVer'[r] = seenVer[r]
                   /\ lastPrice'[r] = lastPrice[r]
                   /\ alerted'[r] = alerted[r]
<1> SUFFICES ASSUME NEW r \in Route
             PROVE  IF r \in DOMAIN batch[w]
                    THEN /\ seenVer'[r] = batch[w][r].ver
                         /\ lastPrice'[r] = batch[w][r].price
                         /\ alerted'[r] =
                              IF seenVer[r] < batch[w][r].ver /\ IsDrop(batch[w][r].price, lastPrice[r])
                              THEN Append(alerted[r], [ver |-> batch[w][r].ver, at |-> compared[w][r].at,
                                                       old |-> lastPrice[r], new |-> batch[w][r].price])
                              ELSE alerted[r]
                    ELSE /\ seenVer'[r] = seenVer[r]
                         /\ lastPrice'[r] = lastPrice[r]
                         /\ alerted'[r] = alerted[r]
  OBVIOUS
<1>1. DOMAIN compared[w] = DOMAIN batch[w]
  BY DEF Save
<1>2. CASE r \in DOMAIN batch[w]
  <2>1. /\ batch[w][r].ver \in 1..MaxWrites /\ seenVer[r] \in 0..MaxWrites
        /\ batch[w][r].price \in Price
        /\ seenVer[r] <= batch[w][r].ver
        /\ compared[w][r].last = lastPrice[r]
        /\ seenVer[r] = batch[w][r].ver => lastPrice[r] = batch[w][r].price
    BY <1>2, LSaveItems
  <2>2. seenVer'[r] = batch[w][r].ver
    BY <1>2, <2>1, PriceWatchAssumption DEF Save
  <2>3. lastPrice'[r] = batch[w][r].price
    BY <1>1, <1>2, <2>1 DEF Save, Changed
  <2>4. IsDrop(batch[w][r].price, lastPrice[r]) => seenVer[r] < batch[w][r].ver
    <3>1. batch[w][r].price \in Nat
      BY <2>1, PriceWatchAssumption
    <3>2. seenVer[r] = batch[w][r].ver => ~ IsDrop(batch[w][r].price, lastPrice[r])
      BY <2>1, <3>1 DEF IsDrop
    <3> QED BY <2>1, <3>2, PriceWatchAssumption
  <2>5. r \in Dropped(w) <=> IsDrop(batch[w][r].price, lastPrice[r])
    BY <1>1, <1>2, <2>1 DEF Dropped
  <2>6. alerted'[r] = IF IsDrop(batch[w][r].price, lastPrice[r])
                      THEN Append(alerted[r], [ver |-> batch[w][r].ver, at |-> compared[w][r].at,
                                               old |-> lastPrice[r], new |-> batch[w][r].price])
                      ELSE alerted[r]
    BY <2>1, <2>5 DEF Save
  <2> QED BY <1>2, <2>2, <2>3, <2>4, <2>6
<1>3. CASE r \notin DOMAIN batch[w]
  <2>1. r \notin Changed(w) /\ r \notin Dropped(w)
    BY <1>1, <1>3 DEF Changed, Dropped
  <2> QED BY <1>3, <2>1 DEF Save
<1> QED BY <1>2, <1>3

(* Ledgered, route by route. *)
AlertsOf(r) ==
    /\ \A i \in DOMAIN alerted[r] :
          /\ alerted[r][i].ver <= seenVer[r]
          /\ alerted[r][i].new < alerted[r][i].old
          /\ [route |-> r, ver |-> alerted[r][i].ver, price |-> alerted[r][i].new] \in published
          /\ \E v \in published :
                v.route = r /\ v.ver < alerted[r][i].ver /\ v.price = alerted[r][i].old
    /\ \A i, j \in DOMAIN alerted[r] : i < j => alerted[r][i].ver < alerted[r][j].ver

LEMMA LedgeredByRoute == Ledgered <=> \A r \in Route : AlertsOf(r)
BY DEF Ledgered, AlertedSeen, AlertIsARealDrop, AlertedInOrder, AlertsOf

(* Appending a real drop, of a version newer than all alerted so far, keeps the alerts
   real drops in the order of their versions. *)
LEMMA LSaveLedgered ==
    ASSUME LInv, NEW w \in Worker, Save(w)
    PROVE  Ledgered'
<1> SUFFICES ASSUME NEW r \in Route PROVE AlertsOf(r)'
  <2>1. \A r \in Route : AlertsOf(r)'
    OBVIOUS
  <2>2. (Ledgered <=> \A r \in Route : AlertsOf(r))'
    BY LedgeredByRoute, PTL
  <2> QED BY <2>1, <2>2
<1>0. published' = published
  BY DEF Save, docVars
<1>1. AlertsOf(r)
  BY LedgeredByRoute DEF LInv, Ledgered
<1>2. /\ alerted[r] \in Seq(Alert)
      /\ \A i \in DOMAIN alerted[r] : alerted[r][i] \in Alert
      /\ \A i \in DOMAIN alerted[r] : alerted[r][i].ver \in Nat
      /\ seenVer[r] \in Nat /\ seenVer'[r] \in Nat
  <2>1. alerted[r] \in Seq(Alert) /\ seenVer[r] \in Nat
    BY DEF LInv, IInv, TypeOK
  <2>2. TypeOK'
    BY SaveType DEF LInv, IInv
  <2>3. seenVer'[r] \in Nat
    BY <2>2 DEF TypeOK
  <2>4. \A i \in DOMAIN alerted[r] : alerted[r][i] \in Alert
    BY <2>1
  <2>5. \A i \in DOMAIN alerted[r] : alerted[r][i].ver \in Nat
    BY <2>4 DEF Alert
  <2> QED BY <2>1, <2>3, <2>4, <2>5
<1>3. CASE /\ r \in DOMAIN batch[w] /\ seenVer[r] < batch[w][r].ver
           /\ IsDrop(batch[w][r].price, lastPrice[r])
  <2> DEFINE new == [ver |-> batch[w][r].ver, at |-> compared[w][r].at, old |-> lastPrice[r],
                     new |-> batch[w][r].price]
             n == Len(alerted[r])
  <2>1. alerted'[r] = Append(alerted[r], new) /\ seenVer'[r] = batch[w][r].ver
    BY <1>3, LSaveEffect
  <2>2. /\ DOMAIN alerted[r] = 1..n /\ DOMAIN alerted'[r] = 1..(n + 1) /\ n \in Nat
        /\ \A i \in 1..n : alerted'[r][i] = alerted[r][i]
        /\ alerted'[r][n + 1] = new
    BY <1>2, <2>1
  <2>3. \A i \in 1..n : alerted[r][i].ver < new.ver
    <3>1. new.ver \in Nat /\ seenVer[r] < new.ver
      BY <1>2, <1>3, <2>1
    <3>2. \A i \in 1..n : alerted[r][i].ver \in Nat /\ alerted[r][i].ver <= seenVer[r]
      BY <1>1, <1>2, <2>2 DEF AlertsOf
    <3> QED BY <1>2, <3>1, <3>2
  <2>4. new.new < new.old /\ [route |-> r, ver |-> new.ver, price |-> new.new] \in published
    BY <1>3, LSaveItems DEF IsDrop, Pub
  <2>5. \E v \in published : v.route = r /\ v.ver < new.ver /\ v.price = new.old
    <3>1. lastPrice[r] # NoPrice
      BY <1>3 DEF IsDrop
    <3>2. Pub(r, seenVer[r], lastPrice[r]) \in published
      BY <3>1 DEF LInv, SeenInv
    <3> QED BY <1>3, <3>2 DEF Pub
  <2>6. ASSUME NEW i \in 1..(n + 1)
        PROVE  /\ alerted'[r][i].ver <= seenVer'[r]
               /\ alerted'[r][i].new < alerted'[r][i].old
               /\ [route |-> r, ver |-> alerted'[r][i].ver, price |-> alerted'[r][i].new] \in published
               /\ \E v \in published : /\ v.route = r /\ v.ver < alerted'[r][i].ver
                                       /\ v.price = alerted'[r][i].old
    <3>1. CASE i = n + 1
      <4>1. alerted'[r][i] = new
        BY <2>2, <3>1
      <4>2. new.ver <= seenVer'[r]
        BY <1>2, <2>1
      <4> QED BY <4>1, <4>2, <2>4, <2>5
    <3>2. CASE i \in 1..n
      <4>1. alerted'[r][i] = alerted[r][i]
        BY <2>2, <3>2
      <4>2. alerted[r][i].ver <= seenVer'[r]
        <5>1. alerted[r][i].ver \in Nat
          BY <1>2, <2>2, <3>2
        <5>2. alerted[r][i].ver < seenVer'[r]
          BY <2>1, <2>3, <3>2
        <5> QED BY <1>2, <5>1, <5>2
      <4> QED BY <1>1, <2>2, <3>2, <4>1, <4>2 DEF AlertsOf
    <3> QED BY <2>2, <3>1, <3>2
  <2>7. ASSUME NEW i \in 1..(n + 1), NEW j \in 1..(n + 1), i < j
        PROVE  alerted'[r][i].ver < alerted'[r][j].ver
    <3>1. i \in 1..n
      BY <2>2, <2>7
    <3>2. CASE j = n + 1
      BY <2>2, <2>3, <3>1, <3>2
    <3>3. CASE j \in 1..n
      BY <1>1, <2>2, <2>7, <3>1, <3>3 DEF AlertsOf
    <3> QED BY <2>2, <3>2, <3>3
  <2> QED BY <1>0, <2>2, <2>6, <2>7 DEF AlertsOf
<1>4. CASE ~ (/\ r \in DOMAIN batch[w] /\ seenVer[r] < batch[w][r].ver
              /\ IsDrop(batch[w][r].price, lastPrice[r]))
  <2>1. alerted'[r] = alerted[r]
    BY <1>4, LSaveEffect
  <2>2. seenVer[r] <= seenVer'[r]
    <3>1. CASE r \in DOMAIN batch[w]
      <4>1. seenVer'[r] = batch[w][r].ver
        BY <3>1, LSaveEffect
      <4>2. seenVer[r] <= batch[w][r].ver
        BY <3>1, LSaveItems
      <4> QED BY <4>1, <4>2
    <3>2. CASE r \notin DOMAIN batch[w]
      <4>1. seenVer'[r] = seenVer[r]
        BY <3>2, LSaveEffect
      <4> QED BY <1>2, <4>1
    <3> QED BY <3>1, <3>2
  <2>3. \A i \in DOMAIN alerted[r] : alerted[r][i].ver <= seenVer'[r]
    <3>1. \A i \in DOMAIN alerted[r] : alerted[r][i].ver \in Nat /\ alerted[r][i].ver <= seenVer[r]
      BY <1>1, <1>2 DEF AlertsOf
    <3> QED BY <1>2, <2>2, <3>1
  <2> QED BY <1>0, <1>1, <2>1, <2>3 DEF AlertsOf
<1> QED BY <1>3, <1>4

LEMMA LSave ==
    ASSUME LInv, SingleWorker, NEW w \in Worker, Save(w)
    PROVE  (PublishedInv /\ SeenInv /\ SentInv /\ HandlingInv /\ IdleInv /\ Ledgered)'
<1> USE DEF docVars, subVars, sessionVars, Goto
<1>1. PublishedInv'
  BY DEF LInv, PublishedInv, Save
<1>2. SeenInv'
  <2> SUFFICES ASSUME NEW r \in Route
               PROVE  /\ seenVer'[r] <= etag
                      /\ hot[r] => seenVer'[r] <= ver[r]
                      /\ IF seenVer'[r] = 0 THEN lastPrice'[r] = NoPrice
                         ELSE Pub(r, seenVer'[r], lastPrice'[r]) \in published
    BY DEF SeenInv, Save
  <2>1. CASE r \in DOMAIN batch[w]
    <3>1. seenVer'[r] = batch[w][r].ver /\ lastPrice'[r] = batch[w][r].price
      BY <2>1, LSaveEffect
    <3>2. /\ Pub(r, batch[w][r].ver, batch[w][r].price) \in published
          /\ batch[w][r].ver \in 1..MaxWrites
      BY <2>1, LSaveItems
    <3>3. batch[w][r].ver <= etag
      BY <3>2 DEF LInv, PublishedInv, Pub
    <3>4. hot[r] => batch[w][r].ver <= ver[r]
      BY <2>1 DEF LInv, SentInv, Save
    <3> QED BY <3>1, <3>2, <3>3, <3>4
  <2>2. CASE r \notin DOMAIN batch[w]
    BY <2>2, LSaveEffect DEF LInv, SeenInv
  <2> QED BY <2>1, <2>2
<1>3. SentInv'
  <2>1. \A v \in Worker : pc'[v] \in {"handling", "saved"} => pc[v] \in {"handling", "saved"}
    BY DEF LInv, IInv, TypeOK, Save
  <2> QED BY <2>1 DEF LInv, SentInv, Save
<1>4. \A v \in Worker : pc'[v] = "saved"
  BY DEF LInv, IInv, TypeOK, Save, SingleWorker
<1>5. HandlingInv' /\ IdleInv'
  BY <1>4 DEF HandlingInv, IdleInv
<1>6. Ledgered'
  BY LSaveLedgered
<1> QED BY <1>1, <1>2, <1>3, <1>5, <1>6

LEMMA LNextInv == ASSUME LInv, SingleWorker, [Next]_vars PROVE LInv'
<1> DEFINE Extra == PublishedInv /\ SeenInv /\ SentInv /\ HandlingInv /\ IdleInv /\ Ledgered
<1>1. IInv'
  BY NextInv DEF LInv
<1>2. Extra'
  <2>1. ASSUME NEW r \in Route, NEW p \in Price, NEW h \in BOOLEAN, Publish(r, p, h) PROVE Extra'
    BY <2>1, LPublish
  <2>2. ASSUME NEW r \in Route, Purge(r) PROVE Extra'
    BY <2>2, LPurge
  <2>10. CASE ExpireAlert
    <3>1. UNCHANGED <<docVars, pc, sessionVars, lastPrice, seenVer, alerted>>
      BY <2>10 DEF ExpireAlert
    <3>2. PublishedInv' /\ SeenInv' /\ Ledgered'
      BY <3>1 DEF LInv, docVars, PublishedInv, SeenInv, Ledgered, AlertedSeen, AlertIsARealDrop,
                  AlertedInOrder
    <3>3. SentInv' /\ HandlingInv' /\ IdleInv'
      BY <3>1 DEF LInv, docVars, sessionVars, SentInv, HandlingInv, IdleInv
    <3> QED BY <3>2, <3>3
  <2>3. CASE Tick \/ UNCHANGED vars
    BY <2>3, LPassive DEF LInv, IdleInv, Tick, vars, docVars, outVars, sessionVars
  <2>4. ASSUME NEW w \in Worker, Start(w) \/ Open(w) PROVE Extra'
    <3>1. \E l \in {"down", "waiting", "idle"} :
             /\ pc[w] \notin {"handling", "saved"} /\ Goto(w, l)
             /\ UNCHANGED <<docVars, sessionVars, outVars>>
      BY <2>4 DEF Start, Open
    <3> QED BY <3>1, LMove
  <2>5. ASSUME NEW w \in Worker, Deliver(w) PROVE Extra'
    BY <2>5, LDeliver
  <2>6. ASSUME NEW w \in Worker, NEW r \in Route, LoadState(w, r) PROVE Extra'
    BY <2>6, LLoadState
  <2>7. ASSUME NEW w \in Worker, Save(w) PROVE Extra'
    BY <2>7, LSave
  <2>8. ASSUME NEW w \in Worker, ExceedRequests(w) \/ Ack(w) \/ Reconnect(w) \/ Crash(w)
        PROVE  Extra'
    <3>1. \E l \in {"down", "waiting", "idle"} :
             Goto(w, l) /\ ClearSession(w) /\ UNCHANGED <<docVars, outVars>>
      BY <2>8 DEF ExceedRequests, Ack, Reconnect, Crash
    <3> QED BY <3>1, LForget
  <2>9. ASSUME NEW w \in Worker, LoseConnection(w) PROVE Extra'
    <3>1. CASE pc[w] = "idle"
      BY <2>9, <3>1, LMove DEF LoseConnection
    <3>2. CASE pc[w] # "idle"
      BY <2>9, <3>2, LPassive DEF LoseConnection, LInv, IdleInv, sessionVars
    <3> QED BY <3>1, <3>2
  <2> QED BY <2>1, <2>2, <2>3, <2>4, <2>5, <2>6, <2>7, <2>8, <2>9, <2>10 DEF Next, WorkerStep
<1> QED BY <1>1, <1>2 DEF LInv, Ledgered
-----------------------------------------------------------------------------
(* Each step of the watcher is a step of the ledger or leaves it alone. *)
LEMMA SaveIsObserve ==
    ASSUME LInv, NEW w \in Worker, Save(w)
    PROVE  Ledger!Observe
<1> DEFINE R == {r \in DOMAIN batch[w] : seenVer[r] < batch[w][r].ver}
           obs == [r \in R |-> Pub(r, batch[w][r].ver, batch[w][r].price)]
           at == [r \in R |-> compared[w][r].at]
<1>1. R \in SUBSET Route /\ obs \in [R -> published] /\ at \in [R -> 0..MaxClock]
  <2>1. \A r \in DOMAIN batch[w] : r \in Route /\ compared[w][r].at \in 0..MaxClock
    BY SaveItems DEF LInv, IInv, Save
  <2> QED BY <2>1, LSaveItems
<1>2. \A r \in R : /\ obs[r].route = r /\ obs[r].ver = batch[w][r].ver
                   /\ obs[r].price = batch[w][r].price /\ obs[r].ver > seenVer[r]
  <2>1. \A r \in R : seenVer[r] \in Nat /\ batch[w][r].ver \in Nat
    BY LSaveItems
  <2> QED BY <2>1 DEF Pub
<1>3. \A r \in Route :
         /\ seenVer'[r] = IF r \in R THEN obs[r].ver ELSE seenVer[r]
         /\ lastPrice'[r] = IF r \in R THEN obs[r].price ELSE lastPrice[r]
         /\ alerted'[r] = IF r \in R /\ Ledger!IsDrop(obs[r].price, lastPrice[r])
                          THEN Append(alerted[r], [ver |-> obs[r].ver, at |-> at[r],
                                                   old |-> lastPrice[r], new |-> obs[r].price])
                          ELSE alerted[r]
  <2> SUFFICES ASSUME NEW r \in Route
               PROVE  /\ seenVer'[r] = IF r \in R THEN obs[r].ver ELSE seenVer[r]
                      /\ lastPrice'[r] = IF r \in R THEN obs[r].price ELSE lastPrice[r]
                      /\ alerted'[r] = IF r \in R /\ Ledger!IsDrop(obs[r].price, lastPrice[r])
                          THEN Append(alerted[r], [ver |-> obs[r].ver, at |-> at[r],
                                                   old |-> lastPrice[r], new |-> obs[r].price])
                          ELSE alerted[r]
    OBVIOUS
  <2>1. CASE r \in R
    <3>1. /\ seenVer'[r] = batch[w][r].ver /\ lastPrice'[r] = batch[w][r].price
          /\ alerted'[r] = IF IsDrop(batch[w][r].price, lastPrice[r])
                           THEN Append(alerted[r], [ver |-> batch[w][r].ver, at |-> compared[w][r].at,
                                                    old |-> lastPrice[r], new |-> batch[w][r].price])
                           ELSE alerted[r]
      BY <2>1, LSaveEffect
    <3>2. Ledger!IsDrop(batch[w][r].price, lastPrice[r]) = IsDrop(batch[w][r].price, lastPrice[r])
      BY DEF Ledger!IsDrop, IsDrop
    <3>3. /\ obs[r].ver = batch[w][r].ver /\ obs[r].price = batch[w][r].price
          /\ at[r] = compared[w][r].at
      BY <1>2, <2>1
    <3> HIDE DEF obs, at, R
    <3> QED BY <2>1, <3>1, <3>2, <3>3
  <2>2. CASE r \in DOMAIN batch[w] \ R
    <3>1. seenVer[r] = batch[w][r].ver /\ lastPrice[r] = batch[w][r].price
      BY <2>2, LSaveItems
    <3> QED BY <2>2, <3>1, LSaveEffect
  <2>3. CASE r \notin DOMAIN batch[w]
    BY <2>3, LSaveEffect
  <2> QED BY <2>1, <2>2, <2>3
<1>4. /\ seenVer' = [r \in Route |-> seenVer'[r]]
      /\ lastPrice' = [r \in Route |-> lastPrice'[r]]
      /\ alerted' = [r \in Route |-> alerted'[r]]
  BY DEF Save
<1>5. UNCHANGED published
  BY DEF Save, docVars
<1> HIDE DEF R, obs, at
<1>6. /\ seenVer' = [r \in Route |-> IF r \in R THEN obs[r].ver ELSE seenVer[r]]
      /\ lastPrice' = [r \in Route |-> IF r \in R THEN obs[r].price ELSE lastPrice[r]]
      /\ alerted' = [r \in Route |->
            IF r \in R /\ Ledger!IsDrop(obs[r].price, lastPrice[r])
            THEN Append(alerted[r], [ver |-> obs[r].ver, at |-> at[r],
                                     old |-> lastPrice[r], new |-> obs[r].price])
            ELSE alerted[r]]
  BY <1>3, <1>4
<1>7. PICK P, o, t : P = R /\ o = obs /\ t = at
  OBVIOUS
<1>8. P \in SUBSET Route /\ o \in [P -> published] /\ t \in [P -> 0..MaxClock]
  BY <1>1, <1>7
<1>9. /\ \A r \in P : o[r].route = r /\ o[r].ver > seenVer[r]
      /\ seenVer' = [r \in Route |-> IF r \in P THEN o[r].ver ELSE seenVer[r]]
      /\ lastPrice' = [r \in Route |-> IF r \in P THEN o[r].price ELSE lastPrice[r]]
      /\ alerted' = [r \in Route |->
            IF r \in P /\ Ledger!IsDrop(o[r].price, lastPrice[r])
            THEN Append(alerted[r], [ver |-> o[r].ver, at |-> t[r],
                                     old |-> lastPrice[r], new |-> o[r].price])
            ELSE alerted[r]]
  BY <1>2, <1>6, <1>7
<1> QED BY <1>5, <1>8, <1>9, Zenon DEF Ledger!Observe

LEMMA PublishIsPublish ==
    ASSUME LInv, NEW r \in Route, NEW p \in Price, NEW h \in BOOLEAN, Publish(r, p, h)
    PROVE  Ledger!Publish \/ UNCHANGED Ledger!vars
<1>1. UNCHANGED <<seenVer, lastPrice, alerted>>
  BY DEF Publish, outVars
<1>2. CASE h
  <2> DEFINE v == [route |-> r, ver |-> etag + 1, price |-> p]
  <2>1. v \in Ledger!Version
    BY PriceWatchAssumption DEF Ledger!Version, Publish, LInv, IInv, TypeOK
  <2>2. \A u \in published : u.ver < v.ver
    <3>1. etag \in Nat /\ \A u \in published : u.ver \in Nat /\ u.ver <= etag
      BY DEF LInv, IInv, TypeOK, Version, PublishedInv
    <3> QED BY <3>1
  <2>3. published' = published \cup {v}
    BY <1>2 DEF Publish
  <2> QED BY <1>1, <2>1, <2>2, <2>3 DEF Ledger!Publish
<1>3. CASE ~h
  BY <1>1, <1>3 DEF Publish, Ledger!vars
<1> QED BY <1>2, <1>3

LEMMA StepRefines == ASSUME LInv, [Next]_vars PROVE [Ledger!Next]_(Ledger!vars)
<1>1. ASSUME NEW r \in Route, NEW p \in Price, NEW h \in BOOLEAN, Publish(r, p, h)
      PROVE  Ledger!Publish \/ UNCHANGED Ledger!vars
  BY <1>1, PublishIsPublish
<1>2. ASSUME NEW w \in Worker, Save(w) PROVE Ledger!Observe
  BY <1>2, SaveIsObserve
<1>3. ASSUME \/ \E r \in Route : Purge(r)
             \/ ExpireAlert
             \/ Tick
             \/ \E w \in Worker : \/ Start(w) \/ Open(w) \/ Deliver(w)
                                  \/ \E r \in Route : LoadState(w, r)
                                  \/ ExceedRequests(w) \/ Ack(w) \/ Reconnect(w)
                                  \/ LoseConnection(w) \/ Crash(w)
             \/ UNCHANGED vars
      PROVE  UNCHANGED Ledger!vars
  BY <1>3 DEF Purge, ExpireAlert, Tick, Start, Open, Deliver, LoadState, ExceedRequests, Ack,
              Reconnect, LoseConnection, Crash, vars, docVars, outVars, Ledger!vars
<1> QED BY <1>1, <1>2, <1>3 DEF Next, WorkerStep, Ledger!Next

(* With one worker, the watcher implements the ledger: each version of a candidate is
   observed at most once and in order, and an alert is raised exactly when the observed
   price falls, whatever is redelivered after crashes and lost connections. *)
THEOREM Refinement == ASSUME SingleWorker PROVE Spec => LedgerSpec
<1>1. Init => LInv /\ Ledger!Init
  <2>1. Init => Ledger!Init
    BY DEF Init, Ledger!Init
  <2> QED BY <2>1, LInitInv
<1>2. LInv /\ [Next]_vars => LInv' /\ [Ledger!Next]_(Ledger!vars)
  BY LNextInv, StepRefines
<1> QED BY <1>1, <1>2, PTL DEF Spec, LedgerSpec, Ledger!Spec

LEMMA LInvariance == ASSUME SingleWorker PROVE Spec => []LInv
<1>1. Init => LInv
  BY LInitInv
<1>2. LInv /\ [Next]_vars => LInv'
  BY LNextInv
<1> QED BY <1>1, <1>2, PTL DEF Spec

(* With one worker, every alert names two published versions of its route, the newer one
   the cheaper: no replay or redelivery is ever taken for a drop. *)
THEOREM AlertsAreRealDrops == ASSUME SingleWorker PROVE Spec => []AlertIsARealDrop
<1>1. LInv => AlertIsARealDrop
  BY DEF LInv
<1> QED BY <1>1, LInvariance, PTL

(* With one worker, a route's alerts follow the order of its versions and none repeats. *)
THEOREM AlertsInOrder == ASSUME SingleWorker PROVE Spec => []AlertedInOrder
<1>1. LInv => AlertedInOrder
  BY DEF LInv
<1> QED BY <1>1, LInvariance, PTL
=============================================================================
