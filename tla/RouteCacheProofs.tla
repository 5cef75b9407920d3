-------------------------- MODULE RouteCacheProofs --------------------------
(***************************************************************************)
(* Proofs about RouteCache, for any fares, prices, writers and requests:   *)
(* whom a search makes an offer and on which fare it compares; that the    *)
(* hidden-city fields of a document fit its hubs, and those of a finished  *)
(* seed or scrape each other.                                              *)
(*                                                                         *)
(* Three invariants, each of which uses those before it: IInv follows the  *)
(* prices and the ages of the documents and the control of a request,      *)
(* TypeInv the types and the verdict of every document and of every copy   *)
(* that a refresh holds, BatchInv what a seed or scrape has put so far.    *)
(* Of the enricher they use VerdictIsBest (HiddenCityProofs).              *)
(***************************************************************************)
EXTENDS RouteCache, HiddenCityProofs

(* A document has a price and an age. *)
DocFields == {"price", "hubs", "via", "score", "stale", "by"}

DocOK(doc) ==
    /\ DOMAIN doc = DocFields
    /\ doc.price \in Price
    /\ doc.stale \in BOOLEAN

DocsOK == \A d \in DOMAIN docs : DocOK(docs[d])

WriterOK ==
    /\ DOMAIN id = Writer
    /\ DOMAIN next = Writer
    /\ fares \in [Writer -> Seq(Fare)]
    /\ \A w \in Writer : id[w] # 0 => next[w] \in DOMAIN fares[w]

Shape ==
    /\ DOMAIN pc = Request
    /\ DOMAIN search = Request
    /\ DOMAIN baseline = Request
    /\ DOMAIN listed = Request
    /\ DOMAIN found = Request
    /\ DOMAIN existing = Request
    /\ DOMAIN offers = Request

Wanted == [real : Dest \cup {NoDest}, plain : BOOLEAN, carryOn : BOOLEAN]
BaseFare == [known : BOOLEAN, price : Nat, stale : BOOLEAN]

(* What a request holds. *)
HeldOK(q) ==
    /\ search[q] \in Wanted
    /\ baseline[q] \in BaseFare
    /\ \A d \in DOMAIN found[q] : found[q][d] \in Price

(* The refresh of a search is about its destination, and about nothing else. *)
OneFare(q) ==
    /\ pc[q] \in {"load", "put"} /\ search[q].real # NoDest => DOMAIN found[q] = {search[q].real}
    /\ pc[q] = "put" => InHand(q) \in DOMAIN found[q]
    /\ pc[q] \in {"query", "reload", "score"} => search[q].real \in Dest
    /\ search[q].plain => search[q].real \in Dest
    /\ pc[q] = "query" => ~search[q].plain

(* No offer before the end. *)
OfferOK(q) == pc[q] # "over" => offers[q] = {}

(* A stale direct fare is scored or shown only after a failure. *)
FareOK(q) ==
    pc[q] = "score" /\ (IF search[q].plain THEN AnyStale(listed[q]) ELSE baseline[q].stale)
    => q \in failed

RequestOK(q) == HeldOK(q) /\ OneFare(q) /\ OfferOK(q) /\ FareOK(q)

(* Between the put of a search's refresh and the read after it, the document is there and
   fresh, whoever replaces it. *)
Fresh(d) == d \in DOMAIN docs /\ ~docs[d].stale
PutFresh == \A q \in Request : pc[q] = "reload" /\ q \notin failed => Fresh(search[q].real)

IInv == DocsOK /\ WriterOK /\ Shape /\ (\A q \in Request : RequestOK(q)) /\ PutFresh
-----------------------------------------------------------------------------
(* The checked-baggage multiplier leaves a fifth of a share of the price: no saving reaches
   the threshold (scorer.py:9-21, 49-66). *)
LEMMA NoBagsWorth ==
    ASSUME NEW direct \in Nat, NEW hidden \in Nat, NEW carryOn \in BOOLEAN,
           ShouldSurface(direct, hidden, carryOn)
    PROVE  carryOn
  <1> SUFFICES ASSUME ~carryOn PROVE FALSE
    OBVIOUS
  <1>1. Tenths(carryOn) = 2
    BY DEF Tenths
  <1>2. CASE hidden >= direct
    <2>1. ScoreOf(direct, hidden).num = 0 /\ ScoreOf(direct, hidden).den = 1
      BY <1>2 DEF ScoreOf, NoScore
    <2> QED
      BY <1>1, <2>1 DEF ShouldSurface
  <1>3. CASE ~(hidden >= direct)
    <2>1. ScoreOf(direct, hidden).num = direct - hidden /\ ScoreOf(direct, hidden).den = direct
      BY <1>3 DEF ScoreOf
    <2>2. 2 * 2 * (direct - hidden) >= 10 * direct
      BY <1>1, <2>1 DEF ShouldSurface
    <2> QED
      BY <1>3, <2>2
  <1> QED
    BY <1>2, <1>3
-----------------------------------------------------------------------------
(* A put of a fresh document leaves every fresh one fresh. *)
LEMMA PutKeeps ==
    ASSUME DocsOK, NEW d, NEW doc, Put(d, doc), DocOK(doc), ~doc.stale
    PROVE  /\ DocsOK'
           /\ Fresh(d)'
           /\ \A x : Fresh(x) => Fresh(x)'
  <1>1. DOMAIN docs' = DOMAIN docs \cup {d}
    BY DEF Put
  <1>2. \A x \in DOMAIN docs' : docs'[x] = IF x = d THEN doc ELSE docs[x]
    BY DEF Put
  <1>3. DocsOK'
    BY <1>1, <1>2 DEF DocsOK, DocOK
  <1>4. Fresh(d)'
    BY <1>1, <1>2 DEF Fresh
  <1>5. \A x : Fresh(x) => Fresh(x)'
    BY <1>1, <1>2 DEF Fresh
  <1> QED
    BY <1>3, <1>4, <1>5

(* A request that a step does not touch. *)
LEMMA Untouched ==
    ASSUME NEW q, RequestOK(q),
           pc'[q] = pc[q], search'[q] = search[q], baseline'[q] = baseline[q],
           listed'[q] = listed[q], found'[q] = found[q], existing'[q] = existing[q],
           offers'[q] = offers[q], q \in failed => q \in failed'
    PROVE  RequestOK(q)'
  <1>1. HeldOK(q)'
    BY DEF RequestOK, HeldOK
  <1>2. OneFare(q)'
    BY DEF RequestOK, OneFare, InHand
  <1>3. OfferOK(q)' /\ FareOK(q)'
    BY DEF RequestOK, OfferOK, FareOK
  <1> QED
    BY <1>1, <1>2, <1>3 DEF RequestOK

(* The steps of the database and of the writers touch no request. *)
LEMMA NoRequest ==
    ASSUME IInv, UNCHANGED requestVars
    PROVE  Shape' /\ \A q \in Request : RequestOK(q)'
  <1>1. /\ pc' = pc /\ search' = search /\ baseline' = baseline /\ listed' = listed
        /\ found' = found /\ existing' = existing /\ offers' = offers /\ failed' = failed
    BY DEF requestVars
  <1>2. Shape'
    BY <1>1 DEF IInv, Shape
  <1>3. ASSUME NEW q \in Request PROVE RequestOK(q)'
    BY <1>1, <1>3, Untouched DEF IInv
  <1> QED
    BY <1>2, <1>3

(* A put by somebody keeps what the searches have just put. *)
LEMMA PutByWriter ==
    ASSUME IInv, UNCHANGED requestVars, \A x : Fresh(x) => Fresh(x)'
    PROVE  PutFresh'
  BY DEF IInv, PutFresh, requestVars
-----------------------------------------------------------------------------
LEMMA InitIInv ==
    ASSUME RouteCacheAssumption, Init PROVE IInv
  <1>1. DocsOK
    BY DEF Init, DocsOK, NoFare
  <1>2. WriterOK
    BY DEF Init, WriterOK
  <1>3. Shape /\ PutFresh
    BY DEF Init, Shape, PutFresh
  <1>4. ASSUME NEW q \in Request PROVE RequestOK(q)
    <2>1. HeldOK(q)
      BY DEF Init, HeldOK, NoSearch, NoBaseline, NoFare, Wanted, BaseFare
    <2>2. OneFare(q) /\ OfferOK(q) /\ FareOK(q)
      BY DEF Init, OneFare, OfferOK, FareOK, NoSearch
    <2> QED
      BY <2>1, <2>2 DEF RequestOK
  <1> QED
    BY <1>1, <1>2, <1>3, <1>4 DEF IInv
-----------------------------------------------------------------------------
(* The database. *)

LEMMA PurgeKeeps ==
    ASSUME IInv, NEW d \in Dest, Purge(d) PROVE IInv'
  <1>1. UNCHANGED requestVars /\ UNCHANGED writerVars
    BY DEF Purge
  <1>2. DOMAIN docs' = DOMAIN docs \ {d} /\ \A x \in DOMAIN docs' : docs'[x] = docs[x]
    BY DEF Purge
  <1>3. DocsOK' /\ WriterOK'
    BY <1>1, <1>2 DEF IInv, DocsOK, WriterOK, writerVars
  <1>4. PutFresh'
    BY <1>1, <1>2 DEF IInv, PutFresh, Fresh, Purge, JustPut, requestVars
  <1> QED
    BY <1>1, <1>3, <1>4, NoRequest DEF IInv

LEMMA AgeKeeps ==
    ASSUME IInv, NEW d \in Dest, Age(d) PROVE IInv'
  <1>1. UNCHANGED requestVars /\ UNCHANGED writerVars
    BY DEF Age
  <1>2. /\ DOMAIN docs' = DOMAIN docs
        /\ \A x \in DOMAIN docs : x # d => docs'[x] = docs[x]
        /\ d \in DOMAIN docs /\ docs'[d] = [docs[d] EXCEPT !.stale = TRUE]
    BY DEF Age
  <1>3. DocOK(docs[d])
    BY <1>2 DEF IInv, DocsOK
  <1>4. DocOK(docs'[d])
    BY <1>2, <1>3 DEF DocOK, DocFields
  <1>5. DocsOK' /\ WriterOK'
    BY <1>1, <1>2, <1>4 DEF IInv, DocsOK, DocOK, WriterOK, writerVars
  <1>6. PutFresh'
    BY <1>1, <1>2 DEF IInv, PutFresh, Fresh, Age, JustPut, requestVars
  <1> QED
    BY <1>1, <1>5, <1>6, NoRequest DEF IInv
-----------------------------------------------------------------------------
(* The seed and the scrapers. *)

LEMMA BatchKeeps ==
    ASSUME RouteCacheAssumption, IInv, NEW w \in Writer, NEW batch \in Seq(Fare) \ {<<>>},
           BeginBatch(w, batch)
    PROVE  IInv'
  <1>1. UNCHANGED requestVars /\ docs' = docs
    BY DEF BeginBatch
  <1>2. WriterOK'
    <2>1. fares' \in [Writer -> Seq(Fare)]
      BY DEF BeginBatch, IInv, WriterOK
    <2>2. fares'[w] = batch /\ next'[w] = 1
      BY DEF BeginBatch, IInv, WriterOK
    <2>3. 1 \in DOMAIN batch
      OBVIOUS
    <2>4. \A v \in Writer \ {w} : fares'[v] = fares[v] /\ next'[v] = next[v] /\ id'[v] = id[v]
      BY DEF BeginBatch, IInv, WriterOK
    <2>5. DOMAIN id' = Writer /\ DOMAIN next' = Writer
      BY DEF BeginBatch, IInv, WriterOK
    <2> QED
      BY <2>1, <2>2, <2>3, <2>4, <2>5 DEF IInv, WriterOK
  <1>3. DocsOK' /\ PutFresh'
    BY <1>1 DEF IInv, DocsOK, PutFresh, Fresh, requestVars
  <1> QED
    BY <1>1, <1>2, <1>3, NoRequest DEF IInv

LEMMA ScrapeKeeps ==
    ASSUME RouteCacheAssumption, IInv, NEW w \in Writer, Scrape(w) PROVE IInv'
  <1>1. PICK tickets \in Scraped :
           BeginBatch(w, [i \in DOMAIN tickets |-> ResolveHubs(tickets[i])])
    BY DEF Scrape
  <1>2. tickets \in Seq(Ticket) /\ tickets # <<>>
    BY DEF RouteCacheAssumption
  <1>3. ASSUME NEW t \in Ticket PROVE ResolveHubs(t) \in Fare
    <2>1. t.dest \in Dest /\ t.price \in Price /\ GuessedHub[t.dest] \in Dest \cup {NoDest}
      BY DEF Ticket, RouteCacheAssumption
    <2>2. GuessedHub[t.dest] # NoDest => <<GuessedHub[t.dest]>> \in Seq(Dest)
      BY <2>1
    <2>3. <<>> \in Seq(Dest)
      OBVIOUS
    <2> QED
      BY <2>1, <2>2, <2>3 DEF ResolveHubs, Fare
  <1> DEFINE batch == [i \in DOMAIN tickets |-> ResolveHubs(tickets[i])]
  <1>4. Len(tickets) \in Nat /\ DOMAIN tickets = 1..Len(tickets) /\ Len(tickets) # 0
    BY <1>2
  <1>5. \A i \in DOMAIN tickets : ResolveHubs(tickets[i]) \in Fare
    BY <1>2, <1>3
  <1>6. batch \in [1..Len(tickets) -> Fare]
    BY <1>4, <1>5
  <1>7. batch \in Seq(Fare) /\ Len(batch) = Len(tickets)
    BY <1>4, <1>6
  <1>8. batch # <<>>
    BY <1>4, <1>7
  <1> QED
    BY <1>1, <1>7, <1>8, BatchKeeps

LEMMA PutNextKeeps ==
    ASSUME IInv, NEW w \in Writer, PutNext(w) PROVE IInv'
  <1> DEFINE fare == fares[w][next[w]]
             doc == [price |-> fare.price, hubs |-> fare.hubs,
                     via |-> Verdict(fares[w], fare).via,
                     score |-> Verdict(fares[w], fare).score, stale |-> FALSE, by |-> id[w]]
  <1>1. UNCHANGED requestVars /\ Put(fare.dest, doc)
    BY DEF PutNext
  <1>2. fares[w] \in Seq(Fare) /\ next[w] \in DOMAIN fares[w]
    BY DEF IInv, WriterOK, PutNext
  <1>3. fare \in Fare
    BY <1>2
  <1>4. DocOK(doc) /\ ~doc.stale
    BY <1>3 DEF DocOK, DocFields, Fare
  <1>5. DocsOK' /\ \A x : Fresh(x) => Fresh(x)'
    <2> HIDE DEF doc, fare
    <2> QED
      BY <1>1, <1>4, PutKeeps DEF IInv
  <1>6. WriterOK'
    <2>1. Len(fares[w]) \in Nat /\ DOMAIN fares[w] = 1..Len(fares[w])
      BY <1>2
    <2>2. CASE next[w] = Len(fares[w])
      <3>1. /\ id' = [id EXCEPT ![w] = 0]
            /\ fares' = [fares EXCEPT ![w] = <<>>]
            /\ next' = [next EXCEPT ![w] = 1]
        BY <2>2 DEF PutNext
      <3>2. <<>> \in Seq(Fare)
        OBVIOUS
      <3> QED
        BY <3>1, <3>2 DEF IInv, WriterOK
    <2>3. CASE next[w] # Len(fares[w])
      <3>1. next[w] + 1 \in DOMAIN fares[w]
        BY <1>2, <2>1, <2>3
      <3> QED
        BY <2>3, <3>1 DEF PutNext, IInv, WriterOK
    <2> QED
      BY <2>2, <2>3
  <1> QED
    BY <1>1, <1>5, <1>6, NoRequest, PutByWriter DEF IInv

LEMMA AbandonKeeps ==
    ASSUME IInv, NEW w \in Writer, Abandon(w) PROVE IInv'
  <1>1. UNCHANGED requestVars /\ docs' = docs
    BY DEF Abandon
  <1>2. WriterOK'
    BY DEF Abandon, IInv, WriterOK
  <1>3. DocsOK' /\ PutFresh'
    BY <1>1 DEF IInv, DocsOK, PutFresh, Fresh, requestVars
  <1> QED
    BY <1>1, <1>2, <1>3, NoRequest DEF IInv
-----------------------------------------------------------------------------
(* The requests. *)

(* A step of one request touches no other. *)
Others(q) ==
    /\ \A p \in Request \ {q} :
          /\ pc'[p] = pc[p]
          /\ search'[p] = search[p]
          /\ baseline'[p] = baseline[p]
          /\ listed'[p] = listed[p]
          /\ found'[p] = found[p]
          /\ existing'[p] = existing[p]
          /\ offers'[p] = offers[p]
    /\ failed \subseteq failed'
    /\ failed' \subseteq failed \cup {q}

LEMMA ByRequest ==
    ASSUME IInv, NEW q \in Request, Shape', Others(q), UNCHANGED writerVars, DocsOK',
           RequestOK(q)',
           \A x : Fresh(x) => Fresh(x)',
           pc'[q] = "reload" /\ q \notin failed' => Fresh(search[q].real)'
    PROVE  IInv'
  <1>1. ASSUME NEW p \in Request PROVE RequestOK(p)'
    <2>1. CASE p = q
      BY <2>1
    <2>2. CASE p # q
      <3>1. RequestOK(p)
        BY DEF IInv
      <3> QED
        BY <2>2, <3>1, Untouched DEF Others
    <2> QED
      BY <2>1, <2>2
  <1>2. PutFresh'
    <2> SUFFICES ASSUME NEW p \in Request, pc'[p] = "reload", p \notin failed'
                 PROVE  Fresh(search[p].real)'
      BY DEF PutFresh, Fresh
    <2>1. CASE p = q
      BY <2>1
    <2>2. CASE p # q
      <3>1. pc[p] = "reload" /\ p \notin failed /\ search'[p].real = search[p].real
        BY <2>2 DEF Others
      <3>2. Fresh(search[p].real)
        BY <3>1 DEF IInv, PutFresh
      <3> QED
        BY <3>1, <3>2 DEF Fresh
    <2> QED
      BY <2>1, <2>2
  <1>3. WriterOK'
    BY DEF IInv, WriterOK, writerVars
  <1> QED
    BY <1>1, <1>2, <1>3 DEF IInv

(* A step that leaves the documents and the failures alone, and does not put. *)
LEMMA ByReader ==
    ASSUME IInv, NEW q \in Request, Shape', Others(q), UNCHANGED <<docs, writerVars>>,
           RequestOK(q)', pc'[q] # "reload"
    PROVE  IInv'
  <1>1. DocsOK' /\ \A x : Fresh(x) => Fresh(x)'
    BY DEF IInv, DocsOK, Fresh
  <1> QED
    BY <1>1, ByRequest

(* What is read from the documents. *)
LEMMA BaselineTyped ==
    ASSUME RouteCacheAssumption, HiddenCityAssumption, DocsOK, NEW d
    PROVE  /\ BaselineFrom(d) \in BaseFare
           /\ Fresh(d) => BaselineFrom(d).known /\ ~BaselineFrom(d).stale
  <1>1. CASE d \in DOMAIN docs
    <2>1. docs[d].price \in Nat /\ docs[d].stale \in BOOLEAN
      BY <1>1 DEF DocsOK, DocOK, HiddenCityAssumption
    <2>2. BaselineFrom(d) = [known |-> TRUE, price |-> docs[d].price, stale |-> docs[d].stale]
      BY <1>1 DEF BaselineFrom
    <2> QED
      BY <2>1, <2>2 DEF BaseFare, Fresh
  <1>2. CASE d \notin DOMAIN docs
    BY <1>2 DEF BaselineFrom, NoBaseline, BaseFare, Fresh
  <1> QED
    BY <1>1, <1>2

(* A query by destination reads the fresh document, if it finds one. *)
LEMMA FreshRoutes ==
    ASSUME NEW d, Fresh(d) PROVE ~AnyStale(RoutesTo(d))
  BY DEF Fresh, AnyStale, RoutesTo, RouteOf

LEMMA Leaves ==
    ASSUME IInv, NEW q \in Request, pc[q] # "over", Leave(q),
           failed \subseteq failed', failed' \subseteq failed \cup {q}
    PROVE  Shape' /\ Others(q) /\ RequestOK(q)' /\ pc'[q] = "over"
  <1>1. Shape' /\ Others(q)
    BY DEF IInv, Shape, Leave, Goto, Others
  <1>2. /\ pc'[q] = "over" /\ search'[q] = NoSearch /\ baseline'[q] = NoBaseline
        /\ listed'[q] = {} /\ found'[q] = NoFare /\ offers'[q] = {}
    BY DEF IInv, Shape, Leave, Goto, RequestOK, OfferOK
  <1>3. HeldOK(q)'
    BY <1>2 DEF HeldOK, NoSearch, NoBaseline, NoFare, Wanted, BaseFare
  <1>4. OneFare(q)' /\ OfferOK(q)' /\ FareOK(q)'
    BY <1>2 DEF OneFare, OfferOK, FareOK, NoSearch
  <1> QED
    BY <1>1, <1>2, <1>3, <1>4 DEF RequestOK

LEMMA LeaveKeeps ==
    ASSUME IInv, NEW q \in Request, pc[q] # "over", Leave(q),
           UNCHANGED <<docs, writerVars, failed>>
    PROVE  IInv'
  BY Leaves, ByReader

LEMMA QueryDirectKeeps ==
    ASSUME IInv, NEW q \in Request, NEW d \in Dest, NEW carryOn \in BOOLEAN,
           QueryDirect(q, d, carryOn)
    PROVE  IInv'
  <1>1. Shape' /\ Others(q) /\ UNCHANGED <<docs, writerVars>>
    BY DEF IInv, Shape, QueryDirect, Goto, Others
  <1>2. /\ search'[q] = [real |-> d, plain |-> TRUE, carryOn |-> carryOn]
        /\ listed'[q] = RoutesTo(d)
        /\ pc'[q] \in {"score", "fetch"}
        /\ pc'[q] = "score" => ~AnyStale(RoutesTo(d))
        /\ baseline'[q] = baseline[q] /\ found'[q] = found[q] /\ offers'[q] = offers[q]
        /\ pc[q] = "new"
    BY DEF IInv, Shape, QueryDirect, Goto
  <1>3. RequestOK(q)
    BY DEF IInv
  <1>4. HeldOK(q)'
    BY <1>2, <1>3 DEF RequestOK, HeldOK, Wanted
  <1>5. OneFare(q)' /\ OfferOK(q)'
    BY <1>2, <1>3 DEF RequestOK, OneFare, OfferOK
  <1>6. FareOK(q)'
    BY <1>2 DEF FareOK, AnyStale
  <1> QED
    BY <1>1, <1>2, <1>4, <1>5, <1>6, ByReader DEF RequestOK

LEMMA LoadDirectKeeps ==
    ASSUME RouteCacheAssumption, HiddenCityAssumption, IInv, NEW q \in Request, NEW d \in Dest,
           NEW carryOn \in BOOLEAN, LoadDirect(q, d, carryOn)
    PROVE  IInv'
  <1>1. Shape' /\ Others(q) /\ UNCHANGED <<docs, writerVars>>
    BY DEF IInv, Shape, LoadDirect, Goto, Others
  <1>2. /\ search'[q] = [real |-> d, plain |-> FALSE, carryOn |-> carryOn]
        /\ baseline'[q] = BaselineFrom(d)
        /\ pc'[q] = "query"
        /\ listed'[q] = listed[q] /\ found'[q] = found[q] /\ offers'[q] = offers[q]
        /\ pc[q] = "new"
    BY DEF IInv, Shape, LoadDirect, Goto
  <1>3. RequestOK(q)
    BY DEF IInv
  <1>4. BaselineFrom(d) \in BaseFare
    BY BaselineTyped DEF IInv
  <1>5. HeldOK(q)'
    BY <1>2, <1>3, <1>4 DEF RequestOK, HeldOK, Wanted
  <1>6. OneFare(q)' /\ OfferOK(q)' /\ FareOK(q)'
    BY <1>2, <1>3 DEF RequestOK, OneFare, OfferOK, FareOK
  <1> QED
    BY <1>1, <1>2, <1>5, <1>6, ByReader DEF RequestOK

LEMMA QueryThroughKeeps ==
    ASSUME IInv, NEW q \in Request, QueryThrough(q)
    PROVE  IInv'
  <1>1. Shape' /\ Others(q) /\ UNCHANGED <<docs, writerVars>>
    BY DEF IInv, Shape, QueryThrough, Goto, Others
  <1>2. /\ search'[q] = search[q] /\ baseline'[q] = baseline[q]
        /\ pc'[q] \in {"score", "fetch"}
        /\ pc'[q] = "score" => ~baseline[q].stale
        /\ found'[q] = found[q] /\ offers'[q] = offers[q]
        /\ pc[q] = "query"
    BY DEF IInv, Shape, QueryThrough, Goto
  <1>3. RequestOK(q) /\ ~search[q].plain
    BY <1>2 DEF IInv, RequestOK, OneFare
  <1>4. HeldOK(q)'
    BY <1>2, <1>3 DEF RequestOK, HeldOK
  <1>5. OneFare(q)' /\ OfferOK(q)' /\ FareOK(q)'
    BY <1>2, <1>3 DEF RequestOK, OneFare, OfferOK, FareOK
  <1> QED
    BY <1>1, <1>2, <1>4, <1>5, ByReader DEF RequestOK

LEMMA BrowseKeeps ==
    ASSUME IInv, NEW q \in Request, Browse(q) PROVE IInv'
  <1>1. Shape' /\ Others(q) /\ UNCHANGED <<docs, writerVars>>
    BY DEF IInv, Shape, Browse, Goto, Others
  <1>2. /\ search'[q] = search[q] /\ baseline'[q] = baseline[q] /\ listed'[q] = listed[q]
        /\ found'[q] = found[q] /\ offers'[q] = offers[q]
        /\ pc[q] = "new" /\ pc'[q] = "fetch"
    BY DEF IInv, Shape, Browse, Goto
  <1>3. RequestOK(q)
    BY DEF IInv
  <1>4. HeldOK(q)' /\ OneFare(q)' /\ OfferOK(q)' /\ FareOK(q)'
    BY <1>2, <1>3 DEF RequestOK, HeldOK, OneFare, OfferOK, FareOK
  <1> QED
    BY <1>1, <1>2, <1>4, ByReader DEF RequestOK

LEMMA FetchFailsKeeps ==
    ASSUME IInv, NEW q \in Request, FetchFails(q) PROVE IInv'
  <1>1. CASE ~search[q].plain
    BY <1>1, LeaveKeeps DEF FetchFails
  <1>2. CASE search[q].plain
    <2>1. Shape' /\ Others(q) /\ UNCHANGED <<docs, writerVars>>
      BY <1>2 DEF IInv, Shape, FetchFails, Goto, Others
    <2>2. /\ search'[q] = search[q] /\ baseline'[q] = baseline[q] /\ listed'[q] = listed[q]
          /\ found'[q] = found[q] /\ offers'[q] = offers[q]
          /\ pc[q] = "fetch" /\ pc'[q] = "score" /\ q \in failed'
      BY <1>2 DEF IInv, Shape, FetchFails, Goto
    <2>3. RequestOK(q)
      BY DEF IInv
    <2>4. HeldOK(q)' /\ OfferOK(q)' /\ FareOK(q)'
      BY <2>2, <2>3 DEF RequestOK, HeldOK, OfferOK, FareOK
    <2>5. search[q].real \in Dest
      BY <1>2, <2>2, <2>3 DEF RequestOK, OneFare
    <2>6. OneFare(q)'
      BY <2>2, <2>5 DEF OneFare
    <2> QED
      BY <2>1, <2>2, <2>4, <2>6, ByReader DEF RequestOK
  <1> QED
    BY <1>1, <1>2

LEMMA FetchKeeps ==
    ASSUME IInv, NEW q \in Request, NEW answer \in Answers(q), Fetch(q, answer) PROVE IInv'
  <1>1. Shape' /\ Others(q) /\ UNCHANGED <<docs, writerVars>>
    BY DEF IInv, Shape, Fetch, Goto, Others
  <1>2. /\ search'[q] = search[q] /\ baseline'[q] = baseline[q] /\ listed'[q] = listed[q]
        /\ found'[q] = answer /\ offers'[q] = offers[q]
        /\ pc[q] = "fetch" /\ pc'[q] = "load"
    BY DEF IInv, Shape, Fetch, Goto
  <1>3. PICK D : answer \in [D -> Price] /\ (search[q].real # NoDest => D = {search[q].real})
    BY DEF Answers
  <1>4. RequestOK(q)
    BY DEF IInv
  <1>5. HeldOK(q)'
    BY <1>2, <1>3, <1>4 DEF RequestOK, HeldOK
  <1>6. OneFare(q)'
    BY <1>2, <1>3, <1>4 DEF RequestOK, OneFare
  <1>7. OfferOK(q)' /\ FareOK(q)'
    BY <1>2, <1>4 DEF RequestOK, OfferOK, FareOK
  <1> QED
    BY <1>1, <1>2, <1>5, <1>6, <1>7, ByReader DEF RequestOK

LEMMA LoadExistingKeeps ==
    ASSUME IInv, NEW q \in Request, NEW d \in Dest, NEW fails \in BOOLEAN,
           LoadExisting(q, d, fails)
    PROVE  IInv'
  <1>1. Shape' /\ Others(q) /\ UNCHANGED <<docs, writerVars>>
    BY DEF IInv, Shape, LoadExisting, Goto, Others
  <1>2. /\ search'[q] = search[q] /\ baseline'[q] = baseline[q] /\ listed'[q] = listed[q]
        /\ found'[q] = found[q] /\ offers'[q] = offers[q] /\ InHand(q)' = d
        /\ pc[q] = "load" /\ pc'[q] = "put" /\ d \in DOMAIN found[q]
    BY DEF IInv, Shape, LoadExisting, Goto, InHand
  <1>3. RequestOK(q)
    BY DEF IInv
  <1>4. HeldOK(q)' /\ OfferOK(q)' /\ FareOK(q)'
    BY <1>2, <1>3 DEF RequestOK, HeldOK, OfferOK, FareOK
  <1>5. OneFare(q)'
    BY <1>2, <1>3 DEF RequestOK, OneFare
  <1> QED
    BY <1>1, <1>2, <1>4, <1>5, ByReader DEF RequestOK

(* The put of a refresh, whether or not it is applied. *)
LEMMA PutLiveKeeps ==
    ASSUME HiddenCityAssumption, IInv, NEW q \in Request, NEW fails \in BOOLEAN,
           PutLive(q, fails)
    PROVE  IInv'
  <1> DEFINE d == InHand(q)
             rest == [x \in DOMAIN found[q] \ {d} |-> found[q][x]]
             doc == Refreshed(found[q][d], existing[q].doc)
  <1>1. RequestOK(q) /\ pc[q] = "put" /\ d \in DOMAIN found[q] /\ UNCHANGED writerVars
    BY DEF IInv, PutLive, RequestOK, OneFare
  <1>2. DocOK(doc) /\ ~doc.stale
    BY <1>1 DEF RequestOK, HeldOK, Refreshed, DocOK, DocFields
  <1>3. /\ DocsOK'
        /\ \A x : Fresh(x) => Fresh(x)'
        /\ q \notin failed' => \A x : x = d => Fresh(x)'
        /\ failed \subseteq failed' /\ failed' \subseteq failed \cup {q}
    <2>1. CASE fails
      <3>1. docs' = docs /\ failed' = failed \cup {q}
        BY <2>1 DEF PutLive
      <3> QED
        BY <3>1 DEF IInv, DocsOK, Fresh
    <2>2. CASE ~fails
      <3>1. Put(d, doc) /\ failed' = failed
        BY <2>2 DEF PutLive
      <3>2. PICK e : e = d
        OBVIOUS
      <3>3. PICK new : new = doc
        OBVIOUS
      <3> HIDE DEF d, doc
      <3>4. Put(e, new) /\ DocOK(new) /\ ~new.stale
        BY <1>2, <3>1, <3>2, <3>3
      <3>5. DocsOK' /\ Fresh(e)' /\ \A x : Fresh(x) => Fresh(x)'
        BY <3>4, PutKeeps DEF IInv
      <3> QED
        BY <3>1, <3>2, <3>5
    <2> QED
      BY <2>1, <2>2
  <1>4. Stored(q, rest)
    BY DEF PutLive
  <1>5. DOMAIN rest = DOMAIN found[q] \ {d} /\ \A x \in DOMAIN rest : rest[x] = found[q][x]
    OBVIOUS
  <1>6. DOMAIN rest = {} => rest = NoFare
    BY <1>5 DEF NoFare
  <1>7. CASE Leave(q)
    <2>1. Shape' /\ Others(q) /\ RequestOK(q)' /\ pc'[q] = "over"
      BY <1>1, <1>3, <1>7, Leaves
    <2> QED
      BY <1>1, <1>3, <2>1, ByRequest
  <1>8. CASE /\ ~(rest = NoFare /\ search[q].real = NoDest)
             /\ Goto(q, IF rest # NoFare THEN "load" ELSE "reload")
             /\ found' = [found EXCEPT ![q] = rest]
             /\ existing' = [existing EXCEPT ![q] = NoHand]
             /\ UNCHANGED <<search, baseline, listed, offers>>
    <2> HIDE DEF rest
    <2>1. Shape' /\ Others(q)
      BY <1>3, <1>8 DEF IInv, Shape, Goto, Others
    <2>2. /\ search'[q] = search[q] /\ baseline'[q] = baseline[q] /\ listed'[q] = listed[q]
          /\ found'[q] = rest /\ offers'[q] = offers[q]
          /\ pc'[q] = IF rest # NoFare THEN "load" ELSE "reload"
      BY <1>8 DEF IInv, Shape, Goto
    <2>3. HeldOK(q)' /\ OfferOK(q)' /\ FareOK(q)'
      BY <1>1, <1>5, <2>2 DEF RequestOK, HeldOK, OfferOK, FareOK
    <2>4. CASE search[q].real # NoDest
      <3>1. DOMAIN found[q] = {search[q].real} /\ d = search[q].real
        BY <1>1, <2>4 DEF RequestOK, OneFare
      <3>2. rest = NoFare
        BY <1>5, <1>6, <3>1
      <3>3. pc'[q] = "reload" /\ search[q].real \in Dest
        BY <1>1, <2>2, <2>4, <3>2 DEF RequestOK, HeldOK, Wanted
      <3>4. OneFare(q)'
        BY <2>2, <3>3 DEF OneFare
      <3>5. q \notin failed' => Fresh(search[q].real)'
        <4>1. PICK e : e = d
          OBVIOUS
        <4>2. q \notin failed' => Fresh(e)'
          BY <1>3, <4>1
        <4>3. search'[q].real = e
          BY <2>2, <3>1, <4>1
        <4> QED
          BY <4>2, <4>3 DEF Fresh
      <3> QED
        BY <1>1, <1>3, <2>1, <2>3, <3>4, <3>5, ByRequest DEF RequestOK
    <2>5. CASE search[q].real = NoDest
      <3>1. pc'[q] = "load"
        BY <1>8, <2>2, <2>5
      <3>2. OneFare(q)'
        BY <1>1, <2>2, <2>5, <3>1 DEF RequestOK, OneFare
      <3> QED
        BY <1>1, <1>3, <2>1, <2>3, <3>1, <3>2, ByRequest DEF RequestOK
    <2> QED
      BY <2>4, <2>5
  <1> QED
    BY <1>4, <1>7, <1>8 DEF Stored

LEMMA ReloadKeeps ==
    ASSUME RouteCacheAssumption, HiddenCityAssumption, IInv, NEW q \in Request, Reload(q)
    PROVE  IInv'
  <1>1. CASE search[q].real \notin DOMAIN docs
    BY <1>1, LeaveKeeps DEF Reload
  <1>2. CASE search[q].real \in DOMAIN docs
    <2>1. Shape' /\ Others(q) /\ UNCHANGED <<docs, writerVars>>
      BY <1>2 DEF IInv, Shape, Reload, Goto, Others
    <2>2. /\ search'[q] = search[q] /\ baseline'[q] = BaselineFrom(search[q].real)
          /\ listed'[q] = listed[q] /\ found'[q] = found[q] /\ offers'[q] = offers[q]
          /\ pc[q] = "reload" /\ pc'[q] = "score" /\ failed' = failed /\ ~search[q].plain
      BY <1>2 DEF IInv, Shape, Reload, Goto
    <2>3. RequestOK(q) /\ (q \notin failed => Fresh(search[q].real))
      BY <2>2 DEF IInv, PutFresh
    <2>4. /\ BaselineFrom(search[q].real) \in BaseFare
          /\ Fresh(search[q].real) => ~BaselineFrom(search[q].real).stale
      BY BaselineTyped DEF IInv
    <2>5. HeldOK(q)' /\ OneFare(q)'
      BY <2>2, <2>3, <2>4 DEF RequestOK, HeldOK, OneFare
    <2>6. OfferOK(q)' /\ FareOK(q)'
      BY <2>2, <2>3, <2>4 DEF RequestOK, OfferOK, FareOK
    <2> QED
      BY <2>1, <2>2, <2>5, <2>6, ByReader DEF RequestOK
  <1> QED
    BY <1>1, <1>2

LEMMA QueryAgainKeeps ==
    ASSUME IInv, NEW q \in Request, QueryAgain(q)
    PROVE  IInv'
  <1>1. Shape' /\ Others(q) /\ UNCHANGED <<docs, writerVars>>
    BY DEF IInv, Shape, QueryAgain, Goto, Others
  <1>2. /\ search'[q] = search[q] /\ listed'[q] = RoutesTo(search[q].real)
        /\ baseline'[q] = baseline[q] /\ found'[q] = found[q] /\ offers'[q] = offers[q]
        /\ pc[q] = "reload" /\ pc'[q] = "score" /\ failed' = failed /\ search[q].plain
    BY DEF IInv, Shape, QueryAgain, Goto
  <1>3. RequestOK(q) /\ (q \notin failed => Fresh(search[q].real))
    BY <1>2 DEF IInv, PutFresh
  <1>4. q \notin failed => ~AnyStale(RoutesTo(search[q].real))
    BY <1>3, FreshRoutes
  <1>5. HeldOK(q)' /\ OneFare(q)' /\ OfferOK(q)'
    BY <1>2, <1>3 DEF RequestOK, HeldOK, OneFare, OfferOK
  <1>6. FareOK(q)'
    BY <1>2, <1>4 DEF FareOK, AnyStale
  <1> QED
    BY <1>1, <1>2, <1>5, <1>6, ByReader DEF RequestOK

LEMMA EvaluateKeeps ==
    ASSUME IInv, NEW q \in Request, Evaluate(q) PROVE IInv'
  <1>1. Shape' /\ Others(q) /\ UNCHANGED <<docs, writerVars>>
    BY DEF IInv, Shape, Evaluate, Goto, Others
  <1>2. /\ search'[q] = search[q] /\ baseline'[q] = NoBaseline /\ found'[q] = found[q]
        /\ pc[q] = "score" /\ pc'[q] = "over"
    BY DEF IInv, Shape, Evaluate, Goto
  <1>3. RequestOK(q)
    BY DEF IInv
  <1>4. HeldOK(q)' /\ OneFare(q)'
    BY <1>2, <1>3 DEF RequestOK, HeldOK, OneFare, NoBaseline, BaseFare
  <1>5. OfferOK(q)' /\ FareOK(q)'
    BY <1>2 DEF OfferOK, FareOK
  <1> QED
    BY <1>1, <1>2, <1>4, <1>5, ByReader DEF RequestOK
-----------------------------------------------------------------------------
(* Every step preserves the invariant. *)
LEMMA NextIInv ==
    ASSUME RouteCacheAssumption, HiddenCityAssumption, IInv, [Next]_vars PROVE IInv'
  <1>1. ASSUME NEW d \in Dest, Purge(d) \/ Age(d) PROVE IInv'
    BY <1>1, PurgeKeeps, AgeKeeps
  <1>2. ASSUME NEW w \in Writer, Seed(w) PROVE IInv'
    <2>1. Fixture \in Seq(Fare) \ {<<>>} /\ BeginBatch(w, Fixture)
      BY <1>2 DEF Seed, RouteCacheAssumption
    <2> QED
      BY <2>1, BatchKeeps
  <1>3. ASSUME NEW w \in Writer, Scrape(w) \/ PutNext(w) \/ Abandon(w) PROVE IInv'
    BY <1>3, ScrapeKeeps, PutNextKeeps, AbandonKeeps
  <1>4. ASSUME NEW q \in Request, NEW d \in Dest, NEW carryOn \in BOOLEAN,
               QueryDirect(q, d, carryOn)
        PROVE  IInv'
    BY <1>4, QueryDirectKeeps
  <1>5. ASSUME NEW q \in Request, NEW d \in Dest, NEW carryOn \in BOOLEAN,
               LoadDirect(q, d, carryOn)
        PROVE  IInv'
    BY <1>5, LoadDirectKeeps
  <1>6. ASSUME NEW q \in Request, QueryThrough(q) \/ Browse(q) \/ FetchFails(q) PROVE IInv'
    BY <1>6, QueryThroughKeeps, BrowseKeeps, FetchFailsKeeps
  <1>7. ASSUME NEW q \in Request, NEW answer \in Answers(q), Fetch(q, answer) PROVE IInv'
    BY <1>7, FetchKeeps
  <1>8. ASSUME NEW q \in Request, NEW d \in Dest, NEW fails \in BOOLEAN,
               LoadExisting(q, d, fails)
        PROVE  IInv'
    BY <1>8, LoadExistingKeeps
  <1>9. ASSUME NEW q \in Request, NEW fails \in BOOLEAN, PutLive(q, fails) PROVE IInv'
    BY <1>9, PutLiveKeeps
  <1>10. ASSUME NEW q \in Request, Reload(q) \/ Evaluate(q) PROVE IInv'
    BY <1>10, ReloadKeeps, EvaluateKeeps
  <1>11. ASSUME NEW q \in Request, QueryAgain(q) PROVE IInv'
    BY <1>11, QueryAgainKeeps
  <1>12. ASSUME NEW q \in Request, CutOff(q) PROVE IInv'
    BY <1>12, LeaveKeeps DEF CutOff
  <1>13. CASE Index \/ UNCHANGED vars
    <2>1. UNCHANGED requestVars /\ UNCHANGED writerVars /\ docs' = docs
      BY <1>13 DEF Index, vars
    <2>2. DocsOK' /\ WriterOK' /\ PutFresh'
      BY <2>1 DEF IInv, DocsOK, WriterOK, PutFresh, Fresh, writerVars, requestVars
    <2> QED
      BY <2>1, <2>2, NoRequest DEF IInv
  <1> QED
    BY <1>1, <1>2, <1>3, <1>4, <1>5, <1>6, <1>7, <1>8, <1>9, <1>10, <1>11, <1>12, <1>13 DEF Next
-----------------------------------------------------------------------------
(* The documents whose verdict fits their hubs, and the types of what is read and put. *)
Held == [hubs : Seq(Dest), via : Dest \cup {NoDest}, score : Score]

Fits(doc) ==
    /\ doc.via # NoDest => Contains(doc.hubs, doc.via)
    /\ doc.via # NoDest <=> doc.score.num > 0

DocTyped(doc) == doc \in Doc /\ Fits(doc)
DocsTyped == DOMAIN docs \subseteq Dest /\ \A d \in DOMAIN docs : DocTyped(docs[d])

WritersTyped ==
    /\ batches \in 0..MaxBatches
    /\ seeds \subseteq 1..batches
    /\ finished \subseteq 1..batches
    /\ id \in [Writer -> 0..batches]

ControlTyped ==
    /\ pc \in [Request -> {"new", "query", "fetch", "load", "put", "reload", "score", "over"}]
    /\ search \in [Request -> [real : Dest \cup {NoDest}, plain : BOOLEAN, carryOn : BOOLEAN]]
    /\ failed \subseteq Request

(* The routes a search has listed are documents, read whole. *)
RouteTyped(r) == r \in Route /\ Fits(r)

OfferTyped(q) ==
    \A o \in offers[q] :
       /\ o \in Offer
       /\ search[q].plain => Contains(o.hubs, o.via)
       /\ ~search[q].carryOn => search[q].plain /\ o.warned

RequestTyped(q) ==
    /\ baseline[q] \in [known : BOOLEAN, price : Price \cup {0}, stale : BOOLEAN]
    /\ \A r \in listed[q] : RouteTyped(r)
    /\ DOMAIN found[q] \subseteq Dest
    /\ OfferTyped(q)
    /\ existing[q].doc \in Held
    /\ Fits(existing[q].doc)

TypeInv == DocsTyped /\ WritersTyped /\ ControlTyped /\ \A q \in Request : RequestTyped(q)

(* The documents D that were put as b are the first n fares of F, the last one of each
   destination, with the verdict of all of F. *)
SoFar(D, b, F, n) ==
    \A d \in DOMAIN D : D[d].by = b =>
        \E i \in 1..n :
           /\ F[i].dest = d
           /\ \A j \in (i + 1)..n : F[j].dest # d
           /\ D[d].price = F[i].price
           /\ D[d].via = Verdict(F, F[i]).via
           /\ D[d].score = Verdict(F, F[i]).score

(* A seed or scrape under way has put its fares up to the next one; those that are finished
   agree. *)
BatchInv ==
    /\ \A d \in DOMAIN docs : docs[d].by <= batches
    /\ \A w \in Writer : id[w] # 0 => /\ id[w] \notin finished
                                    /\ SoFar(docs, id[w], fares[w], next[w] - 1)
    /\ \A w, v \in Writer : id[w] = id[v] /\ id[w] # 0 => w = v
    /\ FinishedBatchAgrees
-----------------------------------------------------------------------------
(* The types. *)

LEMMA NothingTyped ==
    /\ NoDoc \in Held /\ Fits(NoDoc)
    /\ NoScore \in Score
    /\ <<>> \in Seq(Dest)
  BY DEF NoDoc, Held, Fits, NoScore, Score

(* The document of a fare of a batch, with the verdict of the fares of its batch. *)
LEMMA EnrichedTyped ==
    ASSUME NEW F \in Seq(Fare), NEW fare \in Fare, NEW b \in 0..MaxBatches,
           NEW doc, doc = [price |-> fare.price, hubs |-> fare.hubs,
                           via |-> Verdict(F, fare).via,
                           score |-> Verdict(F, fare).score, stale |-> FALSE, by |-> b]
    PROVE  DocTyped(doc)
  <1>1. BestOf(F, fare, Len(fare.hubs), Verdict(F, fare))
    BY VerdictIsBest
  <1>2. fare.price \in Price /\ fare.hubs \in Seq(Dest)
    BY DEF Fare
  <1>3. Verdict(F, fare).via \in Dest \cup {NoDest} /\ Verdict(F, fare).score \in Score
    BY <1>1 DEF BestOf
  <1>4. doc \in Doc
    BY <1>2, <1>3 DEF Doc
  <1>5. doc.via # NoDest => Contains(doc.hubs, doc.via)
    BY <1>1 DEF BestOf, Contains
  <1>6. doc.via # NoDest <=> doc.score.num > 0
    BY <1>1 DEF BestOf
  <1> QED BY <1>4, <1>5, <1>6 DEF DocTyped, Fits

LEMMA PutTyped ==
    ASSUME DocsTyped, NEW d \in Dest, NEW doc, DocTyped(doc), Put(d, doc)
    PROVE  DocsTyped'
  <1>1. DOMAIN docs' = DOMAIN docs \cup {d}
    BY DEF Put
  <1>2. \A x \in DOMAIN docs' : docs'[x] = IF x = d THEN doc ELSE docs[x]
    BY DEF Put
  <1>3. \A x \in DOMAIN docs' : DocTyped(docs'[x])
    BY <1>1, <1>2 DEF DocsTyped
  <1> QED BY <1>1, <1>3 DEF DocsTyped, DocTyped, Fits

(* The steps of the database and of the writers. *)
LEMMA TypedByWriter ==
    ASSUME TypeInv, UNCHANGED requestVars, DocsTyped', WritersTyped'
    PROVE  TypeInv'
  <1>1. ControlTyped' /\ \A q \in Request : RequestTyped(q)'
    BY DEF TypeInv, ControlTyped, RequestTyped, OfferTyped, RouteTyped, requestVars
  <1> QED BY <1>1 DEF TypeInv

LEMMA TypedBegin ==
    ASSUME TypeInv, NEW w \in Writer, NEW batch, BeginBatch(w, batch),
           seeds' \subseteq seeds \cup {batches + 1}
    PROVE  TypeInv'
  <1>1. batches \in Nat /\ batches < MaxBatches /\ MaxBatches \in Nat
    BY RouteCacheAssumption DEF TypeInv, WritersTyped, BeginBatch
  <1>2. batches' = batches + 1 /\ finished' = finished /\ id' = [id EXCEPT ![w] = batches + 1]
    BY DEF BeginBatch
  <1>3. 1..batches \subseteq 1..(batches + 1) /\ 0..batches \subseteq 0..(batches + 1)
        /\ batches + 1 \in 1..(batches + 1)
    BY <1>1
  <1>4. id' \in [Writer -> 0..(batches + 1)]
    BY <1>2, <1>3 DEF TypeInv, WritersTyped
  <1>5. seeds' \subseteq 1..(batches + 1) /\ finished' \subseteq 1..(batches + 1)
    BY <1>2, <1>3 DEF TypeInv, WritersTyped
  <1>6. WritersTyped'
    BY <1>1, <1>2, <1>4, <1>5 DEF WritersTyped
  <1>7. DocsTyped' /\ UNCHANGED requestVars
    BY DEF TypeInv, DocsTyped, BeginBatch
  <1> QED BY <1>6, <1>7, TypedByWriter

LEMMA TypedPutNext ==
    ASSUME IInv, TypeInv, NEW w \in Writer, PutNext(w) PROVE TypeInv'
  <1> DEFINE fare == fares[w][next[w]]
             doc == [price |-> fare.price, hubs |-> fare.hubs,
                     via |-> Verdict(fares[w], fare).via,
                     score |-> Verdict(fares[w], fare).score, stale |-> FALSE, by |-> id[w]]
  <1>1. UNCHANGED requestVars /\ Put(fare.dest, doc)
    BY DEF PutNext
  <1>2. fares[w] \in Seq(Fare) /\ next[w] \in DOMAIN fares[w]
    BY DEF IInv, WriterOK, PutNext
  <1>3. fare \in Fare
    BY <1>2
  <1>4. fare.dest \in Dest
    BY <1>3 DEF Fare
  <1>5. id[w] \in 0..batches /\ batches \in 0..MaxBatches /\ id[w] # 0
    BY DEF TypeInv, WritersTyped, PutNext
  <1>6. id[w] \in 0..MaxBatches /\ id[w] \in 1..batches
    BY <1>5, RouteCacheAssumption
  <1>7. DocTyped(doc)
    <2> HIDE DEF fare
    <2> QED BY <1>2, <1>3, <1>6, EnrichedTyped
  <1>8. DocsTyped'
    <2> HIDE DEF doc, fare
    <2> QED BY <1>1, <1>4, <1>7, PutTyped DEF TypeInv
  <1>9. WritersTyped'
    <2>1. batches' = batches /\ seeds' = seeds
      BY DEF PutNext
    <2>2. finished' = finished \/ finished' = finished \cup {id[w]}
      BY DEF PutNext
    <2>3. id' = id \/ id' = [id EXCEPT ![w] = 0]
      BY DEF PutNext
    <2>4. id' \in [Writer -> 0..batches]
      <3>1. 0 \in 0..batches
        BY <1>5
      <3> QED BY <2>3, <3>1 DEF TypeInv, WritersTyped
    <2> QED BY <1>6, <2>1, <2>2, <2>4 DEF TypeInv, WritersTyped
  <1> QED BY <1>1, <1>8, <1>9, TypedByWriter

LEMMA TypedAbandon ==
    ASSUME TypeInv, NEW w \in Writer, Abandon(w) PROVE TypeInv'
  <1>1. batches \in Nat
    BY DEF TypeInv, WritersTyped
  <1>2. id' \in [Writer -> 0..batches]
    <2>1. 0 \in 0..batches /\ id' = [id EXCEPT ![w] = 0]
      BY <1>1 DEF Abandon
    <2> QED BY <2>1 DEF TypeInv, WritersTyped
  <1>3. WritersTyped'
    BY <1>2 DEF TypeInv, WritersTyped, Abandon
  <1>4. DocsTyped' /\ UNCHANGED requestVars
    BY DEF TypeInv, DocsTyped, Abandon
  <1> QED BY <1>3, <1>4, TypedByWriter

LEMMA TypedDatabase ==
    ASSUME TypeInv, NEW d \in Dest, Purge(d) \/ Age(d) PROVE TypeInv'
  <1>1. UNCHANGED requestVars /\ UNCHANGED writerVars
    BY DEF Purge, Age
  <1>2. WritersTyped'
    BY <1>1 DEF TypeInv, WritersTyped, writerVars
  <1>3. CASE Purge(d)
    <2>1. DOMAIN docs' = DOMAIN docs \ {d} /\ \A x \in DOMAIN docs' : docs'[x] = docs[x]
      BY <1>3 DEF Purge
    <2>2. DocsTyped'
      BY <2>1 DEF TypeInv, DocsTyped, DocTyped, Fits
    <2> QED BY <1>1, <1>2, <2>2, TypedByWriter
  <1>4. CASE Age(d)
    <2>1. /\ DOMAIN docs' = DOMAIN docs
          /\ \A x \in DOMAIN docs : x # d => docs'[x] = docs[x]
          /\ d \in DOMAIN docs /\ docs'[d] = [docs[d] EXCEPT !.stale = TRUE]
      BY <1>4 DEF Age
    <2>2. DocTyped(docs[d])
      BY <2>1 DEF TypeInv, DocsTyped
    <2>3. PICK old : old = docs[d] /\ DocTyped(old)
      BY <2>2
    <2>4. DocTyped([old EXCEPT !.stale = TRUE])
      <3>1. [old EXCEPT !.stale = TRUE] \in Doc
        BY <2>3 DEF DocTyped, Doc
      <3>2. /\ [old EXCEPT !.stale = TRUE].via = old.via
            /\ [old EXCEPT !.stale = TRUE].hubs = old.hubs
            /\ [old EXCEPT !.stale = TRUE].score = old.score
        BY <2>3 DEF DocTyped, Doc
      <3> QED BY <2>3, <3>1, <3>2 DEF DocTyped, Fits
    <2>5. \A x \in DOMAIN docs' : DocTyped(docs'[x])
      BY <2>1, <2>3, <2>4 DEF TypeInv, DocsTyped
    <2>6. DocsTyped'
      BY <2>1, <2>5 DEF TypeInv, DocsTyped, DocTyped, Fits
    <2> QED BY <1>1, <1>2, <2>6, TypedByWriter
  <1> QED BY <1>3, <1>4
-----------------------------------------------------------------------------
(* The steps of a request. *)
LEMMA TypedByRequest ==
    ASSUME TypeInv, NEW q \in Request, Others(q), UNCHANGED writerVars, DocsTyped',
           ControlTyped', RequestTyped(q)'
    PROVE  TypeInv'
  <1>1. ASSUME NEW p \in Request, p # q PROVE RequestTyped(p)'
    <2>1. RequestTyped(p)
      BY DEF TypeInv
    <2> QED BY <1>1, <2>1 DEF Others, RequestTyped, OfferTyped, RouteTyped, Fits
  <1>2. WritersTyped'
    BY DEF TypeInv, WritersTyped, writerVars
  <1> QED BY <1>1, <1>2 DEF TypeInv

(* A step that reads the documents. *)
LEMMA TypedByReader ==
    ASSUME TypeInv, NEW q \in Request, Others(q), UNCHANGED <<docs, writerVars>>,
           ControlTyped', RequestTyped(q)'
    PROVE  TypeInv'
  <1>1. DocsTyped'
    BY DEF TypeInv, DocsTyped
  <1> QED BY <1>1, TypedByRequest

LEMMA BaselinePrice ==
    ASSUME DocsTyped, NEW d
    PROVE  BaselineFrom(d) \in [known : BOOLEAN, price : Price \cup {0}, stale : BOOLEAN]
  <1>1. CASE d \in DOMAIN docs
    <2>1. docs[d].price \in Price /\ docs[d].stale \in BOOLEAN
      BY <1>1 DEF DocsTyped, DocTyped, Doc
    <2> QED BY <1>1, <2>1 DEF BaselineFrom
  <1>2. CASE d \notin DOMAIN docs
    BY <1>2 DEF BaselineFrom, NoBaseline
  <1> QED BY <1>1, <1>2

(* What a query reads, whatever the index says. *)
LEMMA RoutesTyped ==
    ASSUME DocsTyped, NEW x
    PROVE  /\ \A r \in RoutesTo(x) : RouteTyped(r)
           /\ \A r \in RoutesThrough(x) : RouteTyped(r)
  <1>1. ASSUME NEW d \in DOMAIN docs PROVE RouteTyped(RouteOf(d))
    <2>1. d \in Dest /\ docs[d] \in Doc /\ Fits(docs[d])
      BY DEF DocsTyped, DocTyped
    <2>2. RouteOf(d) \in Route
      BY <2>1 DEF RouteOf, Route, Doc
    <2>3. Fits(RouteOf(d))
      BY <2>1 DEF RouteOf, Fits
    <2> QED BY <2>2, <2>3 DEF RouteTyped
  <1>2. RoutesTo(x) \subseteq {RouteOf(d) : d \in DOMAIN docs}
    BY DEF RoutesTo, Indexed
  <1>3. RoutesThrough(x) \subseteq {RouteOf(d) : d \in DOMAIN docs}
    BY DEF RoutesThrough, Indexed
  <1> QED BY <1>1, <1>2, <1>3, Zenon

LEMMA TypedLeave ==
    ASSUME IInv, TypeInv, NEW q \in Request, pc[q] # "over", Leave(q), failed' \subseteq Request
    PROVE  ControlTyped' /\ RequestTyped(q)'
  <1>1. ControlTyped'
    <2>1. NoSearch \in [real : Dest \cup {NoDest}, plain : BOOLEAN, carryOn : BOOLEAN]
      BY DEF NoSearch
    <2> QED BY <2>1 DEF TypeInv, ControlTyped, Leave, Goto
  <1>2. offers[q] = {}
    BY DEF IInv, RequestOK, OfferOK
  <1>3. /\ baseline'[q] = NoBaseline /\ listed'[q] = {} /\ found'[q] = NoFare
        /\ existing'[q] = NoHand /\ offers'[q] = {}
    BY <1>2 DEF IInv, Shape, Leave
  <1>4. RequestTyped(q)'
    <2>1. NoBaseline \in [known : BOOLEAN, price : Price \cup {0}, stale : BOOLEAN]
      BY DEF NoBaseline
    <2>2. DOMAIN NoFare = {} /\ NoHand.doc = NoDoc
      BY DEF NoFare, NoHand
    <2> QED BY <1>3, <2>1, <2>2, NothingTyped DEF RequestTyped, OfferTyped, RouteTyped, Fits
  <1> QED BY <1>1, <1>4

LEMMA TypedCutOff ==
    ASSUME IInv, TypeInv, NEW q \in Request, pc[q] # "over", Leave(q),
           UNCHANGED <<docs, writerVars, failed>>
    PROVE  TypeInv'
  <1>1. failed' \subseteq Request
    BY DEF TypeInv, ControlTyped
  <1>2. Others(q)
    BY Leaves
  <1> QED BY <1>1, <1>2, TypedLeave, TypedByReader

LEMMA TypedQueryDirect ==
    ASSUME IInv, TypeInv, NEW q \in Request, NEW d \in Dest, NEW carryOn \in BOOLEAN,
           QueryDirect(q, d, carryOn)
    PROVE  TypeInv'
  <1>1. Others(q) /\ UNCHANGED <<docs, writerVars>>
    BY DEF IInv, Shape, QueryDirect, Goto, Others
  <1>2. ControlTyped'
    BY DEF TypeInv, ControlTyped, QueryDirect, Goto
  <1>3. /\ listed'[q] = RoutesTo(d) /\ baseline'[q] = baseline[q] /\ found'[q] = found[q]
        /\ existing'[q] = existing[q] /\ offers'[q] = {}
    BY DEF IInv, Shape, QueryDirect, RequestOK, OfferOK
  <1>4. \A r \in listed'[q] : RouteTyped(r)
    BY <1>3, RoutesTyped DEF TypeInv
  <1>5. RequestTyped(q)'
    BY <1>3, <1>4 DEF TypeInv, RequestTyped, OfferTyped, RouteTyped, Fits
  <1> QED BY <1>1, <1>2, <1>5, TypedByReader

LEMMA TypedLoadDirect ==
    ASSUME IInv, TypeInv, NEW q \in Request, NEW d \in Dest, NEW carryOn \in BOOLEAN,
           LoadDirect(q, d, carryOn)
    PROVE  TypeInv'
  <1>1. Others(q) /\ UNCHANGED <<docs, writerVars>>
    BY DEF IInv, Shape, LoadDirect, Goto, Others
  <1>2. ControlTyped'
    BY DEF TypeInv, ControlTyped, LoadDirect, Goto
  <1>3. /\ baseline'[q] = BaselineFrom(d) /\ listed'[q] = listed[q] /\ found'[q] = found[q]
        /\ existing'[q] = existing[q] /\ offers'[q] = {}
    BY DEF IInv, Shape, LoadDirect, RequestOK, OfferOK
  <1>4. baseline'[q] \in [known : BOOLEAN, price : Price \cup {0}, stale : BOOLEAN]
    BY <1>3, BaselinePrice DEF TypeInv
  <1>5. RequestTyped(q)'
    BY <1>3, <1>4 DEF TypeInv, RequestTyped, OfferTyped, RouteTyped, Fits
  <1> QED BY <1>1, <1>2, <1>5, TypedByReader

LEMMA TypedQueryThrough ==
    ASSUME IInv, TypeInv, NEW q \in Request, QueryThrough(q) PROVE TypeInv'
  <1>1. Others(q) /\ UNCHANGED <<docs, writerVars>>
    BY DEF IInv, Shape, QueryThrough, Goto, Others
  <1>2. ControlTyped'
    BY DEF TypeInv, ControlTyped, QueryThrough, Goto
  <1>3. /\ listed'[q] = RoutesThrough(search[q].real) /\ baseline'[q] = baseline[q]
        /\ found'[q] = found[q] /\ existing'[q] = existing[q] /\ offers'[q] = {}
    BY DEF IInv, Shape, QueryThrough, RequestOK, OfferOK
  <1>4. \A r \in listed'[q] : RouteTyped(r)
    BY <1>3, RoutesTyped DEF TypeInv
  <1>5. RequestTyped(q)'
    BY <1>3, <1>4 DEF TypeInv, RequestTyped, OfferTyped, RouteTyped, Fits
  <1> QED BY <1>1, <1>2, <1>5, TypedByReader

LEMMA TypedAsk ==
    ASSUME IInv, TypeInv, NEW q \in Request, Browse(q) \/ FetchFails(q) PROVE TypeInv'
  <1>1. CASE Browse(q) \/ (FetchFails(q) /\ search[q].plain)
    <2>1. Others(q) /\ UNCHANGED <<docs, writerVars>>
      BY <1>1 DEF IInv, Shape, Browse, FetchFails, Goto, Others
    <2>2. ControlTyped'
      BY <1>1 DEF TypeInv, ControlTyped, Browse, FetchFails, Goto
    <2>3. /\ baseline' = baseline /\ listed' = listed /\ found' = found /\ offers' = offers
          /\ existing' = existing /\ search' = search
      BY <1>1 DEF Browse, FetchFails
    <2>4. RequestTyped(q)'
      BY <2>3 DEF TypeInv, RequestTyped, OfferTyped, RouteTyped, Fits
    <2> QED BY <2>1, <2>2, <2>4, TypedByReader
  <1>2. CASE FetchFails(q) /\ ~search[q].plain
    BY <1>2, TypedCutOff DEF FetchFails
  <1> QED BY <1>1, <1>2

LEMMA TypedFetch ==
    ASSUME IInv, TypeInv, NEW q \in Request, NEW answer \in Answers(q), Fetch(q, answer)
    PROVE  TypeInv'
  <1>1. Others(q) /\ UNCHANGED <<docs, writerVars>>
    BY DEF IInv, Shape, Fetch, Goto, Others
  <1>2. ControlTyped'
    BY DEF TypeInv, ControlTyped, Fetch, Goto
  <1>3. /\ baseline' = baseline /\ listed' = listed /\ found'[q] = answer /\ offers' = offers
        /\ existing' = existing /\ search' = search
    BY DEF IInv, Shape, Fetch
  <1>4. search[q].real \in Dest \cup {NoDest}
    BY DEF TypeInv, ControlTyped
  <1>5. DOMAIN answer \subseteq Dest
    <2>1. CASE search[q].real = NoDest
      <3>1. PICK D \in SUBSET Dest : answer \in [D -> Price]
        BY <2>1 DEF Answers
      <3> QED BY <3>1
    <2>2. CASE search[q].real # NoDest
      <3>1. answer \in [{search[q].real} -> Price]
        BY <2>2 DEF Answers
      <3> QED BY <1>4, <2>2, <3>1
    <2> QED BY <2>1, <2>2
  <1>6. RequestTyped(q)'
    BY <1>3, <1>5 DEF TypeInv, RequestTyped, OfferTyped, RouteTyped, Fits
  <1> QED BY <1>1, <1>2, <1>6, TypedByReader

LEMMA TypedLoadExisting ==
    ASSUME IInv, TypeInv, NEW q \in Request, NEW d \in Dest, NEW fails \in BOOLEAN,
           LoadExisting(q, d, fails)
    PROVE  TypeInv'
  <1>1. Others(q) /\ UNCHANGED <<docs, writerVars>>
    BY DEF IInv, Shape, LoadExisting, Goto, Others
  <1>2. ControlTyped'
    BY DEF TypeInv, ControlTyped, LoadExisting, Goto
  <1>3. /\ baseline' = baseline /\ listed' = listed /\ found' = found /\ offers' = offers
        /\ search' = search
    BY DEF LoadExisting
  <1> DEFINE kept == [hubs |-> docs[d].hubs, via |-> docs[d].via, score |-> docs[d].score]
  <1>4. existing'[q].doc = IF fails \/ d \notin DOMAIN docs THEN NoDoc ELSE kept
    BY DEF IInv, Shape, LoadExisting
  <1>5. existing'[q].doc \in Held /\ Fits(existing'[q].doc)
    <2>1. CASE fails \/ d \notin DOMAIN docs
      BY <1>4, <2>1, NothingTyped DEF Fits
    <2>2. CASE ~fails /\ d \in DOMAIN docs
      <3>1. docs[d] \in Doc /\ Fits(docs[d])
        BY <2>2 DEF TypeInv, DocsTyped, DocTyped
      <3>2. kept \in Held
        BY <3>1 DEF Doc, Held
      <3>3. Fits(kept)
        BY <3>1 DEF Fits
      <3> HIDE DEF kept
      <3> QED BY <1>4, <2>2, <3>2, <3>3 DEF Fits
    <2> QED BY <2>1, <2>2
  <1>6. RequestTyped(q)'
    BY <1>3, <1>5 DEF TypeInv, RequestTyped, OfferTyped, RouteTyped, Fits
  <1> QED BY <1>1, <1>2, <1>6, TypedByReader

LEMMA RefreshedTyped ==
    ASSUME NEW price \in Price, NEW old \in Held, Fits(old)
    PROVE  DocTyped(Refreshed(price, old))
  <1>1. 0 \in 0..MaxBatches
    BY RouteCacheAssumption
  <1>2. Refreshed(price, old) \in Doc
    BY <1>1 DEF Refreshed, Doc, Held
  <1>3. Fits(Refreshed(price, old))
    BY DEF Refreshed, Fits
  <1> QED BY <1>2, <1>3 DEF DocTyped

LEMMA TypedPutLive ==
    ASSUME IInv, TypeInv, NEW q \in Request, NEW fails \in BOOLEAN, PutLive(q, fails)
    PROVE  TypeInv'
  <1> DEFINE d == InHand(q)
             rest == [x \in DOMAIN found[q] \ {d} |-> found[q][x]]
             doc == Refreshed(found[q][d], existing[q].doc)
  <1>1. d \in DOMAIN found[q] /\ pc[q] = "put" /\ UNCHANGED writerVars
    BY DEF IInv, RequestOK, OneFare, PutLive
  <1>2. d \in Dest /\ found[q][d] \in Price
    BY <1>1 DEF IInv, TypeInv, RequestOK, HeldOK, RequestTyped
  <1>3. DocTyped(doc)
    BY <1>2, RefreshedTyped DEF TypeInv, RequestTyped
  <1>4. DocsTyped' /\ failed' \subseteq Request
    <2>1. CASE fails
      <3>1. docs' = docs /\ failed' = failed \cup {q}
        BY <2>1 DEF PutLive
      <3> QED BY <3>1 DEF TypeInv, DocsTyped, ControlTyped
    <2>2. CASE ~fails
      <3>1. Put(d, doc) /\ failed' = failed
        BY <2>2 DEF PutLive
      <3>2. failed' \subseteq Request
        BY <3>1 DEF TypeInv, ControlTyped
      <3> HIDE DEF d, doc
      <3> QED BY <1>2, <1>3, <3>1, <3>2, PutTyped DEF TypeInv
    <2> QED BY <2>1, <2>2
  <1>5. failed \subseteq failed' /\ failed' \subseteq failed \cup {q}
    BY DEF PutLive
  <1>6. CASE Leave(q)
    <2>1. Others(q)
      BY <1>1, <1>5, <1>6, Leaves
    <2>2. ControlTyped' /\ RequestTyped(q)'
      BY <1>1, <1>4, <1>6, TypedLeave
    <2> QED BY <1>1, <1>4, <2>1, <2>2, TypedByRequest
  <1>7. CASE /\ Goto(q, IF rest # NoFare THEN "load" ELSE "reload")
             /\ found' = [found EXCEPT ![q] = rest]
             /\ existing' = [existing EXCEPT ![q] = NoHand]
             /\ UNCHANGED <<search, baseline, listed, offers>>
    <2>1. DOMAIN rest \subseteq DOMAIN found[q]
      OBVIOUS
    <2> HIDE DEF rest
    <2>2. Others(q)
      BY <1>5, <1>7 DEF IInv, Shape, Goto, Others
    <2>3. ControlTyped'
      BY <1>4, <1>7 DEF TypeInv, ControlTyped, Goto
    <2>4. found'[q] = rest /\ existing'[q] = NoHand /\ NoHand.doc = NoDoc
      BY <1>7 DEF IInv, Shape, NoHand
    <2>5. RequestTyped(q)'
      BY <1>7, <2>1, <2>4, NothingTyped DEF TypeInv, RequestTyped, OfferTyped, RouteTyped, Fits
    <2> QED BY <1>1, <1>4, <2>2, <2>3, <2>5, TypedByRequest
  <1>8. Stored(q, rest)
    BY DEF PutLive
  <1> QED BY <1>6, <1>7, <1>8 DEF Stored

LEMMA TypedReload ==
    ASSUME IInv, TypeInv, NEW q \in Request, Reload(q) PROVE TypeInv'
  <1>1. CASE search[q].real \notin DOMAIN docs
    BY <1>1, TypedCutOff DEF Reload
  <1>2. CASE search[q].real \in DOMAIN docs
    <2>1. Others(q) /\ UNCHANGED <<docs, writerVars>>
      BY <1>2 DEF IInv, Shape, Reload, Goto, Others
    <2>2. ControlTyped'
      BY <1>2 DEF TypeInv, ControlTyped, Reload, Goto
    <2>3. /\ baseline'[q] = BaselineFrom(search[q].real) /\ listed' = listed /\ found' = found
          /\ offers'[q] = {} /\ existing' = existing
      BY <1>2 DEF IInv, Shape, Reload, RequestOK, OfferOK
    <2>4. baseline'[q] \in [known : BOOLEAN, price : Price \cup {0}, stale : BOOLEAN]
      BY <2>3, BaselinePrice DEF TypeInv
    <2>5. RequestTyped(q)'
      BY <2>3, <2>4 DEF TypeInv, RequestTyped, OfferTyped, RouteTyped, Fits
    <2> QED BY <2>1, <2>2, <2>5, TypedByReader
  <1> QED BY <1>1, <1>2

LEMMA TypedQueryAgain ==
    ASSUME IInv, TypeInv, NEW q \in Request, QueryAgain(q) PROVE TypeInv'
  <1>1. Others(q) /\ UNCHANGED <<docs, writerVars>>
    BY DEF IInv, Shape, QueryAgain, Goto, Others
  <1>2. ControlTyped'
    BY DEF TypeInv, ControlTyped, QueryAgain, Goto
  <1>3. /\ listed'[q] = RoutesTo(search[q].real) /\ baseline'[q] = baseline[q]
        /\ found'[q] = found[q] /\ existing'[q] = existing[q] /\ offers'[q] = {}
    BY DEF IInv, Shape, QueryAgain, RequestOK, OfferOK
  <1>4. \A r \in listed'[q] : RouteTyped(r)
    BY <1>3, RoutesTyped DEF TypeInv
  <1>5. RequestTyped(q)'
    BY <1>3, <1>4 DEF TypeInv, RequestTyped, OfferTyped, RouteTyped, Fits
  <1> QED BY <1>1, <1>2, <1>5, TypedByReader

(* A score above a half belongs to a hub of the route; and no saving is worth a bag that
   flies past. *)
LEMMA TicketsTyped ==
    ASSUME IInv, TypeInv, NEW q \in Request, pc[q] = "score", NEW o \in TicketsOf(q)
    PROVE  /\ o \in Offer
           /\ search[q].plain => Contains(o.hubs, o.via)
           /\ ~search[q].carryOn => search[q].plain /\ o.warned
  <1>1. /\ search[q].plain \in BOOLEAN /\ search[q].carryOn \in BOOLEAN
        /\ search[q].real \in Dest /\ baseline[q].price \in Nat
    BY DEF IInv, RequestOK, HeldOK, OneFare, Wanted, BaseFare
  <1>2. \A r \in listed[q] : RouteTyped(r)
    BY DEF TypeInv, RequestTyped
  <1>3. CASE search[q].plain
    <2>1. PICK r \in listed[q] :
              /\ WorthShowing(r.score)
              /\ o = [dest |-> r.dest, hubs |-> r.hubs, via |-> r.via,
                      warned |-> ~search[q].carryOn]
      BY <1>3 DEF TicketsOf
    <2>2. r \in Route /\ Fits(r)
      BY <1>2 DEF RouteTyped
    <2>3. /\ r.dest \in Dest /\ r.hubs \in Seq(Dest) /\ r.via \in Dest \cup {NoDest}
          /\ r.score.num \in Nat /\ r.score.den \in Nat \ {0}
      BY <2>2 DEF Route, Score
    <2>4. r.score.num > 0
      BY <2>1, <2>3 DEF WorthShowing
    <2>5. r.via \in Dest /\ Contains(r.hubs, r.via)
      BY <2>2, <2>3, <2>4 DEF Fits
    <2>6. o \in Offer
      BY <1>1, <2>1, <2>3, <2>5 DEF Offer
    <2> QED BY <1>3, <2>1, <2>5, <2>6
  <1>4. CASE ~search[q].plain
    <2>1. PICK r \in listed[q] :
              /\ ShouldSurface(baseline[q].price, r.price, search[q].carryOn)
              /\ o = [dest |-> r.dest, hubs |-> r.hubs, via |-> search[q].real,
                      warned |-> ~search[q].carryOn]
      BY <1>4 DEF TicketsOf
    <2>2. r.dest \in Dest /\ r.hubs \in Seq(Dest) /\ r.price \in Nat
      BY <1>2, HiddenCityAssumption DEF RouteTyped, Route
    <2>3. search[q].carryOn
      BY <1>1, <2>1, <2>2, NoBagsWorth
    <2>4. o \in Offer
      BY <1>1, <2>1, <2>2 DEF Offer
    <2> QED BY <1>4, <2>3, <2>4
  <1> QED BY <1>3, <1>4

LEMMA TypedEvaluate ==
    ASSUME IInv, TypeInv, NEW q \in Request, Evaluate(q) PROVE TypeInv'
  <1>1. Others(q) /\ UNCHANGED <<docs, writerVars>>
    BY DEF IInv, Shape, Evaluate, Goto, Others
  <1>2. ControlTyped'
    BY DEF TypeInv, ControlTyped, Evaluate, Goto
  <1>3. /\ pc[q] = "score" /\ search' = search /\ found' = found /\ existing' = existing
        /\ baseline'[q] = NoBaseline /\ listed'[q] = {} /\ offers'[q] = TicketsOf(q)
    BY DEF IInv, Shape, Evaluate
  <1>4. OfferTyped(q)'
    <2>1. \A o \in TicketsOf(q) :
             /\ o \in Offer
             /\ search[q].plain => Contains(o.hubs, o.via)
             /\ ~search[q].carryOn => search[q].plain /\ o.warned
      BY <1>3, TicketsTyped
    <2>2. PICK T : T = TicketsOf(q)
      OBVIOUS
    <2> QED BY <1>3, <2>1, <2>2 DEF OfferTyped
  <1>5. NoBaseline \in [known : BOOLEAN, price : Price \cup {0}, stale : BOOLEAN]
    BY DEF NoBaseline
  <1>6. RequestTyped(q)'
    BY <1>3, <1>4, <1>5 DEF TypeInv, RequestTyped, Fits
  <1> QED BY <1>1, <1>2, <1>6, TypedByReader
-----------------------------------------------------------------------------
LEMMA InitTypeInv == Init => TypeInv
  <1> SUFFICES ASSUME Init PROVE TypeInv
    OBVIOUS
  <1>1. DocsTyped
    BY DEF Init, DocsTyped, NoFare
  <1>2. WritersTyped
    BY RouteCacheAssumption DEF Init, WritersTyped
  <1>3. ControlTyped
    BY DEF Init, ControlTyped, NoSearch
  <1>4. ASSUME NEW q \in Request PROVE RequestTyped(q)
    BY NothingTyped DEF Init, RequestTyped, OfferTyped, NoBaseline, NoFare, NoHand
  <1> QED BY <1>1, <1>2, <1>3, <1>4 DEF TypeInv

LEMMA NextTypeInv == ASSUME IInv, TypeInv, [Next]_vars PROVE TypeInv'
  <1>1. ASSUME NEW d \in Dest, Purge(d) \/ Age(d) PROVE TypeInv'
    BY <1>1, TypedDatabase
  <1>2. ASSUME NEW w \in Writer, Seed(w) \/ Scrape(w) PROVE TypeInv'
    <2>1. \E batch : BeginBatch(w, batch)
      BY <1>2 DEF Seed, Scrape
    <2>2. seeds' \subseteq seeds \cup {batches + 1}
      BY <1>2 DEF Seed, Scrape
    <2> QED BY <2>1, <2>2, TypedBegin
  <1>3. ASSUME NEW w \in Writer, PutNext(w) \/ Abandon(w) PROVE TypeInv'
    BY <1>3, TypedPutNext, TypedAbandon
  <1>4. ASSUME NEW q \in Request, NEW d \in Dest, NEW carryOn \in BOOLEAN,
               QueryDirect(q, d, carryOn) \/ LoadDirect(q, d, carryOn)
        PROVE  TypeInv'
    BY <1>4, TypedQueryDirect, TypedLoadDirect
  <1>5. ASSUME NEW q \in Request, QueryThrough(q) PROVE TypeInv'
    BY <1>5, TypedQueryThrough
  <1>6. ASSUME NEW q \in Request, Browse(q) \/ FetchFails(q) PROVE TypeInv'
    BY <1>6, TypedAsk
  <1>7. ASSUME NEW q \in Request, NEW answer \in Answers(q), Fetch(q, answer) PROVE TypeInv'
    BY <1>7, TypedFetch
  <1>8. ASSUME NEW q \in Request, NEW d \in Dest, NEW fails \in BOOLEAN,
               LoadExisting(q, d, fails)
        PROVE  TypeInv'
    BY <1>8, TypedLoadExisting
  <1>9. ASSUME NEW q \in Request, NEW fails \in BOOLEAN, PutLive(q, fails) PROVE TypeInv'
    BY <1>9, TypedPutLive
  <1>10. ASSUME NEW q \in Request, Reload(q) \/ QueryAgain(q) PROVE TypeInv'
    BY <1>10, TypedReload, TypedQueryAgain
  <1>11. ASSUME NEW q \in Request, Evaluate(q) PROVE TypeInv'
    BY <1>11, TypedEvaluate
  <1>12. ASSUME NEW q \in Request, CutOff(q) PROVE TypeInv'
    BY <1>12, TypedCutOff DEF CutOff
  <1>13. CASE Index \/ UNCHANGED vars
    <2>1. UNCHANGED requestVars /\ UNCHANGED writerVars /\ docs' = docs
      BY <1>13 DEF Index, vars
    <2>2. DocsTyped' /\ WritersTyped'
      BY <2>1 DEF TypeInv, DocsTyped, WritersTyped, writerVars
    <2> QED BY <2>1, <2>2, TypedByWriter
  <1> QED
    BY <1>1, <1>2, <1>3, <1>4, <1>5, <1>6, <1>7, <1>8, <1>9, <1>10, <1>11, <1>12, <1>13 DEF Next
-----------------------------------------------------------------------------
(* The documents of a finished batch. *)

LEMMA LastCounts ==
    ASSUME NEW F \in Seq(Fare), NEW b, NEW D, DOMAIN D \subseteq Dest, SoFar(D, b, F, Len(F)),
           NEW d \in DOMAIN D, NEW via \in DOMAIN D,
           D[d].by = b, D[via].by = b, D[d].via = via
    PROVE  D[d].score = ScoreOf(D[via].price, D[d].price)
  <1>1. Len(F) \in Nat /\ DOMAIN F = 1..Len(F)
    OBVIOUS
  <1>2. PICK i \in 1..Len(F) :
           D[d].price = F[i].price /\ via = Verdict(F, F[i]).via /\ D[d].score = Verdict(F, F[i]).score
    BY DEF SoFar
  <1>3. PICK k \in 1..Len(F) :
           F[k].dest = via /\ (\A j \in (k + 1)..Len(F) : F[j].dest # via) /\ D[via].price = F[k].price
    BY DEF SoFar
  <1>4. F[i] \in Fare
    BY <1>1
  <1>5. via # NoDest
    BY HiddenCityAssumption
  <1>6. D[d].score = HubScore(F, F[i], via)
    <2>1. BestOf(F, F[i], Len(F[i].hubs), Verdict(F, F[i]))
      BY <1>4, VerdictIsBest
    <2> QED BY <1>2, <1>5, <2>1 DEF BestOf
  <1>7. via \in Fetched(F)
    BY <1>1, <1>3 DEF Fetched
  <1>8. PICK m \in DOMAIN F : /\ F[m].dest = via
                              /\ \A j \in DOMAIN F : F[j].dest = via => j <= m
                              /\ DirectPrice(F, via) = F[m].price
    BY <1>7, DirectFare
  <1>9. m = k
    <2>1. k <= m
      BY <1>1, <1>3, <1>8
    <2>2. ~(m \in (k + 1)..Len(F))
      BY <1>3, <1>8
    <2> QED BY <1>1, <2>1, <2>2
  <1> QED BY <1>2, <1>3, <1>6, <1>7, <1>8, <1>9 DEF HubScore

LEMMA SoFarGrows ==
    ASSUME NEW F \in Seq(Fare), NEW b, NEW D, NEW E, NEW n \in DOMAIN F, NEW doc,
           SoFar(D, b, F, n - 1),
           E = [x \in DOMAIN D \cup {F[n].dest} |-> IF x = F[n].dest THEN doc ELSE D[x]],
           doc.price = F[n].price, doc.via = Verdict(F, F[n]).via,
           doc.score = Verdict(F, F[n]).score
    PROVE  SoFar(E, b, F, n)
  <1>1. n \in Nat /\ n \in 1..n
    OBVIOUS
  <1> SUFFICES ASSUME NEW d \in DOMAIN E, E[d].by = b
               PROVE  \E i \in 1..n : /\ F[i].dest = d
                                      /\ \A j \in (i + 1)..n : F[j].dest # d
                                      /\ E[d].price = F[i].price
                                      /\ E[d].via = Verdict(F, F[i]).via
                                      /\ E[d].score = Verdict(F, F[i]).score
    BY DEF SoFar
  <1>2. CASE d = F[n].dest
    <2>1. E[d] = doc
      BY <1>2
    <2>2. \A j \in (n + 1)..n : F[j].dest # d
      BY <1>1
    <2> QED BY <1>1, <1>2, <2>1, <2>2
  <1>3. CASE d # F[n].dest
    <2>1. d \in DOMAIN D /\ E[d] = D[d]
      BY <1>3
    <2>2. PICK i \in 1..(n - 1) : /\ F[i].dest = d
                                  /\ \A j \in (i + 1)..(n - 1) : F[j].dest # d
                                  /\ D[d].price = F[i].price
                                  /\ D[d].via = Verdict(F, F[i]).via
                                  /\ D[d].score = Verdict(F, F[i]).score
      BY <2>1 DEF SoFar
    <2>3. \A j \in (i + 1)..n : F[j].dest # d
      <3> SUFFICES ASSUME NEW j \in (i + 1)..n PROVE F[j].dest # d
        OBVIOUS
      <3>1. CASE j = n
        BY <1>3, <3>1
      <3>2. CASE j # n
        <4>1. j \in (i + 1)..(n - 1)
          BY <1>1, <2>2, <3>2
        <4> QED BY <2>2, <4>1
      <3> QED BY <3>1, <3>2
    <2>4. i \in 1..n
      BY <1>1
    <2> QED BY <2>1, <2>2, <2>3, <2>4
  <1> QED BY <1>2, <1>3

(* What a document was put as. *)
Same(doc, old) ==
    doc.by = old.by /\ doc.price = old.price /\ doc.via = old.via /\ doc.score = old.score

LEMMA SoFarStays ==
    ASSUME NEW F, NEW b, NEW D, NEW E, NEW n, SoFar(D, b, F, n),
           \A d \in DOMAIN E : E[d].by = b => d \in DOMAIN D /\ Same(E[d], D[d])
    PROVE  SoFar(E, b, F, n)
  BY DEF SoFar, Same

(* Documents deleted, aged or replaced by refreshes. *)
LEMMA NothingNew ==
    ASSUME WritersTyped, BatchInv, UNCHANGED writerVars,
           \A d \in DOMAIN docs' : docs'[d].by # 0 => d \in DOMAIN docs /\ Same(docs'[d], docs[d])
    PROVE  BatchInv'
  <1>1. /\ batches' = batches /\ finished' = finished /\ id' = id /\ fares' = fares
        /\ next' = next
    BY DEF writerVars
  <1>2. batches \in Nat /\ 0 \notin finished /\ \A w \in Writer : id[w] \in Nat
    BY DEF WritersTyped
  <1>3. (\A d \in DOMAIN docs : docs[d].by <= batches)'
    BY <1>1, <1>2 DEF BatchInv, Same
  <1>4. ASSUME NEW w \in Writer, id[w] # 0
        PROVE  id[w] \notin finished /\ SoFar(docs', id[w], fares[w], next[w] - 1)
    BY <1>4, SoFarStays DEF BatchInv
  <1>5. FinishedBatchAgrees'
    BY <1>1, <1>2 DEF BatchInv, FinishedBatchAgrees, Same
  <1> QED BY <1>1, <1>3, <1>4, <1>5 DEF BatchInv

LEMMA BatchBegins ==
    ASSUME IInv, TypeInv, BatchInv, NEW w \in Writer, NEW batch, BeginBatch(w, batch)
    PROVE  BatchInv'
  <1>1. /\ docs' = docs /\ finished' = finished /\ batches' = batches + 1
        /\ id'[w] = batches + 1
        /\ \A v \in Writer \ {w} : id'[v] = id[v] /\ fares'[v] = fares[v] /\ next'[v] = next[v]
    BY DEF IInv, WriterOK, BeginBatch
  <1>2. /\ batches \in Nat /\ batches + 1 \notin finished
        /\ \A v \in Writer : id[v] \in 0..batches
    BY DEF TypeInv, WritersTyped
  <1>3. \A d \in DOMAIN docs : docs[d].by \in Nat /\ docs[d].by <= batches
    BY DEF TypeInv, DocsTyped, DocTyped, Doc, BatchInv
  <1>4. (\A d \in DOMAIN docs : docs[d].by <= batches)'
    BY <1>1, <1>2, <1>3
  <1>5. ASSUME NEW v \in Writer, id'[v] # 0
        PROVE  id'[v] \notin finished' /\ SoFar(docs', id'[v], fares'[v], next'[v] - 1)
    <2>1. CASE v = w
      <3>1. SoFar(docs, batches + 1, fares'[v], next'[v] - 1)
        BY <1>2, <1>3 DEF SoFar
      <3> QED BY <1>1, <1>2, <2>1, <3>1
    <2>2. CASE v # w
      BY <1>1, <1>5, <2>2 DEF BatchInv
    <2> QED BY <2>1, <2>2
  <1>6. (\A v, u \in Writer : id[v] = id[u] /\ id[v] # 0 => v = u)'
    BY <1>1, <1>2 DEF BatchInv
  <1>7. FinishedBatchAgrees'
    BY <1>1 DEF BatchInv, FinishedBatchAgrees
  <1> QED BY <1>4, <1>5, <1>6, <1>7 DEF BatchInv

LEMMA BatchAbandoned ==
    ASSUME IInv, BatchInv, NEW w \in Writer, Abandon(w) PROVE BatchInv'
  <1>1. /\ docs' = docs /\ finished' = finished /\ batches' = batches /\ id'[w] = 0
        /\ \A v \in Writer \ {w} : id'[v] = id[v] /\ fares'[v] = fares[v] /\ next'[v] = next[v]
    BY DEF IInv, WriterOK, Abandon
  <1>2. (\A d \in DOMAIN docs : docs[d].by <= batches)'
    BY <1>1 DEF BatchInv
  <1>3. ASSUME NEW v \in Writer, id'[v] # 0
        PROVE  id'[v] \notin finished' /\ SoFar(docs', id'[v], fares'[v], next'[v] - 1)
    BY <1>1, <1>3 DEF BatchInv
  <1>4. (\A v, u \in Writer : id[v] = id[u] /\ id[v] # 0 => v = u)'
    BY <1>1 DEF BatchInv
  <1>5. FinishedBatchAgrees'
    BY <1>1 DEF BatchInv, FinishedBatchAgrees
  <1> QED BY <1>2, <1>3, <1>4, <1>5 DEF BatchInv

(* The last put of a seed or scrape finishes it. *)
LEMMA BatchGoesOn ==
    ASSUME IInv, TypeInv, BatchInv, NEW w \in Writer, PutNext(w), TypeInv' PROVE BatchInv'
  <1>1. PICK F \in Seq(Fare) : F = fares[w]
    BY DEF IInv, WriterOK
  <1>2. PICK n \in DOMAIN F : n = next[w]
    BY <1>1 DEF IInv, WriterOK, PutNext
  <1>3. PICK b : b = id[w] /\ b # 0 /\ b \in 1..batches
    BY DEF TypeInv, WritersTyped, PutNext
  <1> DEFINE dest == F[n].dest
             doc == [price |-> F[n].price, hubs |-> F[n].hubs, via |-> Verdict(F, F[n]).via,
                     score |-> Verdict(F, F[n]).score, stale |-> FALSE, by |-> b]
  <1>4. docs' = [x \in DOMAIN docs \cup {dest} |-> IF x = dest THEN doc ELSE docs[x]]
    BY <1>1, <1>2, <1>3 DEF PutNext, Put
  <1>5. /\ doc.by = b /\ doc.price = F[n].price /\ doc.via = Verdict(F, F[n]).via
        /\ doc.score = Verdict(F, F[n]).score
    OBVIOUS
  <1>6. b \notin finished /\ SoFar(docs, b, F, n - 1)
    BY <1>1, <1>2, <1>3 DEF BatchInv
  <1> HIDE DEF doc
  <1>7. SoFar(docs', b, F, n)
    BY <1>4, <1>5, <1>6, SoFarGrows
  <1>8. \A d \in DOMAIN docs' : docs'[d].by # b => d \in DOMAIN docs /\ docs'[d] = docs[d]
    BY <1>4, <1>5
  <1>9. batches' = batches /\ batches \in Nat
        /\ \A v \in Writer \ {w} : id'[v] = id[v] /\ fares'[v] = fares[v] /\ next'[v] = next[v]
    BY DEF IInv, WriterOK, TypeInv, WritersTyped, PutNext
  <1>10. (\A d \in DOMAIN docs : docs[d].by <= batches)'
    <2> SUFFICES ASSUME NEW d \in DOMAIN docs' PROVE docs'[d].by <= batches
      BY <1>9
    <2>1. CASE docs'[d].by = b
      BY <1>3, <1>9, <2>1
    <2>2. CASE docs'[d].by # b
      BY <1>8, <2>2 DEF BatchInv
    <2> QED BY <2>1, <2>2
  <1>11. ASSUME NEW v \in Writer \ {w}, id[v] # 0
         PROVE  /\ id[v] # b /\ id[v] \notin finished
                /\ SoFar(docs', id'[v], fares'[v], next'[v] - 1)
    <2>1. id[v] # b /\ id[v] \notin finished
      BY <1>3, <1>11 DEF BatchInv
    <2>2. SoFar(docs, id[v], fares[v], next[v] - 1)
      BY <1>11 DEF BatchInv
    <2>3. SoFar(docs', id[v], fares[v], next[v] - 1)
      BY <1>8, <2>1, <2>2, SoFarStays DEF Same
    <2> QED BY <1>9, <2>1, <2>3
  <1>12. ASSUME NEW d \in DOMAIN docs', docs'[d].via \in DOMAIN docs',
                docs'[d].by = docs'[docs'[d].via].by, docs'[d].by \in finished
         PROVE  docs'[d].score = ScoreOf(docs'[docs'[d].via].price, docs'[d].price)
    BY <1>6, <1>8, <1>12 DEF BatchInv, FinishedBatchAgrees
  <1>13. CASE n # Len(F)
    <2>1. finished' = finished /\ id' = id /\ fares' = fares /\ next'[w] = n + 1
      BY <1>1, <1>2, <1>13 DEF IInv, WriterOK, PutNext
    <2>2. (n + 1) - 1 = n
      BY <1>2
    <2>3. ASSUME NEW v \in Writer, id'[v] # 0
          PROVE  id'[v] \notin finished' /\ SoFar(docs', id'[v], fares'[v], next'[v] - 1)
      <3>1. CASE v = w
        BY <1>1, <1>3, <1>6, <1>7, <2>1, <2>2, <3>1
      <3>2. CASE v # w
        BY <1>11, <2>1, <2>3, <3>2
      <3> QED BY <3>1, <3>2
    <2>4. (\A v, u \in Writer : id[v] = id[u] /\ id[v] # 0 => v = u)'
      BY <2>1 DEF BatchInv
    <2>5. FinishedBatchAgrees'
      BY <1>12, <2>1 DEF FinishedBatchAgrees
    <2> QED BY <1>10, <2>3, <2>4, <2>5 DEF BatchInv
  <1>14. CASE n = Len(F)
    <2>1. finished' = finished \cup {b} /\ id'[w] = 0
      BY <1>1, <1>2, <1>3, <1>14 DEF IInv, WriterOK, PutNext
    <2>2. ASSUME NEW v \in Writer, id'[v] # 0
          PROVE  id'[v] \notin finished' /\ SoFar(docs', id'[v], fares'[v], next'[v] - 1)
      <3>1. v \in Writer \ {w}
        BY <2>1, <2>2
      <3> QED BY <1>9, <1>11, <2>1, <2>2, <3>1
    <2>3. (\A v, u \in Writer : id[v] = id[u] /\ id[v] # 0 => v = u)'
      BY <1>9, <2>1 DEF BatchInv
    <2>4. FinishedBatchAgrees'
      <3> SUFFICES ASSUME NEW d \in DOMAIN docs', docs'[d].via \in DOMAIN docs',
                          docs'[d].by = docs'[docs'[d].via].by, docs'[d].by \in finished'
                   PROVE  docs'[d].score = ScoreOf(docs'[docs'[d].via].price, docs'[d].price)
        BY DEF FinishedBatchAgrees
      <3>1. CASE docs'[d].by \in finished
        BY <1>12, <3>1
      <3>2. CASE docs'[d].by = b
        <4>1. DOMAIN docs' \subseteq Dest
          BY DEF TypeInv, DocsTyped
        <4>2. PICK D : D = docs'
          OBVIOUS
        <4>3. PICK via \in DOMAIN D : via = D[d].via
          BY <4>2
        <4>4. DOMAIN D \subseteq Dest /\ SoFar(D, b, F, Len(F)) /\ d \in DOMAIN D
          BY <1>7, <1>14, <4>1, <4>2
        <4>5. D[d].by = b /\ D[via].by = b
          BY <3>2, <4>2, <4>3
        <4>6. D[d].score = ScoreOf(D[via].price, D[d].price)
          BY <4>3, <4>4, <4>5, LastCounts
        <4> QED BY <4>2, <4>3, <4>6
      <3> QED BY <2>1, <3>1, <3>2
    <2> QED BY <1>10, <2>2, <2>3, <2>4 DEF BatchInv
  <1> QED BY <1>13, <1>14
-----------------------------------------------------------------------------
LEMMA InitBatchInv == Init => BatchInv
  BY DEF Init, BatchInv, FinishedBatchAgrees, NoFare

LEMMA NextBatchInv == ASSUME IInv, TypeInv, BatchInv, [Next]_vars PROVE BatchInv'
  <1>1. WritersTyped
    BY DEF TypeInv
  <1>2. ASSUME NEW d \in Dest, Purge(d) \/ Age(d) PROVE BatchInv'
    <2>1. UNCHANGED writerVars
      BY <1>2 DEF Purge, Age
    <2>2. CASE Purge(d)
      BY <1>1, <2>1, <2>2, NothingNew DEF Purge, Same
    <2>3. CASE Age(d)
      <3>1. \A x \in DOMAIN docs : docs[x] \in Doc
        BY DEF TypeInv, DocsTyped, DocTyped
      <3>2. \A x \in DOMAIN docs' : x \in DOMAIN docs /\ Same(docs'[x], docs[x])
        BY <2>3, <3>1 DEF Age, Doc, Same
      <3> QED BY <1>1, <2>1, <3>2, NothingNew
    <2> QED BY <1>2, <2>2, <2>3
  <1>3. ASSUME NEW w \in Writer, Seed(w) \/ Scrape(w) PROVE BatchInv'
    <2>1. \E batch : BeginBatch(w, batch)
      BY <1>3 DEF Seed, Scrape
    <2> QED BY <2>1, BatchBegins
  <1>4. ASSUME NEW w \in Writer, PutNext(w) \/ Abandon(w) PROVE BatchInv'
    BY <1>4, BatchGoesOn, BatchAbandoned, TypedPutNext
  <1>5. ASSUME NEW q \in Request, NEW fails \in BOOLEAN, PutLive(q, fails) PROVE BatchInv'
    <2>1. UNCHANGED writerVars
      BY <1>5 DEF PutLive
    <2>2. CASE fails
      BY <1>1, <1>5, <2>1, <2>2, NothingNew DEF PutLive, Same
    <2>3. CASE ~fails
      <3>1. PICK d, doc : Put(d, doc) /\ doc.by = 0
        BY <1>5, <2>3 DEF PutLive, Refreshed
      <3>2. \A x \in DOMAIN docs' : docs'[x].by # 0 => x \in DOMAIN docs /\ docs'[x] = docs[x]
        BY <3>1 DEF Put
      <3> QED BY <1>1, <2>1, <3>2, NothingNew DEF Same
    <2> QED BY <2>2, <2>3
  <1>6. CASE UNCHANGED <<docs, writerVars>>
    BY <1>1, <1>6, NothingNew DEF Same
  <1>7. ASSUME NEW q \in Request,
               \/ \E d \in Dest, carryOn \in BOOLEAN :
                     QueryDirect(q, d, carryOn) \/ LoadDirect(q, d, carryOn)
               \/ QueryThrough(q) \/ Browse(q) \/ FetchFails(q)
               \/ \E answer \in Answers(q) : Fetch(q, answer)
               \/ \E d \in Dest, fails \in BOOLEAN : LoadExisting(q, d, fails)
               \/ Reload(q) \/ QueryAgain(q) \/ Evaluate(q) \/ CutOff(q)
        PROVE  UNCHANGED <<docs, writerVars>>
    BY <1>7 DEF QueryDirect, LoadDirect, QueryThrough, Browse, FetchFails, Fetch, LoadExisting,
                Reload, QueryAgain, Evaluate, CutOff
  <1>8. Index \/ UNCHANGED vars => UNCHANGED <<docs, writerVars>>
    BY DEF Index, vars
  <1> QED BY <1>2, <1>3, <1>4, <1>5, <1>6, <1>7, <1>8 DEF Next
-----------------------------------------------------------------------------
(* The index holds hubs of documents there were. *)
IndexTyped == DOMAIN index \subseteq Dest /\ \A d \in DOMAIN index : index[d] \in Seq(Dest)

LEMMA NextIndexTyped == ASSUME TypeInv, IndexTyped, [Next]_vars PROVE IndexTyped'
  <1>1. CASE Index
    BY <1>1 DEF Index, IndexTyped, TypeInv, DocsTyped, DocTyped, Doc
  <1>2. CASE index' = index
    BY <1>2 DEF IndexTyped
  <1>3. Index \/ index' = index
    BY DEF Next, vars, Purge, Age, Seed, Scrape, BeginBatch, PutNext, Abandon, QueryDirect,
           LoadDirect, QueryThrough, Browse, FetchFails, Fetch, LoadExisting, PutLive, Reload,
           QueryAgain, Evaluate, CutOff
  <1> QED BY <1>1, <1>2, <1>3

(* The invariants together. *)
LEMMA Invariant == Spec => [](IInv /\ TypeInv /\ BatchInv /\ IndexTyped)
  <1>1. Init => IInv /\ TypeInv /\ BatchInv /\ IndexTyped
    BY InitIInv, InitTypeInv, InitBatchInv, RouteCacheAssumption DEF Init, IndexTyped, NoFare
  <1>2. IInv /\ TypeInv /\ BatchInv /\ IndexTyped /\ [Next]_vars
            => (IInv /\ TypeInv /\ BatchInv /\ IndexTyped)'
    BY NextIInv, NextTypeInv, NextBatchInv, NextIndexTyped, RouteCacheAssumption,
       HiddenCityAssumption
  <1> QED BY <1>1, <1>2, PTL DEF Spec

(* The documents, the writers and the requests keep their types: what is put has every field
   that is read (models.py:18-31), a seed or scrape under way has a fare left to put
   (run.py:204-212), and a refresh puts a fare it has fetched (get_live_prices.py:99-144). *)
THEOREM TypeCorrect == Spec => []TypeOK
  <1>1. IInv /\ TypeInv /\ IndexTyped => TypeOK
    <2> SUFFICES ASSUME IInv, TypeInv, IndexTyped PROVE TypeOK
      OBVIOUS
    <2>1. \A w \in Writer : fares[w] \in Seq(Fare) /\ (id[w] # 0 => next[w] \in DOMAIN fares[w])
      BY DEF IInv, WriterOK
    <2>2. ASSUME NEW q \in Request
          PROVE  /\ \A d \in DOMAIN found[q] : found[q][d] \in Price
                 /\ pc[q] = "put" => InHand(q) \in DOMAIN found[q]
      BY DEF IInv, RequestOK, HeldOK, OneFare
    <2>3. DOMAIN docs \subseteq Dest /\ \A d \in DOMAIN docs : docs[d] \in Doc
      BY DEF TypeInv, DocsTyped, DocTyped
    <2>4. \A q \in Request : listed[q] \subseteq Route /\ offers[q] \subseteq Offer
      BY DEF TypeInv, RequestTyped, RouteTyped, OfferTyped
    <2> QED
      BY <2>1, <2>2, <2>3, <2>4
         DEF TypeInv, WritersTyped, ControlTyped, RequestTyped, IndexTyped, TypeOK
  <1> QED BY <1>1, Invariant, PTL

(* A ticket shown by a plain search gets off at a hub of the itinerary shown with it; checked
   baggage gets a warning, and no offer of a hidden-city search (search_routes.py:421-475). *)
THEOREM TicketsHold == Spec => []OffersHold
  <1>1. TypeInv => OffersHold
    BY DEF TypeInv, RequestTyped, OfferTyped, OffersHold
  <1> QED BY <1>1, Invariant, PTL

(* A stale direct fare is compared with or shown only if the request's own refresh failed,
   however the other writers interleave with it (search_routes.py:346-386).  The routes that
   a hidden-city search lists may be stale. *)
THEOREM DirectFareFresh == Spec => []StaleOnlyAfterFailure
  <1>1. IInv => StaleOnlyAfterFailure
    BY DEF IInv, RequestOK, FareOK, StaleOnlyAfterFailure
  <1> QED BY <1>1, Invariant, PTL

(* A document is scored through one of its own hubs, and without a hub it has no score: a
   refresh puts back the hubs and the fields it loaded together (get_live_prices.py:99-144),
   however old they are by then. *)
THEOREM VerdictsFit == Spec => []VerdictFitsHubs
  <1>1. TypeInv => VerdictFitsHubs
    BY DEF TypeInv, DocsTyped, DocTyped, Fits, VerdictFitsHubs
  <1> QED BY <1>1, Invariant, PTL

(* The documents of a finished seed or scrape that are still in place agree on what they save
   over each other, whatever others put meanwhile and however often a destination was listed
   (enricher.py:21-49, run.py:204-212). *)
THEOREM BatchesAgree == Spec => []FinishedBatchAgrees
  <1>1. BatchInv => FinishedBatchAgrees
    BY DEF BatchInv
  <1> QED BY <1>1, Invariant, PTL

(* Of every fare that a seed or scrape has in hand the enricher keeps the hub that saves the
   greatest share (enricher.py:25-46). *)
THEOREM BestHubs == Spec => []BestHubKept
  <1>1. IInv => BestHubKept
    <2> SUFFICES ASSUME IInv, NEW w \in Writer, NEW i \in DOMAIN fares[w]
                 PROVE  LET fare == fares[w][i]
                            verdict == Verdict(fares[w], fare) IN
                        /\ \A j \in DOMAIN fare.hubs :
                              ~Higher(HubScore(fares[w], fare, fare.hubs[j]), verdict.score)
                        /\ verdict.via # NoDest =>
                              verdict.score = HubScore(fares[w], fare, verdict.via)
      BY DEF BestHubKept
    <2>1. PICK F \in Seq(Fare) : F = fares[w]
      BY DEF IInv, WriterOK
    <2>2. F[i] \in Fare
      BY <2>1
    <2>3. BestOf(F, F[i], Len(F[i].hubs), Verdict(F, F[i]))
      BY <2>2, VerdictIsBest
    <2>4. DOMAIN F[i].hubs = 1..Len(F[i].hubs)
      <3>1. F[i].hubs \in Seq(Dest)
        BY <2>2 DEF Fare
      <3> QED BY <3>1
    <2> QED BY <2>1, <2>3, <2>4 DEF BestOf
  <1> QED BY <1>1, Invariant, PTL
=============================================================================
