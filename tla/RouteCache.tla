----------------------------- MODULE RouteCache -----------------------------
(***************************************************************************)
(* The route documents of one origin, and everybody who writes them:       *)
(* the seed, the scrapers (the CronJob, and the one every agent starts on  *)
(* a thread of its own) and the live refreshes of get_live_prices; with    *)
(* the two searches of search_routes for one destination, the plain one    *)
(* and the hidden-city one, which refresh the direct fare themselves when  *)
(* it is missing or stale.                                                 *)
(*                                                                         *)
(* Each put of a document is a transaction of its own and replaces the     *)
(* whole document.  A live refresh loads the document first, to keep its   *)
(* hubs and its hidden-city fields, and puts it back with the new price:   *)
(* in between, a scraper or the other pod may have put another one.        *)
(*                                                                         *)
(* A load sees every put before it.  A query finds documents through an    *)
(* index that RavenDB brings up to date in the background, and reads the   *)
(* ones it found as they are.                                              *)
(***************************************************************************)
EXTENDS HiddenCity

CONSTANTS
    Fixture,      \* the seed's fares, a sequence
    GuessedHub,   \* the hub infer_hub guesses for a destination, NoDest for none
    Scraped,      \* bound: the answers of the scraped API, sequences of tickets; one that
                  \*   lists nothing puts nothing
    Writer,       \* processes or threads that seed and scrape
    Request,      \* the agent's requests that search or refresh
    MaxFound,     \* max_results: fares in one answer of the live API (5)
    MaxBatches    \* bound: seeds and scrapes in a behaviour

Ticket == [dest : Dest, price : Price, transfers : BOOLEAN]

ASSUME RouteCacheAssumption ==
    /\ Fixture \in Seq(Fare) \ {<<>>}
    /\ GuessedHub \in [Dest -> Dest \cup {NoDest}]
    /\ \A d \in Dest : GuessedHub[d] # d
    /\ Scraped \subseteq Seq(Ticket) \ {<<>>}
    /\ MaxFound \in Nat
    /\ MaxBatches \in Nat

VARIABLES
    docs,         \* the Routes documents: a function from their destinations
    index,        \* the hubs of the documents that a query finds, as they were indexed
    batches,      \* seeds and scrapes begun
    seeds,        \* those that are seeds
    finished,     \* those that put all their documents
    id,           \* each writer's seed or scrape, 0 for none
    fares,        \* its fares
    next,         \* the next one to put
    pc,           \* each request's control point
    search,       \* what it searches for: the destination, by which search, carry_on_only
    baseline,     \* hidden-city search: the direct fare it will compare with
    listed,       \* the routes its query found: the destination's own, or through it
    found,        \* the live fares it has still to store: a function from destinations
    existing,     \* the document it loaded for the one in hand
    offers,       \* the hidden-city tickets in its answer
    failed        \* history: the requests that fetched nothing, or one of whose puts failed

writerVars == <<batches, seeds, finished, id, fares, next>>
requestVars == <<pc, search, baseline, listed, found, existing, offers, failed>>
vars == <<docs, index, writerVars, requestVars>>

NoFare == [x \in {} |-> 0]
NoSearch == [real |-> NoDest, plain |-> FALSE, carryOn |-> FALSE]
NoBaseline == [known |-> FALSE, price |-> 0, stale |-> FALSE]
NoDoc == [hubs |-> <<>>, via |-> NoDest, score |-> NoScore]
NoHand == [dest |-> NoDest, doc |-> NoDoc]
InHand(q) == existing[q].dest

Doc == [price : Price, hubs : Seq(Dest), via : Dest \cup {NoDest}, score : Score,
        stale : BOOLEAN, by : 0..MaxBatches]
Route == [dest : Dest, price : Price, hubs : Seq(Dest), via : Dest \cup {NoDest},
          score : Score, stale : BOOLEAN]
Offer == [dest : Dest, hubs : Seq(Dest), via : Dest, warned : BOOLEAN]

TypeOK ==
    /\ DOMAIN docs \subseteq Dest
    /\ \A d \in DOMAIN docs : docs[d] \in Doc
    /\ DOMAIN index \subseteq Dest
    /\ \A d \in DOMAIN index : index[d] \in Seq(Dest)
    /\ batches \in 0..MaxBatches
    /\ seeds \subseteq 1..batches
    /\ finished \subseteq 1..batches
    /\ id \in [Writer -> 0..batches]
    /\ \A w \in Writer : fares[w] \in Seq(Fare) /\ (id[w] # 0 => next[w] \in DOMAIN fares[w])
    /\ pc \in [Request -> {"new", "query", "fetch", "load", "put", "reload", "score", "over"}]
    /\ search \in [Request -> [real : Dest \cup {NoDest}, plain : BOOLEAN, carryOn : BOOLEAN]]
    /\ \A q \in Request :
          /\ baseline[q] \in [known : BOOLEAN, price : Price \cup {0}, stale : BOOLEAN]
          /\ listed[q] \subseteq Route
          /\ DOMAIN found[q] \subseteq Dest
          /\ \A d \in DOMAIN found[q] : found[q][d] \in Price
          /\ pc[q] = "put" => InHand(q) \in DOMAIN found[q]
          /\ offers[q] \subseteq Offer
    /\ failed \subseteq Request

Init ==
    /\ docs = NoFare
    /\ index = NoFare
    /\ batches = 0
    /\ seeds = {}
    /\ finished = {}
    /\ id = [w \in Writer |-> 0]
    /\ fares = [w \in Writer |-> <<>>]
    /\ next = [w \in Writer |-> 1]
    /\ pc = [q \in Request |-> "new"]
    /\ search = [q \in Request |-> NoSearch]
    /\ baseline = [q \in Request |-> NoBaseline]
    /\ listed = [q \in Request |-> {}]
    /\ found = [q \in Request |-> NoFare]
    /\ existing = [q \in Request |-> NoHand]
    /\ offers = [q \in Request |-> {}]
    /\ failed = {}
-----------------------------------------------------------------------------
(* The database. *)

Put(d, doc) == docs' = [x \in DOMAIN docs \cup {d} |-> IF x = d THEN doc ELSE docs[x]]

(* The refresh of a search has put the document, and the search has not read it again: a
   moment, next to the twenty minutes of @expires and the two hours of _STALE_HOURS. *)
JustPut(d) == \E q \in Request : pc[q] = "reload" /\ search[q].real = d /\ q \notin failed

(* The sweep deletes a document that is past its @expires; the seed's have none. *)
Purge(d) ==
    /\ d \in DOMAIN docs
    /\ ~JustPut(d)
    /\ docs[d].by \notin seeds
    /\ docs' = [x \in DOMAIN docs \ {d} |-> docs[x]]
    /\ UNCHANGED <<index, writerVars, requestVars>>

(* Two hours pass since the document was put. *)
Age(d) ==
    /\ d \in DOMAIN docs
    /\ ~docs[d].stale
    /\ ~JustPut(d)
    /\ docs' = [docs EXCEPT ![d].stale = TRUE]
    /\ UNCHANGED <<index, writerVars, requestVars>>

(* The index catches up: what it then holds is the collection as it is. *)
Index ==
    /\ index' = [d \in DOMAIN docs |-> docs[d].hubs]
    /\ UNCHANGED <<docs, writerVars, requestVars>>

RouteOf(d) ==
    [dest |-> d, price |-> docs[d].price, hubs |-> docs[d].hubs, via |-> docs[d].via,
     score |-> docs[d].score, stale |-> docs[d].stale]

(* The routes a query finds: by their destination, or by their hubs.  The documents are
   read as they are, so one whose hubs changed since it was indexed may not have the hub. *)
Indexed == DOMAIN index \cap DOMAIN docs
RoutesTo(d) == {RouteOf(x) : x \in Indexed \cap {d}}
RoutesThrough(hub) == {RouteOf(d) : d \in {x \in Indexed : Contains(index[x], hub)}}

(* _is_stale of any of them. *)
AnyStale(routes) == \E r \in routes : r.stale
-----------------------------------------------------------------------------
(* The seed and the scrapers. *)

BeginBatch(w, batch) ==
    /\ id[w] = 0
    /\ batches < MaxBatches
    /\ batches' = batches + 1
    /\ id' = [id EXCEPT ![w] = batches + 1]
    /\ fares' = [fares EXCEPT ![w] = batch]
    /\ next' = [next EXCEPT ![w] = 1]
    /\ UNCHANGED <<docs, index, finished, requestVars>>

(* seed_if_empty: the fixture routes, if there is no route. *)
Seed(w) ==
    /\ DOMAIN docs = {}
    /\ BeginBatch(w, Fixture)
    /\ seeds' = seeds \cup {batches + 1}

(* _resolve_hubs: a ticket with transfers gets the guessed hub, if there is one. *)
ResolveHubs(t) ==
    [dest |-> t.dest, price |-> t.price,
     hubs |-> IF t.transfers /\ GuessedHub[t.dest] # NoDest THEN <<GuessedHub[t.dest]>> ELSE <<>>]

(* The answer of fetch_cheapest_from for the origin, resolved. *)
Scrape(w) ==
    /\ \E tickets \in Scraped :
          BeginBatch(w, [i \in DOMAIN tickets |-> ResolveHubs(tickets[i])])
    /\ UNCHANGED seeds

(* One enriched document is put. *)
PutNext(w) ==
    /\ id[w] # 0
    /\ LET fare == fares[w][next[w]]
           verdict == Verdict(fares[w], fare) IN
       Put(fare.dest, [price |-> fare.price, hubs |-> fare.hubs, via |-> verdict.via,
                       score |-> verdict.score, stale |-> FALSE, by |-> id[w]])
    /\ IF next[w] = Len(fares[w])
       THEN /\ finished' = finished \cup {id[w]}
            /\ id' = [id EXCEPT ![w] = 0]
            /\ fares' = [fares EXCEPT ![w] = <<>>]
            /\ next' = [next EXCEPT ![w] = 1]
       ELSE /\ next' = [next EXCEPT ![w] = @ + 1]
            /\ UNCHANGED <<finished, id, fares>>
    /\ UNCHANGED <<index, batches, seeds, requestVars>>

(* A put fails or the process dies: the rest of the batch is not put.  (A scraper whose
   fetch fails puts nothing for the origin.) *)
Abandon(w) ==
    /\ id[w] # 0
    /\ id' = [id EXCEPT ![w] = 0]
    /\ fares' = [fares EXCEPT ![w] = <<>>]
    /\ next' = [next EXCEPT ![w] = 1]
    /\ UNCHANGED <<docs, index, batches, seeds, finished, requestVars>>
-----------------------------------------------------------------------------
(* The requests. *)

Goto(q, l) == pc' = [pc EXCEPT ![q] = l]

(* The request ends without an offer. *)
Leave(q) ==
    /\ Goto(q, "over")
    /\ search' = [search EXCEPT ![q] = NoSearch]
    /\ baseline' = [baseline EXCEPT ![q] = NoBaseline]
    /\ listed' = [listed EXCEPT ![q] = {}]
    /\ found' = [found EXCEPT ![q] = NoFare]
    /\ existing' = [existing EXCEPT ![q] = NoHand]
    /\ UNCHANGED offers

BaselineFrom(d) ==
    IF d \in DOMAIN docs
    THEN [known |-> TRUE, price |-> docs[d].price, stale |-> docs[d].stale]
    ELSE NoBaseline

(* search_routes for a destination: the route is queried, and refreshed if it is missing or
   stale. *)
QueryDirect(q, d, carryOn) ==
    /\ pc[q] = "new"
    /\ search' = [search EXCEPT ![q] = [real |-> d, plain |-> TRUE, carryOn |-> carryOn]]
    /\ listed' = [listed EXCEPT ![q] = RoutesTo(d)]
    /\ Goto(q, IF RoutesTo(d) = {} \/ AnyStale(RoutesTo(d)) THEN "fetch" ELSE "score")
    /\ UNCHANGED <<docs, index, writerVars, baseline, found, existing, offers, failed>>

(* search_routes in hidden-city mode: the direct route is loaded ... *)
LoadDirect(q, d, carryOn) ==
    /\ pc[q] = "new"
    /\ Goto(q, "query")
    /\ search' = [search EXCEPT ![q] = [real |-> d, plain |-> FALSE, carryOn |-> carryOn]]
    /\ baseline' = [baseline EXCEPT ![q] = BaselineFrom(d)]
    /\ UNCHANGED <<docs, index, writerVars, listed, found, existing, offers, failed>>

(* A wrong variant of QueryThrough: only a missing direct fare is refreshed. *)
MutQueryThrough(q) ==
    /\ pc[q] = "query"
    /\ listed' = [listed EXCEPT ![q] = RoutesThrough(search[q].real)]
    /\ Goto(q, IF baseline[q].known THEN "score" ELSE "fetch")
    /\ UNCHANGED <<docs, index, writerVars, search, baseline, found, existing, offers, failed>>

(* ... and the routes with the real destination among their hubs are queried, stale or not.
   Only then is a missing or stale direct fare refreshed; the routes never are. *)
QueryThrough(q) ==
    /\ pc[q] = "query"
    /\ listed' = [listed EXCEPT ![q] = RoutesThrough(search[q].real)]
    /\ Goto(q, IF baseline[q].known /\ ~baseline[q].stale THEN "score" ELSE "fetch")
    /\ UNCHANGED <<docs, index, writerVars, search, baseline, found, existing, offers, failed>>

(* get_live_prices called by the model: for one destination, or from the origin to anywhere. *)
Browse(q) ==
    /\ pc[q] = "new"
    /\ Goto(q, "fetch")
    /\ UNCHANGED <<docs, index, writerVars, search, baseline, listed, found, existing, offers, failed>>

(* Nothing is found, or the request fails: the hidden-city search says so and gives up, the
   plain one goes on with what it has. *)
FetchFails(q) ==
    /\ pc[q] = "fetch"
    /\ IF search[q].plain
       THEN /\ Goto(q, "score")
            /\ failed' = failed \cup {q}
            /\ UNCHANGED <<search, baseline, listed, found, existing, offers>>
       ELSE Leave(q) /\ UNCHANGED failed
    /\ UNCHANGED <<docs, index, writerVars>>

Answers(q) ==
    LET asked == IF search[q].real = NoDest
                 THEN {D \in SUBSET Dest : D # {} /\ Cardinality(D) <= MaxFound}
                 ELSE {{search[q].real}} IN
    UNION {[D -> Price] : D \in asked}

Fetch(q, answer) ==
    /\ pc[q] = "fetch"
    /\ Goto(q, "load")
    /\ found' = [found EXCEPT ![q] = answer]
    /\ UNCHANGED <<docs, index, writerVars, search, baseline, listed, existing, offers, failed>>

(* _load_existing_route: any exception reads as if there were no document. *)
LoadExisting(q, d, fails) ==
    /\ pc[q] = "load"
    /\ d \in DOMAIN found[q]
    /\ Goto(q, "put")
    /\ existing' = [existing EXCEPT ![q] =
          [dest |-> d,
           doc |-> IF fails \/ d \notin DOMAIN docs THEN NoDoc
                   ELSE [hubs |-> docs[d].hubs, via |-> docs[d].via, score |-> docs[d].score]]]
    /\ UNCHANGED <<docs, index, writerVars, search, baseline, listed, found, offers, failed>>

(* Wrong variants of Refreshed: the document has no last_updated; its hubs are those of the
   live API's answer, which has none. *)
MutRefreshed(price, old) ==
    [price |-> price, hubs |-> old.hubs, via |-> old.via, score |-> old.score, by |-> 0]
MutRefreshedHubs(price, old) ==
    [price |-> price, hubs |-> <<>>, via |-> old.via, score |-> old.score,
     stale |-> FALSE, by |-> 0]

(* The refreshed document: the new price, and what was loaded. *)
Refreshed(price, old) ==
    [price |-> price, hubs |-> old.hubs, via |-> old.via, score |-> old.score,
     stale |-> FALSE, by |-> 0]

(* On to the next found fare, or after the last one back to the search, if there is one. *)
Stored(q, rest) ==
    IF rest = NoFare /\ search[q].real = NoDest
    THEN Leave(q)
    ELSE /\ Goto(q, IF rest # NoFare THEN "load" ELSE "reload")
         /\ found' = [found EXCEPT ![q] = rest]
         /\ existing' = [existing EXCEPT ![q] = NoHand]
         /\ UNCHANGED <<search, baseline, listed, offers>>

(* A wrong variant of PutLive: only the price and the hubs are put, as a patch. *)
MutPutLive(q, fails) ==
    /\ pc[q] = "put"
    /\ LET d == InHand(q)
           rest == [x \in DOMAIN found[q] \ {d} |-> found[q][x]] IN
       /\ Put(d, IF d \in DOMAIN docs
                 THEN [docs[d] EXCEPT !.price = found[q][d], !.hubs = existing[q].doc.hubs,
                                      !.by = 0]
                 ELSE Refreshed(found[q][d], existing[q].doc))
       /\ UNCHANGED failed
       /\ Stored(q, rest)
    /\ UNCHANGED <<index, writerVars>>

(* _write_to_ravendb: a put that fails is logged, and the refresh goes on as if it had been
   applied. *)
PutLive(q, fails) ==
    /\ pc[q] = "put"
    /\ LET d == InHand(q)
           rest == [x \in DOMAIN found[q] \ {d} |-> found[q][x]] IN
       /\ IF fails
          THEN failed' = failed \cup {q} /\ UNCHANGED docs
          ELSE Put(d, Refreshed(found[q][d], existing[q].doc)) /\ UNCHANGED failed
       /\ Stored(q, rest)
    /\ UNCHANGED <<index, writerVars>>

(* The hidden-city search loads the direct route again, and takes what it finds for fresh. *)
Reload(q) ==
    /\ pc[q] = "reload"
    /\ ~search[q].plain
    /\ IF search[q].real \in DOMAIN docs
       THEN /\ Goto(q, "score")
            /\ baseline' = [baseline EXCEPT ![q] = BaselineFrom(search[q].real)]
            /\ UNCHANGED <<search, listed, found, existing, offers>>
       ELSE Leave(q)
    /\ UNCHANGED <<docs, index, writerVars, failed>>

(* The plain search queries it again: a route the index does not have yet is missing. *)
QueryAgain(q) ==
    /\ pc[q] = "reload"
    /\ search[q].plain
    /\ Goto(q, "score")
    /\ listed' = [listed EXCEPT ![q] = RoutesTo(search[q].real)]
    /\ UNCHANGED <<docs, index, writerVars, search, baseline, found, existing, offers, failed>>

(* hidden_city_score above a half, of the document and without the risks. *)
WorthShowing(score) == 2 * score.num > score.den

(* The hidden-city search offers the routes that are worth it with the risks there are; the
   plain one shows its route whatever it scores, with the ticket its document tells of. *)
TicketsOf(q) ==
    LET carryOn == search[q].carryOn
        Ticketed(r, via) ==
            [dest |-> r.dest, hubs |-> r.hubs, via |-> via, warned |-> ~carryOn] IN
    IF search[q].plain
    THEN {Ticketed(r, r.via) : r \in {x \in listed[q] : WorthShowing(x.score)}}
    ELSE {Ticketed(r, search[q].real) :
              r \in {x \in listed[q] : ShouldSurface(baseline[q].price, x.price, carryOn)}}

Evaluate(q) ==
    /\ pc[q] = "score"
    /\ offers' = [offers EXCEPT ![q] = TicketsOf(q)]
    /\ baseline' = [baseline EXCEPT ![q] = NoBaseline]
    /\ listed' = [listed EXCEPT ![q] = {}]
    /\ Goto(q, "over")
    /\ UNCHANGED <<docs, index, writerVars, search, found, existing, failed>>

(* The pod dies, or the client leaves and the request is cancelled. *)
CutOff(q) ==
    /\ pc[q] \notin {"new", "over"}
    /\ Leave(q)
    /\ UNCHANGED <<docs, index, writerVars, failed>>
-----------------------------------------------------------------------------
Next ==
    \/ \E d \in Dest : Purge(d) \/ Age(d)
    \/ Index
    \/ \E w \in Writer : Seed(w) \/ Scrape(w) \/ PutNext(w) \/ Abandon(w)
    \/ \E q \in Request :
          \/ \E d \in Dest, carryOn \in BOOLEAN :
                QueryDirect(q, d, carryOn) \/ LoadDirect(q, d, carryOn)
          \/ QueryThrough(q)
          \/ Browse(q)
          \/ FetchFails(q)
          \/ \E answer \in Answers(q) : Fetch(q, answer)
          \/ \E d \in Dest, fails \in BOOLEAN : LoadExisting(q, d, fails)
          \/ \E fails \in BOOLEAN : PutLive(q, fails)
          \/ Reload(q)
          \/ QueryAgain(q)
          \/ Evaluate(q)
          \/ CutOff(q)

Spec == Init /\ [][Next]_vars
-----------------------------------------------------------------------------
(* Correctness. *)

(* The hidden-city fields of a document fit its hubs, whoever put it and whatever was put
   while a refresh held an older copy: a route with a score is scored through one of its
   own hubs, and a route without a hub has no score.  The price watch alerts and the
   search annotates on the strength of these fields. *)
VerdictFitsHubs ==
    \A d \in DOMAIN docs :
       /\ docs[d].via # NoDest => Contains(docs[d].hubs, docs[d].via)
       /\ docs[d].via # NoDest <=> docs[d].score.num > 0

(* Once a seed or a scrape has put all it fetched, two documents of it that are still in
   place agree: the score of the one is what its price saves over the other's, although a
   fetch may list a destination several times. *)
FinishedBatchAgrees ==
    \A d \in DOMAIN docs :
       LET via == docs[d].via IN
       /\ via \in DOMAIN docs
       /\ docs[d].by = docs[via].by
       /\ docs[d].by \in finished
       => docs[d].score = ScoreOf(docs[via].price, docs[d].price)

(* The enricher keeps the best of a route's hubs: no hub with a fetched direct fare saves
   a greater share, and the score kept is that of the hub kept. *)
BestHubKept ==
    \A w \in Writer : \A i \in DOMAIN fares[w] :
       LET fare == fares[w][i]
           verdict == Verdict(fares[w], fare) IN
       /\ \A j \in DOMAIN fare.hubs :
             ~Higher(HubScore(fares[w], fare, fare.hubs[j]), verdict.score)
       /\ verdict.via # NoDest => verdict.score = HubScore(fares[w], fare, verdict.via)

(* The direct fare, which the hidden-city search compares with and the plain one shows, is
   fresh unless the search's own refresh failed: the refresh is never skipped, and what is
   read after it is the refreshed fare or a newer one, whoever else puts and deletes the
   document meanwhile.  It says nothing of the routes a hidden-city search lists: those may
   be hours old, and are only marked so. *)
StaleOnlyAfterFailure ==
    \A q \in Request :
       pc[q] = "score" /\ (IF search[q].plain THEN AnyStale(listed[q]) ELSE baseline[q].stale)
       => q \in failed

(* "A >2h-old direct price is treated the same as a missing one - scoring against a stale
   baseline would produce an unreliable hidden-city score" (tests/unit/test_tools.py). *)
NeverScoredStale ==
    \A q \in Request : pc[q] = "score" /\ ~search[q].plain => ~baseline[q].stale

(* "When a single destination (or the hidden-city direct fare) is stale or missing, this
   calls get_live_prices itself and re-reads the refreshed doc" (search_routes.py:8-10): after
   a refresh that succeeded, the search has the route. *)
RereadsRefreshed ==
    \A q \in Request :
       pc[q] = "score" /\ q \notin failed =>
          IF search[q].plain THEN listed[q] # {} ELSE baseline[q].known

(* A ticket that a plain search shows gets off at a hub of the itinerary shown with it,
   although its document may have been put together by a scraper and a refresh; and no
   ticket reaches somebody with checked baggage, whose bags would fly past the real
   destination, unwarned or from a hidden-city search. *)
OffersHold ==
    \A q \in Request : \A o \in offers[q] :
       /\ search[q].plain => Contains(o.hubs, o.via)
       /\ ~search[q].carryOn => search[q].plain /\ o.warned
=============================================================================
