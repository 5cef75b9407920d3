# Verification of the hidden-city flight agent

This directory is a TLA+ verification project for the sample in this repository: a
conversational agent that finds hidden-city fares (tickets whose layover is where the
traveller really wants to go), with RavenDB as its database and its message channel. The
modules are written from the code under `src/`; where a comment, a document or a test says
something else, the modules follow the code and the difference is one of the findings below.
Line numbers in the text are of the files under `src/` of the repository.

- [The system](#the-system): parts, state, operations, interactions, what is hard
- [The modules](#the-modules): what models what, and how
- [The runs](#the-runs): what TLC checks, the bounds, the fairness
- [The proofs](#the-proofs): what TLAPS proves, from what, and along which argument
- [Findings](#findings)
- [What is not modelled](#what-is-not-modelled) and [the plan](#the-plan)

To repeat the checks:

    tlc -workers 2 -config pricewatch.cfg MCPriceWatch      # any run of the table below
    tlapm PriceWatchProofs.tla                              # any module of proofs

## The system

One RavenDB database is shared by three kinds of process. `k8s/` deploys two agent pods, one
worker and a scraper job every six hours; every agent pod also runs the scraper once on a
thread of its own when it starts.

| part | state it keeps | operations |
|---|---|---|
| **Price watch worker** `worker/run.py` | `pricewatchstate` documents (last price seen of each route), `PriceAlerts` documents, the subscription's cursor in RavenDB | open the subscription; handle a batch in one session: load one state per item, compare, save states and alerts at once; be acknowledged; die and be restarted |
| **Conversation turn** `agent/loop.py`, `agent/app.py` (`/chat`, `/chat/stream`), `tools/dispatcher.py` | the messages of the turn, its iterations, its token budget | load the context, fast path, ask the model, run its tool calls, cut their results, reply, store the exchange |
| **User documents** `tools/save_conversation.py`, `update_user_profile.py`, `user_attachments.py` | the `Sessions` document (turns, constraints) and the `Users` document (profile lists, attachments) | append an exchange, merge constraints, learn a value, save the form, create the document for an upload |
| **Route cache** `tools/search_routes.py`, `tools/get_live_prices.py`, `scraper/run.py`, `scraper/travelpayouts.py`, `db/expiration.py` | `Routes` documents with their price, hubs, hidden-city fields, `last_updated` and `@expires` | seed, scrape and put; load, refresh and put back; expire; search for hidden-city fares, refreshing a missing or stale direct fare first; search for a destination, refreshing its route and showing the ticket its document tells of |
| **Hidden-city scoring** `hidden_city/scorer.py`, `enricher.py` | none | the share saved, the threshold with the risks, the best hub of a fetched fare |
| **Hub inference and geography** `scraper/hub_inference.py`, `db/geo.py`, `tools/resolve_airports.py` | none | guess the hub of an itinerary; nearby airports; resolve names |
| **Database bootstrap and seed** `db/seed.py`, `db/expiration.py`, `db/client.py` | the database record, the `Airports` collection, the fixture routes | create the database or lose the race to create it; enable expiration; seed what is empty |
| **Alert fan-out** `agent/app.py:118-182` | per pod: a subscription, a thread, the connected websockets | receive alerts on the thread, schedule a broadcast on the event loop, drop dead sockets |
| **Agent startup and key setup** `agent/app.py` | per-process flags, `.env` | start-up checks; accept and store API keys |
| **Pages** `chat/index.html` | in the browser | one send at a time, accumulate the deltas of a stream, reconnect the websocket |
| **Tool definitions, prompts, read-only endpoints** | none | data |
| **Kubernetes deployment** `k8s/` | | numbers of processes, restarts |

How they interact:

- **Through documents.** Scrapers, seeds and live refreshes write `Routes`; the price watch
  is sent the changed ones with a score above 0.5 by a RavenDB data subscription, and writes
  `PriceAlerts`; each agent pod has a subscription on those and broadcasts them to its
  browsers. Nobody uses optimistic concurrency: a put replaces the whole document.
- **Through calls.** `/chat` and `/chat/stream` run the loop; the loop calls tools through the
  dispatcher; `search_routes` calls `get_live_prices`, which writes the route cache.
- **On one event loop per pod.** The RavenDB client is synchronous, so a load and a put with
  no `await` between them are atomic *inside* one pod, and only there. A live refresh awaits
  an HTTP answer before its load and its put; the scraper and the alert subscription run on
  threads.

What is hard, and what correctness means for each part (the complete list, line by line, is
`hazards` in `PROJECT.json`):

- *Price watch.* At-least-once delivery: crashes between the save and the acknowledgement, an
  old worker that still handles a batch while a new one is connected, versions overwritten
  while a batch is in flight, the session's request cap, ids with a resolution of one second.
  Correct: nothing is acknowledged without having been compared; an alert is a real drop; no
  version is alerted about twice; the watcher always catches up.
- *Turn.* An unreliable model, tools and client, with two endpoints that fail differently.
  Correct: the loop keeps the turn's budget over all its calls; every tool call is answered;
  the client learns one outcome, and it agrees with what was stored; every turn ends.
- *User documents.* Read-modify-write without concurrency control by requests of two pods, either
  of which may die. Correct: no exchange, constraint or learned value is lost of a document that
  two pods did not update at once; whatever they did, what is left is never torn, repeated or
  reordered.
- *Route cache.* Whole-document puts by scrapers that may stop half-way, interleaved with
  refreshes that carry a copy over an interval, a silently failing put, age and expiry.
  Correct: a document's hidden-city fields fit its own hubs; a completed scrape agrees with
  itself; the direct fare that a search compares with, or shows, is stale only if its own refresh
  failed; a ticket that is shown gets off at a hub of its own itinerary, and reaches somebody with
  checked baggage only with a warning.
- *Bootstrap.* Every process may be first, RavenDB may not be up yet or go away again, attempts fail
  after the server has carried them out, processes die half-way through a seed. Correct: who goes
  on has a database with expiration; the airports are complete and live fares are not
  overwritten, but for the two races that the code leaves; everybody gets to work.
- *Alert fan-out.* A thread that acknowledges what it has only scheduled, coroutines that overlap
  at every send, sockets that fail, close and come under them, a thread that ends for ever.
  Correct: an acknowledged alert is not lost for a browser that stays connected, none is shown
  again unless an acknowledgement was lost, and each is shown as long as the thread lives.

## The modules

    AlertLedger                   what the price watch promises (abstract)
      ^ implemented by
    PriceWatch  <-- MCPriceWatch  worker, subscription, writers, failures
      ^ PriceWatchProofs  <-- PriceWatchLedgerProofs

    TurnContract                  what a turn promises (abstract)
      ^ implemented by
    AgentTurn                     one conversation turn (its own TLC module)
      ^ AgentTurnProofs

    UserDocuments <-- MCUserDocuments   Sessions and Users, pods and requests
      ^ UserDocumentsProofs

    HiddenCity                    scorer and enricher, pure operators
      ^ HiddenCityProofs
      ^ extended by
    RouteCache  <-- MCRouteCache  seeds, scrapers, live refreshes, the two searches
      ^ RouteCacheProofs  (also extends HiddenCityProofs)

    AlertFanout                   one agent pod's alerts and websockets (its own TLC module)
      ^ AlertFanoutProofs

    Bootstrap                     database and seeds (its own TLC module)
      ^ BootstrapProofs

`map` in `PROJECT.json` gives the lines each definition stands for.

### PriceWatch and AlertLedger

`PriceWatch` has the route documents reduced to what the worker reads: `price`
(`typical_price.min`), `hot` (score above 0.5) and `ver`, the etag of the last write. RavenDB's
subscription is modelled from how the worker uses it: `cursor` is the acknowledged etag,
`holder` the one connected worker, and `Deliver` sends every matching document above the cursor
*as it is now*, with `upTo`, the etag that the acknowledgement will acknowledge.
The client of the subscription works with batches of 4096 documents; the bounds stay below it.

| code | model |
|---|---|
| `run()`: `ensure_database`, `_ensure_subscription`, `worker.run` with `WAIT_FOR_FREE` | `Start`, `Open` |
| one turn of the loop of `_handle_batch`: `session.load(state_id)`, the comparison, `session.store(alert)` | `LoadState(w, r)` (one request each; `compared` keeps the price loaded and the second of `created_at`) |
| `session.save_changes()` | `Save`: states and alerts in one transaction; `PutAlerts` overwrites an existing id |
| the 31st request of a session raises | `ExceedRequests` |
| the client acknowledges after the handler returned | `Ack`, or `Reconnect` when the connection was lost meanwhile |
| a pod is killed; a connection drops | `Crash`, `LoseConnection`; a handler goes on without its connection |
| writers, expiration, time | `Publish`, `Purge`, `ExpireAlert`, `Tick` |

`published`, `seenVer` and `alerted` are history variables; no guard reads them. `Purge` leaves
the state document behind, as the code does (it has no `@expires`). An alert document has one of
`AlertTTL` seconds, the hour of `ALERT_TTL_MINUTES`, and may be deleted from then on (`ExpireAlert`).

`AlertLedger` is the promise without machinery: routes are published in numbered versions,
the watcher observes newer and newer versions, several routes at once, and alerts exactly when
the observed price is below the one observed before. The refinement mapping is the identity on
`published`, `seenVer`, `lastPrice` and `alerted`: `Save` is `Observe` or a stutter (a redelivered
batch that was already committed), `Publish` is `Publish` or a stutter (a write that is no
candidate), and everything else is a stutter.

### AgentTurn and TurnContract

One variable set for both endpoints, told apart by `mode`: the loops of `run_agent` and
`stream_agent` are the same but for how an empty reply, an error and the end are reported. The
model is the environment: in any request, the first one included, it may stop, ask for up to
`MaxCalls` tools (or for none at all, which is a message and another request), be cut off
(`AskAgain`: any other finish reason), or fail. `tool_choice = "required"` is a wish to the model; the
code takes whatever finish reason comes. A tool is the length of its serialised result;
`dispatch_tool` turns whatever a tool raises into a result, but bad JSON and unknown names raise
outside its boundary (`BadCall`). `Remaining`, `CutSize` and `Answer` are the arithmetic of the
token budget with its integer divisions and the mark a cut result ends with. `prompted` is
what the tool results in the messages of the next request cost: the fast path's result, which goes
into the user's message uncut and uncounted, and is left behind when the loop takes over; then what
the loop has appended. `Persist(written,
raises)` is the one write after the reply, which may fail with or without having been applied, and
`Respond` the step after it in which the client learns of it: the status of `/chat`, or a stream's `error`.
`CutOff` is the death of the pod at any point, also between the two, or a client that leaves a stream.
The grounding and egress measurements are logging and left out.

`TurnContract` is a turn without machinery: a bounded number of requests to the model, one reply or
one refusal, an exchange recorded at most once and only after its reply, and nothing done once
the turn is closed. Its `prompt` turns (the stream) tell the client before they record and add an error
if that fails; the others (`/chat`) tell it in a step of its own (`Tell`) after recording (`Record`). A turn may
be abandoned between the two: recorded, and nobody told. The refinement mapping at the end of `AgentTurn`:
`asked` is `iteration`; `phase` is *closed* at `over`, *settled* at `answer`, *replied* at `persist`, *open* before; `told` is
the terminal events of a stream, or the status of `/chat` as a one-element sequence; `recorded` is `stored = 1`.
The fast path, the tool calls and the cut results are stutters, or requests to the model.

### UserDocuments

The two documents of one user, and requests of three kinds. `Load` and the put that follows
(`PersistTurn`, `UpdateConstraints`, `UpdateProfile`, `SaveDetails`, `EnsureUserDoc`) are the two
round trips of each update. `loop[p]` is the request that holds the event loop of pod `p`: no
other request of the pod runs between a load and its put, because both are synchronous calls;
requests of another pod do. `raced` is a history variable: the documents of which an update was loaded while
the other pod was between the two halves of one. `Crash(p)` is the death of a pod with the requests
it serves, at any point, half-way through an update included. A list field of the profile is a
sequence of words in a spelling; `AddValue` keeps the first spelling of a word as `_merge_list` does, which merges
the values of a call one after the other before the one put. The form puts the list it is sent as it is,
a word in two spellings included: nothing between the page and the document removes it. A turn's exchange is two
entries. Constraints are a set of values told apart by the request that reported them (the
code merges a dictionary; two requests that write the same key are not told apart from two that
do not, as each overwrites on purpose).

### HiddenCity and RouteCache

`HiddenCity` holds the pure part: the score as an exact fraction `[num, den]` where the code
uses floating point, the threshold (a half, times the baggage multiplier, in tenths), the
dictionary of fetched direct fares in which the last of several counts, and the loop that picks
the best hub: `Better` is one turn of it, `Verdict` what it ends with, a recursive function over
the hubs. `RouteCache` extends it with the documents of one origin: `docs` is a function
from the destinations that have a document.

| code | model |
|---|---|
| `seed_if_empty`'s routes | `Seed`, then `PutNext` for each document |
| `run` for the origin: fetch, `_resolve_hubs`, enrich, put one by one | `Scrape`, `PutNext`; `Abandon` when it dies or a put fails |
| `get_live_prices`: HTTP, then for each result `_load_existing_route` and `_write_to_ravendb` | `Browse`/`Fetch`/`FetchFails`, `LoadExisting(q, d, fails)`, `PutLive(q, fails)`: both swallow exceptions |
| `search_routes` in hidden-city mode | `LoadDirect`, `QueryThrough`, then if the direct fare is missing or stale the actions above, `Reload`, and `Evaluate` |
| `search_routes` for a destination | `QueryDirect`, then if the route is missing or stale the actions above (after a failing fetch it goes on with what it has), `QueryAgain`, and `Evaluate`, which shows the route with the ticket of its document, if its score is above a half |
| `@expires` and the two hours of `last_updated` | `Purge`, `Age`; seeded documents have no expiry |

`by` says which seed or scrape put a document (0 for a live refresh), and `failed` which requests
fetched nothing or had a put fail: history that `FinishedBatchAgrees` and `StaleOnlyAfterFailure`
need. `stale` is what the code computes from `last_updated`. `Age` and `Purge` do not strike between the put of a search's own refresh and the read that
follows it (`JustPut`): neither two hours nor the twenty minutes of `@expires` pass between them.
At any other time a document may be purged. A comment says that `@expires` applies at query time
whatever the sweep does (`db/expiration.py:13-15`); no code does that, and no property relies on it or on its opposite.

A load sees every put before it; a query does not: RavenDB answers it from an index that it brings up to
date after a put has returned. `index` is the hubs of the documents as they were when it last did
(`Index`, at any time). A query finds what is indexed and reads the documents it found as they are, so
each of them may lag: one that is new is missed, and one that a query by hub finds may have lost that
hub since.

`listed` is what the query of a search found. The routes that a hidden-city search lists are compared with
the direct fare and shown however old they are; the code refreshes the direct fare only and marks the others
`stale`. So `StaleOnlyAfterFailure` is about the direct fare, and nothing is claimed of the listed routes' ages.
A plain search shows a ticket (`hidden_city`: the hub, the risks) on the strength of its document's own
score, also to somebody with checked baggage, with the risk named (`warned`); the hidden-city search shows
only what is worth it with the risks there are. `OffersHold` says what both owe their readers.

### AlertFanout

One agent pod: each has a subscription named after its host, so pods share nothing but the
`PriceAlerts` documents. A document is its etag (`version`, 0 when there is none); the worker
raises alerts into documents, new or old, and RavenDB deletes them after an hour.

| code | model |
|---|---|
| the startup handler starts the thread; the thread creates its subscription | `Startup`, `CreateSubscription` |
| an exception that the thread logs and returns from | `End`, after which nothing starts it again |
| a batch of the subscription; `_handle_batch` | `Deliver`, `Schedule` for each alert, `Ack` or `AckLost` |
| `run_coroutine_threadsafe(_broadcast_alert(...))` | `scheduled`, the queue of the event loop |
| `_broadcast_alert`: the copy of the set, one awaited send after another, the discards | `Begin`, `Send(i, s, raises)`, `Finish(i)`; several broadcasts are under way at once and interleave at every send |
| the websocket's handler | `Connect`, `Disconnect` |
| the browser, and the death of the pod | `Leave`, `Restart`: the same pod keeps its host name and cursor, a new one has neither |

The other end of a socket is *open*, *gone* (the browser has left and the handler does not know),
or *over*. A send to an open client arrives, one to a client that is gone may raise or vanish,
and one to a socket that is over raises. `since` and `shown` are the history of an open client.
A socket's identity is used once, as the code makes a new `WebSocket` for each connection.

### Bootstrap

`Agent` processes make sure of the database and seed it, `Job` processes (worker, scraper) only make sure of it.

| code | model |
|---|---|
| one attempt of `ensure_database` | `Create`; `LoseRace` (a `ConcurrencyException` is success); `Retry` (any other exception, before or after the server has created the database) |
| the deadline | `TimeOut` after `MaxTries` attempts: the process ends with the error |
| `ensure_expiration_enabled` | `EnableExpiration` |
| `seed_if_empty` | `AskAirports`, `PutAirport` for each airport, `AskRoutes`, `PutRoute` for each fixture |
| live fares of scrapers and searches; their expiry | `PutLive`, `Purge` |
| an exception outside the retries; a killed pod; Kubernetes | `RequestFails`, `Die`, `Start` |

`reachable` toggles at any time. `cut` (an agent ended in the middle of the airports), `crossed` (a
live fare came in while fixtures were being put) and `replaced` (a fixture was put over a live fare) are
history variables, which say precisely when the seed leaves less than it should: a collection of
airports that was cut short is never completed, because the next start finds it not
empty; and a fixture replaces a live fare only in that race.

## The runs

| run | module, configuration | expects | shows |
|---|---|---|---|
| `pricewatch` | MCPriceWatch, `pricewatch.cfg` | pass | One worker with a crash or a lost connection at any point implements the ledger (`LedgerSpec`); alerts are real drops (`AlertIsARealDrop`), in order and once (`AlertedInOrder`); each is stored until it expires or a newer one of its second overwrites it (`NewestAlertStored`); every candidate is caught up with (`CatchesUp`) |
| `pricewatch_takeover` | MCPriceWatch, `pricewatch_takeover.cfg` | pass | Two overlapping workers and batches over the cap: still nothing is acknowledged unseen (`NoVersionSkipped`), an alert compares two versions that were published and committed as seen (`AlertComparesSeen`), and a version is alerted about again at most as often as something failed (`RepeatedOnlyOnFailure`) |
| `pricewatch_cap` | MCPriceWatch, `pricewatch_cap.cfg` | violation of `CatchesUp` | finding 1 |
| `turn` | AgentTurn, `turn.cfg` | pass | The budget of the loop (`BudgetKept`), its protocol with the model (`EveryCallAnswered`), the turn's one outcome (`OneOutcome`), which agrees with the session document (`StoredIsAnswered`), its end (`TurnEnds`), and that it implements the contract of a turn (`ContractSpec`) |
| `turn_budget` | AgentTurn, `turn_budget.cfg` | violation of `WholeTurnBudget` | finding 2 |
| `userdocs` | MCUserDocuments, `userdocs.cfg` | pass | On two pods, one of which may die, nothing is lost of a document they did not update at once (`TurnsKept`, `ConstraintsKept`, `LearnedKept`); whatever they did, the turns are whole exchanges that were put, in order and once (`TurnsAreWritten`), and the list is one that a form put followed by learned words that were new to it (`ListGrownFromForm`) |
| `userdocs_lost` | MCUserDocuments, `userdocs_lost.cfg` | violation of `NeverDropped` | finding 3 |
| `routecache` | MCRouteCache, `routecache.cfg` | pass | Hidden-city fields fit the hubs (`VerdictFitsHubs`), a finished scrape agrees with itself (`FinishedBatchAgrees`), the best hub is kept (`BestHubKept`), the direct fare compared with or shown is stale only if the search's own refresh failed (`StaleOnlyAfterFailure`), tickets get off at a hub of their itinerary and come with a warning for checked baggage (`OffersHold`) |
| `routecache_stale` | MCRouteCache, `routecache_stale.cfg` | violation of `NeverScoredStale` | finding 4 |
| `routecache_index` | MCRouteCache, `routecache_index.cfg` | violation of `RereadsRefreshed` | finding 5 |
| `alerts` | AlertFanout, `alerts.cfg` | pass | An acknowledged alert has reached, or will, each browser that was there before it and still is (`NothingMissed`); it comes again only after a lost acknowledgement or a restart (`RepeatedOnlyOnLoss`); every browser that stays connected is shown the newest alert of a document, unless the thread has ended or the alert expires first (`SeenUnlessEnded`) |
| `bootstrap` | Bootstrap, `bootstrap.cfg` | pass | Who goes on has a database with expiration (`EnsuredMeansThere`); airports are complete (`AirportsComplete`) and live fares kept (`FaresKept`) but for the two races above; once RavenDB stays reachable, whoever has started gets to its work (`GetsToWork`) |

Deadlock checking is off in all of them: the bounded writers stop, a turn and a request end,
and the system is then at rest. Symmetry is used where no liveness property is checked and the
values are only compared for equality: routes and workers in `pricewatch_takeover`; requests,
pods, words and spellings in the runs of `UserDocuments`.

Every property of a passing run has a mutant in `PROJECT.json`: a definition next to the one it
replaces (`MutAckEverything` beside `Ack`), wrong in the way a plausible slip in the code would be, with
which the run finds the property violated.

### Bounds, and why they are enough

- *Price watch.* `MaxWrites = 3` versions over two routes and three prices give a first
  sighting, a drop, and a second change or an overwritten version; a drop, a rise and the same price again; a batch of
  two routes while a third write arrives. One failure reaches each point at which the handler
  can be interrupted, and the redelivery that follows. `MaxClock = 1` gives two alerts in one second or in two,
  and with `AlertTTL = 1`, which stands for the hour, the first of them may expire while others are raised. `MaxRequests` stands for 30: with two routes, 3 is a cap that is never met
  and 2 one that is. In `pricewatch_takeover` the one
  failure lets an old handler and a new one hold the same version, which is what it takes to alert twice.
  Everything but `CatchesUp` is proved for all values.
- *Turn.* `Budget = 5` tokens with results of 3, 8, 12 and 40 characters: free (below one
  token), within the budget, a large part of it, and more than all of it. `Suffix = 14` is
  the code's. Four iterations and three calls reach the limit and every order of a cut result
  before, between and after others. Proved for all values, liveness excepted. `turn_budget` needs one
  result above the budget on the fast path and nothing of the loop.
- *User documents.* Three requests, each of any kind and on either pod: a race of two and a
  bystander whose update may be the one that is lost, or the one that shows that a document that was
  not raced for loses nothing. One pod dies at any point. Two words in two spellings are what
  `_merge_list` tells apart. `FormList` bounds what the form submits: an empty field, one entry, and a word in two
  spellings, the case in which it stores a duplicate. All six properties are proved for all values.
- *Route cache.* Two hubs and one destination behind them; prices 1, 2 and 4, so that a saving
  is below, at and above a half and the minimum of 2; the four scraped answers include a
  hub before, after and not beside its decoy and a destination listed twice, with different prices.
  Two batches and one request, a search of either kind or a refresh, interleave at
  every put and with the index. `VIEW Seen` leaves `index` out of a state once no request will query
  again: nothing reads it from then on and no property mentions it, so states that differ in it only
  have the same future. All six properties are proved for all values. `routecache_index` needs no batch: the request is alone with its index.
- *Alert fan-out.* An alert and another one over it in the same document, and two sockets: two broadcasts
  overlap while one socket stays and the other fails, leaves or comes. One failure is a lost
  acknowledgement or a restart at any point. The safety properties are proved for any number of
  documents and alerts, so that the run can spend its bounds on `SeenUnlessEnded`.
- *Bootstrap.* Two agents and a job: a winner, a loser of the race, and one who needs the database without seeding. Two
  attempts, the first of which may have been carried out; two airports and two fixtures, so that a seed has a middle; one death
  at any point, besides any number of ends by an unreachable database. The three safety properties are proved for all values.

### Fairness

Five runs check a liveness property (`pricewatch`, `pricewatch_cap`, `turn`, `alerts`, `bootstrap`),
under weak fairness only.

- `WF_vars(WorkerStep(w))` in `PriceWatch`: Kubernetes restarts a pod that exited and the client library
  keeps its loop going; `LoseConnection` and `Crash` are not fair and bounded, since a worker that
  dies for ever catches up with nothing.
- `WF_vars(Turn)` in `AgentTurn`: the event loop resumes a handler, and every request has a timeout that
  raises; `CutOff` is not fair.
- `WF_vars(Thread)` and `WF_vars(Loop)` in `AlertFanout`: the alert thread and the event loop run on, and
  a send to a client that has vanished ends because the server pings its sockets and closes those
  that do not answer; `End`, `AckLost`, `Restart` and the browsers are not fair. That the thread may `End` at any time is why
  `SeenUnlessEnded` has its second half: the comment "a browser connected to either pod's
  websocket sees every alert" (`agent/app.py:124`) holds only while it lives, and `/health` does
  not tell.
- `WF_vars(Step(p))` and `WF_vars(Restart(p))` for each process of `Bootstrap`: a process that runs gets on, and Kubernetes
  starts one again that ended. A process that was never started owes nobody a start, and RavenDB owes nobody its coming up:
  `GetsToWork` presupposes that it is reachable from some time on, and nothing else. `Die` is not fair and bounded.

## The proofs

All values of the constants, under the assumptions named in the modules
(`PriceWatchAssumption`, `AgentTurnAssumption`, `UserDocumentsAssumption`, `HiddenCityAssumption`, `RouteCacheAssumption`,
`AlertFanoutAssumption`, `BootstrapAssumption`: prices, caps and bounds are natural numbers, counts of what is
seeded are positive, `NoPrice`, `NoWorker`, `NoRequest` and `NoDest` are not among the values they stand beside).

| module | theorem | establishes |
|---|---|---|
| PriceWatchProofs | `TypeCorrect` | `Spec => []TypeOK` |
| PriceWatchProofs | `NothingSkipped`, `NewestIsStored` | `[]NoVersionSkipped`, `[]NewestAlertStored`, for any number of overlapping workers |
| PriceWatchProofs | `AlertsCompareSeen`, `RepeatsNeedFailures` | `[]AlertComparesSeen`, `[]RepeatedOnlyOnFailure`, for any number of overlapping workers |
| PriceWatchLedgerProofs | `Refinement` | with a single worker, `Spec => LedgerSpec` |
| PriceWatchLedgerProofs | `AlertsAreRealDrops`, `AlertsInOrder` | with a single worker, `[]AlertIsARealDrop`, `[]AlertedInOrder` |
| AgentTurnProofs | `TypeCorrect`, `BudgetHolds`, `CallsAnswered`, `OneOutcomeHolds`, `OutcomeAgrees` | `[]TypeOK`, `[]BudgetKept`, `[]EveryCallAnswered`, `[]OneOutcome`, `[](OneOutcome /\ StoredIsAnswered)` |
| AgentTurnProofs | `Refinement` | `Spec => ContractSpec` |
| UserDocumentsProofs | `TypeCorrect` | `[]TypeOK` |
| UserDocumentsProofs | `NoTurnLost`, `NoConstraintLost`, `NothingLearnedLost` | `[]TurnsKept`, `[]ConstraintsKept`, `[]LearnedKept` |
| UserDocumentsProofs | `GrowsFromForm`, `TurnsDrawn` | `[]ListGrownFromForm`, `[]TurnsAreWritten`, for any number of pods |
| HiddenCityProofs | `VerdictIsBest` | what the enricher computes for a fare is `BestOf` its hubs |
| RouteCacheProofs | `TypeCorrect` | `[]TypeOK` |
| RouteCacheProofs | `TicketsHold`, `DirectFareFresh` | `[]OffersHold`, `[]StaleOnlyAfterFailure` |
| RouteCacheProofs | `VerdictsFit`, `BatchesAgree`, `BestHubs` | `[]VerdictFitsHubs`, `[]FinishedBatchAgrees`, `[]BestHubKept` |
| AlertFanoutProofs | `TypeCorrect`, `NothingIsMissed`, `RepeatsBounded` | `[]TypeOK`, `[]NothingMissed`, `[]RepeatedOnlyOnLoss` |
| BootstrapProofs | `TypeCorrect`, `EnsuredThere`, `AirportsAreComplete`, `FaresAreKept` | `[]TypeOK`, `[]EnsuredMeansThere`, `[]AirportsComplete`, `[]FaresKept` |

**No version is skipped.** The property relates the cursor to what was committed, and is not
inductive: nothing in it says what a batch in flight contains. The invariant adds
`DocInv` (versions do not exceed the database's etag), `HolderInv` (who is connected, and at
which point of its handler), `UpToInv` (what a batch will acknowledge is not beyond the etag), `BatchInv` (a
candidate that is above the cursor and not above what the holder's batch acknowledges is in the
batch with that version, whatever was written since) and `SavedInv` (once a batch is
saved, each of its versions is covered by `seenVer`). The step that matters is `Ack`: a
candidate between the cursor and `upTo` was sent, hence saved, hence compared. Overlapping workers
do not disturb it because only the holder acknowledges: a worker that lost the subscription may
still save what it compared, but cannot acknowledge it, and asks for the subscription again.

**The ledger.** With one worker (`SingleWorker`) the handler's copies of the last prices are current,
a batch's versions are published ones, and a version that was already committed carries the
price that is in the state document; so a redelivered batch changes nothing and `Save` is one
`Observe` of the newer versions. The two alert theorems follow from an invariant of the same module. With two workers this
is false (both may alert about one drop), which is why the refinement is claimed, checked and
proved for the deployed single worker only.

**What survives of it with several workers.** `EvidenceInv` follows a price through the system: candidates and batches hold
published versions; a watch state, and what a handler loaded from it, is the price of a version that a commit had
covered. Nothing is unpublished and `seenVer` never goes back (`CommittedStays`), so a handler may
save long after it loaded, with another worker's commits in between, and still compares two real
versions. Which of them is the older is lost: that is what needs the single worker.
How often a version is alerted about is a count. `ClaimInv` says that the alerts about a version and the handlers that
may still raise one are together at most the failures, and one more while the version is `HandedOut`: acknowledged, or in the batch
of the connected worker. `Deliver` adds a handler to a version that was not handed out;
`Save` turns a handler into an alert; `Ack` keeps the version handed out (`CoverInv`: no batch holds more than its
acknowledgement passes); `ExceedRequests` takes the handler away together with the batch. Only
`LoseConnection` and `Crash` free the version while a handler or an alert about it remains, and each of
them is a failure. A subscription that is taken over without one breaks it (`MutOpen`), which is what `WAIT_FOR_FREE` is for.

**A turn.** `LoopInv` says that `answered` and `todo` add up to `calls` in the middle of a message,
that recorded exchanges are complete and that `used` exceeds the budget by at most the marks of the cut results; the arithmetic lemmas
on `\div` bound what one result adds. `PromptInv` says that a request of the loop carries no more than `used`: what the fast path pasted
is gone. `ClientInv` ties the control point, the events and
status sent, the write and the cause to each other. The refinement needs both: `RepliedInv` says what a client of either
endpoint has been told when the write is due, `AnswerInv` what has been told and written when the answer is; the write
is then one `Record`, and the answer one `Tell`: a client is left with `done` alone only if the write was applied.
A death in between is an `Abandon`.

**Nothing is lost of a document that was not raced for.** `HoldInv` says of every request that is between the halves of
an update that its copy is of the right document (`HeldOK`), that it is alone in that (`Alone`) and that its
copy is the current document (`Fresh`), the last two unless the document is in `raced`. Two requests of one pod
cannot both hold its event loop, and a request of another pod that loads meanwhile puts the document into
`raced`; so a put that is not raced for replaces what it was made from. A crash only drops copies.
What holds with races needs less: each copy's list, too, has grown from one that a form has put, which stays
in `submitted` whoever overwrites it; and each copy's turns, too, are
drawn from the history, to which a put appends its exchange both here and there.

**A stale fare is judged by only after a failure.** The invariant follows a search from its load to the comparison:
past the refresh (`PutFresh`) the document of the wanted destination is there and fresh, because every put,
the scrapers' included, leaves a fresh document. `OneFare` says that the refresh is about that destination and
nothing else. The listed routes are not part of it.

**Tickets hold.** A ticket of a plain search gets off where its document says, and a document with a score above a half
says so of one of its own hubs: that is `Fits` (below), of the route as it was listed. The warning is in what
`Evaluate` makes of it. For the hidden-city search it comes down to arithmetic: the multiplier leaves a fifth of the saved
share, which is less than a half whatever the saving, so whoever has checked baggage gets no ticket there.

**The enricher keeps the best hub.** The loop is over a list of any length, so this takes an induction. The library's induction
rules have an operator as a parameter, which no prover here instantiates; but that the natural
numbers are well founded needs none (`NatLessThanWellFounded`), nor does that a set of them has a minimal
element (`WFMin`). `Climb` draws from the two that a set with 0 and the successor of each of its elements up
to `L` has them all, and is used for the set of the `n` after which the loop stands well. It shows that a set of
positions has a last one (`LastOne`, hence `DirectFare`: the dictionary has the last fare listed), that the loop can be run to its
end (`LoopRuns`), and that what it then has is `BestOf` the hubs: one of them, with its own score, none higher,
or none at all if none saves anything. One turn keeps that because "saves no greater share" is transitive (`HigherStill`, products of positive
numbers).

**Hidden-city fields fit the hubs.** `TypeInv` says of every document, and of every copy that a refresh holds between
its load and its put, that its verdict fits its own hubs (`Fits`). A refresh puts back hubs and verdict as it loaded them,
together; so the older copy it may put over a newer document is at odds with nothing but the price. For what the
scrapers put it is `VerdictIsBest`.

**A finished batch agrees with itself.** The property is about two documents that were put at different times, with puts of
others in between. `BatchInv` says of a seed or scrape under way (`SoFar`) that every document that still bears its number is the last listed so far of its
destination, with the price it was listed at and the verdict of *all* its fares; that no two writers share a number, and no
document has one that is still to come. A put of a later fare to the same destination replaces the earlier
(`SoFarGrows`), anybody else's put takes a document out (`SoFarStays`); at the last put "so far" is everything, and the last fare listed
is the one in the enricher's dictionary (`LastCounts`).

**The bootstrap.** `EnsuredThere`: who enables expiration has seen the database or created it, and nothing undoes either.
`AirportsAreComplete` needs to know of an agent in the middle of its seed that the airports before the one in hand are
there, and that a non-empty collection which is not complete has somebody at it or somebody who was cut.
`FaresAreKept`: unless `crossed`, no route is live while an agent puts fixtures, because it began when there was none.

**Alerts are stored.** An id holds the route and the second, so what a `Save` overwrites is an older alert of the same route
and second; `ExpireAlert` takes only what is past its `@expires`, which is `AlertTTL` after the second in the id. So an alert
that is neither past it nor the older of two with one id keeps its document.

**No alert is missed.** `NothingMissed` speaks of what is acknowledged; a step that acknowledges a batch
needs the same of the batch. `BatchInv` says it: what the acknowledgement would pass is still to be
scheduled, or reaches the socket anyhow (shown, scheduled, or in the copy of a broadcast). `Begin`
keeps it because a connected client is in the set, and `Finish` because what it discards is not
connected: that is `RegisteredInv`, which also has to say that no broadcast knows a client
that is still to come. `Send` moves the alert from the copy to what was shown. A new client starts
with `since` at the last etag, so nothing is owed to it yet.

**No alert is repeated.** `CopiesInv` counts, for each browser and each alert, its copies: scheduled, in a broadcast that
has still to send to the browser, or shown. They are at most the failures so far, and one more once the alert has been
handed over for good (acknowledged, or scheduled from the batch in hand, or the thread has ended). `Begin` turns a scheduled copy
into one of a broadcast, `Send` that into a shown one, so neither adds any; only `Schedule` adds a copy, and each alert of a
batch is scheduled once; only a failure lets the same alert be delivered again.

Model-checked only: liveness (`CatchesUp`, `TurnEnds`, `SeenUnlessEnded`, `GetsToWork`), which the prover does not do. Every
other property of a passing run is stated by a theorem.

## Findings

1. *The worker cannot get past a large batch* (`pricewatch_cap`). One session per batch and one
   load per item exceed RavenDB's 30 requests per session once 30 routes match; the same batch
   comes back after every restart, and no drop behind it is ever noticed (`worker/run.py:74`).
2. *The budget of a turn is not enforced on the fast path* (`turn_budget`; `agent/loop.py:173`). The search
   result that is pasted into the user's message is neither cut nor counted, and no warning is logged, although
   `docs/architecture.md:288-293` calls the 1800 tokens of tool results a turn a hard, enforced budget and
   `agent/loop.py:27` one for the whole turn. The loop itself keeps it, the marks of cut results apart (`BudgetKept`).
3. *Two pods lose each other's updates of a profile* (`userdocs_lost`;
   `tools/update_user_profile.py:122`), although "earlier values are never dropped by a later call".
4. *A search judges by the stale fare whose refresh failed to be stored* (`routecache_stale`;
   `tools/get_live_prices.py:143`).
5. *A search for a new destination misses the fare it has just stored* (`routecache_index`;
   `tools/search_routes.py:375`): it queries again without waiting for the index. The
   hidden-city search loads the document by its id and is not affected.

Three differences between comments and code are plain from the models and have no run of
their own. Two drops of a route that are handled within a second get one id (`worker/run.py:101`), and the second
alert overwrites the first, although each is to have a `PriceAlerts` document (`worker/run.py:7-8`);
`NewestAlertStored` says exactly what is left. The forced first tool call (`agent/loop.py:252-255`, 443) is lifted by a first answer
that is cut at `max_tokens` (`AskAgain` starts iteration 2 with `tool_choice = "auto"`), and a first answer that stops
is taken as the reply (`AskForStop`). And a tool
call whose arguments are not JSON, or that names no tool, ends the whole turn (`BadCall`), because both are
looked at outside the boundary that turns errors into results (`agent/loop.py:324`,
`tools/dispatcher.py:36-46`).

## What is not modelled

- Hub inference, geography and text resolution: stateless floating-point and text matching.
  `infer_hub` is the constant `GuessedHub`.
- `find_candidates` of the scorer has no caller in the program; risks other than checked baggage
  are never set by a caller.
- In the searches: filters, result limits, nearby airports, browsing without a destination, and connecting hubs, all of
  which only read. (Limits and filters show less; the ticket of a shown route does not depend on them.) The
  risk-adjusted score beside a ticket is a number that is shown, and left out. The direct fare's other attributes.
- Profile scalars, attachments' contents, the memory tool's read side: single puts or pure reads.
- Rendering, prompts, tool definitions, logging, the measurements of grounding and egress.
- What a listed route's age means for a saving: the code compares and shows routes of any age and marks them.
- The order in which alerts reach a browser: the model has the overtaking, the code promises nothing.
- In the bootstrap: a missing `airports.json`, which skips that seed.
- The rest of the agent's start-up, and key setup: flags set once by sequential calls, and a file written by one endpoint; the
  database half of the start is in `Bootstrap`, the alert thread in `AlertFanout`.
- The whole from a drop to a browser: `PriceWatch` and `AlertFanout` meet in the `PriceAlerts` documents, whose
  overwriting each of the two models on its side, but they are not composed.

## The plan

Done, in this order: `PriceWatch` with `AlertLedger` (the asynchronous core), `AgentTurn` (what
every user meets), `UserDocuments`, `HiddenCity` with `RouteCache`, `AlertFanout`; then `TurnContract`, the
plain search of `RouteCache`, crashes and races in `UserDocuments`, `Bootstrap`, and the proofs of all of them.

To come:

1. **Composition** of `PriceWatch` and `AlertFanout`: from a drop to a browser, through the ids of
   the alerts; the abstract specification would be the ledger with a set of viewers.
2. **Connecting hubs** in the search: two requests per hub, joined into one answer.
3. **Key setup**, as far as the flags it sets change what a turn or a search does.
