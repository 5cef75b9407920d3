----------------------------- MODULE Bootstrap -----------------------------
(***************************************************************************)
(* The start of the system: agents, the worker and the scraper start in    *)
(* any order, before or after RavenDB can be reached, and each of them     *)
(* makes sure that the database is there (ensure_database).  An agent then *)
(* seeds the airports and the fixture routes, each only if it finds the    *)
(* collection empty (seed_if_empty).  Agents and scrapers that are through *)
(* put live fares, which expire.                                           *)
(*                                                                         *)
(* A seed is one put per document.  An exception outside ensure_database's *)
(* retries ends the process, and Kubernetes starts it again.               *)
(***************************************************************************)
EXTENDS Naturals

CONSTANTS
    Agent,         \* the agent pods
    Job,           \* worker and scraper: they only make sure of the database
    MaxTries,      \* attempts that fit in ensure_database's ninety seconds
    NumAirports,   \* airports in the file, seeded in its order
    NumRoutes,     \* fixture routes, in the order of the list
    MaxDeaths      \* bound: processes killed in a behaviour

ASSUME BootstrapAssumption ==
    /\ Agent \cap Job = {}
    /\ MaxTries \in Nat
    /\ NumAirports \in Nat \ {0}
    /\ NumRoutes \in Nat \ {0}
    /\ MaxDeaths \in Nat

VARIABLES
    reachable,  \* RavenDB answers
    exists,     \* the database has been created
    expiring,   \* document expiration is enabled in it
    airports,   \* the airports stored
    routes,     \* what each fixture's route document holds
    pc,         \* the control point of each process
    tries,      \* its failed attempts to create the database
    next,       \* the document it seeds next
    deaths,     \* processes killed so far
    cut,        \* history: an agent ended in the middle of the airports
    crossed,    \* history: a live fare was put while an agent seeded routes
    replaced    \* history: a fixture was put over a live fare

dbVars == <<exists, expiring, airports, routes>>
historyVars == <<cut, crossed, replaced>>
vars == <<reachable, dbVars, pc, tries, next, deaths, historyVars>>

Process == Agent \cup Job
Airport == 1..NumAirports
Route == 1..NumRoutes

Seeding == {"ask airports", "seed airports", "ask routes", "seed routes"}
Ensured == Seeding \cup {"working"}
Control == {"absent", "creating", "enabling", "exited"} \cup Ensured

TypeOK ==
    /\ reachable \in BOOLEAN
    /\ exists \in BOOLEAN
    /\ expiring \in BOOLEAN
    /\ airports \subseteq Airport
    /\ routes \in [Route -> {"none", "fixture", "live"}]
    /\ pc \in [Process -> Control]
    /\ \A p \in Process : pc[p] \in Seeding => p \in Agent
    /\ tries \in [Process -> 0..MaxTries]
    /\ next \in [Process -> 1..(NumAirports + NumRoutes)]
    /\ \A p \in Process : \/ pc[p] = "seed airports" /\ next[p] \in Airport
                          \/ pc[p] = "seed routes" /\ next[p] \in Route
                          \/ pc[p] \notin {"seed airports", "seed routes"} /\ next[p] = 1
    /\ deaths \in 0..MaxDeaths
    /\ cut \in BOOLEAN
    /\ crossed \in BOOLEAN
    /\ replaced \in BOOLEAN

Init ==
    /\ reachable = FALSE
    /\ exists = FALSE
    /\ expiring = FALSE
    /\ airports = {}
    /\ routes = [f \in Route |-> "none"]
    /\ pc = [p \in Process |-> "absent"]
    /\ tries = [p \in Process |-> 0]
    /\ next = [p \in Process |-> 1]
    /\ deaths = 0
    /\ cut = FALSE
    /\ crossed = FALSE
    /\ replaced = FALSE
-----------------------------------------------------------------------------
(* RavenDB comes up, and may become unreachable again. *)
Reach ==
    /\ reachable' = ~ reachable
    /\ UNCHANGED <<dbVars, pc, tries, next, deaths, historyVars>>

Goto(p, l) == pc' = [pc EXCEPT ![p] = l]
Leave(p, l) ==
    /\ Goto(p, l)
    /\ tries' = [tries EXCEPT ![p] = 0]
    /\ next' = [next EXCEPT ![p] = 1]

(* A process is started, for the first time or after it ended. *)
Start(p) ==
    /\ pc[p] \in {"absent", "exited"}
    /\ Goto(p, "creating")
    /\ UNCHANGED <<reachable, dbVars, tries, next, deaths, historyVars>>

(* ensure_database: the database is created, ... *)
Create(p) ==
    /\ pc[p] = "creating" /\ tries[p] < MaxTries
    /\ reachable /\ ~ exists
    /\ exists' = TRUE
    /\ Leave(p, "enabling")
    /\ UNCHANGED <<reachable, expiring, airports, routes, deaths, historyVars>>

(* Wrong variants of LoseRace: the ConcurrencyException of a database that is already there
   is retried as any error is; or it is taken for a database that is ready for use. *)
MutLoseRace(p) ==
    /\ pc[p] = "creating" /\ tries[p] < MaxTries
    /\ reachable /\ exists
    /\ tries' = [tries EXCEPT ![p] = @ + 1]
    /\ UNCHANGED <<reachable, dbVars, pc, next, deaths, historyVars>>
MutLoserReturns(p) ==
    /\ pc[p] = "creating" /\ tries[p] < MaxTries
    /\ reachable /\ exists
    /\ Leave(p, IF p \in Agent THEN "ask airports" ELSE "working")
    /\ UNCHANGED <<reachable, dbVars, deaths, historyVars>>

(* ... or is there already, which is as good, ... *)
LoseRace(p) ==
    /\ pc[p] = "creating" /\ tries[p] < MaxTries
    /\ reachable /\ exists
    /\ Leave(p, "enabling")
    /\ UNCHANGED <<reachable, dbVars, deaths, historyVars>>

(* A wrong variant of Retry: one attempt too many. *)
MutRetry(p) ==
    /\ pc[p] = "creating" /\ tries[p] <= MaxTries
    /\ \/ ~ reachable /\ UNCHANGED exists
       \/ reachable /\ ~ exists /\ exists' = TRUE
    /\ tries' = [tries EXCEPT ![p] = @ + 1]
    /\ UNCHANGED <<reachable, expiring, airports, routes, pc, next, deaths, historyVars>>

(* ... or the attempt fails, before or after the server has carried it out, ... *)
Retry(p) ==
    /\ pc[p] = "creating" /\ tries[p] < MaxTries
    /\ \/ ~ reachable /\ UNCHANGED exists
       \/ reachable /\ ~ exists /\ exists' = TRUE
    /\ tries' = [tries EXCEPT ![p] = @ + 1]
    /\ UNCHANGED <<reachable, expiring, airports, routes, pc, next, deaths, historyVars>>

(* ... until the ninety seconds are over and the process ends with an error. *)
TimeOut(p) ==
    /\ pc[p] = "creating" /\ tries[p] = MaxTries
    /\ Leave(p, "exited")
    /\ UNCHANGED <<reachable, dbVars, deaths, historyVars>>

(* ensure_expiration_enabled; the worker and the scraper then go about their work. *)
EnableExpiration(p) ==
    /\ pc[p] = "enabling" /\ reachable
    /\ expiring' = TRUE
    /\ Goto(p, IF p \in Agent THEN "ask airports" ELSE "working")
    /\ UNCHANGED <<reachable, exists, airports, routes, tries, next, deaths, historyVars>>
-----------------------------------------------------------------------------
(* seed_if_empty. *)
AskAirports(p) ==
    /\ pc[p] = "ask airports" /\ reachable
    /\ Goto(p, IF airports = {} THEN "seed airports" ELSE "ask routes")
    /\ UNCHANGED <<reachable, dbVars, tries, next, deaths, historyVars>>

(* A wrong variant of PutAirport: the last airport of the file is left out. *)
MutPutAirport(p) ==
    /\ pc[p] = "seed airports" /\ reachable
    /\ airports' = airports \cup {next[p]}
    /\ IF next[p] + 1 < NumAirports
       THEN next' = [next EXCEPT ![p] = @ + 1] /\ UNCHANGED <<pc, tries>>
       ELSE Leave(p, "ask routes")
    /\ UNCHANGED <<reachable, exists, expiring, routes, deaths, historyVars>>

PutAirport(p) ==
    /\ pc[p] = "seed airports" /\ reachable
    /\ airports' = airports \cup {next[p]}
    /\ IF next[p] < NumAirports
       THEN next' = [next EXCEPT ![p] = @ + 1] /\ UNCHANGED <<pc, tries>>
       ELSE Leave(p, "ask routes")
    /\ UNCHANGED <<reachable, exists, expiring, routes, deaths, historyVars>>

(* A wrong variant of AskRoutes: fixtures are put whenever one is missing. *)
MutAskRoutes(p) ==
    /\ pc[p] = "ask routes" /\ reachable
    /\ Goto(p, IF \E f \in Route : routes[f] = "none" THEN "seed routes" ELSE "working")
    /\ UNCHANGED <<reachable, dbVars, tries, next, deaths, historyVars>>

AskRoutes(p) ==
    /\ pc[p] = "ask routes" /\ reachable
    /\ Goto(p, IF \A f \in Route : routes[f] = "none" THEN "seed routes" ELSE "working")
    /\ UNCHANGED <<reachable, dbVars, tries, next, deaths, historyVars>>

PutRoute(p) ==
    /\ pc[p] = "seed routes" /\ reachable
    /\ routes' = [routes EXCEPT ![next[p]] = "fixture"]
    /\ replaced' = (replaced \/ routes[next[p]] = "live")
    /\ IF next[p] < NumRoutes
       THEN next' = [next EXCEPT ![p] = @ + 1] /\ UNCHANGED <<pc, tries>>
       ELSE Leave(p, "working")
    /\ UNCHANGED <<reachable, exists, expiring, airports, deaths, cut, crossed>>

(* A live fare: by the scraper job, or by the scraper thread or a search of an agent. *)
PutLive(p, f) ==
    /\ pc[p] = "working" /\ reachable
    /\ routes' = [routes EXCEPT ![f] = "live"]
    /\ crossed' = (crossed \/ \E a \in Agent : pc[a] = "seed routes")
    /\ UNCHANGED <<reachable, exists, expiring, airports, pc, tries, next, deaths, cut, replaced>>

(* Live fares expire; fixtures are put without @expires. *)
Purge(f) ==
    /\ expiring /\ routes[f] = "live"
    /\ routes' = [routes EXCEPT ![f] = "none"]
    /\ UNCHANGED <<reachable, exists, expiring, airports, pc, tries, next, deaths, historyVars>>
-----------------------------------------------------------------------------
(* A process ends: its seed, if it is in the middle of one, stays as it is. *)
End(p) ==
    /\ Leave(p, "exited")
    /\ cut' = (cut \/ pc[p] = "seed airports")
    /\ UNCHANGED <<reachable, dbVars, crossed, replaced>>

(* A request fails where nothing is retried. *)
RequestFails(p) ==
    /\ pc[p] \in {"enabling"} \cup Seeding /\ ~ reachable
    /\ End(p)
    /\ UNCHANGED deaths

Die(p) ==
    /\ pc[p] \notin {"absent", "exited"}
    /\ deaths < MaxDeaths
    /\ deaths' = deaths + 1
    /\ End(p)

Step(p) ==
    \/ Create(p) \/ LoseRace(p) \/ Retry(p) \/ TimeOut(p) \/ EnableExpiration(p)
    \/ AskAirports(p) \/ PutAirport(p) \/ AskRoutes(p) \/ PutRoute(p)
    \/ RequestFails(p)

Next ==
    \/ Reach
    \/ \E p \in Process : Start(p) \/ Step(p) \/ Die(p) \/ \E f \in Route : PutLive(p, f)
    \/ \E f \in Route : Purge(f)

Spec == Init /\ [][Next]_vars

(* A process that runs gets on, and Kubernetes starts it again when it has ended.  Nobody
   promises that any other process is ever started, or that RavenDB is ever reachable. *)
Restart(p) == pc[p] = "exited" /\ Start(p)
FairSpec ==
    /\ Spec
    /\ \A p \in Process : WF_vars(Step(p)) /\ WF_vars(Restart(p))
-----------------------------------------------------------------------------
(* Correctness. *)

(* "This function's contract is 'the database exists when this returns'" (seed.py:62-65),
   with expiration enabled, whoever created it and wherever its creator died. *)
EnsuredMeansThere == \A p \in Process : pc[p] \in Ensured => exists /\ expiring

(* The airports are complete for an agent that is past them, unless another agent is still
   at it or ended in the middle: the next start skips a collection that is not empty
   (seed.py:145-153). *)
AirportsComplete ==
    (\E p \in Agent : pc[p] \in {"ask routes", "seed routes", "working"}) =>
        \/ airports = Airport
        \/ \E p \in Agent : pc[p] = "seed airports"
        \/ cut

(* A fixture is put over a live fare only if that fare came in while the fixtures were being
   put: never by an agent that starts when there are live fares (seed.py:155-165). *)
FaresKept == replaced => crossed

(* "Every process that touches [the database] calls this independently and retries
   transient RavenDB unavailability, so none of them is a single point of failure for it"
   (README.md:69): once RavenDB stays reachable, whoever has started gets to its work, if
   no other process ever starts, if others won the race, and after ending with an error. *)
GetsToWork ==
    <>[]reachable => \A p \in Process : pc[p] # "absent" ~> pc[p] = "working"
=============================================================================
