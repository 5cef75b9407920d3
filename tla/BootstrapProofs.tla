-------------------------- MODULE BootstrapProofs --------------------------
(***************************************************************************)
(* The safety of the start, for any number of agents, jobs, attempts,      *)
(* airports, fixtures and deaths.                                          *)
(***************************************************************************)
EXTENDS Bootstrap, TLAPS

LEMMA Numbers == /\ MaxTries \in Nat /\ MaxDeaths \in Nat
                 /\ NumAirports \in Nat /\ NumAirports >= 1
                 /\ NumRoutes \in Nat /\ NumRoutes >= 1
BY BootstrapAssumption

LEMMA Firsts == /\ 0 \in 0..MaxTries
                /\ 1 \in 1..(NumAirports + NumRoutes)
                /\ 1 \in 1..NumAirports
                /\ 1 \in 1..NumRoutes
BY Numbers

LEMMA Following ==
    /\ \A n \in 1..NumAirports : n < NumAirports => n + 1 \in 1..NumAirports
    /\ \A n \in 1..NumRoutes : n < NumRoutes => n + 1 \in 1..NumRoutes
    /\ \A n \in 1..NumAirports : n \in 1..(NumAirports + NumRoutes)
    /\ \A n \in 1..NumRoutes : n \in 1..(NumAirports + NumRoutes)
BY Numbers

NextOK ==
    \A p \in Process : \/ pc[p] = "seed airports" /\ next[p] \in Airport
                       \/ pc[p] = "seed routes" /\ next[p] \in Route
                       \/ pc[p] \notin {"seed airports", "seed routes"} /\ next[p] = 1

(* Leaving resets what a process counts. *)
LEMMA LeaveTyped ==
    ASSUME TypeOK, NEW p \in Process, NEW l \in Control, Leave(p, l),
           l \in Seeding => p \in Agent,
           l \notin {"seed airports", "seed routes"}
    PROVE  /\ pc' \in [Process -> Control]
           /\ \A q \in Process : pc'[q] \in Seeding => q \in Agent
           /\ tries' \in [Process -> 0..MaxTries]
           /\ next' \in [Process -> 1..(NumAirports + NumRoutes)]
           /\ NextOK'
<1>1. /\ pc' = [pc EXCEPT ![p] = l]
      /\ tries' = [tries EXCEPT ![p] = 0]
      /\ next' = [next EXCEPT ![p] = 1]
  BY DEF Leave, Goto
<1>2. 0 \in 0..MaxTries /\ 1 \in 1..(NumAirports + NumRoutes)
  BY Firsts
<1>3. pc' \in [Process -> Control]
  BY <1>1 DEF TypeOK
<1>4. tries' \in [Process -> 0..MaxTries]
  BY <1>1, <1>2 DEF TypeOK
<1>5. next' \in [Process -> 1..(NumAirports + NumRoutes)]
  BY <1>1, <1>2 DEF TypeOK
<1>6. \A q \in Process : pc'[q] \in Seeding => q \in Agent
  BY <1>1 DEF TypeOK
<1>7. NextOK'
  BY <1>1 DEF TypeOK, NextOK
<1> QED
  BY <1>3, <1>4, <1>5, <1>6, <1>7

(* A step of a process's control that keeps its counters. *)
LEMMA GotoTyped ==
    ASSUME TypeOK, NEW p \in Process, NEW l \in Control, Goto(p, l),
           UNCHANGED <<tries, next>>,
           l \in Seeding => p \in Agent,
           pc[p] \notin {"seed airports", "seed routes"}
    PROVE  /\ pc' \in [Process -> Control]
           /\ \A q \in Process : pc'[q] \in Seeding => q \in Agent
           /\ tries' \in [Process -> 0..MaxTries]
           /\ next' \in [Process -> 1..(NumAirports + NumRoutes)]
           /\ NextOK'
<1>1. pc' = [pc EXCEPT ![p] = l] /\ tries' = tries /\ next' = next
  BY DEF Goto
<1>2. next[p] = 1
  BY DEF TypeOK
<1>3. 1 \in Airport /\ 1 \in Route
  BY Firsts DEF Airport, Route
<1>4. NextOK'
  BY <1>1, <1>2, <1>3 DEF TypeOK, NextOK
<1>5. pc' \in [Process -> Control] /\ \A q \in Process : pc'[q] \in Seeding => q \in Agent
  BY <1>1 DEF TypeOK
<1> QED
  BY <1>1, <1>4, <1>5 DEF TypeOK

(* The next document of a seed. *)
LEMMA NextTyped ==
    ASSUME TypeOK, NEW p \in Process, UNCHANGED <<pc, tries>>,
           next' = [next EXCEPT ![p] = @ + 1],
           \/ pc[p] = "seed airports" /\ next[p] < NumAirports
           \/ pc[p] = "seed routes" /\ next[p] < NumRoutes
    PROVE  /\ pc' \in [Process -> Control]
           /\ \A q \in Process : pc'[q] \in Seeding => q \in Agent
           /\ tries' \in [Process -> 0..MaxTries]
           /\ next' \in [Process -> 1..(NumAirports + NumRoutes)]
           /\ NextOK'
<1>1. \/ pc[p] = "seed airports" /\ next[p] \in 1..NumAirports /\ next[p] + 1 \in 1..NumAirports
      \/ pc[p] = "seed routes" /\ next[p] \in 1..NumRoutes /\ next[p] + 1 \in 1..NumRoutes
  <2>1. CASE pc[p] = "seed airports" /\ next[p] < NumAirports
    <3>1. next[p] \in 1..NumAirports
      BY <2>1 DEF TypeOK, Airport
    <3> QED
      BY <2>1, <3>1, Following
  <2>2. CASE pc[p] = "seed routes" /\ next[p] < NumRoutes
    <3>1. next[p] \in 1..NumRoutes
      BY <2>2 DEF TypeOK, Route
    <3> QED
      BY <2>2, <3>1, Following
  <2> QED
    BY <2>1, <2>2
<1>2. next[p] + 1 \in 1..(NumAirports + NumRoutes)
  BY <1>1, Following
<1>3. next' \in [Process -> 1..(NumAirports + NumRoutes)]
  BY <1>2 DEF TypeOK
<1>4. NextOK'
  <2>1. \A q \in Process \ {p} : next'[q] = next[q]
    BY DEF TypeOK
  <2>2. next'[p] = next[p] + 1
    BY DEF TypeOK
  <2> QED
    BY <1>1, <2>1, <2>2 DEF TypeOK, NextOK, Airport, Route
<1> QED
  BY <1>3, <1>4 DEF TypeOK
-----------------------------------------------------------------------------
ProcessOK ==
    /\ pc \in [Process -> Control]
    /\ \A p \in Process : pc[p] \in Seeding => p \in Agent
    /\ tries \in [Process -> 0..MaxTries]
    /\ next \in [Process -> 1..(NumAirports + NumRoutes)]
    /\ NextOK

DocsOK ==
    /\ reachable \in BOOLEAN
    /\ exists \in BOOLEAN
    /\ expiring \in BOOLEAN
    /\ airports \subseteq Airport
    /\ routes \in [Route -> {"none", "fixture", "live"}]
    /\ deaths \in 0..MaxDeaths
    /\ cut \in BOOLEAN
    /\ crossed \in BOOLEAN
    /\ replaced \in BOOLEAN

LEMMA TypeParts == TypeOK <=> ProcessOK /\ DocsOK
BY DEF TypeOK, ProcessOK, NextOK, DocsOK

LEMMA Controls ==
    /\ {"creating", "enabling", "exited", "working"} \subseteq Control \ Seeding
    /\ Seeding \subseteq Control
    /\ {"ask airports", "seed airports", "ask routes", "seed routes"} \subseteq Seeding
BY DEF Control, Ensured, Seeding

LEMMA ProcessStep ==
    ASSUME TypeOK, NEW p \in Process, Start(p) \/ Step(p) \/ Die(p)
    PROVE  ProcessOK'
<1>1. ASSUME NEW l \in Control, Leave(p, l), l \in Seeding => p \in Agent,
             l \notin {"seed airports", "seed routes"}
      PROVE  ProcessOK'
  BY <1>1, LeaveTyped DEF ProcessOK
<1>2. ASSUME NEW l \in Control, Goto(p, l), UNCHANGED <<tries, next>>,
             l \in Seeding => p \in Agent, pc[p] \notin {"seed airports", "seed routes"}
      PROVE  ProcessOK'
  BY <1>2, GotoTyped DEF ProcessOK
<1>3. CASE Start(p)
  BY <1>2, <1>3, Controls DEF Start
<1>4. CASE Create(p) \/ LoseRace(p) \/ TimeOut(p)
  BY <1>1, <1>4, Controls DEF Create, LoseRace, TimeOut
<1>5. CASE Retry(p)
  <2>1. /\ tries[p] < MaxTries /\ tries' = [tries EXCEPT ![p] = @ + 1] /\ pc' = pc /\ next' = next
    BY <1>5 DEF Retry
  <2>2. tries[p] \in 0..MaxTries
    BY DEF TypeOK
  <2>3. \A n \in 0..MaxTries : n < MaxTries => n + 1 \in 0..MaxTries
    BY Numbers
  <2>4. tries[p] + 1 \in 0..MaxTries
    BY <2>1, <2>2, <2>3
  <2>5. tries' \in [Process -> 0..MaxTries]
    BY <2>1, <2>4 DEF TypeOK
  <2> QED
    BY <2>1, <2>5 DEF TypeOK, ProcessOK, NextOK
<1>6. CASE EnableExpiration(p)
  <2>1. pc[p] = "enabling" /\ UNCHANGED <<tries, next>>
        /\ ((p \in Agent /\ Goto(p, "ask airports")) \/ Goto(p, "working"))
    BY <1>6 DEF EnableExpiration
  <2> QED
    BY <1>2, <2>1, Controls
<1>7. CASE AskAirports(p)
  <2>1. p \in Agent
    BY <1>7, Controls DEF AskAirports, TypeOK
  <2>2. pc[p] \notin {"seed airports", "seed routes"} /\ UNCHANGED <<tries, next>>
        /\ (Goto(p, "seed airports") \/ Goto(p, "ask routes"))
    BY <1>7 DEF AskAirports
  <2> QED
    BY <1>2, <2>1, <2>2, Controls
<1>8. CASE PutAirport(p)
  <2>1. p \in Agent
    BY <1>8, Controls DEF PutAirport, TypeOK
  <2>2. CASE next[p] < NumAirports
    <3>1. UNCHANGED <<pc, tries>> /\ next' = [next EXCEPT ![p] = @ + 1] /\ pc[p] = "seed airports"
      BY <1>8, <2>2 DEF PutAirport
    <3> QED
      BY <2>2, <3>1, NextTyped DEF ProcessOK
  <2>3. CASE ~ (next[p] < NumAirports)
    <3>1. Leave(p, "ask routes")
      BY <1>8, <2>3 DEF PutAirport
    <3> QED
      BY <1>1, <2>1, <3>1, Controls
  <2> QED
    BY <2>2, <2>3
<1>9. CASE AskRoutes(p)
  <2>1. p \in Agent
    BY <1>9, Controls DEF AskRoutes, TypeOK
  <2>2. pc[p] \notin {"seed airports", "seed routes"} /\ UNCHANGED <<tries, next>>
        /\ (Goto(p, "seed routes") \/ Goto(p, "working"))
    BY <1>9 DEF AskRoutes
  <2> QED
    BY <1>2, <2>1, <2>2, Controls
<1>10. CASE PutRoute(p)
  <2>1. CASE next[p] < NumRoutes
    <3>1. UNCHANGED <<pc, tries>> /\ next' = [next EXCEPT ![p] = @ + 1] /\ pc[p] = "seed routes"
      BY <1>10, <2>1 DEF PutRoute
    <3> QED
      BY <2>1, <3>1, NextTyped DEF ProcessOK
  <2>2. CASE ~ (next[p] < NumRoutes)
    <3>1. Leave(p, "working")
      BY <1>10, <2>2 DEF PutRoute
    <3> QED
      BY <1>1, <3>1, Controls
  <2> QED
    BY <2>1, <2>2
<1>11. CASE RequestFails(p) \/ Die(p)
  BY <1>1, <1>11, Controls DEF RequestFails, Die, End
<1> QED
  BY <1>3, <1>4, <1>5, <1>6, <1>7, <1>8, <1>9, <1>10, <1>11 DEF Step

LEMMA DocsStep ==
    ASSUME TypeOK, NEW p \in Process, Start(p) \/ Step(p) \/ Die(p)
    PROVE  DocsOK'
<1>1. CASE Start(p) \/ LoseRace(p) \/ TimeOut(p) \/ AskAirports(p) \/ AskRoutes(p)
  BY <1>1 DEF Start, LoseRace, TimeOut, AskAirports, AskRoutes, dbVars, historyVars, TypeOK,
              DocsOK
<1>2. CASE Create(p) \/ Retry(p) \/ EnableExpiration(p)
  BY <1>2 DEF Create, Retry, EnableExpiration, historyVars, TypeOK, DocsOK
<1>3. CASE PutAirport(p)
  <2>1. next[p] \in Airport
    BY <1>3 DEF PutAirport, TypeOK
  <2>2. airports' \subseteq Airport
    BY <1>3, <2>1 DEF PutAirport, TypeOK
  <2> QED
    BY <1>3, <2>2 DEF PutAirport, historyVars, TypeOK, DocsOK
<1>4. CASE PutRoute(p)
  <2>1. routes' \in [Route -> {"none", "fixture", "live"}]
    BY <1>4 DEF PutRoute, TypeOK
  <2>2. replaced' \in BOOLEAN
    BY <1>4 DEF PutRoute
  <2> QED
    BY <1>4, <2>1, <2>2 DEF PutRoute, TypeOK, DocsOK
<1>5. ASSUME End(p), deaths' \in 0..MaxDeaths PROVE DocsOK'
  <2>1. cut' \in BOOLEAN
    BY <1>5 DEF End
  <2> QED
    BY <1>5, <2>1 DEF End, dbVars, TypeOK, DocsOK
<1>6. CASE RequestFails(p)
  BY <1>5, <1>6 DEF RequestFails, TypeOK
<1>7. CASE Die(p)
  <2>1. \A n \in 0..MaxDeaths : n < MaxDeaths => n + 1 \in 0..MaxDeaths
    BY Numbers
  <2>2. deaths' \in 0..MaxDeaths
    BY <1>7, <2>1 DEF Die, TypeOK
  <2> QED
    BY <1>5, <1>7, <2>2 DEF Die
<1> QED
  BY <1>1, <1>2, <1>3, <1>4, <1>6, <1>7 DEF Step

LEMMA TypeInit == Init => TypeOK
<1> SUFFICES ASSUME Init PROVE TypeOK
  OBVIOUS
<1>1. tries \in [Process -> 0..MaxTries] /\ next \in [Process -> 1..(NumAirports + NumRoutes)]
  BY Firsts DEF Init
<1>2. pc \in [Process -> Control] /\ \A p \in Process : pc[p] \notin Seeding
  BY DEF Init, Control, Ensured, Seeding
<1>3. NextOK
  BY DEF Init, NextOK
<1>4. deaths \in 0..MaxDeaths
  BY Numbers DEF Init
<1> QED
  BY <1>1, <1>2, <1>3, <1>4, TypeParts DEF Init, ProcessOK, DocsOK

LEMMA TypeStep == TypeOK /\ [Next]_vars => TypeOK'
<1> SUFFICES ASSUME TypeOK, [Next]_vars PROVE TypeOK'
  OBVIOUS
<1> USE TypeParts
<1>1. ASSUME UNCHANGED <<pc, tries, next>>, DocsOK' PROVE TypeOK'
  BY <1>1 DEF TypeOK, DocsOK
<1>2. CASE Reach
  BY <1>1, <1>2 DEF Reach, dbVars, historyVars, TypeOK, DocsOK
<1>3. ASSUME NEW p \in Process, Start(p) \/ Step(p) \/ Die(p) PROVE TypeOK'
  <2>1. ProcessOK' /\ DocsOK'
    BY <1>3, ProcessStep, DocsStep
  <2> QED
    BY <2>1 DEF TypeOK, ProcessOK, NextOK, DocsOK
<1>4. ASSUME NEW p \in Process, NEW f \in Route, PutLive(p, f) PROVE TypeOK'
  <2>1. routes' \in [Route -> {"none", "fixture", "live"}] /\ crossed' \in BOOLEAN
    BY <1>4 DEF PutLive, TypeOK
  <2> QED
    BY <1>1, <1>4, <2>1 DEF PutLive, TypeOK, DocsOK
<1>5. ASSUME NEW f \in Route, Purge(f) PROVE TypeOK'
  <2>1. routes' \in [Route -> {"none", "fixture", "live"}]
    BY <1>5 DEF Purge, TypeOK
  <2> QED
    BY <1>1, <1>5, <2>1 DEF Purge, historyVars, TypeOK, DocsOK
<1>6. CASE UNCHANGED vars
  BY <1>6 DEF vars, dbVars, historyVars, TypeOK
<1> QED
  BY <1>2, <1>3, <1>4, <1>5, <1>6 DEF Next

(* Type correctness of the start, for any agents, jobs and attempts (seed.py:51-165): what a
   process seeds next is in the list it seeds from, and attempts stay within the bound. *)
THEOREM TypeCorrect == Spec => []TypeOK
BY TypeInit, TypeStep, PTL DEF Spec
-----------------------------------------------------------------------------
(* The database: who is at "enabling" has seen it, and nobody drops it or turns expiration
   off again. *)
EnsuredInv ==
    /\ \A p \in Process : pc[p] = "enabling" => exists
    /\ EnsuredMeansThere

LEMMA EnsuredStep == TypeOK /\ EnsuredInv /\ [Next]_vars => EnsuredInv'
<1> SUFFICES ASSUME TypeOK, EnsuredInv, [Next]_vars PROVE EnsuredInv'
  OBVIOUS
<1>1. ASSUME exists => exists', expiring => expiring',
             \A q \in Process : pc'[q] = "enabling" => pc[q] = "enabling" \/ exists',
             \A q \in Process : pc'[q] \in Ensured => pc[q] \in Ensured \/ (exists' /\ expiring')
      PROVE  EnsuredInv'
  BY <1>1 DEF EnsuredInv, EnsuredMeansThere
<1>2. "enabling" \notin Ensured /\ {"creating", "exited", "absent"} \cap Ensured = {}
      /\ Seeding \cup {"working"} \subseteq Ensured /\ "enabling" \notin Seeding
  BY DEF Ensured, Seeding
<1>3. ASSUME NEW p \in Process, Start(p) \/ TimeOut(p) \/ RequestFails(p) \/ Die(p)
      PROVE  EnsuredInv'
  BY <1>1, <1>2, <1>3 DEF Start, TimeOut, RequestFails, Die, End, Leave, Goto, dbVars, TypeOK
<1>4. ASSUME NEW p \in Process, Create(p) \/ LoseRace(p) PROVE EnsuredInv'
  BY <1>1, <1>2, <1>4 DEF Create, LoseRace, Leave, Goto, dbVars, TypeOK
<1>5. ASSUME NEW p \in Process, Retry(p) PROVE EnsuredInv'
  BY <1>1, <1>5 DEF Retry
<1>6. ASSUME NEW p \in Process, EnableExpiration(p) PROVE EnsuredInv'
  <2>1. pc[p] = "enabling" /\ exists /\ exists' = exists /\ expiring' = TRUE
    BY <1>6 DEF EnableExpiration, EnsuredInv
  <2>2. \A q \in Process \ {p} : pc'[q] = pc[q]
    BY <1>6 DEF EnableExpiration, Goto, TypeOK
  <2>3. pc'[p] \in {"ask airports", "working"}
    BY <1>6 DEF EnableExpiration, Goto, TypeOK
  <2> QED
    BY <1>1, <2>1, <2>2, <2>3
<1>7. ASSUME NEW p \in Process, AskAirports(p) \/ PutAirport(p) \/ AskRoutes(p) \/ PutRoute(p)
      PROVE  EnsuredInv'
  <2>1. pc[p] \in Ensured /\ exists' = exists /\ expiring' = expiring
    BY <1>2, <1>7 DEF AskAirports, PutAirport, AskRoutes, PutRoute, dbVars, Ensured, Seeding
  <2>2. \A q \in Process \ {p} : pc'[q] = pc[q]
    BY <1>7 DEF AskAirports, PutAirport, AskRoutes, PutRoute, Leave, Goto, TypeOK
  <2>3. pc'[p] # "enabling"
    BY <1>7 DEF AskAirports, PutAirport, AskRoutes, PutRoute, Leave, Goto, TypeOK
  <2> QED
    BY <1>1, <2>1, <2>2, <2>3
<1>8. ASSUME NEW f \in Route, Purge(f) \/ \E p \in Process : PutLive(p, f) PROVE EnsuredInv'
  BY <1>1, <1>8 DEF Purge, PutLive
<1>9. CASE Reach \/ UNCHANGED vars
  BY <1>1, <1>9 DEF Reach, vars, dbVars
<1> QED
  BY <1>3, <1>4, <1>5, <1>6, <1>7, <1>8, <1>9 DEF Next, Step

(* Whoever is past ensure_database has a database with expiration, whichever process created
   it and wherever that one died, with any number of processes (seed.py:51-89). *)
THEOREM EnsuredThere == Spec => []EnsuredMeansThere
<1>1. Init => EnsuredInv
  BY DEF Init, EnsuredInv, EnsuredMeansThere, Ensured, Seeding
<1>2. EnsuredInv => EnsuredMeansThere
  BY DEF EnsuredInv
<1> QED
  BY <1>1, <1>2, TypeInit, TypeStep, EnsuredStep, PTL DEF Spec
-----------------------------------------------------------------------------
(* The airports: a seeding agent has put all that come before its next one, and a
   collection that is not empty is complete, being completed, or cut. *)
Attended == (\E p \in Agent : pc[p] = "seed airports") \/ cut

AirportInv ==
    /\ \A p \in Agent : pc[p] = "seed airports" =>
           \A n \in Airport : n < next[p] => n \in airports
    /\ airports # {} => airports = Airport \/ Attended
    /\ AirportsComplete

LEMMA AirportStep == TypeOK /\ AirportInv /\ [Next]_vars => AirportInv'
<1> SUFFICES ASSUME TypeOK, AirportInv, [Next]_vars PROVE AirportInv'
  OBVIOUS
<1> DEFINE past == {"ask routes", "seed routes", "working"}
<1>1. ASSUME airports' = airports,
             \A q \in Agent : pc'[q] = "seed airports" => pc[q] = "seed airports" /\ next'[q] = next[q],
             Attended => Attended',
             \A q \in Agent : pc'[q] \in past => pc[q] \in past \/ airports = Airport \/ Attended
      PROVE  AirportInv'
  BY <1>1 DEF AirportInv, AirportsComplete, Attended
<1>2. ASSUME NEW p \in Process,
             Start(p) \/ Create(p) \/ LoseRace(p) \/ TimeOut(p) \/ RequestFails(p) \/ Die(p)
      PROVE  AirportInv'
  <2>1. airports' = airports /\ \A q \in Process \ {p} : pc'[q] = pc[q] /\ next'[q] = next[q]
    BY <1>2 DEF Start, Create, LoseRace, TimeOut, RequestFails, Die, End, Leave, Goto, dbVars, TypeOK
  <2>2. pc'[p] \in {"creating", "enabling", "exited"}
    BY <1>2 DEF Start, Create, LoseRace, TimeOut, RequestFails, Die, End, Leave, Goto, TypeOK
  <2>3. cut' = (cut \/ pc[p] = "seed airports")
    BY <1>2 DEF Start, Create, LoseRace, TimeOut, RequestFails, Die, End, historyVars, TypeOK
  <2>4. Attended => Attended'
    BY <2>1, <2>3 DEF Attended, Process
  <2> QED
    BY <1>1, <2>1, <2>2, <2>4 DEF Process
<1>3. ASSUME NEW p \in Process, Retry(p) PROVE AirportInv'
  BY <1>1, <1>3 DEF Retry, historyVars, Attended
<1>4. ASSUME NEW p \in Process, EnableExpiration(p) PROVE AirportInv'
  <2>1. airports' = airports /\ cut' = cut /\ pc[p] = "enabling"
        /\ next' = next /\ \A q \in Process \ {p} : pc'[q] = pc[q]
    BY <1>4 DEF EnableExpiration, historyVars, Goto, TypeOK
  <2>2. pc'[p] = IF p \in Agent THEN "ask airports" ELSE "working"
    BY <1>4 DEF EnableExpiration, Goto, TypeOK
  <2>3. Attended => Attended'
    BY <2>1 DEF Attended, Process
  <2> QED
    BY <1>1, <2>1, <2>2, <2>3 DEF Process
<1>5. ASSUME NEW p \in Process, AskAirports(p) PROVE AirportInv'
  <2>1. airports' = airports /\ cut' = cut /\ pc[p] = "ask airports" /\ next' = next
        /\ \A q \in Process \ {p} : pc'[q] = pc[q]
    BY <1>5 DEF AskAirports, dbVars, historyVars, Goto, TypeOK
  <2>2. p \in Agent /\ next[p] = 1
    BY <2>1, Controls DEF TypeOK
  <2>3. Attended => Attended'
    BY <2>1 DEF Attended, Process
  <2>4. CASE airports # {}
    <3>1. pc'[p] = "ask routes"
      BY <1>5, <2>4 DEF AskAirports, Goto, TypeOK
    <3>2. airports = Airport \/ Attended
      BY <2>4 DEF AirportInv
    <3> QED
      BY <1>1, <2>1, <2>3, <3>1, <3>2 DEF Process
  <2>5. CASE airports = {}
    <3>1. pc'[p] = "seed airports"
      BY <1>5, <2>5 DEF AskAirports, Goto, TypeOK
    <3>2. Attended'
      BY <2>2, <3>1 DEF Attended
    <3>3. \A n \in Airport : ~ (n < 1)
      BY Numbers DEF Airport
    <3> QED
      BY <2>1, <2>2, <2>5, <3>1, <3>2, <3>3 DEF AirportInv, AirportsComplete, Attended, Process
  <2> QED
    BY <2>4, <2>5
<1>6. ASSUME NEW p \in Process, PutAirport(p) PROVE AirportInv'
  <2>1. pc[p] = "seed airports" /\ airports' = airports \cup {next[p]} /\ cut' = cut
        /\ \A q \in Process \ {p} : pc'[q] = pc[q] /\ next'[q] = next[q]
    BY <1>6 DEF PutAirport, historyVars, Leave, Goto, TypeOK
  <2>2. p \in Agent /\ next[p] \in Airport
    BY <2>1, Controls DEF TypeOK
  <2>3. \A n \in Airport : n < next[p] => n \in airports
    BY <2>1, <2>2 DEF AirportInv
  <2>4. \A n \in Airport : n < next[p] + 1 => n \in airports'
    <3>1. \A n, m \in Airport : n < m + 1 => n < m \/ n = m
      BY Numbers DEF Airport
    <3> QED
      BY <2>1, <2>2, <2>3, <3>1
  <2>5. CASE next[p] < NumAirports
    <3>1. pc'[p] = "seed airports" /\ next'[p] = next[p] + 1
      BY <1>6, <2>1, <2>5 DEF PutAirport, TypeOK
    <3>2. Attended'
      BY <2>2, <3>1 DEF Attended
    <3>3. \A q \in Agent : pc'[q] = "seed airports" =>
              \A n \in Airport : n < next'[q] => n \in airports'
      BY <2>1, <2>4, <3>1 DEF AirportInv, Process
    <3> QED
      BY <3>2, <3>3 DEF AirportInv, AirportsComplete, Attended
  <2>6. CASE ~ (next[p] < NumAirports)
    <3>1. pc'[p] = "ask routes"
      BY <1>6, <2>6 DEF PutAirport, Leave, Goto, TypeOK
    <3>2. \A n, m \in Airport : ~ (m < NumAirports) => n < m + 1
      BY Numbers DEF Airport
    <3>3. Airport \subseteq airports'
      BY <2>2, <2>4, <2>6, <3>2
    <3>4. airports' = Airport
      BY <2>1, <2>2, <3>3 DEF TypeOK
    <3>5. \A q \in Agent : pc'[q] = "seed airports" =>
              \A n \in Airport : n < next'[q] => n \in airports'
      BY <3>3
    <3> QED
      BY <3>4, <3>5 DEF AirportInv, AirportsComplete, Attended
  <2> QED
    BY <2>5, <2>6
<1>7. ASSUME NEW p \in Process, AskRoutes(p) \/ PutRoute(p) PROVE AirportInv'
  <2>1. airports' = airports /\ cut' = cut
        /\ \A q \in Process \ {p} : pc'[q] = pc[q] /\ next'[q] = next[q]
    BY <1>7 DEF AskRoutes, PutRoute, dbVars, historyVars, Leave, Goto, TypeOK
  <2>2. pc[p] \in past /\ pc'[p] # "seed airports" /\ pc[p] # "seed airports"
    BY <1>7 DEF AskRoutes, PutRoute, Leave, Goto, TypeOK
  <2>3. Attended => Attended'
    BY <2>1, <2>2 DEF Attended, Process
  <2> QED
    BY <1>1, <2>1, <2>2, <2>3 DEF Process
<1>8. ASSUME NEW f \in Route, Purge(f) \/ \E p \in Process : PutLive(p, f) PROVE AirportInv'
  BY <1>1, <1>8 DEF Purge, PutLive, historyVars, Attended
<1>9. CASE Reach \/ UNCHANGED vars
  <2>1. UNCHANGED <<airports, pc, next, cut>>
    BY <1>9 DEF Reach, vars, dbVars, historyVars
  <2>2. Attended => Attended'
    BY <2>1 DEF Attended
  <2> QED
    BY <1>1, <2>1, <2>2
<1> QED
  BY <1>2, <1>3, <1>4, <1>5, <1>6, <1>7, <1>8, <1>9 DEF Next, Step

(* An agent that is past the airports finds them complete unless another is still at them
   or one ended in the middle, for any number of airports and agents (seed.py:145-153). *)
THEOREM AirportsAreComplete == Spec => []AirportsComplete
<1>1. Init => AirportInv
  BY DEF Init, AirportInv, AirportsComplete, Attended, Process
<1>2. AirportInv => AirportsComplete
  BY DEF AirportInv
<1> QED
  BY <1>1, <1>2, TypeInit, TypeStep, AirportStep, PTL DEF Spec
-----------------------------------------------------------------------------
(* The fares: while nobody has crossed a seed of the routes, a seeding agent has no live
   fare before it. *)
FareInv ==
    /\ ~ crossed => \A p \in Agent : pc[p] = "seed routes" =>
           \A f \in Route : routes[f] # "live"
    /\ FaresKept

LEMMA FareStep == TypeOK /\ FareInv /\ [Next]_vars => FareInv'
<1> SUFFICES ASSUME TypeOK, FareInv, [Next]_vars PROVE FareInv'
  OBVIOUS
<1>1. ASSUME UNCHANGED <<routes, crossed, replaced>>,
             \A q \in Agent : pc'[q] = "seed routes" => pc[q] = "seed routes"
      PROVE  FareInv'
  BY <1>1 DEF FareInv, FaresKept
<1>2. ASSUME NEW p \in Process,
             \/ Start(p) \/ Create(p) \/ LoseRace(p) \/ Retry(p) \/ TimeOut(p)
             \/ EnableExpiration(p) \/ AskAirports(p) \/ RequestFails(p) \/ Die(p)
      PROVE  FareInv'
  <2>1. UNCHANGED <<routes, crossed, replaced>>
    BY <1>2 DEF Start, Create, LoseRace, Retry, TimeOut, EnableExpiration, AskAirports,
                RequestFails, Die, End, dbVars, historyVars
  <2>2. \A q \in Process : pc'[q] = "seed routes" => pc[q] = "seed routes"
    BY <1>2 DEF Start, Create, LoseRace, Retry, TimeOut, EnableExpiration, AskAirports,
                RequestFails, Die, End, Leave, Goto, TypeOK
  <2> QED
    BY <1>1, <2>1, <2>2 DEF Process
<1>3. ASSUME NEW p \in Process, PutAirport(p) PROVE FareInv'
  <2>1. \A q \in Process : pc'[q] = "seed routes" => pc[q] = "seed routes"
    BY <1>3 DEF PutAirport, Leave, Goto, TypeOK
  <2> QED
    BY <1>1, <1>3, <2>1 DEF PutAirport, historyVars, Process
<1>4. ASSUME NEW p \in Process, AskRoutes(p) PROVE FareInv'
  <2>1. UNCHANGED <<routes, crossed, replaced>>
    BY <1>4 DEF AskRoutes, dbVars, historyVars
  <2>2. CASE \A f \in Route : routes[f] = "none"
    BY <2>1, <2>2 DEF FareInv, FaresKept
  <2>3. CASE ~ \A f \in Route : routes[f] = "none"
    BY <1>1, <1>4, <2>1, <2>3 DEF AskRoutes, Goto, TypeOK, Process
  <2> QED
    BY <2>2, <2>3
<1>5. ASSUME NEW p \in Process, PutRoute(p) PROVE FareInv'
  <2>1. /\ pc[p] = "seed routes" /\ crossed' = crossed
        /\ routes' = [routes EXCEPT ![next[p]] = "fixture"]
        /\ replaced' = (replaced \/ routes[next[p]] = "live")
    BY <1>5 DEF PutRoute
  <2>2. p \in Agent /\ next[p] \in Route
    BY <2>1, Controls DEF TypeOK
  <2>3. \A q \in Process : pc'[q] = "seed routes" => pc[q] = "seed routes"
    BY <1>5 DEF PutRoute, Leave, Goto, TypeOK
  <2>4. \A f \in Route : routes'[f] = "live" => routes[f] = "live"
    BY <2>1 DEF TypeOK
  <2>5. FaresKept'
    BY <2>1, <2>2 DEF FareInv, FaresKept
  <2> QED
    BY <2>1, <2>3, <2>4, <2>5 DEF FareInv, Process
<1>6. ASSUME NEW p \in Process, NEW f \in Route, PutLive(p, f) PROVE FareInv'
  <2>1. pc' = pc /\ replaced' = replaced
        /\ crossed' = (crossed \/ \E a \in Agent : pc[a] = "seed routes")
    BY <1>6 DEF PutLive
  <2> QED
    BY <2>1 DEF FareInv, FaresKept
<1>7. ASSUME NEW f \in Route, Purge(f) PROVE FareInv'
  <2>1. \A g \in Route : routes'[g] = "live" => routes[g] = "live"
    BY <1>7 DEF Purge, TypeOK
  <2> QED
    BY <1>7, <2>1 DEF Purge, historyVars, FareInv, FaresKept
<1>8. CASE Reach \/ UNCHANGED vars
  BY <1>1, <1>8 DEF Reach, vars, dbVars, historyVars
<1> QED
  BY <1>2, <1>3, <1>4, <1>5, <1>6, <1>7, <1>8 DEF Next, Step

(* No agent puts a fixture over a live fare that was there when it asked, with any number
   of agents that seed at once (seed.py:155-165). *)
THEOREM FaresAreKept == Spec => []FaresKept
<1>1. Init => FareInv
  BY DEF Init, FareInv, FaresKept, Process
<1>2. FareInv => FaresKept
  BY DEF FareInv
<1> QED
  BY <1>1, <1>2, TypeInit, TypeStep, FareStep, PTL DEF Spec
=============================================================================
