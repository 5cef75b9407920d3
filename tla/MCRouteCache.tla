--------------------------- MODULE MCRouteCache ---------------------------
(***************************************************************************)
(* Instances of RouteCache for TLC: two hubs, and a destination whose      *)
(* itinerary goes through one or both.                                     *)
(***************************************************************************)
EXTENDS RouteCache, TLC

CONSTANTS hub1, hub2, decoy

MCDest == {hub1, hub2, decoy}

MCFixture ==
    <<[dest |-> hub1, price |-> 4, hubs |-> <<>>],
      [dest |-> hub2, price |-> 2, hubs |-> <<>>],
      [dest |-> decoy, price |-> 1, hubs |-> <<hub1, hub2>>]>>

ATicket(d, p, t) == [dest |-> d, price |-> p, transfers |-> t]

(* The direct fare with the decoy's, before and after it; the decoy's alone; and the direct
   fare listed twice. *)
MCScraped ==
    {<<ATicket(hub1, 2, FALSE), ATicket(decoy, 1, TRUE)>>,
     <<ATicket(decoy, 1, TRUE)>>,
     <<ATicket(decoy, 2, FALSE), ATicket(hub1, 4, FALSE)>>,
     <<ATicket(hub1, 2, FALSE), ATicket(decoy, 1, TRUE), ATicket(hub1, 4, FALSE)>>}

MCGuessedHub == [d \in MCDest |-> IF d = decoy THEN hub1 ELSE NoDest]

(* The index does not matter once no request will query again: states that differ in it
   only are then the same. *)
WillQuery(q) ==
    \/ pc[q] \in {"new", "query"}
    \/ search[q].plain /\ pc[q] \in {"fetch", "load", "put", "reload"}
Seen ==
    <<docs, writerVars, requestVars, IF \E q \in Request : WillQuery(q) THEN index ELSE NoFare>>
=============================================================================
