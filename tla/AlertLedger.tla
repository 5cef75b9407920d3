---------------------------- MODULE AlertLedger ----------------------------
(***************************************************************************)
(* What the price-drop watcher promises, with none of its machinery: no    *)
(* subscription, no batches, no sessions, no crashes.                      *)
(*                                                                         *)
(* A candidate route is published in numbered versions, each with a price. *)
(* The watcher observes versions of a route in increasing order, each at   *)
(* most once, possibly several routes in one atomic step, possibly         *)
(* skipping a version that was overwritten first.  It raises an alert      *)
(* exactly when the price it observes is lower than the one it observed    *)
(* just before for that route, and dates it.  PriceWatch implements this   *)
(* specification.                                                          *)
(***************************************************************************)
EXTENDS Naturals, Sequences

CONSTANTS
    Route,      \* the route documents
    Price,      \* the prices a route can have
    NoPrice,    \* no price observed yet
    MaxWrites,  \* bound on the number of versions
    MaxClock    \* bound on the seconds alerts are dated with

VARIABLES
    published,  \* every candidate version ever published
    seenVer,    \* highest version observed of each route, 0 for none
    lastPrice,  \* its price, NoPrice if none was observed
    alerted     \* the alerts raised for each route, oldest first

vars == <<published, seenVer, lastPrice, alerted>>

Version == [route : Route, ver : 1..MaxWrites, price : Price]

Init ==
    /\ published = {}
    /\ seenVer = [r \in Route |-> 0]
    /\ lastPrice = [r \in Route |-> NoPrice]
    /\ alerted = [r \in Route |-> <<>>]

(* A writer stores a newer version of a candidate route. *)
Publish ==
    /\ \E v \in Version :
          /\ \A u \in published : u.ver < v.ver
          /\ published' = published \cup {v}
    /\ UNCHANGED <<seenVer, lastPrice, alerted>>

IsDrop(price, last) == last # NoPrice /\ price < last

(* One atomic observation of a newer version of every route of R. *)
Observe ==
    \E R \in SUBSET Route : \E obs \in [R -> published], at \in [R -> 0..MaxClock] :
       /\ \A r \in R : obs[r].route = r /\ obs[r].ver > seenVer[r]
       /\ seenVer' = [r \in Route |-> IF r \in R THEN obs[r].ver ELSE seenVer[r]]
       /\ lastPrice' = [r \in Route |-> IF r \in R THEN obs[r].price ELSE lastPrice[r]]
       /\ alerted' =
             [r \in Route |->
                IF r \in R /\ IsDrop(obs[r].price, lastPrice[r])
                THEN Append(alerted[r], [ver |-> obs[r].ver, at |-> at[r],
                                         old |-> lastPrice[r], new |-> obs[r].price])
                ELSE alerted[r]]
       /\ UNCHANGED published

Next == Publish \/ Observe

Spec == Init /\ [][Next]_vars
=============================================================================
