----------------------------- MODULE HiddenCity -----------------------------
(***************************************************************************)
(* The arithmetic of hidden-city fares: the scorer and the enricher        *)
(* (src/hidden_city).  All routes here leave from one origin, the only     *)
(* ones the code compares with each other.                                 *)
(*                                                                         *)
(* A score is a fraction, kept exact; the code computes it in binary       *)
(* floating point.  A risk multiplier is in tenths.                        *)
(***************************************************************************)
EXTENDS Integers, Sequences, SequencesExt

CONSTANTS
    Dest,         \* destinations; a hub is the destination of its own direct route
    NoDest,       \* no hub
    Price,        \* the prices of a fare
    MinSavings    \* MIN_SAVINGS_USD

ASSUME HiddenCityAssumption ==
    /\ NoDest \notin Dest
    /\ Price \subseteq Nat \ {0}
    /\ MinSavings \in Nat

NoScore == [num |-> 0, den |-> 1]
Score == [num : Nat, den : Nat \ {0}]

(* score_candidate without risks: the share of the direct price that is saved. *)
ScoreOf(direct, hidden) ==
    IF hidden >= direct THEN NoScore ELSE [num |-> direct - hidden, den |-> direct]

Higher(s, t) == s.num * t.den > t.num * s.den

(* The checked-baggage multiplier applies to everybody who does not say carry-on only. *)
Tenths(carryOn) == IF carryOn THEN 10 ELSE 2

(* A wrong variant of ShouldSurface: the search forgets the risks. *)
MutShouldSurface(direct, hidden, carryOn) ==
    /\ 2 * ScoreOf(direct, hidden).num >= ScoreOf(direct, hidden).den
    /\ direct - hidden >= MinSavings

(* should_surface: the score with its risks is at least a half and the saving is worth it. *)
ShouldSurface(direct, hidden, carryOn) ==
    LET score == ScoreOf(direct, hidden) IN
    /\ 2 * Tenths(carryOn) * score.num >= 10 * score.den
    /\ direct - hidden >= MinSavings
-----------------------------------------------------------------------------
(* The enricher.  Fares are a sequence, as fetched, of destinations, prices and hubs; a
   destination may occur more than once. *)
Fare == [dest : Dest, price : Price, hubs : Seq(Dest)]

Fetched(fares) == {fares[i].dest : i \in DOMAIN fares}

(* A wrong variant of DirectPrice: the first of several fares counts. *)
MutDirectPrice(fares, hub) == fares[Min({i \in DOMAIN fares : fares[i].dest = hub})].price

(* by_dest is a dictionary: of several fares to one destination the last one counts. *)
DirectPrice(fares, hub) == fares[Max({i \in DOMAIN fares : fares[i].dest = hub})].price

NoVerdict == [via |-> NoDest, score |-> NoScore]

(* What the hub of a fare is worth. *)
HubScore(fares, fare, hub) ==
    IF hub \in Fetched(fares) THEN ScoreOf(DirectPrice(fares, hub), fare.price) ELSE NoScore

(* One turn of the loop over the hubs of a fare: a hub that is worth more than the best one
   before it takes its place.  A wrong variant of Better: the last hub that saves anything. *)
MutBetter(fares, fare, best, hub) ==
    LET score == HubScore(fares, fare, hub) IN
    IF Higher(score, NoScore) THEN [via |-> hub, score |-> score] ELSE best
Better(fares, fare, best, hub) ==
    LET score == HubScore(fares, fare, hub) IN
    IF Higher(score, best.score) THEN [via |-> hub, score |-> score] ELSE best

(* hidden_city_via and hidden_city_score of a fare: best[n] is what the loop has after n
   hubs. *)
Verdict(fares, fare) ==
    LET best[n \in 0..Len(fare.hubs)] ==
          IF n = 0 THEN NoVerdict ELSE Better(fares, fare, best[n - 1], fare.hubs[n])
    IN best[Len(fare.hubs)]
=============================================================================
