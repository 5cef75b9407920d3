-------------------------- MODULE HiddenCityProofs --------------------------
(***************************************************************************)
(* What the enricher computes, for any fares and hubs.  Its loop over the  *)
(* hubs of a fare, and the dictionary in which the last of several fares   *)
(* counts, are taken by induction.  The induction is over a set of         *)
(* numbers: that the natural numbers are well founded (NatLessThan-        *)
(* WellFounded, WFMin) makes a set that has 0 and the successor of each    *)
(* of its elements contain all of them.                                    *)
(***************************************************************************)
EXTENDS HiddenCity, WellFoundedInduction, TLAPS

(* Induction over the first numbers up to L. *)
LEMMA Climb ==
    ASSUME NEW S, NEW L \in Nat, 0 \in S,
           \A n \in 0..L : n \in S /\ n < L => n + 1 \in S
    PROVE  \A n \in 0..L : n \in S
<1> DEFINE R == OpToRel(<, Nat)
           T == {n \in 0..L : n \notin S}
<1>1. IsWellFoundedOn(R, Nat)
  BY NatLessThanWellFounded
<1>2. \A x, y \in Nat : <<x, y>> \in R <=> x < y
  BY DEF OpToRel
<1> SUFFICES ASSUME T # {} PROVE FALSE
  OBVIOUS
<1>3. T \subseteq Nat
  OBVIOUS
<1> HIDE DEF R
<1>4. PICK x \in T : \A y \in T : ~(<<y, x>> \in R)
  <2> HIDE DEF T
  <2> QED BY <1>1, <1>3, WFMin
<1>5. x # 0 /\ x - 1 \in 0..L /\ x \in 0..L /\ x - 1 \in Nat /\ x \in Nat
  OBVIOUS
<1>6. x - 1 \notin T
  <2>1. <<x - 1, x>> \in R
    <3> HIDE DEF T
    <3>1. x - 1 < x
      BY <1>5
    <3> QED BY <1>2, <1>5, <3>1
  <2> HIDE DEF T
  <2> QED BY <1>4, <2>1
<1>7. x - 1 \in S
  BY <1>5, <1>6
<1>8. x \notin S
  OBVIOUS
<1> QED BY <1>5, <1>7, <1>8

(* A set of positions has a last one. *)
LEMMA LastOne ==
    ASSUME NEW L \in Nat, NEW S, S \subseteq 1..L, S # {}
    PROVE  Max(S) \in S /\ \A y \in S : y <= Max(S)
<1> DEFINE Upto(n) == S \cap (1..n)
           Done == {n \in 0..L : Upto(n) # {} => \E m \in Upto(n) : \A y \in Upto(n) : m >= y}
<1>1. 0 \in Done
  OBVIOUS
<1>2. ASSUME NEW n \in 0..L, n \in Done, n < L PROVE n + 1 \in Done
  <2>1. n + 1 \in 0..L
    BY <1>2
  <2>2. CASE n + 1 \in S
    <3>1. n + 1 \in Upto(n + 1) /\ \A y \in Upto(n + 1) : n + 1 >= y
      BY <2>2
    <3> QED BY <2>1, <3>1
  <2>3. CASE n + 1 \notin S
    <3>1. Upto(n + 1) = Upto(n)
      BY <2>3
    <3> HIDE DEF Upto
    <3> QED BY <1>2, <2>1, <3>1
  <2> QED BY <2>2, <2>3
<1>3. L \in Done
  <2> HIDE DEF Done
  <2>1. \A n \in 0..L : n \in Done
    BY <1>1, <1>2, Climb
  <2> QED BY <2>1
<1>4. Upto(L) = S
  OBVIOUS
<1>5. \E m \in S : \A y \in S : m >= y
  <2> HIDE DEF Upto
  <2> QED BY <1>3, <1>4
<1>6. Max(S) \in S /\ \A y \in S : Max(S) >= y
  BY <1>5 DEF Max
<1> QED BY <1>6
-----------------------------------------------------------------------------
(* Scores. *)

LEMMA ScoreTyped ==
    ASSUME NEW direct \in Price, NEW hidden \in Price
    PROVE  /\ ScoreOf(direct, hidden) \in Score
           /\ ScoreOf(direct, hidden).num = 0 => ScoreOf(direct, hidden) = NoScore
<1>1. direct \in Nat \ {0} /\ hidden \in Nat \ {0}
  BY HiddenCityAssumption
<1>2. CASE hidden >= direct
  BY <1>2 DEF ScoreOf, NoScore, Score
<1>3. CASE ~(hidden >= direct)
  <2>1. ScoreOf(direct, hidden) = [num |-> direct - hidden, den |-> direct]
    BY <1>3 DEF ScoreOf
  <2>2. direct - hidden \in Nat /\ direct - hidden # 0
    BY <1>1, <1>3
  <2> QED BY <1>1, <2>1, <2>2 DEF Score
<1> QED BY <1>2, <1>3

(* Factors may be added to, and cancelled from, both sides. *)
LEMMA Scale ==
    ASSUME NEW a \in Nat, NEW b \in Nat, NEW c \in Nat, a <= b
    PROVE  a * c <= b * c
OBVIOUS

LEMMA Unscale ==
    ASSUME NEW a \in Nat, NEW b \in Nat, NEW c \in Nat \ {0}, a * c <= b * c
    PROVE  a <= b
OBVIOUS

(* What is not higher than the best one is not higher than a better one. *)
LEMMA HigherStill ==
    ASSUME NEW s \in Score, NEW t \in Score, NEW u \in Score, ~Higher(s, t), Higher(u, t)
    PROVE  ~Higher(s, u)
<1>1. /\ s.num \in Nat /\ t.num \in Nat /\ u.num \in Nat
      /\ s.den \in Nat \ {0} /\ t.den \in Nat \ {0} /\ u.den \in Nat \ {0}
  BY DEF Score
<1>2. s.num * t.den <= t.num * s.den /\ t.num * u.den <= u.num * t.den
  BY <1>1 DEF Higher
<1>3. (s.num * u.den) * t.den <= (u.num * s.den) * t.den
  <2>1. (s.num * t.den) * u.den <= (t.num * s.den) * u.den
    BY <1>1, <1>2, Scale
  <2>2. (t.num * u.den) * s.den <= (u.num * t.den) * s.den
    BY <1>1, <1>2, Scale
  <2> QED BY <1>1, <2>1, <2>2
<1>4. s.num * u.den <= u.num * s.den
  BY <1>1, <1>3, Unscale
<1> QED BY <1>1, <1>4 DEF Higher
-----------------------------------------------------------------------------
(* The dictionary of direct fares. *)

LEMMA DirectFare ==
    ASSUME NEW fares \in Seq(Fare), NEW hub \in Fetched(fares)
    PROVE  \E k \in DOMAIN fares :
              /\ fares[k].dest = hub
              /\ \A j \in DOMAIN fares : fares[j].dest = hub => j <= k
              /\ DirectPrice(fares, hub) = fares[k].price
<1> DEFINE at == {i \in DOMAIN fares : fares[i].dest = hub}
<1>1. Len(fares) \in Nat /\ DOMAIN fares = 1..Len(fares)
  OBVIOUS
<1>2. at \subseteq 1..Len(fares) /\ at # {}
  BY <1>1 DEF Fetched
<1>3. Max(at) \in at /\ \A y \in at : y <= Max(at)
  <2> HIDE DEF at
  <2> QED BY <1>1, <1>2, LastOne
<1>4. DirectPrice(fares, hub) = fares[Max(at)].price
  BY DEF DirectPrice
<1> QED BY <1>3, <1>4

LEMMA HubScoreTyped ==
    ASSUME NEW fares \in Seq(Fare), NEW fare \in Fare, NEW hub
    PROVE  /\ HubScore(fares, fare, hub) \in Score
           /\ HubScore(fares, fare, hub).num = 0 => HubScore(fares, fare, hub) = NoScore
<1>1. CASE hub \in Fetched(fares)
  <2>1. PICK k \in DOMAIN fares : DirectPrice(fares, hub) = fares[k].price
    BY <1>1, DirectFare
  <2>2. fares[k] \in Fare
    OBVIOUS
  <2>3. fares[k].price \in Price /\ fare.price \in Price
    BY <2>2 DEF Fare
  <2> QED BY <1>1, <2>1, <2>3, ScoreTyped DEF HubScore
<1>2. CASE hub \notin Fetched(fares)
  BY <1>2 DEF HubScore, NoScore, Score
<1> QED BY <1>1, <1>2
-----------------------------------------------------------------------------
(* The loop over the hubs: best is what it has after each of the first n. *)
Loop(best, fares, fare, n) ==
    best = [i \in 0..n |-> IF i = 0 THEN NoVerdict
                           ELSE Better(fares, fare, best[i - 1], fare.hubs[i])]

LEMMA LoopRuns ==
    ASSUME NEW fares, NEW fare, NEW L \in Nat
    PROVE  \E best : Loop(best, fares, fare, L)
<1> DEFINE Runs == {n \in 0..L : \E best : Loop(best, fares, fare, n)}
<1>1. 0 \in Runs
  <2>1. Loop([i \in 0..0 |-> NoVerdict], fares, fare, 0)
    BY DEF Loop
  <2> QED BY <2>1
<1>2. ASSUME NEW n \in 0..L, n \in Runs, n < L PROVE n + 1 \in Runs
  <2>1. PICK g : Loop(g, fares, fare, n)
    BY <1>2
  <2> DEFINE last == Better(fares, fare, g[n], fare.hubs[n + 1])
             h == [i \in 0..(n + 1) |-> IF i = n + 1 THEN last ELSE g[i]]
             k == [i \in 0..(n + 1) |-> IF i = 0 THEN NoVerdict
                                        ELSE Better(fares, fare, h[i - 1], fare.hubs[i])]
  <2>2. ASSUME NEW i \in 0..(n + 1) PROVE h[i] = k[i]
    <3>1. CASE i = n + 1
      <4>1. i # 0 /\ i - 1 = n /\ h[i - 1] = g[n] /\ h[i] = last
        BY <3>1
      <4> HIDE DEF h
      <4> QED BY <3>1, <4>1
    <3>2. CASE i # n + 1
      <4>1. i \in 0..n /\ h[i] = g[i]
        BY <3>2
      <4>2. i # 0 => i - 1 \in 0..n /\ h[i - 1] = g[i - 1]
        BY <4>1
      <4>3. g[i] = IF i = 0 THEN NoVerdict
                   ELSE Better(fares, fare, g[i - 1], fare.hubs[i])
        BY <2>1, <4>1 DEF Loop
      <4> HIDE DEF h
      <4> QED BY <4>1, <4>2, <4>3
    <3> QED BY <3>1, <3>2
  <2>3. h = k
    <3>1. DOMAIN h = 0..(n + 1) /\ DOMAIN k = 0..(n + 1)
      OBVIOUS
    <3>2. h = [i \in 0..(n + 1) |-> h[i]] /\ k = [i \in 0..(n + 1) |-> k[i]]
      OBVIOUS
    <3> HIDE DEF h, k
    <3> QED BY <2>2, <3>2
  <2>4. Loop(h, fares, fare, n + 1)
    <3> HIDE DEF h
    <3> QED BY <2>3 DEF Loop
  <2>5. n + 1 \in 0..L
    BY <1>2
  <2> QED BY <2>4, <2>5
<1> HIDE DEF Runs
<1>3. \A n \in 0..L : n \in Runs
  BY <1>1, <1>2, Climb
<1>4. L \in Runs
  BY <1>3
<1> QED BY <1>4 DEF Runs

LEMMA VerdictByLoop ==
    ASSUME NEW fares, NEW fare, Len(fare.hubs) \in Nat
    PROVE  \E best : Loop(best, fares, fare, Len(fare.hubs))
                     /\ Verdict(fares, fare) = best[Len(fare.hubs)]
<1> DEFINE best == CHOOSE b : Loop(b, fares, fare, Len(fare.hubs))
<1>1. Loop(best, fares, fare, Len(fare.hubs))
  <2>1. \E b : Loop(b, fares, fare, Len(fare.hubs))
    BY LoopRuns
  <2> QED BY <2>1
<1>2. Verdict(fares, fare) = best[Len(fare.hubs)]
  BY DEF Verdict, Loop
<1> QED BY <1>1, <1>2
-----------------------------------------------------------------------------
(* What the loop has after n hubs: a hub among them with its score and no better one, or
   none if none of them saves anything. *)
BestOf(fares, fare, n, v) ==
    /\ v \in [via : Dest \cup {NoDest}, score : Score]
    /\ v.via # NoDest <=> v.score.num > 0
    /\ v.via # NoDest => /\ \E j \in 1..n : fare.hubs[j] = v.via
                         /\ v.score = HubScore(fares, fare, v.via)
    /\ v.score.num = 0 => v.score = NoScore
    /\ \A j \in 1..n : ~Higher(HubScore(fares, fare, fare.hubs[j]), v.score)

LEMMA NoVerdictBest ==
    ASSUME NEW fares, NEW fare PROVE BestOf(fares, fare, 0, NoVerdict)
BY DEF BestOf, NoVerdict, NoScore, Score

LEMMA BetterBest ==
    ASSUME NEW fares \in Seq(Fare), NEW fare \in Fare, NEW n \in Nat, n < Len(fare.hubs),
           NEW v, BestOf(fares, fare, n, v)
    PROVE  BestOf(fares, fare, n + 1, Better(fares, fare, v, fare.hubs[n + 1]))
<1> DEFINE hub == fare.hubs[n + 1]
           score == HubScore(fares, fare, hub)
<1>1. hub \in Dest /\ hub # NoDest
  <2>1. fare.hubs \in Seq(Dest)
    BY DEF Fare
  <2>2. hub \in Dest
    BY <2>1
  <2> QED BY <2>2, HiddenCityAssumption
<1>2. score \in Score /\ (score.num = 0 => score = NoScore)
  BY HubScoreTyped
<1>3. 1..(n + 1) = (1..n) \cup {n + 1} /\ n + 1 \in 1..(n + 1)
  OBVIOUS
<1>4. v.score \in Score
  BY DEF BestOf
<1>5. \A j \in 1..n : HubScore(fares, fare, fare.hubs[j]) \in Score
  BY HubScoreTyped
<1>6. CASE Higher(score, v.score)
  <2> DEFINE w == [via |-> hub, score |-> score]
  <2>1. Better(fares, fare, v, hub) = w
    BY <1>6 DEF Better
  <2>2. score.num > 0
    <3>1. /\ score.num \in Nat /\ v.score.num \in Nat
          /\ score.den \in Nat \ {0} /\ v.score.den \in Nat \ {0}
          /\ score.num * v.score.den > v.score.num * score.den
      BY <1>2, <1>4, <1>6 DEF Higher, Score
    <3>2. CASE score.num = 0
      <4>1. score.num * v.score.den = 0 /\ v.score.num * score.den \in Nat
        BY <3>1, <3>2
      <4> QED BY <3>1, <4>1
    <3> QED BY <3>1, <3>2
  <2>3. \A j \in 1..n : ~Higher(HubScore(fares, fare, fare.hubs[j]), score)
    BY <1>2, <1>4, <1>5, <1>6, HigherStill DEF BestOf
  <2>4. ~Higher(score, score)
    BY <1>2 DEF Higher, Score
  <2>5. w.via = hub /\ w.score = score /\ w \in [via : Dest \cup {NoDest}, score : Score]
    BY <1>1, <1>2
  <2> HIDE DEF w
  <2>6. \A j \in 1..(n + 1) : ~Higher(HubScore(fares, fare, fare.hubs[j]), w.score)
    BY <1>3, <2>3, <2>4, <2>5
  <2>7. \E j \in 1..(n + 1) : fare.hubs[j] = w.via
    BY <1>3, <2>5
  <2>8. BestOf(fares, fare, n + 1, w)
    BY <1>1, <2>2, <2>5, <2>6, <2>7 DEF BestOf
  <2> QED BY <2>1, <2>8
<1>7. CASE ~Higher(score, v.score)
  <2>1. Better(fares, fare, v, hub) = v
    BY <1>7 DEF Better
  <2> QED BY <1>3, <1>7, <2>1 DEF BestOf
<1> QED BY <1>6, <1>7

(* enrich_hidden_city keeps the best hub of a fare, whatever its hubs and the other fares
   (enricher.py:25-46): it is one of the fare's hubs, its score is what it saves, no other
   hub saves a greater share, and without a hub there is no score. *)
THEOREM VerdictIsBest ==
    ASSUME NEW fares \in Seq(Fare), NEW fare \in Fare
    PROVE  BestOf(fares, fare, Len(fare.hubs), Verdict(fares, fare))
<1> DEFINE L == Len(fare.hubs)
<1>1. fare.hubs \in Seq(Dest)
  BY DEF Fare
<1>2. L \in Nat
  BY <1>1
<1>3. PICK best : Loop(best, fares, fare, L) /\ Verdict(fares, fare) = best[L]
  BY <1>2, VerdictByLoop
<1> HIDE DEF L
<1>4. \A n \in 0..L : best[n] = IF n = 0 THEN NoVerdict
                                ELSE Better(fares, fare, best[n - 1], fare.hubs[n])
  BY <1>3 DEF Loop
<1> DEFINE Good == {n \in 0..L : BestOf(fares, fare, n, best[n])}
<1>5. 0 \in Good
  BY <1>2, <1>4, NoVerdictBest
<1>6. ASSUME NEW n \in 0..L, n \in Good, n < L PROVE n + 1 \in Good
  <2>1. n \in Nat /\ n + 1 \in 0..L /\ n + 1 # 0 /\ (n + 1) - 1 = n
    BY <1>2, <1>6
  <2>2. best[n + 1] = Better(fares, fare, best[n], fare.hubs[n + 1])
    BY <1>4, <2>1
  <2>3. BestOf(fares, fare, n, best[n])
    BY <1>6
  <2>4. BestOf(fares, fare, n + 1, best[n + 1])
    BY <1>6, <2>1, <2>2, <2>3, BetterBest DEF L
  <2> QED BY <2>1, <2>4
<1>7. L \in Good
  <2> HIDE DEF Good
  <2>1. \A n \in 0..L : n \in Good
    BY <1>2, <1>5, <1>6, Climb
  <2> QED BY <1>2, <2>1
<1> QED BY <1>3, <1>7 DEF L
=============================================================================
