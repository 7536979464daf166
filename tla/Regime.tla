------------------------------- MODULE Regime -------------------------------
(* The market regime of detect_regime_v2(): four scores of the day, their    *)
(* weighted mean, and a hysteresis against flapping.  Scores, gaps and       *)
(* volatilities are in thousandths, rounded down; spreads in basis points.   *)
EXTENDS Integers, FiniteSetsExt

CONSTANTS
  Markets,   \* what one day's data may say
  MinDays, HysteresisBuffer

Absent == -1     \* a dimension that was not provided

ASSUME RegimeAssumption ==
  /\ MinDays \in Nat /\ HysteresisBuffer \in 0..100
  /\ \A m \in Markets :
       /\ m.bars \in Nat /\ m.gap \in Int /\ m.above \in 0..20 /\ m.vol \in Nat
       /\ m.total \in Nat \cup {Absent} /\ m.rising \in Nat
       /\ m.spread \in Nat \cup {Absent} /\ m.wide \in Nat

VARIABLES
  regime,  \* the regime, what the caller hands back as prev_regime
  daysIn,    \* days_in_current_regime, up to MinDays
  turn     \* history: the last change with its score; none after a reset
regimeVars == <<regime, daysIn, turn>>

NoRegime == "none"   \* no regime known yet
Regimes == {"bear", "sideways", "bull"}
Rank == [bear |-> 1, sideways |-> 2, bull |-> 3]
NoTurn == [from |-> NoRegime, at |-> 0]

-----------------------------------------------------------------------------
(* Scores *)

Clamp(x, lo, hi) == Max({lo, Min({x, hi})})
(* 0 at or below lo, 1000 at or above hi, linear in between *)
Ramp(x, lo, hi) == Clamp((1000 * (x - lo)) \div (hi - lo), 0, 1000)

(* Gap between the averages of 50 and 200 days, closes above the former.     *)
TrendScore(m) == (60 * Ramp(m.gap, -100, 100) + 40 * 50 * m.above) \div 100
VolatilityScore(m) == 1000 - Ramp(m.vol, 160, 280)

(* Symbols above their average of 50 days, of those with enough history.     *)
BreadthScore(m) ==
  IF m.total = 0 THEN 500 ELSE Ramp((1000 * m.rising) \div m.total, 400, 650)
LiquidityScore(m) ==
  LET median == 1000 - Ramp(m.spread, 8, 18)
      wide   == Max({0, 1000 - 4 * m.wide})
  IN (60 * median + 40 * wide) \div 100

Weighted(m) ==
  {<<350, TrendScore(m)>>, <<300, VolatilityScore(m)>>}
    \cup (IF m.total = Absent THEN {} ELSE {<<250, BreadthScore(m)>>})
    \cup (IF m.spread = Absent THEN {} ELSE {<<100, LiquidityScore(m)>>})
Composite(m) ==
  FoldSet(LAMBDA w, acc : acc + w[1] * w[2], 0, Weighted(m))
    \div FoldSet(LAMBDA w, acc : acc + w[1], 0, Weighted(m))

-----------------------------------------------------------------------------
(* Regime *)

Raw(c) == IF c >= 600 THEN "bull" ELSE IF c <= 400 THEN "bear" ELSE "sideways"

(* _apply_regime_hysteresis(): the score does not justify leaving prev.      *)
Stays(prev, c) ==
  \/ prev = "bull" /\ c >= 600 - HysteresisBuffer
  \/ prev = "bear" /\ c <= 400 + HysteresisBuffer
  \/ prev = "sideways" /\ 400 - HysteresisBuffer < c /\ c < 600 + HysteresisBuffer

HysteresisOneSided(prev, since, c) ==  \* mutant: sideways is left at once
  IF prev = NoRegime \/ Raw(c) = prev THEN Raw(c)
  ELSE IF since < MinDays \/ (prev # "sideways" /\ Stays(prev, c)) THEN prev
  ELSE Raw(c)
Hysteresis(prev, since, c) ==
  IF prev = NoRegime \/ Raw(c) = prev THEN Raw(c)
  ELSE IF since < MinDays \/ Stays(prev, c) THEN prev
  ELSE Raw(c)

(* detect_regime_v2(): less than 200 bars of the index are no evidence.      *)
Detected(m, prev, since) ==
  IF m.bars < 200 THEN "sideways" ELSE Hysteresis(prev, since, Composite(m))

-----------------------------------------------------------------------------
RegimeInit == regime = NoRegime /\ daysIn = 0 /\ turn = NoTurn

(* A day: the caller hands in the last regime and counts its days.           *)
Judge(m) ==
  /\ regime' = Detected(m, regime, daysIn)
  /\ daysIn' = IF regime' = regime THEN Min({daysIn + 1, MinDays}) ELSE 1
  /\ turn' = IF m.bars < 200 THEN NoTurn
             ELSE IF regime' \in {regime, NoRegime} THEN turn
             ELSE [from |-> regime, at |-> Composite(m)]

RegimeNext == \E m \in Markets : Judge(m)
RegimeSpec == RegimeInit /\ [][RegimeNext]_regimeVars

-----------------------------------------------------------------------------
RegimeTypeOK ==
  /\ regime \in Regimes \cup {NoRegime} /\ daysIn \in 0..(MinDays + 1)
  /\ turn.from \in Regimes \cup {NoRegime} /\ turn.at \in 0..1000

Distance(x, y) == Max({x - y, y - x})

(* The regime does not flap: once it has changed it returns to what it was   *)
(* only after MinDays days and after the score has moved by more than twice  *)
(* the buffer since the change, but for a reset by missing data.             *)
NoFlapping ==
  [][(regime' # regime /\ regime' = turn.from /\ turn' # NoTurn)
       => daysIn >= MinDays /\ Distance(turn.at, turn'.at) > 2 * HysteresisBuffer]_regimeVars

(* From any state a day that is better in every respect never leads to a     *)
(* lower regime (with the same dimensions provided).                         *)
Better(m, n) ==
  /\ m.bars >= 200 /\ n.bars >= 200
  /\ m.gap >= n.gap /\ m.above >= n.above /\ m.vol <= n.vol
  /\ m.total = n.total /\ (m.total # Absent => m.rising >= n.rising)
  /\ IF Absent \in {m.spread, n.spread} THEN m.spread = n.spread
     ELSE m.spread <= n.spread /\ m.wide <= n.wide
BetterMarketsRankHigher ==
  regime # NoRegime => \A m, n \in Markets : Better(m, n) =>
    Rank[Detected(m, regime, daysIn)] >= Rank[Detected(n, regime, daysIn)]

(* The regime follows the market: in order, and not back and forth. *)
RegimeIsSound == [](RegimeTypeOK /\ BetterMarketsRankHigher) /\ NoFlapping
=============================================================================
