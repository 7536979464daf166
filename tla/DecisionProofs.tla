--------------------------- MODULE DecisionProofs ---------------------------
(***************************************************************************)
(* Proofs about the libraries that decide and judge, each on its own: for  *)
(* any readings, prices, histories and limits that its module allows.      *)
(***************************************************************************)
EXTENDS FencingTokens, Universe, CanaryGate, CanaryProbe, Validation, MarketData, SloBudget,
        FiniteSetTheorems, WellFoundedInduction, TLAPS

-----------------------------------------------------------------------------
(***************************************************************************)
(* Least and greatest numbers, quotients, and choices from a queue.        *)
(***************************************************************************)

(* What nothing in a set undercuts is its least element. *)
LEMMA LeastOfASet ==
  ASSUME NEW S, S \subseteq Int, NEW x \in S, \A y \in S : x <= y
  PROVE  Min(S) = x
<1>1. \A z \in S : (\A y \in S : z <= y) => z = x
  OBVIOUS
<1>2. QED
  BY <1>1 DEF Min

(* What nothing in a set exceeds is its greatest element. *)
LEMMA GreatestOfASet ==
  ASSUME NEW S, S \subseteq Int, NEW x \in S, \A y \in S : x >= y
  PROVE  Max(S) = x
<1>1. \A z \in S : (\A y \in S : z >= y) => z = x
  OBVIOUS
<1>2. QED
  BY <1>1 DEF Max

(* The greater of two numbers, and the lesser. *)
LEMMA MaxOfTwoNumbers ==
  ASSUME NEW x \in Int, NEW y \in Int
  PROVE  Max({x, y}) = IF x >= y THEN x ELSE y
<1> DEFINE m == IF x >= y THEN x ELSE y
<1>1. m \in {x, y} /\ \A w \in {x, y} : m >= w
  OBVIOUS
<1>2. \A z \in {x, y} : (\A w \in {x, y} : z >= w) => z = m
  OBVIOUS
<1>3. QED
  BY <1>1, <1>2 DEF Max

LEMMA LesserOfTwo ==
  ASSUME NEW x \in Int, NEW y \in Int
  PROVE  Min({x, y}) \in {x, y} /\ Min({x, y}) <= x /\ Min({x, y}) <= y
<1>1. \E z \in {x, y} : \A w \in {x, y} : z <= w
  <2>1. CASE x <= y
    BY <2>1
  <2>2. CASE y <= x
    BY <2>2
  <2> QED
    BY <2>1, <2>2
<1> QED
  BY <1>1 DEF Min

(* Every set of naturals that is not empty has a least one.                  *)
LEMMA LeastNatural ==
  ASSUME NEW T, T \subseteq Nat, T # {}
  PROVE  \E n \in T : \A m \in T : n <= m
<1>1. \E x \in T : \A y \in T : ~(<<y, x>> \in OpToRel(<, Nat))
  BY NatLessThanWellFounded, WFMin
<1>2. \A x, y \in Nat : y < x => <<y, x>> \in OpToRel(<, Nat)
  BY DEF OpToRel
<1>3. \A x, y \in Nat : ~(y < x) => x <= y
  OBVIOUS
<1>4. QED
  BY <1>1, <1>2, <1>3, Zenon

(* A number is a multiple of the divisor and the rest. *)
LEMMA DivisionWithRest ==
  ASSUME NEW n \in Int, NEW d \in Int, d > 0
  PROVE  n = d * (n \div d) + (n % d) /\ n \div d \in Int /\ n % d \in 0..(d - 1)
  OBVIOUS

(* A greater number has no lesser quotient. *)
LEMMA DivisionIsMonotone ==
  ASSUME NEW x \in Int, NEW y \in Int, NEW d \in Int, d > 0, x <= y
  PROVE  x \div d <= y \div d
<1>1. PICK p, q \in Int, r, s \in 0..(d - 1) :
        x \div d = p /\ y \div d = q /\ x = d * p + r /\ y = d * q + s
  OBVIOUS
<1>2. SUFFICES ASSUME p >= q + 1 PROVE FALSE
  BY <1>1
<1>3. d * p >= d * (q + 1)
  BY <1>2
<1>4. d * (q + 1) = d * q + d
  OBVIOUS
<1>5. QED
  BY <1>1, <1>3, <1>4

(* A quotient is the number of times the divisor goes into a number.         *)
LEMMA QuotientIsBetween ==
  ASSUME NEW n \in Int, NEW d \in Int, d > 0, NEW k \in Int
  PROVE  (k * d <= n => k <= n \div d) /\ (n < k * d => n \div d < k)
<1>1. PICK q \in Int, r \in 0..(d - 1) : n \div d = q /\ n = d * q + r
  OBVIOUS
<1>2. ASSUME k >= q + 1 PROVE n < k * d
  <2>1. d * k >= d * (q + 1)
    BY <1>1, <1>2
  <2>2. d * (q + 1) = d * q + d /\ d * k = k * d
    BY <1>1
  <2>3. QED
    BY <1>1, <2>1, <2>2
<1>3. ASSUME k <= q PROVE k * d <= n
  <2>1. d * k <= d * q
    BY <1>1, <1>3
  <2>2. d * k = k * d
    OBVIOUS
  <2>3. QED
    BY <1>1, <2>1, <2>2
<1>4. QED
  BY <1>1, <1>2, <1>3

(* The places of a sequence whose elements are in a set, and how they change *)
(* when an element is added or the first is dropped.                         *)
Picked(s, G) == {i \in DOMAIN s : s[i] \in G}

LEMMA PickedAreFew ==
  ASSUME NEW S, NEW s \in Seq(S), NEW G
  PROVE  IsFiniteSet(Picked(s, G)) /\ Cardinality(Picked(s, G)) \in Nat
<1>1. Len(s) \in Nat /\ DOMAIN s = 1..Len(s)
  OBVIOUS
<1>2. IsFiniteSet(1..Len(s)) /\ Picked(s, G) \in SUBSET (1..Len(s))
  BY <1>1, FS_Interval DEF Picked
<1>3. QED
  BY <1>2, FS_Subset, FS_CardinalityType

LEMMA OneMorePicked ==
  ASSUME NEW S, NEW s \in Seq(S), NEW x \in S, NEW G
  PROVE  Cardinality(Picked(Append(s, x), G))
           = Cardinality(Picked(s, G)) + (IF x \in G THEN 1 ELSE 0)
<1>1. PICK t : t = Append(s, x)
  OBVIOUS
<1>2. PICK n \in Nat : n = Len(s)
  OBVIOUS
<1>3. DOMAIN s = 1..n /\ DOMAIN t = (1..n) \cup {n + 1} /\ t[n + 1] = x
      /\ (\A i \in 1..n : t[i] = s[i]) /\ n + 1 \notin 1..n
  BY <1>1, <1>2
<1>4. Picked(t, G) = IF x \in G THEN Picked(s, G) \cup {n + 1} ELSE Picked(s, G)
  BY <1>3 DEF Picked
<1>5. IsFiniteSet(Picked(s, G)) /\ Cardinality(Picked(s, G)) \in Nat
  BY PickedAreFew
<1>6. n + 1 \notin Picked(s, G)
  BY <1>3 DEF Picked
<1>7. PICK P : P = Picked(s, G)
  OBVIOUS
<1>8. Cardinality(P \cup {n + 1}) = Cardinality(P) + 1
  BY <1>5, <1>6, <1>7, FS_AddElement
<1>9. CASE x \in G
  BY <1>1, <1>4, <1>7, <1>8, <1>9
<1>10. CASE x \notin G
  BY <1>1, <1>4, <1>5, <1>10
<1>11. QED
  BY <1>9, <1>10

LEMMA HeadUnpicked ==
  ASSUME NEW S, NEW s \in Seq(S), s # <<>>, NEW G
  PROVE  Cardinality(Picked(Tail(s), G))
           = Cardinality(Picked(s, G)) - (IF s[1] \in G THEN 1 ELSE 0)
<1>1. PICK t : t = Tail(s)
  OBVIOUS
<1>2. PICK n \in Nat : n = Len(s) /\ n > 0
  OBVIOUS
<1>3. DOMAIN s = 1..n /\ DOMAIN t = 1..(n - 1) /\ t \in Seq(S)
      /\ (\A i \in 1..(n - 1) : t[i] = s[i + 1])
  BY <1>1, <1>2
<1>4. PICK T : T = Picked(t, G)
  OBVIOUS
<1>5. PICK R : R = Picked(s, G) \ {1}
  OBVIOUS
<1>6. T = {i \in 1..(n - 1) : s[i + 1] \in G} /\ R = {i \in 2..n : s[i] \in G}
  <2>1. T = {i \in 1..(n - 1) : s[i + 1] \in G}
    BY <1>3, <1>4 DEF Picked
  <2>2. R = {i \in (1..n) \ {1} : s[i] \in G}
    BY <1>3, <1>5 DEF Picked
  <2>3. (1..n) \ {1} = 2..n
    BY <1>2
  <2>4. QED
    BY <2>1, <2>2, <2>3
<1>7. ExistsBijection(T, R)
  <2> DEFINE f == [i \in T |-> i + 1]
  <2>1. f \in [T -> R]
    BY <1>6
  <2>2. \A i, j \in T : f[i] = f[j] => i = j
    BY <1>6
  <2>3. ASSUME NEW k \in R PROVE \E i \in T : f[i] = k
    <3>1. k - 1 \in T /\ (k - 1) + 1 = k
      BY <1>6
    <3>2. QED
      BY <3>1
  <2>4. f \in Bijection(T, R)
    BY <2>1, <2>2, <2>3 DEF Bijection, Injection, Surjection, IsInjective
  <2>5. QED
    BY <2>4 DEF ExistsBijection
<1>8. IsFiniteSet(T) /\ Cardinality(R) = Cardinality(T)
  BY <1>3, <1>4, <1>7, PickedAreFew, FS_Bijection
<1>9. IsFiniteSet(Picked(s, G)) /\ Cardinality(Picked(s, G)) \in Nat
  BY PickedAreFew
<1>10. 1 \in Picked(s, G) <=> s[1] \in G
  BY <1>2, <1>3 DEF Picked
<1>11. Cardinality(R) = IF s[1] \in G THEN Cardinality(Picked(s, G)) - 1
                                     ELSE Cardinality(Picked(s, G))
  BY <1>5, <1>9, <1>10, FS_RemoveElement
<1>12. QED
  BY <1>1, <1>4, <1>8, <1>9, <1>11

-----------------------------------------------------------------------------
(***************************************************************************)
(* The gate between the stages.                                            *)
(***************************************************************************)

GateInv ==
  /\ GateTypeOK /\ days \in Nat /\ mismatches \in Nat
  /\ decision = Decided(snapshot)
  /\ snapshot.days \in Nat /\ snapshot.mismatches \in Nat /\ snapshot.sharpe \in Int
  /\ snapshot.drawdown \in Int /\ (snapshot.green => snapshot.days > 0)
  /\ asked \in Nat /\ snapshot.mismatches = asked

(* What a question is answered with, told reason by reason. *)
LEMMA ReasonsOfADecision ==
  ASSUME NEW s, s.days \in Nat, s.mismatches \in Nat, s.sharpe \in Int, s.drawdown \in Int
  PROVE  LET has(R) == Decided(s).against \cap R # {} IN
         /\ "full" \in Decided(s).ready <=> Decided(s).against = {}
         /\ "canary1" \in Decided(s).ready <=> ~has({"days_1", "mismatches"})
         /\ "canary2" \in Decided(s).ready <=> ~has({"days_1", "mismatches", "days_2", "sharpe"})
<1> DEFINE has(R) == Against(s) \cap R # {}
<1>1. /\ Decided(s).against = Against(s)
      /\ "canary1" \in Decided(s).ready <=> Canary1(s)
      /\ "canary2" \in Decided(s).ready <=> Canary2(s)
      /\ "full" \in Decided(s).ready <=> Full(s)
  BY DEF Decided
<1>2. /\ "days_1" \in Against(s) <=> s.days < 10
      /\ "mismatches" \in Against(s) <=> s.mismatches # 0
      /\ "days_2" \in Against(s) <=> Canary1(s) /\ s.days < 25
      /\ "sharpe" \in Against(s) <=> (s.sharpe = NotGiven \/ s.sharpe <= 500)
      /\ "days_full" \in Against(s) <=> Canary2(s) /\ s.days < 45
      /\ "drawdown" \in Against(s) <=> (s.drawdown = NotGiven \/ s.drawdown >= 80)
      /\ "slo" \in Against(s) <=> ~s.green
      /\ Against(s) \subseteq
           {"days_1", "mismatches", "days_2", "sharpe", "days_full", "drawdown", "slo"}
  BY DEF Against
<1>3. Canary1(s) <=> ~has({"days_1", "mismatches"})
  BY <1>2 DEF Canary1
<1>4. Canary2(s) <=> ~has({"days_1", "mismatches", "days_2", "sharpe"})
  BY <1>2 DEF Canary1, Canary2
<1>5. Full(s) <=> Against(s) = {}
  BY <1>2 DEF Canary1, Canary2, Full
<1>6. QED
  BY <1>1, <1>3, <1>4, <1>5

LEMMA GateInvInit == GateInit => GateInv
<1> SUFFICES ASSUME GateInit PROVE GateInv
  OBVIOUS
<1>1. decision.ready \subseteq {"canary1", "canary2", "full"}
  BY DEF GateInit, Decided
<1>2. QED
  BY <1>1, GateAssumption DEF GateInit, GateInv, GateTypeOK, Empty, NotGiven

LEMMA GateInvNext == GateInv /\ [GateNext]_gateVars => GateInv'
<1> SUFFICES ASSUME GateInv, [GateNext]_gateVars PROVE GateInv'
  OBVIOUS
<1> USE GateAssumption
<1>1. CASE TradeOn
  <2>1. PICK d \in TradingDays : d > days /\ days' = d
    BY <1>1 DEF TradeOn
  <2>2. UNCHANGED <<mismatches, snapshot, decision, asked>> /\ d \in Nat
    BY <1>1 DEF TradeOn
  <2>3. snapshot.days <= d
    BY <2>1, <2>2 DEF GateInv, GateTypeOK
  <2>4. QED
    BY <2>1, <2>2, <2>3 DEF GateInv, GateTypeOK
<1>2. CASE Mismatch
  BY <1>2 DEF GateInv, GateTypeOK, Mismatch
<1>3. CASE Ask
  <2>1. PICK sharpe \in Sharpes \cup {NotGiven}, drawdown \in Drawdowns \cup {NotGiven},
             green \in BOOLEAN :
          snapshot' = [days |-> days, mismatches |-> mismatches, sharpe |-> sharpe,
                       drawdown |-> drawdown, green |-> green /\ days > 0]
    BY <1>3 DEF Ask
  <2>2. decision' = Decided(snapshot') /\ asked' = mismatches /\ UNCHANGED <<days, mismatches>>
    BY <1>3 DEF Ask
  <2>3. /\ snapshot'.days = days /\ snapshot'.mismatches = mismatches
        /\ snapshot'.sharpe = sharpe /\ snapshot'.drawdown = drawdown
        /\ snapshot'.green => days > 0
    BY <2>1
  <2>4. decision'.ready \subseteq {"canary1", "canary2", "full"}
    BY <2>2 DEF Decided
  <2>5. sharpe \in Int /\ drawdown \in Int
    BY DEF NotGiven
  <2>6. QED
    BY <2>2, <2>3, <2>4, <2>5 DEF GateInv, GateTypeOK
<1>4. CASE UNCHANGED gateVars
  BY <1>4 DEF GateInv, GateTypeOK, gateVars
<1>5. QED
  BY <1>1, <1>2, <1>3, <1>4 DEF GateNext

(* Whatever was recorded and asked, the reasons explain the stages, and a    *)
(* mismatch blocks every later question for good.                            *)
THEOREM GatesAreStrict == GateSpec => []GateIsStrict
<1>1. GateInv => GateTypeOK /\ ReasonsExplain
  BY ReasonsOfADecision DEF GateInv, ReasonsExplain
<1>2. GateInv => MismatchIsForGood
  <2>1. SUFFICES ASSUME GateInv, asked > 0 PROVE decision.ready = {}
    BY DEF MismatchIsForGood
  <2>2. ~Canary1(snapshot) /\ ~Canary2(snapshot) /\ ~Full(snapshot)
    BY <2>1 DEF GateInv, Canary1, Canary2, Full
  <2>3. QED
    BY <2>1, <2>2 DEF GateInv, Decided
<1>3. QED
  BY <1>1, <1>2, GateInvInit, GateInvNext, PTL DEF GateSpec, GateIsStrict

-----------------------------------------------------------------------------
(***************************************************************************)
(* The universe.                                                           *)
(***************************************************************************)

UniverseInv ==
  /\ today \in Nat /\ bars \in Seq(SUBSET Tickers)
  /\ (today = 0 => bars = <<>>) /\ (today > 0 => Len(bars) = today - 1)
  /\ DOMAIN excluded = Tickers /\ eligible \subseteq Tickers
  /\ \A day \in ran : day \in Nat /\ day <= today /\ today > 0
  /\ FlaggedIsNotTraded

LEMMA UniverseInvInit == UniverseInit => UniverseInv
<1> SUFFICES ASSUME UniverseInit PROVE UniverseInv
  OBVIOUS
<1>1. /\ today = 0 /\ bars = <<>> /\ eligible = {} /\ ran = {}
      /\ excluded = [s \in Tickers |-> "not_built"]
  BY DEF UniverseInit
<1>2. \A s \in Tickers : excluded[s] # Active
  BY <1>1 DEF Active
<1>3. FlaggedIsNotTraded
  BY <1>1, <1>2 DEF FlaggedIsNotTraded, ActiveSymbols
<1>4. bars \in Seq(SUBSET Tickers) /\ DOMAIN excluded = Tickers
  BY <1>1
<1> QED
  BY <1>1, <1>3, <1>4 DEF UniverseInv

(* What the filters have against a symbol on a day that has come is read off *)
(* bars that are in already: another bar does not change it.                 *)
LEMMA TheNextBarChangesNoFlag ==
  ASSUME UniverseInv, BarsClose, NEW s, NEW day \in Nat, day <= today
  PROVE  Flagged(s, day)' <=> Flagged(s, day)
<1>1. PICK traded \in SUBSET Tickers : bars' = Append(bars, traded)
  BY DEF BarsClose
<1>2. /\ today \in Nat /\ Len(bars) = today - 1 /\ bars \in Seq(SUBSET Tickers)
      /\ earnings' = earnings /\ exdiv' = exdiv
  BY DEF UniverseInv, BarsClose
<1>3. \A k \in 1..(day - 1) : bars'[k] = bars[k]
  BY <1>1, <1>2
<1>4. \A n \in HaltDays..(day - 1) : \A k \in (n - HaltDays + 1)..n : bars'[k] = bars[k]
  <2>1. ASSUME NEW n \in HaltDays..(day - 1), NEW k \in (n - HaltDays + 1)..n
        PROVE  k \in 1..(day - 1)
    BY <2>1 DEF HaltDays
  <2> QED
    BY <1>3, <2>1
<1>5. Halted(s, day)' <=> Halted(s, day)
  BY <1>4 DEF Halted
<1> QED
  BY <1>2, <1>5 DEF Flagged

(* After the filters of a day an active symbol was active before, and they   *)
(* have nothing against it.                                                  *)
LEMMA FilterFlags ==
  ASSUME UniverseInv, NEW s \in Tickers
  PROVE  DailyReason(s) = Active <=> excluded[s] = Active /\ ~Flagged(s, today)
<1>1. /\ "earnings_soon" # Active /\ "ex_div_tomorrow" # Active /\ "halted" # Active
  BY DEF Active
<1> QED
  BY <1>1 DEF DailyReason, Flagged

LEMMA UniverseInvNext == UniverseInv /\ [UniverseNext]_universeVars => UniverseInv'
<1> SUFFICES ASSUME UniverseInv, [UniverseNext]_universeVars PROVE UniverseInv'
  OBVIOUS
<1>1. CASE Calendars
  <2>1. /\ today = 0 /\ today' = 1 /\ UNCHANGED <<excluded, bars, eligible, ran>>
    BY <1>1 DEF Calendars
  <2>2. ran = {}
    BY <2>1 DEF UniverseInv
  <2> QED
    BY <2>1, <2>2 DEF UniverseInv, FlaggedIsNotTraded, ActiveSymbols
<1>2. CASE Build
  <2>1. /\ DOMAIN excluded' = Tickers /\ eligible' = {s \in Tickers : excluded'[s] = Active}
        /\ ran' = {} /\ UNCHANGED <<today, bars>>
    BY <1>2 DEF Build
  <2>2. FlaggedIsNotTraded'
    BY <2>1 DEF FlaggedIsNotTraded, ActiveSymbols
  <2> QED
    BY <2>1, <2>2 DEF UniverseInv
<1>3. CASE Filter
  <2>1. /\ today > 0 /\ excluded' = [s \in Tickers |-> DailyReason(s)]
        /\ ran' = ran \cup {today} /\ UNCHANGED <<today, bars, earnings, exdiv, eligible>>
    BY <1>3 DEF Filter
  <2>2. \A s, day : Flagged(s, day)' <=> Flagged(s, day)
    BY <2>1 DEF Flagged, Halted
  <2>3. \A s \in Tickers : excluded'[s] = Active <=> excluded[s] = Active /\ ~Flagged(s, today)
    BY <2>1, FilterFlags
  <2>4. FlaggedIsNotTraded'
    <3>1. \A s \in Tickers : excluded[s] = Active <=> s \in eligible /\ \A day \in ran : ~Flagged(s, day)
      BY DEF UniverseInv, FlaggedIsNotTraded, ActiveSymbols
    <3>2. \A s \in Tickers : excluded'[s] = Active
             <=> s \in eligible' /\ \A day \in ran' : ~Flagged(s, day)'
      BY <2>1, <2>2, <2>3, <3>1
    <3>3. eligible' \subseteq Tickers
      BY <2>1 DEF UniverseInv
    <3> QED
      BY <3>2, <3>3 DEF FlaggedIsNotTraded, ActiveSymbols
  <2>5. \A day \in ran' : day \in Nat /\ day <= today' /\ today' > 0
    BY <2>1 DEF UniverseInv
  <2>6. DOMAIN excluded' = Tickers
    BY <2>1
  <2> QED
    BY <2>1, <2>4, <2>5, <2>6 DEF UniverseInv
<1>4. CASE BarsClose
  <2>1. PICK traded \in SUBSET Tickers : bars' = Append(bars, traded)
    BY <1>4 DEF BarsClose
  <2>2. /\ today \in Nat /\ today > 0 /\ today' = today + 1
        /\ UNCHANGED <<excluded, earnings, exdiv, eligible, ran>>
    BY <1>4 DEF BarsClose, UniverseInv
  <2>3. bars' \in Seq(SUBSET Tickers) /\ Len(bars') = today' - 1
    BY <2>1, <2>2 DEF UniverseInv
  <2>4. \A day \in ran : day \in Nat /\ day <= today
    BY DEF UniverseInv
  <2>5. \A s : \A day \in ran : Flagged(s, day)' <=> Flagged(s, day)
    BY <1>4, <2>4, TheNextBarChangesNoFlag
  <2>6. FlaggedIsNotTraded'
    <3>1. ActiveSymbols' = ActiveSymbols
      BY <2>2 DEF ActiveSymbols
    <3> QED
      BY <2>2, <2>5, <3>1 DEF UniverseInv, FlaggedIsNotTraded
  <2> QED
    BY <2>2, <2>3, <2>4, <2>6 DEF UniverseInv
<1>5. CASE UNCHANGED universeVars
  BY <1>5 DEF universeVars, UniverseInv, FlaggedIsNotTraded, ActiveSymbols, Flagged, Halted
<1> QED
  BY <1>1, <1>2, <1>3, <1>4, <1>5 DEF UniverseNext

(* Whatever the calendars, bars and fundamentals, and whenever the snapshot  *)
(* is built and filtered: a symbol is active if and only if it was eligible  *)
(* and no morning the filters ran on since had anything against it.          *)
THEOREM FlaggedStaysOut == UniverseSpec => []FlaggedIsNotTraded
<1>1. UniverseInv => FlaggedIsNotTraded
  BY DEF UniverseInv
<1> QED
  BY <1>1, UniverseInvInit, UniverseInvNext, PTL DEF UniverseSpec

-----------------------------------------------------------------------------
(***************************************************************************)
(* Validation.                                                             *)
(***************************************************************************)

(* The beginning of the block of d numbers that a number is in.              *)
LEMMA BlockOfANumber ==
  ASSUME NEW d \in Nat \ {0}, NEW n \in Nat
  PROVE  \E j \in 0..n : j % d = 0 /\ n < j + d
<1>1. PICK q \in Int, r \in 0..(d - 1) : n = d * q + r
  <2>1. d \in Int /\ d > 0 /\ n \in Int
    OBVIOUS
  <2>2. n = d * (n \div d) + (n % d) /\ n \div d \in Int /\ n % d \in 0..(d - 1)
    BY <2>1, DivisionWithRest
  <2>3. QED
    BY <2>2
<1>2. PICK j \in Int : j = d * q
  OBVIOUS
<1>3. j % d = 0
  BY <1>2
<1>4. j >= 0
  <2>1. j + d = d * (q + 1)
    BY <1>2
  <2>2. j + d > 0
    BY <1>1, <1>2
  <2>3. q + 1 > 0
    BY <2>1, <2>2
  <2>4. QED
    BY <1>2, <2>3
<1>5. QED
  BY <1>1, <1>2, <1>3, <1>4

LEMMA BlocksAreApart ==
  ASSUME NEW d \in Nat \ {0}, NEW i \in Nat, NEW j \in Nat, i % d = 0, j % d = 0, i < j
  PROVE  i + d <= j
<1>1. d \in Int /\ d > 0 /\ i \in Int /\ j \in Int
  OBVIOUS
<1>2. PICK p \in Int : i = d * p
  BY <1>1, DivisionWithRest
<1>3. PICK q \in Int : j = d * q
  BY <1>1, DivisionWithRest
<1>4. p + 1 <= q
  <2>1. SUFFICES ASSUME q <= p PROVE FALSE
    OBVIOUS
  <2>2. d * q <= d * p
    BY <1>1, <2>1
  <2>3. QED
    BY <1>1, <1>2, <1>3, <2>2
<1>5. d * (p + 1) <= d * q
  BY <1>1, <1>4
<1>6. d * (p + 1) = d * p + d
  BY <1>1
<1>7. QED
  BY <1>2, <1>3, <1>5, <1>6

(* Walk-forward windows.  The last one begins with the block of the last bar *)
(* at which both parts fit.                                                  *)
LEMMA WindowsTile ==
  ASSUME NEW train \in Nat \ {0}, NEW test \in Nat \ {0}, NEW W, W = Windows(train, test),
         W # {}, NEW i \in Indices
  PROVE  Cardinality({w \in W : w[2] <= i /\ i < w[3]}) =
           IF Min({w[2] : w \in W}) <= i /\ i < Max({w[3] : w \in W}) THEN 1 ELSE 0
<1>1. PICK last \in Int : last = NumBars - train - test
  BY ValidationAssumption
<1>2. PICK Starts : Starts = {j \in 0..last : j % test = 0}
  OBVIOUS
<1> DEFINE Window(j) == <<j, j + train, j + train + test>>
<1>3. W = {Window(j) : j \in Starts}
  BY <1>1, <1>2 DEF Windows
<1>4. i \in Nat /\ last \in Nat /\ Starts \subseteq Nat
  BY <1>2, <1>3 DEF Indices
<1>5. PICK top \in 0..last : top % test = 0 /\ last < top + test
  BY <1>4, BlockOfANumber
<1>6. \A j, k \in Starts : j < k => j + test <= k
  BY <1>2, <1>4, BlocksAreApart
<1>7. 0 \in Starts /\ top \in Starts
  BY <1>2, <1>4, <1>5
<1>8. \A j \in Starts : j <= top
  <2>1. \A j \in Starts : j \in Int /\ j <= last
    BY <1>2
  <2>2. QED
    BY <1>4, <1>5, <1>6, <1>7, <2>1
<1>9. /\ \A w \in W : w[2] = w[1] + train /\ w[3] = w[1] + train + test /\ w[1] \in Starts
      /\ \A w \in W : w = Window(w[1])
      /\ \A j \in Starts : Window(j) \in W /\ Window(j)[1] = j
  BY <1>3
<1>10. Min({w[2] : w \in W}) = train
  <2>1. train \in {w[2] : w \in W} /\ {w[2] : w \in W} \subseteq Int
    <3>1. Window(0) \in W /\ Window(0)[2] = train
      BY <1>7, <1>9
    <3>2. QED
      BY <1>4, <1>9, <3>1
  <2>2. \A y \in {w[2] : w \in W} : train <= y
    BY <1>4, <1>9
  <2>3. QED
    BY <2>1, <2>2, LeastOfASet
<1>11. Max({w[3] : w \in W}) = top + train + test
  <2>1. top + train + test \in {w[3] : w \in W} /\ {w[3] : w \in W} \subseteq Int
    <3>1. Window(top) \in W /\ Window(top)[3] = top + train + test
      BY <1>7, <1>9
    <3>2. QED
      BY <1>4, <1>9, <3>1
  <2>2. \A y \in {w[3] : w \in W} : top + train + test >= y
    BY <1>4, <1>5, <1>8, <1>9
  <2>3. QED
    BY <2>1, <2>2, GreatestOfASet
<1> DEFINE at == {w \in W : w[2] <= i /\ i < w[3]}
<1>12. CASE train <= i /\ i < top + train + test
  <2>1. i - train \in Nat
    BY <1>4, <1>12
  <2>2. PICK j \in 0..(i - train) : j % test = 0 /\ i - train < j + test
    BY <2>1, BlockOfANumber
  <2>3. j <= top
    <3>1. SUFFICES ASSUME top < j PROVE FALSE
      BY <1>5, <2>2
    <3>2. top \in Nat /\ j \in Nat /\ top % test = 0 /\ j % test = 0 /\ top < j
      BY <1>5, <2>2, <3>1
    <3>3. top + test <= j
      BY <3>2, BlocksAreApart
    <3>4. QED
      BY <1>4, <1>5, <1>12, <2>2, <3>3
  <2>4. j \in Starts
    BY <1>2, <1>4, <1>5, <2>2, <2>3
  <2>5. \A k \in Starts : k + train <= i /\ i < k + train + test => k = j
    BY <1>4, <1>6, <2>1, <2>2, <2>4
  <2>6. Window(j) \in at
    BY <1>4, <1>9, <2>2, <2>4
  <2>7. \A w \in at : w = Window(j)
    BY <1>9, <2>5
  <2>8. at = {Window(j)}
    BY <2>6, <2>7
  <2>9. Cardinality(at) = 1
    BY <2>8, FS_Singleton
  <2>10. QED
    BY <1>10, <1>11, <1>12, <2>9
<1>13. CASE ~(train <= i /\ i < top + train + test)
  <2>1. \A k \in Starts : ~(k + train <= i /\ i < k + train + test)
    BY <1>4, <1>5, <1>8, <1>13
  <2>2. at = {}
    BY <1>9, <2>1
  <2>3. Cardinality(at) = 0
    BY <2>2, FS_EmptySet
  <2>4. QED
    BY <1>10, <1>11, <1>13, <2>3
<1>14. QED
  BY <1>12, <1>13

LEMMA SplitsAreApart ==
  ASSUME NEW G, NEW embargo \in Nat, NEW length \in Nat \cup {-1},
         NEW f, f = Split(G, embargo, length), NEW i \in f.train, NEW t \in f.test
  PROVE  /\ i < t - f.embargo \/ i > t + f.embargo
         /\ ~(i <= t /\ t <= i + f.length)
<1>1. /\ f.test = InGroups(G) /\ f.embargo = embargo /\ f.length = length
      /\ f.train = Purged(Embargoed(Indices \ InGroups(G), InGroups(G), embargo),
                          InGroups(G), length)
  BY DEF Split
<1>2. InGroups(G) \subseteq Int /\ Indices \subseteq Int
  BY DEF InGroups, Group, Indices
<1>3. i \in Embargoed(Indices \ InGroups(G), InGroups(G), embargo) /\ t \in InGroups(G)
  BY <1>1 DEF Purged
<1>4. i \in Int /\ t \in Int /\ i # t
  BY <1>2, <1>3 DEF Embargoed
<1>5. i < t - embargo \/ i > t + embargo
  BY <1>3, <1>4 DEF Embargoed
<1>6. ~(i <= t /\ t <= i + length)
  BY <1>1, <1>3, <1>4 DEF Purged, NoLabels
<1>7. QED
  BY <1>1, <1>5, <1>6

(* For any bars, groups, embargo and labels, and any sizes of the windows,   *)
(* no fold leaks and the windows tile the tests.                             *)
THEOREM NothingEverLeaks == ValidationSpec => []NothingLeaks
<1>1. ValidationInit => NothingLeaks
  BY DEF ValidationInit, NothingLeaks, FoldsAreApart, WindowsTileTheTests
<1>2. ASSUME NothingLeaks, [ValidationNext]_validationVars PROVE NothingLeaks'
  <2>1. CASE YieldFold
    <3>1. PICK G \in kSubset(TestSplits, 0..(NumSplits - 1)),
               embargo \in Embargoes, length \in LabelLengths :
                 fold' = Split(G, embargo, length)
      BY <2>1 DEF YieldFold
    <3>2. embargo \in Nat /\ length \in Nat \cup {-1}
      BY ValidationAssumption
    <3>3. FoldsAreApart'
      BY <3>1, <3>2, SplitsAreApart DEF FoldsAreApart
    <3>4. WindowsTileTheTests'
      BY <1>2, <2>1 DEF NothingLeaks, WindowsTileTheTests, YieldFold
    <3>5. QED
      BY <3>3, <3>4 DEF NothingLeaks
  <2>2. CASE BuildWindows
    <3>1. PICK train \in TrainSizes, test \in TestSizes : windows' = Windows(train, test)
      BY <2>2 DEF BuildWindows
    <3>2. train \in Nat \ {0} /\ test \in Nat \ {0}
      BY ValidationAssumption
    <3>3. WindowsTileTheTests'
      BY <3>1, <3>2, WindowsTile DEF WindowsTileTheTests
    <3>4. FoldsAreApart'
      BY <1>2, <2>2 DEF NothingLeaks, FoldsAreApart, BuildWindows
    <3>5. QED
      BY <3>3, <3>4 DEF NothingLeaks
  <2>3. CASE UNCHANGED validationVars
    BY <1>2, <2>3 DEF NothingLeaks, FoldsAreApart, WindowsTileTheTests, validationVars
  <2>4. QED
    BY <1>2, <2>1, <2>2, <2>3 DEF ValidationNext
<1>3. QED
  BY <1>1, <1>2, PTL DEF ValidationSpec

-----------------------------------------------------------------------------
(***************************************************************************)
(* Market data.                                                            *)
(***************************************************************************)

LEMMA FewerBarsMissMore ==
  ASSUME NEW f \in Frames, NEW g \in Frames, f.bars <= g.bars, f.expected = g.expected
  PROVE  Missing(f) \in Int /\ Missing(g) \in Int /\ Missing(f) >= Missing(g)
<1>1. /\ f.bars \in Nat /\ g.bars \in Nat /\ g.expected \in Nat
  BY MarketDataAssumption
<1>2. PICK m \in Int : m = Max({g.expected, 1}) /\ m > 0
  BY <1>1, MaxOfTwoNumbers
<1>3. PICK x, y \in Int :
        x = 1000 * (g.expected - g.bars) /\ y = 1000 * (g.expected - f.bars) /\ x <= y
  BY <1>1
<1>4. Missing(f) = y \div m /\ Missing(g) = x \div m
  BY <1>2, <1>3 DEF Missing, Ratio
<1>5. x \div m <= y \div m /\ x \div m \in Int /\ y \div m \in Int
  BY <1>2, <1>3, DivisionIsMonotone
<1>6. QED
  BY <1>4, <1>5

LEMMA WorseFramesAreJudgedHarder ==
  ASSUME NEW f \in Frames, NEW g \in Frames, Worse(f, g), f.bars \notin 1..4
  PROVE  Severity(f) >= Severity(g)
<1>1. /\ f.bars \in Nat /\ g.bars \in Nat /\ f.age \in Int /\ g.age \in Int
      /\ f.gap \in Int /\ g.gap \in Int /\ f.spike \in Int /\ g.spike \in Int /\ f.iex \in Int
  BY MarketDataAssumption
<1>2. Missing(f) \in Int /\ Missing(g) \in Int /\ Missing(f) >= Missing(g)
  BY FewerBarsMissMore DEF Worse
<1>3. Fails(g) => Fails(f)
  BY <1>1, <1>2 DEF Worse, Fails
<1>4. Warns(g) => Warns(f)
  BY <1>1, <1>2 DEF Worse, Warns
<1>5. QED
  BY <1>3, <1>4 DEF Severity

PeriodInv == \A r \in periods : r.added \in Nat /\ r.removed \in Nat

CheckedInv == checked # NoCheck => checked.frame \in Frames /\ checked = Checked(checked.frame)

LEMMA DataInvHolds ==
  /\ DataInit => PeriodInv /\ CheckedInv
  /\ PeriodInv /\ CheckedInv /\ [DataNext]_dataVars => (PeriodInv /\ CheckedInv)'
<1>1. DataInit => PeriodInv /\ CheckedInv
  BY DEF DataInit, PeriodInv, CheckedInv
<1>2. ASSUME PeriodInv, CheckedInv, [DataNext]_dataVars PROVE (PeriodInv /\ CheckedInv)'
  <2>1. CASE CheckAll
    <3>1. PICK f \in Frames : checked' = Checked(f) /\ periods' = periods
      BY <2>1 DEF CheckAll
    <3>2. checked'.frame = f
      BY <3>1 DEF Checked
    <3>3. QED
      BY <1>2, <3>1, <3>2 DEF PeriodInv, CheckedInv
  <2>2. CASE CorporateAction
    BY <1>2, <2>2 DEF CorporateAction, PeriodInv, CheckedInv
  <2>3. CASE AddConstituent
    <3>1. PICK from \in 1..Dates, to \in 0..Dates :
            periods' = periods \cup {[added |-> from, removed |-> to]}
      BY <2>3 DEF AddConstituent
    <3>2. from \in Nat /\ to \in Nat
      BY MarketDataAssumption
    <3>6. PeriodInv'
      BY <1>2, <3>1, <3>2 DEF PeriodInv
    <3>7. CheckedInv'
      BY <1>2, <2>3 DEF AddConstituent, CheckedInv
    <3>8. QED
      BY <3>6, <3>7
  <2>4. CASE UNCHANGED dataVars
    BY <1>2, <2>4 DEF dataVars, PeriodInv, CheckedInv
  <2>5. QED
    BY <1>2, <2>1, <2>2, <2>3, <2>4 DEF DataNext
<1>3. QED
  BY <1>1, <1>2

LEMMA SizeOfANumber ==
  ASSUME NEW x \in Int
  PROVE  Size(x) \in Nat /\ Size(x) \in {x, -x} /\ Size(x) >= x /\ Size(x) >= -x
<1>1. Size(x) = IF x >= -x THEN x ELSE -x
  BY MaxOfTwoNumbers DEF Size
<1>2. QED
  BY <1>1

(* The moves of a day the market moves by m, in thousandths: x as adjusted   *)
(* and y as traded, when the close before was adjusted to a; and what        *)
(* detect() makes of the difference of those moves and of the close before   *)
(* in thousandths of its adjusted value.                                     *)
DayMoves(a, m, x, y) ==
  /\ 999 + m <= x /\ x <= 1000 + m
  /\ 60000 * y <= a * (1000 + m) /\ a * (1000 + m) < 60000 * y + 61000

JudgedKinds(old, moves) ==
  (IF Size(Ratio(1000, old) - 1000) <= 150 THEN {}
   ELSE IF old > 1020 THEN {"split_forward"} ELSE {"split_reverse"})
  \cup (IF 1 < Size(moves) /\ Size(moves) < 150 THEN {"dividend"} ELSE {})

LEMMA MovesOfADay ==
  ASSUME NEW a \in Int, a >= 1000, NEW m \in Int, m >= -99, m <= 99
  PROVE  \E p, x, y \in Int :
           /\ p = Moved(a, m) /\ p > 0
           /\ x = Ratio(p, a) /\ y = Ratio(p, Close)
           /\ DayMoves(a, m, x, y)
<1>1. PICK w \in 901..1099, t \in Int : w = 1000 + m /\ t = a * w /\ t >= 901 * 1000
  <2>1. PICK w \in 901..1099 : w = 1000 + m
    OBVIOUS
  <2>2. a * w \in Int /\ a * w >= 1000 * w
    BY <2>1
  <2>3. QED
    BY <2>1, <2>2
<1>2. PICK p \in Int : p = t \div 1000 /\ 1000 * p <= t /\ t < 1000 * p + 1000
  BY <1>1
<1>3. p = Moved(a, m) /\ p > 0
  BY <1>1, <1>2 DEF Moved
<1>4. PICK n \in Int : n = 1000 * p /\ n <= t /\ t < n + 1000
  BY <1>2
<1>5. PICK y \in Int : y = n \div 60000 /\ 60000 * y <= n /\ n <= 60000 * y + 59999
  BY <1>4
<1>6. PICK x \in Int : x = n \div a
  BY <1>4
<1>7. w - 1 <= x /\ x < w + 1
  <2>1. PICK k \in Int, l \in Int : k = w - 1 /\ l = w + 1
    OBVIOUS
  <2>2. k * a = t - a /\ l * a = t + a
    BY <1>1, <2>1
  <2>3. k * a <= n /\ n < l * a
    BY <1>4, <2>2
  <2>4. k <= x /\ x < l
    BY <1>4, <1>6, <2>1, <2>3, QuotientIsBetween
  <2>5. QED
    BY <2>1, <2>4
<1>8. 60000 * y <= t /\ t < 60000 * y + 61000
  BY <1>4, <1>5
<1>9. DayMoves(a, m, x, y)
  BY <1>1, <1>7, <1>8 DEF DayMoves
<1>10. x = Ratio(p, a) /\ y = Ratio(p, Close)
  BY <1>4, <1>5, <1>6 DEF Ratio, Close
<1>11. QED
  BY <1>3, <1>9, <1>10

LEMMA KindsOfADay ==
  ASSUME NEW a \in Int, a >= 1000, NEW old \in Int, old = Ratio(Close, a),
         NEW m \in Int, m >= -99, m <= 99
  PROVE  \E x, y \in Int :
           /\ DayMoves(a, m, x, y)
           /\ Kinds(<<Close, Moved(a, m)>>, <<a, Moved(a, m)>>) = JudgedKinds(old, y - x)
<1>1. PICK p, x, y \in Int :
        /\ p = Moved(a, m) /\ p > 0
        /\ x = Ratio(p, a) /\ y = Ratio(p, Close)
        /\ DayMoves(a, m, x, y)
  BY MovesOfADay
<1>2. Ratio(p, p) = 1000
  <2>1. PICK n \in Int : n = 1000 * p
    BY <1>1
  <2>2. 1000 * p <= n /\ n < 1001 * p
    BY <1>1, <2>1
  <2>3. n \div p \in Int /\ 1000 <= n \div p /\ n \div p < 1001
    BY <1>1, <2>1, <2>2, QuotientIsBetween
  <2>4. QED
    BY <2>1, <2>3 DEF Ratio
<1>3. Ratio(old, 1000) = old
  BY DEF Ratio
<1>4. PICK raw, adj : raw = <<Close, p>> /\ adj = <<a, p>>
  OBVIOUS
<1>5. raw[1] = Close /\ raw[2] = p /\ adj[1] = a /\ adj[2] = p
  BY <1>4
<1>6. Kinds(raw, adj) = JudgedKinds(old, y - x)
  BY <1>1, <1>2, <1>3, <1>5 DEF Kinds, JudgedKinds
<1>7. QED
  BY <1>1, <1>4, <1>6

(* A close that adjustment lowers by a sixth or more is a split's, and the   *)
(* move is no dividend.                                                      *)
LEMMA ForwardSplitsAreSeen ==
  ASSUME NEW a \in Int, 1000 <= a, a <= 50000, NEW m \in Int, m >= -99, m <= 99
  PROVE  Kinds(<<Close, Moved(a, m)>>, <<a, Moved(a, m)>>) = {"split_forward"}
<1>1. PICK N \in Int : N = 1000 * Close /\ N = 60000 * 1000
  BY DEF Close
<1> DEFINE old == N \div a
<1>2. old \in Int /\ old = Ratio(Close, a)
  BY <1>1 DEF Ratio
<1>3. 1200 <= old
  <2>1. 1200 * a <= N
    BY <1>1
  <2>2. QED
    BY <1>1, <2>1, QuotientIsBetween
<1> HIDE DEF old
<1>4. PICK x, y \in Int :
        /\ DayMoves(a, m, x, y)
        /\ Kinds(<<Close, Moved(a, m)>>, <<a, Moved(a, m)>>) = JudgedKinds(old, y - x)
  BY <1>2, KindsOfADay
<1>5. PICK q \in Int : q = Ratio(1000, old) /\ q = (1000 * 1000) \div old
  BY <1>2, <1>3 DEF Ratio
<1>6. q < 834
  <2>1. 1000 * 1000 < 834 * old
    BY <1>2, <1>3
  <2>2. QED
    BY <1>2, <1>3, <1>5, <2>1, QuotientIsBetween
<1>7. Size(q - 1000) > 150
  BY <1>6, SizeOfANumber
<1>8. PICK w \in Int, t \in Int : w = 1000 + m /\ 901 <= w /\ w <= 1099 /\ t = a * w
  OBVIOUS
<1>9. t <= 50000 * w
  BY <1>8
<1>10. Size(y - x) >= 150
  <2>1. w - 1 <= x /\ x <= w /\ 60000 * y <= t /\ t < 60000 * y + 61000
    BY <1>4, <1>8 DEF DayMoves
  <2>2. x - y >= 150
    BY <1>8, <1>9, <2>1
  <2>3. QED
    BY <2>2, SizeOfANumber
<1>11. JudgedKinds(old, y - x) = {"split_forward"}
  <2>1. ~(Size(y - x) < 150) /\ ~(Size(q - 1000) <= 150)
    BY <1>7, <1>10, SizeOfANumber
  <2>2. QED
    BY <1>2, <1>3, <1>5, <2>1 DEF JudgedKinds
<1>12. QED
  BY <1>4, <1>11

(* One that it raises by a quarter or more is a reverse split's.             *)
LEMMA ReverseSplitsAreSeen ==
  ASSUME NEW a \in Int, 75000 <= a, a <= 1000 * Close, NEW m \in Int, m >= -99, m <= 99
  PROVE  Kinds(<<Close, Moved(a, m)>>, <<a, Moved(a, m)>>) = {"split_reverse"}
<1>1. PICK N \in Int : N = 1000 * Close /\ N = 60000 * 1000
  BY DEF Close
<1> DEFINE old == N \div a
<1>2. old \in Int /\ old = Ratio(Close, a)
  BY <1>1 DEF Ratio
<1>3. 1 <= old /\ old < 801
  <2>1. 1 * a <= N /\ N < 801 * a
    BY <1>1
  <2>2. QED
    BY <1>1, <2>1, QuotientIsBetween
<1> HIDE DEF old
<1>4. PICK x, y \in Int :
        /\ DayMoves(a, m, x, y)
        /\ Kinds(<<Close, Moved(a, m)>>, <<a, Moved(a, m)>>) = JudgedKinds(old, y - x)
  BY <1>2, KindsOfADay
<1>5. PICK q \in Int : q = Ratio(1000, old) /\ q = (1000 * 1000) \div old
  BY <1>2, <1>3 DEF Ratio
<1>6. 1248 <= q
  <2>1. 1248 * old <= 1000 * 1000
    BY <1>2, <1>3
  <2>2. QED
    BY <1>2, <1>3, <1>5, <2>1, QuotientIsBetween
<1>7. Size(q - 1000) > 150
  BY <1>6, SizeOfANumber
<1>8. PICK w \in Int, t \in Int : w = 1000 + m /\ 901 <= w /\ w <= 1099 /\ t = a * w
  OBVIOUS
<1>9. 75000 * w <= t
  BY <1>8
<1>10. Size(y - x) >= 150
  <2>1. w - 1 <= x /\ x <= w /\ 60000 * y <= t /\ t < 60000 * y + 61000
    BY <1>4, <1>8 DEF DayMoves
  <2>2. y - x >= 150
    BY <1>8, <1>9, <2>1
  <2>3. QED
    BY <2>2, SizeOfANumber
<1>11. JudgedKinds(old, y - x) = {"split_reverse"}
  <2>1. ~(Size(y - x) < 150) /\ ~(Size(q - 1000) <= 150)
    BY <1>7, <1>10, SizeOfANumber
  <2>2. QED
    BY <1>2, <1>3, <1>5, <2>1 DEF JudgedKinds
<1>12. QED
  BY <1>4, <1>11

(* One that it lowers by an eighth at most is a dividend's, and no split's.  *)
LEMMA DividendsAreSeen ==
  ASSUME NEW a \in Int, 52500 <= a, a <= 59820, NEW m \in Int, m >= -99, m <= 99
  PROVE  Kinds(<<Close, Moved(a, m)>>, <<a, Moved(a, m)>>) = {"dividend"}
<1>1. PICK N \in Int : N = 1000 * Close /\ N = 60000 * 1000
  BY DEF Close
<1> DEFINE old == N \div a
<1>2. old \in Int /\ old = Ratio(Close, a)
  BY <1>1 DEF Ratio
<1>3. 1003 <= old /\ old < 1143
  <2>1. 1003 * a <= N /\ N < 1143 * a
    BY <1>1
  <2>2. QED
    BY <1>1, <2>1, QuotientIsBetween
<1> HIDE DEF old
<1>4. PICK x, y \in Int :
        /\ DayMoves(a, m, x, y)
        /\ Kinds(<<Close, Moved(a, m)>>, <<a, Moved(a, m)>>) = JudgedKinds(old, y - x)
  BY <1>2, KindsOfADay
<1>5. PICK q \in Int : q = Ratio(1000, old) /\ q = (1000 * 1000) \div old
  BY <1>2, <1>3 DEF Ratio
<1>6. 874 <= q /\ q < 1000
  <2>1. 874 * old <= 1000 * 1000 /\ 1000 * 1000 < 1000 * old
    BY <1>2, <1>3
  <2>2. QED
    BY <1>2, <1>3, <1>5, <2>1, QuotientIsBetween
<1>7. Size(q - 1000) <= 150
  BY <1>6, SizeOfANumber
<1>8. PICK w \in Int, t \in Int : w = 1000 + m /\ 901 <= w /\ w <= 1099 /\ t = a * w
  OBVIOUS
<1>9. 52500 * w <= t /\ t <= 59820 * w
  BY <1>8
<1>10. 1 < Size(y - x) /\ Size(y - x) < 150
  <2>1. w - 1 <= x /\ x <= w /\ 60000 * y <= t /\ t < 60000 * y + 61000
    BY <1>4, <1>8 DEF DayMoves
  <2>2. x - y >= 2 /\ x - y < 150
    BY <1>8, <1>9, <2>1
  <2>3. QED
    BY <2>2, SizeOfANumber
<1>11. JudgedKinds(old, y - x) = {"dividend"}
  BY <1>5, <1>7, <1>10 DEF JudgedKinds
<1>12. QED
  BY <1>4, <1>11

(* What is told after a split by f, and after a dividend of d.               *)
ToldAfter(a, m) == Kinds(<<Close, Moved(a, m)>>, <<a, Moved(a, m)>>)
AfterSplit(f, m) == ToldAfter((1000 * Close) \div f, m)
AfterDividend(d, m) == ToldAfter(Close - (Close \div 1000) * d, m)
Reverses == 1..800
Forwards == 1200..60000
ClearSplit(f) == f \in Reverses \/ f \in Forwards
SplitKind(f) == IF f > 1000 THEN "split_forward" ELSE "split_reverse"

LEMMA SplitsAreSeen ==
  ASSUME NEW f \in Int, ClearSplit(f),
         NEW m \in Int, m >= -99, m <= 99
  PROVE  AfterSplit(f, m) = {SplitKind(f)}
<1>1. PICK N \in Int : N = 1000 * Close /\ N = 60000 * 1000
  BY DEF Close
<1>2. CASE f \in Forwards
  <2>0. f \in Int /\ 1200 <= f /\ f <= 60000
    BY <1>2 DEF Forwards
  <2>1. 1000 * f <= N /\ N < 50001 * f
    <3>1. 1000 * f <= 1000 * 60000
      BY <2>0
    <3>2. N < 50001 * 1200 /\ 50001 * 1200 <= 50001 * f
      BY <1>1, <2>0
    <3>3. QED
      BY <1>1, <2>0, <3>1, <3>2
  <2> DEFINE a == N \div f
  <2>2. f > 0 /\ a \in Int
    BY <2>0
  <2>3. 1000 <= a /\ a < 50001
    <3>1. PICK k \in Int, l \in Int : k = 1000 /\ l = 50001
      OBVIOUS
    <3>2. k * f <= N /\ N < l * f
      BY <2>1, <3>1
    <3>3. k <= a /\ a < l
      BY <2>2, <3>2, QuotientIsBetween
    <3>4. QED
      BY <3>1, <3>3
  <2> HIDE DEF a
  <2>4. Kinds(<<Close, Moved(a, m)>>, <<a, Moved(a, m)>>) = {"split_forward"}
    BY <2>2, <2>3, ForwardSplitsAreSeen
  <2>5. f > 1000
    BY <2>0
  <2>6. AfterSplit(f, m) = Kinds(<<Close, Moved(a, m)>>, <<a, Moved(a, m)>>)
    <3>1. (1000 * Close) \div f = a
      BY <1>1 DEF a
    <3>2. QED
      BY <3>1 DEF AfterSplit, ToldAfter
  <2>7. SplitKind(f) = "split_forward"
    BY <2>5 DEF SplitKind
  <2>8. QED
    BY <2>4, <2>6, <2>7
<1>3. CASE f \in Reverses
  <2>0. f \in Int /\ 1 <= f /\ f <= 800
    BY <1>3 DEF Reverses
  <2>1. 75000 * f <= N /\ N < (N + 1) * f
    BY <1>1, <2>0
  <2> DEFINE a == N \div f
  <2>2. f > 0 /\ a \in Int
    BY <2>0
  <2>3. 75000 <= a /\ a < N + 1
    <3>1. PICK k \in Int, l \in Int : k = 75000 /\ l = N + 1
      OBVIOUS
    <3>2. k * f <= N /\ N < l * f
      BY <2>1, <3>1
    <3>3. k <= a /\ a < l
      BY <2>2, <3>2, QuotientIsBetween
    <3>4. QED
      BY <3>1, <3>3
  <2> HIDE DEF a
  <2>4. a <= 1000 * Close
    BY <1>1, <2>2, <2>3
  <2>5. Kinds(<<Close, Moved(a, m)>>, <<a, Moved(a, m)>>) = {"split_reverse"}
    BY <2>2, <2>3, <2>4, ReverseSplitsAreSeen
  <2>6. ~(f > 1000)
    BY <2>0
  <2>7. AfterSplit(f, m) = Kinds(<<Close, Moved(a, m)>>, <<a, Moved(a, m)>>)
    <3>1. (1000 * Close) \div f = a
      BY <1>1 DEF a
    <3>2. QED
      BY <3>1 DEF AfterSplit, ToldAfter
  <2>8. SplitKind(f) = "split_reverse"
    BY <2>6 DEF SplitKind
  <2>9. QED
    BY <2>5, <2>7, <2>8
<1>4. QED
  BY <1>2, <1>3, Zenon DEF ClearSplit

(* Splits of a fifth or more, dividends of up to an eighth, and moves of the *)
(* market of less than a tenth.                                              *)
OrdinaryDays ==
  /\ \A f \in Splits : f \in Int /\ (f # 1000 => ClearSplit(f))
  /\ \A d \in Dividends : d \in 3..125
  /\ \A m \in Moves : m \in Int /\ m >= -99 /\ m <= 99

LEMMA ActionsAreSeen == OrdinaryDays /\ CorporateAction => ActionsAreToldApart'
<1>1. SUFFICES ASSUME OrdinaryDays, CorporateAction PROVE ActionsAreToldApart'
  OBVIOUS
<1>2. ASSUME NEW f \in Splits \ {1000}, NEW m \in Moves
      PROVE  AfterSplit(f, m) = {SplitKind(f)}
  <2>1. f \in Int /\ ClearSplit(f)
    BY <1>1, <1>2 DEF OrdinaryDays
  <2>2. m \in Int /\ m >= -99 /\ m <= 99
    BY <1>1 DEF OrdinaryDays
  <2>3. QED
    BY <2>1, <2>2, SplitsAreSeen
<1>3. ASSUME NEW d \in Dividends, NEW m \in Moves
      PROVE  AfterDividend(d, m) = {"dividend"}
  <2>1. d \in 3..125
    BY <1>1, <1>3 DEF OrdinaryDays
  <2>2. m \in Int /\ m >= -99 /\ m <= 99
    BY <1>1 DEF OrdinaryDays
  <2> DEFINE a == Close - (Close \div 1000) * d
  <2>3. a \in Int /\ 52500 <= a /\ a <= 59820
    BY <2>1 DEF Close
  <2> HIDE DEF a
  <2>4. Kinds(<<Close, Moved(a, m)>>, <<a, Moved(a, m)>>) = {"dividend"}
    BY <2>2, <2>3, DividendsAreSeen
  <2>5. QED
    BY <2>4 DEF a, AfterDividend, ToldAfter
<1>4. \/ \E f \in Splits \ {1000}, m \in Moves :
           action' = [truth |-> SplitKind(f), told |-> AfterSplit(f, m)]
      \/ \E d \in Dividends, m \in Moves :
           action' = [truth |-> "dividend", told |-> AfterDividend(d, m)]
  BY <1>1, Zenon
  DEF CorporateAction, Detect, SplitKind, AfterSplit, AfterDividend, ToldAfter
<1>5. QED
  BY <1>2, <1>3, <1>4 DEF ActionsAreToldApart

(* For any frames a worse one is judged no milder, and for any records of    *)
(* memberships, overlapping or not, a symbol joins and leaves as recorded.   *)
THEOREM FramesAndMembersAreJudgedRight ==
  DataSpec => [](WorseDataIsJudgedHarder /\ MembersComeAndGoAsRecorded)
<1>1. CheckedInv => WorseDataIsJudgedHarder
  <2>1. SUFFICES ASSUME CheckedInv, checked # NoCheck, NEW f \in Frames
        PROVE  /\ Worse(f, checked.frame) /\ f.bars \notin 1..4
                    => Severity(f) >= checked.severity
               /\ Worse(checked.frame, f) /\ checked.frame.bars \notin 1..4
                    => checked.severity >= Severity(f)
    BY DEF WorseDataIsJudgedHarder
  <2>2. PICK g : g = checked.frame
    OBVIOUS
  <2>3. g \in Frames /\ checked.severity = Severity(g)
    BY <2>1, <2>2 DEF CheckedInv, Checked
  <2>4. QED
    BY <2>2, <2>3, WorseFramesAreJudgedHarder
<1>2. PeriodInv => MembersComeAndGoAsRecorded
  <2>1. SUFFICES ASSUME PeriodInv, NEW d \in 1..Dates, NEW e \in 1..Dates, d < e
        PROVE  /\ Member(e) /\ ~Member(d) => \E r \in periods : r.added \in (d + 1)..e
               /\ Member(d) /\ ~Member(e) =>
                    /\ \E r \in periods : r.removed \in (d + 1)..e
                    /\ \A r \in periods : r.removed = 0 => e < r.added
    BY DEF MembersComeAndGoAsRecorded
  <2>2. d \in Nat /\ e \in Nat
    BY MarketDataAssumption
  <2>3. ASSUME NEW r \in periods, WasMember(r, e), ~WasMember(r, d)
        PROVE  r.added \in (d + 1)..e
    BY <2>1, <2>2, <2>3 DEF PeriodInv, WasMember
  <2>4. ASSUME NEW r \in periods, WasMember(r, d), ~WasMember(r, e)
        PROVE  r.removed \in (d + 1)..e
    BY <2>1, <2>2, <2>4 DEF PeriodInv, WasMember
  <2>5. ASSUME NEW r \in periods, r.removed = 0, ~WasMember(r, e) PROVE e < r.added
    BY <2>1, <2>2, <2>5 DEF PeriodInv, WasMember
  <2>6. QED
    BY <2>3, <2>4, <2>5 DEF Member
<1>3. QED
  BY <1>1, <1>2, DataInvHolds, PTL DEF DataSpec

(* For splits of a fifth or more, dividends of up to an eighth and days the   *)
(* market moves by less than a tenth, detect() tells the two apart as well.  *)
THEOREM ActionsAreToldRight ==
  ASSUME OrdinaryDays
  PROVE  DataSpec => []DataIsJudgedRight
<1>1. DataInit => ActionsAreToldApart
  BY DEF DataInit, ActionsAreToldApart
<1>2. ActionsAreToldApart /\ [DataNext]_dataVars => ActionsAreToldApart'
  <2>1. CheckAll \/ AddConstituent \/ UNCHANGED dataVars => action' = action
    BY DEF CheckAll, AddConstituent, dataVars
  <2>2. QED
    BY <2>1, ActionsAreSeen DEF DataNext, ActionsAreToldApart
<1>3. DataSpec => []ActionsAreToldApart
  BY <1>1, <1>2, PTL DEF DataSpec
<1>4. ActionsAreToldApart /\ WorseDataIsJudgedHarder /\ MembersComeAndGoAsRecorded
        => DataIsJudgedRight
  BY DEF DataIsJudgedRight
<1>5. QED
  BY <1>3, <1>4, FramesAndMembersAreJudgedRight, PTL

-----------------------------------------------------------------------------
(***************************************************************************)
(* The synthetic probe.                                                    *)
(***************************************************************************)

Row(s)    == {i \in DOMAIN s : \A j \in i..Len(s) : s[j].status # "ok"}
Streak(s) == Len(s) + 1 - Min(Row(s) \cup {Len(s) + 1})

LEMMA StreakGrows ==
  ASSUME NEW S, NEW s \in Seq(S), NEW r \in S
  PROVE  Streak(Append(s, r)) = IF r.status = "ok" THEN 0 ELSE Streak(s) + 1
<1>1. PICK t : t = Append(s, r)
  OBVIOUS
<1>2. PICK n \in Nat : n = Len(s)
  OBVIOUS
<1>3. Len(t) = n + 1 /\ DOMAIN s = 1..n /\ DOMAIN t = 1..(n + 1)
      /\ t[n + 1] = r /\ \A i \in 1..n : t[i] = s[i]
  BY <1>1, <1>2
<1>4. /\ Row(t) = {i \in 1..(n + 1) : \A j \in i..(n + 1) : t[j].status # "ok"}
      /\ Row(s) = {i \in 1..n : \A j \in i..n : s[j].status # "ok"}
  BY <1>2, <1>3 DEF Row
<1>5. /\ Streak(t) = (n + 1) + (1 - Min(Row(t) \cup {n + 2}))
      /\ Streak(s) = n + (1 - Min(Row(s) \cup {n + 1}))
  <2>1. Len(t) + 1 = n + 2 /\ Len(s) + 1 = n + 1
    BY <1>2, <1>3
  <2>2. QED
    BY <1>2, <1>3, <2>1 DEF Streak
<1>6. CASE r.status = "ok"
  <2>1. Row(t) = {}
    <3>1. t[n + 1].status = "ok" /\ n + 1 \in Int
      BY <1>3, <1>6
    <3>2. \A i \in 1..(n + 1) : n + 1 \in i..(n + 1)
      OBVIOUS
    <3>3. QED
      BY <1>4, <3>1, <3>2, Zenon
  <2>2. PICK k \in Int : k = n + 2
    OBVIOUS
  <2>3. PICK T : T = Row(t) \cup {n + 2}
    OBVIOUS
  <2>4. T \subseteq Int /\ k \in T /\ \A y \in T : k <= y
    BY <2>1, <2>2, <2>3
  <2>5. Min(T) = k
    BY <2>4, LeastOfASet
  <2>6. Streak(t) = (n + 1) + (1 - k)
    BY <1>5, <2>3, <2>5
  <2>7. QED
    BY <1>1, <1>6, <2>2, <2>6
<1>7. CASE r.status # "ok"
  <2>1. Row(t) = Row(s) \cup {n + 1}
    <3>1. ASSUME NEW i \in 1..n
          PROVE  (\A j \in i..(n + 1) : t[j].status # "ok")
                 <=> \A j \in i..n : s[j].status # "ok"
      <4>1. \A j \in i..(n + 1) : j = n + 1 \/ j \in i..n
        BY <3>1
      <4>2. \A j \in i..n : j \in 1..n /\ j \in i..(n + 1)
        BY <3>1
      <4>3. t[n + 1].status # "ok"
        BY <1>3, <1>7
      <4>4. \A j \in i..n : t[j] = s[j]
        BY <1>3, <4>2
      <4>5. QED
        BY <4>1, <4>2, <4>3, <4>4, Zenon
    <3>2. \A j \in (n + 1)..(n + 1) : t[j].status # "ok"
      BY <1>3, <1>7
    <3>3. 1..(n + 1) = (1..n) \cup {n + 1}
      OBVIOUS
    <3>4. QED
      BY <1>4, <3>1, <3>2, <3>3
  <2>2. PICK T : T = Row(s) \cup {n + 1}
    OBVIOUS
  <2>3. T \subseteq Nat /\ T \subseteq Int /\ T # {} /\ n + 1 \in T
    BY <1>4, <2>2
  <2>4. PICK m \in T : \A k \in T : m <= k
    BY <2>3, LeastNatural
  <2>5. m \in Nat /\ m <= n + 1
    BY <2>3, <2>4
  <2>6. Min(T) = m
    BY <2>3, <2>4, LeastOfASet
  <2>7. Min(T \cup {n + 2}) = m
    <3>1. T \cup {n + 2} \subseteq Int /\ m \in T \cup {n + 2}
      BY <2>3, <2>4
    <3>2. \A k \in T \cup {n + 2} : m <= k
      BY <2>4, <2>5
    <3>3. QED
      BY <3>1, <3>2, LeastOfASet
  <2>8. Streak(t) = (n + 1) + (1 - m) /\ Streak(s) = n + (1 - m)
    BY <1>5, <2>1, <2>2, <2>6, <2>7
  <2>9. QED
    BY <1>1, <1>7, <2>5, <2>8
<1>8. QED
  BY <1>6, <1>7

(* What is told of a price p that is the n-th of those seen.                 *)
Told(prices, p, fresh, verdict, n) ==
  p # 0 /\ n > 1 =>
    /\ verdict = "ok" <=> fresh /\ ~(5 * Apart(p, prices[n - 1]) >= prices[n - 1])
    /\ verdict = "fail" <=> ~fresh /\ 5 * Apart(p, prices[n - 1]) >= prices[n - 1]

Verdicts == {"ok", "warn", "fail"}
Results ==
  [price : ClosePrices \cup {0}, fresh : BOOLEAN, status : Verdicts, nth : Nat, deaths : Nat]

ProbeTypeOK ==
  /\ step \in {"idle", "store", "persist", "count"}
  /\ probed \in [price : ClosePrices \cup {0}, fresh : BOOLEAN]
  /\ status \in Verdicts /\ price \in ClosePrices \cup {0}
  /\ results \in Seq(Results) /\ seen \in Seq(ClosePrices)
  /\ counted \in Seq(Results) /\ fails \in Nat /\ crashes \in Nat

CountInv ==
  /\ fails = Streak(counted) /\ fails <= Len(counted)
  /\ Len(counted) <= Len(results) /\ Len(results) <= MaxProbes
  /\ step \in {"store", "persist"} => Len(results) < MaxProbes
  /\ step = "count" => /\ Len(counted) < Len(results)
                       /\ results[Len(results)].status = status
  /\ Len(results) - Len(counted) <= crashes + (IF step = "count" THEN 1 ELSE 0)

SeenInv ==
  /\ price = IF seen = <<>> THEN 0 ELSE seen[Len(seen)]
  /\ step = "store" => probed.price # 0 /\ status = Judged(probed)
  /\ step = "persist" => Told(seen, probed.price, probed.fresh, status, Len(seen))
  /\ \A i \in DOMAIN results :
       /\ results[i].nth <= Len(seen)
       /\ Told(seen, results[i].price, results[i].fresh, results[i].status, results[i].nth)

LostInv ==
  /\ \A i \in DOMAIN results :
       results[i].nth - LastOf(i - 1).nth
         <= results[i].deaths - LastOf(i - 1).deaths + (IF results[i].price = 0 THEN 0 ELSE 1)
  /\ Len(seen) - LastOf(Len(results)).nth
       <= crashes - LastOf(Len(results)).deaths
            + (IF step = "persist" /\ probed.price # 0 THEN 1 ELSE 0)

ProbeInv == ProbeTypeOK /\ CountInv /\ SeenInv /\ LostInv

LEMMA ProbeInvInit == CanaryInit => ProbeInv
<1> SUFFICES ASSUME CanaryInit PROVE ProbeInv
  OBVIOUS
<1>1. Streak(<<>>) = 0
  <2>1. PICK t : t = <<>>
    OBVIOUS
  <2>2. Len(t) = 0 /\ DOMAIN t = {}
    BY <2>1
  <2>3. Row(t) = {}
    BY <2>2 DEF Row
  <2>4. Min({1}) = 1
    BY LeastOfASet
  <2>5. Streak(t) = 0
    BY <2>2, <2>3, <2>4 DEF Streak
  <2>6. QED
    BY <2>1, <2>5
<1>2. ProbeTypeOK
  BY DEF CanaryInit, ProbeTypeOK, Verdicts
<1>3. QED
  BY <1>1, <1>2, CanaryAssumption DEF CanaryInit, ProbeInv, CountInv, SeenInv, LostInv, LastOf

LEMMA ApartIs ==
  ASSUME NEW x \in Int, NEW y \in Int
  PROVE  Apart(x, y) = (IF x >= y THEN x - y ELSE y - x) /\ Apart(x, y) \in Int
<1>1. Apart(x, y) = IF x >= y THEN x - y ELSE y - x
  BY MaxOfTwoNumbers DEF Apart
<1>2. x - y \in Int /\ y - x \in Int
  OBVIOUS
<1> QED
  BY <1>1, <1>2

(* The judgement of a price tells a jump from the price before, and only it. *)
LEMMA StoredAsJudged ==
  ASSUME ProbeTypeOK, SeenInv, Store
  PROVE  Told(seen', probed.price, probed.fresh, status, Len(seen'))
<1> USE CanaryAssumption
<1>1. /\ seen' = Append(seen, probed.price) /\ probed' = probed /\ status' = status
      /\ probed.price # 0 /\ probed.price \in Nat /\ status = Judged(probed)
  BY DEF ProbeTypeOK, SeenInv, Store
<1>2. SUFFICES ASSUME Len(seen') > 1
               PROVE  Told(seen', probed.price, probed.fresh, status, Len(seen'))
  BY DEF Told
<1>3. /\ seen \in Seq(ClosePrices) /\ seen # <<>> /\ Len(seen') - 1 = Len(seen)
      /\ seen'[Len(seen)] = seen[Len(seen)] /\ seen[Len(seen)] \in ClosePrices
  BY <1>1, <1>2 DEF ProbeTypeOK
<1>4. price = seen[Len(seen)] /\ price \in Nat \ {0} /\ Apart(probed.price, price) \in Int
  <2>1. price = seen[Len(seen)] /\ price \in Nat \ {0}
    BY <1>3 DEF SeenInv
  <2>2. Apart(probed.price, price) \in Int
    <3>1. PICK x, y : x = probed.price /\ y = price
      OBVIOUS
    <3>2. x \in Int /\ y \in Int
      BY <1>1, <2>1, <3>1
    <3>3. Apart(x, y) \in Int
      BY <3>2, ApartIs
    <3> QED
      BY <3>1, <3>3
  <2> QED
    BY <2>1, <2>2
<1>5. /\ status = "ok" <=> probed.fresh /\ Sane(probed.price, price)
      /\ status = "fail" <=> ~probed.fresh /\ ~Sane(probed.price, price)
  BY <1>1 DEF Judged
<1>6. Sane(probed.price, price) <=> ~(5 * Apart(probed.price, price) >= price)
  BY <1>4 DEF Sane
<1> QED
  BY <1>3, <1>4, <1>5, <1>6 DEF Told

(* The last result, and the one before any.                                  *)
LEMMA TheLastResult ==
  ASSUME ProbeTypeOK, NEW i \in 0..Len(results)
  PROVE  LastOf(i).nth \in Nat /\ LastOf(i).deaths \in Nat
<1>1. CASE i = 0
  BY <1>1 DEF LastOf
<1>2. CASE i # 0
  <2>1. results[i] \in Results
    BY <1>2 DEF ProbeTypeOK
  <2> QED
    BY <1>2, <2>1 DEF LastOf, Results
<1> QED
  BY <1>1, <1>2

LEMMA ProbeInvNext == ProbeInv /\ [CanaryNext]_canaryVars => ProbeInv'
<1> SUFFICES ASSUME ProbeInv, [CanaryNext]_canaryVars PROVE ProbeInv'
  OBVIOUS
<1> USE CanaryAssumption
<1>0. /\ Len(results) \in 0..Len(results) /\ \A i \in DOMAIN results : i - 1 \in 0..Len(results)
      /\ Len(results) \in Nat /\ Len(seen) \in Nat /\ Len(counted) \in Nat /\ crashes \in Nat
  BY DEF ProbeInv, ProbeTypeOK
<1>1. CASE Fetch
  <2>1. PICK p \in ClosePrices \cup {0}, fresh \in BOOLEAN :
          /\ probed' = [price |-> p, fresh |-> fresh] /\ (p = 0 => ~fresh)
          /\ status' = Judged(probed')
          /\ step' = IF p = 0 THEN "persist" ELSE "store"
    BY <1>1 DEF Fetch
  <2>2. step = "idle" /\ Len(results) < MaxProbes
        /\ UNCHANGED <<price, results, fails, seen, counted, crashes>>
    BY <1>1 DEF Fetch
  <2>3. status' \in Verdicts
    BY <2>1 DEF Judged, Verdicts
  <2>4. ProbeTypeOK'
    BY <2>1, <2>2, <2>3 DEF ProbeInv, ProbeTypeOK
  <2>5. CountInv'
    BY <2>1, <2>2 DEF ProbeInv, CountInv
  <2>6. SeenInv'
    BY <2>1, <2>2 DEF ProbeInv, SeenInv, Told, Judged
  <2>7. LostInv'
    BY <2>1, <2>2 DEF ProbeInv, LostInv, LastOf
  <2> QED
    BY <2>4, <2>5, <2>6, <2>7 DEF ProbeInv
<1>2. CASE Store
  <2>1. /\ step = "store" /\ step' = "persist" /\ price' = probed.price
        /\ seen' = Append(seen, probed.price)
        /\ UNCHANGED <<probed, status, results, fails, counted, crashes>>
    BY <1>2 DEF Store
  <2>2. probed.price \in ClosePrices /\ probed.price # 0 /\ seen \in Seq(ClosePrices)
    BY <2>1 DEF ProbeInv, ProbeTypeOK, SeenInv
  <2>3. ProbeTypeOK'
    BY <2>1, <2>2 DEF ProbeInv, ProbeTypeOK
  <2>4. CountInv'
    BY <2>1 DEF ProbeInv, CountInv
  <2>5. \A i \in DOMAIN results' :
          /\ results'[i].nth <= Len(seen')
          /\ Told(seen', results'[i].price, results'[i].fresh, results'[i].status, results'[i].nth)
    <3>1. SUFFICES ASSUME NEW i \in DOMAIN results
                   PROVE  /\ results[i].nth <= Len(seen')
                          /\ Told(seen', results[i].price, results[i].fresh, results[i].status,
                                  results[i].nth)
      BY <2>1
    <3>2. /\ results[i].nth \in Nat /\ results[i].nth <= Len(seen)
          /\ Told(seen, results[i].price, results[i].fresh, results[i].status, results[i].nth)
      <4>1. results[i] \in Results
        BY DEF ProbeInv, ProbeTypeOK
      <4> QED
        BY <4>1 DEF ProbeInv, Results, SeenInv
    <3>3. results[i].nth > 1 => seen'[results[i].nth - 1] = seen[results[i].nth - 1]
      BY <2>1, <2>2, <3>2
    <3>4. Len(seen') >= Len(seen)
      BY <2>1, <2>2
    <3> QED
      BY <3>2, <3>3, <3>4, <1>0, <2>1, <2>2 DEF Told
  <2>6. seen' # <<>> /\ seen'[Len(seen')] = probed.price /\ Len(seen') = Len(seen) + 1
    BY <2>1, <2>2
  <2>7. Told(seen', probed'.price, probed'.fresh, status', Len(seen'))
    BY <1>2, <2>1, StoredAsJudged DEF ProbeInv
  <2>8. SeenInv'
    BY <2>1, <2>5, <2>6, <2>7 DEF SeenInv
  <2>9. LostInv'
    <3>1. \A i : LastOf(i)' = LastOf(i)
      BY <2>1 DEF LastOf
    <3>2. LastOf(Len(results)).nth \in Nat /\ LastOf(Len(results)).deaths \in Nat
      BY <1>0, TheLastResult DEF ProbeInv
    <3>3. Len(seen) - LastOf(Len(results)).nth <= crashes - LastOf(Len(results)).deaths
      BY <1>0, <2>1, <3>2 DEF ProbeInv, LostInv
    <3>4. Len(seen') - LastOf(Len(results)).nth <= crashes - LastOf(Len(results)).deaths + 1
      BY <1>0, <2>6, <3>2, <3>3
    <3> QED
      BY <2>1, <2>2, <3>1, <3>4 DEF ProbeInv, LostInv
  <2> QED
    BY <2>3, <2>4, <2>8, <2>9 DEF ProbeInv
<1>3. CASE Persist
  <2>1. PICK r : r = [price |-> probed.price, fresh |-> probed.fresh, status |-> status,
                      nth |-> Len(seen), deaths |-> crashes]
    OBVIOUS
  <2>2. /\ step = "persist" /\ step' = "count" /\ results' = Append(results, r)
        /\ UNCHANGED <<probed, status, price, fails, seen, counted, crashes>>
    BY <1>3, <2>1 DEF Persist
  <2>3. r \in Results /\ results \in Seq(Results) /\ Len(results) < MaxProbes
    BY <2>1, <2>2 DEF ProbeInv, ProbeTypeOK, Results, CountInv
  <2>4. ProbeTypeOK'
    BY <2>2, <2>3 DEF ProbeInv, ProbeTypeOK
  <2>5. CountInv'
    BY <2>1, <2>2, <2>3, <1>0 DEF ProbeInv, CountInv
  <2>6. SeenInv'
    BY <2>1, <2>2, <2>3 DEF ProbeInv, ProbeTypeOK, SeenInv, Told
  <2>7. LostInv'
    <3>1. PICK n \in Nat : n = Len(results)
      BY <1>0
    <3>2. /\ Len(results') = n + 1 /\ DOMAIN results' = 1..(n + 1)
          /\ results'[n + 1] = r /\ \A i \in 1..n : results'[i] = results[i]
      BY <2>2, <2>3, <3>1
    <3>3. \A i \in 0..n : LastOf(i)' = LastOf(i)
      BY <3>2 DEF LastOf
    <3>4. LastOf(n + 1)' = r
      BY <3>1, <3>2 DEF LastOf
    <3>5. LastOf(n).nth \in Nat /\ LastOf(n).deaths \in Nat
      BY <1>0, <3>1, TheLastResult DEF ProbeInv
    <3>6. r.nth - LastOf(n).nth
            <= r.deaths - LastOf(n).deaths + (IF r.price = 0 THEN 0 ELSE 1)
      BY <1>0, <2>1, <2>2, <3>1, <3>5 DEF ProbeInv, LostInv
    <3>7. \A i \in 1..n : results[i].nth - LastOf(i - 1).nth
            <= results[i].deaths - LastOf(i - 1).deaths + (IF results[i].price = 0 THEN 0 ELSE 1)
      BY <2>3, <3>1 DEF ProbeInv, LostInv
    <3>8. \A i \in DOMAIN results' : results'[i].nth - LastOf(i - 1)'.nth
            <= results'[i].deaths - LastOf(i - 1)'.deaths
                 + (IF results'[i].price = 0 THEN 0 ELSE 1)
      <4>1. ASSUME NEW i \in DOMAIN results'
            PROVE  results'[i].nth - LastOf(i - 1)'.nth
                     <= results'[i].deaths - LastOf(i - 1)'.deaths
                          + (IF results'[i].price = 0 THEN 0 ELSE 1)
        <5>1. i - 1 \in 0..n /\ (i \in 1..n \/ i = n + 1) /\ (n + 1) - 1 = n
          BY <3>2
        <5>2. LastOf(i - 1)' = LastOf(i - 1)
          BY <3>3, <5>1
        <5>3. CASE i = n + 1
          BY <3>2, <3>6, <5>1, <5>2, <5>3
        <5>4. CASE i \in 1..n
          BY <3>2, <3>7, <5>2, <5>4
        <5> QED
          BY <5>1, <5>3, <5>4
      <4> QED
        BY <4>1
    <3>9. Len(seen) - r.nth <= crashes - r.deaths
      BY <1>0, <2>1
    <3> QED
      BY <2>2, <3>2, <3>4, <3>8, <3>9, <1>0, <2>1 DEF LostInv
  <2> QED
    BY <2>4, <2>5, <2>6, <2>7 DEF ProbeInv
<1>4. CASE Count
  <2>1. PICK r : r = results[Len(results)]
    OBVIOUS
  <2>2. /\ step = "count" /\ step' = "idle" /\ fails' = IF status = "ok" THEN 0 ELSE fails + 1
        /\ counted' = Append(counted, r)
        /\ UNCHANGED <<probed, status, price, results, seen, crashes>>
    BY <1>4, <2>1 DEF Count
  <2>3. r \in Results /\ r.status = status
    BY <1>0, <2>1, <2>2 DEF ProbeInv, ProbeTypeOK, CountInv
  <2>4. ProbeTypeOK'
    BY <2>2, <2>3 DEF ProbeInv, ProbeTypeOK
  <2>5. Streak(counted') = IF status = "ok" THEN 0 ELSE Streak(counted) + 1
    BY <2>2, <2>3, StreakGrows DEF ProbeInv, ProbeTypeOK
  <2>6. CountInv'
    <3>1. Len(counted') = Len(counted) + 1
      BY <2>2, <2>3 DEF ProbeInv, ProbeTypeOK
    <3>2. fails' = Streak(counted') /\ fails' <= Len(counted')
      BY <1>0, <2>2, <2>5, <3>1 DEF ProbeInv, ProbeTypeOK, CountInv
    <3>3. /\ Len(counted') <= Len(results') /\ Len(results') <= MaxProbes
          /\ Len(results') - Len(counted') <= crashes'
      BY <1>0, <2>2, <3>1 DEF ProbeInv, CountInv
    <3> QED
      BY <1>0, <2>2, <3>2, <3>3 DEF CountInv
  <2>7. SeenInv' /\ LostInv'
    BY <2>2 DEF ProbeInv, SeenInv, Told, LostInv, LastOf
  <2> QED
    BY <2>4, <2>6, <2>7 DEF ProbeInv
<1>5. CASE Crash
  <2>1. /\ step # "idle" /\ step' = "idle" /\ crashes' = crashes + 1
        /\ UNCHANGED <<probed, status, price, results, fails, seen, counted>>
    BY <1>5 DEF Crash
  <2>2. ProbeTypeOK'
    BY <2>1 DEF ProbeInv, ProbeTypeOK
  <2>3. CountInv'
    BY <1>0, <2>1 DEF ProbeInv, CountInv
  <2>4. SeenInv'
    BY <2>1 DEF ProbeInv, SeenInv, Told
  <2>5. LostInv'
    <3>1. \A i : LastOf(i)' = LastOf(i)
      BY <2>1 DEF LastOf
    <3>2. PICK n \in Nat : n = Len(results)
      BY <1>0
    <3>3. LastOf(n).nth \in Nat /\ LastOf(n).deaths \in Nat
      BY <1>0, <3>2, TheLastResult DEF ProbeInv
    <3>4. Len(seen) - LastOf(n).nth <= crashes + 1 - LastOf(n).deaths
      BY <1>0, <3>2, <3>3 DEF ProbeInv, LostInv
    <3>5. LastOf(n)' = LastOf(n) /\ n = Len(results')
      BY <2>1, <3>1, <3>2
    <3>6. Len(seen') - LastOf(n)'.nth <= crashes' - LastOf(n)'.deaths + 0
      BY <1>0, <2>1, <3>3, <3>4, <3>5
    <3>7. \A i \in DOMAIN results' : results'[i].nth - LastOf(i - 1)'.nth
            <= results'[i].deaths - LastOf(i - 1)'.deaths
                 + (IF results'[i].price = 0 THEN 0 ELSE 1)
      BY <2>1, <3>1 DEF ProbeInv, LostInv
    <3> QED
      BY <2>1, <3>5, <3>6, <3>7 DEF LostInv
  <2> QED
    BY <2>2, <2>3, <2>4, <2>5 DEF ProbeInv
<1>6. CASE UNCHANGED canaryVars
  BY <1>6 DEF canaryVars, ProbeInv, ProbeTypeOK, CountInv, SeenInv, Told, Judged, LostInv, LastOf
<1> QED
  BY <1>1, <1>2, <1>3, <1>4, <1>5, <1>6 DEF CanaryNext

(* Whatever prices come, and wherever the probe dies: a result tells a jump  *)
(* from the price stored before it and no other, no more prices go untold    *)
(* than probes died, and the failures counted are those in a row among the   *)
(* results that reached the count.                                           *)
THEOREM ProbesAreTrue == CanarySpec => []ProbesTellTheTruth
<1>1. ProbeInv => ProbesTellTheTruth
  <2> SUFFICES ASSUME ProbeInv PROVE ProbesTellTheTruth
    OBVIOUS
  <2>1. CanaryTypeOK
    BY CanaryAssumption DEF ProbeInv, ProbeTypeOK, CountInv, CanaryTypeOK, Verdicts
  <2>2. JumpsAreToldOnce
    BY DEF ProbeInv, SeenInv, Told, JumpsAreToldOnce
  <2>3. DeathsAloneLoseAJump
    <3>1. step = "idle" => Len(seen) - LastOf(Len(results)).nth
                             <= crashes - LastOf(Len(results)).deaths
      <4>1. LastOf(Len(results)).nth \in Nat /\ LastOf(Len(results)).deaths \in Nat
        BY TheLastResult DEF ProbeInv, ProbeTypeOK
      <4> QED
        BY <4>1 DEF ProbeInv, ProbeTypeOK, LostInv
    <3> QED
      BY <3>1 DEF ProbeInv, LostInv, DeathsAloneLoseAJump
  <2>4. FailuresAreInARow
    BY DEF ProbeInv, CountInv, FailuresAreInARow, Streak, Row
  <2> QED
    BY <2>1, <2>2, <2>3, <2>4 DEF ProbesTellTheTruth
<1> QED
  BY <1>1, ProbeInvInit, ProbeInvNext, PTL DEF CanarySpec

-----------------------------------------------------------------------------
(***************************************************************************)
(* The error budget.                                                       *)
(***************************************************************************)

(* A bad event makes the bad events of a window more, unless it pushes one   *)
(* out of it.                                                                *)
Entries == [when : Nat, good : BOOLEAN]
InWindow(now, span) == {e \in Entries : now - e.when <= span}
BadInWindow(now, span) == {e \in InWindow(now, span) : ~e.good}
AllIn(s, now, span) == Cardinality(Picked(s, InWindow(now, span)))
BadIn(s, now, span) == Cardinality(Picked(s, BadInWindow(now, span)))

LEMMA WindowsArePicked ==
  ASSUME NEW s \in Seq(Entries), NEW now, NEW span
  PROVE  /\ Picked(s, InWindow(now, span)) = {i \in DOMAIN s : now - s[i].when <= span}
         /\ Picked(s, BadInWindow(now, span))
              = {i \in {j \in DOMAIN s : now - s[j].when <= span} : ~s[i].good}
<1>1. \A i \in DOMAIN s : s[i] \in Entries
  OBVIOUS
<1>2. QED
  BY <1>1 DEF Picked, InWindow, BadInWindow

(* A queue s that took a bad event and became t, and how its windows then are. *)
TookBadNews(s, t, now) ==
  \E x \in Entries, r \in Seq(Entries) :
    /\ x.when = now /\ x.good = FALSE /\ t = Append(r, x)
    /\ r = s \/ (s # <<>> /\ r = Tail(s))

IsWorse(s, t, now, span) ==
  /\ AllIn(s, now, span) \in Nat /\ BadIn(s, now, span) \in Nat
  /\ AllIn(t, now, span) \in Nat /\ BadIn(t, now, span) \in Nat
  /\ BadIn(s, now, span) <= AllIn(s, now, span)
  /\ \/ /\ AllIn(t, now, span) = AllIn(s, now, span)
        /\ BadIn(t, now, span) >= BadIn(s, now, span)
     \/ /\ AllIn(t, now, span) = AllIn(s, now, span) + 1
        /\ BadIn(t, now, span) = BadIn(s, now, span) + 1

LEMMA BadNewsInAWindow ==
  ASSUME NEW s \in Seq(Entries), NEW now \in Nat, NEW span \in Nat,
         NEW t, TookBadNews(s, t, now)
  PROVE  IsWorse(s, t, now, span)
<1>1. PICK x \in Entries, r \in Seq(Entries) :
        /\ x.when = now /\ x.good = FALSE /\ t = Append(r, x)
        /\ r = s \/ (s # <<>> /\ r = Tail(s))
  BY DEF TookBadNews
<1>2. PICK W : W = InWindow(now, span)
  OBVIOUS
<1>3. PICK B : B = BadInWindow(now, span)
  OBVIOUS
<1>4. x \in Entries /\ x \in W /\ x \in B /\ B \subseteq W
  <2>1. now - now <= span
    OBVIOUS
  <2>2. QED
    BY <1>1, <1>2, <1>3, <2>1 DEF InWindow, BadInWindow
<1>7. /\ Cardinality(Picked(t, W)) = Cardinality(Picked(r, W)) + 1
      /\ Cardinality(Picked(t, B)) = Cardinality(Picked(r, B)) + 1
  <2>1. ASSUME NEW G
        PROVE  Cardinality(Picked(Append(r, x), G))
                 = Cardinality(Picked(r, G)) + (IF x \in G THEN 1 ELSE 0)
    BY OneMorePicked
  <2>2. QED
    BY <1>1, <1>4, <2>1
<1>8. /\ Cardinality(Picked(s, W)) \in Nat /\ Cardinality(Picked(s, B)) \in Nat
      /\ Cardinality(Picked(r, W)) \in Nat /\ Cardinality(Picked(r, B)) \in Nat
      /\ IsFiniteSet(Picked(s, W))
  BY PickedAreFew
<1>9. Cardinality(Picked(s, B)) <= Cardinality(Picked(s, W))
  <2>1. Picked(s, B) \in SUBSET Picked(s, W)
    BY <1>4 DEF Picked
  <2>2. QED
    BY <1>8, <2>1, FS_Subset
<1>10. \/ /\ Cardinality(Picked(r, W)) = Cardinality(Picked(s, W))
          /\ Cardinality(Picked(r, B)) = Cardinality(Picked(s, B))
       \/ /\ Cardinality(Picked(r, W)) = Cardinality(Picked(s, W)) - 1
          /\ \/ Cardinality(Picked(r, B)) = Cardinality(Picked(s, B))
             \/ Cardinality(Picked(r, B)) = Cardinality(Picked(s, B)) - 1
  <2>1. CASE r = s
    BY <2>1
  <2>2. CASE s # <<>> /\ r = Tail(s) /\ s[1] \notin W
    <3>1. s[1] \notin B
      BY <1>4, <2>2
    <3>2. QED
      BY <1>8, <2>2, <3>1, HeadUnpicked
  <2>3. CASE s # <<>> /\ r = Tail(s) /\ s[1] \in W
    BY <1>8, <2>3, HeadUnpicked
  <2>4. QED
    BY <1>1, <2>1, <2>2, <2>3
<1>11. /\ AllIn(s, now, span) = Cardinality(Picked(s, W))
       /\ BadIn(s, now, span) = Cardinality(Picked(s, B))
       /\ AllIn(t, now, span) = Cardinality(Picked(t, W))
       /\ BadIn(t, now, span) = Cardinality(Picked(t, B))
  BY <1>2, <1>3 DEF AllIn, BadIn
<1>12. QED
  BY <1>7, <1>8, <1>9, <1>10, <1>11 DEF IsWorse

-----------------------------------------------------------------------------
(* How a rate above a limit stays above it.                                  *)
LEMMA RatesDoNotFall ==
  ASSUME NEW k \in Nat, NEW m \in Nat, NEW b \in Nat, NEW w \in Nat, NEW c \in Nat, NEW v \in Nat,
         b <= w, k * b > m * w,
         \/ v = w /\ c >= b
         \/ v = w + 1 /\ c = b + 1
  PROVE  k * c > m * v
<1>1. m < k
  <2>1. SUFFICES ASSUME m >= k PROVE FALSE
    OBVIOUS
  <2>2. m * w >= k * w
    BY <2>1
  <2>3. k * w >= k * b
    OBVIOUS
  <2>4. k * w \in Nat /\ k * b \in Nat /\ m * w \in Nat
    OBVIOUS
  <2>5. QED
    BY <2>2, <2>3, <2>4
<1>2. CASE v = w /\ c >= b
  <2>1. k * c >= k * b
    BY <1>2
  <2>2. QED
    BY <1>2, <2>1
<1>3. CASE v = w + 1 /\ c = b + 1
  <2>1. k * c = k * b + k /\ m * v = m * w + m
    BY <1>3
  <2>2. k * b \in Nat /\ m * w \in Nat
    OBVIOUS
  <2>3. QED
    BY <1>1, <2>1, <2>2
<1>4. QED
  BY <1>2, <1>3

SloInv ==
  /\ SloTypeOK /\ events \in Seq(Entries)
  /\ \A i \in DOMAIN events : events[i].when <= hour

LEMMA SloConstants ==
  Capacity \in Nat \ {0} /\ Hours \in Nat /\ \A a \in Allowed : a \in Nat
  BY SloAssumption

LEMMA SloInvInit == SloInit => SloInv
  BY SloAssumption DEF SloInit, SloInv, SloTypeOK

LEMMA SloInvNext == SloInv /\ [SloNext]_sloVars => SloInv'
<1> SUFFICES ASSUME SloInv, [SloNext]_sloVars PROVE SloInv'
  OBVIOUS
<1>1. CASE HourPasses
  <2>1. hour \in Nat /\ hour' = hour + 1 /\ hour < Hours /\ events' = events
    BY <1>1 DEF HourPasses, SloInv, SloTypeOK
  <2>2. events \in Seq(Entries) /\ \A i \in DOMAIN events : events[i].when \in Nat
    <3>1. events \in Seq(Entries)
      BY DEF SloInv
    <3>2. \A i \in DOMAIN events : events[i] \in Entries
      BY <3>1
    <3>3. QED
      BY <3>1, <3>2 DEF Entries
  <2>3. \A i \in DOMAIN events : events[i].when <= hour + 1
    BY <2>1, <2>2 DEF SloInv
  <2>4. hour' \in 0..Hours
    BY <2>1, SloConstants
  <2>5. QED
    BY <2>1, <2>2, <2>3, <2>4 DEF SloInv, SloTypeOK
<1>2. ASSUME NEW good \in BOOLEAN, Record(good) PROVE SloInv'
  <2>1. PICK x : x = [when |-> hour, good |-> good]
    BY Zenon
  <2>2. hour \in Nat /\ x \in Entries /\ x.when = hour
    BY <2>1 DEF SloInv, SloTypeOK, Entries
  <2>3. PICK s : s = IF Len(events) = Capacity THEN Tail(events) ELSE events
    BY Zenon
  <2>4. events \in Seq(Entries) /\ Len(events) <= Capacity
        /\ (\A i \in DOMAIN events : events[i].when <= hour)
        /\ (\A i, j \in DOMAIN events : i < j => events[i].when <= events[j].when)
    BY DEF SloInv, SloTypeOK
  <2>5. /\ s \in Seq(Entries) /\ Len(s) < Capacity
        /\ \A i \in DOMAIN s : s[i].when <= hour
        /\ \A i, j \in DOMAIN s : i < j => s[i].when <= s[j].when
    <3>1. CASE Len(events) = Capacity
      <4>1. s = Tail(events) /\ events # <<>>
        BY <2>3, <3>1, SloConstants
      <4>2. /\ s \in Seq(Entries) /\ Len(s) = Len(events) - 1
            /\ \A i \in DOMAIN s : s[i] = events[i + 1] /\ i + 1 \in DOMAIN events /\ i \in Nat
        BY <2>4, <4>1
      <4>3. Len(s) < Capacity
        BY <3>1, <4>2, SloConstants
      <4>4. ASSUME NEW i \in DOMAIN s, NEW j \in DOMAIN s, i < j
            PROVE  s[i].when <= s[j].when
        <5>1. /\ s[i] = events[i + 1] /\ s[j] = events[j + 1] /\ i + 1 < j + 1
              /\ i + 1 \in DOMAIN events /\ j + 1 \in DOMAIN events
          BY <4>2, <4>4
        <5>2. QED
          BY <2>4, <5>1
      <4>5. \A i \in DOMAIN s : s[i].when <= hour
        BY <2>4, <4>2
      <4>6. QED
        BY <4>2, <4>3, <4>4, <4>5
    <3>2. CASE Len(events) # Capacity
      BY <2>3, <2>4, <3>2, SloConstants
    <3>3. QED
      BY <3>1, <3>2
  <2>6. events' = Append(s, x) /\ hour' = hour
    BY <1>2, <2>1, <2>3 DEF Record
  <2>7. PICK t : t = Append(s, x)
    OBVIOUS
  <2>8. /\ t \in Seq(Entries) /\ Len(t) = Len(s) + 1 /\ t[Len(s) + 1] = x
        /\ \A i \in DOMAIN t : (i \in DOMAIN s /\ t[i] = s[i]) \/ i = Len(s) + 1
        /\ \A i \in DOMAIN s : i \in Nat /\ i <= Len(s)
    BY <2>2, <2>5, <2>7
  <2>9. \A i \in DOMAIN t : t[i].when <= hour
    BY <2>2, <2>5, <2>8
  <2>10. \A i, j \in DOMAIN t : i < j => t[i].when <= t[j].when
    <3>1. ASSUME NEW i \in DOMAIN t, NEW j \in DOMAIN t, i < j PROVE t[i].when <= t[j].when
      <4>1. CASE j = Len(s) + 1
        BY <2>2, <2>8, <2>9, <4>1
      <4>2. CASE j \in DOMAIN s /\ t[j] = s[j]
        BY <2>5, <2>8, <3>1, <4>2
      <4>3. QED
        BY <2>8, <4>1, <4>2
    <3>2. QED
      BY <3>1
  <2>11. Len(t) <= Capacity
    BY <2>5, <2>8, SloConstants
  <2>12. QED
    BY <2>6, <2>7, <2>8, <2>9, <2>10, <2>11 DEF SloInv, SloTypeOK
<1>3. CASE UNCHANGED sloVars
  BY <1>3 DEF sloVars, SloInv, SloTypeOK
<1>4. QED
  BY <1>1, <1>2, <1>3 DEF SloNext

(* The windows, told by what is picked.                                      *)
LEMMA WindowsOfTheQueue ==
  ASSUME SloInv, NEW span \in Nat
  PROVE  /\ Within(span) = Picked(events, InWindow(hour, span))
         /\ Bad(span) = Picked(events, BadInWindow(hour, span))
         /\ IsFiniteSet(Within(span)) /\ Bad(span) \subseteq Within(span)
         /\ Cardinality(Within(span)) \in Nat /\ Cardinality(Bad(span)) \in Nat
         /\ Cardinality(Bad(span)) <= Cardinality(Within(span))
<1>1. events \in Seq(Entries)
  BY DEF SloInv
<1>2. PICK W : W = Within(span)
  OBVIOUS
<1>3. PICK B : B = Bad(span)
  OBVIOUS
<1>4. W = Picked(events, InWindow(hour, span)) /\ B = Picked(events, BadInWindow(hour, span))
  BY <1>1, <1>2, <1>3, WindowsArePicked DEF Within, Bad
<1>5. IsFiniteSet(W) /\ Cardinality(W) \in Nat /\ Cardinality(B) \in Nat
  BY <1>1, <1>4, PickedAreFew
<1>6. B \subseteq W
  BY <1>2, <1>3 DEF Bad
<1>7. Cardinality(B) <= Cardinality(W)
  BY <1>5, <1>6, FS_Subset
<1>8. QED
  BY <1>2, <1>3, <1>4, <1>5, <1>6, <1>7

LEMMA OutagesTold == SloInv => OutagesAreTold
<1> SUFFICES ASSUME SloInv, NEW a \in Allowed, a <= 50, Within(6) # {},
                    3 * Cardinality(Bad(6)) >= Cardinality(Within(6))
             PROVE  Slow(a)
  BY DEF OutagesAreTold, Alert
<1>1. a \in Nat \ {0}
  BY SloAssumption
<1>2. PICK w : w = Cardinality(Within(6))
  OBVIOUS
<1>3. PICK b : b = Cardinality(Bad(6))
  OBVIOUS
<1>4. w \in Nat /\ b \in Nat /\ w # 0 /\ 3 * b >= w
  BY <1>2, <1>3, WindowsOfTheQueue, FS_EmptySet
<1>5. 6 * a * w <= 300 * w /\ 6 * a * w \in Nat
  BY <1>1, <1>4
<1>6. 1000 * b > 6 * a * w
  BY <1>4, <1>5
<1>7. QED
  BY <1>2, <1>3, <1>6 DEF Slow

(* A rate, of any events.                                                    *)
Burns(s, now, span, k, m) ==
  k * Cardinality({i \in {j \in DOMAIN s : now - s[j].when <= span} : ~s[i].good})
    > m * Cardinality({j \in DOMAIN s : now - s[j].when <= span})

LEMMA RatesArePicked ==
  ASSUME NEW s \in Seq(Entries), NEW now, NEW span, NEW k, NEW m
  PROVE  Burns(s, now, span, k, m) <=> k * BadIn(s, now, span) > m * AllIn(s, now, span)
<1>1. /\ AllIn(s, now, span) = Cardinality({i \in DOMAIN s : now - s[i].when <= span})
      /\ BadIn(s, now, span)
           = Cardinality({i \in {j \in DOMAIN s : now - s[j].when <= span} : ~s[i].good})
  BY WindowsArePicked DEF AllIn, BadIn
<1>2. QED
  BY <1>1 DEF Burns

LEMMA BadNewsBurns ==
  ASSUME NEW s \in Seq(Entries), NEW now \in Nat, NEW span \in Nat,
         NEW t \in Seq(Entries), TookBadNews(s, t, now), NEW k \in Nat, NEW m \in Nat
  PROVE  Burns(s, now, span, k, m) => Burns(t, now, span, k, m)
<1>1. Burns(s, now, span, k, m) <=> k * BadIn(s, now, span) > m * AllIn(s, now, span)
  BY RatesArePicked
<1>2. Burns(t, now, span, k, m) <=> k * BadIn(t, now, span) > m * AllIn(t, now, span)
  BY RatesArePicked
<1>3. IsWorse(s, t, now, span)
  BY BadNewsInAWindow
<1>4. PICK w, b, v, c : /\ w = AllIn(s, now, span) /\ b = BadIn(s, now, span)
                        /\ v = AllIn(t, now, span) /\ c = BadIn(t, now, span)
  OBVIOUS
<1>5. k * b > m * w => k * c > m * v
  <2>1. /\ w \in Nat /\ b \in Nat /\ v \in Nat /\ c \in Nat /\ b <= w
        /\ (v = w /\ c >= b) \/ (v = w + 1 /\ c = b + 1)
    BY <1>3, <1>4 DEF IsWorse
  <2>2. QED
    BY <2>1, RatesDoNotFall
<1>6. QED
  BY <1>1, <1>2, <1>4, <1>5

(* A bad event lifts no alert and softens none.                              *)
LEMMA BadNewsAlerts ==
  ASSUME SloInv, [SloNext]_sloVars, recorded' # recorded, ~events'[Len(events')].good,
         NEW a \in Allowed
  PROVE  (Fast(a) => Fast(a)') /\ (Slow(a) => Slow(a)')
<1>1. PICK good \in BOOLEAN : Record(good)
  BY DEF SloNext, HourPasses, sloVars
<1>2. PICK s \in Seq(Entries) : s = events
  BY DEF SloInv
<1>3. PICK now \in Nat : now = hour
  BY DEF SloInv, SloTypeOK
<1>4. PICK r : r = IF Len(events) = Capacity THEN Tail(events) ELSE events
  BY Zenon
<1>5. (r = s \/ (s # <<>> /\ r = Tail(s))) /\ r \in Seq(Entries)
  BY <1>2, <1>4, SloConstants
<1>6. PICK x : x = [when |-> now, good |-> good]
  BY Zenon
<1>7. events' = Append(r, x) /\ hour' = now
  BY <1>1, <1>3, <1>4, <1>6 DEF Record
<1>8. good = FALSE
  <2>1. events'[Len(events')] = x
    BY <1>5, <1>7
  <2>2. x.good = good
    BY <1>6
  <2>3. QED
    BY <2>1, <2>2
<1>9. x \in Entries /\ x.when = now /\ x.good = FALSE
  BY <1>6, <1>8 DEF Entries
<1>10. PICK t \in Seq(Entries) : TookBadNews(s, t, now) /\ events' = t
  <2>1. PICK t : t = Append(r, x)
    BY Zenon
  <2>2. t \in Seq(Entries)
    BY <1>5, <1>9, <2>1
  <2>3. TookBadNews(s, t, now)
    BY <1>5, <1>9, <2>1 DEF TookBadNews
  <2>4. QED
    BY <1>7, <2>1, <2>2, <2>3, Zenon
<1>11. PICK f \in Nat : f = 288 * a
  BY SloConstants
<1>12. PICK g \in Nat : g = 6 * a
  BY SloConstants
<1>13. /\ Fast(a) <=> Burns(events, hour, 1, 10000, 288 * a)
       /\ Slow(a) <=> Burns(events, hour, 6, 1000, 6 * a)
  BY DEF Fast, Slow, Bad, Within, Burns
<1>14. /\ Fast(a)' <=> Burns(events', hour', 1, 10000, 288 * a)
       /\ Slow(a)' <=> Burns(events', hour', 6, 1000, 6 * a)
  BY DEF Fast, Slow, Bad, Within, Burns
<1>15. Burns(s, now, 1, 10000, f) => Burns(t, now, 1, 10000, f)
  <2>1. 1 \in Nat /\ 10000 \in Nat
    OBVIOUS
  <2>2. QED
    BY <1>10, <2>1, BadNewsBurns
<1>16. Burns(s, now, 6, 1000, g) => Burns(t, now, 6, 1000, g)
  <2>1. 6 \in Nat /\ 1000 \in Nat
    OBVIOUS
  <2>2. QED
    BY <1>10, <2>1, BadNewsBurns
<1>17. QED
  BY <1>2, <1>3, <1>7, <1>10, <1>11, <1>12, <1>13, <1>14, <1>15, <1>16

(* Whatever is recorded and whenever, an outage is told, an objective that   *)
(* allows one event in twenty never burns fast, and a bad event never lifts  *)
(* or softens an alert, full queue or not.                                   *)
THEOREM OutagesAlert == SloSpec => AlertsTellOutages
<1>1. SloInv => SloTypeOK /\ OutagesAreTold
  BY OutagesTold DEF SloInv
<1>2. ASSUME SloInv, SloInv', [SloNext]_sloVars
      PROVE  [recorded' # recorded /\ ~events'[Len(events')].good =>
                \A a \in Allowed : /\ Alert(a) = "fast" => Alert(a)' = "fast"
                                   /\ Alert(a) # "none" => Alert(a)' # "none"]_sloVars
  <2> SUFFICES ASSUME recorded' # recorded, ~events'[Len(events')].good, NEW a \in Allowed
               PROVE  /\ Alert(a) = "fast" => Alert(a)' = "fast"
                      /\ Alert(a) # "none" => Alert(a)' # "none"
    OBVIOUS
  <2>1. (Fast(a) => Fast(a)') /\ (Slow(a) => Slow(a)')
    BY <1>2, BadNewsAlerts
  <2>2. QED
    BY <2>1 DEF Alert
<1>3. QED
  BY <1>1, <1>2, SloInvInit, SloInvNext, PTL DEF SloSpec, AlertsTellOutages, BadNewsNeverCalms

-----------------------------------------------------------------------------
(***************************************************************************)
(* Fencing tokens.                                                         *)
(***************************************************************************)

(***************************************************************************)
(* The inductive invariant: besides what is to be shown, tokens have       *)
(* numbers for their times, and chains are numbered in order, so that the  *)
(* number of the next one is new.                                          *)
(***************************************************************************)
Chains == {t.chain : t \in tokens}

TokenInv ==
  /\ TokenTypeOK /\ GrantsAreShort
  /\ \A t \in tokens : t.issued \in Nat /\ t.until \in Int
  /\ \E n \in Nat : Chains = 1..n

(* The number of a new chain is nobody's.                                  *)
LEMMA NewChainIsNew ==
  ASSUME TokenInv
  PROVE  /\ NewChain \notin Chains
         /\ \E n \in Nat : Chains \cup {NewChain} = 1..n
<1>1. PICK n \in Nat : Chains = 1..n
  BY DEF TokenInv
<1>2. Cardinality(Chains) = n
  BY <1>1, FS_Interval
<1>3. NewChain = n + 1
  BY <1>2 DEF NewChain, Chains
<1>4. Chains \cup {NewChain} = 1..(n + 1) /\ n + 1 \in Nat
  BY <1>1, <1>3
<1> QED
  BY <1>1, <1>3, <1>4

-----------------------------------------------------------------------------
(* A token issued now keeps the invariant if it lasts no longer than one   *)
(* renewal, or is the first of its chain, and if only emergencies renew.   *)
LEMMA OneMoreToken ==
  ASSUME TokenInv, UNCHANGED <<key, clock, keys>>, key # 0,
         NEW id, NEW chain, NEW severity \in Severities, NEW until \in Int,
         tokens' = tokens \cup {Token(id, chain, severity, until)},
         until >= clock,
         \/ chain = NewChain /\ until - clock \in Validities
         \/ /\ until - clock <= MaxRenewal /\ severity = "emergency"
            /\ \E t \in tokens : t.chain = chain /\ t.severity = "emergency"
  PROVE  TokenInv'
<1> DEFINE new == Token(id, chain, severity, until)
<1>1. /\ new.chain = chain /\ new.severity = severity /\ new.issued = clock /\ new.until = until
      /\ new.key = key
  BY DEF Token
<1>2. PICK u : u = new
  OBVIOUS
<1>3. /\ u.chain = chain /\ u.severity = severity /\ u.issued = clock /\ u.until = until
      /\ u.key = key /\ tokens' = tokens \cup {u}
  BY <1>1, <1>2
<1>4. clock \in Nat /\ key \in 1..keys /\ keys \in Nat
  BY FencingAssumption DEF TokenInv, TokenTypeOK
<1>5. TokenTypeOK'
  BY <1>3, <1>4 DEF TokenInv, TokenTypeOK
<1>6. \A t \in tokens' : t.issued \in Nat /\ t.until \in Int
  BY <1>3, <1>4 DEF TokenInv
<1>7. \A t \in tokens : t.issued <= u.issued /\ t.issued \in Nat
  BY <1>3 DEF TokenInv, TokenTypeOK
<1>8. GrantsAreShort'
  <2>1. \A t \in tokens : /\ t.until - t.issued > MaxRenewal =>
                               /\ \A v \in tokens : v.chain = t.chain => t.issued <= v.issued
                               /\ t.until - t.issued \in Validities
                          /\ t.severity # "emergency" => \A v \in tokens : v.chain = t.chain => v = t
    BY DEF TokenInv, GrantsAreShort
  <2>2. \A t \in tokens : t.chain \in Chains
    BY DEF Chains
  <2>3. CASE chain = NewChain /\ until - clock \in Validities
    <3>1. \A t \in tokens : t.chain # u.chain
      BY <2>2, <2>3, <1>3, NewChainIsNew
    <3>2. \A t \in tokens' : /\ t.until - t.issued > MaxRenewal =>
                                  /\ \A v \in tokens' : v.chain = t.chain => t.issued <= v.issued
                                  /\ t.until - t.issued \in Validities
                             /\ t.severity # "emergency" => \A v \in tokens' : v.chain = t.chain => v = t
      BY <3>1, <2>1, <2>3, <1>3, <1>4
    <3> QED
      BY <3>2 DEF GrantsAreShort
  <2>4. CASE /\ until - clock <= MaxRenewal /\ severity = "emergency"
             /\ \E t \in tokens : t.chain = chain /\ t.severity = "emergency"
    <3>1. ~(u.until - u.issued > MaxRenewal)
      BY <2>4, <1>3, <1>4, FencingAssumption
    <3>2. \A t \in tokens : t.chain = u.chain => t.severity = "emergency"
      BY <2>1, <2>4, <1>3
    <3>3. \A t \in tokens' : /\ t.until - t.issued > MaxRenewal =>
                                  /\ \A v \in tokens' : v.chain = t.chain => t.issued <= v.issued
                                  /\ t.until - t.issued \in Validities
                             /\ t.severity # "emergency" => \A v \in tokens' : v.chain = t.chain => v = t
      BY <3>1, <3>2, <2>1, <2>4, <1>3, <1>7
    <3> QED
      BY <3>3 DEF GrantsAreShort
  <2> QED
    BY <2>3, <2>4
<1>9. \E n \in Nat : Chains' = 1..n
  <2>1. Chains' = Chains \cup {chain}
    BY <1>3 DEF Chains
  <2>2. chain = NewChain \/ chain \in Chains
    BY DEF Chains
  <2>3. CASE chain = NewChain
    BY <2>1, <2>3, NewChainIsNew
  <2>4. CASE chain \in Chains
    <3>1. Chains' = Chains
      BY <2>1, <2>4
    <3> QED
      BY <3>1 DEF TokenInv
  <2> QED
    BY <2>2, <2>3, <2>4
<1> QED
  BY <1>5, <1>6, <1>8, <1>9 DEF TokenInv

LEMMA RenewedLasts ==
  ASSUME TokenInv, NEW t \in tokens, NEW extension \in Validities, clock < t.issued + MaxTotal
  PROVE  /\ Renewed(t, extension) \in Int /\ Renewed(t, extension) >= clock
         /\ Renewed(t, extension) - clock <= MaxRenewal
<1>1. /\ clock \in Nat /\ t.issued \in Nat /\ extension \in Nat
      /\ MaxRenewal \in Nat /\ MaxTotal \in Nat
  BY FencingAssumption DEF TokenInv, TokenTypeOK
<1>2. PICK grant : grant = Min({extension, MaxRenewal})
  OBVIOUS
<1>3. grant \in Nat /\ grant <= MaxRenewal
  <2>1. extension \in Int /\ MaxRenewal \in Int
    BY <1>1
  <2>2. grant \in {extension, MaxRenewal} /\ grant <= MaxRenewal
    BY <1>2, <2>1, LesserOfTwo
  <2> QED
    BY <1>1, <2>2
<1>4. PICK until : until = Min({clock + grant, t.issued + MaxTotal})
  OBVIOUS
<1>5. until \in {clock + grant, t.issued + MaxTotal} /\ until <= clock + grant
  <2>1. clock + grant \in Int /\ t.issued + MaxTotal \in Int
    BY <1>1, <1>3
  <2> QED
    BY <1>4, <2>1, LesserOfTwo
<1>6. Renewed(t, extension) = until
  BY <1>2, <1>4 DEF Renewed
<1> QED
  BY <1>1, <1>2, <1>3, <1>5, <1>6

LEMMA TokenInvNext ==
  ASSUME TokenInv, [TokenNext]_tokenVars
  PROVE  TokenInv'
<1>1. /\ clock \in Nat /\ keys \in Nat /\ key \in Nat /\ MaxKeys \in Nat /\ MaxTime \in Nat
      /\ keys <= MaxKeys
  BY FencingAssumption DEF TokenInv, TokenTypeOK
<1>2. ASSUME tokens' = tokens
      PROVE  /\ GrantsAreShort' /\ (\E n \in Nat : Chains' = 1..n)
             /\ \A t \in tokens' : t.issued \in Nat /\ t.until \in Int
  BY <1>2 DEF TokenInv, GrantsAreShort, Chains
<1>3. CASE LoadKey
  <2>1. PICK new \in {1, keys + 1} : key' = new /\ keys' = Max({keys, new})
    BY <1>3 DEF LoadKey
  <2>2. keys' \in {keys, new} /\ keys' >= keys /\ keys' >= new
    BY <1>1, <2>1, MaxOfTwoNumbers
  <2>3. keys' \in 0..MaxKeys /\ key' \in 0..keys' /\ keys <= keys'
    BY <1>1, <1>3, <2>1, <2>2 DEF LoadKey
  <2>4. \A t \in tokens : t.key \in 1..keys'
    BY <1>1, <2>3 DEF TokenInv, TokenTypeOK
  <2>5. TokenTypeOK'
    BY <1>3, <2>3, <2>4 DEF LoadKey, TokenInv, TokenTypeOK
  <2> QED
    BY <1>2, <1>3, <2>5 DEF LoadKey, TokenInv
<1>4. CASE Restart
  <2>1. TokenTypeOK'
    BY <1>1, <1>4 DEF Restart, TokenInv, TokenTypeOK
  <2> QED
    BY <1>2, <1>4, <2>1 DEF Restart, TokenInv
<1>5. CASE Pass
  <2>1. TokenTypeOK'
    BY <1>1, <1>5 DEF Pass, TokenInv, TokenTypeOK
  <2> QED
    BY <1>2, <1>5, <2>1 DEF Pass, TokenInv
<1>6. ASSUME NEW id \in Incidents, NEW severity \in Severities, NEW validity \in Validities,
             Create(id, severity, validity)
      PROVE  TokenInv'
  <2>1. validity \in Nat /\ clock + validity \in Int /\ clock + validity >= clock
        /\ (clock + validity) - clock \in Validities
    <3>1. validity \in Nat
      BY FencingAssumption
    <3>2. (clock + validity) - clock = validity
      BY <1>1, <3>1
    <3> QED
      BY <1>1, <3>1, <3>2
  <2>2. PICK until : until = clock + validity
    OBVIOUS
  <2>3. PICK chain : chain = NewChain
    OBVIOUS
  <2>4. tokens' = tokens \cup {Token(id, chain, severity, until)} /\ UNCHANGED <<key, clock, keys>>
        /\ key # 0
    BY <1>6, <2>2, <2>3 DEF Create
  <2> QED
    BY <2>1, <2>2, <2>3, <2>4, OneMoreToken
<1>7. ASSUME NEW t \in tokens, NEW extension \in Validities, Renew(t, extension)
      PROVE  TokenInv'
  <2>1. PICK until : until = Renewed(t, extension)
    OBVIOUS
  <2>2. PICK id, chain, severity : id = t.id /\ chain = t.chain /\ severity = t.severity
    OBVIOUS
  <2>3. /\ tokens' = tokens \cup {Token(id, chain, severity, until)}
        /\ UNCHANGED <<key, clock, keys>>
        /\ key # 0 /\ severity = "emergency" /\ clock < t.issued + MaxTotal
    BY <1>7, <2>1, <2>2 DEF Renew
  <2>4. until \in Int /\ until >= clock /\ until - clock <= MaxRenewal
    BY <2>1, <2>3, RenewedLasts
  <2>5. severity \in Severities /\ \E u \in tokens : u.chain = chain /\ u.severity = "emergency"
    BY <2>2, <2>3, FencingAssumption
  <2> QED
    BY <2>3, <2>4, <2>5, OneMoreToken
<1>8. CASE UNCHANGED tokenVars
  BY <1>8 DEF tokenVars, TokenInv, TokenTypeOK, GrantsAreShort, Chains
<1> QED
  BY <1>3, <1>4, <1>5, <1>6, <1>7, <1>8 DEF TokenNext

LEMMA TokenInvInit ==
  ASSUME TokenInit
  PROVE  TokenInv
<1>1. Chains = 1..0
  BY DEF TokenInit, Chains
<1> QED
  BY <1>1, FencingAssumption DEF TokenInit, TokenInv, TokenTypeOK, GrantsAreShort

-----------------------------------------------------------------------------
(* While the keys stay, a token that is valid after a step was so before,  *)
(* or is of a new chain, or renews a valid one of its chain and incident.  *)
LEMMA ValidityHasASource ==
  ASSUME TokenInv, [TokenNext]_tokenVars, key' = key, NEW u \in tokens', Valid(u)'
  PROVE  \/ \A v \in tokens : v.chain # u.chain
         \/ \E s \in tokens : s.chain = u.chain /\ s.id = u.id /\ Valid(s)
<1>1. clock \in Nat /\ key \in Nat /\ keys \in Nat
  BY FencingAssumption DEF TokenInv, TokenTypeOK
<1>2. key > 0 /\ clock' <= u.until /\ u.key = key
  BY DEF Valid
<1>3. ASSUME u \in tokens, clock <= u.until
      PROVE  \E s \in tokens : s.chain = u.chain /\ s.id = u.id /\ Valid(s)
  BY <1>2, <1>3 DEF Valid
<1>4. CASE LoadKey
  <2>1. PICK new \in {1, keys + 1} : key' = new
    BY <1>4 DEF LoadKey
  <2>2. new # 0
    BY <1>1
  <2> QED
    BY <1>4, <2>1, <2>2 DEF LoadKey
<1>5. CASE Restart
  BY <1>2, <1>5 DEF Restart
<1>6. CASE Pass
  <2>1. tokens' = tokens /\ clock' = clock + 1
    BY <1>6 DEF Pass
  <2>2. u.until \in Int
    BY <2>1 DEF TokenInv
  <2> QED
    BY <1>1, <1>2, <1>3, <2>1, <2>2
<1>7. ASSUME NEW id \in Incidents, NEW severity \in Severities, NEW validity \in Validities,
             Create(id, severity, validity)
      PROVE  \/ \A v \in tokens : v.chain # u.chain
             \/ \E s \in tokens : s.chain = u.chain /\ s.id = u.id /\ Valid(s)
  <2>1. Token(id, NewChain, severity, clock + validity).chain = NewChain
    BY DEF Token
  <2>2. clock' = clock /\ (u \in tokens \/ u = Token(id, NewChain, severity, clock + validity))
    BY <1>7 DEF Create
  <2>3. CASE u \in tokens
    BY <1>2, <1>3, <2>2, <2>3
  <2>4. CASE u = Token(id, NewChain, severity, clock + validity)
    <3>1. u.chain \notin Chains
      BY <2>1, <2>4, NewChainIsNew
    <3> QED
      BY <3>1 DEF Chains
  <2> QED
    BY <2>2, <2>3, <2>4
<1>8. ASSUME NEW s \in tokens, NEW extension \in Validities, Renew(s, extension)
      PROVE  \E v \in tokens : v.chain = u.chain /\ v.id = u.id /\ Valid(v)
  <2>1. /\ Token(s.id, s.chain, s.severity, Renewed(s, extension)).chain = s.chain
        /\ Token(s.id, s.chain, s.severity, Renewed(s, extension)).id = s.id
    BY DEF Token
  <2>2. /\ clock' = clock /\ Valid(s)
        /\ u \in tokens \/ u = Token(s.id, s.chain, s.severity, Renewed(s, extension))
    BY <1>8 DEF Renew
  <2> QED
    BY <1>2, <1>3, <2>1, <2>2
<1>9. CASE UNCHANGED tokenVars
  BY <1>2, <1>3, <1>9 DEF tokenVars
<1> QED
  BY <1>4, <1>5, <1>6, <1>7, <1>8, <1>9 DEF TokenNext

(* So no step brings a lapsed chain back, nor a lapsed incident without    *)
(* issuing a token of a new chain.                                         *)
LEMMA LapsedStaysDead ==
  ASSUME TokenInv, [TokenNext]_tokenVars, key' = key
  PROVE  /\ \A t \in tokens : Lasting(t.chain)' => Lasting(t.chain)
         /\ \A id \in Incidents :
              Alive(id)' => \/ Alive(id)
                            \/ \E t \in tokens' : t.id = id /\ \A u \in tokens : u.chain # t.chain
<1>1. ASSUME NEW t \in tokens, Lasting(t.chain)'
      PROVE  Lasting(t.chain)
  <2>1. PICK chain : chain = t.chain
    OBVIOUS
  <2>2. PICK u \in tokens' : u.chain = chain /\ Valid(u)'
    BY <1>1, <2>1 DEF Lasting, Valid
  <2>3. PICK s \in tokens : s.chain = u.chain /\ Valid(s)
    BY <2>1, <2>2, ValidityHasASource
  <2> QED
    BY <2>1, <2>2, <2>3 DEF Lasting
<1>2. ASSUME NEW id \in Incidents, Alive(id)'
      PROVE  \/ Alive(id)
             \/ \E t \in tokens' : t.id = id /\ \A u \in tokens : u.chain # t.chain
  <2>1. PICK u \in tokens' : u.id = id /\ Valid(u)'
    BY <1>2 DEF Alive, Valid
  <2>2. \/ \A v \in tokens : v.chain # u.chain
        \/ \E s \in tokens : s.chain = u.chain /\ s.id = u.id /\ Valid(s)
    BY <2>1, ValidityHasASource
  <2> QED
    BY <2>1, <2>2 DEF Alive
<1> QED
  BY <1>1, <1>2

(* An authority that is not renewed in time ends, soon and for good: a     *)
(* token reaches no further than one renewal, or than the validity its     *)
(* chain began with, and while the keys stay a chain without a valid token *)
(* never has one again, and an incident without one only by a new issue.   *)
THEOREM LapsedAuthorityIsOver == TokenSpec => AuthorityEnds
<1>1. TokenInv => TokenTypeOK /\ GrantsAreShort
  BY DEF TokenInv
<1>2. ASSUME TokenInv, [TokenNext]_tokenVars
      PROVE  [key' = key =>
                /\ \A t \in tokens : Lasting(t.chain)' => Lasting(t.chain)
                /\ \A id \in Incidents :
                     Alive(id)' => \/ Alive(id)
                                   \/ \E t \in tokens' : t.id = id
                                        /\ \A u \in tokens : u.chain # t.chain]_tokenVars
  BY <1>2, LapsedStaysDead
<1> QED
  BY <1>1, <1>2, TokenInvInit, TokenInvNext, PTL
     DEF TokenSpec, AuthorityEnds, LapsedChainsStayDead
=============================================================================
