------------------------------- MODULE Drift -------------------------------
(* Drift of a strategy (DriftDetector): the newest returns in a bounded      *)
(* queue, judged against the windows of a history.  A return doubles or      *)
(* halves the equity (1 or -1), so that the equity is a power of two; rates, *)
(* drawdowns (in 1024ths) and deviations (in thousandths) are integers,      *)
(* rounded.  A batch is not longer than the queue.                           *)
EXTENDS Integers, Sequences, SequencesExt, FiniteSetsExt

CONSTANTS
  LiveWindow,         \* length of the queue and of the windows (50)
  AlertZ, CriticalZ,  \* scores that alert, in halves (5 and 7)
  Histories           \* sequences of returns a baseline is taken from

ASSUME DriftAssumption ==
  /\ LiveWindow \in Nat \ {0, 1} /\ AlertZ \in Nat /\ CriticalZ \in Nat
  /\ \A h \in Histories : h \in Seq({-1, 1})

ASSUME PowersAreNumbers == \A k \in 0..LiveWindow : 2^k \in Nat \ {0}

VARIABLES
  live,      \* the queue
  history,   \* what the baseline was taken from, <<>> before
  judged, alerts  \* the last window judged, <<>> if none, and what was told
driftVars == <<live, history, judged, alerts>>

Metrics == {"win_rate", "drawdown", "variance"}
Stride == Max({LiveWindow \div 5, 1})
MinLive == Max({10, LiveWindow \div 5})  \* a queue of less than 10 is never judged

Wins(returns) == Cardinality({k \in DOMAIN returns : returns[k] > 0})

(* _max_drawdown_from_returns(): the worst stretch halves the equity most    *)
(* often, net of the doublings in it, and begins at the peak so far.         *)
Halvings(returns, i, j) ==
  Cardinality({k \in i..j : returns[k] < 0}) - Cardinality({k \in i..j : returns[k] > 0})
MaxDrawdown(returns) ==
  LET n == Len(returns)
      fall == Max({Halvings(returns, x[1], x[2]) : x \in (1..n) \X (0..n)})
  IN 1024 - 1024 \div 2^fall

(* stdev() of n returns, w of them 1 (+ 100 %) and the others -1 (- 50 %).   *)
VarianceOf(n, w) == (2250000 * w * (n - w)) \div (n * (n - 1))
Root(q, most) == CHOOSE x \in 0..most : x * x <= q /\ q < (x + 1) * (x + 1)
Stdev == [n \in 2..LiveWindow |-> [w \in 0..n |-> Root(VarianceOf(n, w), 1500)]]

Reading(metric, returns) ==
  CASE metric = "win_rate" -> (1000 * Wins(returns)) \div Max({Len(returns), 1})
    [] metric = "drawdown" -> MaxDrawdown(returns)
    [] metric = "variance" -> IF Len(returns) > 1 THEN Stdev[Len(returns)][Wins(returns)] ELSE 0

(* set_baseline(): the metric of every window of the history, however short: *)
(* min_baseline_size (drift.py:119) only makes it log a warning.             *)
Windowed(metric, h) ==
  [k \in 1..(IF Len(h) < LiveWindow THEN 0 ELSE (Len(h) - LiveWindow) \div Stride + 1) |->
     Reading(metric, SubSeq(h, (k - 1) * Stride + 1, (k - 1) * Stride + LiveWindow))]

(* No window: the rate of the whole history, and 0 for the other two.        *)
Default(metric, h) == IF metric = "win_rate" THEN Reading(metric, h) ELSE 0

Baselines == [h \in Histories |-> [m \in Metrics |->
               IF Len(h) < LiveWindow THEN <<Default(m, h)>> ELSE Windowed(m, h)]]

SumOf(s) == FoldLeft(LAMBDA x, y : x + y, 0, s)

(* A score of z halves or more above the mean of the values v, and below it; *)
(* values of no spread (one at most, or all alike) are passed by any change. *)
FarByError(x, v, z) ==  \* mutant: the error of the mean instead of the deviation
  LET n == Len(v)
      d == n * x - SumOf(v)
      spread == n * SumOf([k \in 1..n |-> v[k] * v[k]]) - SumOf(v) * SumOf(v)
  IN d # 0 /\ 4 * d * d * (n - 1) >= z * z * spread
Far(x, v, z) ==
  LET n == Len(v)
      d == n * x - SumOf(v)
      spread == n * SumOf([k \in 1..n |-> v[k] * v[k]]) - SumOf(v) * SumOf(v)
  IN d # 0 /\ 4 * d * d * (n - 1) >= z * z * n * spread

Exceeds(metric, x, h, z) ==
  LET v == Baselines[h][metric]
  IN /\ Far(x, v, z)
     /\ metric = "drawdown" => Len(v) * x > SumOf(v)  \* only worse than before

(* _detect() *)
DriftAlerts(returns, h) ==
  {[metric |-> m, critical |-> Exceeds(m, Reading(m, returns), h, CriticalZ)] :
     m \in {x \in Metrics : Exceeds(x, Reading(x, returns), h, AlertZ)}}

-----------------------------------------------------------------------------
DriftInit == live = <<>> /\ history = <<>> /\ judged = <<>> /\ alerts = {}

SetBaseline(h) ==
  /\ history # h /\ history' = h
  /\ judged' = <<>> /\ alerts' = {}
  /\ UNCHANGED live

(* update(): the return enters the queue; no baseline or too few: no word.   *)
FeedReturn(r) ==
  LET queue == Append(IF Len(live) = LiveWindow THEN Tail(live) ELSE live, r)
      silent == history = <<>> \/ Len(queue) < MinLive
  IN /\ live' = queue
     /\ judged' = IF silent THEN <<>> ELSE queue
     /\ alerts' = IF silent THEN {} ELSE DriftAlerts(queue, history)
     /\ UNCHANGED history

(* analyse(): the baseline it judges by stays, also for later updates.       *)
Analyse(h, returns) ==
  /\ history' = h /\ judged' = returns /\ alerts' = DriftAlerts(returns, h)
  /\ UNCHANGED live

DriftNext ==
  \/ \E h \in Histories : SetBaseline(h)
  \/ \E r \in {-1, 1} : FeedReturn(r)
  \/ \E h, k \in Histories : Len(k) \in 2..LiveWindow /\ Analyse(h, k)

DriftSpec == DriftInit /\ [][DriftNext]_driftVars

-----------------------------------------------------------------------------
DriftTypeOK ==
  /\ Len(live) <= LiveWindow /\ history \in Histories \cup {<<>>}
  /\ \A x, y \in alerts : x.metric = y.metric => x = y

(* An alert is about something new: with up to eight windows of history no   *)
(* reading that lies between those of the windows alerts, and a drawdown     *)
(* only beyond the worst of them, whether the queue is full or not.  It says *)
(* nothing of how grave an alert is: windows that read alike, a single one   *)
(* for instance, make any other reading critical.                            *)
AlertsAreNews ==
  /\ DriftTypeOK
  /\ judged # <<>> /\ Len(history) >= LiveWindow =>
    \A y \in alerts :
      LET windows == Baselines[history][y.metric]
          x == Reading(y.metric, judged)
      IN Len(windows) <= 8 => \/ \A v \in ToSet(windows) : x > v
                              \/ y.metric # "drawdown" /\ \A v \in ToSet(windows) : x < v
=============================================================================
