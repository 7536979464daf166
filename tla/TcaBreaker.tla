---------------------------- MODULE TcaBreaker ----------------------------
(***************************************************************************)
(* The transaction-cost monitor (TcaMonitor in src/src/monitoring/tca.py)    *)
(* with its alerts (AlertDispatcher in alerts.py): a window of fills in      *)
(* Redis, the throttle of the position sizes and the pause of trading.  One  *)
(* task at a time records fills; operators reset the throttle meanwhile, and *)
(* any call of Redis may fail.                                               *)
(* Slippage and fill rate are whole basis points and percents.              *)
(***************************************************************************)
EXTENDS TradingSwitch, Integers, Sequences
LOCAL INSTANCE SequencesExt

CONSTANTS
  FillKinds,         \* the fills that occur: [slippage, rate]
  Latencies,         \* the latencies record_broker_latency is given, ms
  WindowSize,        \* fills kept (100 in the code)
  MinFills,          \* fills needed to act (5 in the code)
  MaxThrottleSteps,  \* (3 in the code)
  HasDispatcher,     \* whether the monitor has an alert dispatcher
  MaxResets,         \* bound: resets by operators
  MaxCuts            \* bound: evaluations cut short that are counted one by one

ASSUME TcaAssumption ==
  /\ FillKinds \subseteq [slippage : Int, rate : 0..100]
  /\ Latencies \subseteq Nat
  /\ WindowSize \in Nat \ {0} /\ MinFills \in Nat \ {0} /\ MinFills <= WindowSize
  /\ MaxThrottleSteps \in Nat /\ HasDispatcher \in BOOLEAN /\ MaxResets \in Nat
  /\ MaxCuts \in Nat

ThrottleSlippage == 12
PauseSlippage    == 25
PauseFillRate    == 60
PauseLatency     == 2000

VARIABLES
  fills,       \* tca:fills, oldest first
  throttle,    \* tca:throttle_steps
  tca,         \* what the recording task awaits next
  metrics,     \* the metrics it read
  latency,     \* the latency of this evaluation, 0 for none
  resets,
  unanswered,  \* history: evaluations in a row that met a breach and did not
               \* pause trading, since the last reset
  cuts         \* history: those among them that an error or an end of the
               \* process cut short

tcaVars == <<fills, throttle, tca, metrics, latency, resets, unanswered, cuts>>

(* get_metrics(): sums, so that the averages compare without division. *)
Metrics(seq, steps) ==
  [size     |-> Len(seq),
   slippage |-> FoldLeft(LAMBDA sum, fill : sum + fill.slippage, 0, seq),
   rate     |-> FoldLeft(LAMBDA sum, fill : sum + fill.rate, 0, seq),
   steps    |-> steps]

NoMetrics == Metrics(<<>>, 0)

Throttles(m) ==
  /\ m.size >= MinFills
  /\ m.slippage > ThrottleSlippage * m.size
  /\ m.steps < MaxThrottleSteps

Breach(m, ms) ==
  /\ m.size >= MinFills
  /\ \/ m.slippage > PauseSlippage * m.size
     \/ m.rate < PauseFillRate * m.size
     \/ ms > PauseLatency

TcaTypeOK ==
  /\ fills \in Seq(FillKinds) /\ Len(fills) <= WindowSize + faults
  /\ throttle \in 0..MaxThrottleSteps
  /\ tca \in {"idle", "metrics", "throttle", "pause"}
  /\ latency \in Latencies \cup {0}
  /\ resets \in 0..MaxResets
  /\ unanswered \in Nat /\ cuts \in 0..MaxCuts

TcaInit ==
  /\ fills = <<>> /\ throttle = 0 /\ tca = "idle" /\ metrics = NoMetrics
  /\ latency = 0 /\ resets = 0 /\ unanswered = 0 /\ cuts = 0

-----------------------------------------------------------------------------
(* Whether the evaluation under way is about a breach. *)
BreachAtHand ==
  \/ tca = "metrics" /\ Breach(Metrics(fills, throttle), latency)
  \/ tca = "throttle" /\ Breach(metrics, latency)
  \/ tca = "pause"

(* An evaluation ends without a pause, by itself or cut short. *)
EndOf(breach) ==
  /\ tca' = "idle" /\ metrics' = NoMetrics /\ latency' = 0
  /\ unanswered' = IF breach THEN unanswered + 1 ELSE 0
  /\ cuts' = IF breach THEN cuts ELSE 0

CutShort(breach) ==
  /\ tca' = "idle" /\ metrics' = NoMetrics /\ latency' = 0
  /\ LET n == IF cuts < MaxCuts THEN 1 ELSE 0
     IN  /\ unanswered' = IF breach THEN unanswered + n ELSE 0
         /\ cuts' = IF breach THEN cuts + n ELSE 0

(* record_fill(): RPUSH and LTRIM, then the evaluation. *)
Newest(seq) ==
  SubSeq(seq, IF Len(seq) > WindowSize THEN Len(seq) - WindowSize + 1 ELSE 1, Len(seq))

RecordFill ==
  /\ tca = "idle"
  /\ \E f \in FillKinds : fills' = Newest(Append(fills, f))
  /\ tca' = "metrics" /\ latency' = 0
  /\ UNCHANGED <<throttle, metrics, resets, unanswered, cuts, switchVars>>

(* RPUSH or LTRIM raises, and nothing is evaluated: the fill may be missing   *)
(* in the window, or the window one too long until the next fill.            *)
RecordFails ==
  /\ tca = "idle" /\ Fault
  /\ \E f \in FillKinds : fills' \in {fills, Append(fills, f), Newest(Append(fills, f))}
  /\ CutShort(Breach(Metrics(fills', throttle), 0))
  /\ UNCHANGED <<throttle, resets, state, changes>>

(* record_broker_latency(): the evaluation alone. *)
RecordLatency ==
  /\ tca = "idle"
  /\ \E ms \in Latencies : latency' = ms
  /\ tca' = "metrics"
  /\ UNCHANGED <<fills, throttle, metrics, resets, unanswered, cuts, switchVars>>

(* The evaluation begins with LRANGE and GET of the window and the steps. *)
ReadMetrics ==
  /\ tca = "metrics"
  /\ LET m == Metrics(fills, throttle)
     IN  \/ /\ Throttles(m) /\ tca' = "throttle" /\ metrics' = m
            /\ UNCHANGED <<latency, unanswered, cuts>>
         \/ /\ ~Throttles(m) /\ Breach(m, latency)
            /\ tca' = "pause" /\ latency' = 0 /\ UNCHANGED <<metrics, unanswered, cuts>>
         \/ ~Throttles(m) /\ ~Breach(m, latency) /\ EndOf(FALSE)
  /\ UNCHANGED <<fills, throttle, resets, switchVars>>

(* What follows a step of the throttle.  If there is a dispatcher, its        *)
(* send() raises on every call, the level being a string, and the evaluation  *)
(* ends before the check of the breach.                                     *)
AfterStep ==
  \/ (HasDispatcher \/ ~Breach(metrics, latency)) /\ EndOf(Breach(metrics, latency))
  \/ /\ ~HasDispatcher /\ Breach(metrics, latency)
     /\ tca' = "pause" /\ metrics' = NoMetrics /\ latency' = 0
     /\ UNCHANGED <<unanswered, cuts>>

(* A variant with a bug: the step is announced and not stored. *)
SetNoThrottle ==
  /\ tca = "throttle"
  /\ AfterStep
  /\ UNCHANGED <<fills, throttle, resets, switchVars>>

SetThrottle ==
  /\ tca = "throttle"
  /\ throttle' = metrics.steps + 1
  /\ AfterStep
  /\ UNCHANGED <<fills, resets, switchVars>>

(* LRANGE, GET or SET raises, the SET perhaps after it was done: the          *)
(* evaluation ends, and the fill handler only logs it.                       *)
EvaluationFails ==
  /\ tca \in {"metrics", "throttle"} /\ Fault
  /\ throttle' \in {throttle} \cup (IF tca = "throttle" THEN {metrics.steps + 1} ELSE {})
  /\ CutShort(BreachAtHand)
  /\ UNCHANGED <<fills, resets, state, changes>>

(* The alert that follows a pause raises as well, with nothing left to do.  A  *)
(* pause that is refused, or raises, is not tried again.                      *)
Pause ==
  /\ tca = "pause"
  /\ \/ Forced("paused") /\ EndOf(FALSE)
     \/ (ForceRefused \/ ForceRaises("paused")) /\ CutShort(TRUE)
  /\ UNCHANGED <<fills, throttle, resets>>

(* reset_throttle() and clear_history(), whatever the monitor is at. *)
ResetThrottle ==
  /\ resets < MaxResets
  /\ resets' = resets + 1
  /\ throttle' = 0
  /\ fills' \in {fills, <<>>}
  /\ unanswered' = 0 /\ cuts' = 0
  /\ UNCHANGED <<tca, metrics, latency, switchVars>>

(* The process dies, perhaps in an evaluation; the window and the steps are   *)
(* in Redis.                                                                *)
TcaCrash ==
  /\ \/ tca = "idle" /\ UNCHANGED <<tca, metrics, latency, unanswered, cuts>>
     \/ tca # "idle" /\ CutShort(BreachAtHand)
  /\ UNCHANGED <<fills, throttle, resets>>

-----------------------------------------------------------------------------
(* Evaluations that meet a breach and leave trading as it is, in a row: each  *)
(* took one of the throttle's steps, the alert of which ends the evaluation   *)
(* before the pause, or was cut short by a failing call of Redis or of the    *)
(* store or by the end of the process.  Nothing else lets a breach pass.  (A  *)
(* reset that falls between the metrics and the step is lost.)               *)
BreachIsPaused == TcaTypeOK /\ unanswered <= throttle + cuts
=============================================================================
