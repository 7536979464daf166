----------------------------- MODULE TradingDay -----------------------------
(***************************************************************************)
(* The trading process at work: the end-of-day scan, the fills of its orders *)
(* with the cost monitor behind them, the graceful shutdown and the watchdog *)
(* of the event loop, all of them and the operators on one trading state.    *)
(***************************************************************************)
EXTENDS EodScan, TcaBreaker, ProcessGuards

VARIABLE outside  \* history: scans that placed an order since trading last was ACTIVE

vars == <<switchVars, scanVars, tcaVars, guardVars, outside>>

Init == SwitchInit /\ ScanInit /\ TcaInit /\ GuardInit /\ outside = {}

KeepOutside ==
  outside' = IF state' = "active" THEN {}
             ELSE IF \E s \in Symbols : placed'[s] > placed[s] THEN outside \cup {scans}
             ELSE outside

Operator ==
  OperatorChange /\ UNCHANGED <<scanVars, tcaVars, guardVars>> /\ KeepOutside
Reset ==
  ResetThrottle /\ UNCHANGED <<scanVars, guardVars>> /\ KeepOutside

Scan(A) == LoopRuns /\ A /\ UNCHANGED <<tcaVars, guardVars>> /\ KeepOutside
Tca(A)  == LoopRuns /\ A /\ UNCHANGED <<scanVars, guardVars>> /\ KeepOutside
Guard(A) == A /\ UNCHANGED <<scanVars, tcaVars>> /\ KeepOutside

(* FillHandler: the portfolio and then the cost monitor, whose errors it logs; *)
(* the bus hands it one fill at a time.                                      *)
HandleFill(s) ==
  /\ LoopRuns /\ Fill(s) /\ (RecordFill \/ RecordFails)
  /\ UNCHANGED guardVars /\ KeepOutside

(* The process dies, or has shut down, and is started again. *)
Restart ==
  /\ \/ Fault
     \/ shutdown = "stopped" /\ UNCHANGED faults
  /\ ScanCrash /\ TcaCrash /\ NewProcess
  /\ UNCHANGED <<state, changes>>
  /\ KeepOutside

(* The broker's cancellations at the close need no process. *)
MarketClose == Close /\ UNCHANGED <<tcaVars, guardVars>> /\ KeepOutside

Next ==
  \/ Operator \/ Reset
  \/ Scan(Begin) \/ Scan(DetectRegime) \/ Scan(FetchUniverse)
  \/ Scan(GenerateSignals) \/ Scan(NextStrategy) \/ Scan(Decide) \/ Scan(Admit)
  \/ Scan(Raise) \/ Scan(Submit) \/ Scan(Record) \/ Scan(Announce)
  \/ \E s \in Symbols : HandleFill(s)
  \/ MarketClose
  \/ Tca(RecordLatency) \/ Tca(ReadMetrics) \/ Tca(SetThrottle) \/ Tca(EvaluationFails)
  \/ Tca(Pause)
  \/ Guard(Freeze) \/ Guard(Thaw) \/ Guard(Ping) \/ Guard(ForceHalt)
  \/ Guard(Signal) \/ Guard(TakeSignal) \/ Guard(PauseIntake) \/ Guard(Drain)
  \/ Guard(Flush)
  \/ Restart

Spec == Init /\ [][Next]_vars

(* The shutdown task goes on while the loop runs, and its calls end; the      *)
(* thread of the watchdog runs whatever the loop does.                      *)
FairSpec ==
  /\ Spec
  /\ WF_vars(Guard(WatchdogStep)) /\ WF_vars(Guard(ShutdownStep))

-----------------------------------------------------------------------------
(* The trading state is read once, before a scan of many orders: after ACTIVE *)
(* is left, by whomever, that one scan still orders, and no other does until  *)
(* an operator resumes.                                                     *)
OneScanOutlivesAHalt == SwitchTypeOK /\ outside \subseteq 1..MaxScans /\ Cardinality(outside) <= 1
=============================================================================
