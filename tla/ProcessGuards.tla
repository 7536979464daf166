--------------------------- MODULE ProcessGuards ---------------------------
(***************************************************************************)
(* What guards the trading process from outside its strategies: the          *)
(* graceful shutdown (_graceful_shutdown in src/src/shutdown.py), a task of  *)
(* the event loop, and the watchdog of the loop (EventLoopWatchdog in        *)
(* src/watchdog/event_loop_watchdog.py), a thread beside it.                *)
(***************************************************************************)
EXTENDS TradingSwitch

CONSTANT MaxQueue  \* bound: entry signals in the queue when the signal arrives

ASSUME QueueAssumption == MaxQueue \in Nat

VARIABLES
  frozen,    \* a call blocks the event loop
  watchdog,  \* what the thread does next
  shutdown,  \* what the shutdown task does next
  queue      \* entry signals in the queue while it drains

guardVars == <<frozen, watchdog, shutdown, queue>>

GuardTypeOK ==
  /\ frozen \in BOOLEAN
  /\ watchdog \in {"ping", "halt", "ended"}
  /\ shutdown \in {"none", "pause", "drain", "flush", "stopped"}
  /\ queue \in 0..MaxQueue

GuardInit ==
  /\ frozen = FALSE /\ watchdog = "ping"
  /\ shutdown = "none" /\ queue = 0

(* The steps of the tasks on the event loop are taken under this condition. *)
LoopRuns == ~frozen /\ shutdown # "stopped"

-----------------------------------------------------------------------------
Freeze ==
  /\ LoopRuns
  /\ frozen' = TRUE
  /\ UNCHANGED <<watchdog, shutdown, queue, switchVars>>

Thaw ==
  /\ frozen
  /\ frozen' = FALSE
  /\ UNCHANGED <<watchdog, shutdown, queue, switchVars>>

(* A heartbeat, every ten seconds.  While the loop runs it is answered; one   *)
(* that is not answered for 30 s, the loop being frozen, calls for HALTED.   *)
Ping ==
  /\ watchdog = "ping" /\ frozen
  /\ watchdog' = "halt"
  /\ UNCHANGED <<frozen, shutdown, queue, switchVars>>

(* A variant with a bug: an error ends the thread. *)
ForceHaltOnce ==
  /\ watchdog = "halt"
  /\ \/ Forced("halted") /\ watchdog' = "ping"
     \/ ForceRefused /\ watchdog' = "ended"
     \/ ForceRaises("halted") /\ watchdog' = "ended"
  /\ UNCHANGED <<frozen, shutdown, queue>>

(* The answer of the forced transition is not looked at, and an error of it   *)
(* is only logged: in either case the next round tries again.               *)
ForceHalt ==
  /\ watchdog = "halt"
  /\ \/ Forced("halted")
     \/ ForceRefused
     \/ ForceRaises("halted")
  /\ watchdog' = "ping"
  /\ UNCHANGED <<frozen, shutdown, queue>>

-----------------------------------------------------------------------------
(* SIGTERM or SIGINT; a second one after the first task died starts another. *)
Signal ==
  /\ LoopRuns /\ shutdown = "none"
  /\ shutdown' = "pause"
  /\ UNCHANGED <<frozen, watchdog, queue, switchVars>>

(* A refused pause does not stop the shutdown; an error of Redis ends the     *)
(* task, and the process keeps running.                                     *)
PauseIntake ==
  /\ LoopRuns /\ shutdown = "pause"
  /\ \/ (Forced("paused") \/ ForceRefused) /\ shutdown' = "drain" /\ queue' \in 0..MaxQueue
     \/ ForceRaises("paused") /\ shutdown' = "none" /\ UNCHANGED queue
  /\ UNCHANGED <<frozen, watchdog>>

(* Somebody takes a signal from the queue, or nobody does. *)
TakeSignal ==
  /\ LoopRuns /\ shutdown = "drain" /\ queue > 0
  /\ queue' = queue - 1
  /\ UNCHANGED <<frozen, watchdog, shutdown, switchVars>>

(* The shutdown waits until the queue is empty or ten seconds are over; what  *)
(* is left in it then is discarded with the process.                        *)
Drain ==
  /\ LoopRuns /\ shutdown = "drain"
  /\ shutdown' = "flush" /\ queue' = 0
  /\ UNCHANGED <<frozen, watchdog, switchVars>>

(* The ledger is flushed, for five seconds at most and errors or not; then    *)
(* the scheduler and the loop are stopped.  The watchdog, a daemon thread,   *)
(* dies with the process.                                                   *)
Flush ==
  /\ LoopRuns /\ shutdown = "flush"
  /\ shutdown' = "stopped" /\ watchdog' = "ended"
  /\ UNCHANGED <<frozen, queue, switchVars>>

(* A new process, with a new watchdog and an empty queue. *)
NewProcess ==
  /\ shutdown' = "none" /\ queue' = 0
  /\ watchdog' = "ping"
  /\ frozen' = FALSE

WatchdogStep == Ping \/ ForceHalt
ShutdownStep == PauseIntake \/ Drain \/ Flush

-----------------------------------------------------------------------------
(* The guards do their work.  A loop that stays frozen is halted, forced       *)
(* transitions that fail before it notwithstanding (EventLoopWatchdog retries *)
(* every interval).  Once the pause is done with, a shutdown ends, whoever    *)
(* empties the queue, unless the process freezes or dies first.              *)
FrozenLoopIsHalted == frozen ~> ~frozen \/ state = "halted"
ShutdownEnds == shutdown = "drain" ~> shutdown \in {"stopped", "none"} \/ frozen

GuardsDoTheirWork == []GuardTypeOK /\ FrozenLoopIsHalted /\ ShutdownEnds
=============================================================================
