--------------------------- MODULE BrokerFailover ---------------------------
(***************************************************************************)
(* Health checks of the primary broker, failover and return                *)
(* (src/src/execution/broker_health.py, class BrokerHealthMonitor).        *)
(*                                                                         *)
(* The monitor is one task that suspends at each call of the broker, of     *)
(* Redis and of the trading-state store; the broker, operators and crashes  *)
(* act in between.  The store is the atomic register that RuntimeState      *)
(* implements; all its states that refuse new positions are "close_only"   *)
(* here.  Redis keeps snapshots, and a restart goes back to the last one.   *)
(* Alerts and events cannot stop the monitor and are left out.              *)
(***************************************************************************)
EXTENDS Naturals

CONSTANTS
  MaxFailures,  \* max_consecutive_failures
  HasLedger,    \* whether the monitor was given an oms_ledger
  MaxFaults     \* bound on errors of store and Redis, stops and restarts

ASSUME FailoverAssumption ==
  /\ MaxFailures \in Nat \ {0} /\ MaxFaults \in Nat
  /\ HasLedger \in BOOLEAN

VARIABLES
  primary,        \* the primary broker: up, slow or down
  loop,           \* where the monitor's loop is
  outcome,        \* of the last check
  failures,       \* _consecutive_failures, counted up to MaxFailures
  mode,           \* _mode
  redis_mode,     \* the mode recorded in Redis
  trading_state,  \* the store's trading state
  saved,          \* what the last snapshot of Redis holds of both
  faults,
  streak,         \* history: bad checks in a row, up to MaxFailures
  resumed,        \* history: an operator resumed since CLOSE_ONLY was forced
  refused,        \* history: the store did not take the last CLOSE_ONLY
  reverted        \* history: Redis went back to ACTIVE since CLOSE_ONLY was forced

monitor == <<loop, outcome, failures, mode, redis_mode>>
history == <<streak, resumed, refused, reverted>>
failoverVars == <<primary, monitor, trading_state, saved, faults, history>>
Modes == {"none", "primary", "failover"}

LoopPhases == {"check", "record", "force", "set_failover", "return", "set_primary",
               "sleep", "dead", "stopped"}

FailoverTypeOK ==
  /\ primary \in {"up", "slow", "down"}
  /\ loop \in LoopPhases
  /\ outcome \in {"up", "slow", "down"}
  /\ failures \in 0..MaxFailures
  /\ mode \in {"primary", "failover"}
  /\ redis_mode \in Modes
  /\ trading_state \in {"active", "close_only"}
  /\ saved \in [mode : Modes, state : {"active", "close_only"}]
  /\ faults \in 0..MaxFaults
  /\ streak \in 0..MaxFailures
  /\ resumed \in BOOLEAN /\ refused \in BOOLEAN /\ reverted \in BOOLEAN

FailoverInit ==
  /\ primary = "up"
  /\ loop = "check" /\ outcome = "up" /\ failures = 0
  /\ mode = "primary" /\ redis_mode = "none"
  /\ trading_state = "active"
  /\ saved = [mode |-> "none", state |-> "active"]
  /\ faults = 0
  /\ streak = 0 /\ resumed = FALSE /\ refused = FALSE /\ reverted = FALSE

CountedUp(n) == IF n < MaxFailures THEN n + 1 ELSE n

-----------------------------------------------------------------------------
(* The broker gets better or worse. *)
BrokerChanges ==
  /\ \E condition \in {"up", "slow", "down"} \ {primary} : primary' = condition
  /\ UNCHANGED <<monitor, trading_state, saved, faults, history>>

(* _check_primary(): a slow answer is a failure like an exception. *)
Check ==
  /\ loop = "check"
  /\ outcome' = primary
  /\ streak' = IF primary = "up" THEN 0 ELSE CountedUp(streak)
  /\ loop' = "record"
  /\ UNCHANGED <<primary, failures, mode, redis_mode, trading_state, saved, faults,
                 resumed, refused, reverted>>

(* A variant with a bug: a good check leaves the count alone. *)
HandleGoodForgetful ==
  /\ loop = "record" /\ outcome = "up"
  /\ loop' = IF mode = "failover" THEN "return" ELSE "sleep"
  /\ UNCHANGED <<primary, outcome, failures, mode, redis_mode, trading_state, saved, faults, history>>

(* _handle_result(): the outcome is written to Redis; a good one resets the *)
(* count, and ends a failover if there is one.                             *)
HandleGood ==
  /\ loop = "record" /\ outcome = "up"
  /\ failures' = 0
  /\ loop' = IF mode = "failover" THEN "return" ELSE "sleep"
  /\ UNCHANGED <<primary, outcome, mode, redis_mode, trading_state, saved, faults, history>>

(* A variant with a bug: one bad check too many is waited for. *)
HandleBadOffByOne ==
  /\ loop = "record" /\ outcome # "up"
  /\ failures' = CountedUp(failures)
  /\ loop' = IF failures' > MaxFailures /\ mode = "primary" THEN "force" ELSE "sleep"
  /\ UNCHANGED <<primary, outcome, mode, redis_mode, trading_state, saved, faults, history>>

HandleBad ==
  /\ loop = "record" /\ outcome # "up"
  /\ failures' = CountedUp(failures)
  /\ loop' = IF failures' = MaxFailures /\ mode = "primary" THEN "force" ELSE "sleep"
  /\ UNCHANGED <<primary, outcome, mode, redis_mode, trading_state, saved, faults, history>>

(* A variant with a bug: the state is forced at the first failover only. *)
ForceOnce ==
  /\ loop = "force"
  /\ trading_state' = IF redis_mode = "none" THEN "close_only" ELSE trading_state
  /\ resumed' = FALSE /\ refused' = FALSE /\ reverted' = FALSE
  /\ loop' = "set_failover"
  /\ UNCHANGED <<primary, outcome, failures, mode, redis_mode, saved, faults, streak>>

(* _trigger_failover(): CLOSE_ONLY is forced; if the store refuses or fails  *)
(* the failover goes on all the same.                                      *)
ForceCloseOnly ==
  /\ loop = "force"
  /\ trading_state' = "close_only"
  /\ resumed' = FALSE /\ refused' = FALSE /\ reverted' = FALSE
  /\ loop' = "set_failover"
  /\ UNCHANGED <<primary, outcome, failures, mode, redis_mode, saved, faults, streak>>

ForceFails ==
  /\ loop = "force" /\ faults < MaxFaults
  /\ faults' = faults + 1
  /\ refused' = TRUE
  /\ loop' = "set_failover"
  /\ UNCHANGED <<primary, outcome, failures, mode, redis_mode, trading_state, saved,
                 streak, resumed, reverted>>

(* The failover is recorded in Redis, then in the monitor. *)
SetFailover ==
  /\ loop = "set_failover"
  /\ redis_mode' = "failover" /\ mode' = "failover"
  /\ loop' = "sleep"
  /\ UNCHANGED <<primary, outcome, failures, trading_state, saved, faults, history>>

(* _attempt_return_to_primary(): with a ledger, a listing of the primary's   *)
(* positions is all that is asked of it; the mode is changed at once.       *)
BeginReturn ==
  /\ loop = "return" /\ (HasLedger => primary # "down")
  /\ mode' = "primary"
  /\ loop' = "set_primary"
  /\ UNCHANGED <<primary, outcome, failures, redis_mode, trading_state, saved, faults, history>>

StayInFailover ==
  /\ loop = "return" /\ HasLedger /\ primary = "down"
  /\ loop' = "sleep"
  /\ UNCHANGED <<primary, outcome, failures, mode, redis_mode, trading_state, saved, faults, history>>

(* _complete_return_to_primary(): the mode is recorded in Redis. *)
EndReturn ==
  /\ loop = "set_primary"
  /\ redis_mode' = "primary"
  /\ failures' = 0
  /\ loop' = "sleep"
  /\ UNCHANGED <<primary, outcome, mode, trading_state, saved, faults, history>>

Sleep ==
  /\ loop = "sleep" /\ loop' = "check"
  /\ UNCHANGED <<primary, outcome, failures, mode, redis_mode, trading_state, saved, faults, history>>

(* Redis fails a write of the monitor: the exception ends run(), except in   *)
(* a return with a ledger, where it is caught (the mode is changed already). *)
RedisFails ==
  /\ loop \in {"record", "set_failover", "set_primary"} /\ faults < MaxFaults
  /\ faults' = faults + 1
  /\ loop' = IF loop = "set_primary" /\ HasLedger THEN "sleep" ELSE "dead"
  /\ UNCHANGED <<primary, outcome, failures, mode, redis_mode, trading_state, saved, history>>

(* stop() lets the turn of the loop in progress end. *)
Stop ==
  /\ loop = "sleep" /\ faults < MaxFaults
  /\ faults' = faults + 1
  /\ loop' = "stopped"
  /\ UNCHANGED <<primary, outcome, failures, mode, redis_mode, trading_state, saved, history>>

(* The process restarts: the mode in Redis is not read back. *)
Restart ==
  /\ faults < MaxFaults
  /\ faults' = faults + 1
  /\ loop' = "check" /\ outcome' = "up" /\ failures' = 0 /\ mode' = "primary"
  /\ streak' = 0
  /\ UNCHANGED <<primary, redis_mode, trading_state, saved, resumed, refused, reverted>>

(* An operator resumes trading over the API. *)
Resume ==
  /\ trading_state = "close_only"
  /\ trading_state' = "active" /\ resumed' = TRUE
  /\ UNCHANGED <<primary, monitor, saved, faults, streak, refused, reverted>>

(* Redis saves to disk now and then (redis-server --save 60 1), and starts    *)
(* again from the last snapshot: the monitor's key and the trading state go   *)
(* back together, whatever the monitor holds in memory.                      *)
SaveSnapshot ==
  /\ saved' = [mode |-> redis_mode, state |-> trading_state]
  /\ UNCHANGED <<primary, monitor, trading_state, faults, history>>

RestartRedis ==
  /\ faults < MaxFaults
  /\ faults' = faults + 1
  /\ redis_mode' = saved.mode /\ trading_state' = saved.state
  /\ reverted' = (reverted \/ (trading_state = "close_only" /\ saved.state = "active"))
  /\ UNCHANGED <<primary, loop, outcome, failures, mode, saved, streak, resumed, refused>>

MonitorStep ==
  Check \/ HandleGood \/ HandleBad \/ ForceCloseOnly \/ SetFailover \/ BeginReturn
  \/ StayInFailover \/ EndReturn \/ Sleep

FailoverNext ==
  MonitorStep \/ BrokerChanges \/ ForceFails \/ RedisFails \/ Stop \/ Restart \/ Resume
  \/ SaveSnapshot \/ RestartRedis

FailoverSpec == FailoverInit /\ [][FailoverNext]_failoverVars

(* The event loop keeps running the monitor, and the broker, Redis and the   *)
(* store answer.                                                           *)
FairFailoverSpec == FailoverSpec /\ WF_failoverVars(MonitorStep)

-----------------------------------------------------------------------------
(* What is left of "In failover mode: blocks new opens" (module docstring):  *)
(* through restarts, returns and Redis errors the state allows opens during  *)
(* a failover only if an operator resumed trading since, the store did not   *)
(* take the transition, or Redis itself lost it.  Nothing repeats it.        *)
FailoverBlocksOpens ==
  /\ FailoverTypeOK
  /\ (mode = "failover" /\ trading_state = "active") => resumed \/ refused \/ reverted

(* A failover is started only by as many bad checks in a row as the monitor  *)
(* asks for, across earlier failovers and returns; a slow check counts as    *)
(* one bad check, although class docstring and runbook say that a single     *)
(* latency above the threshold suffices.                                    *)
FailoverNeedsAStreak ==
  [][(mode = "primary" /\ mode' = "failover") => streak = MaxFailures]_failoverVars

(* A primary that does not get better is failed over for good, as long as    *)
(* the monitor's task lives.                                                *)
FailoverHappens ==
  <>[](primary # "up") => <>[](mode = "failover" \/ loop \in {"dead", "stopped"})

=============================================================================
