------------------------- MODULE IncidentController -------------------------
(***************************************************************************)
(* Escalation of safety incidents                                          *)
(* (src/src/risk/incident_controller.py, class IncidentController).        *)
(*                                                                         *)
(* report() suspends at the alert and at the event it publishes; in between *)
(* other reports and resolutions run on the same event loop.  The state     *)
(* store handed to it has no pause() and no emergency_stop()                *)
(* (src/src/runtime_state.py) and the AttributeError is swallowed, so a     *)
(* report leaves the trading state alone: it is not part of the model.     *)
(***************************************************************************)
EXTENDS Naturals, FiniteSets

CONSTANTS
  Reports,    \* calls of report()
  Threshold,  \* _CASCADE_THRESHOLD
  Window,     \* _CASCADE_WINDOW_SECONDS, in ticks
  MaxDelay,   \* the longest time between report()'s call and its return
  MaxTime     \* bound on the clock

ASSUME ConstantsAssumption ==
  /\ Threshold \in Nat \ {0} /\ Window \in Nat /\ MaxDelay \in Nat /\ MaxTime \in Nat

VARIABLES
  incidents,            \* status of the incident of each report, and of its cascade
  severity,             \* severity each report was called with
  pc,                   \* where each report is
  active_severity,      \* _active_severity, "none" for None
  multiplier,           \* _position_size_multiplier, in halves
  cascade_timestamps,   \* _cascade_timestamps: who appended what time
  clock,
  opened_at             \* when each report was called

vars == <<incidents, severity, pc, active_severity, multiplier, cascade_timestamps,
          clock, opened_at>>

Severity  == {"warning", "critical", "emergency"}
Incidents == Reports \X {"reported", "cascade"}
Phases    == {"idle", "alert", "publish", "cascade_alert", "cascade_publish", "done"}

Rank(s) == CASE s = "none" -> 0 [] s = "warning" -> 1 [] s = "critical" -> 2
             [] s = "emergency" -> 3

SeverityOf(i) == IF i[2] = "cascade" THEN "emergency" ELSE severity[i[1]]
Open          == {i \in Incidents : incidents[i] = "open"}

TypeOK ==
  /\ incidents \in [Incidents -> {"none", "open", "resolved"}]
  /\ severity \in [Reports -> Severity]
  /\ pc \in [Reports -> Phases]
  /\ active_severity \in Severity \cup {"none"}
  /\ multiplier \in 0..2
  /\ cascade_timestamps \in SUBSET (Reports \X Nat)
  /\ clock \in Nat
  /\ opened_at \in [Reports -> Nat]

Init ==
  /\ incidents = [i \in Incidents |-> "none"]
  /\ severity \in [Reports -> Severity]
  /\ pc = [r \in Reports |-> "idle"]
  /\ active_severity = "none"
  /\ multiplier = 2
  /\ cascade_timestamps = {}
  /\ clock = 0
  /\ opened_at = [r \in Reports |-> 0]

-----------------------------------------------------------------------------
(* A variant with a bug: a warning sets the multiplier instead of capping it. *)
ThrottleFlatly(s) == multiplier' = IF s = "warning" THEN 1 ELSE 0

(* What a handler does to the multiplier before anything else: a warning    *)
(* caps it at one half, anything worse stops new positions.                 *)
Throttle(s) ==
  multiplier' = IF s = "warning" THEN (IF multiplier < 1 THEN multiplier ELSE 1) ELSE 0

(* _update_active_severity: only upwards. *)
Raise(s) == IF Rank(s) > Rank(active_severity) THEN s ELSE active_severity

(* report(), up to the alert of its handler. *)
Report(r) ==
  /\ pc[r] = "idle"
  /\ incidents' = [incidents EXCEPT ![<<r, "reported">>] = "open"]
  /\ Throttle(severity[r])
  /\ pc' = [pc EXCEPT ![r] = "alert"]
  /\ opened_at' = [opened_at EXCEPT ![r] = clock]
  /\ UNCHANGED <<severity, active_severity, cascade_timestamps, clock>>

(* The alert is sent or failed; the event is published next. *)
EndAlert(r) ==
  /\ \/ pc[r] = "alert" /\ pc' = [pc EXCEPT ![r] = "publish"]
     \/ pc[r] = "cascade_alert" /\ pc' = [pc EXCEPT ![r] = "cascade_publish"]
  /\ UNCHANGED <<incidents, severity, active_severity, multiplier, cascade_timestamps,
                 clock, opened_at>>

(* The event of a warning or an emergency is published: the report returns. *)
Finish(r) ==
  /\ pc[r] = "publish" /\ severity[r] # "critical"
  /\ active_severity' = Raise(severity[r])
  /\ pc' = [pc EXCEPT ![r] = "done"]
  /\ UNCHANGED <<incidents, severity, multiplier, cascade_timestamps, clock, opened_at>>

(* A variant with a bug: the window is cleared by each critical incident. *)
RecentForgetful(r) == {<<r, clock>>}

(* The critical reports recorded within the window, this one included. *)
Recent(r) ==
  {t \in cascade_timestamps \cup {<<r, clock>>} : t[2] + Window >= clock}

(* The event of a critical incident is published: with too few of them in   *)
(* the window the report returns.                                          *)
FinishCritical(r) ==
  /\ pc[r] = "publish" /\ severity[r] = "critical"
  /\ Cardinality(Recent(r)) < Threshold
  /\ cascade_timestamps' = Recent(r)
  /\ active_severity' = Raise("critical")
  /\ pc' = [pc EXCEPT ![r] = "done"]
  /\ UNCHANGED <<incidents, severity, multiplier, clock, opened_at>>

(* Enough of them are an emergency of their own. *)
Cascade(r) ==
  /\ pc[r] = "publish" /\ severity[r] = "critical"
  /\ Cardinality(Recent(r)) >= Threshold
  /\ cascade_timestamps' = {}
  /\ incidents' = [incidents EXCEPT ![<<r, "cascade">>] = "open"]
  /\ Throttle("emergency")
  /\ pc' = [pc EXCEPT ![r] = "cascade_alert"]
  /\ UNCHANGED <<severity, active_severity, clock, opened_at>>

FinishCascade(r) ==
  /\ pc[r] = "cascade_publish"
  /\ active_severity' = "emergency"
  /\ pc' = [pc EXCEPT ![r] = "done"]
  /\ UNCHANGED <<incidents, severity, multiplier, cascade_timestamps, clock, opened_at>>

(* A variant with a bug: resolving one incident is taken for resolving all. *)
ResolveAll(i) ==
  /\ incidents[i] # "none"
  /\ incidents' = [incidents EXCEPT ![i] = "resolved"]
  /\ active_severity' = "none"
  /\ multiplier' = 2
  /\ UNCHANGED <<severity, pc, cascade_timestamps, clock, opened_at>>

(* resolve(), of any incident on record: the severity and the multiplier    *)
(* become those of the gravest incident still open.                         *)
Resolve(i) ==
  /\ incidents[i] # "none"
  /\ incidents' = [incidents EXCEPT ![i] = "resolved"]
  /\ LET left == {SeverityOf(j) : j \in Open \ {i}} IN
     \E gravest \in left \cup {"none"} :
       /\ \A s \in left : Rank(s) <= Rank(gravest)
       /\ active_severity' = gravest
       /\ multiplier' = CASE gravest = "none" -> 2 [] gravest = "warning" -> 1 [] OTHER -> 0
  /\ UNCHANGED <<severity, pc, cascade_timestamps, clock, opened_at>>

(* Time passes; alerts and events take no longer than MaxDelay together. *)
Tick ==
  /\ clock < MaxTime
  /\ \A r \in Reports : pc[r] \notin {"idle", "done"} => clock < opened_at[r] + MaxDelay
  /\ clock' = clock + 1
  /\ UNCHANGED <<incidents, severity, pc, active_severity, multiplier, cascade_timestamps,
                 opened_at>>

Next ==
  \/ \E r \in Reports : \/ Report(r) \/ EndAlert(r) \/ Finish(r) \/ FinishCritical(r)
                        \/ Cascade(r) \/ FinishCascade(r)
  \/ \E i \in Incidents : Resolve(i)
  \/ Tick

Spec == Init /\ [][Next]_vars

-----------------------------------------------------------------------------
(* The multiplier always follows from the open incidents, whatever is        *)
(* reported, suspended or resolved meanwhile: no new position during a       *)
(* critical incident, half size during warnings, full size without any.     *)
ThrottleMatchesOpen ==
  multiplier = IF \E i \in Open : SeverityOf(i) # "warning" THEN 0
               ELSE IF Open # {} THEN 1 ELSE 2

(* Once its report has returned, an open incident is never graver than the   *)
(* active severity, whichever incidents were resolved during the report.    *)
SeverityIsNotUnderstated ==
  \A r \in Reports : pc[r] = "done" =>
    \A i \in Open : i[1] = r => Rank(SeverityOf(i)) <= Rank(active_severity)

(* Threshold critical incidents set off a cascade, once their reports have   *)
(* returned, whenever they were opened closer together than the window by    *)
(* the time that alerts and events may take: each is dated after its own.   *)
CascadesAreDetected ==
  (\A r \in Reports : incidents[<<r, "cascade">>] = "none") =>
    \A s \in SUBSET {r \in Reports : severity[r] = "critical" /\ pc[r] = "done"} :
      (\A q, r \in s : opened_at[q] + MaxDelay <= opened_at[r] + Window)
        => Cardinality(s) < Threshold
=============================================================================
