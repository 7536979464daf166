--------------------------- MODULE MonitorProofs ---------------------------
(***************************************************************************)
(* Proofs about the two controllers that bring trading to a halt by        *)
(* themselves: the incident controller, for any reports and timing, and    *)
(* the failover of the broker, for any streak of bad checks.               *)
(***************************************************************************)
EXTENDS IncidentController, BrokerFailover, FiniteSetTheorems, TLAPS

LEMMA ThrottleType ==
  ASSUME TypeOK, NEW s \in Severity, Throttle(s) PROVE multiplier' \in 0..2
BY DEF TypeOK, Throttle

LEMMA RaiseType ==
  ASSUME TypeOK, NEW s \in Severity PROVE Raise(s) \in Severity \cup {"none"}
BY DEF TypeOK, Raise

LEMMA RaiseRank ==
  ASSUME TypeOK, NEW s \in Severity
  PROVE  Rank(active_severity) <= Rank(Raise(s)) /\ Rank(s) <= Rank(Raise(s))
BY DEF TypeOK, Raise, Rank, Severity

LEMMA OpenSeverity == ASSUME TypeOK, NEW i \in Incidents PROVE SeverityOf(i) \in Severity
BY DEF TypeOK, SeverityOf, Incidents, Severity

(***************************************************************************)
(* Every step preserves the types.                                         *)
(***************************************************************************)
LEMMA NextTypeOK == TypeOK /\ [Next]_vars => TypeOK'
<1> SUFFICES ASSUME TypeOK, [Next]_vars PROVE TypeOK'
  OBVIOUS
<1>1. ASSUME NEW r \in Reports, Report(r) PROVE TypeOK'
  <2>1. severity[r] \in Severity
    BY DEF TypeOK
  <2>2. multiplier' \in 0..2
    BY <1>1, <2>1, ThrottleType DEF Report
  <2>3. QED
    BY <1>1, <2>1, <2>2 DEF TypeOK, Report, Phases
<1>2. ASSUME NEW r \in Reports, EndAlert(r) PROVE TypeOK'
  BY <1>2 DEF TypeOK, EndAlert, Phases
<1>3. ASSUME NEW r \in Reports, Finish(r) PROVE TypeOK'
  <2>1. active_severity' \in Severity \cup {"none"}
    BY <1>3, RaiseType DEF TypeOK, Finish
  <2>2. QED
    BY <1>3, <2>1 DEF TypeOK, Finish, Phases
<1>4. ASSUME NEW r \in Reports, FinishCritical(r) PROVE TypeOK'
  <2>1. active_severity' \in Severity \cup {"none"}
    BY <1>4, RaiseType DEF TypeOK, FinishCritical, Severity
  <2>2. QED
    BY <1>4, <2>1 DEF TypeOK, FinishCritical, Phases, Recent
<1>5. ASSUME NEW r \in Reports, Cascade(r) PROVE TypeOK'
  <2>1. multiplier' \in 0..2
    BY <1>5, ThrottleType DEF Cascade, Severity
  <2>2. QED
    BY <1>5, <2>1 DEF TypeOK, Cascade, Phases
<1>6. ASSUME NEW r \in Reports, FinishCascade(r) PROVE TypeOK'
  BY <1>6 DEF TypeOK, FinishCascade, Phases, Severity
<1>7. ASSUME NEW i \in Incidents, Resolve(i) PROVE TypeOK'
  <2>1. active_severity' \in Severity \cup {"none"}
    BY <1>7, OpenSeverity DEF Resolve, Open
  <2>2. multiplier' \in 0..2
    BY <1>7 DEF Resolve
  <2>3. QED
    BY <1>7, <2>1, <2>2 DEF TypeOK, Resolve
<1>8. CASE Tick
  BY <1>8 DEF TypeOK, Tick
<1>9. CASE UNCHANGED vars
  BY <1>9 DEF TypeOK, vars
<1>10. QED
  BY <1>1, <1>2, <1>3, <1>4, <1>5, <1>6, <1>7, <1>8, <1>9 DEF Next

LEMMA InitTypeOK == Init => TypeOK
  BY DEF Init, TypeOK, Phases

(* The types of the controller's variables. *)
THEOREM TypeCorrect == Spec => []TypeOK
  BY InitTypeOK, NextTypeOK, PTL DEF Spec

-----------------------------------------------------------------------------
(***************************************************************************)
(* The multiplier follows from the open incidents.                         *)
(***************************************************************************)
LEMMA OpenedThrottles ==
  ASSUME TypeOK, ThrottleMatchesOpen, NEW i \in Incidents, UNCHANGED severity,
         incidents' = [incidents EXCEPT ![i] = "open"], Throttle(SeverityOf(i))
  PROVE  ThrottleMatchesOpen'
<1>1. Open' = Open \cup {i}
  BY DEF TypeOK, Open
<1>2. \A j \in Incidents : SeverityOf(j)' = SeverityOf(j)
  BY DEF SeverityOf
<1>3. i \in Open' /\ \A j \in Open' : j \in Open \/ j = i
  BY <1>1
<1>4. multiplier \in 0..2
  BY DEF TypeOK
<1>5. CASE SeverityOf(i) = "warning"
  <2>1. multiplier' = IF multiplier < 1 THEN multiplier ELSE 1
    BY <1>5 DEF Throttle
  <2>2. (\E j \in Open' : SeverityOf(j)' # "warning")
          <=> (\E j \in Open : SeverityOf(j) # "warning")
    BY <1>1, <1>2, <1>5 DEF Open
  <2>3. CASE \E j \in Open : SeverityOf(j) # "warning"
    BY <2>1, <2>2, <2>3 DEF ThrottleMatchesOpen
  <2>4. CASE ~\E j \in Open : SeverityOf(j) # "warning"
    <3>1. multiplier \in {1, 2}
      BY <2>4 DEF ThrottleMatchesOpen
    <3>2. multiplier' = 1 /\ Open' # {}
      BY <1>3, <2>1, <3>1
    <3>3. QED
      BY <2>2, <2>4, <3>2 DEF ThrottleMatchesOpen
  <2>5. QED
    BY <2>3, <2>4
<1>6. CASE SeverityOf(i) # "warning"
  BY <1>2, <1>3, <1>6 DEF ThrottleMatchesOpen, Throttle
<1>7. QED
  BY <1>5, <1>6

LEMMA NextThrottleMatchesOpen ==
  TypeOK /\ ThrottleMatchesOpen /\ [Next]_vars => ThrottleMatchesOpen'
<1> SUFFICES ASSUME TypeOK, ThrottleMatchesOpen, [Next]_vars PROVE ThrottleMatchesOpen'
  OBVIOUS
<1>1. ASSUME NEW r \in Reports, Report(r) PROVE ThrottleMatchesOpen'
  <2>1. <<r, "reported">> \in Incidents /\ SeverityOf(<<r, "reported">>) = severity[r]
    BY DEF Incidents, SeverityOf
  <2>2. QED
    BY <1>1, <2>1, OpenedThrottles DEF Report
<1>2. ASSUME NEW r \in Reports, Cascade(r) PROVE ThrottleMatchesOpen'
  <2>1. <<r, "cascade">> \in Incidents /\ SeverityOf(<<r, "cascade">>) = "emergency"
    BY DEF Incidents, SeverityOf
  <2>2. QED
    BY <1>2, <2>1, OpenedThrottles DEF Cascade
<1>3. ASSUME NEW i \in Incidents, Resolve(i) PROVE ThrottleMatchesOpen'
  <2> DEFINE left == {SeverityOf(j) : j \in Open \ {i}}
  <2>1. PICK gravest \in left \cup {"none"} :
          /\ \A s \in left : Rank(s) <= Rank(gravest)
          /\ multiplier' = CASE gravest = "none" -> 2 [] gravest = "warning" -> 1
                             [] OTHER -> 0
    BY <1>3 DEF Resolve
  <2>2. Open' = Open \ {i} /\ \A j \in Incidents : SeverityOf(j)' = SeverityOf(j)
    BY <1>3 DEF Resolve, Open, TypeOK, SeverityOf
  <2>3. left \subseteq Severity
    BY OpenSeverity DEF Open
  <2>4. CASE gravest = "none"
    <3>1. left = {}
      BY <2>1, <2>3, <2>4 DEF Rank, Severity
    <3>2. Open' = {}
      BY <2>2, <3>1
    <3>3. QED
      BY <2>1, <2>4, <3>2 DEF ThrottleMatchesOpen
  <2>5. CASE gravest = "warning"
    <3>1. left = {"warning"}
      BY <2>1, <2>3, <2>5 DEF Rank, Severity
    <3>2. Open' # {} /\ \A j \in Open' : SeverityOf(j)' = "warning"
      BY <2>2, <3>1 DEF Open
    <3>3. QED
      BY <2>1, <2>5, <3>2 DEF ThrottleMatchesOpen
  <2>6. CASE gravest \notin {"none", "warning"}
    <3>1. \E j \in Open' : SeverityOf(j)' # "warning"
      BY <2>1, <2>2, <2>6 DEF Open
    <3>2. QED
      BY <2>1, <2>6, <3>1 DEF ThrottleMatchesOpen
  <2>7. QED
    BY <2>4, <2>5, <2>6
<1>4. CASE UNCHANGED <<incidents, severity, multiplier>>
  BY <1>4 DEF ThrottleMatchesOpen, Open, SeverityOf
<1>5. QED
  BY <1>1, <1>2, <1>3, <1>4
  DEF Next, EndAlert, Finish, FinishCritical, FinishCascade, Tick, vars

(***************************************************************************)
(* No new position during a critical incident, half size during warnings,  *)
(* full size without any, at every moment of every interleaving.           *)
(***************************************************************************)
THEOREM ThrottleFollows == Spec => []ThrottleMatchesOpen
<1>1. Init => ThrottleMatchesOpen
  BY DEF Init, ThrottleMatchesOpen, Open
<1>2. QED
  BY TypeCorrect, <1>1, NextThrottleMatchesOpen, PTL DEF Spec

-----------------------------------------------------------------------------
(***************************************************************************)
(* The active severity.  A cascade has an incident only once its report got *)
(* there.                                                                  *)
(***************************************************************************)
CascadesComeLast ==
  \A r \in Reports : incidents[<<r, "cascade">>] = "open" =>
                       pc[r] \in {"cascade_alert", "cascade_publish", "done"}

SeverityInv == TypeOK /\ CascadesComeLast /\ SeverityIsNotUnderstated

LEMMA NextSeverityInv == SeverityInv /\ [Next]_vars => SeverityInv'
<1> SUFFICES ASSUME SeverityInv, [Next]_vars PROVE SeverityInv'
  OBVIOUS
<1>0. TypeOK'
  BY NextTypeOK DEF SeverityInv
<1> USE DEF SeverityInv
<1>1. \A i \in Incidents : SeverityOf(i) \in Severity /\ Rank(SeverityOf(i)) \in 0..3
  BY OpenSeverity DEF Rank, Severity
<1>2. Rank(active_severity) \in 0..3
  BY DEF TypeOK, Rank, Severity
<1>3. \A r \in Reports : <<r, "cascade">> \in Incidents /\ <<r, "reported">> \in Incidents
  BY DEF Incidents
<1>4. \A i \in Incidents : i[1] \in Reports /\ (i = <<i[1], "reported">> \/ i = <<i[1], "cascade">>)
  BY DEF Incidents
<1>5. ASSUME NEW r \in Reports, Report(r) PROVE SeverityInv'
  <2>1. /\ pc' = [pc EXCEPT ![r] = "alert"]
        /\ incidents' = [incidents EXCEPT ![<<r, "reported">>] = "open"]
        /\ pc[r] = "idle" /\ UNCHANGED <<severity, active_severity>>
    BY <1>5 DEF Report
  <2>2. CascadesComeLast'
    BY <1>3, <2>1 DEF CascadesComeLast, TypeOK
  <2>3. SeverityIsNotUnderstated'
    BY <1>3, <1>4, <2>1 DEF SeverityIsNotUnderstated, TypeOK, Open, SeverityOf
  <2>4. QED
    BY <1>0, <2>2, <2>3
<1>6. ASSUME NEW r \in Reports, Cascade(r) PROVE SeverityInv'
  <2>1. /\ pc' = [pc EXCEPT ![r] = "cascade_alert"]
        /\ incidents' = [incidents EXCEPT ![<<r, "cascade">>] = "open"]
        /\ UNCHANGED <<severity, active_severity>>
    BY <1>6 DEF Cascade
  <2>2. CascadesComeLast'
    BY <1>3, <2>1 DEF CascadesComeLast, TypeOK
  <2>3. SeverityIsNotUnderstated'
    BY <1>3, <1>4, <2>1 DEF SeverityIsNotUnderstated, TypeOK, Open, SeverityOf
  <2>4. QED
    BY <1>0, <2>2, <2>3
<1>7. ASSUME NEW r \in Reports, EndAlert(r) PROVE SeverityInv'
  BY <1>0, <1>7 DEF EndAlert, CascadesComeLast, SeverityIsNotUnderstated, TypeOK, Open, SeverityOf
<1>8. ASSUME NEW r \in Reports, Finish(r) \/ FinishCritical(r) PROVE SeverityInv'
  <2>1. /\ pc' = [pc EXCEPT ![r] = "done"] /\ pc[r] = "publish"
        /\ active_severity' = Raise(severity[r])
        /\ UNCHANGED <<severity, incidents>>
    BY <1>8 DEF Finish, FinishCritical
  <2>2. CascadesComeLast'
    BY <2>1 DEF CascadesComeLast, TypeOK
  <2>3. /\ Rank(active_severity) <= Rank(active_severity')
        /\ Rank(severity[r]) <= Rank(active_severity')
    BY <2>1, RaiseRank DEF TypeOK
  <2>4. Rank(active_severity') \in 0..3
    BY <1>0 DEF TypeOK, Rank, Severity
  <2>5. incidents[<<r, "cascade">>] # "open"
    BY <2>1 DEF CascadesComeLast
  <2>6. ASSUME NEW q \in Reports, pc'[q] = "done", NEW i \in Open', i[1] = q
        PROVE  Rank(SeverityOf(i)') <= Rank(active_severity')
    <3>1. i \in Open /\ SeverityOf(i)' = SeverityOf(i) /\ i \in Incidents
      BY <2>1 DEF Open, SeverityOf
    <3>2. CASE q = r
      BY <1>4, <2>3, <2>5, <2>6, <3>1, <3>2 DEF SeverityOf, Open
    <3>3. CASE q # r
      <4>1. Rank(SeverityOf(i)) <= Rank(active_severity)
        BY <2>1, <2>6, <3>1, <3>3 DEF SeverityIsNotUnderstated, TypeOK
      <4>2. QED
        BY <1>1, <1>2, <2>3, <2>4, <3>1, <4>1
    <3>4. QED
      BY <3>2, <3>3
  <2>7. QED
    BY <1>0, <2>2, <2>6 DEF SeverityIsNotUnderstated
<1>9. ASSUME NEW r \in Reports, FinishCascade(r) PROVE SeverityInv'
  <2>1. /\ pc' = [pc EXCEPT ![r] = "done"] /\ active_severity' = "emergency"
        /\ UNCHANGED <<severity, incidents>>
    BY <1>9 DEF FinishCascade
  <2>2. CascadesComeLast'
    BY <2>1 DEF CascadesComeLast, TypeOK
  <2>3. Rank(active_severity') = 3
    BY <2>1 DEF Rank
  <2>4. SeverityIsNotUnderstated'
    BY <1>1, <2>1, <2>3 DEF SeverityIsNotUnderstated, Open, SeverityOf
  <2>5. QED
    BY <1>0, <2>2, <2>4
<1>10. ASSUME NEW i \in Incidents, Resolve(i) PROVE SeverityInv'
  <2>1. /\ incidents' = [incidents EXCEPT ![i] = "resolved"] /\ UNCHANGED <<severity, pc>>
        /\ \A s \in {SeverityOf(j) : j \in Open \ {i}} : Rank(s) <= Rank(active_severity')
    BY <1>10 DEF Resolve
  <2>2. Open' = Open \ {i} /\ \A j \in Incidents : SeverityOf(j)' = SeverityOf(j)
    BY <2>1 DEF Open, TypeOK, SeverityOf
  <2>3. CascadesComeLast'
    BY <1>3, <2>1 DEF CascadesComeLast, TypeOK
  <2>4. SeverityIsNotUnderstated'
    BY <2>1, <2>2 DEF SeverityIsNotUnderstated, Open
  <2>5. QED
    BY <1>0, <2>3, <2>4
<1>11. CASE UNCHANGED <<incidents, severity, pc, active_severity>>
  BY <1>0, <1>11 DEF CascadesComeLast, SeverityIsNotUnderstated, Open, SeverityOf
<1>12. QED
  BY <1>5, <1>6, <1>7, <1>8, <1>9, <1>10, <1>11 DEF Next, Tick, vars

(***************************************************************************)
(* The active severity of the incidents whose reports have returned is     *)
(* never understated, whichever resolutions overlapped them.               *)
(***************************************************************************)
THEOREM SeverityIsSafe == Spec => []SeverityIsNotUnderstated
<1>1. Init => SeverityInv
  BY InitTypeOK DEF Init, SeverityInv, CascadesComeLast, SeverityIsNotUnderstated, Incidents
<1>2. QED
  BY <1>1, NextSeverityInv, PTL DEF Spec, SeverityInv

-----------------------------------------------------------------------------
(***************************************************************************)
(* Cascades.  As long as none was set off, a critical incident whose       *)
(* report has returned is among the recorded times, unless the window has  *)
(* passed since it was opened.                                             *)
(***************************************************************************)
NoCascade    == \A r \in Reports : incidents[<<r, "cascade">>] = "none"
DoneCritical == {r \in Reports : severity[r] = "critical" /\ pc[r] = "done"}

ReportsAreTimely ==
  \A r \in Reports : /\ opened_at[r] <= clock
                     /\ pc[r] \notin {"idle", "done"} => clock <= opened_at[r] + MaxDelay

CascadesAreOnRecord ==
  \A r \in Reports : pc[r] \in {"cascade_alert", "cascade_publish"} =>
                       incidents[<<r, "cascade">>] # "none"

Recorded(r) == \E t \in Nat : <<r, t>> \in cascade_timestamps /\ opened_at[r] <= t

CriticalsAreRecorded ==
  NoCascade => \A r \in DoneCritical : opened_at[r] + Window < clock \/ Recorded(r)

CascadeInv ==
  /\ TypeOK /\ IsFiniteSet(cascade_timestamps)
  /\ ReportsAreTimely /\ CascadesAreOnRecord /\ CriticalsAreRecorded
  /\ CascadesAreDetected

LEMMA InitCascadeInv == Init => CascadeInv
<1> SUFFICES ASSUME Init PROVE CascadeInv
  OBVIOUS
<1>1. IsFiniteSet(cascade_timestamps)
  BY FS_EmptySet DEF Init
<1>2. ReportsAreTimely /\ CascadesAreOnRecord /\ CriticalsAreRecorded
  BY ConstantsAssumption
     DEF Init, ReportsAreTimely, CascadesAreOnRecord, CriticalsAreRecorded, DoneCritical
<1>3. CascadesAreDetected
  <2> SUFFICES ASSUME NEW s \in SUBSET {r \in Reports : severity[r] = "critical" /\ pc[r] = "done"}
               PROVE  Cardinality(s) < Threshold
    BY DEF CascadesAreDetected
  <2>1. s = {}
    BY DEF Init
  <2>2. QED
    BY <2>1, FS_EmptySet, ConstantsAssumption
<1>4. QED
  BY <1>1, <1>2, <1>3, InitTypeOK DEF CascadeInv

(* A step that returns no critical report leaves everything as it was.      *)
LEMMA SameCriticals ==
  ASSUME CascadeInv, DoneCritical' = DoneCritical, NoCascade' => NoCascade,
         \A r \in DoneCritical : opened_at'[r] = opened_at[r],
         clock' \in Nat, clock <= clock',
         UNCHANGED <<cascade_timestamps>>
  PROVE  CriticalsAreRecorded' /\ CascadesAreDetected'
<1>1. CriticalsAreRecorded'
  <2> SUFFICES ASSUME NoCascade', NEW r \in DoneCritical
               PROVE  (opened_at[r] + Window < clock \/ Recorded(r))'
    BY DEF CriticalsAreRecorded
  <2>1. CASE opened_at[r] + Window < clock
    <3>1. opened_at[r] \in Nat /\ clock \in Nat
      BY DEF CascadeInv, TypeOK, DoneCritical
    <3>2. QED
      BY <2>1, <3>1, ConstantsAssumption
  <2>2. CASE Recorded(r)
    BY <2>2 DEF Recorded
  <2>3. QED
    BY <2>1, <2>2 DEF CascadeInv, CriticalsAreRecorded
<1>2. CascadesAreDetected'
  <2> SUFFICES ASSUME NoCascade', NEW s \in SUBSET DoneCritical',
                      \A q, r \in s : opened_at'[q] + MaxDelay <= opened_at'[r] + Window
               PROVE  Cardinality(s) < Threshold
    BY DEF CascadesAreDetected, NoCascade, DoneCritical
  <2>1. \A q, r \in s : opened_at[q] + MaxDelay <= opened_at[r] + Window
    OBVIOUS
  <2>2. QED
    BY <2>1 DEF CascadeInv, CascadesAreDetected, NoCascade, DoneCritical
<1>3. QED
  BY <1>1, <1>2

(* The return of a critical report: those close to it are all recorded still. *)
LEMMA CloseOnesAreRecent ==
  ASSUME CascadeInv, NoCascade, NEW r \in Reports, pc[r] = "publish",
         NEW q \in DoneCritical, opened_at[r] + MaxDelay <= opened_at[q] + Window
  PROVE  \E t \in Nat : <<q, t>> \in Recent(r)
<1>1. opened_at[r] \in Nat /\ opened_at[q] \in Nat /\ clock \in Nat
  BY DEF CascadeInv, TypeOK, DoneCritical
<1>2. clock <= opened_at[q] + Window
  <2>1. clock <= opened_at[r] + MaxDelay
    BY DEF CascadeInv, ReportsAreTimely
  <2>2. QED
    BY <1>1, <2>1, ConstantsAssumption
<1>3. Recorded(q)
  BY <1>1, <1>2, ConstantsAssumption DEF CascadeInv, CriticalsAreRecorded
<1>4. PICK t \in Nat : <<q, t>> \in cascade_timestamps /\ opened_at[q] <= t
  BY <1>3 DEF Recorded
<1>5. t + Window >= clock
  BY <1>1, <1>2, <1>4, ConstantsAssumption
<1>6. QED
  BY <1>4, <1>5 DEF Recent

LEMMA RecentIsFinite ==
  ASSUME CascadeInv, NEW r \in Reports PROVE IsFiniteSet(Recent(r))
<1>1. IsFiniteSet(cascade_timestamps \cup {<<r, clock>>})
  BY FS_AddElement DEF CascadeInv
<1>2. QED
  BY <1>1, FS_Subset DEF Recent

LEMMA FinishCriticalKeepsCascadeInv ==
  ASSUME CascadeInv, NEW r \in Reports, FinishCritical(r)
  PROVE  CriticalsAreRecorded' /\ CascadesAreDetected'
<1>1. /\ pc[r] = "publish" /\ severity[r] = "critical"
      /\ Cardinality(Recent(r)) < Threshold
      /\ cascade_timestamps' = Recent(r) /\ pc' = [pc EXCEPT ![r] = "done"]
      /\ UNCHANGED <<incidents, severity, clock, opened_at>>
  BY DEF FinishCritical
<1>2. DoneCritical' = DoneCritical \cup {r} /\ NoCascade' = NoCascade
  BY <1>1 DEF CascadeInv, TypeOK, DoneCritical, NoCascade
<1>3. clock \in Nat /\ \A q \in Reports : opened_at[q] \in Nat
  BY DEF CascadeInv, TypeOK
<1>4. <<r, clock>> \in Recent(r)
  BY <1>3, ConstantsAssumption DEF Recent
<1>5. CriticalsAreRecorded'
  <2> SUFFICES ASSUME NoCascade, NEW q \in DoneCritical \cup {r}
               PROVE  (opened_at[q] + Window < clock \/ Recorded(q))'
    BY <1>2 DEF CriticalsAreRecorded
  <2>1. CASE q = r
    <3>1. opened_at[r] <= clock
      BY DEF CascadeInv, ReportsAreTimely
    <3>2. QED
      BY <1>1, <1>3, <1>4, <2>1, <3>1 DEF Recorded
  <2>2. CASE q \in DoneCritical /\ opened_at[q] + Window < clock
    BY <1>1, <2>2
  <2>3. CASE q \in DoneCritical /\ Recorded(q)
    <3>1. PICK t \in Nat : <<q, t>> \in cascade_timestamps /\ opened_at[q] <= t
      BY <2>3 DEF Recorded
    <3>2. CASE t + Window >= clock
      <4>1. <<q, t>> \in Recent(r)
        BY <3>1, <3>2 DEF Recent
      <4>2. QED
        BY <1>1, <3>1, <4>1 DEF Recorded
    <3>3. CASE ~(t + Window >= clock)
      <4>1. opened_at[q] + Window < clock
        BY <1>3, <2>3, <3>1, <3>3, ConstantsAssumption DEF DoneCritical
      <4>2. QED
        BY <1>1, <4>1
    <3>4. QED
      BY <3>2, <3>3
  <2>4. QED
    BY <2>1, <2>2, <2>3 DEF CascadeInv, CriticalsAreRecorded
<1>6. CascadesAreDetected'
  <2> SUFFICES ASSUME NoCascade, NEW s \in SUBSET (DoneCritical \cup {r}),
                      \A p, q \in s : opened_at[p] + MaxDelay <= opened_at[q] + Window
               PROVE  Cardinality(s) < Threshold
    BY <1>1, <1>2 DEF CascadesAreDetected, NoCascade, DoneCritical
  <2>1. CASE r \notin s
    <3>1. s \in SUBSET DoneCritical
      BY <2>1
    <3>2. QED
      BY <3>1 DEF CascadeInv, CascadesAreDetected, NoCascade, DoneCritical
  <2>2. CASE r \in s
    <3>1. \A q \in s : \E t \in Nat : <<q, t>> \in Recent(r)
      <4>1. ASSUME NEW q \in s PROVE \E t \in Nat : <<q, t>> \in Recent(r)
        <5>1. CASE q = r
          BY <1>3, <1>4, <5>1
        <5>2. CASE q \in DoneCritical
          BY <1>1, <2>2, <5>2, CloseOnesAreRecent
        <5>3. QED
          BY <5>1, <5>2
      <4>2. QED
        BY <4>1
    <3> DEFINE stamp == [q \in s |-> <<q, CHOOSE t \in Nat : <<q, t>> \in Recent(r)>>]
    <3>2. stamp \in Injection(s, Recent(r))
      <4>1. stamp \in [s -> Recent(r)]
        BY <3>1
      <4>2. \A p, q \in s : stamp[p] = stamp[q] => p = q
        OBVIOUS
      <4>3. QED
        BY <4>1, <4>2 DEF Injection, IsInjective
    <3> HIDE DEF stamp
    <3>3. IsFiniteSet(Recent(r))
      BY RecentIsFinite
    <3>4. IsFiniteSet(s) /\ Cardinality(s) <= Cardinality(Recent(r))
      BY <3>2, <3>3, FS_Injection
    <3>5. Cardinality(s) \in Nat /\ Cardinality(Recent(r)) \in Nat
      BY <3>3, <3>4, FS_CardinalityType
    <3>6. QED
      BY <1>1, <3>4, <3>5, ConstantsAssumption
  <2>3. QED
    BY <2>1, <2>2
<1>7. QED
  BY <1>5, <1>6

LEMMA NextCascadeInv == CascadeInv /\ [Next]_vars => CascadeInv'
<1> SUFFICES ASSUME CascadeInv, [Next]_vars PROVE CascadeInv'
  OBVIOUS
<1>0. TypeOK' /\ TypeOK
  BY NextTypeOK DEF CascadeInv
<1>1. ASSUME NEW r \in Reports, Report(r) PROVE CascadeInv'
  <2>1. /\ pc[r] = "idle" /\ pc' = [pc EXCEPT ![r] = "alert"]
        /\ incidents' = [incidents EXCEPT ![<<r, "reported">>] = "open"]
        /\ opened_at' = [opened_at EXCEPT ![r] = clock]
        /\ UNCHANGED <<severity, cascade_timestamps, clock>>
    BY <1>1 DEF Report
  <2>2. DoneCritical' = DoneCritical /\ r \notin DoneCritical
    BY <1>0, <2>1 DEF DoneCritical, TypeOK
  <2>3. \A q \in Reports : incidents'[<<q, "cascade">>] = incidents[<<q, "cascade">>]
    BY <1>0, <2>1 DEF TypeOK, Incidents
  <2>4. CriticalsAreRecorded' /\ CascadesAreDetected'
    <3>1. NoCascade' => NoCascade
      BY <2>3 DEF NoCascade
    <3>2. \A q \in DoneCritical : opened_at'[q] = opened_at[q]
      BY <1>0, <2>1, <2>2 DEF TypeOK, DoneCritical
    <3>3. clock' \in Nat /\ clock <= clock'
      BY <1>0, <2>1 DEF TypeOK
    <3>4. QED
      BY <2>1, <2>2, <3>1, <3>2, <3>3, SameCriticals
  <2>5. ReportsAreTimely'
    BY <1>0, <2>1, ConstantsAssumption DEF CascadeInv, ReportsAreTimely, TypeOK
  <2>6. CascadesAreOnRecord'
    BY <1>0, <2>1, <2>3 DEF CascadeInv, CascadesAreOnRecord, TypeOK
  <2>7. QED
    BY <1>0, <2>1, <2>4, <2>5, <2>6 DEF CascadeInv
<1>2. ASSUME NEW r \in Reports, EndAlert(r) \/ Finish(r) \/ FinishCascade(r)
      PROVE  CascadeInv'
  <2>1. /\ pc[r] \in {"alert", "cascade_alert", "publish", "cascade_publish"}
        /\ UNCHANGED <<incidents, severity, cascade_timestamps, clock, opened_at>>
        /\ \A q \in Reports : q # r => pc'[q] = pc[q]
        /\ pc'[r] \in {"publish", "cascade_publish", "done"}
        /\ pc'[r] = "done" => severity[r] # "critical" \/ pc[r] = "cascade_publish"
        /\ pc'[r] = "cascade_publish" => pc[r] = "cascade_alert"
    BY <1>0, <1>2 DEF EndAlert, Finish, FinishCascade, TypeOK
  <2>2. ASSUME ~NoCascade PROVE CriticalsAreRecorded' /\ CascadesAreDetected'
    BY <2>1, <2>2 DEF CriticalsAreRecorded, CascadesAreDetected, NoCascade
  <2>3. ASSUME NoCascade PROVE CriticalsAreRecorded' /\ CascadesAreDetected'
    <3>1. DoneCritical' = DoneCritical
      BY <2>1, <2>3 DEF CascadeInv, CascadesAreOnRecord, NoCascade, DoneCritical
    <3>2. clock' \in Nat /\ clock <= clock' /\ (NoCascade' => NoCascade)
      BY <1>0, <2>1, <2>3 DEF TypeOK
    <3>3. QED
      BY <2>1, <3>1, <3>2, SameCriticals
  <2>4. ReportsAreTimely'
    BY <2>1 DEF CascadeInv, ReportsAreTimely
  <2>5. CascadesAreOnRecord'
    BY <2>1 DEF CascadeInv, CascadesAreOnRecord
  <2>6. QED
    BY <1>0, <2>1, <2>2, <2>3, <2>4, <2>5 DEF CascadeInv
<1>3. ASSUME NEW r \in Reports, FinishCritical(r) PROVE CascadeInv'
  <2>1. /\ pc[r] = "publish" /\ pc' = [pc EXCEPT ![r] = "done"]
        /\ cascade_timestamps' = Recent(r)
        /\ UNCHANGED <<incidents, severity, clock, opened_at>>
    BY <1>3 DEF FinishCritical
  <2>2. ReportsAreTimely' /\ CascadesAreOnRecord'
    BY <1>0, <2>1 DEF CascadeInv, ReportsAreTimely, CascadesAreOnRecord, TypeOK
  <2>3. QED
    BY <1>0, <1>3, <2>1, <2>2, RecentIsFinite, FinishCriticalKeepsCascadeInv DEF CascadeInv
<1>4. ASSUME NEW r \in Reports, Cascade(r) PROVE CascadeInv'
  <2>1. /\ pc[r] = "publish" /\ pc' = [pc EXCEPT ![r] = "cascade_alert"]
        /\ cascade_timestamps' = {}
        /\ incidents' = [incidents EXCEPT ![<<r, "cascade">>] = "open"]
        /\ UNCHANGED <<severity, clock, opened_at>>
    BY <1>4 DEF Cascade
  <2>2. /\ incidents'[<<r, "cascade">>] = "open"
        /\ \A q \in Reports : incidents'[<<q, "cascade">>] = "none" =>
                                incidents[<<q, "cascade">>] = "none"
    BY <1>0, <2>1 DEF TypeOK, Incidents
  <2>3. CriticalsAreRecorded' /\ CascadesAreDetected'
    BY <2>2 DEF CriticalsAreRecorded, CascadesAreDetected, NoCascade
  <2>4. ReportsAreTimely' /\ CascadesAreOnRecord'
    BY <1>0, <2>1, <2>2 DEF CascadeInv, ReportsAreTimely, CascadesAreOnRecord, TypeOK
  <2>5. QED
    BY <1>0, <2>1, <2>3, <2>4, FS_EmptySet DEF CascadeInv
<1>5. ASSUME NEW i \in Incidents, Resolve(i) PROVE CascadeInv'
  <2>1. /\ incidents[i] # "none" /\ incidents' = [incidents EXCEPT ![i] = "resolved"]
        /\ UNCHANGED <<severity, pc, cascade_timestamps, clock, opened_at>>
    BY <1>5 DEF Resolve
  <2>2. \A q \in Reports : incidents'[<<q, "cascade">>] = "none" <=>
                             incidents[<<q, "cascade">>] = "none"
    BY <1>0, <2>1 DEF TypeOK, Incidents
  <2>3. CriticalsAreRecorded' /\ CascadesAreDetected'
    <3>1. (NoCascade' => NoCascade) /\ DoneCritical' = DoneCritical
      BY <2>1, <2>2 DEF NoCascade, DoneCritical
    <3>2. clock' \in Nat /\ clock <= clock'
      BY <1>0, <2>1 DEF TypeOK
    <3>3. QED
      BY <2>1, <3>1, <3>2, SameCriticals
  <2>4. ReportsAreTimely' /\ CascadesAreOnRecord'
    BY <2>1, <2>2 DEF CascadeInv, ReportsAreTimely, CascadesAreOnRecord
  <2>5. QED
    BY <1>0, <2>1, <2>3, <2>4 DEF CascadeInv
<1>6. CASE Tick
  <2>1. /\ \A r \in Reports : pc[r] \notin {"idle", "done"} => clock < opened_at[r] + MaxDelay
        /\ clock' = clock + 1
        /\ UNCHANGED <<incidents, severity, pc, cascade_timestamps, opened_at>>
    BY <1>6 DEF Tick
  <2>2. CriticalsAreRecorded' /\ CascadesAreDetected'
    <3>1. (NoCascade' => NoCascade) /\ DoneCritical' = DoneCritical
      BY <2>1 DEF NoCascade, DoneCritical
    <3>2. clock' \in Nat /\ clock <= clock'
      BY <1>0, <2>1 DEF TypeOK
    <3>3. QED
      BY <2>1, <3>1, <3>2, SameCriticals
  <2>3. ReportsAreTimely' /\ CascadesAreOnRecord'
    BY <1>0, <2>1, ConstantsAssumption
       DEF CascadeInv, ReportsAreTimely, CascadesAreOnRecord, TypeOK
  <2>4. QED
    BY <1>0, <2>1, <2>2, <2>3 DEF CascadeInv
<1>7. CASE UNCHANGED vars
  <2>1. UNCHANGED <<incidents, severity, pc, cascade_timestamps, clock, opened_at>>
    BY <1>7 DEF vars
  <2>2. QED
    BY <1>0, <2>1 DEF CascadeInv, ReportsAreTimely, CascadesAreOnRecord, CriticalsAreRecorded,
       CascadesAreDetected, NoCascade, DoneCritical, Recorded
<1>8. QED
  BY <1>1, <1>2, <1>3, <1>4, <1>5, <1>6, <1>7 DEF Next

(***************************************************************************)
(* For any threshold, window and delay, critical incidents that are opened *)
(* close enough together set off a cascade (_handle_critical), however     *)
(* their reports overlap.                                                  *)
(***************************************************************************)
THEOREM CascadesHappen == Spec => []CascadesAreDetected
<1>1. CascadeInv => CascadesAreDetected
  BY DEF CascadeInv
<1>2. QED
  BY <1>1, InitCascadeInv, NextCascadeInv, PTL DEF Spec

-----------------------------------------------------------------------------
(***************************************************************************)
(* Failover of the broker.  While the loop lives, the failures it counted  *)
(* are the bad checks of the current streak at most, the check it is       *)
(* handling included; and a failover on its way was asked for by a full    *)
(* streak and has gone to the trading state already.                       *)
(***************************************************************************)
FailuresAreCounted ==
  /\ loop \notin {"record", "dead"} => failures <= streak
  /\ (loop = "record" /\ outcome # "up") => CountedUp(failures) <= streak
  /\ loop \in {"force", "set_failover"} => streak = MaxFailures

OpensAreBlocked ==
  ((mode = "failover" \/ loop = "set_failover") /\ trading_state = "active")
    => resumed \/ refused \/ reverted

FailoverInv == FailoverTypeOK /\ FailuresAreCounted /\ OpensAreBlocked

LEMMA CountedUpIsMonotone ==
  ASSUME NEW m \in 0..MaxFailures, NEW n \in 0..MaxFailures, m <= n
  PROVE  CountedUp(m) <= CountedUp(n) /\ CountedUp(m) \in 0..MaxFailures
BY FailoverAssumption DEF CountedUp

LEMMA InitFailoverInv == FailoverInit => FailoverInv
<1> SUFFICES ASSUME FailoverInit PROVE FailoverInv
  OBVIOUS
<1>1. FailoverTypeOK
  <2>1. 0 \in 0..MaxFailures /\ 0 \in 0..MaxFaults
    BY FailoverAssumption
  <2>2. QED
    BY <2>1 DEF FailoverInit, FailoverTypeOK, LoopPhases, Modes
<1>2. FailuresAreCounted
  BY DEF FailoverInit, FailuresAreCounted, CountedUp
<1>3. OpensAreBlocked
  BY DEF FailoverInit, OpensAreBlocked
<1>4. QED
  BY <1>1, <1>2, <1>3 DEF FailoverInv

LEMMA CheckKeepsFailoverInv == FailoverInv /\ Check => FailoverInv'
<1> SUFFICES ASSUME FailoverInv, Check PROVE FailoverInv'
  OBVIOUS
<1>1. /\ failures \in 0..MaxFailures /\ streak \in 0..MaxFailures /\ failures <= streak
  BY DEF FailoverInv, FailoverTypeOK, FailuresAreCounted, Check
<1>2. /\ CountedUp(failures) <= CountedUp(streak) /\ CountedUp(streak) \in 0..MaxFailures
  BY <1>1, CountedUpIsMonotone
<1>3. FailoverTypeOK'
  BY <1>2, FailoverAssumption DEF FailoverInv, FailoverTypeOK, Check, LoopPhases, Modes
<1>4. FailuresAreCounted'
  BY <1>2 DEF FailuresAreCounted, Check, CountedUp
<1>5. OpensAreBlocked'
  BY DEF FailoverInv, OpensAreBlocked, Check
<1>6. QED
  BY <1>3, <1>4, <1>5 DEF FailoverInv

LEMMA HandleBadKeepsFailoverInv == FailoverInv /\ HandleBad => FailoverInv'
<1> SUFFICES ASSUME FailoverInv, HandleBad PROVE FailoverInv'
  OBVIOUS
<1>1. failures' = CountedUp(failures) /\ failures' \in 0..MaxFailures
  BY CountedUpIsMonotone DEF FailoverInv, FailoverTypeOK, HandleBad
<1>2. failures' <= streak /\ streak \in 0..MaxFailures
  BY <1>1 DEF FailoverInv, FailoverTypeOK, FailuresAreCounted, HandleBad, history
<1>3. FailoverTypeOK'
  BY <1>1 DEF FailoverInv, FailoverTypeOK, HandleBad, LoopPhases, history
<1>4. FailuresAreCounted'
  BY <1>1, <1>2, FailoverAssumption DEF FailuresAreCounted, HandleBad, history
<1>5. OpensAreBlocked'
  BY DEF FailoverInv, OpensAreBlocked, HandleBad, history
<1>6. QED
  BY <1>3, <1>4, <1>5 DEF FailoverInv

LEMMA NextFailoverInv == FailoverInv /\ [FailoverNext]_failoverVars => FailoverInv'
<1> SUFFICES ASSUME FailoverInv, [FailoverNext]_failoverVars PROVE FailoverInv'
  OBVIOUS
<1>0. FailoverTypeOK /\ FailuresAreCounted /\ OpensAreBlocked
  BY DEF FailoverInv
<1>1. CASE Check
  BY <1>1, CheckKeepsFailoverInv
<1>2. CASE HandleBad
  BY <1>2, HandleBadKeepsFailoverInv
<1>3. CASE HandleGood
  <2>1. FailoverTypeOK'
    BY <1>0, <1>3, FailoverAssumption DEF FailoverTypeOK, LoopPhases, Modes, HandleGood, history
  <2>2. FailuresAreCounted'
    BY <1>0, <1>3, FailoverAssumption DEF FailoverTypeOK, FailuresAreCounted, HandleGood, history
  <2>3. OpensAreBlocked'
    BY <1>0, <1>3 DEF OpensAreBlocked, HandleGood, history
  <2>4. QED
    BY <2>1, <2>2, <2>3 DEF FailoverInv
<1>4. CASE ForceCloseOnly
  <2>1. FailoverTypeOK'
    BY <1>0, <1>4, FailoverAssumption DEF FailoverTypeOK, LoopPhases, Modes, ForceCloseOnly
  <2>2. FailuresAreCounted'
    BY <1>0, <1>4 DEF FailuresAreCounted, ForceCloseOnly
  <2>3. OpensAreBlocked'
    BY <1>0, <1>4 DEF OpensAreBlocked, ForceCloseOnly
  <2>4. QED
    BY <2>1, <2>2, <2>3 DEF FailoverInv
<1>5. CASE SetFailover
  <2>1. FailoverTypeOK'
    BY <1>0, <1>5, FailoverAssumption DEF FailoverTypeOK, LoopPhases, Modes, SetFailover, history
  <2>2. FailuresAreCounted'
    BY <1>0, <1>5 DEF FailuresAreCounted, SetFailover, history
  <2>3. OpensAreBlocked'
    BY <1>0, <1>5 DEF OpensAreBlocked, SetFailover, history
  <2>4. QED
    BY <2>1, <2>2, <2>3 DEF FailoverInv
<1>6. CASE BeginReturn
  <2>1. FailoverTypeOK'
    BY <1>0, <1>6, FailoverAssumption DEF FailoverTypeOK, LoopPhases, Modes, BeginReturn, history
  <2>2. FailuresAreCounted'
    BY <1>0, <1>6 DEF FailuresAreCounted, BeginReturn, history
  <2>3. OpensAreBlocked'
    BY <1>0, <1>6 DEF OpensAreBlocked, BeginReturn, history
  <2>4. QED
    BY <2>1, <2>2, <2>3 DEF FailoverInv
<1>7. CASE StayInFailover
  <2>1. FailoverTypeOK'
    BY <1>0, <1>7, FailoverAssumption DEF FailoverTypeOK, LoopPhases, Modes, StayInFailover, history
  <2>2. FailuresAreCounted'
    BY <1>0, <1>7 DEF FailuresAreCounted, StayInFailover, history
  <2>3. OpensAreBlocked'
    BY <1>0, <1>7 DEF OpensAreBlocked, StayInFailover, history
  <2>4. QED
    BY <2>1, <2>2, <2>3 DEF FailoverInv
<1>8. CASE EndReturn
  <2>1. FailoverTypeOK'
    BY <1>0, <1>8, FailoverAssumption DEF FailoverTypeOK, LoopPhases, Modes, EndReturn, history
  <2>2. FailuresAreCounted'
    BY <1>0, <1>8, FailoverAssumption DEF FailoverTypeOK, FailuresAreCounted, EndReturn, history
  <2>3. OpensAreBlocked'
    BY <1>0, <1>8 DEF OpensAreBlocked, EndReturn, history
  <2>4. QED
    BY <2>1, <2>2, <2>3 DEF FailoverInv
<1>9. CASE Sleep
  <2>1. FailoverTypeOK'
    BY <1>0, <1>9, FailoverAssumption DEF FailoverTypeOK, LoopPhases, Modes, Sleep, history
  <2>2. FailuresAreCounted'
    BY <1>0, <1>9 DEF FailuresAreCounted, Sleep, history
  <2>3. OpensAreBlocked'
    BY <1>0, <1>9 DEF OpensAreBlocked, Sleep, history
  <2>4. QED
    BY <2>1, <2>2, <2>3 DEF FailoverInv
<1>10. CASE Stop
  <2>1. FailoverTypeOK'
    BY <1>0, <1>10, FailoverAssumption DEF FailoverTypeOK, LoopPhases, Modes, Stop, history
  <2>2. FailuresAreCounted'
    BY <1>0, <1>10 DEF FailuresAreCounted, Stop, history
  <2>3. OpensAreBlocked'
    BY <1>0, <1>10 DEF OpensAreBlocked, Stop, history
  <2>4. QED
    BY <2>1, <2>2, <2>3 DEF FailoverInv
<1>11. CASE BrokerChanges
  <2>1. FailoverTypeOK'
    BY <1>0, <1>11, FailoverAssumption DEF FailoverTypeOK, LoopPhases, Modes, BrokerChanges,
       monitor, history
  <2>2. FailuresAreCounted'
    BY <1>0, <1>11 DEF FailuresAreCounted, BrokerChanges, monitor, history
  <2>3. OpensAreBlocked'
    BY <1>0, <1>11 DEF OpensAreBlocked, BrokerChanges, monitor, history
  <2>4. QED
    BY <2>1, <2>2, <2>3 DEF FailoverInv
<1>12. CASE ForceFails
  <2>1. FailoverTypeOK'
    BY <1>0, <1>12, FailoverAssumption DEF FailoverTypeOK, LoopPhases, Modes, ForceFails
  <2>2. FailuresAreCounted'
    BY <1>0, <1>12 DEF FailuresAreCounted, ForceFails
  <2>3. OpensAreBlocked'
    BY <1>0, <1>12 DEF OpensAreBlocked, ForceFails
  <2>4. QED
    BY <2>1, <2>2, <2>3 DEF FailoverInv
<1>13. CASE RedisFails
  <2>1. FailoverTypeOK'
    BY <1>0, <1>13, FailoverAssumption DEF FailoverTypeOK, LoopPhases, Modes, RedisFails, history
  <2>2. FailuresAreCounted'
    BY <1>0, <1>13 DEF FailuresAreCounted, RedisFails, history
  <2>3. OpensAreBlocked'
    BY <1>0, <1>13 DEF OpensAreBlocked, RedisFails, history
  <2>4. QED
    BY <2>1, <2>2, <2>3 DEF FailoverInv
<1>14. CASE Restart
  <2>1. FailoverTypeOK'
    BY <1>0, <1>14, FailoverAssumption DEF FailoverTypeOK, LoopPhases, Modes, Restart
  <2>2. FailuresAreCounted'
    BY <1>0, <1>14 DEF FailuresAreCounted, Restart
  <2>3. OpensAreBlocked'
    BY <1>0, <1>14 DEF OpensAreBlocked, Restart
  <2>4. QED
    BY <2>1, <2>2, <2>3 DEF FailoverInv
<1>15. CASE Resume
  <2>1. FailoverTypeOK'
    BY <1>0, <1>15, FailoverAssumption DEF FailoverTypeOK, LoopPhases, Modes, Resume, monitor
  <2>2. FailuresAreCounted'
    BY <1>0, <1>15 DEF FailuresAreCounted, Resume, monitor
  <2>3. OpensAreBlocked'
    BY <1>0, <1>15 DEF OpensAreBlocked, Resume, monitor
  <2>4. QED
    BY <2>1, <2>2, <2>3 DEF FailoverInv
<1>16. CASE SaveSnapshot
  <2>1. FailoverTypeOK'
    BY <1>0, <1>16, FailoverAssumption DEF FailoverTypeOK, LoopPhases, Modes, SaveSnapshot, monitor, history
  <2>2. FailuresAreCounted'
    BY <1>0, <1>16 DEF FailuresAreCounted, SaveSnapshot, monitor, history
  <2>3. OpensAreBlocked'
    BY <1>0, <1>16 DEF FailoverTypeOK, OpensAreBlocked, SaveSnapshot, monitor, history
  <2>4. QED
    BY <2>1, <2>2, <2>3 DEF FailoverInv
<1>17. CASE RestartRedis
  <2>1. FailoverTypeOK'
    BY <1>0, <1>17, FailoverAssumption DEF FailoverTypeOK, LoopPhases, Modes, RestartRedis, monitor, history
  <2>2. FailuresAreCounted'
    BY <1>0, <1>17 DEF FailuresAreCounted, RestartRedis, monitor, history
  <2>3. OpensAreBlocked'
    BY <1>0, <1>17 DEF FailoverTypeOK, OpensAreBlocked, RestartRedis, monitor, history
  <2>4. QED
    BY <2>1, <2>2, <2>3 DEF FailoverInv
<1>18. CASE UNCHANGED failoverVars
  <2>1. FailoverTypeOK'
    BY <1>0, <1>18 DEF FailoverTypeOK, failoverVars, monitor, history
  <2>2. FailuresAreCounted'
    BY <1>0, <1>18 DEF FailuresAreCounted, failoverVars, monitor, history
  <2>3. OpensAreBlocked'
    BY <1>0, <1>18 DEF OpensAreBlocked, failoverVars, monitor, history
  <2>4. QED
    BY <2>1, <2>2, <2>3 DEF FailoverInv
<1>19. QED
  BY <1>1, <1>2, <1>3, <1>4, <1>5, <1>6, <1>7, <1>8,
     <1>9, <1>10, <1>11, <1>12, <1>13, <1>14, <1>15, <1>16, <1>17, <1>18
     DEF FailoverNext, MonitorStep

LEMMA FailoverIsInv == FailoverSpec => []FailoverInv
  BY InitFailoverInv, NextFailoverInv, PTL DEF FailoverSpec

(***************************************************************************)
(* During a failover new positions stay blocked (_trigger_failover), for   *)
(* any number of store errors, Redis errors, stops and restarts, unless an *)
(* operator resumed, the store did not take the transition, or Redis lost  *)
(* it in a restart from its snapshot.                                       *)
(***************************************************************************)
THEOREM FailoverBlocks == FailoverSpec => []FailoverBlocksOpens
<1>1. FailoverInv => FailoverBlocksOpens
  BY DEF FailoverInv, OpensAreBlocked, FailoverBlocksOpens
<1>2. QED
  BY <1>1, FailoverIsInv, PTL

(***************************************************************************)
(* For any streak the monitor asks for, a failover is started by no        *)
(* shorter one (_handle_result), across returns, restarts and errors.      *)
(***************************************************************************)
THEOREM FailoversAreEarned == FailoverSpec => FailoverNeedsAStreak
<1>1. ASSUME FailoverInv, [FailoverNext]_failoverVars
      PROVE  [(mode = "primary" /\ mode' = "failover") => streak = MaxFailures]_failoverVars
  <2> SUFFICES ASSUME FailoverNext, mode = "primary", mode' = "failover"
               PROVE  streak = MaxFailures
    BY <1>1
  <2>1. loop = "set_failover"
    BY DEF FailoverNext, MonitorStep, Check, HandleGood, HandleBad, ForceCloseOnly, SetFailover,
           BeginReturn, StayInFailover, EndReturn, Sleep, Stop, BrokerChanges, ForceFails,
           RedisFails, Restart, Resume, SaveSnapshot, RestartRedis, monitor
  <2>2. QED
    BY <1>1, <2>1 DEF FailoverInv, FailuresAreCounted
<1>2. QED
  BY <1>1, FailoverIsInv, PTL DEF FailoverSpec, FailoverNeedsAStreak
=============================================================================
