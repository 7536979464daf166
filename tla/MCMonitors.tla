----------------------------- MODULE MCMonitors -----------------------------
(* Instances for TLC of the two monitors that share nothing: a behaviour is  *)
(* about the incidents or about the failover, as its topic says, and leaves  *)
(* the other as it was.                                                      *)
EXTENDS IncidentController, BrokerFailover

CONSTANTS r1, r2, r3

VARIABLE topic

Three == {r1, r2, r3}

About(t, others) == topic = t /\ UNCHANGED <<topic, others>>

MonitorsInit ==
  /\ topic \in {"incidents", "failover"} /\ Init /\ FailoverInit
  /\ topic = "failover" => severity = [r \in Reports |-> "warning"]

MonitorsNext ==
  \/ About("incidents", failoverVars) /\ Next
  \/ About("failover", vars) /\ FailoverNext

monitorsVars == <<topic, vars, failoverVars>>

MonitorsSpec ==
  /\ MonitorsInit /\ [][MonitorsNext]_monitorsVars
  /\ WF_monitorsVars(About("failover", vars) /\ MonitorStep)
=============================================================================
