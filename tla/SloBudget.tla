----------------------------- MODULE SloBudget -----------------------------
(* The error budget of a service level objective (SloBudgetTracker): the     *)
(* newest events in a bounded queue, the rates at which the budget burns     *)
(* over an hour and over six, and the alerts.  Time is in hours.             *)
EXTENDS Integers, Sequences, FiniteSets

CONSTANTS
  Allowed,            \* thousandths of events that may be bad: 50 or 1
  Capacity,           \* of the queue (100000 in the code)
  Hours, MaxEvents  \* bounds

ASSUME SloAssumption ==
  Allowed \subseteq 1..1000 /\ Capacity \in Nat \ {0} /\ Hours \in Nat /\ MaxEvents \in Nat

VARIABLES
  events,    \* the queue: when, good
  hour, recorded
sloVars == <<events, hour, recorded>>

Within(hours) == {i \in DOMAIN events : hour - events[i].when <= hours}
Bad(hours) == {i \in Within(hours) : ~events[i].good}

(* check_burn_rates(): the rate is the share of bad events by the share      *)
(* allowed; more than 28.8 in an hour alerts, more than 6 in six hours.  The *)
(* docstrings call more than 14.4 in an hour a fast burn; the alert asks for *)
(* twice that, which an objective of one in twenty cannot reach.             *)
Fast(allowed) == 10000 * Cardinality(Bad(1)) > 288 * allowed * Cardinality(Within(1))
SlowByHour(allowed) == 1000 * Cardinality(Bad(1)) > 6 * allowed * Cardinality(Within(6))  \* mutant
Slow(allowed) == 1000 * Cardinality(Bad(6)) > 6 * allowed * Cardinality(Within(6))

Alert(allowed) ==
  IF Fast(allowed) THEN "fast" ELSE IF Slow(allowed) THEN "slow" ELSE "none"

SloInit == events = <<>> /\ hour = 0 /\ recorded = 0

Record(good) ==
  /\ recorded < MaxEvents /\ recorded' = recorded + 1
  /\ events' = Append(IF Len(events) = Capacity THEN Tail(events) ELSE events,
                      [when |-> hour, good |-> good])
  /\ UNCHANGED hour

HourPasses == hour < Hours /\ hour' = hour + 1 /\ UNCHANGED <<events, recorded>>

SloNext == HourPasses \/ \E good \in BOOLEAN : Record(good)

SloSpec == SloInit /\ [][SloNext]_sloVars

-----------------------------------------------------------------------------
SloTypeOK ==
  /\ Len(events) <= Capacity /\ hour \in 0..Hours
  /\ \A i, j \in DOMAIN events : i < j => events[i].when <= events[j].when

(* Bad news never calms: an alert is lifted or softened only by a good event *)
(* or as time goes by, also when the queue is full.                          *)
BadNewsNeverCalms ==
  [][recorded' # recorded /\ ~events'[Len(events')].good =>
       \A a \in Allowed : /\ Alert(a) = "fast" => Alert(a)' = "fast"
                          /\ Alert(a) # "none" => Alert(a)' # "none"]_sloVars

(* An outage is told: when a third of the newest events of six hours, or     *)
(* more, are bad, an objective that allows one in twenty alerts, and so does *)
(* every stricter one.  Nothing is said of one bad hour: a burn above 14.4,  *)
(* fast by the docstrings, is told only as far as six hours show it, or when *)
(* it is twice as fast as that.                                              *)
OutagesAreTold ==
  \A a \in Allowed :
    a <= 50 /\ Within(6) # {} /\ 3 * Cardinality(Bad(6)) >= Cardinality(Within(6))
      => Alert(a) # "none"

(* Alerts come with an outage, and do not go because of it. *)
AlertsTellOutages == [](SloTypeOK /\ OutagesAreTold) /\ BadNewsNeverCalms
=============================================================================
