--------------------------- MODULE TradingSwitch ---------------------------
(***************************************************************************)
(* The trading state as its users in the trading process see it: one        *)
(* register that operators change along the legal table and that automated  *)
(* actions force to a protective state (RuntimeState shows that the code's  *)
(* Redis commands implement such a register).                               *)
(***************************************************************************)
EXTENDS Naturals

CONSTANTS
  MaxChanges,  \* bound: changes by operators
  MaxFaults    \* bound: calls of Redis, the broker or the database that fail,
               \* and crashes

ASSUME BoundsAssumption == MaxChanges \in Nat /\ MaxFaults \in Nat

VARIABLES
  state,    \* the trading state
  changes,  \* operators' changes so far
  faults

switchVars == <<state, changes, faults>>

States     == {"active", "paused", "close_only", "halted"}
Protective == {"paused", "close_only", "halted"}

LegalEdges ==
  { <<"active", "paused">>, <<"active", "close_only">>, <<"active", "halted">>,
    <<"paused", "active">>, <<"paused", "close_only">>, <<"paused", "halted">>,
    <<"close_only", "active">>, <<"close_only", "halted">>, <<"halted", "active">> }

SwitchTypeOK ==
  /\ state \in States
  /\ changes \in 0..MaxChanges
  /\ faults \in 0..MaxFaults

SwitchInit == state = "active" /\ changes = 0 /\ faults = 0

Fault == faults < MaxFaults /\ faults' = faults + 1

(* An operator's transition(), through the control API or Telegram. *)
OperatorChange ==
  /\ changes < MaxChanges
  /\ changes' = changes + 1
  /\ \E to \in States : <<state, to>> \in LegalEdges /\ state' = to
  /\ UNCHANGED faults

(* force_transition_internal(target): it sets the state, or answers that it   *)
(* did not, or raises after the state changed or before.                    *)
Forced(target) == state' = target /\ UNCHANGED <<changes, faults>>
ForceRefused   == Fault /\ UNCHANGED <<state, changes>>
ForceRaises(target) == Fault /\ state' \in {state, target} /\ UNCHANGED changes
=============================================================================
