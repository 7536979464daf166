----------------------------- MODULE CanaryGate -----------------------------
(* The gate between the stages of going live (scripts/canary_gate.py): it    *)
(* reads the records of all trading so far and two figures of its caller,    *)
(* and tells which stages are ready and what stands against the others.      *)
EXTENDS Integers, FiniteSets

CONSTANTS
  TradingDays,           \* numbers of days with records at which the gate is asked
  Sharpes, Drawdowns,    \* figures of the caller: thousandths, tenths of a percent
  MaxMismatches          \* bound: mismatches recorded

NotGiven == -1000
ASSUME GateAssumption ==
  /\ TradingDays \subseteq Nat \ {0} /\ MaxMismatches \in Nat
  /\ Sharpes \subseteq Int /\ Drawdowns \subseteq Int

VARIABLES
  days, mismatches,  \* trading days of tca_records, mismatches of trade_events
  snapshot,          \* the last snapshot the gate was given
  decision,          \* and what it decided
  asked              \* history: mismatches on record when it was last asked
gateVars == <<days, mismatches, snapshot, decision, asked>>

(* evaluate_gate().  The protocol of docs/operational_protocol.md wants the  *)
(* Sharpe ratio, drawdown, fill rate, latency and a month without critical   *)
(* incidents before the first stage already, verified with this script; the  *)
(* script grants the first stage on days and mismatches alone, and asks for  *)
(* the Sharpe ratio at the second and for the others at the last.            *)
Canary1(s) == s.days >= 10 /\ s.mismatches = 0
Canary2(s) == Canary1(s) /\ s.days >= 25 /\ s.sharpe # NotGiven /\ s.sharpe > 500

Full(s) ==
  Canary2(s) /\ s.days >= 45 /\ s.drawdown # NotGiven /\ s.drawdown < 80 /\ s.green

Against(s) ==
  {r \in {"days_1", "mismatches", "days_2", "sharpe", "days_full", "drawdown", "slo"} :
     \/ r = "days_1" /\ s.days < 10
     \/ r = "mismatches" /\ s.mismatches # 0
     \/ r = "days_2" /\ Canary1(s) /\ s.days < 25
     \/ r = "sharpe" /\ (s.sharpe = NotGiven \/ s.sharpe <= 500)
     \/ r = "days_full" /\ Canary2(s) /\ s.days < 45
     \/ r = "drawdown" /\ (s.drawdown = NotGiven \/ s.drawdown >= 80)
     \/ r = "slo" /\ ~s.green}

Decided(s) ==
  [ready |-> {g \in {"canary1", "canary2", "full"} :
                \/ g = "canary1" /\ Canary1(s)
                \/ g = "canary2" /\ Canary2(s)
                \/ g = "full" /\ Full(s)},
   against |-> Against(s)]

Empty == [days |-> 0, mismatches |-> 0, sharpe |-> NotGiven, drawdown |-> NotGiven, green |-> FALSE]

-----------------------------------------------------------------------------
GateInit ==
  /\ days = 0 /\ mismatches = 0 /\ snapshot = Empty /\ decision = Decided(Empty)
  /\ asked = 0

TradeOn ==
  /\ \E d \in TradingDays : d > days /\ days' = d
  /\ UNCHANGED <<mismatches, snapshot, decision, asked>>

Mismatch ==
  /\ mismatches < MaxMismatches /\ mismatches' = mismatches + 1
  /\ UNCHANGED <<days, snapshot, decision, asked>>

AskOnceADay ==  \* mutant: the mismatches of a day are read once
  /\ \E sharpe \in Sharpes \cup {NotGiven}, drawdown \in Drawdowns \cup {NotGiven}, green \in BOOLEAN :
       snapshot' = [days |-> days, sharpe |-> sharpe, drawdown |-> drawdown,
                    mismatches |-> IF snapshot.days = days THEN snapshot.mismatches ELSE mismatches,
                    green |-> green /\ days > 0]
  /\ decision' = Decided(snapshot') /\ asked' = mismatches
  /\ UNCHANGED <<days, mismatches>>
(* _load_snapshot(), main(): fill rate and latency are averages over all     *)
(* records, so either verdict about them may come up at any time.            *)
Ask ==
  /\ \E sharpe \in Sharpes \cup {NotGiven}, drawdown \in Drawdowns \cup {NotGiven}, green \in BOOLEAN :
       snapshot' = [days |-> days, mismatches |-> mismatches, sharpe |-> sharpe,
                    drawdown |-> drawdown, green |-> green /\ days > 0]
  /\ decision' = Decided(snapshot') /\ asked' = mismatches
  /\ UNCHANGED <<days, mismatches>>

GateNext == TradeOn \/ Mismatch \/ Ask

GateSpec == GateInit /\ [][GateNext]_gateVars

-----------------------------------------------------------------------------
GateTypeOK ==
  /\ days \in TradingDays \cup {0} /\ mismatches \in 0..MaxMismatches /\ asked <= mismatches
  /\ snapshot.days <= days /\ decision.ready \subseteq {"canary1", "canary2", "full"}

(* The reasons are worked out apart from the stages and still explain them:  *)
(* all is ready if and only if nothing stands against it, and a stage that   *)
(* is not ready has a reason of its own or of an earlier stage.              *)
ReasonsExplain ==
  LET has(R) == decision.against \cap R # {} IN
  /\ "full" \in decision.ready <=> decision.against = {}
  /\ "canary1" \in decision.ready <=> ~has({"days_1", "mismatches"})
  /\ "canary2" \in decision.ready <=> ~has({"days_1", "mismatches", "days_2", "sharpe"})

(* A mismatch, once it is recorded, keeps every later question from passing  *)
(* any stage, those passed before included: there is no way back.            *)
MismatchIsForGood == asked > 0 => decision.ready = {}

(* Stages and reasons agree, and what blocks them for good does so.  This is *)
(* what the script answers; that its first stage asks for less than the      *)
(* protocol does is not held against it here.                                *)
GateIsStrict == GateTypeOK /\ ReasonsExplain /\ MismatchIsForGood
=============================================================================
