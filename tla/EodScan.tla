------------------------------ MODULE EodScan ------------------------------
(***************************************************************************)
(* The end-of-day scan (_eod_scan in src/main.py): one coroutine that reads  *)
(* the trading state once and then decides on, submits, records and          *)
(* announces one order after another, while fills of its orders arrive.      *)
(* Prices, sizes and the verdict of the risk gates are left open.           *)
(***************************************************************************)
EXTENDS TradingSwitch, FiniteSets

CONSTANTS
  Symbols,
  NumStrategies,  \* the strategies run in the order 1, 2, ...
  MaxPositions,   \* settings.risk.max_positions
  MaxScans        \* bound: triggers of the scan

ASSUME ScanAssumption ==
  /\ IsFiniteSet(Symbols) /\ Symbols # {}
  /\ NumStrategies \in Nat \ {0} /\ MaxPositions \in Nat /\ MaxScans \in Nat

VARIABLES
  step,         \* where the scan is, "idle" when none runs
  strategy,     \* the strategy it is at
  signals,      \* the strategy's signals it has not come to
  symbol,       \* the symbol of the signal in its hands
  submitted,    \* _submitted_symbols
  held,         \* the symbols of the portfolio's open positions
  working,      \* symbol -> the broker's open orders
  placed,       \* history: symbol -> orders the broker accepted in this scan
  recorded,     \* history: symbol -> NEW events in the ledger in this scan
  interrupted,  \* history: symbol -> orders accepted, and an error before the NEW event
  announced,    \* history: orders announced on the bus in this scan
  scans

scanVars == <<step, strategy, signals, symbol, submitted, held, working, placed,
              recorded, interrupted, announced, scans>>

None == [s \in Symbols |-> 0]
Plus(count, s) == [count EXCEPT ![s] = @ + 1]

ScanTypeOK ==
  /\ step \in {"idle", "regime", "universe", "signals", "decide", "admit", "submit",
               "record", "announce"}
  /\ signals \subseteq Symbols
  /\ strategy \in 1..NumStrategies
  /\ symbol \in Symbols
  /\ submitted \subseteq Symbols /\ held \subseteq Symbols
  /\ {working, placed, recorded, interrupted, announced} \subseteq [Symbols -> Nat]
  /\ scans \in 0..MaxScans

AnySymbol == CHOOSE s \in Symbols : TRUE

ScanInit ==
  /\ step = "idle" /\ strategy = 1 /\ signals = {} /\ symbol = AnySymbol
  /\ submitted = {} /\ held = {}
  /\ working = None /\ placed = None /\ recorded = None /\ interrupted = None
  /\ announced = None
  /\ scans = 0

-----------------------------------------------------------------------------
Goto(where) == step' = where

scanLocals == <<strategy, signals, symbol, submitted, placed, recorded, interrupted, announced>>

(* The scan returns, and its local variables are gone. *)
Return ==
  /\ Goto("idle")
  /\ strategy' = 1 /\ signals' = {} /\ symbol' = AnySymbol /\ submitted' = {}
  /\ placed' = None /\ recorded' = None /\ interrupted' = None /\ announced' = None

(* It goes on, or ends here. *)
GotoOrReturn(where) == (Goto(where) /\ UNCHANGED scanLocals) \/ Return

(* A variant with a bug: the trading state is not looked at. *)
BeginUnchecked ==
  /\ step = "idle" /\ scans < MaxScans /\ working = None
  /\ scans' = scans + 1
  /\ Goto("regime")
  /\ UNCHANGED <<scanLocals, held, working, switchVars>>

(* The scan is triggered, once a day and so after the last close; it does     *)
(* nothing unless the state is ACTIVE.                                      *)
Begin ==
  /\ step = "idle" /\ scans < MaxScans /\ working = None
  /\ scans' = scans + 1
  /\ Goto(IF state = "active" THEN "regime" ELSE "idle")
  /\ UNCHANGED <<scanLocals, held, working, switchVars>>

(* No bars of SPY, or any error on the way to the regime, ends the scan. *)
DetectRegime ==
  /\ step = "regime"
  /\ GotoOrReturn("universe")
  /\ UNCHANGED <<held, working, scans, switchVars>>

(* The universe is filtered by volume (not at all after an error) and its     *)
(* bars are fetched; no symbol left, or no bars, ends the scan.              *)
FetchUniverse ==
  /\ step = "universe"
  /\ GotoOrReturn("signals")
  /\ UNCHANGED <<held, working, scans, switchVars>>

(* The next strategy's signals, at most one for each symbol with bars. *)
GenerateSignals ==
  /\ step = "signals"
  /\ signals' \in SUBSET Symbols
  /\ Goto("decide")
  /\ UNCHANGED <<strategy, symbol, submitted, held, working, placed, recorded, interrupted,
                 announced, scans, switchVars>>

NextStrategy ==
  /\ step = "decide" /\ signals = {}
  /\ IF strategy < NumStrategies
     THEN /\ strategy' = strategy + 1 /\ Goto("signals")
          /\ UNCHANGED <<signals, symbol, submitted, placed, recorded, interrupted, announced>>
     ELSE Return
  /\ UNCHANGED <<held, working, scans, switchVars>>

(* A signal is dropped, or taken on to the next steps if it is eligible. *)
Consider(eligible) ==
  /\ step = "decide"
  /\ \E s \in signals :
       /\ signals' = signals \ {s}
       /\ \/ s \in eligible /\ symbol' = s /\ Goto("admit")
          \/ Goto("decide") /\ UNCHANGED symbol
  /\ UNCHANGED <<strategy, submitted, held, working, placed, recorded, interrupted, announced,
                 scans, switchVars>>

(* A variant with a bug: without the set of the symbols already submitted. *)
DecideOnAll == Consider(IF Cardinality(held) < MaxPositions THEN Symbols \ held ELSE {})

(* A signal goes on unless its symbol was submitted in this scan or is held,  *)
(* the limit of positions is reached, or the count of day trades forbids it.  *)
Decide ==
  Consider(IF Cardinality(held) < MaxPositions THEN Symbols \ (submitted \cup held) ELSE {})

BackToSignals == Goto("decide") /\ symbol' = AnySymbol

(* Price and size: the signal goes on to the gates and passes, or is dropped. *)
Admit ==
  /\ step = "admit"
  /\ (Goto("submit") /\ UNCHANGED symbol) \/ BackToSignals
  /\ UNCHANGED <<strategy, signals, submitted, held, working, placed, recorded, interrupted,
                 announced, scans, switchVars>>

(* An error of Redis or of a strategy is not caught and ends the scan, and   *)
(* so does a gate that rejects: the line that logs it raises.               *)
Raise ==
  /\ \/ step \in {"signals", "decide", "admit"} /\ Fault
     \/ step = "admit" /\ UNCHANGED faults
  /\ Return
  /\ UNCHANGED <<held, working, scans, state, changes>>

Accept == placed' = Plus(placed, symbol) /\ working' = Plus(working, symbol)
Interrupt == interrupted' = Plus(interrupted, symbol) /\ BackToSignals

(* submit_order(): accepted, refused, or accepted and the answer lost. *)
Submit ==
  /\ step = "submit"
  /\ \/ Accept /\ Goto("record") /\ UNCHANGED <<symbol, interrupted, faults>>
     \/ BackToSignals /\ UNCHANGED <<placed, working, interrupted, faults>>
     \/ Accept /\ Fault /\ Interrupt
  /\ UNCHANGED <<strategy, signals, submitted, held, recorded, announced, scans, state, changes>>

(* record_event(NEW); a failure of the ledger ends the work on this signal. *)
Record ==
  /\ step = "record"
  /\ \/ /\ recorded' = Plus(recorded, symbol) /\ Goto("announce")
        /\ UNCHANGED <<symbol, interrupted, faults>>
     \/ Fault /\ Interrupt /\ UNCHANGED recorded
  /\ UNCHANGED <<strategy, signals, submitted, held, working, placed, announced, scans, state,
                 changes>>

(* publish(ORDER_SUBMITTED), which waits for room in the queue and does not   *)
(* fail; only now the symbol counts as submitted.                           *)
Announce ==
  /\ step = "announce"
  /\ submitted' = submitted \cup {symbol}
  /\ announced' = Plus(announced, symbol)
  /\ BackToSignals
  /\ UNCHANGED <<strategy, signals, held, working, placed, recorded, interrupted, scans,
                 switchVars>>

-----------------------------------------------------------------------------
(* The broker fills an order and the fill reaches the portfolio. *)
Fill(s) ==
  /\ working[s] > 0
  /\ working' = [working EXCEPT ![s] = @ - 1]
  /\ held' = held \cup {s}
  /\ UNCHANGED <<step, scanLocals, scans>>

(* At the close the broker cancels what is left of the day's orders. *)
Close ==
  /\ step = "idle" /\ working # None
  /\ working' = None
  /\ UNCHANGED <<step, scanLocals, held, scans, switchVars>>

(* The process dies, perhaps in a scan; the next trigger is the next day's. *)
ScanCrash == Return /\ UNCHANGED <<held, working, scans>>

-----------------------------------------------------------------------------
(* Only errors repeat orders.  A symbol is ordered again in a scan only after  *)
(* an order for it ended in an error, and an order for a symbol the portfolio *)
(* holds is one of those, whose predecessor was filled meanwhile: the check   *)
(* of the positions and the submission are several awaits apart.  The ledger  *)
(* lacks an order of the broker only while the scan is about to record it or  *)
(* after an error, and the bus announces no order the ledger lacks.          *)
ReorderedOnlyAfterErrors(s) ==
  /\ placed[s] <= 1 + interrupted[s]
  /\ (step = "submit" /\ symbol = s /\ s \in held) => interrupted[s] > 0

LedgerLacksOnlyErrors(s) ==
  /\ placed[s] = recorded[s] + interrupted[s]
                 + IF step = "record" /\ symbol = s THEN 1 ELSE 0
  /\ announced[s] <= recorded[s]

OnlyErrorsRepeatOrders ==
  /\ ScanTypeOK
  /\ \A s \in Symbols : ReorderedOnlyAfterErrors(s) /\ LedgerLacksOnlyErrors(s)
=============================================================================
