-------------------------- MODULE TradingDayProofs --------------------------
(***************************************************************************)
(* Proofs about the trading process at work, for any symbols, strategies,  *)
(* limits, kinds of fills and bounds.                                      *)
(***************************************************************************)
EXTENDS TradingDay, FiniteSetTheorems, TLAPS

(***************************************************************************)
(* The scan.  Every order of this scan is in the ledger, or ended in an    *)
(* error, or is about to be recorded; every order in the ledger is         *)
(* announced, or is about to be; and the symbols submitted are those that  *)
(* were announced, once each.                                              *)
(***************************************************************************)
AboutTo(what, s) == IF step = what /\ symbol = s THEN 1 ELSE 0

Books(s) ==
  /\ placed[s] = recorded[s] + interrupted[s] + AboutTo("record", s)
  /\ recorded[s] = announced[s] + AboutTo("announce", s)
  /\ announced[s] = IF s \in submitted THEN 1 ELSE 0

(* A signal in the scan's hands is not of a symbol it submitted. *)
InHand == step \in {"admit", "submit", "record", "announce"} => symbol \notin submitted

(* What the broker has open was placed in this scan. *)
OpenWasPlaced == step # "idle" => \A s \in Symbols : working[s] <= placed[s]

(* On its way to the broker, a symbol that is held was interrupted before. *)
HeldWasInterrupted ==
  (step \in {"admit", "submit"} /\ symbol \in held) => interrupted[symbol] > 0

ScanInv ==
  /\ ScanTypeOK
  /\ \A s \in Symbols : Books(s)
  /\ InHand /\ OpenWasPlaced /\ HeldWasInterrupted

LEMMA AnySymbolIsOne == AnySymbol \in Symbols
  BY ScanAssumption DEF AnySymbol

LEMMA NoneIsZero == None \in [Symbols -> Nat] /\ \A s \in Symbols : None[s] = 0
  BY DEF None

LEMMA PlusOne ==
  ASSUME NEW f \in [Symbols -> Nat], NEW s \in Symbols
  PROVE  /\ Plus(f, s) \in [Symbols -> Nat]
         /\ \A t \in Symbols : Plus(f, s)[t] = IF t = s THEN f[t] + 1 ELSE f[t]
  BY DEF Plus

LEMMA BothPlusOne ==
  ASSUME NEW f \in [Symbols -> Nat], NEW g \in [Symbols -> Nat], NEW s \in Symbols,
         \A t \in Symbols : f[t] <= g[t]
  PROVE  \A t \in Symbols : Plus(f, s)[t] <= Plus(g, s)[t]
  BY PlusOne

LEMMA ScanInitInv == ScanInit => ScanInv
<1> SUFFICES ASSUME ScanInit PROVE ScanInv
  OBVIOUS
<1> USE AnySymbolIsOne, NoneIsZero DEF ScanInit
<1>1. ScanTypeOK
  BY ScanAssumption DEF ScanTypeOK
<1>2. ASSUME NEW s \in Symbols PROVE Books(s)
  BY DEF Books, AboutTo
<1>3. InHand /\ OpenWasPlaced /\ HeldWasInterrupted
  BY DEF InHand, OpenWasPlaced, HeldWasInterrupted
<1>4. QED
  BY <1>1, <1>2, <1>3 DEF ScanInv

(* The end of a scan, whatever it was at. *)
LEMMA ReturnKeepsScan ==
  ASSUME ScanInv, Return, held' \subseteq Symbols, working' \in [Symbols -> Nat],
         scans' \in 0..MaxScans
  PROVE  ScanInv'
<1> USE AnySymbolIsOne, NoneIsZero DEF Return, Goto
<1>1. ScanTypeOK'
  BY ScanAssumption DEF ScanTypeOK
<1>2. ASSUME NEW s \in Symbols PROVE Books(s)'
  BY DEF Books, AboutTo
<1>3. (InHand /\ OpenWasPlaced /\ HeldWasInterrupted)'
  BY DEF InHand, OpenWasPlaced, HeldWasInterrupted
<1>4. QED
  BY <1>1, <1>2, <1>3 DEF ScanInv

(* A step on to where the scan has no signal in its hands. *)
LEMMA GotoKeepsScan ==
  ASSUME ScanInv, step \notin {"idle", "record", "announce"},
         NEW where \in {"universe", "signals", "decide"}, Goto(where),
         strategy' \in 1..NumStrategies, signals' \subseteq Symbols, symbol' \in Symbols,
         UNCHANGED <<submitted, held, working, placed, recorded, interrupted, announced, scans>>
  PROVE  ScanInv'
<1>1. ScanTypeOK'
  BY DEF ScanInv, ScanTypeOK, Goto
<1>2. ASSUME NEW s \in Symbols PROVE Books(s)'
  BY DEF ScanInv, Books, AboutTo, Goto
<1>3. (InHand /\ OpenWasPlaced /\ HeldWasInterrupted)'
  BY DEF ScanInv, InHand, OpenWasPlaced, HeldWasInterrupted, Goto
<1>4. QED
  BY <1>1, <1>2, <1>3 DEF ScanInv

LEMMA BeginKeepsScan == ScanInv /\ Begin => ScanInv'
<1> SUFFICES ASSUME ScanInv, Begin PROVE ScanInv'
  OBVIOUS
<1> USE NoneIsZero DEF ScanInv, Begin, Goto, scanLocals
<1>1. ScanTypeOK'
  BY ScanAssumption DEF ScanTypeOK
<1>2. ASSUME NEW s \in Symbols PROVE Books(s)'
  BY DEF Books, AboutTo
<1>3. InHand' /\ HeldWasInterrupted'
  BY DEF InHand, HeldWasInterrupted
<1>4. OpenWasPlaced'
  BY DEF OpenWasPlaced, ScanTypeOK
<1>5. QED
  BY <1>1, <1>2, <1>3, <1>4

LEMMA DecideKeepsScan ==
  ASSUME ScanInv, Decide
  PROVE  ScanInv'
<1>1. PICK s \in signals :
        /\ signals' = signals \ {s}
        /\ \/ s \notin submitted \cup held /\ symbol' = s /\ Goto("admit")
           \/ Goto("decide") /\ UNCHANGED symbol
  BY DEF Decide, Consider
<1>2. /\ step = "decide"
      /\ UNCHANGED <<strategy, submitted, held, working, placed, recorded, interrupted,
                     announced, scans>>
  BY DEF Decide, Consider
<1>3. ScanTypeOK'
  BY <1>1, <1>2 DEF ScanInv, ScanTypeOK, Goto
<1>4. ASSUME NEW t \in Symbols PROVE Books(t)'
  BY <1>1, <1>2 DEF ScanInv, Books, AboutTo, Goto
<1>5. InHand' /\ HeldWasInterrupted'
  BY <1>1, <1>2 DEF InHand, HeldWasInterrupted, Goto
<1>6. OpenWasPlaced'
  BY <1>1, <1>2 DEF ScanInv, OpenWasPlaced, Goto
<1>7. QED
  BY <1>3, <1>4, <1>5, <1>6 DEF ScanInv

LEMMA AdmitKeepsScan == ScanInv /\ Admit => ScanInv'
<1> SUFFICES ASSUME ScanInv, Admit PROVE ScanInv'
  OBVIOUS
<1> USE AnySymbolIsOne DEF ScanInv, Admit, Goto, BackToSignals
<1>1. ScanTypeOK'
  BY DEF ScanTypeOK
<1>2. ASSUME NEW s \in Symbols PROVE Books(s)'
  BY DEF Books, AboutTo
<1>3. (InHand /\ OpenWasPlaced /\ HeldWasInterrupted)'
  BY DEF InHand, OpenWasPlaced, HeldWasInterrupted
<1>4. QED
  BY <1>1, <1>2, <1>3

(* An error puts the signal down, with its order counted as interrupted. *)
LEMMA SubmitKeepsScan == ScanInv /\ Submit => ScanInv'
<1> SUFFICES ASSUME ScanInv, Submit PROVE ScanInv'
  OBVIOUS
<1>0. /\ step = "submit" /\ ScanTypeOK /\ InHand /\ OpenWasPlaced /\ HeldWasInterrupted
      /\ UNCHANGED <<strategy, signals, submitted, held, recorded, announced, scans>>
      /\ \A s \in Symbols : Books(s)
  BY DEF ScanInv, Submit
<1>1. CASE Accept /\ Goto("record") /\ UNCHANGED <<symbol, interrupted>>
  <2>1. ScanTypeOK'
    BY <1>0, <1>1, PlusOne DEF ScanTypeOK, Accept, Goto
  <2>2. ASSUME NEW s \in Symbols PROVE Books(s)'
    <3>1. placed'[s] = IF s = symbol THEN placed[s] + 1 ELSE placed[s]
      BY <1>0, <1>1, PlusOne DEF ScanTypeOK, Accept
    <3>2. Books(s)
      BY <1>0
    <3>3. QED
      BY <1>0, <1>1, <3>1, <3>2 DEF Books, AboutTo, Goto, ScanTypeOK
  <2>3. InHand' /\ HeldWasInterrupted'
    BY <1>0, <1>1 DEF InHand, HeldWasInterrupted, Goto
  <2>4. OpenWasPlaced'
    BY <1>0, <1>1, BothPlusOne DEF OpenWasPlaced, ScanTypeOK, Accept, Goto
  <2>5. QED
    BY <2>1, <2>2, <2>3, <2>4 DEF ScanInv
<1>2. CASE BackToSignals /\ UNCHANGED <<placed, working, interrupted>>
  <2>1. ScanTypeOK'
    BY <1>0, <1>2, AnySymbolIsOne DEF ScanTypeOK, BackToSignals, Goto
  <2>2. ASSUME NEW s \in Symbols PROVE Books(s)'
    BY <1>0, <1>2 DEF Books, AboutTo, BackToSignals, Goto
  <2>3. (InHand /\ OpenWasPlaced /\ HeldWasInterrupted)'
    BY <1>0, <1>2 DEF InHand, OpenWasPlaced, HeldWasInterrupted, BackToSignals, Goto
  <2>4. QED
    BY <2>1, <2>2, <2>3 DEF ScanInv
<1>3. CASE Accept /\ Interrupt
  <2>1. ScanTypeOK'
    BY <1>0, <1>3, AnySymbolIsOne, PlusOne
       DEF ScanTypeOK, Accept, Interrupt, BackToSignals, Goto
  <2>2. ASSUME NEW s \in Symbols PROVE Books(s)'
    <3>1. /\ placed'[s] = IF s = symbol THEN placed[s] + 1 ELSE placed[s]
          /\ interrupted'[s] = IF s = symbol THEN interrupted[s] + 1 ELSE interrupted[s]
      BY <1>0, <1>3, PlusOne DEF ScanTypeOK, Accept, Interrupt
    <3>2. Books(s)
      BY <1>0
    <3>3. QED
      BY <1>0, <1>3, <3>1, <3>2
         DEF Books, AboutTo, Interrupt, BackToSignals, Goto, ScanTypeOK
  <2>3. InHand' /\ HeldWasInterrupted'
    BY <1>0, <1>3 DEF InHand, HeldWasInterrupted, Interrupt, BackToSignals, Goto
  <2>4. OpenWasPlaced'
    BY <1>0, <1>3, BothPlusOne
       DEF OpenWasPlaced, ScanTypeOK, Accept, Interrupt, BackToSignals, Goto
  <2>5. QED
    BY <2>1, <2>2, <2>3, <2>4 DEF ScanInv
<1>4. QED
  BY <1>1, <1>2, <1>3 DEF Submit

LEMMA RecordKeepsScan == ScanInv /\ Record => ScanInv'
<1> SUFFICES ASSUME ScanInv, Record PROVE ScanInv'
  OBVIOUS
<1>0. /\ step = "record" /\ ScanTypeOK /\ InHand /\ OpenWasPlaced
      /\ UNCHANGED <<strategy, signals, submitted, held, working, placed, announced, scans>>
      /\ \A s \in Symbols : Books(s)
  BY DEF ScanInv, Record
<1>1. CASE /\ recorded' = Plus(recorded, symbol) /\ Goto("announce")
           /\ UNCHANGED <<symbol, interrupted>>
  <2>1. ScanTypeOK'
    BY <1>0, <1>1, PlusOne DEF ScanTypeOK, Goto
  <2>2. ASSUME NEW s \in Symbols PROVE Books(s)'
    <3>1. recorded'[s] = IF s = symbol THEN recorded[s] + 1 ELSE recorded[s]
      BY <1>0, <1>1, PlusOne DEF ScanTypeOK
    <3>2. Books(s)
      BY <1>0
    <3>3. QED
      BY <1>0, <1>1, <3>1, <3>2 DEF Books, AboutTo, Goto, ScanTypeOK
  <2>3. (InHand /\ OpenWasPlaced /\ HeldWasInterrupted)'
    BY <1>0, <1>1 DEF InHand, OpenWasPlaced, HeldWasInterrupted, Goto
  <2>4. QED
    BY <2>1, <2>2, <2>3 DEF ScanInv
<1>2. CASE Interrupt /\ UNCHANGED recorded
  <2>1. ScanTypeOK'
    BY <1>0, <1>2, AnySymbolIsOne, PlusOne DEF ScanTypeOK, Interrupt, BackToSignals, Goto
  <2>2. ASSUME NEW s \in Symbols PROVE Books(s)'
    <3>1. interrupted'[s] = IF s = symbol THEN interrupted[s] + 1 ELSE interrupted[s]
      BY <1>0, <1>2, PlusOne DEF ScanTypeOK, Interrupt
    <3>2. Books(s)
      BY <1>0
    <3>3. QED
      BY <1>0, <1>2, <3>1, <3>2
         DEF Books, AboutTo, Interrupt, BackToSignals, Goto, ScanTypeOK
  <2>3. (InHand /\ OpenWasPlaced /\ HeldWasInterrupted)'
    BY <1>0, <1>2
       DEF InHand, OpenWasPlaced, HeldWasInterrupted, Interrupt, BackToSignals, Goto
  <2>4. QED
    BY <2>1, <2>2, <2>3 DEF ScanInv
<1>3. QED
  BY <1>1, <1>2 DEF Record

LEMMA AnnounceKeepsScan == ScanInv /\ Announce => ScanInv'
<1> SUFFICES ASSUME ScanInv, Announce PROVE ScanInv'
  OBVIOUS
<1>0. /\ step = "announce" /\ ScanTypeOK /\ InHand /\ OpenWasPlaced
      /\ submitted' = submitted \cup {symbol} /\ announced' = Plus(announced, symbol)
      /\ step' = "decide" /\ symbol' = AnySymbol
      /\ UNCHANGED <<strategy, signals, held, working, placed, recorded, interrupted, scans>>
      /\ \A s \in Symbols : Books(s)
  BY DEF ScanInv, Announce, BackToSignals, Goto
<1>1. ScanTypeOK'
  BY <1>0, AnySymbolIsOne, PlusOne DEF ScanTypeOK
<1>2. ASSUME NEW s \in Symbols PROVE Books(s)'
  <2>1. announced'[s] = IF s = symbol THEN announced[s] + 1 ELSE announced[s]
    BY <1>0, PlusOne DEF ScanTypeOK
  <2>2. Books(s)
    BY <1>0
  <2>3. QED
    BY <1>0, <2>1, <2>2 DEF Books, AboutTo, InHand, ScanTypeOK
<1>3. (InHand /\ OpenWasPlaced /\ HeldWasInterrupted)'
  BY <1>0 DEF InHand, OpenWasPlaced, HeldWasInterrupted
<1>4. QED
  BY <1>1, <1>2, <1>3 DEF ScanInv

(* A fill: an open order of a symbol that was not submitted was interrupted. *)
LEMMA FillKeepsScan ==
  ASSUME ScanInv, NEW s \in Symbols, Fill(s)
  PROVE  ScanInv'
<1>0. /\ ScanTypeOK /\ InHand /\ OpenWasPlaced /\ HeldWasInterrupted
      /\ \A t \in Symbols : Books(t)
      /\ working[s] > 0 /\ working' = [working EXCEPT ![s] = @ - 1]
      /\ held' = held \cup {s}
      /\ UNCHANGED <<step, strategy, signals, symbol, submitted, placed, recorded,
                     interrupted, announced, scans>>
  BY DEF ScanInv, Fill, scanLocals
<1>1. ScanTypeOK'
  BY <1>0 DEF ScanTypeOK
<1>2. ASSUME NEW t \in Symbols PROVE Books(t)'
  BY <1>0 DEF Books, AboutTo
<1>3. InHand'
  BY <1>0 DEF InHand
<1>4. OpenWasPlaced'
  BY <1>0 DEF OpenWasPlaced, ScanTypeOK
<1>5. HeldWasInterrupted'
  <2> SUFFICES ASSUME step \in {"admit", "submit"}, symbol = s
               PROVE  interrupted[s] > 0
    BY <1>0 DEF HeldWasInterrupted
  <2>1. placed[s] > 0
    BY <1>0 DEF OpenWasPlaced, ScanTypeOK
  <2>2. Books(s) /\ s \notin submitted
    BY <1>0 DEF InHand
  <2>3. QED
    BY <1>0, <2>1, <2>2 DEF Books, AboutTo, ScanTypeOK
<1>6. QED
  BY <1>1, <1>2, <1>3, <1>4, <1>5 DEF ScanInv

LEMMA CloseKeepsScan == ScanInv /\ Close => ScanInv'
<1> SUFFICES ASSUME ScanInv, Close PROVE ScanInv'
  OBVIOUS
<1> USE NoneIsZero DEF ScanInv, Close, scanLocals
<1>1. ScanTypeOK'
  BY DEF ScanTypeOK
<1>2. ASSUME NEW s \in Symbols PROVE Books(s)'
  BY DEF Books, AboutTo
<1>3. (InHand /\ OpenWasPlaced /\ HeldWasInterrupted)'
  BY DEF InHand, OpenWasPlaced, HeldWasInterrupted
<1>4. QED
  BY <1>1, <1>2, <1>3

LEMMA RestKeepsScan == ScanInv /\ UNCHANGED scanVars => ScanInv'
  BY DEF scanVars, ScanInv, ScanTypeOK, Books, AboutTo, InHand, OpenWasPlaced,
         HeldWasInterrupted

(* The scan's own steps, and the steps of others on its state. *)
ScanStep ==
  \/ Begin \/ DetectRegime \/ FetchUniverse \/ GenerateSignals \/ NextStrategy \/ Decide
  \/ Admit \/ Raise \/ Submit \/ Record \/ Announce

LEMMA ScanStepKeepsScan == ScanInv /\ ScanStep => ScanInv'
<1> SUFFICES ASSUME ScanInv, ScanStep PROVE ScanInv'
  OBVIOUS
<1>0. ScanTypeOK
  BY DEF ScanInv
<1>1. CASE Begin
  BY <1>1, BeginKeepsScan
<1>2. ASSUME NEW where \in {"universe", "signals"}, GotoOrReturn(where),
             step \in {"regime", "universe"}, UNCHANGED <<held, working, scans>>
      PROVE  ScanInv'
  <2>1. CASE Goto(where) /\ UNCHANGED scanLocals
    BY <1>0, <1>2, <2>1, GotoKeepsScan DEF scanLocals, ScanTypeOK
  <2>2. CASE Return
    BY <1>0, <1>2, <2>2, ReturnKeepsScan DEF ScanTypeOK
  <2>3. QED
    BY <1>2, <2>1, <2>2 DEF GotoOrReturn
<1>3. CASE DetectRegime
  BY <1>2, <1>3 DEF DetectRegime
<1>4. CASE FetchUniverse
  BY <1>2, <1>4 DEF FetchUniverse
<1>5. CASE GenerateSignals
  BY <1>0, <1>5, GotoKeepsScan DEF GenerateSignals, ScanTypeOK
<1>6. CASE NextStrategy
  <2>1. CASE strategy < NumStrategies
    BY <1>0, <1>6, <2>1, ScanAssumption, GotoKeepsScan DEF NextStrategy, ScanTypeOK
  <2>2. CASE ~(strategy < NumStrategies)
    BY <1>0, <1>6, <2>2, ReturnKeepsScan DEF NextStrategy, ScanTypeOK
  <2>3. QED
    BY <2>1, <2>2
<1>7. CASE Decide
  BY <1>7, DecideKeepsScan
<1>8. CASE Admit
  BY <1>8, AdmitKeepsScan
<1>9. CASE Raise
  BY <1>0, <1>9, ReturnKeepsScan DEF Raise, ScanTypeOK
<1>10. CASE Submit
  BY <1>10, SubmitKeepsScan
<1>11. CASE Record
  BY <1>11, RecordKeepsScan
<1>12. CASE Announce
  BY <1>12, AnnounceKeepsScan
<1>13. QED
  BY <1>1, <1>3, <1>4, <1>5, <1>6, <1>7, <1>8, <1>9, <1>10, <1>11, <1>12 DEF ScanStep

LEMMA ScanInvImpliesOnlyErrors == ScanInv => OnlyErrorsRepeatOrders
<1> SUFFICES ASSUME ScanInv PROVE OnlyErrorsRepeatOrders
  OBVIOUS
<1> USE DEF ScanInv
<1>1. ASSUME NEW s \in Symbols PROVE ReorderedOnlyAfterErrors(s)
  <2>1. Books(s)
    OBVIOUS
  <2>2. placed[s] <= 1 + interrupted[s]
    BY <2>1 DEF Books, AboutTo, InHand, ScanTypeOK
  <2>3. QED
    BY <2>2 DEF ReorderedOnlyAfterErrors, HeldWasInterrupted
<1>2. ASSUME NEW s \in Symbols PROVE LedgerLacksOnlyErrors(s)
  <2>1. Books(s)
    OBVIOUS
  <2>2. QED
    BY <2>1 DEF Books, AboutTo, ScanTypeOK, LedgerLacksOnlyErrors
<1>3. QED
  BY <1>1, <1>2 DEF OnlyErrorsRepeatOrders

-----------------------------------------------------------------------------
(***************************************************************************)
(* The cost monitor.  A step of the throttle that is on its way was read   *)
(* when there were steps left, and no more breaches than that, and than    *)
(* were cut short, went without a pause; a reset in between takes those    *)
(* back too.                                                               *)
(***************************************************************************)
StepOnItsWay ==
  tca = "throttle" =>
    metrics.steps \in 0..(MaxThrottleSteps - 1) /\ unanswered <= metrics.steps + cuts

TcaInv == TcaTypeOK /\ unanswered <= throttle + cuts /\ StepOnItsWay

(* Faults only grow, and with them what a failed LTRIM may leave.           *)
FaultsGrow == faults \in Nat /\ faults' \in Nat /\ faults <= faults'

LEMMA MetricsKeepSteps == \A seq, n : Metrics(seq, n).steps = n
  BY DEF Metrics

LEMMA TcaInitInv == SwitchInit /\ TcaInit => TcaInv
  BY TcaAssumption DEF SwitchInit, TcaInit, TcaInv, TcaTypeOK, StepOnItsWay

LEMMA SumsOfNaturals == \A a, b \in Nat : 0 <= a + b
  OBVIOUS

LEMMA WindowsAreKept ==
  ASSUME NEW s \in Seq(FillKinds), NEW f \in FillKinds
  PROVE  /\ Append(s, f) \in Seq(FillKinds) /\ Len(Append(s, f)) = Len(s) + 1
         /\ Newest(s) \in Seq(FillKinds) /\ Len(Newest(s)) <= WindowSize
<1>1. Append(s, f) \in Seq(FillKinds) /\ Len(Append(s, f)) = Len(s) + 1
  OBVIOUS
<1>2. CASE Len(s) > WindowSize
  <2>a. Len(s) \in Nat
    OBVIOUS
  <2>b. WindowSize \in Nat /\ WindowSize >= 1
    BY TcaAssumption
  <2>c. PICK k \in Nat : k = Len(s)
    BY <2>a
  <2>d. k - WindowSize + 1 \in 1..k
    BY <1>2, <2>b, <2>c
  <2>1. PICK m \in 1..Len(s) : m = Len(s) - WindowSize + 1
    BY <2>c, <2>d
  <2>2. Newest(s) = SubSeq(s, m, Len(s))
    BY <1>2, <2>1 DEF Newest
  <2>3. QED
    BY <1>1, <2>1, <2>2, TcaAssumption
<1>3. CASE ~(Len(s) > WindowSize)
  <2>1. Newest(s) = SubSeq(s, 1, Len(s))
    BY <1>3 DEF Newest
  <2>2. QED
    BY <1>1, <1>3, <2>1, TcaAssumption
<1>4. QED
  BY <1>2, <1>3

(* An evaluation that ends, or is cut short, leaves nothing under way.       *)
LEMMA EndsKeepTheBalance ==
  ASSUME NEW breach \in BOOLEAN, unanswered \in Nat, cuts \in 0..MaxCuts, MaxCuts \in Nat,
         NEW n \in Nat, unanswered <= n + cuts
  PROVE  /\ CutShort(breach) => /\ tca' = "idle" /\ latency' = 0 /\ unanswered' \in Nat
                                /\ cuts' \in 0..MaxCuts /\ unanswered' <= n + cuts'
         /\ EndOf(breach) => /\ tca' = "idle" /\ latency' = 0 /\ unanswered' \in Nat
                             /\ cuts' \in 0..MaxCuts /\ unanswered' <= n + 1 + cuts'
                             /\ ~breach => unanswered' = 0
  BY DEF CutShort, EndOf

LEMMA RecordFillKeepsTca == TcaInv /\ FaultsGrow /\ RecordFill => TcaInv'
<1> SUFFICES ASSUME TcaInv, FaultsGrow, RecordFill PROVE TcaInv'
  OBVIOUS
<1>1. PICK f \in FillKinds : fills' = Newest(Append(fills, f))
  BY DEF RecordFill
<1>2. fills' \in Seq(FillKinds) /\ Len(fills') <= WindowSize
  BY <1>1, WindowsAreKept DEF TcaInv, TcaTypeOK
<1>3. fills' \in Seq(FillKinds) /\ Len(fills') <= WindowSize + faults'
  BY <1>2, TcaAssumption DEF FaultsGrow
<1>4. QED
  BY <1>3 DEF TcaInv, TcaTypeOK, StepOnItsWay, RecordFill

LEMMA RecordFailsKeepsTca == TcaInv /\ FaultsGrow /\ RecordFails => TcaInv'
<1> SUFFICES ASSUME TcaInv, FaultsGrow, RecordFails PROVE TcaInv'
  OBVIOUS
<1>1. PICK f \in FillKinds : fills' \in {fills, Append(fills, f), Newest(Append(fills, f))}
  BY DEF RecordFails
<1>2. fills' \in Seq(FillKinds) /\ Len(fills') <= WindowSize + faults'
  <2>1. fills \in Seq(FillKinds) /\ Len(fills) <= WindowSize + faults /\ faults' = faults + 1
    BY DEF TcaInv, TcaTypeOK, RecordFails, Fault
  <2>2. Len(fills) \in Nat
    BY <2>1
  <2>3. /\ Append(fills, f) \in Seq(FillKinds) /\ Len(Append(fills, f)) = Len(fills) + 1
        /\ Newest(Append(fills, f)) \in Seq(FillKinds)
        /\ Len(Newest(Append(fills, f))) <= WindowSize
    BY <2>1, WindowsAreKept
  <2>4. WindowSize \in Nat /\ faults \in Nat
    BY TcaAssumption DEF FaultsGrow
  <2>5. PICK k \in Nat : k = Len(fills)
    BY <2>2
  <2>6. CASE fills' = fills
    BY <2>1, <2>4, <2>5, <2>6
  <2>7. CASE fills' = Append(fills, f)
    BY <2>1, <2>3, <2>4, <2>5, <2>7
  <2>8. CASE fills' = Newest(Append(fills, f))
    <3>1. Len(fills') \in Nat /\ Len(fills') <= WindowSize
      BY <2>3, <2>8
    <3>2. PICK l \in Nat : l = Len(fills')
      BY <3>1
    <3>3. l <= WindowSize + faults'
      BY <2>1, <2>4, <3>1, <3>2
    <3>4. QED
      BY <2>3, <2>8, <3>2, <3>3
  <2>9. QED
    BY <1>1, <2>6, <2>7, <2>8
<1>3. PICK breach \in BOOLEAN : breach = Breach(Metrics(fills', throttle), 0) /\ CutShort(breach)
  BY DEF RecordFails, Breach
<1>4. /\ tca' = "idle" /\ latency' = 0 /\ unanswered' \in Nat
      /\ cuts' \in 0..MaxCuts /\ unanswered' <= throttle + cuts'
  BY <1>3, EndsKeepTheBalance, TcaAssumption DEF TcaInv, TcaTypeOK
<1>5. QED
  BY <1>2, <1>4 DEF TcaInv, TcaTypeOK, StepOnItsWay, RecordFails

LEMMA ReadMetricsKeepsTca == TcaInv /\ FaultsGrow /\ ReadMetrics => TcaInv'
<1> SUFFICES ASSUME TcaInv, FaultsGrow, ReadMetrics PROVE TcaInv'
  OBVIOUS
<1> DEFINE m == Metrics(fills, throttle)
<1>0. m.steps = throttle
  BY MetricsKeepSteps
<1> HIDE DEF m
<1>1. Len(fills) <= WindowSize + faults'
  BY TcaAssumption DEF TcaInv, TcaTypeOK, FaultsGrow
<1>2. CASE Throttles(m)
  <2>1. /\ tca' = "throttle" /\ metrics' = m
        /\ UNCHANGED <<latency, unanswered, cuts, fills, throttle, resets>>
    BY <1>2 DEF ReadMetrics, m
  <2>2. throttle \in 0..(MaxThrottleSteps - 1)
    BY <1>0, <1>2, TcaAssumption DEF Throttles, TcaInv, TcaTypeOK
  <2>3. QED
    BY <1>0, <1>1, <2>1, <2>2 DEF TcaInv, TcaTypeOK, StepOnItsWay
<1>3. CASE ~Throttles(m) /\ Breach(m, latency)
  <2>0. \/ Throttles(m)
        \/ tca' = "pause" /\ latency' = 0 /\ UNCHANGED <<unanswered, cuts>>
        \/ ~Breach(m, latency)
    BY DEF ReadMetrics, m
  <2>1. /\ tca' = "pause" /\ latency' = 0
        /\ UNCHANGED <<unanswered, cuts>> /\ UNCHANGED <<fills, throttle, resets>>
    BY <1>3, <2>0 DEF ReadMetrics
  <2>2. QED
    BY <1>1, <2>1 DEF TcaInv, TcaTypeOK, StepOnItsWay
<1>4. CASE ~Throttles(m) /\ ~Breach(m, latency)
  <2>1. EndOf(FALSE) /\ UNCHANGED <<fills, throttle, resets>>
    BY <1>4 DEF ReadMetrics, m
  <2>2. tca' = "idle" /\ latency' = 0 /\ unanswered' = 0 /\ cuts' \in 0..MaxCuts
    BY <2>1, TcaAssumption DEF EndOf, TcaInv, TcaTypeOK
  <2>a. throttle' = throttle /\ throttle \in 0..MaxThrottleSteps
    BY <2>1 DEF TcaInv, TcaTypeOK
  <2>b. throttle' \in Nat /\ cuts' \in Nat
    BY <2>2, <2>a, TcaAssumption
  <2>3. throttle' \in 0..MaxThrottleSteps
    BY <2>a
  <2>c. unanswered' <= throttle' + cuts'
    BY <2>2, <2>b, SumsOfNaturals
  <2>4. QED
    BY <1>1, <2>1, <2>2, <2>3, <2>c DEF TcaInv, TcaTypeOK, StepOnItsWay
<1>5. QED
  BY <1>2, <1>3, <1>4

LEMMA SetThrottleKeepsTca == TcaInv /\ FaultsGrow /\ SetThrottle => TcaInv'
<1> SUFFICES ASSUME TcaInv, FaultsGrow, SetThrottle PROVE TcaInv'
  OBVIOUS
<1>1. /\ throttle' = metrics.steps + 1
      /\ metrics.steps \in 0..(MaxThrottleSteps - 1) /\ unanswered <= metrics.steps + cuts
      /\ UNCHANGED <<fills, resets>>
  BY DEF SetThrottle, TcaInv, StepOnItsWay
<1>2. PICK breach \in BOOLEAN : breach = Breach(metrics, latency)
  BY DEF Breach
<1>3. \/ EndOf(breach)
      \/ tca' = "pause" /\ latency' = 0 /\ UNCHANGED <<unanswered, cuts>>
  BY <1>2 DEF SetThrottle, AfterStep
<1>4. /\ tca' \in {"pause", "idle"} /\ latency' = 0 /\ unanswered' \in Nat
      /\ cuts' \in 0..MaxCuts /\ unanswered' <= metrics.steps + 1 + cuts'
  <2>1. unanswered \in Nat /\ cuts \in 0..MaxCuts /\ metrics.steps \in Nat
    BY <1>1, TcaAssumption DEF TcaInv, TcaTypeOK
  <2>2. PICK n \in Nat : n = metrics.steps
    BY <2>1
  <2>3. CASE EndOf(breach)
    BY <1>1, <2>1, <2>2, <2>3, EndsKeepTheBalance, TcaAssumption
  <2>4. CASE tca' = "pause" /\ latency' = 0 /\ UNCHANGED <<unanswered, cuts>>
    BY <1>1, <2>1, <2>2, <2>4, TcaAssumption
  <2>5. QED
    BY <1>3, <2>3, <2>4
<1>5. fills' \in Seq(FillKinds) /\ Len(fills') <= WindowSize + faults'
  BY <1>1, TcaAssumption DEF TcaInv, TcaTypeOK, FaultsGrow
<1>6. throttle' \in 0..MaxThrottleSteps
  BY <1>1, TcaAssumption
<1>7. QED
  BY <1>1, <1>4, <1>5, <1>6 DEF TcaInv, TcaTypeOK, StepOnItsWay

LEMMA EvaluationFailsKeepsTca == TcaInv /\ FaultsGrow /\ EvaluationFails => TcaInv'
<1> SUFFICES ASSUME TcaInv, FaultsGrow, EvaluationFails PROVE TcaInv'
  OBVIOUS
<1>1. PICK n \in 0..MaxThrottleSteps : throttle' = n /\ unanswered <= n + cuts
  <2>1. CASE throttle' = throttle
    BY <2>1 DEF TcaInv, TcaTypeOK
  <2>2. CASE tca = "throttle" /\ throttle' = metrics.steps + 1
    <3>1. metrics.steps \in 0..(MaxThrottleSteps - 1) /\ unanswered <= metrics.steps + cuts
      BY <2>2 DEF TcaInv, StepOnItsWay
    <3>2. metrics.steps + 1 \in 0..MaxThrottleSteps /\ unanswered <= metrics.steps + 1 + cuts
      BY <3>1, TcaAssumption DEF TcaInv, TcaTypeOK
    <3>3. QED
      BY <2>2, <3>2
  <2>3. QED
    BY <2>1, <2>2 DEF EvaluationFails
<1>2. PICK breach \in BOOLEAN : breach = BreachAtHand /\ CutShort(breach)
  BY DEF EvaluationFails, BreachAtHand
<1>3. /\ tca' = "idle" /\ latency' = 0 /\ unanswered' \in Nat
      /\ cuts' \in 0..MaxCuts /\ unanswered' <= n + cuts'
  BY <1>1, <1>2, EndsKeepTheBalance, TcaAssumption DEF TcaInv, TcaTypeOK
<1>4. fills' \in Seq(FillKinds) /\ Len(fills') <= WindowSize + faults'
  BY TcaAssumption DEF TcaInv, TcaTypeOK, FaultsGrow, EvaluationFails
<1>5. QED
  BY <1>1, <1>3, <1>4 DEF TcaInv, TcaTypeOK, StepOnItsWay, EvaluationFails

(* What the steps do to the monitor's state; the rest leave it alone. *)
TcaPart ==
  \/ RecordFill \/ RecordFails \/ RecordLatency \/ ReadMetrics \/ SetThrottle
  \/ EvaluationFails \/ Pause \/ ResetThrottle \/ TcaCrash
  \/ UNCHANGED tcaVars

LEMMA TcaPartKeepsTca == TcaInv /\ FaultsGrow /\ TcaPart => TcaInv'
<1> SUFFICES ASSUME TcaInv, FaultsGrow, TcaPart PROVE TcaInv'
  OBVIOUS
<1>0. Len(fills) <= WindowSize + faults'
  BY TcaAssumption DEF TcaInv, TcaTypeOK, FaultsGrow
<1>a. ASSUME NEW breach \in BOOLEAN, CutShort(breach) \/ EndOf(FALSE),
             UNCHANGED <<fills, throttle, resets>>
      PROVE  TcaInv'
  <2>1. /\ tca' = "idle" /\ latency' = 0 /\ unanswered' \in Nat
        /\ cuts' \in 0..MaxCuts /\ unanswered' <= throttle + cuts'
    <3>1. unanswered \in Nat /\ cuts \in 0..MaxCuts /\ throttle \in Nat /\ unanswered <= throttle + cuts
      BY DEF TcaInv, TcaTypeOK
    <3>2. CASE CutShort(breach)
      BY <3>1, <3>2, EndsKeepTheBalance, TcaAssumption
    <3>3. CASE EndOf(FALSE)
      BY <3>1, <3>3, TcaAssumption DEF EndOf
    <3>4. QED
      BY <1>a, <3>2, <3>3
  <2>2. QED
    BY <1>0, <1>a, <2>1 DEF TcaInv, TcaTypeOK, StepOnItsWay
<1>1. CASE RecordFill \/ RecordFails
  BY <1>1, RecordFillKeepsTca, RecordFailsKeepsTca
<1>2. CASE RecordLatency
  BY <1>0, <1>2 DEF RecordLatency, TcaInv, TcaTypeOK, StepOnItsWay
<1>3. CASE ReadMetrics
  BY <1>3, ReadMetricsKeepsTca
<1>4. CASE SetThrottle \/ EvaluationFails
  BY <1>4, SetThrottleKeepsTca, EvaluationFailsKeepsTca
<1>5. CASE Pause
  BY <1>5, <1>a DEF Pause
<1>6. CASE ResetThrottle
  <2>1. fills' \in Seq(FillKinds) /\ Len(fills') <= WindowSize + faults'
    <3>1. CASE fills' = fills
      BY <1>0, <3>1 DEF TcaInv, TcaTypeOK
    <3>2. CASE fills' = <<>>
      <4>1. <<>> \in Seq(FillKinds) /\ Len(<<>>) = 0
        OBVIOUS
      <4>2. WindowSize \in Nat /\ faults' \in Nat
        BY TcaAssumption DEF FaultsGrow
      <4>3. 0 <= WindowSize + faults'
        BY <4>2, SumsOfNaturals
      <4>4. QED
        BY <3>2, <4>1, <4>3
    <3>3. QED
      BY <1>6, <3>1, <3>2 DEF ResetThrottle
  <2>2. resets' \in 0..MaxResets
    BY <1>6, TcaAssumption DEF ResetThrottle, TcaInv, TcaTypeOK
  <2>3. throttle' = 0 /\ unanswered' = 0 /\ cuts' = 0 /\ UNCHANGED <<tca, metrics, latency>>
    BY <1>6 DEF ResetThrottle
  <2>4. QED
    BY <2>1, <2>2, <2>3, TcaAssumption DEF TcaInv, TcaTypeOK, StepOnItsWay
<1>7. CASE TcaCrash
  <2>1. CASE tca = "idle"
    BY <1>0, <1>7, <2>1 DEF TcaCrash, CutShort, TcaInv, TcaTypeOK, StepOnItsWay
  <2>2. CASE tca # "idle"
    <3>1. PICK breach \in BOOLEAN : breach = BreachAtHand
      BY DEF BreachAtHand
    <3>2. CutShort(breach) /\ UNCHANGED <<fills, throttle, resets>>
      BY <1>7, <2>2, <3>1 DEF TcaCrash
    <3>3. QED
      BY <1>a, <3>2
  <2>3. QED
    BY <2>1, <2>2
<1>8. CASE UNCHANGED tcaVars
  BY <1>0, <1>8 DEF tcaVars, TcaInv, TcaTypeOK, StepOnItsWay
<1>9. QED
  BY <1>1, <1>2, <1>3, <1>4, <1>5, <1>6, <1>7, <1>8 DEF TcaPart

-----------------------------------------------------------------------------
(***************************************************************************)
(* The whole.  The trading state is typed; since it last was ACTIVE only   *)
(* one scan ordered, and if a scan is under way it is that one.            *)
(***************************************************************************)
OutsideInv ==
  /\ outside \subseteq 1..MaxScans
  /\ state = "active" => outside = {}
  /\ step # "idle" => scans >= 1 /\ outside \subseteq {scans}
  /\ \A m, n \in outside : m = n

IInv == SwitchTypeOK /\ ScanInv /\ TcaInv /\ OutsideInv

LEMMA InitIInv == Init => IInv
<1> SUFFICES ASSUME Init PROVE IInv
  OBVIOUS
<1>1. SwitchTypeOK
  BY BoundsAssumption DEF Init, SwitchInit, SwitchTypeOK, States
<1>2. ScanInv /\ TcaInv
  BY ScanInitInv, TcaInitInv DEF Init
<1>3. OutsideInv
  BY DEF Init, ScanInit, OutsideInv
<1>4. QED
  BY <1>1, <1>2, <1>3 DEF IInv

ScanPart ==
  ScanStep \/ (\E s \in Symbols : Fill(s)) \/ Close \/ ScanCrash \/ UNCHANGED scanVars

SwitchPart ==
  \/ UNCHANGED switchVars
  \/ OperatorChange
  \/ state' \in Protective \cup {state} /\ faults' = faults /\ UNCHANGED changes
  \/ state' \in Protective \cup {state} /\ Fault /\ UNCHANGED changes

(* What a step of the process does to each part. *)
LEMMA NextParts == Next => ScanPart /\ TcaPart /\ SwitchPart /\ KeepOutside
<1> SUFFICES ASSUME Next PROVE ScanPart /\ TcaPart /\ SwitchPart /\ KeepOutside
  OBVIOUS
<1> USE DEF ScanPart, TcaPart, SwitchPart
<1>1. CASE Operator
  BY <1>1 DEF Operator
<1>2. CASE Reset
  BY <1>2 DEF Reset, ResetThrottle, switchVars
<1>3. CASE \/ Scan(Begin) \/ Scan(DetectRegime) \/ Scan(FetchUniverse) \/ Scan(GenerateSignals)
           \/ Scan(NextStrategy) \/ Scan(Decide) \/ Scan(Admit) \/ Scan(Raise)
           \/ Scan(Submit) \/ Scan(Record) \/ Scan(Announce)
  <2>1. ScanStep /\ UNCHANGED tcaVars /\ KeepOutside
    BY <1>3 DEF Scan, ScanStep
  <2>2. SwitchPart
    BY <1>3 DEF Scan, switchVars, Begin, DetectRegime, FetchUniverse, GenerateSignals,
                NextStrategy, Decide, Consider, Admit, Raise, Submit, Record, Announce
  <2>3. QED
    BY <2>1, <2>2
<1>4. ASSUME NEW s \in Symbols, HandleFill(s)
      PROVE  ScanPart /\ TcaPart /\ SwitchPart /\ KeepOutside
  <2>1. ScanPart /\ TcaPart /\ KeepOutside
    BY <1>4 DEF HandleFill
  <2>2. SwitchPart
    BY <1>4 DEF HandleFill, RecordFill, RecordFails, switchVars
  <2>3. QED
    BY <2>1, <2>2
<1>5. CASE MarketClose
  BY <1>5 DEF MarketClose, Close, switchVars
<1>6. CASE Tca(RecordLatency) \/ Tca(ReadMetrics) \/ Tca(SetThrottle) \/ Tca(EvaluationFails)
           \/ Tca(Pause)
  <2>1. TcaPart /\ UNCHANGED scanVars /\ KeepOutside
    BY <1>6 DEF Tca
  <2>2. SwitchPart
    BY <1>6 DEF Tca, switchVars, RecordLatency, ReadMetrics, SetThrottle, EvaluationFails, Pause, Forced,
                ForceRefused, ForceRaises, Protective
  <2>3. QED
    BY <2>1, <2>2
<1>7. CASE \/ Guard(Freeze) \/ Guard(Thaw) \/ Guard(Ping) \/ Guard(ForceHalt)
           \/ Guard(Signal) \/ Guard(TakeSignal) \/ Guard(PauseIntake) \/ Guard(Drain)
           \/ Guard(Flush)
  <2>1. UNCHANGED <<scanVars, tcaVars>> /\ KeepOutside
    BY <1>7 DEF Guard
  <2>2. SwitchPart
    BY <1>7 DEF Guard, switchVars, Freeze, Thaw, Ping, ForceHalt, Signal, TakeSignal,
                PauseIntake, Drain, Flush, Forced, ForceRefused, ForceRaises, Protective
  <2>3. QED
    BY <2>1, <2>2
<1>8. CASE Restart
  BY <1>8 DEF Restart
<1>9. QED
  BY <1>1, <1>2, <1>3, <1>4, <1>5, <1>6, <1>7, <1>8 DEF Next

LEMMA ScanPartKeepsScan == ScanInv /\ ScanPart => ScanInv'
<1> SUFFICES ASSUME ScanInv, ScanPart PROVE ScanInv'
  OBVIOUS
<1>1. CASE ScanStep
  BY <1>1, ScanStepKeepsScan
<1>2. ASSUME NEW s \in Symbols, Fill(s) PROVE ScanInv'
  BY <1>2, FillKeepsScan
<1>3. CASE Close
  BY <1>3, CloseKeepsScan
<1>4. CASE ScanCrash
  BY <1>4, ReturnKeepsScan DEF ScanCrash, ScanInv, ScanTypeOK
<1>5. CASE UNCHANGED scanVars
  BY <1>5, RestKeepsScan
<1>6. QED
  BY <1>1, <1>2, <1>3, <1>4, <1>5 DEF ScanPart

LEMMA SwitchPartAddsFaults == SwitchTypeOK /\ SwitchPart => FaultsGrow
  BY BoundsAssumption DEF SwitchTypeOK, SwitchPart, switchVars, OperatorChange, Fault, FaultsGrow

LEMMA SwitchPartKeepsType == SwitchTypeOK /\ SwitchPart => SwitchTypeOK'
  BY BoundsAssumption
     DEF SwitchTypeOK, SwitchPart, switchVars, OperatorChange, Fault, States, Protective

(* Orders are placed by a scan under way, and a scan starts under ACTIVE. *)
Orders == \E s \in Symbols : placed'[s] > placed[s]

LEMMA ReturnOrdersNothing == ScanTypeOK /\ Return => ~Orders
  BY NoneIsZero DEF ScanTypeOK, Return, Orders

LEMMA ScanMoves ==
  ASSUME ScanTypeOK, ScanPart
  PROVE  /\ Orders => step # "idle"
         /\ step' # "idle" => \/ step # "idle" /\ scans' = scans
                              \/ state' = "active" /\ scans' >= 1
<1>1. CASE Begin
  BY <1>1 DEF Begin, Goto, scanLocals, switchVars, Orders, ScanTypeOK
<1>2. CASE DetectRegime \/ FetchUniverse
  <2>1. step # "idle" /\ scans' = scans /\ (UNCHANGED scanLocals \/ Return)
    BY <1>2 DEF DetectRegime, FetchUniverse, GotoOrReturn
  <2>2. QED
    BY <2>1
<1>3. CASE GenerateSignals \/ NextStrategy \/ Decide \/ Admit \/ Raise \/ Submit
           \/ Record \/ Announce
  <2>1. step # "idle" /\ scans' = scans
    BY <1>3 DEF GenerateSignals, NextStrategy, Decide, Consider, Admit, Raise, Submit,
                Record, Announce
  <2>2. QED
    BY <2>1
<1>4. ASSUME NEW s \in Symbols, Fill(s)
      PROVE  ~Orders /\ step' = step /\ scans' = scans
  BY <1>4 DEF Fill, scanLocals, Orders, ScanTypeOK
<1>5. CASE Close
  BY <1>5 DEF Close, scanLocals, Orders, ScanTypeOK
<1>6. CASE ScanCrash
  BY <1>6, ReturnOrdersNothing DEF ScanCrash, Return, Goto
<1>7. CASE UNCHANGED scanVars
  BY <1>7 DEF scanVars, Orders, ScanTypeOK
<1>8. QED
  BY <1>1, <1>2, <1>3, <1>4, <1>5, <1>6, <1>7 DEF ScanPart, ScanStep

LEMMA StepKeepsOutside ==
  ASSUME OutsideInv, ScanTypeOK, ScanTypeOK', ScanPart, KeepOutside
  PROVE  OutsideInv'
<1>1. /\ Orders => step # "idle"
      /\ step' # "idle" => \/ step # "idle" /\ scans' = scans
                           \/ state' = "active" /\ scans' >= 1
  BY ScanMoves
<1>2. CASE state' = "active"
  <2>1. outside' = {}
    BY <1>2 DEF KeepOutside
  <2>2. QED
    BY <1>1, <1>2, <2>1 DEF OutsideInv
<1>3. CASE state' # "active" /\ Orders
  <2>1. outside' = outside \cup {scans} /\ step # "idle"
    BY <1>1, <1>3 DEF KeepOutside, Orders
  <2>2. outside \subseteq {scans} /\ scans >= 1 /\ scans \in 0..MaxScans
    BY <2>1 DEF OutsideInv, ScanTypeOK
  <2>3. scans \in 1..MaxScans
    BY <2>2, ScanAssumption
  <2>4. outside' = {scans}
    BY <2>1, <2>2, Zenon
  <2>5. step' # "idle" => scans' = scans
    BY <1>1, <1>3
  <2>6. step' # "idle" => scans' >= 1 /\ outside' \subseteq {scans'}
    BY <2>2, <2>4, <2>5
  <2>7. outside' \subseteq 1..MaxScans /\ \A m, n \in outside' : m = n
    BY <2>3, <2>4
  <2>8. QED
    BY <1>3, <2>6, <2>7 DEF OutsideInv
<1>4. CASE state' # "active" /\ ~Orders
  <2>1. outside' = outside
    BY <1>4 DEF KeepOutside, Orders
  <2>2. QED
    BY <1>1, <1>4, <2>1 DEF OutsideInv
<1>5. QED
  BY <1>2, <1>3, <1>4

LEMMA NextIInv == IInv /\ [Next]_vars => IInv'
<1> SUFFICES ASSUME IInv, [Next]_vars PROVE IInv'
  OBVIOUS
<1>1. CASE Next
  <2>1. ScanPart /\ TcaPart /\ SwitchPart /\ KeepOutside
    BY <1>1, NextParts
  <2>2. ScanInv' /\ TcaInv' /\ SwitchTypeOK'
    BY <2>1, ScanPartKeepsScan, TcaPartKeepsTca, SwitchPartKeepsType, SwitchPartAddsFaults DEF IInv
  <2>3. OutsideInv'
    BY <2>1, <2>2, StepKeepsOutside DEF IInv, ScanInv
  <2>4. QED
    BY <2>2, <2>3 DEF IInv
<1>2. CASE UNCHANGED vars
  <2>1. ScanPart /\ TcaPart /\ SwitchPart /\ UNCHANGED <<switchVars, scanVars, outside>>
    BY <1>2 DEF vars, ScanPart, TcaPart, SwitchPart
  <2>2. ScanInv' /\ TcaInv' /\ SwitchTypeOK'
    BY <2>1, ScanPartKeepsScan, TcaPartKeepsTca, SwitchPartKeepsType, SwitchPartAddsFaults DEF IInv
  <2>3. OutsideInv'
    BY <2>1 DEF IInv, OutsideInv, switchVars, scanVars
  <2>4. QED
    BY <2>2, <2>3 DEF IInv
<1>3. QED
  BY <1>1, <1>2

LEMMA SpecIInv == Spec => []IInv
<1>1. QED
  BY InitIInv, NextIInv, PTL DEF Spec

(***************************************************************************)
(* Only errors repeat orders (_eod_scan): for any number of symbols and    *)
(* strategies, a symbol is ordered a second time in a scan, or ordered     *)
(* while it is held, only after an order for it ended in an error; and the *)
(* ledger lacks no other order.                                            *)
(***************************************************************************)
THEOREM ErrorsAloneRepeatOrders == Spec => []OnlyErrorsRepeatOrders
<1>1. IInv => OnlyErrorsRepeatOrders
  BY ScanInvImpliesOnlyErrors DEF IInv
<1>2. QED
  BY <1>1, SpecIInv, PTL

(***************************************************************************)
(* For any fills, window and number of steps, the cost monitor             *)
(* (TcaMonitor) leaves no more breaches in a row without a pause than the  *)
(* throttle took steps and than failing calls or ends of the process cut   *)
(* short, with or without its alert dispatcher.                            *)
(***************************************************************************)
THEOREM BreachesAreAnswered == Spec => []BreachIsPaused
<1>1. IInv => BreachIsPaused
  BY DEF IInv, TcaInv, BreachIsPaused
<1>2. QED
  BY <1>1, SpecIInv, PTL

(***************************************************************************)
(* Whoever takes the trading state from ACTIVE, and whenever, at most one  *)
(* scan places orders before an operator resumes (_eod_scan reads the      *)
(* state once).                                                            *)
(***************************************************************************)
THEOREM OneScanOrdersAfterAHalt == Spec => []OneScanOutlivesAHalt
<1>1. ASSUME IInv PROVE OneScanOutlivesAHalt
  <2>1. SwitchTypeOK /\ outside \subseteq 1..MaxScans /\ \A m, n \in outside : m = n
    BY <1>1 DEF IInv, OutsideInv
  <2>2. CASE outside = {}
    BY <2>1, <2>2, FS_EmptySet DEF OneScanOutlivesAHalt
  <2>3. CASE outside # {}
    <3>1. PICK n \in outside : outside = {n}
      BY <2>1, <2>3
    <3>2. Cardinality(outside) = 1
      BY <3>1, FS_Singleton
    <3>3. QED
      BY <2>1, <3>2 DEF OneScanOutlivesAHalt
  <2>4. QED
    BY <2>2, <2>3
<1>2. QED
  BY <1>1, SpecIInv, PTL
=============================================================================
