---------------------------- MODULE Performance ----------------------------
(* Fills matched into realised profit, oldest purchase first within a symbol *)
(* (PerformanceTracker), and the strategies paused by their drawdown         *)
(* (StrategyDrawdownTracker), told the profit after each sale.  Marks and    *)
(* pauses are in memory only: this is one run of the process, and the next   *)
(* one begins without them.                                                  *)
EXTENDS Integers, Sequences, FiniteSetsExt, Functions

CONSTANTS
  Strategies, Names,
  FillPrices, Quantities,  \* of fills
  Limit,               \* the drawdown that pauses, in money
  MaxFills, MaxResumes \* bounds

ASSUME PerformanceAssumption ==
  /\ IsFiniteSet(Strategies) /\ IsFiniteSet(Names)
  /\ FillPrices \subseteq Nat /\ Quantities \subseteq Nat \ {0} /\ Limit \in Nat \ {0}
  /\ MaxFills \in Nat /\ MaxResumes \in Nat

VARIABLES
  lots,     \* open purchases of each symbol, oldest first: qty, price
  pnl,      \* realised profit by the strategy that sold
  hwm,      \* _hwm: strategies told of, with their highest profit
  paused,   \* _paused
  bought,   \* history: purchases of each symbol
  sold,     \* history: quantity matched and money got for it, by symbol
  resumed,  \* history: strategies resumed since they were last updated
  fills, resumes
performanceVars == <<lots, pnl, hwm, paused, bought, sold, resumed, fills, resumes>>

AddUp(S, f) == FoldFunctionOnSet(LAMBDA x, y : x + y, 0, f, S)
QtyOf(s) == [i \in DOMAIN s |-> s[i].qty]
SharesIn(s) == AddUp(DOMAIN s, QtyOf(s))
Cost(s) == AddUp(DOMAIN s, [i \in DOMAIN s |-> s[i].qty * s[i].price])

(* The matching of a sale: how much of each purchase it closes, in their     *)
(* order, what it earns, and what is left once the purchases that are closed *)
(* entirely have gone from the front.                                        *)
Closed(s, qty) ==
  [i \in DOMAIN s |-> Max({0, Min({s[i].qty, qty - AddUp(1..(i - 1), QtyOf(s))})})]

Earned(s, closed, price) ==
  AddUp(DOMAIN s, [i \in DOMAIN s |-> closed[i] * (price - s[i].price)])

Left(s, closed) ==
  LET cut  == [i \in DOMAIN s |-> [qty |-> s[i].qty - closed[i], price |-> s[i].price]]
      open == {i \in DOMAIN s : closed[i] < s[i].qty}
  IN IF open = {} THEN <<>> ELSE SubSeq(cut, Min(open), Len(s))

-----------------------------------------------------------------------------
PerformanceInit ==
  /\ lots = [s \in Names |-> <<>>] /\ pnl = [k \in Strategies |-> 0]
  /\ hwm = <<>> /\ paused = {} /\ resumed = {}
  /\ bought = [s \in Names |-> <<>>] /\ sold = [s \in Names |-> [qty |-> 0, money |-> 0]]
  /\ fills = 0 /\ resumes = 0

Buy(s, qty, price) ==
  /\ fills < MaxFills /\ fills' = fills + 1
  /\ lots' = [lots EXCEPT ![s] = Append(@, [qty |-> qty, price |-> price])]
  /\ bought' = [bought EXCEPT ![s] = Append(@, [qty |-> qty, price |-> price])]
  /\ UNCHANGED <<pnl, hwm, paused, sold, resumed, resumes>>

(* update(): the first profit it is told is the first high-water mark.       *)
PeakOf(k, profit) == IF k \in DOMAIN hwm THEN Max({hwm[k], profit}) ELSE profit

Marked(k, profit, peak) ==
  /\ hwm' = [j \in DOMAIN hwm \cup {k} |-> IF j = k THEN peak ELSE hwm[j]]
  /\ paused' = IF peak - profit >= Limit THEN paused \cup {k} ELSE paused
  /\ resumed' = resumed \ {k}

UpdateFromZero(k, profit) ==  \* mutant: the mark is forgotten with the pause
  Marked(k, profit, IF k \in paused THEN profit ELSE PeakOf(k, profit))
Update(k, profit) == Marked(k, profit, PeakOf(k, profit))

(* A sale of more than is open is cut to it, one of nothing open is ignored. *)
Sell(k, s, qty, price) ==
  LET closed == Closed(lots[s], qty)
      n      == Min({qty, SharesIn(lots[s])})
  IN /\ fills < MaxFills /\ fills' = fills + 1
     /\ lots' = [lots EXCEPT ![s] = Left(@, closed)]
     /\ pnl' = [pnl EXCEPT ![k] = @ + Earned(lots[s], closed, price)]
     /\ sold' = [sold EXCEPT ![s] = [qty |-> @.qty + n, money |-> @.money + n * price]]
     /\ Update(k, pnl'[k])
     /\ UNCHANGED <<bought, resumes>>

Resume(k) ==
  /\ resumes < MaxResumes /\ resumes' = resumes + 1
  /\ paused' = paused \ {k} /\ resumed' = resumed \cup {k}
  /\ UNCHANGED <<lots, pnl, hwm, bought, sold, fills>>

PerformanceNext ==
  \/ \E s \in Names, qty \in Quantities, price \in FillPrices :
       Buy(s, qty, price) \/ \E k \in Strategies : Sell(k, s, qty, price)
  \/ \E k \in Strategies : Resume(k)

PerformanceSpec == PerformanceInit /\ [][PerformanceNext]_performanceVars

-----------------------------------------------------------------------------
PerformanceTypeOK ==
  /\ \A s \in Names : \A i \in DOMAIN lots[s] : lots[s][i].qty > 0
  /\ paused \subseteq Strategies /\ DOMAIN hwm \subseteq Strategies
  /\ \A k \in DOMAIN hwm : hwm[k] >= pnl[k]

(* All profit is matched to purchases once, oldest first: over all           *)
(* strategies it is the money of the sales less the cost of what was sold,   *)
(* and what is open are the newest shares bought.                            *)
ProfitIsMatchedOnce ==
  /\ AddUp(Strategies, pnl)
       = AddUp(Names, [s \in Names |-> sold[s].money - Cost(bought[s]) + Cost(lots[s])])
  /\ \A s \in Names :
       /\ SharesIn(lots[s]) = SharesIn(bought[s]) - sold[s].qty
       /\ \A i \in DOMAIN lots[s] :
            i > 1 => lots[s][i] = bought[s][Len(bought[s]) - Len(lots[s]) + i]

(* A strategy that is far below its best is paused, from the update that     *)
(* finds it so until it is resumed; and to be resumed is no pardon: the next *)
(* update pauses it again unless the loss was made good.                     *)
FarBelowIsPaused ==
  \A k \in DOMAIN hwm : hwm[k] - pnl[k] >= Limit /\ k \notin resumed => k \in paused

(* The mark never comes down, and only a resume ends a pause.                *)
OnlyResumeEndsAPause ==
  [][/\ \A k \in DOMAIN hwm : k \in DOMAIN hwm' /\ hwm'[k] >= hwm[k]
     /\ \A k \in paused \ paused' : resumes' = resumes + 1]_performanceVars

(* Profit is counted once, and a strategy far below its best stays paused.   *)
LosersStayPaused ==
  [](PerformanceTypeOK /\ ProfitIsMatchedOnce /\ FarBelowIsPaused) /\ OnlyResumeEndsAPause
=============================================================================
