------------------------------ MODULE Backtest ------------------------------
(* BacktestEngine.run(): day by day exits, entries and the equity curve, and *)
(* the closing of what is left at the end, with the fills of FillSimulator   *)
(* and the costs of CostModel.  Money in hundredths of a cent, rounded down; *)
(* costs and prices are the engine's, so rounding touches both sides alike.  *)
(* The volumes are the same for all days: the engine reads them off the      *)
(* whole series (fills) and off the day's bar (exits).                       *)
EXTENDS Integers, FiniteSetsExt, Functions

CONSTANTS
  Stocks, Days,       \* symbols and number of trading days
  Bars,               \* closes and lows a day may bring
  InitialCapital, RiskPerTrade, MaxOpenPositions,  \* risk in thousandths
  StopDistances, Ttl, \* of signals: thousandths of the price, days
  Adv, BarVolume,     \* average daily volume in dollars, shares of a bar
  HalfSpread,         \* in basis points
  MaxTrades           \* bound: trades of a run

ASSUME BacktestAssumption ==
  /\ IsFiniteSet(Stocks) /\ Days \in Nat \ {0}
  /\ \A b \in Bars : b.close \in Nat \ {0} /\ b.low \in 1..b.close
  /\ InitialCapital \in Nat /\ RiskPerTrade \in Nat
  /\ MaxOpenPositions \in Nat \ {0} /\ Ttl \in Nat \ {0}
  /\ StopDistances \subseteq 1..999
  /\ Adv \in Nat /\ Adv >= 200 /\ BarVolume \in Nat \ {0} /\ HalfSpread \in Nat

VARIABLES
  day,    \* index of current_date; Days + 1 when the dates are through
  phase,  \* what is next: "bars", "exits", "entries", "closing", "done"
  quotes,    \* stock -> the bar of the day; NoBar when it has none
  todo,   \* stocks of the phase that are still to be looked at
  cash,
  open,   \* stock -> position; NoPosition
  trades, \* completed trades: their number, and pnl_net and cost_usd summed
  equity  \* last value of the equity curve
backtestVars == <<day, phase, quotes, todo, cash, open, trades, equity>>

NoBar == [close |-> 0, low |-> 0]
NoPosition == [qty |-> 0, entry |-> 0, stop |-> 0, target |-> 0, held |-> 0, cost |-> 0]
Held == {s \in Stocks : open[s].qty > 0}
Total(S, f(_)) == FoldFunctionOnSet(LAMBDA x, y : x + y, 0, [s \in S |-> f(s)], S)

-----------------------------------------------------------------------------
(* Costs and fills *)

Bps(x, bps) == (x \div 10000) * bps
(* Market impact by the share of the average daily volume.                   *)
ImpactBps(notional) ==
  LET share == notional \div (Adv \div 200)  \* in steps of half a percent
  IN CASE share = 0 -> 3 [] share = 1 -> 5 [] share \in {2, 3} -> 8 [] OTHER -> 13
(* Fees of a sale: to the SEC on the notional, to FINRA on the shares.       *)
Fees(side, notional, shares) ==
  IF side = "buy" THEN 0
  ELSE ((notional \div 10000) * 278) \div 1000 + Min({(166 * shares) \div 100, 83000})
OneWayCost(side, notional, shares) ==
  Fees(side, notional, shares) + Bps(notional, HalfSpread + ImpactBps(notional))
(* apply_fill_price(): the same spread and impact, in the price.             *)
FillPrice(side, price, notional) ==
  LET worse == Bps(price, HalfSpread + ImpactBps(notional))
  IN IF side = "buy" THEN price + worse ELSE price - worse

(* simulate_fill(): quantities an order of qty may be filled with: nothing,  *)
(* all up to the limit, or by chance half of the limit or more.              *)
Fills(qty, price) ==
  LET limit == Min({Max({1, (Adv \div price) \div 50}), Max({1, BarVolume \div 100})})
  IN {0} \cup (IF qty <= limit THEN {qty}
               ELSE {Max({1, f}) : f \in (limit \div 2)..limit})

-----------------------------------------------------------------------------
BacktestInit ==
  /\ day = 1 /\ phase = "bars" /\ todo = {}
  /\ quotes = [s \in Stocks |-> NoBar] /\ open = [s \in Stocks |-> NoPosition]
  /\ cash = InitialCapital /\ equity = InitialCapital
  /\ trades = [n |-> 0, pnl |-> 0, cost |-> 0]

Worth == cash + Total(Held, LAMBDA s : open[s].qty * quotes[s].close)

NextDay ==
  /\ phase = "bars" /\ day <= Days
  /\ quotes' \in [Stocks -> Bars \cup {NoBar}]
  /\ \E s \in Stocks : quotes'[s] # NoBar
  /\ phase' = "exits" /\ todo' = Held
  /\ UNCHANGED <<day, cash, open, trades, equity>>

Trade(pnl, cost) == [n |-> trades.n + 1, pnl |-> trades.pnl + pnl, cost |-> trades.cost + cost]

(* The price a position leaves at on this bar, with one day more held; 0:    *)
(* it stays.                                                                 *)
ExitPrice(p, b, held) ==
  IF b.low <= p.stop THEN p.stop
  ELSE IF b.close >= p.target THEN p.target
  ELSE IF held >= Ttl THEN b.close ELSE 0

RestChargedAgain(p, left, held) ==  \* mutant: the rest keeps the entry's cost
  IF left = 0 THEN NoPosition ELSE [p EXCEPT !.qty = left, !.held = held]
Rest(p, left, held) ==
  IF left = 0 THEN NoPosition ELSE [p EXCEPT !.qty = left, !.held = held, !.cost = 0]

(* A position without a bar today is left alone.  A sale books a trade and   *)
(* its cost on the full quantity, even if only a part or nothing is filled.  *)
CheckExit(s) ==
  /\ phase = "exits" /\ s \in todo /\ trades.n < MaxTrades
  /\ todo' = todo \ {s}
  /\ LET p == open[s]
         held == p.held + 1
         nominal == ExitPrice(p, quotes[s], held)
         price == FillPrice("sell", nominal, nominal * p.qty)
         cost  == OneWayCost("sell", nominal * p.qty, p.qty)
     IN IF quotes[s] = NoBar THEN UNCHANGED <<cash, open, trades>>
        ELSE IF nominal = 0
        THEN open' = [open EXCEPT ![s].held = held] /\ UNCHANGED <<cash, trades>>
        ELSE \E sold \in Fills(p.qty, nominal) :
          /\ cash' = cash + sold * price - cost
          /\ trades' = Trade((price - p.entry) * sold - p.cost - cost, p.cost + cost)
          /\ open' = [open EXCEPT ![s] = Rest(p, p.qty - sold, held)]
  /\ UNCHANGED <<day, phase, quotes, equity>>

(* The strategies see the bars up to today; which stocks they propose is     *)
(* theirs to say.                                                            *)
EntriesBegin ==
  /\ phase = "exits" /\ todo = {} /\ phase' = "entries"
  /\ todo' \in SUBSET (IF Cardinality(Held) < MaxOpenPositions THEN Stocks \ Held ELSE {})
  /\ UNCHANGED <<day, quotes, cash, open, trades, equity>>

(* Size by risk, capped by an equal share of the equity, at least a share.   *)
Quantity(price, distance) ==
  LET dollar == 10000
      risked == ((Worth \div 1000) * RiskPerTrade)
                   \div Max({(price \div 1000) * distance, dollar})
      share  == Worth \div MaxOpenPositions
  IN IF Max({risked, 1}) * price > share THEN Max({share \div Max({price, dollar}), 1})
     ELSE Max({risked, 1})

Affordable(notional) == notional <= cash

Enter(s) ==
  /\ phase = "entries" /\ s \in todo
  /\ todo' = todo \ {s}
  /\ \E distance \in StopDistances :
       LET close == quotes[s].close
           qty   == Quantity(close, distance)
           price == FillPrice("buy", close, qty * close)
       IN IF quotes[s] = NoBar \/ Cardinality(Held) >= MaxOpenPositions \/ ~Affordable(qty * close)
          THEN UNCHANGED <<cash, open>>
          ELSE \E bought \in Fills(qty, price) :
            LET cost == OneWayCost("buy", bought * price, bought)
            IN /\ cash' = cash - bought * price - cost
               /\ open' = IF bought = 0 THEN open ELSE [open EXCEPT ![s] =
                    [qty |-> bought, entry |-> price, cost |-> cost, held |-> 0,
                     stop |-> price - (price \div 1000) * distance,
                     target |-> price + (price \div 1000) * 2 * distance]]
  /\ UNCHANGED <<day, phase, quotes, trades, equity>>

DayEnds ==
  /\ phase = "entries" /\ todo = {}
  /\ equity' = Worth /\ day' = day + 1
  /\ phase' = IF day < Days THEN "bars" ELSE "closing"
  /\ todo' = IF day < Days THEN {} ELSE Held
  /\ UNCHANGED <<quotes, cash, open, trades>>

(* At the end positions are sold at the last close, all at once and at that  *)
(* price; one without a bar on the last day is left out.                     *)
CloseOut(s) ==
  /\ phase = "closing" /\ s \in todo
  /\ todo' = todo \ {s}
  /\ LET p == open[s]
         notional == quotes[s].close * p.qty
         cost == OneWayCost("sell", notional, p.qty)
     IN IF quotes[s] = NoBar THEN UNCHANGED <<cash, open, trades>>
        ELSE /\ cash' = cash + notional - cost
             /\ trades' = Trade(notional - p.entry * p.qty - p.cost - cost, p.cost + cost)
             /\ open' = [open EXCEPT ![s] = NoPosition]
  /\ UNCHANGED <<day, phase, quotes, equity>>

Report ==
  /\ phase = "closing" /\ todo = {} /\ phase' = "done"
  /\ UNCHANGED <<day, quotes, todo, cash, open, trades, equity>>

BacktestNext ==
  \/ NextDay \/ EntriesBegin \/ DayEnds \/ Report
  \/ \E s \in Stocks : CheckExit(s) \/ Enter(s) \/ CloseOut(s)

BacktestSpec == BacktestInit /\ [][BacktestNext]_backtestVars

-----------------------------------------------------------------------------
BacktestTypeOK ==
  /\ day \in 1..(Days + 1) /\ todo \subseteq Stocks
  /\ phase \in {"bars", "exits", "entries", "closing", "done"}
  /\ \A s \in Stocks : open[s].qty \in Nat /\ open[s].cost \in Nat /\ open[s].held \in 0..Days

(* The books balance: cash is the initial capital with the net result of all *)
(* trades, less what open positions have cost, whatever was filled in parts  *)
(* or not at all; so every cost is charged to exactly one trade.             *)
BooksBalance ==
  cash = InitialCapital + trades.pnl
           - Total(Held, LAMBDA s : open[s].qty * open[s].entry + open[s].cost)

(* Nothing is bought on credit: cash falls below zero by no more than costs, *)
(* which count twice, in the price of a fill and as an amount of their own   *)
(* (affordable is what the notional leaves room for, without them); and at   *)
(* most MaxOpenPositions are open.                                           *)
NothingOnCredit ==
  /\ Cardinality(Held) <= MaxOpenPositions
  /\ cash + 2 * (trades.cost + Total(Held, LAMBDA s : open[s].cost)) >= 0

(* The reported capital is the last point of the equity curve less the costs *)
(* of closing; a position without a bar on the last day is worth nothing in  *)
(* both.                                                                     *)
ReportedIsEarned ==
  phase = "done" =>
    /\ cash <= equity
    /\ Held = {} => cash - InitialCapital = trades.pnl
    /\ cash + trades.cost >= equity

(* What a backtest reports is what its trades earned, on its own money. *)
BooksAreHonest == BacktestTypeOK /\ BooksBalance /\ NothingOnCredit /\ ReportedIsEarned
=============================================================================
