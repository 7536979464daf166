------------------------------ MODULE PreTrade ------------------------------
(* From a signal to an order: the checks of the portfolio, the size and the  *)
(* risk gates, for the signals of one scan whose orders fill at any later    *)
(* time.  Money is in dollars, fractions in thousandths, risk therefore in   *)
(* thousandths of a dollar, spreads and costs in basis points, quantities in *)
(* half shares (the tail-risk gate halves a quantity without rounding).      *)
EXTENDS Integers, Sequences, FiniteSetsExt, Functions

CONSTANTS
  Symbols, SectorOf,     \* symbols and the sector of each
  Equity,                \* portfolio value
  Prices, Stops,         \* last prices and stop distances of signals; 0: none
  StopFloor,             \* the stop of a signal that names none, in thousandths
  MaxPositions, MaxTradeRisk, PositionCap, MaxOpenRisk, MaxSector,  \* settings.risk
  Gates,                 \* the order of all gates
  Readings               \* what market data, TCA and the risk engine may say

(* What a gate reads of the market, the risk engine and the executions.       *)
MarketReadings ==
  [gain : Int, spread : Nat, slippage : Int, adv : Nat, depth : Nat, corr : Int,
   es : Int, var : Int, avg_corr : Int, latency : Nat, fill_rate : Nat]

GateNames ==
  {"SignalViability", "PortfolioRisk", "Liquidity", "TailRisk", "ExecutionReadiness"}

ASSUME PreTradeAssumption ==
  /\ IsFiniteSet(Symbols) /\ Equity \in Nat \ {0}
  /\ Prices \subseteq Nat \ {0} /\ Stops \subseteq Nat /\ StopFloor \in Nat
  /\ MaxPositions \in Nat /\ MaxTradeRisk \in Nat /\ PositionCap \in Nat
  /\ MaxOpenRisk \in Nat /\ MaxSector \in Nat \ {0}
  /\ Gates \in Seq(GateNames) /\ Range(Gates) = GateNames
  /\ Readings \subseteq MarketReadings

VARIABLES
  gateway, \* the gates of the process, in their order
  order,   \* symbol -> order of this scan: <<>> or what was sent
  held,    \* symbols whose order is filled: the positions
  booked,  \* symbol -> what the event of the fill told of the position, or <<>>
  blind    \* history: orders sized while the positions showed too little
preVars == <<gateway, order, held, booked, blind>>

NoOrder  == <<>>
Sent == {s \in Symbols : order[s] # NoOrder}
SumOver(S, f) == FoldFunctionOnSet(LAMBDA a, b : a + b, 0, f, S)
ShareOfEquity(money) == (1000 * money) \div Equity
InSector(S, sector) == {s \in S : SectorOf[s] = sector}

(* What the orders were sized to cost and to risk ...                        *)
Value(s) == (order[s].qty * order[s].price) \div 2
Risk(s)  == Value(s) * order[s].stop
SentRisk == SumOver(Sent, [s \in Sent |-> Risk(s)])
SentExposure(sector) ==
  LET T == InSector(Sent, sector) IN ShareOfEquity(SumOver(T, [s \in T |-> Value(s)]))

(* ... and what the positions show, with price and stop as the fills told.   *)
BookValue(s) == (booked[s].qty * booked[s].price) \div 2
BookRisk(s)  == BookValue(s) * booked[s].stop
OpenRisk == SumOver(held, [s \in held |-> BookRisk(s)])
Exposure(sector) ==
  LET T == InSector(held, sector) IN ShareOfEquity(SumOver(T, [s \in T |-> BookValue(s)]))

(* Every order is a position that shows at least what it was sized for.      *)
AllShown ==
  Sent = held /\ \A s \in held : BookValue(s) >= Value(s) /\ BookRisk(s) >= Risk(s)

-----------------------------------------------------------------------------
(* Sizes.  Both sizers look at the positions only, not at orders under way.  *)

(* signal.stop_distance_pct or the floor of the settings, half a percent at  *)
(* least; the default pipeline knows the half percent only.                  *)
HardFloor == 5
StopOf(stop) == Max({IF stop = 0 THEN StopFloor ELSE stop, HardFloor})
PipelineStop(stop) == Max({stop, HardFloor})
RemainingAtStart == Equity * MaxOpenRisk  \* mutant: positions are forgotten
Remaining == Equity * MaxOpenRisk - OpenRisk

Cap == (Equity * PositionCap) \div 1000
FixedFractional(stop) == Min({(Equity * MaxTradeRisk) \div stop, Cap})

(* calculate_position_size(): dollars at risk, position cap, risk budget *)
Shares(stop, price) ==
  IF Remaining <= 0 THEN 0
  ELSE Min({FixedFractional(stop), Remaining \div stop}) \div price

(* The steps of PositionSizingPipeline.default(); a reading of 0 is unknown. *)
(* The scale of a size in hundredths: the target volatility over the real one. *)
TargetVol == 150
VolScale(vol) == Min({Max({(100 * TargetVol) \div vol, 50}), 200})
VolScaled(size, vol) == IF vol = 0 THEN size ELSE (size * VolScale(vol)) \div 100
LiquidityCapped(size, adv) == IF adv = 0 THEN size ELSE Min({size, adv \div 20})
Budgeted(size, stop) ==
  IF Remaining <= 0 THEN 0 ELSE Min({size, Remaining \div stop})
PipelineSize(stop, vol, adv) ==
  Min({Budgeted(LiquidityCapped(VolScaled(FixedFractional(stop), vol), adv), stop), Cap})

-----------------------------------------------------------------------------
(* The gates: a reading r, the quantity q of the signal as it is forwarded.  *)

(* The expected return must cover one and a half times the round trip.       *)
NotViable(r) == r.gain <= 3 * (r.spread + r.slippage)

TooConcentrated(r) == r.sector >= MaxSector \/ r.corr >= 700 \/ r.weight >= PositionCap

TooThin(q, r) ==
  \/ r.spread > 15
  \/ r.adv > 0 /\ 25 * q > r.adv    \* more than 2 % of the daily volume
  \/ r.depth < 50000

NotReady(r) == r.latency > 1500 \/ r.slippage > 25 \/ r.fill_rate < 600

TailTooHeavy(r) == r.es > 50 \/ r.var > 30

Rejects(gate, q, r) ==
  CASE gate = "SignalViability"    -> NotViable(r)
    [] gate = "PortfolioRisk"      -> TooConcentrated(r)
    [] gate = "Liquidity"          -> TooThin(q, r)
    [] gate = "TailRisk"           -> TailTooHeavy(r)
    [] gate = "ExecutionReadiness" -> NotReady(r)

(* In a correlation crisis the tail-risk gate forwards half the quantity. *)
Modified(gate, q, r) == IF gate = "TailRisk" /\ r.avg_corr > 750 THEN q \div 2 ELSE q

(* admit_order(): the first rejection ends it, a modification is forwarded.  *)
Admitted(q, r) ==
  LET after[i \in 0..Len(gateway)] ==
        IF i = 0 THEN q
        ELSE IF after[i - 1] = 0 \/ Rejects(gateway[i], after[i - 1], r) THEN 0
        ELSE Modified(gateway[i], after[i - 1], r)
  IN after[Len(gateway)]

-----------------------------------------------------------------------------
(* build_phase1_gateway() wires three gates to stubs: spread, depth, volume, *)
(* execution, sector and correlation read as good, only the weight is real.  *)
Phase1Gates == <<"Liquidity", "PortfolioRisk", "ExecutionReadiness">>
Phase1Market == [spread |-> 5, adv |-> 500000, depth |-> 500000]
Phase1Portfolio(s) ==
  [sector |-> 0, corr |-> 0,
   weight |-> IF s \in held THEN ShareOfEquity(BookValue(s)) ELSE 0]
Phase1Metrics == [latency |-> 50, slippage |-> 1, fill_rate |-> 990]

(* All fields of two readings, those of the first if they share one. *)
And(r, more) ==
  [field \in DOMAIN r \cup DOMAIN more |->
     IF field \in DOMAIN r THEN r[field] ELSE more[field]]

ReadingsOf(s) ==
  IF gateway = Phase1Gates THEN {And(Phase1Portfolio(s), And(Phase1Market, Phase1Metrics))}
  ELSE {And([sector |-> Exposure(SectorOf[s]), weight |-> Phase1Portfolio(s).weight], r) :
          r \in Readings}

PreInit ==
  /\ gateway \in {Gates, Phase1Gates}
  /\ order = [s \in Symbols |-> NoOrder] /\ booked = [s \in Symbols |-> NoOrder]
  /\ held = {} /\ blind = 0

CanOpen(s) == s \notin held /\ Cardinality(held) < MaxPositions

(* One signal of the scan, from its checks to its order. *)
Consider(s) ==
  /\ order[s] = NoOrder /\ CanOpen(s)
  /\ \E price \in Prices, stop \in Stops, r \in ReadingsOf(s) :
       LET st == StopOf(stop)
           q  == 2 * Shares(st, price)
       IN /\ q > 0 /\ Admitted(q, r) > 0
          /\ order' = [order EXCEPT ![s] =
               [qty |-> Admitted(q, r), price |-> price, stop |-> st, on |-> r]]
  /\ blind' = IF AllShown THEN blind ELSE blind + 1
  /\ UNCHANGED <<gateway, held, booked>>

(* FillHandler and record_fill(), for an order filled as a whole: whole      *)
(* shares, at the price of the fill, with the stop of the event, which is 0  *)
(* where the event names none.                                               *)
OrderFills(s) ==
  /\ s \in Sent \ held /\ held' = held \cup {s}
  /\ \E price \in Prices, stop \in {0, order[s].stop} :
       booked' = [booked EXCEPT ![s] =
         [qty |-> 2 * (order[s].qty \div 2), price |-> price, stop |-> stop]]
  /\ UNCHANGED <<gateway, order, blind>>

PreNext == \E s \in Symbols : Consider(s) \/ OrderFills(s)
PreSpec == PreInit /\ [][PreNext]_preVars

-----------------------------------------------------------------------------
PreTypeOK ==
  /\ gateway \in {Gates, Phase1Gates}
  /\ held = {s \in Symbols : booked[s] # NoOrder} /\ held \subseteq Sent
  /\ blind \in Nat
  /\ \A s \in Sent : order[s].qty \in Nat \ {0} /\ order[s].stop >= HardFloor

(* The risk that was taken on stays within the budget, but for the orders    *)
(* sized while the positions showed too little: each adds at most the risk   *)
(* of one trade.  get_open_risk() counts filled positions only, at the stop  *)
(* of the fill's event, 0 if it names none.                                  *)
RiskStaysInBudget ==
  SentRisk <= Equity * (MaxOpenRisk + blind * MaxTradeRisk)

(* Where sectors are known, one passes its limit by less than one position,  *)
(* and the number of positions its own by none, and by one more for each     *)
(* order judged while the positions showed too little: both checks look at   *)
(* filled positions before the trade.                                        *)
ConcentrationIsLimited ==
  /\ gateway = Gates => \A s \in Symbols :
       SentExposure(SectorOf[s]) < MaxSector + (1 + blind) * PositionCap
  /\ Cardinality(Sent) <= MaxPositions + blind

(* What was sent, in its final quantity, passes every gate on the readings   *)
(* it was judged by, whatever the order of the gates and of their changes.   *)
SentOrdersPass ==
  \A s \in Sent : \A i \in DOMAIN gateway : ~Rejects(gateway[i], order[s].qty, order[s].on)

(* In every portfolio the default pipeline keeps position cap, share of the  *)
(* volume and risk budget after scaling, and, when neither volatility nor    *)
(* volume is known, sizes a signal that names its stop as                    *)
(* calculate_position_size(), which it refactors.  A signal without a stop   *)
(* is sized by other floors.                                                 *)
PipelineKeepsTheCaps ==
  Sent # {} =>
  \A x \in Stops, price \in Prices :
    LET stop == PipelineStop(x)
    IN /\ x # 0 => PipelineSize(stop, 0, 0) \div price = Shares(StopOf(x), price)
       /\ \A vol \in {75, 150, 400}, adv \in {0, 2000} :
            LET size == PipelineSize(stop, vol, adv)
            IN /\ size <= Cap /\ (adv > 0 => 20 * size <= adv)
               /\ size > 0 => size * stop <= Remaining

(* Together: every limit on risk, concentration, gates and sizes is kept. *)
LimitsAreKept ==
  PreTypeOK /\ RiskStaysInBudget /\ ConcentrationIsLimited /\ SentOrdersPass
  /\ PipelineKeepsTheCaps
=============================================================================
