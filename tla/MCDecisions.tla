---------------------------- MODULE MCDecisions ----------------------------
(* The libraries that decide, size, slice, simulate and judge.  Nothing in   *)
(* the repository connects them, so a behaviour is about one of them: the    *)
(* topic is chosen at the start, and the others stay as they were.           *)
EXTENDS PreTrade, Regime, Slices, FencingTokens, Backtest, Validation, Universe,
        MarketData, CanaryProbe, CanaryGate, SloBudget, Performance, Drift

CONSTANTS a, b, c   \* symbols, stocks, tickers and strategies

VARIABLE topic

-----------------------------------------------------------------------------
(* PreTrade: one reading that passes every gate, and one step beyond each    *)
(* limit.                                                                    *)
MCSector == (a :> "tech") @@ (b :> "tech") @@ (c :> "bank")
MCGates == <<"SignalViability", "PortfolioRisk", "Liquidity", "TailRisk", "ExecutionReadiness">>
Good == [gain |-> 100, spread |-> 15, slippage |-> 5, adv |-> 1000, depth |-> 50000,
         corr |-> 699, es |-> 50, var |-> 30, avg_corr |-> 750, latency |-> 1500, fill_rate |-> 600]
MCReadings ==
  {Good, [Good EXCEPT !.avg_corr = 751], [Good EXCEPT !.gain = 60],
   [Good EXCEPT !.spread = 16], [Good EXCEPT !.adv = 100], [Good EXCEPT !.depth = 49999],
   [Good EXCEPT !.corr = 700], [Good EXCEPT !.es = 51], [Good EXCEPT !.var = 31],
   [Good EXCEPT !.latency = 1501], [Good EXCEPT !.fill_rate = 599],
   [Good EXCEPT !.slippage = 26, !.gain = 500]}

(* Regime: two scores without the optional dimensions, all four, little data *)
Market == [bars |-> 200, gap |-> 0, above |-> 10, vol |-> 220,
           total |-> Absent, rising |-> 0, spread |-> Absent, wide |-> 0]
MCMarkets ==
  {[Market EXCEPT !.gap = g, !.above = x, !.vol = v] :
     g \in {-100, 0, 100}, x \in {5, 15}, v \in {170, 220, 280}}
  \cup {[Market EXCEPT !.total = 20, !.rising = r, !.spread = s, !.wide = w, !.vol = v] :
     r \in {8, 11, 13}, s \in {8, 15}, w \in {0, 100, 250}, v \in {170, 280}}
  \cup {[Market EXCEPT !.bars = 199]}

(* Backtest: a calm day, a day that reaches a stop, a jump over a target.    *)
Bar(close, low) == [close |-> 10000 * close, low |-> 10000 * low]
MCBars == {Bar(10, 10), Bar(10, 8), Bar(50, 45)}

MCLabelLengths == {NoLabels, 0, 1, 3}

(* Universe: fundamentals at every limit and beyond it.                      *)
Fine == [cap |-> 2, volume |-> 500, spread |-> 15]
MCFundamentals ==
  {Fine, [Fine EXCEPT !.cap = 1], [Fine EXCEPT !.volume = 499], [Fine EXCEPT !.spread = 16]}

(* MarketData: frames around the limits of the checks.                       *)
Frame == [bars |-> 100, expected |-> 100, age |-> 0, gap |-> 0, spike |-> 1, iex |-> -1,
          inverted |-> FALSE, nonpositive |-> FALSE]
MCFrames ==
  {[Frame EXCEPT !.bars = n, !.age = d, !.gap = g] :
     n \in {0, 4, 5, 94, 95, 97, 98}, d \in {0, 6}, g \in {0, 151, 401}}
  \cup {[Frame EXCEPT !.spike = 11], [Frame EXCEPT !.inverted = TRUE],
        [Frame EXCEPT !.nonpositive = TRUE], [Frame EXCEPT !.iex = 699]}
(* Drift: too short a history, one window of it, and four windows.           *)
Uneven == <<-1, 1, -1, 1, 1, -1, 1, 1, -1, 1, 1>>
MCHistories ==
  {<<1, 1, -1, 1, -1, -1, -1, 1>>, Uneven, Uneven \o <<-1, 1, -1, 1, 1, 1>>}

MCMoves == {-90, 0, 90}

-----------------------------------------------------------------------------
Init ==
  /\ topic \in {"orders", "regime", "slices", "tokens", "backtest", "validation", "universe",
                "data", "probe", "gate", "budget", "performance", "drift"}
  /\ PreInit /\ (topic # "orders" => gateway = Gates)
  /\ RegimeInit /\ SliceInit /\ TokenInit /\ BacktestInit /\ ValidationInit
  /\ UniverseInit /\ DataInit /\ CanaryInit /\ GateInit /\ SloInit /\ PerformanceInit /\ DriftInit

Keep(t, vars) == topic # t => UNCHANGED vars
Only(t) ==
  /\ topic = t /\ UNCHANGED topic
  /\ Keep("orders", preVars) /\ Keep("regime", regimeVars) /\ Keep("slices", sliceVars)
  /\ Keep("tokens", tokenVars) /\ Keep("backtest", backtestVars)
  /\ Keep("validation", validationVars) /\ Keep("universe", universeVars)
  /\ Keep("data", dataVars) /\ Keep("probe", canaryVars) /\ Keep("gate", gateVars)
  /\ Keep("budget", sloVars) /\ Keep("performance", performanceVars)
  /\ Keep("drift", driftVars)

Next ==
  \/ Only("orders") /\ PreNext
  \/ Only("regime") /\ RegimeNext
  \/ Only("slices") /\ SliceNext
  \/ Only("tokens") /\ TokenNext
  \/ Only("backtest") /\ BacktestNext
  \/ Only("validation") /\ ValidationNext
  \/ Only("universe") /\ UniverseNext
  \/ Only("data") /\ DataNext
  \/ Only("probe") /\ CanaryNext
  \/ Only("gate") /\ GateNext
  \/ Only("budget") /\ SloNext
  \/ Only("performance") /\ PerformanceNext
  \/ Only("drift") /\ DriftNext
=============================================================================
