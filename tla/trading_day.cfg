\* One symbol, two strategies, two days, a fault anywhere, one change by an operator;
\* two kinds of fills, two of which are needed to act, a window of two.
SPECIFICATION FairSpec
CONSTANTS
  MaxChanges = 1
  MaxFaults = 1
  Symbols = {"AAPL"}
  NumStrategies = 2
  MaxPositions = 1
  MaxScans = 2
  FillKinds <- GoodAndBadFills
  Latencies = {3000}
  WindowSize = 2
  MinFills = 2
  MaxThrottleSteps = 1
  HasDispatcher = TRUE
  MaxResets = 1
  MaxCuts = 2
  MaxQueue = 1
INVARIANTS OnlyErrorsRepeatOrders BreachIsPaused OneScanOutlivesAHalt
PROPERTY GuardsDoTheirWork
