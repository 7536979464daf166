\* The libraries of decisions, each on its own.  Amounts are small enough for
\* every cap, limit and threshold to be met and to be passed.
INIT Init
NEXT Next
CONSTANTS
  a = a
  b = b
  c = c
  Symbols = {a, b, c}
  SectorOf <- MCSector
  Equity = 1000
  Prices = {10, 30}
  Stops = {0, 3}
  StopFloor = 30
  MaxPositions = 2
  MaxTradeRisk = 10
  PositionCap = 300
  MaxOpenRisk = 15
  MaxSector = 400
  Gates <- MCGates
  Readings <- MCReadings
  Markets <- MCMarkets
  MinDays = 3
  HysteresisBuffer = 50
  Totals = {1, 2, 5, 7, 8, 10, 13}
  Volumes = {0, 20, 30, 70}
  NumSlices = 4
  Window = 5
  Opens = {14, 60, 64, 90}
  Incidents = {a, b}
  Severities = {"emergency", "critical"}
  Validities = {1, 4}
  MaxRenewal = 2
  MaxTotal = 4
  MaxTokens = 3
  MaxTime = 4
  MaxKeys = 2
  Stocks = {a, b}
  Days = 3
  Bars <- MCBars
  InitialCapital = 800000
  RiskPerTrade = 50
  MaxOpenPositions = 2
  StopDistances = {50}
  Ttl = 2
  Adv = 20000000
  BarVolume = 300
  HalfSpread = 3
  MaxTrades = 6
  NumBars = 11
  NumSplits = 4
  TestSplits = 2
  Embargoes = {0, 1, 2}
  LabelLengths <- MCLabelLengths
  TrainSizes = {2, 4}
  TestSizes = {2, 3}
  Tickers = {a, b}
  Blacklist = {b}
  Fundamentals <- MCFundamentals
  EventDays = {0, 1, 4}
  LastDay = 4
  Splits = {333, 500, 800, 1250, 2000, 3000}
  Dividends = {3, 50, 125}
  Moves <- MCMoves
  Frames <- MCFrames
  Dates = 5
  MaxPeriods = 2
  ClosePrices = {100, 121, 140}
  MaxProbes = 3
  MaxCrashes = 1
  TradingDays = {9, 10, 24, 25, 44, 45}
  Sharpes = {500, 501}
  Drawdowns = {79, 80}
  MaxMismatches = 1
  Allowed = {50, 20, 1}
  Capacity = 4
  Hours = 7
  MaxEvents = 5
  Strategies = {a, b}
  Names = {c}
  FillPrices = {7, 10, 12}
  Quantities = {1, 3}
  Limit = 8
  MaxFills = 4
  MaxResumes = 1
  LiveWindow = 11
  AlertZ = 5
  CriticalZ = 7
  Histories <- MCHistories
INVARIANTS
  LimitsAreKept
  BooksAreHonest
  NothingLeaks
  DataIsJudgedRight
  ProbesTellTheTruth
  AlertsAreNews
  FlaggedIsNotTraded
  GateIsStrict
PROPERTIES
  RegimeIsSound
  SlicingIsSound
  AuthorityEnds
  AlertsTellOutages
  LosersStayPaused
\* Each library stops when its bound is reached or its order, plan or run is done.
CHECK_DEADLOCK FALSE
