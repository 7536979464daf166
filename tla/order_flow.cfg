\* A buy and a sale, any two faults.
SPECIFICATION FlowFairSpec
CONSTANTS
  Orders = {"b1", "s1"}
  Buys = {"b1"}
  MaxSeq = 0
  MaxFaults = 2
INVARIANT LedgerIsTrue
PROPERTY PositionsConverge
