\* What models.py says of a REJECTED row.
SPECIFICATION FlowSpec
CONSTANTS
  Orders = {"b1"}
  Buys = {"b1"}
  MaxSeq = 0
  MaxFaults = 1
INVARIANT RejectedIsNotLive
