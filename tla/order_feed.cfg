SPECIFICATION FeedSpec
CONSTANTS
  Orders <- One
  MaxSeq = 3
  FirstSeqs <- Starts
INVARIANT DeliveredIsApplied
PROPERTY ActsInOrder
