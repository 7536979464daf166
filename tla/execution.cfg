\* Two orders of up to two attempts share a bucket of two requests.
SPECIFICATION FairSpec
CONSTANTS
  Callers = {o1, o2}
  MaxRequests = 2
  MinWait = 1
  Attempts = 2
  MaxFaults = 2
INVARIANTS BudgetIsKept CopiesOnlyOfLostReplies
PROPERTY SubmissionsSettle
