\* The defaults: interval a third of the lease, delays within the margin.
SPECIFICATION FairElection
CONSTANTS
  Nodes = {n1, n2}
  LeaseTicks = 9
  RenewTicks = 3
  MaxLag = 1
  DrainTicks = 2
  MaxFaults = 2
  MaxGeneration = 6
  MayStop = TRUE
INVARIANTS LeaderHoldsLock TermsFence
PROPERTY VacancyIsFilled
