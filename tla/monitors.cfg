\* Three reports of any severity; the default streak and any two faults.
SPECIFICATION MonitorsSpec
CONSTANTS
  r1 = r1
  r2 = r2
  r3 = r3
  Reports <- Three
  Threshold = 2
  Window = 2
  MaxDelay = 1
  MaxTime = 3
  MaxFailures = 3
  HasLedger = TRUE
  MaxFaults = 2
INVARIANTS
  ThrottleMatchesOpen SeverityIsNotUnderstated CascadesAreDetected FailoverBlocksOpens
PROPERTIES FailoverNeedsAStreak FailoverHappens
