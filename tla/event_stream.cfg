\* Two workers, two handlers tried twice, three messages, any two faults.
SPECIFICATION FairSpec
CONSTANTS
  Workers = {w1, w2}
  NumHandlers = 2
  MaxRetries = 2
  BatchSize = 2
  MaxMessages = 3
  Malformed = {2}
  MaxFaults = 2
INVARIANT NothingHalfDone
PROPERTIES HandledOnce EveryMessageSettles
