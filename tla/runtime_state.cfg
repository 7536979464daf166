\* Steady state: the key exists and Redis stays up.
SPECIFICATION SteadySpec
CONSTANTS
  Clients = {c1, c2}
  InitialKeys = {"active", "paused", "close_only", "halted", "corrupt"}
PROPERTIES ResumesOnlyByOperator StoreIsAtomic
