\* An operator against an automated caller, from any key and with Redis restarts.
SPECIFICATION ApiSpec
CONSTANTS
  Handlers = {operator}
  Clients = {operator, watchdog}
  InitialKeys = {"active", "paused", "close_only", "halted", "absent", "corrupt"}
INVARIANTS WatchIsSound SuccessIsReal
