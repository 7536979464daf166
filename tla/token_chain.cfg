\* Tokens and their renewals alone: one incident, a renewal of two units and a
\* longest life of four.
SPECIFICATION TokenSpec
CONSTANTS
  Incidents = {"incident"}
  Severities = {"emergency", "critical"}
  Validities = {1, 4}
  MaxRenewal = 2
  MaxTotal = 4
  MaxTokens = 3
  MaxTime = 5
  MaxKeys = 2
INVARIANT ChainsEndAtTheCap
CHECK_DEADLOCK FALSE
