SPECIFICATION Spec
CONSTANTS
  alice = alice
  bob = bob
  NoBot = NoBot
  Bots <- Both
  Requesters <- OnlyAlice
  Limits <- TwoTurns
INVARIANT FloorIdleMeansNobodyTalks
\* The requests are bounded and every bot may be gone.
CHECK_DEADLOCK FALSE
