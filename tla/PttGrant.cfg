SPECIFICATION Spec
CONSTANTS
  alice = alice
  bob = bob
  NoBot = NoBot
  Bots <- Both
  Requesters <- Both
  Limits <- TwoTurns
INVARIANT GrantIsOwn
\* The requests are bounded and every bot may be gone.
CHECK_DEADLOCK FALSE
