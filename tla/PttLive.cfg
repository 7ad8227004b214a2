SPECIFICATION FairSpec
CONSTANTS
  alice = alice
  bob = bob
  NoBot = NoBot
  Bots <- Both
  Requesters <- OnlyAlice
  Limits <- OneTurnRefused
PROPERTIES ListenersCatchUp KillsAreReported
\* The requests are bounded and every bot may be gone.
CHECK_DEADLOCK FALSE
