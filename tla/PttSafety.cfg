SPECIFICATION Spec
CONSTANTS
  alice = alice
  bob = bob
  NoBot = NoBot
  Bots <- Both
  Requesters <- OnlyAlice
  Limits <- TurnsAndMedia
INVARIANTS TypeOK ListenerViewIsPast ListenerFlagsAgree SubscriptionsConverge
INVARIANT ReadyAfterAnswer
PROPERTY ObservedInTurn
\* The requests are bounded and every bot may be gone.
CHECK_DEADLOCK FALSE
