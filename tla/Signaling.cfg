SPECIFICATION FairSpec
CONSTANT Settings <- Connections
INVARIANTS TypeOK ResponseIsOwn EventsAreAcked
PROPERTIES EventsInOrder RequestsReturn EventsAreReceived
\* A closed session has nothing left to do.
CHECK_DEADLOCK FALSE
