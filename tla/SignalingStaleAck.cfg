SPECIFICATION Spec
CONSTANT Settings <- Rejecting
INVARIANT EveryResponseIsOwn
\* A closed session has nothing left to do.
CHECK_DEADLOCK FALSE
