SPECIFICATION Spec
CONSTANTS
  Configs <- FieldLte
  BurstTicks = 4
  Period <- MCPeriod
  AudioSize = 1
  KeySize = 4
  DeltaSize = 2
  KeyframeInterval = 3
  MaxTime = 12
INVARIANT OnSchedule
\* stop_publishing ends the tasks, and the clock is bounded.
CHECK_DEADLOCK FALSE
