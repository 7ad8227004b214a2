SPECIFICATION Spec
CONSTANTS
  Configs <- ShortDelays
  BurstTicks = 4
  Period <- MCPeriod
  AudioSize = 2
  KeySize = 4
  DeltaSize = 3
  KeyframeInterval = 3
  MaxTime = 5
INVARIANTS TypeOK BandwidthBound WireBound StatsLedger KeyframeAfterPli OnSchedule
\* stop_publishing ends the tasks, and the clock is bounded.
CHECK_DEADLOCK FALSE
