CONSTANTS
  a = a
  v = v
  r = r
  Ssrcs <- AllStreams
  Audio = a
  Video = v
  RawVideo = r
  Modes <- BothModes
  FirstSeq = 65534
  Reorder = 1
  Gap = 2
  TsMod = 32
  TsStart = 28
  IdleGap = 4
  Delay = 1
  Limits <- LimitSet
SPECIFICATION Spec
INVARIANTS TypeOK NoLossHidden OvercountBounded FailHasCause FaultsAreSeen SwitchesObservedOnce
PROPERTY FailuresStick
CHECK_DEADLOCK FALSE
