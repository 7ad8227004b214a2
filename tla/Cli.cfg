CONSTANTS
  Bots = {"b1", "b2"}
  Profiles = {"pristine", "field_lte"}
  Judgements <- Loose
  TsMod = 16
  Scenarios <- ScenarioFiles
  Snapshots <- SnapshotSet
  Observations <- ObservationSet
  MaxRuns = 2
  Subs = {"s1", "s2"}
  Creator = "s1"
  MaxPermits = 1
  SetupTimeout = 2
  ReadyCap = 3
  Poll = 1
  Duration = 2
  Margin = 3
  PubSlack = 1
  MaxTime = 13
  Total = 2
  Workers = 2
  UsizeMod = 64
  MaxShare = 1
  Grace = 2
  DistDuration = 2
  DistMargin = 2
  Second = 2
  BootBy = 1
  DistSlack = 1
  DistMaxTime = 8
SPECIFICATION CliSpec
INVARIANTS CliTypeOK SoleReader NoSilentDropout MediaStopped
INVARIANTS PermitsConserved EarlyTriggerMeansReady WindowCovered RowIsFinal
INVARIANTS MeshLasts WorkerWindowCovered HealthyMeansHeard
PROPERTIES Ratchet CommandEnds
\* The commands end.
CHECK_DEADLOCK FALSE
