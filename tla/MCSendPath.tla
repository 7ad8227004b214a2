------------------------------ MODULE MCSendPath ------------------------------
(* A tick is 10ms: the intervals are 2 and 3 ticks. *)
EXTENDS SendPath

MCPeriod == [t \in Tasks |-> IF t = "audio" THEN 2 ELSE 3]

Throttled == [loss |-> 0,   delay |-> 1, jitter |-> 0, rate |-> 1]
Lossy     == [loss |-> 50,  delay |-> 0, jitter |-> 1, rate |-> 2]
Blackout  == [loss |-> 100, delay |-> 0, jitter |-> 0, rate |-> 0]
LongDelay == [loss |-> 0,   delay |-> 5, jitter |-> 3, rate |-> 0]

\* Every delay is shorter than an interval.
ShortDelays == {Pristine, Throttled, Lossy, Blackout}

\* field_lte: 50ms of delay and 30ms of jitter.
FieldLte == {Pristine, LongDelay}
=============================================================================
