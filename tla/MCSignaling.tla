----------------------------- MODULE MCSignaling ------------------------------
EXTENDS Signaling

Plain == [backpressure |-> FALSE, rejectsFloor |-> FALSE, refuses |-> TRUE,
          events |-> 3, calls |-> 4]

\* Refusals and cancelled ACKs; floor messages that the hub rejects.
Connections ==
  {Plain,
   [backpressure |-> TRUE, rejectsFloor |-> TRUE, refuses |-> TRUE, events |-> 2, calls |-> 4]}
Rejecting == {[Plain EXCEPT !.rejectsFloor = TRUE, !.refuses = FALSE, !.events = 0, !.calls = 6]}
=============================================================================
