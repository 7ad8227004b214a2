------------------------------ MODULE MCPttFloor ------------------------------
EXTENDS PttFloor

CONSTANTS alice, bob

Both == {alice, bob}
OnlyAlice == {alice}

Bound(r, f, x) == [requests |-> r, flight |-> f, refusals |-> x]

\* Two turns, announced; one turn, whose TRACKS_READY may be refused; two turns,
\* or one with its RTP and refusals.
TwoTurns == {Bound(2, 0, FALSE)}
OneTurnRefused == {Bound(1, 0, TRUE)}
TurnsAndMedia == {Bound(2, 0, FALSE), Bound(1, 1, TRUE)}
=============================================================================
