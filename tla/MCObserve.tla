------------------------------ MODULE MCObserve ------------------------------
EXTENDS Observe, TLC

CONSTANTS a, v, r

AllStreams == {a, v, r}
BothModes == {"ptt", "conference"}
Conference == {"conference"}

Relays(audio, video, raw) == (a :> audio) @@ (v :> video) @@ (r :> raw)

\* The network at its worst; an idle stream; two SSRCs; SRs and RRs; layer
\* switches.
LimitSet ==
  {[sent |-> Relays(0, 4, 0), time |-> 3, mishaps |-> 2, rtcp |-> 0, requests |-> 0,
    clock |-> {}],
   [sent |-> Relays(2, 2, 0), time |-> 7, mishaps |-> 0, rtcp |-> 0, requests |-> 0,
    clock |-> {}],
   [sent |-> Relays(1, 2, 1), time |-> 2, mishaps |-> 1, rtcp |-> 1, requests |-> 0,
    clock |-> {}],
   [sent |-> Relays(0, 0, 0), time |-> 3, mishaps |-> 1, rtcp |-> 3, requests |-> 0,
    clock |-> {2}],
   [sent |-> Relays(1, 2, 0), time |-> 2, mishaps |-> 1, rtcp |-> 0, requests |-> 2,
    clock |-> {}]}
SwitchLimits ==
  {[sent |-> Relays(1, 2, 0), time |-> 2, mishaps |-> 0, rtcp |-> 0, requests |-> 1,
    clock |-> {}]}
=============================================================================
