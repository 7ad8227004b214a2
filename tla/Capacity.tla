------------------------------- MODULE Capacity -------------------------------
(***************************************************************************)
(* One row of a capacity measurement: run_one of crates/oxlab-cli/src/     *)
(* capacity.rs with one run_publisher and N run_subscriber tasks of        *)
(* crates/oxlab-bot/src/cap.rs.                                            *)
(*                                                                         *)
(* The subscribers set up under a semaphore and a timeout and then receive *)
(* for a fixed run_window.  The runner polls the ready counter, triggers   *)
(* the publication once everyone is ready or ready_cap is over, sleeps the *)
(* measured duration and then waits for every task to end by itself.       *)
(*                                                                         *)
(* Time is a clock that no task whose timer is due lets pass.  How long    *)
(* the publisher takes from the trigger to its first packet depends on its *)
(* own setup, which has no timeout, and on the hub: PubSlack bounds it.    *)
(***************************************************************************)
EXTENDS Integers, FiniteSets

CONSTANTS
  Subs,          (* the subscribers                                        *)
  MaxPermits,    (* setups at a time: Semaphore::new(32)                   *)
  SetupTimeout,  (* ticks a setup may take: 15s                            *)
  ReadyCap,      (* ready_cap                                              *)
  Poll,          (* the runner's poll period: 200ms                        *)
  Duration, Margin,
  PubSlack,      (* ticks from the trigger to the publication, at most     *)
  MaxTime        (* bound on the clock                                     *)

ASSUME CapacityAssumption ==
  /\ IsFiniteSet(Subs)
  /\ MaxPermits \in Nat
  /\ SetupTimeout \in Nat
  /\ ReadyCap \in Nat
  /\ Poll \in Nat
  /\ Duration \in Nat
  /\ Margin \in Nat
  /\ PubSlack \in Nat
  /\ MaxTime \in Nat

VARIABLES
  now,
  sub,        (* per subscriber: where it is                               *)
  timer,      (* per subscriber: setup timeout, then receive deadline      *)
  permits,    (* free permits of setup_sem                                 *)
  ready,      (* the ready counter                                         *)
  active,     (* active_subs                                               *)
  seen_rtp,   (* the subscribers that have received                        *)
  pub,        (* the publisher: where it is                                *)
  pub_end,    (* its deadline                                              *)
  runner,     (* the runner: where it is                                   *)
  alarm,      (* when the runner's current sleep ends                      *)
  trig,       (* when the trigger was sent                                 *)
  row         (* active_subs as reported                                   *)

vars == <<now, sub, timer, permits, ready, active, seen_rtp, pub, pub_end, runner,
          alarm, trig, row>>

SubStates == {"waiting", "setup", "recv", "busy", "done", "failed"}
PubStates == {"setup", "wait", "asking", "publishing", "done", "failed"}
RunnerStates == {"ready", "measure", "join", "done"}

WithoutReadyCap == Duration + Margin                     \* mutant

run_window == ReadyCap + Duration + Margin

\* The clock starts when the subscribers are spawned, grace_room after the
\* publisher.
Init ==
  /\ now = 0
  /\ sub = [s \in Subs |-> "waiting"]
  /\ timer = [s \in Subs |-> 0]
  /\ permits = MaxPermits
  /\ ready = 0 /\ active = 0 /\ seen_rtp = {}
  /\ pub \in {"setup", "wait", "failed"}
  /\ pub_end = 0
  /\ runner = "ready" /\ alarm = 0
  /\ trig = 0
  /\ row = 0

Triggered == runner # "ready"

-----------------------------------------------------------------------------
(***************************************************************************)
(* run_subscriber.                                                         *)
(***************************************************************************)

SubMoves(s, to) == sub' = [sub EXCEPT ![s] = to]
OtherTasks == UNCHANGED <<pub, pub_end, runner, alarm, trig, row>>

ReadyBeforeSetup(s) ==                                   \* mutant
  /\ sub[s] = "waiting"
  /\ permits > 0
  /\ permits' = permits - 1
  /\ ready' = ready + 1
  /\ SubMoves(s, "setup")
  /\ timer' = [timer EXCEPT ![s] = now + SetupTimeout]
  /\ OtherTasks
  /\ UNCHANGED <<now, active, seen_rtp>>

AcquirePermit(s) ==
  /\ sub[s] = "waiting"
  /\ permits > 0
  /\ permits' = permits - 1
  /\ SubMoves(s, "setup")
  /\ timer' = [timer EXCEPT ![s] = now + SetupTimeout]
  /\ OtherTasks
  /\ UNCHANGED <<now, ready, active, seen_rtp>>

SetupDone(s) ==
  /\ sub[s] = "setup"
  /\ permits' = permits + 1
  /\ ready' = ready + 1
  /\ SubMoves(s, "recv")
  /\ timer' = [timer EXCEPT ![s] = now + run_window]
  /\ OtherTasks
  /\ UNCHANGED <<now, active, seen_rtp>>

PermitLeaked(s) ==                                       \* mutant
  /\ sub[s] = "setup"
  /\ SubMoves(s, "failed")
  /\ OtherTasks
  /\ UNCHANGED <<now, timer, permits, ready, active, seen_rtp>>

\* An error at any point of the setup, or its timeout; the permit is dropped.
SetupFails(s) ==
  /\ sub[s] = "setup"
  /\ permits' = permits + 1
  /\ SubMoves(s, "failed")
  /\ OtherTasks
  /\ UNCHANGED <<now, timer, ready, active, seen_rtp>>

\* An RTP packet of the publication, perhaps its last; a subscriber counts
\* itself once.
ReceiveRtp(s) ==
  /\ sub[s] = "recv"
  /\ pub \in {"publishing", "done"}
  /\ s \notin seen_rtp
  /\ seen_rtp' = seen_rtp \cup {s}
  /\ active' = active + 1
  /\ OtherTasks
  /\ UNCHANGED <<now, sub, timer, permits, ready>>

\* The pump finds a TRACKS_UPDATE and waits for the answer to TRACKS_READY,
\* away from every other branch of the select!.
SendTracksReady(s) ==
  /\ sub[s] = "recv"
  /\ pub \in {"publishing", "done"}
  /\ SubMoves(s, "busy")
  /\ OtherTasks
  /\ UNCHANGED <<now, timer, permits, ready, active, seen_rtp>>

TracksReadyAnswered(s) ==
  /\ sub[s] = "busy"
  /\ SubMoves(s, "recv")
  /\ OtherTasks
  /\ UNCHANGED <<now, timer, permits, ready, active, seen_rtp>>

SubDeadline(s) ==
  /\ sub[s] = "recv"
  /\ now >= timer[s]
  /\ SubMoves(s, "done")
  /\ OtherTasks
  /\ UNCHANGED <<now, timer, permits, ready, active, seen_rtp>>

RecvError(s) ==
  /\ sub[s] = "recv"
  /\ SubMoves(s, "failed")
  /\ OtherTasks
  /\ UNCHANGED <<now, timer, permits, ready, active, seen_rtp>>

-----------------------------------------------------------------------------
(***************************************************************************)
(* run_publisher.                                                          *)
(***************************************************************************)

OtherThanPub == UNCHANGED <<now, sub, timer, permits, ready, active, seen_rtp, runner,
                            alarm, trig, row>>

PubReady ==
  /\ pub = "setup"
  /\ pub' = "wait"
  /\ OtherThanPub /\ UNCHANGED pub_end

\* The watch keeps the trigger for a publisher that comes to it late.
PubTriggered ==
  /\ pub = "wait"
  /\ Triggered
  /\ pub' = "asking"
  /\ OtherThanPub /\ UNCHANGED pub_end

Published ==
  /\ pub = "asking"
  /\ pub' = "publishing"
  /\ pub_end' = now + Duration
  /\ OtherThanPub

PubFails ==
  /\ pub \in {"setup", "asking"}
  /\ pub' = "failed"
  /\ OtherThanPub /\ UNCHANGED pub_end

PubDeadline ==
  /\ pub = "publishing"
  /\ now >= pub_end
  /\ pub' = "done"
  /\ OtherThanPub /\ UNCHANGED pub_end

-----------------------------------------------------------------------------
(***************************************************************************)
(* run_one.                                                                *)
(***************************************************************************)

OtherThanRunner == UNCHANGED <<now, sub, timer, permits, ready, active, seen_rtp, pub,
                               pub_end>>

\* One round of the ready-sync loop: trigger, or sleep again.
ReadyPoll ==
  /\ runner = "ready"
  /\ now >= alarm
  /\ \/ /\ ready >= Cardinality(Subs) \/ now >= ReadyCap
        /\ runner' = "measure"
        /\ trig' = now
        /\ alarm' = now + Duration
     \/ /\ ready < Cardinality(Subs) /\ now < ReadyCap
        /\ alarm' = now + Poll
        /\ UNCHANGED <<runner, trig>>
  /\ OtherThanRunner /\ UNCHANGED row

Measured ==
  /\ runner = "measure"
  /\ now >= alarm
  /\ runner' = "join"
  /\ OtherThanRunner /\ UNCHANGED <<alarm, trig, row>>

AnySubEnded == \E s \in Subs : sub[s] \in {"done", "failed"}  \* mutant

SubsEnded == \A s \in Subs : sub[s] \in {"done", "failed"}
PubEnded == pub \in {"done", "failed"}

\* Every handle has been awaited: the counters are read.
Aggregate ==
  /\ runner = "join"
  /\ SubsEnded /\ PubEnded
  /\ runner' = "done"
  /\ row' = active
  /\ OtherThanRunner /\ UNCHANGED <<alarm, trig>>

-----------------------------------------------------------------------------

\* Whoever has a timer that is due keeps the clock from passing it, and a free
\* permit is taken at once.
NobodyWaits == permits > 0 => \A s \in Subs : sub[s] # "waiting"
SubOnTime(s) == sub[s] \in {"setup", "recv"} => now < timer[s]
PubOnTime ==
  /\ pub = "publishing" => now < pub_end
  /\ pub \in {"setup", "wait", "asking"} /\ Triggered => now < trig + PubSlack
RunnerOnTime == runner \in {"ready", "measure"} => now < alarm

Advance ==
  /\ now < MaxTime
  /\ NobodyWaits
  /\ \A s \in Subs : SubOnTime(s)
  /\ PubOnTime
  /\ RunnerOnTime
  /\ now' = now + 1
  /\ UNCHANGED <<sub, timer, permits, ready, active, seen_rtp, pub, pub_end, runner,
                 alarm, trig, row>>

Setup(s) == SetupDone(s) \/ SetupFails(s)
PubRuns == PubReady \/ PubFails \/ PubTriggered \/ Published \/ PubDeadline
RunnerRuns == ReadyPoll \/ Measured \/ Aggregate

Next ==
  \/ \E s \in Subs :
       \/ AcquirePermit(s) \/ SetupDone(s) \/ SetupFails(s)
       \/ ReceiveRtp(s) \/ SendTracksReady(s) \/ TracksReadyAnswered(s)
       \/ SubDeadline(s) \/ RecvError(s)
  \/ PubReady \/ PubTriggered \/ Published \/ PubFails \/ PubDeadline
  \/ ReadyPoll \/ Measured \/ Aggregate
  \/ Advance

Spec == Init /\ [][Next]_vars

-----------------------------------------------------------------------------

TypeOK ==
  /\ now \in Nat
  /\ sub \in [Subs -> SubStates]
  /\ timer \in [Subs -> Nat]
  /\ permits \in Nat
  /\ ready \in Nat
  /\ active \in Nat
  /\ seen_rtp \subseteq Subs
  /\ pub \in PubStates
  /\ pub_end \in Nat
  /\ runner \in RunnerStates
  /\ alarm \in Nat
  /\ trig \in Nat
  /\ row \in Nat

(***************************************************************************)
(* No permit is lost or made, whatever way a setup ends: at most the       *)
(* semaphore's number of subscribers set up at a time (no DTLS storm).     *)
(***************************************************************************)
SettingUp == {s \in Subs : sub[s] = "setup"}
PermitsConserved == permits + Cardinality(SettingUp) = MaxPermits

(***************************************************************************)
(* A trigger sent before ready_cap is over is sent to a room in which      *)
(* every subscriber has set up (the ready-sync loop of run_one).           *)
(***************************************************************************)
EarlyTriggerMeansReady ==
  Triggered /\ trig < ReadyCap => \A s \in Subs : sub[s] \notin {"waiting", "setup"}

(***************************************************************************)
(* run_window covers the whole publication: no subscriber's deadline ends  *)
(* its reception while the publisher still sends (cap.rs, run_one).        *)
(***************************************************************************)
WindowCovered == pub = "publishing" => \A s \in Subs : sub[s] # "done"

\* The counters are read when nothing can change them any more.
RowIsFinal == runner = "done" => row = active

=============================================================================
