------------------------------ MODULE Conference ------------------------------
(***************************************************************************)
(* One row of a conference measurement: run_one_conf of                    *)
(* crates/oxlab-cli/src/capacity.rs with run_conf_bot of                   *)
(* crates/oxlab-bot/src/cap.rs for every participant.                      *)
(*                                                                         *)
(* Everybody publishes and receives.  The creator opens the room, which    *)
(* the others find or not; a bot that has set up waits for the trigger,    *)
(* asks to publish and then sends for its own measured duration.  The      *)
(* runner is that of run_one, and so are the semaphore and the counters:   *)
(* the variables and the runner's actions are those of Capacity, in which  *)
(* a row has no publisher of its own here.                                 *)
(***************************************************************************)
EXTENDS Capacity

CONSTANTS
  Creator     (* the participant that opens the room                       *)

ASSUME ConferenceAssumption == Creator \in Subs

VARIABLES
  conf_room   (* the creator has opened the room                           *)

confVars == <<vars, conf_room>>

ConfStates == {"waiting", "setup", "wait", "asking", "sending", "busy", "done", "failed"}

\* The clock starts when the others are spawned, grace_room after the creator.
ConfInit ==
  /\ now = 0 /\ pub = "done" /\ pub_end = 0
  /\ timer = [s \in Subs |-> SetupTimeout]
  /\ active = 0 /\ seen_rtp = {}
  /\ runner = "ready" /\ alarm = 0 /\ trig = 0 /\ row = 0
  /\ \E st \in {"setup", "wait", "failed"} :
       /\ sub = [s \in Subs |-> IF s = Creator THEN st ELSE "waiting"]
       /\ permits = IF st = "setup" THEN MaxPermits - 1 ELSE MaxPermits
       /\ ready = IF st = "wait" THEN 1 ELSE 0
       /\ conf_room \in IF st = "wait" THEN {TRUE} ELSE BOOLEAN

-----------------------------------------------------------------------------
(***************************************************************************)
(* run_conf_bot.                                                           *)
(***************************************************************************)

OpenRoom ==
  /\ sub[Creator] = "setup" /\ ~conf_room
  /\ conf_room' = TRUE
  /\ UNCHANGED vars

\* Both peer connections are set up.
ConfSetupDone(s) ==
  /\ sub[s] = "setup" /\ conf_room
  /\ permits' = permits + 1
  /\ ready' = ready + 1
  /\ SubMoves(s, "wait")
  /\ OtherTasks /\ UNCHANGED <<now, timer, active, seen_rtp, conf_room>>

\* The receiver was cloned before the trigger was sent, so a bot that comes to
\* it late finds it.
ConfTriggered(s) ==
  /\ sub[s] = "wait" /\ Triggered
  /\ SubMoves(s, "asking")
  /\ timer' = [timer EXCEPT ![s] = now + PubSlack]
  /\ OtherTasks /\ UNCHANGED <<now, permits, ready, active, seen_rtp, conf_room>>

DeadlineFromRow(s) == alarm - 1                          \* mutant

DeadlineFrom(s) == now + Duration

ConfPublished(s) ==
  /\ sub[s] = "asking"
  /\ SubMoves(s, "sending")
  /\ timer' = [timer EXCEPT ![s] = DeadlineFrom(s)]
  /\ OtherTasks /\ UNCHANGED <<now, permits, ready, active, seen_rtp, conf_room>>

ConfRefused(s) ==
  /\ sub[s] = "asking"
  /\ SubMoves(s, "failed")
  /\ OtherTasks /\ UNCHANGED <<now, timer, permits, ready, active, seen_rtp, conf_room>>

\* RTP of another participant, perhaps its last; a recv error is passed over.
ConfReceive(s) ==
  /\ sub[s] = "sending" /\ s \notin seen_rtp
  /\ \E o \in Subs \ {s} : sub[o] \in {"sending", "busy", "done"}
  /\ seen_rtp' = seen_rtp \cup {s}
  /\ active' = active + 1
  /\ OtherTasks /\ UNCHANGED <<now, sub, timer, permits, ready, conf_room>>

\* Somebody else's publication is announced, and the answer to TRACKS_READY
\* awaited.
ConfTracksReady(s) ==
  /\ sub[s] = "sending"
  /\ \E o \in Subs \ {s} : sub[o] \in {"sending", "busy", "done"}
  /\ SubMoves(s, "busy")
  /\ OtherTasks /\ UNCHANGED <<now, timer, permits, ready, active, seen_rtp, conf_room>>

ConfAnswered(s) ==
  /\ sub[s] = "busy"
  /\ SubMoves(s, "sending")
  /\ OtherTasks /\ UNCHANGED <<now, timer, permits, ready, active, seen_rtp, conf_room>>

ConfDeadline(s) ==
  /\ sub[s] = "sending" /\ now >= timer[s]
  /\ SubMoves(s, "done")
  /\ OtherTasks /\ UNCHANGED <<now, timer, permits, ready, active, seen_rtp, conf_room>>

-----------------------------------------------------------------------------

ConfOnTime(s) == /\ sub[s] \in {"setup", "asking", "sending"} => now < timer[s]
                 /\ ~(sub[s] = "wait" /\ Triggered)

ConfAdvance ==
  /\ now < MaxTime
  /\ NobodyWaits /\ RunnerOnTime
  /\ \A s \in Subs : ConfOnTime(s)
  /\ now' = now + 1
  /\ UNCHANGED <<sub, timer, permits, ready, active, seen_rtp, pub, pub_end, runner, alarm,
                 trig, row, conf_room>>

ConfAcquires(s) == AcquirePermit(s) /\ UNCHANGED conf_room
ConfSetup(s) == ConfSetupDone(s) \/ (SetupFails(s) /\ UNCHANGED conf_room)
ConfAsked(s) == ConfTriggered(s) \/ ConfPublished(s) \/ ConfRefused(s)

ConfRunner == RunnerRuns /\ UNCHANGED conf_room

ConfNext ==
  \/ OpenRoom
  \/ \E s \in Subs :
       \/ ConfAcquires(s) \/ ConfSetup(s) \/ ConfAsked(s)
       \/ ConfReceive(s) \/ ConfTracksReady(s) \/ ConfAnswered(s) \/ ConfDeadline(s)
  \/ ConfRunner \/ ConfAdvance

ConfSpec == ConfInit /\ [][ConfNext]_confVars

-----------------------------------------------------------------------------

(***************************************************************************)
(* While the runner measures, nobody who was set up has stopped sending:   *)
(* each bot sends for the whole duration from its own publication, which   *)
(* is never before the trigger (run_conf_bot, run_one_conf).               *)
(***************************************************************************)
MeshLasts ==
  runner = "measure" /\ now < alarm => \A s \in Subs : sub[s] # "done"

=============================================================================
