------------------------------- MODULE Scenario -------------------------------
(***************************************************************************)
(* The scenario engine: crates/oxlab-scenario/src/engine.rs with the model *)
(* of a scenario file in model.rs and cmd_scenario of the CLI.             *)
(*                                                                         *)
(* A process runs the actions of the scenario one after the other over the *)
(* bots (BotLife), collects what they measured and observed, disconnects   *)
(* them, judges the run (Checkpoints, Judge) and, when it passed, rewrites *)
(* the baseline file, which the next process reads.  It may crash between  *)
(* any two of its awaits and writes.                                       *)
(*                                                                         *)
(* External: whether the hub and the SFU answer, what the bots measured,   *)
(* and whether the file system lets the baseline be written.  Heartbeats   *)
(* and process_events during the waits change nothing here (Signaling,     *)
(* PttFloor), and neither does the time they take.                         *)
(***************************************************************************)
EXTENDS BotLife, Judge, Checkpoints, FiniteSetsExt

CONSTANTS
  Scenarios,    (* the scenario files to consider                          *)
  Snapshots,    (* the receive metrics a bot may end with                  *)
  Observations, (* the Layer 1 records a bot may end with                  *)
  MaxRuns       (* bound: processes started                                *)

ActionTypes == {"all_join", "start_media", "ptt_request", "ptt_release", "ptt_alternate",
                "network_transition", "kill_bot", "wait"}

\* "none" is an optional field that is missing.
Actions == [at : Nat, type : ActionTypes, actor : STRING, actors : Seq(STRING),
            profile : STRING, count : Nat]

\* A file without participants, for which no bot is called, is left aside.
ASSUME ScenarioAssumption ==
  /\ MaxRuns \in Nat
  /\ \A sc \in Scenarios :
       /\ sc.participants \in Seq(Bots) /\ Len(sc.participants) > 0
       /\ \A i, j \in DOMAIN sc.participants : i # j => sc.participants[i] # sc.participants[j]
       /\ Bots = {sc.participants[i] : i \in DOMAIN sc.participants}
       /\ sc.actions \in Seq(Actions)

VARIABLES
  scenario,   (* the scenario file                                         *)
  runs,       (* processes started                                         *)
  phase,      (* where the process is: off when there is none              *)
  pc,         (* the action being executed                                 *)
  cursor,     (* the bot or the turn the action is at                      *)
  step,       (* where the action is with that bot or turn                 *)
  room,       (* all_join's room_id is known                               *)
  errors,     (* the errors of the result are not empty                    *)
  measured,   (* recv_snapshots                                            *)
  report,     (* Layer 1, Layer 2 and overall verdict                      *)
  basis,      (* the baseline the run was judged against                   *)
  file,       (* the baseline file: whether it can be read, and its content*)
  exit        (* the exit code of the last process, -1 without one         *)

engineVars == <<scenario, runs, phase, pc, cursor, step, room, errors, measured, report,
                basis, file, exit>>
scenarioVars == <<botVars, engineVars>>

Phases == {"off", "act", "disconnect", "judge", "save", "write", "exit"}
Unreadable == [readable |-> FALSE, entries |-> <<>>]
NoReport == [layer1 |-> "none", layer2 |-> "none", overall |-> "none"]

ScenarioInit ==
  /\ NoBots
  /\ scenario \in Scenarios
  /\ runs = 0 /\ phase = "off" /\ pc = 1 /\ cursor = 1 /\ step = "enter" /\ room = FALSE
  /\ errors = FALSE /\ measured = <<>> /\ report = NoReport
  /\ basis = Unreadable /\ file = Unreadable /\ exit = -1

-----------------------------------------------------------------------------
(***************************************************************************)
(* The process begins and ends.                                            *)
(***************************************************************************)

\* The actions in the order of at_sec, a stable sort: as many are before an action
\* in the timeline as are to be executed before it.
Before(actions, i, j) == \/ actions[i].at < actions[j].at
                         \/ actions[i].at = actions[j].at /\ i < j
Earlier(actions, i) == {j \in DOMAIN actions : Before(actions, j, i)}

Timeline(actions) ==
  [k \in DOMAIN actions |->
     actions[CHOOSE i \in DOMAIN actions : Cardinality(Earlier(actions, i)) = k - 1]]

FirstAction ==
  /\ pc' = 1 /\ cursor' = 1 /\ step' = "enter" /\ room' = FALSE
  /\ errors' = FALSE /\ measured' = <<>> /\ report' = NoReport /\ basis' = Unreadable

LaunchScenario ==
  /\ phase = "off" /\ runs < MaxRuns
  /\ runs' = runs + 1
  /\ CreateBots(scenario.profile)
  /\ phase' = "act" /\ FirstAction
  /\ exit' = -1
  /\ UNCHANGED <<scenario, file>>

\* Scenario::load fails: cmd_scenario exits with 2.
LoadFails ==
  /\ phase = "off" /\ runs < MaxRuns
  /\ runs' = runs + 1 /\ exit' = 2
  /\ UNCHANGED <<botVars, scenario, phase, pc, cursor, step, room, errors, measured, report,
                 basis, file>>

\* What is in memory is gone with the process; nothing of it was read after.
ProcessEnds(code) ==
  /\ phase' = "off" /\ exit' = code
  /\ CreateBots([b \in Bots |-> "pristine"]) /\ FirstAction
  /\ UNCHANGED <<scenario, runs, file>>

Crash == phase # "off" /\ ProcessEnds(-1)

-----------------------------------------------------------------------------
(***************************************************************************)
(* The actions.                                                            *)
(***************************************************************************)

BotCount == Len(scenario.participants)
Acting(type) ==
  /\ phase = "act" /\ pc <= Len(scenario.actions)
  /\ Timeline(scenario.actions)[pc].type = type
Action == Timeline(scenario.actions)[pc]
ThisBot == scenario.participants[cursor]

ActionDone == pc' = pc + 1 /\ cursor' = 1 /\ step' = "enter"

NextOf(count) ==
  IF cursor < count THEN cursor' = cursor + 1 /\ step' = "enter" /\ UNCHANGED pc
                    ELSE ActionDone

AtStep(s) == step' = s /\ UNCHANGED <<pc, cursor>>

restVars == <<scenario, runs, phase, measured, report, basis, file, exit>>

\* all_join: the first participant creates the room.  It may fail, and so may
\* the others, which have no room to join without it.
AllJoin ==
  /\ Acting("all_join")
  /\ \/ /\ cursor = 1 \/ room
        /\ Join(ThisBot)
        /\ room' = TRUE /\ UNCHANGED errors
     \/ /\ errors' = TRUE
        /\ room' = (cursor > 1 /\ room)
        /\ UNCHANGED botVars
  /\ NextOf(BotCount) /\ UNCHANGED restVars

\* start_media: the bots that are not joined are skipped.
StartMediaSkips ==
  /\ Acting("start_media") /\ step = "enter"
  /\ status[ThisBot] # "joined"
  /\ NextOf(BotCount) /\ UNCHANGED <<botVars, room, errors, restVars>>

StartMediaBegins ==
  /\ Acting("start_media") /\ step = "enter"
  /\ BeginSetup(ThisBot)
  /\ AtStep("setup") /\ UNCHANGED <<room, errors, restVars>>

StartMediaGoesOn ==
  /\ Acting("start_media") /\ step = "setup"
  /\ MediaStep(ThisBot)
  /\ AtStep(IF status'[ThisBot] = "media_ready" THEN "intent" ELSE "setup")
  /\ UNCHANGED <<room, errors, restVars>>

FailsQuietly(b) == MediaFails(b) /\ UNCHANGED errors     \* mutant

SetupError(b) == MediaFails(b) /\ errors' = TRUE

StartMediaFails ==
  /\ Acting("start_media") /\ step = "setup"
  /\ SetupError(ThisBot)
  /\ NextOf(BotCount) /\ UNCHANGED <<room, restVars>>

\* publish_intent and start_publishing.
PublishIntent ==
  /\ Acting("start_media") /\ step = "intent"
  /\ \/ StartPublishing(ThisBot) /\ UNCHANGED errors
     \/ errors' = TRUE /\ UNCHANGED botVars
  /\ NextOf(BotCount) /\ UNCHANGED <<room, restVars>>

\* ptt_request and ptt_release: an error when the actor is missing, when its
\* session is none or closed, or when the call fails; none for an unknown one.
PttCall ==
  /\ \/ Acting("ptt_request") \/ Acting("ptt_release")
  /\ \/ errors' = TRUE /\ Action.actor \in Bots \cup {"none"}
     \/ /\ UNCHANGED errors
        /\ Action.actor # "none"
        /\ Action.actor \in Bots => session[Action.actor] = "open"
  /\ ActionDone /\ UNCHANGED <<botVars, room, restVars>>

AlternateOfNobody ==
  /\ Acting("ptt_alternate") /\ Action.actors = <<>>
  /\ errors' = TRUE
  /\ ActionDone /\ UNCHANGED <<botVars, room, restVars>>

RepeatsTurn == AtStep("enter")                           \* mutant

Turns == Action.count * Len(Action.actors)
NextTurn == NextOf(Turns)
Talker == Action.actors[((cursor - 1) % Len(Action.actors)) + 1]

\* One turn of ptt_alternate: the floor is granted, and the talker waits, or it
\* is not, or the request fails, which no error of the result tells.
AlternateAsks ==
  /\ Acting("ptt_alternate") /\ Action.actors # <<>> /\ Turns > 0 /\ step = "enter"
  /\ \/ /\ Talker \in Bots /\ session[Talker] = "open"
        /\ AtStep("talk")
     \/ NextTurn
  /\ UNCHANGED <<botVars, room, errors, restVars>>

AlternateReleases ==
  /\ Acting("ptt_alternate") /\ step = "talk"
  /\ NextTurn
  /\ UNCHANGED <<botVars, room, errors, restVars>>

NetworkTransition ==
  /\ Acting("network_transition")
  /\ IF Action.actor \in Bots /\ Action.profile # "none"
     THEN UpdateNetFilter(Action.actor, Action.profile) ELSE UNCHANGED botVars
  /\ ActionDone /\ UNCHANGED <<room, errors, restVars>>

KillBot ==
  /\ Acting("kill_bot")
  /\ IF Action.actor \in Bots THEN Disconnect(Action.actor) ELSE UNCHANGED botVars
  /\ ActionDone /\ UNCHANGED <<room, errors, restVars>>

\* wait, and an alternation of no rounds.
Wait ==
  /\ \/ Acting("wait")
     \/ Acting("ptt_alternate") /\ Action.actors # <<>> /\ Turns = 0
  /\ ActionDone /\ UNCHANGED <<botVars, room, errors, restVars>>

-----------------------------------------------------------------------------
(***************************************************************************)
(* The end of a run.                                                       *)
(***************************************************************************)

\* Only the bots that are publishing are measured.
PublishingBots == {b \in Bots : status[b] = "publishing"}

Collect ==
  /\ phase = "act" /\ pc > Len(scenario.actions)
  /\ measured' \in [PublishingBots -> Snapshots]
  /\ phase' = "disconnect"
  /\ UNCHANGED <<botVars, scenario, runs, pc, cursor, step, room, errors, report, basis, file,
                 exit>>

DisconnectNext(after) ==
  /\ Disconnect(ThisBot)
  /\ IF cursor < BotCount THEN cursor' = cursor + 1 /\ UNCHANGED phase
                   ELSE cursor' = 1 /\ phase' = after

DisconnectAll ==
  /\ phase = "disconnect"
  /\ DisconnectNext("judge")
  /\ UNCHANGED <<scenario, runs, pc, step, room, errors, measured, report, basis, file, exit>>

\* snapshot() of the receive metrics, as RecvInput.
SumOf(snap, field) == FoldSet(LAMBDA s, acc : acc + snap[s][field], 0, DOMAIN snap)
Input(snap) ==
  [packets |-> SumOf(snap, "received"), lost |-> SumOf(snap, "lost"),
   ooo |-> SumOf(snap, "out_of_order"), jitters |-> {snap[s].jitter : s \in DOMAIN snap}]
Inputs == [b \in DOMAIN measured |-> Input(measured[b])]

ASSUME SnapshotsAssumption == \A snap \in Snapshots : ParticipantMetrics(Input(snap)) \in Metrics

\* The profile of the first participant, whatever the others have or get.
profile_name == scenario.profile[scenario.participants[1]]

JudgeRun ==
  /\ phase = "judge"
  /\ basis' = file
  /\ \E obs \in [Bots -> Observations] :
       LET checkpoints == Evaluate(measured, obs, scenario.categories, scenario.mode,
                                   profile_name)
           l1 == Layer1(checkpoints)
           l2 == Layer2(Inputs, file.readable, file.entries, Resolve(scenario.judgement), errors)
       IN  report' = [layer1 |-> l1, layer2 |-> l2, overall |-> Overall(l1, l2)]
  /\ phase' = "save"
  /\ UNCHANGED <<botVars, scenario, runs, pc, cursor, step, room, errors, measured, file, exit>>

OnLayer1Only == report.layer1 = "PASS"                   \* mutant

should_update == report.layer1 = "PASS" /\ report.layer2 # "regressed"

savingVars == <<botVars, scenario, runs, pc, cursor, step, room, errors, measured, report, basis,
                exit>>

\* No update is due, or the directory cannot be made or the file opened.
NotSaved == phase = "save" /\ phase' = "exit" /\ UNCHANGED <<savingVars, file>>

\* fs::write truncates the file and then writes it, unless that fails.
Truncate ==
  /\ phase = "save" /\ should_update
  /\ file' = Unreadable
  /\ phase' = "write" /\ UNCHANGED savingVars

Write ==
  /\ phase = "write"
  /\ file' = [readable |-> TRUE, entries |-> CreateBaseline(Inputs)]
  /\ phase' = "exit" /\ UNCHANGED savingVars

WriteFails == phase = "write" /\ phase' = "exit" /\ UNCHANGED <<savingVars, file>>

\* cmd_scenario
Exit == phase = "exit" /\ ProcessEnds(IF report.overall = "PASS" THEN 0 ELSE 1)

-----------------------------------------------------------------------------

RunAction ==
  \/ AllJoin
  \/ StartMediaSkips \/ StartMediaBegins \/ StartMediaGoesOn \/ StartMediaFails \/ PublishIntent
  \/ PttCall
  \/ AlternateOfNobody \/ AlternateAsks \/ AlternateReleases
  \/ NetworkTransition \/ KillBot \/ Wait

EngineStep ==
  \/ RunAction
  \/ Collect \/ DisconnectAll \/ JudgeRun
  \/ NotSaved \/ Truncate \/ Write \/ WriteFails \/ Exit

ScenarioNext == LaunchScenario \/ LoadFails \/ EngineStep \/ Crash

ScenarioSpec == ScenarioInit /\ [][ScenarioNext]_scenarioVars

\* A process that runs takes its next step; that the SFU completes or refuses a
\* DTLS handshake, for which nothing waits with a timeout, is an assumption.
Waiting == \E b \in Bots : stage[b] \in {"pub_dtls", "sub_dtls"}

-----------------------------------------------------------------------------

ScenarioTypeOK ==
  /\ BotTypeOK
  /\ scenario \in Scenarios /\ runs \in 0 .. MaxRuns /\ phase \in Phases
  /\ pc \in 1 .. Len(scenario.actions) + 1 /\ cursor \in Nat \ {0}
  /\ step \in {"enter", "setup", "intent", "talk"}
  /\ {room, errors} \subseteq BOOLEAN
  /\ DOMAIN measured \subseteq Bots
  /\ report.overall \in {"none", "PASS", "FAIL"}
  /\ DOMAIN file.entries \subseteq Bots
  /\ exit \in {-1, 0, 1, 2}

\* What the scenario makes of a bot: of the joins, starts and kills in its timeline
\* that are about it, the last two are a join and a start.
About(act, b) == \/ act.type \in {"all_join", "start_media"}
                 \/ act.type = "kill_bot" /\ act.actor = b

JoinsAndStarts(tl, b, i, j) ==
  /\ i < j /\ tl[i].type = "all_join" /\ tl[j].type = "start_media"
  /\ \A k \in DOMAIN tl : k > i /\ k # j => ~About(tl[k], b)

Expected(b) ==
  LET tl == Timeline(scenario.actions) IN
  \E i, j \in DOMAIN tl : JoinsAndStarts(tl, b, i, j)

(***************************************************************************)
(* A run that passes has measured every bot that the scenario joins and    *)
(* starts and does not kill: whatever fails on the way to publishing is an *)
(* error of the result, so that a participant who never made it cannot be  *)
(* missing from a PASS (action_all_join, action_start_media, judge).       *)
(***************************************************************************)
NoSilentDropout ==
  (phase = "exit" /\ report.overall = "PASS") =>
    \A b \in Bots : Expected(b) => b \in DOMAIN measured

(***************************************************************************)
(* The baseline changes only by a run that passes, and from the one the    *)
(* run was judged against to the one it writes no participant they share   *)
(* is worse by more than the thresholds, the jitter after a zero excepted  *)
(* (engine.rs:201, judge_layer2, create_baseline).  A rise of exactly the  *)
(* threshold passes and is written: RiseAtThresholdRegresses.              *)
(***************************************************************************)
BaselineStep ==
  file' # file =>
    /\ report.overall = "PASS"
    /\ (basis.readable /\ file'.readable) =>
         \A b \in DOMAIN basis.entries \cap DOMAIN file'.entries :
           WithinThresholds(file'.entries[b], basis.entries[b], Resolve(scenario.judgement))
Ratchet == [][BaselineStep]_scenarioVars

(***************************************************************************)
(* What thresholds.rs:12, 16 and 20 say of them: a rise of at least the    *)
(* threshold is a REGRESS.  judge_layer2 asks for more than the threshold. *)
(***************************************************************************)
RiseAtThresholdRegresses ==
  (phase = "save" /\ basis.readable /\ report.layer2 # "regressed") =>
    \A b \in DOMAIN measured \cap DOMAIN basis.entries :
      BelowThresholds(ParticipantMetrics(Inputs[b]), basis.entries[b],
                      Resolve(scenario.judgement))

=============================================================================
