--------------------------------- MODULE Cli ---------------------------------
(***************************************************************************)
(* The commands of crates/oxlab-cli/src/main.rs.                           *)
(*                                                                         *)
(* scenario is the engine of Scenario; run joins a number of bots of one   *)
(* profile to a room, starts their media, lets them talk in turn and holds *)
(* them for a while.  run reports nothing: an error of a bot is logged and *)
(* the bot skipped, and only the first join ends the command.  Processes   *)
(* of these two follow one another over the same baseline file.            *)
(*                                                                         *)
(* cap measures a row, of Capacity or, in conf mode, of Conference; a      *)
(* sweep is a sequence of such rows that share nothing.  cap-dist is the   *)
(* coordinator of Distributed, whose workers are cap-worker processes.     *)
(* The state of the commands that were not given stays as it was.          *)
(***************************************************************************)
EXTENDS Scenario, Conference, Distributed

VARIABLE
  command     (* what Cli::parse found                                     *)

cliVars == <<scenarioVars, confVars, distVars, command>>

Commands == {"bots", "cap", "cap_conf", "cap_dist"}

RunPhases == {"run_join", "run_media", "run_ptt", "run_hold", "run_disconnect", "run_end"}

runRest == <<scenario, runs, errors, measured, report, basis, file, exit>>

\* To the next bot, or to the next phase after the last one.
BotDone(after) ==
  /\ step' = "enter" /\ UNCHANGED pc
  /\ IF cursor < BotCount THEN cursor' = cursor + 1 /\ UNCHANGED phase
                   ELSE cursor' = 1 /\ phase' \in after

Stay(s) == step' = s /\ UNCHANGED <<pc, cursor, phase>>

LaunchRun ==
  /\ phase = "off" /\ runs < MaxRuns
  /\ runs' = runs + 1
  /\ CreateBots([b \in Bots |-> profile_name])
  /\ phase' = "run_join" /\ FirstAction
  /\ exit' = -1
  /\ UNCHANGED <<scenario, file>>

\* The first bot creates the room, or the command returns; another that does not
\* get in is left out.  The media phase is optional.
RunJoin ==
  /\ phase = "run_join"
  /\ \/ Join(ThisBot) /\ room' = TRUE
     \/ cursor > 1 /\ UNCHANGED <<botVars, room>>
  /\ BotDone({"run_media", "run_hold"}) /\ UNCHANGED runRest

RunReturns == phase = "run_join" /\ cursor = 1 /\ ProcessEnds(0)

AfterMedia == IF scenario.mode = "ptt" THEN {"run_ptt"} ELSE {"run_hold"}

RunMedia ==
  /\ phase = "run_media"
  /\ \/ /\ step = "enter" /\ status[ThisBot] # "joined"
        /\ BotDone(AfterMedia) /\ UNCHANGED botVars
     \/ step = "enter" /\ BeginSetup(ThisBot) /\ Stay("setup")
     \/ /\ step = "setup" /\ MediaStep(ThisBot)
        /\ Stay(IF status'[ThisBot] = "media_ready" THEN "intent" ELSE "setup")
     \/ step = "setup" /\ MediaFails(ThisBot) /\ BotDone(AfterMedia)
     \/ step = "intent" /\ StartPublishing(ThisBot) /\ BotDone(AfterMedia)
     \/ step = "intent" /\ BotDone(AfterMedia) /\ UNCHANGED botVars
  /\ UNCHANGED <<room, runRest>>

\* The round robin of the bots that publish: one is granted the floor, talks and
\* releases it, or is not granted it.
RunPtt ==
  /\ phase = "run_ptt"
  /\ \/ step = "enter" /\ status[ThisBot] = "publishing" /\ Stay("talk")
     \/ BotDone({"run_hold"})
  /\ UNCHANGED <<botVars, room, runRest>>

RunHold ==
  /\ phase = "run_hold"
  /\ phase' = "run_disconnect"
  /\ UNCHANGED <<botVars, room, runRest, pc, cursor, step>>

\* A bot that did not join was dropped long ago.
RunDisconnect ==
  /\ phase = "run_disconnect"
  /\ IF status[ThisBot] = "created" THEN UNCHANGED botVars ELSE Disconnect(ThisBot)
  /\ BotDone({"run_end"})
  /\ UNCHANGED <<room, runRest>>

RunEnds == phase = "run_end" /\ ProcessEnds(0)

RunStep ==
  \/ RunJoin \/ RunReturns \/ RunMedia \/ RunPtt \/ RunHold \/ RunDisconnect \/ RunEnds

\* main: the rows of the capacity commands are those of their modules.
CliInit ==
  /\ command \in Commands
  /\ ScenarioInit /\ (command # "bots" => scenario = CHOOSE sc \in Scenarios : TRUE)
  /\ IF command = "cap_conf" THEN ConfInit
                             ELSE Init /\ conf_room = FALSE /\ (command # "cap" => pub = "setup")
  /\ DistInit

Bot(A) == command = "bots" /\ A /\ UNCHANGED <<confVars, distVars, command>>
Cap(A) == command = "cap" /\ A /\ UNCHANGED <<scenarioVars, conf_room, distVars, command>>
Conf(A) == command = "cap_conf" /\ A /\ UNCHANGED <<scenarioVars, distVars, command>>
Dist(A) == command = "cap_dist" /\ A /\ UNCHANGED <<scenarioVars, confVars, command>>

CliNext ==
  \/ Bot(ScenarioNext \/ LaunchRun \/ RunStep)
  \/ Cap(Next) \/ Conf(ConfNext) \/ Dist(DistNext)

(***************************************************************************)
(* Fairness: the tasks of the command run, time passes, a released permit  *)
(* goes to the longest waiter (tokio's semaphore is fair), and a deadline  *)
(* that is due is picked among the ready branches of the select! in the    *)
(* end (strong: a TRACKS_READY may disable it).  Of the outside it assumes *)
(* that the hub answers a TRACKS_READY and a publisher, and that the SFU   *)
(* completes or refuses a DTLS handshake (Waiting), for which the code has *)
(* no timeout.  Each conjunct is about whichever command runs.             *)
(***************************************************************************)
MainTask == Bot(~Waiting /\ (EngineStep \/ RunStep)) \/ Cap(RunnerRuns) \/ Conf(ConfRunner)
            \/ Dist(CoordActs)
Outside == Bot(Waiting /\ (EngineStep \/ RunStep)) \/ Cap(Advance) \/ Conf(ConfAdvance)
           \/ Dist(DistAdvance)

CliFairness ==
  /\ WF_cliVars(MainTask) /\ WF_cliVars(Outside)
  /\ WF_cliVars(Cap(PubRuns) \/ Dist(PubActs))
  /\ \A s \in Subs :
       /\ SF_cliVars(Cap(AcquirePermit(s)) \/ Conf(ConfAcquires(s)))
       /\ WF_cliVars(Cap(Setup(s)) \/ Conf(ConfSetup(s)))
       /\ WF_cliVars(Conf(ConfAsked(s)))
       /\ SF_cliVars(Cap(SubDeadline(s)) \/ Conf(ConfDeadline(s)))
       /\ WF_cliVars(Cap(TracksReadyAnswered(s)) \/ Conf(ConfAnswered(s)))
  /\ \A w \in Ids : WF_cliVars(Dist(WorkerActs(w)))

CliSpec == CliInit /\ [][CliNext]_cliVars /\ CliFairness

-----------------------------------------------------------------------------

CliTypeOK ==
  /\ command \in Commands
  /\ phase \in Phases => ScenarioTypeOK
  /\ phase \in RunPhases => BotTypeOK
  /\ command = "cap" => TypeOK
  /\ DistTypeOK

JoinsOnce == Cardinality({i \in DOMAIN scenario.actions :
                            scenario.actions[i].type = "all_join"}) <= 1

(***************************************************************************)
(* After the disconnect no publication is alive, unless the scenario joins *)
(* twice (the second start detaches the first), and in a scenario a DTLS   *)
(* reader is left only behind a failed setup, which the result counts as   *)
(* an error (stop_publishing, setup_media_pc, cmd_run).                    *)
(***************************************************************************)
MediaStopped ==
  /\ phase \in {"judge", "save", "write", "exit"} =>
       (JoinsOnce => tasks = {}) /\ (readers # {} => errors)
  /\ phase = "run_end" => tasks = {}

(***************************************************************************)
(* Every command comes to its end, whatever call of it fails and whatever  *)
(* worker dies: a process with bots, a row, the distributed point.         *)
(***************************************************************************)
CommandEnds ==
  []<>(/\ phase = "off"
       /\ command \in {"cap", "cap_conf"} => runner = "done"
       /\ command = "cap_dist" => coord = "done")

=============================================================================
