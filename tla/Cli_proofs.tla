------------------------------ MODULE Cli_proofs ------------------------------
(***************************************************************************)
(* What TLAPS proves of the commands, for any scenario files, bots and     *)
(* measurements, any number of processes one after the other and any size  *)
(* of a measured row: a publication reads its sockets alone, the baseline  *)
(* only moves within the thresholds, the timeline is the file's actions in *)
(* order, nothing publishes after the disconnect, nobody is missing from a *)
(* PASS, and what holds of each measurement holds of the command.          *)
(***************************************************************************)
EXTENDS Cli, Capacity_proofs, Distributed_proofs, TLAPS

-----------------------------------------------------------------------------
(***************************************************************************)
(* A bot's life, in whatever order its operations are called: the sockets  *)
(* of a publication have no other reader.                                  *)
(***************************************************************************)

LifeTypes ==
  /\ status \in [Bots -> Statuses] /\ stage \in [Bots -> Stages]
  /\ setups \in [Bots -> Nat] /\ media \in [Bots -> Nat]

\* The readers of the setup that runs are those its stage tells.
ReadersOfStage(b) ==
  /\ stage[b] \notin {"idle", "pub_dtls"} => <<b, setups[b], "pub">> \notin readers
  /\ stage[b] \notin {"idle", "sub_dtls"} => <<b, setups[b], "sub">> \notin readers

\* A setup that goes on is later than the one whose sockets are in use.
MediaIsEarlier(b) ==
  /\ media[b] <= setups[b]
  /\ stage[b] # "idle" => media[b] < setups[b]

NoReaderOfMedia(b) ==
  media[b] > 0 => \A side \in PCs : <<b, media[b], side>> \notin readers

NoReaderAhead(b) ==
  \A k \in Nat, side \in PCs : <<b, k, side>> \in readers => k <= setups[b] /\ k > 0

PublishesOnMedia(b) ==
  /\ status[b] \in {"media_ready", "publishing"} => media[b] > 0
  /\ status[b] = "publishing" => <<b, media[b]>> \in tasks

LifeInv ==
  /\ LifeTypes
  /\ \A b \in Bots : /\ ReadersOfStage(b) /\ MediaIsEarlier(b)
                     /\ NoReaderOfMedia(b) /\ NoReaderAhead(b) /\ PublishesOnMedia(b)

\* A step of a bot.  Whoever it is about: an operation of a bot that the
\* command does not have changes nothing of those it has.
BotOp(b) ==
  \/ Join(b) \/ BeginSetup(b) \/ MediaStep(b) \/ MediaFails(b)
  \/ StartPublishing(b) \/ Disconnect(b) \/ \E profile : UpdateNetFilter(b, profile)

LEMMA NoBotsLife == NoBots => LifeInv
BY DEF NoBots, LifeInv, LifeTypes, ReadersOfStage, MediaIsEarlier, NoReaderOfMedia,
  NoReaderAhead, PublishesOnMedia, Statuses, Stages

LEMMA CreateLife == ASSUME NEW profile, CreateBots(profile) PROVE LifeInv'
BY DEF CreateBots, LifeInv, LifeTypes, ReadersOfStage, MediaIsEarlier, NoReaderOfMedia,
  NoReaderAhead, PublishesOnMedia, Statuses, Stages

LEMMA SameLife == ASSUME LifeInv, UNCHANGED botVars PROVE LifeInv'
BY DEF botVars, LifeInv, LifeTypes, ReadersOfStage, MediaIsEarlier, NoReaderOfMedia,
  NoReaderAhead, PublishesOnMedia

(***************************************************************************)
(* Every operation keeps the invariant (bot.rs, setup_media_pc).           *)
(***************************************************************************)
LEMMA OpKeepsLife ==
  ASSUME LifeInv, NEW b, BotOp(b)
  PROVE  LifeInv'
<1> DEFINE Life(c) == /\ ReadersOfStage(c) /\ MediaIsEarlier(c)
                      /\ NoReaderOfMedia(c) /\ NoReaderAhead(c) /\ PublishesOnMedia(c)
<1>0. LifeTypes /\ \A c \in Bots : Life(c)
  BY DEF LifeInv
<1>q. ASSUME LifeTypes', \A c \in Bots : Life(c)' PROVE LifeInv'
  BY <1>q DEF LifeInv
<1> USE DEF LifeTypes, Statuses, Stages
<1>1. CASE Join(b)
  <2>1. /\ LifeTypes' /\ UNCHANGED <<stage, setups, media, readers, tasks>>
        /\ \A c \in Bots : status'[c] = status[c] \/ status'[c] = "joined"
    BY <1>0, <1>1 DEF Join
  <2>2. \A c \in Bots : Life(c)'
    BY <1>0, <2>1 DEF ReadersOfStage, MediaIsEarlier, NoReaderOfMedia, NoReaderAhead,
      PublishesOnMedia
  <2> QED
    BY <1>q, <2>1, <2>2
<1>2. CASE BeginSetup(b)
  <2>1. LifeTypes' /\ UNCHANGED <<status, media, readers, tasks>>
    <3>1. setups' \in [Bots -> Nat]
      <4>1. setups' = [x \in Bots |-> IF x = b THEN setups[x] + 1 ELSE setups[x]]
        BY <1>0, <1>2, Zenon DEF BeginSetup
      <4>2. \A x \in Bots : setups[x] + 1 \in Nat /\ setups[x] \in Nat
        BY <1>0
      <4> QED
        BY <4>1, <4>2
    <3>2. stage' \in [Bots -> Stages] /\ UNCHANGED <<status, media, readers, tasks>>
      BY <1>0, <1>2 DEF BeginSetup
    <3> QED
      BY <1>0, <3>1, <3>2
  <2>2. ASSUME NEW c \in Bots PROVE Life(c)'
    <3>1. CASE c = b
      <4>1. setups'[c] = setups[c] + 1 /\ stage'[c] = "pub_stun" /\ setups[c] \in Nat
        BY <1>0, <1>2, <3>1 DEF BeginSetup
      <4>2. \A side \in PCs : <<c, setups[c] + 1, side>> \notin readers
        <5>1. SUFFICES ASSUME NEW side \in PCs, <<c, setups[c] + 1, side>> \in readers
                       PROVE  FALSE
          OBVIOUS
        <5>2. NoReaderAhead(c)
          BY <1>0
        <5>3. setups[c] + 1 <= setups[c]
          BY <4>1, <5>1, <5>2 DEF NoReaderAhead
        <5> QED
          BY <4>1, <5>3
      <4>a. ReadersOfStage(c)'
        BY <2>1, <4>1, <4>2 DEF ReadersOfStage, PCs
      <4>e. MediaIsEarlier(c)'
        <5>1. media[c] <= setups[c] /\ media[c] \in Nat /\ media'[c] = media[c]
          BY <1>0, <2>1 DEF MediaIsEarlier
        <5> QED
          BY <4>1, <5>1 DEF MediaIsEarlier
      <4>b. NoReaderOfMedia(c)'
        BY <1>0, <2>1 DEF NoReaderOfMedia
      <4>c. NoReaderAhead(c)'
        <5>1. ASSUME NEW k \in Nat, NEW side \in PCs, <<c, k, side>> \in readers'
              PROVE  k <= setups[c] /\ k > 0
          BY <1>0, <2>1, <5>1 DEF NoReaderAhead
        <5> QED
          BY <4>1, <5>1 DEF NoReaderAhead
      <4>d. PublishesOnMedia(c)'
        BY <1>0, <2>1, <4>1, <4>2 DEF PublishesOnMedia
      <4> QED
        BY <4>a, <4>b, <4>c, <4>d, <4>e
    <3>2. CASE c # b
      <4>1. setups'[c] = setups[c] /\ stage'[c] = stage[c]
        BY <1>0, <1>2, <3>2 DEF BeginSetup
      <4> QED
        BY <1>0, <2>1, <4>1 DEF ReadersOfStage, MediaIsEarlier, NoReaderOfMedia,
          NoReaderAhead, PublishesOnMedia
    <3> QED
      BY <3>1, <3>2
  <2> QED
    BY <1>q, <2>1, <2>2
<1>3. CASE StunAnswered(b)
  <2>1. LifeTypes' /\ UNCHANGED <<status, setups, media, tasks>>
    BY <1>0, <1>3 DEF StunAnswered
  <2>2. ASSUME NEW c \in Bots PROVE Life(c)'
    <3>1. CASE c # b
      <4>1. /\ stage'[c] = stage[c]
            /\ \A k, side : <<c, k, side>> \in readers' <=> <<c, k, side>> \in readers
        BY <1>0, <1>3, <3>1 DEF StunAnswered, Reader
      <4> QED
        BY <1>0, <2>1, <4>1 DEF ReadersOfStage, MediaIsEarlier, NoReaderOfMedia,
          NoReaderAhead, PublishesOnMedia
    <3>2. CASE c = b /\ stage[b] = "pub_stun"
      <4>1. stage'[c] = "pub_dtls" /\ readers' = readers \cup {<<c, setups[c], "pub">>}
        BY <1>0, <1>3, <3>2 DEF StunAnswered, Reader, PC
      <4>a. ReadersOfStage(c)' /\ MediaIsEarlier(c)'
        BY <1>0, <2>1, <3>2, <4>1 DEF ReadersOfStage, MediaIsEarlier
      <4>t. /\ setups[c] \in Nat /\ media[c] \in Nat /\ media[c] < setups[c]
            /\ setups'[c] = setups[c] /\ media'[c] = media[c]
        BY <1>0, <2>1, <3>2 DEF MediaIsEarlier
      <4>b. NoReaderOfMedia(c)'
        <5>1. ASSUME NEW side \in PCs PROVE <<c, media[c], side>> # <<c, setups[c], "pub">>
          BY <4>t
        <5>2. media[c] > 0 => \A side \in PCs : <<c, media[c], side>> \notin readers
          BY <1>0 DEF NoReaderOfMedia
        <5> QED
          BY <4>1, <4>t, <5>1, <5>2 DEF NoReaderOfMedia
      <4>c. NoReaderAhead(c)'
        <5>1. ASSUME NEW k \in Nat, NEW side \in PCs, <<c, k, side>> \in readers'
              PROVE  k <= setups[c] /\ k > 0
          <6>1. CASE <<c, k, side>> \in readers
            BY <1>0, <6>1 DEF NoReaderAhead
          <6>2. CASE k = setups[c]
            BY <4>t, <6>2
          <6> QED
            BY <4>1, <5>1, <6>1, <6>2
        <5> QED
          BY <4>t, <5>1 DEF NoReaderAhead
      <4>d. PublishesOnMedia(c)'
        BY <1>0, <2>1, <3>2, <4>1 DEF PublishesOnMedia
      <4> QED
        BY <4>a, <4>b, <4>c, <4>d
    <3>3. CASE c = b /\ stage[b] = "sub_stun"
      <4>1. stage'[c] = "sub_dtls" /\ readers' = readers \cup {<<c, setups[c], "sub">>}
        BY <1>0, <1>3, <3>3 DEF StunAnswered, Reader, PC
      <4>a. ReadersOfStage(c)' /\ MediaIsEarlier(c)'
        BY <1>0, <2>1, <3>3, <4>1 DEF ReadersOfStage, MediaIsEarlier
      <4>t. /\ setups[c] \in Nat /\ media[c] \in Nat /\ media[c] < setups[c]
            /\ setups'[c] = setups[c] /\ media'[c] = media[c]
        BY <1>0, <2>1, <3>3 DEF MediaIsEarlier
      <4>b. NoReaderOfMedia(c)'
        <5>1. ASSUME NEW side \in PCs PROVE <<c, media[c], side>> # <<c, setups[c], "sub">>
          BY <4>t
        <5>2. media[c] > 0 => \A side \in PCs : <<c, media[c], side>> \notin readers
          BY <1>0 DEF NoReaderOfMedia
        <5> QED
          BY <4>1, <4>t, <5>1, <5>2 DEF NoReaderOfMedia
      <4>c. NoReaderAhead(c)'
        <5>1. ASSUME NEW k \in Nat, NEW side \in PCs, <<c, k, side>> \in readers'
              PROVE  k <= setups[c] /\ k > 0
          <6>1. CASE <<c, k, side>> \in readers
            BY <1>0, <6>1 DEF NoReaderAhead
          <6>2. CASE k = setups[c]
            BY <4>t, <6>2
          <6> QED
            BY <4>1, <5>1, <6>1, <6>2
        <5> QED
          BY <4>t, <5>1 DEF NoReaderAhead
      <4>d. PublishesOnMedia(c)'
        BY <1>0, <2>1, <3>3, <4>1 DEF PublishesOnMedia
      <4> QED
        BY <4>a, <4>b, <4>c, <4>d
    <3> QED
      BY <1>3, <3>1, <3>2, <3>3 DEF StunAnswered
  <2> QED
    BY <1>q, <2>1, <2>2
<1>4. CASE DtlsDone(b)
  <2>1. LifeTypes' /\ UNCHANGED <<setups, tasks>> /\ readers' \subseteq readers
    BY <1>0, <1>4 DEF DtlsDone, ReaderAborted
  <2>2. ASSUME NEW c \in Bots PROVE Life(c)'
    <3>1. CASE c # b
      <4>1. stage'[c] = stage[c] /\ media'[c] = media[c] /\ status'[c] = status[c]
        BY <1>0, <1>4, <3>1 DEF DtlsDone
      <4> QED
        BY <1>0, <2>1, <4>1 DEF ReadersOfStage, MediaIsEarlier, NoReaderOfMedia,
          NoReaderAhead, PublishesOnMedia
    <3>2. CASE c = b /\ stage[b] = "pub_dtls"
      <4>1. /\ stage'[c] = "sub_stun" /\ readers' = readers \ {<<c, setups[c], "pub">>}
            /\ UNCHANGED <<status, media>>
        BY <1>0, <1>4, <3>2 DEF DtlsDone, ReaderAborted, Reader, PC
      <4> QED
        BY <1>0, <2>1, <3>2, <4>1 DEF ReadersOfStage, MediaIsEarlier, NoReaderOfMedia,
          NoReaderAhead, PublishesOnMedia, PCs
    <3>3. CASE c = b /\ stage[b] = "sub_dtls"
      <4>1. /\ stage'[c] = "idle" /\ readers' = readers \ {<<c, setups[c], "sub">>}
            /\ media'[c] = setups[c] /\ status'[c] = "media_ready"
        BY <1>0, <1>4, <3>3 DEF DtlsDone, ReaderAborted, Reader, PC
      <4>2. \A side \in PCs : <<c, setups[c], side>> \notin readers'
        BY <1>0, <3>3, <4>1 DEF ReadersOfStage, PCs
      <4>3. media'[c] > 0 /\ setups[c] \in Nat
        BY <1>0, <3>3, <4>1 DEF MediaIsEarlier
      <4>a. ReadersOfStage(c)' /\ MediaIsEarlier(c)'
        BY <1>0, <2>1, <4>1, <4>2, <4>3 DEF ReadersOfStage, MediaIsEarlier
      <4>b. NoReaderOfMedia(c)'
        BY <1>0, <2>1, <4>1, <4>2, <4>3 DEF NoReaderOfMedia, MediaIsEarlier, PCs
      <4>c. NoReaderAhead(c)'
        BY <1>0, <2>1, <4>1, <4>2, <4>3 DEF NoReaderAhead, MediaIsEarlier, PCs
      <4>d. PublishesOnMedia(c)'
        BY <1>0, <2>1, <4>1, <4>2, <4>3 DEF PublishesOnMedia
      <4> QED
        BY <4>a, <4>b, <4>c, <4>d
    <3> QED
      BY <1>4, <3>1, <3>2, <3>3 DEF DtlsDone
  <2> QED
    BY <1>q, <2>1, <2>2
<1>5. CASE MediaFails(b)
  <2>1. /\ LifeTypes' /\ UNCHANGED <<status, setups, media, readers, tasks>>
        /\ \A c \in Bots : stage'[c] = stage[c] \/ stage'[c] = "idle"
    BY <1>0, <1>5 DEF MediaFails, StunTimeout, DtlsFails
  <2>2. \A c \in Bots : Life(c)'
    BY <1>0, <2>1 DEF ReadersOfStage, MediaIsEarlier, NoReaderOfMedia, NoReaderAhead,
      PublishesOnMedia
  <2> QED
    BY <1>q, <2>1, <2>2
<1>6. CASE StartPublishing(b)
  <2>1. /\ LifeTypes' /\ UNCHANGED <<stage, setups, media, readers>>
        /\ tasks' = tasks \cup {<<b, media[b]>>} /\ status[b] = "media_ready"
        /\ \A c \in Bots : status'[c] = status[c] \/ c = b
    BY <1>0, <1>6 DEF StartPublishing
  <2>2. \A c \in Bots : Life(c)'
    BY <1>0, <2>1 DEF ReadersOfStage, MediaIsEarlier, NoReaderOfMedia, NoReaderAhead,
      PublishesOnMedia
  <2> QED
    BY <1>q, <2>1, <2>2
<1>7. CASE Disconnect(b)
  <2>1. /\ LifeTypes' /\ UNCHANGED <<stage, setups, media, readers>>
        /\ tasks' = tasks \ {<<b, handles[b]>>}
        /\ \A c \in Bots : status'[c] = IF c = b THEN "stopped" ELSE status[c]
    BY <1>0, <1>7 DEF Disconnect, Stopped
  <2>2. \A c \in Bots : Life(c)'
    BY <1>0, <2>1 DEF ReadersOfStage, MediaIsEarlier, NoReaderOfMedia, NoReaderAhead,
      PublishesOnMedia
  <2> QED
    BY <1>q, <2>1, <2>2
<1>8. CASE \E profile : UpdateNetFilter(b, profile)
  <2>1. UNCHANGED <<status, stage, setups, media, readers, tasks>>
    BY <1>8 DEF UpdateNetFilter
  <2> QED
    BY <1>0, <1>q, <2>1 DEF ReadersOfStage, MediaIsEarlier, NoReaderOfMedia, NoReaderAhead,
      PublishesOnMedia
<1> QED
  BY <1>1, <1>2, <1>3, <1>4, <1>5, <1>6, <1>7, <1>8 DEF BotOp, MediaStep

LEMMA LifeHasSoleReader == LifeInv => SoleReader
BY DEF LifeInv, LifeTypes, NoReaderOfMedia, PublishesOnMedia, SoleReader

-----------------------------------------------------------------------------

(***************************************************************************)
(* Whatever a command does to its bots, it is an operation of BotLife on   *)
(* one of them, or a new set of bots (engine.rs, cmd_run).                 *)
(***************************************************************************)
BotsStep == \/ UNCHANGED botVars
            \/ \E b : BotOp(b)
            \/ \E profile : CreateBots(profile)

LEMMA EndIsBotsStep == ASSUME NEW code, ProcessEnds(code) PROVE BotsStep
BY DEF ProcessEnds, BotsStep

LEMMA ScenarioBotsStep == ScenarioNext => BotsStep
<1>1. LaunchScenario \/ LoadFails => BotsStep
  BY DEF LaunchScenario, LoadFails, BotsStep
<1>2. Crash \/ Exit => BotsStep
  BY EndIsBotsStep DEF Crash, Exit
<1>3. AllJoin => BotsStep
  BY DEF AllJoin, BotsStep, BotOp
<1>4. StartMediaSkips \/ StartMediaBegins \/ StartMediaGoesOn => BotsStep
  BY DEF StartMediaSkips, StartMediaBegins, StartMediaGoesOn, BotsStep, BotOp
<1>5. StartMediaFails \/ PublishIntent => BotsStep
  BY DEF StartMediaFails, SetupError, PublishIntent, BotsStep, BotOp
<1>6. PttCall \/ AlternateOfNobody \/ AlternateAsks \/ AlternateReleases \/ Wait => BotsStep
  BY DEF PttCall, AlternateOfNobody, AlternateAsks, AlternateReleases, Wait, BotsStep
<1>7. NetworkTransition => BotsStep
  BY DEF NetworkTransition, BotsStep, BotOp
<1>8. KillBot \/ DisconnectAll => BotsStep
  BY DEF KillBot, DisconnectAll, DisconnectNext, BotsStep, BotOp
<1>9. Collect \/ JudgeRun => BotsStep
  BY DEF Collect, JudgeRun, BotsStep
<1>10. NotSaved \/ Truncate \/ Write \/ WriteFails => BotsStep
  BY DEF NotSaved, Truncate, Write, WriteFails, savingVars, BotsStep
<1> QED
  BY <1>1, <1>2, <1>3, <1>4, <1>5, <1>6, <1>7, <1>8, <1>9, <1>10
  DEF ScenarioNext, EngineStep, RunAction

LEMMA RunBotsStep == LaunchRun \/ RunStep => BotsStep
<1>1. LaunchRun => BotsStep
  BY DEF LaunchRun, BotsStep
<1>2. RunReturns \/ RunEnds => BotsStep
  BY EndIsBotsStep DEF RunReturns, RunEnds
<1>3. RunJoin \/ RunDisconnect => BotsStep
  BY DEF RunJoin, RunDisconnect, BotsStep, BotOp
<1>4. RunMedia => BotsStep
  BY DEF RunMedia, BotsStep, BotOp, Stay
<1>5. RunPtt \/ RunHold => BotsStep
  BY DEF RunPtt, RunHold, BotsStep
<1> QED
  BY <1>1, <1>2, <1>3, <1>4, <1>5 DEF RunStep

LEMMA CliBotsStep == [CliNext]_cliVars => BotsStep
<1>1. CASE UNCHANGED scenarioVars
  BY <1>1 DEF scenarioVars, BotsStep
<1>2. CASE ScenarioNext \/ LaunchRun \/ RunStep
  BY <1>2, ScenarioBotsStep, RunBotsStep
<1>3. [CliNext]_cliVars => UNCHANGED scenarioVars \/ ScenarioNext \/ LaunchRun \/ RunStep
  BY DEF CliNext, cliVars, Bot, Cap, Conf, Dist
<1> QED
  BY <1>1, <1>2, <1>3

(***************************************************************************)
(* While a bot publishes, nothing else takes packets from the sockets it   *)
(* uses, in every command (media.rs:236 and start_publishing).             *)
(***************************************************************************)
THEOREM CliSoleReader == CliSpec => []SoleReader
<1>1. CliInit => LifeInv
  BY NoBotsLife DEF CliInit, ScenarioInit
<1>2. LifeInv /\ BotsStep => LifeInv'
  BY SameLife, OpKeepsLife, CreateLife DEF BotsStep
<1>3. LifeInv /\ [CliNext]_cliVars => LifeInv'
  BY <1>2, CliBotsStep
<1> QED
  BY <1>1, <1>3, LifeHasSoleReader, PTL DEF CliSpec

-----------------------------------------------------------------------------
(***************************************************************************)
(* The verdicts of Layer 2: a participant none of whose metrics regressed  *)
(* is within the thresholds (judge_layer2).                                *)
(***************************************************************************)
LEMMA ResolveType == ASSUME NEW name PROVE Resolve(name) \in Thresholds
BY JudgeAssumption DEF Resolve, Thresholds, default, strict

LEMMA NotRegressedIsWithin ==
  ASSUME NEW cur \in Metrics, NEW prev \in Metrics, NEW t \in Thresholds,
         "regressed" \notin Regression(cur, prev, t)
  PROVE  WithinThresholds(cur, prev, t)
<1>1. /\ cur.loss[1] \in Nat /\ cur.loss[2] \in Nat /\ prev.loss[1] \in Nat
      /\ prev.loss[2] \in Nat /\ cur.jitter \in Nat /\ prev.jitter \in Nat
      /\ cur.ooo \in Nat /\ prev.ooo \in Nat
  BY DEF Metrics
<1>2. t.loss \in Nat /\ t.jitter \in Nat /\ t.ooo \in Nat
  BY DEF Thresholds
<1>3. LossDelta(cur.loss, prev.loss) <= t.loss * cur.loss[2] * prev.loss[2]
  <2>1. LossDelta(cur.loss, prev.loss) \in Int /\ t.loss * cur.loss[2] * prev.loss[2] \in Int
    BY <1>1, <1>2 DEF LossDelta
  <2>2. ~(LossDelta(cur.loss, prev.loss) > t.loss * cur.loss[2] * prev.loss[2])
    BY DEF Regression, LossVerdict
  <2> QED
    BY <2>1, <2>2
<1>4. prev.jitter > 0 => 10 * (cur.jitter - prev.jitter) <= t.jitter * prev.jitter
  <2>1. prev.jitter > 0 => ~(10 * (cur.jitter - prev.jitter) > t.jitter * prev.jitter)
    BY DEF Regression, JitterVerdict, RatioVerdict
  <2>2. t.jitter * prev.jitter \in Int
    BY <1>1, <1>2
  <2> QED
    BY <1>1, <2>1, <2>2
<1>5. 10 * (cur.ooo - prev.ooo) <= t.ooo * prev.ooo
  <2>1. CASE prev.ooo > 0
    <3>1. ~(10 * (cur.ooo - prev.ooo) > t.ooo * prev.ooo)
      BY <2>1 DEF Regression, OooVerdict, RatioVerdict
    <3>2. t.ooo * prev.ooo \in Int
      BY <1>1, <1>2
    <3> QED
      BY <1>1, <3>1, <3>2
  <2>2. CASE prev.ooo = 0
    <3>1. ~(cur.ooo > 0)
      BY <2>2 DEF Regression, OooVerdict
    <3> QED
      BY <1>1, <1>2, <2>2, <3>1
  <2> QED
    BY <1>1, <2>1, <2>2
<1> QED
  BY <1>3, <1>4, <1>5 DEF WithinThresholds

LEMMA Layer2Compares ==
  ASSUME NEW inputs, NEW hasBaseline, NEW baseline, NEW t, NEW failed,
         Layer2(inputs, hasBaseline, baseline, t, failed) # "regressed",
         NEW b \in DOMAIN inputs, b \in DOMAIN baseline
  PROVE  "regressed" \notin Regression(ParticipantMetrics(inputs[b]), baseline[b], t)
<1>1. "regressed" \notin UNION {Compared(id, inputs, baseline, t) : id \in DOMAIN inputs}
  BY DEF Layer2, Outcome
<1>2. "regressed" \notin Compared(b, inputs, baseline, t)
  BY <1>1
<1> QED
  BY <1>2 DEF Compared

-----------------------------------------------------------------------------
(***************************************************************************)
(* The baseline.  A verdict that is still to be acted on is that of the    *)
(* measurements in memory against the baseline that was read.              *)
(***************************************************************************)
TypedEntries(f) == \A b \in DOMAIN f.entries : f.entries[b] \in Metrics

MeasuredTypes == \A b \in DOMAIN measured : measured[b] \in Snapshots

VerdictStands ==
  phase \in {"save", "write", "exit"} =>
    /\ report.overall = Overall(report.layer1, report.layer2)
    /\ report.layer2 = Layer2(Inputs, basis.readable, basis.entries,
                              Resolve(scenario.judgement), errors)

BaselineInv ==
  /\ MeasuredTypes /\ TypedEntries(file) /\ TypedEntries(basis)
  /\ VerdictStands
  /\ phase = "write" => should_update

LEMMA NothingTyped == TypedEntries(Unreadable)
BY DEF TypedEntries, Unreadable

(***************************************************************************)
(* What an acceptable run writes is typed, and within the thresholds of    *)
(* the baseline that it was judged against (create_baseline).              *)
(***************************************************************************)
LEMMA WrittenIsWithin ==
  ASSUME BaselineInv, phase \in {"save", "write"}, should_update
  PROVE  /\ report.overall = "PASS"
         /\ \A b \in DOMAIN CreateBaseline(Inputs) : CreateBaseline(Inputs)[b] \in Metrics
         /\ \A b \in DOMAIN basis.entries \cap DOMAIN CreateBaseline(Inputs) :
              WithinThresholds(CreateBaseline(Inputs)[b], basis.entries[b],
                               Resolve(scenario.judgement))
<1>1. /\ report.layer1 = "PASS" /\ report.layer2 # "regressed"
      /\ report.overall = Overall(report.layer1, report.layer2)
      /\ report.layer2 = Layer2(Inputs, basis.readable, basis.entries,
                                Resolve(scenario.judgement), errors)
  BY DEF BaselineInv, VerdictStands, should_update
<1>2. report.overall = "PASS"
  BY <1>1 DEF Overall
<1>3. /\ DOMAIN CreateBaseline(Inputs) = DOMAIN Inputs /\ DOMAIN Inputs = DOMAIN measured
      /\ \A b \in DOMAIN Inputs : /\ Inputs[b] = Input(measured[b])
                                  /\ CreateBaseline(Inputs)[b] = ParticipantMetrics(Inputs[b])
  BY DEF CreateBaseline, Inputs
<1>4. \A b \in DOMAIN Inputs : ParticipantMetrics(Inputs[b]) \in Metrics
  BY <1>3, SnapshotsAssumption DEF BaselineInv, MeasuredTypes
<1>5. ASSUME NEW b \in DOMAIN basis.entries, b \in DOMAIN Inputs
      PROVE  WithinThresholds(ParticipantMetrics(Inputs[b]), basis.entries[b],
                              Resolve(scenario.judgement))
  <2>1. "regressed" \notin Regression(ParticipantMetrics(Inputs[b]), basis.entries[b],
                                      Resolve(scenario.judgement))
    BY <1>1, <1>5, Layer2Compares
  <2>2. basis.entries[b] \in Metrics
    BY DEF BaselineInv, TypedEntries
  <2> QED
    BY <1>4, <1>5, <2>1, <2>2, ResolveType, NotRegressedIsWithin
<1> QED
  BY <1>2, <1>3, <1>4, <1>5

\* The steps that begin or end a process, or act for it, judge nothing.
LEMMA OtherStepsKeepBaseline ==
  ASSUME BaselineInv, file' = file, phase' \notin {"save", "write", "exit"},
         MeasuredTypes', basis' \in {basis, Unreadable}
  PROVE  BaselineInv'
BY NothingTyped DEF BaselineInv, TypedEntries, VerdictStands

LEMMA NewProcessKeepsBaseline ==
  ASSUME BaselineInv, FirstAction, file' = file, phase' \notin {"save", "write", "exit"}
  PROVE  BaselineInv'
<1>1. measured' = <<>> /\ basis' = Unreadable
  BY DEF FirstAction
<1>2. MeasuredTypes'
  BY <1>1 DEF MeasuredTypes
<1> QED
  BY <1>1, <1>2, OtherStepsKeepBaseline

LEMMA SavingKeepsBaseline ==
  ASSUME BaselineInv, UNCHANGED savingVars, phase \in {"save", "write"},
         phase' \in {"write", "exit"},
         phase' = "write" => should_update,
         TypedEntries(file')
  PROVE  BaselineInv'
<1>1. /\ UNCHANGED <<measured, basis, report, errors>>
      /\ scenario' = scenario
  BY DEF savingVars
<1>2. Inputs' = Inputs
  BY <1>1 DEF Inputs
<1>3. VerdictStands'
  BY <1>1, <1>2 DEF BaselineInv, VerdictStands
<1> QED
  BY <1>1, <1>3 DEF BaselineInv, MeasuredTypes, TypedEntries, should_update

(***************************************************************************)
(* Every step keeps the baseline's invariant, and changes the file only as *)
(* BaselineStep allows (run_scenario, save_baseline).                      *)
(***************************************************************************)
LEMMA BaselineStepHolds ==
  ASSUME BaselineInv, [CliNext]_cliVars
  PROVE  BaselineInv' /\ BaselineStep
<1>same. ASSUME file' = file PROVE BaselineStep
  BY <1>same DEF BaselineStep
<1>1. CASE UNCHANGED scenarioVars
  <2>1. UNCHANGED <<measured, basis, report, errors, phase, file, scenario>>
    BY <1>1 DEF scenarioVars, engineVars
  <2>2. Inputs' = Inputs
    BY <2>1 DEF Inputs
  <2> QED
    BY <1>same, <2>1, <2>2 DEF BaselineInv, MeasuredTypes, TypedEntries, VerdictStands,
      should_update
<1>2. CASE LaunchScenario \/ LaunchRun
  <2>1. FirstAction /\ file' = file /\ phase' \in {"act", "run_join"}
    BY <1>2 DEF LaunchScenario, LaunchRun
  <2> QED
    BY <1>same, <2>1, NewProcessKeepsBaseline
<1>3. CASE LoadFails
  <2>1. UNCHANGED <<measured, basis, file, phase>> /\ phase = "off"
    BY <1>3 DEF LoadFails
  <2> QED
    BY <1>same, <2>1, OtherStepsKeepBaseline DEF BaselineInv, MeasuredTypes
<1>4. ASSUME NEW code, ProcessEnds(code) PROVE BaselineInv' /\ BaselineStep
  <2>1. FirstAction /\ file' = file /\ phase' = "off"
    BY <1>4 DEF ProcessEnds
  <2> QED
    BY <1>same, <2>1, NewProcessKeepsBaseline
<1>5. CASE RunAction
  <2>1. phase = "act" /\ UNCHANGED restVars
    BY <1>5 DEF RunAction, AllJoin, StartMediaSkips, StartMediaBegins, StartMediaGoesOn,
      StartMediaFails, PublishIntent, PttCall, AlternateOfNobody, AlternateAsks,
      AlternateReleases, NetworkTransition, KillBot, Wait, Acting
  <2>2. UNCHANGED <<phase, measured, basis, file>>
    BY <2>1 DEF restVars
  <2> QED
    BY <1>same, <2>1, <2>2, OtherStepsKeepBaseline DEF BaselineInv, MeasuredTypes
<1>6. CASE Collect
  <2>1. /\ measured' \in [PublishingBots -> Snapshots]
        /\ phase' = "disconnect" /\ UNCHANGED <<basis, file>>
    BY <1>6 DEF Collect
  <2>2. MeasuredTypes'
    BY <2>1 DEF MeasuredTypes
  <2> QED
    BY <1>same, <2>1, <2>2, OtherStepsKeepBaseline
<1>7. CASE DisconnectAll
  <2>1. phase' \in {"disconnect", "judge"} /\ UNCHANGED <<measured, basis, file>>
    BY <1>7 DEF DisconnectAll, DisconnectNext
  <2> QED
    BY <1>same, <2>1, OtherStepsKeepBaseline DEF BaselineInv, MeasuredTypes
<1>8. CASE JudgeRun
  <2>1. /\ basis' = file /\ phase' = "save"
        /\ UNCHANGED <<measured, errors, scenario, file>>
    BY <1>8 DEF JudgeRun
  <2>2. PICK l1 : LET l2 == Layer2(Inputs, file.readable, file.entries,
                                   Resolve(scenario.judgement), errors)
                  IN  report' = [layer1 |-> l1, layer2 |-> l2, overall |-> Overall(l1, l2)]
    BY <1>8 DEF JudgeRun
  <2>3. Inputs' = Inputs
    BY <2>1 DEF Inputs
  <2>4. VerdictStands'
    BY <2>1, <2>2, <2>3 DEF VerdictStands
  <2> QED
    BY <1>same, <2>1, <2>4 DEF BaselineInv, MeasuredTypes, TypedEntries
<1>9. CASE NotSaved \/ WriteFails
  <2>1. /\ phase \in {"save", "write"} /\ phase' = "exit"
        /\ UNCHANGED savingVars /\ file' = file
    BY <1>9 DEF NotSaved, WriteFails
  <2> QED
    BY <1>same, <2>1, SavingKeepsBaseline DEF BaselineInv
<1>10. CASE Truncate
  <2>1. /\ phase = "save" /\ should_update /\ phase' = "write"
        /\ UNCHANGED savingVars /\ file' = Unreadable
    BY <1>10 DEF Truncate
  <2>2. BaselineInv'
    BY <2>1, NothingTyped, SavingKeepsBaseline
  <2>3. BaselineStep
    BY <2>1, WrittenIsWithin DEF BaselineStep, Unreadable
  <2> QED
    BY <2>2, <2>3
<1>11. CASE Write
  <2>1. /\ phase = "write" /\ should_update /\ phase' = "exit"
        /\ UNCHANGED savingVars
        /\ file' = [readable |-> TRUE, entries |-> CreateBaseline(Inputs)]
    BY <1>11 DEF Write, BaselineInv
  <2>2. TypedEntries(file')
    BY <2>1, WrittenIsWithin DEF TypedEntries
  <2>3. BaselineInv'
    BY <2>1, <2>2, SavingKeepsBaseline
  <2>4. BaselineStep
    BY <2>1, WrittenIsWithin DEF BaselineStep
  <2> QED
    BY <2>3, <2>4
<1>12. CASE RunJoin \/ RunMedia \/ RunPtt \/ RunHold \/ RunDisconnect
  <2>1. UNCHANGED runRest /\ phase' \notin {"save", "write", "exit"}
    BY <1>12 DEF RunJoin, RunMedia, RunPtt, RunHold, RunDisconnect, BotDone, Stay, AfterMedia,
      runRest
  <2>2. UNCHANGED <<measured, basis, file>>
    BY <2>1 DEF runRest
  <2> QED
    BY <1>same, <2>1, <2>2, OtherStepsKeepBaseline DEF BaselineInv, MeasuredTypes
<1>13. Crash \/ Exit \/ RunReturns \/ RunEnds => \E code : ProcessEnds(code)
  BY DEF Crash, Exit, RunReturns, RunEnds
<1>14. [CliNext]_cliVars => UNCHANGED scenarioVars \/ ScenarioNext \/ LaunchRun \/ RunStep
  BY DEF CliNext, cliVars, Bot, Cap, Conf, Dist
<1> QED
  BY <1>1, <1>2, <1>3, <1>4, <1>5, <1>6, <1>7, <1>8, <1>9, <1>10, <1>11, <1>12, <1>13, <1>14
  DEF ScenarioNext, EngineStep, RunStep

(***************************************************************************)
(* The baseline changes only by a run that passes, and from the one the    *)
(* run was judged against to the one it writes no participant they share   *)
(* is worse by more than the thresholds, the jitter after a zero excepted  *)
(* (engine.rs:201, judge_layer2, create_baseline).  A rise of exactly the  *)
(* threshold is within them, though not for thresholds.rs.                 *)
(***************************************************************************)
THEOREM CliRatchet == CliSpec => Ratchet
<1>1. CliInit => BaselineInv
  <2>1. ScenarioInit => /\ measured = <<>> /\ file = Unreadable /\ basis = Unreadable
                        /\ phase = "off"
    BY DEF ScenarioInit
  <2> QED
    BY <2>1, NothingTyped DEF CliInit, BaselineInv, MeasuredTypes, VerdictStands
<1>2. BaselineInv /\ [CliNext]_cliVars => BaselineInv' /\ [BaselineStep]_scenarioVars
  BY BaselineStepHolds
<1> QED
  BY <1>1, <1>2, PTL DEF CliSpec, Ratchet

-----------------------------------------------------------------------------
(***************************************************************************)
(* Where a process is: the action, the bot or turn of it, and the step.    *)
(* A process that goes over the bots is never past the last of them.       *)
(***************************************************************************)
InScenario == phase \in Phases \ {"off"}
Tl == Timeline(scenario.actions)

OverBots ==
  \/ phase = "act" /\ pc <= Len(scenario.actions) /\ Tl[pc].type # "ptt_alternate"
  \/ phase \in RunPhases \cup {"disconnect"}

CursorInv ==
  /\ OverBots => cursor <= BotCount
  /\ phase = "act" /\ pc > Len(scenario.actions) => cursor = 1
  /\ phase = "run_hold" => cursor = 1

StepOf(type) == IF type = "ptt_alternate" THEN {"talk"}
                ELSE IF type = "start_media" THEN {"setup", "intent"} ELSE {}

AtStepInv ==
  step # "enter" =>
    \/ phase = "run_media" /\ step \in {"setup", "intent"}
    \/ phase = "run_ptt" /\ step = "talk"
    \/ phase = "act" /\ pc <= Len(scenario.actions) /\ step \in StepOf(Tl[pc].type)

Positions ==
  /\ phase \in Phases \cup RunPhases
  /\ pc \in 1 .. Len(scenario.actions) + 1 /\ cursor \in Nat \ {0}
  /\ step \in {"enter", "setup", "intent", "talk"}
  /\ CursorInv /\ AtStepInv

LEMMA FileTypes ==
  ASSUME scenario \in Scenarios
  PROVE  /\ BotCount \in Nat \ {0} /\ Len(scenario.actions) \in Nat
         /\ DOMAIN Tl = 1 .. Len(scenario.actions)
         /\ \A n \in 1 .. BotCount : scenario.participants[n] \in Bots
         /\ \A m, n \in 1 .. BotCount :
              m # n => scenario.participants[m] # scenario.participants[n]
         /\ \A b \in Bots : \E n \in 1 .. BotCount : b = scenario.participants[n]
<1>1. /\ scenario.participants \in Seq(Bots) /\ Len(scenario.participants) > 0
      /\ \A i, j \in DOMAIN scenario.participants :
           i # j => scenario.participants[i] # scenario.participants[j]
      /\ Bots = {scenario.participants[i] : i \in DOMAIN scenario.participants}
      /\ scenario.actions \in Seq(Actions)
  BY ScenarioAssumption
<1>2. /\ Len(scenario.participants) \in Nat /\ Len(scenario.actions) \in Nat
      /\ DOMAIN scenario.participants = 1 .. Len(scenario.participants)
      /\ DOMAIN scenario.actions = 1 .. Len(scenario.actions)
  BY <1>1
<1>3. DOMAIN Tl = DOMAIN scenario.actions
  BY DEF Timeline, Tl
<1>4. /\ \A n \in 1 .. BotCount : scenario.participants[n] \in Bots
      /\ \A b \in Bots : \E n \in 1 .. BotCount : b = scenario.participants[n]
  BY <1>1, <1>2, Zenon DEF BotCount
<1>5. BotCount \in Nat \ {0}
  BY <1>1, <1>2 DEF BotCount
<1> QED
  BY <1>1, <1>2, <1>3, <1>4, <1>5, Zenon DEF BotCount

LEMMA ThisBotIsOne ==
  ASSUME scenario \in Scenarios, Positions, OverBots
  PROVE  ThisBot \in Bots /\ cursor \in 1 .. BotCount
<1>1. cursor \in 1 .. BotCount
  BY FileTypes DEF Positions, CursorInv
<1> QED
  BY <1>1, FileTypes DEF ThisBot

\* How an action moves the process on.
ActMove ==
  \/ ActionDone
  \/ Tl[pc].type # "ptt_alternate" /\ NextOf(BotCount)
  \/ Tl[pc].type = "ptt_alternate" /\ NextOf(Turns)
  \/ /\ UNCHANGED <<pc, cursor>>
     /\ step' \in {"enter"} \cup StepOf(Tl[pc].type)

LEMMA ActMoveKeepsPositions ==
  ASSUME scenario \in Scenarios, Positions, phase = "act", pc <= Len(scenario.actions),
         UNCHANGED <<scenario, phase>>, ActMove
  PROVE  Positions'
<1>1. /\ BotCount \in Nat \ {0} /\ Len(scenario.actions) \in Nat /\ pc \in Nat
      /\ cursor \in Nat \ {0} /\ pc >= 1
      /\ Tl[pc].type # "ptt_alternate" => cursor <= BotCount
  BY FileTypes DEF Positions, CursorInv, OverBots
<1>2. BotCount' = BotCount /\ Tl' = Tl /\ scenario' = scenario
  BY DEF BotCount, Tl
<1>3. CASE ActionDone
  <2>1. pc' = pc + 1 /\ cursor' = 1 /\ step' = "enter"
    BY <1>3 DEF ActionDone
  <2>2. CursorInv' /\ AtStepInv'
    BY <1>1, <1>2, <2>1 DEF CursorInv, AtStepInv
  <2> QED
    BY <1>1, <1>2, <2>1, <2>2 DEF Positions
<1>4. CASE /\ cursor' \in Nat \ {0} /\ pc' = pc /\ step' \in {"enter"} \cup StepOf(Tl[pc].type)
           /\ Tl[pc].type # "ptt_alternate" => cursor' <= BotCount
  <2>1. CursorInv'
    BY <1>1, <1>2, <1>4 DEF CursorInv, OverBots, RunPhases
  <2>2. AtStepInv' /\ step' \in {"enter", "setup", "intent", "talk"}
    BY <1>1, <1>2, <1>4 DEF AtStepInv, StepOf
  <2> QED
    BY <1>1, <1>2, <1>4, <2>1, <2>2 DEF Positions
<1>5. ASSUME NEW count, NextOf(count), Tl[pc].type # "ptt_alternate" => count = BotCount
      PROVE  Positions'
  <2>1. CASE cursor < count
    <3>1. cursor' = cursor + 1 /\ step' = "enter" /\ pc' = pc
      BY <1>5, <2>1 DEF NextOf
    <3>2. Tl[pc].type # "ptt_alternate" => cursor' <= BotCount
      BY <1>1, <1>5, <2>1, <3>1
    <3> QED
      BY <1>1, <1>4, <3>1, <3>2
  <2>2. CASE ~(cursor < count)
    BY <1>3, <1>5, <2>2 DEF NextOf
  <2> QED
    BY <2>1, <2>2
<1> QED
  BY <1>1, <1>3, <1>4, <1>5 DEF ActMove

LEMMA RunActionMoves ==
  ASSUME RunAction
  PROVE  /\ phase = "act" /\ pc <= Len(scenario.actions)
         /\ UNCHANGED restVars /\ ActMove
<1> USE DEF Acting, Tl, AtStep, StepOf
<1>1. CASE AllJoin
  BY <1>1 DEF AllJoin, ActMove
<1>2. CASE StartMediaSkips \/ StartMediaBegins \/ StartMediaGoesOn
  BY <1>2 DEF StartMediaSkips, StartMediaBegins, StartMediaGoesOn, ActMove
<1>3. CASE StartMediaFails \/ PublishIntent
  BY <1>3 DEF StartMediaFails, PublishIntent, ActMove
<1>4. CASE AlternateAsks \/ AlternateReleases
  BY <1>4 DEF AlternateAsks, AlternateReleases, NextTurn, ActMove
<1>5. CASE PttCall \/ AlternateOfNobody \/ NetworkTransition \/ KillBot \/ Wait
  BY <1>5 DEF PttCall, AlternateOfNobody, NetworkTransition, KillBot, Wait, ActMove
<1> QED
  BY <1>1, <1>2, <1>3, <1>4, <1>5 DEF RunAction

\* A process that begins or has ended.
LEMMA FirstPositions ==
  ASSUME scenario \in Scenarios, scenario' = scenario, FirstAction,
         phase' \in {"off", "act", "run_join"}
  PROVE  Positions'
<1>1. pc' = 1 /\ cursor' = 1 /\ step' = "enter"
  BY DEF FirstAction
<1>2. /\ BotCount' \in Nat \ {0} /\ Len(scenario'.actions) \in Nat
  BY FileTypes DEF BotCount
<1>3. CursorInv' /\ AtStepInv'
  BY <1>1, <1>2 DEF CursorInv, AtStepInv
<1> QED
  BY <1>1, <1>2, <1>3 DEF Positions, Phases, RunPhases

\* A phase in which there is nothing to go over.
LEMMA PlainPositions ==
  ASSUME Positions, UNCHANGED <<scenario, pc, cursor>>, step' = "enter",
         phase' \in {"judge", "save", "write", "exit"}
  PROVE  Positions'
BY DEF Positions, CursorInv, OverBots, AtStepInv, Phases, RunPhases

LEMMA BotDoneKeepsPositions ==
  ASSUME scenario \in Scenarios, Positions, phase \in RunPhases, phase # "run_hold",
         scenario' = scenario, NEW after \in SUBSET RunPhases, BotDone(after)
  PROVE  Positions'
<1>1. /\ BotCount \in Nat \ {0} /\ cursor \in Nat \ {0} /\ cursor <= BotCount
      /\ pc \in 1 .. Len(scenario.actions) + 1
  BY FileTypes DEF Positions, CursorInv, OverBots
<1>2. /\ BotCount' = BotCount /\ pc' = pc /\ step' = "enter"
  BY DEF BotCount, BotDone
<1>3. /\ phase' \in RunPhases /\ cursor' \in Nat \ {0} /\ cursor' <= BotCount
      /\ phase' = "run_hold" => cursor' = 1
  BY <1>1 DEF BotDone
<1>4. CursorInv' /\ AtStepInv'
  BY <1>2, <1>3 DEF CursorInv, AtStepInv, RunPhases
<1> QED
  BY <1>1, <1>2, <1>3, <1>4 DEF Positions

\* What of the process a step of run changes.
LEMMA RunStepMoves ==
  ASSUME RunJoin \/ RunMedia \/ RunPtt \/ RunHold \/ RunDisconnect
  PROVE  /\ phase \in RunPhases /\ UNCHANGED runRest
         /\ \/ phase # "run_hold" /\ \E after \in SUBSET RunPhases : BotDone(after)
            \/ phase = "run_media" /\ \E s \in {"setup", "intent"} : Stay(s)
            \/ phase = "run_ptt" /\ Stay("talk")
            \/ phase = "run_hold" /\ phase' = "run_disconnect" /\ UNCHANGED <<pc, cursor, step>>
<1>1. CASE RunJoin
  BY <1>1 DEF RunJoin, RunPhases
<1>2. CASE RunMedia
  <2>1. AfterMedia \in SUBSET RunPhases
    BY DEF AfterMedia, RunPhases
  <2> QED
    BY <1>2, <2>1 DEF RunMedia, RunPhases
<1>3. CASE RunPtt
  BY <1>3 DEF RunPtt, RunPhases
<1>4. CASE RunHold
  BY <1>4 DEF RunHold, RunPhases
<1>5. CASE RunDisconnect
  BY <1>5 DEF RunDisconnect, RunPhases
<1> QED
  BY <1>1, <1>2, <1>3, <1>4, <1>5

LEMMA RunStepKeepsPositions ==
  ASSUME scenario \in Scenarios, Positions,
         RunJoin \/ RunMedia \/ RunPtt \/ RunHold \/ RunDisconnect
  PROVE  Positions'
<1>1. phase \in RunPhases /\ scenario' = scenario
  BY RunStepMoves DEF runRest
<1>2. CASE phase # "run_hold" /\ \E after \in SUBSET RunPhases : BotDone(after)
  BY <1>1, <1>2, BotDoneKeepsPositions
<1>3. CASE phase = "run_media" /\ \E s \in {"setup", "intent"} : Stay(s)
  BY <1>1, <1>3 DEF Stay, Positions, CursorInv, OverBots, AtStepInv, RunPhases, BotCount, Tl
<1>4. CASE phase = "run_ptt" /\ Stay("talk")
  BY <1>1, <1>4 DEF Stay, Positions, CursorInv, OverBots, AtStepInv, RunPhases, BotCount, Tl
<1>5. CASE /\ phase = "run_hold" /\ phase' = "run_disconnect"
           /\ UNCHANGED <<pc, cursor, step>>
  BY <1>1, <1>5 DEF Positions, CursorInv, OverBots, AtStepInv, RunPhases, BotCount, Tl
<1> QED
  BY <1>2, <1>3, <1>4, <1>5, RunStepMoves

(***************************************************************************)
(* Every step keeps the positions (execute_actions, cmd_run).              *)
(***************************************************************************)
EndStep == Collect \/ DisconnectAll \/ JudgeRun \/ NotSaved \/ Truncate \/ Write \/ WriteFails

\* The step of a process, of whichever command with bots.
ProcessStep == RunAction \/ EndStep \/ RunJoin \/ RunMedia \/ RunPtt \/ RunHold \/ RunDisconnect

Starts == LaunchScenario \/ LaunchRun
Ends == \E code \in {-1, 0, 1} : ProcessEnds(code)

LEMMA CliSteps ==
  ASSUME [CliNext]_cliVars
  PROVE  UNCHANGED scenarioVars \/ Starts \/ LoadFails \/ Ends \/ ProcessStep
<1>1. UNCHANGED scenarioVars \/ ScenarioNext \/ LaunchRun \/ RunStep
  BY DEF CliNext, cliVars, Bot, Cap, Conf, Dist
<1>2. Crash \/ Exit \/ RunReturns \/ RunEnds => Ends
  BY DEF Crash, Exit, RunReturns, RunEnds, Ends
<1> QED
  BY <1>1, <1>2 DEF ScenarioNext, EngineStep, RunStep, ProcessStep, EndStep, Starts

LEMMA EndStepKeepsPositions ==
  ASSUME scenario \in Scenarios, Positions, EndStep
  PROVE  Positions' /\ scenario' = scenario
<1>t. /\ BotCount \in Nat \ {0} /\ cursor \in Nat \ {0} /\ pc \in Nat
      /\ Len(scenario.actions) \in Nat
  BY FileTypes DEF Positions
<1>1. CASE Collect
  <2>1. /\ UNCHANGED <<scenario, pc, cursor, step>> /\ phase' = "disconnect"
        /\ phase = "act" /\ pc > Len(scenario.actions)
    BY <1>1 DEF Collect
  <2>2. cursor' = 1 /\ step' = "enter"
    BY <1>t, <2>1 DEF Positions, CursorInv, AtStepInv, RunPhases
  <2>3. CursorInv' /\ AtStepInv'
    BY <1>t, <2>1, <2>2 DEF CursorInv, AtStepInv, BotCount
  <2> QED
    BY <1>t, <2>1, <2>2, <2>3 DEF Positions, Phases
<1>2. CASE DisconnectAll
  <2>1. /\ UNCHANGED <<scenario, pc, step>> /\ phase = "disconnect"
        /\ \/ cursor < BotCount /\ cursor' = cursor + 1 /\ phase' = "disconnect"
           \/ cursor' = 1 /\ phase' = "judge"
    BY <1>2 DEF DisconnectAll, DisconnectNext
  <2>2. step' = "enter"
    BY <2>1 DEF Positions, AtStepInv
  <2>3. CursorInv' /\ AtStepInv'
    BY <1>t, <2>1, <2>2 DEF CursorInv, OverBots, AtStepInv, BotCount, RunPhases
  <2> QED
    BY <1>t, <2>1, <2>2, <2>3 DEF Positions, Phases
<1>3. CASE JudgeRun \/ NotSaved \/ Truncate \/ Write \/ WriteFails
  <2>1. /\ UNCHANGED <<scenario, pc, cursor, step>>
        /\ phase \in {"judge", "save", "write"} /\ phase' \in {"save", "write", "exit"}
    BY <1>3 DEF JudgeRun, NotSaved, Truncate, Write, WriteFails, savingVars
  <2>2. step' = "enter"
    BY <2>1 DEF Positions, AtStepInv
  <2> QED
    BY <2>1, <2>2, PlainPositions
<1> QED
  BY <1>1, <1>2, <1>3 DEF EndStep

LEMMA PositionsStep ==
  ASSUME scenario \in Scenarios, Positions, [CliNext]_cliVars
  PROVE  Positions' /\ scenario' = scenario
<1>1. CASE UNCHANGED scenarioVars
  BY <1>1 DEF scenarioVars, engineVars, Positions, CursorInv, OverBots, AtStepInv, BotCount, Tl
<1>2. CASE Starts
  <2>1. FirstAction /\ scenario' = scenario /\ phase' \in {"act", "run_join"}
    BY <1>2 DEF Starts, LaunchScenario, LaunchRun
  <2> QED
    BY <2>1, FirstPositions
<1>3. CASE LoadFails
  BY <1>3 DEF LoadFails, Positions, CursorInv, OverBots, AtStepInv, BotCount, Tl
<1>4. CASE Ends
  <2>1. FirstAction /\ scenario' = scenario /\ phase' = "off"
    BY <1>4 DEF Ends, ProcessEnds
  <2> QED
    BY <2>1, FirstPositions
<1>5. CASE RunAction
  BY <1>5, RunActionMoves, ActMoveKeepsPositions DEF restVars
<1>6. CASE EndStep
  BY <1>6, EndStepKeepsPositions
<1>7. CASE RunJoin \/ RunMedia \/ RunPtt \/ RunHold \/ RunDisconnect
  BY <1>7, RunStepMoves, RunStepKeepsPositions DEF runRest
<1> QED
  BY <1>1, <1>2, <1>3, <1>4, <1>5, <1>6, <1>7, CliSteps DEF ProcessStep

-----------------------------------------------------------------------------
(***************************************************************************)
(* The types of the commands.                                              *)
(***************************************************************************)
LEMMA BuiltinType == ASSUME NEW profile PROVE Builtin(profile) \in Profiles
BY BotLifeAssumption DEF Builtin

LEMMA CreateTypes == ASSUME NEW profile, CreateBots(profile) PROVE BotTypeOK'
BY BuiltinType DEF CreateBots, BotTypeOK, Statuses, Stages

LEMMA OpKeepsTypes ==
  ASSUME BotTypeOK, NEW b \in Bots, BotOp(b)
  PROVE  BotTypeOK'
<1> USE DEF BotTypeOK, Statuses, Stages
<1>1. CASE Join(b)
  BY <1>1 DEF Join
<1>2. CASE BeginSetup(b)
  <2>1. setups' \in [Bots -> Nat]
    <3>1. setups' = [c \in Bots |-> IF c = b THEN setups[c] + 1 ELSE setups[c]]
      BY <1>2, Zenon DEF BeginSetup
    <3>2. \A c \in Bots : setups[c] + 1 \in Nat /\ setups[c] \in Nat
      OBVIOUS
    <3> QED
      BY <3>1, <3>2
  <2> QED
    BY <1>2, <2>1 DEF BeginSetup
<1>3. CASE StunAnswered(b)
  <2>1. Reader(b) \in Bots \X Nat \X PCs
    BY DEF Reader, PC, PCs
  <2> QED
    BY <1>3, <2>1 DEF StunAnswered
<1>4. CASE DtlsDone(b)
  BY <1>4 DEF DtlsDone, ReaderAborted
<1>5. CASE MediaFails(b)
  BY <1>5 DEF MediaFails, StunTimeout, DtlsFails
<1>6. CASE StartPublishing(b)
  BY <1>6 DEF StartPublishing
<1>7. CASE Disconnect(b)
  BY <1>7 DEF Disconnect, Stopped
<1>8. CASE \E profile : UpdateNetFilter(b, profile)
  BY <1>8, BuiltinType DEF UpdateNetFilter
<1> QED
  BY <1>1, <1>2, <1>3, <1>4, <1>5, <1>6, <1>7, <1>8 DEF BotOp, MediaStep

\* A process acts on the bots of its file.
LEMMA ProcessOps ==
  ASSUME scenario \in Scenarios, Positions, ProcessStep
  PROVE  UNCHANGED botVars \/ \E b \in Bots : BotOp(b)
<1>0. OverBots => ThisBot \in Bots
  BY ThisBotIsOne
<1>1. CASE AllJoin
  BY <1>0, <1>1 DEF AllJoin, Acting, OverBots, Tl, BotOp
<1>2. CASE StartMediaSkips \/ StartMediaBegins \/ StartMediaGoesOn \/ StartMediaFails
           \/ PublishIntent
  <2>1. OverBots
    BY <1>2 DEF StartMediaSkips, StartMediaBegins, StartMediaGoesOn, StartMediaFails,
      PublishIntent, Acting, OverBots, Tl
  <2> QED
    BY <1>0, <1>2, <2>1 DEF StartMediaSkips, StartMediaBegins, StartMediaGoesOn,
      StartMediaFails, SetupError, PublishIntent, BotOp
<1>3. CASE PttCall \/ AlternateOfNobody \/ AlternateAsks \/ AlternateReleases \/ Wait
  BY <1>3 DEF PttCall, AlternateOfNobody, AlternateAsks, AlternateReleases, Wait
<1>4. CASE NetworkTransition \/ KillBot
  BY <1>4 DEF NetworkTransition, KillBot, BotOp
<1>5. CASE DisconnectAll
  BY <1>0, <1>5 DEF DisconnectAll, DisconnectNext, OverBots, BotOp
<1>6. CASE Collect \/ JudgeRun \/ NotSaved \/ Truncate \/ Write \/ WriteFails
  BY <1>6 DEF Collect, JudgeRun, NotSaved, Truncate, Write, WriteFails, savingVars
<1>7. CASE RunJoin \/ RunMedia \/ RunDisconnect
  <2>1. OverBots
    BY <1>7 DEF RunJoin, RunMedia, RunDisconnect, OverBots, RunPhases
  <2> QED
    BY <1>0, <1>7, <2>1 DEF RunJoin, RunMedia, RunDisconnect, Stay, BotOp
<1>8. CASE RunPtt \/ RunHold
  BY <1>8 DEF RunPtt, RunHold
<1> QED
  BY <1>1, <1>2, <1>3, <1>4, <1>5, <1>6, <1>7, <1>8 DEF ProcessStep, RunAction, EndStep

EngineTypes ==
  /\ BotTypeOK
  /\ scenario \in Scenarios /\ runs \in 0 .. MaxRuns
  /\ {room, errors} \subseteq BOOLEAN
  /\ DOMAIN measured \subseteq Bots
  /\ report.overall \in {"none", "PASS", "FAIL"}
  /\ DOMAIN file.entries \subseteq Bots
  /\ exit \in {-1, 0, 1, 2}

EngineInv == EngineTypes /\ Positions

LEMMA NothingIn == DOMAIN <<>> = {}
OBVIOUS

LEMMA EngineInit == CliInit => EngineInv
<1> SUFFICES ASSUME CliInit PROVE EngineInv
  OBVIOUS
<1>1. ScenarioInit
  BY DEF CliInit
<1>2. BotTypeOK
  BY <1>1, BotLifeAssumption DEF ScenarioInit, NoBots, BotTypeOK, Statuses, Stages
<1>3. EngineTypes
  <2>1. 0 \in 0 .. MaxRuns
    BY ScenarioAssumption
  <2>2. DOMAIN file.entries = {} /\ DOMAIN measured = {} /\ report.overall = "none"
    BY <1>1, NothingIn DEF ScenarioInit, Unreadable, NoReport
  <2> QED
    BY <1>1, <1>2, <2>1, <2>2 DEF ScenarioInit, EngineTypes
<1>4. Len(scenario.actions) \in Nat
  BY <1>3, FileTypes DEF EngineTypes
<1>5. Positions
  BY <1>1, <1>4 DEF ScenarioInit, Positions, CursorInv, OverBots, AtStepInv, Phases, RunPhases
<1> QED
  BY <1>3, <1>5 DEF EngineInv

(***************************************************************************)
(* Every step keeps the types of the engine (engine.rs, cmd_run).          *)
(***************************************************************************)
LEMMA EngineStepTyped ==
  ASSUME EngineInv, [CliNext]_cliVars
  PROVE  EngineInv'
<1>p. EngineTypes /\ Positions /\ Positions' /\ scenario \in Scenarios /\ scenario' = scenario
  BY PositionsStep DEF EngineInv, EngineTypes
<1>1. CASE UNCHANGED scenarioVars
  BY <1>1, <1>p DEF scenarioVars, botVars, engineVars, EngineInv, EngineTypes, BotTypeOK
<1>2. CASE Starts
  <2>1. /\ FirstAction /\ runs' = runs + 1 /\ runs < MaxRuns /\ exit' = -1 /\ file' = file
        /\ \E profile : CreateBots(profile)
    BY <1>2 DEF Starts, LaunchScenario, LaunchRun
  <2>2. runs' \in 0 .. MaxRuns
    BY <1>p, <2>1, ScenarioAssumption DEF EngineTypes
  <2> QED
    BY <1>p, <2>1, <2>2, CreateTypes, NothingIn DEF FirstAction, EngineInv, EngineTypes,
      NoReport
<1>3. CASE LoadFails
  <2>1. runs' \in 0 .. MaxRuns
    BY <1>3, <1>p, ScenarioAssumption DEF LoadFails, EngineTypes
  <2> QED
    BY <1>3, <1>p, <2>1 DEF LoadFails, botVars, EngineInv, EngineTypes, BotTypeOK
<1>4. CASE Ends
  <2>1. PICK code \in {-1, 0, 1} : ProcessEnds(code)
    BY <1>4 DEF Ends
  <2> QED
    BY <1>p, <2>1, CreateTypes, NothingIn DEF ProcessEnds, FirstAction, EngineInv,
      EngineTypes, NoReport
<1>5. ASSUME ProcessStep PROVE BotTypeOK'
  BY <1>5, <1>p, ProcessOps, OpKeepsTypes DEF EngineTypes, botVars, BotTypeOK
<1>6. CASE RunAction
  <2>1. UNCHANGED restVars /\ BotTypeOK'
    BY <1>5, <1>6, RunActionMoves DEF ProcessStep
  <2>2. {room', errors'} \subseteq BOOLEAN
    BY <1>6, <1>p DEF RunAction, AllJoin, StartMediaSkips, StartMediaBegins, StartMediaGoesOn,
      StartMediaFails, SetupError, PublishIntent, PttCall, AlternateOfNobody, AlternateAsks,
      AlternateReleases, NetworkTransition, KillBot, Wait, EngineTypes
  <2> QED
    BY <1>p, <2>1, <2>2 DEF restVars, EngineInv, EngineTypes
<1>7. CASE EndStep
  <2>1. BotTypeOK' /\ UNCHANGED <<runs, room, errors, exit>>
    BY <1>5, <1>7 DEF ProcessStep, EndStep, Collect, DisconnectAll, JudgeRun, NotSaved,
      Truncate, Write, WriteFails, savingVars
  <2>2. DOMAIN measured' \subseteq Bots
    BY <1>7, <1>p DEF EndStep, Collect, PublishingBots, DisconnectAll, JudgeRun, NotSaved,
      Truncate, Write, WriteFails, savingVars, EngineTypes
  <2>3. report'.overall \in {"none", "PASS", "FAIL"}
    <3>1. \A l1, l2 : Overall(l1, l2) \in {"PASS", "FAIL"}
      BY DEF Overall
    <3>2. CASE JudgeRun
      BY <3>1, <3>2 DEF JudgeRun
    <3> QED
      BY <1>7, <1>p, <3>2 DEF EndStep, Collect, DisconnectAll, NotSaved, Truncate, Write,
        WriteFails, savingVars, EngineTypes
  <2>4. DOMAIN file'.entries \subseteq Bots
    BY <1>7, <1>p DEF EndStep, Collect, DisconnectAll, JudgeRun, NotSaved, Truncate, Write,
      WriteFails, savingVars, Unreadable, CreateBaseline, Inputs, EngineTypes
  <2> QED
    BY <1>p, <2>1, <2>2, <2>3, <2>4 DEF EngineInv, EngineTypes
<1>8. CASE RunJoin \/ RunMedia \/ RunPtt \/ RunHold \/ RunDisconnect
  <2>1. UNCHANGED runRest /\ BotTypeOK'
    BY <1>5, <1>8, RunStepMoves DEF ProcessStep
  <2>2. room' \in BOOLEAN
    BY <1>8, <1>p DEF RunJoin, RunMedia, RunPtt, RunHold, RunDisconnect, EngineTypes
  <2> QED
    BY <1>p, <2>1, <2>2 DEF runRest, EngineInv, EngineTypes
<1> QED
  BY <1>1, <1>2, <1>3, <1>4, <1>6, <1>7, <1>8, CliSteps DEF ProcessStep

CapTyped == command = "cap" => IInv

(***************************************************************************)
(* The types of every command: of the processes with bots, of a row and of *)
(* the distributed point (main.rs).                                        *)
(***************************************************************************)
THEOREM CliTyped == CliSpec => []CliTypeOK
<1> DEFINE TypedInv == command \in Commands /\ EngineInv /\ CapTyped /\ DistTypeOK
<1>1. CliInit => TypedInv
  BY EngineInit, InitInv, DistTypesInit DEF CliInit, CapTyped
<1>2. TypedInv /\ [CliNext]_cliVars => TypedInv'
  <2> SUFFICES ASSUME TypedInv, [CliNext]_cliVars PROVE TypedInv'
    OBVIOUS
  <2>1. command' = command /\ [DistNext]_distVars
    BY DEF CliNext, cliVars, Bot, Cap, Conf, Dist
  <2>2. command = "cap" => [Next]_vars
    BY DEF CliNext, cliVars, confVars, Bot, Cap, Conf, Dist
  <2>3. CapTyped'
    BY <2>1, <2>2, StepInv DEF CapTyped
  <2> QED
    BY <2>1, <2>3, EngineStepTyped, DistTypesStep
<1>3. TypedInv => CliTypeOK
  BY DEF CapTyped, IInv, CliTypeOK, EngineInv, EngineTypes, Positions, ScenarioTypeOK
<1> QED
  BY <1>1, <1>2, <1>3, PTL DEF CliSpec

-----------------------------------------------------------------------------
(***************************************************************************)
(* The timeline.  Each action has its own number of actions before it, so  *)
(* that every action has one place.                                        *)
(***************************************************************************)
LEMMA BeforeIsOrder ==
  ASSUME NEW actions \in Seq(Actions)
  PROVE  /\ \A i \in DOMAIN actions : ~Before(actions, i, i)
         /\ \A i, j, k \in DOMAIN actions :
              Before(actions, i, j) /\ Before(actions, j, k) => Before(actions, i, k)
         /\ \A i, j \in DOMAIN actions :
              i # j => Before(actions, i, j) \/ Before(actions, j, i)
<1>1. \A i \in DOMAIN actions : i \in Nat /\ actions[i].at \in Nat
  <2>1. \A act \in Actions : act.at \in Nat
    BY DEF Actions
  <2>2. \A i \in DOMAIN actions : i \in Nat /\ actions[i] \in Actions
    OBVIOUS
  <2> QED
    BY <2>1, <2>2
<1> QED
  BY <1>1 DEF Before

Place(actions, i) == Cardinality(Earlier(actions, i)) + 1

LEMMA FileIsFinite ==
  ASSUME NEW n \in Nat
  PROVE  IsFiniteSet(1 .. n) /\ Cardinality(1 .. n) = n
<1>1. /\ IsFiniteSet(1 .. n)
      /\ Cardinality(1 .. n) = IF 1 > n THEN 0 ELSE n - 1 + 1
  BY FS_Interval
<1> QED
  BY <1>1

LEMMA PlacesDiffer ==
  ASSUME NEW actions \in Seq(Actions)
  PROVE  /\ Len(actions) \in Nat /\ DOMAIN actions = 1 .. Len(actions)
         /\ \A i \in DOMAIN actions : /\ Cardinality(Earlier(actions, i)) \in Nat
                                      /\ Place(actions, i) \in 1 .. Len(actions)
         /\ \A i, j \in DOMAIN actions :
              Before(actions, i, j) => Place(actions, i) < Place(actions, j)
<1>1. Len(actions) \in Nat /\ DOMAIN actions = 1 .. Len(actions)
  OBVIOUS
<1>2. IsFiniteSet(DOMAIN actions) /\ Cardinality(DOMAIN actions) = Len(actions)
  BY <1>1, FileIsFinite
<1>3. ASSUME NEW i \in DOMAIN actions
      PROVE  /\ IsFiniteSet(Earlier(actions, i)) /\ Cardinality(Earlier(actions, i)) \in Nat
             /\ Place(actions, i) \in 1 .. Len(actions)
  <2>1. Earlier(actions, i) \subseteq DOMAIN actions \ {i}
    BY BeforeIsOrder DEF Earlier
  <2>2. /\ IsFiniteSet(DOMAIN actions \ {i})
        /\ Cardinality(DOMAIN actions \ {i}) = Len(actions) - 1
    BY <1>2, FS_RemoveElement
  <2>3. /\ IsFiniteSet(Earlier(actions, i))
        /\ Cardinality(Earlier(actions, i)) <= Len(actions) - 1
    BY <2>1, <2>2, FS_Subset
  <2>4. Cardinality(Earlier(actions, i)) \in Nat
    BY <2>3, FS_CardinalityType
  <2> QED
    BY <1>1, <2>3, <2>4 DEF Place
<1>4. ASSUME NEW i \in DOMAIN actions, NEW j \in DOMAIN actions, Before(actions, i, j)
      PROVE  Place(actions, i) < Place(actions, j)
  <2>1. Earlier(actions, i) \subseteq Earlier(actions, j)
    BY <1>4, BeforeIsOrder DEF Earlier
  <2>2. i \in Earlier(actions, j) /\ i \notin Earlier(actions, i)
    BY <1>4, BeforeIsOrder DEF Earlier
  <2>3. /\ Cardinality(Earlier(actions, i)) <= Cardinality(Earlier(actions, j))
        /\ Cardinality(Earlier(actions, i)) # Cardinality(Earlier(actions, j))
    BY <1>3, <2>1, <2>2, FS_Subset
  <2> QED
    BY <1>3, <2>3 DEF Place
<1> QED
  BY <1>1, <1>3, <1>4

LEMMA PlacesAreTaken ==
  ASSUME NEW actions \in Seq(Actions), NEW k \in DOMAIN actions
  PROVE  \E i \in DOMAIN actions : Place(actions, i) = k
<1> SUFFICES ASSUME \A i \in DOMAIN actions : Place(actions, i) # k PROVE FALSE
  OBVIOUS
<1>1. /\ Len(actions) \in Nat /\ DOMAIN actions = 1 .. Len(actions)
      /\ \A i \in DOMAIN actions : Place(actions, i) \in DOMAIN actions \ {k}
  BY PlacesDiffer
<1>2. /\ IsFiniteSet(DOMAIN actions) /\ IsFiniteSet(DOMAIN actions \ {k})
      /\ Cardinality(DOMAIN actions) = Len(actions)
      /\ Cardinality(DOMAIN actions \ {k}) = Len(actions) - 1
  <2>1. IsFiniteSet(DOMAIN actions) /\ Cardinality(DOMAIN actions) = Len(actions)
    BY <1>1, FileIsFinite
  <2> QED
    BY <2>1, FS_RemoveElement
<1> DEFINE place == [i \in DOMAIN actions |-> Place(actions, i)]
<1>3. place \in [DOMAIN actions -> DOMAIN actions \ {k}]
  BY <1>1
<1>4. \E i, j \in DOMAIN actions : i # j /\ place[i] = place[j]
  <2>1. Cardinality(DOMAIN actions \ {k}) < Cardinality(DOMAIN actions)
    BY <1>1, <1>2
  <2> HIDE DEF place
  <2> QED
    BY <1>2, <1>3, <2>1, FS_PigeonHole
<1>5. PICK i \in DOMAIN actions, j \in DOMAIN actions :
        i # j /\ Place(actions, i) = Place(actions, j)
  BY <1>4
<1>6. Place(actions, i) < Place(actions, j) \/ Place(actions, j) < Place(actions, i)
  BY <1>5, BeforeIsOrder, PlacesDiffer
<1> QED
  BY <1>1, <1>5, <1>6

(***************************************************************************)
(* The timeline is the list of actions sorted by at_sec, those of the same *)
(* second in the order of the file: each once and none left out            *)
(* (engine.rs:77, sort_by).                                                *)
(***************************************************************************)
THEOREM TimelineInOrder ==
  ASSUME NEW actions \in Seq(Actions)
  PROVE  \E order \in [DOMAIN actions -> DOMAIN actions] :
           /\ \A k \in DOMAIN actions : Timeline(actions)[k] = actions[order[k]]
           /\ \A i \in DOMAIN actions : \E k \in DOMAIN actions : order[k] = i
           /\ \A k, l \in DOMAIN actions :
                k < l => order[k] # order[l] /\ Before(actions, order[k], order[l])
<1> DEFINE At(k) == CHOOSE i \in DOMAIN actions : Cardinality(Earlier(actions, i)) = k - 1
           order == [k \in DOMAIN actions |-> At(k)]
<1>1. /\ DOMAIN actions = 1 .. Len(actions) /\ Len(actions) \in Nat
      /\ \A i \in DOMAIN actions : /\ Cardinality(Earlier(actions, i)) \in Nat
                                   /\ Place(actions, i) \in DOMAIN actions
  BY PlacesDiffer
<1>2. ASSUME NEW k \in DOMAIN actions
      PROVE  At(k) \in DOMAIN actions /\ Place(actions, At(k)) = k
  <2>1. PICK i \in DOMAIN actions : Place(actions, i) = k
    BY PlacesAreTaken
  <2>2. Cardinality(Earlier(actions, i)) = k - 1
    BY <1>1, <2>1 DEF Place
  <2>3. At(k) \in DOMAIN actions /\ Cardinality(Earlier(actions, At(k))) = k - 1
    BY <2>2, Zenon
  <2> HIDE DEF At
  <2> QED
    BY <1>1, <2>3 DEF Place
<1> HIDE DEF At
<1>3. order \in [DOMAIN actions -> DOMAIN actions] /\ \A k \in DOMAIN actions : order[k] = At(k)
  BY <1>2
<1>4. \A k \in DOMAIN actions : Timeline(actions)[k] = actions[order[k]]
  BY <1>3 DEF Timeline, At
<1>5. ASSUME NEW i \in DOMAIN actions, NEW j \in DOMAIN actions,
             Place(actions, i) = Place(actions, j)
      PROVE  i = j
  BY <1>1, <1>5, BeforeIsOrder, PlacesDiffer
<1>6. ASSUME NEW i \in DOMAIN actions PROVE \E k \in DOMAIN actions : order[k] = i
  <2>1. Place(actions, i) \in DOMAIN actions
    BY <1>1
  <2>2. order[Place(actions, i)] = i
    BY <1>2, <1>3, <1>5, <2>1
  <2> QED
    BY <2>1, <2>2
<1>7. ASSUME NEW k \in DOMAIN actions, NEW l \in DOMAIN actions, k < l
      PROVE  order[k] # order[l] /\ Before(actions, order[k], order[l])
  <2>1. /\ order[k] \in DOMAIN actions /\ order[l] \in DOMAIN actions
        /\ Place(actions, order[k]) = k /\ Place(actions, order[l]) = l
    BY <1>2, <1>3
  <2>2. k \in Nat /\ l \in Nat
    BY <1>1
  <2>3. order[k] # order[l]
    BY <1>7, <2>1, <2>2
  <2>4. ~Before(actions, order[l], order[k])
    BY <1>7, <2>1, <2>2, PlacesDiffer
  <2> QED
    BY <2>1, <2>3, <2>4, BeforeIsOrder
<1> HIDE DEF order
<1> QED
  BY <1>3, <1>4, <1>6, <1>7

-----------------------------------------------------------------------------
(***************************************************************************)
(* Turns.  The media of one bot at a time is set up, in a scenario and in  *)
(* run.                                                                    *)
(***************************************************************************)
StartMedia ==
  StartMediaSkips \/ StartMediaBegins \/ StartMediaGoesOn \/ StartMediaFails \/ PublishIntent

\* The other actions of a scenario do not go over the bots.
OtherAct ==
  PttCall \/ AlternateOfNobody \/ AlternateAsks \/ AlternateReleases \/ NetworkTransition
    \/ KillBot \/ Wait

MediaTurn ==
  \/ step = "enter" /\ step' = "enter" /\ UNCHANGED botVars
  \/ step = "enter" /\ BeginSetup(ThisBot) /\ step' = "setup" /\ UNCHANGED cursor
  \/ /\ step = "setup" /\ MediaStep(ThisBot) /\ UNCHANGED cursor
     /\ step' = IF status'[ThisBot] = "media_ready" THEN "intent" ELSE "setup"
  \/ step = "setup" /\ MediaFails(ThisBot) /\ step' = "enter"
  \/ step = "intent" /\ StartPublishing(ThisBot) /\ step' = "enter"
  \/ step = "intent" /\ step' = "enter" /\ UNCHANGED botVars

LEMMA MediaTurns == StartMedia \/ RunMedia => MediaTurn
<1>1. \A count : NextOf(count) => step' = "enter"
  BY DEF NextOf, ActionDone
<1>2. \A after : BotDone(after) => step' = "enter"
  BY DEF BotDone
<1>3. StartMedia => MediaTurn
  BY <1>1 DEF StartMedia, StartMediaSkips, StartMediaBegins, StartMediaGoesOn,
    StartMediaFails, SetupError, PublishIntent, AtStep, MediaTurn
<1>4. RunMedia => MediaTurn
  BY <1>2 DEF RunMedia, Stay, MediaTurn
<1> QED
  BY <1>3, <1>4

LEMMA OtherActs ==
  ASSUME OtherAct
  PROVE  /\ Tl[pc].type \notin {"all_join", "start_media"}
         /\ errors => errors'
         /\ \/ UNCHANGED botVars
            \/ \E b \in Bots : \E profile : UpdateNetFilter(b, profile)
            \/ /\ Tl[pc].type = "kill_bot" /\ Tl[pc].actor \in Bots
               /\ Disconnect(Tl[pc].actor)
         /\ pc' = pc \/ (pc' = pc + 1 /\ cursor' = 1)
         /\ step' \in {"enter", "talk"}
<1> USE DEF Acting, Tl, Action, ActionDone
<1>1. CASE PttCall \/ AlternateOfNobody \/ Wait
  BY <1>1 DEF PttCall, AlternateOfNobody, Wait
<1>2. CASE AlternateAsks \/ AlternateReleases
  BY <1>2 DEF AlternateAsks, AlternateReleases, AtStep, NextTurn, NextOf
<1>3. CASE NetworkTransition
  BY <1>3 DEF NetworkTransition
<1>4. CASE KillBot
  BY <1>4 DEF KillBot
<1> QED
  BY <1>1, <1>2, <1>3, <1>4 DEF OtherAct

Unset(st) == st \in {"enter", "talk"}

\* What a step may be for the setups.
LEMMA SetupSteps ==
  ASSUME EngineInv, [CliNext]_cliVars
  PROVE  \/ UNCHANGED <<stage, status, step, cursor, scenario>>
         \/ step' = "enter" /\ \E profile : CreateBots(profile)
         \/ scenario' = scenario /\ ThisBot \in Bots /\ MediaTurn
         \/ Unset(step) /\ Unset(step') /\ UNCHANGED stage
<1>p. Positions /\ scenario \in Scenarios /\ scenario' = scenario
  BY PositionsStep DEF EngineInv, EngineTypes
<1>1. CASE UNCHANGED scenarioVars
  BY <1>1 DEF scenarioVars, botVars, engineVars
<1>2. CASE Starts \/ Ends
  BY <1>2 DEF Starts, LaunchScenario, LaunchRun, Ends, ProcessEnds, FirstAction
<1>3. CASE LoadFails
  BY <1>3 DEF LoadFails, botVars
<1>4. CASE StartMedia \/ RunMedia
  <2>1. OverBots
    BY <1>4 DEF StartMedia, StartMediaSkips, StartMediaBegins, StartMediaGoesOn,
      StartMediaFails, PublishIntent, RunMedia, Acting, OverBots, Tl, RunPhases
  <2> QED
    BY <1>4, <1>p, <2>1, MediaTurns, ThisBotIsOne
<1>5. CASE AllJoin
  <2>1. phase = "act" /\ Tl[pc].type = "all_join" /\ step' = "enter" /\ UNCHANGED stage
    BY <1>5 DEF AllJoin, Acting, Tl, NextOf, ActionDone, Join, botVars
  <2>2. step = "enter"
    BY <1>p, <2>1 DEF Positions, AtStepInv, StepOf
  <2> QED
    BY <2>1, <2>2 DEF Unset
<1>6. CASE OtherAct
  <2>1. phase = "act" /\ Tl[pc].type # "start_media" /\ Unset(step')
    BY <1>6, OtherActs, RunActionMoves DEF RunAction, OtherAct, Unset
  <2>2. Unset(step)
    BY <1>p, <2>1 DEF Positions, AtStepInv, StepOf, Unset
  <2>3. UNCHANGED stage
    BY <1>6, OtherActs DEF botVars, UpdateNetFilter, Disconnect
  <2> QED
    BY <2>1, <2>2, <2>3
<1>7. CASE EndStep
  <2>1. /\ phase \in Phases \ {"off"} /\ UNCHANGED <<stage, step>>
        /\ phase = "act" => pc > Len(scenario.actions)
    BY <1>7 DEF EndStep, Collect, DisconnectAll, DisconnectNext, Disconnect, JudgeRun,
      NotSaved, Truncate, Write, WriteFails, savingVars, botVars, Phases
  <2>2. step = "enter"
    <3>1. pc \in Nat /\ Len(scenario.actions) \in Nat
      BY <1>p, FileTypes DEF Positions
    <3> QED
      BY <1>p, <2>1, <3>1 DEF Positions, AtStepInv, Phases
  <2> QED
    BY <2>1, <2>2 DEF Unset
<1>8. CASE RunJoin \/ RunPtt \/ RunHold \/ RunDisconnect
  <2>1. /\ phase \in RunPhases /\ phase # "run_media" /\ UNCHANGED stage
        /\ step' \in {step, "enter", "talk"}
    BY <1>8 DEF RunJoin, RunPtt, RunHold, RunDisconnect, BotDone, Stay, Join, Disconnect,
      botVars, RunPhases
  <2>2. Unset(step)
    BY <1>p, <2>1 DEF Positions, AtStepInv, RunPhases, Unset
  <2> QED
    BY <2>1, <2>2 DEF Unset
<1> QED
  BY <1>1, <1>2, <1>3, <1>4, <1>5, <1>6, <1>7, <1>8, CliSteps
  DEF ProcessStep, RunAction, StartMedia, OtherAct

SetupInv ==
  /\ \A b \in Bots : stage[b] # "idle" => step = "setup" /\ b = ThisBot
  /\ step = "setup" => status[ThisBot] = "joined"
  /\ step = "intent" => status[ThisBot] = "media_ready"

AllIdle == \A b \in Bots : stage[b] = "idle"

(***************************************************************************)
(* A setup is that of the bot whose turn it is, which is joined until it   *)
(* is over, and idle then (action_start_media, cmd_run).                   *)
(***************************************************************************)
LEMMA SetupStep ==
  ASSUME EngineInv, SetupInv, [CliNext]_cliVars
  PROVE  SetupInv'
<1>t. stage \in [Bots -> Stages] /\ status \in [Bots -> Statuses]
  BY DEF EngineInv, EngineTypes, BotTypeOK
<1>i. ASSUME step # "setup" PROVE AllIdle
  BY <1>i DEF SetupInv, AllIdle
<1>e. ASSUME AllIdle', Unset(step') PROVE SetupInv'
  BY <1>e DEF AllIdle, Unset, SetupInv
<1>1. CASE UNCHANGED <<stage, status, step, cursor, scenario>>
  BY <1>1 DEF SetupInv, ThisBot
<1>2. CASE step' = "enter" /\ \E profile : CreateBots(profile)
  <2>1. AllIdle'
    BY <1>2 DEF CreateBots, AllIdle
  <2> QED
    BY <1>2, <1>e, <2>1 DEF Unset
<1>3. CASE Unset(step) /\ Unset(step') /\ UNCHANGED stage
  <2>1. AllIdle'
    BY <1>3, <1>i DEF Unset, AllIdle
  <2> QED
    BY <1>3, <1>e, <2>1
<1>4. CASE scenario' = scenario /\ ThisBot \in Bots /\ MediaTurn
  <2> DEFINE b == ThisBot
  <2>0. b \in Bots /\ (cursor' = cursor => ThisBot' = b)
    BY <1>4 DEF ThisBot
  <2> HIDE DEF b
  <2>1. CASE step = "enter" /\ step' = "enter" /\ UNCHANGED botVars
    BY <2>1, <1>e, <1>i DEF botVars, AllIdle, Unset
  <2>2. CASE step = "enter" /\ BeginSetup(b) /\ step' = "setup" /\ UNCHANGED cursor
    <3>1. AllIdle /\ status' = status /\ status[b] = "joined" /\ ThisBot' = b
      BY <2>0, <2>2, <1>i DEF BeginSetup
    <3>2. \A c \in Bots : c # b => stage'[c] = stage[c]
      BY <1>t, <2>2 DEF BeginSetup
    <3> QED
      BY <2>2, <3>1, <3>2 DEF AllIdle, SetupInv
  <2>3. CASE /\ step = "setup" /\ MediaStep(b) /\ UNCHANGED cursor
             /\ step' = IF status'[b] = "media_ready" THEN "intent" ELSE "setup"
    <3>1. /\ status[b] = "joined" /\ ThisBot' = b
          /\ \A c \in Bots : c # b => stage[c] = "idle"
      BY <2>0, <2>3 DEF SetupInv, b
    <3>2. CASE \/ StunAnswered(b)
               \/ DtlsDone(b) /\ stage[b] = "pub_dtls"
      <4>1. /\ status' = status /\ step' = "setup"
            /\ \A c \in Bots : c # b => stage'[c] = stage[c]
        BY <1>t, <2>3, <3>1, <3>2 DEF StunAnswered, DtlsDone
      <4> QED
        BY <3>1, <4>1 DEF SetupInv
    <3>3. CASE DtlsDone(b) /\ stage[b] = "sub_dtls"
      <4>1. status'[b] = "media_ready" /\ step' = "intent"
        BY <1>t, <2>0, <2>3, <3>3 DEF DtlsDone
      <4>2. AllIdle'
        BY <1>t, <3>1, <3>3 DEF DtlsDone, AllIdle
      <4> QED
        BY <3>1, <4>1, <4>2 DEF AllIdle, SetupInv
    <3> QED
      BY <2>3, <3>2, <3>3 DEF MediaStep, DtlsDone
  <2>4. CASE step = "setup" /\ MediaFails(b) /\ step' = "enter"
    <3>1. \A c \in Bots : c # b => stage[c] = "idle"
      BY <2>4 DEF SetupInv, b
    <3>2. AllIdle'
      BY <1>t, <2>4, <3>1 DEF MediaFails, StunTimeout, DtlsFails, AllIdle
    <3> QED
      BY <2>4, <3>2, <1>e DEF Unset
  <2>5. CASE step = "intent" /\ step' = "enter" /\ (StartPublishing(b) \/ UNCHANGED botVars)
    BY <2>5, <1>e, <1>i DEF StartPublishing, botVars, AllIdle, Unset
  <2> QED
    BY <1>4, <2>1, <2>2, <2>3, <2>4, <2>5 DEF MediaTurn, b
<1> QED
  BY <1>1, <1>2, <1>3, <1>4, SetupSteps

(***************************************************************************)
(* The DTLS readers of a scenario are those of the handshakes that run,    *)
(* unless a failed setup has left one, which is an error of the result     *)
(* (setup_media_pc, action_start_media).                                   *)
(***************************************************************************)
ReadersRun ==
  \A r \in readers : \E b \in Bots : stage[b] \in {"pub_dtls", "sub_dtls"} /\ r = Reader(b)

ReadersInv == InScenario => errors \/ ReadersRun

LEMMA ReadersKept ==
  ASSUME ReadersRun, UNCHANGED <<readers, stage, setups>>
  PROVE  ReadersRun'
BY DEF ReadersRun, Reader

LEMMA MediaTurnKeepsReaders ==
  ASSUME BotTypeOK, ReadersRun, NEW b \in Bots,
         BeginSetup(b) \/ MediaStep(b) \/ StartPublishing(b)
  PROVE  ReadersRun'
<1>t. stage \in [Bots -> Stages] /\ setups \in [Bots -> Nat]
  BY DEF BotTypeOK
<1> SUFFICES ASSUME NEW r \in readers'
             PROVE  \E c \in Bots : /\ stage'[c] \in {"pub_dtls", "sub_dtls"}
                                    /\ r = <<c, setups'[c], PC(stage'[c])>>
  BY DEF ReadersRun, Reader
<1>1. ASSUME r \in readers, NEW c \in Bots, stage[c] \in {"pub_dtls", "sub_dtls"},
             r = Reader(c), stage'[c] = stage[c], setups'[c] = setups[c]
      PROVE  \E d \in Bots : /\ stage'[d] \in {"pub_dtls", "sub_dtls"}
                             /\ r = <<d, setups'[d], PC(stage'[d])>>
  BY <1>1 DEF Reader
<1>2. CASE BeginSetup(b)
  <2>1. PICK c \in Bots : stage[c] \in {"pub_dtls", "sub_dtls"} /\ r = Reader(c)
    BY <1>2 DEF BeginSetup, ReadersRun
  <2>2. c # b
    BY <1>2, <2>1 DEF BeginSetup
  <2>3. r \in readers /\ stage'[c] = stage[c] /\ setups'[c] = setups[c]
    BY <1>2, <1>t, <2>2 DEF BeginSetup
  <2> QED
    BY <1>1, <2>1, <2>3
<1>3. CASE StunAnswered(b)
  <2>1. /\ setups' = setups /\ stage[b] \in {"pub_stun", "sub_stun"}
        /\ stage'[b] = IF stage[b] = "pub_stun" THEN "pub_dtls" ELSE "sub_dtls"
        /\ \A c \in Bots : c # b => stage'[c] = stage[c]
        /\ readers' = readers \cup {Reader(b)}
    BY <1>3, <1>t DEF StunAnswered
  <2>2. CASE r = Reader(b)
    <3>1. PC(stage'[b]) = PC(stage[b]) /\ stage'[b] \in {"pub_dtls", "sub_dtls"}
      BY <2>1 DEF PC
    <3> QED
      BY <2>1, <2>2, <3>1 DEF Reader
  <2>3. CASE r \in readers
    <3>1. PICK c \in Bots : stage[c] \in {"pub_dtls", "sub_dtls"} /\ r = Reader(c)
      BY <2>3 DEF ReadersRun
    <3> QED
      BY <1>1, <2>1, <2>3, <3>1
  <2> QED
    BY <2>1, <2>2, <2>3
<1>4. CASE DtlsDone(b)
  <2>1. /\ setups' = setups /\ readers' = readers \ {Reader(b)}
        /\ \A c \in Bots : c # b => stage'[c] = stage[c]
    BY <1>4, <1>t DEF DtlsDone, ReaderAborted
  <2>2. PICK c \in Bots : stage[c] \in {"pub_dtls", "sub_dtls"} /\ r = Reader(c)
    BY <2>1 DEF ReadersRun
  <2> QED
    BY <1>1, <2>1, <2>2
<1>5. CASE StartPublishing(b)
  BY <1>1, <1>5 DEF StartPublishing, ReadersRun
<1> QED
  BY <1>2, <1>3, <1>4, <1>5 DEF MediaStep

LEMMA ReadersStep ==
  ASSUME EngineInv, ReadersInv, [CliNext]_cliVars
  PROVE  ReadersInv'
<1>p. Positions /\ scenario \in Scenarios /\ BotTypeOK
  BY DEF EngineInv, EngineTypes
<1>s. ASSUME UNCHANGED <<readers, stage, setups>>, errors => errors', InScenario
      PROVE  ReadersInv'
  BY <1>s, ReadersKept DEF ReadersInv
<1>1. CASE UNCHANGED scenarioVars
  <2>1. UNCHANGED <<readers, stage, setups, errors, phase>>
    BY <1>1 DEF scenarioVars, botVars, engineVars
  <2> QED
    BY <2>1, ReadersKept DEF ReadersInv, InScenario
<1>2. CASE Starts \/ Ends
  <2>1. readers' = {}
    BY <1>2 DEF Starts, LaunchScenario, LaunchRun, Ends, ProcessEnds, CreateBots
  <2> QED
    BY <2>1 DEF ReadersInv, ReadersRun
<1>3. CASE LoadFails
  BY <1>3 DEF LoadFails, ReadersInv, InScenario
<1>4. CASE StartMedia
  <2>1. phase = "act" /\ OverBots
    BY <1>4 DEF StartMedia, StartMediaSkips, StartMediaBegins, StartMediaGoesOn,
      StartMediaFails, PublishIntent, Acting, OverBots, Tl
  <2>2. ThisBot \in Bots /\ InScenario
    BY <1>p, <2>1, ThisBotIsOne DEF InScenario, Phases
  <2>3. \/ UNCHANGED botVars /\ (errors => errors')
        \/ errors' = TRUE
        \/ /\ errors' = errors
           /\ BeginSetup(ThisBot) \/ MediaStep(ThisBot) \/ StartPublishing(ThisBot)
    BY <1>4 DEF StartMedia, StartMediaSkips, StartMediaBegins, StartMediaGoesOn,
      StartMediaFails, SetupError, PublishIntent
  <2>4. CASE UNCHANGED botVars /\ (errors => errors')
    BY <1>s, <2>2, <2>4 DEF botVars
  <2>5. CASE errors' = TRUE
    BY <2>5 DEF ReadersInv
  <2>6. CASE /\ errors' = errors
             /\ BeginSetup(ThisBot) \/ MediaStep(ThisBot) \/ StartPublishing(ThisBot)
    BY <1>p, <2>2, <2>6, MediaTurnKeepsReaders DEF ReadersInv
  <2> QED
    BY <2>3, <2>4, <2>5, <2>6
<1>5. CASE AllJoin
  <2>1. UNCHANGED <<readers, stage, setups>> /\ (errors => errors') /\ InScenario
    BY <1>5 DEF AllJoin, Join, botVars, Acting, InScenario, Phases
  <2> QED
    BY <1>s, <2>1
<1>6. CASE OtherAct
  <2>1. UNCHANGED <<readers, stage, setups>> /\ (errors => errors')
    BY <1>6, OtherActs DEF botVars, UpdateNetFilter, Disconnect
  <2>2. InScenario
    BY <1>6, RunActionMoves DEF RunAction, OtherAct, InScenario, Phases
  <2> QED
    BY <1>s, <2>1, <2>2
<1>7. CASE EndStep
  <2>1. UNCHANGED <<readers, stage, setups, errors>> /\ InScenario
    BY <1>7 DEF EndStep, Collect, DisconnectAll, DisconnectNext, Disconnect, JudgeRun,
      NotSaved, Truncate, Write, WriteFails, savingVars, botVars, InScenario, Phases
  <2> QED
    BY <1>s, <2>1
<1>8. CASE RunJoin \/ RunMedia \/ RunPtt \/ RunHold \/ RunDisconnect
  <2>1. phase' \in RunPhases
    BY <1>8, RunStepMoves DEF BotDone, Stay, RunPhases
  <2> QED
    BY <2>1 DEF ReadersInv, InScenario, Phases, RunPhases
<1> QED
  BY <1>1, <1>2, <1>3, <1>4, <1>5, <1>6, <1>7, <1>8, CliSteps
  DEF ProcessStep, RunAction, StartMedia, OtherAct

-----------------------------------------------------------------------------
(***************************************************************************)
(* The publications.  Those that are alive are of bots that publish, which *)
(* hold their handles; in a scenario that joins twice they may not be.     *)
(***************************************************************************)
Held ==
  \A b \in Bots, m \in Nat : <<b, m>> \in tasks => status[b] = "publishing" /\ m = handles[b]

NoTask(b) == \A m \in Nat : <<b, m>> \notin tasks

LEMMA HeldJoin ==
  ASSUME BotTypeOK, Held, NEW b \in Bots, status[b] # "publishing" \/ tasks = {}, Join(b)
  PROVE  Held'
<1>1. tasks' = tasks /\ handles' = handles /\ \A c \in Bots : c # b => status'[c] = status[c]
  BY DEF BotTypeOK, Join
<1> QED
  BY <1>1 DEF Held

LEMMA HeldSetup ==
  ASSUME BotTypeOK, Held, NEW b \in Bots, status[b] # "publishing",
         BeginSetup(b) \/ MediaStep(b)
  PROVE  Held'
<1>1. tasks' = tasks /\ handles' = handles /\ \A c \in Bots : c # b => status'[c] = status[c]
  BY DEF BotTypeOK, BeginSetup, MediaStep, StunAnswered, DtlsDone
<1> QED
  BY <1>1 DEF Held

LEMMA HeldStart ==
  ASSUME BotTypeOK, Held, NEW b \in Bots, StartPublishing(b)
  PROVE  Held'
<1>1. /\ tasks' = tasks \cup {<<b, media[b]>>} /\ status[b] = "media_ready"
      /\ status'[b] = "publishing" /\ handles'[b] = media[b]
      /\ \A c \in Bots : c # b => status'[c] = status[c] /\ handles'[c] = handles[c]
  BY DEF BotTypeOK, StartPublishing
<1>2. NoTask(b)
  BY <1>1 DEF Held, NoTask
<1>3. ASSUME NEW c \in Bots, NEW m \in Nat, <<c, m>> \in tasks'
      PROVE  status'[c] = "publishing" /\ m = handles'[c]
  <2>1. CASE c = b
    <3>1. <<c, m>> = <<b, media[b]>>
      BY <1>1, <1>2, <1>3, <2>1 DEF NoTask
    <3> QED
      BY <1>1, <2>1, <3>1
  <2>2. CASE c # b
    <3>1. <<c, m>> \in tasks
      BY <1>1, <1>3, <2>2
    <3> QED
      BY <1>1, <2>2, <3>1 DEF Held
  <2> QED
    BY <2>1, <2>2
<1> QED
  BY <1>3 DEF Held

LEMMA HeldDisconnect ==
  ASSUME BotTypeOK, Held, NEW b \in Bots, Disconnect(b)
  PROVE  Held' /\ NoTask(b)' /\ tasks' \subseteq tasks
<1>1. /\ tasks' = tasks \ {<<b, handles[b]>>}
      /\ \A c \in Bots : c # b => status'[c] = status[c] /\ handles'[c] = handles[c]
  BY DEF BotTypeOK, Disconnect, Stopped
<1>2. NoTask(b)'
  BY <1>1 DEF Held, NoTask
<1>3. ASSUME NEW c \in Bots, NEW m \in Nat, <<c, m>> \in tasks'
      PROVE  status'[c] = "publishing" /\ m = handles'[c]
  <2>1. c # b
    BY <1>2, <1>3 DEF NoTask
  <2> QED
    BY <1>1, <1>3, <2>1 DEF Held
<1> QED
  BY <1>1, <1>2, <1>3 DEF Held

LEMMA HeldSame ==
  ASSUME Held, UNCHANGED <<tasks, status, handles>>
  PROVE  Held'
BY DEF Held

\* What the bots without a task are is known from the one join of the scenario.
Past(n, k) == pc > k \/ (pc = k /\ cursor > n)

NotJoined ==
  phase = "act" =>
    \A k \in DOMAIN Tl, n \in 1 .. BotCount :
      Tl[k].type = "all_join" /\ ~Past(n, k) =>
        status[scenario.participants[n]] \in {"created", "stopped"}

StoppedSoFar == \A n \in 1 .. BotCount : n < cursor => NoTask(scenario.participants[n])

StoppedInv ==
  /\ phase = "run_join" => tasks = {}
  /\ phase \in {"disconnect", "run_disconnect"} => StoppedSoFar
  /\ phase \in {"judge", "save", "write", "exit", "run_end"} => tasks = {}

TasksInv ==
  /\ JoinsOnce => NotJoined
  /\ JoinsOnce \/ phase \in RunPhases => Held /\ StoppedInv

(***************************************************************************)
(* A scenario with one all_join has one in its timeline (JoinsOnce).       *)
(***************************************************************************)
LEMMA OneJoin ==
  ASSUME scenario \in Scenarios, JoinsOnce, NEW k \in DOMAIN Tl, NEW l \in DOMAIN Tl,
         Tl[k].type = "all_join", Tl[l].type = "all_join"
  PROVE  k = l
<1> DEFINE actions == scenario.actions
           joins == {i \in DOMAIN actions : actions[i].type = "all_join"}
<1>1. actions \in Seq(Actions) /\ DOMAIN Tl = DOMAIN actions
  BY ScenarioAssumption DEF Tl, Timeline
<1>2. /\ IsFiniteSet(DOMAIN actions) /\ Cardinality(joins) <= 1
      /\ \A i \in DOMAIN actions : i \in Nat
  <2>1. Len(actions) \in Nat /\ DOMAIN actions = 1 .. Len(actions)
    BY <1>1
  <2> QED
    BY <2>1, FileIsFinite DEF JoinsOnce
<1> HIDE DEF actions
<1>3. PICK order \in [DOMAIN actions -> DOMAIN actions] :
        /\ \A i \in DOMAIN actions : Timeline(actions)[i] = actions[order[i]]
        /\ \A i, j \in DOMAIN actions :
             i < j => order[i] # order[j] /\ Before(actions, order[i], order[j])
  BY <1>1, TimelineInOrder
<1>4. order[k] \in joins /\ order[l] \in joins
  BY <1>1, <1>3 DEF Tl, actions
<1>5. order[k] = order[l]
  <2>1. SUFFICES ASSUME order[k] # order[l] PROVE FALSE
    OBVIOUS
  <2>2. Cardinality({order[k]} \cup {order[l]}) = 2
    <3>1. IsFiniteSet({order[k]}) /\ Cardinality({order[k]}) = 1
      BY FS_Singleton
    <3>2. order[l] \notin {order[k]}
      BY <2>1
    <3>3. Cardinality({order[k]} \cup {order[l]}) = Cardinality({order[k]}) + 1
      BY <3>1, <3>2, FS_AddElement
    <3> QED
      BY <3>1, <3>3
  <2>3. IsFiniteSet(joins) /\ {order[k]} \cup {order[l]} \subseteq joins
    BY <1>2, <1>4, FS_Subset
  <2>4. Cardinality(joins) \in Nat /\ 2 <= Cardinality(joins)
    BY <2>2, <2>3, FS_Subset, FS_CardinalityType
  <2> QED
    BY <1>2, <2>4
<1> QED
  BY <1>1, <1>2, <1>3, <1>5

LEMMA NotJoinedStep ==
  ASSUME EngineInv, SetupInv, JoinsOnce, NotJoined, [CliNext]_cliVars
  PROVE  NotJoined'
<1>p. /\ Positions /\ BotTypeOK /\ scenario \in Scenarios /\ scenario' = scenario
      /\ Tl' = Tl /\ BotCount' = BotCount
  BY PositionsStep DEF EngineInv, EngineTypes, Tl, BotCount
<1>t. /\ status \in [Bots -> Statuses] /\ pc \in Nat /\ cursor \in Nat
      /\ DOMAIN Tl \subseteq Nat
      /\ BotCount \in Nat /\ \A n \in 1 .. BotCount : scenario.participants[n] \in Bots
      /\ \A m, n \in 1 .. BotCount : m # n => scenario.participants[m] # scenario.participants[n]
  BY <1>p, FileTypes DEF Positions, BotTypeOK
<1>f. ASSUME phase' # "act" PROVE NotJoined'
  BY <1>f DEF NotJoined
<1>1. CASE UNCHANGED scenarioVars
  BY <1>1 DEF scenarioVars, botVars, engineVars, NotJoined, Past, Tl, BotCount
<1>2. CASE Starts
  <2>1. CASE LaunchScenario
    <3>1. \A b \in Bots : status'[b] = "created"
      BY <2>1 DEF LaunchScenario, CreateBots
    <3> QED
      BY <1>p, <1>t, <3>1 DEF NotJoined
  <2>2. CASE LaunchRun
    BY <2>2, <1>f DEF LaunchRun
  <2> QED
    BY <1>2, <2>1, <2>2 DEF Starts
<1>3. CASE LoadFails \/ Ends
  BY <1>3, <1>f DEF LoadFails, Ends, ProcessEnds
<1>4. CASE AllJoin
  <2>1. /\ phase = "act" /\ pc <= Len(scenario.actions) /\ Tl[pc].type = "all_join"
        /\ NextOf(BotCount) /\ \A b \in Bots : b # ThisBot => status'[b] = status[b]
    BY <1>4, <1>t DEF AllJoin, Acting, Tl, Join, botVars
  <2>2. pc \in DOMAIN Tl /\ cursor \in 1 .. BotCount
    BY <1>p, <2>1, FileTypes, ThisBotIsOne DEF Positions, OverBots
  <2> SUFFICES ASSUME NEW k \in DOMAIN Tl, NEW n \in 1 .. BotCount,
                      Tl[k].type = "all_join", ~Past(n, k)'
               PROVE  status'[scenario.participants[n]] \in {"created", "stopped"}
    BY <1>p DEF NotJoined
  <2>3. k = pc
    BY <1>p, <2>1, <2>2, OneJoin
  <2>4. pc' = pc /\ cursor' = cursor + 1 /\ n # cursor /\ n > cursor
    BY <1>t, <2>1, <2>3 DEF NextOf, ActionDone, Past
  <2>5. ~Past(n, k)
    BY <1>t, <2>3, <2>4 DEF Past
  <2>6. scenario.participants[n] \in Bots /\ scenario.participants[n] # ThisBot
    BY <1>t, <2>2, <2>4 DEF ThisBot
  <2> QED
    BY <2>1, <2>5, <2>6 DEF NotJoined
<1>5. ASSUME phase = "act", pc' = pc \/ pc' = pc + 1, Tl[pc].type # "all_join",
             \A b \in Bots : status[b] \in {"created", "stopped"} =>
                               status'[b] \in {"created", "stopped"}
      PROVE  NotJoined'
  <2> SUFFICES ASSUME NEW k \in DOMAIN Tl, NEW n \in 1 .. BotCount,
                      Tl[k].type = "all_join", ~Past(n, k)'
               PROVE  status'[scenario.participants[n]] \in {"created", "stopped"}
    BY <1>p DEF NotJoined
  <2>1. ~Past(n, k)
    BY <1>5, <1>t DEF Past
  <2> QED
    BY <1>5, <1>t, <2>1 DEF NotJoined
<1>6. CASE StartMedia
  <2>1. phase = "act" /\ Tl[pc].type = "start_media"
    BY <1>6 DEF StartMedia, StartMediaSkips, StartMediaBegins, StartMediaGoesOn,
      StartMediaFails, PublishIntent, Acting, Tl
  <2>2. pc' = pc \/ pc' = pc + 1
    BY <1>6, RunActionMoves, <2>1 DEF RunAction, StartMedia, ActMove, ActionDone, NextOf
  <2>3. \A b \in Bots : status[b] \in {"created", "stopped"} => status'[b] = status[b]
    BY <1>6, <1>t, MediaTurns DEF MediaTurn, BeginSetup, MediaStep, StunAnswered, DtlsDone,
      MediaFails, StunTimeout, DtlsFails, StartPublishing, botVars, SetupInv
  <2> QED
    BY <1>5, <2>1, <2>2, <2>3
<1>7. CASE OtherAct
  <2>1. phase = "act"
    BY <1>7, RunActionMoves DEF RunAction, OtherAct
  <2>2. \A b \in Bots : status[b] \in {"created", "stopped"} =>
                          status'[b] \in {"created", "stopped"}
    BY <1>7, <1>t, OtherActs DEF botVars, UpdateNetFilter, Disconnect
  <2> QED
    BY <1>5, <1>7, <2>1, <2>2, OtherActs
<1>8. CASE EndStep
  BY <1>8, <1>f DEF EndStep, Collect, DisconnectAll, DisconnectNext, JudgeRun, NotSaved,
    Truncate, Write, WriteFails
<1>9. CASE RunJoin \/ RunMedia \/ RunPtt \/ RunHold \/ RunDisconnect
  <2>1. phase' \in RunPhases
    BY <1>9, RunStepMoves DEF BotDone, Stay, RunPhases
  <2> QED
    BY <1>f, <2>1 DEF RunPhases
<1> QED
  BY <1>1, <1>2, <1>3, <1>4, <1>6, <1>7, <1>8, <1>9, CliSteps
  DEF ProcessStep, RunAction, StartMedia, OtherAct

\* The setups and starts of a bot keep the handles, in a scenario and in run.
LEMMA HeldTurn ==
  ASSUME BotTypeOK, SetupInv, Held, ThisBot \in Bots, MediaTurn
  PROVE  Held'
<1>1. CASE UNCHANGED botVars \/ MediaFails(ThisBot)
  BY <1>1, HeldSame DEF botVars, MediaFails, StunTimeout, DtlsFails
<1>2. CASE BeginSetup(ThisBot) \/ (step = "setup" /\ MediaStep(ThisBot))
  <2>1. status[ThisBot] # "publishing"
    BY <1>2 DEF BeginSetup, SetupInv
  <2> QED
    BY <1>2, <2>1, HeldSetup
<1>3. CASE StartPublishing(ThisBot)
  BY <1>3, HeldStart
<1> QED
  BY <1>1, <1>2, <1>3 DEF MediaTurn

\* One bot more is stopped, and after the last one nothing is left.
LEMMA StopsOneMore ==
  ASSUME scenario \in Scenarios, BotTypeOK, Positions, OverBots, StoppedSoFar,
         NEW bt, bt = ThisBot, NoTask(bt)', tasks' \subseteq tasks, scenario' = scenario
  PROVE  /\ cursor < BotCount /\ cursor' = cursor + 1 => StoppedSoFar'
         /\ ~(cursor < BotCount) => tasks' = {}
<1>t. BotCount \in Nat /\ cursor \in 1 .. BotCount
  BY FileTypes, ThisBotIsOne
<1>1. \A n \in 1 .. BotCount : n <= cursor => NoTask(scenario.participants[n])'
  <2>1. ASSUME NEW n \in 1 .. BotCount, n <= cursor PROVE NoTask(scenario.participants[n])'
    <3>1. CASE n = cursor
      <4>1. scenario'.participants[n] = bt
        BY <3>1 DEF ThisBot
      <4> QED
        BY <4>1 DEF NoTask
    <3>2. CASE n < cursor
      <4>1. NoTask(scenario.participants[n])
        BY <3>2 DEF StoppedSoFar
      <4> QED
        BY <4>1 DEF NoTask
    <3> QED
      BY <1>t, <2>1, <3>1, <3>2
  <2> QED
    BY <2>1
<1>2. ASSUME cursor < BotCount, cursor' = cursor + 1 PROVE StoppedSoFar'
  <2>1. BotCount' = BotCount
    BY DEF BotCount
  <2> QED
    BY <1>t, <1>1, <1>2, <2>1 DEF StoppedSoFar, NoTask
<1>3. ASSUME ~(cursor < BotCount), NEW t \in tasks' PROVE FALSE
  <2>1. PICK b \in Bots, m \in Nat : t = <<b, m>>
    BY <1>3 DEF BotTypeOK
  <2>2. PICK n \in 1 .. BotCount : b = scenario.participants[n]
    BY FileTypes
  <2>3. NoTask(scenario.participants[n])'
    BY <1>t, <1>1, <1>3
  <2> QED
    BY <1>3, <2>1, <2>2, <2>3 DEF NoTask
<1> QED
  BY <1>2, <1>3

(***************************************************************************)
(* Every step keeps the publications in their bots' hands, and the         *)
(* disconnect stops them one bot after the other (stop_publishing).        *)
(***************************************************************************)
LEMMA HeldStep ==
  ASSUME EngineInv, SetupInv, TasksInv, [CliNext]_cliVars, JoinsOnce \/ phase' \in RunPhases
  PROVE  Held' /\ StoppedInv'
<1>p. /\ Positions /\ BotTypeOK /\ scenario \in Scenarios /\ scenario' = scenario
      /\ BotCount' = BotCount
  BY PositionsStep DEF EngineInv, EngineTypes, BotCount
<1>c. BotCount \in Nat /\ cursor \in Nat
  BY <1>p, FileTypes DEF Positions
<1>0. ASSUME tasks' = {} PROVE Held' /\ StoppedInv'
  BY <1>0 DEF Held, StoppedInv, StoppedSoFar, NoTask
<1>h. JoinsOnce \/ phase \in RunPhases => Held /\ StoppedInv
  BY DEF TasksInv
<1>e. ASSUME Held', phase' \in {"off", "act", "run_media", "run_ptt", "run_hold"}
      PROVE  Held' /\ StoppedInv'
  BY <1>e DEF StoppedInv
<1>1. CASE UNCHANGED scenarioVars \/ LoadFails
  <2>1. UNCHANGED <<tasks, status, handles, cursor, phase, scenario>>
    BY <1>1 DEF scenarioVars, botVars, engineVars, LoadFails
  <2>2. Held /\ StoppedInv
    BY <1>h, <2>1
  <2> QED
    BY <2>1, <2>2, HeldSame DEF StoppedInv, StoppedSoFar, NoTask, BotCount
<1>2. CASE Starts \/ Ends
  <2>1. tasks' = {}
    BY <1>2 DEF Starts, LaunchScenario, LaunchRun, Ends, ProcessEnds, CreateBots
  <2> QED
    BY <1>0, <2>1
<1>3. CASE RunAction
  <2>1. /\ phase = "act" /\ phase' = "act" /\ phase' \notin RunPhases
    BY <1>3, RunActionMoves DEF restVars, RunPhases
  <2>2. JoinsOnce /\ Held /\ NotJoined
    BY <1>h, <2>1 DEF TasksInv
  <2>3. CASE AllJoin
    <3>1. pc <= Len(scenario.actions) /\ Tl[pc].type = "all_join" /\ OverBots
      BY <2>3 DEF AllJoin, Acting, Tl, OverBots
    <3>2. /\ ThisBot \in Bots /\ cursor \in 1 .. BotCount /\ pc \in DOMAIN Tl
          /\ ~Past(cursor, pc)
      BY <1>c, <1>p, <3>1, FileTypes, ThisBotIsOne DEF Positions, Past
    <3>3. status[ThisBot] # "publishing"
      BY <2>1, <2>2, <3>1, <3>2 DEF NotJoined, ThisBot
    <3> QED
      BY <1>e, <1>p, <2>1, <2>2, <2>3, <3>2, <3>3, HeldJoin, HeldSame DEF AllJoin, botVars
  <2>4. CASE StartMedia
    <3>1. OverBots
      BY <2>4 DEF StartMedia, StartMediaSkips, StartMediaBegins, StartMediaGoesOn,
        StartMediaFails, PublishIntent, Acting, OverBots, Tl
    <3>2. Held'
      BY <1>p, <2>2, <2>4, <3>1, ThisBotIsOne, MediaTurns, HeldTurn
    <3> QED
      BY <1>e, <2>1, <3>2
  <2>5. CASE OtherAct
    <3>1. CASE UNCHANGED botVars \/ \E b \in Bots : \E profile : UpdateNetFilter(b, profile)
      BY <1>e, <2>1, <2>2, <3>1, HeldSame DEF botVars, UpdateNetFilter
    <3>2. CASE Tl[pc].actor \in Bots /\ Disconnect(Tl[pc].actor)
      BY <1>e, <1>p, <2>1, <2>2, <3>2, HeldDisconnect
    <3> QED
      BY <2>5, <3>1, <3>2, OtherActs
  <2> QED
    BY <1>3, <2>3, <2>4, <2>5 DEF RunAction, StartMedia, OtherAct
<1>4. CASE EndStep
  <2>1. phase' \notin RunPhases
    BY <1>4 DEF EndStep, Collect, DisconnectAll, DisconnectNext, JudgeRun, NotSaved,
      Truncate, Write, WriteFails, RunPhases
  <2>2. Held /\ StoppedInv
    BY <1>h, <2>1
  <2>3. CASE Collect
    <3>1. /\ UNCHANGED <<tasks, status, handles, cursor>> /\ phase' = "disconnect"
          /\ phase = "act" /\ pc > Len(scenario.actions)
      BY <2>3 DEF Collect, botVars
    <3>2. cursor' = 1 /\ StoppedSoFar'
      BY <1>c, <1>p, <3>1 DEF Positions, CursorInv, StoppedSoFar
    <3> QED
      BY <2>2, <3>1, <3>2, HeldSame DEF StoppedInv
  <2>4. CASE DisconnectAll
    <3>1. OverBots /\ Disconnect(ThisBot) /\ StoppedSoFar
      BY <2>2, <2>4 DEF DisconnectAll, DisconnectNext, OverBots, StoppedInv
    <3>2. ThisBot \in Bots
      BY <1>p, <3>1, ThisBotIsOne
    <3>3. PICK bt \in Bots : bt = ThisBot
      BY <3>2
    <3>4. Held' /\ NoTask(bt)' /\ tasks' \subseteq tasks
      BY <1>p, <2>2, <3>1, <3>3, HeldDisconnect
    <3>5. /\ cursor < BotCount /\ cursor' = cursor + 1 => StoppedSoFar'
          /\ ~(cursor < BotCount) => tasks' = {}
      BY <1>p, <3>1, <3>3, <3>4, StopsOneMore
    <3>6. \/ cursor < BotCount /\ cursor' = cursor + 1 /\ phase' = "disconnect"
          \/ ~(cursor < BotCount) /\ phase' = "judge"
      BY <2>4 DEF DisconnectAll, DisconnectNext
    <3> QED
      BY <1>0, <3>4, <3>5, <3>6 DEF StoppedInv
  <2>5. CASE JudgeRun \/ NotSaved \/ Truncate \/ Write \/ WriteFails
    <3>1. phase \in {"judge", "save", "write"} /\ tasks' = tasks
      BY <2>5 DEF JudgeRun, NotSaved, Truncate, Write, WriteFails, savingVars, botVars
    <3> QED
      BY <1>0, <2>2, <3>1 DEF StoppedInv
  <2> QED
    BY <1>4, <2>3, <2>4, <2>5 DEF EndStep
<1>5. CASE RunJoin \/ RunMedia \/ RunPtt \/ RunHold \/ RunDisconnect
  <2>1. phase \in RunPhases /\ Held /\ StoppedInv
    BY <1>5, <1>h, RunStepMoves
  <2>2. CASE RunJoin
    <3>1. tasks' = {}
      BY <2>1, <2>2 DEF RunJoin, Join, botVars, StoppedInv
    <3> QED
      BY <1>0, <3>1
  <2>3. CASE RunMedia
    <3>1. OverBots /\ phase' \in {"run_media", "run_ptt", "run_hold"}
      BY <2>3 DEF RunMedia, BotDone, Stay, AfterMedia, OverBots, RunPhases
    <3>2. Held'
      BY <1>p, <2>1, <2>3, <3>1, ThisBotIsOne, MediaTurns, HeldTurn
    <3> QED
      BY <1>e, <3>1, <3>2
  <2>4. CASE RunPtt
    <3>1. UNCHANGED <<tasks, status, handles>> /\ phase' \in {"run_ptt", "run_hold"}
      BY <2>4 DEF RunPtt, BotDone, Stay, botVars
    <3> QED
      BY <1>e, <2>1, <3>1, HeldSame
  <2>5. CASE RunHold
    <3>1. /\ UNCHANGED <<tasks, status, handles, cursor>> /\ phase' = "run_disconnect"
          /\ cursor = 1
      BY <1>p, <2>5 DEF RunHold, botVars, Positions, CursorInv
    <3>2. StoppedSoFar'
      BY <1>c, <1>p, <3>1 DEF StoppedSoFar
    <3> QED
      BY <2>1, <3>1, <3>2, HeldSame DEF StoppedInv
  <2>6. CASE RunDisconnect
    <3>1. OverBots /\ StoppedSoFar /\ BotDone({"run_end"}) /\ phase = "run_disconnect"
      BY <2>1, <2>6 DEF RunDisconnect, OverBots, RunPhases, StoppedInv
    <3>2. ThisBot \in Bots
      BY <1>p, <3>1, ThisBotIsOne
    <3>3. PICK bt \in Bots : bt = ThisBot
      BY <3>2
    <3>4. Held' /\ NoTask(bt)' /\ tasks' \subseteq tasks
      <4>1. CASE status[bt] = "created" /\ UNCHANGED botVars
        BY <2>1, <4>1, HeldSame DEF botVars, Held, NoTask
      <4>2. CASE Disconnect(bt)
        BY <1>p, <2>1, <4>2, HeldDisconnect
      <4> QED
        BY <2>6, <3>3, <4>1, <4>2 DEF RunDisconnect
    <3>5. /\ cursor < BotCount /\ cursor' = cursor + 1 => StoppedSoFar'
          /\ ~(cursor < BotCount) => tasks' = {}
      BY <1>p, <3>1, <3>3, <3>4, StopsOneMore
    <3>6. \/ cursor < BotCount /\ cursor' = cursor + 1 /\ phase' = "run_disconnect"
          \/ ~(cursor < BotCount) /\ phase' = "run_end"
      BY <3>1 DEF BotDone
    <3> QED
      BY <1>0, <3>4, <3>5, <3>6 DEF StoppedInv
  <2> QED
    BY <1>5, <2>2, <2>3, <2>4, <2>5, <2>6
<1> QED
  BY <1>1, <1>2, <1>3, <1>4, <1>5, CliSteps DEF ProcessStep

\* What is known of the bots of a process, wherever it is.
BotsInv == EngineInv /\ SetupInv /\ ReadersInv /\ TasksInv

LEMMA BotsInit == CliInit => BotsInv
<1> SUFFICES ASSUME CliInit PROVE BotsInv
  OBVIOUS
<1>1. /\ phase = "off" /\ step = "enter" /\ tasks = {} /\ stage = [b \in Bots |-> "idle"]
  BY DEF CliInit, ScenarioInit, NoBots
<1>2. SetupInv /\ ReadersInv
  BY <1>1 DEF SetupInv, ReadersInv, InScenario
<1>3. TasksInv
  BY <1>1 DEF TasksInv, NotJoined, Held, StoppedInv, RunPhases
<1> QED
  BY <1>2, <1>3, EngineInit DEF BotsInv

LEMMA BotsInvStep == BotsInv /\ [CliNext]_cliVars => BotsInv'
<1> SUFFICES ASSUME BotsInv, [CliNext]_cliVars PROVE BotsInv'
  OBVIOUS
<1>1. EngineInv' /\ SetupInv' /\ ReadersInv'
  BY EngineStepTyped, SetupStep, ReadersStep DEF BotsInv
<1>2. JoinsOnce' = JoinsOnce
  BY PositionsStep DEF BotsInv, EngineInv, EngineTypes, JoinsOnce
<1>3. JoinsOnce => NotJoined'
  BY NotJoinedStep DEF BotsInv, TasksInv
<1>4. JoinsOnce \/ phase' \in RunPhases => Held' /\ StoppedInv'
  BY HeldStep DEF BotsInv
<1>5. TasksInv'
  BY <1>2, <1>3, <1>4 DEF TasksInv
<1> QED
  BY <1>1, <1>5 DEF BotsInv

(***************************************************************************)
(* After the disconnect no publication is alive, unless the scenario joins *)
(* twice, and a DTLS reader is left only behind an error of the result     *)
(* (stop_publishing, setup_media_pc, cmd_run).                             *)
(***************************************************************************)
THEOREM CliMediaStopped == CliSpec => []MediaStopped
<1>1. BotsInv => MediaStopped
  <2> SUFFICES ASSUME BotsInv PROVE MediaStopped
    OBVIOUS
  <2>1. phase \in {"judge", "save", "write", "exit"} /\ readers # {} => errors
    <3> SUFFICES ASSUME phase \in {"judge", "save", "write", "exit"}, readers # {}, ~errors
                 PROVE  FALSE
      OBVIOUS
    <3>1. PICK b \in Bots : stage[b] \in {"pub_dtls", "sub_dtls"}
      BY DEF BotsInv, ReadersInv, ReadersRun, InScenario, Phases
    <3>2. step = "setup"
      BY <3>1 DEF BotsInv, SetupInv
    <3> QED
      BY <3>2 DEF BotsInv, EngineInv, Positions, AtStepInv
  <2>2. /\ phase \in {"judge", "save", "write", "exit"} /\ JoinsOnce => tasks = {}
        /\ phase = "run_end" => tasks = {}
    BY DEF BotsInv, TasksInv, StoppedInv, RunPhases
  <2> QED
    BY <2>1, <2>2 DEF MediaStopped
<1> QED
  BY <1>1, BotsInit, BotsInvStep, PTL DEF CliSpec

-----------------------------------------------------------------------------
(***************************************************************************)
(* The bots that a scenario joins and starts.  Between its join and its    *)
(* start such a bot is joined, after its start it publishes, and then it   *)
(* has been measured, unless the result has an error.                      *)
(***************************************************************************)
Ahead(n, k) ==
  pc < k \/ (pc = k /\ cursor < n) \/ (pc = k /\ cursor = n /\ step = "enter")

OnTheWay(n, i, j) ==
  /\ phase = "act" =>
       /\ Past(n, i) /\ Ahead(n, j) => status[scenario.participants[n]] = "joined"
       /\ Past(n, j) => status[scenario.participants[n]] = "publishing"
  /\ InScenario /\ phase # "act" => scenario.participants[n] \in DOMAIN measured

DropoutInv ==
  InScenario /\ ~errors =>
    \A n \in 1 .. BotCount, i, j \in DOMAIN Tl :
      JoinsAndStarts(Tl, scenario.participants[n], i, j) => OnTheWay(n, i, j)

\* A turn that passes to the next bot, or to the next action after the last one.
BotTurn ==
  \/ pc' = pc /\ cursor < BotCount /\ cursor' = cursor + 1
  \/ pc' = pc + 1 /\ cursor' = 1 /\ ~(cursor < BotCount)

(***************************************************************************)
(* The actions before the join, and those between the two and after them   *)
(* that are not about the bot, leave it where it is.                       *)
(***************************************************************************)
LEMMA OthersKeepTheWay ==
  ASSUME phase = "act", phase' = "act", scenario' = scenario, NEW n \in Nat \ {0},
         NEW i \in Nat, NEW j \in Nat, i < j, pc \in Nat, cursor \in Nat,
         pc # i, pc # j, OnTheWay(n, i, j),
         pc' = pc \/ (pc' = pc + 1 /\ cursor' = 1),
         pc > i => status'[scenario.participants[n]] = status[scenario.participants[n]]
  PROVE  OnTheWay(n, i, j)'
<1>1. CASE pc < i
  <2>1. ~Past(n, i)' /\ ~Past(n, j)'
    BY <1>1 DEF Past
  <2> QED
    BY <2>1 DEF OnTheWay
<1>2. CASE pc > i /\ pc < j
  <2>1. Past(n, i) /\ Ahead(n, j) /\ ~Past(n, j)'
    BY <1>2 DEF Past, Ahead
  <2> QED
    BY <1>2, <2>1 DEF OnTheWay
<1>3. CASE pc > j
  <2>1. Past(n, j) /\ ~Ahead(n, j)'
    BY <1>3 DEF Past, Ahead
  <2> QED
    BY <1>3, <2>1 DEF OnTheWay
<1> QED
  BY <1>1, <1>2, <1>3

LEMMA JoinKeepsTheWay ==
  ASSUME EngineInv, AllJoin, ~errors', NEW n \in 1 .. BotCount,
         NEW i \in DOMAIN Tl, NEW j \in DOMAIN Tl,
         JoinsAndStarts(Tl, scenario.participants[n], i, j), OnTheWay(n, i, j)
  PROVE  OnTheWay(n, i, j)'
<1>1. /\ phase = "act" /\ Tl[pc].type = "all_join" /\ OverBots /\ NextOf(BotCount)
      /\ UNCHANGED <<phase, scenario>> /\ Join(ThisBot) /\ pc <= Len(scenario.actions)
  BY DEF AllJoin, Acting, Tl, OverBots, restVars
<1>t. /\ BotCount \in Nat /\ pc \in DOMAIN Tl /\ DOMAIN Tl \subseteq Nat
      /\ cursor \in 1 .. BotCount /\ status \in [Bots -> Statuses] /\ Positions
      /\ scenario.participants[n] \in Bots
  <2>1. scenario \in Scenarios /\ Positions /\ status \in [Bots -> Statuses]
    BY DEF EngineInv, EngineTypes, BotTypeOK
  <2>2. pc \in Nat \ {0} /\ Len(scenario.actions) \in Nat
    BY <2>1, FileTypes DEF Positions
  <2>3. cursor \in 1 .. BotCount
    BY <1>1, <2>1, ThisBotIsOne
  <2> QED
    BY <1>1, <2>1, <2>2, <2>3, FileTypes
<1>2. BotTurn
  BY <1>1 DEF NextOf, ActionDone, BotTurn
<1>3. /\ i < j /\ pc # j
      /\ pc > i => FALSE
  BY <1>1, <1>t DEF JoinsAndStarts, About
<1>4. CASE pc = i
  <2>1. ~Past(n, j)'
    BY <1>2, <1>3, <1>4, <1>t DEF Past, BotTurn
  <2>2. Past(n, i)' => status'[scenario.participants[n]] = "joined"
    <3>1. \A b \in Bots : status'[b] = IF b = ThisBot THEN "joined" ELSE status[b]
      BY <1>1, <1>t DEF Join
    <3>2. CASE cursor = n
      BY <1>t, <3>1, <3>2 DEF ThisBot
    <3>3. CASE cursor > n
      <4>1. Past(n, i) /\ Ahead(n, j)
        BY <1>3, <1>4, <1>t, <3>3 DEF Past, Ahead
      <4> QED
        BY <1>1, <1>t, <3>1, <4>1 DEF OnTheWay
    <3>4. CASE cursor < n
      BY <1>2, <1>4, <1>t, <3>4 DEF BotTurn, Past
    <3> QED
      BY <1>t, <3>2, <3>3, <3>4
  <2> QED
    BY <1>1, <2>1, <2>2 DEF OnTheWay
<1>5. CASE pc # i
  <2>1. pc' = pc \/ (pc' = pc + 1 /\ cursor' = 1)
    BY <1>2 DEF BotTurn
  <2> QED
    BY <1>1, <1>3, <1>5, <1>t, <2>1, OthersKeepTheWay
<1> QED
  BY <1>4, <1>5

LEMMA StartKeepsTheWay ==
  ASSUME EngineInv, StartMedia, ~errors', NEW n \in 1 .. BotCount,
         NEW i \in DOMAIN Tl, NEW j \in DOMAIN Tl,
         JoinsAndStarts(Tl, scenario.participants[n], i, j), OnTheWay(n, i, j)
  PROVE  OnTheWay(n, i, j)'
<1>1. /\ phase = "act" /\ Tl[pc].type = "start_media" /\ OverBots
      /\ pc <= Len(scenario.actions)
  BY DEF StartMedia, StartMediaSkips, StartMediaBegins, StartMediaGoesOn, StartMediaFails,
    PublishIntent, Acting, Tl, OverBots
<1>2. UNCHANGED <<phase, scenario>> /\ ActMove
  BY RunActionMoves DEF RunAction, StartMedia, restVars
<1>t. /\ BotCount \in Nat /\ pc \in DOMAIN Tl /\ DOMAIN Tl \subseteq Nat
      /\ cursor \in 1 .. BotCount /\ status \in [Bots -> Statuses] /\ Positions
      /\ scenario.participants[n] \in Bots /\ ThisBot \in Bots
      /\ \A m \in 1 .. BotCount : m # n => scenario.participants[m] # scenario.participants[n]
  BY <1>1, FileTypes, ThisBotIsOne DEF EngineInv, EngineTypes, BotTypeOK, Positions
<1>3. /\ i < j /\ pc # i
      /\ pc > i => pc = j
  BY <1>1, <1>t DEF JoinsAndStarts, About
<1>4. CASE pc = j
  <2>1. Past(n, i)
    BY <1>3, <1>4, <1>t DEF Past
  <2>2. \/ /\ step = "enter" /\ status[ThisBot] # "joined" /\ BotTurn /\ UNCHANGED status
        \/ step' # "enter" /\ UNCHANGED <<pc, cursor>>
        \/ StartPublishing(ThisBot) /\ BotTurn
    BY DEF StartMedia, StartMediaSkips, StartMediaBegins, StartMediaGoesOn, StartMediaFails,
      SetupError, PublishIntent, AtStep, NextOf, ActionDone, BotTurn, botVars
  <2>3. \A b \in Bots : b # ThisBot => status'[b] = status[b]
    BY <1>t, MediaTurns DEF MediaTurn, BeginSetup, MediaStep, StunAnswered, DtlsDone,
      MediaFails, StunTimeout, DtlsFails, StartPublishing, botVars
  <2>4. CASE cursor < n
    <3>1. status'[scenario.participants[n]] = "joined"
      <4>1. Ahead(n, j) /\ scenario.participants[n] # ThisBot
        BY <1>4, <1>t, <2>4 DEF Ahead, ThisBot
      <4> QED
        BY <1>1, <1>t, <2>1, <2>3, <4>1 DEF OnTheWay
    <3>2. ~Past(n, j)'
      BY <1>4, <1>t, <2>2, <2>4 DEF BotTurn, Past
    <3> QED
      BY <1>1, <1>2, <3>1, <3>2 DEF OnTheWay
  <2>5. CASE cursor > n
    <3>1. status'[scenario.participants[n]] = "publishing"
      <4>1. Past(n, j) /\ scenario.participants[n] # ThisBot
        BY <1>4, <1>t, <2>5 DEF Past, ThisBot
      <4> QED
        BY <1>1, <1>t, <2>3, <4>1 DEF OnTheWay
    <3>2. ~Ahead(n, j)'
      BY <1>4, <1>t, <2>2, <2>5 DEF BotTurn, Ahead
    <3> QED
      BY <1>1, <1>2, <3>1, <3>2 DEF OnTheWay
  <2>6. CASE cursor = n
    <3>0. ThisBot = scenario.participants[n]
      BY <2>6 DEF ThisBot
    <3>1. CASE step = "enter" /\ status[ThisBot] # "joined"
      <4>1. Ahead(n, j)
        BY <1>4, <2>6, <3>1 DEF Ahead
      <4> QED
        BY <1>1, <2>1, <3>0, <3>1, <4>1 DEF OnTheWay
    <3>2. CASE step' # "enter" /\ UNCHANGED <<pc, cursor>>
      <4>1. ~Ahead(n, j)' /\ ~Past(n, j)'
        BY <1>4, <1>t, <2>6, <3>2 DEF Ahead, Past
      <4> QED
        BY <1>1, <1>2, <4>1 DEF OnTheWay
    <3>3. CASE StartPublishing(ThisBot) /\ BotTurn
      <4>1. status'[scenario.participants[n]] = "publishing"
        BY <1>t, <3>0, <3>3 DEF StartPublishing
      <4>2. ~Ahead(n, j)'
        BY <1>4, <1>t, <2>6, <3>3 DEF BotTurn, Ahead
      <4> QED
        BY <1>1, <1>2, <4>1, <4>2 DEF OnTheWay
    <3> QED
      BY <2>2, <3>1, <3>2, <3>3
  <2> QED
    BY <1>t, <2>4, <2>5, <2>6
<1>5. CASE pc # j
  <2>1. pc' = pc \/ (pc' = pc + 1 /\ cursor' = 1)
    BY <1>2 DEF ActMove, ActionDone, NextOf
  <2> QED
    BY <1>1, <1>2, <1>3, <1>5, <1>t, <2>1, OthersKeepTheWay
<1> QED
  BY <1>4, <1>5

LEMMA OtherActKeepsTheWay ==
  ASSUME EngineInv, OtherAct, NEW n \in 1 .. BotCount,
         NEW i \in DOMAIN Tl, NEW j \in DOMAIN Tl,
         JoinsAndStarts(Tl, scenario.participants[n], i, j), OnTheWay(n, i, j)
  PROVE  OnTheWay(n, i, j)'
<1>1. phase = "act" /\ UNCHANGED <<phase, scenario>> /\ pc <= Len(scenario.actions)
  BY RunActionMoves DEF RunAction, OtherAct, restVars
<1>t. /\ BotCount \in Nat /\ pc \in DOMAIN Tl /\ DOMAIN Tl \subseteq Nat /\ cursor \in Nat
      /\ status \in [Bots -> Statuses] /\ scenario.participants[n] \in Bots
  BY <1>1, FileTypes DEF EngineInv, EngineTypes, BotTypeOK, Positions
<1>2. i < j /\ pc # i /\ pc # j
  BY OtherActs DEF JoinsAndStarts
<1>3. pc > i => status'[scenario.participants[n]] = status[scenario.participants[n]]
  <2>1. CASE UNCHANGED botVars \/ \E b \in Bots : \E profile : UpdateNetFilter(b, profile)
    BY <2>1 DEF botVars, UpdateNetFilter
  <2>2. CASE Tl[pc].type = "kill_bot" /\ Tl[pc].actor \in Bots /\ Disconnect(Tl[pc].actor)
    <3>1. pc > i => Tl[pc].actor # scenario.participants[n]
      BY <1>2, <1>t, <2>2 DEF JoinsAndStarts, About
    <3> QED
      BY <1>t, <2>2, <3>1 DEF Disconnect
  <2> QED
    BY <2>1, <2>2, OtherActs
<1> QED
  BY <1>1, <1>2, <1>3, <1>t, OtherActs, OthersKeepTheWay

(***************************************************************************)
(* Every step keeps the bots on their way (run_scenario).                  *)
(***************************************************************************)
LEMMA DropoutStep ==
  ASSUME EngineInv, DropoutInv, [CliNext]_cliVars
  PROVE  DropoutInv'
<1>p. /\ Positions /\ scenario \in Scenarios /\ scenario' = scenario
      /\ Tl' = Tl /\ BotCount' = BotCount
  BY PositionsStep DEF EngineInv, EngineTypes, Tl, BotCount
<1>t. /\ BotCount \in Nat /\ Len(scenario.actions) \in Nat /\ pc \in Nat
      /\ DOMAIN Tl = 1 .. Len(scenario.actions)
      /\ \A n \in 1 .. BotCount : scenario.participants[n] \in Bots
  BY <1>p, FileTypes DEF Positions
<1> SUFFICES ASSUME InScenario', ~errors', NEW n \in 1 .. BotCount,
                    NEW i \in DOMAIN Tl, NEW j \in DOMAIN Tl,
                    JoinsAndStarts(Tl, scenario.participants[n], i, j)
             PROVE  OnTheWay(n, i, j)'
  BY <1>p DEF DropoutInv
<1>w. InScenario /\ ~errors => OnTheWay(n, i, j)
  BY DEF DropoutInv
<1>ij. i \in Nat /\ j \in Nat /\ i < j /\ i >= 1
  BY <1>t DEF JoinsAndStarts
<1>1. CASE UNCHANGED scenarioVars \/ LoadFails
  <2>1. UNCHANGED <<phase, pc, cursor, step, errors, measured, status, scenario>>
    BY <1>1 DEF scenarioVars, botVars, engineVars, LoadFails
  <2> QED
    BY <1>w, <2>1 DEF OnTheWay, InScenario, Past, Ahead
<1>2. CASE Starts
  <2>1. LaunchScenario
    BY <1>2 DEF Starts, LaunchRun, InScenario, Phases
  <2>2. phase' = "act" /\ pc' = 1 /\ cursor' = 1
    BY <2>1 DEF LaunchScenario, FirstAction
  <2>3. ~Past(n, i)' /\ ~Past(n, j)'
    BY <1>ij, <2>2 DEF Past
  <2> QED
    BY <2>2, <2>3 DEF OnTheWay
<1>3. CASE Ends
  BY <1>3 DEF Ends, ProcessEnds, InScenario
<1>4. CASE RunAction
  <2>1. phase = "act" /\ (errors => errors')
    <3>1. OtherAct => (errors => errors')
      BY OtherActs
    <3>2. AllJoin \/ StartMedia => (errors => errors')
      BY DEF AllJoin, StartMedia, StartMediaSkips, StartMediaBegins, StartMediaGoesOn,
        StartMediaFails, SetupError, PublishIntent
    <3> QED
      BY <1>4, <3>1, <3>2, RunActionMoves DEF RunAction, OtherAct, StartMedia
  <2>2. OnTheWay(n, i, j)
    BY <1>w, <2>1 DEF InScenario, Phases
  <2> QED
    BY <1>4, <2>2, JoinKeepsTheWay, StartKeepsTheWay, OtherActKeepsTheWay
    DEF RunAction, OtherAct, StartMedia
<1>5. CASE EndStep
  <2>1. /\ InScenario /\ ~errors
        /\ phase' \in Phases \ {"off", "act"}
    BY <1>5 DEF EndStep, Collect, DisconnectAll, DisconnectNext, JudgeRun, NotSaved, Truncate,
      Write, WriteFails, savingVars, InScenario, Phases
  <2>2. OnTheWay(n, i, j)
    BY <1>w, <2>1
  <2>3. scenario.participants[n] \in DOMAIN measured'
    <3>1. CASE Collect
      <4>1. phase = "act" /\ pc > Len(scenario.actions)
        BY <3>1 DEF Collect
      <4>2. Past(n, j)
        BY <1>t, <4>1 DEF Past
      <4>3. status[scenario.participants[n]] = "publishing"
        BY <2>2, <4>1, <4>2 DEF OnTheWay
      <4> QED
        BY <1>t, <3>1, <4>3 DEF Collect, PublishingBots
    <3>2. CASE DisconnectAll \/ JudgeRun \/ NotSaved \/ Truncate \/ Write \/ WriteFails
      <4>1. measured' = measured /\ phase # "act"
        BY <3>2 DEF DisconnectAll, JudgeRun, NotSaved, Truncate, Write, WriteFails, savingVars
      <4> QED
        BY <2>1, <2>2, <4>1 DEF OnTheWay
    <3> QED
      BY <1>5, <3>1, <3>2 DEF EndStep
  <2> QED
    BY <1>p, <2>1, <2>3 DEF OnTheWay
<1>6. CASE RunJoin \/ RunMedia \/ RunPtt \/ RunHold \/ RunDisconnect
  <2>1. phase' \in RunPhases
    BY <1>6, RunStepMoves DEF BotDone, Stay, RunPhases
  <2> QED
    BY <2>1 DEF InScenario, Phases, RunPhases
<1> QED
  BY <1>1, <1>2, <1>3, <1>4, <1>5, <1>6, CliSteps DEF ProcessStep

\* A result with an error passes in no run (judge).
LEMMA ErrorsNeverPass ==
  ASSUME BaselineInv, phase = "exit", report.overall = "PASS"
  PROVE  ~errors
BY DEF BaselineInv, VerdictStands, Overall, Layer2

(***************************************************************************)
(* A run that passes has measured every bot that the scenario joins and    *)
(* starts and does not kill (action_all_join, action_start_media, judge).  *)
(***************************************************************************)
THEOREM CliNoSilentDropout == CliSpec => []NoSilentDropout
<1> DEFINE WayInv == EngineInv /\ BaselineInv /\ DropoutInv
<1>1. CliInit => WayInv
  <2>1. ScenarioInit => /\ measured = <<>> /\ file = Unreadable /\ basis = Unreadable
                        /\ phase = "off"
    BY DEF ScenarioInit
  <2> QED
    BY <2>1, NothingTyped, EngineInit DEF CliInit, BaselineInv, MeasuredTypes, VerdictStands,
      DropoutInv, InScenario
<1>2. WayInv /\ [CliNext]_cliVars => WayInv'
  BY EngineStepTyped, BaselineStepHolds, DropoutStep
<1>3. WayInv => NoSilentDropout
  <2> SUFFICES ASSUME WayInv, phase = "exit", report.overall = "PASS",
                      NEW b \in Bots, Expected(b)
               PROVE  b \in DOMAIN measured
    BY DEF NoSilentDropout
  <2>1. ~errors /\ InScenario /\ phase # "act"
    BY ErrorsNeverPass DEF InScenario, Phases
  <2>2. PICK n \in 1 .. BotCount : b = scenario.participants[n]
    BY FileTypes DEF EngineInv, EngineTypes
  <2>3. PICK i \in DOMAIN Tl, j \in DOMAIN Tl : JoinsAndStarts(Tl, b, i, j)
    BY DEF Expected, Tl
  <2>4. OnTheWay(n, i, j)
    BY <2>1, <2>2, <2>3 DEF DropoutInv
  <2> QED
    BY <2>1, <2>2, <2>4 DEF OnTheWay
<1> QED
  BY <1>1, <1>2, <1>3, PTL DEF CliSpec

-----------------------------------------------------------------------------
(***************************************************************************)
(* The measurements as commands: whichever is given, the state of the      *)
(* distributed point goes through a behaviour of Distributed, and that of  *)
(* a row through one of Conference or of Capacity (main.rs).               *)
(***************************************************************************)
THEOREM CliImplementsRows ==
  CliSpec => /\ DistSpec
             /\ command = "cap_conf" => ConfSpec
             /\ command # "cap_conf" => Spec
<1>1. CliInit => /\ DistInit
                 /\ command = "cap_conf" => ConfInit
                 /\ command # "cap_conf" => Init
  BY DEF CliInit
<1>2. [CliNext]_cliVars => [DistNext]_distVars
  BY DEF CliNext, cliVars, Bot, Cap, Conf, Dist
<1>3. command = "cap_conf" /\ [CliNext]_cliVars
        => (command = "cap_conf")' /\ [ConfNext]_confVars
  BY DEF CliNext, cliVars, confVars, Bot, Cap, Conf, Dist
<1>4. command # "cap_conf" /\ [CliNext]_cliVars => (command # "cap_conf")' /\ [Next]_vars
  BY DEF CliNext, cliVars, confVars, Bot, Cap, Conf, Dist
<1> QED
  BY <1>1, <1>2, <1>3, <1>4, PTL DEF CliSpec, DistSpec, ConfSpec, Spec

(***************************************************************************)
(* Of every command, whatever it measures: the permits add up, an early    *)
(* trigger finds everybody set up, and a row that is written stays as it   *)
(* is (run_one, run_one_conf).                                             *)
(***************************************************************************)
THEOREM CliRows == CliSpec => [](PermitsConserved /\ EarlyTriggerMeansReady /\ RowIsFinal)
<1>1. command = "cap_conf" \/ command # "cap_conf"
  OBVIOUS
<1> QED
  BY <1>1, CliImplementsRows, ConferenceRow, SemaphoreConserved, EarlyTriggerFindsAllReady,
    RowStaysFinal, PTL

(***************************************************************************)
(* With a margin above the poll and the publisher's delay, no command cuts *)
(* what it measures: a row's subscribers outlast the publication and the   *)
(* runner's measuring, a conference's participants the measuring (run_one, *)
(* run_one_conf).                                                          *)
(***************************************************************************)
THEOREM CliWindows ==
  ASSUME Poll + PubSlack < Margin
  PROVE  CliSpec => [](WindowCovered /\ MeshLasts)
<1>0. command = "cap_conf" \/ command # "cap_conf"
  OBVIOUS
<1>1. Spec => []WindowCovered
  BY RunWindowCovers
<1>2. Poll <= Margin
  BY CapacityAssumption
<1>3. Spec => []MeshLasts
  BY <1>2, RunWindowOutlasts
<1> QED
  BY <1>0, <1>1, <1>3, CliImplementsRows, MeshLastsTheRow, NoPublisherInMesh, PTL

(***************************************************************************)
(* Of every command: a distributed point reported as healthy was heard,    *)
(* and no subscriber of a worker stops before the worker has measured, if  *)
(* the margin is at least the second to which the window is rounded        *)
(* (run_distributed, run_cap_worker).                                      *)
(***************************************************************************)
THEOREM CliDistributed ==
  ASSUME DistMargin >= Second
  PROVE  CliSpec => [](HealthyMeansHeard /\ WorkerWindowCovered)
<1>1. DistSpec => []WorkerWindowCovered
  BY WindowsAreCovered
<1> QED
  BY <1>1, CliImplementsRows, HealthyWasHeard, PTL
=============================================================================
