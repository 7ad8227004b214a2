------------------------------- MODULE BotLife -------------------------------
(***************************************************************************)
(* The life of a bot from Created to Stopped: the lifecycle operations of  *)
(* crates/oxlab-bot/src/bot.rs with setup_media_pc of common/src/media.rs, *)
(* which each command of the lab calls in its own order.                   *)
(*                                                                         *)
(* A media setup binds two sockets, one after the other, and on each asks  *)
(* STUN, spawns a task that reads the socket for the DTLS handshake, and   *)
(* aborts it when the keys are exported.  A publication is four tasks on   *)
(* those sockets; they are one here, named by the setup whose sockets they *)
(* use.  What they do is in SendPath, PttFloor and Observe; what a join    *)
(* says to the hub is in Signaling, and its answers are external here.     *)
(***************************************************************************)
EXTENDS Integers

CONSTANTS
  Bots,       (* the bots of the command                                   *)
  Profiles    (* the builtin network profiles, "pristine" among them       *)

ASSUME BotLifeAssumption == "pristine" \in Profiles

VARIABLES
  status,     (* BotStatus                                                 *)
  session,    (* the signaling session: none, open or closed               *)
  net_filter, (* the profile the NetFilter applies                         *)
  stage,      (* where setup_media is, idle when it is not running         *)
  setups,     (* media setups begun                                        *)
  media,      (* the setup whose sockets are in the MediaContext, 0 if none*)
  readers,    (* DTLS readers alive: <<bot, setup, PC>>                    *)
  tasks,      (* publications alive: <<bot, setup>>                        *)
  handles     (* the publication task_handles and media_cancel hold        *)

botVars == <<status, session, net_filter, stage, setups, media, readers, tasks, handles>>

Statuses == {"created", "joined", "media_ready", "publishing", "stopped"}
PCs == {"pub", "sub"}
Stages == {"idle", "pub_stun", "pub_dtls", "sub_stun", "sub_dtls"}

AnyName(profile) == profile                              \* mutant

\* NetworkProfile::builtin, and pristine for a name it does not know.
Builtin(profile) == IF profile \in Profiles THEN profile ELSE "pristine"

NoBots ==
  /\ status = [b \in Bots |-> "created"] /\ session = [b \in Bots |-> "none"]
  /\ net_filter = [b \in Bots |-> "pristine"]
  /\ stage = [b \in Bots |-> "idle"] /\ setups = [b \in Bots |-> 0]
  /\ media = [b \in Bots |-> 0] /\ handles = [b \in Bots |-> 0]
  /\ readers = {} /\ tasks = {}

\* Bot::new of every bot, with a NetFilter of the profile given to it.
CreateBots(profile) ==
  /\ status' = [b \in Bots |-> "created"] /\ session' = [b \in Bots |-> "none"]
  /\ net_filter' = [b \in Bots |-> Builtin(profile[b])]
  /\ stage' = [b \in Bots |-> "idle"] /\ setups' = [b \in Bots |-> 0]
  /\ media' = [b \in Bots |-> 0] /\ handles' = [b \in Bots |-> 0]
  /\ readers' = {} /\ tasks' = {}

\* connect_and_join and join_existing_room, when the hub lets the bot in.
\* They look at nothing of the bot's past.
Join(b) ==
  /\ session' = [session EXCEPT ![b] = "open"]
  /\ status' = [status EXCEPT ![b] = "joined"]
  /\ UNCHANGED <<net_filter, stage, setups, media, readers, tasks, handles>>

-----------------------------------------------------------------------------
(***************************************************************************)
(* setup_media.                                                            *)
(***************************************************************************)

\* The first socket is bound and its STUN binding request sent.
BeginSetup(b) ==
  /\ status[b] = "joined" /\ session[b] = "open"
  /\ stage[b] = "idle"
  /\ stage' = [stage EXCEPT ![b] = "pub_stun"]
  /\ setups' = [setups EXCEPT ![b] = @ + 1]
  /\ UNCHANGED <<status, session, net_filter, media, readers, tasks, handles>>

PC(st) == IF st \in {"pub_stun", "pub_dtls"} THEN "pub" ELSE "sub"
Reader(b) == <<b, setups[b], PC(stage[b])>>

\* The STUN response: the DTLS reader starts.
StunAnswered(b) ==
  /\ stage[b] \in {"pub_stun", "sub_stun"}
  /\ readers' = readers \cup {Reader(b)}
  /\ stage' = [stage EXCEPT ![b] = IF @ = "pub_stun" THEN "pub_dtls" ELSE "sub_dtls"]
  /\ UNCHANGED <<status, session, net_filter, setups, media, tasks, handles>>

\* No response in 5s.
StunTimeout(b) ==
  /\ stage[b] \in {"pub_stun", "sub_stun"}
  /\ stage' = [stage EXCEPT ![b] = "idle"]
  /\ UNCHANGED <<status, session, net_filter, setups, media, readers, tasks, handles>>

ReaderLeft(b) == readers                                 \* mutant

ReaderAborted(b) == readers \ {Reader(b)}

\* The handshake is over and the keys are exported.
DtlsDone(b) ==
  /\ stage[b] \in {"pub_dtls", "sub_dtls"}
  /\ readers' = ReaderAborted(b)
  /\ IF stage[b] = "pub_dtls"
     THEN /\ stage' = [stage EXCEPT ![b] = "sub_stun"]
          /\ UNCHANGED <<status, media>>
     ELSE /\ stage' = [stage EXCEPT ![b] = "idle"]
          /\ media' = [media EXCEPT ![b] = setups[b]]
          /\ status' = [status EXCEPT ![b] = "media_ready"]
  /\ UNCHANGED <<session, net_filter, setups, tasks, handles>>

\* An error of the handshake or of the export leaves the reader alone.
DtlsFails(b) ==
  /\ stage[b] \in {"pub_dtls", "sub_dtls"}
  /\ stage' = [stage EXCEPT ![b] = "idle"]
  /\ UNCHANGED <<status, session, net_filter, setups, media, readers, tasks, handles>>

MediaStep(b) == StunAnswered(b) \/ DtlsDone(b)
MediaFails(b) == StunTimeout(b) \/ DtlsFails(b)

-----------------------------------------------------------------------------

ForgetsHandles(b) ==                                     \* mutant
  /\ status[b] = "media_ready"
  /\ tasks' = tasks \cup {<<b, media[b]>>}
  /\ status' = [status EXCEPT ![b] = "publishing"]
  /\ UNCHANGED <<session, net_filter, stage, setups, media, readers, handles>>

\* A publication whose handles are overwritten is detached: the dropped cancel
\* sender wakes its tasks, which find no cancellation and go on.
StartPublishing(b) ==
  /\ status[b] = "media_ready"
  /\ tasks' = tasks \cup {<<b, media[b]>>}
  /\ handles' = [handles EXCEPT ![b] = media[b]]
  /\ status' = [status EXCEPT ![b] = "publishing"]
  /\ UNCHANGED <<session, net_filter, stage, setups, media, readers>>

UpdateNetFilter(b, profile) ==
  /\ net_filter' = [net_filter EXCEPT ![b] = Builtin(profile)]
  /\ UNCHANGED <<status, session, stage, setups, media, readers, tasks, handles>>

\* stop_publishing: the tasks are told, given 100ms and aborted.
Stopped(b) == tasks \ {<<b, handles[b]>>}

Disconnect(b) ==
  /\ tasks' = Stopped(b)
  /\ handles' = [handles EXCEPT ![b] = 0]
  /\ session' = [session EXCEPT ![b] = IF @ = "open" THEN "closed" ELSE @]
  /\ status' = [status EXCEPT ![b] = "stopped"]
  /\ UNCHANGED <<net_filter, stage, setups, media, readers>>

-----------------------------------------------------------------------------

BotTypeOK ==
  /\ status \in [Bots -> Statuses]
  /\ session \in [Bots -> {"none", "open", "closed"}]
  /\ net_filter \in [Bots -> Profiles]
  /\ stage \in [Bots -> Stages]
  /\ setups \in [Bots -> Nat] /\ media \in [Bots -> Nat] /\ handles \in [Bots -> Nat]
  /\ readers \subseteq Bots \X Nat \X PCs
  /\ tasks \subseteq Bots \X Nat

(***************************************************************************)
(* While a bot publishes, nothing else takes packets from the sockets it   *)
(* uses: the DTLS reader that setup_media_pc spawned on each of them is    *)
(* gone, and so is the publication of an earlier start                     *)
(* (media.rs:236 and start_publishing).                                    *)
(***************************************************************************)
SoleReader ==
  \A b \in Bots : status[b] = "publishing" =>
    /\ <<b, media[b]>> \in tasks
    /\ \A pc \in PCs : <<b, media[b], pc>> \notin readers

=============================================================================
