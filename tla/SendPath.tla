------------------------------- MODULE SendPath -------------------------------
(***************************************************************************)
(* The publishing half of Bot::start_publishing (crates/oxlab-bot/src/     *)
(* bot.rs): the audio and the video task, each woken by its own interval,  *)
(* which build a packet, take the bot's one NetFilter, sleep the delay it  *)
(* returns and send; the pub-socket task that turns a PLI into a forced    *)
(* keyframe; the scenario engine changing the filter while they run; and   *)
(* stop_publishing, which signals the tasks and then aborts them.          *)
(*                                                                         *)
(* Between two awaits a task runs to completion, so building, filtering    *)
(* and (when there is no delay) sending are one step.  The sleep is inside *)
(* the select! branch: a sleeping task sees neither its interval nor the   *)
(* cancel signal.  A send_to that fails ends its task for good.            *)
(***************************************************************************)
EXTENDS NetFilter, FiniteSets

CONSTANTS
  Period,            (* ticks of a task's interval: 20ms and 33ms          *)
  AudioSize,         (* bytes of an Opus packet                            *)
  KeySize,           (* bytes of a VP8 keyframe packet                     *)
  DeltaSize,         (* bytes of a VP8 interframe packet                   *)
  KeyframeInterval,  (* VP8_KEYFRAME_INTERVAL                              *)
  MaxTime            (* bound on the clock                                 *)

Tasks == {"audio", "video"}

ASSUME SendPathAssumption ==
  /\ Period \in [Tasks -> Nat \ {0}]
  /\ AudioSize \in Nat
  /\ KeySize \in Nat
  /\ DeltaSize \in Nat
  /\ KeyframeInterval \in Nat \ {0}
  /\ MaxTime \in Nat

VARIABLES
  task,            (* "idle" in select!, "sleep" in the delay, or "done"   *)
  due,             (* when a task's interval next fires                    *)
  wake,            (* when a sleeping task wakes                           *)
  held,            (* bytes of the packet a sleeping task will send        *)
  force_keyframe,  (* the flag shared by the video and the pub-socket task *)
  frame_count,     (* video frames built                                   *)
  cancel,          (* media_cancel has been signalled                      *)
  \* History, for the properties only.
  keyframes,       (* the frame numbers that were built as keyframes       *)
  asked,           (* frame_count at each PLI                              *)
  since,           (* when the window being measured began                 *)
  passed,          (* bytes let through since then                         *)
  wired,           (* bytes put on the socket since then                   *)
  carried,         (* bytes that were asleep when it began                 *)
  sent,            (* packets put on the socket                            *)
  failed,          (* packets whose send_to failed                         *)
  aborted          (* packets aborted in their sleep                       *)

taskVars == <<task, due, wake, held, force_keyframe, frame_count, cancel>>
history == <<keyframes, asked, since, passed, wired, carried,
             sent, failed, aborted>>
vars == <<now, filterVars, taskVars, history>>

-----------------------------------------------------------------------------

HeldBytes == held["audio"] + held["video"]
Asleep == {t \in Tasks : task[t] = "sleep"}

Init ==
  /\ now = 0
  /\ FilterInit
  /\ task = [t \in Tasks |-> "idle"]
  /\ due = [t \in Tasks |-> 0]
  /\ wake = [t \in Tasks |-> 0]
  /\ held = [t \in Tasks |-> 0]
  /\ force_keyframe = FALSE
  /\ frame_count = 0
  /\ cancel = FALSE
  /\ keyframes = {} /\ asked = {}
  /\ since = 0 /\ passed = 0 /\ wired = 0 /\ carried = 0
  /\ sent = 0 /\ failed = 0 /\ aborted = 0

-----------------------------------------------------------------------------

\* A tick missed while the task slept fires at once when it is back (the
\* interval's Burst behaviour): due advances by one period, not to now.
Ticks(t) ==
  /\ task[t] = "idle"
  /\ now >= due[t]
  /\ due' = [due EXCEPT ![t] = @ + Period[t]]

KeepHistory == UNCHANGED <<asked, since, carried, aborted>>

(***************************************************************************)
(* send_to: the packet is on the wire, or the task warns and breaks out of *)
(* its loop.                                                               *)
(***************************************************************************)
Send(t, len) ==
  \/ /\ task' = [task EXCEPT ![t] = "idle"]
     /\ wired' = wired + len
     /\ sent' = sent + 1
     /\ UNCHANGED failed
  \/ /\ task' = [task EXCEPT ![t] = "done"]
     /\ failed' = failed + 1
     /\ UNCHANGED <<wired, sent>>

(***************************************************************************)
(* What a task does with the packet it built: fail to encrypt it, which    *)
(* the filter never hears of, drop it, send it at once, or sleep with it.  *)
(***************************************************************************)
Unencrypted ==
  UNCHANGED <<filterVars, task, wake, held, passed, wired, sent, failed>>

Dropped(len) ==
  /\ BandwidthDrop(len) \/ LossDrop(len)
  /\ UNCHANGED <<task, wake, held, passed, wired, sent, failed>>

SentAtOnce(t, len) ==
  /\ Pass(len, 0)
  /\ passed' = passed + len
  /\ Send(t, len)
  /\ UNCHANGED <<wake, held>>

Delayed(t, len) ==
  \E d \in Delays \ {0} :
    /\ Pass(len, d)
    /\ passed' = passed + len
    /\ task' = [task EXCEPT ![t] = "sleep"]
    /\ wake' = [wake EXCEPT ![t] = now + d]
    /\ held' = [held EXCEPT ![t] = len]
    /\ UNCHANGED <<wired, sent, failed>>

Offer(t, len) == Unencrypted \/ Dropped(len) \/ SentAtOnce(t, len) \/ Delayed(t, len)

\* build_opus_packet, then the filter.
AudioTick ==
  /\ Ticks("audio")
  /\ Offer("audio", AudioSize)
  /\ KeepHistory
  /\ UNCHANGED <<now, force_keyframe, frame_count, cancel, keyframes>>

\* build_vp8_packet takes the flag before it knows whether the packet is sent.
OnlyByInterval == frame_count % KeyframeInterval = 0      \* mutant

IsKeyframe == force_keyframe \/ frame_count % KeyframeInterval = 0

VideoSize == IF IsKeyframe THEN KeySize ELSE DeltaSize

VideoTick ==
  /\ Ticks("video")
  /\ force_keyframe' = FALSE
  /\ keyframes' = IF IsKeyframe THEN keyframes \cup {frame_count} ELSE keyframes
  /\ frame_count' = frame_count + 1
  /\ Offer("video", VideoSize)
  /\ KeepHistory
  /\ UNCHANGED <<now, cancel>>

\* The sleep ends and the packet goes to the socket.
Wake(t) ==
  /\ task[t] = "sleep"
  /\ now >= wake[t]
  /\ Send(t, held[t])
  /\ held' = [held EXCEPT ![t] = 0]
  /\ UNCHANGED <<now, filterVars, due, wake, force_keyframe, frame_count, cancel,
                 keyframes, asked, since, passed, carried, aborted>>

\* The pub-socket task decodes a PLI for this bot's video SSRC.
RecvPli ==
  /\ ~cancel
  /\ force_keyframe' = TRUE
  /\ asked' = asked \cup {frame_count}
  /\ UNCHANGED <<now, filterVars, task, due, wake, held, frame_count, cancel,
                 keyframes, since, passed, wired, carried, sent, failed, aborted>>

\* A window of time in which the bytes are counted: it may begin at any
\* moment, and does when the configuration changes.
NewWindow ==
  /\ since' = now
  /\ passed' = 0
  /\ wired' = 0
  /\ carried' = HeldBytes
  /\ UNCHANGED <<now, taskVars, keyframes, asked, sent, failed, aborted>>

Measure ==
  /\ NewWindow
  /\ UNCHANGED filterVars

\* network_transition: the engine replaces the filter's configuration.
UpdateNetFilter(new) ==
  /\ Update(new)
  /\ NewWindow

\* stop_publishing: the signal, the tasks that see it, and the final abort,
\* which takes a sleeping task with the packet it holds.
Cancel ==
  /\ ~cancel
  /\ cancel' = TRUE
  /\ UNCHANGED <<now, filterVars, task, due, wake, held, force_keyframe,
                 frame_count, history>>

Exit(t) ==
  /\ cancel
  /\ task[t] = "idle"
  /\ task' = [task EXCEPT ![t] = "done"]
  /\ UNCHANGED <<now, filterVars, due, wake, held, force_keyframe, frame_count,
                 cancel, history>>

Abort ==
  /\ cancel
  /\ task # [t \in Tasks |-> "done"]
  /\ task' = [t \in Tasks |-> "done"]
  /\ held' = [t \in Tasks |-> 0]
  /\ aborted' = aborted + Cardinality(Asleep)
  /\ UNCHANGED <<now, filterVars, due, wake, force_keyframe, frame_count, cancel,
                 keyframes, asked, since, passed, wired, carried, sent, failed>>

\* Tasks are scheduled promptly: the clock waits for whoever is ready.
Ready(t) ==
  \/ task[t] = "idle" /\ now >= due[t]
  \/ task[t] = "sleep" /\ now >= wake[t]

Advance ==
  /\ now < MaxTime
  /\ \A t \in Tasks : ~Ready(t)
  /\ now' = now + 1
  /\ UNCHANGED <<filterVars, taskVars, history>>

Next ==
  \/ AudioTick
  \/ VideoTick
  \/ \E t \in Tasks : Wake(t) \/ Exit(t)
  \/ RecvPli
  \/ \E new \in Configs : UpdateNetFilter(new)
  \/ Measure
  \/ Cancel
  \/ Abort
  \/ Advance

Spec == Init /\ [][Next]_vars

-----------------------------------------------------------------------------

TypeOK ==
  /\ now \in Nat
  /\ config \in Configs
  /\ tokens \in Nat
  /\ last_refill \in Nat
  /\ stats_total \in Nat
  /\ stats_dropped \in Nat
  /\ task \in [Tasks -> {"idle", "sleep", "done"}]
  /\ due \in [Tasks -> Nat]
  /\ wake \in [Tasks -> Nat]
  /\ held \in [Tasks -> Nat]
  /\ force_keyframe \in BOOLEAN
  /\ frame_count \in Nat
  /\ cancel \in BOOLEAN
  /\ keyframes \subseteq Nat
  /\ asked \subseteq Nat
  /\ since \in Nat
  /\ passed \in Nat
  /\ wired \in Nat
  /\ carried \in Nat
  /\ sent \in Nat
  /\ failed \in Nat
  /\ aborted \in Nat

(***************************************************************************)
(* The bandwidth limit, at the filter: in any window of time between two   *)
(* updates, the two tasks together are let through no more than one burst  *)
(* and what the rate earns in it, whatever the order of their locks.       *)
(***************************************************************************)
BandwidthBound ==
  Limited => passed <= Capacity(config.rate) + config.rate * (now - since)

(***************************************************************************)
(* The same limit seen on the wire: a packet that was already asleep when  *)
(* the window began (when the engine tightened the filter, say) still goes *)
(* out, and nothing else may exceed the limit.                             *)
(***************************************************************************)
WireBound ==
  Limited => wired <= Capacity(config.rate) + config.rate * (now - since) + carried

(***************************************************************************)
(* The statistics count a packet when the filter decides, before it is     *)
(* sent: one that was not dropped is on the wire, asleep in its task, was  *)
(* aborted by stop_publishing or ended its task in a failed send_to.  They *)
(* overstate what was sent by at most one packet a task, because a task    *)
(* that lost one never builds another.                                     *)
(***************************************************************************)
Unsent == failed + aborted + Cardinality(Asleep)

StatsLedger ==
  /\ stats_total - stats_dropped = sent + Unsent
  /\ Unsent <= Cardinality(Tasks)

(***************************************************************************)
(* A PLI is never lost between the pub-socket task and the video task: the *)
(* first frame built after it is a keyframe, however many PLIs and frames  *)
(* interleave.                                                             *)
(***************************************************************************)
KeyframeAfterPli == \A n \in asked : n < frame_count => n \in keyframes

(***************************************************************************)
(* The packet intervals hold: no task is a whole period late, so the audio *)
(* is a packet every 20ms and the video one every 33ms.                    *)
(***************************************************************************)
OnSchedule == \A t \in Tasks : task[t] # "done" => now < due[t] + Period[t]

=============================================================================
