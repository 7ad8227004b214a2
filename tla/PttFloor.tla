------------------------------- MODULE PttFloor -------------------------------
(***************************************************************************)
(* How PTT bots observe the floor (crates/oxlab-bot/src/bot.rs).           *)
(*                                                                         *)
(* Three activities share four atomic flags per bot:                       *)
(*   - the scenario engine, one task, calls floor_request_ws,              *)
(*     floor_release_ws and process_events of one bot at a time;           *)
(*   - each bot's subscribe recv task judges every RTP packet by the flags *)
(*     and records the observations the L1 checkpoints read;               *)
(*   - the SFU grants the floor, relays the speaker's RTP and announces    *)
(*     the floor over the WebSocket.                                       *)
(* WebSocket frames of a bot are delivered in order, and so are its RTP    *)
(* packets, but the two paths are independent.  The SFU (external) behaves *)
(* as the checkpoints require of it: it relays only the floor holder,      *)
(* starts a turn's video with a keyframe, flushes silence on release and   *)
(* opens the video gate only on TRACKS_READY.                              *)
(***************************************************************************)
EXTENDS Integers, Sequences, Sifting

CONSTANTS
  Bots,         (* the bots of the room                                    *)
  Requesters,   (* those the scenario makes ask for the floor              *)
  NoBot,        (* nobody holds the floor                                  *)
  Limits        (* bounds to consider: requests, the floor requests of the *)
                (* whole scenario, flight, the RTP packets in flight to    *)
                (* one bot, and refusals, whether the SFU may refuse a     *)
                (* TRACKS_READY                                            *)

ASSUME PttFloorAssumption ==
  /\ Requesters \subseteq Bots
  /\ NoBot \notin Bots
  /\ Limits \subseteq [requests : Nat, flight : Nat, refusals : BOOLEAN]

VARIABLES
  limits,        (* the bounds of this behaviour                           *)
  \* The SFU.
  holder,        (* who holds the floor                                    *)
  published,     (* the bots whose tracks are published                    *)
  left,          (* the bots that have left                                *)
  gate,          (* the subscribers whose video gate is open               *)
  synced,        (* the subscribers that got this turn's keyframe          *)
  refused,       (* history: those it has refused a TRACKS_READY           *)
  \* The wires.
  up,            (* frames from a bot to the SFU                           *)
  ws,            (* frames to a bot, not yet taken by its session          *)
  rtp,           (* RTP packets to a bot                                   *)
  \* A bot, as the engine drives it.
  pc,            (* "idle", "await" FTKN, "ready" ACK, or "drain" floor    *)
  floor_mbcp_buf,(* FLOOR_MBCP bodies the session has buffered             *)
  event_buf,     (* events the session has buffered                        *)
  batch,         (* floor messages drained and being processed             *)
  stores,        (* flag stores left to do for the current message         *)
  subscribe_ssrcs,
  \* The flags shared with the recv task.
  flag,
  \* The recv task and what it recorded.
  rx, obs,
  \* History.
  requests,      (* floor requests made                                    *)
  announced,     (* every floor announcement so far: TRUE when idle        *)
  granted        (* whom the FTKN named that made a request succeed        *)

sfu == <<holder, published, left, gate, synced, refused>>
session == <<floor_mbcp_buf, event_buf>>
vars == <<sfu, up, ws, rtp, pc, session, batch, stores, subscribe_ssrcs, flag,
          rx, obs, requests, announced, granted>>

-----------------------------------------------------------------------------

Message(kind, b) == [kind |-> kind, bot |-> b]
FloorKinds == {"FTKN", "FIDL", "FRVK"}
TrackKinds == {"add", "remove"}
AnswerKinds == {"ack", "nack"}
EventKinds == TrackKinds \cup {"leave"} \cup AnswerKinds  \* all but the floor's
Messages(kinds) == [kind : kinds, bot : Bots]
Tracks == Messages(TrackKinds)
NoFloorOrTrack(m) == m.kind \notin FloorKinds \cup TrackKinds  \* mutant
IsResponse(m) == m.kind \in AnswerKinds

Packets == {"audio", "silence", "keyframe", "delta"}
IsVideo(p) == p \in {"keyframe", "delta"}

\* rx: the packet at hand and the flag the recv task looks at next.
NoPacket == [packet |-> "none", next |-> "none"]

Init ==
  /\ limits \in Limits
  /\ holder = NoBot
  /\ published = {} /\ left = {} /\ gate = {} /\ synced = {} /\ refused = {}
  /\ up = [b \in Bots |-> <<>>]
  /\ ws = [b \in Bots |-> <<>>]
  /\ rtp = [b \in Bots |-> <<>>]
  /\ pc = [b \in Bots |-> "idle"]
  /\ floor_mbcp_buf = [b \in Bots |-> <<>>]
  /\ event_buf = [b \in Bots |-> <<>>]
  /\ batch = [b \in Bots |-> <<>>]
  /\ stores = [b \in Bots |-> <<>>]
  /\ subscribe_ssrcs = [b \in Bots |-> {}]
  /\ flag = [b \in Bots |-> [floor_idle |-> TRUE, speaker_just_changed |-> FALSE,
                             floor_just_released |-> FALSE, ack_sent |-> FALSE]]
  /\ rx = [b \in Bots |-> NoPacket]
  /\ obs = [b \in Bots |-> [non_speaker_rtp |-> FALSE, silence |-> 0,
                            first_video |-> "none", video_before_ack |-> FALSE,
                            floor_revoke |-> FALSE, zombies |-> {}]]
  /\ requests = 0
  /\ announced = <<>>
  /\ granted = [b \in Bots |-> {}]

-----------------------------------------------------------------------------
(***************************************************************************)
(* The SFU.                                                                *)
(***************************************************************************)

Present == Bots \ left

Broadcast(to, m) == ws' = [b \in Bots |-> IF b \in to THEN Append(ws[b], m) ELSE ws[b]]

Publish(c) ==
  /\ c \in Present \ published
  /\ published' = published \cup {c}
  /\ Broadcast(Present \ {c}, Message("add", c))
  /\ UNCHANGED <<holder, left, gate, synced, refused, up, rtp, pc, session, batch, stores,
                 subscribe_ssrcs, flag, rx, obs, requests, announced, granted>>

\* The next frame from b, when it is the one named.
Takes(b, kind) ==
  /\ b \in Present
  /\ up[b] # <<>>
  /\ Head(up[b]) = kind
  /\ up' = [up EXCEPT ![b] = Tail(@)]

\* The floor is granted when free; a request for a taken floor is not answered.
SfuFloorRequest(b) ==
  /\ Takes(b, "FREQ")
  /\ \/ /\ holder = NoBot
        /\ holder' = b
        /\ synced' = {}
        /\ announced' = Append(announced, FALSE)
        /\ Broadcast(Present, Message("FTKN", b))
     \/ /\ holder # NoBot
        /\ UNCHANGED <<holder, synced, announced, ws>>
  /\ UNCHANGED <<published, left, gate, refused, rtp, pc, session, batch, stores,
                 subscribe_ssrcs, flag, rx, obs, requests, granted>>

\* Silence is flushed to the listeners and the floor announced idle.
Flush(s) ==
  rtp' = [b \in Bots |-> IF b \in Present \ {s} THEN Append(rtp[b], "silence") ELSE rtp[b]]

SfuFloorRelease(b) ==
  /\ Takes(b, "FREL")
  /\ \/ /\ holder = b
        /\ holder' = NoBot
        /\ announced' = Append(announced, TRUE)
        /\ Flush(b)
        /\ Broadcast(Present, Message("FIDL", b))
     \/ /\ holder # b
        /\ UNCHANGED <<holder, announced, rtp, ws>>
  /\ UNCHANGED <<published, left, gate, synced, refused, pc, session, batch, stores,
                 subscribe_ssrcs, flag, rx, obs, requests, granted>>

\* The SFU takes the floor back: FRVK to the speaker, FIDL to everyone.
SfuFloorRevoke ==
  /\ holder # NoBot
  /\ holder' = NoBot
  /\ announced' = Append(announced, TRUE)
  /\ Flush(holder)
  /\ ws' = [b \in Bots |->
              IF b = holder THEN ws[b] \o <<Message("FRVK", b), Message("FIDL", b)>>
              ELSE IF b \in Present THEN Append(ws[b], Message("FIDL", holder))
              ELSE ws[b]]
  /\ UNCHANGED <<published, left, gate, synced, refused, up, pc, session, batch, stores,
                 subscribe_ssrcs, flag, rx, obs, requests, granted>>

\* SubscriberGate: TRACKS_READY opens the video and is then acknowledged, or
\* it is refused (AckFail or an ERROR frame).
SfuTracksReady(b) ==
  /\ Takes(b, "READY")
  /\ \/ /\ gate' = gate \cup {b}
        /\ ws' = [ws EXCEPT ![b] = Append(@, Message("ack", b))]
        /\ UNCHANGED refused
     \/ /\ limits.refusals
        /\ refused' = refused \cup {b}
        /\ ws' = [ws EXCEPT ![b] = Append(@, Message("nack", b))]
        /\ UNCHANGED gate
  /\ UNCHANGED <<holder, published, left, synced, rtp, pc, session, batch, stores,
                 subscribe_ssrcs, flag, rx, obs, requests, announced, granted>>

SfuRelay(b) ==
  /\ holder \notin {NoBot, b}
  /\ b \in Present
  /\ Len(rtp[b]) < limits.flight
  /\ \/ /\ rtp' = [rtp EXCEPT ![b] = Append(@, "audio")]
        /\ UNCHANGED synced
     \/ /\ b \in gate
        /\ synced' = synced \cup {b}
        /\ \E p \in IF b \in synced THEN {"keyframe", "delta"} ELSE {"keyframe"} :
             rtp' = [rtp EXCEPT ![b] = Append(@, p)]
  /\ UNCHANGED <<holder, published, left, gate, refused, up, ws, pc, session, batch, stores,
                 subscribe_ssrcs, flag, rx, obs, requests, announced, granted>>

-----------------------------------------------------------------------------
(***************************************************************************)
(* The bot, driven by the engine: one bot at a time.                       *)
(***************************************************************************)

EngineFree == \A b \in Bots : pc[b] = "idle"

\* kill_bot: disconnect a bot.  The SFU tells the others and frees its floor.
KillBot(c) ==
  /\ EngineFree
  /\ c \in Present
  /\ left' = left \cup {c}
  /\ LET gone  == <<Message("remove", c), Message("leave", c)>>
         freed == IF holder = c THEN <<Message("FIDL", c)>> ELSE <<>>
     IN  ws' = [b \in Bots |-> IF b \in Present \ {c} THEN ws[b] \o gone \o freed
                                                      ELSE ws[b]]
  /\ announced' = IF holder = c THEN Append(announced, TRUE) ELSE announced
  /\ holder' = IF holder = c THEN NoBot ELSE holder
  /\ UNCHANGED <<published, gate, synced, refused, up, rtp, pc, session, batch, stores,
                 subscribe_ssrcs, flag, rx, obs, requests, granted>>

\* poll_events: the session takes the first n frames that have arrived.
FloorPart(s) == Sift(s, Messages(FloorKinds))
Unsorted(s) == s                                       \* mutant
EventPart(s) == Sift(s, Messages(EventKinds))

Poll(b, n) ==
  /\ n \in 0..Len(ws[b])
  /\ ws' = [ws EXCEPT ![b] = SubSeq(@, n + 1, Len(@))]

NewestFirst(b, n) ==                                   \* mutant
  FloorPart(SubSeq(ws[b], 1, n)) \o floor_mbcp_buf[b]
FloorAfterPoll(b, n) == floor_mbcp_buf[b] \o FloorPart(SubSeq(ws[b], 1, n))
BufferReplaced(b, n) == EventPart(SubSeq(ws[b], 1, n)) \* mutant
EventsAfterPoll(b, n) == event_buf[b] \o EventPart(SubSeq(ws[b], 1, n))

\* floor_request_ws: send FREQ and wait.
FloorRequest(b) ==
  /\ EngineFree
  /\ b \in Requesters \cap published \cap Present
  /\ requests < limits.requests
  /\ requests' = requests + 1
  /\ up' = [up EXCEPT ![b] = Append(@, "FREQ")]
  /\ pc' = [pc EXCEPT ![b] = "await"]
  /\ UNCHANGED <<sfu, ws, rtp, session, batch, stores, subscribe_ssrcs, flag, rx,
                 obs, announced, granted>>

\* One round of await_floor_taken.  Everything buffered is drained; the first
\* FTKN ends the wait, and what was drained with it is gone.
AwaitFloorTaken(b, n) ==
  /\ pc[b] = "await"
  /\ Poll(b, n)
  /\ event_buf' = [event_buf EXCEPT ![b] = EventsAfterPoll(b, n)]
  /\ floor_mbcp_buf' = [floor_mbcp_buf EXCEPT ![b] = <<>>]
  /\ LET drained == FloorAfterPoll(b, n)
         taken   == Sift(drained, Messages({"FTKN"}))
     IN  \/ /\ taken # <<>>
            /\ flag' = [flag EXCEPT ![b].floor_idle = FALSE]
            /\ pc' = [pc EXCEPT ![b] = "idle"]
            /\ granted' = [granted EXCEPT ![b] = @ \cup {Head(taken).bot}]
         \/ /\ taken = <<>>
            /\ UNCHANGED <<flag, pc, granted>>
  /\ UNCHANGED <<sfu, up, rtp, batch, stores, subscribe_ssrcs, rx, obs, requests,
                 announced>>

\* The second is over: floor_request_ws reports that it was not granted.
AwaitTimeout(b) ==
  /\ pc[b] = "await"
  /\ pc' = [pc EXCEPT ![b] = "idle"]
  /\ UNCHANGED <<sfu, up, ws, rtp, session, batch, stores, subscribe_ssrcs, flag,
                 rx, obs, requests, announced, granted>>

FloorRelease(b) ==
  /\ EngineFree
  /\ b \in Requesters \cap Present
  /\ up[b] = <<>>      \* bound: one release in flight
  /\ up' = [up EXCEPT ![b] = Append(@, "FREL")]
  /\ UNCHANGED <<sfu, ws, rtp, pc, session, batch, stores, subscribe_ssrcs, flag,
                 rx, obs, requests, announced, granted>>

\* process_events, first part: poll and apply every TRACKS_UPDATE; if a
\* subscription changed, send TRACKS_READY and wait, else go on to the floor.
AddsOnly(ssrcs, tracks) ==                             \* mutant
  LET new == ssrcs \cup {c \in Bots : \E i \in DOMAIN tracks : tracks[i] = Message("add", c)}
  IN  [ssrcs |-> new, changed |-> new # ssrcs]
Subscribed(ssrcs, m) == IF m.kind = "add" THEN ssrcs \cup {m.bot} ELSE ssrcs \ {m.bot}
ApplyTracks(ssrcs, tracks) ==
  LET after[n \in 0 .. Len(tracks)] ==
        IF n = 0 THEN ssrcs ELSE Subscribed(after[n - 1], tracks[n])
  IN  [ssrcs   |-> after[Len(tracks)],
       changed |-> \E n \in 1 .. Len(tracks) : after[n] # after[n - 1]]

ProcessEvents(b, n) ==
  /\ EngineFree
  /\ b \in published \cap Present
  /\ Poll(b, n)
  /\ LET events  == EventsAfterPoll(b, n)
         applied == ApplyTracks(subscribe_ssrcs[b], Sift(events, Tracks))
     IN  /\ event_buf' = [event_buf EXCEPT ![b] = Sift(events, Messages(EventKinds \ TrackKinds))]
         /\ subscribe_ssrcs' = [subscribe_ssrcs EXCEPT ![b] = applied.ssrcs]
         /\ \/ /\ applied.changed
               /\ up' = [up EXCEPT ![b] = Append(@, "READY")]
               /\ pc' = [pc EXCEPT ![b] = "ready"]
               /\ floor_mbcp_buf' = [floor_mbcp_buf EXCEPT ![b] = FloorAfterPoll(b, n)]
               /\ UNCHANGED batch
            \/ /\ ~applied.changed
               /\ batch' = [batch EXCEPT ![b] = FloorAfterPoll(b, n)]
               /\ floor_mbcp_buf' = [floor_mbcp_buf EXCEPT ![b] = <<>>]
               /\ pc' = [pc EXCEPT ![b] = "drain"]
               /\ UNCHANGED up
  /\ UNCHANGED <<sfu, rtp, stores, flag, rx, obs, requests, announced, granted>>

\* The frames up to the response are buffered; the response, whatever it says,
\* marks the subscriber ready.
AwaitTracksReady(b) ==
  /\ pc[b] = "ready"
  /\ Poll(b, 1)
  /\ ws[b] # <<>>
  /\ \/ /\ IsResponse(Head(ws[b]))
        /\ flag' = [flag EXCEPT ![b].ack_sent = TRUE]
        /\ batch' = [batch EXCEPT ![b] = floor_mbcp_buf[b]]
        /\ floor_mbcp_buf' = [floor_mbcp_buf EXCEPT ![b] = <<>>]
        /\ pc' = [pc EXCEPT ![b] = "drain"]
        /\ UNCHANGED event_buf
     \/ /\ ~IsResponse(Head(ws[b]))
        /\ floor_mbcp_buf' = [floor_mbcp_buf EXCEPT ![b] = FloorAfterPoll(b, 1)]
        /\ event_buf' = [event_buf EXCEPT ![b] = EventsAfterPoll(b, 1)]
        /\ UNCHANGED <<flag, batch, pc>>
  /\ UNCHANGED <<sfu, up, rtp, stores, subscribe_ssrcs, rx, obs, requests,
                 announced, granted>>

\* The flag stores a floor message asks for, in the order of the code.
Store(name, value) == [name |-> name, value |-> value]

FtknStores == <<Store("floor_idle", FALSE), Store("speaker_just_changed", TRUE),
                Store("floor_just_released", FALSE)>>
FidlStores == <<Store("floor_idle", TRUE), Store("floor_just_released", TRUE)>>

ReleasedNotReset(kind) ==                              \* mutant
  CASE kind = "FTKN" -> SubSeq(FtknStores, 1, 2)
    [] kind = "FIDL" -> FidlStores
    [] kind = "FRVK" -> <<>>
ReleasedByFtkn(kind) ==                                \* mutant
  CASE kind = "FTKN" -> Append(SubSeq(FtknStores, 1, 2), Store("floor_just_released", TRUE))
    [] kind = "FIDL" -> FidlStores
    [] kind = "FRVK" -> <<>>
IdleNotStored(kind) ==                                 \* mutant
  CASE kind = "FTKN" -> FtknStores
    [] kind = "FIDL" -> Tail(FidlStores)
    [] kind = "FRVK" -> <<>>
StoresOf(kind) == CASE kind = "FTKN" -> FtknStores
                    [] kind = "FIDL" -> FidlStores
                    [] OTHER -> <<>>

Apply(b, store) == flag' = [flag EXCEPT ![b][store.name] = store.value]

\* The next floor message: its first store happens here, the others follow
\* one at a time, for the recv task runs in between.
ProcessFloor(b) ==
  /\ pc[b] = "drain"
  /\ stores[b] = <<>>
  /\ batch[b] # <<>>
  /\ batch' = [batch EXCEPT ![b] = Tail(@)]
  /\ LET todo == StoresOf(Head(batch[b]).kind)
     IN  \/ /\ todo # <<>>
            /\ Apply(b, Head(todo))
            /\ stores' = [stores EXCEPT ![b] = Tail(todo)]
            /\ UNCHANGED obs
         \/ /\ todo = <<>>
            /\ obs' = [obs EXCEPT ![b].floor_revoke = @ \/ Head(batch[b]).kind = "FRVK"]
            /\ UNCHANGED <<flag, stores>>
  /\ UNCHANGED <<sfu, up, ws, rtp, pc, session, subscribe_ssrcs, rx, requests,
                 announced, granted>>

FinishStores(b) ==
  /\ stores[b] # <<>>
  /\ Apply(b, Head(stores[b]))
  /\ stores' = [stores EXCEPT ![b] = Tail(@)]
  /\ UNCHANGED <<sfu, up, ws, rtp, pc, session, batch, subscribe_ssrcs, rx, obs,
                 requests, announced, granted>>

\* process_events, last part: every ROOM_EVENT leave is a cleaned-up zombie.
ProcessRoomEvents(b) ==
  /\ pc[b] = "drain"
  /\ batch[b] = <<>>
  /\ stores[b] = <<>>
  /\ obs' = [obs EXCEPT ![b].zombies =
               @ \cup {c \in Bots : \E i \in DOMAIN event_buf[b] :
                                     event_buf[b][i] = Message("leave", c)}]
  /\ event_buf' = [event_buf EXCEPT ![b] = Sift(@, Messages(EventKinds \ {"leave"}))]
  /\ pc' = [pc EXCEPT ![b] = "idle"]
  /\ UNCHANGED <<sfu, up, ws, rtp, floor_mbcp_buf, batch, stores, subscribe_ssrcs,
                 flag, rx, requests, announced, granted>>

-----------------------------------------------------------------------------
(***************************************************************************)
(* The subscribe recv task: one flag at a time, in the order of the code.  *)
(***************************************************************************)

RecvUnchanged == UNCHANGED <<sfu, up, ws, pc, session, batch, stores,
                             subscribe_ssrcs, requests, announced, granted>>

At(b, next) == rx[b].next = next
Goto(b, next) == rx' = [rx EXCEPT ![b].next = next]
Done(b) == rx' = [rx EXCEPT ![b] = NoPacket]

RecvRtp(b) ==
  /\ b \in published \cap Present
  /\ rx[b] = NoPacket
  /\ rtp[b] # <<>>
  /\ rtp' = [rtp EXCEPT ![b] = Tail(@)]
  /\ rx' = [rx EXCEPT ![b] = [packet |-> Head(rtp[b]), next |-> "released"]]
  /\ obs' = [obs EXCEPT ![b].non_speaker_rtp = @ \/ flag[b].floor_idle]
  /\ UNCHANGED flag
  /\ RecvUnchanged

RecvReleased(b) ==
  /\ At(b, "released")
  /\ obs' = [obs EXCEPT ![b].silence =
               IF flag[b].floor_just_released /\ rx[b].packet = "silence" THEN @ + 1 ELSE @]
  /\ IF IsVideo(rx[b].packet) THEN Goto(b, "changed") ELSE Done(b)
  /\ UNCHANGED <<rtp, flag>>
  /\ RecvUnchanged

\* The swap; only the first value is ever kept.
RecvChanged(b) ==
  /\ At(b, "changed")
  /\ flag' = [flag EXCEPT ![b].speaker_just_changed = FALSE]
  /\ obs' = [obs EXCEPT ![b].first_video =
               IF flag[b].speaker_just_changed /\ @ = "none" THEN rx[b].packet ELSE @]
  /\ Goto(b, "ack")
  /\ UNCHANGED rtp
  /\ RecvUnchanged

RecvAck(b) ==
  /\ At(b, "ack")
  /\ obs' = [obs EXCEPT ![b].video_before_ack = @ \/ ~flag[b].ack_sent]
  /\ Done(b)
  /\ UNCHANGED <<rtp, flag>>
  /\ RecvUnchanged

RecvStep(b) == RecvRtp(b) \/ RecvReleased(b) \/ RecvChanged(b) \/ RecvAck(b)

-----------------------------------------------------------------------------

Next ==
  \/ SfuFloorRevoke
  \/ \E b \in Bots :
       \/ Publish(b) \/ SfuFloorRequest(b) \/ SfuFloorRelease(b)
       \/ SfuTracksReady(b) \/ SfuRelay(b)
       \/ KillBot(b)
       \/ FloorRequest(b) \/ AwaitTimeout(b) \/ FloorRelease(b)
       \/ \E n \in 0..Len(ws[b]) : AwaitFloorTaken(b, n) \/ ProcessEvents(b, n)
       \/ AwaitTracksReady(b)
       \/ ProcessFloor(b) \/ FinishStores(b) \/ ProcessRoomEvents(b)
       \/ RecvStep(b)

Spec == Init /\ [][Next /\ UNCHANGED limits]_<<vars, limits>>

(***************************************************************************)
(* Fairness.  The SFU answers what it receives and the tasks run (weak).   *)
(* The engine's wait loop visits every publishing bot again and again, so  *)
(* process_events, which another bot's turn disables for a while, runs for *)
(* each of them (strong), and its poll ends up taking everything that has  *)
(* arrived.  Nothing makes a scenario ask for, release or revoke the floor.*)
(***************************************************************************)
Fairness ==
  \A b \in Bots :
    /\ WF_vars(SfuFloorRequest(b)) /\ WF_vars(SfuFloorRelease(b))
    /\ WF_vars(SfuTracksReady(b))
    /\ WF_vars(AwaitTimeout(b)) /\ WF_vars(AwaitTracksReady(b))
    /\ WF_vars(ProcessFloor(b)) /\ WF_vars(FinishStores(b))
    /\ WF_vars(ProcessRoomEvents(b)) /\ WF_vars(RecvStep(b))
    /\ SF_vars(ProcessEvents(b, Len(ws[b])))

FairSpec == Spec /\ Fairness

-----------------------------------------------------------------------------

Listeners == Bots \ Requesters

Flags == {"floor_idle", "speaker_just_changed", "floor_just_released", "ack_sent"}

Observations == [non_speaker_rtp : BOOLEAN, silence : Nat,
                 first_video : {"none", "keyframe", "delta"},
                 video_before_ack : BOOLEAN, floor_revoke : BOOLEAN, zombies : SUBSET Bots]

SfuOK ==
  /\ holder \in Bots \cup {NoBot}
  /\ published \subseteq Bots /\ left \subseteq Bots
  /\ gate \subseteq Bots /\ synced \subseteq Bots /\ refused \subseteq Bots
  /\ announced \in Seq(BOOLEAN)
WiresOK ==
  /\ up \in [Bots -> Seq({"FREQ", "FREL", "READY"})]
  /\ ws \in [Bots -> Seq(Messages(FloorKinds \cup EventKinds))]
  /\ rtp \in [Bots -> Seq(Packets)]
SessionOK ==
  /\ floor_mbcp_buf \in [Bots -> Seq(Messages(FloorKinds))]
  /\ batch \in [Bots -> Seq(Messages(FloorKinds))]
  /\ event_buf \in [Bots -> Seq(Messages(TrackKinds \cup {"leave"}))]
  /\ pc \in [Bots -> {"idle", "await", "ready", "drain"}]
  /\ subscribe_ssrcs \in [Bots -> SUBSET Bots]
  /\ requests \in 0 .. limits.requests
RecvOK ==
  /\ flag \in [Bots -> [Flags -> BOOLEAN]]
  /\ rx \in [Bots -> [packet : Packets \cup {"none"},
                      next : {"none", "released", "changed", "ack"}]]
  /\ obs \in [Bots -> Observations]

TypeOK == SfuOK /\ WiresOK /\ SessionOK /\ RecvOK

\* The announcements a bot has not processed yet, and how many it has.
Announcements == Messages({"FTKN", "FIDL"})
Pending(b) == Sift(batch[b] \o floor_mbcp_buf[b] \o ws[b], Announcements)
Seen(b) == Len(announced) - Len(Pending(b))

IdleAsOf(k) == IF k = 0 THEN TRUE ELSE announced[k]
ReleasedAsOf(k) == k > 0 /\ announced[k]

\* The last announcement processed is a release, or a grant whose flags are
\* still being stored, after a release.
JustReleased(b) ==
  ReleasedAsOf(Seen(b)) \/ (stores[b] # <<>> /\ ReleasedAsOf(Seen(b) - 1))

(***************************************************************************)
(* A bot that only listens sees the floor late but never wrong: its idle   *)
(* flag is what the SFU had announced at some point of the past, and no    *)
(* announcement is skipped or applied out of order, whatever interleaving  *)
(* of polls, TRACKS_READY waits and floor messages (process_events).       *)
(***************************************************************************)
ListenerViewIsPast ==
  \A b \in Listeners : b \in Present => flag[b].floor_idle = IdleAsOf(Seen(b))

(***************************************************************************)
(* The released flag is up only between a release and the last store of    *)
(* the next FTKN, whenever the recv task reads it, and between two         *)
(* messages it is up exactly when the last of them was a release.          *)
(***************************************************************************)
ListenerFlagsAgree ==
  \A b \in Listeners \cap Present :
    /\ flag[b].floor_just_released => JustReleased(b)
    /\ stores[b] = <<>> => flag[b].floor_just_released = ReleasedAsOf(Seen(b))

(***************************************************************************)
(* TRACKS_UPDATEs may wait in two buffers and be applied in batches, across *)
(* TRACKS_READY waits: with none pending, a bot is subscribed to exactly   *)
(* the tracks of the other bots that are there (process_events).           *)
(***************************************************************************)
SubscriptionsConverge ==
  \A b \in Present :
    Sift(event_buf[b] \o ws[b], Tracks) = <<>>
      => subscribe_ssrcs[b] = (published \cap Present) \ {b}

(***************************************************************************)
(* Every record of the recv task is of the turn it has processed, in every *)
(* turn: a silence frame is counted only behind a release (L1-05), RTP is  *)
(* counted as a non-speaker's only while the floor was idle (L1-04), the   *)
(* first video is judged after an FTKN, and no video packet passes without *)
(* it once an FTKN has been processed to its end (L1-06).                  *)
(***************************************************************************)
TurnSeen(b) ==
  \E k \in 1 .. Seen(b) : ~announced[k] /\ (k < Seen(b) \/ stores[b] = <<>>)

RecordedInTurn(b) ==
  /\ obs'[b].silence # obs[b].silence => JustReleased(b)
  /\ obs'[b].non_speaker_rtp # obs[b].non_speaker_rtp => IdleAsOf(Seen(b))
  /\ obs'[b].first_video # obs[b].first_video => \E k \in 1 .. Seen(b) : ~announced[k]
  /\ At(b, "changed") /\ rx'[b].next = "ack" /\ TurnSeen(b) => obs'[b].first_video # "none"

ObservedInTurn == [][\A b \in Listeners \cap Present : RecordedInTurn(b)]_vars

(***************************************************************************)
(* A bot counts itself ready for video only behind an answer of the SFU to *)
(* a TRACKS_READY of its own, whatever other frames it takes while it      *)
(* waits: its gate is open, or the SFU has refused it (process_events does *)
(* not look at the answer).                                                *)
(***************************************************************************)
ReadyAfterAnswer == \A b \in Bots : flag[b].ack_sent => b \in gate \cup refused

\* Once the floor stays as it is, every listener that stays comes to see it.
ListenersCatchUp ==
  \A b \in Listeners :
    /\ <>[](holder = NoBot /\ b \in published \cap Present) => <>[](flag[b].floor_idle)
    /\ <>[](holder # NoBot /\ b \in published \cap Present) => <>[](~flag[b].floor_idle)

\* Every kill is reported as a cleaned-up zombie by every bot that stays.
KillsAreReported ==
  \A b, c \in Bots :
    (c \in left /\ b \in Present) ~> (c \in obs[b].zombies \/ b \notin published \cap Present)

-----------------------------------------------------------------------------
(***************************************************************************)
(* What the comments in the code say, and the code does not ensure.        *)
(***************************************************************************)

Quiet(b) == ws[b] = <<>> /\ floor_mbcp_buf[b] = <<>> /\ pc[b] = "idle"

\* "true = nobody talking": a bot with nothing left to process knows it.
FloorIdleMeansNobodyTalks ==
  \A b \in published \cap Present :
    Quiet(b) => (flag[b].floor_idle <=> holder = NoBot)

\* await_floor_taken confirms that the floor was acquired by this bot.
GrantIsOwn == \A b \in Bots : granted[b] \subseteq {b}

=============================================================================
