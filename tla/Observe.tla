------------------------------- MODULE Observe -------------------------------
(***************************************************************************)
(* What a bot observes of the media path and what Layer 1 makes of it: the *)
(* subscribe recv task of crates/oxlab-bot/src/bot.rs with the receive     *)
(* metrics, the RTCP of rtcp_parser.rs, subscribe_layer, and the verdicts  *)
(* of Checkpoints over the records.  The floor flags that the same task    *)
(* reads are in PttFloor.                                                  *)
(*                                                                         *)
(* The SFU and the network are external.  The SFU relays one packet and    *)
(* one sender report (SR) a tick of a stream at most, stamped with the     *)
(* capture time, and may do what the checkpoints are there to find: those  *)
(* deeds go into faults when they reach the bot.  A packet or an SR is     *)
(* under way for at most Delay ticks, and the network may lose it, deliver *)
(* it twice or let another one of its stream overtake it.                  *)
(***************************************************************************)
EXTENDS RecvMetrics, Checkpoints

CONSTANTS
  Audio, Video, RawVideo,   (* streams: RawVideo is an SSRC not rewritten   *)
  Modes,        (* the room's modes to consider                             *)
  IdleGap,      (* ticks after which a stream was idle: 1000ms              *)
  Delay,        (* ticks a packet is under way, at most                     *)
  TsStart,      (* the streams' timestamp at time 0                         *)
  Limits        (* bounds, a set to choose from: packets relayed of each   *)
                (* stream, time, mishaps, RTCP packets, layer requests and *)
                (* the times a clock of the SFU's own may show             *)

ASSUME ObserveAssumption ==
  /\ Ssrcs = {Audio, Video, RawVideo}
  /\ Audio # Video /\ Audio # RawVideo /\ Video # RawVideo
  /\ \A n \in {IdleGap, Delay, TsStart} : n \in Nat
  /\ Limits \subseteq [sent : [Ssrcs -> Nat], time : Nat, mishaps : Nat, rtcp : Nat,
                        requests : Nat, clock : SUBSET Nat]

VARIABLES
  limits,       (* the bounds of this behaviour                            *)
  now,
  mode,
  sent,         (* SFU: packets relayed, per stream                        *)
  stamp,        (* SFU: the last capture time stamped, per stream          *)
  flight,       (* packets under way                                       *)
  reports,      (* SRs under way                                           *)
  reported,     (* SFU: when it relayed the last SR, per stream            *)
  ssrc_last,    (* per SSRC: arrival and timestamp of its last packet      *)
  obs,          (* the bot's observations                                  *)
  pending,      (* pending_layer_switch: the layer, or "none" when done    *)
  before,       (* history: the stream's last timestamp before each switch *)
  arrived,      (* history: the SRs behind obs.sr_received                 *)
  faults,       (* history: what the SFU did wrong, as far as it arrived   *)
  mishaps,      (* history: how often the network did what                 *)
  rtcp, requests                                        (* bounded counters *)

srVars == <<reports, reported>>
sfuVars == <<limits, now, mode, sent, stamp, flight, srVars>>
loopVars == <<ssrc_last, obs, pending, before, arrived>>
vars == <<sfuVars, loopVars, metricsVars, faults, mishaps, rtcp, requests>>

SrKinds == {"sr_loss", "sr_duplicate", "sr_reorder"}
Kinds == {"loss", "duplicate", "reorder"} \cup SrKinds

IsAudio(s) == s = Audio

sample_rate(s) == IF IsAudio(s) THEN 1 ELSE 2
TsAt(s, t) == (TsStart + t * (IF s = Audio THEN 1 ELSE 2)) % TsMod
NotSeen == [time |-> 0, ts |-> -1]

Init ==
  /\ MetricsInit
  /\ limits \in Limits
  /\ now = 0 /\ mode \in Modes
  /\ sent = [s \in Ssrcs |-> 0] /\ stamp = [s \in Ssrcs |-> -1] /\ flight = {}
  /\ reports = {} /\ reported = [s \in Ssrcs |-> -1]
  /\ ssrc_last = [s \in Ssrcs |-> NotSeen]
  /\ obs = NoObservations /\ pending = "none" /\ before = <<>> /\ arrived = <<>>
  /\ faults = {} /\ mishaps = [kind \in Kinds |-> 0] /\ rtcp = 0 /\ requests = 0

-----------------------------------------------------------------------------
(***************************************************************************)
(* The SFU and the network.                                                *)
(***************************************************************************)

\* The timestamp reflects the capture time, or goes on as if the stream had
\* not been idle.
Relay(s, key, frozen) ==
  /\ sent[s] < limits.sent[s]
  /\ stamp[s] < now
  /\ key => s = Video /\ limits.requests > 0
  /\ frozen => stamp[s] >= 0
  /\ LET t == IF frozen THEN stamp[s] + 1 ELSE now IN
     /\ stamp' = [stamp EXCEPT ![s] = t]
     /\ flight' = flight \cup {[ssrc |-> s, ix |-> sent[s], ts |-> TsAt(s, t), key |-> key,
                                frozen |-> frozen /\ t # now, at |-> now]}
  /\ sent' = [sent EXCEPT ![s] = @ + 1]
  /\ UNCHANGED <<limits, now, mode, srVars, loopVars, metricsVars, faults, mishaps, rtcp,
                 requests>>

\* The publisher's SR carries the time of its capture twice, as an NTP time
\* and on the RTP clock.  The SFU may write a time of its own over either,
\* also one that keeps increasing.
RelaySr(s, ntp, time) ==
  /\ rtcp < limits.rtcp
  /\ rtcp' = rtcp + 1
  /\ reported[s] < now
  /\ reported' = [reported EXCEPT ![s] = now]
  /\ reports' = reports \cup {[ssrc |-> s, ntp |-> ntp, time |-> time, at |-> now]}
  /\ UNCHANGED <<limits, now, mode, sent, stamp, flight, loopVars, metricsVars, faults, mishaps,
                 requests>>

\* What befalls one packet or SR.
Total(m) == m["loss"] + m["duplicate"] + m["reorder"]
              + m["sr_loss"] + m["sr_duplicate"] + m["sr_reorder"]

Mishaps(kinds) ==
  /\ mishaps' = [kind \in Kinds |-> IF kind \in kinds THEN mishaps[kind] + 1 ELSE mishaps[kind]]
  /\ Total(mishaps') <= limits.mishaps

Lose(p) ==
  /\ Mishaps({"loss"})
  /\ flight' = flight \ {p}
  /\ UNCHANGED <<limits, now, mode, sent, stamp, srVars, loopVars, metricsVars, faults, rtcp,
                 requests>>

LoseSr(r) ==
  /\ Mishaps({"sr_loss"})
  /\ reports' = reports \ {r}
  /\ UNCHANGED <<limits, now, mode, sent, stamp, flight, reported, loopVars, metricsVars, faults,
                 rtcp, requests>>

Overtakes(p) == \E q \in flight : q.ssrc = p.ssrc /\ q.ix < p.ix
OvertakesSr(r) == \E q \in reports : q.ssrc = r.ssrc /\ q.at < r.at

Advance ==
  /\ now < limits.time
  /\ \A p \in flight \cup reports : now < p.at + Delay
  /\ now' = now + 1
  /\ UNCHANGED <<limits, mode, sent, stamp, flight, srVars, loopVars, metricsVars, faults,
                 mishaps, rtcp, requests>>

-----------------------------------------------------------------------------
(***************************************************************************)
(* The recv loop.                                                          *)
(***************************************************************************)

RecordSsrc(o, p) ==
  IF IsAudio(p.ssrc) THEN [o EXCEPT !.ptt_audio_ssrcs = @ \cup {p.ssrc}]
                     ELSE [o EXCEPT !.ptt_video_ssrcs = @ \cup {p.ssrc}]

LastOf(s) == ssrc_last[s]

\* L1-08: the stream comes back after it was idle.
RecordTsGap(o, p) ==
  LET last == LastOf(p.ssrc)
      gap == [ssrc |-> p.ssrc, wall_gap |-> now - last.time,
              rtp_gap |-> (p.ts - last.ts) % TsMod, sample_rate |-> sample_rate(p.ssrc)]
  IN  IF mode = "ptt" /\ last # NotSeen /\ gap.wall_gap > IdleGap
      THEN [o EXCEPT !.ptt_ts_gap_records = @ \cup {gap}]
      ELSE o

KeepsPending(p) == pending                               \* mutant

PendingAfter(p) == IF IsAudio(p.ssrc) THEN pending ELSE "none"

\* L1-18..20: the first video packet completes the pending switch.  ts_before
\* is the first value the map yields, whichever that is.
RecordSwitch(o, p) ==
  IF IsAudio(p.ssrc) \/ pending = "none" THEN obs' = o /\ UNCHANGED before
  ELSE /\ \E s \in Ssrcs :
            /\ ssrc_last'[s] # NotSeen
            /\ obs' = [o EXCEPT !.simulcast_layer_switches =
                         Append(@, [requested_layer |-> pending, keyframe_after |-> p.key,
                                    ts_before |-> ssrc_last'[s].ts, ts_after |-> p.ts,
                                    packets_after |-> TRUE])]
       /\ before' = Append(before, ssrc_last[p.ssrc].ts)

\* An RTP packet, in the order of the code: metrics, L1-07, L1-08, L1-18..20.
RecvRtp(p, again) ==
  /\ Update(p.ssrc, p.ix)
  /\ ssrc_last' = [ssrc_last EXCEPT ![p.ssrc] = [time |-> now, ts |-> p.ts]]
  /\ RecordSwitch(RecordTsGap(RecordSsrc(obs, p), p), p)
  /\ pending' = PendingAfter(p)
  /\ flight' = IF again THEN flight ELSE flight \ {p}
  /\ Mishaps((IF again THEN {"duplicate"} ELSE {})
               \cup (IF Overtakes(p) THEN {"reorder"} ELSE {}))
  /\ faults' = faults \cup (IF p.ssrc = RawVideo THEN {"raw_ssrc"} ELSE {})
                      \cup (IF p.frozen THEN {"ts_frozen"} ELSE {})
  /\ UNCHANGED <<limits, now, mode, sent, stamp, srVars, arrived, rtcp, requests>>

LastTwo(o, sr) ==                                        \* mutant
  [o EXCEPT !.sr_received =
     IF Len(@) < 2 THEN Append(@, sr) ELSE <<@[2], sr>>]

RecordSr(o, sr) == [o EXCEPT !.sr_received = Append(@, sr)]

\* A sender report (parse_rtcp_for_sr); one of several in a compound is one
\* of several in a row.
RecvSr(r, again) ==
  /\ obs' = RecordSr(obs, [ssrc |-> r.ssrc, ntp |-> r.ntp, rtp_ts |-> TsAt(r.ssrc, r.time)])
  /\ arrived' = Append(arrived, r)
  /\ reports' = IF again THEN reports ELSE reports \ {r}
  /\ Mishaps((IF again THEN {"sr_duplicate"} ELSE {})
               \cup (IF OvertakesSr(r) THEN {"sr_reorder"} ELSE {}))
  /\ faults' = IF r.ntp = r.at /\ r.time = r.at THEN faults ELSE faults \cup {"sr_rewritten"}
  /\ UNCHANGED <<limits, now, mode, sent, stamp, flight, reported, ssrc_last, pending, before,
                 metricsVars, rtcp, requests>>

\* One packet of an RTCP compound (parse_rtcp_compound); a PLI for another
\* SSRC is ignored.  The records of RRs and PLIs keep no order, so that any
\* arrival stands for whatever the network did to it.
RecordBlock(o, block) ==
  CASE block \in {"rr_sfu", "rr_peer"} ->
         [o EXCEPT !.rr_sender_ssrcs = @ \cup {block}, !.rr_received_count = @ + 1]
    [] block = "pli_mine" -> [o EXCEPT !.pli_received_count = @ + 1]
    [] OTHER -> o

RecvCompound(first, second) ==
  /\ rtcp < limits.rtcp
  /\ rtcp' = rtcp + 1
  /\ obs' = RecordBlock(RecordBlock(obs, first), second)
  /\ faults' = IF "rr_peer" \in {first, second} THEN faults \cup {"rr_relayed"} ELSE faults
  /\ UNCHANGED <<sfuVars, ssrc_last, pending, before, arrived, metricsVars, mishaps, requests>>

-----------------------------------------------------------------------------

\* The caller asks for a layer; a switch that is not observed yet is forgotten.
subscribe_layer(layer) ==
  /\ requests < limits.requests
  /\ requests' = requests + 1
  /\ pending' = layer
  /\ UNCHANGED <<sfuVars, ssrc_last, obs, before, arrived, metricsVars, faults, mishaps, rtcp>>

Next ==
  \/ \E s \in Ssrcs, key, frozen \in BOOLEAN : Relay(s, key, frozen)
  \/ \E p \in flight : Lose(p) \/ RecvRtp(p, FALSE) \/ RecvRtp(p, TRUE)
  \/ \E s \in {Audio, Video}, ntp, time \in {now} \cup limits.clock : RelaySr(s, ntp, time)
  \/ \E r \in reports : LoseSr(r) \/ RecvSr(r, FALSE) \/ RecvSr(r, TRUE)
  \/ \E first \in {"rr_sfu", "rr_peer", "pli_mine"}, second \in {"pli_mine", "pli_other"} :
       RecvCompound(first, second)
  \/ \E layer \in {"h", "pause"} : subscribe_layer(layer)
  \/ Advance

Spec == Init /\ [][Next]_vars

-----------------------------------------------------------------------------

Bot == "bot"
verdicts ==
  Verdicts([b \in {Bot} |-> [s \in Known |-> metrics[s]]], [b \in {Bot} |-> obs],
           mode, "pristine")

TypeOK ==
  /\ MetricsTypeOK
  /\ now \in 0 .. limits.time /\ mode \in Modes
  /\ \A s \in Ssrcs : sent[s] \in 0 .. limits.sent[s] /\ stamp[s] \in -1 .. limits.time
  /\ \A p \in flight : p.ix < sent[p.ssrc] /\ p.at \in now - Delay .. now
  /\ \A s \in Ssrcs : reported[s] \in -1 .. now
  /\ \A r \in reports : r.at <= reported[r.ssrc] /\ r.at \in now - Delay .. now
  /\ \A s \in Ssrcs : ssrc_last[s] = NotSeen <=> s \notin Known
  /\ DOMAIN obs = DOMAIN NoObservations
  /\ pending \in {"none", "h", "pause"}
  /\ Len(before) = Len(obs.simulcast_layer_switches) /\ Len(arrived) = Len(obs.sr_received)
  /\ faults \subseteq {"raw_ssrc", "ts_frozen", "sr_rewritten", "rr_relayed"}
  /\ mishaps \in [Kinds -> 0 .. limits.mishaps] /\ rtcp <= limits.rtcp /\ requests <= limits.requests

(***************************************************************************)
(* No alarm without a cause: L1-01, L1-07 and L1-08 fail only for the deed *)
(* of the SFU that they are there to find, whatever the network does       *)
(* within Delay; L1-02 and L1-03 only if an SR that was rewritten arrived, *)
(* or the network repeated an SR or let one overtake another; and the      *)
(* fan-out check L1-13 only if the network lost or reordered a packet      *)
(* (eval_l1_01, _02, _03, _07, _08 and _13 over the recv loop's records).  *)
(* For the comment of eval_l1_02, a FAIL is always the server's tampering. *)
(***************************************************************************)
Cause(id) ==
  CASE id = "L1_01" -> "rr_relayed" \in faults
    [] id \in {"L1_02", "L1_03"} ->
         "sr_rewritten" \in faults \/ mishaps["sr_duplicate"] + mishaps["sr_reorder"] > 0
    [] id = "L1_07" -> "raw_ssrc" \in faults
    [] id = "L1_08" -> "ts_frozen" \in faults
    [] id = "L1_13" -> mishaps["loss"] + mishaps["reorder"] > 0

FailHasCause ==
  LET found == verdicts IN
  \A id \in {"L1_01", "L1_02", "L1_03", "L1_07", "L1_08", "L1_13"} :
    found[id] = "FAIL" => Cause(id)

(***************************************************************************)
(* L1-02 and L1-03 fail exactly when an SR arrived that shows no later     *)
(* time, by NTP or on the RTP clock, than one of its stream that arrived   *)
(* before, although only neighbours are compared, the SRs of two streams   *)
(* interleave and the RTP clock wraps (eval_l1_02, eval_l1_03): a time     *)
(* written back is found, and a clock of the SFU's own that keeps          *)
(* increasing is not, although the registry asks for the publisher's time. *)
(* A relayed RR is found once the SFU's own is there to compare, and a     *)
(* second video SSRC in a PTT room.                                        *)
(***************************************************************************)
Earlier(i, j) == i < j /\ arrived[i].ssrc = arrived[j].ssrc
NtpGoesBack == \E i, j \in DOMAIN arrived : Earlier(i, j) /\ arrived[j].ntp <= arrived[i].ntp
TimeGoesBack == \E i, j \in DOMAIN arrived : Earlier(i, j) /\ arrived[j].time <= arrived[i].time

FaultsAreSeen ==
  /\ verdicts.L1_02 = "FAIL" <=> NtpGoesBack
  /\ verdicts.L1_03 = "FAIL" <=> TimeGoesBack
  /\ obs.rr_sender_ssrcs = {"rr_sfu", "rr_peer"} => verdicts.L1_01 = "FAIL"
  /\ mode = "ptt" /\ {Video, RawVideo} \subseteq Known => verdicts.L1_07 = "FAIL"

(***************************************************************************)
(* A failure is not forgotten: once the records make a checkpoint fail, no *)
(* later packet makes it pass (the engine evaluates once, at the end).     *)
(* L1-05 counts up to three, L1-12 and L1-21 wait for something to arrive. *)
(***************************************************************************)
FailuresStick ==
  [][LET found == verdicts
         later == verdicts'
     IN  \A id \in DOMAIN found \ {"L1_05", "L1_12", "L1_21"} :
           found[id] = "FAIL" => later[id] = "FAIL"]_vars

(***************************************************************************)
(* A layer switch is observed at most once, and never without a request    *)
(* (pending_layer_switch is overwritten by a request and read by the recv  *)
(* task, bot.rs).                                                          *)
(***************************************************************************)
SwitchesObservedOnce ==
  Len(obs.simulcast_layer_switches) + (IF pending = "none" THEN 0 ELSE 1) <= requests

-----------------------------------------------------------------------------
(***************************************************************************)
(* What the comments say and the code does not keep to.                    *)
(***************************************************************************)

(***************************************************************************)
(* ts_before is the last RTP timestamp before the switch, as               *)
(* LayerSwitchEvent says (observations.rs).                                *)
(***************************************************************************)
TsBeforeIsLast ==
  \A i \in DOMAIN before :
    before[i] # -1 => obs.simulcast_layer_switches[i].ts_before = before[i]

=============================================================================
