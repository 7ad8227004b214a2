----------------------------- MODULE Checkpoints -----------------------------
(***************************************************************************)
(* The Layer 1 verdicts: crates/oxlab-scenario/src/checkpoint_eval.rs over *)
(* the records of crates/oxlab-bot/src/observations.rs, and the registry   *)
(* of crates/oxlab-judge/src/checkpoint_registry.rs.                       *)
(*                                                                         *)
(* obs maps every bot to its observations, snaps maps the bots that were   *)
(* publishing to their receive metrics (one record per SSRC).  A verdict   *)
(* is PASS, FAIL or SKIP, the last for what the code leaves out of its     *)
(* results.                                                                *)
(***************************************************************************)
EXTENDS Integers, Sequences, FiniteSets

CONSTANTS
  TsMod       (* RTP timestamps wrap here: 2^32                            *)

ASSUME CheckpointsAssumption == TsMod \in Nat \ {0}

\* The observations a bot starts with.
NoObservations ==
  [rr_sender_ssrcs |-> {}, rr_received_count |-> 0, sr_received |-> <<>>,
   ptt_non_speaker_rtp_count |-> 0, ptt_silence_frames_after_release |-> 0,
   ptt_first_video_was_keyframe |-> "none",
   ptt_audio_ssrcs |-> {}, ptt_video_ssrcs |-> {},
   pli_received_count |-> 0, video_before_ack_count |-> 0, tracks_ack_sent |-> FALSE,
   floor_granted |-> 0, floor_revoke_received |-> FALSE, queue_positions |-> {},
   zombie_cleanup_detected |-> {}, ptt_ts_gap_records |-> {},
   simulcast_layer_switches |-> <<>>,
   screen_share_ssrc_published |-> {}, screen_share_ssrcs_received |-> {}]

Registry ==
  [RtcpTerminator |-> {"L1_01"},
   SrTranslation  |-> {"L1_02", "L1_03"},
   PttRelay       |-> {"L1_04", "L1_05", "L1_06", "L1_07", "L1_08"},
   PliGovernor    |-> {"L1_09", "L1_10"},
   SubscriberGate |-> {"L1_11", "L1_12"},
   CoreRelay      |-> {"L1_13"},
   FloorControl   |-> {"L1_14", "L1_15", "L1_16"},
   Lifecycle      |-> {"L1_17"},
   Simulcast      |-> {"L1_18", "L1_19", "L1_20"},
   ScreenShare    |-> {"L1_21"}]

\* No category, or none of a known name, stands for all of them.
Applicable(categories) ==
  LET known == categories \cap DOMAIN Registry
      chosen == IF known = {} THEN DOMAIN Registry ELSE known
  IN  UNION {Registry[c] : c \in chosen}

Judged(applies, fails) ==
  IF ~applies THEN "SKIP" ELSE IF fails THEN "FAIL" ELSE "PASS"

-----------------------------------------------------------------------------

Eval01(obs) ==
  LET heard == {b \in DOMAIN obs : obs[b].rr_received_count > 0} IN
  Judged(heard # {}, \E b \in heard : Cardinality(obs[b].rr_sender_ssrcs) > 1)

Adjacent(srs) ==                                         \* mutant
  {ij \in (DOMAIN srs) \X (DOMAIN srs) :
     ij[2] = ij[1] + 1 /\ srs[ij[1]].ssrc = srs[ij[2]].ssrc}

\* Two SRs of one SSRC with none of that SSRC between them.
Successive(srs) ==
  {ij \in (DOMAIN srs) \X (DOMAIN srs) :
     /\ ij[1] < ij[2]
     /\ srs[ij[1]].ssrc = srs[ij[2]].ssrc
     /\ \A k \in ij[1] + 1 .. ij[2] - 1 : srs[k].ssrc # srs[ij[1]].ssrc}

AnySr(obs) == \E b \in DOMAIN obs : obs[b].sr_received # <<>>

Eval02(obs) ==
  Judged(AnySr(obs),
         \E b \in DOMAIN obs : LET srs == obs[b].sr_received IN
           \E ij \in Successive(srs) : srs[ij[2]].ntp <= srs[ij[1]].ntp)

WrapIsBackward(a, b) == b <= a                           \* mutant

\* The difference of two timestamps, as an i32, is not positive.
NotForward(a, b) == LET d == (b - a) % TsMod IN d = 0 \/ 2 * d >= TsMod

Eval03(obs) ==
  Judged(AnySr(obs),
         \E b \in DOMAIN obs : LET srs == obs[b].sr_received IN
           \E ij \in Successive(srs) : NotForward(srs[ij[1]].rtp_ts, srs[ij[2]].rtp_ts))

Eval04(obs, mode) ==
  Judged(mode = "ptt", \E b \in DOMAIN obs : obs[b].ptt_non_speaker_rtp_count > 0)

Eval05(obs, mode) ==
  LET flushed == {b \in DOMAIN obs : obs[b].ptt_silence_frames_after_release > 0} IN
  Judged(mode = "ptt" /\ flushed # {},
         \E b \in flushed : obs[b].ptt_silence_frames_after_release # 3)

Eval06(obs, mode) ==
  Judged(mode = "ptt" /\ \E b \in DOMAIN obs : obs[b].ptt_first_video_was_keyframe # "none",
         \E b \in DOMAIN obs : obs[b].ptt_first_video_was_keyframe = "no")

Eval07(obs, mode) ==
  Judged(mode = "ptt" /\ \E b \in DOMAIN obs :
                            obs[b].ptt_audio_ssrcs # {} \/ obs[b].ptt_video_ssrcs # {},
         \E b \in DOMAIN obs : \/ Cardinality(obs[b].ptt_audio_ssrcs) > 1
                               \/ Cardinality(obs[b].ptt_video_ssrcs) > 1)

\* rec.rtp_gap / expected outside of 0.8 .. 1.2
GapViolated(rec) ==
  LET expected == rec.wall_gap * rec.sample_rate IN
  /\ expected # 0
  /\ 5 * rec.rtp_gap < 4 * expected \/ 5 * rec.rtp_gap > 6 * expected

Eval08(obs, mode) ==
  LET records == UNION {obs[b].ptt_ts_gap_records : b \in DOMAIN obs} IN
  Judged(mode = "ptt" /\ records # {}, \E rec \in records : GapViolated(rec))

AnyPli(obs) == \E b \in DOMAIN obs : obs[b].pli_received_count > 0
AnyAck(obs) == \E b \in DOMAIN obs : obs[b].tracks_ack_sent

Eval09(obs) == Judged(AnyPli(obs), FALSE)
Eval10(obs) == Judged(AnyPli(obs), FALSE)
Eval11(obs) == Judged(AnyAck(obs), \E b \in DOMAIN obs : obs[b].video_before_ack_count > 0)
Eval12(obs) == Judged(AnyAck(obs), ~AnyPli(obs))

Streams(snaps) == UNION {DOMAIN snaps[b] : b \in DOMAIN snaps}

Eval13(snaps, profile) ==
  LET receivers(s) == {b \in DOMAIN snaps : s \in DOMAIN snaps[b]} IN
  Judged(profile = "pristine",
         \/ DOMAIN snaps = {}
         \/ \E b \in DOMAIN snaps : \E s \in DOMAIN snaps[b] : snaps[b][s].lost > 0
         \/ \E s \in Streams(snaps) : \E a, b \in receivers(s) :
              snaps[a][s].received - snaps[b][s].received > 2)

Eval14(obs, mode) ==
  Judged(mode = "ptt" /\ \E b \in DOMAIN obs : obs[b].floor_granted > 0, FALSE)

Eval15(obs, mode) ==
  Judged(mode = "ptt" /\ \E b \in DOMAIN obs : obs[b].floor_revoke_received, FALSE)

Eval16(obs, mode) ==
  LET positions == UNION {obs[b].queue_positions : b \in DOMAIN obs} IN
  Judged(mode = "ptt" /\ positions # {}, 0 \in positions)

Eval17(obs) ==
  Judged(\E b \in DOMAIN obs : obs[b].zombie_cleanup_detected # {}, FALSE)

\* The layer switches other than a pause.
Switches(obs) ==
  {sw \in UNION {{obs[b].simulcast_layer_switches[i] :
                    i \in DOMAIN obs[b].simulcast_layer_switches} : b \in DOMAIN obs} :
     sw.requested_layer # "pause"}

Eval18(obs) ==
  Judged(Switches(obs) # {}, \E sw \in Switches(obs) : ~sw.packets_after)

Eval19(obs) ==
  Judged(Switches(obs) # {}, \E sw \in Switches(obs) : NotForward(sw.ts_before, sw.ts_after))

Eval20(obs) ==
  Judged(Switches(obs) # {}, \E sw \in Switches(obs) : ~sw.keyframe_after)

Eval21(obs) ==
  LET published == UNION {obs[b].screen_share_ssrc_published : b \in DOMAIN obs}
      received == UNION {obs[b].screen_share_ssrcs_received : b \in DOMAIN obs}
  IN  Judged(published # {}, ~(published \subseteq received))

-----------------------------------------------------------------------------

Verdicts(snaps, obs, mode, profile) ==
  [L1_01 |-> Eval01(obs), L1_02 |-> Eval02(obs), L1_03 |-> Eval03(obs),
   L1_04 |-> Eval04(obs, mode), L1_05 |-> Eval05(obs, mode), L1_06 |-> Eval06(obs, mode),
   L1_07 |-> Eval07(obs, mode), L1_08 |-> Eval08(obs, mode), L1_09 |-> Eval09(obs),
   L1_10 |-> Eval10(obs), L1_11 |-> Eval11(obs), L1_12 |-> Eval12(obs),
   L1_13 |-> Eval13(snaps, profile), L1_14 |-> Eval14(obs, mode),
   L1_15 |-> Eval15(obs, mode), L1_16 |-> Eval16(obs, mode), L1_17 |-> Eval17(obs),
   L1_18 |-> Eval18(obs), L1_19 |-> Eval19(obs), L1_20 |-> Eval20(obs),
   L1_21 |-> Eval21(obs)]

\* evaluate(): the results of the applicable checkpoints.
Evaluate(snaps, obs, categories, mode, profile) ==
  LET all == Verdicts(snaps, obs, mode, profile) IN
  [id \in {c \in Applicable(categories) : all[c] # "SKIP"} |-> all[id]]

=============================================================================
