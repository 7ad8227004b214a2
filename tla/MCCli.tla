-------------------------------- MODULE MCCli --------------------------------
EXTENDS Cli

Act(at, type) ==
  [at |-> at, type |-> type, actor |-> "none", actors |-> <<>>, profile |-> "none", count |-> 1]
Of(act, actor) == [act EXCEPT !.actor = actor]

JoinAndStart == <<Act(0, "all_join"), Act(1, "start_media")>>

File(actions, mode, profile, judgement) ==
  [participants |-> <<"b1", "b2">>, profile |-> [b \in {"b1", "b2"} |-> profile],
   mode |-> mode, categories |-> {"PttRelay", "CoreRelay"}, judgement |-> judgement,
   actions |-> actions]

ScenarioFiles ==
  {\* A plain one, a kill out of order, calls to everyone and to nobody.
   File(JoinAndStart, "conference", "field_lte", "loose"),
   File(<<Of(Act(5, "kill_bot"), "b2")>> \o JoinAndStart \o
          <<Of(Act(6, "ptt_request"), "b2"), Act(7, "wait")>>, "ptt", "unknown", "default"),
   File(JoinAndStart \o
          <<[Act(2, "ptt_alternate") EXCEPT !.actors = <<"b1", "nobody">>, !.count = 2],
            [Of(Act(3, "network_transition"), "b1") EXCEPT !.profile = "field_lte"],
            Of(Act(4, "kill_bot"), "nobody")>>, "ptt", "pristine", "strict"),
   \* Joins twice; starts before it joins; fields that are missing.
   File(JoinAndStart \o <<Act(2, "all_join"), Act(3, "start_media")>>,
        "conference", "field_lte", "missing"),
   File(<<Act(0, "start_media"), Act(1, "all_join"), Act(2, "ptt_alternate"),
          Of(Act(3, "ptt_release"), "nobody"), Act(4, "network_transition"),
          [Act(5, "ptt_alternate") EXCEPT !.actors = <<"b1">>, !.count = 0]>>,
        "ptt", "field_lte", "none")}

Loose == [loose |-> [loss |-> 30, jitter |-> 10, ooo |-> 20]]

Stream(received, lost, ooo, jitter) ==
  [video |-> [received |-> received, lost |-> lost, out_of_order |-> ooo, jitter |-> jitter]]
SnapshotSet ==
  {Stream(0, 0, 0, 0), Stream(100, 0, 0, 40), Stream(98, 2, 2, 10), Stream(95, 5, 5, 15)}
ObservationSet == {NoObservations, [NoObservations EXCEPT !.ptt_non_speaker_rtp_count = 1]}
=============================================================================
