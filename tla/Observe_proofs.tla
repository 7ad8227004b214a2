---------------------------- MODULE Observe_proofs ----------------------------
(***************************************************************************)
(* What TLAPS proves of the receive metrics, for any number of packets,    *)
(* any first sequence number and any Reorder and Gap below half the        *)
(* sequence space: the counted losses are at least the packets that are    *)
(* missing and exceed them only by what reordering explains.  The receive  *)
(* loop behind the SFU and the network of Observe is an implementation of  *)
(* RecvMetrics, so that this holds of everything the bot observes.         *)
(*                                                                         *)
(* And what it proves of the observations: each layer switch answers a     *)
(* request of its own, the checkpoints find what they are there to find,   *)
(* raise no false alarm, and do not forget a failure.                      *)
(***************************************************************************)
EXTENDS Observe, FiniteSetTheorems, WellFoundedInduction, TLAPS

StreamType(t) ==
  /\ t \in [first : Nat, last : Nat, top : Nat, got : SUBSET Nat]
  /\ t.first <= t.top /\ t.last <= t.top
  /\ t.last \in t.got /\ \A ix \in t.got : ix <= t.top

CountType(m) ==
  m \in [received : Nat, lost : Nat, out_of_order : Nat, first_seq : Int, last_seq : Int,
         max_seq_seen : Int]

Slack(m) == m.out_of_order * (Reorder + 1)

\* A packet that was overtaken by others is counted as lost when they arrive,
\* and what a reordered one adds is bounded by the step back it makes.
StreamInv(m, t) ==
  /\ StreamType(t) /\ CountType(m)
  /\ m.last_seq = SeqOf(t.last)
  /\ Cardinality(Missing(t)) <= m.lost
  /\ m.lost + (t.top - t.last) <= Cardinality(Missing(t)) + Slack(m)

MetricsInv ==
  /\ DOMAIN metrics = Ssrcs /\ DOMAIN stream = Ssrcs
  /\ metrics = [s \in Ssrcs |-> metrics[s]] /\ stream = [s \in Ssrcs |-> stream[s]]
  /\ \A s \in Ssrcs : IF metrics[s] = NoStream THEN stream[s] = Nothing
                                               ELSE StreamInv(metrics[s], stream[s])

LEMMA Bounds ==
  /\ FirstSeq \in Nat
  /\ Reorder \in Nat /\ Reorder <= 32767
  /\ Gap \in Nat /\ Gap <= 32767
BY RecvMetricsAssumption

(***************************************************************************)
(* The wrapping difference, read as a signed number, is the number of      *)
(* packets skipped, or how far back the packet is (update()).              *)
(***************************************************************************)
LEMMA SignedDifference ==
  ASSUME NEW last \in Nat, NEW ix \in Nat, last - Reorder <= ix, ix <= last + 1 + Gap
  PROVE  Signed(SeqOf(ix) - (SeqOf(last) + 1)) = ix - last - 1
<1> DEFINE d == ix - last - 1
<1>2. d \in Int /\ -32768 <= d /\ d <= 32767
  BY Bounds
<1>3. (SeqOf(ix) - (SeqOf(last) + 1)) % 65536 = d % 65536
  BY Bounds DEF SeqOf
<1>4. IF d % 65536 < 32768 THEN d % 65536 = d ELSE (d % 65536) - 65536 = d
  BY <1>2
<1> QED
  BY <1>2, <1>3, <1>4 DEF Signed

LEMMA MissingElements ==
  ASSUME NEW t
  PROVE  \A ix : ix \in Missing(t) <=>
                  ix \in Int /\ t.first <= ix /\ ix <= t.top /\ ix \notin t.got
BY DEF Missing

LEMMA MissingFinite ==
  ASSUME NEW t, StreamType(t)
  PROVE  IsFiniteSet(Missing(t)) /\ Cardinality(Missing(t)) \in Nat
<1>1. IsFiniteSet(t.first .. t.top)
  BY FS_Interval DEF StreamType
<1>2. Missing(t) \subseteq t.first .. t.top
  BY DEF Missing
<1> QED
  BY <1>1, <1>2, FS_Subset, FS_CardinalityType

(***************************************************************************)
(* What a packet does to the set of those missing: one beyond the top adds *)
(* those it skips, another one fills at most one place.                    *)
(***************************************************************************)
LEMMA MissingBeyond ==
  ASSUME NEW t, StreamType(t), NEW ix \in Nat, ix > t.top
  PROVE  /\ StreamType(Arrived(t, ix))
         /\ Arrived(t, ix).top = ix /\ Arrived(t, ix).last = ix
         /\ Cardinality(Missing(Arrived(t, ix))) = Cardinality(Missing(t)) + (ix - t.top - 1)
<1> DEFINE a == Arrived(t, ix)
           skipped == t.top + 1 .. ix - 1
<1>1. a = [first |-> t.first, last |-> ix, top |-> ix, got |-> t.got \cup {ix}]
  BY DEF Arrived, StreamType
<1>2. StreamType(a) /\ a.top = ix /\ a.last = ix
  BY <1>1 DEF StreamType
<1>3. Missing(a) = Missing(t) \cup skipped
  BY <1>1 DEF Missing, StreamType
<1>4. Missing(t) \cap skipped = {}
  BY DEF Missing, StreamType
<1>5. IsFiniteSet(skipped) /\ Cardinality(skipped) = ix - t.top - 1
  <2>1. t.top + 1 \in Int /\ ix - 1 \in Int /\ t.top \in Int /\ ~(t.top + 1 > ix)
    BY DEF StreamType
  <2>2. /\ IsFiniteSet(skipped)
        /\ Cardinality(skipped) = IF t.top + 1 > ix - 1 THEN 0 ELSE ix - 1 - (t.top + 1) + 1
    BY <2>1, FS_Interval
  <2> QED
    BY <2>1, <2>2
<1>6. Cardinality(Missing(a)) = Cardinality(Missing(t)) + Cardinality(skipped)
  <2>1. Cardinality(Missing(t) \cup skipped)
          = Cardinality(Missing(t)) + Cardinality(skipped) - Cardinality(Missing(t) \cap skipped)
    BY <1>5, MissingFinite, FS_Union
  <2>2. Cardinality(Missing(t) \cap skipped) = 0
    BY <1>4, FS_EmptySet
  <2>3. Cardinality(Missing(t)) \in Nat /\ Cardinality(skipped) \in Int
    BY <1>5, MissingFinite DEF StreamType
  <2> QED
    BY <1>3, <2>1, <2>2, <2>3
<1> QED
  BY <1>2, <1>5, <1>6

LEMMA MissingWithin ==
  ASSUME NEW t, StreamType(t), NEW ix \in Nat, ix <= t.top
  PROVE  /\ StreamType(Arrived(t, ix))
         /\ Arrived(t, ix).top = t.top /\ Arrived(t, ix).last = ix
         /\ Cardinality(Missing(Arrived(t, ix))) <= Cardinality(Missing(t))
         /\ Cardinality(Missing(t)) <= Cardinality(Missing(Arrived(t, ix))) + 1
         /\ ix = t.last => Cardinality(Missing(Arrived(t, ix))) = Cardinality(Missing(t))
<1> DEFINE a == Arrived(t, ix)
<1>1. a = [first |-> t.first, last |-> ix, top |-> t.top, got |-> t.got \cup {ix}]
  <2>1. t.got # {} /\ ~(ix > t.top) /\ t.last \in Nat
    BY DEF StreamType
  <2>2. a = [t EXCEPT !.last = ix, !.top = t.top, !.got = t.got \cup {ix}]
    BY <2>1 DEF Arrived
  <2> QED
    BY <2>2 DEF StreamType
<1>2. StreamType(a) /\ a.top = t.top /\ a.last = ix
  BY <1>1 DEF StreamType
<1>3. Missing(a) = Missing(t) \ {ix}
  BY <1>1 DEF Missing
<1>4. IsFiniteSet(Missing(t)) /\ Cardinality(Missing(t)) \in Nat
  BY MissingFinite
<1>5. Cardinality(Missing(a)) = IF ix \in Missing(t) THEN Cardinality(Missing(t)) - 1
                                                      ELSE Cardinality(Missing(t))
  BY <1>3, <1>4, FS_RemoveElement
<1>6. ix = t.last => ix \notin Missing(t)
  BY DEF Missing, StreamType
<1> QED
  BY <1>2, <1>4, <1>5, <1>6

\* update() in terms of the difference it computes.
LEMMA UpdatedCounts ==
  ASSUME NEW m, CountType(m), NEW seq \in Int, NEW d \in Int,
         Signed(seq - (m.last_seq + 1)) = d
  PROVE  LET u == Updated(m, seq) IN
         /\ CountType(u) /\ u.last_seq = seq
         /\ u.lost = IF d > 0 THEN m.lost + d ELSE m.lost
         /\ u.out_of_order = IF d < -1 THEN m.out_of_order + 1 ELSE m.out_of_order
<1> DEFINE top == Forward(m.max_seq_seen, seq)
           lost == IF d > 0 THEN m.lost + d ELSE m.lost
           ooo == IF d < -1 THEN m.out_of_order + 1 ELSE m.out_of_order
<1>1. top \in Int /\ lost \in Nat /\ ooo \in Nat
  BY DEF CountType, Forward
<1>2. Updated(m, seq) = [m EXCEPT !.received = m.received + 1, !.lost = lost,
                                  !.out_of_order = ooo, !.max_seq_seen = top,
                                  !.last_seq = seq]
  BY DEF Updated
<1> HIDE DEF top, lost, ooo
<1>3. m.received + 1 \in Nat
  BY DEF CountType
<1>4. Updated(m, seq) = [received |-> m.received + 1, lost |-> lost, out_of_order |-> ooo,
                         first_seq |-> m.first_seq, last_seq |-> seq, max_seq_seen |-> top]
  BY <1>2 DEF CountType
<1>5. CountType(Updated(m, seq))
  BY <1>1, <1>3, <1>4, m.first_seq \in Int DEF CountType
<1> QED
  BY <1>4, <1>5 DEF lost, ooo

(***************************************************************************)
(* A further packet of a stream keeps its counts honest (update()).        *)
(***************************************************************************)
LEMMA PacketKeepsStream ==
  ASSUME NEW m, NEW t, StreamInv(m, t), NEW ix \in Nat,
         t.last - Reorder <= ix, ix <= t.last + 1 + Gap
  PROVE  StreamInv(Updated(m, SeqOf(ix)), Arrived(t, ix))
<1> DEFINE u == Updated(m, SeqOf(ix))
           a == Arrived(t, ix)
           d == ix - t.last - 1
<1>0. StreamType(t) /\ CountType(m)
  BY DEF StreamInv
<1>1. t.last \in Nat /\ t.top \in Nat /\ Reorder \in Nat
  BY <1>0, Bounds DEF StreamType
<1>2. Signed(SeqOf(ix) - (m.last_seq + 1)) = d
  BY <1>1, SignedDifference DEF StreamInv
<1>3. SeqOf(ix) \in Int
  BY Bounds DEF SeqOf
<1>4. /\ CountType(u) /\ u.last_seq = SeqOf(ix)
      /\ u.lost = IF d > 0 THEN m.lost + d ELSE m.lost
      /\ u.out_of_order = IF d < -1 THEN m.out_of_order + 1 ELSE m.out_of_order
  BY <1>0, <1>1, <1>2, <1>3, UpdatedCounts
<1>5. Slack(m) \in Nat /\ Slack(u) = IF d < -1 THEN Slack(m) + Reorder + 1 ELSE Slack(m)
  <2>1. m.out_of_order \in Nat
    BY <1>0 DEF CountType
  <2>2. (m.out_of_order + 1) * (Reorder + 1) = m.out_of_order * (Reorder + 1) + Reorder + 1
    BY <1>1, <2>1
  <2>3. m.out_of_order * (Reorder + 1) \in Nat
    BY <1>1, <2>1
  <2> QED
    BY <1>4, <2>2, <2>3 DEF Slack
<1>6. Cardinality(Missing(t)) \in Nat /\ m.lost \in Nat
  BY <1>0, MissingFinite DEF CountType
<1>7. /\ Cardinality(Missing(t)) <= m.lost
      /\ m.lost + (t.top - t.last) <= Cardinality(Missing(t)) + Slack(m)
  BY DEF StreamInv
<1>8. CASE ix > t.top
  <2>1. /\ StreamType(a) /\ a.top = ix /\ a.last = ix
        /\ Cardinality(Missing(a)) = Cardinality(Missing(t)) + (ix - t.top - 1)
    BY <1>0, <1>8, MissingBeyond
  <2>2. t.last <= t.top
    BY <1>0 DEF StreamType
  <2> QED
    BY <1>1, <1>4, <1>5, <1>6, <1>7, <1>8, <2>1, <2>2 DEF StreamInv
<1>9. CASE ix <= t.top
  <2>1. /\ StreamType(a) /\ a.top = t.top /\ a.last = ix
        /\ Cardinality(Missing(a)) <= Cardinality(Missing(t))
        /\ Cardinality(Missing(t)) <= Cardinality(Missing(a)) + 1
        /\ ix = t.last => Cardinality(Missing(a)) = Cardinality(Missing(t))
        /\ Cardinality(Missing(a)) \in Nat
    BY <1>0, <1>9, MissingWithin, MissingFinite
  <2> QED
    BY <1>1, <1>4, <1>5, <1>6, <1>7, <1>9, <2>1 DEF StreamInv
<1> QED
  BY <1>1, <1>8, <1>9

LEMMA FirstPacketBegins ==
  ASSUME NEW ix \in Nat
  PROVE  /\ StreamInv(FirstPacket(SeqOf(ix)), Arrived(Nothing, ix))
         /\ FirstPacket(SeqOf(ix)) # NoStream
<1>1. SeqOf(ix) \in Int /\ Reorder \in Nat
  BY Bounds DEF SeqOf
<1>2. Arrived(Nothing, ix) = [first |-> ix, last |-> ix, top |-> ix, got |-> {ix}]
  BY DEF Arrived, Nothing
<1>3. Missing(Arrived(Nothing, ix)) = {}
  BY <1>2 DEF Missing
<1>4. Cardinality(Missing(Arrived(Nothing, ix))) = 0
  BY <1>3, FS_EmptySet
<1>5. StreamType(Arrived(Nothing, ix)) /\ CountType(FirstPacket(SeqOf(ix)))
  BY <1>1, <1>2 DEF StreamType, CountType, FirstPacket
<1>6. StreamInv(FirstPacket(SeqOf(ix)), Arrived(Nothing, ix))
  BY <1>1, <1>2, <1>4, <1>5 DEF StreamInv, Slack, FirstPacket
<1>7. FirstPacket(SeqOf(ix)).lost = 0 /\ DOMAIN FirstPacket(SeqOf(ix)) # DOMAIN NoStream
  BY DEF FirstPacket, NoStream
<1> QED
  BY <1>6, <1>7

LEMMA MetricsStart == MetricsInit => MetricsInv
BY DEF MetricsInit, MetricsInv

LEMMA UpdateKeeps ==
  ASSUME MetricsInv, NEW s \in Ssrcs, NEW ix \in Nat, Update(s, ix)
  PROVE  MetricsInv'
<1>1. /\ metrics' = [metrics EXCEPT ![s] = StoreUpdated(metrics[s], SeqOf(ix))]
      /\ stream' = [stream EXCEPT ![s] = Arrived(stream[s], ix)]
  BY DEF Update
<1>2. StreamInv(StoreUpdated(metrics[s], SeqOf(ix)), Arrived(stream[s], ix))
  <2>1. CASE metrics[s] = NoStream
    BY <2>1, FirstPacketBegins DEF MetricsInv, StoreUpdated
  <2>2. CASE metrics[s] # NoStream
    BY <2>2, PacketKeepsStream DEF MetricsInv, StoreUpdated, Update, Deliverable
  <2> QED
    BY <2>1, <2>2
<1>3. StoreUpdated(metrics[s], SeqOf(ix)) # NoStream
  BY <1>2 DEF StreamInv, CountType, NoStream
<1> QED
  BY <1>1, <1>2, <1>3 DEF MetricsInv

LEMMA MetricsStep ==
  ASSUME MetricsInv, [MetricsNext]_metricsVars
  PROVE  MetricsInv'
<1>1. CASE UNCHANGED metricsVars
  BY <1>1 DEF metricsVars, MetricsInv
<1> QED
  BY <1>1, UpdateKeeps DEF MetricsNext

LEMMA CountsAreHonest ==
  ASSUME MetricsInv
  PROVE  NoLossHidden /\ OvercountBounded
<1> SUFFICES ASSUME NEW s \in Known
             PROVE  /\ Cardinality(Missing(stream[s])) <= metrics[s].lost
                    /\ metrics[s].lost <= Cardinality(Missing(stream[s]))
                                            + metrics[s].out_of_order * (Reorder + 1)
  BY DEF NoLossHidden, OvercountBounded
<1>1. StreamInv(metrics[s], stream[s])
  BY DEF MetricsInv, Known
<1>0. StreamType(stream[s]) /\ CountType(metrics[s])
  BY <1>1 DEF StreamInv
<1>2. /\ metrics[s].lost \in Nat /\ metrics[s].out_of_order \in Nat /\ Reorder \in Nat
      /\ stream[s].top - stream[s].last >= 0 /\ stream[s].top - stream[s].last \in Int
  BY <1>0, Bounds DEF StreamType, CountType
<1>3. Cardinality(Missing(stream[s])) \in Nat
  BY <1>1, MissingFinite DEF StreamInv
<1>4. metrics[s].out_of_order * (Reorder + 1) \in Nat
  BY <1>2
<1> QED
  BY <1>1, <1>2, <1>3, <1>4 DEF StreamInv, Slack

(***************************************************************************)
(* Every packet that is missing is counted as lost, and the losses that    *)
(* are none are explained by reordering, whatever the network delivers     *)
(* (SsrcRecvMetrics::update).                                              *)
(***************************************************************************)
THEOREM LossesAreCounted == MetricsSpec => []NoLossHidden /\ []OvercountBounded
<1>1. MetricsSpec => []MetricsInv
  <2>1. MetricsInv /\ [MetricsNext]_metricsVars => MetricsInv'
    BY MetricsStep
  <2> QED
    BY MetricsStart, <2>1, PTL DEF MetricsSpec
<1>2. MetricsInv => NoLossHidden /\ OvercountBounded
  BY CountsAreHonest
<1> QED
  BY <1>1, <1>2, PTL

-----------------------------------------------------------------------------

\* Only packets of the known streams are under way.
FlightInv ==
  /\ sent \in [Ssrcs -> Nat]
  /\ \A p \in flight : p.ssrc \in Ssrcs /\ p.ix \in Nat

LEMMA FlightStart == Init => FlightInv
BY DEF Init, FlightInv

\* SRs that set out or are lost change little else, those that arrive more.
SrMoves == \/ \E s, ntp, time : RelaySr(s, ntp, time)
           \/ \E r : LoseSr(r)

LEMMA SrsMove ==
  ASSUME SrMoves
  PROVE  UNCHANGED <<limits, now, mode, sent, stamp, flight, ssrc_last, obs, pending, before,
                     arrived, metricsVars, faults, requests>>
<1>1. ASSUME NEW s, NEW ntp, NEW time, RelaySr(s, ntp, time)
      PROVE  UNCHANGED <<limits, now, mode, sent, stamp, flight, ssrc_last, obs, pending, before,
                         arrived, metricsVars, faults, requests>>
  BY <1>1 DEF RelaySr, loopVars
<1>2. ASSUME NEW r, LoseSr(r)
      PROVE  UNCHANGED <<limits, now, mode, sent, stamp, flight, ssrc_last, obs, pending, before,
                         arrived, metricsVars, faults, requests>>
  BY <1>2 DEF LoseSr, loopVars
<1> QED
  BY <1>1, <1>2 DEF SrMoves

LEMMA SrArrivesAlone ==
  ASSUME NEW r, NEW again, RecvSr(r, again)
  PROVE  UNCHANGED <<limits, now, mode, sent, stamp, flight, reported, ssrc_last, pending, before,
                     metricsVars, rtcp, requests>>
BY DEF RecvSr

LEMMA FlightStep ==
  ASSUME FlightInv, [Next]_vars
  PROVE  FlightInv' /\ [MetricsNext]_metricsVars
<1>1. CASE UNCHANGED vars
  BY <1>1 DEF FlightInv, vars, sfuVars
<1>2. ASSUME NEW s \in Ssrcs, NEW key \in BOOLEAN, NEW frozen \in BOOLEAN,
             Relay(s, key, frozen)
      PROVE  FlightInv' /\ UNCHANGED metricsVars
  <2>1. PICK p : p.ssrc = s /\ p.ix = sent[s] /\ flight' = flight \cup {p}
    <3> DEFINE t == IF frozen THEN stamp[s] + 1 ELSE now
               p == [ssrc |-> s, ix |-> sent[s], ts |-> TsAt(s, t), key |-> key,
                     frozen |-> frozen /\ t # now, at |-> now]
    <3>1. flight' = flight \cup {p}
      BY <1>2 DEF Relay
    <3>2. p.ssrc = s /\ p.ix = sent[s]
      OBVIOUS
    <3> HIDE DEF p
    <3> QED
      BY <3>1, <3>2
  <2>2. sent' = [sent EXCEPT ![s] = sent[s] + 1] /\ UNCHANGED metricsVars
    BY <1>2 DEF Relay
  <2> QED
    BY <2>1, <2>2 DEF FlightInv
<1>3. ASSUME NEW p \in flight, Lose(p)
      PROVE  FlightInv' /\ UNCHANGED metricsVars
  BY <1>3 DEF Lose, FlightInv
<1>4. ASSUME NEW p \in flight, NEW again \in BOOLEAN, RecvRtp(p, again)
      PROVE  FlightInv' /\ MetricsNext
  <2>1. FlightInv'
    BY <1>4 DEF RecvRtp, FlightInv
  <2>2. Update(p.ssrc, p.ix) /\ p.ssrc \in Ssrcs /\ p.ix \in Nat
    BY <1>4 DEF RecvRtp, FlightInv
  <2> QED
    BY <2>1, <2>2 DEF MetricsNext
<1>5. ASSUME NEW r, NEW again, RecvSr(r, again)
      PROVE  FlightInv' /\ UNCHANGED metricsVars
  BY <1>5, SrArrivesAlone DEF FlightInv
<1>6. ASSUME NEW first, NEW second, RecvCompound(first, second)
      PROVE  FlightInv' /\ UNCHANGED metricsVars
  BY <1>6 DEF RecvCompound, sfuVars, FlightInv
<1>7. ASSUME NEW layer, subscribe_layer(layer)
      PROVE  FlightInv' /\ UNCHANGED metricsVars
  BY <1>7 DEF subscribe_layer, sfuVars, FlightInv
<1>8. CASE Advance
  BY <1>8 DEF Advance, FlightInv
<1>9. ASSUME SrMoves
      PROVE  FlightInv' /\ UNCHANGED metricsVars
  BY <1>9, SrsMove DEF FlightInv
<1> QED
  BY <1>1, <1>2, <1>3, <1>4, <1>5, <1>6, <1>7, <1>8, <1>9, ZenonT(60) DEF Next, vars, SrMoves

(***************************************************************************)
(* The recv task implements the metrics' specification: whatever the SFU   *)
(* relays and the network does to it arrives as RecvMetrics allows         *)
(* (RecvMetricsStore::update, called first for every RTP packet, bot.rs).  *)
(***************************************************************************)
THEOREM ObserveImplementsMetrics == Spec => MetricsSpec
<1>1. Init => FlightInv /\ MetricsInit
  BY FlightStart DEF Init
<1>2. FlightInv /\ [Next]_vars => FlightInv' /\ [MetricsNext]_metricsVars
  BY FlightStep
<1> QED
  BY <1>1, <1>2, PTL DEF Spec, MetricsSpec

(***************************************************************************)
(* No loss is hidden from the checkpoint that looks for losses, L1-13.     *)
(***************************************************************************)
THEOREM ObserveHidesNoLoss == Spec => []NoLossHidden
BY ObserveImplementsMetrics, LossesAreCounted, PTL

(***************************************************************************)
(* A stream that was not reordered is counted exactly, and the false       *)
(* losses of another are bounded (SsrcRecvMetrics::update).                *)
(***************************************************************************)
THEOREM ObserveOvercountsLittle == Spec => []OvercountBounded
BY ObserveImplementsMetrics, LossesAreCounted, PTL

-----------------------------------------------------------------------------

IsSequence(s) == \E S : s \in Seq(S)

LEMMA AppendOne ==
  ASSUME NEW s, IsSequence(s), NEW e
  PROVE  IsSequence(Append(s, e)) /\ Len(Append(s, e)) = Len(s) + 1
<1>1. PICK S : s \in Seq(S)
  BY DEF IsSequence
<1>2. s \in Seq(S \cup {e})
  BY <1>1
<1>3. Append(s, e) \in Seq(S \cup {e}) /\ Len(Append(s, e)) = Len(s) + 1
  BY <1>2
<1> QED
  BY <1>3 DEF IsSequence

\* The records keep their fields; only a switch appends to the switches.
Whole(o) == DOMAIN o = DOMAIN NoObservations
SwitchesOf(o) == o.simulcast_layer_switches

LEMMA OtherFields ==
  ASSUME NEW o, Whole(o)
  PROVE  /\ \A p : Whole(RecordSsrc(o, p)) /\ SwitchesOf(RecordSsrc(o, p)) = SwitchesOf(o)
         /\ \A p : Whole(RecordTsGap(o, p)) /\ SwitchesOf(RecordTsGap(o, p)) = SwitchesOf(o)
         /\ \A sr : Whole(RecordSr(o, sr)) /\ SwitchesOf(RecordSr(o, sr)) = SwitchesOf(o)
         /\ \A block : /\ Whole(RecordBlock(o, block))
                       /\ SwitchesOf(RecordBlock(o, block)) = SwitchesOf(o)
<1>1. \A p : Whole(RecordSsrc(o, p)) /\ SwitchesOf(RecordSsrc(o, p)) = SwitchesOf(o)
  BY DEF RecordSsrc, Whole, SwitchesOf, NoObservations
<1>2. \A p : Whole(RecordTsGap(o, p)) /\ SwitchesOf(RecordTsGap(o, p)) = SwitchesOf(o)
  BY DEF RecordTsGap, Whole, SwitchesOf, NoObservations
<1>3. \A sr : Whole(RecordSr(o, sr)) /\ SwitchesOf(RecordSr(o, sr)) = SwitchesOf(o)
  BY DEF RecordSr, Whole, SwitchesOf, NoObservations
<1>4. \A block : Whole(RecordBlock(o, block)) /\ SwitchesOf(RecordBlock(o, block)) = SwitchesOf(o)
  BY DEF RecordBlock, Whole, SwitchesOf, NoObservations
<1> QED
  BY <1>1, <1>2, <1>3, <1>4

Unanswered == IF pending = "none" THEN 0 ELSE 1

SwitchInv ==
  /\ Whole(obs) /\ IsSequence(SwitchesOf(obs))
  /\ requests \in Nat
  /\ Len(SwitchesOf(obs)) + Unanswered <= requests

LEMMA SwitchStart == Init => SwitchInv
<1> SUFFICES ASSUME Init PROVE SwitchInv
  OBVIOUS
<1>1. Whole(obs) /\ SwitchesOf(obs) = <<>> /\ requests = 0 /\ Unanswered = 0
  BY DEF Init, Whole, SwitchesOf, Unanswered, NoObservations
<1>2. <<>> \in Seq({}) /\ Len(<<>>) = 0
  OBVIOUS
<1> QED
  BY <1>1, <1>2 DEF SwitchInv, IsSequence

LEMMA SwitchStep ==
  ASSUME SwitchInv, [Next]_vars
  PROVE  SwitchInv'
<1> DEFINE Same == /\ Whole(obs') /\ SwitchesOf(obs') = SwitchesOf(obs)
                   /\ Unanswered' <= Unanswered /\ UNCHANGED requests
<1>0. Len(SwitchesOf(obs)) \in Nat /\ Unanswered \in Nat /\ Unanswered' \in Nat
  <2>1. PICK S : SwitchesOf(obs) \in Seq(S)
    BY DEF SwitchInv, IsSequence
  <2> QED
    BY <2>1 DEF Unanswered
<1>s. Same => SwitchInv'
  <2> SUFFICES ASSUME Same PROVE SwitchInv'
    OBVIOUS
  <2>1. SwitchesOf(obs)' = SwitchesOf(obs) /\ Whole(obs)'
    BY DEF SwitchesOf, Whole
  <2>2. Len(SwitchesOf(obs)') = Len(SwitchesOf(obs))
    BY <2>1
  <2> QED
    BY <1>0, <2>1, <2>2 DEF SwitchInv
<1>u. ASSUME UNCHANGED <<obs, pending, requests>> PROVE SwitchInv'
  BY <1>0, <1>s, <1>u DEF SwitchInv, Unanswered
<1>1. ASSUME UNCHANGED vars PROVE SwitchInv'
  BY <1>u, <1>1 DEF vars, loopVars
<1>2. ASSUME NEW s, NEW key, NEW frozen, Relay(s, key, frozen) PROVE SwitchInv'
  BY <1>u, <1>2 DEF Relay, loopVars
<1>3. ASSUME NEW p, Lose(p) PROVE SwitchInv'
  BY <1>u, <1>3 DEF Lose, loopVars
<1>4. ASSUME NEW p, NEW again, RecvRtp(p, again) PROVE SwitchInv'
  <2> DEFINE o == RecordTsGap(RecordSsrc(obs, p), p)
  <2>1. Whole(o) /\ SwitchesOf(o) = SwitchesOf(obs)
    BY OtherFields DEF SwitchInv
  <2>2. RecordSwitch(o, p) /\ pending' = PendingAfter(p) /\ UNCHANGED requests
    BY <1>4 DEF RecvRtp
  <2> HIDE DEF o
  <2>3. CASE IsAudio(p.ssrc) \/ pending = "none"
    <3>1. obs' = o /\ (pending' = pending \/ pending' = "none")
      BY <2>2, <2>3 DEF RecordSwitch, PendingAfter
    <3> QED
      BY <1>0, <1>s, <2>1, <2>2, <3>1 DEF Unanswered
  <2>4. CASE ~(IsAudio(p.ssrc) \/ pending = "none")
    <3>1. PICK e : obs' = [o EXCEPT !.simulcast_layer_switches = Append(@, e)]
      BY <2>2, <2>4 DEF RecordSwitch
    <3>2. Whole(obs)' /\ SwitchesOf(obs)' = Append(SwitchesOf(obs), e)
      BY <2>1, <3>1 DEF Whole, SwitchesOf, NoObservations
    <3>3. IsSequence(SwitchesOf(obs)') /\ Len(SwitchesOf(obs)') = Len(SwitchesOf(obs)) + 1
      BY <3>2, AppendOne DEF SwitchInv
    <3>4. Unanswered = 1 /\ Unanswered' = 0
      BY <2>2, <2>4 DEF PendingAfter, Unanswered
    <3> QED
      BY <1>0, <2>2, <3>2, <3>3, <3>4 DEF SwitchInv
  <2> QED
    BY <2>3, <2>4
<1>5. ASSUME NEW r, NEW again, RecvSr(r, again) PROVE SwitchInv'
  <2>1. PICK sr : obs' = RecordSr(obs, sr)
    BY <1>5 DEF RecvSr
  <2>2. UNCHANGED <<pending, requests>>
    BY <1>5, SrArrivesAlone
  <2> QED
    BY <1>0, <1>s, <2>1, <2>2, OtherFields DEF SwitchInv, Unanswered
<1>6. ASSUME NEW first, NEW second, RecvCompound(first, second) PROVE SwitchInv'
  <2>1. obs' = RecordBlock(RecordBlock(obs, first), second) /\ UNCHANGED <<pending, requests>>
    BY <1>6 DEF RecvCompound
  <2>2. Whole(RecordBlock(obs, first)) /\ SwitchesOf(RecordBlock(obs, first)) = SwitchesOf(obs)
    BY OtherFields DEF SwitchInv
  <2>3. Whole(obs') /\ SwitchesOf(obs') = SwitchesOf(obs)
    BY <2>1, <2>2, OtherFields
  <2> QED
    BY <1>0, <1>s, <2>1, <2>3 DEF Unanswered
<1>7. ASSUME NEW layer, subscribe_layer(layer) PROVE SwitchInv'
  <2>1. UNCHANGED obs /\ requests' = requests + 1 /\ Unanswered' <= 1
    BY <1>7 DEF subscribe_layer, Unanswered
  <2> QED
    BY <1>0, <2>1 DEF SwitchInv, Whole, SwitchesOf, IsSequence
<1>8. ASSUME Advance PROVE SwitchInv'
  BY <1>u, <1>8 DEF Advance, loopVars
<1>9. ASSUME SrMoves PROVE SwitchInv'
  BY <1>u, <1>9, SrsMove
<1> QED
  BY <1>1, <1>2, <1>3, <1>4, <1>5, <1>6, <1>7, <1>8, <1>9, ZenonT(60) DEF Next, SrMoves

(***************************************************************************)
(* A layer switch is observed at most once, and never without a request,   *)
(* although a request overwrites the pending one and the recv task clears  *)
(* it (pending_layer_switch, bot.rs).                                      *)
(***************************************************************************)
THEOREM SwitchesAreRequested == Spec => []SwitchesObservedOnce
<1>1. SwitchInv => SwitchesObservedOnce
  BY DEF SwitchInv, SwitchesOf, Unanswered, SwitchesObservedOnce
<1> QED
  BY <1>1, SwitchStart, SwitchStep, PTL DEF Spec

-----------------------------------------------------------------------------
(***************************************************************************)
(* The remainders of the RTP clock.                                        *)
(***************************************************************************)
LEMMA Division ==
  ASSUME NEW M \in Nat \ {0}, NEW u \in Int
  PROVE  \E q \in Int : u = M * q + (u % M)
<1>1. u \div M \in Int
  OBVIOUS
<1>2. u = M * (u \div M) + (u % M)
  OBVIOUS
<1> QED
  BY <1>1, <1>2

LEMMA Remainder ==
  ASSUME NEW M \in Nat \ {0}, NEW q \in Int, NEW r \in 0 .. M - 1, NEW u \in Int, u = M * q + r
  PROVE  u % M = r
OBVIOUS

LEMMA DifferenceOfRemainders ==
  ASSUME NEW M \in Nat \ {0}, NEW a \in Nat, NEW b \in Nat
  PROVE  ((b % M) - (a % M)) % M = (b - a) % M
<1> DEFINE x == a % M
           y == b % M
           r == (b - a) % M
<1>0. x \in Nat /\ y \in Nat /\ r \in 0 .. M - 1
  OBVIOUS
<1>1. /\ \E p \in Int : a = M * p + x
      /\ \E q \in Int : b = M * q + y
      /\ \E k \in Int : b - a = M * k + r
  <2>1. a \in Int /\ b \in Int /\ b - a \in Int
    OBVIOUS
  <2> QED
    BY <2>1, Division
<1> HIDE DEF x, y, r
<1>2. PICK p \in Int, q \in Int, k \in Int :
        a = M * p + x /\ b = M * q + y /\ b - a = M * k + r
  BY <1>1
<1>3. y - x = M * (k - q + p) + r
  <2>1. M * (k - q + p) = M * k - M * q + M * p
    OBVIOUS
  <2>2. M * k \in Int /\ M * p \in Int /\ M * q \in Int
    OBVIOUS
  <2> QED
    BY <1>0, <1>2, <2>1, <2>2
<1>4. (y - x) % M = r
  <2>1. y - x \in Int /\ k - q + p \in Int
    BY <1>0
  <2> QED
    BY <1>0, <1>3, <2>1, Remainder
<1> QED
  BY <1>4 DEF x, y, r

LEMMA TsModPositive == TsMod \in Nat \ {0} /\ TsStart \in Nat /\ Delay \in Nat /\ IdleGap \in Nat
BY CheckpointsAssumption, ObserveAssumption

\* The RTP clock between two capture times runs at the sample rate.
LEMMA ClockRuns ==
  ASSUME NEW s, NEW a \in Nat, NEW b \in Nat
  PROVE  /\ TsAt(s, a) \in 0 .. TsMod - 1
         /\ (TsAt(s, b) - TsAt(s, a)) % TsMod = (sample_rate(s) * (b - a)) % TsMod
         /\ sample_rate(s) \in {1, 2}
<1> DEFINE rate == sample_rate(s)
<1>1. rate \in {1, 2}
  BY DEF sample_rate
<1>2. /\ TsAt(s, a) = (TsStart + a * rate) % TsMod
      /\ TsAt(s, b) = (TsStart + b * rate) % TsMod
  BY DEF TsAt, sample_rate, IsAudio
<1>3. /\ TsStart + a * rate \in Nat /\ TsStart + b * rate \in Nat
      /\ (TsStart + b * rate) - (TsStart + a * rate) = rate * (b - a)
  BY <1>1, TsModPositive
<1> HIDE DEF rate
<1>4. TsAt(s, a) \in 0 .. TsMod - 1
  BY <1>2, <1>3, TsModPositive
<1>5. (TsAt(s, b) - TsAt(s, a)) % TsMod = (rate * (b - a)) % TsMod
  <2> DEFINE x == TsStart + a * rate
             y == TsStart + b * rate
  <2>1. x \in Nat /\ y \in Nat /\ y - x = rate * (b - a)
    BY <1>3
  <2>2. TsAt(s, b) = y % TsMod /\ TsAt(s, a) = x % TsMod
    BY <1>2
  <2> HIDE DEF x, y
  <2>3. ((y % TsMod) - (x % TsMod)) % TsMod = (y - x) % TsMod
    BY <2>1, TsModPositive, DifferenceOfRemainders
  <2> QED
    BY <2>1, <2>2, <2>3
<1> QED
  BY <1>1, <1>4, <1>5 DEF rate

\* What a sender report may show: the time, or that of a clock of the SFU's own.
Shown(l) == 0 .. l.time \cup l.clock

\* All of it is within half the wrap of an RTP timestamp, at 2 per tick.
TsFits == \A l \in Limits : 4 * l.time < TsMod /\ \A t \in Shown(l) : 4 * t < TsMod

\* Then the wrapping comparison orders capture times (eval_l1_03).
LEMMA ClockOrders ==
  ASSUME NEW s, NEW a \in Nat, NEW b \in Nat, 4 * a < TsMod, 4 * b < TsMod
  PROVE  NotForward(TsAt(s, a), TsAt(s, b)) <=> b <= a
<1> DEFINE d == (TsAt(s, b) - TsAt(s, a)) % TsMod
           x == sample_rate(s) * (b - a)
<1>1. d = x % TsMod /\ sample_rate(s) \in {1, 2}
  BY ClockRuns
<1>2. x = b - a \/ x = 2 * (b - a)
  BY <1>1
<1>3. NotForward(TsAt(s, a), TsAt(s, b)) <=> d = 0 \/ 2 * d >= TsMod
  BY DEF NotForward
<1>4. TsMod \in Nat \ {0}
  BY TsModPositive
<1> HIDE DEF d, x
<1>5. CASE b <= a
  <2>1. CASE a = b
    <3>1. x = 0 /\ 0 = TsMod * 0 + 0 /\ 0 \in 0 .. TsMod - 1
      BY <1>2, <1>4, <2>1
    <3>2. d = 0
      BY <1>1, <1>4, <3>1, Remainder
    <3> QED
      BY <1>3, <1>5, <3>2
  <2>2. CASE a # b
    <3>1. x < 0 /\ x \in Int /\ 2 * (-x) < TsMod
      BY <1>2, <1>4, <1>5, <2>2
    <3>2. x = TsMod * (-1) + (TsMod + x) /\ TsMod + x \in 0 .. TsMod - 1
      BY <1>4, <3>1
    <3>3. d = TsMod + x
      BY <1>1, <1>4, <3>1, <3>2, Remainder
    <3> QED
      BY <1>3, <1>4, <1>5, <3>1, <3>3
  <2> QED
    BY <2>1, <2>2
<1>6. CASE ~(b <= a)
  <2>1. 0 < x /\ x \in Int /\ 2 * x < TsMod
    BY <1>2, <1>4, <1>6
  <2>2. x = TsMod * 0 + x /\ x \in 0 .. TsMod - 1
    BY <1>4, <2>1
  <2>3. d = x
    BY <1>1, <1>4, <2>1, <2>2, Remainder
  <2> QED
    BY <1>3, <1>4, <1>6, <2>1, <2>3
<1> QED
  BY <1>5, <1>6

-----------------------------------------------------------------------------
(***************************************************************************)
(* The values of the receive loop's state, of the SFU and of the network.  *)
(***************************************************************************)
Packets ==
  [ssrc : Ssrcs, ix : Nat, ts : Nat, key : BOOLEAN, frozen : BOOLEAN, at : Nat]
SenderReports == [ssrc : Ssrcs, ntp : Nat, rtp_ts : Nat]
GapRecords == [ssrc : Ssrcs, wall_gap : Int, rtp_gap : Nat, sample_rate : Nat]

SfuInv ==
  /\ limits \in Limits /\ mode \in Modes
  /\ now \in Nat /\ now <= limits.time
  /\ sent \in [Ssrcs -> Nat] /\ \A s \in Ssrcs : sent[s] <= limits.sent[s]
  /\ stamp \in [Ssrcs -> Int] /\ \A s \in Ssrcs : -1 <= stamp[s] /\ stamp[s] <= now
  /\ \A p \in flight : /\ p \in Packets /\ p.ix < sent[p.ssrc]
                       /\ p.at <= now /\ now <= p.at + Delay
                       /\ ~p.frozen => p.ts = TsAt(p.ssrc, p.at)
  /\ mishaps \in [Kinds -> Nat] /\ Total(mishaps) <= limits.mishaps
  /\ rtcp \in Nat /\ rtcp <= limits.rtcp /\ requests \in Nat /\ requests <= limits.requests
  /\ faults \subseteq {"raw_ssrc", "ts_frozen", "sr_rewritten", "rr_relayed"}

Sequences(m) ==
  m.first_seq \in SeqNumbers /\ m.last_seq \in SeqNumbers /\ m.max_seq_seen \in SeqNumbers

SeqInv == \A s \in Known : Sequences(metrics[s])

LastInv ==
  /\ ssrc_last \in [Ssrcs -> [time : Nat, ts : Int]]
  /\ \A s \in Ssrcs : /\ ssrc_last[s] = NotSeen <=> s \notin Known
                      /\ ssrc_last[s].time <= now

PendingInv ==
  /\ pending \in {"none", "h", "pause"}
  /\ IsSequence(before) /\ Len(before) = Len(SwitchesOf(obs))

\* The records of RTCP packets.
RrInv ==
  /\ obs.rr_received_count \in Nat /\ obs.pli_received_count \in Nat
  /\ obs.rr_sender_ssrcs \subseteq {"rr_sfu", "rr_peer"}
  /\ obs.rr_sender_ssrcs # {} => obs.rr_received_count > 0
  /\ "rr_peer" \in obs.rr_sender_ssrcs => "rr_relayed" \in faults

\* The SRs under way; their stream and their time tell them apart.
Reports == [ssrc : Ssrcs, ntp : Nat, time : Nat, at : Nat]

ReportsInv ==
  /\ reported \in [Ssrcs -> Int] /\ \A s \in Ssrcs : -1 <= reported[s] /\ reported[s] <= now
  /\ \A r \in reports : /\ r \in Reports /\ r.time \in Shown(limits)
                        /\ r.at <= reported[r.ssrc] /\ now <= r.at + Delay
  /\ \A q, r \in reports : q.ssrc = r.ssrc /\ q.at = r.at => q = r

\* The records of SRs are those of the SRs that arrived.
SrOf(r) == [ssrc |-> r.ssrc, ntp |-> r.ntp, rtp_ts |-> TsAt(r.ssrc, r.time)]

SrInv ==
  /\ arrived \in Seq(Reports)
  /\ obs.sr_received \in Seq(SenderReports) /\ Len(obs.sr_received) = Len(arrived)
  /\ \A i \in DOMAIN arrived :
       arrived[i].time \in Shown(limits) /\ obs.sr_received[i] = SrOf(arrived[i])

\* A network that neither repeats an SR nor lets one overtake another delivers
\* the publisher's own in the order of their times.
Preserved(r) == r.ntp = r.at /\ r.time = r.at

SrOrderInv ==
  "sr_rewritten" \notin faults /\ mishaps["sr_duplicate"] = 0 /\ mishaps["sr_reorder"] = 0 =>
    \A i \in DOMAIN arrived :
      /\ Preserved(arrived[i]) /\ arrived[i].at <= reported[arrived[i].ssrc]
      /\ \A r \in reports : r.ssrc = arrived[i].ssrc => arrived[i].at < r.at
      /\ \A j \in DOMAIN arrived : Earlier(i, j) => arrived[i].at < arrived[j].at

\* The records of RTP packets: L1-07 and L1-08.
SsrcInv ==
  /\ obs.ptt_audio_ssrcs \subseteq {Audio}
  /\ obs.ptt_video_ssrcs \subseteq {Video, RawVideo}
  /\ Known \cap {Video, RawVideo} \subseteq obs.ptt_video_ssrcs
  /\ RawVideo \in obs.ptt_video_ssrcs => "raw_ssrc" \in faults

Captured(s, last) ==
  \E u \in Nat : u <= last.time /\ last.time <= u + Delay /\ last.ts = TsAt(s, u)

GapInv ==
  "ts_frozen" \notin faults =>
    /\ \A s \in Known : Captured(s, ssrc_last[s])
    /\ \A rec \in obs.ptt_ts_gap_records : ~GapViolated(rec)

\* What a network that neither loses nor reorders has delivered: L1-13.
Following(s) == IF metrics[s] = NoStream THEN 0 ELSE stream[s].last + 1

InFlight(s, ix) == \E p \in flight : p.ssrc = s /\ p.ix = ix

DeliveryInv ==
  mishaps["loss"] = 0 /\ mishaps["reorder"] = 0 =>
    \A s \in Ssrcs :
      /\ metrics[s] # NoStream =>
           /\ metrics[s].lost = 0 /\ stream[s].last < sent[s]
           /\ \A p \in flight : p.ssrc = s => stream[s].last <= p.ix
      /\ \A ix \in Following(s) .. sent[s] - 1 : InFlight(s, ix)

-----------------------------------------------------------------------------
(***************************************************************************)
(* What a packet changes in the records, and nothing else.                 *)
(***************************************************************************)
OnlyChanges(o, q, fields) == Whole(q) /\ \A f \in DOMAIN NoObservations \ fields : q[f] = o[f]

Same(o, q) == OnlyChanges(o, q, {})

GapOf(p) ==
  [ssrc |-> p.ssrc, wall_gap |-> now - ssrc_last[p.ssrc].time,
   rtp_gap |-> (p.ts - ssrc_last[p.ssrc].ts) % TsMod, sample_rate |-> sample_rate(p.ssrc)]

AfterGap(p) ==
  mode = "ptt" /\ ssrc_last[p.ssrc] # NotSeen /\ now - ssrc_last[p.ssrc].time > IdleGap

RtpFields ==
  {"ptt_audio_ssrcs", "ptt_video_ssrcs", "ptt_ts_gap_records", "simulcast_layer_switches"}

LEMMA RecordSsrcEffect ==
  ASSUME NEW o, Whole(o), NEW p
  PROVE  LET q == RecordSsrc(o, p) IN
         /\ OnlyChanges(o, q, {"ptt_audio_ssrcs", "ptt_video_ssrcs"})
         /\ q.ptt_audio_ssrcs = o.ptt_audio_ssrcs \cup (IF IsAudio(p.ssrc) THEN {p.ssrc} ELSE {})
         /\ q.ptt_video_ssrcs = o.ptt_video_ssrcs \cup (IF IsAudio(p.ssrc) THEN {} ELSE {p.ssrc})
<1>1. CASE IsAudio(p.ssrc)
  <2>1. RecordSsrc(o, p) = [o EXCEPT !.ptt_audio_ssrcs = @ \cup {p.ssrc}]
    BY <1>1 DEF RecordSsrc
  <2> QED
    BY <1>1, <2>1 DEF OnlyChanges, Whole, NoObservations
<1>2. CASE ~IsAudio(p.ssrc)
  <2>1. RecordSsrc(o, p) = [o EXCEPT !.ptt_video_ssrcs = @ \cup {p.ssrc}]
    BY <1>2 DEF RecordSsrc
  <2> QED
    BY <1>2, <2>1 DEF OnlyChanges, Whole, NoObservations
<1> QED
  BY <1>1, <1>2

LEMMA RecordTsGapEffect ==
  ASSUME NEW o, Whole(o), NEW p
  PROVE  LET q == RecordTsGap(o, p) IN
         /\ OnlyChanges(o, q, {"ptt_ts_gap_records"})
         /\ q.ptt_ts_gap_records
              = o.ptt_ts_gap_records \cup (IF AfterGap(p) THEN {GapOf(p)} ELSE {})
<1>1. CASE AfterGap(p)
  <2>1. RecordTsGap(o, p) = [o EXCEPT !.ptt_ts_gap_records = @ \cup {GapOf(p)}]
    BY <1>1 DEF RecordTsGap, AfterGap, GapOf, LastOf
  <2> QED
    BY <1>1, <2>1 DEF OnlyChanges, Whole, NoObservations
<1>2. CASE ~AfterGap(p)
  <2>1. RecordTsGap(o, p) = o
    BY <1>2 DEF RecordTsGap, AfterGap, GapOf, LastOf
  <2> QED
    BY <1>2, <2>1 DEF OnlyChanges, Whole
<1> QED
  BY <1>1, <1>2

\* A packet adds a switch or none; the history keeps pace.
OneMoreSwitch == \E e, f : /\ SwitchesOf(obs') = Append(SwitchesOf(obs), e)
                           /\ before' = Append(before, f)
NoSwitch == SwitchesOf(obs') = SwitchesOf(obs) /\ before' = before

LEMMA RtpEffect ==
  ASSUME Whole(obs), NEW p, NEW again, RecvRtp(p, again)
  PROVE  /\ OnlyChanges(obs, obs', RtpFields)
         /\ obs'.ptt_audio_ssrcs
              = obs.ptt_audio_ssrcs \cup (IF IsAudio(p.ssrc) THEN {p.ssrc} ELSE {})
         /\ obs'.ptt_video_ssrcs
              = obs.ptt_video_ssrcs \cup (IF IsAudio(p.ssrc) THEN {} ELSE {p.ssrc})
         /\ obs'.ptt_ts_gap_records
              = obs.ptt_ts_gap_records \cup (IF AfterGap(p) THEN {GapOf(p)} ELSE {})
         /\ OneMoreSwitch \/ NoSwitch
<1> DEFINE n == RecordSsrc(obs, p)
           o == RecordTsGap(n, p)
<1>1. /\ OnlyChanges(obs, n, {"ptt_audio_ssrcs", "ptt_video_ssrcs"})
      /\ n.ptt_audio_ssrcs = obs.ptt_audio_ssrcs \cup (IF IsAudio(p.ssrc) THEN {p.ssrc} ELSE {})
      /\ n.ptt_video_ssrcs = obs.ptt_video_ssrcs \cup (IF IsAudio(p.ssrc) THEN {} ELSE {p.ssrc})
  BY RecordSsrcEffect
<1>2. Whole(n)
  BY <1>1 DEF OnlyChanges
<1>3. /\ OnlyChanges(n, o, {"ptt_ts_gap_records"})
      /\ o.ptt_ts_gap_records
           = n.ptt_ts_gap_records \cup (IF AfterGap(p) THEN {GapOf(p)} ELSE {})
  BY <1>2, RecordTsGapEffect
<1>4. RecordSwitch(o, p)
  BY DEF RecvRtp
<1> HIDE DEF n, o
<1>5. \/ obs' = o /\ before' = before
      \/ \E e, f : /\ obs' = [o EXCEPT !.simulcast_layer_switches = Append(@, e)]
                   /\ before' = Append(before, f)
  BY <1>4 DEF RecordSwitch
<1>6. \A f \in DOMAIN NoObservations \ {"simulcast_layer_switches"} : obs'[f] = o[f]
  BY <1>3, <1>5 DEF OnlyChanges, Whole, NoObservations
<1>7. Whole(obs')
  BY <1>3, <1>5 DEF OnlyChanges, Whole
<1>8. OnlyChanges(obs, obs', RtpFields)
  BY <1>1, <1>3, <1>6, <1>7 DEF OnlyChanges, RtpFields
<1>9. /\ obs'.ptt_audio_ssrcs = n.ptt_audio_ssrcs /\ obs'.ptt_video_ssrcs = n.ptt_video_ssrcs
      /\ obs'.ptt_ts_gap_records = o.ptt_ts_gap_records
      /\ n.ptt_ts_gap_records = obs.ptt_ts_gap_records
      /\ o.simulcast_layer_switches = obs.simulcast_layer_switches
  BY <1>1, <1>3, <1>6 DEF OnlyChanges, NoObservations
<1>10. OneMoreSwitch \/ NoSwitch
  <2>1. CASE obs' = o /\ before' = before
    BY <2>1, <1>9 DEF NoSwitch, SwitchesOf
  <2>2. ASSUME NEW e, NEW f, obs' = [o EXCEPT !.simulcast_layer_switches = Append(@, e)],
               before' = Append(before, f)
        PROVE  OneMoreSwitch
    <3>1. obs'.simulcast_layer_switches = Append(o.simulcast_layer_switches, e)
      BY <1>3, <2>2 DEF OnlyChanges, Whole, NoObservations
    <3> QED
      BY <1>9, <2>2, <3>1 DEF OneMoreSwitch, SwitchesOf
  <2> QED
    BY <1>5, <2>1, <2>2
<1> QED
  BY <1>1, <1>3, <1>8, <1>9, <1>10

LEMMA SrEffect ==
  ASSUME Whole(obs), NEW r, NEW again, RecvSr(r, again)
  PROVE  /\ OnlyChanges(obs, obs', {"sr_received"})
         /\ obs'.sr_received = Append(obs.sr_received, SrOf(r))
<1> DEFINE sr == SrOf(r)
<1>1. obs' = [obs EXCEPT !.sr_received = Append(@, sr)]
  BY DEF RecvSr, RecordSr, SrOf
<1> HIDE DEF sr
<1>2. OnlyChanges(obs, obs', {"sr_received"}) /\ obs'.sr_received = Append(obs.sr_received, sr)
  BY <1>1 DEF OnlyChanges, Whole, NoObservations
<1> QED
  BY <1>2 DEF sr

RtcpFields == {"rr_sender_ssrcs", "rr_received_count", "pli_received_count"}
RrOf(blocks) == {"rr_sfu", "rr_peer"} \cap blocks

LEMMA BlockEffect ==
  ASSUME NEW o, Whole(o), NEW block, o.rr_received_count \in Nat, o.pli_received_count \in Nat
  PROVE  LET q == RecordBlock(o, block) IN
         /\ OnlyChanges(o, q, RtcpFields)
         /\ q.rr_sender_ssrcs = o.rr_sender_ssrcs \cup RrOf({block})
         /\ q.rr_received_count \in Nat /\ q.pli_received_count \in Nat
         /\ o.rr_received_count <= q.rr_received_count
         /\ RrOf({block}) # {} => q.rr_received_count > 0
<1>1. CASE block \in {"rr_sfu", "rr_peer"}
  <2>1. RecordBlock(o, block)
          = [o EXCEPT !.rr_sender_ssrcs = @ \cup {block}, !.rr_received_count = @ + 1]
    BY <1>1 DEF RecordBlock
  <2>2. RrOf({block}) = {block}
    BY <1>1 DEF RrOf
  <2> DEFINE q == RecordBlock(o, block)
  <2>3. OnlyChanges(o, q, RtcpFields)
    BY <2>1 DEF OnlyChanges, Whole, NoObservations, RtcpFields
  <2>4. /\ q.rr_sender_ssrcs = o.rr_sender_ssrcs \cup {block}
        /\ q.rr_received_count = o.rr_received_count + 1
        /\ q.pli_received_count = o.pli_received_count
    BY <2>1 DEF Whole, NoObservations
  <2> HIDE DEF q
  <2>5. /\ q.rr_received_count \in Nat /\ q.pli_received_count \in Nat
        /\ o.rr_received_count <= q.rr_received_count /\ q.rr_received_count > 0
    BY <2>4
  <2>6. q.rr_sender_ssrcs = o.rr_sender_ssrcs \cup RrOf({block})
    BY <2>2, <2>4
  <2> QED
    BY <2>3, <2>5, <2>6 DEF q
<1>2. CASE block \notin {"rr_sfu", "rr_peer"}
  <2>1. \/ RecordBlock(o, block) = o
        \/ RecordBlock(o, block) = [o EXCEPT !.pli_received_count = @ + 1]
    BY <1>2 DEF RecordBlock
  <2>2. RrOf({block}) = {}
    BY <1>2 DEF RrOf
  <2> QED
    BY <2>1, <2>2 DEF OnlyChanges, Whole, NoObservations, RtcpFields
<1> QED
  BY <1>1, <1>2

LEMMA CompoundEffect ==
  ASSUME Whole(obs), RrInv, NEW first, NEW second, RecvCompound(first, second)
  PROVE  /\ OnlyChanges(obs, obs', RtcpFields)
         /\ obs'.rr_sender_ssrcs = obs.rr_sender_ssrcs \cup RrOf({first, second})
         /\ obs'.rr_received_count \in Nat /\ obs'.pli_received_count \in Nat
         /\ obs.rr_received_count <= obs'.rr_received_count
         /\ RrOf({first, second}) # {} => obs'.rr_received_count > 0
<1> DEFINE o == RecordBlock(obs, first)
<1>1. obs' = RecordBlock(o, second)
  BY DEF RecvCompound
<1>2. /\ OnlyChanges(obs, o, RtcpFields)
      /\ o.rr_sender_ssrcs = obs.rr_sender_ssrcs \cup RrOf({first})
      /\ o.rr_received_count \in Nat /\ o.pli_received_count \in Nat
      /\ obs.rr_received_count <= o.rr_received_count
      /\ RrOf({first}) # {} => o.rr_received_count > 0
  BY BlockEffect DEF RrInv
<1> HIDE DEF o
<1>3. Whole(o) /\ obs.rr_received_count \in Nat
  BY <1>2 DEF OnlyChanges, RrInv
<1>4. /\ OnlyChanges(o, obs', RtcpFields)
      /\ obs'.rr_sender_ssrcs = o.rr_sender_ssrcs \cup RrOf({second})
      /\ obs'.rr_received_count \in Nat /\ obs'.pli_received_count \in Nat
      /\ o.rr_received_count <= obs'.rr_received_count
      /\ RrOf({second}) # {} => obs'.rr_received_count > 0
  BY <1>1, <1>2, <1>3, BlockEffect
<1>5. OnlyChanges(obs, obs', RtcpFields)
  BY <1>2, <1>4 DEF OnlyChanges
<1>6. RrOf({first, second}) = RrOf({first}) \cup RrOf({second})
  BY DEF RrOf
<1>7. obs'.rr_sender_ssrcs = obs.rr_sender_ssrcs \cup RrOf({first, second})
  BY <1>2, <1>4, <1>6
<1>8. /\ obs.rr_received_count <= obs'.rr_received_count
      /\ o.rr_received_count > 0 => obs'.rr_received_count > 0
  BY <1>2, <1>3, <1>4
<1>9. RrOf({first, second}) # {} => obs'.rr_received_count > 0
  BY <1>2, <1>4, <1>6, <1>8
<1> QED
  BY <1>4, <1>5, <1>7, <1>8, <1>9

-----------------------------------------------------------------------------
(***************************************************************************)
(* The SFU and the network.                                                *)
(***************************************************************************)
LEMMA LimitTypes ==
  ASSUME limits \in Limits
  PROVE  /\ limits.sent \in [Ssrcs -> Nat] /\ limits.time \in Nat /\ limits.mishaps \in Nat
         /\ limits.rtcp \in Nat /\ limits.requests \in Nat /\ limits.clock \subseteq Nat
         /\ Shown(limits) \subseteq Nat
BY ObserveAssumption DEF Shown

LEMMA SfuStart == Init => SfuInv
<1> SUFFICES ASSUME Init PROVE SfuInv
  OBVIOUS
<1>1. limits \in Limits
  BY DEF Init
<1> QED
  BY <1>1, LimitTypes DEF Init, SfuInv, Kinds, SrKinds, Total

LEMMA RelayStep ==
  ASSUME SfuInv, NEW s \in Ssrcs, NEW key \in BOOLEAN, NEW frozen \in BOOLEAN,
         Relay(s, key, frozen)
  PROVE  SfuInv'
<1> DEFINE t == IF frozen THEN stamp[s] + 1 ELSE now
           p == [ssrc |-> s, ix |-> sent[s], ts |-> TsAt(s, t), key |-> key,
                 frozen |-> frozen /\ t # now, at |-> now]
<1>1. /\ sent[s] < limits.sent[s] /\ stamp[s] < now /\ (frozen => stamp[s] >= 0)
      /\ stamp' = [stamp EXCEPT ![s] = t]
      /\ flight' = flight \cup {p}
      /\ sent' = [sent EXCEPT ![s] = @ + 1]
      /\ UNCHANGED <<limits, now, mode, faults, mishaps, rtcp, requests>>
  BY DEF Relay
<1>2. /\ now \in Nat /\ stamp[s] \in Int /\ sent[s] \in Nat /\ limits.sent[s] \in Nat
      /\ Delay \in Nat
  BY LimitTypes, TsModPositive DEF SfuInv
<1>3. t \in Nat /\ t <= now
  BY <1>1, <1>2
<1>4. TsAt(s, t) \in Nat
  BY <1>3, ClockRuns, TsModPositive
<1>5. /\ p \in Packets /\ p.ssrc = s /\ p.ix = sent[s] /\ p.at = now
      /\ ~p.frozen => p.ts = TsAt(s, now)
  BY <1>2, <1>4 DEF Packets
<1> HIDE DEF t, p
<1>6. sent' \in [Ssrcs -> Nat] /\ \A u \in Ssrcs : sent'[u] <= limits.sent[u] /\ sent[u] <= sent'[u]
  BY <1>1, <1>2 DEF SfuInv
<1>7. stamp' \in [Ssrcs -> Int] /\ \A u \in Ssrcs : -1 <= stamp'[u] /\ stamp'[u] <= now
  BY <1>1, <1>2, <1>3 DEF SfuInv
<1>8. ASSUME NEW q \in flight'
      PROVE  /\ q \in Packets /\ q.ix < sent'[q.ssrc]
             /\ q.at <= now /\ now <= q.at + Delay
             /\ ~q.frozen => q.ts = TsAt(q.ssrc, q.at)
  <2>1. CASE q = p
    <3>1. sent'[s] = sent[s] + 1
      BY <1>1 DEF SfuInv
    <3> QED
      BY <1>2, <1>5, <2>1, <3>1
  <2>2. CASE q \in flight
    <3>1. /\ q \in Packets /\ q.ix < sent[q.ssrc]
          /\ q.at <= now /\ now <= q.at + Delay
          /\ ~q.frozen => q.ts = TsAt(q.ssrc, q.at)
      BY <2>2 DEF SfuInv
    <3>2. q.ssrc \in Ssrcs /\ q.ix \in Nat
      BY <3>1 DEF Packets
    <3>3. sent[q.ssrc] \in Nat /\ sent'[q.ssrc] \in Nat /\ sent[q.ssrc] <= sent'[q.ssrc]
      BY <1>6, <3>2 DEF SfuInv
    <3> QED
      BY <3>1, <3>2, <3>3
  <2> QED
    BY <1>1, <2>1, <2>2
<1>9. \A u \in Nat, v \in Ssrcs : TsAt(v, u)' = TsAt(v, u)
  BY DEF TsAt
<1> QED
  BY <1>1, <1>6, <1>7, <1>8, <1>9 DEF SfuInv

\* What befalls a packet is counted.
LEMMA MishapsCount ==
  ASSUME SfuInv, NEW kinds, Mishaps(kinds)
  PROVE  /\ mishaps' \in [Kinds -> Nat]
         /\ Total(mishaps') <= limits.mishaps
         /\ \A kind \in Kinds :
              /\ mishaps[kind] \in Nat
              /\ mishaps'[kind] = IF kind \in kinds THEN mishaps[kind] + 1 ELSE mishaps[kind]
BY DEF SfuInv, Mishaps

LEMMA SfuStep ==
  ASSUME SfuInv, [Next]_vars
  PROVE  SfuInv'
<1>1. CASE UNCHANGED vars
  BY <1>1 DEF SfuInv, vars, sfuVars, TsAt
<1>2. ASSUME NEW s \in Ssrcs, NEW key \in BOOLEAN, NEW frozen \in BOOLEAN,
             Relay(s, key, frozen)
      PROVE  SfuInv'
  BY <1>2, RelayStep
<1>3. ASSUME NEW p \in flight, Lose(p)
      PROVE  SfuInv'
  <2>1. Mishaps({"loss"})
    BY <1>3 DEF Lose
  <2> QED
    BY <1>3, <2>1, MishapsCount DEF Lose, SfuInv, TsAt
<1>4. ASSUME NEW p \in flight, NEW again \in BOOLEAN, RecvRtp(p, again)
      PROVE  SfuInv'
  <2>1. \E kinds : Mishaps(kinds)
    BY <1>4 DEF RecvRtp
  <2>2. mishaps' \in [Kinds -> Nat] /\ Total(mishaps') <= limits.mishaps
    BY <2>1, MishapsCount
  <2>3. /\ UNCHANGED <<limits, now, mode, sent, stamp, rtcp, requests>>
        /\ flight' \subseteq flight
        /\ faults' \subseteq faults \cup {"raw_ssrc", "ts_frozen"}
    BY <1>4 DEF RecvRtp
  <2> QED
    BY <2>2, <2>3 DEF SfuInv, TsAt
<1>5. ASSUME NEW r, NEW again, RecvSr(r, again)
      PROVE  SfuInv'
  <2>1. \E kinds : Mishaps(kinds)
    BY <1>5 DEF RecvSr
  <2>2. mishaps' \in [Kinds -> Nat] /\ Total(mishaps') <= limits.mishaps
    BY <2>1, MishapsCount
  <2>3. faults' \subseteq faults \cup {"sr_rewritten"}
    BY <1>5 DEF RecvSr
  <2> QED
    BY <1>5, <2>2, <2>3, SrArrivesAlone DEF SfuInv, TsAt
<1>6. ASSUME UNCHANGED <<limits, now, mode, sent, stamp, flight, mishaps, requests>>,
             rtcp < limits.rtcp, rtcp' = rtcp + 1, faults' \subseteq faults \cup {"rr_relayed"}
      PROVE  SfuInv'
  <2>1. rtcp' \in Nat /\ rtcp' <= limits.rtcp
    BY <1>6, LimitTypes DEF SfuInv
  <2> QED
    BY <1>6, <2>1 DEF SfuInv, TsAt
<1>7. ASSUME NEW first, NEW second, RecvCompound(first, second)
      PROVE  SfuInv'
  BY <1>6, <1>7 DEF RecvCompound, sfuVars
<1>10. ASSUME NEW s, NEW ntp, NEW time, RelaySr(s, ntp, time)
       PROVE  SfuInv'
  BY <1>6, <1>10 DEF RelaySr
<1>11. ASSUME NEW r, LoseSr(r)
       PROVE  SfuInv'
  <2>1. Mishaps({"sr_loss"})
    BY <1>11 DEF LoseSr
  <2> QED
    BY <1>11, <2>1, MishapsCount DEF LoseSr, SfuInv, TsAt
<1>8. ASSUME NEW layer, subscribe_layer(layer)
      PROVE  SfuInv'
  <2>1. requests' = requests + 1 /\ requests < limits.requests /\ limits.requests \in Nat
    BY <1>8, LimitTypes DEF subscribe_layer, SfuInv
  <2>2. requests' \in Nat /\ requests' <= limits.requests
    BY <2>1 DEF SfuInv
  <2> QED
    BY <1>8, <2>2 DEF subscribe_layer, sfuVars, SfuInv, TsAt
<1>9. CASE Advance
  <2>1. /\ now < limits.time /\ limits.time \in Nat /\ now \in Nat
        /\ \A p \in flight : now < p.at + Delay
        /\ now' = now + 1
        /\ UNCHANGED <<limits, mode, sent, stamp, flight, faults, mishaps, rtcp, requests>>
    BY <1>9, LimitTypes DEF Advance, SfuInv
  <2>2. now' \in Nat /\ now' <= limits.time
    BY <2>1
  <2>3. \A s \in Ssrcs : stamp[s] <= now'
    BY <2>1 DEF SfuInv
  <2>4. ASSUME NEW p \in flight
        PROVE  p.at <= now' /\ now' <= p.at + Delay
    <3>1. p.at \in Nat /\ p.at <= now /\ now < p.at + Delay /\ Delay \in Nat
      BY <2>1, TsModPositive DEF SfuInv, Packets
    <3> QED
      BY <2>1, <3>1
  <2> QED
    BY <2>1, <2>2, <2>3, <2>4 DEF SfuInv, TsAt
<1> QED
  BY <1>1, <1>2, <1>3, <1>4, <1>5, <1>7, <1>8, <1>9, <1>10, <1>11, ZenonT(60) DEF Next, vars

-----------------------------------------------------------------------------
(***************************************************************************)
(* The steps in which no RTP packet arrives, as one.                       *)
(***************************************************************************)
Otherwise == UNCHANGED <<ssrc_last, metricsVars>>

LEMMA StepKinds ==
  ASSUME [Next]_vars
  PROVE  Otherwise \/ \E p \in flight, again \in BOOLEAN : RecvRtp(p, again)
<1>1. CASE UNCHANGED vars
  BY <1>1 DEF vars, loopVars, Otherwise
<1>2. ASSUME NEW s, NEW key, NEW frozen, Relay(s, key, frozen) PROVE Otherwise
  BY <1>2 DEF Relay, loopVars, Otherwise
<1>3. ASSUME NEW p, Lose(p) PROVE Otherwise
  BY <1>3 DEF Lose, loopVars, Otherwise
<1>4. ASSUME NEW r, NEW again, RecvSr(r, again) PROVE Otherwise
  BY <1>4, SrArrivesAlone DEF Otherwise
<1>5. ASSUME NEW first, NEW second, RecvCompound(first, second) PROVE Otherwise
  BY <1>5 DEF RecvCompound, Otherwise
<1>6. ASSUME NEW layer, subscribe_layer(layer) PROVE Otherwise
  BY <1>6 DEF subscribe_layer, Otherwise
<1>7. CASE Advance
  BY <1>7 DEF Advance, loopVars, Otherwise
<1>8. ASSUME SrMoves PROVE Otherwise
  BY <1>8, SrsMove DEF Otherwise
<1> QED
  BY <1>1, <1>2, <1>3, <1>4, <1>5, <1>6, <1>7, <1>8, ZenonT(60) DEF Next, vars, SrMoves

\* The clock does not run backwards; the rest of the setting stays.
LEMMA Setting ==
  ASSUME [Next]_vars
  PROVE  limits' = limits /\ mode' = mode /\ (now' = now \/ Advance)
<1> DEFINE Stays == limits' = limits /\ mode' = mode /\ now' = now
<1>1. ASSUME NEW p, NEW again, RecvRtp(p, again) PROVE Stays
  BY <1>1 DEF RecvRtp
<1>2. ASSUME NEW s, NEW key, NEW frozen, Relay(s, key, frozen) PROVE Stays
  BY <1>2 DEF Relay
<1>3. ASSUME NEW p, Lose(p) PROVE Stays
  BY <1>3 DEF Lose
<1>4. ASSUME NEW r, NEW again, RecvSr(r, again) PROVE Stays
  BY <1>4, SrArrivesAlone
<1>5. ASSUME SrMoves PROVE Stays
  BY <1>5, SrsMove
<1>6. ASSUME NEW first, NEW second, RecvCompound(first, second) PROVE Stays
  BY <1>6 DEF RecvCompound, sfuVars
<1>7. ASSUME NEW layer, subscribe_layer(layer) PROVE Stays
  BY <1>7 DEF subscribe_layer, sfuVars
<1>8. CASE UNCHANGED vars
  BY <1>8 DEF vars, sfuVars
<1>9. CASE Advance
  BY <1>9 DEF Advance
<1>10. ASSUME Next, ~Advance PROVE Stays
  BY <1>1, <1>2, <1>3, <1>4, <1>5, <1>6, <1>7, <1>10, ZenonT(60) DEF Next, SrMoves
<1> QED
  BY <1>8, <1>9, <1>10 DEF Stays

LEMMA TimePasses ==
  ASSUME SfuInv, [Next]_vars
  PROVE  now \in Nat /\ now' \in Nat /\ now <= now'
<1>1. now \in Nat
  BY DEF SfuInv
<1>2. now' = now \/ now' = now + 1
  BY Setting DEF Advance
<1> QED
  BY <1>1, <1>2

\* The steps that record something, and the others.
SrArrives == \E r \in reports, again \in BOOLEAN : RecvSr(r, again)
CompoundArrives == \E first, second : RecvCompound(first, second)
RtpArrives == \E p \in flight, again \in BOOLEAN : RecvRtp(p, again)

LEMMA RecordKinds ==
  ASSUME [Next]_vars
  PROVE  UNCHANGED <<obs, faults, arrived, metricsVars>> \/ SrArrives \/ CompoundArrives \/ RtpArrives
<1>1. CASE UNCHANGED vars
  BY <1>1 DEF vars, loopVars
<1>2. ASSUME NEW s, NEW key, NEW frozen, Relay(s, key, frozen)
      PROVE  UNCHANGED <<obs, faults, arrived, metricsVars>>
  BY <1>2 DEF Relay, loopVars
<1>3. ASSUME NEW p, Lose(p) PROVE UNCHANGED <<obs, faults, arrived, metricsVars>>
  BY <1>3 DEF Lose, loopVars
<1>4. ASSUME NEW layer, subscribe_layer(layer) PROVE UNCHANGED <<obs, faults, arrived, metricsVars>>
  BY <1>4 DEF subscribe_layer
<1>5. CASE Advance
  BY <1>5 DEF Advance, loopVars
<1>6. ASSUME SrMoves PROVE UNCHANGED <<obs, faults, arrived, metricsVars>>
  BY <1>6, SrsMove
<1> QED
  BY <1>1, <1>2, <1>3, <1>4, <1>5, <1>6, Zenon
  DEF Next, vars, SrArrives, CompoundArrives, RtpArrives, SrMoves

\* A packet makes its stream known and leaves the other streams alone.
LEMMA PacketArrives ==
  ASSUME MetricsInv, FlightInv, NEW p \in flight, NEW again, RecvRtp(p, again)
  PROVE  /\ p.ssrc \in Ssrcs /\ p.ix \in Nat /\ MetricsInv'
         /\ Known' = Known \cup {p.ssrc}
         /\ metrics' = [metrics EXCEPT ![p.ssrc] = StoreUpdated(metrics[p.ssrc], SeqOf(p.ix))]
         /\ stream' = [stream EXCEPT ![p.ssrc] = Arrived(stream[p.ssrc], p.ix)]
<1>1. p.ssrc \in Ssrcs /\ p.ix \in Nat
  BY DEF FlightInv
<1>2. Update(p.ssrc, p.ix)
  BY DEF RecvRtp
<1>3. MetricsInv'
  BY <1>1, <1>2, UpdateKeeps
<1>4. /\ metrics' = [metrics EXCEPT ![p.ssrc] = StoreUpdated(metrics[p.ssrc], SeqOf(p.ix))]
      /\ stream' = [stream EXCEPT ![p.ssrc] = Arrived(stream[p.ssrc], p.ix)]
  BY <1>2 DEF Update
<1>5. StoreUpdated(metrics[p.ssrc], SeqOf(p.ix)) # NoStream
  <2>1. CASE metrics[p.ssrc] = NoStream
    BY <1>1, <2>1, FirstPacketBegins DEF StoreUpdated
  <2>2. CASE metrics[p.ssrc] # NoStream
    <3>1. StreamInv(metrics[p.ssrc], stream[p.ssrc])
      BY <1>1, <2>2 DEF MetricsInv
    <3>2. /\ stream[p.ssrc].last - Reorder <= p.ix /\ p.ix <= stream[p.ssrc].last + 1 + Gap
      BY <1>2, <2>2 DEF Update, Deliverable
    <3>3. StreamInv(Updated(metrics[p.ssrc], SeqOf(p.ix)), Arrived(stream[p.ssrc], p.ix))
      BY <1>1, <3>1, <3>2, PacketKeepsStream
    <3> QED
      BY <2>2, <3>3 DEF StoreUpdated, StreamInv, CountType, NoStream
  <2> QED
    BY <2>1, <2>2
<1>6. Known' = Known \cup {p.ssrc}
  BY <1>1, <1>4, <1>5 DEF Known, MetricsInv
<1> QED
  BY <1>1, <1>3, <1>4, <1>6

-----------------------------------------------------------------------------
(***************************************************************************)
(* Sequence numbers stay below 2^16 (update()).                            *)
(***************************************************************************)
LEMMA SeqRange ==
  ASSUME NEW ix \in Nat
  PROVE  SeqOf(ix) \in SeqNumbers
<1>1. FirstSeq + ix \in Nat
  BY Bounds
<1> QED
  BY <1>1 DEF SeqOf, SeqNumbers

LEMMA UpdatedSequences ==
  ASSUME NEW m, CountType(m), NEW seq
  PROVE  LET u == Updated(m, seq) IN
         /\ u.first_seq = m.first_seq /\ u.last_seq = seq
         /\ u.max_seq_seen \in {m.max_seq_seen, seq}
<1> DEFINE diff == Signed(seq - (m.last_seq + 1))
           lost == IF diff > 0 THEN m.lost + diff ELSE m.lost
           ooo == IF diff < -1 THEN m.out_of_order + 1 ELSE m.out_of_order
           top == Forward(m.max_seq_seen, seq)
<1>1. Updated(m, seq) = [m EXCEPT !.received = m.received + 1, !.lost = lost,
                                  !.out_of_order = ooo, !.max_seq_seen = top,
                                  !.last_seq = seq]
  BY DEF Updated
<1>2. top \in {m.max_seq_seen, seq}
  BY DEF Forward
<1> HIDE DEF diff, lost, ooo, top
<1> QED
  BY <1>1, <1>2 DEF CountType

LEMMA SeqStep ==
  ASSUME MetricsInv, FlightInv, SeqInv, [Next]_vars
  PROVE  SeqInv'
<1>1. CASE Otherwise
  BY <1>1 DEF Otherwise, metricsVars, SeqInv, Known, Sequences
<1>2. ASSUME NEW p \in flight, NEW again \in BOOLEAN, RecvRtp(p, again)
      PROVE  SeqInv'
  <2>1. /\ p.ssrc \in Ssrcs /\ p.ix \in Nat /\ Known' = Known \cup {p.ssrc}
        /\ metrics' = [metrics EXCEPT ![p.ssrc] = StoreUpdated(metrics[p.ssrc], SeqOf(p.ix))]
    BY <1>2, PacketArrives
  <2> DEFINE m == metrics[p.ssrc]
             u == StoreUpdated(m, SeqOf(p.ix))
  <2>2. SeqOf(p.ix) \in SeqNumbers
    BY <2>1, SeqRange
  <2>3. Sequences(u)
    <3>1. CASE m = NoStream
      BY <2>2, <3>1 DEF StoreUpdated, FirstPacket, Sequences
    <3>2. CASE m # NoStream
      <4>1. CountType(m)
        BY <2>1, <3>2 DEF MetricsInv, StreamInv
      <4>2. Sequences(m)
        BY <2>1, <3>2 DEF SeqInv, Known
      <4>3. u = Updated(m, SeqOf(p.ix))
        BY <3>2 DEF StoreUpdated
      <4> QED
        BY <2>2, <4>1, <4>2, <4>3, UpdatedSequences DEF Sequences
    <3> QED
      BY <3>1, <3>2
  <2>4. ASSUME NEW s \in Known'
        PROVE  Sequences(metrics'[s])
    <3>1. CASE s = p.ssrc
      <4>1. metrics'[s] = u
        BY <2>1, <3>1 DEF MetricsInv
      <4> QED
        BY <2>3, <4>1
    <3>2. CASE s # p.ssrc
      <4>1. s \in Known /\ metrics'[s] = metrics[s]
        BY <2>1, <3>2 DEF MetricsInv, Known
      <4> QED
        BY <4>1 DEF SeqInv
    <3> QED
      BY <3>1, <3>2
  <2> QED
    BY <2>4 DEF SeqInv, Sequences
<1> QED
  BY <1>1, <1>2, StepKinds

LEMMA MetricsTyped ==
  ASSUME MetricsInv, SeqInv
  PROVE  MetricsTypeOK
<1> DEFINE Counts == [received : Nat, lost : Nat, out_of_order : Nat, first_seq : SeqNumbers,
                      last_seq : SeqNumbers, max_seq_seen : SeqNumbers]
<1>1. ASSUME NEW s \in Ssrcs
      PROVE  /\ metrics[s] \in {NoStream} \cup Counts
             /\ stream[s] \in [first : Nat, last : Nat, top : Nat, got : SUBSET Nat]
  <2>1. CASE metrics[s] = NoStream
    BY <2>1 DEF MetricsInv, Nothing
  <2>2. CASE metrics[s] # NoStream
    <3>1. StreamType(stream[s]) /\ CountType(metrics[s])
      BY <2>2 DEF MetricsInv, StreamInv
    <3>2. Sequences(metrics[s])
      BY <2>2 DEF SeqInv, Known
    <3> QED
      BY <3>1, <3>2 DEF StreamType, CountType, Sequences
  <2> QED
    BY <2>1, <2>2
<1>2. /\ metrics \in [Ssrcs -> {NoStream} \cup Counts]
      /\ stream \in [Ssrcs -> [first : Nat, last : Nat, top : Nat, got : SUBSET Nat]]
  BY <1>1 DEF MetricsInv
<1> QED
  BY <1>2 DEF MetricsTypeOK

(***************************************************************************)
(* What is remembered of a stream's last packet.                           *)
(***************************************************************************)
LEMMA LastStep ==
  ASSUME MetricsInv, FlightInv, SfuInv, LastInv, [Next]_vars
  PROVE  LastInv'
<1>0. now \in Nat /\ now' \in Nat /\ now <= now'
  BY TimePasses
<1>1. CASE Otherwise
  <2>1. ssrc_last' = ssrc_last /\ Known' = Known
    BY <1>1 DEF Otherwise, metricsVars, Known
  <2>2. ASSUME NEW s \in Ssrcs PROVE ssrc_last'[s].time <= now'
    <3>1. ssrc_last[s].time \in Nat /\ ssrc_last[s].time <= now
      BY DEF LastInv
    <3> QED
      BY <1>0, <2>1, <3>1
  <2> QED
    BY <2>1, <2>2 DEF LastInv, NotSeen
<1>2. ASSUME NEW p \in flight, NEW again \in BOOLEAN, RecvRtp(p, again)
      PROVE  LastInv'
  <2>1. p.ssrc \in Ssrcs /\ Known' = Known \cup {p.ssrc}
    BY <1>2, PacketArrives
  <2>2. ssrc_last' = [ssrc_last EXCEPT ![p.ssrc] = [time |-> now, ts |-> p.ts]] /\ now' = now
    BY <1>2 DEF RecvRtp
  <2>3. p.ts \in Nat
    BY DEF SfuInv, Packets
  <2>4. [time |-> now, ts |-> p.ts] # NotSeen
    BY <2>3 DEF NotSeen
  <2>5. ASSUME NEW s \in Ssrcs
        PROVE  (ssrc_last'[s] = NotSeen <=> s \notin Known') /\ ssrc_last'[s].time <= now'
    <3>1. CASE s = p.ssrc
      BY <1>0, <2>1, <2>2, <2>4, <3>1 DEF LastInv
    <3>2. CASE s # p.ssrc
      BY <2>1, <2>2, <3>2 DEF LastInv
    <3> QED
      BY <3>1, <3>2
  <2>6. ssrc_last' \in [Ssrcs -> [time : Nat, ts : Int]]
    BY <1>0, <2>1, <2>2, <2>3 DEF LastInv
  <2> QED
    BY <2>5, <2>6 DEF LastInv, NotSeen
<1> QED
  BY <1>1, <1>2, StepKinds

\* The history of the switches keeps pace with them.
LEMMA PendingStep ==
  ASSUME SwitchInv, PendingInv, [Next]_vars
  PROVE  PendingInv'
<1>u. ASSUME SwitchesOf(obs') = SwitchesOf(obs), before' = before,
             pending' \in {pending, "none", "h", "pause"}
      PROVE  PendingInv'
  BY <1>u DEF PendingInv, SwitchesOf, IsSequence
<1>1. CASE UNCHANGED <<obs, pending, before>>
  BY <1>u, <1>1
<1>2. ASSUME NEW p, NEW again, RecvRtp(p, again) PROVE PendingInv'
  <2>1. pending' \in {pending, "none"}
    BY <1>2 DEF RecvRtp, PendingAfter
  <2>2. OneMoreSwitch \/ NoSwitch
    BY <1>2, RtpEffect DEF SwitchInv
  <2>3. CASE NoSwitch
    BY <1>u, <2>1, <2>3 DEF NoSwitch
  <2>4. CASE OneMoreSwitch
    <3>1. PICK e, f : /\ SwitchesOf(obs') = Append(SwitchesOf(obs), e)
                      /\ before' = Append(before, f)
      BY <2>4 DEF OneMoreSwitch
    <3>2. Len(SwitchesOf(obs')) = Len(SwitchesOf(obs)) + 1
      BY <3>1, AppendOne DEF SwitchInv
    <3>3. IsSequence(before') /\ Len(before') = Len(before) + 1
      BY <3>1, AppendOne DEF PendingInv
    <3> QED
      BY <2>1, <3>2, <3>3 DEF PendingInv, SwitchesOf, IsSequence
  <2> QED
    BY <2>2, <2>3, <2>4
<1>3. ASSUME NEW r, NEW again, RecvSr(r, again) PROVE PendingInv'
  <2>1. OnlyChanges(obs, obs', {"sr_received"})
    BY <1>3, SrEffect DEF SwitchInv
  <2>2. SwitchesOf(obs') = SwitchesOf(obs)
    BY <2>1 DEF OnlyChanges, NoObservations, SwitchesOf
  <2>3. before' = before /\ pending' = pending
    BY <1>3, SrArrivesAlone
  <2> QED
    BY <1>u, <2>2, <2>3
<1>4. ASSUME NEW first, NEW second, RecvCompound(first, second) PROVE PendingInv'
  <2>1. obs' = RecordBlock(RecordBlock(obs, first), second)
    BY <1>4 DEF RecvCompound
  <2>2. SwitchesOf(obs') = SwitchesOf(obs)
    BY <2>1, OtherFields DEF SwitchInv
  <2>3. before' = before /\ pending' = pending
    BY <1>4 DEF RecvCompound
  <2> QED
    BY <1>u, <2>2, <2>3
<1>5. ASSUME NEW layer \in {"h", "pause"}, subscribe_layer(layer) PROVE PendingInv'
  <2>1. obs' = obs /\ before' = before /\ pending' = layer
    BY <1>5 DEF subscribe_layer
  <2> QED
    BY <1>u, <2>1 DEF SwitchesOf
<1>6. ASSUME NEW s, NEW key, NEW frozen, Relay(s, key, frozen) PROVE PendingInv'
  BY <1>1, <1>6 DEF Relay, loopVars
<1>7. ASSUME NEW p, Lose(p) PROVE PendingInv'
  BY <1>1, <1>7 DEF Lose, loopVars
<1>8. CASE Advance \/ UNCHANGED vars
  BY <1>1, <1>8 DEF Advance, vars, loopVars
<1>9. ASSUME SrMoves PROVE PendingInv'
  BY <1>1, <1>9, SrsMove
<1> QED
  BY <1>2, <1>3, <1>4, <1>5, <1>6, <1>7, <1>8, <1>9, ZenonT(60) DEF Next, vars, SrMoves

-----------------------------------------------------------------------------
(***************************************************************************)
(* The records of RTCP packets.                                            *)
(***************************************************************************)
LEMMA Unchanging ==
  ASSUME NEW o, NEW q, NEW fields, OnlyChanges(o, q, fields),
         NEW f \in DOMAIN NoObservations, f \notin fields
  PROVE  q[f] = o[f]
BY DEF OnlyChanges

LEMMA RrStep ==
  ASSUME SwitchInv, RrInv, [Next]_vars
  PROVE  RrInv'
<1>u. ASSUME obs'.rr_received_count = obs.rr_received_count,
             obs'.pli_received_count = obs.pli_received_count,
             obs'.rr_sender_ssrcs = obs.rr_sender_ssrcs, faults \subseteq faults'
      PROVE  RrInv'
  BY <1>u DEF RrInv
<1>1. CASE UNCHANGED <<obs, faults, arrived, metricsVars>>
  BY <1>u, <1>1
<1>2. CASE SrArrives
  <2>1. PICK r, again : RecvSr(r, again)
    BY <1>2 DEF SrArrives
  <2>2. OnlyChanges(obs, obs', {"sr_received"})
    BY <2>1, SrEffect DEF SwitchInv
  <2>3. faults \subseteq faults'
    BY <2>1 DEF RecvSr
  <2> QED
    BY <1>u, <2>2, <2>3 DEF OnlyChanges, NoObservations
<1>3. CASE RtpArrives
  <2>1. PICK p, again : RecvRtp(p, again)
    BY <1>3 DEF RtpArrives
  <2>2. OnlyChanges(obs, obs', RtpFields)
    BY <2>1, RtpEffect DEF SwitchInv
  <2>3. faults \subseteq faults'
    BY <2>1 DEF RecvRtp
  <2> QED
    BY <1>u, <2>2, <2>3 DEF OnlyChanges, NoObservations, RtpFields
<1>4. CASE CompoundArrives
  <2>1. PICK first, second : RecvCompound(first, second)
    BY <1>4 DEF CompoundArrives
  <2>2. /\ obs'.rr_sender_ssrcs = obs.rr_sender_ssrcs \cup RrOf({first, second})
        /\ obs'.rr_received_count \in Nat /\ obs'.pli_received_count \in Nat
        /\ obs.rr_received_count <= obs'.rr_received_count
        /\ RrOf({first, second}) # {} => obs'.rr_received_count > 0
    BY <2>1, CompoundEffect DEF SwitchInv
  <2>3. faults' = IF "rr_peer" \in {first, second} THEN faults \cup {"rr_relayed"} ELSE faults
    BY <2>1 DEF RecvCompound
  <2>4. /\ obs'.rr_sender_ssrcs \subseteq {"rr_sfu", "rr_peer"}
        /\ "rr_peer" \in obs'.rr_sender_ssrcs => "rr_relayed" \in faults'
    BY <2>2, <2>3 DEF RrInv, RrOf
  <2>5. obs'.rr_sender_ssrcs # {} => obs'.rr_received_count > 0
    <3>1. CASE RrOf({first, second}) # {}
      BY <2>2, <3>1
    <3>2. CASE RrOf({first, second}) = {}
      <4>1. obs'.rr_sender_ssrcs = obs.rr_sender_ssrcs
        BY <2>2, <3>2
      <4>2. obs.rr_received_count \in Nat
        BY DEF RrInv
      <4> QED
        BY <2>2, <4>1, <4>2 DEF RrInv
    <3> QED
      BY <3>1, <3>2
  <2> QED
    BY <2>2, <2>4, <2>5 DEF RrInv
<1> QED
  BY <1>1, <1>2, <1>3, <1>4, RecordKinds

-----------------------------------------------------------------------------
(***************************************************************************)
(* Sender reports, under way and recorded.                                 *)
(***************************************************************************)
LEMMA RelaySrKeeps ==
  ASSUME SfuInv, ReportsInv, NEW s \in {Audio, Video}, NEW ntp \in {now} \cup limits.clock,
         NEW time \in {now} \cup limits.clock, RelaySr(s, ntp, time)
  PROVE  ReportsInv'
<1> DEFINE new == [ssrc |-> s, ntp |-> ntp, time |-> time, at |-> now]
<1>1. /\ reported[s] < now /\ reported' = [reported EXCEPT ![s] = now]
      /\ reports' = reports \cup {new}
      /\ limits' = limits /\ now' = now
  BY DEF RelaySr
<1>2. /\ now \in Nat /\ now <= limits.time /\ limits.time \in Nat /\ limits.clock \subseteq Nat
      /\ s \in Ssrcs /\ Delay \in Nat
  BY LimitTypes, TsModPositive, ObserveAssumption DEF SfuInv
<1>3. new \in Reports /\ new.time \in Shown(limits) /\ new.ssrc = s /\ new.at = now
  BY <1>2 DEF Reports, Shown
<1> HIDE DEF new
<1>4. /\ reported' \in [Ssrcs -> Int] /\ reported'[s] = now
      /\ \A u \in Ssrcs : -1 <= reported'[u] /\ reported'[u] <= now /\ reported[u] <= reported'[u]
  BY <1>1, <1>2 DEF ReportsInv
<1>5. ASSUME NEW r \in reports'
      PROVE  /\ r \in Reports /\ r.time \in Shown(limits)
             /\ r.at <= reported'[r.ssrc] /\ now <= r.at + Delay
  <2>1. CASE r = new
    BY <1>2, <1>3, <1>4, <2>1
  <2>2. CASE r \in reports
    <3>1. /\ r \in Reports /\ r.time \in Shown(limits) /\ r.ssrc \in Ssrcs /\ r.at \in Nat
          /\ r.at <= reported[r.ssrc] /\ now <= r.at + Delay
      BY <2>2 DEF ReportsInv, Reports
    <3>2. /\ reported[r.ssrc] \in Int /\ reported'[r.ssrc] \in Int
          /\ reported[r.ssrc] <= reported'[r.ssrc]
      BY <1>4, <3>1 DEF ReportsInv
    <3> QED
      BY <3>1, <3>2
  <2> QED
    BY <1>1, <2>1, <2>2
<1>6. ASSUME NEW r \in reports PROVE r.ssrc = s => r.at < now
  <2>1. r \in Reports /\ r.at <= reported[r.ssrc] /\ reported[s] \in Int
    BY <1>2 DEF ReportsInv
  <2> QED
    BY <1>1, <1>2, <2>1 DEF Reports
<1>7. \A q, r \in reports' : q.ssrc = r.ssrc /\ q.at = r.at => q = r
  BY <1>1, <1>2, <1>3, <1>6 DEF ReportsInv
<1> QED
  BY <1>1, <1>4, <1>5, <1>7 DEF ReportsInv, Shown

LEMMA ReportsStep ==
  ASSUME SfuInv, ReportsInv, [Next]_vars
  PROVE  ReportsInv'
<1>u. ASSUME reports' \subseteq reports, UNCHANGED <<reported, now>>
      PROVE  ReportsInv'
  BY <1>u, Setting DEF ReportsInv, Shown
<1>1. CASE UNCHANGED vars
  BY <1>u, <1>1 DEF vars, sfuVars, srVars
<1>2. ASSUME NEW s, NEW key, NEW frozen, Relay(s, key, frozen) PROVE ReportsInv'
  BY <1>u, <1>2 DEF Relay, srVars
<1>3. ASSUME NEW p, Lose(p) PROVE ReportsInv'
  BY <1>u, <1>3 DEF Lose, srVars
<1>4. ASSUME NEW p, NEW again, RecvRtp(p, again) PROVE ReportsInv'
  BY <1>u, <1>4 DEF RecvRtp, srVars
<1>5. ASSUME NEW r, NEW again, RecvSr(r, again) PROVE ReportsInv'
  BY <1>u, <1>5 DEF RecvSr
<1>6. ASSUME NEW first, NEW second, RecvCompound(first, second) PROVE ReportsInv'
  BY <1>u, <1>6 DEF RecvCompound, sfuVars, srVars
<1>7. ASSUME NEW layer, subscribe_layer(layer) PROVE ReportsInv'
  BY <1>u, <1>7 DEF subscribe_layer, sfuVars, srVars
<1>8. ASSUME NEW s \in {Audio, Video}, NEW ntp \in {now} \cup limits.clock,
             NEW time \in {now} \cup limits.clock, RelaySr(s, ntp, time)
      PROVE  ReportsInv'
  BY <1>8, RelaySrKeeps
<1>9. ASSUME NEW r, LoseSr(r) PROVE ReportsInv'
  BY <1>u, <1>9 DEF LoseSr
<1>10. CASE Advance
  <2>1. /\ \A r \in reports : now < r.at + Delay
        /\ now' = now + 1 /\ UNCHANGED <<limits, reports, reported>> /\ now \in Nat
    BY <1>10 DEF Advance, srVars, SfuInv
  <2>2. ASSUME NEW r \in reports PROVE now' <= r.at + Delay
    <3>1. r.at \in Nat /\ Delay \in Nat
      BY TsModPositive DEF ReportsInv, Reports
    <3> QED
      BY <2>1, <3>1
  <2>3. ASSUME NEW s \in Ssrcs PROVE reported[s] <= now'
    BY <2>1 DEF ReportsInv
  <2> QED
    BY <2>1, <2>2, <2>3 DEF ReportsInv, Shown
<1> QED
  BY <1>1, <1>2, <1>3, <1>4, <1>5, <1>6, <1>7, <1>8, <1>9, <1>10, ZenonT(60) DEF Next, vars

\* Every step but the arrival of an SR leaves the records of SRs alone.
LEMMA SrRecords ==
  ASSUME SwitchInv, [Next]_vars
  PROVE  \/ /\ UNCHANGED arrived /\ obs'.sr_received = obs.sr_received
            /\ "sr_rewritten" \in faults' <=> "sr_rewritten" \in faults
         \/ SrArrives
<1>1. CASE UNCHANGED <<obs, faults, arrived, metricsVars>>
  BY <1>1
<1>2. CASE CompoundArrives
  <2>1. PICK first, second : RecvCompound(first, second)
    BY <1>2 DEF CompoundArrives
  <2>2. obs' = RecordBlock(RecordBlock(obs, first), second) /\ UNCHANGED arrived
    BY <2>1 DEF RecvCompound
  <2>3. \A o, block : Whole(o) => /\ Whole(RecordBlock(o, block))
                                  /\ RecordBlock(o, block).sr_received = o.sr_received
    BY DEF Whole, RecordBlock, NoObservations
  <2>4. obs'.sr_received = obs.sr_received
    BY <2>2, <2>3 DEF SwitchInv
  <2>5. "sr_rewritten" \in faults' <=> "sr_rewritten" \in faults
    BY <2>1 DEF RecvCompound
  <2> QED
    BY <2>2, <2>4, <2>5
<1>3. CASE RtpArrives
  <2>1. PICK p, again : RecvRtp(p, again)
    BY <1>3 DEF RtpArrives
  <2>2. OnlyChanges(obs, obs', RtpFields)
    BY <2>1, RtpEffect DEF SwitchInv
  <2>3. obs'.sr_received = obs.sr_received
    BY <2>2 DEF OnlyChanges, NoObservations, RtpFields
  <2>4. UNCHANGED arrived /\ ("sr_rewritten" \in faults' <=> "sr_rewritten" \in faults)
    BY <2>1 DEF RecvRtp
  <2> QED
    BY <2>3, <2>4
<1> QED
  BY <1>1, <1>2, <1>3, RecordKinds

LEMMA SrStep ==
  ASSUME SfuInv, SwitchInv, ReportsInv, SrInv, [Next]_vars
  PROVE  SrInv'
<1>0. Shown(limits)' = Shown(limits)
  BY Setting DEF Shown
<1>1. CASE UNCHANGED arrived /\ obs'.sr_received = obs.sr_received
  BY <1>0, <1>1 DEF SrInv, SrOf, TsAt
<1>2. CASE SrArrives
  <2>1. PICK r \in reports, again \in BOOLEAN : RecvSr(r, again)
    BY <1>2 DEF SrArrives
  <2> DEFINE srs == obs.sr_received
             new == SrOf(r)
  <2>2. arrived' = Append(arrived, r) /\ obs'.sr_received = Append(srs, new)
    BY <2>1, SrEffect DEF SwitchInv, RecvSr
  <2>3. r \in Reports /\ r.time \in Shown(limits)
    BY DEF ReportsInv
  <2>4. new \in SenderReports
    BY <2>3, ClockRuns, TsModPositive DEF SrOf, SenderReports, Reports
  <2>5. /\ arrived \in Seq(Reports) /\ srs \in Seq(SenderReports) /\ Len(srs) = Len(arrived)
        /\ \A i \in DOMAIN arrived :
             arrived[i].time \in Shown(limits) /\ srs[i] = SrOf(arrived[i])
    BY DEF SrInv
  <2> HIDE DEF srs, new
  <2>6. /\ Append(arrived, r) \in Seq(Reports) /\ Append(srs, new) \in Seq(SenderReports)
        /\ Len(Append(srs, new)) = Len(Append(arrived, r))
    BY <2>3, <2>4, <2>5
  <2>7. ASSUME NEW i \in DOMAIN Append(arrived, r)
        PROVE  /\ Append(arrived, r)[i].time \in Shown(limits)
               /\ Append(srs, new)[i] = SrOf(Append(arrived, r)[i])
    <3>1. CASE i \in DOMAIN arrived
      <4>1. Append(arrived, r)[i] = arrived[i] /\ Append(srs, new)[i] = srs[i]
        BY <2>5, <3>1
      <4> QED
        BY <2>5, <3>1, <4>1
    <3>2. CASE i \notin DOMAIN arrived
      <4>1. Append(arrived, r)[i] = r /\ Append(srs, new)[i] = new
        BY <2>5, <3>2
      <4> QED
        BY <2>3, <4>1 DEF new
    <3> QED
      BY <3>1, <3>2
  <2> QED
    BY <1>0, <2>2, <2>6, <2>7 DEF SrInv, SrOf, TsAt
<1> QED
  BY <1>1, <1>2, SrRecords

LEMMA SrArrivesInOrder ==
  ASSUME SfuInv, ReportsInv, SrInv, SrOrderInv, NEW r \in reports, NEW again \in BOOLEAN,
         RecvSr(r, again)
  PROVE  SrOrderInv'
<1> DEFINE kinds == (IF again THEN {"sr_duplicate"} ELSE {})
                      \cup (IF OvertakesSr(r) THEN {"sr_reorder"} ELSE {})
           longer == Append(arrived, r)
<1>1. /\ arrived' = longer /\ reported' = reported
      /\ reports' = (IF again THEN reports ELSE reports \ {r})
      /\ Mishaps(kinds)
      /\ faults' = (IF Preserved(r) THEN faults ELSE faults \cup {"sr_rewritten"})
  BY DEF RecvSr, Preserved
<1>2. \A kind \in {"sr_duplicate", "sr_reorder"} :
        /\ mishaps[kind] \in Nat
        /\ mishaps'[kind] = IF kind \in kinds THEN mishaps[kind] + 1 ELSE mishaps[kind]
  BY <1>1, MishapsCount DEF Kinds, SrKinds
<1> SUFFICES ASSUME "sr_rewritten" \notin faults', mishaps'["sr_duplicate"] = 0,
                    mishaps'["sr_reorder"] = 0
             PROVE  \A i \in DOMAIN longer :
                      /\ Preserved(longer[i]) /\ longer[i].at <= reported[longer[i].ssrc]
                      /\ \A q \in reports' : q.ssrc = longer[i].ssrc => longer[i].at < q.at
                      /\ \A j \in DOMAIN longer :
                           i < j /\ longer[i].ssrc = longer[j].ssrc => longer[i].at < longer[j].at
  BY <1>1 DEF SrOrderInv, Earlier, Preserved
<1>3. "sr_duplicate" \notin kinds /\ "sr_reorder" \notin kinds
  BY <1>2
<1>4. /\ ~again /\ ~OvertakesSr(r) /\ Preserved(r) /\ "sr_rewritten" \notin faults
      /\ mishaps["sr_duplicate"] = 0 /\ mishaps["sr_reorder"] = 0
  BY <1>1, <1>2, <1>3
<1>5. \A i \in DOMAIN arrived :
        /\ Preserved(arrived[i]) /\ arrived[i].at <= reported[arrived[i].ssrc]
        /\ \A q \in reports : q.ssrc = arrived[i].ssrc => arrived[i].at < q.at
        /\ \A j \in DOMAIN arrived :
             i < j /\ arrived[i].ssrc = arrived[j].ssrc => arrived[i].at < arrived[j].at
  BY <1>4 DEF SrOrderInv, Earlier
<1>6. /\ arrived \in Seq(Reports) /\ Len(arrived) \in Nat
      /\ DOMAIN longer = 1 .. Len(arrived) + 1 /\ DOMAIN arrived = 1 .. Len(arrived)
      /\ longer[Len(arrived) + 1] = r /\ \A i \in DOMAIN arrived : longer[i] = arrived[i]
  <2>1. arrived \in Seq(Reports)
    BY DEF SrInv
  <2> QED
    BY <2>1
<1>7. r \in Reports /\ r.at <= reported[r.ssrc]
  BY DEF ReportsInv
<1>8. ASSUME NEW q \in reports', q.ssrc = r.ssrc PROVE r.at < q.at
  <2>1. q \in reports /\ q # r
    BY <1>1, <1>4, <1>8
  <2>2. q.at \in Nat /\ r.at \in Nat /\ q.at # r.at
    BY <1>8, <2>1 DEF ReportsInv, Reports
  <2> QED
    BY <1>4, <1>8, <2>1, <2>2 DEF OvertakesSr
<1>9. reports' \subseteq reports
  BY <1>1
<1> HIDE DEF longer
<1> TAKE i \in DOMAIN longer
<1>10. CASE i \in DOMAIN arrived
  <2>1. longer[i] = arrived[i]
    BY <1>6, <1>10
  <2>2. ASSUME NEW j \in DOMAIN longer, i < j, longer[i].ssrc = longer[j].ssrc
        PROVE  longer[i].at < longer[j].at
    <3>1. CASE j \in DOMAIN arrived
      BY <1>5, <1>6, <1>10, <2>1, <2>2, <3>1
    <3>2. CASE j \notin DOMAIN arrived
      <4>1. longer[j] = r
        BY <1>6, <3>2
      <4> QED
        BY <1>5, <1>10, <2>1, <2>2, <4>1
    <3> QED
      BY <3>1, <3>2
  <2> QED
    BY <1>5, <1>9, <1>10, <2>1, <2>2
<1>11. CASE i \notin DOMAIN arrived
  <2>1. i = Len(arrived) + 1 /\ longer[i] = r
    BY <1>6, <1>11
  <2>2. \A j \in DOMAIN longer : ~(i < j)
    BY <1>6, <2>1
  <2> QED
    BY <1>4, <1>7, <1>8, <2>1, <2>2
<1> QED
  BY <1>10, <1>11

LEMMA SrOrderStep ==
  ASSUME SfuInv, SwitchInv, ReportsInv, SrInv, SrOrderInv, [Next]_vars
  PROVE  SrOrderInv'
<1> DEFINE Calm == mishaps["sr_duplicate"] = 0 /\ mishaps["sr_reorder"] = 0
<1>u. ASSUME UNCHANGED <<arrived, reported>>, reports' \subseteq reports, Calm' => Calm,
             "sr_rewritten" \in faults => "sr_rewritten" \in faults'
      PROVE  SrOrderInv'
  BY <1>u DEF SrOrderInv, Earlier, Preserved
<1>m. ASSUME NEW kinds, Mishaps(kinds), "sr_duplicate" \notin kinds, "sr_reorder" \notin kinds
      PROVE  Calm' => Calm
  BY <1>m, MishapsCount DEF Kinds, SrKinds
<1>1. CASE UNCHANGED vars
  BY <1>u, <1>1 DEF vars, sfuVars, srVars, loopVars
<1>2. ASSUME NEW s, NEW key, NEW frozen, Relay(s, key, frozen) PROVE SrOrderInv'
  BY <1>u, <1>2 DEF Relay, srVars, loopVars
<1>3. ASSUME NEW p, Lose(p) PROVE SrOrderInv'
  <2>1. Mishaps({"loss"})
    BY <1>3 DEF Lose
  <2>2. Calm' => Calm
    BY <1>m, <2>1
  <2> HIDE DEF Calm
  <2> QED
    BY <1>u, <1>3, <2>2 DEF Lose, srVars, loopVars
<1>4. ASSUME NEW p, NEW again, RecvRtp(p, again) PROVE SrOrderInv'
  <2> DEFINE kinds == (IF again THEN {"duplicate"} ELSE {})
                        \cup (IF Overtakes(p) THEN {"reorder"} ELSE {})
  <2>1. Mishaps(kinds)
    BY <1>4 DEF RecvRtp
  <2>2. Calm' => Calm
    <3>1. "sr_duplicate" \notin kinds /\ "sr_reorder" \notin kinds
      OBVIOUS
    <3> HIDE DEF kinds
    <3> QED
      BY <1>m, <2>1, <3>1
  <2> HIDE DEF Calm
  <2> QED
    BY <1>u, <1>4, <2>2 DEF RecvRtp, srVars
<1>5. ASSUME NEW r \in reports, NEW again \in BOOLEAN, RecvSr(r, again) PROVE SrOrderInv'
  BY <1>5, SrArrivesInOrder
<1>6. ASSUME NEW first, NEW second, RecvCompound(first, second) PROVE SrOrderInv'
  BY <1>u, <1>6 DEF RecvCompound, sfuVars, srVars
<1>7. ASSUME NEW layer, subscribe_layer(layer) PROVE SrOrderInv'
  BY <1>u, <1>7 DEF subscribe_layer, sfuVars, srVars
<1>8. ASSUME NEW s \in {Audio, Video}, NEW ntp, NEW time, RelaySr(s, ntp, time)
      PROVE  SrOrderInv'
  <2> DEFINE new == [ssrc |-> s, ntp |-> ntp, time |-> time, at |-> now]
  <2>1. /\ reported[s] < now /\ reported' = [reported EXCEPT ![s] = now]
        /\ reports' = reports \cup {new} /\ UNCHANGED <<arrived, faults, mishaps>>
    BY <1>8 DEF RelaySr, loopVars
  <2>2. new.ssrc = s /\ new.at = now
    OBVIOUS
  <2> HIDE DEF new
  <2>3. now \in Nat /\ s \in Ssrcs
    BY ObserveAssumption DEF SfuInv
  <2> SUFFICES ASSUME "sr_rewritten" \notin faults, Calm, NEW i \in DOMAIN arrived
               PROVE  /\ Preserved(arrived[i]) /\ arrived[i].at <= reported'[arrived[i].ssrc]
                      /\ \A r \in reports' : r.ssrc = arrived[i].ssrc => arrived[i].at < r.at
                      /\ \A j \in DOMAIN arrived :
                           i < j /\ arrived[i].ssrc = arrived[j].ssrc
                             => arrived[i].at < arrived[j].at
    BY <2>1 DEF SrOrderInv, Earlier, Preserved
  <2>4. /\ Preserved(arrived[i]) /\ arrived[i].at <= reported[arrived[i].ssrc]
        /\ \A r \in reports : r.ssrc = arrived[i].ssrc => arrived[i].at < r.at
        /\ \A j \in DOMAIN arrived :
             i < j /\ arrived[i].ssrc = arrived[j].ssrc => arrived[i].at < arrived[j].at
    BY DEF SrOrderInv, Earlier
  <2>5. arrived[i].ssrc \in Ssrcs /\ arrived[i].at \in Nat
    <3>1. arrived[i] \in Reports
      BY DEF SrInv
    <3> QED
      BY <3>1 DEF Reports
  <2>6. /\ reported[arrived[i].ssrc] \in Int /\ reported[s] \in Int
        /\ reported'[arrived[i].ssrc]
             = IF arrived[i].ssrc = s THEN now ELSE reported[arrived[i].ssrc]
    BY <2>1, <2>3, <2>5 DEF ReportsInv
  <2>7. arrived[i].at <= reported'[arrived[i].ssrc]
    BY <2>1, <2>3, <2>4, <2>5, <2>6
  <2>8. arrived[i].ssrc = s => arrived[i].at < now
    BY <2>1, <2>3, <2>4, <2>5, <2>6
  <2> QED
    BY <2>1, <2>2, <2>4, <2>7, <2>8
<1>9. ASSUME NEW r, LoseSr(r) PROVE SrOrderInv'
  <2>1. Mishaps({"sr_loss"})
    BY <1>9 DEF LoseSr
  <2>2. Calm' => Calm
    BY <1>m, <2>1
  <2> HIDE DEF Calm
  <2> QED
    BY <1>u, <1>9, <2>2 DEF LoseSr, loopVars
<1>10. CASE Advance
  BY <1>u, <1>10 DEF Advance, srVars, loopVars
<1> QED
  BY <1>1, <1>2, <1>3, <1>4, <1>5, <1>6, <1>7, <1>8, <1>9, <1>10, ZenonT(60) DEF Next, vars

-----------------------------------------------------------------------------
(***************************************************************************)
(* The records of RTP packets.                                             *)
(***************************************************************************)

\* The fields that only RTP packets change.
LEMMA OtherArrivals ==
  ASSUME SwitchInv, RrInv, SrArrives \/ CompoundArrives
  PROVE  /\ \A f \in RtpFields : obs'[f] = obs[f]
         /\ "raw_ssrc" \in faults' <=> "raw_ssrc" \in faults
         /\ "ts_frozen" \in faults' <=> "ts_frozen" \in faults
         /\ UNCHANGED <<ssrc_last, metricsVars, flight, sent>>
<1>1. CASE SrArrives
  <2>1. PICK r, again : RecvSr(r, again)
    BY <1>1 DEF SrArrives
  <2>2. OnlyChanges(obs, obs', {"sr_received"})
    BY <2>1, SrEffect DEF SwitchInv
  <2>3. \A f \in RtpFields : obs'[f] = obs[f]
    BY <2>2 DEF OnlyChanges, NoObservations, RtpFields
  <2> QED
    BY <2>1, <2>3, SrArrivesAlone DEF RecvSr
<1>2. CASE CompoundArrives
  <2>1. PICK first, second : RecvCompound(first, second)
    BY <1>2 DEF CompoundArrives
  <2>2. OnlyChanges(obs, obs', RtcpFields)
    BY <2>1, CompoundEffect DEF SwitchInv
  <2>3. \A f \in RtpFields : obs'[f] = obs[f]
    BY <2>2 DEF OnlyChanges, NoObservations, RtpFields, RtcpFields
  <2> QED
    BY <2>1, <2>3 DEF RecvCompound, sfuVars
<1> QED
  BY <1>1, <1>2

LEMMA SsrcStep ==
  ASSUME MetricsInv, FlightInv, SwitchInv, RrInv, SsrcInv, [Next]_vars
  PROVE  SsrcInv'
<1>u. ASSUME obs'.ptt_audio_ssrcs = obs.ptt_audio_ssrcs,
             obs'.ptt_video_ssrcs = obs.ptt_video_ssrcs,
             "raw_ssrc" \in faults' <=> "raw_ssrc" \in faults, metrics' = metrics
      PROVE  SsrcInv'
  BY <1>u DEF SsrcInv, Known
<1>1. CASE UNCHANGED <<obs, faults, arrived, metricsVars>>
  BY <1>u, <1>1 DEF metricsVars
<1>2. CASE SrArrives \/ CompoundArrives
  BY <1>u, <1>2, OtherArrivals DEF RtpFields, metricsVars
<1>3. CASE RtpArrives
  <2>1. PICK p \in flight, again \in BOOLEAN : RecvRtp(p, again)
    BY <1>3 DEF RtpArrives
  <2>2. p.ssrc \in Ssrcs /\ Known' = Known \cup {p.ssrc}
    BY <2>1, PacketArrives
  <2>3. /\ obs'.ptt_audio_ssrcs
             = obs.ptt_audio_ssrcs \cup (IF IsAudio(p.ssrc) THEN {p.ssrc} ELSE {})
        /\ obs'.ptt_video_ssrcs
             = obs.ptt_video_ssrcs \cup (IF IsAudio(p.ssrc) THEN {} ELSE {p.ssrc})
    BY <2>1, RtpEffect DEF SwitchInv
  <2>4. faults \subseteq faults' /\ (p.ssrc = RawVideo => "raw_ssrc" \in faults')
    BY <2>1 DEF RecvRtp
  <2>5. p.ssrc \in {Audio, Video, RawVideo} /\ Audio # Video /\ Audio # RawVideo
    BY <2>2, ObserveAssumption
  <2> QED
    BY <2>2, <2>3, <2>4, <2>5 DEF SsrcInv, IsAudio
<1> QED
  BY <1>1, <1>2, <1>3, RecordKinds

-----------------------------------------------------------------------------

\* Packets are under way for at most a fifth of the shortest idle time.
IdleFits == 5 * Delay <= IdleGap + 1

(***************************************************************************)
(* The gap of a stream that comes back and whose timestamps are its        *)
(* capture times is within the 20 percent that eval_l1_08 allows, whatever *)
(* the two packets' delays.                                                *)
(***************************************************************************)
LEMMA HonestGap ==
  ASSUME IdleFits, NEW s, NEW T \in Nat, 4 * T < TsMod, NEW t \in Nat, t <= T,
         NEW time \in Nat, NEW u \in Nat, u <= time, time <= u + Delay,
         NEW at \in Nat, at <= t, t <= at + Delay, t - time > IdleGap,
         NEW rec, rec.wall_gap = t - time, rec.sample_rate = sample_rate(s),
         rec.rtp_gap = (TsAt(s, at) - TsAt(s, u)) % TsMod
  PROVE  ~GapViolated(rec)
<1> DEFINE rate == sample_rate(s)
           wall == t - time
           gap == rec.rtp_gap
           x == rate * (at - u)
           expected == wall * rate
<1>1. Delay \in Nat /\ IdleGap \in Nat /\ TsMod \in Nat \ {0} /\ rate \in {1, 2}
  BY ClockRuns, TsModPositive
<1>2. 5 * Delay <= wall /\ wall \in Nat
  BY <1>1 DEF IdleFits
<1>3. /\ at - u \in Nat /\ wall - Delay <= at - u /\ at - u <= wall + Delay /\ at - u <= T
  BY <1>1, <1>2
<1>4. gap = x % TsMod
  BY ClockRuns
<1>5. x \in 0 .. TsMod - 1
  BY <1>1, <1>3
<1>6. x = TsMod * 0 + x
  BY <1>1, <1>5
<1>7. gap = x
  <2> HIDE DEF x, gap
  <2> QED
    BY <1>1, <1>4, <1>5, <1>6, Remainder
<1>8. 4 * expected <= 5 * x /\ 5 * x <= 6 * expected
  <2>1. CASE rate = 1
    BY <1>1, <1>2, <1>3, <2>1
  <2>2. CASE rate = 2
    BY <1>1, <1>2, <1>3, <2>2
  <2> QED
    BY <1>1, <2>1, <2>2
<1>9. expected \in Int /\ x \in Int
  BY <1>1, <1>2, <1>3
<1>10. GapViolated(rec) <=> expected # 0 /\ (5 * gap < 4 * expected \/ 5 * gap > 6 * expected)
  BY DEF GapViolated
<1> HIDE DEF expected, x, gap
<1> QED
  BY <1>7, <1>8, <1>9, <1>10

LEMMA GapStep ==
  ASSUME TsFits, IdleFits, MetricsInv, FlightInv, SfuInv, LastInv, SwitchInv, RrInv, GapInv,
         [Next]_vars
  PROVE  GapInv'
<1>t. \A s, last : Captured(s, last)' <=> Captured(s, last)
  BY DEF Captured, TsAt
<1>u. ASSUME obs'.ptt_ts_gap_records = obs.ptt_ts_gap_records, ssrc_last' = ssrc_last,
             "ts_frozen" \in faults' <=> "ts_frozen" \in faults, metrics' = metrics
      PROVE  GapInv'
  <2>1. Known' = Known
    BY <1>u DEF Known
  <2> QED
    BY <1>t, <1>u, <2>1 DEF GapInv, Captured, TsAt, GapViolated
<1>1. CASE Otherwise /\ UNCHANGED <<obs, faults, arrived, metricsVars>>
  BY <1>u, <1>1 DEF Otherwise, metricsVars
<1>2. CASE SrArrives \/ CompoundArrives
  BY <1>u, <1>2, OtherArrivals DEF RtpFields, metricsVars
<1>3. CASE RtpArrives
  <2>1. PICK p \in flight, again \in BOOLEAN : RecvRtp(p, again)
    BY <1>3 DEF RtpArrives
  <2>2. p.ssrc \in Ssrcs /\ Known' = Known \cup {p.ssrc}
    BY <2>1, PacketArrives
  <2>3. /\ ssrc_last' = [ssrc_last EXCEPT ![p.ssrc] = [time |-> now, ts |-> p.ts]]
        /\ faults \subseteq faults'
        /\ p.frozen => "ts_frozen" \in faults'
    BY <2>1 DEF RecvRtp
  <2>4. obs'.ptt_ts_gap_records
          = obs.ptt_ts_gap_records \cup (IF AfterGap(p) THEN {GapOf(p)} ELSE {})
    BY <2>1, RtpEffect DEF SwitchInv
  <2> SUFFICES ASSUME "ts_frozen" \notin faults'
               PROVE  /\ \A s \in Known' : Captured(s, ssrc_last'[s])
                      /\ \A rec \in obs'.ptt_ts_gap_records : ~GapViolated(rec)
    BY <1>t DEF GapInv, Captured, TsAt, GapViolated
  <2>5. /\ \A s \in Known : Captured(s, ssrc_last[s])
        /\ \A rec \in obs.ptt_ts_gap_records : ~GapViolated(rec)
    BY <2>3 DEF GapInv
  <2>6. /\ p.ts = TsAt(p.ssrc, p.at) /\ p.at \in Nat /\ p.at <= now /\ now <= p.at + Delay
        /\ now \in Nat /\ now <= limits.time /\ limits.time \in Nat /\ 4 * limits.time < TsMod
    BY <2>3, LimitTypes DEF SfuInv, Packets, TsFits
  <2>7. Captured(p.ssrc, [time |-> now, ts |-> p.ts])
    BY <2>6 DEF Captured
  <2>8. ASSUME NEW s \in Known'
        PROVE  Captured(s, ssrc_last'[s])
    <3>1. CASE s = p.ssrc
      <4>1. ssrc_last'[s] = [time |-> now, ts |-> p.ts]
        BY <2>2, <2>3, <3>1 DEF LastInv
      <4> QED
        BY <2>7, <3>1, <4>1
    <3>2. CASE s # p.ssrc
      <4>1. s \in Known /\ s \in Ssrcs
        BY <2>2, <3>2 DEF Known
      <4>2. ssrc_last'[s] = ssrc_last[s]
        BY <2>3, <3>2, <4>1 DEF LastInv
      <4> QED
        BY <2>5, <4>1, <4>2
    <3> QED
      BY <3>1, <3>2
  <2>9. ASSUME AfterGap(p)
        PROVE  ~GapViolated(GapOf(p))
    <3>1. /\ ssrc_last[p.ssrc] # NotSeen /\ now - ssrc_last[p.ssrc].time > IdleGap
          /\ ssrc_last[p.ssrc].time \in Nat
      BY <2>2, <2>9 DEF AfterGap, LastInv
    <3>2. Captured(p.ssrc, ssrc_last[p.ssrc])
      BY <2>2, <2>5, <3>1 DEF LastInv
    <3>3. PICK u \in Nat : /\ u <= ssrc_last[p.ssrc].time
                           /\ ssrc_last[p.ssrc].time <= u + Delay
                           /\ ssrc_last[p.ssrc].ts = TsAt(p.ssrc, u)
      BY <3>2 DEF Captured
    <3>4. /\ GapOf(p).wall_gap = now - ssrc_last[p.ssrc].time
          /\ GapOf(p).sample_rate = sample_rate(p.ssrc)
          /\ GapOf(p).rtp_gap = (TsAt(p.ssrc, p.at) - TsAt(p.ssrc, u)) % TsMod
      BY <2>6, <3>3 DEF GapOf
    <3> QED
      BY <2>6, <3>1, <3>3, <3>4, HonestGap
  <2> QED
    BY <2>4, <2>5, <2>8, <2>9
<1> QED
  BY <1>1, <1>2, <1>3, RecordKinds, StepKinds DEF RtpArrives

-----------------------------------------------------------------------------
(***************************************************************************)
(* A network that neither loses a packet nor lets one overtake another     *)
(* delivers every stream from its first packet on without a gap, however   *)
(* often it repeats a packet.                                              *)
(***************************************************************************)
LEMMA RelayInOrder ==
  ASSUME SfuInv, MetricsInv, DeliveryInv, NEW s \in Ssrcs, NEW key, NEW frozen,
         Relay(s, key, frozen)
  PROVE  DeliveryInv'
<1>1. PICK p : p.ssrc = s /\ p.ix = sent[s] /\ flight' = flight \cup {p}
  <2> DEFINE t == IF frozen THEN stamp[s] + 1 ELSE now
             p == [ssrc |-> s, ix |-> sent[s], ts |-> TsAt(s, t), key |-> key,
                   frozen |-> frozen /\ t # now, at |-> now]
  <2>1. flight' = flight \cup {p}
    BY DEF Relay
  <2>2. p.ssrc = s /\ p.ix = sent[s]
    OBVIOUS
  <2> HIDE DEF p
  <2> QED
    BY <2>1, <2>2
<1>2. sent' = [sent EXCEPT ![s] = @ + 1] /\ UNCHANGED <<metrics, stream, mishaps>>
  BY DEF Relay, metricsVars
<1> SUFFICES ASSUME mishaps["loss"] = 0, mishaps["reorder"] = 0, NEW u \in Ssrcs
             PROVE  /\ metrics[u] # NoStream =>
                         /\ metrics[u].lost = 0 /\ stream[u].last < sent'[u]
                         /\ \A q \in flight' : q.ssrc = u => stream[u].last <= q.ix
                    /\ \A ix \in Following(u) .. sent'[u] - 1 : InFlight(u, ix)'
  BY <1>2 DEF DeliveryInv, Following
<1>3. /\ metrics[u] # NoStream =>
           /\ metrics[u].lost = 0 /\ stream[u].last < sent[u]
           /\ \A q \in flight : q.ssrc = u => stream[u].last <= q.ix
      /\ \A ix \in Following(u) .. sent[u] - 1 : InFlight(u, ix)
  BY DEF DeliveryInv
<1>4. sent[u] \in Nat /\ sent'[u] = IF u = s THEN sent[u] + 1 ELSE sent[u]
  BY <1>2 DEF SfuInv
<1>5. metrics[u] # NoStream => stream[u].last \in Nat
  BY DEF MetricsInv, StreamInv, StreamType
<1>6. Following(u) \in Nat
  BY <1>5 DEF Following
<1>7. ASSUME NEW ix \in Following(u) .. sent'[u] - 1
      PROVE  InFlight(u, ix)'
  <2>1. CASE ix = sent[u] /\ u = s
    BY <1>1, <2>1 DEF InFlight
  <2>2. CASE ~(ix = sent[u] /\ u = s)
    <3>1. ix \in Following(u) .. sent[u] - 1
      BY <1>4, <1>6, <2>2
    <3> QED
      BY <1>1, <1>3, <3>1 DEF InFlight
  <2> QED
    BY <2>1, <2>2
<1>8. metrics[u] # NoStream =>
        /\ metrics[u].lost = 0 /\ stream[u].last < sent'[u]
        /\ \A q \in flight' : q.ssrc = u => stream[u].last <= q.ix
  BY <1>1, <1>3, <1>4, <1>5
<1> QED
  BY <1>7, <1>8

LEMMA PacketInOrder ==
  ASSUME SfuInv, FlightInv, MetricsInv, DeliveryInv, NEW p \in flight, NEW again \in BOOLEAN,
         RecvRtp(p, again)
  PROVE  DeliveryInv'
<1> DEFINE s == p.ssrc
           kinds == (IF again THEN {"duplicate"} ELSE {})
                      \cup (IF Overtakes(p) THEN {"reorder"} ELSE {})
<1>1. /\ s \in Ssrcs /\ p.ix \in Nat /\ MetricsInv'
      /\ metrics' = [metrics EXCEPT ![s] = StoreUpdated(metrics[s], SeqOf(p.ix))]
      /\ stream' = [stream EXCEPT ![s] = Arrived(stream[s], p.ix)]
  BY PacketArrives
<1>2. /\ flight' = (IF again THEN flight ELSE flight \ {p})
      /\ Mishaps(kinds) /\ sent' = sent
  BY DEF RecvRtp
<1>3. /\ mishaps["loss"] \in Nat /\ mishaps["reorder"] \in Nat
      /\ mishaps'["loss"] = mishaps["loss"]
      /\ mishaps'["reorder"] = IF Overtakes(p) THEN mishaps["reorder"] + 1 ELSE mishaps["reorder"]
  BY <1>2, MishapsCount DEF Kinds
<1> SUFFICES ASSUME mishaps'["loss"] = 0, mishaps'["reorder"] = 0, NEW u \in Ssrcs
             PROVE  /\ metrics'[u] # NoStream =>
                         /\ metrics'[u].lost = 0 /\ stream'[u].last < sent[u]
                         /\ \A q \in flight' : q.ssrc = u => stream'[u].last <= q.ix
                    /\ \A ix \in Following(u)' .. sent[u] - 1 : InFlight(u, ix)'
  BY <1>2 DEF DeliveryInv
<1>4. ~Overtakes(p) /\ mishaps["loss"] = 0 /\ mishaps["reorder"] = 0
  BY <1>3
<1>5. \A v \in Ssrcs :
        /\ metrics[v] # NoStream =>
             /\ metrics[v].lost = 0 /\ stream[v].last < sent[v]
             /\ \A q \in flight : q.ssrc = v => stream[v].last <= q.ix
        /\ \A ix \in Following(v) .. sent[v] - 1 : InFlight(v, ix)
  BY <1>4 DEF DeliveryInv
<1>6. \A q \in flight : q.ssrc = s => p.ix <= q.ix
  BY <1>1, <1>4 DEF Overtakes, FlightInv
<1>7. p.ix < sent[s] /\ sent[s] \in Nat
  BY <1>1 DEF SfuInv
<1>8. CASE u # s
  <2>1. metrics'[u] = metrics[u] /\ stream'[u] = stream[u] /\ Following(u)' = Following(u)
    BY <1>1, <1>8 DEF MetricsInv, Following
  <2>2. \A ix : InFlight(u, ix) => InFlight(u, ix)'
    BY <1>2, <1>8 DEF InFlight
  <2> QED
    BY <1>2, <1>5, <2>1, <2>2
<1>9. CASE u = s
  <2> DEFINE next == Following(s)
  <2>1. next \in Nat /\ next <= p.ix + 1
    <3>1. CASE metrics[s] = NoStream
      BY <1>1, <3>1 DEF Following
    <3>2. CASE metrics[s] # NoStream
      <4>1. stream[s].last \in Nat
        BY <1>1, <3>2 DEF MetricsInv, StreamInv, StreamType
      <4>2. stream[s].last <= p.ix
        BY <1>1, <1>5, <3>2
      <4> QED
        BY <1>1, <3>2, <4>1, <4>2 DEF Following
    <3> QED
      BY <3>1, <3>2
  <2>2. p.ix <= next
    <3> SUFFICES ASSUME next < p.ix PROVE FALSE
      BY <1>1, <2>1
    <3>1. next \in next .. sent[s] - 1
      BY <1>1, <1>7, <2>1
    <3>2. InFlight(s, next)
      BY <1>1, <1>5, <3>1
    <3> QED
      BY <1>1, <1>6, <2>1, <3>2 DEF InFlight
  <2>3. metrics'[s] = StoreUpdated(metrics[s], SeqOf(p.ix)) /\ stream'[s] = Arrived(stream[s], p.ix)
    BY <1>1 DEF MetricsInv
  <2>4. metrics'[s].lost = 0 /\ stream'[s].last = p.ix
    <3>1. CASE metrics[s] = NoStream
      <4>1. metrics'[s] = FirstPacket(SeqOf(p.ix)) /\ stream'[s] = Arrived(Nothing, p.ix)
        BY <1>1, <2>3, <3>1 DEF StoreUpdated, MetricsInv
      <4> QED
        BY <4>1 DEF FirstPacket, Arrived, Nothing
    <3>2. CASE metrics[s] # NoStream
      <4> DEFINE m == metrics[s]
                 t == stream[s]
                 d == p.ix - t.last - 1
      <4>1. StreamInv(m, t)
        BY <1>1, <3>2 DEF MetricsInv
      <4>2. StreamType(t) /\ CountType(m) /\ m.last_seq = SeqOf(t.last) /\ t.last \in Nat
        BY <4>1 DEF StreamInv, StreamType
      <4>3. d \in Int /\ d <= 0 /\ -1 <= d
        BY <1>1, <2>1, <2>2, <3>2, <4>2 DEF Following
      <4>4. Signed(SeqOf(p.ix) - (m.last_seq + 1)) = d
        <5>1. t.last - Reorder <= p.ix /\ p.ix <= t.last + 1 + Gap
          BY <1>1, <4>2, <4>3, Bounds
        <5> QED
          BY <1>1, <4>2, <5>1, SignedDifference
      <4>5. SeqOf(p.ix) \in Int
        BY <1>1, Bounds DEF SeqOf
      <4>6. Updated(m, SeqOf(p.ix)).lost = IF d > 0 THEN m.lost + d ELSE m.lost
        BY <4>2, <4>3, <4>4, <4>5, UpdatedCounts
      <4>7. m.lost = 0
        BY <1>1, <1>5, <3>2
      <4>8. metrics'[s].lost = 0
        BY <2>3, <3>2, <4>3, <4>6, <4>7 DEF StoreUpdated
      <4>9. Arrived(t, p.ix).last = p.ix
        <5>1. p.ix <= t.top \/ p.ix > t.top
          BY <1>1, <4>2 DEF StreamType
        <5> QED
          BY <1>1, <4>2, <5>1, MissingBeyond, MissingWithin
      <4> QED
        BY <2>3, <4>8, <4>9
    <3> QED
      BY <3>1, <3>2
  <2>5. metrics'[s] # NoStream
    <3>1. Known' = Known \cup {p.ssrc}
      BY PacketArrives
    <3> QED
      BY <3>1 DEF Known
  <2>6. Following(s)' = p.ix + 1
    BY <2>4, <2>5 DEF Following
  <2>7. \A q \in flight' : q.ssrc = s => p.ix <= q.ix
    BY <1>2, <1>6
  <2>8. ASSUME NEW ix \in p.ix + 1 .. sent[s] - 1
        PROVE  InFlight(s, ix)'
    <3>1. ix \in next .. sent[s] - 1 /\ ix # p.ix
      BY <1>1, <1>7, <2>1
    <3>2. PICK q \in flight : q.ssrc = s /\ q.ix = ix
      BY <1>1, <1>5, <3>1 DEF InFlight
    <3>3. q \in flight'
      BY <1>2, <3>1, <3>2
    <3> QED
      BY <3>2, <3>3 DEF InFlight
  <2> QED
    BY <1>7, <1>9, <2>4, <2>6, <2>7, <2>8
<1> QED
  BY <1>8, <1>9

LEMMA DeliveryStep ==
  ASSUME SfuInv, FlightInv, MetricsInv, DeliveryInv, [Next]_vars
  PROVE  DeliveryInv'
<1>u. ASSUME UNCHANGED <<metricsVars, flight, sent>>,
             mishaps'["loss"] = mishaps["loss"], mishaps'["reorder"] = mishaps["reorder"]
      PROVE  DeliveryInv'
  BY <1>u DEF metricsVars, DeliveryInv, Following, InFlight
<1>1. CASE UNCHANGED vars
  BY <1>u, <1>1 DEF vars, sfuVars
<1>2. ASSUME NEW s \in Ssrcs, NEW key, NEW frozen, Relay(s, key, frozen) PROVE DeliveryInv'
  BY <1>2, RelayInOrder
<1>3. ASSUME NEW p, Lose(p) PROVE DeliveryInv'
  <2>1. Mishaps({"loss"})
    BY <1>3 DEF Lose
  <2>2. mishaps["loss"] \in Nat /\ mishaps'["loss"] = mishaps["loss"] + 1
    BY <2>1, MishapsCount DEF Kinds
  <2>3. mishaps'["loss"] # 0
    BY <2>2
  <2> QED
    BY <2>3 DEF DeliveryInv
<1>4. ASSUME NEW p \in flight, NEW again \in BOOLEAN, RecvRtp(p, again) PROVE DeliveryInv'
  BY <1>4, PacketInOrder
<1>5. ASSUME NEW r, NEW again, RecvSr(r, again) PROVE DeliveryInv'
  <2> DEFINE kinds == (IF again THEN {"sr_duplicate"} ELSE {})
                        \cup (IF OvertakesSr(r) THEN {"sr_reorder"} ELSE {})
  <2>1. Mishaps(kinds)
    BY <1>5 DEF RecvSr
  <2>2. "loss" \notin kinds /\ "reorder" \notin kinds
    OBVIOUS
  <2> HIDE DEF kinds
  <2> QED
    BY <1>5, <1>u, <2>1, <2>2, MishapsCount, SrArrivesAlone DEF Kinds
<1>6. ASSUME NEW first, NEW second, RecvCompound(first, second) PROVE DeliveryInv'
  BY <1>u, <1>6 DEF RecvCompound, sfuVars
<1>7. ASSUME NEW layer, subscribe_layer(layer) PROVE DeliveryInv'
  BY <1>u, <1>7 DEF subscribe_layer, sfuVars
<1>8. CASE Advance
  BY <1>u, <1>8 DEF Advance
<1>9. ASSUME NEW s, NEW ntp, NEW time, RelaySr(s, ntp, time) PROVE DeliveryInv'
  BY <1>u, <1>9 DEF RelaySr
<1>10. ASSUME NEW r, LoseSr(r) PROVE DeliveryInv'
  <2>1. Mishaps({"sr_loss"})
    BY <1>10 DEF LoseSr
  <2>2. mishaps'["loss"] = mishaps["loss"] /\ mishaps'["reorder"] = mishaps["reorder"]
    BY <2>1, MishapsCount DEF Kinds
  <2> QED
    BY <1>u, <1>10, <2>2 DEF LoseSr
<1> QED
  BY <1>1, <1>2, <1>3, <1>4, <1>5, <1>6, <1>7, <1>8, <1>9, <1>10, ZenonT(60) DEF Next, vars

-----------------------------------------------------------------------------

ObserveInv ==
  /\ SfuInv /\ FlightInv /\ DeliveryInv
  /\ MetricsInv /\ SeqInv /\ LastInv
  /\ SwitchInv /\ PendingInv /\ RrInv /\ SsrcInv
  /\ ReportsInv /\ SrInv /\ SrOrderInv

LEMMA ObserveStart == Init => ObserveInv /\ GapInv
<1> SUFFICES ASSUME Init PROVE ObserveInv /\ GapInv
  OBVIOUS
<1>1. SfuInv /\ FlightInv /\ MetricsInv /\ SwitchInv
  BY SfuStart, FlightStart, MetricsStart, SwitchStart DEF Init
<1>2. Known = {} /\ \A s \in Ssrcs : metrics[s] = NoStream
  BY DEF Init, MetricsInit, Known
<1>3. SeqInv
  BY <1>2 DEF SeqInv
<1>4. LastInv
  <2>1. ssrc_last = [s \in Ssrcs |-> [time |-> 0, ts |-> -1]] /\ now = 0
    BY DEF Init, NotSeen
  <2> QED
    BY <1>2, <2>1 DEF LastInv, NotSeen
<1>5. obs = NoObservations /\ before = <<>> /\ pending = "none" /\ faults = {}
  BY DEF Init
<1>6. PendingInv
  <2>1. <<>> \in Seq({}) /\ Len(<<>>) = 0 /\ SwitchesOf(obs) = <<>>
    BY <1>5 DEF SwitchesOf, NoObservations
  <2> QED
    BY <1>5, <2>1 DEF PendingInv, IsSequence
<1>7. RrInv
  BY <1>5 DEF RrInv, NoObservations
<1>8. SrInv
  <2>1. obs.sr_received = <<>> /\ arrived = <<>>
    BY <1>5 DEF Init, NoObservations
  <2>2. <<>> \in Seq(SenderReports) /\ <<>> \in Seq(Reports) /\ DOMAIN <<>> = {}
    OBVIOUS
  <2> QED
    BY <2>1, <2>2 DEF SrInv
<1>12. ReportsInv
  <2>1. now = 0 /\ reports = {} /\ reported = [s \in Ssrcs |-> -1]
    BY DEF Init
  <2> QED
    BY <2>1 DEF ReportsInv
<1>13. SrOrderInv
  <2>1. arrived = <<>> /\ DOMAIN <<>> = {}
    BY DEF Init
  <2> QED
    BY <2>1 DEF SrOrderInv
<1>9. SsrcInv
  BY <1>2, <1>5 DEF SsrcInv, NoObservations
<1>10. GapInv
  BY <1>2, <1>5 DEF GapInv, NoObservations
<1>11. DeliveryInv
  <2>1. ASSUME NEW s \in Ssrcs PROVE Following(s) = 0 /\ sent[s] = 0
    BY <1>2 DEF Following, Init
  <2>2. 0 .. 0 - 1 = {}
    OBVIOUS
  <2> QED
    BY <1>2, <2>1, <2>2 DEF DeliveryInv
<1> QED
  BY <1>1, <1>3, <1>4, <1>6, <1>7, <1>8, <1>9, <1>10, <1>11, <1>12, <1>13 DEF ObserveInv

LEMMA ObserveStep ==
  ASSUME ObserveInv, [Next]_vars
  PROVE  ObserveInv'
<1>1. SfuInv' /\ FlightInv' /\ DeliveryInv'
  BY SfuStep, FlightStep, DeliveryStep DEF ObserveInv
<1>2. MetricsInv' /\ SeqInv' /\ LastInv'
  BY FlightStep, MetricsStep, SeqStep, LastStep DEF ObserveInv
<1>3. SwitchInv' /\ PendingInv' /\ RrInv'
  BY SwitchStep, PendingStep, RrStep DEF ObserveInv
<1>4. SsrcInv'
  BY SsrcStep DEF ObserveInv
<1>5. ReportsInv' /\ SrInv' /\ SrOrderInv'
  BY ReportsStep, SrStep, SrOrderStep DEF ObserveInv
<1> QED
  BY <1>1, <1>2, <1>3, <1>4, <1>5 DEF ObserveInv

LEMMA ObserveInvariant == Spec => []ObserveInv
<1>1. Init => ObserveInv
  BY ObserveStart
<1>2. ObserveInv /\ [Next]_vars => ObserveInv'
  BY ObserveStep
<1> QED
  BY <1>1, <1>2, PTL DEF Spec

LEMMA GapsInvariant ==
  ASSUME TsFits, IdleFits
  PROVE  Spec => []GapInv
<1>1. Init => GapInv
  BY ObserveStart
<1>2. ObserveInv /\ GapInv /\ [Next]_vars => GapInv'
  BY GapStep DEF ObserveInv
<1> QED
  BY <1>1, <1>2, ObserveInvariant, PTL DEF Spec

(***************************************************************************)
(* The state keeps its types, and the history keeps pace with the          *)
(* observations: a sequence number stays below 2^16, a packet or an SR is  *)
(* under way for Delay ticks at most, a stream has a last packet once it   *)
(* is known (the recv loop of bot.rs and SsrcRecvMetrics::update).         *)
(***************************************************************************)
THEOREM ObserveTyped == Spec => []TypeOK
<1>1. ASSUME ObserveInv
      PROVE  TypeOK
  <2>0. /\ limits.sent \in [Ssrcs -> Nat] /\ limits.time \in Nat /\ limits.mishaps \in Nat
        /\ limits.rtcp \in Nat /\ limits.requests \in Nat /\ Delay \in Nat
    BY <1>1, LimitTypes, TsModPositive DEF ObserveInv, SfuInv
  <2>1. MetricsTypeOK
    BY <1>1, MetricsTyped DEF ObserveInv
  <2>2. now \in 0 .. limits.time /\ mode \in Modes
    BY <1>1, <2>0 DEF ObserveInv, SfuInv
  <2>3. ASSUME NEW s \in Ssrcs
        PROVE  sent[s] \in 0 .. limits.sent[s] /\ stamp[s] \in -1 .. limits.time
    <3>1. /\ sent[s] \in Nat /\ sent[s] <= limits.sent[s] /\ limits.sent[s] \in Nat
          /\ stamp[s] \in Int /\ -1 <= stamp[s] /\ stamp[s] <= now
      BY <1>1, <2>0 DEF ObserveInv, SfuInv
    <3> QED
      BY <2>0, <2>2, <3>1
  <2>4. ASSUME NEW p \in flight
        PROVE  p.ix < sent[p.ssrc] /\ p.at \in now - Delay .. now
    <3>1. p.ix < sent[p.ssrc] /\ p.at \in Nat /\ p.at <= now /\ now <= p.at + Delay
      BY <1>1 DEF ObserveInv, SfuInv, Packets
    <3> QED
      BY <2>0, <2>2, <3>1
  <2>5. \A s \in Ssrcs : ssrc_last[s] = NotSeen <=> s \notin Known
    BY <1>1 DEF ObserveInv, LastInv
  <2>6. DOMAIN obs = DOMAIN NoObservations
    BY <1>1 DEF ObserveInv, SwitchInv, Whole
  <2>7. pending \in {"none", "h", "pause"} /\ Len(before) = Len(obs.simulcast_layer_switches)
    BY <1>1 DEF ObserveInv, PendingInv, SwitchesOf
  <2>8. /\ faults \subseteq {"raw_ssrc", "ts_frozen", "sr_rewritten", "rr_relayed"}
        /\ rtcp <= limits.rtcp /\ requests <= limits.requests
    BY <1>1 DEF ObserveInv, SfuInv
  <2>9. mishaps \in [Kinds -> 0 .. limits.mishaps]
    <3>1. mishaps \in [Kinds -> Nat] /\ Total(mishaps) <= limits.mishaps
      BY <1>1 DEF ObserveInv, SfuInv
    <3>2. \A kind \in Kinds : mishaps[kind] \in Nat
      BY <3>1
    <3>3. \A kind \in Kinds : mishaps[kind] <= limits.mishaps
      BY <2>0, <3>1, <3>2 DEF Kinds, SrKinds, Total
    <3> QED
      BY <2>0, <3>1, <3>2, <3>3
  <2>10. \A s \in Ssrcs : reported[s] \in -1 .. now
    <3>1. \A s \in Ssrcs : reported[s] \in Int /\ -1 <= reported[s] /\ reported[s] <= now
      BY <1>1 DEF ObserveInv, ReportsInv
    <3> QED
      BY <2>2, <3>1
  <2>11. ASSUME NEW r \in reports
         PROVE  r.at <= reported[r.ssrc] /\ r.at \in now - Delay .. now
    <3>1. /\ r \in Reports /\ r.at <= reported[r.ssrc] /\ now <= r.at + Delay
          /\ \A s \in Ssrcs : reported[s] \in Int /\ reported[s] <= now
      BY <1>1 DEF ObserveInv, ReportsInv
    <3>2. /\ r.at \in Nat /\ reported[r.ssrc] \in Int /\ reported[r.ssrc] <= now
      BY <3>1 DEF Reports
    <3> QED
      BY <2>0, <2>2, <3>1, <3>2
  <2>12. Len(arrived) = Len(obs.sr_received)
    BY <1>1 DEF ObserveInv, SrInv
  <2> QED
    BY <2>1, <2>2, <2>3, <2>4, <2>5, <2>6, <2>7, <2>8, <2>9, <2>10, <2>11, <2>12 DEF TypeOK
<1> QED
  BY <1>1, ObserveInvariant, PTL

-----------------------------------------------------------------------------
(***************************************************************************)
(* The verdicts over the records of one bot.                               *)
(***************************************************************************)
Solo(o) == [b \in {Bot} |-> o]

LEMMA JudgedFail ==
  ASSUME NEW applies, NEW fails
  PROVE  Judged(applies, fails) = "FAIL" <=> applies /\ fails
BY DEF Judged

LEMMA SoloBot ==
  ASSUME NEW o
  PROVE  /\ DOMAIN Solo(o) = {Bot} /\ Solo(o)[Bot] = o
         /\ \A b \in DOMAIN Solo(o) : Solo(o)[b] = o
BY DEF Solo

\* What makes a checkpoint fail, by its records.
TwoReporters(o) == o.rr_received_count > 0 /\ Cardinality(o.rr_sender_ssrcs) > 1
NtpBackward(o) ==
  \E ij \in Successive(o.sr_received) : o.sr_received[ij[2]].ntp <= o.sr_received[ij[1]].ntp
RtpBackward(o) ==
  \E ij \in Successive(o.sr_received) :
    NotForward(o.sr_received[ij[1]].rtp_ts, o.sr_received[ij[2]].rtp_ts)
TwoSsrcs(o) == Cardinality(o.ptt_audio_ssrcs) > 1 \/ Cardinality(o.ptt_video_ssrcs) > 1
BadGap(o) == \E rec \in o.ptt_ts_gap_records : GapViolated(rec)
LostSome(snap) == \E s \in DOMAIN snap : snap[s].lost > 0

LEMMA SrVerdicts ==
  ASSUME NEW o, o.sr_received \in Seq(SenderReports)
  PROVE  /\ Eval02(Solo(o)) = "FAIL" <=> NtpBackward(o)
         /\ Eval03(Solo(o)) = "FAIL" <=> RtpBackward(o)
<1>1. AnySr(Solo(o)) <=> o.sr_received # <<>>
  BY SoloBot DEF AnySr
<1>2. o.sr_received = <<>> => Successive(o.sr_received) = {}
  BY DEF Successive
<1>3. DOMAIN Solo(o) = {Bot} /\ Solo(o)[Bot] = o
  BY SoloBot
<1>4. Eval02(Solo(o)) = "FAIL" <=> o.sr_received # <<>> /\ NtpBackward(o)
  <2> DEFINE fails == \E b \in DOMAIN Solo(o) : LET srs == Solo(o)[b].sr_received IN
                        \E ij \in Successive(srs) : srs[ij[2]].ntp <= srs[ij[1]].ntp
  <2>1. fails <=> NtpBackward(o)
    BY <1>3 DEF NtpBackward
  <2>2. Eval02(Solo(o)) = Judged(AnySr(Solo(o)), fails)
    BY DEF Eval02
  <2> HIDE DEF fails
  <2> QED
    BY <1>1, <2>1, <2>2, JudgedFail
<1>5. Eval03(Solo(o)) = "FAIL" <=> o.sr_received # <<>> /\ RtpBackward(o)
  <2> DEFINE fails == \E b \in DOMAIN Solo(o) : LET srs == Solo(o)[b].sr_received IN
                        \E ij \in Successive(srs) :
                          NotForward(srs[ij[1]].rtp_ts, srs[ij[2]].rtp_ts)
  <2>1. fails <=> RtpBackward(o)
    BY <1>3 DEF RtpBackward
  <2>2. Eval03(Solo(o)) = Judged(AnySr(Solo(o)), fails)
    BY DEF Eval03
  <2> HIDE DEF fails
  <2> QED
    BY <1>1, <2>1, <2>2, JudgedFail
<1> QED
  BY <1>2, <1>4, <1>5 DEF NtpBackward, RtpBackward

LEMMA RrVerdict ==
  ASSUME NEW o
  PROVE  Eval01(Solo(o)) = "FAIL" <=> TwoReporters(o)
<1> DEFINE heard == {b \in DOMAIN Solo(o) : Solo(o)[b].rr_received_count > 0}
<1>1. heard = IF o.rr_received_count > 0 THEN {Bot} ELSE {}
  BY SoloBot
<1>2. Eval01(Solo(o)) = Judged(heard # {},
                               \E b \in heard : Cardinality(Solo(o)[b].rr_sender_ssrcs) > 1)
  BY DEF Eval01
<1>3. Solo(o)[Bot] = o
  BY SoloBot
<1> HIDE DEF heard
<1>4. Eval01(Solo(o)) = "FAIL"
        <=> heard # {} /\ \E b \in heard : Cardinality(Solo(o)[b].rr_sender_ssrcs) > 1
  BY <1>2, JudgedFail
<1> QED
  BY <1>1, <1>3, <1>4 DEF TwoReporters

LEMMA SsrcVerdict ==
  ASSUME NEW o, NEW room, o.ptt_audio_ssrcs \subseteq {Audio},
         o.ptt_video_ssrcs \subseteq {Video, RawVideo}
  PROVE  Eval07(Solo(o), room) = "FAIL" <=> room = "ptt" /\ TwoSsrcs(o)
<1>1. Cardinality({}) = 0
  BY FS_EmptySet
<1>2. TwoSsrcs(o) => o.ptt_audio_ssrcs # {} \/ o.ptt_video_ssrcs # {}
  BY <1>1 DEF TwoSsrcs
<1>3. Eval07(Solo(o), room) = "FAIL"
        <=> /\ room = "ptt" /\ (o.ptt_audio_ssrcs # {} \/ o.ptt_video_ssrcs # {})
            /\ TwoSsrcs(o)
  BY SoloBot, JudgedFail DEF Eval07, TwoSsrcs
<1> QED
  BY <1>2, <1>3

LEMMA GapVerdict ==
  ASSUME NEW o, NEW room
  PROVE  Eval08(Solo(o), room) = "FAIL" <=> room = "ptt" /\ BadGap(o)
<1> DEFINE records == UNION {Solo(o)[b].ptt_ts_gap_records : b \in DOMAIN Solo(o)}
<1>1. records = o.ptt_ts_gap_records
  BY SoloBot
<1>2. Eval08(Solo(o), room) = Judged(room = "ptt" /\ records # {},
                                     \E rec \in records : GapViolated(rec))
  BY DEF Eval08
<1> HIDE DEF records
<1> QED
  BY <1>1, <1>2, JudgedFail DEF BadGap

LEMMA LossVerdict ==
  ASSUME NEW snap, \A s \in DOMAIN snap : snap[s].received \in Nat
  PROVE  Eval13(Solo(snap), "pristine") = "FAIL" <=> LostSome(snap)
<1> DEFINE snaps == Solo(snap)
           receivers(s) == {b \in DOMAIN snaps : s \in DOMAIN snaps[b]}
<1>1. DOMAIN snaps = {Bot} /\ snaps[Bot] = snap
  BY SoloBot
<1> HIDE DEF snaps
<1>2. Eval13(snaps, "pristine") = "FAIL"
        <=> \/ DOMAIN snaps = {}
            \/ \E b \in DOMAIN snaps : \E s \in DOMAIN snaps[b] : snaps[b][s].lost > 0
            \/ \E s \in Streams(snaps) : \E a, b \in receivers(s) :
                 snaps[a][s].received - snaps[b][s].received > 2
  BY JudgedFail DEF Eval13
<1>3. ASSUME NEW s, NEW a \in receivers(s), NEW b \in receivers(s)
      PROVE  ~(snaps[a][s].received - snaps[b][s].received > 2)
  <2>1. a = Bot /\ b = Bot /\ s \in DOMAIN snap
    BY <1>1, <1>3
  <2>2. snap[s].received \in Nat
    BY <2>1
  <2>3. snap[s].received - snap[s].received = 0
    BY <2>2
  <2> QED
    BY <1>1, <2>1, <2>3
<1>4. (\E b \in DOMAIN snaps : \E s \in DOMAIN snaps[b] : snaps[b][s].lost > 0)
        <=> LostSome(snap)
  BY <1>1 DEF LostSome
<1> QED
  BY <1>1, <1>2, <1>3, <1>4 DEF snaps

Heard == [s \in Known |-> metrics[s]]

LEMMA VerdictsOf ==
  /\ verdicts.L1_01 = Eval01(Solo(obs))
  /\ verdicts.L1_02 = Eval02(Solo(obs)) /\ verdicts.L1_03 = Eval03(Solo(obs))
  /\ verdicts.L1_07 = Eval07(Solo(obs), mode) /\ verdicts.L1_08 = Eval08(Solo(obs), mode)
  /\ verdicts.L1_13 = Eval13(Solo(Heard), "pristine")
<1>1. verdicts = Verdicts(Solo(Heard), Solo(obs), mode, "pristine")
  BY DEF verdicts, Solo, Heard
<1> QED
  BY <1>1 DEF Verdicts

\* The order of Nat as a relation.
Below == {ss \in Nat \X Nat : ss[1] < ss[2]}

LEMMA Smallest ==
  ASSUME NEW T, T \subseteq Nat, T # {}
  PROVE  \E x \in T : \A y \in T : x <= y
<1>1. IsWellFoundedOn(Below, Nat)
  BY NatLessThanWellFounded DEF OpToRel, Below
<1>2. PICK x \in T : \A y \in T : ~(<<y, x>> \in Below)
  BY <1>1, WFMin
<1>3. ASSUME NEW y \in T PROVE x <= y
  <2>1. x \in Nat /\ y \in Nat
    OBVIOUS
  <2>2. <<y, x>> \in Below <=> y < x
    BY <2>1 DEF Below
  <2> QED
    BY <1>2, <2>1, <2>2
<1> QED
  BY <1>3

\* Two of one stream of which the later shows no later value.
GoesBack(srs, val, i, j) ==
  i \in DOMAIN srs /\ j \in DOMAIN srs /\ i < j /\ srs[i].ssrc = srs[j].ssrc /\ val[j] <= val[i]

(***************************************************************************)
(* Comparing neighbours of a stream is enough: of two that go back, the    *)
(* closest are neighbours.                                                 *)
(***************************************************************************)
LEMMA NeighboursSuffice ==
  ASSUME NEW S, NEW srs \in Seq(S), NEW val, \A k \in DOMAIN srs : val[k] \in Nat,
         NEW a, NEW b, GoesBack(srs, val, a, b)
  PROVE  \E i, j : GoesBack(srs, val, i, j) /\ <<i, j>> \in Successive(srs)
<1> DEFINE T == {d \in Nat : \E i, j : GoesBack(srs, val, i, j) /\ d = j - i}
<1>0. \A k \in DOMAIN srs : k \in Nat
  OBVIOUS
<1>1. T \subseteq Nat /\ T # {}
  <2>1. b - a \in Nat
    BY <1>0 DEF GoesBack
  <2> QED
    BY <2>1
<1>t. \A x, y, e : GoesBack(srs, val, x, y) /\ e = y - x /\ e \in Nat => e \in T
  OBVIOUS
<1>2. PICK d \in T : \A e \in T : d <= e
  BY <1>1, Smallest
<1>3. PICK i, j : GoesBack(srs, val, i, j) /\ d = j - i
  OBVIOUS
<1> HIDE DEF T
<1>4. /\ i \in DOMAIN srs /\ j \in DOMAIN srs /\ i < j /\ i \in Nat /\ j \in Nat
      /\ srs[i].ssrc = srs[j].ssrc /\ val[j] <= val[i] /\ val[i] \in Nat /\ val[j] \in Nat
  BY <1>0, <1>3 DEF GoesBack
<1>5. ASSUME NEW k \in i + 1 .. j - 1, srs[k].ssrc = srs[i].ssrc
      PROVE  FALSE
  <2>1. k \in DOMAIN srs /\ k \in Nat /\ val[k] \in Nat /\ i < k /\ k < j
    <3>1. DOMAIN srs = 1 .. Len(srs) /\ Len(srs) \in Nat
      OBVIOUS
    <3>2. k \in DOMAIN srs /\ i < k /\ k < j
      BY <1>4, <3>1
    <3> QED
      BY <1>0, <3>2
  <2>2. CASE val[k] <= val[i]
    <3>1. GoesBack(srs, val, i, k)
      BY <1>4, <1>5, <2>1, <2>2 DEF GoesBack
    <3>2. k - i \in Nat
      BY <1>4, <2>1
    <3>3. k - i \in T
      BY <1>t, <3>1, <3>2, Zenon
    <3>4. d <= k - i
      BY <1>2, <3>3
    <3> QED
      BY <1>3, <1>4, <2>1, <3>4
  <2>3. CASE ~(val[k] <= val[i])
    <3>1. val[j] <= val[k]
      BY <1>4, <2>1, <2>3
    <3>2. GoesBack(srs, val, k, j)
      BY <1>4, <1>5, <2>1, <3>1 DEF GoesBack
    <3>3. j - k \in Nat
      BY <1>4, <2>1
    <3>4. j - k \in T
      BY <1>t, <3>2, <3>3, Zenon
    <3>5. d <= j - k
      BY <1>2, <3>4
    <3> QED
      BY <1>3, <1>4, <2>1, <3>5
  <2> QED
    BY <2>2, <2>3
<1>6. <<i, j>> \in Successive(srs)
  BY <1>4, <1>5 DEF Successive
<1> QED
  BY <1>3, <1>6

LEMMA SuccessivePairs ==
  ASSUME NEW srs, NEW ij \in Successive(srs)
  PROVE  /\ ij[1] \in DOMAIN srs /\ ij[2] \in DOMAIN srs /\ ij[1] < ij[2]
         /\ srs[ij[1]].ssrc = srs[ij[2]].ssrc
BY DEF Successive

\* What an SR that arrived left in the records.
LEMMA Recorded ==
  ASSUME TsFits, SfuInv, SrInv
  PROVE  /\ DOMAIN obs.sr_received = DOMAIN arrived
         /\ \A i \in DOMAIN arrived :
              LET sr == obs.sr_received[i] IN
              /\ sr.ssrc = arrived[i].ssrc /\ sr.ntp = arrived[i].ntp /\ sr.ntp \in Nat
              /\ sr.rtp_ts = TsAt(arrived[i].ssrc, arrived[i].time)
              /\ arrived[i].time \in Nat /\ 4 * arrived[i].time < TsMod
<1>1. DOMAIN obs.sr_received = DOMAIN arrived
  BY DEF SrInv
<1>2. ASSUME NEW i \in DOMAIN arrived
      PROVE  LET sr == obs.sr_received[i] IN
             /\ sr.ssrc = arrived[i].ssrc /\ sr.ntp = arrived[i].ntp /\ sr.ntp \in Nat
             /\ sr.rtp_ts = TsAt(arrived[i].ssrc, arrived[i].time)
             /\ arrived[i].time \in Nat /\ 4 * arrived[i].time < TsMod
  <2>1. arrived[i] \in Reports
    BY DEF SrInv
  <2>2. obs.sr_received[i] = SrOf(arrived[i]) /\ arrived[i].time \in Shown(limits)
    BY DEF SrInv
  <2>3. 4 * arrived[i].time < TsMod
    BY <2>2 DEF TsFits, SfuInv
  <2> QED
    BY <2>1, <2>2, <2>3 DEF SrOf, Reports
<1> QED
  BY <1>1, <1>2

\* The comparison of NTP times finds every time that goes back.
LEMMA NtpFinds ==
  ASSUME TsFits, SfuInv, SrInv
  PROVE  NtpBackward(obs) <=> NtpGoesBack
<1> DEFINE srs == obs.sr_received
           val == [i \in DOMAIN srs |-> srs[i].ntp]
<1>1. /\ DOMAIN srs = DOMAIN arrived
      /\ \A i \in DOMAIN srs : /\ srs[i].ssrc = arrived[i].ssrc
                               /\ srs[i].ntp = arrived[i].ntp /\ srs[i].ntp \in Nat
  BY Recorded
<1>2. srs \in Seq(SenderReports)
  BY DEF SrInv
<1>3. NtpBackward(obs) <=> \E ij \in Successive(srs) : srs[ij[2]].ntp <= srs[ij[1]].ntp
  BY DEF NtpBackward
<1> HIDE DEF srs
<1>4. ASSUME NEW ij \in Successive(srs), srs[ij[2]].ntp <= srs[ij[1]].ntp
      PROVE  NtpGoesBack
  BY <1>1, <1>4, SuccessivePairs DEF NtpGoesBack, Earlier
<1>5. ASSUME NEW a \in DOMAIN arrived, NEW b \in DOMAIN arrived, Earlier(a, b),
             arrived[b].ntp <= arrived[a].ntp
      PROVE  \E ij \in Successive(srs) : srs[ij[2]].ntp <= srs[ij[1]].ntp
  <2>1. GoesBack(srs, val, a, b) /\ \A k \in DOMAIN srs : val[k] \in Nat
    BY <1>1, <1>5 DEF GoesBack, Earlier
  <2> HIDE DEF val
  <2>2. PICK i, j : GoesBack(srs, val, i, j) /\ <<i, j>> \in Successive(srs)
    BY <1>2, <2>1, NeighboursSuffice
  <2>3. srs[j].ntp <= srs[i].ntp
    BY <2>2 DEF GoesBack, val
  <2> QED
    BY <2>2, <2>3
<1> QED
  BY <1>3, <1>4, <1>5 DEF NtpGoesBack

\* So does the comparison of RTP timestamps, across their wrap.
LEMMA RtpFinds ==
  ASSUME TsFits, SfuInv, SrInv
  PROVE  RtpBackward(obs) <=> TimeGoesBack
<1> DEFINE srs == obs.sr_received
           val == [i \in DOMAIN srs |-> arrived[i].time]
<1>1. /\ DOMAIN srs = DOMAIN arrived
      /\ \A i \in DOMAIN srs : /\ srs[i].ssrc = arrived[i].ssrc
                               /\ srs[i].rtp_ts = TsAt(arrived[i].ssrc, arrived[i].time)
                               /\ arrived[i].time \in Nat /\ 4 * arrived[i].time < TsMod
  BY Recorded
<1>2. srs \in Seq(SenderReports)
  BY DEF SrInv
<1>3. RtpBackward(obs)
        <=> \E ij \in Successive(srs) : NotForward(srs[ij[1]].rtp_ts, srs[ij[2]].rtp_ts)
  BY DEF RtpBackward
<1> HIDE DEF srs
<1>4. ASSUME NEW i \in DOMAIN srs, NEW j \in DOMAIN srs, srs[i].ssrc = srs[j].ssrc
      PROVE  NotForward(srs[i].rtp_ts, srs[j].rtp_ts) <=> arrived[j].time <= arrived[i].time
  <2>1. PICK s, x, y : s = arrived[i].ssrc /\ x = arrived[i].time /\ y = arrived[j].time
    OBVIOUS
  <2>2. srs[i].rtp_ts = TsAt(s, x) /\ srs[j].rtp_ts = TsAt(s, y)
    BY <1>1, <1>4, <2>1
  <2>3. x \in Nat /\ y \in Nat /\ 4 * x < TsMod /\ 4 * y < TsMod
    BY <1>1, <2>1
  <2>4. NotForward(TsAt(s, x), TsAt(s, y)) <=> y <= x
    BY <2>3, ClockOrders
  <2> QED
    BY <2>1, <2>2, <2>4
<1>5. ASSUME NEW ij \in Successive(srs), NotForward(srs[ij[1]].rtp_ts, srs[ij[2]].rtp_ts)
      PROVE  TimeGoesBack
  <2>1. /\ ij[1] \in DOMAIN srs /\ ij[2] \in DOMAIN srs /\ ij[1] < ij[2]
        /\ srs[ij[1]].ssrc = srs[ij[2]].ssrc
    BY SuccessivePairs
  <2>2. arrived[ij[2]].time <= arrived[ij[1]].time
    BY <1>4, <1>5, <2>1
  <2> QED
    BY <1>1, <2>1, <2>2 DEF TimeGoesBack, Earlier
<1>6. ASSUME NEW a \in DOMAIN arrived, NEW b \in DOMAIN arrived, Earlier(a, b),
             arrived[b].time <= arrived[a].time
      PROVE  \E ij \in Successive(srs) : NotForward(srs[ij[1]].rtp_ts, srs[ij[2]].rtp_ts)
  <2>1. GoesBack(srs, val, a, b) /\ \A k \in DOMAIN srs : val[k] \in Nat
    BY <1>1, <1>6 DEF GoesBack, Earlier
  <2> HIDE DEF val
  <2>2. PICK i, j : GoesBack(srs, val, i, j) /\ <<i, j>> \in Successive(srs)
    BY <1>2, <2>1, NeighboursSuffice
  <2>3. /\ i \in DOMAIN srs /\ j \in DOMAIN srs /\ srs[i].ssrc = srs[j].ssrc
        /\ arrived[j].time <= arrived[i].time
    BY <2>2 DEF GoesBack, val
  <2>4. NotForward(srs[i].rtp_ts, srs[j].rtp_ts)
    BY <1>4, <2>3
  <2> QED
    BY <2>2, <2>4
<1> QED
  BY <1>3, <1>5, <1>6 DEF TimeGoesBack

LEMMA SrVerdictsFind ==
  ASSUME TsFits, SfuInv, SrInv
  PROVE  /\ verdicts.L1_02 = "FAIL" <=> NtpGoesBack
         /\ verdicts.L1_03 = "FAIL" <=> TimeGoesBack
<1>1. obs.sr_received \in Seq(SenderReports)
  BY DEF SrInv
<1> QED
  BY <1>1, VerdictsOf, SrVerdicts, NtpFinds, RtpFinds

\* Nothing goes back unless the SFU wrote over it or the network mixed it up.
LEMMA OrderIsKept ==
  ASSUME SfuInv, SrInv, SrOrderInv, NtpGoesBack \/ TimeGoesBack
  PROVE  "sr_rewritten" \in faults \/ mishaps["sr_duplicate"] + mishaps["sr_reorder"] > 0
<1>1. mishaps["sr_duplicate"] \in Nat /\ mishaps["sr_reorder"] \in Nat
  BY DEF SfuInv, Kinds, SrKinds
<1>2. PICK i \in DOMAIN arrived, j \in DOMAIN arrived :
        /\ Earlier(i, j)
        /\ arrived[j].ntp <= arrived[i].ntp \/ arrived[j].time <= arrived[i].time
  BY DEF NtpGoesBack, TimeGoesBack
<1>3. arrived[i].at \in Nat /\ arrived[j].at \in Nat
  <2>1. arrived[i] \in Reports /\ arrived[j] \in Reports
    BY DEF SrInv
  <2> QED
    BY <2>1 DEF Reports
<1>4. ASSUME "sr_rewritten" \notin faults, mishaps["sr_duplicate"] = 0,
             mishaps["sr_reorder"] = 0
      PROVE  FALSE
  <2>1. Preserved(arrived[i]) /\ Preserved(arrived[j]) /\ arrived[i].at < arrived[j].at
    BY <1>2, <1>4 DEF SrOrderInv
  <2> QED
    BY <1>2, <1>3, <2>1 DEF Preserved
<1> QED
  BY <1>1, <1>4

LEMMA PairIsFinite == \A a, b : IsFiniteSet({a, b})
<1> SUFFICES ASSUME NEW a, NEW b PROVE IsFiniteSet({a, b})
  OBVIOUS
<1>1. IsFiniteSet({a}) /\ {a, b} = {a} \cup {b}
  BY FS_Singleton
<1> QED
  BY <1>1, FS_AddElement

LEMMA PairIsTwo ==
  ASSUME NEW a, NEW b, a # b, NEW S, {a, b} \subseteq S, IsFiniteSet(S)
  PROVE  Cardinality(S) > 1
<1>1. IsFiniteSet({a}) /\ Cardinality({a}) = 1
  BY FS_Singleton
<1>2. IsFiniteSet({a} \cup {b}) /\ Cardinality({a} \cup {b}) = Cardinality({a}) + 1
  BY <1>1, FS_AddElement
<1>3. Cardinality({a} \cup {b}) <= Cardinality(S) /\ {a} \cup {b} \subseteq S
  BY FS_Subset
<1>4. Cardinality(S) \in Nat
  BY FS_CardinalityType
<1> QED
  BY <1>1, <1>2, <1>3, <1>4

LEMMA AtMostOne ==
  ASSUME NEW a, NEW S, S \subseteq {a}
  PROVE  ~(Cardinality(S) > 1)
<1>1. S = {} \/ S = {a}
  OBVIOUS
<1>2. Cardinality({}) = 0 /\ Cardinality({a}) = 1
  BY FS_EmptySet, FS_Singleton
<1> QED
  BY <1>1, <1>2

(***************************************************************************)
(* The two comparisons of SRs fail exactly for a time that is not later    *)
(* than one of its stream that arrived before, whatever SRs of other       *)
(* streams come in between and wherever the RTP timestamp wraps, as long   *)
(* as all the times shown are within half its wrap; and a relayed RR and   *)
(* a second video SSRC are found (eval_l1_01, _02, _03, _07).              *)
(***************************************************************************)
THEOREM FaultsAreFound ==
  ASSUME TsFits
  PROVE  Spec => []FaultsAreSeen
<1>1. ASSUME ObserveInv
      PROVE  FaultsAreSeen
  <2>0. SfuInv /\ SrInv /\ RrInv /\ SsrcInv
    BY <1>1 DEF ObserveInv
  <2>1. /\ verdicts.L1_02 = "FAIL" <=> NtpGoesBack
        /\ verdicts.L1_03 = "FAIL" <=> TimeGoesBack
    BY <2>0, SrVerdictsFind
  <2>2. obs.rr_sender_ssrcs = {"rr_sfu", "rr_peer"} => verdicts.L1_01 = "FAIL"
    <3>1. IsFiniteSet({"rr_sfu", "rr_peer"})
      BY PairIsFinite
    <3>2. Cardinality({"rr_sfu", "rr_peer"}) > 1
      BY <3>1, PairIsTwo
    <3> QED
      BY <2>0, <3>2, VerdictsOf, RrVerdict DEF RrInv, TwoReporters
  <2>3. mode = "ptt" /\ {Video, RawVideo} \subseteq Known => verdicts.L1_07 = "FAIL"
    <3> SUFFICES ASSUME mode = "ptt", {Video, RawVideo} \subseteq Known
                 PROVE  verdicts.L1_07 = "FAIL"
      OBVIOUS
    <3>1. obs.ptt_audio_ssrcs \subseteq {Audio} /\ obs.ptt_video_ssrcs \subseteq {Video, RawVideo}
      BY <2>0 DEF SsrcInv
    <3>2. {Video, RawVideo} \subseteq obs.ptt_video_ssrcs
      BY <2>0 DEF SsrcInv
    <3>3. IsFiniteSet({Video, RawVideo}) /\ Video # RawVideo
      BY PairIsFinite, ObserveAssumption
    <3>4. IsFiniteSet(obs.ptt_video_ssrcs)
      BY <3>1, <3>3, FS_Subset
    <3>5. TwoSsrcs(obs)
      BY <3>2, <3>3, <3>4, PairIsTwo DEF TwoSsrcs
    <3> QED
      BY <3>1, <3>5, VerdictsOf, SsrcVerdict
  <2> QED
    BY <2>1, <2>2, <2>3 DEF FaultsAreSeen
<1> QED
  BY <1>1, ObserveInvariant, PTL

(***************************************************************************)
(* No alarm without a cause, whatever the network does within Delay: L1-01,*)
(* L1-07 and L1-08 fail only if the SFU did what they look for, L1-02 and  *)
(* L1-03 only if it wrote over an SR that arrived or the network repeated  *)
(* an SR or let one overtake another, and L1-13 only if the network lost a *)
(* packet or let one overtake another.  The times shown are within half    *)
(* the wrap of the RTP timestamp, and the 20 percent that eval_l1_08       *)
(* allows cover the delay because an idle time is five times as long.      *)
(***************************************************************************)
THEOREM NoFalseAlarm ==
  ASSUME TsFits, IdleFits
  PROVE  Spec => []FailHasCause
<1>1. ASSUME ObserveInv, GapInv
      PROVE  FailHasCause
  <2>0. SfuInv /\ DeliveryInv /\ MetricsInv /\ SrInv /\ SrOrderInv /\ RrInv /\ SsrcInv
    BY <1>1 DEF ObserveInv
  <2>1. verdicts.L1_01 = "FAIL" => "rr_relayed" \in faults
    <3>1. obs.rr_sender_ssrcs \subseteq {"rr_sfu"} => ~TwoReporters(obs)
      BY AtMostOne DEF TwoReporters
    <3> QED
      BY <2>0, <3>1, VerdictsOf, RrVerdict DEF RrInv
  <2>2. verdicts.L1_02 = "FAIL" \/ verdicts.L1_03 = "FAIL"
          => "sr_rewritten" \in faults \/ mishaps["sr_duplicate"] + mishaps["sr_reorder"] > 0
    BY <2>0, SrVerdictsFind, OrderIsKept
  <2>3. verdicts.L1_07 = "FAIL" => "raw_ssrc" \in faults
    <3>1. obs.ptt_audio_ssrcs \subseteq {Audio} /\ obs.ptt_video_ssrcs \subseteq {Video, RawVideo}
      BY <2>0 DEF SsrcInv
    <3>2. obs.ptt_video_ssrcs \subseteq {Video} => ~TwoSsrcs(obs)
      BY <3>1, AtMostOne DEF TwoSsrcs
    <3> QED
      BY <2>0, <3>1, <3>2, VerdictsOf, SsrcVerdict DEF SsrcInv
  <2>4. verdicts.L1_08 = "FAIL" => "ts_frozen" \in faults
    BY <1>1, VerdictsOf, GapVerdict DEF GapInv, BadGap
  <2>5. verdicts.L1_13 = "FAIL" => mishaps["loss"] + mishaps["reorder"] > 0
    <3>1. mishaps["loss"] \in Nat /\ mishaps["reorder"] \in Nat
      BY <2>0 DEF SfuInv, Kinds
    <3>2. \A s \in Known : CountType(metrics[s])
      BY <2>0 DEF MetricsInv, Known, StreamInv
    <3>3. \A s \in DOMAIN Heard : Heard[s].received \in Nat
      BY <3>2 DEF Heard, CountType
    <3>4. verdicts.L1_13 = "FAIL" <=> LostSome(Heard)
      BY <3>3, VerdictsOf, LossVerdict
    <3>5. ASSUME mishaps["loss"] = 0, mishaps["reorder"] = 0
          PROVE  ~LostSome(Heard)
      <4>1. \A s \in Known : metrics[s].lost = 0
        BY <2>0, <3>5 DEF DeliveryInv, Known
      <4> QED
        BY <4>1 DEF LostSome, Heard
    <3> QED
      BY <3>1, <3>4, <3>5
  <2>6. /\ Cause("L1_01") <=> "rr_relayed" \in faults
        /\ Cause("L1_02") <=> "sr_rewritten" \in faults
                                \/ mishaps["sr_duplicate"] + mishaps["sr_reorder"] > 0
        /\ Cause("L1_03") <=> Cause("L1_02")
        /\ Cause("L1_07") <=> "raw_ssrc" \in faults
        /\ Cause("L1_08") <=> "ts_frozen" \in faults
        /\ Cause("L1_13") <=> mishaps["loss"] + mishaps["reorder"] > 0
    BY DEF Cause
  <2> QED
    BY <2>1, <2>2, <2>3, <2>4, <2>5, <2>6 DEF FailHasCause
<1> QED
  BY <1>1, ObserveInvariant, GapsInvariant, PTL

-----------------------------------------------------------------------------
(***************************************************************************)
(* The records that a verdict reads only grow.                             *)
(***************************************************************************)
Longer(s, t) == t = s \/ \E e : t = Append(s, e)

SteadyFields ==
  {"ptt_non_speaker_rtp_count", "ptt_first_video_was_keyframe", "video_before_ack_count",
   "tracks_ack_sent", "queue_positions"}

RecordsTyped(o) ==
  /\ o.rr_received_count \in Nat
  /\ o.rr_sender_ssrcs \subseteq {"rr_sfu", "rr_peer"}
  /\ o.sr_received \in Seq(SenderReports) /\ IsSequence(SwitchesOf(o))
  /\ o.ptt_audio_ssrcs \subseteq {Audio} /\ o.ptt_video_ssrcs \subseteq {Video, RawVideo}

RecordsGrow(o, q) ==
  /\ o.rr_received_count <= q.rr_received_count /\ o.rr_sender_ssrcs \subseteq q.rr_sender_ssrcs
  /\ Longer(o.sr_received, q.sr_received) /\ Longer(SwitchesOf(o), SwitchesOf(q))
  /\ o.ptt_audio_ssrcs \subseteq q.ptt_audio_ssrcs
  /\ o.ptt_video_ssrcs \subseteq q.ptt_video_ssrcs
  /\ o.ptt_ts_gap_records \subseteq q.ptt_ts_gap_records
  /\ \A f \in SteadyFields : q[f] = o[f]

CountsTyped(snap) == \A s \in DOMAIN snap : snap[s].received \in Nat /\ snap[s].lost \in Nat

CountsGrow(snap, later) ==
  \A s \in DOMAIN snap : s \in DOMAIN later /\ snap[s].lost <= later[s].lost

LEMMA RecordsAreTyped ==
  ASSUME ObserveInv
  PROVE  RecordsTyped(obs) /\ CountsTyped(Heard)
<1>1. RecordsTyped(obs)
  BY DEF ObserveInv, RrInv, SrInv, SsrcInv, SwitchInv, RecordsTyped
<1>2. \A s \in Known : CountType(metrics[s])
  BY DEF ObserveInv, MetricsInv, Known, StreamInv
<1> QED
  BY <1>1, <1>2 DEF CountsTyped, Heard, CountType

LEMMA RecordsOnlyGrow ==
  ASSUME ObserveInv, [Next]_vars
  PROVE  RecordsGrow(obs, obs')
<1>0. /\ SwitchInv /\ RrInv /\ obs.rr_received_count \in Nat /\ Whole(obs)
  BY DEF ObserveInv, RrInv, SwitchInv
<1>1. CASE obs' = obs
  BY <1>0, <1>1 DEF RecordsGrow, Longer
<1>2. CASE SrArrives
  <2>1. PICK r, again : RecvSr(r, again)
    BY <1>2 DEF SrArrives
  <2>2. OnlyChanges(obs, obs', {"sr_received"}) /\ Longer(obs.sr_received, obs'.sr_received)
    BY <1>0, <2>1, SrEffect DEF Longer
  <2>3. /\ obs'.rr_received_count = obs.rr_received_count
        /\ obs'.rr_sender_ssrcs = obs.rr_sender_ssrcs
        /\ SwitchesOf(obs') = SwitchesOf(obs)
        /\ obs'.ptt_audio_ssrcs = obs.ptt_audio_ssrcs
        /\ obs'.ptt_video_ssrcs = obs.ptt_video_ssrcs
        /\ obs'.ptt_ts_gap_records = obs.ptt_ts_gap_records
    BY <2>2 DEF OnlyChanges, NoObservations, SwitchesOf
  <2>4. \A f \in SteadyFields : obs'[f] = obs[f]
    BY <2>2 DEF OnlyChanges, NoObservations, SteadyFields
  <2>5. /\ Longer(SwitchesOf(obs), SwitchesOf(obs'))
        /\ obs.rr_received_count <= obs'.rr_received_count
    BY <1>0, <2>3 DEF Longer
  <2> QED
    BY <2>2, <2>3, <2>4, <2>5 DEF RecordsGrow
<1>3. CASE CompoundArrives
  <2>1. PICK first, second : RecvCompound(first, second)
    BY <1>3 DEF CompoundArrives
  <2>2. /\ OnlyChanges(obs, obs', RtcpFields)
        /\ obs.rr_sender_ssrcs \subseteq obs'.rr_sender_ssrcs
        /\ obs.rr_received_count <= obs'.rr_received_count
    BY <1>0, <2>1, CompoundEffect
  <2> QED
    BY <2>2
    DEF OnlyChanges, NoObservations, RecordsGrow, Longer, SwitchesOf, SteadyFields, RtcpFields
<1>4. CASE RtpArrives
  <2>1. PICK p, again : RecvRtp(p, again)
    BY <1>4 DEF RtpArrives
  <2>2. /\ OnlyChanges(obs, obs', RtpFields)
        /\ obs.ptt_audio_ssrcs \subseteq obs'.ptt_audio_ssrcs
        /\ obs.ptt_video_ssrcs \subseteq obs'.ptt_video_ssrcs
        /\ obs.ptt_ts_gap_records \subseteq obs'.ptt_ts_gap_records
        /\ OneMoreSwitch \/ NoSwitch
    BY <1>0, <2>1, RtpEffect
  <2>3. Longer(SwitchesOf(obs), SwitchesOf(obs'))
    BY <2>2 DEF OneMoreSwitch, NoSwitch, Longer
  <2> QED
    BY <1>0, <2>2, <2>3
    DEF OnlyChanges, NoObservations, RecordsGrow, Longer, SteadyFields, RtpFields
<1> QED
  BY <1>1, <1>2, <1>3, <1>4, RecordKinds

LEMMA CountsOnlyGrow ==
  ASSUME ObserveInv, [Next]_vars
  PROVE  CountsGrow(Heard, Heard')
<1>0. MetricsInv /\ FlightInv /\ \A s \in Known : CountType(metrics[s])
  BY DEF ObserveInv, MetricsInv, Known, StreamInv
<1>1. CASE Otherwise
  <2>1. Heard' = Heard
    BY <1>1 DEF Otherwise, metricsVars, Heard, Known
  <2> QED
    BY <1>0, <2>1 DEF CountsGrow, Heard, CountType
<1>2. ASSUME NEW p \in flight, NEW again \in BOOLEAN, RecvRtp(p, again)
      PROVE  CountsGrow(Heard, Heard')
  <2>1. /\ p.ssrc \in Ssrcs /\ p.ix \in Nat /\ Known' = Known \cup {p.ssrc}
        /\ metrics' = [metrics EXCEPT ![p.ssrc] = StoreUpdated(metrics[p.ssrc], SeqOf(p.ix))]
    BY <1>0, <1>2, PacketArrives
  <2>2. ASSUME NEW s \in Known
        PROVE  s \in Known' /\ metrics[s].lost <= metrics'[s].lost
    <3> DEFINE m == metrics[s]
    <3>1. s \in Ssrcs /\ m # NoStream /\ CountType(m) /\ m.lost \in Nat
      BY <1>0 DEF Known, CountType
    <3>2. CASE s # p.ssrc
      <4>1. metrics'[s] = metrics[s]
        BY <1>0, <2>1, <3>1, <3>2 DEF MetricsInv
      <4> QED
        BY <2>1, <3>1, <4>1
    <3>3. CASE s = p.ssrc
      <4> DEFINE seq == SeqOf(p.ix)
                 d == Signed(seq - (m.last_seq + 1))
      <4>1. metrics'[s] = Updated(m, seq)
        BY <1>0, <2>1, <3>1, <3>3 DEF MetricsInv, StoreUpdated
      <4>2. seq \in Int /\ m.last_seq \in Int
        BY <2>1, <3>1, Bounds DEF SeqOf, CountType
      <4>3. d \in Int
        BY <4>2 DEF Signed
      <4> HIDE DEF d, seq
      <4>4. Updated(m, seq).lost = IF d > 0 THEN m.lost + d ELSE m.lost
        BY <3>1, <4>2, <4>3, UpdatedCounts DEF d
      <4>5. m.lost <= Updated(m, seq).lost
        BY <3>1, <4>3, <4>4
      <4> QED
        BY <2>1, <4>1, <4>5
    <3> QED
      BY <3>2, <3>3
  <2> QED
    BY <2>2 DEF CountsGrow, Heard
<1> QED
  BY <1>1, <1>2, StepKinds

(***************************************************************************)
(* So a checkpoint that fails goes on failing.                             *)
(***************************************************************************)
LEMMA SubsetGrows ==
  ASSUME NEW S, NEW T, S \subseteq T, IsFiniteSet(T), Cardinality(S) > 1
  PROVE  Cardinality(T) > 1
<1>1. IsFiniteSet(S) /\ Cardinality(S) <= Cardinality(T)
  BY FS_Subset
<1>2. Cardinality(S) \in Nat /\ Cardinality(T) \in Nat
  BY <1>1, FS_CardinalityType
<1> QED
  BY <1>1, <1>2

LEMMA AppendKeeps ==
  ASSUME NEW s, IsSequence(s), NEW t, Longer(s, t)
  PROVE  \A i \in DOMAIN s : i \in DOMAIN t /\ t[i] = s[i]
<1>1. CASE t = s
  BY <1>1
<1>2. ASSUME NEW e, t = Append(s, e)
      PROVE  \A i \in DOMAIN s : i \in DOMAIN t /\ t[i] = s[i]
  <2>1. PICK S : s \in Seq(S)
    BY DEF IsSequence
  <2>2. DOMAIN s = 1 .. Len(s) /\ Len(s) \in Nat
    BY <2>1
  <2>3. DOMAIN t = 1 .. Len(s) + 1 /\ \A i \in 1 .. Len(s) : t[i] = s[i]
    BY <1>2, <2>1
  <2> QED
    BY <2>2, <2>3
<1> QED
  BY <1>1, <1>2 DEF Longer

LEMMA SuccessiveStay ==
  ASSUME NEW s, IsSequence(s), NEW t, Longer(s, t), NEW ij \in Successive(s)
  PROVE  ij \in Successive(t) /\ t[ij[1]] = s[ij[1]] /\ t[ij[2]] = s[ij[2]]
<1>1. /\ ij \in (DOMAIN s) \X (DOMAIN s) /\ ij[1] < ij[2] /\ s[ij[1]].ssrc = s[ij[2]].ssrc
      /\ \A k \in ij[1] + 1 .. ij[2] - 1 : s[k].ssrc # s[ij[1]].ssrc
  BY DEF Successive
<1>2. \A i \in DOMAIN s : i \in DOMAIN t /\ t[i] = s[i]
  BY AppendKeeps
<1>3. PICK S : s \in Seq(S)
  BY DEF IsSequence
<1>4. DOMAIN s = 1 .. Len(s) /\ Len(s) \in Nat
  BY <1>3
<1>5. \A k \in ij[1] + 1 .. ij[2] - 1 : k \in DOMAIN s
  BY <1>1, <1>4
<1>6. ij \in (DOMAIN t) \X (DOMAIN t)
  BY <1>1, <1>2
<1> QED
  BY <1>1, <1>2, <1>5, <1>6 DEF Successive

LEMMA SwitchesStay ==
  ASSUME NEW o, NEW q, IsSequence(SwitchesOf(o)), Longer(SwitchesOf(o), SwitchesOf(q))
  PROVE  Switches(Solo(o)) \subseteq Switches(Solo(q))
<1>1. \A i \in DOMAIN SwitchesOf(o) :
        i \in DOMAIN SwitchesOf(q) /\ SwitchesOf(q)[i] = SwitchesOf(o)[i]
  BY AppendKeeps
<1>2. ASSUME NEW x
      PROVE  \A sw : sw \in Switches(Solo(x))
                       <=> /\ \E i \in DOMAIN SwitchesOf(x) : sw = SwitchesOf(x)[i]
                           /\ sw.requested_layer # "pause"
  <2>1. DOMAIN Solo(x) = {Bot} /\ Solo(x)[Bot] = x
    BY SoloBot
  <2> DEFINE all == {Solo(x)[Bot].simulcast_layer_switches[i] :
                       i \in DOMAIN Solo(x)[Bot].simulcast_layer_switches}
  <2>2. UNION {{Solo(x)[b].simulcast_layer_switches[i] :
                  i \in DOMAIN Solo(x)[b].simulcast_layer_switches} : b \in DOMAIN Solo(x)}
          = all
    BY <2>1
  <2>3. Switches(Solo(x)) = {sw \in all : sw.requested_layer # "pause"}
    BY <2>2 DEF Switches
  <2>4. \A sw : sw \in all <=> \E i \in DOMAIN SwitchesOf(x) : sw = SwitchesOf(x)[i]
    BY <2>1 DEF SwitchesOf
  <2> QED
    BY <2>3, <2>4
<1>3. ASSUME NEW sw \in Switches(Solo(o))
      PROVE  sw \in Switches(Solo(q))
  BY <1>1, <1>2
<1> QED
  BY <1>3

\* The checkpoints whose failures are kept.
Kept == {"L1_01", "L1_02", "L1_03", "L1_04", "L1_06", "L1_07", "L1_08", "L1_09", "L1_10",
         "L1_11", "L1_13", "L1_14", "L1_15", "L1_16", "L1_17", "L1_18", "L1_19", "L1_20"}

LEMMA RtcpVerdictsStay ==
  ASSUME NEW o, NEW q, RecordsTyped(o), RecordsTyped(q), RecordsGrow(o, q)
  PROVE  /\ Eval01(Solo(o)) = "FAIL" => Eval01(Solo(q)) = "FAIL"
         /\ Eval02(Solo(o)) = "FAIL" => Eval02(Solo(q)) = "FAIL"
         /\ Eval03(Solo(o)) = "FAIL" => Eval03(Solo(q)) = "FAIL"
<1>1. TwoReporters(o) => TwoReporters(q)
  <2> SUFFICES ASSUME TwoReporters(o) PROVE TwoReporters(q)
    OBVIOUS
  <2>1. IsFiniteSet(q.rr_sender_ssrcs)
    BY PairIsFinite, FS_Subset DEF RecordsTyped
  <2>2. Cardinality(q.rr_sender_ssrcs) > 1
    BY <2>1, SubsetGrows DEF TwoReporters, RecordsGrow
  <2>3. q.rr_received_count > 0
    BY DEF TwoReporters, RecordsGrow, RecordsTyped
  <2> QED
    BY <2>2, <2>3 DEF TwoReporters
<1>2. ASSUME NEW ij \in Successive(o.sr_received)
      PROVE  /\ ij \in Successive(q.sr_received)
             /\ q.sr_received[ij[1]] = o.sr_received[ij[1]]
             /\ q.sr_received[ij[2]] = o.sr_received[ij[2]]
  <2>1. IsSequence(o.sr_received) /\ Longer(o.sr_received, q.sr_received)
    BY DEF RecordsTyped, RecordsGrow, IsSequence
  <2> QED
    BY <2>1, SuccessiveStay
<1>3. NtpBackward(o) => NtpBackward(q)
  BY <1>2 DEF NtpBackward
<1>4. RtpBackward(o) => RtpBackward(q)
  BY <1>2 DEF RtpBackward
<1>5. o.sr_received \in Seq(SenderReports) /\ q.sr_received \in Seq(SenderReports)
  BY DEF RecordsTyped
<1> QED
  BY <1>1, <1>3, <1>4, <1>5, RrVerdict, SrVerdicts

LEMMA RtpVerdictsStay ==
  ASSUME NEW o, NEW q, RecordsTyped(o), RecordsTyped(q), RecordsGrow(o, q), NEW room,
         NEW snap, NEW later, CountsTyped(snap), CountsTyped(later), CountsGrow(snap, later)
  PROVE  /\ Eval07(Solo(o), room) = "FAIL" => Eval07(Solo(q), room) = "FAIL"
         /\ Eval08(Solo(o), room) = "FAIL" => Eval08(Solo(q), room) = "FAIL"
         /\ Eval13(Solo(snap), "pristine") = "FAIL" => Eval13(Solo(later), "pristine") = "FAIL"
<1>1. TwoSsrcs(o) => TwoSsrcs(q)
  <2>1. IsFiniteSet(q.ptt_audio_ssrcs) /\ IsFiniteSet(q.ptt_video_ssrcs)
    BY PairIsFinite, FS_Singleton, FS_Subset DEF RecordsTyped
  <2>2. /\ o.ptt_audio_ssrcs \subseteq q.ptt_audio_ssrcs
        /\ o.ptt_video_ssrcs \subseteq q.ptt_video_ssrcs
    BY DEF RecordsGrow
  <2> QED
    BY <2>1, <2>2, SubsetGrows DEF TwoSsrcs
<1>2. BadGap(o) => BadGap(q)
  BY DEF BadGap, RecordsGrow
<1>3. LostSome(snap) => LostSome(later)
  <2>1. ASSUME NEW s \in DOMAIN snap, snap[s].lost > 0
        PROVE  s \in DOMAIN later /\ later[s].lost > 0
    <3>1. s \in DOMAIN later /\ snap[s].lost <= later[s].lost
      BY DEF CountsGrow
    <3>2. snap[s].lost \in Nat /\ later[s].lost \in Nat
      BY <3>1 DEF CountsTyped
    <3> QED
      BY <2>1, <3>1, <3>2
  <2> QED
    BY <2>1 DEF LostSome
<1>4. /\ o.ptt_audio_ssrcs \subseteq {Audio} /\ o.ptt_video_ssrcs \subseteq {Video, RawVideo}
      /\ q.ptt_audio_ssrcs \subseteq {Audio} /\ q.ptt_video_ssrcs \subseteq {Video, RawVideo}
  BY DEF RecordsTyped
<1>5. /\ \A s \in DOMAIN snap : snap[s].received \in Nat
      /\ \A s \in DOMAIN later : later[s].received \in Nat
  BY DEF CountsTyped
<1> QED
  BY <1>1, <1>2, <1>3, <1>4, <1>5, SsrcVerdict, GapVerdict, LossVerdict

LEMMA SteadyVerdictsStay ==
  ASSUME NEW o, NEW q, RecordsGrow(o, q), NEW room
  PROVE  /\ Eval04(Solo(o), room) = "FAIL" => Eval04(Solo(q), room) = "FAIL"
         /\ Eval06(Solo(o), room) = "FAIL" => Eval06(Solo(q), room) = "FAIL"
         /\ Eval11(Solo(o)) = "FAIL" => Eval11(Solo(q)) = "FAIL"
         /\ Eval16(Solo(o), room) = "FAIL" => Eval16(Solo(q), room) = "FAIL"
<1>1. /\ q.ptt_non_speaker_rtp_count = o.ptt_non_speaker_rtp_count
      /\ q.ptt_first_video_was_keyframe = o.ptt_first_video_was_keyframe
      /\ q.video_before_ack_count = o.video_before_ack_count
      /\ q.tracks_ack_sent = o.tracks_ack_sent /\ q.queue_positions = o.queue_positions
  BY DEF RecordsGrow, SteadyFields
<1>2. \A x : DOMAIN Solo(x) = {Bot} /\ Solo(x)[Bot] = x
  BY SoloBot
<1>3. \A x : (\E b \in DOMAIN Solo(x) : Solo(x)[b].ptt_non_speaker_rtp_count > 0)
                <=> x.ptt_non_speaker_rtp_count > 0
  BY <1>2
<1>4. \A x : /\ (\E b \in DOMAIN Solo(x) : Solo(x)[b].ptt_first_video_was_keyframe # "none")
                  <=> x.ptt_first_video_was_keyframe # "none"
             /\ (\E b \in DOMAIN Solo(x) : Solo(x)[b].ptt_first_video_was_keyframe = "no")
                  <=> x.ptt_first_video_was_keyframe = "no"
  BY <1>2
<1>5. \A x : /\ AnyAck(Solo(x)) <=> x.tracks_ack_sent
             /\ (\E b \in DOMAIN Solo(x) : Solo(x)[b].video_before_ack_count > 0)
                  <=> x.video_before_ack_count > 0
  BY <1>2 DEF AnyAck
<1>6. \A x : UNION {Solo(x)[b].queue_positions : b \in DOMAIN Solo(x)} = x.queue_positions
  BY <1>2
<1>7. Eval04(Solo(o), room) = "FAIL" => Eval04(Solo(q), room) = "FAIL"
  BY <1>1, <1>3, JudgedFail DEF Eval04
<1>8. Eval06(Solo(o), room) = "FAIL" => Eval06(Solo(q), room) = "FAIL"
  <2> DEFINE some(x) == \E b \in DOMAIN Solo(x) : Solo(x)[b].ptt_first_video_was_keyframe # "none"
             bad(x) == \E b \in DOMAIN Solo(x) : Solo(x)[b].ptt_first_video_was_keyframe = "no"
  <2>1. (some(o) <=> some(q)) /\ (bad(o) <=> bad(q))
    <3>1. q.ptt_first_video_was_keyframe = o.ptt_first_video_was_keyframe
      BY <1>1
    <3> QED
      BY <1>4, <3>1
  <2>2. \A x : Eval06(Solo(x), room) = Judged(room = "ptt" /\ some(x), bad(x))
    BY DEF Eval06
  <2> HIDE DEF some, bad
  <2>3. ASSUME NEW x
        PROVE  Eval06(Solo(x), room) = "FAIL" <=> (room = "ptt" /\ some(x)) /\ bad(x)
    <3>1. Eval06(Solo(x), room) = Judged(room = "ptt" /\ some(x), bad(x))
      BY <2>2, Zenon
    <3> QED
      BY <3>1 DEF Judged
  <2> QED
    BY <2>1, <2>3, Zenon
<1>9. Eval11(Solo(o)) = "FAIL" => Eval11(Solo(q)) = "FAIL"
  <2> DEFINE early(x) == \E b \in DOMAIN Solo(x) : Solo(x)[b].video_before_ack_count > 0
  <2>0. /\ q.tracks_ack_sent = o.tracks_ack_sent
        /\ q.video_before_ack_count = o.video_before_ack_count
    BY <1>1
  <2>1. AnyAck(Solo(o)) <=> AnyAck(Solo(q))
    BY <2>0, <1>5, Zenon
  <2>2. early(o) <=> early(q)
    BY <2>0, <1>5, Zenon
  <2>3. \A x : Eval11(Solo(x)) = Judged(AnyAck(Solo(x)), early(x))
    BY DEF Eval11
  <2> HIDE DEF early
  <2> QED
    BY <2>1, <2>2, <2>3, JudgedFail
<1>10. Eval16(Solo(o), room) = Eval16(Solo(q), room)
  BY <1>1, <1>6 DEF Eval16
<1> QED
  BY <1>7, <1>8, <1>9, <1>10

LEMMA SwitchVerdictsStay ==
  ASSUME NEW o, NEW q, RecordsTyped(o), RecordsGrow(o, q)
  PROVE  /\ Eval18(Solo(o)) = "FAIL" => Eval18(Solo(q)) = "FAIL"
         /\ Eval19(Solo(o)) = "FAIL" => Eval19(Solo(q)) = "FAIL"
         /\ Eval20(Solo(o)) = "FAIL" => Eval20(Solo(q)) = "FAIL"
<1>1. Switches(Solo(o)) \subseteq Switches(Solo(q))
  BY SwitchesStay DEF RecordsTyped, RecordsGrow
<1>2. \A x : Eval18(Solo(x)) = "FAIL" <=> \E sw \in Switches(Solo(x)) : ~sw.packets_after
  BY JudgedFail DEF Eval18
<1>3. \A x : Eval19(Solo(x)) = "FAIL"
                <=> \E sw \in Switches(Solo(x)) : NotForward(sw.ts_before, sw.ts_after)
  BY JudgedFail DEF Eval19
<1>4. \A x : Eval20(Solo(x)) = "FAIL" <=> \E sw \in Switches(Solo(x)) : ~sw.keyframe_after
  BY JudgedFail DEF Eval20
<1> QED
  BY <1>1, <1>2, <1>3, <1>4

\* Some checkpoints only look whether anything arrived.
LEMMA NeverFail ==
  ASSUME NEW o, NEW room
  PROVE  /\ Eval09(o) # "FAIL" /\ Eval10(o) # "FAIL" /\ Eval17(o) # "FAIL"
         /\ Eval14(o, room) # "FAIL" /\ Eval15(o, room) # "FAIL"
BY JudgedFail DEF Eval09, Eval10, Eval14, Eval15, Eval17

LEMMA VerdictsStay ==
  ASSUME NEW o, NEW q, RecordsTyped(o), RecordsTyped(q), RecordsGrow(o, q), NEW room,
         NEW snap, NEW later, CountsTyped(snap), CountsTyped(later), CountsGrow(snap, later),
         NEW id \in Kept, Verdicts(Solo(snap), Solo(o), room, "pristine")[id] = "FAIL"
  PROVE  Verdicts(Solo(later), Solo(q), room, "pristine")[id] = "FAIL"
<1> DEFINE x == Verdicts(Solo(snap), Solo(o), room, "pristine")
           y == Verdicts(Solo(later), Solo(q), room, "pristine")
<1>1. CASE id \in {"L1_01", "L1_02", "L1_03"}
  <2>1. /\ x.L1_01 = Eval01(Solo(o)) /\ y.L1_01 = Eval01(Solo(q))
        /\ x.L1_02 = Eval02(Solo(o)) /\ y.L1_02 = Eval02(Solo(q))
        /\ x.L1_03 = Eval03(Solo(o)) /\ y.L1_03 = Eval03(Solo(q))
    BY DEF Verdicts
  <2> HIDE DEF x, y
  <2> QED
    BY <1>1, <2>1, RtcpVerdictsStay DEF x, y
<1>2. CASE id \in {"L1_07", "L1_08", "L1_13"}
  <2>1. /\ x.L1_07 = Eval07(Solo(o), room) /\ y.L1_07 = Eval07(Solo(q), room)
        /\ x.L1_08 = Eval08(Solo(o), room) /\ y.L1_08 = Eval08(Solo(q), room)
        /\ x.L1_13 = Eval13(Solo(snap), "pristine") /\ y.L1_13 = Eval13(Solo(later), "pristine")
    BY DEF Verdicts
  <2> HIDE DEF x, y
  <2> QED
    BY <1>2, <2>1, RtpVerdictsStay DEF x, y
<1>3. CASE id \in {"L1_04", "L1_06", "L1_11", "L1_16"}
  <2>1. /\ x.L1_04 = Eval04(Solo(o), room) /\ y.L1_04 = Eval04(Solo(q), room)
        /\ x.L1_06 = Eval06(Solo(o), room) /\ y.L1_06 = Eval06(Solo(q), room)
        /\ x.L1_11 = Eval11(Solo(o)) /\ y.L1_11 = Eval11(Solo(q))
        /\ x.L1_16 = Eval16(Solo(o), room) /\ y.L1_16 = Eval16(Solo(q), room)
    BY DEF Verdicts
  <2> HIDE DEF x, y
  <2> QED
    BY <1>3, <2>1, SteadyVerdictsStay DEF x, y
<1>4. CASE id \in {"L1_18", "L1_19", "L1_20"}
  <2>1. /\ x.L1_18 = Eval18(Solo(o)) /\ y.L1_18 = Eval18(Solo(q))
        /\ x.L1_19 = Eval19(Solo(o)) /\ y.L1_19 = Eval19(Solo(q))
        /\ x.L1_20 = Eval20(Solo(o)) /\ y.L1_20 = Eval20(Solo(q))
    BY DEF Verdicts
  <2> HIDE DEF x, y
  <2> QED
    BY <1>4, <2>1, SwitchVerdictsStay DEF x, y
<1>5. CASE id \in {"L1_09", "L1_10", "L1_14", "L1_15", "L1_17"}
  <2>1. /\ x.L1_09 = Eval09(Solo(o)) /\ x.L1_10 = Eval10(Solo(o)) /\ x.L1_17 = Eval17(Solo(o))
        /\ x.L1_14 = Eval14(Solo(o), room) /\ x.L1_15 = Eval15(Solo(o), room)
    BY DEF Verdicts
  <2> HIDE DEF x, y
  <2> QED
    BY <1>5, <2>1, NeverFail DEF x, y
<1> QED
  BY <1>1, <1>2, <1>3, <1>4, <1>5 DEF Kept

(***************************************************************************)
(* Once a checkpoint fails it goes on failing, whatever arrives later      *)
(* (evaluate(), which the engine calls once, at the end).                  *)
(***************************************************************************)
THEOREM FailuresAreKept == Spec => FailuresStick
<1> DEFINE Stays == LET found == verdicts
                        later == verdicts'
                    IN  \A id \in DOMAIN found \ {"L1_05", "L1_12", "L1_21"} :
                          found[id] = "FAIL" => later[id] = "FAIL"
<1>1. ASSUME ObserveInv, [Next]_vars
      PROVE  Stays
  <2>1. RecordsTyped(obs) /\ CountsTyped(Heard)
    BY <1>1, RecordsAreTyped
  <2>2. ObserveInv'
    BY <1>1, ObserveStep
  <2>3. RecordsTyped(obs') /\ CountsTyped(Heard')
    <3>1. RecordsTyped(obs)' /\ CountsTyped(Heard)'
      BY <2>2, RecordsAreTyped, PTL
    <3> QED
      BY <3>1 DEF RecordsTyped, CountsTyped, SwitchesOf, IsSequence
  <2>4. RecordsGrow(obs, obs') /\ CountsGrow(Heard, Heard')
    BY <1>1, RecordsOnlyGrow, CountsOnlyGrow
  <2>5. mode' = mode
    BY <1>1, Setting
  <2>6. /\ verdicts = Verdicts(Solo(Heard), Solo(obs), mode, "pristine")
        /\ verdicts' = Verdicts(Solo(Heard'), Solo(obs'), mode', "pristine")
    BY DEF verdicts, Solo, Heard, Known
  <2>7. DOMAIN verdicts \ {"L1_05", "L1_12", "L1_21"} \subseteq Kept
    BY <2>6 DEF Verdicts, Kept
  <2>8. ASSUME NEW id \in Kept, verdicts[id] = "FAIL"
        PROVE  verdicts'[id] = "FAIL"
    BY <2>1, <2>3, <2>4, <2>5, <2>6, <2>8, VerdictsStay
  <2> QED
    BY <2>7, <2>8
<1> QED
  BY <1>1, ObserveInvariant, PTL DEF Spec, FailuresStick
=============================================================================
