----------------------------- MODULE RecvMetrics -----------------------------
(***************************************************************************)
(* The receive metrics of a bot, per SSRC: crates/oxlab-bot/src/           *)
(* rtp_subscriber.rs.                                                      *)
(*                                                                         *)
(* The packets of a stream have an index; what a packet carries is the     *)
(* index's 16-bit sequence number.  The network may lose, delay, reorder   *)
(* and duplicate packets: the next one to arrive is at most Reorder behind *)
(* the last one and skips at most Gap.  Jitter, an average of wall-clock   *)
(* differences, is left out.                                               *)
(***************************************************************************)
EXTENDS Integers, FiniteSets

CONSTANTS
  Ssrcs,      (* the streams a bot may receive                             *)
  FirstSeq,   (* the sequence number of a stream's packet 0                *)
  Reorder,    (* how far behind the last packet one may arrive             *)
  Gap         (* how many packets in a row may be lost                     *)

ASSUME RecvMetricsAssumption ==
  /\ FirstSeq \in Nat /\ FirstSeq < 65536
  /\ Reorder \in Nat /\ Reorder < 32768
  /\ Gap \in Nat /\ Gap < 32768

VARIABLES
  metrics,    (* the store: SSRC to SsrcRecvMetrics, or NoStream           *)
  stream      (* history: what really arrived of each stream               *)

metricsVars == <<metrics, stream>>

NoStream == [received |-> 0]

SeqNumbers == {n \in Nat : n < 65536}

WiderSeq(ix) == FirstSeq + ix                            \* mutant

SeqOf(ix) == (FirstSeq + ix) % 65536

\* The value of an unsigned 16-bit difference read as an i16.
Signed(d) == IF d % 65536 < 32768 THEN d % 65536 ELSE (d % 65536) - 65536

FirstPacket(seq) ==
  [received |-> 1, lost |-> 0, out_of_order |-> 0,
   first_seq |-> seq, last_seq |-> seq, max_seq_seen |-> seq]

Forward(a, b) == IF Signed(b - a) > 0 THEN b ELSE a

OnlyForward(m, seq) ==                                   \* mutant
  LET diff == Signed(seq - (m.last_seq + 1)) IN
  [m EXCEPT !.received = @ + 1,
            !.lost = IF diff > 0 THEN @ + diff ELSE @,
            !.out_of_order = IF diff < -1 THEN @ + 1 ELSE @,
            !.max_seq_seen = Forward(@, seq)]

GapIsOneLoss(m, seq) ==                                  \* mutant
  LET diff == Signed(seq - (m.last_seq + 1)) IN
  [m EXCEPT !.received = @ + 1,
            !.lost = IF diff > 0 THEN @ + 1 ELSE @,
            !.out_of_order = IF diff < -1 THEN @ + 1 ELSE @,
            !.max_seq_seen = Forward(@, seq),
            !.last_seq = seq]

\* update() of a stream that has begun.  diff is -1 for a repeated packet,
\* which is neither a loss nor out of order.
Updated(m, seq) ==
  LET diff == Signed(seq - (m.last_seq + 1)) IN
  [m EXCEPT !.received = @ + 1,
            !.lost = IF diff > 0 THEN @ + diff ELSE @,
            !.out_of_order = IF diff < -1 THEN @ + 1 ELSE @,
            !.max_seq_seen = Forward(@, seq),
            !.last_seq = seq]

StoreUpdated(m, seq) == IF m = NoStream THEN FirstPacket(seq) ELSE Updated(m, seq)

Known == {s \in Ssrcs : metrics[s] # NoStream}

-----------------------------------------------------------------------------

Nothing == [first |-> 0, last |-> 0, top |-> 0, got |-> {}]

MetricsInit ==
  /\ metrics = [s \in Ssrcs |-> NoStream]
  /\ stream = [s \in Ssrcs |-> Nothing]

\* What the network may deliver next.
Deliverable(s, ix) ==
  metrics[s] # NoStream =>
    /\ stream[s].last - Reorder <= ix
    /\ ix <= stream[s].last + 1 + Gap

Arrived(t, ix) ==
  IF t.got = {} THEN [first |-> ix, last |-> ix, top |-> ix, got |-> {ix}]
  ELSE [t EXCEPT !.last = ix, !.top = IF ix > @ THEN ix ELSE @, !.got = @ \cup {ix}]

\* RecvMetricsStore::update, with the packet of index ix.
Update(s, ix) ==
  /\ Deliverable(s, ix)
  /\ metrics' = [metrics EXCEPT ![s] = StoreUpdated(@, SeqOf(ix))]
  /\ stream' = [stream EXCEPT ![s] = Arrived(@, ix)]

MetricsNext == \E s \in Ssrcs, ix \in Nat : Update(s, ix)

MetricsSpec == MetricsInit /\ [][MetricsNext]_metricsVars

-----------------------------------------------------------------------------

MetricsTypeOK ==
  /\ metrics \in [Ssrcs -> {NoStream} \cup
                  [received : Nat, lost : Nat, out_of_order : Nat, first_seq : SeqNumbers,
                   last_seq : SeqNumbers, max_seq_seen : SeqNumbers]]
  /\ stream \in [Ssrcs -> [first : Nat, last : Nat, top : Nat, got : SUBSET Nat]]

Missing(t) == {ix \in t.first .. t.top : ix \notin t.got}

(***************************************************************************)
(* Every packet that is missing between the first and the highest one that *)
(* arrived is counted as lost, whatever wraps around or arrives late       *)
(* (SsrcRecvMetrics::update, and L1-13, which passes at zero losses).      *)
(***************************************************************************)
NoLossHidden ==
  \A s \in Known : Cardinality(Missing(stream[s])) <= metrics[s].lost

(***************************************************************************)
(* A reordered packet moves last_seq back and makes update() count a loss  *)
(* that is none; it does so at most Reorder + 1 times, so that a stream    *)
(* without reordering is counted exactly.                                  *)
(***************************************************************************)
OvercountBounded ==
  \A s \in Known :
    metrics[s].lost <= Cardinality(Missing(stream[s]))
                         + metrics[s].out_of_order * (Reorder + 1)

=============================================================================
