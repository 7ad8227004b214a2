------------------------------ MODULE NetFilter ------------------------------
(***************************************************************************)
(* The packet-level impairment filter of crates/oxlab-net/src/filter.rs:   *)
(* a token bucket for the bandwidth limit, a uniform random drop and a     *)
(* fixed delay with uniform jitter.                                        *)
(*                                                                         *)
(* Time is a count of clock ticks and a rate is bytes per tick, so that    *)
(* the f64 token arithmetic of the code becomes integer arithmetic.  The   *)
(* random roll is a nondeterministic choice: a loss of 0 never drops, a    *)
(* loss of 100 always drops, and any other loss may do either.             *)
(***************************************************************************)
EXTENDS Integers

CONSTANTS
  Configs,      (* the FilterConfig records the filter can be given        *)
  BurstTicks    (* the bucket holds BurstTicks ticks' worth of tokens      *)

FilterConfig == [loss : 0..100, delay : Nat, jitter : Nat, rate : Nat]

ASSUME FilterAssumption ==
  /\ Configs \subseteq FilterConfig
  /\ BurstTicks \in Nat

VARIABLES
  now,          (* the clock                                               *)
  config,       (* the FilterConfig in force                               *)
  tokens,       (* bytes in the bucket; meaningful when Limited            *)
  last_refill,  (* when the bucket was last refilled                       *)
  stats_total,  (* packets offered since the filter was created            *)
  stats_dropped (* packets dropped since the filter was created            *)

filterVars == <<config, tokens, last_refill, stats_total, stats_dropped>>

-----------------------------------------------------------------------------

Capacity(rate) == rate * BurstTicks

\* A filter without a bandwidth limit has no bucket at all.
Limited == config.rate > 0

\* FilterConfig with every field at its default: NetFilter::pristine().
Pristine == [loss |-> 0, delay |-> 0, jitter |-> 0, rate |-> 0]

FilterInit ==
  /\ config \in Configs
  /\ tokens = Capacity(config.rate)
  /\ last_refill = now
  /\ stats_total = 0
  /\ stats_dropped = 0

Uncapped == tokens + config.rate * (now - last_refill)    \* mutant

\* What the bucket holds once it is refilled up to now.
Refilled ==
  LET credit == tokens + config.rate * (now - last_refill)
  IN  IF credit <= Capacity(config.rate) THEN credit ELSE Capacity(config.rate)

Affordable(len) == Limited => Refilled >= len

ClockKept == UNCHANGED last_refill                        \* mutant

\* consume(): refill, then charge the packet when the bucket can pay for it.
Refill == last_refill' = IF Limited THEN now ELSE last_refill

FreeCharge(len) ==                                        \* mutant
  /\ tokens' = IF Limited THEN Refilled - len ELSE tokens
  /\ Refill

Charge(len) ==
  /\ Affordable(len)
  /\ tokens' = IF Limited THEN Refilled - len ELSE tokens
  /\ Refill

DelaysInTensOfTicks ==                                    \* mutant
  {10 * j : j \in 0..(config.delay + config.jitter)}

\* The delays filter() can return: delay_ms plus a jitter, never negative.
Delays ==
  {IF config.delay + j < 0 THEN 0 ELSE config.delay + j :
     j \in (-config.jitter)..config.jitter}

UncountedDrop(len) ==                                     \* mutant
  /\ ~Affordable(len)
  /\ tokens' = Refilled
  /\ Refill
  /\ stats_total' = stats_total + 1
  /\ UNCHANGED <<config, stats_dropped>>

(***************************************************************************)
(* filter(packet_len) has three outcomes.  A packet lost to the random     *)
(* roll has already paid its tokens: the bandwidth check comes first.      *)
(***************************************************************************)
BandwidthDrop(len) ==
  /\ ~Affordable(len)
  /\ tokens' = Refilled
  /\ Refill
  /\ stats_total' = stats_total + 1
  /\ stats_dropped' = stats_dropped + 1
  /\ UNCHANGED config

LossDrop(len) ==
  /\ Charge(len)
  /\ config.loss > 0
  /\ stats_total' = stats_total + 1
  /\ stats_dropped' = stats_dropped + 1
  /\ UNCHANGED config

Pass(len, delay) ==
  /\ Charge(len)
  /\ config.loss < 100
  /\ delay \in Delays
  /\ stats_total' = stats_total + 1
  /\ UNCHANGED <<config, stats_dropped>>

\* update(config): a new, full bucket; the statistics carry on.
Update(new) ==
  /\ config' = new
  /\ tokens' = Capacity(new.rate)
  /\ last_refill' = now
  /\ UNCHANGED <<stats_total, stats_dropped>>

=============================================================================
