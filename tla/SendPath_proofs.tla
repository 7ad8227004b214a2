--------------------------- MODULE SendPath_proofs ---------------------------
(***************************************************************************)
(* Proofs about SendPath, for every set of filter configurations, every    *)
(* packet size, interval and clock bound.                                  *)
(***************************************************************************)
EXTENDS SendPath, FiniteSetTheorems, TLAPS

\* The arithmetic of a configuration in force: a natural rate and capacity.
LEMMA ConfigFacts ==
  ASSUME NEW c \in Configs
  PROVE  /\ c.rate \in Nat /\ c.loss \in Nat /\ c.delay \in Nat /\ c.jitter \in Nat
         /\ Capacity(c.rate) \in Nat
<1>1. c \in FilterConfig
  BY FilterAssumption
<1>2. c.rate \in Nat /\ c.loss \in Nat /\ c.delay \in Nat /\ c.jitter \in Nat
  BY <1>1 DEF FilterConfig
<1>3. Capacity(c.rate) \in Nat
  BY <1>2, FilterAssumption DEF Capacity
<1> QED BY <1>2, <1>3

\* The clock never runs behind the bucket or the window.
ClockInv == since <= now /\ last_refill <= now

\* Refilling the bucket keeps it a natural number of bytes, within capacity
\* and within the credit the elapsed time earns (TokenBucket::consume).
LEMMA RefilledFacts ==
  ASSUME TypeOK, ClockInv
  PROVE  /\ Refilled \in Nat
         /\ Refilled <= Capacity(config.rate)
         /\ Refilled <= tokens + config.rate * (now - last_refill)
<1> DEFINE credit == tokens + config.rate * (now - last_refill)
<1>1. config.rate \in Nat /\ Capacity(config.rate) \in Nat
  BY ConfigFacts DEF TypeOK
<1>2. now - last_refill \in Nat
  BY DEF TypeOK, ClockInv
<1>3. config.rate * (now - last_refill) \in Nat
  BY <1>1, <1>2
<1>4. credit \in Nat
  BY <1>3 DEF TypeOK
<1>5. Refilled = IF credit <= Capacity(config.rate) THEN credit ELSE Capacity(config.rate)
  BY DEF Refilled
<1> HIDE DEF credit
<1>6. Refilled \in Nat /\ Refilled <= Capacity(config.rate) /\ Refilled <= credit
  BY <1>1, <1>4, <1>5
<1> QED BY <1>6 DEF credit

\* A charge leaves a natural number of tokens and takes exactly len of them
\* from a refilled bucket.
LEMMA ChargeFacts ==
  ASSUME TypeOK, ClockInv, NEW len \in Nat, Charge(len)
  PROVE  /\ tokens' \in Nat
         /\ last_refill' \in Nat
         /\ last_refill' <= now
         /\ Limited => tokens' = Refilled - len /\ last_refill' = now
<1>1. Refilled \in Nat
  BY RefilledFacts
<1>2. CASE Limited
  BY <1>1, <1>2 DEF Charge, Affordable, Refill, TypeOK, ClockInv
<1>3. CASE ~Limited
  BY <1>3 DEF Charge, Refill, TypeOK, ClockInv
<1> QED BY <1>2, <1>3

\* Every outcome of filter() that is not a pass.
LEMMA DropFacts ==
  ASSUME TypeOK, ClockInv, NEW len \in Nat, BandwidthDrop(len) \/ LossDrop(len)
  PROVE  /\ tokens' \in Nat
         /\ last_refill' \in Nat
         /\ last_refill' <= now
         /\ Limited => tokens' <= Refilled /\ last_refill' = now
         /\ config' = config
         /\ stats_total' = stats_total + 1 /\ stats_dropped' = stats_dropped + 1
<1>1. Refilled \in Nat
  BY RefilledFacts
<1>2. CASE BandwidthDrop(len)
  <2>1. Limited
    BY <1>2 DEF BandwidthDrop, Affordable
  <2> QED BY <1>1, <1>2, <2>1 DEF BandwidthDrop, Refill, TypeOK, ClockInv
<1>3. CASE LossDrop(len)
  <2>1. Charge(len)
    BY <1>3 DEF LossDrop
  <2> QED BY <1>1, <1>3, <2>1, ChargeFacts DEF LossDrop
<1> QED BY <1>2, <1>3

\* A packet that is passed pays its tokens; the statistics count it once.
LEMMA PassFacts ==
  ASSUME TypeOK, ClockInv, NEW len \in Nat, NEW d \in Delays, Pass(len, d)
  PROVE  /\ tokens' \in Nat
         /\ last_refill' \in Nat
         /\ last_refill' <= now
         /\ Limited => tokens' = Refilled - len /\ last_refill' = now
         /\ config' = config
         /\ stats_total' = stats_total + 1 /\ stats_dropped' = stats_dropped
<1>1. Charge(len)
  BY DEF Pass
<1> QED BY <1>1, ChargeFacts DEF Pass

\* A delay is a natural number of ticks.
LEMMA DelaysNat ==
  ASSUME TypeOK
  PROVE  Delays \subseteq Nat
<1>1. config.delay \in Nat /\ config.jitter \in Nat
  BY ConfigFacts DEF TypeOK
<1> QED BY <1>1 DEF Delays

(***************************************************************************)
(* The invariant.  The filter's half: what the window has let through and  *)
(* what a refill would leave in the bucket were earned by now.  The tasks' *)
(* half: what is on the wire or asleep was passed, or was asleep when the  *)
(* window began.                                                           *)
(***************************************************************************)
BucketInv ==
  Limited => passed + Refilled <= Capacity(config.rate) + config.rate * (now - since)

WireInv == wired + HeldBytes <= passed + carried

HeldInv == \A t \in Tasks : task[t] # "sleep" => held[t] = 0

PliInv ==
  /\ KeyframeAfterPli
  /\ \A n \in asked : n <= frame_count
  /\ frame_count \in asked => force_keyframe

FilterInv == ClockInv /\ BucketInv /\ WireInv /\ HeldInv

IInv == TypeOK /\ FilterInv /\ PliInv

\* The arithmetic of a charge: what the window has passed, the refilled bucket
\* before and after, and the packet paid for.
LEMMA BucketArithmetic ==
  ASSUME NEW p \in Nat, NEW K \in Nat, NEW R \in Nat, NEW R2 \in Nat, NEW t \in Nat,
         NEW total \in Int, NEW paid \in Nat,
         p + R <= K + total, t <= R - paid, R2 <= t
  PROVE  (p + paid) + R2 <= K + total
OBVIOUS

\* A bucket refilled now that then pays for what it lets through stays within
\* the credit earned in the window.
LEMMA BucketStep ==
  ASSUME TypeOK, ClockInv, BucketInv, NEW paid \in Nat,
         config' = config, since' = since, now' = now,
         passed' = passed + paid, tokens' \in Nat,
         Limited => tokens' <= Refilled - paid /\ last_refill' = now
  PROVE  BucketInv'
<1> SUFFICES ASSUME Limited'
             PROVE  passed' + Refilled' <= Capacity(config'.rate)
                                             + config'.rate * (now' - since')
  BY DEF BucketInv
<1> DEFINE K == Capacity(config.rate)
           total == config.rate * (now - since)
<1>1. Limited
  BY DEF Limited
<1>2. config.rate \in Nat /\ K \in Nat
  BY ConfigFacts DEF TypeOK
<1>3. total \in Int /\ now \in Nat /\ passed \in Nat
  BY <1>2 DEF TypeOK
<1>4. Refilled \in Nat
  BY RefilledFacts
<1>5. tokens' <= Refilled - paid /\ last_refill' = now
  BY <1>1
<1>6. Refilled' \in Nat /\ Refilled' <= tokens'
  <2>1. config'.rate * (now' - last_refill') = 0
    BY <1>2, <1>3, <1>5
  <2>2. tokens' + config'.rate * (now' - last_refill') = tokens'
    BY <2>1
  <2>3. Refilled' = IF tokens' <= K THEN tokens' ELSE K
    BY <2>2 DEF Refilled
  <2> HIDE DEF K
  <2> QED BY <2>3, <1>2
<1>7. passed + Refilled <= K + total
  BY <1>1 DEF BucketInv
<1>8. Capacity(config'.rate) + config'.rate * (now' - since') = K + total
  <2>1. config' = config /\ now' = now /\ since' = since
    OBVIOUS
  <2> QED BY <2>1, Zenon
<1> HIDE DEF K, total
<1>9. (passed + paid) + Refilled' <= K + total
  BY <1>2, <1>3, <1>4, <1>5, <1>6, <1>7, BucketArithmetic
<1>10. passed' + Refilled' <= K + total
  BY <1>9
<1> QED BY <1>8, <1>10

\* A tick of the clock earns one tick's credit.
LEMMA TickCredit ==
  ASSUME NEW r \in Nat, NEW a \in Int, NEW b \in Int
  PROVE  r * (b + 1 - a) = r * (b - a) + r
OBVIOUS

\* What a tick adds to a refilled bucket is at most that credit.
LEMMA BucketAdvance ==
  ASSUME TypeOK, ClockInv, BucketInv, now' = now + 1,
         UNCHANGED <<config, tokens, last_refill, passed, since>>
  PROVE  BucketInv'
<1> SUFFICES ASSUME Limited'
             PROVE  passed' + Refilled' <= Capacity(config'.rate)
                                             + config'.rate * (now' - since')
  BY DEF BucketInv
<1> DEFINE K == Capacity(config.rate)
           r == config.rate
           credit == tokens + r * (now - last_refill)
           total == r * (now - since)
<1>1. r \in Nat /\ K \in Nat
  BY ConfigFacts DEF TypeOK
<1>2. now \in Nat /\ since \in Nat /\ last_refill \in Nat /\ passed \in Nat /\ tokens \in Nat
  BY DEF TypeOK
<1>3. credit \in Int /\ total \in Int
  BY <1>1, <1>2
<1>4. r * (now + 1 - last_refill) = r * (now - last_refill) + r
  BY <1>1, <1>2, TickCredit
<1>5. r * (now + 1 - since) = total + r
  BY <1>1, <1>2, TickCredit
<1>6. tokens' + config'.rate * (now' - last_refill') = credit + r
  <2> DEFINE earned == r * (now - last_refill)
  <2>1. earned \in Int
    BY <1>1, <1>2
  <2>2. config'.rate * (now' - last_refill') = earned + r
    <3>1. config'.rate = r /\ now' - last_refill' = now + 1 - last_refill
      BY <1>2
    <3> QED BY <1>4, <3>1
  <2>3. credit = tokens + earned
    OBVIOUS
  <2> HIDE DEF r, earned, credit
  <2> QED BY <1>1, <1>2, <2>1, <2>2, <2>3
<1>7. Refilled = IF credit <= K THEN credit ELSE K
  BY DEF Refilled
<1>8. Refilled' = IF credit + r <= K THEN credit + r ELSE K
  BY <1>6 DEF Refilled
<1>9. passed + Refilled <= K + total
  BY DEF BucketInv, Limited
<1>10. Capacity(config'.rate) + config'.rate * (now' - since') = K + (total + r)
  <2>1. config'.rate = r /\ now' - since' = now + 1 - since
    BY <1>2
  <2>2. config'.rate * (now' - since') = total + r /\ Capacity(config'.rate) = K
    BY <1>5, <2>1
  <2> HIDE DEF K, r, total
  <2> QED BY <2>2
<1> HIDE DEF K, r, credit, total
<1>11. passed + Refilled' <= K + (total + r)
  BY <1>1, <1>2, <1>3, <1>7, <1>8, <1>9
<1> QED BY <1>10, <1>11

\* send_to: a packet that was not asleep in another task is on the wire, or its
\* task is done.
LEMMA SendFacts ==
  ASSUME TypeOK, NEW t \in Tasks, NEW len \in Nat, Send(t, len)
  PROVE  /\ task' \in [Tasks -> {"idle", "sleep", "done"}]
         /\ task'[t] \in {"idle", "done"}
         /\ \A u \in Tasks \ {t} : task'[u] = task[u]
         /\ task[t] = "idle" => \A u \in Tasks : task'[u] = "sleep" <=> task[u] = "sleep"
         /\ wired' \in Nat /\ sent' \in Nat /\ failed' \in Nat
         /\ wired' <= wired + len
BY DEF Send, TypeOK

\* What one packet through the filter does to everything it can disturb.
LEMMA OfferStep ==
  ASSUME TypeOK, FilterInv, NEW t \in Tasks, task[t] = "idle", NEW len \in Nat,
         Offer(t, len), now' = now, since' = since, carried' = carried
  PROVE  /\ tokens' \in Nat /\ last_refill' \in Nat
         /\ stats_total' \in Nat /\ stats_dropped' \in Nat
         /\ config' \in Configs
         /\ task' \in [Tasks -> {"idle", "sleep", "done"}]
         /\ wake' \in [Tasks -> Nat] /\ held' \in [Tasks -> Nat]
         /\ passed' \in Nat /\ wired' \in Nat /\ sent' \in Nat /\ failed' \in Nat
         /\ FilterInv'
<1> USE DEF FilterInv
<1>0. held[t] = 0 /\ HeldBytes \in Nat
  BY DEF HeldInv, HeldBytes, TypeOK, Tasks
<1>1. CASE Dropped(len)
  <2>1. UNCHANGED <<task, wake, held, passed, wired, sent, failed>>
    BY <1>1 DEF Dropped
  <2>2. BandwidthDrop(len) \/ LossDrop(len)
    BY <1>1 DEF Dropped
  <2>3. /\ tokens' \in Nat
        /\ last_refill' \in Nat
        /\ last_refill' <= now
        /\ Limited => tokens' <= Refilled /\ last_refill' = now
        /\ config' = config
        /\ stats_total' = stats_total + 1 /\ stats_dropped' = stats_dropped + 1
    BY <2>2, DropFacts
  <2>4. Refilled \in Nat /\ passed' = passed + 0
    BY <2>1, RefilledFacts DEF TypeOK
  <2>5. BucketInv'
    BY <2>3, <2>4, BucketStep
  <2> QED BY <2>1, <2>3, <2>5 DEF TypeOK, ClockInv, WireInv, HeldInv, HeldBytes
<1>2. CASE SentAtOnce(t, len)
  <2>1. /\ Pass(len, 0)
        /\ passed' = passed + len
        /\ Send(t, len)
        /\ UNCHANGED <<wake, held>>
    BY <1>2 DEF SentAtOnce
  <2>2. 0 \in Delays
    BY <2>1 DEF Pass
  <2>3. /\ tokens' \in Nat
        /\ last_refill' \in Nat
        /\ last_refill' <= now
        /\ Limited => tokens' = Refilled - len /\ last_refill' = now
        /\ config' = config
        /\ stats_total' = stats_total + 1 /\ stats_dropped' = stats_dropped
    BY <2>1, <2>2, PassFacts
  <2>4. Limited => tokens' <= Refilled - len
    BY <2>3, RefilledFacts
  <2>5. BucketInv'
    BY <2>1, <2>3, <2>4, BucketStep
  <2>6. /\ task' \in [Tasks -> {"idle", "sleep", "done"}]
        /\ \A u \in Tasks : task'[u] = "sleep" <=> task[u] = "sleep"
        /\ wired' \in Nat /\ sent' \in Nat /\ failed' \in Nat
        /\ wired' <= wired + len
    BY <2>1, SendFacts
  <2>7. WireInv'
    <3>1. HeldBytes' = HeldBytes
      BY <2>1 DEF HeldBytes
    <3>2. wired + HeldBytes <= passed + carried
      BY DEF WireInv
    <3>3. wired \in Nat /\ passed \in Nat /\ carried \in Nat
      BY DEF TypeOK
    <3>4. wired' + HeldBytes' <= passed' + carried'
      BY <2>1, <2>6, <3>1, <3>2, <3>3, <1>0
    <3> QED BY <3>4 DEF WireInv
  <2>8. HeldInv'
    BY <2>1, <2>6 DEF HeldInv
  <2> QED BY <2>1, <2>3, <2>5, <2>6, <2>7, <2>8 DEF TypeOK, ClockInv
<1>3. CASE Delayed(t, len)
  <2>1. PICK d \in Delays \ {0} :
          /\ Pass(len, d)
          /\ passed' = passed + len
          /\ task' = [task EXCEPT ![t] = "sleep"]
          /\ wake' = [wake EXCEPT ![t] = now + d]
          /\ held' = [held EXCEPT ![t] = len]
          /\ UNCHANGED <<wired, sent, failed>>
    BY <1>3 DEF Delayed
  <2>2. d \in Nat
    BY DelaysNat
  <2>3. /\ tokens' \in Nat
        /\ last_refill' \in Nat
        /\ last_refill' <= now
        /\ Limited => tokens' = Refilled - len /\ last_refill' = now
        /\ config' = config
        /\ stats_total' = stats_total + 1 /\ stats_dropped' = stats_dropped
    BY <2>1, PassFacts
  <2>4. Limited => tokens' <= Refilled - len
    BY <2>3, RefilledFacts
  <2>5. BucketInv'
    BY <2>1, <2>3, <2>4, BucketStep
  <2>6. HeldBytes' = HeldBytes + len
    BY <1>0, <2>1 DEF HeldBytes, TypeOK, Tasks
  <2>7. WireInv'
    BY <1>0, <2>1, <2>6 DEF WireInv, TypeOK
  <2>8. HeldInv'
    BY <2>1 DEF HeldInv, TypeOK
  <2> QED BY <2>1, <2>2, <2>3, <2>5, <2>7, <2>8 DEF TypeOK, ClockInv
<1>4. CASE Unencrypted
  <2>1. UNCHANGED <<filterVars, task, wake, held, passed, wired, sent, failed>>
    BY <1>4 DEF Unencrypted
  <2>2. BucketInv'
    BY <2>1 DEF BucketInv, Limited, Refilled, filterVars
  <2> QED BY <2>1, <2>2 DEF TypeOK, ClockInv, WireInv, HeldInv, HeldBytes, filterVars
<1> QED BY <1>1, <1>2, <1>3, <1>4 DEF Offer

\* The tasks are two, so those asleep can be counted.
LEMMA AsleepFinite == IsFiniteSet(Asleep)
<1>1. IsFiniteSet({"audio"}) /\ IsFiniteSet({"video"})
  BY FS_Singleton
<1>2. Tasks = {"audio"} \cup {"video"}
  BY DEF Tasks
<1>3. IsFiniteSet(Tasks)
  BY <1>1, <1>2, FS_Union
<1> QED BY <1>3, FS_Subset DEF Asleep

\* Type correctness and the two halves of the invariant, established together:
\* whether a token count is a natural number depends on the bucket's clock.
LEMMA InitInv == Init => IInv
<1> SUFFICES ASSUME Init PROVE IInv
  OBVIOUS
<1>1. config \in Configs /\ Capacity(config.rate) \in Nat /\ config.rate \in Nat
  BY ConfigFacts DEF Init, FilterInit
<1>2. TypeOK
  BY <1>1 DEF Init, FilterInit, TypeOK
<1>3. ClockInv /\ BucketInv
  <2>1. config.rate * (now - since) = 0 /\ config.rate * (now - last_refill) = 0
    BY <1>1 DEF Init, FilterInit
  <2>2. Refilled = Capacity(config.rate)
    BY <1>1, <2>1 DEF Init, FilterInit, Refilled
  <2> QED BY <1>1, <2>1, <2>2 DEF Init, FilterInit, ClockInv, BucketInv
<1>4. WireInv /\ HeldInv
  BY DEF Init, WireInv, HeldInv, HeldBytes, Tasks
<1>5. PliInv
  BY DEF Init, PliInv, KeyframeAfterPli
<1> QED BY <1>2, <1>3, <1>4, <1>5 DEF IInv, FilterInv

LEMMA StepInv == IInv /\ [Next]_vars => IInv'
<1> SUFFICES ASSUME TypeOK, FilterInv, PliInv, [Next]_vars
             PROVE  IInv'
  BY DEF IInv
<1>1. CASE AudioTick
  <2>1. /\ Offer("audio", AudioSize) /\ task["audio"] = "idle"
        /\ due' = [due EXCEPT !["audio"] = @ + Period["audio"]]
        /\ UNCHANGED <<now, force_keyframe, frame_count, cancel, keyframes>>
        /\ UNCHANGED <<asked, since, carried, aborted>>
    BY <1>1 DEF AudioTick, Ticks, KeepHistory
  <2>2. "audio" \in Tasks /\ AudioSize \in Nat /\ due' \in [Tasks -> Nat]
    BY <2>1, SendPathAssumption DEF Tasks, TypeOK
  <2>3. /\ tokens' \in Nat /\ last_refill' \in Nat
        /\ stats_total' \in Nat /\ stats_dropped' \in Nat
        /\ config' \in Configs
        /\ task' \in [Tasks -> {"idle", "sleep", "done"}]
        /\ wake' \in [Tasks -> Nat] /\ held' \in [Tasks -> Nat]
        /\ passed' \in Nat /\ wired' \in Nat /\ sent' \in Nat /\ failed' \in Nat
        /\ FilterInv'
    BY <2>1, <2>2, OfferStep
  <2>4. TypeOK'
    BY <2>1, <2>2, <2>3 DEF TypeOK
  <2>5. PliInv'
    BY <2>1 DEF PliInv, KeyframeAfterPli
  <2> QED BY <2>3, <2>4, <2>5 DEF IInv
<1>2. CASE VideoTick
  <2>1. /\ Offer("video", VideoSize) /\ task["video"] = "idle"
        /\ due' = [due EXCEPT !["video"] = @ + Period["video"]]
        /\ force_keyframe' = FALSE
        /\ keyframes' = IF IsKeyframe THEN keyframes \cup {frame_count} ELSE keyframes
        /\ frame_count' = frame_count + 1
        /\ UNCHANGED <<now, cancel>>
        /\ UNCHANGED <<asked, since, carried, aborted>>
    BY <1>2 DEF VideoTick, Ticks, KeepHistory
  <2>2. "video" \in Tasks /\ VideoSize \in Nat /\ due' \in [Tasks -> Nat]
    BY <2>1, SendPathAssumption DEF Tasks, TypeOK, VideoSize
  <2>3. /\ tokens' \in Nat /\ last_refill' \in Nat
        /\ stats_total' \in Nat /\ stats_dropped' \in Nat
        /\ config' \in Configs
        /\ task' \in [Tasks -> {"idle", "sleep", "done"}]
        /\ wake' \in [Tasks -> Nat] /\ held' \in [Tasks -> Nat]
        /\ passed' \in Nat /\ wired' \in Nat /\ sent' \in Nat /\ failed' \in Nat
        /\ FilterInv'
    BY <2>1, <2>2, OfferStep
  <2>4. TypeOK'
    <3>1. keyframes' \subseteq Nat /\ frame_count' \in Nat /\ force_keyframe' \in BOOLEAN
      <4>1. keyframes \subseteq Nat /\ frame_count \in Nat
        BY DEF TypeOK
      <4>2. keyframes' = keyframes \/ keyframes' = keyframes \cup {frame_count}
        BY <2>1
      <4>3. keyframes' \subseteq Nat
        BY <4>1, <4>2
      <4>4. frame_count' = frame_count + 1 /\ force_keyframe' = FALSE
        BY <2>1, Zenon
      <4>5. frame_count' \in Nat
        BY <4>1, <4>4
      <4>6. force_keyframe' \in BOOLEAN
        BY <4>4, Zenon
      <4> QED BY <4>3, <4>5, <4>6
    <3>2. now' \in Nat /\ cancel' \in BOOLEAN
      BY <2>1 DEF TypeOK
    <3>3. asked' \subseteq Nat /\ since' \in Nat /\ carried' \in Nat /\ aborted' \in Nat
      BY <2>1 DEF TypeOK
    <3> QED BY <2>2, <2>3, <3>1, <3>2, <3>3 DEF TypeOK
  <2>5. ASSUME NEW n \in asked
        PROVE  n <= frame_count /\ (n < frame_count => n \in keyframes)
    BY DEF PliInv, KeyframeAfterPli
  <2>6. frame_count \in asked => frame_count \in keyframes'
    BY <2>1 DEF PliInv, IsKeyframe
  <2>7. ASSUME NEW n \in asked
        PROVE  n <= frame_count + 1 /\ n # frame_count + 1 /\ n \in keyframes'
    <3>1. n \in Nat /\ frame_count \in Nat
      BY DEF TypeOK
    <3>2. n < frame_count \/ n = frame_count
      BY <3>1, <2>5
    <3> QED BY <3>1, <3>2, <2>1, <2>5, <2>6
  <2>8. PliInv'
    BY <2>1, <2>7 DEF PliInv, KeyframeAfterPli
  <2> QED BY <2>3, <2>4, <2>8 DEF IInv
<1>3. ASSUME NEW t \in Tasks, Wake(t)
      PROVE  IInv'
  <2>0. /\ held[t] \in Nat /\ Send(t, held[t])
        /\ held' = [held EXCEPT ![t] = 0]
    BY <1>3 DEF Wake, TypeOK
  <2>x. /\ task' \in [Tasks -> {"idle", "sleep", "done"}]
        /\ \A u \in Tasks \ {t} : task'[u] = task[u]
        /\ wired' \in Nat /\ sent' \in Nat /\ failed' \in Nat
        /\ wired' <= wired + held[t]
    BY <2>0, SendFacts
  <2>1. TypeOK'
    <3>1. held' \in [Tasks -> Nat]
      BY <2>0 DEF TypeOK
    <3>2. UNCHANGED <<now, filterVars, due, wake, force_keyframe, frame_count, cancel,
                      keyframes, asked, since, passed, carried, aborted>>
      BY <1>3 DEF Wake
    <3> QED BY <2>x, <3>1, <3>2 DEF TypeOK, filterVars
  <2>2. HeldBytes' = HeldBytes - held[t]
    BY <2>0 DEF HeldBytes, TypeOK, Tasks
  <2>3. WireInv'
    <3>1. HeldBytes \in Nat /\ held[t] \in Nat
      BY DEF HeldBytes, TypeOK, Tasks
    <3> QED BY <1>3, <2>x, <2>2, <3>1 DEF Wake, FilterInv, WireInv, TypeOK
  <2>4. HeldInv'
    BY <2>0, <2>x DEF FilterInv, HeldInv, TypeOK
  <2>5. ClockInv' /\ BucketInv' /\ PliInv'
    BY <1>3 DEF Wake, FilterInv, ClockInv, BucketInv, Limited, Refilled, PliInv,
                KeyframeAfterPli, filterVars
  <2> QED BY <2>1, <2>3, <2>4, <2>5 DEF IInv, FilterInv
<1>4. ASSUME NEW t \in Tasks, Exit(t)
      PROVE  IInv'
  <2>1. TypeOK'
    BY <1>4 DEF Exit, TypeOK, filterVars, history
  <2>2. HeldInv'
    BY <1>4 DEF Exit, FilterInv, HeldInv, TypeOK
  <2>3. ClockInv' /\ BucketInv' /\ WireInv' /\ PliInv'
    BY <1>4 DEF Exit, FilterInv, ClockInv, BucketInv, Limited, Refilled, WireInv, HeldBytes,
                PliInv, KeyframeAfterPli, filterVars, history
  <2> QED BY <2>1, <2>2, <2>3 DEF IInv, FilterInv
<1>5. CASE RecvPli
  <2>1. TypeOK'
    BY <1>5 DEF RecvPli, TypeOK, filterVars
  <2>2. FilterInv'
    BY <1>5 DEF RecvPli, FilterInv, ClockInv, BucketInv, Limited, Refilled, WireInv,
                HeldBytes, HeldInv, filterVars
  <2>3. PliInv'
    BY <1>5 DEF RecvPli, PliInv, KeyframeAfterPli, TypeOK
  <2> QED BY <2>1, <2>2, <2>3 DEF IInv
<1>6. ASSUME NewWindow
      PROVE  /\ since' \in Nat /\ passed' \in Nat /\ wired' \in Nat /\ carried' \in Nat
             /\ now' = now /\ since' = now' /\ passed' = 0
             /\ WireInv' /\ HeldInv' /\ PliInv'
  <2>1. HeldBytes \in Nat
    BY DEF HeldBytes, TypeOK, Tasks
  <2> QED BY <1>6, <2>1 DEF NewWindow, TypeOK, FilterInv, WireInv, HeldBytes, HeldInv,
                            PliInv, KeyframeAfterPli, taskVars
<1>7. ASSUME NEW new \in Configs, UpdateNetFilter(new)
      PROVE  IInv'
  <2>1. new.rate \in Nat /\ Capacity(new.rate) \in Nat
    BY ConfigFacts
  <2>2. NewWindow /\ Update(new)
    BY <1>7 DEF UpdateNetFilter
  <2>3. TypeOK'
    BY <1>6, <2>1, <2>2 DEF NewWindow, Update, TypeOK, taskVars
  <2>4. ClockInv'
    BY <2>2 DEF NewWindow, Update, ClockInv, TypeOK
  <2>5. new.rate * (now' - since') = 0 /\ new.rate * (now' - last_refill') = 0
    BY <1>6, <2>1, <2>2 DEF Update, TypeOK
  <2>6. Refilled' = Capacity(new.rate)
    BY <2>1, <2>2, <2>5 DEF Update, Refilled
  <2>7. BucketInv'
    BY <1>6, <2>1, <2>2, <2>5, <2>6 DEF Update, BucketInv
  <2> QED BY <1>6, <2>2, <2>3, <2>4, <2>7 DEF IInv, FilterInv
<1>8. CASE Measure
  <2>1. NewWindow /\ UNCHANGED filterVars
    BY <1>8 DEF Measure
  <2>2. TypeOK'
    BY <1>6, <2>1 DEF NewWindow, TypeOK, filterVars, taskVars
  <2>3. ClockInv'
    BY <1>6, <2>1 DEF FilterInv, ClockInv, TypeOK, filterVars
  <2>4. Refilled \in Nat /\ Refilled <= Capacity(config.rate) /\ Capacity(config.rate) \in Nat
    BY RefilledFacts, ConfigFacts DEF FilterInv, TypeOK
  <2>5. Refilled' = Refilled /\ config' = config
    BY <1>6, <2>1 DEF Refilled, filterVars
  <2>6. config'.rate * (now' - since') = 0
    <3>1. config'.rate \in Nat
      BY <2>5, ConfigFacts DEF TypeOK
    <3>2. now' - since' = 0
      BY <1>6, <2>1
    <3> QED BY <3>1, <3>2
  <2>7. passed' + Refilled' <= Capacity(config'.rate) + config'.rate * (now' - since')
    <3>1. passed' = 0 /\ Capacity(config'.rate) = Capacity(config.rate)
      BY <1>6, <2>1, <2>5
    <3> QED BY <3>1, <2>4, <2>5, <2>6
  <2>8. BucketInv'
    BY <2>7 DEF BucketInv
  <2> QED BY <1>6, <2>1, <2>2, <2>3, <2>8 DEF IInv, FilterInv
<1>9. CASE Cancel
  <2>1. TypeOK'
    BY <1>9 DEF Cancel, TypeOK, filterVars, history
  <2>2. FilterInv' /\ PliInv'
    BY <1>9 DEF Cancel, FilterInv, ClockInv, BucketInv, Limited, Refilled, WireInv, HeldBytes,
                HeldInv, PliInv, KeyframeAfterPli, filterVars, history
  <2> QED BY <2>1, <2>2 DEF IInv
<1>10. CASE Abort
  <2>1. Cardinality(Asleep) \in Nat
    BY AsleepFinite, FS_CardinalityType
  <2>2. TypeOK'
    BY <1>10, <2>1 DEF Abort, TypeOK, filterVars
  <2>3. WireInv' /\ HeldInv'
    <3>1. HeldBytes' = 0 /\ HeldBytes \in Nat
      BY <1>10 DEF Abort, HeldBytes, TypeOK, Tasks
    <3> QED BY <1>10, <3>1 DEF Abort, FilterInv, WireInv, HeldInv, TypeOK
  <2>4. ClockInv' /\ BucketInv' /\ PliInv'
    BY <1>10 DEF Abort, FilterInv, ClockInv, BucketInv, Limited, Refilled, PliInv,
                KeyframeAfterPli, filterVars
  <2> QED BY <2>2, <2>3, <2>4 DEF IInv, FilterInv
<1>11. CASE Advance
  <2>1. TypeOK' /\ ClockInv'
    BY <1>11 DEF Advance, TypeOK, FilterInv, ClockInv, filterVars, taskVars, history
  <2>2. BucketInv' /\ WireInv' /\ HeldInv' /\ PliInv'
    BY <1>11, BucketAdvance DEF Advance, FilterInv, WireInv, HeldBytes, HeldInv,
                PliInv, KeyframeAfterPli, filterVars, taskVars, history
  <2> QED BY <2>1, <2>2 DEF IInv, FilterInv
<1>12. CASE UNCHANGED vars
  BY <1>12 DEF vars, filterVars, taskVars, history, IInv, TypeOK, FilterInv, ClockInv,
               BucketInv, Limited, Refilled, WireInv, HeldBytes, HeldInv, PliInv, KeyframeAfterPli
<1> QED
  BY <1>1, <1>2, <1>3, <1>4, <1>5, <1>7, <1>8, <1>9, <1>10, <1>11, <1>12 DEF Next

LEMMA Invariance == Spec => []IInv
BY InitInv, StepInv, PTL DEF Spec

-----------------------------------------------------------------------------

\* The invariant bounds what was passed by what the bucket could have earned.
LEMMA InvBandwidth == IInv => BandwidthBound /\ WireBound
<1> SUFFICES ASSUME IInv, Limited
             PROVE  /\ passed <= Capacity(config.rate) + config.rate * (now - since)
                    /\ wired <= Capacity(config.rate) + config.rate * (now - since) + carried
  BY DEF BandwidthBound, WireBound
<1> USE DEF IInv, FilterInv
<1> DEFINE K == Capacity(config.rate)
           total == config.rate * (now - since)
<1>1. K \in Nat /\ total \in Int
  BY ConfigFacts DEF TypeOK
<1>2. Refilled \in Nat
  BY RefilledFacts
<1>3. passed + Refilled <= K + total
  BY DEF BucketInv
<1>4. passed \in Nat /\ wired \in Nat /\ carried \in Nat /\ HeldBytes \in Nat
  BY DEF TypeOK, HeldBytes, Tasks
<1>5. wired + HeldBytes <= passed + carried
  BY DEF WireInv
<1> HIDE DEF K, total
<1>6. passed <= K + total
  BY <1>1, <1>2, <1>3, <1>4
<1>7. wired <= K + total + carried
  BY <1>1, <1>4, <1>5, <1>6
<1> QED BY <1>6, <1>7 DEF K, total

\* TokenBucket::consume and NetFilter::update: in any window between updates
\* the audio and the video task are let through no more than the limit.
THEOREM BandwidthRespected == Spec => []BandwidthBound
<1>1. IInv => BandwidthBound
  BY InvBandwidth
<1> QED BY <1>1, Invariance, PTL

\* The socket: only packets asleep when the window began exceed the limit.
THEOREM WireRespected == Spec => []WireBound
<1>1. IInv => WireBound
  BY InvBandwidth
<1> QED BY <1>1, Invariance, PTL

\* force_keyframe: a swap in the video task never loses a PLI.
THEOREM PliServed == Spec => []KeyframeAfterPli
<1>1. IInv => KeyframeAfterPli
  BY DEF IInv, PliInv
<1> QED BY <1>1, Invariance, PTL

\* The values of every variable of the send path.
THEOREM TypeCorrect == Spec => []TypeOK
<1>1. IInv => TypeOK
  BY DEF IInv
<1> QED BY <1>1, Invariance, PTL

-----------------------------------------------------------------------------
(***************************************************************************)
(* The ledger of the statistics.  It is inductive beside IInv once it is   *)
(* known whose the lost packets are: a task that lost one is done.         *)
(***************************************************************************)
Done == {t \in Tasks : task[t] = "done"}

LedgerInv ==
  /\ stats_total - stats_dropped = sent + Unsent
  /\ failed + aborted <= Cardinality(Done)

\* The tasks are two, so those asleep and those done can be counted.
LEMMA TasksCounted ==
  /\ IsFiniteSet(Tasks)
  /\ IsFiniteSet(Asleep) /\ Cardinality(Asleep) \in Nat
  /\ IsFiniteSet(Done) /\ Cardinality(Done) \in Nat
<1>1. IsFiniteSet({"audio"}) /\ IsFiniteSet({"video"})
  BY FS_Singleton
<1>2. Tasks = {"audio"} \cup {"video"}
  BY DEF Tasks
<1>3. IsFiniteSet(Tasks)
  BY <1>1, <1>2, FS_Union
<1>4. IsFiniteSet(Done)
  BY <1>3, FS_Subset DEF Done
<1> QED BY <1>3, <1>4, AsleepFinite, FS_CardinalityType

\* A task is not asleep and done at once.
LEMMA AsleepOrDone ==
  /\ Cardinality(Asleep) + Cardinality(Done) <= Cardinality(Tasks)
  /\ Cardinality(Tasks) \in Nat
<1>1. Asleep \cup Done \subseteq Tasks /\ Asleep \cap Done = {}
  BY DEF Asleep, Done
<1>2. Cardinality(Asleep \cup Done) <= Cardinality(Tasks) /\ Cardinality(Tasks) \in Nat
  BY <1>1, TasksCounted, FS_Subset, FS_CardinalityType
<1>3. Cardinality(Asleep \cap Done) = 0
  BY <1>1, FS_EmptySet
<1>4. Cardinality(Asleep \cup Done)
        = Cardinality(Asleep) + Cardinality(Done) - Cardinality(Asleep \cap Done)
  BY TasksCounted, FS_Union
<1> QED BY <1>2, <1>3, <1>4, TasksCounted

\* So no more packets are lost than there are tasks.
LEMMA LedgerInvLedger ==
  ASSUME TypeOK, LedgerInv
  PROVE  StatsLedger
BY AsleepOrDone, TasksCounted DEF LedgerInv, StatsLedger, Unsent, TypeOK

\* A packet in hand goes to the socket: it is sent, or its task is done.
LEMMA SendLedger ==
  ASSUME TypeOK, NEW t \in Tasks, NEW len \in Nat, task[t] # "done", Send(t, len),
         aborted' = aborted, failed + aborted <= Cardinality(Done)
  PROVE  /\ sent' + failed' = sent + failed + 1
         /\ failed' + aborted' <= Cardinality(Done')
         /\ Asleep' = Asleep \ {t}
<1>1. CASE task' = [task EXCEPT ![t] = "idle"] /\ sent' = sent + 1 /\ failed' = failed
  <2>1. Done' = Done /\ Asleep' = Asleep \ {t}
    BY <1>1 DEF Done, Asleep, TypeOK
  <2> QED BY <1>1, <2>1 DEF TypeOK
<1>2. CASE task' = [task EXCEPT ![t] = "done"] /\ failed' = failed + 1 /\ sent' = sent
  <2>1. Done' = Done \cup {t} /\ t \notin Done /\ Asleep' = Asleep \ {t}
    BY <1>2 DEF Done, Asleep, TypeOK
  <2>2. Cardinality(Done') = Cardinality(Done) + 1
    BY <2>1, TasksCounted, FS_AddElement
  <2> QED BY <1>2, <2>1, <2>2, TasksCounted DEF TypeOK
<1> QED BY <1>1, <1>2 DEF Send

\* One packet through the filter: never counted, dropped, in hand, or one more
\* asleep.
LEMMA OfferLedger ==
  ASSUME TypeOK, FilterInv, LedgerInv, NEW t \in Tasks, task[t] = "idle",
         NEW len \in Nat, Offer(t, len), aborted' = aborted
  PROVE  LedgerInv'
<1> USE DEF FilterInv
<1>0. t \notin Asleep
  BY DEF Asleep
<1>1. CASE Dropped(len)
  <2>1. stats_total' = stats_total + 1 /\ stats_dropped' = stats_dropped + 1
    BY <1>1, DropFacts DEF Dropped
  <2>2. sent' = sent /\ failed' = failed /\ Asleep' = Asleep /\ Done' = Done
    BY <1>1 DEF Dropped, Asleep, Done
  <2> QED BY <2>1, <2>2, TasksCounted DEF LedgerInv, Unsent, TypeOK
<1>2. CASE SentAtOnce(t, len)
  <2>1. stats_total' = stats_total + 1 /\ stats_dropped' = stats_dropped
    BY <1>2 DEF SentAtOnce, Pass
  <2>2. /\ sent' + failed' = sent + failed + 1
        /\ failed' + aborted' <= Cardinality(Done')
        /\ Asleep' = Asleep \ {t}
        /\ sent' \in Nat /\ failed' \in Nat
    BY <1>2, SendLedger, SendFacts DEF SentAtOnce, LedgerInv
  <2>3. Cardinality(Asleep') = Cardinality(Asleep)
    <3>1. Asleep' = Asleep
      BY <1>0, <2>2
    <3> QED BY <3>1
  <2>4. stats_total' - stats_dropped' = sent' + (failed' + aborted' + Cardinality(Asleep'))
    <3>1. stats_total - stats_dropped = sent + (failed + aborted + Cardinality(Asleep))
      BY DEF LedgerInv, Unsent
    <3>2. /\ stats_total \in Nat /\ stats_dropped \in Nat /\ sent \in Nat /\ failed \in Nat
          /\ aborted \in Nat /\ aborted' = aborted
      BY DEF TypeOK
    <3>3. Cardinality(Asleep) \in Nat
      BY TasksCounted
    <3>4. sent' + failed' = sent + failed + 1 /\ sent' \in Nat /\ failed' \in Nat
      BY <2>2
    <3>5. \A s, f \in Nat :
            s + f = sent + failed + 1
              => (stats_total + 1) - stats_dropped = s + (f + aborted + Cardinality(Asleep))
      BY <3>1, <3>2, <3>3
    <3>6. aborted' = aborted /\ stats_dropped' = stats_dropped /\ stats_total' = stats_total + 1
      BY <2>1
    <3> QED BY <2>3, <3>4, <3>5, <3>6, Zenon
  <2> QED BY <2>2, <2>4 DEF LedgerInv, Unsent
<1>3. CASE Delayed(t, len)
  <2>1. /\ stats_total' = stats_total + 1 /\ stats_dropped' = stats_dropped
        /\ sent' = sent /\ failed' = failed
    BY <1>3 DEF Delayed, Pass
  <2>2. Asleep' = Asleep \cup {t} /\ Done' = Done
    BY <1>3 DEF Delayed, Asleep, Done, TypeOK
  <2>3. Cardinality(Asleep') = Cardinality(Asleep) + 1
    BY <1>0, <2>2, AsleepFinite, FS_AddElement
  <2> QED BY <2>1, <2>2, <2>3, TasksCounted DEF LedgerInv, Unsent, TypeOK
<1>4. CASE Unencrypted
  BY <1>4 DEF Unencrypted, LedgerInv, Unsent, Asleep, Done, filterVars
<1> QED BY <1>1, <1>2, <1>3, <1>4 DEF Offer

LEMMA LedgerStep == IInv /\ LedgerInv /\ [Next]_vars => LedgerInv'
<1> SUFFICES ASSUME TypeOK, FilterInv, LedgerInv, [Next]_vars
             PROVE  LedgerInv'
  BY DEF IInv
<1>1. CASE AudioTick
  <2>1. task["audio"] = "idle" /\ Offer("audio", AudioSize) /\ aborted' = aborted
    BY <1>1 DEF AudioTick, Ticks, KeepHistory
  <2>2. "audio" \in Tasks /\ AudioSize \in Nat
    BY SendPathAssumption DEF Tasks
  <2> QED BY <2>1, <2>2, OfferLedger
<1>2. CASE VideoTick
  <2>1. task["video"] = "idle" /\ Offer("video", VideoSize) /\ aborted' = aborted
    BY <1>2 DEF VideoTick, Ticks, KeepHistory
  <2>2. "video" \in Tasks /\ VideoSize \in Nat
    BY SendPathAssumption DEF Tasks, VideoSize
  <2> QED BY <2>1, <2>2, OfferLedger
<1>3. ASSUME NEW t \in Tasks, Wake(t)
      PROVE  LedgerInv'
  <2>1. /\ task[t] = "sleep" /\ Send(t, held[t]) /\ held[t] \in Nat
        /\ aborted' = aborted /\ UNCHANGED <<stats_total, stats_dropped>>
    BY <1>3 DEF Wake, filterVars, TypeOK
  <2>2. /\ sent' + failed' = sent + failed + 1
        /\ failed' + aborted' <= Cardinality(Done')
        /\ Asleep' = Asleep \ {t}
        /\ sent' \in Nat /\ failed' \in Nat
    BY <2>1, SendLedger, SendFacts DEF LedgerInv
  <2>3. Cardinality(Asleep') = Cardinality(Asleep) - 1
    <3>1. t \in Asleep
      BY <2>1 DEF Asleep
    <3>2. Cardinality(Asleep \ {t}) = Cardinality(Asleep) - 1
      BY <3>1, AsleepFinite, FS_RemoveElement
    <3> QED BY <2>2, <3>2
  <2>4. stats_total' - stats_dropped' = sent' + (failed' + aborted' + Cardinality(Asleep'))
    <3>1. stats_total - stats_dropped = sent + (failed + aborted + Cardinality(Asleep))
      BY DEF LedgerInv, Unsent
    <3>2. /\ stats_total \in Nat /\ stats_dropped \in Nat /\ sent \in Nat /\ failed \in Nat
          /\ aborted \in Nat /\ aborted' = aborted
      BY <2>1 DEF TypeOK
    <3>3. Cardinality(Asleep) \in Nat
      BY TasksCounted
    <3>4. sent' + failed' = sent + failed + 1 /\ sent' \in Nat /\ failed' \in Nat
      BY <2>2
    <3>5. \A s, f \in Nat :
            s + f = sent + failed + 1
              => stats_total - stats_dropped = s + (f + aborted + (Cardinality(Asleep) - 1))
      BY <3>1, <3>2, <3>3
    <3>6. aborted' = aborted /\ stats_dropped' = stats_dropped /\ stats_total' = stats_total
      BY <2>1
    <3> QED BY <2>3, <3>4, <3>5, <3>6, Zenon
  <2> QED BY <2>2, <2>4 DEF LedgerInv, Unsent
<1>4. ASSUME NEW t \in Tasks, Exit(t)
      PROVE  LedgerInv'
  <2>1. Asleep' = Asleep /\ Done' = Done \cup {t} /\ t \notin Done
    BY <1>4 DEF Exit, Asleep, Done, TypeOK
  <2>2. Cardinality(Done') = Cardinality(Done) + 1
    BY <2>1, TasksCounted, FS_AddElement
  <2> QED BY <1>4, <2>1, <2>2, TasksCounted DEF Exit, filterVars, history, LedgerInv, Unsent, TypeOK
<1>5. CASE Abort
  <2>1. Asleep' = {} /\ Done' = Tasks
    BY <1>5 DEF Abort, Asleep, Done
  <2>2. Cardinality(Asleep') = 0
    BY <2>1, FS_EmptySet
  <2>3. Cardinality(Asleep) + Cardinality(Done) <= Cardinality(Done')
    BY <2>1, AsleepOrDone
  <2>4. Cardinality(Done') \in Nat
    BY <2>1, TasksCounted, FS_CardinalityType
  <2> QED BY <1>5, <2>2, <2>3, <2>4, TasksCounted
          DEF Abort, filterVars, LedgerInv, Unsent, TypeOK
<1>6. ASSUME NEW new \in Configs, UpdateNetFilter(new)
      PROVE  LedgerInv'
  BY <1>6 DEF UpdateNetFilter, Update, NewWindow, taskVars, LedgerInv, Unsent, Asleep, Done
<1>7. CASE Measure \/ RecvPli \/ Cancel \/ Advance \/ UNCHANGED vars
  BY <1>7 DEF Measure, NewWindow, RecvPli, Cancel, Advance, vars, filterVars, taskVars,
              history, LedgerInv, Unsent, Asleep, Done
<1> QED BY <1>1, <1>2, <1>3, <1>4, <1>5, <1>6, <1>7 DEF Next

\* stats_total and stats_dropped against the sockets: every packet the filter
\* let through is accounted for, failed sends and encryptions included, and at
\* most one packet a task was counted and not sent.
THEOREM LedgerKept == Spec => []StatsLedger
<1>1. Init => LedgerInv
  <2> SUFFICES ASSUME Init PROVE LedgerInv
    OBVIOUS
  <2>1. Asleep = {} /\ Done = {}
    BY DEF Init, Asleep, Done
  <2>2. Cardinality(Asleep) = 0 /\ Cardinality(Done) = 0
    BY <2>1, FS_EmptySet
  <2> QED BY <2>2 DEF Init, FilterInit, LedgerInv, Unsent
<1>2. IInv /\ LedgerInv => StatsLedger
  BY LedgerInvLedger DEF IInv
<1> QED BY <1>1, <1>2, LedgerStep, Invariance, PTL DEF Spec

-----------------------------------------------------------------------------
(***************************************************************************)
(* The intervals.  A delay that fits into the interval ends before the     *)
(* next tick is due, so a task is never behind when it is back in select!. *)
(***************************************************************************)
DelaysFit == \A c \in Configs, t \in Tasks : c.delay + c.jitter <= Period[t]

ScheduleInv ==
  \A t \in Tasks :
    /\ task[t] = "idle" => now <= due[t]
    /\ task[t] = "sleep" => now <= wake[t] /\ wake[t] <= due[t]

\* A delay of the filter is at most its delay and its jitter.
LEMMA DelaysBounded ==
  ASSUME TypeOK, NEW d \in Delays
  PROVE  d \in Nat /\ d <= config.delay + config.jitter
<1>1. config.delay \in Nat /\ config.jitter \in Nat
  BY ConfigFacts DEF TypeOK
<1> QED BY <1>1 DEF Delays

\* A task that fires on time and sleeps is back by its next tick.
LEMMA TickOnTime ==
  ASSUME DelaysFit, TypeOK, ScheduleInv, NEW t \in Tasks, NEW len, Ticks(t), Offer(t, len),
         now' = now
  PROVE  ScheduleInv'
<1>1. /\ task[t] = "idle" /\ now = due[t] /\ due'[t] = due[t] + Period[t]
      /\ \A u \in Tasks \ {t} : due'[u] = due[u]
  BY DEF Ticks, ScheduleInv, TypeOK
<1>2. now \in Nat /\ Period[t] \in Nat
  BY SendPathAssumption DEF TypeOK
<1>3. CASE UNCHANGED <<task, wake>>
  BY <1>1, <1>2, <1>3 DEF ScheduleInv
<1>4. CASE Delayed(t, len)
  <2>1. PICK d \in Delays : /\ task' = [task EXCEPT ![t] = "sleep"]
                            /\ wake' = [wake EXCEPT ![t] = now + d]
    BY <1>4 DEF Delayed
  <2>2. d \in Nat /\ d <= config.delay + config.jitter
    BY DelaysBounded
  <2>3. d <= Period[t]
    <3>1. config.delay + config.jitter <= Period[t] /\ config.delay \in Nat /\ config.jitter \in Nat
      BY ConfigFacts DEF DelaysFit, TypeOK
    <3> QED BY <1>2, <2>2, <3>1
  <2>4. /\ task'[t] = "sleep" /\ wake'[t] = now + d
        /\ \A u \in Tasks \ {t} : task'[u] = task[u] /\ wake'[u] = wake[u]
    BY <2>1 DEF TypeOK
  <2> QED BY <1>1, <1>2, <2>2, <2>3, <2>4 DEF ScheduleInv
<1>5. CASE SentAtOnce(t, len)
  <2>1. /\ wake' = wake /\ task'[t] # "sleep"
        /\ \A u \in Tasks \ {t} : task'[u] = task[u]
    BY <1>5 DEF SentAtOnce, Send, TypeOK
  <2> QED BY <1>1, <1>2, <2>1 DEF ScheduleInv
<1> QED BY <1>3, <1>4, <1>5 DEF Offer, Dropped, Unencrypted

LEMMA ScheduleStep == DelaysFit /\ IInv /\ ScheduleInv /\ [Next]_vars => ScheduleInv'
<1> SUFFICES ASSUME DelaysFit, TypeOK, ScheduleInv, [Next]_vars
             PROVE  ScheduleInv'
  BY DEF IInv
<1>1. CASE AudioTick
  BY <1>1, TickOnTime DEF AudioTick, Tasks
<1>2. CASE VideoTick
  BY <1>2, TickOnTime DEF VideoTick, Tasks
<1>3. ASSUME NEW t \in Tasks, Wake(t)
      PROVE  ScheduleInv'
  <2>1. /\ task'[t] # "sleep" /\ now <= due[t]
        /\ \A u \in Tasks \ {t} : task'[u] = task[u]
        /\ UNCHANGED <<now, wake, due>>
    BY <1>3 DEF Wake, Send, ScheduleInv, TypeOK
  <2> QED BY <2>1 DEF ScheduleInv
<1>4. ASSUME NEW t \in Tasks, Exit(t)
      PROVE  ScheduleInv'
  BY <1>4 DEF Exit, ScheduleInv, TypeOK
<1>5. CASE Abort
  BY <1>5 DEF Abort, ScheduleInv
<1>6. CASE Advance
  <2>1. ASSUME NEW t \in Tasks
        PROVE  /\ now + 1 \in Nat /\ now \in Nat /\ due[t] \in Nat /\ wake[t] \in Nat
               /\ task[t] = "idle" => now < due[t]
               /\ task[t] = "sleep" => now < wake[t]
    BY <1>6 DEF Advance, Ready, TypeOK
  <2> QED BY <1>6, <2>1 DEF Advance, taskVars, ScheduleInv
<1>7. ASSUME NEW new \in Configs, UpdateNetFilter(new)
      PROVE  ScheduleInv'
  BY <1>7 DEF UpdateNetFilter, NewWindow, taskVars, ScheduleInv
<1>8. CASE Measure \/ RecvPli \/ Cancel \/ UNCHANGED vars
  BY <1>8 DEF Measure, NewWindow, RecvPli, Cancel, vars, taskVars, ScheduleInv
<1> QED BY <1>1, <1>2, <1>3, <1>4, <1>5, <1>6, <1>7, <1>8 DEF Next

\* start_publishing: the audio and the video keep their intervals, provided
\* no profile's delay with its jitter exceeds one (field_lte's does).
THEOREM Scheduled ==
  ASSUME DelaysFit
  PROVE  Spec => []OnSchedule
<1>1. Init => ScheduleInv
  BY DEF Init, ScheduleInv
<1>2. IInv /\ ScheduleInv /\ [Next]_vars => ScheduleInv'
  BY ScheduleStep
<1>3. IInv /\ ScheduleInv => OnSchedule
  <2> SUFFICES ASSUME TypeOK, ScheduleInv, NEW t \in Tasks, task[t] # "done"
               PROVE  now < due[t] + Period[t]
    BY DEF IInv, OnSchedule
  <2>1. now \in Nat /\ due[t] \in Nat /\ wake[t] \in Nat /\ Period[t] \in Nat \ {0}
    BY SendPathAssumption DEF TypeOK
  <2>2. now <= due[t]
    <3>1. task[t] = "idle" \/ task[t] = "sleep"
      BY DEF TypeOK
    <3> QED BY <2>1, <3>1 DEF ScheduleInv
  <2> QED BY <2>1, <2>2
<1> QED BY <1>1, <1>2, <1>3, Invariance, PTL DEF Spec

=============================================================================
