-------------------------- MODULE Distributed_proofs --------------------------
(***************************************************************************)
(* What TLAPS proves of the distributed measurement for any number of      *)
(* workers and subscribers and any durations: the window that a worker     *)
(* computes when it boots lasts if the margin is at least the second to    *)
(* which the window is rounded, the last worker absorbs the rest exactly   *)
(* when there is a rest to absorb, and a healthy point was heard.          *)
(***************************************************************************)
EXTENDS Distributed, FiniteSetTheorems, TLAPS

(***************************************************************************)
(* The window.  A worker that waits has enough of it left, from now, for   *)
(* the wait and the measuring; so have its subscribers, from their own     *)
(* setup; and then both have until the measuring is over.                  *)
(***************************************************************************)
Later(a, b) == IF a > b THEN a ELSE b

ClockTypes ==
  /\ dist_now \in Nat /\ dist_alarm \in Int
  /\ nth \in Nat
  /\ worker \in [Ids -> {"none", "spawned", "wait", "measure", "reported", "dead"}]
  /\ window \in [Ids -> Int] /\ until \in [Ids -> Int]
  /\ bot \in [BotIds -> {"none", "setup", "recv", "done"}]
  /\ deadline \in [BotIds -> Int]

NotSpawnedYet == coord = "spawn" => \A w \in Ids : w >= nth => worker[w] = "none"

NoneBeforeBoot ==
  \A b \in BotIds : worker[b[1]] \in {"none", "spawned"} => bot[b] = "none"

EnoughAhead(w) ==
  /\ worker[w] = "wait" => dist_now + window[w] > Later(dist_start, dist_now) + DistDuration
  /\ worker[w] = "measure" => dist_now <= until[w] /\ dist_now + window[w] > until[w]

EnoughLeft(b) ==
  /\ worker[b[1]] \in {"wait", "measure"} => bot[b] # "done"
  /\ worker[b[1]] = "wait" /\ bot[b] = "recv" =>
       deadline[b] > Later(dist_start, dist_now) + DistDuration
  /\ worker[b[1]] = "measure" /\ bot[b] = "recv" => deadline[b] > until[b[1]]

WindowInv ==
  /\ ClockTypes /\ NotSpawnedYet /\ NoneBeforeBoot
  /\ \A w \in Ids : EnoughAhead(w)
  /\ \A b \in BotIds : EnoughLeft(b)

(***************************************************************************)
(* The window is rounded down, by less than a second (run_cap_worker).     *)
(***************************************************************************)
LEMMA Rounding ==
  ASSUME NEW ticks \in Nat
  PROVE InSeconds(ticks) \in Int /\ InSeconds(ticks) > ticks - Second
<1>1. Second \in Nat \ {0}
  BY DistAssumption
<1>2. ticks % Second \in 0 .. Second - 1
  BY <1>1
<1> QED
  BY <1>1, <1>2 DEF InSeconds

LEMMA WindowInit == DistInit => WindowInv
  BY DistAssumption DEF DistInit, WindowInv, ClockTypes, NotSpawnedYet, NoneBeforeBoot,
    EnoughAhead, EnoughLeft, Ids, BotIds

(***************************************************************************)
(* Every step keeps the window, if the margin covers the rounding          *)
(* (run_cap_worker, run_distributed).                                      *)
(***************************************************************************)
LEMMA WindowStep ==
  ASSUME DistMargin >= Second, WindowInv, [DistNext]_distVars
  PROVE WindowInv'
<1> USE DEF WindowInv
<1>c. /\ Grace \in Nat /\ DistDuration \in Nat /\ DistMargin \in Nat /\ Second \in Nat
      /\ dist_start = Grace
  BY DistAssumption DEF dist_start
<1>b. \A b \in BotIds : b[1] \in Ids
  BY DEF BotIds
<1>0. CASE UNCHANGED distVars
  BY <1>0 DEF distVars, ClockTypes, NotSpawnedYet, NoneBeforeBoot, EnoughAhead, EnoughLeft,
    Later, dist_start
<1>1. ASSUME NEW w \in Ids, Boot(w) PROVE WindowInv'
  <2>1. UntilStart \in Nat /\ dist_now + UntilStart = Later(dist_start, dist_now)
    BY <1>c DEF UntilStart, ClockTypes, Later
  <2>2. /\ RunWindow \in Int
        /\ dist_now + RunWindow > Later(dist_start, dist_now) + DistDuration
    BY <1>c, <2>1, Rounding DEF RunWindow, ClockTypes, Later
  <2>3. ClockTypes'
    BY <1>1, <2>2 DEF Boot, ClockTypes, coordVars
  <2>4. NotSpawnedYet' /\ NoneBeforeBoot'
    BY <1>1, <1>b DEF Boot, ClockTypes, coordVars, NotSpawnedYet, NoneBeforeBoot
  <2>5. ASSUME NEW v \in Ids PROVE EnoughAhead(v)'
    BY <1>1, <1>c, <2>2 DEF Boot, ClockTypes, EnoughAhead, dist_start, Later
  <2>6. ASSUME NEW b \in BotIds PROVE EnoughLeft(b)'
    BY <1>1, <1>b, <1>c DEF Boot, ClockTypes, NoneBeforeBoot, EnoughLeft, dist_start, Later
  <2> QED
    BY <2>3, <2>4, <2>5, <2>6
<1>2. ASSUME NEW w \in Ids, WorkerMeasures(w) PROVE WindowInv'
  <2>1. ClockTypes' /\ NotSpawnedYet' /\ NoneBeforeBoot'
    BY <1>2, <1>b, <1>c DEF WorkerMeasures, ClockTypes, coordVars, NotSpawnedYet, NoneBeforeBoot
  <2>2. ASSUME NEW v \in Ids PROVE EnoughAhead(v)'
    BY <1>2, <1>c DEF WorkerMeasures, ClockTypes, EnoughAhead, dist_start, Later
  <2>3. ASSUME NEW b \in BotIds PROVE EnoughLeft(b)'
    BY <1>2, <1>b, <1>c DEF WorkerMeasures, ClockTypes, EnoughLeft, dist_start, Later
  <2> QED
    BY <2>1, <2>2, <2>3
<1>3. ASSUME NEW w \in Ids, WorkerReports(w) \/ WorkerDies(w) PROVE WindowInv'
  <2>1. \A v \in Ids : worker'[v] = worker[v] \/ worker'[v] \in {"reported", "dead"}
    BY <1>3 DEF WorkerReports, WorkerDies, ClockTypes
  <2>2. ClockTypes' /\ NotSpawnedYet'
    BY <1>3 DEF WorkerReports, WorkerDies, Running, ClockTypes, coordVars, NotSpawnedYet
  <2>3. UNCHANGED <<dist_now, window, until, bot, deadline>>
    BY <1>3 DEF WorkerReports, WorkerDies
  <2>4. NoneBeforeBoot'
    BY <1>b, <2>1, <2>3 DEF NoneBeforeBoot
  <2>5. \A v \in Ids : EnoughAhead(v)'
    BY <2>1, <2>3 DEF EnoughAhead, dist_start, Later
  <2>6. \A b \in BotIds : EnoughLeft(b)'
    BY <1>b, <2>1, <2>3 DEF EnoughLeft, dist_start, Later
  <2> QED
    BY <2>2, <2>4, <2>5, <2>6
<1>4. ASSUME NEW b \in BotIds, BotReady(b) \/ BotHears(b) \/ BotEnds(b) PROVE WindowInv'
  <2>1. UNCHANGED <<dist_now, dist_alarm, nth, coord, worker, window, until>>
    BY <1>4 DEF BotReady, BotHears, BotEnds, coordVars
  <2>2. ClockTypes' /\ NotSpawnedYet' /\ NoneBeforeBoot'
    BY <1>4, <1>b, <2>1 DEF BotReady, BotHears, BotEnds, Running, ClockTypes, NotSpawnedYet,
      NoneBeforeBoot
  <2>3. \A v \in Ids : EnoughAhead(v)'
    BY <2>1 DEF EnoughAhead, dist_start, Later
  <2>4. ASSUME NEW c \in BotIds PROVE EnoughLeft(c)'
    <3>1. CASE BotReady(b)
      BY <3>1, <2>1, <1>b, <1>c DEF BotReady, Running, ClockTypes, EnoughLeft, EnoughAhead,
        dist_start, Later
    <3>2. CASE BotHears(b)
      BY <3>2, <2>1, <1>b DEF BotHears, EnoughLeft, dist_start, Later
    <3>3. CASE BotEnds(b)
      BY <3>3, <2>1, <1>b, <1>c DEF BotEnds, Running, ClockTypes, EnoughLeft, EnoughAhead,
        dist_start, Later
    <3> QED
      BY <1>4, <3>1, <3>2, <3>3
  <2> QED
    BY <2>2, <2>3, <2>4
<1>5. CASE PubActs
  BY <1>5 DEF PubActs, PubSetsUp, PubStarts, PubStops, workerVars, coordVars, ClockTypes,
    NotSpawnedYet, NoneBeforeBoot, EnoughAhead, EnoughLeft, dist_start, Later
<1>6. CASE SpawnWorker
  <2>1. nth \in Ids
    BY <1>6, DistAssumption DEF SpawnWorker, ClockTypes, Ids
  <2>2. UNCHANGED <<dist_now, dist_alarm, coord, window, until, bot, deadline>> /\ nth' = nth + 1
    BY <1>6 DEF SpawnWorker
  <2>3. /\ worker' \in [Ids -> {"none", "spawned", "wait", "measure", "reported", "dead"}]
        /\ worker[nth] = "none" /\ worker'[nth] \in {"none", "spawned"}
        /\ \A v \in Ids : v # nth => worker'[v] = worker[v]
    BY <1>6, <2>1 DEF SpawnWorker, ClockTypes, NotSpawnedYet
  <2>4. ClockTypes' /\ NotSpawnedYet' /\ NoneBeforeBoot'
    BY <1>b, <2>1, <2>2, <2>3 DEF ClockTypes, NotSpawnedYet, NoneBeforeBoot, Ids
  <2>5. \A v \in Ids : EnoughAhead(v)'
    BY <2>2, <2>3 DEF EnoughAhead, dist_start, Later
  <2>6. \A b \in BotIds : EnoughLeft(b)'
    BY <1>b, <2>2, <2>3 DEF EnoughLeft, dist_start, Later
  <2> QED
    BY <2>4, <2>5, <2>6
<1>7. CASE Spawned \/ DistTrigger \/ CoordMeasured \/ CollectReport \/ DistReport
  <2>1. UNCHANGED workerVars /\ dist_now' = dist_now /\ nth' \in Nat /\ dist_alarm' \in Int
    BY <1>7, <1>c DEF Spawned, DistTrigger, CoordMeasured, CollectReport, DistReport, ClockTypes
  <2>2. coord' # "spawn"
    BY <1>7 DEF Spawned, DistTrigger, CoordMeasured, CollectReport, DistReport
  <2> QED
    BY <2>1, <2>2 DEF workerVars, ClockTypes, NotSpawnedYet, NoneBeforeBoot, EnoughAhead,
      EnoughLeft, dist_start, Later
<1>8. CASE DistAdvance
  <2>1. /\ UNCHANGED <<dist_alarm, nth, coord, worker, window, until, bot, deadline>>
        /\ dist_now' = dist_now + 1
    BY <1>8 DEF DistAdvance, coordVars, workerVars
  <2>2. \A w \in Ids : /\ worker[w] = "wait" => dist_now < dist_start
                       /\ worker[w] = "measure" => dist_now < until[w]
    BY <1>8 DEF DistAdvance, DistOnTime
  <2>3. ClockTypes' /\ NotSpawnedYet' /\ NoneBeforeBoot'
    BY <2>1 DEF ClockTypes, NotSpawnedYet, NoneBeforeBoot
  <2>4. ASSUME NEW v \in Ids PROVE EnoughAhead(v)'
    BY <1>c, <2>1, <2>2 DEF ClockTypes, EnoughAhead, dist_start, Later
  <2>5. ASSUME NEW b \in BotIds PROVE EnoughLeft(b)'
    BY <1>b, <1>c, <2>1, <2>2 DEF ClockTypes, EnoughLeft, dist_start, Later
  <2> QED
    BY <2>3, <2>4, <2>5
<1> QED
  BY <1>0, <1>1, <1>2, <1>3, <1>4, <1>5, <1>6, <1>7, <1>8 DEF DistNext, WorkerActs, CoordActs

(***************************************************************************)
(* A worker's subscribers last until its measuring is over, if the margin  *)
(* is at least the second to which the window is rounded                   *)
(* (run_cap_worker: MARGIN_SECS is more).                                  *)
(***************************************************************************)
THEOREM WindowsAreCovered ==
  ASSUME DistMargin >= Second
  PROVE DistSpec => []WorkerWindowCovered
<1>1. DistInit => WindowInv
  BY WindowInit
<1>2. WindowInv /\ [DistNext]_distVars => WindowInv'
  BY WindowStep
<1>3. WindowInv => WorkerWindowCovered
  BY DEF WindowInv, EnoughLeft, WorkerWindowCovered
<1> QED
  BY <1>1, <1>2, <1>3, PTL DEF DistSpec

-----------------------------------------------------------------------------
(***************************************************************************)
(* The sums.  A report counts no more than the worker's subscribers heard, *)
(* and the coordinator's sum no more than those of the workers it is past. *)
(***************************************************************************)
HeardBy(w) == {b \in heard : b[1] = w}
HeardBefore(n) == {b \in heard : b[1] < n}

SumTypes ==
  /\ nth \in Nat /\ heard \subseteq BotIds
  /\ reports \in [Ids -> [setup : Nat, active : Nat]]
  /\ totals \in [setup : Nat, active : Nat]

ReportsAreHeard == \A w \in Ids : reports[w].active <= Cardinality(HeardBy(w))

SumsAreHeard ==
  /\ coord \in {"spawn", "wait", "measure"} => totals.active = 0
  /\ coord \in {"wait", "measure"} => nth = 0
  /\ coord = "collect" => totals.active <= Cardinality(HeardBefore(nth))

\* Whoever heard something heard the publisher.
HeardIsPublished == heard # {} => dist_pub \in {"sending", "done"}

HealthyIsHeard ==
  coord = "done" /\ healthy /\ Total > 0 =>
    dist_pub = "done" /\ 10 * Cardinality(heard) >= 9 * Total

HealthInv ==
  SumTypes /\ ReportsAreHeard /\ SumsAreHeard /\ HeardIsPublished /\ HealthyIsHeard

LEMMA HeardFinite ==
  ASSUME NEW H, H \subseteq BotIds
  PROVE  IsFiniteSet(H) /\ Cardinality(H) \in Nat
<1>1. IsFiniteSet(Ids) /\ IsFiniteSet(1 .. MaxShare)
  BY DistAssumption, FS_Interval DEF Ids
<1>2. IsFiniteSet(BotIds)
  BY <1>1, FS_Product DEF BotIds
<1> QED
  BY <1>2, FS_Subset, FS_CardinalityType

LEMMA HealthInit == DistInit => HealthInv
<1> SUFFICES ASSUME DistInit PROVE HealthInv
  OBVIOUS
<1>1. SumTypes /\ heard = {} /\ coord = "spawn" /\ totals.active = 0
  BY DEF DistInit, SumTypes, NoCount
<1>2. \A w \in Ids : reports[w].active = 0 /\ Cardinality(HeardBy(w)) \in Nat
  BY <1>1, HeardFinite DEF DistInit, NoCount, HeardBy
<1> QED
  BY <1>1, <1>2 DEF HealthInv, ReportsAreHeard, SumsAreHeard, HeardIsPublished, HealthyIsHeard

\* A step that hears more and sums nothing.
LEMMA HearingKeeps ==
  ASSUME HealthInv, UNCHANGED <<coordVars, reports>>,
         heard \subseteq heard', heard' \subseteq BotIds,
         heard' # {} => dist_pub' \in {"sending", "done"},
         dist_pub = "done" => dist_pub' = "done"
  PROVE  HealthInv'
<1>1. UNCHANGED <<coord, nth, totals, healthy, reports>>
  BY DEF coordVars
<1>2. SumTypes /\ SumTypes'
  BY <1>1 DEF HealthInv, SumTypes
<1>3. ASSUME NEW w \in Ids PROVE Cardinality(HeardBy(w)) <= Cardinality(HeardBy(w)')
  BY HeardFinite, FS_Subset DEF HeardBy
<1>4. \A w \in Ids : /\ Cardinality(HeardBy(w)) \in Nat /\ Cardinality(HeardBy(w)') \in Nat
                     /\ reports[w].active \in Nat
  BY <1>2, HeardFinite DEF HeardBy, SumTypes
<1>5. ReportsAreHeard'
  BY <1>1, <1>3, <1>4 DEF HealthInv, ReportsAreHeard
<1>6. Cardinality(HeardBefore(nth)) <= Cardinality(HeardBefore(nth)')
  BY HeardFinite, FS_Subset, <1>1 DEF HeardBefore
<1>7. /\ Cardinality(HeardBefore(nth)) \in Nat /\ Cardinality(HeardBefore(nth)') \in Nat
      /\ totals.active \in Nat
  BY <1>1, <1>2, HeardFinite DEF HeardBefore, SumTypes
<1>8. SumsAreHeard'
  BY <1>1, <1>6, <1>7 DEF HealthInv, SumsAreHeard
<1>9. /\ Cardinality(heard) <= Cardinality(heard') /\ Cardinality(heard) \in Nat
      /\ Cardinality(heard') \in Nat /\ Total \in Nat
  BY <1>2, HeardFinite, FS_Subset, DistAssumption DEF SumTypes
<1>10. HealthyIsHeard'
  BY <1>1, <1>9 DEF HealthInv, HealthyIsHeard
<1> QED
  BY <1>2, <1>5, <1>8, <1>10 DEF HealthInv, HeardIsPublished

\* A step of the coordinator that collects nothing.
LEMMA CoordKeeps ==
  ASSUME HealthInv, UNCHANGED <<heard, reports, dist_pub, totals>>, nth' \in Nat,
         coord' \in {"spawn", "wait", "measure"} => totals.active = 0,
         coord' \in {"wait", "measure"} => nth' = 0,
         coord' = "collect" => totals.active = 0,
         coord' # "done"
  PROVE  HealthInv'
<1>1. SumTypes' /\ ReportsAreHeard' /\ HeardIsPublished'
  BY DEF HealthInv, SumTypes, ReportsAreHeard, HeardBy, HeardIsPublished
<1>2. Cardinality(HeardBefore(nth)') \in Nat
  BY HeardFinite DEF HeardBefore, HealthInv, SumTypes
<1> QED
  BY <1>1, <1>2 DEF HealthInv, SumsAreHeard, HealthyIsHeard

(***************************************************************************)
(* Every step keeps the sums (run_cap_worker, run_distributed).            *)
(***************************************************************************)
LEMMA HealthStep ==
  ASSUME HealthInv, [DistNext]_distVars
  PROVE  HealthInv'
<1>t. SumTypes /\ HeardIsPublished
  BY DEF HealthInv
<1>0. CASE UNCHANGED <<coordVars, heard, reports, dist_pub>>
  BY <1>0, <1>t, HearingKeeps DEF SumTypes, HeardIsPublished
<1>1. ASSUME NEW w \in Ids, Boot(w) \/ WorkerMeasures(w) \/ WorkerDies(w)
      PROVE  UNCHANGED <<coordVars, heard, reports, dist_pub>>
  BY <1>1 DEF Boot, WorkerMeasures, WorkerDies, dist_pubVars
<1>2. ASSUME NEW b \in BotIds, BotReady(b) \/ BotEnds(b)
      PROVE  UNCHANGED <<coordVars, heard, reports, dist_pub>>
  BY <1>2 DEF BotReady, BotEnds, dist_pubVars
<1>3. ASSUME NEW b \in BotIds, BotHears(b) PROVE HealthInv'
  <2>1. /\ UNCHANGED <<coordVars, reports, dist_pub>> /\ heard' = heard \cup {b}
        /\ dist_pub \in {"sending", "done"}
    BY <1>3 DEF BotHears, dist_pubVars
  <2> QED
    BY <1>t, <2>1, HearingKeeps DEF SumTypes
<1>4. ASSUME NEW w \in Ids, WorkerReports(w) PROVE HealthInv'
  <2> DEFINE set == Cardinality({b \in BotIds : b[1] = w /\ bot[b] \in {"recv", "done"}})
             act == Cardinality({b \in heard : b[1] = w})
  <2>1. /\ UNCHANGED <<coord, nth, totals, healthy, heard, dist_pub>>
        /\ reports' = [reports EXCEPT ![w] = [setup |-> set, active |-> act]]
    BY <1>4 DEF WorkerReports, coordVars, dist_pubVars
  <2>2. set \in Nat /\ act \in Nat /\ act = Cardinality(HeardBy(w))
    BY <1>t, HeardFinite DEF HeardBy, SumTypes
  <2> HIDE DEF set, act
  <2>3. SumTypes'
    BY <1>t, <2>1, <2>2 DEF SumTypes
  <2>4. ReportsAreHeard'
    <3>1. ASSUME NEW v \in Ids PROVE reports'[v].active <= Cardinality(HeardBy(v))
      <4>1. CASE v = w
        BY <1>t, <2>1, <2>2, <4>1 DEF SumTypes
      <4>2. CASE v # w
        BY <1>t, <2>1, <4>2 DEF HealthInv, ReportsAreHeard, SumTypes
      <4> QED
        BY <4>1, <4>2
    <3> QED
      BY <2>1, <3>1 DEF ReportsAreHeard, HeardBy
  <2> QED
    BY <2>1, <2>3, <2>4 DEF HealthInv, SumsAreHeard, HeardBefore, HeardIsPublished,
      HealthyIsHeard
<1>5. CASE PubActs
  <2>1. UNCHANGED <<coordVars, workerVars>>
    BY <1>5 DEF PubActs, PubSetsUp, PubStarts, PubStops
  <2>2. /\ dist_pub = "done" => dist_pub' = "done"
        /\ dist_pub = "sending" => dist_pub' = "done"
    BY <1>5 DEF PubActs, PubSetsUp, PubStarts, PubStops
  <2> QED
    BY <1>t, <2>1, <2>2, HearingKeeps DEF workerVars, SumTypes, HeardIsPublished
<1>6. CASE SpawnWorker \/ Spawned \/ DistTrigger \/ CoordMeasured
  <2>1. UNCHANGED <<heard, reports, dist_pub, totals>>
    BY <1>6 DEF SpawnWorker, Spawned, DistTrigger, CoordMeasured, workerVars, dist_pubVars
  <2>2. totals.active = 0 /\ coord' # "done" /\ nth' \in Nat
    BY <1>6, <1>t DEF SpawnWorker, Spawned, DistTrigger, CoordMeasured, HealthInv, SumsAreHeard,
      SumTypes
  <2>3. coord' \in {"wait", "measure"} => nth' = 0
    BY <1>6 DEF SpawnWorker, Spawned, DistTrigger, CoordMeasured, HealthInv, SumsAreHeard
  <2> QED
    BY <2>1, <2>2, <2>3, CoordKeeps
<1>7. CASE CollectReport
  <2>1. /\ coord = "collect" /\ nth \in Ids /\ nth' = nth + 1
        /\ totals' = [setup |-> totals.setup + reports[nth].setup,
                      active |-> totals.active + reports[nth].active]
        /\ UNCHANGED <<coord, heard, reports, dist_pub>>
    BY <1>7, <1>t, DistAssumption DEF CollectReport, workerVars, dist_pubVars, SumTypes, Ids
  <2>2. /\ totals.setup \in Nat /\ reports[nth].setup \in Nat
        /\ totals.active \in Nat /\ reports[nth].active \in Nat /\ nth \in Nat
    BY <1>t, <2>1 DEF SumTypes
  <2>3. SumTypes'
    BY <1>t, <2>1, <2>2 DEF SumTypes
  <2>4. /\ HeardBefore(nth + 1) = HeardBefore(nth) \cup HeardBy(nth)
        /\ HeardBefore(nth) \cap HeardBy(nth) = {}
    BY <1>t, <2>1 DEF HeardBefore, HeardBy, SumTypes, BotIds, Ids
  <2>5. /\ IsFiniteSet(HeardBefore(nth)) /\ IsFiniteSet(HeardBy(nth))
        /\ Cardinality(HeardBefore(nth)) \in Nat /\ Cardinality(HeardBy(nth)) \in Nat
    BY <1>t, HeardFinite DEF HeardBefore, HeardBy, SumTypes
  <2>6. Cardinality(HeardBefore(nth + 1))
          = Cardinality(HeardBefore(nth)) + Cardinality(HeardBy(nth))
    <3>1. Cardinality(HeardBefore(nth) \cup HeardBy(nth))
            = Cardinality(HeardBefore(nth)) + Cardinality(HeardBy(nth))
                - Cardinality(HeardBefore(nth) \cap HeardBy(nth))
      BY <2>5, FS_Union
    <3>2. Cardinality(HeardBefore(nth) \cap HeardBy(nth)) = 0
      BY <2>4, FS_EmptySet
    <3>3. Cardinality(HeardBefore(nth + 1)) = Cardinality(HeardBefore(nth) \cup HeardBy(nth))
      BY <2>4, Zenon
    <3> QED
      BY <2>5, <3>1, <3>2, <3>3
  <2>7. totals'.active <= Cardinality(HeardBefore(nth + 1))
    <3>1. /\ totals.active <= Cardinality(HeardBefore(nth))
          /\ reports[nth].active <= Cardinality(HeardBy(nth))
      BY <2>1 DEF HealthInv, SumsAreHeard, ReportsAreHeard
    <3>2. totals'.active = totals.active + reports[nth].active
      BY <2>1
    <3> QED
      BY <2>2, <2>5, <2>6, <3>1, <3>2
  <2>8. HeardBefore(nth)' = HeardBefore(nth + 1)
    BY <2>1 DEF HeardBefore
  <2>9. SumsAreHeard'
    BY <2>1, <2>7, <2>8 DEF SumsAreHeard
  <2> QED
    BY <2>1, <2>3, <2>9 DEF HealthInv, ReportsAreHeard, HeardBy, HeardIsPublished, HealthyIsHeard
<1>8. CASE DistReport
  <2>1. /\ coord = "collect" /\ coord' = "done" /\ dist_pub \in {"done", "failed"}
        /\ healthy' = subs_ok
        /\ UNCHANGED <<nth, totals, heard, reports, dist_pub>>
    BY <1>8 DEF DistReport, workerVars, dist_pubVars
  <2>2. SumTypes' /\ ReportsAreHeard' /\ SumsAreHeard' /\ HeardIsPublished'
    BY <1>t, <2>1 DEF HealthInv, SumTypes, ReportsAreHeard, HeardBy, SumsAreHeard,
      HeardIsPublished
  <2>3. /\ totals.active <= Cardinality(HeardBefore(nth))
        /\ Cardinality(HeardBefore(nth)) <= Cardinality(heard)
        /\ totals.active \in Nat /\ Cardinality(heard) \in Nat /\ Total \in Nat
        /\ Cardinality(HeardBefore(nth)) \in Nat
    <3>1. HeardBefore(nth) \subseteq heard /\ heard \subseteq BotIds
      BY <1>t DEF HeardBefore, SumTypes
    <3> QED
      BY <1>t, <2>1, <3>1, HeardFinite, FS_Subset, DistAssumption DEF HealthInv, SumsAreHeard,
        SumTypes
  <2>4. ASSUME healthy', Total > 0
        PROVE  dist_pub = "done" /\ 10 * Cardinality(heard) >= 9 * Total
    <3>0. subs_ok
      BY <2>1, <2>4, Zenon
    <3>1. 10 * totals.active >= 9 * Total
      BY <2>3, <2>4, <3>0 DEF subs_ok
    <3>2. 10 * Cardinality(heard) >= 9 * Total
      BY <2>3, <3>1
    <3>3. Cardinality(heard) # 0
      BY <2>3, <2>4, <3>2
    <3>4. heard # {}
      BY <3>3, FS_EmptySet
    <3> QED
      BY <1>t, <2>1, <3>2, <3>4 DEF HeardIsPublished
  <2> QED
    BY <2>1, <2>2, <2>4 DEF HealthInv, HealthyIsHeard
<1>9. DistAdvance => UNCHANGED <<coordVars, heard, reports, dist_pub>>
  BY DEF DistAdvance, workerVars, dist_pubVars
<1>10. UNCHANGED distVars => UNCHANGED <<coordVars, heard, reports, dist_pub>>
  BY DEF distVars, coordVars
<1> QED
  BY <1>0, <1>1, <1>2, <1>3, <1>4, <1>5, <1>6, <1>7, <1>8, <1>9, <1>10
  DEF DistNext, WorkerActs, CoordActs

(***************************************************************************)
(* A point reported as healthy is one in which the publisher did publish   *)
(* and nine tenths of the subscribers asked for received it, whichever     *)
(* worker died, was not spawned or reported nothing (run_distributed).     *)
(***************************************************************************)
THEOREM HealthyWasHeard == DistSpec => []HealthyMeansHeard
<1>1. HealthInv /\ [DistNext]_distVars => HealthInv'
  BY HealthStep
<1>2. HealthInv => HealthyMeansHeard
  BY DEF HealthInv, HealthyIsHeard, HealthyMeansHeard
<1> QED
  BY HealthInit, <1>1, <1>2, PTL DEF DistSpec

-----------------------------------------------------------------------------
(***************************************************************************)
(* The shares.  They are the rounded-up quotient but for the last, and     *)
(* what is left for the last is a share unless the others were given more  *)
(* than there is (run_distributed).                                        *)
(***************************************************************************)
SharesInv == share \in [Ids -> {0} \cup {Share(w) : w \in Ids}]

LEMMA SharesStay == DistSpec => []SharesInv
<1>1. DistInit => SharesInv
  BY DEF DistInit, SharesInv
<1>2. SharesInv /\ [DistNext]_distVars => SharesInv'
  <2> SUFFICES ASSUME SharesInv, [DistNext]_distVars PROVE SharesInv'
    OBVIOUS
  <2>1. CASE SpawnWorker
    <3>1. share' = [share EXCEPT ![nth] = Share(nth)]
      BY <2>1 DEF SpawnWorker
    <3> QED
      BY <3>1 DEF SharesInv
  <2>2. CASE UNCHANGED share
    BY <2>2 DEF SharesInv
  <2> QED
    BY <2>1, <2>2 DEF DistNext, WorkerActs, CoordActs, distVars, Boot, WorkerMeasures,
      WorkerReports, WorkerDies, BotReady, BotHears, BotEnds, PubActs, PubSetsUp, PubStarts,
      PubStops, Spawned, DistTrigger, CoordMeasured, CollectReport, DistReport, DistAdvance,
      coordVars
<1> QED
  BY <1>1, <1>2, PTL DEF DistSpec

LEMMA PerWorker == per_worker \in Nat /\ per_worker <= Total
<1>1. Total \in Nat /\ Workers \in Nat \ {0}
  BY DistAssumption
<1>2. per_worker \in Nat /\ Workers * per_worker <= Total + Workers - 1
  BY <1>1 DEF per_worker
<1>3. ASSUME per_worker > Total PROVE FALSE
  <2>1. Workers * (per_worker - Total - 1) >= 0
    BY <1>1, <1>2, <1>3
  <2>2. Workers * (per_worker - Total - 1) = Workers * per_worker - Workers * Total - Workers
    BY <1>1, <1>2
  <2>3. (Workers - 1) * Total >= 0
    BY <1>1
  <2>4. (Workers - 1) * Total = Workers * Total - Total
    BY <1>1
  <2>5. Workers * Total \in Nat /\ Workers * per_worker \in Nat
    BY <1>1, <1>2
  <2> QED
    BY <1>1, <1>2, <2>1, <2>2, <2>3, <2>4, <2>5
<1> QED
  BY <1>1, <1>2, <1>3

(***************************************************************************)
(* "The last worker absorbs the rest", as the comment says, if the others  *)
(* leave it any (distributed.rs:174-176).                                  *)
(***************************************************************************)
THEOREM LastShareFits ==
  ASSUME Total < UsizeMod, per_worker * (Workers - 1) <= Total
  PROVE DistSpec => []LastAbsorbsTheRest
<1>c. Total \in Nat /\ Workers \in Nat \ {0} /\ UsizeMod \in Nat \ {0}
  BY DistAssumption
<1>1. per_worker * (Workers - 1) \in Nat
  BY <1>c, PerWorker
<1>2. ASSUME NEW w \in Ids PROVE Share(w) <= Total
  <2>1. (Total - per_worker * (Workers - 1)) % UsizeMod = Total - per_worker * (Workers - 1)
    BY <1>c, <1>1
  <2> QED
    BY <1>c, <1>1, <2>1, PerWorker DEF Share
<1>3. SharesInv => LastAbsorbsTheRest
  BY <1>c, <1>2 DEF SharesInv, LastAbsorbsTheRest
<1> QED
  BY <1>3, SharesStay, PTL

(***************************************************************************)
(* Otherwise div_ceil gives the others more than there is, and the last    *)
(* worker's count wraps to more than were asked for: the condition of      *)
(* LastShareFits cannot be weakened (distributed.rs:176).                  *)
(***************************************************************************)
THEOREM LastShareWraps ==
  ASSUME Total < per_worker * (Workers - 1), per_worker * (Workers - 1) < UsizeMod
  PROVE Share(Workers - 1) > Total
<1>1. Total \in Nat /\ Workers \in Nat \ {0} /\ UsizeMod \in Nat \ {0}
  BY DistAssumption
<1> DEFINE others == per_worker * (Workers - 1)
<1>2. others \in Nat
  BY <1>1, PerWorker
<1> HIDE DEF others
<1>3. Total < others /\ others < UsizeMod
  BY DEF others
<1>4. (Total - others) % UsizeMod = Total - others + UsizeMod
  BY <1>1, <1>2, <1>3
<1> QED
  BY <1>1, <1>2, <1>3, <1>4 DEF Share, others

-----------------------------------------------------------------------------
\* What a worker is given and the window it computes are counts, whichever wraps.
LEMMA GivenAreCounts ==
  /\ \A w \in Ids : Share(w) \in Nat
  /\ dist_now \in Nat => RunWindow \in Nat
<1>1. /\ Total \in Nat /\ Workers \in Nat \ {0} /\ UsizeMod \in Nat \ {0}
      /\ Second \in Nat \ {0} /\ Grace \in Nat /\ DistDuration \in Nat /\ DistMargin \in Nat
  BY DistAssumption
<1>2. (Total - per_worker * (Workers - 1)) % UsizeMod \in Nat
  <2>1. per_worker * (Workers - 1) \in Int
    BY <1>1, PerWorker
  <2> HIDE DEF per_worker
  <2> QED
    BY <1>1, <2>1
<1>3. dist_now \in Nat => RunWindow \in Nat
  <2> SUFFICES ASSUME dist_now \in Nat PROVE RunWindow \in Nat
    OBVIOUS
  <2>1. UntilStart \in Nat
    BY <1>1 DEF UntilStart, dist_start
  <2>2. UntilStart % Second \in 0 .. UntilStart
    BY <1>1, <2>1
  <2> QED
    BY <1>1, <2>1, <2>2 DEF RunWindow, InSeconds
<1> QED
  BY <1>1, <1>2, <1>3, PerWorker DEF Share

LEMMA DistTypesInit == DistInit => DistTypeOK
BY DistAssumption DEF DistInit, DistTypeOK

(***************************************************************************)
(* Every step keeps the types (run_cap_worker, run_distributed).           *)
(***************************************************************************)
LEMMA DistTypesStep ==
  ASSUME DistTypeOK, [DistNext]_distVars
  PROVE  DistTypeOK'
<1>c. /\ Workers \in Nat \ {0} /\ Grace \in Nat /\ DistDuration \in Nat /\ DistMaxTime \in Nat
  BY DistAssumption
<1>t. dist_now \in Nat /\ nth \in 0 .. Workers
  BY <1>c DEF DistTypeOK
<1>0. CASE UNCHANGED distVars
  BY <1>0 DEF distVars, DistTypeOK
<1>1. ASSUME NEW w \in Ids, Boot(w) PROVE DistTypeOK'
  BY <1>1, <1>t, GivenAreCounts DEF Boot, DistTypeOK, coordVars, dist_pubVars
<1>2. ASSUME NEW w \in Ids, WorkerMeasures(w) \/ WorkerReports(w) \/ WorkerDies(w)
      PROVE  DistTypeOK'
  <2>1. /\ UNCHANGED <<coordVars, dist_pubVars, dist_now, window, bot, deadline, heard>>
        /\ worker' \in [Ids -> {"none", "spawned", "wait", "measure", "reported", "dead"}]
    BY <1>2 DEF WorkerMeasures, WorkerReports, WorkerDies, DistTypeOK
  <2>2. until' \in [Ids -> Nat]
    BY <1>2, <1>c, <1>t DEF WorkerMeasures, WorkerReports, WorkerDies, DistTypeOK
  <2> QED
    BY <2>1, <2>2 DEF DistTypeOK, coordVars, dist_pubVars
<1>3. ASSUME NEW b \in BotIds, BotReady(b) \/ BotHears(b) \/ BotEnds(b)
      PROVE  DistTypeOK'
  <2>1. /\ UNCHANGED <<coordVars, dist_pubVars, dist_now, worker, window, until>>
        /\ bot' \in [BotIds -> {"none", "setup", "recv", "done"}]
        /\ heard' \subseteq BotIds
    BY <1>3 DEF BotReady, BotHears, BotEnds, DistTypeOK
  <2>2. deadline' \in [BotIds -> Nat]
    <3>1. window[b[1]] \in Nat
      BY DEF DistTypeOK, BotIds
    <3> QED
      BY <1>3, <1>t, <3>1 DEF BotReady, BotHears, BotEnds, DistTypeOK
  <2> QED
    BY <2>1, <2>2 DEF DistTypeOK, coordVars, dist_pubVars
<1>4. CASE PubActs
  BY <1>4 DEF PubActs, PubSetsUp, PubStarts, PubStops, DistTypeOK, coordVars, workerVars
<1>5. CASE SpawnWorker
  <2>1. nth \in Ids /\ nth' \in 0 .. Workers
    BY <1>5, <1>c, <1>t DEF SpawnWorker, Ids
  <2>2. share' \in [Ids -> Nat]
    BY <1>5, <2>1, GivenAreCounts DEF SpawnWorker, DistTypeOK
  <2>3. worker' \in [Ids -> {"none", "spawned", "wait", "measure", "reported", "dead"}]
    BY <1>5, <2>1 DEF SpawnWorker, DistTypeOK
  <2> QED
    BY <1>5, <2>1, <2>2, <2>3 DEF SpawnWorker, DistTypeOK, dist_pubVars
<1>6. CASE Spawned \/ DistTrigger \/ CoordMeasured \/ CollectReport \/ DistReport
  <2>1. UNCHANGED <<dist_pubVars, workerVars, dist_now, share>>
    BY <1>6 DEF Spawned, DistTrigger, CoordMeasured, CollectReport, DistReport
  <2>2. /\ nth' \in 0 .. Workers
        /\ coord' \in {"spawn", "wait", "measure", "collect", "done"}
    BY <1>6, <1>c, <1>t DEF Spawned, DistTrigger, CoordMeasured, CollectReport, DistReport,
      DistTypeOK
  <2> QED
    BY <2>1, <2>2 DEF DistTypeOK, dist_pubVars, workerVars
<1>7. CASE DistAdvance
  <2>1. dist_now' \in 0 .. DistMaxTime
    BY <1>7, <1>c, <1>t DEF DistAdvance
  <2> QED
    BY <1>7, <2>1 DEF DistAdvance, DistTypeOK, coordVars, dist_pubVars, workerVars
<1> QED
  BY <1>0, <1>1, <1>2, <1>3, <1>4, <1>5, <1>6, <1>7 DEF DistNext, WorkerActs, CoordActs

(***************************************************************************)
(* The types of the distributed measurement, whatever the shares and the   *)
(* windows come to (distributed.rs).                                       *)
(***************************************************************************)
THEOREM DistTyped == DistSpec => []DistTypeOK
BY DistTypesInit, DistTypesStep, PTL DEF DistSpec
=============================================================================
