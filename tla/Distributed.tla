----------------------------- MODULE Distributed -----------------------------
(***************************************************************************)
(* The distributed capacity measurement: crates/oxlab-cli/src/             *)
(* distributed.rs.  A coordinator process publishes and spawns worker      *)
(* processes, each of which runs its share of the subscribers and reports  *)
(* on its standard output.  They agree on nothing but a point in time,     *)
(* dist_start, at which the publication and every worker's measuring       *)
(* window begin.                                                           *)
(*                                                                         *)
(* The processes read the same clock.  A worker may be slow to boot (until *)
(* BootBy), may die at any time, and then has no report.  The subscribers  *)
(* and the publisher are those of Capacity, without their timeouts.        *)
(***************************************************************************)
EXTENDS Integers, FiniteSets

CONSTANTS
  Total, Workers,     (* the subscribers, the worker processes             *)
  UsizeMod,           (* usize wraps here: 2^64                            *)
  MaxShare,           (* bound: subscribers of a worker that are modelled  *)
  Grace,              (* setup_grace                                       *)
  DistDuration, DistMargin,
  Second,             (* ticks in a second                                 *)
  BootBy, DistSlack,  (* ticks a boot, and the publisher after the trigger,*)
                      (* may take                                          *)
  DistMaxTime         (* bound on the clock                                *)

ASSUME DistAssumption ==
  /\ Total \in Nat /\ Workers \in Nat \ {0}
  /\ UsizeMod \in Nat \ {0} /\ Second \in Nat \ {0}
  /\ {MaxShare, Grace, DistDuration, DistMargin, BootBy, DistSlack, DistMaxTime} \subseteq Nat

VARIABLES
  dist_now,
  coord,        (* the coordinator: where it is                            *)
  nth,          (* the worker it is at                                     *)
  dist_alarm,   (* when its measuring ends                                 *)
  worker,       (* per worker: where it is                                 *)
  share,        (* per worker: the count it was given                      *)
  window,       (* per worker: run_window                                  *)
  until,        (* per worker: when its measuring ends                     *)
  bot,          (* per subscriber: where it is                             *)
  deadline,     (* per subscriber: when it stops by itself                 *)
  heard,        (* the subscribers that received RTP                       *)
  dist_pub,     (* the publisher: where it is                              *)
  dist_pub_end,
  reports,      (* per worker: setup and active, as reported               *)
  totals,       (* the sums of the coordinator                             *)
  healthy       (* bot_healthy, the CPU apart                              *)

distVars == <<dist_now, coord, nth, dist_alarm, worker, share, window, until, bot, deadline,
              heard, dist_pub, dist_pub_end, reports, totals, healthy>>

Ids == 0 .. Workers - 1
BotIds == Ids \X (1 .. MaxShare)
NoCount == [setup |-> 0, active |-> 0]

dist_start == Grace

\* total.div_ceil(workers); the last worker gets the rest, in a build without
\* overflow checks.
per_worker == (Total + Workers - 1) \div Workers

Share(w) ==
  IF w = Workers - 1 THEN (Total - per_worker * (Workers - 1)) % UsizeMod ELSE per_worker

DistInit ==
  /\ dist_now = 0 /\ coord = "spawn" /\ nth = 0 /\ dist_alarm = 0
  /\ worker = [w \in Ids |-> "none"] /\ share = [w \in Ids |-> 0]
  /\ window = [w \in Ids |-> 0] /\ until = [w \in Ids |-> 0]
  /\ bot = [b \in BotIds |-> "none"] /\ deadline = [b \in BotIds |-> 0] /\ heard = {}
  /\ dist_pub = "setup" /\ dist_pub_end = 0
  /\ reports = [w \in Ids |-> NoCount] /\ totals = NoCount /\ healthy = FALSE

-----------------------------------------------------------------------------
(***************************************************************************)
(* run_cap_worker.                                                         *)
(***************************************************************************)

coordVars == <<coord, nth, dist_alarm, share, totals, healthy>>
dist_pubVars == <<dist_pub, dist_pub_end>>

InSeconds(ticks) == ticks - (ticks % Second)
UntilStart == IF dist_start > dist_now THEN dist_start - dist_now ELSE 0

NoWait == DistDuration + DistMargin                      \* mutant

RunWindow == InSeconds(UntilStart) + DistDuration + DistMargin

Boot(w) ==
  /\ worker[w] = "spawned"
  /\ worker' = [worker EXCEPT ![w] = "wait"]
  /\ window' = [window EXCEPT ![w] = RunWindow]
  /\ bot' = [b \in BotIds |-> IF b[1] = w /\ b[2] <= share[w] THEN "setup" ELSE bot[b]]
  /\ UNCHANGED <<coordVars, dist_pubVars, dist_now, until, deadline, heard, reports>>

Running(w) == worker[w] \in {"wait", "measure"}

\* A subscriber whose setup fails or hangs is one that this never happens to.
BotReady(b) ==
  /\ bot[b] = "setup" /\ Running(b[1])
  /\ bot' = [bot EXCEPT ![b] = "recv"]
  /\ deadline' = [deadline EXCEPT ![b] = dist_now + window[b[1]]]
  /\ UNCHANGED <<coordVars, dist_pubVars, dist_now, worker, window, until, heard, reports>>

BotHears(b) ==
  /\ bot[b] = "recv" /\ Running(b[1])
  /\ dist_pub \in {"sending", "done"}
  /\ b \notin heard
  /\ heard' = heard \cup {b}
  /\ UNCHANGED <<coordVars, dist_pubVars, dist_now, worker, window, until, bot, deadline, reports>>

BotEnds(b) ==
  /\ bot[b] = "recv" /\ Running(b[1])
  /\ dist_now >= deadline[b]
  /\ bot' = [bot EXCEPT ![b] = "done"]
  /\ UNCHANGED <<coordVars, dist_pubVars, dist_now, worker, window, until, deadline, heard,
                 reports>>

\* wait_until(start_at) is over.
WorkerMeasures(w) ==
  /\ worker[w] = "wait" /\ dist_now >= dist_start
  /\ worker' = [worker EXCEPT ![w] = "measure"]
  /\ until' = [until EXCEPT ![w] = dist_now + DistDuration]
  /\ UNCHANGED <<coordVars, dist_pubVars, dist_now, window, bot, deadline, heard, reports>>

\* The subscribers are aborted and the counters printed.
WorkerReports(w) ==
  /\ worker[w] = "measure" /\ dist_now >= until[w]
  /\ worker' = [worker EXCEPT ![w] = "reported"]
  /\ reports' = [reports EXCEPT ![w] =
       [setup |-> Cardinality({b \in BotIds : b[1] = w /\ bot[b] \in {"recv", "done"}}),
        active |-> Cardinality({b \in heard : b[1] = w})]]
  /\ UNCHANGED <<coordVars, dist_pubVars, dist_now, window, until, bot, deadline, heard>>

\* Killed, or its last line of output is no report.
WorkerDies(w) ==
  /\ worker[w] = "spawned" \/ Running(w)
  /\ worker' = [worker EXCEPT ![w] = "dead"]
  /\ UNCHANGED <<coordVars, dist_pubVars, dist_now, window, until, bot, deadline, heard, reports>>

-----------------------------------------------------------------------------
(***************************************************************************)
(* The publisher and run_distributed.                                      *)
(***************************************************************************)

workerVars == <<worker, window, until, bot, deadline, heard, reports>>
DistTriggered == coord \in {"measure", "collect", "done"}

PubSetsUp(to) ==
  /\ dist_pub = "setup" /\ dist_pub' = to
  /\ UNCHANGED <<coordVars, workerVars, dist_now, dist_pub_end>>

\* Triggered and answered, or refused.
PubStarts(to) ==
  /\ dist_pub = "wait" /\ DistTriggered
  /\ dist_pub' = to
  /\ dist_pub_end' = IF to = "sending" THEN dist_now + DistDuration ELSE dist_pub_end
  /\ UNCHANGED <<coordVars, workerVars, dist_now>>

PubStops ==
  /\ dist_pub = "sending" /\ dist_now >= dist_pub_end
  /\ dist_pub' = "done"
  /\ UNCHANGED <<coordVars, workerVars, dist_now, dist_pub_end>>

PubActs == \/ \E to \in {"wait", "failed"} : PubSetsUp(to)
           \/ \E to \in {"sending", "failed"} : PubStarts(to)
           \/ PubStops

\* A worker without a share is not spawned, and spawning may fail.
SpawnWorker ==
  /\ coord = "spawn" /\ nth < Workers
  /\ share' = [share EXCEPT ![nth] = Share(nth)]
  /\ worker' \in {[worker EXCEPT ![nth] = st] :
                    st \in IF Share(nth) = 0 THEN {"none"} ELSE {"none", "spawned"}}
  /\ nth' = nth + 1
  /\ UNCHANGED <<dist_pubVars, dist_now, coord, dist_alarm, window, until, bot, deadline, heard,
                 reports, totals, healthy>>

Spawned ==
  /\ coord = "spawn" /\ nth = Workers
  /\ coord' = "wait" /\ nth' = 0
  /\ UNCHANGED <<dist_pubVars, workerVars, dist_now, dist_alarm, share, totals, healthy>>

DistTrigger ==
  /\ coord = "wait" /\ dist_now >= dist_start
  /\ coord' = "measure" /\ dist_alarm' = dist_now + DistDuration
  /\ UNCHANGED <<dist_pubVars, workerVars, dist_now, nth, share, totals, healthy>>

CoordMeasured ==
  /\ coord = "measure" /\ dist_now >= dist_alarm
  /\ coord' = "collect"
  /\ UNCHANGED <<dist_pubVars, workerVars, dist_now, nth, dist_alarm, share, totals, healthy>>

\* The next child has ended: its report counts, if it has one.
CollectReport ==
  /\ coord = "collect" /\ nth < Workers
  /\ worker[nth] \in {"reported", "dead", "none"}
  /\ totals' = [setup |-> totals.setup + reports[nth].setup,
                active |-> totals.active + reports[nth].active]
  /\ nth' = nth + 1
  /\ UNCHANGED <<dist_pubVars, workerVars, dist_now, coord, dist_alarm, share, healthy>>

SetupIsEnough == 10 * totals.setup >= 9 * Total          \* mutant

subs_ok == Total = 0 \/ 10 * totals.active >= 9 * Total

DistReport ==
  /\ coord = "collect" /\ nth = Workers
  /\ dist_pub \in {"done", "failed"}
  /\ healthy' = subs_ok
  /\ coord' = "done"
  /\ UNCHANGED <<dist_pubVars, workerVars, dist_now, nth, dist_alarm, share, totals>>

CoordActs ==
  SpawnWorker \/ Spawned \/ DistTrigger \/ CoordMeasured \/ CollectReport \/ DistReport

DistOnTime ==
  /\ coord # "spawn"
  /\ coord = "wait" => dist_now < dist_start
  /\ coord = "measure" => dist_now < dist_alarm
  /\ dist_pub \in {"setup", "wait"} /\ DistTriggered => dist_now < dist_start + DistSlack
  /\ dist_pub = "sending" => dist_now < dist_pub_end
  /\ \A w \in Ids : /\ worker[w] = "spawned" => dist_now < BootBy
                    /\ worker[w] = "wait" => dist_now < dist_start
                    /\ worker[w] = "measure" => dist_now < until[w]
  /\ \A b \in BotIds : bot[b] = "recv" /\ Running(b[1]) => dist_now < deadline[b]

DistAdvance ==
  /\ dist_now < DistMaxTime /\ DistOnTime /\ coord # "done"
  /\ dist_now' = dist_now + 1
  /\ UNCHANGED <<coordVars, dist_pubVars, workerVars>>

WorkerActs(w) == Boot(w) \/ WorkerMeasures(w) \/ WorkerReports(w)

DistNext ==
  \/ \E w \in Ids : WorkerActs(w) \/ WorkerDies(w)
  \/ \E b \in BotIds : BotReady(b) \/ BotHears(b) \/ BotEnds(b)
  \/ PubActs \/ CoordActs \/ DistAdvance

DistSpec == DistInit /\ [][DistNext]_distVars

-----------------------------------------------------------------------------

DistTypeOK ==
  /\ dist_now \in 0 .. DistMaxTime
  /\ coord \in {"spawn", "wait", "measure", "collect", "done"} /\ nth \in 0 .. Workers
  /\ worker \in [Ids -> {"none", "spawned", "wait", "measure", "reported", "dead"}]
  /\ share \in [Ids -> Nat] /\ window \in [Ids -> Nat] /\ until \in [Ids -> Nat]
  /\ bot \in [BotIds -> {"none", "setup", "recv", "done"}]
  /\ deadline \in [BotIds -> Nat] /\ heard \subseteq BotIds
  /\ dist_pub \in {"setup", "wait", "sending", "done", "failed"}

(***************************************************************************)
(* A worker's run_window, which it computes in whole seconds when it boots *)
(* and each subscriber counts from its own setup, lasts until the worker's *)
(* measuring is over (run_cap_worker).                                     *)
(***************************************************************************)
WorkerWindowCovered ==
  \A b \in BotIds : worker[b[1]] = "measure" => bot[b] # "done"

(***************************************************************************)
(* A point reported as healthy is one in which the publisher did publish   *)
(* and nine tenths of all the subscribers asked for received it, whichever *)
(* worker died, was not spawned or reported nothing (run_distributed).     *)
(***************************************************************************)
HealthyMeansHeard ==
  coord = "done" /\ healthy /\ Total > 0 =>
    /\ dist_pub = "done"
    /\ 10 * Cardinality(heard) >= 9 * Total

(***************************************************************************)
(* "The last worker absorbs the rest" (distributed.rs:174): no worker is   *)
(* given more subscribers than were asked for in all.                      *)
(***************************************************************************)
LastAbsorbsTheRest == \A w \in Ids : share[w] <= Total

=============================================================================
