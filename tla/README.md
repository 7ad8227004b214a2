# oxlens-sfu-labs: specification of the lab bots

TLA+ modules, TLC runs and TLAPS proofs for the lab tools of this repository: bots that join
an SFU's room, publish fake RTP, control a PTT floor and judge what they receive. The SFU, the
hub and the wire format crate `oxsig` are not in the repository; they are modelled only by how
the bots use them and are marked external in the map.

## 1. Inventory

| component | source | state it keeps | operations |
|---|---|---|---|
| NetFilter | `oxlab-net/src/filter.rs` | configuration, token bucket, statistics | `filter`, `update` |
| Bot, life | `bot.rs`, `common/src/media.rs` | status, session, sockets, DTLS readers, task handles | `new`, `connect_and_join`, `join_existing_room`, `setup_media`, `start_publishing`, `stop_publishing`, `disconnect` |
| Bot, publishing | `oxlab-bot/src/bot.rs`, `rtp_publisher.rs`, `rtcp_parser.rs` | two publish tasks, the PLI flag, cancel channel | `start_publishing`, the three loops, `update_net_filter`, `stop_publishing` |
| Bot, floor and its observation | `bot.rs`, `observations.rs`, `common/src/mbcp.rs` | `SharedFloorState`, `subscribe_ssrcs`, the floor's L1 records | `floor_request_ws`, `floor_release_ws`, `process_events`, the recv loop |
| Bot, media observation | `bot.rs`, `observations.rs`, `rtcp_parser.rs` | `ssrc_last`, the other L1 records, `pending_layer_switch` | the recv loop, `subscribe_layer` |
| Signaling session | `common/src/signaling.rs` | WebSocket, `pid`, `event_buf`, `floor_mbcp_buf` | `connect*`, `request`, `poll_events`, `wait_event`, `drain_*`, `send_floor_mbcp`, `close` |
| Scenario engine | `oxlab-scenario/src/engine.rs`, `model.rs` | the bots, the sorted timeline, errors | one per action type, `wait_with_heartbeat` |
| Capacity runner and bots | `oxlab-cli/src/capacity.rs`, `oxlab-bot/src/cap.rs` | semaphore, ready counter, trigger, counters | `run_one`, `run_one_conf`, `run_publisher`, `run_subscriber`, `run_conf_bot` |
| Distributed capacity | `oxlab-cli/src/distributed.rs` | worker processes, start time, reports | `run_distributed`, `run_cap_worker` |
| Receive metrics | `oxlab-bot/src/rtp_subscriber.rs` | per-SSRC sequence state | `update`, `snapshot` |
| Checkpoints (layer 1) | `checkpoint_eval.rs`, `checkpoint_registry.rs` | none | verdicts from the observations |
| Judge (layer 2) | `oxlab-judge/src/lib.rs`, `thresholds.rs` | the baseline file | `judge`, `create_baseline` |
| Network profiles | `oxlab-net/src/profile.rs` | none | a table |
| Media setup | `common/src/media.rs`, `stun.rs` | sockets, keys | `setup_media_pc` |
| CLI | `oxlab-cli/src/main.rs` | none | `scenario`, `run`, and the dispatch to the capacity commands |
| `bench`, `e2e-ptt` | outside the workspace members | retired | none |

How they interact. The engine is one task: it drives one bot at a time, and between its actions
`wait_with_heartbeat` visits every bot, whose `process_events` polls the session. Each
publishing bot adds four tasks, cancelled by a watch channel and then aborted: audio, video, a
reader of the pub socket (PLI) and a reader of the sub socket (RTP). The first two share the
filter under a mutex and the first three an atomic keyframe flag; the sub reader and the engine
share four atomic floor flags. The session is used by one caller at a time and shares nothing;
its interleavings are those of frames arriving during a call. The capacity tools do not use
`Bot`: each capacity bot is one task, coordinated by a semaphore, a counter and a watch channel.

Hard behaviours and what makes each component correct:

- *NetFilter, publish tasks*: two tasks on one bucket, a sleep between the decision and the send,
  a configuration that changes in between, an abort in the sleep. The rate must hold over any
  window, every packet must be accounted for, no PLI may be lost, the intervals must hold.
- *Floor*: two independent paths (WebSocket and RTP), a view refreshed by polling, batches,
  flags stored one by one. The view must be a past one, never a wrong one, and must catch up.
- *Session*: events in the middle of a request, receives cancelled by a timeout, a dropped
  connection. Answers must be matched, events acknowledged, each opcode delivered in order.
- *Capacity*: timers of N+2 tasks, setups that fail, a trigger sent when some are not ready.
  Permits must be conserved, the window must cover the publication, the row must be reported.
- *Metrics, observation*: 16-bit and 32-bit wrap-around in streams that are lossy, reordered and
  duplicated; records of several streams in one list; a pending record two tasks write. No loss
  may be hidden, no verdict may fail without a cause, and a failure may not be forgotten.
- *Life, engine, judge*: every call may fail and the next action goes on; a start may repeat; the
  process may die between two writes. A socket must have one reader, a PASS must not hide a
  participant who is missing, and the baseline may only move within the thresholds.
- *Distributed*: processes that agree on nothing but a point in time, die or report nothing, and
  an unsigned subtraction. The windows must hold, and a healthy point must have been heard.

`PROJECT.json` lists every hazard at its line, with the properties that cover it.

## 2. Modules

| module | models | remarks |
|---|---|---|
| `NetFilter` | `filter.rs` | a component; EXTENDed by `SendPath`, which owns the clock |
| `SendPath` | publish tasks, PLI listener, filter updates, stop | composed with `NetFilter` |
| `PttFloor` | floor control and its observation in a room of bots, with an external SFU | |
| `Signaling` | one `SignalingSession` with an external hub | |
| `Mailbox` | what the session promises: one FIFO per opcode, lossy under back-pressure; an event is its number | abstract; refined by `Signaling` |
| `Sifting` | the filter on sequences that the buffers of `PttFloor` and `Signaling` are split with | operators only |
| `RecvMetrics` | `rtp_subscriber.rs` | abstract for `Observe` |
| `Checkpoints` | `checkpoint_eval.rs`, `checkpoint_registry.rs` | operators only |
| `Observe` | the recv task's media part, `rtcp_parser.rs`, `subscribe_layer` | composed of `RecvMetrics` and `Checkpoints`; refines the former |
| `Judge` | `oxlab-judge` | operators only |
| `BotLife` | the life of a bot and its media setup | actions without an order |
| `Scenario` | `engine.rs`, `model.rs`, `cmd_scenario` | composed of `BotLife`, `Checkpoints`, `Judge` |
| `Capacity` | `run_one` with its publisher and subscribers | |
| `Conference` | `run_one_conf` with `run_conf_bot` | EXTENDS `Capacity` for the runner and the semaphore |
| `Distributed` | `distributed.rs`: coordinator, publisher, workers | |
| `Cli` | `main.rs` | composes `Scenario`, `Conference` and `Distributed` |
| `*_proofs` | | the theorems about the module of that name (8 of them); `Capacity_proofs` also those about `Conference`, `Observe_proofs` those about `RecvMetrics`, `Cli_proofs` the lemmas about `BotLife`; `Sifting_proofs` has only lemmas |
| `MC*` | constants for TLC | |

Each action is the code between two awaits. The operators marked `mutant` are deliberately
wrong variants of the definition they stand before; each property is shown to fail when one of
them replaces the code's own definition, which shows that the bounds let it fail. `PttFloor`,
`Signaling` and `Observe` choose their bounds (`limits`, `setting`) in `Init` from a set that the
configuration gives: one run explores several small instances, each wide in a different direction.

**NetFilter, SendPath.** Time is in ticks and a rate in bytes per tick, so that the `f64` tokens
are integers: the model has no rounding. `Refilled`, `Charge` and `Delays` are the arithmetic of
`consume` and `filter`, whose three outcomes are `BandwidthDrop`, `LossDrop` and `Pass`. `Ticks`
is an interval with tokio's burst behaviour (`due` advances by one period); `Offer` decides and
sends or goes to sleep, `Wake` sends. `Advance` lets time pass when no task is ready: the tasks
are scheduled promptly, which is what `OnSchedule` needs and no other property uses. `since`,
`passed`, `wired` and `carried` are a measuring window that `Measure` may open at any moment, so
that the bound is stated for every window. `Send` is `send_to`, which may fail and then ends its task
for good (`failed`), at once or after a sleep; a packet that cannot be encrypted is built, and a frame
counted, but the filter never hears of it (`Unencrypted`).

**PttFloor.** `up`, `ws` and `rtp` are the wires of a bot; the frames of a wire keep their
order. `ProcessEvents` is `poll_events` and the TRACKS_UPDATE part; `AwaitTracksReady` the
receive loop of the request it may make; `ProcessFloor` and `FinishStores` one message with its
stores one at a time; `ProcessRoomEvents` the rest. `n` in a poll is how many frames had
arrived. The heartbeat that precedes `process_events` buffers frames just as the poll does and
is left out. `AwaitFloorTaken` is one round of the wait; when it finds an FTKN, what was drained
with it is gone, as in the code. `RecvRtp`, `RecvReleased`, `RecvChanged` and `RecvAck` are one
packet of the recv loop, one flag at a time. `announced` (history) is every announcement the
SFU made; `Seen(b)` says how many of them have reached b's flags. The SFU is what the
checkpoints demand: it relays only the holder, starts a turn's video with a keyframe, flushes
silence and opens the video gate on TRACKS_READY, which it may refuse where the limits have
`refusals` (`refused`, history).
WebSocket connections are not lost here (they are in `Signaling`).

**Signaling.** `call` is the call in progress, by the await it is in. `Receive` takes a frame and
either hands it on or starts the ACK; `SendAck` completes it. The two are separate because the
write of the ACK is an await at which `poll_events`' 1 ms timeout may cancel `recv_frame`
(`TimeUpInAck`); with room in the socket's write buffer that await is never pending, so it
happens only where the setting has `backpressure`. `Handle` is what the waiting call does with the
frame. A bot that failed to connect drops its session (`Gone`).

**RecvMetrics, Observe.** A packet has an index; `SeqOf` is its 16-bit sequence number, and
`Updated` the code's `i16` arithmetic on that number alone. `stream` (history) is what really
arrived, against which the metrics are judged. `Observe` puts an SFU and a network in front: `Relay`
stamps a packet and sends it, and `Lose`, `RecvRtp(p, TRUE)` (a duplicate) and the choice of the
packet (an overtaking) are the mishaps; `RelaySr`, `LoseSr`, `RecvSr(r, TRUE)` and `OvertakesSr` are
the same for SRs, which travel on the same UDP path (the SRTP contexts of `media.rs:90` have no
replay protection, so a repeated SR is decrypted and recorded again). `RecvRtp` does all the task
does with a packet in the order of the code; `RecvSr` and `RecvCompound` are the RTCP part. What the
SFU may do wrong (relay an RR, freeze a timestamp, leave an SSRC alone, write any time of the
limits' `clock` into the NTP or the RTP time of an SR, an increasing one too) goes into `faults`
when it arrives, `arrived` (history) is the SRs behind the records, and `verdicts` are the 21
checkpoints of `Checkpoints` on the records so far. The map that yields `ts_before` has no order, so
`RecordSwitch` may take any of its entries. A rate of 48 or 90 kHz is one or two timestamps a tick,
and 2^32 is `TsMod`.

**BotLife, Scenario, Cli.** `stage` is where `setup_media` is: a STUN request on each socket in
turn, then a task that reads the socket for the handshake, which is aborted when the keys are
exported, and only then. `tasks` and `handles` differ when a second start overwrites the first
one's handles. `Scenario` is the engine: `pc`, `cursor` and `step` are the action, the bot and
the call it is at; the actions of the timeline are the operators from `AllJoin` to `Wait`, then
`Collect`, `DisconnectAll`, `JudgeRun` and the two writes of the baseline. `Timeline` is the stable
sort by `at_sec`, whose values are only compared; a NaN, at which the sort panics, is left out, and so
is a file without participants, for which no operation of a bot is called. What the bots measured is
any of `Snapshots`, for those that publish. `Crash` ends the process anywhere; the file stays as
it is. `Cli` adds the `run` command and the capacity commands: a behaviour is one command, and the
state of the others stays as it was. Two processes of `scenario` or `run` follow one another, so
that the second one reads the file the first one left.

**Capacity, Conference.** The runner's `ReadyPoll` is one round of the ready-sync loop.
`NobodyWaits`, `SubOnTime`, `PubOnTime` and `RunnerOnTime` keep the clock from passing a timer that
is due. The publisher's setup and its PUBLISH_TRACKS have no timeout in the code, so how long after
the trigger it publishes is a constant, `PubSlack`. The publisher may be ready, late or failed when
the subscribers are spawned (`Init`). A subscriber that answers a TRACKS_UPDATE is `busy`: it
looks at no other branch of its `select!`. In a conference everyone is publisher and subscriber,
the creator opens the room, and nobody but the runner is shared.

**Distributed.** The processes read one clock (the workers are children of the coordinator) and
exchange nothing but their arguments and one line of output. `Boot` computes the worker's window
in whole seconds; `WorkerReports` aborts the subscribers and prints; `WorkerDies` is a worker that
is killed or whose output does not parse. `Share` is the split, in `usize`.

**Sifting.** `Sift(s, S)` keeps the elements of `s` that are in the set `S`, in their order. The
code's `position` and `retain` on `event_buf` (`signaling.rs:330`, `:336`) are made of it.

## 3. Runs

| run | asks | bounds |
|---|---|---|
| `SendPath` | rate, ledger, PLI, schedule | 4 configurations, 6 instants 10 ms apart, packets of 2, 3 and 4 bytes against a burst of 4 or 8 (3.9 million states) |
| `SendPathFieldLte` (violation) | does the interval hold with field_lte's delays? | 12 ticks |
| `PttSafety` | is a listener's view a past one? do subscriptions converge? is a record of the turn processed? | 2 bots, 1 requester; 2 requests without RTP, or 1 request with one relayed packet in flight and refusals of TRACKS_READY (4.7 million states) |
| `PttLive` | does a listener catch up, is every kill reported? | 1 request, TRACKS_READY may be refused |
| `PttIdleFlag` (violation) | does an idle flag mean that nobody talks? | 2 requests |
| `PttGrant` (violation) | is a grant one's own? | 2 requesters |
| `Signaling` | answers, ACKs, order, progress; implements `Mailbox` | 4 calls beyond the handshake; 3 events, or 2 with back-pressure and a hub that rejects floor messages (300 thousand states) |
| `SignalingStaleAck` (violation) | do an answer's pid and its request's agree? | 6 calls, no events |
| `Observe` | are losses hidden, verdicts without cause, failures forgotten? | three streams that wrap, five sets of limits (below; 800 thousand states) |
| `LayerSwitch` (violation) | is `ts_before` the last timestamp before the switch? | 1 request |
| `Cli` | every command: readers, drop-outs, baseline, permits, windows, ends | 5 scenario files, 2 bots, 2 processes; 2 subscribers, 1 permit, 13 ticks; 2 workers of 1 subscriber, 8 ticks (510 thousand states) |
| `CliThreshold` (violation) | is a rise of exactly the threshold a regression? | as `Cli` |

Why the bounds suffice. In `SendPath` six instants are three audio and two video intervals, with a
keyframe interval of three, so forced and periodic keyframes differ; the burst is exhausted by two
packets. In the floor runs a bot that speaks and one that listens meet every interleaving of an
announcement, a poll, a TRACKS_READY wait and a kill; two requests give two turns, so that flags
left over from the first are seen. Three events are enough for two of one opcode to be reordered
around one of another. In `Observe` the first sequence number is 65534 and the first timestamp 28 of
32, so both wrap within the four packets; its limits are a network at its worst (4 packets, 2
mishaps), a stream that is idle for longer than `IdleGap` while another is not, two video SSRCs with
an RTCP packet, three SRs or RTCP packets of two streams and two senders with one mishap and a clock
of the SFU's, and two layer requests around a keyframe. The scenario files are a plain one; a kill
that comes first in time and last in the file; calls to a bot that is not there with a profile that
is; a double join; and a start before the join with fields that are missing. Two processes are
enough for a baseline to be written, read, and written again or lost to a crash. In the rows one
permit for two subscribers makes setups queue past `ReadyCap`, and 13 ticks let every deadline pass;
in the distributed point one worker may be late, dead or silent while the other is not.
`CHECK_DEADLOCK FALSE` is given wherever the program or its bounded environment ends.

### What the violations show

- *Delay as a rate limit* (`bot.rs:358`, `:398`). The filter's delay is slept inside the branch
  that sends. With 50±30 ms per packet the 20 ms audio task sends one packet per delay and falls
  behind for ever: the lab measures the bot, not the SFU. `Scheduled` in section 4 has the condition
  under which this does not happen.
- *A dropped FIDL* (`bot.rs:654`). `await_floor_taken` drains the buffer and returns at the first
  FTKN; a FIDL or FRVK behind it is lost, and the requester's idle flag stays wrong.
- *Another bot's grant* (`bot.rs:656`). An FTKN is broadcast and does not say whose request it
  grants to code that does not look; a request reports `granted` for somebody else's floor.
- *A stale answer* (`signaling.rs:474`). Only the opcode is compared. After an ERROR caused by a
  FLOOR_MBCP has ended a request, its ACK answers the next one.
- *The timestamp before a layer switch* (`bot.rs:567`). It is the first value of a map of all the
  streams, audio included, into which the switch's own packet was put just before: L1-19 compares
  the new timestamp with itself or with another stream's clock.
- *A rise of exactly the threshold* (`oxlab-judge/src/lib.rs:478`, `:503`, `:529`).
  `thresholds.rs:12`, `:16` and `:20` say that a rise at or above (이상) the threshold is REGRESS; the
  code asks for more than the threshold, so a loss that goes from 2 % to 5 % under 3.0 %p is stable,
  and is the next baseline.

### Assumptions that matter

Changing one constant or formula turns these into counterexamples; they are the limits of what
holds, not part of the regular runs.

- `ReadyAfterAnswer` says that a bot that counts itself ready has an answer to its TRACKS_READY, not
  that its gate is open: `process_events` only logs the answer (`bot.rs:784`), so that a refused bot
  sets `tracks_ack_sent`, which `bot.rs:787` and `observations.rs:57` call complete.
- `EventsAreAcked` claims nothing of a setting with `backpressure`: a cancelled receive may leave an
  event without its ACK, and may lose the event, as `Mailbox` then allows.
- `FailHasCause` needs an idle time of at least five times the network's delay (`IdleFits`, the 20 %
  of L1-08), and both verdict properties a run, and times in the SRs, within half the wrap of the
  RTP timestamp (`TsFits`); at 90 kHz that is more than six hours. Of L1-02 and L1-03 it only claims
  that an SR was rewritten, repeated or overtaken. The checkpoints cannot tell these apart: they
  compare each SR with the one of its stream that arrived before it (`checkpoint_eval.rs:142`,
  `:194`), so one SR that UDP delivers twice is a FAIL, where the comment at `:117` says that the
  server tampered with it.
- `FaultsAreSeen` says exactly what L1-02 and L1-03 find: a time no later than one that arrived
  before. An SFU that writes an increasing clock of its own into the SRs passes, and one SR alone
  passes with any time in it, although `checkpoint_registry.rs:32` asks that the publisher's time be
  preserved.
- `WindowCovered` needs a publisher that starts within the margin. With `PubSlack = 6` a
  subscriber that set up early ends before the publisher does.
- `CommandEnds` needs TRACKS_READY to be answered (`cap.rs:433` awaits it inside a `select!` branch
  without a timeout) and a DTLS handshake to be completed or refused (it has no timeout either).
- `MediaStopped` excepts a scenario that joins twice, whose first publication runs on to the end of
  the process, and DTLS readers behind a failed setup, which the errors of the result tell of.
- `Ratchet` bounds each step of the baseline, a rise of exactly the threshold included, not many of
  them: a slow decline below the thresholds is not noticed, nor is one across a run that passes
  without some participant, whom `create_baseline` forgets. A crash between the truncation and the
  write leaves a file that cannot be read, and the next run passes as a first run.
- L1-04, L1-06 and L1-11 judge packets by flags that arrive on another path. `ObservedInTurn` says
  that every record is of the turn the bot has processed, which need not be the turn of the packet:
  a correct SFU can make a bot count a packet of the finished turn as non-speaker RTP and take a
  later delta frame for a turn's first video. The silence frames that L1-05 wants after a release
  are RTP on an idle floor, so they count for L1-04 as well (`bot.rs:517`), whose count "must be 0"
  (`observations.rs:31`). For L1-11: the bot sends TRACKS_READY, the SFU opens the gate and relays a
  video packet at once, the recv task sees it before `process_events` has the answer and sets
  `tracks_ack_sent`, and the packet counts as video before ACK.

### Fairness

- `PttFloor!FairSpec`: the SFU answers and the tasks run (weak). `ProcessEvents` is disabled while
  another bot has the engine, and `wait_with_heartbeat` comes back to every publishing bot, so
  its fairness is strong; in the end its poll takes all that has arrived. Nothing makes a
  scenario request, release, revoke or kill.
- `Signaling!FairSpec`: the hub takes what it is sent. A timeout polls the receive before its own
  timer, so a frame that has arrived is received in spite of the short waits (strong). The bot
  polls again and again, as the wait loop does (strong, since other calls disable it).
- `Cli!CliFairness`: the tasks of the command run and time passes (weak). Tokio's semaphore hands a
  permit to the longest waiter (strong on its acquisition, which the other setups disable), and
  `select!` picks a due deadline in the end (strong, since a TRACKS_READY disables it). Of the
  outside it assumes that the hub answers TRACKS_READY and that a handshake ends. Nothing makes
  a packet arrive, a setup of a distributed subscriber succeed, a worker die or a process crash.

## 4. Proofs

Every theorem holds for all values of the constants that satisfy the named assumption of the module.

**SendPath** (`FilterAssumption`, `SendPathAssumption`: any set of configurations, any burst,
periods, sizes and keyframe interval).

- `TypeCorrect`. Type correctness is inductive by itself; it needs that a charged packet was
  affordable, so that the bucket does not go below zero.
- `BandwidthRespected`. The bound on `passed` is not inductive: a full bucket could be credited
  twice. The invariant adds what is still in the bucket: the bytes passed, plus the tokens, plus
  what has been earned since the last refill, never exceed a burst plus what the rate earns in
  the window, together with `since <= now` and `last_refill <= now`. A refill moves credit from
  the third term to the second, a charge from the second to the first.
- `WireRespected`. The bytes on the wire plus those asleep are the bytes passed plus those
  carried into the window; with the theorem above this bounds the wire.
- `LedgerKept`: `[]StatsLedger`. What the statistics count as passed is on the wire, asleep, aborted or
  failed, and all but the first are at most one packet a task. The invariant (`LedgerInv`) has the
  second part from the tasks that are done: each of them lost one packet at most, and none is asleep.
- `PliServed`. A PLI recorded at the frame about to be built implies that the flag is up; a frame
  that is built takes the flag and is a keyframe.
- `Scheduled`: if no configuration's delay with its jitter exceeds an interval, `[]OnSchedule`. The
  invariant (`ScheduleInv`) says more than the property: a task that is idle is not late at all,
  and one that sleeps wakes no later than its next packet is due. `SendPathFieldLte` has a
  configuration that breaks the condition, and the property with it.

**Sifting**. `Sift` is a recursive function, and what it computes is proved by first-order induction:
the least length at which a claim failed would have a smaller one (`NatLessThanWellFounded`). The
lemmas say what `Sift` does to a sequence that is concatenated, appended to, sifted again or
without elements of the set, and what its elements are. `PttFloor_proofs` and `Signaling_proofs`
cite them for every buffer.

**PttFloor** (any bots and bounds).

- `ReadyBehindTheAnswer`: `[]ReadyAfterAnswer`, refusals included. The code does not look at the
  answer to TRACKS_READY, so the flag says no more than that one came. The invariant follows it: on
  the wire to a bot, a frame that acknowledges is there only once its gate is open, one that refuses
  only once the SFU has refused it (`Free`, `Barred`); what is taken from the front of a wire or
  added behind keeps that, and the stores of a floor message never name `ack_sent`.
- `PttTyped`: `[]TypeOK`. `TypeInv` adds what the stores of a floor message can be, that a turn and
  a video packet belong to a bot that has them (`TurnOK`, `VideoOK`), and that an answer to
  TRACKS_READY is on the wire only for a bot that waits for it (`AnswerOK`), which is why none gets
  into the buffers.
- `PttSubscriptions`: `[]SubscriptionsConverge`. The property speaks of a bot that has nothing left to
  read; the invariant (`SubInv`) says of every bot that the updates in its buffer and then those on
  its wire, applied to what it holds, give what is there.
- `PttListenerView`, `PttListenerFlags`, `PttObservedInTurn`: `[]ListenerViewIsPast`,
  `[]ListenerFlagsAgree` and the action property `ObservedInTurn`. `ViewInv` says for each listener
  that the floor messages it has still to process are the last of the announcements (`Behind`),
  whose number therefore is how far it has come (`Seen`); that its idle flag is the announcement of
  that place (`Knows`) and the released flag agrees with it, counting a store that is still to be
  made (`Agrees`, and `Follows` while the stores of an FTKN are under way); that a raised
  speaker-change flag and a first video had their FTKN (`Recalls`); and that behind an FTKN
  processed to its end the flag is still up or the first video has been judged (`Judges`).

**Signaling** (any number of calls and events, a hub that refuses, back-pressure, a connection
that closes at any time).

- `OwnResponse` and `SessionTyped`: `[]ResponseIsOwn` and `[]TypeOK`. `TypeInv` says which frames each
  wire and buffer may hold and what a call in progress looks like. A response is recognised by its
  opcode alone, so `AnswerInv` is about both directions of the connection (`Exchange`): either nothing
  that asks or answers is under way, or the question of the current call, or one answer to it, in
  one direction only and with the pid of the call. It follows that no answer is ever buffered among
  the events. A FLOOR_MBCP that the hub rejects breaks it, hence the condition in both properties.
- `Acknowledged`: `[]EventsAreAcked`. `AckInv`: the pids acknowledged, those of the ACKs under way and
  those of the events still unread are, one after the other, the pids of the events the hub sent,
  as long as the connection is open and its writes never wait.
- `Ordered`: `Spec => EventsInOrder`, the refinement of `Mailbox`. Events are numbered by their
  place in `events`; the pending ones of an opcode are those in the session's buffer, the one whose
  ACK is being written, and those on the wire. `HubEvent` is `Publish`; `DrainAllEvents`,
  `DrainFloorMbcp`, `WaitEvent` and the end of a wait in `SendAck` are `Take`; `TimeUpInAck` is
  `Lose`; every other action is a stutter. A wait hands out the frame it finds on the wire, so the
  step needs an invariant (`WaitInv`): while the session waits for an opcode, it keeps none of that
  opcode.

**Capacity** (`CapacityAssumption`: any finite set of subscribers).

- `TypeCorrect`, `SemaphoreConserved`.
- `RunWindowCovers`: if `Poll + PubSlack < Margin` then `[]WindowCovered`. The invariant is a
  chain of deadlines: the runner's alarm is at most one poll beyond `ReadyCap`, so the trigger
  is; the publisher starts at most `PubSlack` later and ends `Duration` after; a subscriber's
  deadline is at least `run_window`. The assumption is needed, see above: the code gives the
  subscribers a margin of 2 s and polls every 200 ms, which leaves the publisher 1.8 s.
- `EarlyTriggerFindsAllReady`: the ready counter never exceeds the number of subscribers that have
  left their setup, so a counter equal to all of them leaves nobody in it.
- `RowStaysFinal`: a runner that is done has joined every task, and a task that ended counts no more.

- `RunWindowOutlasts`: if `Poll <= Margin`, what `MeshLasts` says of a conference holds of a row with a
  publisher, by the same chain with the runner's own alarm at its end.

**Conference**.

- `MeshLastsTheRow`. Both measure from the trigger: the runner's alarm is the trigger plus the
  duration, a bot's deadline at least that.
- `ConferenceRow`: `PermitsConserved`, `EarlyTriggerMeansReady` and `RowIsFinal` for the participants,
  of whom the creator takes its permit, and may be ready or fail, before the others are spawned.

**Distributed** (`DistAssumption`).

- `WindowsAreCovered`: if `DistMargin >= Second` then `[]WorkerWindowCovered`. Rounding down loses
  less than a second (`Rounding`), so a worker that waits has more than the wait and the measuring
  left, and every subscriber of it a deadline later than that, whenever it set up.
- `HealthyWasHeard`: the coordinator's sums never exceed the subscribers that heard something, since
  it adds each worker's report once, and a report is fixed when it is printed.
- `LastShareFits` and `LastShareWraps`: the last worker absorbs the rest, as `distributed.rs:174`
  says, exactly when `per_worker * (Workers - 1) <= Total`. Otherwise the subtraction of line 176
  underflows: a panic in a debug build, and in a release build a share that wraps to more than the
  total. With 5 subscribers over 4 workers the others get 2 each, which is more than there are.
- `DistTyped`: `[]DistTypeOK`; a share and a window are counts, even those that wrap
  (`GivenAreCounts`).

**RecvMetrics** (any number of streams, `Reorder` and `Gap` below half the sequence space):
`LossesAreCounted`, both `NoLossHidden` and `OvercountBounded`. First, the 16-bit difference of two
packets that near is the difference of their indices (`SignedDifference`). Then, per stream, the
losses counted are at least the missing packets, and, with the distance from the last packet
back to the highest added, at most the missing ones plus `Reorder + 1` for each packet
out of order; a step forward fills the first term, a step back the second.

**Observe**: `ObserveImplementsMetrics`, the refinement `Spec => MetricsSpec`: every step of the recv
task, the SFU and the network is an update of the metrics or leaves them alone. From it,
`ObserveHidesNoLoss` and `ObserveOvercountsLittle` follow from the theorem above.
`SwitchesAreRequested`: `[]SwitchesObservedOnce`, since the recv task clears the pending request in the
step in which it appends the switch. `ObserveInv` joins one invariant for each kind of record:

- `ObserveTyped`: `[]TypeOK`.
- `FaultsAreFound`: if `TsFits`, `[]FaultsAreSeen`. `SrInv` says that the
  records are those of the SRs that arrived, in that order. The code compares neighbours of a stream;
  if some pair of its SRs is out of order then so are two neighbours (`NeighboursSuffice`, which picks
  the pair that lies closest), in the list of all the streams. RTP timestamps order times as NTP times
  do while they are within half the wrap (`ClockOrders`, with the arithmetic of remainders it needs).
- `NoFalseAlarm`: if `TsFits` and `IdleFits`, `[]FailHasCause`. For L1-02 and L1-03, `SrOrderInv`:
  without a rewritten, repeated or overtaken SR those that arrived increase by capture time, and
  every one still under way is later than those of its stream. For L1-08, `GapInv`: a last packet's
  timestamp is that of a capture at most `Delay` before its arrival, so the gap of two timestamps
  differs from that of their arrivals by `Delay` at most, and an idle time is five times as long
  (`HonestGap`). For L1-13, `DeliveryInv`: if nothing was lost or overtaken, each packet from the
  next one expected to the last one relayed is in flight and no older one is, so the difference that
  `update()` computes is never positive, however many packets are repeated.
- `FailuresAreKept`: the action property `FailuresStick`. Every list and set of records only grows
  and every counter never falls (`RecordsGrow`, `CountsGrow`), and the 18 verdicts that the property
  speaks of fail by something that is there, never by something that is not.

**Cli**. The first lemmas of `Cli_proofs`, about `BotLife`, show that every operation of a bot, in
any order, keeps `LifeInv`: a bot that publishes does so from its newest finished setup, whose two
readers are gone, and only the setup in progress or a failed one has a reader.

- `CliSoleReader`: `[]SoleReader` for any bots, profiles and scenario files, since each step of each
  command is one of those operations or leaves the bots alone.
- `CliRatchet` (`JudgeAssumption`, `SnapshotsAssumption`): `Ratchet` for any scenario files,
  snapshots and number of processes. The invariant says that from the judging on, a report
  that is not a regression was computed from the very measurements the write will use, against the
  baseline in `basis`, and that a readable baseline holds metrics; that no verdict is a
  regression gives the three bounds.

Then the order of the calls counts. Where a process is (`Positions`) is inductive together with the
types of the engine: while `cursor` goes over bots it is one of them, and `step` is inside a turn only
where the action has such a step. `EngineInv` is both; a bot an action is at is therefore a
participant of the file (`ScenarioAssumption`: the participants are different and are all the bots).

- `CliTyped`: `[]CliTypeOK`, of every command.
- `TimelineInOrder`: the timeline has the file's actions, each once, by `at_sec` and, at the same
  time, by their place in the file. `Timeline` puts an action at the number of those before it;
  `PlacesDiffer` and `PlacesAreTaken` show that these numbers are the places, each taken once.
- `CliMediaStopped`: `[]MediaStopped`. Of the setups, that only the bot whose turn it is has one
  (`SetupInv`); of the readers, that without an error there are those of that setup and no other
  (`ReadersInv`). A disconnect stops the publication whose handles the bot has, so `TasksInv` says,
  for the `run` command and for scenarios that join once, that no other is alive (`Held`: a second
  start, which would overwrite the handles, needs a second join), and that the bots that the
  disconnecting is past have none. `NotJoined` is what makes the only join find nobody publishing.
- `CliNoSilentDropout`: `[]NoSilentDropout`. For a bot whose last two actions are a join `i` and a
  start `j`, as long as there is no error (`OnTheWay`): between its turns of the two the bot is
  joined, past its turn of the second it publishes, and after the collection it was measured. One
  lemma for each kind of action: those before `i`, the join, those in between, which are not about
  the bot, the start, and those behind. A report that passes is one without errors
  (`ErrorsNeverPass`).
- `CliImplementsRows`: whichever command is given, the state of the distributed point goes through a
  behaviour of `DistSpec`, and that of a row through one of `ConfSpec` if it is a conference and of
  `Spec` otherwise. So the theorems about them hold of the commands: `CliRows`
  (`PermitsConserved`, `EarlyTriggerMeansReady`, `RowIsFinal`), `CliWindows` (`WindowCovered` and
  `MeshLasts`, if `Poll + PubSlack < Margin`), `CliDistributed` (`HealthyMeansHeard` and
  `WorkerWindowCovered`, if `DistMargin >= Second`): exactly the properties of the run `Cli`.

Every invariant and every action property of the runs is the subject of a theorem. Only
model-checked, being out of the prover's reach, are the properties that something happens in the end
(fairness): `CommandEnds` and those of `PttLive` and `Signaling`.

## 5. Not modelled

- `bench` and `e2e-ptt`: excluded from the Cargo workspace, written for an earlier version of the
  wire format and superseded by `oxlab-bot` and `oxlab-cli`.
- The encoding of JSON, TLV, RTP, RTCP and STUN, and the cryptography of DTLS and SRTP: bytes
  and library calls, abstracted to the kinds the code tells apart and to success or failure.
- Numbers that are only printed: the counters of bytes and latencies, the resource sampler, the table
  and the CSV file of the capacity tool; logging. The CPU part of `bot_healthy` is left out.
- Jitter, an average of wall-clock differences, is an arbitrary value where it is judged.
- Argument parsing and the loading of a custom network profile from TOML.
- The `screen_share_*` records, which nothing in the repository writes (L1-21 is never applied),
  and the latency from a PLI to a keyframe, which nothing evaluates.

## 6. Plan

What is left, in the order of its worth:

1. The multi-bot form of the checkpoint properties, with the records of several bots in one
   evaluation (L1-13 compares the counts of two receivers).
