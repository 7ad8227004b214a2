------------------------------ MODULE Signaling -------------------------------
(***************************************************************************)
(* SignalingSession of common/src/signaling.rs, one WebSocket connection   *)
(* to the hub (external): the handshake, requests answered by a frame of   *)
(* the same opcode, events acknowledged as they are received, and the two  *)
(* buffers that hold what arrives while the session waits for something    *)
(* else.                                                                   *)
(*                                                                         *)
(* A session serves one call at a time.  Every call that waits does so in  *)
(* recv_frame, which awaits twice: for a frame, and then for the ACK of an *)
(* event to be written.  poll_events and wait_event cancel recv_frame when *)
(* their time is up; with room in the socket the ACK never has to wait, so *)
(* only with backpressure can the cancellation fall in between.            *)
(***************************************************************************)
EXTENDS Naturals, Sequences, Sifting

CONSTANTS
  Settings          (* the connections to consider, see Setting            *)

\* Whether writing an ACK may have to wait, whether the hub answers a FLOOR_MBCP
\* with an ERROR and refuses requests; and the bounds: events that the hub sends,
\* requests and floor messages of the bot.
Setting == [backpressure : BOOLEAN, rejectsFloor : BOOLEAN, refuses : BOOLEAN,
            events : Nat, calls : Nat]

ASSUME SignalingAssumption == Settings \subseteq Setting

VARIABLES
  setting,        (* of this connection                                    *)
  \* The connection.
  connected, to_hub, to_client,
  \* The session.
  rooms,          (* the requests connect() still has to make              *)
  call,           (* what the session is waiting for                       *)
  acking,         (* the event whose ACK recv_frame is writing             *)
  pid,            (* the next pid                                          *)
  event_buf, floor_mbcp_buf,
  \* The hub.
  identified,
  events,         (* the events sent; an event's pid is its place here     *)
  \* History.
  acked,          (* the pids of the ACKs that reached the hub             *)
  answer,         (* the pids of the last request and of its answer        *)
  taken           (* per opcode, the pids of the events handed to the bot  *)

hub == <<identified, events, acked>>
buffers == <<event_buf, floor_mbcp_buf>>
vars == <<connected, to_hub, to_client, rooms, call, acking, pid, buffers, hub,
          answer, taken>>

-----------------------------------------------------------------------------

AckedOps == {"TRACKS_UPDATE", "ROOM_EVENT"}
FloorOps == {"FLOOR_MBCP"}
EventOps == AckedOps \cup FloorOps
RoomOps == {"ROOM_CREATE", "ROOM_JOIN"}
BotOps == {"HEARTBEAT", "TRACKS_READY"}
RequestOps == RoomOps \cup BotOps

Msg(op, p) == [op |-> op, pid |-> p, ack |-> "msg"]
Ack(op, p, state) == [op |-> op, pid |-> p, ack |-> state]
NoFrame == Msg("none", 0)

\* The frames that carry one of ops: a message, and an answer to one.
Msgs(ops) == [op : ops, pid : Nat, ack : {"msg"}]
Acks(ops) == [op : ops, pid : Nat, ack : {"ok", "fail"}]
HubFrames == Msgs(RequestOps \cup FloorOps \cup {"IDENTIFY"}) \cup Acks(AckedOps)
ClientFrames ==
  Msgs(EventOps \cup {"HELLO", "IDENTIFY_RESULT", "ERROR"}) \cup Acks(RequestOps)
Events == Msgs(AckedOps)
FloorFrames == Msgs(FloorOps)
AckFrames == Acks(AckedOps)

\* The call in progress, by the await it is in.
Awaiting(what, op, p) == [what |-> what, op |-> op, pid |-> p]
Idle == Awaiting("nothing", "none", 0)
Gone == Awaiting("gone", "none", 0)

Waiting == call.what \notin {"nothing", "gone"}
Joined == call.what # "gone" /\ rooms = <<>>

Init ==
  /\ setting \in Settings
  /\ connected = TRUE
  /\ to_hub = <<>>
  /\ to_client = <<Msg("HELLO", 0)>>
  /\ rooms \in {<<"ROOM_CREATE", "ROOM_JOIN">>, <<"ROOM_JOIN">>}
  /\ call = Awaiting("hello", "HELLO", 0)
  /\ acking = NoFrame
  /\ pid = 1
  /\ event_buf = <<>> /\ floor_mbcp_buf = <<>>
  /\ identified = FALSE /\ events = <<>>
  /\ acked = <<>>
  /\ answer = <<0, 0>>
  /\ taken = [op \in EventOps |-> <<>>]

-----------------------------------------------------------------------------
(***************************************************************************)
(* The hub (external).                                                     *)
(***************************************************************************)

Reply(f) == to_client' = Append(to_client, f)

HubTake ==
  /\ connected
  /\ to_hub # <<>>
  /\ to_hub' = Tail(to_hub)
  /\ LET f == Head(to_hub)
     IN  \/ /\ f.op = "IDENTIFY"
            /\ identified' = TRUE
            /\ Reply(Msg("IDENTIFY_RESULT", 0))
            /\ UNCHANGED acked
         \/ /\ f.ack # "msg"
            /\ acked' = Append(acked, f.pid)
            /\ UNCHANGED <<identified, to_client>>
         \/ /\ f.op = "FLOOR_MBCP"
            /\ \/ UNCHANGED to_client
               \/ setting.rejectsFloor /\ Reply(Msg("ERROR", f.pid))
            /\ UNCHANGED <<identified, acked>>
         \/ /\ f.ack = "msg" /\ f.op \notin {"IDENTIFY", "FLOOR_MBCP"}
            /\ \/ Reply(Ack(f.op, f.pid, "ok"))
               \/ setting.refuses /\ Reply(Ack(f.op, f.pid, "fail"))
               \/ setting.refuses /\ Reply(Msg("ERROR", f.pid))
            /\ UNCHANGED <<identified, acked>>
  /\ UNCHANGED <<connected, rooms, call, acking, pid, buffers, events, answer, taken>>

HubEvent(op) ==
  /\ connected
  /\ identified
  /\ Len(events) < setting.events
  /\ LET f == Msg(op, Len(events) + 1)
     IN  events' = Append(events, f) /\ Reply(f)
  /\ UNCHANGED <<connected, to_hub, rooms, call, acking, pid, buffers, identified,
                 acked, answer, taken>>

\* The hub closes; what it had sent can still be read.
HubDrop ==
  /\ connected
  /\ connected' = FALSE
  /\ to_hub' = <<>>
  /\ UNCHANGED <<to_client, rooms, call, acking, pid, buffers, hub, answer, taken>>

-----------------------------------------------------------------------------
(***************************************************************************)
(* The calls.                                                              *)
(***************************************************************************)

\* What is written to a closed connection goes nowhere; the error is seen by
\* the recv_frame that follows.
Write(frames) == to_hub' = IF connected THEN to_hub \o frames ELSE to_hub

\* next_pid, send_msg, and the wait for the answer.
StartRequest(op, acks) ==
  /\ pid' = pid + 1
  /\ Write(Append(acks, Msg(op, pid)))
  /\ call' = Awaiting("request", op, pid)

Request(op) ==
  /\ Joined /\ call = Idle
  /\ pid < setting.calls
  /\ StartRequest(op, <<>>)
  /\ UNCHANGED <<connected, to_client, rooms, acking, buffers, hub, answer, taken>>

SendFloorMbcp ==
  /\ Joined /\ call = Idle
  /\ pid < setting.calls
  /\ pid' = pid + 1
  /\ Write(<<Msg("FLOOR_MBCP", pid)>>)
  /\ UNCHANGED <<connected, to_client, rooms, call, acking, buffers, hub, answer, taken>>

PollsWhenEmpty ==                                       \* mutant
  /\ Joined /\ call = Idle
  /\ event_buf = <<>>
  /\ call' = Awaiting("poll", "none", 0)
  /\ UNCHANGED <<connected, to_hub, to_client, rooms, acking, pid, buffers, hub,
                 answer, taken>>

PollEvents ==
  /\ Joined /\ call = Idle
  /\ call' = Awaiting("poll", "none", 0)
  /\ UNCHANGED <<connected, to_hub, to_client, rooms, acking, pid, buffers, hub,
                 answer, taken>>

Of(op) == [op : {op}, pid : Nat, ack : {"msg", "ok", "fail"}]
Pids(s) == [i \in DOMAIN s |-> s[i].pid]
PidsOf(s, S) == Pids(Sift(s, S))
Hand(op, s) == taken' = [taken EXCEPT ![op] = @ \o Pids(s)]

DrainAllEvents(op) ==
  /\ Joined /\ call = Idle
  /\ Sift(event_buf, Of(op)) # <<>>
  /\ Hand(op, Sift(event_buf, Of(op)))
  /\ event_buf' = Sift(event_buf, ClientFrames \ Of(op))
  /\ UNCHANGED <<connected, to_hub, to_client, rooms, call, acking, pid,
                 floor_mbcp_buf, hub, answer>>

DrainFloorMbcp ==
  /\ Joined /\ call = Idle
  /\ floor_mbcp_buf # <<>>
  /\ Hand("FLOOR_MBCP", floor_mbcp_buf)
  /\ floor_mbcp_buf' = <<>>
  /\ UNCHANGED <<connected, to_hub, to_client, rooms, call, acking, pid, event_buf,
                 hub, answer>>

\* wait_event hands out the first buffered one, or waits for the next.
WaitEvent(op) ==
  /\ Joined /\ call = Idle
  /\ \/ \E n \in 1 .. Len(event_buf) :
          LET before == SubSeq(event_buf, 1, n - 1)
          IN  /\ event_buf[n] \in Of(op) /\ Sift(before, Of(op)) = <<>>
              /\ Hand(op, <<event_buf[n]>>)
              /\ event_buf' = before \o SubSeq(event_buf, n + 1, Len(event_buf))
              /\ UNCHANGED call
     \/ /\ Sift(event_buf, Of(op)) = <<>>
        /\ call' = Awaiting("wait", op, 0)
        /\ UNCHANGED <<event_buf, taken>>
  /\ UNCHANGED <<connected, to_hub, to_client, rooms, acking, pid, floor_mbcp_buf,
                 hub, answer>>

Close ==
  /\ Joined /\ call = Idle
  /\ call' = Gone
  /\ connected' = FALSE
  /\ to_hub' = <<>>
  /\ UNCHANGED <<to_client, rooms, acking, pid, buffers, hub, answer, taken>>

-----------------------------------------------------------------------------
(***************************************************************************)
(* recv_frame, and what the waiting call does with the frame.              *)
(***************************************************************************)

SingleBuffer(f) ==                                      \* mutant
  event_buf' = Append(event_buf, f) /\ UNCHANGED floor_mbcp_buf
NewestFirst(f) ==                                       \* mutant
  IF f.op = "FLOOR_MBCP"
  THEN floor_mbcp_buf' = <<f>> \o floor_mbcp_buf /\ UNCHANGED event_buf
  ELSE event_buf' = <<f>> \o event_buf /\ UNCHANGED floor_mbcp_buf

Buffer(f) ==
  IF f.op = "FLOOR_MBCP"
  THEN /\ floor_mbcp_buf' = Append(floor_mbcp_buf, f)
       /\ UNCHANGED event_buf
  ELSE /\ event_buf' = Append(event_buf, f)
       /\ UNCHANGED floor_mbcp_buf

\* connect() gives up: the session is dropped and its connection with it.
Fail ==
  /\ call' = Gone
  /\ connected' = FALSE
  /\ to_hub' = <<>>
  /\ UNCHANGED <<rooms, pid>>

AnythingAnswers(f) == f.op # "FLOOR_MBCP"               \* mutant
OnlyOkAnswers(f) == f.op = call.op /\ f.ack = "ok"      \* mutant

\* A request is answered by an ACK of its opcode, or by any ERROR.
Answers(f) == (f.op = call.op /\ f.ack # "msg") \/ f.op = "ERROR"

\* The next request of connect(), or the bot may go on.
Proceed(left, acks) ==
  /\ rooms' = left
  /\ UNCHANGED connected
  /\ IF left = <<>>
     THEN call' = Idle /\ Write(acks) /\ UNCHANGED pid
     ELSE StartRequest(Head(left), acks)

Returns(f, acks) ==
  /\ answer' = <<call.pid, f.pid>>
  /\ \/ /\ rooms # <<>> /\ f.ack = "ok"
        /\ Proceed(Tail(rooms), acks)
     \/ /\ rooms # <<>> /\ f.ack # "ok"
        /\ Fail
     \/ /\ rooms = <<>>
        /\ Proceed(<<>>, acks)

\* acks: the ACK that recv_frame has written for this frame, if any.
Handle(f, acks) ==
  \/ /\ call.what = "hello" /\ f.op = "HELLO"
     /\ call' = Awaiting("identify", "IDENTIFY_RESULT", 0)
     /\ Write(Append(acks, Msg("IDENTIFY", 0)))
     /\ UNCHANGED <<connected, rooms, pid, buffers, answer, taken>>
  \/ /\ call.what = "identify" /\ f.op = "IDENTIFY_RESULT"
     /\ StartRequest(Head(rooms), acks)
     /\ UNCHANGED <<connected, rooms, buffers, answer, taken>>
  \/ /\ call.what = "request" /\ Answers(f)
     /\ Returns(f, acks)
     /\ UNCHANGED <<buffers, taken>>
  \/ /\ call.what = "wait" /\ f.op = call.op
     /\ call' = Idle
     /\ Hand(f.op, <<f>>)
     /\ Write(acks)
     /\ UNCHANGED <<connected, rooms, pid, buffers, answer>>
  \/ /\ \/ call.what = "identify" /\ f.op # "IDENTIFY_RESULT"
        \/ call.what = "request" /\ ~Answers(f)
        \/ call.what = "wait" /\ f.op # call.op
        \/ call.what = "poll"
     /\ Buffer(f)
     /\ Write(acks)
     /\ UNCHANGED <<connected, rooms, call, pid, answer, taken>>

AcksFloorToo(f) == f.ack = "msg" /\ f.op \in EventOps    \* mutant

NeedsAck(f) == f.ack = "msg" /\ f.op \in AckedOps

Receive ==
  /\ Waiting
  /\ acking = NoFrame
  /\ to_client # <<>>
  /\ to_client' = Tail(to_client)
  /\ LET f == Head(to_client)
     IN  \/ /\ NeedsAck(f)
            /\ acking' = f
            /\ UNCHANGED <<connected, to_hub, rooms, call, pid, buffers, answer, taken>>
         \/ /\ ~NeedsAck(f)
            /\ Handle(f, <<>>)
            /\ UNCHANGED acking
  /\ UNCHANGED hub

SendAck ==
  /\ acking # NoFrame
  /\ Handle(acking, <<Ack(acking.op, acking.pid, "ok")>>)
  /\ acking' = NoFrame
  /\ UNCHANGED <<to_client, hub>>

\* The time of poll_events or wait_event is up while no frame is at hand.
TimeUp ==
  /\ call.what \in {"poll", "wait"}
  /\ acking = NoFrame
  /\ call' = Idle
  /\ UNCHANGED <<connected, to_hub, to_client, rooms, acking, pid, buffers, hub,
                 answer, taken>>

\* The time is up while the ACK waits for room: recv_frame is dropped with the
\* frame it had taken, whether or not the ACK got into the write buffer.
TimeUpInAck ==
  /\ setting.backpressure
  /\ call.what \in {"poll", "wait"}
  /\ acking # NoFrame
  /\ call' = Idle
  /\ acking' = NoFrame
  /\ \/ UNCHANGED to_hub
     \/ Write(<<Ack(acking.op, acking.pid, "ok")>>)
  /\ UNCHANGED <<connected, to_client, rooms, pid, buffers, hub, answer, taken>>

\* recv_frame finds the connection closed: connect() fails, a request returns
\* the error, a poll ends and a wait returns nothing.
Lost ==
  /\ Waiting
  /\ acking = NoFrame
  /\ ~connected
  /\ to_client = <<>>
  /\ call' = IF rooms # <<>> THEN Gone ELSE Idle
  /\ UNCHANGED <<connected, to_hub, to_client, rooms, acking, pid, buffers, hub,
                 answer, taken>>

-----------------------------------------------------------------------------

Next ==
  \/ HubTake \/ HubDrop
  \/ \E op \in EventOps : HubEvent(op)
  \/ \E op \in BotOps : Request(op)
  \/ SendFloorMbcp \/ PollEvents \/ DrainFloorMbcp \/ Close
  \/ \E op \in AckedOps : DrainAllEvents(op) \/ WaitEvent(op)
  \/ Receive \/ SendAck \/ TimeUp \/ TimeUpInAck \/ Lost

Spec == Init /\ [][Next /\ UNCHANGED setting]_<<vars, setting>>

(***************************************************************************)
(* Fairness.  The hub takes what it is sent; a session that waits gets the *)
(* frames that have arrived, for a timeout polls recv_frame before its     *)
(* timer (strong, since the waits come and go); and the bot polls again    *)
(* and again, as its wait loop does, between whatever else it calls.       *)
(***************************************************************************)
Fairness ==
  /\ WF_vars(HubTake)
  /\ SF_vars(Receive) /\ WF_vars(SendAck) /\ WF_vars(TimeUp) /\ WF_vars(Lost)
  /\ SF_vars(PollEvents)

FairSpec == Spec /\ Fairness

-----------------------------------------------------------------------------

Calls ==
  {Idle, Gone, Awaiting("hello", "HELLO", 0), Awaiting("identify", "IDENTIFY_RESULT", 0),
   Awaiting("poll", "none", 0)}
    \cup {Awaiting("wait", op, 0) : op \in AckedOps}
    \cup {Awaiting("request", op, p) : op \in RequestOps, p \in 1 .. setting.calls + 2}

TypeOK ==
  /\ connected \in BOOLEAN
  /\ to_hub \in Seq(HubFrames) /\ to_client \in Seq(ClientFrames)
  /\ rooms \in {<<"ROOM_CREATE", "ROOM_JOIN">>, <<"ROOM_JOIN">>, <<>>}
  /\ call \in Calls
  /\ acking \in Events \cup {NoFrame}
  /\ pid \in 1 .. setting.calls + 3
  /\ event_buf \in Seq(ClientFrames \ FloorFrames)
  /\ setting.rejectsFloor \/ event_buf \in Seq(Events)
  /\ floor_mbcp_buf \in Seq(FloorFrames)
  /\ identified \in BOOLEAN /\ events \in Seq(Msgs(EventOps)) /\ acked \in Seq(Nat)
  /\ answer \in Nat \X Nat /\ taken \in [EventOps -> Seq(Nat)]

(***************************************************************************)
(* A request is answered by the frame that carries its own pid, although   *)
(* request() compares only the opcode and takes any ERROR for the answer:  *)
(* nobody else uses the connection, and no answer is left over by a call   *)
(* that was given up.  It holds while the hub never rejects a FLOOR_MBCP,  *)
(* for whose answer nobody waits.                                          *)
(***************************************************************************)
Own == answer[1] = answer[2]
ResponseIsOwn == ~setting.rejectsFloor => Own

\* "ACK = same op + same pid response" (signaling.rs), whatever the hub does.
EveryResponseIsOwn == Own

(***************************************************************************)
(* The client must ACK every event, FLOOR_MBCP excepted: on an open        *)
(* connection the ACKs written are those of the events received, each once *)
(* and in order; the rest is in recv_frame's hands or still to be read.    *)
(* A cancelled ACK (backpressure) is lost.                                 *)
(***************************************************************************)
\* The frame whose ACK is being written.
Held == IF acking = NoFrame THEN <<>> ELSE <<acking>>

EventPids == PidsOf(events, Events)
AcksOnTheWay == PidsOf(to_hub, AckFrames)
Unread(S) == PidsOf(Held, S) \o PidsOf(to_client, S)

EventsAreAcked ==
  connected /\ ~setting.backpressure => acked \o AcksOnTheWay \o Unread(Events) = EventPids

(***************************************************************************)
(* The events of an opcode reach the bot in order and without a gap: the   *)
(* session implements the mailbox.  What is buffered, being acknowledged   *)
(* or still on the wire is pending.                                        *)
(***************************************************************************)
PendingOf(op) ==
  PidsOf(event_buf, Of(op)) \o PidsOf(floor_mbcp_buf, Of(op)) \o Unread(Of(op))

EventIds == UNION {1 .. st.events : st \in Settings}

Box == INSTANCE Mailbox WITH
         Ops <- EventOps, lossy <- setting.backpressure, sent <- Len(events),
         pending <- [op \in EventOps |-> PendingOf(op)]

EventsInOrder == Box!Spec

\* A call never hangs: every request returns, with an answer or an error,
\* whatever events arrive in between and even if the hub closes.
RequestsReturn == call.what = "request" ~> call.what # "request"

\* Every event is received, and so acknowledged, by the polls, unless the
\* session is gone.
Received(id) ==
  LET unread == Held \o to_client
  IN  \A i \in 1 .. Len(unread) : unread[i] # events[id]

EventsAreReceived ==
  \A id \in EventIds :
    (id <= Len(events)) ~> (call.what = "gone" \/ (id <= Len(events) /\ Received(id)))

=============================================================================
