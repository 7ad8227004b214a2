--------------------------- MODULE Signaling_proofs ---------------------------
(***************************************************************************)
(* What TLAPS proves of a session, for any number of calls and events, any *)
(* refusals of the hub, cancelled ACKs and a connection that may close:    *)
(* a request is answered by the frame with its own pid, every event is     *)
(* acknowledged once and in order, and the session implements the mailbox. *)
(***************************************************************************)
EXTENDS Signaling, Sifting_proofs

Frames == HubFrames \cup ClientFrames

\* A closed term for the frames the hub waits for an answer to, and for those
\* that are no event.
Asking == Msgs(RequestOps \cup {"IDENTIFY"})
Greetings == {"HELLO", "IDENTIFY_RESULT", "ERROR"}
Answering == Msgs(Greetings) \cup Acks(RequestOps)

LEMMA FrameKinds ==
  /\ \A f \in Frames : f.pid \in Nat
  /\ \A f \in ClientFrames : f \in Events <=> NeedsAck(f)
  /\ \A f \in ClientFrames : f \in FloorFrames <=> f.op = "FLOOR_MBCP"
  /\ \A f \in ClientFrames : f \in Answering <=> f.op \notin EventOps
  /\ ClientFrames = Events \cup FloorFrames \cup Answering
  /\ Events \subseteq ClientFrames /\ FloorFrames \subseteq ClientFrames
  /\ Answering \subseteq ClientFrames /\ Asking \subseteq HubFrames
  /\ HubFrames = Asking \cup FloorFrames \cup AckFrames
BY DEF Frames, HubFrames, ClientFrames, Events, FloorFrames, Answering, Asking, AckFrames,
       NeedsAck, Msgs, Acks, Greetings, EventOps, AckedOps, FloorOps, RequestOps, RoomOps, BotOps

\* No frame is of two kinds.
LEMMA FrameKindsApart ==
  /\ Events \cap FloorFrames = {} /\ Events \cap Answering = {}
  /\ FloorFrames \cap Answering = {}
  /\ Asking \cap FloorFrames = {} /\ Asking \cap AckFrames = {} /\ FloorFrames \cap AckFrames = {}
  /\ NoFrame \notin Frames
BY DEF Frames, HubFrames, ClientFrames, Events, FloorFrames, Answering, Asking, AckFrames,
       Msgs, Acks, Greetings, EventOps, AckedOps, FloorOps, RequestOps, RoomOps, BotOps,
       NoFrame, Msg

LEMMA MsgType ==
  ASSUME NEW ops, NEW op \in ops, NEW p \in Nat
  PROVE  Msg(op, p) \in Msgs(ops) /\ Msg(op, p).op = op /\ Msg(op, p).pid = p
         /\ Msg(op, p).ack = "msg"
BY DEF Msg, Msgs

(***************************************************************************)
(* The pids of the frames of a set.                                        *)
(***************************************************************************)
LEMMA PidsType ==
  ASSUME NEW s \in Seq(Frames)
  PROVE  Pids(s) \in Seq(Nat) /\ Len(Pids(s)) = Len(s) /\ \A i \in 1 .. Len(s) : Pids(s)[i] = s[i].pid
<1>1. DOMAIN s = 1 .. Len(s) /\ Len(s) \in Nat /\ \A i \in 1 .. Len(s) : s[i] \in Frames
  BY LenProperties
<1>2. Pids(s) = [i \in 1 .. Len(s) |-> s[i].pid]
  BY <1>1 DEF Pids
<1>3. \A i \in 1 .. Len(s) : s[i].pid \in Nat
  BY <1>1, FrameKinds
<1> QED
  BY <1>1, <1>2, <1>3

LEMMA PidsConcat ==
  ASSUME NEW s \in Seq(Frames), NEW t \in Seq(Frames)
  PROVE  Pids(s \o t) = Pids(s) \o Pids(t)
<1> DEFINE st == s \o t
           ps == Pids(s)
           pt == Pids(t)
           pst == Pids(st)
<1>1. /\ st \in Seq(Frames) /\ Len(st) = Len(s) + Len(t)
      /\ \A i \in 1 .. Len(s) + Len(t) :
           st[i] = IF i <= Len(s) THEN s[i] ELSE t[i - Len(s)]
  BY ConcatProperties
<1>2. ps \in Seq(Nat) /\ Len(ps) = Len(s) /\ \A i \in 1 .. Len(s) : ps[i] = s[i].pid
  BY PidsType
<1>3. pt \in Seq(Nat) /\ Len(pt) = Len(t) /\ \A i \in 1 .. Len(t) : pt[i] = t[i].pid
  BY PidsType
<1> HIDE DEF st, ps, pt
<1>4. pst \in Seq(Nat) /\ Len(pst) = Len(st) /\ \A i \in 1 .. Len(st) : pst[i] = st[i].pid
  BY <1>1, PidsType
<1> HIDE DEF pst
<1>5. /\ ps \o pt \in Seq(Nat) /\ Len(ps \o pt) = Len(ps) + Len(pt)
      /\ \A i \in 1 .. Len(ps) + Len(pt) :
           (ps \o pt)[i] = IF i <= Len(ps) THEN ps[i] ELSE pt[i - Len(ps)]
  BY <1>2, <1>3, ConcatProperties
<1>6. Len(s) \in Nat /\ Len(t) \in Nat
  BY LenProperties
<1>7. ASSUME NEW i \in 1 .. Len(s) + Len(t) PROVE pst[i] = (ps \o pt)[i]
  <2>1. pst[i] = st[i].pid
    BY <1>1, <1>4
  <2>2. CASE i <= Len(s)
    <3>1. i \in 1 .. Len(s)
      BY <1>6, <2>2
    <3> QED
      BY <1>1, <1>2, <1>3, <1>5, <2>1, <2>2, <3>1
  <2>3. CASE ~(i <= Len(s))
    <3>1. i - Len(s) \in 1 .. Len(t)
      BY <1>6, <2>3
    <3> QED
      BY <1>1, <1>2, <1>3, <1>5, <2>1, <2>3, <3>1
  <2> QED
    BY <2>2, <2>3
<1>8. pst = ps \o pt
  BY <1>1, <1>2, <1>3, <1>4, <1>5, <1>7, SeqEqual
<1> QED
  BY <1>8 DEF st, ps, pt, pst

LEMMA PidsOfType ==
  ASSUME NEW s \in Seq(Frames), NEW S
  PROVE  PidsOf(s, S) \in Seq(Nat) /\ Sift(s, S) \in Seq(Frames)
<1> DEFINE kept == Sift(s, S)
<1>1. kept \in Seq(Frames \cap S)
  BY SiftType
<1> HIDE DEF kept
<1>2. kept \in Seq(Frames)
  BY <1>1, SeqMonotonic
<1>3. Pids(kept) \in Seq(Nat)
  BY <1>2, PidsType
<1> QED
  BY <1>2, <1>3 DEF kept, PidsOf

LEMMA PidsOfConcat ==
  ASSUME NEW s \in Seq(Frames), NEW t \in Seq(Frames), NEW S
  PROVE  PidsOf(s \o t, S) = PidsOf(s, S) \o PidsOf(t, S)
<1>1. Sift(s, S) \in Seq(Frames) /\ Sift(t, S) \in Seq(Frames)
  BY PidsOfType
<1>2. Sift(s \o t, S) = Sift(s, S) \o Sift(t, S)
  BY SiftConcat
<1> DEFINE ss == Sift(s, S)
           tt == Sift(t, S)
<1> HIDE DEF ss, tt
<1>3. ss \in Seq(Frames) /\ tt \in Seq(Frames)
  BY <1>1 DEF ss, tt
<1>4. Pids(ss \o tt) = Pids(ss) \o Pids(tt)
  BY <1>3, PidsConcat
<1> QED
  BY <1>2, <1>4 DEF ss, tt, PidsOf

LEMMA PidsOfOne ==
  ASSUME NEW f \in Frames, NEW S
  PROVE  /\ f \in S => PidsOf(<<f>>, S) = <<f.pid>>
         /\ f \notin S => PidsOf(<<f>>, S) = <<>>
         /\ PidsOf(<<>>, S) = <<>> /\ Pids(<<f>>) = <<f.pid>> /\ <<f>> \in Seq(Frames)
<1>1. Pids(<<>>) = <<>>
  BY DEF Pids
<1>2. Pids(<<f>>) = <<f.pid>>
  BY DEF Pids
<1>3. Sift(<<f>>, S) = IF f \in S THEN <<f>> ELSE <<>>
  BY SiftOne
<1>4. Sift(<<>>, S) = <<>>
  BY SiftEmpty
<1> QED
  BY <1>1, <1>2, <1>3, <1>4 DEF PidsOf

\* Of frames that are all or none in S.
LEMMA PidsOfAll ==
  ASSUME NEW M, NEW s \in Seq(M), NEW S
  PROVE  /\ M \subseteq S => PidsOf(s, S) = Pids(s)
         /\ M \cap S = {} => PidsOf(s, S) = <<>>
<1>1. M \subseteq S => Sift(s, S) = s
  BY SiftAll
<1>2. M \cap S = {} => Sift(s, S) = <<>>
  BY SiftNone
<1>3. Pids(<<>>) = <<>>
  BY DEF Pids
<1> QED
  BY <1>1, <1>2, <1>3 DEF PidsOf

\* A sequence of frames, one frame more at its end or at its front.
LEMMA PidsOfAppend ==
  ASSUME NEW s \in Seq(Frames), NEW f \in Frames, NEW S
  PROVE  /\ Append(s, f) \in Seq(Frames)
         /\ f \in S => PidsOf(Append(s, f), S) = PidsOf(s, S) \o <<f.pid>>
         /\ f \notin S => PidsOf(Append(s, f), S) = PidsOf(s, S)
<1> DEFINE one == <<f>>
<1>1. one \in Seq(Frames) /\ (f \in S => PidsOf(one, S) = <<f.pid>>)
      /\ (f \notin S => PidsOf(one, S) = <<>>)
  BY PidsOfOne
<1>2. Append(s, f) = s \o one /\ Append(s, f) \in Seq(Frames)
  BY AppendIsConcat, AppendProperties
<1> HIDE DEF one
<1>3. PidsOf(s \o one, S) = PidsOf(s, S) \o PidsOf(one, S)
  BY <1>1, PidsOfConcat
<1>4. PidsOf(s, S) \in Seq(Nat)
  BY PidsOfType
<1>5. PidsOf(s, S) \o <<>> = PidsOf(s, S)
  BY <1>4, ConcatEmptySeq
<1> QED
  BY <1>1, <1>2, <1>3, <1>5

LEMMA PidsOfHead ==
  ASSUME NEW s \in Seq(Frames), s # <<>>, NEW S
  PROVE  /\ Head(s) \in Frames /\ Tail(s) \in Seq(Frames)
         /\ Head(s) \in S => PidsOf(s, S) = <<Head(s).pid>> \o PidsOf(Tail(s), S)
         /\ Head(s) \notin S => PidsOf(s, S) = PidsOf(Tail(s), S)
<1> DEFINE h == Head(s)
           t == Tail(s)
           one == <<h>>
<1>1. h \in Frames /\ t \in Seq(Frames) /\ one \in Seq(Frames) /\ one \o t = s
  BY HeadAndTail
<1> HIDE DEF h, t
<1>2. /\ h \in S => PidsOf(one, S) = <<h.pid>>
      /\ h \notin S => PidsOf(one, S) = <<>>
  BY <1>1, PidsOfOne
<1>5. one \in Seq(Frames) /\ t \in Seq(Frames)
  BY <1>1
<1> HIDE DEF one
<1>3. PidsOf(one \o t, S) = PidsOf(one, S) \o PidsOf(t, S)
  BY <1>5, PidsOfConcat
<1>4. PidsOf(t, S) \in Seq(Nat)
  BY <1>1, PidsOfType
<1>6. <<>> \o PidsOf(t, S) = PidsOf(t, S)
  BY <1>4, ConcatEmptySeq
<1> QED
  BY <1>1, <1>2, <1>3, <1>6 DEF h, t

-----------------------------------------------------------------------------
(***************************************************************************)
(* Types.                                                                  *)
(***************************************************************************)

Whats == {"nothing", "gone", "hello", "identify", "poll", "wait", "request"}

\* connect() makes at most two requests.
CreateJoin == <<"ROOM_CREATE", "ROOM_JOIN">>
Join == <<"ROOM_JOIN">>

LEMMA Rooms ==
  /\ Len(CreateJoin) = 2 /\ Len(Join) = 1
  /\ Head(CreateJoin) \in RoomOps /\ Head(Join) \in RoomOps
  /\ Tail(CreateJoin) = Join /\ Tail(Join) = <<>>
  /\ CreateJoin # <<>> /\ Join # <<>>
BY DEF RoomOps, CreateJoin, Join

Entering ==
  /\ call.what \in {"hello", "identify"} => rooms # <<>>
  /\ rooms # <<>> => \/ call.what = "gone"
                     \/ call.what \in {"hello", "identify"} /\ pid + Len(rooms) <= 3
                     \/ call.what = "request" /\ pid + Len(rooms) <= 4

Wires ==
  /\ to_hub \in Seq(HubFrames) /\ to_client \in Seq(ClientFrames)
  /\ acking \in Events \cup {NoFrame}

Calling ==
  /\ setting \in Settings /\ connected \in BOOLEAN
  /\ rooms \in {CreateJoin, Join, <<>>}
  /\ call \in Calls /\ pid \in 1 .. setting.calls + 3
  /\ Entering

Buffered ==
  /\ event_buf \in Seq(Events \cup Answering)
  /\ floor_mbcp_buf \in Seq(FloorFrames)

Records ==
  /\ identified \in BOOLEAN /\ events \in Seq(Msgs(EventOps)) /\ acked \in Seq(Nat)
  /\ answer \in Nat \X Nat /\ taken \in [EventOps -> Seq(Nat)]

TypeInv == Wires /\ Calling /\ Buffered /\ Records

LEMMA SettingType ==
  ASSUME TypeInv
  PROVE  /\ setting.calls \in Nat /\ setting.events \in Nat
         /\ setting.backpressure \in BOOLEAN /\ setting.rejectsFloor \in BOOLEAN
BY SignalingAssumption DEF TypeInv, Calling, Setting

LEMMA CallShape ==
  ASSUME TypeInv
  PROVE  /\ call.what \in Whats
         /\ call.what = "nothing" => call = Idle
         /\ call.what = "gone" => call = Gone
         /\ call.what = "hello" => call.op = "HELLO" /\ call.pid = 0
         /\ call.what = "identify" => call.op = "IDENTIFY_RESULT" /\ call.pid = 0
         /\ call.what = "wait" => call.op \in AckedOps
         /\ call.what = "request" => call.op \in RequestOps /\ call.pid \in Nat
         /\ Idle.what = "nothing" /\ Gone.what = "gone"
BY SettingType DEF TypeInv, Calling, Calls, Idle, Gone, Awaiting, Whats

LEMMA CallsKnown ==
  /\ Idle \in Calls /\ Gone \in Calls
  /\ Awaiting("identify", "IDENTIFY_RESULT", 0) \in Calls
  /\ Awaiting("poll", "none", 0) \in Calls
  /\ \A op \in AckedOps : Awaiting("wait", op, 0) \in Calls
  /\ \A op \in RequestOps : \A p \in 1 .. setting.calls + 2 : Awaiting("request", op, p) \in Calls
BY DEF Calls

LEMMA TypeInit == Init => TypeInv
<1> SUFFICES ASSUME Init PROVE TypeInv
  OBVIOUS
<1>1. setting \in Settings /\ setting.calls \in Nat
  BY SignalingAssumption DEF Init, Setting
<1>2. Wires
  <2>1. Msg("HELLO", 0) \in ClientFrames
    BY DEF Msg, Msgs, ClientFrames
  <2> QED
    BY <2>1 DEF Init, Wires
<1>3. Calling
  <2>1. call \in Calls /\ call.what = "hello"
    BY DEF Init, Calls, Awaiting
  <2>2. /\ rooms \in {CreateJoin, Join} /\ pid = 1
        /\ connected = TRUE
    BY DEF Init, CreateJoin, Join
  <2>3. Entering
    BY <2>1, <2>2, Rooms DEF Entering
  <2> QED
    BY <1>1, <2>1, <2>2, <2>3 DEF Calling
<1>4. Buffered
  BY DEF Init, Buffered
<1>5. Records
  <2>1. taken = [op \in EventOps |-> <<>>] /\ <<>> \in Seq(Nat)
    BY EmptySeq DEF Init
  <2>2. taken \in [EventOps -> Seq(Nat)]
    BY <2>1
  <2>3. /\ identified = FALSE /\ events = <<>> /\ acked = <<>> /\ answer = <<0, 0>>
    BY DEF Init
  <2> QED
    BY <2>2, <2>3, EmptySeq DEF Records
<1> QED
  BY <1>2, <1>3, <1>4, <1>5 DEF TypeInv

-----------------------------------------------------------------------------

LEMMA Written ==
  ASSUME TypeInv, NEW frames \in Seq(HubFrames), Write(frames)
  PROVE  /\ to_hub' \in Seq(HubFrames)
         /\ connected => to_hub' = to_hub \o frames
         /\ ~connected => to_hub' = to_hub
BY ConcatProperties DEF Write, TypeInv, Wires

\* What a request of connect() or of the bot does to the types.
LEMMA RequestTypes ==
  ASSUME TypeInv, NEW op \in RequestOps, NEW acks \in Seq(HubFrames), StartRequest(op, acks),
         UNCHANGED <<setting, connected>>, pid <= setting.calls + 2,
         rooms' \in {CreateJoin, Join, <<>>},
         rooms' # <<>> => pid + Len(rooms') <= 3
  PROVE  to_hub' \in Seq(HubFrames) /\ Calling' /\ call'.what = "request" /\ call'.pid = pid
         /\ call'.op = op
<1>1. pid \in 1 .. setting.calls + 3 /\ setting.calls \in Nat
  BY SettingType DEF TypeInv, Calling
<1>2. Msg(op, pid) \in HubFrames
  BY <1>1 DEF HubFrames, Msg, Msgs
<1> DEFINE frames == Append(acks, Msg(op, pid))
<1>3. frames \in Seq(HubFrames)
  BY <1>2
<1>4. to_hub' \in Seq(HubFrames)
  BY <1>3, Written DEF StartRequest
<1>5. call' = Awaiting("request", op, pid) /\ pid' = pid + 1
  BY DEF StartRequest
<1>6. pid \in 1 .. setting.calls + 2 /\ pid' \in 1 .. setting.calls + 3
  BY <1>1, <1>5
<1>7. call' \in Calls' /\ call'.what = "request" /\ call'.pid = pid /\ call'.op = op
  <2>1. Awaiting("request", op, pid) \in Calls
    BY <1>6, CallsKnown
  <2>2. Calls' = Calls
    BY DEF Calls, Idle, Gone
  <2> QED
    BY <1>5, <2>1, <2>2 DEF Awaiting
<1>8. Entering'
  <2>1. ASSUME rooms' # <<>> PROVE pid' + Len(rooms') <= 4
    <3>1. Len(rooms') \in Nat
      BY <2>1, Rooms
    <3> QED
      BY <1>1, <1>5, <2>1, <3>1
  <2> QED
    BY <1>7, <2>1 DEF Entering
<1> QED
  BY <1>4, <1>5, <1>6, <1>7, <1>8 DEF TypeInv, Calling

\* A call ends, or a waiting one begins.
LEMMA CallTypes ==
  ASSUME TypeInv, UNCHANGED <<setting, pid>>, rooms' \in {rooms, <<>>}, connected' \in BOOLEAN,
         \/ call' = Gone
         \/ rooms' = <<>> /\ call' = Idle
         \/ rooms' = <<>> /\ call' = Awaiting("poll", "none", 0)
         \/ rooms' = <<>> /\ \E op \in AckedOps : call' = Awaiting("wait", op, 0)
  PROVE  Calling'
<1>1. call' \in Calls' /\ call'.what \in {"gone", "nothing", "poll", "wait"}
      /\ (rooms' # <<>> => call'.what = "gone")
  <2>1. Calls' = Calls
    BY DEF Calls, Idle, Gone
  <2> QED
    BY <2>1, CallsKnown DEF Idle, Gone, Awaiting
<1>2. Entering'
  BY <1>1 DEF Entering
<1> QED
  BY <1>1, <1>2 DEF TypeInv, Calling

LEMMA CallSame ==
  ASSUME TypeInv, UNCHANGED <<setting, rooms, call, pid>>, connected' \in BOOLEAN
  PROVE  Calling'
<1>1. Calls' = Calls
  BY DEF Calls, Idle, Gone
<1> QED
  BY <1>1 DEF TypeInv, Calling, Entering

LEMMA HandTypes ==
  ASSUME TypeInv, NEW op \in EventOps, NEW s \in Seq(Frames), Hand(op, s)
  PROVE  taken' \in [EventOps -> Seq(Nat)] /\ taken' = [taken EXCEPT ![op] = taken[op] \o Pids(s)]
<1>1. Pids(s) \in Seq(Nat) /\ taken[op] \in Seq(Nat) /\ taken \in [EventOps -> Seq(Nat)]
  BY PidsType DEF TypeInv, Records
<1>2. taken[op] \o Pids(s) \in Seq(Nat)
  BY <1>1, ConcatProperties
<1> QED
  BY <1>1, <1>2 DEF Hand

LEMMA BufferTypes ==
  ASSUME TypeInv, NEW f \in ClientFrames, Buffer(f)
  PROVE  Buffered'
<1>1. CASE f.op = "FLOOR_MBCP"
  BY <1>1, FrameKinds, AppendProperties DEF Buffer, TypeInv, Buffered
<1>2. CASE f.op # "FLOOR_MBCP"
  BY <1>2, FrameKinds, AppendProperties DEF Buffer, TypeInv, Buffered
<1> QED
  BY <1>1, <1>2

LEMMA HandleTypes ==
  ASSUME TypeInv, NEW f \in ClientFrames, NEW acks \in Seq(HubFrames), Handle(f, acks),
         UNCHANGED setting
  PROVE  to_hub' \in Seq(HubFrames) /\ Calling' /\ Buffered' /\ answer' \in Nat \X Nat
         /\ taken' \in [EventOps -> Seq(Nat)]
<1>t. /\ rooms \in {CreateJoin, Join, <<>>} /\ connected \in BOOLEAN
      /\ pid \in 1 .. setting.calls + 3 /\ setting.calls \in Nat /\ Entering
      /\ answer \in Nat \X Nat /\ taken \in [EventOps -> Seq(Nat)] /\ Buffered
  BY SettingType DEF TypeInv, Calling, Records
<1>e. \/ call.what \in {"hello", "identify"} /\ rooms # <<>> /\ pid + Len(rooms) <= 3
      \/ call.what = "request" /\ (rooms # <<>> => pid + Len(rooms) <= 4)
      \/ call.what \in {"nothing", "poll", "wait"} /\ rooms = <<>>
      \/ call.what = "gone"
  BY <1>t, CallShape DEF Entering, Whats
<1>1. CASE /\ call.what = "hello" /\ f.op = "HELLO"
           /\ call' = Awaiting("identify", "IDENTIFY_RESULT", 0)
           /\ Write(Append(acks, Msg("IDENTIFY", 0)))
           /\ UNCHANGED <<connected, rooms, pid, buffers, answer, taken>>
  <2>1. Msg("IDENTIFY", 0) \in HubFrames
    BY MsgType DEF HubFrames
  <2> DEFINE frames == Append(acks, Msg("IDENTIFY", 0))
  <2>2. frames \in Seq(HubFrames)
    BY <2>1
  <2>3. to_hub' \in Seq(HubFrames)
    BY <1>1, <2>2, Written
  <2>4. Calling'
    <3>1. Calls' = Calls
      BY DEF Calls, Idle, Gone
    <3>2. call' \in Calls' /\ call'.what = "identify"
      BY <1>1, <3>1, CallsKnown DEF Awaiting
    <3>3. Entering'
      BY <1>1, <1>e, <3>2 DEF Entering
    <3> QED
      BY <1>1, <3>2, <3>3 DEF TypeInv, Calling
  <2> QED
    BY <1>1, <1>t, <2>3, <2>4 DEF buffers, Buffered
<1>2. CASE /\ call.what = "identify" /\ f.op = "IDENTIFY_RESULT"
           /\ StartRequest(Head(rooms), acks)
           /\ UNCHANGED <<connected, rooms, buffers, answer, taken>>
  <2>1. Head(rooms) \in RequestOps /\ Len(rooms) \in Nat /\ Len(rooms) >= 1
    BY <1>2, <1>e, <1>t, Rooms DEF RequestOps
  <2>2. pid <= setting.calls + 2 /\ pid + Len(rooms) <= 3
    BY <1>2, <1>e, <1>t, <2>1
  <2> DEFINE op == Head(rooms)
  <2> HIDE DEF op
  <2>3. op \in RequestOps /\ StartRequest(op, acks)
    BY <1>2, <2>1 DEF op
  <2>4. to_hub' \in Seq(HubFrames) /\ Calling'
    BY <1>2, <1>t, <2>2, <2>3, RequestTypes
  <2> QED
    BY <1>2, <1>t, <2>4 DEF buffers, Buffered
<1>3. CASE call.what = "request" /\ Answers(f) /\ Returns(f, acks) /\ UNCHANGED <<buffers, taken>>
  <2>1. answer' \in Nat \X Nat
    <3>1. f.pid \in Nat /\ call.pid \in Nat
      BY <1>3, CallShape, FrameKinds DEF Frames
    <3> QED
      BY <1>3, <3>1 DEF Returns
  <2>2. ASSUME NEW left, left \in {Join, <<>>}, rooms # <<>> \/ left = <<>>,
               left # <<>> => pid + Len(left) <= 3, Proceed(left, acks)
        PROVE  to_hub' \in Seq(HubFrames) /\ Calling'
    <3>1. CASE left = <<>>
      <4>1. rooms' = <<>> /\ call' = Idle /\ Write(acks) /\ UNCHANGED <<pid, connected>>
        BY <2>2, <3>1 DEF Proceed
      <4> QED
        BY <4>1, <1>t, Written, CallTypes
    <3>2. CASE left # <<>>
      <4>1. rooms' = left /\ StartRequest(Head(left), acks) /\ UNCHANGED connected
        BY <2>2, <3>2 DEF Proceed
      <4>2. Head(left) \in RequestOps /\ Len(left) \in Nat /\ Len(left) >= 1
        BY <2>2, <3>2, Rooms DEF RequestOps
      <4>3. pid <= setting.calls + 2
        BY <1>t, <2>2, <3>2, <4>2
      <4> DEFINE op == Head(left)
      <4> HIDE DEF op
      <4>4. op \in RequestOps /\ StartRequest(op, acks)
        BY <4>1, <4>2 DEF op
      <4> QED
        BY <2>2, <4>1, <4>3, <4>4, RequestTypes
    <3> QED
      BY <3>1, <3>2
  <2>3. ASSUME Fail PROVE to_hub' \in Seq(HubFrames) /\ Calling'
    <3>1. call' = Gone /\ connected' = FALSE /\ to_hub' = <<>> /\ UNCHANGED <<rooms, pid>>
      BY <2>3 DEF Fail
    <3> QED
      BY <3>1, CallTypes, EmptySeq
  <2>4. rooms # <<>> => /\ Tail(rooms) \in {Join, <<>>}
                        /\ Tail(rooms) # <<>> => pid + Len(Tail(rooms)) <= 3
    BY <1>3, <1>t, <1>e, Rooms
  <2>5. to_hub' \in Seq(HubFrames) /\ Calling'
    BY <1>3, <2>2, <2>3, <2>4 DEF Returns
  <2> QED
    BY <1>3, <1>t, <2>1, <2>5 DEF buffers, Buffered
<1>4. CASE /\ call.what = "wait" /\ f.op = call.op
           /\ call' = Idle /\ Hand(f.op, <<f>>) /\ Write(acks)
           /\ UNCHANGED <<connected, rooms, pid, buffers, answer>>
  <2>1. rooms' = <<>>
    BY <1>4, <1>e
  <2>2. to_hub' \in Seq(HubFrames) /\ Calling'
    BY <1>4, <1>t, <2>1, Written, CallTypes
  <2>3. f.op \in EventOps /\ <<f>> \in Seq(Frames)
    BY <1>4, CallShape DEF EventOps, Frames
  <2> DEFINE op == f.op
             one == <<f>>
  <2>5. op \in EventOps /\ one \in Seq(Frames) /\ Hand(op, one)
    BY <1>4, <2>3
  <2> HIDE DEF op, one
  <2>4. taken' \in [EventOps -> Seq(Nat)]
    BY <2>5, HandTypes
  <2> QED
    BY <1>4, <1>t, <2>2, <2>4 DEF buffers, Buffered
<1>5. CASE /\ Buffer(f) /\ Write(acks)
           /\ UNCHANGED <<connected, rooms, call, pid, answer, taken>>
  BY <1>5, <1>t, Written, CallSame, BufferTypes
<1> QED
  BY <1>1, <1>2, <1>3, <1>4, <1>5 DEF Handle

LEMMA HubTakes ==
  ASSUME TypeInv, HubTake
  PROVE  LET f == Head(to_hub)
         IN  /\ connected /\ f \in HubFrames /\ to_hub # <<>> /\ to_hub' = Tail(to_hub)
             /\ to_hub' \in Seq(HubFrames)
             /\ UNCHANGED <<connected, rooms, call, acking, pid, buffers, events, answer, taken>>
             /\ \/ /\ f \in Asking /\ UNCHANGED acked
                   /\ \E g \in Answering : /\ Reply(g) /\ g.pid \in {0, f.pid}
                                           /\ f.op = "IDENTIFY" => g = Msg("IDENTIFY_RESULT", 0)
                                           /\ f.op # "IDENTIFY" => g.pid = f.pid
                                           /\ f.op # "IDENTIFY" => g.op \in {f.op, "ERROR"}
                \/ /\ f \in AckFrames /\ acked' = Append(acked, f.pid) /\ UNCHANGED to_client
                \/ /\ f \in FloorFrames /\ UNCHANGED acked
                   /\ \/ UNCHANGED to_client
                      \/ setting.rejectsFloor /\ \E g \in Answering : Reply(g)
             /\ identified' \in BOOLEAN
<1> DEFINE f == Head(to_hub)
<1>1. /\ connected /\ to_hub # <<>> /\ to_hub' = Tail(to_hub)
      /\ UNCHANGED <<connected, rooms, call, acking, pid, buffers, events, answer, taken>>
  BY DEF HubTake
<1>2. f \in HubFrames /\ to_hub' \in Seq(HubFrames)
  BY <1>1, HeadAndTail DEF TypeInv, Wires
<1>3. \/ f.op = "IDENTIFY" /\ identified' = TRUE /\ Reply(Msg("IDENTIFY_RESULT", 0)) /\ UNCHANGED acked
      \/ f.ack # "msg" /\ acked' = Append(acked, f.pid) /\ UNCHANGED <<identified, to_client>>
      \/ /\ f.op = "FLOOR_MBCP"
         /\ \/ UNCHANGED to_client
            \/ setting.rejectsFloor /\ Reply(Msg("ERROR", f.pid))
         /\ UNCHANGED <<identified, acked>>
      \/ /\ f.ack = "msg" /\ f.op \notin {"IDENTIFY", "FLOOR_MBCP"}
         /\ \/ Reply(Ack(f.op, f.pid, "ok"))
            \/ Reply(Ack(f.op, f.pid, "fail"))
            \/ Reply(Msg("ERROR", f.pid))
         /\ UNCHANGED <<identified, acked>>
  BY DEF HubTake
<1> HIDE DEF f
<1>4. identified' \in BOOLEAN
  BY <1>3 DEF TypeInv, Records
<1>5. f.pid \in Nat 
  BY <1>2, FrameKinds DEF Frames
<1>6. /\ f.op = "IDENTIFY" => f \in Asking
      /\ f.ack # "msg" => f \in AckFrames
      /\ f.op = "FLOOR_MBCP" => f \in FloorFrames
      /\ f.ack = "msg" /\ f.op \notin {"IDENTIFY", "FLOOR_MBCP"} =>
           f \in Asking /\ f.op \in RequestOps
  BY <1>2
  DEF HubFrames, FloorFrames, Asking, AckFrames, Msgs, Acks, AckedOps, FloorOps, RequestOps,
      RoomOps, BotOps
<1>7. Msg("IDENTIFY_RESULT", 0) \in Answering /\ Msg("IDENTIFY_RESULT", 0).pid = 0
  BY DEF Answering, Msgs, Msg, Greetings
<1>8. Msg("ERROR", f.pid) \in Answering /\ Msg("ERROR", f.pid).pid = f.pid
      /\ Msg("ERROR", f.pid).op = "ERROR"
  BY <1>5 DEF Answering, Msgs, Msg, Greetings
<1>9. ASSUME f.op \in RequestOps, NEW state \in {"ok", "fail"}
      PROVE  Ack(f.op, f.pid, state) \in Answering /\ Ack(f.op, f.pid, state).pid = f.pid
             /\ Ack(f.op, f.pid, state).op = f.op
  BY <1>5, <1>9 DEF Answering, Acks, Ack
<1>10. \/ /\ f \in Asking /\ UNCHANGED acked
          /\ \E g \in Answering : /\ Reply(g) /\ g.pid \in {0, f.pid}
                                  /\ f.op = "IDENTIFY" => g = Msg("IDENTIFY_RESULT", 0)
                                  /\ f.op # "IDENTIFY" => g.pid = f.pid
                                  /\ f.op # "IDENTIFY" => g.op \in {f.op, "ERROR"}
       \/ /\ f \in AckFrames /\ acked' = Append(acked, f.pid) /\ UNCHANGED to_client
       \/ /\ f \in FloorFrames /\ UNCHANGED acked
          /\ \/ UNCHANGED to_client
             \/ setting.rejectsFloor /\ \E g \in Answering : Reply(g)
  <2>1. CASE f.op = "IDENTIFY" /\ Reply(Msg("IDENTIFY_RESULT", 0)) /\ UNCHANGED acked
    BY <1>6, <1>7, <2>1
  <2>2. CASE f.ack # "msg" /\ acked' = Append(acked, f.pid) /\ UNCHANGED to_client
    BY <1>6, <2>2
  <2>3. CASE /\ f.op = "FLOOR_MBCP"
             /\ \/ UNCHANGED to_client
                \/ setting.rejectsFloor /\ Reply(Msg("ERROR", f.pid))
             /\ UNCHANGED acked
    BY <1>6, <1>8, <2>3
  <2>4. CASE /\ f.ack = "msg" /\ f.op \notin {"IDENTIFY", "FLOOR_MBCP"}
             /\ \/ Reply(Ack(f.op, f.pid, "ok"))
                \/ Reply(Ack(f.op, f.pid, "fail"))
                \/ Reply(Msg("ERROR", f.pid))
             /\ UNCHANGED acked
    <3>1. \E g \in Answering : Reply(g) /\ g.pid = f.pid /\ g.op \in {f.op, "ERROR"}
      BY <1>6, <1>8, <1>9, <2>4
    <3> QED
      BY <1>6, <2>4, <3>1
  <2> QED
    BY <1>3, <2>1, <2>2, <2>3, <2>4
<1> QED
  BY <1>1, <1>2, <1>4, <1>10 DEF f

LEMMA Replied ==
  ASSUME TypeInv, NEW g \in ClientFrames, Reply(g)
  PROVE  to_client' \in Seq(ClientFrames)
BY AppendProperties DEF Reply, TypeInv, Wires

LEMMA HubTakeTypes ==
  ASSUME TypeInv, HubTake, UNCHANGED setting
  PROVE  TypeInv'
<1> DEFINE f == Head(to_hub)
<1>1. /\ f \in HubFrames /\ to_hub' \in Seq(HubFrames)
      /\ UNCHANGED <<connected, rooms, call, acking, pid, buffers, events, answer, taken>>
      /\ identified' \in BOOLEAN
      /\ UNCHANGED acked \/ acked' = Append(acked, f.pid)
      /\ UNCHANGED to_client \/ \E g \in Answering : Reply(g)
  BY HubTakes
<1> HIDE DEF f
<1>2. to_client' \in Seq(ClientFrames)
  <2>1. Answering \subseteq ClientFrames
    BY FrameKinds
  <2> QED
    BY <1>1, <2>1, Replied DEF TypeInv, Wires
<1>3. acked' \in Seq(Nat)
  <2>1. f.pid \in Nat
    BY <1>1, FrameKinds DEF Frames
  <2>2. acked \in Seq(Nat)
    BY DEF TypeInv, Records
  <2>3. Append(acked, f.pid) \in Seq(Nat)
    BY <2>1, <2>2, AppendProperties
  <2> QED
    BY <1>1, <2>2, <2>3
<1>4. Calling'
  BY <1>1, CallSame DEF TypeInv, Calling
<1> QED
  BY <1>1, <1>2, <1>3, <1>4 DEF TypeInv, Wires, Buffered, Records, buffers

LEMMA HubEventFacts ==
  ASSUME TypeInv, NEW op \in EventOps, HubEvent(op)
  PROVE  LET f == Msg(op, Len(events) + 1)
         IN  /\ f \in Msgs(EventOps) /\ f \in ClientFrames /\ f \in Frames
             /\ f.op = op /\ f.pid = Len(events) + 1 /\ f.ack = "msg"
             /\ events' = Append(events, f) /\ to_client' = Append(to_client, f)
             /\ connected
             /\ UNCHANGED <<connected, to_hub, rooms, call, acking, pid, buffers, identified,
                            acked, answer, taken>>
<1> DEFINE f == Msg(op, Len(events) + 1)
<1>1. Len(events) + 1 \in Nat
  BY DEF TypeInv, Records
<1>2. /\ f \in Msgs(EventOps) /\ f.op = op /\ f.pid = Len(events) + 1 /\ f.ack = "msg"
  BY <1>1, MsgType
<1>3. f \in ClientFrames /\ f \in Frames
  BY <1>2 DEF ClientFrames, Frames, Msgs
<1> QED
  BY <1>2, <1>3 DEF HubEvent, Reply

LEMMA HubEventTypes ==
  ASSUME TypeInv, NEW op \in EventOps, HubEvent(op), UNCHANGED setting
  PROVE  TypeInv'
<1> DEFINE f == Msg(op, Len(events) + 1)
<1>1. /\ f \in Msgs(EventOps) /\ f \in ClientFrames
      /\ events' = Append(events, f) /\ to_client' = Append(to_client, f)
      /\ UNCHANGED <<connected, to_hub, rooms, call, acking, pid, buffers, identified,
                     acked, answer, taken>>
  BY HubEventFacts
<1> HIDE DEF f
<1>2. events' \in Seq(Msgs(EventOps)) /\ to_client' \in Seq(ClientFrames)
  BY <1>1, AppendProperties DEF TypeInv, Wires, Records
<1>3. Calling'
  BY <1>1, CallSame DEF TypeInv, Calling
<1> QED
  BY <1>1, <1>2, <1>3 DEF TypeInv, Wires, Buffered, Records, buffers

\* The connection is gone, and what was written with it.
LEMMA DropTypes ==
  ASSUME TypeInv, HubDrop \/ Close, UNCHANGED setting
  PROVE  TypeInv'
<1>1. to_hub' \in Seq(HubFrames)
  BY EmptySeq DEF HubDrop, Close
<1>2. Calling'
  <2>1. CASE HubDrop
    BY <2>1, CallSame DEF HubDrop
  <2>2. CASE Close
    BY <2>2, CallTypes DEF Close
  <2> QED
    BY <2>1, <2>2
<1> QED
  BY <1>1, <1>2 DEF HubDrop, Close, TypeInv, Wires, Buffered, Records, buffers, hub

LEMMA RequestStep ==
  ASSUME TypeInv, NEW op \in BotOps, Request(op), UNCHANGED setting
  PROVE  TypeInv' /\ call'.what = "request" /\ call'.pid = pid /\ call'.op = op
<1>1. /\ StartRequest(op, <<>>) /\ rooms = <<>> /\ pid < setting.calls
      /\ UNCHANGED <<connected, to_client, rooms, acking, buffers, hub, answer, taken>>
  BY DEF Request, Joined
<1>2. pid <= setting.calls + 2
  BY <1>1, SettingType DEF TypeInv, Calling
<1>3. op \in RequestOps /\ <<>> \in Seq(HubFrames)
  BY EmptySeq DEF RequestOps
<1>4. to_hub' \in Seq(HubFrames) /\ Calling' /\ call'.what = "request" /\ call'.pid = pid
      /\ call'.op = op
  BY <1>1, <1>2, <1>3, RequestTypes
<1> QED
  BY <1>1, <1>4 DEF TypeInv, Wires, Buffered, Records, buffers, hub

LEMMA FloorStep ==
  ASSUME TypeInv, SendFloorMbcp, UNCHANGED setting
  PROVE  TypeInv'
<1>1. /\ rooms = <<>> /\ call = Idle /\ pid < setting.calls /\ pid' = pid + 1
      /\ Write(<<Msg("FLOOR_MBCP", pid)>>)
      /\ UNCHANGED <<connected, to_client, rooms, call, acking, buffers, hub, answer, taken>>
  BY DEF SendFloorMbcp, Joined
<1>2. pid \in 1 .. setting.calls + 3 /\ setting.calls \in Nat
  BY SettingType DEF TypeInv, Calling
<1>3. Msg("FLOOR_MBCP", pid) \in HubFrames
  BY <1>2 DEF HubFrames, Msg, Msgs, FloorOps
<1> DEFINE one == <<Msg("FLOOR_MBCP", pid)>>
<1>4. one \in Seq(HubFrames)
  BY <1>3
<1>5. to_hub' \in Seq(HubFrames)
  BY <1>1, <1>4, Written
<1>6. Calling'
  <2>1. Calls' = Calls
    BY DEF Calls, Idle, Gone
  <2>2. call.what = "nothing"
    BY <1>1 DEF Idle, Awaiting
  <2> QED
    BY <1>1, <1>2, <2>1, <2>2 DEF TypeInv, Calling, Entering
<1> QED
  BY <1>1, <1>5, <1>6 DEF TypeInv, Wires, Buffered, Records, buffers, hub

LEMMA BufferedFrames ==
  ASSUME TypeInv
  PROVE  /\ event_buf \in Seq(Frames) /\ floor_mbcp_buf \in Seq(Frames)
         /\ to_client \in Seq(Frames) /\ to_hub \in Seq(Frames)
         /\ Held \in Seq(Frames) /\ events \in Seq(Frames)
<1>1. Events \cup Answering \subseteq Frames /\ FloorFrames \subseteq Frames
      /\ ClientFrames \subseteq Frames /\ HubFrames \subseteq Frames
      /\ Msgs(EventOps) \subseteq Frames
  <2>1. Msgs(EventOps) \subseteq ClientFrames
    BY DEF Msgs, ClientFrames
  <2> QED
    BY <2>1, FrameKinds DEF Frames
<1>2. Held \in Seq(Frames)
  <2>1. CASE acking = NoFrame
    BY <2>1, EmptySeq DEF Held
  <2>2. CASE acking # NoFrame
    <3>1. acking \in Frames
      BY <1>1, <2>2 DEF TypeInv, Wires
    <3> QED
      BY <2>2, <3>1 DEF Held
  <2> QED
    BY <2>1, <2>2
<1> QED
  BY <1>1, <1>2, SeqMonotonic DEF TypeInv, Wires, Buffered, Records

LEMMA DrainTypes ==
  ASSUME TypeInv, NEW op \in AckedOps, DrainAllEvents(op), UNCHANGED setting
  PROVE  TypeInv'
<1> DEFINE S == Of(op)
           T == ClientFrames \ Of(op)
           B == Events \cup Answering
<1>1. /\ Hand(op, Sift(event_buf, S)) /\ event_buf' = Sift(event_buf, T)
      /\ UNCHANGED <<connected, to_hub, to_client, rooms, call, acking, pid,
                     floor_mbcp_buf, hub, answer>>
  BY DEF DrainAllEvents
<1>2. event_buf \in Seq(B) /\ event_buf \in Seq(Frames)
  BY BufferedFrames DEF TypeInv, Buffered
<1> HIDE DEF S, T, B
<1>3. Sift(event_buf, T) \in Seq(B \cap T) /\ Sift(event_buf, S) \in Seq(Frames)
  BY <1>2, SiftType, PidsOfType
<1>4. event_buf' \in Seq(B)
  BY <1>1, <1>3, SeqMonotonic
<1>5. op \in EventOps
  BY DEF EventOps
<1> DEFINE s == Sift(event_buf, S)
<1>8. s \in Seq(Frames) /\ Hand(op, s)
  BY <1>1, <1>3
<1> HIDE DEF s
<1>6. taken' \in [EventOps -> Seq(Nat)]
  BY <1>5, <1>8, HandTypes
<1>7. Calling'
  BY <1>1, CallSame DEF TypeInv, Calling
<1> QED
  BY <1>1, <1>4, <1>6, <1>7 DEF TypeInv, Wires, Buffered, Records, hub, B

LEMMA DrainFloorTypes ==
  ASSUME TypeInv, DrainFloorMbcp, UNCHANGED setting
  PROVE  TypeInv'
<1>1. /\ Hand("FLOOR_MBCP", floor_mbcp_buf) /\ floor_mbcp_buf' = <<>>
      /\ UNCHANGED <<connected, to_hub, to_client, rooms, call, acking, pid, event_buf,
                     hub, answer>>
  BY DEF DrainFloorMbcp
<1>2. "FLOOR_MBCP" \in EventOps
  BY DEF EventOps, FloorOps
<1>3. taken' \in [EventOps -> Seq(Nat)]
  BY <1>1, <1>2, BufferedFrames, HandTypes
<1>4. Calling'
  BY <1>1, CallSame DEF TypeInv, Calling
<1> QED
  BY <1>1, <1>3, <1>4, EmptySeq DEF TypeInv, Wires, Buffered, Records, hub

\* The n-th frame of a sequence, and what is before and after it.
LEMMA Within ==
  ASSUME NEW M, NEW s \in Seq(M), NEW n \in 1 .. Len(s)
  PROVE  /\ s[n] \in M /\ <<s[n]>> \in Seq(M)
         /\ SubSeq(s, 1, n - 1) \in Seq(M) /\ SubSeq(s, n + 1, Len(s)) \in Seq(M)
         /\ SubSeq(s, 1, n - 1) \o SubSeq(s, n + 1, Len(s)) \in Seq(M)
         /\ (SubSeq(s, 1, n - 1) \o <<s[n]>>) \o SubSeq(s, n + 1, Len(s)) = s
<1> DEFINE a == SubSeq(s, 1, n - 1)
           b == SubSeq(s, n + 1, Len(s))
           one == <<s[n]>>
           c == SubSeq(s, 1, n)
<1>1. Len(s) \in Nat /\ n \in Nat /\ n - 1 \in 0 .. Len(s) /\ n \in 0 .. Len(s)
  BY LenProperties
<1>2. b \in Seq(M) /\ c \in Seq(M) /\ c \o b = s
  BY <1>1, Cut
<1>3. a \in Seq(M)
  BY <1>1, Cut
<1>4. s[n] \in M
  BY ElementOfSeq
<1>5. one \in Seq(M)
  BY <1>4
<1>6. c = a \o one
  <2>1. Len(c) = n /\ \A i \in 1 .. n : c[i] = s[i]
    BY <1>1, SubSeqProperties
  <2>2. Len(a) = n - 1 /\ \A i \in 1 .. n - 1 : a[i] = s[i]
    BY <1>1, SubSeqProperties
  <2>3. Len(one) = 1 /\ one[1] = s[n]
    OBVIOUS
  <2> DEFINE ao == a \o one
  <2> HIDE DEF a, c, one
  <2>4. /\ ao \in Seq(M) /\ Len(ao) = Len(a) + Len(one)
        /\ \A i \in 1 .. Len(a) + Len(one) :
             ao[i] = IF i <= Len(a) THEN a[i] ELSE one[i - Len(a)]
    BY <1>3, <1>5, ConcatProperties
  <2> HIDE DEF ao
  <2>5. Len(ao) = n /\ \A i \in 1 .. n : ao[i] = IF i <= n - 1 THEN a[i] ELSE one[i - (n - 1)]
    BY <1>1, <2>2, <2>3, <2>4
  <2>6. ASSUME NEW i \in 1 .. n PROVE c[i] = ao[i]
    <3>1. CASE i = n
      BY <1>1, <2>1, <2>3, <2>5, <3>1
    <3>2. CASE i # n
      BY <1>1, <2>1, <2>2, <2>5, <3>2
    <3> QED
      BY <3>1, <3>2
  <2>7. c = ao
    BY <1>2, <2>1, <2>4, <2>5, <2>6, SeqEqual
  <2> QED
    BY <2>7 DEF ao
<1> HIDE DEF a, b, c, one
<1>7. a \o b \in Seq(M)
  BY <1>2, <1>3, ConcatProperties
<1>8. (a \o one) \o b = s
  BY ONLY <1>2, <1>6, Zenon
<1> QED
  BY <1>2, <1>3, <1>4, <1>5, <1>7, <1>8 DEF a, b, one

LEMMA WaitTypes ==
  ASSUME TypeInv, NEW op \in AckedOps, WaitEvent(op), UNCHANGED setting
  PROVE  TypeInv'
<1> DEFINE B == Events \cup Answering
<1>1. /\ call = Idle /\ rooms = <<>>
      /\ UNCHANGED <<connected, to_hub, to_client, rooms, acking, pid, floor_mbcp_buf,
                     hub, answer>>
  BY DEF WaitEvent, Joined
<1>2. event_buf \in Seq(B) /\ event_buf \in Seq(Frames)
  BY BufferedFrames DEF TypeInv, Buffered
<1> HIDE DEF B
<1>3. ASSUME NEW n \in 1 .. Len(event_buf),
             Hand(op, <<event_buf[n]>>), UNCHANGED call,
             event_buf' = SubSeq(event_buf, 1, n - 1) \o SubSeq(event_buf, n + 1, Len(event_buf))
      PROVE  TypeInv'
  <2>1. event_buf' \in Seq(B)
    BY <1>2, <1>3, Within
  <2> DEFINE one == <<event_buf[n]>>
  <2>2. one \in Seq(Frames) /\ Hand(op, one)
    BY <1>2, <1>3, Within
  <2>3. op \in EventOps
    BY DEF EventOps
  <2> HIDE DEF one
  <2>4. taken' \in [EventOps -> Seq(Nat)]
    BY <2>2, <2>3, HandTypes
  <2>5. Calling'
    BY <1>1, <1>3, CallSame DEF TypeInv, Calling
  <2> QED
    BY <1>1, <2>1, <2>4, <2>5 DEF TypeInv, Wires, Buffered, Records, hub, B
<1>4. ASSUME call' = Awaiting("wait", op, 0), UNCHANGED <<event_buf, taken>>
      PROVE  TypeInv'
  <2>1. Calling'
    BY <1>1, <1>4, CallTypes DEF TypeInv, Calling
  <2> QED
    BY <1>1, <1>4, <2>1 DEF TypeInv, Wires, Buffered, Records, hub
<1> QED
  BY <1>3, <1>4 DEF WaitEvent

\* Calls that begin or end with nothing read.
LEMMA PollTypes ==
  ASSUME TypeInv, PollEvents \/ TimeUp \/ TimeUpInAck \/ Lost, UNCHANGED setting
  PROVE  TypeInv'
<1>1. UNCHANGED <<connected, to_client, rooms, pid, buffers, hub, answer, taken>>
  BY DEF PollEvents, TimeUp, TimeUpInAck, Lost
<1>2. Calling'
  <2>1. ASSUME PollEvents PROVE Calling'
    BY <1>1, <2>1, CallTypes DEF PollEvents, Joined, TypeInv, Calling
  <2>2. ASSUME TimeUp \/ TimeUpInAck PROVE Calling'
    <3>1. rooms = <<>> /\ call' = Idle
      BY <2>2 DEF TimeUp, TimeUpInAck, TypeInv, Calling, Entering
    <3> QED
      BY <1>1, <3>1, CallTypes DEF TypeInv, Calling
  <2>3. ASSUME Lost PROVE Calling'
    <3>1. call' = IF rooms # <<>> THEN Gone ELSE Idle
      BY <2>3 DEF Lost
    <3> QED
      BY <1>1, <3>1, CallTypes DEF TypeInv, Calling
  <2> QED
    BY <2>1, <2>2, <2>3
<1>3. Wires'
  <2>1. ASSUME TimeUpInAck PROVE to_hub' \in Seq(HubFrames) /\ acking' = NoFrame
    <3>1. acking \in Events /\ acking' = NoFrame
          /\ (UNCHANGED to_hub \/ Write(<<Ack(acking.op, acking.pid, "ok")>>))
      BY <2>1 DEF TimeUpInAck, TypeInv, Wires
    <3>2. Ack(acking.op, acking.pid, "ok") \in HubFrames
      BY <3>1 DEF Events, Msgs, Ack, Acks, HubFrames
    <3> DEFINE one == <<Ack(acking.op, acking.pid, "ok")>>
    <3>3. one \in Seq(HubFrames)
      BY <3>2
    <3> HIDE DEF one
    <3>4. UNCHANGED to_hub \/ Write(one)
      BY <3>1 DEF one
    <3> QED
      BY <3>1, <3>3, <3>4, Written DEF TypeInv, Wires
  <2> QED
    BY <1>1, <2>1 DEF PollEvents, TimeUp, Lost, TypeInv, Wires
<1> QED
  BY <1>1, <1>2, <1>3 DEF TypeInv, Buffered, Records, hub, buffers

LEMMA ReceiveFacts ==
  ASSUME TypeInv, Receive
  PROVE  LET f == Head(to_client)
         IN  /\ f \in ClientFrames /\ f \in Frames /\ to_client # <<>>
             /\ to_client' = Tail(to_client) /\ to_client' \in Seq(ClientFrames)
             /\ Waiting /\ acking = NoFrame /\ UNCHANGED hub
             /\ \/ /\ f \in Events /\ acking' = f
                   /\ UNCHANGED <<connected, to_hub, rooms, call, pid, buffers, answer, taken>>
                \/ f \notin Events /\ Handle(f, <<>>) /\ UNCHANGED acking
<1> DEFINE f == Head(to_client)
<1>1. to_client # <<>> /\ to_client' = Tail(to_client) /\ Waiting /\ acking = NoFrame
      /\ UNCHANGED hub
  BY DEF Receive
<1>2. f \in ClientFrames /\ to_client' \in Seq(ClientFrames) /\ f \in Frames
  BY <1>1, HeadAndTail DEF TypeInv, Wires, Frames
<1>3. f \in Events <=> NeedsAck(f)
  BY <1>2, FrameKinds
<1> QED
  BY <1>1, <1>2, <1>3 DEF Receive

LEMMA SendAckFacts ==
  ASSUME TypeInv, SendAck
  PROVE  LET one == <<Ack(acking.op, acking.pid, "ok")>>
         IN  /\ acking \in Events /\ acking \in ClientFrames /\ acking \in Frames
             /\ one \in Seq(HubFrames) /\ Handle(acking, one)
             /\ acking' = NoFrame /\ UNCHANGED <<to_client, hub>>
             /\ Ack(acking.op, acking.pid, "ok") \in AckFrames
             /\ Ack(acking.op, acking.pid, "ok").pid = acking.pid
<1>1. /\ acking # NoFrame /\ Handle(acking, <<Ack(acking.op, acking.pid, "ok")>>)
      /\ acking' = NoFrame /\ UNCHANGED <<to_client, hub>>
  BY DEF SendAck
<1>2. acking \in Events /\ acking \in ClientFrames /\ acking \in Frames
  BY <1>1, FrameKinds DEF TypeInv, Wires, Frames
<1>3. Ack(acking.op, acking.pid, "ok") \in AckFrames
      /\ Ack(acking.op, acking.pid, "ok").pid = acking.pid
  BY <1>2 DEF Events, Msgs, Ack, Acks, AckFrames
<1>4. Ack(acking.op, acking.pid, "ok") \in HubFrames
  BY <1>3, FrameKinds
<1>5. <<Ack(acking.op, acking.pid, "ok")>> \in Seq(HubFrames)
  BY <1>4
<1> QED
  BY <1>1, <1>2, <1>3, <1>5

LEMMA ReceiveTypes ==
  ASSUME TypeInv, Receive \/ SendAck, UNCHANGED setting
  PROVE  TypeInv'
<1>1. ASSUME NEW f \in ClientFrames, NEW acks \in Seq(HubFrames), Handle(f, acks), UNCHANGED hub,
             to_client' \in Seq(ClientFrames), acking' \in Events \cup {NoFrame}
      PROVE  TypeInv'
  <2>1. /\ to_hub' \in Seq(HubFrames) /\ Calling' /\ Buffered' /\ answer' \in Nat \X Nat
        /\ taken' \in [EventOps -> Seq(Nat)]
    BY <1>1, HandleTypes
  <2> QED
    BY <1>1, <2>1 DEF TypeInv, Wires, Records, hub
<1>2. ASSUME Receive PROVE TypeInv'
  <2> DEFINE f == Head(to_client)
  <2>1. /\ f \in ClientFrames /\ to_client' \in Seq(ClientFrames) /\ acking = NoFrame
        /\ UNCHANGED hub
        /\ \/ /\ f \in Events /\ acking' = f
              /\ UNCHANGED <<connected, to_hub, rooms, call, pid, buffers, answer, taken>>
           \/ f \notin Events /\ Handle(f, <<>>) /\ UNCHANGED acking
    BY <1>2, ReceiveFacts
  <2> HIDE DEF f
  <2>2. <<>> \in Seq(HubFrames)
    BY EmptySeq
  <2>3. CASE /\ f \in Events /\ acking' = f
             /\ UNCHANGED <<connected, to_hub, rooms, call, pid, buffers, answer, taken>>
    <3>1. Calling'
      BY <2>3, CallSame DEF TypeInv, Calling
    <3> QED
      BY <2>1, <2>3, <3>1 DEF TypeInv, Wires, Buffered, Records, buffers, hub
  <2>4. CASE f \notin Events /\ Handle(f, <<>>) /\ UNCHANGED acking
    BY <1>1, <2>1, <2>2, <2>4
  <2> QED
    BY <2>1, <2>3, <2>4
<1>3. ASSUME SendAck PROVE TypeInv'
  <2> DEFINE one == <<Ack(acking.op, acking.pid, "ok")>>
  <2>1. /\ acking \in ClientFrames /\ one \in Seq(HubFrames) /\ Handle(acking, one)
        /\ acking' = NoFrame /\ UNCHANGED <<to_client, hub>>
    BY <1>3, SendAckFacts
  <2> HIDE DEF one
  <2> QED
    BY <1>1, <2>1 DEF TypeInv, Wires
<1> QED
  BY <1>2, <1>3

LEMMA TypeStep ==
  ASSUME TypeInv, [Next /\ UNCHANGED setting]_<<vars, setting>>
  PROVE  TypeInv'
<1>0. UNCHANGED setting
  OBVIOUS
<1>1. ASSUME UNCHANGED vars PROVE TypeInv'
  <2>1. UNCHANGED <<connected, to_hub, to_client, rooms, call, acking, pid, event_buf,
                    floor_mbcp_buf, identified, events, acked, answer, taken>>
    BY <1>1 DEF vars, buffers, hub
  <2>2. Calling'
    BY <1>0, <2>1, CallSame DEF TypeInv, Calling
  <2> QED
    BY <2>1, <2>2 DEF TypeInv, Wires, Buffered, Records
<1>2. ASSUME HubTake \/ HubDrop \/ \E op \in EventOps : HubEvent(op) PROVE TypeInv'
  BY <1>0, <1>2, HubTakeTypes, HubEventTypes, DropTypes
<1>3. ASSUME SendFloorMbcp \/ Close \/ \E op \in BotOps : Request(op) PROVE TypeInv'
  BY <1>0, <1>3, FloorStep, DropTypes, RequestStep
<1>4. ASSUME DrainFloorMbcp \/ \E op \in AckedOps : DrainAllEvents(op) \/ WaitEvent(op) PROVE TypeInv'
  BY <1>0, <1>4, DrainFloorTypes, DrainTypes, WaitTypes
<1>5. ASSUME PollEvents \/ TimeUp \/ TimeUpInAck \/ Lost \/ Receive \/ SendAck PROVE TypeInv'
  BY <1>0, <1>5, PollTypes, ReceiveTypes
<1> QED
  BY <1>1, <1>2, <1>3, <1>4, <1>5 DEF Next


-----------------------------------------------------------------------------
(***************************************************************************)
(* The exchange of requests and answers.                                   *)
(***************************************************************************)

Questions == Sift(to_hub, Asking)
Replies == Sift(to_client, Answering)

\* The question of a call, and whether f can be the answer to it.
Question(c) == Msg(IF c.what = "identify" THEN "IDENTIFY" ELSE c.op, c.pid)
Expected(f) ==
  /\ f.pid = call.pid
  /\ \/ call.what \in {"hello", "identify"} /\ f.op = call.op
     \/ call.what = "request" /\ f.op \in {call.op, "ERROR"}

\* At most one frame of an exchange is under way, and the session waits for it.
Quiet == Questions = <<>> /\ Replies = <<>>
Asks == /\ call.what \in {"identify", "request"}
        /\ Questions = <<Question(call)>> /\ Replies = <<>>
Answered == Questions = <<>> /\ \E f \in Answering : Replies = <<f>> /\ Expected(f)

Exchange == Quiet \/ Asks \/ Answered

Closed == connected \/ to_hub = <<>>

AnswerInv == Exchange /\ Closed /\ Own /\ event_buf \in Seq(Events)

\* What a call does with a frame: it hands it to the bot, buffers it, or takes
\* it for the answer and ends, fails or asks the next question.
HandsOut(f, acks) ==
  /\ call.what = "wait" /\ f.op = call.op /\ call' = Idle
  /\ Hand(f.op, <<f>>) /\ Write(acks) /\ UNCHANGED <<connected, buffers, answer>>

PutsAway(f, acks) ==
  /\ Buffer(f) /\ Write(acks) /\ (f \in Answering => ~Expected(f))
  /\ call.what = "wait" => f.op # call.op
  /\ UNCHANGED <<connected, call, answer, taken>>

Concludes(f, acks) ==
  /\ f \in Answering /\ call.what \in {"hello", "identify", "request"} /\ call'.what # "wait"
  /\ answer' \in {answer, <<call.pid, f.pid>>} /\ UNCHANGED <<buffers, taken>>
  /\ \/ connected' = FALSE /\ to_hub' = <<>>
     \/ Write(acks) /\ UNCHANGED connected
     \/ /\ call'.what \in {"identify", "request"} /\ Question(call') \in Asking
        /\ Write(Append(acks, Question(call'))) /\ UNCHANGED connected

LEMMA StartQuestion ==
  ASSUME TypeInv, NEW op \in RequestOps, NEW acks, StartRequest(op, acks)
  PROVE  /\ call'.what = "request" /\ Question(call') \in Asking
         /\ Write(Append(acks, Question(call')))
<1>1. call' = Awaiting("request", op, pid) /\ Write(Append(acks, Msg(op, pid)))
  BY DEF StartRequest
<1>2. call'.what = "request" /\ Question(call') = Msg(op, pid)
  BY <1>1 DEF Question, Awaiting
<1>3. Msg(op, pid) \in Asking
  BY DEF Msg, Msgs, Asking, TypeInv, Calling
<1> QED
  BY <1>1, <1>2, <1>3

LEMMA HandleCases ==
  ASSUME TypeInv, NEW f \in ClientFrames, NEW acks, Handle(f, acks)
  PROVE  HandsOut(f, acks) \/ PutsAway(f, acks) \/ Concludes(f, acks)
<1>a. f \in Answering <=> f.op \notin EventOps
  BY FrameKinds
<1>o. "HELLO" \notin EventOps /\ "IDENTIFY_RESULT" \notin EventOps /\ "ERROR" \notin EventOps
      /\ \A op \in RequestOps : op \notin EventOps
  BY DEF EventOps, AckedOps, FloorOps, RequestOps, RoomOps, BotOps
<1>r. /\ rooms \in {CreateJoin, Join, <<>>}
      /\ call.what = "request" => call.op \in RequestOps
      /\ call.what = "identify" => rooms # <<>> /\ call.op = "IDENTIFY_RESULT"
  BY CallShape DEF TypeInv, Calling, Entering
<1>n. ASSUME NEW left \in {CreateJoin, Join}, StartRequest(Head(left), acks)
      PROVE  /\ call'.what = "request" /\ Question(call') \in Asking
             /\ Write(Append(acks, Question(call')))
  <2> DEFINE op == Head(left)
  <2>1. op \in RequestOps /\ StartRequest(op, acks)
    BY <1>n, Rooms DEF RequestOps
  <2> HIDE DEF op
  <2> QED
    BY <2>1, StartQuestion
<1>1. CASE /\ call.what = "hello" /\ f.op = "HELLO"
           /\ call' = Awaiting("identify", "IDENTIFY_RESULT", 0)
           /\ Write(Append(acks, Msg("IDENTIFY", 0)))
           /\ UNCHANGED <<connected, rooms, pid, buffers, answer, taken>>
  <2>1. call'.what = "identify" /\ Question(call') = Msg("IDENTIFY", 0)
    BY <1>1 DEF Question, Awaiting
  <2>2. Msg("IDENTIFY", 0) \in Asking
    BY DEF Msg, Msgs, Asking
  <2> QED
    BY <1>1, <1>a, <1>o, <2>1, <2>2 DEF Concludes
<1>2. CASE /\ call.what = "identify" /\ f.op = "IDENTIFY_RESULT"
           /\ StartRequest(Head(rooms), acks)
           /\ UNCHANGED <<connected, rooms, buffers, answer, taken>>
  <2>1. /\ call'.what = "request" /\ Question(call') \in Asking
        /\ Write(Append(acks, Question(call')))
    BY <1>2, <1>n, <1>r
  <2> QED
    BY <1>2, <1>a, <1>o, <2>1 DEF Concludes
<1>3. CASE call.what = "request" /\ Answers(f) /\ Returns(f, acks) /\ UNCHANGED <<buffers, taken>>
  <2>1. f \in Answering
    BY <1>3, <1>a, <1>o, <1>r DEF Answers
  <2>2. answer' = <<call.pid, f.pid>>
    BY <1>3 DEF Returns
  <2>3. ASSUME NEW left \in {CreateJoin, Join, <<>>}, Proceed(left, acks) PROVE Concludes(f, acks)
    <3>1. CASE left = <<>>
      <4>1. call' = Idle /\ Write(acks) /\ UNCHANGED connected
        BY <2>3, <3>1 DEF Proceed
      <4>2. call'.what # "wait"
        BY <4>1 DEF Idle, Awaiting
      <4> QED
        BY <1>3, <2>1, <2>2, <4>1, <4>2 DEF Concludes
    <3>2. CASE left # <<>>
      <4>1. StartRequest(Head(left), acks) /\ UNCHANGED connected /\ left \in {CreateJoin, Join}
        BY <2>3, <3>2 DEF Proceed
      <4>2. /\ call'.what = "request" /\ Question(call') \in Asking
            /\ Write(Append(acks, Question(call')))
        BY <1>n, <4>1
      <4> QED
        BY <1>3, <2>1, <2>2, <4>1, <4>2 DEF Concludes
    <3> QED
      BY <3>1, <3>2
  <2>4. ASSUME Fail PROVE Concludes(f, acks)
    <3>1. call'.what = "gone" /\ connected' = FALSE /\ to_hub' = <<>>
      BY <2>4 DEF Fail, Gone, Awaiting
    <3> QED
      BY <1>3, <2>1, <2>2, <3>1 DEF Concludes
  <2>5. rooms # <<>> => Tail(rooms) \in {CreateJoin, Join, <<>>}
    BY <1>r, Rooms
  <2> QED
    BY <1>3, <2>3, <2>4, <2>5 DEF Returns
<1>4. CASE /\ call.what = "wait" /\ f.op = call.op
           /\ call' = Idle /\ Hand(f.op, <<f>>) /\ Write(acks)
           /\ UNCHANGED <<connected, rooms, pid, buffers, answer>>
  BY <1>4 DEF HandsOut
<1>5. CASE /\ \/ call.what = "identify" /\ f.op # "IDENTIFY_RESULT"
              \/ call.what = "request" /\ ~Answers(f)
              \/ call.what = "wait" /\ f.op # call.op
              \/ call.what = "poll"
           /\ Buffer(f) /\ Write(acks)
           /\ UNCHANGED <<connected, rooms, call, pid, answer, taken>>
  <2>1. ASSUME f \in Answering, Expected(f) PROVE FALSE
    <3>1. CASE call.what = "request"
      <4>1. f.op \in RequestOps => f.ack # "msg"
        BY <2>1 DEF Answering, Msgs, Acks, Greetings, RequestOps, RoomOps, BotOps
      <4> QED
        BY <1>5, <1>r, <2>1, <3>1, <4>1 DEF Expected, Answers
    <3>2. CASE call.what # "request"
      BY <1>5, <1>r, <2>1, <3>2 DEF Expected
    <3> QED
      BY <3>1, <3>2
  <2> QED
    BY <1>5, <2>1 DEF PutsAway
<1> QED
  BY <1>1, <1>2, <1>3, <1>4, <1>5 DEF Handle

\* The questions and replies left by a step on the wires.
LEMMA AppendedQuestion ==
  ASSUME TypeInv, NEW f \in HubFrames, to_hub' = Append(to_hub, f)
  PROVE  /\ f \in Asking => Questions' = Append(Questions, f)
         /\ f \notin Asking => Questions' = Questions
<1>1. to_hub \in Seq(HubFrames)
  BY DEF TypeInv, Wires
<1>2. /\ f \in Asking => Sift(Append(to_hub, f), Asking) = Append(Sift(to_hub, Asking), f)
      /\ f \notin Asking => Sift(Append(to_hub, f), Asking) = Sift(to_hub, Asking)
  BY <1>1, SiftAppend
<1> QED
  BY <1>2 DEF Questions

LEMMA AppendedReply ==
  ASSUME TypeInv, NEW f \in ClientFrames, to_client' = Append(to_client, f)
  PROVE  /\ f \in Answering => Replies' = Append(Replies, f)
         /\ f \notin Answering => Replies' = Replies
<1>1. to_client \in Seq(ClientFrames)
  BY DEF TypeInv, Wires
<1>2. /\ f \in Answering => Sift(Append(to_client, f), Answering) = Append(Sift(to_client, Answering), f)
      /\ f \notin Answering => Sift(Append(to_client, f), Answering) = Sift(to_client, Answering)
  BY <1>1, SiftAppend
<1> QED
  BY <1>2 DEF Replies

\* What a first element says of a sequence with one or none to be found.
LEMMA SiftTail ==
  ASSUME NEW M, NEW s \in Seq(M), s # <<>>, NEW S, NEW q, Sift(s, S) \in {<<>>, <<q>>}
  PROVE  /\ Head(s) \notin S => Sift(Tail(s), S) = Sift(s, S)
         /\ Head(s) \in S => Sift(s, S) = <<q>> /\ Head(s) = q /\ Sift(Tail(s), S) = <<>>
<1> DEFINE h == Head(s)
           t == Tail(s)
           one == <<h>>
           first == Sift(one, S)
           rest == Sift(t, S)
           all == one \o rest
<1>1. h \in M /\ t \in Seq(M) /\ one \in Seq(M) /\ one \o t = s
  BY HeadAndTail
<1> HIDE DEF h, t
<1>2. first = IF h \in S THEN one ELSE <<>>
  BY SiftOne
<1>t. one \in Seq(M) /\ t \in Seq(M)
  BY <1>1
<1>3. one \o t = s /\ Len(one) = 1 /\ one[1] = h
  BY <1>1
<1> HIDE DEF one
<1>4. Sift(one \o t, S) = Sift(one, S) \o Sift(t, S)
  BY <1>t, SiftConcat
<1>5. rest \in Seq(M \cap S)
  BY <1>t, SiftType
<1>6. rest \in Seq(M)
  BY <1>5, SeqMonotonic
<1>8. Sift(s, S) = first \o rest
  BY <1>3, <1>4
<1> HIDE DEF rest, first
<1>7. <<>> \o rest = rest
  BY <1>6, ConcatEmptySeq
<1>9. ASSUME h \notin S PROVE rest = Sift(s, S)
  BY <1>2, <1>7, <1>8, <1>9
<1>10. ASSUME h \in S PROVE Sift(s, S) = <<q>> /\ h = q /\ rest = <<>>
  <2>1. Sift(s, S) = all
    BY <1>2, <1>8, <1>10
  <2>2. Len(all) = Len(one) + Len(rest) /\ Len(rest) \in Nat /\ Len(one) \in Nat
        /\ \A i \in 1 .. Len(one) + Len(rest) :
             all[i] = IF i <= Len(one) THEN one[i] ELSE rest[i - Len(one)]
    BY <1>t, <1>6, ConcatProperties, LenProperties
  <2>4. Len(all) = 1 + Len(rest) /\ Len(rest) \in Nat /\ all[1] = one[1]
    BY <1>3, <2>2
  <2> HIDE DEF all
  <2>5. Len(<<q>>) = 1 /\ <<q>>[1] = q /\ Len(<<>>) = 0
    OBVIOUS
  <2>7. all = <<q>>
    BY <2>1, <2>4, <2>5
  <2>8. Len(rest) = 0 /\ h = q
    BY <1>3, <2>4, <2>5, <2>7
  <2>9. rest = <<>>
    BY <1>6, <2>8, EmptySeq
  <2> QED
    BY <2>1, <2>7, <2>8, <2>9
<1> QED
  BY <1>9, <1>10 DEF h, t, rest

LEMMA WrittenQuestions ==
  ASSUME TypeInv, NEW acks \in Seq(AckFrames)
  PROVE  /\ Write(acks) => Questions' = Questions
         /\ \A q \in Asking :
              Write(Append(acks, q)) => Questions' = IF connected THEN Append(Questions, q) ELSE Questions
         /\ acks \in Seq(HubFrames)
<1>1. to_hub \in Seq(HubFrames)
  BY DEF TypeInv, Wires
<1>2. acks \in Seq(HubFrames)
  BY FrameKinds, SeqMonotonic
<1>3. Sift(acks, Asking) = <<>>
  BY FrameKindsApart, SiftNone
<1>4. Sift(to_hub \o acks, Asking) = Sift(to_hub, Asking) \o Sift(acks, Asking)
  BY <1>1, <1>2, SiftConcat
<1> DEFINE qs == Sift(to_hub, Asking)
           new == to_hub \o acks
<1>5. qs \in Seq(HubFrames \cap Asking)
  BY <1>1, SiftType
<1> HIDE DEF qs
<1>6. qs \o <<>> = qs
  BY <1>5, ConcatEmptySeq
<1>7. Sift(new, Asking) = Questions
  BY <1>3, <1>4, <1>6 DEF qs, Questions
<1>8. new \in Seq(HubFrames)
  BY <1>1, <1>2, ConcatProperties
<1>9. Write(acks) => to_hub' = IF connected THEN new ELSE to_hub
  BY DEF Write
<1>10. ASSUME NEW q \in Asking, Write(Append(acks, q))
       PROVE  Questions' = IF connected THEN Append(Questions, q) ELSE Questions
  <2>1. q \in HubFrames
    BY FrameKinds
  <2>2. to_hub \o Append(acks, q) = Append(new, q)
    BY <1>1, <1>2, <2>1, ConcatAppend
  <2> HIDE DEF new
  <2>3. Sift(Append(new, q), Asking) = Append(Sift(new, Asking), q)
    BY <1>8, <2>1, SiftAppend
  <2> QED
    BY <1>7, <1>10, <2>2, <2>3 DEF Write, Questions
<1> HIDE DEF new
<1>11. Write(acks) => Questions' = Questions
  BY <1>7, <1>9 DEF Questions
<1> QED
  BY <1>2, <1>10, <1>11

LEMMA AnswerInit == Init => AnswerInv
<1> SUFFICES ASSUME Init PROVE AnswerInv
  OBVIOUS
<1> DEFINE f == Msg("HELLO", 0)
<1>1. f \in Answering
  BY DEF Answering, Greetings, Msgs, Msg
<1>2. Questions = <<>>
  <2>1. to_hub = <<>>
    BY DEF Init
  <2> QED
    BY <2>1, SiftEmpty DEF Questions
<1>3. Replies = <<f>>
  <2>1. to_client = <<f>>
    BY DEF Init
  <2>2. Sift(<<f>>, Answering) = IF f \in Answering THEN <<f>> ELSE <<>>
    BY SiftOne
  <2> QED
    BY <1>1, <2>1, <2>2 DEF Replies
<1>4. Expected(f)
  BY DEF Init, Expected, Awaiting, Msg
<1>5. Exchange
  BY <1>1, <1>2, <1>3, <1>4 DEF Exchange, Answered
<1> QED
  BY <1>5, EmptySeq DEF Init, AnswerInv, Own, Closed

\* Nothing is written on a closed connection.
LEMMA ClosedStays ==
  ASSUME Closed,
         \/ connected' = connected /\ (to_hub' = to_hub \/ connected \/ \E frames : Write(frames))
         \/ to_hub' = <<>>
  PROVE  Closed'
BY DEF Closed, Write

\* A step that leaves the wires and the call alone.
LEMMA ExchangeSame ==
  ASSUME Exchange, Questions' = Questions, Replies' = Replies, call' = call
  PROVE  Exchange'
BY DEF Exchange, Quiet, Asks, Answered, Expected, Question

\* A call that asks nothing is quiet; when quiet, calls may come and go.
LEMMA QuietCalls ==
  /\ Exchange /\ call.what \notin {"hello", "identify", "request"} => Quiet
  /\ Quiet /\ Questions' = Questions /\ Replies' = Replies => Exchange'
BY DEF Exchange, Quiet, Asks, Answered, Expected

LEMMA AnswerHubTake ==
  ASSUME TypeInv, AnswerInv, ~setting.rejectsFloor, HubTake
  PROVE  AnswerInv'
<1>c. Closed'
  BY DEF HubTake, Closed
<1> DEFINE f == Head(to_hub)
<1>1. /\ f \in HubFrames /\ to_hub # <<>> /\ to_hub' = Tail(to_hub)
      /\ UNCHANGED <<connected, rooms, call, acking, pid, buffers, events, answer, taken>>
      /\ \/ /\ f \in Asking
            /\ \E g \in Answering : /\ Reply(g)
                                    /\ f.op = "IDENTIFY" => g = Msg("IDENTIFY_RESULT", 0)
                                    /\ f.op # "IDENTIFY" => g.pid = f.pid
                                    /\ f.op # "IDENTIFY" => g.op \in {f.op, "ERROR"}
         \/ f \in AckFrames /\ UNCHANGED to_client
         \/ f \in FloorFrames /\ UNCHANGED to_client
  BY HubTakes
<1>2. to_hub \in Seq(HubFrames)
  BY DEF TypeInv, Wires
<1>3. Questions \in {<<>>, <<Question(call)>>}
  BY DEF AnswerInv, Exchange, Quiet, Asks, Answered
<1> DEFINE q == Question(call)
           left == Sift(Tail(to_hub), Asking)
<1>4. Sift(to_hub, Asking) \in {<<>>, <<q>>}
  BY <1>3 DEF Questions
<1> HIDE DEF q
<1>5. /\ f \notin Asking => left = Sift(to_hub, Asking)
      /\ f \in Asking => Sift(to_hub, Asking) = <<q>> /\ f = q /\ left = <<>>
  BY <1>1, <1>2, <1>4, SiftTail
<1> HIDE DEF f
<1>6. /\ f \notin Asking => Questions' = Questions
      /\ f \in Asking => Questions = <<q>> /\ f = q /\ Questions' = <<>>
  BY <1>1, <1>5 DEF Questions
<1>7. CASE f \notin Asking
  <2>1. Replies' = Replies
    BY <1>1, <1>7 DEF Replies
  <2> QED
    BY <1>c, <1>1, <1>6, <1>7, <2>1, ExchangeSame DEF AnswerInv, Own, buffers
<1>8. CASE f \in Asking
  <2>1. f \notin AckFrames /\ f \notin FloorFrames
    BY <1>8, FrameKindsApart
  <2>2. PICK g \in Answering : /\ Reply(g)
                               /\ f.op = "IDENTIFY" => g = Msg("IDENTIFY_RESULT", 0)
                               /\ f.op # "IDENTIFY" => g.pid = f.pid
                               /\ f.op # "IDENTIFY" => g.op \in {f.op, "ERROR"}
    BY <1>1, <2>1
  <2>3. Asks
    BY <1>6, <1>8 DEF AnswerInv, Exchange, Quiet, Asks, Answered
  <2>4. g \in ClientFrames /\ to_client' = Append(to_client, g)
    BY <2>2, FrameKinds DEF Reply
  <2>5. Replies' = Append(Replies, g)
    BY <2>4, AppendedReply
  <2>6. Replies' = <<g>>
    BY <2>3, <2>5 DEF Asks
  <2>7. Expected(g)'
    <3>1. f = Question(call)
      BY <1>6, <1>8 DEF q
    <3>2. CASE call.what = "identify"
      <4>1. call.op = "IDENTIFY_RESULT" /\ call.pid = 0
        BY <3>2, CallShape
      <4>2. g.op = call.op /\ g.pid = call.pid
        BY <2>2, <3>1, <3>2, <4>1 DEF Question, Msg
      <4> QED
        BY <1>1, <3>2, <4>2 DEF Expected
    <3>3. CASE call.what = "request"
      <4>1. call.op \in RequestOps
        BY <3>3, CallShape
      <4>2. f.op = call.op /\ f.pid = call.pid /\ f.op # "IDENTIFY"
        BY <3>1, <3>3, <4>1 DEF Question, Msg, RequestOps, RoomOps, BotOps
      <4> QED
        BY <1>1, <2>2, <3>3, <4>2 DEF Expected
    <3> QED
      BY <2>3, <3>2, <3>3 DEF Asks
  <2>8. Exchange'
    BY <1>6, <1>8, <2>6, <2>7 DEF Exchange, Answered
  <2> QED
    BY <1>c, <1>1, <2>8 DEF AnswerInv, Own, buffers
<1> QED
  BY <1>7, <1>8

LEMMA AnswerHandle ==
  ASSUME TypeInv, AnswerInv, NEW f \in ClientFrames, NEW acks \in Seq(AckFrames), Handle(f, acks),
         \/ f \notin Answering /\ Replies' = Replies
         \/ f \in Answering /\ Questions = <<>> /\ Expected(f) /\ Replies' = <<>>
  PROVE  AnswerInv'
<1>1. f \in Answering => f.op \notin AckedOps
  BY FrameKinds DEF EventOps
<1>c. Closed'
  <2>1. Closed
    BY DEF AnswerInv
  <2>2. HandsOut(f, acks) => UNCHANGED connected /\ Write(acks)
    BY DEF HandsOut
  <2>3. PutsAway(f, acks) => UNCHANGED connected /\ Write(acks)
    BY DEF PutsAway
  <2>4. Concludes(f, acks) =>
          \/ to_hub' = <<>>
          \/ UNCHANGED connected /\ \E frames : Write(frames)
    BY DEF Concludes
  <2>5. HandsOut(f, acks) \/ PutsAway(f, acks) \/ Concludes(f, acks)
    BY HandleCases
  <2> QED
    BY <2>1, <2>2, <2>3, <2>4, <2>5, ClosedStays
<1>2. CASE HandsOut(f, acks)
  <2>1. call.what = "wait" /\ f \notin Answering
    BY <1>1, <1>2, CallShape DEF HandsOut
  <2>2. Questions' = Questions
    BY <1>2, WrittenQuestions DEF HandsOut
  <2>3. Exchange'
    BY <2>1, <2>2, QuietCalls DEF AnswerInv
  <2> QED
    BY <1>c, <1>2, <2>3 DEF HandsOut, buffers, AnswerInv, Own
<1>3. CASE PutsAway(f, acks)
  <2>1. f \notin Answering
    BY <1>3 DEF PutsAway
  <2>2. Questions' = Questions /\ call' = call /\ answer' = answer
    BY <1>3, WrittenQuestions DEF PutsAway
  <2>3. Exchange'
    BY <2>1, <2>2, ExchangeSame DEF AnswerInv
  <2>4. event_buf' \in Seq(Events)
    <3>1. f \in Events \/ f.op = "FLOOR_MBCP"
      BY <2>1, FrameKinds
    <3>2. Buffer(f) /\ event_buf \in Seq(Events)
      BY <1>3 DEF PutsAway, AnswerInv
    <3> QED
      BY <3>1, <3>2, AppendProperties DEF Buffer
  <2> QED
    BY <1>c, <2>2, <2>3, <2>4 DEF AnswerInv, Own
<1>4. CASE Concludes(f, acks)
  <2>1. f \in Answering /\ Questions = <<>> /\ Expected(f) /\ Replies' = <<>>
    BY <1>4 DEF Concludes
  <2>2. Own'
    BY <1>4, <2>1 DEF Concludes, Expected, Own, AnswerInv
  <2>3. Exchange'
    <3>1. CASE to_hub' = <<>>
      <4>1. Questions' = <<>>
        BY <3>1, SiftEmpty DEF Questions
      <4> QED
        BY <2>1, <4>1 DEF Exchange, Quiet
    <3>2. CASE Write(acks)
      <4>1. Questions' = <<>>
        BY <2>1, <3>2, WrittenQuestions
      <4> QED
        BY <2>1, <4>1 DEF Exchange, Quiet
    <3>3. CASE /\ call'.what \in {"identify", "request"} /\ Question(call') \in Asking
               /\ Write(Append(acks, Question(call')))
      <4> DEFINE q == Question(call')
      <4>1. q \in Asking /\ Write(Append(acks, q))
        BY <3>3
      <4> HIDE DEF q
      <4>2. Questions' = IF connected THEN Append(Questions, q) ELSE Questions
        BY <4>1, WrittenQuestions
      <4>3. Questions' \in {<<>>, <<q>>}
        BY <2>1, <4>2
      <4>4. q = Question(call)'
        BY DEF q, Question
      <4> QED
        BY <2>1, <3>3, <4>3, <4>4 DEF Exchange, Quiet, Asks
    <3> QED
      BY <1>4, <3>1, <3>2, <3>3 DEF Concludes
  <2> QED
    BY <1>c, <1>4, <2>2, <2>3 DEF Concludes, AnswerInv, buffers
<1> QED
  BY <1>2, <1>3, <1>4, HandleCases

LEMMA AnswerReceive ==
  ASSUME TypeInv, AnswerInv, Receive
  PROVE  AnswerInv'
<1> DEFINE f == Head(to_client)
<1>1. /\ f \in ClientFrames /\ to_client # <<>> /\ to_client' = Tail(to_client)
      /\ \/ /\ f \in Events
            /\ UNCHANGED <<connected, to_hub, rooms, call, pid, buffers, answer, taken>>
         \/ f \notin Events /\ Handle(f, <<>>)
  BY ReceiveFacts
<1>2. to_client \in Seq(ClientFrames)
  BY DEF TypeInv, Wires
<1>3. PICK g : /\ Replies \in {<<>>, <<g>>}
               /\ Replies # <<>> => Questions = <<>> /\ Expected(g)
  <2>1. CASE Answered
    BY <2>1 DEF Answered
  <2>2. CASE Replies = <<>>
    BY <2>2
  <2> QED
    BY <2>1, <2>2 DEF AnswerInv, Exchange, Quiet, Asks
<1> DEFINE left == Sift(Tail(to_client), Answering)
           only == g
<1>4. Sift(to_client, Answering) \in {<<>>, <<only>>}
  BY <1>3 DEF Replies
<1> HIDE DEF only
<1>9. to_client # <<>>
  BY <1>1
<1>5. /\ f \notin Answering => left = Sift(to_client, Answering)
      /\ f \in Answering => Sift(to_client, Answering) = <<only>> /\ f = only /\ left = <<>>
  BY <1>9, <1>2, <1>4, SiftTail
<1> HIDE DEF f
<1>6. /\ f \notin Answering => Replies' = Replies
      /\ f \in Answering => Replies = <<g>> /\ f = g /\ Replies' = <<>>
  BY <1>1, <1>5 DEF Replies, only
<1>7. CASE f \in Events
  <2>1. f \notin Answering
    BY <1>7, FrameKindsApart
  <2>2. Questions' = Questions /\ Replies' = Replies /\ call' = call
    BY <1>1, <1>6, <1>7, <2>1 DEF Questions
  <2> QED
    BY <1>1, <1>7, <2>2, ExchangeSame DEF AnswerInv, Own, buffers, Closed
<1>8. CASE f \notin Events
  <2>1. Handle(f, <<>>) /\ <<>> \in Seq(AckFrames)
    BY <1>1, <1>8, EmptySeq
  <2>2. \/ f \notin Answering /\ Replies' = Replies
        \/ f \in Answering /\ Questions = <<>> /\ Expected(f) /\ Replies' = <<>>
    <3>1. <<g>> # <<>>
      OBVIOUS
    <3> QED
      BY <1>3, <1>6, <3>1
  <2> QED
    BY <1>1, <2>1, <2>2, AnswerHandle
<1> QED
  BY <1>7, <1>8

LEMMA AnswerSendAck ==
  ASSUME TypeInv, AnswerInv, SendAck
  PROVE  AnswerInv'
<1> DEFINE one == <<Ack(acking.op, acking.pid, "ok")>>
<1>1. /\ acking \in Events /\ acking \in ClientFrames /\ Handle(acking, one)
      /\ UNCHANGED to_client /\ Ack(acking.op, acking.pid, "ok") \in AckFrames
  BY SendAckFacts
<1>2. one \in Seq(AckFrames)
  BY <1>1
<1>3. acking \notin Answering /\ Replies' = Replies
  BY <1>1, FrameKindsApart DEF Replies
<1> HIDE DEF one
<1> QED
  BY <1>1, <1>2, <1>3, AnswerHandle

\* Calls that the bot makes, and that end with nothing read.
LEMMA AnswerCalls ==
  ASSUME TypeInv, AnswerInv,
         \/ HubDrop \/ SendFloorMbcp \/ PollEvents \/ DrainFloorMbcp \/ Close \/ TimeUp
         \/ TimeUpInAck \/ Lost
         \/ \E op \in BotOps : Request(op)
         \/ \E op \in EventOps : HubEvent(op)
         \/ \E op \in AckedOps : DrainAllEvents(op) \/ WaitEvent(op)
  PROVE  AnswerInv'
<1>i. Idle.what = "nothing"
  BY DEF Idle, Awaiting
<1>e. event_buf \in Seq(Events)
  BY DEF AnswerInv
<1>c. Closed'
  <2>1. Closed
    BY DEF AnswerInv
  <2>2. \/ connected' = connected /\ (to_hub' = to_hub \/ connected \/ \E frames : Write(frames))
        \/ to_hub' = <<>>
    BY DEF HubDrop, SendFloorMbcp, PollEvents, DrainFloorMbcp, Close, TimeUp, TimeUpInAck, Lost,
           Request, StartRequest, HubEvent, DrainAllEvents, WaitEvent
  <2> QED
    BY <2>1, <2>2, ClosedStays
<1>1. ASSUME HubDrop PROVE AnswerInv'
  <2>1. Questions' = <<>> /\ Replies' = Replies /\ UNCHANGED <<call, buffers, answer>>
    BY <1>1, SiftEmpty DEF HubDrop, Questions, Replies
  <2>2. Exchange'
    BY <2>1 DEF AnswerInv, Exchange, Quiet, Asks, Answered, Expected
  <2> QED
    BY <1>c, <2>1, <2>2 DEF AnswerInv, Own, buffers
<1>2. ASSUME SendFloorMbcp PROVE AnswerInv'
  <2> DEFINE f == Msg("FLOOR_MBCP", pid)
  <2>1. /\ Write(<<f>>) /\ UNCHANGED <<connected, to_client, call, buffers, answer>>
    BY <1>2 DEF SendFloorMbcp
  <2>2. f \in FloorFrames /\ f \in HubFrames /\ f \notin Asking
    <3>1. f \in FloorFrames
      BY DEF TypeInv, Calling, FloorFrames, FloorOps, Msgs, Msg
    <3> QED
      BY <3>1, FrameKinds, FrameKindsApart
  <2>3. Questions' = Questions
    <3>1. UNCHANGED to_hub \/ to_hub' = Append(to_hub, f)
      <4>1. to_hub \o <<f>> = Append(to_hub, f)
        BY <2>2, AppendIsConcat DEF TypeInv, Wires
      <4> QED
        BY <2>1, <4>1 DEF Write
    <3> HIDE DEF f
    <3> QED
      BY <2>2, <3>1, AppendedQuestion DEF Questions
  <2>4. Replies' = Replies
    BY <2>1 DEF Replies
  <2> QED
    BY <1>c, <2>1, <2>3, <2>4, ExchangeSame DEF AnswerInv, Own, buffers
<1>3. ASSUME PollEvents \/ DrainFloorMbcp \/ TimeUp \/ Lost PROVE AnswerInv'
  <2>1. /\ UNCHANGED <<to_hub, to_client, event_buf, answer>>
        /\ \/ call.what \notin {"hello", "identify", "request"}
           \/ ~connected /\ to_client = <<>>
    BY <1>3, <1>i DEF PollEvents, DrainFloorMbcp, TimeUp, Lost, buffers
  <2>2. Questions' = Questions /\ Replies' = Replies
    BY <2>1 DEF Questions, Replies
  <2>3. Quiet
    <3>1. CASE ~connected /\ to_client = <<>>
      <4>1. Replies = <<>> /\ Questions = <<>>
        BY <3>1, SiftEmpty DEF Replies, Questions, AnswerInv, Closed
      <4> QED
        BY <4>1 DEF Quiet
    <3> QED
      BY <2>1, <3>1, QuietCalls DEF AnswerInv
  <2> QED
    BY <1>c, <2>1, <2>2, <2>3, QuietCalls DEF AnswerInv, Own
<1>4. ASSUME Close PROVE AnswerInv'
  <2>1. call.what = "nothing" /\ to_hub' = <<>> /\ UNCHANGED <<to_client, buffers, answer>>
    BY <1>4, <1>i DEF Close
  <2>2. Quiet
    BY <2>1, QuietCalls DEF AnswerInv
  <2>3. Questions' = <<>> /\ Replies' = Replies
    BY <2>1, SiftEmpty DEF Questions, Replies
  <2> QED
    BY <1>c, <2>1, <2>2, <2>3, QuietCalls DEF AnswerInv, Own, buffers, Quiet
<1>5. ASSUME TimeUpInAck PROVE AnswerInv'
  <2>1. /\ call.what \in {"poll", "wait"} /\ acking \in Events
        /\ UNCHANGED to_hub \/ Write(<<Ack(acking.op, acking.pid, "ok")>>)
        /\ UNCHANGED <<to_client, buffers, answer>>
    BY <1>5 DEF TimeUpInAck, TypeInv, Wires
  <2> DEFINE one == <<Ack(acking.op, acking.pid, "ok")>>
  <2>2. Ack(acking.op, acking.pid, "ok") \in AckFrames
    BY <2>1 DEF Events, Msgs, Ack, Acks, AckFrames
  <2>3. one \in Seq(AckFrames) /\ (UNCHANGED to_hub \/ Write(one))
    BY <2>1, <2>2
  <2> HIDE DEF one
  <2>4. Questions' = Questions /\ Replies' = Replies
    BY <2>1, <2>3, WrittenQuestions DEF Questions, Replies
  <2>5. Quiet
    BY <2>1, QuietCalls DEF AnswerInv
  <2> QED
    BY <1>c, <2>1, <2>4, <2>5, QuietCalls DEF AnswerInv, Own, buffers
<1>6. ASSUME NEW op \in BotOps, Request(op) PROVE AnswerInv'
  <2>1. /\ StartRequest(op, <<>>) /\ call.what = "nothing"
        /\ UNCHANGED <<connected, to_client, buffers, answer>>
    BY <1>6, <1>i DEF Request
  <2>2. op \in RequestOps
    BY DEF RequestOps
  <2> DEFINE q == Question(call')
  <2>3. call'.what = "request" /\ q \in Asking /\ Write(Append(<<>>, q))
    BY <2>1, <2>2, StartQuestion
  <2>4. Questions = <<>> /\ Replies = <<>>
    BY <2>1, QuietCalls DEF AnswerInv, Quiet
  <2>5. <<>> \in Seq(AckFrames)
    BY EmptySeq
  <2>6. q = Question(call)'
    BY DEF Question
  <2> HIDE DEF q
  <2>7. Questions' = IF connected THEN Append(Questions, q) ELSE Questions
    BY <2>3, <2>5, WrittenQuestions
  <2>8. Questions' \in {<<>>, <<q>>} /\ Replies' = <<>>
    BY <2>1, <2>4, <2>7 DEF Replies
  <2>9. Exchange'
    BY <2>3, <2>6, <2>8 DEF Exchange, Quiet, Asks
  <2> QED
    BY <1>c, <2>1, <2>9 DEF AnswerInv, Own, buffers
<1>7. ASSUME NEW op \in EventOps, HubEvent(op) PROVE AnswerInv'
  <2> DEFINE f == Msg(op, Len(events) + 1)
  <2>1. /\ f \in ClientFrames /\ f.op = op /\ to_client' = Append(to_client, f)
        /\ UNCHANGED <<to_hub, call, buffers, answer>>
    BY <1>7, HubEventFacts
  <2> HIDE DEF f
  <2>2. f \notin Answering
    BY <2>1, FrameKinds
  <2>3. Questions' = Questions /\ Replies' = Replies
    BY <2>1, <2>2, AppendedReply DEF Questions
  <2> QED
    BY <1>c, <2>1, <2>3, ExchangeSame DEF AnswerInv, Own, buffers
<1>8. ASSUME NEW op \in AckedOps, DrainAllEvents(op) PROVE AnswerInv'
  <2> DEFINE T == ClientFrames \ Of(op)
  <2>1. event_buf' = Sift(event_buf, T) /\ UNCHANGED <<to_hub, to_client, call, answer>>
    BY <1>8 DEF DrainAllEvents
  <2> HIDE DEF T
  <2>2. Sift(event_buf, T) \in Seq(Events \cap T)
    BY <1>e, SiftType
  <2>3. event_buf' \in Seq(Events)
    BY <2>1, <2>2, SeqMonotonic
  <2>4. Questions' = Questions /\ Replies' = Replies
    BY <2>1 DEF Questions, Replies
  <2> QED
    BY <1>c, <2>1, <2>3, <2>4, ExchangeSame DEF AnswerInv, Own
<1>9. ASSUME NEW op \in AckedOps, WaitEvent(op) PROVE AnswerInv'
  <2>1. /\ call.what = "nothing" /\ UNCHANGED <<to_hub, to_client, answer>>
        /\ \/ UNCHANGED event_buf
           \/ \E n \in 1 .. Len(event_buf) :
                event_buf' = SubSeq(event_buf, 1, n - 1) \o SubSeq(event_buf, n + 1, Len(event_buf))
    BY <1>9, <1>i DEF WaitEvent
  <2>2. event_buf' \in Seq(Events)
    <3>1. ASSUME NEW n \in 1 .. Len(event_buf)
          PROVE  SubSeq(event_buf, 1, n - 1) \o SubSeq(event_buf, n + 1, Len(event_buf)) \in Seq(Events)
      BY <1>e, Within
    <3> QED
      BY <1>e, <2>1, <3>1
  <2>3. Questions' = Questions /\ Replies' = Replies
    BY <2>1 DEF Questions, Replies
  <2>4. Quiet
    BY <2>1, QuietCalls DEF AnswerInv
  <2> QED
    BY <1>c, <2>1, <2>2, <2>3, <2>4, QuietCalls DEF AnswerInv, Own
<1> QED
  BY <1>1, <1>2, <1>3, <1>4, <1>5, <1>6, <1>7, <1>8, <1>9

LEMMA AnswerStep ==
  ASSUME TypeInv, ~setting.rejectsFloor => AnswerInv,
         [Next /\ UNCHANGED setting]_<<vars, setting>>
  PROVE  (~setting.rejectsFloor => AnswerInv)'
<1> SUFFICES ASSUME ~setting.rejectsFloor PROVE AnswerInv'
  OBVIOUS
<1>1. AnswerInv
  OBVIOUS
<1>2. CASE UNCHANGED vars
  <2>1. UNCHANGED <<connected, to_hub, to_client, call, event_buf, answer>>
    BY <1>2 DEF vars, buffers
  <2>2. Questions' = Questions /\ Replies' = Replies
    BY <2>1 DEF Questions, Replies
  <2> QED
    BY <1>1, <2>1, <2>2, ExchangeSame DEF AnswerInv, Own, Closed
<1>3. CASE HubTake
  BY <1>1, <1>3, AnswerHubTake
<1>4. CASE Receive \/ SendAck
  BY <1>1, <1>4, AnswerReceive, AnswerSendAck
<1>5. CASE \/ HubDrop \/ SendFloorMbcp \/ PollEvents \/ DrainFloorMbcp \/ Close \/ TimeUp
           \/ TimeUpInAck \/ Lost
           \/ \E op \in BotOps : Request(op)
           \/ \E op \in EventOps : HubEvent(op)
           \/ \E op \in AckedOps : DrainAllEvents(op) \/ WaitEvent(op)
  BY <1>1, <1>5, AnswerCalls
<1> QED
  BY <1>2, <1>3, <1>4, <1>5 DEF Next

\* Frames stay of their kinds, the session of its calls, and pids within the
\* requests that the bot makes.
THEOREM SessionTyped == Spec => []TypeOK
<1>1. Init => TypeInv /\ (~setting.rejectsFloor => AnswerInv)
  BY TypeInit, AnswerInit
<1>2. TypeInv /\ (~setting.rejectsFloor => AnswerInv) /\ [Next /\ UNCHANGED setting]_<<vars, setting>>
      => (TypeInv /\ (~setting.rejectsFloor => AnswerInv))'
  BY TypeStep, AnswerStep
<1>3. TypeInv /\ (~setting.rejectsFloor => AnswerInv) => TypeOK
  <2> SUFFICES ASSUME TypeInv, ~setting.rejectsFloor => AnswerInv PROVE TypeOK
    OBVIOUS
  <2>1. Events \cup Answering \subseteq ClientFrames \ FloorFrames
    BY FrameKinds, FrameKindsApart
  <2>2. event_buf \in Seq(ClientFrames \ FloorFrames)
    BY <2>1, SeqMonotonic DEF TypeInv, Buffered
  <2>3. setting.rejectsFloor \/ event_buf \in Seq(Events)
    BY DEF AnswerInv
  <2> QED
    BY <2>2, <2>3 DEF TypeOK, TypeInv, Wires, Calling, Buffered, Records, CreateJoin, Join
<1> QED
  BY <1>1, <1>2, <1>3, PTL DEF Spec

\* A request returns with the answer to itself (the hub being one that takes
\* floor messages silently).
THEOREM OwnResponse == Spec => []ResponseIsOwn
<1>1. Init => TypeInv /\ (~setting.rejectsFloor => AnswerInv)
  BY TypeInit, AnswerInit
<1>2. TypeInv /\ (~setting.rejectsFloor => AnswerInv) /\ [Next /\ UNCHANGED setting]_<<vars, setting>>
      => (TypeInv /\ (~setting.rejectsFloor => AnswerInv))'
  BY TypeStep, AnswerStep
<1>3. (~setting.rejectsFloor => AnswerInv) => ResponseIsOwn
  BY DEF AnswerInv, ResponseIsOwn
<1> QED
  BY <1>1, <1>2, <1>3, PTL DEF Spec

-----------------------------------------------------------------------------
(***************************************************************************)
(* What is in recv_frame's hands and on the wire to it.                    *)
(***************************************************************************)

LEMMA Associative ==
  ASSUME NEW a \in Seq(Nat), NEW b \in Seq(Nat), NEW c \in Seq(Nat)
  PROVE  (a \o b) \o c = a \o (b \o c)
BY ConcatAssociative

LEMMA UnreadType ==
  ASSUME TypeInv, NEW S
  PROVE  /\ PidsOf(Held, S) \in Seq(Nat) /\ PidsOf(to_client, S) \in Seq(Nat)
         /\ Unread(S) \in Seq(Nat)
<1>1. PidsOf(Held, S) \in Seq(Nat) /\ PidsOf(to_client, S) \in Seq(Nat)
  BY BufferedFrames, PidsOfType
<1> QED
  BY <1>1, ConcatProperties DEF Unread

LEMMA HeldNothing == ASSUME NEW S, acking = NoFrame PROVE PidsOf(Held, S) = <<>>
<1>1. Sift(<<>>, S) = <<>> /\ Held = <<>>
  BY SiftEmpty DEF Held
<1>2. Pids(<<>>) = <<>>
  BY DEF Pids
<1> QED
  BY <1>1, <1>2 DEF PidsOf

\* With nothing in hand, the wire is all there is to read.
LEMMA UnreadWire == ASSUME TypeInv, NEW S, acking = NoFrame PROVE Unread(S) = PidsOf(to_client, S)
<1> DEFINE wire == PidsOf(to_client, S)
<1>1. wire \in Seq(Nat) /\ PidsOf(Held, S) = <<>>
  BY UnreadType, HeldNothing
<1> HIDE DEF wire
<1>2. <<>> \o wire = wire
  BY <1>1, ConcatEmptySeq
<1> QED
  BY <1>1, <1>2 DEF wire, Unread

LEMMA UnreadReply ==
  ASSUME TypeInv, NEW S, NEW f \in ClientFrames, Reply(f), UNCHANGED acking
  PROVE  /\ f \in S => Unread(S)' = Unread(S) \o <<f.pid>>
         /\ f \notin S => Unread(S)' = Unread(S)
<1> DEFINE held == PidsOf(Held, S)
           wire == PidsOf(to_client, S)
           one == <<f.pid>>
<1>1. to_client \in Seq(Frames) /\ f \in Frames /\ to_client' = Append(to_client, f)
  BY BufferedFrames DEF Frames, Reply
<1>2. /\ f \in S => PidsOf(to_client', S) = wire \o one
      /\ f \notin S => PidsOf(to_client', S) = wire
  BY <1>1, PidsOfAppend
<1>3. Unread(S)' = held \o PidsOf(to_client', S)
  BY DEF Unread, Held
<1>4. held \in Seq(Nat) /\ wire \in Seq(Nat)
  BY UnreadType
<1>5. f.pid \in Nat
  BY <1>1, FrameKinds
<1>6. one \in Seq(Nat)
  BY <1>5
<1>7. Unread(S) = held \o wire
  BY DEF Unread
<1> HIDE DEF held, wire, one
<1>8. (held \o wire) \o one = held \o (wire \o one)
  BY <1>4, <1>6, Associative
<1> QED
  BY <1>2, <1>3, <1>7, <1>8 DEF one

\* recv_frame takes a frame in hand, or on to the call.
LEMMA UnreadReceive ==
  ASSUME TypeInv, NEW S, Receive
  PROVE  LET f == Head(to_client)
         IN  /\ acking' = f /\ f # NoFrame => Unread(S)' = Unread(S)
             /\ acking' = acking /\ f \in S => Unread(S) = <<f.pid>> \o Unread(S)'
             /\ acking' = acking /\ f \notin S => Unread(S)' = Unread(S)
<1> DEFINE f == Head(to_client)
           left == Tail(to_client)
<1>1. to_client # <<>> /\ to_client' = left /\ acking = NoFrame
  BY ReceiveFacts
<1>2. to_client \in Seq(Frames)
  BY BufferedFrames
<1>3. /\ f \in Frames /\ left \in Seq(Frames)
      /\ f \in S => PidsOf(to_client, S) = <<f.pid>> \o PidsOf(left, S)
      /\ f \notin S => PidsOf(to_client, S) = PidsOf(left, S)
  BY <1>1, <1>2, PidsOfHead
<1>4. Unread(S) = PidsOf(to_client, S)
  BY <1>1, UnreadWire
<1> DEFINE rest == PidsOf(left, S)
<1>5. rest \in Seq(Nat)
  BY <1>3, PidsOfType
<1> HIDE DEF f, left
<1>6. Unread(S)' = PidsOf(Held', S) \o rest
  BY <1>1 DEF Unread
<1>7. /\ f \in S => PidsOf(<<f>>, S) = <<f.pid>>
      /\ f \notin S => PidsOf(<<f>>, S) = <<>>
      /\ PidsOf(<<>>, S) = <<>>
  BY <1>3, PidsOfOne
<1> HIDE DEF rest
<1>8. <<>> \o rest = rest
  BY <1>5, ConcatEmptySeq
<1>9. ASSUME acking' = f, f # NoFrame PROVE Unread(S)' = Unread(S)
  <2>1. Held' = <<f>>
    BY <1>9 DEF Held
  <2> QED
    BY <1>3, <1>4, <1>6, <1>7, <1>8, <2>1 DEF rest
<1>10. ASSUME acking' = acking PROVE Unread(S)' = rest
  <2>1. Held' = <<>>
    BY <1>1, <1>10 DEF Held
  <2> QED
    BY <1>6, <1>7, <1>8, <2>1
<1> QED
  BY <1>3, <1>4, <1>9, <1>10 DEF f, rest

LEMMA UnreadSent ==
  ASSUME TypeInv, NEW S, SendAck
  PROVE  /\ acking \in S => Unread(S) = <<acking.pid>> \o Unread(S)'
         /\ acking \notin S => Unread(S)' = Unread(S)
<1>1. acking \in Frames /\ acking' = NoFrame /\ UNCHANGED to_client /\ acking # NoFrame
  BY SendAckFacts, FrameKindsApart
<1> DEFINE wire == PidsOf(to_client, S)
<1>2. wire \in Seq(Nat)
  BY UnreadType
<1>3. Held = <<acking>> /\ Held' = <<>>
  BY <1>1 DEF Held
<1>4. /\ acking \in S => PidsOf(<<acking>>, S) = <<acking.pid>>
      /\ acking \notin S => PidsOf(<<acking>>, S) = <<>>
      /\ PidsOf(<<>>, S) = <<>>
  BY <1>1, PidsOfOne
<1>5. Unread(S) = PidsOf(Held, S) \o wire /\ Unread(S)' = PidsOf(Held', S) \o wire
  BY <1>1 DEF Unread
<1> HIDE DEF wire
<1>6. <<>> \o wire = wire
  BY <1>2, ConcatEmptySeq
<1> QED
  BY <1>3, <1>4, <1>5, <1>6

-----------------------------------------------------------------------------
(***************************************************************************)
(* The ACKs.                                                               *)
(***************************************************************************)

Acknowledging == setting.backpressure = FALSE /\ connected

\* Acknowledged, on the way to it, or still to be read: every event that the
\* hub sent, in order.
AckInv == Acknowledging => (acked \o AcksOnTheWay) \o Unread(Events) = EventPids

LEMMA AckTypes ==
  ASSUME TypeInv
  PROVE  acked \in Seq(Nat) /\ AcksOnTheWay \in Seq(Nat) /\ Unread(Events) \in Seq(Nat)
         /\ EventPids \in Seq(Nat)
<1>1. to_hub \in Seq(Frames) /\ events \in Seq(Frames)
  BY BufferedFrames
<1>2. PidsOf(to_hub, AckFrames) \in Seq(Nat) /\ PidsOf(events, Events) \in Seq(Nat)
  BY <1>1, PidsOfType
<1> QED
  BY <1>2, UnreadType DEF TypeInv, Records, AcksOnTheWay, EventPids

LEMMA AckInit == Init => AckInv
<1> SUFFICES ASSUME Init PROVE AckInv
  OBVIOUS
<1>1. TypeInv
  BY TypeInit
<1>2. to_hub = <<>> /\ events = <<>> /\ acked = <<>> /\ acking = NoFrame
      /\ to_client = <<Msg("HELLO", 0)>>
  BY DEF Init
<1> DEFINE f == Msg("HELLO", 0)
<1>3. f \in Frames /\ f \notin Events
  BY DEF Frames, ClientFrames, Events, Msgs, Msg, AckedOps
<1> HIDE DEF f
<1>4. PidsOf(<<f>>, Events) = <<>> /\ PidsOf(<<>>, Events) = <<>>
      /\ PidsOf(<<>>, AckFrames) = <<>>
  BY <1>3, PidsOfOne
<1>5. Unread(Events) = <<>>
  BY <1>1, <1>2, <1>4, UnreadWire DEF f
<1>6. AcksOnTheWay = <<>> /\ EventPids = <<>>
  BY <1>2, <1>4 DEF AcksOnTheWay, EventPids
<1>7. <<>> \o <<>> = <<>>
  BY EmptySeq, ConcatEmptySeq
<1> QED
  BY <1>2, <1>5, <1>6, <1>7 DEF AckInv

\* What is written, of which acks are ACKs and the rest is none.
LEMMA WrittenAcks ==
  ASSUME TypeInv, NEW acks \in Seq(AckFrames), connected
  PROVE  /\ Write(acks) => AcksOnTheWay' = AcksOnTheWay \o Pids(acks)
         /\ \A q \in Asking \cup FloorFrames :
              Write(Append(acks, q)) => AcksOnTheWay' = AcksOnTheWay \o Pids(acks)
<1>1. to_hub \in Seq(Frames)
  BY BufferedFrames
<1>2. acks \in Seq(Frames)
  BY FrameKinds, SeqMonotonic DEF Frames
<1>3. PidsOf(acks, AckFrames) = Pids(acks)
  BY PidsOfAll
<1>4. PidsOf(to_hub \o acks, AckFrames) = PidsOf(to_hub, AckFrames) \o PidsOf(acks, AckFrames)
  BY <1>1, <1>2, PidsOfConcat
<1> DEFINE new == to_hub \o acks
<1>5. new \in Seq(Frames)
  BY <1>1, <1>2, ConcatProperties
<1>6. PidsOf(new, AckFrames) = AcksOnTheWay \o Pids(acks)
  BY <1>3, <1>4 DEF AcksOnTheWay
<1>7. ASSUME Write(acks) PROVE AcksOnTheWay' = AcksOnTheWay \o Pids(acks)
  <2>1. to_hub' = new
    BY <1>7 DEF Write
  <2> HIDE DEF new
  <2> QED
    BY <1>6, <2>1 DEF AcksOnTheWay
<1>8. ASSUME NEW q \in Asking \cup FloorFrames, Write(Append(acks, q))
      PROVE  AcksOnTheWay' = AcksOnTheWay \o Pids(acks)
  <2>1. q \in Frames /\ q \notin AckFrames
    BY FrameKinds, FrameKindsApart DEF Frames
  <2>2. to_hub' = to_hub \o Append(acks, q)
    BY <1>8 DEF Write
  <2>3. to_hub \o Append(acks, q) = Append(new, q)
    BY <1>1, <1>2, <2>1, ConcatAppend
  <2> HIDE DEF new
  <2>4. PidsOf(Append(new, q), AckFrames) = PidsOf(new, AckFrames)
    BY <1>5, <2>1, PidsOfAppend
  <2> QED
    BY <1>6, <2>2, <2>3, <2>4 DEF AcksOnTheWay
<1> QED
  BY <1>7, <1>8

\* The ACKs that a call writes with what it does, if the connection survives.
LEMMA HandledAcks ==
  ASSUME TypeInv, NEW f \in ClientFrames, NEW acks \in Seq(AckFrames), Handle(f, acks)
  PROVE  connected' => connected /\ AcksOnTheWay' = AcksOnTheWay \o Pids(acks)
<1> SUFFICES ASSUME connected' PROVE connected /\ AcksOnTheWay' = AcksOnTheWay \o Pids(acks)
  OBVIOUS
<1>1. /\ UNCHANGED connected
      /\ Write(acks) \/ \E q \in Asking : Write(Append(acks, q))
  <2>1. HandsOut(f, acks) => UNCHANGED connected /\ Write(acks)
    BY DEF HandsOut
  <2>2. PutsAway(f, acks) => UNCHANGED connected /\ Write(acks)
    BY DEF PutsAway
  <2>3. Concludes(f, acks) =>
          UNCHANGED connected /\ (Write(acks) \/ \E q \in Asking : Write(Append(acks, q)))
    BY DEF Concludes
  <2> QED
    BY <2>1, <2>2, <2>3, HandleCases
<1>2. connected
  BY <1>1
<1> QED
  BY <1>1, <1>2, WrittenAcks

\* Nothing is added to a sequence of pids.
LEMMA NoAcks ==
  ASSUME TypeInv
  PROVE  /\ AcksOnTheWay \o Pids(<<>>) = AcksOnTheWay /\ <<>> \in Seq(AckFrames)
<1>1. Pids(<<>>) = <<>>
  BY DEF Pids
<1> DEFINE a == AcksOnTheWay
<1>2. a \in Seq(Nat)
  BY AckTypes
<1> HIDE DEF a
<1>3. a \o <<>> = a
  BY <1>2, ConcatEmptySeq
<1> QED
  BY <1>1, <1>3, EmptySeq DEF a

LEMMA AckSame ==
  ASSUME AckInv, UNCHANGED <<setting, connected, acked, events>>, AcksOnTheWay' = AcksOnTheWay,
         Unread(Events)' = Unread(Events)
  PROVE  AckInv'
BY DEF AckInv, Acknowledging, EventPids

LEMMA AckHubTake ==
  ASSUME TypeInv, AckInv, HubTake, UNCHANGED setting
  PROVE  AckInv'
<1> DEFINE f == Head(to_hub)
           left == Tail(to_hub)
<1>1. /\ f \in HubFrames /\ to_hub # <<>> /\ to_hub' = left /\ UNCHANGED <<connected, acking, events>>
      /\ \/ f \in Asking /\ UNCHANGED acked /\ \E g \in Answering : Reply(g)
         \/ f \in AckFrames /\ acked' = Append(acked, f.pid) /\ UNCHANGED to_client
         \/ /\ f \in FloorFrames /\ UNCHANGED acked
            /\ UNCHANGED to_client \/ \E g \in Answering : Reply(g)
  BY HubTakes
<1>2. to_hub \in Seq(Frames)
  BY BufferedFrames
<1>3. /\ f \in AckFrames => PidsOf(to_hub, AckFrames) = <<f.pid>> \o PidsOf(left, AckFrames)
      /\ f \notin AckFrames => PidsOf(to_hub, AckFrames) = PidsOf(left, AckFrames)
      /\ left \in Seq(Frames) /\ f \in Frames
  BY <1>1, <1>2, PidsOfHead
<1> HIDE DEF f, left
<1>4. Unread(Events)' = Unread(Events)
  <2>1. CASE UNCHANGED to_client
    BY <1>1, <2>1 DEF Unread, Held
  <2>2. ASSUME NEW g \in Answering, Reply(g) PROVE Unread(Events)' = Unread(Events)
    <3>1. g \in ClientFrames /\ g \notin Events
      BY FrameKinds, FrameKindsApart
    <3> QED
      BY <1>1, <2>2, <3>1, UnreadReply
  <2> QED
    BY <1>1, <2>1, <2>2
<1>5. CASE f \notin AckFrames
  BY <1>1, <1>3, <1>4, <1>5, AckSame DEF AcksOnTheWay
<1>6. CASE f \in AckFrames
  <2> DEFINE one == <<f.pid>>
             rest == PidsOf(left, AckFrames)
  <2>1. acked' = Append(acked, f.pid)
    BY <1>1, <1>6, FrameKindsApart
  <2>2. f.pid \in Nat
    BY <1>3, FrameKinds
  <2>3. acked \in Seq(Nat) /\ rest \in Seq(Nat)
    BY <1>3, AckTypes, PidsOfType
  <2>4. acked' = acked \o one
    BY <2>1, <2>2, <2>3, AppendIsConcat
  <2>5. one \in Seq(Nat)
    BY <2>2
  <2>6. AcksOnTheWay = one \o rest /\ AcksOnTheWay' = rest
    BY <1>1, <1>3, <1>6 DEF AcksOnTheWay
  <2> HIDE DEF one, rest
  <2>7. (acked \o one) \o rest = acked \o (one \o rest)
    BY <2>3, <2>5, Associative
  <2>8. acked' \o AcksOnTheWay' = acked \o AcksOnTheWay
    BY <2>4, <2>6, <2>7
  <2> QED
    BY <1>1, <1>4, <2>8 DEF AckInv, Acknowledging, EventPids
<1> QED
  BY <1>5, <1>6

LEMMA AckHubEvent ==
  ASSUME TypeInv, AckInv, NEW op \in EventOps, HubEvent(op), UNCHANGED setting
  PROVE  AckInv'
<1> DEFINE f == Msg(op, Len(events) + 1)
           one == <<f.pid>>
<1>1. /\ f \in ClientFrames /\ f \in Frames /\ events' = Append(events, f) /\ Reply(f)
      /\ UNCHANGED <<connected, to_hub, acking, acked>>
  BY HubEventFacts DEF Reply
<1> HIDE DEF f
<1>2. /\ f \in Events => Unread(Events)' = Unread(Events) \o one
      /\ f \notin Events => Unread(Events)' = Unread(Events)
  BY <1>1, UnreadReply
<1>3. events \in Seq(Frames)
  BY BufferedFrames
<1>4. /\ f \in Events => PidsOf(events', Events) = PidsOf(events, Events) \o one
      /\ f \notin Events => PidsOf(events', Events) = PidsOf(events, Events)
  BY <1>1, <1>3, PidsOfAppend
<1>5. AcksOnTheWay' = AcksOnTheWay
  BY <1>1 DEF AcksOnTheWay
<1>6. CASE f \notin Events
  BY <1>1, <1>2, <1>4, <1>5, <1>6 DEF AckInv, Acknowledging, EventPids
<1>7. CASE f \in Events
  <2>1. f.pid \in Nat
    BY <1>1, FrameKinds
  <2>2. one \in Seq(Nat)
    BY <2>1
  <2> DEFINE sent == acked \o AcksOnTheWay
             rest == Unread(Events)
  <2>3. acked \in Seq(Nat) /\ AcksOnTheWay \in Seq(Nat) /\ rest \in Seq(Nat)
    BY AckTypes
  <2>4. sent \in Seq(Nat)
    BY <2>3, ConcatProperties
  <2>5. Acknowledging => sent \o rest = EventPids
    BY DEF AckInv
  <2>6. Unread(Events)' = rest \o one /\ EventPids' = EventPids \o one
        /\ acked' \o AcksOnTheWay' = sent
    BY <1>1, <1>2, <1>4, <1>5, <1>7 DEF EventPids
  <2> HIDE DEF sent, rest, one
  <2>7. sent \o (rest \o one) = (sent \o rest) \o one
    BY <2>2, <2>3, <2>4, Associative
  <2> QED
    BY <1>1, <2>5, <2>6, <2>7 DEF AckInv, Acknowledging
<1> QED
  BY <1>6, <1>7

LEMMA AckReceive ==
  ASSUME TypeInv, AckInv, Receive, UNCHANGED setting
  PROVE  AckInv'
<1> DEFINE f == Head(to_client)
<1>1. /\ f \in ClientFrames /\ f \in Frames /\ UNCHANGED hub
      /\ \/ f \in Events /\ acking' = f /\ UNCHANGED <<connected, to_hub>>
         \/ f \notin Events /\ Handle(f, <<>>) /\ UNCHANGED acking
  BY ReceiveFacts
<1>2. /\ acking' = f /\ f # NoFrame => Unread(Events)' = Unread(Events)
      /\ acking' = acking /\ f \notin Events => Unread(Events)' = Unread(Events)
  BY UnreadReceive
<1> HIDE DEF f
<1>3. Unread(Events)' = Unread(Events)
  BY <1>1, <1>2, FrameKindsApart
<1>4. UNCHANGED <<acked, events>>
  BY <1>1 DEF hub
<1>5. CASE UNCHANGED <<connected, to_hub>>
  BY <1>3, <1>4, <1>5, AckSame DEF AcksOnTheWay
<1>6. CASE Handle(f, <<>>)
  <2>1. connected' => connected /\ AcksOnTheWay' = AcksOnTheWay
    BY <1>1, <1>6, HandledAcks, NoAcks
  <2> QED
    BY <1>3, <1>4, <2>1 DEF AckInv, Acknowledging, EventPids
<1> QED
  BY <1>1, <1>5, <1>6

LEMMA AckSendAck ==
  ASSUME TypeInv, AckInv, SendAck, UNCHANGED setting
  PROVE  AckInv'
<1> DEFINE ack == Ack(acking.op, acking.pid, "ok")
           one == <<acking.pid>>
           rest == Unread(Events)'
<1>1. /\ acking \in Events /\ acking \in ClientFrames /\ acking \in Frames /\ Handle(acking, <<ack>>)
      /\ UNCHANGED <<to_client, hub>> /\ ack \in AckFrames /\ ack.pid = acking.pid
  BY SendAckFacts
<1> HIDE DEF ack
<1>2. <<ack>> \in Seq(AckFrames) /\ Pids(<<ack>>) = one
  BY <1>1 DEF Pids
<1>3. connected' => connected /\ AcksOnTheWay' = AcksOnTheWay \o one
  BY <1>1, <1>2, HandledAcks
<1>4. Unread(Events) = one \o rest
  BY <1>1, UnreadSent
<1>5. UNCHANGED <<acked, events>>
  BY <1>1 DEF hub
<1>6. acking.pid \in Nat
  BY <1>1, FrameKinds
<1>7. one \in Seq(Nat)
  BY <1>6
<1>8. rest \in Seq(Nat)
  <2>1. TypeInv'
    BY ReceiveTypes
  <2>2. to_client' \in Seq(Frames) /\ Held' = <<>>
    BY <1>1, BufferedFrames, SendAckFacts DEF Held
  <2>3. Sift(<<>>, Events) = <<>> /\ Pids(<<>>) = <<>>
    BY SiftEmpty DEF Pids
  <2>4. PidsOf(Held', Events) = <<>>
    BY <2>2, <2>3 DEF PidsOf
  <2>5. PidsOf(to_client', Events) \in Seq(Nat)
    BY <2>2, PidsOfType
  <2>6. PidsOf(Held', Events) \o PidsOf(to_client', Events) \in Seq(Nat)
    BY <2>4, <2>5, EmptySeq, ConcatProperties
  <2> QED
    BY <2>6 DEF Unread
<1> DEFINE way == AcksOnTheWay
           sent == acked \o way
<1>9. acked \in Seq(Nat) /\ way \in Seq(Nat)
  BY AckTypes
<1>10. Acknowledging => sent \o (one \o rest) = EventPids
  BY <1>4 DEF AckInv
<1>11. connected' => connected /\ AcksOnTheWay' = way \o one
  BY <1>3
<1> HIDE DEF one, rest, way
<1>12. sent \in Seq(Nat)
  BY <1>9, ConcatProperties
<1>13. (acked \o way) \o one = acked \o (way \o one)
  BY <1>7, <1>9, Associative
<1> HIDE DEF sent
<1>14. (sent \o one) \o rest = sent \o (one \o rest)
  BY <1>7, <1>8, <1>12, Associative
<1>15. acked \o (way \o one) = sent \o one
  BY <1>13 DEF sent
<1>16. Acknowledging' => (acked' \o AcksOnTheWay') \o Unread(Events)' = EventPids'
  BY <1>5, <1>10, <1>11, <1>14, <1>15 DEF rest, Acknowledging, EventPids
<1> QED
  BY <1>16 DEF AckInv

\* A question or floor message adds no ACK.
LEMMA AckAsk ==
  ASSUME TypeInv, AckInv, NEW q \in Asking \cup FloorFrames, Write(Append(<<>>, q)),
         UNCHANGED <<setting, connected, acked, events, acking, to_client>>
  PROVE  AckInv'
<1>1. CASE connected
  <2>1. AcksOnTheWay' = AcksOnTheWay
    BY <1>1, NoAcks, WrittenAcks
  <2>2. Unread(Events)' = Unread(Events)
    BY DEF Unread, Held
  <2> QED
    BY <2>1, <2>2, AckSame
<1>2. CASE ~connected
  BY <1>2 DEF AckInv, Acknowledging
<1> QED
  BY <1>1, <1>2

LEMMA AckCalls ==
  ASSUME TypeInv, AckInv, UNCHANGED setting,
         \/ HubDrop \/ SendFloorMbcp \/ PollEvents \/ DrainFloorMbcp \/ Close \/ TimeUp
         \/ TimeUpInAck \/ Lost
         \/ \E op \in BotOps : Request(op)
         \/ \E op \in AckedOps : DrainAllEvents(op) \/ WaitEvent(op)
  PROVE  AckInv'
<1>1. ASSUME HubDrop \/ Close PROVE AckInv'
  <2>1. connected' = FALSE
    BY <1>1 DEF HubDrop, Close
  <2> QED
    BY <2>1 DEF AckInv, Acknowledging
<1>2. ASSUME SendFloorMbcp PROVE AckInv'
  <2> DEFINE f == Msg("FLOOR_MBCP", pid)
  <2>1. /\ Write(<<f>>) /\ UNCHANGED <<connected, acked, events, acking, to_client>>
    BY <1>2 DEF SendFloorMbcp, hub
  <2>2. f \in FloorFrames
    BY DEF TypeInv, Calling, FloorFrames, FloorOps, Msgs, Msg
  <2> HIDE DEF f
  <2>3. <<f>> = Append(<<>>, f)
    OBVIOUS
  <2>4. Write(Append(<<>>, f))
    BY <2>1, <2>3
  <2> QED
    BY <2>1, <2>2, <2>4, AckAsk
<1>3. ASSUME NEW op \in BotOps, Request(op) PROVE AckInv'
  <2>1. /\ StartRequest(op, <<>>) /\ UNCHANGED <<connected, acked, events, acking, to_client>>
    BY <1>3 DEF Request, hub
  <2>2. op \in RequestOps
    BY DEF RequestOps
  <2> DEFINE q == Question(call')
  <2>3. q \in Asking /\ Write(Append(<<>>, q))
    BY <2>1, <2>2, StartQuestion
  <2> HIDE DEF q
  <2> QED
    BY <2>1, <2>3, AckAsk
<1>4. ASSUME PollEvents \/ DrainFloorMbcp \/ TimeUp \/ Lost
             \/ \E op \in AckedOps : DrainAllEvents(op) \/ WaitEvent(op)
      PROVE  AckInv'
  <2>1. UNCHANGED <<connected, to_hub, to_client, acking, acked, events>>
    BY <1>4 DEF PollEvents, DrainFloorMbcp, TimeUp, Lost, DrainAllEvents, WaitEvent, hub
  <2> QED
    BY <2>1, AckSame DEF AcksOnTheWay, Unread, Held
<1>5. ASSUME TimeUpInAck PROVE AckInv'
  BY <1>5 DEF TimeUpInAck, AckInv, Acknowledging
<1> QED
  BY <1>1, <1>2, <1>3, <1>4, <1>5

LEMMA AckStep ==
  ASSUME TypeInv, AckInv, [Next /\ UNCHANGED setting]_<<vars, setting>>
  PROVE  AckInv'
<1>0. UNCHANGED setting
  OBVIOUS
<1>1. CASE UNCHANGED vars
  <2>1. UNCHANGED <<connected, to_hub, to_client, acking, acked, events>>
    BY <1>1 DEF vars, hub
  <2> QED
    BY <1>0, <2>1, AckSame DEF AcksOnTheWay, Unread, Held
<1>2. CASE HubTake \/ Receive \/ SendAck \/ \E op \in EventOps : HubEvent(op)
  BY <1>0, <1>2, AckHubTake, AckReceive, AckSendAck, AckHubEvent
<1>3. CASE \/ HubDrop \/ SendFloorMbcp \/ PollEvents \/ DrainFloorMbcp \/ Close \/ TimeUp
           \/ TimeUpInAck \/ Lost
           \/ \E op \in BotOps : Request(op)
           \/ \E op \in AckedOps : DrainAllEvents(op) \/ WaitEvent(op)
  BY <1>0, <1>3, AckCalls
<1> QED
  BY <1>1, <1>2, <1>3 DEF Next

\* recv_frame acknowledges each event once and in order, whatever the session
\* was waiting for when it came.
THEOREM Acknowledged == Spec => []EventsAreAcked
<1>1. Init => TypeInv /\ AckInv
  BY TypeInit, AckInit
<1>2. TypeInv /\ AckInv /\ [Next /\ UNCHANGED setting]_<<vars, setting>> => (TypeInv /\ AckInv)'
  BY TypeStep, AckStep
<1>3. TypeInv /\ AckInv => EventsAreAcked
  <2> SUFFICES ASSUME TypeInv, AckInv, connected, ~setting.backpressure PROVE EventsAreAcked
    BY DEF EventsAreAcked
  <2>1. setting.backpressure = FALSE
    BY SettingType
  <2>2. (acked \o AcksOnTheWay) \o Unread(Events) = EventPids
    BY <2>1 DEF AckInv, Acknowledging
  <2> QED
    BY <2>2 DEF EventsAreAcked
<1> QED
  BY <1>1, <1>2, <1>3, PTL DEF Spec

-----------------------------------------------------------------------------
(***************************************************************************)
(* The mailbox.                                                            *)
(***************************************************************************)

Pending == [op \in EventOps |-> PendingOf(op)]
Kept(op) == PidsOf(event_buf, Of(op)) \o PidsOf(floor_mbcp_buf, Of(op))

LEMMA MailboxInit == Init /\ TypeInv => Box!Init
<1> SUFFICES ASSUME Init, TypeInv PROVE Box!Init
  OBVIOUS
<1>1. to_client = <<Msg("HELLO", 0)>> /\ acking = NoFrame /\ event_buf = <<>>
      /\ floor_mbcp_buf = <<>> /\ events = <<>> /\ taken = [op \in EventOps |-> <<>>]
  BY DEF Init
<1>2. ASSUME NEW op \in EventOps PROVE PendingOf(op) = <<>>
  <2> DEFINE f == Msg("HELLO", 0)
             S == Of(op)
  <2>1. f \in Frames /\ f \notin S
    BY DEF Frames, ClientFrames, Msgs, Msg, Of, EventOps, AckedOps, FloorOps
  <2> HIDE DEF f, S
  <2>2. PidsOf(<<f>>, S) = <<>> /\ PidsOf(<<>>, S) = <<>>
    BY <2>1, PidsOfOne
  <2>3. Unread(S) = <<>>
    BY <1>1, <2>2, UnreadWire DEF f
  <2>4. <<>> \o <<>> = <<>>
    BY EmptySeq, ConcatEmptySeq
  <2> QED
    BY <1>1, <2>2, <2>3, <2>4 DEF PendingOf, S
<1>3. Len(events) = 0 /\ setting.backpressure \in BOOLEAN
  BY <1>1, SettingType
<1> QED
  BY <1>1, <1>2, <1>3 DEF Box!Init

\* The frames of an opcode; each opcode is kept in one buffer only.
LEMMA OfKinds ==
  /\ \A op \in EventOps : \A f \in ClientFrames : f \in Of(op) <=> f.op = op
  /\ \A op \in AckedOps : FloorFrames \cap Of(op) = {}
  /\ (Events \cup Answering) \cap Of("FLOOR_MBCP") = {} /\ FloorFrames \subseteq Of("FLOOR_MBCP")
  /\ \A op \in EventOps : Answering \cap Of(op) = {}
BY DEF ClientFrames, Events, FloorFrames, Answering, Of, Msgs, Acks, Greetings, EventOps, AckedOps,
       FloorOps, RequestOps, RoomOps, BotOps

LEMMA EventOpsKnown ==
  /\ AckedOps \subseteq EventOps /\ "FLOOR_MBCP" \in EventOps /\ "FLOOR_MBCP" \notin AckedOps
  /\ \A op \in EventOps : op \in AckedOps \/ op = "FLOOR_MBCP"
BY DEF EventOps, AckedOps, FloorOps

LEMMA KeptOf ==
  ASSUME NEW e \in Seq(Events \cup Answering), NEW b \in Seq(FloorFrames), NEW op \in EventOps
  PROVE  PidsOf(e, Of(op)) \o PidsOf(b, Of(op))
           = IF op = "FLOOR_MBCP" THEN Pids(b) ELSE PidsOf(e, Of(op))
<1> DEFINE S == Of(op)
           pe == PidsOf(e, S)
           pb == PidsOf(b, S)
<1>1. e \in Seq(Frames) /\ b \in Seq(Frames)
  <2>1. Events \cup Answering \subseteq Frames /\ FloorFrames \subseteq Frames
    BY FrameKinds DEF Frames
  <2> QED
    BY <2>1, SeqMonotonic
<1>2. pe \in Seq(Nat) /\ pb \in Seq(Nat)
  BY <1>1, PidsOfType
<1>3. op = "FLOOR_MBCP" => pe = <<>> /\ pb = Pids(b)
  BY OfKinds, PidsOfAll
<1>4. op # "FLOOR_MBCP" => pb = <<>>
  BY OfKinds, EventOpsKnown, PidsOfAll
<1> HIDE DEF pe, pb
<1>5. pe \o <<>> = pe /\ <<>> \o pb = pb
  BY <1>2, ConcatEmptySeq
<1> QED
  BY <1>3, <1>4, <1>5 DEF pe, pb

LEMMA KeptShape ==
  ASSUME TypeInv, NEW op \in EventOps
  PROVE  /\ Kept(op) = IF op = "FLOOR_MBCP" THEN Pids(floor_mbcp_buf) ELSE PidsOf(event_buf, Of(op))
         /\ Kept(op) \in Seq(Nat) /\ PendingOf(op) = Kept(op) \o Unread(Of(op))
         /\ Unread(Of(op)) \in Seq(Nat) /\ PendingOf(op) \in Seq(Nat)
<1>1. Kept(op) = IF op = "FLOOR_MBCP" THEN Pids(floor_mbcp_buf) ELSE PidsOf(event_buf, Of(op))
  BY KeptOf DEF Kept, TypeInv, Buffered
<1>2. Pids(floor_mbcp_buf) \in Seq(Nat) /\ PidsOf(event_buf, Of(op)) \in Seq(Nat)
  BY BufferedFrames, PidsType, PidsOfType
<1>3. Unread(Of(op)) \in Seq(Nat)
  BY UnreadType
<1>4. PendingOf(op) = Kept(op) \o Unread(Of(op))
  BY DEF PendingOf, Kept
<1> QED
  BY <1>1, <1>2, <1>3, <1>4, ConcatProperties

LEMMA UnreadOf ==
  ASSUME NEW h \in Events \cup {NoFrame}, NEW w \in Seq(ClientFrames), NEW S
  PROVE  PidsOf(IF h = NoFrame THEN <<>> ELSE <<h>>, S) \o PidsOf(w, S) \in Seq(Nat)
<1> DEFINE held == IF h = NoFrame THEN <<>> ELSE <<h>>
<1>1. held \in Seq(Frames)
  <2>1. h # NoFrame => h \in Frames
    BY FrameKinds DEF Frames
  <2> QED
    BY <2>1, EmptySeq
<1>2. w \in Seq(Frames)
  BY SeqMonotonic DEF Frames
<1> HIDE DEF held
<1>3. PidsOf(held, S) \in Seq(Nat) /\ PidsOf(w, S) \in Seq(Nat)
  BY <1>1, <1>2, PidsOfType
<1> QED
  BY <1>3, ConcatProperties DEF held

LEMMA KeptShapeNext ==
  ASSUME TypeInv', NEW op \in EventOps
  PROVE  /\ Kept(op)' = IF op = "FLOOR_MBCP" THEN Pids(floor_mbcp_buf') ELSE PidsOf(event_buf', Of(op))
         /\ PendingOf(op)' = Kept(op)' \o Unread(Of(op))'
         /\ Unread(Of(op))' \in Seq(Nat) /\ PendingOf(op)' \in Seq(Nat)
<1>1. /\ event_buf' \in Seq(Events \cup Answering) /\ floor_mbcp_buf' \in Seq(FloorFrames)
      /\ to_client' \in Seq(ClientFrames) /\ acking' \in Events \cup {NoFrame}
  BY DEF TypeInv, Buffered, Wires
<1>2. Kept(op)' = IF op = "FLOOR_MBCP" THEN Pids(floor_mbcp_buf') ELSE PidsOf(event_buf', Of(op))
  BY <1>1, KeptOf DEF Kept
<1>3. event_buf' \in Seq(Frames) /\ floor_mbcp_buf' \in Seq(Frames)
  <2>1. Events \cup Answering \subseteq Frames /\ FloorFrames \subseteq Frames
    BY FrameKinds DEF Frames
  <2> QED
    BY <1>1, <2>1, SeqMonotonic
<1>4. Pids(floor_mbcp_buf') \in Seq(Nat) /\ PidsOf(event_buf', Of(op)) \in Seq(Nat)
  BY <1>3, PidsType, PidsOfType
<1>5. Unread(Of(op))' \in Seq(Nat)
  BY <1>1, UnreadOf DEF Unread, Held
<1>6. PendingOf(op)' = Kept(op)' \o Unread(Of(op))'
  BY DEF PendingOf, Kept
<1> QED
  BY <1>2, <1>4, <1>5, <1>6, ConcatProperties

\* A frame that is put away is kept after those of its opcode.
LEMMA BufferPids ==
  ASSUME TypeInv, TypeInv', NEW f \in ClientFrames, Buffer(f), NEW op \in EventOps
  PROVE  /\ f.op = op => Kept(op)' = Kept(op) \o <<f.pid>>
         /\ f.op # op => Kept(op)' = Kept(op)
<1>1. /\ Kept(op) = IF op = "FLOOR_MBCP" THEN Pids(floor_mbcp_buf) ELSE PidsOf(event_buf, Of(op))
      /\ Kept(op)' = IF op = "FLOOR_MBCP" THEN Pids(floor_mbcp_buf') ELSE PidsOf(event_buf', Of(op))
  BY KeptShape, KeptShapeNext
<1>2. f \in Frames /\ (f \in Of(op) <=> f.op = op)
  BY OfKinds DEF Frames
<1>3. floor_mbcp_buf \in Seq(Frames) /\ event_buf \in Seq(Frames)
  BY BufferedFrames
<1>4. ASSUME f.op # "FLOOR_MBCP"
      PROVE  /\ floor_mbcp_buf' = floor_mbcp_buf
             /\ f.op = op => PidsOf(event_buf', Of(op)) = PidsOf(event_buf, Of(op)) \o <<f.pid>>
             /\ f.op # op => PidsOf(event_buf', Of(op)) = PidsOf(event_buf, Of(op))
  <2>1. event_buf' = Append(event_buf, f) /\ UNCHANGED floor_mbcp_buf
    BY <1>4 DEF Buffer
  <2> DEFINE S == Of(op)
  <2>2. f \in S <=> f.op = op
    BY <1>2
  <2> HIDE DEF S
  <2>3. /\ f \in S => PidsOf(Append(event_buf, f), S) = PidsOf(event_buf, S) \o <<f.pid>>
        /\ f \notin S => PidsOf(Append(event_buf, f), S) = PidsOf(event_buf, S)
    BY <1>2, <1>3, PidsOfAppend
  <2> QED
    BY <2>1, <2>2, <2>3 DEF S
<1>5. ASSUME f.op = "FLOOR_MBCP"
      PROVE  event_buf' = event_buf /\ Pids(floor_mbcp_buf') = Pids(floor_mbcp_buf) \o <<f.pid>>
  <2>1. floor_mbcp_buf' = Append(floor_mbcp_buf, f) /\ UNCHANGED event_buf
    BY <1>5 DEF Buffer
  <2> DEFINE one == <<f>>
  <2>2. one \in Seq(Frames) /\ Pids(one) = <<f.pid>>
    BY <1>2, PidsOfOne
  <2>3. floor_mbcp_buf' = floor_mbcp_buf \o one
    BY <1>2, <1>3, <2>1, AppendIsConcat
  <2> HIDE DEF one
  <2>4. Pids(floor_mbcp_buf \o one) = Pids(floor_mbcp_buf) \o Pids(one)
    BY <1>3, <2>2, PidsConcat
  <2> QED
    BY <2>1, <2>2, <2>3, <2>4
<1> QED
  BY <1>1, <1>4, <1>5

-----------------------------------------------------------------------------

\* What is taken from the front of a sequence, and what is lost within.
LEMMA FrontOf ==
  ASSUME NEW s \in Seq(Nat), NEW t \in Seq(Nat)
  PROVE  /\ SubSeq(s \o t, 1, Len(s)) = s
         /\ SubSeq(s \o t, Len(s) + 1, Len(s \o t)) = t
         /\ Len(s \o t) = Len(s) + Len(t)
<1> DEFINE st == s \o t
           n == Len(s)
           m == Len(t)
           front == SubSeq(st, 1, n)
           back == SubSeq(st, n + 1, n + m)
<1>1. n \in Nat /\ m \in Nat
  BY LenProperties
<1>2. st \in Seq(Nat) /\ Len(st) = n + m
      /\ \A i \in 1 .. n + m : st[i] = IF i <= n THEN s[i] ELSE t[i - n]
  BY ConcatProperties
<1> HIDE DEF st
<1>3. \A i \in 1 .. n + m : st[i] \in Nat
  BY <1>2, ElementOfSeq
<1>4. front \in Seq(Nat) /\ Len(front) = n /\ \A i \in 1 .. n : front[i] = st[i]
  BY <1>1, <1>2, <1>3, SubSeqProperties
<1>5. back \in Seq(Nat) /\ Len(back) = m /\ \A i \in 1 .. m : back[i] = st[n + i]
  BY <1>1, <1>2, <1>3, SubSeqProperties
<1> HIDE DEF front, back
<1>6. front = s
  <2>1. \A i \in 1 .. n : front[i] = s[i]
    BY <1>1, <1>2, <1>4
  <2> QED
    BY <1>4, <2>1, SeqEqual
<1>7. back = t
  <2>1. ASSUME NEW i \in 1 .. m PROVE back[i] = t[i]
    <3>1. n + i \in 1 .. n + m /\ ~(n + i <= n) /\ (n + i) - n = i
      BY <1>1
    <3> QED
      BY <1>2, <1>5, <3>1
  <2> QED
    BY <1>5, <2>1, SeqEqual
<1> QED
  BY <1>2, <1>6, <1>7 DEF st, front, back

\* The steps of the mailbox, from what happens to the frames of one opcode.
Elsewhere(op) == \A o \in EventOps \ {op} : PendingOf(o)' = PendingOf(o)

LEMMA PendingExcept ==
  ASSUME NEW op \in EventOps, Elsewhere(op)
  PROVE  Pending' = [Pending EXCEPT ![op] = PendingOf(op)'] /\ Pending[op] = PendingOf(op)
BY DEF Elsewhere, Pending

LEMMA Takes ==
  ASSUME TypeInv, TypeInv', UNCHANGED <<setting, events>>, NEW op \in EventOps, Elsewhere(op),
         NEW s \in Seq(Nat), s # <<>>, PendingOf(op) = s \o PendingOf(op)',
         taken' = [taken EXCEPT ![op] = taken[op] \o s]
  PROVE  Box!Next
<1> DEFINE P == PendingOf(op)
           left == PendingOf(op)'
           n == Len(s)
<1>1. Pending' = [Pending EXCEPT ![op] = left] /\ Pending[op] = P
  BY PendingExcept
<1>2. left \in Seq(Nat) /\ P = s \o left
  BY KeptShapeNext
<1> HIDE DEF P, left
<1>3. SubSeq(P, 1, n) = s /\ SubSeq(P, n + 1, Len(P)) = left /\ Len(P) = n + Len(left)
  BY <1>2, FrontOf
<1>4. n \in 1 .. Len(P)
  <2>1. n \in Nat /\ Len(left) \in Nat /\ n # 0
    BY <1>2, LenProperties, EmptySeq
  <2> QED
    BY <1>3, <2>1
<1>5. Box!Take(op, n)
  BY <1>1, <1>3 DEF Box!Take, Pending
<1> QED
  BY <1>1, <1>4, <1>5 DEF Box!Next, Pending

LEMMA Loses ==
  ASSUME TypeInv, TypeInv', setting.backpressure, UNCHANGED <<setting, events, taken>>,
         NEW op \in EventOps, Elsewhere(op), NEW a \in Seq(Nat), NEW b \in Seq(Nat), NEW p \in Nat,
         PendingOf(op) = (a \o <<p>>) \o b, PendingOf(op)' = a \o b
  PROVE  Box!Next
<1> DEFINE one == <<p>>
           P == PendingOf(op)
           n == Len(a) + 1
           ap == a \o one
<1>1. Pending' = [Pending EXCEPT ![op] = a \o b] /\ Pending[op] = P
  BY PendingExcept
<1>2. one \in Seq(Nat) /\ Len(one) = 1
  OBVIOUS
<1>p. P = ap \o b
  OBVIOUS
<1> HIDE DEF one, P
<1>3. ap \in Seq(Nat) /\ Len(ap) = n
  <2>1. one \in Seq(Nat)
    BY <1>2
  <2>2. a \o one \in Seq(Nat) /\ Len(a \o one) = Len(a) + Len(one)
    BY <2>1, ConcatProperties
  <2> QED
    BY <1>2, <2>2
<1>4. ap \o b = a \o (one \o b)
  BY <1>2, Associative
<1> DEFINE ob == one \o b
<1>5. ob \in Seq(Nat)
  BY <1>2, ConcatProperties
<1> HIDE DEF ap, ob
<1>6. SubSeq(ap \o b, Len(ap) + 1, Len(ap \o b)) = b /\ Len(ap \o b) = Len(ap) + Len(b)
  <2>1. ap \in Seq(Nat) /\ b \in Seq(Nat)
    BY <1>3
  <2> QED
    BY ONLY <2>1, FrontOf
<1>7. SubSeq(a \o ob, 1, Len(a)) = a
  <2>1. a \in Seq(Nat) /\ ob \in Seq(Nat)
    BY <1>5
  <2> QED
    BY ONLY <2>1, FrontOf
<1>8. Len(a) \in Nat /\ Len(b) \in Nat
  BY LenProperties
<1>9. SubSeq(P, n + 1, Len(P)) = b /\ SubSeq(P, 1, n - 1) = a /\ n \in 1 .. Len(P)
  <2>1. P = a \o ob
    BY <1>p, <1>4 DEF ob
  <2>2. SubSeq(P, n + 1, Len(P)) = b /\ Len(P) = n + Len(b)
    BY <1>p, <1>3, <1>6
  <2>3. n = Len(a) + 1
    BY <1>8
  <2>4. SubSeq(P, 1, n - 1) = a
    BY <1>7, <1>8, <2>1, <2>3
  <2>5. n \in 1 .. Len(P)
    BY <1>8, <2>2, <2>3
  <2> QED
    BY <2>2, <2>4, <2>5
<1>10. Box!Lose(op, n)
  BY <1>1, <1>9 DEF Box!Lose, Pending
<1> QED
  BY <1>1, <1>9, <1>10 DEF Box!Next, Pending

LEMMA Stutters ==
  ASSUME \A op \in EventOps : PendingOf(op)' = PendingOf(op), UNCHANGED <<setting, events, taken>>
  PROVE  UNCHANGED <<setting.backpressure, Len(events), Pending, taken>>
BY DEF Pending

-----------------------------------------------------------------------------

\* While it waits for an event of an opcode, the session keeps none of them.
WaitInv == call.what = "wait" => Kept(call.op) = <<>>

Maps == [Box!Next]_<<setting.backpressure, Len(events), Pending, taken>>

LEMMA NothingMoves ==
  ASSUME UNCHANGED <<setting, to_client, acking, event_buf, floor_mbcp_buf, events, taken>>
  PROVE  Maps /\ \A op : Kept(op)' = Kept(op)
<1>1. \A op : Kept(op)' = Kept(op) /\ PendingOf(op)' = PendingOf(op)
  BY DEF Kept, PendingOf, Unread, Held
<1> QED
  BY <1>1, Stutters DEF Maps

LEMMA OrderQuiet ==
  ASSUME TypeInv, TypeInv', WaitInv, UNCHANGED setting,
         \/ HubDrop \/ SendFloorMbcp \/ PollEvents \/ Close \/ TimeUp \/ Lost
         \/ (\E op \in BotOps : Request(op)) \/ UNCHANGED vars
  PROVE  WaitInv' /\ Maps
<1>1. /\ UNCHANGED <<to_client, acking, event_buf, floor_mbcp_buf, events, taken>>
      /\ call' = call \/ call'.what # "wait"
  <2>1. CASE HubDrop \/ SendFloorMbcp
    BY <2>1 DEF HubDrop, SendFloorMbcp, buffers, hub
  <2>2. CASE PollEvents \/ Close
    BY <2>2 DEF PollEvents, Close, buffers, hub, Gone, Awaiting
  <2>3. CASE TimeUp \/ Lost
    BY <2>3 DEF TimeUp, Lost, buffers, hub, Idle, Gone, Awaiting
  <2>4. ASSUME NEW op \in BotOps, Request(op)
        PROVE  UNCHANGED <<to_client, acking, event_buf, floor_mbcp_buf, events, taken>>
               /\ call'.what # "wait"
    BY <2>4, RequestStep DEF Request, buffers, hub
  <2>5. CASE UNCHANGED vars
    BY <2>5 DEF vars, buffers, hub
  <2> QED
    BY <2>1, <2>2, <2>3, <2>4, <2>5
<1>2. Maps /\ \A op : Kept(op)' = Kept(op)
  BY <1>1, NothingMoves
<1> QED
  BY <1>1, <1>2 DEF WaitInv

LEMMA OrderHubTake ==
  ASSUME TypeInv, TypeInv', WaitInv, UNCHANGED setting, HubTake
  PROVE  WaitInv' /\ Maps
<1>1. /\ UNCHANGED <<call, acking, event_buf, floor_mbcp_buf, events, taken>>
      /\ UNCHANGED to_client \/ \E g \in Answering : Reply(g)
  BY HubTakes DEF buffers
<1>2. CASE UNCHANGED to_client
  BY <1>1, <1>2, NothingMoves DEF WaitInv
<1>3. ASSUME NEW g \in Answering, Reply(g) PROVE WaitInv' /\ Maps
  <2>1. \A op : Kept(op)' = Kept(op)
    BY <1>1 DEF Kept
  <2>2. ASSUME NEW op \in EventOps PROVE PendingOf(op)' = PendingOf(op)
    <3> DEFINE S == Of(op)
    <3>1. g \in ClientFrames /\ g \notin S
      BY FrameKinds, OfKinds
    <3> HIDE DEF S
    <3>2. Unread(S)' = Unread(S)
      BY <1>1, <1>3, <3>1, UnreadReply
    <3> QED
      BY <2>1, <3>2, KeptShape, KeptShapeNext DEF S
  <2> QED
    BY <1>1, <2>1, <2>2, Stutters DEF Maps, WaitInv
<1> QED
  BY <1>1, <1>2, <1>3

LEMMA OrderHubEvent ==
  ASSUME TypeInv, TypeInv', WaitInv, UNCHANGED setting, NEW op \in EventOps, HubEvent(op)
  PROVE  WaitInv' /\ Maps
<1> DEFINE f == Msg(op, Len(events) + 1)
           n == Len(events) + 1
           one == <<n>>
<1>1. /\ f \in ClientFrames /\ f.op = op /\ f.pid = n /\ events' = Append(events, f) /\ Reply(f)
      /\ UNCHANGED <<call, acking, event_buf, floor_mbcp_buf, taken>>
  BY HubEventFacts DEF Reply, buffers
<1>2. Len(events') = n /\ Len(events) \in Nat
  BY <1>1, LenProperties, AppendProperties DEF TypeInv, Records
<1> HIDE DEF f
<1>3. \A o : Kept(o)' = Kept(o)
  BY <1>1 DEF Kept
<1>4. ASSUME NEW o \in EventOps
      PROVE  /\ o = op => Unread(Of(o))' = Unread(Of(o)) \o one
             /\ o # op => Unread(Of(o))' = Unread(Of(o))
  <2> DEFINE S == Of(o)
  <2>1. f \in S <=> o = op
    BY <1>1, OfKinds
  <2> HIDE DEF S
  <2>2. /\ f \in S => Unread(S)' = Unread(S) \o <<f.pid>>
        /\ f \notin S => Unread(S)' = Unread(S)
    BY <1>1, UnreadReply
  <2> QED
    BY <1>1, <2>1, <2>2 DEF S
<1>5. Elsewhere(op)
  BY <1>3, <1>4, KeptShape, KeptShapeNext DEF Elsewhere
<1>6. PendingOf(op)' = Append(PendingOf(op), n)
  <2> DEFINE k == Kept(op)
             u == Unread(Of(op))
             p == PendingOf(op)
  <2>1. k \in Seq(Nat) /\ u \in Seq(Nat) /\ p \in Seq(Nat) /\ p = k \o u
    BY KeptShape
  <2>2. PendingOf(op)' = k \o (u \o one)
    BY <1>3, <1>4, KeptShapeNext
  <2>3. one \in Seq(Nat) /\ n \in Nat
    BY <1>2
  <2>4. k \in Seq(Nat) /\ u \in Seq(Nat)
    BY <2>1
  <2> HIDE DEF k, u, p, one
  <2>5. (k \o u) \o one = k \o (u \o one)
    BY <2>3, <2>4, Associative
  <2> HIDE DEF n
  <2>6. Append(p, n) = p \o one
    BY <2>1, <2>3, AppendIsConcat DEF one
  <2> QED
    BY <2>1, <2>2, <2>5, <2>6 DEF p
<1>7. Pending' = [Pending EXCEPT ![op] = Append(Pending[op], n)]
  BY <1>5, <1>6, PendingExcept
<1>8. Box!Publish(op)
  BY <1>1, <1>2, <1>7 DEF Box!Publish, Pending
<1> QED
  BY <1>1, <1>3, <1>8 DEF Maps, WaitInv, Box!Next, Pending

\* What is taken out of event_buf by one drain, and what stays.
LEMMA DrainKept ==
  ASSUME NEW s \in Seq(Events \cup Answering), NEW op \in AckedOps, NEW o \in EventOps
  PROVE  LET left == Sift(s, ClientFrames \ Of(op))
         IN  PidsOf(left, Of(o)) = IF o = op THEN <<>> ELSE PidsOf(s, Of(o))
<1> DEFINE M == Events \cup Answering
           T == ClientFrames \ Of(op)
           U == Of(o)
           V == T \cap U
<1>1. M \subseteq ClientFrames
  BY FrameKinds
<1>2. op \in EventOps
  BY EventOpsKnown
<1>3. o = op => M \cap V = {}
  OBVIOUS
<1>4. o # op => M \cap V = M \cap U
  BY <1>1, <1>2, OfKinds
<1> HIDE DEF M, T, U
<1>5. s \in Seq(M)
  BY DEF M
<1>6. Sift(Sift(s, T), U) = Sift(s, V)
  BY <1>5, SiftSift
<1> HIDE DEF V
<1>7. o = op => Sift(s, V) = <<>>
  BY <1>3, <1>5, SiftNone
<1>8. o # op => Sift(s, V) = Sift(s, U)
  BY <1>4, <1>5, SiftSame
<1>9. Pids(<<>>) = <<>>
  BY DEF Pids
<1> QED
  BY <1>6, <1>7, <1>8, <1>9 DEF PidsOf, T, U

LEMMA OrderDrain ==
  ASSUME TypeInv, TypeInv', WaitInv, UNCHANGED setting, NEW op \in AckedOps, DrainAllEvents(op)
  PROVE  WaitInv' /\ Maps
<1> DEFINE kept == Sift(event_buf, Of(op))
           s == Pids(kept)
           left == Sift(event_buf, ClientFrames \ Of(op))
<1>1. /\ kept # <<>> /\ Hand(op, kept) /\ event_buf' = left /\ call = Idle
      /\ UNCHANGED <<to_client, call, acking, floor_mbcp_buf, events>>
  BY DEF DrainAllEvents, hub
<1>2. kept \in Seq(Frames)
  BY BufferedFrames, PidsOfType
<1>3. event_buf \in Seq(Events \cup Answering)
  BY DEF TypeInv, Buffered
<1>4. \A o \in EventOps : PidsOf(left, Of(o)) = IF o = op THEN <<>> ELSE PidsOf(event_buf, Of(o))
  BY <1>3, DrainKept
<1>o. op \in EventOps /\ op # "FLOOR_MBCP"
  BY EventOpsKnown
<1> HIDE DEF kept, left
<1>5. s \in Seq(Nat) /\ s # <<>>
  BY <1>1, <1>2, PidsType, EmptySeq
<1>6. taken' = [taken EXCEPT ![op] = taken[op] \o s]
  BY <1>1 DEF Hand
<1>7. \A o : Unread(o)' = Unread(o)
  BY <1>1 DEF Unread, Held
<1>8. ASSUME NEW o \in EventOps, o # op PROVE PendingOf(o)' = PendingOf(o)
  <2>1. Kept(o)' = Kept(o)
    BY <1>1, <1>4, <1>8, KeptShape, KeptShapeNext
  <2> QED
    BY <1>7, <2>1, KeptShape, KeptShapeNext
<1>9. PendingOf(op) = s \o PendingOf(op)'
  <2> DEFINE u == Unread(Of(op))
  <2>1. Kept(op) = s /\ Kept(op)' = <<>>
    BY <1>1, <1>4, <1>o, KeptShape, KeptShapeNext DEF PidsOf, kept
  <2>2. u \in Seq(Nat) /\ PendingOf(op) = s \o u /\ PendingOf(op)' = <<>> \o u
    BY <1>7, <1>o, <2>1, KeptShape, KeptShapeNext
  <2> HIDE DEF u, s
  <2>3. <<>> \o u = u
    BY <2>2, ConcatEmptySeq
  <2> QED
    BY <2>2, <2>3
<1>10. Elsewhere(op)
  BY <1>8 DEF Elsewhere
<1> HIDE DEF s
<1>11. Box!Next
  BY <1>1, <1>o, <1>5, <1>6, <1>9, <1>10, Takes
<1>12. WaitInv'
  BY <1>1 DEF WaitInv, Idle, Awaiting
<1> QED
  BY <1>11, <1>12 DEF Maps

LEMMA OrderDrainFloor ==
  ASSUME TypeInv, TypeInv', WaitInv, UNCHANGED setting, DrainFloorMbcp
  PROVE  WaitInv' /\ Maps
<1> DEFINE s == Pids(floor_mbcp_buf)
           op == "FLOOR_MBCP"
<1>1. /\ floor_mbcp_buf # <<>> /\ Hand(op, floor_mbcp_buf) /\ floor_mbcp_buf' = <<>> /\ call = Idle
      /\ UNCHANGED <<to_client, call, acking, event_buf, events>>
  BY DEF DrainFloorMbcp, hub
<1>2. floor_mbcp_buf \in Seq(Frames)
  BY BufferedFrames
<1>3. s \in Seq(Nat) /\ s # <<>>
  BY <1>1, <1>2, PidsType, EmptySeq
<1>4. taken' = [taken EXCEPT ![op] = taken[op] \o s]
  BY <1>1 DEF Hand
<1>5. \A o : Unread(o)' = Unread(o)
  BY <1>1 DEF Unread, Held
<1>o. op \in EventOps
  BY EventOpsKnown
<1>6. ASSUME NEW o \in EventOps, o # op PROVE PendingOf(o)' = PendingOf(o)
  <2>1. Kept(o)' = Kept(o)
    BY <1>1, <1>6, KeptShape, KeptShapeNext
  <2> QED
    BY <1>5, <2>1, KeptShape, KeptShapeNext
<1>7. PendingOf(op) = s \o PendingOf(op)'
  <2> DEFINE u == Unread(Of(op))
  <2>0. Pids(<<>>) = <<>>
    BY DEF Pids
  <2>1. Kept(op) = s /\ Kept(op)' = <<>>
    BY <1>1, <1>o, <2>0, KeptShape, KeptShapeNext
  <2>2. u \in Seq(Nat) /\ PendingOf(op) = s \o u /\ PendingOf(op)' = <<>> \o u
    BY <1>5, <1>o, <2>1, KeptShape, KeptShapeNext
  <2> HIDE DEF u, s
  <2>3. <<>> \o u = u
    BY <2>2, ConcatEmptySeq
  <2> QED
    BY <2>2, <2>3
<1>8. Elsewhere(op)
  BY <1>6 DEF Elsewhere
<1> HIDE DEF s, op
<1>9. Box!Next
  BY <1>1, <1>o, <1>3, <1>4, <1>7, <1>8, Takes
<1>10. WaitInv'
  BY <1>1 DEF WaitInv, Idle, Awaiting
<1> QED
  BY <1>9, <1>10 DEF Maps

LEMMA OrderWait ==
  ASSUME TypeInv, TypeInv', WaitInv, UNCHANGED setting, NEW op \in AckedOps, WaitEvent(op)
  PROVE  WaitInv' /\ Maps
<1>o. op \in EventOps /\ op # "FLOOR_MBCP"
  BY EventOpsKnown
<1>u. UNCHANGED <<to_client, acking, floor_mbcp_buf, events>> /\ call = Idle
  BY DEF WaitEvent, hub
<1>1. ASSUME Sift(event_buf, Of(op)) = <<>>, call' = Awaiting("wait", op, 0),
             UNCHANGED <<event_buf, taken>>
      PROVE  WaitInv' /\ Maps
  <2>1. Maps /\ \A o : Kept(o)' = Kept(o)
    BY <1>u, <1>1, NothingMoves
  <2>2. Kept(op) = <<>>
    <3>1. Pids(<<>>) = <<>>
      BY DEF Pids
    <3> QED
      BY <1>o, <1>1, <3>1, KeptShape DEF PidsOf
  <2>3. call'.op = op
    BY <1>1 DEF Awaiting
  <2> QED
    BY <2>1, <2>2, <2>3 DEF WaitInv
<1>2. ASSUME NEW n \in 1 .. Len(event_buf), event_buf[n] \in Of(op),
             Sift(SubSeq(event_buf, 1, n - 1), Of(op)) = <<>>,
             Hand(op, <<event_buf[n]>>), UNCHANGED call,
             event_buf' = SubSeq(event_buf, 1, n - 1) \o SubSeq(event_buf, n + 1, Len(event_buf))
      PROVE  WaitInv' /\ Maps
  <2> DEFINE a == SubSeq(event_buf, 1, n - 1)
             b == SubSeq(event_buf, n + 1, Len(event_buf))
             x == event_buf[n]
             one == <<x>>
             s == Pids(one)
  <2>1. event_buf \in Seq(Frames) /\ event_buf \in Seq(Events \cup Answering)
    BY BufferedFrames DEF TypeInv, Buffered
  <2>2. x \in Frames /\ a \in Seq(Frames) /\ b \in Seq(Frames) /\ (a \o <<x>>) \o b = event_buf
    BY <2>1, Within
  <2>3. x \in ClientFrames
    <3>1. Events \cup Answering \subseteq ClientFrames
      BY FrameKinds
    <3> QED
      BY <2>1, <3>1, Within
  <2>4. x \in Of(op) /\ Sift(a, Of(op)) = <<>> /\ event_buf' = a \o b /\ Hand(op, <<x>>)
    BY <1>2
  <2>e. event_buf = (a \o one) \o b
    BY <2>2
  <2>w. x \in Frames /\ a \in Seq(Frames) /\ b \in Seq(Frames)
    BY <2>2
  <2> HIDE DEF a, b, x
  <2>v. one \in Seq(Frames)
    BY <2>w
  <2>m. one \in Seq(Frames) /\ a \in Seq(Frames) /\ b \in Seq(Frames)
    BY <2>v, <2>w
  <2>f. \A S : PidsOf(one, S) = IF x \in S THEN <<x.pid>> ELSE <<>>
    BY <2>w, PidsOfOne
  <2>5. x.op = op /\ x.pid \in Nat
    BY <1>o, <2>2, <2>3, <2>4, OfKinds, FrameKinds
  <2>6. s = <<x.pid>> /\ s \in Seq(Nat)
    BY <2>5 DEF Pids
  <2>7. s # <<>>
    <3>1. <<x.pid>> # <<>>
      OBVIOUS
    <3> QED
      BY <2>6, <3>1
  <2>8. taken' = [taken EXCEPT ![op] = taken[op] \o s]
    BY <2>4 DEF Hand
  <2> HIDE DEF s, one
  <2>9. \A o : Unread(o)' = Unread(o)
    BY <1>u DEF Unread, Held
  <2>t. ASSUME NEW S
        PROVE  /\ PidsOf(event_buf, S) = (PidsOf(a, S) \o PidsOf(one, S)) \o PidsOf(b, S)
               /\ PidsOf(a \o b, S) = PidsOf(a, S) \o PidsOf(b, S)
               /\ PidsOf(a, S) \in Seq(Nat) /\ PidsOf(b, S) \in Seq(Nat)
    <3> DEFINE ax == a \o one
    <3>1. ax \in Seq(Frames)
      BY <2>m, ConcatProperties
    <3>0. a \in Seq(Frames) /\ b \in Seq(Frames) /\ one \in Seq(Frames)
      BY <2>m
    <3>2. PidsOf(a \o one, S) = PidsOf(a, S) \o PidsOf(one, S)
      BY <3>0, PidsOfConcat
    <3>3. PidsOf(a \o b, S) = PidsOf(a, S) \o PidsOf(b, S)
      BY <3>0, PidsOfConcat
    <3>4. PidsOf(a, S) \in Seq(Nat) /\ PidsOf(b, S) \in Seq(Nat)
      BY <3>0, PidsOfType
    <3>5. PidsOf(ax, S) = PidsOf(a, S) \o PidsOf(one, S)
      BY <3>2
    <3> HIDE DEF ax
    <3>6. PidsOf(ax \o b, S) = PidsOf(ax, S) \o PidsOf(b, S)
      BY ONLY <3>0, <3>1, PidsOfConcat
    <3> QED
      BY <2>e, <3>3, <3>4, <3>5, <3>6 DEF ax
  <2>10. ASSUME NEW o \in EventOps, o # op PROVE PendingOf(o)' = PendingOf(o)
    <3> DEFINE S == Of(o)
               pa == PidsOf(a, S)
               pb == PidsOf(b, S)
    <3>1. x \notin S
      BY <2>3, <2>5, <2>10, OfKinds
    <3> HIDE DEF S
    <3>2. /\ PidsOf(event_buf, S) = (pa \o PidsOf(one, S)) \o pb
          /\ PidsOf(a \o b, S) = pa \o pb
          /\ pa \in Seq(Nat)
      BY <2>t
    <3> HIDE DEF pa, pb
    <3>3. pa \o <<>> = pa
      BY <3>2, ConcatEmptySeq
    <3>4. PidsOf(event_buf, S) = PidsOf(event_buf', S)
      BY <2>4, <2>f, <3>1, <3>2, <3>3
    <3>5. Kept(o)' = Kept(o)
      BY <1>u, <3>4, KeptShape, KeptShapeNext DEF S
    <3> QED
      BY <2>9, <3>5, KeptShape, KeptShapeNext
  <2>11. PendingOf(op) = s \o PendingOf(op)'
    <3> DEFINE S == Of(op)
               pa == PidsOf(a, S)
               pb == PidsOf(b, S)
               u == Unread(S)
    <3>1. x \in S /\ pa = <<>>
      <4>1. Pids(<<>>) = <<>>
        BY DEF Pids
      <4> QED
        BY <2>4, <4>1 DEF PidsOf
    <3>2. u \in Seq(Nat)
      BY <1>o, KeptShape
    <3>3. Kept(op) = PidsOf(event_buf, S) /\ PendingOf(op) = Kept(op) \o u
          /\ Kept(op)' = PidsOf(event_buf', S) /\ PendingOf(op)' = Kept(op)' \o u
      BY <1>o, <2>9, KeptShape, KeptShapeNext
    <3> HIDE DEF S, u
    <3>4. /\ PidsOf(event_buf, S) = (pa \o PidsOf(one, S)) \o pb
          /\ PidsOf(a \o b, S) = pa \o pb
          /\ pb \in Seq(Nat)
      BY <2>t
    <3> HIDE DEF pa, pb
    <3>5. <<>> \o pb = pb /\ <<>> \o s = s
      BY <2>6, <3>4, ConcatEmptySeq
    <3>6. PidsOf(event_buf, S) = s \o pb
      BY <2>f, <2>6, <3>1, <3>4, <3>5
    <3>7. PidsOf(event_buf', S) = pb
      BY <2>4, <3>1, <3>4, <3>5
    <3>t. s \in Seq(Nat) /\ pb \in Seq(Nat) /\ u \in Seq(Nat)
      BY <2>6, <3>2, <3>4
    <3>8. (s \o pb) \o u = s \o (pb \o u)
      BY <3>t, Associative
    <3> QED
      BY <3>3, <3>6, <3>7, <3>8
  <2>12. Elsewhere(op)
    BY <2>10 DEF Elsewhere
  <2>13. s \in Seq(Nat)
    BY <2>6
  <2>14. Box!Next
    BY <1>o, <1>u, <2>7, <2>8, <2>11, <2>12, <2>13, Takes
  <2>15. WaitInv'
    BY <1>u, <1>2 DEF WaitInv, Idle, Awaiting
  <2> QED
    BY <2>14, <2>15 DEF Maps
<1> QED
  BY <1>1, <1>2 DEF WaitEvent

\* A frame goes from the wire, or from recv_frame's hands, into a buffer.
LEMMA PutAwayPending ==
  ASSUME TypeInv, TypeInv', NEW f \in ClientFrames, Buffer(f), NEW op \in EventOps,
         /\ f \in Of(op) => Unread(Of(op)) = <<f.pid>> \o Unread(Of(op))'
         /\ f \notin Of(op) => Unread(Of(op))' = Unread(Of(op))
  PROVE  PendingOf(op)' = PendingOf(op)
<1>1. f \in Of(op) <=> f.op = op
  BY OfKinds
<1>2. CASE f.op # op
  <2>1. Kept(op)' = Kept(op)
    BY <1>2, BufferPids
  <2> QED
    BY <1>1, <1>2, <2>1, KeptShape, KeptShapeNext
<1>3. CASE f.op = op
  <2> DEFINE k == Kept(op)
             u == Unread(Of(op))'
             one == <<f.pid>>
  <2>1. Kept(op)' = k \o one
    BY <1>3, BufferPids
  <2>2. PendingOf(op) = k \o (one \o u) /\ PendingOf(op)' = (k \o one) \o u
    BY <1>1, <1>3, <2>1, KeptShape, KeptShapeNext
  <2>3. k \in Seq(Nat) /\ u \in Seq(Nat)
    BY KeptShape, KeptShapeNext
  <2>4. f.pid \in Nat
    BY FrameKinds DEF Frames
  <2>5. one \in Seq(Nat)
    BY <2>4
  <2> HIDE DEF k, u, one
  <2>6. (k \o one) \o u = k \o (one \o u)
    BY <2>3, <2>5, Associative
  <2> QED
    BY <2>2, <2>6
<1> QED
  BY <1>2, <1>3

\* What a call does with a frame keeps the order, whatever it is waiting for.
LEMMA OrderHandle ==
  ASSUME TypeInv, TypeInv', WaitInv, UNCHANGED <<setting, events>>, NEW f \in ClientFrames,
         NEW acks, Handle(f, acks),
         \A S : /\ f \in S => Unread(S) = <<f.pid>> \o Unread(S)'
                /\ f \notin S => Unread(S)' = Unread(S)
  PROVE  WaitInv' /\ Maps
<1>f. f.pid \in Nat
  BY FrameKinds DEF Frames
<1>1. CASE HandsOut(f, acks)
  <2> DEFINE op == f.op
             s == Pids(<<f>>)
             u == Unread(Of(op))'
  <2>1. /\ call.what = "wait" /\ op = call.op /\ call' = Idle /\ Hand(op, <<f>>)
        /\ UNCHANGED <<event_buf, floor_mbcp_buf>>
    BY <1>1 DEF HandsOut, buffers
  <2>2. op \in AckedOps
    BY <2>1, CallShape
  <2>3. op \in EventOps
    BY <2>2, EventOpsKnown
  <2>4. s = <<f.pid>>
    BY DEF Pids
  <2>5. s \in Seq(Nat) /\ s # <<>>
    <3>1. <<f.pid>> \in Seq(Nat) /\ <<f.pid>> # <<>>
      BY <1>f
    <3> QED
      BY <2>4, <3>1
  <2>6. taken' = [taken EXCEPT ![op] = taken[op] \o s]
    BY <2>1 DEF Hand
  <2>7. \A o : Kept(o)' = Kept(o)
    BY <2>1 DEF Kept
  <2>8. Kept(op) = <<>>
    BY <2>1 DEF WaitInv
  <2>9. f \in Of(op)
    BY <2>3, OfKinds
  <2> HIDE DEF op, s
  <2>10. PendingOf(op) = <<>> \o (s \o u) /\ PendingOf(op)' = <<>> \o u /\ u \in Seq(Nat)
    BY <2>3, <2>4, <2>7, <2>8, <2>9, KeptShape, KeptShapeNext
  <2> DEFINE su == s \o u
  <2> HIDE DEF u
  <2>11. su \in Seq(Nat)
    BY <2>5, <2>10, ConcatProperties
  <2> HIDE DEF su
  <2>12. <<>> \o su = su /\ <<>> \o u = u
    BY <2>10, <2>11, ConcatEmptySeq
  <2>13. PendingOf(op) = s \o PendingOf(op)'
    BY <2>10, <2>12 DEF su
  <2>14. ASSUME NEW o \in EventOps, o # op PROVE PendingOf(o)' = PendingOf(o)
    <3>1. f \notin Of(o)
      BY <2>14, OfKinds DEF op
    <3>2. Unread(Of(o))' = Unread(Of(o))
      BY <3>1
    <3> QED
      BY <2>7, <3>2, KeptShape, KeptShapeNext
  <2>15. Elsewhere(op)
    BY <2>14 DEF Elsewhere
  <2>16. Box!Next
    BY <2>3, <2>5, <2>6, <2>13, <2>15, Takes
  <2> QED
    BY <2>1, <2>16 DEF Maps, WaitInv, Idle, Awaiting
<1>2. CASE PutsAway(f, acks)
  <2>1. Buffer(f) /\ UNCHANGED <<call, taken>> /\ (call.what = "wait" => f.op # call.op)
    BY <1>2 DEF PutsAway
  <2>2. \A op \in EventOps : PendingOf(op)' = PendingOf(op)
    BY <2>1, PutAwayPending
  <2>3. WaitInv'
    <3>1. CASE call.what = "wait"
      <4>1. call.op \in EventOps /\ f.op # call.op /\ Kept(call.op) = <<>>
        BY <2>1, <3>1, CallShape, EventOpsKnown DEF WaitInv
      <4> DEFINE op == call.op
      <4>2. op \in EventOps /\ f.op # op /\ Kept(op) = <<>>
        BY <4>1
      <4>3. call'.op = op
        BY <2>1
      <4> HIDE DEF op
      <4>4. Kept(op)' = <<>>
        <5>1. op' = op
          BY <2>1 DEF op
        <5>2. PidsOf(event_buf', Of(op)) \o PidsOf(floor_mbcp_buf', Of(op)) = <<>>
          BY <2>1, <4>2, BufferPids DEF Kept
        <5> QED
          BY <5>1, <5>2 DEF Kept
      <4> QED
        BY <4>3, <4>4 DEF WaitInv, Kept, op
    <3>2. CASE call.what # "wait"
      BY <2>1, <3>2 DEF WaitInv
    <3> QED
      BY <3>1, <3>2
  <2> QED
    BY <2>1, <2>2, <2>3, Stutters DEF Maps
<1>3. CASE Concludes(f, acks)
  <2>1. f \in Answering /\ call'.what # "wait" /\ UNCHANGED <<event_buf, floor_mbcp_buf, taken>>
    BY <1>3 DEF Concludes, buffers
  <2>2. ASSUME NEW op \in EventOps PROVE PendingOf(op)' = PendingOf(op)
    <3>1. f \notin Of(op)
      BY <2>1, OfKinds
    <3>2. Unread(Of(op))' = Unread(Of(op)) /\ Kept(op)' = Kept(op)
      BY <2>1, <3>1 DEF Kept
    <3> QED
      BY <3>2, KeptShape, KeptShapeNext
  <2> QED
    BY <2>1, <2>2, Stutters DEF Maps, WaitInv
<1> QED
  BY <1>1, <1>2, <1>3, HandleCases

LEMMA OrderReceive ==
  ASSUME TypeInv, TypeInv', WaitInv, UNCHANGED setting, Receive \/ SendAck
  PROVE  WaitInv' /\ Maps
<1>1. ASSUME Receive PROVE WaitInv' /\ Maps
  <2> DEFINE f == Head(to_client)
  <2>1. /\ f \in ClientFrames /\ UNCHANGED events
        /\ \/ f \in Events /\ acking' = f /\ UNCHANGED <<call, event_buf, floor_mbcp_buf, taken>>
           \/ Handle(f, <<>>) /\ UNCHANGED acking
    BY <1>1, ReceiveFacts DEF buffers, hub
  <2>2. \A S : /\ acking' = f /\ f # NoFrame => Unread(S)' = Unread(S)
               /\ acking' = acking /\ f \in S => Unread(S) = <<f.pid>> \o Unread(S)'
               /\ acking' = acking /\ f \notin S => Unread(S)' = Unread(S)
    BY <1>1, UnreadReceive
  <2> HIDE DEF f
  <2>3. CASE f \in Events /\ acking' = f /\ UNCHANGED <<call, event_buf, floor_mbcp_buf, taken>>
    <3>1. f # NoFrame
      BY <2>1, FrameKindsApart DEF Frames
    <3>2. \A S : Unread(S)' = Unread(S)
      BY <2>2, <2>3, <3>1
    <3>3. \A o : Kept(o)' = Kept(o)
      BY <2>3 DEF Kept
    <3>4. \A op \in EventOps : PendingOf(op)' = PendingOf(op)
      BY <3>2, <3>3, KeptShape, KeptShapeNext
    <3> QED
      BY <2>1, <2>3, <3>3, <3>4, Stutters DEF Maps, WaitInv
  <2>4. CASE Handle(f, <<>>) /\ UNCHANGED acking
    BY <2>1, <2>2, <2>4, OrderHandle
  <2> QED
    BY <2>1, <2>3, <2>4
<1>2. ASSUME SendAck PROVE WaitInv' /\ Maps
  <2> DEFINE one == <<Ack(acking.op, acking.pid, "ok")>>
  <2>1. acking \in ClientFrames /\ Handle(acking, one) /\ UNCHANGED events
    BY <1>2, SendAckFacts DEF hub
  <2>2. \A S : /\ acking \in S => Unread(S) = <<acking.pid>> \o Unread(S)'
               /\ acking \notin S => Unread(S)' = Unread(S)
    BY <1>2, UnreadSent
  <2> DEFINE f == acking
  <2> HIDE DEF one
  <2> QED
    BY <2>1, <2>2, OrderHandle
<1> QED
  BY <1>1, <1>2

LEMMA OrderTimeUp ==
  ASSUME TypeInv, TypeInv', WaitInv, UNCHANGED setting, TimeUpInAck
  PROVE  WaitInv' /\ Maps
<1>1. /\ setting.backpressure /\ acking # NoFrame /\ acking' = NoFrame /\ call' = Idle
      /\ UNCHANGED <<to_client, event_buf, floor_mbcp_buf, events, taken>>
  BY DEF TimeUpInAck, buffers, hub
<1>2. acking \in Events /\ acking \in ClientFrames /\ acking \in Frames
  BY <1>1, FrameKinds DEF TypeInv, Wires, Frames
<1>3. acking.pid \in Nat /\ acking.op \in EventOps
  BY <1>2, FrameKinds, EventOpsKnown DEF Events, Msgs
<1>o. PICK op \in EventOps : op = acking.op
  BY <1>3
<1>p. PICK p \in Nat : p = acking.pid
  BY <1>3
<1> DEFINE one == <<p>>
<1>4. \A o : Kept(o)' = Kept(o)
  BY <1>1 DEF Kept
<1>5. ASSUME NEW o \in EventOps
      PROVE  /\ o = op => Unread(Of(o)) = one \o Unread(Of(o))'
             /\ o # op => Unread(Of(o))' = Unread(Of(o))
  <2> DEFINE S == Of(o)
             wire == PidsOf(to_client, S)
  <2>1. acking \in S <=> o = op
    BY <1>2, <1>o, OfKinds
  <2>2. wire \in Seq(Nat)
    BY UnreadType
  <2> HIDE DEF S
  <2>3. Held = <<acking>> /\ Held' = <<>>
    BY <1>1 DEF Held
  <2>4. /\ acking \in S => PidsOf(<<acking>>, S) = one
        /\ acking \notin S => PidsOf(<<acking>>, S) = <<>>
        /\ PidsOf(<<>>, S) = <<>>
    BY <1>2, <1>p, PidsOfOne
  <2>5. Unread(S) = PidsOf(Held, S) \o wire /\ Unread(S)' = PidsOf(Held', S) \o wire
    BY <1>1 DEF Unread
  <2> HIDE DEF wire, one
  <2>6. <<>> \o wire = wire
    BY <2>2, ConcatEmptySeq
  <2> QED
    BY <2>1, <2>3, <2>4, <2>5, <2>6 DEF S
<1>6. Elsewhere(op)
  BY <1>4, <1>5, KeptShape, KeptShapeNext DEF Elsewhere
<1> DEFINE k == Kept(op)
           u == Unread(Of(op))'
<1>7. PendingOf(op) = k \o (one \o u) /\ PendingOf(op)' = k \o u
  BY <1>4, <1>5, KeptShape, KeptShapeNext
<1>8. k \in Seq(Nat) /\ u \in Seq(Nat)
  BY KeptShape, KeptShapeNext
<1>9. one \in Seq(Nat)
  OBVIOUS
<1> HIDE DEF k, u
<1>10. PendingOf(op) = (k \o one) \o u
  <2> HIDE DEF one
  <2> QED
    BY <1>7, <1>8, <1>9, Associative
<1>11. k \in Seq(Nat) /\ u \in Seq(Nat) /\ PendingOf(op) = (k \o <<p>>) \o u
       /\ PendingOf(op)' = k \o u
  BY <1>7, <1>8, <1>10
<1>12. Box!Next
  BY <1>1, <1>6, <1>11, Loses
<1> QED
  BY <1>1, <1>12 DEF Maps, WaitInv, Idle, Awaiting

LEMMA OrderStep ==
  ASSUME TypeInv, TypeInv', WaitInv, [Next /\ UNCHANGED setting]_<<vars, setting>>
  PROVE  WaitInv' /\ Maps
<1>0. UNCHANGED setting
  OBVIOUS
<1>1. CASE \/ HubDrop \/ SendFloorMbcp \/ PollEvents \/ Close \/ TimeUp \/ Lost
           \/ (\E op \in BotOps : Request(op)) \/ UNCHANGED vars
  BY <1>0, <1>1, OrderQuiet
<1>2. CASE HubTake \/ \E op \in EventOps : HubEvent(op)
  BY <1>0, <1>2, OrderHubTake, OrderHubEvent
<1>3. CASE DrainFloorMbcp \/ \E op \in AckedOps : DrainAllEvents(op) \/ WaitEvent(op)
  BY <1>0, <1>3, OrderDrainFloor, OrderDrain, OrderWait
<1>4. CASE Receive \/ SendAck \/ TimeUpInAck
  BY <1>0, <1>4, OrderReceive, OrderTimeUp
<1> QED
  BY <1>1, <1>2, <1>3, <1>4 DEF Next

\* The session implements the mailbox: per opcode, the events reach the bot in
\* order, each once; only a cancelled ACK loses one.
THEOREM Ordered == Spec => EventsInOrder
<1>1. Init => TypeInv /\ WaitInv /\ Box!Init
  BY TypeInit, MailboxInit DEF WaitInv, Init, Awaiting
<1>2. TypeInv /\ WaitInv /\ [Next /\ UNCHANGED setting]_<<vars, setting>>
      => (TypeInv /\ WaitInv)' /\ [Box!Next]_<<setting.backpressure, Len(events), Pending, taken>>
  BY TypeStep, OrderStep DEF Maps
<1> QED
  BY <1>1, <1>2, PTL DEF Spec, EventsInOrder, Box!Spec, Pending
=============================================================================
