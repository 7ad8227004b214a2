--------------------------- MODULE PttFloor_proofs ----------------------------
(***************************************************************************)
(* What TLAPS proves of the PTT bots, for any bots, requests and packets   *)
(* in flight.  Every message waits where the code may meet it.  A bot that *)
(* has no TRACKS_UPDATE on its way is subscribed to exactly the bots that  *)
(* are there.  What a listener knows of the floor is what the SFU had      *)
(* announced at some point of the past, and what it records is of the turn *)
(* it has processed.  And a bot counts itself ready for video only behind  *)
(* an answer of the SFU, which may be a refusal.                           *)
(***************************************************************************)
EXTENDS PttFloor, Sifting_proofs

\* The frames of a wire, none of them of a kind in bad.
Free(s, bad) ==
  /\ \E S : s \in Seq(S)
  /\ \A i \in 1 .. Len(s) : s[i].kind \notin bad

\* The answers the SFU has not given to a bot.
Barred(b) == (IF b \in gate THEN {} ELSE {"ack"}) \cup (IF b \in refused THEN {} ELSE {"nack"})

\* What the floor messages store says nothing about the gate.
FloorFlags == {"floor_idle", "speaker_just_changed", "floor_just_released"}
FloorStores == [name : FloorFlags, value : BOOLEAN]

GateInv ==
  /\ DOMAIN ws = Bots /\ \A b \in Bots : Free(ws[b], Barred(b))
  /\ flag \in [Bots -> [Flags -> BOOLEAN]]
  /\ stores \in [Bots -> Seq(FloorStores)]
  /\ ReadyAfterAnswer

LEMMA GateInit == Init => GateInv
<1> SUFFICES ASSUME Init PROVE GateInv
  OBVIOUS
<1>1. ws = [b \in Bots |-> <<>>] /\ stores = [b \in Bots |-> <<>>]
  BY DEF Init
<1>2. <<>> \in Seq({}) /\ <<>> \in Seq(FloorStores) /\ Len(<<>>) = 0
  BY EmptySeq
<1>3. DOMAIN ws = Bots /\ \A b \in Bots : Free(ws[b], Barred(b))
  BY <1>1, <1>2 DEF Free
<1>4. flag = [b \in Bots |-> [floor_idle |-> TRUE, speaker_just_changed |-> FALSE,
                              floor_just_released |-> FALSE, ack_sent |-> FALSE]]
  BY DEF Init
<1>5. [floor_idle |-> TRUE, speaker_just_changed |-> FALSE, floor_just_released |-> FALSE,
       ack_sent |-> FALSE] \in [Flags -> BOOLEAN]
  <2>1. Flags = {"floor_idle", "speaker_just_changed", "floor_just_released", "ack_sent"}
    BY DEF Flags, FloorFlags
  <2>2. [floor_idle : BOOLEAN, speaker_just_changed : BOOLEAN, floor_just_released : BOOLEAN,
         ack_sent : BOOLEAN] \subseteq [Flags -> BOOLEAN]
    BY <2>1
  <2> QED
    BY <2>2
<1>6. flag \in [Bots -> [Flags -> BOOLEAN]]
  BY <1>4, <1>5
<1>7. \A b \in Bots : flag[b].ack_sent = FALSE
  BY <1>4
<1> QED
  BY <1>1, <1>2, <1>3, <1>6, <1>7 DEF GateInv, ReadyAfterAnswer

-----------------------------------------------------------------------------
(***************************************************************************)
(* The wire: frames that are added to it, and frames that are taken.       *)
(***************************************************************************)

LEMMA FreeGrows ==
  ASSUME NEW bad, NEW s, Free(s, bad), NEW more, Free(more, bad)
  PROVE  Free(s \o more, bad)
<1>1. PICK S : s \in Seq(S)
  BY DEF Free
<1>2. PICK T : more \in Seq(T)
  BY DEF Free
<1>3. s \in Seq(S \cup T) /\ more \in Seq(S \cup T)
  BY <1>1, <1>2
<1>4. /\ s \o more \in Seq(S \cup T)
      /\ Len(s \o more) = Len(s) + Len(more)
      /\ \A i \in 1 .. Len(s) + Len(more) :
           (s \o more)[i] = IF i <= Len(s) THEN s[i] ELSE more[i - Len(s)]
  BY <1>3, ConcatProperties
<1>5. Len(s) \in Nat /\ Len(more) \in Nat
  BY <1>3, LenProperties
<1>6. ASSUME NEW i \in 1 .. Len(s \o more) PROVE (s \o more)[i].kind \notin bad
  <2>1. CASE i <= Len(s)
    <3>1. (s \o more)[i] = s[i] /\ i \in 1 .. Len(s)
      BY <1>4, <1>5, <2>1
    <3> QED
      BY <3>1 DEF Free
  <2>2. CASE ~(i <= Len(s))
    <3>1. (s \o more)[i] = more[i - Len(s)] /\ i - Len(s) \in 1 .. Len(more)
      BY <1>4, <1>5, <2>2
    <3> QED
      BY <3>1 DEF Free
  <2> QED
    BY <2>1, <2>2
<1> QED
  BY <1>4, <1>6 DEF Free

LEMMA FreeAppend ==
  ASSUME NEW bad, NEW s, Free(s, bad), NEW m, m.kind \notin bad
  PROVE  Free(Append(s, m), bad)
<1>1. PICK S : s \in Seq(S)
  BY DEF Free
<1>2. s \in Seq(S \cup {m}) /\ m \in S \cup {m}
  BY <1>1
<1>3. /\ Append(s, m) \in Seq(S \cup {m})
      /\ Len(Append(s, m)) = Len(s) + 1
      /\ \A i \in 1 .. Len(s) : Append(s, m)[i] = s[i]
      /\ Append(s, m)[Len(s) + 1] = m
  BY <1>2, AppendProperties
<1>4. Len(s) \in Nat
  BY <1>2, LenProperties
<1>5. ASSUME NEW i \in 1 .. Len(Append(s, m)) PROVE Append(s, m)[i].kind \notin bad
  <2>1. i \in 1 .. Len(s) \/ i = Len(s) + 1
    BY <1>3, <1>4
  <2> QED
    BY <1>3, <2>1 DEF Free
<1> QED
  BY <1>3, <1>5 DEF Free

LEMMA FreeShrinks ==
  ASSUME NEW bad, NEW s, Free(s, bad), NEW n \in 0 .. Len(s)
  PROVE  Free(SubSeq(s, n + 1, Len(s)), bad)
<1>1. PICK S : s \in Seq(S)
  BY DEF Free
<1>2. Len(s) \in Nat /\ n \in Nat /\ n + 1 \in 1 .. Len(s) + 1
  BY <1>1, LenProperties
<1>3. /\ SubSeq(s, n + 1, Len(s)) \in Seq(S)
      /\ Len(SubSeq(s, n + 1, Len(s))) = Len(s) - n
      /\ \A i \in 1 .. Len(s) - n : SubSeq(s, n + 1, Len(s))[i] = s[i + n]
  BY <1>1, <1>2
<1>4. ASSUME NEW i \in 1 .. Len(SubSeq(s, n + 1, Len(s)))
      PROVE  SubSeq(s, n + 1, Len(s))[i].kind \notin bad
  <2>1. SubSeq(s, n + 1, Len(s))[i] = s[i + n] /\ i + n \in 1 .. Len(s)
    BY <1>2, <1>3
  <2> QED
    BY <2>1 DEF Free
<1> QED
  BY <1>3, <1>4 DEF Free

LEMMA FreePair ==
  ASSUME NEW bad, NEW m1, m1.kind \notin bad, NEW m2, m2.kind \notin bad
  PROVE  Free(<<m1, m2>>, bad)
<1>1. /\ <<m1, m2>> \in Seq({m1, m2}) /\ Len(<<m1, m2>>) = 2
      /\ <<m1, m2>>[1] = m1 /\ <<m1, m2>>[2] = m2
  OBVIOUS
<1>2. ASSUME NEW i \in 1 .. 2 PROVE <<m1, m2>>[i].kind \notin bad
  <2>1. i = 1 \/ i = 2
    OBVIOUS
  <2> QED
    BY <1>1, <2>1
<1> QED
  BY <1>1, <1>2 DEF Free

LEMMA FreeEmpty == ASSUME NEW bad PROVE Free(<<>>, bad)
BY EmptySeq DEF Free

\* An answer bars less; all the other kinds are never barred.
LEMMA BarredLess ==
  ASSUME gate \subseteq gate', refused \subseteq refused', NEW b, NEW s, Free(s, Barred(b))
  PROVE  Free(s, Barred(b)')
BY DEF Free, Barred

LEMMA NotBarred ==
  ASSUME NEW b, NEW kind \in FloorKinds \cup TrackKinds \cup {"leave"}, NEW c
  PROVE  Message(kind, c).kind \notin Barred(b)
BY DEF Message, Barred, FloorKinds, TrackKinds

-----------------------------------------------------------------------------
(***************************************************************************)
(* The wires and the flags may change in one step.                         *)
(***************************************************************************)

WiresKept == DOMAIN ws' = Bots /\ \A b \in Bots : Free(ws[b], Barred(b))'
FlagsKept ==
  /\ flag' \in [Bots -> [Flags -> BOOLEAN]]
  /\ \A b \in Bots : flag'[b].ack_sent => flag[b].ack_sent

LEMMA Kept ==
  ASSUME GateInv, WiresKept, FlagsKept, stores' \in [Bots -> Seq(FloorStores)],
         gate \subseteq gate', refused \subseteq refused'
  PROVE  GateInv'
BY DEF GateInv, WiresKept, FlagsKept, ReadyAfterAnswer

LEMMA SameWires == ASSUME GateInv, UNCHANGED <<ws, gate, refused>> PROVE WiresKept
BY DEF GateInv, WiresKept, Barred

LEMMA SameFlags == ASSUME GateInv, UNCHANGED flag PROVE FlagsKept
BY DEF GateInv, FlagsKept

LEMMA NothingChanges == ASSUME GateInv, UNCHANGED <<ws, gate, refused, flag, stores>> PROVE GateInv'
BY SameWires, SameFlags, Kept DEF GateInv

\* The SFU sends; flags and stores are the bots' own.
LEMMA Sends ==
  ASSUME GateInv, UNCHANGED <<gate, refused, flag, stores>>, WiresKept
  PROVE  GateInv'
BY SameFlags, Kept DEF GateInv

LEMMA Broadcasts ==
  ASSUME GateInv, UNCHANGED <<gate, refused>>, NEW kind \in FloorKinds \cup TrackKinds \cup {"leave"},
         NEW c, NEW to, Broadcast(to, Message(kind, c))
  PROVE  WiresKept
<1>1. ASSUME NEW b \in Bots PROVE Free(ws[b], Barred(b))'
  <2>1. Free(ws[b], Barred(b)) /\ Free(Append(ws[b], Message(kind, c)), Barred(b))
    BY NotBarred, FreeAppend DEF GateInv
  <2>2. ws'[b] = ws[b] \/ ws'[b] = Append(ws[b], Message(kind, c))
    BY DEF Broadcast
  <2> QED
    BY <2>1, <2>2 DEF Barred
<1> QED
  BY <1>1 DEF WiresKept, Broadcast

LEMMA Polls ==
  ASSUME GateInv, UNCHANGED <<gate, refused>>, NEW b \in Bots, NEW n, Poll(b, n)
  PROVE  WiresKept
<1>1. ASSUME NEW c \in Bots PROVE Free(ws[c], Barred(c))'
  <2>1. CASE c = b
    <3>1. ws'[b] = SubSeq(ws[b], n + 1, Len(ws[b])) /\ n \in 0 .. Len(ws[b])
      BY DEF Poll, GateInv
    <3>2. Free(SubSeq(ws[b], n + 1, Len(ws[b])), Barred(b))
      BY <3>1, FreeShrinks DEF GateInv
    <3> QED
      BY <2>1, <3>1, <3>2 DEF Barred
  <2>2. CASE c # b
    BY <2>2 DEF Poll, GateInv, Barred
  <2> QED
    BY <2>1, <2>2
<1> QED
  BY <1>1 DEF WiresKept, Poll, GateInv

LEMMA FlagStored ==
  ASSUME GateInv, NEW b \in Bots, NEW name \in FloorFlags, NEW value \in BOOLEAN,
         flag' = [flag EXCEPT ![b][name] = value]
  PROVE  FlagsKept
<1>1. flag'[b] = [flag[b] EXCEPT ![name] = value] /\ \A c \in Bots \ {b} : flag'[c] = flag[c]
  BY DEF GateInv
<1>2. flag'[b] \in [Flags -> BOOLEAN] /\ flag'[b].ack_sent = flag[b].ack_sent
  BY <1>1 DEF GateInv, Flags, FloorFlags
<1>3. flag' \in [Bots -> [Flags -> BOOLEAN]]
  BY <1>1, <1>2 DEF GateInv
<1> QED
  BY <1>1, <1>2, <1>3 DEF FlagsKept

-----------------------------------------------------------------------------
(***************************************************************************)
(* The SFU's steps.                                                        *)
(***************************************************************************)

LEMMA SfuStep ==
  ASSUME GateInv, NEW b \in Bots,
         Publish(b) \/ SfuFloorRequest(b) \/ SfuFloorRelease(b) \/ SfuRelay(b)
  PROVE  GateInv'
<1>1. UNCHANGED <<gate, refused, flag, stores>>
  BY DEF Publish, SfuFloorRequest, SfuFloorRelease, SfuRelay
<1>2. ASSUME NEW kind \in FloorKinds \cup TrackKinds \cup {"leave"}, NEW c, NEW to,
             Broadcast(to, Message(kind, c))
      PROVE  GateInv'
  BY <1>1, <1>2, Broadcasts, Sends
<1>3. "add" \in TrackKinds /\ "FTKN" \in FloorKinds /\ "FIDL" \in FloorKinds
  BY DEF TrackKinds, FloorKinds
<1>4. CASE Publish(b)
  BY <1>2, <1>3, <1>4 DEF Publish
<1>5. CASE SfuFloorRequest(b)
  BY <1>1, <1>2, <1>3, <1>5, NothingChanges DEF SfuFloorRequest
<1>6. CASE SfuFloorRelease(b)
  BY <1>1, <1>2, <1>3, <1>6, NothingChanges DEF SfuFloorRelease
<1>7. CASE SfuRelay(b)
  BY <1>1, <1>7, NothingChanges DEF SfuRelay
<1> QED
  BY <1>4, <1>5, <1>6, <1>7

LEMMA RevokeStep ==
  ASSUME GateInv, SfuFloorRevoke
  PROVE  GateInv'
<1>1. UNCHANGED <<gate, refused, flag, stores>>
  BY DEF SfuFloorRevoke
<1>2. "FRVK" \in FloorKinds /\ "FIDL" \in FloorKinds
  BY DEF FloorKinds
<1>3. ASSUME NEW b \in Bots PROVE Free(ws[b], Barred(b))'
  <2>1. \/ ws'[b] = ws[b] \o <<Message("FRVK", b), Message("FIDL", b)>>
        \/ ws'[b] = Append(ws[b], Message("FIDL", holder))
        \/ ws'[b] = ws[b]
    BY DEF SfuFloorRevoke
  <2>2. Free(ws[b], Barred(b))
    BY DEF GateInv
  <2>3. Free(<<Message("FRVK", b), Message("FIDL", b)>>, Barred(b))
    BY <1>2, NotBarred, FreePair
  <2>4. /\ Free(ws[b] \o <<Message("FRVK", b), Message("FIDL", b)>>, Barred(b))
        /\ Free(Append(ws[b], Message("FIDL", holder)), Barred(b))
    BY <1>2, <2>2, <2>3, NotBarred, FreeGrows, FreeAppend
  <2> QED
    BY <1>1, <2>1, <2>2, <2>4 DEF Barred
<1>4. WiresKept
  BY <1>3 DEF WiresKept, SfuFloorRevoke
<1> QED
  BY <1>1, <1>4, Sends

LEMMA KillStep ==
  ASSUME GateInv, NEW c \in Bots, KillBot(c)
  PROVE  GateInv'
<1> DEFINE gone  == <<Message("remove", c), Message("leave", c)>>
           freed == IF holder = c THEN <<Message("FIDL", c)>> ELSE <<>>
<1>1. UNCHANGED <<gate, refused, flag, stores>>
  BY DEF KillBot
<1>2. "remove" \in TrackKinds /\ "FIDL" \in FloorKinds
  BY DEF TrackKinds, FloorKinds
<1>3. ASSUME NEW b \in Bots PROVE Free(ws[b], Barred(b))'
  <2>1. ws'[b] = (ws[b] \o gone) \o freed \/ ws'[b] = ws[b]
    BY DEF KillBot
  <2>2. Free(ws[b], Barred(b))
    BY DEF GateInv
  <2>3. Free(gone, Barred(b))
    BY <1>2, NotBarred, FreePair
  <2>4. Free(freed, Barred(b))
    <3>1. Free(Append(<<>>, Message("FIDL", c)), Barred(b)) /\ Free(<<>>, Barred(b))
      BY <1>2, NotBarred, FreeEmpty, FreeAppend
    <3>2. Append(<<>>, Message("FIDL", c)) = <<Message("FIDL", c)>>
      OBVIOUS
    <3> QED
      BY <3>1, <3>2
  <2> HIDE DEF gone, freed
  <2>5. Free((ws[b] \o gone) \o freed, Barred(b))
    BY <2>2, <2>3, <2>4, FreeGrows
  <2> QED
    BY <1>1, <2>1, <2>2, <2>5 DEF Barred
<1>4. DOMAIN ws' = Bots
  BY DEF KillBot
<1> QED
  BY <1>1, <1>3, <1>4, Sends DEF WiresKept

\* A TRACKS_READY is acknowledged once the gate is open, or it is refused.
LEMMA ReadyStep ==
  ASSUME GateInv, NEW b \in Bots, SfuTracksReady(b)
  PROVE  GateInv'
<1>1. /\ gate \subseteq gate' /\ refused \subseteq refused' /\ UNCHANGED <<flag, stores>>
      /\ \E kind : /\ kind \notin Barred(b)'
                  /\ ws' = [ws EXCEPT ![b] = Append(ws[b], Message(kind, b))]
  <2>1. CASE gate' = gate \cup {b} /\ ws' = [ws EXCEPT ![b] = Append(@, Message("ack", b))]
    <3>1. "ack" \notin Barred(b)'
      BY <2>1 DEF Barred
    <3> QED
      BY <2>1, <3>1 DEF SfuTracksReady
  <2>2. CASE refused' = refused \cup {b} /\ ws' = [ws EXCEPT ![b] = Append(@, Message("nack", b))]
    <3>1. "nack" \notin Barred(b)'
      BY <2>2 DEF Barred
    <3> QED
      BY <2>2, <3>1 DEF SfuTracksReady
  <2> QED
    BY <2>1, <2>2 DEF SfuTracksReady
<1>2. PICK kind : /\ kind \notin Barred(b)'
                  /\ ws' = [ws EXCEPT ![b] = Append(ws[b], Message(kind, b))]
  BY <1>1
<1>3. ASSUME NEW c \in Bots PROVE Free(ws[c], Barred(c))'
  <2>1. Free(ws[c], Barred(c)')
    BY <1>1, BarredLess DEF GateInv
  <2>2. CASE c = b
    <3>1. Message(kind, b).kind \notin Barred(b)'
      BY <1>2 DEF Message
    <3>2. Free(Append(ws[b], Message(kind, b)), Barred(b)')
      BY <2>1, <2>2, <3>1, FreeAppend
    <3>3. ws'[b] = Append(ws[b], Message(kind, b))
      BY <1>2 DEF GateInv
    <3> QED
      BY <2>2, <3>2, <3>3
  <2>3. CASE c # b
    BY <1>2, <2>1, <2>3 DEF GateInv
  <2> QED
    BY <2>2, <2>3
<1>4. WiresKept
  BY <1>2, <1>3 DEF WiresKept, GateInv
<1>5. FlagsKept
  BY <1>1, SameFlags
<1> QED
  BY <1>1, <1>4, <1>5, Kept DEF GateInv

-----------------------------------------------------------------------------
(***************************************************************************)
(* The bot's steps.                                                        *)
(***************************************************************************)

LEMMA QuietStep ==
  ASSUME GateInv, NEW b \in Bots,
         \/ FloorRequest(b) \/ AwaitTimeout(b) \/ FloorRelease(b) \/ ProcessRoomEvents(b)
         \/ RecvRtp(b) \/ RecvReleased(b) \/ RecvAck(b)
  PROVE  GateInv'
<1>1. UNCHANGED <<ws, gate, refused, flag, stores>>
  BY DEF FloorRequest, AwaitTimeout, FloorRelease, ProcessRoomEvents, RecvRtp, RecvReleased,
     RecvAck, RecvUnchanged, sfu
<1> QED
  BY <1>1, NothingChanges

LEMMA TakenStep ==
  ASSUME GateInv, NEW b \in Bots, NEW n, AwaitFloorTaken(b, n)
  PROVE  GateInv'
<1>1. /\ Poll(b, n) /\ UNCHANGED <<gate, refused, stores>>
      /\ flag' = [flag EXCEPT ![b]["floor_idle"] = FALSE] \/ UNCHANGED flag
  BY DEF AwaitFloorTaken, sfu
<1>2. WiresKept
  BY <1>1, Polls
<1>3. FlagsKept
  BY <1>1, SameFlags, FlagStored, "floor_idle" \in FloorFlags DEF FloorFlags
<1> QED
  BY <1>1, <1>2, <1>3, Kept DEF GateInv

LEMMA EventsStep ==
  ASSUME GateInv, NEW b \in Bots, NEW n, ProcessEvents(b, n)
  PROVE  GateInv'
<1>1. Poll(b, n) /\ UNCHANGED <<gate, refused, flag, stores>>
  BY DEF ProcessEvents, sfu
<1> QED
  BY <1>1, Polls, Sends

LEMMA AnsweredStep ==
  ASSUME GateInv, NEW b \in Bots, AwaitTracksReady(b)
  PROVE  GateInv'
<1>1. /\ Poll(b, 1) /\ UNCHANGED <<gate, refused, stores>> /\ ws[b] # <<>>
      /\ \/ IsResponse(Head(ws[b])) /\ flag' = [flag EXCEPT ![b]["ack_sent"] = TRUE]
         \/ UNCHANGED flag
  BY DEF AwaitTracksReady, sfu
<1>2. WiresKept
  BY <1>1, Polls
<1>3. CASE UNCHANGED flag
  BY <1>1, <1>2, <1>3, Sends
<1>4. CASE IsResponse(Head(ws[b])) /\ flag' = [flag EXCEPT ![b]["ack_sent"] = TRUE]
  <2>1. Head(ws[b]).kind \notin Barred(b)
    <3>1. Free(ws[b], Barred(b))
      BY DEF GateInv
    <3>2. PICK S : ws[b] \in Seq(S)
      BY <3>1 DEF Free
    <3>3. Head(ws[b]) = ws[b][1] /\ 1 \in 1 .. Len(ws[b])
      BY <1>1, <3>2
    <3> QED
      BY <3>1, <3>3 DEF Free
  <2>2. b \in gate \cup refused
    BY <1>4, <2>1 DEF Barred, IsResponse, AnswerKinds
  <2>3. flag'[b] = [flag[b] EXCEPT !["ack_sent"] = TRUE] /\ \A c \in Bots \ {b} : flag'[c] = flag[c]
    BY <1>4 DEF GateInv
  <2>4. flag' \in [Bots -> [Flags -> BOOLEAN]]
    BY <1>4 DEF GateInv
  <2>5. ReadyAfterAnswer'
    BY <1>1, <2>2, <2>3 DEF GateInv, ReadyAfterAnswer
  <2> QED
    BY <1>1, <1>2, <2>4, <2>5 DEF GateInv, WiresKept
<1> QED
  BY <1>1, <1>3, <1>4

LEMMA StoresAreOfTheFloor == ASSUME NEW kind PROVE StoresOf(kind) \in Seq(FloorStores)
<1>1. FtknStores \in Seq(FloorStores) /\ FidlStores \in Seq(FloorStores)
  BY DEF FtknStores, FidlStores, Store, FloorStores, FloorFlags
<1> QED
  BY <1>1, EmptySeq DEF StoresOf

LEMMA AppliedStep ==
  ASSUME GateInv, NEW b \in Bots, NEW todo \in Seq(FloorStores), todo # <<>>,
         Apply(b, Head(todo)), stores' = [stores EXCEPT ![b] = Tail(todo)],
         UNCHANGED <<ws, gate, refused>>
  PROVE  GateInv'
<1>1. Head(todo) \in FloorStores /\ Tail(todo) \in Seq(FloorStores)
  BY HeadTailProperties
<1>2. Head(todo).name \in FloorFlags /\ Head(todo).value \in BOOLEAN
  BY <1>1 DEF FloorStores
<1>3. FlagsKept
  BY <1>2, FlagStored DEF Apply
<1>4. stores' \in [Bots -> Seq(FloorStores)]
  BY <1>1 DEF GateInv
<1> QED
  BY <1>3, <1>4, SameWires, Kept DEF GateInv

LEMMA FinishStep ==
  ASSUME GateInv, NEW b \in Bots, FinishStores(b)
  PROVE  GateInv'
<1>1. stores[b] \in Seq(FloorStores)
  BY DEF GateInv
<1> QED
  BY <1>1, AppliedStep DEF FinishStores, sfu

LEMMA ChangedStep ==
  ASSUME GateInv, NEW b \in Bots, RecvChanged(b)
  PROVE  GateInv'
<1>1. /\ flag' = [flag EXCEPT ![b]["speaker_just_changed"] = FALSE]
      /\ UNCHANGED <<ws, gate, refused, stores>>
  BY DEF RecvChanged, RecvUnchanged, sfu
<1>2. FlagsKept
  BY <1>1, FlagStored DEF FloorFlags
<1> QED
  BY <1>1, <1>2, SameWires, Kept DEF GateInv

LEMMA FloorStep ==
  ASSUME GateInv, NEW b \in Bots, ProcessFloor(b)
  PROVE  GateInv'
<1> DEFINE todo == StoresOf(Head(batch[b]).kind)
<1>1. /\ UNCHANGED <<ws, gate, refused>>
      /\ \/ todo # <<>> /\ Apply(b, Head(todo)) /\ stores' = [stores EXCEPT ![b] = Tail(todo)]
         \/ UNCHANGED <<flag, stores>>
  BY DEF ProcessFloor, sfu
<1>2. todo \in Seq(FloorStores)
  BY StoresAreOfTheFloor
<1> HIDE DEF todo
<1> QED
  BY <1>1, <1>2, AppliedStep, NothingChanges

LEMMA GateStep ==
  ASSUME GateInv, [Next]_vars
  PROVE  GateInv'
<1>1. CASE UNCHANGED vars
  BY <1>1, NothingChanges DEF vars, sfu
<1>2. CASE SfuFloorRevoke
  BY <1>2, RevokeStep
<1>3. ASSUME NEW b \in Bots,
             \/ Publish(b) \/ SfuFloorRequest(b) \/ SfuFloorRelease(b)
             \/ SfuTracksReady(b) \/ SfuRelay(b) \/ KillBot(b)
      PROVE  GateInv'
  BY <1>3, SfuStep, ReadyStep, KillStep
<1>4. ASSUME NEW b \in Bots,
             \/ FloorRequest(b) \/ AwaitTimeout(b) \/ FloorRelease(b)
             \/ \E n \in 0 .. Len(ws[b]) : AwaitFloorTaken(b, n) \/ ProcessEvents(b, n)
             \/ AwaitTracksReady(b)
             \/ ProcessFloor(b) \/ FinishStores(b) \/ ProcessRoomEvents(b)
      PROVE  GateInv'
  BY <1>4, QuietStep, TakenStep, EventsStep, AnsweredStep, FloorStep, FinishStep
<1>5. ASSUME NEW b \in Bots, RecvStep(b) PROVE GateInv'
  BY <1>5, QuietStep, ChangedStep DEF RecvStep
<1> QED
  BY <1>1, <1>2, <1>3, <1>4, <1>5 DEF Next

(***************************************************************************)
(* A bot that counts itself ready for video has an answer of the SFU: its  *)
(* gate is open or it has been refused, whatever floor messages and events *)
(* it takes while it waits for the answer, which it does not look at       *)
(* (process_events, tracks_ready).                                         *)
(***************************************************************************)
THEOREM ReadyBehindTheAnswer == Spec => []ReadyAfterAnswer
<1>1. GateInv /\ [Next /\ UNCHANGED limits]_<<vars, limits>> => GateInv'
  <2> SUFFICES ASSUME GateInv, [Next /\ UNCHANGED limits]_<<vars, limits>> PROVE GateInv'
    OBVIOUS
  <2>1. [Next]_vars
    OBVIOUS
  <2> QED
    BY <2>1, GateStep
<1>2. GateInv => ReadyAfterAnswer
  BY DEF GateInv
<1> QED
  BY <1>1, <1>2, GateInit, PTL DEF Spec

-----------------------------------------------------------------------------
(***************************************************************************)
(* What the bots may hold, and what each is doing.                         *)
(***************************************************************************)

AllKinds == FloorKinds \cup EventKinds
AllMessages == Messages(AllKinds)
Answers == Messages(AnswerKinds)

\* What is left of the stores of a floor message after the first of them.
FtknRest == <<Store("speaker_just_changed", TRUE), Store("floor_just_released", FALSE)>>
FtknLast == <<Store("floor_just_released", FALSE)>>
FidlRest == <<Store("floor_just_released", TRUE)>>
Rests == {<<>>, FtknRest, FtknLast, FidlRest}

\* Floor messages are processed in one call; only those who ask for the floor
\* wait for it.
TurnOK(b) ==
  /\ batch[b] # <<>> \/ stores[b] # <<>> => pc[b] = "drain"
  /\ pc[b] = "await" => b \in Requesters

\* The recv task goes on from the released flag with a video packet only.
VideoOK(b) == rx[b].next \in {"changed", "ack"} => rx[b].packet \in {"keyframe", "delta"}

Readies == {"READY"}

\* A bot that waits for the answer to its TRACKS_READY is owed exactly one.
AnswerOK(b) ==
  Len(Sift(up[b], Readies)) + Len(Sift(ws[b], Answers)) = IF pc[b] = "ready" THEN 1 ELSE 0

TypeInv ==
  /\ TypeOK
  /\ limits \in Limits
  /\ stores \in [Bots -> Rests]
  /\ \A b \in Bots : TurnOK(b) /\ VideoOK(b) /\ AnswerOK(b)

LEMMA TypeInit == Init => TypeInv
<1> SUFFICES ASSUME Init PROVE TypeInv
  OBVIOUS
<1>1. SfuOK /\ limits \in Limits
  BY EmptySeq DEF Init, SfuOK
<1>2. WiresOK
  BY EmptySeq DEF Init, WiresOK
<1>3. SessionOK
  <2>1. limits.requests \in Nat
    BY <1>1, PttFloorAssumption
  <2> QED
    BY <2>1, EmptySeq DEF Init, SessionOK
<1>4. RecvOK
  <2>1. [floor_idle |-> TRUE, speaker_just_changed |-> FALSE, floor_just_released |-> FALSE,
         ack_sent |-> FALSE] \in [Flags -> BOOLEAN]
    <3>1. [floor_idle : BOOLEAN, speaker_just_changed : BOOLEAN, floor_just_released : BOOLEAN,
           ack_sent : BOOLEAN] \subseteq [Flags -> BOOLEAN]
      BY DEF Flags
    <3> QED
      BY <3>1
  <2>2. flag \in [Bots -> [Flags -> BOOLEAN]]
    BY <2>1 DEF Init
  <2>3. rx \in [Bots -> [packet : Packets \cup {"none"},
                         next : {"none", "released", "changed", "ack"}]]
    BY DEF Init, NoPacket
  <2>4. obs \in [Bots -> Observations]
    BY DEF Init, Observations
  <2> QED
    BY <2>2, <2>3, <2>4 DEF RecvOK
<1>5. stores \in [Bots -> Rests]
  BY DEF Init, Rests
<1>6. ASSUME NEW b \in Bots PROVE TurnOK(b) /\ VideoOK(b) /\ AnswerOK(b)
  <2>1. TurnOK(b) /\ VideoOK(b)
    BY DEF Init, TurnOK, VideoOK, NoPacket
  <2>2. Sift(up[b], Readies) = <<>> /\ Sift(ws[b], Answers) = <<>> /\ Len(<<>>) = 0
    BY SiftEmpty, EmptySeq DEF Init
  <2>3. pc[b] # "ready"
    BY DEF Init
  <2> QED
    BY <2>1, <2>2, <2>3 DEF AnswerOK
<1> QED
  BY <1>1, <1>2, <1>3, <1>4, <1>5, <1>6 DEF TypeInv, TypeOK

-----------------------------------------------------------------------------
(***************************************************************************)
(* The wires to the bots and from them.                                    *)
(***************************************************************************)

\* What the SFU sends unasked.
Plain == Messages(FloorKinds \cup TrackKinds \cup {"leave"})

LEMMA MessageType ==
  ASSUME NEW kinds, NEW kind \in kinds, NEW c \in Bots
  PROVE  Message(kind, c) \in Messages(kinds) /\ <<Message(kind, c)>> \in Seq(Messages(kinds))
<1>1. Message(kind, c) \in Messages(kinds)
  BY DEF Message, Messages
<1> QED
  BY <1>1

LEMMA MessagesMeet ==
  ASSUME NEW kinds, NEW others
  PROVE  /\ Messages(kinds) \cap Messages(others) = Messages(kinds \cap others)
         /\ Messages(kinds) \ Messages(others) = Messages(kinds \ others)
         /\ kinds \subseteq others => Messages(kinds) \subseteq Messages(others)
<1>1. ASSUME NEW m PROVE m \in Messages(kinds) <=> /\ m = [kind |-> m.kind, bot |-> m.bot]
                                                   /\ m.kind \in kinds /\ m.bot \in Bots
  BY DEF Messages
<1>2. ASSUME NEW m PROVE m \in Messages(others) <=> /\ m = [kind |-> m.kind, bot |-> m.bot]
                                                    /\ m.kind \in others /\ m.bot \in Bots
  BY DEF Messages
<1>3. ASSUME NEW m
      PROVE  /\ m \in Messages(kinds \cap others) <=> /\ m = [kind |-> m.kind, bot |-> m.bot]
                                                      /\ m.kind \in kinds \cap others
                                                      /\ m.bot \in Bots
             /\ m \in Messages(kinds \ others) <=> /\ m = [kind |-> m.kind, bot |-> m.bot]
                                                   /\ m.kind \in kinds \ others
                                                   /\ m.bot \in Bots
  BY DEF Messages
<1> QED
  BY <1>1, <1>2, <1>3

LEMMA PlainMessages ==
  /\ Plain \subseteq AllMessages /\ Plain \cap Answers = {}
  /\ AllMessages \cap Answers = Answers
<1>1. (FloorKinds \cup TrackKinds \cup {"leave"}) \cap AnswerKinds = {}
  BY DEF FloorKinds, TrackKinds, AnswerKinds
<1>2. /\ FloorKinds \cup TrackKinds \cup {"leave"} \subseteq AllKinds
      /\ AllKinds \cap AnswerKinds = AnswerKinds
  BY DEF AllKinds, EventKinds
<1>3. Messages({}) = {}
  BY DEF Messages
<1>4. Plain \subseteq AllMessages
  BY <1>2, MessagesMeet DEF Plain, AllMessages
<1>5. Plain \cap Answers = {}
  BY <1>1, <1>3, MessagesMeet DEF Plain, Answers
<1>6. AllMessages \cap Answers = Answers
  BY <1>2, MessagesMeet DEF AllMessages, Answers
<1> QED
  BY <1>4, <1>5, <1>6

LEMMA WireType ==
  ASSUME TypeInv, NEW b \in Bots
  PROVE  /\ ws[b] \in Seq(AllMessages) /\ up[b] \in Seq({"FREQ", "FREL", "READY"})
         /\ floor_mbcp_buf[b] \in Seq(Messages(FloorKinds))
         /\ batch[b] \in Seq(Messages(FloorKinds))
         /\ event_buf[b] \in Seq(Messages(TrackKinds \cup {"leave"}))
         /\ rtp[b] \in Seq(Packets)
BY DEF TypeInv, TypeOK, WiresOK, SessionOK, AllMessages, AllKinds

LEMMA WireGrows ==
  ASSUME TypeInv, NEW b \in Bots, NEW more \in Seq(AllMessages), ws'[b] = ws[b] \o more, NEW S
  PROVE  /\ ws'[b] \in Seq(AllMessages)
         /\ Sift(ws'[b], S) = Sift(ws[b], S) \o Sift(more, S)
<1> DEFINE w == ws[b]
<1>1. w \in Seq(AllMessages)
  BY WireType
<1> HIDE DEF w
<1>2. w \o more \in Seq(AllMessages)
  BY <1>1, ConcatProperties
<1>3. Sift(w \o more, S) = Sift(w, S) \o Sift(more, S)
  BY <1>1, SiftConcat
<1> QED
  BY <1>2, <1>3 DEF w

LEMMA PlainSent ==
  ASSUME TypeInv, NEW b \in Bots, NEW more \in Seq(Plain), ws'[b] = ws[b] \o more
  PROVE  ws'[b] \in Seq(AllMessages) /\ Sift(ws'[b], Answers) = Sift(ws[b], Answers)
<1>1. more \in Seq(AllMessages)
  BY PlainMessages, SeqMonotonic
<1>2. Sift(more, Answers) = <<>>
  BY PlainMessages, SiftNone
<1>3. ws'[b] \in Seq(AllMessages) /\ Sift(ws'[b], Answers) = Sift(ws[b], Answers) \o <<>>
  BY <1>1, <1>2, WireGrows
<1>4. Sift(ws[b], Answers) \in Seq(AllMessages \cap Answers)
  BY WireType, SiftType
<1> QED
  BY <1>3, <1>4, ConcatEmptySeq

LEMMA TakesType ==
  ASSUME TypeInv, NEW b \in Bots, NEW kind, Takes(b, kind)
  PROVE  /\ up' \in [Bots -> Seq({"FREQ", "FREL", "READY"})]
         /\ \A c \in Bots \ {b} : up'[c] = up[c]
         /\ kind # "READY" => Sift(up'[b], Readies) = Sift(up[b], Readies)
         /\ kind = "READY" =>
              Len(Sift(up[b], Readies)) = Len(Sift(up'[b], Readies)) + 1
<1>1. up[b] \in Seq({"FREQ", "FREL", "READY"}) /\ up[b] # <<>> /\ Head(up[b]) = kind
  BY WireType DEF Takes
<1>2. up \in [Bots -> Seq({"FREQ", "FREL", "READY"})]
  BY DEF TypeInv, TypeOK, WiresOK
<1>3. up'[b] = Tail(up[b]) /\ \A c \in Bots \ {b} : up'[c] = up[c]
  BY <1>2 DEF Takes
<1>4. Tail(up[b]) \in Seq({"FREQ", "FREL", "READY"})
  BY <1>1, HeadAndTail
<1>5. up' \in [Bots -> Seq({"FREQ", "FREL", "READY"})]
  BY <1>2, <1>4 DEF Takes
<1>6. kind # "READY" => Sift(up'[b], Readies) = Sift(up[b], Readies)
  BY <1>1, <1>3, SiftHead DEF Readies
<1>7. ASSUME kind = "READY"
      PROVE  Len(Sift(up[b], Readies)) = Len(Sift(up'[b], Readies)) + 1
  <2> DEFINE rest == Sift(up'[b], Readies)
  <2>1. Sift(up[b], Readies) = <<kind>> \o rest
    BY <1>1, <1>3, <1>7, SiftHead DEF Readies
  <2>2. rest \in Seq({"FREQ", "FREL", "READY"} \cap Readies)
    BY <1>3, <1>4, SiftType
  <2>3. kind \in {"FREQ", "FREL", "READY"} \cap Readies
    BY <1>7 DEF Readies
  <2> HIDE DEF rest
  <2>4. Len(<<kind>> \o rest) = Len(rest) + 1
    BY <2>2, <2>3, Cons
  <2> QED
    BY <2>1, <2>4 DEF rest
<1> QED
  BY <1>3, <1>5, <1>6, <1>7

\* The SFU's steps: frames it sends unasked, and what it takes from a bot.
LEMMA SentStep ==
  ASSUME TypeInv, SfuOK', UNCHANGED <<limits, stores>>,
         ws' = [b \in Bots |-> ws'[b]],
         \A b \in Bots : \E more \in Seq(Plain) : ws'[b] = ws[b] \o more,
         up' \in [Bots -> Seq({"FREQ", "FREL", "READY"})],
         \A b \in Bots : Sift(up'[b], Readies) = Sift(up[b], Readies),
         rtp' \in [Bots -> Seq(Packets)],
         UNCHANGED <<pc, session, batch, subscribe_ssrcs, flag, rx, obs, requests>>
  PROVE  TypeInv'
<1>1. ASSUME NEW b \in Bots
      PROVE  ws'[b] \in Seq(AllMessages) /\ Sift(ws'[b], Answers) = Sift(ws[b], Answers)
  <2>1. PICK more \in Seq(Plain) : ws'[b] = ws[b] \o more
    OBVIOUS
  <2> QED
    BY <2>1, PlainSent
<1>2. WiresOK'
  BY <1>1 DEF WiresOK, AllMessages, AllKinds
<1>3. SessionOK' /\ RecvOK'
  BY DEF TypeInv, TypeOK, SessionOK, RecvOK, session
<1>4. ASSUME NEW b \in Bots PROVE TurnOK(b)' /\ VideoOK(b)' /\ AnswerOK(b)'
  <2>1. TurnOK(b) /\ VideoOK(b) /\ AnswerOK(b)
    BY DEF TypeInv
  <2>2. TurnOK(b)' /\ VideoOK(b)'
    BY <2>1 DEF TurnOK, VideoOK
  <2>3. AnswerOK(b)'
    BY <1>1, <2>1 DEF AnswerOK, Answers, Messages
  <2> QED
    BY <2>2, <2>3
<1> QED
  BY <1>2, <1>3, <1>4 DEF TypeInv, TypeOK

\* One frame to each of some bots.
LEMMA BroadcastSends ==
  ASSUME TypeInv, NEW kind \in FloorKinds \cup TrackKinds \cup {"leave"}, NEW c \in Bots,
         NEW to, Broadcast(to, Message(kind, c))
  PROVE  /\ ws' = [b \in Bots |-> ws'[b]]
         /\ \A b \in Bots :
              /\ b \in to => ws'[b] = ws[b] \o <<Message(kind, c)>>
              /\ b \notin to => ws'[b] = ws[b] \o <<>>
         /\ \A b \in Bots : \E more \in Seq(Plain) : ws'[b] = ws[b] \o more
<1> DEFINE m == Message(kind, c)
<1>1. m \in Plain /\ <<m>> \in Seq(Plain) /\ <<>> \in Seq(Plain) /\ Plain \subseteq AllMessages
  BY MessageType, EmptySeq, PlainMessages DEF Plain
<1>2. ws' = [b \in Bots |-> IF b \in to THEN Append(ws[b], m) ELSE ws[b]]
  BY DEF Broadcast
<1> HIDE DEF m
<1>3. ASSUME NEW b \in Bots
      PROVE  /\ b \in to => ws'[b] = ws[b] \o <<m>>
             /\ b \notin to => ws'[b] = ws[b] \o <<>>
  <2>1. ws[b] \in Seq(AllMessages) /\ m \in AllMessages
    BY <1>1, WireType
  <2>2. Append(ws[b], m) = ws[b] \o <<m>> /\ ws[b] \o <<>> = ws[b]
    BY <2>1, AppendIsConcat, ConcatEmptySeq
  <2> QED
    BY <1>2, <2>2
<1>4. ASSUME NEW b \in Bots PROVE \E more \in Seq(Plain) : ws'[b] = ws[b] \o more
  BY <1>1, <1>3
<1> QED
  BY <1>2, <1>3, <1>4 DEF m

LEMMA SameUp ==
  ASSUME TypeInv, UNCHANGED up
  PROVE  /\ up' \in [Bots -> Seq({"FREQ", "FREL", "READY"})]
         /\ \A b \in Bots : Sift(up'[b], Readies) = Sift(up[b], Readies)
BY DEF TypeInv, TypeOK, WiresOK

LEMMA PublishTyped ==
  ASSUME TypeInv, UNCHANGED limits, NEW c \in Bots, Publish(c)
  PROVE  TypeInv'
<1>1. "add" \in FloorKinds \cup TrackKinds \cup {"leave"}
  BY DEF TrackKinds
<1>2. /\ ws' = [b \in Bots |-> ws'[b]]
      /\ \A b \in Bots : \E more \in Seq(Plain) : ws'[b] = ws[b] \o more
  BY <1>1, BroadcastSends DEF Publish
<1>3. SfuOK' /\ rtp' \in [Bots -> Seq(Packets)]
  BY DEF TypeInv, TypeOK, SfuOK, WiresOK, Publish
<1>4. UNCHANGED <<up, stores, pc, session, batch, subscribe_ssrcs, flag, rx, obs, requests>>
  BY DEF Publish
<1> QED
  BY <1>2, <1>3, <1>4, SameUp, SentStep

LEMMA FlushTyped ==
  ASSUME TypeInv, NEW s, Flush(s)
  PROVE  rtp' \in [Bots -> Seq(Packets)]
<1>1. "silence" \in Packets
  BY DEF Packets
<1>2. ASSUME NEW b \in Bots PROVE Append(rtp[b], "silence") \in Seq(Packets)
  BY <1>1, WireType, AppendProperties
<1> QED
  BY <1>2, WireType DEF Flush

LEMMA TakenUp ==
  ASSUME TypeInv, NEW b \in Bots, NEW kind, Takes(b, kind), kind # "READY"
  PROVE  /\ up' \in [Bots -> Seq({"FREQ", "FREL", "READY"})]
         /\ \A c \in Bots : Sift(up'[c], Readies) = Sift(up[c], Readies)
BY TakesType

LEMMA RequestTyped ==
  ASSUME TypeInv, UNCHANGED limits, NEW b \in Bots, SfuFloorRequest(b)
  PROVE  TypeInv'
<1>1. "FTKN" \in FloorKinds \cup TrackKinds \cup {"leave"}
  BY DEF FloorKinds
<1>2. /\ up' \in [Bots -> Seq({"FREQ", "FREL", "READY"})]
      /\ \A c \in Bots : Sift(up'[c], Readies) = Sift(up[c], Readies)
  BY TakenUp DEF SfuFloorRequest
<1>3. /\ ws' = [c \in Bots |-> ws'[c]]
      /\ \A c \in Bots : \E more \in Seq(Plain) : ws'[c] = ws[c] \o more
  <2>1. CASE UNCHANGED ws
    BY <2>1, EmptySeq, WireType, ConcatEmptySeq DEF TypeInv, TypeOK, WiresOK
  <2>2. CASE Broadcast(Present, Message("FTKN", b))
    BY <1>1, <2>2, BroadcastSends
  <2> QED
    BY <2>1, <2>2 DEF SfuFloorRequest
<1>4. SfuOK'
  <2>1. Append(announced, FALSE) \in Seq(BOOLEAN)
    BY AppendProperties DEF TypeInv, TypeOK, SfuOK
  <2> QED
    BY <2>1 DEF TypeInv, TypeOK, SfuOK, SfuFloorRequest
<1>5. /\ rtp' \in [Bots -> Seq(Packets)]
      /\ UNCHANGED <<stores, pc, session, batch, subscribe_ssrcs, flag, rx, obs, requests>>
  BY DEF TypeInv, TypeOK, WiresOK, SfuFloorRequest
<1> QED
  BY <1>2, <1>3, <1>4, <1>5, SentStep

LEMMA ReleaseTyped ==
  ASSUME TypeInv, UNCHANGED limits, NEW b \in Bots, SfuFloorRelease(b)
  PROVE  TypeInv'
<1>1. "FIDL" \in FloorKinds \cup TrackKinds \cup {"leave"}
  BY DEF FloorKinds
<1>2. /\ up' \in [Bots -> Seq({"FREQ", "FREL", "READY"})]
      /\ \A c \in Bots : Sift(up'[c], Readies) = Sift(up[c], Readies)
  BY TakenUp DEF SfuFloorRelease
<1>3. /\ ws' = [c \in Bots |-> ws'[c]]
      /\ \A c \in Bots : \E more \in Seq(Plain) : ws'[c] = ws[c] \o more
  <2>1. CASE UNCHANGED ws
    BY <2>1, EmptySeq, WireType, ConcatEmptySeq DEF TypeInv, TypeOK, WiresOK
  <2>2. CASE Broadcast(Present, Message("FIDL", b))
    BY <1>1, <2>2, BroadcastSends
  <2> QED
    BY <2>1, <2>2 DEF SfuFloorRelease
<1>4. SfuOK'
  <2>1. Append(announced, TRUE) \in Seq(BOOLEAN)
    BY AppendProperties DEF TypeInv, TypeOK, SfuOK
  <2> QED
    BY <2>1 DEF TypeInv, TypeOK, SfuOK, SfuFloorRelease
<1>5. rtp' \in [Bots -> Seq(Packets)]
  BY FlushTyped DEF TypeInv, TypeOK, WiresOK, SfuFloorRelease
<1>6. UNCHANGED <<stores, pc, session, batch, subscribe_ssrcs, flag, rx, obs, requests>>
  BY DEF SfuFloorRelease
<1> QED
  BY <1>2, <1>3, <1>4, <1>5, <1>6, SentStep

LEMMA RevokeSends ==
  ASSUME TypeInv, SfuFloorRevoke
  PROVE  /\ ws' = [b \in Bots |-> ws'[b]] /\ holder \in Bots
         /\ \A b \in Bots :
              \/ /\ b \in Present \/ b = holder
                 /\ \/ ws'[b] = ws[b] \o <<Message("FIDL", holder)>>
                    \/ ws'[b] = ws[b] \o <<Message("FRVK", b), Message("FIDL", b)>>
              \/ b \notin Present /\ ws'[b] = ws[b] \o <<>>
<1>1. holder \in Bots
  BY DEF TypeInv, TypeOK, SfuOK, SfuFloorRevoke
<1> DEFINE m == Message("FIDL", holder)
<1>2. m \in AllMessages
  BY <1>1, MessageType DEF AllMessages, AllKinds, FloorKinds
<1> HIDE DEF m
<1>3. ASSUME NEW b \in Bots
      PROVE  Append(ws[b], m) = ws[b] \o <<m>> /\ ws[b] = ws[b] \o <<>>
  BY <1>2, WireType, AppendIsConcat, ConcatEmptySeq
<1>4. ASSUME NEW b \in Bots
      PROVE  ws'[b] = IF b = holder THEN ws[b] \o <<Message("FRVK", b), Message("FIDL", b)>>
                      ELSE IF b \in Present THEN Append(ws[b], m) ELSE ws[b]
  BY DEF SfuFloorRevoke, m
<1>5. ws' = [b \in Bots |-> ws'[b]]
  BY DEF SfuFloorRevoke
<1> QED
  BY <1>1, <1>3, <1>4, <1>5 DEF m

LEMMA RevokeTyped ==
  ASSUME TypeInv, UNCHANGED limits, SfuFloorRevoke
  PROVE  TypeInv'
<1>1. /\ "FIDL" \in FloorKinds \cup TrackKinds \cup {"leave"}
      /\ "FRVK" \in FloorKinds \cup TrackKinds \cup {"leave"}
  BY DEF FloorKinds
<1>2. ws' = [b \in Bots |-> ws'[b]] /\ holder \in Bots
  BY RevokeSends
<1>3. ASSUME NEW b \in Bots PROVE \E more \in Seq(Plain) : ws'[b] = ws[b] \o more
  <2>1. <<Message("FIDL", holder)>> \in Seq(Plain) /\ <<>> \in Seq(Plain)
    BY <1>1, <1>2, MessageType, EmptySeq DEF Plain
  <2>2. <<Message("FRVK", b), Message("FIDL", b)>> \in Seq(Plain)
    <3>1. Message("FRVK", b) \in Plain /\ Message("FIDL", b) \in Plain
      BY <1>1, MessageType DEF Plain
    <3> QED
      BY <3>1
  <2> QED
    BY <2>1, <2>2, RevokeSends
<1>4. SfuOK'
  <2>1. Append(announced, TRUE) \in Seq(BOOLEAN)
    BY AppendProperties DEF TypeInv, TypeOK, SfuOK
  <2> QED
    BY <2>1 DEF TypeInv, TypeOK, SfuOK, SfuFloorRevoke
<1>5. rtp' \in [Bots -> Seq(Packets)]
  BY FlushTyped DEF SfuFloorRevoke
<1>6. UNCHANGED <<up, stores, pc, session, batch, subscribe_ssrcs, flag, rx, obs, requests>>
  BY DEF SfuFloorRevoke
<1> QED
  BY <1>2, <1>3, <1>4, <1>5, <1>6, SameUp, SentStep

\* What a bot that is there hears when c is killed.
Freed(c) == IF holder = c THEN <<Message("FIDL", c)>> ELSE <<>>
Gone(c) == <<Message("remove", c), Message("leave", c)>>

LEMMA KillSends ==
  ASSUME TypeInv, NEW c \in Bots, KillBot(c)
  PROVE  /\ ws' = [b \in Bots |-> ws'[b]]
         /\ Gone(c) \in Seq(Plain) /\ Freed(c) \in Seq(Plain)
         /\ \A b \in Bots :
              \/ b \in Present \ {c} /\ ws'[b] = ws[b] \o (Gone(c) \o Freed(c))
              \/ b \notin Present \ {c} /\ ws'[b] = ws[b] \o <<>>
<1>1. "remove" \in TrackKinds /\ "FIDL" \in FloorKinds
  BY DEF FloorKinds, TrackKinds
<1>2. Message("remove", c) \in Plain /\ Message("leave", c) \in Plain /\ <<Message("FIDL", c)>> \in Seq(Plain)
  BY <1>1, MessageType DEF Plain
<1>3. Gone(c) \in Seq(Plain) /\ Freed(c) \in Seq(Plain)
  BY <1>2, EmptySeq DEF Gone, Freed
<1>4. Gone(c) \in Seq(AllMessages) /\ Freed(c) \in Seq(AllMessages)
  BY <1>3, PlainMessages, SeqMonotonic
<1>5. \A b \in Bots : ws'[b] = IF b \in Present \ {c} THEN (ws[b] \o Gone(c)) \o Freed(c) ELSE ws[b]
  BY DEF KillBot, Gone, Freed
<1>6. ASSUME NEW b \in Bots
      PROVE  (ws[b] \o Gone(c)) \o Freed(c) = ws[b] \o (Gone(c) \o Freed(c)) /\ ws[b] \o <<>> = ws[b]
  <2> DEFINE w == ws[b]
             g == Gone(c)
             f == Freed(c)
  <2>1. w \in Seq(AllMessages) /\ g \in Seq(AllMessages) /\ f \in Seq(AllMessages)
    BY <1>4, WireType
  <2> HIDE DEF w, g, f
  <2>2. (w \o g) \o f = w \o (g \o f)
    BY <2>1, ConcatAssociative
  <2>3. w \o <<>> = w
    BY <2>1, ConcatEmptySeq
  <2> QED
    BY <2>2, <2>3 DEF w, g, f
<1>7. ws' = [b \in Bots |-> ws'[b]]
  BY DEF KillBot
<1> QED
  BY <1>3, <1>5, <1>6, <1>7

LEMMA KillTyped ==
  ASSUME TypeInv, UNCHANGED limits, NEW c \in Bots, KillBot(c)
  PROVE  TypeInv'
<1>1. Gone(c) \o Freed(c) \in Seq(Plain) /\ <<>> \in Seq(Plain)
  BY KillSends, ConcatProperties, EmptySeq
<1>2. /\ ws' = [b \in Bots |-> ws'[b]]
      /\ \A b \in Bots : \E more \in Seq(Plain) : ws'[b] = ws[b] \o more
  BY <1>1, KillSends
<1>3. SfuOK'
  <2>1. Append(announced, TRUE) \in Seq(BOOLEAN)
    BY AppendProperties DEF TypeInv, TypeOK, SfuOK
  <2> QED
    BY <2>1 DEF TypeInv, TypeOK, SfuOK, KillBot
<1>4. /\ UNCHANGED <<up, stores, pc, session, batch, subscribe_ssrcs, flag, rx, requests>>
      /\ UNCHANGED <<rtp, obs>>
  BY DEF KillBot
<1>5. rtp' \in [Bots -> Seq(Packets)]
  BY <1>4 DEF TypeInv, TypeOK, WiresOK
<1> QED
  BY <1>2, <1>3, <1>4, <1>5, SameUp, SentStep

LEMMA ReadySends ==
  ASSUME TypeInv, NEW b \in Bots, SfuTracksReady(b)
  PROVE  /\ ws' \in [Bots -> Seq(AllMessages)]
         /\ \A c \in Bots \ {b} : ws'[c] = ws[c]
         /\ \E m \in Answers : ws'[b] = ws[b] \o <<m>>
<1>1. PICK kind \in AnswerKinds : ws' = [ws EXCEPT ![b] = Append(@, Message(kind, b))]
  BY DEF SfuTracksReady, AnswerKinds
<1> DEFINE m == Message(kind, b)
<1>2. m \in Answers /\ m \in AllMessages
  BY MessageType DEF Answers, AllMessages, AllKinds, EventKinds
<1> HIDE DEF m
<1>3. ws \in [Bots -> Seq(AllMessages)]
  BY DEF TypeInv, TypeOK, WiresOK, AllMessages, AllKinds
<1>4. Append(ws[b], m) \in Seq(AllMessages) /\ Append(ws[b], m) = ws[b] \o <<m>>
  BY <1>2, <1>3, AppendProperties, AppendIsConcat
<1>5. ws' = [ws EXCEPT ![b] = Append(ws[b], m)]
  BY <1>1 DEF m
<1> QED
  BY <1>2, <1>3, <1>4, <1>5

LEMMA ReadyTyped ==
  ASSUME TypeInv, UNCHANGED limits, NEW b \in Bots, SfuTracksReady(b)
  PROVE  TypeInv'
<1>1. PICK m \in Answers : ws'[b] = ws[b] \o <<m>>
  BY ReadySends
<1>2. /\ up' \in [Bots -> Seq({"FREQ", "FREL", "READY"})]
      /\ \A c \in Bots \ {b} : up'[c] = up[c]
      /\ Len(Sift(up[b], Readies)) = Len(Sift(up'[b], Readies)) + 1
  BY TakesType DEF SfuTracksReady
<1>3. Len(Sift(ws'[b], Answers)) = Len(Sift(ws[b], Answers)) + 1
  <2> DEFINE w == ws[b]
  <2>1. w \in Seq(AllMessages) /\ m \in AllMessages
    BY WireType, PlainMessages
  <2>2. ws'[b] = w \o <<m>>
    BY <1>1
  <2> HIDE DEF w
  <2>3. w \o <<m>> = Append(w, m)
    BY <2>1, CountOneMore
  <2>4. Len(Sift(Append(w, m), Answers)) = Len(Sift(w, Answers)) + 1
    BY <2>1, CountOneMore
  <2> QED
    BY <2>2, <2>3, <2>4 DEF w
<1>4. SfuOK'
  BY DEF TypeInv, TypeOK, SfuOK, SfuTracksReady
<1>5. UNCHANGED <<rtp, stores, pc, session, batch, subscribe_ssrcs, flag, rx, obs, requests>>
  BY DEF SfuTracksReady
<1>6. WiresOK'
  BY <1>2, <1>5, ReadySends DEF TypeInv, TypeOK, WiresOK, AllMessages, AllKinds
<1>7. SessionOK' /\ RecvOK'
  BY <1>5 DEF TypeInv, TypeOK, SessionOK, RecvOK, session
<1>8. ASSUME NEW c \in Bots PROVE TurnOK(c)' /\ VideoOK(c)' /\ AnswerOK(c)'
  <2>1. TurnOK(c) /\ VideoOK(c) /\ AnswerOK(c)
    BY DEF TypeInv
  <2>2. TurnOK(c)' /\ VideoOK(c)'
    BY <1>5, <2>1 DEF TurnOK, VideoOK
  <2>3. AnswerOK(c)'
    <3>1. CASE c = b
      <4>1. /\ Sift(up'[b], Readies) \in Seq({"FREQ", "FREL", "READY"} \cap Readies)
            /\ Sift(ws[b], Answers) \in Seq(AllMessages \cap Answers)
        BY <1>2, WireType, SiftType
      <4>2. Len(Sift(up'[b], Readies)) \in Nat /\ Len(Sift(ws[b], Answers)) \in Nat
        BY <4>1, LenProperties
      <4> QED
        BY <1>2, <1>3, <1>5, <2>1, <3>1, <4>2 DEF AnswerOK, Answers, Messages
    <3>2. CASE c # b
      BY <1>2, <1>5, <2>1, <3>2, ReadySends DEF AnswerOK, Answers, Messages
    <3> QED
      BY <3>1, <3>2
  <2> QED
    BY <2>2, <2>3
<1> QED
  BY <1>4, <1>5, <1>6, <1>7, <1>8 DEF TypeInv, TypeOK

LEMMA RelayTyped ==
  ASSUME TypeInv, UNCHANGED limits, NEW b \in Bots, SfuRelay(b)
  PROVE  TypeInv'
<1>1. UNCHANGED <<up, ws, stores, pc, session, batch, subscribe_ssrcs, flag, rx, obs, requests>>
  BY DEF SfuRelay
<1>2. SfuOK'
  BY DEF TypeInv, TypeOK, SfuOK, SfuRelay
<1>3. rtp' \in [Bots -> Seq(Packets)]
  <2>1. PICK p \in Packets : rtp' = [rtp EXCEPT ![b] = Append(@, p)]
    BY DEF SfuRelay, Packets
  <2>2. Append(rtp[b], p) \in Seq(Packets)
    BY WireType, AppendProperties
  <2> QED
    BY <2>1, <2>2 DEF TypeInv, TypeOK, WiresOK
<1>4. /\ ws' = [c \in Bots |-> ws'[c]]
      /\ \A c \in Bots : \E more \in Seq(Plain) : ws'[c] = ws[c] \o more
  BY <1>1, EmptySeq, WireType, ConcatEmptySeq DEF TypeInv, TypeOK, WiresOK
<1> QED
  BY <1>1, <1>2, <1>3, <1>4, SameUp, SentStep

-----------------------------------------------------------------------------
(***************************************************************************)
(* Track updates, applied one after the other.                             *)
(***************************************************************************)

Updates(ssrcs, tracks, after, m) ==
  after = [n \in 0 .. m |-> IF n = 0 THEN ssrcs ELSE Subscribed(after[n - 1], tracks[n])]

LEMMA UpdatesExist ==
  ASSUME NEW ssrcs, NEW tracks
  PROVE  \A m \in Nat : \E after : Updates(ssrcs, tracks, after, m)
<1> DEFINE Ok == {m \in Nat : \E after : Updates(ssrcs, tracks, after, m)}
<1>1. 0 \in Ok
  <2>1. Updates(ssrcs, tracks, [n \in 0 .. 0 |-> ssrcs], 0)
    BY DEF Updates
  <2> QED
    BY <2>1
<1>2. ASSUME NEW m \in Nat, m \in Ok PROVE m + 1 \in Ok
  <2>1. PICK after : Updates(ssrcs, tracks, after, m)
    BY <1>2
  <2> DEFINE more == [n \in 0 .. m + 1 |->
                        IF n <= m THEN after[n] ELSE Subscribed(after[n - 1], tracks[n])]
  <2>2. \A n \in 0 .. m : more[n] = after[n]
    OBVIOUS
  <2>3. \A n \in 0 .. m : after[n] = IF n = 0 THEN ssrcs ELSE Subscribed(after[n - 1], tracks[n])
    BY <2>1 DEF Updates
  <2>4. \A n \in 0 .. m + 1 : more[n] = IF n = 0 THEN ssrcs ELSE Subscribed(more[n - 1], tracks[n])
    <3> SUFFICES ASSUME NEW n \in 0 .. m + 1
                 PROVE  more[n] = IF n = 0 THEN ssrcs ELSE Subscribed(more[n - 1], tracks[n])
      OBVIOUS
    <3>1. CASE n <= m
      <4>1. n \in 0 .. m /\ (n # 0 => n - 1 \in 0 .. m)
        BY <3>1
      <4> QED
        BY <2>2, <2>3, <4>1
    <3>2. CASE n = m + 1
      BY <2>2, <3>2
    <3> QED
      BY <3>1, <3>2
  <2>5. Updates(ssrcs, tracks, more, m + 1)
    <3>1. more = [n \in 0 .. m + 1 |-> more[n]]
      OBVIOUS
    <3> HIDE DEF more
    <3> QED
      BY <2>4, <3>1 DEF Updates
  <2> QED
    BY <2>5
<1> HIDE DEF Ok
<1>3. Nat \subseteq Ok
  BY <1>1, <1>2, SetInduction
<1> QED
  BY <1>3 DEF Ok

LEMMA ApplyIsUpdates ==
  ASSUME NEW M, NEW ssrcs, NEW tracks \in Seq(M)
  PROVE  \E after : /\ after[0] = ssrcs
                    /\ \A n \in 1 .. Len(tracks) : after[n] = Subscribed(after[n - 1], tracks[n])
                    /\ ApplyTracks(ssrcs, tracks).ssrcs = after[Len(tracks)]
<1> DEFINE after == CHOOSE a : Updates(ssrcs, tracks, a, Len(tracks))
<1>1. Len(tracks) \in Nat
  BY LenProperties
<1>2. Updates(ssrcs, tracks, after, Len(tracks))
  BY <1>1, UpdatesExist
<1>3. ApplyTracks(ssrcs, tracks).ssrcs = after[Len(tracks)]
  BY DEF ApplyTracks, Updates
<1> HIDE DEF after
<1>4. \A n \in 0 .. Len(tracks) :
         after[n] = IF n = 0 THEN ssrcs ELSE Subscribed(after[n - 1], tracks[n])
  BY <1>2 DEF Updates
<1>5. 0 \in 0 .. Len(tracks) /\ \A n \in 1 .. Len(tracks) : n \in 0 .. Len(tracks) /\ n # 0
  BY <1>1
<1> QED
  BY <1>3, <1>4, <1>5

LEMMA ApplyEmpty == ASSUME NEW ssrcs PROVE ApplyTracks(ssrcs, <<>>).ssrcs = ssrcs
<1> DEFINE none == <<>>
           M == {}
<1>1. none \in Seq(M)
  BY EmptySeq
<1>3. Len(none) = 0
  BY EmptySeq
<1> HIDE DEF none, M
<1>2. PICK after : /\ after[0] = ssrcs
                   /\ \A n \in 1 .. Len(none) : after[n] = Subscribed(after[n - 1], none[n])
                   /\ ApplyTracks(ssrcs, none).ssrcs = after[Len(none)]
  BY <1>1, ApplyIsUpdates
<1> QED
  BY <1>2, <1>3 DEF none

LEMMA ApplyAppend ==
  ASSUME NEW M, NEW ssrcs, NEW tracks \in Seq(M), NEW m \in M
  PROVE  ApplyTracks(ssrcs, Append(tracks, m)).ssrcs = Subscribed(ApplyTracks(ssrcs, tracks).ssrcs, m)
<1> DEFINE longer == Append(tracks, m)
<1>1. /\ longer \in Seq(M) /\ Len(longer) = Len(tracks) + 1 /\ Len(tracks) \in Nat
      /\ longer[Len(tracks) + 1] = m /\ \A i \in 1 .. Len(tracks) : longer[i] = tracks[i]
  BY AppendProperties, LenProperties
<1> HIDE DEF longer
<1>2. PICK k : /\ k[0] = ssrcs
               /\ \A n \in 1 .. Len(tracks) : k[n] = Subscribed(k[n - 1], tracks[n])
               /\ ApplyTracks(ssrcs, tracks).ssrcs = k[Len(tracks)]
  BY ApplyIsUpdates
<1>3. PICK l : /\ l[0] = ssrcs
               /\ \A n \in 1 .. Len(longer) : l[n] = Subscribed(l[n - 1], longer[n])
               /\ ApplyTracks(ssrcs, longer).ssrcs = l[Len(longer)]
  BY <1>1, ApplyIsUpdates
<1> DEFINE Alike == {n \in Nat : n <= Len(tracks) => k[n] = l[n]}
<1>4. 0 \in Alike
  BY <1>2, <1>3
<1>5. ASSUME NEW n \in Nat, n \in Alike PROVE n + 1 \in Alike
  <2>1. SUFFICES ASSUME n + 1 <= Len(tracks) PROVE k[n + 1] = l[n + 1]
    OBVIOUS
  <2>2. /\ n + 1 \in 1 .. Len(tracks) /\ n + 1 \in 1 .. Len(longer)
        /\ (n + 1) - 1 = n /\ n <= Len(tracks)
    BY <1>1, <2>1
  <2>3. k[n] = l[n] /\ longer[n + 1] = tracks[n + 1]
    BY <1>1, <1>5, <2>2
  <2>4. k[n + 1] = Subscribed(k[n], tracks[n + 1]) /\ l[n + 1] = Subscribed(l[n], longer[n + 1])
    BY <1>2, <1>3, <2>2
  <2> QED
    BY <2>3, <2>4
<1> HIDE DEF Alike
<1>6. Nat \subseteq Alike
  BY <1>4, <1>5, SetInduction
<1>7. k[Len(tracks)] = l[Len(tracks)]
  BY <1>1, <1>6 DEF Alike
<1>8. Len(tracks) + 1 \in 1 .. Len(longer) /\ (Len(tracks) + 1) - 1 = Len(tracks)
  BY <1>1
<1>9. l[Len(tracks) + 1] = Subscribed(l[Len(tracks)], m)
  BY <1>1, <1>3, <1>8
<1> QED
  BY <1>1, <1>2, <1>3, <1>7, <1>9 DEF longer

LEMMA ApplyConcat ==
  ASSUME NEW M, NEW ssrcs, NEW s \in Seq(M), NEW t \in Seq(M)
  PROVE  ApplyTracks(ssrcs, s \o t).ssrcs = ApplyTracks(ApplyTracks(ssrcs, s).ssrcs, t).ssrcs
<1> DEFINE first == ApplyTracks(ssrcs, s).ssrcs
           Q == {q \in Seq(M) : ApplyTracks(ssrcs, s \o q).ssrcs = ApplyTracks(first, q).ssrcs}
<1>1. <<>> \in Q
  BY EmptySeq, ApplyEmpty, ConcatEmptySeq
<1>2. ASSUME NEW q \in Seq(M), NEW e \in M, q \in Q PROVE Append(q, e) \in Q
  <2> DEFINE sq == s \o q
  <2>1. s \o Append(q, e) = Append(sq, e) /\ Append(q, e) \in Seq(M)
    BY ConcatAppend, AppendProperties
  <2>2. sq \in Seq(M) /\ ApplyTracks(ssrcs, sq).ssrcs = ApplyTracks(first, q).ssrcs
    BY <1>2, ConcatProperties
  <2> HIDE DEF sq, first
  <2>3. ApplyTracks(ssrcs, Append(sq, e)).ssrcs = Subscribed(ApplyTracks(ssrcs, sq).ssrcs, e)
    BY <2>2, ApplyAppend
  <2>4. ApplyTracks(first, Append(q, e)).ssrcs = Subscribed(ApplyTracks(first, q).ssrcs, e)
    BY ApplyAppend
  <2> QED
    BY <2>1, <2>2, <2>3, <2>4
<1> HIDE DEF Q
<1>3. Seq(M) \subseteq Q
  BY <1>1, <1>2, SeqInduction
<1> QED
  BY <1>3 DEF Q

LEMMA ApplyType ==
  ASSUME NEW ssrcs \in SUBSET Bots, NEW tracks \in Seq(Tracks)
  PROVE  ApplyTracks(ssrcs, tracks).ssrcs \in SUBSET Bots
<1> DEFINE Q == {q \in Seq(Tracks) : ApplyTracks(ssrcs, q).ssrcs \in SUBSET Bots}
<1>1. <<>> \in Q
  BY EmptySeq, ApplyEmpty
<1>2. ASSUME NEW q \in Seq(Tracks), NEW e \in Tracks, q \in Q PROVE Append(q, e) \in Q
  <2>1. ApplyTracks(ssrcs, Append(q, e)).ssrcs = Subscribed(ApplyTracks(ssrcs, q).ssrcs, e)
    BY ApplyAppend
  <2>2. e.bot \in Bots /\ ApplyTracks(ssrcs, q).ssrcs \in SUBSET Bots
    BY <1>2 DEF Tracks, Messages
  <2>3. Subscribed(ApplyTracks(ssrcs, q).ssrcs, e) \in SUBSET Bots
    BY <2>2 DEF Subscribed
  <2> QED
    BY <2>1, <2>3, AppendProperties
<1> HIDE DEF Q
<1>3. Seq(Tracks) \subseteq Q
  BY <1>1, <1>2, SeqInduction
<1> QED
  BY <1>3 DEF Q

-----------------------------------------------------------------------------
(***************************************************************************)
(* The bots' steps.                                                        *)
(***************************************************************************)

\* A bot takes the first n of the frames that have arrived.
LEMMA PollType ==
  ASSUME TypeInv, NEW b \in Bots, NEW n, Poll(b, n)
  PROVE  /\ ws' \in [Bots -> Seq(AllMessages)] /\ \A c \in Bots \ {b} : ws'[c] = ws[c]
         /\ SubSeq(ws[b], 1, n) \in Seq(AllMessages)
         /\ ws'[b] = SubSeq(ws[b], n + 1, Len(ws[b]))
<1>1. ws \in [Bots -> Seq(AllMessages)] /\ n \in 0 .. Len(ws[b])
  BY DEF TypeInv, TypeOK, WiresOK, AllMessages, AllKinds, Poll
<1>2. SubSeq(ws[b], 1, n) \in Seq(AllMessages) /\ SubSeq(ws[b], n + 1, Len(ws[b])) \in Seq(AllMessages)
  BY <1>1, Cut
<1> QED
  BY <1>1, <1>2 DEF Poll

LEMMA PollSifts ==
  ASSUME TypeInv, NEW b \in Bots, NEW n, Poll(b, n), NEW S
  PROVE  Sift(SubSeq(ws[b], 1, n), S) \o Sift(ws'[b], S) = Sift(ws[b], S)
<1>1. ws[b] \in Seq(AllMessages) /\ n \in 0 .. Len(ws[b])
  BY WireType DEF Poll
<1>2. ws'[b] = SubSeq(ws[b], n + 1, Len(ws[b]))
  BY PollType
<1> QED
  BY <1>1, <1>2, SiftCut

\* Frames are sorted as they are taken; without an answer among them, what
\* goes to the events is tracks and leaves.
LEMMA Sorted ==
  ASSUME NEW s \in Seq(AllMessages)
  PROVE  /\ FloorPart(s) \in Seq(Messages(FloorKinds))
         /\ EventPart(s) \in Seq(Messages(EventKinds))
         /\ Sift(s, Answers) = <<>> => EventPart(s) \in Seq(Messages(TrackKinds \cup {"leave"}))
<1>1. /\ AllMessages \cap Messages(FloorKinds) = Messages(FloorKinds)
      /\ AllMessages \cap Messages(EventKinds) = Messages(EventKinds)
      /\ Messages(EventKinds) \ Answers = Messages(TrackKinds \cup {"leave"})
      /\ Messages(EventKinds) \cap Answers = Answers
  <2>1. /\ AllKinds \cap FloorKinds = FloorKinds /\ AllKinds \cap EventKinds = EventKinds
        /\ EventKinds \ AnswerKinds = TrackKinds \cup {"leave"}
        /\ EventKinds \cap AnswerKinds = AnswerKinds
    BY DEF AllKinds, EventKinds, TrackKinds, AnswerKinds
  <2> QED
    BY <2>1, MessagesMeet DEF AllMessages, Answers
<1>2. FloorPart(s) \in Seq(Messages(FloorKinds)) /\ EventPart(s) \in Seq(Messages(EventKinds))
  BY <1>1, SiftType DEF FloorPart, EventPart
<1>3. ASSUME Sift(s, Answers) = <<>> PROVE EventPart(s) \in Seq(Messages(TrackKinds \cup {"leave"}))
  <2>1. Sift(EventPart(s), Answers) = Sift(s, Messages(EventKinds) \cap Answers)
    BY SiftSift DEF EventPart
  <2>2. Sift(EventPart(s), Answers) = <<>>
    BY <1>1, <1>3, <2>1
  <2> QED
    BY <1>1, <1>2, <2>2, SiftFree
<1> QED
  BY <1>2, <1>3

\* No answer is on its way to a bot that does not wait for one.
LEMMA NoAnswer ==
  ASSUME TypeInv, NEW b \in Bots, pc[b] # "ready"
  PROVE  /\ Sift(ws[b], Answers) = <<>> /\ Sift(up[b], Readies) = <<>>
<1> DEFINE p == Sift(ws[b], Answers)
           q == Sift(up[b], Readies)
<1>1. p \in Seq(AllMessages \cap Answers) /\ q \in Seq({"FREQ", "FREL", "READY"} \cap Readies)
  BY WireType, SiftType
<1>2. Len(p) + Len(q) = 0
  <2>1. Len(p) \in Nat /\ Len(q) \in Nat
    BY <1>1, LenProperties
  <2>2. Len(q) + Len(p) = 0
    BY DEF TypeInv, AnswerOK
  <2> QED
    BY <2>1, <2>2
<1> HIDE DEF p, q
<1>3. Len(p) = 0 /\ Len(q) = 0
  BY <1>1, <1>2, LenProperties
<1>4. p = <<>> /\ q = <<>>
  BY <1>1, <1>3, EmptySeq
<1> QED
  BY <1>4 DEF p, q

\* What was not on the wire is not on it after a poll, nor among the taken.
LEMMA PollNone ==
  ASSUME TypeInv, NEW b \in Bots, NEW n, Poll(b, n), NEW S, Sift(ws[b], S) = <<>>
  PROVE  Sift(SubSeq(ws[b], 1, n), S) = <<>> /\ Sift(ws'[b], S) = <<>>
<1> DEFINE p == Sift(SubSeq(ws[b], 1, n), S)
           q == Sift(ws'[b], S)
<1>1. p \in Seq(AllMessages \cap S) /\ q \in Seq(AllMessages \cap S)
  BY PollType, SiftType
<1>2. p \o q = <<>>
  BY PollSifts
<1> HIDE DEF p, q
<1>3. p = <<>> /\ q = <<>>
  BY <1>1, <1>2, ConcatEqualIffEmpty
<1> QED
  BY <1>3 DEF p, q

LEMMA FloorAfterPollType ==
  ASSUME TypeInv, NEW b \in Bots, NEW n, Poll(b, n)
  PROVE  FloorAfterPoll(b, n) \in Seq(Messages(FloorKinds))
<1>1. FloorPart(SubSeq(ws[b], 1, n)) \in Seq(Messages(FloorKinds))
  BY PollType, Sorted
<1> QED
  BY <1>1, WireType, ConcatProperties DEF FloorAfterPoll

LEMMA EventsAfterPollType ==
  ASSUME TypeInv, NEW b \in Bots, NEW n, Poll(b, n),
         Sift(SubSeq(ws[b], 1, n), Answers) = <<>>
  PROVE  EventsAfterPoll(b, n) \in Seq(Messages(TrackKinds \cup {"leave"}))
<1>1. EventPart(SubSeq(ws[b], 1, n)) \in Seq(Messages(TrackKinds \cup {"leave"}))
  BY PollType, Sorted
<1> QED
  BY <1>1, WireType, ConcatProperties DEF EventsAfterPoll

LEMMA FlagType ==
  ASSUME TypeInv, NEW b \in Bots, NEW name \in Flags, NEW value \in BOOLEAN,
         flag' = [flag EXCEPT ![b][name] = value]
  PROVE  /\ flag' \in [Bots -> [Flags -> BOOLEAN]]
         /\ flag'[b] = [flag[b] EXCEPT ![name] = value]
         /\ \A c \in Bots \ {b} : flag'[c] = flag[c]
<1>1. flag \in [Bots -> [Flags -> BOOLEAN]]
  BY DEF TypeInv, TypeOK, RecvOK
<1>2. flag'[b] = [flag[b] EXCEPT ![name] = value] /\ \A c \in Bots \ {b} : flag'[c] = flag[c]
  BY <1>1
<1>3. flag'[b] \in [Flags -> BOOLEAN]
  BY <1>1, <1>2
<1> QED
  BY <1>1, <1>2, <1>3

LEMMA AwaitTyped ==
  ASSUME TypeInv, UNCHANGED limits, NEW b \in Bots, NEW n, AwaitFloorTaken(b, n)
  PROVE  TypeInv'
<1>1. Poll(b, n) /\ pc[b] = "await"
  BY DEF AwaitFloorTaken
<1>2. /\ ws' \in [Bots -> Seq(AllMessages)] /\ \A c \in Bots \ {b} : ws'[c] = ws[c]
  BY <1>1, PollType
<1>3. Sift(ws[b], Answers) = <<>> /\ Sift(SubSeq(ws[b], 1, n), Answers) = <<>> /\ Sift(ws'[b], Answers) = <<>>
  BY <1>1, NoAnswer, PollNone
<1>4. EventsAfterPoll(b, n) \in Seq(Messages(TrackKinds \cup {"leave"}))
  BY <1>1, <1>3, EventsAfterPollType
<1>5. SfuOK' /\ UNCHANGED <<up, rtp, batch, stores, subscribe_ssrcs, rx, obs, requests>>
  BY DEF TypeInv, TypeOK, SfuOK, AwaitFloorTaken, sfu
<1>6. WiresOK'
  BY <1>2, <1>5 DEF TypeInv, TypeOK, WiresOK, AllMessages, AllKinds
<1>7. pc' \in [Bots -> {"idle", "await", "ready", "drain"}] /\ pc'[b] \in {"idle", "await"}
      /\ \A c \in Bots \ {b} : pc'[c] = pc[c]
  BY <1>1 DEF TypeInv, TypeOK, SessionOK, AwaitFloorTaken
<1>8. SessionOK'
  <2>1. <<>> \in Seq(Messages(FloorKinds))
    BY EmptySeq
  <2>2. event_buf' \in [Bots -> Seq(Messages(TrackKinds \cup {"leave"}))]
    BY <1>4 DEF TypeInv, TypeOK, SessionOK, AwaitFloorTaken
  <2>3. floor_mbcp_buf' \in [Bots -> Seq(Messages(FloorKinds))]
    BY <2>1 DEF TypeInv, TypeOK, SessionOK, AwaitFloorTaken
  <2> QED
    BY <1>5, <1>7, <2>2, <2>3 DEF TypeInv, TypeOK, SessionOK
<1>9. flag' \in [Bots -> [Flags -> BOOLEAN]]
  <2>1. flag \in [Bots -> [Flags -> BOOLEAN]] /\ "floor_idle" \in Flags
    BY DEF TypeInv, TypeOK, RecvOK, Flags
  <2>2. flag' = [flag EXCEPT ![b]["floor_idle"] = FALSE] \/ UNCHANGED flag
    BY DEF AwaitFloorTaken
  <2>3. flag' = [flag EXCEPT ![b]["floor_idle"] = FALSE] => flag' \in [Bots -> [Flags -> BOOLEAN]]
    BY <2>1, FlagType
  <2> QED
    BY <2>1, <2>2, <2>3
<1>10. RecvOK'
  BY <1>5, <1>9 DEF TypeInv, TypeOK, RecvOK
<1>11. ASSUME NEW c \in Bots PROVE TurnOK(c)' /\ VideoOK(c)' /\ AnswerOK(c)'
  <2>1. TurnOK(c) /\ VideoOK(c) /\ AnswerOK(c)
    BY DEF TypeInv
  <2>2. TurnOK(c)' /\ VideoOK(c)'
    BY <1>1, <1>5, <1>7, <2>1 DEF TurnOK, VideoOK
  <2>3. Sift(ws'[c], Answers) = Sift(ws[c], Answers)
    BY <1>2, <1>3
  <2>4. pc[c] = "ready" <=> pc'[c] = "ready"
    BY <1>1, <1>7
  <2>5. AnswerOK(c)'
    BY <1>5, <2>1, <2>3, <2>4 DEF AnswerOK, Answers, Messages
  <2> QED
    BY <2>2, <2>5
<1> QED
  BY <1>5, <1>6, <1>8, <1>10, <1>11 DEF TypeInv, TypeOK

LEMMA EventsTyped ==
  ASSUME TypeInv, UNCHANGED limits, NEW b \in Bots, NEW n, ProcessEvents(b, n)
  PROVE  TypeInv'
<1> DEFINE events  == EventsAfterPoll(b, n)
           applied == ApplyTracks(subscribe_ssrcs[b], Sift(events, Tracks))
<1>1. Poll(b, n) /\ pc[b] = "idle"
  BY DEF ProcessEvents, EngineFree
<1>2. /\ ws' \in [Bots -> Seq(AllMessages)] /\ \A c \in Bots \ {b} : ws'[c] = ws[c]
  BY <1>1, PollType
<1>3. Sift(ws[b], Answers) = <<>> /\ Sift(SubSeq(ws[b], 1, n), Answers) = <<>> /\ Sift(ws'[b], Answers) = <<>>
  BY <1>1, NoAnswer, PollNone
<1>4. events \in Seq(Messages(TrackKinds \cup {"leave"}))
  BY <1>1, <1>3, EventsAfterPollType
<1>5. Sift(events, Tracks) \in Seq(Tracks)
  <2>1. Messages(TrackKinds \cup {"leave"}) \cap Tracks = Tracks
    BY MessagesMeet, (TrackKinds \cup {"leave"}) \cap TrackKinds = TrackKinds DEF Tracks
  <2> QED
    BY <1>4, <2>1, SiftType
<1>6. Sift(events, Messages(EventKinds \ TrackKinds)) \in Seq(Messages(TrackKinds \cup {"leave"}))
  <2>1. Messages(TrackKinds \cup {"leave"}) \cap Messages(EventKinds \ TrackKinds)
          \subseteq Messages(TrackKinds \cup {"leave"})
    OBVIOUS
  <2>2. Sift(events, Messages(EventKinds \ TrackKinds))
          \in Seq(Messages(TrackKinds \cup {"leave"}) \cap Messages(EventKinds \ TrackKinds))
    BY <1>4, SiftType
  <2> QED
    BY <2>1, <2>2, SeqMonotonic
<1>7. applied.ssrcs \in SUBSET Bots
  BY <1>5, WireType, ApplyType DEF TypeInv, TypeOK, SessionOK
<1> HIDE DEF events, applied
<1>8. /\ event_buf' = [event_buf EXCEPT ![b] = Sift(events, Messages(EventKinds \ TrackKinds))]
      /\ subscribe_ssrcs' = [subscribe_ssrcs EXCEPT ![b] = applied.ssrcs]
      /\ \/ /\ up' = [up EXCEPT ![b] = Append(@, "READY")]
            /\ pc' = [pc EXCEPT ![b] = "ready"]
            /\ floor_mbcp_buf' = [floor_mbcp_buf EXCEPT ![b] = FloorAfterPoll(b, n)]
            /\ UNCHANGED batch
         \/ /\ batch' = [batch EXCEPT ![b] = FloorAfterPoll(b, n)]
            /\ floor_mbcp_buf' = [floor_mbcp_buf EXCEPT ![b] = <<>>]
            /\ pc' = [pc EXCEPT ![b] = "drain"]
            /\ UNCHANGED up
  BY DEF ProcessEvents, events, applied
<1>9. FloorAfterPoll(b, n) \in Seq(Messages(FloorKinds)) /\ <<>> \in Seq(Messages(FloorKinds))
  BY <1>1, FloorAfterPollType, EmptySeq
<1>10. SfuOK' /\ UNCHANGED <<rtp, stores, flag, rx, obs, requests>>
  <2>1. UNCHANGED <<sfu, announced, rtp, stores, flag, rx, obs, requests>>
    BY DEF ProcessEvents
  <2>2. SfuOK
    BY DEF TypeInv, TypeOK
  <2> QED
    BY <2>1, <2>2 DEF SfuOK, sfu
<1>11. /\ floor_mbcp_buf' \in [Bots -> Seq(Messages(FloorKinds))]
       /\ batch' \in [Bots -> Seq(Messages(FloorKinds))]
       /\ \A c \in Bots \ {b} : batch'[c] = batch[c]
       /\ pc' \in [Bots -> {"idle", "await", "ready", "drain"}]
       /\ \A c \in Bots \ {b} : pc'[c] = pc[c]
  <2>1. /\ floor_mbcp_buf \in [Bots -> Seq(Messages(FloorKinds))]
        /\ batch \in [Bots -> Seq(Messages(FloorKinds))]
        /\ pc \in [Bots -> {"idle", "await", "ready", "drain"}]
    BY DEF TypeInv, TypeOK, SessionOK
  <2>2. /\ floor_mbcp_buf' \in [Bots -> Seq(Messages(FloorKinds))]
        /\ batch' \in [Bots -> Seq(Messages(FloorKinds))]
        /\ \A c \in Bots \ {b} : batch'[c] = batch[c]
    BY <2>1, <1>8, <1>9
  <2>3. /\ pc' \in [Bots -> {"idle", "await", "ready", "drain"}]
        /\ \A c \in Bots \ {b} : pc'[c] = pc[c]
    BY <2>1, <1>8
  <2> QED
    BY <2>2, <2>3
<1>12. SessionOK'
  BY <1>6, <1>7, <1>8, <1>10, <1>11 DEF TypeInv, TypeOK, SessionOK
<1>13. /\ up' \in [Bots -> Seq({"FREQ", "FREL", "READY"})]
       /\ \A c \in Bots \ {b} : up'[c] = up[c]
       /\ pc'[b] = "drain" => UNCHANGED up
       /\ pc'[b] = "ready" => up'[b] = Append(up[b], "READY")
  <2>1. up \in [Bots -> Seq({"FREQ", "FREL", "READY"})] /\ pc \in [Bots -> {"idle", "await", "ready", "drain"}]
    BY DEF TypeInv, TypeOK, WiresOK, SessionOK
  <2>2. Append(up[b], "READY") \in Seq({"FREQ", "FREL", "READY"})
    BY <2>1, AppendProperties
  <2> QED
    BY <1>8, <2>1, <2>2
<1>14. WiresOK' /\ RecvOK'
  BY <1>2, <1>10, <1>13 DEF TypeInv, TypeOK, WiresOK, RecvOK, AllMessages, AllKinds
<1>15. ASSUME NEW c \in Bots PROVE TurnOK(c)' /\ VideoOK(c)' /\ AnswerOK(c)'
  <2>1. TurnOK(c) /\ VideoOK(c) /\ AnswerOK(c) /\ TurnOK(b) /\ AnswerOK(b)
    BY DEF TypeInv
  <2>2. TurnOK(c)'
    BY <1>1, <1>8, <1>10, <1>11, <2>1 DEF TurnOK, TypeInv, TypeOK, SessionOK
  <2>3. VideoOK(c)'
    BY <1>10, <2>1 DEF VideoOK
  <2>4. AnswerOK(c)'
    <3>1. CASE c # b
      BY <1>2, <1>11, <1>13, <2>1, <3>1 DEF AnswerOK, Answers, Messages
    <3>2. CASE c = b /\ pc'[b] = "drain"
      BY <1>1, <1>3, <1>13, <2>1, <3>2 DEF AnswerOK, Answers, Messages
    <3>3. CASE c = b /\ pc'[b] = "ready"
      <4> DEFINE u == up[b]
      <4>1. u \in Seq({"FREQ", "FREL", "READY"}) /\ Sift(u, Readies) = <<>> /\ "READY" \in Readies
        BY <1>1, WireType, NoAnswer DEF Readies
      <4>2. up'[b] = Append(u, "READY")
        BY <1>13, <3>3
      <4> HIDE DEF u
      <4>3. Len(Sift(Append(u, "READY"), Readies)) = Len(Sift(u, Readies)) + 1
        BY <4>1, CountOneMore
      <4>4. Len(Sift(up'[b], Readies)) = 1 /\ Len(Sift(ws'[b], Answers)) = 0
        BY <1>3, <4>1, <4>2, <4>3, EmptySeq
      <4>5. AnswerOK(b)'
        BY <3>3, <4>4 DEF AnswerOK, Answers, Messages
      <4> QED
        BY <3>3, <4>5
    <3>4. pc'[b] \in {"drain", "ready"}
      BY <1>8 DEF TypeInv, TypeOK, SessionOK
    <3> QED
      BY <3>1, <3>2, <3>3, <3>4
  <2> QED
    BY <2>2, <2>3, <2>4
<1> QED
  BY <1>10, <1>12, <1>14, <1>15 DEF TypeInv, TypeOK

LEMMA AnswerTaken ==
  ASSUME TypeInv, NEW b \in Bots, AwaitTracksReady(b), IsResponse(Head(ws[b]))
  PROVE  /\ Sift(ws'[b], Answers) = <<>> /\ Sift(up[b], Readies) = <<>>
         /\ SubSeq(ws[b], 1, 1) = <<Head(ws[b])>>
         /\ Head(ws[b]) \in Answers
<1> DEFINE w == ws[b]
           p == Sift(ws'[b], Answers)
           q == Sift(up[b], Readies)
<1>1. w \in Seq(AllMessages) /\ w # <<>> /\ ws'[b] = Tail(w) /\ SubSeq(w, 1, 1) = <<Head(w)>>
  <2>1. w \in Seq(AllMessages) /\ w # <<>>
    BY WireType DEF AwaitTracksReady
  <2>2. Tail(w) = SubSeq(w, 2, Len(w))
    BY <2>1, TailIsSubSeq
  <2>3. ws'[b] = SubSeq(w, 1 + 1, Len(w))
    BY PollType DEF AwaitTracksReady
  <2> HIDE DEF w
  <2>4. SubSeq(w, 1, 1) = <<Head(w)>>
    <3>1. 1 \in 1 .. Len(w)
      BY <2>1, EmptySeq
    <3>2. \A i \in 1 .. 1 : w[i] \in AllMessages
      BY <2>1, <3>1, ElementOfSeq
    <3>3. /\ SubSeq(w, 1, 1) \in Seq(AllMessages) /\ Len(SubSeq(w, 1, 1)) = 1
          /\ SubSeq(w, 1, 1)[1] = w[1]
      BY <3>2, SubSeqProperties
    <3>4. Head(w) = w[1] /\ w[1] \in AllMessages
      BY <2>1, <3>2
    <3>5. <<w[1]>> \in Seq(AllMessages) /\ Len(<<w[1]>>) = 1 /\ <<w[1]>>[1] = w[1]
      BY <3>4
    <3> HIDE DEF w
    <3>6. \A i \in 1 .. 1 : SubSeq(w, 1, 1)[i] = <<w[1]>>[i]
      BY <3>3, <3>5
    <3> QED
      BY <3>3, <3>4, <3>5, <3>6, SeqEqual
  <2> QED
    BY <2>1, <2>2, <2>3, <2>4
<1>2. Head(w) \in Answers
  <2>1. Head(w) \in AllMessages
    BY <1>1, HeadTailProperties
  <2>2. Head(w).kind \in AnswerKinds
    BY DEF IsResponse
  <2> HIDE DEF w
  <2> QED
    BY <2>1, <2>2 DEF AllMessages, Answers, Messages
<1>3. Sift(w, Answers) = <<Head(w)>> \o p
  BY <1>1, <1>2, SiftHead
<1>4. p \in Seq(AllMessages \cap Answers) /\ q \in Seq({"FREQ", "FREL", "READY"} \cap Readies)
  BY WireType, PollType, SiftType DEF AwaitTracksReady
<1>5. Len(Sift(w, Answers)) = Len(p) + 1
  <2>1. Head(w) \in AllMessages \cap Answers
    BY <1>2, PlainMessages
  <2> DEFINE M == AllMessages \cap Answers
             e == Head(w)
  <2>2. e \in M /\ p \in Seq(M)
    BY <1>4, <2>1
  <2> HIDE DEF M, e, p
  <2>3. Len(<<e>> \o p) = Len(p) + 1
    BY <2>2, Cons
  <2> QED
    BY <1>3, <2>3 DEF e
<1>6. Len(q) + Len(Sift(w, Answers)) \in {0, 1}
  BY DEF TypeInv, AnswerOK
<1>7. w = ws[b] /\ p = Sift(ws'[b], Answers) /\ q = Sift(up[b], Readies)
  OBVIOUS
<1> HIDE DEF w, p, q
<1>8. Len(p) \in Nat /\ Len(q) \in Nat
  BY <1>4, LenProperties
<1>9. Len(p) = 0 /\ Len(q) = 0
  BY <1>5, <1>6, <1>8
<1>10. p = <<>> /\ q = <<>>
  BY <1>4, <1>9, EmptySeq
<1> QED
  BY <1>1, <1>2, <1>7, <1>10

\* Taking a frame that is no answer.
LEMMA OtherTaken ==
  ASSUME TypeInv, NEW b \in Bots, AwaitTracksReady(b), ~IsResponse(Head(ws[b]))
  PROVE  /\ Sift(ws'[b], Answers) = Sift(ws[b], Answers)
         /\ Sift(SubSeq(ws[b], 1, 1), Answers) = <<>>
<1> DEFINE first == SubSeq(ws[b], 1, 1)
           p == Sift(ws'[b], Answers)
           q == Sift(first, Answers)
<1>1. ws[b] \in Seq(AllMessages) /\ ws[b] # <<>> /\ Poll(b, 1)
  BY WireType DEF AwaitTracksReady
<1>2. Head(ws[b]) \notin Answers
  BY DEF IsResponse, Answers, Messages
<1>3. 1 \in 1 .. Len(ws[b]) /\ \A i \in 1 .. 1 : ws[b][i] \in AllMessages \ Answers
  <2>1. 1 \in 1 .. Len(ws[b])
    BY <1>1, EmptySeq
  <2>2. ws[b][1] \in AllMessages /\ Head(ws[b]) = ws[b][1]
    BY <1>1, <2>1, ElementOfSeq
  <2> QED
    BY <1>2, <2>1, <2>2
<1>4. first \in Seq(AllMessages \ Answers)
  BY <1>3, SubSeqProperties
<1>5. q = <<>>
  <2> DEFINE N == AllMessages \ Answers
  <2>1. first \in Seq(N) /\ N \cap Answers = {}
    BY <1>4
  <2> HIDE DEF N, first
  <2> QED
    BY <2>1, SiftNone
<1>6. q \o p = Sift(ws[b], Answers)
  BY <1>1, PollSifts
<1>7. p \in Seq(AllMessages \cap Answers)
  BY <1>1, PollType, SiftType
<1> QED
  BY <1>5, <1>6, <1>7, ConcatEmptySeq

LEMMA AnsweredTyped ==
  ASSUME TypeInv, UNCHANGED limits, NEW b \in Bots, AwaitTracksReady(b)
  PROVE  TypeInv'
<1>1. Poll(b, 1) /\ pc[b] = "ready"
  BY DEF AwaitTracksReady
<1>2. /\ ws' \in [Bots -> Seq(AllMessages)] /\ \A c \in Bots \ {b} : ws'[c] = ws[c]
  BY <1>1, PollType
<1>3. SfuOK' /\ UNCHANGED <<up, rtp, stores, subscribe_ssrcs, rx, obs, requests>>
  BY DEF TypeInv, TypeOK, SfuOK, AwaitTracksReady, sfu
<1>4. WiresOK'
  BY <1>2, <1>3 DEF TypeInv, TypeOK, WiresOK, AllMessages, AllKinds
<1>5. flag' \in [Bots -> [Flags -> BOOLEAN]]
  <2>1. flag \in [Bots -> [Flags -> BOOLEAN]] /\ "ack_sent" \in Flags
    BY DEF TypeInv, TypeOK, RecvOK, Flags
  <2>2. flag' = [flag EXCEPT ![b]["ack_sent"] = TRUE] \/ UNCHANGED flag
    BY DEF AwaitTracksReady
  <2>3. flag' = [flag EXCEPT ![b]["ack_sent"] = TRUE] => flag' \in [Bots -> [Flags -> BOOLEAN]]
    BY <2>1, FlagType
  <2> QED
    BY <2>1, <2>2, <2>3
<1>6. RecvOK'
  BY <1>3, <1>5 DEF TypeInv, TypeOK, RecvOK
<1>7. FloorAfterPoll(b, 1) \in Seq(Messages(FloorKinds)) /\ <<>> \in Seq(Messages(FloorKinds))
  BY <1>1, FloorAfterPollType, EmptySeq
<1>8. CASE IsResponse(Head(ws[b]))
  <2>1. /\ batch' = [batch EXCEPT ![b] = floor_mbcp_buf[b]]
        /\ floor_mbcp_buf' = [floor_mbcp_buf EXCEPT ![b] = <<>>]
        /\ pc' = [pc EXCEPT ![b] = "drain"] /\ UNCHANGED event_buf
    BY <1>8 DEF AwaitTracksReady
  <2>2. SessionOK'
    BY <1>3, <1>7, <2>1 DEF TypeInv, TypeOK, SessionOK
  <2>3. ASSUME NEW c \in Bots PROVE TurnOK(c)' /\ VideoOK(c)' /\ AnswerOK(c)'
    <3>1. TurnOK(c) /\ VideoOK(c) /\ AnswerOK(c)
      BY DEF TypeInv
    <3>2. \A d \in Bots : /\ pc'[d] = IF d = b THEN "drain" ELSE pc[d]
                          /\ d # b => batch'[d] = batch[d]
      BY <2>1 DEF TypeInv, TypeOK, SessionOK
    <3>3. TurnOK(c)' /\ VideoOK(c)'
      BY <1>3, <3>1, <3>2 DEF TurnOK, VideoOK
    <3>4. CASE c # b
      BY <1>2, <1>3, <3>1, <3>2, <3>3, <3>4 DEF AnswerOK, Answers, Messages
    <3>5. CASE c = b
      <4>1. Sift(ws'[b], Answers) = <<>> /\ Sift(up'[b], Readies) = <<>> /\ Len(<<>>) = 0
        BY <1>3, <1>8, AnswerTaken, EmptySeq
      <4>2. AnswerOK(b)'
        BY <3>2, <4>1 DEF AnswerOK, Answers, Messages
      <4> QED
        BY <3>3, <3>5, <4>2
    <3> QED
      BY <3>4, <3>5
  <2> QED
    BY <1>3, <1>4, <1>6, <2>2, <2>3 DEF TypeInv, TypeOK
<1>9. CASE ~IsResponse(Head(ws[b]))
  <2>1. /\ floor_mbcp_buf' = [floor_mbcp_buf EXCEPT ![b] = FloorAfterPoll(b, 1)]
        /\ event_buf' = [event_buf EXCEPT ![b] = EventsAfterPoll(b, 1)]
        /\ UNCHANGED <<batch, pc>>
    BY <1>9 DEF AwaitTracksReady
  <2>2. EventsAfterPoll(b, 1) \in Seq(Messages(TrackKinds \cup {"leave"}))
    BY <1>1, <1>9, OtherTaken, EventsAfterPollType
  <2>3. SessionOK'
    BY <1>3, <1>7, <2>1, <2>2 DEF TypeInv, TypeOK, SessionOK
  <2>4. ASSUME NEW c \in Bots PROVE TurnOK(c)' /\ VideoOK(c)' /\ AnswerOK(c)'
    <3>1. TurnOK(c) /\ VideoOK(c) /\ AnswerOK(c)
      BY DEF TypeInv
    <3>2. TurnOK(c)' /\ VideoOK(c)'
      BY <1>3, <2>1, <3>1 DEF TurnOK, VideoOK
    <3>3. Sift(ws'[c], Answers) = Sift(ws[c], Answers)
      BY <1>2, <1>9, OtherTaken
    <3> QED
      BY <1>3, <2>1, <3>1, <3>2, <3>3 DEF AnswerOK, Answers, Messages
  <2> QED
    BY <1>3, <1>4, <1>6, <2>3, <2>4 DEF TypeInv, TypeOK
<1> QED
  BY <1>8, <1>9

\* A step that moves no wire and answers nothing.
LEMMA LocalStep ==
  ASSUME TypeInv, UNCHANGED <<limits, sfu, announced, up, ws, rtp>>, SessionOK', RecvOK',
         stores' \in [Bots -> Rests],
         \A b \in Bots : TurnOK(b)' /\ VideoOK(b)' /\ (pc[b] = "ready" <=> pc'[b] = "ready")
  PROVE  TypeInv'
<1>1. SfuOK' /\ WiresOK'
  BY DEF TypeInv, TypeOK, SfuOK, WiresOK, sfu
<1>2. ASSUME NEW b \in Bots PROVE AnswerOK(b)'
  <2>1. AnswerOK(b)
    BY DEF TypeInv
  <2> QED
    BY <2>1 DEF AnswerOK, Answers, Messages
<1> QED
  BY <1>1, <1>2 DEF TypeInv, TypeOK

LEMMA AskTyped ==
  ASSUME TypeInv, UNCHANGED limits, NEW b \in Bots, FloorRequest(b) \/ FloorRelease(b)
  PROVE  TypeInv'
<1>1. PICK kind \in {"FREQ", "FREL"} : up' = [up EXCEPT ![b] = Append(@, kind)]
  BY DEF FloorRequest, FloorRelease
<1> DEFINE u == up[b]
           N == {"FREQ", "FREL", "READY"}
<1>2. up \in [Bots -> Seq(N)] /\ u \in Seq(N) /\ kind \in N
  BY DEF TypeInv, TypeOK, WiresOK
<1>3. up'[b] = Append(u, kind) /\ \A c \in Bots \ {b} : up'[c] = up[c]
  BY <1>1, <1>2
<1>4. kind \notin Readies
  BY DEF Readies
<1> HIDE DEF u, N
<1>5. Append(u, kind) \in Seq(N) /\ Sift(Append(u, kind), Readies) = Sift(u, Readies)
  BY <1>2, <1>4, AppendProperties, SiftAppend
<1>6. up' \in [Bots -> Seq(N)]
  BY <1>1, <1>2, <1>5 DEF u
<1>7. \A c \in Bots : Sift(up'[c], Readies) = Sift(up[c], Readies)
  BY <1>3, <1>5 DEF u
<1>8. UNCHANGED <<sfu, announced, ws, rtp, session, batch, stores, subscribe_ssrcs, flag, rx, obs>>
  BY DEF FloorRequest, FloorRelease
<1>9. SfuOK' /\ WiresOK' /\ RecvOK'
  BY <1>6, <1>8 DEF TypeInv, TypeOK, SfuOK, WiresOK, RecvOK, sfu, N
<1>10. pc' \in [Bots -> {"idle", "await", "ready", "drain"}]
  BY DEF TypeInv, TypeOK, SessionOK, FloorRequest, FloorRelease
<1>13. requests' \in 0 .. limits'.requests
  <2>1. limits.requests \in Nat /\ requests \in 0 .. limits.requests
    BY PttFloorAssumption DEF TypeInv, TypeOK, SessionOK
  <2>2. requests' = requests \/ (requests < limits.requests /\ requests' = requests + 1)
    BY DEF FloorRequest, FloorRelease
  <2> QED
    BY <2>1, <2>2
<1>11. SessionOK'
  BY <1>8, <1>10, <1>13 DEF TypeInv, TypeOK, SessionOK, session
<1>12. ASSUME NEW c \in Bots PROVE TurnOK(c)' /\ VideoOK(c)' /\ AnswerOK(c)'
  <2>1. TurnOK(c) /\ VideoOK(c) /\ AnswerOK(c)
    BY DEF TypeInv
  <2>2. pc'[c] = pc[c] \/ (c = b /\ b \in Requesters /\ pc[b] = "idle" /\ pc'[b] = "await")
    BY DEF FloorRequest, FloorRelease, EngineFree, TypeInv, TypeOK, SessionOK
  <2>3. TurnOK(c)' /\ VideoOK(c)'
    BY <1>8, <2>1, <2>2 DEF TurnOK, VideoOK
  <2>4. AnswerOK(c)'
    BY <1>7, <1>8, <2>1, <2>2 DEF AnswerOK, Answers, Messages
  <2> QED
    BY <2>3, <2>4
<1> QED
  BY <1>8, <1>9, <1>11, <1>12 DEF TypeInv, TypeOK

LEMMA TimeoutTyped ==
  ASSUME TypeInv, UNCHANGED limits, NEW b \in Bots, AwaitTimeout(b)
  PROVE  TypeInv'
<1>1. UNCHANGED <<sfu, announced, up, ws, rtp, session, batch, stores, subscribe_ssrcs, flag, rx,
                  obs, requests>>
  BY DEF AwaitTimeout
<1>2. /\ pc' \in [Bots -> {"idle", "await", "ready", "drain"}]
      /\ \A c \in Bots : pc'[c] = pc[c] \/ (pc[c] = "await" /\ pc'[c] = "idle")
  BY DEF TypeInv, TypeOK, SessionOK, AwaitTimeout
<1>3. SessionOK' /\ RecvOK'
  BY <1>1, <1>2 DEF TypeInv, TypeOK, SessionOK, RecvOK, session
<1>4. ASSUME NEW c \in Bots PROVE TurnOK(c)' /\ VideoOK(c)' /\ (pc[c] = "ready" <=> pc'[c] = "ready")
  BY <1>1, <1>2 DEF TypeInv, TurnOK, VideoOK
<1> QED
  BY <1>1, <1>3, <1>4, LocalStep DEF TypeInv

\* The stores of a floor message, one after the other: the first is to the
\* idle flag, the others are not.
LEMMA StoresTuples ==
  /\ Head(FtknStores) = Store("floor_idle", FALSE) /\ Tail(FtknStores) = FtknRest
  /\ Head(FidlStores) = Store("floor_idle", TRUE) /\ Tail(FidlStores) = FidlRest
  /\ Head(FtknRest) = Store("speaker_just_changed", TRUE) /\ Tail(FtknRest) = FtknLast
  /\ Head(FtknLast) = Store("floor_just_released", FALSE) /\ Tail(FtknLast) = <<>>
  /\ Head(FidlRest) = Store("floor_just_released", TRUE) /\ Tail(FidlRest) = <<>>
  /\ FtknStores # <<>> /\ FidlStores # <<>>
  /\ FtknRest # <<>> /\ FtknLast # <<>> /\ FidlRest # <<>>
  /\ FtknRest # FidlRest /\ FtknLast # FidlRest /\ FtknRest # FtknLast
<1>1. Len(FtknRest) = 2 /\ Len(FtknLast) = 1 /\ Len(FidlRest) = 1 /\ FtknLast[1] # FidlRest[1]
  BY DEF FtknRest, FtknLast, FidlRest, Store
<1>2. FtknRest # FidlRest /\ FtknLast # FidlRest /\ FtknRest # FtknLast
  BY <1>1
<1>3. ASSUME NEW x, NEW y, NEW z
      PROVE  /\ Head(<<x, y, z>>) = x /\ Tail(<<x, y, z>>) = <<y, z>> /\ <<x, y, z>> # <<>>
             /\ Head(<<x, y>>) = x /\ Tail(<<x, y>>) = <<y>> /\ <<x, y>> # <<>>
             /\ Head(<<x>>) = x /\ Tail(<<x>>) = <<>> /\ <<x>> # <<>>
  OBVIOUS
<1>4. Head(FtknStores) = Store("floor_idle", FALSE) /\ Tail(FtknStores) = FtknRest /\ FtknStores # <<>>
  <2> DEFINE i == Store("floor_idle", FALSE)
             s == Store("speaker_just_changed", TRUE)
             r == Store("floor_just_released", FALSE)
  <2>1. FtknStores = <<i, s, r>> /\ FtknRest = <<s, r>>
    BY DEF FtknStores, FtknRest
  <2> HIDE DEF i, s, r
  <2>2. Head(<<i, s, r>>) = i /\ Tail(<<i, s, r>>) = <<s, r>> /\ <<i, s, r>> # <<>>
    OBVIOUS
  <2> QED
    BY <2>1, <2>2, Zenon DEF i
<1>5. Head(FidlStores) = Store("floor_idle", TRUE) /\ Tail(FidlStores) = FidlRest /\ FidlStores # <<>>
  BY <1>3, Zenon DEF FidlStores, FidlRest
<1>6. Head(FtknRest) = Store("speaker_just_changed", TRUE) /\ Tail(FtknRest) = FtknLast /\ FtknRest # <<>>
  BY <1>3, Zenon DEF FtknRest, FtknLast
<1>7. Head(FtknLast) = Store("floor_just_released", FALSE) /\ Tail(FtknLast) = <<>> /\ FtknLast # <<>>
  BY <1>3, Zenon DEF FtknLast
<1>8. Head(FidlRest) = Store("floor_just_released", TRUE) /\ Tail(FidlRest) = <<>> /\ FidlRest # <<>>
  BY <1>3, Zenon DEF FidlRest
<1> QED
  BY <1>2, <1>4, <1>5, <1>6, <1>7, <1>8

LEMMA StoresOfKinds ==
  ASSUME NEW kind
  PROVE  \/ kind = "FTKN" /\ StoresOf(kind) = FtknStores
         \/ kind = "FIDL" /\ StoresOf(kind) = FidlStores
         \/ kind \notin {"FTKN", "FIDL"} /\ StoresOf(kind) = <<>>
BY DEF StoresOf

\* One store: which flag, which value, and what is left.
LEMMA OneStore ==
  ASSUME NEW b \in Bots, TypeInv, ProcessFloor(b) \/ FinishStores(b)
  PROVE  \/ UNCHANGED <<stores, flag>>
         \/ \E name \in FloorFlags, value \in BOOLEAN, rest \in Rests :
              /\ flag' = [flag EXCEPT ![b][name] = value]
              /\ stores' = [stores EXCEPT ![b] = rest]
<1>1. ASSUME NEW todo, todo \in {FtknStores, FidlStores, FtknRest, FtknLast, FidlRest},
             Apply(b, Head(todo)), stores' = [stores EXCEPT ![b] = Tail(todo)]
      PROVE  \E name \in FloorFlags, value \in BOOLEAN, rest \in Rests :
              /\ flag' = [flag EXCEPT ![b][name] = value]
              /\ stores' = [stores EXCEPT ![b] = rest]
  <2>1. Tail(todo) \in Rests
    BY <1>1, StoresTuples DEF Rests
  <2>2. Head(todo) \in {Store("floor_idle", FALSE), Store("floor_idle", TRUE),
                        Store("speaker_just_changed", TRUE),
                        Store("floor_just_released", FALSE), Store("floor_just_released", TRUE)}
    BY <1>1, StoresTuples
  <2>3. PICK name \in FloorFlags, value \in BOOLEAN : Head(todo) = Store(name, value)
    BY <2>2 DEF FloorFlags
  <2>4. Head(todo).name = name /\ Head(todo).value = value
    BY <2>3 DEF Store
  <2> QED
    BY <1>1, <2>1, <2>4 DEF Apply
<1>2. CASE ProcessFloor(b)
  <2> DEFINE todo == StoresOf(Head(batch[b]).kind)
  <2>1. \/ todo # <<>> /\ Apply(b, Head(todo)) /\ stores' = [stores EXCEPT ![b] = Tail(todo)]
        \/ UNCHANGED <<flag, stores>>
    BY <1>2 DEF ProcessFloor
  <2>2. todo \in {FtknStores, FidlStores, <<>>}
    BY StoresOfKinds
  <2> HIDE DEF todo
  <2> QED
    BY <1>1, <2>1, <2>2
<1>3. CASE FinishStores(b)
  <2>1. stores[b] \in Rests /\ stores[b] # <<>>
    BY <1>3 DEF FinishStores, TypeInv
  <2> QED
    BY <1>1, <1>3, <2>1 DEF FinishStores, Rests
<1> QED
  BY <1>2, <1>3

LEMMA StoreTyped ==
  ASSUME TypeInv, UNCHANGED limits, NEW b \in Bots, ProcessFloor(b) \/ FinishStores(b)
  PROVE  TypeInv'
<1>1. UNCHANGED <<sfu, announced, up, ws, rtp, session, pc, subscribe_ssrcs, rx, requests>>
  BY DEF ProcessFloor, FinishStores
<1>2. pc[b] = "drain"
  BY DEF ProcessFloor, FinishStores, TypeInv, TurnOK
<1>3. stores \in [Bots -> Rests] /\ flag \in [Bots -> [Flags -> BOOLEAN]]
  BY DEF TypeInv, TypeOK, RecvOK
<1>4. stores' \in [Bots -> Rests] /\ flag' \in [Bots -> [Flags -> BOOLEAN]]
      /\ \A c \in Bots \ {b} : stores'[c] = stores[c]
  <2>1. CASE UNCHANGED <<stores, flag>>
    BY <1>3, <2>1
  <2>2. ASSUME NEW name \in FloorFlags, NEW value \in BOOLEAN, NEW rest \in Rests,
               flag' = [flag EXCEPT ![b][name] = value], stores' = [stores EXCEPT ![b] = rest]
        PROVE  stores' \in [Bots -> Rests] /\ flag' \in [Bots -> [Flags -> BOOLEAN]]
               /\ \A c \in Bots \ {b} : stores'[c] = stores[c]
    <3>1. name \in Flags
      BY DEF FloorFlags, Flags
    <3> QED
      BY <1>3, <2>2, <3>1, FlagType
  <2> QED
    BY <2>1, <2>2, OneStore
<1>5. batch' \in [Bots -> Seq(Messages(FloorKinds))] /\ \A c \in Bots \ {b} : batch'[c] = batch[c]
  <2>1. batch[b] # <<>> => Tail(batch[b]) \in Seq(Messages(FloorKinds))
    BY WireType, HeadTailProperties
  <2> QED
    BY <2>1 DEF TypeInv, TypeOK, SessionOK, ProcessFloor, FinishStores
<1>6. SessionOK'
  BY <1>1, <1>5 DEF TypeInv, TypeOK, SessionOK, session
<1>7. obs' \in [Bots -> Observations]
  <2>1. obs \in [Bots -> Observations]
    BY DEF TypeInv, TypeOK, RecvOK
  <2>2. UNCHANGED obs \/ \E v \in BOOLEAN : obs' = [obs EXCEPT ![b].floor_revoke = v]
    <3>1. obs[b].floor_revoke \in BOOLEAN
      BY <2>1 DEF Observations
    <3> QED
      BY <3>1 DEF ProcessFloor, FinishStores
  <2>3. ASSUME NEW v \in BOOLEAN PROVE [obs[b] EXCEPT !.floor_revoke = v] \in Observations
    BY <2>1 DEF Observations
  <2> QED
    BY <2>1, <2>2, <2>3
<1>8. RecvOK'
  BY <1>1, <1>4, <1>7 DEF TypeInv, TypeOK, RecvOK
<1>9. ASSUME NEW c \in Bots PROVE TurnOK(c)' /\ VideoOK(c)' /\ (pc[c] = "ready" <=> pc'[c] = "ready")
  BY <1>1, <1>2, <1>4, <1>5 DEF TypeInv, TurnOK, VideoOK
<1> QED
  BY <1>1, <1>4, <1>6, <1>8, <1>9, LocalStep

LEMMA RoomTyped ==
  ASSUME TypeInv, UNCHANGED limits, NEW b \in Bots, ProcessRoomEvents(b)
  PROVE  TypeInv'
<1>1. /\ UNCHANGED <<sfu, announced, up, ws, rtp, floor_mbcp_buf, batch, stores, subscribe_ssrcs,
                     flag, rx, requests>>
      /\ pc[b] = "drain" /\ pc' = [pc EXCEPT ![b] = "idle"]
      /\ batch[b] = <<>> /\ stores[b] = <<>>
  BY DEF ProcessRoomEvents
<1>2. \A c \in Bots : pc'[c] = IF c = b THEN "idle" ELSE pc[c]
  BY <1>1 DEF TypeInv, TypeOK, SessionOK
<1>3. Sift(event_buf[b], Messages(EventKinds \ {"leave"})) \in Seq(Messages(TrackKinds \cup {"leave"}))
  <2> DEFINE M == Messages(TrackKinds \cup {"leave"})
             N == M \cap Messages(EventKinds \ {"leave"})
             q == Sift(event_buf[b], Messages(EventKinds \ {"leave"}))
  <2>1. q \in Seq(N)
    BY WireType, SiftType
  <2>2. N \subseteq M
    OBVIOUS
  <2>3. q \in Seq(M)
    <3> HIDE DEF N, M, q
    <3> QED
      BY <2>1, <2>2, SeqMonotonic
  <2> QED
    BY <2>3
<1>4. SessionOK'
  <2>1. event_buf' \in [Bots -> Seq(Messages(TrackKinds \cup {"leave"}))]
    BY <1>3 DEF TypeInv, TypeOK, SessionOK, ProcessRoomEvents
  <2> QED
    BY <1>1, <2>1 DEF TypeInv, TypeOK, SessionOK
<1>5. obs' \in [Bots -> Observations]
  <2>1. obs \in [Bots -> Observations]
    BY DEF TypeInv, TypeOK, RecvOK
  <2>2. \E v \in SUBSET Bots : obs' = [obs EXCEPT ![b].zombies = v]
    <3>1. obs[b].zombies \in SUBSET Bots
      BY <2>1 DEF Observations
    <3> QED
      BY <3>1 DEF ProcessRoomEvents
  <2>3. ASSUME NEW v \in SUBSET Bots PROVE [obs[b] EXCEPT !.zombies = v] \in Observations
    BY <2>1 DEF Observations
  <2> QED
    BY <2>1, <2>2, <2>3
<1>6. RecvOK'
  BY <1>1, <1>5 DEF TypeInv, TypeOK, RecvOK
<1>7. ASSUME NEW c \in Bots PROVE TurnOK(c)' /\ VideoOK(c)' /\ (pc[c] = "ready" <=> pc'[c] = "ready")
  BY <1>1, <1>2 DEF TypeInv, TurnOK, VideoOK
<1> QED
  BY <1>1, <1>4, <1>6, <1>7, LocalStep DEF TypeInv

\* The recv task: one packet, one flag after the other.
LEMMA RecvTyped ==
  ASSUME TypeInv, UNCHANGED limits, NEW b \in Bots, RecvStep(b)
  PROVE  TypeInv'
<1>1. UNCHANGED <<sfu, announced, up, ws, pc, session, batch, stores, subscribe_ssrcs, requests>>
  BY DEF RecvStep, RecvRtp, RecvReleased, RecvChanged, RecvAck, RecvUnchanged
<1>2. /\ obs \in [Bots -> Observations] /\ flag \in [Bots -> [Flags -> BOOLEAN]]
      /\ rx \in [Bots -> [packet : Packets \cup {"none"},
                          next : {"none", "released", "changed", "ack"}]]
  BY DEF TypeInv, TypeOK, RecvOK
<1> DEFINE r == rx[b]
<1>3. r = [packet |-> r.packet, next |-> r.next] /\ r.packet \in Packets \cup {"none"}
  BY <1>2
<1>4. rtp' \in [Bots -> Seq(Packets)]
  <2>1. rtp[b] # <<>> => Tail(rtp[b]) \in Seq(Packets)
    BY WireType, HeadTailProperties
  <2> QED
    BY <2>1 DEF TypeInv, TypeOK, WiresOK, RecvStep, RecvRtp, RecvReleased, RecvChanged, RecvAck
<1>5. flag' \in [Bots -> [Flags -> BOOLEAN]]
  <2>1. "speaker_just_changed" \in Flags
    BY DEF Flags
  <2>2. UNCHANGED flag \/ flag' = [flag EXCEPT ![b]["speaker_just_changed"] = FALSE]
    BY DEF RecvStep, RecvRtp, RecvReleased, RecvChanged, RecvAck
  <2>3. flag' = [flag EXCEPT ![b]["speaker_just_changed"] = FALSE]
          => flag' \in [Bots -> [Flags -> BOOLEAN]]
    BY <2>1, FlagType
  <2> QED
    BY <1>2, <2>2, <2>3
<1>6. /\ \A c \in Bots \ {b} : rx'[c] = rx[c]
      /\ rx' \in [Bots -> [packet : Packets \cup {"none"},
                           next : {"none", "released", "changed", "ack"}]]
      /\ rx'[b].next \in {"changed", "ack"} => rx'[b].packet \in {"keyframe", "delta"}
  <2>1. CASE RecvRtp(b)
    <3>1. rx' = [rx EXCEPT ![b] = [packet |-> Head(rtp[b]), next |-> "released"]]
      BY <2>1 DEF RecvRtp
    <3>2. Head(rtp[b]) \in Packets
      BY <2>1, WireType, HeadTailProperties DEF RecvRtp
    <3> QED
      BY <1>2, <3>1, <3>2
  <2>2. CASE rx' = [rx EXCEPT ![b] = NoPacket]
    BY <1>2, <2>2 DEF NoPacket
  <2>3. ASSUME NEW next \in {"changed", "ack"}, rx' = [rx EXCEPT ![b].next = next],
               r.packet \in {"keyframe", "delta"}
        PROVE  /\ \A c \in Bots \ {b} : rx'[c] = rx[c]
               /\ rx' \in [Bots -> [packet : Packets \cup {"none"},
                                    next : {"none", "released", "changed", "ack"}]]
               /\ rx'[b].next \in {"changed", "ack"} => rx'[b].packet \in {"keyframe", "delta"}
    <3>1. rx'[b] = [packet |-> r.packet, next |-> next] /\ \A c \in Bots \ {b} : rx'[c] = rx[c]
      BY <1>2, <1>3, <2>3
    <3> HIDE DEF r
    <3>2. rx'[b] \in [packet : Packets \cup {"none"}, next : {"none", "released", "changed", "ack"}]
      BY <1>3, <3>1
    <3>3. rx' = [rx EXCEPT ![b] = rx'[b]]
      BY <1>2, <2>3
    <3> QED
      BY <1>2, <2>3, <3>1, <3>2, <3>3
  <2>4. CASE RecvReleased(b)
    BY <2>2, <2>3, <2>4 DEF RecvReleased, Goto, Done, IsVideo
  <2>5. CASE RecvChanged(b)
    <3>1. r.packet \in {"keyframe", "delta"}
      BY <2>5 DEF RecvChanged, At, TypeInv, VideoOK
    <3> QED
      BY <2>3, <2>5, <3>1 DEF RecvChanged, Goto
  <2>6. CASE RecvAck(b)
    BY <2>2, <2>6 DEF RecvAck, Done
  <2> QED
    BY <2>1, <2>4, <2>5, <2>6 DEF RecvStep
<1>7. obs' \in [Bots -> Observations]
  <2> DEFINE o == obs[b]
  <2>1. /\ flag[b].floor_idle \in BOOLEAN /\ flag[b].floor_just_released \in BOOLEAN
        /\ flag[b].ack_sent \in BOOLEAN
    BY <1>2 DEF Flags
  <2>2. /\ \A v \in BOOLEAN : [o EXCEPT !.non_speaker_rtp = v] \in Observations
        /\ \A v \in Nat : [o EXCEPT !.silence = v] \in Observations
        /\ \A v \in BOOLEAN : [o EXCEPT !.video_before_ack = v] \in Observations
        /\ \A v \in {"none", "keyframe", "delta"} : [o EXCEPT !.first_video = v] \in Observations
    <3>1. o \in Observations
      BY <1>2
    <3> HIDE DEF o, r
    <3>2. ASSUME NEW v \in BOOLEAN PROVE [o EXCEPT !.non_speaker_rtp = v] \in Observations
      BY <3>1 DEF Observations
    <3>3. ASSUME NEW v \in Nat PROVE [o EXCEPT !.silence = v] \in Observations
      BY <3>1 DEF Observations
    <3>4. ASSUME NEW v \in BOOLEAN PROVE [o EXCEPT !.video_before_ack = v] \in Observations
      BY <3>1 DEF Observations
    <3>5. ASSUME NEW v \in {"none", "keyframe", "delta"}
          PROVE  [o EXCEPT !.first_video = v] \in Observations
      BY <3>1 DEF Observations
    <3> QED
      BY <3>2, <3>3, <3>4, <3>5
  <2>4. CASE RecvRtp(b)
    <3>1. PICK v \in BOOLEAN : obs' = [obs EXCEPT ![b].non_speaker_rtp = v]
      BY <1>2, <2>1, <2>4 DEF RecvRtp, Observations
    <3> QED
      BY <1>2, <2>2, <3>1
  <2>5. CASE RecvReleased(b)
    <3>1. o.silence \in Nat /\ o.silence + 1 \in Nat
      BY <1>2 DEF Observations
    <3>2. PICK v \in Nat : obs' = [obs EXCEPT ![b].silence = v]
      BY <2>5, <3>1 DEF RecvReleased
    <3> QED
      BY <1>2, <2>2, <3>2
  <2>6. CASE RecvChanged(b)
    <3>1. r.packet \in {"keyframe", "delta"}
      BY <2>6 DEF RecvChanged, At, TypeInv, VideoOK
    <3>2. PICK v \in {"none", "keyframe", "delta"} : obs' = [obs EXCEPT ![b].first_video = v]
      BY <1>2, <2>6, <3>1 DEF RecvChanged, Observations
    <3> QED
      BY <1>2, <2>2, <3>2
  <2>7. CASE RecvAck(b)
    <3>1. PICK v \in BOOLEAN : obs' = [obs EXCEPT ![b].video_before_ack = v]
      BY <1>2, <2>1, <2>7 DEF RecvAck, Observations
    <3> QED
      BY <1>2, <2>2, <3>1
  <2> QED
    BY <2>4, <2>5, <2>6, <2>7 DEF RecvStep
<1> HIDE DEF r
<1>8. SfuOK' /\ WiresOK' /\ SessionOK' /\ RecvOK'
  BY <1>1, <1>4, <1>5, <1>6, <1>7
     DEF TypeInv, TypeOK, SfuOK, WiresOK, SessionOK, RecvOK, sfu, session
<1>9. ASSUME NEW c \in Bots PROVE TurnOK(c)' /\ VideoOK(c)' /\ AnswerOK(c)'
  <2>1. TurnOK(c) /\ VideoOK(c) /\ AnswerOK(c)
    BY DEF TypeInv
  <2>2. TurnOK(c)' /\ AnswerOK(c)'
    BY <1>1, <2>1 DEF TurnOK, AnswerOK, Answers, Messages
  <2>3. VideoOK(c)'
    BY <1>6, <2>1 DEF VideoOK
  <2> QED
    BY <2>2, <2>3
<1> QED
  BY <1>1, <1>8, <1>9 DEF TypeInv, TypeOK

LEMMA TypeStep ==
  ASSUME TypeInv, [Next /\ UNCHANGED limits]_<<vars, limits>>
  PROVE  TypeInv'
<1>1. CASE UNCHANGED <<vars, limits>>
  <2>1. UNCHANGED <<limits, sfu, announced, up, ws, rtp, pc, session, batch, stores,
                    subscribe_ssrcs, flag, rx, obs, requests>>
    BY <1>1 DEF vars
  <2>2. SessionOK' /\ RecvOK' /\ stores' \in [Bots -> Rests]
    BY <2>1 DEF TypeInv, TypeOK, SessionOK, RecvOK, session
  <2>3. \A b \in Bots : TurnOK(b)' /\ VideoOK(b)' /\ (pc[b] = "ready" <=> pc'[b] = "ready")
    BY <2>1 DEF TypeInv, TurnOK, VideoOK
  <2> QED
    BY <2>1, <2>2, <2>3, LocalStep
<1>2. CASE Next /\ UNCHANGED limits
  <2>1. CASE SfuFloorRevoke
    BY <1>2, <2>1, RevokeTyped
  <2>2. ASSUME NEW b \in Bots,
               \/ Publish(b) \/ SfuFloorRequest(b) \/ SfuFloorRelease(b)
               \/ SfuTracksReady(b) \/ SfuRelay(b) \/ KillBot(b)
        PROVE  TypeInv'
    BY <1>2, <2>2, PublishTyped, RequestTyped, ReleaseTyped, ReadyTyped, RelayTyped, KillTyped
  <2>3. ASSUME NEW b \in Bots,
               \/ FloorRequest(b) \/ AwaitTimeout(b) \/ FloorRelease(b)
               \/ \E n \in 0 .. Len(ws[b]) : AwaitFloorTaken(b, n) \/ ProcessEvents(b, n)
               \/ AwaitTracksReady(b)
        PROVE  TypeInv'
    BY <1>2, <2>3, AskTyped, TimeoutTyped, AwaitTyped, EventsTyped, AnsweredTyped
  <2>4. ASSUME NEW b \in Bots,
               \/ ProcessFloor(b) \/ FinishStores(b) \/ ProcessRoomEvents(b)
               \/ RecvStep(b)
        PROVE  TypeInv'
    BY <1>2, <2>4, StoreTyped, RoomTyped, RecvTyped
  <2> QED
    BY <1>2, <2>1, <2>2, <2>3, <2>4 DEF Next
<1> QED
  BY <1>1, <1>2

(***************************************************************************)
(* Every message is on the wire, in the buffer or in the batch where the   *)
(* code may meet it: floor messages and events are never mixed, and no     *)
(* answer is left among the events (poll_events, await_floor_taken,        *)
(* tracks_ready).                                                          *)
(***************************************************************************)
THEOREM PttTyped == Spec => []TypeOK
<1>1. TypeInv => TypeOK
  BY DEF TypeInv
<1>2. TypeInv /\ [Next /\ UNCHANGED limits]_<<vars, limits>> => TypeInv'
  BY TypeStep
<1> QED
  BY <1>1, <1>2, TypeInit, PTL DEF Spec

-----------------------------------------------------------------------------
(***************************************************************************)
(* Subscriptions: what a bot holds, with the track updates on their way to *)
(* it applied, is what is there.                                           *)
(***************************************************************************)

Updating(b) == Sift(event_buf[b] \o ws[b], Tracks)
There(b) == (published \cap Present) \ {b}
SubInv == \A b \in Present : ApplyTracks(subscribe_ssrcs[b], Updating(b)).ssrcs = There(b)

Before == Messages(TrackKinds \cup {"leave"})

LEMMA TracksOf ==
  ASSUME NEW e \in Seq(Before), NEW w \in Seq(AllMessages)
  PROVE  /\ Sift(e \o w, Tracks) = Sift(e, Tracks) \o Sift(w, Tracks)
         /\ Sift(e, Tracks) \in Seq(Tracks) /\ Sift(w, Tracks) \in Seq(Tracks)
<1>1. Before \subseteq AllMessages /\ AllMessages \cap Tracks = Tracks
  <2>1. TrackKinds \cup {"leave"} \subseteq AllKinds /\ AllKinds \cap TrackKinds = TrackKinds
    BY DEF AllKinds, EventKinds
  <2> QED
    BY <2>1, MessagesMeet DEF AllMessages, Tracks, Before
<1>2. e \in Seq(AllMessages)
  BY <1>1, SeqMonotonic
<1>3. Sift(e \o w, Tracks) = Sift(e, Tracks) \o Sift(w, Tracks)
  BY <1>2, SiftConcat
<1> QED
  BY <1>1, <1>2, <1>3, SiftType

LEMMA UpdatingParts ==
  ASSUME TypeInv, NEW b \in Bots
  PROVE  /\ Updating(b) = Sift(event_buf[b], Tracks) \o Sift(ws[b], Tracks)
         /\ Sift(event_buf[b], Tracks) \in Seq(Tracks) /\ Sift(ws[b], Tracks) \in Seq(Tracks)
<1>1. event_buf[b] \in Seq(Before) /\ ws[b] \in Seq(AllMessages)
  BY WireType DEF Before
<1> QED
  BY <1>1, TracksOf DEF Updating

LEMMA UpdatingPartsNext ==
  ASSUME TypeInv', NEW b \in Bots
  PROVE  Updating(b)' = Sift(event_buf'[b], Tracks) \o Sift(ws'[b], Tracks)
<1>1. event_buf'[b] \in Seq(Before) /\ ws'[b] \in Seq(AllMessages)
  BY DEF TypeInv, TypeOK, WiresOK, SessionOK, AllMessages, AllKinds, Before, Messages, TrackKinds,
         FloorKinds, EventKinds, AnswerKinds
<1>2. Tracks' = Tracks
  BY DEF Tracks, Messages, TrackKinds
<1> QED
  BY <1>1, <1>2, TracksOf DEF Updating

\* A step after which a bot is owed the updates it was owed before.
LEMMA SubSame ==
  ASSUME SubInv, UNCHANGED <<published, left, subscribe_ssrcs>>,
         \A b \in Bots : Updating(b)' = Updating(b)
  PROVE  SubInv'
<1>1. Present' = Present /\ \A b \in Bots : There(b)' = There(b)
  BY DEF Present, There
<1> QED
  BY <1>1 DEF SubInv, Present

LEMMA UpdatingSame ==
  ASSUME TypeInv, TypeInv', NEW b \in Bots,
         Sift(event_buf'[b], Tracks) = Sift(event_buf[b], Tracks),
         Sift(ws'[b], Tracks) = Sift(ws[b], Tracks)
  PROVE  Updating(b)' = Updating(b)
<1>1. Updating(b) = Sift(event_buf[b], Tracks) \o Sift(ws[b], Tracks)
  BY UpdatingParts
<1>2. Updating(b)' = Sift(event_buf'[b], Tracks) \o Sift(ws'[b], Tracks)
  BY UpdatingPartsNext
<1> QED
  BY <1>1, <1>2

LEMMA SubSent ==
  ASSUME TypeInv, TypeInv', SubInv,
         UNCHANGED <<published, left, subscribe_ssrcs, session>>,
         \A b \in Bots : \E more \in Seq(AllMessages) :
                           ws'[b] = ws[b] \o more /\ Sift(more, Tracks) = <<>>
  PROVE  SubInv'
<1>1. ASSUME NEW b \in Bots PROVE Updating(b)' = Updating(b)
  <2>1. PICK more \in Seq(AllMessages) : ws'[b] = ws[b] \o more /\ Sift(more, Tracks) = <<>>
    OBVIOUS
  <2>2. Sift(ws'[b], Tracks) = Sift(ws[b], Tracks) \o <<>>
    BY <2>1, WireGrows
  <2>3. Sift(ws'[b], Tracks) = Sift(ws[b], Tracks)
    BY <2>2, UpdatingParts, ConcatEmptySeq
  <2> QED
    BY <2>3, UpdatingSame DEF session
<1> QED
  BY <1>1, SubSame

\* Floor announcements and answers are no track updates.
LEMMA NoTracks ==
  ASSUME NEW kinds, kinds \subseteq AllKinds, kinds \cap TrackKinds = {},
         NEW more \in Seq(Messages(kinds))
  PROVE  more \in Seq(AllMessages) /\ Sift(more, Tracks) = <<>>
<1> DEFINE M == Messages(kinds)
<1>1. M \subseteq AllMessages
  BY MessagesMeet DEF AllMessages
<1>2. M \cap Tracks = {}
  <2>1. M \cap Tracks = Messages({})
    BY MessagesMeet DEF Tracks
  <2> QED
    BY <2>1 DEF Messages
<1>3. more \in Seq(M)
  OBVIOUS
<1> HIDE DEF M
<1> QED
  BY <1>1, <1>2, <1>3, SeqMonotonic, SiftNone

LEMMA FloorFrames ==
  /\ FloorKinds \subseteq AllKinds /\ FloorKinds \cap TrackKinds = {}
  /\ AnswerKinds \subseteq AllKinds /\ AnswerKinds \cap TrackKinds = {}
  /\ {"leave"} \subseteq AllKinds /\ {"leave"} \cap TrackKinds = {}
  /\ FloorKinds \cap AnswerKinds = {}
BY DEF AllKinds, EventKinds, FloorKinds, TrackKinds, AnswerKinds

LEMMA FloorSub ==
  ASSUME TypeInv, TypeInv', SubInv, NEW b \in Bots,
         \/ SfuFloorRequest(b) \/ SfuFloorRelease(b) \/ SfuFloorRevoke \/ SfuTracksReady(b)
  PROVE  SubInv'
<1>1. UNCHANGED <<published, left, subscribe_ssrcs, session>>
  BY DEF SfuFloorRequest, SfuFloorRelease, SfuFloorRevoke, SfuTracksReady
<1> DEFINE Trackless(more) == more \in Seq(AllMessages) /\ Sift(more, Tracks) = <<>>
<1>2. Trackless(<<>>)
  BY EmptySeq, SiftEmpty
<1>3. ASSUME NEW kind \in FloorKinds, NEW c \in Bots PROVE Trackless(<<Message(kind, c)>>)
  BY MessageType, FloorFrames, NoTracks
<1>4. ASSUME NEW m \in Answers PROVE Trackless(<<m>>)
  <2>1. <<m>> \in Seq(Messages(AnswerKinds))
    BY DEF Answers
  <2> QED
    BY <2>1, FloorFrames, NoTracks
<1>5. ASSUME NEW c \in Bots PROVE Trackless(<<Message("FRVK", c), Message("FIDL", c)>>)
  <2>1. Message("FRVK", c) \in Messages(FloorKinds) /\ Message("FIDL", c) \in Messages(FloorKinds)
    BY MessageType DEF FloorKinds
  <2>2. <<Message("FRVK", c), Message("FIDL", c)>> \in Seq(Messages(FloorKinds))
    BY <2>1
  <2> QED
    BY <2>2, FloorFrames, NoTracks
<1>6. "FTKN" \in FloorKinds /\ "FIDL" \in FloorKinds
  BY DEF FloorKinds
<1>7. ASSUME NEW c \in Bots, UNCHANGED ws PROVE ws'[c] = ws[c] \o <<>>
  BY <1>7, WireType, ConcatEmptySeq
<1> HIDE DEF Trackless
<1>8. ASSUME NEW c \in Bots PROVE \E more : Trackless(more) /\ ws'[c] = ws[c] \o more
  <2>1. CASE UNCHANGED ws
    BY <1>2, <1>7, <2>1
  <2>2. ASSUME NEW kind \in {"FTKN", "FIDL"}, Broadcast(Present, Message(kind, b))
        PROVE  \E more : Trackless(more) /\ ws'[c] = ws[c] \o more
    <3>1. kind \in FloorKinds /\ kind \in FloorKinds \cup TrackKinds \cup {"leave"}
      BY <1>6
    <3>2. ws'[c] = ws[c] \o <<Message(kind, b)>> \/ ws'[c] = ws[c] \o <<>>
      BY <2>2, <3>1, BroadcastSends
    <3> QED
      BY <1>2, <1>3, <3>1, <3>2
  <2>3. CASE SfuFloorRevoke
    <3>1. /\ holder \in Bots
          /\ \/ ws'[c] = ws[c] \o <<Message("FIDL", holder)>>
             \/ ws'[c] = ws[c] \o <<Message("FRVK", c), Message("FIDL", c)>>
             \/ ws'[c] = ws[c] \o <<>>
      BY <2>3, RevokeSends
    <3> QED
      BY <1>2, <1>3, <1>5, <1>6, <3>1
  <2>4. CASE SfuTracksReady(b)
    <3>1. \/ \E m \in Answers : ws'[c] = ws[c] \o <<m>>
          \/ ws'[c] = ws[c]
      BY <2>4, ReadySends
    <3>2. ws[c] \o <<>> = ws[c]
      BY WireType, ConcatEmptySeq
    <3> QED
      BY <1>2, <1>4, <3>1, <3>2
  <2> QED
    BY <2>1, <2>2, <2>3, <2>4 DEF SfuFloorRequest, SfuFloorRelease
<1> QED
  BY <1>1, <1>8, SubSent DEF Trackless

LEMMA PublishSub ==
  ASSUME TypeInv, TypeInv', SubInv, NEW c \in Bots, Publish(c)
  PROVE  SubInv'
<1>1. UNCHANGED <<left, subscribe_ssrcs, event_buf>> /\ published' = published \cup {c} /\ c \in Present
  BY DEF Publish, session
<1>2. Present' = Present
  BY <1>1 DEF Present
<1>3. "add" \in TrackKinds
  BY DEF TrackKinds
<1> DEFINE m == Message("add", c)
<1>4. m \in Tracks /\ m \in AllMessages /\ m.kind = "add" /\ m.bot = c
  BY <1>3, MessageType DEF Tracks, AllMessages, AllKinds, EventKinds, Message
<1> SUFFICES ASSUME NEW b \in Present
             PROVE  ApplyTracks(subscribe_ssrcs[b], Updating(b)').ssrcs = There(b)'
  BY <1>1, <1>2 DEF SubInv
<1>5. b \in Bots /\ ApplyTracks(subscribe_ssrcs[b], Updating(b)).ssrcs = There(b)
  BY DEF SubInv, Present
<1>6. CASE b = c
  <2>1. There(b)' = There(b)
    BY <1>1, <1>2, <1>6 DEF There
  <2>2. ws'[b] = ws[b]
    BY <1>5, <1>6 DEF Publish, Broadcast
  <2>3. Updating(b)' = Updating(b)
    BY <1>1, <2>2 DEF Updating, Tracks, Messages
  <2> QED
    BY <1>5, <2>1, <2>3
<1>7. CASE b # c
  <2> DEFINE e == Sift(event_buf[b], Tracks)
             w == Sift(ws[b], Tracks)
  <2>1. Updating(b) = e \o w /\ e \in Seq(Tracks) /\ w \in Seq(Tracks)
    BY <1>5, UpdatingParts
  <2>2. ws'[b] = ws[b] \o <<m>>
    BY <1>3, <1>5, <1>7, BroadcastSends DEF Publish
  <2>3. Sift(ws'[b], Tracks) = w \o <<m>>
    <3>1. <<m>> \in Seq(AllMessages) /\ Sift(<<m>>, Tracks) = <<m>>
      BY <1>4, SiftOne
    <3> DEFINE sent == <<m>>
    <3>2. sent \in Seq(AllMessages) /\ Sift(sent, Tracks) = <<m>> /\ ws'[b] = ws[b] \o sent
      BY <2>2, <3>1
    <3> HIDE DEF sent
    <3>3. Sift(ws'[b], Tracks) = Sift(ws[b], Tracks) \o Sift(sent, Tracks)
      BY <1>5, <3>2, WireGrows
    <3> QED
      BY <3>2, <3>3
  <2>4. Updating(b)' = e \o (w \o <<m>>)
    BY <1>1, <1>5, <2>3, UpdatingPartsNext
  <2> HIDE DEF e, w, m
  <2>5. e \o (w \o <<m>>) = Append(e \o w, m) /\ e \o w \in Seq(Tracks)
    <3>1. w \o <<m>> = Append(w, m)
      BY <1>4, <2>1, AppendIsConcat
    <3> QED
      BY <1>4, <2>1, <3>1, ConcatAppend, ConcatProperties
  <2>6. Updating(b) \in Seq(Tracks) /\ Updating(b)' = Append(Updating(b), m)
    BY <2>1, <2>4, <2>5
  <2>7. ApplyTracks(subscribe_ssrcs[b], Append(Updating(b), m)).ssrcs
          = Subscribed(ApplyTracks(subscribe_ssrcs[b], Updating(b)).ssrcs, m)
    BY <1>4, <2>6, ApplyAppend
  <2>8. Subscribed(There(b), m) = There(b)'
    BY <1>1, <1>2, <1>4, <1>7 DEF Subscribed, There
  <2> QED
    BY <1>5, <2>6, <2>7, <2>8
<1> QED
  BY <1>6, <1>7

LEMMA KillSub ==
  ASSUME TypeInv, TypeInv', SubInv, NEW c \in Bots, KillBot(c)
  PROVE  SubInv'
<1>1. UNCHANGED <<published, subscribe_ssrcs, event_buf>> /\ left' = left \cup {c} /\ c \in Present
  BY DEF KillBot, session
<1>2. Present' = Present \ {c}
  BY <1>1 DEF Present
<1> DEFINE m == Message("remove", c)
           after == <<Message("leave", c)>>
           f == Freed(c)
<1>4. /\ m \in Tracks /\ m \in AllMessages /\ m.kind = "remove" /\ m.bot = c
  <2>1. "remove" \in TrackKinds
    BY DEF TrackKinds
  <2> QED
    BY <2>1, MessageType DEF Tracks, AllMessages, AllKinds, EventKinds, Message
<1>5. after \in Seq(AllMessages) /\ Sift(after, Tracks) = <<>>
  <2>1. after \in Seq(Messages({"leave"}))
    BY MessageType
  <2> HIDE DEF after
  <2> QED
    BY <2>1, FloorFrames, NoTracks
<1>6. f \in Seq(AllMessages) /\ Sift(f, Tracks) = <<>>
  <2>1. "FIDL" \in FloorKinds
    BY DEF FloorKinds
  <2>2. f \in Seq(Messages(FloorKinds))
    BY <2>1, MessageType, EmptySeq DEF Freed
  <2> HIDE DEF f
  <2> QED
    BY <2>2, FloorFrames, NoTracks
<1>7. Gone(c) = <<m>> \o after
  BY DEF Gone
<1>8. <<m>> \in Seq(AllMessages) /\ Sift(<<m>>, Tracks) = <<m>> /\ <<m>> \in Seq(Tracks)
  BY <1>4, SiftOne
<1> SUFFICES ASSUME NEW b \in Present \ {c}
             PROVE  ApplyTracks(subscribe_ssrcs[b], Updating(b)').ssrcs = There(b)'
  BY <1>1, <1>2 DEF SubInv
<1>9. b \in Bots /\ ApplyTracks(subscribe_ssrcs[b], Updating(b)).ssrcs = There(b)
  BY DEF SubInv, Present
<1>10. ws'[b] = ws[b] \o (Gone(c) \o f)
  BY <1>9, KillSends
<1> DEFINE e == Sift(event_buf[b], Tracks)
           w == Sift(ws[b], Tracks)
<1>11. Updating(b) = e \o w /\ e \in Seq(Tracks) /\ w \in Seq(Tracks)
  BY <1>9, UpdatingParts
<1> HIDE DEF m, after, f
<1>12. /\ (<<m>> \o after) \o f \in Seq(AllMessages)
       /\ Sift((<<m>> \o after) \o f, Tracks) = <<m>>
  <2> DEFINE one == <<m>>
  <2>1. one \in Seq(AllMessages) /\ Sift(one, Tracks) = one /\ one \in Seq(Tracks)
    BY <1>8
  <2> HIDE DEF one
  <2>2. one \o after \in Seq(AllMessages) /\ (one \o after) \o f \in Seq(AllMessages)
    BY <1>5, <1>6, <2>1, ConcatProperties
  <2>6. one \in Seq(AllMessages) /\ after \in Seq(AllMessages) /\ f \in Seq(AllMessages)
    BY <1>5, <1>6, <2>1
  <2>3. Sift((one \o after) \o f, Tracks) = Sift(one, Tracks) \o Sift(after, Tracks) \o Sift(f, Tracks)
    <3> DEFINE oa == one \o after
    <3>1. oa \in Seq(AllMessages)
      BY <2>2
    <3>2. Sift(oa, Tracks) = Sift(one, Tracks) \o Sift(after, Tracks)
      BY <2>6, SiftConcat
    <3> HIDE DEF oa
    <3>4. f \in Seq(AllMessages)
      BY <2>6
    <3>3. Sift(oa \o f, Tracks) = Sift(oa, Tracks) \o Sift(f, Tracks)
      BY ONLY <3>1, <3>4, SiftConcat
    <3> QED
      BY <3>2, <3>3 DEF oa
  <2>4. one \o <<>> = one
    BY <2>1, ConcatEmptySeq
  <2>5. Sift((one \o after) \o f, Tracks) = one
    BY <1>5, <1>6, <2>1, <2>3, <2>4
  <2> QED
    BY <2>2, <2>5 DEF one
<1>13. Sift(ws'[b], Tracks) = w \o <<m>>
  <2> DEFINE sent == (<<m>> \o after) \o f
  <2>1. ws'[b] = ws[b] \o sent
    BY <1>7, <1>10
  <2>2. sent \in Seq(AllMessages) /\ Sift(sent, Tracks) = <<m>>
    BY <1>12
  <2> HIDE DEF sent
  <2>3. Sift(ws'[b], Tracks) = Sift(ws[b], Tracks) \o Sift(sent, Tracks)
    BY <1>9, <2>1, <2>2, WireGrows
  <2> QED
    BY <2>2, <2>3
<1>14. Updating(b)' = e \o (w \o <<m>>)
  BY <1>1, <1>9, <1>13, UpdatingPartsNext
<1> HIDE DEF e, w
<1>15. e \o (w \o <<m>>) = Append(e \o w, m) /\ e \o w \in Seq(Tracks)
  <2>1. w \o <<m>> = Append(w, m)
    BY <1>4, <1>11, AppendIsConcat
  <2> QED
    BY <1>4, <1>11, <2>1, ConcatAppend, ConcatProperties
<1>16. Updating(b) \in Seq(Tracks) /\ Updating(b)' = Append(Updating(b), m)
  BY <1>11, <1>14, <1>15
<1>17. ApplyTracks(subscribe_ssrcs[b], Append(Updating(b), m)).ssrcs
          = Subscribed(ApplyTracks(subscribe_ssrcs[b], Updating(b)).ssrcs, m)
  BY <1>4, <1>16, ApplyAppend
<1>18. Subscribed(There(b), m) = There(b)'
  BY <1>1, <1>2, <1>4 DEF Subscribed, There
<1> QED
  BY <1>9, <1>16, <1>17, <1>18

\* A poll moves the updates from the wire to the buffer.
LEMMA PollKeepsUpdates ==
  ASSUME TypeInv, NEW b \in Bots, NEW n, Poll(b, n),
         EventsAfterPoll(b, n) \in Seq(Before)
  PROVE  Sift(EventsAfterPoll(b, n), Tracks) \o Sift(ws'[b], Tracks) = Updating(b)
<1> DEFINE e == event_buf[b]
           first == SubSeq(ws[b], 1, n)
           rest == ws'[b]
<1>1. e \in Seq(Before) /\ first \in Seq(AllMessages) /\ rest \in Seq(AllMessages)
  BY WireType, PollType DEF Before
<1>2. Sift(first, Tracks) \o Sift(rest, Tracks) = Sift(ws[b], Tracks)
  BY PollSifts
<1>3. Updating(b) = Sift(e, Tracks) \o Sift(ws[b], Tracks)
  BY UpdatingParts
<1>4. EventsAfterPoll(b, n) = e \o EventPart(first)
  BY DEF EventsAfterPoll
<1> HIDE DEF e, first, rest
<1>5. Before \subseteq AllMessages /\ Messages(EventKinds) \subseteq AllMessages
      /\ Messages(EventKinds) \cap Tracks = Tracks
  <2>1. /\ TrackKinds \cup {"leave"} \subseteq AllKinds /\ EventKinds \subseteq AllKinds
        /\ EventKinds \cap TrackKinds = TrackKinds
    BY DEF AllKinds, EventKinds
  <2> QED
    BY <2>1, MessagesMeet DEF Before, AllMessages, Tracks
<1>6. EventPart(first) \in Seq(AllMessages) /\ e \in Seq(AllMessages)
  BY <1>1, <1>5, Sorted, SeqMonotonic
<1>7. Sift(EventPart(first), Tracks) = Sift(first, Tracks)
  <2>1. Sift(Sift(first, Messages(EventKinds)), Tracks) = Sift(first, Messages(EventKinds) \cap Tracks)
    BY <1>1, SiftSift
  <2> QED
    BY <1>5, <2>1 DEF EventPart
<1> DEFINE p == EventPart(first)
<1>8. Sift(e \o p, Tracks) = Sift(e, Tracks) \o Sift(p, Tracks)
  <2>1. p \in Seq(AllMessages)
    BY <1>6
  <2> HIDE DEF p
  <2> QED
    BY <1>6, <2>1, SiftConcat
<1>9. /\ Sift(e, Tracks) \in Seq(AllMessages \cap Tracks)
      /\ Sift(first, Tracks) \in Seq(AllMessages \cap Tracks)
      /\ Sift(rest, Tracks) \in Seq(AllMessages \cap Tracks)
  BY <1>1, <1>6, SiftType
<1> DEFINE x == Sift(e, Tracks)
           y == Sift(first, Tracks)
           z == Sift(rest, Tracks)
<1>10. (x \o y) \o z = x \o (y \o z)
  <2>1. \E N : x \in Seq(N) /\ y \in Seq(N) /\ z \in Seq(N)
    BY <1>9
  <2> HIDE DEF x, y, z
  <2> QED
    BY <2>1, ConcatAssociative
<1> QED
  BY <1>2, <1>3, <1>4, <1>7, <1>8, <1>10 DEF rest

LEMMA AwaitSub ==
  ASSUME TypeInv, TypeInv', SubInv, NEW b \in Bots, NEW n, AwaitFloorTaken(b, n)
  PROVE  SubInv'
<1>1. Poll(b, n) /\ pc[b] = "await" /\ UNCHANGED <<published, left, subscribe_ssrcs>>
  BY DEF AwaitFloorTaken, sfu
<1>2. Sift(ws[b], Answers) = <<>> /\ Sift(SubSeq(ws[b], 1, n), Answers) = <<>>
  BY <1>1, NoAnswer, PollNone
<1>3. EventsAfterPoll(b, n) \in Seq(Before)
  BY <1>1, <1>2, EventsAfterPollType DEF Before
<1>4. /\ event_buf'[b] = EventsAfterPoll(b, n)
      /\ \A c \in Bots \ {b} : event_buf'[c] = event_buf[c] /\ ws'[c] = ws[c]
  BY <1>1, PollType DEF AwaitFloorTaken, TypeInv, TypeOK, SessionOK
<1>5. Updating(b)' = Updating(b)
  BY <1>1, <1>3, <1>4, PollKeepsUpdates, UpdatingPartsNext
<1>6. ASSUME NEW c \in Bots \ {b} PROVE Updating(c)' = Updating(c)
  BY <1>4, UpdatingSame
<1> QED
  BY <1>1, <1>5, <1>6, SubSame

LEMMA AnsweredSub ==
  ASSUME TypeInv, TypeInv', SubInv, NEW b \in Bots, AwaitTracksReady(b)
  PROVE  SubInv'
<1>1. Poll(b, 1) /\ UNCHANGED <<published, left, subscribe_ssrcs>>
  BY DEF AwaitTracksReady, sfu
<1>2. \A c \in Bots \ {b} : event_buf'[c] = event_buf[c] /\ ws'[c] = ws[c]
  BY <1>1, PollType DEF AwaitTracksReady, TypeInv, TypeOK, SessionOK
<1>3. ASSUME NEW c \in Bots \ {b} PROVE Updating(c)' = Updating(c)
  BY <1>2, UpdatingSame
<1>4. Updating(b)' = Updating(b)
  <2>1. CASE IsResponse(Head(ws[b]))
    <3>1. event_buf'[b] = event_buf[b]
      BY <2>1 DEF AwaitTracksReady
    <3> DEFINE a == Head(ws[b])
               one == <<a>>
               w == Sift(ws'[b], Tracks)
    <3>2. a \in Answers /\ SubSeq(ws[b], 1, 1) = one
      BY <2>1, AnswerTaken
    <3> HIDE DEF a
    <3>3. Sift(one, Tracks) = <<>>
      <4>1. one \in Seq(Messages(AnswerKinds))
        BY <3>2 DEF Answers
      <4> HIDE DEF one
      <4> QED
        BY <4>1, FloorFrames, NoTracks
    <3>4. Sift(SubSeq(ws[b], 1, 1), Tracks) \o w = Sift(ws[b], Tracks)
      BY <1>1, PollSifts
    <3>5. w \in Seq(AllMessages \cap Tracks)
      BY <1>1, PollType, SiftType
    <3> HIDE DEF one, w
    <3>6. <<>> \o w = w
      BY <3>5, ConcatEmptySeq
    <3>7. Sift(ws[b], Tracks) = w
      BY <3>2, <3>3, <3>4, <3>6
    <3> QED
      BY <3>1, <3>7, UpdatingSame DEF w
  <2>2. CASE ~IsResponse(Head(ws[b]))
    <3>1. event_buf'[b] = EventsAfterPoll(b, 1)
      BY <2>2 DEF AwaitTracksReady, TypeInv, TypeOK, SessionOK
    <3>2. EventsAfterPoll(b, 1) \in Seq(Before)
      BY <1>1, <2>2, OtherTaken, EventsAfterPollType DEF Before
    <3> QED
      BY <1>1, <3>1, <3>2, PollKeepsUpdates, UpdatingPartsNext
  <2> QED
    BY <2>1, <2>2
<1> QED
  BY <1>1, <1>3, <1>4, SubSame

\* The updates that have arrived are applied and leave the buffer.
LEMMA EventsSub ==
  ASSUME TypeInv, TypeInv', SubInv, NEW b \in Bots, NEW n, ProcessEvents(b, n)
  PROVE  SubInv'
<1> DEFINE events == EventsAfterPoll(b, n)
           x == Sift(events, Tracks)
           y == Sift(ws'[b], Tracks)
           now == ApplyTracks(subscribe_ssrcs[b], x).ssrcs
<1>1. Poll(b, n) /\ pc[b] = "idle" /\ UNCHANGED <<published, left>>
  BY DEF ProcessEvents, EngineFree, sfu
<1>2. Sift(ws[b], Answers) = <<>> /\ Sift(SubSeq(ws[b], 1, n), Answers) = <<>>
  BY <1>1, NoAnswer, PollNone
<1>3. events \in Seq(Before)
  BY <1>1, <1>2, EventsAfterPollType DEF Before
<1>4. /\ event_buf'[b] = Sift(events, Messages(EventKinds \ TrackKinds))
      /\ subscribe_ssrcs'[b] = now
      /\ \A c \in Bots \ {b} : /\ event_buf'[c] = event_buf[c] /\ ws'[c] = ws[c]
                               /\ subscribe_ssrcs'[c] = subscribe_ssrcs[c]
  <2>1. /\ event_buf \in [Bots -> Seq(Before)] /\ subscribe_ssrcs \in [Bots -> SUBSET Bots]
        /\ event_buf' = [event_buf EXCEPT ![b] = Sift(events, Messages(EventKinds \ TrackKinds))]
        /\ subscribe_ssrcs' = [subscribe_ssrcs EXCEPT ![b] = now]
    BY DEF ProcessEvents, TypeInv, TypeOK, SessionOK, Before
  <2>2. \A c \in Bots \ {b} : ws'[c] = ws[c]
    BY <1>1, PollType
  <2> HIDE DEF events, now
  <2> QED
    BY <2>1, <2>2
<1>5. x \o y = Updating(b)
  BY <1>1, <1>3, PollKeepsUpdates
<1>6. x \in Seq(Tracks) /\ y \in Seq(Tracks)
  <2>1. ws'[b] \in Seq(AllMessages)
    BY <1>1, PollType
  <2> HIDE DEF events
  <2> QED
    BY <1>3, <2>1, TracksOf
<1>7. Sift(event_buf'[b], Tracks) = <<>>
  <2> DEFINE S == Messages(EventKinds \ TrackKinds)
  <2>1. S \cap Tracks = {}
    <3>1. S \cap Tracks = Messages({})
      BY MessagesMeet, (EventKinds \ TrackKinds) \cap TrackKinds = {} DEF Tracks
    <3> QED
      BY <3>1 DEF Messages
  <2>4. event_buf'[b] = Sift(events, S)
    BY <1>4
  <2> HIDE DEF S, events
  <2>2. Sift(Sift(events, S), Tracks) = Sift(events, S \cap Tracks)
    BY <1>3, SiftSift
  <2>3. Sift(events, {}) = <<>>
    BY <1>3, SiftNone
  <2> QED
    BY <2>1, <2>2, <2>3, <2>4
<1> HIDE DEF events, x, y, now
<1>8. Updating(b)' = y
  <2>1. Updating(b)' = <<>> \o y
    BY <1>7, UpdatingPartsNext DEF y
  <2> QED
    BY <1>6, <2>1, ConcatEmptySeq
<1>9. ApplyTracks(subscribe_ssrcs[b], x \o y).ssrcs = ApplyTracks(now, y).ssrcs
  BY <1>6, ApplyConcat DEF now
<1>10. Present' = Present /\ \A c \in Bots : There(c)' = There(c)
  BY <1>1 DEF Present, There
<1>11. ASSUME NEW c \in Present
       PROVE  ApplyTracks(subscribe_ssrcs'[c], Updating(c)').ssrcs = There(c)
  <2>1. ApplyTracks(subscribe_ssrcs[c], Updating(c)).ssrcs = There(c) /\ c \in Bots
    BY DEF SubInv, Present
  <2>2. CASE c = b
    BY <1>4, <1>5, <1>8, <1>9, <2>1, <2>2
  <2>3. CASE c # b
    <3>1. Updating(c)' = Updating(c)
      BY <1>4, <2>1, <2>3, UpdatingSame
    <3> QED
      BY <1>4, <2>1, <2>3, <3>1
  <2> QED
    BY <2>2, <2>3
<1> QED
  BY <1>10, <1>11 DEF SubInv, Present

LEMMA RoomSub ==
  ASSUME TypeInv, TypeInv', SubInv, NEW b \in Bots, ProcessRoomEvents(b)
  PROVE  SubInv'
<1>1. UNCHANGED <<published, left, subscribe_ssrcs, ws>>
  BY DEF ProcessRoomEvents, sfu
<1> DEFINE S == Messages(EventKinds \ {"leave"})
           e == event_buf[b]
<1>2. event_buf'[b] = Sift(e, S) /\ \A c \in Bots \ {b} : event_buf'[c] = event_buf[c]
  BY DEF ProcessRoomEvents, TypeInv, TypeOK, SessionOK
<1>3. S \cap Tracks = Tracks /\ e \in Seq(Before)
  <2>1. (EventKinds \ {"leave"}) \cap TrackKinds = TrackKinds
    BY DEF EventKinds, TrackKinds
  <2> QED
    BY <2>1, MessagesMeet, WireType DEF Tracks, Before
<1> HIDE DEF S, e
<1>4. Sift(Sift(e, S), Tracks) = Sift(e, Tracks)
  BY <1>3, SiftSift
<1>5. \A c \in Bots : Sift(event_buf'[c], Tracks) = Sift(event_buf[c], Tracks)
  BY <1>2, <1>4 DEF e
<1>6. \A c \in Bots : Updating(c)' = Updating(c)
  BY <1>1, <1>5, UpdatingSame
<1> QED
  BY <1>1, <1>6, SubSame

LEMMA QuietSub ==
  ASSUME SubInv, UNCHANGED <<published, left, subscribe_ssrcs, event_buf, ws>>
  PROVE  SubInv'
<1>1. \A b \in Bots : Updating(b)' = Updating(b)
  BY DEF Updating, Tracks, Messages
<1> QED
  BY <1>1, SubSame

LEMMA SubStep ==
  ASSUME TypeInv, TypeInv', SubInv, [Next /\ UNCHANGED limits]_<<vars, limits>>
  PROVE  SubInv'
<1>1. CASE UNCHANGED <<vars, limits>>
  BY <1>1, QuietSub DEF vars, sfu, session
<1>2. CASE Next
  <2>1. CASE SfuFloorRevoke
    <3>1. holder \in Bots
      BY <2>1 DEF TypeInv, TypeOK, SfuOK, SfuFloorRevoke
    <3> QED
      BY <2>1, <3>1, FloorSub
  <2>2. ASSUME NEW b \in Bots,
               \/ SfuRelay(b) \/ FloorRequest(b) \/ AwaitTimeout(b) \/ FloorRelease(b)
               \/ ProcessFloor(b) \/ FinishStores(b) \/ RecvStep(b)
        PROVE  SubInv'
    <3>1. UNCHANGED <<published, left, subscribe_ssrcs, event_buf, ws>>
      BY <2>2 DEF SfuRelay, FloorRequest, AwaitTimeout, FloorRelease, ProcessFloor, FinishStores,
         RecvStep, RecvRtp, RecvReleased, RecvChanged, RecvAck, RecvUnchanged, sfu, session
    <3> QED
      BY <3>1, QuietSub
  <2>3. ASSUME NEW b \in Bots,
               \/ Publish(b) \/ SfuFloorRequest(b) \/ SfuFloorRelease(b)
               \/ SfuTracksReady(b) \/ KillBot(b)
        PROVE  SubInv'
    BY <2>3, PublishSub, FloorSub, KillSub
  <2>4. ASSUME NEW b \in Bots,
               \/ \E n \in 0 .. Len(ws[b]) : AwaitFloorTaken(b, n) \/ ProcessEvents(b, n)
               \/ AwaitTracksReady(b) \/ ProcessRoomEvents(b)
        PROVE  SubInv'
    BY <2>4, AwaitSub, EventsSub, AnsweredSub, RoomSub
  <2> QED
    BY <1>2, <2>1, <2>2, <2>3, <2>4 DEF Next
<1> QED
  BY <1>1, <1>2

LEMMA SubInit == Init => SubInv
<1> SUFFICES ASSUME Init, NEW b \in Present
             PROVE  ApplyTracks(subscribe_ssrcs[b], Updating(b)).ssrcs = There(b)
  BY DEF SubInv
<1>1. b \in Bots /\ subscribe_ssrcs[b] = {} /\ There(b) = {}
  BY DEF Init, Present, There
<1>2. event_buf[b] = <<>> /\ ws[b] = <<>>
  BY <1>1 DEF Init
<1>3. <<>> \o <<>> = <<>>
  BY EmptySeq, ConcatEmptySeq
<1>4. Updating(b) = <<>>
  BY <1>2, <1>3, SiftEmpty DEF Updating
<1> QED
  BY <1>1, <1>4, ApplyEmpty

(***************************************************************************)
(* With no TRACKS_UPDATE on its way, a bot is subscribed to exactly the    *)
(* tracks of the other bots that are there, whatever was buffered by a     *)
(* wait for the floor or for TRACKS_READY (process_events).                *)
(***************************************************************************)
THEOREM PttSubscriptions == Spec => []SubscriptionsConverge
<1>1. Init => TypeInv /\ SubInv
  BY TypeInit, SubInit
<1>2. TypeInv /\ SubInv /\ [Next /\ UNCHANGED limits]_<<vars, limits>> => (TypeInv /\ SubInv)'
  BY TypeStep, SubStep
<1>3. TypeInv /\ SubInv => SubscriptionsConverge
  <2> SUFFICES ASSUME SubInv, NEW b \in Present, Updating(b) = <<>>
               PROVE  subscribe_ssrcs[b] = (published \cap Present) \ {b}
    BY DEF SubscriptionsConverge, Updating
  <2>1. ApplyTracks(subscribe_ssrcs[b], <<>>).ssrcs = There(b)
    BY DEF SubInv
  <2> QED
    BY <2>1, ApplyEmpty DEF There
<1> QED
  BY <1>1, <1>2, <1>3, PTL DEF Spec

-----------------------------------------------------------------------------
(***************************************************************************)
(* What a listener knows of the floor, and what it still has to hear.      *)
(***************************************************************************)

\* The frames p are the last of the announcements a.
Behind(a, p) ==
  /\ Len(p) <= Len(a)
  /\ \A k \in 1 .. Len(p) : a[Len(a) - Len(p) + k] = (p[k].kind = "FIDL")

Heard(k) == \E i \in 1 .. k : ~announced[i]

\* The released flag, once the stores of the current message are done.
Released(b) == IF stores[b] = <<>> THEN flag[b].floor_just_released ELSE stores[b] = FidlRest

Knows(b) == flag[b].floor_idle = IdleAsOf(Seen(b))
Agrees(b) == Released(b) <=> (Seen(b) > 0 /\ flag[b].floor_idle)
Follows(b) ==
  stores[b] \in {FtknRest, FtknLast} /\ flag[b].floor_just_released
    => ReleasedAsOf(Seen(b) - 1)
Recalls(b) ==
  flag[b].speaker_just_changed \/ stores[b] = FtknRest \/ obs[b].first_video # "none"
    => Heard(Seen(b))
Judges(b) ==
  TurnSeen(b) \/ stores[b] = FtknLast
    => flag[b].speaker_just_changed \/ obs[b].first_video # "none"

Tells(b) == Knows(b) /\ Agrees(b) /\ Follows(b) /\ Recalls(b) /\ Judges(b)
View(b) == Behind(announced, Pending(b)) /\ Tells(b)
ViewInv == \A b \in Listeners \cap Present : View(b)

\* One more announcement, made of m.
Longer(a, av, m) ==
  /\ Len(av) = Len(a) + 1
  /\ \A k \in 1 .. Len(a) : av[k] = a[k]
  /\ av[Len(a) + 1] = (m.kind = "FIDL")

LEMMA BehindBoth ==
  ASSUME NEW M, NEW a \in Seq(BOOLEAN), NEW p \in Seq(M), Behind(a, p),
         NEW m \in M, NEW av, Longer(a, av, m)
  PROVE  /\ Behind(av, Append(p, m))
         /\ Len(av) - Len(Append(p, m)) = Len(a) - Len(p)
         /\ Len(a) - Len(p) \in 0 .. Len(a)
<1> DEFINE pm == Append(p, m)
<1>1. /\ Len(pm) = Len(p) + 1 /\ Len(p) \in Nat /\ pm[Len(p) + 1] = m
      /\ \A k \in 1 .. Len(p) : pm[k] = p[k]
  BY AppendProperties, LenProperties
<1> HIDE DEF pm
<1>2. Len(p) <= Len(a) /\ Len(a) \in Nat /\ Len(av) = Len(a) + 1
  BY LenProperties DEF Behind, Longer
<1>3. ASSUME NEW k \in 1 .. Len(pm) PROVE av[Len(av) - Len(pm) + k] = (pm[k].kind = "FIDL")
  <2>1. CASE k = Len(p) + 1
    <3>1. Len(av) - Len(pm) + k = Len(a) + 1
      BY <1>1, <1>2, <2>1
    <3> QED
      BY <1>1, <2>1, <3>1 DEF Longer
  <2>2. CASE k \in 1 .. Len(p)
    <3>1. Len(av) - Len(pm) + k = Len(a) - Len(p) + k /\ Len(a) - Len(p) + k \in 1 .. Len(a)
      BY <1>1, <1>2, <2>2
    <3>2. a[Len(a) - Len(p) + k] = (p[k].kind = "FIDL")
      BY <2>2 DEF Behind
    <3>3. av[Len(a) - Len(p) + k] = a[Len(a) - Len(p) + k]
      BY <3>1 DEF Longer
    <3> QED
      BY <1>1, <2>2, <3>1, <3>2, <3>3
  <2> QED
    BY <1>1, <2>1, <2>2
<1>4. Behind(av, pm)
  BY <1>1, <1>2, <1>3 DEF Behind
<1> QED
  BY <1>1, <1>2, <1>4 DEF pm

LEMMA BehindOne ==
  ASSUME NEW M, NEW a \in Seq(BOOLEAN), NEW m \in M, NEW q \in Seq(M), Behind(a, <<m>> \o q)
  PROVE  /\ Behind(a, q)
         /\ Len(a) - Len(q) = (Len(a) - Len(<<m>> \o q)) + 1
         /\ Len(a) - Len(q) \in 1 .. Len(a)
         /\ a[Len(a) - Len(q)] = (m.kind = "FIDL")
<1> DEFINE p == <<m>> \o q
<1>1. /\ Len(p) = Len(q) + 1 /\ p[1] = m /\ \A k \in 1 .. Len(q) : p[k + 1] = q[k]
      /\ Len(q) \in Nat /\ Len(a) \in Nat
  BY Cons, LenProperties
<1> HIDE DEF p
<1>2. Behind(a, p)
  BY DEF p
<1>3. Len(q) + 1 <= Len(a)
  BY <1>1, <1>2 DEF Behind
<1>4. a[Len(a) - Len(q)] = (m.kind = "FIDL")
  <2>1. 1 \in 1 .. Len(p) /\ Len(a) - Len(p) + 1 = Len(a) - Len(q)
    BY <1>1
  <2> QED
    BY <1>1, <1>2, <2>1 DEF Behind
<1>5. ASSUME NEW k \in 1 .. Len(q) PROVE a[Len(a) - Len(q) + k] = (q[k].kind = "FIDL")
  <2>1. k + 1 \in 1 .. Len(p) /\ Len(a) - Len(p) + (k + 1) = Len(a) - Len(q) + k
    BY <1>1
  <2>2. a[Len(a) - Len(p) + (k + 1)] = (p[k + 1].kind = "FIDL")
    BY <1>2, <2>1 DEF Behind
  <2> QED
    BY <1>1, <2>1, <2>2
<1> QED
  BY <1>1, <1>3, <1>4, <1>5 DEF Behind, p

\* The announcements on their way, buffer by buffer.
LEMMA AnnouncementsOf ==
  ASSUME NEW t \in Seq(Messages(FloorKinds)), NEW f \in Seq(Messages(FloorKinds)),
         NEW w \in Seq(AllMessages)
  PROVE  /\ Sift(t \o f \o w, Announcements)
              = Sift(t, Announcements) \o Sift(f, Announcements) \o Sift(w, Announcements)
         /\ Sift(t, Announcements) \in Seq(Announcements)
         /\ Sift(f, Announcements) \in Seq(Announcements)
         /\ Sift(w, Announcements) \in Seq(Announcements)
<1>1. /\ Messages(FloorKinds) \subseteq AllMessages
      /\ Messages(FloorKinds) \cap Announcements = Announcements
      /\ AllMessages \cap Announcements = Announcements
  <2>1. /\ FloorKinds \subseteq AllKinds /\ FloorKinds \cap {"FTKN", "FIDL"} = {"FTKN", "FIDL"}
        /\ AllKinds \cap {"FTKN", "FIDL"} = {"FTKN", "FIDL"}
    BY DEF AllKinds, FloorKinds
  <2> QED
    BY <2>1, MessagesMeet DEF AllMessages, Announcements
<1>2. t \in Seq(AllMessages) /\ f \in Seq(AllMessages)
  BY <1>1, SeqMonotonic
<1>3. Sift(t \o f \o w, Announcements)
        = Sift(t, Announcements) \o Sift(f, Announcements) \o Sift(w, Announcements)
  <2> DEFINE tf == t \o f
  <2>1. tf \in Seq(AllMessages)
    BY <1>2, ConcatProperties
  <2>2. Sift(tf, Announcements) = Sift(t, Announcements) \o Sift(f, Announcements)
    BY <1>2, SiftConcat
  <2> HIDE DEF tf
  <2>3. Sift(tf \o w, Announcements) = Sift(tf, Announcements) \o Sift(w, Announcements)
    BY <2>1, SiftConcat
  <2> QED
    BY <2>2, <2>3 DEF tf
<1> QED
  BY <1>1, <1>2, <1>3, SiftType

LEMMA PendingParts ==
  ASSUME TypeInv, NEW b \in Bots
  PROVE  /\ Pending(b) = Sift(batch[b], Announcements) \o Sift(floor_mbcp_buf[b], Announcements)
                           \o Sift(ws[b], Announcements)
         /\ Sift(batch[b], Announcements) \in Seq(Announcements)
         /\ Sift(floor_mbcp_buf[b], Announcements) \in Seq(Announcements)
         /\ Sift(ws[b], Announcements) \in Seq(Announcements)
         /\ Pending(b) \in Seq(Announcements)
         /\ announced \in Seq(BOOLEAN)
<1> DEFINE t == Sift(batch[b], Announcements)
           f == Sift(floor_mbcp_buf[b], Announcements)
           w == Sift(ws[b], Announcements)
<1>1. /\ batch[b] \in Seq(Messages(FloorKinds)) /\ floor_mbcp_buf[b] \in Seq(Messages(FloorKinds))
      /\ ws[b] \in Seq(AllMessages)
  BY WireType
<1>2. /\ Pending(b) = t \o f \o w
      /\ t \in Seq(Announcements) /\ f \in Seq(Announcements) /\ w \in Seq(Announcements)
  BY <1>1, AnnouncementsOf DEF Pending
<1>3. t \o f \o w \in Seq(Announcements)
  <2>1. \E N : N = Seq(Announcements) /\ t \in N /\ f \in N /\ w \in N
    BY <1>2
  <2> HIDE DEF t, f, w
  <2> QED
    BY <2>1, ConcatProperties
<1> QED
  BY <1>2, <1>3 DEF TypeInv, TypeOK, SfuOK

LEMMA PendingPartsNext ==
  ASSUME TypeInv', NEW b \in Bots
  PROVE  Pending(b)' = Sift(batch'[b], Announcements) \o Sift(floor_mbcp_buf'[b], Announcements)
                         \o Sift(ws'[b], Announcements)
<1>1. /\ batch'[b] \in Seq(Messages(FloorKinds)) /\ floor_mbcp_buf'[b] \in Seq(Messages(FloorKinds))
      /\ ws'[b] \in Seq(AllMessages)
  BY DEF TypeInv, TypeOK, WiresOK, SessionOK, AllMessages, AllKinds, Messages, TrackKinds,
         FloorKinds, EventKinds, AnswerKinds
<1>2. Announcements' = Announcements
  BY DEF Announcements, Messages
<1> QED
  BY <1>1, <1>2, AnnouncementsOf DEF Pending

LEMMA SeenType ==
  ASSUME TypeInv, NEW b \in Bots, View(b)
  PROVE  Seen(b) \in 0 .. Len(announced)
<1>1. Len(announced) \in Nat /\ Len(Pending(b)) \in Nat
  BY PendingParts, LenProperties
<1>2. Len(Pending(b)) <= Len(announced)
  BY DEF View, Behind
<1> QED
  BY <1>1, <1>2 DEF Seen

\* A step by which a listener hears and forgets nothing.
LEMMA ViewSame ==
  ASSUME NEW b, View(b), UNCHANGED <<announced, flag, stores>>,
         obs'[b].first_video = obs[b].first_video,
         Pending(b)' = Pending(b)
  PROVE  View(b)'
<1>1. Seen(b)' = Seen(b)
  BY DEF Seen
<1>2. FidlRest' = FidlRest /\ FtknRest' = FtknRest /\ FtknLast' = FtknLast
  BY DEF FidlRest, FtknRest, FtknLast, Store
<1>3. Behind(announced, Pending(b))'
  BY DEF View, Behind
<1>4. Tells(b)'
  BY <1>1, <1>2 DEF View, Tells, Knows, Agrees, Follows, Recalls, Judges,
         Released, IdleAsOf, ReleasedAsOf, TurnSeen, Heard
<1> QED
  BY <1>3, <1>4 DEF View

\* An announcement is made: it is one more to hear.
LEMMA ViewLater ==
  ASSUME TypeInv, NEW b \in Bots, View(b), UNCHANGED <<flag, stores, obs>>,
         NEW m \in Announcements, Longer(announced, announced', m),
         Pending(b)' = Append(Pending(b), m)
  PROVE  View(b)'
<1> DEFINE a == announced
           p == Pending(b)
           av == announced'
           pm == Append(p, m)
<1>1. a \in Seq(BOOLEAN) /\ p \in Seq(Announcements) /\ Behind(a, p) /\ Longer(a, av, m)
  BY PendingParts DEF View
<1>2. /\ Behind(av, pm)
      /\ Len(av) - Len(pm) = Len(a) - Len(p)
      /\ Len(a) - Len(p) \in 0 .. Len(a)
  <2> HIDE DEF a, p, av
  <2> QED
    BY <1>1, BehindBoth
<1>3. Behind(announced, Pending(b))'
  BY <1>2 DEF Behind
<1>4. Seen(b)' = Seen(b) /\ Seen(b) \in 0 .. Len(announced)
  BY <1>2 DEF Seen
<1>5. \A k \in 1 .. Len(announced) : announced'[k] = announced[k]
  BY DEF Longer
<1> HIDE DEF a, p, av, pm
<1>6. /\ IdleAsOf(Seen(b))' = IdleAsOf(Seen(b))
      /\ ReleasedAsOf(Seen(b) - 1)' <=> ReleasedAsOf(Seen(b) - 1)
      /\ Heard(Seen(b))' <=> Heard(Seen(b))
      /\ TurnSeen(b)' <=> TurnSeen(b)
  <2>1. Len(announced) \in Nat
    BY LenProperties DEF TypeInv, TypeOK, SfuOK
  <2>2. \A k \in 1 .. Seen(b) : announced'[k] = announced[k]
    BY <1>4, <1>5, <2>1
  <2>3. Heard(Seen(b))' <=> Heard(Seen(b))
    BY <1>4, <2>2 DEF Heard
  <2>4. TurnSeen(b)' <=> TurnSeen(b)
    BY <1>4, <2>2 DEF TurnSeen
  <2>5. IdleAsOf(Seen(b))' = IdleAsOf(Seen(b))
    <3>1. Seen(b) # 0 => Seen(b) \in 1 .. Seen(b)
      BY <1>4, <2>1
    <3> QED
      BY <1>4, <2>2, <3>1 DEF IdleAsOf
  <2>6. ReleasedAsOf(Seen(b) - 1)' <=> ReleasedAsOf(Seen(b) - 1)
    <3>1. Seen(b) - 1 > 0 => Seen(b) - 1 \in 1 .. Seen(b)
      BY <1>4, <2>1
    <3> QED
      BY <1>4, <2>2, <3>1 DEF ReleasedAsOf
  <2> QED
    BY <2>3, <2>4, <2>5, <2>6
<1>7. FidlRest' = FidlRest /\ FtknRest' = FtknRest /\ FtknLast' = FtknLast
  BY DEF FidlRest, FtknRest, FtknLast, Store
<1>8. Tells(b)'
  BY <1>4, <1>6, <1>7 DEF View, Tells, Knows, Agrees, Follows, Recalls, Judges, Released
<1> QED
  BY <1>3, <1>8 DEF View

LEMMA AnnounceLonger ==
  ASSUME TypeInv, NEW m \in Announcements
  PROVE  /\ m.kind = "FTKN" => Longer(announced, Append(announced, FALSE), m)
         /\ m.kind = "FIDL" => Longer(announced, Append(announced, TRUE), m)
<1> DEFINE f == Append(announced, FALSE)
           t == Append(announced, TRUE)
<1>1. announced \in Seq(BOOLEAN)
  BY DEF TypeInv, TypeOK, SfuOK
<1>2. /\ Len(f) = Len(announced) + 1 /\ f[Len(announced) + 1] = FALSE
      /\ \A k \in 1 .. Len(announced) : f[k] = announced[k]
  BY <1>1, AppendProperties
<1>3. /\ Len(t) = Len(announced) + 1 /\ t[Len(announced) + 1] = TRUE
      /\ \A k \in 1 .. Len(announced) : t[k] = announced[k]
  BY <1>1, AppendProperties
<1> HIDE DEF f, t
<1>4. m.kind = "FTKN" => Longer(announced, f, m)
  BY <1>2 DEF Longer
<1>5. m.kind = "FIDL" => Longer(announced, t, m)
  BY <1>3 DEF Longer
<1> QED
  BY <1>4, <1>5 DEF f, t

LEMMA OneFrame ==
  ASSUME NEW kind \in AllKinds, NEW c \in Bots
  PROVE  /\ <<Message(kind, c)>> \in Seq(AllMessages)
         /\ Message(kind, c).kind = kind
         /\ kind \in {"FTKN", "FIDL"} => /\ Message(kind, c) \in Announcements
                                         /\ Sift(<<Message(kind, c)>>, Announcements) = <<Message(kind, c)>>
         /\ kind \notin {"FTKN", "FIDL"} => Sift(<<Message(kind, c)>>, Announcements) = <<>>
<1> DEFINE m == Message(kind, c)
<1>1. m \in AllMessages /\ m.kind = kind
  BY MessageType DEF AllMessages, Message
<1>2. kind \in {"FTKN", "FIDL"} => m \in Announcements
  BY MessageType DEF Announcements
<1>3. kind \notin {"FTKN", "FIDL"} => m \notin Announcements
  BY <1>1 DEF Announcements, Messages
<1> HIDE DEF m
<1>4. <<m>> \in Seq(AllMessages)
  BY <1>1
<1>5. Sift(<<m>>, Announcements) = IF m \in Announcements THEN <<m>> ELSE <<>>
  BY SiftOne
<1> QED
  BY <1>1, <1>2, <1>3, <1>4, <1>5 DEF m

LEMMA TwoFrames ==
  ASSUME NEW kind \in AllKinds, NEW other \in AllKinds, NEW c \in Bots, kind \notin {"FTKN", "FIDL"}
  PROVE  /\ <<Message(kind, c), Message(other, c)>> \in Seq(AllMessages)
         /\ Sift(<<Message(kind, c), Message(other, c)>>, Announcements)
              = Sift(<<Message(other, c)>>, Announcements)
<1> DEFINE x == Message(kind, c)
           y == Message(other, c)
           one == <<x>>
           two == <<y>>
<1>1. one \in Seq(AllMessages) /\ two \in Seq(AllMessages) /\ Sift(one, Announcements) = <<>>
  BY OneFrame
<1>2. <<x, y>> = one \o two
  OBVIOUS
<1> HIDE DEF one, two
<1>7. one \in Seq(AllMessages) /\ two \in Seq(AllMessages)
  BY <1>1
<1>3. Sift(one \o two, Announcements) = Sift(one, Announcements) \o Sift(two, Announcements)
  BY <1>7, SiftConcat
<1>4. Sift(two, Announcements) \in Seq(AllMessages \cap Announcements)
  BY <1>1, SiftType
<1> DEFINE z == Sift(two, Announcements)
<1>5. <<>> \o z = z
  <2> HIDE DEF z
  <2> QED
    BY <1>4, ConcatEmptySeq DEF z
<1>6. one \o two \in Seq(AllMessages)
  BY <1>1, ConcatProperties
<1> QED
  BY <1>1, <1>2, <1>3, <1>5, <1>6 DEF two

\* What reaches a bot that is there: no announcement, or the one just made.
Nothing(more) == more \in Seq(AllMessages) /\ Sift(more, Announcements) = <<>> /\ UNCHANGED announced
News(more) ==
  \E m \in Announcements :
    more \in Seq(AllMessages) /\ Sift(more, Announcements) = <<m>> /\ Longer(announced, announced', m)

LEMMA ViewSent ==
  ASSUME TypeInv, TypeInv', ViewInv, UNCHANGED <<batch, session, flag, stores, obs>>,
         left \subseteq left',
         \A b \in Present' : \E more : (Nothing(more) \/ News(more)) /\ ws'[b] = ws[b] \o more
  PROVE  ViewInv'
<1> SUFFICES ASSUME NEW b \in Listeners \cap Present' PROVE View(b)'
  BY DEF ViewInv, Listeners
<1>1. b \in Bots /\ View(b)
  BY DEF ViewInv, Present, Listeners
<1>2. PICK more : (Nothing(more) \/ News(more)) /\ ws'[b] = ws[b] \o more
  OBVIOUS
<1> DEFINE t == Sift(batch[b], Announcements)
           f == Sift(floor_mbcp_buf[b], Announcements)
           w == Sift(ws[b], Announcements)
           tf == t \o f
<1>3. /\ Pending(b) = tf \o w /\ t \in Seq(Announcements) /\ f \in Seq(Announcements)
      /\ w \in Seq(Announcements)
  BY <1>1, PendingParts
<1>4. Pending(b)' = tf \o Sift(ws'[b], Announcements)
  BY <1>1, PendingPartsNext DEF session
<1>5. Sift(ws'[b], Announcements) = w \o Sift(more, Announcements)
  BY <1>1, <1>2, WireGrows DEF Nothing, News
<1>6. tf \in Seq(Announcements)
  BY <1>3, ConcatProperties
<1> HIDE DEF t, f, w, tf
<1>7. CASE Nothing(more)
  <2>1. w \o <<>> = w
    BY <1>3, ConcatEmptySeq
  <2>2. Pending(b)' = Pending(b)
    BY <1>3, <1>4, <1>5, <1>7, <2>1 DEF Nothing
  <2> QED
    BY <1>1, <1>7, <2>2, ViewSame DEF Nothing
<1>8. CASE News(more)
  <2>1. PICK m \in Announcements : Sift(more, Announcements) = <<m>> /\ Longer(announced, announced', m)
    BY <1>8 DEF News
  <2>2. w \o <<m>> = Append(w, m)
    BY <1>3, AppendIsConcat
  <2>3. tf \o Append(w, m) = Append(tf \o w, m)
    BY <1>3, <1>6, ConcatAppend
  <2>4. Pending(b)' = Append(Pending(b), m)
    BY <1>3, <1>4, <1>5, <2>1, <2>2, <2>3
  <2> QED
    BY <1>1, <2>1, <2>4, ViewLater
<1> QED
  BY <1>2, <1>7, <1>8

LEMMA AllKindsAre ==
  AllKinds = {"FTKN", "FIDL", "FRVK", "add", "remove", "leave", "ack", "nack"}
BY DEF AllKinds, FloorKinds, EventKinds, TrackKinds, AnswerKinds

LEMMA NothingSent == UNCHANGED announced => Nothing(<<>>)
BY EmptySeq, SiftEmpty DEF Nothing

LEMMA SilentSent ==
  ASSUME NEW kind \in AllKinds, NEW c \in Bots, kind \notin {"FTKN", "FIDL"}, UNCHANGED announced
  PROVE  Nothing(<<Message(kind, c)>>)
BY OneFrame DEF Nothing

LEMMA NewsSent ==
  ASSUME TypeInv, NEW c \in Bots, NEW kind \in {"FTKN", "FIDL"},
         \/ kind = "FTKN" /\ announced' = Append(announced, FALSE)
         \/ kind = "FIDL" /\ announced' = Append(announced, TRUE)
  PROVE  /\ News(<<Message(kind, c)>>)
         /\ \A other \in AllKinds \ {"FTKN", "FIDL"} : News(<<Message(other, c), Message(kind, c)>>)
<1> DEFINE m == Message(kind, c)
<1>1. kind \in AllKinds
  BY AllKindsAre
<1>2. <<m>> \in Seq(AllMessages) /\ m \in Announcements /\ m.kind = kind /\ Sift(<<m>>, Announcements) = <<m>>
  BY <1>1, OneFrame
<1>3. Longer(announced, announced', m)
  BY <1>2, AnnounceLonger
<1>4. \A other \in AllKinds \ {"FTKN", "FIDL"} :
          /\ <<Message(other, c), m>> \in Seq(AllMessages)
          /\ Sift(<<Message(other, c), m>>, Announcements) = <<m>>
  BY <1>1, <1>2, TwoFrames
<1> QED
  BY <1>2, <1>3, <1>4 DEF News

LEMMA SfuView ==
  ASSUME TypeInv, TypeInv', ViewInv, NEW b \in Bots,
         \/ Publish(b) \/ SfuFloorRequest(b) \/ SfuFloorRelease(b) \/ SfuFloorRevoke
         \/ SfuTracksReady(b)
  PROVE  ViewInv'
<1>1. UNCHANGED <<left, batch, session, flag, stores, obs>>
  BY DEF Publish, SfuFloorRequest, SfuFloorRelease, SfuFloorRevoke, SfuTracksReady
<1> DEFINE Hears(c) == \E more : (Nothing(more) \/ News(more)) /\ ws'[c] = ws[c] \o more
<1>2. \A c \in Bots : ws[c] \o <<>> = ws[c]
  BY WireType, ConcatEmptySeq
<1> SUFFICES ASSUME NEW c \in Present PROVE Hears(c)
  BY <1>1, ViewSent DEF Present
<1>3. c \in Bots
  BY DEF Present
<1>4. CASE UNCHANGED <<ws, announced>>
  BY <1>2, <1>3, <1>4, NothingSent
<1>5. CASE Publish(b)
  <2>1. "add" \in FloorKinds \cup TrackKinds \cup {"leave"}
    BY DEF TrackKinds
  <2>2. UNCHANGED announced /\ Broadcast(Present \ {b}, Message("add", b))
    BY <1>5 DEF Publish
  <2>3. ws'[c] = ws[c] \o <<Message("add", b)>> \/ ws'[c] = ws[c] \o <<>>
    BY <1>3, <2>1, <2>2, BroadcastSends
  <2>4. Nothing(<<Message("add", b)>>) /\ Nothing(<<>>)
    BY <2>2, AllKindsAre, SilentSent, NothingSent
  <2> QED
    BY <2>3, <2>4
<1>6. ASSUME NEW kind \in {"FTKN", "FIDL"}, Broadcast(Present, Message(kind, b)),
             \/ kind = "FTKN" /\ announced' = Append(announced, FALSE)
             \/ kind = "FIDL" /\ announced' = Append(announced, TRUE)
      PROVE  Hears(c)
  <2>1. kind \in FloorKinds \cup TrackKinds \cup {"leave"}
    BY DEF FloorKinds
  <2>2. ws'[c] = ws[c] \o <<Message(kind, b)>>
    BY <1>3, <1>6, <2>1, BroadcastSends
  <2>3. News(<<Message(kind, b)>>)
    BY <1>6, NewsSent
  <2> QED
    BY <2>2, <2>3
<1>7. CASE SfuFloorRequest(b)
  BY <1>4, <1>6, <1>7 DEF SfuFloorRequest
<1>8. CASE SfuFloorRelease(b)
  BY <1>4, <1>6, <1>8 DEF SfuFloorRelease
<1>9. CASE SfuFloorRevoke
  <2>1. /\ holder \in Bots
        /\ \/ ws'[c] = ws[c] \o <<Message("FIDL", holder)>>
           \/ ws'[c] = ws[c] \o <<Message("FRVK", c), Message("FIDL", c)>>
    BY <1>3, <1>9, RevokeSends
  <2>2. announced' = Append(announced, TRUE) /\ "FRVK" \in AllKinds \ {"FTKN", "FIDL"}
    BY <1>9, AllKindsAre DEF SfuFloorRevoke
  <2>3. News(<<Message("FIDL", holder)>>) /\ News(<<Message("FRVK", c), Message("FIDL", c)>>)
    BY <1>3, <2>1, <2>2, NewsSent
  <2> QED
    BY <2>1, <2>3
<1>10. CASE SfuTracksReady(b)
  <2>1. UNCHANGED announced
    BY <1>10 DEF SfuTracksReady
  <2>2. ASSUME NEW kind \in AnswerKinds PROVE Nothing(<<Message(kind, b)>>)
    BY <2>1, AllKindsAre, SilentSent DEF AnswerKinds
  <2>3. ASSUME NEW m \in Answers PROVE Nothing(<<m>>)
    <3>1. m = Message(m.kind, m.bot) /\ m.kind \in {"ack", "nack"} /\ m.bot \in Bots
      BY DEF Answers, Messages, Message, AnswerKinds
    <3>2. m.kind \in AllKinds /\ m.kind \notin {"FTKN", "FIDL"}
      BY <3>1, AllKindsAre
    <3>3. Nothing(<<Message(m.kind, m.bot)>>)
      BY <2>1, <3>1, <3>2, SilentSent
    <3> QED
      BY <3>1, <3>3
  <2>4. (\E m \in Answers : ws'[c] = ws[c] \o <<m>>) \/ ws'[c] = ws[c] \o <<>>
    BY <1>2, <1>3, <1>10, ReadySends
  <2> QED
    BY <2>1, <2>3, <2>4, NothingSent
<1> QED
  BY <1>5, <1>7, <1>8, <1>9, <1>10

LEMMA KillView ==
  ASSUME TypeInv, TypeInv', ViewInv, NEW c \in Bots, KillBot(c)
  PROVE  ViewInv'
<1>1. /\ UNCHANGED <<batch, session, flag, stores, obs>> /\ left' = left \cup {c}
      /\ announced' = IF holder = c THEN Append(announced, TRUE) ELSE announced
  BY DEF KillBot
<1> DEFINE more == Gone(c) \o Freed(c)
<1> SUFFICES ASSUME NEW b \in Present \ {c} PROVE (Nothing(more) \/ News(more)) /\ ws'[b] = ws[b] \o more
  BY <1>1, ViewSent DEF Present
<1>2. ws'[b] = ws[b] \o more
  BY KillSends DEF Present
<1> DEFINE g == Gone(c)
<1>3. g \in Seq(AllMessages) /\ Sift(g, Announcements) = <<>>
  <2>1. /\ "remove" \in AllKinds /\ "remove" \notin {"FTKN", "FIDL"}
        /\ "leave" \in AllKinds /\ "leave" \notin {"FTKN", "FIDL"}
    BY AllKindsAre
  <2>2. Sift(<<Message("leave", c)>>, Announcements) = <<>>
    BY <2>1, OneFrame
  <2>3. g = <<Message("remove", c), Message("leave", c)>>
    BY DEF Gone
  <2> HIDE DEF g
  <2>4. /\ <<Message("remove", c), Message("leave", c)>> \in Seq(AllMessages)
        /\ Sift(<<Message("remove", c), Message("leave", c)>>, Announcements)
             = Sift(<<Message("leave", c)>>, Announcements)
    BY <2>1, TwoFrames
  <2> QED
    BY <2>2, <2>3, <2>4
<1>4. CASE holder # c
  <2>1. Freed(c) = <<>> /\ UNCHANGED announced
    BY <1>1, <1>4 DEF Freed
  <2> HIDE DEF g
  <2>2. g \o <<>> = g
    BY <1>3, ConcatEmptySeq
  <2> QED
    BY <1>2, <1>3, <2>1, <2>2 DEF Nothing, g
<1>5. CASE holder = c
  <2> DEFINE f == <<Message("FIDL", c)>>
  <2>1. Freed(c) = f /\ announced' = Append(announced, TRUE)
    BY <1>1, <1>5 DEF Freed
  <2>2. News(f)
    BY <2>1, NewsSent
  <2> HIDE DEF g, f
  <2>3. PICK m \in Announcements :
          f \in Seq(AllMessages) /\ Sift(f, Announcements) = <<m>> /\ Longer(announced, announced', m)
    BY <2>2 DEF News
  <2>4. g \in Seq(AllMessages) /\ f \in Seq(AllMessages)
    BY <1>3, <2>3
  <2>5. Sift(g \o f, Announcements) = Sift(g, Announcements) \o Sift(f, Announcements)
    BY <2>4, SiftConcat
  <2>6. g \o f \in Seq(AllMessages)
    BY <2>4, ConcatProperties
  <2>7. Sift(g \o f, Announcements) = <<m>>
    BY <1>3, <2>3, <2>5, ConcatEmptySeq
  <2>8. News(g \o f)
    BY <2>3, <2>6, <2>7 DEF News
  <2> QED
    BY <1>2, <2>1, <2>8 DEF g
<1> QED
  BY <1>4, <1>5

\* The steps of one bot: what the others know is left alone.
LEMMA OtherViews ==
  ASSUME TypeInv, TypeInv', ViewInv, NEW b \in Bots, UNCHANGED <<left, announced>>,
         \A c \in Bots \ {b} : /\ batch'[c] = batch[c] /\ floor_mbcp_buf'[c] = floor_mbcp_buf[c]
                               /\ ws'[c] = ws[c] /\ flag'[c] = flag[c]
                               /\ stores'[c] = stores[c] /\ obs'[c] = obs[c],
         b \in Listeners \cap Present => View(b)'
  PROVE  ViewInv'
<1> SUFFICES ASSUME NEW c \in (Listeners \cap Present) \ {b} PROVE View(c)'
  BY DEF ViewInv, Listeners, Present
<1>1. c \in Bots \ {b} /\ View(c)
  BY DEF ViewInv, Listeners
<1>2. Pending(c)' = Pending(c)
  BY <1>1, PendingParts, PendingPartsNext
<1>3. Seen(c)' = Seen(c) /\ FidlRest' = FidlRest /\ FtknRest' = FtknRest /\ FtknLast' = FtknLast
  BY <1>2 DEF Seen, FidlRest, FtknRest, FtknLast, Store
<1>4. Behind(announced, Pending(c))'
  BY <1>1, <1>2 DEF View, Behind
<1>5. Tells(c)'
  BY <1>1, <1>3 DEF View, Tells, Knows, Agrees, Follows, Recalls, Judges,
         Released, IdleAsOf, ReleasedAsOf, TurnSeen, Heard
<1> QED
  BY <1>4, <1>5 DEF View

\* A poll moves the announcements from the wire to the buffer.
LEMMA PollKeepsAnnouncements ==
  ASSUME TypeInv, NEW b \in Bots, NEW n, Poll(b, n), batch[b] = <<>>
  PROVE  /\ Sift(FloorAfterPoll(b, n), Announcements) \o Sift(ws'[b], Announcements) = Pending(b)
         /\ Sift(FloorAfterPoll(b, n), Announcements) \in Seq(Announcements)
         /\ Sift(ws'[b], Announcements) \in Seq(Announcements)
<1> DEFINE f == floor_mbcp_buf[b]
           first == SubSeq(ws[b], 1, n)
           rest == ws'[b]
           p == FloorPart(first)
<1>1. f \in Seq(Messages(FloorKinds)) /\ first \in Seq(AllMessages) /\ rest \in Seq(AllMessages)
  BY WireType, PollType
<1>2. Sift(first, Announcements) \o Sift(rest, Announcements) = Sift(ws[b], Announcements)
  BY PollSifts
<1>3. Pending(b) = <<>> \o Sift(f, Announcements) \o Sift(ws[b], Announcements)
  BY PendingParts, SiftEmpty
<1>4. FloorAfterPoll(b, n) = f \o p
  BY DEF FloorAfterPoll
<1>5. /\ Messages(FloorKinds) \cap Announcements = Announcements
      /\ AllMessages \cap Announcements = Announcements
  <2>1. /\ FloorKinds \cap {"FTKN", "FIDL"} = {"FTKN", "FIDL"}
        /\ AllKinds \cap {"FTKN", "FIDL"} = {"FTKN", "FIDL"}
    BY DEF AllKinds, FloorKinds
  <2> QED
    BY <2>1, MessagesMeet DEF AllMessages, Announcements
<1> HIDE DEF f, first, rest
<1>6. p \in Seq(Messages(FloorKinds))
  BY <1>1, Sorted
<1>7. Sift(p, Announcements) = Sift(first, Announcements)
  <2>1. Sift(Sift(first, Messages(FloorKinds)), Announcements)
          = Sift(first, Messages(FloorKinds) \cap Announcements)
    BY <1>1, SiftSift
  <2> QED
    BY <1>5, <2>1 DEF FloorPart
<1> HIDE DEF p
<1>8. Sift(f \o p, Announcements) = Sift(f, Announcements) \o Sift(p, Announcements)
  BY <1>1, <1>6, SiftConcat
<1> DEFINE x == Sift(f, Announcements)
           y == Sift(p, Announcements)
           z == Sift(rest, Announcements)
<1>9. x \in Seq(Announcements) /\ y \in Seq(Announcements) /\ z \in Seq(Announcements)
  BY <1>1, <1>5, <1>6, SiftType
<1>10. /\ Sift(f \o p, Announcements) = x \o y /\ y \o z = Sift(ws[b], Announcements)
       /\ Pending(b) = <<>> \o x \o Sift(ws[b], Announcements)
  BY <1>2, <1>3, <1>7, <1>8
<1> HIDE DEF x, y, z
<1>11. (x \o y) \o z = x \o (y \o z) /\ <<>> \o x = x /\ x \o y \in Seq(Announcements)
  BY <1>9, ConcatAssociative, ConcatEmptySeq, ConcatProperties
<1> QED
  BY <1>4, <1>9, <1>10, <1>11 DEF z, rest

\* A requester waits for the floor: no listener does.
LEMMA AwaitView ==
  ASSUME TypeInv, TypeInv', ViewInv, NEW b \in Bots, NEW n, AwaitFloorTaken(b, n)
  PROVE  ViewInv'
<1>1. pc[b] = "await" /\ Poll(b, n) /\ UNCHANGED <<left, announced, batch, stores, obs>>
  BY DEF AwaitFloorTaken, sfu
<1>2. b \notin Listeners
  BY <1>1 DEF TypeInv, TurnOK, Listeners
<1>3. \A c \in Bots \ {b} : ws'[c] = ws[c]
  BY <1>1, PollType
<1>4. \A c \in Bots \ {b} : floor_mbcp_buf'[c] = floor_mbcp_buf[c]
  <2>1. floor_mbcp_buf' = [floor_mbcp_buf EXCEPT ![b] = <<>>]
    BY DEF AwaitFloorTaken
  <2>2. floor_mbcp_buf \in [Bots -> Seq(Messages(FloorKinds))]
    BY DEF TypeInv, TypeOK, SessionOK
  <2> QED
    BY <2>1, <2>2
<1>5. \A c \in Bots \ {b} : flag'[c] = flag[c]
  <2>1. flag' = flag \/ flag' = [flag EXCEPT ![b].floor_idle = FALSE]
    BY DEF AwaitFloorTaken
  <2>2. flag \in [Bots -> [Flags -> BOOLEAN]]
    BY DEF TypeInv, TypeOK, RecvOK
  <2> QED
    BY <2>1, <2>2
<1> QED
  BY <1>1, <1>2, <1>3, <1>4, <1>5, OtherViews

LEMMA EventsView ==
  ASSUME TypeInv, TypeInv', ViewInv, NEW b \in Bots, NEW n, ProcessEvents(b, n)
  PROVE  ViewInv'
<1>1. /\ pc[b] = "idle" /\ Poll(b, n) /\ UNCHANGED <<left, announced, flag, stores, obs>>
      /\ \/ /\ floor_mbcp_buf' = [floor_mbcp_buf EXCEPT ![b] = FloorAfterPoll(b, n)]
            /\ UNCHANGED batch
         \/ /\ batch' = [batch EXCEPT ![b] = FloorAfterPoll(b, n)]
            /\ floor_mbcp_buf' = [floor_mbcp_buf EXCEPT ![b] = <<>>]
  BY DEF ProcessEvents, EngineFree, sfu
<1>2. /\ batch \in [Bots -> Seq(Messages(FloorKinds))] /\ batch[b] = <<>>
      /\ floor_mbcp_buf \in [Bots -> Seq(Messages(FloorKinds))]
  BY <1>1 DEF TypeInv, TypeOK, SessionOK, TurnOK
<1>3. \A c \in Bots \ {b} : /\ batch'[c] = batch[c] /\ floor_mbcp_buf'[c] = floor_mbcp_buf[c]
                            /\ ws'[c] = ws[c]
  BY <1>1, <1>2, PollType
<1> DEFINE x == Sift(FloorAfterPoll(b, n), Announcements)
           z == Sift(ws'[b], Announcements)
<1>4. x \o z = Pending(b) /\ x \in Seq(Announcements) /\ z \in Seq(Announcements)
  BY <1>1, <1>2, PollKeepsAnnouncements
<1>5. Pending(b)' = <<>> \o x \o z \/ Pending(b)' = x \o <<>> \o z
  BY <1>1, <1>2, PendingPartsNext, SiftEmpty
<1> HIDE DEF x, z
<1>6. <<>> \o x = x /\ x \o <<>> = x
  BY <1>4, ConcatEmptySeq
<1>7. Pending(b)' = Pending(b)
  BY <1>4, <1>5, <1>6
<1>8. b \in Listeners \cap Present => View(b)'
  BY <1>1, <1>7, ViewSame DEF ViewInv
<1> QED
  BY <1>1, <1>3, <1>8, OtherViews

LEMMA AnsweredView ==
  ASSUME TypeInv, TypeInv', ViewInv, NEW b \in Bots, AwaitTracksReady(b)
  PROVE  ViewInv'
<1>1. pc[b] = "ready" /\ Poll(b, 1) /\ UNCHANGED <<left, announced, stores, obs>>
  BY DEF AwaitTracksReady, sfu
<1>2. /\ batch \in [Bots -> Seq(Messages(FloorKinds))] /\ batch[b] = <<>>
      /\ floor_mbcp_buf \in [Bots -> Seq(Messages(FloorKinds))]
      /\ flag \in [Bots -> [Flags -> BOOLEAN]]
  BY <1>1 DEF TypeInv, TypeOK, SessionOK, RecvOK, TurnOK
<1>3. \A c \in Bots \ {b} : /\ batch'[c] = batch[c] /\ floor_mbcp_buf'[c] = floor_mbcp_buf[c]
                            /\ ws'[c] = ws[c] /\ flag'[c] = flag[c]
  BY <1>1, <1>2, PollType DEF AwaitTracksReady
<1>4. CASE IsResponse(Head(ws[b]))
  <2>1. /\ batch'[b] = floor_mbcp_buf[b] /\ floor_mbcp_buf'[b] = <<>>
        /\ flag' = [flag EXCEPT ![b].ack_sent = TRUE]
    BY <1>2, <1>4 DEF AwaitTracksReady
  <2> DEFINE a == Head(ws[b])
             one == <<a>>
             x == Sift(floor_mbcp_buf[b], Announcements)
             z == Sift(ws'[b], Announcements)
  <2>2. a \in Answers /\ SubSeq(ws[b], 1, 1) = one
    BY <1>4, AnswerTaken
  <2>3. Sift(SubSeq(ws[b], 1, 1), Announcements) \o z = Sift(ws[b], Announcements)
    BY <1>1, PollSifts
  <2>4. z \in Seq(AllMessages \cap Announcements) /\ x \in Seq(Announcements)
    BY <1>1, PollType, PendingParts, SiftType
  <2>5. Sift(ws[b], Announcements) \in Seq(Announcements)
    BY PendingParts
  <2>6. Pending(b) = <<>> \o x \o Sift(ws[b], Announcements)
    BY <1>2, PendingParts, SiftEmpty
  <2>7. Pending(b)' = x \o <<>> \o z
    BY <2>1, PendingPartsNext, SiftEmpty
  <2> HIDE DEF a
  <2>8. Sift(one, Announcements) = <<>>
    <3>1. a = Message(a.kind, a.bot) /\ a.kind \in {"ack", "nack"} /\ a.bot \in Bots
      BY <2>2 DEF Answers, Messages, Message, AnswerKinds
    <3>2. a.kind \in AllKinds /\ a.kind \notin {"FTKN", "FIDL"}
      BY <3>1, AllKindsAre
    <3>3. Sift(<<Message(a.kind, a.bot)>>, Announcements) = <<>>
      BY <3>1, <3>2, OneFrame
    <3> QED
      BY <3>1, <3>3
  <2> HIDE DEF one, x, z
  <2>9. <<>> \o z = z /\ <<>> \o x = x /\ x \o <<>> = x
    BY <2>4, ConcatEmptySeq
  <2>10. Pending(b)' = Pending(b)
    BY <2>2, <2>3, <2>6, <2>7, <2>8, <2>9
  <2>11. b \in Listeners \cap Present => View(b)'
    <3>1. ASSUME b \in Listeners \cap Present PROVE View(b)'
      <4>1. View(b)
        BY <3>1 DEF ViewInv
      <4>2. /\ flag'[b].floor_idle = flag[b].floor_idle
            /\ flag'[b].floor_just_released = flag[b].floor_just_released
            /\ flag'[b].speaker_just_changed = flag[b].speaker_just_changed
        BY <1>2, <2>1 DEF Flags
      <4>3. Seen(b)' = Seen(b) /\ FidlRest' = FidlRest /\ FtknRest' = FtknRest /\ FtknLast' = FtknLast
        BY <1>1, <2>10 DEF Seen, FidlRest, FtknRest, FtknLast, Store
      <4>4. Behind(announced, Pending(b))'
        BY <1>1, <2>10, <4>1 DEF View, Behind
      <4>5. Tells(b)'
        BY <1>1, <4>1, <4>2, <4>3 DEF View, Tells, Knows, Agrees, Follows, Recalls, Judges,
         Released, IdleAsOf, ReleasedAsOf, TurnSeen, Heard
      <4> QED
        BY <4>4, <4>5 DEF View
    <3> QED
      BY <3>1
  <2> QED
    BY <1>1, <1>3, <2>11, OtherViews
<1>5. CASE ~IsResponse(Head(ws[b]))
  <2>1. floor_mbcp_buf'[b] = FloorAfterPoll(b, 1) /\ UNCHANGED <<batch, flag>>
    BY <1>2, <1>5 DEF AwaitTracksReady
  <2> DEFINE x == Sift(FloorAfterPoll(b, 1), Announcements)
             z == Sift(ws'[b], Announcements)
  <2>2. x \o z = Pending(b) /\ x \in Seq(Announcements)
    BY <1>1, <1>2, PollKeepsAnnouncements
  <2>3. Pending(b)' = <<>> \o x \o z
    BY <1>2, <2>1, PendingPartsNext, SiftEmpty
  <2> HIDE DEF x, z
  <2>4. <<>> \o x = x
    BY <2>2, ConcatEmptySeq
  <2>5. Pending(b)' = Pending(b)
    BY <2>2, <2>3, <2>4
  <2>6. b \in Listeners \cap Present => View(b)'
    BY <1>1, <2>1, <2>5, ViewSame DEF ViewInv
  <2> QED
    BY <1>1, <1>3, <2>6, OtherViews
<1> QED
  BY <1>4, <1>5

\* Of the floor messages of a turn, the first is now being processed.
LEMMA HeadProcessed ==
  ASSUME TypeInv, TypeInv', NEW b \in Bots, batch[b] # <<>>, batch'[b] = Tail(batch[b]),
         UNCHANGED <<floor_mbcp_buf, ws>>
  PROVE  /\ Head(batch[b]).kind \in FloorKinds
         /\ Head(batch[b]).kind = "FRVK" => Pending(b)' = Pending(b)
         /\ Head(batch[b]).kind # "FRVK" =>
              /\ Head(batch[b]) \in Announcements
              /\ Pending(b) = <<Head(batch[b])>> \o Pending(b)'
              /\ Pending(b)' \in Seq(Announcements)
<1> DEFINE t == batch[b]
           m == Head(t)
           x == Sift(Tail(t), Announcements)
           f == Sift(floor_mbcp_buf[b], Announcements)
           w == Sift(ws[b], Announcements)
<1>1. t \in Seq(Messages(FloorKinds)) /\ t # <<>>
  BY WireType
<1>2. Pending(b) = Sift(t, Announcements) \o f \o w /\ f \in Seq(Announcements) /\ w \in Seq(Announcements)
  BY PendingParts
<1>3. Pending(b)' = x \o f \o w
  BY PendingPartsNext
<1> HIDE DEF t
<1>4. m \in Messages(FloorKinds) /\ Tail(t) \in Seq(Messages(FloorKinds))
  BY <1>1, HeadAndTail
<1>5. /\ m \in Announcements => Sift(t, Announcements) = <<m>> \o x
      /\ m \notin Announcements => Sift(t, Announcements) = x
  BY <1>1, SiftHead
<1>6. m.kind \in FloorKinds /\ (m.kind # "FRVK" <=> m \in Announcements)
  <2> HIDE DEF m
  <2> QED
    BY <1>4 DEF Messages, Announcements, FloorKinds
<1>7. x \in Seq(Announcements)
  <2>1. Messages(FloorKinds) \cap Announcements = Announcements
    <3>1. FloorKinds \cap {"FTKN", "FIDL"} = {"FTKN", "FIDL"}
      BY DEF FloorKinds
    <3> QED
      BY <3>1, MessagesMeet DEF Announcements
  <2> QED
    BY <1>4, <2>1, SiftType
<1>8. ASSUME m \in Announcements
      PROVE  (<<m>> \o x) \o f \o w = <<m>> \o (x \o f \o w) /\ x \o f \o w \in Seq(Announcements)
  <2> DEFINE one == <<m>>
             xf == x \o f
             ox == one \o x
  <2>1. one \in Seq(Announcements)
    BY <1>8
  <2> HIDE DEF one, x, f, w
  <2>2. ox \o f = one \o xf /\ xf \in Seq(Announcements) /\ ox \in Seq(Announcements)
    BY <1>2, <1>7, <2>1, ConcatAssociative, ConcatProperties
  <2>3. w \in Seq(Announcements)
    BY <1>2
  <2> HIDE DEF xf, ox
  <2>4. (one \o xf) \o w = one \o (xf \o w) /\ xf \o w \in Seq(Announcements)
    BY <2>1, <2>2, <2>3, ConcatAssociative, ConcatProperties
  <2>5. ox \o f \o w = one \o (xf \o w)
    BY <2>2, <2>4
  <2> QED
    BY <2>4, <2>5 DEF one, xf, ox
<1> HIDE DEF m, x, f, w
<1>9. m.kind = "FRVK" => Pending(b)' = Pending(b)
  BY <1>2, <1>3, <1>5, <1>6
<1>10. m.kind # "FRVK" =>
         m \in Announcements /\ Pending(b) = <<m>> \o Pending(b)' /\ Pending(b)' \in Seq(Announcements)
  BY <1>2, <1>3, <1>5, <1>6, <1>8
<1> QED
  BY <1>6, <1>9, <1>10 DEF m, t

\* An announcement is processed: its first store makes the view that of the
\* announcement, and the stores left to do will make the released flag agree.
LEMMA AnnouncementStored ==
  ASSUME TypeInv, NEW b \in Bots, View(b), NEW m \in Announcements,
         Pending(b) = <<m>> \o Pending(b)', Pending(b)' \in Seq(Announcements),
         UNCHANGED <<announced, obs>>, stores[b] = <<>>,
         flag'[b] = [flag[b] EXCEPT !["floor_idle"] = (m.kind = "FIDL")],
         stores'[b] = IF m.kind = "FIDL" THEN FidlRest ELSE FtknRest
  PROVE  View(b)'
<1> DEFINE q == Pending(b)'
           s == Seen(b)
<1>1. /\ announced \in Seq(BOOLEAN) /\ Behind(announced, <<m>> \o q) /\ q \in Seq(Announcements)
  BY PendingParts DEF View
<1>2. s = Len(announced) - Len(<<m>> \o q) /\ Seen(b)' = Len(announced) - Len(q)
  BY DEF Seen
<1> HIDE DEF q
<1>3. /\ Behind(announced, q)
      /\ Len(announced) - Len(q) = (Len(announced) - Len(<<m>> \o q)) + 1
      /\ Len(announced) - Len(q) \in 1 .. Len(announced)
      /\ announced[Len(announced) - Len(q)] = (m.kind = "FIDL")
  BY <1>1, BehindOne
<1>4. Seen(b)' = s + 1 /\ s + 1 \in 1 .. Len(announced) /\ announced[s + 1] = (m.kind = "FIDL")
  BY <1>2, <1>3
<1>5. s \in Nat
  <2>1. Len(announced) \in Nat
    BY <1>1, LenProperties
  <2>2. s \in Int
    <3>1. Len(<<m>> \o q) = Len(q) + 1 /\ Len(q) \in Nat
      BY <1>1, Cons, LenProperties
    <3> QED
      BY <1>2, <2>1, <3>1
  <2> HIDE DEF s
  <2> QED
    BY <1>4, <2>1, <2>2
<1> HIDE DEF s
<1>6. Behind(announced, Pending(b))'
  BY <1>3 DEF Behind, q
<1>7. /\ IdleAsOf(Seen(b))' = (m.kind = "FIDL")
      /\ Seen(b)' > 0
  <2>1. Seen(b)' # 0 /\ Seen(b)' > 0
    BY <1>4, <1>5
  <2>2. IdleAsOf(Seen(b))' = announced[Seen(b)']
    <3>1. announced' = announced
      OBVIOUS
    <3> QED
      BY <2>1, <3>1 DEF IdleAsOf
  <2> QED
    BY <1>4, <2>1, <2>2
<1>8. /\ Heard(s) => Heard(Seen(b))'
      /\ m.kind # "FIDL" => Heard(Seen(b))'
      /\ stores'[b] # <<>> /\ stores[b] = <<>> /\ TurnSeen(b)' => TurnSeen(b)
      /\ ReleasedAsOf(Seen(b) - 1)' <=> ReleasedAsOf(s)
  <2>1. \A i \in 1 .. s : i \in 1 .. s + 1
    BY <1>5
  <2>2. s + 1 \in 1 .. s + 1
    BY <1>5
  <2>3. \A i \in 1 .. s + 1 : i < s + 1 => i \in 1 .. s
    BY <1>5
  <2>4. (s + 1) - 1 = s
    BY <1>5
  <2>5. stores'[b] # <<>> /\ stores[b] = <<>> /\ TurnSeen(b)' => TurnSeen(b)
    BY <1>4, <2>3 DEF TurnSeen, s
  <2>6. ReleasedAsOf(Seen(b) - 1)' <=> ReleasedAsOf(s)
    BY <1>4, <2>4 DEF ReleasedAsOf
  <2> QED
    BY <1>4, <2>1, <2>2, <2>5, <2>6 DEF Heard
<1>9. flag[b] \in [Flags -> BOOLEAN]
  BY DEF TypeInv, TypeOK, RecvOK
<1>10. /\ flag'[b].floor_idle = (m.kind = "FIDL")
       /\ flag'[b].floor_just_released = flag[b].floor_just_released
       /\ flag'[b].speaker_just_changed = flag[b].speaker_just_changed
  BY <1>9 DEF Flags
<1>11. /\ FidlRest' = FidlRest /\ FtknRest' = FtknRest /\ FtknLast' = FtknLast
       /\ FidlRest # <<>> /\ FtknRest # <<>> /\ FtknLast # <<>>
       /\ FtknRest # FidlRest /\ FtknLast # FidlRest /\ FtknRest # FtknLast
  <2>1. FidlRest' = FidlRest /\ FtknRest' = FtknRest /\ FtknLast' = FtknLast
    BY DEF FidlRest, FtknRest, FtknLast, Store
  <2> QED
    BY <2>1, StoresTuples
<1>12. Knows(b)'
  BY <1>7, <1>10 DEF Knows
<1>13. Agrees(b)'
  BY <1>7, <1>10, <1>11 DEF Agrees, Released
<1>14. Follows(b)'
  <2>1. flag[b].floor_just_released => ReleasedAsOf(s)
    BY <1>5 DEF View, Tells, Agrees, Knows, Released, ReleasedAsOf, IdleAsOf, s
  <2> QED
    BY <1>8, <1>10, <1>11, <2>1 DEF Follows
<1>15. Recalls(b)'
  BY <1>8, <1>10, <1>11 DEF View, Tells, Recalls, s
<1>16. Judges(b)'
  BY <1>8, <1>10, <1>11 DEF View, Tells, Judges
<1> QED
  BY <1>6, <1>12, <1>13, <1>14, <1>15, <1>16 DEF View, Tells

LEMMA ProcessView ==
  ASSUME TypeInv, TypeInv', ViewInv, NEW b \in Bots, ProcessFloor(b)
  PROVE  ViewInv'
<1> DEFINE m == Head(batch[b])
           todo == StoresOf(m.kind)
<1>1. /\ UNCHANGED <<left, announced, ws, floor_mbcp_buf>>
      /\ stores[b] = <<>> /\ batch[b] # <<>> /\ batch' = [batch EXCEPT ![b] = Tail(@)]
      /\ \/ /\ todo # <<>> /\ Apply(b, Head(todo)) /\ UNCHANGED obs
            /\ stores' = [stores EXCEPT ![b] = Tail(todo)]
         \/ /\ todo = <<>> /\ UNCHANGED <<flag, stores>>
            /\ obs' = [obs EXCEPT ![b].floor_revoke = @ \/ m.kind = "FRVK"]
  BY DEF ProcessFloor, sfu, session
<1>2. /\ batch \in [Bots -> Seq(Messages(FloorKinds))] /\ stores \in [Bots -> Rests]
      /\ flag \in [Bots -> [Flags -> BOOLEAN]] /\ obs \in [Bots -> Observations]
  BY DEF TypeInv, TypeOK, SessionOK, RecvOK
<1>3. batch'[b] = Tail(batch[b])
  BY <1>1, <1>2
<1>4. /\ m.kind \in FloorKinds
      /\ m.kind = "FRVK" => Pending(b)' = Pending(b)
      /\ m.kind # "FRVK" => /\ m \in Announcements
                            /\ Pending(b) = <<m>> \o Pending(b)'
                            /\ Pending(b)' \in Seq(Announcements)
  BY <1>1, <1>3, HeadProcessed
<1>5. \A c \in Bots \ {b} : batch'[c] = batch[c]
  BY <1>1, <1>2
<1> HIDE DEF m
<1>6. ASSUME NEW value \in BOOLEAN, NEW rest, value = (m.kind = "FIDL"), m.kind # "FRVK",
             flag' = [flag EXCEPT ![b]["floor_idle"] = value],
             stores' = [stores EXCEPT ![b] = rest],
             rest = IF m.kind = "FIDL" THEN FidlRest ELSE FtknRest, UNCHANGED obs
      PROVE  ViewInv'
  <2>1. "floor_idle" \in Flags
    BY DEF Flags
  <2>2. /\ flag'[b] = [flag[b] EXCEPT !["floor_idle"] = value]
        /\ \A c \in Bots \ {b} : flag'[c] = flag[c]
    BY <1>6, <2>1, FlagType
  <2>3. stores'[b] = rest /\ \A c \in Bots \ {b} : stores'[c] = stores[c]
    BY <1>2, <1>6
  <2>4. b \in Listeners \cap Present => View(b)'
    BY <1>1, <1>4, <1>6, <2>2, <2>3, AnnouncementStored DEF ViewInv
  <2> QED
    BY <1>1, <1>5, <1>6, <2>2, <2>3, <2>4, OtherViews
<1>7. CASE m.kind = "FTKN"
  <2>1. todo = FtknStores
    BY <1>7, StoresOfKinds
  <2>3. /\ Head(todo).name = "floor_idle" /\ Head(todo).value = FALSE
        /\ Tail(todo) = FtknRest /\ todo # <<>>
    BY <2>1, StoresTuples DEF Store
  <2>2. /\ flag' = [flag EXCEPT ![b]["floor_idle"] = FALSE]
        /\ stores' = [stores EXCEPT ![b] = FtknRest] /\ UNCHANGED obs
    <3> HIDE DEF todo
    <3> QED
      BY <1>1, <2>3 DEF Apply
  <2> QED
    BY <1>6, <1>7, <2>2
<1>8. CASE m.kind = "FIDL"
  <2>1. todo = FidlStores
    BY <1>8, StoresOfKinds
  <2>3. /\ Head(todo).name = "floor_idle" /\ Head(todo).value = TRUE
        /\ Tail(todo) = FidlRest /\ todo # <<>>
    BY <2>1, StoresTuples DEF Store
  <2>2. /\ flag' = [flag EXCEPT ![b]["floor_idle"] = TRUE]
        /\ stores' = [stores EXCEPT ![b] = FidlRest] /\ UNCHANGED obs
    <3> HIDE DEF todo
    <3> QED
      BY <1>1, <2>3 DEF Apply
  <2> QED
    BY <1>6, <1>8, <2>2
<1>9. CASE m.kind = "FRVK"
  <2>1. todo = <<>>
    BY <1>9, StoresOfKinds
  <2>2. UNCHANGED <<flag, stores>> /\ obs' = [obs EXCEPT ![b].floor_revoke = @ \/ m.kind = "FRVK"]
    BY <1>1, <2>1
  <2>3. /\ obs'[b].first_video = obs[b].first_video
        /\ \A c \in Bots \ {b} : obs'[c] = obs[c]
    BY <1>2, <2>2 DEF Observations
  <2>4. b \in Listeners \cap Present => View(b)'
    BY <1>1, <1>4, <1>9, <2>2, <2>3, ViewSame DEF ViewInv
  <2> QED
    BY <1>1, <1>5, <2>2, <2>3, <2>4, OtherViews
<1> QED
  BY <1>4, <1>7, <1>8, <1>9 DEF FloorKinds

\* A step that hears nothing: the flags and the records move, Pending does not.
LEMMA ViewFlags ==
  ASSUME TypeInv, TypeInv', ViewInv, NEW b \in Bots,
         UNCHANGED <<left, announced, batch, floor_mbcp_buf, ws>>,
         \A c \in Bots \ {b} : /\ flag'[c] = flag[c] /\ stores'[c] = stores[c]
                               /\ obs'[c] = obs[c],
         ASSUME View(b), Seen(b)' = Seen(b),
                FidlRest' = FidlRest /\ FtknRest' = FtknRest /\ FtknLast' = FtknLast
         PROVE  Tells(b)'
  PROVE  ViewInv'
<1>1. Pending(b)' = Pending(b)
  BY PendingParts, PendingPartsNext
<1>2. Seen(b)' = Seen(b) /\ FidlRest' = FidlRest /\ FtknRest' = FtknRest /\ FtknLast' = FtknLast
  BY <1>1 DEF Seen, FidlRest, FtknRest, FtknLast, Store
<1>3. ASSUME View(b) PROVE View(b)'
  <2>1. Behind(announced, Pending(b))'
    BY <1>1, <1>3 DEF View, Behind
  <2>2. Tells(b)'
    BY <1>2, <1>3
  <2> QED
    BY <2>1, <2>2 DEF View
<1>4. b \in Listeners \cap Present => View(b)'
  BY <1>3 DEF ViewInv
<1> QED
  BY <1>4, OtherViews

LEMMA StoresView ==
  ASSUME TypeInv, TypeInv', ViewInv, NEW b \in Bots, FinishStores(b)
  PROVE  ViewInv'
<1>1. /\ UNCHANGED <<left, announced, batch, floor_mbcp_buf, ws, obs>>
      /\ stores[b] # <<>> /\ Apply(b, Head(stores[b]))
      /\ stores' = [stores EXCEPT ![b] = Tail(@)]
  BY DEF FinishStores, sfu, session
<1>2. stores \in [Bots -> Rests] /\ flag \in [Bots -> [Flags -> BOOLEAN]]
  BY DEF TypeInv, TypeOK, RecvOK
<1>3. "speaker_just_changed" \in Flags /\ "floor_just_released" \in Flags
  BY DEF Flags
<1>4. ASSUME NEW name \in {"speaker_just_changed", "floor_just_released"}, NEW value \in BOOLEAN,
             NEW rest,
             Head(stores[b]).name = name, Head(stores[b]).value = value, Tail(stores[b]) = rest,
             \/ stores[b] = FtknRest /\ name = "speaker_just_changed" /\ value = TRUE /\ rest = FtknLast
             \/ stores[b] = FtknLast /\ name = "floor_just_released" /\ value = FALSE /\ rest = <<>>
             \/ stores[b] = FidlRest /\ name = "floor_just_released" /\ value = TRUE /\ rest = <<>>
      PROVE  ViewInv'
  <2>1. flag' = [flag EXCEPT ![b][name] = value]
    BY <1>1, <1>4 DEF Apply
  <2>2. /\ flag'[b] = [flag[b] EXCEPT ![name] = value]
        /\ \A c \in Bots \ {b} : flag'[c] = flag[c]
    BY <1>3, <2>1, FlagType
  <2>3. stores'[b] = rest /\ \A c \in Bots \ {b} : stores'[c] = stores[c]
    BY <1>1, <1>2, <1>4
  <2>4. /\ flag'[b].floor_idle = flag[b].floor_idle
        /\ name = "speaker_just_changed" =>
             /\ flag'[b].speaker_just_changed = value
             /\ flag'[b].floor_just_released = flag[b].floor_just_released
        /\ name = "floor_just_released" =>
             /\ flag'[b].floor_just_released = value
             /\ flag'[b].speaker_just_changed = flag[b].speaker_just_changed
    BY <1>2, <2>2 DEF Flags
  <2>5. ASSUME View(b), Seen(b)' = Seen(b),
                FidlRest' = FidlRest /\ FtknRest' = FtknRest /\ FtknLast' = FtknLast
        PROVE  Tells(b)'
    <3>1. Knows(b)'
      BY <1>1, <2>4, <2>5 DEF View, Tells, Knows, IdleAsOf
    <3>2. Agrees(b)'
      BY <1>4, <2>3, <2>4, <2>5, StoresTuples DEF View, Tells, Agrees, Released
    <3>3. Follows(b)'
      BY <1>1, <1>4, <2>3, <2>4, <2>5, StoresTuples DEF View, Tells, Follows, ReleasedAsOf
    <3>4. Recalls(b)'
      BY <1>1, <1>4, <2>3, <2>4, <2>5, StoresTuples DEF View, Tells, Recalls, Heard
    <3>5. Judges(b)'
      <4>1. ASSUME stores[b] = FidlRest, TurnSeen(b)' PROVE TurnSeen(b)
        <5>1. PICK k \in 1 .. Seen(b) : ~announced[k]
          BY <1>1, <2>5, <4>1 DEF TurnSeen
        <5>2. Seen(b) > 0 /\ announced[Seen(b)]
          BY <2>5, <4>1, StoresTuples DEF View, Tells, Agrees, Knows, Released, IdleAsOf
        <5>3. k < Seen(b)
          BY <2>5, <5>1, <5>2, SeenType
        <5> QED
          BY <5>1, <5>3 DEF TurnSeen
      <4>2. stores[b] = FtknRest => flag'[b].speaker_just_changed
        BY <1>4, <2>4, StoresTuples
      <4>3. stores[b] = FtknLast => flag'[b].speaker_just_changed = flag[b].speaker_just_changed
        BY <1>4, <2>4, StoresTuples
      <4>4. stores[b] = FidlRest => /\ flag'[b].speaker_just_changed = flag[b].speaker_just_changed
                                    /\ stores'[b] # FtknLast
        BY <1>4, <2>3, <2>4, StoresTuples
      <4> QED
        BY <1>1, <1>4, <2>5, <4>1, <4>2, <4>3, <4>4 DEF View, Tells, Judges
    <3> QED
      BY <3>1, <3>2, <3>3, <3>4, <3>5 DEF Tells
  <2> QED
    BY <1>1, <2>2, <2>3, <2>5, ViewFlags
<1>5. stores[b] \in {FtknRest, FtknLast, FidlRest}
  BY <1>1, <1>2 DEF Rests
<1>6. CASE stores[b] = FtknRest
  <2>1. /\ Head(stores[b]).name = "speaker_just_changed" /\ Head(stores[b]).value = TRUE
        /\ Tail(stores[b]) = FtknLast
    BY <1>6, StoresTuples DEF Store
  <2> QED
    BY <1>4, <1>6, <2>1
<1>7. CASE stores[b] = FtknLast
  <2>1. /\ Head(stores[b]).name = "floor_just_released" /\ Head(stores[b]).value = FALSE
        /\ Tail(stores[b]) = <<>>
    BY <1>7, StoresTuples DEF Store
  <2> QED
    BY <1>4, <1>7, <2>1
<1>8. CASE stores[b] = FidlRest
  <2>1. /\ Head(stores[b]).name = "floor_just_released" /\ Head(stores[b]).value = TRUE
        /\ Tail(stores[b]) = <<>>
    BY <1>8, StoresTuples DEF Store
  <2> QED
    BY <1>4, <1>8, <2>1
<1> QED
  BY <1>5, <1>6, <1>7, <1>8

LEMMA RoomView ==
  ASSUME TypeInv, TypeInv', ViewInv, NEW b \in Bots, ProcessRoomEvents(b)
  PROVE  ViewInv'
<1>1. /\ UNCHANGED <<left, announced, batch, floor_mbcp_buf, ws, flag, stores>>
      /\ obs \in [Bots -> Observations]
  BY DEF ProcessRoomEvents, sfu, TypeInv, TypeOK, RecvOK
<1>2. /\ obs'[b].first_video = obs[b].first_video
      /\ \A c \in Bots \ {b} : obs'[c] = obs[c]
  BY <1>1 DEF ProcessRoomEvents, Observations
<1>3. ASSUME View(b), Seen(b)' = Seen(b),
                FidlRest' = FidlRest /\ FtknRest' = FtknRest /\ FtknLast' = FtknLast
      PROVE  Tells(b)'
  BY <1>1, <1>2, <1>3 DEF View, Tells, Knows, Agrees, Follows, Recalls, Judges,
         Released, IdleAsOf, ReleasedAsOf, TurnSeen, Heard
<1> QED
  BY <1>1, <1>2, <1>3, ViewFlags

\* The recv task records a release or a speaker change by the flags.
LEMMA RecvView ==
  ASSUME TypeInv, TypeInv', ViewInv, NEW b \in Bots, RecvStep(b)
  PROVE  ViewInv'
<1>1. /\ UNCHANGED <<left, announced, batch, floor_mbcp_buf, ws, stores>>
      /\ obs \in [Bots -> Observations] /\ flag \in [Bots -> [Flags -> BOOLEAN]]
  BY DEF RecvStep, RecvRtp, RecvReleased, RecvChanged, RecvAck, RecvUnchanged, sfu, session,
         TypeInv, TypeOK, RecvOK
<1>2. \A c \in Bots \ {b} : obs'[c] = obs[c] /\ flag'[c] = flag[c]
  BY <1>1 DEF RecvStep, RecvRtp, RecvReleased, RecvChanged, RecvAck
<1>3. /\ flag'[b].floor_idle = flag[b].floor_idle
      /\ flag'[b].floor_just_released = flag[b].floor_just_released
      /\ flag'[b].speaker_just_changed => flag[b].speaker_just_changed
      /\ ~RecvChanged(b) => UNCHANGED flag
  <2>1. "speaker_just_changed" \in Flags
    BY DEF Flags
  <2>2. \/ UNCHANGED flag
        \/ RecvChanged(b) /\ flag' = [flag EXCEPT ![b]["speaker_just_changed"] = FALSE]
    BY DEF RecvStep, RecvRtp, RecvReleased, RecvChanged, RecvAck
  <2>3. flag' = [flag EXCEPT ![b]["speaker_just_changed"] = FALSE]
          => flag'[b] = [flag[b] EXCEPT !["speaker_just_changed"] = FALSE]
    BY <2>1, FlagType
  <2> QED
    BY <1>1, <2>2, <2>3 DEF Flags
<1>4. /\ obs'[b].first_video # "none" => obs[b].first_video # "none" \/ flag[b].speaker_just_changed
      /\ obs[b].first_video # "none" => obs'[b].first_video # "none"
      /\ flag[b].speaker_just_changed
           => flag'[b].speaker_just_changed \/ obs'[b].first_video # "none"
  <2>1. CASE RecvRtp(b)
    BY <1>1, <2>1 DEF RecvRtp, Observations
  <2>2. CASE RecvReleased(b)
    BY <1>1, <2>2 DEF RecvReleased, Observations
  <2>3. CASE RecvChanged(b)
    <3>1. rx[b].packet # "none"
      BY <2>3 DEF RecvChanged, At, TypeInv, VideoOK
    <3>2. obs'[b].first_video = IF flag[b].speaker_just_changed /\ obs[b].first_video = "none"
                                  THEN rx[b].packet ELSE obs[b].first_video
      BY <1>1, <2>3 DEF RecvChanged, Observations
    <3> QED
      BY <3>1, <3>2
  <2>4. CASE RecvAck(b)
    BY <1>1, <2>4 DEF RecvAck, Observations
  <2> QED
    BY <2>1, <2>2, <2>3, <2>4 DEF RecvStep
<1>5. ASSUME View(b), Seen(b)' = Seen(b),
             FidlRest' = FidlRest /\ FtknRest' = FtknRest /\ FtknLast' = FtknLast
      PROVE  Tells(b)'
  <2>1. Knows(b)' /\ Agrees(b)' /\ Follows(b)'
    BY <1>1, <1>3, <1>5 DEF View, Tells, Knows, Agrees, Follows, Released, IdleAsOf, ReleasedAsOf
  <2>2. Recalls(b)'
    BY <1>1, <1>3, <1>4, <1>5 DEF View, Tells, Recalls, Heard
  <2>3. Judges(b)'
    BY <1>1, <1>4, <1>5 DEF View, Tells, Judges, TurnSeen
  <2> QED
    BY <2>1, <2>2, <2>3 DEF Tells
<1> QED
  BY <1>1, <1>2, <1>5, ViewFlags

LEMMA QuietView ==
  ASSUME ViewInv, UNCHANGED <<left, announced, batch, floor_mbcp_buf, ws, flag, stores, obs>>
  PROVE  ViewInv'
<1> SUFFICES ASSUME NEW b \in Listeners \cap Present PROVE View(b)'
  BY DEF ViewInv, Listeners, Present
<1>1. Pending(b)' = Pending(b)
  BY DEF Pending, Announcements, Messages
<1> QED
  BY <1>1, ViewSame DEF ViewInv

LEMMA ViewStep ==
  ASSUME TypeInv, TypeInv', ViewInv, [Next /\ UNCHANGED limits]_<<vars, limits>>
  PROVE  ViewInv'
<1>1. CASE UNCHANGED <<vars, limits>>
  BY <1>1, QuietView DEF vars, sfu, session
<1>2. CASE Next
  <2>1. CASE SfuFloorRevoke
    <3>1. holder \in Bots
      BY <2>1 DEF TypeInv, TypeOK, SfuOK, SfuFloorRevoke
    <3> QED
      BY <2>1, <3>1, SfuView
  <2>2. ASSUME NEW b \in Bots,
               \/ SfuRelay(b) \/ FloorRequest(b) \/ AwaitTimeout(b) \/ FloorRelease(b)
        PROVE  ViewInv'
    BY <2>2, QuietView DEF SfuRelay, FloorRequest, AwaitTimeout, FloorRelease, sfu, session
  <2>3. ASSUME NEW b \in Bots,
               \/ Publish(b) \/ SfuFloorRequest(b) \/ SfuFloorRelease(b)
               \/ SfuTracksReady(b) \/ KillBot(b)
        PROVE  ViewInv'
    BY <2>3, SfuView, KillView
  <2>4. ASSUME NEW b \in Bots,
               \/ \E n \in 0 .. Len(ws[b]) : AwaitFloorTaken(b, n) \/ ProcessEvents(b, n)
               \/ AwaitTracksReady(b)
        PROVE  ViewInv'
    BY <2>4, AwaitView, EventsView, AnsweredView
  <2>5. ASSUME NEW b \in Bots,
               \/ ProcessFloor(b) \/ FinishStores(b) \/ ProcessRoomEvents(b) \/ RecvStep(b)
        PROVE  ViewInv'
    BY <2>5, ProcessView, StoresView, RoomView, RecvView
  <2> QED
    BY <1>2, <2>1, <2>2, <2>3, <2>4, <2>5 DEF Next
<1> QED
  BY <1>1, <1>2

LEMMA ViewInit == Init => ViewInv
<1> SUFFICES ASSUME Init, NEW b \in Bots PROVE View(b)
  BY DEF ViewInv, Listeners
<1>1. Pending(b) = <<>> /\ announced = <<>>
  <2>1. batch[b] = <<>> /\ floor_mbcp_buf[b] = <<>> /\ ws[b] = <<>> /\ announced = <<>>
    BY DEF Init
  <2>2. (<<>> \o <<>>) \o <<>> = <<>>
    BY EmptySeq, ConcatEmptySeq
  <2> QED
    BY <2>1, <2>2, SiftEmpty DEF Pending
<1>2. Len(<<>>) = 0
  BY EmptySeq
<1>3. Behind(announced, Pending(b)) /\ Seen(b) = 0
  BY <1>1, <1>2 DEF Behind, Seen
<1>4. /\ flag[b] = [floor_idle |-> TRUE, speaker_just_changed |-> FALSE,
                    floor_just_released |-> FALSE, ack_sent |-> FALSE]
      /\ stores[b] = <<>> /\ obs[b].first_video = "none"
  BY DEF Init
<1>5. Knows(b) /\ Agrees(b)
  BY <1>3, <1>4 DEF Knows, Agrees, Released, IdleAsOf
<1>6. stores[b] # FidlRest /\ stores[b] # FtknRest /\ stores[b] # FtknLast
  BY <1>4, StoresTuples
<1>7. ~TurnSeen(b)
  BY <1>3 DEF TurnSeen
<1>8. Follows(b) /\ Recalls(b) /\ Judges(b)
  BY <1>4, <1>6, <1>7 DEF Follows, Recalls, Judges
<1> QED
  BY <1>3, <1>5, <1>8 DEF View, Tells

LEMMA PttViews == Spec => []ViewInv
<1>1. Init => TypeInv /\ ViewInv
  BY TypeInit, ViewInit
<1>2. TypeInv /\ ViewInv /\ [Next /\ UNCHANGED limits]_<<vars, limits>> => (TypeInv /\ ViewInv)'
  BY TypeStep, ViewStep
<1> QED
  BY <1>1, <1>2, PTL DEF Spec

(***************************************************************************)
(* The idle flag of a bot that only listens is what the SFU had announced  *)
(* at some point of the past, no announcement skipped or applied out of    *)
(* order, for any number of bots, frames and turns (process_events).       *)
(***************************************************************************)
THEOREM PttListenerView == Spec => []ListenerViewIsPast
<1>1. ViewInv => ListenerViewIsPast
  BY DEF ViewInv, View, Tells, Knows, ListenerViewIsPast
<1> QED
  BY <1>1, PttViews, PTL

\* What the flags of a listener say, in the words of the properties.
LEMMA FlagsOf ==
  ASSUME TypeInv, ViewInv, NEW b \in Listeners \cap Present
  PROVE  /\ flag[b].floor_just_released => JustReleased(b)
         /\ flag[b].floor_idle = IdleAsOf(Seen(b))
         /\ stores[b] = <<>> => (flag[b].floor_just_released <=> ReleasedAsOf(Seen(b)))
<1>1. View(b) /\ stores[b] \in Rests
  BY DEF ViewInv, TypeInv, Listeners
<1>2. flag[b].floor_idle = IdleAsOf(Seen(b))
  BY <1>1 DEF View, Tells, Knows
<1>3. Released(b) <=> ReleasedAsOf(Seen(b))
  BY <1>1, <1>2 DEF View, Tells, Agrees, IdleAsOf, ReleasedAsOf
<1>4. flag[b].floor_just_released => JustReleased(b)
  <2>1. CASE stores[b] = <<>>
    BY <1>3, <2>1 DEF Released, JustReleased
  <2>2. CASE stores[b] = FidlRest
    BY <1>3, <2>2, StoresTuples DEF Released, JustReleased
  <2>3. CASE stores[b] \in {FtknRest, FtknLast}
    BY <1>1, <2>3, StoresTuples DEF View, Tells, Follows, JustReleased
  <2> QED
    BY <1>1, <2>1, <2>2, <2>3 DEF Rests
<1> QED
  BY <1>2, <1>3, <1>4 DEF Released

(***************************************************************************)
(* The released flag is up only between a release and the last store of    *)
(* the next FTKN, and between two messages exactly when the last was a     *)
(* release (the stores of process_events, read by the recv task).          *)
(***************************************************************************)
THEOREM PttListenerFlags == Spec => []ListenerFlagsAgree
<1>1. ASSUME TypeInv, ViewInv PROVE ListenerFlagsAgree
  <2> SUFFICES ASSUME NEW b \in Listeners \cap Present
               PROVE  /\ flag[b].floor_just_released => JustReleased(b)
                      /\ stores[b] = <<>> => flag[b].floor_just_released = ReleasedAsOf(Seen(b))
    BY DEF ListenerFlagsAgree
  <2>1. flag[b].floor_just_released \in BOOLEAN
    BY <1>1 DEF TypeInv, TypeOK, RecvOK, Flags, Listeners
  <2>2. ReleasedAsOf(Seen(b)) \in BOOLEAN
    BY DEF ReleasedAsOf
  <2> QED
    BY <1>1, <2>1, <2>2, FlagsOf
<1>2. Init => TypeInv
  BY TypeInit
<1>3. TypeInv /\ [Next /\ UNCHANGED limits]_<<vars, limits>> => TypeInv'
  BY TypeStep
<1> QED
  BY <1>1, <1>2, <1>3, PttViews, PTL DEF Spec

\* The recv task of a bot, or a step that leaves its records alone.
LEMMA RecordedBy ==
  ASSUME TypeInv, NEW b \in Bots, [Next /\ UNCHANGED limits]_<<vars, limits>>
  PROVE  \/ RecvStep(b)
         \/ /\ obs'[b].silence = obs[b].silence
            /\ obs'[b].non_speaker_rtp = obs[b].non_speaker_rtp
            /\ obs'[b].first_video = obs[b].first_video
            /\ rx'[b] = rx[b]
<1> DEFINE Alone == /\ obs'[b].silence = obs[b].silence
                   /\ obs'[b].non_speaker_rtp = obs[b].non_speaker_rtp
                   /\ obs'[b].first_video = obs[b].first_video
                   /\ rx'[b] = rx[b]
<1>1. /\ obs \in [Bots -> Observations]
      /\ rx \in [Bots -> [packet : Packets \cup {"none"},
                          next : {"none", "released", "changed", "ack"}]]
  BY DEF TypeInv, TypeOK, RecvOK
<1>2. CASE UNCHANGED <<obs, rx>>
  BY <1>2
<1>3. ASSUME NEW c \in Bots, RecvStep(c), c # b PROVE Alone
  BY <1>1, <1>3 DEF RecvStep, RecvRtp, RecvReleased, RecvChanged, RecvAck, Goto, Done
<1>4. ASSUME NEW c \in Bots, ProcessFloor(c) PROVE Alone
  BY <1>1, <1>4 DEF ProcessFloor, Observations
<1>5. ASSUME NEW c \in Bots, ProcessRoomEvents(c) PROVE Alone
  BY <1>1, <1>5 DEF ProcessRoomEvents, Observations
<1> HIDE DEF Alone
<1>6. ASSUME NEW c \in Bots,
             \/ SfuFloorRevoke \/ Publish(c) \/ SfuFloorRequest(c) \/ SfuFloorRelease(c)
             \/ SfuTracksReady(c) \/ SfuRelay(c) \/ KillBot(c)
      PROVE  UNCHANGED <<obs, rx>>
  BY <1>6 DEF SfuFloorRevoke, Publish, SfuFloorRequest, SfuFloorRelease, SfuTracksReady,
              SfuRelay, KillBot
<1>7. ASSUME NEW c \in Bots,
             \/ FloorRequest(c) \/ AwaitTimeout(c) \/ FloorRelease(c)
             \/ \E n \in 0 .. Len(ws[c]) : AwaitFloorTaken(c, n) \/ ProcessEvents(c, n)
             \/ AwaitTracksReady(c) \/ FinishStores(c)
      PROVE  UNCHANGED <<obs, rx>>
  BY <1>7 DEF FloorRequest, AwaitTimeout, FloorRelease, AwaitFloorTaken, ProcessEvents,
              AwaitTracksReady, FinishStores
<1>8. CASE UNCHANGED <<vars, limits>>
  BY <1>2, <1>8 DEF vars
<1>9. CASE Next
  BY <1>2, <1>3, <1>4, <1>5, <1>6, <1>7, <1>9 DEF Next, Alone
<1> QED
  BY <1>8, <1>9

(***************************************************************************)
(* Every record of the recv task is of the turn it has processed, in every *)
(* turn and whatever the interleaving with process_events: silence behind  *)
(* a release, non-speaker RTP while idle, the first video behind an FTKN.  *)
(***************************************************************************)
THEOREM PttObservedInTurn == Spec => ObservedInTurn
<1>1. ASSUME TypeInv, ViewInv, [Next /\ UNCHANGED limits]_<<vars, limits>>,
             NEW b \in Listeners \cap Present
      PROVE  RecordedInTurn(b)
  <2>1. b \in Bots /\ View(b)
    BY <1>1 DEF ViewInv, Listeners
  <2>2. /\ obs \in [Bots -> Observations] /\ rx[b].next \in {"none", "released", "changed", "ack"}
    BY <1>1, <2>1 DEF TypeInv, TypeOK, RecvOK
  <2>3. /\ flag[b].floor_just_released => JustReleased(b)
        /\ flag[b].floor_idle = IdleAsOf(Seen(b))
    BY <1>1, FlagsOf
  <2>4. CASE /\ obs'[b].silence = obs[b].silence
             /\ obs'[b].non_speaker_rtp = obs[b].non_speaker_rtp
             /\ obs'[b].first_video = obs[b].first_video
             /\ rx'[b] = rx[b]
    BY <2>4 DEF RecordedInTurn, At
  <2>5. CASE RecvRtp(b)
    <3>1. /\ obs'[b].silence = obs[b].silence /\ obs'[b].first_video = obs[b].first_video
          /\ obs'[b].non_speaker_rtp = (obs[b].non_speaker_rtp \/ flag[b].floor_idle)
          /\ obs[b].non_speaker_rtp \in BOOLEAN /\ rx[b] = NoPacket
      BY <2>1, <2>2, <2>5 DEF RecvRtp, Observations
    <3>2. ~At(b, "changed")
      BY <3>1 DEF At, NoPacket
    <3> QED
      BY <2>3, <3>1, <3>2 DEF RecordedInTurn
  <2>6. CASE RecvReleased(b)
    <3>1. /\ obs'[b].silence = obs[b].silence \/ flag[b].floor_just_released
          /\ obs'[b].first_video = obs[b].first_video
          /\ obs'[b].non_speaker_rtp = obs[b].non_speaker_rtp
      BY <2>1, <2>2, <2>6 DEF RecvReleased, Observations
    <3>2. ~At(b, "changed")
      BY <2>6 DEF RecvReleased, At
    <3> QED
      BY <2>3, <3>1, <3>2 DEF RecordedInTurn
  <2>7. CASE RecvChanged(b)
    <3>1. /\ obs'[b].silence = obs[b].silence
          /\ obs'[b].non_speaker_rtp = obs[b].non_speaker_rtp
          /\ obs'[b].first_video = IF flag[b].speaker_just_changed /\ obs[b].first_video = "none"
                                     THEN rx[b].packet ELSE obs[b].first_video
      BY <2>1, <2>2, <2>7 DEF RecvChanged, Observations
    <3>2. rx[b].packet # "none"
      BY <1>1, <2>1, <2>7 DEF RecvChanged, At, TypeInv, VideoOK
    <3>3. obs'[b].first_video # obs[b].first_video => \E k \in 1 .. Seen(b) : ~announced[k]
      BY <2>1, <3>1 DEF View, Tells, Recalls, Heard
    <3>4. TurnSeen(b) => obs'[b].first_video # "none"
      BY <2>1, <3>1, <3>2 DEF View, Tells, Judges
    <3> QED
      BY <3>1, <3>3, <3>4 DEF RecordedInTurn
  <2>8. CASE RecvAck(b)
    <3>1. /\ obs'[b].silence = obs[b].silence /\ obs'[b].first_video = obs[b].first_video
          /\ obs'[b].non_speaker_rtp = obs[b].non_speaker_rtp
      BY <2>1, <2>2, <2>8 DEF RecvAck, Observations
    <3>2. ~At(b, "changed")
      BY <2>8 DEF RecvAck, At
    <3> QED
      BY <3>1, <3>2 DEF RecordedInTurn
  <2> QED
    BY <1>1, <2>1, <2>4, <2>5, <2>6, <2>7, <2>8, RecordedBy DEF RecvStep
<1>2. TypeInv /\ ViewInv /\ [Next /\ UNCHANGED limits]_<<vars, limits>>
        => [\A b \in Listeners \cap Present : RecordedInTurn(b)]_vars
  BY <1>1
<1>3. Init => TypeInv
  BY TypeInit
<1>4. TypeInv /\ [Next /\ UNCHANGED limits]_<<vars, limits>> => TypeInv'
  BY TypeStep
<1> QED
  BY <1>2, <1>3, <1>4, PttViews, PTL DEF Spec, ObservedInTurn
=============================================================================
