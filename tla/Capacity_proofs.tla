--------------------------- MODULE Capacity_proofs ----------------------------
(***************************************************************************)
(* Proofs about Capacity and about a row of the conference measurement,    *)
(* for any number of subscribers or participants and any values of the     *)
(* durations and timeouts.                                                 *)
(***************************************************************************)
EXTENDS Conference, FiniteSetTheorems, TLAPS

\* A subscriber's receive window begins at its setup, after the spawn.
SubInv ==
  \A s \in Subs :
    /\ sub[s] \in {"recv", "busy", "done"} => timer[s] >= run_window
    /\ sub[s] = "done" => now >= timer[s]

\* The runner never oversleeps its alarm, so the trigger is sent at most one
\* poll after ready_cap.
RunnerInv ==
  /\ runner = "ready" => now <= alarm /\ alarm <= ReadyCap + Poll
  /\ Triggered => trig <= now /\ trig <= ReadyCap + Poll

\* The publication begins within PubSlack of the trigger.
PubInv ==
  /\ pub \in {"setup", "wait", "asking"} /\ Triggered => now <= trig + PubSlack
  /\ pub \in {"asking", "publishing"} => Triggered
  /\ pub = "publishing" => now <= pub_end /\ pub_end <= trig + PubSlack + Duration

IInv == TypeOK /\ SubInv /\ RunnerInv /\ PubInv

LEMMA InitInv == Init => IInv
<1> SUFFICES ASSUME Init PROVE IInv
  OBVIOUS
<1>1. TypeOK
  BY CapacityAssumption DEF Init, TypeOK, SubStates, PubStates, RunnerStates
<1>2. SubInv
  BY DEF Init, SubInv
<1>3. RunnerInv
  BY CapacityAssumption DEF Init, RunnerInv, Triggered
<1>4. PubInv
  BY DEF Init, PubInv, Triggered
<1> QED BY <1>1, <1>2, <1>3, <1>4 DEF IInv

\* A subscriber that moves keeps the invariant of its own timer.
LEMMA SubStep ==
  ASSUME TypeOK, SubInv, NEW s \in Subs, NEW to \in SubStates, SubMoves(s, to), now' = now,
         timer' \in [Subs -> Nat],
         \A q \in Subs \ {s} : timer'[q] = timer[q],
         to \in {"recv", "busy", "done"} => timer'[s] >= run_window,
         to = "done" => now >= timer'[s]
  PROVE  SubInv' /\ sub' \in [Subs -> SubStates]
<1>1. sub' \in [Subs -> SubStates] /\ sub'[s] = to
  BY DEF SubMoves, TypeOK
<1>2. \A q \in Subs \ {s} : sub'[q] = sub[q] /\ timer'[q] = timer[q]
  BY DEF SubMoves, TypeOK
<1>3. run_window' = run_window
  BY DEF run_window
<1> QED BY <1>1, <1>2, <1>3 DEF SubInv

LEMMA StepInv == IInv /\ [Next]_vars => IInv'
<1> SUFFICES ASSUME TypeOK, SubInv, RunnerInv, PubInv, [Next]_vars
             PROVE  IInv'
  BY DEF IInv
<1> USE CapacityAssumption
<1>1. run_window \in Nat
  BY DEF run_window
<1>2. ASSUME NEW s \in Subs, NEW to \in SubStates, SubMoves(s, to), OtherTasks, now' = now,
             timer' \in [Subs -> Nat],
             \A q \in Subs \ {s} : timer'[q] = timer[q],
             to \in {"recv", "busy", "done"} => timer'[s] >= run_window,
             to = "done" => now >= timer'[s],
             permits' \in Nat, ready' \in Nat, active' \in Nat, seen_rtp' \subseteq Subs
      PROVE  IInv'
  <2>1. SubInv' /\ sub' \in [Subs -> SubStates]
    BY <1>2, SubStep
  <2>2. TypeOK'
    BY <1>2, <2>1 DEF TypeOK, OtherTasks
  <2>3. RunnerInv' /\ PubInv'
    BY <1>2 DEF OtherTasks, RunnerInv, PubInv, Triggered
  <2> QED BY <2>1, <2>2, <2>3 DEF IInv
<1>3. ASSUME NEW s \in Subs, AcquirePermit(s)
      PROVE  IInv'
  <2>1. timer' \in [Subs -> Nat] /\ \A q \in Subs \ {s} : timer'[q] = timer[q]
    BY <1>3 DEF AcquirePermit, TypeOK
  <2>2. permits' \in Nat /\ "setup" \in SubStates
    BY <1>3 DEF AcquirePermit, TypeOK, SubStates
  <2> QED BY <1>2, <1>3, <2>1, <2>2 DEF AcquirePermit, TypeOK
<1>4. ASSUME NEW s \in Subs, SetupDone(s)
      PROVE  IInv'
  <2>1. /\ timer' \in [Subs -> Nat] /\ \A q \in Subs \ {s} : timer'[q] = timer[q]
        /\ timer'[s] >= run_window
    BY <1>1, <1>4 DEF SetupDone, TypeOK
  <2>2. permits' \in Nat /\ ready' \in Nat /\ "recv" \in SubStates
    BY <1>4 DEF SetupDone, TypeOK, SubStates
  <2> QED BY <1>2, <1>4, <2>1, <2>2 DEF SetupDone, TypeOK
<1>5. ASSUME NEW s \in Subs, SetupFails(s)
      PROVE  IInv'
  <2>1. permits' \in Nat /\ "failed" \in SubStates
    BY <1>5 DEF SetupFails, TypeOK, SubStates
  <2> QED BY <1>2, <1>5, <2>1 DEF SetupFails, TypeOK
<1>6. ASSUME NEW s \in Subs, ReceiveRtp(s)
      PROVE  IInv'
  <2>1. TypeOK'
    BY <1>6 DEF ReceiveRtp, TypeOK, OtherTasks
  <2>2. SubInv' /\ RunnerInv' /\ PubInv'
    BY <1>6 DEF ReceiveRtp, OtherTasks, SubInv, RunnerInv, PubInv, Triggered, run_window
  <2> QED BY <2>1, <2>2 DEF IInv
<1>7. ASSUME NEW s \in Subs, SendTracksReady(s) \/ TracksReadyAnswered(s) \/ RecvError(s)
      PROVE  IInv'
  <2>1. PICK to \in {"busy", "recv", "failed"} : SubMoves(s, to)
    BY <1>7 DEF SendTracksReady, TracksReadyAnswered, RecvError
  <2>2. sub[s] \in {"recv", "busy"}
    BY <1>7 DEF SendTracksReady, TracksReadyAnswered, RecvError
  <2>3. timer[s] >= run_window /\ to \in SubStates /\ to # "done"
    BY <2>2 DEF SubInv, SubStates
  <2>4. OtherTasks /\ UNCHANGED <<now, timer, permits, ready, active, seen_rtp>>
    BY <1>7 DEF SendTracksReady, TracksReadyAnswered, RecvError
  <2> QED BY <1>2, <2>1, <2>3, <2>4 DEF TypeOK
<1>8. ASSUME NEW s \in Subs, SubDeadline(s)
      PROVE  IInv'
  <2>1. timer[s] >= run_window /\ now >= timer[s] /\ "done" \in SubStates
    BY <1>8 DEF SubDeadline, SubInv, SubStates
  <2>2. SubMoves(s, "done") /\ OtherTasks /\ UNCHANGED <<now, timer, permits, ready, active, seen_rtp>>
    BY <1>8 DEF SubDeadline
  <2> QED BY <1>2, <2>1, <2>2 DEF TypeOK
<1>9. CASE PubReady \/ PubTriggered \/ Published \/ PubFails \/ PubDeadline
  <2>1. OtherThanPub
    BY <1>9 DEF PubReady, PubTriggered, Published, PubFails, PubDeadline
  <2>2. SubInv' /\ RunnerInv'
    BY <2>1 DEF OtherThanPub, SubInv, RunnerInv, Triggered, run_window
  <2>3. pub' \in PubStates /\ pub_end' \in Nat
    BY <1>9 DEF PubReady, PubTriggered, Published, PubFails, PubDeadline, TypeOK, PubStates
  <2>4. TypeOK'
    BY <2>1, <2>3 DEF OtherThanPub, TypeOK
  <2>5. PubInv'
    <3>1. CASE Published
      <4>1. Triggered /\ now <= trig + PubSlack /\ now \in Nat /\ trig \in Nat
        BY <3>1 DEF Published, PubInv, TypeOK
      <4>2. now + Duration <= trig + PubSlack + Duration
        BY <4>1
      <4> QED BY <3>1, <4>1, <4>2 DEF Published, OtherThanPub, PubInv, Triggered
    <3>2. CASE PubReady \/ PubTriggered \/ PubFails \/ PubDeadline
      BY <2>1, <3>2 DEF PubReady, PubTriggered, PubFails, PubDeadline, OtherThanPub, PubInv,
                        Triggered
    <3> QED BY <1>9, <3>1, <3>2
  <2> QED BY <2>2, <2>4, <2>5 DEF IInv
<1>10. CASE ReadyPoll
  <2>1. SubInv'
    BY <1>10 DEF ReadyPoll, OtherThanRunner, SubInv, run_window
  <2>2. TypeOK'
    BY <1>10 DEF ReadyPoll, OtherThanRunner, TypeOK, RunnerStates
  <2>3. RunnerInv'
    BY <1>10 DEF ReadyPoll, OtherThanRunner, RunnerInv, Triggered, TypeOK
  <2>4. PubInv'
    BY <1>10 DEF ReadyPoll, OtherThanRunner, PubInv, Triggered, TypeOK
  <2> QED BY <2>1, <2>2, <2>3, <2>4 DEF IInv
<1>11. CASE Measured \/ Aggregate
  <2>1. TypeOK'
    BY <1>11 DEF Measured, Aggregate, OtherThanRunner, TypeOK, RunnerStates
  <2>2. SubInv' /\ RunnerInv' /\ PubInv'
    BY <1>11 DEF Measured, Aggregate, OtherThanRunner, SubInv, RunnerInv, PubInv, Triggered,
                 run_window
  <2> QED BY <2>1, <2>2 DEF IInv
<1>12. CASE Advance
  <2>1. TypeOK'
    BY <1>12 DEF Advance, TypeOK
  <2>2. SubInv'
    BY <1>12 DEF Advance, SubInv, TypeOK, run_window
  <2>3. RunnerInv' /\ PubInv'
    BY <1>12 DEF Advance, RunnerOnTime, PubOnTime, RunnerInv, PubInv, Triggered, TypeOK
  <2> QED BY <2>1, <2>2, <2>3 DEF IInv
<1>13. CASE UNCHANGED vars
  BY <1>13 DEF vars, IInv, TypeOK, SubInv, RunnerInv, PubInv, Triggered, run_window
<1> QED
  BY <1>3, <1>4, <1>5, <1>6, <1>7, <1>8, <1>9, <1>10, <1>11, <1>12, <1>13 DEF Next

LEMMA Invariance == Spec => []IInv
BY InitInv, StepInv, PTL DEF Spec

\* The values of every variable of the measurement.
THEOREM TypeCorrect == Spec => []TypeOK
<1>1. IInv => TypeOK
  BY DEF IInv
<1> QED BY <1>1, Invariance, PTL

\* run_window = ready_cap + duration + margin is enough, whatever the number
\* of subscribers and however their setups queue, as long as the publication
\* starts within the margin less one poll of the trigger.
THEOREM RunWindowCovers ==
  ASSUME Poll + PubSlack < Margin
  PROVE  Spec => []WindowCovered
<1>1. IInv => WindowCovered
  <2> SUFFICES ASSUME IInv, pub = "publishing", NEW s \in Subs, sub[s] = "done"
               PROVE  FALSE
    BY DEF WindowCovered
  <2>1. timer[s] >= run_window /\ now >= timer[s]
    BY DEF IInv, SubInv
  <2>2. now <= pub_end /\ pub_end <= trig + PubSlack + Duration /\ trig <= ReadyCap + Poll
    BY DEF IInv, PubInv, RunnerInv
  <2>3. now \in Nat /\ pub_end \in Nat /\ trig \in Nat /\ timer[s] \in Nat
    BY DEF IInv, TypeOK
  <2> QED BY <2>1, <2>2, <2>3, CapacityAssumption DEF run_window
<1> QED BY <1>1, Invariance, PTL

-----------------------------------------------------------------------------

LEMMA SettingUpFinite == IsFiniteSet(SettingUp) /\ Cardinality(SettingUp) \in Nat
BY CapacityAssumption, FS_Subset, FS_CardinalityType DEF SettingUp

LEMMA PermitsStep == TypeOK /\ PermitsConserved /\ [Next]_vars => PermitsConserved'
<1> SUFFICES ASSUME TypeOK, PermitsConserved, [Next]_vars
             PROVE  PermitsConserved'
  OBVIOUS
<1> USE SettingUpFinite, CapacityAssumption
<1>1. ASSUME NEW s \in Subs, AcquirePermit(s)
      PROVE  PermitsConserved'
  <2>1. SettingUp' = SettingUp \cup {s} /\ s \notin SettingUp
    BY <1>1 DEF AcquirePermit, SubMoves, SettingUp, TypeOK
  <2>2. Cardinality(SettingUp') = Cardinality(SettingUp) + 1
    BY <2>1, FS_AddElement
  <2>3. permits' = permits - 1 /\ permits \in Nat
    BY <1>1 DEF AcquirePermit, TypeOK
  <2> QED BY <2>2, <2>3 DEF PermitsConserved
<1>2. ASSUME NEW s \in Subs, Setup(s)
      PROVE  PermitsConserved'
  <2>1. SettingUp' = SettingUp \ {s} /\ s \in SettingUp
    BY <1>2 DEF Setup, SetupDone, SetupFails, SubMoves, SettingUp, TypeOK
  <2>2. Cardinality(SettingUp') = Cardinality(SettingUp) - 1
    BY <2>1, FS_RemoveElement
  <2>3. permits' = permits + 1 /\ permits \in Nat
    BY <1>2 DEF Setup, SetupDone, SetupFails, TypeOK
  <2> QED BY <2>2, <2>3 DEF PermitsConserved
<1>3. ASSUME NEW s \in Subs,
             SendTracksReady(s) \/ TracksReadyAnswered(s) \/ SubDeadline(s) \/ RecvError(s)
      PROVE  PermitsConserved'
  <2>1. SettingUp' = SettingUp
    BY <1>3 DEF SendTracksReady, TracksReadyAnswered, SubDeadline, RecvError, SubMoves,
                SettingUp, TypeOK
  <2>2. permits' = permits
    BY <1>3 DEF SendTracksReady, TracksReadyAnswered, SubDeadline, RecvError
  <2> QED BY <2>1, <2>2 DEF PermitsConserved
<1>4. ASSUME sub' = sub, permits' = permits
      PROVE  PermitsConserved'
  BY <1>4 DEF PermitsConserved, SettingUp
<1>5. ASSUME NEW s \in Subs, ReceiveRtp(s)
      PROVE  PermitsConserved'
  BY <1>4, <1>5 DEF ReceiveRtp
<1>6. CASE PubReady \/ PubTriggered \/ Published \/ PubFails \/ PubDeadline
  BY <1>4, <1>6 DEF PubReady, PubTriggered, Published, PubFails, PubDeadline, OtherThanPub
<1>7. CASE ReadyPoll \/ Measured \/ Aggregate \/ Advance \/ UNCHANGED vars
  BY <1>4, <1>7 DEF ReadyPoll, Measured, Aggregate, OtherThanRunner, Advance, vars
<1> QED BY <1>1, <1>2, <1>3, <1>5, <1>6, <1>7 DEF Next, Setup

\* setup_sem: a permit comes back whether the setup succeeds, fails or times
\* out, so never more than MaxPermits subscribers set up at a time.
THEOREM SemaphoreConserved == Spec => []PermitsConserved
<1>1. Init => PermitsConserved
  <2> SUFFICES ASSUME Init PROVE PermitsConserved
    OBVIOUS
  <2>1. SettingUp = {}
    BY DEF Init, SettingUp
  <2>2. Cardinality(SettingUp) = 0
    BY <2>1, FS_EmptySet
  <2> QED BY <2>2, CapacityAssumption DEF Init, PermitsConserved
<1> QED BY <1>1, PermitsStep, TypeCorrect, PTL DEF Spec

-----------------------------------------------------------------------------

\* The subscribers whose setup is over, the ready counter's upper bound.
SetUp == {s \in Subs : sub[s] \notin {"waiting", "setup"}}
ReadyInv == ready <= Cardinality(SetUp)

LEMMA SetUpFinite ==
  /\ IsFiniteSet(SetUp) /\ Cardinality(SetUp) \in Nat
  /\ Cardinality(SetUp) >= Cardinality(Subs) => SetUp = Subs
<1>1. SetUp \subseteq Subs
  BY DEF SetUp
<1> QED BY <1>1, CapacityAssumption, FS_Subset, FS_CardinalityType

\* What a step makes of the setups that are over.
LEMMA SetUpStep ==
  ASSUME TypeOK, [Next]_vars
  PROVE  \/ SetUp' = SetUp /\ ready' = ready
         \/ \E s \in Subs \ SetUp : SetUp' = SetUp \cup {s} /\ ready' \in {ready, ready + 1}
<1>1. ASSUME NEW s \in Subs, AcquirePermit(s)
      PROVE  SetUp' = SetUp /\ ready' = ready
  BY <1>1 DEF AcquirePermit, SubMoves, SetUp, TypeOK
<1>2. ASSUME NEW s \in Subs, Setup(s)
      PROVE  /\ s \notin SetUp
             /\ SetUp' = SetUp \cup {s} /\ ready' \in {ready, ready + 1}
  BY <1>2 DEF Setup, SetupDone, SetupFails, SubMoves, SetUp, TypeOK
<1>3. ASSUME NEW s \in Subs,
             SendTracksReady(s) \/ TracksReadyAnswered(s) \/ SubDeadline(s) \/ RecvError(s)
      PROVE  SetUp' = SetUp /\ ready' = ready
  BY <1>3 DEF SendTracksReady, TracksReadyAnswered, SubDeadline, RecvError, SubMoves, SetUp,
              TypeOK
<1>4. ASSUME NEW s \in Subs, ReceiveRtp(s)
      PROVE  SetUp' = SetUp /\ ready' = ready
  BY <1>4 DEF ReceiveRtp, SetUp
<1>5. CASE PubReady \/ PubTriggered \/ Published \/ PubFails \/ PubDeadline
  BY <1>5 DEF PubReady, PubTriggered, Published, PubFails, PubDeadline, OtherThanPub, SetUp
<1>6. CASE ReadyPoll \/ Measured \/ Aggregate \/ Advance \/ UNCHANGED vars
  BY <1>6 DEF ReadyPoll, Measured, Aggregate, OtherThanRunner, Advance, vars, SetUp
<1> QED BY <1>1, <1>2, <1>3, <1>4, <1>5, <1>6 DEF Next, Setup

LEMMA ReadyStep == TypeOK /\ ReadyInv /\ [Next]_vars => ReadyInv'
<1> SUFFICES ASSUME TypeOK, ReadyInv, [Next]_vars
             PROVE  ReadyInv'
  OBVIOUS
<1>1. ready \in Nat
  BY DEF TypeOK
<1>2. CASE SetUp' = SetUp /\ ready' = ready
  BY <1>2 DEF ReadyInv
<1>3. ASSUME NEW s \in Subs \ SetUp, SetUp' = SetUp \cup {s}, ready' \in {ready, ready + 1}
      PROVE  ReadyInv'
  <2>1. Cardinality(SetUp') = Cardinality(SetUp) + 1
    BY <1>3, SetUpFinite, FS_AddElement
  <2> QED BY <1>1, <1>3, <2>1, SetUpFinite DEF ReadyInv
<1> QED BY <1>2, <1>3, SetUpStep

LEMMA EarlyTriggerStep ==
  TypeOK /\ ReadyInv /\ EarlyTriggerMeansReady /\ [Next]_vars => EarlyTriggerMeansReady'
<1> SUFFICES ASSUME TypeOK, ReadyInv, EarlyTriggerMeansReady, [Next]_vars, Triggered',
                    trig' < ReadyCap
             PROVE  Subs \subseteq SetUp'
  BY DEF EarlyTriggerMeansReady, SetUp
<1>1. SetUp \subseteq SetUp'
  BY SetUpStep
<1>2. CASE UNCHANGED <<runner, trig>>
  <2>1. Triggered /\ trig < ReadyCap
    BY <1>2 DEF Triggered
  <2> QED BY <1>1, <2>1 DEF EarlyTriggerMeansReady, SetUp
<1>3. CASE ReadyPoll
  <2>1. ready >= Cardinality(Subs) \/ now >= ReadyCap
    BY <1>3 DEF ReadyPoll, Triggered
  <2>2. trig' = now /\ now \in Nat
    BY <1>3 DEF ReadyPoll, Triggered, TypeOK
  <2>3. ready >= Cardinality(Subs)
    BY <2>1, <2>2, CapacityAssumption
  <2>4. Cardinality(SetUp) >= Cardinality(Subs)
    BY <2>3, SetUpFinite, CapacityAssumption, FS_CardinalityType DEF ReadyInv, TypeOK
  <2> QED BY <1>1, <2>4, SetUpFinite
<1>4. CASE Measured \/ Aggregate
  <2>1. Triggered /\ trig < ReadyCap
    BY <1>4 DEF Measured, Aggregate, Triggered
  <2> QED BY <1>1, <2>1 DEF EarlyTriggerMeansReady, SetUp
<1>5. CASE PubReady \/ PubTriggered \/ Published \/ PubFails \/ PubDeadline
  BY <1>2, <1>5 DEF PubReady, PubTriggered, Published, PubFails, PubDeadline, OtherThanPub
<1>6. CASE Advance \/ UNCHANGED vars
  BY <1>2, <1>6 DEF Advance, vars
<1>7. ASSUME NEW s \in Subs,
             \/ AcquirePermit(s) \/ SetupDone(s) \/ SetupFails(s) \/ ReceiveRtp(s)
             \/ SendTracksReady(s) \/ TracksReadyAnswered(s) \/ SubDeadline(s) \/ RecvError(s)
      PROVE  UNCHANGED <<runner, trig>>
  BY <1>7 DEF AcquirePermit, SetupDone, SetupFails, ReceiveRtp, SendTracksReady,
              TracksReadyAnswered, SubDeadline, RecvError, OtherTasks
<1> QED BY <1>2, <1>3, <1>4, <1>5, <1>6, <1>7 DEF Next

\* The ready-sync loop: whatever the permits, a trigger before ready_cap finds
\* no subscriber that is still setting up.
THEOREM EarlyTriggerFindsAllReady == Spec => []EarlyTriggerMeansReady
<1>1. Init => ReadyInv /\ EarlyTriggerMeansReady
  BY SetUpFinite DEF Init, ReadyInv, EarlyTriggerMeansReady, Triggered
<1>2. TypeOK /\ ReadyInv /\ EarlyTriggerMeansReady /\ [Next]_vars
        => (ReadyInv /\ EarlyTriggerMeansReady)'
  BY ReadyStep, EarlyTriggerStep
<1> QED BY <1>1, <1>2, TypeCorrect, PTL DEF Spec

\* Once the row is reported every task has ended.
RowInv == runner = "done" => row = active /\ SubsEnded

LEMMA RowStep == TypeOK /\ RowInv /\ [Next]_vars => RowInv'
<1> SUFFICES ASSUME TypeOK, RowInv, [Next]_vars
             PROVE  RowInv'
  OBVIOUS
<1>1. ASSUME NEW s \in Subs,
             \/ AcquirePermit(s) \/ SetupDone(s) \/ SetupFails(s) \/ ReceiveRtp(s)
             \/ SendTracksReady(s) \/ TracksReadyAnswered(s) \/ SubDeadline(s) \/ RecvError(s)
      PROVE  RowInv'
  <2>1. sub[s] \in {"waiting", "setup", "recv", "busy"} /\ runner' = runner
    BY <1>1 DEF AcquirePermit, SetupDone, SetupFails, ReceiveRtp, SendTracksReady,
                TracksReadyAnswered, SubDeadline, RecvError, OtherTasks
  <2>2. ~SubsEnded
    BY <2>1 DEF SubsEnded
  <2> QED BY <2>1, <2>2 DEF RowInv
<1>2. CASE PubReady \/ PubTriggered \/ Published \/ PubFails \/ PubDeadline
  BY <1>2 DEF PubReady, PubTriggered, Published, PubFails, PubDeadline, OtherThanPub, RowInv,
              SubsEnded
<1>3. CASE ReadyPoll \/ Measured \/ Aggregate
  BY <1>3 DEF ReadyPoll, Measured, Aggregate, OtherThanRunner, RowInv, SubsEnded
<1>4. CASE Advance \/ UNCHANGED vars
  BY <1>4 DEF Advance, vars, RowInv, SubsEnded
<1> QED BY <1>1, <1>2, <1>3, <1>4 DEF Next

\* No task is left that could count after the counters were read.
THEOREM RowStaysFinal == Spec => []RowIsFinal
<1>1. Init => RowInv
  BY DEF Init, RowInv
<1>2. RowInv => RowIsFinal
  BY DEF RowInv, RowIsFinal
<1> QED BY <1>1, <1>2, RowStep, TypeCorrect, PTL DEF Spec

-----------------------------------------------------------------------------
(***************************************************************************)
(* A row of the conference measurement.                                    *)
(***************************************************************************)

Counting == {"asking", "sending", "busy", "done"}

ConfTypes ==
  /\ now \in Nat /\ alarm \in Nat /\ trig \in Nat
  /\ sub \in [Subs -> ConfStates]
  /\ timer \in [Subs -> Nat]
  /\ runner \in {"ready", "measure", "join", "done"}

\* The window that the runner measures begins at the trigger.
RowFromTrigger ==
  /\ Triggered => trig <= now
  /\ runner = "measure" => alarm = trig + Duration

\* A participant publishes after the trigger, and counts from there.
SendsFromTrigger(s) ==
  /\ sub[s] \in Counting => Triggered
  /\ sub[s] \in {"sending", "busy"} => timer[s] >= trig + Duration
  /\ sub[s] = "done" => now >= trig + Duration

MeshInv == ConfTypes /\ RowFromTrigger /\ \A s \in Subs : SendsFromTrigger(s)

LEMMA MeshInit == ConfInit => MeshInv
BY CapacityAssumption, ConferenceAssumption DEF ConfInit, MeshInv, ConfTypes, ConfStates,
  RowFromTrigger, SendsFromTrigger, Triggered, Counting

(***************************************************************************)
(* A step of one participant, which leaves the clock and the runner alone. *)
(***************************************************************************)
LEMMA ParticipantStep ==
  ASSUME MeshInv, NEW s \in Subs, NEW to \in ConfStates,
         SubMoves(s, to), OtherTasks, now' = now,
         timer' \in [Subs -> Nat],
         \A q \in Subs \ {s} : timer'[q] = timer[q],
         to \in Counting => Triggered,
         to \in {"sending", "busy"} => timer'[s] >= trig + Duration,
         to = "done" => now >= trig + Duration
  PROVE  MeshInv'
<1>1. sub' \in [Subs -> ConfStates] /\ sub'[s] = to /\ \A q \in Subs \ {s} : sub'[q] = sub[q]
  BY DEF SubMoves, MeshInv, ConfTypes
<1>2. ConfTypes' /\ RowFromTrigger'
  BY <1>1 DEF MeshInv, ConfTypes, OtherTasks, RowFromTrigger, Triggered
<1>3. ASSUME NEW q \in Subs PROVE SendsFromTrigger(q)'
  BY <1>1 DEF MeshInv, SendsFromTrigger, OtherTasks, Triggered
<1> QED
  BY <1>2, <1>3 DEF MeshInv

LEMMA MeshStep ==
  ASSUME MeshInv, [ConfNext]_confVars
  PROVE  MeshInv'
<1>c. Duration \in Nat /\ SetupTimeout \in Nat /\ PubSlack \in Nat /\ Poll \in Nat
  BY CapacityAssumption
<1>0. CASE UNCHANGED <<now, sub, timer, runner, alarm, trig>>
  BY <1>0 DEF MeshInv, ConfTypes, RowFromTrigger, SendsFromTrigger, Triggered
<1>1. ASSUME NEW s \in Subs, ConfAcquires(s) PROVE MeshInv'
  <2>1. timer' \in [Subs -> Nat] /\ \A q \in Subs \ {s} : timer'[q] = timer[q]
    BY <1>1, <1>c DEF ConfAcquires, AcquirePermit, MeshInv, ConfTypes
  <2> QED
    BY <1>1, <2>1, ParticipantStep, "setup" \in ConfStates, "setup" \notin Counting
    DEF ConfAcquires, AcquirePermit, ConfStates, Counting
<1>2. ASSUME NEW s \in Subs, ConfSetup(s) PROVE MeshInv'
  <2>1. /\ OtherTasks /\ UNCHANGED <<now, timer>>
        /\ SubMoves(s, "wait") \/ SubMoves(s, "failed")
    BY <1>2 DEF ConfSetup, ConfSetupDone, SetupFails
  <2>2. /\ "wait" \in ConfStates /\ "failed" \in ConfStates
        /\ "wait" \notin Counting /\ "failed" \notin Counting
    BY DEF ConfStates, Counting
  <2> QED
    BY <2>1, <2>2, ParticipantStep DEF MeshInv, ConfTypes
<1>3. ASSUME NEW s \in Subs, ConfTriggered(s) PROVE MeshInv'
  <2>1. timer' \in [Subs -> Nat] /\ \A q \in Subs \ {s} : timer'[q] = timer[q]
    BY <1>3, <1>c DEF ConfTriggered, MeshInv, ConfTypes
  <2> QED
    BY <1>3, <2>1, ParticipantStep, "asking" \in ConfStates
    DEF ConfTriggered, ConfStates
<1>4. ASSUME NEW s \in Subs, ConfPublished(s) PROVE MeshInv'
  <2>1. sub[s] \in Counting
    BY <1>4 DEF ConfPublished, Counting
  <2>2. /\ timer' \in [Subs -> Nat] /\ \A q \in Subs \ {s} : timer'[q] = timer[q]
        /\ timer'[s] >= trig + Duration /\ Triggered
    BY <1>4, <1>c, <2>1 DEF ConfPublished, DeadlineFrom, MeshInv, ConfTypes, RowFromTrigger,
      SendsFromTrigger
  <2> QED
    BY <1>4, <2>2, ParticipantStep, "sending" \in ConfStates
    DEF ConfPublished, ConfStates
<1>5. ASSUME NEW s \in Subs, ConfRefused(s) PROVE MeshInv'
  <2>1. "failed" \in ConfStates /\ "failed" \notin Counting
    BY DEF ConfStates, Counting
  <2> QED
    BY <1>5, <2>1, ParticipantStep DEF ConfRefused, MeshInv, ConfTypes
<1>6. ASSUME NEW s \in Subs, ConfTracksReady(s) \/ ConfAnswered(s) PROVE MeshInv'
  <2>1. /\ sub[s] \in {"sending", "busy"}
        /\ OtherTasks /\ UNCHANGED <<now, timer>>
        /\ SubMoves(s, "busy") \/ SubMoves(s, "sending")
    BY <1>6 DEF ConfTracksReady, ConfAnswered
  <2>2. Triggered /\ timer[s] >= trig + Duration
    BY <2>1 DEF MeshInv, SendsFromTrigger, Counting
  <2> QED
    BY <2>1, <2>2, ParticipantStep, "busy" \in ConfStates, "sending" \in ConfStates
    DEF MeshInv, ConfTypes, ConfStates
<1>7. ASSUME NEW s \in Subs, ConfDeadline(s) PROVE MeshInv'
  <2>1. Triggered /\ now >= trig + Duration
    BY <1>7, <1>c DEF ConfDeadline, MeshInv, SendsFromTrigger, Counting, ConfTypes
  <2> QED
    BY <1>7, <2>1, ParticipantStep, "done" \in ConfStates
    DEF ConfDeadline, MeshInv, ConfTypes, ConfStates
<1>8. CASE ReadyPoll
  <2>1. UNCHANGED <<now, sub, timer>> /\ runner = "ready"
    BY <1>8 DEF ReadyPoll, OtherThanRunner
  <2>2. \A s \in Subs : sub[s] \notin Counting
    BY <2>1 DEF MeshInv, SendsFromTrigger, Triggered
  <2>3. ConfTypes' /\ RowFromTrigger'
    BY <1>8, <1>c, <2>1 DEF ReadyPoll, MeshInv, ConfTypes, RowFromTrigger, Triggered
  <2>4. \A s \in Subs : SendsFromTrigger(s)'
    BY <2>1, <2>2 DEF SendsFromTrigger, Counting
  <2> QED
    BY <2>3, <2>4 DEF MeshInv
<1>9. CASE Measured \/ Aggregate
  <2>1. /\ UNCHANGED <<now, sub, timer, alarm, trig>>
        /\ runner # "ready" /\ runner' \in {"join", "done"}
    BY <1>9 DEF Measured, Aggregate, OtherThanRunner
  <2> QED
    BY <2>1 DEF MeshInv, ConfTypes, RowFromTrigger, SendsFromTrigger, Triggered
<1>10. CASE ConfAdvance
  <2>1. now' = now + 1 /\ UNCHANGED <<sub, timer, runner, alarm, trig>>
    BY <1>10 DEF ConfAdvance
  <2> QED
    BY <1>c, <2>1 DEF MeshInv, ConfTypes, RowFromTrigger, SendsFromTrigger, Triggered
<1>11. OpenRoom => UNCHANGED <<now, sub, timer, runner, alarm, trig>>
  BY DEF OpenRoom, vars
<1>12. ASSUME NEW s \in Subs, ConfReceive(s) PROVE UNCHANGED <<now, sub, timer, runner, alarm, trig>>
  BY <1>12 DEF ConfReceive, OtherTasks
<1> QED
  BY <1>0, <1>1, <1>2, <1>3, <1>4, <1>5, <1>6, <1>7, <1>8, <1>9, <1>10, <1>11, <1>12
  DEF ConfNext, ConfAsked, ConfRunner, RunnerRuns, confVars, vars

(***************************************************************************)
(* While the runner measures, nobody who was set up has stopped sending    *)
(* (run_conf_bot, run_one_conf).                                           *)
(***************************************************************************)
THEOREM MeshLastsTheRow == ConfSpec => []MeshLasts
<1>1. ConfInit => MeshInv
  BY MeshInit
<1>2. MeshInv /\ [ConfNext]_confVars => MeshInv'
  BY MeshStep
<1>3. MeshInv => MeshLasts
  BY CapacityAssumption DEF MeshInv, ConfTypes, RowFromTrigger, SendsFromTrigger, MeshLasts
<1> QED
  BY <1>1, <1>2, <1>3, PTL DEF ConfSpec

(***************************************************************************)
(* The semaphore and the counters of a conference row are those of a row   *)
(* with a publisher, and what is known of them is known here: a bot that   *)
(* set up adds one to ready, and every task has ended when the counters    *)
(* are read (run_one_conf).                                                *)
(***************************************************************************)
ConfRowInv ==
  /\ permits \in Int /\ ready \in Nat /\ pub = "done"
  /\ PermitsConserved /\ ReadyInv /\ EarlyTriggerMeansReady /\ RowInv

LEMMA ConfRowInit == ConfInit => ConfRowInv
<1> SUFFICES ASSUME ConfInit PROVE ConfRowInv
  OBVIOUS
<1>1. PICK st \in {"setup", "wait", "failed"} :
        /\ sub = [s \in Subs |-> IF s = Creator THEN st ELSE "waiting"]
        /\ permits = IF st = "setup" THEN MaxPermits - 1 ELSE MaxPermits
        /\ ready = IF st = "wait" THEN 1 ELSE 0
  BY DEF ConfInit
<1>2. PermitsConserved /\ permits \in Int
  <2>1. CASE st = "setup"
    <3>1. SettingUp = {Creator}
      BY <1>1, <2>1, ConferenceAssumption DEF SettingUp
    <3>2. Cardinality(SettingUp) = 1
      BY <3>1, FS_Singleton
    <3> QED
      BY <1>1, <2>1, <3>2, CapacityAssumption DEF PermitsConserved
  <2>2. CASE st # "setup"
    <3>1. SettingUp = {}
      BY <1>1, <2>2 DEF SettingUp
    <3>2. Cardinality(SettingUp) = 0
      BY <3>1, FS_EmptySet
    <3> QED
      BY <1>1, <2>2, <3>2, CapacityAssumption DEF PermitsConserved
  <2> QED
    BY <2>1, <2>2
<1>3. ReadyInv /\ ready \in Nat
  <2>1. CASE st = "wait"
    <3>1. SetUp # {}
      BY <1>1, <2>1, ConferenceAssumption DEF SetUp
    <3>2. Cardinality(SetUp) # 0
      BY <3>1, SetUpFinite, FS_EmptySet
    <3> QED
      BY <1>1, <2>1, <3>2, SetUpFinite DEF ReadyInv
  <2>2. CASE st # "wait"
    BY <1>1, <2>2, SetUpFinite DEF ReadyInv
  <2> QED
    BY <2>1, <2>2
<1>4. EarlyTriggerMeansReady /\ RowInv /\ pub = "done"
  BY DEF ConfInit, EarlyTriggerMeansReady, Triggered, RowInv
<1> QED
  BY <1>2, <1>3, <1>4 DEF ConfRowInv

\* A participant in the room after its setup, which no permit and no counter knows.
LEMMA LaterMoves ==
  ASSUME ConfTypes, ConfRowInv, NEW s \in Subs, NEW to \in ConfStates \ {"waiting", "setup"},
         sub[s] \notin {"waiting", "setup", "done", "failed"}, SubMoves(s, to), OtherTasks,
         UNCHANGED <<permits, ready, active>>
  PROVE  ConfRowInv'
<1>1. sub' = [sub EXCEPT ![s] = to] /\ UNCHANGED <<pub, runner, alarm, trig, row>>
  BY DEF SubMoves, OtherTasks
<1>2. SettingUp' = SettingUp /\ SetUp' = SetUp
  BY <1>1 DEF ConfTypes, SettingUp, SetUp
<1>3. PermitsConserved' /\ ReadyInv'
  BY <1>2 DEF ConfRowInv, PermitsConserved, ReadyInv
<1>4. EarlyTriggerMeansReady'
  BY <1>1, <1>2 DEF ConfRowInv, EarlyTriggerMeansReady, Triggered, SetUp
<1>5. RowInv'
  BY <1>1 DEF ConfRowInv, RowInv, SubsEnded
<1> QED
  BY <1>1, <1>3, <1>4, <1>5 DEF ConfRowInv

(***************************************************************************)
(* Every step keeps them (run_conf_bot, run_one_conf).                     *)
(***************************************************************************)
LEMMA ConfRowStep ==
  ASSUME ConfTypes, ConfRowInv, [ConfNext]_confVars
  PROVE  ConfRowInv'
<1>t. sub \in [Subs -> ConfStates] /\ now \in Nat /\ permits \in Int /\ ready \in Nat
  BY DEF ConfTypes, ConfRowInv
<1>0. CASE UNCHANGED <<sub, permits, ready, pub, runner, trig, row, active>>
  BY <1>0 DEF ConfRowInv, PermitsConserved, SettingUp, ReadyInv, SetUp,
    EarlyTriggerMeansReady, Triggered, RowInv, SubsEnded
<1>1. ASSUME NEW s \in Subs, ConfAcquires(s) PROVE ConfRowInv'
  <2>1. /\ sub[s] = "waiting" /\ sub' = [sub EXCEPT ![s] = "setup"] /\ permits' = permits - 1
        /\ UNCHANGED <<ready, active, pub, runner, trig, row>>
    BY <1>1 DEF ConfAcquires, AcquirePermit, SubMoves, OtherTasks
  <2>2. SettingUp' = SettingUp \cup {s} /\ s \notin SettingUp /\ SetUp' = SetUp
    BY <1>t, <2>1 DEF SettingUp, SetUp
  <2>3. Cardinality(SettingUp') = Cardinality(SettingUp) + 1
    BY <2>2, SettingUpFinite, FS_AddElement
  <2>4. PermitsConserved' /\ permits' \in Int
    BY <1>t, <2>1, <2>3, SettingUpFinite, CapacityAssumption DEF ConfRowInv, PermitsConserved
  <2>5. ReadyInv' /\ EarlyTriggerMeansReady'
    BY <2>1, <2>2 DEF ConfRowInv, ReadyInv, EarlyTriggerMeansReady, Triggered, SetUp
  <2>6. RowInv'
    BY <2>1 DEF ConfRowInv, RowInv, SubsEnded
  <2> QED
    BY <2>1, <2>4, <2>5, <2>6 DEF ConfRowInv
<1>2. ASSUME NEW s \in Subs, ConfSetup(s) PROVE ConfRowInv'
  <2>1. /\ sub[s] = "setup" /\ permits' = permits + 1 /\ ready' \in {ready, ready + 1}
        /\ UNCHANGED <<active, pub, runner, trig, row>>
        /\ \E to \in {"wait", "failed"} : sub' = [sub EXCEPT ![s] = to]
    BY <1>2 DEF ConfSetup, ConfSetupDone, SetupFails, SubMoves, OtherTasks
  <2>2. /\ SettingUp' = SettingUp \ {s} /\ s \in SettingUp
        /\ SetUp' = SetUp \cup {s} /\ s \notin SetUp
    BY <1>t, <2>1 DEF SettingUp, SetUp
  <2>3. /\ Cardinality(SettingUp') = Cardinality(SettingUp) - 1
        /\ Cardinality(SetUp') = Cardinality(SetUp) + 1
    BY <2>2, SettingUpFinite, SetUpFinite, FS_AddElement, FS_RemoveElement
  <2>4. PermitsConserved' /\ permits' \in Int
    BY <1>t, <2>1, <2>3, SettingUpFinite, CapacityAssumption DEF ConfRowInv, PermitsConserved
  <2>5. ReadyInv' /\ ready' \in Nat
    BY <1>t, <2>1, <2>3, SetUpFinite DEF ConfRowInv, ReadyInv
  <2>6. EarlyTriggerMeansReady'
    BY <2>1, <2>2 DEF ConfRowInv, EarlyTriggerMeansReady, Triggered, SetUp
  <2>7. RowInv'
    BY <2>1 DEF ConfRowInv, RowInv, SubsEnded
  <2> QED
    BY <2>1, <2>4, <2>5, <2>6, <2>7 DEF ConfRowInv
<1>3. ASSUME NEW s \in Subs, ConfAsked(s) PROVE ConfRowInv'
  <2>1. /\ sub[s] \in {"wait", "asking"} /\ OtherTasks /\ UNCHANGED <<permits, ready, active>>
        /\ SubMoves(s, "asking") \/ SubMoves(s, "sending") \/ SubMoves(s, "failed")
    BY <1>3 DEF ConfAsked, ConfTriggered, ConfPublished, ConfRefused
  <2> QED
    BY <2>1, LaterMoves DEF ConfStates
<1>4. ASSUME NEW s \in Subs, ConfTracksReady(s) \/ ConfAnswered(s) \/ ConfDeadline(s)
      PROVE  ConfRowInv'
  <2>1. /\ sub[s] \in {"sending", "busy"} /\ OtherTasks
        /\ UNCHANGED <<permits, ready, active>>
        /\ SubMoves(s, "busy") \/ SubMoves(s, "sending") \/ SubMoves(s, "done")
    BY <1>4 DEF ConfTracksReady, ConfAnswered, ConfDeadline
  <2> QED
    BY <2>1, LaterMoves DEF ConfStates
<1>5. ASSUME NEW s \in Subs, ConfReceive(s) PROVE ConfRowInv'
  <2>1. /\ sub[s] = "sending" /\ UNCHANGED <<sub, permits, ready, pub, runner, trig, row>>
    BY <1>5 DEF ConfReceive, OtherTasks
  <2>2. RowInv'
    BY <2>1 DEF ConfRowInv, RowInv, SubsEnded
  <2> QED
    BY <2>1, <2>2 DEF ConfRowInv, PermitsConserved, SettingUp, ReadyInv, SetUp,
      EarlyTriggerMeansReady, Triggered
<1>6. CASE ReadyPoll
  <2>1. /\ UNCHANGED <<sub, permits, ready, pub, row, active>> /\ runner' # "done"
        /\ ~Triggered
    BY <1>6 DEF ReadyPoll, OtherThanRunner, Triggered
  <2>2. SettingUp' = SettingUp /\ SetUp' = SetUp
    BY <2>1 DEF SettingUp, SetUp
  <2>3. ASSUME Triggered', trig' < ReadyCap PROVE SetUp = Subs
    <3>1. trig' = now /\ (ready >= Cardinality(Subs) \/ now >= ReadyCap)
      BY <1>6, <2>3 DEF ReadyPoll, Triggered
    <3>2. ready >= Cardinality(Subs)
      BY <1>t, <2>3, <3>1, CapacityAssumption
    <3>3. Cardinality(Subs) \in Nat
      BY CapacityAssumption, FS_CardinalityType
    <3>4. Cardinality(SetUp) >= Cardinality(Subs)
      BY <1>t, <3>2, <3>3, SetUpFinite DEF ConfRowInv, ReadyInv
    <3> QED
      BY <3>4, SetUpFinite
  <2>4. EarlyTriggerMeansReady'
    BY <2>2, <2>3 DEF EarlyTriggerMeansReady, SetUp
  <2> QED
    BY <2>1, <2>2, <2>4 DEF ConfRowInv, PermitsConserved, ReadyInv, RowInv
<1>7. CASE Measured \/ Aggregate
  <2>1. /\ UNCHANGED <<sub, permits, ready, pub, active, trig>> /\ Triggered
        /\ runner' = "done" => SubsEnded /\ row' = active
    BY <1>7 DEF Measured, Aggregate, OtherThanRunner, Triggered
  <2>2. SettingUp' = SettingUp /\ SetUp' = SetUp /\ SubsEnded' = SubsEnded
    BY <2>1 DEF SettingUp, SetUp, SubsEnded
  <2>3. EarlyTriggerMeansReady'
    BY <2>1 DEF ConfRowInv, EarlyTriggerMeansReady
  <2> QED
    BY <2>1, <2>2, <2>3 DEF ConfRowInv, PermitsConserved, ReadyInv, RowInv
<1>8. OpenRoom \/ ConfAdvance => UNCHANGED <<sub, permits, ready, pub, runner, trig, row, active>>
  BY DEF OpenRoom, ConfAdvance, vars
<1> QED
  BY <1>0, <1>1, <1>2, <1>3, <1>4, <1>5, <1>6, <1>7, <1>8
  DEF ConfNext, ConfRunner, RunnerRuns, confVars, vars

(***************************************************************************)
(* A conference row takes no permit away, is triggered early only for a    *)
(* room in which everybody has set up, and reads counters that nothing     *)
(* changes any more, although the creator sets up ahead of the others and  *)
(* is counted before the runner looks (run_one_conf, run_conf_bot).        *)
(***************************************************************************)
THEOREM ConferenceRow ==
  ConfSpec => [](PermitsConserved /\ EarlyTriggerMeansReady /\ RowIsFinal)
<1>1. ConfInit => MeshInv /\ ConfRowInv
  BY MeshInit, ConfRowInit
<1>2. MeshInv /\ ConfRowInv /\ [ConfNext]_confVars => (MeshInv /\ ConfRowInv)'
  BY MeshStep, ConfRowStep DEF MeshInv
<1>3. ConfRowInv => PermitsConserved /\ EarlyTriggerMeansReady /\ RowIsFinal
  BY DEF ConfRowInv, RowInv, RowIsFinal
<1> QED
  BY <1>1, <1>2, <1>3, PTL DEF ConfSpec

\* A conference row has no publisher of its own.
LEMMA NoPublisherInMesh == ConfSpec => []WindowCovered
<1>1. ConfInit => MeshInv /\ ConfRowInv
  BY MeshInit, ConfRowInit
<1>2. MeshInv /\ ConfRowInv /\ [ConfNext]_confVars => (MeshInv /\ ConfRowInv)'
  BY MeshStep, ConfRowStep DEF MeshInv
<1>3. ConfRowInv => WindowCovered
  BY DEF ConfRowInv, WindowCovered
<1> QED
  BY <1>1, <1>2, <1>3, PTL DEF ConfSpec

\* The runner measures from the trigger in a row with a publisher, too.
LEMMA AlarmStep ==
  ASSUME IInv, RowFromTrigger, [Next]_vars
  PROVE  RowFromTrigger'
<1>t. now \in Nat
  BY DEF IInv, TypeOK
<1>1. CASE ReadyPoll \/ Measured \/ Aggregate
  BY <1>1, <1>t DEF ReadyPoll, Measured, Aggregate, OtherThanRunner, RowFromTrigger, Triggered
<1>2. CASE Advance
  <2>1. trig \in Nat
    BY DEF IInv, TypeOK
  <2> QED
    BY <1>2, <1>t, <2>1 DEF Advance, RowFromTrigger, Triggered
<1>3. CASE UNCHANGED <<now, runner, alarm, trig>>
  BY <1>3 DEF RowFromTrigger, Triggered
<1>4. ASSUME NEW s \in Subs,
             \/ AcquirePermit(s) \/ SetupDone(s) \/ SetupFails(s) \/ ReceiveRtp(s)
             \/ SendTracksReady(s) \/ TracksReadyAnswered(s) \/ SubDeadline(s) \/ RecvError(s)
      PROVE  UNCHANGED <<now, runner, alarm, trig>>
  BY <1>4 DEF AcquirePermit, SetupDone, SetupFails, ReceiveRtp, SendTracksReady,
    TracksReadyAnswered, SubDeadline, RecvError, OtherTasks
<1>5. PubReady \/ PubTriggered \/ Published \/ PubFails \/ PubDeadline
        => UNCHANGED <<now, runner, alarm, trig>>
  BY DEF PubReady, PubTriggered, Published, PubFails, PubDeadline, OtherThanPub
<1>6. UNCHANGED vars => UNCHANGED <<now, runner, alarm, trig>>
  BY DEF vars
<1> QED
  BY <1>1, <1>2, <1>3, <1>4, <1>5, <1>6 DEF Next

(***************************************************************************)
(* What MeshLasts says of participants holds of the subscribers of a row   *)
(* with a publisher, if the margin is at least a poll: they receive for as *)
(* long as the runner measures (run_subscriber, run_one).                  *)
(***************************************************************************)
THEOREM RunWindowOutlasts ==
  ASSUME Poll <= Margin
  PROVE  Spec => []MeshLasts
<1>c. /\ Poll \in Nat /\ Margin \in Nat /\ Duration \in Nat /\ ReadyCap \in Nat
  BY CapacityAssumption
<1>1. Init => RowFromTrigger
  BY DEF Init, RowFromTrigger, Triggered
<1>2. IInv /\ RowFromTrigger => MeshLasts
  <2> SUFFICES ASSUME IInv, RowFromTrigger, runner = "measure", now < alarm,
                      NEW s \in Subs, sub[s] = "done"
               PROVE  FALSE
    BY DEF MeshLasts
  <2>t. now \in Nat /\ trig \in Nat /\ timer[s] \in Nat
    BY DEF IInv, TypeOK
  <2>1. timer[s] >= run_window /\ now >= timer[s]
    BY DEF IInv, SubInv
  <2>2. alarm = trig + Duration /\ trig <= ReadyCap + Poll
    BY DEF IInv, RunnerInv, RowFromTrigger, Triggered
  <2> QED
    BY <1>c, <2>t, <2>1, <2>2 DEF run_window
<1> QED
  BY <1>1, <1>2, Invariance, AlarmStep, PTL DEF Spec
=============================================================================
