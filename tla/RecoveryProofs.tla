--------------------------- MODULE RecoveryProofs ---------------------------
(* For any number of alarms, any budget and any surroundings: what a policy   *)
(* decides has been admitted by the guard, an episode never begins more       *)
(* automated recoveries than its budget, the manager moves the robot only     *)
(* when every goal was told to cancel, and the runner's verdict did happen.   *)
EXTENDS RecoveryMission, FiniteSetTheorems, SequenceTheorems, TLAPS

-----------------------------------------------------------------------------
(* The decision.                                                             *)

\* A preference that falls back on a stop, then on assistance, is always admitted.
LEMMA OrElseAdmitted ==
  ASSUME NEW preferred, NEW s
  PROVE  OrElse(preferred, s) \in Eligible(s)
  <1>1. "request_assistance" \in Eligible(s)
    BY DEF Eligible, Actions, Admits
  <1>2. QED
    BY <1>1 DEF OrElse

\* decide_recovery: under every policy without learned costs the guard admits the
\* decision, whatever is asked for and diagnosed, and an exhausted budget leaves
\* nothing but assistance.
THEOREM GuardHasAuthority ==
  ASSUME NEW policy0, policy0 # "R3", NEW group, NEW cost, NEW s
  PROVE  /\ Decide(policy0, group, cost, s) \in Eligible(s)
         /\ Exhausted(s) => Decide(policy0, group, cost, s) = "request_assistance"
  <1>1. Decide(policy0, group, cost, s) \in Eligible(s)
    <2>1. CASE policy0 = "R1"
      BY <2>1, OrElseAdmitted DEF Decide
    <2>2. CASE policy0 = "R2"
      BY <2>2, OrElseAdmitted DEF Decide
    <2>3. CASE policy0 # "R1" /\ policy0 # "R2"
      BY <2>3, OrElseAdmitted DEF Decide
    <2>4. QED
      BY <2>1, <2>2, <2>3
  <1>2. QED
    BY <1>1 DEF Eligible

-----------------------------------------------------------------------------
(* The budget.  An automated sequence is begun for a warning with fewer than *)
(* MaxRecoveries alarms before it, and for each warning once.                *)

Waiting == phase \in {"stop", "settle", "decide"}
Budgeted == seen \cap 1..MaxRecoveries
Spent == IF Waiting THEN Budgeted \ {req} ELSE Budgeted

BudgetTypes ==
    /\ alarms \in Nat /\ alarms <= MaxAlarms
    /\ queue \in Seq(Ids) /\ seen \subseteq Ids
    /\ phase \in {"idle", "stop", "settle", "decide", "act"}
    /\ Waiting => req \in seen
    /\ executed \in Nat /\ begun \in Nat

BudgetInv == BudgetTypes /\ begun <= Cardinality(Spent)

LEMMA SpentBounded ==
  /\ IsFiniteSet(Spent) /\ Cardinality(Spent) \in Nat
  /\ Cardinality(Spent) <= MaxRecoveries
  <1>1. IsFiniteSet(1..MaxRecoveries) /\ Cardinality(1..MaxRecoveries) = MaxRecoveries
    BY MaxRecoveriesOK, FS_Interval
  <1>2. Spent \subseteq 1..MaxRecoveries
    BY DEF Spent, Budgeted
  <1>3. QED
    BY <1>1, <1>2, FS_Subset, FS_CardinalityType

\* More warnings spent and no new sequence: the bound stays.
LEMMA SpentMore ==
  ASSUME BudgetInv, BudgetTypes', Spent \subseteq Spent', begun' = begun
  PROVE  BudgetInv'
  <1>1. IsFiniteSet(Spent') /\ Cardinality(Spent') \in Nat
    <2>1. IsFiniteSet(1..MaxRecoveries)
      BY MaxRecoveriesOK, FS_Interval
    <2>2. Spent' \subseteq 1..MaxRecoveries
      BY DEF Spent, Budgeted
    <2>3. QED
      BY <2>1, <2>2, FS_Subset, FS_CardinalityType
  <1>2. Cardinality(Spent) <= Cardinality(Spent')
    BY <1>1, FS_Subset
  <1>3. QED
    BY <1>1, <1>2, SpentBounded DEF BudgetInv, BudgetTypes

LEMMA BudgetInit == Init => BudgetInv
  <1>1. SUFFICES ASSUME Init PROVE BudgetInv
    OBVIOUS
  <1>2. Spent = {}
    BY <1>1 DEF Init, Spent, Waiting, Budgeted
  <1>3. BudgetTypes
    BY <1>1, MissionOK DEF Init, BudgetTypes, Waiting
  <1>4. QED
    BY <1>1, <1>2, <1>3, FS_EmptySet DEF BudgetInv, Init

\* A request enters or leaves the queue.
LEMMA DeliverTyped ==
  ASSUME BudgetTypes, NEW id \in Ids, Deliver(id)
  PROVE  queue' \in Seq(Ids)
  <1>1. CASE Len(queue) < QueueDepth
    BY <1>1 DEF Deliver, BudgetTypes
  <1>2. CASE ~(Len(queue) < QueueDepth)
    <2>1. Len(queue) \in Nat /\ Len(queue) # 0
      BY <1>2, MissionOK DEF BudgetTypes
    <2>2. queue # <<>>
      BY <2>1
    <2>3. Tail(queue) \in Seq(Ids)
      BY <2>2 DEF BudgetTypes
    <2>4. QED
      BY <1>2, <2>3 DEF Deliver
  <1>3. QED
    BY <1>1, <1>2

\* Deciding on a request: a sequence is begun only inside the budget.
LEMMA BudgetDecided == BudgetInv /\ Decided => BudgetInv'
  <1>1. SUFFICES ASSUME BudgetInv, Decided PROVE BudgetInv'
    OBVIOUS
  <1>2. PICK near \in Nearby, estimate \in BOOLEAN, group \in Groups, cost \in Costs :
          LET told == [near |-> near, count |-> Budget,
                       stopped |-> IF basis = "monitor" THEN estimate ELSE measured]
              a == Decide(policy, group, cost, told)
          IN  IF MayExecute(a, told)
              THEN /\ phase' = "act" /\ todo' = Sequence(a)
                   /\ state' = told /\ action' = a
                   /\ begun' = IF a = "request_assistance" THEN begun ELSE begun + 1
                   /\ UNCHANGED <<req, basis>>
              ELSE Return /\ UNCHANGED <<todo, begun>>
    BY <1>1 DEF Decided
  <1> DEFINE told == [near |-> near, count |-> Budget,
                      stopped |-> IF basis = "monitor" THEN estimate ELSE measured]
             a == Decide(policy, group, cost, told)
  <1>3. /\ phase = "decide" /\ seen' = seen /\ queue' = queue /\ alarms' = alarms
        /\ executed' = executed
    BY <1>1 DEF Decided, inbox
  <1>4. phase' \in {"idle", "act"}
    BY <1>2 DEF Return
  <1>5. Spent' = Budgeted /\ Spent = Budgeted \ {req} /\ req \in Ids
    BY <1>1, <1>3, <1>4 DEF Spent, Waiting, Budgeted, BudgetInv, BudgetTypes
  <1>6. CASE MayExecute(a, told) /\ a # "request_assistance"
    <2>1. begun' = begun + 1
      BY <1>2, <1>6
    <2>2. told.count < MaxRecoveries
      <3>1. ~Exhausted(told)
        BY <1>6 DEF MayExecute, Eligible
      <3>2. told.count = Budget /\ Budget \in Int
        BY <1>1, <1>5 DEF Budget, RecoveryCount, BudgetInv, BudgetTypes, Ids
      <3>3. QED
        BY <3>1, <3>2, MaxRecoveriesOK DEF Exhausted
    <2>3. req <= MaxRecoveries
      BY <1>1, <1>5, <2>2, MaxRecoveriesOK, MissionOK
      DEF Budget, RecoveryCount, BudgetInv, BudgetTypes, Ids
    <2>4. req \in Budgeted
      BY <1>1, <1>3, <1>5, <2>3, MaxRecoveriesOK, MissionOK
      DEF Budgeted, BudgetInv, BudgetTypes, Waiting, Ids
    <2>5. Cardinality(Budgeted) = Cardinality(Spent) + 1
      <3>1. IsFiniteSet(Budgeted)
        <4>1. IsFiniteSet(1..MaxRecoveries)
          BY MaxRecoveriesOK, FS_Interval
        <4>2. Budgeted \subseteq 1..MaxRecoveries
          BY DEF Budgeted
        <4>3. QED
          BY <4>1, <4>2, FS_Subset
      <3>2. Cardinality(Budgeted \ {req}) = Cardinality(Budgeted) - 1
        BY <2>4, <3>1, FS_RemoveElement
      <3>3. Cardinality(Budgeted) \in Nat
        BY <3>1, FS_CardinalityType
      <3>4. QED
        BY <1>5, <3>2, <3>3
    <2>6. BudgetTypes'
      BY <1>1, <1>3, <1>4, <2>1 DEF BudgetInv, BudgetTypes, Waiting
    <2>7. QED
      BY <1>1, <1>5, <2>1, <2>5, <2>6, SpentBounded DEF BudgetInv, BudgetTypes
  <1>7. CASE ~(MayExecute(a, told) /\ a # "request_assistance")
    <2>1. begun' = begun
      BY <1>2, <1>7
    <2>2. BudgetTypes'
      BY <1>1, <1>3, <1>4, <2>1 DEF BudgetInv, BudgetTypes, Waiting
    <2>3. QED
      BY <1>1, <1>5, <2>1, <2>2, SpentMore
  <1>8. QED
    BY <1>6, <1>7

LEMMA BudgetStep == BudgetInv /\ [Next]_vars => BudgetInv'
  <1>1. SUFFICES ASSUME BudgetInv, [Next]_vars PROVE BudgetInv'
    OBVIOUS
  <1> USE DEF inbox, callback, nav2, robot, runner
  <1>2. ASSUME UNCHANGED <<callback, inbox>> PROVE BudgetInv'
    <2>1. BudgetTypes'
      BY <1>1, <1>2 DEF BudgetInv, BudgetTypes, Waiting
    <2>2. Spent' = Spent /\ begun' = begun
      BY <1>2 DEF Spent, Waiting, Budgeted
    <2>3. QED
      BY <1>1, <2>1, <2>2, SpentMore
  <1>3. ASSUME Alarm \/ Redeliver PROVE BudgetInv'
    <2>1. queue' \in Seq(Ids) /\ alarms' \in Nat /\ alarms' <= MaxAlarms
      <3>1. CASE Alarm
        BY <1>1, <3>1, MissionOK, DeliverTyped DEF Alarm, BudgetInv, BudgetTypes, Ids
      <3>2. CASE Redeliver
        BY <1>1, <3>2, MissionOK, DeliverTyped DEF Redeliver, BudgetInv, BudgetTypes, Ids
      <3>3. QED
        BY <1>3, <3>1, <3>2
    <2>2. UNCHANGED callback
      BY <1>3 DEF Alarm, Redeliver
    <2>3. BudgetTypes'
      BY <1>1, <2>1, <2>2 DEF BudgetInv, BudgetTypes, Waiting
    <2>4. Spent' = Spent /\ begun' = begun
      BY <2>2 DEF Spent, Waiting, Budgeted
    <2>5. QED
      BY <1>1, <2>3, <2>4, SpentMore
  <1>4. ASSUME Receive PROVE BudgetInv'
    <2>1. Head(queue) \in Ids /\ queue' \in Seq(Ids)
      BY <1>1, <1>4 DEF Receive, BudgetInv, BudgetTypes
    <2>2. /\ seen' = seen \cup {Head(queue)} /\ Head(queue) \notin seen
          /\ req' = Head(queue) /\ phase' \in {"stop", "decide"} /\ phase = "idle"
          /\ begun' = begun /\ executed' = executed /\ alarms' = alarms
      BY <1>4 DEF Receive, Handle, FirstTime
    <2>3. BudgetTypes'
      BY <1>1, <2>1, <2>2 DEF BudgetInv, BudgetTypes, Waiting
    <2>4. Spent \subseteq Spent'
      BY <2>2 DEF Spent, Waiting, Budgeted
    <2>5. QED
      BY <1>1, <2>2, <2>3, <2>4, SpentMore
  <1>5. ASSUME Duplicate PROVE BudgetInv'
    <2>1. queue' \in Seq(Ids) /\ UNCHANGED callback /\ alarms' = alarms
      BY <1>1, <1>5 DEF Duplicate, BudgetInv, BudgetTypes
    <2>2. BudgetTypes'
      BY <1>1, <2>1 DEF BudgetInv, BudgetTypes, Waiting
    <2>3. Spent' = Spent /\ begun' = begun
      BY <2>1 DEF Spent, Waiting, Budgeted
    <2>4. QED
      BY <1>1, <2>2, <2>3, SpentMore
  <1>6. ASSUME Perform \/ StopDone \/ SequenceDone \/ StopFails \/ SequenceFails
                 \/ Settle \/ DecideFails \/ Odom
        PROVE BudgetInv'
    <2>1. /\ UNCHANGED <<inbox, seen, begun>> /\ executed' \in Nat
          /\ phase' \in {"idle", "stop", "settle", "decide", "act"}
          /\ (Waiting' => Waiting /\ req' = req)
      BY <1>1, <1>6
      DEF Perform, StopDone, SequenceDone, StopFails, SequenceFails, Settle, DecideFails,
          Odom, Raises, Return, Waiting, BudgetInv, BudgetTypes
    <2>2. BudgetTypes'
      BY <1>1, <2>1 DEF BudgetInv, BudgetTypes
    <2>3. Spent \subseteq Spent' /\ begun' = begun
      BY <2>1 DEF Spent, Budgeted
    <2>4. QED
      BY <1>1, <2>2, <2>3, SpentMore
  <1>7. ASSUME \/ Answer \/ OwnEnds \/ OtherEnds \/ Collide \/ Runner \/ Observe
               \/ Unanswered \/ Deadline \/ CancelArrives \/ Finished \/ UNCHANGED vars
        PROVE UNCHANGED <<callback, inbox>>
    BY <1>7 DEF Answer, OwnEnds, OtherEnds, End, Collide, Runner, Accepted, Rejected,
                NotAccepted, SeeCollision, SeeResult, Follow, GraceExpires, Judge, Shutdown,
                Leave, Observe, Unanswered, Deadline, CancelArrives, Finished, vars
  <1>8. QED
    BY <1>1, <1>2, <1>3, <1>4, <1>5, <1>6, <1>7, BudgetDecided DEF Next, Manager

\* RecoveriesBounded: whatever requests are lost, repeated or fail, an episode begins at
\* most MaxRecoveries automated sequences.
THEOREM BudgetHolds == Spec => []RecoveriesBounded
  <1>1. BudgetInv => RecoveriesBounded
    BY SpentBounded, MaxRecoveriesOK DEF BudgetInv, BudgetTypes, RecoveriesBounded
  <1>2. QED
    BY BudgetInit, BudgetStep, <1>1, PTL DEF Spec

-----------------------------------------------------------------------------
(* Motion.  A sequence that is being performed belongs to an admitted action *)
(* and what is left of it is one of its ends; once its first step, the       *)
(* cancellation, has been performed every goal was told to cancel until the  *)
(* last step.                                                                *)

AfterCancel(a) == <<"zero_cmd_vel">> \o OwnSteps(a)
Resume == <<"resume_navigation">>

AllTold == own # "active" /\ other # "active"

Rest ==
    \/ todo = Sequence(action)
    \/ AllTold /\ todo \in {AfterCancel(action), OwnSteps(action), Resume}
    \/ todo = <<>>

\* No request is made before Nav2 executes the runner's goal.
NothingBefore == Started \/ (alarms = 0 /\ queue = <<>> /\ phase = "idle")

MotionInv == /\ phase = "act" => action \in Eligible(state) /\ Rest
             /\ NothingBefore

\* A step before a sequence: Head and Tail of the longer one.
LEMMA Prepend ==
  ASSUME NEW S, NEW e \in S, NEW s \in Seq(S)
  PROVE  /\ <<e>> \o s # <<>> /\ Head(<<e>> \o s) = e
         /\ Tail(<<e>> \o s) = s
  OBVIOUS

\* The ends of a sequence.
LEMMA SequenceEnds ==
  ASSUME NEW a \in Actions
  PROVE  /\ Sequence(a) # <<>> /\ Head(Sequence(a)) = "cancel_task"
         /\ Tail(Sequence(a)) = AfterCancel(a)
         /\ AfterCancel(a) # <<>> /\ Head(AfterCancel(a)) = "zero_cmd_vel"
         /\ Tail(AfterCancel(a)) = OwnSteps(a)
         /\ OwnSteps(a) = Resume \/ Head(OwnSteps(a)) = a
         /\ Head(Resume) = "resume_navigation" /\ Tail(Resume) = <<>>
         /\ OwnSteps(a) # Resume => Tail(OwnSteps(a)) \in {Resume, <<>>}
  <1> DEFINE Steps == Actions \cup {"cancel_task", "zero_cmd_vel", "resume_navigation"}
  <1>1. OwnSteps(a) \in {Resume, <<a>>, <<a, "resume_navigation">>}
    BY DEF OwnSteps, Resume
  <1>2. a \in Steps /\ OwnSteps(a) \in Seq(Steps)
    BY <1>1 DEF Resume
  <1>3. AfterCancel(a) \in Seq(Steps)
    BY <1>2 DEF AfterCancel
  <1>4. Sequence(a) = <<"cancel_task">> \o AfterCancel(a)
    BY <1>2 DEF Sequence, SafeStop, AfterCancel
  <1>5. Sequence(a) # <<>> /\ Head(Sequence(a)) = "cancel_task"
          /\ Tail(Sequence(a)) = AfterCancel(a)
    BY <1>3, <1>4, Prepend
  <1>6. AfterCancel(a) # <<>> /\ Head(AfterCancel(a)) = "zero_cmd_vel"
          /\ Tail(AfterCancel(a)) = OwnSteps(a)
    BY <1>2, Prepend DEF AfterCancel
  <1>7. Head(Resume) = "resume_navigation" /\ Tail(Resume) = <<>>
    BY DEF Resume
  <1>8. OwnSteps(a) # Resume =>
          Head(OwnSteps(a)) = a /\ Tail(OwnSteps(a)) \in {Resume, <<>>}
    <2>1. CASE OwnSteps(a) = <<a>>
      <3>1. Head(<<a>>) = a /\ Tail(<<a>>) = <<>>
        OBVIOUS
      <3>2. QED
        BY <2>1, <3>1
    <2>2. CASE OwnSteps(a) = <<a, "resume_navigation">>
      <3>1. /\ Head(<<a, "resume_navigation">>) = a
            /\ Tail(<<a, "resume_navigation">>) = <<"resume_navigation">>
        OBVIOUS
      <3>2. QED
        BY <2>2, <3>1 DEF Resume
    <2>3. QED
      BY <1>1, <2>1, <2>2
  <1>9. QED
    BY <1>5, <1>6, <1>7, <1>8

\* What the steps of a sequence do to the goals.
LEMMA EffectTold ==
  ASSUME NEW step, Effect(step)
  PROVE  /\ step # "resume_navigation" /\ AllTold => AllTold'
         /\ step = "cancel_task" => AllTold'
         /\ Started => Started'
         /\ own' \in {own, "canceling"} /\ other' \in {other, "canceling", "active"}
  BY DEF Effect, CancelGoals, Told, AllTold, Started

\* A step of a sequence.
LEMMA MotionPerform == MotionInv /\ Perform => MotionInv'
  <1>1. SUFFICES ASSUME MotionInv, Perform PROVE MotionInv'
    OBVIOUS
  <1>2. /\ phase' = phase /\ phase # "idle" /\ action' = action /\ state' = state
        /\ todo # <<>> /\ todo' = Tail(todo) /\ Effect(Head(todo))
    BY <1>1 DEF Perform
  <1>3. NothingBefore'
    BY <1>1, <1>2, EffectTold DEF MotionInv, NothingBefore
  <1>4. ASSUME phase = "act" PROVE action' \in Eligible(state') /\ Rest'
    <2>1. action \in Eligible(state) /\ Rest
      BY <1>1, <1>4 DEF MotionInv
    <2>2. action \in Actions
      BY <2>1 DEF Eligible, Actions
    <2>3. CASE todo = Sequence(action)
      <3>1. Head(todo) = "cancel_task" /\ todo' = AfterCancel(action)
        BY <1>2, <2>2, <2>3, SequenceEnds
      <3>2. AllTold'
        BY <1>2, <3>1, EffectTold
      <3>3. QED
        BY <1>2, <2>1, <3>1, <3>2 DEF Rest
    <2>4. CASE AllTold /\ todo = AfterCancel(action)
      <3>1. Head(todo) = "zero_cmd_vel" /\ todo' = OwnSteps(action)
        BY <1>2, <2>2, <2>4, SequenceEnds
      <3>2. AllTold'
        BY <1>2, <2>4, <3>1, EffectTold
      <3>3. QED
        BY <1>2, <2>1, <3>1, <3>2 DEF Rest
    <2>5. CASE todo = Resume
      <3>1. todo' = <<>>
        BY <1>2, <2>2, <2>5, SequenceEnds
      <3>2. QED
        BY <1>2, <2>1, <3>1 DEF Rest
    <2>6. CASE AllTold /\ todo = OwnSteps(action) /\ todo # Resume
      <3>1. Head(todo) \in Actions /\ todo' \in {Resume, <<>>}
        BY <1>2, <2>2, <2>6, SequenceEnds
      <3>2. AllTold'
        BY <1>2, <2>6, <3>1, EffectTold DEF Actions
      <3>3. QED
        BY <1>2, <2>1, <3>1, <3>2 DEF Rest
    <2>7. QED
      BY <1>2, <2>1, <2>3, <2>4, <2>5, <2>6 DEF Rest
  <1>5. QED
    BY <1>2, <1>3, <1>4 DEF MotionInv

\* A step that leaves the sequence alone, and starts a goal only while nothing runs.
LEMMA MotionQuiet ==
  ASSUME MotionInv, phase' = "act" => UNCHANGED <<phase, todo, state, action>>,
         NothingBefore', phase' = "act" /\ AllTold => AllTold'
  PROVE  MotionInv'
  <1>1. CASE phase' = "act"
    <2>1. UNCHANGED <<phase, todo, state, action>>
      BY <1>1
    <2>2. action \in Eligible(state) /\ Rest
      BY <1>1, <2>1 DEF MotionInv
    <2>3. QED
      BY <1>1, <2>1, <2>2 DEF MotionInv, Rest
  <1>2. QED
    BY <1>1 DEF MotionInv

\* The steps of the surroundings and of the runner that start no goal.
Elsewhere ==
    \/ Alarm \/ Redeliver \/ OwnEnds \/ OtherEnds \/ Collide \/ Odom \/ Runner \/ Observe
    \/ Unanswered \/ Deadline \/ CancelArrives \/ Finished \/ UNCHANGED vars

LEMMA ElsewhereQuiet ==
  ASSUME Elsewhere
  PROVE  /\ UNCHANGED <<phase, seen, req, todo, state, action, executed>>
         /\ own' \in {own, "canceling", "succeeded", "canceled", "aborted"}
         /\ other' \in {other, "canceling", "succeeded", "canceled", "aborted"}
  BY DEF Elsewhere, Alarm, Redeliver, OwnEnds, OtherEnds, End, Collide, Odom, Runner,
         Accepted, Rejected, NotAccepted, SeeCollision, SeeResult, Follow, GraceExpires,
         Judge, Shutdown, Leave, Observe, Unanswered, Deadline, CancelArrives, CancelGoals,
         Told, Finished, vars, inbox, callback, nav2, robot, runner

LEMMA ElsewhereBefore == NothingBefore /\ Elsewhere => NothingBefore'
  <1>1. SUFFICES ASSUME NothingBefore, Elsewhere PROVE NothingBefore'
    OBVIOUS
  <1>2. phase' = phase /\ own' \in {own, "canceling", "succeeded", "canceled", "aborted"}
    BY <1>1, ElsewhereQuiet
  <1>3. CASE Started
    BY <1>2, <1>3 DEF NothingBefore, Started
  <1>4. CASE ~Started
    <2>1. ~Alarm /\ ~Redeliver
      BY <1>1, <1>4 DEF NothingBefore, Alarm, Redeliver
    <2>2. alarms' = alarms /\ queue' = queue
      BY <1>1, <2>1
      DEF Elsewhere, OwnEnds, OtherEnds, End, Collide, Odom, Runner, Accepted, Rejected,
          NotAccepted, SeeCollision, SeeResult, Follow, GraceExpires, Judge, Shutdown,
          Leave, Observe, Unanswered, Deadline, CancelArrives, Finished, vars, inbox
    <2>3. QED
      BY <1>1, <1>2, <1>4, <2>2 DEF NothingBefore
  <1>5. QED
    BY <1>3, <1>4

\* The manager's steps other than performing one of a sequence.
LEMMA ManagerQuiet ==
  ASSUME Manager, ~Perform
  PROVE  /\ own' \in {own, "canceling"} /\ other' \in {other, "canceling"}
         /\ UNCHANGED <<alarms, runner, arrived, aborted>>
         /\ queue' = queue \/ queue # <<>>
         /\ phase = "idle" => phase' = "idle" \/ queue # <<>>
  BY DEF Manager, Receive, Handle, Duplicate, StopDone, SequenceDone, StopFails,
         SequenceFails, Settle, Decided, DecideFails, Raises, Return, Told, inbox, callback,
         nav2, robot, runner

LEMMA MotionStep == MotionInv /\ [Next]_vars => MotionInv'
  <1>1. SUFFICES ASSUME MotionInv, [Next]_vars PROVE MotionInv'
    OBVIOUS
  <1>2. CASE Perform
    BY <1>1, <1>2, MotionPerform
  <1>3. CASE Manager /\ ~Perform
    <2>1. NothingBefore' /\ (AllTold => AllTold')
      BY <1>1, <1>3, ManagerQuiet DEF MotionInv, NothingBefore, Started, AllTold
    <2>2. CASE Decided
      <3>1. phase' = "act" => action' \in Eligible(state') /\ todo' = Sequence(action')
        BY <2>2 DEF Decided, MayExecute, Return
      <3>2. QED
        BY <2>1, <3>1 DEF MotionInv, Rest
    <2>3. CASE ~Decided
      <3>1. phase' = "act" => UNCHANGED <<phase, todo, state, action>>
        BY <1>3, <2>3
        DEF Manager, Receive, Handle, Duplicate, StopDone, SequenceDone, StopFails,
            SequenceFails, Settle, DecideFails, Raises, Return, callback
      <3>2. QED
        BY <1>1, <2>1, <3>1, MotionQuiet
    <2>4. QED
      BY <2>2, <2>3
  <1>4. CASE Answer
    <2>1. own = "unsent" /\ UNCHANGED <<alarms, queue, phase>>
      BY <1>4 DEF Answer, inbox, callback
    <2>2. phase = "idle" /\ alarms = 0 /\ queue = <<>>
      BY <1>1, <2>1 DEF MotionInv, NothingBefore, Started
    <2>3. QED
      BY <2>1, <2>2 DEF MotionInv, NothingBefore
  <1>5. CASE Elsewhere
    <2>1. UNCHANGED <<phase, todo, state, action>> /\ (AllTold => AllTold')
      BY <1>5, ElsewhereQuiet DEF AllTold
    <2>2. NothingBefore'
      BY <1>1, <1>5, ElsewhereBefore DEF MotionInv
    <2>3. QED
      BY <1>1, <2>1, <2>2, MotionQuiet
  <1>6. QED
    BY <1>1, <1>2, <1>3, <1>4, <1>5 DEF Next, Elsewhere

\* MotionExclusive: whatever fails, arrives late or is cancelled by the runner, the
\* manager moves the robot only for an action the guard admitted and only when every
\* navigation goal was told to cancel.
THEOREM MotionIsExclusive == Spec => []MotionExclusive
  <1>1. Init => MotionInv
    BY DEF Init, MotionInv, NothingBefore
  <1>2. MotionInv => MotionExclusive
    <2>1. SUFFICES ASSUME MotionInv, Moving
                   PROVE  /\ AllTold /\ Admits(action, state)
                          /\ Exhausted(state) => action = "request_assistance"
      BY DEF MotionExclusive, AllTold
    <2>2. action \in Eligible(state) /\ Rest
      BY <2>1 DEF MotionInv, Moving
    <2>3. action \in Actions
      BY <2>2 DEF Eligible, Actions
    <2>4. todo # Sequence(action) /\ todo # <<>>
      BY <2>1, <2>3, SequenceEnds DEF Moving
    <2>5. AllTold
      BY <2>2, <2>4 DEF Rest
    <2>6. Admits(action, state) /\ (Exhausted(state) => action = "request_assistance")
      BY <2>2, <2>3 DEF Eligible, Admits
    <2>7. QED
      BY <2>5, <2>6
  <1>3. QED
    BY <1>1, <1>2, MotionStep, PTL DEF Spec

-----------------------------------------------------------------------------
(* The verdict.  Whatever the runner has seen of a goal that arrived or was  *)
(* aborted did happen, and without an answer to its goal it has no handle.   *)

Seen(status) == own = status \/ other = status \/ view = status

HonestInv ==
    /\ Seen("succeeded") \/ terminal = "success" => arrived
    /\ Seen("aborted") \/ (terminal = "planner_failure" /\ handle) => aborted
    /\ run = "send" => ~handle

\* A step that shows no new end of a goal and gives no verdict.
LEMMA HonestQuiet ==
  ASSUME HonestInv, own' \in {own, "canceling", "active", "rejected"},
         other' \in {other, "canceling", "active"}, view' \in {view, other},
         UNCHANGED <<arrived, aborted>>, handle' = handle, run' = "send" => run = "send",
         terminal' \in {terminal, "collision", "timeout", "false_arrival", "invalid"}
  PROVE  HonestInv'
  BY DEF HonestInv, Seen

LEMMA HonestManager == HonestInv /\ Manager => HonestInv'
  <1>1. SUFFICES ASSUME HonestInv, Manager PROVE HonestInv'
    OBVIOUS
  <1>2. /\ own' \in {own, "canceling"} /\ other' \in {other, "canceling", "active"}
        /\ UNCHANGED <<runner, arrived, aborted>>
    <2>1. CASE Perform
      BY <2>1, EffectTold DEF Perform
    <2>2. CASE ~Perform
      BY <1>1, <2>2, ManagerQuiet
    <2>3. QED
      BY <2>1, <2>2
  <1>3. QED
    BY <1>1, <1>2, HonestQuiet DEF runner

LEMMA HonestStep == HonestInv /\ [Next]_vars => HonestInv'
  <1>1. SUFFICES ASSUME HonestInv, [Next]_vars PROVE HonestInv'
    OBVIOUS
  <1> USE DEF inbox, callback, nav2, robot, runner
  <1>2. CASE Manager
    BY <1>1, <1>2, HonestManager
  <1>3. CASE OwnEnds
    BY <1>1, <1>3 DEF OwnEnds, End, HonestInv, Seen
  <1>4. CASE OtherEnds
    BY <1>1, <1>4 DEF OtherEnds, End, HonestInv, Seen
  <1>5. ASSUME \/ Alarm \/ Redeliver \/ Answer \/ Collide \/ Odom \/ SeeCollision
               \/ GraceExpires \/ Shutdown \/ Observe \/ Deadline \/ CancelArrives
               \/ Finished \/ UNCHANGED vars
        PROVE  HonestInv'
    <2>1. /\ own' \in {own, "canceling", "active", "rejected"}
          /\ other' \in {other, "canceling"}
          /\ view' \in {view, other} /\ UNCHANGED <<arrived, aborted, handle>>
          /\ run' = "send" => run = "send"
          /\ terminal' \in {terminal, "collision", "timeout"}
      BY <1>5 DEF Alarm, Redeliver, Answer, Collide, Odom, SeeCollision, GraceExpires,
                  Shutdown, Leave, Observe, Deadline, CancelArrives, CancelGoals, Told,
                  Finished, vars
    <2>2. QED
      BY <1>1, <2>1, HonestQuiet
  <1>6. CASE Accepted
    BY <1>1, <1>6 DEF Accepted, HonestInv, Seen
  <1>7. CASE Rejected \/ Unanswered
    BY <1>1, <1>7 DEF Rejected, Unanswered, NotAccepted, HonestInv, Seen
  <1>8. CASE SeeResult
    BY <1>1, <1>8 DEF SeeResult, Leave, HonestInv, Seen
  <1>9. CASE Follow
    BY <1>1, <1>9 DEF Follow, Leave, HonestInv, Seen
  <1>10. CASE Judge
    <2>1. /\ UNCHANGED <<own, other, view, arrived, aborted, handle>> /\ run' # "send"
          /\ terminal' \in {terminal, "false_arrival", "collision"}
      BY <1>10 DEF Judge
    <2>2. QED
      BY <1>1, <2>1, HonestQuiet
  <1>11. QED
    BY <1>1, <1>2, <1>3, <1>4, <1>5, <1>6, <1>7, <1>8, <1>9, <1>10 DEF Next, Runner

\* TerminalHonest: the runner reports success only after a goal arrived, and a planner
\* failure only after one was aborted or when it has no accepted goal, however
\* cancellations and resumptions overlap.
THEOREM VerdictIsHonest == Spec => []TerminalHonest
  <1>1. Init => HonestInv
    BY DEF Init, HonestInv, Seen
  <1>2. HonestInv => TerminalHonest
    BY DEF HonestInv, TerminalHonest
  <1>3. QED
    BY <1>1, <1>2, HonestStep, PTL DEF Spec

-----------------------------------------------------------------------------
(* Handing over.  The decision that begins a sequence is taken inside the    *)
(* budget, and later decisions see at least as much: requests are handled in *)
(* the order of their alarms, repeated ones included, so that no request     *)
(* counts fewer alarms than one handled before it.                           *)

Stopping == phase = "stop" => todo \in {SafeStop, <<"zero_cmd_vel">>, <<>>}

LEMMA StoppingStep == Stopping /\ [Next]_vars => Stopping'
  <1>1. SUFFICES ASSUME Stopping, [Next]_vars, phase' = "stop"
                 PROVE  todo' \in {SafeStop, <<"zero_cmd_vel">>, <<>>}
    BY DEF Stopping
  <1> USE DEF inbox, callback, nav2, robot, runner
  <1>2. CASE Receive
    BY <1>1, <1>2 DEF Receive, Handle
  <1>3. CASE Perform
    <2>1. phase = "stop" /\ todo # <<>> /\ todo' = Tail(todo)
      BY <1>1, <1>3 DEF Perform
    <2>2. Tail(SafeStop) = <<"zero_cmd_vel">> /\ Tail(<<"zero_cmd_vel">>) = <<>>
      BY DEF SafeStop
    <2>3. QED
      BY <1>1, <2>1, <2>2 DEF Stopping
  <1>4. CASE Decided
    BY <1>1, <1>4 DEF Decided, Return
  <1>5. ASSUME Duplicate \/ StopDone \/ SequenceDone \/ StopFails \/ SequenceFails
                 \/ Settle \/ DecideFails
        PROVE  UNCHANGED <<phase, todo>>
    BY <1>1, <1>5 DEF Duplicate, StopDone, SequenceDone, StopFails, SequenceFails, Settle,
                      DecideFails, Raises, Return
  <1>6. ASSUME Elsewhere \/ Answer PROVE UNCHANGED <<phase, todo>>
    BY <1>6, ElsewhereQuiet DEF Answer
  <1>7. QED
    BY <1>1, <1>2, <1>3, <1>4, <1>5, <1>6 DEF Stopping, Next, Manager, Elsewhere

InOrder ==
    /\ \A i, j \in 1..Len(queue) : i <= j => queue[i] <= queue[j]
    /\ \A i \in 1..Len(queue) : queue[i] <= alarms /\ \A id \in seen : id <= queue[i]
    /\ \A id \in seen : id <= alarms /\ (phase # "idle" => id <= req)

Affordable ==
    phase = "act" /\ action # "request_assistance" =>
        req \in seen /\ executed < MaxRecoveries /\ RecoveryCount(req) < MaxRecoveries

Assisting ==
    phase = "act" /\ action = "request_assistance" =>
        todo \in {Sequence(action), AfterCancel(action), OwnSteps(action), <<>>}

HandInv == BudgetInv /\ InOrder /\ Affordable /\ Assisting

\* A new request is the newest one or repeats it: a queue in order stays in order.
LEMMA DeliverInOrder ==
  ASSUME BudgetTypes, InOrder, NEW id \in Ids, alarms <= id, alarms' = id,
         UNCHANGED callback, Deliver(id)
  PROVE  InOrder'
  <1> DEFINE kept == IF Len(queue) < QueueDepth THEN queue ELSE Tail(queue)
             skip == IF Len(queue) < QueueDepth THEN 0 ELSE 1
  <1>1. queue \in Seq(Ids) /\ seen \subseteq Ids /\ id \in Nat /\ Ids \subseteq Nat
        /\ alarms \in Nat /\ Len(queue) \in Nat
    BY MissionOK DEF BudgetTypes, Ids
  <1>2. /\ kept \in Seq(Ids) /\ Len(kept) = Len(queue) - skip
        /\ \A i \in 1..Len(kept) : i + skip \in 1..Len(queue) /\ kept[i] = queue[i + skip]
    <2>1. CASE Len(queue) < QueueDepth
      BY <1>1, <2>1
    <2>2. CASE ~(Len(queue) < QueueDepth)
      <3>1. queue # <<>>
        BY <1>1, <2>2, MissionOK
      <3>2. /\ Tail(queue) \in Seq(Ids) /\ Len(Tail(queue)) = Len(queue) - 1
            /\ \A i \in 1..Len(Tail(queue)) : Tail(queue)[i] = queue[i + 1]
        BY <1>1, <3>1
      <3>3. QED
        BY <1>1, <2>2, <3>2
    <2>3. QED
      BY <2>1, <2>2
  <1>3. skip \in {0, 1} /\ Len(kept) \in Nat /\ queue' = Append(kept, id)
    BY <1>1, <1>2 DEF Deliver
  <1> HIDE DEF kept, skip
  <1>4. /\ Len(queue') = Len(kept) + 1 /\ queue'[Len(kept) + 1] = id
        /\ \A i \in 1..Len(kept) : queue'[i] = kept[i]
    BY <1>1, <1>2, <1>3
  <1>5. \A i \in 1..Len(kept) : kept[i] \in Nat /\ kept[i] <= id /\ \A e \in seen : e <= kept[i]
    <2>1. SUFFICES ASSUME NEW i \in 1..Len(kept)
                   PROVE  kept[i] \in Nat /\ kept[i] <= id /\ \A e \in seen : e <= kept[i]
      OBVIOUS
    <2>2. i + skip \in 1..Len(queue) /\ kept[i] = queue[i + skip] /\ kept[i] \in Ids
      BY <1>2
    <2>3. kept[i] <= alarms /\ \A e \in seen : e <= kept[i]
      BY <2>2 DEF InOrder
    <2>4. kept[i] \in Nat
      BY <1>1, <2>2
    <2>5. kept[i] <= id
      BY <1>1, <2>3, <2>4
    <2>6. QED
      BY <2>3, <2>4, <2>5
  <1>6. \A i, j \in 1..Len(kept) : i <= j => kept[i] <= kept[j]
    <2>1. SUFFICES ASSUME NEW i \in 1..Len(kept), NEW j \in 1..Len(kept), i <= j
                   PROVE  kept[i] <= kept[j]
      OBVIOUS
    <2>2. i + skip \in 1..Len(queue) /\ j + skip \in 1..Len(queue) /\ i + skip <= j + skip
      BY <1>2, <1>3, <2>1
    <2>3. QED
      BY <1>2, <2>2 DEF InOrder
  <1>7. \A i, j \in 1..Len(queue') : i <= j => queue'[i] <= queue'[j]
    <2>1. SUFFICES ASSUME NEW i \in 1..Len(queue'), NEW j \in 1..Len(queue'), i <= j
                   PROVE  queue'[i] <= queue'[j]
      OBVIOUS
    <2>2. CASE j \in 1..Len(kept)
      BY <1>3, <1>4, <1>6, <2>1, <2>2
    <2>3. CASE j = Len(kept) + 1 /\ i \in 1..Len(kept)
      BY <1>4, <1>5, <2>3
    <2>4. CASE j = Len(kept) + 1 /\ i = j
      BY <1>1, <1>4, <2>4
    <2>5. QED
      BY <1>3, <1>4, <2>1, <2>2, <2>3, <2>4
  <1>8. \A e \in seen : e <= alarms /\ e <= id
    BY <1>1 DEF InOrder
  <1>9. \A i \in 1..Len(queue') : queue'[i] <= id /\ \A e \in seen : e <= queue'[i]
    BY <1>1, <1>3, <1>4, <1>5, <1>8
  <1>10. QED
    BY <1>1, <1>7, <1>8, <1>9 DEF InOrder, callback

\* The oldest request leaves the queue.
LEMMA TakenInOrder ==
  ASSUME BudgetTypes, InOrder, queue # <<>>, queue' = Tail(queue), alarms' = alarms,
         \/ UNCHANGED <<seen, phase, req>> /\ phase = "idle"
         \/ seen' = seen \cup {Head(queue)} /\ req' = Head(queue)
  PROVE  InOrder'
  <1>1. /\ queue \in Seq(Ids) /\ seen \subseteq Ids /\ Ids \subseteq Nat
        /\ Len(queue) \in Nat /\ Len(queue) # 0
    BY MissionOK DEF BudgetTypes, Ids
  <1>2. /\ Head(queue) = queue[1] /\ Len(queue') = Len(queue) - 1
        /\ \A i \in 1..Len(queue') : i + 1 \in 1..Len(queue) /\ queue'[i] = queue[i + 1]
    BY <1>1
  <1>3. 1 \in 1..Len(queue) /\ queue[1] \in Nat
    <2>1. 1 \in 1..Len(queue)
      BY <1>1
    <2>2. queue[1] \in Ids
      BY <1>1, <2>1
    <2>3. QED
      BY <1>1, <2>1, <2>2
  <1>4. \A i, j \in 1..Len(queue') : i <= j => queue'[i] <= queue'[j]
    <2>1. SUFFICES ASSUME NEW i \in 1..Len(queue'), NEW j \in 1..Len(queue'), i <= j
                   PROVE  queue'[i] <= queue'[j]
      OBVIOUS
    <2>2. i + 1 \in 1..Len(queue) /\ j + 1 \in 1..Len(queue) /\ i + 1 <= j + 1
      BY <1>2, <2>1
    <2>3. QED
      BY <1>2, <2>2 DEF InOrder
  <1>5. \A i \in 1..Len(queue') :
          /\ queue'[i] <= alarms /\ queue[1] <= queue'[i]
          /\ \A e \in seen : e <= queue'[i]
    <2>1. SUFFICES ASSUME NEW i \in 1..Len(queue')
                   PROVE  /\ queue'[i] <= alarms /\ queue[1] <= queue'[i]
                          /\ \A e \in seen : e <= queue'[i]
      OBVIOUS
    <2>2. i + 1 \in 1..Len(queue) /\ 1 <= i + 1 /\ queue'[i] = queue[i + 1]
      BY <1>2
    <2>3. QED
      BY <1>3, <2>2 DEF InOrder
  <1>6. queue[1] <= alarms /\ \A e \in seen : e <= queue[1] /\ e <= alarms
    BY <1>3 DEF InOrder
  <1>7. CASE UNCHANGED <<seen, phase, req>> /\ phase = "idle"
    BY <1>4, <1>5, <1>6, <1>7 DEF InOrder
  <1>8. CASE seen' = seen \cup {Head(queue)} /\ req' = Head(queue)
    <2>1. \A e \in seen' : e = queue[1] \/ e \in seen
      BY <1>2, <1>8
    <2>2. queue[1] <= queue[1]
      BY <1>3
    <2>3. \A e \in seen' : e <= alarms /\ e <= req'
      BY <1>2, <1>6, <1>8, <2>1, <2>2
    <2>4. \A i \in 1..Len(queue') : \A e \in seen' : e <= queue'[i]
      BY <1>5, <2>1
    <2>5. QED
      BY <1>4, <1>5, <2>3, <2>4 DEF InOrder
  <1>9. QED
    BY <1>7, <1>8

LEMMA OrderStep == BudgetTypes /\ InOrder /\ [Next]_vars => InOrder'
  <1>1. SUFFICES ASSUME BudgetTypes, InOrder, [Next]_vars PROVE InOrder'
    OBVIOUS
  <1>2. CASE Alarm
    <2>1. /\ alarms' = alarms + 1 /\ Deliver(alarms + 1) /\ UNCHANGED callback
          /\ alarms + 1 \in Ids /\ alarms <= alarms + 1
      BY <1>1, <1>2, MissionOK DEF Alarm, BudgetTypes, Ids
    <2>2. QED
      BY <1>1, <2>1, DeliverInOrder
  <1>3. CASE Redeliver
    <2>1. /\ alarms' = alarms /\ Deliver(alarms) /\ UNCHANGED callback
          /\ alarms \in Ids /\ alarms <= alarms
      BY <1>1, <1>3, MissionOK DEF Redeliver, BudgetTypes, Ids
    <2>2. QED
      BY <1>1, <2>1, DeliverInOrder
  <1>4. CASE Receive
    <2>1. /\ queue # <<>> /\ queue' = Tail(queue) /\ alarms' = alarms
          /\ seen' = seen \cup {Head(queue)} /\ req' = Head(queue)
      BY <1>4 DEF Receive, Handle
    <2>2. QED
      BY <1>1, <2>1, TakenInOrder
  <1>5. CASE Duplicate
    <2>1. /\ queue # <<>> /\ queue' = Tail(queue) /\ alarms' = alarms
          /\ UNCHANGED <<seen, phase, req>> /\ phase = "idle"
      BY <1>5 DEF Duplicate, callback
    <2>2. QED
      BY <1>1, <2>1, TakenInOrder
  <1>6. ASSUME UNCHANGED <<alarms, queue, seen>>,
               phase' = "idle" \/ (phase # "idle" /\ req' = req) \/ UNCHANGED <<phase, req>>
        PROVE  InOrder'
    BY <1>1, <1>6 DEF InOrder
  <1>7. ASSUME \/ Perform \/ StopDone \/ SequenceDone \/ StopFails \/ SequenceFails
               \/ Settle \/ Decided \/ DecideFails
        PROVE  /\ UNCHANGED <<alarms, queue, seen>>
               /\ phase' = "idle" \/ (phase # "idle" /\ req' = req)
    BY <1>7 DEF Perform, StopDone, SequenceDone, StopFails, SequenceFails, Settle, Decided,
                DecideFails, Raises, Return, inbox
  <1>8. ASSUME \/ Answer \/ OwnEnds \/ OtherEnds \/ Collide \/ Odom \/ Runner \/ Observe
               \/ Unanswered \/ Deadline \/ CancelArrives \/ Finished \/ UNCHANGED vars
        PROVE  UNCHANGED <<alarms, queue, seen, phase, req>>
    BY <1>8 DEF Answer, OwnEnds, OtherEnds, End, Collide, Odom, Runner, Accepted, Rejected,
                NotAccepted, SeeCollision, SeeResult, Follow, GraceExpires, Judge, Shutdown,
                Leave, Observe, Unanswered, Deadline, CancelArrives, Finished, vars, inbox,
                callback
  <1>9. QED
    BY <1>1, <1>2, <1>3, <1>4, <1>5, <1>6, <1>7, <1>8 DEF Next, Manager

\* The steps that leave the running sequence and what was decided alone.
LEMMA HandQuiet ==
  ASSUME Affordable, Assisting,
         phase' = "act" => UNCHANGED <<phase, seen, req, todo, action, executed>>
  PROVE  Affordable' /\ Assisting'
  BY DEF Affordable, Assisting, RecoveryCount

\* A sequence that moves the robot is begun inside the budget.
LEMMA HandDecided ==
  ASSUME BudgetTypes, Decided
  PROVE  Affordable' /\ Assisting'
  <1>1. phase' = "act" => /\ action' \in Eligible(state') /\ state'.count = Budget
                          /\ todo' = Sequence(action') /\ req' = req
    BY DEF Decided, MayExecute, Return
  <1>2. executed' = executed /\ seen' = seen /\ req \in seen /\ req \in Ids /\ executed \in Nat
    BY DEF Decided, BudgetTypes, Waiting
  <1>3. Budget \in Int /\ executed <= Budget /\ RecoveryCount(req) <= Budget
    BY <1>2, MissionOK DEF Budget, RecoveryCount, Ids
  <1>4. ASSUME phase' = "act", action' # "request_assistance"
        PROVE  req' \in seen' /\ executed' < MaxRecoveries /\ RecoveryCount(req') < MaxRecoveries
    <2>1. ~Exhausted(state')
      BY <1>1, <1>4 DEF Eligible
    <2>2. Budget < MaxRecoveries
      BY <1>1, <1>3, <1>4, <2>1, MaxRecoveriesOK DEF Exhausted
    <2>3. RecoveryCount(req) \in Int
      BY <1>2, MissionOK DEF RecoveryCount, Ids
    <2>4. QED
      BY <1>1, <1>2, <1>3, <1>4, <2>2, <2>3, MaxRecoveriesOK DEF RecoveryCount
  <1>5. QED
    BY <1>1, <1>4 DEF Affordable, Assisting

\* A request for assistance performs no step that sends a goal.
LEMMA AssistanceEnds ==
  LET a == "request_assistance"
  IN  /\ Tail(Sequence(a)) = AfterCancel(a) /\ Tail(AfterCancel(a)) = OwnSteps(a)
      /\ Tail(OwnSteps(a)) = <<>>
      /\ Head(Sequence(a)) = "cancel_task" /\ Head(AfterCancel(a)) = "zero_cmd_vel"
      /\ Head(OwnSteps(a)) = a
  <1>1. "request_assistance" \in Actions
    BY DEF Actions
  <1>2. OwnSteps("request_assistance") = <<"request_assistance">>
    BY DEF OwnSteps
  <1>3. /\ Tail(<<"request_assistance">>) = <<>>
        /\ Head(<<"request_assistance">>) = "request_assistance"
    OBVIOUS
  <1>4. QED
    BY <1>1, <1>2, <1>3, SequenceEnds

LEMMA HandStep == HandInv /\ [Next]_vars => HandInv'
  <1>1. SUFFICES ASSUME HandInv, [Next]_vars PROVE HandInv'
    OBVIOUS
  <1>2. BudgetInv /\ BudgetTypes /\ InOrder /\ Affordable /\ Assisting
    BY <1>1 DEF HandInv, BudgetInv
  <1>3. ASSUME Decided PROVE Affordable' /\ Assisting'
    BY <1>2, <1>3, HandDecided
  <1>4. ASSUME Perform PROVE Affordable' /\ Assisting'
    <2>1. /\ UNCHANGED <<phase, seen, req, action, executed>> /\ todo # <<>> /\ todo' = Tail(todo)
      BY <1>4 DEF Perform, callback
    <2>2. Affordable'
      BY <1>2, <2>1 DEF Affordable, RecoveryCount
    <2>3. Assisting'
      BY <1>2, <2>1, AssistanceEnds DEF Assisting
    <2>4. QED
      BY <2>2, <2>3
  <1>5. ASSUME \/ Receive \/ Duplicate \/ StopDone \/ SequenceDone \/ StopFails
               \/ SequenceFails \/ Settle \/ DecideFails
        PROVE  phase' = "act" => UNCHANGED <<phase, seen, req, todo, action, executed>>
    BY <1>5 DEF Receive, Handle, Duplicate, StopDone, SequenceDone, StopFails,
                SequenceFails, Settle, DecideFails, Raises, Return, callback
  <1>6. ASSUME Elsewhere \/ Answer
        PROVE  UNCHANGED <<phase, seen, req, todo, action, executed>>
    BY <1>6, ElsewhereQuiet DEF Answer, callback
  <1>7. Affordable' /\ Assisting'
    BY <1>1, <1>2, <1>3, <1>4, <1>5, <1>6, HandQuiet DEF Next, Manager, Elsewhere
  <1>8. BudgetInv'
    BY <1>1, <1>2, BudgetStep
  <1>9. QED
    BY <1>1, <1>2, <1>7, <1>8, OrderStep DEF HandInv

\* HandedOver: once the budget is exhausted, by the sequences executed or by the alarms
\* before any request handled, no step sends a goal of the manager, whatever was lost,
\* delivered twice or failed in between.
THEOREM HandedOverForGood == Spec => HandedOver
  <1>1. Init => HandInv /\ Stopping
    <2>1. SUFFICES ASSUME Init PROVE HandInv /\ Stopping
      OBVIOUS
    <2>2. InOrder /\ Affordable /\ Assisting /\ Stopping
      BY <2>1 DEF Init, InOrder, Affordable, Assisting, Stopping
    <2>3. QED
      BY <2>1, <2>2, BudgetInit DEF HandInv
  <1>2. ASSUME HandInv, Stopping, [Next]_vars,
               executed >= MaxRecoveries \/ \E id \in seen : RecoveryCount(id) >= MaxRecoveries
        PROVE  ~(other # "active" /\ other' = "active")
    <2>1. CASE Perform
      <3>1. todo # <<>> /\ Effect(Head(todo))
        BY <2>1 DEF Perform
      <3>2. CASE phase = "stop"
        <4>1. /\ Head(SafeStop) = "cancel_task" /\ Head(<<"zero_cmd_vel">>) = "zero_cmd_vel"
          BY DEF SafeStop
        <4>2. Head(todo) \in {"cancel_task", "zero_cmd_vel"}
          BY <1>2, <3>1, <3>2, <4>1 DEF Stopping
        <4>3. QED
          BY <3>1, <4>2 DEF Effect, CancelGoals, Told
      <3>3. CASE phase = "act"
        <4>1. action = "request_assistance"
          <5>1. SUFFICES ASSUME action # "request_assistance" PROVE FALSE
            OBVIOUS
          <5>2. req \in seen /\ executed < MaxRecoveries /\ RecoveryCount(req) < MaxRecoveries
            BY <1>2, <3>3, <5>1 DEF HandInv, Affordable
          <5>3. /\ seen \subseteq Ids /\ req \in Ids /\ executed \in Nat
                /\ \A id \in seen : id <= req
            BY <1>2, <3>3, <5>2 DEF HandInv, BudgetInv, BudgetTypes, InOrder
          <5>4. QED
            BY <1>2, <5>2, <5>3, MissionOK, MaxRecoveriesOK DEF Ids, NoId, RecoveryCount
        <4>2. Head(todo) \in {"cancel_task", "zero_cmd_vel", "request_assistance"}
          BY <1>2, <3>1, <3>3, <4>1, AssistanceEnds DEF HandInv, Assisting
        <4>3. QED
          BY <3>1, <4>2 DEF Effect, CancelGoals, Told
      <3>4. QED
        BY <2>1, <3>2, <3>3 DEF Perform
    <2>2. CASE ~Perform
      <3>1. other' # "active" \/ other' = other
        <4>1. CASE Manager
          BY <2>2, <4>1, ManagerQuiet
        <4>2. CASE Elsewhere \/ Answer
          BY <4>2, ElsewhereQuiet DEF Answer
        <4>3. QED
          BY <1>2, <4>1, <4>2 DEF Next, Elsewhere
      <3>2. QED
        BY <3>1
    <2>3. QED
      BY <2>1, <2>2
  <1>3. QED
    BY <1>1, <1>2, HandStep, StoppingStep, PTL DEF Spec, HandedOver

-----------------------------------------------------------------------------
\* NoSuccessAfterCollision: whenever the collision happens, before the runner judges the
\* episode the verdict is not a success.
THEOREM CollisionIsSeen == Spec => NoSuccessAfterCollision
  <1>1. ASSUME [Next]_vars, collided, run = "judge", run' = "ended"
        PROVE  terminal' # "success"
    <2>1. CASE Judge
      BY <1>1, <2>1 DEF Judge
    <2>2. CASE ~Judge
      <3>1. run' = run \/ run' # "ended"
        <4>1. CASE Manager
          <5>1. UNCHANGED runner
            BY <4>1, ManagerQuiet DEF Perform
          <5>2. QED
            BY <5>1 DEF runner
        <4>2. CASE ~Manager
          BY <1>1, <2>2, <4>2
          DEF Next, Alarm, Redeliver, Answer, OwnEnds, OtherEnds, End, Collide, Odom,
              Runner, Accepted, Rejected, NotAccepted, SeeCollision, SeeResult, Follow,
              GraceExpires, Shutdown, Leave, Observe, Unanswered, Deadline, CancelArrives,
              Finished, vars, runner
        <4>3. QED
          BY <4>1, <4>2
      <3>2. QED
        BY <1>1, <3>1
    <2>3. QED
      BY <2>1, <2>2
  <1>2. QED
    BY <1>1, PTL DEF Spec, NoSuccessAfterCollision
=============================================================================
