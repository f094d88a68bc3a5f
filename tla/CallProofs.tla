----------------------------- MODULE CallProofs -----------------------------
(***************************************************************************)
(* The Goal bridge and its calls to the App Server, for any set of jobs,    *)
(* Goals and bounds: a user's control never overlaps an activation whose    *)
(* lease does not say so, and the pause a lease was committed for is the    *)
(* one its row records.                                                     *)
(***************************************************************************)
EXTENDS LeaseProofs

-----------------------------------------------------------------------------
(* The inductive invariant                                                 *)

\* The activation in flight is the one its task awaits, or one whose lease is or
\* will be left to the user.
ActivationShape(j) ==
  /\ wakeCall[j] = "set" => deliver[j] = "set"
  /\ wakeCall[j] = "late" => \/ delivery[j] = "needs_manual_recovery"
                             \/ delivery[j] = "activating" /\ ~connected

\* The pause in flight is the registration's own, and it is asked for once.
Pause(j) == [kind |-> "pause", job |-> j]
PauseCallShape(j) ==
  /\ prep[j] \in {"set", "confirm"} => state[j] \in {"preparing"} \cup Retired
  /\ prepCall[j] = "get" => prep[j] # "set"
  /\ prepCall[j] = "set" => prep[j] = "set"
  /\ prepCall[j] = "late" => prep[j] = "done" /\ state[j] \in {"preparing"} \cup Retired
  /\ prep[j] \in {"none", "get"} \/ prepCall[j] \in {"set", "late"} => writer # Pause(j)

\* What is known of the Goal as long as the job's pause is the last write: the
\* reply, then the local paused_updated_at, then the row tells its revision.
PauseShape(j) ==
  writer = Pause(j) =>
    /\ prep[j] = "set" /\ prepCall[j] = "ok" => goal = prepVal[j]
    /\ prep[j] = "confirm" => SameGoal(j, goal) /\ goal.status = "paused" /\ goal.at = pausedAt[j]
    /\ state[j] \in {"armed", "terminal"} => StillOurs(j, goal)

JobCallInv(j) == ActivationShape(j) /\ PauseCallShape(j) /\ PauseShape(j)
CallInv == (user # "none" => connected) /\ \A j \in Jobs : JobCallInv(j)

-----------------------------------------------------------------------------
(* What a step leaves alone                                                *)

\* The step changes nothing of the registration of k, but for the row.
SamePrepare(k) ==
  /\ prep'[k] = prep[k] /\ prepCall'[k] = prepCall[k] /\ prepVal'[k] = prepVal[k]
  /\ pausedAt'[k] = pausedAt[k] /\ identity'[k] = identity[k] /\ revision'[k] = revision[k]

\* The row is as it was, becomes due, or is retired.
RowGoesOn(k) == \/ state'[k] = state[k]
                \/ state[k] = "armed" /\ state'[k] = "terminal"
                \/ state'[k] \in Retired

\* The Goal is as it was, or somebody else has written it.
GoalKept(k) == UNCHANGED <<goal, writer>> \/ writer' # Pause(k)

\* The step changes nothing of the delivery of k.
SameDelivery(k) ==
  /\ connected' = connected /\ delivery'[k] = delivery[k]
  /\ deliver'[k] = deliver[k] /\ wakeCall'[k] = wakeCall[k]

\* Then the pause stays recorded.
LEMMA PauseKept ==
  ASSUME NEW k \in Jobs, PauseCallShape(k), PauseShape(k), SamePrepare(k), RowGoesOn(k), GoalKept(k)
  PROVE  PauseCallShape(k)' /\ PauseShape(k)'
<1> USE DEF SamePrepare, RowGoesOn, GoalKept
<1>1. PauseCallShape(k)'
  BY DEF PauseCallShape, Retired, Pause
<1>2. PauseShape(k)'
  BY DEF PauseShape, SameGoal, StillOurs, Retired, Pause
<1> QED
  BY <1>1, <1>2

\* And what concerns the activation.
LEMMA ActivationKept ==
  ASSUME NEW k \in Jobs, ActivationShape(k), SameDelivery(k)
  PROVE  ActivationShape(k)'
BY DEF ActivationShape, SameDelivery

\* A write by anyone records who it was.
LEMMA WriterRecorded ==
  ASSUME NEW op, NEW w, ControlGoal(op, w)
  PROVE  writer' = w
BY DEF ControlGoal, WriteGoal

-----------------------------------------------------------------------------
(* The App Server                                                          *)

\* Its answers and the writes of others.
LEMMA AppCalls ==
  ASSUME TypeOK, CallInv, AppNext, UNCHANGED bridgeVars
  PROVE  CallInv'
<1> USE DEF bridgeVars, rowVars, taskVars, userVars
<1>0. connected' = connected
  BY DEF AppNext, Tick, TurnStart, TurnEnd, OutsideChange, ApplyControl, AnswerPrepare, AnswerWake
<1>1. ASSUME NEW k \in Jobs PROVE RowGoesOn(k)
  BY DEF RowGoesOn
<1> SUFFICES ASSUME NEW k \in Jobs PROVE JobCallInv(k)'
  BY <1>0 DEF CallInv
<1>2. JobCallInv(k)
  BY DEF CallInv
<1>3. CASE Tick \/ TurnStart \/ TurnEnd \/ OutsideChange \/ ApplyControl
  <2>1. UNCHANGED callVars
    BY <1>3 DEF Tick, TurnStart, TurnEnd, OutsideChange, ApplyControl
  <2>2. UNCHANGED <<goal, writer>> \/ writer' \in {User, Outside}
    BY <1>3, WriterRecorded DEF Tick, TurnStart, TurnEnd, OutsideChange, ApplyControl, goalVars
  <2>3. GoalKept(k)
    BY <2>2 DEF GoalKept, User, Outside, Pause
  <2>4. SamePrepare(k) /\ SameDelivery(k)
    BY <1>0, <2>1 DEF SamePrepare, SameDelivery, callVars
  <2> QED
    BY <1>1, <1>2, <2>3, <2>4, PauseKept, ActivationKept DEF JobCallInv
<1>4. ASSUME NEW j \in Jobs, AnswerWake(j) PROVE JobCallInv(k)'
  <2>1. UNCHANGED <<goal, writer>> \/ writer' = [kind |-> "wake", job |-> j]
    BY <1>4 DEF AnswerWake, WriteGoal, goalVars
  <2>2. GoalKept(k) /\ SamePrepare(k)
    BY <1>4, <2>1 DEF GoalKept, SamePrepare, AnswerWake, Pause
  <2>3. \/ wakeCall'[k] = wakeCall[k]
        \/ wakeCall'[k] \in {"none", "ok", "error"}
    BY <1>4 DEF AnswerWake, Answered, TypeOK, AppTypeOK
  <2>4. ActivationShape(k)'
    BY <1>0, <1>2, <2>3 DEF ActivationShape, JobCallInv
  <2> QED
    BY <1>1, <1>2, <2>2, <2>4, PauseKept DEF JobCallInv
<1>5. ASSUME NEW j \in Jobs, AnswerPrepare(j) PROVE JobCallInv(k)'
  <2>1. ActivationShape(k)'
    BY <1>0, <1>2, <1>5, ActivationKept DEF SameDelivery, AnswerPrepare, JobCallInv
  <2>2. CASE j # k
    <3>1. UNCHANGED <<goal, writer>> \/ writer' = Pause(j)
      BY <1>5 DEF AnswerPrepare, WriteGoal, goalVars, Pause
    <3>2. GoalKept(k) /\ SamePrepare(k)
      BY <1>5, <2>2, <3>1 DEF GoalKept, SamePrepare, AnswerPrepare, Pause, TypeOK, AppTypeOK
    <3> QED
      BY <1>1, <1>2, <2>1, <3>2, PauseKept DEF JobCallInv
  <2>3. CASE j = k
    <3>1. CASE prepCall[j] = "get" /\ prepCall'[j] = "ok" /\ UNCHANGED goalVars
      BY <1>2, <2>1, <2>3, <3>1 DEF JobCallInv, PauseCallShape, PauseShape, SameGoal, StillOurs, goalVars
    <3>2. CASE /\ prepCall[j] = "set" /\ prepCall'[j] = "ok"
               /\ goal' = prepVal'[j]
      BY <1>2, <2>1, <2>3, <3>2 DEF JobCallInv, PauseCallShape, PauseShape, Retired
    <3>3. CASE prepCall[j] = "late" /\ prepCall'[j] = "none"
      BY <1>2, <2>1, <2>3, <3>3 DEF JobCallInv, PauseCallShape, PauseShape, Retired
    <3>4. CASE prepCall[j] \in {"get", "set"} /\ prepCall'[j] = "error" /\ UNCHANGED goalVars
      BY <1>2, <2>1, <2>3, <3>4 DEF JobCallInv, PauseCallShape, PauseShape, SameGoal, StillOurs, goalVars
    <3> QED
      BY <1>5, <3>1, <3>2, <3>3, <3>4 DEF AnswerPrepare, Answered, WriteGoal, TypeOK, AppTypeOK
  <2> QED
    BY <2>2, <2>3
<1> QED
  BY <1>3, <1>4, <1>5 DEF AppNext

-----------------------------------------------------------------------------
(* _prepare                                                                *)

\* No activation is in flight for a lease that is not due yet.
LEMMA NoActivationYet ==
  ASSUME NEW j \in Jobs, JobInv(j), ActivationShape(j), state[j] \in {"none", "preparing", "armed"}
  PROVE  wakeCall[j] \notin {"set", "late"}
BY DEF JobInv, RowShape, TaskShape, ActivationShape, Retired

\* The error path of a registration that has asked for its pause.
LEMMA PrepareFailsCalls ==
  ASSUME TypeOK, NEW j \in Jobs, PauseCallShape(j), prep[j] \in {"set", "confirm"},
         NEW c \in {"none", "late"}, c = "late" => prepCall[j] = "set",
         PrepareFails(j, c), UNCHANGED <<goal, writer>>
  PROVE  PauseCallShape(j)' /\ PauseShape(j)'
<1>1. prep'[j] = "done" /\ prepCall'[j] = c
  BY DEF TypeOK, AppTypeOK, PrepareFails, PrepSend
<1>2. state'[j] \in Retired
  BY DEF TypeOK, PrepareFails, SetRow, PauseCallShape, Retired
<1>3. PauseCallShape(j)'
  BY <1>1, <1>2 DEF PauseCallShape, Pause
<1>4. PauseShape(j)'
  BY <1>1, <1>2 DEF PauseShape, Retired
<1> QED
  BY <1>3, <1>4

\* The steps of _prepare follow the revision of the pause from the reply to the row.
LEMMA PrepareCalls ==
  ASSUME TypeOK, LeaseInv, CallInv, NEW j \in Jobs,
         Prepare(j) \/ PrepareSnapshot(j) \/ PreparePaused(j) \/ PrepareConfirm(j) \/ PrepareTimeout(j)
  PROVE  CallInv'
<1>0. JobInv(j) /\ JobCallInv(j)
  BY DEF LeaseInv, CallInv
<1>1. UNCHANGED <<connected, goal, writer, user, wakeCall>>
  BY DEF Prepare, PrepareSnapshot, PreparePaused, PrepareConfirm, PrepareTimeout, goalVars, userVars
<1>2. ASSUME NEW k \in Jobs, k # j PROVE JobCallInv(k)'
  <2>2. /\ prep'[k] = prep[k] /\ prepCall'[k] = prepCall[k] /\ prepVal'[k] = prepVal[k]
        /\ pausedAt'[k] = pausedAt[k] /\ identity'[k] = identity[k] /\ revision'[k] = revision[k]
    BY <1>2 DEF TypeOK, AppTypeOK, Prepare, PrepareSnapshot, PreparePaused, PrepareConfirm,
                PrepareTimeout, PrepareFails, PrepSend, CreateLease, rowVars
  <2>3. state'[k] = state[k] /\ delivery'[k] = delivery[k] /\ deliver'[k] = deliver[k]
    BY <1>2 DEF TypeOK, Prepare, PrepareSnapshot, PreparePaused, PrepareConfirm, PrepareTimeout,
                PrepareFails, CreateLease, SetRow, ScheduleDelivery, rowVars
  <2> QED
    BY <1>1, <2>2, <2>3, PauseKept, ActivationKept
    DEF CallInv, JobCallInv, SamePrepare, RowGoesOn, GoalKept, SameDelivery
<1>3. ActivationShape(j)'
  <2>1. CASE state[j] \in {"none", "preparing"}
    BY <1>0, <1>1, <2>1, NoActivationYet DEF ActivationShape, JobCallInv
  <2>2. CASE state[j] \notin {"none", "preparing"}
    <3>1. delivery' = delivery /\ deliver' = deliver
      BY <1>0, <2>2 DEF JobInv, TaskShape, Prepare, PrepareSnapshot, PreparePaused, PrepareConfirm,
                        PrepareTimeout, PrepareFails, MayCommit, rowVars
    <3> QED
      BY <1>0, <1>1, <3>1 DEF ActivationShape, JobCallInv
  <2> QED
    BY <2>1, <2>2
<1>4. PauseCallShape(j)' /\ PauseShape(j)'
  <2>1. CASE Prepare(j) \/ PrepareSnapshot(j) \/ (PrepareTimeout(j) /\ prep[j] = "get")
    <3>1. writer # Pause(j)
      BY <1>0, <2>1 DEF JobCallInv, PauseCallShape, Prepare, PrepareSnapshot
    <3>2. \/ prep'[j] = "get" /\ prepCall'[j] = "get"
          \/ prep'[j] = "set" /\ prepCall'[j] = "set" /\ state'[j] = "preparing"
          \/ prep'[j] = "done" /\ prepCall'[j] = "none"
      BY <2>1 DEF TypeOK, AppTypeOK, Prepare, PrepareSnapshot, PrepareTimeout, PrepSend, CreateLease, SetRow
    <3>3. Pause(j)' = Pause(j)
      BY DEF Pause
    <3> QED
      BY <1>1, <3>1, <3>2, <3>3 DEF PauseCallShape, PauseShape
  <2>2. CASE PreparePaused(j) /\ PauseConfirmed(j) /\ prepVal[j].at >= revision[j]
    <3>1. /\ prep[j] = "set" /\ prepCall[j] = "ok" /\ SameGoal(j, prepVal[j])
          /\ prepVal[j].status = "paused" /\ UNCHANGED <<identity, state, revision>>
      BY <2>2 DEF PreparePaused, PauseConfirmed
    <3>2. prep'[j] = "confirm" /\ prepCall'[j] = "get" /\ pausedAt'[j] = prepVal[j].at
      BY <2>2 DEF TypeOK, AppTypeOK, PreparePaused, PrepSend
    <3>3. PauseCallShape(j)'
      BY <1>0, <1>1, <3>1, <3>2 DEF JobCallInv, PauseCallShape, Pause
    <3>4. PauseShape(j)'
      BY <1>0, <1>1, <3>1, <3>2 DEF JobCallInv, PauseCallShape, PauseShape, Pause, SameGoal, StillOurs, Retired
    <3> QED
      BY <3>3, <3>4
  <2>3. CASE PrepareConfirm(j) /\ MayCommit(j)
    <3>1. prep[j] = "confirm" /\ UNCHANGED identity
      BY <2>3 DEF PrepareConfirm
    <3>2. /\ prep'[j] = "done" /\ prepCall'[j] = "none" /\ revision'[j] = pausedAt[j]
          /\ state'[j] \in {"armed", "terminal"}
      BY <2>3 DEF TypeOK, AppTypeOK, PrepareConfirm, PrepSend, SetRow, CommitState, CommitRevision
    <3>3. PauseCallShape(j)'
      BY <3>2 DEF PauseCallShape
    <3>4. PauseShape(j)'
      BY <1>0, <1>1, <3>1, <3>2 DEF JobCallInv, PauseShape, Pause, SameGoal, StillOurs
    <3> QED
      BY <3>3, <3>4
  <2>4. CASE \E c \in {"none", "late"} : /\ PrepareFails(j, c) /\ prep[j] \in {"set", "confirm"}
                                         /\ c = "late" => prepCall[j] = "set"
    BY <1>0, <1>1, <2>4, PrepareFailsCalls DEF JobCallInv
  <2>5. PrepareTimeout(j) /\ prep[j] = "set" => prepCall[j] = "set"
    BY <1>0 DEF PrepareTimeout, JobCallInv, PauseCallShape
  <2> QED
    BY <2>1, <2>2, <2>3, <2>4, <2>5 DEF PreparePaused, PrepareConfirm, PrepareTimeout
<1> QED
  BY <1>0, <1>1, <1>2, <1>3, <1>4 DEF CallInv, JobCallInv

-----------------------------------------------------------------------------
(* Revocation, the job's end and the deadline                              *)

\* A revocation leaves an activation in flight alone, and retires what it reaches.
LEMMA AbandonCalls ==
  ASSUME TypeOK, LeaseInv, CallInv, AbandonForManualChange,
         UNCHANGED <<connected, goal, writer, prep, prepCall, prepVal, pausedAt, identity,
                     revision, deliver>>
  PROVE  \A k \in Jobs : JobCallInv(k)'
<1> SUFFICES ASSUME NEW k \in Jobs PROVE JobCallInv(k)'
  OBVIOUS
<1>0. JobInv(k) /\ JobCallInv(k)
  BY DEF LeaseInv, CallInv
<1>1. SamePrepare(k) /\ RowGoesOn(k) /\ GoalKept(k)
  BY DEF SamePrepare, RowGoesOn, GoalKept, AbandonForManualChange, Retired
<1>2. ActivationShape(k)'
  BY <1>0 DEF AbandonForManualChange, Revocable, JobInv, RowShape, JobCallInv, ActivationShape, Live
<1> QED
  BY <1>0, <1>1, <1>2, PauseKept DEF JobCallInv

\* A lease that becomes due has no activation in flight.
LEMMA DueCalls ==
  ASSUME TypeOK, LeaseInv, CallInv, NEW j \in Jobs, Terminal(j) \/ Abort(j) \/ ExpireAtDeadline(j)
  PROVE  CallInv'
<1>0. UNCHANGED <<connected, goal, writer, prep, prepCall, prepVal, pausedAt, identity, revision, user>>
  BY DEF Terminal, Abort, ExpireAtDeadline, appVars, goalVars, callVars, userVars
<1>1. CASE AbandonForManualChange /\ deliver' = deliver
  BY <1>0, <1>1, AbandonCalls DEF CallInv
<1>2. CASE wakeCall' = wakeCall /\ UNCHANGED <<state, delivery, deliver>>
  BY <1>0, <1>2, PauseKept, ActivationKept
  DEF CallInv, JobCallInv, SamePrepare, RowGoesOn, GoalKept, SameDelivery
<1>3. CASE wakeCall' = wakeCall /\ state[j] = "armed" /\ BecomesDue(j)
  <2>1. ASSUME NEW k \in Jobs, k # j PROVE RowGoesOn(k) /\ SameDelivery(k)
    BY <1>0, <1>3, <2>1 DEF TypeOK, BecomesDue, SetRow, ScheduleDelivery, RowGoesOn, SameDelivery
  <2>2. RowGoesOn(j)
    BY <1>3 DEF TypeOK, BecomesDue, SetRow, RowGoesOn
  <2>3. ActivationShape(j)'
    <3>1. wakeCall[j] \notin {"set", "late"}
      BY <1>3, NoActivationYet DEF LeaseInv, CallInv, JobCallInv
    <3> QED
      BY <1>3, <3>1 DEF ActivationShape
  <2>4. \A k \in Jobs : SamePrepare(k) /\ GoalKept(k)
    BY <1>0 DEF SamePrepare, GoalKept
  <2>5. \A k \in Jobs : ActivationShape(k)'
    BY <2>1, <2>3, ActivationKept DEF CallInv, JobCallInv
  <2> QED
    BY <1>0, <2>1, <2>2, <2>4, <2>5, PauseKept DEF CallInv, JobCallInv
<1> QED
  BY <1>1, <1>2, <1>3 DEF Terminal, Abort, ExpireAtDeadline, appVars, callVars

-----------------------------------------------------------------------------
(* _deliver                                                                *)

\* What a step of a delivery task asks for and what it makes of the row: an
\* activation is sent by the task that goes on to await it, and one given up
\* after it was sent leaves the row to the user.
LEMMA DeliverAsks ==
  ASSUME TypeOK, LeaseInv, CallInv, NEW j \in Jobs, DeliverStep(j)
  PROVE  /\ RowGoesOn(j)
         /\ \/ wakeCall'[j] \in {"none", "read", "get"}
            \/ wakeCall'[j] = "set" /\ deliver'[j] = "set"
            \/ wakeCall'[j] = "late" /\ delivery'[j] = "needs_manual_recovery"
<1> USE DEF TypeOK, AppTypeOK
<1>0. JobInv(j) /\ JobCallInv(j)
  BY DEF LeaseInv, CallInv
<1>f. ASSUME NEW c, DeliverFails(j, c)
      PROVE  /\ RowGoesOn(j) /\ wakeCall'[j] = c
             /\ delivery[j] \notin {"resumed", "abandoned"} => delivery'[j] = "needs_manual_recovery"
  BY <1>f DEF DeliverFails, DeliverGoto, WakeSend, SetRow, RowGoesOn, Retired
<1>g. ASSUME NEW pc, NEW c, DeliverGoto(j, pc, c)
      PROVE  deliver'[j] = pc /\ wakeCall'[j] = c
  BY <1>g DEF DeliverGoto, WakeSend
<1>s. state' = state => RowGoesOn(j)
  BY DEF RowGoesOn
<1>1. CASE DeliverStart(j) \/ DeliverWait(j) \/ DeliverLock(j) \/ DeliverUnwind(j)
  BY <1>1, <1>g, <1>s DEF DeliverStart, DeliverWait, DeliverLock, DeliverUnwind
<1>2. CASE DeliverRead(j)
  BY <1>2, <1>f, <1>g, <1>s DEF DeliverRead
<1>3. CASE DeliverReread(j)
  BY <1>3, <1>f, <1>g, <1>s DEF DeliverReread
<1>4. CASE DeliverCheck(j)
  BY <1>4, <1>f, <1>g, <1>s DEF DeliverCheck
<1>5. CASE DeliverActivate(j)
  <2>1. SetRow(j, "abandoned", "abandoned") => RowGoesOn(j)
    BY DEF SetRow, RowGoesOn, Retired
  <2> QED
    BY <1>5, <1>f, <1>g, <1>s, <2>1 DEF DeliverActivate
<1>6. CASE DeliverActivated(j)
  <2>1. \A s \in {"delivered", "failed"}, d \in DeliveryStates : SetRow(j, s, d) => RowGoesOn(j)
    BY DEF SetRow, RowGoesOn, Retired
  <2> QED
    BY <1>6, <1>g, <2>1, LabelTypes DEF DeliverActivated, DeliveryStates, Settled
<1>7. CASE DeliverTimeout(j)
  <2>1. wakeCall[j] = "set" => delivery[j] = "activating"
    BY <1>0 DEF JobInv, TaskShape, JobCallInv, ActivationShape
  <2> QED
    BY <1>7, <1>f, <2>1 DEF DeliverTimeout
<1> QED
  BY <1>1, <1>2, <1>3, <1>4, <1>5, <1>6, <1>7 DEF DeliverStep

\* _deliver preserves the invariant.
LEMMA DeliverCalls ==
  ASSUME TypeOK, LeaseInv, CallInv, NEW j \in Jobs, DeliverStep(j)
  PROVE  CallInv'
<1>1. UNCHANGED <<connected, goal, writer, prep, prepCall, prepVal, pausedAt, identity, revision, user>>
  BY DeliverShape DEF deliverFrame, goalVars, userVars
<1>2. \A k \in Jobs : SamePrepare(k) /\ GoalKept(k)
  BY <1>1 DEF SamePrepare, GoalKept
<1>3. ASSUME NEW k \in Jobs, k # j PROVE RowGoesOn(k) /\ SameDelivery(k)
  <2>0. PICK pc, c : DeliverGoto(j, pc, c)
    BY DeliverShape
  <2>1. wakeCall'[k] = wakeCall[k]
    BY <1>3, <2>0 DEF TypeOK, AppTypeOK, DeliverGoto, WakeSend
  <2> QED
    BY <1>1, <1>3, <2>1, DeliverOthers DEF Same, RowGoesOn, SameDelivery
<1>4. ActivationShape(j)'
  BY DeliverAsks DEF ActivationShape
<1>5. \A k \in Jobs : ActivationShape(k)'
  BY <1>3, <1>4, ActivationKept DEF CallInv, JobCallInv
<1> QED
  BY <1>1, <1>2, <1>3, <1>5, DeliverAsks, PauseKept DEF CallInv, JobCallInv

-----------------------------------------------------------------------------
(* The other steps                                                         *)

\* Notifications and controls revoke or leave everything as it is.
LEMMA ManualCalls ==
  ASSUME TypeOK, LeaseInv, CallInv,
         OnNotification \/ ForwardControl \/ \E op \in UserOps : UserGoalControl(op)
  PROVE  CallInv'
<1>1. UNCHANGED <<connected, goal, writer, prep, prepCall, prepVal, pausedAt, identity,
                  revision, deliver>>
  BY DEF OnNotification, ForwardControl, UserGoalControl, userFrame, goalVars
<1>2. AbandonForManualChange \/ keepLease
  BY DEF OnNotification, GoalUpdated, ForwardControl, UserGoalControl
<1>3. user' # "none" => connected
  BY DEF CallInv, OnNotification, ForwardControl, UserGoalControl, userVars
<1>4. CASE AbandonForManualChange
  BY <1>1, <1>3, <1>4, AbandonCalls DEF CallInv
<1>5. CASE keepLease
  BY <1>1, <1>3, <1>5, PauseKept, ActivationKept
  DEF CallInv, JobCallInv, SamePrepare, RowGoesOn, GoalKept, SameDelivery, keepLease
<1> QED
  BY <1>2, <1>4, <1>5

\* A stop leaves the requests that were written in flight, and nobody awaits them.
LEMMA CrashCalls ==
  ASSUME TypeOK, LeaseInv, CallInv, Crash
  PROVE  CallInv'
<1>1. user' = "none" /\ ~connected' /\ UNCHANGED <<goal, writer, state, delivery, identity, revision>>
  BY DEF Crash, rowVars
<1>2. ASSUME NEW k \in Jobs PROVE JobCallInv(k)'
  <2>0. JobInv(k) /\ JobCallInv(k)
    BY DEF LeaseInv, CallInv
  <2>1. /\ prepCall'[k] = IF prepCall[k] \in {"set", "late"} THEN "late" ELSE "none"
        /\ wakeCall'[k] = IF wakeCall[k] \in {"set", "late"} THEN "late" ELSE "none"
        /\ prep'[k] = IF prep[k] = "none" THEN "none" ELSE "done"
    BY DEF Crash, Orphaned
  <2>2. ActivationShape(k)'
    BY <1>1, <2>0, <2>1 DEF ActivationShape, JobCallInv, JobInv, TaskShape
  <2>3. PauseCallShape(k)'
    BY <1>1, <2>0, <2>1 DEF PauseCallShape, JobCallInv, Pause
  <2>4. PauseShape(k)'
    BY <1>1, <2>0, <2>1 DEF PauseShape, JobCallInv, Pause, SameGoal, StillOurs
  <2> QED
    BY <2>2, <2>3, <2>4 DEF JobCallInv
<1> QED
  BY <1>1, <1>2 DEF CallInv

\* Recovery settles the lease of every activation that was in flight.
LEMMA RestartCalls ==
  ASSUME TypeOK, LeaseInv, CallInv, Restart
  PROVE  CallInv'
<1>1. /\ UNCHANGED <<goal, writer, prep, prepCall, prepVal, pausedAt, identity, revision, wakeCall, user>>
      /\ connected' /\ ~connected
  BY DEF Restart, goalVars, callVars, userVars
<1>2. ASSUME NEW k \in Jobs PROVE JobCallInv(k)'
  <2>0. JobInv(k) /\ JobCallInv(k)
    BY DEF LeaseInv, CallInv
  <2>1. \/ state'[k] = state[k] /\ delivery'[k] = delivery[k] /\ delivery[k] # "activating"
        \/ state'[k] = "failed" /\ delivery'[k] = "needs_manual_recovery"
    <3>1. state'[k] = Recovered(k)[1] /\ delivery'[k] = Recovered(k)[2]
      BY DEF Restart
    <3> QED
      BY <2>0, <3>1, RecoveredRow DEF JobInv
  <2>2. SamePrepare(k) /\ RowGoesOn(k) /\ GoalKept(k)
    BY <1>1, <2>1 DEF SamePrepare, RowGoesOn, GoalKept, Retired
  <2>3. wakeCall[k] # "set"
    BY <1>1, <2>0 DEF JobCallInv, ActivationShape, JobInv, TaskShape
  <2>4. ActivationShape(k)'
    BY <1>1, <2>0, <2>1, <2>3 DEF ActivationShape, JobCallInv
  <2> QED
    BY <2>0, <2>2, <2>4, PauseKept DEF JobCallInv
<1> QED
  BY <1>1, <1>2 DEF CallInv

\* The initial state satisfies the invariant.
LEMMA InitCalls == Init => CallInv
BY DEF Init, AppInit, CallInv, JobCallInv, ActivationShape, PauseCallShape, PauseShape, Pause, Outside

\* Every step preserves it.
LEMMA NextCalls ==
  ASSUME TypeOK, LeaseInv, CallInv, [Next]_vars
  PROVE  CallInv'
<1>1. ASSUME NEW j \in Jobs, JobNext(j) PROVE CallInv'
  BY <1>1, PrepareCalls, DueCalls, DeliverCalls DEF JobNext, DeliverStep
<1>2. CASE UNCHANGED vars
  BY <1>2, PauseKept, ActivationKept
  DEF CallInv, JobCallInv, SamePrepare, RowGoesOn, GoalKept, SameDelivery,
      vars, appVars, goalVars, callVars, bridgeVars, rowVars, taskVars, userVars
<1> QED
  BY <1>1, <1>2, AppCalls, ManualCalls, CrashCalls, RestartCalls DEF Next

\* Every goal/set in flight is the one its task awaits or one given up, and the
\* pause of a registration is known from its reply to its row, whatever times out,
\* crashes or is written by others meanwhile (bridge.py:147-402).
THEOREM CallInvariant == Spec => []CallInv
<1>1. TypeOK /\ LeaseInv /\ CallInv /\ [Next]_vars => CallInv'
  BY NextCalls
<1> QED
  BY <1>1, InitCalls, TypeCorrect, LeaseInvariant, PTL DEF Spec

-----------------------------------------------------------------------------
(* What follows from it                                                    *)

\* The row of a committed lease records the revision the App Server holds, as long
\* as nobody has written the Goal since its pause: a delivery recognises its own
\* pause, also after a restart (bridge.py:215-220, 358).
THEOREM Recorded == Spec => []PauseRecorded
<1>1. CallInv => PauseRecorded
  BY DEF CallInv, JobCallInv, PauseShape, PauseRecorded, Pause
<1> QED
  BY <1>1, CallInvariant, PTL

\* No step but a user's control makes the queue of forwarded controls longer, and
\* that one has the lock.
LEMMA ForwardsAlone ==
  ASSUME TypeOK, [Next]_vars, Len(controls') > Len(controls)
  PROVE  LockFree /\ (connected \/ user # "none")
<1>1. controls' # controls
  BY DEF TypeOK, AppTypeOK
<1>2. ~ApplyControl
  BY DEF TypeOK, AppTypeOK, ApplyControl
<1>3. ~AppNext
  BY <1>1, <1>2 DEF AppNext, Tick, TurnStart, TurnEnd, OutsideChange, AnswerPrepare, AnswerWake
<1>4. ASSUME NEW j \in Jobs, JobNext(j) PROVE FALSE
  <2>1. ~DeliverStep(j)
    BY <1>1, DeliverShape DEF deliverFrame
  <2> QED
    BY <1>1, <1>4, <2>1 DEF JobNext, DeliverStep, Prepare, PrepareSnapshot, PreparePaused, PrepareConfirm,
                            PrepareTimeout, Terminal, Abort, ExpireAtDeadline, appVars
<1>5. ForwardControl \/ \E op \in UserOps : UserGoalControl(op)
  BY <1>1, <1>3, <1>4 DEF Next, vars, appVars, OnNotification, Crash, Restart
<1> QED
  BY <1>1, <1>5 DEF ForwardControl, UserGoalControl

\* A user's control is forwarded only when no activation is awaited; one that is on
\* its way all the same has timed out or was orphaned by a stop, and its lease is
\* left to the user.  This is what the lock gives of ControlsSerialized
\* (bridge.py:345-402, 404-411).
ForwardedAlone ==
  [][Len(controls') > Len(controls) =>
       \A j \in Jobs : wakeCall[j] \in {"set", "late"} =>
                         wakeCall[j] = "late" /\ delivery[j] = "needs_manual_recovery"]_vars

\* The control lock keeps an awaited activation and the user's controls apart, for
\* any jobs, Goals and bounds.
THEOREM Serialized == Spec => ForwardedAlone
<1> DEFINE Step == Len(controls') > Len(controls) =>
                     \A j \in Jobs : wakeCall[j] \in {"set", "late"} =>
                       wakeCall[j] = "late" /\ delivery[j] = "needs_manual_recovery"
<1>1. TypeOK /\ CallInv /\ [Next]_vars => Step
  BY ForwardsAlone DEF CallInv, JobCallInv, ActivationShape, LockFree
<1>2. TypeOK /\ CallInv /\ [Next]_vars => [Step]_vars
  BY <1>1
<1> QED
  BY <1>2, TypeCorrect, CallInvariant, PTL DEF Spec, ForwardedAlone

=============================================================================
