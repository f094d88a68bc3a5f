-------------------------- MODULE GoalBridgeProofs --------------------------
(***************************************************************************)
(* Theorems about the Goal bridge, for any set of jobs, Goals and bounds.   *)
(***************************************************************************)
EXTENDS GoalBridge, TLAPS

-----------------------------------------------------------------------------
(* Type correctness                                                        *)

\* A goal/set stamps an existing Goal with the current second.
LEMMA WithStatusType ==
  ASSUME TypeOK, goal # NoGoal, NEW s \in GoalStatus
  PROVE  WithStatus(s) \in Goal
BY DEF TypeOK, AppTypeOK, Snap, Goal, WithStatus

\* A write keeps the Goal, its history and the notification queue well typed.
LEMMA WriteGoalType ==
  ASSUME TypeOK, NEW g \in Snap, NEW w \in Writers, WriteGoal(g, w)
  PROVE  goal' \in Snap /\ writer' \in Writers /\ held' \in BOOLEAN /\ notifs' \in Seq(Notification)
<1>1. [kind |-> IF g = NoGoal THEN "cleared" ELSE "updated", goal |-> g] \in Notification
  BY DEF Notification
<1>2. notifs' \in Seq(Notification)
  BY <1>1 DEF TypeOK, AppTypeOK, WriteGoal, Notify
<1> QED
  BY <1>2 DEF WriteGoal

\* So does every control.
LEMMA ControlGoalType ==
  ASSUME TypeOK, NEW op, NEW w \in Writers, ControlGoal(op, w)
  PROVE  goal' \in Snap /\ writer' \in Writers /\ held' \in BOOLEAN /\ notifs' \in Seq(Notification)
<1>1. CASE op \in GoalStatus /\ goal # NoGoal /\ WriteGoal(WithStatus(op), w)
  BY <1>1, WithStatusType, WriteGoalType DEF Snap
<1>2. CASE op = "edit" /\ \E g \in GoalIds \ {goal.id} :
             WriteGoal([id |-> g, status |-> "active", at |-> clock], w)
  <2>1. PICK g \in GoalIds : WriteGoal([id |-> g, status |-> "active", at |-> clock], w)
    BY <1>2
  <2>2. [id |-> g, status |-> "active", at |-> clock] \in Snap
    BY DEF TypeOK, AppTypeOK, Snap, Goal, GoalStatus
  <2> QED
    BY <2>1, <2>2, WriteGoalType
<1>3. CASE op = "clear" /\ goal # NoGoal /\ WriteGoal(NoGoal, w)
  BY <1>3, WriteGoalType DEF Snap
<1>4. CASE op = "account" /\ goal.status = "active" /\ WriteGoal(WithStatus("active"), w)
  <2>1. goal # NoGoal
    BY <1>4 DEF NoGoal
  <2> QED
    BY <2>1, <1>4, WithStatusType, WriteGoalType DEF Snap, GoalStatus
<1> QED
  BY <1>1, <1>2, <1>3, <1>4 DEF ControlGoal

\* A thread/status event, too, is a notification.
LEMMA NotifyStatusType ==
  ASSUME TypeOK, Notify([kind |-> "status", goal |-> NoGoal])
  PROVE  notifs' \in Seq(Notification)
<1>1. [kind |-> "status", goal |-> NoGoal] \in Notification
  BY DEF Notification, Snap
<1> QED
  BY <1>1 DEF TypeOK, AppTypeOK, Notify

\* The App Server's steps keep its state well typed.
LEMMA AppNextType ==
  ASSUME TypeOK, AppNext
  PROVE  AppTypeOK'
<1> USE AppServerBounds DEF TypeOK, AppTypeOK, goalVars, callVars, envVars
<1>1. CASE Tick
  BY <1>1 DEF Tick
<1>2. CASE TurnStart
  BY <1>2, NotifyStatusType DEF TurnStart, ThreadStatus
<1>3. CASE TurnEnd
  BY <1>3, NotifyStatusType DEF TurnEnd, ThreadStatus
<1>4. CASE OutsideChange
  <2>1. PICK op \in OutsideOps : ControlGoal(op, Outside)
    BY <1>4 DEF OutsideChange
  <2>2. Outside \in Writers
    BY DEF Outside, Writers
  <2>3. goal' \in Snap /\ writer' \in Writers /\ held' \in BOOLEAN /\ notifs' \in Seq(Notification)
    BY <2>1, <2>2, ControlGoalType
  <2> QED
    BY <1>4, <2>3 DEF OutsideChange
<1>5. CASE ApplyControl
  <2>1. User \in Writers
    BY DEF User, Writers
  <2>2. goal' \in Snap /\ writer' \in Writers /\ held' \in BOOLEAN /\ notifs' \in Seq(Notification)
    BY <1>5, <2>1, ControlGoalType DEF ApplyControl
  <2>3. controls' \in Seq(ControlOps)
    BY <1>5 DEF ApplyControl
  <2> QED
    BY <1>5, <2>2, <2>3 DEF ApplyControl
<1>6. ASSUME NEW j \in Jobs, AnswerPrepare(j)
      PROVE  AppTypeOK'
  <2>1. [kind |-> "pause", job |-> j] \in Writers
    BY DEF Writers
  <2>2. goal # NoGoal => WithStatus("paused") \in Goal
    BY WithStatusType DEF GoalStatus
  <2>3. goal' \in Snap /\ writer' \in Writers /\ held' \in BOOLEAN /\ notifs' \in Seq(Notification)
    BY <1>6, <2>1, <2>2, WriteGoalType DEF AnswerPrepare, Snap
  <2>4. prepCall' \in [Jobs -> CallState]
    <3>1. PICK c \in {"none", "ok", "error"} : prepCall' = [prepCall EXCEPT ![j] = c]
      BY <1>6 DEF AnswerPrepare, Answered
    <3>2. c \in CallState
      BY DEF CallState
    <3> QED
      BY <3>1, <3>2
  <2>5. prepVal' \in [Jobs -> Reply]
    <3>1. goal \in Reply /\ NoGoal \in Reply
      BY DEF Reply, Snap
    <3>2. goal # NoGoal => WithStatus("paused") \in Reply
      BY <2>2 DEF Reply, Snap
    <3>3. UNCHANGED prepVal \/ \E r \in Reply : prepVal' = [prepVal EXCEPT ![j] = r]
      BY <1>6, <3>1, <3>2 DEF AnswerPrepare
    <3> QED
      BY <3>3
  <2> QED
    BY <1>6, <2>3, <2>4, <2>5 DEF AnswerPrepare
<1>7. ASSUME NEW j \in Jobs, AnswerWake(j)
      PROVE  AppTypeOK'
  <2>1. [kind |-> "wake", job |-> j] \in Writers
    BY DEF Writers
  <2>2. goal # NoGoal => WithStatus("active") \in Goal
    BY WithStatusType DEF GoalStatus
  <2>3. goal' \in Snap /\ writer' \in Writers /\ held' \in BOOLEAN /\ notifs' \in Seq(Notification)
    BY <1>7, <2>1, <2>2, WriteGoalType DEF AnswerWake, Snap
  <2>4. wakeCall' \in [Jobs -> CallState]
    <3>1. PICK c \in {"none", "ok", "error"} : wakeCall' = [wakeCall EXCEPT ![j] = c]
      BY <1>7 DEF AnswerWake, Answered
    <3>2. c \in CallState
      BY DEF CallState
    <3> QED
      BY <3>1, <3>2
  <2>5. [id |-> NoId, status |-> thread, at |-> 0] \in Reply
    BY DEF Reply
  <2>6. wakeVal' \in [Jobs -> Reply]
    <3>1. goal \in Reply /\ NoGoal \in Reply
      BY DEF Reply, Snap
    <3>2. goal # NoGoal => WithStatus("active") \in Reply
      BY <2>2 DEF Reply, Snap
    <3> QED
      BY <1>7, <2>5, <3>1, <3>2 DEF AnswerWake
  <2> QED
    BY <1>7, <2>3, <2>4, <2>6 DEF AnswerWake
<1> QED
  BY <1>1, <1>2, <1>3, <1>4, <1>5, <1>6, <1>7 DEF AppNext

\* The labels the actions assign.
LEMMA LabelTypes ==
  /\ "none" \in States /\ "preparing" \in States /\ "armed" \in States /\ "terminal" \in States
  /\ "delivered" \in States /\ "abandoned" \in States /\ "failed" \in States
  /\ "none" \in DeliveryStates /\ "pending" \in DeliveryStates
  /\ "waiting_for_idle" \in DeliveryStates /\ "activating" \in DeliveryStates
  /\ "resumed" \in DeliveryStates /\ "abandoned" \in DeliveryStates
  /\ "needs_manual_recovery" \in DeliveryStates
  /\ "none" \in CallState /\ "read" \in CallState /\ "get" \in CallState
  /\ "set" \in CallState /\ "late" \in CallState
  /\ "none" \in PrepPCs /\ "get" \in PrepPCs /\ "set" \in PrepPCs
  /\ "confirm" \in PrepPCs /\ "done" \in PrepPCs
  /\ "none" \in DeliverPCs /\ "start" \in DeliverPCs /\ "read" \in DeliverPCs
  /\ "reread" \in DeliverPCs /\ "wait" \in DeliverPCs /\ "lock" \in DeliverPCs
  /\ "check" \in DeliverPCs /\ "get" \in DeliverPCs /\ "set" \in DeliverPCs
BY DEF States, Live, Retired, DeliveryStates, Settled, CallState, PrepPCs, DeliverPCs

\* An empty queue is well typed.
LEMMA EmptyType == <<>> \in Seq(Snap) /\ <<>> \in Seq(Notification)
OBVIOUS

\* A queue grows within its type.
LEMMA AppendType ==
  ASSUME NEW S, NEW q \in Seq(S), NEW x \in S
  PROVE  Append(q, x) \in Seq(S)
OBVIOUS

\* Setting or clearing a job's flag.
LEMMA FlagType ==
  ASSUME NEW f \in [Jobs -> BOOLEAN], NEW j \in Jobs, NEW b \in BOOLEAN
  PROVE  [f EXCEPT ![j] = b] \in [Jobs -> BOOLEAN]
OBVIOUS

\* The first second is one.
LEMMA ZeroType == 0 \in 0..MaxClock
BY AppServerBounds

\* Sending a request leaves the reply slot empty.
LEMMA SendType ==
  ASSUME TypeOK, NEW j \in Jobs, NEW c \in CallState
  PROVE  /\ PrepSend(j, c) => prepCall' \in [Jobs -> CallState] /\ prepVal' \in [Jobs -> Reply]
         /\ WakeSend(j, c) => wakeCall' \in [Jobs -> CallState] /\ wakeVal' \in [Jobs -> Reply]
<1>1. NoGoal \in Reply
  BY DEF Reply, Snap
<1>2. ASSUME PrepSend(j, c)
      PROVE  prepCall' \in [Jobs -> CallState] /\ prepVal' \in [Jobs -> Reply]
  BY <1>1, <1>2 DEF TypeOK, AppTypeOK, PrepSend
<1>3. ASSUME WakeSend(j, c)
      PROVE  wakeCall' \in [Jobs -> CallState] /\ wakeVal' \in [Jobs -> Reply]
  BY <1>1, <1>3 DEF TypeOK, AppTypeOK, WakeSend
<1> QED
  BY <1>2, <1>3

\* Revocation only changes rows, tasks and calls within their types.
LEMMA AbandonType ==
  ASSUME TypeOK, AbandonForManualChange
  PROVE  /\ state' \in [Jobs -> States]
         /\ delivery' \in [Jobs -> DeliveryStates]
         /\ cancelled' \in [Jobs -> BOOLEAN]
         /\ deadline' \in [Jobs -> BOOLEAN]
         /\ wakeCall' \in [Jobs -> CallState]
<1> USE LabelTypes DEF TypeOK, AppTypeOK, AbandonForManualChange
<1>1. state' \in [Jobs -> States]
  OBVIOUS
<1>2. delivery' \in [Jobs -> DeliveryStates]
  OBVIOUS
<1>3. cancelled' \in [Jobs -> BOOLEAN]
  OBVIOUS
<1>4. deadline' \in [Jobs -> BOOLEAN]
  OBVIOUS
<1>5. wakeCall' \in [Jobs -> CallState]
  OBVIOUS
<1> QED
  BY <1>1, <1>2, <1>3, <1>4, <1>5

\* The snapshots _prepare keeps in a row are of an existing Goal.
LEMMA ReplyFields ==
  ASSUME NEW r \in Reply, r.status \in GoalStatus, r.status \notin {"idle", "systemError"}
  PROVE  r.id \in GoalIds \cup {NoId} /\ r.at \in 0..MaxClock
BY AppServerBounds DEF Reply, Snap, Goal, NoGoal, GoalStatus, ThreadStatus

\* A row keeps its type.
LEMMA SetRowType ==
  ASSUME TypeOK, NEW j \in Jobs, NEW s \in States, NEW d \in DeliveryStates, SetRow(j, s, d)
  PROVE  state' \in [Jobs -> States] /\ delivery' \in [Jobs -> DeliveryStates]
BY DEF TypeOK, SetRow

\* _prepare's error path keeps everything well typed.
LEMMA PrepareFailsType ==
  ASSUME TypeOK, NEW j \in Jobs, NEW c \in {"none", "late"}, PrepareFails(j, c)
  PROVE  /\ prepCall' \in [Jobs -> CallState] /\ prepVal' \in [Jobs -> Reply]
         /\ state' \in [Jobs -> States] /\ delivery' \in [Jobs -> DeliveryStates]
         /\ revision' \in [Jobs -> 0..MaxClock] /\ pausedAt' \in [Jobs -> 0..MaxClock]
         /\ prep' \in [Jobs -> PrepPCs] /\ deliver' \in [Jobs -> DeliverPCs]
         /\ deadline' \in [Jobs -> BOOLEAN] /\ buffer' \in Seq(Snap)
         /\ buffering' \in BOOLEAN /\ expected' \in BOOLEAN
<1>1. prepCall' \in [Jobs -> CallState] /\ prepVal' \in [Jobs -> Reply]
  BY SendType, LabelTypes DEF PrepareFails
<1>2. state' \in [Jobs -> States] /\ delivery' \in [Jobs -> DeliveryStates]
  BY SetRowType, LabelTypes DEF PrepareFails, TypeOK
<1>3. pausedAt' \in [Jobs -> 0..MaxClock]
  BY ZeroType DEF PrepareFails, TypeOK
<1>4. prep' \in [Jobs -> PrepPCs]
  BY LabelTypes DEF PrepareFails, TypeOK
<1>5. buffer' \in Seq(Snap)
  BY EmptyType DEF PrepareFails
<1>6. buffering' \in BOOLEAN /\ expected' \in BOOLEAN
  BY DEF PrepareFails
<1>7. /\ revision' \in [Jobs -> 0..MaxClock] /\ deliver' \in [Jobs -> DeliverPCs]
      /\ deadline' \in [Jobs -> BOOLEAN]
  BY DEF PrepareFails, TypeOK
<1> QED
  BY <1>1, <1>2, <1>3, <1>4, <1>5, <1>6, <1>7

\* _prepare keeps everything well typed.
LEMMA PrepareType ==
  ASSUME TypeOK, NEW j \in Jobs,
         Prepare(j) \/ PrepareSnapshot(j) \/ PreparePaused(j) \/ PrepareConfirm(j) \/ PrepareTimeout(j)
  PROVE  TypeOK'
<1> USE DEF TypeOK, AppTypeOK, goalVars, envVars, rowVars, memVars, userVars
<1>1. CASE Prepare(j)
  <2>1. prepCall' \in [Jobs -> CallState] /\ prepVal' \in [Jobs -> Reply]
    BY <1>1, SendType, LabelTypes DEF Prepare
  <2>2. prep' \in [Jobs -> PrepPCs]
    BY <1>1, LabelTypes DEF Prepare
  <2> QED
    BY <1>1, <2>1, <2>2 DEF Prepare
<1>2. CASE PrepareSnapshot(j)
  <2>1. prepCall' \in [Jobs -> CallState] /\ prepVal' \in [Jobs -> Reply]
    BY <1>2, SendType, LabelTypes DEF PrepareSnapshot, CreateLease
  <2>2. prepVal[j].status = "active" => prepVal[j].id \in GoalIds \cup {NoId} /\ prepVal[j].at \in 0..MaxClock
    BY ReplyFields DEF GoalStatus
  <2>3. buffer' \in Seq(Snap) /\ buffering' \in BOOLEAN
    BY <1>2, EmptyType DEF PrepareSnapshot, CreateLease
  <2>4. state' \in [Jobs -> States] /\ delivery' \in [Jobs -> DeliveryStates]
    BY <1>2, SetRowType, LabelTypes DEF PrepareSnapshot, CreateLease
  <2>5. identity' \in [Jobs -> GoalIds \cup {NoId}]
    BY <1>2, <2>2 DEF PrepareSnapshot, CreateLease
  <2>6. revision' \in [Jobs -> 0..MaxClock]
    BY <1>2, <2>2 DEF PrepareSnapshot, CreateLease
  <2>7. prep' \in [Jobs -> PrepPCs]
    <3>1. \E l \in {"set", "done"} : prep' = [prep EXCEPT ![j] = l]
      BY <1>2 DEF PrepareSnapshot, CreateLease
    <3> QED
      BY <3>1, LabelTypes
  <2> QED
    BY <1>2, <2>1, <2>3, <2>4, <2>5, <2>6, <2>7 DEF PrepareSnapshot, CreateLease
<1>4. CASE PreparePaused(j)
  <2>1. CASE PrepareFails(j, "none")
    BY <1>4, <2>1, PrepareFailsType DEF PreparePaused
  <2>2. CASE ~PrepareFails(j, "none")
    <3>1. prepCall' \in [Jobs -> CallState] /\ prepVal' \in [Jobs -> Reply]
      BY <1>4, <2>2, SendType, LabelTypes DEF PreparePaused
    <3>2. prepVal[j].at \in 0..MaxClock
      BY <1>4, <2>2, ReplyFields DEF PreparePaused, PauseConfirmed, GoalStatus
    <3>3. pausedAt' \in [Jobs -> 0..MaxClock]
      BY <1>4, <2>2, <3>2 DEF PreparePaused
    <3>4. prep' \in [Jobs -> PrepPCs]
      BY <1>4, <2>2, LabelTypes DEF PreparePaused
    <3> QED
      BY <1>4, <2>2, <3>1, <3>3, <3>4 DEF PreparePaused
  <2> QED
    BY <2>1, <2>2
<1>5. CASE PrepareConfirm(j)
  <2>1. CASE PrepareFails(j, "none")
    BY <1>5, <2>1, PrepareFailsType DEF PrepareConfirm
  <2>2. CASE ~PrepareFails(j, "none")
    <3>1. prepCall' \in [Jobs -> CallState] /\ prepVal' \in [Jobs -> Reply]
      BY <1>5, <2>2, SendType, LabelTypes DEF PrepareConfirm
    <3>2. deliver' \in [Jobs -> DeliverPCs]
      BY <1>5, <2>2, LabelTypes DEF PrepareConfirm, ScheduleDelivery
    <3>3. deadline' \in [Jobs -> BOOLEAN]
      <4>1. deadline' = deadline \/ deadline' = [deadline EXCEPT ![j] = TRUE]
        BY <1>5, <2>2 DEF PrepareConfirm
      <4> QED
        BY <4>1, FlagType
    <3>4. state' \in [Jobs -> States] /\ delivery' \in [Jobs -> DeliveryStates]
      BY <1>5, <2>2, SetRowType, LabelTypes DEF PrepareConfirm, CommitState
    <3>5. revision' \in [Jobs -> 0..MaxClock]
      BY <1>5, <2>2 DEF PrepareConfirm, CommitRevision
    <3>6. pausedAt' \in [Jobs -> 0..MaxClock]
      <4>1. pausedAt' = [pausedAt EXCEPT ![j] = 0]
        BY <1>5, <2>2 DEF PrepareConfirm
      <4> QED
        BY <4>1, ZeroType
    <3>7. prep' \in [Jobs -> PrepPCs]
      <4>1. prep' = [prep EXCEPT ![j] = "done"]
        BY <1>5, <2>2 DEF PrepareConfirm
      <4> QED
        BY <4>1, LabelTypes
    <3>8. buffering' \in BOOLEAN /\ buffer' \in Seq(Snap)
      BY <1>5, <2>2, EmptyType DEF PrepareConfirm
    <3> QED
      BY <1>5, <2>2, <3>1, <3>2, <3>3, <3>4, <3>5, <3>6, <3>7, <3>8 DEF PrepareConfirm
  <2> QED
    BY <2>1, <2>2
<1>6. CASE PrepareTimeout(j)
  <2>1. CASE prep[j] = "get"
    <3>1. prepCall' \in [Jobs -> CallState] /\ prepVal' \in [Jobs -> Reply]
      BY <1>6, <2>1, SendType, LabelTypes DEF PrepareTimeout
    <3>2. prep' \in [Jobs -> PrepPCs]
      BY <1>6, <2>1, LabelTypes DEF PrepareTimeout
    <3> QED
      BY <1>6, <2>1, <3>1, <3>2 DEF PrepareTimeout
  <2>2. CASE prep[j] # "get"
    <3>1. \E c \in {"none", "late"} : PrepareFails(j, c)
      BY <1>6, <2>2 DEF PrepareTimeout
    <3> QED
      BY <1>6, <2>2, <3>1, PrepareFailsType DEF PrepareTimeout
  <2> QED
    BY <2>1, <2>2
<1> QED
  BY <1>1, <1>2, <1>4, <1>5, <1>6

\* A lease that becomes due keeps its row and its task well typed.
LEMMA BecomesDueType ==
  ASSUME TypeOK, NEW j \in Jobs, BecomesDue(j)
  PROVE  /\ state' \in [Jobs -> States] /\ delivery' \in [Jobs -> DeliveryStates]
         /\ terminal' \in [Jobs -> BOOLEAN] /\ deliver' \in [Jobs -> DeliverPCs]
<1>1. state' \in [Jobs -> States] /\ delivery' \in [Jobs -> DeliveryStates]
  BY SetRowType, LabelTypes DEF BecomesDue
<1>2. terminal' \in [Jobs -> BOOLEAN]
  BY FlagType DEF BecomesDue, TypeOK
<1>3. deliver' \in [Jobs -> DeliverPCs]
  BY LabelTypes DEF BecomesDue, ScheduleDelivery, TypeOK
<1> QED
  BY <1>1, <1>2, <1>3

\* _terminal, _abort and the deadline keep everything well typed.
LEMMA DueType ==
  ASSUME TypeOK, NEW j \in Jobs, Terminal(j) \/ Abort(j) \/ ExpireAtDeadline(j)
  PROVE  TypeOK'
<1> USE DEF TypeOK, AppTypeOK, appVars, goalVars, callVars, envVars, memVars, userVars
<1>1. CASE Terminal(j)
  <2>1. /\ state' \in [Jobs -> States] /\ delivery' \in [Jobs -> DeliveryStates]
        /\ terminal' \in [Jobs -> BOOLEAN] /\ deliver' \in [Jobs -> DeliverPCs]
    BY <1>1, BecomesDueType, FlagType DEF Terminal
  <2>2. deadline' = deadline \/ deadline' = [deadline EXCEPT ![j] = FALSE]
    BY <1>1 DEF Terminal
  <2>3. deadline' \in [Jobs -> BOOLEAN]
    BY <2>2, FlagType
  <2> QED
    BY <1>1, <2>1, <2>3 DEF Terminal
<1>2. CASE Abort(j)
  <2>1. /\ state' \in [Jobs -> States] /\ delivery' \in [Jobs -> DeliveryStates]
        /\ terminal' \in [Jobs -> BOOLEAN] /\ deliver' \in [Jobs -> DeliverPCs]
        /\ cancelled' \in [Jobs -> BOOLEAN] /\ deadline' \in [Jobs -> BOOLEAN]
        /\ wakeCall' \in [Jobs -> CallState]
    BY <1>2, BecomesDueType, AbandonType DEF Abort
  <2> QED
    BY <1>2, <2>1 DEF Abort
<1>3. CASE ExpireAtDeadline(j)
  <2>1. /\ state' \in [Jobs -> States] /\ delivery' \in [Jobs -> DeliveryStates]
        /\ terminal' \in [Jobs -> BOOLEAN] /\ deliver' \in [Jobs -> DeliverPCs]
    BY <1>3, BecomesDueType DEF ExpireAtDeadline
  <2>2. deadline' = [deadline EXCEPT ![j] = FALSE]
    BY <1>3 DEF ExpireAtDeadline
  <2>3. deadline' \in [Jobs -> BOOLEAN]
    BY <2>2, FlagType
  <2> QED
    BY <1>3, <2>1, <2>3 DEF ExpireAtDeadline
<1> QED
  BY <1>1, <1>2, <1>3

\* Each step of a delivery task moves its counter and its call.
LEMMA DeliverGotoType ==
  ASSUME TypeOK, NEW j \in Jobs, NEW pc \in DeliverPCs, NEW c \in CallState, DeliverGoto(j, pc, c)
  PROVE  /\ deliver' \in [Jobs -> DeliverPCs] /\ cancelled' \in [Jobs -> BOOLEAN]
         /\ wakeCall' \in [Jobs -> CallState] /\ wakeVal' \in [Jobs -> Reply]
<1>1. wakeCall' \in [Jobs -> CallState] /\ wakeVal' \in [Jobs -> Reply]
  BY SendType DEF DeliverGoto
<1>2. cancelled' \in [Jobs -> BOOLEAN]
  BY FlagType DEF DeliverGoto, TypeOK
<1>3. deliver' \in [Jobs -> DeliverPCs]
  BY DEF DeliverGoto, TypeOK
<1> QED
  BY <1>1, <1>2, <1>3

\* The steps of a delivery task.
DeliverStep(j) ==
  \/ DeliverStart(j) \/ DeliverRead(j) \/ DeliverReread(j) \/ DeliverWait(j) \/ DeliverLock(j)
  \/ DeliverCheck(j) \/ DeliverActivate(j) \/ DeliverActivated(j) \/ DeliverTimeout(j)
  \/ DeliverUnwind(j)

\* What such a step does to its own job, and to nothing else.
LEMMA DeliverShape ==
  ASSUME TypeOK, NEW j \in Jobs, DeliverStep(j)
  PROVE  /\ \E pc \in DeliverPCs, c \in CallState : DeliverGoto(j, pc, c)
         /\ \/ UNCHANGED <<state, delivery>>
            \/ \E s \in States, d \in DeliveryStates : SetRow(j, s, d)
            \/ state' = state /\ delivery' = [delivery EXCEPT ![j] = "activating"]
         /\ wakes' = wakes \/ wakes' = [wakes EXCEPT ![j] = @ + 1]
         /\ event' \in {event, FALSE}
         /\ expected' \in {expected, TRUE, FALSE}
         /\ UNCHANGED deliverFrame
<1> USE LabelTypes
<1>f. ASSUME NEW c \in CallState, DeliverFails(j, c)
      PROVE  /\ \E pc \in DeliverPCs, d \in CallState : DeliverGoto(j, pc, d)
             /\ \/ UNCHANGED <<state, delivery>>
                \/ \E s \in States, d \in DeliveryStates : SetRow(j, s, d)
             /\ UNCHANGED <<event, wakes>>
  BY <1>f DEF DeliverFails
<1>1. CASE DeliverStart(j)
  BY <1>1 DEF DeliverStart
<1>2. CASE DeliverRead(j)
  BY <1>2, <1>f DEF DeliverRead
<1>3. CASE DeliverReread(j)
  BY <1>3, <1>f DEF DeliverReread
<1>4. CASE DeliverWait(j)
  BY <1>4 DEF DeliverWait
<1>5. CASE DeliverLock(j)
  BY <1>5 DEF DeliverLock
<1>6. CASE DeliverCheck(j)
  BY <1>6, <1>f DEF DeliverCheck
<1>7. CASE DeliverActivate(j)
  BY <1>7, <1>f DEF DeliverActivate
<1>8. CASE DeliverActivated(j)
  BY <1>8 DEF DeliverActivated
<1>9. CASE DeliverTimeout(j)
  <2>1. (IF wakeCall[j] = "set" THEN "late" ELSE "none") \in CallState
    OBVIOUS
  <2>2. expected' \in {expected, TRUE, FALSE}
    BY <1>9 DEF DeliverTimeout, TypeOK
  <2> QED
    BY <1>9, <1>f, <2>1, <2>2 DEF DeliverTimeout
<1>10. CASE DeliverUnwind(j)
  BY <1>10 DEF DeliverUnwind
<1> QED
  BY <1>1, <1>2, <1>3, <1>4, <1>5, <1>6, <1>7, <1>8, <1>9, <1>10 DEF DeliverStep

\* _deliver keeps everything well typed.
LEMMA DeliverType ==
  ASSUME TypeOK, NEW j \in Jobs, DeliverStep(j)
  PROVE  TypeOK'
<1> USE DEF TypeOK, AppTypeOK
<1>1. /\ deliver' \in [Jobs -> DeliverPCs] /\ cancelled' \in [Jobs -> BOOLEAN]
      /\ wakeCall' \in [Jobs -> CallState] /\ wakeVal' \in [Jobs -> Reply]
  BY DeliverShape, DeliverGotoType
<1>2. state' \in [Jobs -> States] /\ delivery' \in [Jobs -> DeliveryStates]
  <2>1. CASE UNCHANGED <<state, delivery>>
    BY <2>1
  <2>2. CASE \E s \in States, d \in DeliveryStates : SetRow(j, s, d)
    BY <2>2, SetRowType
  <2>3. CASE state' = state /\ delivery' = [delivery EXCEPT ![j] = "activating"]
    BY <2>3, LabelTypes
  <2> QED
    BY <2>1, <2>2, <2>3, DeliverShape
<1>3. wakes' \in [Jobs -> Nat]
  <2>1. wakes' = wakes \/ wakes' = [wakes EXCEPT ![j] = @ + 1]
    BY DeliverShape
  <2>2. wakes[j] + 1 \in Nat
    OBVIOUS
  <2> QED
    BY <2>1, <2>2
<1>4. event' \in BOOLEAN /\ expected' \in BOOLEAN
  BY DeliverShape
<1>5. UNCHANGED deliverFrame
  BY DeliverShape
<1> QED
  BY <1>1, <1>2, <1>3, <1>4, <1>5 DEF deliverFrame, goalVars, envVars, userVars

\* Handling a notification keeps everything well typed.
LEMMA NotificationType ==
  ASSUME TypeOK, OnNotification
  PROVE  TypeOK'
<1> USE DEF TypeOK, AppTypeOK, envVars, userVars
<1>1. notifs' \in Seq(Notification)
  BY DEF OnNotification
<1>2. Head(notifs) \in Notification
  BY DEF OnNotification
<1>3. Head(notifs).goal \in Snap
  BY <1>2 DEF Notification
<1>4. /\ state' \in [Jobs -> States] /\ delivery' \in [Jobs -> DeliveryStates]
      /\ cancelled' \in [Jobs -> BOOLEAN] /\ deadline' \in [Jobs -> BOOLEAN]
      /\ wakeCall' \in [Jobs -> CallState]
  BY AbandonType DEF OnNotification, GoalUpdated, keepLease
<1>5. buffer' \in Seq(Snap)
  <2>1. buffer' = buffer \/ buffer' = Append(buffer, Head(notifs).goal)
    BY DEF OnNotification, GoalUpdated
  <2>2. Append(buffer, Head(notifs).goal) \in Seq(Snap)
    BY <1>3, AppendType
  <2> QED
    BY <2>1, <2>2
<1>6. event' \in BOOLEAN /\ expected' \in BOOLEAN
  BY DEF OnNotification, GoalUpdated
<1> QED
  BY <1>1, <1>4, <1>5, <1>6 DEF OnNotification

\* A user's control keeps everything well typed.
LEMMA ControlType ==
  ASSUME TypeOK, ForwardControl \/ \E op \in UserOps : UserGoalControl(op)
  PROVE  TypeOK'
<1> USE BridgeBounds DEF TypeOK, AppTypeOK, goalVars, envVars, memVars, userFrame
<1>1. CASE ForwardControl
  <2>1. /\ state' \in [Jobs -> States] /\ delivery' \in [Jobs -> DeliveryStates]
        /\ cancelled' \in [Jobs -> BOOLEAN] /\ deadline' \in [Jobs -> BOOLEAN]
        /\ wakeCall' \in [Jobs -> CallState]
    BY <1>1, AbandonType DEF ForwardControl
  <2>2. controls' \in Seq(ControlOps)
    <3>1. user \in ControlOps /\ controls' = Append(controls, user)
      BY <1>1 DEF ForwardControl
    <3> QED
      BY <3>1
  <2>3. touched' \in [Jobs -> BOOLEAN]
    BY <1>1 DEF ForwardControl
  <2> QED
    BY <1>1, <2>1, <2>2, <2>3 DEF ForwardControl
<1>2. ASSUME NEW op \in UserOps, UserGoalControl(op)
      PROVE  TypeOK'
  <2>1. /\ state' \in [Jobs -> States] /\ delivery' \in [Jobs -> DeliveryStates]
        /\ cancelled' \in [Jobs -> BOOLEAN] /\ deadline' \in [Jobs -> BOOLEAN]
        /\ wakeCall' \in [Jobs -> CallState]
    BY <1>2, AbandonType DEF UserGoalControl
  <2>2. controls' \in Seq(ControlOps)
    <3>1. controls' = controls \/ controls' = Append(controls, op)
      BY <1>2 DEF UserGoalControl
    <3>2. Append(controls, op) \in Seq(ControlOps)
      BY AppendType
    <3> QED
      BY <3>1, <3>2
  <2>3. touched' \in [Jobs -> BOOLEAN]
    BY <1>2 DEF UserGoalControl
  <2>4. user' \in ControlOps \cup {"none"}
    BY <1>2 DEF UserGoalControl
  <2>5. issued' \in 0..MaxControls
    BY <1>2 DEF UserGoalControl
  <2> QED
    BY <1>2, <2>1, <2>2, <2>3, <2>4, <2>5 DEF UserGoalControl
<1> QED
  BY <1>1, <1>2

\* A recovered row is a row.
LEMMA RecoveredType ==
  ASSUME TypeOK, NEW j \in Jobs
  PROVE  Recovered(j)[1] \in States /\ Recovered(j)[2] \in DeliveryStates
BY LabelTypes DEF TypeOK, Recovered

\* Stopping and restarting keep everything well typed.
LEMMA RestartType ==
  ASSUME TypeOK, Crash \/ Restart
  PROVE  TypeOK'
<1> USE DEF TypeOK, AppTypeOK, goalVars, envVars
<1>1. CASE Crash
  <2>1. prepCall' \in [Jobs -> CallState] /\ wakeCall' \in [Jobs -> CallState]
    BY <1>1, LabelTypes DEF Crash, Orphaned
  <2>2. NoGoal \in Reply
    BY DEF Reply, Snap
  <2>3. prepVal' \in [Jobs -> Reply] /\ wakeVal' \in [Jobs -> Reply]
    BY <1>1, <2>2 DEF Crash
  <2>4. prep' \in [Jobs -> PrepPCs] /\ deliver' \in [Jobs -> DeliverPCs]
    BY <1>1, LabelTypes DEF Crash
  <2>5. pausedAt' \in [Jobs -> 0..MaxClock]
    BY <1>1, ZeroType DEF Crash
  <2>6. cancelled' \in [Jobs -> BOOLEAN] /\ deadline' \in [Jobs -> BOOLEAN]
    BY <1>1 DEF Crash
  <2>7. notifs' \in Seq(Notification) /\ buffer' \in Seq(Snap)
    BY <1>1, EmptyType DEF Crash
  <2>8. crashes' \in 0..MaxCrashes
    BY <1>1, BridgeBounds DEF Crash
  <2> QED
    BY <1>1, <2>1, <2>3, <2>4, <2>5, <2>6, <2>7, <2>8 DEF Crash, rowVars
<1>2. CASE Restart
  <2>1. state' \in [Jobs -> States] /\ delivery' \in [Jobs -> DeliveryStates]
    BY <1>2, RecoveredType DEF Restart
  <2>2. deliver' \in [Jobs -> DeliverPCs]
    BY <1>2, LabelTypes DEF Restart
  <2>3. deadline' \in [Jobs -> BOOLEAN]
    BY <1>2 DEF Restart
  <2> QED
    BY <1>2, <2>1, <2>2, <2>3 DEF Restart, callVars, memVars, userVars
<1> QED
  BY <1>1, <1>2

\* The initial state is well typed.
LEMMA InitType == Init => TypeOK
<1> SUFFICES ASSUME Init PROVE TypeOK
  OBVIOUS
<1>1. NoGoal \in Reply /\ NoGoal \in Snap
  BY DEF Reply, Snap
<1>2. goal \in Snap
  BY ZeroType, NoIdAssumption DEF Init, AppInit, FirstGoal, Snap, Goal, GoalStatus
<1>3. Outside \in Writers
  BY DEF Outside, Writers
<1>4. clock \in 0..MaxClock /\ turns \in 0..MaxTurns /\ outside \in 0..MaxOutside
  BY AppServerBounds DEF Init, AppInit
<1>5. notifs \in Seq(Notification) /\ controls \in Seq(ControlOps) /\ buffer \in Seq(Snap)
  BY DEF Init, AppInit
<1>6. /\ prepCall \in [Jobs -> CallState] /\ prepVal \in [Jobs -> Reply]
      /\ wakeCall \in [Jobs -> CallState] /\ wakeVal \in [Jobs -> Reply]
  BY <1>1, LabelTypes DEF Init, AppInit
<1>7. AppTypeOK
  BY <1>2, <1>3, <1>4, <1>5, <1>6 DEF Init, AppInit, AppTypeOK, ThreadStatus
<1>8. /\ state \in [Jobs -> States] /\ delivery \in [Jobs -> DeliveryStates]
      /\ prep \in [Jobs -> PrepPCs] /\ deliver \in [Jobs -> DeliverPCs]
  BY LabelTypes DEF Init
<1>9. /\ revision \in [Jobs -> 0..MaxClock] /\ pausedAt \in [Jobs -> 0..MaxClock]
      /\ identity \in [Jobs -> GoalIds \cup {NoId}] /\ wakes \in [Jobs -> Nat]
  BY ZeroType DEF Init
<1>10. /\ terminal \in [Jobs -> BOOLEAN] /\ cancelled \in [Jobs -> BOOLEAN]
       /\ deadline \in [Jobs -> BOOLEAN] /\ touched \in [Jobs -> BOOLEAN]
  BY DEF Init
<1>11. issued \in 0..MaxControls /\ crashes \in 0..MaxCrashes
  BY BridgeBounds DEF Init
<1> QED
  BY <1>5, <1>7, <1>8, <1>9, <1>10, <1>11 DEF Init, TypeOK

\* The bridge and the App Server keep every variable in its range, for all jobs
\* and bounds.
THEOREM TypeCorrect == Spec => []TypeOK
<1>1. ASSUME TypeOK, [Next]_vars PROVE TypeOK'
  <2>1. CASE AppNext /\ UNCHANGED bridgeVars
    BY <1>1, <2>1, AppNextType DEF TypeOK, bridgeVars, rowVars, taskVars, memVars, userVars
  <2>2. ASSUME NEW j \in Jobs, JobNext(j) PROVE TypeOK'
    BY <1>1, <2>2, PrepareType, DueType, DeliverType DEF JobNext, DeliverStep
  <2>3. CASE UNCHANGED vars
    BY <1>1, <2>3 DEF vars, appVars, goalVars, callVars, envVars, bridgeVars, rowVars, taskVars,
                      memVars, userVars, TypeOK, AppTypeOK
  <2> QED
    BY <1>1, <2>1, <2>2, <2>3, NotificationType, ControlType, RestartType DEF Next
<1> QED
  BY <1>1, InitType, PTL DEF Spec
=============================================================================
