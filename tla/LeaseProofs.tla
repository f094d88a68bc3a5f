----------------------------- MODULE LeaseProofs -----------------------------
(***************************************************************************)
(* The safety of the wake lease, for any set of jobs, Goals and bounds:     *)
(* one live lease, one activation, a task for every live lease, and what    *)
(* the user revoked stays revoked.                                          *)
(***************************************************************************)
EXTENDS GoalBridgeProofs

-----------------------------------------------------------------------------
(* The inductive invariant, one conjunct per idea and per job.             *)

\* The (state, delivery_state) pairs a row can hold between two awaits.
RowShape(j) ==
  \/ state[j] = "none" /\ delivery[j] = "none"
  \/ state[j] \in {"preparing", "armed"} /\ delivery[j] = "pending"
  \/ state[j] = "terminal" /\ delivery[j] \in {"waiting_for_idle", "activating"}
  \/ state[j] = "delivered" /\ delivery[j] = "resumed"
  \/ state[j] = "abandoned" /\ delivery[j] = "abandoned"
  \/ state[j] = "failed" /\ delivery[j] = "needs_manual_recovery"

\* Which tasks exist at which stage of the lease.
TaskShape(j) ==
  /\ prep[j] \in {"none", "get"} => state[j] = "none"
  /\ prep[j] \in {"get", "set", "confirm"} => connected
  /\ deadline[j] => connected
  /\ deliver[j] # "none" => connected /\ state[j] \in {"terminal"} \cup Retired
  /\ deliver[j] = "set" => delivery[j] = "activating"
  /\ delivery[j] = "activating" /\ connected => deliver[j] = "set"
  /\ cancelled[j] => delivery[j] = "abandoned"

\* The activation has not been sent before the row says so.
WakeShape(j) ==
  /\ wakes[j] <= 1
  /\ delivery[j] \in {"none", "pending", "waiting_for_idle", "abandoned"} => wakes[j] = 0

\* What the bridge owes to the job and to the user.
Driven(j) ==
  connected =>
    /\ state[j] = "preparing" => prep[j] \in {"set", "confirm"}
    /\ state[j] = "armed" => deadline[j]
    /\ state[j] = "terminal" => deliver[j] # "none"
Kept(j) == /\ state[j] = "armed" => ~terminal[j]
           /\ touched[j] => state[j] = "abandoned"

JobInv(j) == RowShape(j) /\ TaskShape(j) /\ WakeShape(j) /\ Driven(j) /\ Kept(j)
LeaseInv == OneLiveLease /\ \A j \in Jobs : JobInv(j)
-----------------------------------------------------------------------------
(* A step of one job                                                       *)

\* The step leaves job k alone.
Same(k) ==
  /\ connected' = connected
  /\ state'[k] = state[k] /\ delivery'[k] = delivery[k] /\ terminal'[k] = terminal[k]
  /\ prep'[k] = prep[k] /\ deliver'[k] = deliver[k] /\ cancelled'[k] = cancelled[k]
  /\ deadline'[k] = deadline[k] /\ wakes'[k] = wakes[k] /\ touched'[k] = touched[k]

\* What a step leaves alone stays as it should be.
LEMMA SameInv ==
  ASSUME NEW k \in Jobs, JobInv(k), Same(k)
  PROVE  JobInv(k)'
BY DEF JobInv, RowShape, TaskShape, WakeShape, Driven, Kept, Same

\* A step of job j preserves the invariant when it does so for j, leaves the
\* others alone and makes j live only if no lease was.
LEMMA JobStep ==
  ASSUME LeaseInv, NEW j \in Jobs, JobInv(j)', \A k \in Jobs \ {j} : Same(k),
         state'[j] \in Live => state[j] \in Live \/ ~ThreadHasLive
  PROVE  LeaseInv'
<1>1. \A k \in Jobs : JobInv(k)'
  BY SameInv DEF LeaseInv
<1>2. \A k \in Jobs \ {j} : state'[k] = state[k]
  BY DEF Same
<1>3. OneLiveLease'
  BY <1>2 DEF LeaseInv, OneLiveLease, ThreadHasLive
<1> QED
  BY <1>1, <1>3 DEF LeaseInv

\* The steps of _prepare before the lease exists.
LEMMA RegisterInv ==
  ASSUME TypeOK, LeaseInv, NEW j \in Jobs, Prepare(j) \/ PrepareSnapshot(j)
  PROVE  LeaseInv'
<1> USE DEF TypeOK, rowVars, userVars
<1>0. JobInv(j)
  BY DEF LeaseInv
<1>1. CASE Prepare(j)
  <2>1. JobInv(j)'
    BY <1>0, <1>1 DEF Prepare, JobInv, RowShape, TaskShape, WakeShape, Driven, Kept
  <2>2. \A k \in Jobs \ {j} : Same(k)
    BY <1>1 DEF Prepare, Same
  <2>3. state' = state
    BY <1>1 DEF Prepare
  <2> QED
    BY <2>1, <2>2, <2>3, JobStep
<1>2. CASE PrepareSnapshot(j)
  <2>1. JobInv(j)'
    BY <1>0, <1>2 DEF PrepareSnapshot, CreateLease, SetRow, JobInv, RowShape, TaskShape, WakeShape, Driven, Kept, Retired
  <2>2. \A k \in Jobs \ {j} : Same(k)
    BY <1>2 DEF PrepareSnapshot, CreateLease, SetRow, Same
  <2>3. state' = state \/ ~ThreadHasLive
    BY <1>2 DEF PrepareSnapshot, CreateLease
  <2> QED
    BY <2>1, <2>2, <2>3, JobStep
<1> QED
  BY <1>1, <1>2

\* The steps of _prepare that settle the registration.
LEMMA ConfirmInv ==
  ASSUME TypeOK, LeaseInv, NEW j \in Jobs,
         PreparePaused(j) \/ PrepareConfirm(j) \/ PrepareTimeout(j)
  PROVE  LeaseInv'
<1> USE DEF TypeOK, rowVars, userVars
<1>0. JobInv(j)
  BY DEF LeaseInv
<1>f. ASSUME NEW c, PrepareFails(j, c), prep[j] \in {"set", "confirm"},
             UNCHANGED <<connected, terminal, cancelled, touched, wakes>>
      PROVE  LeaseInv'
  <2>1. JobInv(j)'
    BY <1>0, <1>f DEF PrepareFails, SetRow, JobInv, RowShape, TaskShape, WakeShape, Driven, Kept, Retired
  <2>2. \A k \in Jobs \ {j} : Same(k)
    BY <1>f DEF PrepareFails, SetRow, Same
  <2>3. state'[j] \in Live => state[j] \in Live
    BY <1>f DEF PrepareFails, SetRow, Live
  <2> QED
    BY <2>1, <2>2, <2>3, JobStep
<1>1. CASE PreparePaused(j)
  <2>1. CASE PrepareFails(j, "none")
    BY <1>1, <1>f, <2>1 DEF PreparePaused
  <2>2. CASE ~PrepareFails(j, "none")
    <3>1. JobInv(j)'
      BY <1>0, <1>1, <2>2 DEF PreparePaused, JobInv, RowShape, TaskShape, WakeShape, Driven, Kept
    <3>2. \A k \in Jobs \ {j} : Same(k)
      BY <1>1, <2>2 DEF PreparePaused, Same
    <3>3. state' = state
      BY <1>1, <2>2 DEF PreparePaused
    <3> QED
      BY <3>1, <3>2, <3>3, JobStep
  <2> QED
    BY <2>1, <2>2
<1>2. CASE PrepareConfirm(j)
  <2>1. CASE PrepareFails(j, "none")
    BY <1>2, <1>f, <2>1 DEF PrepareConfirm
  <2>2. CASE ~PrepareFails(j, "none")
    <3>0. MayCommit(j) /\ state[j] = "preparing"
      BY <1>2, <2>2 DEF PrepareConfirm, MayCommit
    <3>a. ASSUME terminal[j] PROVE JobInv(j)'
      <4>1. state'[j] = "terminal" /\ delivery'[j] = "waiting_for_idle" /\ prep'[j] = "done"
        BY <1>2, <2>2, <3>a DEF PrepareConfirm, CommitState, SetRow
      <4>2. deliver'[j] = "start"
        BY <1>0, <1>2, <2>2, <3>0, <3>a
        DEF PrepareConfirm, CommitState, ScheduleDelivery, JobInv, TaskShape, Retired
      <4>3. UNCHANGED <<connected, terminal, cancelled, touched, wakes>>
        BY <1>2 DEF PrepareConfirm
      <4>4. connected
        BY <1>0, <1>2 DEF PrepareConfirm, JobInv, TaskShape
      <4>5. deadline' = deadline
        BY <1>2, <2>2, <3>a DEF PrepareConfirm, CommitState
      <4> QED
        BY <1>0, <3>0, <4>1, <4>2, <4>3, <4>4, <4>5
        DEF JobInv, RowShape, TaskShape, WakeShape, Driven, Kept
    <3>b. ASSUME ~terminal[j] PROVE JobInv(j)'
      <4>1. state'[j] = "armed" /\ delivery'[j] = "pending" /\ prep'[j] = "done"
        BY <1>2, <2>2, <3>b DEF PrepareConfirm, CommitState, SetRow
      <4>2. deliver' = deliver /\ deadline'[j]
        BY <1>2, <2>2, <3>b DEF PrepareConfirm, CommitState
      <4>3. UNCHANGED <<connected, terminal, cancelled, touched, wakes>>
        BY <1>2 DEF PrepareConfirm
      <4>4. connected
        BY <1>0, <1>2 DEF PrepareConfirm, JobInv, TaskShape
      <4> QED
        BY <1>0, <3>0, <3>b, <4>1, <4>2, <4>3, <4>4
        DEF JobInv, RowShape, TaskShape, WakeShape, Driven, Kept, Retired
    <3>1. JobInv(j)'
      BY <3>a, <3>b
    <3>2. \A k \in Jobs \ {j} : Same(k)
      BY <1>2, <2>2 DEF PrepareConfirm, SetRow, ScheduleDelivery, Same
    <3>3. state[j] \in Live
      BY <3>0 DEF Live
    <3> QED
      BY <3>1, <3>2, <3>3, JobStep
  <2> QED
    BY <2>1, <2>2
<1>3. CASE PrepareTimeout(j)
  <2>1. CASE prep[j] = "get"
    <3>1. JobInv(j)'
      BY <1>0, <1>3, <2>1 DEF PrepareTimeout, JobInv, RowShape, TaskShape, WakeShape, Driven, Kept
    <3>2. \A k \in Jobs \ {j} : Same(k)
      BY <1>3, <2>1 DEF PrepareTimeout, Same
    <3>3. state' = state
      BY <1>3, <2>1 DEF PrepareTimeout
    <3> QED
      BY <3>1, <3>2, <3>3, JobStep
  <2>2. CASE prep[j] # "get"
    BY <1>3, <1>f, <2>2 DEF PrepareTimeout
  <2> QED
    BY <2>1, <2>2
<1> QED
  BY <1>1, <1>2, <1>3

\* An armed lease becomes due.
LEMMA BecomesDueInv ==
  ASSUME TypeOK, LeaseInv, connected, NEW j \in Jobs, state[j] = "armed", BecomesDue(j),
         \A k \in Jobs \ {j} : deadline'[k] = deadline[k],
         UNCHANGED <<connected, prep, cancelled, wakes, touched>>
  PROVE  LeaseInv'
<1>1. JobInv(j)
  BY DEF LeaseInv
<1>a. state'[j] = "terminal" /\ delivery'[j] = "waiting_for_idle"
  BY DEF TypeOK, BecomesDue, SetRow
<1>b. deliver'[j] = "start"
  BY <1>1 DEF TypeOK, BecomesDue, ScheduleDelivery, JobInv, TaskShape, Retired
<1>2. JobInv(j)'
  BY <1>1, <1>a, <1>b DEF JobInv, RowShape, TaskShape, WakeShape, Driven, Kept
<1>3. \A k \in Jobs \ {j} : Same(k)
  BY DEF TypeOK, BecomesDue, SetRow, ScheduleDelivery, Same
<1>4. state[j] \in Live
  BY DEF Live
<1> QED
  BY <1>2, <1>3, <1>4, JobStep

\* Revocation: every lease it reaches is abandoned, its tasks are gone, and no
\* lease becomes live.  The controls' history moves with it or stays.
LEMMA AbandonInv ==
  ASSUME TypeOK, LeaseInv, AbandonForManualChange,
         \A j \in Jobs : touched'[j] => touched[j] \/ Pending(j),
         UNCHANGED <<connected, terminal, prep, deliver, wakes>>
  PROVE  LeaseInv'
<1>1. ASSUME NEW j \in Jobs PROVE JobInv(j)'
  <2>0. JobInv(j)
    BY DEF LeaseInv
  <2>1. CASE Revocable(j)
    BY <2>0, <2>1 DEF TypeOK, AbandonForManualChange, Revocable, JobInv, RowShape, TaskShape,
                      WakeShape, Driven, Kept, Live, Retired
  <2>2. CASE ~Revocable(j)
    BY <2>0, <2>2 DEF TypeOK, AbandonForManualChange, Revocable, Pending, JobInv, RowShape, TaskShape,
                      WakeShape, Driven, Kept, Retired
  <2> QED
    BY <2>1, <2>2
<1>2. \A j \in Jobs : state'[j] \in Live => state[j] \in Live
  BY DEF AbandonForManualChange, Live
<1>3. OneLiveLease'
  BY <1>2 DEF LeaseInv, OneLiveLease
<1> QED
  BY <1>1, <1>3 DEF LeaseInv

\* _terminal, _abort and the deadline.
LEMMA DueInv ==
  ASSUME TypeOK, LeaseInv, NEW j \in Jobs, Terminal(j) \/ Abort(j) \/ ExpireAtDeadline(j)
  PROVE  LeaseInv'
<1> USE DEF TypeOK, appVars, userVars
<1>0. JobInv(j)
  BY DEF LeaseInv
<1>1. CASE Terminal(j)
  <2>1. CASE state[j] = "armed"
    <3>1. connected /\ BecomesDue(j) /\ UNCHANGED <<connected, prep, cancelled, wakes, touched>>
      BY <1>1, <2>1 DEF Terminal
    <3>2. \A k \in Jobs \ {j} : deadline'[k] = deadline[k]
      BY <1>1, <2>1 DEF Terminal
    <3> QED
      BY <2>1, <3>1, <3>2, BecomesDueInv
  <2>2. CASE state[j] # "armed"
    <3>1. JobInv(j)'
      BY <1>0, <1>1, <2>2 DEF Terminal, JobInv, RowShape, TaskShape, WakeShape, Driven, Kept
    <3>2. \A k \in Jobs \ {j} : Same(k)
      BY <1>1, <2>2 DEF Terminal, Same
    <3>3. state' = state
      BY <1>1, <2>2 DEF Terminal
    <3> QED
      BY <3>1, <3>2, <3>3, JobStep
  <2> QED
    BY <2>1, <2>2
<1>2. CASE Abort(j)
  BY <1>2, AbandonInv, BecomesDueInv DEF Abort
<1>3. CASE ExpireAtDeadline(j)
  <2>0. connected /\ \A k \in Jobs \ {j} : deadline'[k] = deadline[k]
    BY <1>0, <1>3 DEF ExpireAtDeadline, JobInv, TaskShape
  <2>1. CASE state[j] = "armed"
    <3>1. BecomesDue(j) /\ UNCHANGED <<connected, prep, cancelled, wakes, touched>>
      BY <1>3, <2>1 DEF ExpireAtDeadline
    <3> QED
      BY <2>0, <2>1, <3>1, BecomesDueInv
  <2>2. CASE state[j] # "armed"
    <3>1. JobInv(j)'
      BY <1>0, <1>3, <2>2 DEF ExpireAtDeadline, JobInv, RowShape, TaskShape, WakeShape, Driven, Kept
    <3>2. \A k \in Jobs \ {j} : Same(k)
      BY <1>3, <2>2 DEF ExpireAtDeadline, Same
    <3>3. state' = state
      BY <1>3, <2>2 DEF ExpireAtDeadline
    <3> QED
      BY <3>1, <3>2, <3>3, JobStep
  <2> QED
    BY <2>1, <2>2
<1> QED
  BY <1>1, <1>2, <1>3

-----------------------------------------------------------------------------
(* A step of a delivery task                                               *)

\* Every step of a delivery task clears its cancellation and leaves the other
\* jobs alone.
LEMMA DeliverOthers ==
  ASSUME TypeOK, NEW j \in Jobs, DeliverStep(j)
  PROVE  \A k \in Jobs \ {j} : Same(k)
<1> USE DEF TypeOK, userVars
<1>1. PICK pc \in DeliverPCs, c \in CallState : DeliverGoto(j, pc, c)
  BY DeliverShape
<1>2. \A k \in Jobs \ {j} : deliver'[k] = deliver[k] /\ cancelled'[k] = cancelled[k]
  BY <1>1 DEF DeliverGoto
<1>3. \A k \in Jobs \ {j} : state'[k] = state[k] /\ delivery'[k] = delivery[k]
  <2>1. CASE UNCHANGED <<state, delivery>>
    BY <2>1
  <2>2. CASE \E s \in States, d \in DeliveryStates : SetRow(j, s, d)
    BY <2>2 DEF SetRow
  <2>3. CASE state' = state /\ delivery' = [delivery EXCEPT ![j] = "activating"]
    BY <2>3
  <2> QED
    BY <2>1, <2>2, <2>3, DeliverShape
<1>4. \A k \in Jobs \ {j} : wakes'[k] = wakes[k]
  <2>1. wakes' = wakes \/ wakes' = [wakes EXCEPT ![j] = @ + 1]
    BY DeliverShape
  <2> QED
    BY <2>1
<1>5. UNCHANGED <<connected, terminal, prep, deadline, touched>>
  BY DeliverShape DEF deliverFrame
<1> QED
  BY <1>2, <1>3, <1>4, <1>5 DEF Same

\* The error path of _deliver retires the row, or leaves a retired one alone.
LEMMA DeliverFailsInv ==
  ASSUME TypeOK, NEW j \in Jobs, JobInv(j), deliver[j] # "none", NEW c, DeliverFails(j, c),
         UNCHANGED deliverFrame
  PROVE  JobInv(j)' /\ (state'[j] \in Live => state[j] \in Live)
<1> USE DEF TypeOK
<1>1. UNCHANGED <<connected, terminal, prep, deadline, touched, wakes>>
  BY DEF DeliverFails, deliverFrame, userVars
<1>2. deliver'[j] = "none" /\ cancelled'[j] = FALSE
  BY DEF DeliverFails, DeliverGoto
<1>3. \/ /\ state'[j] = "failed" /\ delivery'[j] = "needs_manual_recovery"
         /\ delivery[j] \notin {"resumed", "abandoned"}
      \/ state' = state /\ delivery' = delivery /\ delivery[j] \in {"resumed", "abandoned"}
  BY DEF DeliverFails, SetRow
<1>4. CASE /\ state'[j] = "failed" /\ delivery'[j] = "needs_manual_recovery"
           /\ delivery[j] \notin {"resumed", "abandoned"}
  BY <1>1, <1>2, <1>4 DEF JobInv, RowShape, TaskShape, WakeShape, Driven, Kept, Retired, Live
<1>5. CASE state' = state /\ delivery' = delivery /\ delivery[j] \in {"resumed", "abandoned"}
  BY <1>1, <1>2, <1>5 DEF JobInv, RowShape, TaskShape, WakeShape, Driven, Kept, Retired, Live
<1> QED
  BY <1>3, <1>4, <1>5

\* A step that only moves the task on, with the lease untouched.
LEMMA DeliverMovesInv ==
  ASSUME TypeOK, NEW j \in Jobs, JobInv(j), NEW pc, NEW c, DeliverGoto(j, pc, c),
         deliver[j] # "none" \/ pc = "none", pc # "set", deliver[j] # "set" \/ state[j] \in Retired,
         pc = "none" => state[j] # "terminal",
         UNCHANGED <<deliverFrame, state, delivery, wakes>>
  PROVE  JobInv(j)' /\ (state'[j] \in Live => state[j] \in Live)
<1>1. UNCHANGED <<connected, terminal, prep, deadline, touched, wakes, state, delivery>>
  BY DEF deliverFrame, userVars
<1>2. deliver'[j] = pc /\ cancelled'[j] = FALSE
  BY DEF TypeOK, DeliverGoto
<1> QED
  BY <1>1, <1>2 DEF JobInv, RowShape, TaskShape, WakeShape, Driven, Kept, Retired

\* The activation: sent once, from a due lease, and settled by whatever ends it.
LEMMA ActivateInv ==
  ASSUME TypeOK, NEW j \in Jobs, JobInv(j), DeliverActivate(j) \/ DeliverActivated(j)
  PROVE  JobInv(j)' /\ (state'[j] \in Live => state[j] \in Live)
<1> USE DEF TypeOK
<1>1. UNCHANGED <<connected, terminal, prep, deadline, touched>>
  BY DEF DeliverActivate, DeliverActivated, deliverFrame, userVars
<1>2. CASE DeliverActivate(j)
  <2>1. CASE DeliverFails(j, "none")
    BY <1>2, <2>1, DeliverFailsInv DEF DeliverActivate
  <2>2. CASE ~DeliverFails(j, "none") /\ ~Due(j)
    <3>1. state[j] # "terminal"
      BY <1>2, <2>2 DEF JobInv, RowShape, TaskShape, DeliverActivate, Due
    <3> QED
      BY <1>2, <2>2, <3>1, DeliverMovesInv DEF DeliverActivate
  <2>3. CASE ~DeliverFails(j, "none") /\ Due(j) /\ StillOurs(j, wakeVal[j])
    <3>1. delivery'[j] = "activating" /\ state' = state /\ wakes'[j] = wakes[j] + 1
      BY <1>2, <2>3 DEF DeliverActivate
    <3>2. deliver'[j] = "set" /\ cancelled'[j] = FALSE
      BY <1>2, <2>3 DEF DeliverActivate, DeliverGoto
    <3> QED
      BY <1>1, <1>2, <2>3, <3>1, <3>2
      DEF Due, DeliverActivate, JobInv, RowShape, TaskShape, WakeShape, Driven, Kept
  <2>4. CASE ~DeliverFails(j, "none") /\ Due(j) /\ ~StillOurs(j, wakeVal[j])
    <3>1. state'[j] = "abandoned" /\ delivery'[j] = "abandoned" /\ wakes' = wakes
      BY <1>2, <2>4 DEF DeliverActivate, SetRow
    <3>2. deliver'[j] = "none" /\ cancelled'[j] = FALSE
      BY <1>2, <2>4 DEF DeliverActivate, DeliverGoto
    <3> QED
      BY <1>1, <2>4, <3>1, <3>2
      DEF Due, JobInv, RowShape, TaskShape, WakeShape, Driven, Kept, Live
  <2> QED
    BY <2>1, <2>2, <2>3, <2>4
<1>3. CASE DeliverActivated(j)
  <2>1. \/ state'[j] = "delivered" /\ delivery'[j] = "resumed"
        \/ state'[j] = "failed" /\ delivery'[j] = "needs_manual_recovery"
    BY <1>3 DEF DeliverActivated, SetRow
  <2>2. deliver'[j] = "none" /\ cancelled'[j] = FALSE /\ wakes' = wakes
    BY <1>3 DEF DeliverActivated, DeliverGoto
  <2>3. delivery[j] = "activating"
    BY <1>3 DEF DeliverActivated, JobInv, TaskShape
  <2> QED
    BY <1>1, <2>1, <2>2, <2>3 DEF JobInv, RowShape, TaskShape, WakeShape, Driven, Kept, Live
<1> QED
  BY <1>2, <1>3

\* _deliver preserves the invariant.
LEMMA DeliverInv ==
  ASSUME TypeOK, LeaseInv, NEW j \in Jobs, DeliverStep(j)
  PROVE  LeaseInv'
<1>0. JobInv(j)
  BY DEF LeaseInv
<1> SUFFICES JobInv(j)' /\ (state'[j] \in Live => state[j] \in Live)
  BY DeliverOthers, JobStep
<1>1. CASE DeliverStart(j)
  <2>1. CASE state[j] = "terminal" /\ delivery[j] = "waiting_for_idle"
    BY <1>0, <1>1, <2>1, DeliverMovesInv DEF DeliverStart
  <2>2. CASE ~(state[j] = "terminal" /\ delivery[j] = "waiting_for_idle")
    <3>1. state[j] # "terminal"
      BY <1>0, <1>1, <2>2 DEF DeliverStart, JobInv, RowShape, TaskShape
    <3> QED
      BY <1>0, <1>1, <2>2, <3>1, DeliverMovesInv DEF DeliverStart
  <2> QED
    BY <2>1, <2>2
<1>2. CASE DeliverRead(j)
  BY <1>0, <1>2, DeliverFailsInv, DeliverMovesInv DEF DeliverRead
<1>3. CASE DeliverReread(j)
  BY <1>0, <1>3, DeliverFailsInv, DeliverMovesInv DEF DeliverReread
<1>4. CASE DeliverWait(j)
  BY <1>0, <1>4, DeliverMovesInv DEF DeliverWait
<1>5. CASE DeliverLock(j)
  BY <1>0, <1>5, DeliverMovesInv DEF DeliverLock
<1>6. CASE DeliverCheck(j)
  <2>1. delivery[j] \in Settled => state[j] # "terminal"
    BY <1>0 DEF JobInv, RowShape, Settled
  <2> QED
    BY <1>0, <1>6, <2>1, DeliverFailsInv, DeliverMovesInv DEF DeliverCheck
<1>7. CASE DeliverActivate(j) \/ DeliverActivated(j)
  BY <1>0, <1>7, ActivateInv
<1>8. CASE DeliverTimeout(j)
  BY <1>0, <1>8, DeliverFailsInv DEF DeliverTimeout
<1>9. CASE DeliverUnwind(j)
  <2>1. delivery[j] = "abandoned"
    BY <1>0, <1>9 DEF DeliverUnwind, JobInv, TaskShape
  <2> QED
    BY <1>0, <1>9, <2>1, DeliverMovesInv DEF DeliverUnwind, JobInv, RowShape, TaskShape
<1> QED
  BY <1>1, <1>2, <1>3, <1>4, <1>5, <1>6, <1>7, <1>8, <1>9 DEF DeliverStep

-----------------------------------------------------------------------------
(* The other steps                                                         *)

\* A step that changes no lease and no task.
LEMMA QuietInv ==
  ASSUME LeaseInv,
         UNCHANGED <<connected, state, delivery, terminal, prep, deliver, cancelled, deadline,
                     wakes, touched>>
  PROVE  LeaseInv'
<1>1. \A k \in Jobs : JobInv(k)'
  BY SameInv DEF LeaseInv, Same
<1>2. OneLiveLease'
  BY DEF LeaseInv, OneLiveLease
<1> QED
  BY <1>1, <1>2 DEF LeaseInv

\* A notification revokes the lease or leaves it alone.
LEMMA NotificationInv ==
  ASSUME TypeOK, LeaseInv, OnNotification
  PROVE  LeaseInv'
<1>1. UNCHANGED <<connected, terminal, prep, deliver, wakes, touched>>
  BY DEF OnNotification, userVars
<1>2. AbandonForManualChange \/ keepLease
  BY DEF OnNotification, GoalUpdated
<1>3. CASE AbandonForManualChange
  BY <1>1, <1>3, AbandonInv
<1>4. CASE keepLease
  BY <1>1, <1>4, QuietInv DEF keepLease
<1> QED
  BY <1>2, <1>3, <1>4

\* A user's control revokes it.
LEMMA ControlInv ==
  ASSUME TypeOK, LeaseInv, ForwardControl \/ \E op \in UserOps : UserGoalControl(op)
  PROVE  LeaseInv'
<1>1. AbandonForManualChange
  BY DEF ForwardControl, UserGoalControl
<1>2. UNCHANGED <<connected, terminal, prep, deliver, wakes>>
  BY DEF ForwardControl, UserGoalControl, userFrame
<1>3. \A j \in Jobs : touched'[j] => touched[j] \/ Pending(j)
  BY DEF TypeOK, ForwardControl, UserGoalControl
<1> QED
  BY <1>1, <1>2, <1>3, AbandonInv

\* After a stop no task is left; the rows are as they were.
LEMMA CrashInv ==
  ASSUME TypeOK, LeaseInv, Crash
  PROVE  LeaseInv'
<1>1. ASSUME NEW j \in Jobs PROVE JobInv(j)'
  <2>0. JobInv(j)
    BY DEF LeaseInv
  <2>1. UNCHANGED <<state, delivery, terminal, touched, wakes>> /\ ~connected'
    BY DEF Crash, rowVars
  <2>2. deliver'[j] = "none" /\ cancelled'[j] = FALSE /\ deadline'[j] = FALSE
    BY DEF Crash
  <2>3. prep'[j] \in {"none", "done"} /\ (prep'[j] = "none" => prep[j] = "none")
    BY DEF Crash
  <2> QED
    BY <2>0, <2>1, <2>2, <2>3 DEF JobInv, RowShape, TaskShape, WakeShape, Driven, Kept
<1>2. OneLiveLease'
  BY DEF LeaseInv, OneLiveLease, Crash, rowVars
<1> QED
  BY <1>1, <1>2 DEF LeaseInv

\* Recovery keeps an armed or due lease and leaves any other live one to the user.
LEMMA RecoveredRow ==
  ASSUME NEW j \in Jobs, RowShape(j)
  PROVE  \/ /\ Recovered(j) = <<state[j], delivery[j]>>
            /\ state[j] # "preparing" /\ delivery[j] # "activating"
         \/ /\ Recovered(j) = <<"failed", "needs_manual_recovery">>
            /\ state[j] = "preparing" \/ delivery[j] = "activating"
BY DEF Recovered, RowShape, Live

\* A restart gives every recovered lease its task.
LEMMA RestartInv ==
  ASSUME TypeOK, LeaseInv, Restart
  PROVE  LeaseInv'
<1>1. ASSUME NEW j \in Jobs PROVE JobInv(j)' /\ (state'[j] \in Live => state[j] \in Live)
  <2>0. JobInv(j)
    BY DEF LeaseInv
  <2>1. UNCHANGED <<terminal, prep, cancelled, touched, wakes>> /\ connected' /\ ~connected
    BY DEF Restart, userVars
  <2>2. state'[j] = Recovered(j)[1] /\ delivery'[j] = Recovered(j)[2]
    BY DEF Restart
  <2>3. /\ deliver'[j] = IF state'[j] = "terminal" THEN "start" ELSE "none"
        /\ deadline'[j] <=> state'[j] = "armed"
    BY <2>2 DEF Restart
  <2>4. prep[j] \notin {"get", "set", "confirm"}
    BY <2>0, <2>1 DEF JobInv, TaskShape
  <2>5. CASE /\ Recovered(j) = <<state[j], delivery[j]>>
             /\ state[j] # "preparing" /\ delivery[j] # "activating"
    <3>1. state'[j] = state[j] /\ delivery'[j] = delivery[j]
      BY <2>2, <2>5
    <3> QED
      BY <2>0, <2>1, <2>3, <2>4, <2>5, <3>1
      DEF JobInv, RowShape, TaskShape, WakeShape, Driven, Kept
  <2>6. CASE /\ Recovered(j) = <<"failed", "needs_manual_recovery">>
             /\ state[j] = "preparing" \/ delivery[j] = "activating"
    <3>1. state'[j] = "failed" /\ delivery'[j] = "needs_manual_recovery"
      BY <2>2, <2>6
    <3> QED
      BY <2>0, <2>1, <2>3, <2>4, <2>6, <3>1
      DEF JobInv, RowShape, TaskShape, WakeShape, Driven, Kept, Live
  <2> QED
    BY <2>0, <2>5, <2>6, RecoveredRow DEF JobInv
<1>2. OneLiveLease'
  BY <1>1 DEF LeaseInv, OneLiveLease
<1> QED
  BY <1>1, <1>2 DEF LeaseInv

\* The initial state satisfies the invariant.
LEMMA InitInv == Init => LeaseInv
<1> SUFFICES ASSUME Init PROVE LeaseInv
  OBVIOUS
<1>1. ASSUME NEW j \in Jobs PROVE JobInv(j)
  BY DEF Init, JobInv, RowShape, TaskShape, WakeShape, Driven, Kept
<1>2. OneLiveLease
  BY DEF Init, OneLiveLease, Live
<1> QED
  BY <1>1, <1>2 DEF LeaseInv

\* Every step preserves it.
LEMMA NextInv ==
  ASSUME TypeOK, LeaseInv, [Next]_vars
  PROVE  LeaseInv'
<1>1. CASE AppNext /\ UNCHANGED bridgeVars
  <2>1. connected' = connected
    BY <1>1 DEF AppNext, Tick, TurnStart, TurnEnd, OutsideChange, ApplyControl, AnswerPrepare, AnswerWake
  <2> QED
    BY <1>1, <2>1, QuietInv DEF bridgeVars, rowVars, taskVars, userVars
<1>2. ASSUME NEW j \in Jobs, JobNext(j) PROVE LeaseInv'
  BY <1>2, RegisterInv, ConfirmInv, DueInv, DeliverInv DEF JobNext, DeliverStep
<1>3. CASE UNCHANGED vars
  BY <1>3, QuietInv DEF vars, appVars, bridgeVars, rowVars, taskVars, userVars
<1> QED
  BY <1>1, <1>2, <1>3, NotificationInv, ControlInv, CrashInv, RestartInv DEF Next

\* Rows and tasks agree in every reachable state: which rows exist, which task a
\* row has, how many activations it has seen, whatever is cancelled, times out or
\* restarts (bridge.py, bridge_state.py).
THEOREM LeaseInvariant == Spec => []LeaseInv
<1>1. TypeOK /\ LeaseInv /\ [Next]_vars => LeaseInv'
  BY NextInv
<1> QED
  BY <1>1, InitInv, TypeCorrect, PTL DEF Spec

-----------------------------------------------------------------------------
(* What follows from it                                                    *)

\* At most one lease of the thread is live, whatever the jobs, replies,
\* notifications, timeouts and restarts do (bridge_state.py:57-59).
THEOREM OneLive == Spec => []OneLiveLease
<1>1. LeaseInv => OneLiveLease
  BY DEF LeaseInv
<1> QED
  BY <1>1, LeaseInvariant, PTL

\* No job's activation is ever requested twice (bridge.py:373-375).
THEOREM WakesOnce == Spec => []WakesAtMostOnce
<1>1. LeaseInv => WakesAtMostOnce
  BY DEF LeaseInv, JobInv, WakeShape, WakesAtMostOnce
<1> QED
  BY <1>1, LeaseInvariant, PTL

\* Every live lease of a running bridge has its task.
THEOREM HasDriver == Spec => []LeaseHasDriver
<1>1. LeaseInv => LeaseHasDriver
  BY DEF LeaseInv, JobInv, RowShape, TaskShape, Driven, LeaseHasDriver
<1> QED
  BY <1>1, LeaseInvariant, PTL

\* A terminal event accepted while the pause is confirmed is not lost
\* (bridge.py:212-220).
THEOREM EarlyTerminal == Spec => []EarlyTerminalKept
<1>1. LeaseInv => EarlyTerminalKept
  BY DEF LeaseInv, JobInv, Kept, EarlyTerminalKept
<1> QED
  BY <1>1, LeaseInvariant, PTL

\* What a user's control has revoked is never activated (bridge.py:404-411).
THEOREM UserRevokes == Spec => []UserControlRevokes
<1>1. LeaseInv => UserControlRevokes
  BY DEF LeaseInv, JobInv, RowShape, WakeShape, Kept, UserControlRevokes
<1> QED
  BY <1>1, LeaseInvariant, PTL

=============================================================================
