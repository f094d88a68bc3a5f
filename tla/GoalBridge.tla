----------------------------- MODULE GoalBridge -----------------------------
(***************************************************************************)
(* The Goal bridge of bridge.py with its lease table (bridge_state.py), for *)
(* one thread.  Every asyncio task is a program counter that moves from one *)
(* await to the next: a job's _prepare handler, its _deliver task, its      *)
(* deadline task, and the user's Goal control coming through the TUI proxy. *)
(* What runs between two awaits is one action.                              *)
(***************************************************************************)
EXTENDS AppServer

CONSTANTS UserOps,      \* Goal controls the user issues in the TUI
          MaxControls,  \* bound: how many of them
          MaxBuffer,    \* 64: notifications buffered while the pause is confirmed
          MaxCrashes    \* bound: bridge restarts

ASSUME BridgeBounds == /\ MaxControls \in Nat /\ MaxBuffer \in Nat /\ MaxCrashes \in Nat
                       /\ UserOps \subseteq ControlOps

VARIABLES
  state, delivery, terminal,  \* wake_leases: state, delivery_state, is terminal_state set?
  identity, revision,         \* wake_leases: objective and createdAt, goal_updated_at
  prep,       \* where each job's _prepare is: the call it awaits
  pausedAt,   \* _prepare's local paused_updated_at
  deliver,    \* where each job's _deliver is
  cancelled,  \* has that task been cancelled (and dropped from _delivery_tasks)?
  deadline,   \* is there a deadline task?
  event,      \* the thread's asyncio.Event
  buffering,  \* is there a _pause_notifications entry ...
  buffer,     \* ... and what it holds
  expected,   \* is _expected_goal_status set?
  user,       \* the Goal control waiting for the _goal_controls lock, or "none"
  issued,     \* controls issued so far
  crashes,    \* restarts so far
  wakes,      \* history: goal/set active requests sent for a job
  touched     \* history: had a control while its lease was pending

rowVars  == <<state, delivery, terminal, identity, revision>>
taskVars == <<prep, pausedAt, deliver, cancelled, deadline>>
memVars  == <<event, buffering, buffer, expected>>
userVars == <<user, issued, touched>>
bridgeVars == <<rowVars, taskVars, memVars, userVars, crashes, wakes>>
vars == <<appVars, bridgeVars>>

Live    == {"preparing", "armed", "terminal"}
Retired == {"delivered", "abandoned", "failed"}
States  == {"none"} \cup Live \cup Retired
Settled == {"resumed", "abandoned", "needs_manual_recovery"}
DeliveryStates == {"none", "pending", "waiting_for_idle", "activating"} \cup Settled
PrepPCs    == {"none", "get", "set", "confirm", "done"}
DeliverPCs == {"none", "start", "read", "reread", "wait", "lock", "check", "get", "set"}

TypeOK ==
  /\ AppTypeOK
  /\ state \in [Jobs -> States]
  /\ delivery \in [Jobs -> DeliveryStates]
  /\ terminal \in [Jobs -> BOOLEAN]
  /\ identity \in [Jobs -> GoalIds \cup {NoId}]
  /\ revision \in [Jobs -> 0..MaxClock]
  /\ prep \in [Jobs -> PrepPCs]
  /\ pausedAt \in [Jobs -> 0..MaxClock]
  /\ deliver \in [Jobs -> DeliverPCs]
  /\ cancelled \in [Jobs -> BOOLEAN]
  /\ deadline \in [Jobs -> BOOLEAN]
  /\ event \in BOOLEAN
  /\ buffering \in BOOLEAN
  /\ buffer \in Seq(Snap)
  /\ expected \in BOOLEAN
  /\ user \in ControlOps \cup {"none"}
  /\ issued \in 0..MaxControls
  /\ crashes \in 0..MaxCrashes
  /\ wakes \in [Jobs -> Nat]
  /\ touched \in [Jobs -> BOOLEAN]

Init ==
  /\ AppInit
  /\ state = [j \in Jobs |-> "none"]
  /\ delivery = [j \in Jobs |-> "none"]
  /\ terminal = [j \in Jobs |-> FALSE]
  /\ identity = [j \in Jobs |-> NoId]
  /\ revision = [j \in Jobs |-> 0]
  /\ prep = [j \in Jobs |-> "none"]
  /\ pausedAt = [j \in Jobs |-> 0]
  /\ deliver = [j \in Jobs |-> "none"]
  /\ cancelled = [j \in Jobs |-> FALSE]
  /\ deadline = [j \in Jobs |-> FALSE]
  /\ event = FALSE
  /\ buffering = FALSE
  /\ buffer = <<>>
  /\ expected = FALSE
  /\ user = "none"
  /\ issued = 0
  /\ crashes = 0
  /\ wakes = [j \in Jobs |-> 0]
  /\ touched = [j \in Jobs |-> FALSE]

-----------------------------------------------------------------------------
(* Helpers shared by the handlers.                                         *)

SameGoal(j, g) == g.id = identity[j]

\* The unique index one_live_lease_per_thread.
MutThreadHasLive == \E j \in Jobs : state[j] \in {"preparing", "armed"}
ThreadHasLive == \E j \in Jobs : state[j] \in Live

\* state.update(job, state=s, delivery_state=d).
SetRow(j, s, d) == /\ state' = [state EXCEPT ![j] = s]
                   /\ delivery' = [delivery EXCEPT ![j] = d]

\* The caller sends request c (or is through with its call).
PrepSend(j, c) == /\ prepCall' = [prepCall EXCEPT ![j] = c]
                  /\ prepVal' = [prepVal EXCEPT ![j] = NoGoal]
WakeSend(j, c) == /\ wakeCall' = [wakeCall EXCEPT ![j] = c]
                  /\ wakeVal' = [wakeVal EXCEPT ![j] = NoGoal]

Replied(c) == c \in {"ok", "error"}

\* The lease that _abandon_for_manual_change retires; an activation in flight
\* is left to finish.
MutRevocableArmed(j) == state[j] \in {"armed", "terminal"} /\ delivery[j] # "activating"
MutRevocableAny(j) == state[j] \in Live
Revocable(j) == state[j] \in Live /\ delivery[j] # "activating"

\* _abandon_for_manual_change: retire the row, cancel the delivery task (a call
\* it still waits for is never answered) and the deadline task.
AbandonForManualChange ==
  /\ state' = [j \in Jobs |-> IF Revocable(j) THEN "abandoned" ELSE state[j]]
  /\ delivery' = [j \in Jobs |-> IF Revocable(j) THEN "abandoned" ELSE delivery[j]]
  /\ cancelled' = [j \in Jobs |-> cancelled[j] \/ (Revocable(j) /\ deliver[j] # "none")]
  /\ deadline' = [j \in Jobs |-> deadline[j] /\ ~Revocable(j)]
  /\ wakeCall' = [j \in Jobs |-> IF Revocable(j) /\ wakeCall[j] \in {"read", "get"}
                                 THEN "none" ELSE wakeCall[j]]

\* _schedule_delivery: at most one delivery task for a job.
ScheduleDelivery(j) == deliver' = [deliver EXCEPT ![j] = IF @ = "none" THEN "start" ELSE @]

\* The _goal_controls lock is held from the second thread/read of _deliver to
\* the end of _activate_goal; a forwarded user control holds it for one step.
LockFree == \A j \in Jobs : deliver[j] \notin {"check", "get", "set"}

-----------------------------------------------------------------------------
(* _prepare                                                                *)

Prepare(j) ==
  /\ connected /\ prep[j] = "none" /\ state[j] = "none"
  /\ prep' = [prep EXCEPT ![j] = "get"]
  /\ PrepSend(j, "get")
  /\ UNCHANGED <<goalVars, wakeCall, wakeVal, envVars, connected, controls, rowVars,
                 pausedAt, deliver, cancelled, deadline, memVars, userVars, crashes, wakes>>

\* create_lease: the row of a lease for the Goal as it was read.
CreateLease(j, g) == /\ SetRow(j, "preparing", "pending")
                     /\ identity' = [identity EXCEPT ![j] = g.id]
                     /\ revision' = [revision EXCEPT ![j] = g.at]

\* The active snapshot has arrived: persist the lease and ask for the pause, or
\* raise (no active Goal, or another live lease on the thread).
PrepareSnapshot(j) ==
  /\ prep[j] = "get" /\ Replied(prepCall[j])
  /\ \/ /\ prepCall[j] = "ok" /\ prepVal[j].status = "active" /\ ~ThreadHasLive
        /\ CreateLease(j, prepVal[j])
        /\ buffering' = TRUE
        /\ buffer' = <<>>
        /\ prep' = [prep EXCEPT ![j] = "set"]
        /\ PrepSend(j, "set")
     \/ /\ prepCall[j] = "error" \/ prepVal[j].status # "active" \/ ThreadHasLive
        /\ prep' = [prep EXCEPT ![j] = "done"]
        /\ PrepSend(j, "none")
        /\ UNCHANGED <<state, delivery, identity, revision, buffering, buffer>>
  /\ UNCHANGED <<goalVars, wakeCall, wakeVal, envVars, connected, controls, terminal,
                 pausedAt, deliver, cancelled, deadline, event, expected, userVars,
                 crashes, wakes>>

\* The except and finally clauses: a lease still preparing is abandoned, the
\* buffer goes; a timed-out goal/set stays on its way to the App Server.
MutPrepareFails(j, call) ==
  /\ expected' = FALSE
  /\ buffering' = FALSE
  /\ buffer' = <<>>
  /\ prep' = [prep EXCEPT ![j] = "done"]
  /\ PrepSend(j, call)
  /\ pausedAt' = [pausedAt EXCEPT ![j] = 0]
  /\ UNCHANGED <<state, delivery, revision, deliver, deadline>>
PrepareFails(j, call) ==
  /\ expected' = FALSE
  /\ IF state[j] = "preparing" THEN SetRow(j, "abandoned", "abandoned")
                               ELSE UNCHANGED <<state, delivery>>
  /\ buffering' = FALSE
  /\ buffer' = <<>>
  /\ prep' = [prep EXCEPT ![j] = "done"]
  /\ PrepSend(j, call)
  /\ pausedAt' = [pausedAt EXCEPT ![j] = 0]
  /\ UNCHANGED <<revision, deliver, deadline>>

PauseConfirmed(j) == /\ prepCall[j] = "ok"
                     /\ SameGoal(j, prepVal[j])
                     /\ prepVal[j].status = "paused"

\* The pause was answered: read the Goal once more.
PreparePaused(j) ==
  /\ prep[j] = "set" /\ Replied(prepCall[j])
  /\ \/ /\ PauseConfirmed(j) /\ prepVal[j].at >= revision[j]
        /\ pausedAt' = [pausedAt EXCEPT ![j] = prepVal[j].at]
        /\ prep' = [prep EXCEPT ![j] = "confirm"]
        /\ PrepSend(j, "get")
        /\ UNCHANGED <<state, delivery, revision, deliver, deadline, buffering, buffer, expected>>
     \/ /\ ~(PauseConfirmed(j) /\ prepVal[j].at >= revision[j])
        /\ PrepareFails(j, "none")
  /\ UNCHANGED <<goalVars, wakeCall, wakeVal, envVars, connected, controls, terminal,
                 identity, cancelled, event, userVars, crashes, wakes>>

\* The buffered notifications tell of nothing but our own pause, after events
\* that the snapshot or the accounting of the active Goal explains.
Superseded(j, n)  == SameGoal(j, n) /\ n.at <= revision[j]
OurPause(j, n)    == SameGoal(j, n) /\ n.status = "paused" /\ n.at = pausedAt[j]
SawPause(j, i)    == \E k \in 1..(i - 1) : ~Superseded(j, buffer[k]) /\ OurPause(j, buffer[k])
Accounting(j, i)  == /\ ~SawPause(j, i)
                     /\ SameGoal(j, buffer[i])
                     /\ buffer[i].status = "active"
                     /\ buffer[i].at <= pausedAt[j]
Reconciled(j) == \A i \in 1..Len(buffer) :
  Superseded(j, buffer[i]) \/ Accounting(j, i) \/ OurPause(j, buffer[i])

\* Everything _prepare requires before it commits (197 raises when another
\* registration's finally clause has dropped the shared buffer).
MutMayCommit(j) == PauseConfirmed(j) /\ prepVal[j].at = pausedAt[j] /\ buffering /\ Reconciled(j)
MayCommit(j) == /\ PauseConfirmed(j)
                /\ prepVal[j].at = pausedAt[j]
                /\ buffering
                /\ Reconciled(j)
                /\ state[j] = "preparing" /\ delivery[j] = "pending"

\* The committed row: a terminal event received meanwhile is not discarded.
MutCommitState(j) == "armed"
CommitState(j) == IF terminal[j] THEN "terminal" ELSE "armed"

\* goal_updated_at of the committed row.
MutCommitRevision(j) == revision[j]
MutCommitRevisionNext(j) == pausedAt[j] + 1
CommitRevision(j) == pausedAt[j]

PrepareConfirm(j) ==
  /\ prep[j] = "confirm" /\ Replied(prepCall[j])
  /\ \/ /\ MayCommit(j)
        /\ SetRow(j, CommitState(j), IF CommitState(j) = "terminal" THEN "waiting_for_idle"
                                                                  ELSE "pending")
        /\ revision' = [revision EXCEPT ![j] = CommitRevision(j)]
        /\ IF CommitState(j) = "terminal"
           THEN ScheduleDelivery(j) /\ UNCHANGED deadline
           ELSE deadline' = [deadline EXCEPT ![j] = TRUE] /\ UNCHANGED deliver
        /\ buffering' = FALSE
        /\ buffer' = <<>>
        /\ prep' = [prep EXCEPT ![j] = "done"]
        /\ PrepSend(j, "none")
        /\ pausedAt' = [pausedAt EXCEPT ![j] = 0]
        /\ UNCHANGED expected
     \/ /\ ~MayCommit(j)
        /\ PrepareFails(j, "none")
  /\ UNCHANGED <<goalVars, wakeCall, wakeVal, envVars, connected, controls, terminal,
                 identity, cancelled, event, userVars, crashes, wakes>>

\* The 10 s limit of AppServerClient.call ends one of _prepare's calls.
PrepareTimeout(j) ==
  /\ Failures /\ prepCall[j] \in {"get", "set"}
  /\ \/ /\ prep[j] = "get"
        /\ prep' = [prep EXCEPT ![j] = "done"]
        /\ PrepSend(j, "none")
        /\ UNCHANGED <<state, delivery, revision, pausedAt, deliver, deadline,
                       buffering, buffer, expected>>
     \/ /\ prep[j] \in {"set", "confirm"}
        /\ PrepareFails(j, IF prep[j] = "set" THEN "late" ELSE "none")
  /\ UNCHANGED <<goalVars, wakeCall, wakeVal, envVars, connected, controls, terminal,
                 identity, cancelled, event, userVars, crashes, wakes>>
-----------------------------------------------------------------------------
(* _terminal, _abort and the deadline                                      *)

\* The lease is due: _deliver gets a task.
BecomesDue(j) ==
  /\ SetRow(j, "terminal", "waiting_for_idle")
  /\ terminal' = [terminal EXCEPT ![j] = TRUE]
  /\ ScheduleDelivery(j)

\* The MCP server reports the job's end.  A settled or due lease ignores it.
Terminal(j) ==
  /\ connected
  /\ \/ /\ state[j] = "preparing" /\ delivery[j] = "pending" /\ ~terminal[j]
        /\ terminal' = [terminal EXCEPT ![j] = TRUE]
        /\ UNCHANGED <<state, delivery, deliver, deadline>>
     \/ /\ state[j] = "armed" /\ delivery[j] = "pending"
        /\ BecomesDue(j)
        /\ deadline' = [deadline EXCEPT ![j] = FALSE]
  /\ UNCHANGED <<appVars, identity, revision, prep, pausedAt, cancelled, memVars,
                 userVars, crashes, wakes>>

\* The MCP server gives the registration up: because prepare's answer was lost
\* (only when requests can fail) or because the armed job could not be started.
Abort(j) ==
  /\ connected
  /\ \/ /\ Failures /\ state[j] = "preparing"
        /\ AbandonForManualChange
        /\ UNCHANGED <<terminal, deliver>>
     \/ /\ state[j] = "armed" /\ delivery[j] = "pending"
        /\ BecomesDue(j)
        /\ UNCHANGED <<cancelled, deadline, wakeCall>>
  /\ UNCHANGED <<goalVars, prepCall, prepVal, wakeVal, envVars, connected, controls,
                 identity, revision, prep, pausedAt, memVars, userVars, crashes, wakes>>

\* The deadline task wakes up; only an armed lease expires.
ExpireAtDeadline(j) ==
  /\ deadline[j]
  /\ deadline' = [deadline EXCEPT ![j] = FALSE]
  /\ \/ /\ state[j] = "armed" /\ delivery[j] = "pending"
        /\ BecomesDue(j)
     \/ /\ state[j] # "armed"
        /\ UNCHANGED <<state, delivery, terminal, deliver>>
  /\ UNCHANGED <<appVars, identity, revision, prep, pausedAt, cancelled, memVars,
                 userVars, crashes, wakes>>

-----------------------------------------------------------------------------
(* _deliver, _wait_until_idle and _activate_goal                           *)

deliverFrame == <<goalVars, prepCall, prepVal, envVars, connected, controls, terminal,
                  identity, revision, prep, pausedAt, deadline, buffering, buffer,
                  userVars, crashes>>

\* The task goes on to pc with request c; a cancellation that a finished call
\* has swallowed (asyncio.wait_for before Python 3.12) is forgotten.
DeliverGoto(j, pc, c) == /\ deliver' = [deliver EXCEPT ![j] = pc]
                         /\ cancelled' = [cancelled EXCEPT ![j] = FALSE]
                         /\ WakeSend(j, c)

\* The except clause of _deliver.
DeliverFails(j, call) ==
  /\ IF delivery[j] \notin {"resumed", "abandoned"}
     THEN SetRow(j, "failed", "needs_manual_recovery")
     ELSE UNCHANGED <<state, delivery>>
  /\ DeliverGoto(j, "none", call)
  /\ UNCHANGED <<event, wakes>>

DeliverStart(j) ==
  /\ deliver[j] = "start" /\ ~cancelled[j]
  /\ IF state[j] = "terminal" /\ delivery[j] = "waiting_for_idle"
     THEN DeliverGoto(j, "read", "read")
     ELSE DeliverGoto(j, "none", "none")
  /\ UNCHANGED <<deliverFrame, state, delivery, event, expected, wakes>>

\* The first thread/read of _wait_until_idle; the event is cleared after it.
MutDeliverRead(j) ==
  /\ deliver[j] = "read" /\ Replied(wakeCall[j])
  /\ \/ /\ wakeCall[j] = "ok" /\ wakeVal[j].status # "systemError"
        /\ event' = (event /\ wakeVal[j].status = "idle")
        /\ DeliverGoto(j, IF wakeVal[j].status = "idle" THEN "lock" ELSE "wait", "none")
        /\ UNCHANGED <<state, delivery, wakes>>
     \/ /\ wakeCall[j] = "error" \/ wakeVal[j].status = "systemError"
        /\ DeliverFails(j, "none")
  /\ UNCHANGED <<deliverFrame, expected>>
DeliverRead(j) ==
  /\ deliver[j] = "read" /\ Replied(wakeCall[j])
  /\ \/ /\ wakeCall[j] = "ok" /\ wakeVal[j].status = "idle"
        /\ DeliverGoto(j, "lock", "none")
        /\ UNCHANGED <<state, delivery, event, wakes>>
     \/ /\ wakeCall[j] = "ok" /\ wakeVal[j].status \notin {"idle", "systemError"}
        /\ event' = FALSE
        /\ DeliverGoto(j, "reread", "read")
        /\ UNCHANGED <<state, delivery, wakes>>
     \/ /\ wakeCall[j] = "error" \/ wakeVal[j].status = "systemError"
        /\ DeliverFails(j, "none")
  /\ UNCHANGED <<deliverFrame, expected>>

\* The second thread/read closes the race between the first one and the clear.
DeliverReread(j) ==
  /\ deliver[j] = "reread" /\ Replied(wakeCall[j])
  /\ \/ /\ wakeCall[j] = "ok" /\ wakeVal[j].status # "systemError"
        /\ DeliverGoto(j, IF wakeVal[j].status = "idle" THEN "lock" ELSE "wait", "none")
        /\ UNCHANGED <<state, delivery, event, wakes>>
     \/ /\ wakeCall[j] = "error" \/ wakeVal[j].status = "systemError"
        /\ DeliverFails(j, "none")
  /\ UNCHANGED <<deliverFrame, expected>>

DeliverWait(j) ==
  /\ deliver[j] = "wait" /\ event /\ ~cancelled[j]
  /\ DeliverGoto(j, "read", "read")
  /\ UNCHANGED <<deliverFrame, state, delivery, event, expected, wakes>>

DeliverLock(j) ==
  /\ deliver[j] = "lock" /\ LockFree /\ ~cancelled[j]
  /\ DeliverGoto(j, "check", "read")
  /\ UNCHANGED <<deliverFrame, state, delivery, event, expected, wakes>>

\* _activate_goal rechecks idleness under the lock: a new turn sends the task
\* back to waiting, a settled lease ends it.
DeliverCheck(j) ==
  /\ deliver[j] = "check" /\ Replied(wakeCall[j])
  /\ \/ /\ wakeCall[j] = "ok" /\ wakeVal[j].status # "idle"
        /\ DeliverGoto(j, "read", "read")
        /\ UNCHANGED <<state, delivery, event, wakes>>
     \/ /\ wakeCall[j] = "ok" /\ wakeVal[j].status = "idle"
        /\ IF delivery[j] \in Settled THEN DeliverGoto(j, "none", "none")
                                      ELSE DeliverGoto(j, "get", "get")
        /\ UNCHANGED <<state, delivery, event, wakes>>
     \/ /\ wakeCall[j] = "error"
        /\ DeliverFails(j, "none")
  /\ UNCHANGED <<deliverFrame, expected>>

\* The lease may be delivered, and the Goal is the one paused for it.
Due(j) == state[j] = "terminal" /\ delivery[j] = "waiting_for_idle"
StillOurs(j, g) == SameGoal(j, g) /\ g.status = "paused" /\ g.at = revision[j]

\* The Goal was read under the lock: activate it, abandon the lease because the
\* Goal is no longer as the bridge left it, or stop because the lease settled.
DeliverActivate(j) ==
  /\ deliver[j] = "get" /\ Replied(wakeCall[j])
  /\ \/ /\ wakeCall[j] = "ok" /\ wakeVal[j] # NoGoal
        /\ Due(j) /\ StillOurs(j, wakeVal[j])
        /\ delivery' = [delivery EXCEPT ![j] = "activating"]
        /\ expected' = TRUE
        /\ wakes' = [wakes EXCEPT ![j] = @ + 1]
        /\ DeliverGoto(j, "set", "set")
        /\ UNCHANGED <<state, event>>
     \/ /\ wakeCall[j] = "ok" /\ wakeVal[j] # NoGoal
        /\ Due(j) /\ ~StillOurs(j, wakeVal[j])
        /\ SetRow(j, "abandoned", "abandoned")
        /\ DeliverGoto(j, "none", "none")
        /\ UNCHANGED <<event, expected, wakes>>
     \/ /\ wakeCall[j] = "ok" /\ wakeVal[j] # NoGoal
        /\ ~Due(j)
        /\ DeliverGoto(j, "none", "none")
        /\ UNCHANGED <<state, delivery, event, expected, wakes>>
     \/ /\ wakeCall[j] = "error" \/ wakeVal[j] = NoGoal
        /\ DeliverFails(j, "none")
        /\ UNCHANGED expected
  /\ UNCHANGED deliverFrame

\* The activation was answered.  Only a confirmed one resumes the lease, and no
\* outcome is retried; an unconfirmed reply leaves _expected_goal_status behind.
DeliverActivated(j) ==
  /\ deliver[j] = "set" /\ Replied(wakeCall[j])
  /\ \/ /\ wakeCall[j] = "ok" /\ SameGoal(j, wakeVal[j]) /\ wakeVal[j].status = "active"
        /\ SetRow(j, "delivered", "resumed")
        /\ expected' = FALSE
     \/ /\ wakeCall[j] = "ok" /\ ~(SameGoal(j, wakeVal[j]) /\ wakeVal[j].status = "active")
        /\ SetRow(j, "failed", "needs_manual_recovery")
        /\ UNCHANGED expected
     \/ /\ wakeCall[j] = "error"
        /\ SetRow(j, "failed", "needs_manual_recovery")
        /\ expected' = FALSE
  /\ DeliverGoto(j, "none", "none")
  /\ UNCHANGED <<deliverFrame, event, wakes>>

\* The 10 s limit of AppServerClient.call: a sent activation stays in flight.
DeliverTimeout(j) ==
  /\ Failures /\ deliver[j] # "none" /\ wakeCall[j] \in {"read", "get", "set"}
  /\ DeliverFails(j, IF wakeCall[j] = "set" THEN "late" ELSE "none")
  /\ expected' = (expected /\ wakeCall[j] # "set")
  /\ UNCHANGED deliverFrame

\* A cancelled delivery task unwinds and releases the lock.
MutDeliverUnwind(j) ==
  /\ cancelled[j] /\ deliver[j] # "check"
  /\ DeliverGoto(j, "none", "none")
  /\ UNCHANGED <<deliverFrame, state, delivery, event, expected, wakes>>
DeliverUnwind(j) ==
  /\ cancelled[j]
  /\ DeliverGoto(j, "none", "none")
  /\ UNCHANGED <<deliverFrame, state, delivery, event, expected, wakes>>

-----------------------------------------------------------------------------
(* Notifications and the user                                              *)

\* What a thread/goal/updated event means for the live lease.
OlderEvent(j, g) == SameGoal(j, g) /\ g.at < revision[j]
OwnEvent(j, g)   == SameGoal(j, g) /\ g.status = "paused" /\ g.at = revision[j]
ManualChange(g)  == \E j \in Jobs : state[j] \in Live /\ ~OlderEvent(j, g) /\ ~OwnEvent(j, g)

keepLease == UNCHANGED <<state, delivery, cancelled, deadline, wakeCall>>

GoalUpdated(g) ==
  \/ /\ buffering
     /\ IF Len(buffer) >= MaxBuffer
        THEN AbandonForManualChange /\ UNCHANGED buffer
        ELSE buffer' = Append(buffer, g) /\ keepLease
     /\ UNCHANGED expected
  \/ /\ ~buffering /\ expected /\ g.status = "active"
     /\ expected' = FALSE
     /\ keepLease /\ UNCHANGED buffer
  \/ /\ ~buffering /\ ~(expected /\ g.status = "active")
     /\ IF ManualChange(g) THEN AbandonForManualChange ELSE keepLease
     /\ UNCHANGED <<buffer, expected>>

OnNotification ==
  /\ connected /\ notifs # <<>>
  /\ notifs' = Tail(notifs)
  /\ \/ /\ Head(notifs).kind = "status"
        /\ event' = TRUE
        /\ keepLease /\ UNCHANGED <<buffer, expected>>
     \/ /\ Head(notifs).kind = "cleared"
        /\ AbandonForManualChange
        /\ UNCHANGED <<event, buffer, expected>>
     \/ /\ Head(notifs).kind = "updated"
        /\ GoalUpdated(Head(notifs).goal)
        /\ UNCHANGED event
  /\ UNCHANGED <<goal, writer, held, prepCall, prepVal, wakeVal, envVars, connected, controls,
                 terminal, identity, revision, prep, pausedAt, deliver, buffering,
                 userVars, crashes, wakes>>

\* History: the leases that a control issued now must revoke.
Pending(j) == state[j] \in Live /\ delivery[j] # "activating"

userFrame == <<goalVars, prepCall, prepVal, wakeVal, envVars, connected, terminal, identity,
               revision, prep, pausedAt, deliver, memVars, crashes, wakes>>

\* user_goal_control: intent is recorded at once; with the lock free the control
\* goes straight to the App Server (its answer is not awaited), otherwise it
\* waits for the activation in flight.
UserGoalControl(op) ==
  /\ connected /\ user = "none" /\ issued < MaxControls
  /\ AbandonForManualChange
  /\ touched' = [j \in Jobs |-> touched[j] \/ Pending(j)]
  /\ IF LockFree THEN controls' = Append(controls, op) /\ UNCHANGED user
                 ELSE user' = op /\ UNCHANGED controls
  /\ issued' = issued + 1
  /\ UNCHANGED userFrame

\* The lock has been released: intent is recorded again, and the control goes.
ForwardControl ==
  /\ user # "none" /\ LockFree
  /\ AbandonForManualChange
  /\ touched' = [j \in Jobs |-> touched[j] \/ Pending(j)]
  /\ controls' = Append(controls, user)
  /\ user' = "none"
  /\ UNCHANGED <<userFrame, issued>>

-----------------------------------------------------------------------------
(* The bridge process stops (crash, close, lost App Server) and restarts.  *)

\* It stops in any way, between any two steps: what is in memory is gone, the rows
\* stay, and requests already written may still be applied.  (close() cancels the
\* delivery and deadline tasks first, which changes no row: bridge.py:301, 541-556.)
Orphaned(calls) == [j \in Jobs |-> IF calls[j] \in {"set", "late"} THEN "late" ELSE "none"]

Crash ==
  /\ connected /\ crashes < MaxCrashes
  /\ crashes' = crashes + 1
  /\ connected' = FALSE
  /\ notifs' = <<>>
  /\ prepCall' = Orphaned(prepCall)
  /\ wakeCall' = Orphaned(wakeCall)
  /\ prepVal' = [j \in Jobs |-> NoGoal]
  /\ wakeVal' = [j \in Jobs |-> NoGoal]
  /\ prep' = [j \in Jobs |-> IF prep[j] = "none" THEN "none" ELSE "done"]
  /\ pausedAt' = [j \in Jobs |-> 0]
  /\ deliver' = [j \in Jobs |-> "none"]
  /\ cancelled' = [j \in Jobs |-> FALSE]
  /\ deadline' = [j \in Jobs |-> FALSE]
  /\ event' = FALSE
  /\ buffering' = FALSE
  /\ buffer' = <<>>
  /\ expected' = FALSE
  /\ user' = "none"
  /\ UNCHANGED <<goal, writer, held, envVars, controls, rowVars, issued, touched, wakes>>

\* _recover_lease, for every lease of state.pending(): a settled row is retired,
\* an ambiguous activation or an unfinished registration is left to the user, an
\* armed or due lease is taken up again.  The recovered row:
MutRecovered(j) ==
  CASE state[j] \notin Live -> <<state[j], delivery[j]>>
    [] delivery[j] = "activating" -> <<"terminal", "waiting_for_idle">>
    [] state[j] = "preparing" -> <<"failed", "needs_manual_recovery">>
    [] OTHER -> <<state[j], delivery[j]>>
Recovered(j) ==
  CASE state[j] \notin Live -> <<state[j], delivery[j]>>
    [] state[j] \in Live /\ delivery[j] = "abandoned" -> <<"abandoned", delivery[j]>>
    [] state[j] \in Live /\ delivery[j] = "resumed" -> <<"delivered", delivery[j]>>
    [] state[j] \in Live /\ delivery[j] \in {"needs_manual_recovery", "activating"} ->
         <<"failed", "needs_manual_recovery">>
    [] state[j] = "preparing" /\ delivery[j] = "pending" -> <<"failed", "needs_manual_recovery">>
    [] OTHER -> <<state[j], delivery[j]>>

\* start() on the same database: reconnect and recover.
Restart ==
  /\ ~connected
  /\ connected' = TRUE
  /\ state' = [j \in Jobs |-> Recovered(j)[1]]
  /\ delivery' = [j \in Jobs |-> Recovered(j)[2]]
  /\ deliver' = [j \in Jobs |-> IF Recovered(j)[1] = "terminal" THEN "start" ELSE "none"]
  /\ deadline' = [j \in Jobs |-> Recovered(j)[1] = "armed"]
  /\ UNCHANGED <<goalVars, callVars, envVars, controls, terminal, identity, revision,
                 prep, pausedAt, cancelled, memVars, userVars, crashes, wakes>>

-----------------------------------------------------------------------------
JobNext(j) ==
  \/ Prepare(j) \/ PrepareSnapshot(j) \/ PreparePaused(j) \/ PrepareConfirm(j)
  \/ PrepareTimeout(j)
  \/ Terminal(j) \/ Abort(j) \/ ExpireAtDeadline(j)
  \/ DeliverStart(j) \/ DeliverRead(j) \/ DeliverReread(j) \/ DeliverWait(j)
  \/ DeliverLock(j) \/ DeliverCheck(j) \/ DeliverActivate(j) \/ DeliverActivated(j)
  \/ DeliverTimeout(j) \/ DeliverUnwind(j)

Next ==
  \/ AppNext /\ UNCHANGED bridgeVars
  \/ \E j \in Jobs : JobNext(j)
  \/ OnNotification
  \/ \E op \in UserOps : UserGoalControl(op)
  \/ ForwardControl
  \/ Crash
  \/ Restart

Spec == Init /\ [][Next]_vars

\* The event loop runs every ready task and the reader; asyncio.Lock serves its
\* waiters in order; timers fire.  Of the App Server: it answers or the call times
\* out, and a turn ends.  Nobody is bound to restart a bridge that stopped: with
\* the launcher that is the end of the session (launcher.py:236-257).
Fairness ==
  /\ WF_vars(TurnEnd /\ UNCHANGED bridgeVars)
  /\ WF_vars(OnNotification)
  /\ SF_vars(ForwardControl)
  /\ \A j \in Jobs :
       /\ WF_vars((AnswerPrepare(j) \/ AnswerWake(j)) /\ UNCHANGED bridgeVars)
       /\ WF_vars(PrepareSnapshot(j) \/ PreparePaused(j) \/ PrepareConfirm(j))
       /\ WF_vars(ExpireAtDeadline(j))
       /\ WF_vars(\/ DeliverStart(j) \/ DeliverRead(j) \/ DeliverReread(j) \/ DeliverWait(j)
                  \/ DeliverCheck(j) \/ DeliverActivate(j) \/ DeliverActivated(j)
                  \/ DeliverUnwind(j))
       /\ SF_vars(DeliverLock(j))

FairSpec == Spec /\ Fairness

-----------------------------------------------------------------------------
(* Properties                                                              *)

\* At most one lease of a thread is live: nothing but the creation of a lease,
\* which the unique index guards, makes one live, so no late handler, task or
\* recovery brings a second one back (bridge_state.py:59-61).
OneLiveLease == \A i, j \in Jobs : state[i] \in Live /\ state[j] \in Live => i = j

\* A job's Goal activation is requested at most once, across timeouts, lost
\* replies and restarts of the bridge ("Never retry it automatically",
\* bridge.py:373-375).
WakesAtMostOnce == \A j \in Jobs : wakes[j] <= 1

\* While the bridge runs, every live lease has the one task that will settle
\* it: _prepare while preparing, the deadline task while armed, an uncancelled
\* delivery task once due, the awaited activation while activating.  Otherwise
\* the Goal would stay paused without anyone left to resume it.
LeaseHasDriver ==
  connected => \A j \in Jobs :
    /\ state[j] = "preparing" => prep[j] \in {"set", "confirm"}
    /\ state[j] = "armed" => deadline[j]
    /\ state[j] = "terminal" => deliver[j] # "none" /\ ~cancelled[j]
    /\ delivery[j] = "activating" <=> deliver[j] = "set"

\* A terminal event accepted during registration is not lost by the commit: an
\* armed lease, which waits for such an event, has not had one
\* (bridge.py:212-220).
EarlyTerminalKept == \A j \in Jobs : state[j] = "armed" => ~terminal[j]

\* A control the user issued while a lease was pending has revoked it for good:
\* no activation is sent for it, not by a registration in flight, a deadline, a
\* cancelled delivery task or a restart (bridge.py:404-411).
UserControlRevokes ==
  \A j \in Jobs : touched[j] => state[j] = "abandoned" /\ wakes[j] = 0

\* As long as nobody has written the Goal since the pause made for a committed
\* lease, the row's goal_updated_at is the revision the App Server holds: the
\* delivery will recognise its own pause (bridge.py:215-220, 358).
PauseRecorded ==
  \A j \in Jobs :
    (state[j] \in {"armed", "terminal"} /\ writer = [kind |-> "pause", job |-> j])
      => StillOurs(j, goal)

\* A lease that is over stays over: no handler, task or recovery changes its row
\* or sends an activation for it ("Normal completion and deadline callbacks
\* cannot revive revoked leases", docs/EVENT_DRIVEN_WAKEUP.md:66).
RetiredStaysRetired ==
  [][\A j \in Jobs : state[j] \in Retired =>
       state'[j] = state[j] /\ delivery'[j] = delivery[j] /\ wakes'[j] = wakes[j]]_vars

\* As long as the bridge runs, and whenever one has taken over the rows of another,
\* every live lease is eventually settled, whether the job reports its end or not:
\* no wakeup of a waiting delivery task is lost, no task is forgotten
\* (bridge.py:413-448, 504-560).
LeaseSettles ==
  \A j \in Jobs : state[j] \in Live /\ connected ~> state[j] \in Retired \/ ~connected

\* A user's control does not wait for the lock for ever.
ControlForwarded == user # "none" ~> user = "none"

\* When nobody but the accounting of the active Goal writes it and no call fails, a
\* lease that a running bridge has committed or recovered ends with the Goal
\* resumed, unless the bridge stops before: in any order of replies, turns and
\* notifications of the pause and of the accounting before it, the bridge's own
\* pause is not taken for a manual change (bridge.py:197-220, 450-490, 504-560).
\* An accounting notification that comes only after the commit may be (478-490).
Accounted == \A i \in DOMAIN notifs : notifs[i].goal.status # "active"
QuietLeaseWakes ==
  \A j \in Jobs : state[j] \in {"armed", "terminal"} /\ connected /\ Accounted ~>
                    state[j] = "delivered" \/ ~connected

\* The lease table implements the abstract lease.
LeasePhase(j) ==
  CASE state[j] = "none" -> "absent"
    [] state[j] = "preparing" -> "registering"
    [] state[j] = "armed" -> "held"
    [] state[j] = "terminal" /\ delivery[j] # "activating" -> "due"
    [] state[j] = "terminal" /\ delivery[j] = "activating" -> "waking"
    [] state[j] = "delivered" -> "woken"
    [] state[j] = "abandoned" -> "revoked"
    [] OTHER -> "manual"
Lease == INSTANCE WakeLease WITH phase <- [j \in Jobs |-> LeasePhase(j)], attempts <- wakes
LeaseSpec == Lease!Spec

\* "explicit TUI Goal controls preserve user intent even when timestamps
\* coincide" (README.md:44-45): the bridge does not resume a Goal on which the
\* user's explicit pause is in force.
UserPauseKept == [][held => ~(writer'.kind = "wake" /\ goal' # goal)]_vars

\* "Activation and forwarding those user controls are serialized so an in-flight
\* bridge activation cannot overwrite a later user pause"
\* (docs/EVENT_DRIVEN_WAKEUP.md:64-66): a control of the user is forwarded only
\* while no activation is on its way to the App Server.
ControlsSerialized ==
  [][Len(controls') > Len(controls) =>
       \A j \in Jobs : wakeCall[j] \notin {"set", "late"}]_vars
=============================================================================
