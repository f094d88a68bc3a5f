----------------------------- MODULE AppServer -----------------------------
(***************************************************************************)
(* The Codex App Server as the Goal bridge sees it (external code, modelled *)
(* from its use in bridge.py, app_server_client.py and tui_proxy.py).       *)
(*                                                                          *)
(* It keeps one thread's durable Goal and runtime status, applies requests  *)
(* that reach it over two connections (the bridge's own and the TUI's), and *)
(* tells the bridge about changes.  A reply and a notification travel       *)
(* independently, because "pause notifications and the RPC reply may arrive *)
(* in either order" (bridge.py:41); notifications keep their own order.     *)
(* updatedAt has second precision: `clock' need not move between changes.   *)
(***************************************************************************)
EXTENDS Naturals, Sequences

CONSTANTS Jobs,        \* jobs whose MCP server asks for a wakeup
          GoalIds,     \* Goal identities: an (objective, createdAt) pair
          NoId,        \* the identity of no Goal
          MaxClock,    \* bound: seconds the clock can count
          OutsideOps,  \* Goal changes made past the TUI proxy
          MaxOutside,  \* bound: how many of them
          MaxTurns,    \* bound: further turns of the thread
          Failures     \* may requests fail or time out?

ASSUME NoIdAssumption == GoalIds # {} /\ NoId \notin GoalIds
ASSUME AppServerBounds == /\ MaxClock \in Nat /\ MaxOutside \in Nat /\ MaxTurns \in Nat
                          /\ Failures \in BOOLEAN

VARIABLES goal,      \* the Goal, or NoGoal
          clock,     \* wall clock in seconds
          thread,    \* runtime status reported by thread/read
          turns,     \* turns started so far
          outside,   \* outside changes made so far
          connected, \* is the bridge connected (and running)?
          notifs,    \* notifications on their way to the bridge
          prepCall,  \* the call in flight of each job's _prepare
          prepVal,   \* ... and its result
          wakeCall,  \* the call in flight of each job's _deliver
          wakeVal,   \* ... and its result
          controls,  \* TUI Goal controls forwarded and not applied yet
          writer,    \* history: who wrote the Goal last
          held       \* history: is a pause by a TUI control in force?

goalVars == <<goal, notifs, writer, held>>
callVars == <<prepCall, prepVal, wakeCall, wakeVal>>
envVars  == <<clock, thread, turns, outside>>
appVars  == <<goalVars, callVars, envVars, connected, controls>>

GoalStatus   == {"active", "paused", "complete"}
ThreadStatus == {"idle", "active", "systemError"}
ControlOps   == {"active", "paused", "complete", "edit", "clear"}

Goal   == [id : GoalIds, status : GoalStatus, at : 0..MaxClock]
NoGoal == [id |-> NoId, status |-> "none", at |-> 0]
Snap   == Goal \cup {NoGoal}

\* "sent" states name the request; "late" is a goal/set whose caller has given
\* up; "ok" and "error" are replies the caller has not consumed yet.
CallState == {"none", "read", "get", "set", "late", "ok", "error"}

\* A reply carries a Goal or, for thread/read, a thread status.
Reply == Snap \cup [id : {NoId}, status : ThreadStatus, at : {0}]

Notification == [kind : {"updated", "cleared", "status"}, goal : Snap]

\* Who can have written the Goal: a job's pause, a job's activation, a TUI
\* control, anyone else.
Writers == [kind : {"pause", "wake", "user", "outside"}, job : Jobs \cup {NoId}]
User    == [kind |-> "user", job |-> NoId]
Outside == [kind |-> "outside", job |-> NoId]

AppTypeOK ==
  /\ goal \in Snap
  /\ clock \in 0..MaxClock
  /\ thread \in ThreadStatus
  /\ turns \in 0..MaxTurns
  /\ outside \in 0..MaxOutside
  /\ connected \in BOOLEAN
  /\ notifs \in Seq(Notification)
  /\ prepCall \in [Jobs -> CallState]
  /\ prepVal \in [Jobs -> Reply]
  /\ wakeCall \in [Jobs -> CallState]
  /\ wakeVal \in [Jobs -> Reply]
  /\ controls \in Seq(ControlOps)
  /\ writer \in Writers
  /\ held \in BOOLEAN

\* The Goal of the turn that calls start_job; which one it is makes no difference.
FirstGoal == CHOOSE g \in GoalIds : TRUE

AppInit ==
  /\ goal = [id |-> FirstGoal, status |-> "active", at |-> 0]
  /\ clock = 0
  /\ thread = "active"          \* the turn that called start_job
  /\ turns = 0
  /\ outside = 0
  /\ connected = TRUE
  /\ notifs = <<>>
  /\ prepCall = [j \in Jobs |-> "none"]
  /\ prepVal = [j \in Jobs |-> NoGoal]
  /\ wakeCall = [j \in Jobs |-> "none"]
  /\ wakeVal = [j \in Jobs |-> NoGoal]
  /\ controls = <<>>
  /\ writer = Outside
  /\ held = FALSE

\* Notifications reach a connected bridge only.
Notify(n) == notifs' = IF connected THEN Append(notifs, n) ELSE notifs

\* goal/set on an existing Goal stamps the current second.
WithStatus(s) == [goal EXCEPT !.status = s, !.at = clock]

WriteGoal(g, w) ==
  /\ goal' = g
  /\ writer' = w
  /\ held' = (g.status = "paused" /\ (held \/ w.kind = "user"))
  /\ Notify([kind |-> IF g = NoGoal THEN "cleared" ELSE "updated", goal |-> g])

\* A Goal control, by the TUI or by anyone else: a status, an edit of the
\* objective (another identity, active again), a clear, or the accounting of
\* an active Goal, which only moves updatedAt.
ControlGoal(op, w) ==
  \/ /\ op \in GoalStatus
     /\ goal # NoGoal
     /\ WriteGoal(WithStatus(op), w)
  \/ /\ op = "edit"
     /\ \E g \in GoalIds \ {goal.id} :
          WriteGoal([id |-> g, status |-> "active", at |-> clock], w)
  \/ /\ op = "clear"
     /\ goal # NoGoal
     /\ WriteGoal(NoGoal, w)
  \/ /\ op = "account"
     /\ goal.status = "active"
     /\ WriteGoal(WithStatus("active"), w)

Tick == /\ clock < MaxClock
        /\ clock' = clock + 1
        /\ UNCHANGED <<goalVars, callVars, thread, turns, outside, connected, controls>>

TurnStart == /\ thread = "idle" /\ turns < MaxTurns
             /\ thread' = "active"
             /\ turns' = turns + 1
             /\ Notify([kind |-> "status", goal |-> NoGoal])
             /\ UNCHANGED <<goal, writer, held, callVars, clock, outside, connected, controls>>

\* A turn ends normally, or the thread breaks down when failures are allowed.
TurnEnd == /\ thread = "active"
           /\ thread' \in {"idle"} \cup (IF Failures THEN {"systemError"} ELSE {})
           /\ Notify([kind |-> "status", goal |-> NoGoal])
           /\ UNCHANGED <<goal, writer, held, callVars, clock, turns, outside, connected, controls>>

OutsideChange == /\ outside < MaxOutside
                 /\ outside' = outside + 1
                 /\ \E op \in OutsideOps : ControlGoal(op, Outside)
                 /\ UNCHANGED <<callVars, clock, thread, turns, connected, controls>>

\* The oldest forwarded TUI control takes effect, or cannot (no Goal to set).
ApplyControl ==
  /\ controls # <<>>
  /\ controls' = Tail(controls)
  /\ \/ ControlGoal(Head(controls), User)
     \/ /\ goal = NoGoal /\ Head(controls) # "edit"
        /\ UNCHANGED goalVars
  /\ UNCHANGED <<callVars, envVars, connected>>

\* A processed call has a reply, unless its caller has given up on it.
Answered(c, r) == IF c = "late" THEN "none" ELSE r

\* _prepare's calls: goal/get, and goal/set {"status": "paused"}.
AnswerPrepare(j) ==
  /\ \/ /\ prepCall[j] = "get"
        /\ prepCall' = [prepCall EXCEPT ![j] = "ok"]
        /\ prepVal' = [prepVal EXCEPT ![j] = goal]
        /\ UNCHANGED goalVars
     \/ /\ prepCall[j] \in {"set", "late"} /\ goal # NoGoal
        /\ WriteGoal(WithStatus("paused"), [kind |-> "pause", job |-> j])
        /\ prepCall' = [prepCall EXCEPT ![j] = Answered(@, "ok")]
        /\ prepVal' = [prepVal EXCEPT ![j] = IF prepCall[j] = "late" THEN NoGoal
                                             ELSE WithStatus("paused")]
     \/ /\ \/ prepCall[j] \in {"set", "late"} /\ goal = NoGoal
           \/ prepCall[j] \in {"get", "set"} /\ Failures
        /\ prepCall' = [prepCall EXCEPT ![j] = Answered(@, "error")]
        /\ UNCHANGED <<prepVal, goalVars>>
  /\ UNCHANGED <<wakeCall, wakeVal, envVars, connected, controls>>

\* _deliver's calls: thread/read, goal/get, and goal/set {"status": "active"}.
AnswerWake(j) ==
  /\ \/ /\ wakeCall[j] \in {"read", "get"}
        /\ wakeCall' = [wakeCall EXCEPT ![j] = "ok"]
        /\ wakeVal' = [wakeVal EXCEPT ![j] =
              IF wakeCall[j] = "get" THEN goal ELSE [id |-> NoId, status |-> thread, at |-> 0]]
        /\ UNCHANGED goalVars
     \/ /\ wakeCall[j] \in {"set", "late"} /\ goal # NoGoal
        /\ WriteGoal(WithStatus("active"), [kind |-> "wake", job |-> j])
        /\ wakeCall' = [wakeCall EXCEPT ![j] = Answered(@, "ok")]
        /\ wakeVal' = [wakeVal EXCEPT ![j] = IF wakeCall[j] = "late" THEN NoGoal
                                             ELSE WithStatus("active")]
     \/ /\ \/ wakeCall[j] \in {"set", "late"} /\ goal = NoGoal
           \/ wakeCall[j] \in {"read", "get", "set"} /\ Failures
        /\ wakeCall' = [wakeCall EXCEPT ![j] = Answered(@, "error")]
        /\ UNCHANGED <<wakeVal, goalVars>>
  /\ UNCHANGED <<prepCall, prepVal, envVars, connected, controls>>

AppNext == \/ Tick \/ TurnStart \/ TurnEnd \/ OutsideChange \/ ApplyControl
           \/ \E j \in Jobs : AnswerPrepare(j) \/ AnswerWake(j)
=============================================================================
