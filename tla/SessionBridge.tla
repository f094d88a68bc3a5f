--------------------------- MODULE SessionBridge ---------------------------
(***************************************************************************)
(* Session continuation (session_bridge.py) for one thread, with the TUI    *)
(* connections of tui_proxy.py it controls the thread through, the requests *)
(* of the MCP server, and the App Server as those connections see it.       *)
(*                                                                          *)
(* A job has one task at a time: its prepare handler, then its handoff      *)
(* handler, then its delivery task.  op says what that task awaits; what    *)
(* runs between two awaits is one action.  Session methods run under the    *)
(* activity_lock of the connection they use, and so do the user's messages. *)
(***************************************************************************)
EXTENDS Naturals, Sequences

CONSTANTS Jobs,         \* start_job calls of the thread
          Peers,        \* TUI connections, one after another or side by side
          First,        \* the connection whose user started the running turn
          NoPeer,
          UserOps,      \* messages a user sends, of UserMessages
          MaxActs,      \* bound: user messages, outside Goal changes, cancellations
          MaxRestarts   \* bound: coordinator restarts

UserMessages == {"turn/start", "turn/interrupt", "goal/set", "resume"}

ASSUME SessionAssumption ==
  /\ First \in Peers /\ NoPeer \notin Peers
  /\ UserOps \subseteq UserMessages
  /\ MaxActs \in Nat /\ MaxRestarts \in Nat

VARIABLES
  turn, turnState, author,  \* App Server: latest turn, its status, who started it
  goal,        \* App Server: "eligible" (none or complete) or "pending"
  sub,         \* App Server: subscribed connections
  up, down,    \* the two directions of each connection
  goalNote,    \* a Goal notification is on its way on the bridge's own connection
  row,         \* wake_leases: state, delivery_state, handoff_state
  leasePeer,   \* lease_peers
  deadline,    \* is there a deadline task?
  op, via,     \* the job's task, and the connection it uses
  reply,       \* what its call has returned
  done,        \* the turn_done event of the job's originating turn
  peer,        \* peers: the connection that owns the thread
  ambiguous,   \* is the thread in ambiguous_threads?
  calls,       \* calls: the connection on which the job's tool call was seen
  conn, msg,   \* connections, and the user's message that waits for the lock
  mcp, job,    \* the MCP server's start_job, and the command
  callTurn,    \* the turn that called start_job
  acts, restarts,
  interrupts, wakes,  \* history: turn/interrupt and turn/start sent for a job
  receipts,    \* history: receipts injected for a job
  touched,     \* history: the user acted while its lease was pending
  quiet        \* history: nobody interfered and nothing was slow

appVars  == <<turn, turnState, author, goal, sub, goalNote>>
wires    == <<up, down>>
rowVars  == <<row, leasePeer, deadline>>
taskVars == <<op, via, reply, done>>
ownVars  == <<peer, ambiguous, calls>>
tuiVars  == <<conn, msg, acts>>
mcpVars  == <<mcp, job, callTurn>>
histVars == <<interrupts, wakes, receipts, touched>>
vars == <<appVars, wires, rowVars, taskVars, ownVars, tuiVars, mcpVars, histVars,
          restarts, quiet>>

Live    == {"armed", "terminal"}
Retired == {"delivered", "abandoned", "failed"}
PreparePCs == {"goal", "observe", "plock", "pturn", "pgoal"}
HandoffPCs == {"hlock", "hgoal", "hturn", "hint", "hdone", "hconf", "hinject"}
DeliverPCs == {"dstart", "dlock", "dgoal", "dturn", "dwake"}
\* Inside peer.exclusive: the task holds the connection's activity_lock.
MutLocked == {"pturn", "pgoal", "hgoal", "hturn", "hint", "hdone", "hconf", "hinject",
              "dlock", "dgoal", "dturn", "dwake"}
Locked == {"pturn", "pgoal", "hgoal", "hturn", "hint", "hdone", "hconf", "hinject",
           "dgoal", "dturn", "dwake"}
BridgeCalls == {"goal/get", "turns/list", "turn/interrupt", "inject_items", "turn/start"}
TurnStates == {"inProgress", "completed", "interrupted"}
Values == {"ok", "error", "other", "eligible", "pending"} \cup TurnStates
Turns == Nat \ {0}

\* What travels on a connection: requests of the user or of a job's task, and
\* replies to such tasks or events about a turn.
UserRequest(m)   == <<"user", m>>
TaskRequest(c, j) == <<c, j>>
Requests == {UserRequest(m) : m \in UserMessages}
            \cup {TaskRequest(c, j) : c \in BridgeCalls, j \in Jobs}
Events == ({"started", "completed", "tool"} \X Turns) \cup ({"item"} \X Jobs)
          \cup ({"reply"} \X Jobs \X Values)

TypeOK ==
  /\ turn \in Turns /\ turnState \in TurnStates /\ author \in Peers \cup {NoPeer}
  /\ goal \in {"eligible", "pending"} /\ sub \subseteq Peers /\ goalNote \in BOOLEAN
  /\ up \in [Peers -> Seq(Requests)] /\ down \in [Peers -> Seq(Events)]
  /\ row \in [Jobs -> [state : {"none"} \cup Live \cup Retired,
                       delivery : {"none", "pending", "waiting_for_handoff", "activating",
                                   "resumed", "abandoned", "needs_manual_recovery"},
                       handoff : {"none", "pending", "interrupting", "recording_receipt",
                                  "ready"}]]
  /\ leasePeer \in [Jobs -> Peers \cup {NoPeer}]
  /\ deadline \in [Jobs -> BOOLEAN]
  /\ op \in [Jobs -> {"none"} \cup PreparePCs \cup HandoffPCs \cup DeliverPCs]
  /\ via \in [Jobs -> Peers \cup {NoPeer}]
  /\ reply \in [Jobs -> {"none", "wait"} \cup Values]
  /\ done \in [Jobs -> BOOLEAN]
  /\ peer \in Peers \cup {NoPeer} /\ ambiguous \in BOOLEAN
  /\ calls \in [Jobs -> Peers \cup {NoPeer}]
  /\ conn \in [Peers -> {"new", "up", "down"}]
  /\ msg \in [Peers -> UserMessages \cup {"none"}]
  /\ mcp \in [Jobs -> {"idle", "prepare", "started", "handoff", "held", "abort", "over"}]
  /\ job \in [Jobs -> {"none", "running", "ended"}]
  /\ callTurn \in [Jobs -> Turns \cup {0}]
  /\ acts \in 0..MaxActs /\ restarts \in 0..MaxRestarts
  /\ interrupts \in [Jobs -> Nat] /\ wakes \in [Jobs -> Nat] /\ receipts \in [Jobs -> Nat]
  /\ touched \in [Jobs -> BOOLEAN] /\ quiet \in BOOLEAN

\* A turn the user started on the first connection is running; its turn/started
\* event has been observed.
Init ==
  /\ turn = 1 /\ turnState = "inProgress" /\ author = First
  /\ goal = "eligible" /\ sub = {First} /\ goalNote = FALSE
  /\ up = [p \in Peers |-> <<>>] /\ down = [p \in Peers |-> <<>>]
  /\ row = [j \in Jobs |-> [state |-> "none", delivery |-> "none", handoff |-> "none"]]
  /\ leasePeer = [j \in Jobs |-> NoPeer]
  /\ deadline = [j \in Jobs |-> FALSE]
  /\ op = [j \in Jobs |-> "none"] /\ via = [j \in Jobs |-> NoPeer]
  /\ reply = [j \in Jobs |-> "none"] /\ done = [j \in Jobs |-> FALSE]
  /\ peer = First /\ ambiguous = FALSE /\ calls = [j \in Jobs |-> NoPeer]
  /\ conn = [p \in Peers |-> IF p = First THEN "up" ELSE "new"]
  /\ msg = [p \in Peers |-> "none"]
  /\ mcp = [j \in Jobs |-> "idle"] /\ job = [j \in Jobs |-> "none"]
  /\ callTurn = [j \in Jobs |-> 0]
  /\ acts = 0 /\ restarts = 0
  /\ interrupts = [j \in Jobs |-> 0] /\ wakes = [j \in Jobs |-> 0]
  /\ receipts = [j \in Jobs |-> 0]
  /\ touched = [j \in Jobs |-> FALSE] /\ quiet = TRUE

-----------------------------------------------------------------------------
(* The App Server                                                          *)

\* Every subscribed connection gets the event e; connection p gets r before or
\* after it.
Publish(e) == down' = [q \in Peers |-> IF q \in sub THEN Append(down[q], e) ELSE down[q]]
PublishAndReply(e, p, r) ==
  \E first \in BOOLEAN :
    down' = [q \in Peers |->
      LET event == IF q \in sub THEN <<e>> ELSE <<>>
          answer == IF q = p /\ conn[p] = "up" THEN <<r>> ELSE <<>>
      IN down[q] \o (IF first THEN answer \o event ELSE event \o answer)]
Answer(p, j, v) ==
  down' = IF conn[p] = "up" THEN [down EXCEPT ![p] = Append(@, <<"reply", j, v>>)] ELSE down

\* A new turn starts unless one is running.
BeginTurn(who) == /\ turn' = turn + 1
                  /\ turnState' = "inProgress"
                  /\ author' = who

Latest(j) == IF turn = callTurn[j] THEN turnState ELSE "other"

ServeUser(p, m) ==
  /\ \/ /\ m = "turn/start" /\ turnState # "inProgress"
        /\ BeginTurn(p)
        /\ Publish(<<"started", turn + 1>>)
        /\ UNCHANGED <<goal, sub, goalNote>>
     \/ /\ m = "turn/interrupt" /\ turnState = "inProgress"
        /\ turnState' = "interrupted"
        /\ Publish(<<"completed", turn>>)
        /\ UNCHANGED <<turn, author, goal, sub, goalNote>>
     \/ /\ m = "goal/set"
        /\ goal' = "pending"
        /\ goalNote' = TRUE
        /\ UNCHANGED <<turn, turnState, author, sub, down>>
     \/ /\ m = "resume"
        /\ sub' = IF conn[p] = "up" THEN sub \cup {p} ELSE sub
        /\ UNCHANGED <<turn, turnState, author, goal, goalNote, down>>
     \/ /\ \/ m = "turn/start" /\ turnState = "inProgress"
           \/ m = "turn/interrupt" /\ turnState # "inProgress"
        /\ UNCHANGED <<appVars, down>>
  /\ UNCHANGED receipts

ServeTask(p, c, j) ==
  \/ /\ c = "goal/get"
     /\ Answer(p, j, goal)
     /\ UNCHANGED <<appVars, receipts>>
  \/ /\ c = "turns/list"
     /\ Answer(p, j, Latest(j))
     /\ UNCHANGED <<appVars, receipts>>
  \/ /\ c = "turn/interrupt" /\ Latest(j) = "inProgress"
     /\ turnState' = "interrupted"
     /\ PublishAndReply(<<"completed", turn>>, p, <<"reply", j, "ok">>)
     /\ UNCHANGED <<turn, author, goal, sub, goalNote, receipts>>
  \/ /\ c = "turn/start" /\ turnState # "inProgress"
     /\ BeginTurn(NoPeer)
     /\ PublishAndReply(<<"started", turn + 1>>, p, <<"reply", j, "ok">>)
     /\ UNCHANGED <<goal, sub, goalNote, receipts>>
  \/ /\ \/ c = "turn/interrupt" /\ Latest(j) # "inProgress"
        \/ c = "turn/start" /\ turnState = "inProgress"
     /\ Answer(p, j, "error")
     /\ UNCHANGED <<appVars, receipts>>
  \/ /\ c = "inject_items"
     /\ receipts' = [receipts EXCEPT ![j] = @ + 1]
     /\ Answer(p, j, "ok")
     /\ UNCHANGED appVars

\* The requests of a connection are served in order; one already written is
\* served even when its sender has gone.
Serve(p) ==
  /\ up[p] # <<>>
  /\ up' = [up EXCEPT ![p] = Tail(@)]
  /\ LET r == Head(up[p]) IN
       IF r[1] = "user" THEN ServeUser(p, r[2]) ELSE ServeTask(p, r[1], r[2])
  /\ UNCHANGED <<rowVars, taskVars, ownVars, tuiVars, mcpVars, interrupts, wakes, touched,
                 restarts, quiet>>

\* The turn ends by itself.
TurnEnds ==
  /\ turnState = "inProgress"
  /\ turnState' = "completed"
  /\ Publish(<<"completed", turn>>)
  /\ quiet' = FALSE
  /\ UNCHANGED <<turn, author, goal, sub, goalNote, up, rowVars, taskVars, ownVars, tuiVars,
                 mcpVars, histVars, restarts>>

\* The turn uses another tool.  The event changes nothing for the connection that
\* owns the thread, so it is left out when there is no other one (bound: one event
\* in flight).
OtherItem ==
  /\ turnState = "inProgress" /\ sub \ {peer} # {}
  /\ \A q \in Peers : \A i \in DOMAIN down[q] : down[q][i][1] # "tool"
  /\ Publish(<<"tool", turn>>)
  /\ UNCHANGED <<appVars, up, rowVars, taskVars, ownVars, tuiVars, mcpVars, histVars, restarts,
                 quiet>>

\* A client outside the launcher sets a Goal.
OutsideGoal ==
  /\ acts < MaxActs /\ goal = "eligible"
  /\ goal' = "pending"
  /\ goalNote' = TRUE
  /\ acts' = acts + 1
  /\ quiet' = FALSE
  /\ UNCHANGED <<turn, turnState, author, sub, wires, rowVars, taskVars, ownVars, conn, msg,
                 mcpVars, histVars, restarts>>

-----------------------------------------------------------------------------
(* Helpers of the bridge                                                   *)

\* The row that _abandon_for_manual_change retires.
Revocable(j) == row[j].state \in Live /\ row[j].delivery # "activating"

SetRow(j, s, d) == [row EXCEPT ![j].state = s, ![j].delivery = d]

\* _abandon_for_manual_change, of the thread's live lease whichever job it is.
\* Its delivery task is cancelled: see DeliverUnwind.
MutAbandoned(j) == IF Revocable(j)
                   THEN [row[j] EXCEPT !.state = "abandoned", !.delivery = "cancelled_by_user"]
                   ELSE row[j]
Abandoned(j) == IF Revocable(j)
                THEN [row[j] EXCEPT !.state = "abandoned", !.delivery = "abandoned"]
                ELSE row[j]
AbandonForManualChange ==
  /\ row' = [j \in Jobs |-> Abandoned(j)]
  /\ leasePeer' = [j \in Jobs |-> IF Revocable(j) THEN NoPeer ELSE leasePeer[j]]
  /\ deadline' = [j \in Jobs |-> deadline[j] /\ ~Revocable(j)]

UserActivity == /\ calls' = [j \in Jobs |-> NoPeer]
                /\ AbandonForManualChange

\* _session_failed.
SessionFailed(j) ==
  IF row[j].state \in Live
  THEN /\ row' = SetRow(j, "failed", "needs_manual_recovery")
       /\ leasePeer' = [leasePeer EXCEPT ![j] = NoPeer]
  ELSE UNCHANGED <<row, leasePeer>>

\* _live_session and _owner.
LiveSession(j) == row[j].state \in Live
Owned(j) == leasePeer[j] # NoPeer /\ peer = leasePeer[j] /\ ~ambiguous

LockFree(p) == \A j \in Jobs : via[j] = p => op[j] \notin Locked

\* peer.call: the task goes on to pc and waits for the reply of request c.
Call(j, pc, p, c) ==
  /\ op' = [op EXCEPT ![j] = pc]
  /\ IF conn[p] = "up"
     THEN /\ up' = [up EXCEPT ![p] = Append(@, TaskRequest(c, j))]
          /\ reply' = [reply EXCEPT ![j] = "wait"]
     ELSE /\ reply' = [reply EXCEPT ![j] = "error"]
          /\ UNCHANGED up
Replied(j) == reply[j] \notin {"none", "wait"}

\* The task awaits something else, or is over.
Goto(j, pc) == /\ op' = [op EXCEPT ![j] = pc]
               /\ reply' = [reply EXCEPT ![j] = "none"]
               /\ UNCHANGED up
Over(j) == Goto(j, "none") /\ via' = [via EXCEPT ![j] = NoPeer]

-----------------------------------------------------------------------------
(* start_job and prepare                                                   *)

\* The running turn calls start_job: the App Server announces the tool call on
\* every subscribed connection, the MCP server sends prepare.
StartJob(j) ==
  /\ mcp[j] = "idle" /\ turnState = "inProgress"
  /\ mcp' = [mcp EXCEPT ![j] = "prepare"]
  /\ callTurn' = [callTurn EXCEPT ![j] = turn]
  /\ Publish(<<"item", j>>)
  /\ Goto(j, "goal")
  /\ UNCHANGED <<appVars, rowVars, via, done, ownVars, tuiVars, job, histVars, restarts, quiet>>

\* prepare raises: the MCP server, if it still waits, goes on to abort.
Raise(j) == /\ Over(j)
            /\ mcp' = [mcp EXCEPT ![j] = IF @ = "prepare" THEN "abort" ELSE @]
            /\ UNCHANGED job

prepareFrame == <<appVars, down, done, ownVars, tuiVars, callTurn, histVars, restarts>>

\* The Goal as the bridge's own connection reads it (compared again later).
PrepareGoal(j) ==
  /\ op[j] = "goal"
  /\ IF goal = "eligible" THEN Goto(j, "observe") /\ UNCHANGED <<via, mcp, job>> ELSE Raise(j)
  /\ UNCHANGED <<prepareFrame, rowVars, quiet>>

\* The tool call has been observed on a connection, or is not within 2 s.
PrepareObserved(j) ==
  /\ op[j] = "observe"
  /\ \/ /\ calls[j] # NoPeer
        /\ via' = [via EXCEPT ![j] = calls[j]]
        /\ Goto(j, "plock")
        /\ UNCHANGED <<mcp, job, quiet>>
     \/ /\ calls[j] = NoPeer
        /\ Raise(j)
        /\ quiet' = FALSE
  /\ UNCHANGED <<prepareFrame, rowVars>>

PrepareLocked(j) ==
  /\ op[j] = "plock" /\ LockFree(via[j])
  /\ IF ~ambiguous /\ calls[j] = via[j]
     THEN Call(j, "pturn", via[j], "turns/list") /\ UNCHANGED <<via, mcp, job>>
     ELSE Raise(j)
  /\ UNCHANGED <<prepareFrame, rowVars, quiet>>

PrepareTurn(j) ==
  /\ op[j] = "pturn" /\ Replied(j)
  /\ IF reply[j] = "inProgress"
     THEN Call(j, "pgoal", via[j], "goal/get") /\ UNCHANGED <<via, mcp, job>>
     ELSE Raise(j)
  /\ UNCHANGED <<prepareFrame, rowVars, quiet>>

\* create_lease (whose unique index refuses a second live lease), armed at once;
\* the answer starts the command, unless it comes after the MCP server's 5 s.
MutThreadHasLive == \E i \in Jobs : row[i].state = "armed"
ThreadHasLive == \E i \in Jobs : row[i].state \in Live
PrepareCommit(j) ==
  /\ op[j] = "pgoal" /\ Replied(j)
  /\ IF reply[j] = "eligible" /\ ~ThreadHasLive
     THEN /\ row' = [row EXCEPT ![j] = [state |-> "armed", delivery |-> "pending",
                                        handoff |-> "pending"]]
          /\ leasePeer' = [leasePeer EXCEPT ![j] = via[j]]
          /\ deadline' = [deadline EXCEPT ![j] = TRUE]
          /\ Over(j)
          /\ \/ /\ mcp[j] = "prepare"
                /\ mcp' = [mcp EXCEPT ![j] = "started"]
                /\ job' = [job EXCEPT ![j] = "running"]
                /\ UNCHANGED quiet
             \/ /\ mcp' = [mcp EXCEPT ![j] = IF @ = "prepare" THEN "abort" ELSE @]
                /\ quiet' = FALSE
                /\ UNCHANGED job
     ELSE Raise(j) /\ UNCHANGED <<rowVars, quiet>>
  /\ UNCHANGED prepareFrame

\* The MCP server stops waiting after 5 s; the handler in the bridge goes on.
PrepareGivenUp(j) ==
  /\ mcp[j] = "prepare" /\ op[j] \in PreparePCs
  /\ mcp' = [mcp EXCEPT ![j] = "abort"]
  /\ quiet' = FALSE
  /\ UNCHANGED <<appVars, wires, rowVars, taskVars, ownVars, tuiVars, job, callTurn, histVars,
                 restarts>>

-----------------------------------------------------------------------------
(* _handoff                                                                *)

handoffFrame == <<appVars, down, ownVars, tuiVars, job, callTurn, receipts, touched, restarts>>

\* The request fails outside the try block: the lease is left to the abort.
HandoffRefused(j) == mcp' = [mcp EXCEPT ![j] = "abort"]

Handoff(j) ==
  /\ mcp[j] = "started"
  /\ IF LiveSession(j) /\ Owned(j)
     THEN /\ mcp' = [mcp EXCEPT ![j] = "handoff"]
          /\ via' = [via EXCEPT ![j] = leasePeer[j]]
          /\ Goto(j, "hlock")
     ELSE HandoffRefused(j) /\ UNCHANGED <<op, via, reply, up>>
  /\ UNCHANGED <<handoffFrame, rowVars, done, interrupts, wakes, quiet>>

\* Anything raised in transfer, its timeout included.
MutHandoffFails(j) ==
  /\ UNCHANGED <<row, leasePeer>>
  /\ Over(j)
  /\ done' = [done EXCEPT ![j] = FALSE]
  /\ mcp' = [mcp EXCEPT ![j] = IF @ = "handoff" THEN "abort" ELSE @]
  /\ UNCHANGED <<deadline, interrupts>>
HandoffFails(j) ==
  /\ SessionFailed(j)
  /\ Over(j)
  /\ done' = [done EXCEPT ![j] = FALSE]
  /\ mcp' = [mcp EXCEPT ![j] = IF @ = "handoff" THEN "abort" ELSE @]
  /\ UNCHANGED <<deadline, interrupts>>

\* A step of transfer that only calls on, or fails.
HandoffStep(j, ok, pc, c) ==
  /\ IF ok THEN Call(j, pc, via[j], c) /\ UNCHANGED <<rowVars, via, done, mcp, interrupts>>
           ELSE HandoffFails(j)
  /\ UNCHANGED <<handoffFrame, wakes, quiet>>

HandoffLocked(j) ==
  /\ op[j] = "hlock" /\ LockFree(via[j])
  /\ HandoffStep(j, LiveSession(j) /\ row[j].handoff = "pending", "hgoal", "goal/get")

HandoffGoal(j) ==
  /\ op[j] = "hgoal" /\ Replied(j)
  /\ HandoffStep(j, reply[j] = "eligible", "hturn", "turns/list")

\* The last checks and the interruption, with no await in between.
MayInterrupt(j) == reply[j] = "inProgress" /\ LiveSession(j) /\ Owned(j)
HandoffTurn(j) ==
  /\ op[j] = "hturn" /\ Replied(j)
  /\ IF MayInterrupt(j)
     THEN /\ row' = [row EXCEPT ![j].handoff = "interrupting"]
          /\ done' = [done EXCEPT ![j] = FALSE]
          /\ interrupts' = [interrupts EXCEPT ![j] = @ + 1]
          /\ Call(j, "hint", via[j], "turn/interrupt")
          /\ UNCHANGED <<leasePeer, deadline, via, mcp>>
     ELSE HandoffFails(j)
  /\ UNCHANGED <<handoffFrame, wakes, quiet>>

HandoffInterrupted(j) ==
  /\ op[j] = "hint" /\ Replied(j)
  /\ IF reply[j] = "ok"
     THEN Goto(j, "hdone") /\ UNCHANGED <<rowVars, via, done, mcp, interrupts>>
     ELSE HandoffFails(j)
  /\ UNCHANGED <<handoffFrame, wakes, quiet>>

HandoffDone(j) ==
  /\ op[j] = "hdone" /\ done[j]
  /\ HandoffStep(j, TRUE, "hconf", "turns/list")

MutMayRecord(j) == reply[j] = "interrupted"
MayRecord(j) == reply[j] = "interrupted" /\ LiveSession(j)
MutHandoffConfirm(j) ==
  /\ op[j] = "hconf" /\ Replied(j)
  /\ IF MayRecord(j)
     THEN /\ row' = [row EXCEPT ![j].handoff = "ready"]
          /\ Goto(j, IF row[j].state = "terminal" THEN "dstart" ELSE "none")
          /\ via' = [via EXCEPT ![j] = NoPeer]
          /\ mcp' = [mcp EXCEPT ![j] = "held"]
          /\ UNCHANGED <<leasePeer, deadline, done, interrupts>>
     ELSE HandoffFails(j)
  /\ UNCHANGED <<handoffFrame, wakes, quiet>>
HandoffConfirm(j) ==
  /\ op[j] = "hconf" /\ Replied(j)
  /\ IF MayRecord(j)
     THEN /\ row' = [row EXCEPT ![j].handoff = "recording_receipt"]
          /\ Call(j, "hinject", via[j], "inject_items")
          /\ UNCHANGED <<leasePeer, deadline, via, done, mcp, interrupts>>
     ELSE HandoffFails(j)
  /\ UNCHANGED <<handoffFrame, wakes, quiet>>

\* The receipt is recorded: the handoff is ready, and a job that has ended
\* meanwhile gets its delivery task.
MutAfterReceipt(j) == "none"
AfterReceipt(j) == IF row[j].state = "terminal" THEN "dstart" ELSE "none"
HandoffReceipt(j) ==
  /\ op[j] = "hinject" /\ Replied(j)
  /\ IF reply[j] = "ok" /\ LiveSession(j)
     THEN /\ row' = [row EXCEPT ![j].handoff = "ready"]
          /\ Goto(j, AfterReceipt(j))
          /\ via' = [via EXCEPT ![j] = NoPeer]
          /\ done' = [done EXCEPT ![j] = FALSE]
          /\ mcp' = [mcp EXCEPT ![j] = IF @ = "handoff" THEN "held" ELSE @]
          /\ UNCHANGED <<leasePeer, deadline, interrupts>>
     ELSE HandoffFails(j)
  /\ UNCHANGED <<handoffFrame, wakes, quiet>>

-----------------------------------------------------------------------------
(* _terminal, _abort, cancel_wakeup and the deadline                       *)

mcpFrame == <<appVars, wires, via, reply, done, ownVars, conn, msg, callTurn, histVars, restarts>>

\* The command ends.  Its report schedules the delivery once the handoff is
\* ready, or is lost; a settled lease ignores it.
TerminalDue(j) == row[j].handoff = "ready"
Terminal(j) ==
  /\ job[j] = "running"
  /\ job' = [job EXCEPT ![j] = "ended"]
  /\ \/ /\ row[j].state = "armed"
        /\ row' = SetRow(j, "terminal", "waiting_for_handoff")
        /\ op' = [op EXCEPT ![j] = IF TerminalDue(j) THEN "dstart" ELSE @]
        /\ UNCHANGED quiet
     \/ /\ row[j].state # "armed"
        /\ UNCHANGED <<row, op, quiet>>
     \/ /\ quiet' = FALSE
        /\ UNCHANGED <<row, op>>
  /\ UNCHANGED <<mcpFrame, leasePeer, deadline, mcp, acts>>

\* The MCP server aborts the registration; the request may fail.
Abort(j) ==
  /\ mcp[j] = "abort"
  /\ mcp' = [mcp EXCEPT ![j] = "over"]
  /\ \/ /\ row[j].state # "none"
        /\ AbandonForManualChange
     \/ UNCHANGED rowVars
  /\ quiet' = (quiet /\ row[j].state = "none")
  /\ UNCHANGED <<mcpFrame, op, job, acts>>

\* The cancel_wakeup tool of the MCP server.
CancelWakeup(j) ==
  /\ acts < MaxActs /\ mcp[j] \in {"started", "handoff", "held", "over"} /\ job[j] # "none"
  /\ acts' = acts + 1
  /\ IF row[j].state \in Live \cup {"abandoned"} THEN AbandonForManualChange
                                                ELSE UNCHANGED rowVars
  /\ quiet' = FALSE
  /\ UNCHANGED <<mcpFrame, op, mcp, job>>

ExpireAtDeadline(j) ==
  /\ deadline[j]
  /\ deadline' = [deadline EXCEPT ![j] = FALSE]
  /\ SessionFailed(j)
  /\ quiet' = FALSE
  /\ UNCHANGED <<mcpFrame, op, mcp, job, acts>>

-----------------------------------------------------------------------------
(* _deliver                                                                *)

deliverFrame == <<appVars, down, done, ownVars, tuiVars, mcpVars, interrupts, receipts,
                  touched, restarts, quiet>>

DeliverFails(j) == SessionFailed(j) /\ Over(j) /\ UNCHANGED deadline

DeliverStart(j) ==
  /\ op[j] = "dstart"
  /\ IF Owned(j) THEN /\ via' = [via EXCEPT ![j] = leasePeer[j]]
                      /\ Goto(j, "dlock")
                      /\ UNCHANGED rowVars
                 ELSE DeliverFails(j)
  /\ UNCHANGED <<deliverFrame, wakes>>

\* wake(), once the lock is taken.
DeliverLocked(j) ==
  /\ op[j] = "dlock" /\ LockFree(via[j])
  /\ \/ /\ LiveSession(j) /\ row[j].state = "terminal" /\ row[j].handoff = "ready"
        /\ Call(j, "dgoal", via[j], "goal/get")
        /\ UNCHANGED <<rowVars, via>>
     \/ /\ LiveSession(j) /\ ~(row[j].state = "terminal" /\ row[j].handoff = "ready")
        /\ Over(j)
        /\ UNCHANGED rowVars
     \/ /\ ~LiveSession(j)
        /\ DeliverFails(j)
  /\ UNCHANGED <<deliverFrame, wakes>>

DeliverGoal(j) ==
  /\ op[j] = "dgoal" /\ Replied(j)
  /\ IF reply[j] = "eligible"
     THEN Call(j, "dturn", via[j], "turns/list") /\ UNCHANGED <<rowVars, via>>
     ELSE DeliverFails(j)
  /\ UNCHANGED <<deliverFrame, wakes>>

\* The last checks, the commitment and turn/start, with no await in between.
MutMayWake(j) == reply[j] = "interrupted"
MayWake(j) == reply[j] = "interrupted" /\ LiveSession(j) /\ Owned(j)
DeliverTurn(j) ==
  /\ op[j] = "dturn" /\ Replied(j)
  /\ IF MayWake(j)
     THEN /\ row' = [row EXCEPT ![j].delivery = "activating"]
          /\ wakes' = [wakes EXCEPT ![j] = @ + 1]
          /\ Call(j, "dwake", via[j], "turn/start")
          /\ UNCHANGED <<leasePeer, deadline, via>>
     ELSE DeliverFails(j) /\ UNCHANGED wakes
  /\ UNCHANGED deliverFrame

\* The continuation turn has started.  The row is not looked at again.
DeliverWoken(j) ==
  /\ op[j] = "dwake" /\ Replied(j)
  /\ IF reply[j] = "ok"
     THEN /\ row' = SetRow(j, "delivered", "resumed")
          /\ leasePeer' = [leasePeer EXCEPT ![j] = NoPeer]
          /\ deadline' = [deadline EXCEPT ![j] = FALSE]
          /\ Over(j)
     ELSE DeliverFails(j)
  /\ UNCHANGED <<deliverFrame, wakes>>

\* The cancelled task of an abandoned lease unwinds, wherever it was (in some
\* versions of asyncio a call that has just been answered goes on instead, up to
\* its next check).
DeliverUnwind(j) ==
  /\ op[j] \in DeliverPCs /\ row[j].state = "abandoned"
  /\ Over(j)
  /\ UNCHANGED <<deliverFrame, rowVars, wakes>>

\* A call has waited 10 s, the turn's end 5 s, the handoff 12 s in all.  A
\* request already sent stays on its way; its late reply finds nobody.
Timeout(j) ==
  /\ reply[j] = "wait" \/ op[j] \in {"hlock", "hdone"}
  /\ \/ /\ op[j] \in HandoffPCs
        /\ HandoffFails(j)
        /\ UNCHANGED job
     \/ /\ op[j] \in DeliverPCs
        /\ DeliverFails(j)
        /\ UNCHANGED <<done, mcp, job, interrupts>>
     \/ /\ op[j] \in PreparePCs
        /\ Raise(j)
        /\ UNCHANGED <<rowVars, done, interrupts>>
  /\ quiet' = FALSE
  /\ UNCHANGED <<appVars, down, ownVars, tuiVars, callTurn, wakes, receipts, touched, restarts>>

-----------------------------------------------------------------------------
(* observe, notifications, and the user                                    *)

\* The lease of another turn, when turn t starts or the originating turn t ends.
Superseded(t) == \E j \in Jobs : row[j].state \in Live /\ callTurn[j] # t
EndedEarly(t) == \E j \in Jobs : /\ row[j].state \in Live /\ callTurn[j] = t
                                 /\ row[j].handoff \notin {"interrupting", "ready"}

Foreign(p) == peer \notin {NoPeer, p}

ObserveStarted(p, e) ==
  /\ e[1] \in {"item", "started", "tool"}
  /\ \/ /\ Foreign(p)
        /\ ambiguous' = TRUE
        /\ UserActivity
        /\ UNCHANGED peer
     \/ /\ ~Foreign(p)
        /\ peer' = IF e[1] = "tool" THEN peer ELSE p
        /\ calls' = IF e[1] = "item" THEN [calls EXCEPT ![e[2]] = p] ELSE calls
        /\ IF e[1] = "started" /\ Superseded(e[2]) THEN AbandonForManualChange
                                                   ELSE UNCHANGED rowVars
        /\ UNCHANGED ambiguous
  /\ UNCHANGED <<reply, done>>

\* turn_done holds an event only while the handoff waits for the interruption.
ObserveCompleted(e) ==
  /\ e[1] = "completed"
  /\ done' = [j \in Jobs |-> \/ done[j]
                             \/ /\ callTurn[j] = e[2]
                                /\ op[j] \in {"hint", "hdone", "hconf", "hinject"}]
  /\ IF EndedEarly(e[2]) THEN AbandonForManualChange ELSE UNCHANGED rowVars
  /\ calls' = [j \in Jobs |-> IF callTurn[j] = e[2] THEN NoPeer ELSE calls[j]]
  /\ UNCHANGED <<reply, peer, ambiguous>>

\* A reply goes to the call that waits for it; a late one is dropped.
ObserveReply(e) ==
  /\ e[1] = "reply"
  /\ reply' = [reply EXCEPT ![e[2]] = IF @ = "wait" THEN e[3] ELSE @]
  /\ UNCHANGED <<done, rowVars, ownVars>>

Observe(p) ==
  /\ down[p] # <<>>
  /\ down' = [down EXCEPT ![p] = Tail(@)]
  /\ LET e == Head(down[p]) IN ObserveStarted(p, e) \/ ObserveCompleted(e) \/ ObserveReply(e)
  /\ UNCHANGED <<appVars, up, op, via, tuiVars, mcpVars, histVars, restarts, quiet>>

\* _on_notification: the Goal is no longer the one the lease was made for.
OnGoalNote ==
  /\ goalNote
  /\ goalNote' = FALSE
  /\ AbandonForManualChange
  /\ UNCHANGED <<turn, turnState, author, goal, sub, wires, taskVars, ownVars, tuiVars,
                 mcpVars, histVars, restarts, quiet>>

\* The user does something in a TUI: the message waits for the activity_lock.
UserMessage(p, m) ==
  /\ conn[p] = "up" /\ msg[p] = "none" /\ acts < MaxActs
  /\ m = "resume" \/ p \in sub
  /\ msg' = [msg EXCEPT ![p] = m]
  /\ acts' = acts + 1
  /\ quiet' = FALSE
  /\ UNCHANGED <<appVars, wires, rowVars, taskVars, ownVars, conn, mcpVars, histVars, restarts>>

\* client_to_upstream, under the lock.
Forwardable(p) == msg[p] # "none" /\ LockFree(p)
ForwardMessage(p) ==
  /\ Forwardable(p)
  /\ UserActivity
  /\ touched' = [j \in Jobs |-> touched[j] \/ Revocable(j)]
  /\ up' = [up EXCEPT ![p] = Append(@, UserRequest(msg[p]))]
  /\ msg' = [msg EXCEPT ![p] = "none"]
  /\ UNCHANGED <<appVars, down, taskVars, peer, ambiguous, conn, acts, mcpVars, interrupts,
                 wakes, receipts, restarts, quiet>>

\* A TUI connects, or its connection ends.
Connect(p) ==
  /\ conn[p] = "new"
  /\ conn' = [conn EXCEPT ![p] = "up"]
  /\ UNCHANGED <<appVars, wires, rowVars, taskVars, ownVars, msg, acts, mcpVars, histVars,
                 restarts, quiet>>

\* disconnected(peer), then every call that waits on the connection fails.
Concerned(p) == peer = p \/ \E j \in Jobs : leasePeer[j] = p
Disconnect(p) ==
  /\ conn[p] = "up"
  /\ conn' = [conn EXCEPT ![p] = "down"]
  /\ IF Concerned(p)
     THEN /\ calls' = [j \in Jobs |-> NoPeer]
          /\ row' = [j \in Jobs |-> Abandoned(j)]
          /\ leasePeer' = [j \in Jobs |-> IF Revocable(j) \/ leasePeer[j] = p THEN NoPeer
                                                                           ELSE leasePeer[j]]
          /\ deadline' = [j \in Jobs |-> deadline[j] /\ ~Revocable(j)]
          /\ touched' = [j \in Jobs |-> touched[j] \/ Revocable(j)]
     ELSE /\ calls' = [j \in Jobs |-> IF calls[j] = p THEN NoPeer ELSE calls[j]]
          /\ UNCHANGED <<rowVars, touched>>
  /\ peer' = IF peer = p THEN NoPeer ELSE peer
  /\ ambiguous' = (ambiguous /\ peer # p)
  /\ reply' = [j \in Jobs |-> IF via[j] = p /\ reply[j] = "wait" THEN "error" ELSE reply[j]]
  /\ msg' = [msg EXCEPT ![p] = "none"]
  /\ down' = [down EXCEPT ![p] = <<>>]
  /\ sub' = sub \ {p}
  /\ quiet' = FALSE
  /\ UNCHANGED <<turn, turnState, author, goal, goalNote, up, op, via, done, acts, mcpVars,
                 interrupts, wakes, receipts, restarts>>

\* The coordinator ends, and with it every TUI connection and the MCP server, and a
\* new one recovers the lease table: what SessionBridge.start() does when somebody
\* runs it again on the same database.  The launcher does not; it ends the session
\* (launcher.py:244-257), and nothing is claimed of the leases of a coordinator that
\* stays away.
MutRecovered(j) == row[j]
Recovered(j) == IF row[j].state \in Live
                THEN [row[j] EXCEPT !.state = "failed", !.delivery = "needs_manual_recovery"]
                ELSE row[j]
Restart ==
  /\ restarts < MaxRestarts
  /\ restarts' = restarts + 1
  /\ row' = [j \in Jobs |-> Recovered(j)]
  /\ leasePeer' = [j \in Jobs |-> NoPeer] /\ deadline' = [j \in Jobs |-> FALSE]
  /\ op' = [j \in Jobs |-> "none"] /\ via' = [j \in Jobs |-> NoPeer]
  /\ reply' = [j \in Jobs |-> "none"] /\ done' = [j \in Jobs |-> FALSE]
  /\ peer' = NoPeer /\ ambiguous' = FALSE /\ calls' = [j \in Jobs |-> NoPeer]
  /\ conn' = [p \in Peers |-> IF conn[p] = "up" THEN "down" ELSE conn[p]]
  /\ msg' = [p \in Peers |-> "none"]
  /\ down' = [p \in Peers |-> <<>>] /\ sub' = {} /\ goalNote' = FALSE
  /\ mcp' = [j \in Jobs |-> IF mcp[j] = "idle" THEN "idle" ELSE "over"]
  /\ job' = [j \in Jobs |-> IF job[j] = "running" THEN "ended" ELSE job[j]]
  /\ quiet' = FALSE
  /\ UNCHANGED <<turn, turnState, author, goal, up, acts, callTurn, histVars>>

-----------------------------------------------------------------------------
TaskStep(j) ==
  \/ PrepareGoal(j) \/ PrepareObserved(j) \/ PrepareTurn(j) \/ PrepareCommit(j)
  \/ HandoffGoal(j) \/ HandoffTurn(j) \/ HandoffInterrupted(j) \/ HandoffDone(j)
  \/ HandoffConfirm(j) \/ HandoffReceipt(j)
  \/ DeliverStart(j) \/ DeliverGoal(j) \/ DeliverTurn(j) \/ DeliverWoken(j)
  \/ DeliverUnwind(j)
LockStep(j) == PrepareLocked(j) \/ HandoffLocked(j) \/ DeliverLocked(j)

Next ==
  \/ TurnEnds \/ OtherItem \/ OutsideGoal \/ OnGoalNote \/ Restart
  \/ \E p \in Peers :
       \/ Serve(p) \/ Observe(p) \/ ForwardMessage(p) \/ Connect(p) \/ Disconnect(p)
       \/ \E m \in UserOps : UserMessage(p, m)
  \/ \E j \in Jobs :
       \/ StartJob(j) \/ TaskStep(j) \/ LockStep(j) \/ PrepareGivenUp(j) \/ Handoff(j)
       \/ Terminal(j) \/ Abort(j) \/ CancelWakeup(j) \/ ExpireAtDeadline(j) \/ Timeout(j)

Spec == Init /\ [][Next]_vars

\* The event loop runs what is ready, asyncio.Lock serves its waiters in order,
\* timers fire; the App Server serves what it is sent.  A timeout is a promise
\* only once something has interfered: nothing undisturbed may rely on it.
DueTimeout(j)  == ~quiet /\ Timeout(j)
DueDeadline(j) == ~quiet /\ ExpireAtDeadline(j)
Fairness ==
  /\ \A p \in Peers : WF_vars(Serve(p)) /\ WF_vars(Observe(p)) /\ SF_vars(ForwardMessage(p))
  /\ \A j \in Jobs :
       /\ WF_vars(TaskStep(j)) /\ SF_vars(LockStep(j)) /\ WF_vars(DueTimeout(j))
       /\ WF_vars(Handoff(j)) /\ WF_vars(Terminal(j)) /\ WF_vars(DueDeadline(j))

FairSpec == Spec /\ Fairness

-----------------------------------------------------------------------------
(* Properties                                                              *)

\* At most one session lease of the thread is live (bridge_state.py:59-61).
OneLiveLease == \A i, j \in Jobs : row[i].state \in Live /\ row[j].state \in Live => i = j

\* Once the user has acted on the thread while a wake was pending, on whichever
\* connection and whatever its handoff or delivery was doing, the lease is over
\* and no continuation turn is ever requested for it ("New input, steering,
\* interruption, thread switching, and disconnecting the owning TUI cancel its
\* pending session wake", docs/SESSION_WAKEUP.md:65-66).
UserActivityRevokes ==
  \A j \in Jobs : touched[j] => row[j].state = "abandoned" /\ wakes[j] = 0

\* The originating turn is interrupted at most once, the continuation turn is
\* requested at most once, and only when exactly one receipt has been recorded:
\* lost replies, timeouts and restarts repeat none of the three.
OneWakeAfterReceipt ==
  \A j \in Jobs : /\ interrupts[j] <= 1 /\ receipts[j] <= interrupts[j]
                  /\ wakes[j] <= receipts[j]

\* A live lease always has someone to end it: its deadline task; the handoff
\* handler while the turn is being interrupted and the receipt recorded; the
\* delivery task once the job has ended and the handoff is ready.  A released
\* lease holds no connection.
LeaseHasDriver ==
  \A j \in Jobs :
    /\ row[j].state \in Live => deadline[j]
    /\ Revocable(j) => leasePeer[j] # NoPeer
    /\ row[j].state \in Live /\ row[j].handoff \in {"interrupting", "recording_receipt"}
         => op[j] \in HandoffPCs
    /\ row[j].state = "terminal" /\ row[j].handoff = "ready" => op[j] \in DeliverPCs
    /\ row[j].state \in Retired => leasePeer[j] = NoPeer

\* A lease that is over stays as it is, with one exception: a lease whose
\* deadline passed while turn/start was in flight is recorded as delivered when
\* the turn's start is confirmed after all.
RetiredStaysRetired ==
  [][\A j \in Jobs : row[j].state \in Retired =>
       \/ row'[j] = row[j] /\ wakes'[j] = wakes[j]
       \/ row[j].state = "failed" /\ row'[j].state = "delivered" /\ op[j] = "dwake"]_vars

\* Every live lease is eventually settled, by the coordinator as long as it runs or
\* by the recovery of the next one on its database (session_bridge.py:315-361,
\* 381-397).
LeaseSettles == \A j \in Jobs : row[j].state \in Live ~> row[j].state \in Retired

\* A user's message does not wait for the activity_lock for ever.
MessageForwarded == \A p \in Peers : msg[p] # "none" ~> msg[p] = "none"

\* If nobody interferes and nothing is too slow, every registered job ends with
\* its continuation turn, whether it ends before, during or after the handoff
\* and in whatever order events and replies arrive: the bridge's own interrupt,
\* receipt and turn never cancel its wake.
QuietSessionWakes ==
  \A j \in Jobs : row[j].state = "armed" ~> row[j].state = "delivered" \/ ~quiet

=============================================================================
