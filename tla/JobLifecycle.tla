---------------------------- MODULE JobLifecycle ----------------------------
(***************************************************************************)
(* Jobs from start_job or run_and_wait to their terminal record (server.py),*)
(* their supervisor and their command (job_exec.py), run by several MCP     *)
(* server processes that share the job directory.                           *)
(*                                                                          *)
(* Every server runs one event loop, so what it does between two awaits is  *)
(* one step among its own tasks.  Other servers are only excluded by        *)
(* flock, which the job's own task does not take for most of its writes:    *)
(* the read and the write of another server's locked update are therefore   *)
(* two steps.                                                               *)
(***************************************************************************)
EXTENDS Naturals, FiniteSets

CONSTANTS Jobs,
          Waits,      \* jobs run by run_and_wait; the others by start_job
          Unsure,     \* bound: jobs whose request may fail to validate at first
          Servers,    \* MCP server processes (a restarted one is another one)
          NoServer,
          MaxActive,  \* MAX_ACTIVE_JOBS
          MaxCalls    \* bound: cancel_job, get_job, cancelled requests, closed clients

ASSUME LifecycleAssumption == /\ Waits \subseteq Jobs /\ IsFiniteSet(Jobs)   \* 128-bit ids
                              /\ NoServer \notin Servers
                              /\ MaxActive \in Nat /\ MaxCalls \in Nat

VARIABLES
  server,  \* each server's life
  owner,   \* the server that runs the job
  reserved,\* history: the job's place under the limit was reserved
  meta,    \* the job's metadata file: state, cancel_requested_at_utc?, pids known?
  call,    \* who is inside the lock: at what, and the record it has read
  todo,    \* the records that a starting server has still to look at
  pc,      \* the await at which the job's task is
  stop,    \* why _terminate_process was called
  cancel,  \* task.cancel() (or the request's cancellation) not delivered yet
  sup,     \* the supervisor process
  term,    \* has the supervisor got SIGTERM?
  cmd,     \* the command's process group; "left": only descendants of its leader
  told,    \* has the bridge been told of the job's end?
  calls    \* calls made so far

recVars == <<meta, call, todo>>
taskVars == <<pc, stop, cancel, told>>
procVars == <<sup, term, cmd>>
vars == <<server, owner, reserved, recVars, taskVars, procVars, calls>>

\* "finished" stands for what the command itself decides (succeeded, failed,
\* success_condition_not_met), "timed_out" for both limits.
ActiveStates == {"queued", "starting", "running"}
TerminalStates == {"finished", "timed_out", "spawn_error", "cancelled", "orphaned_recovered"}
Meta == [state : {"absent"} \cup ActiveStates \cup TerminalStates, cancel : BOOLEAN, pids : BOOLEAN]
NoMeta == [state |-> "absent", cancel |-> FALSE, pids |-> FALSE]

\* "boot": between two records of the recovery; "group", "both": it has dealt with
\* the command's group, and with the supervisor, of the record it has read.
Ops  == {"none", "cancel", "status", "boot", "group", "both"}
Call == [by : Servers \cup {NoServer}, job : Jobs \cup {NoServer}, op : Ops, read : Meta]
NoCall == [by |-> NoServer, job |-> NoServer, op |-> "none", read |-> NoMeta]

TaskPCs == {"register", "begin", "spawn", "pgid", "run", "stop", "drain", "drained", "report"}

\* "closing": its client is gone; "ending": asyncio.run has cancelled its tasks.
ServerStates == {"new", "boot", "up", "closing", "ending", "down"}

\* "armed": PR_SET_PDEATHSIG is set; "killed": by SIGKILL from its own server, the
\* last resort of _terminate_process or asyncio's way to give up a spawn.
SupStates == {"none", "boot", "armed", "up", "dead", "killed"}

TypeOK ==
  /\ server \in [Servers -> ServerStates]
  /\ owner \in [Jobs -> Servers \cup {NoServer}]
  /\ reserved \in [Jobs -> BOOLEAN]
  /\ meta \in [Jobs -> Meta]
  /\ call \in Call
  /\ todo \subseteq Jobs
  /\ pc \in [Jobs -> {"none", "done", "gone"} \cup TaskPCs]
  /\ stop \in [Jobs -> {"none", "limit", "cancel", "early", "error"}]
  /\ cancel \in [Jobs -> BOOLEAN]
  /\ sup \in [Jobs -> SupStates]
  /\ term \in [Jobs -> BOOLEAN]
  /\ cmd \in [Jobs -> {"none", "up", "left", "dead"}]
  /\ told \in [Jobs -> BOOLEAN]
  /\ calls \in 0..MaxCalls

Init ==
  /\ server = [s \in Servers |-> "new"]
  /\ owner = [j \in Jobs |-> NoServer]
  /\ reserved = [j \in Jobs |-> FALSE]
  /\ meta = [j \in Jobs |-> NoMeta]
  /\ call = NoCall
  /\ todo = {}
  /\ pc = [j \in Jobs |-> "none"]
  /\ stop = [j \in Jobs |-> "none"]
  /\ cancel = [j \in Jobs |-> FALSE]
  /\ sup = [j \in Jobs |-> "none"]
  /\ term = [j \in Jobs |-> FALSE]
  /\ cmd = [j \in Jobs |-> "none"]
  /\ told = [j \in Jobs |-> FALSE]
  /\ calls = 0

-----------------------------------------------------------------------------
(* Helpers                                                                 *)

\* The process is there and its event loop runs.
IsUp(s) == s # NoServer /\ server[s] \in {"up", "closing", "ending"}

\* flock is free; a server inside a locked update does nothing else.
Unlocked == call = NoCall
Ready(s) == IsUp(s) /\ call.by # s
Serves(s) == Ready(s) /\ server[s] = "up"

\* The job's task is at this await, its server gets to run it, and no
\* cancellation is to be delivered first.
At(j, l) == pc[j] = l /\ Ready(owner[j]) /\ ~cancel[j]

\* Records that count against the limit: the owner is alive.
Counted(j) == meta[j].state \in ActiveStates /\ IsUp(owner[j])
ActiveJobs == {j \in Jobs : Counted(j)}

\* A whole new record, or a new state in the record as it is.
Record(j, s, pids) == meta' = [meta EXCEPT ![j] = [state |-> s, cancel |-> FALSE, pids |-> pids]]
SetState(j, s) == meta' = [meta EXCEPT ![j].state = s]

Goto(j, l) == pc' = [pc EXCEPT ![j] = l]

\* _execute_job has ended, and its local variables with it.  When it returns,
\* start_job's task goes on to tell the bridge; a job that did not validate at first
\* has no registration.
Leave(j, l) == Goto(j, l) /\ stop' = [stop EXCEPT ![j] = "none"]
Return(j) == Leave(j, IF j \in Waits \/ ~reserved[j] THEN "done" ELSE "report")

\* SIGTERM for the supervisor, if it is still there; SIGKILL from its server.
SupLive(j) == sup[j] \in {"boot", "armed", "up"}
Terminate(j) == term' = [term EXCEPT ![j] = @ \/ SupLive(j)]
Kill(j) == sup' = [sup EXCEPT ![j] = IF SupLive(j) THEN "killed" ELSE @]

-----------------------------------------------------------------------------
(* Servers                                                                 *)

\* A record left behind by a server that is gone; its supervisor and group are
\* known only once the pids are in the record.
MutOrphan(j) == meta[j].state \in ActiveStates
Orphan(j) == meta[j].state \in ActiveStates /\ ~IsUp(owner[j])
MutGroupFound(j) == meta[j].pids /\ cmd[j] = "up"
GroupFound(j) == meta[j].pids /\ (cmd[j] = "up" \/ (cmd[j] = "left" /\ sup[j] = "up"))

bootFrame == <<owner, reserved, taskVars, term, calls>>

\* A server starts: it takes the lock and lists the records.
Boot(s) ==
  /\ server[s] = "new" /\ Unlocked
  /\ server' = [server EXCEPT ![s] = "boot"]
  /\ call' = [NoCall EXCEPT !.by = s, !.op = "boot"]
  /\ todo' = {j \in Jobs : meta[j].state # "absent"}
  /\ UNCHANGED <<bootFrame, meta, sup, cmd>>

\* _recover_orphaned_jobs_locked passes over the next record, or reads it and kills
\* the command's group; the other processes go on meanwhile.
RecoverGroup(j) ==
  /\ call.op = "boot" /\ j \in todo
  /\ todo' = todo \ {j}
  /\ \/ ~Orphan(j) /\ UNCHANGED <<call, cmd>>
     \/ /\ Orphan(j)
        /\ call' = [call EXCEPT !.op = "group", !.job = j, !.read = meta[j]]
        /\ cmd' = IF GroupFound(j) THEN [cmd EXCEPT ![j] = "dead"] ELSE cmd
  /\ UNCHANGED <<bootFrame, server, meta, sup>>

\* Then it kills the supervisor that the record names, if it is still there.
RecoverSupervisor ==
  /\ call.op = "group"
  /\ call' = [call EXCEPT !.op = "both"]
  /\ sup' = IF call.read.pids /\ sup[call.job] = "up" THEN [sup EXCEPT ![call.job] = "dead"] ELSE sup
  /\ UNCHANGED <<bootFrame, server, meta, todo, cmd>>

\* Then it writes the record it has read, with its new state.
RecoverWrite ==
  /\ call.op = "both"
  /\ meta' = [meta EXCEPT ![call.job] = [call.read EXCEPT !.state = "orphaned_recovered"]]
  /\ call' = [NoCall EXCEPT !.by = call.by, !.op = "boot"]
  /\ UNCHANGED <<bootFrame, server, todo, sup, cmd>>

\* The recovery is over: the server releases the lock and serves its client.
Booted ==
  /\ call.op = "boot" /\ todo = {}
  /\ server' = [server EXCEPT ![call.by] = "up"]
  /\ call' = NoCall
  /\ UNCHANGED <<bootFrame, meta, todo, sup, cmd>>

\* Is the job awaited by a request of its client (in no shielded handler)?
InRequest(j) == \/ pc[j] = "register"
                \/ /\ j \in Waits
                   /\ pc[j] \in {"spawn", "pgid", "run", "stop", "drain", "drained"}
                   /\ stop[j] \notin {"cancel", "early"}

\* The tasks of a server that requests wait for, and the background tasks.
TasksOf(s) == {j \in Jobs : owner[j] = s /\ pc[j] \in TaskPCs}
Requests(s) == {j \in TasksOf(s) : j \in Waits \/ pc[j] = "register"}

\* The client closes the server's stdin: the requests in progress are cancelled, or
\* left to end, as the MCP library has it.  (A server without tasks ends at once, and
\* run_and_wait does not await before "spawn".)
Close(s) ==
  /\ Serves(s) /\ TasksOf(s) # {} /\ calls < MaxCalls
  /\ \A j \in Requests(s) : pc[j] # "begin"
  /\ calls' = calls + 1
  /\ server' = [server EXCEPT ![s] = "closing"]
  /\ \/ UNCHANGED cancel
     \/ cancel' = [j \in Jobs |-> cancel[j] \/ (j \in Requests(s) /\ InRequest(j))]
  /\ UNCHANGED <<owner, reserved, recVars, pc, stop, told, procVars>>

\* With no request left, asyncio.run cancels the background tasks, once; it ends
\* (Die) when they are over.
CancelTasks(s) ==
  /\ Ready(s) /\ server[s] = "closing" /\ Requests(s) = {}
  /\ server' = [server EXCEPT ![s] = "ending"]
  /\ cancel' = [j \in Jobs |-> cancel[j] \/ j \in TasksOf(s)]
  /\ UNCHANGED <<owner, reserved, recVars, pc, stop, told, procVars, calls>>

\* A server exits or is killed, also while it starts: its tasks are gone, the kernel
\* releases its lock and sends SIGTERM to the supervisors that have asked for it.
ParentDeath(s, j) == owner[j] = s /\ sup[j] \in {"armed", "up"}
Die(s) ==
  /\ server[s] \notin {"new", "down"}
  /\ server' = [server EXCEPT ![s] = "down"]
  /\ pc' = [j \in Jobs |-> IF owner[j] = s /\ pc[j] \in TaskPCs THEN "gone" ELSE pc[j]]
  /\ stop' = [j \in Jobs |-> IF owner[j] = s THEN "none" ELSE stop[j]]
  /\ cancel' = [j \in Jobs |-> cancel[j] /\ owner[j] # s]
  /\ term' = [j \in Jobs |-> term[j] \/ ParentDeath(s, j)]
  /\ call' = IF call.by = s THEN NoCall ELSE call
  /\ todo' = IF call.by = s THEN {} ELSE todo
  /\ UNCHANGED <<owner, reserved, meta, told, sup, cmd, calls>>

-----------------------------------------------------------------------------
(* start_job and run_and_wait up to _execute_job                           *)

\* _reserve_job, which refuses a job over the limit.
MutBelowLimit == Cardinality({j \in ActiveJobs : meta[j].state = "running"}) < MaxActive
BelowLimit == Cardinality(ActiveJobs) < MaxActive
Reserve(s, j) ==
  /\ pc[j] = "none" /\ Serves(s) /\ Unlocked /\ BelowLimit
  /\ Record(j, "queued", FALSE)
  /\ owner' = [owner EXCEPT ![j] = s]
  /\ reserved' = [reserved EXCEPT ![j] = TRUE]
  /\ Goto(j, IF j \in Waits THEN "begin" ELSE "register")
  /\ UNCHANGED <<server, call, todo, stop, cancel, told, procVars, calls>>

\* A request that does not validate goes on without a reservation, a record or a
\* registration, to be validated again in _execute_job.
GoUnreserved(s, j) ==
  /\ pc[j] = "none" /\ Serves(s) /\ j \in Unsure
  /\ owner' = [owner EXCEPT ![j] = s]
  /\ Goto(j, "begin")
  /\ UNCHANGED <<server, reserved, recVars, stop, cancel, told, procVars, calls>>

\* The bridge has answered prepare (or was not asked): the job gets its task.
Registered(j) ==
  /\ At(j, "register") /\ Unlocked
  /\ Goto(j, "begin")
  /\ UNCHANGED <<server, owner, reserved, recVars, stop, cancel, told, procVars, calls>>

\* The registration failed or its answer was lost; the lease has been aborted, as
\* well as that could be done, and the job ends before it starts.
RegistrationFails(j) ==
  /\ At(j, "register") /\ Unlocked
  /\ SetState(j, "spawn_error")
  /\ Goto(j, "done")
  /\ UNCHANGED <<server, owner, reserved, call, todo, stop, cancel, told, procVars, calls>>

\* The client cancels the request: start_job's await of the bridge, or run_and_wait's
\* own await.
RequestCancelled(j) ==
  /\ Serves(owner[j]) /\ InRequest(j) /\ calls < MaxCalls
  /\ calls' = calls + 1
  /\ cancel' = [cancel EXCEPT ![j] = TRUE]
  /\ UNCHANGED <<server, owner, reserved, recVars, pc, stop, told, procVars>>

-----------------------------------------------------------------------------
(* _execute_job.  All its writes but the last are made without the lock.   *)

taskFrame == <<server, owner, reserved, call, todo, told, calls>>

\* Up to the await of create_subprocess_exec, in which the supervisor has been
\* forked.  Validation, the one-time secret or the fork may fail; a pipe that
\* cannot be made is an exception that nobody catches for run_and_wait.
Begin(j) ==
  /\ At(j, "begin")
  /\ \/ /\ Record(j, "starting", FALSE) /\ Goto(j, "spawn")
        /\ sup' = [sup EXCEPT ![j] = "boot"]
        /\ UNCHANGED stop
     \/ Record(j, "spawn_error", FALSE) /\ Return(j) /\ UNCHANGED sup
     \/ j \in Waits /\ Record(j, "starting", FALSE) /\ Leave(j, "done") /\ UNCHANGED sup
  /\ UNCHANGED <<taskFrame, cancel, term, cmd>>

\* The await returns; or the pipes cannot be connected, and asyncio closes the
\* transport, which kills the supervisor (alone, whatever it has forked).
Spawned(j) ==
  /\ At(j, "spawn")
  /\ \/ Goto(j, "pgid") /\ UNCHANGED <<meta, stop, sup>>
     \/ Record(j, "spawn_error", FALSE) /\ Return(j) /\ Kill(j)
  /\ UNCHANGED <<taskFrame, cancel, term, cmd>>

\* The command's process group is known: the job is running.
ReadCommandPgid(j) ==
  /\ At(j, "pgid") /\ cmd[j] # "none"
  /\ Record(j, "running", TRUE)
  /\ Goto(j, "run")
  /\ UNCHANGED <<taskFrame, stop, cancel, procVars>>

\* _terminate_process has been called, for a reason.
Stopping(j, why) == /\ Terminate(j)
                    /\ stop' = [stop EXCEPT ![j] = why]
                    /\ Goto(j, "stop")

\* No (valid) process group within two seconds, or a limit of _wait_with_limits
\* (an exit that the loop has not noticed yet does not prevent it).
MutGivesUp(j) ==
  /\ At(j, "pgid") /\ Stopping(j, "error")
  /\ UNCHANGED <<taskFrame, meta, cancel, sup, cmd>>
GivesUp(j) ==
  /\ \/ At(j, "pgid") /\ Stopping(j, "error")
     \/ At(j, "run") /\ Stopping(j, "limit")
  /\ UNCHANGED <<taskFrame, meta, cancel, sup, cmd>>

\* The cancellation reaches the task where a handler ends the command.
TaskCancelled(j) ==
  /\ cancel[j] /\ Ready(owner[j])
  /\ pc[j] \in {"pgid", "run"} \/ (pc[j] = "stop" /\ stop[j] = "limit")
  /\ cancel' = [cancel EXCEPT ![j] = FALSE]
  /\ Stopping(j, IF pc[j] = "pgid" THEN "early" ELSE "cancel")
  /\ UNCHANGED <<taskFrame, meta, sup, cmd>>

\* The cancellation reaches it where none does, or a second one reaches the
\* handler (anyio's shield does not hold back task.cancel()): no record is
\* written, and the bridge, asked about an unfinished job, is not told.  During the
\* spawn asyncio closes the transport, which kills the supervisor alone.
CancelEscapes(j) ==
  /\ cancel[j] /\ Ready(owner[j])
  /\ \/ pc[j] \in {"register", "begin", "spawn", "report"}
     \/ pc[j] = "stop" /\ stop[j] # "limit"
  /\ cancel' = [cancel EXCEPT ![j] = FALSE]
  /\ IF pc[j] = "spawn" THEN Kill(j) ELSE UNCHANGED sup
  /\ Leave(j, "done")
  /\ UNCHANGED <<taskFrame, meta, term, cmd>>

\* The cancellation of the await of the reader cancels the reader: the handler
\* has nothing left to wait for.
DrainCancelled(j) ==
  /\ cancel[j] /\ Ready(owner[j]) /\ pc[j] \in {"drain", "drained"}
  /\ cancel' = [cancel EXCEPT ![j] = FALSE]
  /\ Record(j, "cancelled", TRUE)
  /\ Return(j)
  /\ UNCHANGED <<taskFrame, procVars>>

\* The grace period and two more seconds are over: the supervisor alone is killed.
KillSupervisor(j) ==
  /\ At(j, "stop") /\ SupLive(j)
  /\ Kill(j)
  /\ UNCHANGED <<taskFrame, meta, pc, stop, cancel, term, cmd>>

Ended(j) == sup[j] \in {"dead", "killed"}

\* The process has ended; its output may not have.
AwaitReader(j) ==
  /\ At(j, "run") \/ (At(j, "stop") /\ stop[j] \in {"limit", "cancel"})
  /\ Ended(j)
  /\ Goto(j, "drain")
  /\ UNCHANGED <<taskFrame, meta, stop, cancel, procVars>>

\* A start that failed or was cancelled, once its supervisor is gone.
MutStopped(j) == At(j, "stop") /\ stop[j] \in {"early", "error"}
Stopped(j) == At(j, "stop") /\ stop[j] \in {"early", "error"} /\ Ended(j)

\* The job ends without a result: a failed or cancelled start, a cancellation,
\* or a failure while the output was read.
WriteStopped(j) ==
  /\ \/ Stopped(j) /\ Record(j, IF stop[j] = "early" THEN "cancelled" ELSE "spawn_error", FALSE)
     \/ At(j, "drained") /\ stop[j] = "cancel" /\ Record(j, "cancelled", TRUE)
     \/ At(j, "drained") /\ stop[j] # "cancel" /\ Record(j, "spawn_error", FALSE)
  /\ Return(j)
  /\ UNCHANGED <<taskFrame, cancel, procVars>>

\* The output has ended too: the result is committed under the lock, as a
\* cancellation if one is recorded.
MutResultState(j) == IF meta[j].cancel THEN "cancelling"
                     ELSE IF stop[j] = "limit" THEN "timed_out" ELSE "finished"
ResultState(j) == IF meta[j].cancel THEN "cancelled"
                  ELSE IF stop[j] = "limit" THEN "timed_out" ELSE "finished"
Commit(j) ==
  /\ At(j, "drained") /\ stop[j] # "cancel" /\ Unlocked
  /\ SetState(j, ResultState(j))
  /\ Return(j)
  /\ UNCHANGED <<taskFrame, cancel, procVars>>

\* _deliver_terminal_wakeup: the bridge is told what the record says now.
Report(j) ==
  /\ At(j, "report") /\ Unlocked
  /\ told' = [told EXCEPT ![j] = meta[j].state \in TerminalStates]
  /\ Goto(j, "done")
  /\ UNCHANGED <<server, owner, reserved, recVars, stop, cancel, procVars, calls>>

-----------------------------------------------------------------------------
(* cancel_job, and get_job's update of the wake fields: any server, any job *)

\* A server takes the lock and reads the record.
ReadRecord(s, j, op) ==
  /\ Serves(s) /\ Unlocked /\ calls < MaxCalls
  /\ call' = [by |-> s, job |-> j, op |-> op, read |-> meta[j]]
  /\ calls' = calls + 1
  /\ UNCHANGED <<server, owner, reserved, meta, todo, taskVars, procVars>>

CancelRead(s, j) ==
  /\ meta[j].state \notin TerminalStates \cup {"absent"}
  /\ ReadRecord(s, j, "cancel")

\* run_and_wait's jobs have no wake fields.
StatusRead(s, j) ==
  /\ j \notin Waits /\ meta[j].state # "absent"
  /\ ReadRecord(s, j, "status")

\* Is there a background task to cancel in this server?
HasTask(s, j) == owner[j] = s /\ j \notin Waits /\ pc[j] \in TaskPCs \ {"register"}

\* The record read is written back, with the request for cancellation; then the
\* local task is cancelled, or the supervisor named by the record terminated.
CancelWrite ==
  /\ call.op = "cancel"
  /\ LET j == call.job IN
     /\ meta' = [meta EXCEPT ![j] = [call.read EXCEPT !.cancel = TRUE]]
     /\ \/ /\ HasTask(call.by, j)
           /\ cancel' = [cancel EXCEPT ![j] = TRUE]
           /\ UNCHANGED term
        \/ /\ ~HasTask(call.by, j)
           /\ IF call.read.pids THEN Terminate(j) ELSE UNCHANGED term
           /\ UNCHANGED cancel
  /\ call' = NoCall
  /\ UNCHANGED <<server, owner, reserved, todo, pc, stop, told, sup, cmd, calls>>

\* The record read is written back, with the wake fields (not modelled).
StatusWrite ==
  /\ call.op = "status"
  /\ meta' = [meta EXCEPT ![call.job] = call.read]
  /\ call' = NoCall
  /\ UNCHANGED <<server, owner, reserved, todo, taskVars, procVars, calls>>

-----------------------------------------------------------------------------
(* job_exec: the supervisor and the command                                *)

procFrame == <<server, owner, reserved, recVars, taskVars, term, calls>>

\* Before prctl the death of the server sends no signal, and an early SIGTERM ends
\* the supervisor by default; it may also fail to start.
SupervisorArms(j) ==
  /\ sup[j] = "boot"
  /\ sup' \in {[sup EXCEPT ![j] = "armed"], [sup EXCEPT ![j] = "dead"]}
  /\ UNCHANGED <<procFrame, cmd>>

\* After prctl it looks whether its parent is still its server, and forks the command
\* (or exits).
MutSupervisorForks(j) ==
  /\ sup[j] = "armed"
  /\ sup' = [sup EXCEPT ![j] = "up"] /\ cmd' = [cmd EXCEPT ![j] = "up"]
  /\ UNCHANGED procFrame
SupervisorForks(j) ==
  /\ sup[j] = "armed"
  /\ \/ /\ IsUp(owner[j])
        /\ sup' = [sup EXCEPT ![j] = "up"] /\ cmd' = [cmd EXCEPT ![j] = "up"]
     \/ /\ ~IsUp(owner[j])
        /\ sup' = [sup EXCEPT ![j] = "dead"] /\ UNCHANGED cmd
  /\ UNCHANGED procFrame

\* The command's leader exits, with or without descendants left in its group.
CommandExits(j) ==
  /\ cmd[j] = "up"
  /\ cmd' = [cmd EXCEPT ![j] = "left"]
  /\ UNCHANGED <<procFrame, sup>>

\* Nobody holds the output pipe any more; a descendant that has left the group
\* may hold it for any time.
OutputEnds(j) ==
  /\ pc[j] = "drain"
  /\ Goto(j, "drained")
  /\ UNCHANGED <<server, owner, reserved, recVars, stop, cancel, told, procVars, calls>>

\* The supervisor kills a group that outlasts its grace period.
SupervisorKills(j) ==
  /\ sup[j] = "up" /\ term[j] /\ cmd[j] = "up"
  /\ cmd' = [cmd EXCEPT ![j] = "dead"]
  /\ UNCHANGED <<procFrame, sup>>

\* The leader is gone: the rest of the group is killed before it is reaped.
SupervisorReaps(j) ==
  /\ sup[j] = "up" /\ cmd[j] \in {"left", "dead"}
  /\ cmd' = [cmd EXCEPT ![j] = "dead"]
  /\ sup' = [sup EXCEPT ![j] = "dead"]
  /\ UNCHANGED procFrame

-----------------------------------------------------------------------------
Task(j) == \/ Registered(j) \/ RegistrationFails(j) \/ Begin(j) \/ Spawned(j) \/ ReadCommandPgid(j) \/ GivesUp(j)
           \/ TaskCancelled(j) \/ CancelEscapes(j) \/ DrainCancelled(j) \/ KillSupervisor(j)
           \/ AwaitReader(j) \/ WriteStopped(j) \/ Commit(j) \/ Report(j)
Supervisor(j) == SupervisorArms(j) \/ SupervisorForks(j) \/ SupervisorKills(j) \/ SupervisorReaps(j)
Recovery == (\E j \in Jobs : RecoverGroup(j)) \/ RecoverSupervisor \/ RecoverWrite \/ Booted

Next ==
  \/ \E s \in Servers : Boot(s) \/ Close(s) \/ CancelTasks(s) \/ Die(s)
  \/ \E s \in Servers, j \in Jobs : Reserve(s, j) \/ GoUnreserved(s, j) \/ CancelRead(s, j) \/ StatusRead(s, j)
  \/ CancelWrite \/ StatusWrite \/ Recovery
  \/ \E j \in Jobs : RequestCancelled(j) \/ Task(j) \/ Supervisor(j) \/ CommandExits(j) \/ OutputEnds(j)

Spec == Init /\ [][Next]_vars

\* A server that is up runs its ready tasks, and whoever has the lock finishes what
\* it does there; the supervisor's loop runs.  Nothing is assumed of the command,
\* the clients or the servers' lives.
Fairness == /\ WF_vars(CancelWrite \/ StatusWrite \/ Recovery)
            /\ \A j \in Jobs : WF_vars(Task(j)) /\ WF_vars(Supervisor(j))
FairSpec == Spec /\ Fairness

-----------------------------------------------------------------------------
(* Properties                                                              *)

Running(j) == cmd[j] \in {"up", "left"}

\* LONGRUN_MAX_ACTIVE_JOBS bounds the commands that run under live servers on a
\* reservation, although a job's own writes, the jobs without a reservation and
\* other servers' updates race with it (server.py:655-686).
ActiveLimit ==
  Cardinality({j \in Jobs : reserved[j] /\ Running(j) /\ sup[j] = "up" /\ IsUp(owner[j])}) <= MaxActive

\* A running command has its supervisor, unless the job's own server has killed
\* that: as the last resort, when a SIGTERM was without effect, or by giving up the
\* spawn, of which no record has pids.  No recovery in steps, no server's death and
\* no exit of the supervisor leaves a group behind (server.py:295-314, 1400,
\* 1089-1107, job_exec.py:35-41, 87-94).
CommandSupervised ==
  \A j \in Jobs : Running(j) =>
    sup[j] = "up" \/ (sup[j] = "killed" /\ (term[j] \/ ~meta[j].pids))

\* Once the record is terminal or the bridge is told, the command is over; after
\* a recovery it is at least being terminated, also when the server died before the
\* supervisor was armed (docs/EVENT_DRIVEN_WAKEUP.md:93-95).  The exception is a
\* supervisor killed by its own server, as above.
TerminalMeansOver ==
  \A j \in Jobs : sup[j] # "killed" /\ (meta[j].state \in TerminalStates \/ told[j]) =>
    ~Running(j) \/ (meta[j].state = "orphaned_recovered" /\ term[j])

\* A server that starts leaves the jobs of the others alone: what is marked
\* recovered never had its task run on (server.py:282-292).
RecoveryOnlyOrphans ==
  \A j \in Jobs : meta[j].state = "orphaned_recovered" => pc[j] \notin TaskPCs

\* Every job's task ends, whatever the command does: every wait has a limit, but
\* for the end of an output that a process outside the group holds open
\* (server.py:1089-1180, 1527).
TaskEnds ==
  \A j \in Jobs : pc[j] \in TaskPCs ~> pc[j] \in {"done", "gone", "drain"}

\* Every command ends, also when its server dies: PR_SET_PDEATHSIG reaches the
\* supervisor, or the check of its parent does what the signal came too early for
\* (job_exec.py:21-41); the exception is again a supervisor killed by its server.
CommandEnds == \A j \in Jobs : Running(j) ~> (cmd[j] = "dead" \/ sup[j] = "killed")

\* "The MCP server atomically commits terminal job metadata, then sends one
\* bounded `terminal' event" (docs/EVENT_DRIVEN_WAKEUP.md:93-95), and cancel_job
\* is declared idempotent (server.py:1852): a job whose record says that its
\* cancellation was requested does not stay "running" after its task ended.
CancelledSettles ==
  \A j \in Jobs : reserved[j] /\ meta[j].cancel /\ pc[j] = "done" /\ server[owner[j]] = "up" => meta[j].state # "running"
=============================================================================
