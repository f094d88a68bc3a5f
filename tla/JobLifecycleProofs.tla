------------------------- MODULE JobLifecycleProofs -------------------------
(***************************************************************************)
(* Jobs from their reservation to their terminal record, for any number of  *)
(* jobs, servers and calls: although locked updates write back what they    *)
(* have read, the jobs' own tasks write without the lock and recovery takes *)
(* a job in several steps, the limit holds, a terminal record means a       *)
(* command that is over, and recovery takes only orphans.                   *)
(***************************************************************************)
EXTENDS JobLifecycle, FiniteSetTheorems, TLAPS

-----------------------------------------------------------------------------
(* The inductive invariant                                                 *)

\* The processes of a job: no command before the supervisor has forked it, none that
\* the supervisor has left behind, no supervisor of a command that has outlived its
\* server without SIGTERM, and none killed by its server but after SIGTERM or in a
\* spawn that has been given up.
ProcShape(j) ==
  /\ sup[j] \in {"none", "boot", "armed"} => cmd[j] = "none"
  /\ Running(j) => sup[j] \in {"up", "killed"}
  /\ sup[j] = "up" /\ ~IsUp(owner[j]) => term[j]
  /\ sup[j] = "killed" => term[j] \/ pc[j] \in {"report", "done", "gone"}

\* The task of a job: it is in a live server, has no supervisor before the spawn, a
\* terminated one while it stops it and no live one once it waits for the output or
\* has returned.
TaskShape(j) ==
  /\ pc[j] # "none" => owner[j] # NoServer /\ server[owner[j]] \notin {"new", "boot"}
  /\ pc[j] = "none" => owner[j] = NoServer /\ meta[j].state = "absent"
  /\ pc[j] \in TaskPCs => IsUp(owner[j])
  /\ pc[j] \in {"none", "register", "begin"} => sup[j] = "none"
  /\ pc[j] = "stop" /\ SupLive(j) => term[j]
  /\ pc[j] \in {"run", "drain", "drained"} => cmd[j] # "none"
  /\ pc[j] = "stop" /\ stop[j] \in {"limit", "cancel"} => cmd[j] # "none"
  /\ pc[j] \in {"drain", "drained", "report"} => ~SupLive(j)
  /\ told[j] => ~SupLive(j) /\ pc[j] = "done"

\* What a record r of a job says, be it the file or what a locked update has read
\* and is going to write back.
RecordShape(j, r) ==
  /\ r.state = "absent" => sup[j] = "none" /\ ~reserved[j]
  /\ pc[j] \in TaskPCs \ {"report"} =>
       r.state \in ActiveStates \/ (pc[j] = "begin" /\ r.state = "absent")
  /\ r.state \in TerminalStates \ {"orphaned_recovered"} => ~SupLive(j)
  /\ r.state = "orphaned_recovered" => pc[j] \notin TaskPCs /\ ~IsUp(owner[j])
  /\ r.pids => /\ cmd[j] # "none"
               /\ pc[j] \notin {"register", "begin", "spawn", "pgid"}
               /\ sup[j] = "killed" => term[j]

JobInv(j) == ProcShape(j) /\ TaskShape(j) /\ RecordShape(j, meta[j])

\* The recovery has dealt with the command's group: what still runs has lost its
\* supervisor before.
GroupDone(j) == Running(j) => sup[j] = "killed"

\* The update in progress is about a job with a record; the recovery is that of a
\* starting server and about a job whose server is gone.
CallShape ==
  call # NoCall =>
    /\ call.op # "boot" => /\ call.job \in Jobs
                           /\ pc[call.job] # "none"
                           /\ call.read.state # "absent"
                           /\ RecordShape(call.job, call.read)
    /\ call.op \in {"boot", "group", "both"} => call.by \in Servers /\ server[call.by] = "boot"
    /\ call.op \in {"group", "both"} => ~IsUp(owner[call.job])
    /\ call.op = "group" /\ call.read.pids => GroupDone(call.job)

\* The reserved jobs that count, or that count again when the update in progress
\* writes.
Reading(j) == call # NoCall /\ call.job = j /\ call.read.state \in ActiveStates
Held == {j \in Jobs : reserved[j] /\ IsUp(owner[j]) /\ (meta[j].state \in ActiveStates \/ Reading(j))}
LimitShape == Cardinality(Held) <= MaxActive

LifecycleInv == TypeOK /\ (\A j \in Jobs : JobInv(j)) /\ CallShape /\ LimitShape

-----------------------------------------------------------------------------
(* What the helpers write                                                  *)

States == {"absent"} \cup ActiveStates \cup TerminalStates
PCs == {"none", "done", "gone"} \cup TaskPCs
Reasons == {"none", "limit", "cancel", "early", "error"}

\* The step changes nothing of job k.
SameJob(k) == /\ owner'[k] = owner[k] /\ reserved'[k] = reserved[k] /\ meta'[k] = meta[k]
              /\ pc'[k] = pc[k] /\ stop'[k] = stop[k] /\ told'[k] = told[k]
              /\ sup'[k] = sup[k] /\ term'[k] = term[k] /\ cmd'[k] = cmd[k]

\* Record writes a whole record.
LEMMA RecordWrites ==
  ASSUME TypeOK, NEW j \in Jobs, NEW s \in States, NEW p \in BOOLEAN, Record(j, s, p)
  PROVE  /\ meta' \in [Jobs -> Meta]
         /\ meta'[j].state = s /\ meta'[j].pids = p
         /\ \A k \in Jobs \ {j} : meta'[k] = meta[k]
<1>1. [state |-> s, cancel |-> FALSE, pids |-> p] \in Meta
  BY DEF Meta, States
<1> QED
  BY <1>1 DEF Record, TypeOK

\* A record marked by the recovery is a record, with the pids it had.
LEMMA RecoveredRecord ==
  ASSUME NEW r \in Meta
  PROVE  [r EXCEPT !.state = "orphaned_recovered"] \in
           {q \in Meta : q.state = "orphaned_recovered" /\ q.pids = r.pids}
BY DEF Meta, TerminalStates

\* SetState writes a state into the record as it is.
LEMMA SetStateWrites ==
  ASSUME TypeOK, NEW j \in Jobs, NEW s \in States, SetState(j, s)
  PROVE  /\ meta' \in [Jobs -> Meta]
         /\ meta'[j].state = s /\ meta'[j].pids = meta[j].pids
         /\ \A k \in Jobs \ {j} : meta'[k] = meta[k]
<1>1. /\ [meta[j] EXCEPT !.state = s] \in Meta
      /\ [meta[j] EXCEPT !.state = s].state = s /\ [meta[j] EXCEPT !.state = s].pids = meta[j].pids
  BY DEF TypeOK, Meta, States
<1>2. meta' = [meta EXCEPT ![j] = [meta[j] EXCEPT !.state = s]]
  BY DEF SetState, TypeOK
<1> QED
  BY <1>1, <1>2 DEF TypeOK

\* Goto moves the task of one job.
LEMMA GotoMoves ==
  ASSUME TypeOK, NEW j \in Jobs, NEW l \in PCs, Goto(j, l)
  PROVE  /\ pc' \in [Jobs -> PCs] /\ pc'[j] = l
         /\ \A k \in Jobs \ {j} : pc'[k] = pc[k]
BY DEF Goto, TypeOK, PCs

\* Leave moves it too, and clears its reason to stop.
LEMMA LeaveMoves ==
  ASSUME TypeOK, NEW j \in Jobs, NEW l \in {"done", "report"}, Leave(j, l)
  PROVE  /\ pc' \in [Jobs -> PCs] /\ stop' \in [Jobs -> Reasons] /\ pc'[j] = l
         /\ \A k \in Jobs \ {j} : pc'[k] = pc[k] /\ stop'[k] = stop[k]
<1>1. l \in PCs /\ Goto(j, l) /\ stop' = [stop EXCEPT ![j] = "none"]
  BY DEF Leave, PCs, TaskPCs
<1> QED
  BY <1>1, GotoMoves DEF TypeOK, Reasons

\* Return moves it to its last stop or to its end.
LEMMA ReturnMoves ==
  ASSUME TypeOK, NEW j \in Jobs, Return(j)
  PROVE  /\ pc' \in [Jobs -> PCs] /\ stop' \in [Jobs -> Reasons] /\ pc'[j] \in {"done", "report"}
         /\ \A k \in Jobs \ {j} : pc'[k] = pc[k] /\ stop'[k] = stop[k]
<1>1. PICK l \in {"done", "report"} : Leave(j, l)
  BY DEF Return
<1> QED
  BY <1>1, LeaveMoves

\* SIGKILL ends a live supervisor and no other.
LEMMA KillKills ==
  ASSUME TypeOK, NEW j \in Jobs, Kill(j)
  PROVE  /\ sup' \in [Jobs -> SupStates]
         /\ SupLive(j) => sup'[j] = "killed"
         /\ ~SupLive(j) => sup'[j] = sup[j]
         /\ \A k \in Jobs \ {j} : sup'[k] = sup[k]
BY DEF Kill, TypeOK, SupStates

\* SIGTERM is for one supervisor, and stays.
LEMMA TerminateMarks ==
  ASSUME TypeOK, NEW j \in Jobs, Terminate(j)
  PROVE  /\ term' \in [Jobs -> BOOLEAN]
         /\ (term[j] \/ SupLive(j)) => term'[j]
         /\ \A k \in Jobs \ {j} : term'[k] = term[k]
BY DEF Terminate, TypeOK

-----------------------------------------------------------------------------
(* A step of one job                                                       *)

\* The step is one of job j: no server, no other job and no update takes part.
OwnStep(j) ==
  /\ UNCHANGED <<server, owner, reserved, call>>
  /\ \A k \in Jobs \ {j} : SameJob(k)

\* Whatever record was possible for the job still is: an update that is in
\* progress can still be written back, and a group dealt with stays so.
RecordKept(j) ==
  /\ \A r \in Meta : r.state # "absent" /\ RecordShape(j, r) => RecordShape(j, r)'
  /\ cmd[j] # "none" /\ GroupDone(j) => GroupDone(j)'

\* A job that takes no part stays as it should be.
LEMMA SameJobInv ==
  ASSUME NEW k \in Jobs, JobInv(k), SameJob(k), server' = server
  PROVE  JobInv(k)' /\ RecordKept(k)
BY DEF JobInv, SameJob, ProcShape, TaskShape, RecordShape, RecordKept, GroupDone, SupLive, Running, IsUp

\* The jobs that are held are finitely many, as all jobs are.
LEMMA HeldFinite == IsFiniteSet(Held) /\ Cardinality(Held) \in Nat
<1>1. Held \subseteq Jobs
  BY DEF Held
<1>2. IsFiniteSet(Held)
  BY <1>1, LifecycleAssumption, FS_Subset, Zenon
<1> QED
  BY <1>2, FS_CardinalityType

\* Fewer jobs are held than before: the limit still holds.
LEMMA FewerHeld ==
  ASSUME LimitShape, Held' \subseteq Held
  PROVE  LimitShape'
<1>1. IsFiniteSet(Held) /\ Cardinality(Held) \in Nat
  BY HeldFinite
<1>2. IsFiniteSet(Held') /\ Cardinality(Held') <= Cardinality(Held)
  BY <1>1, FS_Subset, Zenon
<1>3. Cardinality(Held') \in Nat
  BY <1>2, FS_CardinalityType
<1> QED
  BY <1>1, <1>2, <1>3, LifecycleAssumption DEF LimitShape

\* An update in progress that the step leaves alone, as long as its job's records
\* stay possible.
LEMMA CallKept ==
  ASSUME LifecycleInv, call' = call, call # NoCall,
         call.op # "boot" => RecordKept(call.job) /\ pc'[call.job] # "none",
         call.op # "boot" => (IsUp(owner[call.job])' <=> IsUp(owner[call.job])),
         call.by \in Servers /\ server[call.by] = "boot" => server'[call.by] = "boot"
  PROVE  CallShape'
<1>1. call.read \in Meta /\ CallShape
  BY DEF LifecycleInv, TypeOK, Call
<1>2. call.op # "boot" => RecordShape(call.job, call.read)'
  BY <1>1 DEF CallShape, RecordKept, RecordShape, SupLive, IsUp
<1>3. call.op = "group" /\ call.read.pids => GroupDone(call.job)'
  BY <1>1 DEF CallShape, RecordKept, RecordShape, GroupDone, Running
<1> QED
  BY <1>1, <1>2, <1>3 DEF CallShape

\* What remains to show of a step of one job.
LEMMA OwnStepInv ==
  ASSUME LifecycleInv, TypeOK', NEW j \in Jobs, OwnStep(j), JobInv(j)',
         pc[j] # "none" => RecordKept(j) /\ pc'[j] # "none",
         reserved[j] /\ meta'[j].state \in ActiveStates => meta[j].state \in ActiveStates
  PROVE  LifecycleInv'
<1> USE DEF LifecycleInv, OwnStep
<1>1. \A k \in Jobs : JobInv(k)'
  BY SameJobInv
<1>2. CallShape'
  <2> SUFFICES ASSUME call # NoCall PROVE CallShape'
    BY DEF CallShape
  <2>1. call.op # "boot" => RecordKept(call.job) /\ pc'[call.job] # "none"
    <3> SUFFICES ASSUME call.op # "boot" PROVE RecordKept(call.job) /\ pc'[call.job] # "none"
      OBVIOUS
    <3>1. call.job \in Jobs /\ pc[call.job] # "none"
      BY DEF CallShape
    <3>2. CASE call.job = j
      BY <3>1, <3>2
    <3>3. CASE call.job # j
      BY <3>1, <3>3, SameJobInv DEF SameJob
    <3> QED
      BY <3>2, <3>3
  <2>2. call.op # "boot" => (IsUp(owner[call.job])' <=> IsUp(owner[call.job]))
    BY DEF IsUp
  <2> QED
    BY <2>1, <2>2, CallKept
<1>3. Held' \subseteq Held
  <2> SUFFICES ASSUME NEW k \in Jobs, reserved'[k], IsUp(owner[k])', meta'[k].state \in ActiveStates \/ Reading(k)'
               PROVE  reserved[k] /\ IsUp(owner[k]) /\ (meta[k].state \in ActiveStates \/ Reading(k))
    BY DEF Held
  <2> QED
    BY DEF IsUp, Reading, SameJob
<1>4. LimitShape'
  BY <1>3, FewerHeld
<1> QED
  BY <1>1, <1>2, <1>4

-----------------------------------------------------------------------------
(* The steps of a job's task                                               *)

\* Registration: the record stays, or becomes terminal before there is a process.
LEMMA RegisterInv ==
  ASSUME LifecycleInv, NEW j \in Jobs, Registered(j) \/ RegistrationFails(j) \/ RequestCancelled(j)
  PROVE  LifecycleInv'
<1> USE DEF LifecycleInv
<1>0. UNCHANGED <<server, owner, reserved, call, todo, stop, told, procVars>> /\ cancel' \in [Jobs -> BOOLEAN]
  BY DEF Registered, RegistrationFails, RequestCancelled, recVars, TypeOK
<1>c. calls' \in 0..MaxCalls
  BY LifecycleAssumption DEF Registered, RegistrationFails, RequestCancelled, TypeOK
<1>1. /\ pc' \in [Jobs -> PCs]
      /\ \A k \in Jobs \ {j} : pc'[k] = pc[k]
      /\ pc'[j] = pc[j] \/ (pc[j] = "register" /\ pc'[j] \in {"begin", "done"})
  BY DEF Registered, RegistrationFails, RequestCancelled, At, Goto, TypeOK, TaskPCs, PCs
<1>2. /\ meta' \in [Jobs -> Meta]
      /\ \A k \in Jobs \ {j} : meta'[k] = meta[k]
      /\ \/ meta'[j] = meta[j]
         \/ /\ pc[j] = "register" /\ pc'[j] = "done"
            /\ meta'[j].state = "spawn_error" /\ meta'[j].pids = meta[j].pids
  <2>1. CASE RegistrationFails(j)
    <3>1. "spawn_error" \in States /\ SetState(j, "spawn_error") /\ pc[j] = "register" /\ Goto(j, "done")
      BY <2>1 DEF RegistrationFails, At, States, TerminalStates
    <3>2. pc'[j] = "done"
      BY <3>1 DEF Goto, TypeOK
    <3> QED
      BY <3>1, <3>2, SetStateWrites
  <2>2. CASE Registered(j) \/ RequestCancelled(j)
    BY <2>2 DEF Registered, RequestCancelled, recVars, TypeOK
  <2> QED
    BY <2>1, <2>2
<1>3. TypeOK'
  BY <1>0, <1>c, <1>1, <1>2 DEF TypeOK, procVars, PCs
<1>4. OwnStep(j)
  BY <1>0, <1>1, <1>2 DEF OwnStep, SameJob, procVars
<1>5. JobInv(j) /\ IsUp(owner[j])' = IsUp(owner[j])
  BY <1>0 DEF IsUp
<1>6. JobInv(j)' /\ RecordKept(j)
  BY <1>0, <1>1, <1>2, <1>5 DEF JobInv, ProcShape, TaskShape, RecordShape, RecordKept, GroupDone, SupLive, Running,
     procVars, TaskPCs, TerminalStates, ActiveStates
<1>7. pc'[j] # "none" \/ pc[j] = "none"
  BY <1>1
<1>8. meta'[j].state \in ActiveStates => meta[j].state \in ActiveStates
  BY <1>2 DEF ActiveStates
<1> QED
  BY <1>3, <1>4, <1>6, <1>7, <1>8, OwnStepInv

\* The start of the command: the record, the supervisor, then the command's group.
LEMMA StartInv ==
  ASSUME LifecycleInv, NEW j \in Jobs, Begin(j) \/ Spawned(j) \/ ReadCommandPgid(j)
  PROVE  LifecycleInv'
<1> USE DEF LifecycleInv
<1>0. UNCHANGED <<server, owner, reserved, call, todo, told, cancel, term, cmd, calls>>
  BY DEF Begin, Spawned, ReadCommandPgid, taskFrame, procVars
<1>1. /\ meta' \in [Jobs -> Meta] /\ pc' \in [Jobs -> PCs] /\ stop' \in [Jobs -> Reasons]
      /\ sup' \in [Jobs -> SupStates]
      /\ \A k \in Jobs \ {j} : pc'[k] = pc[k] /\ stop'[k] = stop[k] /\ meta'[k] = meta[k] /\ sup'[k] = sup[k]
      /\ \/ /\ pc[j] = "begin" /\ pc'[j] = "spawn" /\ sup'[j] = "boot"
            /\ meta'[j].state = "starting" /\ ~meta'[j].pids
         \/ /\ pc[j] = "begin" /\ pc'[j] = "done" /\ sup'[j] = sup[j]
            /\ meta'[j].state = "starting" /\ ~meta'[j].pids
         \/ /\ pc[j] = "begin" /\ pc'[j] \in {"done", "report"} /\ sup'[j] = sup[j]
            /\ meta'[j].state = "spawn_error" /\ ~meta'[j].pids
         \/ /\ pc[j] = "spawn" /\ pc'[j] \in {"done", "report"}
            /\ sup'[j] = (IF SupLive(j) THEN "killed" ELSE sup[j])
            /\ meta'[j].state = "spawn_error" /\ ~meta'[j].pids
         \/ pc[j] = "spawn" /\ pc'[j] = "pgid" /\ meta'[j] = meta[j] /\ sup'[j] = sup[j]
         \/ /\ pc[j] = "pgid" /\ pc'[j] = "run" /\ cmd[j] # "none" /\ sup'[j] = sup[j]
            /\ meta'[j].state = "running"
  <2> USE DEF At
  <2>t. {"starting", "running", "spawn_error"} \subseteq States /\ {"spawn", "pgid", "run"} \subseteq PCs
    BY DEF States, ActiveStates, TerminalStates, TaskPCs, PCs
  <2>s. stop \in [Jobs -> Reasons] /\ sup \in [Jobs -> SupStates]
    BY DEF TypeOK, Reasons
  <2>1. CASE Begin(j) /\ Record(j, "starting", FALSE) /\ Goto(j, "spawn") /\ sup' = [sup EXCEPT ![j] = "boot"]
             /\ UNCHANGED stop
    BY <2>t, <2>s, <2>1, RecordWrites, GotoMoves, ZenonT(60) DEF Begin, SupStates
  <2>2. CASE Begin(j) /\ Record(j, "spawn_error", FALSE) /\ Return(j) /\ UNCHANGED sup
    BY <2>t, <2>s, <2>2, RecordWrites, ReturnMoves DEF Begin
  <2>3. CASE Begin(j) /\ Record(j, "starting", FALSE) /\ Leave(j, "done") /\ UNCHANGED sup
    BY <2>t, <2>s, <2>3, RecordWrites, LeaveMoves DEF Begin
  <2>4. CASE Spawned(j) /\ Goto(j, "pgid") /\ UNCHANGED <<meta, stop, sup>>
    BY <2>t, <2>s, <2>4, GotoMoves DEF Spawned, TypeOK
  <2>5. CASE Spawned(j) /\ Record(j, "spawn_error", FALSE) /\ Return(j) /\ Kill(j)
    BY <2>t, <2>5, RecordWrites, ReturnMoves, KillKills DEF Spawned
  <2>6. CASE ReadCommandPgid(j)
    BY <2>t, <2>s, <2>6, RecordWrites, GotoMoves DEF ReadCommandPgid, procVars
  <2> QED
    BY <2>1, <2>2, <2>3, <2>4, <2>5, <2>6 DEF Begin, Spawned
<1>3. TypeOK'
  BY <1>0, <1>1 DEF TypeOK, PCs, Reasons
<1>4. OwnStep(j)
  BY <1>0, <1>1 DEF OwnStep, SameJob
<1>5. JobInv(j) /\ IsUp(owner[j])' = IsUp(owner[j])
  BY <1>0 DEF IsUp
<1>6. ProcShape(j)' /\ TaskShape(j)'
  BY <1>0, <1>1, <1>5 DEF JobInv, ProcShape, TaskShape, SupLive, Running, TaskPCs
<1>7. RecordShape(j, meta[j])'
  BY <1>0, <1>1, <1>5 DEF JobInv, ProcShape, TaskShape, RecordShape, SupLive, TaskPCs, TerminalStates, ActiveStates
<1>8. RecordKept(j)
  BY <1>0, <1>1, <1>5 DEF JobInv, TaskShape, RecordShape, RecordKept, GroupDone, SupLive, Running,
     TaskPCs, TerminalStates, ActiveStates
<1>9. pc'[j] # "none"
  BY <1>1
<1>10. reserved[j] => meta[j].state \in ActiveStates
  BY <1>1, <1>5 DEF JobInv, RecordShape, TaskPCs
<1> QED
  BY <1>3, <1>4, <1>6, <1>7, <1>8, <1>9, <1>10, OwnStepInv DEF JobInv

\* The ways a task leaves its command: limits, cancellation, a killed supervisor.
LEMMA StopInv ==
  ASSUME LifecycleInv, NEW j \in Jobs,
         GivesUp(j) \/ TaskCancelled(j) \/ CancelEscapes(j) \/ KillSupervisor(j) \/ AwaitReader(j)
  PROVE  LifecycleInv'
<1> USE DEF LifecycleInv
<1>0. UNCHANGED <<server, owner, reserved, call, todo, told, meta, cmd, calls>>
  BY DEF GivesUp, TaskCancelled, CancelEscapes, KillSupervisor, AwaitReader, taskFrame, procVars
<1>1. /\ pc' \in [Jobs -> PCs] /\ stop' \in [Jobs -> Reasons] /\ sup' \in [Jobs -> SupStates]
      /\ term' \in [Jobs -> BOOLEAN] /\ cancel' \in [Jobs -> BOOLEAN]
      /\ \A k \in Jobs \ {j} : pc'[k] = pc[k] /\ stop'[k] = stop[k] /\ sup'[k] = sup[k] /\ term'[k] = term[k]
      /\ \/ /\ pc'[j] = "stop" /\ sup'[j] = sup[j] /\ ((term[j] \/ SupLive(j)) => term'[j])
            /\ pc[j] = "pgid" \/ pc[j] = "run" \/ (pc[j] = "stop" /\ stop[j] = "limit")
            /\ pc[j] = "pgid" => stop'[j] \in {"early", "error"}
         \/ /\ pc'[j] = "done" /\ term'[j] = term[j]
            /\ \/ pc[j] \in {"register", "begin", "report", "stop"} /\ sup'[j] = sup[j]
               \/ pc[j] = "spawn" /\ sup'[j] = (IF SupLive(j) THEN "killed" ELSE sup[j])
         \/ /\ pc[j] = "stop" /\ pc'[j] = "stop" /\ stop'[j] = stop[j] /\ term'[j] = term[j]
            /\ SupLive(j) /\ sup'[j] = "killed"
         \/ /\ pc'[j] = "drain" /\ sup'[j] = sup[j] /\ term'[j] = term[j] /\ ~SupLive(j)
            /\ pc[j] = "run" \/ (pc[j] = "stop" /\ stop[j] \in {"limit", "cancel"})
  <2> USE DEF At
  <2>t. {"stop", "drain"} \subseteq PCs
    BY DEF TaskPCs, PCs
  <2>s. /\ stop \in [Jobs -> Reasons] /\ sup \in [Jobs -> SupStates] /\ pc \in [Jobs -> PCs]
        /\ term \in [Jobs -> BOOLEAN] /\ cancel \in [Jobs -> BOOLEAN]
    BY DEF TypeOK, Reasons, PCs
  <2>1. CASE GivesUp(j)
    <3>1. PICK why \in {"error", "limit"} :
            Stopping(j, why) /\ pc[j] \in {"pgid", "run"} /\ (pc[j] = "pgid" => why = "error")
      BY <2>1 DEF GivesUp
    <3>2. UNCHANGED <<cancel, sup>>
      BY <2>1 DEF GivesUp
    <3>3. Goto(j, "stop") /\ Terminate(j) /\ stop' = [stop EXCEPT ![j] = why]
      BY <3>1 DEF Stopping
    <3>4. stop' \in [Jobs -> Reasons] /\ stop'[j] = why /\ \A k \in Jobs \ {j} : stop'[k] = stop[k]
      BY <2>s, <3>3 DEF Reasons
    <3> QED
      BY <2>t, <2>s, <3>1, <3>2, <3>3, <3>4, GotoMoves, TerminateMarks
  <2>2. CASE TaskCancelled(j)
    <3>1. PICK why \in {"early", "cancel"} : Stopping(j, why) /\ (pc[j] = "pgid" => why = "early")
      BY <2>2 DEF TaskCancelled
    <3>2. /\ UNCHANGED sup /\ cancel' \in [Jobs -> BOOLEAN]
          /\ pc[j] = "pgid" \/ pc[j] = "run" \/ (pc[j] = "stop" /\ stop[j] = "limit")
      BY <2>s, <2>2 DEF TaskCancelled
    <3>3. Goto(j, "stop") /\ Terminate(j) /\ stop' = [stop EXCEPT ![j] = why]
      BY <3>1 DEF Stopping
    <3>4. stop' \in [Jobs -> Reasons] /\ stop'[j] = why /\ \A k \in Jobs \ {j} : stop'[k] = stop[k]
      BY <2>s, <3>3 DEF Reasons
    <3> QED
      BY <2>t, <2>s, <3>1, <3>2, <3>3, <3>4, GotoMoves, TerminateMarks
  <2>3. CASE CancelEscapes(j)
    <3>1. /\ Leave(j, "done") /\ UNCHANGED term /\ cancel' \in [Jobs -> BOOLEAN]
          /\ pc[j] \in {"register", "begin", "spawn", "report", "stop"}
          /\ IF pc[j] = "spawn" THEN Kill(j) ELSE UNCHANGED sup
      BY <2>s, <2>3 DEF CancelEscapes
    <3> QED
      BY <2>s, <3>1, LeaveMoves, KillKills
  <2>4. CASE KillSupervisor(j)
    BY <2>s, <2>4, KillKills DEF KillSupervisor
  <2>5. CASE AwaitReader(j)
    BY <2>t, <2>s, <2>5, GotoMoves DEF AwaitReader, procVars, Ended, SupLive
  <2> QED
    BY <2>1, <2>2, <2>3, <2>4, <2>5
<1>2. TypeOK'
  BY <1>0, <1>1 DEF TypeOK, PCs, Reasons
<1>3. OwnStep(j)
  BY <1>0, <1>1 DEF OwnStep, SameJob
<1>4. JobInv(j) /\ IsUp(owner[j])' = IsUp(owner[j])
  BY <1>0 DEF IsUp
<1>5. ProcShape(j)'
  BY <1>0, <1>1, <1>4 DEF JobInv, ProcShape, TaskShape, SupLive, Running
<1>6. TaskShape(j)'
  BY <1>0, <1>1, <1>4 DEF JobInv, TaskShape, SupLive, TaskPCs
<1>7. RecordKept(j)
  BY <1>0, <1>1, <1>4 DEF JobInv, TaskShape, RecordShape, RecordKept, GroupDone, SupLive, Running, TaskPCs
<1>8. RecordShape(j, meta[j])'
  BY <1>0, <1>1, <1>4 DEF JobInv, TaskShape, RecordShape, SupLive, TaskPCs
<1>9. pc'[j] # "none"
  BY <1>1
<1> QED
  BY <1>0, <1>2, <1>3, <1>5, <1>6, <1>7, <1>8, <1>9, OwnStepInv DEF JobInv

\* The end of the task: a terminal record once the supervisor is gone, then the
\* bridge is told.
LEMMA EndInv ==
  ASSUME LifecycleInv, NEW j \in Jobs,
         DrainCancelled(j) \/ WriteStopped(j) \/ Commit(j) \/ Report(j) \/ OutputEnds(j)
  PROVE  LifecycleInv'
<1> USE DEF LifecycleInv
<1>0. UNCHANGED <<server, owner, reserved, call, todo, procVars, calls>>
  BY DEF DrainCancelled, WriteStopped, Commit, Report, OutputEnds, taskFrame, recVars
<1>1. /\ meta' \in [Jobs -> Meta] /\ pc' \in [Jobs -> PCs] /\ stop' \in [Jobs -> Reasons]
      /\ cancel' \in [Jobs -> BOOLEAN] /\ told' \in [Jobs -> BOOLEAN]
      /\ \A k \in Jobs \ {j} : pc'[k] = pc[k] /\ stop'[k] = stop[k] /\ meta'[k] = meta[k] /\ told'[k] = told[k]
      /\ \/ /\ pc[j] \in {"stop", "drain", "drained"} /\ pc'[j] \in {"done", "report"} /\ ~SupLive(j)
            /\ meta'[j].state \in TerminalStates \ {"orphaned_recovered"} /\ told'[j] = told[j]
            /\ meta'[j].pids => meta[j].pids \/ pc[j] \in {"drain", "drained"}
         \/ pc[j] = "report" /\ pc'[j] = "done" /\ meta'[j] = meta[j]
         \/ pc[j] = "drain" /\ pc'[j] = "drained" /\ meta'[j] = meta[j] /\ told'[j] = told[j]
  <2> USE DEF At
  <2>t. TerminalStates \subseteq States /\ {"drained", "done"} \subseteq PCs
    BY DEF States, TaskPCs, PCs
  <2>s. (pc[j] \in {"drain", "drained"} => ~SupLive(j)) /\ stop \in [Jobs -> Reasons]
    BY DEF JobInv, TaskShape, TypeOK, Reasons
  <2>1. CASE DrainCancelled(j)
    <3>1. "cancelled" \in TerminalStates \ {"orphaned_recovered"} /\ Record(j, "cancelled", TRUE) /\ Return(j)
      BY <2>1 DEF DrainCancelled, TerminalStates
    <3>2. pc[j] \in {"drain", "drained"} /\ UNCHANGED told /\ cancel' \in [Jobs -> BOOLEAN]
      BY <2>1 DEF DrainCancelled, taskFrame, TypeOK
    <3>3. meta'[j].state = "cancelled" /\ meta' \in [Jobs -> Meta] /\ \A k \in Jobs \ {j} : meta'[k] = meta[k]
      BY <2>t, <3>1, RecordWrites
    <3> QED
      BY <2>s, <3>1, <3>2, <3>3, ReturnMoves DEF TypeOK
  <2>2. CASE WriteStopped(j)
    <3>1. PICK s \in TerminalStates \ {"orphaned_recovered"}, p \in BOOLEAN :
            Record(j, s, p) /\ (p => pc[j] = "drained")
      BY <2>2 DEF WriteStopped, TerminalStates
    <3>2. pc[j] \in {"stop", "drained"} /\ ~SupLive(j)
      BY <2>s, <2>2 DEF WriteStopped, Stopped, Ended, SupLive
    <3>3. /\ meta'[j].state = s /\ meta'[j].pids = p /\ meta' \in [Jobs -> Meta]
          /\ \A k \in Jobs \ {j} : meta'[k] = meta[k]
      BY <2>t, <3>1, RecordWrites
    <3>4. Return(j) /\ UNCHANGED <<told, cancel>>
      BY <2>2 DEF WriteStopped, taskFrame
    <3> QED
      BY <3>1, <3>2, <3>3, <3>4, ReturnMoves DEF TypeOK
  <2>3. CASE Commit(j)
    <3>1. SetState(j, ResultState(j)) /\ ResultState(j) \in TerminalStates \ {"orphaned_recovered"}
      BY <2>3 DEF Commit, ResultState, TerminalStates
    <3>2. meta'[j].state = ResultState(j) /\ meta' \in [Jobs -> Meta] /\ \A k \in Jobs \ {j} : meta'[k] = meta[k]
      BY <2>t, <3>1, SetStateWrites
    <3>3. pc[j] = "drained" /\ Return(j) /\ UNCHANGED <<told, cancel>>
      BY <2>3 DEF Commit, taskFrame
    <3> QED
      BY <2>s, <3>1, <3>2, <3>3, ReturnMoves DEF TypeOK
  <2>4. CASE Report(j)
    BY <2>t, <2>s, <2>4, GotoMoves DEF Report, recVars, TypeOK
  <2>5. CASE OutputEnds(j)
    BY <2>t, <2>s, <2>5, GotoMoves DEF OutputEnds, recVars, TypeOK
  <2> QED
    BY <2>1, <2>2, <2>3, <2>4, <2>5
<1>3. TypeOK'
  BY <1>0, <1>1 DEF TypeOK, procVars, PCs, Reasons
<1>4. OwnStep(j)
  BY <1>0, <1>1 DEF OwnStep, SameJob, procVars
<1>5. JobInv(j) /\ IsUp(owner[j])' = IsUp(owner[j])
  BY <1>0 DEF IsUp
<1>6. ProcShape(j)' /\ TaskShape(j)'
  BY <1>0, <1>1, <1>5 DEF JobInv, ProcShape, TaskShape, RecordShape, SupLive, Running, procVars, TaskPCs
<1>7. RecordShape(j, meta[j])' /\ RecordKept(j)
  BY <1>0, <1>1, <1>5 DEF JobInv, ProcShape, TaskShape, RecordShape, RecordKept, GroupDone, SupLive, Running,
     procVars, TaskPCs, TerminalStates, ActiveStates
<1>8. pc'[j] # "none"
  BY <1>1
<1>9. meta'[j].state \in ActiveStates => meta[j].state \in ActiveStates
  BY <1>1 DEF ActiveStates, TerminalStates
<1> QED
  BY <1>3, <1>4, <1>6, <1>7, <1>8, <1>9, OwnStepInv DEF JobInv

\* The supervisor and the command: the group is killed before the supervisor ends,
\* and no command is forked for a server that is gone.
LEMMA SupervisorInv ==
  ASSUME LifecycleInv, NEW j \in Jobs, Supervisor(j) \/ CommandExits(j)
  PROVE  LifecycleInv'
<1> USE DEF LifecycleInv, Supervisor, SupervisorArms, SupervisorForks, SupervisorKills, SupervisorReaps, CommandExits
<1>0. UNCHANGED <<server, owner, reserved, recVars, taskVars, term, calls>>
  BY DEF procFrame
<1>1. /\ sup' \in [Jobs -> SupStates]
      /\ cmd' \in [Jobs -> {"none", "up", "left", "dead"}]
      /\ \A k \in Jobs \ {j} : sup'[k] = sup[k] /\ cmd'[k] = cmd[k]
      /\ \/ sup[j] = "armed" /\ IsUp(owner[j]) /\ sup'[j] = "up" /\ cmd'[j] = "up"
         \/ sup[j] \in {"boot", "armed"} /\ sup'[j] = "dead" /\ cmd'[j] = cmd[j]
         \/ sup[j] = "boot" /\ sup'[j] = "armed" /\ cmd'[j] = cmd[j]
         \/ sup'[j] = sup[j] /\ cmd[j] = "up" /\ cmd'[j] \in {"left", "dead"}
         \/ sup[j] = "up" /\ sup'[j] = "dead" /\ cmd'[j] = "dead"
  BY DEF TypeOK, SupStates
<1>3. TypeOK'
  BY <1>0, <1>1 DEF TypeOK, recVars, taskVars
<1>4. OwnStep(j)
  BY <1>0, <1>1 DEF OwnStep, SameJob, recVars, taskVars
<1>5. JobInv(j) /\ IsUp(owner[j])' = IsUp(owner[j])
  BY <1>0 DEF IsUp
<1>6. JobInv(j)'
  BY <1>0, <1>1, <1>5 DEF JobInv, ProcShape, TaskShape, RecordShape, SupLive, Running, recVars, taskVars
<1>7. RecordKept(j)
  BY <1>0, <1>1, <1>5 DEF JobInv, ProcShape, RecordShape, RecordKept, GroupDone, SupLive, Running, recVars, taskVars
<1> QED
  BY <1>0, <1>3, <1>4, <1>6, <1>7, OwnStepInv DEF recVars, taskVars

-----------------------------------------------------------------------------
(* New jobs, and other servers' updates                                    *)

\* A job is reserved below the limit, while no update is in progress; or it goes on
\* without, and without a record.
LEMMA ReserveInv ==
  ASSUME LifecycleInv, NEW s \in Servers, NEW j \in Jobs, Reserve(s, j) \/ GoUnreserved(s, j)
  PROVE  LifecycleInv'
<1> USE DEF LifecycleInv
<1>0. /\ UNCHANGED <<server, call, todo, stop, cancel, told, procVars, calls>>
      /\ pc[j] = "none" /\ IsUp(s) /\ owner' = [owner EXCEPT ![j] = s]
  BY DEF Reserve, GoUnreserved, Serves, Ready, recVars
<1>1. /\ meta' \in [Jobs -> Meta] /\ pc' \in [Jobs -> PCs] /\ reserved' \in [Jobs -> BOOLEAN]
      /\ \A k \in Jobs \ {j} : pc'[k] = pc[k] /\ meta'[k] = meta[k] /\ reserved'[k] = reserved[k]
      /\ \/ /\ pc'[j] \in {"register", "begin"} /\ meta'[j].state = "queued" /\ ~meta'[j].pids
            /\ call = NoCall /\ BelowLimit
         \/ pc'[j] = "begin" /\ meta'[j] = meta[j] /\ reserved'[j] = reserved[j]
  <2>t. "queued" \in States /\ {"register", "begin"} \subseteq PCs
    BY DEF States, ActiveStates, TaskPCs, PCs
  <2>1. CASE Reserve(s, j)
    <3>1. PICK l \in {"register", "begin"} : Goto(j, l)
      BY <2>1 DEF Reserve
    <3>2. call = NoCall /\ BelowLimit /\ Record(j, "queued", FALSE) /\ reserved' = [reserved EXCEPT ![j] = TRUE]
      BY <2>1 DEF Reserve, Unlocked
    <3>3. /\ meta'[j].state = "queued" /\ ~meta'[j].pids /\ meta' \in [Jobs -> Meta]
          /\ \A k \in Jobs \ {j} : meta'[k] = meta[k]
      BY <2>t, <3>2, RecordWrites
    <3>4. reserved' \in [Jobs -> BOOLEAN] /\ \A k \in Jobs \ {j} : reserved'[k] = reserved[k]
      BY <3>2 DEF TypeOK
    <3> QED
      BY <2>t, <3>1, <3>2, <3>3, <3>4, GotoMoves
  <2>2. CASE GoUnreserved(s, j)
    BY <2>t, <2>2, GotoMoves DEF GoUnreserved, recVars, TypeOK
  <2> QED
    BY <2>1, <2>2
<1>2. owner' \in [Jobs -> Servers \cup {NoServer}] /\ owner'[j] = s /\ \A k \in Jobs \ {j} : owner'[k] = owner[k]
  BY <1>0 DEF TypeOK
<1>3. TypeOK'
  BY <1>0, <1>1, <1>2 DEF TypeOK, procVars, PCs
<1>4. \A k \in Jobs \ {j} : SameJob(k)
  BY <1>0, <1>1, <1>2 DEF SameJob, procVars
<1>5. JobInv(j)'
  <2>1. JobInv(j) /\ IsUp(owner[j])' /\ server[s] \notin {"new", "boot"} /\ s # NoServer
    BY <1>0, <1>2 DEF IsUp
  <2>2. ~reserved[j] /\ ~meta[j].pids /\ meta[j].state = "absent"
    BY <1>0, <2>1 DEF JobInv, ProcShape, TaskShape, RecordShape, Running
  <2> QED
    BY <1>0, <1>1, <1>2, <2>1, <2>2 DEF JobInv, ProcShape, TaskShape, RecordShape, SupLive, Running, procVars, TaskPCs,
       TerminalStates, ActiveStates
<1>6. \A k \in Jobs : JobInv(k)'
  BY <1>0, <1>4, <1>5, SameJobInv
<1>7. CallShape'
  <2> SUFFICES ASSUME call # NoCall PROVE CallShape'
    BY <1>0 DEF CallShape
  <2>1. call.op # "boot" => call.job \in Jobs \ {j} /\ pc[call.job] # "none"
    BY <1>0 DEF CallShape
  <2>2. call.op # "boot" => RecordKept(call.job) /\ pc'[call.job] # "none"
    BY <1>0, <1>4, <2>1, SameJobInv DEF SameJob
  <2>3. call.op # "boot" => (IsUp(owner[call.job])' <=> IsUp(owner[call.job]))
    BY <1>0, <1>2, <2>1 DEF IsUp
  <2> QED
    BY <1>0, <2>2, <2>3, CallKept
<1>8. \A k \in Jobs \ {j} : k \in Held' <=> k \in Held
  BY <1>0, <1>4 DEF Held, IsUp, Reading, SameJob
<1>9. LimitShape'
  <2>1. CASE reserved'[j] = reserved[j] /\ meta'[j] = meta[j]
    <3>1. ~reserved[j]
      BY <1>0 DEF JobInv, TaskShape, RecordShape
    <3>2. Held' \subseteq Held
      BY <1>8, <2>1, <3>1 DEF Held
    <3> QED
      BY <3>2, FewerHeld
  <2>2. CASE call = NoCall /\ BelowLimit
    <3>1. Held \subseteq ActiveJobs /\ ActiveJobs \subseteq Jobs /\ Cardinality(ActiveJobs) < MaxActive
      BY <2>2 DEF Held, Reading, ActiveJobs, Counted, BelowLimit
    <3>2. IsFiniteSet(ActiveJobs)
      BY <3>1, LifecycleAssumption, FS_Subset, Zenon
    <3>3. IsFiniteSet(Held) /\ Cardinality(Held) <= Cardinality(ActiveJobs)
      BY <3>1, <3>2, FS_Subset, Zenon
    <3>4. Held' \subseteq Held \cup {j}
      BY <1>8 DEF Held
    <3>5. IsFiniteSet(Held \cup {j}) /\ Cardinality(Held \cup {j}) \in {Cardinality(Held), Cardinality(Held) + 1}
      BY <3>3, FS_AddElement
    <3>6. IsFiniteSet(Held') /\ Cardinality(Held') <= Cardinality(Held \cup {j})
      BY <3>4, <3>5, FS_Subset, Zenon
    <3>7. Cardinality(Held) \in Nat /\ Cardinality(Held') \in Nat /\ Cardinality(ActiveJobs) \in Nat
      BY <3>2, <3>3, <3>6, FS_CardinalityType
    <3> QED
      BY <3>1, <3>3, <3>5, <3>6, <3>7, LifecycleAssumption DEF LimitShape
  <2> QED
    BY <1>1, <2>1, <2>2
<1> QED
  BY <1>3, <1>6, <1>7, <1>9

\* A locked update reads the record of a job that exists.
LEMMA ReadInv ==
  ASSUME LifecycleInv, NEW s \in Servers, NEW j \in Jobs, CancelRead(s, j) \/ StatusRead(s, j)
  PROVE  LifecycleInv'
<1> USE DEF LifecycleInv
<1>0. PICK op \in {"cancel", "status"} : ReadRecord(s, j, op) /\ meta[j].state # "absent"
  BY DEF CancelRead, StatusRead
<1>1. /\ UNCHANGED <<server, owner, reserved, meta, todo, taskVars, procVars>> /\ call = NoCall
      /\ call' = [by |-> s, job |-> j, op |-> op, read |-> meta[j]]
  BY <1>0 DEF ReadRecord, Unlocked
<1>2. calls' \in 0..MaxCalls
  BY <1>0, LifecycleAssumption DEF ReadRecord, TypeOK
<1>3. call' \in Call /\ call'.job = j /\ call'.read = meta[j] /\ call'.op \in {"cancel", "status"}
  BY <1>1 DEF Call, Ops, TypeOK
<1>4. TypeOK'
  BY <1>1, <1>2, <1>3 DEF TypeOK, taskVars, procVars
<1>5. \A k \in Jobs : JobInv(k)'
  BY <1>1, SameJobInv DEF SameJob, taskVars, procVars
<1>6. CallShape'
  <2>1. pc[j] # "none" /\ RecordShape(j, meta[j])
    BY <1>0 DEF JobInv, TaskShape
  <2> QED
    BY <1>0, <1>1, <1>3, <2>1 DEF CallShape, RecordShape, SupLive, IsUp, taskVars, procVars
<1>7. Held' \subseteq Held
  BY <1>1, <1>3 DEF Held, Reading, IsUp
<1>8. LimitShape'
  BY <1>7, FewerHeld
<1> QED
  BY <1>4, <1>5, <1>6, <1>8

\* It writes back what it has read, over what the job's task may have written in
\* between.
LEMMA WriteInv ==
  ASSUME LifecycleInv, CancelWrite \/ StatusWrite
  PROVE  LifecycleInv'
<1> USE DEF LifecycleInv
<1>0. call # NoCall /\ call' = NoCall /\ call.op \in {"cancel", "status"}
  BY DEF CancelWrite, StatusWrite, NoCall
<1>1. PICK j \in Jobs : /\ j = call.job /\ pc[j] # "none" /\ RecordShape(j, call.read)
                        /\ call.read \in Meta /\ call.read.state # "absent"
  BY <1>0 DEF CallShape, TypeOK, Call
<1>2. UNCHANGED <<server, owner, reserved, todo, pc, stop, told, sup, cmd, calls>>
  BY DEF CancelWrite, StatusWrite, taskVars, procVars
<1>3. PICK r \in Meta : meta' = [meta EXCEPT ![j] = r] /\ r.state = call.read.state /\ r.pids = call.read.pids
  <2>1. CASE CancelWrite
    <3>1. /\ [call.read EXCEPT !.cancel = TRUE] \in Meta /\ [call.read EXCEPT !.cancel = TRUE].state = call.read.state
          /\ [call.read EXCEPT !.cancel = TRUE].pids = call.read.pids
      BY <1>1 DEF Meta
    <3> QED
      BY <1>1, <2>1, <3>1 DEF CancelWrite
  <2>2. CASE StatusWrite
    BY <1>1, <2>2 DEF StatusWrite
  <2> QED
    BY <2>1, <2>2
<1>4. /\ meta' \in [Jobs -> Meta] /\ meta'[j] = r /\ \A k \in Jobs \ {j} : meta'[k] = meta[k]
  BY <1>1, <1>3 DEF TypeOK
<1>5. /\ term' \in [Jobs -> BOOLEAN] /\ (term[j] => term'[j])
      /\ \A k \in Jobs \ {j} : term'[k] = term[k]
  <2>1. UNCHANGED term \/ Terminate(j)
    BY <1>1 DEF CancelWrite, StatusWrite, procVars
  <2> QED
    BY <2>1, TerminateMarks DEF TypeOK
<1>6. cancel' \in [Jobs -> BOOLEAN]
  BY <1>1 DEF CancelWrite, StatusWrite, taskVars, TypeOK
<1>7. call' \in Call
  BY <1>0 DEF Call, NoCall, NoMeta, Meta, Ops
<1>8. TypeOK'
  BY <1>2, <1>4, <1>5, <1>6, <1>7 DEF TypeOK
<1>9. JobInv(j)'
  <2>1. JobInv(j)
    OBVIOUS
  <2> QED
    BY <1>1, <1>2, <1>3, <1>4, <1>5, <2>1 DEF JobInv, ProcShape, TaskShape, RecordShape, SupLive, Running, IsUp
<1>10. \A k \in Jobs : JobInv(k)'
  <2>1. \A k \in Jobs \ {j} : SameJob(k)
    BY <1>2, <1>4, <1>5 DEF SameJob
  <2> QED
    BY <1>2, <1>9, <2>1, SameJobInv
<1>11. CallShape'
  BY <1>0 DEF CallShape
<1>12. Held' \subseteq Held
  BY <1>0, <1>1, <1>2, <1>3, <1>4 DEF Held, Reading, IsUp
<1>13. LimitShape'
  BY <1>12, FewerHeld
<1> QED
  BY <1>8, <1>10, <1>11, <1>13

-----------------------------------------------------------------------------
(* The recovery at a server's start                                        *)

\* No job belongs to a server that has not started: its start changes nothing for
\* the jobs.
LEMMA StrangersInv ==
  ASSUME LifecycleInv, NEW s \in Servers, server[s] \in {"new", "boot"}, NEW v \in {"boot", "up"},
         server' = [server EXCEPT ![s] = v], UNCHANGED <<owner, reserved, meta, taskVars, procVars>>
  PROVE  /\ \A j \in Jobs : JobInv(j)' /\ RecordKept(j) /\ (IsUp(owner[j])' <=> IsUp(owner[j]))
         /\ server' \in [Servers -> ServerStates]
<1>0. server' \in [Servers -> ServerStates]
  BY DEF LifecycleInv, TypeOK, ServerStates
<1>1. ASSUME NEW j \in Jobs PROVE JobInv(j)' /\ RecordKept(j) /\ (IsUp(owner[j])' <=> IsUp(owner[j]))
  <2>1. JobInv(j) /\ SameJob(j)
    BY DEF LifecycleInv, SameJob, taskVars, procVars
  <2>2. owner[j] # s
    BY <2>1, LifecycleAssumption DEF JobInv, TaskShape
  <2>3. owner'[j] = owner[j] /\ (owner[j] = NoServer \/ (owner[j] \in Servers /\ server'[owner[j]] = server[owner[j]]))
    BY <2>2 DEF LifecycleInv, TypeOK
  <2>4. IsUp(owner[j])' <=> IsUp(owner[j])
    BY <2>3 DEF IsUp
  <2>5. TaskShape(j)'
    BY <2>1, <2>3, <2>4 DEF JobInv, TaskShape, SameJob, SupLive
  <2> QED
    BY <2>1, <2>4, <2>5 DEF JobInv, SameJob, ProcShape, RecordShape, RecordKept, GroupDone, SupLive, Running
<1> QED
  BY <1>0, <1>1

\* A server takes the lock to start, or releases it.
LEMMA BootInv ==
  ASSUME LifecycleInv, (\E s \in Servers : Boot(s)) \/ Booted
  PROVE  LifecycleInv'
<1> USE DEF LifecycleInv
<1>0. /\ UNCHANGED <<owner, reserved, meta, taskVars, procVars, calls>>
      /\ call' = NoCall \/ \E s \in Servers : /\ call' = [NoCall EXCEPT !.by = s, !.op = "boot"]
                                              /\ server'[s] = "boot"
  BY DEF Boot, Booted, bootFrame, procVars, TypeOK
<1>1. PICK s \in Servers, v \in {"boot", "up"} :
        server[s] \in {"new", "boot"} /\ server' = [server EXCEPT ![s] = v]
  <2>1. CASE Booted
    <3>1. call # NoCall /\ call.op = "boot"
      BY <2>1 DEF Booted, NoCall
    <3> QED
      BY <2>1, <3>1 DEF Booted, CallShape
  <2>2. CASE \E s \in Servers : Boot(s)
    BY <2>2 DEF Boot
  <2> QED
    BY <2>1, <2>2
<1>2. todo' \subseteq Jobs
  BY DEF Boot, Booted, TypeOK
<1>3. call' \in Call /\ CallShape' /\ (call' = NoCall \/ call'.job = NoServer)
  <2>1. CASE call' = NoCall
    BY <2>1 DEF CallShape, Call, NoCall, NoMeta, Meta, Ops
  <2>2. ASSUME NEW t \in Servers, call' = [NoCall EXCEPT !.by = t, !.op = "boot"], server'[t] = "boot"
        PROVE  call' \in Call /\ CallShape' /\ call'.job = NoServer
    <3>1. call'.by = t /\ call'.op = "boot" /\ call'.job = NoServer /\ call' \in Call
      BY <2>2 DEF NoCall, Call, NoMeta, Meta, Ops
    <3> QED
      BY <2>2, <3>1 DEF CallShape
  <2> QED
    BY <1>0, <2>1, <2>2
<1>4. \A j \in Jobs : JobInv(j)' /\ (IsUp(owner[j])' <=> IsUp(owner[j]))
  BY <1>0, <1>1, StrangersInv
<1>5. server' \in [Servers -> ServerStates]
  BY <1>0, <1>1, StrangersInv
<1>6. TypeOK'
  BY <1>0, <1>2, <1>3, <1>5 DEF TypeOK, taskVars, procVars
<1>7. Held' \subseteq Held
  <2>1. ASSUME NEW j \in Jobs PROVE ~Reading(j)' \/ j = NoServer
    BY <1>3 DEF Reading
  <2>2. ASSUME NEW j \in Jobs PROVE ~Reading(j)'
    <3>1. CASE call' = NoCall
      BY <3>1 DEF Reading
    <3>2. CASE call' # NoCall
      <4>1. call'.read = NoMeta
        BY <1>0, <3>2 DEF NoCall
      <4> QED
        BY <4>1 DEF Reading, NoMeta, ActiveStates
    <3> QED
      BY <3>1, <3>2
  <2> QED
    BY <1>0, <1>4, <2>2 DEF Held
<1>8. LimitShape'
  BY <1>7, FewerHeld
<1> QED
  BY <1>3, <1>4, <1>6, <1>8

\* The recovery passes over a record, or reads that of an orphan and kills its group.
LEMMA RecoverGroupInv ==
  ASSUME LifecycleInv, NEW j \in Jobs, RecoverGroup(j)
  PROVE  LifecycleInv'
<1> USE DEF LifecycleInv
<1>0. /\ UNCHANGED <<server, owner, reserved, meta, taskVars, term, sup, calls>>
      /\ call.op = "boot" /\ call # NoCall /\ todo' \subseteq Jobs
  BY DEF RecoverGroup, bootFrame, NoCall, TypeOK
<1>1. CASE ~Orphan(j) /\ UNCHANGED <<call, cmd>>
  <2>1. TypeOK'
    BY <1>0, <1>1 DEF TypeOK, taskVars
  <2>2. \A k \in Jobs : JobInv(k)'
    BY <1>0, <1>1, SameJobInv DEF SameJob, taskVars
  <2>3. CallShape'
    BY <1>0, <1>1, CallKept
  <2>4. Held' \subseteq Held
    BY <1>0, <1>1 DEF Held, Reading, IsUp
  <2> QED
    BY <2>1, <2>2, <2>3, <2>4, FewerHeld
<1>2. CASE /\ Orphan(j)
           /\ call' = [call EXCEPT !.op = "group", !.job = j, !.read = meta[j]]
           /\ cmd' = IF GroupFound(j) THEN [cmd EXCEPT ![j] = "dead"] ELSE cmd
  <2>0. call.by \in Servers /\ server[call.by] = "boot"
    BY <1>0 DEF CallShape
  <2>1. call' \in Call /\ call'.by = call.by /\ call'.op = "group" /\ call'.job = j /\ call'.read = meta[j]
    BY <1>2 DEF TypeOK, Call, Ops
  <2>2. /\ cmd' \in [Jobs -> {"none", "up", "left", "dead"}]
        /\ cmd'[j] = (IF GroupFound(j) THEN "dead" ELSE cmd[j])
        /\ \A k \in Jobs \ {j} : cmd'[k] = cmd[k]
    BY <1>2 DEF TypeOK
  <2>3. TypeOK'
    BY <1>0, <2>1, <2>2 DEF TypeOK, taskVars
  <2>4. /\ JobInv(j) /\ pc[j] # "none" /\ ~IsUp(owner[j]) /\ IsUp(owner[j])' = IsUp(owner[j])
        /\ meta[j].state \in ActiveStates
    BY <1>0, <1>2 DEF Orphan, JobInv, TaskShape, IsUp, ActiveStates
  <2>5. JobInv(j)'
    BY <1>0, <2>2, <2>4 DEF JobInv, ProcShape, TaskShape, RecordShape, GroupFound, SupLive, Running, taskVars
  <2>6. \A k \in Jobs : JobInv(k)'
    <3>1. \A k \in Jobs \ {j} : SameJob(k)
      BY <1>0, <2>2 DEF SameJob, taskVars
    <3> QED
      BY <1>0, <2>5, <3>1, SameJobInv
  <2>7. meta[j].pids => GroupDone(j)'
    BY <1>0, <2>2, <2>4 DEF JobInv, ProcShape, GroupFound, GroupDone, Running
  <2>8. RecordShape(j, meta[j])' /\ meta'[j] = meta[j] /\ pc'[j] = pc[j]
    BY <1>0, <2>5 DEF JobInv, taskVars
  <2>9. CallShape'
    BY <1>0, <2>0, <2>1, <2>4, <2>7, <2>8 DEF CallShape, RecordShape, SupLive, IsUp, ActiveStates, GroupDone, Running
  <2>10. Held' \subseteq Held
    BY <1>0, <2>1, <2>4 DEF Held, Reading, IsUp
  <2> QED
    BY <2>3, <2>6, <2>9, <2>10, FewerHeld
<1> QED
  BY <1>1, <1>2 DEF RecoverGroup

\* The recovery kills the supervisor of a group that it has dealt with.
LEMMA RecoverSupervisorInv ==
  ASSUME LifecycleInv, RecoverSupervisor
  PROVE  LifecycleInv'
<1> USE DEF LifecycleInv, RecoverSupervisor
<1>0. /\ UNCHANGED <<server, owner, reserved, meta, todo, taskVars, term, cmd, calls>>
      /\ call.op = "group" /\ call # NoCall
  BY DEF bootFrame, NoCall
<1>1. PICK j \in Jobs : /\ j = call.job /\ pc[j] # "none" /\ ~IsUp(owner[j])
                        /\ call.read.state # "absent" /\ RecordShape(j, call.read)
                        /\ call.read.pids => GroupDone(j)
  BY <1>0 DEF CallShape
<1>2. call' \in Call /\ call' = [call EXCEPT !.op = "both"] /\ call'.op = "both" /\ call'.by = call.by
      /\ call'.job = j /\ call'.read = call.read
  BY <1>1 DEF TypeOK, Call, Ops
<1>3. /\ sup' \in [Jobs -> SupStates] /\ \A k \in Jobs \ {j} : sup'[k] = sup[k]
      /\ sup'[j] = sup[j] \/ (sup[j] = "up" /\ sup'[j] = "dead" /\ call.read.pids)
  BY <1>1 DEF TypeOK, SupStates
<1>4. TypeOK'
  BY <1>0, <1>2, <1>3 DEF TypeOK, taskVars
<1>5. JobInv(j) /\ IsUp(owner[j])' = IsUp(owner[j])
  BY <1>0 DEF IsUp
<1>6. JobInv(j)'
  BY <1>0, <1>1, <1>3, <1>5 DEF JobInv, ProcShape, TaskShape, RecordShape, GroupDone, SupLive, Running, taskVars
<1>7. \A k \in Jobs : JobInv(k)'
  <2>1. \A k \in Jobs \ {j} : SameJob(k)
    BY <1>0, <1>3 DEF SameJob, taskVars
  <2> QED
    BY <1>0, <1>6, <2>1, SameJobInv
<1>8. CallShape'
  <2>1. RecordShape(j, call.read)'
    BY <1>0, <1>1, <1>3, <1>5 DEF RecordShape, SupLive, taskVars, IsUp
  <2>2. call.by \in Servers /\ server'[call.by] = "boot" /\ pc'[j] # "none" /\ ~IsUp(owner[j])'
    BY <1>0, <1>1, <1>5 DEF CallShape, taskVars
  <2> QED
    BY <1>1, <1>2, <2>1, <2>2 DEF CallShape, RecordShape, SupLive, IsUp
<1>9. Held' \subseteq Held
  BY <1>0, <1>1, <1>2 DEF Held, Reading, IsUp
<1> QED
  BY <1>4, <1>7, <1>8, <1>9, FewerHeld

\* The recovery writes the record of an orphan.
LEMMA RecoverWriteInv ==
  ASSUME LifecycleInv, RecoverWrite
  PROVE  LifecycleInv'
<1> USE DEF LifecycleInv, RecoverWrite
<1>0. /\ UNCHANGED <<server, owner, reserved, todo, taskVars, procVars, calls>>
      /\ call.op = "both" /\ call # NoCall
  BY DEF bootFrame, procVars, NoCall
<1>1. PICK j \in Jobs : /\ j = call.job /\ pc[j] # "none" /\ ~IsUp(owner[j])
                        /\ RecordShape(j, call.read) /\ call.read \in Meta
  BY <1>0 DEF CallShape, TypeOK, Call
<1>2. PICK r \in Meta : /\ meta' = [meta EXCEPT ![j] = r]
                        /\ r.state = "orphaned_recovered" /\ r.pids = call.read.pids
  BY <1>1, RecoveredRecord
<1>3. meta' \in [Jobs -> Meta] /\ meta'[j] = r /\ \A k \in Jobs \ {j} : meta'[k] = meta[k]
  BY <1>2, ZenonT(60) DEF TypeOK
<1>4. call.by \in Servers /\ server'[call.by] = "boot"
  BY <1>0 DEF CallShape
<1>5. call' \in Call /\ call'.by = call.by /\ call'.op = "boot" /\ call'.read = NoMeta
  BY <1>4 DEF NoCall, NoMeta, Call, Meta, Ops
<1>6. TypeOK'
  BY <1>0, <1>3, <1>5 DEF TypeOK, taskVars, procVars
<1>7. JobInv(j)'
  <2>1. JobInv(j) /\ IsUp(owner[j])' = IsUp(owner[j]) /\ r.state \notin ActiveStates /\ r.state # "absent"
    BY <1>0, <1>2 DEF IsUp, ActiveStates
  <2> QED
    BY <1>0, <1>1, <1>2, <1>3, <2>1 DEF JobInv, ProcShape, TaskShape, RecordShape, SupLive, Running, taskVars, procVars
<1>8. \A k \in Jobs : JobInv(k)'
  <2>1. \A k \in Jobs \ {j} : SameJob(k)
    BY <1>0, <1>3 DEF SameJob, taskVars, procVars
  <2> QED
    BY <1>0, <1>7, <2>1, SameJobInv
<1>9. CallShape'
  BY <1>4, <1>5 DEF CallShape
<1>10. Held' \subseteq Held
  <2>1. ASSUME NEW k \in Jobs PROVE ~Reading(k)'
    BY <1>5 DEF Reading, NoMeta, ActiveStates
  <2> QED
    BY <1>0, <1>1, <1>3, <2>1 DEF Held, IsUp
<1> QED
  BY <1>6, <1>8, <1>9, <1>10, FewerHeld

-----------------------------------------------------------------------------
(* The end of a server                                                     *)

\* A server loses its client and cancels its tasks: it is up as before.
LEMMA CloseInv ==
  ASSUME LifecycleInv, NEW s \in Servers, Close(s) \/ CancelTasks(s)
  PROVE  LifecycleInv'
<1> USE DEF LifecycleInv
<1>0. /\ UNCHANGED <<owner, reserved, recVars, pc, stop, told, procVars>> /\ IsUp(s)
      /\ cancel' \in [Jobs -> BOOLEAN] /\ calls' \in 0..MaxCalls
  <2>1. UNCHANGED <<owner, reserved, recVars, pc, stop, told, procVars>> /\ IsUp(s)
    BY DEF Close, CancelTasks, Serves, Ready
  <2>2. cancel' \in [Jobs -> BOOLEAN]
    <3>1. cancel \in [Jobs -> BOOLEAN]
      BY DEF TypeOK
    <3>2. PICK C \in SUBSET Jobs : cancel' = cancel \/ cancel' = [j \in Jobs |-> cancel[j] \/ j \in C]
      <4>1. CASE Close(s)
        <5>1. \/ UNCHANGED cancel
              \/ cancel' = [j \in Jobs |-> cancel[j] \/ (j \in Requests(s) /\ InRequest(j))]
          BY <4>1 DEF Close
        <5>2. [j \in Jobs |-> cancel[j] \/ (j \in Requests(s) /\ InRequest(j))]
                = [j \in Jobs |-> cancel[j] \/ j \in {k \in Jobs : k \in Requests(s) /\ InRequest(k)}]
          OBVIOUS
        <5>3. {k \in Jobs : k \in Requests(s) /\ InRequest(k)} \in SUBSET Jobs
          OBVIOUS
        <5> QED
          BY <5>1, <5>2, <5>3
      <4>2. CASE CancelTasks(s)
        <5>1. cancel' = [j \in Jobs |-> cancel[j] \/ j \in TasksOf(s)]
          BY <4>2 DEF CancelTasks
        <5>2. TasksOf(s) \in SUBSET Jobs
          BY DEF TasksOf
        <5> QED
          BY <5>1, <5>2
      <4> QED
        BY <4>1, <4>2
    <3> QED
      BY <3>1, <3>2, Zenon
  <2>3. calls' \in 0..MaxCalls
    BY LifecycleAssumption DEF Close, CancelTasks, TypeOK
  <2> QED
    BY <2>1, <2>2, <2>3
<1>1. PICK v \in {"closing", "ending"} : server' = [server EXCEPT ![s] = v]
  BY DEF Close, CancelTasks
<1>2. /\ server' \in [Servers -> ServerStates] /\ server'[s] = v
      /\ \A t \in Servers \ {s} : server'[t] = server[t]
  BY <1>1 DEF TypeOK, ServerStates
<1>3. server[s] \notin {"new", "boot"} /\ s # NoServer
  BY <1>0 DEF IsUp
<1>4. TypeOK'
  BY <1>0, <1>2 DEF TypeOK, recVars, procVars
<1>5. ASSUME NEW j \in Jobs PROVE JobInv(j)' /\ RecordKept(j) /\ (IsUp(owner[j])' <=> IsUp(owner[j]))
  <2>1. JobInv(j) /\ SameJob(j)
    BY <1>0 DEF SameJob, recVars, procVars
  <2>2. owner'[j] = owner[j] /\ (owner[j] = NoServer \/ owner[j] \in Servers)
    BY <2>1 DEF SameJob, TypeOK
  <2>3. IsUp(owner[j])' <=> IsUp(owner[j])
    BY <1>0, <1>2, <2>2 DEF IsUp
  <2>4. owner[j] # NoServer => (server'[owner'[j]] \in {"new", "boot"} <=> server[owner[j]] \in {"new", "boot"})
    BY <1>2, <1>3, <2>2
  <2>5. TaskShape(j)'
    BY <2>1, <2>2, <2>3, <2>4 DEF JobInv, TaskShape, SameJob, SupLive
  <2> QED
    BY <2>1, <2>3, <2>5 DEF JobInv, SameJob, ProcShape, RecordShape, RecordKept, GroupDone, SupLive, Running
<1>6. CallShape'
  <2> SUFFICES ASSUME call # NoCall PROVE CallShape'
    BY <1>0 DEF CallShape, recVars
  <2>1. call.op # "boot" => call.job \in Jobs /\ pc[call.job] # "none"
    BY DEF CallShape
  <2>2. call.by \in Servers /\ server[call.by] = "boot" => server'[call.by] = "boot"
    BY <1>2, <1>3
  <2> QED
    BY <1>0, <1>5, <2>1, <2>2, CallKept DEF recVars
<1>7. Held' \subseteq Held
  BY <1>0, <1>5 DEF Held, Reading, recVars
<1> QED
  BY <1>4, <1>5, <1>6, <1>7, FewerHeld

\* A server ends: its tasks are gone, and its armed supervisors have their SIGTERM.
LEMMA DieInv ==
  ASSUME LifecycleInv, NEW s \in Servers, Die(s)
  PROVE  LifecycleInv'
<1> USE DEF LifecycleInv, Die
<1>0. UNCHANGED <<owner, reserved, meta, told, sup, cmd, calls>> /\ todo' \subseteq Jobs
  BY DEF TypeOK
<1>1. /\ pc' \in [Jobs -> PCs] /\ stop' \in [Jobs -> Reasons]
      /\ \A j \in Jobs : pc'[j] = IF owner[j] = s /\ pc[j] \in TaskPCs THEN "gone" ELSE pc[j]
      /\ \A j \in Jobs : stop'[j] = IF owner[j] = s THEN "none" ELSE stop[j]
  BY DEF TypeOK, PCs, Reasons
<1>2. /\ term' \in [Jobs -> BOOLEAN] /\ cancel' \in [Jobs -> BOOLEAN]
      /\ \A j \in Jobs : (term[j] \/ ParentDeath(s, j)) => term'[j]
  BY DEF TypeOK, ParentDeath
<1>3. server' \in [Servers -> ServerStates] /\ server'[s] = "down"
      /\ \A t \in Servers \ {s} : server'[t] = server[t]
  BY DEF TypeOK, ServerStates
<1>4. call' \in Call /\ (call' = NoCall \/ (call' = call /\ call.by # s))
  BY DEF TypeOK, Call, NoCall, NoMeta, Meta, Ops
<1>5. TypeOK'
  BY <1>0, <1>1, <1>2, <1>3, <1>4 DEF TypeOK, PCs, Reasons
<1>6. ASSUME NEW j \in Jobs
      PROVE  /\ owner[j] = s => ~IsUp(owner[j])'
             /\ owner[j] # s => (IsUp(owner[j])' <=> IsUp(owner[j]))
  BY <1>0, <1>3 DEF IsUp, TypeOK
<1>7. ASSUME NEW j \in Jobs PROVE JobInv(j)' /\ RecordKept(j)
  <2>1. /\ JobInv(j) /\ owner'[j] = owner[j] /\ reserved'[j] = reserved[j] /\ told'[j] = told[j]
        /\ sup'[j] = sup[j] /\ cmd'[j] = cmd[j] /\ meta'[j] = meta[j]
        /\ pc'[j] \in {pc[j], "gone"} /\ (pc'[j] # pc[j] => pc[j] \in TaskPCs)
        /\ (term[j] => term'[j]) /\ (owner[j] = s => pc'[j] \notin TaskPCs)
        /\ (owner[j] # s => stop'[j] = stop[j])
    BY <1>0, <1>1, <1>2 DEF TaskPCs
  <2>2. pc'[j] # "none" => pc[j] # "none" /\ server'[owner'[j]] \notin {"new", "boot"}
    <3>1. pc[j] # "none" => owner[j] \in Servers /\ server[owner[j]] \notin {"new", "boot"}
      BY <2>1 DEF JobInv, TaskShape, TypeOK
    <3> QED
      BY <1>3, <2>1, <3>1 DEF TaskPCs
  <2>3. ProcShape(j)'
    BY <1>2, <1>6, <2>1 DEF JobInv, ProcShape, ParentDeath, Running
  <2>4. TaskShape(j)'
    BY <1>6, <2>1, <2>2 DEF JobInv, TaskShape, SupLive, TaskPCs
  <2>5. RecordKept(j)
    BY <1>6, <2>1 DEF RecordKept, RecordShape, GroupDone, Running, SupLive, TaskPCs
  <2>6. RecordShape(j, meta[j])'
    BY <1>6, <2>1 DEF JobInv, RecordShape, SupLive, TaskPCs
  <2> QED
    BY <2>3, <2>4, <2>5, <2>6 DEF JobInv
<1>8. CallShape'
  <2> SUFFICES ASSUME call' = call, call # NoCall, call.by # s PROVE CallShape'
    BY <1>4 DEF CallShape
  <2>1. call.op # "boot" => call.job \in Jobs /\ pc[call.job] # "none" /\ RecordShape(call.job, call.read)
    BY DEF CallShape
  <2>2. call.op # "boot" => RecordShape(call.job, call.read)' /\ pc'[call.job] # "none"
    <3>1. call.op # "boot" => RecordKept(call.job) /\ call.read \in Meta /\ call.read.state # "absent"
      BY <1>7, <2>1 DEF CallShape, TypeOK, Call
    <3> QED
      BY <1>1, <2>1, <3>1 DEF RecordKept, RecordShape, SupLive, IsUp
  <2>3. call.op \in {"group", "both"} => ~IsUp(owner[call.job])'
    BY <1>6, <2>1 DEF CallShape
  <2>4. call.op = "group" /\ call.read.pids => GroupDone(call.job)'
    BY <1>0 DEF CallShape, GroupDone, Running
  <2>5. call.op \in {"boot", "group", "both"} => call.by \in Servers /\ server'[call.by] = "boot"
    BY <1>3 DEF CallShape
  <2> QED
    BY <2>1, <2>2, <2>3, <2>4, <2>5 DEF CallShape
<1>9. Held' \subseteq Held
  <2> SUFFICES ASSUME NEW j \in Jobs, reserved'[j], IsUp(owner[j])', meta'[j].state \in ActiveStates \/ Reading(j)'
               PROVE  reserved[j] /\ IsUp(owner[j]) /\ (meta[j].state \in ActiveStates \/ Reading(j))
    BY DEF Held
  <2>1. IsUp(owner[j])
    BY <1>6
  <2> QED
    BY <1>0, <1>4, <2>1 DEF Reading
<1>10. LimitShape'
  BY <1>9, FewerHeld
<1> QED
  BY <1>5, <1>7, <1>8, <1>10

-----------------------------------------------------------------------------
(* The invariant holds                                                     *)

\* In the beginning there is no job.
LEMMA InitInv == Init => LifecycleInv
<1> SUFFICES ASSUME Init PROVE LifecycleInv
  OBVIOUS
<1>1. NoMeta \in Meta /\ NoCall \in Call
  BY DEF NoMeta, NoCall, Meta, Call, Ops
<1>2. TypeOK
  BY <1>1, LifecycleAssumption DEF Init, TypeOK, ServerStates, SupStates
<1>3. \A j \in Jobs : JobInv(j)
  BY DEF Init, JobInv, ProcShape, TaskShape, RecordShape, SupLive, Running, TaskPCs, NoMeta, TerminalStates
<1>4. CallShape
  BY DEF Init, CallShape
<1>5. Held = {}
  BY DEF Init, Held
<1>6. Cardinality({}) = 0
  BY FS_EmptySet
<1>7. LimitShape
  BY <1>5, <1>6, LifecycleAssumption DEF LimitShape
<1> QED
  BY <1>2, <1>3, <1>4, <1>7 DEF LifecycleInv

\* Every step preserves the invariant.
LEMMA NextInv == LifecycleInv /\ [Next]_vars => LifecycleInv'
<1> SUFFICES ASSUME LifecycleInv, [Next]_vars PROVE LifecycleInv'
  OBVIOUS
<1>1. ASSUME NEW s \in Servers, Boot(s) \/ Close(s) \/ CancelTasks(s) \/ Die(s) PROVE LifecycleInv'
  BY <1>1, BootInv, CloseInv, DieInv
<1>2. ASSUME NEW s \in Servers, NEW j \in Jobs,
             Reserve(s, j) \/ GoUnreserved(s, j) \/ CancelRead(s, j) \/ StatusRead(s, j)
      PROVE  LifecycleInv'
  BY <1>2, ReserveInv, ReadInv
<1>3. CASE CancelWrite \/ StatusWrite \/ Recovery
  BY <1>3, WriteInv, BootInv, RecoverGroupInv, RecoverSupervisorInv, RecoverWriteInv DEF Recovery
<1>4. ASSUME NEW j \in Jobs,
             RequestCancelled(j) \/ Task(j) \/ Supervisor(j) \/ CommandExits(j) \/ OutputEnds(j)
      PROVE  LifecycleInv'
  BY <1>4, RegisterInv, StartInv, StopInv, EndInv, SupervisorInv DEF Task
<1>5. CASE UNCHANGED vars
  <2>1. UNCHANGED <<server, owner, reserved, meta, call, todo, pc, stop, cancel, told, sup, term, cmd, calls>>
    BY <1>5 DEF vars, recVars, taskVars, procVars
  <2>2. TypeOK'
    BY <2>1 DEF LifecycleInv, TypeOK
  <2>3. \A j \in Jobs : JobInv(j)'
    BY <2>1, SameJobInv DEF LifecycleInv, SameJob
  <2>4. CallShape'
    BY <2>1 DEF LifecycleInv, CallShape, RecordShape, GroupDone, Running, SupLive, IsUp
  <2>5. LimitShape'
    BY <2>1 DEF LifecycleInv, LimitShape, Held, Reading, IsUp
  <2> QED
    BY <2>2, <2>3, <2>4, <2>5 DEF LifecycleInv
<1> QED
  BY <1>1, <1>2, <1>3, <1>4, <1>5 DEF Next

\* Records, tasks and processes stay consistent whatever the servers' updates, the
\* jobs' unlocked writes, deaths and recoveries do to each other (server.py).
THEOREM LifecycleInvariant == Spec => []LifecycleInv
BY InitInv, NextInv, PTL DEF Spec

-----------------------------------------------------------------------------
(* What follows from it                                                    *)

\* Every variable of the job lifecycle keeps its type.
THEOREM TypeCorrect == Spec => []TypeOK
<1>1. LifecycleInv => TypeOK
  BY DEF LifecycleInv
<1> QED
  BY <1>1, LifecycleInvariant, PTL

\* MAX_ACTIVE_JOBS bounds the commands that run under live servers on a reservation:
\* every one of them is counted by _reserve_job, also after an update that raced with
\* the job's own write has put an older record back (server.py:655-686).
THEOREM Limit == Spec => []ActiveLimit
<1>1. LifecycleInv => ActiveLimit
  <2> SUFFICES ASSUME LifecycleInv PROVE ActiveLimit
    OBVIOUS
  <2> DEFINE Live == {j \in Jobs : reserved[j] /\ Running(j) /\ sup[j] = "up" /\ IsUp(owner[j])}
  <2>1. Live \subseteq Held
    <3> SUFFICES ASSUME NEW j \in Jobs, reserved[j], Running(j), sup[j] = "up", IsUp(owner[j])
                 PROVE  meta[j].state \in ActiveStates
      BY DEF Held
    <3>1. JobInv(j) /\ meta[j].state \in States
      BY DEF LifecycleInv, TypeOK, Meta, States
    <3> QED
      BY <3>1 DEF JobInv, RecordShape, SupLive, States
  <2>2. IsFiniteSet(Held) /\ Cardinality(Held) \in Nat /\ Cardinality(Held) <= MaxActive
    BY HeldFinite DEF LifecycleInv, LimitShape
  <2>3. IsFiniteSet(Live) /\ Cardinality(Live) <= Cardinality(Held)
    BY <2>1, <2>2, FS_Subset, Zenon
  <2>4. Cardinality(Live) \in Nat
    BY <2>3, FS_CardinalityType
  <2>5. Cardinality(Live) <= MaxActive
    BY <2>2, <2>3, <2>4, LifecycleAssumption
  <2> QED
    BY <2>5 DEF ActiveLimit
<1> QED
  BY <1>1, LifecycleInvariant, PTL

\* A running command has its supervisor, or lost it to a SIGKILL of its own server:
\* the last resort after a SIGTERM, or a spawn given up, of which no record has pids.
\* Recovery, which kills the group and the supervisor in two steps, the servers'
\* deaths and the supervisor's own exits leave no group behind (server.py:295-314,
\* 1089-1107, 1400, job_exec.py:35-41, 87-94).
THEOREM Supervised == Spec => []CommandSupervised
<1>1. LifecycleInv => CommandSupervised
  BY DEF LifecycleInv, JobInv, ProcShape, RecordShape, CommandSupervised
<1> QED
  BY <1>1, LifecycleInvariant, PTL

\* A terminal record, or a bridge that was told, means a command that is over, or
\* one recovered and already being terminated (unless its supervisor was killed by
\* its own server).
THEOREM TerminalOver == Spec => []TerminalMeansOver
<1>1. LifecycleInv => TerminalMeansOver
  BY DEF LifecycleInv, JobInv, ProcShape, TaskShape, RecordShape, SupLive, Running, TerminalMeansOver
<1> QED
  BY <1>1, LifecycleInvariant, PTL

\* Recovery at a server's start marks no job whose task runs on, although the
\* servers do not know each other's tasks (server.py:282-292).
THEOREM OnlyOrphans == Spec => []RecoveryOnlyOrphans
<1>1. LifecycleInv => RecoveryOnlyOrphans
  BY DEF LifecycleInv, JobInv, RecordShape, RecoveryOnlyOrphans
<1> QED
  BY <1>1, LifecycleInvariant, PTL

=============================================================================
