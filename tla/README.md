# TLA+ verification of codex-mcp-longrun

codex-mcp-longrun runs long commands for a Codex session.  An MCP server starts
a command under a supervisor and answers at once; a bridge next to the Codex App
Server pauses the session's durable Goal while the command runs and resumes it
when the command has ended.  The hard parts are not in any one function: they
are the windows between two awaits, between two processes that share a
directory, between a request and its late effect.  This project models those.

## 1. Inventory

| component | source | state it keeps | operations |
|---|---|---|---|
| Goal bridge | `bridge.py` | per job a delivery and a deadline task; per thread an event, a buffer of pause notifications, an expected status and a control lock | `prepare`, `terminal`, `abort`, notification handler, user control, deadline, recovery |
| Lease store | `bridge_state.py` | SQLite table `wake_leases`, unique index on the live rows of a thread | `create_lease`, `update`, `pending`, `live_for_thread` |
| App Server client | `app_server_client.py` | pending calls, reader task | `call` with a 10 s limit, notifications |
| MCP server | `server.py` | one JSON record per job, an flock over all of them, background tasks | `start_job`, `run_and_wait`, `get_job`, `cancel_job`, `cancel_wakeup`, recovery at start |
| Job supervisor | `job_exec.py` | the command's process group | parent-death signal, grace, kill, reap |
| Bridge protocol | `bridge_protocol.py` | none | one bounded request over a Unix socket |
| Session bridge | `session_bridge.py` | session columns of the lease, the owning TUI peer, the observed turn | `prepare`, `handoff`, `terminal`, `deliver`, `cancel_wakeup`, user activity |
| TUI proxy | `tui_proxy.py` | pending ids, summaries, tail caches, an activity lock | forwarding both ways, guarded full reads, user controls |
| One-time secrets | `secret_input.py` | staged files | stage, prune, claim one or two |
| Launcher, coordinator, parent guard | `launcher.py`, `coordinator.py`, `parent_guard.py` | child processes, a runtime directory | start in order, end together |
| Output and log tail | `server.py` | bounded tail, matches, byte counts | `feed_text`, `_drain_output`, `read_log_tail` |
| Validation, transport, scripts | `server.py`, `scripts/` | none at run time | |

How they interact.  The MCP server sends `prepare`, `terminal` and `abort` to
the bridge; each request can be lost or answered too late.  The bridge calls the
App Server and hears of changes by notifications that are not ordered with its
replies.  The user's Goal controls come over the TUI's own connection, through
the proxy, which asks the bridge first.  Several MCP servers (one per Codex
process) share the job directory; a server's own tasks exclude each other
between awaits, other servers only through the flock, which a job's own task
does not take for most of its writes.  The supervisor knows its server only by
the parent-death signal.

What makes the parts correct:

* bridge: one live lease per thread; at most one activation per job; no revived
  lease; a pending lease is revoked by the user's word; a live lease always has
  a task that will settle it; a lease left alone ends with the Goal resumed;
* server: the limit on active jobs; no terminal record while the command runs;
  recovery of exactly the abandoned jobs; every task and every command ends;
* session bridge: the originating turn is interrupted once, one receipt is
  recorded, one continuation turn is started, in this order and never again;
  whatever the user does meanwhile wins;
* secrets: a handle is consumed once, a command gets all of its input or does not
  start, a refused job consumes nothing;
* launcher: nothing survives the session, and the session does not hang.

The hazards, each at its line and with the properties aimed at it, are listed in
`PROJECT.json`.

## 2. Modules

| module | models | notes |
|---|---|---|
| `AppServer` | the Codex App Server (external) | Goal, thread status, calls in flight, notifications |
| `GoalBridge` | `bridge.py`, `bridge_state.py`, the client's timeouts | extends `AppServer` |
| `WakeLease` | what the bridge promises | abstract specification |
| `JobLifecycle` | the job side of `server.py`, and `job_exec.py` | several servers, one directory |
| `GoalBridgeProofs` | type correctness of `GoalBridge` | proofs |
| `LeaseProofs` | the lease invariant and its consequences | proofs |
| `RefinementProofs` | `GoalBridge` implements `WakeLease`; retired rows | proofs |
| `CallProofs` | the calls in flight of `GoalBridge` | proofs |
| `SessionBridge` | `session_bridge.py`, the connections of `tui_proxy.py`, the session requests of `server.py` | with its own view of the App Server |
| `SecretInput` | `secret_input.py` and its use by `server.py` | several processes, one directory |
| `Launcher` | `launcher.py`, `parent_guard.py` | a process tree and its signals |
| `JobLifecycleProofs`, `SessionBridgeProofs`, `SecretInputProofs`, `LauncherProofs` | type correctness and every safety property of the module they are named after | proofs |
| `MCGoalBridge`, `MCJobLifecycle`, `MCSessionBridge`, `MCSecretInput`, `MCLauncher` | | model values and symmetry |

Definitions named `Mut...` are faulty variants of the definition that follows
them (a dropped guard, a missing reset); they are used by nothing and document
which mistake a property detects.

### 2.1 GoalBridge

One thread, any number of jobs.  A task is a program counter that names the
await at which it is; what the code does between two awaits is one action, so an
action is the whole straight-line piece with all its effects.

| code | state |
|---|---|
| `wake_leases` row | `state`, `delivery`, `terminal`, `identity` (objective and createdAt), `revision` (goal_updated_at) |
| `_prepare` | `prep`, `pausedAt`; its call in `prepCall`, `prepVal` |
| `_delivery_tasks`, `_deliver` | `deliver`, `cancelled`; its call in `wakeCall`, `wakeVal` |
| `_deadline_tasks` | `deadline` |
| `_thread_events`, `_pause_notifications`, `_expected_goal_status` | `event`, `buffering` and `buffer`, `expected` |
| `_goal_controls` lock | held exactly while some `deliver` is at `check`, `get` or `set` |
| user control waiting for that lock | `user` |

`_prepare` is `Prepare`, `PrepareSnapshot`, `PreparePaused`, `PrepareConfirm`,
`PrepareTimeout`; `_deliver` with `_wait_until_idle` and `_activate_goal` is
`DeliverStart`, `DeliverRead`, `DeliverReread`, `DeliverWait`, `DeliverLock`,
`DeliverCheck`, `DeliverActivate`, `DeliverActivated`, `DeliverTimeout`,
`DeliverUnwind`.  A call that times out leaves a written `goal/set` in flight
(`"late"`): the App Server may still apply it.  `Crash` loses everything in
memory and keeps the rows; `Restart` is `start` with `_recover_lease`, for a
bridge run again on the same database.  With the launcher nobody does that: the
end of the coordinator is the end of the session (launcher.py:236-257), so
`Restart` may happen and is never assumed to.

Three history variables serve the properties: `wakes`, `touched`, and in
`AppServer` `writer` and `held`.

### 2.2 AppServer (external)

Modelled from its use: `goal/set` stamps the current second, so two changes may
carry one `updatedAt`; replies and notifications travel independently
(bridge.py:41); notifications keep their order.  `OutsideChange` stands for other
clients and for Goal accounting.

### 2.3 JobLifecycle

`pc` is the await of the job's task: `register` (the bridge's answer), `begin`
(task created), `spawn` (in `create_subprocess_exec`, the supervisor already
forked), `pgid`, `run`, `stop` (`_terminate_process`, with its
reason in `stop`), `drain` (the reader, output still open), `drained`, `report`
(the terminal event).  A server's locked update of another server's record is a
read and a write, because unlocked writers come in between; the updates of the
owner have no await between read and write and are one step.  `sup`, `term` and
`cmd` are the processes: `cmd = "left"` means that the leader has exited and
descendants of its group may live.

The supervisor is `boot` until `prctl`, `armed` until it has looked at its parent,
`up` once it has forked the command; a server that dies sends SIGTERM only to the
last two.  A cancellation or a failure in `spawn` makes asyncio close the
transport, which kills the supervisor alone, as the last resort of
`_terminate_process` does: `sup = "killed"`.

A server is `boot` while it recovers orphans at start, one record after the other
and each in three steps (the group, the supervisor, the record), under the flock
but beside everything that does not take it; then `up`.  `Close` is the end of its
client: the requests in progress may be cancelled, then `CancelTasks` is
asyncio.run's cancellation of what is left, and `Die` its end (or its death
anywhere).

A request that does not validate goes on without a reservation and is validated
again in `_execute_job` (`GoUnreserved`): it may fail there, or succeed and run
past the limit.  `reserved` remembers which jobs have a place under it.

Abstracted: the result states that the command decides are one (`finished`), the
two limits are one (`timed_out`); a restarted server is another member of
`Servers`, since a pid counts only with its start time; the bridge is a request
that succeeds or fails.

### 2.4 SessionBridge

One thread, any number of jobs and TUI connections.  In session mode a job has
one task at a time (its `prepare` handler, its `handoff` handler, its delivery
task), so one program counter `op` names the await it is at and `via` the
connection it uses.

| code | state |
|---|---|
| `wake_leases` row | `row` (state, delivery_state, handoff_state); `callTurn` is turn_id |
| `lease_peers`, `peers`, `ambiguous_threads`, `calls` | `leasePeer`, `peer`, `ambiguous`, `calls` |
| `turn_done` | `done` |
| `activity_lock` of a connection | held while `op` is in `Locked` and `via` names the connection |
| `internal_requests` | `reply` (`"wait"` while a call is pending) |
| the two directions of a connection | `up`, `down`: sequences, in order |
| `start_job`'s side | `mcp`, `job` |

Events and replies share a connection's order, but the App Server may write the
event of a request before or after its reply (`PublishAndReply`).  A request that
has been written is served even when its sender timed out or is gone.  Every
subscribed connection gets the events of the thread, those of other tools too
(`OtherItem`): two of them make it ambiguous.  `quiet` turns false as soon as somebody interferes or something is
too slow; `touched` marks jobs whose pending lease met user activity.

Abstracted: the Goal is `eligible` (none or complete) or `pending`; the Goal mode
of the same bridge is `GoalBridge`, and a thread has either kind of lease.  All
session-relevant messages are four (`UserMessages`): those that start a turn, end
one, change the Goal, or only announce the user.  `Restart` is the coordinator's
end and the recovery by a successor on the same database in one step: between the
two nothing of the bridge runs, and the launcher starts no successor
(launcher.py:244-257, docs/SESSION_WAKEUP.md:82-84), so the settlement of leases
across an end is conditional on somebody who does.

### 2.5 SecretInput

A handle is a directory entry with an mtime; creators, claimers and pruning
creators interleave between system calls, since they are processes of their own.
`got` records whose `unlink` succeeded: that call decides a race.  `Size`,
`MaxBytes`, `Envelope` and `Base64` keep the arithmetic of the pair's limit (two
values that fit raw may not fit encoded).  An entry's lstat and unlink in
`_prune_expired` are one step (a creator that writes in between loses a fresh
file in the code, and the claim of its handle fails); the checks of owner, mode and file type hold for
files in a private directory and are left out.

### 2.6 Launcher

The launcher's program is `pc`; each guard has the stages of `main` and
`_supervise` (no handlers, not armed, not forked, running); its command the
stages of the child before `exec`; `kin` is a descendant in the command's group.
A dying parent closes its pipe ends, then sends its armed children SIGTERM and
nothing to others; SIGTERM may
be ignored by a daemon and by a descendant, SIGKILL may not.  `Cancel` is Ctrl-C,
`LauncherKilled` any end without the `finally` clause, `GuardKilled` the loss of a
guard.  `Punctual` says that a guard's 2 s escalation, once due, comes before the
launcher's 5 s are over.  `StopTui` ends the TUI at once: its own 5 s and SIGKILL
(launcher.py:72-80) delay what follows and nothing depends on that.  A second
Ctrl-C is `LauncherKilled`; asyncio's transports may then also kill guards, whose
loss `GuardKilled` and `KillGuard` stand for.

## 3. Runs

Bounds are named constants; each is the least that lets the cases meet.

| run | instance | shows |
|---|---|---|
| `bridge_two_jobs` | 2 jobs, 1 Goal, failures, 1 restart, 2 seconds | `OneLiveLease`, `WakesAtMostOnce`, `RetiredStaysRetired`, and `LeaseSpec`: the bridge implements `WakeLease` |
| `bridge_one_job` | 1 job, 2 Goals, 1 user control, 1 outside change, failures, 1 restart | `TypeOK`, `LeaseHasDriver`, `EarlyTerminalKept`, `UserControlRevokes`, `PauseRecorded`, `LeaseSettles`, `ControlForwarded` |
| `bridge_quiet` | 1 job, 3 seconds, 1 further turn, 1 accounting, 1 restart, nobody else | `QuietLeaseWakes` |
| `lifecycle` | 2 jobs (one of each kind), 2 servers, limit 1, 1 call or closed client | `TypeOK`, `ActiveLimit`, `CommandSupervised`, `TerminalMeansOver`, `RecoveryOnlyOrphans` |
| `lifecycle_liveness` | 2 jobs, limit 2, 1 server that may close or die, 1 call | `TaskEnds`, `CommandEnds` |
| `session` | 2 jobs, 1 connection, 1 act, 1 restart | `TypeOK`, `OneLiveLease`, `OneWakeAfterReceipt`, `LeaseHasDriver`, `RetiredStaysRetired` |
| `session_liveness` | 1 job, 2 connections, 1 act, 1 restart | `UserActivityRevokes`, `LeaseSettles`, `MessageForwarded`, `QuietSessionWakes` |
| `secrets` | 2 jobs, 3 handles, alone or in pairs, 2 ticks | `TypeOK`, `ConsumedOnce`, `WholeInputOnly`, `RefusedConsumesNothing`, `NoDescriptorLeft` |
| `launcher` | the tree, 1 guard killed from outside | `TypeOK`, `GuardLeavesNothing`, `OrphanWarned`, `DirOutlivesDaemons`, `NoOrphan`, `SessionEnds` |

Why these bounds.  Two jobs are enough for a second registration to meet every
phase of the first; rows of different jobs interact only through the unique
index, the shared buffer and the lock.  Two values of the clock tell "same
second" from "later"; `bridge_quiet` has a third for a pause between an
accounting and a later turn.  `MaxBuffer = 2` (64 in the code) makes an overflow by three
notifications happen.  One restart suffices for every row state to be recovered.
In `lifecycle`, `MaxActive = 1` with two jobs makes the limit bite, two servers
let one recover the other's jobs, and one call is a cancellation, an update or a
closed client that meets every phase of both; that a second cancellation meets the
first is `lifecycle_cancel_twice`.  `Unsure` limits to one job the requests that
may fail to validate at first; in `lifecycle_liveness` they all may, and with
both the safety properties were checked too (3.4 million states).  In `session` a second job can be
started in the continuation turn of the first or next to it; two connections in
`session_liveness` are what ambiguity and a change of owner need; one act of the
user meets every phase of a handoff and of a delivery (for a second connection
its arrival is that act; the safety properties were also checked with two acts,
one job and two connections, 1 129 355 states).  In `secrets` the sizes
are chosen so that a pair fits or exceeds the limit only through its encoding,
and the clock passes the lifetime of a handle.
Deadlock is not checked: the systems stop when the jobs are
through.

Fairness (only in the liveness runs).  The event loop runs every ready task, so
the steps of a task are weakly fair; `asyncio.Lock` serves waiters in order, hence
strong fairness for taking it (`DeliverLock`, `ForwardControl`), which other
holders disable again and again; timers fire (`ExpireAtDeadline`).  Of the App
Server: it answers, and a turn ends.  Nobody restarts a bridge that stopped, so
`LeaseSettles` and `QuietLeaseWakes` are about a bridge that runs (`connected`),
the first one or a successor; a lease whose bridge never comes back stays as it
is, its Goal paused.  In `JobLifecycle` a live server runs its tasks and whoever
has the flock goes on, the supervisor's loop runs; no server need start.  In
`SessionBridge` the same holds of tasks, locks (`LockStep`, `ForwardMessage`)
and the App Server; timers are fair only once something has interfered
(`DueTimeout`, `DueDeadline`), so that `QuietSessionWakes` cannot be met by
waiting for a timeout.  In `Launcher` every process that can run runs and
time passes; SIGKILL has its effect, SIGTERM need not.  Nothing is
assumed of users, clients, commands, the end of a command's output, or the
arrival of the terminal event.

### Disagreements between documents and code

Three runs check what a document says, and find it violated:

* `bridge_user_pause` / `UserPauseKept`: a TUI pause between `_prepare`'s
  `goal/get` and `create_lease` is not recorded; the Goal is later resumed.
* `bridge_serialized` / `ControlsSerialized`: after the activation's 10 s timeout
  the control lock is free and the request still in flight (bridge.py:371), so a
  user's pause can be forwarded beside it and be overwritten
  (docs/EVENT_DRIVEN_WAKEUP.md:64-66).  What does hold is proved in `CallProofs`
  (`Serialized`): only a request whose lease already says `needs_manual_recovery`
  can overlap a control.
* `lifecycle_cancel_twice` / `CancelledSettles`: a second `cancel_job` during
  `_terminate_process` escapes the handler (anyio's shield does not hold back
  `task.cancel()`); no terminal record is written, no event sent.

The models also reach the following, for which there is no run of its own:

* `_prepare`'s pause overwrites a completion that was applied while the pause was
  on its way (bridge.py:182; README.md:415-417 says that completing a Goal
  abandons the lease).
* A notification of the Goal's accounting before the pause that is handled only
  after the commit, from the same second as the pause, is not older than it and
  not `paused`: it is taken for a manual change and the wakeup is lost
  (bridge.py:478-485).  `QuietLeaseWakes` starts from leases with no such
  notification under way.
* A job cancelled in `create_subprocess_exec` (server.py:1400) loses its supervisor
  to asyncio's SIGKILL; a command that was already forked runs on with nobody to
  end it, its record stays `starting` and no pids are known to a recovery.
  `CommandSupervised`, `TerminalMeansOver` and `CommandEnds` allow exactly this and
  the last resort.
* A job whose arguments did not validate in `start_job` (a directory that is not
  there yet, say) and do in `_execute_job` runs without a reservation, beside
  `MAX_ACTIVE_JOBS` others (server.py:1715-1718, 1941-1944).
* `os.pipe` fails for `run_and_wait`: the exception leaves `_execute_job`
  (server.py:1384-1387) and the record stays `starting`, counted, while its server
  lives.
* A descendant that left the group and holds the output keeps the task in
  `await reader_task` beyond every limit (server.py:1527); `TaskEnds` ends there.
* `abort` and `cancel_wakeup` of a session lease that is already over abandon
  whichever lease is live on the thread (session_bridge.py:61, 311), although
  server.py:739 speaks of "the exact job/thread lease".
* `cancel_wakeup` while `turn/start` is in flight answers
  `wakeup_cancelled: true`, and the MCP server records `cancelled_by_user`; the
  continuation turn starts all the same (session_bridge.py:58-62, bridge.py:489).
* The deadline passes while `turn/start` is in flight: the row says `failed` and
  then, when the reply comes, `delivered`.  `RetiredStaysRetired` allows exactly
  this.
* `prepare` outlasts the MCP server's 5 s and commits after the abort: the lease
  stays armed, for a job that never ran, until its deadline.
* A creator of a secret that stalls for longer than the lifetime between `open` and
  `write` can have its file pruned and still returns a handle; the claim fails.
* A launcher ended by SIGTERM leaves its runtime directory (no `finally`).  With
  `Punctual = FALSE` the launcher's SIGKILL can meet a guard before its
  escalation, and a group that ignores SIGTERM survives: no property covers that,
  the timing of two processes is all that prevents it.

## 4. Proofs

Every safety invariant, every action property and the refinement that the passing
runs check is also a theorem: it holds for any sets of jobs, Goals, servers,
connections and handles, and for all bounds.  A component's theorems rest on one
inductive invariant each, `...Inv`, proved by one lemma per action (or per group
of alike actions) and checked with TLC on the run's instance before it was
proved.  TLC evaluates every assumption on every run.

| module | theorem | states |
|---|---|---|
| `GoalBridgeProofs` | `TypeCorrect` | `TypeOK` |
| `LeaseProofs` | `LeaseInvariant` | `LeaseInv` |
| | `OneLive`, `WakesOnce`, `HasDriver`, `EarlyTerminal`, `UserRevokes` | `OneLiveLease`, `WakesAtMostOnce`, `LeaseHasDriver`, `EarlyTerminalKept`, `UserControlRevokes` |
| `RefinementProofs` | `Refines`, `RetiredStays` | `LeaseSpec`, `RetiredStaysRetired` |
| `CallProofs` | `CallInvariant` | `CallInv` |
| | `Recorded`, `Serialized` | `PauseRecorded`, `ForwardedAlone` |
| `SessionBridgeProofs` | `TypeCorrect`, `SessionInvariant` | `TypeOK`, `SessionInv` |
| | `OneLive`, `WakesAfterReceipt`, `HasDriver`, `UserRevokes`, `RetiredStays` | `OneLiveLease`, `OneWakeAfterReceipt`, `LeaseHasDriver`, `UserActivityRevokes`, `RetiredStaysRetired` |
| `JobLifecycleProofs` | `TypeCorrect`, `LifecycleInvariant` | `TypeOK`, `LifecycleInv` |
| | `Limit`, `Supervised`, `TerminalOver`, `OnlyOrphans` | `ActiveLimit`, `CommandSupervised`, `TerminalMeansOver`, `RecoveryOnlyOrphans` |
| `SecretInputProofs` | `TypeCorrect`, `SecretInvariant` | `TypeOK`, `SecretInv` |
| | `Once`, `Whole`, `Refused`, `NothingOpen` | `ConsumedOnce`, `WholeInputOnly`, `RefusedConsumesNothing`, `NoDescriptorLeft` |
| `LauncherProofs` | `TypeCorrect`, `LauncherInvariant` | `TypeOK`, `LauncherInv` |
| | `NothingLeft`, `Warned`, `DirLast` | `GuardLeavesNothing`, `OrphanWarned`, `DirOutlivesDaemons` |

Assumptions on the constants:

| module | assumed |
|---|---|
| `GoalBridge` | `GoalIds` is not empty, `NoId \notin GoalIds`, the bounds are naturals, `Failures` is Boolean, `UserOps \subseteq ControlOps` |
| `SessionBridge` | `First \in Peers`, `NoPeer \notin Peers`, `UserOps \subseteq UserMessages`, the bounds are naturals |
| `JobLifecycle` | `Jobs` is finite, `Waits \subseteq Jobs`, `NoServer \notin Servers`, `MaxActive` and `MaxCalls` are naturals |
| `SecretInput` | every handle has a size, the limits are naturals, the memory file is not a handle |
| `Launcher` | `MaxGuardKills` is a natural, `Punctual` is Boolean |

**The lease (`LeaseInv`).**  None of the five properties is inductive.
`WakesAtMostOnce` needs that a lease whose activation was sent is never due
again; that needs the pairs (state, delivery) that rows can have, and that the
task awaiting the activation exists exactly while the row says `activating`; that
needs the coupling of rows and tasks which `LeaseHasDriver` states.  `LeaseInv`
is `OneLiveLease` and for every job five parts: `RowShape` (which rows exist),
`TaskShape` (where the tasks can be, and that only a connected bridge has any),
`WakeShape` (how many activations a row has seen), `Driven` (the driver of a live
lease), `Kept` (early ends and revoked leases).  Each action changes at most one
live row; `SameInv` covers the jobs an action leaves alone.

**The refinement (`Refines`).**  The mapping is `LeasePhase`, which reads the
abstract phase of a job from its row.  Every action is shown to be a step of
`NextRows`: it moves one row along one arrow of `WakeLease`, or changes no row's
phase.  That each arrow is allowed needs `LeaseInv` (an activation is requested
only for a due lease, recovery finds no other pairs of states).  `WakeLease`'s
specification has no fairness, so nothing temporal is left over; that a lease
settles is `LeaseSettles`, checked by TLC.

**The calls in flight (`CallInv`).**  A request that timed out may still be
applied, so what `PauseRecorded` and `ForwardedAlone` say of the App Server
depends on the requests that nobody awaits any more.  `CallInv` adds to
`LeaseInv`: `ActivationShape` (an activation in flight is the one its task awaits
under the lock, or one whose lease is, or at the next recovery will be, left to
the user), `PauseCallShape` (a pause in flight is the registration's own and is
asked for once), `PauseShape` (while that pause is the last write, the reply, then
the task's local copy, then the row tells the revision the App Server holds).  TLC: the
instances of `bridge_one_job` and `bridge_two_jobs`.

**Session continuation (`SessionInv`).**  That there is one receipt and one
continuation turn depends on messages as much as on rows: the inject and start
requests travel on a connection that may be lost, and are served even when their
sender is gone.  `SessionInv` is `OneLiveLease` and for every job `JobInv`
(`RowShape`, `TaskShape`, `Driven`, and `Counted`: what the counters of requests
are in each row and task position) and `WireInv` (`OneMessage`: at most one
request or reply of a job is on the wires; `Awaited`: it is the one the task
awaits, or nothing further is asked for the job; `Receipt`: while the inject
request is under way no receipt is recorded yet, and none but it records one).
The wire part is stated over positions in the sequences, and appending and
removing a message have lemmas on what the others then are.  TLC: 728 235 states
(two jobs) and 77 465 (two connections).

**The job side (`LifecycleInv`).**  A locked update writes back a record it read
before unlocked writers came in between, so `RecordShape` is stated of the record
on disk and of the record a call has read.  For the same reason a terminal record
can turn back into a running one; `LimitShape` therefore bounds `Held`, the jobs
with a reservation that count now or that such a write can make count again.
`ProcShape` and `TaskShape` couple the task's await with the supervisor and the
command; `CallShape` says whose update or recovery holds the lock and that its
record stays possible while others go on; `GroupDone` is what the recovery of a
record has achieved between its steps: what still runs of the group had lost its
supervisor before.  TLC: 3.4 million states.

**Secrets (`SecretInv`).**  `WantShape`, `GotShape` and `FdShape` give, for every
position of a job, what it wants, has claimed and holds open; `HandleInv` gives
each handle its single fate.  Exclusion comes from `unlink` alone, so the
invariant never says who holds a lock.  TLC: 3 482 458 states.

**The process tree (`LauncherInv`).**  `GroupShape` says by the guard's stage what
can live in its group, `ProgramShape` which guards and which directory exist at
each point of the launcher.  TLC: 62 831 states.

Only model-checked: the liveness properties (`LeaseSettles` of both bridges,
`ControlForwarded`, `QuietLeaseWakes`, `MessageForwarded`, `QuietSessionWakes`,
`TaskEnds`, `CommandEnds`, `NoOrphan`, `SessionEnds`): they rest on fairness, and
reasoning about fairness and ENABLED is out of the prover's reach.  The three
disagreements of section 3 are counterexamples and have nothing to prove.

## 5. Not modelled

* The proxy's guarded full read of large histories: it shares nothing with the
  wakeups.  One race is known by reading (tui_proxy.py:334, 461): a tail fetched
  before a turn event can be cached after it; no document says how fresh the
  bounded tail is.
* The coordinator's own shutdown order; it is a daemon in `Launcher`, and
  `SessionBridge`'s `Restart`.
* Output, matches and the log tail: a sequential transformation of one stream.
* Validation of arguments, redaction, environment: predicates over strings and
  the file system; only their outcome appears.
* Transport, socket checks, framing, scripts: pure I/O or one-shot edits.
* Descendants that leave the command's process group: they appear as an output
  that need not end (`OutputEnds` has no fairness), not as processes.
* Python before 3.11, where `asyncio.TimeoutError` is not `TimeoutError`.

## 6. Plan

Done: 1. `AppServer`, `GoalBridge`, `WakeLease`; 2. type correctness and the lease
invariant; 3. `JobLifecycle`; 4. `SessionBridge`; 5. `SecretInput`; 6. `Launcher`;
7. proofs of all safety properties and of the refinement.

Next, in this order:

8. The session lease as a second implementation of `WakeLease` (a lease failed by
   its deadline while `turn/start` is in flight may still become delivered, which
   `WakeLease` does not allow: the abstract specification has to say so).
9. The same-second hazard of two successive jobs (bridge.py:478) as a property.
