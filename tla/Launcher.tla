----------------------------- MODULE Launcher -----------------------------
(***************************************************************************)
(* The process tree of codex-longrun: the launcher (launcher.py), a         *)
(* parent_guard.py supervisor for the App Server and one for the            *)
(* coordinator, the daemon each supervisor forks with the descendants in    *)
(* its process group, and the exec-guarded TUI.  The launcher may be        *)
(* cancelled or killed at any point; a daemon may ignore SIGTERM.           *)
(***************************************************************************)
EXTENDS Naturals, FiniteSets

CONSTANTS MaxGuardKills,  \* bound: guards lost to a SIGKILL from outside
          Punctual        \* is a guard's 2 s escalation on time for the launcher's 5 s?

ASSUME LauncherAssumption == MaxGuardKills \in Nat /\ Punctual \in BOOLEAN

Daemons == {"app", "coordinator"}

VARIABLES
  pc,         \* what the launcher does
  dir,        \* does its runtime directory exist?
  recorded,   \* daemons whose process object it holds
  pipe,       \* is the launcher's end of a guard's pipe open?
  guard,      \* where each guard is
  killed,     \* has the guard been killed rather than exited?
  term, late, \* its _termination_requested; has its grace period passed?
  cmd, kin,   \* its command, and a descendant in the command's group
  warned,     \* history: the command got its parent-death signal
  socket,     \* has the daemon created its sockets?
  tui,
  guardKills

launcherVars == <<pc, dir, recorded, pipe>>
guardVars    == <<guard, killed, term, late>>
groupVars    == <<cmd, kin, warned, socket>>
vars == <<launcherVars, guardVars, groupVars, tui, guardKills>>

\* The launcher's program: start, watch, stop in reverse order, clean up.
Starting == {"start", "forkApp", "waitApp", "startCoordinator", "forkCoordinator",
             "waitCoordinator", "startTui"}
Stopping == {"stopTui", "endTui", "stopCoordinator", "endCoordinator", "stopApp", "endApp",
             "clean"}
\* "boot": no handlers yet; "ready": not armed; "armed": not forked.
GuardPCs == {"none", "boot", "ready", "armed", "run", "over"}
\* "forked": not armed; "armed": not in its own session; "zombie": not reaped.
CmdPCs == {"none", "forked", "armed", "running", "zombie", "gone"}

TypeOK ==
  /\ pc \in Starting \cup {"watch"} \cup Stopping \cup {"exit", "gone"}
  /\ dir \in BOOLEAN /\ recorded \subseteq Daemons
  /\ pipe \in [Daemons -> BOOLEAN]
  /\ guard \in [Daemons -> GuardPCs] /\ killed \in [Daemons -> BOOLEAN]
  /\ term \in [Daemons -> BOOLEAN] /\ late \in [Daemons -> BOOLEAN]
  /\ cmd \in [Daemons -> CmdPCs] /\ kin \in [Daemons -> {"none", "alive", "dead"}]
  /\ warned \in [Daemons -> BOOLEAN] /\ socket \in [Daemons -> BOOLEAN]
  /\ tui \in {"none", "boot", "running", "over"}
  /\ guardKills \in 0..MaxGuardKills

All(v) == [d \in Daemons |-> v]
Init ==
  /\ pc = "start" /\ dir = TRUE /\ recorded = {} /\ pipe = All(FALSE)
  /\ guard = All("none") /\ killed = All(FALSE) /\ term = All(FALSE) /\ late = All(FALSE)
  /\ cmd = All("none") /\ kin = All("none") /\ warned = All(FALSE) /\ socket = All(FALSE)
  /\ tui = "none" /\ guardKills = 0

-----------------------------------------------------------------------------
(* Signals                                                                 *)

\* SIGTERM for a guard: without its handlers it dies, otherwise it takes note.
TermGuard(d) ==
  /\ guard' = [guard EXCEPT ![d] = IF @ = "boot" THEN "over" ELSE @]
  /\ term' = [term EXCEPT ![d] = @ \/ guard[d] \in {"ready", "armed", "run"}]

\* A guard is gone: the kernel sends SIGTERM to a command that armed itself, and
\* nothing to its descendants.  Unreaped commands go with it.
Survives(c) == IF c = "running" THEN {"running", "gone"} ELSE {"gone"}
MutBereaved(c) == IF c = "none" THEN {"none"} ELSE {"forked", "orphan"}
Bereaved(c) == CASE c = "none" -> {"none"} [] c = "forked" -> {"forked"} [] OTHER -> Survives(c)
LoseGuard(d) ==
  /\ guard' = [guard EXCEPT ![d] = "over"]
  /\ killed' = [killed EXCEPT ![d] = TRUE]
  /\ \E c \in Bereaved(cmd[d]) : cmd' = [cmd EXCEPT ![d] = c]
  /\ warned' = [warned EXCEPT ![d] = @ \/ cmd[d] \in {"armed", "running"}]

\* The launcher's death: its pipe ends close; then its children get a new parent,
\* and the armed ones SIGTERM.
LauncherExits ==
  /\ pc' = "exit"
  /\ pipe' = All(FALSE)
Armed == {"armed", "run"}
LauncherGone ==
  /\ pc = "exit"
  /\ pc' = "gone"
  /\ term' = [d \in Daemons |-> term[d] \/ guard[d] \in Armed]
  /\ tui' = IF tui = "running" THEN "over" ELSE tui
  /\ UNCHANGED <<groupVars, guardKills, dir, recorded, pipe, guard, killed, late>>

-----------------------------------------------------------------------------
(* launcher.py                                                             *)

launcherFrame == <<groupVars, guardKills>>

\* _spawn_supervised_daemon: pipe and fork, then the process object.
Spawn(d, from, to) ==
  /\ pc = from
  /\ pc' = to
  /\ pipe' = [pipe EXCEPT ![d] = TRUE]
  /\ guard' = [guard EXCEPT ![d] = "boot"]
  /\ UNCHANGED <<launcherFrame, dir, recorded, killed, term, late, tui>>
SpawnApp         == Spawn("app", "start", "forkApp")
SpawnCoordinator == Spawn("coordinator", "startCoordinator", "forkCoordinator")

Record(d, from, to) ==
  /\ pc = from
  /\ pc' = to
  /\ recorded' = recorded \cup {d}
  /\ UNCHANGED <<launcherFrame, dir, pipe, guardVars, tui>>
RecordApp         == Record("app", "forkApp", "waitApp")
RecordCoordinator == Record("coordinator", "forkCoordinator", "waitCoordinator")

\* Cancelled between the two: asyncio kills the guard, the pipe is closed.
SpawnInterrupted(d) ==
  /\ pc = (IF d = "app" THEN "forkApp" ELSE "forkCoordinator")
  /\ pc' = "stopTui"
  /\ pipe' = [pipe EXCEPT ![d] = FALSE]
  /\ LoseGuard(d)
  /\ UNCHANGED <<dir, recorded, term, late, kin, socket, tui, guardKills>>

\* _wait_for_socket: the socket is there; or the guard has exited, or 20 s are over.
WaitForSocket(d, from, to) ==
  /\ pc = from
  /\ \/ socket[d] /\ pc' = to
     \/ ~socket[d] /\ pc' = "stopTui"
  /\ UNCHANGED <<launcherFrame, dir, recorded, pipe, guardVars, tui>>
WaitApp         == WaitForSocket("app", "waitApp", "startCoordinator")
WaitCoordinator == WaitForSocket("coordinator", "waitCoordinator", "startTui")

StartTui ==
  /\ pc = "startTui"
  /\ pc' = "watch"
  /\ tui' = "boot"
  /\ UNCHANGED <<launcherFrame, dir, recorded, pipe, guardVars>>

\* The first of the three to end ends the session.
MutFirstEnded == tui = "over"
FirstEnded == tui = "over" \/ \E d \in Daemons : guard[d] = "over"
Watch ==
  /\ pc = "watch" /\ FirstEnded
  /\ pc' = "stopTui"
  /\ UNCHANGED <<launcherFrame, dir, recorded, pipe, guardVars, tui>>

\* Ctrl-C: the main task is cancelled, the finally clause runs.
Cancel ==
  /\ pc \in (Starting \ {"forkApp", "forkCoordinator"}) \cup {"watch"}
  /\ pc' = "stopTui"
  /\ UNCHANGED <<launcherFrame, dir, recorded, pipe, guardVars, tui>>

\* _terminate of the TUI, and of a guard that is held: SIGTERM ...
StopTui ==
  /\ pc = "stopTui"
  /\ pc' = "endTui"
  /\ tui' = IF tui = "none" THEN "none" ELSE "over"
  /\ UNCHANGED <<launcherFrame, dir, recorded, pipe, guardVars>>
EndTui ==
  /\ pc = "endTui"
  /\ pc' = "stopCoordinator"
  /\ UNCHANGED <<launcherFrame, dir, recorded, pipe, guardVars, tui>>
Stop(d, from, to) ==
  /\ pc = from
  /\ pc' = to
  /\ IF d \in recorded THEN TermGuard(d) ELSE UNCHANGED <<guard, term>>
  /\ UNCHANGED <<launcherFrame, dir, recorded, pipe, killed, late, tui>>
StopCoordinator == Stop("coordinator", "stopCoordinator", "endCoordinator")
StopApp         == Stop("app", "stopApp", "endApp")

\* ... its end, or SIGKILL after 5 s.
MutEnded(d) == TRUE
Ended(d) == d \in recorded => guard[d] = "over"
End(d, from, to) ==
  /\ pc = from /\ Ended(d)
  /\ pc' = to
  /\ UNCHANGED <<launcherFrame, dir, recorded, pipe, guardVars, tui>>
EndCoordinator == End("coordinator", "endCoordinator", "stopApp")
EndApp         == End("app", "endApp", "clean")

KillGuard(d) ==
  /\ pc = (IF d = "app" THEN "endApp" ELSE "endCoordinator")
  /\ d \in recorded /\ guard[d] # "over"
  /\ Punctual => late[d] /\ cmd[d] \in {"zombie", "gone"}
  /\ LoseGuard(d)
  /\ UNCHANGED <<launcherVars, term, late, kin, socket, tui, guardKills>>

\* Pipe ends are closed, the directory is removed, the launcher exits.
Clean ==
  /\ pc = "clean"
  /\ dir' = FALSE
  /\ LauncherExits
  /\ UNCHANGED <<launcherFrame, recorded, guardVars, tui>>

\* SIGKILL, SIGTERM or a second Ctrl-C end the launcher where it is.  (After a
\* second Ctrl-C asyncio may also kill guards it still holds: see KillGuard.)
LauncherKilled ==
  /\ pc \notin {"exit", "gone"}
  /\ LauncherExits
  /\ UNCHANGED <<launcherFrame, dir, recorded, guardVars, tui>>

-----------------------------------------------------------------------------
(* parent_guard.py                                                         *)

guardFrame == <<launcherVars, tui, guardKills>>

\* main: the handlers; then the death signal and the PPID that is read after it.
GuardReady(d) ==
  /\ guard[d] = "boot"
  /\ guard' = [guard EXCEPT ![d] = "ready"]
  /\ UNCHANGED <<guardFrame, groupVars, killed, term, late>>
GuardArm(d) ==
  /\ guard[d] = "ready"
  /\ guard' = [guard EXCEPT ![d] = IF pc = "gone" THEN "over" ELSE "armed"]
  /\ UNCHANGED <<guardFrame, groupVars, killed, term, late>>

\* _supervise: no command if the end has been requested already.
GuardFork(d) ==
  /\ guard[d] = "armed"
  /\ IF term[d] THEN guard' = [guard EXCEPT ![d] = "over"] /\ UNCHANGED cmd
                ELSE /\ guard' = [guard EXCEPT ![d] = "run"]
                     /\ cmd' = [cmd EXCEPT ![d] = "forked"]
  /\ UNCHANGED <<guardFrame, killed, term, late, kin, warned, socket>>

\* The forked child: death signal and PPID, then its own session and exec.
MutChildArmed(d) == "armed"
ChildArmed(d) == IF guard[d] = "run" THEN "armed" ELSE "gone"
ChildArm(d) ==
  /\ cmd[d] = "forked"
  /\ cmd' = [cmd EXCEPT ![d] = ChildArmed(d)]
  /\ UNCHANGED <<guardFrame, guardVars, kin, warned, socket>>
ChildExec(d) ==
  /\ cmd[d] = "armed"
  /\ \E c \in {"running", "zombie"} : cmd' = [cmd EXCEPT ![d] = c]
  /\ UNCHANGED <<guardFrame, guardVars, kin, warned, socket>>

\* The daemon serves, starts a descendant, or ends by itself.
Serve(d) ==
  /\ cmd[d] = "running" /\ ~socket[d]
  /\ socket' = [socket EXCEPT ![d] = TRUE]
  /\ UNCHANGED <<guardFrame, guardVars, cmd, kin, warned>>
Descend(d) ==
  /\ cmd[d] = "running" /\ kin[d] = "none"
  /\ kin' = [kin EXCEPT ![d] = "alive"]
  /\ UNCHANGED <<guardFrame, guardVars, cmd, warned, socket>>
Quit(d) ==
  /\ cmd[d] = "running"
  /\ cmd' = [cmd EXCEPT ![d] = IF guard[d] = "over" THEN "gone" ELSE "zombie"]
  /\ UNCHANGED <<guardFrame, guardVars, kin, warned, socket>>

\* A group signal does nothing before the child has its own session; SIGTERM may
\* be ignored, SIGKILL may not.
Outcomes(sig, alive, dead) == IF sig = "KILL" THEN {dead} ELSE {alive, dead}
SignalGroup(d, sig) ==
  /\ \E c \in IF cmd[d] = "running" THEN Outcomes(sig, "running", "zombie") ELSE {cmd[d]} :
       cmd' = [cmd EXCEPT ![d] = c]
  /\ \E k \in IF kin[d] = "alive" THEN Outcomes(sig, "alive", "dead") ELSE {kin[d]} :
       kin' = [kin EXCEPT ![d] = k]

\* The command has ended: its group is swept, then it is reaped.
MutSwept(k) == k
Swept(k) == IF k = "alive" THEN "dead" ELSE k
GuardReap(d) ==
  /\ guard[d] = "run" /\ cmd[d] = "zombie"
  /\ kin' = [kin EXCEPT ![d] = Swept(@)]
  /\ cmd' = [cmd EXCEPT ![d] = "gone"]
  /\ guard' = [guard EXCEPT ![d] = "over"]
  /\ UNCHANGED <<guardFrame, killed, term, late, warned, socket>>

\* The pipe has reached its end.
GuardHangup(d) ==
  /\ guard[d] = "run" /\ ~term[d] /\ ~pipe[d]
  /\ term' = [term EXCEPT ![d] = TRUE]
  /\ UNCHANGED <<guardFrame, groupVars, guard, killed, late>>

\* Until the command has ended: SIGTERM again and again, SIGKILL after 2 s.
MutSignalFor(d) == "TERM"
SignalFor(d) == IF late[d] THEN "KILL" ELSE "TERM"
GuardSignal(d) ==
  /\ guard[d] = "run" /\ cmd[d] # "zombie" /\ term[d]
  /\ SignalGroup(d, SignalFor(d))
  /\ UNCHANGED <<guardFrame, guardVars, warned, socket>>
GracePasses(d) ==
  /\ guard[d] = "run" /\ term[d] /\ ~late[d]
  /\ late' = [late EXCEPT ![d] = TRUE]
  /\ UNCHANGED <<guardFrame, groupVars, guard, killed, term>>

\* Something outside kills a guard.
GuardKilled(d) ==
  /\ guardKills < MaxGuardKills /\ guard[d] \notin {"none", "over"}
  /\ guardKills' = guardKills + 1
  /\ LoseGuard(d)
  /\ UNCHANGED <<launcherVars, term, late, kin, socket, tui>>

\* --exec-only: death signal, PPID, exec.  The TUI ends when its user is done.
TuiArm ==
  /\ tui = "boot"
  /\ tui' = IF pc = "gone" THEN "over" ELSE "running"
  /\ UNCHANGED <<launcherVars, guardVars, groupVars, guardKills>>
TuiQuits ==
  /\ tui = "running"
  /\ tui' = "over"
  /\ UNCHANGED <<launcherVars, guardVars, groupVars, guardKills>>

-----------------------------------------------------------------------------
LauncherStep ==
  \/ SpawnApp \/ RecordApp \/ WaitApp \/ SpawnCoordinator \/ RecordCoordinator
  \/ WaitCoordinator \/ StartTui \/ Watch \/ StopTui \/ EndTui \/ StopCoordinator
  \/ EndCoordinator \/ StopApp \/ EndApp \/ Clean \/ LauncherGone
GuardStep(d) == GuardReady(d) \/ GuardArm(d) \/ GuardFork(d) \/ GuardReap(d) \/ GuardHangup(d)
ChildStep(d) == ChildArm(d) \/ ChildExec(d)

Next ==
  \/ LauncherStep \/ Cancel \/ LauncherKilled \/ TuiArm \/ TuiQuits
  \/ \E d \in Daemons :
       \/ GuardStep(d) \/ ChildStep(d) \/ GuardSignal(d) \/ GracePasses(d)
       \/ Serve(d) \/ Descend(d) \/ Quit(d)
       \/ SpawnInterrupted(d) \/ KillGuard(d) \/ GuardKilled(d)

Spec == Init /\ [][Next]_vars

\* Every process that is ready runs, and time passes.  The launcher's own steps
\* are fair; nothing makes the user, the daemons or a killer act, and only
\* SIGKILL is sure to have its effect.
SigkillGroup(d) == SignalFor(d) = "KILL" /\ GuardSignal(d)
Fairness ==
  /\ WF_vars(LauncherStep) /\ WF_vars(TuiArm)
  /\ \A d \in Daemons : /\ WF_vars(GuardStep(d)) /\ WF_vars(ChildStep(d))
                        /\ WF_vars(SigkillGroup(d)) /\ WF_vars(GracePasses(d))

FairSpec == Spec /\ Fairness

-----------------------------------------------------------------------------
(* Properties                                                              *)

Alive(d) == cmd[d] \in {"forked", "armed", "running"} \/ kin[d] = "alive"

\* A guard that ends by itself leaves nothing of its daemon's process group
\* behind (README.md:337-340, parent_guard.py:137-146).
GuardLeavesNothing ==
  \A d \in Daemons : guard[d] = "over" /\ ~killed[d] => ~Alive(d)

\* A command that outlives its guard has been told: it was armed before the
\* guard died, or it finds out before it runs ("Every guard rechecks PPID after
\* arming to close the fork-to-arm race", README.md:341-342).
OrphanWarned ==
  \A d \in Daemons : guard[d] = "over" /\ cmd[d] \in {"armed", "running"} => warned[d]

\* The runtime directory goes only when the daemons the launcher holds have
\* ended: none of them is left with its sockets and database gone.
DirOutlivesDaemons ==
  ~dir => \A d \in recorded : ~killed[d] => ~Alive(d)

\* "This prevents a Node shim or native App Server from surviving its launcher"
\* (README.md:342-343): whenever and however the launcher ends, every process
\* group below a guard that was not killed itself ends too, daemons that ignore
\* SIGTERM included.
NoOrphan ==
  \A d \in Daemons : pc = "gone" ~> (killed[d] \/ (~Alive(d) /\ guard[d] \in {"none", "over"}))

\* The end of any part is the end of the session: the launcher does not hang in
\* its clean-up.
SessionEnds == tui = "over" \/ (\E d \in Daemons : guard[d] = "over") ~> pc = "gone"
=============================================================================
