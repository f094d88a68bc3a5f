--------------------------- MODULE LauncherProofs ---------------------------
(***************************************************************************)
(* The process tree of codex-longrun, for any number of guards lost and     *)
(* whether or not their escalation is punctual: a guard that ends by itself *)
(* leaves nothing of its group, an orphaned command has been warned, and    *)
(* the runtime directory outlives the daemons.                              *)
(***************************************************************************)
EXTENDS Launcher, TLAPS

-----------------------------------------------------------------------------
(* The inductive invariant                                                 *)

\* The group of a guard, by where the guard is: nothing before the fork, a child
\* while it runs, nothing after a regular end, and after a kill what it left.
GroupShape(d) ==
  /\ guard[d] \in {"none", "boot", "ready", "armed"} => cmd[d] = "none" /\ kin[d] = "none"
  /\ guard[d] = "run" => cmd[d] \in {"forked", "armed", "running", "zombie"}
  /\ guard[d] = "over" /\ ~killed[d] => cmd[d] \in {"none", "gone"} /\ kin[d] # "alive"
  /\ guard[d] = "over" /\ cmd[d] \in {"armed", "running"} => warned[d]
  /\ killed[d] => guard[d] = "over"

\* The launcher's program: no guard before its turn, and from the end of a guard's
\* stop on the guard is over, if the launcher holds it.
BeforeCoordinator == {"start", "forkApp", "waitApp", "startCoordinator"}
ProgramShape ==
  /\ pc = "start" => guard["app"] = "none"
  /\ pc \in BeforeCoordinator => guard["coordinator"] = "none"
  /\ pc \in {"stopApp", "endApp", "clean"} /\ "coordinator" \in recorded => guard["coordinator"] = "over"
  /\ pc = "clean" /\ "app" \in recorded => guard["app"] = "over"
  /\ ~dir => pc \in {"exit", "gone"} /\ \A d \in recorded : guard[d] = "over"

LauncherInv == TypeOK /\ ProgramShape /\ \A d \in Daemons : GroupShape(d)

-----------------------------------------------------------------------------
(* Preservation: the groups                                                *)

\* The step leaves the group of d alone.
SameGroup(d) == /\ guard'[d] = guard[d] /\ killed'[d] = killed[d] /\ warned'[d] = warned[d]
                /\ cmd'[d] = cmd[d] /\ kin'[d] = kin[d]

\* Guards do not come back, and nobody but the launcher starts one.
GuardsMoveOn == \A d \in Daemons : /\ guard[d] = "over" => guard'[d] = "over"
                                   /\ guard[d] = "none" => guard'[d] = "none"

\* What a step leaves alone stays as it should be.
LEMMA SameGroupInv ==
  ASSUME NEW d \in Daemons, GroupShape(d), SameGroup(d)
  PROVE  GroupShape(d)'
BY DEF GroupShape, SameGroup

\* As long as the launcher does nothing, its program stays where it is.
LEMMA ProgramStays ==
  ASSUME TypeOK, ProgramShape, GuardsMoveOn, UNCHANGED <<pc, dir, recorded>>
  PROVE  ProgramShape'
BY DEF ProgramShape, GuardsMoveOn, Daemons, TypeOK

\* The loss of a guard: the armed command is warned, an unarmed one finds out.
LEMMA LoseGuardInv ==
  ASSUME TypeOK, NEW d \in Daemons, GroupShape(d), LoseGuard(d), kin' = kin
  PROVE  /\ GroupShape(d)'
         /\ \A e \in Daemons \ {d} : SameGroup(e)
         /\ guard' \in [Daemons -> GuardPCs] /\ killed' \in [Daemons -> BOOLEAN]
         /\ cmd' \in [Daemons -> CmdPCs] /\ warned' \in [Daemons -> BOOLEAN]
         /\ guard'[d] = "over" /\ \A e \in Daemons \ {d} : guard'[e] = guard[e]
<1> USE DEF TypeOK, LoseGuard
<1>1. PICK c \in Bereaved(cmd[d]) : cmd' = [cmd EXCEPT ![d] = c]
  OBVIOUS
<1>2. cmd[d] \in CmdPCs
  OBVIOUS
<1>3. /\ c \in CmdPCs
      /\ c \in {"armed", "running"} => cmd[d] = "running"
  BY <1>1, <1>2 DEF Bereaved, Survives, CmdPCs
<1>4. guard' \in [Daemons -> GuardPCs] /\ killed' \in [Daemons -> BOOLEAN]
  BY DEF GuardPCs
<1>5. cmd' \in [Daemons -> CmdPCs]
  BY <1>1, <1>3
<1>6. warned' \in [Daemons -> BOOLEAN]
  OBVIOUS
<1>7. guard'[d] = "over" /\ killed'[d] /\ cmd'[d] = c
  BY <1>1
<1>8. cmd[d] = "running" => warned'[d]
  OBVIOUS
<1>9. GroupShape(d)'
  BY <1>3, <1>7, <1>8 DEF GroupShape
<1>10. \A e \in Daemons \ {d} : SameGroup(e)
  BY <1>1 DEF SameGroup
<1> QED
  BY <1>4, <1>5, <1>6, <1>7, <1>9, <1>10 DEF SameGroup

-----------------------------------------------------------------------------
(* Preservation: the launcher                                              *)

\* The steps of the launcher that concern no guard.
LEMMA ProgramInv ==
  ASSUME LauncherInv,
         \/ RecordApp \/ RecordCoordinator \/ WaitApp \/ WaitCoordinator \/ StartTui \/ Watch
         \/ Cancel \/ StopTui \/ EndTui \/ EndCoordinator \/ EndApp \/ Clean \/ LauncherKilled
         \/ LauncherGone
  PROVE  LauncherInv'
<1> USE DEF LauncherInv, guardVars, groupVars, launcherFrame, RecordApp, RecordCoordinator, Record,
            WaitApp, WaitCoordinator, WaitForSocket, StartTui, Watch, Cancel, StopTui, EndTui,
            EndCoordinator, EndApp, End, Clean, LauncherKilled, LauncherGone, LauncherExits
<1>1. UNCHANGED <<guard, killed, late, cmd, kin, warned, socket, guardKills>>
  OBVIOUS
<1>2. \A d \in Daemons : GroupShape(d)'
  BY <1>1, SameGroupInv DEF SameGroup
<1>3. pc' \in Starting \cup {"watch"} \cup Stopping \cup {"exit", "gone"}
  BY DEF TypeOK, Starting, Stopping
<1>4. dir' \in BOOLEAN /\ recorded' \subseteq Daemons
  BY DEF TypeOK, Daemons
<1>5. pipe' \in [Daemons -> BOOLEAN] /\ term' \in [Daemons -> BOOLEAN]
  BY DEF TypeOK, All
<1>6. tui' \in {"none", "boot", "running", "over"}
  BY DEF TypeOK
<1>7. TypeOK'
  BY <1>1, <1>3, <1>4, <1>5, <1>6 DEF TypeOK
<1>8. ProgramShape'
  BY <1>1 DEF ProgramShape, BeforeCoordinator, Ended, Starting, TypeOK, Daemons
<1> QED
  BY <1>2, <1>7, <1>8

\* A guard is started where there was none.
LEMMA SpawnInv ==
  ASSUME LauncherInv, SpawnApp \/ SpawnCoordinator
  PROVE  LauncherInv'
<1> USE DEF LauncherInv
<1>1. PICK d \in Daemons, from \in {"start", "startCoordinator"}, to \in {"forkApp", "forkCoordinator"} :
        /\ Spawn(d, from, to)
        /\ d = "app" => from = "start" /\ to = "forkApp"
        /\ d = "coordinator" => from = "startCoordinator" /\ to = "forkCoordinator"
  BY DEF SpawnApp, SpawnCoordinator, Daemons
<1>2. guard[d] = "none"
  BY <1>1 DEF Spawn, ProgramShape, BeforeCoordinator, Daemons
<1>3. TypeOK'
  BY <1>1 DEF Spawn, TypeOK, launcherFrame, groupVars, Starting, GuardPCs
<1>4. guard'[d] = "boot" /\ UNCHANGED <<killed, cmd, kin, warned>>
  BY <1>1 DEF Spawn, TypeOK, launcherFrame, groupVars
<1>5. \A e \in Daemons \ {d} : SameGroup(e)
  BY <1>1, <1>4 DEF Spawn, TypeOK, SameGroup
<1>6. GroupShape(d)'
  <2>1. GroupShape(d)
    OBVIOUS
  <2> QED
    BY <1>2, <1>4, <2>1 DEF GroupShape
<1>7. \A e \in Daemons : GroupShape(e)'
  BY <1>5, <1>6, SameGroupInv
<1>8. ProgramShape'
  BY <1>1 DEF Spawn, ProgramShape, BeforeCoordinator, Daemons, TypeOK
<1> QED
  BY <1>3, <1>7, <1>8

\* SIGTERM ends a guard that has no handlers yet: it has no command either.
LEMMA StopInv ==
  ASSUME LauncherInv, StopCoordinator \/ StopApp
  PROVE  LauncherInv'
<1> USE DEF LauncherInv
<1>1. PICK d \in Daemons, from \in {"stopCoordinator", "stopApp"}, to \in {"endCoordinator", "endApp"} :
        /\ Stop(d, from, to)
        /\ d = "app" => from = "stopApp" /\ to = "endApp"
        /\ d = "coordinator" => from = "stopCoordinator" /\ to = "endCoordinator"
  BY DEF StopApp, StopCoordinator, Daemons
<1>2. UNCHANGED <<dir, recorded, killed, cmd, kin, warned>>
  BY <1>1 DEF Stop, launcherFrame, groupVars
<1>3. guard' \in [Daemons -> GuardPCs] /\ term' \in [Daemons -> BOOLEAN]
  BY <1>1 DEF Stop, TermGuard, TypeOK, GuardPCs
<1>4. TypeOK'
  BY <1>1, <1>3 DEF Stop, TypeOK, launcherFrame, groupVars, Stopping
<1>5. /\ guard'[d] = guard[d] \/ (guard[d] = "boot" /\ guard'[d] = "over")
      /\ \A e \in Daemons \ {d} : guard'[e] = guard[e]
  BY <1>1 DEF Stop, TermGuard, TypeOK
<1>6. ASSUME NEW e \in Daemons PROVE GroupShape(e)'
  <2>1. GroupShape(e)
    OBVIOUS
  <2> QED
    BY <1>2, <1>5, <2>1 DEF GroupShape
<1>7. ProgramShape'
  BY <1>1, <1>2, <1>5 DEF Stop, ProgramShape, BeforeCoordinator, Daemons
<1> QED
  BY <1>4, <1>6, <1>7

\* A guard is killed: by asyncio, by the launcher after 5 s, or from outside.
LEMMA GuardLossInv ==
  ASSUME LauncherInv, NEW d \in Daemons, SpawnInterrupted(d) \/ KillGuard(d) \/ GuardKilled(d)
  PROVE  LauncherInv'
<1> USE DEF LauncherInv
<1>0. LoseGuard(d) /\ UNCHANGED <<dir, recorded, term, late, kin, socket, tui>>
  BY DEF SpawnInterrupted, KillGuard, GuardKilled, launcherVars
<1>1. /\ GroupShape(d)'
      /\ \A e \in Daemons \ {d} : SameGroup(e)
      /\ guard' \in [Daemons -> GuardPCs] /\ killed' \in [Daemons -> BOOLEAN]
      /\ cmd' \in [Daemons -> CmdPCs] /\ warned' \in [Daemons -> BOOLEAN]
      /\ guard'[d] = "over" /\ \A e \in Daemons \ {d} : guard'[e] = guard[e]
  BY <1>0, LoseGuardInv
<1>2. \A e \in Daemons : GroupShape(e)'
  BY <1>1, SameGroupInv
<1>3. pc' \in {pc, "stopTui"} /\ pipe' \in [Daemons -> BOOLEAN]
  BY DEF SpawnInterrupted, KillGuard, GuardKilled, launcherVars, TypeOK
<1>4. guardKills' \in 0..MaxGuardKills
  BY LauncherAssumption DEF SpawnInterrupted, KillGuard, GuardKilled, TypeOK
<1>5. TypeOK'
  BY <1>0, <1>1, <1>3, <1>4 DEF TypeOK, Stopping
<1>6. ProgramShape'
  <2>1. CASE SpawnInterrupted(d)
    BY <1>0, <1>1, <2>1 DEF SpawnInterrupted, ProgramShape, BeforeCoordinator, Daemons
  <2>2. CASE KillGuard(d)
    BY <1>0, <1>1, <2>2 DEF KillGuard, launcherVars, ProgramShape, BeforeCoordinator, Daemons
  <2>3. CASE GuardKilled(d)
    <3>1. pc' = pc /\ guard[d] # "none"
      BY <2>3 DEF GuardKilled, launcherVars
    <3>2. GuardsMoveOn
      BY <1>1, <3>1 DEF GuardsMoveOn
    <3> QED
      BY <1>0, <3>1, <3>2, ProgramStays
  <2> QED
    BY <2>1, <2>2, <2>3
<1> QED
  BY <1>2, <1>5, <1>6

-----------------------------------------------------------------------------
(* Preservation: guards and their groups                                   *)

\* A guard up to its fork, and what it notes.
LEMMA GuardInv ==
  ASSUME LauncherInv, NEW d \in Daemons,
         GuardReady(d) \/ GuardArm(d) \/ GuardFork(d) \/ GuardHangup(d) \/ GracePasses(d)
  PROVE  LauncherInv'
<1> USE DEF LauncherInv, GuardReady, GuardArm, GuardFork, GuardHangup, GracePasses, groupVars
<1>0. UNCHANGED <<guardFrame, killed, kin, warned, socket>>
  OBVIOUS
<1>1. guard' \in [Daemons -> GuardPCs] /\ cmd' \in [Daemons -> CmdPCs]
  BY DEF TypeOK, GuardPCs, CmdPCs
<1>2. term' \in [Daemons -> BOOLEAN] /\ late' \in [Daemons -> BOOLEAN]
  BY DEF TypeOK
<1>3. TypeOK'
  BY <1>0, <1>1, <1>2 DEF TypeOK, guardFrame, launcherVars
<1>4. \A e \in Daemons \ {d} : SameGroup(e)
  BY <1>0 DEF TypeOK, SameGroup
<1>5. GroupShape(d)'
  <2>1. GroupShape(d)
    OBVIOUS
  <2>2. \/ guard'[d] = guard[d] /\ cmd'[d] = cmd[d]
        \/ /\ guard[d] \in {"boot", "ready", "armed"} /\ guard'[d] \in {"ready", "armed", "over"}
           /\ cmd'[d] = cmd[d]
        \/ guard[d] = "armed" /\ guard'[d] = "run" /\ cmd'[d] = "forked"
    BY DEF TypeOK
  <2> QED
    BY <1>0, <2>1, <2>2 DEF GroupShape
<1>6. \A e \in Daemons : GroupShape(e)'
  BY <1>4, <1>5, SameGroupInv
<1>7. GuardsMoveOn
  BY DEF GuardsMoveOn, TypeOK
<1>8. ProgramShape'
  BY <1>0, <1>7, ProgramStays DEF guardFrame, launcherVars
<1> QED
  BY <1>3, <1>6, <1>8

\* The command and its descendants, up to the guard's sweep and reap.
LEMMA GroupInv ==
  ASSUME LauncherInv, NEW d \in Daemons,
         \/ ChildArm(d) \/ ChildExec(d) \/ Serve(d) \/ Descend(d) \/ Quit(d)
         \/ GuardSignal(d) \/ GuardReap(d)
  PROVE  LauncherInv'
<1> USE DEF LauncherInv, guardVars
<1>0. UNCHANGED <<guardFrame, killed, term, late, warned>>
  BY DEF ChildArm, ChildExec, Serve, Descend, Quit, GuardSignal, GuardReap
<1>g. GroupShape(d)
  OBVIOUS
<1>1. PICK c \in CmdPCs, k \in {"none", "alive", "dead"} :
        cmd' = [cmd EXCEPT ![d] = c] /\ kin' = [kin EXCEPT ![d] = k]
  <2>1. CASE ChildArm(d) \/ ChildExec(d) \/ Serve(d) \/ Descend(d) \/ Quit(d)
    BY <2>1 DEF TypeOK, CmdPCs, ChildArm, ChildArmed, ChildExec, Serve, Descend, Quit
  <2>2. CASE GuardSignal(d)
    BY <2>2 DEF TypeOK, CmdPCs, GuardSignal, SignalGroup, Outcomes
  <2>3. CASE GuardReap(d)
    BY <2>3 DEF TypeOK, CmdPCs, GuardReap, Swept
  <2> QED
    BY <2>1, <2>2, <2>3
<1>2. /\ guard' \in [Daemons -> GuardPCs] /\ socket' \in [Daemons -> BOOLEAN]
      /\ \A e \in Daemons \ {d} : guard'[e] = guard[e]
  BY DEF TypeOK, GuardPCs, ChildArm, ChildExec, Serve, Descend, Quit, GuardSignal, GuardReap
<1>3. TypeOK'
  BY <1>0, <1>1, <1>2 DEF TypeOK, guardFrame, launcherVars
<1>4. \A e \in Daemons \ {d} : SameGroup(e)
  BY <1>0, <1>1, <1>2 DEF TypeOK, SameGroup
<1>5. GroupShape(d)' /\ (guard'[d] = guard[d] \/ guard[d] = "run")
  <2>1. CASE ChildArm(d)
    BY <1>g, <2>1 DEF TypeOK, GroupShape, ChildArm, ChildArmed
  <2>2. CASE ChildExec(d)
    BY <1>g, <2>2 DEF TypeOK, GroupShape, ChildExec
  <2>3. CASE Serve(d) \/ Descend(d) \/ Quit(d)
    BY <1>g, <2>3 DEF TypeOK, GroupShape, Serve, Descend, Quit
  <2>4. CASE GuardSignal(d)
    BY <1>g, <2>4 DEF TypeOK, GroupShape, GuardSignal, SignalGroup, Outcomes
  <2>5. CASE GuardReap(d)
    BY <1>g, <2>5 DEF TypeOK, GroupShape, GuardReap, Swept
  <2> QED
    BY <2>1, <2>2, <2>3, <2>4, <2>5
<1>6. \A e \in Daemons : GroupShape(e)'
  BY <1>4, <1>5, SameGroupInv
<1>7. GuardsMoveOn
  BY <1>2, <1>5, <1>g DEF GuardsMoveOn, SameGroup
<1>8. ProgramShape'
  BY <1>0, <1>7, ProgramStays DEF guardFrame, launcherVars
<1> QED
  BY <1>3, <1>6, <1>8

-----------------------------------------------------------------------------
(* The invariant holds                                                     *)

\* The TUI has no guard to disturb, and a stuttering step disturbs nothing.
LEMMA QuietInv ==
  ASSUME LauncherInv, TuiArm \/ TuiQuits \/ UNCHANGED vars
  PROVE  LauncherInv'
<1> USE DEF LauncherInv
<1>1. UNCHANGED <<launcherVars, guardVars, groupVars, guardKills>>
  BY DEF TuiArm, TuiQuits, vars
<1>2. tui' \in {"none", "boot", "running", "over"}
  BY DEF TuiArm, TuiQuits, vars, TypeOK
<1>3. TypeOK'
  BY <1>1, <1>2 DEF TypeOK, launcherVars, guardVars, groupVars
<1>4. ProgramShape'
  BY <1>1 DEF ProgramShape, launcherVars, guardVars
<1>5. \A d \in Daemons : GroupShape(d)'
  BY <1>1, SameGroupInv DEF SameGroup, guardVars, groupVars
<1> QED
  BY <1>3, <1>4, <1>5

\* At the launcher's start there is no process below it.
LEMMA InitInv == Init => LauncherInv
<1> SUFFICES ASSUME Init PROVE LauncherInv
  OBVIOUS
<1>1. TypeOK
  BY LauncherAssumption DEF Init, TypeOK, All, Starting, GuardPCs, CmdPCs
<1>2. ProgramShape
  BY DEF Init, All, ProgramShape, BeforeCoordinator, Daemons
<1>3. \A d \in Daemons : GroupShape(d)
  BY DEF Init, All, GroupShape
<1> QED
  BY <1>1, <1>2, <1>3 DEF LauncherInv

\* Every step preserves the invariant.
LEMMA NextInv == LauncherInv /\ [Next]_vars => LauncherInv'
<1> SUFFICES ASSUME LauncherInv, [Next]_vars PROVE LauncherInv'
  OBVIOUS
<1>1. CASE LauncherStep
  BY <1>1, ProgramInv, SpawnInv, StopInv DEF LauncherStep
<1>2. CASE Cancel \/ LauncherKilled
  BY <1>2, ProgramInv
<1>3. CASE TuiArm \/ TuiQuits \/ UNCHANGED vars
  BY <1>3, QuietInv
<1>4. ASSUME NEW d \in Daemons,
             \/ GuardStep(d) \/ ChildStep(d) \/ GuardSignal(d) \/ GracePasses(d)
             \/ Serve(d) \/ Descend(d) \/ Quit(d)
             \/ SpawnInterrupted(d) \/ KillGuard(d) \/ GuardKilled(d)
      PROVE  LauncherInv'
  <2>1. CASE GuardReady(d) \/ GuardArm(d) \/ GuardFork(d) \/ GuardHangup(d) \/ GracePasses(d)
    BY <2>1, GuardInv
  <2>2. CASE \/ ChildArm(d) \/ ChildExec(d) \/ Serve(d) \/ Descend(d) \/ Quit(d)
             \/ GuardSignal(d) \/ GuardReap(d)
    BY <2>2, GroupInv
  <2>3. CASE SpawnInterrupted(d) \/ KillGuard(d) \/ GuardKilled(d)
    BY <2>3, GuardLossInv
  <2> QED
    BY <1>4, <2>1, <2>2, <2>3 DEF GuardStep, ChildStep
<1> QED
  BY <1>1, <1>2, <1>3, <1>4 DEF Next

\* The process tree keeps its shape whenever and however the launcher, a guard or
\* a daemon ends (launcher.py:98-258, parent_guard.py:103-186).
THEOREM LauncherInvariant == Spec => []LauncherInv
BY InitInv, NextInv, PTL DEF Spec

-----------------------------------------------------------------------------
(* What follows from it                                                    *)

\* Every variable of the process tree keeps its type.
THEOREM TypeCorrect == Spec => []TypeOK
<1>1. LauncherInv => TypeOK
  BY DEF LauncherInv
<1> QED
  BY <1>1, LauncherInvariant, PTL

\* A guard that ends by itself, before or after its fork, leaves nothing of its
\* daemon's process group: it sweeps the group before it reaps the leader
\* (parent_guard.py:137-146).
THEOREM NothingLeft == Spec => []GuardLeavesNothing
<1>1. LauncherInv => GuardLeavesNothing
  BY DEF LauncherInv, GroupShape, GuardLeavesNothing, Alive
<1> QED
  BY <1>1, LauncherInvariant, PTL

\* A command that outlives a killed guard got its death signal: the PPID is read
\* after arming, so the fork-to-arm race is closed (parent_guard.py:64-85).
THEOREM Warned == Spec => []OrphanWarned
<1>1. LauncherInv => OrphanWarned
  BY DEF LauncherInv, GroupShape, OrphanWarned
<1> QED
  BY <1>1, LauncherInvariant, PTL

\* The launcher removes the runtime directory only after it has seen the guards
\* it holds end, and a guard that ends by itself has no daemon left
\* (launcher.py:249-257).
THEOREM DirLast == Spec => []DirOutlivesDaemons
<1>1. LauncherInv => DirOutlivesDaemons
  <2> SUFFICES ASSUME LauncherInv, ~dir, NEW d \in recorded, ~killed[d] PROVE ~Alive(d)
    BY DEF DirOutlivesDaemons
  <2>1. d \in Daemons /\ guard[d] = "over"
    BY DEF LauncherInv, TypeOK, ProgramShape
  <2> QED
    BY <2>1 DEF LauncherInv, GroupShape, Alive
<1> QED
  BY <1>1, LauncherInvariant, PTL

=============================================================================
