-------------------------- MODULE RefinementProofs --------------------------
(***************************************************************************)
(* The Goal bridge implements the abstract wake lease, for any set of jobs, *)
(* Goals and bounds: every step of the bridge, the App Server or the user   *)
(* is one step of one lease, or none.                                       *)
(***************************************************************************)
EXTENDS LeaseProofs

-----------------------------------------------------------------------------
(* What a step does to the rows                                            *)

RowStays(j) == state'[j] = state[j] /\ delivery'[j] = delivery[j] /\ wakes'[j] = wakes[j]

\* The moves of a lease, named after the steps of the abstract one.
Registers(j) == /\ state[j] = "none" /\ ~ThreadHasLive
                /\ state'[j] = "preparing" /\ wakes'[j] = wakes[j]
Holds(j)     == state[j] = "preparing" /\ state'[j] = "armed" /\ wakes'[j] = wakes[j]
FallsDue(j)  == /\ state[j] \in {"preparing", "armed"}
                /\ state'[j] = "terminal" /\ delivery'[j] = "waiting_for_idle" /\ wakes'[j] = wakes[j]
Activates(j) == /\ state[j] = "terminal" /\ delivery[j] = "waiting_for_idle"
                /\ state'[j] = "terminal" /\ delivery'[j] = "activating" /\ wakes'[j] = wakes[j] + 1
Resumes(j)   == /\ state[j] = "terminal" /\ delivery[j] = "activating"
                /\ state'[j] = "delivered" /\ wakes'[j] = wakes[j]
IsRevoked(j) == /\ state[j] \in Live /\ delivery[j] # "activating"
                /\ state'[j] = "abandoned" /\ wakes'[j] = wakes[j]
IsGivenUp(j) == /\ state[j] \in {"preparing", "terminal"}
                /\ state'[j] = "failed" /\ wakes'[j] = wakes[j]
RowMoves(j) == \/ Registers(j) \/ Holds(j) \/ FallsDue(j) \/ Activates(j)
               \/ Resumes(j) \/ IsRevoked(j) \/ IsGivenUp(j)

\* The step concerns the row of j only.
RowStep(j) == /\ \A k \in Jobs \ {j} : RowStays(k)
              /\ RowStays(j) \/ RowMoves(j)

\* The registration: it creates the row, commits it or retires it.
LEMMA PrepareRows ==
  ASSUME TypeOK, LeaseInv, NEW j \in Jobs,
         Prepare(j) \/ PrepareSnapshot(j) \/ PreparePaused(j) \/ PrepareConfirm(j) \/ PrepareTimeout(j)
  PROVE  RowStep(j)
<1> USE DEF TypeOK, rowVars, RowStep, RowStays
<1>0. wakes' = wakes
  BY DEF Prepare, PrepareSnapshot, PreparePaused, PrepareConfirm, PrepareTimeout
<1>f. ASSUME NEW c, PrepareFails(j, c) PROVE RowStep(j)
  <2>1. delivery[j] # "activating" \/ state[j] # "preparing"
    BY DEF LeaseInv, JobInv, RowShape
  <2> QED
    BY <1>0, <1>f, <2>1 DEF PrepareFails, SetRow, RowMoves, IsRevoked, Live
<1>1. CASE Prepare(j)
  BY <1>1 DEF Prepare
<1>2. CASE PrepareSnapshot(j)
  <2>1. state[j] = "none"
    BY <1>2 DEF PrepareSnapshot, LeaseInv, JobInv, TaskShape
  <2> QED
    BY <1>0, <1>2, <2>1 DEF PrepareSnapshot, CreateLease, SetRow, RowMoves, Registers
<1>3. CASE PreparePaused(j)
  BY <1>0, <1>3, <1>f DEF PreparePaused
<1>4. CASE PrepareConfirm(j)
  <2>1. CASE MayCommit(j)
    <3>1. state[j] = "preparing" /\ SetRow(j, CommitState(j), IF CommitState(j) = "terminal" THEN "waiting_for_idle"
                                                                  ELSE "pending")
      BY <1>4, <2>1 DEF PrepareConfirm, MayCommit
    <3> QED
      BY <1>0, <3>1 DEF SetRow, CommitState, RowMoves, Holds, FallsDue
  <2>2. CASE ~MayCommit(j)
    BY <1>4, <1>f, <2>2 DEF PrepareConfirm
  <2> QED
    BY <2>1, <2>2
<1>5. CASE PrepareTimeout(j)
  BY <1>0, <1>5, <1>f DEF PrepareTimeout
<1> QED
  BY <1>1, <1>2, <1>3, <1>4, <1>5

\* A revocation reaches the one live lease, if it reaches any.
LEMMA AbandonRows ==
  ASSUME TypeOK, LeaseInv, AbandonForManualChange, wakes' = wakes
  PROVE  (\A k \in Jobs : RowStays(k)) \/ \E j \in Jobs : RowStep(j)
<1> USE DEF TypeOK, RowStays, AbandonForManualChange
<1>1. CASE \E j \in Jobs : Revocable(j)
  <2>1. PICK j \in Jobs : Revocable(j)
    BY <1>1
  <2>2. \A k \in Jobs \ {j} : ~Revocable(k)
    BY <2>1 DEF Revocable, LeaseInv, OneLiveLease
  <2>3. RowMoves(j)
    BY <2>1 DEF Revocable, RowMoves, IsRevoked
  <2> QED
    BY <2>2, <2>3 DEF RowStep
<1>2. CASE \A j \in Jobs : ~Revocable(j)
  BY <1>2
<1> QED
  BY <1>1, <1>2

\* The job's end, an abort or the deadline make an armed lease due.
LEMMA DueRows ==
  ASSUME TypeOK, LeaseInv, NEW j \in Jobs, Terminal(j) \/ Abort(j) \/ ExpireAtDeadline(j)
  PROVE  (\A k \in Jobs : RowStays(k)) \/ \E k \in Jobs : RowStep(k)
<1>0. wakes' = wakes
  BY DEF Terminal, Abort, ExpireAtDeadline
<1>1. CASE AbandonForManualChange
  BY <1>0, <1>1, AbandonRows
<1>2. CASE state[j] = "armed" /\ BecomesDue(j)
  BY <1>0, <1>2 DEF TypeOK, BecomesDue, SetRow, RowStep, RowStays, RowMoves, FallsDue
<1>3. CASE UNCHANGED <<state, delivery>>
  BY <1>0, <1>3 DEF RowStays
<1> QED
  BY <1>1, <1>2, <1>3 DEF Terminal, Abort, ExpireAtDeadline

\* The error path of a delivery task gives a due or activating lease up.
LEMMA DeliverFailsRows ==
  ASSUME TypeOK, LeaseInv, NEW j \in Jobs, deliver[j] # "none", NEW c, DeliverFails(j, c)
  PROVE  RowStays(j) \/ RowMoves(j)
<1>1. CASE UNCHANGED <<state, delivery>>
  BY <1>1 DEF DeliverFails, RowStays
<1>2. CASE delivery[j] \notin {"resumed", "abandoned"} /\ SetRow(j, "failed", "needs_manual_recovery")
  <2>1. state[j] = "terminal" \/ (state[j] = "failed" /\ delivery[j] = "needs_manual_recovery")
    BY <1>2 DEF LeaseInv, JobInv, RowShape, TaskShape, Retired
  <2>2. state'[j] = "failed" /\ delivery'[j] = "needs_manual_recovery" /\ wakes' = wakes
    BY <1>2 DEF TypeOK, SetRow, DeliverFails
  <2> QED
    BY <2>1, <2>2 DEF RowStays, RowMoves, IsGivenUp
<1> QED
  BY <1>1, <1>2 DEF DeliverFails

\* A delivery task activates the lease, settles it, or leaves it alone.
LEMMA DeliverRows ==
  ASSUME TypeOK, LeaseInv, NEW j \in Jobs, DeliverStep(j)
  PROVE  RowStep(j)
<1>0. \A k \in Jobs \ {j} : RowStays(k)
  BY DeliverOthers DEF Same, RowStays
<1>s. ASSUME UNCHANGED <<state, delivery, wakes>> PROVE RowStays(j)
  BY <1>s DEF RowStays
<1>1. CASE DeliverStart(j) \/ DeliverWait(j) \/ DeliverLock(j) \/ DeliverUnwind(j)
  BY <1>0, <1>1, <1>s DEF DeliverStart, DeliverWait, DeliverLock, DeliverUnwind, RowStep
<1>2. CASE DeliverRead(j) \/ DeliverReread(j) \/ DeliverCheck(j) \/ DeliverTimeout(j)
  BY <1>0, <1>2, <1>s, DeliverFailsRows DEF DeliverRead, DeliverReread, DeliverCheck, DeliverTimeout, RowStep
<1>3. CASE DeliverActivate(j)
  <2>1. CASE \E c \in {"none"} : DeliverFails(j, c)
    BY <1>0, <1>3, <2>1, DeliverFailsRows DEF DeliverActivate, RowStep
  <2>2. CASE UNCHANGED <<state, delivery, wakes>>
    BY <1>0, <1>s, <2>2 DEF RowStep
  <2>3. CASE Due(j) /\ SetRow(j, "abandoned", "abandoned") /\ UNCHANGED wakes
    BY <1>0, <2>3 DEF TypeOK, Due, SetRow, RowStep, RowMoves, IsRevoked, Live
  <2>4. CASE Due(j) /\ state' = state /\ delivery' = [delivery EXCEPT ![j] = "activating"]
             /\ wakes' = [wakes EXCEPT ![j] = @ + 1]
    BY <1>0, <2>4 DEF TypeOK, Due, RowStep, RowMoves, Activates
  <2> QED
    BY <1>3, <2>1, <2>2, <2>3, <2>4 DEF DeliverActivate
<1>4. CASE DeliverActivated(j)
  <2>1. state[j] = "terminal" /\ delivery[j] = "activating"
    BY <1>4 DEF DeliverActivated, LeaseInv, JobInv, RowShape, TaskShape
  <2>2. state'[j] \in {"delivered", "failed"} /\ wakes' = wakes
    BY <1>4 DEF TypeOK, DeliverActivated, SetRow
  <2> QED
    BY <1>0, <2>1, <2>2 DEF RowStep, RowMoves, Resumes, IsGivenUp
<1> QED
  BY <1>1, <1>2, <1>3, <1>4 DEF DeliverStep

\* A restart gives up the one lease that was registering or being activated.
LEMMA RestartRows ==
  ASSUME TypeOK, LeaseInv, Restart
  PROVE  (\A k \in Jobs : RowStays(k)) \/ \E j \in Jobs : RowStep(j)
<1> DEFINE Broken(j) == state[j] = "preparing" \/ delivery[j] = "activating"
<1>1. ASSUME NEW j \in Jobs
      PROVE  /\ ~Broken(j) => RowStays(j)
             /\ Broken(j) => IsGivenUp(j) /\ state[j] \in Live
  <2>1. RowShape(j) /\ state'[j] = Recovered(j)[1] /\ delivery'[j] = Recovered(j)[2] /\ wakes' = wakes
    BY DEF Restart, LeaseInv, JobInv
  <2>2. Broken(j) => state[j] \in {"preparing", "terminal"}
    BY <2>1 DEF RowShape
  <2> QED
    BY <2>1, <2>2, RecoveredRow DEF RowStays, IsGivenUp, Live
<1>2. CASE \E j \in Jobs : Broken(j)
  <2>1. PICK j \in Jobs : Broken(j)
    BY <1>2
  <2>2. \A k \in Jobs \ {j} : ~Broken(k)
    BY <1>1, <2>1 DEF LeaseInv, OneLiveLease
  <2> QED
    BY <1>1, <2>1, <2>2 DEF RowStep, RowMoves
<1>3. CASE \A j \in Jobs : ~Broken(j)
  BY <1>1, <1>3
<1> QED
  BY <1>2, <1>3

\* Every step of the system moves at most one lease, and only as the abstract lease
\* may move.
LEMMA NextRows ==
  ASSUME TypeOK, LeaseInv, [Next]_vars
  PROVE  (\A k \in Jobs : RowStays(k)) \/ \E j \in Jobs : RowStep(j)
<1>s. ASSUME UNCHANGED <<state, delivery, wakes>> PROVE \A k \in Jobs : RowStays(k)
  BY <1>s DEF RowStays
<1>1. CASE (AppNext /\ UNCHANGED bridgeVars) \/ UNCHANGED vars \/ Crash
  BY <1>1, <1>s DEF bridgeVars, vars, rowVars, Crash
<1>2. ASSUME NEW j \in Jobs, JobNext(j)
      PROVE  (\A k \in Jobs : RowStays(k)) \/ \E k \in Jobs : RowStep(k)
  BY <1>2, PrepareRows, DueRows, DeliverRows DEF JobNext, DeliverStep
<1>3. CASE OnNotification
  <2>1. AbandonForManualChange \/ keepLease
    BY <1>3 DEF OnNotification, GoalUpdated
  <2>2. wakes' = wakes
    BY <1>3 DEF OnNotification
  <2> QED
    BY <2>1, <2>2, <1>s, AbandonRows DEF keepLease
<1>4. CASE ForwardControl \/ \E op \in UserOps : UserGoalControl(op)
  BY <1>4, AbandonRows DEF ForwardControl, UserGoalControl, userFrame
<1> QED
  BY <1>1, <1>2, <1>3, <1>4, RestartRows DEF Next

-----------------------------------------------------------------------------
(* A lease that is over                                                    *)

\* No handler, task or recovery changes the row of a retired lease or sends an
\* activation for it ("Normal completion and deadline callbacks cannot revive
\* revoked leases", docs/EVENT_DRIVEN_WAKEUP.md:66).
THEOREM RetiredStays == Spec => RetiredStaysRetired
<1> DEFINE RowsKept == \A j \in Jobs : state[j] \in Retired =>
                         state'[j] = state[j] /\ delivery'[j] = delivery[j] /\ wakes'[j] = wakes[j]
<1>1. ASSUME TypeOK, LeaseInv, [Next]_vars PROVE [RowsKept]_vars
  <2> SUFFICES ASSUME NEW j \in Jobs, state[j] \in Retired PROVE RowStays(j)
    BY DEF RowStays
  <2>1. ~RowMoves(j)
    BY DEF RowMoves, Registers, Holds, FallsDue, Activates, Resumes, IsRevoked, IsGivenUp, Retired, Live
  <2> QED
    BY <1>1, <2>1, NextRows DEF RowStep
<1> QED
  BY <1>1, TypeCorrect, LeaseInvariant, PTL DEF Spec, RetiredStaysRetired

-----------------------------------------------------------------------------
(* The refinement                                                          *)

\* Where a row is, in the words of the abstract lease.
LEMMA Phases ==
  ASSUME NEW j \in Jobs
  PROVE  /\ state[j] = "none" <=> LeasePhase(j) = "absent"
         /\ state[j] = "preparing" => LeasePhase(j) = "registering"
         /\ state[j] = "armed" => LeasePhase(j) = "held"
         /\ state[j] = "terminal" /\ delivery[j] # "activating" => LeasePhase(j) = "due"
         /\ state[j] = "terminal" /\ delivery[j] = "activating" => LeasePhase(j) = "waking"
         /\ state[j] = "delivered" => LeasePhase(j) = "woken"
         /\ state[j] = "abandoned" => LeasePhase(j) = "revoked"
         /\ state[j] = "failed" => LeasePhase(j) = "manual"
         /\ LeasePhase(j) \in {"registering", "held", "due", "waking"} => state[j] \in Live
BY DEF LeasePhase, Live

\* A row that stays has its phase.
LEMMA PhaseStays ==
  ASSUME NEW j \in Jobs, RowStays(j)
  PROVE  LeasePhase(j)' = LeasePhase(j)
BY DEF RowStays, LeasePhase

\* One row moves from one phase to another.
LEMMA PhaseMoves ==
  ASSUME NEW j \in Jobs, RowStep(j), NEW from, LeasePhase(j) \in from, NEW to, LeasePhase(j)' = to
  PROVE  Lease!Move(j, from, to)
<1> DEFINE ph == [k \in Jobs |-> LeasePhase(k)]
<1>1. \A k \in Jobs \ {j} : LeasePhase(k)' = LeasePhase(k)
  BY PhaseStays DEF RowStep
<1>2. ph' = [ph EXCEPT ![j] = to]
  BY <1>1
<1> QED
  BY <1>2 DEF Lease!Move

\* A step of a row is a step of the abstract lease.
LEMMA RowStepRefines ==
  ASSUME TypeOK, TypeOK', NEW j \in Jobs, RowStep(j), RowMoves(j)
  PROVE  Lease!Next
<1>w. ASSUME wakes'[j] = wakes[j] PROVE wakes' = wakes
  BY <1>w DEF RowStep, RowStays, TypeOK
<1>1. CASE Registers(j)
  <2>1. LeasePhase(j) \in {"absent"} /\ LeasePhase(j)' = "registering"
    BY <1>1, Phases DEF Registers, LeasePhase
  <2>2. \A k \in Jobs : [i \in Jobs |-> LeasePhase(i)][k] \notin Lease!Open
    BY <1>1, Phases DEF Registers, ThreadHasLive, Lease!Open
  <2>3. Lease!Move(j, {"absent"}, "registering")
    BY <2>1, PhaseMoves
  <2> QED
    BY <1>1, <1>w, <2>2, <2>3 DEF Registers, Lease!Register, Lease!Next
<1>2. CASE Holds(j)
  <2>1. LeasePhase(j) \in {"registering"} /\ LeasePhase(j)' = "held"
    BY <1>2 DEF Holds, LeasePhase
  <2>2. Lease!Move(j, {"registering"}, "held")
    BY <2>1, PhaseMoves
  <2> QED
    BY <1>2, <1>w, <2>2 DEF Holds, Lease!Hold, Lease!Next
<1>3. CASE FallsDue(j)
  <2>1. LeasePhase(j) \in {"registering", "held"} /\ LeasePhase(j)' = "due"
    BY <1>3 DEF FallsDue, LeasePhase
  <2>2. Lease!Move(j, {"registering", "held"}, "due")
    BY <2>1, PhaseMoves
  <2> QED
    BY <1>3, <1>w, <2>2 DEF FallsDue, Lease!BecomeDue, Lease!Next
<1>4. CASE Activates(j)
  <2>1. LeasePhase(j) \in {"due"} /\ LeasePhase(j)' = "waking"
    BY <1>4 DEF Activates, LeasePhase
  <2>2. Lease!Move(j, {"due"}, "waking")
    BY <2>1, PhaseMoves
  <2>3. wakes' = [wakes EXCEPT ![j] = @ + 1]
    BY <1>4 DEF Activates, RowStep, RowStays, TypeOK
  <2> QED
    BY <2>2, <2>3 DEF Lease!Wake, Lease!Next
<1>5. CASE Resumes(j)
  <2>1. LeasePhase(j) \in {"waking"} /\ LeasePhase(j)' = "woken"
    BY <1>5 DEF Resumes, LeasePhase
  <2>2. Lease!Move(j, {"waking"}, "woken")
    BY <2>1, PhaseMoves
  <2> QED
    BY <1>5, <1>w, <2>2 DEF Resumes, Lease!Confirm, Lease!Next
<1>6. CASE IsRevoked(j)
  <2>1. LeasePhase(j) \in {"registering", "held", "due"} /\ LeasePhase(j)' = "revoked"
    BY <1>6 DEF IsRevoked, LeasePhase, Live
  <2>2. Lease!Move(j, {"registering", "held", "due"}, "revoked")
    BY <2>1, PhaseMoves
  <2> QED
    BY <1>6, <1>w, <2>2 DEF IsRevoked, Lease!Revoke, Lease!Next
<1>7. CASE IsGivenUp(j)
  <2>1. LeasePhase(j) \in {"registering", "due", "waking"} /\ LeasePhase(j)' = "manual"
    BY <1>7 DEF IsGivenUp, LeasePhase
  <2>2. Lease!Move(j, {"registering", "due", "waking"}, "manual")
    BY <2>1, PhaseMoves
  <2> QED
    BY <1>7, <1>w, <2>2 DEF IsGivenUp, Lease!GiveUp, Lease!Next
<1> QED
  BY <1>1, <1>2, <1>3, <1>4, <1>5, <1>6, <1>7 DEF RowMoves

\* No row moves: the abstract lease stutters.
LEMMA RowStutters ==
  ASSUME TypeOK, TypeOK', \A k \in Jobs : RowStays(k)
  PROVE  UNCHANGED Lease!vars
<1>1. wakes' = wakes
  BY DEF RowStays, TypeOK
<1>2. \A k \in Jobs : LeasePhase(k)' = LeasePhase(k)
  BY PhaseStays
<1> QED
  BY <1>1, <1>2 DEF Lease!vars

\* The bridge with its tasks, calls, crashes and recoveries, its App Server and its
\* user implement the abstract wake lease: one lease at a time, one attempt per job
\* and only when due, nothing after its end (bridge.py, bridge_state.py).
THEOREM Refines == Spec => LeaseSpec
<1>1. Init => Lease!Init
  <2> SUFFICES ASSUME Init PROVE Lease!Init
    OBVIOUS
  <2>1. \A j \in Jobs : LeasePhase(j) = "absent"
    BY Phases DEF Init
  <2>2. wakes = [j \in Jobs |-> 0]
    BY DEF Init
  <2> QED
    BY <2>1, <2>2 DEF Lease!Init
<1>2. ASSUME TypeOK, TypeOK', LeaseInv, [Next]_vars PROVE [Lease!Next]_(Lease!vars)
  <2>1. CASE \A k \in Jobs : RowStays(k)
    BY <1>2, <2>1, RowStutters
  <2>2. ASSUME NEW j \in Jobs, RowStep(j) PROVE [Lease!Next]_(Lease!vars)
    <3>1. CASE RowMoves(j)
      BY <1>2, <2>2, <3>1, RowStepRefines
    <3>2. CASE RowStays(j)
      BY <1>2, <2>2, <3>2, RowStutters DEF RowStep
    <3> QED
      BY <2>2, <3>1, <3>2 DEF RowStep
  <2> QED
    BY <1>2, <2>1, <2>2, NextRows
<1> QED
  BY <1>1, <1>2, TypeCorrect, LeaseInvariant, PTL DEF Spec, LeaseSpec, Lease!Spec

=============================================================================
