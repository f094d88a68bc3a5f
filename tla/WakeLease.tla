----------------------------- MODULE WakeLease -----------------------------
(***************************************************************************)
(* What the bridge promises of the wake leases of one thread, whatever its  *)
(* tasks, the App Server and the user do: one lease at a time, a wakeup is  *)
(* attempted at most once for a job and only for a due lease that was not   *)
(* revoked, and a lease that is over stays over.                            *)
(***************************************************************************)
EXTENDS Naturals

CONSTANT Jobs

VARIABLES phase,    \* where each job's lease is
          attempts  \* wakeups attempted for each job

vars == <<phase, attempts>>

Open   == {"registering", "held", "due", "waking"}
Over   == {"woken", "revoked", "manual"}
Phases == {"absent"} \cup Open \cup Over

TypeOK == /\ phase \in [Jobs -> Phases]
          /\ attempts \in [Jobs -> Nat]

Init == /\ phase = [j \in Jobs |-> "absent"]
        /\ attempts = [j \in Jobs |-> 0]

Move(j, from, to) == /\ phase[j] \in from
                     /\ phase' = [phase EXCEPT ![j] = to]

Register(j) == /\ \A k \in Jobs : phase[k] \notin Open
               /\ Move(j, {"absent"}, "registering")
               /\ UNCHANGED attempts

\* The Goal's pause is confirmed.
Hold(j) == Move(j, {"registering"}, "held") /\ UNCHANGED attempts

\* The job ended (possibly before the pause was confirmed), was aborted or
\* outlived its deadline.
BecomeDue(j) == Move(j, {"registering", "held"}, "due") /\ UNCHANGED attempts

Wake(j) == /\ Move(j, {"due"}, "waking")
           /\ attempts' = [attempts EXCEPT ![j] = @ + 1]

Confirm(j) == Move(j, {"waking"}, "woken") /\ UNCHANGED attempts

\* The user, or anyone else, took the Goal back: no wakeup any more.
Revoke(j) == Move(j, {"registering", "held", "due"}, "revoked") /\ UNCHANGED attempts

\* Nothing certain can be said: the user recovers by hand.
GiveUp(j) == Move(j, {"registering", "due", "waking"}, "manual") /\ UNCHANGED attempts

Next == \E j \in Jobs : \/ Register(j) \/ Hold(j) \/ BecomeDue(j) \/ Wake(j)
                        \/ Confirm(j) \/ Revoke(j) \/ GiveUp(j)

Spec == Init /\ [][Next]_vars
=============================================================================
