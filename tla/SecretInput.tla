---------------------------- MODULE SecretInput ----------------------------
(***************************************************************************)
(* One-time stdin handles (secret_input.py) and their use by jobs           *)
(* (server.py).  A handle is a private file; its name is known to nobody    *)
(* before create_one_time_secret returns it.  Creators and MCP servers are  *)
(* separate processes that share the directory: each system call is a step. *)
(***************************************************************************)
EXTENDS Naturals, Sequences, FiniteSets

CONSTANTS Handles,   \* secret IDs; an ID is never given out twice
          Jobs,      \* jobs that ask for handles, in any servers
          Size,      \* payload size of each handle
          MaxBytes,  \* LONGRUN_MAX_STDIN_SECRET_BYTES
          Envelope,  \* size of the pair's JSON text without the two values
          Ttl,       \* LONGRUN_SECRET_TTL_SEC
          MaxClock,  \* bound: ticks of the clock
          Memfd      \* the sealed memory file of a pair

ASSUME SecretAssumption ==
  /\ Size \in [Handles -> Nat]
  /\ MaxBytes \in Nat /\ Envelope \in Nat /\ Ttl \in Nat /\ MaxClock \in Nat
  /\ Memfd \notin Handles

VARIABLES
  clock,
  file,     \* the directory entry of each handle
  mtime,    \* when it was written
  create,   \* where the process that creates the handle is
  glob,     \* the entries its _prune_expired still looks at
  since,    \* when that process started pruning
  want,     \* the handles a job asks for: one, or the two of a pair in order
  pc, pos,  \* where the job is, and at which of its handles
  fds,      \* descriptors its server has open for it
  got,      \* handles whose claim succeeded for the job
  pruned,   \* handles unlinked as expired
  stdin     \* what the started command reads

fileVars   == <<file, mtime, pruned>>
createVars == <<create, glob, since>>
jobVars    == <<want, pc, pos, fds, got, stdin>>
vars == <<clock, fileVars, createVars, jobVars>>

Linked == {"writing", "staged"}
Over   == {"rejected", "refused", "failed", "started"}

TypeOK ==
  /\ clock \in 0..MaxClock
  /\ file \in [Handles -> {"none", "gone"} \cup Linked]
  /\ mtime \in [Handles -> 0..MaxClock]
  /\ create \in [Handles -> {"idle", "prune", "write", "issued", "failed"}]
  /\ glob \in [Handles -> SUBSET Handles]
  /\ since \in [Handles -> 0..MaxClock]
  /\ want \in [Jobs -> Seq(Handles)]
  /\ pc \in [Jobs -> {"idle", "register", "open", "fstat", "lstat", "unlink", "read",
                      "assemble", "spawn"} \cup Over]
  /\ pos \in [Jobs -> 1..2]
  /\ fds \in [Jobs -> SUBSET (Handles \cup {Memfd})]
  /\ got \in [Jobs -> SUBSET Handles]
  /\ pruned \subseteq Handles
  /\ stdin \in [Jobs -> SUBSET Handles]

Init ==
  /\ clock = 0
  /\ file = [h \in Handles |-> "none"]
  /\ mtime = [h \in Handles |-> 0]
  /\ create = [h \in Handles |-> "idle"]
  /\ glob = [h \in Handles |-> {}]
  /\ since = [h \in Handles |-> 0]
  /\ want = [j \in Jobs |-> <<>>]
  /\ pc = [j \in Jobs |-> "idle"]
  /\ pos = [j \in Jobs |-> 1]
  /\ fds = [j \in Jobs |-> {}]
  /\ got = [j \in Jobs |-> {}]
  /\ pruned = {}
  /\ stdin = [j \in Jobs |-> {}]

Tick ==
  /\ clock < MaxClock
  /\ clock' = clock + 1
  /\ UNCHANGED <<fileVars, createVars, jobVars>>

-----------------------------------------------------------------------------
(* create_one_time_secret and _prune_expired                               *)

\* An empty or too large payload is refused; otherwise expired files go first.
CreateStart(h) ==
  /\ create[h] = "idle"
  /\ IF Size[h] \in 1..MaxBytes
     THEN /\ create' = [create EXCEPT ![h] = "prune"]
          /\ glob' = [glob EXCEPT ![h] = {k \in Handles : file[k] \in Linked}]
          /\ since' = [since EXCEPT ![h] = clock]
     ELSE /\ create' = [create EXCEPT ![h] = "failed"]
          /\ UNCHANGED <<glob, since>>
  /\ UNCHANGED <<clock, fileVars, jobVars>>

Expired(k, now) == mtime[k] + Ttl <= now

\* One entry: lstat, then unlink if it is old.  The two are one step, because an
\* entry that has gone is passed over by either of them.
PruneOne(h, k) ==
  /\ create[h] = "prune" /\ k \in glob[h]
  /\ glob' = [glob EXCEPT ![h] = @ \ {k}]
  /\ IF file[k] \in Linked /\ Expired(k, since[h])
     THEN /\ file' = [file EXCEPT ![k] = "gone"]
          /\ pruned' = pruned \cup {k}
     ELSE UNCHANGED <<file, pruned>>
  /\ UNCHANGED <<clock, mtime, create, since, jobVars>>

CreateOpen(h) ==
  /\ create[h] = "prune" /\ glob[h] = {}
  /\ create' = [create EXCEPT ![h] = "write"]
  /\ file' = [file EXCEPT ![h] = "writing"]
  /\ mtime' = [mtime EXCEPT ![h] = clock]
  /\ UNCHANGED <<clock, pruned, glob, since, jobVars>>

\* The payload is written and synced, and the handle is returned; or a failure
\* removes the file; or the process dies and leaves it behind.
CreateEnds(h) ==
  /\ create[h] = "write"
  /\ \/ /\ create' = [create EXCEPT ![h] = "issued"]
        /\ file' = [file EXCEPT ![h] = IF @ = "writing" THEN "staged" ELSE @]
        /\ mtime' = [mtime EXCEPT ![h] = IF file[h] = "writing" THEN clock ELSE @]
     \/ /\ create' = [create EXCEPT ![h] = "failed"]
        /\ file' = [file EXCEPT ![h] = "gone"]
        /\ UNCHANGED mtime
     \/ /\ create' = [create EXCEPT ![h] = "failed"]
        /\ UNCHANGED <<file, mtime>>
  /\ UNCHANGED <<clock, pruned, glob, since, jobVars>>

-----------------------------------------------------------------------------
(* A job with secret stdin                                                 *)

\* _validate_secret_inputs: a pair names two distinct handles.
MutValidInputs(w) == TRUE
ValidInputs(w) == Len(w) = 2 => w[1] # w[2]

\* start_job with handles that have been returned to somebody.
Request(j, w) ==
  /\ pc[j] = "idle" /\ \A i \in 1..Len(w) : create[w[i]] = "issued"
  /\ want' = [want EXCEPT ![j] = w]
  /\ pc' = [pc EXCEPT ![j] = IF ValidInputs(w) THEN "register" ELSE "rejected"]
  /\ UNCHANGED <<clock, fileVars, createVars, pos, fds, got, stdin>>

\* The wake registration, which comes before any claim; the memory file of a
\* pair is opened first.
Register(j) ==
  /\ pc[j] = "register"
  /\ \/ /\ pc' = [pc EXCEPT ![j] = "open"]
        /\ fds' = [fds EXCEPT ![j] = IF Len(want[j]) = 2 THEN {Memfd} ELSE {}]
     \/ /\ pc' = [pc EXCEPT ![j] = "refused"]
        /\ UNCHANGED fds
  /\ UNCHANGED <<clock, fileVars, createVars, want, pos, got, stdin>>

Current(j) == want[j][pos[j]]

\* Every exception closes what is open; nothing is put back.
Closed(j) == [fds EXCEPT ![j] = {}]
Fail(j) == /\ pc' = [pc EXCEPT ![j] = "failed"]
           /\ fds' = Closed(j)

claimFrame == <<clock, mtime, pruned, createVars, want, stdin>>

\* claim_one_time_secret: open, fstat, lstat, unlink.
Open(j) ==
  /\ pc[j] = "open"
  /\ IF file[Current(j)] \in Linked
     THEN /\ pc' = [pc EXCEPT ![j] = "fstat"]
          /\ fds' = [fds EXCEPT ![j] = @ \cup {Current(j)}]
     ELSE Fail(j)
  /\ UNCHANGED <<claimFrame, file, pos, got>>

\* The checks of the open file; one already unlinked has no link left.
MutFstat(j) ==
  /\ pc[j] = "fstat"
  /\ IF /\ file[Current(j)] \in Linked
        /\ Size[Current(j)] \in 1..MaxBytes
        /\ clock <= mtime[Current(j)] + Ttl
     THEN pc' = [pc EXCEPT ![j] = "lstat"] /\ UNCHANGED fds
     ELSE pc' = [pc EXCEPT ![j] = "failed"] /\ UNCHANGED fds
  /\ UNCHANGED <<claimFrame, file, pos, got>>
Fstat(j) ==
  /\ pc[j] = "fstat"
  /\ IF /\ file[Current(j)] \in Linked
        /\ Size[Current(j)] \in 1..MaxBytes
        /\ clock <= mtime[Current(j)] + Ttl
     THEN pc' = [pc EXCEPT ![j] = "lstat"] /\ UNCHANGED fds
     ELSE Fail(j)
  /\ UNCHANGED <<claimFrame, file, pos, got>>

Lstat(j) ==
  /\ pc[j] = "lstat"
  /\ IF file[Current(j)] \in Linked
     THEN pc' = [pc EXCEPT ![j] = "unlink"] /\ UNCHANGED fds
     ELSE Fail(j)
  /\ UNCHANGED <<claimFrame, file, pos, got>>

\* The unlink decides who has claimed the handle.
MutWinsUnlink(j) == TRUE
WinsUnlink(j) == file[Current(j)] \in Linked
Unlink(j) ==
  /\ pc[j] = "unlink"
  /\ IF WinsUnlink(j)
     THEN /\ file' = [file EXCEPT ![Current(j)] = "gone"]
          /\ got' = [got EXCEPT ![j] = @ \cup {Current(j)}]
          /\ pc' = [pc EXCEPT ![j] = IF Len(want[j]) = 2 THEN "read" ELSE "spawn"]
          /\ UNCHANGED fds
     ELSE Fail(j) /\ UNCHANGED <<file, got>>
  /\ UNCHANGED <<claimFrame, pos>>

\* claim_secret_pair: the bytes are read into memory and the file is closed; too
\* many of them end the claim.
RawBytes(j) == Size[want[j][1]] + (IF pos[j] = 2 THEN Size[want[j][2]] ELSE 0)
MutAdvance(j) == pos[j] + 1
Advance(j) == IF pos[j] = 1 THEN 2 ELSE pos[j]
MutReadNext(j) == "assemble"
ReadNext(j) == IF pos[j] = 1 THEN "open" ELSE "assemble"
Read(j) ==
  /\ pc[j] = "read"
  /\ \/ /\ RawBytes(j) <= MaxBytes
        /\ pc' = [pc EXCEPT ![j] = ReadNext(j)]
        /\ fds' = [fds EXCEPT ![j] = @ \ {Current(j)}]
        /\ pos' = [pos EXCEPT ![j] = Advance(j)]
     \/ /\ Fail(j)
        /\ UNCHANGED pos
  /\ UNCHANGED <<claimFrame, file, got>>

\* The pair is encoded, written to the memory file and sealed, or is not.
Base64(n) == 4 * ((n + 2) \div 3)
PairBytes(j) == Base64(Size[want[j][1]]) + Base64(Size[want[j][2]]) + Envelope
Fits(n) == n <= MaxBytes
Assemble(j) ==
  /\ pc[j] = "assemble"
  /\ \/ /\ Fits(PairBytes(j))
        /\ pc' = [pc EXCEPT ![j] = "spawn"]
        /\ UNCHANGED fds
     \/ Fail(j)
  /\ UNCHANGED <<claimFrame, file, pos, got>>

\* The supervised command gets the descriptor, or cannot be started; the server
\* closes its own in either case.
Spawn(j) ==
  /\ pc[j] = "spawn"
  /\ \/ /\ pc' = [pc EXCEPT ![j] = "started"]
        /\ stdin' = [stdin EXCEPT ![j] = got[j]]
     \/ /\ pc' = [pc EXCEPT ![j] = "failed"]
        /\ UNCHANGED stdin
  /\ fds' = Closed(j)
  /\ UNCHANGED <<clock, fileVars, createVars, want, pos, got>>

\* The job's server dies.
ServerDies(j) ==
  /\ pc[j] \notin Over \cup {"idle"}
  /\ Fail(j)
  /\ UNCHANGED <<claimFrame, file, pos, got>>

-----------------------------------------------------------------------------
Inputs == UNION {[1..n -> Handles] : n \in 1..2}

Next ==
  \/ Tick
  \/ \E h \in Handles : \/ CreateStart(h) \/ CreateOpen(h) \/ CreateEnds(h)
                        \/ \E k \in Handles : PruneOne(h, k)
  \/ \E j \in Jobs : \/ \E w \in Inputs : Request(j, w)
                     \/ Register(j) \/ Open(j) \/ Fstat(j) \/ Lstat(j) \/ Unlink(j)
                     \/ Read(j) \/ Assemble(j) \/ Spawn(j) \/ ServerDies(j)

Spec == Init /\ [][Next]_vars

-----------------------------------------------------------------------------
(* Properties                                                              *)

\* A handle is consumed once: whatever two servers and a pruning creator do
\* between open, checks and unlink, at most one of them removes the file, and
\* no file that still exists has been claimed ("consumed once", README.md:140;
\* secret_input.py:224-251).
ConsumedOnce ==
  \A h \in Handles :
    /\ \A i, j \in Jobs : h \in got[i] /\ h \in got[j] => i = j
    /\ h \in pruned => \A j \in Jobs : h \notin got[j]
    /\ file[h] \in Linked => h \notin pruned /\ \A j \in Jobs : h \notin got[j]

\* "No command starts with an incomplete pair" (README.md:184), and none with
\* more than the limit: a started command reads exactly the handles it asked
\* for, each completely written, and a pair's envelope within MaxBytes.
WholeInputOnly ==
  \A j \in Jobs : pc[j] = "started" =>
    /\ stdin[j] = {want[j][i] : i \in 1..Len(want[j])}
    /\ \A h \in stdin[j] : create[h] = "issued"
    /\ Len(want[j]) = 2 => Cardinality(stdin[j]) = 2 /\ PairBytes(j) <= MaxBytes

\* "Malformed maps are rejected before handle consumption or Goal registration.
\* Registration failure does not consume either handle" (README.md:183-184).
RefusedConsumesNothing ==
  \A j \in Jobs : /\ pc[j] \in {"rejected", "refused"} => got[j] = {}
                  /\ Len(want[j]) = 2 /\ want[j][1] = want[j][2] => got[j] = {}

\* However a job ends, on every path on which a step fails too, its server keeps no
\* descriptor of a secret open: the server lives on, and the content of a consumed
\* handle would stay readable in it (secret_input.py:50-103, server.py:1382-1413).
NoDescriptorLeft == \A j \in Jobs : pc[j] \in Over => fds[j] = {}
=============================================================================
