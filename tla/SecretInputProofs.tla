------------------------- MODULE SecretInputProofs -------------------------
(***************************************************************************)
(* One-time handles, for any handles, jobs, sizes and lifetimes: each is    *)
(* consumed once, a command starts with all of its input or not at all, a   *)
(* refused job consumes nothing, and no descriptor stays open.              *)
(***************************************************************************)
EXTENDS SecretInput, FiniteSetTheorems, TLAPS

-----------------------------------------------------------------------------
(* The inductive invariant                                                 *)

\* The handles a job has to have claimed when it is done with its position, and
\* before that.
Asked(j)   == {want[j][1]} \cup (IF Len(want[j]) = 2 THEN {want[j][2]} ELSE {})
Earlier(j) == IF pos[j] = 2 THEN {want[j][1]} ELSE {}

\* What a job asks for: one or two issued handles, distinct unless it is rejected.
WantShape(j) ==
  /\ pc[j] # "idle" =>
       /\ Len(want[j]) \in {1, 2}
       /\ \A i \in 1..Len(want[j]) : create[want[j][i]] = "issued"
  /\ pc[j] \notin {"idle", "rejected"} => ValidInputs(want[j])
  /\ pos[j] = 2 => pc[j] # "idle" /\ Len(want[j]) = 2

\* What it has claimed, which its position tells.
GotShape(j) ==
  /\ pc[j] \in {"idle", "rejected", "register", "refused"} => got[j] = {} /\ pos[j] = 1
  /\ pc[j] \in {"open", "fstat", "lstat", "unlink"} => got[j] = Earlier(j)
  /\ pc[j] = "read" => Len(want[j]) = 2 /\ got[j] = Earlier(j) \cup {Current(j)}
  /\ pc[j] \in {"assemble", "spawn"} => got[j] = Asked(j)
  /\ pc[j] = "assemble" => Len(want[j]) = 2
  /\ pc[j] = "started" => stdin[j] = Asked(j)
  /\ pc[j] \in {"spawn", "started"} /\ Len(want[j]) = 2 => PairBytes(j) <= MaxBytes

\* What it has open.
FdShape(j) == pc[j] \in Over \cup {"idle", "register"} => fds[j] = {}

JobInv(j) == WantShape(j) /\ GotShape(j) /\ FdShape(j)

\* A handle that was pruned or claimed is gone, and by one of them only.
HandleInv(h) ==
  /\ create[h] \in {"idle", "prune"} => file[h] = "none"
  /\ h \in pruned => file[h] = "gone" /\ \A j \in Jobs : h \notin got[j]
  /\ \A j \in Jobs : h \in got[j] => file[h] = "gone"
  /\ \A i, j \in Jobs : h \in got[i] /\ h \in got[j] => i = j

SecretInv == /\ TypeOK
             /\ \A j \in Jobs : JobInv(j)
             /\ \A h \in Handles : HandleInv(h)

-----------------------------------------------------------------------------
(* Facts about requests                                                    *)

\* A request is a sequence of one or two handles.
LEMMA InputFacts ==
  ASSUME NEW w \in Inputs
  PROVE  w \in Seq(Handles) /\ Len(w) \in {1, 2}
<1>1. PICK n \in 1..2 : w \in [1..n -> Handles]
  BY DEF Inputs
<1>2. w \in Seq(Handles) /\ Len(w) = n
  BY <1>1
<1> QED
  BY <1>2

\* Two distinct handles are two.
LEMMA PairCardinality ==
  ASSUME NEW x, NEW y, x # y
  PROVE  Cardinality({x, y}) = 2
<1>1. IsFiniteSet({x}) /\ Cardinality({x}) = 1
  BY FS_Singleton, Zenon
<1>2. Cardinality({x} \cup {y}) = IF y \in {x} THEN Cardinality({x}) ELSE Cardinality({x}) + 1
  BY <1>1, FS_AddElement, Zenon
<1>3. {x} \cup {y} = {x, y} /\ y \notin {x}
  OBVIOUS
<1> QED
  BY <1>1, <1>2, <1>3

\* The handle a job is at is one it has asked for.
LEMMA CurrentFacts ==
  ASSUME TypeOK, NEW j \in Jobs, WantShape(j), pc[j] # "idle"
  PROVE  /\ Current(j) \in Handles
         /\ Current(j) = IF pos[j] = 2 THEN want[j][2] ELSE want[j][1]
<1>1. want[j] \in Seq(Handles) /\ pos[j] \in 1..2
  BY DEF TypeOK
<1>2. Len(want[j]) \in {1, 2} /\ (pos[j] = 2 => Len(want[j]) = 2)
  BY DEF WantShape
<1>4. pos[j] \in 1..Len(want[j])
  BY <1>1, <1>2
<1>3. want[j][pos[j]] \in Handles
  BY <1>1, <1>4
<1> QED
  BY <1>1, <1>3 DEF Current

-----------------------------------------------------------------------------
(* Preservation                                                            *)

\* The step leaves job k alone, and takes back no handle that was issued.
SameJob(k) ==
  /\ want'[k] = want[k] /\ pc'[k] = pc[k] /\ pos'[k] = pos[k]
  /\ fds'[k] = fds[k] /\ got'[k] = got[k] /\ stdin'[k] = stdin[k]
KeepsIssued == \A h \in Handles : create[h] = "issued" => create'[h] = "issued"

\* What a step leaves alone stays as it should be.
LEMMA SameJobInv ==
  ASSUME TypeOK, NEW k \in Jobs, JobInv(k), SameJob(k), KeepsIssued
  PROVE  JobInv(k)'
<1>1. ASSUME NEW i \in 1..Len(want[k]), create[want[k][i]] = "issued"
      PROVE  create'[want[k][i]] = "issued"
  <2>1. want[k][i] \in Handles
    BY DEF TypeOK
  <2> QED
    BY <1>1, <2>1 DEF KeepsIssued
<1>2. WantShape(k)'
  BY <1>1 DEF JobInv, WantShape, SameJob
<1>3. GotShape(k)'
  BY DEF JobInv, GotShape, SameJob, Earlier, Asked, Current, PairBytes
<1>4. FdShape(k)'
  BY DEF JobInv, FdShape, SameJob
<1> QED
  BY <1>2, <1>3, <1>4 DEF JobInv

\* The steps of creators: no job is concerned, a handle is created once.
LEMMA CreateInv ==
  ASSUME SecretInv, NEW h \in Handles,
         CreateStart(h) \/ CreateOpen(h) \/ CreateEnds(h) \/ \E k \in Handles : PruneOne(h, k)
  PROVE  SecretInv'
<1> USE DEF SecretInv
<1>1. UNCHANGED jobVars /\ clock' = clock
  BY DEF CreateStart, CreateOpen, CreateEnds, PruneOne
<1>2. KeepsIssued
  BY DEF TypeOK, KeepsIssued, CreateStart, CreateOpen, CreateEnds, PruneOne
<1>3. TypeOK'
  <2>1. CASE CreateStart(h)
    <3>1. create' \in [Handles -> {"idle", "prune", "write", "issued", "failed"}]
      BY <2>1 DEF TypeOK, CreateStart
    <3>2. {k \in Handles : file[k] \in Linked} \in SUBSET Handles
      OBVIOUS
    <3>3. glob' \in [Handles -> SUBSET Handles]
      BY <2>1, <3>2 DEF TypeOK, CreateStart
    <3>4. since' \in [Handles -> 0..MaxClock]
      BY <2>1 DEF TypeOK, CreateStart
    <3> QED
      BY <1>1, <2>1, <3>1, <3>3, <3>4 DEF TypeOK, CreateStart, fileVars, jobVars
  <2>2. CASE CreateOpen(h)
    BY <1>1, <2>2 DEF TypeOK, CreateOpen, jobVars, Linked
  <2>3. CASE CreateEnds(h)
    <3>1. create' \in [Handles -> {"idle", "prune", "write", "issued", "failed"}]
      BY <2>3 DEF TypeOK, CreateEnds
    <3>2. file' \in [Handles -> {"none", "gone"} \cup Linked]
      BY <2>3 DEF TypeOK, CreateEnds, Linked
    <3>3. mtime' \in [Handles -> 0..MaxClock]
      BY <2>3 DEF TypeOK, CreateEnds
    <3> QED
      BY <1>1, <2>3, <3>1, <3>2, <3>3 DEF TypeOK, CreateEnds, jobVars
  <2>4. ASSUME NEW k \in Handles, PruneOne(h, k) PROVE TypeOK'
    <3>1. file' \in [Handles -> {"none", "gone"} \cup Linked]
      <4>1. UNCHANGED file \/ file' = [file EXCEPT ![k] = "gone"]
        BY <2>4 DEF PruneOne
      <4> QED
        BY <4>1 DEF TypeOK
    <3>2. glob[h] \ {k} \in SUBSET Handles
      BY DEF TypeOK
    <3>3. glob' \in [Handles -> SUBSET Handles]
      BY <2>4, <3>2 DEF TypeOK, PruneOne
    <3>4. pruned' \subseteq Handles
      BY <2>4 DEF TypeOK, PruneOne
    <3> QED
      BY <1>1, <2>4, <3>1, <3>3, <3>4 DEF TypeOK, PruneOne, jobVars
  <2> QED
    BY <2>1, <2>2, <2>3, <2>4
<1>4. \A j \in Jobs : JobInv(j)'
  BY <1>1, <1>2, SameJobInv DEF SameJob, jobVars
<1>5. ASSUME NEW x \in Handles PROVE HandleInv(x)'
  <2>0. HandleInv(x) /\ got' = got
    BY <1>1 DEF jobVars
  <2>1. CASE CreateStart(h)
    BY <2>0, <2>1 DEF TypeOK, CreateStart, HandleInv, fileVars
  <2>2. CASE CreateOpen(h)
    BY <2>0, <2>2 DEF TypeOK, CreateOpen, HandleInv
  <2>3. CASE CreateEnds(h)
    BY <2>0, <2>3 DEF TypeOK, CreateEnds, HandleInv
  <2>4. ASSUME NEW k \in Handles, PruneOne(h, k) PROVE HandleInv(x)'
    BY <2>0, <2>4 DEF TypeOK, PruneOne, HandleInv, Linked
  <2> QED
    BY <2>1, <2>2, <2>3, <2>4
<1> QED
  BY <1>3, <1>4, <1>5

\* A step of job j that claims nothing, or the linked file of a handle.
ClaimsNothing == UNCHANGED <<file, got>>
Claims(j) == \E h \in Handles : /\ file[h] \in Linked
                                /\ file' = [file EXCEPT ![h] = "gone"]
                                /\ got' = [got EXCEPT ![j] = @ \cup {h}]

\* A step of one job preserves the invariant when it does so for that job.
LEMMA JobStep ==
  ASSUME SecretInv, NEW j \in Jobs, TypeOK', JobInv(j)', \A k \in Jobs \ {j} : SameJob(k),
         UNCHANGED <<pruned, create>>, ClaimsNothing \/ Claims(j)
  PROVE  SecretInv'
<1> USE DEF SecretInv
<1>1. KeepsIssued
  BY DEF KeepsIssued
<1>2. \A k \in Jobs : JobInv(k)'
  BY <1>1, SameJobInv
<1>3. ASSUME NEW x \in Handles PROVE HandleInv(x)'
  <2>0. HandleInv(x)
    OBVIOUS
  <2>1. CASE ClaimsNothing
    BY <2>0, <2>1 DEF ClaimsNothing, HandleInv
  <2>2. CASE Claims(j)
    <3>1. PICK h \in Handles : /\ file[h] \in Linked
                               /\ file' = [file EXCEPT ![h] = "gone"]
                               /\ got' = [got EXCEPT ![j] = @ \cup {h}]
      BY <2>2 DEF Claims
    <3>2. HandleInv(h)
      OBVIOUS
    <3>3. CASE x # h
      <4>1. file'[x] = file[x] /\ \A k \in Jobs : x \in got'[k] <=> x \in got[k]
        BY <3>1, <3>3 DEF TypeOK
      <4> QED
        BY <2>0, <4>1 DEF HandleInv
    <3>4. CASE x = h
      <4>1. file'[x] = "gone" /\ \A k \in Jobs : x \in got'[k] <=> k = j
        BY <3>1, <3>2, <3>4 DEF TypeOK, HandleInv, Linked
      <4>2. create[x] \notin {"idle", "prune"} /\ x \notin pruned
        BY <3>1, <3>2, <3>4 DEF HandleInv, Linked
      <4> QED
        BY <4>1, <4>2 DEF HandleInv
    <3> QED
      BY <3>3, <3>4
  <2> QED
    BY <2>1, <2>2
<1> QED
  BY <1>2, <1>3

\* A failed or ended job has nothing open and keeps what it has consumed.
LEMMA FailInv ==
  ASSUME SecretInv, NEW j \in Jobs, pc[j] # "idle", pc[j] # "rejected", Fail(j),
         UNCHANGED <<clock, fileVars, createVars, want, pos, got, stdin>>
  PROVE  SecretInv'
<1> USE DEF SecretInv
<1>1. TypeOK'
  BY DEF TypeOK, Fail, Closed, fileVars, createVars, Over
<1>2. pc'[j] = "failed" /\ fds'[j] = {}
  BY DEF TypeOK, Fail, Closed
<1>3. JobInv(j)
  OBVIOUS
<1>4. JobInv(j)'
  <2>1. WantShape(j)'
    BY <1>2, <1>3 DEF JobInv, WantShape, createVars
  <2>2. GotShape(j)'
    BY <1>2 DEF GotShape
  <2>3. FdShape(j)'
    BY <1>2 DEF FdShape
  <2> QED
    BY <2>1, <2>2, <2>3 DEF JobInv
<1>5. \A k \in Jobs \ {j} : SameJob(k)
  BY DEF TypeOK, Fail, Closed, SameJob
<1> QED
  BY <1>1, <1>4, <1>5, JobStep DEF ClaimsNothing, fileVars, createVars

\* A request is taken or rejected as a whole.
LEMMA RequestInv ==
  ASSUME SecretInv, NEW j \in Jobs, NEW w \in Inputs, Request(j, w)
  PROVE  SecretInv'
<1> USE DEF SecretInv
<1>1. w \in Seq(Handles) /\ Len(w) \in {1, 2}
  BY InputFacts
<1>2. TypeOK'
  BY <1>1 DEF TypeOK, Request, fileVars, createVars, Over
<1>3. /\ want'[j] = w /\ pc'[j] = (IF ValidInputs(w) THEN "register" ELSE "rejected")
      /\ UNCHANGED <<create, pos, got, fds>>
  BY DEF TypeOK, Request, createVars
<1>4. pos[j] = 1 /\ got[j] = {} /\ fds[j] = {}
  BY DEF Request, JobInv, GotShape, FdShape
<1>5. WantShape(j)'
  BY <1>1, <1>3, <1>4 DEF Request, WantShape
<1>6. GotShape(j)' /\ FdShape(j)'
  BY <1>3, <1>4 DEF GotShape, FdShape
<1>7. \A k \in Jobs \ {j} : SameJob(k)
  BY DEF TypeOK, Request, SameJob
<1> QED
  BY <1>2, <1>5, <1>6, <1>7, JobStep DEF Request, JobInv, ClaimsNothing, fileVars, createVars

\* The registration comes before any claim.
LEMMA RegisterInv ==
  ASSUME SecretInv, NEW j \in Jobs, Register(j)
  PROVE  SecretInv'
<1> USE DEF SecretInv
<1>1. TypeOK'
  <2>1. (IF Len(want[j]) = 2 THEN {Memfd} ELSE {}) \in SUBSET (Handles \cup {Memfd})
    OBVIOUS
  <2>2. fds' \in [Jobs -> SUBSET (Handles \cup {Memfd})]
    BY <2>1 DEF TypeOK, Register
  <2> QED
    BY <2>2 DEF TypeOK, Register, fileVars, createVars, Over
<1>2. pc'[j] \in {"open", "refused"} /\ (pc'[j] = "refused" => fds'[j] = fds[j])
  BY DEF TypeOK, Register
<1>3. UNCHANGED <<create, want, pos, got, stdin>> /\ pc[j] = "register"
  BY DEF Register, createVars
<1>4. JobInv(j)
  OBVIOUS
<1>5. WantShape(j)'
  BY <1>2, <1>3, <1>4 DEF JobInv, WantShape
<1>6. GotShape(j)'
  BY <1>2, <1>3, <1>4 DEF JobInv, GotShape, Earlier
<1>7. FdShape(j)'
  BY <1>2, <1>3, <1>4 DEF JobInv, FdShape, Over
<1>8. \A k \in Jobs \ {j} : SameJob(k)
  BY DEF TypeOK, Register, SameJob
<1> QED
  BY <1>1, <1>5, <1>6, <1>7, <1>8, JobStep DEF Register, JobInv, ClaimsNothing, fileVars, createVars

\* The checks of a claim only move the job on; what fails closes everything.
LEMMA CheckInv ==
  ASSUME SecretInv, NEW j \in Jobs, Open(j) \/ Fstat(j) \/ Lstat(j)
  PROVE  SecretInv'
<1> USE DEF SecretInv
<1>0. UNCHANGED <<clock, fileVars, createVars, want, pos, got, stdin>>
  BY DEF Open, Fstat, Lstat, claimFrame, fileVars
<1>1. JobInv(j) /\ pc[j] \in {"open", "fstat", "lstat"}
  BY DEF Open, Fstat, Lstat
<1>2. CASE Fail(j)
  BY <1>0, <1>1, <1>2, FailInv
<1>3. CASE ~Fail(j)
  <2>1. Current(j) \in Handles
    BY <1>1, CurrentFacts DEF JobInv
  <2>2. PICK l \in {"fstat", "lstat", "unlink"} : pc' = [pc EXCEPT ![j] = l]
    BY <1>3 DEF Open, Fstat, Lstat
  <2>3. fds' = fds \/ fds' = [fds EXCEPT ![j] = @ \cup {Current(j)}]
    BY <1>3 DEF Open, Fstat, Lstat
  <2>4. fds' \in [Jobs -> SUBSET (Handles \cup {Memfd})]
    <3>1. fds[j] \cup {Current(j)} \in SUBSET (Handles \cup {Memfd})
      BY <2>1 DEF TypeOK
    <3> QED
      BY <2>3, <3>1 DEF TypeOK
  <2>5. TypeOK'
    BY <1>0, <2>2, <2>4 DEF TypeOK, fileVars, createVars
  <2>6. pc'[j] = l
    BY <2>2 DEF TypeOK
  <2>7. WantShape(j)'
    BY <1>0, <1>1, <2>6 DEF JobInv, WantShape, createVars
  <2>8. GotShape(j)'
    BY <1>0, <1>1, <2>6 DEF JobInv, GotShape, Earlier
  <2>9. FdShape(j)'
    BY <2>6 DEF FdShape, Over
  <2>10. \A k \in Jobs \ {j} : SameJob(k)
    BY <1>0, <2>2, <2>3 DEF TypeOK, SameJob
  <2> QED
    BY <1>0, <2>5, <2>7, <2>8, <2>9, <2>10, JobStep DEF JobInv, ClaimsNothing, fileVars, createVars
<1> QED
  BY <1>2, <1>3

\* The unlink that succeeds claims the handle; only one can.
LEMMA UnlinkInv ==
  ASSUME SecretInv, NEW j \in Jobs, Unlink(j)
  PROVE  SecretInv'
<1> USE DEF SecretInv
<1>0. UNCHANGED <<clock, mtime, pruned, createVars, want, pos, stdin>>
  BY DEF Unlink, claimFrame
<1>1. JobInv(j) /\ pc[j] = "unlink"
  BY DEF Unlink
<1>2. CASE ~WinsUnlink(j)
  BY <1>0, <1>1, <1>2, FailInv DEF Unlink, fileVars
<1>3. CASE WinsUnlink(j)
  <2>1. /\ Current(j) \in Handles
        /\ Current(j) = IF pos[j] = 2 THEN want[j][2] ELSE want[j][1]
    BY <1>1, CurrentFacts DEF JobInv
  <2>2. /\ file' = [file EXCEPT ![Current(j)] = "gone"]
        /\ got' = [got EXCEPT ![j] = @ \cup {Current(j)}]
        /\ pc' = [pc EXCEPT ![j] = IF Len(want[j]) = 2 THEN "read" ELSE "spawn"]
        /\ fds' = fds
    BY <1>3 DEF Unlink
  <2>3. Claims(j)
    BY <1>3, <2>1, <2>2 DEF Claims, WinsUnlink
  <2>4. got' \in [Jobs -> SUBSET Handles]
    BY <2>1, <2>2 DEF TypeOK
  <2>5. TypeOK'
    BY <1>0, <2>1, <2>2, <2>4 DEF TypeOK, createVars
  <2>6. /\ pc'[j] = IF Len(want[j]) = 2 THEN "read" ELSE "spawn"
        /\ got'[j] = got[j] \cup {Current(j)}
    BY <2>2 DEF TypeOK
  <2>7. WantShape(j)'
    BY <1>0, <1>1, <2>6 DEF JobInv, WantShape, createVars
  <2>8. GotShape(j)'
    <3>1. got[j] = Earlier(j) /\ Len(want[j]) \in {1, 2} /\ (pos[j] = 2 => Len(want[j]) = 2)
      BY <1>1 DEF JobInv, GotShape, WantShape
    <3>2. CASE Len(want[j]) = 2
      <4>1. pc'[j] = "read" /\ Earlier(j)' = Earlier(j) /\ Current(j)' = Current(j)
        BY <1>0, <2>6, <3>2 DEF Earlier, Current
      <4> QED
        BY <1>0, <2>6, <3>1, <3>2, <4>1 DEF GotShape
    <3>3. CASE Len(want[j]) # 2
      <4>1. pc'[j] = "spawn" /\ Asked(j)' = {want[j][1]}
        BY <1>0, <2>6, <3>3 DEF Asked
      <4>2. got'[j] = {want[j][1]}
        BY <2>1, <2>6, <3>1, <3>3 DEF Earlier
      <4> QED
        BY <1>0, <3>3, <4>1, <4>2 DEF GotShape
    <3> QED
      BY <3>2, <3>3
  <2>9. FdShape(j)'
    BY <2>6 DEF FdShape, Over
  <2>10. \A k \in Jobs \ {j} : SameJob(k)
    BY <1>0, <2>2 DEF TypeOK, SameJob
  <2> QED
    BY <1>0, <2>3, <2>5, <2>7, <2>8, <2>9, <2>10, JobStep DEF JobInv, createVars
<1> QED
  BY <1>2, <1>3

\* The steps that put a pair together: the first handle leads to the second, the
\* second to the envelope, and only one that fits to the command.
LEMMA PairInv ==
  ASSUME SecretInv, NEW j \in Jobs, Read(j) \/ Assemble(j)
  PROVE  SecretInv'
<1> USE DEF SecretInv
<1>0. UNCHANGED <<clock, fileVars, createVars, want, got, stdin>>
  BY DEF Read, Assemble, claimFrame, fileVars
<1>1. JobInv(j) /\ pc[j] \in {"read", "assemble"}
  BY DEF Read, Assemble
<1>2. CASE Fail(j) /\ UNCHANGED pos
  BY <1>0, <1>1, <1>2, FailInv
<1>3. CASE Read(j) /\ ~(Fail(j) /\ UNCHANGED pos)
  <2>1. /\ pc' = [pc EXCEPT ![j] = ReadNext(j)]
        /\ fds' = [fds EXCEPT ![j] = @ \ {Current(j)}]
        /\ pos' = [pos EXCEPT ![j] = Advance(j)]
    BY <1>3 DEF Read
  <2>2. pos[j] \in 1..2
    BY DEF TypeOK
  <2>3. TypeOK'
    <3>1. fds' \in [Jobs -> SUBSET (Handles \cup {Memfd})]
      BY <2>1 DEF TypeOK
    <3>2. pos' \in [Jobs -> 1..2]
      BY <2>1, <2>2 DEF TypeOK, Advance
    <3> QED
      BY <1>0, <2>1, <3>1, <3>2 DEF TypeOK, ReadNext, fileVars, createVars
  <2>4. /\ pos'[j] = 2
        /\ pc'[j] = IF pos[j] = 1 THEN "open" ELSE "assemble"
    BY <2>1, <2>2 DEF TypeOK, ReadNext, Advance
  <2>5. /\ Len(want[j]) = 2 /\ got[j] = Earlier(j) \cup {Current(j)}
        /\ Current(j) = IF pos[j] = 2 THEN want[j][2] ELSE want[j][1]
    BY <1>1, <1>3, CurrentFacts DEF JobInv, GotShape, Read
  <2>6. WantShape(j)'
    BY <1>0, <1>1, <2>4, <2>5 DEF JobInv, WantShape, createVars
  <2>7. GotShape(j)'
    BY <1>0, <2>2, <2>4, <2>5 DEF GotShape, Earlier, Asked
  <2>8. FdShape(j)'
    BY <2>4 DEF FdShape, Over
  <2>9. \A k \in Jobs \ {j} : SameJob(k)
    BY <1>0, <2>1 DEF TypeOK, SameJob
  <2> QED
    BY <1>0, <2>3, <2>6, <2>7, <2>8, <2>9, JobStep DEF JobInv, ClaimsNothing, fileVars, createVars
<1>4. CASE Assemble(j) /\ ~(Fail(j) /\ UNCHANGED pos)
  <2>1. /\ Fits(PairBytes(j)) /\ pc' = [pc EXCEPT ![j] = "spawn"]
        /\ UNCHANGED <<fds, pos>>
    BY <1>4 DEF Assemble
  <2>2. TypeOK'
    BY <1>0, <2>1 DEF TypeOK, fileVars, createVars
  <2>3. pc'[j] = "spawn"
    BY <2>1 DEF TypeOK
  <2>4. WantShape(j)'
    BY <1>0, <1>1, <2>1, <2>3 DEF JobInv, WantShape, createVars
  <2>5. PairBytes(j)' = PairBytes(j)
    BY <1>0 DEF PairBytes
  <2>6. GotShape(j)'
    BY <1>0, <1>1, <1>4, <2>1, <2>3, <2>5 DEF JobInv, GotShape, Assemble, Asked, Fits
  <2>7. FdShape(j)'
    BY <2>3 DEF FdShape, Over
  <2>8. \A k \in Jobs \ {j} : SameJob(k)
    BY <1>0, <2>1 DEF TypeOK, SameJob
  <2> QED
    BY <1>0, <2>2, <2>4, <2>6, <2>7, <2>8, JobStep DEF JobInv, ClaimsNothing, fileVars, createVars
<1> QED
  BY <1>2, <1>3, <1>4

\* The command starts with what was claimed, or not at all.
LEMMA SpawnInv ==
  ASSUME SecretInv, NEW j \in Jobs, Spawn(j)
  PROVE  SecretInv'
<1> USE DEF SecretInv
<1>0. UNCHANGED <<clock, fileVars, createVars, want, pos, got>> /\ fds' = Closed(j)
  BY DEF Spawn
<1>1. JobInv(j) /\ pc[j] = "spawn"
  BY DEF Spawn
<1>2. CASE pc' = [pc EXCEPT ![j] = "failed"] /\ UNCHANGED stdin
  BY <1>0, <1>1, <1>2, FailInv DEF Fail
<1>3. CASE pc' = [pc EXCEPT ![j] = "started"] /\ stdin' = [stdin EXCEPT ![j] = got[j]]
  <2>1. TypeOK'
    BY <1>0, <1>3 DEF TypeOK, Closed, fileVars, createVars, Over
  <2>2. pc'[j] = "started" /\ stdin'[j] = got[j] /\ fds'[j] = {}
    BY <1>0, <1>3 DEF TypeOK, Closed
  <2>3. WantShape(j)'
    BY <1>0, <1>1, <2>2 DEF JobInv, WantShape, createVars
  <2>4. PairBytes(j)' = PairBytes(j) /\ Asked(j)' = Asked(j)
    BY <1>0 DEF PairBytes, Asked
  <2>5. GotShape(j)'
    BY <1>0, <1>1, <2>2, <2>4 DEF JobInv, GotShape
  <2>6. FdShape(j)'
    BY <2>2 DEF FdShape
  <2>7. \A k \in Jobs \ {j} : SameJob(k)
    BY <1>0, <1>3 DEF TypeOK, SameJob, Closed
  <2> QED
    BY <1>0, <2>1, <2>3, <2>5, <2>6, <2>7, JobStep DEF JobInv, ClaimsNothing, fileVars, createVars
<1> QED
  BY <1>2, <1>3 DEF Spawn

\* The initial state satisfies the invariant.
LEMMA InitInv == Init => SecretInv
<1> SUFFICES ASSUME Init PROVE SecretInv
  OBVIOUS
<1>1. TypeOK
  BY SecretAssumption DEF Init, TypeOK
<1>2. ASSUME NEW j \in Jobs PROVE JobInv(j)
  BY DEF Init, JobInv, WantShape, GotShape, FdShape
<1>3. ASSUME NEW h \in Handles PROVE HandleInv(h)
  BY DEF Init, HandleInv
<1> QED
  BY <1>1, <1>2, <1>3 DEF SecretInv

\* Every step preserves it.
LEMMA NextInv ==
  ASSUME SecretInv, [Next]_vars
  PROVE  SecretInv'
<1>1. ASSUME UNCHANGED <<fileVars, createVars, jobVars>>, clock' \in 0..MaxClock
      PROVE  SecretInv'
  <2>1. TypeOK'
    BY <1>1 DEF SecretInv, TypeOK, fileVars, createVars, jobVars
  <2>2. \A j \in Jobs : JobInv(j)'
    BY <1>1, SameJobInv DEF SecretInv, SameJob, KeepsIssued, createVars, jobVars
  <2>3. \A h \in Handles : HandleInv(h)'
    BY <1>1 DEF SecretInv, HandleInv, fileVars, createVars, jobVars
  <2> QED
    BY <2>1, <2>2, <2>3 DEF SecretInv
<1>2. CASE Tick
  BY <1>1, <1>2, SecretAssumption DEF Tick, SecretInv, TypeOK
<1>3. CASE UNCHANGED vars
  BY <1>1, <1>3 DEF vars, SecretInv, TypeOK
<1>4. ASSUME NEW j \in Jobs, ServerDies(j) PROVE SecretInv'
  BY <1>4, FailInv DEF ServerDies, Over, claimFrame, fileVars
<1> QED
  BY <1>2, <1>3, <1>4, CreateInv, RequestInv, RegisterInv, CheckInv, UnlinkInv, PairInv, SpawnInv
  DEF Next

\* What a job has claimed and holds open follows from where its task is, and a
\* handle has at most one taker, however the system calls of claimers, creators and
\* pruning interleave (secret_input.py:46-251).
THEOREM SecretInvariant == Spec => []SecretInv
<1>1. SecretInv /\ [Next]_vars => SecretInv'
  BY NextInv
<1> QED
  BY <1>1, InitInv, PTL DEF Spec

-----------------------------------------------------------------------------
(* What follows from it                                                    *)

\* Every file, claim, descriptor and task of the staged inputs stays within its
\* states (secret_input.py).
THEOREM TypeCorrect == Spec => []TypeOK
<1>1. SecretInv => TypeOK
  BY DEF SecretInv
<1> QED
  BY <1>1, SecretInvariant, PTL

\* A handle is consumed once, by one job or by a pruning creator, however their
\* system calls interleave (secret_input.py:224-251).
THEOREM Once == Spec => []ConsumedOnce
<1>1. SecretInv => ConsumedOnce
  BY DEF SecretInv, HandleInv, ConsumedOnce, Linked
<1> QED
  BY <1>1, SecretInvariant, PTL

\* The handles a started command reads are exactly those it asked for.
LEMMA WholeInput ==
  ASSUME SecretInv, NEW j \in Jobs, pc[j] = "started"
  PROVE  /\ stdin[j] = {want[j][i] : i \in 1..Len(want[j])}
         /\ \A h \in stdin[j] : create[h] = "issued"
         /\ Len(want[j]) = 2 => Cardinality(stdin[j]) = 2 /\ PairBytes(j) <= MaxBytes
<1>1. JobInv(j)
  BY DEF SecretInv
<1>2. stdin[j] = Asked(j) /\ Len(want[j]) \in {1, 2} /\ ValidInputs(want[j])
  BY <1>1 DEF JobInv, GotShape, WantShape
<1>3. \A i \in 1..Len(want[j]) : create[want[j][i]] = "issued"
  BY <1>1 DEF JobInv, WantShape
<1>4. Asked(j) = {want[j][i] : i \in 1..Len(want[j])}
  <2>1. CASE Len(want[j]) = 1
    BY <2>1 DEF Asked
  <2>2. CASE Len(want[j]) = 2
    BY <2>2 DEF Asked
  <2> QED
    BY <1>2, <2>1, <2>2
<1>5. ASSUME Len(want[j]) = 2 PROVE Cardinality(stdin[j]) = 2
  <2>1. stdin[j] = {want[j][1], want[j][2]} /\ want[j][1] # want[j][2]
    BY <1>2, <1>5 DEF Asked, ValidInputs
  <2>2. Cardinality({want[j][1], want[j][2]}) = 2
    BY <2>1, PairCardinality, Zenon
  <2> QED
    BY <2>1, <2>2
<1>6. Len(want[j]) = 2 => PairBytes(j) <= MaxBytes
  BY <1>1 DEF JobInv, GotShape
<1> QED
  BY <1>2, <1>3, <1>4, <1>5, <1>6

\* No command starts with an incomplete, repeated, unfinished or too large input
\* (README.md:184).
THEOREM Whole == Spec => []WholeInputOnly
<1>1. SecretInv => WholeInputOnly
  BY WholeInput DEF WholeInputOnly
<1> QED
  BY <1>1, SecretInvariant, PTL

\* A rejected or unregistered job has consumed nothing (README.md:180-181).
THEOREM Refused == Spec => []RefusedConsumesNothing
<1>1. ASSUME SecretInv PROVE RefusedConsumesNothing
  <2>1. ASSUME NEW j \in Jobs, pc[j] \in {"rejected", "refused"} PROVE got[j] = {}
    BY <1>1, <2>1 DEF SecretInv, JobInv, GotShape
  <2>2. ASSUME NEW j \in Jobs, Len(want[j]) = 2, want[j][1] = want[j][2] PROVE got[j] = {}
    <3>1. pc[j] \in {"idle", "rejected"}
      BY <1>1, <2>2 DEF SecretInv, JobInv, WantShape, ValidInputs
    <3> QED
      BY <1>1, <3>1 DEF SecretInv, JobInv, GotShape
  <2> QED
    BY <2>1, <2>2 DEF RefusedConsumesNothing
<1>2. SecretInv => RefusedConsumesNothing
  BY <1>1
<1> QED
  BY <1>2, SecretInvariant, PTL

\* However a job ends, no descriptor of a secret is left open.
THEOREM NothingOpen == Spec => []NoDescriptorLeft
<1>1. SecretInv => NoDescriptorLeft
  BY DEF SecretInv, JobInv, FdShape, NoDescriptorLeft
<1> QED
  BY <1>1, SecretInvariant, PTL
=============================================================================
