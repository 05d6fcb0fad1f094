----------------------- MODULE EmbeddingRuntimeProofs -----------------------
(***************************************************************************)
(* Proofs about EmbeddingRuntime: who may hold the lock, what a job's       *)
(* status says, and that the runtime implements ActiveStore.               *)
(***************************************************************************)
EXTENDS EmbeddingRuntime, TLAPS

OpPoints == {"entered", "in", "checked", "embedded"}
ConfPoints == {"locked", "queued", "spawn", "close", "abort"}
LookPoints == {"locked", "repaired"}

\* Who holds the lock, told from where each actor stands.
LockInv ==
    /\ \A p \in Proc : p \in shared <=> op[p].pc \in OpPoints
    /\ \A p \in Proc : p \in excl <=> op[p].pc \in ConfPoints
    /\ \A v \in Viewer : v \in excl <=> look[v] \in LookPoints
    /\ Worker \in excl <=> mig.pc # "off"
    /\ shared # {} => excl = {}
    /\ \A x, y \in excl \ {Worker} : x = y
    /\ Worker \in excl => \A x \in excl \ {Worker} : x \in Proc /\ op[x].pc = "close"

\* What job.json may say of a manifest.
True(active, job) ==
    /\ job.status = "completed" => active.gen = job.id
    /\ job.status = "failed" => active.gen # job.id

\* Where the migration stands, on disk too: whatever a power loss leaves of
\* the two files agrees, and both manifests lead to stores of equal content.
JobInv ==
    /\ \A active \in {fs.active, disk.active}, job \in {fs.job, disk.job} : True(active, job)
    /\ fs.active.gen <= jobs /\ disk.active.gen <= jobs
    /\ \A p \in Proc : op[p].pc = "locked" => jobs < MaxJobs
    /\ fs.active # disk.active => mig.pc = "syncActive"
    /\ \A p \in Proc : op[p].pc \in {"queued", "spawn"} =>
          fs.active.gen < jobs /\ fs.job = [id |-> jobs, status |-> "pending"]
    /\ \A p \in Proc : op[p].pc \in ConfPoints \ {"close"} => op[p].conf = fs.active
    /\ \A p \in Proc : op[p].pc = "spawn" => disk.job = fs.job
    /\ mig.pc \in {"select", "build", "checked", "batch", "publish", "syncActive", "complete", "handler"} =>
          fs.job = [id |-> mig.id, status |-> "pending"] /\ disk.job = fs.job
    /\ mig.pc \in {"select", "build", "checked", "batch", "publish"} => fs.active.gen = mig.source
    /\ mig.pc \in {"syncActive", "complete"} => fs.active.gen = mig.id
    /\ mig.pc = "syncActive" => disk.active.gen \in {mig.source, mig.id}
    /\ mig.pc \in {"publish", "syncActive"} => Held(mig.id) = Held(mig.source)
    /\ mig.pc # "off" => fs.job.id = mig.id /\ mig.id = jobs
    /\ mig.pc \in {"select", "build", "checked", "batch", "publish"} => mig.source < mig.id

Inv == TypeOK /\ LockInv /\ JobInv /\ OneGeneration

\* The parts of well-typed state that the steps read.
LEMMA Parts ==
    ASSUME TypeOK
    PROVE  /\ fs.active \in Manifest /\ fs.job \in Job /\ disk.active \in Manifest /\ disk.job \in Job
           /\ fs.active.gen \in Gen /\ fs.active.digest \in Digest /\ fs.job.id \in Gen
           /\ fs = [active |-> fs.active, job |-> fs.job]
           /\ \A p \in Proc : op[p].conf \in Manifest /\ op[p].conf.gen \in Gen
                              /\ op[p].conf.digest \in Digest
           /\ Out \in Call /\ Off \in Worked
           /\ jobs \in Nat /\ jobs <= MaxJobs /\ serving \in Digest
           /\ 0 \in Digest
<1> USE BoundsAssumption DEF TypeOK
<1>1. fs.active \in Manifest /\ fs.job \in Job /\ disk.active \in Manifest /\ disk.job \in Job
  BY DEF Files
<1>2. fs.active.gen \in Gen /\ fs.active.digest \in Digest /\ fs.job.id \in Gen
  BY <1>1 DEF Manifest, Job
<1>3. \A p \in Proc : op[p].conf \in Manifest
  BY DEF Call
<1>4. \A p \in Proc : op[p].conf.gen \in Gen /\ op[p].conf.digest \in Digest
  BY <1>3 DEF Manifest
<1>5. Out \in Call /\ Off \in Worked
  BY DEF Out, Off, Call, Worked, Manifest, Gen, Digest, Tag
<1>6. fs = [active |-> fs.active, job |-> fs.job]
  BY DEF Files
<1> QED
  BY <1>1, <1>2, <1>3, <1>4, <1>5, <1>6 DEF Gen, Digest

\* A write to one chunk of one generation keeps the type of the stores.
LEMMA StoreWritten ==
    ASSUME TypeOK, NEW g \in Gen, NEW c \in Chunk, NEW d \in Digest
    PROVE  [store EXCEPT ![g][c] = d] \in [Gen -> [Chunk -> Digest \cup {Absent}]]
<1>1. store[g] \in [Chunk -> Digest \cup {Absent}]
  BY DEF TypeOK
<1>2. [store[g] EXCEPT ![c] = d] \in [Chunk -> Digest \cup {Absent}]
  BY <1>1
<1> QED
  BY <1>2 DEF TypeOK

\* A move of the tag changes nothing of a call but what it has seen of the tag.
LEMMA RetagKeeps ==
    ASSUME TypeOK, Retag
    PROVE  /\ UNCHANGED <<fs, disk, shared, excl, look, store, stray, jobs>>
           /\ \A p \in Proc : op'[p].pc = op[p].pc /\ op'[p].conf = op[p].conf
                              /\ op'[p].vec = op[p].vec
           /\ mig'.pc = mig.pc /\ mig'.id = mig.id /\ mig'.source = mig.source
           /\ mig'.sel = mig.sel /\ mig'.vec = mig.vec
  BY DEF Retag, RetagTo, TypeOK, Call, Worked

\* Every step keeps the types.
LEMMA TypeStep == Inv /\ [Next]_vars => TypeOK'
<1> SUFFICES ASSUME Inv, [Next]_vars PROVE TypeOK'
  OBVIOUS
<1> USE BoundsAssumption, ActorsAssumption, Parts DEF TypeOK, Inv
<1>1. ASSUME NEW p \in Proc, Operation(p) PROVE TypeOK'
  <2>1. CASE Enter(p)
    <3>1. [op[p] EXCEPT !.pc = "entered"] \in Call
      BY DEF Call
    <3> QED
      BY <2>1, <3>1 DEF Enter
  <2>2. CASE Refresh(p)
    <3>1. [op[p] EXCEPT !.pc = "in", !.conf = fs.active] \in Call
      BY DEF Call
    <3> QED
      BY <2>2, <3>1 DEF Refresh
  <2>3. CASE Embed(p)
    <3>1. Computed(op[p].conf.digest) \in Digest
      BY DEF Computed
    <3>2. [op[p] EXCEPT !.pc = "embedded", !.vec = Computed(op[p].conf.digest)] \in Call
      BY <3>1 DEF Call
    <3> QED
      BY <2>3, <3>2 DEF Embed
  <2>4. ASSUME NEW c \in Chunk, Store(p, c) PROVE TypeOK'
    <3>1. [op[p] EXCEPT !.pc = "in", !.vec = 0, !.tag = "none"] \in Call /\ op[p].vec \in Digest
      BY DEF Call, Tag
    <3>3. Strays(op[p].conf.gen, c, op[p].tag) \subseteq Gen \X Chunk
      BY DEF Strays
    <3>2. [store EXCEPT ![op[p].conf.gen][c] = op[p].vec] \in [Gen -> [Chunk -> Digest \cup {Absent}]]
      BY <3>1, StoreWritten
    <3> QED
      BY <2>4, <3>1, <3>2, <3>3 DEF Store
  <2>5. CASE Leave(p)
    BY <2>5 DEF Leave
  <2>6. CASE Check(p)
    <3>1. [op[p] EXCEPT !.pc = "checked", !.tag = "still"] \in Call
      BY DEF Call, Tag
    <3> QED
      BY <2>6, <3>1 DEF Check
  <2> QED
    BY <1>1, <2>1, <2>2, <2>3, <2>4, <2>5, <2>6 DEF Operation
<1>2. ASSUME NEW p \in Proc, Configuring(p) \/ LockForJob(p) \/ KillProc(p) PROVE TypeOK'
  <2>1. CASE QueueJob(p)
    <3>1. jobs + 1 \in Gen
      BY <2>1 DEF QueueJob, JobInv, Gen
    <3>2. [id |-> jobs + 1, status |-> "pending"] \in Job
      BY <3>1 DEF Job
    <3>3. [fs EXCEPT !.job = [id |-> jobs + 1, status |-> "pending"]] \in Files
      BY <3>2 DEF Files
    <3>4. [op[p] EXCEPT !.pc = "queued"] \in Call
      BY DEF Call
    <3> QED
      BY <2>1, <3>1, <3>3, <3>4 DEF QueueJob
  <2>2. CASE SyncJob(p)
    <3>1. [op[p] EXCEPT !.pc = "spawn"] \in Call
      BY DEF Call
    <3> QED
      BY <2>2, <3>1 DEF SyncJob
  <2>3. CASE Spawn(p)
    <3>1. [op[p] EXCEPT !.pc = "close"] \in Call
      BY DEF Call
    <3>2. [Off EXCEPT !.pc = "select", !.id = jobs, !.source = op[p].conf.gen] \in Worked
      BY DEF Worked, Off, Digest
    <3> QED
      BY <2>3, <3>1, <3>2 DEF Spawn
  <2>4. CASE ConfigureFails(p)
    <3>1. jobs' \in Gen
      BY <2>4 DEF ConfigureFails, JobInv, Gen
    <3>2. [id |-> jobs', status |-> "failed"] \in Job
      BY <3>1 DEF Job
    <3>3. [fs EXCEPT !.job = [id |-> jobs', status |-> "failed"]] \in Files
      BY <3>2 DEF Files
    <3>4. [op[p] EXCEPT !.pc = "abort"] \in Call
      BY DEF Call
    <3> QED
      BY <2>4, <3>1, <3>3, <3>4 DEF ConfigureFails
  <2>5. CASE CloseConfigure(p)
    BY <2>5 DEF CloseConfigure
  <2>6. CASE LockForJob(p)
    <3>1. [op[p] EXCEPT !.pc = "locked", !.conf = fs.active] \in Call
      BY DEF Call
    <3> QED
      BY <2>6, <3>1 DEF LockForJob
  <2>7. CASE KillProc(p)
    BY <2>7 DEF KillProc
  <2> QED
    BY <1>2, <2>1, <2>2, <2>3, <2>4, <2>5, <2>6, <2>7 DEF Configuring
<1>3. ASSUME Migration \/ KillWorker PROVE TypeOK'
  <2>1. CASE Select
    <3>1. [mig EXCEPT !.pc = "build", !.sel = serving] \in Worked
      BY DEF Worked
    <3> QED
      BY <2>1, <3>1 DEF Select
  <2>2. CASE EmbedBatch
    <3>1. [mig EXCEPT !.pc = "batch", !.vec = serving] \in Worked
      BY DEF Worked
    <3> QED
      BY <2>2, <3>1 DEF EmbedBatch
  <2>3. ASSUME NEW c \in Chunk, WriteBatch(c) PROVE TypeOK'
    <3>0. [mig EXCEPT !.pc = "build", !.vec = 0, !.tag = "none"] \in Worked
      BY DEF Worked, Tag
    <3>1. [mig EXCEPT !.pc = "build", !.vec = 0, !.tag = "none"] \in Worked /\ mig.vec \in Digest /\ mig.id \in Gen
      BY <3>0 DEF Worked
    <3>3. Strays(mig.id, c, mig.tag) \subseteq Gen \X Chunk
      BY <3>1 DEF Strays
    <3>2. [store EXCEPT ![mig.id][c] = mig.vec] \in [Gen -> [Chunk -> Digest \cup {Absent}]]
      BY <3>1, StoreWritten
    <3> QED
      BY <2>3, <3>1, <3>2, <3>3 DEF WriteBatch
  <2>8. CASE CheckBatch
    <3>1. [mig EXCEPT !.pc = "checked", !.tag = "still"] \in Worked
      BY DEF Worked, Tag
    <3> QED
      BY <2>8, <3>1 DEF CheckBatch
  <2>4. CASE Recheck \/ SyncActive \/ Throw
    <3>1. /\ \A s \in {"publish", "complete", "handler"} : [mig EXCEPT !.pc = s] \in Worked
          /\ [mig EXCEPT !.pc = "handler", !.vec = 0, !.tag = "none"] \in Worked
      BY DEF Worked, Tag
    <3> QED
      BY <2>4, <3>1 DEF Recheck, SyncActive, Throw
  <2>5. CASE Publish
    <3>1. [mig EXCEPT !.pc = "syncActive"] \in Worked
      BY DEF Worked
    <3>2. [gen |-> mig.id, digest |-> mig.sel] \in Manifest
      BY DEF Worked, Manifest
    <3>3. [fs EXCEPT !.active = [gen |-> mig.id, digest |-> mig.sel]] \in Files
      BY <3>2 DEF Files
    <3> QED
      BY <2>5, <3>1, <3>3 DEF Publish
  <2>6. CASE Complete \/ Handle
    <3>1. [mig EXCEPT !.pc = "syncJob"] \in Worked /\ mig.id \in Gen
      BY DEF Worked
    <3>2. \A s \in {"completed", "failed"} : [id |-> mig.id, status |-> s] \in Job
      BY <3>1 DEF Job
    <3>3. \A s \in {"completed", "failed"} : [fs EXCEPT !.job = [id |-> mig.id, status |-> s]] \in Files
      BY <3>2 DEF Files
    <3>4. Outcome(mig.id) \in {"completed", "failed"}
      BY DEF Outcome
    <3>5. fs' \in Files
      BY <2>6, <3>3, <3>4 DEF Complete, Handle
    <3> QED
      BY <2>6, <3>1, <3>5 DEF Complete, Handle
  <2>7. CASE Finish \/ KillWorker
    BY <2>7 DEF Finish, KillWorker
  <2> QED
    BY <1>3, <2>1, <2>2, <2>3, <2>4, <2>5, <2>6, <2>7, <2>8 DEF Migration
<1>4. ASSUME NEW v \in Viewer, LookRead(v) \/ Status(v) PROVE TypeOK'
  <2>1. CASE LookRead(v) \/ LookLock(v)
    BY <2>1 DEF LookRead, LookLock
  <2>2. CASE LookRepair(v)
    <3>1. Outcome(fs.job.id) \in {"completed", "failed"}
      BY DEF Outcome
    <3>2. \A s \in {"completed", "failed"} : [fs.job EXCEPT !.status = s] \in Job
      BY DEF Job
    <3>3. \A s \in {"completed", "failed"} : [fs EXCEPT !.job.status = s] \in Files
      BY <3>2 DEF Files
    <3>4. fs' \in Files
      BY <2>2, <3>1, <3>3 DEF LookRepair
    <3> QED
      BY <2>2, <3>4 DEF LookRepair
  <2>3. CASE LookDone(v)
    BY <2>3 DEF LookDone
  <2> QED
    BY <1>4, <2>1, <2>2, <2>3 DEF Status
<1>5. CASE Retag
  <2>1. PICK d \in (1 .. MaxDigest) \ {serving} : RetagTo(d)
    BY <1>5 DEF Retag
  <2>2. \A t \in Tag, x \in Digest : Moved(t, x, d) \in Tag
    BY DEF Moved, Tag
  <2>3. \A p \in Proc : [op[p] EXCEPT !.tag = Moved(@, op[p].conf.digest, d)] \in Call
    BY <2>2 DEF Call
  <2>4. [mig EXCEPT !.tag = Moved(@, mig.sel, d)] \in Worked
    BY <2>2 DEF Worked
  <2> QED
    BY <2>1, <2>3, <2>4 DEF RetagTo
<1>6. CASE PowerLoss
  <2>1. fs' \in Files
    BY <1>6 DEF PowerLoss, Files
  <2> QED
    BY <1>6, <2>1 DEF PowerLoss
<1>7. CASE UNCHANGED vars
  BY <1>7 DEF vars
<1> QED
  BY <1>1, <1>2, <1>3, <1>4, <1>5, <1>6, <1>7 DEF Next

\* Every step keeps the lock discipline: who holds which descriptor of the lock.
LEMMA LockStep == Inv /\ [Next]_vars => LockInv'
<1> SUFFICES ASSUME Inv, [Next]_vars PROVE LockInv'
  OBVIOUS
<1> USE ActorsAssumption DEF Inv, TypeOK, LockInv, OpPoints, ConfPoints, LookPoints, Call, Worked
<1>1. ASSUME NEW p \in Proc, Operation(p) PROVE LockInv'
  <2>1. CASE Enter(p)
    BY <2>1 DEF Enter
  <2>2. CASE Refresh(p)
    BY <2>2 DEF Refresh
  <2>3. CASE Embed(p)
    BY <2>3 DEF Embed
  <2>6. CASE Check(p)
    BY <2>6 DEF Check
  <2>4. ASSUME NEW c \in Chunk, Store(p, c) PROVE LockInv'
    BY <2>4 DEF Store
  <2>5. CASE Leave(p)
    BY <2>5 DEF Leave, Out
  <2> QED
    BY <1>1, <2>1, <2>2, <2>3, <2>4, <2>5, <2>6 DEF Operation
<1>2. ASSUME NEW p \in Proc, Configuring(p) \/ LockForJob(p) \/ KillProc(p) PROVE LockInv'
  <2>1. CASE QueueJob(p)
    BY <2>1 DEF QueueJob
  <2>2. CASE SyncJob(p)
    BY <2>2 DEF SyncJob
  <2>3. CASE Spawn(p)
    BY <2>3 DEF Spawn, Off
  <2>4. CASE ConfigureFails(p)
    BY <2>4 DEF ConfigureFails
  <2>5. CASE CloseConfigure(p)
    BY <2>5 DEF CloseConfigure, Out
  <2>6. CASE LockForJob(p)
    BY <2>6 DEF LockForJob
  <2>7. CASE KillProc(p)
    BY <2>7 DEF KillProc, Out
  <2> QED
    BY <1>2, <2>1, <2>2, <2>3, <2>4, <2>5, <2>6, <2>7 DEF Configuring
<1>3. ASSUME Migration \/ KillWorker PROVE LockInv'
  <2>1. CASE Select
    BY <2>1 DEF Select
  <2>2. CASE EmbedBatch
    BY <2>2 DEF EmbedBatch
  <2>9. CASE CheckBatch
    BY <2>9 DEF CheckBatch
  <2>3. ASSUME NEW c \in Chunk, WriteBatch(c) PROVE LockInv'
    BY <2>3 DEF WriteBatch
  <2>4. CASE Recheck
    BY <2>4 DEF Recheck
  <2>10. CASE SyncActive
    BY <2>10 DEF SyncActive
  <2>11. CASE Throw
    BY <2>11 DEF Throw
  <2>5. CASE Publish \/ Complete \/ Handle
    BY <2>5 DEF Publish, Complete, Handle
  <2>6. CASE Finish \/ KillWorker
    BY <2>6 DEF Finish, KillWorker, Off
  <2> QED
    BY <1>3, <2>1, <2>2, <2>3, <2>4, <2>5, <2>6, <2>9, <2>10, <2>11 DEF Migration
<1>4. ASSUME NEW v \in Viewer, LookRead(v) \/ Status(v) PROVE LockInv'
  <2>1. CASE LookRead(v) \/ LookLock(v)
    BY <2>1 DEF LookRead, LookLock
  <2>2. CASE LookRepair(v)
    BY <2>2 DEF LookRepair
  <2>3. CASE LookDone(v)
    BY <2>3 DEF LookDone
  <2> QED
    BY <1>4, <2>1, <2>2, <2>3 DEF Status
<1>5. CASE Retag
  BY <1>5, RetagKeeps
<1>6. CASE PowerLoss
  BY <1>6 DEF PowerLoss, Out, Off
<1>7. CASE UNCHANGED vars
  BY <1>7 DEF vars
<1> QED
  BY <1>1, <1>2, <1>3, <1>4, <1>5, <1>6, <1>7 DEF Next

\* Every step keeps every operation on the stores the manifest names.
LEMMA GenerationStep == Inv /\ [Next]_vars => OneGeneration'
<1> SUFFICES ASSUME Inv, [Next]_vars PROVE OneGeneration'
  OBVIOUS
<1> USE ActorsAssumption DEF Inv, TypeOK, LockInv, OneGeneration, OpPoints, ConfPoints, LookPoints, Call, Worked, Files
<1>1. ASSUME NEW p \in Proc, Operation(p) PROVE OneGeneration'
  <2>1. CASE Enter(p)
    BY <2>1 DEF Enter
  <2>2. CASE Refresh(p)
    BY <2>2 DEF Refresh
  <2>3. CASE Embed(p)
    BY <2>3 DEF Embed
  <2>6. CASE Check(p)
    BY <2>6 DEF Check
  <2>4. ASSUME NEW c \in Chunk, Store(p, c) PROVE OneGeneration'
    BY <2>4 DEF Store
  <2>5. CASE Leave(p)
    BY <2>5 DEF Leave, Out
  <2> QED
    BY <1>1, <2>1, <2>2, <2>3, <2>4, <2>5, <2>6 DEF Operation
<1>2. ASSUME NEW p \in Proc, Configuring(p) \/ LockForJob(p) \/ KillProc(p) PROVE OneGeneration'
  <2>1. CASE QueueJob(p)
    BY <2>1 DEF QueueJob
  <2>2. CASE SyncJob(p)
    BY <2>2 DEF SyncJob
  <2>3. CASE Spawn(p)
    BY <2>3 DEF Spawn, Off
  <2>4. CASE ConfigureFails(p)
    BY <2>4 DEF ConfigureFails
  <2>5. CASE CloseConfigure(p)
    BY <2>5 DEF CloseConfigure, Out
  <2>6. CASE LockForJob(p)
    BY <2>6 DEF LockForJob
  <2>7. CASE KillProc(p)
    BY <2>7 DEF KillProc, Out
  <2> QED
    BY <1>2, <2>1, <2>2, <2>3, <2>4, <2>5, <2>6, <2>7 DEF Configuring
<1>3. ASSUME Migration \/ KillWorker PROVE OneGeneration'
  <2>1. CASE Select
    BY <2>1 DEF Select
  <2>2. CASE EmbedBatch
    BY <2>2 DEF EmbedBatch
  <2>9. CASE CheckBatch
    BY <2>9 DEF CheckBatch
  <2>3. ASSUME NEW c \in Chunk, WriteBatch(c) PROVE OneGeneration'
    BY <2>3 DEF WriteBatch
  <2>4. CASE Recheck
    BY <2>4 DEF Recheck
  <2>10. CASE SyncActive
    BY <2>10 DEF SyncActive
  <2>11. CASE Throw
    BY <2>11 DEF Throw
  <2>5. CASE Publish \/ Complete \/ Handle
    BY <2>5 DEF Publish, Complete, Handle
  <2>6. CASE Finish \/ KillWorker
    BY <2>6 DEF Finish, KillWorker, Off
  <2> QED
    BY <1>3, <2>1, <2>2, <2>3, <2>4, <2>5, <2>6, <2>9, <2>10, <2>11 DEF Migration
<1>4. ASSUME NEW v \in Viewer, LookRead(v) \/ Status(v) PROVE OneGeneration'
  <2>1. CASE LookRead(v) \/ LookLock(v)
    BY <2>1 DEF LookRead, LookLock
  <2>2. CASE LookRepair(v)
    BY <2>2 DEF LookRepair
  <2>3. CASE LookDone(v)
    BY <2>3 DEF LookDone
  <2> QED
    BY <1>4, <2>1, <2>2, <2>3 DEF Status
<1>5. CASE Retag
  BY <1>5, RetagKeeps
<1>6. CASE PowerLoss
  BY <1>6 DEF PowerLoss, Out, Off
<1>7. CASE UNCHANGED vars
  BY <1>7 DEF vars
<1> QED
  BY <1>1, <1>2, <1>3, <1>4, <1>5, <1>6, <1>7 DEF Next

\* Whoever holds the lock exclusively excludes the others.
LEMMA Alone ==
    ASSUME Inv
    PROVE  /\ \A p \in Proc : op[p].pc \in ConfPoints \ {"close"} => mig.pc = "off"
           /\ \A p, q \in Proc : op[p].pc \in ConfPoints /\ p # q => op[q].pc \notin ConfPoints
           /\ \A v \in Viewer : look[v] \in LookPoints =>
                 mig.pc = "off" /\ \A p \in Proc : op[p].pc \notin ConfPoints
           /\ mig.pc # "off" => \A p \in Proc : op[p].pc \in ConfPoints => op[p].pc = "close"
           /\ mig.pc # "syncActive" => disk.active = fs.active
  BY ActorsAssumption DEF Inv, LockInv, JobInv, ConfPoints, LookPoints

\* Every step keeps the job record true.
LEMMA JobStep == Inv /\ [Next]_vars => JobInv'
<1> SUFFICES ASSUME Inv, [Next]_vars PROVE JobInv'
  OBVIOUS
<1> USE ActorsAssumption DEF Inv, TypeOK, LockInv, JobInv, True, OpPoints, ConfPoints, LookPoints, Call, Worked, Files, Manifest, Job, Held
<1>1. ASSUME NEW p \in Proc, Operation(p) PROVE JobInv'
  <2>1. CASE Enter(p)
    BY <2>1 DEF Enter
  <2>2. CASE Refresh(p)
    BY <2>2 DEF Refresh
  <2>3. CASE Embed(p)
    BY <2>3 DEF Embed
  <2>6. CASE Check(p)
    BY <2>6 DEF Check
  <2>4. ASSUME NEW c \in Chunk, Store(p, c) PROVE JobInv'
    BY <2>4 DEF Store
  <2>5. CASE Leave(p)
    BY <2>5 DEF Leave, Out
  <2> QED
    BY <1>1, <2>1, <2>2, <2>3, <2>4, <2>5, <2>6 DEF Operation
<1>2. ASSUME NEW p \in Proc, Configuring(p) \/ LockForJob(p) \/ KillProc(p) PROVE JobInv'
  <2>1. CASE QueueJob(p)
    <3>1. /\ mig.pc = "off" /\ mig'.pc = "off" /\ fs.active = disk.active
          /\ \A q \in Proc \ {p} : op[q].pc \notin ConfPoints /\ op'[q] = op[q]
      <4>1. op[p].pc \in ConfPoints \ {"close"} /\ mig' = mig
        BY <2>1 DEF QueueJob
      <4>2. \A q \in Proc \ {p} : op'[q] = op[q]
        BY <2>1 DEF QueueJob
      <4> HIDE DEF Inv, TypeOK, LockInv, JobInv, ConfPoints
      <4> QED
        BY <4>1, <4>2, Alone
    <3>2. /\ fs'.active = fs.active /\ fs'.job = [id |-> jobs', status |-> "pending"]
          /\ disk' = disk /\ op'[p].pc = "queued" /\ op'[p].conf = op[p].conf
      BY <2>1 DEF QueueJob
    <3>3. fs.active.gen < jobs' /\ fs.active.gen <= jobs'
      BY <2>1, Parts DEF QueueJob, Gen
    <3> QED
      BY <2>1, <3>1, <3>2, <3>3 DEF QueueJob
  <2>2. CASE SyncJob(p)
    BY <2>2 DEF SyncJob
  <2>3. CASE Spawn(p)
    BY <2>3 DEF Spawn, Off
  <2>4. CASE ConfigureFails(p)
    <3>1. /\ mig.pc = "off" /\ mig'.pc = "off" /\ fs.active = disk.active
          /\ \A q \in Proc \ {p} : op[q].pc \notin ConfPoints /\ op'[q] = op[q]
      <4>1. op[p].pc \in ConfPoints \ {"close"} /\ mig' = mig
        BY <2>4 DEF ConfigureFails
      <4>2. \A q \in Proc \ {p} : op'[q] = op[q]
        BY <2>4 DEF ConfigureFails
      <4> HIDE DEF Inv, TypeOK, LockInv, JobInv, ConfPoints
      <4> QED
        BY <4>1, <4>2, Alone
    <3>2. /\ fs'.active = fs.active /\ fs'.job = [id |-> jobs', status |-> "failed"]
          /\ disk' = disk /\ op'[p].pc = "abort" /\ op'[p].conf = op[p].conf
      BY <2>4 DEF ConfigureFails
    <3>3. fs.active.gen # jobs' /\ fs.active.gen <= jobs'
      BY <2>4, Parts DEF ConfigureFails, Gen
    <3>4. op[p].conf = fs.active /\ \A job \in {fs.job, disk.job} : True(fs.active, job)
      BY <2>4 DEF ConfigureFails
    <3> HIDE DEF TypeOK, LockInv, Call, Worked, Files, Manifest, Job, Held
    <3>5. fs'.active # disk'.active => FALSE
      BY <3>1, <3>2
    <3>6. \A active \in {fs'.active, disk'.active}, job \in {fs'.job, disk'.job} : True(active, job)
      BY <3>1, <3>2, <3>3, <3>4
    <3> QED
      BY <3>1, <3>2, <3>3, <3>4, <3>5, <3>6
  <2>5. CASE CloseConfigure(p)
    BY <2>5 DEF CloseConfigure, Out
  <2>6. CASE LockForJob(p)
    BY <2>6 DEF LockForJob
  <2>7. CASE KillProc(p)
    BY <2>7 DEF KillProc, Out
  <2> QED
    BY <1>2, <2>1, <2>2, <2>3, <2>4, <2>5, <2>6, <2>7 DEF Configuring
<1>3. ASSUME Migration \/ KillWorker PROVE JobInv'
  <2>1. CASE Select
    BY <2>1 DEF Select
  <2>2. CASE EmbedBatch
    BY <2>2 DEF EmbedBatch
  <2>9. CASE CheckBatch
    BY <2>9 DEF CheckBatch
  <2>3. ASSUME NEW c \in Chunk, WriteBatch(c) PROVE JobInv'
    BY <2>3 DEF WriteBatch
  <2>4. CASE Recheck
    BY <2>4 DEF Recheck
  <2>10. CASE SyncActive
    BY <2>10 DEF SyncActive
  <2>11. CASE Throw
    BY <2>11 DEF Throw
  <2>5. CASE Publish
    <3>1. /\ fs'.active = [gen |-> mig.id, digest |-> mig.sel] /\ fs'.job = fs.job
          /\ mig' = [mig EXCEPT !.pc = "syncActive"] /\ mig.pc = "publish"
      BY <2>5 DEF Publish
    <3>2. /\ mig'.pc = "syncActive" /\ mig'.id = mig.id /\ mig'.source = mig.source
      BY <3>1
    <3>3. Held(mig.id)' = Held(mig.id) /\ Held(mig.source)' = Held(mig.source)
      BY <2>5 DEF Publish
    <3>4. /\ disk' = disk /\ op' = op /\ jobs' = jobs /\ disk.active = fs.active
      BY <2>5 DEF Publish
    <3>5. jobs <= jobs /\ \A p \in Proc : op[p].pc \in ConfPoints => op[p].pc = "close"
      BY <3>1, Alone, Parts
    <3> HIDE DEF TypeOK, LockInv, Call, Worked, Files, Manifest, Job, Held
    <3> QED
      BY <3>1, <3>2, <3>3, <3>4, <3>5
  <2>7. CASE Complete
    <3>1. /\ fs'.active = fs.active /\ fs'.job = [id |-> mig.id, status |-> "completed"]
          /\ mig'.pc = "syncJob" /\ mig'.id = mig.id /\ mig.pc = "complete"
      BY <2>7 DEF Complete
    <3>2. /\ disk' = disk /\ op' = op /\ jobs' = jobs /\ disk.active = fs.active
      BY <2>7 DEF Complete
    <3>3. \A p \in Proc : op[p].pc \in ConfPoints => op[p].pc = "close"
      BY <3>1, Alone
    <3> HIDE DEF TypeOK, LockInv, Call, Worked, Files, Manifest, Job, Held
    <3> QED
      BY <3>1, <3>2, <3>3
  <2>8. CASE Handle
    <3>1. /\ fs'.active = fs.active /\ fs'.job = [id |-> mig.id, status |-> Outcome(mig.id)]
          /\ mig'.pc = "syncJob" /\ mig'.id = mig.id /\ mig.pc = "handler"
      BY <2>8 DEF Handle
    <3>2. /\ disk' = disk /\ op' = op /\ jobs' = jobs /\ disk.active = fs.active
      BY <2>8 DEF Handle
    <3>3. \A p \in Proc : op[p].pc \in ConfPoints => op[p].pc = "close"
      BY <3>1, Alone
    <3> HIDE DEF TypeOK, LockInv, Call, Worked, Files, Manifest, Job, Held
    <3> QED
      BY <3>1, <3>2, <3>3 DEF Outcome
  <2>6. CASE Finish \/ KillWorker
    BY <2>6 DEF Finish, KillWorker, Off
  <2> QED
    BY <1>3, <2>1, <2>2, <2>3, <2>4, <2>5, <2>6, <2>7, <2>8, <2>9, <2>10, <2>11 DEF Migration
<1>4. ASSUME NEW v \in Viewer, LookRead(v) \/ Status(v) PROVE JobInv'
  <2>1. CASE LookRead(v) \/ LookLock(v)
    BY <2>1 DEF LookRead, LookLock
  <2>2. CASE LookRepair(v)
    <3>1. /\ mig.pc = "off" /\ mig' = mig /\ fs.active = disk.active
          /\ \A q \in Proc : op[q].pc \notin ConfPoints
      BY <2>2, Alone DEF LookRepair
    <3>2. CASE fs.job.status # "pending"
      BY <2>2, <3>2 DEF LookRepair, vars
    <3>3. CASE fs.job.status = "pending"
      <4>1. /\ fs'.active = fs.active /\ fs'.job = [id |-> fs.job.id, status |-> Outcome(fs.job.id)]
            /\ disk' = disk /\ op' = op
        BY <2>2, <3>3 DEF LookRepair
      <4>2. jobs' = jobs
        BY <2>2 DEF LookRepair
      <4> HIDE DEF TypeOK, LockInv, Call, Worked, Files, Manifest, Job, Held
      <4> QED
        BY <3>1, <4>1, <4>2 DEF Outcome
    <3> QED
      BY <3>2, <3>3
  <2>3. CASE LookDone(v)
    BY <2>3 DEF LookDone
  <2> QED
    BY <1>4, <2>1, <2>2, <2>3 DEF Status
<1>5. CASE Retag
  BY <1>5, RetagKeeps
<1>6. CASE PowerLoss
  BY <1>6 DEF PowerLoss, Out, Off
<1>7. CASE UNCHANGED vars
  BY <1>7 DEF vars
<1> QED
  BY <1>1, <1>2, <1>3, <1>4, <1>5, <1>6, <1>7 DEF Next

\* Where vectors come from: a store pinned to a digest holds vectors of that
\* digest, strays aside, and so does a store under construction.
Pinned(manifest) ==
    \A c \in Held(manifest.gen) :
        <<manifest.gen, c>> \notin stray => store[manifest.gen][c] = manifest.digest

Unused ==
    /\ \A g \in Gen : g > jobs => Held(g) = {}
    /\ \A p \in Proc : op[p].pc \in {"queued", "spawn"} => Held(jobs) = {}

\* What a call has seen of the tag is what the tag did: as long as it still names
\* the pinned model the vectors are of that model; when it has left, it is away.
Seen(tag, pinned) ==
    /\ tag # "none"
    /\ tag = "still" => serving = pinned
    /\ tag = "left" => serving # pinned

Building ==
    /\ mig.pc = "select" => Held(mig.id) = {}
    /\ mig.pc \in {"build", "checked", "batch", "publish"} =>
          \A c \in Held(mig.id) : <<mig.id, c>> \notin stray => store[mig.id][c] = mig.sel
    /\ mig.pc \in {"checked", "batch"} => Seen(mig.tag, mig.sel)
    /\ mig.pc = "batch" /\ mig.tag = "still" => mig.vec = mig.sel

InFlight(call) ==
    /\ call.pc = "embedded" /\ call.conf.digest = 0 => call.vec = 0
    /\ call.pc \in {"checked", "embedded"} /\ call.conf.digest # 0 =>
          Seen(call.tag, call.conf.digest)
    /\ call.pc = "embedded" /\ call.conf.digest # 0 /\ call.tag = "still" =>
          call.vec = call.conf.digest

VectorInv ==
    /\ Pinned(fs.active) /\ Pinned(disk.active)
    /\ Unused /\ Building
    /\ \A p \in Proc : InFlight(op[p])

\* A vector that is written passed a second check of the tag: the tag still names
\* the model that was asked for, or it left that model and came back.
LEMMA WrittenVector ==
    ASSUME VectorInv, NEW p \in Proc, op[p].pc = "embedded", op[p].tag \in Tag,
           Computed(op[p].conf.digest) = op[p].conf.digest, op[p].tag # "back"
    PROVE  op[p].vec = op[p].conf.digest
  BY DEF VectorInv, InFlight, Seen, Computed, Tag

\* The same of a batch of a migration.
LEMMA WrittenBatch ==
    ASSUME Inv, VectorInv, mig.pc = "batch", serving = mig.sel, mig.tag # "back"
    PROVE  mig.vec = mig.sel
<1>1. mig.tag \in Tag
  BY DEF Inv, TypeOK, Worked
<1> QED
  BY <1>1 DEF VectorInv, Building, Seen, Tag

\* Models and generations are natural numbers.
LEMMA Numbers ==
    ASSUME TypeOK
    PROVE  /\ fs.active.digest \in Nat /\ disk.active.digest \in Nat /\ serving \in Nat /\ jobs \in Nat
           /\ fs.active.gen \in Nat /\ disk.active.gen \in Nat
           /\ mig.sel \in Nat /\ mig.vec \in Nat /\ mig.id \in Nat /\ mig.source \in Nat
           /\ \A p \in Proc : op[p].vec \in Nat /\ op[p].conf.digest \in Nat /\ op[p].conf.gen \in Nat
<1>1. Digest \subseteq Nat /\ Gen \subseteq Nat
  BY BoundsAssumption DEF Digest, Gen
<1>2. /\ mig.sel \in Digest /\ mig.vec \in Digest /\ mig.id \in Gen /\ mig.source \in Gen
      /\ \A p \in Proc : op[p].vec \in Digest
  BY DEF TypeOK, Worked, Call
<1>3. disk.active.digest \in Digest /\ disk.active.gen \in Gen
  BY Parts DEF Manifest
<1> QED
  BY <1>1, <1>2, <1>3, Parts

\* A write to one store of vectors leaves the others as they were.
LEMMA OtherStores ==
    ASSUME TypeOK, NEW g \in Gen, NEW c \in Chunk, NEW d \in Digest,
           store' = [store EXCEPT ![g][c] = d]
    PROVE  /\ \A h \in Gen \ {g} : store'[h] = store[h] /\ Held(h)' = Held(h)
           /\ \A e \in Chunk : store'[g][e] = IF e = c THEN d ELSE store[g][e]
           /\ Held(g)' = Held(g) \cup {c}
<1>1. \A h \in Gen \ {g} : store'[h] = store[h]
  BY DEF TypeOK
<1>2. \A e \in Chunk : store'[g][e] = IF e = c THEN d ELSE store[g][e]
  BY DEF TypeOK
<1>3. d # Absent
  BY BoundsAssumption DEF Digest, Absent
<1> QED
  BY <1>1, <1>2, <1>3 DEF Held

\* Writing the digest that all vectors of a store have, strays aside, or a stray
\* vector that is remembered as one, keeps the others as they are.
LEMMA SameDigest ==
    ASSUME TypeOK, NEW g \in Gen, NEW c \in Chunk, NEW v \in Digest, NEW d \in Digest,
           NEW tag, tag # "back" => v = d,
           store' = [store EXCEPT ![g][c] = v], stray' = Strays(g, c, tag),
           \A e \in Held(g) : <<g, e>> \notin stray => store[g][e] = d
    PROVE  \A e \in Chunk : store'[g][e] # Absent /\ <<g, e>> \notin stray' => store'[g][e] = d
<1>1. \A e \in Chunk : store'[g][e] = IF e = c THEN v ELSE store[g][e]
  BY OtherStores
<1> SUFFICES ASSUME NEW e \in Chunk, store'[g][e] # Absent, <<g, e>> \notin stray'
             PROVE  store'[g][e] = d
  OBVIOUS
<1>2. CASE e = c
  <2>1. tag # "back"
    BY <1>2 DEF Strays
  <2> QED
    BY <1>1, <1>2, <2>1
<1>3. CASE e # c
  <2>1. <<g, e>> # <<g, c>>
    BY <1>3
  <2>2. <<g, e>> \notin stray /\ e \in Held(g)
    BY <1>1, <1>3, <2>1 DEF Strays, Held
  <2> QED
    BY <1>1, <1>3, <2>2
<1> QED
  BY <1>2, <1>3

\* Marks of strays in one store leave those of the others as they were.
LEMMA OtherStrays ==
    ASSUME NEW g, NEW h, g # h, NEW c, NEW tag, stray' = Strays(g, c, tag)
    PROVE  \A e : <<h, e>> \in stray' <=> <<h, e>> \in stray
  BY DEF Strays

\* Every step keeps what the stores hold in the vector space they are built for.
LEMMA VectorStep == Inv /\ VectorInv /\ [Next]_vars => VectorInv'
<1> SUFFICES ASSUME Inv, VectorInv, [Next]_vars PROVE VectorInv'
  OBVIOUS
<1>1. ASSUME NEW p \in Proc, Operation(p) PROVE VectorInv'
  <2>1. CASE Enter(p)
    BY <2>1 DEF Enter, VectorInv, Pinned, Unused, Building, InFlight, Seen, Held, Inv, TypeOK, Call
  <2>2. CASE Refresh(p)
    BY <2>2 DEF Refresh, VectorInv, Pinned, Unused, Building, InFlight, Seen, Held, Inv, TypeOK, Call
  <2>6. CASE Check(p)
    <3>1. /\ op'[p].pc = "checked" /\ op'[p].conf = op[p].conf /\ op'[p].tag = "still"
          /\ \A q \in Proc \ {p} : op'[q] = op[q]
          /\ op[p].conf.digest # 0 => serving = op[p].conf.digest
      BY <2>6 DEF Check, Computed, Inv, TypeOK, Call
    <3>2. UNCHANGED <<serving, store, stray, fs, disk, jobs, mig>>
      BY <2>6 DEF Check
    <3>3. \A q \in Proc : InFlight(op[q])'
      BY <3>1, <3>2 DEF VectorInv, InFlight, Seen
    <3> QED
      BY <3>1, <3>2, <3>3 DEF VectorInv, Pinned, Unused, Building, Seen, Held
  <2>3. CASE Embed(p)
    <3>1. /\ op'[p].pc = "embedded" /\ op'[p].conf = op[p].conf /\ op'[p].tag = op[p].tag
          /\ op'[p].vec = Computed(op[p].conf.digest) /\ op[p].pc = "checked"
          /\ \A q \in Proc \ {p} : op'[q] = op[q]
      BY <2>3 DEF Embed, Inv, TypeOK, Call
    <3>2. UNCHANGED <<serving, store, stray, fs, disk, jobs, mig>>
      BY <2>3 DEF Embed
    <3>3. \A q \in Proc : InFlight(op[q])'
      BY <3>1, <3>2 DEF VectorInv, InFlight, Seen, Computed
    <3> QED
      BY <3>1, <3>2, <3>3 DEF VectorInv, Pinned, Unused, Building, Seen, Held
  <2>4. ASSUME NEW c \in Chunk, Store(p, c) PROVE VectorInv'
    <3>1. /\ op'[p].pc = "in" /\ \A q \in Proc \ {p} : op'[q] = op[q]
          /\ UNCHANGED <<fs, disk, mig, serving, jobs>>
      BY <2>4 DEF Store, Inv, TypeOK, Call
    <3>2. CASE Computed(op[p].conf.digest) # op[p].conf.digest
      <4>1. store' = store /\ stray' = stray
        BY <2>4, <3>2 DEF Store
      <4>2. \A q \in Proc : InFlight(op[q])'
        BY <3>1 DEF VectorInv, InFlight, Seen
      <4> QED
        BY <3>1, <4>1, <4>2 DEF VectorInv, Pinned, Unused, Building, Seen, Held
    <3>3. CASE Computed(op[p].conf.digest) = op[p].conf.digest
      <4>1. op[p].conf = fs.active /\ disk.active = fs.active /\ mig.pc = "off"
        BY <2>4 DEF Store, Inv, OneGeneration, LockInv, JobInv, OpPoints
      <4>2. \A q \in Proc : op[q].pc \notin ConfPoints
        BY <2>4 DEF Store, Inv, LockInv, OpPoints
      <4>3. /\ store' = [store EXCEPT ![fs.active.gen][c] = op[p].vec]
            /\ stray' = Strays(fs.active.gen, c, op[p].tag)
        BY <2>4, <3>3, <4>1 DEF Store
      <4>4. fs.active.gen \in Gen /\ fs.active.digest \in Digest /\ ~(fs.active.gen > jobs)
        BY Parts, Numbers DEF Inv, JobInv
      <4>5. op[p].vec \in Digest /\ op[p].tag \in Tag
        BY DEF Inv, TypeOK, Call
      <4>6. op[p].tag # "back" => op[p].vec = fs.active.digest
        BY <2>4, <3>3, <4>1, <4>5, WrittenVector DEF Store
      <4> QED
        <5>1. \A q \in Proc : InFlight(op[q])'
          BY <3>1 DEF VectorInv, InFlight, Seen
        <5>2. Pinned(fs.active)'
          <6>1. \A e \in Held(fs.active.gen) :
                   <<fs.active.gen, e>> \notin stray => store[fs.active.gen][e] = fs.active.digest
            BY DEF VectorInv, Pinned
          <6>2. \A e \in Chunk :
                   store'[fs.active.gen][e] # Absent /\ <<fs.active.gen, e>> \notin stray' =>
                      store'[fs.active.gen][e] = fs.active.digest
            <7> DEFINE g == fs.active.gen  d == fs.active.digest
                       v == op[p].vec      tag == op[p].tag
            <7>1. /\ TypeOK /\ g \in Gen /\ v \in Digest /\ d \in Digest
                  /\ tag # "back" => v = d
                  /\ store' = [store EXCEPT ![g][c] = v] /\ stray' = Strays(g, c, tag)
                  /\ \A e \in Held(g) : <<g, e>> \notin stray => store[g][e] = d
              BY <4>3, <4>4, <4>5, <4>6, <6>1 DEF Inv
            <7> HIDE DEF g, d, v, tag
            <7>2. \A e \in Chunk : store'[g][e] # Absent /\ <<g, e>> \notin stray' => store'[g][e] = d
              BY <7>1, SameDigest
            <7> QED
              BY <7>2 DEF g, d
          <6> QED
            BY <3>1, <6>2 DEF Pinned, Held
        <5>3. Unused'
          <6>1. \A h \in Gen : h # fs.active.gen => Held(h)' = Held(h)
            BY <4>3, <4>4, <4>5, OtherStores DEF Inv
          <6>2. \A q \in Proc : op'[q].pc \notin {"queued", "spawn"}
            BY <3>1, <4>2 DEF ConfPoints
          <6> QED
            BY <3>1, <4>4, <6>1, <6>2 DEF VectorInv, Unused
        <5>4. Building'
          BY <3>1, <4>1 DEF Building
        <5> QED
          BY <3>1, <4>1, <5>1, <5>2, <5>3, <5>4 DEF VectorInv
    <3> QED
      BY <3>2, <3>3
  <2>5. CASE Leave(p)
    BY <2>5 DEF Leave, Out, VectorInv, Pinned, Unused, Building, InFlight, Seen, Held, Inv, TypeOK, Call
  <2> QED
    BY <1>1, <2>1, <2>2, <2>3, <2>4, <2>5, <2>6 DEF Operation
<1>2. ASSUME NEW p \in Proc, Configuring(p) \/ LockForJob(p) \/ KillProc(p) PROVE VectorInv'
  <2>1. CASE QueueJob(p)
    <3>1. /\ op'[p].pc = "queued" /\ \A q \in Proc \ {p} : op'[q] = op[q]
          /\ fs'.active = fs.active /\ UNCHANGED <<disk, store, stray, mig, serving>>
      BY <2>1 DEF QueueJob, Inv, TypeOK, Call, Files
    <3>2. jobs' = jobs + 1 /\ jobs + 1 \in Gen /\ jobs \in Nat
      BY <2>1, Numbers, BoundsAssumption DEF QueueJob, JobInv, Gen, Inv
    <3>3. \A g \in Gen : g >= jobs + 1 => Held(g) = {} /\ Held(g)' = {}
      BY <3>1, <3>2, BoundsAssumption DEF VectorInv, Unused, Gen, Held
    <3>4. Unused'
      BY <3>2, <3>3, BoundsAssumption DEF Unused, Gen
    <3>5. \A q \in Proc : InFlight(op[q])'
      BY <3>1 DEF VectorInv, InFlight, Seen
    <3> QED
      BY <3>1, <3>4, <3>5 DEF VectorInv, Pinned, Building, Seen, Held
  <2>2. CASE SyncJob(p)
    BY <2>2 DEF SyncJob, VectorInv, Pinned, Unused, Building, InFlight, Seen, Held, Inv, TypeOK, Call
  <2>3. CASE Spawn(p)
    BY <2>3 DEF Spawn, Off, VectorInv, Pinned, Unused, Building, InFlight, Seen, Held, Inv, TypeOK, Call
  <2>4. CASE ConfigureFails(p)
    <3>1. /\ jobs' \in {jobs, jobs + 1} /\ jobs \in Nat
          /\ op'[p].pc = "abort" /\ \A q \in Proc \ {p} : op'[q] = op[q]
      BY <2>4, Numbers DEF ConfigureFails, Inv, TypeOK, Call
    <3>2. \A q \in Proc \ {p} : op[q].pc \notin ConfPoints
      BY <2>4, Alone DEF ConfigureFails, ConfPoints
    <3>3. \A g \in Gen : g > jobs' => Held(g)' = {}
      BY <2>4, <3>1, BoundsAssumption DEF ConfigureFails, Held, Gen, VectorInv, Unused
    <3> QED
      BY <2>4, <3>1, <3>2, <3>3 DEF ConfigureFails, VectorInv, Pinned, Unused, Building, InFlight, Seen, Held, Inv, TypeOK, Files, ConfPoints
  <2>5. CASE CloseConfigure(p)
    BY <2>5 DEF CloseConfigure, Out, VectorInv, Pinned, Unused, Building, InFlight, Seen, Held, Inv, TypeOK, Call
  <2>6. CASE LockForJob(p)
    BY <2>6 DEF LockForJob, VectorInv, Pinned, Unused, Building, InFlight, Seen, Held, Inv, TypeOK, Call
  <2>7. CASE KillProc(p)
    BY <2>7 DEF KillProc, Out, VectorInv, Pinned, Unused, Building, InFlight, Seen, Held, Inv, TypeOK, Call
  <2> QED
    BY <1>2, <2>1, <2>2, <2>3, <2>4, <2>5, <2>6, <2>7 DEF Configuring
<1>3. ASSUME Migration \/ KillWorker PROVE VectorInv'
  <2>1. CASE Select
    BY <2>1, Parts DEF Select, VectorInv, Pinned, Unused, Building, InFlight, Seen, Held, Inv, TypeOK, Worked
  <2>8. CASE CheckBatch
    <3>1. /\ mig'.pc = "checked" /\ mig'.id = mig.id /\ mig'.sel = mig.sel /\ mig'.tag = "still"
          /\ mig.pc = "build" /\ serving = mig.sel
      BY <2>8 DEF CheckBatch, Inv, TypeOK, Worked
    <3>2. UNCHANGED <<fs, disk, op, store, stray, serving, jobs>>
      BY <2>8 DEF CheckBatch
    <3> QED
      BY <3>1, <3>2 DEF VectorInv, Pinned, Unused, Building, InFlight, Seen, Held
  <2>2. CASE EmbedBatch
    <3>1. /\ mig'.pc = "batch" /\ mig'.id = mig.id /\ mig'.sel = mig.sel /\ mig'.tag = mig.tag
          /\ mig.pc = "checked" /\ mig'.vec = serving
      BY <2>2 DEF EmbedBatch, Inv, TypeOK, Worked
    <3>2. UNCHANGED <<fs, disk, op, store, stray, serving, jobs>>
      BY <2>2 DEF EmbedBatch
    <3> QED
      BY <3>1, <3>2 DEF VectorInv, Pinned, Unused, Building, InFlight, Seen, Held
  <2>3. ASSUME NEW c \in Chunk, WriteBatch(c) PROVE VectorInv'
    <3>1. /\ mig'.pc = "build" /\ mig'.id = mig.id /\ mig'.sel = mig.sel
          /\ mig.pc = "batch" /\ serving = mig.sel
          /\ UNCHANGED <<fs, disk, op, serving, jobs>>
      BY <2>3 DEF WriteBatch, Inv, TypeOK, Worked
    <3>2. /\ store' = [store EXCEPT ![mig.id][c] = mig.vec]
          /\ stray' = Strays(mig.id, c, mig.tag)
          /\ mig.tag # "back" => mig.vec = mig.sel
      BY <2>3, <3>1, WrittenBatch DEF WriteBatch
    <3>3. /\ fs.active = disk.active /\ fs.active.gen # mig.id /\ ~(mig.id > jobs)
          /\ \A q \in Proc : op[q].pc \notin {"queued", "spawn"}
      BY <3>1, Alone, Numbers DEF Inv, JobInv, ConfPoints
    <3>4. mig.id \in Gen /\ mig.sel \in Digest /\ mig.vec \in Digest /\ fs.active.gen \in Gen
      BY Parts DEF Inv, TypeOK, Worked
    <3> QED
      <4>1. Building'
        <5>1. \A e \in Held(mig.id) : <<mig.id, e>> \notin stray => store[mig.id][e] = mig.sel
          BY <3>1 DEF VectorInv, Building
        <5>2. \A e \in Chunk :
                 store'[mig.id][e] # Absent /\ <<mig.id, e>> \notin stray' =>
                    store'[mig.id][e] = mig.sel
          <6>1. TypeOK
            BY DEF Inv
          <6> QED
            BY <3>2, <3>4, <5>1, <6>1, SameDigest
        <5> QED
          BY <3>1, <5>2 DEF Building, Held
      <4>2. Unused'
        <5>1. \A h \in Gen : h # mig.id => Held(h)' = Held(h)
          BY <3>2, <3>4, OtherStores DEF Inv
        <5> QED
          BY <3>1, <3>3, <3>4, <5>1 DEF VectorInv, Unused
      <4>3. Pinned(fs.active)'
        <5>1. store'[fs.active.gen] = store[fs.active.gen]
          BY <3>2, <3>3, <3>4, OtherStores DEF Inv
        <5>2. \A e : <<fs.active.gen, e>> \in stray' <=> <<fs.active.gen, e>> \in stray
          BY <3>2, <3>3, OtherStrays
        <5> QED
          BY <3>1, <5>1, <5>2 DEF VectorInv, Pinned, Held
      <4>4. \A q \in Proc : InFlight(op[q])'
        BY <3>1 DEF VectorInv, InFlight, Seen
      <4> QED
        BY <3>1, <3>3, <4>1, <4>2, <4>3, <4>4 DEF VectorInv
  <2>4. CASE Recheck
    BY <2>4 DEF Recheck, VectorInv, Pinned, Unused, Building, InFlight, Seen, Held, Inv, TypeOK, Worked
  <2>9. CASE SyncActive
    BY <2>9 DEF SyncActive, VectorInv, Pinned, Unused, Building, InFlight, Seen, Held, Inv, TypeOK, Worked
  <2>10. CASE Throw
    BY <2>10 DEF Throw, VectorInv, Pinned, Unused, Building, InFlight, Seen, Held, Inv, TypeOK, Worked
  <2>5. CASE Publish
    BY <2>5 DEF Publish, VectorInv, Pinned, Unused, Building, InFlight, Seen, Held, Inv, TypeOK, Worked, Files
  <2>6. CASE Complete \/ Handle
    BY <2>6 DEF Complete, Handle, VectorInv, Pinned, Unused, Building, InFlight, Seen, Held, Inv, TypeOK, Worked, Files
  <2>7. CASE Finish \/ KillWorker
    BY <2>7 DEF Finish, KillWorker, Off, VectorInv, Pinned, Unused, Building, InFlight, Seen, Held, Inv, TypeOK
  <2> QED
    BY <1>3, <2>1, <2>2, <2>3, <2>4, <2>5, <2>6, <2>7, <2>8, <2>9, <2>10 DEF Migration
<1>4. ASSUME NEW v \in Viewer, LookRead(v) \/ Status(v) PROVE VectorInv'
  <2>1. CASE LookRead(v) \/ LookLock(v)
    BY <2>1 DEF LookRead, LookLock, VectorInv, Pinned, Unused, Building, InFlight, Seen, Held
  <2>2. CASE LookRepair(v)
    BY <2>2 DEF LookRepair, VectorInv, Pinned, Unused, Building, InFlight, Seen, Held, Inv, TypeOK, Files
  <2>3. CASE LookDone(v)
    BY <2>3 DEF LookDone, VectorInv, Pinned, Unused, Building, InFlight, Seen, Held
  <2> QED
    BY <1>4, <2>1, <2>2, <2>3 DEF Status
<1>5. CASE Retag
  <2>1. PICK d \in (1 .. MaxDigest) \ {serving} : RetagTo(d)
    BY <1>5 DEF Retag
  <2>2. /\ serving' = d /\ d # serving
        /\ \A p \in Proc : op'[p].tag = Moved(op[p].tag, op[p].conf.digest, d)
        /\ mig'.tag = Moved(mig.tag, mig.sel, d)
    BY <2>1 DEF RetagTo, Inv, TypeOK, Call, Worked
  <2>3. \A t \in Tag, x \in Digest : Seen(t, x) => Seen(Moved(t, x, d), x)' /\ (Moved(t, x, d) = "still" => t = "still")
    BY <2>2 DEF Moved, Seen, Tag
  <2>4. /\ mig.tag \in Tag /\ mig.sel \in Digest
        /\ \A p \in Proc : op[p].tag \in Tag /\ op[p].conf.digest \in Digest
    BY Parts DEF Inv, TypeOK, Call, Worked
  <2>5. Building'
    BY <1>5, <2>2, <2>3, <2>4, RetagKeeps DEF VectorInv, Building, Held, Inv
  <2>6. \A p \in Proc : InFlight(op[p])'
    BY <1>5, <2>2, <2>3, <2>4, RetagKeeps DEF VectorInv, InFlight, Inv
  <2> QED
    BY <1>5, <2>5, <2>6, RetagKeeps DEF VectorInv, Pinned, Unused, Held, Inv
<1>6. CASE PowerLoss
  BY <1>6 DEF PowerLoss, Out, Off, VectorInv, Pinned, Unused, Building, InFlight, Seen, Held
<1>7. CASE UNCHANGED vars
  BY <1>7 DEF vars, VectorInv, Pinned, Unused, Building, InFlight, Seen, Held
<1> QED
  BY <1>1, <1>2, <1>3, <1>4, <1>5, <1>6, <1>7 DEF Next

\* The initial states satisfy both invariants.
LEMMA InitInv == Init => Inv /\ VectorInv
<1> SUFFICES ASSUME Init PROVE Inv /\ VectorInv
  OBVIOUS
<1>1. 0 \in Gen /\ 0 \in Digest /\ 1 \in Digest
  BY BoundsAssumption DEF Gen, Digest
<1>2. [gen |-> 0, digest |-> 0] \in Manifest /\ [id |-> 0, status |-> "none"] \in Job
  BY <1>1 DEF Manifest, Job
<1>3. fs \in Files /\ disk \in Files
  BY <1>2 DEF Init, Files
<1>4. Out \in Call /\ Off \in Worked
  BY <1>1, <1>2 DEF Out, Off, Call, Worked, Tag
<1>5. TypeOK
  <2>1. 1 \in 1 .. MaxDigest /\ jobs \in Gen /\ stray \subseteq Gen \X Chunk
    BY <1>1, BoundsAssumption DEF Init
  <2>2. store \in [Gen -> [Chunk -> Digest \cup {Absent}]]
    BY DEF Init
  <2> QED
    BY <1>3, <1>4, <2>1, <2>2 DEF Init, TypeOK
<1>6. LockInv
  BY ActorsAssumption DEF Init, LockInv, Out, Off, OpPoints, ConfPoints, LookPoints
<1>7. JobInv
  BY DEF Init, JobInv, True, Out, Off, ConfPoints
<1>8. OneGeneration
  BY DEF Init, OneGeneration, Out
<1>9. \A g \in Gen : Held(g) = {}
  BY DEF Init, Held
<1>10. VectorInv
  BY <1>1, <1>9 DEF Init, VectorInv, Pinned, Unused, Building, InFlight, Seen, Out, Off
<1> QED
  BY <1>5, <1>6, <1>7, <1>8, <1>10 DEF Inv

\* The invariants together are inductive.
LEMMA InvStep == Inv /\ VectorInv /\ [Next]_vars => (Inv /\ VectorInv)'
  BY TypeStep, LockStep, JobStep, GenerationStep, VectorStep DEF Inv

\* Both invariants hold in every reachable state.
LEMMA Invariant == Spec => [](Inv /\ VectorInv)
  BY InitInv, InvStep, PTL DEF Spec

\* The variables of a run always have their types (TypeOK).
THEOREM TypeCorrect == Spec => []TypeOK
  BY Invariant, PTL DEF Inv

\* No operation sees two generations, for any number of processes, status
\* callers, migrations and models, through kills and power losses.
THEOREM NoSwitchUnderway == Spec => []OneGeneration
  BY Invariant, PTL DEF Inv

\* A configure call until it hands over, a worker and a repairing status call
\* exclude each other and every operation.
THEOREM MutualExclusion == Spec => []Exclusive
<1>1. Inv => Exclusive
  BY ActorsAssumption DEF Inv, LockInv, JobInv, Exclusive, Changing, OpPoints, ConfPoints, LookPoints
<1> QED
  BY <1>1, Invariant, PTL

\* What a client reads about a finished job is what happened to the manifest.
THEOREM JobsReportTruth == Spec => []JobTruth
<1>1. Inv => JobTruth
  BY DEF Inv, JobInv, True, JobTruth
<1> QED
  BY <1>1, Invariant, PTL

\* The active store never mixes vectors of two models, wherever the tag is moved
\* and wherever a migration stops, except for calls in which the tag came back.
THEOREM OneSpace == Spec => []OneVectorSpace
<1>1. VectorInv => OneVectorSpace
  BY DEF VectorInv, Pinned, OneVectorSpace
<1> QED
  BY <1>1, Invariant, PTL

\* Steps that leave the manifest and the stores alone are invisible.
LEMMA Invisible ==
    ASSUME fs'.active = fs.active, store' = store
    PROVE  UNCHANGED <<fs.active.gen, Held(fs.active.gen)>>
  BY DEF Held

\* Every step is a write, a switch or a stutter of ActiveStore.
LEMMA RefinementStep ==
    Inv /\ [Next]_vars => [Abstract!Next]_<<fs.active.gen, Held(fs.active.gen)>>
<1> SUFFICES ASSUME Inv, [Next]_vars
             PROVE  [Abstract!Next]_<<fs.active.gen, Held(fs.active.gen)>>
  OBVIOUS
<1> DEFINE Maps == [Abstract!Next]_<<fs.active.gen, Held(fs.active.gen)>>
<1>1. ASSUME NEW p \in Proc, Operation(p) PROVE Maps
  <2>1. ASSUME NEW c \in Chunk, Store(p, c) PROVE Maps
    <3>1. op[p].conf = fs.active /\ fs' = fs /\ fs.active.gen \in Gen /\ op[p].vec \in Digest
      BY <2>1, Parts DEF Store, Inv, OneGeneration, TypeOK, Call
    <3>2. CASE store' = store
      BY <3>1, <3>2, Invisible
    <3>3. CASE store' = [store EXCEPT ![fs.active.gen][c] = op[p].vec]
      <4>1. op[p].vec # Absent
        BY <3>1, BoundsAssumption DEF Digest, Absent
      <4>2. \A e \in Chunk : store'[fs.active.gen][e] =
                              IF e = c THEN op[p].vec ELSE store[fs.active.gen][e]
        BY <3>1, <3>3, OtherStores DEF Inv
      <4>3. Held(fs.active.gen)' = Held(fs.active.gen) \cup {c}
        BY <3>1, <4>1, <4>2 DEF Held
      <4> QED
        BY <3>1, <4>3 DEF Abstract!Next, Abstract!Write
    <3> QED
      BY <2>1, <3>1, <3>2, <3>3 DEF Store
  <2>2. CASE Enter(p) \/ Refresh(p) \/ Check(p) \/ Embed(p) \/ Leave(p)
    BY <2>2, Invisible DEF Enter, Refresh, Check, Embed, Leave
  <2> QED
    BY <1>1, <2>1, <2>2 DEF Operation
<1>2. ASSUME NEW p \in Proc, Configuring(p) \/ LockForJob(p) \/ KillProc(p) PROVE Maps
  <2>1. fs'.active = fs.active /\ store' = store
    BY <1>2 DEF Configuring, QueueJob, SyncJob, Spawn, ConfigureFails, CloseConfigure,
                LockForJob, KillProc, Inv, TypeOK, Files
  <2> QED
    BY <2>1, Invisible
<1>3. ASSUME Migration \/ KillWorker PROVE Maps
  <2>1. ASSUME NEW c \in Chunk, WriteBatch(c) PROVE Maps
    <3>1. /\ fs.active.gen # mig.id /\ fs' = fs /\ fs.active.gen \in Gen /\ mig.id \in Gen
          /\ mig.vec \in Digest /\ store' = [store EXCEPT ![mig.id][c] = mig.vec]
      BY <2>1, Parts, Numbers DEF WriteBatch, Inv, JobInv, TypeOK, Worked
    <3>2. store'[fs.active.gen] = store[fs.active.gen]
      BY <3>1, OtherStores DEF Inv
    <3> QED
      BY <3>1, <3>2 DEF Held
  <2>2. CASE Publish
    <3>1. /\ fs'.active = [gen |-> mig.id, digest |-> mig.sel] /\ store' = store /\ mig.id \in Gen
          /\ Held(mig.id) = Held(fs.active.gen)
      BY <2>2 DEF Publish, Inv, JobInv, TypeOK, Files, Worked
    <3>2. fs'.active.gen = mig.id
      BY <3>1
    <3>3. Held(fs.active.gen)' = Held(fs.active.gen)
      BY <3>1, <3>2 DEF Held
    <3> QED
      BY <3>1, <3>2, <3>3 DEF Abstract!Next, Abstract!Switch
  <2>3. CASE Select \/ CheckBatch \/ EmbedBatch \/ Recheck \/ SyncActive \/ Throw \/ Complete \/ Handle
              \/ Finish \/ KillWorker
    <3>1. fs'.active = fs.active /\ store' = store
      BY <2>3 DEF Select, CheckBatch, EmbedBatch, Recheck, SyncActive, Throw, Complete, Handle, Finish,
                  KillWorker, Inv, TypeOK, Files
    <3> QED
      BY <3>1, Invisible
  <2> QED
    BY <1>3, <2>1, <2>2, <2>3 DEF Migration
<1>4. ASSUME NEW v \in Viewer, LookRead(v) \/ Status(v) PROVE Maps
  <2>1. fs'.active = fs.active /\ store' = store
    BY <1>4 DEF LookRead, LookLock, Status, LookRepair, LookDone, Inv, TypeOK, Files
  <2> QED
    BY <2>1, Invisible
<1>5. CASE Retag
  BY <1>5, RetagKeeps, Invisible DEF Inv
<1>6. CASE PowerLoss
  <2>1. fs'.active \in {fs.active, disk.active} /\ store' = store
    BY <1>6 DEF PowerLoss
  <2>2. CASE fs'.active = fs.active
    BY <2>1, <2>2, Invisible
  <2>3. CASE fs'.active = disk.active /\ disk.active # fs.active
    <3>1. /\ Held(disk.active.gen) = Held(fs.active.gen)
      BY <2>3 DEF Inv, JobInv
    <3>2. disk.active.gen \in Gen
      BY Parts DEF Inv, Manifest
    <3>3. Held(fs.active.gen)' = Held(fs.active.gen)
      BY <2>1, <2>3, <3>1 DEF Held
    <3> QED
      BY <2>3, <3>2, <3>3 DEF Abstract!Next, Abstract!Switch
  <2> QED
    BY <2>1, <2>2, <2>3
<1>7. CASE UNCHANGED vars
  BY <1>7, Invisible DEF vars
<1> QED
  BY <1>1, <1>2, <1>3, <1>4, <1>5, <1>6, <1>7 DEF Next

\* The manifest, the job file, the lock and the stores behave as one store of
\* chunks whose model is switched without a chunk appearing or vanishing.
THEOREM Refinement == Spec => ImplementsActiveStore
<1>1. Init => Abstract!Init
  <2> SUFFICES ASSUME Init PROVE Abstract!Init
    OBVIOUS
  <2>1. fs.active.gen = 0 /\ 0 \in Gen
    BY BoundsAssumption DEF Init, Gen
  <2>2. Held(fs.active.gen) = {}
    BY <2>1 DEF Init, Held
  <2> QED
    BY <2>1, <2>2 DEF Abstract!Init
<1> QED
  BY <1>1, RefinementStep, Invariant, PTL DEF Spec, ImplementsActiveStore, Abstract!Spec
=============================================================================
