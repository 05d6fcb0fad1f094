--------------------------- MODULE EmbeddingRuntime ---------------------------
(***************************************************************************)
(* Switching the embedding model while the service runs                    *)
(* (embedding_runtime.py).  Normal operations hold a shared file lock and  *)
(* work on the stores named by active.json; configure takes the lock       *)
(* exclusively and hands it to a detached worker, which builds new stores  *)
(* and publishes them by replacing active.json.  job.json tells clients    *)
(* how the last migration went, and a status call repairs it when the      *)
(* worker is gone.                                                         *)
(*                                                                         *)
(* A generation is a pair of stores (chunk index and graph) built by one   *)
(* job; generation 0 is the configuration of the environment, embedded by  *)
(* a local model.  Digests number the models that the selected Ollama tag  *)
(* may name; anybody may move the tag to any of them at any time.          *)
(***************************************************************************)
EXTENDS Naturals

CONSTANTS
    Proc,       \* processes that run operations: MCP server, CLI, worker ticks
    Viewer,     \* callers of embedding_status
    Chunk,      \* chunks (and concepts) that operations write
    MaxJobs,    \* bound: migrations started
    MaxDigest   \* bound: models the tag may name

ASSUME BoundsAssumption == MaxJobs \in Nat /\ MaxDigest \in Nat \ {0}

Worker == "worker"
ASSUME ActorsAssumption == Proc \cap Viewer = {} /\ Worker \notin Proc \cup Viewer

Gen == 0 .. MaxJobs
Digest == 0 .. MaxDigest     \* 0: the local model of the baseline
Absent == MaxDigest + 1      \* a chunk that a store does not have

VARIABLES
    fs,       \* active.json and job.json as processes see them
    disk,     \* the same after a power loss, except for renames not yet synced
    shared,   \* holders of the operation lock in shared mode
    excl,     \* descriptors that keep the exclusive lock
    op,       \* op[p]: the operation or configure call of process p
    mig,      \* the migration worker
    look,     \* look[v]: a status call
    store,    \* store[g][c]: digest of the model that embedded c in generation g
    stray,    \* history: <<g, c>> written by a call whose tag left and came back
    serving,  \* the model now behind the tag
    jobs      \* migrations started so far

vars == <<fs, disk, shared, excl, op, mig, look, store, stray, serving, jobs>>

Manifest == [gen : Gen, digest : Digest]
Job == [id : Gen, status : {"none", "pending", "completed", "failed"}]
Files == [active : Manifest, job : Job]
\* History of one embedding call: whether the tag, since the first check of the
\* call, still names the pinned model, left it, or left it and came back.
Tag == {"none", "still", "left", "back"}
Call == [pc : {"out", "entered", "in", "checked", "embedded",
               "locked", "queued", "spawn", "close", "abort"},
         conf : Manifest, vec : Digest, tag : Tag]
Worked == [pc : {"off", "select", "build", "checked", "batch", "publish", "syncActive",
                 "complete", "handler", "syncJob"},
           id : Gen, source : Gen, sel : Digest, vec : Digest, tag : Tag]

Out == [pc |-> "out", conf |-> [gen |-> 0, digest |-> 0], vec |-> 0, tag |-> "none"]
Off == [pc |-> "off", id |-> 0, source |-> 0, sel |-> 0, vec |-> 0, tag |-> "none"]

Init ==
    /\ fs = [active |-> [gen |-> 0, digest |-> 0], job |-> [id |-> 0, status |-> "none"]]
    /\ disk = fs
    /\ shared = {} /\ excl = {}
    /\ op = [p \in Proc |-> Out]
    /\ mig = Off
    /\ look = [v \in Viewer |-> "out"]
    /\ store = [g \in Gen |-> [c \in Chunk |-> Absent]]
    /\ stray = {} /\ serving = 1
    /\ jobs = 0

Held(g) == {c \in Chunk : store[g][c] # Absent}

-----------------------------------------------------------------------------
(* Operations: embedding_operation around a tool call or a CLI command.    *)

Enter(p) ==
    /\ op[p].pc = "out" /\ excl = {}
    /\ shared' = shared \cup {p}
    /\ op' = [op EXCEPT ![p].pc = "entered"]
    /\ UNCHANGED <<fs, disk, excl, mig, look, store, stray, serving, jobs>>

\* refresh_settings: the process takes over the stores of the manifest.
Refresh(p) ==
    /\ op[p].pc = "entered"
    /\ op' = [op EXCEPT ![p].pc = "in", ![p].conf = fs.active]
    /\ UNCHANGED <<fs, disk, shared, excl, mig, look, store, stray, serving, jobs>>

\* The local model has no tag that could move.
Computed(digest) == IF digest = 0 THEN 0 ELSE serving

\* An embedding call begins with a check of the tag, ...
Check(p) ==
    /\ op[p].pc = "in" /\ Computed(op[p].conf.digest) = op[p].conf.digest
    /\ op' = [op EXCEPT ![p].pc = "checked", ![p].tag = "still"]
    /\ UNCHANGED <<fs, disk, shared, excl, mig, look, store, stray, serving, jobs>>

\* ... has the vectors computed by whatever the tag names then, ...
Embed(p) ==
    /\ op[p].pc = "checked"
    /\ op' = [op EXCEPT ![p].pc = "embedded", ![p].vec = Computed(op[p].conf.digest)]
    /\ UNCHANGED <<fs, disk, shared, excl, mig, look, store, stray, serving, jobs>>

\* A vector of a call whose tag left and came back is remembered as stray.
Strays(g, c, tag) == IF tag = "back" THEN stray \cup {<<g, c>>} ELSE stray \ {<<g, c>>}

\* Mutant of Store: the tag is only checked before the vectors are requested.
StoreUnchecked(p, c) ==
    /\ op[p].pc = "embedded"
    /\ store' = [store EXCEPT ![op[p].conf.gen][c] = op[p].vec]
    /\ stray' = Strays(op[p].conf.gen, c, op[p].tag)
    /\ op' = [op EXCEPT ![p].pc = "in", ![p].vec = 0, ![p].tag = "none"]
    /\ UNCHANGED <<fs, disk, shared, excl, mig, look, serving, jobs>>

\* ... and checks the tag again: the write goes through, or the call fails
\* before it.
Store(p, c) ==
    LET conf == op[p].conf
    IN  /\ op[p].pc = "embedded"
        /\ IF Computed(conf.digest) = conf.digest
           THEN /\ store' = [store EXCEPT ![conf.gen][c] = op[p].vec]
                /\ stray' = Strays(conf.gen, c, op[p].tag)
           ELSE UNCHANGED <<store, stray>>
        /\ op' = [op EXCEPT ![p].pc = "in", ![p].vec = 0, ![p].tag = "none"]
        /\ UNCHANGED <<fs, disk, shared, excl, mig, look, serving, jobs>>

Leave(p) ==
    /\ op[p].pc \in {"entered", "in", "checked", "embedded"}
    /\ shared' = shared \ {p}
    /\ op' = [op EXCEPT ![p] = Out]
    /\ UNCHANGED <<fs, disk, excl, mig, look, store, stray, serving, jobs>>

-----------------------------------------------------------------------------
(* configure_embedding: the exclusive lock, the durable job, the worker.   *)

\* Mutant of LockForJob: operations in progress do not keep the lock.
LockForJobAnyway(p) ==
    /\ op[p].pc = "out" /\ jobs < MaxJobs /\ excl = {}
    /\ excl' = {p}
    /\ op' = [op EXCEPT ![p].pc = "locked", ![p].conf = fs.active]
    /\ UNCHANGED <<fs, disk, shared, mig, look, store, stray, serving, jobs>>

LockForJob(p) ==
    /\ op[p].pc = "out" /\ jobs < MaxJobs
    /\ shared = {} /\ excl = {}
    /\ excl' = {p}
    /\ op' = [op EXCEPT ![p].pc = "locked", ![p].conf = fs.active]
    /\ UNCHANGED <<fs, disk, shared, mig, look, store, stray, serving, jobs>>

QueueJob(p) ==
    /\ op[p].pc = "locked"
    /\ jobs' = jobs + 1
    /\ fs' = [fs EXCEPT !.job = [id |-> jobs + 1, status |-> "pending"]]
    /\ op' = [op EXCEPT ![p].pc = "queued"]
    /\ UNCHANGED <<disk, shared, excl, mig, look, store, stray, serving>>

SyncJob(p) ==
    /\ op[p].pc = "queued"
    /\ disk' = fs
    /\ op' = [op EXCEPT ![p].pc = "spawn"]
    /\ UNCHANGED <<fs, shared, excl, mig, look, store, stray, serving, jobs>>

\* Mutant of Spawn: the descriptor is not passed on to the worker.
SpawnUnlocked(p) ==
    /\ op[p].pc = "spawn"
    /\ mig' = [Off EXCEPT !.pc = "select", !.id = jobs, !.source = op[p].conf.gen]
    /\ op' = [op EXCEPT ![p].pc = "close"]
    /\ UNCHANGED <<fs, disk, shared, excl, look, store, stray, serving, jobs>>

\* The child inherits the descriptor before the parent closes its own.
Spawn(p) ==
    /\ op[p].pc = "spawn"
    /\ mig' = [Off EXCEPT !.pc = "select", !.id = jobs, !.source = op[p].conf.gen]
    /\ excl' = excl \cup {Worker}
    /\ op' = [op EXCEPT ![p].pc = "close"]
    /\ UNCHANGED <<fs, disk, shared, look, store, stray, serving, jobs>>

\* Writing the request, opening the log or starting the process raises: the
\* job is marked failed, even one that was not queued yet.
ConfigureFails(p) ==
    /\ op[p].pc \in {"locked", "spawn"}
    /\ jobs' = IF op[p].pc = "locked" THEN jobs + 1 ELSE jobs
    /\ fs' = [fs EXCEPT !.job = [id |-> jobs', status |-> "failed"]]
    /\ op' = [op EXCEPT ![p].pc = "abort"]
    /\ UNCHANGED <<disk, shared, excl, mig, look, store, stray, serving>>

CloseConfigure(p) ==
    /\ op[p].pc \in {"close", "abort"}
    /\ disk' = IF op[p].pc = "abort" THEN fs ELSE disk
    /\ excl' = excl \ {p}
    /\ op' = [op EXCEPT ![p] = Out]
    /\ UNCHANGED <<fs, shared, mig, look, store, stray, serving, jobs>>

-----------------------------------------------------------------------------
(* run_migration in the detached worker.                                   *)

Select ==
    /\ mig.pc = "select"
    /\ mig' = [mig EXCEPT !.pc = "build", !.sel = serving]
    /\ UNCHANGED <<fs, disk, shared, excl, op, look, store, stray, serving, jobs>>

\* A batch of chunks is embedded as in an operation: a check of the tag, ...
CheckBatch ==
    /\ mig.pc = "build" /\ Held(mig.id) # Held(mig.source) /\ serving = mig.sel
    /\ mig' = [mig EXCEPT !.pc = "checked", !.tag = "still"]
    /\ UNCHANGED <<fs, disk, shared, excl, op, look, store, stray, serving, jobs>>

\* ... the vectors, ...
EmbedBatch ==
    /\ mig.pc = "checked"
    /\ mig' = [mig EXCEPT !.pc = "batch", !.vec = serving]
    /\ UNCHANGED <<fs, disk, shared, excl, op, look, store, stray, serving, jobs>>

\* ... the tag once more; then the batch is written.
WriteBatch(c) ==
    /\ mig.pc = "batch" /\ serving = mig.sel
    /\ c \in Held(mig.source) \ Held(mig.id)
    /\ store' = [store EXCEPT ![mig.id][c] = mig.vec]
    /\ stray' = Strays(mig.id, c, mig.tag)
    /\ mig' = [mig EXCEPT !.pc = "build", !.vec = 0, !.tag = "none"]
    /\ UNCHANGED <<fs, disk, shared, excl, op, look, serving, jobs>>

\* Mutant of Recheck: the chunks of the two stores are not counted.
RecheckUncounted ==
    /\ mig.pc = "build" /\ serving = mig.sel
    /\ mig' = [mig EXCEPT !.pc = "publish"]
    /\ UNCHANGED <<fs, disk, shared, excl, op, look, store, stray, serving, jobs>>

\* All chunks and concepts counted; the model is inspected once more.
Recheck ==
    /\ mig.pc = "build" /\ Held(mig.id) = Held(mig.source)
    /\ serving = mig.sel
    /\ mig' = [mig EXCEPT !.pc = "publish"]
    /\ UNCHANGED <<fs, disk, shared, excl, op, look, store, stray, serving, jobs>>

Publish ==
    /\ mig.pc = "publish"
    /\ fs' = [fs EXCEPT !.active = [gen |-> mig.id, digest |-> mig.sel]]
    /\ mig' = [mig EXCEPT !.pc = "syncActive"]
    /\ UNCHANGED <<disk, shared, excl, op, look, store, stray, serving, jobs>>

\* Mutant of SyncActive: the directory is not synced after the rename.
SyncActiveSkipped ==
    /\ mig.pc = "syncActive"
    /\ mig' = [mig EXCEPT !.pc = "complete"]
    /\ UNCHANGED <<fs, disk, shared, excl, op, look, store, stray, serving, jobs>>

SyncActive ==
    /\ mig.pc = "syncActive"
    /\ disk' = fs
    /\ mig' = [mig EXCEPT !.pc = "complete"]
    /\ UNCHANGED <<fs, shared, excl, op, look, store, stray, serving, jobs>>

\* A failure at any step before the job is written as completed, the second
\* inspection included, leads to the handler.
Throw ==
    /\ mig.pc \in {"select", "build", "checked", "batch", "publish", "complete"}
    /\ mig' = [mig EXCEPT !.pc = "handler", !.vec = 0, !.tag = "none"]
    /\ UNCHANGED <<fs, disk, shared, excl, op, look, store, stray, serving, jobs>>

\* What a job that is over is recorded as: completed if the manifest names it.
Outcome(id) == IF fs.active.gen = id THEN "completed" ELSE "failed"

Complete ==
    /\ mig.pc = "complete"
    /\ fs' = [fs EXCEPT !.job = [id |-> mig.id, status |-> "completed"]]
    /\ mig' = [mig EXCEPT !.pc = "syncJob"]
    /\ UNCHANGED <<disk, shared, excl, op, look, store, stray, serving, jobs>>

Handle ==
    /\ mig.pc = "handler"
    /\ fs' = [fs EXCEPT !.job = [id |-> mig.id, status |-> Outcome(mig.id)]]
    /\ mig' = [mig EXCEPT !.pc = "syncJob"]
    /\ UNCHANGED <<disk, shared, excl, op, look, store, stray, serving, jobs>>

Finish ==
    /\ mig.pc = "syncJob"
    /\ disk' = fs
    /\ mig' = Off /\ excl' = excl \ {Worker}
    /\ UNCHANGED <<fs, shared, op, look, store, stray, serving, jobs>>

-----------------------------------------------------------------------------
(* embedding_status: it never waits; only when the job is pending and the  *)
(* lock is free does it repair the job under the exclusive lock.           *)

LookRead(v) ==
    /\ look[v] = "out" /\ fs.job.status = "pending"
    /\ look' = [look EXCEPT ![v] = "read"]
    /\ UNCHANGED <<fs, disk, shared, excl, op, mig, store, stray, serving, jobs>>

LookLock(v) ==
    /\ look[v] = "read"
    /\ IF shared = {} /\ excl = {}
       THEN excl' = {v} /\ look' = [look EXCEPT ![v] = "locked"]
       ELSE excl' = excl /\ look' = [look EXCEPT ![v] = "out"]
    /\ UNCHANGED <<fs, disk, shared, op, mig, store, stray, serving, jobs>>

\* Read again under the lock: the worker may have finished in between.
LookRepair(v) ==
    /\ look[v] = "locked"
    /\ fs' = IF fs.job.status = "pending"
             THEN [fs EXCEPT !.job.status = Outcome(fs.job.id)] ELSE fs
    /\ look' = [look EXCEPT ![v] = "repaired"]
    /\ UNCHANGED <<disk, shared, excl, op, mig, store, stray, serving, jobs>>

\* Mutant of LookDone: the descriptor stays open.
LookDoneHolding(v) ==
    /\ look[v] = "repaired"
    /\ disk' = fs
    /\ look' = [look EXCEPT ![v] = "out"]
    /\ UNCHANGED <<fs, shared, excl, op, mig, store, stray, serving, jobs>>

LookDone(v) ==
    /\ look[v] = "repaired"
    /\ disk' = fs
    /\ excl' = excl \ {v}
    /\ look' = [look EXCEPT ![v] = "out"]
    /\ UNCHANGED <<fs, shared, op, mig, store, stray, serving, jobs>>

-----------------------------------------------------------------------------
(* The world.  A killed process drops its locks; the kernel has written    *)
(* its renames back before the machine loses power (an assumption), while  *)
(* a power loss may undo any rename whose directory was not yet synced.    *)

\* What a call that pinned a model has seen of the tag once it names model d.
Moved(tag, pinned, d) ==
    IF tag = "still" /\ d # pinned THEN "left"
    ELSE IF tag = "left" /\ d = pinned THEN "back" ELSE tag

RetagTo(d) ==
    /\ serving' = d
    /\ op' = [p \in Proc |-> [op[p] EXCEPT !.tag = Moved(@, op[p].conf.digest, d)]]
    /\ mig' = [mig EXCEPT !.tag = Moved(@, mig.sel, d)]
    /\ UNCHANGED <<fs, disk, shared, excl, look, store, stray, jobs>>

Retag == \E d \in (1 .. MaxDigest) \ {serving} : RetagTo(d)

KillProc(p) ==
    /\ op[p].pc # "out"
    /\ shared' = shared \ {p} /\ excl' = excl \ {p}
    /\ op' = [op EXCEPT ![p] = Out]
    /\ disk' = fs
    /\ UNCHANGED <<fs, mig, look, store, stray, serving, jobs>>

KillWorker ==
    /\ mig.pc # "off"
    /\ excl' = excl \ {Worker} /\ mig' = Off
    /\ disk' = fs
    /\ UNCHANGED <<fs, shared, op, look, store, stray, serving, jobs>>

PowerLoss ==
    /\ \E active \in {fs.active, disk.active}, job \in {fs.job, disk.job} :
          fs' = [active |-> active, job |-> job]
    /\ disk' = fs'
    /\ shared' = {} /\ excl' = {}
    /\ op' = [p \in Proc |-> Out] /\ mig' = Off /\ look' = [v \in Viewer |-> "out"]
    /\ UNCHANGED <<store, stray, serving, jobs>>

Operation(p) ==
    Enter(p) \/ Refresh(p) \/ Check(p) \/ Embed(p) \/ Leave(p) \/ \E c \in Chunk : Store(p, c)

Configuring(p) ==
    QueueJob(p) \/ SyncJob(p) \/ Spawn(p) \/ ConfigureFails(p) \/ CloseConfigure(p)

Migration ==
    \/ Select \/ CheckBatch \/ EmbedBatch \/ \E c \in Chunk : WriteBatch(c)
    \/ Recheck \/ Publish \/ SyncActive \/ Complete
    \/ Throw \/ Handle \/ Finish

Status(v) == LookLock(v) \/ LookRepair(v) \/ LookDone(v)

Next ==
    \/ \E p \in Proc : Operation(p) \/ LockForJob(p) \/ Configuring(p) \/ KillProc(p)
    \/ Migration \/ KillWorker
    \/ \E v \in Viewer : LookRead(v) \/ Status(v)
    \/ Retag \/ PowerLoss

Spec == Init /\ [][Next]_vars

\* A call that has begun, and the worker, go on running unless they are killed.
Fairness ==
    /\ \A p \in Proc : WF_vars(Configuring(p))
    /\ WF_vars(Migration)
    /\ \A v \in Viewer : WF_vars(Status(v))

FairSpec == Spec /\ Fairness

-----------------------------------------------------------------------------
(* Properties.                                                             *)

TypeOK ==
    /\ fs \in Files /\ disk \in Files
    /\ shared \subseteq Proc /\ excl \subseteq Proc \cup Viewer \cup {Worker}
    /\ op \in [Proc -> Call] /\ mig \in Worked
    /\ look \in [Viewer -> {"out", "read", "locked", "repaired"}]
    /\ store \in [Gen -> [Chunk -> Digest \cup {Absent}]]
    /\ stray \subseteq Gen \X Chunk
    /\ serving \in 1 .. MaxDigest /\ jobs \in Gen

\* From its refresh to its end an operation works on the stores the manifest
\* names: no migration becomes visible in the middle of it ("Normal operations
\* hold a shared OS lock for their entire read/write transaction").
OneGeneration ==
    \A p \in Proc : op[p].pc \in {"in", "checked", "embedded"} => op[p].conf = fs.active

\* Whatever order kills, power losses and status calls come in, a job reported
\* completed is the one the manifest names, and a failed one never is.
JobTruth ==
    /\ fs.job.status = "completed" => fs.active.gen = fs.job.id
    /\ fs.job.status = "failed" => fs.active.gen # fs.job.id

\* All vectors in the active stores come from the model the manifest pins,
\* wherever the tag is moved in the middle of calls and migrations, except those
\* of a call in which the tag left that model and came back between the two
\* checks: there the checks see nothing (ollama_embeddings.py 110, 118).
OneVectorSpace ==
    LET active == fs.active
    IN  \A c \in Held(active.gen) :
            <<active.gen, c>> \notin stray => store[active.gen][c] = active.digest

\* Who is changing the manifest, the job or the stores of a generation on its
\* own: a configure call until it hands over, a worker, a repairing status call.
Changing ==
    {p \in Proc : op[p].pc \in {"locked", "queued", "spawn", "abort"}}
    \cup {w \in {Worker} : mig.pc # "off"}
    \cup {v \in Viewer : look[v] \in {"locked", "repaired"}}

\* At most one of these works at a time, none of them beside an operation, and a
\* worker's job is the recorded one, whoever is killed and whoever inherits the
\* lock ("there is no unprotected queued interval").
Exclusive ==
    /\ \A x, y \in Changing : x = y
    /\ Changing # {} =>
          \A p \in Proc : op[p].pc \notin {"entered", "in", "checked", "embedded"}
    /\ mig.pc # "off" => fs.job.id = mig.id

\* The abstract store behind the manifest: a switch, a failed migration, a kill
\* or a power loss never loses or adds a chunk that readers find.
Abstract == INSTANCE ActiveStore
    WITH Generation <- Gen, current <- fs.active.gen, content <- Held(fs.active.gen)

ImplementsActiveStore == Abstract!Spec

\* Operations are refused as busy while the lock is held exclusively; every
\* path of configure, the migration and status, failures included, lets go.
BusyEnds == excl # {} ~> excl = {}
=============================================================================
