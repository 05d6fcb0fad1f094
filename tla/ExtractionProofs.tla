--------------------------- MODULE ExtractionProofs ---------------------------
(***************************************************************************)
(* Proofs about concept extraction, for any chunks, versions, terminals    *)
(* and bounds.                                                             *)
(*                                                                         *)
(* ExtractionWorker: the cache of the worker hides no write.  The          *)
(* invariant that shows it ties the pages a scan has read to the sequence  *)
(* number it began with.                                                   *)
(*                                                                         *)
(* ExtractionRuns: the state is well formed, what the history notes as     *)
(* stored was stored as it is noted, and a rebuild that ends as completed  *)
(* has left nothing pending.  Neither is inductive.  An item is noted      *)
(* after the batch it was in was stored, so the invariant says what a      *)
(* command knows of its run in between (Holds): the batch of `graph        *)
(* extract' is in the versions that were selected, and has been stored by  *)
(* the time it is noted; and that no two commands work on one run (Apart). *)
(* That a completed rebuild is complete rests on what it saw when it       *)
(* looked (Looked), which others can only make less as long as nothing is  *)
(* written, and on a page that is never empty while something is pending   *)
(* (FirstEmpty).                                                           *)
(***************************************************************************)
EXTENDS ExtractionWorker, ExtractionRuns, FiniteSetTheorems, SequenceTheorems, TLAPS

-----------------------------------------------------------------------------
(* The worker.                                                             *)

\* The types of what discovery reads and writes; batches, keys and retries
\* play no part in it.
DiscoveryType ==
    /\ src \in [Chunk -> Source] /\ visible \in [Chunk -> Source]
    /\ seq \in Nat /\ writes \in Nat /\ seq <= writes /\ writes <= MaxWrites
    /\ cache \in [sources : [Chunk -> Source], snapshot : Nat]
    /\ job \in [pc : Points, before : Nat, todo : SUBSET Chunk, got : [Chunk -> Source],
                batch : {job.batch}, key : {job.key}]

\* A snapshot is never ahead of the index, and as long as nothing was written
\* since the first snapshot of a scan, the pages read are those of the index.
ScanInv ==
    /\ cache.snapshot <= seq \/ cache.snapshot = Unsettled
    /\ job.pc \in {"refresh", "scan"} => job.before <= seq
    /\ job.pc = "scan" /\ job.before = seq =>
          visible = src /\ \A c \in Chunk \ job.todo : job.got[c] = src[c]

Inv == DiscoveryType /\ ScanInv /\ NothingHidden

\* The invariant holds when the worker starts: the cache is not settled.
LEMMA InitInv == WorkerInit => Inv
<1> SUFFICES ASSUME WorkerInit PROVE Inv
  OBVIOUS
<1> USE DEF WorkerInit, Idle, Nothing, Source, Unsettled
<1>1. DiscoveryType
  BY WorkerAssumption DEF DiscoveryType, Points
<1>2. ScanInv
  BY DEF ScanInv
<1>3. NothingHidden
  BY WorkerAssumption DEF NothingHidden
<1> QED BY <1>1, <1>2, <1>3 DEF Inv

\* A step that leaves the index alone and the scan, if one is under way, and
\* at most forgets the snapshot.
LEMMA QuietStep ==
    ASSUME Inv, UNCHANGED <<src, visible, seq, writes>>,
           cache' = cache \/ cache' = Invalid
              \/ cache' = [sources |-> Nothing, snapshot |-> Unsettled],
           job' = job \/ (job'.pc \in Points \ {"refresh", "scan"}
                          /\ job' \in [pc : Points, before : Nat, todo : SUBSET Chunk,
                                       got : [Chunk -> Source], batch : {job'.batch},
                                       key : {job'.key}])
    PROVE  Inv'
<1> USE DEF Inv, DiscoveryType, ScanInv, NothingHidden
<1>1. cache' \in [sources : [Chunk -> Source], snapshot : Nat]
      /\ (cache' = cache \/ cache'.snapshot = Unsettled)
  BY WorkerAssumption DEF Invalid, Unsettled, Nothing, Source
<1>2. seq # Unsettled
  BY WorkerAssumption DEF Unsettled
<1>3. DiscoveryType'
  BY <1>1
<1> QED BY <1>1, <1>2, <1>3

\* The steps of discovery keep the invariant: between the two snapshots the
\* pages follow the index, and the cache is settled only if they agree.
LEMMA DiscoveryStep ==
    ASSUME Inv, Poll \/ Refresh \/ ScanPage \/ Settle PROVE Inv'
<1> USE DEF Inv, DiscoveryType, ScanInv, NothingHidden, Points
<1>1. CASE Poll
  <2>1. UNCHANGED <<src, visible, seq, writes, cache>>
    BY <1>1 DEF Poll
  <2>2. CASE job' = [Idle EXCEPT !.pc = "wait"] \/ job' = [Idle EXCEPT !.pc = "select"]
    <3>1. job' \in [pc : Points, before : Nat, todo : SUBSET Chunk, got : [Chunk -> Source],
                    batch : {job'.batch}, key : {job'.key}]
          /\ job'.pc \in {"wait", "select"}
      BY <2>2 DEF Idle, Nothing, Source
    <3> QED BY <2>1, <3>1, QuietStep
  <2>3. CASE job' = [Idle EXCEPT !.pc = "refresh", !.before = seq]
    <3>1. job' \in [pc : Points, before : Nat, todo : SUBSET Chunk, got : [Chunk -> Source],
                    batch : {job'.batch}, key : {job'.key}]
          /\ job'.pc = "refresh" /\ job'.before = seq
      BY <2>3 DEF Idle, Nothing, Source
    <3> QED BY <2>1, <3>1
  <2> QED BY <1>1, <2>2, <2>3 DEF Poll
<1>2. CASE Refresh
  BY <1>2 DEF Refresh
<1>3. CASE ScanPage
  <2> DEFINE c == Lowest(job.todo)
  <2>1. job.pc = "scan" /\ job' = [job EXCEPT !.todo = @ \ {c}, !.got[c] = visible[c]]
        /\ UNCHANGED <<src, visible, seq, writes, cache>>
    BY <1>3 DEF ScanPage
  <2> HIDE DEF c
  <2>2. job'.got \in [Chunk -> Source]
        /\ \A x \in Chunk : job'.got[x] = IF x = c THEN visible[x] ELSE job.got[x]
    BY <2>1
  <2>3. job'.pc = job.pc /\ job'.before = job.before /\ job'.todo = job.todo \ {c}
    BY <2>1
  <2>4. DiscoveryType'
    BY <2>1, <2>2, <2>3
  <2> QED BY <2>1, <2>2, <2>3, <2>4
<1>4. CASE Settle
  <2>1. job.pc = "scan" /\ job.todo = {} /\ job' = [Idle EXCEPT !.pc = "select"]
        /\ UNCHANGED <<src, visible, seq, writes>>
        /\ cache' = [sources |-> job.got,
                     snapshot |-> IF seq = job.before THEN seq ELSE Unsettled]
    BY <1>4 DEF Settle
  <2>2. cache' \in [sources : [Chunk -> Source], snapshot : Nat]
    BY <2>1, WorkerAssumption DEF Unsettled
  <2>3. job'.pc = "select" /\ DiscoveryType'
    BY <2>1, <2>2 DEF Idle, Nothing, Source
  <2>4. seq # Unsettled
    BY WorkerAssumption DEF Unsettled
  <2>5. seq = job.before => job.got = src
    BY <2>1
  <2> QED BY <2>1, <2>3, <2>4, <2>5
<1> QED BY <1>1, <1>2, <1>3, <1>4

\* Selecting, extracting, waiting, failing and starting again.
LEMMA ExtractionStep ==
    ASSUME Inv, \/ Select \/ Fetch \/ Check \/ Infer \/ Store \/ Clear \/ Wake
                \/ DiscoveryFails \/ RequestFails \/ Restart
    PROVE  Inv'
<1> DEFINE Typed(j) == j \in [pc : Points, before : Nat, todo : SUBSET Chunk,
                              got : [Chunk -> Source], batch : {j.batch}, key : {j.key}]
<1>0. job \in [pc : Points, before : Nat, todo : SUBSET Chunk,
               got : [Chunk -> Source], batch : {job.batch}, key : {job.key}]
  BY DEF Inv, DiscoveryType
<1> USE DEF Points
<1>1. CASE Select
  <2>1. UNCHANGED <<src, visible, seq, writes, cache>>
    BY <1>1 DEF Select
  <2>2. job' = [Idle EXCEPT !.pc = "wait"] \/ job' = [Idle EXCEPT !.pc = "next", !.batch = Selected(PendingKeys)]
    BY <1>1 DEF Select
  <2>3. Typed(job') /\ job'.pc \in {"wait", "next"}
    <3>1. CASE job' = [Idle EXCEPT !.pc = "wait"]
      BY <3>1 DEF Idle, Nothing, Source
    <3>2. CASE job' = [Idle EXCEPT !.pc = "next", !.batch = Selected(PendingKeys)]
      BY <3>2 DEF Idle, Nothing, Source
    <3> QED BY <2>2, <3>1, <3>2
  <2> QED BY <2>1, <2>3, QuietStep
<1>2. CASE Fetch
  <2>1. UNCHANGED <<src, visible, seq, writes>> /\ (cache' = cache \/ cache' = Invalid)
    BY <1>2 DEF Fetch
  <2>2. Typed(job') /\ job'.pc \in {"wait", "next", "check"}
    <3> DEFINE k == FirstKey(job.batch)
               rest == [job EXCEPT !.batch = @ \ {k}]
    <3>1. \/ job' = [Idle EXCEPT !.pc = "wait"]
          \/ job' = [rest EXCEPT !.pc = "check", !.key = k]
          \/ job' = [rest EXCEPT !.pc = IF rest.batch = {} THEN "wait" ELSE "next"]
      BY <1>2 DEF Fetch
    <3> HIDE DEF k
    <3>2. CASE job' = [Idle EXCEPT !.pc = "wait"]
      BY <3>2 DEF Idle, Nothing, Source
    <3>3. CASE job' = [rest EXCEPT !.pc = "check", !.key = k]
      BY <1>0, <3>3
    <3>4. CASE job' = [rest EXCEPT !.pc = IF rest.batch = {} THEN "wait" ELSE "next"]
      BY <1>0, <3>4
    <3> QED BY <3>1, <3>2, <3>3, <3>4
  <2> QED BY <2>1, <2>2, QuietStep
<1>3. ASSUME Fails PROVE Inv'
  <2>1. UNCHANGED <<src, visible, seq, writes, cache>>
    BY <1>3 DEF Fails
  <2>2. Typed(job') /\ job'.pc \in {"wait", "next"}
    BY <1>0, <1>3 DEF Fails, Proceed
  <2> QED BY <2>1, <2>2, QuietStep
<1>4. CASE Check
  <2>1. CASE rebuild
    BY <1>3, <1>4, <2>1 DEF Check
  <2>2. CASE ~rebuild
    <3>1. UNCHANGED <<src, visible, seq, writes, cache>> /\ job' = [job EXCEPT !.pc = "infer"]
      BY <1>4, <2>2 DEF Check
    <3>2. Typed(job') /\ job'.pc = "infer"
      BY <1>0, <3>1
    <3> QED BY <3>1, <3>2, QuietStep
  <2> QED BY <2>1, <2>2
<1>5. CASE Infer
  <2>1. CASE Fails
    BY <1>3, <2>1
  <2>2. CASE ~Fails
    <3>1. UNCHANGED <<src, visible, seq, writes>> /\ (cache' = cache \/ cache' = Invalid)
      BY <1>5, <2>2 DEF Infer
    <3>2. job' = Proceed \/ job' = [job EXCEPT !.pc = "store"]
      BY <1>5, <2>2 DEF Infer
    <3>3. Typed(job') /\ job'.pc \in {"wait", "next", "store"}
      BY <1>0, <3>2 DEF Proceed
    <3> QED BY <3>1, <3>3, QuietStep
  <2> QED BY <2>1, <2>2
<1>6. CASE Store
  <2>1. CASE Fails
    BY <1>3, <2>1
  <2>2. CASE ~Fails
    <3>1. UNCHANGED <<src, visible, seq, writes, cache>> /\ job' = [job EXCEPT !.pc = "clear"]
      BY <1>6, <2>2 DEF Store
    <3>2. Typed(job') /\ job'.pc = "clear"
      BY <1>0, <3>1
    <3> QED BY <3>1, <3>2, QuietStep
  <2> QED BY <2>1, <2>2
<1>7. CASE Clear
  <2>1. CASE Fails
    BY <1>3, <2>1
  <2>2. CASE ~Fails
    <3>1. UNCHANGED <<src, visible, seq, writes, cache>> /\ job' = Proceed
      BY <1>7, <2>2 DEF Clear
    <3>2. Typed(job') /\ job'.pc \in {"wait", "next"}
      BY <1>0, <3>1 DEF Proceed
    <3> QED BY <3>1, <3>2, QuietStep
  <2> QED BY <2>1, <2>2
<1>8. CASE Wake \/ DiscoveryFails \/ Restart
  <2>1. UNCHANGED <<src, visible, seq, writes>>
        /\ (cache' = cache \/ cache' = Invalid
              \/ cache' = [sources |-> Nothing, snapshot |-> Unsettled])
    BY <1>8 DEF Wake, DiscoveryFails, Restart
  <2>2. job' = Idle \/ job' = [Idle EXCEPT !.pc = "wait"]
    BY <1>8 DEF Wake, DiscoveryFails, Restart
  <2>3. Typed(job') /\ job'.pc \in {"poll", "wait"}
    BY <2>2 DEF Idle, Nothing, Source
  <2> QED BY <2>1, <2>3, QuietStep
<1>9. CASE RequestFails
  BY <1>3, <1>9 DEF RequestFails
<1> QED BY <1>1, <1>2, <1>4, <1>5, <1>6, <1>7, <1>8, <1>9

\* A write makes every snapshot taken before it an old one.
LEMMA WriteStep ==
    ASSUME Inv, NEW c \in Chunk, NEW v \in Source, Write(c, v) PROVE Inv'
<1>1. /\ seq' = seq + 1 /\ writes' = writes + 1 /\ writes' <= MaxWrites
      /\ src' \in [Chunk -> Source] /\ visible' \in [Chunk -> Source]
      /\ UNCHANGED <<cache, job>>
  BY WorkerAssumption DEF Write, Inv, DiscoveryType
<1>2. seq' <= MaxWrites /\ seq' # Unsettled
  BY <1>1, WorkerAssumption DEF Unsettled, Inv, DiscoveryType
<1>3. job.pc \in {"refresh", "scan"} => job.before # seq'
  BY <1>1 DEF Inv, DiscoveryType, ScanInv
<1>4. cache.snapshot # seq'
  BY <1>1, <1>2 DEF Inv, DiscoveryType, ScanInv, Unsettled
<1>5. DiscoveryType'
  BY <1>1, WorkerAssumption DEF Inv, DiscoveryType
<1>6. ScanInv'
  BY <1>1, <1>3 DEF Inv, DiscoveryType, ScanInv, Unsettled
<1>7. NothingHidden'
  BY <1>1, <1>4 DEF NothingHidden
<1> QED BY <1>5, <1>6, <1>7 DEF Inv

\* Every step keeps the invariant.
LEMMA InvStep == Inv /\ [WorkerNext]_workerVars => Inv'
<1> SUFFICES ASSUME Inv, [WorkerNext]_workerVars PROVE Inv'
  OBVIOUS
<1>1. CASE Worker \/ DiscoveryFails \/ RequestFails \/ Restart
  BY <1>1, DiscoveryStep, ExtractionStep DEF Worker
<1>2. ASSUME NEW c \in Chunk, NEW v \in Source, Write(c, v) PROVE Inv'
  BY <1>2, WriteStep
<1>3. CASE \E c \in Chunk : StoreElsewhere(c)
  <2>1. UNCHANGED <<src, visible, seq, writes, cache, job>>
    BY <1>3 DEF StoreElsewhere
  <2> QED BY <2>1, QuietStep
<1>4. CASE PrepareRebuild
  <2>1. UNCHANGED <<src, visible, seq, cache, job>> /\ writes' = writes + 1 /\ writes' <= MaxWrites
    BY <1>4, WorkerAssumption DEF PrepareRebuild, Inv, DiscoveryType
  <2> QED BY <2>1, WorkerAssumption DEF Inv, DiscoveryType, ScanInv, NothingHidden, Unsettled
<1>5. CASE FinishRebuild \/ Advance \/ UNCHANGED workerVars
  <2>1. UNCHANGED <<src, visible, seq, writes, cache, job>>
    BY <1>5 DEF FinishRebuild, Advance, workerVars
  <2> QED BY <2>1, QuietStep
<1> QED BY <1>1, <1>2, <1>3, <1>4, <1>5 DEF WorkerNext

\* Ticks that skip the scan because the sequence numbers have not changed miss
\* no write (DiscoveryCache.pending), for any index and any number of writes.
THEOREM NoWriteHidden == WorkerSpec => []NothingHidden
<1>1. Inv => NothingHidden
  BY DEF Inv
<1> QED BY <1>1, InitInv, InvStep, PTL DEF WorkerSpec

-----------------------------------------------------------------------------
(* The commands.                                                           *)

\* What is assumed of the constants, in the form the proofs use it in.
LEMMA Assumed ==
    /\ Chunk \subseteq Nat /\ IsFiniteSet(Chunk)
    /\ Poison \subseteq Version /\ None \notin Version
    /\ None \notin RowType /\ None \notin RunType
    /\ BatchSize \in Nat \ {0} /\ Tolerated \in Nat \ {0}
    /\ Retries \in Nat /\ MaxBatches \in Nat /\ MaxRuns \in Nat
    /\ RunWrites \in Nat /\ MaxFaults \in Nat
BY ChunkAssumption, VersionAssumption, FaultsAssumption, RunsAssumption

Status == {"pending", "running", "stored", "failed", "stale"}

\* What a terminal runs.
ProcType ==
    [pc: {"off", "select", "next", "load", "page", "ask", "store", "note"},
     run: Run \cup {0}, todo: SUBSET Chunk, batch: [Chunk -> Version \cup {None}],
     attempt: 0 .. Retries, deferred: SUBSET Chunk, failures: 0 .. (Tolerated - 1),
     batches: Nat, quiet: BOOLEAN]

Typed ==
    /\ src \in [Chunk -> Version \cup {None}] /\ marked \in [Chunk -> Version \cup {None}]
    /\ runs \in [Run -> RunType \cup {None}]
    /\ proc \in [Proc -> ProcType]
    /\ kept \in [Run -> SUBSET (Chunk \X Version)]

Working(p) == proc[p].pc \notin {"off", "select"}

\* A command that works has a run: `graph extract' one with a selection and
\* `rebuild-evidence-local' one that grows.  What is left to do and what is
\* in the batch are items; of `graph extract' in the version that was
\* selected, and stored by the run by the time they are noted.
Holds(p) ==
    /\ ~Working(p) => proc[p].run = 0
    /\ Working(p) => proc[p].run \in Run /\ RunOf(p) \in RunType
    /\ proc[p].pc = "next" => Mode(p) = "incremental"
    /\ proc[p].pc \in {"load", "page"} => Mode(p) = "rebuild"
    /\ Working(p) /\ Mode(p) = "incremental" =>
          /\ \A c \in proc[p].todo : RunOf(p).items[c] \in RowType
          /\ \A c \in Chunks(proc[p].batch) : proc[p].batch[c] = RunOf(p).items[c].version
          /\ proc[p].pc = "note" =>
                \A c \in Chunks(proc[p].batch) : <<c, proc[p].batch[c]>> \in kept[proc[p].run]
    /\ Working(p) => \A c \in Chunks(proc[p].batch) : RunOf(p).items[c] \in RowType

\* No run has two commands.
Apart ==
    \A p \in Proc : Working(p) => \A q \in Proc \ {p} : proc[q].run # proc[p].run

\* An item and what its run stored of its chunk.
Faithful(item, c, stored) ==
    /\ item.status = "stored" => <<c, item.version>> \in stored
    /\ \A k \in stored : k[1] = c => k[2] = item.version

\* The items of a run of `graph extract' and what it stored.
Kept(r) ==
    runs[r] \in RunType /\ runs[r].mode = "incremental" =>
        \A c \in Chunk : runs[r].items[c] \in RowType => Faithful(runs[r].items[c], c, kept[r])

RunsInv == Typed /\ Apart /\ (\A p \in Proc : Holds(p)) /\ (\A r \in Run : Kept(r))

-----------------------------------------------------------------------------

\* The least element of a nonempty set of numbers.
LEMMA Least ==
    ASSUME NEW S \in SUBSET Nat, S # {}
    PROVE  \E m \in S : \A t \in S : m <= t
<1> DEFINE T == {0 .. s : s \in S}
<1>1. T \subseteq FiniteSubsetsOf(Nat) /\ T # {}
  <2>1. \A s \in S : 0 .. s \subseteq Nat /\ IsFiniteSet(0 .. s)
    BY FS_Interval
  <2> QED
    BY <2>1 DEF FiniteSubsetsOf
<1>2. PICK y \in T : \A z \in T : <<z, y>> \notin StrictSubsetOrdering(Nat)
  BY <1>1, FS_StrictSubsetOrderingWellFounded, WFMin
<1>3. PICK m \in S : y = 0 .. m
  BY <1>2
<1>4. ASSUME NEW t \in S, t < m PROVE FALSE
  <2>1. 0 .. t \subseteq 0 .. m /\ m \in 0 .. m /\ m \notin 0 .. t
    BY <1>4
  <2>2. <<0 .. t, 0 .. m>> \in StrictSubsetOrdering(Nat)
    BY <2>1 DEF StrictSubsetOrdering
  <2> QED
    BY <1>2, <1>3, <2>2
<1> QED
  BY <1>4

\* A fresh command and the rows of a selection are well formed.
LEMMA OffType ==
    Off \in ProcType /\ Nothing \in [Chunk -> RowType \cup {None}]
BY Assumed DEF Off, ProcType, Nothing

\* The rows of a selection, in the versions the index has.
LEMMA RowsType ==
    ASSUME Typed, NEW C \in SUBSET Chunk, \A c \in C : src[c] # None
    PROVE  /\ Rows(C) \in [Chunk -> RowType \cup {None}]
           /\ \A c \in C :
                 Rows(C)[c] \in RowType /\ Rows(C)[c].version = src[c] /\ Rows(C)[c].status = "pending"
           /\ \A c \in Chunk \ C : Rows(C)[c] = None
BY DEF Typed, Rows, Row, RowType

\* Chunks that are items of a run.
AreItems(C, r) == C \subseteq Chunk /\ \A c \in C : runs[r].items[c] \in RowType

\* What noting a status for them leaves in the history.
IsNoted(new, r, C, s) ==
    /\ new \in [Run -> RunType \cup {None}]
    /\ \A q \in Run \ {r} : new[q] = runs[q]
    /\ new[r] \in RunType /\ new[r].mode = runs[r].mode
    /\ \A c \in Chunk \ C : new[r].items[c] = runs[r].items[c]
    /\ \A c \in C : /\ new[r].items[c] \in RowType
                    /\ new[r].items[c].version = runs[r].items[c].version
                    /\ new[r].items[c].status = s

\* Noting a status changes the rows of the run and of the chunks only.
LEMMA NotedIs ==
    ASSUME RunsInv, NEW p \in Proc, Working(p), NEW r, r = proc[p].run,
           NEW C, AreItems(C, r), NEW s \in Status
    PROVE  IsNoted(Noted(p, C, s), r, C, s)
<1> USE DEF AreItems
<1> DEFINE items == [c \in Chunk |-> IF c \in C THEN [RunOf(p).items[c] EXCEPT !.status = s]
                                       ELSE RunOf(p).items[c]]
<1>1. r \in Run /\ runs[r] \in RunType /\ RunOf(p) = runs[r]
  BY DEF RunsInv, Holds, RunOf
<1>2. /\ items \in [Chunk -> RowType \cup {None}]
      /\ \A c \in Chunk \ C : items[c] = RunOf(p).items[c]
      /\ \A c \in C : /\ items[c] \in RowType
                      /\ items[c].version = RunOf(p).items[c].version /\ items[c].status = s
  BY <1>1 DEF RunType, RowType, Status
<1>3. Noted(p, C, s) = [runs EXCEPT ![r].items = items]
  BY <1>1 DEF Noted
<1> HIDE DEF items
<1>4. [runs[r] EXCEPT !.items = items] \in RunType
  BY <1>1, <1>2 DEF RunType
<1>5. runs \in [Run -> RunType \cup {None}]
  BY DEF RunsInv, Typed
<1>6. Noted(p, C, s) = [runs EXCEPT ![r] = [runs[r] EXCEPT !.items = items]]
  BY <1>3
<1> QED
  BY <1>1, <1>2, <1>4, <1>5, <1>6 DEF IsNoted, RunType

\* Closing a run changes its status only.
LEMMA ClosedIs ==
    ASSUME RunsInv, NEW p \in Proc, Working(p),
           NEW s \in {"running", "completed", "partial", "failed", "interrupted"}
    PROVE  /\ Finished(p, s) \in [Run -> RunType \cup {None}]
           /\ \A r \in Run \ {proc[p].run} : Finished(p, s)[r] = runs[r]
           /\ Finished(p, s)[proc[p].run] \in RunType
           /\ Finished(p, s)[proc[p].run].mode = Mode(p)
           /\ Finished(p, s)[proc[p].run].items = RunOf(p).items
<1>1. proc[p].run \in Run /\ RunOf(p) \in RunType /\ runs \in [Run -> RunType \cup {None}]
  BY DEF RunsInv, Holds, Typed
<1>2. Finished(p, s) = [runs EXCEPT ![proc[p].run] = [RunOf(p) EXCEPT !.status = s]]
  BY DEF Finished, RunOf
<1>3. [RunOf(p) EXCEPT !.status = s] \in RunType
  BY <1>1 DEF RunType
<1> QED
  BY <1>1, <1>2, <1>3 DEF Mode, RunType

-----------------------------------------------------------------------------
(* A command works on its own run only.                                    *)

\* What a command does to its run does not concern the other commands.
LEMMA OthersKeep ==
    ASSUME RunsInv, NEW p \in Proc, NEW rec \in ProcType, Goes(p, rec), NEW r,
           rec.run \in {0, r}, \A q \in Proc \ {p} : Working(q) => proc[q].run # r,
           rec.run # 0 => \A q \in Proc \ {p} : proc[q].run # r,
           src' \in [Chunk -> Version \cup {None}], marked' \in [Chunk -> Version \cup {None}],
           runs' \in [Run -> RunType \cup {None}], kept' \in [Run -> SUBSET (Chunk \X Version)],
           \A s \in Run \ {r} : runs'[s] = runs[s] /\ kept'[s] = kept[s],
           Holds(p)', r \in Run => Kept(r)'
    PROVE  RunsInv'
<1>1. /\ proc' \in [Proc -> ProcType] /\ proc'[p] = rec
      /\ \A q \in Proc \ {p} : proc'[q] = proc[q]
  BY DEF RunsInv, Typed, Goes
<1>2. Typed'
  BY <1>1 DEF Typed
<1>3. ASSUME NEW q \in Proc PROVE Holds(q)'
  <2>1. CASE q = p
    BY <2>1
  <2>2. CASE q # p
    <3>1. proc'[q] = proc[q] /\ (Working(q)' <=> Working(q)) /\ Holds(q)
      BY <1>1, <2>2 DEF Working, RunsInv
    <3>2. CASE ~Working(q)
      BY <3>1, <3>2 DEF Holds, Working
    <3>3. CASE Working(q)
      <4>1. proc[q].run \in Run \ {r}
        BY <2>2, <3>1, <3>3 DEF Holds
      <4>2. RunOf(q)' = RunOf(q) /\ Mode(q)' = Mode(q) /\ kept'[proc[q].run] = kept[proc[q].run]
        BY <3>1, <4>1 DEF RunOf, Mode
      <4> QED
        BY <3>1, <3>3, <4>2 DEF Holds, Chunks
    <3> QED
      BY <3>2, <3>3
  <2> QED
    BY <2>1, <2>2
<1>4. ASSUME NEW s \in Run PROVE Kept(s)'
  BY <1>4 DEF RunsInv, Kept
<1>5. ASSUME NEW q \in Proc, Working(q)', NEW o \in Proc \ {q}
      PROVE  proc'[o].run # proc'[q].run
  <2>1. Run \subseteq Nat \ {0}
    BY DEF Run
  <2>2. CASE q = p
    <3>1. proc'[q].run \in Run
      BY <1>3, <1>5 DEF Holds
    <3> QED
      BY <1>1, <2>1, <2>2, <3>1
  <2>3. CASE q # p
    <3>1. Working(q) /\ proc'[q] = proc[q] /\ proc[q].run \in Run
      BY <1>1, <1>5, <2>3 DEF Working, RunsInv, Holds
    <3>2. CASE o = p
      BY <1>1, <2>1, <2>3, <3>1, <3>2
    <3>3. CASE o # p
      BY <1>1, <1>5, <3>1, <3>3 DEF RunsInv, Apart
    <3> QED
      BY <3>2, <3>3
  <2> QED
    BY <2>2, <2>3
<1> QED
  BY <1>2, <1>3, <1>4, <1>5 DEF RunsInv, Apart

\* The items of a run stay what they are when their status changes, unless
\* they become "stored" without being so, and when what they name is stored.
LEMMA KeptStep ==
    ASSUME NEW r \in Run, Kept(r), runs[r] \in RunType, runs'[r].mode = runs[r].mode,
           \A c \in Chunk : runs'[r].items[c] \in RowType =>
               /\ runs[r].items[c] \in RowType
               /\ runs'[r].items[c].version = runs[r].items[c].version
               /\ runs'[r].items[c].status = "stored" =>
                     \/ runs[r].items[c].status = "stored"
                     \/ <<c, runs[r].items[c].version>> \in kept'[r],
           kept[r] \subseteq kept'[r],
           runs[r].mode = "incremental" =>
               \A k \in kept'[r] : k \in kept[r] \/ runs[r].items[k[1]].version = k[2]
    PROVE  Kept(r)'
BY DEF Kept, Faithful

\* The end of a command leaves no work behind, only the items of its run.
LEMMA EndKeeps ==
    ASSUME RunsInv, NEW p \in Proc, Ends(p), UNCHANGED <<src, marked, kept>>,
           \/ runs' = runs
           \/ /\ Working(p)
              /\ \E s \in {"running", "completed", "partial", "failed", "interrupted"} :
                    runs' = Finished(p, s)
    PROVE  RunsInv'
<1>1. Off \in ProcType /\ Off.run = 0 /\ Off.pc = "off"
  BY OffType DEF Off
<1>2. Goes(p, Off)
  BY DEF Ends
<1>3. Holds(p)'
  <2>1. proc'[p] = Off
    BY <1>2 DEF Goes, RunsInv, Typed
  <2> QED
    BY <1>1, <2>1 DEF Holds, Working
<1>4. CASE runs' = runs
  <2>1. /\ \A q \in Proc \ {p} : Working(q) => proc[q].run # 0
        /\ 0 \notin Run
    BY DEF RunsInv, Holds, Run
  <2>2. Typed
    BY DEF RunsInv
  <2> QED
    BY <1>1, <1>2, <1>3, <1>4, <2>1, <2>2, OthersKeep DEF Typed
<1>5. ASSUME Working(p), NEW s \in {"running", "completed", "partial", "failed", "interrupted"},
             runs' = Finished(p, s)
      PROVE  RunsInv'
  <2>0. PICK r : r = proc[p].run
    OBVIOUS
  <2>1. r \in Run /\ runs[r] \in RunType /\ Kept(r)
    BY <1>5, <2>0 DEF RunsInv, Holds, RunOf
  <2>2. /\ runs' \in [Run -> RunType \cup {None}]
        /\ \A q \in Run \ {r} : runs'[q] = runs[q]
        /\ runs'[r].mode = runs[r].mode /\ runs'[r].items = runs[r].items
    BY <1>5, <2>0, ClosedIs DEF Mode, RunOf
  <2>3. Kept(r)'
    <3>1. kept' = kept
      OBVIOUS
    <3> QED
      BY <2>1, <2>2, <3>1, KeptStep
  <2>4. \A q \in Proc \ {p} : proc[q].run # r
    BY <1>5, <2>0 DEF RunsInv, Apart
  <2>5. /\ src' \in [Chunk -> Version \cup {None}] /\ marked' \in [Chunk -> Version \cup {None}]
        /\ kept' \in [Run -> SUBSET (Chunk \X Version)]
        /\ \A t \in Run \ {r} : runs'[t] = runs[t] /\ kept'[t] = kept[t]
    BY <2>2 DEF RunsInv, Typed
  <2> QED
    BY <1>1, <1>2, <1>3, <2>2, <2>3, <2>4, <2>5, OthersKeep
<1> QED
  BY <1>4, <1>5

\* A new run has a place that no command works on.
LEMMA NewRunIs ==
    ASSUME Places # {}
    PROVE  NewRun \in Run /\ \A q \in Proc : proc[q].run # NewRun
<1>1. Places \subseteq Run /\ Run \subseteq Nat
  BY DEF Places, Run
<1>2. ASSUME NEW S \in SUBSET Places, S # {}
      PROVE  (CHOOSE r \in S : \A q \in S : r <= q) \in S
  <2>1. \E r \in S : \A q \in S : r <= q
    BY <1>1, <1>2, Least
  <2> QED
    BY <2>1
<1>3. NewRun \in Places
  <2> DEFINE unused == {r \in Places : runs[r] = None}
  <2>1. CASE unused # {}
    <3>1. NewRun = CHOOSE r \in unused : \A q \in unused : r <= q
      BY <2>1 DEF NewRun
    <3>2. unused \in SUBSET Places
      OBVIOUS
    <3> HIDE DEF unused
    <3> QED
      BY <1>2, <2>1, <3>1, <3>2
  <2>2. CASE unused = {}
    <3>1. NewRun = CHOOSE r \in Places : \A q \in Places : r <= q
      BY <2>2 DEF NewRun
    <3> QED
      BY <1>2, <3>1
  <2> QED
    BY <2>1, <2>2
<1> QED
  BY <1>1, <1>3 DEF Places

\* A command that goes on with its run.
LEMMA WorkKeeps ==
    ASSUME RunsInv, NEW p \in Proc, Working(p), NEW r, r = proc[p].run,
           NEW rec \in ProcType, rec.run = r, Goes(p, rec),
           src' \in [Chunk -> Version \cup {None}], marked' \in [Chunk -> Version \cup {None}],
           runs' \in [Run -> RunType \cup {None}], kept' \in [Run -> SUBSET (Chunk \X Version)],
           \A s \in Run \ {r} : runs'[s] = runs[s] /\ kept'[s] = kept[s],
           Holds(p)', Kept(r)'
    PROVE  RunsInv'
<1>1. \A q \in Proc \ {p} : proc[q].run # r
  BY DEF RunsInv, Apart
<1> QED
  BY <1>1, OthersKeep

\* Items that are noted as stored only when they are.
LEMMA KeptNoted ==
    ASSUME RunsInv, NEW p \in Proc, Working(p), NEW r, r = proc[p].run,
           NEW C, AreItems(C, r),
           NEW s \in Status, runs' = Noted(p, C, s),
           kept[r] \subseteq kept'[r],
           s = "stored" /\ Mode(p) = "incremental" =>
               \A c \in C : <<c, RunOf(p).items[c].version>> \in kept'[r],
           Mode(p) = "incremental" =>
               \A k \in kept'[r] : k \in kept[r] \/ RunOf(p).items[k[1]].version = k[2]
    PROVE  Kept(r)'
<1>1. r \in Run /\ runs[r] \in RunType /\ Kept(r) /\ RunOf(p) = runs[r] /\ Mode(p) = runs[r].mode
  BY DEF RunsInv, Holds, RunOf, Mode
<1>2. /\ runs'[r].mode = runs[r].mode
      /\ \A c \in Chunk \ C : runs'[r].items[c] = runs[r].items[c]
      /\ \A c \in C : /\ runs'[r].items[c].version = runs[r].items[c].version
                      /\ runs'[r].items[c].status = s
  <2>1. IsNoted(runs', r, C, s)
    BY NotedIs
  <2> QED
    BY <2>1 DEF IsNoted
<1>3. CASE Mode(p) # "incremental"
  BY <1>1, <1>2, <1>3 DEF Kept
<1>4. CASE Mode(p) = "incremental"
  <2>1. \A c \in Chunk : runs'[r].items[c] \in RowType =>
               /\ runs[r].items[c] \in RowType
               /\ runs'[r].items[c].version = runs[r].items[c].version
               /\ runs'[r].items[c].status = "stored" =>
                     \/ runs[r].items[c].status = "stored"
                     \/ <<c, runs[r].items[c].version>> \in kept'[r]
    BY <1>1, <1>2, <1>4 DEF AreItems
  <2>2. \A k \in kept'[r] : k \in kept[r] \/ runs[r].items[k[1]].version = k[2]
    BY <1>1, <1>4
  <2>3. /\ r \in Run /\ Kept(r) /\ runs[r] \in RunType /\ runs'[r].mode = runs[r].mode
        /\ kept[r] \subseteq kept'[r]
    BY <1>1, <1>2
  <2> QED
    BY <2>1, <2>2, <2>3, KeptStep
<1> QED
  BY <1>3, <1>4

\* After an attempt that failed the items are noted and the command tries
\* again, goes on or ends; what was stored meanwhile is what items name.
LEMMA FailureKeeps ==
    ASSUME RunsInv, NEW p \in Proc, proc[p].pc \in {"ask", "store", "note"},
           NEW r, r = proc[p].run, AfterFailure(p), src' = src,
           marked' \in [Chunk -> Version \cup {None}], kept' \in [Run -> SUBSET (Chunk \X Version)],
           \A s \in Run \ {r} : kept'[s] = kept[s], kept[r] \subseteq kept'[r],
           Mode(p) = "incremental" =>
               \A k \in kept'[r] : k \in kept[r] \/ RunOf(p).items[k[1]].version = k[2]
    PROVE  RunsInv'
<1> DEFINE C == Chunks(proc[p].batch)
           F == Noted(p, C, "failed")
<1>1. /\ Working(p) /\ r \in Run /\ RunOf(p) = runs[r] /\ runs[r] \in RunType /\ Mode(p) = runs[r].mode
      /\ proc[p] \in ProcType /\ proc \in [Proc -> ProcType] /\ Holds(p)
  BY DEF RunsInv, Typed, Working, Holds, RunOf, Mode
<1>2. AreItems(C, r)
  BY <1>1 DEF Holds, Chunks, AreItems
<1>3. /\ F \in [Run -> RunType \cup {None}]
      /\ \A s \in Run \ {r} : F[s] = runs[s]
      /\ F[r] \in RunType /\ F[r].mode = runs[r].mode
      /\ \A c \in Chunk \ C : F[r].items[c] = runs[r].items[c]
      /\ \A c \in C : F[r].items[c] \in RowType /\ F[r].items[c].version = runs[r].items[c].version
  <2> HIDE DEF C
  <2>1. IsNoted(F, r, C, "failed")
    BY <1>1, <1>2, NotedIs DEF Status
  <2> HIDE DEF F
  <2> QED
    BY <2>1 DEF IsNoted
<1>4. ASSUME runs' = F PROVE Kept(r)'
  <2> HIDE DEF C
  <2> QED
    BY <1>1, <1>2, <1>4, KeptNoted DEF Status
<1>5. src' \in [Chunk -> Version \cup {None}]
  BY DEF RunsInv, Typed
<1>6. Nothing \in [Chunk -> Version \cup {None}] /\ Chunks(Nothing) = {}
  BY DEF Nothing, Chunks
<1>7. proc[p].todo \subseteq Chunk /\ C \subseteq Chunk
  BY <1>1 DEF ProcType, Chunks
<1>8. ASSUME NEW rec \in ProcType, rec.run = r, Goes(p, rec), runs' = F,
             rec.pc \in {"ask", "next", "load"},
             rec.pc = "next" => Mode(p) = "incremental",
             rec.pc = "load" => Mode(p) = "rebuild",
             rec.todo = proc[p].todo, rec.batch = proc[p].batch \/ rec.batch = Nothing
      PROVE  RunsInv'
  <2>1. proc'[p] = rec /\ RunOf(p)' = F[r] /\ Mode(p)' = Mode(p)
    BY <1>1, <1>3, <1>8 DEF Goes, RunOf, Mode
  <2>2. Chunks(rec.batch) \subseteq C /\ \A c \in Chunks(rec.batch) : rec.batch[c] = proc[p].batch[c]
    BY <1>6, <1>8
  <2>3. \A c \in C : F[r].items[c] \in RowType
    BY <1>3
  <2>4. Mode(p) = "incremental" => /\ \A c \in proc[p].todo : F[r].items[c] \in RowType
                                   /\ \A c \in C : proc[p].batch[c] = F[r].items[c].version
    <3>1. Mode(p) = "incremental" => /\ \A c \in proc[p].todo : runs[r].items[c] \in RowType
                                     /\ \A c \in C : proc[p].batch[c] = runs[r].items[c].version
      BY <1>1 DEF Holds
    <3> HIDE DEF C, F
    <3> QED
      BY <1>3, <1>7, <3>1
  <2> HIDE DEF C, F
  <2>5. Holds(p)'
    BY <1>1, <1>3, <1>8, <2>1, <2>2, <2>3, <2>4 DEF Holds, Working
  <2> QED
    BY <1>1, <1>3, <1>4, <1>5, <1>8, <2>5, WorkKeeps
<1>9. CASE proc[p].attempt < Retries
  <2>1. PICK rec : /\ rec = [proc[p] EXCEPT !.pc = "ask", !.attempt = @ + 1]
                   /\ Goes(p, rec) /\ runs' = F
    BY <1>9 DEF AfterFailure
  <2>2. rec \in ProcType /\ rec.run = r /\ rec.pc = "ask" /\ rec.todo = proc[p].todo
        /\ rec.batch = proc[p].batch
    <3>1. Retries \in Nat /\ proc[p].attempt \in 0 .. Retries
      BY <1>1, Assumed DEF ProcType
    <3>2. proc[p].attempt + 1 \in 0 .. Retries
      BY <1>9, <3>1
    <3> QED
      BY <1>1, <2>1, <3>2 DEF ProcType
  <2> QED
    BY <1>8, <2>1, <2>2
<1>10. CASE ~(proc[p].attempt < Retries) /\ Mode(p) = "incremental"
  <2>1. PICK rec : /\ rec = [proc[p] EXCEPT !.pc = "next", !.batch = Nothing]
                   /\ Goes(p, rec) /\ runs' = F
    BY <1>10 DEF AfterFailure
  <2>2. rec \in ProcType /\ rec.run = r /\ rec.pc = "next" /\ rec.todo = proc[p].todo
        /\ rec.batch = Nothing
    BY <1>1, <1>6, <2>1 DEF ProcType
  <2> QED
    BY <1>8, <1>10, <2>1, <2>2
<1>11. CASE /\ ~(proc[p].attempt < Retries) /\ Mode(p) # "incremental"
            /\ proc[p].failures + 1 >= Tolerated
  <2>1. runs' = [F EXCEPT ![r].status = "failed"] /\ Goes(p, Off)
    BY <1>11 DEF AfterFailure, Ends
  <2>2. [F[r] EXCEPT !.status = "failed"] \in RunType
        /\ [F[r] EXCEPT !.status = "failed"].mode = runs[r].mode
    BY <1>3 DEF RunType
  <2> HIDE DEF F
  <2>3. /\ runs' \in [Run -> RunType \cup {None}] /\ \A s \in Run \ {r} : runs'[s] = runs[s]
        /\ runs'[r].mode = runs[r].mode
    <3>1. runs' = [F EXCEPT ![r] = [F[r] EXCEPT !.status = "failed"]]
      BY <2>1
    <3> QED
      BY <1>1, <1>3, <2>2, <3>1
  <2>4. Kept(r)'
    BY <1>1, <1>11, <2>3 DEF Kept
  <2>5. Off \in ProcType /\ Off.run = 0 /\ Off.pc = "off"
    BY OffType DEF Off
  <2>6. Holds(p)'
    <3>1. proc'[p] = Off
      BY <1>1, <2>1 DEF Goes
    <3> QED
      BY <2>5, <3>1 DEF Holds, Working
  <2>7. \A q \in Proc \ {p} : proc[q].run # r
    BY <1>1 DEF RunsInv, Apart
  <2> QED
    BY <1>5, <2>1, <2>3, <2>4, <2>5, <2>6, <2>7, OthersKeep
<1>12. CASE /\ ~(proc[p].attempt < Retries) /\ Mode(p) # "incremental"
            /\ ~(proc[p].failures + 1 >= Tolerated)
  <2>1. PICK rec : /\ rec = [proc[p] EXCEPT !.pc = "load", !.batch = Nothing,
                               !.deferred = @ \cup C, !.failures = proc[p].failures + 1]
                   /\ Goes(p, rec) /\ runs' = F
    BY <1>12 DEF AfterFailure
  <2>2. proc[p].failures + 1 \in 0 .. (Tolerated - 1)
    BY <1>1, <1>12, Assumed DEF ProcType
  <2> HIDE DEF C
  <2>3. rec \in ProcType /\ rec.run = r /\ rec.pc = "load" /\ rec.todo = proc[p].todo
        /\ rec.batch = Nothing
    BY <1>1, <1>6, <1>7, <2>1, <2>2 DEF ProcType
  <2>4. Mode(p) = "rebuild"
    BY <1>1, <1>12 DEF RunType
  <2> QED
    BY <1>8, <2>1, <2>3, <2>4
<1> QED
  BY <1>9, <1>10, <1>11, <1>12

\* The start of `graph extract' asks the model server only.
LEMMA StartExtractKeeps ==
    ASSUME RunsInv, NEW p \in Proc, StartExtract(p)
    PROVE  RunsInv'
<1>1. PICK rec : rec = [Off EXCEPT !.pc = "select"]
  OBVIOUS
<1>2. /\ rec \in ProcType /\ rec.run = 0 /\ rec.pc = "select"
      /\ Goes(p, rec) /\ UNCHANGED <<src, marked, runs, kept>>
  <2>1. Off \in ProcType /\ Off.run = 0
    BY OffType DEF Off
  <2> QED
    BY <1>1, <2>1 DEF ProcType, StartExtract
<1>3. Typed /\ \A q \in Proc \ {p} : Working(q) => proc[q].run # 0
  BY DEF RunsInv, Holds, Run
<1>4. Holds(p)'
  <2>1. proc'[p] = rec
    BY <1>2, <1>3 DEF Goes, Typed
  <2> QED
    BY <1>2, <2>1 DEF Holds, Working
<1>5. 0 \notin Run
  BY DEF Run
<1> QED
  BY <1>2, <1>3, <1>4, <1>5, OthersKeep DEF Typed

\* A new run begins with its selection; a rebuild with none.
LEMMA NewRunKeeps ==
    ASSUME RunsInv, NEW p \in Proc, NEW r, r = NewRun, Places # {},
           NEW mode \in {"incremental", "rebuild"}, NEW items \in [Chunk -> RowType \cup {None}],
           \A c \in Chunk : items[c] \in RowType => items[c].status = "pending",
           NEW rec \in ProcType, rec.run = r, rec.batch = Nothing, Goes(p, rec),
           rec.pc = IF mode = "incremental" THEN "next" ELSE "load",
           \A c \in rec.todo : items[c] \in RowType,
           runs' = [runs EXCEPT ![r] = Started(mode, items)], kept' = [kept EXCEPT ![r] = {}],
           UNCHANGED <<src, marked>>
    PROVE  RunsInv'
<1>1. r \in Run /\ \A q \in Proc : proc[q].run # r
  BY NewRunIs
<1>2. Typed
  BY DEF RunsInv
<1>3. /\ Started(mode, items) \in RunType /\ Started(mode, items).mode = mode
      /\ Started(mode, items).items = items
  BY DEF Started, RunType
<1>4. /\ runs' \in [Run -> RunType \cup {None}] /\ runs'[r] = Started(mode, items)
      /\ kept' \in [Run -> SUBSET (Chunk \X Version)] /\ kept'[r] = {}
      /\ \A s \in Run \ {r} : runs'[s] = runs[s] /\ kept'[s] = kept[s]
      /\ src' \in [Chunk -> Version \cup {None}] /\ marked' \in [Chunk -> Version \cup {None}]
  BY <1>1, <1>2, <1>3 DEF Typed
<1>5. Kept(r)'
  BY <1>3, <1>4 DEF Kept, Faithful
<1>6. Holds(p)'
  <2>1. proc'[p] = rec /\ RunOf(p)' = Started(mode, items) /\ Mode(p)' = mode
    BY <1>2, <1>3, <1>4 DEF Goes, Typed, RunOf, Mode
  <2>2. Chunks(rec.batch) = {}
    BY DEF Chunks, Nothing
  <2> QED
    BY <1>1, <1>3, <2>1, <2>2 DEF Holds, Working
<1> QED
  BY <1>1, <1>4, <1>5, <1>6, OthersKeep

\* The selection is what is pending.
LEMMA SelectKeeps ==
    ASSUME RunsInv, NEW p \in Proc, SelectItems(p)
    PROVE  RunsInv'
<1>1. PICK r : r = NewRun
  OBVIOUS
<1>2. PICK rec : rec = [Off EXCEPT !.pc = "next", !.run = r, !.todo = Pending]
  OBVIOUS
<1>3. /\ Places # {} /\ runs' = [runs EXCEPT ![r] = Started("incremental", Rows(Pending))]
      /\ kept' = [kept EXCEPT ![r] = {}] /\ Goes(p, rec) /\ UNCHANGED <<src, marked>>
  BY <1>1, <1>2 DEF SelectItems
<1>4. Pending \in SUBSET Chunk /\ \A c \in Pending : src[c] # None
  BY DEF Pending
<1>5. /\ Rows(Pending) \in [Chunk -> RowType \cup {None}]
      /\ \A c \in Pending : Rows(Pending)[c] \in RowType /\ Rows(Pending)[c].status = "pending"
      /\ \A c \in Chunk \ Pending : Rows(Pending)[c] = None
  BY <1>4, RowsType DEF RunsInv
<1>6. \A c \in Chunk : Rows(Pending)[c] \in RowType => Rows(Pending)[c].status = "pending"
  BY <1>5, Assumed
<1>7. /\ rec \in ProcType /\ rec.run = r /\ rec.batch = Nothing /\ rec.pc = "next" /\ rec.todo = Pending
  <2>1. Off \in ProcType /\ Off.batch = Nothing /\ r \in Run
    BY <1>1, <1>3, OffType, NewRunIs DEF Off
  <2> QED
    BY <1>2, <1>4, <2>1 DEF ProcType
<1> QED
  BY <1>1, <1>3, <1>5, <1>6, <1>7, NewRunKeeps

\* A rebuild begins without items.
LEMMA StartRebuildKeeps ==
    ASSUME RunsInv, NEW p \in Proc, StartRebuild(p)
    PROVE  RunsInv'
<1>1. PICK r : r = NewRun
  OBVIOUS
<1>2. PICK rec : rec = [Off EXCEPT !.pc = "load", !.run = r]
  OBVIOUS
<1>3. /\ Places # {} /\ runs' = [runs EXCEPT ![r] = Started("rebuild", Nothing)]
      /\ kept' = [kept EXCEPT ![r] = {}] /\ Goes(p, rec) /\ UNCHANGED <<src, marked>>
  BY <1>1, <1>2 DEF StartRebuild
<1>4. Nothing \in [Chunk -> RowType \cup {None}] /\ \A c \in Chunk : Nothing[c] \notin RowType
  BY OffType, Assumed DEF Nothing
<1>5. /\ rec \in ProcType /\ rec.run = r /\ rec.batch = Nothing /\ rec.pc = "load" /\ rec.todo = {}
  <2>1. Off \in ProcType /\ Off.batch = Nothing /\ Off.todo = {} /\ r \in Run
    BY <1>1, <1>3, OffType, NewRunIs DEF Off
  <2> QED
    BY <1>2, <2>1 DEF ProcType
<1> QED
  BY <1>1, <1>3, <1>4, <1>5, NewRunKeeps

\* A run that is resumed has what is not stored to do.
LEMMA ResumeKeeps ==
    ASSUME RunsInv, NEW p \in Proc, NEW r \in Run, Resume(p, r)
    PROVE  RunsInv'
<1> DEFINE todo == {c \in Chunk : runs[r].items[c] # None /\ runs[r].items[c].status # "stored"}
<1>1. PICK rec : rec = [Off EXCEPT !.pc = "next", !.run = r, !.todo = todo]
  OBVIOUS
<1>2. /\ runs[r] # None /\ runs[r].mode = "incremental" /\ \A q \in Proc : proc[q].run # r
      /\ runs' = [runs EXCEPT ![r].status = "running"] /\ Goes(p, rec)
      /\ UNCHANGED <<src, marked, kept>>
  BY <1>1 DEF Resume
<1>3. Typed /\ runs[r] \in RunType /\ Kept(r)
  BY <1>2 DEF RunsInv, Typed
<1>4. /\ [runs[r] EXCEPT !.status = "running"] \in RunType
      /\ [runs[r] EXCEPT !.status = "running"].mode = "incremental"
      /\ [runs[r] EXCEPT !.status = "running"].items = runs[r].items
  BY <1>2, <1>3 DEF RunType
<1>5. /\ runs' \in [Run -> RunType \cup {None}] /\ runs'[r] \in RunType
      /\ runs'[r].mode = "incremental" /\ runs'[r].items = runs[r].items
      /\ \A s \in Run \ {r} : runs'[s] = runs[s] /\ kept'[s] = kept[s]
  <2>1. runs' = [runs EXCEPT ![r] = [runs[r] EXCEPT !.status = "running"]]
    BY <1>2
  <2> QED
    BY <1>2, <1>3, <1>4, <2>1 DEF Typed
<1>6. Kept(r)'
  BY <1>2, <1>3, <1>5 DEF Kept
<1>7. todo \subseteq Chunk /\ \A c \in todo : runs[r].items[c] \in RowType
  BY <1>3 DEF RunType
<1> HIDE DEF todo
<1>8. rec \in ProcType /\ rec.run = r /\ rec.pc = "next" /\ rec.todo = todo /\ Chunks(rec.batch) = {}
  <2>1. Off \in ProcType /\ Off.batch = Nothing
    BY OffType DEF Off
  <2>2. rec.batch = Nothing
    BY <1>1, <2>1 DEF ProcType
  <2> QED
    BY <1>1, <1>7, <2>1, <2>2 DEF ProcType, Chunks, Nothing
<1>9. Holds(p)'
  <2>1. proc'[p] = rec /\ RunOf(p)' = runs'[r] /\ Mode(p)' = "incremental"
    BY <1>2, <1>3, <1>5, <1>8 DEF Goes, Typed, RunOf, Mode
  <2> QED
    BY <1>5, <1>7, <1>8, <2>1 DEF Holds, Working
<1>10. /\ src' \in [Chunk -> Version \cup {None}] /\ marked' \in [Chunk -> Version \cup {None}]
       /\ kept' \in [Run -> SUBSET (Chunk \X Version)]
  BY <1>2, <1>3 DEF Typed
<1> QED
  BY <1>2, <1>5, <1>6, <1>8, <1>9, <1>10, OthersKeep

\* Writes, resets and finalizations touch no run.
LEMMA WritesKeep ==
    ASSUME RunsInv, UNCHANGED <<runs, kept>>,
           proc' = proc \/ proc' = [p \in Proc |-> [proc[p] EXCEPT !.quiet = FALSE]],
           src' \in [Chunk -> Version \cup {None}], marked' \in [Chunk -> Version \cup {None}]
    PROVE  RunsInv'
<1>1. /\ proc' \in [Proc -> ProcType]
      /\ \A p \in Proc : /\ proc'[p].pc = proc[p].pc /\ proc'[p].run = proc[p].run
                         /\ proc'[p].todo = proc[p].todo /\ proc'[p].batch = proc[p].batch
  <2>1. proc \in [Proc -> ProcType]
    BY DEF RunsInv, Typed
  <2>2. CASE proc' = proc
    BY <2>1, <2>2
  <2>3. CASE proc' = [p \in Proc |-> [proc[p] EXCEPT !.quiet = FALSE]]
    <3>1. ASSUME NEW p \in Proc
          PROVE  /\ proc'[p] \in ProcType
                 /\ proc'[p].pc = proc[p].pc /\ proc'[p].run = proc[p].run
                 /\ proc'[p].todo = proc[p].todo /\ proc'[p].batch = proc[p].batch
      <4>1. proc[p] \in ProcType /\ proc'[p] = [proc[p] EXCEPT !.quiet = FALSE]
        BY <2>1, <2>3
      <4> QED
        BY <4>1 DEF ProcType
    <3> QED
      BY <2>3, <3>1
  <2> QED
    BY <2>2, <2>3
<1>2. Typed'
  BY <1>1 DEF RunsInv, Typed
<1>3. ASSUME NEW p \in Proc PROVE Holds(p)'
  <2>1. Holds(p) /\ RunOf(p)' = RunOf(p) /\ Mode(p)' = Mode(p) /\ (Working(p)' <=> Working(p))
    BY <1>1 DEF RunsInv, RunOf, Mode, Working
  <2> QED
    BY <1>1, <2>1 DEF Holds
<1>4. Apart'
  BY <1>1 DEF RunsInv, Apart, Working
<1>5. ASSUME NEW r \in Run PROVE Kept(r)'
  BY DEF RunsInv, Kept
<1> QED
  BY <1>2, <1>3, <1>4, <1>5 DEF RunsInv

\* Some of a set.
LEMMA FirstIn == ASSUME NEW S, NEW n PROVE FirstOf(S, n) \subseteq S
BY DEF FirstOf

\* A batch is what is still as it was selected.
LEMMA ReadBatchKeeps ==
    ASSUME RunsInv, NEW p \in Proc, ReadBatch(p)
    PROVE  RunsInv'
<1> DEFINE C == FirstOf(proc[p].todo, BatchSize)
           ok == Unchanged(p, C)
           batch == [c \in Chunk |-> IF c \in ok THEN src[c] ELSE None]
<1>1. PICK rec : rec = [proc[p] EXCEPT !.todo = @ \ C, !.attempt = 0,
                          !.pc = IF ok = {} THEN "next" ELSE "ask", !.batch = batch]
  OBVIOUS
<1>2. PICK r : r = proc[p].run
  OBVIOUS
<1>3. /\ Working(p) /\ r \in Run /\ RunOf(p) = runs[r] /\ runs[r] \in RunType
      /\ Mode(p) = "incremental" /\ proc[p] \in ProcType /\ Typed
      /\ \A c \in proc[p].todo : runs[r].items[c] \in RowType
  BY <1>2 DEF ReadBatch, At, RunsInv, Typed, Working, Holds, RunOf
<1>4. runs' = Noted(p, C \ ok, "stale") /\ Goes(p, rec) /\ UNCHANGED <<src, marked, kept>>
  BY <1>1 DEF ReadBatch
<1>5. /\ C \subseteq proc[p].todo /\ proc[p].todo \subseteq Chunk
      /\ ok \subseteq C /\ \A c \in ok : src[c] # None /\ src[c] = runs[r].items[c].version
  BY <1>3, FirstIn DEF ProcType, Unchanged
<1>6. batch \in [Chunk -> Version \cup {None}] /\ Chunks(batch) = ok
      /\ \A c \in ok : batch[c] = src[c]
  BY <1>3, <1>5 DEF Typed, Chunks
<1> HIDE DEF C, ok, batch
<1>7. AreItems(C \ ok, r)
  BY <1>3, <1>5 DEF AreItems
<1>8. /\ runs' \in [Run -> RunType \cup {None}]
      /\ \A s \in Run \ {r} : runs'[s] = runs[s]
      /\ runs'[r] \in RunType /\ runs'[r].mode = "incremental"
      /\ \A c \in Chunk \ (C \ ok) : runs'[r].items[c] = runs[r].items[c]
      /\ \A c \in C \ ok : /\ runs'[r].items[c] \in RowType
                           /\ runs'[r].items[c].version = runs[r].items[c].version
  <2>1. IsNoted(runs', r, C \ ok, "stale")
    BY <1>2, <1>3, <1>4, <1>7, NotedIs DEF Status
  <2> QED
    BY <1>3, <2>1 DEF IsNoted, Mode
<1>9. Kept(r)'
  BY <1>2, <1>3, <1>4, <1>7, KeptNoted DEF Status
<1>10. /\ rec \in ProcType /\ rec.run = r /\ rec.pc \in {"next", "ask"}
       /\ rec.todo = proc[p].todo \ C /\ rec.batch = batch
  <2>1. 0 \in 0 .. Retries
    BY Assumed
  <2> QED
    BY <1>1, <1>2, <1>3, <1>6, <2>1 DEF ProcType
<1>11. Holds(p)'
  <2>1. proc'[p] = rec /\ RunOf(p)' = runs'[r] /\ Mode(p)' = "incremental"
    BY <1>3, <1>4, <1>8, <1>10 DEF Goes, Typed, RunOf, Mode
  <2>2. \A c \in ok : /\ runs'[r].items[c] \in RowType /\ batch[c] = runs'[r].items[c].version
    BY <1>3, <1>5, <1>6, <1>8
  <2>3. \A c \in proc[p].todo \ C : runs'[r].items[c] \in RowType
    BY <1>3, <1>5, <1>8
  <2> QED
    BY <1>3, <1>6, <1>8, <1>10, <2>1, <2>2, <2>3 DEF Holds, Working
<1>12. /\ src' \in [Chunk -> Version \cup {None}] /\ marked' \in [Chunk -> Version \cup {None}]
       /\ kept' \in [Run -> SUBSET (Chunk \X Version)] /\ kept' = kept
  BY <1>3, <1>4 DEF Typed
<1> QED
  BY <1>2, <1>3, <1>4, <1>8, <1>9, <1>10, <1>11, <1>12, WorkKeeps

\* A page is only looked at.
LEMMA LoadPageKeeps ==
    ASSUME RunsInv, NEW p \in Proc, LoadPage(p)
    PROVE  RunsInv'
<1>1. PICK rec : rec = [proc[p] EXCEPT !.pc = "page", !.todo = Page(p), !.quiet = TRUE]
  OBVIOUS
<1>2. PICK r : r = proc[p].run
  OBVIOUS
<1>3. /\ Working(p) /\ r \in Run /\ RunOf(p) = runs[r] /\ runs[r] \in RunType
      /\ Mode(p) = "rebuild" /\ proc[p] \in ProcType /\ Typed /\ Kept(r) /\ Holds(p)
  BY <1>2 DEF LoadPage, At, RunsInv, Typed, Working, Holds, RunOf
<1>4. Goes(p, rec) /\ UNCHANGED <<src, marked, runs, kept>>
  BY <1>1 DEF LoadPage
<1>5. Page(p) \subseteq Chunk
  BY FirstIn DEF Page, Pending
<1>6. rec \in ProcType /\ rec.run = r /\ rec.pc = "page" /\ rec.batch = proc[p].batch
  BY <1>1, <1>2, <1>3, <1>5 DEF ProcType
<1>7. Holds(p)'
  <2>1. proc'[p] = rec /\ RunOf(p)' = runs[r] /\ Mode(p)' = "rebuild"
    BY <1>3, <1>4, <1>6 DEF Goes, Typed, RunOf, Mode
  <2> QED
    BY <1>3, <1>6, <2>1 DEF Holds, Working
<1>8. Kept(r)'
  BY <1>3, <1>4 DEF Kept
<1> QED
  BY <1>2, <1>3, <1>4, <1>6, <1>7, <1>8, WorkKeeps DEF Typed

\* The chunks of a batch of a rebuild get rows unless they have one.
LEMMA ReadPageKeeps ==
    ASSUME RunsInv, NEW p \in Proc, ReadPage(p)
    PROVE  RunsInv'
<1> DEFINE B == Batch(p)
           batch == [c \in Chunk |-> IF c \in B THEN src[c] ELSE None]
           items == [c \in Chunk |-> IF runs[proc[p].run].items[c] = None THEN Rows(B)[c]
                                     ELSE runs[proc[p].run].items[c]]
<1>1. PICK rec : rec = [proc[p] EXCEPT !.pc = "ask", !.todo = {}, !.attempt = 0, !.batch = batch]
  OBVIOUS
<1>2. PICK r : r = proc[p].run
  OBVIOUS
<1>3. /\ Working(p) /\ r \in Run /\ RunOf(p) = runs[r] /\ runs[r] \in RunType
      /\ Mode(p) = "rebuild" /\ proc[p] \in ProcType /\ Typed
  BY <1>2 DEF ReadPage, At, RunsInv, Typed, Working, Holds, RunOf
<1>4. runs' = [runs EXCEPT ![r].items = items] /\ Goes(p, rec) /\ UNCHANGED <<src, marked, kept>>
  BY <1>1, <1>2, <1>3 DEF ReadPage, Typed
<1>5. B \in SUBSET Chunk /\ \A c \in B : src[c] # None
  <2>1. B \subseteq {c \in proc[p].todo : src[c] # None}
    BY FirstIn DEF Batch
  <2> QED
    BY <1>3, <2>1 DEF ProcType
<1> HIDE DEF B
<1>6. /\ Rows(B) \in [Chunk -> RowType \cup {None}] /\ \A c \in B : Rows(B)[c] \in RowType
      /\ batch \in [Chunk -> Version \cup {None}] /\ Chunks(batch) = B
  BY <1>3, <1>5, RowsType DEF Typed, Chunks
<1>7. items \in [Chunk -> RowType \cup {None}] /\ \A c \in B : items[c] \in RowType
  BY <1>2, <1>3, <1>5, <1>6 DEF RunType
<1> HIDE DEF batch, items
<1>8. [runs[r] EXCEPT !.items = items] \in RunType /\ [runs[r] EXCEPT !.items = items].mode = "rebuild"
      /\ [runs[r] EXCEPT !.items = items].items = items
  BY <1>3, <1>7 DEF RunType, Mode
<1>9. /\ runs' \in [Run -> RunType \cup {None}] /\ \A s \in Run \ {r} : runs'[s] = runs[s]
      /\ runs'[r] \in RunType /\ runs'[r].mode = "rebuild" /\ runs'[r].items = items
  <2>1. runs' = [runs EXCEPT ![r] = [runs[r] EXCEPT !.items = items]]
    BY <1>4
  <2> QED
    BY <1>3, <1>8, <2>1 DEF Typed
<1>10. Kept(r)'
  BY <1>9 DEF Kept
<1>11. rec \in ProcType /\ rec.run = r /\ rec.pc = "ask" /\ rec.batch = batch
  <2>1. 0 \in 0 .. Retries
    BY Assumed
  <2> QED
    BY <1>1, <1>2, <1>3, <1>6, <2>1 DEF ProcType
<1>12. Holds(p)'
  <2>1. proc'[p] = rec /\ RunOf(p)' = runs'[r] /\ Mode(p)' = "rebuild"
    BY <1>3, <1>4, <1>9, <1>11 DEF Goes, Typed, RunOf, Mode
  <2> QED
    BY <1>3, <1>6, <1>7, <1>9, <1>11, <2>1 DEF Holds, Working
<1>13. /\ src' \in [Chunk -> Version \cup {None}] /\ marked' \in [Chunk -> Version \cup {None}]
       /\ kept' \in [Run -> SUBSET (Chunk \X Version)] /\ kept' = kept
  BY <1>3, <1>4 DEF Typed
<1> QED
  BY <1>2, <1>3, <1>4, <1>9, <1>10, <1>11, <1>12, <1>13, WorkKeeps

\* A batch is noted and the command goes on with it or with the next one.
LEMMA NoteKeeps ==
    ASSUME RunsInv, NEW p \in Proc, proc[p].pc \in {"ask", "store", "note"},
           NEW s \in Status, runs' = Noted(p, Chunks(proc[p].batch), s),
           NEW rec \in ProcType, rec.run = proc[p].run, Goes(p, rec), rec.todo = proc[p].todo,
           \/ s = "running" /\ rec.pc = "store" /\ rec.batch = proc[p].batch
           \/ /\ s = "stored" /\ proc[p].pc = "note" /\ rec.batch = Nothing
              /\ rec.pc = IF Mode(p) = "incremental" THEN "next" ELSE "load",
           UNCHANGED <<src, marked, kept>>
    PROVE  RunsInv'
<1>1. PICK r : r = proc[p].run
  OBVIOUS
<1>2. PICK C : C = Chunks(proc[p].batch)
  OBVIOUS
<1>3. /\ Working(p) /\ r \in Run /\ RunOf(p) = runs[r] /\ runs[r] \in RunType /\ Mode(p) = runs[r].mode
      /\ proc[p] \in ProcType /\ Typed /\ Holds(p)
  BY <1>1 DEF RunsInv, Typed, Working, Holds, RunOf, Mode
<1>4. AreItems(C, r)
  BY <1>2, <1>3 DEF Holds, Chunks, AreItems
<1>5. /\ runs' \in [Run -> RunType \cup {None}]
      /\ \A t \in Run \ {r} : runs'[t] = runs[t]
      /\ runs'[r] \in RunType /\ runs'[r].mode = runs[r].mode
      /\ \A c \in Chunk \ C : runs'[r].items[c] = runs[r].items[c]
      /\ \A c \in C : runs'[r].items[c] \in RowType /\ runs'[r].items[c].version = runs[r].items[c].version
  <2>1. IsNoted(runs', r, C, s)
    BY <1>1, <1>2, <1>3, <1>4, NotedIs
  <2> QED
    BY <2>1 DEF IsNoted
<1>6. s = "stored" /\ Mode(p) = "incremental" => \A c \in C : <<c, RunOf(p).items[c].version>> \in kept'[r]
  BY <1>1, <1>2, <1>3 DEF Holds
<1>7. Kept(r)'
  <2>1. kept' = kept
    OBVIOUS
  <2> QED
    BY <1>1, <1>2, <1>3, <1>4, <1>6, <2>1, KeptNoted
<1>8. /\ proc[p].todo \subseteq Chunk /\ C \subseteq Chunk /\ Chunks(Nothing) = {}
  BY <1>2, <1>3 DEF ProcType, Chunks, Nothing
<1>9. Holds(p)'
  <2>1. proc'[p] = rec /\ RunOf(p)' = runs'[r] /\ Mode(p)' = Mode(p)
    BY <1>1, <1>3, <1>5 DEF Goes, Typed, RunOf, Mode
  <2>2. Chunks(rec.batch) \subseteq C /\ \A c \in Chunks(rec.batch) : rec.batch[c] = proc[p].batch[c]
    BY <1>2, <1>8
  <2>3. Mode(p) = "incremental" => /\ \A c \in proc[p].todo : runs'[r].items[c] \in RowType
                                   /\ \A c \in C : proc[p].batch[c] = runs'[r].items[c].version
    <3>1. Mode(p) = "incremental" => /\ \A c \in proc[p].todo : runs[r].items[c] \in RowType
                                     /\ \A c \in C : proc[p].batch[c] = runs[r].items[c].version
      BY <1>2, <1>3 DEF Holds
    <3> QED
      BY <1>5, <1>8, <3>1
  <2>4. rec.pc \in {"store", "next", "load"} /\ (rec.pc = "next" => Mode(p) = "incremental")
        /\ (rec.pc = "load" => Mode(p) = "rebuild")
    BY <1>3 DEF RunType
  <2> QED
    BY <1>1, <1>3, <1>5, <2>1, <2>2, <2>3, <2>4 DEF Holds, Working
<1>10. /\ src' \in [Chunk -> Version \cup {None}] /\ marked' \in [Chunk -> Version \cup {None}]
       /\ kept' \in [Run -> SUBSET (Chunk \X Version)] /\ kept' = kept
  BY <1>3 DEF Typed
<1> QED
  BY <1>1, <1>3, <1>5, <1>7, <1>9, <1>10, WorkKeeps

\* A failed attempt that stored nothing.
LEMMA AttemptFails ==
    ASSUME RunsInv, NEW p \in Proc, proc[p].pc \in {"ask", "store", "note"},
           AfterFailure(p), UNCHANGED <<src, marked, kept>>
    PROVE  RunsInv'
<1>1. PICK r : r = proc[p].run
  OBVIOUS
<1>2. /\ marked' \in [Chunk -> Version \cup {None}] /\ kept' \in [Run -> SUBSET (Chunk \X Version)]
      /\ src' = src /\ kept' = kept
  BY DEF RunsInv, Typed
<1> QED
  BY <1>1, <1>2, FailureKeeps

\* What the model answers is not stored yet.
LEMMA AskKeeps ==
    ASSUME RunsInv, NEW p \in Proc, Ask(p)
    PROVE  RunsInv'
<1>1. proc[p].pc = "ask" /\ UNCHANGED <<src, marked, kept>>
  BY DEF Ask, At
<1>2. CASE AfterFailure(p)
  BY <1>1, <1>2, AttemptFails
<1>3. CASE /\ runs' = Noted(p, Chunks(proc[p].batch), "running")
           /\ Goes(p, [proc[p] EXCEPT !.pc = "store"])
  <2>1. PICK rec : rec = [proc[p] EXCEPT !.pc = "store"]
    OBVIOUS
  <2>2. /\ rec \in ProcType /\ rec.run = proc[p].run /\ rec.todo = proc[p].todo
        /\ rec.batch = proc[p].batch /\ rec.pc = "store"
    <3>1. proc[p] \in ProcType
      BY DEF RunsInv, Typed
    <3> QED
      BY <2>1, <3>1 DEF ProcType
  <2> QED
    BY <1>1, <1>3, <2>1, <2>2, NoteKeeps DEF Status
<1> QED
  BY <1>2, <1>3 DEF Ask

\* What is stored is current, and of `graph extract' what the items name.
LEMMA StoreKeeps ==
    ASSUME RunsInv, NEW p \in Proc, StoreBatch(p)
    PROVE  RunsInv'
<1> DEFINE new == {<<c, proc[p].batch[c]>> : c \in Current(p)}
<1>1. PICK r : r = proc[p].run
  OBVIOUS
<1>2. /\ proc[p].pc = "store" /\ src' = src
      /\ marked' = [c \in Chunk |-> IF c \in Current(p) THEN proc[p].batch[c] ELSE marked[c]]
      /\ kept' = [kept EXCEPT ![r] = @ \cup new]
  BY <1>1 DEF StoreBatch, At
<1>3. /\ Working(p) /\ r \in Run /\ RunOf(p) = runs[r] /\ runs[r] \in RunType /\ Mode(p) = runs[r].mode
      /\ proc[p] \in ProcType /\ Typed /\ Holds(p) /\ Kept(r)
  BY <1>1, <1>2 DEF RunsInv, Typed, Working, Holds, RunOf, Mode
<1>4. Current(p) \subseteq Chunks(proc[p].batch) /\ Chunks(proc[p].batch) \subseteq Chunk
      /\ \A c \in Chunks(proc[p].batch) : proc[p].batch[c] \in Version
  BY <1>3 DEF Current, Chunks, ProcType
<1>5. /\ marked' \in [Chunk -> Version \cup {None}] /\ src' \in [Chunk -> Version \cup {None}]
      /\ new \subseteq Chunk \X Version
  BY <1>2, <1>3, <1>4 DEF Typed
<1>6. Mode(p) = "incremental" => \A k \in new : RunOf(p).items[k[1]].version = k[2]
  BY <1>3, <1>4 DEF Holds
<1> HIDE DEF new
<1>7. /\ kept' \in [Run -> SUBSET (Chunk \X Version)] /\ \A s \in Run \ {r} : kept'[s] = kept[s]
      /\ kept'[r] = kept[r] \cup new
  BY <1>2, <1>3, <1>5 DEF Typed
<1>8. Mode(p) = "incremental" =>
         \A k \in kept'[r] : k \in kept[r] \/ RunOf(p).items[k[1]].version = k[2]
  BY <1>6, <1>7
<1>9. CASE AfterFailure(p)
  <2>1. kept[r] \subseteq kept'[r] /\ proc[p].pc \in {"ask", "store", "note"}
    BY <1>2, <1>7
  <2> QED
    BY <1>1, <1>2, <1>5, <1>7, <1>8, <1>9, <2>1, FailureKeeps
<1>10. CASE /\ Current(p) = Chunks(proc[p].batch) /\ UNCHANGED runs
            /\ Goes(p, [proc[p] EXCEPT !.pc = "note"])
  <2>1. PICK rec : rec = [proc[p] EXCEPT !.pc = "note"]
    OBVIOUS
  <2>2. /\ rec \in ProcType /\ rec.run = proc[p].run /\ rec.todo = proc[p].todo
        /\ rec.batch = proc[p].batch /\ rec.pc = "note" /\ Goes(p, rec) /\ runs' = runs
    BY <1>3, <1>10, <2>1 DEF ProcType
  <2>3. Kept(r)'
    <3>1. /\ runs[r].mode = "incremental" =>
                \A k \in kept'[r] : k \in kept[r] \/ runs[r].items[k[1]].version = k[2]
          /\ kept[r] \subseteq kept'[r] /\ runs' = runs
      BY <1>3, <1>7, <1>8, <2>2
    <3> QED
      BY <1>3, <3>1, KeptStep
  <2>4. Holds(p)'
    <3>1. proc'[p] = rec /\ RunOf(p)' = RunOf(p) /\ Mode(p)' = Mode(p)
      BY <1>1, <1>3, <2>2 DEF Goes, Typed, RunOf, Mode
    <3>2. \A c \in Chunks(proc[p].batch) : <<c, proc[p].batch[c]>> \in kept'[r]
      BY <1>7, <1>10 DEF new
    <3> QED
      BY <1>1, <1>3, <2>2, <3>1, <3>2 DEF Holds, Working
  <2> QED
    BY <1>1, <1>3, <1>5, <1>7, <2>2, <2>3, <2>4, WorkKeeps DEF Typed
<1> QED
  BY <1>9, <1>10 DEF StoreBatch

\* What is noted as stored was stored a step ago, or its markers tell so.
LEMMA NoteStepKeeps ==
    ASSUME RunsInv, NEW p \in Proc, Note(p)
    PROVE  RunsInv'
<1>1. proc[p].pc = "note" /\ UNCHANGED <<src, marked, kept>> /\ proc[p] \in ProcType
  BY DEF Note, At, RunsInv, Typed
<1>2. CASE AfterFailure(p)
  BY <1>1, <1>2, AttemptFails
<1>3. CASE ~(Mode(p) = "incremental" /\ ~Stored(p))
  <2>1. PICK rec :
            rec = IF Mode(p) = "incremental"
                  THEN [proc[p] EXCEPT !.pc = "next", !.batch = Nothing]
                  ELSE [proc[p] EXCEPT !.pc = "load", !.batch = Nothing, !.failures = 0,
                                       !.batches = IF MaxBatches = 0 THEN 0 ELSE @ + 1]
    OBVIOUS
  <2>2. runs' = Noted(p, Chunks(proc[p].batch), "stored") /\ Goes(p, rec)
    BY <1>3, <2>1 DEF Note
  <2>3. Nothing \in [Chunk -> Version \cup {None}] /\ 0 \in 0 .. (Tolerated - 1)
    BY Assumed DEF Nothing
  <2>4. /\ rec \in ProcType /\ rec.run = proc[p].run /\ rec.todo = proc[p].todo /\ rec.batch = Nothing
        /\ rec.pc = IF Mode(p) = "incremental" THEN "next" ELSE "load"
    <3>1. CASE Mode(p) = "incremental"
      BY <1>1, <2>1, <2>3, <3>1 DEF ProcType
    <3>2. CASE Mode(p) # "incremental"
      <4>1. (IF MaxBatches = 0 THEN 0 ELSE proc[p].batches + 1) \in Nat
        BY <1>1 DEF ProcType
      <4>2. rec = [proc[p] EXCEPT !.pc = "load", !.batch = Nothing, !.failures = 0,
                        !.batches = IF MaxBatches = 0 THEN 0 ELSE proc[p].batches + 1]
        BY <2>1, <3>2
      <4> QED
        BY <1>1, <2>3, <3>2, <4>1, <4>2 DEF ProcType
    <3> QED
      BY <3>1, <3>2
  <2> QED
    BY <1>1, <2>2, <2>4, NoteKeeps DEF Status
<1> QED
  BY <1>2, <1>3 DEF Note

\* A step keeps the invariant.
LEMMA RunsStep ==
    ASSUME RunsInv, [RunsNext]_runsVars
    PROVE  RunsInv'
<1>0. Typed
  BY DEF RunsInv
<1>1. ASSUME NEW p \in Proc, EndExtract(p) \/ EnoughBatches(p) \/ EndRebuild(p)
      PROVE  RunsInv'
  <2>1. /\ Working(p) /\ Ends(p) /\ UNCHANGED <<src, marked, kept>>
        /\ \E s \in {"running", "completed", "partial", "failed", "interrupted"} : runs' = Finished(p, s)
    BY <1>1 DEF EndExtract, EnoughBatches, EndRebuild, At, Working
  <2> QED
    BY <2>1, EndKeeps
<1>2. ASSUME NEW p \in Proc, RebuildOver(p) \/ Interrupted(p) \/ Killed(p)
      PROVE  RunsInv'
  <2>1. Ends(p) /\ UNCHANGED <<src, marked, kept>>
    BY <1>2 DEF RebuildOver, Interrupted, Killed
  <2>2. proc[p].run # 0 => Working(p)
    BY DEF RunsInv, Holds
  <2>3. \/ runs' = runs
        \/ Working(p) /\ \E s \in {"running", "completed", "partial", "failed", "interrupted"} :
                            runs' = Finished(p, s)
    <3>1. CASE RebuildOver(p) \/ Killed(p)
      BY <3>1 DEF RebuildOver, Killed
    <3>2. CASE Interrupted(p)
      <4>1. CASE Endings(p) = {}
        BY <3>2, <4>1 DEF Interrupted
      <4>2. CASE Endings(p) # {}
        <5>1. PICK status \in Endings(p) : runs' = Finished(p, status)
          BY <3>2, <4>2 DEF Interrupted
        <5>2. proc[p].run # 0 /\ status \in {"interrupted", "failed"}
          BY <5>1 DEF Endings
        <5> QED
          BY <2>2, <5>1, <5>2
      <4> QED
        BY <4>1, <4>2
    <3> QED
      BY <1>2, <3>1, <3>2
  <2> QED
    BY <2>1, <2>3, EndKeeps
<1>3. ASSUME NEW p \in Proc, BatchFails(p)
      PROVE  RunsInv'
  BY <1>3, AttemptFails DEF BatchFails
<1>4. ASSUME NEW c \in Chunk, NEW v \in Version \cup {None}, WriteChunk(c, v)
      PROVE  RunsInv'
  <2>1. src' \in [Chunk -> Version \cup {None}] /\ marked' \in [Chunk -> Version \cup {None}]
    BY <1>0, <1>4 DEF WriteChunk, Typed
  <2> QED
    BY <1>4, <2>1, WritesKeep DEF WriteChunk
<1>5. CASE Reset
  <2>1. src' \in [Chunk -> Version \cup {None}] /\ marked' \in [Chunk -> Version \cup {None}]
    BY <1>0, <1>5 DEF Reset, Typed, Nothing
  <2> QED
    BY <1>5, <2>1, WritesKeep DEF Reset
<1>6. CASE Finalize \/ UNCHANGED runsVars
  <2>1. /\ UNCHANGED <<src, marked, runs, kept>> /\ proc' = proc
        /\ src' \in [Chunk -> Version \cup {None}] /\ marked' \in [Chunk -> Version \cup {None}]
    BY <1>0, <1>6 DEF Finalize, runsVars, Typed
  <2> QED
    BY <2>1, WritesKeep
<1> QED
  BY <1>1, <1>2, <1>3, <1>4, <1>5, <1>6, StartExtractKeeps, SelectKeeps, StartRebuildKeeps,
     ResumeKeeps, ReadBatchKeeps, LoadPageKeeps, ReadPageKeeps, AskKeeps, StoreKeeps, NoteStepKeeps
     DEF RunsNext, Extraction

\* At the start nothing runs.
LEMMA RunsInvInit ==
    ASSUME RunsInit
    PROVE  RunsInv
<1>1. /\ Off \in ProcType /\ Off.pc = "off" /\ Off.run = 0
      /\ Nothing \in [Chunk -> Version \cup {None}]
  BY OffType DEF Off, Nothing
<1>2. Typed
  BY <1>1 DEF RunsInit, Typed, Source
<1>3. \A p \in Proc : proc[p].pc = "off" /\ proc[p].run = 0
  BY <1>1 DEF RunsInit
<1>4. (\A p \in Proc : Holds(p)) /\ Apart
  BY <1>3 DEF Holds, Working, Apart
<1>5. \A r \in Run : Kept(r)
  BY Assumed DEF RunsInit, Kept
<1> QED
  BY <1>2, <1>4, <1>5 DEF RunsInv

\* RunsInv holds in every state.
LEMMA RunsInvariant == RunsSpec => []RunsInv
<1>1. RunsInit => RunsInv
  BY RunsInvInit
<1>2. RunsInv /\ [RunsNext]_runsVars => RunsInv'
  BY RunsStep
<1> QED
  BY <1>1, <1>2, PTL DEF RunsSpec

\* Chunks, markers and the history are well formed, and no command counts
\* past its limits, for any chunks, versions, terminals and bounds.
THEOREM RunsTypeCorrect == RunsSpec => []RunsTypeOK
<1>1. RunsInv => RunsTypeOK
  <2> SUFFICES ASSUME RunsInv PROVE RunsTypeOK
    OBVIOUS
  <2>1. Tolerated \in Nat \ {0} /\ Retries \in Nat
    BY Assumed
  <2>2. ASSUME NEW p \in Proc PROVE proc[p].failures < Tolerated /\ proc[p].attempt <= Retries
    <3>1. proc[p].failures \in 0 .. (Tolerated - 1) /\ proc[p].attempt \in 0 .. Retries
      BY DEF RunsInv, Typed, ProcType
    <3> QED
      BY <2>1, <3>1
  <2> QED
    BY <2>2 DEF RunsInv, Typed, RunsTypeOK
<1> QED
  BY <1>1, RunsInvariant, PTL

\* What the history of `graph extract' notes as stored was stored, by the run
\* and in the version it names, and a run stored nothing else: through any
\* number of terminals that resume each other's runs, of edits, resets,
\* outages and deaths (extraction.py, extraction_history.py).
THEOREM HistoryIsTrue == RunsSpec => []SelectionStored
<1>1. RunsInv => SelectionStored
  <2> SUFFICES ASSUME RunsInv, NEW r \in Run, NEW c \in Chunk,
                      runs[r] # None, runs[r].mode = "incremental", runs[r].items[c] # None
               PROVE  Faithful(runs[r].items[c], c, kept[r])
    BY DEF SelectionStored, Faithful
  <2>1. runs[r] \in RunType
    BY DEF RunsInv, Typed
  <2>2. runs[r].items[c] \in RowType
    BY <2>1 DEF RunType
  <2> QED
    BY <2>1, <2>2 DEF RunsInv, Kept
<1> QED
  BY <1>1, RunsInvariant, PTL

-----------------------------------------------------------------------------
(* What a rebuild that ends as completed has seen.                         *)

\* A command that works has an open run.
Open(p) == Working(p) => RunOf(p).status = "running"

\* What a rebuild looked at and nothing was written since: all of its page
\* is there, and an empty page is the end of what is pending.
Looked(p) ==
    proc[p].pc = "page" /\ proc[p].quiet =>
        /\ \A c \in proc[p].todo : src[c] # None
        /\ proc[p].todo = {} => Pending = {}

\* What the commands know beyond RunsInv.
Seen == \A p \in Proc : Open(p) /\ Looked(p)

\* A first page of at least one chunk is empty only if there are none.
LEMMA FirstEmpty ==
    ASSUME NEW S \in SUBSET Chunk, NEW n \in Nat \ {0}, FirstOf(S, n) = {}
    PROVE  S = {}
<1> SUFFICES ASSUME S # {} PROVE FALSE
  OBVIOUS
<1>1. S \in SUBSET Nat
  BY Assumed
<1>2. PICK m \in S : \A t \in S : m <= t
  BY <1>1, Least
<1>3. {d \in S : d < m} = {}
  <2>1. \A d \in S : ~ d < m
    <3>1. \A d \in S : d \in Nat /\ m \in Nat /\ m <= d
      BY <1>1, <1>2
    <3> QED
      BY <3>1
  <2> QED
    BY <2>1
<1>4. Cardinality({d \in S : d < m}) = 0
  BY <1>3, FS_EmptySet
<1>5. m \in FirstOf(S, n)
  BY <1>2, <1>4 DEF FirstOf
<1> QED
  BY <1>5

\* What a step of p leaves to the others and to itself.
Mine(p) ==
    /\ src' = src /\ Pending' \subseteq Pending
    /\ \A q \in Proc \ {p} : proc'[q] = proc[q]
    /\ \A r \in Run \ {proc[p].run, proc'[p].run} : runs'[r] = runs[r]
    /\ Working(p)' => runs'[proc'[p].run].status = "running"
    /\ proc'[p].pc = "page" => proc'[p].todo = Page(p) /\ Pending' = Pending

\* Neither noting items nor closing another run changes the status of a run.
LEMMA NotedStatus ==
    ASSUME RunsInv, NEW p \in Proc, Working(p), NEW C, NEW s
    PROVE  /\ Noted(p, C, s)[proc[p].run].status = RunOf(p).status
           /\ \A r \in Run \ {proc[p].run} : Noted(p, C, s)[r] = runs[r]
<1>1. /\ proc[p].run \in Run /\ RunOf(p) \in RunType /\ runs \in [Run -> RunType \cup {None}]
      /\ RunOf(p) = runs[proc[p].run]
  BY DEF RunsInv, Typed, Holds, RunOf
<1> QED
  BY <1>1 DEF Noted, RunType

\* A step that leaves the index and the markers leaves what is pending.
LEMMA SamePending == ASSUME UNCHANGED <<src, marked>> PROVE Pending' = Pending
BY DEF Pending

\* A command that goes on in its run with items noted.
LEMMA NotingMine ==
    ASSUME RunsInv, NEW p \in Proc, Open(p), Working(p), NEW C, NEW s,
           runs' = Noted(p, C, s) \/ runs' = runs, NEW rec, Goes(p, rec),
           rec.run = proc[p].run, rec.pc # "page",
           src' = src, Pending' \subseteq Pending
    PROVE  Mine(p)
<1>1. /\ proc \in [Proc -> ProcType] /\ proc[p].run \in Run
  BY DEF RunsInv, Typed, Holds
<1>2. proc'[p] = rec /\ \A q \in Proc \ {p} : proc'[q] = proc[q]
  BY <1>1 DEF Goes
<1>3. /\ runs'[proc[p].run].status = "running"
      /\ \A r \in Run \ {proc[p].run} : runs'[r] = runs[r]
  BY NotedStatus DEF Open, RunOf
<1> QED
  BY <1>2, <1>3 DEF Mine

\* A command that ends touches no run but its own.
LEMMA EndingMine ==
    ASSUME RunsInv, NEW p \in Proc, Ends(p),
           \A r \in Run \ {proc[p].run} : runs'[r] = runs[r],
           src' = src, Pending' \subseteq Pending
    PROVE  Mine(p)
<1>1. /\ proc \in [Proc -> ProcType] /\ Off.pc = "off" /\ Off.run = 0
  BY DEF RunsInv, Typed, Off
<1>2. proc'[p] = Off /\ \A q \in Proc \ {p} : proc'[q] = proc[q]
  BY <1>1 DEF Ends, Goes
<1> QED
  BY <1>1, <1>2 DEF Mine, Working

\* A failed attempt, whatever it stored before.
LEMMA FailingMine ==
    ASSUME RunsInv, NEW p \in Proc, Open(p),
           proc[p].pc \in {"ask", "store", "note"}, AfterFailure(p),
           src' = src, Pending' \subseteq Pending
    PROVE  Mine(p)
<1> DEFINE C == Chunks(proc[p].batch)
           F == Noted(p, C, "failed")
<1>1. Working(p) /\ proc[p] \in ProcType
  BY DEF Working, RunsInv, Typed
<1>2. CASE runs' = F /\ \E rec : Goes(p, rec) /\ rec.run = proc[p].run /\ rec.pc # "page"
  BY <1>1, <1>2, NotingMine
<1>3. CASE Ends(p) /\ runs' = [F EXCEPT ![proc[p].run].status = "failed"]
  <2>1. \A r \in Run \ {proc[p].run} : F[r] = runs[r]
    BY <1>1, NotedStatus
  <2>2. \A r \in Run \ {proc[p].run} : runs'[r] = F[r]
    <3>1. DOMAIN F = Run
      BY <1>1 DEF Noted, RunsInv, Typed
    <3> HIDE DEF F
    <3> QED
      BY <1>3, <3>1
  <2> QED
    BY <1>3, <2>1, <2>2, EndingMine
<1>4. \/ runs' = F /\ \E rec : Goes(p, rec) /\ rec.run = proc[p].run /\ rec.pc # "page"
      \/ Ends(p) /\ runs' = [F EXCEPT ![proc[p].run].status = "failed"]
  <2> HIDE DEF F
  <2>1. C = Chunks(proc[p].batch) /\ F = Noted(p, Chunks(proc[p].batch), "failed")
    BY DEF F
  <2> HIDE DEF C
  <2>2. /\ [proc[p] EXCEPT !.pc = "ask", !.attempt = @ + 1].run = proc[p].run
        /\ [proc[p] EXCEPT !.pc = "ask", !.attempt = @ + 1].pc = "ask"
    BY <1>1 DEF ProcType
  <2>3. /\ [proc[p] EXCEPT !.pc = "next", !.batch = Nothing].run = proc[p].run
        /\ [proc[p] EXCEPT !.pc = "next", !.batch = Nothing].pc = "next"
    BY <1>1 DEF ProcType
  <2>4. \A n : LET rec == [proc[p] EXCEPT !.pc = "load", !.batch = Nothing,
                             !.deferred = @ \cup C, !.failures = n]
               IN  rec.run = proc[p].run /\ rec.pc = "load"
    BY <1>1 DEF ProcType
  <2>5. \/ runs' = F /\ Goes(p, [proc[p] EXCEPT !.pc = "ask", !.attempt = @ + 1])
        \/ runs' = F /\ Goes(p, [proc[p] EXCEPT !.pc = "next", !.batch = Nothing])
        \/ runs' = [F EXCEPT ![proc[p].run].status = "failed"] /\ Ends(p)
        \/ runs' = F /\ \E n : Goes(p, [proc[p] EXCEPT !.pc = "load", !.batch = Nothing,
                                             !.deferred = @ \cup C, !.failures = n])
    BY <2>1 DEF AfterFailure
  <2> QED
    BY <2>2, <2>3, <2>4, <2>5
<1> QED
  BY <1>2, <1>3, <1>4

\* A command that opens a run, or a step before there is one.
LEMMA OpeningMine ==
    ASSUME RunsInv, NEW p \in Proc,
           StartExtract(p) \/ SelectItems(p) \/ StartRebuild(p) \/ \E r \in Run : Resume(p, r)
    PROVE  Mine(p)
<1>1. /\ proc \in [Proc -> ProcType] /\ runs \in [Run -> RunType \cup {None}] /\ None \notin RunType
  BY Assumed DEF RunsInv, Typed
<1>2. src' = src /\ Pending' = Pending
  <2>1. UNCHANGED <<src, marked>>
    BY DEF StartExtract, SelectItems, StartRebuild, Resume
  <2> QED
    BY <2>1, SamePending
<1>3. CASE StartExtract(p)
  <2>1. proc'[p].pc = "select" /\ runs' = runs /\ \A q \in Proc \ {p} : proc'[q] = proc[q]
    BY <1>1, <1>3 DEF StartExtract, Goes, Off
  <2> QED
    BY <1>2, <2>1 DEF Mine, Working
<1>4. ASSUME NEW mode, NEW items, NEW rec, Places # {}, rec.run = NewRun, rec.pc \in {"next", "load"},
             Goes(p, rec), runs' = [runs EXCEPT ![NewRun] = Started(mode, items)]
      PROVE  Mine(p)
  <2>1. NewRun \in Run
    BY <1>4, NewRunIs
  <2>2. /\ runs'[NewRun].status = "running" /\ \A r \in Run \ {NewRun} : runs'[r] = runs[r]
        /\ proc'[p] = rec /\ \A q \in Proc \ {p} : proc'[q] = proc[q]
    BY <1>1, <1>4, <2>1 DEF Started, Goes
  <2> QED
    BY <1>2, <1>4, <2>2 DEF Mine, Working
<1>5. CASE SelectItems(p)
  <2>1. /\ [Off EXCEPT !.pc = "next", !.run = NewRun, !.todo = Pending].run = NewRun
        /\ [Off EXCEPT !.pc = "next", !.run = NewRun, !.todo = Pending].pc = "next"
    BY DEF Off
  <2> QED
    BY <1>4, <1>5, <2>1 DEF SelectItems
<1>6. CASE StartRebuild(p)
  <2>1. /\ [Off EXCEPT !.pc = "load", !.run = NewRun].run = NewRun
        /\ [Off EXCEPT !.pc = "load", !.run = NewRun].pc = "load"
    BY DEF Off
  <2> QED
    BY <1>4, <1>6, <2>1 DEF StartRebuild
<1>7. ASSUME NEW r \in Run, Resume(p, r) PROVE Mine(p)
  <2>1. /\ runs[r] \in RunType /\ runs' = [runs EXCEPT ![r].status = "running"]
    BY <1>1, <1>7 DEF Resume
  <2>2. runs'[r].status = "running" /\ \A s \in Run \ {r} : runs'[s] = runs[s]
    BY <1>1, <2>1 DEF RunType
  <2>3. proc'[p].run = r /\ proc'[p].pc = "next" /\ \A q \in Proc \ {p} : proc'[q] = proc[q]
    BY <1>1, <1>7 DEF Resume, Goes, Off
  <2> QED
    BY <1>2, <2>2, <2>3 DEF Mine, Working
<1> QED
  BY <1>3, <1>5, <1>6, <1>7

\* A step at which a command ends.
LEMMA EndsMine ==
    ASSUME RunsInv, NEW p \in Proc,
           \/ EndExtract(p) \/ RebuildOver(p) \/ EnoughBatches(p) \/ EndRebuild(p)
           \/ Interrupted(p) \/ Killed(p)
    PROVE  Mine(p)
<1>1. Ends(p) /\ UNCHANGED <<src, marked>>
  BY DEF EndExtract, RebuildOver, EnoughBatches, EndRebuild, Interrupted, Killed
<1>2. runs' = runs \/ \E s : runs' = Finished(p, s)
  BY DEF EndExtract, RebuildOver, EnoughBatches, EndRebuild, Interrupted, Killed
<1>3. \A r \in Run \ {proc[p].run} : runs'[r] = runs[r]
  BY <1>2 DEF Finished, RunsInv, Typed
<1> QED
  BY <1>1, <1>3, SamePending, EndingMine

\* Storing takes from what is pending only what is stored as it is.
LEMMA StoringMine ==
    ASSUME RunsInv, NEW p \in Proc, Open(p), StoreBatch(p)
    PROVE  Mine(p)
<1>1. /\ proc[p].pc = "store" /\ src' = src /\ Working(p) /\ proc[p] \in ProcType
      /\ marked' = [c \in Chunk |-> IF c \in Current(p) THEN proc[p].batch[c] ELSE marked[c]]
  BY DEF StoreBatch, At, Working, RunsInv, Typed
<1>2. Pending' \subseteq Pending
  BY <1>1 DEF Pending, Current
<1>3. CASE AfterFailure(p)
  BY <1>1, <1>2, <1>3, FailingMine
<1>4. CASE runs' = runs /\ Goes(p, [proc[p] EXCEPT !.pc = "note"])
  <2>1. /\ [proc[p] EXCEPT !.pc = "note"].run = proc[p].run
        /\ [proc[p] EXCEPT !.pc = "note"].pc = "note"
    BY <1>1 DEF ProcType
  <2> QED
    BY <1>1, <1>2, <1>4, <2>1, NotingMine
<1> QED
  BY <1>3, <1>4 DEF StoreBatch

\* The other steps of a command that goes on with its run.
LEMMA WorkingMine ==
    ASSUME RunsInv, NEW p \in Proc, Open(p),
           ReadBatch(p) \/ Ask(p) \/ Note(p) \/ BatchFails(p)
    PROVE  Mine(p)
<1>1. /\ proc[p].pc \in {"next", "ask", "store", "note"} /\ UNCHANGED <<src, marked>>
      /\ proc[p] \in ProcType
  BY DEF ReadBatch, Ask, Note, BatchFails, At, RunsInv, Typed
<1>2. src' = src /\ Pending' = Pending /\ Working(p)
  BY <1>1, SamePending DEF Working
<1>3. CASE AfterFailure(p) /\ proc[p].pc # "next"
  BY <1>1, <1>2, <1>3, FailingMine
<1>4. ASSUME NEW C, NEW s, runs' = Noted(p, C, s), NEW rec, Goes(p, rec), rec.run = proc[p].run,
             rec.pc # "page"
      PROVE  Mine(p)
  BY <1>2, <1>4, NotingMine
<1>5. CASE ReadBatch(p)
  <2> DEFINE C == FirstOf(proc[p].todo, BatchSize)
             ok == Unchanged(p, C)
             rec == [proc[p] EXCEPT !.todo = @ \ C, !.attempt = 0,
                          !.pc = IF ok = {} THEN "next" ELSE "ask",
                          !.batch = [c \in Chunk |-> IF c \in ok THEN src[c] ELSE None]]
  <2>1. runs' = Noted(p, C \ ok, "stale") /\ Goes(p, rec)
    BY <1>5 DEF ReadBatch
  <2>2. rec.run = proc[p].run /\ rec.pc # "page"
    BY <1>1 DEF ProcType
  <2> HIDE DEF rec, ok, C
  <2> QED
    BY <1>4, <2>1, <2>2
<1>6. CASE /\ runs' = Noted(p, Chunks(proc[p].batch), "running")
           /\ Goes(p, [proc[p] EXCEPT !.pc = "store"])
  <2>1. /\ [proc[p] EXCEPT !.pc = "store"].run = proc[p].run
        /\ [proc[p] EXCEPT !.pc = "store"].pc = "store"
    BY <1>1 DEF ProcType
  <2> QED
    BY <1>4, <1>6, <2>1
<1>7. CASE Note(p) /\ ~(Mode(p) = "incremental" /\ ~Stored(p))
  <2>1. /\ [proc[p] EXCEPT !.pc = "next", !.batch = Nothing].run = proc[p].run
        /\ [proc[p] EXCEPT !.pc = "next", !.batch = Nothing].pc = "next"
    BY <1>1 DEF ProcType
  <2>2. \A n : LET rec == [proc[p] EXCEPT !.pc = "load", !.batch = Nothing, !.failures = 0, !.batches = n]
               IN  rec.run = proc[p].run /\ rec.pc = "load"
    BY <1>1 DEF ProcType
  <2>3. /\ runs' = Noted(p, Chunks(proc[p].batch), "stored")
        /\ \/ Goes(p, [proc[p] EXCEPT !.pc = "next", !.batch = Nothing])
           \/ \E n : Goes(p, [proc[p] EXCEPT !.pc = "load", !.batch = Nothing, !.failures = 0,
                                             !.batches = n])
    BY <1>7 DEF Note
  <2> QED
    BY <1>4, <2>1, <2>2, <2>3
<1>8. \/ AfterFailure(p) /\ proc[p].pc # "next"
      \/ ReadBatch(p)
      \/ /\ runs' = Noted(p, Chunks(proc[p].batch), "running")
         /\ Goes(p, [proc[p] EXCEPT !.pc = "store"])
      \/ Note(p) /\ ~(Mode(p) = "incremental" /\ ~Stored(p))
  BY DEF Ask, Note, BatchFails, At
<1> QED
  BY <1>3, <1>5, <1>6, <1>7, <1>8

\* The steps that look at what is pending.
LEMMA LookingMine ==
    ASSUME RunsInv, NEW p \in Proc, Open(p), LoadPage(p) \/ ReadPage(p)
    PROVE  Mine(p)
<1>1. /\ proc[p].pc \in {"load", "page"} /\ UNCHANGED <<src, marked>> /\ Working(p)
      /\ proc \in [Proc -> ProcType] /\ runs \in [Run -> RunType \cup {None}]
      /\ proc[p].run \in Run /\ runs[proc[p].run] \in RunType /\ runs[proc[p].run].status = "running"
  BY DEF LoadPage, ReadPage, At, RunsInv, Typed, Working, Holds, Open, RunOf
<1>2. src' = src /\ Pending' = Pending
  BY <1>1, SamePending
<1>3. CASE LoadPage(p)
  <2>1. proc' = [proc EXCEPT ![p] = [proc[p] EXCEPT !.pc = "page", !.todo = Page(p), !.quiet = TRUE]]
    BY <1>3 DEF LoadPage, Goes
  <2>2. /\ proc'[p].run = proc[p].run /\ proc'[p].todo = Page(p) /\ runs' = runs
        /\ \A q \in Proc \ {p} : proc'[q] = proc[q]
    <3>1. proc[p] \in ProcType
      BY <1>1
    <3>2. [proc[p] EXCEPT !.pc = "page", !.todo = Page(p), !.quiet = TRUE].run = proc[p].run
      BY <3>1 DEF ProcType
    <3>3. [proc[p] EXCEPT !.pc = "page", !.todo = Page(p), !.quiet = TRUE].todo = Page(p)
      BY <3>1 DEF ProcType
    <3> QED
      BY <1>1, <1>3, <2>1, <3>2, <3>3 DEF LoadPage
  <2> QED
    BY <1>1, <1>2, <2>2 DEF Mine
<1>4. CASE ReadPage(p)
  <2> DEFINE items == [c \in Chunk |-> IF RunOf(p).items[c] = None THEN Rows(Batch(p))[c]
                                        ELSE RunOf(p).items[c]]
             rec == [proc[p] EXCEPT !.pc = "ask", !.todo = {}, !.attempt = 0,
                   !.batch = [c \in Chunk |-> IF c \in Batch(p) THEN src[c] ELSE None]]
  <2>1. rec.run = proc[p].run /\ rec.pc = "ask" /\ Goes(p, rec)
    BY <1>1, <1>4 DEF ProcType, ReadPage
  <2>2. runs' = [runs EXCEPT ![proc[p].run].items = items]
    BY <1>1, <1>4 DEF ReadPage, RunOf
  <2> HIDE DEF items, rec
  <2>3. /\ runs'[proc[p].run].status = "running"
        /\ \A r \in Run \ {proc[p].run} : runs'[r] = runs[r]
    BY <1>1, <2>2 DEF RunType
  <2>4. proc'[p] = rec /\ \A q \in Proc \ {p} : proc'[q] = proc[q]
    BY <1>1, <2>1 DEF Goes
  <2> QED
    BY <1>1, <1>2, <2>1, <2>3, <2>4 DEF Mine
<1> QED
  BY <1>3, <1>4

\* Steps of commands and the steps of others.
LEMMA OneStep ==
    ASSUME RunsInv, Seen, [RunsNext]_runsVars
    PROVE  \/ \E p \in Proc : Mine(p)
           \/ \E c \in Chunk, v \in Version \cup {None} : WriteChunk(c, v)
           \/ Reset
           \/ Finalize
           \/ UNCHANGED runsVars
<1>1. \A p \in Proc : Open(p)
  BY DEF Seen
<1>2. ASSUME NEW p \in Proc, Extraction(p) PROVE Mine(p)
  BY <1>1, <1>2, OpeningMine, EndsMine, StoringMine, WorkingMine, LookingMine DEF Extraction
<1>3. ASSUME NEW p \in Proc,
             \/ StartExtract(p) \/ StartRebuild(p) \/ \E r \in Run : Resume(p, r)
             \/ BatchFails(p) \/ Interrupted(p) \/ Killed(p)
      PROVE  Mine(p)
  BY <1>1, <1>3, OpeningMine, EndsMine, WorkingMine
<1> QED
  BY <1>2, <1>3 DEF RunsNext

\* No page of no rows: a rebuild asks for a whole batch at least.
LEMMA EmptyPage ==
    ASSUME RunsInv, NEW p \in Proc, Page(p) = {}
    PROVE  Pending = {}
<1>1. proc[p].deferred \in SUBSET Chunk
  BY DEF RunsInv, Typed, ProcType
<1>2. Cardinality(proc[p].deferred) \in Nat
  <2>1. IsFiniteSet(proc[p].deferred)
    BY <1>1, FS_Subset, Assumed
  <2> QED
    BY <2>1, FS_CardinalityType
<1>3. BatchSize + Cardinality(proc[p].deferred) \in Nat \ {0}
  BY <1>2, Assumed
<1>4. Pending \in SUBSET Chunk
  BY DEF Pending
<1> QED
  BY <1>3, <1>4, FirstEmpty DEF Page

\* A step keeps what the rebuilds have seen.
LEMMA SeenStep ==
    ASSUME RunsInv, RunsInv', Seen, [RunsNext]_runsVars
    PROVE  Seen'
<1>1. ASSUME NEW p \in Proc, Mine(p), NEW q \in Proc PROVE (Open(q) /\ Looked(q))'
  <2>1. CASE q = p
    <3>1. Open(q)'
      BY <1>1, <2>1 DEF Mine, Open, RunOf
    <3>2. ASSUME proc'[p].pc = "page"
          PROVE  /\ \A c \in proc'[p].todo : src'[c] # None
                 /\ proc'[p].todo = {} => Pending' = {}
      <4>1. proc'[p].todo = Page(p) /\ Pending' = Pending /\ src' = src
        BY <1>1, <3>2 DEF Mine
      <4>2. Page(p) \subseteq Pending
        BY DEF Page, FirstOf
      <4>3. Page(p) = {} => Pending = {}
        BY EmptyPage
      <4> QED
        BY <4>1, <4>2, <4>3 DEF Pending
    <3> QED
      BY <2>1, <3>1, <3>2 DEF Looked
  <2>2. CASE q # p
    <3>1. proc'[q] = proc[q] /\ Open(q) /\ Looked(q) /\ src' = src /\ Pending' \subseteq Pending
      BY <1>1, <2>2 DEF Mine, Seen
    <3>2. Looked(q)'
      BY <3>1 DEF Looked
    <3>3. ASSUME Working(q)' PROVE RunOf(q)' = RunOf(q)
      <4>1. Working(q) /\ proc[q].run \in Run
        BY <3>1, <3>3 DEF Working, RunsInv, Holds
      <4>2. proc[q].run # proc[p].run
        BY <2>2, <4>1 DEF RunsInv, Apart
      <4>3. proc'[q].run # proc'[p].run
        BY <2>2, <3>3 DEF RunsInv, Apart
      <4>4. runs'[proc[q].run] = runs[proc[q].run]
        BY <1>1, <3>1, <4>1, <4>2, <4>3 DEF Mine
      <4> QED
        BY <3>1, <4>4 DEF RunOf
    <3>4. Working(q)' <=> Working(q)
      BY <3>1 DEF Working
    <3> QED
      BY <3>1, <3>2, <3>3, <3>4 DEF Open
  <2> QED
    BY <2>1, <2>2
<1>2. ASSUME runs' = runs, NEW q \in Proc,
             proc'[q].pc = proc[q].pc, proc'[q].run = proc[q].run, proc'[q].quiet = FALSE
      PROVE  (Open(q) /\ Looked(q))'
  BY <1>2 DEF Seen, Open, Looked, Working, RunOf
<1>3. ASSUME proc' = [p \in Proc |-> [proc[p] EXCEPT !.quiet = FALSE]], runs' = runs PROVE Seen'
  <2>1. ASSUME NEW q \in Proc
        PROVE  /\ proc'[q].pc = proc[q].pc /\ proc'[q].run = proc[q].run /\ proc'[q].quiet = FALSE
    <3>1. proc[q] \in ProcType /\ proc'[q] = [proc[q] EXCEPT !.quiet = FALSE]
      BY <1>3 DEF RunsInv, Typed
    <3> QED
      BY <3>1 DEF ProcType
  <2> QED
    BY <1>2, <1>3, <2>1 DEF Seen
<1>4. CASE Finalize \/ UNCHANGED runsVars
  <2>1. UNCHANGED <<src, marked, runs, proc>>
    BY <1>4 DEF Finalize, runsVars
  <2> QED
    BY <2>1 DEF Seen, Open, Looked, Working, RunOf, Pending
<1>5. (\E p \in Proc : Mine(p)) => Seen'
  BY <1>1 DEF Seen
<1> QED
  BY <1>3, <1>4, <1>5, OneStep DEF WriteChunk, Reset

\* Both invariants hold in every state.
LEMMA SeenInvariant == RunsSpec => [](RunsInv /\ Seen)
<1>1. RunsInit => RunsInv /\ Seen
  <2> SUFFICES ASSUME RunsInit PROVE RunsInv /\ Seen
    OBVIOUS
  <2>1. \A p \in Proc : proc[p].pc = "off"
    BY DEF RunsInit, Off
  <2> QED
    BY <2>1, RunsInvInit DEF Seen, Open, Looked, Working
<1>2. RunsInv /\ Seen /\ [RunsNext]_runsVars => (RunsInv /\ Seen)'
  BY RunsStep, SeenStep
<1> QED
  BY <1>1, <1>2, PTL DEF RunsSpec

\* A rebuild that ends as completed, ready to be finalized, left nothing
\* pending, unless something was written since it looked: with any number of
\* other commands that extract, whatever was put aside, and for every size of
\* a batch.
THEOREM ReadyMeansDone == RunsSpec => CompletedCovers
<1>1. ASSUME RunsInv, Seen, [RunsNext]_runsVars, NEW p \in Proc,
             At(p, "page"), At(p, "off")', proc[p].quiet,
             runs'[proc[p].run].status = "completed"
      PROVE  Pending = {}
  <2>1. /\ Working(p) /\ proc[p].run \in Run /\ runs[proc[p].run] \in RunType
        /\ proc[p].pc = "page" /\ Mode(p) = "rebuild"
        /\ runs[proc[p].run].status = "running"
        /\ runs \in [Run -> RunType \cup {None}] /\ proc \in [Proc -> ProcType]
        /\ Looked(p)
    BY <1>1 DEF At, RunsInv, Seen, Holds, Working, Open, RunOf, Typed
  <2>2. proc'[p].pc # proc[p].pc /\ runs'[proc[p].run] # runs[proc[p].run]
    BY <1>1, <2>1 DEF At
  <2>3. EndRebuild(p)
    <3>1. ASSUME NEW q \in Proc, Goes(q, Off) \/ \E rec : Goes(q, rec)
          PROVE  q = p
      BY <2>1, <2>2, <3>1 DEF Goes
    <3>2. ASSUME NEW q \in Proc, Extraction(q)
          PROVE  EndRebuild(p)
      <4>1. q = p
        BY <3>1, <3>2 DEF Extraction, SelectItems, ReadBatch, EndExtract, LoadPage, RebuildOver,
              EnoughBatches, ReadPage, EndRebuild, Ask, StoreBatch, Note, AfterFailure, Ends
      <4>2. ~ReadPage(p)
        <5>1. ASSUME ReadPage(p) PROVE proc'[p].pc = "ask"
          <6>1. proc'[p] = [proc[p] EXCEPT !.pc = "ask", !.todo = {}, !.attempt = 0,
                   !.batch = [c \in Chunk |-> IF c \in Batch(p) THEN src[c] ELSE None]]
            BY <2>1, <5>1 DEF ReadPage, Goes
          <6> QED
            BY <2>1, <6>1 DEF ProcType
        <5> QED
          BY <1>1, <5>1 DEF At
      <4> QED
        BY <2>1, <3>2, <4>1, <4>2 DEF Extraction, SelectItems, ReadBatch, EndExtract, LoadPage, RebuildOver,
              EnoughBatches, Ask, StoreBatch, Note, At
    <3>3. ASSUME NEW q \in Proc,
                 \/ StartExtract(q) \/ StartRebuild(q) \/ \E r \in Run : Resume(q, r)
                 \/ BatchFails(q) \/ Interrupted(q) \/ Killed(q)
          PROVE  FALSE
      <4>1. q = p
        BY <3>1, <3>3 DEF StartExtract, StartRebuild, Resume, BatchFails, Interrupted, Killed,
              AfterFailure, Ends
      <4>2. ~Interrupted(q)
        <5>1. Endings(p) = {}
          BY <2>1 DEF Endings
        <5> QED
          BY <2>2, <4>1, <5>1 DEF Interrupted
      <4> QED
        BY <2>1, <2>2, <3>3, <4>1, <4>2 DEF StartExtract, StartRebuild, Resume, BatchFails,
              Killed, At
    <3>4. /\ \A c \in Chunk, v \in Version \cup {None} : ~WriteChunk(c, v)
          /\ ~Reset /\ ~Finalize /\ ~UNCHANGED runsVars
      BY <2>2 DEF WriteChunk, Reset, Finalize, runsVars
    <3> QED
      BY <1>1, <3>2, <3>3, <3>4 DEF RunsNext
  <2>4. Batch(p) = {} /\ proc[p].deferred = {}
    <3>1. runs'[proc[p].run].status = IF proc[p].deferred = {} THEN "completed" ELSE "partial"
      BY <2>1, <2>3 DEF EndRebuild, Finished, RunType
    <3> QED
      BY <1>1, <2>3, <3>1 DEF EndRebuild
  <2>5. proc[p].todo \subseteq Chunk /\ \A c \in proc[p].todo : src[c] # None
    BY <1>1, <2>1 DEF Looked, ProcType
  <2>6. FirstOf(proc[p].todo, BatchSize) = {}
    <3>1. {c \in proc[p].todo : src[c] # None} \ proc[p].deferred = proc[p].todo
      BY <2>4, <2>5
    <3> QED
      BY <2>4, <3>1 DEF Batch
  <2>7. proc[p].todo = {}
    BY <2>5, <2>6, FirstEmpty, Assumed
  <2> QED
    BY <1>1, <2>1, <2>7 DEF Looked
<1>2. RunsInv /\ Seen /\ [RunsNext]_runsVars =>
         [\A p \in Proc : At(p, "page") /\ At(p, "off")' /\ proc[p].quiet
            /\ runs'[proc[p].run].status = "completed" => Pending = {}]_runsVars
  BY <1>1
<1> QED
  BY <1>2, SeenInvariant, PTL DEF RunsSpec, CompletedCovers
=============================================================================
