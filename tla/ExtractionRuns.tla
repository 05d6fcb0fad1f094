---------------------------- MODULE ExtractionRuns ----------------------------
(***************************************************************************)
(* The runs that extract concepts with a local model, and the history they *)
(* leave (graph/extraction.py, graph/rebuild.py, extraction_history.py):   *)
(* `graph extract` takes a selection of pending chunks once and can be     *)
(* resumed; `rebuild-evidence-local` asks for the next pending batch again *)
(* and again and puts aside what keeps failing.                            *)
(*                                                                         *)
(* Each update of the history is a transaction of its own, so a process    *)
(* may die between what it stores and what it notes about it.  What the    *)
(* model answers is left out, but for whether it can be stored.            *)
(***************************************************************************)
EXTENDS ExtractionQueue

CONSTANTS
    Proc,       \* terminals in which the commands are given
    BatchSize,
    Retries,    \* extra attempts for a batch
    Tolerated,  \* failures of consecutive batches that end a rebuild (5)
    MaxBatches, \* --max-batches of a rebuild; 0: no limit
    MaxRuns,    \* bound: runs the history remembers
    RunWrites   \* bound: writes to the index

\* A row of graph_extraction_items, and one of graph_extraction_runs with it.
RowType ==
    [version: Version, status: {"pending", "running", "stored", "failed", "stale"}]
RunType ==
    [mode: {"incremental", "rebuild"},
     status: {"running", "completed", "partial", "failed", "interrupted"},
     items: [Chunk -> RowType \cup {None}]]

ASSUME RunsAssumption ==
    /\ None \notin RowType /\ None \notin RunType
    /\ BatchSize \in Nat \ {0} /\ Tolerated \in Nat \ {0}
    /\ {Retries, MaxBatches, MaxRuns, RunWrites} \subseteq Nat

VARIABLES
    runs,     \* graph_extraction_runs with their graph_extraction_items
    proc,     \* what each terminal runs
    kept      \* history: what each run has stored, pairs of chunk and version

runsVars == <<src, marked, rebuild, runs, proc, writes, faults, kept>>

Run == 1 .. MaxRuns
Row(v, s) == [version |-> v, status |-> s]
Off == [pc |-> "off", run |-> 0, todo |-> {}, batch |-> Nothing, attempt |-> 0,
        deferred |-> {}, failures |-> 0, batches |-> 0, quiet |-> FALSE]

RunsInit ==
    /\ src \in [Chunk -> Source] /\ marked = Nothing
    /\ rebuild \in BOOLEAN
    /\ runs = [r \in Run |-> None]
    /\ proc = [p \in Proc |-> Off]
    /\ writes = 0 /\ faults = 0
    /\ kept = [r \in Run |-> {}]

FirstOf(S, n) == {c \in S : Cardinality({d \in S : d < c}) < n}
Chunks(batch) == {c \in Chunk : batch[c] # None}
RunOf(p) == runs[proc[p].run]
Mode(p) == RunOf(p).mode

Goes(p, rec) == proc' = [proc EXCEPT ![p] = rec]
At(p, pc) == proc[p].pc = pc
Ends(p) == Goes(p, Off)

\* finish_run.
Finished(p, status) == [runs EXCEPT ![proc[p].run].status = status]

\* update_items for the chunks C of the run of p.
Noted(p, C, status) ==
    [runs EXCEPT ![proc[p].run].items =
        [c \in Chunk |-> IF c \in C THEN [@[c] EXCEPT !.status = status] ELSE @[c]]]

Rows(C) == [c \in Chunk |-> IF c \in C THEN Row(src[c], "pending") ELSE None]

\* start_run.
Started(mode, items) == [mode |-> mode, status |-> "running", items |-> items]

\* The place of a new run; when the history is full one that has ended, and
\* is not looked at any more, makes room.
Places == {r \in Run : \A q \in Proc : proc[q].run # r}
NewRun ==
    LET unused == {r \in Places : runs[r] = None}
        S == IF unused # {} THEN unused ELSE Places
    IN  CHOOSE r \in S : \A q \in S : r <= q

-----------------------------------------------------------------------------
(* graph extract.                                                          *)

\* The rebuild flag is read, then the model server is asked.
StartExtract(p) ==
    /\ At(p, "off") /\ ~rebuild /\ Places # {}
    /\ Goes(p, [Off EXCEPT !.pc = "select"])
    /\ UNCHANGED <<src, marked, rebuild, runs, writes, faults, kept>>

\* The selection becomes the items of a new run. Chunks that vanish between
\* the scan and the read of the batch are only fewer items.
SelectItems(p) ==
    /\ At(p, "select") /\ Places # {}
    /\ LET r == NewRun
       IN  /\ runs' = [runs EXCEPT ![r] = Started("incremental", Rows(Pending))]
           /\ kept' = [kept EXCEPT ![r] = {}]
           /\ Goes(p, [Off EXCEPT !.pc = "next", !.run = r, !.todo = Pending])
    /\ UNCHANGED <<src, marked, rebuild, writes, faults>>

\* --resume takes up what is not stored; other modes are refused. A process
\* that resumes a run while another one works on it is left out.
Resume(p, r) ==
    /\ At(p, "off") /\ ~rebuild
    /\ runs[r] # None /\ runs[r].mode = "incremental"
    /\ \A q \in Proc : proc[q].run # r
    /\ runs' = [runs EXCEPT ![r].status = "running"]
    /\ Goes(p, [Off EXCEPT !.pc = "next", !.run = r,
                           !.todo = {c \in Chunk : runs[r].items[c] # None
                                                   /\ runs[r].items[c].status # "stored"}])
    /\ UNCHANGED <<src, marked, rebuild, writes, faults, kept>>

\* Mutant of Unchanged: the hashes are not compared with those of the item.
UnchangedFound(p, C) == {c \in C : src[c] # None}

\* Items whose chunk is still what was selected.
Unchanged(p, C) == {c \in C : src[c] # None /\ src[c] = RunOf(p).items[c].version}

\* The next batch of items is read again; what has changed is stale.
ReadBatch(p) ==
    /\ At(p, "next") /\ proc[p].todo # {}
    /\ LET C == FirstOf(proc[p].todo, BatchSize)
           ok == Unchanged(p, C)
       IN  /\ runs' = Noted(p, C \ ok, "stale")
           /\ Goes(p, [proc[p] EXCEPT !.todo = @ \ C, !.attempt = 0,
                          !.pc = IF ok = {} THEN "next" ELSE "ask",
                          !.batch = [c \in Chunk |-> IF c \in ok THEN src[c] ELSE None]])
    /\ UNCHANGED <<src, marked, rebuild, writes, faults, kept>>

EndExtract(p) ==
    /\ At(p, "next") /\ proc[p].todo = {}
    /\ LET items == RunOf(p).items
           all == \A c \in Chunk : items[c] # None => items[c].status = "stored"
       IN  runs' = Finished(p, IF all THEN "completed" ELSE "partial")
    /\ Ends(p)
    /\ UNCHANGED <<src, marked, rebuild, writes, faults, kept>>

-----------------------------------------------------------------------------
(* rebuild-evidence-local.                                                 *)

StartRebuild(p) ==
    /\ At(p, "off") /\ rebuild /\ Places # {}
    /\ LET r == NewRun
       IN  /\ runs' = [runs EXCEPT ![r] = Started("rebuild", Nothing)]
           /\ kept' = [kept EXCEPT ![r] = {}]
           /\ Goes(p, [Off EXCEPT !.pc = "load", !.run = r])
    /\ UNCHANGED <<src, marked, rebuild, writes, faults>>

\* Mutant of Page: no more than a batch is asked for.
PageBatch(p) == FirstOf(Pending, BatchSize)

\* Enough pending chunks that a batch remains without those put aside.
Page(p) == FirstOf(Pending, BatchSize + Cardinality(proc[p].deferred))

\* The scan of load_pending_batch.
LoadPage(p) ==
    /\ At(p, "load") /\ rebuild
    /\ MaxBatches = 0 \/ proc[p].batches < MaxBatches
    /\ Goes(p, [proc[p] EXCEPT !.pc = "page", !.todo = Page(p), !.quiet = TRUE])
    /\ UNCHANGED <<src, marked, rebuild, runs, writes, faults, kept>>

\* The rebuild was finished meanwhile: an error that leaves the run "running".
RebuildOver(p) ==
    /\ At(p, "load") /\ ~rebuild
    /\ MaxBatches = 0 \/ proc[p].batches < MaxBatches
    /\ Ends(p)
    /\ UNCHANGED <<src, marked, rebuild, runs, writes, faults, kept>>

EnoughBatches(p) ==
    /\ At(p, "load") /\ MaxBatches # 0 /\ proc[p].batches >= MaxBatches
    /\ runs' = Finished(p, "partial")
    /\ Ends(p)
    /\ UNCHANGED <<src, marked, rebuild, writes, faults, kept>>

\* What the page still finds, without the chunks put aside.
Batch(p) == FirstOf({c \in proc[p].todo : src[c] # None} \ proc[p].deferred, BatchSize)

\* add_items ignores chunks that already have a row in the run.
ReadPage(p) ==
    /\ At(p, "page") /\ Batch(p) # {}
    /\ runs' = [runs EXCEPT ![proc[p].run].items =
                   [c \in Chunk |-> IF @[c] = None THEN Rows(Batch(p))[c] ELSE @[c]]]
    /\ Goes(p, [proc[p] EXCEPT !.pc = "ask", !.todo = {}, !.attempt = 0,
                   !.batch = [c \in Chunk |-> IF c \in Batch(p) THEN src[c] ELSE None]])
    /\ UNCHANGED <<src, marked, rebuild, writes, faults, kept>>

\* Mutant of EndRebuild: what was put aside is forgotten.
EndRebuildForgets(p) ==
    /\ At(p, "page") /\ Batch(p) = {}
    /\ runs' = Finished(p, "completed")
    /\ Ends(p)
    /\ UNCHANGED <<src, marked, rebuild, writes, faults, kept>>

\* Nothing is left: ready_to_finalize unless something was put aside.
EndRebuild(p) ==
    /\ At(p, "page") /\ Batch(p) = {}
    /\ runs' = Finished(p, IF proc[p].deferred = {} THEN "completed" ELSE "partial")
    /\ Ends(p)
    /\ UNCHANGED <<src, marked, rebuild, writes, faults, kept>>

-----------------------------------------------------------------------------
(* A batch: the model is asked, the answer stored and then noted.          *)

\* What follows the attempt that failed; the items are noted as failed.
AfterFailure(p) ==
    LET C == Chunks(proc[p].batch)
        again == proc[p].attempt < Retries
        failures == proc[p].failures + 1
    IN  IF again THEN /\ runs' = Noted(p, C, "failed")
                      /\ Goes(p, [proc[p] EXCEPT !.pc = "ask", !.attempt = @ + 1])
        ELSE IF Mode(p) = "incremental"
        THEN /\ runs' = Noted(p, C, "failed")
             /\ Goes(p, [proc[p] EXCEPT !.pc = "next", !.batch = Nothing])
        ELSE IF failures >= Tolerated
        THEN /\ runs' = [Noted(p, C, "failed") EXCEPT ![proc[p].run].status = "failed"]
             /\ Ends(p)
        ELSE /\ runs' = Noted(p, C, "failed")
             /\ Goes(p, [proc[p] EXCEPT !.pc = "load", !.batch = Nothing,
                            !.deferred = @ \cup C, !.failures = failures])

Ask(p) ==
    /\ At(p, "ask")
    /\ IF \E c \in Chunks(proc[p].batch) : proc[p].batch[c] \in Poison THEN AfterFailure(p)
       ELSE /\ runs' = Noted(p, Chunks(proc[p].batch), "running")
            /\ Goes(p, [proc[p] EXCEPT !.pc = "store"])
    /\ UNCHANGED <<src, marked, rebuild, writes, faults, kept>>

\* store_concepts accepts the versions that are current, and names the rest,
\* which is a failure of the whole batch.
Current(p) == {c \in Chunks(proc[p].batch) : proc[p].batch[c] = src[c]}

StoreBatch(p) ==
    /\ At(p, "store")
    /\ LET ok == Current(p)
       IN  /\ marked' = [c \in Chunk |-> IF c \in ok THEN proc[p].batch[c] ELSE marked[c]]
           /\ kept' = [kept EXCEPT ![proc[p].run] = @ \cup {<<c, proc[p].batch[c]>> : c \in ok}]
           /\ IF ok = Chunks(proc[p].batch)
              THEN Goes(p, [proc[p] EXCEPT !.pc = "note"]) /\ UNCHANGED runs
              ELSE AfterFailure(p)
    /\ UNCHANGED <<src, rebuild, writes, faults>>

Stored(p) == \A c \in Chunks(proc[p].batch) : marked[c] = proc[p].batch[c]

\* An incremental run believes only the markers; a rebuild the message.
Note(p) ==
    /\ At(p, "note")
    /\ IF Mode(p) = "incremental" /\ ~Stored(p) THEN AfterFailure(p)
       ELSE /\ runs' = Noted(p, Chunks(proc[p].batch), "stored")
            /\ Goes(p, IF Mode(p) = "incremental"
                       THEN [proc[p] EXCEPT !.pc = "next", !.batch = Nothing]
                       ELSE [proc[p] EXCEPT !.pc = "load", !.batch = Nothing, !.failures = 0,
                                            !.batches = IF MaxBatches = 0 THEN 0 ELSE @ + 1])
    /\ UNCHANGED <<src, marked, rebuild, writes, faults, kept>>

-----------------------------------------------------------------------------
(* Outages, interrupts, deaths, and what others do.                        *)

\* The model or the store fails for one attempt.
BatchFails(p) ==
    /\ proc[p].pc \in {"ask", "store"} /\ faults < MaxFaults
    /\ faults' = faults + 1
    /\ AfterFailure(p)
    /\ UNCHANGED <<src, marked, rebuild, writes, kept>>

\* Ctrl-C, or Elasticsearch failing where the chunks are read: an incremental
\* run always says how it ended, interrupted or failed; a rebuild only if it
\* was interrupted at a batch.
Endings(p) ==
    IF proc[p].run = 0 THEN {}
    ELSE IF Mode(p) = "incremental" THEN {"interrupted", "failed"}
    ELSE IF proc[p].pc \in {"ask", "store", "note"} THEN {"interrupted"} ELSE {}

Interrupted(p) ==
    /\ ~At(p, "off") /\ faults < MaxFaults
    /\ faults' = faults + 1
    /\ IF Endings(p) = {} THEN UNCHANGED runs
       ELSE \E status \in Endings(p) : runs' = Finished(p, status)
    /\ Ends(p)
    /\ UNCHANGED <<src, marked, rebuild, writes, kept>>

\* The process is killed.
Killed(p) ==
    /\ ~At(p, "off") /\ faults < MaxFaults
    /\ faults' = faults + 1
    /\ Ends(p)
    /\ UNCHANGED <<src, marked, rebuild, runs, writes, kept>>

\* A chunk is written or deleted.
WriteChunk(c, v) ==
    /\ writes < RunWrites /\ v # src[c]
    /\ writes' = writes + 1
    /\ src' = [src EXCEPT ![c] = v]
    /\ proc' = [p \in Proc |-> [proc[p] EXCEPT !.quiet = FALSE]]
    /\ UNCHANGED <<marked, rebuild, runs, faults, kept>>

\* reset-evidence: counted with the writes.
Reset ==
    /\ writes < RunWrites
    /\ writes' = writes + 1
    /\ marked' = Nothing /\ rebuild' = TRUE
    /\ proc' = [p \in Proc |-> [proc[p] EXCEPT !.quiet = FALSE]]
    /\ UNCHANGED <<src, runs, faults, kept>>

\* finalize-evidence; what may happen between its scan and its switch is in
\* EdgeEvidence.
Finalize ==
    /\ rebuild /\ Pending = {}
    /\ rebuild' = FALSE
    /\ UNCHANGED <<src, marked, runs, proc, writes, faults, kept>>

-----------------------------------------------------------------------------
Extraction(p) ==
    \/ SelectItems(p) \/ ReadBatch(p) \/ EndExtract(p)
    \/ LoadPage(p) \/ RebuildOver(p) \/ EnoughBatches(p) \/ ReadPage(p) \/ EndRebuild(p)
    \/ Ask(p) \/ StoreBatch(p) \/ Note(p)

RunsNext ==
    \/ \E p \in Proc :
        \/ Extraction(p)
        \/ StartExtract(p) \/ StartRebuild(p) \/ \E r \in Run : Resume(p, r)
        \/ BatchFails(p) \/ Interrupted(p) \/ Killed(p)
    \/ \E c \in Chunk, v \in Version \cup {None} : WriteChunk(c, v)
    \/ Reset \/ Finalize

RunsSpec == RunsInit /\ [][RunsNext]_runsVars

\* A command that was given goes on; an operator who started a rebuild gives
\* its command again after it ended.
RunsFairSpec ==
    /\ RunsSpec
    /\ \A p \in Proc : WF_runsVars(Extraction(p)) /\ WF_runsVars(StartRebuild(p))

-----------------------------------------------------------------------------
(* Properties.                                                             *)

RunsTypeOK ==
    /\ {src, marked} \subseteq [Chunk -> Version \cup {None}]
    /\ runs \in [Run -> RunType \cup {None}]
    /\ \A p \in Proc : proc[p].failures < Tolerated /\ proc[p].attempt <= Retries

\* In the history of `graph extract`, an item is noted as stored only if the
\* version it names was, and a run has stored nothing but what its items
\* name - through resumes, edits, resets and deaths.
SelectionStored ==
    \A r \in Run, c \in Chunk :
        runs[r] # None /\ runs[r].mode = "incremental" /\ runs[r].items[c] # None =>
            LET item == runs[r].items[c]
            IN  /\ item.status = "stored" => <<c, item.version>> \in kept[r]
                /\ \A k \in kept[r] : k[1] = c => k[2] = item.version

\* A rebuild that ends "completed" - ready to finalize - has left nothing
\* pending, if nothing was written since it looked.
CompletedCovers ==
    [][\A p \in Proc : At(p, "page") /\ At(p, "off")' /\ proc[p].quiet
            /\ runs'[proc[p].run].status = "completed" => Pending = {}]_runsVars

\* How far a run gets: every run begins at the first pending chunk and ends
\* after Tolerated failures in a row, and what it put aside is pending again in
\* the next. A batch fails as a whole, so only batches of one chunk put nothing
\* aside but what fails itself.
Ahead(c) == {d \in Chunk : d < c /\ src[d] \in Poison}
WithinReach(c) == BatchSize = 1 /\ Cardinality(Ahead(c)) < Tolerated

\* While a rebuild is active, a chunk the model can extract is extracted in the
\* end unless as many chunks as are tolerated always fail before it: a batch
\* that fails is put aside for the rest of its run, and the run goes on to
\* what comes after it.
RebuildGetsThrough ==
    \A c \in Chunk :
        rebuild /\ WithinReach(c) => src[c] \in Poison \cup {None, marked[c]}
=============================================================================
