--------------------------- MODULE ExtractionWorker ---------------------------
(***************************************************************************)
(* The background worker that extracts concepts from the indexed chunks    *)
(* (graph/worker.py, graph/discovery.py).  What to do it finds by a scan   *)
(* that is repeated only when the sequence numbers of the index change.    *)
(* Failed versions wait in a table of retries that survives restarts.      *)
(*                                                                         *)
(* Time is only what it decides: which retries are due, and their order by *)
(* next_attempt_at.  Delays grow from 30 s to an hour, so a version with a *)
(* short delay may overtake one that waits longer, but only so often.      *)
(***************************************************************************)
EXTENDS ExtractionQueue, Sequences

CONSTANTS
    MaxBatch,   \* MAX_CHUNKS
    MaxLate,    \* how often a retry is overtaken by others with shorter delays
    MaxWrites   \* bound: writes to the index, resets of the markers

ASSUME WorkerAssumption ==
    MaxBatch \in Nat \ {0} /\ MaxLate \in Nat /\ MaxWrites \in Nat

VARIABLES
    visible,   \* what a search finds of it: src as of the last refresh
    seq,       \* sequence number of the last write
    retry,     \* graph_extraction_retries by next_attempt_at
    cache,     \* DiscoveryCache: sources and the snapshot they belong to
    job        \* the worker's tick

workerVars == <<src, visible, seq, marked, rebuild, retry, cache, job, writes, faults>>

Key == Chunk \X Version     \* an input version of a chunk
Unsettled == MaxWrites + 1  \* a snapshot that no sequence number equals

Idle == [pc |-> "poll", before |-> 0, todo |-> {}, got |-> Nothing, batch |-> {}, key |-> <<>>]

WorkerInit ==
    /\ src \in [Chunk -> Source]
    /\ visible = src /\ seq = 0
    /\ marked = Nothing
    /\ rebuild = FALSE
    /\ retry = <<>>
    /\ cache = [sources |-> Nothing, snapshot |-> Unsettled]
    /\ job = Idle
    /\ writes = 0 /\ faults = 0

Lowest(S) == CHOOSE s \in S : \A t \in S : s <= t

-----------------------------------------------------------------------------
(* Retries: [key, due, late], in the order of next_attempt_at.             *)

Scheduled(k) == \E i \in DOMAIN retry : retry[i].key = k
Place(k) == CHOOSE i \in DOMAIN retry : retry[i].key = k
Due(k) == Scheduled(k) => retry[Place(k)].due

WithoutKeys(rows, K) == SelectSeq(rows, LAMBDA e : e.key \notin K)

\* _failed: a new attempt of k after some delay, behind all that are due.
Failed(k) ==
    LET rest == WithoutKeys(retry, {k})
        Overtaken(i) == [rest[i] EXCEPT !.late = @ + 1]
    IN  {SubSeq(rest, 1, n) \o <<[key |-> k, due |-> FALSE, late |-> 0]>>
            \o [i \in 1 .. (Len(rest) - n) |-> Overtaken(n + i)] :
         n \in {m \in 0 .. Len(rest) :
                  /\ \A i \in DOMAIN rest : rest[i].due => i <= m
                  /\ \A i \in (m + 1) .. Len(rest) : rest[i].late < MaxLate}}

\* Mutant of Before: retries first.
BeforeRetriesFirst(j, k) ==
    \/ Scheduled(j) /\ ~Scheduled(k)
    \/ ~Scheduled(j) /\ ~Scheduled(k) /\ j[1] < k[1]
    \/ Scheduled(j) /\ Scheduled(k) /\ Place(j) < Place(k)

\* priority: new versions before retries, retries by next_attempt_at.
Before(j, k) ==
    \/ ~Scheduled(j) /\ Scheduled(k)
    \/ ~Scheduled(j) /\ ~Scheduled(k) /\ j[1] < k[1]
    \/ Scheduled(j) /\ Scheduled(k) /\ Place(j) < Place(k)

FirstKey(S) == CHOOSE k \in S : \A j \in S \ {k} : Before(k, j)

Eligible(pending) == {k \in pending : Due(k)}

\* The first MaxBatch eligible keys.
Selected(pending) ==
    LET E == Eligible(pending)
    IN  {k \in E : Cardinality({j \in E : Before(j, k)}) < MaxBatch}

-----------------------------------------------------------------------------
(* Discovery.                                                              *)

\* Start of a tick: paused by a rebuild; otherwise the first snapshot.
Poll ==
    /\ job.pc = "poll"
    /\ job' = IF rebuild THEN [Idle EXCEPT !.pc = "wait"]
              ELSE IF seq = cache.snapshot THEN [Idle EXCEPT !.pc = "select"]
              ELSE [Idle EXCEPT !.pc = "refresh", !.before = seq]
    /\ UNCHANGED <<src, visible, seq, marked, rebuild, retry, cache, writes, faults>>

Refresh ==
    /\ job.pc = "refresh"
    /\ visible' = src
    /\ job' = [job EXCEPT !.pc = "scan", !.todo = Chunk]
    /\ UNCHANGED <<src, seq, marked, rebuild, retry, cache, writes, faults>>

\* The next page; pages are searched one after the other.
ScanPage ==
    /\ job.pc = "scan" /\ job.todo # {}
    /\ LET c == Lowest(job.todo)
       IN  job' = [job EXCEPT !.todo = @ \ {c}, !.got[c] = visible[c]]
    /\ UNCHANGED <<src, visible, seq, marked, rebuild, retry, cache, writes, faults>>

\* Mutant of Settle: the second snapshot counts even if it differs.
SettleAnyway ==
    /\ job.pc = "scan" /\ job.todo = {}
    /\ cache' = [sources |-> job.got, snapshot |-> seq]
    /\ job' = [Idle EXCEPT !.pc = "select"]
    /\ UNCHANGED <<src, visible, seq, marked, rebuild, retry, writes, faults>>

\* The second snapshot settles the cache only if nothing was written.
Settle ==
    /\ job.pc = "scan" /\ job.todo = {}
    /\ cache' = [sources |-> job.got, snapshot |-> IF seq = job.before THEN seq ELSE Unsettled]
    /\ job' = [Idle EXCEPT !.pc = "select"]
    /\ UNCHANGED <<src, visible, seq, marked, rebuild, retry, writes, faults>>

PendingKeys == {<<c, cache.sources[c]>> : c \in {x \in Chunk : cache.sources[x] \notin {None, marked[x]}}}

\* Mutant of Retired: retries are only removed by a success.
RetiredNever(pending) == retry

\* A complete discovery retires the retries of versions that are not pending.
Retired(pending) ==
    IF cache.snapshot = Unsettled THEN retry
    ELSE SelectSeq(retry, LAMBDA e : e.key \in pending)

Select ==
    /\ job.pc = "select"
    /\ retry' = Retired(PendingKeys)
    /\ job' = IF Selected(PendingKeys) = {} THEN [Idle EXCEPT !.pc = "wait"]
              ELSE [Idle EXCEPT !.pc = "next", !.batch = Selected(PendingKeys)]
    /\ UNCHANGED <<src, visible, seq, marked, rebuild, cache, writes, faults>>

-----------------------------------------------------------------------------
(* Extraction of the selected versions, one after the other.               *)

Proceed == [job EXCEPT !.pc = IF job.batch = {} THEN "wait" ELSE "next", !.key = <<>>]
Invalid == [cache EXCEPT !.snapshot = Unsettled]

\* Between requests the rebuild flag is read again; then the chunk itself.
\* What is not the selected version any more makes the cache stale.
Fetch ==
    /\ job.pc = "next"
    /\ LET k == FirstKey(job.batch)
           rest == [job EXCEPT !.batch = @ \ {k}]
       IN  IF rebuild THEN job' = [Idle EXCEPT !.pc = "wait"] /\ UNCHANGED cache
           ELSE IF src[k[1]] = k[2]
                THEN job' = [rest EXCEPT !.pc = "check", !.key = k] /\ UNCHANGED cache
                ELSE /\ job' = [rest EXCEPT !.pc = IF rest.batch = {} THEN "wait" ELSE "next"]
                     /\ cache' = Invalid
    /\ UNCHANGED <<src, visible, seq, marked, rebuild, retry, writes, faults>>

Fails ==
    /\ retry' \in Failed(job.key)
    /\ job' = Proceed
    /\ UNCHANGED <<src, visible, seq, marked, rebuild, cache, writes>>

\* extract_pending refuses to run during a rebuild; the worker takes that as
\* a failure of the chunk.
Check ==
    /\ job.pc = "check"
    /\ IF rebuild THEN Fails /\ UNCHANGED faults
       ELSE /\ job' = [job EXCEPT !.pc = "infer"]
            /\ UNCHANGED <<src, visible, seq, marked, rebuild, retry, cache, writes, faults>>

\* The chunk is read once more, and the model asked.
Infer ==
    /\ job.pc = "infer"
    /\ IF src[job.key[1]] # job.key[2]
       THEN /\ cache' = Invalid /\ job' = Proceed
            /\ UNCHANGED <<src, visible, seq, marked, rebuild, retry, writes, faults>>
       ELSE IF job.key[2] \in Poison THEN Fails /\ UNCHANGED faults
       ELSE /\ job' = [job EXCEPT !.pc = "store"]
            /\ UNCHANGED <<src, visible, seq, marked, rebuild, retry, cache, writes, faults>>

\* store_concepts refuses a version that is not current: a failure again.
Store ==
    /\ job.pc = "store"
    /\ IF src[job.key[1]] # job.key[2] THEN Fails /\ UNCHANGED faults
       ELSE /\ marked' = [marked EXCEPT ![job.key[1]] = job.key[2]]
            /\ job' = [job EXCEPT !.pc = "clear"]
            /\ UNCHANGED <<src, visible, seq, rebuild, retry, cache, writes, faults>>

\* The marker is read back before the result counts: a rebuild that was
\* prepared meanwhile has dropped it.
Clear ==
    /\ job.pc = "clear"
    /\ IF marked[job.key[1]] # job.key[2] THEN Fails /\ UNCHANGED faults
       ELSE /\ retry' = WithoutKeys(retry, {job.key})
            /\ job' = Proceed
            /\ UNCHANGED <<src, visible, seq, marked, rebuild, cache, writes, faults>>

\* The wait between ticks ends.
Wake ==
    /\ job.pc = "wait"
    /\ job' = Idle
    /\ UNCHANGED <<src, visible, seq, marked, rebuild, retry, cache, writes, faults>>

Worker ==
    \/ Poll \/ Refresh \/ ScanPage \/ Settle \/ Select
    \/ Fetch \/ Check \/ Infer \/ Store \/ Clear \/ Wake

-----------------------------------------------------------------------------
(* Outages and deaths.                                                     *)

\* Elasticsearch fails during discovery: the cache is invalidated.
DiscoveryFails ==
    /\ job.pc \in {"poll", "refresh", "scan"} /\ faults < MaxFaults
    /\ faults' = faults + 1
    /\ cache' = Invalid
    /\ job' = [Idle EXCEPT !.pc = "wait"]
    /\ UNCHANGED <<src, visible, seq, marked, rebuild, retry, writes>>

\* Elasticsearch or the model fails for the chunk being extracted.
RequestFails ==
    /\ job.pc \in {"check", "infer", "store"} /\ faults < MaxFaults
    /\ faults' = faults + 1
    /\ Fails

\* The worker is stopped or killed, and started again with an empty cache.
Restart ==
    /\ faults < MaxFaults
    /\ faults' = faults + 1
    /\ cache' = [sources |-> Nothing, snapshot |-> Unsettled]
    /\ job' = Idle
    /\ UNCHANGED <<src, visible, seq, marked, rebuild, retry, writes>>

-----------------------------------------------------------------------------
(* The rest of the system.                                                 *)

\* A chunk is written or deleted, with or without a refresh.
Write(c, v) ==
    /\ writes < MaxWrites /\ writes' = writes + 1
    /\ v # src[c]
    /\ src' = [src EXCEPT ![c] = v] /\ seq' = seq + 1
    /\ visible' \in {visible, src'}
    /\ UNCHANGED <<marked, rebuild, retry, cache, job, faults>>

\* A rebuild is prepared: all markers are dropped.
PrepareRebuild ==
    /\ writes < MaxWrites /\ writes' = writes + 1
    /\ ~rebuild /\ rebuild' = TRUE
    /\ marked' = Nothing
    /\ UNCHANGED <<src, visible, seq, retry, cache, job, faults>>

\* The rebuild, or a client of the MCP server, stores the concepts of a chunk.
StoreElsewhere(c) ==
    /\ src[c] # None /\ marked[c] # src[c]
    /\ marked' = [marked EXCEPT ![c] = src[c]]
    /\ UNCHANGED <<src, visible, seq, rebuild, retry, cache, job, writes, faults>>

FinishRebuild ==
    /\ rebuild /\ rebuild' = FALSE
    /\ \A c \in Chunk : visible[c] \in {None, marked[c]}
    /\ UNCHANGED <<src, visible, seq, marked, retry, cache, job, writes, faults>>

\* Time passes: the next retry becomes due.
Advance ==
    /\ \E i \in DOMAIN retry :
          /\ ~retry[i].due /\ \A j \in 1 .. (i - 1) : retry[j].due
          /\ retry' = [retry EXCEPT ![i].due = TRUE]
    /\ UNCHANGED <<src, visible, seq, marked, rebuild, cache, job, writes, faults>>

WorkerNext ==
    \/ Worker \/ DiscoveryFails \/ RequestFails \/ Restart
    \/ \E c \in Chunk, v \in Source : Write(c, v)
    \/ \E c \in Chunk : StoreElsewhere(c)
    \/ PrepareRebuild \/ FinishRebuild \/ Advance

WorkerSpec == WorkerInit /\ [][WorkerNext]_workerVars

\* The worker's loop runs, and time passes.
WorkerFairSpec == WorkerSpec /\ WF_workerVars(Worker) /\ WF_workerVars(Advance)

-----------------------------------------------------------------------------
(* Properties.                                                             *)

Entry == [key : Key, due : BOOLEAN, late : 0 .. MaxLate]
Points == {"poll", "refresh", "scan", "select", "next", "check", "infer", "store", "clear", "wait"}

WorkerTypeOK ==
    /\ src \in [Chunk -> Source] /\ visible \in [Chunk -> Source]
    /\ marked \in [Chunk -> Source] /\ rebuild \in BOOLEAN
    /\ seq \in 0 .. MaxWrites /\ writes \in 0 .. MaxWrites /\ faults \in 0 .. MaxFaults
    /\ retry \in Seq(Entry)
    /\ \A i, j \in DOMAIN retry : retry[i].key = retry[j].key => i = j
    /\ cache \in [sources : [Chunk -> Source], snapshot : 0 .. MaxWrites + 1]
    /\ job \in [pc : Points, before : 0 .. MaxWrites, todo : SUBSET Chunk,
                got : [Chunk -> Source], batch : SUBSET Key, key : Key \cup {<<>>}]

\* While the sequence numbers are those of the cached snapshot, the cache has
\* the current version of every chunk: no write, refreshed or not, is hidden
\* "behind an unchanged checkpoint" (DiscoveryCache), so ticks that skip the
\* scan miss nothing.
NothingHidden == cache.snapshot = seq => cache.sources = src

\* Every chunk that can be extracted is extracted in the end, however many
\* poisonous versions come back for another attempt and whatever outages,
\* deaths and changes of the index came before; unless a rebuild, which
\* pauses the worker, is never finished.
EveryChunkExtracted ==
    <>[]~rebuild => <>[](\A c \in Chunk : src[c] \in Poison \cup {None, marked[c]})

\* The table of retries does not fill up with versions that are replaced,
\* deleted or extracted by somebody else: in the end all it holds is pending.
RetriesRetired ==
    <>[]~rebuild =>
        <>[](\A i \in DOMAIN retry :
                LET k == retry[i].key IN src[k[1]] = k[2] /\ marked[k[1]] # k[2])
=============================================================================
