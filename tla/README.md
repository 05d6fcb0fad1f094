# Verification of personal-docs (`pkb`)

`pkb` keeps a personal library of Markdown documents searchable: the files under
`data/` are the source of truth, Elasticsearch holds an index of their chunks with
embeddings, a SQLite file holds a graph of the concepts a language model found in
the chunks, and an MCP server, a command line and background processes work on all
of it at once. There is no database transaction across the three stores. What keeps
them together is the order in which the code reads and writes, and that is what this
directory specifies in TLA+, checks with TLC and, where it matters most, proves with
TLAPS. Paths below are relative to `src/src/pkb/` of the repository.

How to run: `tlc -workers 2 -config X.cfg M` for a run listed in section 3, `tlapm M.tla`
for the proofs. The header comment of every module says what its abstraction is.

## 1. Inventory

| component | state | operations | hard behaviours | what makes it correct |
|---|---|---|---|---|
| Document index (`ingest.py`, `store.py`, `documents.py`) | files; `chunks` index, one entry per `(doc_id, chunk_index)`; `documents` index, a derived row per document | ingest, sync, archive, restore, purge, delete, prune | several processes without a lock; bulks that fail in part; death between two calls | a stored vector is the vector of the stored text; a row is right or owed; a completed sync equals the tree; archive marks follow what archive and restore say |
| Chunking (`ingest.py`) | none that lasts | sections, blocks, overlap, joining | fences and tables that are cut, limits of size, headings without a body | all of the text, within the limit, under its own headings, code closed |
| Embedding runtime (`embedding_runtime.py`) | `active.json`, `job.json`, a `flock`, per-generation stores | `embedding_operation`, configure, detached worker, status with repair | lock handed to a child; kill and power loss between renames; a model tag that moves | one vector space; no switch in the middle of an operation; the job file tells the truth; the exclusive lock is let go |
| Re-embedding (`reembed.py`, `ollama_embeddings.py`, `embeddings.py`) | a new store being filled | copy and embed, digest checks | the model behind the tag changes during a batch | see above |
| Graph alignment (`graph/store.py`, `graph/services.py`, `ingest.py`) | `concept_mentions`, `extracted_chunks`, `documents`, `mention_count` | realign after re-chunking, `store_concepts`, purge, prune | results for replaced chunks; overlapping calls; swallowed failures | mentions and markers follow their chunks; a marker implies its mentions; counts are exact |
| Names and curation (`graph/store.py`) | `concepts`, `concept_aliases`, `concept_curation` | store, lookup, curate, merge | namespaces; slugs that are freed and given again; several merges | two ways to look a name up agree; no name and no curation is lost |
| Edge evidence (`graph/store.py`, `graph/ontology.py`, `graph/schema.py`) | `concept_edge_evidence`, `concept_edges`, the rebuild flag, markers | `add_edge`, clear, realign, purge, reset, finalize, merge, rekey | a staged table beside a served one; a merge changes both; flags read before the transaction | edges are the counts of evidence; no cycles; service unchanged during a rebuild |
| Extraction worker (`graph/worker.py`, `graph/discovery.py`) | discovery cache, retry table, the tick | scan, batch, extract, settle, wait, restart | writes racing the scan; poison versions; outages; rebuilds | the cache hides no write; every extractable chunk is extracted; obsolete retries go away |
| Extraction runs and rebuild (`graph/extraction.py`, `graph/extraction_history.py`, `graph/rebuild.py`) | run and item rows, what a rebuild puts aside | select, ask, store, note, resume, next batch, end | death between storing and noting; a chunk replaced under way; batches that keep failing | the history names what was stored; "completed" means nothing pending; a rebuild gets past what fails, up to the number that ends a run |
| Operations and watch (`operations.py`, `cli.py`, `files.py`) | files, the marker of the last sync, the snapshot of watch | write, patch, watch, reconcile, stale | a hash compared without a lock; edits during a poll; deletions held back | a changed file is reported; watch catches up |
| Attachments, imports (`attachments.py`, `imports.py`, `import_versions.py`) | partial uploads, import cards, version slots | put, import, migrate | two senders of one path; death in a call or a migration | a file in place is one sender's; a slot has one card; a plan can always be finished |
| Media (`media.py`, `media_sync.py`) | vectors of images and audio | list, get, embed, put, prune | files edited under way; partial bulks; calls given up that go on | what is listed as done has the vectors of its content |
| Model holder (`idle_model.py`, `rerank.py`) | a loaded model, a timer | use, release | the timer comes due early or in use | released in the end |
| Retrieval (`retrieve.py`) | none that lasts | rankings, fusion, variants, rerank, boost, limit | ties; negative scores; absent hits | what all queries agree on is kept; a boost only lifts |
| Graph queries (`graph/query.py`, `graph/visibility.py`) | views of a connection | neighbourhoods, paths, closure | merges between statements; restricted readers; limits | what is returned exists and is nearest |
| Access policy (`access.py`) | the parsed policy, its time stamp | decide, filter, list, reload | an edit under way in another thread; rules in rules | three forms of one decision agree; an edit takes effect |
| MCP server, CLI (`mcp_server.py`, `cli.py`) | none of their own | tools and commands | see the parts they call | - |
| Configuration, reports, evaluation (`config.py`, `report.py`, `search_log.py`, `eval.py`, `answer_eval.py`, `scripts/`) | none of interest | - | - | - |

**How they interact.** Every tool call and most commands run inside
`embedding_operation` (shared lock, one manifest). `ingest_files` chunks a file, writes
the chunk index, then the document rows, then realigns the graph in a transaction of
its own. `sync` ingests the tree, prunes documents without a file and prunes the graph
of documents that are not in the index. `watch` calls the same ingest for what changed.
The extraction worker and the extraction commands read the chunk index and the markers,
extract, and store through `store_concepts`, which checks hashes against the index
before its transaction. A rebuild drops markers and evidence; the worker waits while it
is active; `finalize-evidence` switches. Searches and graph reads go through the
access policy.

The hazards this leads to are listed in `PROJECT.json` at their lines, each with the
properties that would catch it.

## 2. Modules

| module | models | code behind it |
|---|---|---|
| `DocIndex`, `MCDocIndex` | document index, archive life cycle, sync | `ingest.py` 721-1064, 1175-1200; `store.py` 331-624; `documents.py`; `operations.py` 619-642 |
| `Chunking` | from a text to chunks | `ingest.py` 364-639 |
| `ActiveStore` | what the embedding runtime promises | |
| `EmbeddingRuntime` | manifest, job, lock, worker, status | `embedding_runtime.py`, `reembed.py`, `ollama_embeddings.py` |
| `GraphAlign`, `MCGraphAlign` | mentions, markers and counts beside the index | `graph/store.py` 700-830, 1089-1290; `graph/services.py` 228-403 |
| `ConceptNames`, `MCConceptNames` | names, aliases, curation, merges | `graph/store.py` |
| `EdgeEvidence`, `MCEdgeEvidence` | relations, evidence, rebuild, merge | `graph/store.py` 870-1120, 1162-1273, 1489-1836; `graph/schema.py`; `cli.py` 1250-1309 |
| `ExtractionQueue` | what the two below work on: index, markers, rebuild flag, what is pending | `graph/services.py` 33-77; `graph/store.py` 1317-1331, 1489-1493 |
| `ExtractionWorker` | the worker, its cache and its retries | `graph/worker.py`, `graph/discovery.py`, `graph/extraction.py` |
| `ExtractionRuns` | `graph extract`, `rebuild-evidence-local` and their history | `graph/extraction.py`, `graph/rebuild.py`, `graph/extraction_history.py` |
| `SourceFiles` | files, writers, editors and watch | `operations.py` 466-616; `cli.py` 831-929; `ingest.py` 1175-1200 |
| `Uploads` | attachments in pieces | `attachments.py` |
| `ImportCards` | import cards and the migration of their slots | `imports.py`, `import_versions.py` |
| `IdleModel` | the holder of a model | `idle_model.py` |
| `MediaSync` | vectors of images and audio | `media.py`, `media_sync.py` |
| `Retrieval` | the ranking of a search | `retrieve.py` |
| `GraphReads` | searches in the graph | `graph/query.py`, `graph/visibility.py` |
| `AccessPolicy` | decisions and the cached policy | `access.py` |
| `MCExtraction`, `MCSources`, `MCServing` | compositions, see below | |
| `DocIndexProofs`, `EmbeddingRuntimeProofs`, `GraphAlignProofs`, `EdgeEvidenceProofs` | theorems about the module of that name | |
| `ExtractionProofs` | theorems about `ExtractionWorker` and `ExtractionRuns` | |
| `SourcesProofs` | theorems about `ImportCards`, `Uploads` and `SourceFiles` | |
| `QueryProofs` | theorems about `GraphReads` and `Retrieval` | |
| `ServingProofs` | theorems about `ConceptNames`, `AccessPolicy` and `MediaSync` | |

`PROJECT.json` maps every definition to its lines. Definitions named *Mutant of X*
are alternatives of X with a plausible bug; for each property one of them makes the
property fail, which shows that the run can see such a bug.

**Compositions.** `ExtractionWorker` and `ExtractionRuns` extend `ExtractionQueue`:
one index, one set of markers and one rebuild flag. `MCExtraction` extends both. In a behaviour one of the two is at
work, chosen by `scene`; to each, the other is somebody who stores concepts or writes
chunks, which both modules have as actions. `MCSources` and `MCServing` hold components
that share no state with each other: a behaviour is one of them, chosen at the start,
and the others stand still. That is a way of running several specifications at once and
says nothing about their interplay.

**DocIndex.** `file`, `es`, `rows` are the tree and the two indices; `job[w]` is the call
a process executes with its local variables (`pc` names the place). Every call to
Elasticsearch is one step, so everything may happen between `get_existing_chunks`
(`ReadExisting`), the copying of vectors of moved chunks (`CopyVectors`), the bulk
(`Apply`; in part if it may fail), and the refresh of rows (`ReadRow`, `WriteRows`).
A text stands for a chunk's embedding input; equal texts are equal fingerprints.
The archive mark stands for the fields ingest carries over. A file that came out empty is
read again before its document is dropped (`ReadAgain`), and an empty one whose text
is extracted from another format (`Converted`) ends the call with an error. A bulk and a
deletion by query may take effect chunk by chunk (`Landed`).

**Chunking.** A line has a kind, a heading level and a length in tokens. Three things
are simpler than in the code: tokens add up (the encoder's need not), a character is never
split by a cut (the code carries its bytes over to the next piece), and headings of one
level have one title. A section and a block are lines in a row. Every turn of a loop is an
action: a line of the split by headings (`TakeLine`), of the blocks (`TakeBlockLine`) and of a
block that is cut (`TakeRow`), a block (`TakeBlock`), a paragraph (`TakePart`) and a position of
`_merge_tiny_chunks` (`MergeChunk`). The code builds each list of sections, of blocks and of
paragraphs before it reads it, and so does the model; it cuts one section after the other.
`Balanced` is about documents that close their code and whose fences leave room in a chunk
(`FencesFit`): the code cuts a block with longer fences as plain lines.

**EmbeddingRuntime.** `fs` and `disk` hold both files before and after a power loss
(a rename is visible before its directory is synced; a directory sync itself does not
fail; the kernel writes back what a killed process renamed). `shared` and `excl` are
the `flock`, `excl` per descriptor because the parent hands it to the child. Digests
number the models a tag may name, and the tag may move to any of them at any time. An
embedding call is three steps: a check of the digest, the vectors, a second check with
the write. `stray` is a history variable with the chunks written by a call during
which the tag left the pinned model and came back, which neither check can see;
`OneVectorSpace` excepts exactly these. A status call reads the job, takes the lock and
reads again, in three steps. "queued" and "running" are one
status, "pending". Failures of media or counts during a migration appear as one
failing step. `ActiveStore` is the promise: writes stay, switches keep content, and
it is implemented under the mapping `Abstract`.

**GraphAlign.** Python's `sqlite3` opens a transaction at the first write. What a
function reads before is a step of its own (`Peek`), which `Window = TRUE` separates
from the transaction; `MayFail` lets realigns fail, which ingest logs and swallows.
`Faithful` (a marked chunk has exactly its own concepts) is about behaviours in which
calls did not overlap and no realign failed; `MarksBacked` and `CountsExact` are about all.

**ConceptNames.** A name is a sequence of words, so that a name can spell the slug
another concept was given by appending a suffix. `into` is history: what every concept
has become by merges.

**EdgeEvidence.** `evidence` is a set of (chunk, edge), `edges` maps an edge to its
`evidence_count`. `is_a` stands for the acyclic relations, `related_to` for the symmetric
ones. `marked` are the slots with an extraction marker, `current` those whose marker is for what
the slot holds now: the hash of a version covers the slot, the title and the category, so
`Realign` keeps the marker of a moved chunk and the chunk is pending again, and `Retitle`
makes all pending without moving any. Reachability is defined by closed sets, not by recursion. `StoreReads`/`StoreLate`
and `PurgeReads`/`PurgeLate` are calls overtaken between their reads and their
transaction; a merge is one transaction (`BEGIN` before its reads, so that SQLite
refuses the upgrade if another commit intervenes). The history variable `raced`
remembers that a rebuild began or ended under a store, or rows came under a purge;
the properties of what is served hold up to that point, and the run
`edge_evidence_race` shows what happens after it.

**ExtractionWorker.** A version stands for content and input hash of a chunk. `cache`
is the discovery cache with the sequence numbers it belongs to, `retry` the retry
table in order of `next_attempt_at`. Time is only what it decides: a retry may be
overtaken by others with shorter delays at most `MaxLate` times (delays are 30 s to
1 h). The worker lock makes it one worker.

**ExtractionRuns.** `runs` is the history, `proc[p]` what a command does, `kept` a
history variable with what each run stored. Storing and noting are two transactions,
and a process may die or be interrupted between them; `Endings` says which status an exception
leaves behind. Who writes chunks refreshes the index in the same call (`store.py` 389), so
what is pending is computed from the chunks themselves; the worker's discovery, which
may meet a write before its refresh, has an action for it.

**SourceFiles.** A file has a moment `at` of its last change, which stands for its
signature (time and size) and tells two changes apart, and a modification time `mtime`,
which `stale` compares with the marker. A write gives both the time of the clock; a file
that is moved in, copied with its times or synchronized from another device keeps an
older `mtime` (`Arrive`). Writing truncates and then fills; readers may see the empty file. `missed` is a
history variable with the two kinds of changes watch is known to pass over (section 4).

**Uploads, ImportCards.** A call under the lock is one step, or a prefix of one when the
server is killed; senders do what the answers tell them. A migration is a step per card,
with a backup before and a seal that edits break.

**MediaSync.** A download remembers the content each part was read from. A put is two
steps, the check of the digest and the bulk, because the server runs its tools in
threads; `torn` is a history variable with the files whose bulk failed in part or whose upload met
another one on the server (`crossed`; items of two bulks may come in any order), until an
upload that met no other has succeeded. A run whose backend changes between two pages
of its list ends with an error (`SwitchModel`). The list of a run is a set of entries with their
places in the pages of the server, and `listed` counts them, which is the offset of the
next page. Files are numbers, in the order of the listing.

**GraphReads.** `evidence`, `served` and `mentions` are three tables, since during a rebuild the served
edges are not those with evidence: a restricted reader sees concepts with a readable mention
or readable evidence, and served edges with readable evidence. One action per SQL statement: the two views of a restricted reader, the
roots, each visited concept, each returned concept. A merge by another process may come
between any two; the properties speak of reads no merge came into, the actions do not.

**AccessPolicy.** `history` are the contents of the file in order; a request reads the
time stamp, the file and the cache in the order of the code.

**Retrieval.** Scores are exact, in parts of `Unit`: for the runs a common multiple of the
denominators, so that ties are the ties of the code; for the theorems any number, so that a
quotient may be rounded. A sorted list is written by the number of entries before each entry
(`Arranged`), which is what a stable sort gives.
What Elasticsearch and the cross-encoder answer is any of a set. Versions of one law are groups
of their own (`GroupOf`).

## 3. Runs

| run | instance | states | shows |
|---|---|---|---|
| `document_lifecycle` | `MCDocIndex`: 2 documents, 2 texts, 2 slots, 2 marks, one writer | 342 000 | `RowsOwed`: a row is right or still owed by a call; `ArchiveFollows`: archive marks survive ingest and follow restore |
| `document_failures` | `DocIndex`: 1 document, failures, 1 mark | 778 000 | `VecFaithful`: vectors belong to their texts; `SyncConverges`: a completed sync equals the tree |
| `embedding_runtime` | 2 processes, 1 status caller, 1 chunk, 2 migrations, 2 digests | 124 000 | `OneVectorSpace`, `OneGeneration` (no switch underway), `JobTruth`, `Exclusive`, refinement of `ActiveStore`, `BusyEnds` |
| `graph_align` | 1 document, 2 processes with failures, 2 texts, 3 slots | 1 321 000 | `MarksBacked`, `CountsExact`, `Faithful`, `MentionsFollow` |
| `edge_evidence` | 3 concepts, 2 chunks, 2 rows, 1 merge, 2 legacy edges | 189 000 | `Materialized`: edges are counts; `Acyclic`; `EvidenceMarked`: no evidence without a marker; `ServiceKept` in a rebuild |
| `extraction` | `MCExtraction`: 2 or 3 chunks, a normal and a poison version, 1 or 2 writes, 1 fault, 1 terminal, batch 1 | 608 000 | worker: `NothingHidden`, `WorkerExtracts`, `RetriesRetired`; commands: `SelectionStored`, `CompletedCovers`, `EverExtracted` |
| `sources` | `MCSources`: 2 files and 1 writer with watch; 2 senders; 3 cards and 2 processes; 2 users of a model | 843 000 | `StaleTells`, `WatchCatchesUp`; `WholeFile`; `ImportsSound`; `IdleFreed` |
| `serving` | `MCServing`: see below | 1 121 000 | `LookupAgrees`, `NamesKept`, `CurationFollows`; `NeighbourhoodExact`, `ChainsExact`; `FilterExact`, `PolicyFresh`; `ChunksFaithful`; `MediaExact`; `RankingFair` |
| `two_writers` | 2 writers on one document | violation | a vector stored under the fingerprint of another text |
| `failed_row` | a row write that fails | violation | the row stays stale although chunks look unchanged |
| `edge_evidence_race` | reset under a store | violation | a served relation loses evidence in a rebuild |
| `lost_update` | 2 writers that name a hash | violation | a save is overwritten by a write that named another hash |

**Bounds.** Two slots are enough for moves, swaps, growth and loss of chunks; three in
the serial behaviours of `graph_align` for rotations. In `document_lifecycle` one document
has all texts and marks, or two documents have one chunk each, of which one is outside
`data/` (`MCDocIndex!Bounded`). Two writers, or one writer and edits of the files, give
every pairwise interleaving. Two migrations give a switch from and to an Ollama
store, and two digests a tag that leaves and comes back; one chunk is enough, as a store is
one generation's or not chunk by chunk, and a count differs by it. In `edge_evidence` the asserted relations are chosen such that a merge can make
two of them equal, turn a symmetric one round and close a cycle. Its bound on what
waits is one call at a time, and a behaviour is followed up to its first race; one that starts with legacy edges, as
long as the markers are for what their slots hold and no call waits (`LegacyBounded`); and markers
for other versions only while no purge waits, which looks at none (`VersionsBounded`). The
extraction worker needs batch 1 and a poison version to compete for it; the commands
have two writes, which replace a chunk under way and put it back. Both have two chunks; the queue
of a rebuild that nobody writes under has three, of which two may always fail, as many as
end a run (`Tolerated = 2`), so that the chunk behind them shows what `EverExtracted` has to
except. In `sources` a file that is moved in is older than every marker (`ArrivalsOld`; times in
between add states and no cases, as the marker is the only time it is compared with), there are two files,
of which one is curated and one has a name that is not in normal form, and a threshold of
one deletion; pieces of two bytes of files of three and two, so that both senders can be
in the middle; three cards of two categories with a plan for two. In `serving` three
namespaces are needed for a name that is ambiguous, three concepts for two merges in a
row; four concepts, a cycle and three nodes for the limits of a search; rules in rules in
rules with a policy that opens what the other closes, two threads and two edits; documents
of five lines over three alphabets with a limit of four tokens and an overlap of one, which
cut, carry, repeat fences and heads and join; two clients, one medium of two parts, one
change and one failure. Symmetry is used in runs without liveness only.

**Fairness.** `EmbeddingRuntime!FairSpec`: a configure call that has begun, the worker
once spawned, and a status call that has begun go on running unless they are killed;
operations may stay inside forever, and nothing forces kills, power losses or moved
tags. `ExtractionWorker`: the worker's loop runs (it is a daemon thread that never waits
for anything but a timer), and time passes, so that retries become due. Writes, outages,
deaths and rebuilds are not fair; faults are bounded, which says that outages end, and the
two liveness properties of the worker have the end of rebuilds as a premise, because it
pauses as long as one is active (`graph/worker.py` 140). `ExtractionRuns`: a command that
was given goes on, and an operator gives the rebuild command again after it ended; without
that a chunk put aside in the last run would stay pending, by design. Repeating the
command does not help a chunk behind `Tolerated` or more that always fail (section 4). `SourceFiles`: watch
goes on polling until it is stopped. `IdleModel`: time passes, a use ends, and the timer,
which waits for a lock, gets it in the end (strong fairness: users may take the lock
again and again, and Python's lock promises no order). The safety properties need no
fairness. `CHECK_DEADLOCK FALSE` stands in `sources`, `lost_update` and `serving`, whose
parts come to an end (an answer was given, all bounds are used).

`docs/auto-graph-extraction.md` promises that one failing document does not stop the
others, which is part of `WorkerExtracts`; the worker asks for one chunk at a time. A
rebuild asks for batches, and a batch that fails is put aside as a whole, with whatever else is
in it; and every run begins at the first pending chunk and ends after `Tolerated` failures in a
row. `EverExtracted` is therefore about chunks `WithinReach`: batches of one, and fewer than
`Tolerated` chunks before it that always fail.

## 4. What the violations say, and known limits

* The comment in `cli.py` 892-893 holds that slot deltas make duplicate ingests
  harmless. They do for texts, not for the vectors copied by slot (`two_writers`).
* `ingest.py` 1060 relies on unchanged documents having right rows; after a failed
  row write they do not (`failed_row`).
* `reset-evidence` promises that existing relations stay until the switch;
  `store_concepts` decides whether to touch them before its transaction
  (`edge_evidence_race`).
* `mcp_server.py` 372 offers `expected_hash` against concurrent changes; the file is
  compared before the policy of the document is resolved and written after it, without
  a lock (`lost_update`).

Limits that the properties except, each with its condition in the formula:

* `graph/store.py` 731 explains why markers and mentions must go together, but a
  realignment reads mentions before its transaction: with `Window = TRUE`, `MarksBacked` is
  violated. The run has `Window = FALSE`.
* An edit between the reading of a file by `reconcile` and the first snapshot of watch
  looks fresh (`ingest.py` 1195, `cli.py` 889), and deletions over the threshold are not
  reported again (`cli.py` 923): `missed` in `StaleTells` and `WatchCatchesUp`.
* A file that arrives with an older modification time is not reported by `stale`, which compares
  times with the marker and nothing else (`cli.py` 795): `Backdated` in `StaleTells`. Watch
  compares signatures and sees it, and so does a sync. A change that leaves a file's time and
  size as they were is seen by neither and is not modelled.
* A tag that leaves the pinned model and comes back between the two checks of one embedding
  call (`ollama_embeddings.py` 110, 118) lets the other model's vectors in: `stray` in
  `OneVectorSpace`.
* Chunks that always fail at the head of the queue of `rebuild-evidence-local` end every run
  before it gets to those behind them (`graph/rebuild.py` 409, 556-559: what is put
  aside is forgotten with the run): `WithinReach` in `EverExtracted`.
* A document that another process archives after a sync has listed what is stale is deleted with
  its archive mark (`operations.py` 640), and one it archives or writes while `purge_archived`
  works may lose chunks without its row being refreshed (`store.py` 612). The properties about
  prunes and rows are about one writer.
* `finalize-evidence` looks for pending chunks and switches later (`cli.py` 1299, 1303), so what is
  written in between is switched unread and pending afterwards; and rows of evidence that come
  under a purge are deleted without a recount of their edges (`graph/store.py` 1110):
  `raced` in `Materialized`.
* A moved chunk keeps its evidence under a marker for its earlier slot (`graph/store.py` 1264)
  and is extracted again, although its text is the same.
* A realignment that fails is logged and given up (`ingest.py` 1086): mentions stay at slots with
  other texts until those are extracted again. No property notices it.
* Two edits of the policy file with one time stamp and size are one to `load_policy`
  (`access.py` 296). In `AccessPolicy` each edit has its own.
* A rebuild that another process ends, or that is killed, leaves its run "running"; its
  history adds no second item for a chunk, so a chunk stored again keeps the older
  version there. `SelectionStored` is therefore about `graph extract`.
* A name that spells the slug of another concept means that concept in one lookup and
  not in the other; `LookupAgrees` excepts it. A row without a namespace takes part in
  every category, also one whose plain slug was freed before. A concept that was merged
  away is made anew when its name is extracted again, because extraction matches no
  aliases; the lookups then agree on the new one.
* A graph read into which a merge falls may answer with an error for a concept that is
  gone (`_concept_by_id`), or with a chain the graph no longer has.
* A recording whose upload met another one, or whose bulk failed in part, may keep
  segments of an older content and still be listed as indexed, as only its first chunk
  is looked at (`media.py` 590); and a list that shrinks between two pages hides entries
  from that run. Of the two parts of
  `MediaExact`, `IndexedIsWhole` excepts `torn` files and `CleanRunLeavesNone` runs that were not
  `calm`, or that began while another client was at work: an upload checked before may land
  after a run has ended cleanly.

## 5. Proofs

All theorems are for any values of the constants that satisfy the named assumptions of
the module (finite sets of numbered documents or chunks, bounds in `Nat`). Where a theorem
has a premise, it is named here with the reason; the runs show what happens without it.
Most invariants of the runs are not inductive alone. What a call has read and not yet
used is in its local variables, so nearly every strengthening says what a call that is
at a certain place may still rely on.

* `DocIndexProofs`. `TypeCorrect` (for any number of writers) extends the type invariant by
  what each place in a call may rely on (`Ready`: the plan of a document that is being
  written is a plan for its slots). The other theorems are about one writer
  (`SingleWriter`), because the code takes no lock and `two_writers` shows what a second one
  does; people edit files all the while.
  * `VectorsFaithful`: `VecFaithful`, with failures. While the writer is about to copy vectors
    (`pc = "copy"`), the texts it read before are those the index holds (`SameTexts`), and
    every vector in its delta is the one of the text it will be stored with.
  * `SyncRecovers`: `SyncConverges`, with failures.
    `SnapInv`: what a call read of the index is what the index holds, and what a prune has
    listed is still not archived. `SyncInv` follows every file that has not changed since
    its scan through the sync (`Handled`): to be read, planned, in the delta, or equal to
    its chunks, wherever earlier calls stopped.
  * `NoRowForgotten`, `UnchangedAreRight`, `ArchiveIsKept`: `RowsOwed`, `UnchangedRowsAreRight`,
    `ArchiveFollows`, without failures (`~MayFail`), because after one a row is stale for good
    (`failed_row`). `RowInv`: a wrong row is due in the call (`Owing`), and what the call has
    counted but not written is right. `MarkInv`: all chunks of a document have one mark,
    in the index and in every planned delta, and a restore at its last row has cleared it.
* `EmbeddingRuntimeProofs`. `TypeCorrect`, `MutualExclusion` (the lock invariant: who holds
  a descriptor at which place; so a configure call until it hands over, the worker and a
  repairing status call exclude each other and every operation), `NoSwitchUnderway` (an operation's configuration is the
  manifest's, for a switch needs the exclusive lock), `JobsReportTruth` (adds what `disk`
  may lag behind `fs`), `OneSpace` (adds which digest the vectors on their way have, unless the tag
  came back in their call, and that a store under construction has one space but for such), and `Refinement` of `ActiveStore`.
* `GraphAlignProofs`. `TypeCorrect` without a premise. `NoOrphanMarkers`, `CountsStayExact` and
  `MentionsKept` have the premise `Undivided`: behaviours in which nothing comes between the
  reads of a call and its transaction (`~Window`, as in the run) or calls follow each
  other; calls overlap everywhere else, and realigns fail. `AllCurrent`: what a call that is
  about to commit has read is what the graph holds. `CountsExact` rests on facts about
  finite sets: recounting the concepts of the documents a call writes leaves every other count
  right. `ExtractedIsFaithful` needs no premise, `Faithful` having its own. `SerialFits` says
  how graph and index lie to each other at each place of the one call under way, and
  `Excused` which document may be apart meanwhile.
* `ExtractionProofs`, worker. `NoWriteHidden`: as long as the sequence numbers equal those of
  the cache, the cache holds the current version of every chunk. The invariant adds that
  what a search sees is the index as of the last refresh, and that a scan whose
  numbers before and after agree saw a stable index.
* `ExtractionProofs`, commands. `RunsTypeCorrect`, `HistoryIsTrue` and
  `ReadyMeansDone` (`SelectionStored`, `CompletedCovers`). `RunsInv`: no two commands have one
  run (`Apart`), between storing and noting a batch its versions are stored (`Holds`), and an
  item of a run is what the run stored (`Kept`). For the end of a rebuild `Seen`: until
  somebody writes, what was pending when the command looked is pending still, and a first
  page of at least one chunk is empty only if nothing is pending (`FirstEmpty`).
* `EdgeEvidenceProofs`. `EvidenceHasMarker`, `RegularGraph` and `ServiceUnchanged` follow from
  one invariant and one description of a step (`Step`): rows stand at slots with a marker, be it for
  an earlier version;
  every key, before and after, is an edge without a loop that is regular if the graph
  was (`Fine`); while a rebuild goes on the graph is normalized, so nothing renames
  served keys; and a waiting store is not told to materialize unless it was overtaken
  (`HeldBack`). `TypeCorrect` adds positive counts. `ServedIsCounted` and `NoCycle`
  (`Materialized`, `Acyclic`) need `ServedInv`: a waiting store was told what the flag still
  says; the keys as they will be after the renaming of old ones have no cycle; and
  the staged graph has none in a rebuild even after a race, since it only grows by
  checked edges. Cycles are argued by closed sets: if the end of a new edge does not reach
  its start, what it reaches is closed and a cycle through the edge would have to leave
  it; a merge that passes `_check_merge` is handled for both losers at once.
* `SourcesProofs`. `ImportsSoundAlways`: no two cards share a slot, and a plan that was
  accepted is accepted again wherever an attempt died. Checks and writes are steps apart,
  so the invariant adds what the holder of the lock still knows of what it checked: a
  slot that was free is free, for an edit takes no slot (`Checked`); and, while nobody
  interferes, a card that is still to be replaced is the one that was read, and has a
  backup by the time cards are replaced (`Undisturbed`). `OneWholeFile`: the digest of the
  whole admits no mixture of two senders. `StaleAlwaysTells`: `StaleInv` follows a change of
  a file through a poll of watch, unless the file came with an older time. It is younger than the marker, or as the snapshot
  has it (`Caught`), or as the poll has it (`Polled`); and what the poll read is what the file
  holds, if the file is as it was seen (`Fetched`).
* `ServingProofs`, names. `OneRowAlways`: a name in a namespace is one concept. It is not
  inductive alone: that a store which matches nothing finds no row of its own name and
  namespace needs that a concept without a namespace has the plain slug (`GlobalPlain`).
  `NamesKeptAlways`: no merge loses a name. `CurationFollowsAlways`: slugs are unique, which
  needs that among the numbered slugs one is free (there are more of them than rows), and
  curation is filed under the slug of the concept it was written for (`CurationInv`).
  `LookupAgreesAlways` follows from the two invariants. `NamesTypeCorrect`.
* `ServingProofs`, policy. `FilterExactAlways`: the filter of a search selects what the decision
  allows, for any policy; `ListingCompleteAlways` likewise for folders. Both rest on one fact
  about paths, that two rules that match one resource lie on one line (`OneLine`), and on
  the existence of a longest match. `PolicyFreshAlways`: what is filed under a time stamp was
  read after it was taken.
* `ServingProofs`, media. `MediaExactAlways`. What a client sends comes from one content,
  the one it names (`Pure`); an upload that met no other knows which old segments it has
  to drop (`Known`), and whoever is under way beside another is counted as one that did
  (`Crossing`); so a file that is not torn has the segments of one upload (`OneUpload`). For the runs, `Rely` says what a calm one may rely
  on at each place: while it lists, it has an entry for every missing file before the next
  page; later, as long as nothing failed, for every missing file; when its upload was
  stored, the file is there. Others may go on storing, which only takes files off the
  list, because a call that was checked names the file as it still is (`CheckedStill`).
* `ServingProofs`, chunking. `ChunksFaithfulAlways`, for any document and any sizes of chunks,
  overlap and tiny chunks. `ChunkingInv` says where everything is in the middle of a loop.
  `Kept`: every token of a line with text is in what some loop has still to read or in what it
  has put down (`Held`), so nothing falls between two loops. `SplitOK`: the stack of headings
  is the path of the line before, and what is pending is headings without a body. `SectionOK`:
  a section is under its path, and begins and ends outside code. `BlockBegun`, `BlockOK`: a block has
  no fence, or its two fences at its ends and none between. `LinesOK`, `RowsOK`: what is
  gathered fits the room; fences and heads are repeated only around lines without a fence.
  `PartOK`, `ChunkOK`: every paragraph and every chunk is within the limit, under its section's
  path, with its fences in pairs. Sums of tokens and of fences are one recursive
  function (`Total`). That the sum of a concatenation is the sum of the sums, and that a sum
  of even numbers is even (`TotalConcat`, `TotalEven`), is shown at the least place where it
  would fail; so is that a line is cut without a gap (`CutsCover`).
* `QueryProofs`, graph. `NeighbourhoodExactAlways` and `ChainsExactAlways`: a search that no merge came
  into returns what is within reach and nothing else, at true distances, over arcs that
  are there, and a restricted reader's answer is the one of the served edges with readable evidence alone,
  during a rebuild too.
  `ReadsInv`: what the connection sees is the evidence that may be read (`ViewCurrent`,
  which makes the edges a search follows the arcs of the reference, `FollowsArcs`); the queue
  holds at most two distances, the smaller first (`Ordered`); what is nearer than a concept
  found has been found (`Nearest`); and what a visited concept leads to has been found
  unless `max_nodes` is reached (`Expanded`). So all within the distance of the next concept
  to visit is there (`LevelFound`), and what it adds is one step further and no nearer. The
  chain to a concept has one concept per step (`ChainForm`), so it is a shortest. The
  concepts within k steps are a recursive function of k, and so is the chain; what is
  said of them is shown at the least number where it would fail (`Least`).
  `ReadsTypeCorrect` needs no quiet: merges may come at any time.
* `QueryProofs`, search. `RankingFairAlways`. Two chunks are compared in a list by which would come
  first once it is sorted (`Leading`). A share of a score falls with the place in a ranking
  (`ShareForm`), so a channel that counts keeps the order of its ranking (`ScoredForm`); where
  scores are not negative, a chunk that leads in one list and is not behind in the other
  leads in the sum, ties included (`AddedLeads`); and a boost below one keeps the order of
  scores of either sign (`LiftedForm`). `RetrievalInv`: a chunk is listed once, scores are not
  negative before the cross-encoder has given any, and what is ranked is sorted. Sorting
  needs no induction: the number of entries before an entry is its place (`ArrangedForm`).

Each step lemma has one case per action. Every safety invariant of the passing runs is the
subject of a theorem. Only model-checked:

* All liveness: `BusyEnds`, `WorkerExtracts`, `RetriesRetired`, `EverExtracted`, `WatchCatchesUp`,
  `IdleFreed`. Liveness under fairness and `ENABLED` are beyond this prover.
* The properties of the violation runs, which do not hold.

## 6. Not modelled, and why

Language and embedding models (what they answer is a choice), the encoder, texts,
rendering and export, argument parsing, the analysis of questions and legal citations,
snippets, logs and reports: they compute or format and keep no state. The tools of the
MCP server, which call what is modelled and format its results. Migrations of old SQLite
schemas, which run once. Kinds and confidences of concepts, matches by embedding,
`rename_document`. Alias switches of the index and the paging of `reembed.py` through an
index that changes. In `EdgeEvidence`, processes of older versions that go on writing
unnormalized keys. In `ExtractionRuns`, two processes that resume one run at once. In
`AccessPolicy`, symbolic links and the normal form of paths. In `MediaSync`, note links, the
document row, runs with `--limit` and search by media; a client that gave a call up sends nothing more
until the server is done with it, which two clients show without waiting. In
`EmbeddingRuntime`, a directory sync that fails after the rename of `active.json` was seen.
In `Chunking` and `Retrieval` the repetition of table heads and the limit per document are there
because sizes and ranks depend on them; no property is about them alone.

## 7. What could come next

1. Alias switch of the index (`store.py` 239-278), the paging of `reembed.py`,
   `rename_document`.
2. Abstract specifications: one of the graph (`edges` as a function of `evidence`), which
   `EdgeEvidence` implements outside races; one of an upload (a file or nothing).
3. Theorems: the safety part of the extraction worker's liveness (what a retry that is put
   off may still rely on), and the refinement of the abstract specifications of item 2.
