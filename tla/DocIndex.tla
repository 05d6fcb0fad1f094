------------------------------ MODULE DocIndex ------------------------------
(***************************************************************************)
(* The document index of pkb: the Markdown tree is the source of truth, the *)
(* chunk index holds one entry per (document, chunk_index) slot, and the   *)
(* document index holds one derived row per document.  Nothing ties the    *)
(* three together but the order in which ingest, sync, archive, restore,   *)
(* delete and purge read and write them; every call to Elasticsearch is    *)
(* one step here, so edits of the files, other processes and failures fall *)
(* between any two of them.                                                *)
(*                                                                         *)
(* A text stands for a chunk's whole embedding input, so equality of texts *)
(* is equality of embedding fingerprints; the vector computed from text t  *)
(* is written t.  The archive marker stands for all document-level fields  *)
(* that ingest carries over when the file does not declare them.           *)
(***************************************************************************)
EXTENDS Integers, FiniteSets

CONSTANTS
    Doc,        \* doc_ids, numbered in the order of their sorted paths
    Managed,    \* those under data/ ending in .md: archiving edits the file
    Converted,  \* those whose text is extracted: PDF, Office, HTML
    Writer,     \* processes: MCP server, CLI commands, watch
    Text,       \* embedding inputs
    Stamp,      \* values of archived_at
    MaxSlots,   \* bound: chunks per document
    MayFail,    \* whether a call may fail or a process die
    None

ASSUME DocAssumption ==
    /\ Doc \subseteq Nat /\ IsFiniteSet(Doc)
    /\ Managed \subseteq Doc /\ Converted \subseteq Doc \ Managed
ASSUME BoundAssumption == MaxSlots \in Nat /\ MayFail \in BOOLEAN
ASSUME NoneAssumption == None \notin Text \cup Stamp

VARIABLES
    file,   \* file[d]: body and frontmatter marker of a source file, or None
    es,     \* es[d]: the chunk index, slot -> chunk
    rows,   \* rows[d]: the document index
    job,    \* job[w]: the call a writer is executing, with its local state
    clean   \* history: files unchanged since the scan of writer w's sync

vars == <<file, es, rows, job, clean>>

-----------------------------------------------------------------------------
(* Data.                                                                   *)

Slot == 0 .. (MaxSlots - 1)
Mark == Stamp \cup {None}
Body == UNION {[0 .. (n - 1) -> Text] : n \in 0 .. MaxSlots}
File == [body : Body, arch : Mark]
Chunk == [text : Text, vec : Text, arch : Mark]
Snapshot == [text : Text, arch : Mark]     \* a chunk read without its vector
Row == [arch : Mark, vecs : [Text -> Nat]]

\* f is a map from some of the keys in K to values in V.
IsPartial(f, K, V) == DOMAIN f \subseteq K /\ f \in [DOMAIN f -> V]

NoChunks == [s \in {} |-> None]
Lowest(S) == CHOOSE s \in S : \A t \in S : s <= t

\* A document row: document-level fields of the first slot, and the mean of
\* the chunk vectors, which is determined by how often each vector occurs.
DocRow(c) ==
    IF DOMAIN c = {} THEN None
    ELSE [arch |-> c[Lowest(DOMAIN c)].arch,
          vecs |-> [t \in Text |-> Cardinality({s \in DOMAIN c : c[s].vec = t})]]

\* Document-level fields carried from the existing chunks into the new ones.
Stamps(old) == {old[s].arch : s \in DOMAIN old} \ {None}
Conflicting(read, old) == read.arch = None /\ Cardinality(Stamps(old)) > 1

\* Mutant of Carried: the field is not carried.
CarriedNothing(read, old) == read.arch
Carried(read, old) ==
    IF read.arch # None \/ Stamps(old) = {} THEN read.arch
    ELSE CHOOSE m \in Stamps(old) : TRUE

\* A prepared delta x = [old, new]: what is indexed whole (embedded or with a
\* copied vector), what gets a partial metadata update, what is deleted.
Indexed(x) ==
    {s \in DOMAIN x.new : s \notin DOMAIN x.old \/ x.old[s].text # x.new[s].text}
MetaUpdates(x) ==
    {s \in DOMAIN x.new \ Indexed(x) : x.new[s].arch \notin {None, x.old[s].arch}}

\* Mutant of Dropped: slots that the shorter text no longer has are kept.
DroppedNever(x) == {}

Dropped(x) == DOMAIN x.old \ DOMAIN x.new
Touched(x) == Indexed(x) \cup MetaUpdates(x) \cup Dropped(x)

\* Mutant of PlannedVector: the vector of the first old slot, whatever its text.
PlannedVectorAnySlot(c, old, text) ==
    IF DOMAIN old # {} /\ Lowest(DOMAIN old) \in DOMAIN c THEN c[Lowest(DOMAIN old)].vec
    ELSE text

\* The vector of an indexed slot: copied from the slot that had the same
\* fingerprint when the existing chunks were read, by slot number, from the
\* index as it is when the vectors are read; computed when there is none.
PlannedVector(c, old, text) ==
    LET src == {s \in DOMAIN old : old[s].text = text}
    IN  IF src # {} /\ Lowest(src) \in DOMAIN c THEN c[Lowest(src)].vec ELSE text

\* The chunks c after the bulk operations of x on the slots S.
AfterBulk(c, x, S) ==
    [s \in (DOMAIN c \ (Dropped(x) \cap S)) \cup (Indexed(x) \cap S) |->
        IF s \in Indexed(x) \cap S THEN x.new[s]
        ELSE IF s \in MetaUpdates(x) \cap S THEN [c[s] EXCEPT !.arch = x.new[s].arch]
        ELSE c[s]]

Stamped(c, S, m) ==
    [s \in DOMAIN c |-> IF s \in S THEN [c[s] EXCEPT !.arch = m] ELSE c[s]]

Without(c, S) == [s \in DOMAIN c \ S |-> c[s]]

\* What may take effect of a bulk or a by-query update over the set all.
Landed(all) == IF MayFail THEN SUBSET all ELSE {all}

-----------------------------------------------------------------------------
(* The calls.                                                              *)

Ops == {"none", "ingest", "sync", "restore"}
Points == {"idle", "prepare", "existing", "copy", "apply", "rows", "bulk",
           "empty", "drop", "list", "prune", "unarchive", "purge"}

Idle == [pc |-> "idle", op |-> "none", then |-> "idle", cur |-> None,
         todo |-> {}, due |-> {}, seen |-> {}, read |-> None, old |-> None,
         delta |-> NoChunks, buf |-> NoChunks]

Init ==
    /\ file \in [Doc -> File \cup {None}]
    /\ es = [d \in Doc |-> NoChunks]
    /\ rows = [d \in Doc |-> None]
    /\ job = [w \in Writer |-> Idle]
    /\ clean = [w \in Writer |-> {}]

Go(w, j) == job' = [job EXCEPT ![w] = j]

\* ingest_files over the given documents.
Ingesting(op, ds) ==
    [Idle EXCEPT !.pc = "prepare", !.op = op, !.todo = ds, !.seen = ds]

\* The call j goes on at point p; at the end of the call it is idle.
At(j, p) == IF p = "idle" THEN Idle ELSE [j EXCEPT !.pc = p]

\* refresh_document_rows over ds, then on at point p.
Refreshing(j, ds, p) ==
    IF ds = {} THEN At(j, p) ELSE [j EXCEPT !.pc = "rows", !.then = p, !.due = ds]

\* Mutant of AfterIngest: restore ends with the ingest of the stripped file.
AfterIngestRestored(op) == IF op = "sync" THEN "list" ELSE "idle"

\* Where a call goes on when its ingest_files has returned.
AfterIngest(op) ==
    CASE op = "sync" -> "list" [] op = "restore" -> "unarchive" [] OTHER -> "idle"

Has(d) == file[d] # None
InFrontmatter(d) == d \in Managed /\ Has(d)

StartIngest(w, d) ==
    /\ job[w].pc = "idle" /\ Has(d)
    /\ Go(w, Ingesting("ingest", {d}))
    /\ UNCHANGED <<file, es, rows, clean>>

\* reconcile: the scan of the tree.
StartSync(w) ==
    /\ job[w].pc = "idle"
    /\ Go(w, Ingesting("sync", {d \in Doc : Has(d)}))
    /\ clean' = [clean EXCEPT ![w] = Doc]
    /\ UNCHANGED <<file, es, rows>>

\* Extracting nothing from a file is an error; a text file may be empty.
Readable(d) == Has(d) /\ (d \in Converted => DOMAIN file[d].body # {})

\* Mutant of ReadFile: a file that became empty is skipped.
ReadFileSkipEmpty(w) ==
    LET j == job[w]
        d == Lowest(j.todo)
        next == [j EXCEPT !.todo = j.todo \ {d}, !.cur = d]
    IN  /\ j.pc = "prepare" /\ j.todo # {}
        /\ Go(w, IF ~Readable(d) THEN Idle
                 ELSE IF DOMAIN file[d].body = {} THEN next
                      ELSE [next EXCEPT !.pc = "existing", !.read = file[d]])
        /\ UNCHANGED <<file, es, rows, clean>>

\* process_file: read the next file, which raises if it vanished.
ReadFile(w) ==
    LET j == job[w]
        d == Lowest(j.todo)
        next == [j EXCEPT !.todo = j.todo \ {d}, !.cur = d]
    IN  /\ j.pc = "prepare" /\ j.todo # {}
        /\ Go(w, IF ~Readable(d) THEN Idle
                 ELSE IF DOMAIN file[d].body = {} THEN [next EXCEPT !.pc = "empty"]
                      ELSE [next EXCEPT !.pc = "existing", !.read = file[d]])
        /\ UNCHANGED <<file, es, rows, clean>>

\* An empty file is read once more: its document is deleted if it still is,
\* and left as it is, not ingested either, if it got a text meanwhile.
ReadAgain(w) ==
    LET j == job[w]
    IN  /\ j.pc = "empty"
        /\ Go(w, IF ~Has(j.cur) THEN Idle
                 ELSE [j EXCEPT !.pc = IF DOMAIN file[j.cur].body = {} THEN "drop" ELSE "prepare"])
        /\ UNCHANGED <<file, es, rows, clean>>

\* get_existing_chunks; conflicting document-level fields raise.
ReadExisting(w) ==
    LET j == job[w]
        old == [s \in DOMAIN es[j.cur] |->
                   [text |-> es[j.cur][s].text, arch |-> es[j.cur][s].arch]]
    IN  /\ j.pc = "existing"
        /\ Go(w, IF Conflicting(j.read, old) THEN Idle
                 ELSE [j EXCEPT !.pc = "copy", !.old = old])
        /\ UNCHANGED <<file, es, rows, clean>>

\* get_chunk_embeddings for the moved slots; the others are embedded.
CopyVectors(w) ==
    LET j == job[w]
        new == [s \in DOMAIN j.read.body |->
                   [text |-> j.read.body[s],
                    vec |-> PlannedVector(es[j.cur], j.old, j.read.body[s]),
                    arch |-> Carried(j.read, j.old)]]
    IN  /\ j.pc = "copy"
        /\ Go(w, [j EXCEPT
              !.pc = "prepare", !.read = None, !.old = None,
              !.delta = [d \in DOMAIN j.delta \cup {j.cur} |->
                            IF d = j.cur THEN [old |-> j.old, new |-> new]
                            ELSE j.delta[d]]])
        /\ UNCHANGED <<file, es, rows, clean>>

\* All files prepared and embedded.
BeginApply(w) ==
    /\ job[w].pc = "prepare" /\ job[w].todo = {}
    /\ Go(w, [job[w] EXCEPT !.pc = "apply", !.todo = DOMAIN job[w].delta])
    /\ UNCHANGED <<file, es, rows, clean>>

\* Mutant of Apply: a metadata-only change does not mark the document changed.
ApplyMetaUncounted(w) ==
    LET j == job[w]
        d == Lowest(j.todo)
        x == j.delta[d]
    IN  /\ j.pc = "apply" /\ j.todo # {}
        /\ es' = [es EXCEPT ![d] = AfterBulk(es[d], x, Touched(x))]
        /\ Go(w, [j EXCEPT !.todo = j.todo \ {d},
                           !.due = IF Indexed(x) = {} THEN @ ELSE @ \cup {d}])
        /\ UNCHANGED <<file, rows, clean>>

\* apply_chunk_delta: one bulk; an update of a slot that is gone is an error.
Apply(w) ==
    LET j == job[w]
        d == Lowest(j.todo)
        x == j.delta[d]
    IN  /\ j.pc = "apply" /\ j.todo # {}
        /\ \E S \in Landed(Touched(x)) :
              /\ es' = [es EXCEPT ![d] = AfterBulk(es[d], x, S)]
              /\ Go(w, IF S = Touched(x) /\ MetaUpdates(x) \subseteq DOMAIN es[d]
                       THEN [j EXCEPT !.todo = j.todo \ {d},
                                      !.due = IF S = {} THEN @ ELSE @ \cup {d}]
                       ELSE Idle)
        /\ UNCHANGED <<file, rows, clean>>

FinishApply(w) ==
    LET j == job[w]
    IN  /\ j.pc = "apply" /\ j.todo = {}
        /\ Go(w, Refreshing([j EXCEPT !.delta = NoChunks], j.due, AfterIngest(j.op)))
        /\ UNCHANGED <<file, es, rows, clean>>

\* refresh_document_rows: read the chunks of the next document, ...
ReadRow(w) ==
    LET j == job[w]
        d == Lowest(j.due)
    IN  /\ j.pc = "rows"
        /\ Go(w, [j EXCEPT !.due = j.due \ {d},
                           !.pc = IF j.due = {d} THEN "bulk" ELSE "rows",
                           !.buf = [e \in DOMAIN j.buf \cup {d} |->
                                       IF e = d THEN DocRow(es[d]) ELSE j.buf[e]]])
        /\ UNCHANGED <<file, es, rows, clean>>

\* ... and write all their rows in one bulk.
WriteRows(w) ==
    LET j == job[w]
    IN  /\ j.pc = "bulk"
        /\ \E S \in Landed(DOMAIN j.buf) :
              /\ rows' = [d \in Doc |-> IF d \in S THEN j.buf[d] ELSE rows[d]]
              /\ Go(w, IF S = DOMAIN j.buf THEN At([j EXCEPT !.buf = NoChunks], j.then)
                       ELSE Idle)
        /\ UNCHANGED <<file, es, clean>>

-----------------------------------------------------------------------------
(* delete, archive, restore, purge and the prune of a sync.                *)

\* A by-query write of the chunks c over the slots of d, then the row of d.
ByQuery(w, d, all, After(_, _), j, p) ==
    /\ \E S \in Landed(all) :
          /\ es' = [es EXCEPT ![d] = After(es[d], S)]
          /\ Go(w, IF S = all THEN Refreshing(j, {d}, p) ELSE Idle)
    /\ UNCHANGED <<file, rows, clean>>

\* delete_document, from the CLI, for an empty body, or as part of a prune.
DeleteDocument(w, d) ==
    /\ job[w].pc = "idle"
    /\ ByQuery(w, d, DOMAIN es[d], Without, job[w], "idle")

DropEmpty(w) ==
    /\ job[w].pc = "drop"
    /\ ByQuery(w, job[w].cur, DOMAIN es[job[w].cur], Without, job[w], "prepare")

\* archive_document of a document whose file can carry the marker: rewrite the
\* frontmatter, then ingest that file.
ArchiveFile(w, d, t) ==
    /\ job[w].pc = "idle" /\ InFrontmatter(d)
    /\ file' = [file EXCEPT ![d].arch = t]
    /\ Go(w, Ingesting("ingest", {d}))
    /\ clean' = [v \in Writer |-> clean[v] \ {d}]
    /\ UNCHANGED <<es, rows>>

\* archive_document of any other document: update the chunks by query.
ArchiveInIndex(w, d, t) ==
    /\ job[w].pc = "idle" /\ ~InFrontmatter(d)
    /\ ByQuery(w, d, DOMAIN es[d], LAMBDA c, S : Stamped(c, S, t), job[w], "idle")

\* restore_document: strip the marker from the file if it is there, ingest, ...
RestoreFile(w, d) ==
    /\ job[w].pc = "idle" /\ InFrontmatter(d) /\ file[d].arch # None
    /\ file' = [file EXCEPT ![d].arch = None]
    /\ Go(w, Ingesting("restore", {d}))
    /\ clean' = [v \in Writer |-> clean[v] \ {d}]
    /\ UNCHANGED <<es, rows>>

Archived(c) == {s \in DOMAIN c : c[s].arch # None}

Unstamp(w, d) ==
    ByQuery(w, d, Archived(es[d]), LAMBDA c, S : Stamped(c, S, None), job[w], "idle")

\* ... and clear the fields in the index, which is all there is to do when the
\* file carries no marker.
Unarchive(w) ==
    /\ job[w].pc = "unarchive"
    /\ Unstamp(w, job[w].cur)

RestoreInIndex(w, d) ==
    /\ job[w].pc = "idle" /\ ~(InFrontmatter(d) /\ file[d].arch # None)
    /\ Unstamp(w, d)

\* purge_archived: list the documents with archived chunks, delete archived
\* chunks everywhere, refresh the rows of the documents listed.
StartPurge(w) ==
    /\ job[w].pc = "idle"
    /\ Go(w, [Idle EXCEPT !.pc = "purge", !.todo = {d \in Doc : Archived(es[d]) # {}}])
    /\ UNCHANGED <<file, es, rows, clean>>

Purge(w) ==
    LET all == {k \in Doc \X Slot : k[2] \in Archived(es[k[1]])}
    IN  /\ job[w].pc = "purge"
        /\ \E S \in Landed(all) :
              /\ es' = [d \in Doc |-> Without(es[d], {s \in Slot : <<d, s>> \in S})]
              /\ Go(w, IF S = all THEN Refreshing([job[w] EXCEPT !.todo = {}], job[w].todo, "idle")
                       ELSE Idle)
        /\ UNCHANGED <<file, rows, clean>>

\* list_doc_ids keeps a document out of the list only if all of its chunks
\* are archived; what it lists and the scan did not see is stale.
ListStale(w) ==
    LET listed == {d \in Doc : DOMAIN es[d] # Archived(es[d])}
    IN  /\ job[w].pc = "list"
        /\ Go(w, [job[w] EXCEPT !.pc = "prune", !.todo = listed \ job[w].seen])
        /\ UNCHANGED <<file, es, rows, clean>>

PruneOne(w) ==
    LET d == Lowest(job[w].todo)
    IN  /\ job[w].pc = "prune" /\ job[w].todo # {}
        /\ ByQuery(w, d, DOMAIN es[d], Without,
                   [job[w] EXCEPT !.todo = @ \ {d}], "prune")

\* The caller does not confirm the prune.
PruneDecline(w) ==
    /\ job[w].pc = "prune" /\ job[w].todo # {}
    /\ Go(w, Idle)
    /\ UNCHANGED <<file, es, rows, clean>>

SyncDone(w) ==
    /\ job[w].pc = "prune" /\ job[w].todo = {}
    /\ Go(w, Idle)
    /\ UNCHANGED <<file, es, rows, clean>>

-----------------------------------------------------------------------------
(* The world: files are edited and removed by hand, calls fail, processes  *)
(* die.  A failed call and a dead process both lose all local state.       *)

EditFile(d, f) ==
    /\ f # file[d]
    /\ file' = [file EXCEPT ![d] = f]
    /\ clean' = [w \in Writer |-> clean[w] \ {d}]
    /\ UNCHANGED <<es, rows, job>>

Fail(w) ==
    /\ MayFail /\ job[w].pc # "idle"
    /\ Go(w, Idle)
    /\ UNCHANGED <<file, es, rows, clean>>

Ingest(w) ==
    \/ ReadFile(w) \/ ReadAgain(w) \/ ReadExisting(w) \/ CopyVectors(w)
    \/ BeginApply(w) \/ Apply(w) \/ FinishApply(w) \/ ReadRow(w) \/ WriteRows(w)

Lifecycle(w) ==
    \/ DropEmpty(w) \/ Unarchive(w) \/ StartPurge(w) \/ Purge(w)
    \/ ListStale(w) \/ PruneOne(w) \/ PruneDecline(w) \/ SyncDone(w)
    \/ \E d \in Doc : DeleteDocument(w, d) \/ RestoreFile(w, d) \/ RestoreInIndex(w, d)
    \/ \E d \in Doc, t \in Stamp : ArchiveFile(w, d, t) \/ ArchiveInIndex(w, d, t)

Next ==
    \/ \E w \in Writer : StartSync(w) \/ Ingest(w) \/ Lifecycle(w) \/ Fail(w)
    \/ \E w \in Writer, d \in Doc : StartIngest(w, d)
    \/ \E d \in Doc, f \in File \cup {None} : EditFile(d, f)

Spec == Init /\ [][Next]_vars

-----------------------------------------------------------------------------
(* Properties.                                                             *)

IsDelta(x) == IsPartial(x.old, Slot, Snapshot) /\ IsPartial(x.new, Slot, Chunk)

JobOK(j) ==
    /\ DOMAIN j = DOMAIN Idle
    /\ j.pc \in Points /\ j.op \in Ops /\ j.then \in Points
    /\ j.cur \in Doc \cup {None}
    /\ j.todo \subseteq Doc /\ j.due \subseteq Doc /\ j.seen \subseteq Doc
    /\ j.read \in File \cup {None}
    /\ j.old = None \/ IsPartial(j.old, Slot, Snapshot)
    /\ DOMAIN j.delta \subseteq Doc
    /\ \A d \in DOMAIN j.delta : IsDelta(j.delta[d])
    /\ IsPartial(j.buf, Doc, Row \cup {None})

TypeOK ==
    /\ file \in [Doc -> File \cup {None}]
    /\ DOMAIN es = Doc /\ \A d \in Doc : IsPartial(es[d], Slot, Chunk)
    /\ rows \in [Doc -> Row \cup {None}]
    /\ DOMAIN job = Writer /\ \A w \in Writer : JobOK(job[w])
    /\ clean \in [Writer -> SUBSET Doc]

\* A stored vector is the vector of the text stored beside it: copying the
\* vectors of moved slots by slot number (ingest.py, get_chunk_embeddings)
\* never puts a vector under the fingerprint of another text, whatever fails.
VecFaithful == \A d \in Doc : \A s \in DOMAIN es[d] : es[d][s].vec = es[d][s].text

\* A document row differs from what its chunks say only while a call still
\* owes that row: every path that writes chunks (delta, delete, archive,
\* restore, purge, prune) refreshes the row of every document it touched.
RowsOwed ==
    \A d \in Doc :
        rows[d] # DocRow(es[d]) => \E w \in Writer : d \in job[w].due \cup DOMAIN job[w].buf

\* Document-level fields are the same on all chunks of a document, through
\* carry-over, partial metadata updates and lifecycle calls; otherwise the
\* next ingest of the tree raises on this document (ingest.py, "conflicting").
CarriedFieldsAgree ==
    \A d \in Doc : \A s, t \in DOMAIN es[d] : es[d][s].arch = es[d][t].arch

\* Chunks of d are those of its file, under the file's marker if it has one;
\* without a file only archived chunks are left.
Converged(d) ==
    IF Has(d)
    THEN /\ DOMAIN es[d] = DOMAIN file[d].body
         /\ \A s \in DOMAIN es[d] : es[d][s].text = file[d].body[s]
         /\ file[d].arch # None => \A s \in DOMAIN es[d] : es[d][s].arch = file[d].arch
    ELSE Archived(es[d]) = DOMAIN es[d]

\* A sync that ends with its prune done leaves the index equal to the tree for
\* every file that did not change since the scan, whatever partial writes
\* earlier calls left behind ("wrong deletes are recovered by a re-sync").
SyncConverges ==
    \A w \in Writer :
        job[w].pc = "prune" /\ job[w].todo = {} => \A d \in clean[w] : Converged(d)

\* Ingesting a document again never drops its archive marker: only restore,
\* or a marker in the file, changes it.
IngestKeepsArchive ==
    [][\A w \in Writer : Apply(w) =>
          \A d \in Doc : Archived(es[d]) # {} /\ DOMAIN es'[d] # {} => Archived(es'[d]) # {}]_vars

\* A restore ends with no archive marker left in the index, although the
\* ingest in the middle of it carries the old marker over.
RestoreClears ==
    \A w \in Writer :
        job[w].op = "restore" /\ job[w].pc = "bulk" /\ job[w].then = "idle"
            => Archived(es[job[w].cur]) = {}

\* A document is archived as a whole, stays so whatever is ingested, and is
\* not any more once it is restored.
ArchiveFollows == [](CarriedFieldsAgree /\ RestoreClears) /\ IngestKeepsArchive

\* When ingest decides that a document is unchanged and leaves its row alone,
\* that row is right.
UnchangedRowsAreRight ==
    \A w \in Writer : job[w].pc = "apply" /\ job[w].todo = {} =>
        \A d \in DOMAIN job[w].delta \ job[w].due : rows[d] = DocRow(es[d])
=============================================================================
