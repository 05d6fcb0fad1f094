----------------------------- MODULE GraphAlign -----------------------------
(***************************************************************************)
(* The concept graph beside the chunk index.  Mentions and extraction      *)
(* markers in SQLite refer to chunks by (doc_id, chunk_index), so whenever *)
(* a document is chunked anew they must follow their chunks.  Ingest does  *)
(* this in a transaction of its own after the index is written; extraction *)
(* clients store results against the versions they read; delete and the    *)
(* prune of a sync purge what has no document any more.                    *)
(*                                                                         *)
(* A text stands for a chunk's content hash, and also names the concepts   *)
(* that extraction finds in that chunk.  The input hash of an extraction   *)
(* covers the content and the slot; titles and categories are left out.    *)
(*                                                                         *)
(* Python's sqlite3 opens a transaction at the first write, so what a      *)
(* function reads before that is not part of it: such reads are the Peek   *)
(* steps, everything after them is one step.                               *)
(***************************************************************************)
EXTENDS Integers, FiniteSets, Functions

CONSTANTS
    Doc,
    Proc,       \* MCP server, CLI commands, watch, extraction worker
    Text,
    MaxSlots,   \* bound: chunks per document
    Window,     \* whether a commit may fall between a Peek and its transaction
    MayFail,    \* whether a call may die, or fail on a locked database
    None

ASSUME SlotsAssumption == MaxSlots \in Nat /\ {Window, MayFail} \subseteq BOOLEAN
ASSUME FiniteAssumption == IsFiniteSet(Doc) /\ IsFiniteSet(Text)

VARIABLES
    es,        \* es[d]: the chunk index, slot -> text
    arch,      \* documents archived in the index
    mention,   \* mention[d]: concept_mentions, pairs <<slot, concept>>
    mark,      \* mark[d]: extracted_chunks, slot -> extracted version
    known,     \* the graph's documents table
    count,     \* count[c]: concepts.mention_count
    job,       \* job[p]: the call process p is executing
    serial     \* whether calls are made one after the other and none fails

vars == <<es, arch, mention, mark, known, count, job, serial>>

Slot == 0 .. (MaxSlots - 1)
Layout == UNION {[0 .. (n - 1) -> Text] : n \in 1 .. MaxSlots}
NoChunks == [s \in {} |-> None]
Version == [text : Text, slot : Slot]     \* content hash and input hash

IsPartial(f, K, V) == DOMAIN f \subseteq K /\ f \in [DOMAIN f -> V]

Idle == [pc |-> "idle", d |-> None, at |-> None, text |-> None, fresh |-> FALSE,
         old |-> NoChunks, new |-> NoChunks, seen |-> [d \in Doc |-> {}], docs |-> {}]

Init ==
    /\ es \in [Doc -> Layout \cup {NoChunks}]
    /\ arch = {} /\ known = {}
    /\ mention = [d \in Doc |-> {}]
    /\ mark = [d \in Doc |-> NoChunks]
    /\ count = [c \in Text |-> 0]
    /\ job = [p \in Proc |-> Idle]
    /\ serial \in BOOLEAN

Concepts(S) == {m[2] : m \in S}
Mentions(m, c) == UNION {{<<d, s>> : s \in {x \in Slot : <<x, c>> \in m[d]}} : d \in Doc}

\* recompute_mention_counts over the concepts C, from the mentions m.
Recounted(m, C) ==
    [c \in Text |-> IF c \in C THEN Cardinality(Mentions(m, c)) ELSE count[c]]

\* In a serial behaviour a process goes on with its call only while no other
\* call is under way; a transaction follows its Peek at once if there is no
\* window between them.
Turn(p) ==
    /\ serial => \A q \in Proc \ {p} : job[q].pc = "idle"
    /\ ~Window => \A q \in Proc \ {p} : job[q].pc \notin {"realign", "store", "purge"}

Go(p, j) == job' = [job EXCEPT ![p] = j]

-----------------------------------------------------------------------------
(* Ingest: the chunk delta, then realign_doc_chunks in _realign_graph.     *)

ReadExisting(p, d, new) ==
    /\ job[p].pc = "idle" /\ Turn(p) /\ new # es[d]
    /\ Go(p, [Idle EXCEPT !.pc = "apply", !.d = d, !.old = es[d], !.new = new])
    /\ UNCHANGED <<es, arch, mention, mark, known, count>>

ApplyDelta(p) ==
    LET j == job[p]
        replaced == {s \in DOMAIN j.new : s \notin DOMAIN j.old \/ j.old[s] # j.new[s]}
        removed == DOMAIN j.old \ DOMAIN j.new
    IN  /\ j.pc = "apply" /\ Turn(p)
        /\ es' = [es EXCEPT ![j.d] =
                     [s \in (DOMAIN es[j.d] \ removed) \cup replaced |->
                         IF s \in replaced THEN j.new[s] ELSE es[j.d][s]]]
        /\ Go(p, IF DOMAIN j.old = {} THEN Idle ELSE [j EXCEPT !.pc = "realignPeek"])
        /\ UNCHANGED <<arch, mention, mark, known, count>>

\* Slots whose text is no longer there, and where it went: to the first slot
\* of the new layout that has it, or nowhere.
Left(old, new) == {s \in DOMAIN old : s \notin DOMAIN new \/ new[s] # old[s]}
Homes(new, t) == {s \in DOMAIN new : new[s] = t}
Moved(old, new) == {s \in Left(old, new) : Homes(new, old[s]) # {}}
Gone(old, new) == Left(old, new) \ Moved(old, new)

Target(old, new, s) ==
    IF s \in Moved(old, new)
    THEN CHOOSE t \in Homes(new, old[s]) : \A u \in Homes(new, old[s]) : t <= u
    ELSE s

\* The mentions S in the new layout.  Mutant: slot by slot, in place, so that
\* a mention that has just moved moves again.
RelocatedInPlace(old, new, S) ==
    {<<IF Target(old, new, m[1]) \in Moved(old, new)
       THEN Target(old, new, Target(old, new, m[1])) ELSE Target(old, new, m[1]), m[2]>> :
        m \in {x \in S : x[1] \notin Gone(old, new)}}

Relocated(old, new, S) ==
    {<<Target(old, new, m[1]), m[2]>> : m \in {x \in S : x[1] \notin Gone(old, new)}}

\* Mutant of Rekeyed: the markers of texts that have gone stay in their slots.
RekeyedAll(old, new, f) ==
    LET from(t) == {s \in DOMAIN f : Target(old, new, s) = t}
    IN  [t \in {Target(old, new, s) : s \in DOMAIN f} |->
            f[CHOOSE s \in from(t) : \A u \in from(t) : u <= s]]

\* The markers f in the new layout; of those that end in one slot the one that
\* comes from the highest slot wins.
Rekeyed(old, new, f) ==
    LET kept == DOMAIN f \ Gone(old, new)
        from(t) == {s \in kept : Target(old, new, s) = t}
    IN  [t \in {Target(old, new, s) : s \in kept} |->
            f[CHOOSE s \in from(t) : \A u \in from(t) : u <= s]]

RealignPeek(p) ==
    LET j == job[p]
    IN  /\ j.pc = "realignPeek" /\ Turn(p)
        /\ Go(p, IF Left(j.old, j.new) = {} THEN Idle
                 ELSE [j EXCEPT !.pc = "realign", !.seen = mention])
        /\ UNCHANGED <<es, arch, mention, mark, known, count>>

\* The mentions read before are rewritten, the markers read and rewritten.
Realign(p) ==
    LET j == job[p]
        rows == j.seen[j.d]
    IN  /\ j.pc = "realign" /\ Turn(p)
        /\ mention' = [mention EXCEPT ![j.d] = Relocated(j.old, j.new, rows)]
        /\ mark' = [mark EXCEPT ![j.d] = Rekeyed(j.old, j.new, @)]
        /\ count' = Recounted(mention', Concepts({m \in rows : m[1] \in Left(j.old, j.new)}))
        /\ Go(p, Idle)
        /\ UNCHANGED <<es, arch, known>>

-----------------------------------------------------------------------------
(* Extraction: a chunk is fetched, a model reads it, store_concepts.       *)

Fetch(p, d, s) ==
    /\ job[p].pc = "idle" /\ Turn(p) /\ s \in DOMAIN es[d]
    /\ Go(p, [Idle EXCEPT !.pc = "check", !.d = d, !.at = s, !.text = es[d][s]])
    /\ UNCHANGED <<es, arch, mention, mark, known, count>>

\* _chunk_versions: a result for another version than the current is rejected.
Check(p) ==
    LET j == job[p]
    IN  /\ j.pc = "check" /\ Turn(p)
        /\ Go(p, IF j.at \in DOMAIN es[j.d] /\ es[j.d][j.at] = j.text
                 THEN [j EXCEPT !.pc = "storePeek"] ELSE Idle)
        /\ UNCHANGED <<es, arch, mention, mark, known, count>>

StorePeek(p) ==
    LET j == job[p]
        version == [text |-> j.text, slot |-> j.at]
    IN  /\ j.pc = "storePeek" /\ Turn(p)
        /\ Go(p, [j EXCEPT !.pc = "store", !.seen = mention,
                           !.fresh = j.at \in DOMAIN mark[j.d] /\ mark[j.d][j.at] = version])
        /\ UNCHANGED <<es, arch, mention, mark, known, count>>

\* What is left of the mentions S when chunk s is extracted anew.
Replaced(S, s) == {m \in S : m[1] # s}

\* Mutant of StoredConcepts: only the concepts of the new result are recounted.
StoredConceptsNew(j) == {j.text}

StoredConcepts(j) ==
    {j.text} \cup IF j.fresh THEN {} ELSE Concepts({m \in j.seen[j.d] : m[1] = j.at})

\* A result for a version that is already marked is added, any other replaces
\* the mentions of its slot.
Store(p) ==
    LET j == job[p]
        kept == IF j.fresh THEN mention[j.d] ELSE Replaced(mention[j.d], j.at)
    IN  /\ j.pc = "store" /\ Turn(p)
        /\ mention' = [mention EXCEPT ![j.d] = kept \cup {<<j.at, j.text>>}]
        /\ mark' = [mark EXCEPT ![j.d] =
                       [s \in DOMAIN mark[j.d] \cup {j.at} |->
                           IF s = j.at THEN [text |-> j.text, slot |-> j.at]
                           ELSE mark[j.d][s]]]
        /\ known' = known \cup {j.d}
        /\ count' = Recounted(mention', StoredConcepts(j))
        /\ Go(p, Idle)
        /\ UNCHANGED <<es, arch>>

-----------------------------------------------------------------------------
(* Delete, archive and prune.                                              *)

DeleteDocument(p, d) ==
    /\ job[p].pc = "idle" /\ Turn(p)
    /\ es' = [es EXCEPT ![d] = NoChunks] /\ arch' = arch \ {d}
    /\ Go(p, [Idle EXCEPT !.pc = "purgePeek", !.docs = {d}])
    /\ UNCHANGED <<mention, mark, known, count>>

Archive(p, d) ==
    /\ job[p].pc = "idle" /\ Turn(p) /\ es[d] # NoChunks
    /\ arch' = IF d \in arch THEN arch \ {d} ELSE arch \cup {d}
    /\ UNCHANGED <<es, mention, mark, known, count, job>>

\* graph_prune_summary: list_doc_ids leaves archived documents out.
ListDocuments(p) ==
    /\ job[p].pc = "idle" /\ Turn(p)
    /\ Go(p, [Idle EXCEPT !.pc = "prunePeek",
                          !.docs = {d \in Doc : es[d] # NoChunks} \ arch])
    /\ UNCHANGED <<es, arch, mention, mark, known, count>>

\* prune_missing_documents: what the graph has and the list does not.
PrunePeek(p) ==
    LET stale == (known \cup {d \in Doc : mention[d] # {}}) \ job[p].docs
    IN  /\ job[p].pc = "prunePeek" /\ Turn(p)
        /\ Go(p, IF stale = {} THEN Idle
                 ELSE [job[p] EXCEPT !.pc = "purge", !.docs = stale, !.seen = mention])
        /\ UNCHANGED <<es, arch, mention, mark, known, count>>

PurgePeek(p) ==
    /\ job[p].pc = "purgePeek" /\ Turn(p)
    /\ Go(p, [job[p] EXCEPT !.pc = "purge", !.seen = mention])
    /\ UNCHANGED <<es, arch, mention, mark, known, count>>

\* Mutant of Purge: the extraction markers stay.
PurgeKeepsMarkers(p) ==
    LET D == job[p].docs
    IN  /\ job[p].pc = "purge" /\ Turn(p)
        /\ mention' = [d \in Doc |-> IF d \in D THEN {} ELSE mention[d]]
        /\ known' = known \ D
        /\ count' = Recounted(mention', UNION {Concepts(mention[d]) : d \in D})
        /\ Go(p, Idle)
        /\ UNCHANGED <<es, arch, mark>>

\* purge_document for each: only for the first one are the concepts to be
\* recounted read before the transaction.
Purge(p) ==
    LET D == job[p].docs
    IN  /\ job[p].pc = "purge" /\ Turn(p)
        /\ mention' = [d \in Doc |-> IF d \in D THEN {} ELSE mention[d]]
        /\ mark' = [d \in Doc |-> IF d \in D THEN NoChunks ELSE mark[d]]
        /\ known' = known \ D
        /\ \E first \in D :
              count' = Recounted(mention', Concepts(job[p].seen[first]) \cup
                                           UNION {Concepts(mention[d]) : d \in D \ {first}})
        /\ Go(p, Idle)
        /\ UNCHANGED <<es, arch>>

\* A call dies, or its transaction is rolled back and the error swallowed.
Fail(p) ==
    /\ MayFail /\ ~serial /\ job[p].pc # "idle"
    /\ Go(p, Idle)
    /\ UNCHANGED <<es, arch, mention, mark, known, count>>

Ingest(p) ==
    \/ \E d \in Doc, new \in Layout : ReadExisting(p, d, new)
    \/ ApplyDelta(p) \/ RealignPeek(p) \/ Realign(p)

Extract(p) ==
    \/ \E d \in Doc, s \in Slot : Fetch(p, d, s)
    \/ Check(p) \/ StorePeek(p) \/ Store(p)

Clean(p) ==
    \/ \E d \in Doc : DeleteDocument(p, d) \/ Archive(p, d)
    \/ ListDocuments(p) \/ PrunePeek(p) \/ PurgePeek(p) \/ Purge(p)

Next ==
    /\ UNCHANGED serial
    /\ \E p \in Proc : Ingest(p) \/ Extract(p) \/ Clean(p) \/ Fail(p)

Spec == Init /\ [][Next]_vars

-----------------------------------------------------------------------------
(* Properties.                                                             *)

Points == {"idle", "apply", "realignPeek", "realign", "check", "storePeek", "store",
           "purgePeek", "prunePeek", "purge"}

TypeOK ==
    /\ DOMAIN es = Doc /\ \A d \in Doc : IsPartial(es[d], Slot, Text)
    /\ arch \subseteq Doc /\ known \subseteq Doc
    /\ mention \in [Doc -> SUBSET (Slot \X Text)]
    /\ DOMAIN mark = Doc /\ \A d \in Doc : IsPartial(mark[d], Slot, Version)
    /\ count \in [Text -> Nat]
    /\ DOMAIN job = Proc
    /\ \A p \in Proc : /\ job[p].pc \in Points /\ job[p].docs \subseteq Doc
                       /\ job[p].seen \in [Doc -> SUBSET (Slot \X Text)]

\* A marker never outlives the mentions of the text it marks: "a marker that
\* stays makes mentions be missing for good" (purge_document), since the chunk
\* is not pending any more.
MarksBacked ==
    \A d \in Doc : \A s \in DOMAIN mark[d] : <<s, mark[d][s].text>> \in mention[d]

\* The cached mention_count of every concept is the number of its mentions.
CountsExact == \A c \in Text : count[c] = Cardinality(Mentions(mention, c))

\* Realigning keeps the concepts of every text that the document still has.
MentionsFollow ==
    [][\A p \in Proc : Realign(p) =>
          LET j == job[p]
          IN  \A s \in DOMAIN j.old :
                 <<s, j.old[s]>> \in mention[j.d] /\ Homes(j.new, j.old[s]) # {} =>
                    \E t \in Homes(j.new, j.old[s]) : <<t, j.old[s]>> \in mention'[j.d]]_vars

Pending(d, s) == s \notin DOMAIN mark[d] \/ mark[d][s] # [text |-> es[d][s], slot |-> s]

\* A chunk that counts as extracted carries the concepts of its own text and
\* of no other; nothing would ever look at it again.  Calls that overlap may
\* realign in another order than they wrote the index, hence the premise.
Faithful ==
    serial => \A d \in Doc : \A s \in DOMAIN es[d] :
        ~Pending(d, s) => {m \in mention[d] : m[1] = s} = {<<s, es[d][s]>>}
=============================================================================
