---------------------------- MODULE EdgeEvidence ----------------------------
(***************************************************************************)
(* The relations of the concept graph (graph/store.py, graph/services.py,  *)
(* graph/schema.py).  What the chunks say is kept row by row as evidence;  *)
(* the edges that searches use are counts of it.  A rebuild empties the    *)
(* evidence, collects it anew while the old edges go on serving, and then  *)
(* switches.  Merging concepts redirects both tables.                      *)
(*                                                                         *)
(* Every action is a transaction of SQLite, but three operations read      *)
(* before their first write begins one, which may wait for another writer: *)
(* store_concepts the markers and the rebuild flag, purge_document the     *)
(* rows it will delete, finalize-evidence the pending chunks. A store      *)
(* carries at most one relation; a longer list leaves what a succession of *)
(* stores of the same chunk leaves. Kinds and confidences are left out: a  *)
(* relation or merge that fails the checks on kinds is one that is not     *)
(* done. A concept that was merged away may be asserted anew: extraction   *)
(* does not match names by alias and inserts the concept again.            *)
(***************************************************************************)
EXTENDS Naturals, FiniteSets

CONSTANTS
    Concept,     \* concept ids
    Chunk,       \* slots of the chunk index
    Asserted,    \* relations that extractions assert
    Overtaken,   \* bound: relations of stores that others overtake
    LegacyEdge,  \* edges an old database may contain, without evidence
    MaxRows,     \* bound: rows of evidence
    MaxMerges,   \* bound: merges
    None

\* is_a stands for the acyclic relations, related_to for the symmetric ones,
\* uses for those that are neither; example_of is no relation any more.
Relation == {"is_a", "related_to", "uses"}
LegacyRelation == {"example_of"}
Edge == Concept \X Concept \X (Relation \cup LegacyRelation)

ASSUME ConceptAssumption == Concept \subseteq Nat /\ IsFiniteSet(Concept)
ASSUME ChunkAssumption == IsFiniteSet(Chunk) /\ None \notin Chunk
ASSUME RelationAssumption ==
    /\ Asserted \subseteq Concept \X Concept \X Relation
    /\ Overtaken \subseteq Asserted
    /\ LegacyEdge \subseteq {e \in Edge : e[1] # e[2]}
ASSUME BoundAssumption == MaxRows \in Nat /\ MaxMerges \in Nat

VARIABLES
    evidence,  \* concept_edge_evidence: pairs of a chunk and an edge
    edges,     \* concept_edges: edge -> evidence_count
    marked,    \* slots with an extraction marker, of whatever version
    current,   \* those whose marker is for what the slot holds now
    rebuild,   \* edge_evidence_rebuild is active
    ready,     \* finalize-evidence has found no pending chunk and may switch
    job,       \* a store_concepts between its reads and its transaction
    purge,     \* a purge_document likewise: the edges it will recompute
    merges,
    clean,     \* history: no legacy edge at the start, or a rebuild finished
    raced      \* history: a rebuild began or ended under a store, or rows were
               \* stored or merged under a purge, since the last switch

vars == <<evidence, edges, marked, current, rebuild, ready, job, purge, merges, clean, raced>>

-----------------------------------------------------------------------------
(* Edges and evidence.                                                     *)

\* canonical_pair: a symmetric relation is stored in one direction.
Canonical(e) == IF e[3] = "related_to" /\ e[1] > e[2] THEN <<e[2], e[1], e[3]>> ELSE e

\* What normalize_relation_keys makes of a key.
Normal(e) == IF e[3] = "example_of" THEN Canonical(<<e[1], e[2], "is_a">>) ELSE Canonical(e)

Keys(ev) == {r[2] : r \in ev}
Count(ev, e) == Cardinality({c \in Chunk : <<c, e>> \in ev})

\* _recompute_edge for all edges of K.
Recomputed(ed, ev, K) ==
    [e \in (DOMAIN ed \ K) \cup (K \cap Keys(ev)) |-> IF e \in K THEN Count(ev, e) ELSE ed[e]]

\* Edges follow the evidence unless a rebuild is active.
Served(ed, ev, K, staging) == IF staging THEN ed ELSE Recomputed(ed, ev, K)

\* reaches: b is in every set that contains a and is closed under is_a.
Reaches(E, a, b) ==
    \A S \in SUBSET Concept :
        a \in S /\ (\A e \in E : e[3] = "is_a" /\ e[1] \in S => e[2] \in S) => b \in S

\* Mutant of Table: the served edges even while evidence is staged.
TableServed(ev, ed) == DOMAIN ed

\* _relation_table: what the graph consists of at present.
Table(ev, ed) == IF rebuild THEN Keys(ev) ELSE DOMAIN ed

\* check_edge.
Allowed(ev, ed, e) ==
    /\ e[1] # e[2]
    /\ e[3] = "is_a" => ~Reaches(Table(ev, ed), e[2], e[1])

-----------------------------------------------------------------------------
(* Storing an extraction.                                                  *)

\* Mutant of Cleared: the edges follow whether or not a rebuild is active.
ClearedServed(c) ==
    LET ev == {r \in evidence : r[1] # c}
    IN  [ev |-> ev, ed |-> Recomputed(edges, ev, {r[2] : r \in evidence \ ev})]

\* clear_edge_evidence_for_chunk.
Cleared(c) ==
    LET ev == {r \in evidence : r[1] # c}
    IN  [ev |-> ev, ed |-> Served(edges, ev, {r[2] : r \in evidence \ ev}, rebuild)]

\* The transaction of store_concepts for chunk c, with the relation e or
\* None, and what was read before: whether the chunk is to be cleared, and
\* whether the edge is to be materialized.  The marker is for the version that
\* was extracted, the latest or one that was replaced meanwhile.
Stored(c, e, clear, materialize) ==
    LET s == IF clear THEN Cleared(c) ELSE [ev |-> evidence, ed |-> edges]
        k == Canonical(e)
        ev == s.ev \cup {<<c, k>>}
    IN  IF e = None \/ ~Allowed(s.ev, s.ed, e) THEN s
        ELSE [ev |-> ev, ed |-> Served(s.ed, ev, {k}, ~materialize)]

StoreTransaction(c, e, clear, materialize, latest) ==
    LET s == Stored(c, e, clear, materialize)
    IN  /\ Cardinality(s.ev) <= MaxRows
        /\ evidence' = s.ev /\ edges' = s.ed
        /\ marked' = marked \cup {c}
        /\ current' = IF latest THEN current \cup {c} ELSE current \ {c}
        /\ UNCHANGED <<rebuild, ready, purge, merges, clean, raced>>

\* Bound: one operation at a time waits between its reads and its writes.
NoneWaits == job = None /\ purge = None

\* Every connection that writes normalizes the keys first.
Normalized == \A e \in DOMAIN edges \cup Keys(evidence) : Normal(e) = e

Store(c, e) ==
    /\ Normalized
    /\ StoreTransaction(c, e, c \notin current, ~rebuild, TRUE)
    /\ UNCHANGED job

\* The reads of a store that is overtaken by others.
StoreReads(c, e) ==
    /\ Normalized /\ NoneWaits
    /\ job' = [chunk |-> c, edge |-> e, clear |-> c \notin current, materialize |-> ~rebuild]
    /\ UNCHANGED <<evidence, edges, marked, current, rebuild, ready, purge, merges, clean, raced>>

StoreLate ==
    /\ job # None
    /\ \E latest \in BOOLEAN :
          StoreTransaction(job.chunk, job.edge, job.clear, job.materialize, latest)
    /\ job' = None

-----------------------------------------------------------------------------
(* Changes of the index.                                                   *)

Relocated(f, S) == {f[c] : c \in S} \ {None}

\* The version of a chunk (graph_input_hash) covers its slot, and the title and
\* the category of its document.  A marker that is kept is for another version
\* once one of them changes, and may be right again once it changes back.

\* realign_doc_chunks: every chunk moves to a slot, stays, or is gone.
Realign(f) ==
    /\ Normalized
    /\ \E c \in Chunk : f[c] # c
    /\ evidence' = UNION {{<<d, e>> : d \in Relocated(f, {c \in Chunk : <<c, e>> \in evidence})}
                           : e \in Keys(evidence)}
    /\ edges' = Served(edges, evidence', Keys(evidence), rebuild)
    /\ marked' = Relocated(f, marked)
    /\ LET stay == {c \in current : f[c] = c}
       IN  \E back \in SUBSET Relocated(f, marked \ current) : current' = stay \cup back
    /\ UNCHANGED <<rebuild, ready, job, purge, merges, clean, raced>>

\* The title or the category of the document changes, and nothing moves.
Retitle ==
    /\ \E back \in SUBSET (marked \ current) : current' = back
    /\ UNCHANGED <<evidence, edges, marked, rebuild, ready, job, purge, merges, clean, raced>>

\* purge_document, through clear_edge_evidence_for_document, when the rows
\* of the document were read to support the edges K.
PurgeTransaction(K) ==
    /\ evidence' = {} /\ marked' = {} /\ current' = {}
    /\ edges' = Served(edges, {}, K, rebuild)
    /\ raced' = (raced \/ (~rebuild /\ ~(Keys(evidence) \subseteq K)))
    /\ UNCHANGED <<rebuild, ready, job, merges, clean>>

Purge == Normalized /\ PurgeTransaction(Keys(evidence)) /\ UNCHANGED purge

\* A purge that is overtaken between its reads and its first write.
PurgeReads ==
    /\ Normalized /\ NoneWaits
    /\ purge' = Keys(evidence)
    /\ UNCHANGED <<evidence, edges, marked, current, rebuild, ready, job, merges, clean, raced>>

PurgeLate ==
    /\ purge # None
    /\ PurgeTransaction(purge)
    /\ purge' = None

-----------------------------------------------------------------------------
(* Rebuild.                                                                *)

\* Mutant of Reset: the markers are dropped, the evidence is not.
ResetMarkers ==
    /\ Normalized
    /\ marked' = {} /\ current' = {}
    /\ rebuild' = TRUE
    /\ raced' = (raced \/ (job # None /\ job.materialize))
    /\ UNCHANGED <<evidence, edges, ready, job, purge, merges, clean>>

\* prepare_edge_evidence_rebuild.
Reset ==
    /\ Normalized
    /\ evidence' = {} /\ marked' = {} /\ current' = {}
    /\ rebuild' = TRUE
    /\ raced' = (raced \/ (job # None /\ job.materialize))
    /\ UNCHANGED <<edges, ready, job, purge, merges, clean>>

\* finalize-evidence looks for pending chunks, and switches later.
FinalizeScan ==
    /\ Normalized /\ rebuild /\ current = Chunk
    /\ ready' = TRUE
    /\ UNCHANGED <<evidence, edges, marked, current, rebuild, job, purge, merges, clean, raced>>

\* finalize_edge_evidence_rebuild.
Finalize ==
    /\ ready /\ rebuild
    /\ edges' = [e \in Keys(evidence) |-> Count(evidence, e)]
    /\ rebuild' = FALSE /\ ready' = FALSE
    /\ clean' = TRUE
    /\ raced' = (job # None /\ ~job.materialize)
    /\ UNCHANGED <<evidence, marked, current, job, purge, merges>>

-----------------------------------------------------------------------------
(* Merging concepts, and keys of older versions.                           *)

Replaced(e, L, w) ==
    <<IF e[1] \in L THEN w ELSE e[1], IF e[2] \in L THEN w ELSE e[2], e[3]>>
Touches(e, L) == e[1] \in L \/ e[2] \in L
IsLoop(e) == e[1] = e[2]
WithoutLoops(E) == {e \in E : ~IsLoop(e)}

Repointed(e, l, w) == Canonical(Replaced(e, {l}, w))

\* _check_merge: no edge that the merge of L into w changes closes a cycle.
MergeAllowed(E, L, w) ==
    LET merged == WithoutLoops({Replaced(e, L, w) : e \in E})
    IN  \A e \in E :
            LET k == Replaced(e, L, w)
            IN  Touches(e, L) /\ ~IsLoop(k) /\ e[3] = "is_a" => ~Reaches(merged, k[2], k[1])

\* _merge_concepts for one loser, the rows of evidence: those that become
\* equal are one row, those that become loops are dropped.
MergedRows(ev, l, w) ==
    {r \in {<<r[1], Repointed(r[2], l, w)>> : r \in ev} : ~IsLoop(r[2])}

\* The edges: those that become equal add up.
MergedEdges(ed, l, w) ==
    LET to(e) == Repointed(e, l, w)
        moved(k) == {e \in DOMAIN ed : Touches(e, {l}) /\ to(e) = k}
    IN  [k \in WithoutLoops({to(e) : e \in DOMAIN ed}) |->
            (IF k \in DOMAIN ed /\ ~Touches(k, {l}) THEN ed[k] ELSE 0)
              + (IF moved(k) # {} THEN ed[CHOOSE e \in moved(k) : TRUE] ELSE 0)]

\* Mutant of MergedOne: the sums are left as they are.
MergedOneSummed(s, l, w) ==
    [ev |-> MergedRows(s.ev, l, w), ed |-> MergedEdges(s.ed, l, w)]

\* Edges whose evidence moved are recomputed in the end.
MergedOne(s, l, w) ==
    LET K == WithoutLoops({Repointed(r[2], l, w) : r \in {q \in s.ev : Touches(q[2], {l})}})
        ev == MergedRows(s.ev, l, w)
    IN  [ev |-> ev, ed |-> Served(MergedEdges(s.ed, l, w), ev, K, rebuild)]

\* merge_concepts with one or two losers.
Merge(w, l1, l2) ==
    LET L == {l1, l2}
        one == MergedOne([ev |-> evidence, ed |-> edges], l1, w)
        both == IF l1 = l2 THEN one ELSE MergedOne(one, l2, w)
    IN  /\ Normalized /\ merges < MaxMerges /\ merges' = merges + 1
        /\ w \notin L
        /\ MergeAllowed(DOMAIN edges, L, w) /\ MergeAllowed(Keys(evidence), L, w)
        /\ evidence' = both.ev /\ edges' = both.ed
        /\ UNCHANGED <<marked, current, rebuild, ready, job, purge, clean, raced>>

\* One key of rekey_edges on a database of an older version: keys without
\* evidence that become equal add up.  Nothing else writes before all the
\* keys are moved; processes of older versions that go on writing are left out.
Rekey(e) ==
    /\ ~Normalized
    /\ e \in DOMAIN edges /\ Normal(e) # e
    /\ edges' = [k \in (DOMAIN edges \ {e}) \cup {Normal(e)} |->
                    IF k # Normal(e) THEN edges[k]
                    ELSE edges[e] + (IF k \in DOMAIN edges THEN edges[k] ELSE 0)]
    /\ UNCHANGED <<evidence, marked, current, rebuild, ready, job, purge, merges, clean, raced>>

-----------------------------------------------------------------------------
Cyclic(E) == \E e \in E : e[3] = "is_a" /\ Reaches(E, e[2], e[1])

\* An old database has edges without evidence; nothing checks that renaming
\* its relations closes no cycle, so this is assumed of it.
Init ==
    /\ \E S \in SUBSET LegacyEdge : edges = [e \in S |-> 1] /\ ~Cyclic({Normal(e) : e \in S})
    /\ evidence = {} /\ marked = {} /\ current = {}
    /\ rebuild = FALSE /\ ready = FALSE
    /\ job = None /\ purge = None
    /\ merges = 0
    /\ clean = (DOMAIN edges = {})
    /\ raced = FALSE

Next ==
    \/ \E c \in Chunk, e \in Asserted \cup {None} : Store(c, e)
    \/ \E c \in Chunk, e \in Overtaken : StoreReads(c, e)
    \/ StoreLate
    \/ \E f \in [Chunk -> Chunk \cup {None}] : Realign(f)
    \/ Retitle
    \/ Purge \/ PurgeReads \/ PurgeLate
    \/ Reset \/ FinalizeScan \/ Finalize
    \/ \E w, l1, l2 \in Concept : Merge(w, l1, l2)
    \/ \E e \in LegacyEdge : Rekey(e)

Spec == Init /\ [][Next]_vars

-----------------------------------------------------------------------------
(* Properties.                                                             *)

Request ==
    [chunk : Chunk, edge : Overtaken, clear : BOOLEAN, materialize : BOOLEAN]

TypeOK ==
    /\ evidence \subseteq Chunk \X Edge
    /\ DOMAIN edges \subseteq Edge /\ edges \in [DOMAIN edges -> Nat \ {0}]
    /\ marked \subseteq Chunk /\ current \subseteq marked
    /\ rebuild \in BOOLEAN /\ ready \in BOOLEAN
    /\ job \in Request \cup {None}
    /\ purge = None \/ purge \subseteq Edge
    /\ merges \in 0 .. MaxMerges
    /\ clean \in BOOLEAN /\ raced \in BOOLEAN

\* Outside a rebuild every piece of evidence is served, and once the legacy
\* edges are gone the edges are exactly the counts of the evidence: no merge,
\* re-chunking, purge or late store leaves an edge that no chunk supports any
\* more or counts a chunk twice (_recompute_edge).
Materialized ==
    ~rebuild /\ ~raced =>
        /\ Keys(evidence) \subseteq DOMAIN edges
        /\ clean => edges = [e \in Keys(evidence) |-> Count(evidence, e)]

\* Neither the served nor the staged graph has a cycle of is_a, although each
\* new relation is checked against one of them only (check_edge,
\* _check_merge).
Acyclic == ~raced => ~Cyclic(DOMAIN edges) /\ ~Cyclic(Keys(evidence))

\* A normalized graph stays so: no relation of a concept to itself, and no
\* symmetric relation in both directions, comes out of a merge or a store.
RegularKept ==
    [][Normalized => Normalized' /\ \A e \in (DOMAIN edges \cup Keys(evidence))' : ~IsLoop(e)]_vars

\* While a rebuild goes on, the served edges are only changed by merges
\* (prepare_edge_evidence_rebuild: "the existing graph in service").
ServiceKept ==
    [][rebuild /\ rebuild' /\ ~raced' => edges' = edges \/ merges' # merges]_vars

\* Evidence stands only at slots with an extraction marker, through moves,
\* purges, late stores and merges; so once a rebuild has dropped the markers, no
\* chunk is counted before it is read again.  The marker may be for an earlier
\* version: then the chunk is pending, and its next store replaces its evidence.
EvidenceMarked == \A r \in evidence : r[1] \in marked

\* What reset-evidence says: the existing relations are kept until the switch
\* is complete ("기존 관계...은 전환 완료까지 유지됩니다", cli.py): no step but
\* a merge takes away a relation or some of its evidence.
RelationsKept ==
    [][rebuild /\ rebuild' /\ merges' = merges =>
          \A e \in DOMAIN edges : e \in DOMAIN edges' /\ edges'[e] >= edges[e]]_vars
=============================================================================
