----------------------------- MODULE GraphReads -----------------------------
(***************************************************************************)
(* Reading the concept graph (graph/query.py): concept_subgraph and        *)
(* query_subgraph (_expand), affected, shortest_path and _closure are one  *)
(* breadth-first search each, one SQL statement for every concept it       *)
(* visits, followed by one statement for every concept it returns.  Each   *)
(* statement sees the graph as it then is: the read connection opens no    *)
(* transaction, and a merge of two concepts may fall in between.           *)
(*                                                                         *)
(* A principal who cannot read every document gets views of the graph      *)
(* (graph/visibility.py): the concepts with a mention or evidence and the  *)
(* edges with evidence in a readable document, as two statements found     *)
(* them when the connection was opened.                                    *)
(*                                                                         *)
(* The edges that are served need not be those with evidence: during a     *)
(* rebuild they are the old ones (EdgeEvidence).  SQL's ORDER BY is any    *)
(* order.  Seeds, names, texts, and the lists of evidence and mentions     *)
(* that an answer shows are left out.                                      *)
(***************************************************************************)
EXTENDS Integers, FiniteSets, FiniteSetsExt, Sequences, SequencesExt

CONSTANTS
    MaxId,      \* ids of concepts are 1 .. MaxId
    Row,        \* evidence: [src, dst, rel, doc]
    Mention,    \* mentions of concepts at the start: [id, doc]
    Readable,   \* documents a restricted principal can read
    Requests,   \* [kind, roots, goal, depth, restricted]
    MaxNodes,   \* max_nodes
    Limit,      \* limit of _closure
    MaxWrites   \* merges while the read is going on

\* SYMMETRIC_RELATIONS and a TRANSITIVE_RELATION (graph/ontology.py).
Symmetric == "related_to"
Transitive == "is_a"

Kinds == {"subgraph", "affected", "path", "directed path", "up", "down"}

ASSUME GraphReadsAssumption ==
    /\ MaxId \in Nat
    /\ Row \subseteq [src : 1 .. MaxId, dst : 1 .. MaxId, rel : {Symmetric, Transitive},
                      doc : STRING]
    /\ Mention \subseteq [id : 1 .. MaxId, doc : STRING]
    /\ \A r \in Row : r.src # r.dst /\ (r.rel = Symmetric => r.src < r.dst)
    /\ Requests \subseteq [kind : Kinds, roots : Seq(1 .. MaxId), goal : 0 .. MaxId,
                           depth : Nat, restricted : BOOLEAN]
    /\ \A q \in Requests : q.kind \in {"path", "directed path"} <=> q.goal # 0
    /\ \A q \in Requests : Len(q.roots) \in 1 .. (IF q.kind = "subgraph" THEN MaxNodes ELSE 1)
    /\ MaxNodes \in Nat \ {0} /\ Limit \in Nat \ {0} /\ MaxWrites \in Nat

VARIABLES
    evidence, \* concept_edge_evidence
    served,  \* concept_edges
    mentions, \* concept_mentions
    ids,     \* concepts in the database
    view,    \* what the connection may see: concepts and edges
    request, \* what is asked
    queue,   \* concepts to visit
    depth,   \* depth_by_id: concept -> distance found
    parent,  \* concept -> the one it was reached from, 0 for a root
    edges,   \* edges found
    found,   \* _closure: concepts in the order they were found
    phase,   \* what the read does next; "done", "refused", "raised" end it
    missing, \* concepts still to be looked up
    writes   \* [all: merges so far, before: those before the connection]

readsVars ==
    <<evidence, served, mentions, ids, view, request, queue, depth, parent, edges, found, phase,
      missing, writes>>

----------------------------------------------------------------------------
EdgeOf(r) == [src |-> r.src, dst |-> r.dst, rel |-> r.rel]
EdgesOf(S) == {EdgeOf(r) : r \in S}
EndsOf(S) == UNION {{r.src, r.dst} : r \in S}

\* Mutant of Seen: an edge is visible when its ends are.
SeenByEnds(S) == {r \in S : {r.src, r.dst} \subseteq EndsOf({x \in S : x.doc \in Readable})}

\* The evidence a principal sees.
Seen(S) == {r \in S : request.restricted => r.doc \in Readable}

\* pkb_visible_concepts.
VisibleConcepts(S) == EndsOf(S) \cup {m.id : m \in {k \in mentions : k.doc \in Readable}}

ConceptsNow == ids \cap view.concepts

\* concept_edges as the connection sees it now; the searches but _closure
\* join it with its ends.
EdgesNow ==
    {e \in served \cap view.edges :
        request.kind \in {"up", "down"} \/ {e.src, e.dst} \subseteq ConceptsNow}

Other(e, n) == IF e.src = n THEN e.dst ELSE e.src

\* Mutant of Followed: a symmetric edge is followed from its source only.
FollowedStored(kind, n, E) ==
    {e \in E : CASE kind \in {"subgraph", "path"} -> n \in {e.src, e.dst}
                 [] kind \in {"affected", "directed path"} -> n = e.src
                 [] kind = "up" -> n = e.src /\ e.rel = Transitive
                 [] kind = "down" -> n = e.dst /\ e.rel = Transitive}

\* _incident_edges and the statements of _closure: the edges that a search
\* of this kind follows from n.
Followed(kind, n, E) ==
    {e \in E :
        CASE kind \in {"subgraph", "path"} -> n \in {e.src, e.dst}
          [] kind \in {"affected", "directed path"} ->
                n = e.src \/ (n = e.dst /\ e.rel = Symmetric)
          [] kind = "up" -> n = e.src /\ e.rel = Transitive
          [] kind = "down" -> n = e.dst /\ e.rel = Transitive}

\* Mutant of AtLimit: one step more.
PastLimit(d) == d > request.depth

\* max_hops, max_depth, depth: no step leads on from here.
AtLimit(d) == d >= request.depth

\* A relation is inferred when there are two steps or more.
Inferred(d) == d >= 2

Bounded == request.kind \in {"subgraph", "affected"}
Closure == request.kind \in {"up", "down"}
IsPath == request.kind \in {"path", "directed path"}

----------------------------------------------------------------------------
Nobody == [n \in {} |-> 0]

ReadsInit ==
    /\ evidence \in SUBSET Row /\ served \in SUBSET EdgesOf(Row)
    /\ mentions = Mention
    /\ ids = 1 .. MaxId
    /\ view = [concepts |-> {}, edges |-> {}]
    /\ request \in Requests
    /\ queue = <<>> /\ depth = Nobody /\ parent = Nobody /\ edges = {} /\ found = <<>>
    /\ phase = "opening" /\ missing = {}
    /\ writes = [all |-> 0, before |-> 0]

\* graph_read_connection: for a restricted principal the visible concepts are
\* put in a table first.
Open ==
    /\ phase = "opening"
    /\ view' = [view EXCEPT !.concepts =
                  IF request.restricted THEN VisibleConcepts(Seen(evidence)) ELSE 1 .. MaxId]
    /\ phase' = "views"
    /\ writes' = [writes EXCEPT !.before = writes.all]
    /\ UNCHANGED <<evidence, served, mentions, ids, request, queue, depth, parent,
                   edges, found, missing>>

\* Then the visible edges.
OpenEdges ==
    /\ phase = "views"
    /\ view' = [view EXCEPT !.edges =
                  IF request.restricted THEN EdgesOf(Seen(evidence))
                  ELSE [src : 1 .. MaxId, dst : 1 .. MaxId, rel : {Symmetric, Transitive}]]
    /\ phase' = "resolving"
    /\ UNCHANGED <<evidence, served, mentions, ids, request, queue, depth, parent,
                   edges, found, missing, writes>>

\* resolve_concept: an unknown concept is an error the caller is told.
Resolve ==
    /\ phase = "resolving"
    /\ LET roots == ToSet(request.roots) IN
       IF roots \cup ({request.goal} \ {0}) \subseteq ConceptsNow
       THEN /\ queue' = request.roots
            /\ depth' = [n \in roots |-> 0]
            /\ parent' = [n \in roots |-> 0]
            /\ phase' = "searching"
       ELSE /\ phase' = "refused"
            /\ UNCHANGED <<queue, depth, parent>>
    /\ UNCHANGED <<evidence, served, mentions, ids, view, request, edges, found,
                   missing, writes>>

\* The edges followed from n, none at the limit of the depth, and the new
\* concepts they lead to.
Incident(n) == IF AtLimit(depth[n]) THEN {} ELSE Followed(request.kind, n, EdgesNow)
NewFrom(n) == {Other(e, n) : e \in Incident(n)} \ DOMAIN depth

\* New neighbours of n come in, in this order; the goal ends the search.
Take(n, picked) ==
    LET S == ToSet(picked)
        size == Len(picked)
    IN  /\ parent' = [x \in DOMAIN parent \cup S |-> IF x \in S THEN n ELSE parent[x]]
        /\ depth' = [x \in DOMAIN depth \cup S |-> IF x \in S THEN depth[n] + 1 ELSE depth[x]]
        /\ queue' = Tail(queue) \o SubSeq(picked, 1, IF request.goal \in S THEN size - 1 ELSE size)
        /\ edges' = IF Bounded THEN edges \cup {e \in Incident(n) : Other(e, n) \in DOMAIN depth'}
                    ELSE edges
        /\ found' = IF Closure /\ Inferred(depth[n] + 1) THEN found \o picked ELSE found

\* One concept of the queue is visited.  Of its new neighbours come in all, as
\* many as max_nodes allows, or those up to the goal.
Visit ==
    /\ phase = "searching" /\ queue # <<>>
    /\ request.goal \notin DOMAIN depth
    /\ Closure => Len(found) < Limit
    /\ LET n == Head(queue)
           new == NewFrom(n)
           free == MaxNodes - Cardinality(DOMAIN depth)
           room == IF Bounded /\ free < Cardinality(new) THEN free ELSE Cardinality(new)
       IN  \E size \in 0 .. room : \E S \in kSubset(size, new) : \E picked \in SetToSeqs(S) :
              /\ IF request.goal \in new
                 THEN size > 0 /\ picked[size] = request.goal
                 ELSE size = room
              /\ Take(n, picked)
    /\ UNCHANGED <<evidence, served, mentions, ids, view, request, phase, missing,
                   writes>>

\* The chain of concepts from a root to x.
ChainTo(x) ==
    LET chain[i \in 0 .. request.depth] ==
            IF i = 0 THEN <<x>>
            ELSE IF parent[Head(chain[i - 1])] = 0 THEN chain[i - 1]
                 ELSE <<parent[Head(chain[i - 1])]>> \o chain[i - 1]
    IN  chain[request.depth]

Results == SubSeq(found, 1, IF Len(found) < Limit THEN Len(found) ELSE Limit)

\* The concepts of the answer, each to be read with a statement of its own.
Returned ==
    CASE Bounded -> DOMAIN depth
      [] IsPath -> IF request.goal \in DOMAIN depth THEN ToSet(ChainTo(request.goal)) ELSE {}
      [] Closure -> UNION {ToSet(ChainTo(x)) : x \in ToSet(Results)}

Searched ==
    /\ phase = "searching"
    /\ \/ queue = <<>>
       \/ request.goal \in DOMAIN depth
       \/ Closure /\ Len(found) >= Limit
    /\ missing' = Returned
    /\ phase' = "returning"
    /\ UNCHANGED <<evidence, served, mentions, ids, view, request, queue, depth,
                   parent, edges, found, writes>>

\* _concept_by_id: a concept that is gone raises.
LookUpConcept ==
    /\ phase = "returning" /\ missing # {}
    /\ \E n \in missing :
          IF n \in ConceptsNow THEN missing' = missing \ {n} /\ UNCHANGED phase
          ELSE phase' = "raised" /\ UNCHANGED missing
    /\ UNCHANGED <<evidence, served, mentions, ids, view, request, queue, depth,
                   parent, edges, found, writes>>

Answer ==
    /\ phase = "returning" /\ missing = {}
    /\ phase' = "done"
    /\ UNCHANGED <<evidence, served, mentions, ids, view, request, queue, depth,
                   parent, edges,
                   found, missing, writes>>

\* What a merge makes of edges or evidence: `gone' becomes `kept', a loop is
\* dropped, a symmetric edge put in its order.
Redirected(S, gone, kept) ==
    LET end(n) == IF n = gone THEN kept ELSE n
        swap(r) == r.rel = Symmetric /\ end(r.src) > end(r.dst)
    IN  {[r EXCEPT !.src = IF swap(r) THEN end(r.dst) ELSE end(r.src),
                   !.dst = IF swap(r) THEN end(r.src) ELSE end(r.dst)] :
            r \in {s \in S : end(s.src) # end(s.dst)}}

\* graph_merge of another process, one transaction.
GraphMerge ==
    /\ writes.all < MaxWrites
    /\ phase \notin {"done", "raised", "refused"}
    /\ \E kept, gone \in ids :
          /\ kept # gone
          /\ evidence' = Redirected(evidence, gone, kept)
          /\ served' = Redirected(served, gone, kept)
          /\ mentions' = {[m EXCEPT !.id = IF @ = gone THEN kept ELSE @] : m \in mentions}
          /\ ids' = ids \ {gone}
    /\ writes' = [writes EXCEPT !.all = @ + 1]
    /\ UNCHANGED <<view, request, queue, depth, parent, edges, found, phase, missing>>

Read == Open \/ OpenEdges \/ Resolve \/ Visit \/ Searched \/ LookUpConcept \/ Answer
ReadsNext == Read \/ GraphMerge
ReadsSpec == ReadsInit /\ [][ReadsNext]_readsVars
-----------------------------------------------------------------------------
\* No merge since the connection was opened.
Quiet == writes.all = writes.before

\* The reference: the served edges that may be read, as if nothing else were
\* in the database, and the concepts within k steps along them.
HasReadableEvidence(e) == \E r \in evidence : r.doc \in Readable /\ EdgeOf(r) = e

Leads(e, n, m) ==
    LET there == e.src = n /\ e.dst = m
        back == e.src = m /\ e.dst = n
    IN  CASE request.kind \in {"subgraph", "path"} -> there \/ back
          [] request.kind \in {"affected", "directed path"} -> there \/ (back /\ e.rel = Symmetric)
          [] request.kind = "up" -> there /\ e.rel = Transitive
          [] request.kind = "down" -> back /\ e.rel = Transitive

Arcs ==
    {a \in (1 .. MaxId) \X (1 .. MaxId) :
        \E e \in served : Leads(e, a[1], a[2]) /\ (request.restricted => HasReadableEvidence(e))}

Within[k \in 0 .. request.depth] ==
    IF k = 0 THEN ToSet(request.roots)
    ELSE Within[k - 1] \cup {a[2] : a \in {b \in Arcs : b[1] \in Within[k - 1]}}

AtDistance(n, k) == n \in Within[k] /\ (k = 0 \/ n \notin Within[k - 1])

\* A neighbourhood holds the nearest concepts at their true distances, all
\* that are within the depth unless there are MaxNodes, and every edge that
\* leads from one to another short of that depth: to a principal who cannot
\* read all, what the edges with readable evidence alone would give.
NeighbourhoodExact ==
    (Bounded /\ Quiet /\ phase \in {"returning", "done"}) =>
        LET nodes == DOMAIN depth
            arcs == {a \in Arcs : a[1] \in nodes /\ a[2] \in nodes /\ depth[a[1]] < request.depth}
        IN  /\ \A n \in nodes : AtDistance(n, depth[n])
            /\ \A n \in Within[request.depth] \ nodes :
                  /\ Cardinality(nodes) = MaxNodes
                  /\ \A m \in nodes : \E k \in depth[m] .. request.depth : AtDistance(n, k)
            /\ {{e.src, e.dst} : e \in edges} = {{a[1], a[2]} : a \in arcs}

\* A path is found when there is one within max_hops, and it is a shortest.
PathShortest ==
    (IsPath /\ Quiet /\ phase \in {"returning", "done"}) =>
        /\ request.goal \in DOMAIN depth <=> request.goal \in Within[request.depth]
        /\ request.goal \in DOMAIN depth =>
              LET chain == ChainTo(request.goal) IN
              /\ chain[1] = request.roots[1]
              /\ \A i \in 1 .. Len(chain) - 1 : <<chain[i], chain[i + 1]>> \in Arcs
              /\ AtDistance(request.goal, Len(chain) - 1)

\* The inferred relations are those of concepts two steps or more away, each
\* once and over a shortest chain, all of them unless there are Limit: none
\* that is asserted, and none of a concept to itself.
InferredExact ==
    (Closure /\ Quiet /\ phase \in {"returning", "done"}) =>
        /\ Cardinality(ToSet(Results)) = Len(Results)
        /\ \A n \in ToSet(Results) :
              LET chain == ChainTo(n) IN
              /\ Len(chain) > 2
              /\ \A i \in 1 .. Len(chain) - 1 : <<chain[i], chain[i + 1]>> \in Arcs
              /\ AtDistance(n, Len(chain) - 1)
        /\ Len(Results) < Limit =>
              \A k \in 2 .. request.depth :
                  {n \in Within[k] : AtDistance(n, k)} \subseteq ToSet(Results)

\* Whatever a search answers with a chain of relations (shortest_path,
\* _closure), the chain is there and none is shorter.
ChainsExact == PathShortest /\ InferredExact
=============================================================================
