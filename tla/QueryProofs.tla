---------------------------- MODULE QueryProofs ----------------------------
(***************************************************************************)
(* What queries return: first the searches through the graph (GraphReads), *)
(* then the ranking of a search for chunks (Retrieval).                    *)
(*                                                                         *)
(* The breadth-first searches of GraphReads return exactly what is within  *)
(* reach: for any graph, any seeds and goal, any depth, max_nodes and      *)
(* limit.                                                                  *)
(*                                                                         *)
(* Whatever merges fall in between, the state is well formed and parents   *)
(* lead from every concept to a root (Tree).  As long as none has (Quiet), *)
(* concepts come in in the order of their distances (Nearest, Ordered),    *)
(* and what a visited concept leads to has come in, unless max_nodes is    *)
(* reached (Expanded).  So when the next concept to visit is k steps away, *)
(* all that are within k steps are there, and what it adds is one step     *)
(* further and no nearer; and when none is left to visit, nothing within   *)
(* the depth is missing.                                                   *)
(*                                                                         *)
(* The concepts within k steps (Within) and the chain to a concept         *)
(* (ChainTo) are recursive functions.  What is said of them is shown by    *)
(* the least number for which it fails (Least), from the fact that < is    *)
(* well founded on the natural numbers.                                    *)
(*                                                                         *)
(* hybrid_search puts a chunk before another if the queries agree on it.   *)
(* A list of chunks is compared by which of two would come first once it   *)
(* is sorted (Leading).  Sorting (BestForm), scoring a ranking (ScoredForm)*)
(* and adding one list to another (AddedLeads) keep it, as long as scores  *)
(* are not negative (NoDebts), and the boost does where a chunk that gains *)
(* is ahead (BoostLifts).  That sorting puts in order what it is given     *)
(* needs no induction: the number of entries before an entry is its place  *)
(* (ArrangedForm).                                                         *)
(***************************************************************************)
EXTENDS GraphReads, Retrieval, FiniteSetTheorems, SequenceTheorems, WellFoundedInduction, TLAPS

-----------------------------------------------------------------------------
(* Numbers and recursive functions.                                        *)

\* A nonempty set of numbers has a least element.
LEMMA Least ==
    ASSUME NEW T \in SUBSET Nat, T # {}
    PROVE  \E n \in T : \A m \in T : n <= m
<1>1. PICK n \in T : \A m \in T : <<m, n>> \notin OpToRel(<, Nat)
  BY NatLessThanWellFounded, WFMin
<1>2. \A m \in T : ~(m < n)
  BY <1>1 DEF OpToRel
<1> QED
  BY <1>2

\* There is a sequence that begins with a and goes on by g.
Iterated(f, n, a, g) == f[0] = a /\ \A k \in 1 .. n : f[k] = g[f[k - 1]]

LEMMA Iterates ==
    ASSUME NEW N \in Nat, NEW S, NEW a \in S, NEW g \in [S -> S]
    PROVE  \E f \in [0 .. N -> S] : Iterated(f, N, a, g)
<1> DEFINE Is(f, n) == Iterated(f, n, a, g)
           Bad == {n \in Nat : ~\E f \in [0 .. n -> S] : Is(f, n)}
<1>1. CASE Bad = {}
  BY <1>1 DEF Bad
<1>2. CASE Bad # {}
  <2>1. PICK n \in Bad : \A m \in Bad : n <= m
    BY <1>2, Least
  <2>2. n # 0
    <3>1. PICK f : f = [k \in 0 .. 0 |-> a]
      OBVIOUS
    <3>2. f \in [0 .. 0 -> S] /\ Is(f, 0)
      BY <3>1 DEF Iterated
    <3> QED
      BY <3>2
  <2>3. PICK f \in [0 .. n - 1 -> S] : Is(f, n - 1)
    <3>1. n \in Nat
      BY <2>1
    <3> HIDE DEF Bad
    <3>2. n - 1 \in Nat /\ n - 1 \notin Bad
      BY <2>1, <2>2, <3>1
    <3> QED
      BY <3>2 DEF Bad
  <2>4. PICK h : h = [k \in 0 .. n |-> IF k = n THEN g[f[n - 1]] ELSE f[k]]
    OBVIOUS
  <2> HIDE DEF Is, Bad
  <2>5. n \in Nat /\ n - 1 \in 0 .. n - 1 /\ f[n - 1] \in S
    <3>1. n \in Nat
      BY <2>1 DEF Bad
    <3> QED
      BY <2>2, <2>3, <3>1
  <2>6. h \in [0 .. n -> S]
    BY <2>2, <2>3, <2>4, <2>5
  <2>7. Is(h, n)
    BY <2>2, <2>3, <2>4, <2>5 DEF Is, Iterated
  <2> QED
    BY <2>1, <2>6, <2>7 DEF Bad
<1> QED
  BY <1>1, <1>2

\* The elements of a sequence.
LEMMA Elements ==
    ASSUME NEW S, NEW s \in Seq(S)
    PROVE  ToSet(s) \in SUBSET S /\ ToSet(s) = {s[i] : i \in 1 .. Len(s)}
BY LenProperties DEF ToSet

-----------------------------------------------------------------------------
(* The reference.                                                          *)

\* What one more step adds.
Beyond(X) == X \cup {a[2] : a \in {b \in Arcs : b[1] \in X}}

LEMMA WithinForm ==
    ASSUME request \in Requests
    PROVE  /\ request.depth \in Nat
           /\ Within \in [0 .. request.depth -> SUBSET (1 .. MaxId)]
           /\ Within[0] = ToSet(request.roots)
           /\ \A k \in 1 .. request.depth : Within[k] = Beyond(Within[k - 1])
<1>1. /\ request.depth \in Nat /\ request.roots \in Seq(1 .. MaxId)
  BY GraphReadsAssumption
<1>2. ToSet(request.roots) \in SUBSET (1 .. MaxId)
  BY <1>1, Elements
<1>3. PICK N, S, R : N = request.depth /\ S = SUBSET (1 .. MaxId) /\ R = ToSet(request.roots)
  OBVIOUS
<1>4. PICK g : g = [X \in S |-> Beyond(X)]
  OBVIOUS
<1>5. g \in [S -> S] /\ \A X \in S : g[X] = Beyond(X)
  BY <1>3, <1>4 DEF Beyond, Arcs
<1>6. N \in Nat /\ R \in S
  BY <1>1, <1>2, <1>3
<1>7. PICK f \in [0 .. N -> S] : f[0] = R /\ \A k \in 1 .. N : f[k] = g[f[k - 1]]
  <2>1. N \in Nat
    BY <1>6
  <2>2. R \in S
    BY <1>6
  <2>3. g \in [S -> S]
    BY <1>5
  <2> QED
    <3>1. \E f \in [0 .. N -> S] : Iterated(f, N, R, g)
      BY <2>1, <2>2, <2>3, Iterates
    <3> QED
      BY <3>1 DEF Iterated
<1>8. ASSUME NEW k \in 1 .. N PROVE f[k] = Beyond(f[k - 1])
  <2>1. k - 1 \in 0 .. N
    BY <1>6
  <2> QED
    BY <1>5, <1>7, <2>1
<1>9. f = [k \in 0 .. N |-> IF k = 0 THEN R ELSE Beyond(f[k - 1])]
  BY <1>6, <1>7, <1>8
<1>10. Within = [k \in 0 .. N |-> IF k = 0 THEN R ELSE Beyond(Within[k - 1])]
  <2>1. \E F : F = [k \in 0 .. request.depth |->
                        IF k = 0 THEN ToSet(request.roots)
                        ELSE F[k - 1] \cup {a[2] : a \in {b \in Arcs : b[1] \in F[k - 1]}}]
    <3>1. f = [k \in 0 .. request.depth |->
                  IF k = 0 THEN ToSet(request.roots)
                  ELSE f[k - 1] \cup {a[2] : a \in {b \in Arcs : b[1] \in f[k - 1]}}]
      BY <1>3, <1>9 DEF Beyond
    <3> QED
      BY <3>1, Zenon
  <2>2. Within = [k \in 0 .. request.depth |->
                     IF k = 0 THEN ToSet(request.roots)
                     ELSE Within[k - 1] \cup {a[2] : a \in {b \in Arcs : b[1] \in Within[k - 1]}}]
    BY <2>1, Zenon DEF Within
  <2> QED
    BY <1>3, <2>2, Zenon DEF Beyond
<1>11. Within[0] = R /\ \A k \in 1 .. N : Within[k] = Beyond(Within[k - 1])
  BY <1>6, <1>10
<1>12. Within = f
  <2> DEFINE Bad == {k \in 0 .. N : Within[k] # f[k]}
  <2>1. CASE Bad # {}
    <3>1. PICK k \in Bad : \A j \in Bad : k <= j
      <4>1. Bad \in SUBSET Nat
        BY <1>6
      <4> QED
        BY <2>1, <4>1, Least
    <3>2. k # 0
      BY <1>7, <1>11, <3>1
    <3>3. k - 1 \in 0 .. N /\ k - 1 \notin Bad
      BY <1>6, <3>1, <3>2
    <3> QED
      BY <1>6, <1>8, <1>11, <3>1, <3>2, <3>3
  <2>2. CASE Bad = {}
    BY <1>9, <1>10, <2>2
  <2> QED
    BY <2>1, <2>2
<1> QED
  BY <1>3, <1>6, <1>7, <1>11, <1>12

-----------------------------------------------------------------------------
(* Distances.                                                              *)

LEMMA WithinGrows ==
    ASSUME request \in Requests, NEW j \in 0 .. request.depth, NEW k \in 0 .. request.depth, j <= k
    PROVE  Within[j] \subseteq Within[k]
<1> DEFINE Bad == {i \in Nat : i <= request.depth /\ j <= i /\ ~(Within[j] \subseteq Within[i])}
<1>1. CASE Bad = {}
  <2>1. request.depth \in Nat
    BY WithinForm
  <2> QED
    BY <1>1, <2>1
<1>2. CASE Bad # {}
  <2>1. PICK i \in Bad : \A l \in Bad : i <= l
    BY <1>2, Least
  <2>2. request.depth \in Nat /\ i \in Nat /\ i <= request.depth /\ j < i /\ ~(Within[j] \subseteq Within[i])
    BY WithinForm
  <2>3. i - 1 \in Nat /\ i - 1 <= request.depth /\ j <= i - 1
    BY <2>2
  <2>4. i - 1 \notin Bad
    <3> HIDE DEF Bad
    <3> QED
      BY <2>1, <2>2, <2>3
  <2>5. Within[j] \subseteq Within[i - 1]
    BY <2>3, <2>4
  <2>6. Within[i] = Beyond(Within[i - 1])
    BY <2>2, WithinForm
  <2> QED
    BY <2>2, <2>5, <2>6 DEF Beyond
<1> QED
  BY <1>1, <1>2

\* One step further.
LEMMA OneFurther ==
    ASSUME request \in Requests, NEW k \in 0 .. request.depth, k < request.depth,
           NEW x \in Within[k], NEW y, <<x, y>> \in Arcs
    PROVE  y \in Within[k + 1]
<1>1. k + 1 \in 1 .. request.depth /\ (k + 1) - 1 = k
  BY WithinForm
<1>2. Within[k + 1] = Beyond(Within[k])
  BY <1>1, WithinForm
<1> QED
  BY <1>2 DEF Beyond

\* Whatever is within k steps has a distance of at most k.
LEMMA HasDistance ==
    ASSUME request \in Requests, NEW k \in 0 .. request.depth, NEW n \in Within[k]
    PROVE  \E d \in 0 .. k : AtDistance(n, d)
<1> DEFINE T == {d \in Nat : d <= request.depth /\ n \in Within[d]}
<1>1. request.depth \in Nat /\ k \in T
  BY WithinForm
<1>2. PICK d \in T : \A e \in T : d <= e
  BY <1>1, Least
<1>3. d \in 0 .. k
  BY <1>1, <1>2
<1>4. d # 0 => n \notin Within[d - 1]
  <2>1. ASSUME d # 0 PROVE d - 1 \in Nat /\ d - 1 <= request.depth /\ d - 1 \notin T
    <3>1. d \in Nat /\ d <= request.depth
      OBVIOUS
    <3> HIDE DEF T
    <3> QED
      BY <1>1, <1>2, <2>1, <3>1
  <2> QED
    BY <2>1
<1> QED
  BY <1>2, <1>3, <1>4 DEF AtDistance

\* A distance is the least one.
LEMMA DistanceLeast ==
    ASSUME request \in Requests, NEW d \in 0 .. request.depth, NEW k \in 0 .. request.depth,
           NEW n, AtDistance(n, d), n \in Within[k]
    PROVE  d <= k
<1>1. CASE k < d
  <2>1. d - 1 \in 0 .. request.depth /\ k <= d - 1
    BY <1>1, WithinForm
  <2>2. n \in Within[d - 1]
    BY <2>1, WithinGrows
  <2> QED
    BY <1>1, <2>2 DEF AtDistance
<1> QED
  BY <1>1, WithinForm

-----------------------------------------------------------------------------
(* The invariant.                                                          *)

Evidence == [src : 1 .. MaxId, dst : 1 .. MaxId, rel : {Symmetric, Transitive}, doc : STRING]
Edge == [src : 1 .. MaxId, dst : 1 .. MaxId, rel : {Symmetric, Transitive}]

\* The graph refers to concepts there are, and the search is well formed.
ReadsTypeOK ==
    /\ evidence \subseteq Evidence /\ ids \subseteq 1 .. MaxId /\ EndsOf(evidence) \subseteq ids
    /\ served \subseteq Edge /\ EndsOf(served) \subseteq ids
    /\ mentions \subseteq [id : 1 .. MaxId, doc : STRING]
    /\ view \in [concepts : SUBSET (1 .. MaxId), edges : SUBSET Edge]
    /\ request \in Requests
    /\ DOMAIN depth \subseteq 1 .. MaxId /\ depth \in [DOMAIN depth -> 0 .. request.depth]
    /\ parent \in [DOMAIN depth -> {0} \cup DOMAIN depth]
    /\ queue \in Seq(DOMAIN depth) /\ found \in Seq(DOMAIN depth)
    /\ edges \subseteq Edge /\ missing \subseteq DOMAIN depth
    /\ phase \in {"opening", "views", "resolving", "searching", "returning", "done", "refused", "raised"}
    /\ writes \in [all : 0 .. MaxWrites, before : 0 .. MaxWrites] /\ writes.before <= writes.all
    /\ Bounded => Cardinality(DOMAIN depth) <= MaxNodes
    /\ phase \in {"opening", "views", "resolving"} => found = <<>> /\ edges = {} /\ missing = {}

\* Parents lead from every concept to a root.
Tree ==
    \A x \in DOMAIN depth :
        \/ parent[x] = 0 /\ depth[x] = 0 /\ x \in ToSet(request.roots)
        \/ parent[x] \in DOMAIN depth /\ depth[x] = depth[parent[x]] + 1

\* The connection sees what there is to be seen.
ViewCurrent ==
    /\ phase # "opening" =>
          view.concepts = IF request.restricted THEN VisibleConcepts(Seen(evidence)) ELSE 1 .. MaxId
    /\ phase \notin {"opening", "views"} =>
          view.edges = IF request.restricted THEN EdgesOf(Seen(evidence)) ELSE Edge

Visited == DOMAIN depth \ ToSet(queue)
Full == Bounded /\ Cardinality(DOMAIN depth) = MaxNodes

\* Concepts are found in the order of their distances.
Nearest ==
    /\ ToSet(request.roots) \subseteq DOMAIN depth
    /\ \A x \in DOMAIN depth : AtDistance(x, depth[x])
    /\ \A x \in DOMAIN depth : \A k \in 0 .. request.depth : k < depth[x] => Within[k] \subseteq DOMAIN depth
    /\ \A x \in DOMAIN depth : parent[x] # 0 => <<parent[x], x>> \in Arcs

\* The queue holds at most two distances, the smaller one first.
Ordered ==
    \A i, j \in 1 .. Len(queue) :
        i <= j => depth[queue[i]] <= depth[queue[j]] /\ depth[queue[j]] <= depth[queue[1]] + 1

\* What a visited concept leads to has been found, unless the search is full.
Expanded ==
    request.goal \notin DOMAIN depth =>
        \A x \in Visited : depth[x] < request.depth =>
            \A e \in Followed(request.kind, x, EdgesNow) :
                IF Other(e, x) \in DOMAIN depth THEN Bounded => e \in edges ELSE Full

\* Edges are returned that were followed from one returned concept to another.
EdgesFollowed ==
    \A e \in edges : \E x \in DOMAIN depth :
        /\ depth[x] < request.depth
        /\ e \in Followed(request.kind, x, EdgesNow) /\ Other(e, x) \in DOMAIN depth

FoundAll == Closure => /\ ToSet(found) = {x \in DOMAIN depth : Inferred(depth[x])}
                       /\ IsInjective(found)

Ended ==
    phase \in {"returning", "done"} =>
        queue = <<>> \/ request.goal \in DOMAIN depth \/ (Closure /\ Len(found) >= Limit)

SearchInv == Nearest /\ Ordered /\ Expanded /\ EdgesFollowed /\ FoundAll /\ Ended

ReadsInv ==
    /\ ReadsTypeOK /\ Tree
    /\ Quiet => ViewCurrent
    /\ Quiet /\ phase \in {"searching", "returning", "done"} => SearchInv

\* What is asked.
LEMMA RequestForm ==
    ASSUME request \in Requests
    PROVE  /\ request.kind \in Kinds /\ request.depth \in Nat /\ request.goal \in 0 .. MaxId
           /\ IsPath <=> request.goal # 0
           /\ request.roots \in Seq(1 .. MaxId) /\ Len(request.roots) >= 1
           /\ IF Bounded THEN Len(request.roots) <= MaxNodes ELSE Len(request.roots) = 1
           /\ MaxId \in Nat /\ MaxNodes \in Nat /\ Limit \in Nat \ {0}
<1>1. /\ MaxId \in Nat /\ MaxNodes \in Nat \ {0} /\ Limit \in Nat \ {0}
  BY GraphReadsAssumption
<1>2. /\ request.kind \in Kinds /\ request.depth \in Nat /\ request.goal \in 0 .. MaxId
      /\ request.roots \in Seq(1 .. MaxId)
  BY GraphReadsAssumption
<1>3. /\ IsPath <=> request.goal # 0
      /\ Len(request.roots) \in 1 .. (IF request.kind = "subgraph" THEN MaxNodes ELSE 1)
  BY GraphReadsAssumption DEF IsPath
<1>4. PICK k : k = Len(request.roots)
  OBVIOUS
<1>5. k \in 1 .. (IF request.kind = "subgraph" THEN MaxNodes ELSE 1)
  BY <1>3, <1>4
<1>6. k >= 1 /\ IF Bounded THEN k <= MaxNodes ELSE k = 1
  BY <1>1, <1>5 DEF Bounded
<1> QED
  BY <1>1, <1>2, <1>3, <1>4, <1>6

LEMMA ReachedForm ==
    ASSUME ReadsTypeOK, NEW x \in DOMAIN depth
    PROVE  /\ x \in 1 .. MaxId /\ x # 0
           /\ depth[x] \in 0 .. request.depth /\ depth[x] \in Nat /\ request.depth \in Nat
           /\ parent[x] \in {0} \cup DOMAIN depth
           /\ Tree => IF parent[x] = 0 THEN depth[x] = 0 /\ x \in ToSet(request.roots)
                      ELSE parent[x] \in DOMAIN depth /\ depth[x] = depth[parent[x]] + 1
<1>1. request.depth \in Nat /\ MaxId \in Nat
  BY RequestForm DEF ReadsTypeOK
<1>2. DOMAIN depth \subseteq 1 .. MaxId /\ depth \in [DOMAIN depth -> 0 .. request.depth]
      /\ parent \in [DOMAIN depth -> {0} \cup DOMAIN depth]
  BY DEF ReadsTypeOK
<1> QED
  BY <1>1, <1>2 DEF Tree

-----------------------------------------------------------------------------
(* The graph that is seen.                                                 *)

SeenEdges == {e \in served : request.restricted => HasReadableEvidence(e)}

LEMMA EdgesSeen ==
    ASSUME ReadsTypeOK, ViewCurrent, phase \notin {"opening", "views"}
    PROVE  EdgesNow = SeenEdges
<1>1. served \cap view.edges = SeenEdges
  <2>1. CASE request.restricted
    <3>1. \A e : e \in EdgesOf(Seen(evidence)) <=> HasReadableEvidence(e)
      BY <2>1 DEF EdgesOf, Seen, HasReadableEvidence
    <3> QED
      BY <2>1, <3>1 DEF ViewCurrent, SeenEdges
  <2>2. CASE ~request.restricted
    BY <2>2 DEF ViewCurrent, SeenEdges, ReadsTypeOK
  <2> QED
    BY <2>1, <2>2
<1>2. ASSUME NEW e \in SeenEdges PROVE {e.src, e.dst} \subseteq ConceptsNow
  <2>1. e \in served /\ {e.src, e.dst} \subseteq EndsOf(served)
    BY DEF SeenEdges, EndsOf
  <2>2. {e.src, e.dst} \subseteq ids /\ {e.src, e.dst} \subseteq 1 .. MaxId
    BY <2>1 DEF ReadsTypeOK
  <2>3. {e.src, e.dst} \subseteq view.concepts
    <3>1. CASE request.restricted
      <4>1. PICK r \in evidence : r.doc \in Readable /\ EdgeOf(r) = e
        BY <3>1 DEF SeenEdges, HasReadableEvidence
      <4>2. r \in Seen(evidence) /\ e.src = r.src /\ e.dst = r.dst
        BY <4>1 DEF Seen, EdgeOf
      <4>3. {r.src, r.dst} \subseteq EndsOf(Seen(evidence))
        BY <4>2 DEF EndsOf
      <4> QED
        BY <3>1, <4>2, <4>3 DEF ViewCurrent, VisibleConcepts
    <3>2. CASE ~request.restricted
      BY <2>2, <3>2 DEF ViewCurrent
    <3> QED
      BY <3>1, <3>2
  <2> QED
    BY <2>2, <2>3 DEF ConceptsNow
<1> QED
  BY <1>1, <1>2 DEF EdgesNow

\* The ends of an edge that is followed from n.
LEMMA FollowedEnds ==
    ASSUME request \in Requests, NEW n, NEW E, NEW e \in Followed(request.kind, n, E)
    PROVE  e \in E /\ n \in {e.src, e.dst} /\ {n, Other(e, n)} = {e.src, e.dst}
<1>1. request.kind \in Kinds
  BY GraphReadsAssumption
<1>2. e \in E /\ n \in {e.src, e.dst}
  BY <1>1 DEF Followed, Kinds
<1> QED
  BY <1>2 DEF Other

\* The searches follow the arcs of the graph that is seen.
LEMMA FollowsArcs ==
    ASSUME ReadsTypeOK, ViewCurrent, phase \notin {"opening", "views"}, NEW n \in 1 .. MaxId, NEW m
    PROVE  <<n, m>> \in Arcs <=> \E e \in Followed(request.kind, n, EdgesNow) : Other(e, n) = m
<1>1. request.kind \in Kinds
  BY GraphReadsAssumption DEF ReadsTypeOK
<1>2. ASSUME NEW e
      PROVE  Leads(e, n, m) <=> e \in Followed(request.kind, n, {e}) /\ Other(e, n) = m
  <2>2. CASE request.kind \in {"subgraph", "path"}
    BY <2>2 DEF Leads, Followed, Other
  <2>3. CASE request.kind \in {"affected", "directed path"}
    BY <2>3 DEF Leads, Followed, Other
  <2>4. CASE request.kind = "up"
    BY <2>4 DEF Leads, Followed, Other
  <2>5. CASE request.kind = "down"
    BY <2>5 DEF Leads, Followed, Other
  <2> QED
    BY <1>1, <2>2, <2>3, <2>4, <2>5 DEF Kinds
<1>3. \A e : e \in Followed(request.kind, n, EdgesNow) <=>
             e \in EdgesNow /\ e \in Followed(request.kind, n, {e})
  BY DEF Followed
<1>4. <<n, m>> \in Arcs <=> \E e \in SeenEdges : Leads(e, n, m)
  <2>1. ASSUME NEW e \in SeenEdges, Leads(e, n, m) PROVE m \in 1 .. MaxId
    <3>1. e.src \in 1 .. MaxId /\ e.dst \in 1 .. MaxId
      BY DEF ReadsTypeOK, Edge, SeenEdges
    <3> QED
      BY <1>1, <2>1, <3>1 DEF Leads, Kinds
  <2> QED
    BY <2>1 DEF Arcs, SeenEdges
<1> QED
  BY <1>2, <1>3, <1>4, EdgesSeen

-----------------------------------------------------------------------------
(* A visit.                                                                *)

LEMMA NewFromType ==
    ASSUME ReadsTypeOK, NEW n
    PROVE  /\ Incident(n) \subseteq Edge /\ NewFrom(n) \subseteq (1 .. MaxId) \ DOMAIN depth
           /\ NewFrom(n) # {} => ~AtLimit(depth[n])
<1>1. Incident(n) \subseteq EdgesNow
  BY DEF Incident, Followed
<1>2. EdgesNow \subseteq Edge
  BY DEF ReadsTypeOK, EdgesNow
<1>3. \A e \in Edge : Other(e, n) \in 1 .. MaxId
  BY DEF Other, Edge
<1>4. AtLimit(depth[n]) => Incident(n) = {}
  BY DEF Incident
<1> QED
  BY <1>1, <1>2, <1>3, <1>4 DEF NewFrom

\* An order of a finite set.
LEMMA OrderOf ==
    ASSUME NEW S, IsFiniteSet(S), NEW s \in SetToSeqs(S)
    PROVE  s \in Seq(S) /\ Len(s) = Cardinality(S) /\ ToSet(s) = S /\ IsInjective(s)
<1>1. Cardinality(S) \in Nat
  BY FS_CardinalityType
<1>2. PICK k \in Nat : k = Cardinality(S)
  BY <1>1
<1>3. s \in [1 .. k -> S] /\ IsInjective(s)
  BY <1>2 DEF SetToSeqs, IsInjective
<1>4. s \in Seq(S) /\ Len(s) = k
  BY <1>3
<1>5. IsFiniteSet(1 .. k) /\ Cardinality(1 .. k) = k
  BY FS_Interval
<1>6. s \in Injection(1 .. k, S)
  BY <1>3 DEF Injection
<1>7. s \in Surjection(1 .. k, S)
  BY <1>2, <1>5, <1>6, FS_Injection
<1>8. ToSet(s) = S
  BY <1>3, <1>7 DEF Surjection, ToSet
<1> QED
  BY <1>2, <1>3, <1>4, <1>8

\* What a visit of n may pick.
Picks(n, picked) ==
    LET S == ToSet(picked)
    IN  /\ IsInjective(picked) /\ S \subseteq NewFrom(n)
        /\ IF request.goal \in NewFrom(n) THEN request.goal \in S /\ picked[Len(picked)] = request.goal
           ELSE S = NewFrom(n) \/ (Bounded /\ Cardinality(DOMAIN depth \cup S) = MaxNodes)
        /\ Bounded => Cardinality(DOMAIN depth \cup S) <= MaxNodes

LEMMA VisitForm ==
    ASSUME ReadsTypeOK, Visit
    PROVE  /\ Head(queue) \in DOMAIN depth
           /\ \E picked \in Seq(1 .. MaxId) : Picks(Head(queue), picked) /\ Take(Head(queue), picked)
<1>1. PICK n : n = Head(queue)
  OBVIOUS
<1>2. n \in DOMAIN depth
  BY <1>1, HeadTailProperties DEF Visit, ReadsTypeOK
<1>3. PICK new : new = NewFrom(n)
  OBVIOUS
<1>4. /\ IsFiniteSet(1 .. MaxId) /\ MaxNodes \in Nat
  <2>1. MaxId \in Nat /\ MaxNodes \in Nat
    BY GraphReadsAssumption
  <2> QED
    BY <2>1, FS_Interval
<1>5. /\ IsFiniteSet(new) /\ IsFiniteSet(DOMAIN depth)
      /\ Cardinality(new) \in Nat /\ Cardinality(DOMAIN depth) \in Nat
      /\ new \subseteq (1 .. MaxId) \ DOMAIN depth
  BY <1>3, <1>4, NewFromType, FS_Subset, FS_CardinalityType DEF ReadsTypeOK
<1>6. PICK room : room = IF Bounded /\ MaxNodes - Cardinality(DOMAIN depth) < Cardinality(new)
                         THEN MaxNodes - Cardinality(DOMAIN depth) ELSE Cardinality(new)
  OBVIOUS
<1>7. PICK size \in 0 .. room :
          \E S \in kSubset(size, new) : \E picked \in SetToSeqs(S) :
              /\ IF request.goal \in new THEN size > 0 /\ picked[size] = request.goal ELSE size = room
              /\ Take(n, picked)
  BY <1>1, <1>3, <1>6, Zenon DEF Visit
<1>8. PICK S \in kSubset(size, new) : \E picked \in SetToSeqs(S) :
              /\ IF request.goal \in new THEN size > 0 /\ picked[size] = request.goal ELSE size = room
              /\ Take(n, picked)
  BY <1>7
<1>9. PICK picked \in SetToSeqs(S) :
              /\ IF request.goal \in new THEN size > 0 /\ picked[size] = request.goal ELSE size = room
              /\ Take(n, picked)
  BY <1>8
<1>10. S \subseteq new /\ Cardinality(S) = size
  BY <1>9 DEF kSubset
<1>11. IsFiniteSet(S) /\ size \in Nat
  BY <1>5, <1>10, FS_Subset, FS_CardinalityType
<1>12. /\ picked \in Seq(S) /\ Len(picked) = size /\ ToSet(picked) = S /\ IsInjective(picked)
  BY <1>10, <1>11, OrderOf
<1>13. Cardinality(DOMAIN depth \cup S) = Cardinality(DOMAIN depth) + size
  <2>1. DOMAIN depth \cap S = {}
    BY <1>5, <1>10
  <2>2. Cardinality(DOMAIN depth \cap S) = 0
    BY <2>1, FS_EmptySet
  <2>3. Cardinality(DOMAIN depth \cup S)
           = Cardinality(DOMAIN depth) + Cardinality(S) - Cardinality(DOMAIN depth \cap S)
    BY <1>5, <1>11, FS_Union
  <2> QED
    BY <1>5, <1>10, <1>11, <2>2, <2>3
<1>14. Bounded => Cardinality(DOMAIN depth \cup S) <= MaxNodes
  BY <1>4, <1>5, <1>6, <1>11, <1>13
<1>15. size = room => S = new \/ (Bounded /\ Cardinality(DOMAIN depth \cup S) = MaxNodes)
  <2>1. Cardinality(S) = Cardinality(new) => S = new
    BY <1>5, <1>10, FS_Subset
  <2> QED
    BY <1>4, <1>5, <1>6, <1>10, <1>11, <1>13, <2>1
<1>16. request.goal \in new => request.goal \in S
  <2>1. size > 0 => picked[size] \in S
    BY <1>11, <1>12, ElementOfSeq
  <2> QED
    BY <1>9, <2>1
<1>17. Picks(n, picked)
  BY <1>3, <1>9, <1>10, <1>12, <1>14, <1>15, <1>16 DEF Picks
<1>18. picked \in Seq(1 .. MaxId)
  BY <1>5, <1>10, <1>12, SeqMonotonic
<1> QED
  BY <1>1, <1>2, <1>9, <1>17, <1>18

-----------------------------------------------------------------------------
(* Chains.                                                                 *)

\* The chain from a root to x has one concept per step.
IsChain(chain, x) ==
    /\ chain \in Seq(DOMAIN depth) /\ Len(chain) = depth[x] + 1
    /\ chain[1] \in ToSet(request.roots) /\ parent[chain[1]] = 0 /\ chain[Len(chain)] = x
    /\ \A i \in 1 .. Len(chain) - 1 : parent[chain[i + 1]] = chain[i]

\* One turn of the loop.
Longer(chain) == IF parent[Head(chain)] = 0 THEN chain ELSE <<parent[Head(chain)]>> \o chain

\* How far the loop has come after i turns.
Climbed(chain, x, i) ==
    /\ chain \in Seq(DOMAIN depth) /\ chain # <<>> /\ chain[Len(chain)] = x
    /\ Len(chain) = (IF i < depth[x] THEN i ELSE depth[x]) + 1
    /\ depth[Head(chain)] = depth[x] - (Len(chain) - 1)
    /\ \A j \in 1 .. Len(chain) - 1 : parent[chain[j + 1]] = chain[j]

LEMMA LongerClimbs ==
    ASSUME ReadsTypeOK, Tree, NEW x \in DOMAIN depth, NEW i \in Nat, NEW chain, Climbed(chain, x, i)
    PROVE  Climbed(Longer(chain), x, i + 1)
<1>1. PICK top : top = Head(chain)
  OBVIOUS
<1>2. /\ chain \in Seq(DOMAIN depth) /\ chain # <<>> /\ chain[Len(chain)] = x
      /\ Len(chain) \in Nat \ {0} /\ top = chain[1] /\ top \in DOMAIN depth
  BY <1>1, EmptySeq, HeadTailProperties DEF Climbed
<1>3. /\ depth[x] \in Nat /\ depth[top] \in Nat
      /\ Len(chain) = (IF i < depth[x] THEN i ELSE depth[x]) + 1
      /\ depth[top] = depth[x] - (Len(chain) - 1)
      /\ \A j \in 1 .. Len(chain) - 1 : parent[chain[j + 1]] = chain[j]
  BY <1>1, <1>2, ReachedForm DEF Climbed
<1>4. CASE parent[top] = 0
  <2>1. depth[top] = 0
    BY <1>2, <1>4, ReachedForm
  <2>2. Longer(chain) = chain
    BY <1>1, <1>4 DEF Longer
  <2>3. Len(chain) = (IF i + 1 < depth[x] THEN i + 1 ELSE depth[x]) + 1
    BY <1>2, <1>3, <2>1
  <2> QED
    BY <1>1, <1>2, <1>3, <2>2, <2>3 DEF Climbed
<1>5. CASE parent[top] # 0
  <2>1. PICK p : p = parent[top]
    OBVIOUS
  <2>2. p \in DOMAIN depth /\ depth[p] \in Nat /\ depth[top] = depth[p] + 1
    BY <1>2, <1>5, <2>1, ReachedForm
  <2>3. PICK long : long = <<p>> \o chain
    OBVIOUS
  <2>4. <<p>> \in Seq(DOMAIN depth) /\ Len(<<p>>) = 1 /\ <<p>>[1] = p
    BY <2>2
  <2>5. /\ long \in Seq(DOMAIN depth) /\ Len(long) = Len(chain) + 1
        /\ \A j \in 1 .. Len(chain) + 1 : long[j] = IF j = 1 THEN p ELSE chain[j - 1]
    <3>1. /\ long \in Seq(DOMAIN depth) /\ Len(long) = 1 + Len(chain)
          /\ \A j \in 1 .. 1 + Len(chain) : long[j] = IF j <= 1 THEN <<p>>[j] ELSE chain[j - 1]
      BY <1>2, <2>3, <2>4, ConcatProperties
    <3> QED
      BY <1>2, <2>4, <3>1
  <2>6. long # <<>> /\ Head(long) = p /\ long[Len(long)] = x
    <3>1. long # <<>> /\ Head(long) = long[1]
      BY <1>2, <2>5
    <3> QED
      BY <1>2, <2>5, <3>1
  <2>7. ASSUME NEW j \in 1 .. Len(long) - 1 PROVE parent[long[j + 1]] = long[j]
    <3>1. CASE j = 1
      BY <1>2, <2>1, <2>5, <3>1
    <3>2. CASE j # 1
      <4>1. j - 1 \in 1 .. Len(chain) - 1 /\ j \in 1 .. Len(chain) + 1 /\ j + 1 \in 1 .. Len(chain) + 1
        BY <1>2, <2>5, <3>2
      <4>2. long[j + 1] = chain[j] /\ long[j] = chain[j - 1]
        BY <2>5, <3>2, <4>1
      <4>3. parent[chain[(j - 1) + 1]] = chain[j - 1] /\ (j - 1) + 1 = j
        BY <1>3, <4>1
      <4> QED
        BY <4>2, <4>3
    <3> QED
      BY <3>1, <3>2
  <2>8. /\ Len(long) = (IF i + 1 < depth[x] THEN i + 1 ELSE depth[x]) + 1
        /\ depth[p] = depth[x] - (Len(long) - 1)
    <3>1. PICK d \in Nat, t \in Nat, m \in Nat, q \in Nat :
             d = depth[x] /\ t = depth[top] /\ m = Len(chain) /\ q = depth[p]
      BY <1>2, <1>3, <2>2
    <3>2. m = (IF i < d THEN i ELSE d) + 1 /\ t = d - (m - 1) /\ t = q + 1 /\ Len(long) = m + 1
      BY <1>3, <2>2, <2>5, <3>1
    <3>3. m + 1 = (IF i + 1 < d THEN i + 1 ELSE d) + 1 /\ q = d - ((m + 1) - 1)
      BY <3>2
    <3> QED
      BY <3>1, <3>2, <3>3
  <2>9. depth[Head(long)] = depth[x] - (Len(long) - 1)
    BY <2>6, <2>8
  <2> QED
    BY <1>1, <1>5, <2>1, <2>3, <2>5, <2>6, <2>7, <2>8, <2>9 DEF Longer, Climbed
<1> QED
  BY <1>4, <1>5

LEMMA ChainForm ==
    ASSUME ReadsTypeOK, Tree, NEW x \in DOMAIN depth
    PROVE  IsChain(ChainTo(x), x)
<1> DEFINE D == request.depth
           S == Seq(DOMAIN depth) \ {<<>>}
<1>1. D \in Nat /\ depth[x] \in 0 .. D /\ <<x>> \in S
  <2>1. <<x>> \in Seq(DOMAIN depth) /\ <<x>> # <<>>
    OBVIOUS
  <2> QED
    BY <2>1, ReachedForm
<1>2. PICK g : g = [s \in S |-> Longer(s)]
  OBVIOUS
<1>3. ASSUME NEW s \in S PROVE Longer(s) \in S
  <2>1. CASE parent[Head(s)] = 0
    BY <2>1 DEF Longer
  <2>2. CASE parent[Head(s)] # 0
    <3>1. Head(s) \in DOMAIN depth
      BY HeadTailProperties
    <3>2. parent[Head(s)] \in DOMAIN depth
      BY <2>2, <3>1 DEF Tree
    <3>3. PICK p \in DOMAIN depth : p = parent[Head(s)]
      BY <3>2
    <3>4. <<p>> \in Seq(DOMAIN depth) /\ <<p>> # <<>>
      OBVIOUS
    <3>5. <<p>> \o s \in Seq(DOMAIN depth) /\ <<p>> \o s # <<>>
      BY <3>4, ConcatProperties, ConcatEqualIffEmpty
    <3> QED
      BY <2>2, <3>3, <3>5 DEF Longer
  <2> QED
    BY <2>1, <2>2
<1>4. g \in [S -> S] /\ \A s \in S : g[s] = Longer(s)
  BY <1>2, <1>3
<1>5. PICK f \in [0 .. D -> S] : Iterated(f, D, <<x>>, g)
  <2>1. g \in [S -> S]
    BY <1>4
  <2> QED
    BY <1>1, <2>1, Iterates
<1>6. f[0] = <<x>> /\ \A k \in 1 .. D : f[k] = Longer(f[k - 1])
  <2>1. \A k \in 1 .. D : k - 1 \in 0 .. D
    BY <1>1
  <2> QED
    BY <1>4, <1>5, <2>1 DEF Iterated
<1>7. f = [k \in 0 .. D |-> IF k = 0 THEN <<x>> ELSE Longer(f[k - 1])]
  <2>1. ASSUME NEW k \in 0 .. D PROVE f[k] = IF k = 0 THEN <<x>> ELSE Longer(f[k - 1])
    <3>1. k = 0 \/ k \in 1 .. D
      BY <1>1
    <3> QED
      BY <1>6, <3>1
  <2>2. f = [k \in 0 .. D |-> f[k]]
    BY <1>5
  <2> QED
    BY <2>1, <2>2
<1>8. PICK chain : chain = [k \in 0 .. D |-> IF k = 0 THEN <<x>> ELSE Longer(chain[k - 1])]
                   /\ ChainTo(x) = chain[D]
  <2>1. \E h : h = [i \in 0 .. request.depth |->
                        IF i = 0 THEN <<x>>
                        ELSE IF parent[Head(h[i - 1])] = 0 THEN h[i - 1]
                             ELSE <<parent[Head(h[i - 1])]>> \o h[i - 1]]
    <3>1. f = [i \in 0 .. request.depth |->
                        IF i = 0 THEN <<x>>
                        ELSE IF parent[Head(f[i - 1])] = 0 THEN f[i - 1]
                             ELSE <<parent[Head(f[i - 1])]>> \o f[i - 1]]
      BY <1>7 DEF Longer
    <3> QED
      BY <3>1, Zenon
  <2>2. PICK chain : chain = CHOOSE h :
            h = [i \in 0 .. request.depth |->
                    IF i = 0 THEN <<x>>
                    ELSE IF parent[Head(h[i - 1])] = 0 THEN h[i - 1]
                         ELSE <<parent[Head(h[i - 1])]>> \o h[i - 1]]
    OBVIOUS
  <2>3. chain = [i \in 0 .. request.depth |->
                    IF i = 0 THEN <<x>>
                    ELSE IF parent[Head(chain[i - 1])] = 0 THEN chain[i - 1]
                         ELSE <<parent[Head(chain[i - 1])]>> \o chain[i - 1]]
    BY <2>1, <2>2, Zenon
  <2>4. ChainTo(x) = chain[request.depth]
    BY <2>2, Zenon DEF ChainTo
  <2> QED
    BY <2>3, <2>4, Zenon DEF Longer
<1>9. chain[0] = <<x>> /\ \A k \in 1 .. D : chain[k] = Longer(chain[k - 1])
  <2>1. \A k \in 0 .. D : chain[k] = IF k = 0 THEN <<x>> ELSE Longer(chain[k - 1])
    BY <1>8
  <2>2. 0 \in 0 .. D /\ \A k \in 1 .. D : k \in 0 .. D /\ k # 0
    BY <1>1
  <2> QED
    BY <2>1, <2>2, Zenon
<1>10. Climbed(<<x>>, x, 0)
  <2>1. /\ <<x>> \in Seq(DOMAIN depth) /\ <<x>> # <<>> /\ Len(<<x>>) = 1
        /\ <<x>>[1] = x /\ Head(<<x>>) = x
    OBVIOUS
  <2> QED
    BY <1>1, <2>1, ReachedForm DEF Climbed
<1>11. Climbed(chain[D], x, D)
  <2> DEFINE Bad == {k \in Nat : k <= D /\ ~Climbed(chain[k], x, k)}
  <2>1. CASE Bad = {}
    BY <1>1, <2>1
  <2>2. CASE Bad # {}
    <3>1. PICK k \in Bad : \A j \in Bad : k <= j
      BY <2>2, Least
    <3>2. k \in Nat /\ k <= D /\ ~Climbed(chain[k], x, k)
      OBVIOUS
    <3>3. k # 0
      BY <1>9, <1>10, <3>2
    <3>4. k - 1 \in Nat /\ k - 1 <= D /\ k - 1 \notin Bad
      <4> HIDE DEF Bad
      <4> QED
        BY <1>1, <3>1, <3>2, <3>3
    <3>5. Climbed(chain[k - 1], x, k - 1)
      BY <3>4
    <3>6. Climbed(Longer(chain[k - 1]), x, (k - 1) + 1)
      BY <3>4, <3>5, LongerClimbs
    <3>7. k \in 1 .. D /\ (k - 1) + 1 = k
      BY <1>1, <3>2, <3>3
    <3> QED
      BY <1>9, <3>2, <3>6, <3>7
  <2> QED
    BY <2>1, <2>2
<1>12. PICK c : c = ChainTo(x)
  OBVIOUS
<1>13. /\ c \in Seq(DOMAIN depth) /\ c # <<>> /\ c[Len(c)] = x
       /\ Len(c) = depth[x] + 1 /\ depth[Head(c)] = depth[x] - (Len(c) - 1)
       /\ \A j \in 1 .. Len(c) - 1 : parent[c[j + 1]] = c[j]
  <2>1. Climbed(c, x, D)
    BY <1>8, <1>11, <1>12
  <2>2. (IF D < depth[x] THEN D ELSE depth[x]) = depth[x]
    BY <1>1
  <2> QED
    BY <2>1, <2>2 DEF Climbed
<1>14. Head(c) = c[1] /\ Head(c) \in DOMAIN depth /\ depth[Head(c)] = 0
  BY <1>1, <1>13, HeadTailProperties
<1>15. parent[c[1]] = 0 /\ c[1] \in ToSet(request.roots)
  <2>1. parent[c[1]] # 0 => depth[c[1]] = depth[parent[c[1]]] + 1 /\ depth[parent[c[1]]] \in Nat
    BY <1>14, ReachedForm
  <2> QED
    BY <1>14, <2>1, ReachedForm
<1> QED
  BY <1>12, <1>13, <1>15 DEF IsChain

-----------------------------------------------------------------------------
(* What is well formed stays so.                                           *)

LEMMA StartsWellFormed ==
    ASSUME ReadsInit
    PROVE  ReadsTypeOK /\ Tree
<1>1. DOMAIN Nobody = {} /\ Nobody \in [DOMAIN Nobody -> 0 .. request.depth]
      /\ Nobody \in [DOMAIN Nobody -> {0} \cup DOMAIN Nobody]
  BY DEF Nobody
<1>2. evidence \subseteq Evidence /\ EndsOf(evidence) \subseteq ids
  <2>1. Row \subseteq Evidence
    BY GraphReadsAssumption DEF Evidence
  <2>2. evidence \subseteq Evidence
    BY <2>1 DEF ReadsInit
  <2> QED
    BY <2>2 DEF ReadsInit, EndsOf, Evidence
<1>3. MaxWrites \in Nat /\ MaxNodes \in Nat
  BY GraphReadsAssumption
<1>4. Cardinality({}) = 0
  BY FS_EmptySet
<1>5. served \subseteq Edge /\ EndsOf(served) \subseteq ids
  <2>1. \A r \in Row : EdgeOf(r) \in Edge
    BY GraphReadsAssumption DEF EdgeOf, Edge
  <2>2. served \subseteq Edge
    BY <2>1 DEF ReadsInit, EdgesOf
  <2> QED
    BY <2>2 DEF ReadsInit, EndsOf, Edge
<1>6. mentions \subseteq [id : 1 .. MaxId, doc : STRING]
  BY GraphReadsAssumption DEF ReadsInit
<1> QED
  BY <1>1, <1>2, <1>3, <1>4, <1>5, <1>6 DEF ReadsInit, ReadsTypeOK, Tree

\* A merge redirects edges, and rows, to concepts there are.
LEMMA RedirectedRefers ==
    ASSUME NEW S, EndsOf(S) \subseteq ids, S \subseteq Evidence \/ S \subseteq Edge,
           ids \subseteq 1 .. MaxId, NEW kept \in ids, NEW gone \in ids, kept # gone
    PROVE  /\ S \subseteq Evidence => Redirected(S, gone, kept) \subseteq Evidence
           /\ S \subseteq Edge => Redirected(S, gone, kept) \subseteq Edge
           /\ EndsOf(Redirected(S, gone, kept)) \subseteq ids \ {gone}
<1> DEFINE end(n) == IF n = gone THEN kept ELSE n
           swap(r) == r.rel = Symmetric /\ end(r.src) > end(r.dst)
           left == ids \ {gone}
<1>1. ASSUME NEW r \in Redirected(S, gone, kept)
      PROVE  /\ S \subseteq Evidence => r \in Evidence
             /\ S \subseteq Edge => r \in Edge
             /\ r.src \in left /\ r.dst \in left
  <2>1. PICK s \in S : r = [s EXCEPT !.src = IF swap(s) THEN end(s.dst) ELSE end(s.src),
                                     !.dst = IF swap(s) THEN end(s.src) ELSE end(s.dst)]
    BY Zenon DEF Redirected
  <2>2. s.src \in ids /\ s.dst \in ids
    BY DEF EndsOf
  <2>3. \A n \in ids : end(n) \in left
    OBVIOUS
  <2> HIDE DEF end, swap
  <2>4. PICK x, y : x = (IF swap(s) THEN end(s.dst) ELSE end(s.src))
                    /\ y = (IF swap(s) THEN end(s.src) ELSE end(s.dst))
    OBVIOUS
  <2>5. x \in left /\ y \in left
    BY <2>2, <2>3, <2>4
  <2>6. r = [s EXCEPT !.src = x, !.dst = y]
    BY <2>1, <2>4
  <2>7. x \in 1 .. MaxId /\ y \in 1 .. MaxId
    BY <2>5
  <2> HIDE DEF left
  <2>8. CASE s \in Evidence
    BY <2>5, <2>6, <2>7, <2>8 DEF Evidence, Edge
  <2>9. CASE s \in Edge
    BY <2>5, <2>6, <2>7, <2>9 DEF Evidence, Edge
  <2> QED
    BY <2>8, <2>9
<1> QED
  BY <1>1 DEF EndsOf

\* A merge leaves a graph that refers to concepts there are.
LEMMA MergeRows ==
    ASSUME ReadsTypeOK, GraphMerge
    PROVE  /\ evidence' \subseteq Evidence /\ ids' \subseteq 1 .. MaxId /\ EndsOf(evidence') \subseteq ids'
           /\ served' \subseteq Edge /\ EndsOf(served') \subseteq ids'
           /\ mentions' \subseteq [id : 1 .. MaxId, doc : STRING]
<1>1. PICK kept \in ids, gone \in ids :
          /\ kept # gone
          /\ evidence' = Redirected(evidence, gone, kept)
          /\ served' = Redirected(served, gone, kept)
          /\ mentions' = {[m EXCEPT !.id = IF @ = gone THEN kept ELSE @] : m \in mentions}
          /\ ids' = ids \ {gone}
  BY Zenon DEF GraphMerge
<1>2. ids \subseteq 1 .. MaxId
  BY DEF ReadsTypeOK
<1>3. evidence' \subseteq Evidence /\ EndsOf(evidence') \subseteq ids'
  <2>1. evidence \subseteq Evidence /\ EndsOf(evidence) \subseteq ids
    BY DEF ReadsTypeOK
  <2> QED
    BY <1>1, <1>2, <2>1, RedirectedRefers
<1>4. served' \subseteq Edge /\ EndsOf(served') \subseteq ids'
  <2>1. served \subseteq Edge /\ EndsOf(served) \subseteq ids
    BY DEF ReadsTypeOK
  <2> QED
    BY <1>1, <1>2, <2>1, RedirectedRefers
<1>5. mentions' \subseteq [id : 1 .. MaxId, doc : STRING]
  <2> SUFFICES ASSUME NEW m \in mentions
               PROVE  [m EXCEPT !.id = IF @ = gone THEN kept ELSE @] \in [id : 1 .. MaxId, doc : STRING]
    BY Zenon, <1>1
  <2>1. m \in [id : 1 .. MaxId, doc : STRING]
    BY Zenon DEF ReadsTypeOK
  <2>2. kept \in 1 .. MaxId
    BY Zenon, <1>1, <1>2
  <2> QED
    BY <2>1, <2>2
<1> QED
  BY <1>1, <1>2, <1>3, <1>4, <1>5

LEMMA MergeWellFormed ==
    ASSUME ReadsTypeOK, Tree, GraphMerge
    PROVE  ReadsTypeOK' /\ Tree'
<1>1. UNCHANGED <<view, request, queue, depth, parent, edges, found, phase, missing>>
  BY DEF GraphMerge
<1>2. writes' \in [all : 0 .. MaxWrites, before : 0 .. MaxWrites] /\ writes'.before <= writes'.all
  <2>1. MaxWrites \in Nat
    BY GraphReadsAssumption
  <2>2. writes.all < MaxWrites /\ writes' = [writes EXCEPT !.all = @ + 1]
    BY Zenon DEF GraphMerge
  <2>3. writes \in [all : 0 .. MaxWrites, before : 0 .. MaxWrites] /\ writes.before <= writes.all
    BY DEF ReadsTypeOK
  <2> QED
    BY <2>1, <2>2, <2>3
<1> QED
  BY <1>1, <1>2, MergeRows DEF ReadsTypeOK, Tree, Bounded

\* The connection is opened.
LEMMA OpenWellFormed ==
    ASSUME ReadsTypeOK, Tree, Open \/ OpenEdges
    PROVE  ReadsTypeOK' /\ Tree'
<1>1. UNCHANGED <<evidence, served, mentions, ids, request, queue, depth, parent, edges, found, missing>>
  BY DEF Open, OpenEdges
<1>2. VisibleConcepts(Seen(evidence)) \subseteq 1 .. MaxId /\ EdgesOf(Seen(evidence)) \subseteq Edge
  BY DEF ReadsTypeOK, VisibleConcepts, EndsOf, EdgesOf, EdgeOf, Seen, Evidence, Edge
<1>3. view' \in [concepts : SUBSET (1 .. MaxId), edges : SUBSET Edge]
  BY <1>2 DEF Open, OpenEdges, ReadsTypeOK, Edge
<1>4. writes' \in [all : 0 .. MaxWrites, before : 0 .. MaxWrites] /\ writes'.before <= writes'.all
  <2>1. MaxWrites \in Nat
    BY GraphReadsAssumption
  <2> QED
    BY <2>1 DEF Open, OpenEdges, ReadsTypeOK
<1>5. phase \in {"opening", "views"} /\ phase' \in {"views", "resolving"}
  BY DEF Open, OpenEdges
<1> QED
  BY <1>1, <1>3, <1>4, <1>5 DEF ReadsTypeOK, Tree, Bounded

LEMMA ResolveWellFormed ==
    ASSUME ReadsTypeOK, Tree, Resolve
    PROVE  ReadsTypeOK' /\ Tree'
<1>1. /\ UNCHANGED <<evidence, served, mentions, ids, view, request, edges, found, missing, writes>>
      /\ phase = "resolving"
  BY DEF Resolve
<1>2. CASE UNCHANGED <<queue, depth, parent>> /\ phase' = "refused"
  BY <1>1, <1>2 DEF ReadsTypeOK, Tree, Bounded
<1>3. CASE /\ ToSet(request.roots) \subseteq ConceptsNow
           /\ queue' = request.roots /\ phase' = "searching"
           /\ depth' = [n \in ToSet(request.roots) |-> 0] /\ parent' = [n \in ToSet(request.roots) |-> 0]
  <2>1. PICK R : R = ToSet(request.roots)
    OBVIOUS
  <2>2. R \subseteq 1 .. MaxId
    BY <1>3, <2>1 DEF ReadsTypeOK, ConceptsNow
  <2>3. request.depth \in Nat /\ request.roots \in Seq(1 .. MaxId)
    BY RequestForm DEF ReadsTypeOK
  <2>4. request.roots \in Seq(R)
    BY <2>1, <2>3, LenProperties DEF ToSet
  <2>5. Bounded => Cardinality(R) <= MaxNodes
    <3>1. PICK k \in Nat : k = Len(request.roots)
      BY <2>3, LenProperties
    <3>2. IsFiniteSet(1 .. k) /\ Cardinality(1 .. k) = k
      BY FS_Interval
    <3>3. request.roots \in Surjection(1 .. k, R)
      <4>1. request.roots \in [1 .. k -> R]
        BY <2>4, <3>1, LenProperties
      <4> QED
        BY <2>1, <4>1 DEF Surjection, ToSet
    <3>4. Cardinality(R) <= k /\ IsFiniteSet(R)
      BY <3>2, <3>3, FS_Surjection
    <3>5. Cardinality(R) \in Nat
      BY <3>4, FS_CardinalityType
    <3>6. Bounded => k <= MaxNodes
      BY <3>1, RequestForm DEF ReadsTypeOK
    <3>7. MaxNodes \in Nat
      BY RequestForm DEF ReadsTypeOK
    <3> QED
      BY <3>4, <3>5, <3>6, <3>7
  <2>6. DOMAIN depth' = R /\ DOMAIN parent' = R /\ \A x \in R : depth'[x] = 0 /\ parent'[x] = 0
    BY <1>3, <2>1
  <2>7. ReadsTypeOK'
    BY <1>1, <1>3, <2>1, <2>2, <2>3, <2>4, <2>5, <2>6 DEF ReadsTypeOK, Bounded
  <2>8. Tree'
    BY <1>1, <2>1, <2>6 DEF Tree
  <2> QED
    BY <2>7, <2>8
<1> QED
  BY <1>2, <1>3, Zenon DEF Resolve

\* After a visit.
LEMMA TakeForm ==
    ASSUME ReadsTypeOK, NEW n \in DOMAIN depth, NEW picked \in Seq(1 .. MaxId), Take(n, picked),
           Picks(n, picked)
    PROVE  LET S == ToSet(picked)
           IN  /\ S \subseteq 1 .. MaxId /\ S \cap DOMAIN depth = {}
               /\ DOMAIN depth' = DOMAIN depth \cup S /\ DOMAIN parent' = DOMAIN depth'
               /\ \A x \in S : depth'[x] = depth[n] + 1 /\ parent'[x] = n
               /\ \A x \in DOMAIN depth : depth'[x] = depth[x] /\ parent'[x] = parent[x]
               /\ S # {} => depth[n] < request.depth
<1>1. PICK S : S = ToSet(picked)
  OBVIOUS
<1>2. S \subseteq NewFrom(n)
  BY <1>1 DEF Picks
<1>3. S \subseteq 1 .. MaxId /\ S \cap DOMAIN depth = {}
  BY <1>2, NewFromType
<1>4. DOMAIN parent = DOMAIN depth
  BY DEF ReadsTypeOK
<1>5. /\ depth' = [x \in DOMAIN depth \cup S |-> IF x \in S THEN depth[n] + 1 ELSE depth[x]]
      /\ parent' = [x \in DOMAIN depth \cup S |-> IF x \in S THEN n ELSE parent[x]]
  BY <1>1, <1>4, Zenon DEF Take
<1>6. depth[n] \in Nat /\ request.depth \in Nat
  BY ReachedForm
<1>7. S # {} => depth[n] < request.depth
  BY <1>2, <1>6, NewFromType DEF AtLimit
<1>8. /\ DOMAIN depth' = DOMAIN depth \cup S /\ DOMAIN parent' = DOMAIN depth'
      /\ \A x \in S : depth'[x] = depth[n] + 1 /\ parent'[x] = n
      /\ \A x \in DOMAIN depth : depth'[x] = depth[x] /\ parent'[x] = parent[x]
  BY <1>3, <1>5
<1> QED
  BY <1>1, <1>3, <1>7, <1>8

\* The queue after a visit: the tail, and the new ones but a goal.
LEMMA TakeQueue ==
    ASSUME ReadsTypeOK, queue # <<>>, NEW n, NEW picked \in Seq(1 .. MaxId), Take(n, picked),
           IsInjective(picked)
    PROVE  \E m \in 0 .. Len(picked) :
              /\ queue' \in Seq(DOMAIN depth \cup ToSet(picked))
              /\ Len(queue') = (Len(queue) - 1) + m
              /\ \A i \in 1 .. Len(queue') :
                    queue'[i] = IF i < Len(queue) THEN queue[i + 1] ELSE picked[i - (Len(queue) - 1)]
              /\ m = IF request.goal \in ToSet(picked) THEN Len(picked) - 1 ELSE Len(picked)
<1>1. PICK S : S = ToSet(picked)
  OBVIOUS
<1>2. PICK m : m = IF request.goal \in S THEN Len(picked) - 1 ELSE Len(picked)
  OBVIOUS
<1>3. picked \in Seq(S) /\ Len(picked) \in Nat /\ (S # {} => Len(picked) > 0)
  <2>1. Len(picked) \in Nat /\ picked \in [1 .. Len(picked) -> 1 .. MaxId]
    BY LenProperties
  <2> QED
    BY <1>1, <2>1 DEF ToSet
<1>4. m \in 0 .. Len(picked)
  BY <1>2, <1>3
<1>5. PICK part : part = SubSeq(picked, 1, m)
  OBVIOUS
<1>6. part \in Seq(S) /\ Len(part) = m /\ \A i \in 1 .. m : part[i] = picked[i]
  <2>1. CASE m = 0
    BY <1>3, <1>4, <1>5, <2>1
  <2>2. CASE m # 0
    BY <1>3, <1>4, <1>5, <2>2
  <2> QED
    BY <2>1, <2>2
<1>7. PICK rest : rest = Tail(queue)
  OBVIOUS
<1>8. /\ rest \in Seq(DOMAIN depth) /\ Len(queue) \in Nat \ {0} /\ Len(rest) = Len(queue) - 1
      /\ \A i \in 1 .. Len(rest) : rest[i] = queue[i + 1]
  BY <1>7, HeadTailProperties, LenProperties, EmptySeq DEF ReadsTypeOK
<1>9. queue' = rest \o part
  BY <1>1, <1>2, <1>5, <1>7 DEF Take
<1>10. PICK Q : Q = DOMAIN depth \cup S
  OBVIOUS
<1>11. rest \in Seq(Q) /\ part \in Seq(Q)
  <2>1. DOMAIN depth \subseteq Q /\ S \subseteq Q
    BY <1>10
  <2> QED
    BY <1>6, <1>8, <2>1, SeqMonotonic
<1>12. /\ queue' \in Seq(Q) /\ Len(queue') = Len(rest) + Len(part)
       /\ \A i \in 1 .. Len(rest) + Len(part) :
             queue'[i] = IF i <= Len(rest) THEN rest[i] ELSE part[i - Len(rest)]
  BY <1>9, <1>11, ConcatProperties
<1>13. ASSUME NEW i \in 1 .. Len(queue')
       PROVE  queue'[i] = IF i < Len(queue) THEN queue[i + 1] ELSE picked[i - (Len(queue) - 1)]
  BY <1>3, <1>4, <1>6, <1>8, <1>12
<1> QED
  BY <1>1, <1>2, <1>4, <1>6, <1>8, <1>10, <1>12, <1>13

LEMMA VisitWellFormed ==
    ASSUME ReadsTypeOK, Tree, Visit
    PROVE  ReadsTypeOK' /\ Tree'
<1>1. PICK n \in DOMAIN depth, picked \in Seq(1 .. MaxId) :
          n = Head(queue) /\ Picks(n, picked) /\ Take(n, picked)
  BY VisitForm
<1>2. PICK S : S = ToSet(picked)
  OBVIOUS
<1>3. /\ UNCHANGED <<evidence, served, mentions, ids, view, request, phase, missing, writes>>
      /\ phase = "searching" /\ queue # <<>>
  BY DEF Visit
<1>4. /\ S \subseteq 1 .. MaxId /\ S \cap DOMAIN depth = {}
      /\ DOMAIN depth' = DOMAIN depth \cup S /\ DOMAIN parent' = DOMAIN depth'
      /\ \A x \in S : depth'[x] = depth[n] + 1 /\ parent'[x] = n
      /\ \A x \in DOMAIN depth : depth'[x] = depth[x] /\ parent'[x] = parent[x]
      /\ S # {} => depth[n] < request.depth
  BY <1>1, <1>2, TakeForm
<1>5. /\ depth[n] \in Nat /\ request.depth \in Nat /\ DOMAIN depth \subseteq 1 .. MaxId
      /\ \A x \in DOMAIN depth : depth[x] \in 0 .. request.depth /\ parent[x] \in {0} \cup DOMAIN depth
  BY <1>1, ReachedForm DEF ReadsTypeOK
<1>6. \A x \in DOMAIN depth' : depth'[x] \in 0 .. request.depth /\ parent'[x] \in {0} \cup DOMAIN depth'
  <2>1. ASSUME NEW x \in S
        PROVE  depth'[x] \in 0 .. request.depth /\ parent'[x] \in {0} \cup DOMAIN depth'
    <3>1. depth'[x] = depth[n] + 1 /\ parent'[x] = n /\ depth[n] < request.depth
      BY <1>4, <2>1
    <3>2. n \in DOMAIN depth'
      BY <1>1, <1>4
    <3> QED
      BY <1>5, <3>1, <3>2
  <2>2. ASSUME NEW x \in DOMAIN depth
        PROVE  depth'[x] \in 0 .. request.depth /\ parent'[x] \in {0} \cup DOMAIN depth'
    <3>1. depth'[x] = depth[x] /\ parent'[x] = parent[x]
      BY <1>4
    <3> QED
      BY <1>4, <1>5, <3>1
  <2> QED
    BY <1>4, <2>1, <2>2
<1>7. depth' \in [DOMAIN depth' -> 0 .. request.depth] /\ parent' \in [DOMAIN depth' -> {0} \cup DOMAIN depth']
  <2>1. depth' = [x \in DOMAIN depth' |-> depth'[x]] /\ parent' = [x \in DOMAIN parent' |-> parent'[x]]
    BY <1>1 DEF Take
  <2> QED
    BY <1>4, <1>6, <2>1
<1>8. queue' \in Seq(DOMAIN depth')
  BY <1>1, <1>2, <1>3, <1>4, TakeQueue DEF Picks
<1>9. found' \in Seq(DOMAIN depth')
  <2>1. found \in Seq(DOMAIN depth') /\ picked \in Seq(DOMAIN depth')
    <3>1. picked \in Seq(S)
      <4>1. Len(picked) \in Nat /\ picked \in [1 .. Len(picked) -> 1 .. MaxId]
        BY LenProperties
      <4> QED
        BY <1>2, <4>1 DEF ToSet
    <3>2. found \in Seq(DOMAIN depth)
      BY DEF ReadsTypeOK
    <3>3. S \subseteq DOMAIN depth' /\ DOMAIN depth \subseteq DOMAIN depth'
      BY <1>4
    <3> QED
      BY <3>1, <3>2, <3>3, SeqMonotonic
  <2>2. found' = found \o picked \/ found' = found
    BY <1>1 DEF Take
  <2> QED
    BY <2>1, <2>2, ConcatProperties
<1>10. edges' \subseteq Edge
  <2>1. edges' \subseteq edges \cup Incident(n)
    BY <1>1 DEF Take
  <2> QED
    BY <2>1, NewFromType DEF ReadsTypeOK
<1>11. Bounded => Cardinality(DOMAIN depth') <= MaxNodes
  BY <1>1, <1>2, <1>4 DEF Picks
<1>12. ReadsTypeOK'
  BY <1>3, <1>4, <1>5, <1>7, <1>8, <1>9, <1>10, <1>11 DEF ReadsTypeOK, Bounded
<1>13. ASSUME NEW x \in DOMAIN depth'
       PROVE  \/ parent'[x] = 0 /\ depth'[x] = 0 /\ x \in ToSet(request.roots)
              \/ parent'[x] \in DOMAIN depth' /\ depth'[x] = depth'[parent'[x]] + 1
  <2>1. CASE x \in S
    BY <1>4, <2>1
  <2>2. CASE x \in DOMAIN depth
    BY <1>4, <2>2 DEF Tree
  <2> QED
    BY <1>4, <2>1, <2>2
<1>14. Tree'
  BY <1>3, <1>13 DEF Tree
<1> QED
  BY <1>12, <1>14

\* What a search returns it has found.
LEMMA ReturnedFound ==
    ASSUME ReadsTypeOK, Tree
    PROVE  Returned \subseteq DOMAIN depth
<1>1. ASSUME NEW x \in DOMAIN depth PROVE ToSet(ChainTo(x)) \subseteq DOMAIN depth
  <2>1. ChainTo(x) \in Seq(DOMAIN depth)
    BY ChainForm DEF IsChain
  <2> QED
    BY <2>1, Elements
<1>2. ToSet(Results) \subseteq DOMAIN depth
  <2>1. Len(found) \in Nat /\ Limit \in Nat /\ found \in Seq(DOMAIN depth)
    BY RequestForm, LenProperties DEF ReadsTypeOK
  <2>2. Results \in Seq(DOMAIN depth)
    <3>1. PICK k : k = IF Len(found) < Limit THEN Len(found) ELSE Limit
      OBVIOUS
    <3>2. k \in 0 .. Len(found) /\ Results = SubSeq(found, 1, k)
      BY <2>1, <3>1 DEF Results
    <3> QED
      BY <2>1, <3>2
  <2> QED
    BY <2>2, Elements
<1>3. Bounded \/ IsPath \/ Closure
  BY RequestForm DEF ReadsTypeOK, Bounded, IsPath, Closure, Kinds
<1> QED
  BY <1>1, <1>2, <1>3 DEF Returned

\* The end of a search, and what is read after it.
LEMMA EndWellFormed ==
    ASSUME ReadsTypeOK, Tree, Searched \/ LookUpConcept \/ Answer
    PROVE  ReadsTypeOK' /\ Tree'
<1>1. /\ UNCHANGED <<evidence, served, mentions, ids, view, request, queue, depth, parent, edges, found, writes>>
      /\ phase \in {"searching", "returning"} /\ phase' \in {"returning", "done", "raised"}
  BY DEF Searched, LookUpConcept, Answer, ReadsTypeOK
<1>2. missing' \subseteq DOMAIN depth
  <2>1. CASE Searched
    BY <2>1, ReturnedFound DEF Searched
  <2>2. CASE LookUpConcept
    BY <2>2 DEF LookUpConcept, ReadsTypeOK
  <2>3. CASE Answer
    BY <2>3 DEF Answer, ReadsTypeOK
  <2> QED
    BY <2>1, <2>2, <2>3
<1> QED
  BY <1>1, <1>2 DEF ReadsTypeOK, Tree, Bounded

LEMMA WellFormedStep ==
    ASSUME ReadsTypeOK, Tree, [ReadsNext]_readsVars
    PROVE  ReadsTypeOK' /\ Tree'
<1>1. CASE Open \/ OpenEdges
  BY <1>1, OpenWellFormed
<1>2. CASE Resolve
  BY <1>2, ResolveWellFormed
<1>3. CASE Visit
  BY <1>3, VisitWellFormed
<1>4. CASE Searched \/ LookUpConcept \/ Answer
  BY <1>4, EndWellFormed
<1>5. CASE GraphMerge
  BY <1>5, MergeWellFormed
<1>6. CASE UNCHANGED readsVars
  BY <1>6 DEF readsVars, ReadsTypeOK, Tree, Bounded
<1> QED
  BY <1>1, <1>2, <1>3, <1>4, <1>5, <1>6 DEF ReadsNext, Read

-----------------------------------------------------------------------------
(* What the search knows.                                                  *)

\* The graph that is read is the same after a step that writes nothing.
LEMMA SameGraph ==
    ASSUME UNCHANGED <<evidence, served, mentions, ids, view, request>>
    PROVE  /\ Arcs' = Arcs /\ Within' = Within /\ EdgesNow' = EdgesNow
           /\ \A n, k : AtDistance(n, k)' = AtDistance(n, k)
<1>1. Arcs' = Arcs
  BY DEF Arcs, Leads, HasReadableEvidence
<1>2. Within' = Within
  BY <1>1, Zenon DEF Within
<1>3. EdgesNow' = EdgesNow
  BY DEF EdgesNow, ConceptsNow
<1> QED
  BY <1>1, <1>2, <1>3 DEF AtDistance

\* No merge, no change of what there is to be seen.
LEMMA ViewStep ==
    ASSUME ReadsTypeOK, [ReadsNext]_readsVars, Quiet => ViewCurrent, Quiet'
    PROVE  ViewCurrent'
<1>1. CASE Open
  <2>1. UNCHANGED <<evidence, mentions, request>> /\ phase' = "views"
    BY <1>1 DEF Open
  <2>2. view'.concepts = IF request.restricted THEN VisibleConcepts(Seen(evidence)) ELSE 1 .. MaxId
    BY <1>1 DEF Open, ReadsTypeOK
  <2> QED
    BY <2>1, <2>2 DEF ViewCurrent, Seen, VisibleConcepts
<1>2. CASE OpenEdges
  <2>1. UNCHANGED <<evidence, mentions, request, writes>> /\ phase = "views" /\ phase' = "resolving"
    BY <1>2 DEF OpenEdges
  <2>2. ViewCurrent
    BY <2>1 DEF Quiet
  <2>3. /\ view'.concepts = view.concepts
        /\ view'.edges = IF request.restricted THEN EdgesOf(Seen(evidence)) ELSE Edge
    BY <1>2 DEF OpenEdges, ReadsTypeOK, Edge
  <2> QED
    BY <2>1, <2>2, <2>3 DEF ViewCurrent, Seen, VisibleConcepts, EdgesOf
<1>3. CASE Resolve \/ Visit \/ Searched \/ LookUpConcept \/ Answer \/ UNCHANGED readsVars
  <2>1. /\ UNCHANGED <<evidence, mentions, request, view, writes>>
        /\ phase' \notin {"opening", "views"} \/ phase' = phase
        /\ phase = "opening" => phase' = "opening"
        /\ phase = "views" => phase' = "views"
    BY <1>3 DEF Resolve, Visit, Searched, LookUpConcept, Answer, readsVars
  <2>2. ViewCurrent
    BY <2>1 DEF Quiet
  <2> QED
    BY <2>1, <2>2 DEF ViewCurrent, Seen, VisibleConcepts, EdgesOf
<1>4. CASE GraphMerge
  <2>1. writes' = [writes EXCEPT !.all = @ + 1]
    BY <1>4, Zenon DEF GraphMerge
  <2>2. writes \in [all : 0 .. MaxWrites, before : 0 .. MaxWrites] /\ writes.before <= writes.all
    BY DEF ReadsTypeOK
  <2>3. MaxWrites \in Nat
    BY GraphReadsAssumption
  <2> QED
    BY <2>1, <2>2, <2>3 DEF Quiet
<1> QED
  BY <1>1, <1>2, <1>3, <1>4 DEF ReadsNext, Read

\* The search begins with the roots.
LEMMA SearchBegins ==
    ASSUME ReadsTypeOK, Resolve, phase' = "searching"
    PROVE  SearchInv'
<1>1. PICK R : R = ToSet(request.roots)
  OBVIOUS
<1>2. /\ UNCHANGED <<evidence, served, mentions, ids, view, request, edges, found, missing, writes>>
      /\ phase = "resolving" /\ queue' = request.roots
      /\ depth' = [n \in R |-> 0] /\ parent' = [n \in R |-> 0]
  BY <1>1, Zenon DEF Resolve
<1>3. DOMAIN depth' = R /\ \A x \in R : depth'[x] = 0 /\ parent'[x] = 0
  BY <1>2
<1>4. found = <<>> /\ edges = {} /\ request \in Requests
  BY <1>2 DEF ReadsTypeOK
<1>5. /\ Within' = Within /\ Within[0] = R /\ request.depth \in Nat
  BY <1>1, <1>2, <1>4, SameGraph, WithinForm
<1>6. Nearest'
  <2>1. ASSUME NEW x \in R PROVE AtDistance(x, depth[x])'
    BY <1>3, <1>5 DEF AtDistance
  <2>2. \A x \in R : \A k \in 0 .. request.depth : ~(k < depth'[x])
    BY <1>3, <1>5
  <2> QED
    BY <1>1, <1>2, <1>3, <2>1, <2>2 DEF Nearest
<1>7. Ordered'
  <2>1. request.roots \in Seq(R)
    <3>1. request.roots \in Seq(1 .. MaxId)
      BY <1>4, RequestForm
    <3> QED
      BY <1>1, <3>1, LenProperties DEF ToSet
  <2>2. \A i \in 1 .. Len(request.roots) : request.roots[i] \in R
    BY <2>1, ElementOfSeq
  <2>3. \A i, j \in 1 .. Len(queue') :
            depth'[queue'[i]] = 0 /\ depth'[queue'[j]] = 0 /\ (i <= j => 1 \in 1 .. Len(queue'))
    BY <1>2, <1>3, <2>1, <2>2, LenProperties
  <2> QED
    BY <1>2, <1>3, <2>1, <2>2, <2>3, LenProperties DEF Ordered
<1>8. Expanded'
  <2>1. Visited' = {}
    BY <1>1, <1>2, <1>3 DEF Visited
  <2> QED
    BY <2>1 DEF Expanded
<1>9. EdgesFollowed'
  BY <1>2, <1>4 DEF EdgesFollowed
<1>10. FoundAll'
  <2>1. ToSet(<<>>) = {} /\ IsInjective(<<>>)
    BY DEF ToSet, IsInjective
  <2>2. \A x \in R : ~Inferred(depth'[x])
    BY <1>3 DEF Inferred
  <2> QED
    BY <1>2, <1>3, <1>4, <2>1, <2>2 DEF FoundAll
<1> QED
  BY <1>6, <1>7, <1>8, <1>9, <1>10 DEF SearchInv, Ended

\* The queue of a search.
LEMMA QueueForm ==
    ASSUME ReadsTypeOK, Ordered, queue # <<>>
    PROVE  /\ Len(queue) \in Nat \ {0} /\ Head(queue) = queue[1] /\ Head(queue) \in DOMAIN depth
           /\ \A i \in 1 .. Len(queue) :
                 /\ queue[i] \in DOMAIN depth
                 /\ depth[Head(queue)] <= depth[queue[i]]
                 /\ depth[queue[i]] <= depth[Head(queue)] + 1
           /\ ToSet(queue) = {queue[i] : i \in 1 .. Len(queue)}
<1>1. /\ queue \in Seq(DOMAIN depth) /\ Len(queue) \in Nat \ {0} /\ Head(queue) = queue[1]
      /\ Head(queue) \in DOMAIN depth
  BY HeadTailProperties, LenProperties, EmptySeq DEF ReadsTypeOK
<1>2. \A i \in 1 .. Len(queue) : queue[i] \in DOMAIN depth
  BY <1>1, ElementOfSeq
<1>3. 1 \in 1 .. Len(queue) /\ \A i \in 1 .. Len(queue) : 1 <= i
  BY <1>1
<1>4. \A i \in 1 .. Len(queue) : depth[queue[1]] <= depth[queue[i]] /\ depth[queue[i]] <= depth[queue[1]] + 1
  BY <1>3 DEF Ordered
<1> QED
  BY <1>1, <1>2, <1>4, Elements

\* From what has been visited, one step leads to what has been found.
LEMMA VisitedLeads ==
    ASSUME ReadsTypeOK, ViewCurrent, SearchInv, phase \notin {"opening", "views"},
           request.goal \notin DOMAIN depth, ~Full,
           NEW x \in Visited, depth[x] < request.depth, NEW y, <<x, y>> \in Arcs
    PROVE  y \in DOMAIN depth
<1>1. x \in 1 .. MaxId
  BY ReachedForm DEF Visited
<1>2. PICK e \in Followed(request.kind, x, EdgesNow) : Other(e, x) = y
  BY <1>1, FollowsArcs
<1> QED
  BY <1>2 DEF SearchInv, Expanded

\* A level is complete when its predecessor is, and has been visited.
LEMMA NextLevel ==
    ASSUME ReadsTypeOK, ViewCurrent, SearchInv, phase \notin {"opening", "views"},
           request.goal \notin DOMAIN depth, ~Full,
           NEW k \in 1 .. request.depth, Within[k - 1] \subseteq DOMAIN depth,
           \A x \in ToSet(queue) : k <= depth[x]
    PROVE  Within[k] \subseteq DOMAIN depth
<1>1. request \in Requests /\ request.depth \in Nat
  BY RequestForm DEF ReadsTypeOK
<1>2. Within[k] = Beyond(Within[k - 1])
  BY <1>1, WithinForm
<1>3. ASSUME NEW a \in Arcs, a[1] \in Within[k - 1] PROVE a[2] \in DOMAIN depth
  <2>1. PICK x \in DOMAIN depth : x = a[1]
    BY <1>3
  <2>2. depth[x] \in 0 .. request.depth /\ AtDistance(x, depth[x])
    BY ReachedForm DEF SearchInv, Nearest
  <2>3. depth[x] <= k - 1
    BY <1>1, <1>3, <2>1, <2>2, DistanceLeast
  <2>4. x \in Visited /\ depth[x] < request.depth
    BY <1>1, <2>2, <2>3 DEF Visited
  <2>5. <<x, a[2]>> \in Arcs
    BY <2>1 DEF Arcs
  <2> QED
    BY <2>4, <2>5, VisitedLeads
<1> QED
  BY <1>2, <1>3 DEF Beyond

\* What is as near as the next concept to visit has been found.
LEMMA LevelFound ==
    ASSUME ReadsTypeOK, ViewCurrent, SearchInv, phase \notin {"opening", "views"},
           request.goal \notin DOMAIN depth, ~Full, queue # <<>>
    PROVE  Within[depth[Head(queue)]] \subseteq DOMAIN depth
<1>1. PICK n \in DOMAIN depth : n = Head(queue)
  BY QueueForm DEF SearchInv
<1>2. depth[n] \in 0 .. request.depth /\ request.depth \in Nat /\ request \in Requests
  BY ReachedForm DEF ReadsTypeOK
<1>3. CASE depth[n] = 0
  BY <1>1, <1>2, <1>3, WithinForm DEF SearchInv, Nearest
<1>4. CASE depth[n] # 0
  <2>1. PICK k : k = depth[n]
    OBVIOUS
  <2>2. k \in 1 .. request.depth /\ k - 1 \in 0 .. request.depth /\ k - 1 < depth[n]
    BY <1>2, <1>4, <2>1
  <2>3. Within[k - 1] \subseteq DOMAIN depth
    BY <2>2 DEF SearchInv, Nearest
  <2>4. \A x \in ToSet(queue) : k <= depth[x]
    BY <1>1, <2>1, QueueForm DEF SearchInv
  <2> QED
    BY <1>1, <2>1, <2>2, <2>3, <2>4, NextLevel
<1> QED
  BY <1>3, <1>4

\* When there is nothing left to visit, all has been found.
LEMMA AllFound ==
    ASSUME ReadsTypeOK, ViewCurrent, SearchInv, phase \notin {"opening", "views"},
           request.goal \notin DOMAIN depth, ~Full, queue = <<>>,
           NEW k \in 0 .. request.depth
    PROVE  Within[k] \subseteq DOMAIN depth
<1> DEFINE Bad == {i \in Nat : i <= request.depth /\ ~(Within[i] \subseteq DOMAIN depth)}
<1>1. request.depth \in Nat /\ request \in Requests
  BY RequestForm DEF ReadsTypeOK
<1>2. CASE Bad = {}
  BY <1>1, <1>2
<1>3. CASE Bad # {}
  <2>1. PICK i \in Bad : \A j \in Bad : i <= j
    BY <1>3, Least
  <2>2. i \in Nat /\ i <= request.depth /\ ~(Within[i] \subseteq DOMAIN depth)
    OBVIOUS
  <2>3. i # 0
    BY <1>1, <2>2, WithinForm DEF SearchInv, Nearest
  <2>4. i - 1 \in Nat /\ i - 1 <= request.depth /\ i - 1 \notin Bad
    <3> HIDE DEF Bad
    <3> QED
      BY <1>1, <2>1, <2>2, <2>3
  <2>5. Within[i - 1] \subseteq DOMAIN depth
    BY <2>4
  <2>6. i \in 1 .. request.depth
    BY <1>1, <2>2, <2>3
  <2>7. ToSet(queue) = {}
    BY DEF ToSet
  <2> QED
    BY <2>2, <2>5, <2>6, <2>7, NextLevel
<1> QED
  BY <1>2, <1>3

-----------------------------------------------------------------------------
(* A visit keeps it.                                                       *)

\* Nothing comes in once the search is full.
LEMMA FullTakesNone ==
    ASSUME ReadsTypeOK, NEW n, NEW picked, Picks(n, picked), Full
    PROVE  ToSet(picked) = {}
<1>1. PICK S : S = ToSet(picked)
  OBVIOUS
<1>2. S \subseteq (1 .. MaxId) \ DOMAIN depth
  BY <1>1, NewFromType DEF Picks
<1>3. MaxId \in Nat /\ MaxNodes \in Nat
  BY GraphReadsAssumption
<1>4. IsFiniteSet(1 .. MaxId)
  BY <1>3, FS_Interval
<1>5. IsFiniteSet(DOMAIN depth \cup S)
  BY <1>2, <1>4, FS_Subset DEF ReadsTypeOK
<1>6. Cardinality(DOMAIN depth \cup S) <= MaxNodes /\ Cardinality(DOMAIN depth) = MaxNodes
  BY <1>1 DEF Picks, Full
<1>7. /\ Cardinality(DOMAIN depth) <= Cardinality(DOMAIN depth \cup S)
      /\ Cardinality(DOMAIN depth) = Cardinality(DOMAIN depth \cup S) => DOMAIN depth = DOMAIN depth \cup S
  BY <1>5, FS_Subset
<1>8. Cardinality(DOMAIN depth \cup S) \in Nat
  BY <1>5, FS_CardinalityType
<1>9. DOMAIN depth = DOMAIN depth \cup S
  BY <1>3, <1>6, <1>7, <1>8
<1> QED
  BY <1>1, <1>2, <1>9

\* What is needed of a visit of n that takes in S.
Visits(n, picked, S) ==
    /\ UNCHANGED <<evidence, served, mentions, ids, view, request, phase, writes>>
    /\ phase = "searching" /\ queue # <<>> /\ n = Head(queue) /\ n \in DOMAIN depth
    /\ request.goal \notin DOMAIN depth
    /\ picked \in Seq(1 .. MaxId) /\ S = ToSet(picked) /\ Picks(n, picked) /\ Take(n, picked)
    /\ S \subseteq 1 .. MaxId /\ S \cap DOMAIN depth = {}
    /\ DOMAIN depth' = DOMAIN depth \cup S
    /\ \A x \in S : depth'[x] = depth[n] + 1 /\ parent'[x] = n
    /\ \A x \in DOMAIN depth : depth'[x] = depth[x] /\ parent'[x] = parent[x]
    /\ S # {} => depth[n] < request.depth

LEMMA VisitTakes ==
    ASSUME ReadsTypeOK, Visit
    PROVE  \E n, picked, S : Visits(n, picked, S)
<1>1. PICK n \in DOMAIN depth, picked \in Seq(1 .. MaxId) :
          n = Head(queue) /\ Picks(n, picked) /\ Take(n, picked)
  BY VisitForm
<1>2. PICK S : S = ToSet(picked)
  OBVIOUS
<1>3. /\ UNCHANGED <<evidence, served, mentions, ids, view, request, phase, writes>>
      /\ phase = "searching" /\ queue # <<>> /\ request.goal \notin DOMAIN depth
  BY DEF Visit
<1>4. Visits(n, picked, S)
  BY <1>1, <1>2, <1>3, TakeForm DEF Visits
<1> QED
  BY <1>4

LEMMA VisitNearest ==
    ASSUME ReadsTypeOK, ViewCurrent, SearchInv, NEW n, NEW picked, NEW S, Visits(n, picked, S)
    PROVE  Nearest'
<1>1. /\ n \in DOMAIN depth /\ depth[n] \in 0 .. request.depth /\ request.depth \in Nat
      /\ request \in Requests /\ n \in 1 .. MaxId /\ phase \notin {"opening", "views"}
  BY ReachedForm DEF Visits, ReadsTypeOK
<1>2. Within' = Within /\ Arcs' = Arcs /\ \A x, k : AtDistance(x, k)' = AtDistance(x, k)
  BY SameGraph DEF Visits
<1>3. /\ DOMAIN depth' = DOMAIN depth \cup S /\ request' = request
      /\ \A x \in S : depth'[x] = depth[n] + 1 /\ parent'[x] = n
      /\ \A x \in DOMAIN depth : depth'[x] = depth[x] /\ parent'[x] = parent[x]
  BY DEF Visits
<1>4. \A x \in S : <<n, x>> \in Arcs
  <2>1. ASSUME NEW x \in S PROVE <<n, x>> \in Arcs
    <3>1. x \in NewFrom(n)
      BY DEF Visits, Picks
    <3>2. PICK e \in Incident(n) : Other(e, n) = x
      BY <3>1 DEF NewFrom
    <3>3. e \in Followed(request.kind, n, EdgesNow)
      BY DEF Incident
    <3> QED
      BY <1>1, <3>2, <3>3, FollowsArcs
  <2> QED
    BY <2>1
<1>5. ASSUME S # {} PROVE Within[depth[n]] \subseteq DOMAIN depth
  <2>1. ~Full
    BY <1>5, FullTakesNone DEF Visits
  <2> QED
    BY <1>1, <2>1, LevelFound DEF Visits
<1>6. ASSUME NEW x \in S PROVE AtDistance(x, depth[n] + 1)
  <2>1. depth[n] < request.depth /\ x \notin DOMAIN depth
    BY DEF Visits
  <2>2. n \in Within[depth[n]]
    BY <1>1 DEF SearchInv, Nearest, AtDistance
  <2>3. x \in Within[depth[n] + 1]
    BY <1>1, <1>4, <2>1, <2>2, OneFurther
  <2>4. x \notin Within[depth[n]] /\ (depth[n] + 1) - 1 = depth[n]
    BY <1>1, <1>5, <2>1
  <2> QED
    BY <2>3, <2>4 DEF AtDistance
<1>7. \A x \in DOMAIN depth' : AtDistance(x, depth[x])'
  <2>1. ASSUME NEW x \in DOMAIN depth' PROVE AtDistance(x, depth'[x])
    BY <1>3, <1>6 DEF SearchInv, Nearest
  <2> QED
    BY <1>2, <2>1
<1>8. ASSUME NEW x \in S, NEW k \in 0 .. request.depth, k < depth'[x]
      PROVE  Within[k] \subseteq DOMAIN depth'
  <2>1. k <= depth[n]
    BY <1>1, <1>3, <1>8
  <2>2. Within[k] \subseteq Within[depth[n]]
    BY <1>1, <2>1, WithinGrows
  <2> QED
    BY <1>3, <1>5, <2>2
<1>9. ASSUME NEW x \in DOMAIN depth, NEW k \in 0 .. request.depth, k < depth'[x]
      PROVE  Within[k] \subseteq DOMAIN depth'
  <2>1. k < depth[x]
    BY <1>3, <1>9
  <2> QED
    BY <1>3, <2>1 DEF SearchInv, Nearest
<1>10. \A x \in DOMAIN depth' : parent'[x] # 0 => <<parent'[x], x>> \in Arcs
  BY <1>3, <1>4 DEF SearchInv, Nearest
<1>11. ToSet(request.roots) \subseteq DOMAIN depth'
  BY <1>3 DEF SearchInv, Nearest
<1> QED
  BY <1>2, <1>3, <1>7, <1>8, <1>9, <1>10, <1>11 DEF Nearest

LEMMA VisitOrdered ==
    ASSUME ReadsTypeOK, SearchInv, NEW n, NEW picked, NEW S, Visits(n, picked, S)
    PROVE  Ordered'
<1>1. PICK m \in 0 .. Len(picked) :
          /\ Len(queue') = (Len(queue) - 1) + m
          /\ \A i \in 1 .. Len(queue') :
                queue'[i] = IF i < Len(queue) THEN queue[i + 1] ELSE picked[i - (Len(queue) - 1)]
  BY TakeQueue DEF Visits, Picks
<1>2. /\ Len(queue) \in Nat \ {0} /\ n = Head(queue)
      /\ \A i \in 1 .. Len(queue) : /\ queue[i] \in DOMAIN depth
                                    /\ depth[n] <= depth[queue[i]] /\ depth[queue[i]] <= depth[n] + 1
  BY QueueForm DEF Visits, SearchInv
<1>3. \A x \in DOMAIN depth : depth[x] \in Nat /\ depth'[x] = depth[x]
  BY ReachedForm DEF Visits
<1>4. depth[n] \in Nat
  BY <1>3 DEF Visits
<1>5. Len(picked) \in Nat /\ \A i \in 1 .. Len(picked) : picked[i] \in S /\ depth'[picked[i]] = depth[n] + 1
  <2>1. /\ picked \in Seq(1 .. MaxId) /\ S = ToSet(picked)
        /\ \A x \in S : depth'[x] = depth[n] + 1
    BY DEF Visits
  <2>2. Len(picked) \in Nat /\ S = {picked[i] : i \in 1 .. Len(picked)}
    BY <2>1, Elements, LenProperties
  <2> QED
    BY <2>1, <2>2
<1>6. ASSUME NEW i \in 1 .. Len(queue')
      PROVE  /\ depth'[queue'[i]] \in Nat /\ depth[n] <= depth'[queue'[i]] /\ depth'[queue'[i]] <= depth[n] + 1
             /\ IF i < Len(queue) THEN depth'[queue'[i]] = depth[queue[i + 1]]
                ELSE depth'[queue'[i]] = depth[n] + 1
  <2>1. CASE i < Len(queue)
    <3>1. i \in Nat /\ i >= 1
      OBVIOUS
    <3>2. i + 1 \in 1 .. Len(queue)
      BY <1>2, <2>1, <3>1
    <3>3. queue'[i] = queue[i + 1]
      BY Zenon, <1>1, <2>1
    <3> QED
      BY <1>2, <1>3, <2>1, <3>2, <3>3
  <2>2. CASE ~(i < Len(queue))
    <3>1. PICK j : j = i - (Len(queue) - 1)
      OBVIOUS
    <3>2. j \in 1 .. Len(picked) /\ queue'[i] = picked[j]
      BY <1>1, <1>2, <1>5, <2>2, <3>1
    <3> QED
      BY <1>4, <1>5, <2>2, <3>2
  <2> QED
    BY <2>1, <2>2
<1>7. ASSUME NEW i \in 1 .. Len(queue'), NEW j \in 1 .. Len(queue'), i <= j
      PROVE  depth'[queue'[i]] <= depth'[queue'[j]] /\ depth'[queue'[j]] <= depth'[queue'[1]] + 1
  <2>1. 1 \in 1 .. Len(queue')
    BY <1>1, <1>2
  <2>2. depth'[queue'[j]] <= depth'[queue'[1]] + 1
    <3>1. depth'[queue'[j]] \in Nat /\ depth'[queue'[j]] <= depth[n] + 1
      BY <1>6
    <3>2. depth'[queue'[1]] \in Nat /\ depth[n] <= depth'[queue'[1]]
      BY <1>6, <2>1
    <3> QED
      BY <1>4, <3>1, <3>2
  <2>3. CASE j < Len(queue)
    <3>1. i + 1 \in 1 .. Len(queue) /\ j + 1 \in 1 .. Len(queue) /\ i + 1 <= j + 1 /\ i < Len(queue)
      BY <1>1, <1>2, <1>7, <2>3
    <3>2. depth[queue[i + 1]] <= depth[queue[j + 1]]
      BY <3>1 DEF SearchInv, Ordered
    <3> QED
      BY <1>6, <2>2, <2>3, <3>1, <3>2
  <2>4. CASE ~(j < Len(queue))
    BY <1>4, <1>6, <2>2, <2>4
  <2> QED
    BY <2>3, <2>4
<1> QED
  BY <1>7 DEF Ordered

\* What has been visited afterwards.
LEMMA VisitedNext ==
    ASSUME ReadsTypeOK, SearchInv, NEW n, NEW picked, NEW S, Visits(n, picked, S),
           request.goal \notin DOMAIN depth'
    PROVE  Visited' \subseteq Visited \cup {n}
<1>1. request.goal \notin S
  BY DEF Visits
<1>2. /\ Len(queue') = (Len(queue) - 1) + Len(picked)
      /\ \A i \in 1 .. Len(queue') :
            queue'[i] = IF i < Len(queue) THEN queue[i + 1] ELSE picked[i - (Len(queue) - 1)]
      /\ queue' \in Seq(DOMAIN depth \cup S)
  BY <1>1, TakeQueue DEF Visits, Picks
<1>3. Len(queue) \in Nat \ {0} /\ n = queue[1] /\ ToSet(queue) = {queue[i] : i \in 1 .. Len(queue)}
  BY QueueForm DEF Visits, SearchInv
<1>4. Len(picked) \in Nat /\ S = {picked[i] : i \in 1 .. Len(picked)}
  BY Elements, LenProperties DEF Visits
<1>5. ToSet(queue') = {queue'[i] : i \in 1 .. Len(queue')}
  BY <1>2, Elements
<1>6. ASSUME NEW x \in S PROVE x \in ToSet(queue')
  <2>1. PICK i \in 1 .. Len(picked) : x = picked[i]
    BY <1>4
  <2>2. PICK j : j = i + (Len(queue) - 1)
    OBVIOUS
  <2>3. j \in 1 .. Len(queue') /\ ~(j < Len(queue)) /\ j - (Len(queue) - 1) = i
    BY <1>2, <1>3, <1>4, <2>2
  <2> QED
    BY <1>2, <1>5, <2>1, <2>3
<1>7. ASSUME NEW x \in ToSet(queue), x # n PROVE x \in ToSet(queue')
  <2>1. PICK i \in 1 .. Len(queue) : x = queue[i]
    BY <1>3
  <2>2. i - 1 \in 1 .. Len(queue') /\ i - 1 < Len(queue) /\ (i - 1) + 1 = i
    BY <1>2, <1>3, <1>4, <1>7, <2>1
  <2> QED
    BY <1>2, <1>5, <2>1, <2>2
<1> QED
  BY <1>6, <1>7 DEF Visited, Visits

LEMMA VisitExpanded ==
    ASSUME ReadsTypeOK, SearchInv, NEW n, NEW picked, NEW S, Visits(n, picked, S)
    PROVE  Expanded'
<1>1. /\ EdgesNow' = EdgesNow /\ request' = request
      /\ DOMAIN depth' = DOMAIN depth \cup S /\ \A x \in DOMAIN depth : depth'[x] = depth[x]
      /\ n \in DOMAIN depth /\ request.goal \notin DOMAIN depth
  BY SameGraph DEF Visits
<1>2. edges' = IF Bounded THEN edges \cup {e \in Incident(n) : Other(e, n) \in DOMAIN depth'} ELSE edges
  BY DEF Visits, Take
<1>3. SUFFICES ASSUME request.goal \notin DOMAIN depth', NEW x \in Visited',
                      depth'[x] < request.depth,
                      NEW e \in Followed(request.kind, x, EdgesNow)
               PROVE  IF Other(e, x) \in DOMAIN depth' THEN Bounded => e \in edges' ELSE Full'
  BY <1>1 DEF Expanded, Bounded
<1>4. x \in DOMAIN depth /\ (x \in Visited \/ x = n)
  BY <1>1, <1>3, VisitedNext DEF Visited
<1>5. depth[x] < request.depth /\ depth[x] \in Nat /\ request.depth \in Nat
  BY <1>1, <1>3, <1>4, ReachedForm
<1>6. CASE x \in Visited
  <2>1. IF Other(e, x) \in DOMAIN depth THEN Bounded => e \in edges ELSE Full
    BY <1>1, <1>3, <1>5, <1>6 DEF SearchInv, Expanded
  <2>2. Full => S = {}
    BY FullTakesNone DEF Visits
  <2>3. Full => Full' /\ DOMAIN depth' = DOMAIN depth
    BY <1>1, <2>2 DEF Full, Bounded
  <2> QED
    BY <1>1, <1>2, <2>1, <2>3
<1>7. CASE x = n
  <2>1. e \in Incident(n)
    BY <1>3, <1>5, <1>7 DEF Incident, AtLimit
  <2>2. CASE Other(e, n) \in DOMAIN depth'
    BY <1>2, <1>7, <2>1, <2>2
  <2>3. CASE Other(e, n) \notin DOMAIN depth'
    <3>1. Other(e, n) \in NewFrom(n) /\ Other(e, n) \notin S
      BY <1>1, <2>1, <2>3 DEF NewFrom
    <3>2. request.goal \notin NewFrom(n)
      BY <1>1, <1>3 DEF Visits, Picks
    <3>3. Bounded /\ Cardinality(DOMAIN depth \cup S) = MaxNodes
      BY <3>1, <3>2 DEF Visits, Picks
    <3> QED
      BY <1>1, <1>7, <2>3, <3>3 DEF Full, Bounded
  <2> QED
    BY <1>7, <2>2, <2>3
<1> QED
  BY <1>4, <1>6, <1>7

LEMMA VisitEdges ==
    ASSUME ReadsTypeOK, SearchInv, NEW n, NEW picked, NEW S, Visits(n, picked, S)
    PROVE  EdgesFollowed'
<1>1. /\ EdgesNow' = EdgesNow /\ request' = request
      /\ DOMAIN depth' = DOMAIN depth \cup S /\ \A x \in DOMAIN depth : depth'[x] = depth[x]
      /\ n \in DOMAIN depth
  BY SameGraph DEF Visits
<1>2. edges' \subseteq edges \cup {e \in Incident(n) : Other(e, n) \in DOMAIN depth'}
  BY DEF Visits, Take
<1>3. ASSUME NEW e \in edges'
      PROVE  \E x \in DOMAIN depth' :
                /\ depth'[x] < request.depth
                /\ e \in Followed(request.kind, x, EdgesNow) /\ Other(e, x) \in DOMAIN depth'
  <2>1. CASE e \in edges
    BY <1>1, <2>1 DEF SearchInv, EdgesFollowed
  <2>2. CASE e \in Incident(n) /\ Other(e, n) \in DOMAIN depth'
    <3>1. ~AtLimit(depth[n]) /\ e \in Followed(request.kind, n, EdgesNow)
      BY <2>2 DEF Incident
    <3>2. depth[n] < request.depth
      BY <1>1, <3>1, ReachedForm DEF AtLimit
    <3> QED
      BY <1>1, <2>2, <3>1, <3>2
  <2> QED
    BY <1>2, <2>1, <2>2
<1> QED
  BY <1>1, <1>3 DEF EdgesFollowed

\* One sequence after another that shares no element with it.
LEMMA Appended ==
    ASSUME NEW A, NEW B, A \cap B = {}, NEW s \in Seq(A), NEW t \in Seq(B),
           IsInjective(s), IsInjective(t)
    PROVE  ToSet(s \o t) = ToSet(s) \cup ToSet(t) /\ IsInjective(s \o t)
<1>1. PICK a \in Nat, b \in Nat : a = Len(s) /\ b = Len(t)
  BY LenProperties
<1>2. PICK all : all = s \o t
  OBVIOUS
<1>3. /\ DOMAIN s = 1 .. a /\ \A i \in 1 .. a : s[i] \in A
      /\ DOMAIN t = 1 .. b /\ \A i \in 1 .. b : t[i] \in B
  BY <1>1, LenProperties, ElementOfSeq
<1>4. /\ DOMAIN all = 1 .. (a + b)
      /\ \A i \in 1 .. (a + b) : all[i] = IF i <= a THEN s[i] ELSE t[i - a]
  BY <1>1, <1>2
<1>5. ASSUME NEW i \in 1 .. (a + b)
      PROVE  \/ i \in 1 .. a /\ all[i] = s[i] /\ all[i] \in A
             \/ i - a \in 1 .. b /\ all[i] = t[i - a] /\ all[i] \in B
  <2>1. CASE i <= a
    BY <1>3, <1>4, <2>1
  <2>2. CASE ~(i <= a)
    <3>1. i - a \in 1 .. b
      BY <2>2
    <3> QED
      BY <1>3, <1>4, <2>2, <3>1
  <2> QED
    BY <2>1, <2>2
<1>6. ToSet(all) = ToSet(s) \cup ToSet(t)
  <2>1. ASSUME NEW i \in 1 .. a PROVE s[i] \in ToSet(all)
    <3>1. i \in DOMAIN all /\ all[i] = s[i]
      BY <1>4
    <3> QED
      BY <3>1 DEF ToSet
  <2>2. ASSUME NEW i \in 1 .. b PROVE t[i] \in ToSet(all)
    <3>1. PICK j : j = i + a
      OBVIOUS
    <3>2. j \in 1 .. (a + b) /\ ~(j <= a) /\ j - a = i
      BY <3>1
    <3>3. j \in DOMAIN all /\ all[j] = t[i]
      BY <1>4, <3>2
    <3> QED
      BY <3>3 DEF ToSet
  <2>3. ASSUME NEW i \in DOMAIN all PROVE all[i] \in ToSet(s) \cup ToSet(t)
    BY <1>3, <1>4, <1>5 DEF ToSet
  <2>4. ToSet(all) \subseteq ToSet(s) \cup ToSet(t)
    BY <2>3 DEF ToSet
  <2>5. ToSet(s) \subseteq ToSet(all) /\ ToSet(t) \subseteq ToSet(all)
    BY <1>3, <2>1, <2>2 DEF ToSet
  <2> QED
    BY <2>4, <2>5
<1>7. ASSUME NEW i \in DOMAIN all, NEW j \in DOMAIN all, all[i] = all[j] PROVE i = j
  <2>1. CASE all[i] \in A
    <3>1. i \in 1 .. a /\ j \in 1 .. a /\ s[i] = s[j]
      BY <1>4, <1>5, <1>7, <2>1
    <3> QED
      BY <1>3, <3>1 DEF IsInjective
  <2>2. CASE all[i] \in B
    <3>1. i - a \in 1 .. b /\ j - a \in 1 .. b /\ t[i - a] = t[j - a]
      BY <1>4, <1>5, <1>7, <2>2
    <3>2. i - a = j - a
      BY <1>3, <3>1 DEF IsInjective
    <3> QED
      BY <1>4, <3>2
  <2> QED
    BY <1>4, <1>5, <2>1, <2>2
<1> QED
  BY <1>2, <1>6, <1>7 DEF IsInjective

LEMMA VisitFound ==
    ASSUME ReadsTypeOK, SearchInv, NEW n, NEW picked, NEW S, Visits(n, picked, S)
    PROVE  FoundAll'
<1>1. /\ request' = request /\ DOMAIN depth' = DOMAIN depth \cup S /\ S \cap DOMAIN depth = {}
      /\ \A x \in DOMAIN depth : depth'[x] = depth[x]
      /\ \A x \in S : depth'[x] = depth[n] + 1
      /\ IsInjective(picked)
  BY DEF Visits, Picks
<1>2. found' = IF Closure /\ Inferred(depth[n] + 1) THEN found \o picked ELSE found
  BY DEF Visits, Take
<1>3. SUFFICES ASSUME Closure
               PROVE  ToSet(found') = {x \in DOMAIN depth' : Inferred(depth'[x])} /\ IsInjective(found')
  BY <1>1 DEF FoundAll, Closure
<1>4. ToSet(found) = {x \in DOMAIN depth : Inferred(depth[x])} /\ IsInjective(found)
  BY <1>3 DEF SearchInv, FoundAll
<1>5. CASE ~Inferred(depth[n] + 1)
  <2>1. {x \in DOMAIN depth' : Inferred(depth'[x])} = {x \in DOMAIN depth : Inferred(depth[x])}
    BY <1>1, <1>5
  <2> QED
    BY <1>2, <1>4, <1>5, <2>1
<1>6. CASE Inferred(depth[n] + 1)
  <2>1. {x \in DOMAIN depth' : Inferred(depth'[x])} = {x \in DOMAIN depth : Inferred(depth[x])} \cup S
    BY <1>1, <1>6
  <2>2. found \in Seq(DOMAIN depth) /\ picked \in Seq(S) /\ S = ToSet(picked)
    <3>1. picked \in Seq(1 .. MaxId) /\ S = ToSet(picked) /\ found \in Seq(DOMAIN depth)
      BY DEF ReadsTypeOK, Visits
    <3>2. Len(picked) \in Nat /\ picked \in [1 .. Len(picked) -> 1 .. MaxId]
      BY <3>1, LenProperties
    <3>3. picked \in [1 .. Len(picked) -> S]
      BY <3>1, <3>2 DEF ToSet
    <3> QED
      BY <3>1, <3>2, <3>3
  <2>3. ToSet(found \o picked) = ToSet(found) \cup S /\ IsInjective(found \o picked)
    BY <1>1, <1>4, <2>2, Appended
  <2> QED
    BY <1>2, <1>3, <1>4, <1>6, <2>1, <2>3
<1> QED
  BY <1>5, <1>6

LEMMA VisitKeeps ==
    ASSUME ReadsTypeOK, ViewCurrent, SearchInv, Visit
    PROVE  SearchInv'
<1>1. PICK n, picked, S : Visits(n, picked, S)
  BY VisitTakes
<1>2. phase' = "searching"
  BY DEF Visit
<1> QED
  BY <1>1, <1>2, VisitNearest, VisitOrdered, VisitExpanded, VisitEdges, VisitFound DEF SearchInv, Ended

\* What follows the search changes nothing it knows.
LEMMA EndKeeps ==
    ASSUME SearchInv, Searched \/ LookUpConcept \/ Answer \/ UNCHANGED readsVars
    PROVE  SearchInv'
<1>1. /\ UNCHANGED <<evidence, served, mentions, ids, view, request, queue, depth, parent, edges, found, writes>>
      /\ phase' \in {"returning", "done"} =>
            phase \in {"returning", "done"} \/ queue = <<>> \/ request.goal \in DOMAIN depth
            \/ (Closure /\ Len(found) >= Limit)
  BY DEF Searched, LookUpConcept, Answer, readsVars
<1>2. Within' = Within /\ Arcs' = Arcs /\ EdgesNow' = EdgesNow /\ \A x, k : AtDistance(x, k)' = AtDistance(x, k)
  BY <1>1, SameGraph
<1>3. Nearest'
  BY <1>1, <1>2 DEF SearchInv, Nearest
<1>4. Ordered' /\ Expanded' /\ EdgesFollowed' /\ FoundAll'
  BY <1>1, <1>2 DEF SearchInv, Ordered, Expanded, Visited, Full, Bounded, EdgesFollowed, FoundAll, Closure
<1>5. Ended'
  BY <1>1 DEF SearchInv, Ended, Closure
<1> QED
  BY <1>3, <1>4, <1>5 DEF SearchInv

LEMMA ReadsStep ==
    ASSUME ReadsInv, [ReadsNext]_readsVars
    PROVE  ReadsInv'
<1>1. ReadsTypeOK' /\ Tree'
  BY WellFormedStep DEF ReadsInv
<1>2. Quiet' => ViewCurrent'
  BY ViewStep DEF ReadsInv
<1>3. ASSUME Quiet', phase' \in {"searching", "returning", "done"}
      PROVE  SearchInv'
  <2>1. CASE Open \/ OpenEdges
    BY <1>3, <2>1 DEF Open, OpenEdges
  <2>2. CASE Resolve
    <3>1. phase' = "searching"
      BY <1>3, <2>2 DEF Resolve
    <3> QED
      BY <2>2, <3>1, SearchBegins DEF ReadsInv
  <2>3. CASE Visit
    <3>1. Quiet /\ phase = "searching"
      BY <1>3, <2>3 DEF Visit, Quiet
    <3> QED
      BY <2>3, <3>1, VisitKeeps DEF ReadsInv
  <2>4. CASE Searched \/ LookUpConcept \/ Answer \/ UNCHANGED readsVars
    <3>1. Quiet /\ phase \in {"searching", "returning", "done"}
      BY <1>3, <2>4 DEF Searched, LookUpConcept, Answer, readsVars, Quiet
    <3> QED
      BY <2>4, <3>1, EndKeeps DEF ReadsInv
  <2>5. CASE GraphMerge
    <3>1. writes' = [writes EXCEPT !.all = @ + 1]
      BY <2>5, Zenon DEF GraphMerge
    <3>2. writes \in [all : 0 .. MaxWrites, before : 0 .. MaxWrites] /\ writes.before <= writes.all
      BY DEF ReadsInv, ReadsTypeOK
    <3>3. MaxWrites \in Nat
      BY GraphReadsAssumption
    <3> QED
      BY <1>3, <3>1, <3>2, <3>3 DEF Quiet
  <2> QED
    BY <2>1, <2>2, <2>3, <2>4, <2>5 DEF ReadsNext, Read
<1> QED
  BY <1>1, <1>2, <1>3 DEF ReadsInv

LEMMA ReadsBegin ==
    ASSUME ReadsInit
    PROVE  ReadsInv
<1>1. ReadsTypeOK /\ Tree
  BY StartsWellFormed
<1>2. phase = "opening"
  BY DEF ReadsInit
<1> QED
  BY <1>1, <1>2 DEF ReadsInv, ViewCurrent

\* The searches of graph/query.py keep to the graph that may be read: as long
\* as no merge has fallen in between since the connection was opened, what
\* they have found, and in which order, is what its arcs say.
THEOREM ReadsInvariant == ReadsSpec => []ReadsInv
<1>1. ReadsInit => ReadsInv
  BY ReadsBegin
<1>2. ReadsInv /\ [ReadsNext]_readsVars => ReadsInv'
  BY ReadsStep
<1> QED
  BY <1>1, <1>2, PTL DEF ReadsSpec

\* A read of the graph keeps to its types: every concept that it has found is
\* of the graph, within the depth, and max_nodes bounds a neighbourhood.
THEOREM ReadsTypeCorrect == ReadsSpec => []ReadsTypeOK
<1>1. ReadsInv => ReadsTypeOK
  BY DEF ReadsInv
<1> QED
  BY <1>1, ReadsInvariant, PTL

-----------------------------------------------------------------------------
(* The answers.                                                            *)

\* A search that has ended, and has not found its goal, knows all of the graph
\* within the depth, but for max_nodes.
LEMMA Complete ==
    ASSUME ReadsTypeOK, ViewCurrent, SearchInv, phase \in {"returning", "done"},
           request.goal \notin DOMAIN depth, ~Full, ~Closure \/ Len(found) < Limit,
           NEW k \in 0 .. request.depth
    PROVE  Within[k] \subseteq DOMAIN depth
<1>1. Len(found) \in Nat /\ Limit \in Nat
  BY RequestForm, LenProperties DEF ReadsTypeOK
<1>2. queue = <<>> /\ phase \notin {"opening", "views"}
  BY <1>1 DEF SearchInv, Ended
<1> QED
  BY <1>2, AllFound

LEMMA NeighbourhoodFollows ==
    ASSUME ReadsInv
    PROVE  NeighbourhoodExact
<1>1. SUFFICES ASSUME Bounded, Quiet, phase \in {"returning", "done"}
               PROVE  LET nodes == DOMAIN depth
                          arcs == {a \in Arcs : a[1] \in nodes /\ a[2] \in nodes
                                                /\ depth[a[1]] < request.depth}
                      IN  /\ \A n \in nodes : AtDistance(n, depth[n])
                          /\ \A n \in Within[request.depth] \ nodes :
                                /\ Cardinality(nodes) = MaxNodes
                                /\ \A m \in nodes : \E k \in depth[m] .. request.depth : AtDistance(n, k)
                          /\ {{e.src, e.dst} : e \in edges} = {{a[1], a[2]} : a \in arcs}
  BY DEF NeighbourhoodExact
<1>2. ReadsTypeOK /\ ViewCurrent /\ SearchInv /\ phase \notin {"opening", "views"}
  BY <1>1 DEF ReadsInv
<1>3. request \in Requests /\ request.depth \in Nat /\ request.goal = 0
  <2>1. request \in Requests
    BY <1>2 DEF ReadsTypeOK
  <2> QED
    BY <1>1, <2>1, RequestForm DEF Bounded, IsPath
<1>4. /\ \A x \in DOMAIN depth : x \in 1 .. MaxId /\ depth[x] \in 0 .. request.depth
      /\ request.goal \notin DOMAIN depth
  BY <1>2, <1>3, ReachedForm
<1>5. ~Closure
  BY <1>1 DEF Bounded, Closure
<1>6. Visited = DOMAIN depth
  <2>1. ToSet(<<>>) = {}
    BY DEF ToSet
  <2> QED
    BY <1>1, <1>2, <1>4, <1>5, <2>1 DEF Visited, SearchInv, Ended
<1>7. \A n \in DOMAIN depth : AtDistance(n, depth[n])
  BY <1>2 DEF SearchInv, Nearest
<1>8. ASSUME NEW n \in Within[request.depth] \ DOMAIN depth
      PROVE  /\ Cardinality(DOMAIN depth) = MaxNodes
             /\ \A m \in DOMAIN depth : \E k \in depth[m] .. request.depth : AtDistance(n, k)
  <2>1. request.depth \in 0 .. request.depth
    BY <1>3
  <2>2. Full
    BY <1>1, <1>2, <1>4, <1>5, <2>1, Complete
  <2>3. PICK k \in 0 .. request.depth : AtDistance(n, k)
    BY <1>3, <2>1, HasDistance
  <2>4. ASSUME NEW m \in DOMAIN depth PROVE depth[m] <= k
    <3>1. k < depth[m] => Within[k] \subseteq DOMAIN depth
      BY <1>2 DEF SearchInv, Nearest
    <3>2. n \in Within[k]
      BY <2>3 DEF AtDistance
    <3> QED
      BY <1>3, <1>4, <3>1, <3>2
  <2> QED
    BY <1>3, <1>4, <2>2, <2>3, <2>4 DEF Full
<1>9. PICK arcs : arcs = {a \in Arcs : a[1] \in DOMAIN depth /\ a[2] \in DOMAIN depth
                                       /\ depth[a[1]] < request.depth}
  OBVIOUS
<1>10. ASSUME NEW e \in edges PROVE \E a \in arcs : {e.src, e.dst} = {a[1], a[2]}
  <2>1. PICK x \in DOMAIN depth : /\ depth[x] < request.depth
                                  /\ e \in Followed(request.kind, x, EdgesNow)
                                  /\ Other(e, x) \in DOMAIN depth
    BY <1>2 DEF SearchInv, EdgesFollowed
  <2>2. PICK a : a = <<x, Other(e, x)>>
    OBVIOUS
  <2>3. a \in Arcs
    BY <1>2, <1>4, <2>1, <2>2, FollowsArcs
  <2>4. {e.src, e.dst} = {a[1], a[2]}
    BY <1>3, <2>1, <2>2, FollowedEnds
  <2>5. a \in arcs
    BY <1>9, <2>1, <2>2, <2>3
  <2> QED
    BY <2>4, <2>5
<1>11. ASSUME NEW a \in arcs PROVE \E e \in edges : {e.src, e.dst} = {a[1], a[2]}
  <2>1. /\ a \in Arcs /\ a[1] \in DOMAIN depth /\ a[2] \in DOMAIN depth /\ depth[a[1]] < request.depth
        /\ a = <<a[1], a[2]>>
    BY <1>9 DEF Arcs
  <2>2. PICK e \in Followed(request.kind, a[1], EdgesNow) : Other(e, a[1]) = a[2]
    BY <1>2, <1>4, <2>1, FollowsArcs
  <2>3. e \in edges
    BY <1>1, <1>2, <1>4, <1>6, <2>1, <2>2 DEF SearchInv, Expanded
  <2>4. {e.src, e.dst} = {a[1], a[2]}
    BY <1>3, <2>2, FollowedEnds
  <2> QED
    BY <2>3, <2>4
<1>12. {{e.src, e.dst} : e \in edges} = {{a[1], a[2]} : a \in arcs}
  <2>1. ASSUME NEW p \in {{e.src, e.dst} : e \in edges} PROVE p \in {{a[1], a[2]} : a \in arcs}
    <3>1. PICK e \in edges : p = {e.src, e.dst}
      BY <2>1, Zenon
    <3>2. PICK a \in arcs : {e.src, e.dst} = {a[1], a[2]}
      BY <1>10
    <3> QED
      BY <3>1, <3>2, Zenon
  <2>2. ASSUME NEW p \in {{a[1], a[2]} : a \in arcs} PROVE p \in {{e.src, e.dst} : e \in edges}
    <3>1. PICK a \in arcs : p = {a[1], a[2]}
      BY <2>2, Zenon
    <3>2. PICK e \in edges : {e.src, e.dst} = {a[1], a[2]}
      BY <1>11
    <3> QED
      BY <3>1, <3>2, Zenon
  <2> QED
    BY <2>1, <2>2, Zenon
<1> QED
  BY <1>7, <1>8, <1>9, <1>12

\* The chain to a concept goes along the arcs, and is a shortest.
LEMMA ChainShortest ==
    ASSUME ReadsInv, Quiet, phase \in {"returning", "done"}, NEW x \in DOMAIN depth
    PROVE  LET chain == ChainTo(x) IN
           /\ chain[1] \in ToSet(request.roots) /\ Len(chain) = depth[x] + 1
           /\ \A i \in 1 .. Len(chain) - 1 : <<chain[i], chain[i + 1]>> \in Arcs
           /\ AtDistance(x, Len(chain) - 1)
<1>1. PICK chain : chain = ChainTo(x)
  OBVIOUS
<1>2. ReadsTypeOK /\ Tree /\ SearchInv
  BY DEF ReadsInv
<1>3. IsChain(chain, x)
  BY <1>1, <1>2, ChainForm
<1>4. /\ chain \in Seq(DOMAIN depth) /\ Len(chain) = depth[x] + 1 /\ depth[x] \in Nat
      /\ chain[1] \in ToSet(request.roots)
      /\ \A i \in 1 .. Len(chain) - 1 : parent[chain[i + 1]] = chain[i]
  BY <1>2, <1>3, ReachedForm DEF IsChain
<1>5. ASSUME NEW i \in 1 .. Len(chain) - 1 PROVE <<chain[i], chain[i + 1]>> \in Arcs
  <2>1. i \in 1 .. Len(chain) /\ i + 1 \in 1 .. Len(chain)
    BY <1>4
  <2>2. chain[i] \in DOMAIN depth /\ chain[i + 1] \in DOMAIN depth
    BY <1>4, <2>1, ElementOfSeq
  <2>3. chain[i] # 0
    BY <1>2, <2>2, ReachedForm
  <2> QED
    BY <1>2, <1>4, <2>2, <2>3 DEF SearchInv, Nearest
<1>6. AtDistance(x, Len(chain) - 1)
  <2>1. Len(chain) - 1 = depth[x]
    BY <1>4
  <2>2. AtDistance(x, depth[x])
    BY <1>2 DEF SearchInv, Nearest
  <2> QED
    BY <2>1, <2>2
<1> QED
  BY <1>1, <1>4, <1>5, <1>6

LEMMA PathFollows ==
    ASSUME ReadsInv
    PROVE  PathShortest
<1>1. SUFFICES ASSUME IsPath, Quiet, phase \in {"returning", "done"}
               PROVE  /\ request.goal \in DOMAIN depth <=> request.goal \in Within[request.depth]
                      /\ request.goal \in DOMAIN depth =>
                            LET chain == ChainTo(request.goal) IN
                            /\ chain[1] = request.roots[1]
                            /\ \A i \in 1 .. Len(chain) - 1 : <<chain[i], chain[i + 1]>> \in Arcs
                            /\ AtDistance(request.goal, Len(chain) - 1)
  BY DEF PathShortest
<1>2. ReadsTypeOK /\ ViewCurrent /\ SearchInv /\ request \in Requests
  BY <1>1 DEF ReadsInv, ReadsTypeOK
<1>3. ~Bounded /\ ~Closure /\ ~Full
  BY <1>1 DEF IsPath, Bounded, Closure, Full
<1>4. /\ request.depth \in Nat /\ request.depth \in 0 .. request.depth
      /\ request.roots \in Seq(1 .. MaxId) /\ Len(request.roots) = 1
  BY <1>2, <1>3, RequestForm
<1>5. ASSUME request.goal \in DOMAIN depth PROVE request.goal \in Within[request.depth]
  <2>1. PICK d \in 0 .. request.depth : d = depth[request.goal]
    BY <1>2, <1>5, ReachedForm
  <2>2. request.goal \in Within[d]
    BY <1>2, <1>5, <2>1 DEF SearchInv, Nearest, AtDistance
  <2>3. d <= request.depth
    BY <1>4
  <2> QED
    BY <1>2, <1>4, <2>2, <2>3, WithinGrows
<1>6. request.goal \notin DOMAIN depth => request.goal \notin Within[request.depth]
  BY <1>1, <1>2, <1>3, <1>4, Complete
<1>7. ASSUME request.goal \in DOMAIN depth
      PROVE  LET chain == ChainTo(request.goal) IN
             /\ chain[1] = request.roots[1]
             /\ \A i \in 1 .. Len(chain) - 1 : <<chain[i], chain[i + 1]>> \in Arcs
             /\ AtDistance(request.goal, Len(chain) - 1)
  <2>1. ToSet(request.roots) = {request.roots[1]}
    BY <1>4, Elements
  <2> QED
    BY <1>1, <1>7, <2>1, ChainShortest
<1> QED
  BY <1>5, <1>6, <1>7

\* The first k elements of a sequence.
LEMMA FirstOf ==
    ASSUME NEW S, NEW s \in Seq(S), IsInjective(s), NEW k \in 0 .. Len(s)
    PROVE  LET t == SubSeq(s, 1, k)
           IN  /\ Len(t) = k /\ Cardinality(ToSet(t)) = k /\ ToSet(t) \subseteq ToSet(s)
               /\ k = Len(s) => ToSet(t) = ToSet(s)
<1>1. PICK t : t = SubSeq(s, 1, k)
  OBVIOUS
<1>2. /\ Len(s) \in Nat /\ DOMAIN s = 1 .. Len(s) /\ k \in Nat
  BY LenProperties
<1>3. Len(t) = k /\ DOMAIN t = 1 .. k /\ \A i \in 1 .. k : t[i] = s[i] /\ i \in 1 .. Len(s)
  BY <1>1, <1>2
<1>4. ToSet(t) \subseteq ToSet(s)
  BY <1>2, <1>3 DEF ToSet
<1>5. k = Len(s) => ToSet(t) = ToSet(s)
  BY <1>2, <1>3 DEF ToSet
<1>6. IsInjective(t)
  BY <1>2, <1>3 DEF IsInjective
<1>7. t \in Bijection(1 .. k, ToSet(t))
  <2>1. t = [i \in 1 .. k |-> t[i]]
    BY <1>1, <1>2, <1>3
  <2>2. t \in [1 .. k -> ToSet(t)]
    BY <1>3, <2>1 DEF ToSet
  <2>4. t \in Injection(1 .. k, ToSet(t))
    BY <1>6, <2>2 DEF Injection
  <2>5. t \in Surjection(1 .. k, ToSet(t))
    BY <1>3, <2>2 DEF Surjection, ToSet
  <2> QED
    BY <2>4, <2>5 DEF Bijection
<1>8. IsFiniteSet(1 .. k) /\ Cardinality(1 .. k) = k
  BY <1>2, FS_Interval
<1>9. Cardinality(ToSet(t)) = k
  BY <1>7, <1>8, FS_Bijection DEF ExistsBijection
<1> QED
  BY <1>1, <1>3, <1>4, <1>5, <1>9

LEMMA InferredFollows ==
    ASSUME ReadsInv
    PROVE  InferredExact
<1>1. SUFFICES ASSUME Closure, Quiet, phase \in {"returning", "done"}
               PROVE  /\ Cardinality(ToSet(Results)) = Len(Results)
                      /\ \A n \in ToSet(Results) :
                            LET chain == ChainTo(n) IN
                            /\ Len(chain) > 2
                            /\ \A i \in 1 .. Len(chain) - 1 : <<chain[i], chain[i + 1]>> \in Arcs
                            /\ AtDistance(n, Len(chain) - 1)
                      /\ Len(Results) < Limit =>
                            \A k \in 2 .. request.depth :
                                {n \in Within[k] : AtDistance(n, k)} \subseteq ToSet(Results)
  BY DEF InferredExact
<1>2. ReadsTypeOK /\ ViewCurrent /\ SearchInv /\ request \in Requests
  BY <1>1 DEF ReadsInv, ReadsTypeOK
<1>3. ~Bounded /\ ~Full /\ request.goal = 0 /\ request.depth \in Nat
  <2>1. request.goal = 0 /\ request.depth \in Nat
    BY <1>1, <1>2, RequestForm DEF Closure, IsPath
  <2> QED
    BY <1>1, <2>1 DEF Closure, Bounded, Full
<1>4. request.goal \notin DOMAIN depth /\ \A x \in DOMAIN depth : depth[x] \in 0 .. request.depth
  BY <1>2, <1>3, ReachedForm
<1>5. /\ found \in Seq(DOMAIN depth) /\ Len(found) \in Nat /\ Limit \in Nat \ {0}
      /\ IsInjective(found) /\ ToSet(found) = {x \in DOMAIN depth : Inferred(depth[x])}
  BY <1>1, <1>2, RequestForm, LenProperties DEF ReadsTypeOK, SearchInv, FoundAll
<1>6. PICK k \in 0 .. Len(found) : k = IF Len(found) < Limit THEN Len(found) ELSE Limit
  BY <1>5
<1>7. Results = SubSeq(found, 1, k)
  BY <1>6 DEF Results
<1>8. /\ Len(Results) = k /\ Cardinality(ToSet(Results)) = k /\ ToSet(Results) \subseteq ToSet(found)
      /\ k = Len(found) => ToSet(Results) = ToSet(found)
  BY <1>5, <1>7, FirstOf
<1>9. ASSUME NEW n \in ToSet(Results)
      PROVE  LET chain == ChainTo(n) IN
             /\ Len(chain) > 2
             /\ \A i \in 1 .. Len(chain) - 1 : <<chain[i], chain[i + 1]>> \in Arcs
             /\ AtDistance(n, Len(chain) - 1)
  <2>1. n \in DOMAIN depth /\ depth[n] >= 2 /\ depth[n] \in Nat
    BY <1>3, <1>4, <1>5, <1>8 DEF Inferred
  <2> QED
    BY <1>1, <2>1, ChainShortest
<1>10. ASSUME Len(Results) < Limit, NEW d \in 2 .. request.depth, NEW n \in Within[d], AtDistance(n, d)
       PROVE  n \in ToSet(Results)
  <2>1. Len(found) < Limit /\ k = Len(found)
    BY <1>5, <1>6, <1>8, <1>10
  <2>2. d \in 0 .. request.depth
    BY <1>3
  <2>3. n \in DOMAIN depth
    BY <1>1, <1>2, <1>3, <1>4, <2>1, <2>2, Complete
  <2>4. AtDistance(n, depth[n]) /\ depth[n] \in 0 .. request.depth
    BY <1>2, <1>4, <2>3 DEF SearchInv, Nearest
  <2>5. n \in Within[depth[n]]
    BY <2>4 DEF AtDistance
  <2>6. d <= depth[n]
    BY <1>2, <1>10, <2>2, <2>4, <2>5, DistanceLeast
  <2> QED
    BY <1>3, <1>5, <1>8, <2>1, <2>3, <2>4, <2>6 DEF Inferred
<1> QED
  BY <1>8, <1>9, <1>10

\* concept_subgraph, query_subgraph and affected: whatever the graph, the
\* depth and max_nodes, the answer holds the nearest concepts at their true
\* distances and the edges between them, and to a principal who cannot read
\* all it is what the graph of the readable documents alone would give.
THEOREM NeighbourhoodExactAlways == ReadsSpec => []NeighbourhoodExact
<1>1. ReadsInv => NeighbourhoodExact
  BY NeighbourhoodFollows
<1> QED
  BY <1>1, ReadsInvariant, PTL

\* shortest_path and _closure: whatever the graph, a path is found when there
\* is one, it is a shortest, and the relations inferred are all of those of
\* two steps or more, up to the limit.
THEOREM ChainsExactAlways == ReadsSpec => []ChainsExact
<1>1. ReadsInv => ChainsExact
  BY PathFollows, InferredFollows DEF ChainsExact
<1> QED
  BY <1>1, ReadsInvariant, PTL

-----------------------------------------------------------------------------
(* Sorting.                                                                *)

\* R orders the members of S one after another.
TotalOrder(S, R) ==
    /\ \A i, j, k \in S : <<i, j>> \in R /\ <<j, k>> \in R => <<i, k>> \in R
    /\ \A i \in S : <<i, i>> \notin R
    /\ \A i, j \in S : i # j => <<i, j>> \in R \/ <<j, i>> \in R

\* Arranged lists the members of S, each once, as R has them.
LEMMA ArrangedForm ==
    ASSUME NEW S, IsFiniteSet(S), NEW R, TotalOrder(S, R)
    PROVE  /\ Cardinality(S) \in Nat
           /\ Arranged(S, R) \in [1 .. Cardinality(S) -> S]
           /\ \A i \in S : \E p \in 1 .. Cardinality(S) : Arranged(S, R)[p] = i
           /\ \A p, q \in 1 .. Cardinality(S) :
                 p < q => <<Arranged(S, R)[p], Arranged(S, R)[q]>> \in R
<1> DEFINE Below(i) == {j \in S : <<j, i>> \in R}
           rank == [i \in S |-> Cardinality(Below(i)) + 1]
<1>1. PICK n \in Nat : n = Cardinality(S)
  BY FS_CardinalityType
<1>2. ASSUME NEW i \in S
      PROVE  IsFiniteSet(Below(i)) /\ Cardinality(Below(i)) \in 0 .. n - 1
  <2>1. Below(i) \in SUBSET S /\ i \notin Below(i)
    BY DEF TotalOrder
  <2>2. IsFiniteSet(Below(i)) /\ Cardinality(Below(i)) <= n /\ Cardinality(Below(i)) # n
    BY <1>1, <2>1, FS_Subset
  <2>3. Cardinality(Below(i)) \in Nat
    BY <2>2, FS_CardinalityType
  <2> QED
    BY <2>2, <2>3
<1>3. ASSUME NEW i \in S, NEW j \in S, <<i, j>> \in R
      PROVE  rank[i] < rank[j]
  <2>1. Below(i) \in SUBSET Below(j) /\ i \in Below(j) /\ i \notin Below(i)
    BY <1>3 DEF TotalOrder
  <2>2. /\ IsFiniteSet(Below(j)) /\ Cardinality(Below(i)) <= Cardinality(Below(j))
        /\ Cardinality(Below(i)) # Cardinality(Below(j))
    BY <1>2, <2>1, FS_Subset
  <2> HIDE DEF Below
  <2> QED
    BY <1>2, <2>2
<1>4. rank \in [S -> 1 .. n]
  <2> HIDE DEF Below
  <2> QED
    BY <1>2
<1>5. \A i, j \in S : i # j => rank[i] < rank[j] \/ rank[j] < rank[i]
  <2> HIDE DEF rank
  <2> QED
    BY <1>3 DEF TotalOrder
<1>6. \A p \in 1 .. n : \E i \in S : rank[i] = p
  <2> HIDE DEF rank
  <2>1. rank \in Injection(S, 1 .. n)
    BY <1>4, <1>5 DEF Injection, IsInjective
  <2>2. IsFiniteSet(1 .. n) /\ Cardinality(1 .. n) = n
    BY FS_Interval
  <2>3. rank \in Surjection(S, 1 .. n)
    BY <1>1, <2>1, <2>2, FS_Injection
  <2> QED
    BY <2>3 DEF Surjection
<1>7. ASSUME NEW p \in 1 .. n
      PROVE  Arranged(S, R)[p] \in S /\ rank[Arranged(S, R)[p]] = p
  <2>1. Arranged(S, R)[p] = CHOOSE i \in S : Cardinality(Below(i)) = p - 1
    BY <1>1 DEF Arranged
  <2>2. PICK i \in S : rank[i] = p
    BY <1>6
  <2>3. \A k \in S : rank[k] = Cardinality(Below(k)) + 1 /\ Cardinality(Below(k)) \in Nat
    <3> HIDE DEF Below
    <3> QED
      BY <1>2
  <2> HIDE DEF rank, Below
  <2>4. Cardinality(Below(i)) = p - 1
    BY <2>2, <2>3
  <2>5. PICK a : a = Arranged(S, R)[p]
    OBVIOUS
  <2>6. a \in S /\ Cardinality(Below(a)) = p - 1
    BY <2>1, <2>4, <2>5
  <2> QED
    BY <2>3, <2>5, <2>6
<1>8. Arranged(S, R) \in [1 .. n -> S]
  BY <1>1, <1>7 DEF Arranged
<1> HIDE DEF rank, Below
<1>9. ASSUME NEW i \in S PROVE \E p \in 1 .. n : Arranged(S, R)[p] = i
  <2>1. rank[i] \in 1 .. n
    BY <1>4
  <2>2. PICK a \in S : a = Arranged(S, R)[rank[i]] /\ rank[a] = rank[i]
    BY <1>7, <2>1
  <2>3. a = i
    BY <1>4, <1>5, <2>2
  <2> QED
    BY <2>1, <2>2, <2>3
<1>10. ASSUME NEW p \in 1 .. n, NEW q \in 1 .. n, p < q
       PROVE  <<Arranged(S, R)[p], Arranged(S, R)[q]>> \in R
  <2>1. PICK a \in S : a = Arranged(S, R)[p] /\ rank[a] = p
    BY <1>7
  <2>2. PICK b \in S : b = Arranged(S, R)[q] /\ rank[b] = q
    BY <1>7
  <2>3. a # b /\ <<b, a>> \notin R
    BY <1>3, <1>10, <2>1, <2>2
  <2> QED
    BY <2>1, <2>2, <2>3 DEF TotalOrder
<1> QED
  BY <1>1, <1>8, <1>9, <1>10

\* A function from 1 to n is a sequence of that length.
LEMMA SequenceForm ==
    ASSUME NEW n \in Nat, NEW T, NEW f \in [1 .. n -> T]
    PROVE  f \in Seq(T) /\ Len(f) = n
<1>1. f \in Seq(T)
  BY SeqDef
<1>2. Len(f) \in Nat /\ 1 .. Len(f) = 1 .. n
  BY <1>1, LenProperties
<1> QED
  BY <1>1, <1>2

\* Ascending lists numbers by size.
LEMMA AscendingForm ==
    ASSUME NEW S \in SUBSET Int, IsFiniteSet(S)
    PROVE  /\ Cardinality(S) \in Nat
           /\ Ascending(S) \in [1 .. Cardinality(S) -> S]
           /\ Ascending(S) \in Seq(S) /\ Len(Ascending(S)) = Cardinality(S)
           /\ \A i \in S : \E p \in 1 .. Cardinality(S) : Ascending(S)[p] = i
           /\ \A p, q \in 1 .. Cardinality(S) : p < q => Ascending(S)[p] < Ascending(S)[q]
<1> DEFINE R == {q \in S \X S : q[1] < q[2]}
<1>1. TotalOrder(S, R)
  BY DEF TotalOrder
<1>2. Ascending(S) = Arranged(S, R)
  BY DEF Ascending
<1>3. \A i, j \in S : <<i, j>> \in R => i < j
  OBVIOUS
<1> HIDE DEF R
<1>4. /\ Cardinality(S) \in Nat
      /\ Ascending(S) \in [1 .. Cardinality(S) -> S]
      /\ \A i \in S : \E p \in 1 .. Cardinality(S) : Ascending(S)[p] = i
      /\ \A p, q \in 1 .. Cardinality(S) : p < q => <<Ascending(S)[p], Ascending(S)[q]>> \in R
  BY <1>1, <1>2, ArrangedForm
<1>5. Ascending(S) \in Seq(S) /\ Len(Ascending(S)) = Cardinality(S)
  BY <1>4, SequenceForm
<1> QED
  BY <1>3, <1>4, <1>5

-----------------------------------------------------------------------------
(* Lists of chunks.                                                        *)

\* Chunks with their scores, each once.
Listing(list) ==
    /\ list \in Seq([id : Chunk, score : Int])
    /\ \A i, j \in 1 .. Len(list) : list[i].id = list[j].id => i = j

NoDebts(list) == \A i \in 1 .. Len(list) : list[i].score >= 0

\* x is before y once the list is sorted.
Leading(list, x, y) ==
    /\ x \in ChunksOf(list)
    /\ y \in ChunksOf(list) => Precedes(list, Place(list, x), Place(list, y))

Missing(list, x, y) == x \notin ChunksOf(list) /\ y \notin ChunksOf(list)

LEMMA EntryForm ==
    ASSUME NEW list, Listing(list)
    PROVE  /\ Len(list) \in Nat
           /\ \A i \in 1 .. Len(list) :
                 /\ list[i] \in [id : Chunk, score : Int]
                 /\ list[i].id \in Chunk /\ list[i].score \in Int
           /\ ChunksOf(list) \subseteq Chunk
<1>1. Len(list) \in Nat /\ \A i \in 1 .. Len(list) : list[i] \in [id : Chunk, score : Int]
  BY LenProperties, ElementOfSeq DEF Listing
<1> QED
  BY <1>1 DEF ChunksOf

LEMMA PlaceForm ==
    ASSUME NEW list, Listing(list)
    PROVE  /\ \A x \in ChunksOf(list) :
                 /\ Place(list, x) \in 1 .. Len(list)
                 /\ list[Place(list, x)].id = x
                 /\ ScoreOf(list, x) = list[Place(list, x)].score
                 /\ ScoreOf(list, x) \in Int
           /\ \A x : x \notin ChunksOf(list) =>
                 Place(list, x) = Len(list) + 1 /\ ScoreOf(list, x) = 0
           /\ \A i \in 1 .. Len(list) :
                 /\ list[i].id \in ChunksOf(list)
                 /\ Place(list, list[i].id) = i /\ ScoreOf(list, list[i].id) = list[i].score
<1>1. \A i \in 1 .. Len(list) : list[i].id \in ChunksOf(list)
  BY DEF ChunksOf
<1>2. ASSUME NEW x \in ChunksOf(list)
      PROVE  Place(list, x) \in 1 .. Len(list) /\ list[Place(list, x)].id = x
  <2>1. \E i \in 1 .. Len(list) : list[i].id = x
    BY DEF ChunksOf
  <2> QED
    BY <2>1 DEF Place
<1>3. \A x \in ChunksOf(list) : ScoreOf(list, x) = list[Place(list, x)].score
  BY DEF ScoreOf
<1>4. \A x : x \notin ChunksOf(list) => Place(list, x) = Len(list) + 1 /\ ScoreOf(list, x) = 0
  BY DEF Place, ScoreOf
<1>5. \A i \in 1 .. Len(list) : Place(list, list[i].id) = i
  BY <1>1, <1>2 DEF Listing
<1> QED
  BY <1>1, <1>2, <1>3, <1>4, <1>5, EntryForm

\* Where the scores and the places put one before the other.
LEMMA LeadingForm ==
    ASSUME NEW list, Listing(list), NEW x, NEW y
    PROVE  /\ Leading(list, x, y) <=>
                 /\ x \in ChunksOf(list)
                 /\ y \in ChunksOf(list) =>
                       \/ ScoreOf(list, x) > ScoreOf(list, y)
                       \/ ScoreOf(list, x) = ScoreOf(list, y) /\ Place(list, x) < Place(list, y)
           /\ Ahead(list, x, y) <=>
                 /\ x \in ChunksOf(list)
                 /\ y \in ChunksOf(list) => Place(list, x) < Place(list, y)
           /\ NotBehind(x, y, list) => Ahead(list, x, y) \/ x = y \/ Missing(list, x, y)
<1>1. Leading(list, x, y) <=>
          /\ x \in ChunksOf(list)
          /\ y \in ChunksOf(list) =>
                \/ ScoreOf(list, x) > ScoreOf(list, y)
                \/ ScoreOf(list, x) = ScoreOf(list, y) /\ Place(list, x) < Place(list, y)
  BY PlaceForm DEF Leading, Precedes
<1>2. Ahead(list, x, y) <=>
          /\ x \in ChunksOf(list)
          /\ y \in ChunksOf(list) => Place(list, x) < Place(list, y)
  BY PlaceForm, EntryForm DEF Ahead
<1>3. NotBehind(x, y, list) => Ahead(list, x, y) \/ x = y \/ Missing(list, x, y)
  BY PlaceForm, EntryForm DEF Ahead, NotBehind, Missing
<1> QED
  BY <1>1, <1>2, <1>3

\* Sorting permutes a list and puts its entries in order.
LEMMA BestForm ==
    ASSUME NEW list, Listing(list)
    PROVE  /\ Listing(Best(list)) /\ Len(Best(list)) = Len(list)
           /\ ChunksOf(Best(list)) = ChunksOf(list)
           /\ \A x : ScoreOf(Best(list), x) = ScoreOf(list, x)
           /\ \A i, j \in 1 .. Len(list) : i < j => Best(list)[i].score >= Best(list)[j].score
           /\ NoDebts(list) => NoDebts(Best(list))
           /\ \A x, y : Ahead(Best(list), x, y) <=> Leading(list, x, y)
           /\ \A x, y : Leading(Best(list), x, y) <=> Leading(list, x, y)
<1> DEFINE all == 1 .. Len(list)
           R == {q \in all \X all : Precedes(list, q[1], q[2])}
           order == Arranged(all, R)
<1>1. PICK n \in Nat : n = Len(list)
  BY EntryForm
<1>2. IsFiniteSet(all) /\ Cardinality(all) = n
  <2>1. all = 1 .. n
    BY <1>1
  <2> HIDE DEF all
  <2> QED
    BY <2>1, FS_Interval
<1>3. TotalOrder(all, R)
  <2>1. \A i \in all : list[i].score \in Int
    BY EntryForm
  <2>2. all \subseteq Int
    OBVIOUS
  <2>3. \A i, j \in all : <<i, j>> \in R <=> Precedes(list, i, j)
    OBVIOUS
  <2> HIDE DEF R, all
  <2> QED
    BY <2>1, <2>2, <2>3 DEF TotalOrder, Precedes
<1>4. PICK o : o = order
  OBVIOUS
<1>5. \A i, j \in all : <<i, j>> \in R => Precedes(list, i, j)
  OBVIOUS
<1>6. /\ o \in [1 .. n -> all] /\ \A i \in all : \E p \in 1 .. n : o[p] = i
      /\ \A p, q \in 1 .. n : p < q => <<o[p], o[q]>> \in R
  <2> HIDE DEF all, R
  <2> QED
    BY <1>2, <1>3, <1>4, ArrangedForm
<1>7. \A p, q \in 1 .. n : p < q => Precedes(list, o[p], o[q])
  BY <1>1, <1>5, <1>6
<1>8. PICK b : b = Best(list)
  OBVIOUS
<1>9. b = [p \in 1 .. n |-> list[o[p]]]
  BY <1>1, <1>4, <1>8 DEF Best
<1> HIDE DEF all, R, order
<1>10. \A i \in 1 .. n : list[i] \in [id : Chunk, score : Int] /\ list[i].id \in Chunk /\ list[i].score \in Int
  BY <1>1, EntryForm
<1>11. \A p \in 1 .. n : o[p] \in 1 .. n
  BY <1>1, <1>6 DEF all
<1>12. b \in Seq([id : Chunk, score : Int]) /\ Len(b) = n
  <2>1. b \in [1 .. n -> [id : Chunk, score : Int]]
    BY <1>9, <1>10, <1>11
  <2> QED
    BY <2>1, SequenceForm
<1>13. \A p, q \in 1 .. n : p # q => o[p] # o[q]
  BY <1>7, <1>10, <1>11 DEF Precedes
<1>14. Listing(b)
  <2>1. ASSUME NEW i \in 1 .. n, NEW j \in 1 .. n, b[i].id = b[j].id PROVE i = j
    <3>1. o[i] \in 1 .. n /\ o[j] \in 1 .. n /\ list[o[i]].id = list[o[j]].id
      BY <1>9, <1>11, <2>1
    <3>2. o[i] = o[j]
      BY <1>1, <3>1 DEF Listing
    <3> QED
      BY <1>13, <3>2
  <2> QED
    BY <1>12, <2>1 DEF Listing
<1>15. ChunksOf(b) = ChunksOf(list)
  BY <1>1, <1>6, <1>9, <1>11, <1>12 DEF ChunksOf, all
<1>16. ASSUME NEW i \in 1 .. n, NEW j \in 1 .. n, i < j
       PROVE  b[i].score >= b[j].score
  <2>1. Precedes(list, o[i], o[j])
    BY <1>7, <1>16
  <2>2. list[o[i]].score \in Int /\ list[o[j]].score \in Int
    BY <1>10, <1>11
  <2> QED
    BY <1>9, <2>1, <2>2 DEF Precedes
<1>17. NoDebts(list) => NoDebts(b)
  BY <1>1, <1>9, <1>11, <1>12 DEF NoDebts
<1>18. ASSUME NEW x \in ChunksOf(list)
       PROVE  /\ Place(b, x) \in 1 .. n /\ o[Place(b, x)] = Place(list, x)
              /\ ScoreOf(b, x) = ScoreOf(list, x)
  <2>1. Place(b, x) \in 1 .. n /\ b[Place(b, x)].id = x /\ ScoreOf(b, x) = b[Place(b, x)].score
    BY <1>12, <1>14, <1>15, PlaceForm
  <2>2. PICK i \in 1 .. n : i = o[Place(b, x)] /\ list[i].id = x /\ list[i].score = ScoreOf(b, x)
    BY <1>9, <1>11, <2>1
  <2>3. Place(list, x) = i /\ ScoreOf(list, x) = list[i].score
    BY <1>1, <2>2, PlaceForm
  <2> QED
    BY <2>1, <2>2, <2>3
<1>19. \A x : ScoreOf(b, x) = ScoreOf(list, x)
  BY <1>15, <1>18 DEF ScoreOf
<1>20. ASSUME NEW x, NEW y PROVE Ahead(b, x, y) <=> Leading(list, x, y)
  <2>1. Ahead(b, x, y) <=> /\ x \in ChunksOf(list)
                           /\ y \in ChunksOf(list) => Place(b, x) < Place(b, y)
    BY <1>14, <1>15, LeadingForm
  <2>2. ASSUME x \in ChunksOf(list), y \in ChunksOf(list)
        PROVE  Place(b, x) < Place(b, y) <=> Precedes(list, Place(list, x), Place(list, y))
    <3>1. PICK p \in 1 .. n, q \in 1 .. n :
             p = Place(b, x) /\ q = Place(b, y) /\ o[p] = Place(list, x) /\ o[q] = Place(list, y)
      BY <1>18, <2>2
    <3>2. o[p] \in 1 .. n /\ o[q] \in 1 .. n
      BY <1>11
    <3>3. CASE p < q
      BY <1>7, <3>1, <3>3
    <3>4. CASE p = q
      BY <1>10, <3>1, <3>2, <3>4 DEF Precedes
    <3>5. CASE q < p
      <4>1. Precedes(list, o[q], o[p])
        BY <1>7, <3>5
      <4>2. ~Precedes(list, o[p], o[q])
        BY <1>10, <3>2, <4>1 DEF Precedes
      <4> QED
        BY <3>1, <3>5, <4>2
    <3> QED
      BY <3>3, <3>4, <3>5
  <2> QED
    BY <2>1, <2>2 DEF Leading
<1>21. ASSUME NEW x, NEW y PROVE Leading(b, x, y) <=> Leading(list, x, y)
  <2>1. Ahead(b, x, y) <=> /\ x \in ChunksOf(b)
                           /\ y \in ChunksOf(b) => Place(b, x) < Place(b, y)
    BY <1>14, LeadingForm
  <2>2. ASSUME x \in ChunksOf(b), y \in ChunksOf(b)
        PROVE  Precedes(b, Place(b, x), Place(b, y)) <=> Place(b, x) < Place(b, y)
    <3>1. PICK p \in 1 .. n, q \in 1 .. n : p = Place(b, x) /\ q = Place(b, y)
      BY <1>15, <1>18, <2>2
    <3>2. b[p].score \in Int /\ b[q].score \in Int
      BY <1>9, <1>10, <1>11
    <3> QED
      BY <1>16, <3>1, <3>2 DEF Precedes
  <2> QED
    BY <1>20, <2>1, <2>2 DEF Leading
<1> QED
  BY <1>1, <1>8, <1>12, <1>14, <1>15, <1>16, <1>17, <1>19, <1>20, <1>21
-----------------------------------------------------------------------------
(* Fusing and adding up.                                                   *)

\* A list with other scores is a listing still.
Rescored(list, g) == [i \in 1 .. Len(list) |-> [list[i] EXCEPT !.score = g[i]]]

LEMMA RescoredForm ==
    ASSUME NEW list, Listing(list), NEW g \in [1 .. Len(list) -> Int],
           NEW r, r = Rescored(list, g)
    PROVE  /\ Listing(r) /\ Len(r) = Len(list) /\ ChunksOf(r) = ChunksOf(list)
           /\ \A i \in 1 .. Len(list) : r[i].id = list[i].id /\ r[i].score = g[i]
           /\ \A x \in ChunksOf(list) :
                 Place(r, x) = Place(list, x) /\ ScoreOf(r, x) = g[Place(list, x)]
<1>1. PICK n \in Nat : n = Len(list)
  BY EntryForm
<1>2. ASSUME NEW i \in 1 .. n
      PROVE  /\ r[i] \in [id : Chunk, score : Int]
             /\ r[i].id = list[i].id /\ r[i].score = g[i]
  <2>1. list[i] \in [id : Chunk, score : Int] /\ g[i] \in Int
    BY <1>1, <1>2, EntryForm
  <2>2. r[i] = [list[i] EXCEPT !.score = g[i]]
    BY <1>1, <1>2 DEF Rescored
  <2> QED
    BY <2>1, <2>2
<1>3. r \in Seq([id : Chunk, score : Int]) /\ Len(r) = n
  <2>1. r \in [1 .. n -> [id : Chunk, score : Int]]
    <3>1. DOMAIN r = 1 .. n /\ r = [i \in 1 .. n |-> r[i]]
      BY <1>1 DEF Rescored
    <3> QED
      BY <1>2, <3>1
  <2> QED
    BY <2>1, SequenceForm
<1>4. Listing(r)
  <2>1. ASSUME NEW i \in 1 .. n, NEW j \in 1 .. n, r[i].id = r[j].id PROVE i = j
    <3>1. list[i].id = list[j].id
      BY <1>2, <2>1
    <3> QED
      BY <1>1, <3>1 DEF Listing
  <2> QED
    BY <1>3, <2>1 DEF Listing
<1>5. ChunksOf(r) = ChunksOf(list)
  <2>1. ChunksOf(r) = {r[i].id : i \in 1 .. n} /\ ChunksOf(list) = {list[i].id : i \in 1 .. n}
    BY <1>1, <1>3 DEF ChunksOf
  <2>2. \A i \in 1 .. n : r[i].id = list[i].id
    BY <1>2
  <2> QED
    BY <2>1, <2>2
<1>6. ASSUME NEW x \in ChunksOf(list)
      PROVE  Place(r, x) = Place(list, x) /\ ScoreOf(r, x) = g[Place(list, x)]
  <2>1. PICK i \in 1 .. n : i = Place(list, x) /\ list[i].id = x
    BY <1>1, PlaceForm
  <2>2. r[i].id = x
    BY <1>2, <2>1
  <2>3. Place(r, x) = i /\ ScoreOf(r, x) = r[i].score
    BY <1>3, <1>4, <2>2, PlaceForm
  <2> QED
    BY <1>2, <2>1, <2>3
<1> QED
  BY <1>1, <1>2, <1>3, <1>4, <1>5, <1>6

\* What another list has besides comes in its order.
LEMMA OthersForm ==
    ASSUME NEW list, Listing(list), NEW part, Listing(part)
    PROVE  LET o == Others(list, part)
           IN  /\ Listing(o)
               /\ ChunksOf(o) = ChunksOf(part) \ ChunksOf(list)
               /\ \A x \in ChunksOf(o) : ScoreOf(o, x) = ScoreOf(part, x)
               /\ \A x, y \in ChunksOf(o) :
                     Place(part, x) < Place(part, y) => Place(o, x) < Place(o, y)
<1> DEFINE new == {i \in 1 .. Len(part) : part[i].id \notin ChunksOf(list)}
<1>1. PICK a : a = Ascending(new)
  OBVIOUS
<1>2. PICK n \in Nat : n = Len(part)
  BY EntryForm
<1>3. new \in SUBSET (1 .. n) /\ new \in SUBSET Int /\ IsFiniteSet(new)
  <2>1. new \in SUBSET (1 .. n)
    BY <1>2
  <2>2. IsFiniteSet(1 .. n)
    BY FS_Interval
  <2> HIDE DEF new
  <2>3. IsFiniteSet(new)
    BY <2>1, <2>2, FS_Subset
  <2>4. 1 .. n \subseteq Int
    OBVIOUS
  <2> QED
    BY <2>1, <2>3, <2>4
<1>4. PICK m \in Nat : m = Cardinality(new)
  <2> HIDE DEF new
  <2> QED
    BY <1>3, FS_CardinalityType
<1>5. /\ a \in [1 .. m -> new] /\ Len(a) = m
      /\ \A i \in new : \E p \in 1 .. m : a[p] = i
      /\ \A p, q \in 1 .. m : p < q => a[p] < a[q]
  <2> HIDE DEF new
  <2> QED
    BY <1>1, <1>3, <1>4, AscendingForm
<1>6. PICK o : o = Others(list, part)
  OBVIOUS
<1>7. o = [k \in 1 .. m |-> part[a[k]]]
  BY <1>1, <1>5, <1>6 DEF Others
<1>8. \A k \in 1 .. m : a[k] \in 1 .. n /\ part[a[k]].id \notin ChunksOf(list)
  BY <1>2, <1>5
<1>9. \A i \in 1 .. n : part[i].id \notin ChunksOf(list) => \E p \in 1 .. m : a[p] = i
  BY <1>2, <1>5
<1> HIDE DEF new
<1>10. \A i \in 1 .. n : part[i] \in [id : Chunk, score : Int]
  BY <1>2, EntryForm
<1>11. o \in Seq([id : Chunk, score : Int]) /\ Len(o) = m
  <2>1. o \in [1 .. m -> [id : Chunk, score : Int]]
    BY <1>7, <1>8, <1>10
  <2> QED
    BY <2>1, SequenceForm
<1>12. Listing(o)
  <2>1. ASSUME NEW i \in 1 .. m, NEW j \in 1 .. m, o[i].id = o[j].id PROVE i = j
    <3>1. a[i] \in 1 .. n /\ a[j] \in 1 .. n /\ part[a[i]].id = part[a[j]].id
      BY <1>7, <1>8, <2>1
    <3>2. a[i] = a[j]
      BY <1>2, <3>1 DEF Listing
    <3>3. ~(i < j) /\ ~(j < i)
      BY <1>5, <1>8, <3>2
    <3> QED
      BY <3>3
  <2> QED
    BY <1>11, <2>1 DEF Listing
<1>13. ChunksOf(o) = ChunksOf(part) \ ChunksOf(list)
  <2>1. ASSUME NEW k \in 1 .. m PROVE o[k].id \in ChunksOf(part) \ ChunksOf(list)
    BY <1>2, <1>7, <1>8, PlaceForm
  <2>2. ASSUME NEW x \in ChunksOf(part) \ ChunksOf(list) PROVE \E k \in 1 .. m : o[k].id = x
    <3>1. PICK i \in 1 .. n : part[i].id = x
      BY <1>2, <2>2 DEF ChunksOf
    <3>2. PICK p \in 1 .. m : a[p] = i
      BY <1>9, <2>2, <3>1
    <3> QED
      BY <1>7, <3>1, <3>2
  <2>3. ChunksOf(o) = {o[k].id : k \in 1 .. m}
    BY <1>11 DEF ChunksOf
  <2> QED
    BY <2>1, <2>2, <2>3
<1>14. ASSUME NEW x \in ChunksOf(o)
       PROVE  /\ Place(o, x) \in 1 .. m /\ a[Place(o, x)] = Place(part, x)
              /\ ScoreOf(o, x) = ScoreOf(part, x)
  <2>1. PICK k \in 1 .. m : k = Place(o, x) /\ o[k].id = x /\ ScoreOf(o, x) = o[k].score
    BY <1>11, <1>12, PlaceForm
  <2>2. PICK i \in 1 .. n : i = a[k] /\ part[i].id = x /\ part[i].score = ScoreOf(o, x)
    BY <1>7, <1>8, <2>1
  <2>3. Place(part, x) = i /\ ScoreOf(part, x) = part[i].score
    BY <1>2, <2>2, PlaceForm
  <2> QED
    BY <2>1, <2>2, <2>3
<1>15. ASSUME NEW x \in ChunksOf(o), NEW y \in ChunksOf(o), Place(part, x) < Place(part, y)
       PROVE  Place(o, x) < Place(o, y)
  <2>1. PICK p \in 1 .. m, q \in 1 .. m :
           p = Place(o, x) /\ q = Place(o, y) /\ a[p] < a[q] /\ a[p] \in 1 .. n /\ a[q] \in 1 .. n
    BY <1>8, <1>14, <1>15
  <2>2. ~(q < p) /\ p # q
    BY <1>5, <2>1
  <2> QED
    BY <2>1, <2>2
<1> QED
  BY <1>6, <1>12, <1>13, <1>14, <1>15

\* Adding a list up: scores add, places stay, what is new comes behind.
LEMMA AddedForm ==
    ASSUME NEW list, Listing(list), NEW part, Listing(part)
    PROVE  LET a == Added(list, part)
           IN  /\ Listing(a)
               /\ ChunksOf(a) = ChunksOf(list) \cup ChunksOf(part)
               /\ \A x \in ChunksOf(a) : ScoreOf(a, x) = ScoreOf(list, x) + ScoreOf(part, x)
               /\ \A x \in ChunksOf(list) : Place(a, x) = Place(list, x)
               /\ \A x \in ChunksOf(a) \ ChunksOf(list) : Place(a, x) > Len(list)
               /\ \A x, y \in ChunksOf(a) \ ChunksOf(list) :
                     Place(part, x) < Place(part, y) => Place(a, x) < Place(a, y)
<1>1. PICK o : o = Others(list, part)
  OBVIOUS
<1>2. PICK r : r = [i \in 1 .. Len(list) |-> [list[i] EXCEPT !.score = @ + ScoreOf(part, list[i].id)]]
  OBVIOUS
<1>3. PICK a : a = Added(list, part)
  OBVIOUS
<1>4. a = r \o o
  BY <1>1, <1>2, <1>3 DEF Added
<1>5. PICK n \in Nat : n = Len(list)
  BY EntryForm
<1>6. PICK g \in [1 .. n -> Int] :
         \A i \in 1 .. n : g[i] = list[i].score + ScoreOf(part, list[i].id)
  <2>1. ASSUME NEW i \in 1 .. n PROVE list[i].score + ScoreOf(part, list[i].id) \in Int
    <3>1. list[i].score \in Int
      BY <1>5, EntryForm
    <3>2. ScoreOf(part, list[i].id) \in Int
      <4>1. PICK x : x = list[i].id
        OBVIOUS
      <4>2. ScoreOf(part, x) \in Int
        BY PlaceForm
      <4> QED
        BY <4>1, <4>2
    <3> QED
      BY <3>1, <3>2
  <2>2. PICK g : g = [i \in 1 .. n |-> list[i].score + ScoreOf(part, list[i].id)]
    OBVIOUS
  <2> QED
    BY <2>1, <2>2
<1>7. r = Rescored(list, g)
  <2>1. \A i \in 1 .. n : list[i] \in [id : Chunk, score : Int]
    BY <1>5, EntryForm
  <2>2. \A i \in 1 .. n :
           [list[i] EXCEPT !.score = @ + ScoreOf(part, list[i].id)] = [list[i] EXCEPT !.score = g[i]]
    BY <1>6, <2>1
  <2> QED
    BY <1>2, <1>5, <2>2 DEF Rescored
<1>8. /\ Listing(r) /\ Len(r) = n /\ ChunksOf(r) = ChunksOf(list)
      /\ \A i \in 1 .. n : r[i].id = list[i].id /\ r[i].score = g[i]
      /\ \A x \in ChunksOf(list) : Place(r, x) = Place(list, x) /\ ScoreOf(r, x) = g[Place(list, x)]
  <2>1. g \in [1 .. Len(list) -> Int]
    BY <1>5
  <2>2. /\ Listing(r) /\ Len(r) = Len(list) /\ ChunksOf(r) = ChunksOf(list)
        /\ \A i \in 1 .. Len(list) : r[i].id = list[i].id /\ r[i].score = g[i]
        /\ \A x \in ChunksOf(list) : Place(r, x) = Place(list, x) /\ ScoreOf(r, x) = g[Place(list, x)]
    BY <1>7, <2>1, RescoredForm
  <2> QED
    BY <1>5, <2>2
<1>9. /\ Listing(o) /\ ChunksOf(o) = ChunksOf(part) \ ChunksOf(list)
      /\ \A x \in ChunksOf(o) : ScoreOf(o, x) = ScoreOf(part, x)
      /\ \A x, y \in ChunksOf(o) :
            Place(part, x) < Place(part, y) => Place(o, x) < Place(o, y)
  BY <1>1, OthersForm
<1>10. PICK m \in Nat : m = Len(o)
  BY <1>9, EntryForm
<1>11. /\ a \in Seq([id : Chunk, score : Int]) /\ Len(a) = n + m
       /\ \A i \in 1 .. n + m : a[i] = IF i <= n THEN r[i] ELSE o[i - n]
  <2>1. PICK S : S = [id : Chunk, score : Int]
    OBVIOUS
  <2>2. r \in Seq(S) /\ o \in Seq(S)
    BY <1>8, <1>9, <2>1 DEF Listing
  <2>3. /\ r \o o \in Seq(S) /\ Len(r \o o) = Len(r) + Len(o)
        /\ \A i \in 1 .. Len(r) + Len(o) : (r \o o)[i] = IF i <= Len(r) THEN r[i] ELSE o[i - Len(r)]
    BY <2>2, ConcatProperties
  <2>4. Len(r) = n /\ Len(o) = m
    BY <1>8, <1>10
  <2>5. a \in Seq([id : Chunk, score : Int]) /\ Len(a) = n + m
    BY <1>4, <2>1, <2>3, <2>4, Zenon
  <2>6. ASSUME NEW i \in 1 .. n + m PROVE a[i] = IF i <= n THEN r[i] ELSE o[i - n]
    <3>1. i \in 1 .. Len(r) + Len(o)
      BY <2>4, Zenon
    <3>2. (r \o o)[i] = IF i <= Len(r) THEN r[i] ELSE o[i - Len(r)]
      BY <2>3, <3>1, Zenon
    <3> QED
      BY <1>4, <2>4, <3>2, Zenon
  <2> QED
    BY <2>5, <2>6
<1>12. ASSUME NEW i \in 1 .. n
       PROVE  a[i] = r[i] /\ a[i].id \in ChunksOf(list)
  <2>1. i \in 1 .. n + m /\ i <= n
    OBVIOUS
  <2>2. a[i] = r[i]
    BY <1>11, <2>1
  <2>3. r[i].id \in ChunksOf(r)
    BY <1>8, PlaceForm
  <2> QED
    BY <1>8, <2>2, <2>3
<1>13. ASSUME NEW i \in 1 .. m
       PROVE  n + i \in 1 .. n + m /\ a[n + i] = o[i] /\ a[n + i].id \in ChunksOf(part) \ ChunksOf(list)
  <2>1. n + i \in 1 .. n + m /\ ~(n + i <= n) /\ (n + i) - n = i
    OBVIOUS
  <2>2. a[n + i] = o[i]
    BY <1>11, <2>1
  <2> QED
    BY <1>9, <1>10, <2>1, <2>2, PlaceForm
<1>14. ASSUME NEW i \in 1 .. n + m, i \notin 1 .. n
       PROVE  a[i].id \in ChunksOf(part) \ ChunksOf(list) /\ \E k \in 1 .. m : i = n + k
  <2>1. PICK k \in 1 .. m : k = i - n
    BY <1>14
  <2>2. i = n + k
    BY <2>1
  <2> QED
    BY <1>13, <2>2
<1>15. Listing(a)
  <2>1. ASSUME NEW i \in 1 .. n + m, NEW j \in 1 .. n + m, a[i].id = a[j].id PROVE i = j
    <3>1. CASE i \in 1 .. n /\ j \in 1 .. n
      BY <1>8, <1>12, <2>1, <3>1 DEF Listing
    <3>2. CASE i \in 1 .. n /\ j \notin 1 .. n
      BY <1>12, <1>14, <2>1, <3>2
    <3>3. CASE i \notin 1 .. n /\ j \in 1 .. n
      BY <1>12, <1>14, <2>1, <3>3
    <3>4. CASE i \notin 1 .. n /\ j \notin 1 .. n
      <4>1. PICK k \in 1 .. m, l \in 1 .. m : i = n + k /\ j = n + l
        BY <1>14, <3>4
      <4>2. o[k].id = o[l].id
        BY <1>13, <2>1, <4>1
      <4> QED
        BY <1>9, <1>10, <4>1, <4>2 DEF Listing
    <3> QED
      BY <3>1, <3>2, <3>3, <3>4
  <2> QED
    BY <1>11, <2>1 DEF Listing
<1>16. ASSUME NEW x \in ChunksOf(list)
       PROVE  /\ x \in ChunksOf(a) /\ Place(a, x) = Place(list, x)
              /\ ScoreOf(a, x) = ScoreOf(list, x) + ScoreOf(part, x)
  <2>1. PICK i \in 1 .. n : /\ i = Place(list, x) /\ list[i].id = x
                            /\ ScoreOf(list, x) = list[i].score
    BY <1>5, PlaceForm
  <2>2. a[i] = r[i] /\ r[i].id = x /\ r[i].score = list[i].score + ScoreOf(part, x)
    <3>1. a[i] = r[i]
      BY <1>12
    <3>2. r[i].id = list[i].id /\ r[i].score = g[i]
      BY <1>8
    <3>3. g[i] = list[i].score + ScoreOf(part, x)
      BY <1>6, <2>1
    <3> QED
      BY <2>1, <3>1, <3>2, <3>3
  <2>3. i \in 1 .. Len(a)
    BY <1>11
  <2>4. a[i].id \in ChunksOf(a) /\ Place(a, a[i].id) = i /\ ScoreOf(a, a[i].id) = a[i].score
    BY <1>15, <2>3, PlaceForm
  <2>5. a[i].id = x /\ a[i].score = ScoreOf(list, x) + ScoreOf(part, x)
    BY <2>1, <2>2, Zenon
  <2> QED
    BY <2>1, <2>4, <2>5, Zenon
<1>17. ASSUME NEW x \in ChunksOf(part) \ ChunksOf(list)
       PROVE  /\ x \in ChunksOf(a) /\ Place(a, x) = n + Place(o, x) /\ Place(o, x) \in 1 .. m
              /\ ScoreOf(a, x) = ScoreOf(list, x) + ScoreOf(part, x)
  <2>1. PICK i \in 1 .. m : i = Place(o, x) /\ o[i].id = x /\ ScoreOf(part, x) = o[i].score
    <3>1. x \in ChunksOf(o)
      BY <1>9
    <3>2. Place(o, x) \in 1 .. m /\ o[Place(o, x)].id = x /\ ScoreOf(o, x) = o[Place(o, x)].score
      BY <1>9, <1>10, <3>1, PlaceForm
    <3> QED
      BY <1>9, <3>1, <3>2
  <2>2. n + i \in 1 .. Len(a) /\ a[n + i].id = x /\ a[n + i].score = ScoreOf(part, x)
    BY <1>11, <1>13, <2>1
  <2>3. x \in ChunksOf(a) /\ Place(a, x) = n + i /\ ScoreOf(a, x) = ScoreOf(part, x)
    BY <1>15, <2>2, PlaceForm
  <2>4. ScoreOf(list, x) = 0 /\ ScoreOf(part, x) \in Int
    BY PlaceForm
  <2> QED
    BY <2>1, <2>3, <2>4
<1>18. ChunksOf(a) = ChunksOf(list) \cup ChunksOf(part)
  <2>1. ASSUME NEW i \in 1 .. n + m PROVE a[i].id \in ChunksOf(list) \cup ChunksOf(part)
    <3>1. CASE i \in 1 .. n
      BY <1>12, <3>1
    <3>2. CASE i \notin 1 .. n
      BY <1>14, <3>2
    <3> QED
      BY <3>1, <3>2
  <2>2. ChunksOf(a) = {a[i].id : i \in 1 .. n + m}
    BY <1>11 DEF ChunksOf
  <2>3. ChunksOf(list) \subseteq ChunksOf(a) /\ ChunksOf(part) \ ChunksOf(list) \subseteq ChunksOf(a)
    BY <1>16, <1>17
  <2> QED
    BY <2>1, <2>2, <2>3
<1>19. \A x \in ChunksOf(a) : ScoreOf(a, x) = ScoreOf(list, x) + ScoreOf(part, x)
  BY <1>16, <1>17, <1>18
<1>20. \A x \in ChunksOf(a) \ ChunksOf(list) : Place(a, x) > Len(list)
  BY <1>5, <1>17, <1>18
<1>21. ASSUME NEW x \in ChunksOf(a) \ ChunksOf(list), NEW y \in ChunksOf(a) \ ChunksOf(list),
              Place(part, x) < Place(part, y)
       PROVE  Place(a, x) < Place(a, y)
  <2>1. x \in ChunksOf(part) \ ChunksOf(list) /\ y \in ChunksOf(part) \ ChunksOf(list)
    BY <1>18
  <2>2. Place(o, x) < Place(o, y)
    BY <1>9, <1>21, <2>1
  <2>3. /\ Place(a, x) = n + Place(o, x) /\ Place(o, x) \in 1 .. m
        /\ Place(a, y) = n + Place(o, y) /\ Place(o, y) \in 1 .. m
    BY <1>17, <2>1
  <2> QED
    BY <2>2, <2>3
<1> QED
  BY <1>3, <1>15, <1>16, <1>18, <1>19, <1>20, <1>21

\* Where scores are not negative, a chunk that leads in one list and is not
\* behind in the other leads in the sum.
LEMMA AddedLeads ==
    ASSUME NEW list, Listing(list), NoDebts(list), NEW part, Listing(part), NoDebts(part),
           NEW x, NEW y,
           Leading(list, x, y) \/ Missing(list, x, y),
           Leading(part, x, y) \/ Missing(part, x, y),
           Leading(list, x, y) \/ Leading(part, x, y)
    PROVE  Leading(Added(list, part), x, y)
<1>1. PICK a : a = Added(list, part)
  OBVIOUS
<1>2. /\ Listing(a)
      /\ ChunksOf(a) = ChunksOf(list) \cup ChunksOf(part)
      /\ \A z \in ChunksOf(a) : ScoreOf(a, z) = ScoreOf(list, z) + ScoreOf(part, z)
      /\ \A z \in ChunksOf(list) : Place(a, z) = Place(list, z)
      /\ \A z \in ChunksOf(a) \ ChunksOf(list) : Place(a, z) > Len(list)
      /\ \A z, w \in ChunksOf(a) \ ChunksOf(list) :
            Place(part, z) < Place(part, w) => Place(a, z) < Place(a, w)
  BY <1>1, AddedForm
<1>3. ASSUME NEW l, Listing(l), NoDebts(l), NEW z PROVE ScoreOf(l, z) \in Nat
  BY <1>3, PlaceForm DEF NoDebts
<1>4. /\ ScoreOf(list, x) \in Nat /\ ScoreOf(list, y) \in Nat
      /\ ScoreOf(part, x) \in Nat /\ ScoreOf(part, y) \in Nat
  BY <1>3
<1>5. ASSUME NEW l, Listing(l), Leading(l, x, y) \/ Missing(l, x, y), NoDebts(l)
      PROVE  ScoreOf(l, x) >= ScoreOf(l, y)
  <2>1. y \notin ChunksOf(l) => ScoreOf(l, y) = 0
    BY <1>5, PlaceForm
  <2>2. ScoreOf(l, x) \in Nat /\ ScoreOf(l, y) \in Nat
    BY <1>3, <1>5
  <2> QED
    BY <1>5, <2>1, <2>2, LeadingForm DEF Missing
<1>6. ScoreOf(list, x) >= ScoreOf(list, y) /\ ScoreOf(part, x) >= ScoreOf(part, y)
  BY <1>5
<1>7. x \in ChunksOf(a)
  BY <1>2 DEF Leading
<1>8. ASSUME y \in ChunksOf(a)
      PROVE  \/ ScoreOf(a, x) > ScoreOf(a, y)
             \/ ScoreOf(a, x) = ScoreOf(a, y) /\ Place(a, x) < Place(a, y)
  <2>1. /\ ScoreOf(a, x) = ScoreOf(list, x) + ScoreOf(part, x)
        /\ ScoreOf(a, y) = ScoreOf(list, y) + ScoreOf(part, y)
    BY <1>2, <1>7, <1>8
  <2>2. CASE ScoreOf(list, x) = ScoreOf(list, y) /\ ScoreOf(part, x) = ScoreOf(part, y)
    <3>1. CASE x \in ChunksOf(list) /\ y \in ChunksOf(list)
      <4>1. Place(list, x) < Place(list, y)
        <5>1. Leading(list, x, y)
          BY <3>1 DEF Missing
        <5>2. ~(ScoreOf(list, x) > ScoreOf(list, y))
          BY <1>4, <2>2
        <5> QED
          BY <3>1, <5>1, <5>2, LeadingForm
      <4> QED
        BY <1>2, <2>1, <2>2, <3>1, <4>1
    <3>2. CASE x \in ChunksOf(list) /\ y \notin ChunksOf(list)
      <4>1. Place(a, x) = Place(list, x) /\ Place(list, x) \in 1 .. Len(list) /\ Len(list) \in Nat
        BY <1>2, <3>2, PlaceForm, EntryForm
      <4>2. Place(a, y) > Len(list) /\ Place(a, y) \in Int
        <5>1. Place(a, y) > Len(list)
          BY <1>2, <1>8, <3>2
        <5>2. Place(a, y) \in 1 .. Len(a)
          BY <1>2, <1>8, PlaceForm
        <5> QED
          BY <5>1, <5>2
      <4> QED
        BY <2>1, <2>2, <4>1, <4>2
    <3>3. CASE x \notin ChunksOf(list)
      <4>1. Missing(list, x, y) /\ Leading(part, x, y) /\ y \notin ChunksOf(list)
        BY <3>3 DEF Leading, Missing
      <4>2. y \in ChunksOf(part) /\ x \in ChunksOf(part)
        BY <1>2, <1>7, <1>8, <4>1, <3>3
      <4>3. ~(ScoreOf(part, x) > ScoreOf(part, y))
        BY <1>4, <2>2
      <4>4. Place(part, x) < Place(part, y)
        BY <4>1, <4>2, <4>3, LeadingForm
      <4> QED
        BY <1>2, <1>7, <1>8, <2>1, <2>2, <3>3, <4>1, <4>4
    <3> QED
      BY <3>1, <3>2, <3>3
  <2>3. CASE ~(ScoreOf(list, x) = ScoreOf(list, y) /\ ScoreOf(part, x) = ScoreOf(part, y))
    BY <1>4, <1>6, <2>1, <2>3
  <2> QED
    BY <2>2, <2>3
<1> QED
  BY <1>1, <1>2, <1>7, <1>8, LeadingForm
\* Scores that are not negative add up to such scores.
LEMMA AddedNoDebts ==
    ASSUME NEW list, Listing(list), NoDebts(list), NEW part, Listing(part), NoDebts(part)
    PROVE  NoDebts(Added(list, part))
<1>1. PICK a : a = Added(list, part)
  OBVIOUS
<1>2. Listing(a) /\ \A x \in ChunksOf(a) : ScoreOf(a, x) = ScoreOf(list, x) + ScoreOf(part, x)
  BY <1>1, AddedForm
<1>3. ASSUME NEW l, Listing(l), NoDebts(l), NEW x PROVE ScoreOf(l, x) \in Nat
  BY <1>3, PlaceForm DEF NoDebts
<1>4. ASSUME NEW i \in 1 .. Len(a) PROVE a[i].score >= 0
  <2>1. PICK x : x = a[i].id
    OBVIOUS
  <2>2. x \in ChunksOf(a) /\ ScoreOf(a, x) = a[i].score
    BY <1>2, <2>1, PlaceForm
  <2>3. ScoreOf(list, x) \in Nat /\ ScoreOf(part, x) \in Nat
    BY <1>3
  <2> QED
    BY <1>2, <2>2, <2>3
<1> QED
  BY <1>1, <1>4 DEF NoDebts

-----------------------------------------------------------------------------
(* One query.                                                              *)

\* Division rounds down, and keeps the order of what it divides.
LEMMA QuotientForm ==
    ASSUME NEW a \in Nat, NEW b \in Nat \ {0}
    PROVE  a \div b \in Nat
OBVIOUS

LEMMA QuotientFalls ==
    ASSUME NEW a \in Nat, NEW b \in Nat \ {0}, NEW c \in Nat \ {0}, b <= c
    PROVE  a \div c <= a \div b
OBVIOUS

LEMMA QuotientRises ==
    ASSUME NEW a \in Nat, NEW b \in Nat, NEW c \in Nat \ {0}, a <= b
    PROVE  a \div c <= b \div c
OBVIOUS

LEMMA ProductRises ==
    ASSUME NEW k \in Nat, NEW u \in Nat, NEW v \in Nat, v <= u
    PROVE  k * v \in Nat /\ k * u \in Nat /\ k * v <= k * u
<1>1. PICK d \in Nat : u = v + d
  <2>1. u - v \in Nat /\ u = v + (u - v)
    OBVIOUS
  <2> QED
    BY <2>1
<1>2. ASSUME NEW m \in Nat PROVE k * m \in Nat
  OBVIOUS
<1>3. k * (v + d) = k * v + k * d
  OBVIOUS
<1>4. PICK a \in Nat, b \in Nat, c \in Nat : a = k * v /\ b = k * u /\ c = k * d
  BY <1>2
<1>5. b = a + c
  BY <1>1, <1>3, <1>4
<1>6. a <= b
  BY <1>5
<1> QED
  BY <1>4, <1>6

LEMMA RankingForm ==
    ASSUME NEW r \in Rankings
    PROVE  /\ Listing(r)
           /\ \A i \in 1 .. Len(r) : r[i].score \in Nat \ {0}
           /\ \A i, j \in 1 .. Len(r) : i < j => r[i].score >= r[j].score
<1>1. PICK S : S = [id : Chunk, score : Nat \ {0}]
  OBVIOUS
<1>2. PICK T : T = [id : Chunk, score : Int]
  OBVIOUS
<1>3. r \in Seq(S) /\ S \subseteq T
  <2>1. r \in Seq(S)
    BY <1>1, RetrievalAssumption
  <2>2. S \subseteq T
    BY <1>1, <1>2
  <2> QED
    BY <2>1, <2>2
<1>4. r \in Seq(T)
  BY <1>3, SeqMonotonic
<1>5. \A i, j \in 1 .. Len(r) : i < j => r[i].id # r[j].id /\ r[i].score >= r[j].score
  BY RetrievalAssumption
<1>6. Len(r) \in Nat
  BY <1>3, LenProperties
<1>7. \A i, j \in 1 .. Len(r) : i = j \/ i < j \/ j < i
  OBVIOUS
<1>8. Listing(r)
  BY <1>2, <1>4, <1>5, <1>7 DEF Listing
<1>9. ASSUME NEW i \in 1 .. Len(r) PROVE r[i].score \in Nat \ {0}
  <2>1. r[i] \in S
    BY <1>3, ElementOfSeq
  <2> QED
    BY <1>1, <2>1
<1> QED
  BY <1>5, <1>8, <1>9

\* What an entry counts falls with its place.
LEMMA ShareForm ==
    ASSUME NEW r \in Rankings, NEW fusion, NEW weight \in Nat
    PROVE  /\ \A i \in 1 .. Len(r) : Share(fusion, weight, r, i) \in Nat
           /\ \A i, j \in 1 .. Len(r) :
                 i < j => Share(fusion, weight, r, i) >= Share(fusion, weight, r, j)
<1>1. Unit \in Nat
  BY RetrievalAssumption
<1>2. CASE fusion = "rrf"
  <2>1. ASSUME NEW i \in 1 .. Len(r)
        PROVE  RRFK + i \in Nat \ {0} /\ Share(fusion, weight, r, i) = Unit \div (RRFK + i)
    BY <1>2 DEF Share, RRFK
  <2>2. ASSUME NEW i \in 1 .. Len(r) PROVE Share(fusion, weight, r, i) \in Nat
    BY <1>1, <2>1, QuotientForm
  <2>3. ASSUME NEW i \in 1 .. Len(r), NEW j \in 1 .. Len(r), i < j
        PROVE  Share(fusion, weight, r, i) >= Share(fusion, weight, r, j)
    <3>1. PICK b \in Nat \ {0}, c \in Nat \ {0} : b = RRFK + i /\ c = RRFK + j
      BY <2>1
    <3>2. b <= c
      BY <2>3, <3>1 DEF RRFK
    <3>3. Unit \div c <= Unit \div b
      BY <1>1, <3>2, QuotientFalls
    <3>4. Unit \div c \in Nat /\ Unit \div b \in Nat
      BY <1>1, QuotientForm
    <3> QED
      BY <2>1, <3>1, <3>3, <3>4
  <2> QED
    BY <2>2, <2>3
<1>3. CASE fusion # "rrf"
  <2>1. ASSUME NEW i \in 1 .. Len(r)
        PROVE  /\ 2 * r[1].score \in Nat \ {0} /\ weight * r[i].score * Unit \in Nat
               /\ Share(fusion, weight, r, i) = (weight * r[i].score * Unit) \div (2 * r[1].score)
    <3>1. 1 \in 1 .. Len(r)
      OBVIOUS
    <3>2. r[1].score \in Nat \ {0} /\ r[i].score \in Nat
      BY <3>1, RankingForm
    <3>3. PICK u \in Nat, v \in Nat \ {0} : u = r[i].score /\ v = r[1].score
      BY <3>2
    <3>4. weight * u \in Nat
      OBVIOUS
    <3>5. weight * u * Unit \in Nat /\ 2 * v \in Nat \ {0}
      BY <1>1, <3>4
    <3>6. Share(fusion, weight, r, i) = (weight * r[i].score * Unit) \div (2 * r[1].score)
      BY <1>3, Zenon DEF Share
    <3> QED
      BY <3>3, <3>5, <3>6, Zenon
  <2>2. ASSUME NEW i \in 1 .. Len(r) PROVE Share(fusion, weight, r, i) \in Nat
    BY <2>1, QuotientForm
  <2>3. ASSUME NEW i \in 1 .. Len(r), NEW j \in 1 .. Len(r), i < j
        PROVE  Share(fusion, weight, r, i) >= Share(fusion, weight, r, j)
    <3>1. PICK u \in Nat, v \in Nat : u = r[i].score /\ v = r[j].score /\ v <= u
      BY <2>3, RankingForm
    <3>2. PICK a \in Nat, b \in Nat, c \in Nat \ {0} :
             a = weight * v * Unit /\ b = weight * u * Unit /\ c = 2 * r[1].score
      BY <2>1, <3>1, Zenon
    <3>3. a <= b
      <4>1. weight * v \in Nat /\ weight * u \in Nat /\ weight * v <= weight * u
        BY <3>1, ProductRises
      <4>2. PICK m \in Nat, n \in Nat : m = weight * v /\ n = weight * u /\ m <= n
        BY <4>1, Zenon
      <4>3. Unit * m <= Unit * n
        BY <1>1, <4>2, ProductRises
      <4>4. a = Unit * m /\ b = Unit * n
        BY <1>1, <3>2, <4>2
      <4> QED
        BY <4>3, <4>4
    <3>4. a \div c <= b \div c
      BY <3>3, QuotientRises
    <3>5. a \div c \in Nat /\ b \div c \in Nat
      BY QuotientForm
    <3> QED
      BY <2>1, <3>1, <3>2, <3>4, <3>5
  <2> QED
    BY <2>2, <2>3
<1> QED
  BY <1>2, <1>3

LEMMA EmptyForm == Listing(<<>>) /\ NoDebts(<<>>) /\ ChunksOf(<<>>) = {}
<1>1. <<>> \in Seq([id : Chunk, score : Int]) /\ Len(<<>>) = 0
  BY EmptySeq
<1>2. 1 .. Len(<<>>) = {}
  BY <1>1
<1> QED
  BY <1>1, <1>2 DEF Listing, NoDebts, ChunksOf

\* A channel that counts keeps its order, the other one is empty.
LEMMA ScoredForm ==
    ASSUME search \in Calls, NEW c \in {"bm25", "knn"}, NEW ans, ans[c] \in Rankings
    PROVE  /\ Listing(Scored(ans, c)) /\ NoDebts(Scored(ans, c))
           /\ c \in Channels =>
                 /\ ChunksOf(Scored(ans, c)) = ChunksOf(ans[c])
                 /\ \A x, y : Ahead(ans[c], x, y) => Leading(Scored(ans, c), x, y)
           /\ c \notin Channels => ChunksOf(Scored(ans, c)) = {}
<1>1. /\ search.fusion \in {"rrf", "linear"} /\ search.lexical \in 0 .. 2
      /\ Weight(c) \in Nat
      /\ c \in Channels <=> ~(search.fusion = "linear" /\ Weight(c) = 0)
  <2>1. search \in [fusion : {"rrf", "linear"}, lexical : 0 .. 2, rerank : BOOLEAN]
    BY RetrievalAssumption
  <2>2. search.fusion \in {"rrf", "linear"} /\ search.lexical \in 0 .. 2
    BY <2>1
  <2>3. Weight(c) \in Nat
    BY <2>2 DEF Weight
  <2>4. CASE c = "bm25"
    BY <2>2, <2>4 DEF Channels, Weight
  <2>5. CASE c = "knn"
    BY <2>2, <2>5 DEF Channels, Weight
  <2> QED
    BY <2>2, <2>3, <2>4, <2>5
<1>2. CASE c \notin Channels
  BY <1>1, <1>2, EmptyForm DEF Scored
<1>3. CASE c \in Channels
  <2>1. PICK r \in Rankings : r = ans[c]
    OBVIOUS
  <2>2. PICK w \in Nat : w = Weight(c)
    BY <1>1
  <2>3. PICK n \in Nat : n = Len(r) /\ Listing(r)
    BY RankingForm, EntryForm
  <2>4. PICK g : g = [i \in 1 .. n |-> Share(search.fusion, w, r, i)]
    OBVIOUS
  <2>5. /\ g \in [1 .. n -> Int]
        /\ \A i \in 1 .. n : g[i] >= 0
        /\ \A i, j \in 1 .. n : i < j => g[i] >= g[j]
    <3>1. ASSUME NEW i \in 1 .. n PROVE Share(search.fusion, w, r, i) \in Nat
      BY <2>3, ShareForm
    <3>2. ASSUME NEW i \in 1 .. n, NEW j \in 1 .. n, i < j
          PROVE  Share(search.fusion, w, r, i) >= Share(search.fusion, w, r, j)
      BY <2>3, <3>2, ShareForm
    <3> QED
      BY <2>4, <3>1, <3>2
  <2>6. PICK s : s = Scored(ans, c)
    OBVIOUS
  <2>7. s = Rescored(r, g)
    <3>1. s = [i \in 1 .. n |-> [id |-> r[i].id, score |-> g[i]]]
      BY <1>1, <1>3, <2>1, <2>2, <2>3, <2>4, <2>6 DEF Scored
    <3>2. \A i \in 1 .. n : r[i] \in [id : Chunk, score : Int]
      BY <2>3, EntryForm
    <3>3. \A i \in 1 .. n : [r[i] EXCEPT !.score = g[i]] = [id |-> r[i].id, score |-> g[i]]
      BY <3>2
    <3> QED
      BY <2>3, <3>1, <3>3 DEF Rescored
  <2>8. /\ Listing(s) /\ Len(s) = n /\ ChunksOf(s) = ChunksOf(r)
        /\ \A i \in 1 .. n : s[i].id = r[i].id /\ s[i].score = g[i]
        /\ \A x \in ChunksOf(r) : Place(s, x) = Place(r, x) /\ ScoreOf(s, x) = g[Place(r, x)]
    <3>1. g \in [1 .. Len(r) -> Int]
      BY <2>3, <2>5
    <3>2. /\ Listing(s) /\ Len(s) = Len(r) /\ ChunksOf(s) = ChunksOf(r)
          /\ \A i \in 1 .. Len(r) : s[i].id = r[i].id /\ s[i].score = g[i]
          /\ \A x \in ChunksOf(r) : Place(s, x) = Place(r, x) /\ ScoreOf(s, x) = g[Place(r, x)]
      BY <2>3, <2>7, <3>1, RescoredForm
    <3> QED
      BY <2>3, <3>2
  <2>9. NoDebts(s)
    BY <2>5, <2>8 DEF NoDebts
  <2>10. ASSUME NEW x, NEW y, Ahead(r, x, y) PROVE Leading(s, x, y)
    <3>1. x \in ChunksOf(r) /\ (y \in ChunksOf(r) => Place(r, x) < Place(r, y))
      BY <2>3, <2>10, LeadingForm
    <3>2. ASSUME y \in ChunksOf(r)
          PROVE  \/ ScoreOf(s, x) > ScoreOf(s, y)
                 \/ ScoreOf(s, x) = ScoreOf(s, y) /\ Place(s, x) < Place(s, y)
      <4>1. PICK i \in 1 .. n, j \in 1 .. n : i = Place(r, x) /\ j = Place(r, y) /\ i < j
        BY <2>3, <3>1, <3>2, PlaceForm
      <4>2. g[i] >= g[j] /\ g[i] \in Int /\ g[j] \in Int
        BY <2>5, <4>1
      <4> QED
        BY <2>8, <3>1, <3>2, <4>1, <4>2
    <3> QED
      BY <2>8, <3>1, <3>2, LeadingForm
  <2> QED
    BY <1>3, <2>1, <2>6, <2>8, <2>9, <2>10
<1> QED
  BY <1>2, <1>3

\* Fusing keeps what the channels agree on.
LEMMA FusedForm ==
    ASSUME search \in Calls, NEW ans, ans["bm25"] \in Rankings, ans["knn"] \in Rankings
    PROVE  /\ Listing(Fused(ans)) /\ NoDebts(Fused(ans))
           /\ \A x, y :
                 /\ \A c \in Channels : NotBehind(x, y, ans[c])
                 /\ \E c \in Channels : Ahead(ans[c], x, y)
                 => x # y /\ Leading(Fused(ans), x, y)
<1>1. PICK p, q : p = Scored(ans, "bm25") /\ q = Scored(ans, "knn")
  OBVIOUS
<1>2. Listing(p) /\ NoDebts(p) /\ Listing(q) /\ NoDebts(q)
  BY <1>1, ScoredForm
<1>3. Listing(Added(p, q)) /\ NoDebts(Added(p, q))
  BY <1>2, AddedForm, AddedNoDebts
<1>4. Fused(ans) = Best(Added(p, q))
  BY <1>1 DEF Fused
<1>5. ASSUME NEW x, NEW y, \A c \in Channels : NotBehind(x, y, ans[c]),
             NEW d \in Channels, Ahead(ans[d], x, y)
      PROVE  x # y /\ Leading(Fused(ans), x, y)
  <2>1. ASSUME NEW c \in {"bm25", "knn"} PROVE ans[c] \in Rankings /\ Listing(ans[c])
    BY RankingForm
  <2>2. d \in {"bm25", "knn"}
    BY DEF Channels
  <2>3. x # y
    <3>1. PICK r \in Rankings : r = ans[d]
      BY <2>1, <2>2
    <3>2. x \in ChunksOf(r) /\ (y \in ChunksOf(r) => Place(r, x) < Place(r, y))
      BY <1>5, <3>1, RankingForm, LeadingForm
    <3>3. Place(r, x) \in Int
      BY <3>2, RankingForm, PlaceForm
    <3> QED
      BY <3>2, <3>3
  <2>4. ASSUME NEW c \in {"bm25", "knn"}
        PROVE  Leading(Scored(ans, c), x, y) \/ Missing(Scored(ans, c), x, y)
    <3>1. CASE c \in Channels
      <4>1. Ahead(ans[c], x, y) \/ Missing(ans[c], x, y)
        BY <1>5, <2>1, <2>3, <3>1, LeadingForm
      <4> QED
        BY <2>1, <3>1, <4>1, ScoredForm DEF Missing
    <3>2. CASE c \notin Channels
      BY <2>1, <3>2, ScoredForm DEF Missing
    <3> QED
      BY <3>1, <3>2
  <2>5. Leading(Scored(ans, d), x, y)
    BY <1>5, <2>1, <2>2, ScoredForm
  <2>6. Leading(Added(p, q), x, y)
    <3>1. Leading(p, x, y) \/ Missing(p, x, y)
      BY <1>1, <2>4
    <3>2. Leading(q, x, y) \/ Missing(q, x, y)
      BY <1>1, <2>4
    <3>3. Leading(p, x, y) \/ Leading(q, x, y)
      BY <1>1, <2>2, <2>5
    <3> QED
      BY <1>2, <3>1, <3>2, <3>3, AddedLeads
  <2> QED
    BY <1>3, <1>4, <2>3, <2>6, BestForm
<1>6. Listing(Fused(ans)) /\ NoDebts(Fused(ans))
  BY <1>3, <1>4, BestForm
<1> QED
  BY <1>5, <1>6

-----------------------------------------------------------------------------
(* The invariant.                                                          *)

\* Chunks are listed once each, with scores that are not negative as long as
\* the cross-encoder has not given any; what is ranked is sorted.
RetrievalInv ==
    /\ search \in Calls
    /\ asked \in 0 .. MaxQueries
    /\ stage \in {"asking", "ranked", "boosted", "done", "failed"}
    /\ stage \in {"asking", "ranked", "boosted"} => Listing(hits)
    /\ stage = "asking" => NoDebts(hits)
    /\ stage = "ranked" =>
          \A i, j \in 1 .. Len(hits) : i < j => hits[i].score >= hits[j].score

LEMMA AskKeeps ==
    ASSUME RetrievalInv, Ask
    PROVE  /\ Listing(hits') /\ NoDebts(hits')
           /\ Listing(Fused(answer')) /\ NoDebts(Fused(answer'))
           /\ answer'["bm25"] \in Rankings /\ answer'["knn"] \in Rankings
           /\ hits' = Added(hits, Fused(answer'))
<1>1. PICK r \in Rankings, s \in Rankings :
         answer' = [bm25 |-> r, knn |-> s] /\ hits' = Added(hits, Fused(answer'))
  BY DEF Ask
<1>2. PICK ans : ans = answer'
  OBVIOUS
<1>3. ans["bm25"] \in Rankings /\ ans["knn"] \in Rankings
  BY <1>1, <1>2
<1>4. search \in Calls /\ Listing(hits) /\ NoDebts(hits)
  BY DEF RetrievalInv, Ask
<1>5. Listing(Fused(ans)) /\ NoDebts(Fused(ans))
  BY <1>3, <1>4, FusedForm
<1>6. hits' = Added(hits, Fused(ans))
  BY <1>1, <1>2
<1>7. Listing(Added(hits, Fused(ans))) /\ NoDebts(Added(hits, Fused(ans)))
  BY <1>4, <1>5, AddedForm, AddedNoDebts
<1> QED
  BY <1>2, <1>3, <1>5, <1>6, <1>7

LEMMA RankKeeps ==
    ASSUME RetrievalInv, Rank
    PROVE  /\ Listing(hits')
           /\ \A i, j \in 1 .. Len(hits') : i < j => hits'[i].score >= hits'[j].score
<1>1. Listing(hits)
  BY DEF RetrievalInv, Rank
<1>2. ASSUME NEW l, Listing(l), hits' = Best(l)
      PROVE  /\ Listing(hits')
             /\ \A i, j \in 1 .. Len(hits') : i < j => hits'[i].score >= hits'[j].score
  BY <1>2, BestForm
<1>3. CASE ~search.rerank
  BY <1>1, <1>2, <1>3 DEF Rank
<1>4. CASE search.rerank
  <2>1. PICK b : b = Best(hits)
    OBVIOUS
  <2>2. PICK f \in [1 .. Len(hits) -> RerankScores] :
           hits' = Best([i \in 1 .. Len(hits) |-> [b[i] EXCEPT !.score = f[i]]])
    BY <1>4, <2>1 DEF Rank
  <2>3. Listing(b) /\ Len(b) = Len(hits)
    BY <1>1, <2>1, BestForm
  <2>4. f \in [1 .. Len(b) -> Int]
    BY <2>3, RetrievalAssumption
  <2>5. [i \in 1 .. Len(hits) |-> [b[i] EXCEPT !.score = f[i]]] = Rescored(b, f)
    BY <2>3 DEF Rescored
  <2>6. Listing(Rescored(b, f))
    BY <2>3, <2>4, RescoredForm
  <2> QED
    BY <1>2, <2>2, <2>5, <2>6
<1> QED
  BY <1>3, <1>4

\* The score of an entry after the boost.
Raised(list, tenths, i) ==
    IF Canonical[list[i].id] = "" THEN 10 * list[i].score ELSE Lifted(list[i].score, tenths)

LEMMA BoostedForm ==
    ASSUME NEW list, Listing(list), NEW tenths \in Tenths, tenths # 0
    PROVE  \E g \in [1 .. Len(list) -> Int] :
              /\ \A i \in 1 .. Len(list) : g[i] = Raised(list, tenths, i)
              /\ Boosted(list, tenths) = Best(Rescored(list, g))
<1>1. tenths \in Int
  BY RetrievalAssumption
<1>2. PICK g : g = [i \in 1 .. Len(list) |-> Raised(list, tenths, i)]
  OBVIOUS
<1>3. \A i \in 1 .. Len(list) : list[i].score \in Int /\ list[i] \in [id : Chunk, score : Int]
  BY EntryForm
<1>4. ASSUME NEW i \in 1 .. Len(list) PROVE Raised(list, tenths, i) \in Int
  <2>1. PICK s \in Int : s = list[i].score
    BY <1>3
  <2>2. s * tenths \in Int /\ (-s) * tenths \in Int /\ 10 * s \in Int
    BY <1>1
  <2>3. CASE Canonical[list[i].id] = ""
    <3>1. Raised(list, tenths, i) = 10 * s
      BY <2>1, <2>3, Zenon DEF Raised
    <3> QED
      BY <2>2, <3>1, Zenon
  <2>4. CASE Canonical[list[i].id] # ""
    <3>1. Raised(list, tenths, i) = 10 * s + (IF s < 0 THEN -s ELSE s) * tenths
      BY <2>1, <2>4 DEF Raised, Lifted
    <3> QED
      BY <2>2, <3>1
  <2> QED
    BY <2>3, <2>4
<1>5. g \in [1 .. Len(list) -> Int] /\ \A i \in 1 .. Len(list) : g[i] = Raised(list, tenths, i)
  BY <1>2, <1>4
<1>6. [i \in 1 .. Len(list) |->
          [list[i] EXCEPT !.score = IF Canonical[list[i].id] = "" THEN 10 * @
                                    ELSE Lifted(@, tenths)]] = Rescored(list, g)
  <2>1. ASSUME NEW i \in 1 .. Len(list)
        PROVE  [list[i] EXCEPT !.score = IF Canonical[list[i].id] = "" THEN 10 * @
                                         ELSE Lifted(@, tenths)]
               = [list[i] EXCEPT !.score = g[i]]
    BY <1>3, <1>5 DEF Raised
  <2> QED
    BY <2>1 DEF Rescored
<1>7. Boosted(list, tenths) = Best(Rescored(list, g))
  BY <1>6 DEF Boosted
<1> QED
  BY <1>5, <1>7

LEMMA BoostKeeps ==
    ASSUME RetrievalInv, Boost
    PROVE  Listing(hits')
<1>1. Listing(hits)
  BY DEF RetrievalInv, Boost
<1>2. PICK tenths \in Tenths : hits' = Boosted(hits, tenths)
  BY DEF Boost
<1>3. CASE tenths = 0
  BY <1>1, <1>2, <1>3 DEF Boosted
<1>4. CASE tenths # 0
  <2>1. PICK g \in [1 .. Len(hits) -> Int] : Boosted(hits, tenths) = Best(Rescored(hits, g))
    BY <1>1, <1>4, BoostedForm
  <2>2. Listing(Rescored(hits, g))
    BY <1>1, RescoredForm
  <2> QED
    BY <1>2, <2>1, <2>2, BestForm
<1> QED
  BY <1>3, <1>4

\* hybrid_search: while it runs, a chunk is listed once, and what is ranked
\* is sorted, whatever the searches answer.
THEOREM RetrievalInvariant == RetrievalSpec => []RetrievalInv
<1>1. RetrievalInit => RetrievalInv
  BY EmptyForm, RetrievalAssumption DEF RetrievalInit, RetrievalInv
<1>2. ASSUME RetrievalInv, [RetrievalNext]_retrievalVars PROVE RetrievalInv'
  <2>1. CASE Ask
    <3>1. Listing(hits)' /\ NoDebts(hits)'
      BY <1>2, <2>1, AskKeeps DEF Listing, NoDebts
    <3>2. asked' \in 0 .. MaxQueries
      BY <1>2, <2>1, RetrievalAssumption DEF RetrievalInv, Ask
    <3> QED
      BY <1>2, <2>1, <3>1, <3>2 DEF RetrievalInv, Ask
  <2>2. CASE AskFails
    BY <1>2, <2>2 DEF RetrievalInv, AskFails
  <2>3. CASE Rank
    <3>1. /\ Listing(hits)'
          /\ (\A i, j \in 1 .. Len(hits) : i < j => hits[i].score >= hits[j].score)'
      BY <1>2, <2>3, RankKeeps DEF Listing
    <3> QED
      BY <1>2, <2>3, <3>1 DEF RetrievalInv, Rank
  <2>4. CASE Boost
    <3>1. Listing(hits)'
      BY <1>2, <2>4, BoostKeeps DEF Listing
    <3> QED
      BY <1>2, <2>4, <3>1 DEF RetrievalInv, Boost
  <2>5. CASE Cap
    BY <1>2, <2>5 DEF RetrievalInv, Cap
  <2>6. CASE UNCHANGED retrievalVars
    BY <1>2, <2>6 DEF RetrievalInv, retrievalVars, Listing, NoDebts
  <2> QED
    BY <1>2, <2>1, <2>2, <2>3, <2>4, <2>5, <2>6 DEF RetrievalNext
<1> QED
  BY <1>1, <1>2, PTL DEF RetrievalSpec

-----------------------------------------------------------------------------
(* The properties.                                                         *)

LEMMA AskAgrees ==
    ASSUME RetrievalInv, Ask, NEW x, NEW y,
           \A c \in Channels : NotBehind(x, y, answer'[c]),
           \E c \in Channels : Ahead(answer'[c], x, y),
           NotBehind(x, y, Best(hits))
    PROVE  Ahead(Best(hits'), x, y)
<1>1. /\ Listing(hits') /\ answer'["bm25"] \in Rankings /\ answer'["knn"] \in Rankings
      /\ Listing(Fused(answer')) /\ NoDebts(Fused(answer')) /\ hits' = Added(hits, Fused(answer'))
  BY AskKeeps
<1>2. search \in Calls /\ Listing(hits) /\ NoDebts(hits)
  BY DEF RetrievalInv, Ask
<1>3. PICK ans : ans = answer'
  OBVIOUS
<1>4. x # y /\ Leading(Fused(ans), x, y)
  BY <1>1, <1>2, <1>3, FusedForm
<1>5. Ahead(Best(hits), x, y) \/ Missing(Best(hits), x, y)
  BY <1>2, <1>4, BestForm, LeadingForm
<1>6. Leading(hits, x, y) \/ Missing(hits, x, y)
  BY <1>2, <1>5, BestForm DEF Missing
<1>7. PICK f : f = Fused(ans) /\ Listing(f) /\ NoDebts(f) /\ Leading(f, x, y) /\ hits' = Added(hits, f)
  BY <1>1, <1>3, <1>4
<1>8. Leading(Added(hits, f), x, y)
  BY <1>2, <1>6, <1>7, AddedLeads
<1> QED
  BY <1>1, <1>7, <1>8, BestForm

\* A boost below one keeps the order of scores, and never lowers one.
LEMMA LiftedForm ==
    ASSUME NEW s \in Int, NEW t \in Int, s >= t, NEW tenths \in 0 .. 9
    PROVE  Lifted(s, tenths) >= Lifted(t, tenths) /\ Lifted(s, tenths) >= 10 * t
           /\ Lifted(s, tenths) \in Int
<1>1. ASSUME NEW u \in Int PROVE Lifted(u, tenths) \in Int /\ Lifted(u, tenths) >= 10 * u
  <2>1. CASE u >= 0
    <3>1. u * tenths >= 0 /\ u * tenths \in Int
      BY <2>1
    <3> QED
      BY <2>1, <3>1 DEF Lifted
  <2>2. CASE u < 0
    <3>1. (-u) * tenths >= 0 /\ (-u) * tenths \in Int
      BY <2>2
    <3> QED
      BY <2>2, <3>1 DEF Lifted
  <2> QED
    BY <2>1, <2>2
<1>2. Lifted(s, tenths) >= Lifted(t, tenths)
  <2>1. \A k \in Nat : k * tenths <= 9 * k /\ k * tenths \in Nat
    OBVIOUS
  <2>2. PICK d \in Nat : s = t + d
    <3>1. s - t \in Nat /\ s = t + (s - t)
      OBVIOUS
    <3> QED
      BY <3>1
  <2>3. CASE t >= 0
    <3>1. s * tenths = t * tenths + d * tenths
      BY <2>2
    <3>2. d * tenths \in Nat /\ t * tenths \in Nat
      BY <2>1, <2>3
    <3> QED
      BY <2>2, <2>3, <3>1, <3>2 DEF Lifted
  <2>4. CASE t < 0 /\ s >= 0
    <3>1. s * tenths \in Nat /\ (-t) * tenths <= 9 * (-t) /\ (-t) * tenths \in Nat
      BY <2>1, <2>4
    <3> QED
      BY <2>4, <3>1 DEF Lifted
  <2>5. CASE t < 0 /\ s < 0
    <3>1. (-t) * tenths = (-s) * tenths + d * tenths
      BY <2>2
    <3>2. d * tenths <= 9 * d /\ d * tenths \in Nat /\ (-s) * tenths \in Nat
      BY <2>1, <2>5
    <3> QED
      BY <2>2, <2>5, <3>1, <3>2 DEF Lifted
  <2> QED
    BY <2>3, <2>4, <2>5
<1>3. Lifted(s, tenths) \in Int /\ Lifted(s, tenths) >= 10 * s
  BY <1>1
<1> QED
  BY <1>2, <1>3

\* If one of two chunks gains by the boost, it is not y alone.
Favoured(x, y) == Canonical[x] # "" \/ Canonical[y] = ""

LEMMA BoostLifts ==
    ASSUME RetrievalInv, Boost, NEW x, NEW y,
           Ahead(hits, x, y), Favoured(x, y)
    PROVE  Ahead(hits', x, y)
<1>1. /\ Listing(hits)
      /\ \A i, j \in 1 .. Len(hits) : i < j => hits[i].score >= hits[j].score
  BY DEF RetrievalInv, Boost
<1>2. PICK tenths \in Tenths : hits' = Boosted(hits, tenths)
  BY DEF Boost
<1>3. CASE tenths = 0
  BY <1>2, <1>3 DEF Boosted
<1>4. CASE tenths # 0
  <2>1. PICK g \in [1 .. Len(hits) -> Int] :
           /\ \A i \in 1 .. Len(hits) : g[i] = Raised(hits, tenths, i)
           /\ Boosted(hits, tenths) = Best(Rescored(hits, g))
    BY <1>1, <1>4, BoostedForm
  <2>2. PICK r : r = Rescored(hits, g)
    OBVIOUS
  <2>3. /\ Listing(r) /\ ChunksOf(r) = ChunksOf(hits)
        /\ \A z \in ChunksOf(hits) : Place(r, z) = Place(hits, z) /\ ScoreOf(r, z) = g[Place(hits, z)]
    BY <1>1, <2>2, RescoredForm
  <2>4. x \in ChunksOf(hits) /\ (y \in ChunksOf(hits) => Place(hits, x) < Place(hits, y))
    BY <1>1, LeadingForm
  <2>5. ASSUME y \in ChunksOf(hits)
        PROVE  ScoreOf(r, x) >= ScoreOf(r, y) /\ ScoreOf(r, x) \in Int /\ ScoreOf(r, y) \in Int
    <3>1. PICK i \in 1 .. Len(hits), j \in 1 .. Len(hits) :
             i = Place(hits, x) /\ j = Place(hits, y) /\ hits[i].id = x /\ hits[j].id = y /\ i < j
      BY <1>1, <2>4, <2>5, PlaceForm
    <3>2. PICK s \in Int, t \in Int : s = hits[i].score /\ t = hits[j].score
      BY <1>1, EntryForm
    <3>3. s >= t
      BY <1>1, <3>1, <3>2
    <3>4. tenths \in 0 .. 9
      BY RetrievalAssumption
    <3>5. Lifted(s, tenths) >= Lifted(t, tenths) /\ Lifted(s, tenths) >= 10 * t
      BY <3>3, <3>4, LiftedForm
    <3>6. /\ g[i] = IF Canonical[x] = "" THEN 10 * s ELSE Lifted(s, tenths)
          /\ g[j] = IF Canonical[y] = "" THEN 10 * t ELSE Lifted(t, tenths)
      BY <2>1, <3>1, <3>2 DEF Raised
    <3>7. g[i] >= g[j]
      <4>1. 10 * s >= 10 * t
        BY <3>3
      <4>2. CASE Canonical[x] = ""
        <5>1. g[i] = 10 * s /\ g[j] = 10 * t
          BY <3>6, <4>2 DEF Favoured
        <5> QED
          BY <4>1, <5>1, Zenon
      <4>3. CASE Canonical[x] # "" /\ Canonical[y] = ""
        <5>1. g[i] = Lifted(s, tenths) /\ g[j] = 10 * t
          BY <3>6, <4>3
        <5> QED
          BY <3>5, <5>1, Zenon
      <4>4. CASE Canonical[x] # "" /\ Canonical[y] # ""
        <5>1. g[i] = Lifted(s, tenths) /\ g[j] = Lifted(t, tenths)
          BY <3>6, <4>4
        <5> QED
          BY <3>5, <5>1
      <4> QED
        BY <4>2, <4>3, <4>4
    <3> QED
      BY <2>3, <2>4, <2>5, <3>1, <3>7
  <2>6. Leading(r, x, y)
    <3>1. x \in ChunksOf(r) /\ (y \in ChunksOf(r) => Place(r, x) < Place(r, y))
      BY <2>3, <2>4
    <3>2. ASSUME y \in ChunksOf(r)
          PROVE  ScoreOf(r, x) > ScoreOf(r, y) \/ ScoreOf(r, x) = ScoreOf(r, y)
      <4>1. PICK a \in Int, b \in Int : a = ScoreOf(r, x) /\ b = ScoreOf(r, y) /\ a >= b
        BY <2>3, <2>5, <3>2
      <4>2. a > b \/ a = b
        BY <4>1
      <4> QED
        BY <4>1, <4>2
    <3> QED
      BY <2>3, <3>1, <3>2, LeadingForm
  <2> QED
    BY <1>2, <2>1, <2>2, <2>3, <2>6, BestForm
<1> QED
  BY <1>3, <1>4

\* _rrf_search and the merging of variants, apply_canonical_boost: whatever
\* the rankings, the weights and the scores of the cross-encoder, a chunk that
\* no query puts behind another and one puts before it comes out before it,
\* and the boost moves a chunk with a canonical id never back.
THEOREM RankingFairAlways == RetrievalSpec => RankingFair
<1> DEFINE Agree == \A x, y \in Chunk :
                       /\ \A c \in Channels : NotBehind(x, y, answer'[c])
                       /\ \E c \in Channels : Ahead(answer'[c], x, y)
                       /\ NotBehind(x, y, Best(hits))
                       => Ahead(Best(hits'), x, y)
           Lift == \A x, y \in Chunk :
                      /\ Ahead(hits, x, y)
                      /\ Canonical[x] # "" \/ Canonical[y] = ""
                      => Ahead(hits', x, y)
<1>1. ASSUME RetrievalInv, RetrievalNext PROVE asked' > asked => Agree
  <2>1. CASE Ask
    BY <1>1, <2>1, AskAgrees
  <2>2. CASE AskFails \/ Rank \/ Boost \/ Cap
    <3>1. asked' = asked /\ asked \in Int
      BY <1>1, <2>2, RetrievalAssumption DEF RetrievalInv, AskFails, Rank, Boost, Cap
    <3> QED
      BY <3>1
  <2> QED
    BY <1>1, <2>1, <2>2 DEF RetrievalNext
<1>2. ASSUME RetrievalInv, RetrievalNext PROVE stage' = "boosted" /\ stage = "ranked" => Lift
  <2>1. CASE Boost
    BY <1>1, <1>2, <2>1, BoostLifts DEF Favoured
  <2>2. CASE Ask \/ AskFails \/ Rank \/ Cap
    BY <1>2, <2>2 DEF Ask, AskFails, Rank, Cap
  <2> QED
    BY <1>2, <2>1, <2>2 DEF RetrievalNext
<1>3. RetrievalInv /\ [RetrievalNext]_retrievalVars => [asked' > asked => Agree]_retrievalVars
  BY <1>1
<1>4. RetrievalInv /\ [RetrievalNext]_retrievalVars =>
         [stage' = "boosted" /\ stage = "ranked" => Lift]_retrievalVars
  BY <1>2
<1> QED
  BY <1>3, <1>4, RetrievalInvariant, PTL DEF RetrievalSpec, RankingFair, VariantsAgree, BoostNeverHurts
=============================================================================
