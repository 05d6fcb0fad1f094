----------------------------- MODULE Retrieval -----------------------------
(***************************************************************************)
(* hybrid_search (retrieve.py): a question and its variants are asked of   *)
(* Elasticsearch one after another, each as a BM25 and a kNN ranking in    *)
(* one msearch; the two are fused by reciprocal rank or by a weighted sum  *)
(* of the normalized scores, the queries are merged by adding the scores   *)
(* of a chunk, the cross-encoder may score everything anew, chunks with a  *)
(* canonical id are boosted, and at most MaxPerDoc chunks of a group come  *)
(* before the rest.                                                        *)
(*                                                                         *)
(* Scores are whole numbers, in parts of `Unit': exact where Unit is a     *)
(* common multiple of what the code divides by, so that equal scores are   *)
(* equal and the order of insertion decides, as Python's stable sort has   *)
(* it.  What a ranking holds is external: any of Rankings, none longer     *)
(* than candidate_k.  Filters, texts, timings, the log and the neighbours  *)
(* are left out.                                                           *)
(***************************************************************************)
EXTENDS Integers, FiniteSets, Sequences

CONSTANTS
    Chunk,
    Doc,            \* [Chunk -> document]
    Canonical,      \* [Chunk -> canonical id, or "" for none]
    Version,        \* [Chunk -> what its legal fields say, or "" for none]
    Rankings,       \* what a search may find: [id, score] by score, the best first
    Calls,          \* arguments in use: fusion, lexical_weight in halves, rerank
    TopK,           \* top_k: length of the result
    MaxPerDoc,      \* MAX_CHUNKS_PER_DOC
    MaxQueries,     \* the question and its variants
    RerankScores,   \* scores the cross-encoder gives
    Tenths,         \* canonical_boost, in tenths: 0 .. 9
    Unit            \* what a score of 1 counts as

ASSUME RetrievalAssumption ==
    /\ Chunk # {} /\ IsFiniteSet(Chunk)
    /\ \A r \in Rankings :
          /\ r \in Seq([id : Chunk, score : Nat \ {0}])
          /\ \A i, j \in 1 .. Len(r) :
                i < j => r[i].id # r[j].id /\ r[i].score >= r[j].score
    /\ Calls \subseteq [fusion : {"rrf", "linear"}, lexical : 0 .. 2, rerank : BOOLEAN]
    /\ TopK \in Nat \ {0} /\ MaxPerDoc \in Nat \ {0}
    /\ MaxQueries \in 1 .. 4
    /\ RerankScores \subseteq Int
    /\ Tenths \subseteq 0 .. 9 /\ Unit \in Nat

VARIABLES
    search,   \* the call's arguments
    group,    \* canonical_group, an argument too: fixed where it is used
    asked,    \* queries answered so far
    answer,   \* the rankings of the last query
    hits,     \* `merged', later `candidates': chunks with their scores, in order
    stage     \* "asking", "ranked", "boosted", "done", "failed"

retrievalVars == <<search, group, asked, answer, hits, stage>>

----------------------------------------------------------------------------
RRFK == 60

\* What the entry at `i' of ranking `r' adds to its chunk.
Share(fusion, weight, r, i) ==
    IF fusion = "rrf" THEN Unit \div (RRFK + i)
    ELSE (weight * r[i].score * Unit) \div (2 * r[1].score)

\* Some positions, each with as many before it as R says.
Arranged(S, R) ==
    [p \in 1 .. Cardinality(S) |->
        CHOOSE i \in S : Cardinality({j \in S : <<j, i>> \in R}) = p - 1]

Ascending(S) == Arranged(S, {q \in S \X S : q[1] < q[2]})

\* sorted(..., key=-score), which keeps the order of equals.
Precedes(list, i, j) ==
    list[i].score > list[j].score \/ (list[i].score = list[j].score /\ i < j)

Best(list) ==
    LET all == 1 .. Len(list)
        order == Arranged(all, {q \in all \X all : Precedes(list, q[1], q[2])})
    IN  [p \in all |-> list[order[p]]]

ChunksOf(list) == {list[i].id : i \in 1 .. Len(list)}

\* The place of a chunk in a list; behind all when it is not there.
Place(list, x) ==
    IF x \in ChunksOf(list) THEN CHOOSE i \in 1 .. Len(list) : list[i].id = x ELSE Len(list) + 1

ScoreOf(list, x) == IF x \in ChunksOf(list) THEN list[Place(list, x)].score ELSE 0

\* What `part' has that `list' has not, in the order of `part'.
Others(list, part) ==
    LET order == Ascending({i \in 1 .. Len(part) : part[i].id \notin ChunksOf(list)})
    IN  [k \in 1 .. Len(order) |-> part[order[k]]]

\* Mutant of Added: a query replaces the scores of the one before it.
AddedReplacing(list, part) ==
    [i \in 1 .. Len(list) |->
        IF list[i].id \in ChunksOf(part) THEN part[Place(part, list[i].id)] ELSE list[i]]
    \o Others(list, part)

\* Adds `part' to the scores of `list': a chunk it has gains, others are
\* appended.
Added(list, part) ==
    [i \in 1 .. Len(list) |-> [list[i] EXCEPT !.score = @ + ScoreOf(part, list[i].id)]]
    \o Others(list, part)

\* _rrf_search: a channel of weight 0 is not looked at.
Weight(c) == IF c = "bm25" THEN search.lexical ELSE 2 - search.lexical

Scored(ans, c) ==
    IF search.fusion = "linear" /\ Weight(c) = 0 THEN <<>>
    ELSE [i \in 1 .. Len(ans[c]) |->
            [id |-> ans[c][i].id, score |-> Share(search.fusion, Weight(c), ans[c], i)]]

Fused(ans) == Best(Added(Scored(ans, "bm25"), Scored(ans, "knn")))

\* canonical_group_key: versions of one law are groups of their own; chunks
\* without an id fall back to their document.
GroupOf(x, byCanonical) ==
    IF byCanonical /\ Canonical[x] # "" THEN <<"id", Canonical[x], Version[x]>>
    ELSE <<"doc", Doc[x]>>

\* _cap_per_doc: positions taken in order while the group has room and the
\* result too, then the skipped ones.
WithinCap(list, byCanonical) ==
    LET key(i) == GroupOf(list[i].id, byCanonical)
        fits[i \in 0 .. Len(list)] ==      \* those taken among the first i
            IF i = 0 THEN {}
            ELSE LET before == fits[i - 1] IN
                 IF /\ Cardinality(before) < TopK
                    /\ Cardinality({j \in before : key(j) = key(i)}) < MaxPerDoc
                 THEN before \cup {i} ELSE before
    IN  fits[Len(list)]

Capped(list, byCanonical) ==
    LET taken == WithinCap(list, byCanonical)
        order == Ascending(taken) \o Ascending((1 .. Len(list)) \ taken)
        all == [i \in 1 .. Len(order) |-> list[order[i]]]
    IN  SubSeq(all, 1, IF Len(all) < TopK THEN Len(all) ELSE TopK)

\* Mutant of Lifted: the score times 1 + boost.
LiftedPlain(score, tenths) == 10 * score + score * tenths

\* apply_canonical_boost: a fraction of the magnitude, so that a negative
\* score improves as well.
Lifted(score, tenths) == 10 * score + (IF score < 0 THEN -score ELSE score) * tenths

Boosted(list, tenths) ==
    IF tenths = 0 THEN list
    ELSE Best([i \in 1 .. Len(list) |->
                 [list[i] EXCEPT !.score = IF Canonical[list[i].id] = "" THEN 10 * @
                                           ELSE Lifted(@, tenths)]])

----------------------------------------------------------------------------
NoAnswer == [bm25 |-> <<>>, knn |-> <<>>]

RetrievalInit ==
    /\ search \in Calls
    /\ group = FALSE
    /\ asked = 0
    /\ answer = NoAnswer
    /\ hits = <<>>
    /\ stage = "asking"

\* One query: msearch answers with both rankings, fused and merged into what
\* the queries before it found.
Ask ==
    /\ stage = "asking"
    /\ asked < MaxQueries
    /\ \E r, s \in Rankings :
          /\ answer' = [bm25 |-> r, knn |-> s]
          /\ hits' = Added(hits, Fused(answer'))
    /\ asked' = asked + 1
    /\ UNCHANGED <<search, group, stage>>

\* A timeout, an error or a partial answer raises: there is no result.
AskFails ==
    /\ stage = "asking"
    /\ asked < MaxQueries
    /\ stage' = "failed"
    /\ UNCHANGED <<search, group, asked, answer, hits>>

\* All queries are answered; the candidates are sorted, and rescored by the
\* cross-encoder when that is asked for.
Rank ==
    /\ stage = "asking"
    /\ asked > 0
    /\ IF search.rerank
       THEN LET sorted == Best(hits) IN
            \E f \in [1 .. Len(hits) -> RerankScores] :
               hits' = Best([i \in 1 .. Len(hits) |-> [sorted[i] EXCEPT !.score = f[i]]])
       ELSE hits' = Best(hits)
    /\ answer' = NoAnswer
    /\ stage' = "ranked"
    /\ UNCHANGED <<search, group, asked>>

Boost ==
    /\ stage = "ranked"
    /\ \E tenths \in Tenths : hits' = Boosted(hits, tenths)
    /\ stage' = "boosted"
    /\ UNCHANGED <<search, group, asked, answer>>

Cap ==
    /\ stage = "boosted"
    /\ \E byCanonical \in BOOLEAN :
          /\ group' = byCanonical
          /\ hits' = Capped(hits, byCanonical)
    /\ stage' = "done"
    /\ UNCHANGED <<search, asked, answer>>

RetrievalNext == Ask \/ AskFails \/ Rank \/ Boost \/ Cap
RetrievalSpec == RetrievalInit /\ [][RetrievalNext]_retrievalVars
----------------------------------------------------------------------------
Ahead(list, x, y) == Place(list, x) < Place(list, y)

NotBehind(x, y, r) == Place(r, x) <= Place(r, y)

\* The channels of a query that count.
Channels == {c \in {"bm25", "knn"} :
                search.fusion = "rrf" \/ c = (IF search.lexical = 0 THEN "knn" ELSE "bm25")
                \/ search.lexical = 1}

\* A chunk that is not behind another so far and that another query does not
\* put behind it in any channel, and before it in one, comes out before it:
\* fusing and adding up variants never turns what all agree on.
VariantsAgree ==
    [][asked' > asked =>
          LET before == Best(hits)
              after == Best(hits')
          IN  \A x, y \in Chunk :
                /\ \A c \in Channels : NotBehind(x, y, answer'[c])
                /\ \E c \in Channels : Ahead(answer'[c], x, y)
                /\ NotBehind(x, y, before)
                => Ahead(after, x, y)]_retrievalVars

\* The boost moves a chunk with a canonical id forward or not at all, with
\* negative cross-encoder scores too: it stays before all it was before, and
\* chunks without an id keep their order.
BoostNeverHurts ==
    [][stage' = "boosted" /\ stage = "ranked" => \A x, y \in Chunk :
          /\ Ahead(hits, x, y)
          /\ Canonical[x] # "" \/ Canonical[y] = ""
          => Ahead(hits', x, y)]_retrievalVars

(* A search ranks by what its queries agree on, and the boost only lifts.  *)
RankingFair == VariantsAgree /\ BoostNeverHurts
============================================================================
