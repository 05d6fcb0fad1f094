----------------------------- MODULE MCServing -----------------------------
(* What clients of the server store and get: the chunks of a document      *)
(* (Chunking), vectors of images and audio (MediaSync), names of concepts  *)
(* (ConceptNames), the graph (GraphReads), the access policy               *)
(* (AccessPolicy) and the ranking of a search (Retrieval).  They meet in a *)
(* request but share no state that changes: a behaviour is one of them,    *)
(* chosen at the start, and the others stand still.                        *)
EXTENDS MCConceptNames, GraphReads, AccessPolicy, Retrieval, Chunking, MediaSync, TLC

CONSTANTS ann, bob, team

VARIABLE scene

servingVars == <<scene, namesVars, readsVars, accessVars, retrievalVars, chunkingVars, mediaVars>>

\* GraphReads: a cycle of is_a, an edge across, one edge with two sources.
Ev(s, d, r, doc) == [src |-> s, dst |-> d, rel |-> r, doc |-> doc]
MCRow ==
    {Ev(1, 2, Transitive, "open"), Ev(2, 3, Transitive, "open"), Ev(2, 3, Transitive, "hidden"),
     Ev(3, 4, Transitive, "hidden"), Ev(4, 1, Transitive, "open"),
     Ev(1, 3, Symmetric, "open")}

\* Concept 4 has a mention in an open document, its edges may have none.
MCMention == {[id |-> 4, doc |-> "open"], [id |-> 3, doc |-> "hidden"]}

Request(kind, roots, goal, steps, restricted) ==
    [kind |-> kind, roots |-> roots, goal |-> goal, depth |-> steps, restricted |-> restricted]

MCRequests ==
    {Request("subgraph", r, 0, 2, b) : r \in {<<1>>, <<2, 4>>}, b \in BOOLEAN}
    \cup {Request("affected", <<n>>, 0, 2, FALSE) : n \in {1, 3}}
    \cup {Request("path", <<1>>, 4, s, b) : s \in {1, 3}, b \in BOOLEAN}
    \cup {Request("directed path", <<1>>, n, 3, FALSE) : n \in {1, 4}}
    \cup {Request(k, <<1>>, 0, 3, b) : k \in {"up", "down"}, b \in BOOLEAN}

\* AccessPolicy: folders in folders, and a policy that opens what the other
\* one closes.
Home == <<>>
Data == <<"data">>
Study == <<"data", "study">>
Key == <<"data", "study", "key">>
RuleSet(read, write, groups) == [read |-> read, write |-> write, groups |-> groups, admin |-> {}]
Nested ==
    RuleSet(Home :> {} @@ Data :> {team} @@ Study :> {} @@ Key :> {ann},
          Home :> {} @@ Data :> {} @@ Study :> {bob} @@ Key :> {}, ann :> {team} @@ bob :> {})
Wide ==
    RuleSet(Home :> {Anyone} @@ Data :> {} @@ Study :> {bob},
          Home :> {} @@ Data :> {} @@ Study :> {}, ann :> {} @@ bob :> {team})
MCPolicy == {Nested, Wide}
MCResource ==
    {Home, Data, Study, Key, <<"data", "key">>, <<"data", "study", "x">>, <<"obsidian">>}
Alike == Permutations(Thread) \cup Permutations(Client)

\* Retrieval: three chunks of one document, the third in the group of another.
MCDoc == [c \in Chunk |-> IF c = "b1" THEN "b" ELSE "a"]
MCCanonicalId == [c \in Chunk |-> IF c \in {"a3", "b1"} THEN "k" ELSE ""]
MCVersion == [c \in Chunk |-> ""]
Two(c, s, d, t) == <<[id |-> c, score |-> s], [id |-> d, score |-> t]>>
MCRankings ==
    {<<>>, <<[id |-> "a1", score |-> 1]>>, Two("a1", 2, "a2", 2), Two("a2", 2, "a1", 1),
     Two("b1", 2, "a3", 1), Two("a3", 2, "a2", 1), Two("a1", 2, "b1", 1)}
\* A common multiple of 61, 62, twice the best scores and the halves of a weight.
MCUnit == 2 * 61 * 62 * 2
MCCalls ==
    [fusion : {"rrf"}, lexical : {1}, rerank : BOOLEAN]
    \cup [fusion : {"linear"}, lexical : {1, 2}, rerank : {FALSE}]
MCRerankScores == {-2, 1}

\* Chunking: documents of headings and paragraphs, short and too long for one
\* chunk; documents with code; documents with tables.
Line(kind, level, tokens) == [kind |-> kind, level |-> level, tokens |-> tokens]
Blank == Line("blank", 0, 1)
Prose2 == Line("prose", 0, 2)
Prose6 == Line("prose", 0, 6)
MCProse == {Line("heading", 1, 1), Line("heading", 2, 1), Blank, Prose2, Prose6}
MCCode == {Line("fence", 0, 1), Line("heading", 1, 1), Line("break", 0, 1), Blank, Prose6}
MCTables == {Line("row", 0, 1), Line("rule", 0, 1), Line("fence", 0, 1), Blank, Prose6}
MCAlphabet == {MCProse, MCCode, MCTables}

\* MediaSync: one image and one recording (2), in the library at the start.
MCParts == [c \in Content |-> IF c = "short" THEN 1 ELSE 2]

\* Only in the scene that plays do inputs vary.  In a rebuild the edges of an
\* older graph are served; to those who may read all it is a graph like others.
ServingInit ==
    /\ scene \in {"names", "graph", "access", "search", "document", "media"}
    /\ ReadsInit
    /\ served \in {EdgesOf(evidence), EdgesOf({r \in Row : r.doc = "open"})}
    /\ ~request.restricted => served = EdgesOf(evidence)
    /\ scene # "graph" =>
          evidence = {} /\ served = {} /\ request = Request("subgraph", <<1>>, 0, 2, FALSE)
    /\ MediaInit
    /\ library \in [Medium -> Content] /\ library[1] = "short"
    /\ scene # "media" => library[2] = "short"
    /\ AccessInit /\ (scene # "access" => history = <<Broken>>)
    /\ RetrievalInit /\ (scene # "search" => search.fusion = "rrf" /\ ~search.rerank)
    /\ NamesInit /\ ChunkingInit

ServingNext ==
    /\ UNCHANGED scene
    /\ \/ scene = "names" /\ NamesNext /\ UNCHANGED <<readsVars, accessVars, retrievalVars, chunkingVars, mediaVars>>
       \/ scene = "graph" /\ ReadsNext /\ UNCHANGED <<namesVars, accessVars, retrievalVars, chunkingVars, mediaVars>>
       \/ scene = "access" /\ AccessNext /\ UNCHANGED <<namesVars, readsVars, retrievalVars, chunkingVars, mediaVars>>
       \/ scene = "search" /\ RetrievalNext /\ UNCHANGED <<namesVars, readsVars, accessVars, chunkingVars, mediaVars>>
       \/ scene = "document" /\ ChunkingNext /\ UNCHANGED <<namesVars, readsVars, accessVars, retrievalVars, mediaVars>>
       \/ scene = "media" /\ MediaNext /\ UNCHANGED <<namesVars, readsVars, accessVars, retrievalVars, chunkingVars>>

ServingSpec == ServingInit /\ [][ServingNext]_servingVars
============================================================================
