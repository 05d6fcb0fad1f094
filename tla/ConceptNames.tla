---------------------------- MODULE ConceptNames ----------------------------
(***************************************************************************)
(* How names find concepts (graph/store.py).  A concept is known by its    *)
(* normalized name within a namespace, the category of the document; the   *)
(* empty namespace matches every other.  Its slug is unique in the whole   *)
(* graph: the name, or, where another concept has that slug, the name with *)
(* the namespace appended.  Extraction matches neither aliases nor         *)
(* embeddings; merging hands the names and the curation of one concept on  *)
(* to another and deletes it.  Every action is one transaction.            *)
(*                                                                         *)
(* A name is a sequence of words and appending a word stands for `--' and  *)
(* the suffix, so that a name may spell the slug of another concept.  A    *)
(* row without a namespace but with a category is like one with that       *)
(* namespace (_row_namespace).  Merges of several losers are merges of one *)
(* after the other; those refused for their kinds or a cycle of relations  *)
(* are merges that do not take place.                                      *)
(***************************************************************************)
EXTENDS Naturals, Sequences, FiniteSets

CONSTANTS
    Name,         \* normalized names (base_slug), sequences of words
    Space,        \* namespaces, Global among them
    Global,       \* the empty namespace
    MaxConcepts   \* bound: concepts that are ever inserted

ASSUME NameAssumption == \A nm \in Name : nm \in Seq({nm[k] : k \in 1 .. Len(nm)})
ASSUME SpaceAssumption == Global \in Space
ASSUME BoundAssumption == MaxConcepts \in Nat

NoAlias == <<>>
ASSUME AliasAssumption == NoAlias \notin Name

VARIABLES
    rows,      \* concepts: id -> name, namespace and slug
    alias,     \* concept_aliases: pairs of an id and a name
    curation,  \* concept_curation: slug -> prose; 0 is a label without prose,
               \* other prose is that written for the concept with that id
    next,      \* the next id
    into       \* history: the concept each one has become by merges

namesVars == <<rows, alias, curation, next, into>>

NamesInit ==
    /\ rows = <<>> /\ alias = {} /\ curation = <<>>
    /\ next = 1 /\ into = <<>>

Ids == DOMAIN rows

-----------------------------------------------------------------------------
(* Lookups.  Each returns a set with at most one id, or a set of several.  *)

\* _scope_matches.
InScope(i, n) == n = Global \/ rows[i].space \in {Global, n}

\* find_concept_by_slug without a namespace.
BySlug(slug) == {i \in Ids : rows[i].slug = slug}

\* find_concepts_by_base_slug.
ByName(nm, n) == {i \in Ids : rows[i].name = nm /\ InScope(i, n)}

\* A row only where there is exactly one.
Single(S) == IF Cardinality(S) = 1 THEN S ELSE {}

\* _match_existing with match_by_alias off: the concept a store updates.
Match(nm, n) ==
    LET exact == {i \in BySlug(nm) : InScope(i, n)}
    IN  IF exact # {} THEN exact ELSE Single(ByName(nm, n))

\* find_concept_by_alias: no alias decides against a name.
ByAlias(nm, n) ==
    LET owners == {i \in Ids : <<i, nm>> \in alias /\ InScope(i, n)}
    IN  IF ByName(nm, n) \subseteq owners THEN Single(owners) ELSE {}

\* Mutant of Lookup: an exact slug comes before the names.
LookupSlugFirst(nm, n) ==
    LET exact == BySlug(nm)
    IN  IF exact # {} THEN exact
        ELSE IF ByName(nm, n) # {} THEN Single(ByName(nm, n)) ELSE ByAlias(nm, n)

\* get_concept: what the end of a relation, or a reader, means by a name.
\* find_concept_by_slug with a namespace falls back to the names, which
\* have been looked at before.
Lookup(nm, n) ==
    LET exact == {i \in BySlug(nm) : InScope(i, n)}
    IN  IF ByName(nm, n) # {} THEN Single(ByName(nm, n))
        ELSE IF exact # {} THEN exact
        ELSE ByAlias(nm, n)

-----------------------------------------------------------------------------
(* Storing a concept: upsert_concept, and add_alias for an alias of it.    *)

Scoped(nm, n, k) == Append(nm, <<n, k>>)

Taken(slug) == BySlug(slug) # {}

\* The slug of a new row. A global row finds its slug free: whatever had it
\* would have matched, so the suffix `--global' is never given.
FreshSlug(nm, n) ==
    IF ~Taken(nm) THEN nm
    ELSE Scoped(nm, n, CHOOSE k \in 1 .. next :
                           /\ ~Taken(Scoped(nm, n, k))
                           /\ \A j \in 1 .. (k - 1) : Taken(Scoped(nm, n, j)))

\* add_alias: another concept's name, slug or alias is refused.
AddAlias(i, a, R) ==
    IF \/ a = NoAlias
       \/ \E j \in DOMAIN R \ {i} : a \in {R[j].name, R[j].slug} \/ <<j, a>> \in alias
    THEN {} ELSE {<<i, a>>}

StoreKnown(nm, n, a) ==
    \E i \in Match(nm, n) :
        /\ alias' = alias \cup AddAlias(i, a, rows)
        /\ UNCHANGED <<rows, curation, next, into>>

StoreNew(nm, n, a) ==
    /\ Match(nm, n) = {}
    /\ next <= MaxConcepts
    /\ rows' = [i \in Ids \cup {next} |->
                   IF i = next THEN [name |-> nm, space |-> n, slug |-> FreshSlug(nm, n)]
                   ELSE rows[i]]
    /\ alias' = alias \cup AddAlias(next, a, rows')
    /\ into' = [i \in DOMAIN into \cup {next} |-> IF i = next THEN next ELSE into[i]]
    /\ next' = next + 1
    /\ UNCHANGED curation

-----------------------------------------------------------------------------
(* Curation and merging.                                                   *)

Curated(i) == rows[i].slug \in DOMAIN curation
Prose(i) == IF Curated(i) THEN curation[rows[i].slug] ELSE 0

\* graph_curate: an item without prose keeps the prose there is.  Which
\* label it gives matters to nothing here.
Curate(i, written) ==
    /\ curation' = [s \in DOMAIN curation \cup {rows[i].slug} |->
                       IF s # rows[i].slug THEN curation[s]
                       ELSE IF written THEN i ELSE Prose(i)]
    /\ UNCHANGED <<rows, alias, next, into>>

\* Mutant of Inherited: only prose is handed on.
InheritedProse(w, l) ==
    IF Prose(w) = 0 /\ Prose(l) # 0 THEN {Prose(l)}
    ELSE IF Curated(w) THEN {Prose(w)} ELSE {}

\* The curation of the winner after a merge, if any.
Inherited(w, l) ==
    IF Prose(w) # 0 THEN {Prose(w)}
    ELSE IF Curated(w) \/ Curated(l) THEN {Prose(l)} ELSE {}

\* The curation a merge deletes with the loser.
Dropped(l) == {rows[l].slug}

\* Mutant of HandedOn: the name itself is not handed on.
HandedOnAliases(w, l) == {<<w, p[2]>> : p \in {q \in alias : q[1] = l}}

\* The loser's name and aliases, now aliases of the winner, whoever has them.
HandedOn(w, l) == {<<w, a>> : a \in {rows[l].name} \cup {p[2] : p \in {q \in alias : q[1] = l}}}

\* The aliases that are deleted with the row of the loser.
Cascade(l) == {p \in alias : p[1] = l}

Merge(w, l) ==
    /\ w # l
    /\ LET inherited == Inherited(w, l)
           kept == (DOMAIN curation \ (Dropped(l) \cup {rows[w].slug}))
                       \cup (IF inherited = {} THEN {} ELSE {rows[w].slug})
       IN  curation' = [s \in kept |-> IF s = rows[w].slug
                                       THEN CHOOSE c \in inherited : TRUE
                                       ELSE curation[s]]
    /\ alias' = (alias \ Cascade(l)) \cup HandedOn(w, l)
    /\ rows' = [i \in Ids \ {l} |-> rows[i]]
    /\ into' = [i \in DOMAIN into |-> IF into[i] = l THEN w ELSE into[i]]
    /\ UNCHANGED next

NamesNext ==
    \/ \E nm \in Name, n \in Space, a \in Name \cup {NoAlias} :
           StoreKnown(nm, n, a) \/ StoreNew(nm, n, a)
    \/ \E i \in Ids, written \in BOOLEAN : Curate(i, written)
    \/ \E w, l \in Ids : Merge(w, l)

NamesSpec == NamesInit /\ [][NamesNext]_namesVars

-----------------------------------------------------------------------------
(* Properties.                                                             *)

NamesTypeOK ==
    /\ next \in 1 .. (MaxConcepts + 1)
    /\ Ids \subseteq 1 .. (next - 1)
    /\ \A i \in Ids : rows[i].name \in Name /\ rows[i].space \in Space
    /\ alias \subseteq Ids \X Name
    /\ \A s \in DOMAIN curation : curation[s] \in 0 .. (next - 1)
    /\ DOMAIN into = 1 .. (next - 1) /\ \A i \in DOMAIN into : into[i] \in Ids

\* One name in one namespace is one concept, however chunks of several
\* categories, merges and freed slugs follow each other: a repeated
\* extraction never splits a concept in two (upsert_concept).
OneRow ==
    \A i, j \in Ids :
        rows[i].name = rows[j].name /\ rows[i].space = rows[j].space => i = j

\* A payload names a concept twice, where it stores it and at the end of a
\* relation. The two ways of looking it up, _match_existing and get_concept,
\* never mean two different concepts, unless the name spells the slug that
\* another name was given.
LookupAgrees ==
    \A nm \in Name, n \in Space :
        /\ \A i \in BySlug(nm) : rows[i].name = nm
        /\ Match(nm, n) # {} /\ Lookup(nm, n) # {}
        => Match(nm, n) = Lookup(nm, n)

\* Curation is filed under the slug: it never passes to a stranger that is
\* given a freed slug, and never outlives its concept.
CurationOwned ==
    \A s \in DOMAIN curation :
        \E i \in Ids : /\ rows[i].slug = s
                       /\ curation[s] # 0 => into[curation[s]] = i

\* Names by which a concept is known are never lost: what it is merged into
\* has them all.
NamesOf(i) == {rows[i].name} \cup {a \in Name : <<i, a>> \in alias}

NamesKept ==
    [][\A i \in Ids, j \in 1 .. MaxConcepts :
          into'[i] = j => NamesOf(i) \subseteq NamesOf(j)']_namesVars

\* A concept that was judged stays judged and one with prose keeps prose,
\* also through merges (merge_concepts carries both over).
CurationKept ==
    [][\A i \in Ids, j \in 1 .. MaxConcepts :
          into'[i] = j => /\ Curated(i) => Curated(j)'
                          /\ Prose(i) # 0 => Prose(j)' # 0]_namesVars

\* The curation of a concept follows it, and nothing else, wherever merges
\* lead it and whoever is given its slug (merge_concepts).
CurationFollows == []CurationOwned /\ CurationKept
=============================================================================
