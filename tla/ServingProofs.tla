---------------------------- MODULE ServingProofs ----------------------------
(***************************************************************************)
(* Proofs about what clients of the server store and get: the names of     *)
(* concepts (ConceptNames), the access policy (AccessPolicy), the vectors  *)
(* of images and audio (MediaSync) and the chunks of a document            *)
(* (Chunking), for any names, namespaces, policies, resources, files,      *)
(* documents, sizes, and number of concepts, threads, clients and edits.   *)
(*                                                                         *)
(* Names: a name in a namespace is one concept, merging loses no name, a   *)
(* curation stays with its concept, and the lookups agree.  OneRow is not  *)
(* inductive.  That a store which matches nothing finds no row of its own  *)
(* name and namespace needs GlobalPlain: a row without a namespace has the *)
(* plain slug, so it is found by slug and is not one of several rows of    *)
(* the name.  The curation of a concept is stored under its slug.          *)
(* CurationInv says that slugs are unique, and that the slug a curation is *)
(* under is the one its concept has, or had when it was merged.  That the  *)
(* suffix search of FreshSlug ends in a free slug is a pigeonhole          *)
(* argument: the rows take fewer slugs than there are suffixes to try.     *)
(*                                                                         *)
(* Policy: that the filter of a search and the listing of folders agree    *)
(* with the decision rests on one fact about paths: two rules that match   *)
(* the same resource are on one line, the shorter contains the longer.     *)
(* Freshness rests on an inductive invariant: what a stamp is filed with,  *)
(* in the cache or by a request, was read after the stamp was taken.       *)
(*                                                                         *)
(* Media: see MediaInv.                                                    *)
(*                                                                         *)
(* Chunks: see ChunkingInv.  Its heart is Kept: whatever loop runs, each   *)
(* token of the document is in something that is still to be read or in    *)
(* something that was put down.  Total is a recursive function; what holds *)
(* of it for every length is shown at the least length where it would not. *)
(***************************************************************************)
EXTENDS ConceptNames, AccessPolicy, MediaSync, Chunking, TLAPS, FiniteSetTheorems,
        SequenceTheorems, WellFoundedInduction

-----------------------------------------------------------------------------
(* ConceptNames.                                                           *)

\* Rows have ids below the next one, and a row that exists was not merged.
Numbered ==
    /\ next \in Nat \ {0}
    /\ Ids \subseteq 1 .. (next - 1)
    /\ DOMAIN into = 1 .. (next - 1)
    /\ \A i \in Ids : into[i] = i
    /\ \A i \in Ids : rows[i].name \in Name

\* A concept without a namespace has the plain slug.
GlobalPlain == \A i \in Ids : rows[i].space = Global => rows[i].slug = rows[i].name

NamesInv == Numbered /\ GlobalPlain /\ OneRow

\* A store that matches no row is about a name that its namespace does not
\* have, and, without a namespace, about a slug that is free.
LEMMA NoMatch ==
    ASSUME NamesInv, NEW nm \in Name, NEW n \in Space, Match(nm, n) = {}
    PROVE  /\ \A i \in Ids : ~(rows[i].name = nm /\ rows[i].space = n)
           /\ n = Global => FreshSlug(nm, n) = nm
<1>1. {i \in BySlug(nm) : InScope(i, n)} = {}
  BY DEF Match
<1>2. Single(ByName(nm, n)) = {}
  BY <1>1 DEF Match
<1>3. \A i \in Ids : rows[i].slug = nm => rows[i].space # Global /\ n # Global
  BY <1>1 DEF BySlug, InScope
<1>4. n = Global => FreshSlug(nm, n) = nm
  BY <1>3 DEF FreshSlug, Taken, BySlug
<1>5. ASSUME NEW i \in Ids, rows[i].name = nm, rows[i].space = n
      PROVE  FALSE
  <2>1. n # Global
    BY <1>3, <1>5 DEF NamesInv, GlobalPlain
  <2>2. ByName(nm, n) = {i}
    BY <1>3, <1>5 DEF ByName, InScope, NamesInv, GlobalPlain, OneRow
  <2>3. Cardinality(ByName(nm, n)) = 1
    BY <2>2, FS_Singleton
  <2> QED
    BY <1>2, <2>2, <2>3 DEF Single
<1> QED
  BY <1>4, <1>5

\* The first state satisfies the invariant.
LEMMA NamesInvInit == NamesInit => NamesInv
BY DEF NamesInit, NamesInv, Numbered, GlobalPlain, OneRow, Ids

\* Storing a new name keeps the invariant.
LEMMA StoreNewInv ==
    ASSUME NamesInv, NEW nm \in Name, NEW n \in Space, NEW a, StoreNew(nm, n, a)
    PROVE  NamesInv'
<1> DEFINE new == [name |-> nm, space |-> n, slug |-> FreshSlug(nm, n)]
<1>1. /\ Match(nm, n) = {}
      /\ rows' = [i \in Ids \cup {next} |-> IF i = next THEN new ELSE rows[i]]
      /\ into' = [i \in DOMAIN into \cup {next} |-> IF i = next THEN next ELSE into[i]]
      /\ next' = next + 1
  BY DEF StoreNew
<1>2. Ids' = Ids \cup {next} /\ next \notin Ids
  BY <1>1 DEF Ids, NamesInv, Numbered
<1>3. rows'[next] = new /\ \A i \in Ids : rows'[i] = rows[i]
  BY <1>1, <1>2
<1> HIDE DEF new
<1>4. new.name = nm /\ new.space = n /\ new.slug = FreshSlug(nm, n)
  BY DEF new
<1>5. Numbered'
  <2>1. next' \in Nat \ {0} /\ Ids' \subseteq 1 .. (next' - 1)
    BY <1>1, <1>2 DEF NamesInv, Numbered
  <2>2. DOMAIN into' = 1 .. (next' - 1)
    BY <1>1 DEF NamesInv, Numbered
  <2>3. \A i \in Ids' : into'[i] = i
    BY <1>1, <1>2 DEF NamesInv, Numbered
  <2>4. \A i \in Ids' : rows'[i].name \in Name
    BY <1>2, <1>3, <1>4 DEF NamesInv, Numbered
  <2> QED
    BY <2>1, <2>2, <2>3, <2>4 DEF Numbered
<1>6. GlobalPlain'
  BY <1>1, <1>2, <1>3, <1>4, NoMatch DEF GlobalPlain, NamesInv
<1>7. OneRow'
  BY <1>1, <1>2, <1>3, <1>4, NoMatch DEF OneRow, NamesInv
<1> QED
  BY <1>5, <1>6, <1>7 DEF NamesInv

\* A merge keeps the invariant.
LEMMA MergeInv ==
    ASSUME NamesInv, NEW w \in Ids, NEW l \in Ids, Merge(w, l)
    PROVE  NamesInv'
<1>1. /\ w # l
      /\ rows' = [i \in Ids \ {l} |-> rows[i]]
      /\ into' = [i \in DOMAIN into |-> IF into[i] = l THEN w ELSE into[i]]
      /\ next' = next
  BY DEF Merge
<1>2. Ids' = Ids \ {l} /\ \A i \in Ids' : rows'[i] = rows[i]
  BY <1>1 DEF Ids
<1>3. Numbered'
  BY <1>1, <1>2 DEF NamesInv, Numbered
<1>4. GlobalPlain' /\ OneRow'
  BY <1>2 DEF NamesInv, GlobalPlain, OneRow
<1> QED
  BY <1>3, <1>4 DEF NamesInv

\* Every step keeps the invariant.
LEMMA NamesInvStep == NamesInv /\ [NamesNext]_namesVars => NamesInv'
<1> SUFFICES ASSUME NamesInv, [NamesNext]_namesVars
             PROVE  NamesInv'
  OBVIOUS
<1>1. ASSUME UNCHANGED <<rows, next, into>>
      PROVE  NamesInv'
  BY <1>1 DEF NamesInv, Numbered, GlobalPlain, OneRow, Ids
<1>2. ASSUME NEW nm \in Name, NEW n \in Space, NEW a, StoreKnown(nm, n, a)
      PROVE  NamesInv'
  BY <1>1, <1>2 DEF StoreKnown
<1>3. ASSUME NEW i \in Ids, NEW written \in BOOLEAN, Curate(i, written)
      PROVE  NamesInv'
  BY <1>1, <1>3 DEF Curate
<1>4. CASE UNCHANGED namesVars
  BY <1>1, <1>4 DEF namesVars
<1> QED
  BY <1>2, <1>3, <1>4, StoreNewInv, MergeInv DEF NamesNext

\* The invariant of the names always holds.
THEOREM NamesInvariant == NamesSpec => []NamesInv
BY NamesInvInit, NamesInvStep, PTL DEF NamesSpec

\* However many categories store a name, and whatever is merged in between,
\* a name in a namespace stays one concept (upsert_concept).
THEOREM OneRowAlways == NamesSpec => []OneRow
<1>1. NamesInv => OneRow
  BY DEF NamesInv
<1> QED
  BY <1>1, NamesInvariant, PTL

\* No step loses a name of a concept: what it is merged into has them all.
LEMMA NamesKeptStep ==
    ASSUME NamesInv, [NamesNext]_namesVars,
           NEW i \in Ids, NEW j \in 1 .. MaxConcepts, into'[i] = j
    PROVE  NamesOf(i) \subseteq NamesOf(j)'
<1>1. i \in DOMAIN into /\ into[i] = i
  BY DEF NamesInv, Numbered
<1>2. ASSUME alias \subseteq alias', into' = into, i \in Ids', rows'[i] = rows[i]
      PROVE  NamesOf(i) \subseteq NamesOf(j)'
  BY <1>1, <1>2 DEF NamesOf
<1>3. ASSUME NEW nm \in Name, NEW n \in Space, NEW a, StoreKnown(nm, n, a)
      PROVE  NamesOf(i) \subseteq NamesOf(j)'
  BY <1>2, <1>3 DEF StoreKnown, Ids
<1>4. ASSUME NEW nm \in Name, NEW n \in Space, NEW a, StoreNew(nm, n, a)
      PROVE  NamesOf(i) \subseteq NamesOf(j)'
  <2>1. i # next /\ next \notin DOMAIN into
    BY DEF NamesInv, Numbered
  <2>2. into'[i] = i /\ rows'[i] = rows[i] /\ alias \subseteq alias'
    BY <1>1, <1>4, <2>1 DEF StoreNew
  <2> QED
    BY <2>2 DEF NamesOf
<1>5. ASSUME NEW k \in Ids, NEW written \in BOOLEAN, Curate(k, written)
      PROVE  NamesOf(i) \subseteq NamesOf(j)'
  BY <1>2, <1>5 DEF Curate, Ids
<1>6. ASSUME NEW w \in Ids, NEW l \in Ids, Merge(w, l)
      PROVE  NamesOf(i) \subseteq NamesOf(j)'
  <2>1. /\ w # l
        /\ into' = [k \in DOMAIN into |-> IF into[k] = l THEN w ELSE into[k]]
        /\ rows' = [k \in Ids \ {l} |-> rows[k]]
        /\ alias' = (alias \ Cascade(l)) \cup HandedOn(w, l)
    BY <1>6 DEF Merge
  <2>2. CASE i = l
    <3>1. j = w
      BY <1>1, <2>1, <2>2
    <3>2. ASSUME NEW a \in NamesOf(i)
          PROVE  <<w, a>> \in HandedOn(w, l) /\ (a \in Name \/ a = rows[l].name)
      BY <2>2, <3>2 DEF NamesOf, HandedOn
    <3>3. rows[l].name \in Name
      BY DEF NamesInv, Numbered
    <3> QED
      BY <2>1, <3>1, <3>2, <3>3 DEF NamesOf
  <2>3. CASE i # l
    <3>1. j = i /\ rows'[i] = rows[i]
      BY <1>1, <2>1, <2>3
    <3>2. \A a : <<i, a>> \in alias => <<i, a>> \in alias'
      BY <2>1, <2>3 DEF Cascade
    <3> QED
      BY <3>1, <3>2 DEF NamesOf
  <2> QED
    BY <2>2, <2>3
<1>7. CASE UNCHANGED namesVars
  BY <1>2, <1>7 DEF namesVars, Ids
<1> QED
  BY <1>3, <1>4, <1>5, <1>6, <1>7 DEF NamesNext

\* Merging hands on every name a concept was known by, its own and those it
\* got from earlier merges (_merge_concepts).
THEOREM NamesKeptAlways == NamesSpec => NamesKept
<1>1. NamesInv /\ [NamesNext]_namesVars =>
          [\A i \in Ids, j \in 1 .. MaxConcepts :
              into'[i] = j => NamesOf(i) \subseteq NamesOf(j)']_namesVars
  BY NamesKeptStep
<1> QED
  BY <1>1, NamesInvariant, PTL DEF NamesSpec, NamesKept

-----------------------------------------------------------------------------
(* The curation of a concept is filed under its slug, so that it follows    *)
(* the concept needs that no two concepts ever have one slug: of the `next' *)
(* suffixes that are tried, at least one is free.                           *)

UniqueSlugs == \A i, j \in Ids : rows[i].slug = rows[j].slug => i = j

\* The least element of a nonempty set of numbers.
LEMMA Least ==
    ASSUME NEW S \in SUBSET Nat, S # {}
    PROVE  \E m \in S : \A t \in S : m <= t
<1> DEFINE T == {0 .. s : s \in S}
<1>1. T \subseteq FiniteSubsetsOf(Nat) /\ T # {}
  <2>1. \A s \in S : 0 .. s \subseteq Nat /\ IsFiniteSet(0 .. s)
    BY FS_Interval
  <2> QED
    BY <2>1 DEF FiniteSubsetsOf
<1>2. PICK y \in T : \A z \in T : <<z, y>> \notin StrictSubsetOrdering(Nat)
  BY <1>1, FS_StrictSubsetOrderingWellFounded, WFMin
<1>3. PICK m \in S : y = 0 .. m
  BY <1>2
<1>4. ASSUME NEW t \in S, t < m PROVE FALSE
  <2>1. 0 .. t \subseteq 0 .. m /\ m \in 0 .. m /\ m \notin 0 .. t
    BY <1>4
  <2>2. <<0 .. t, 0 .. m>> \in StrictSubsetOrdering(Nat)
    BY <2>1 DEF StrictSubsetOrdering
  <2> QED
    BY <1>2, <1>3, <2>2
<1> QED
  BY <1>4

\* Slugs with different suffixes differ.
LEMMA ScopedDiffer ==
    ASSUME NEW nm \in Name, NEW n, NEW k \in Nat, NEW m \in Nat, Scoped(nm, n, k) = Scoped(nm, n, m)
    PROVE  k = m
<1> DEFINE W == {nm[h] : h \in 1 .. Len(nm)}
           V == W \cup {<<n, k>>, <<n, m>>}
<1>1. nm \in Seq(W)
  BY NameAssumption
<1> HIDE DEF W
<1>2. nm \in Seq(V)
  <2>1. Len(nm) \in Nat /\ nm \in [1 .. Len(nm) -> W]
    BY <1>1, LenProperties
  <2>2. nm \in [1 .. Len(nm) -> V]
    BY <2>1
  <2> QED
    BY <2>1, <2>2, SeqDef
<1>3. /\ Scoped(nm, n, k)[Len(nm) + 1] = <<n, k>>
      /\ Scoped(nm, n, m)[Len(nm) + 1] = <<n, m>>
  BY <1>2, AppendProperties DEF Scoped
<1> QED
  BY <1>3

\* Of `next' different slugs the fewer rows leave one free, and the one that
\* is given to a new row is the first of them.
LEMMA FreshIsFree ==
    ASSUME Numbered, NEW nm \in Name, NEW n
    PROVE  ~Taken(FreshSlug(nm, n))
<1> DEFINE Free == {k \in 1 .. next : ~Taken(Scoped(nm, n, k))}
<1>1. next \in Nat \ {0} /\ Ids \subseteq 1 .. (next - 1)
  BY DEF Numbered
<1>2. Free # {}
  <2> SUFFICES ASSUME \A k \in 1 .. next : Taken(Scoped(nm, n, k)) PROVE FALSE
    OBVIOUS
  <2> DEFINE f == [k \in 1 .. next |-> CHOOSE i \in Ids : rows[i].slug = Scoped(nm, n, k)]
  <2>1. \A k \in 1 .. next : f[k] \in Ids /\ rows[f[k]].slug = Scoped(nm, n, k)
    BY DEF Taken, BySlug
  <2>2. f \in [1 .. next -> 1 .. (next - 1)]
    BY <1>1, <2>1
  <2> HIDE DEF f
  <2>3. /\ IsFiniteSet(1 .. next) /\ IsFiniteSet(1 .. (next - 1))
        /\ Cardinality(1 .. (next - 1)) < Cardinality(1 .. next)
    <3>1. IsFiniteSet(1 .. next) /\ Cardinality(1 .. next) = next
      BY <1>1, FS_Interval
    <3>2. IsFiniteSet(1 .. (next - 1)) /\ Cardinality(1 .. (next - 1)) = next - 1
      BY <1>1, FS_Interval
    <3> QED
      BY <1>1, <3>1, <3>2
  <2>4. PICK k, m \in 1 .. next : k # m /\ f[k] = f[m]
    BY <2>2, <2>3, FS_PigeonHole
  <2>5. Scoped(nm, n, k) = Scoped(nm, n, m)
    BY <2>1, <2>4
  <2>6. k \in Nat /\ m \in Nat
    BY <1>1
  <2> QED
    BY <2>4, <2>5, <2>6, ScopedDiffer
<1>3. PICK m \in Free : \A t \in Free : m <= t
  <2>1. Free \in SUBSET Nat
    BY <1>1
  <2> HIDE DEF Free
  <2> QED
    BY <1>2, <2>1, Least
<1>4. /\ m \in 1 .. next /\ ~Taken(Scoped(nm, n, m))
      /\ \A j \in 1 .. (m - 1) : Taken(Scoped(nm, n, j))
  <2>1. m \in 1 .. next /\ ~Taken(Scoped(nm, n, m))
    BY <1>3
  <2>2. ASSUME NEW j \in 1 .. (m - 1), ~Taken(Scoped(nm, n, j)) PROVE FALSE
    <3>1. j \in 1 .. next /\ j < m
      BY <1>1, <2>1
    <3>2. m <= j
      BY <1>3, <2>2, <3>1
    <3> QED
      BY <1>1, <2>1, <3>1, <3>2
  <2> QED
    BY <2>1, <2>2
<1> DEFINE First(k) == /\ ~Taken(Scoped(nm, n, k))
                       /\ \A j \in 1 .. (k - 1) : Taken(Scoped(nm, n, j))
           chosen == CHOOSE k \in 1 .. next : First(k)
<1>5. First(chosen)
  BY <1>4
<1>6. FreshSlug(nm, n) = IF ~Taken(nm) THEN nm ELSE Scoped(nm, n, chosen)
  BY DEF FreshSlug
<1> HIDE DEF chosen
<1> QED
  BY <1>5, <1>6

\* What is curated, and for which concept.
CurationNumbered == \A s \in DOMAIN curation : curation[s] \in 0 .. (next - 1)

CurationInv == NamesInv /\ UniqueSlugs /\ CurationNumbered /\ CurationOwned

\* A concept's curation is the one filed under its slug, written for it.
LEMMA OwnProse ==
    ASSUME CurationInv, NEW i \in Ids, Prose(i) # 0
    PROVE  Curated(i) /\ Prose(i) = curation[rows[i].slug] /\ into[Prose(i)] = i
<1>1. Curated(i) /\ Prose(i) = curation[rows[i].slug]
  BY DEF Prose
<1>2. rows[i].slug \in DOMAIN curation
  BY <1>1 DEF Curated
<1>3. PICK k \in Ids : rows[k].slug = rows[i].slug /\ into[Prose(i)] = k
  BY <1>1, <1>2 DEF CurationInv, CurationOwned
<1> QED
  BY <1>1, <1>3 DEF CurationInv, UniqueSlugs

\* What a step may do to the curation of a concept.
Carries(i, j) == (Curated(i) => Curated(j)') /\ (Prose(i) # 0 => Prose(j)' # 0)

\* A store neither takes a slug that is in use nor touches curation.
LEMMA StoreCuration ==
    ASSUME CurationInv, NEW nm \in Name, NEW n \in Space, NEW a,
           StoreKnown(nm, n, a) \/ StoreNew(nm, n, a)
    PROVE  /\ UniqueSlugs' /\ CurationOwned'
           /\ \A i \in Ids : \A j : into'[i] = j => Carries(i, j)
<1>1. CASE StoreKnown(nm, n, a)
  <2>1. UNCHANGED <<rows, curation, into>>
    BY <1>1 DEF StoreKnown
  <2>2. \A i \in Ids : into[i] = i
    BY DEF CurationInv, NamesInv, Numbered
  <2> QED
    BY <2>1, <2>2 DEF CurationInv, UniqueSlugs, CurationOwned, Ids, Carries, Curated, Prose
<1>2. CASE StoreNew(nm, n, a)
  <2> DEFINE new == [name |-> nm, space |-> n, slug |-> FreshSlug(nm, n)]
  <2>1. /\ rows' = [i \in Ids \cup {next} |-> IF i = next THEN new ELSE rows[i]]
        /\ into' = [i \in DOMAIN into \cup {next} |-> IF i = next THEN next ELSE into[i]]
        /\ curation' = curation
    BY <1>2 DEF StoreNew
  <2>2. /\ next \notin Ids /\ next \notin DOMAIN into /\ Ids \subseteq DOMAIN into
        /\ \A i \in Ids : into[i] = i
    BY DEF CurationInv, NamesInv, Numbered
  <2>3. Ids' = Ids \cup {next} /\ rows'[next].slug = FreshSlug(nm, n)
        /\ \A i \in Ids : rows'[i] = rows[i]
    BY <2>1, <2>2 DEF Ids
  <2> HIDE DEF new
  <2>4. \A i \in Ids : rows[i].slug # FreshSlug(nm, n)
    BY FreshIsFree DEF Taken, BySlug, CurationInv, NamesInv
  <2>5. UniqueSlugs'
    BY <2>3, <2>4 DEF CurationInv, UniqueSlugs
  <2>6. ASSUME NEW s \in DOMAIN curation'
        PROVE  \E i \in Ids' : /\ rows'[i].slug = s
                               /\ curation'[s] # 0 => into'[curation'[s]] = i
    <3>1. PICK i \in Ids : rows[i].slug = s /\ (curation[s] # 0 => into[curation[s]] = i)
      BY <2>1 DEF CurationInv, CurationOwned
    <3>2. ASSUME curation[s] # 0 PROVE into'[curation[s]] = i
      <4>2. into[curation[s]] = i
        BY <3>1, <3>2
      <4> QED
        BY <2>1, <2>2, <3>2, <4>2 DEF CurationInv, CurationNumbered, NamesInv, Numbered
    <3> QED
      BY <2>1, <2>3, <3>1, <3>2
  <2>7. CurationOwned'
    BY <2>6 DEF CurationOwned
  <2>8. ASSUME NEW i \in Ids, NEW j, into'[i] = j PROVE Carries(i, j)
    <3>1. j = i /\ rows'[i] = rows[i]
      BY <2>1, <2>2, <2>3, <2>8
    <3> QED
      BY <2>1, <3>1 DEF Carries, Curated, Prose
  <2> QED
    BY <2>5, <2>7, <2>8
<1> QED
  BY <1>1, <1>2

\* graph_curate files what was written for a concept under its own slug.
LEMMA CurateCuration ==
    ASSUME CurationInv, NEW k \in Ids, NEW written \in BOOLEAN, Curate(k, written)
    PROVE  /\ UniqueSlugs' /\ CurationOwned'
           /\ \A i \in Ids : \A j : into'[i] = j => Carries(i, j)
<1> DEFINE slug == rows[k].slug
           text == IF written THEN k ELSE Prose(k)
<1>1. /\ curation' = [s \in DOMAIN curation \cup {slug} |->
                         IF s # slug THEN curation[s] ELSE text]
      /\ UNCHANGED <<rows, into>>
  BY DEF Curate
<1>2. Ids' = Ids /\ Ids \subseteq Nat \ {0} /\ \A i \in Ids : into[i] = i
  BY <1>1 DEF Ids, CurationInv, NamesInv, Numbered
<1>3. text # 0 => into[text] = k
  BY <1>2, OwnProse
<1>4. Prose(k) # 0 => text # 0
  BY <1>2
<1> HIDE DEF text
<1>5. /\ DOMAIN curation' = DOMAIN curation \cup {slug}
      /\ curation'[slug] = text
      /\ \A s \in DOMAIN curation \ {slug} : curation'[s] = curation[s]
  BY <1>1
<1> HIDE DEF slug
<1>6. UniqueSlugs'
  BY <1>1, <1>2 DEF CurationInv, UniqueSlugs
<1>7. ASSUME NEW s \in DOMAIN curation'
      PROVE  \E i \in Ids' : /\ rows'[i].slug = s
                             /\ curation'[s] # 0 => into'[curation'[s]] = i
  <2>1. CASE s = slug
    BY <1>1, <1>2, <1>3, <1>5, <2>1 DEF slug
  <2>2. CASE s # slug
    <3>1. s \in DOMAIN curation /\ curation'[s] = curation[s]
      BY <1>5, <1>7, <2>2
    <3>2. PICK i \in Ids : rows[i].slug = s /\ (curation[s] # 0 => into[curation[s]] = i)
      BY <3>1 DEF CurationInv, CurationOwned
    <3> QED
      BY <1>1, <1>2, <3>1, <3>2
  <2> QED
    BY <2>1, <2>2
<1>8. CurationOwned'
  BY <1>7 DEF CurationOwned
<1>9. ASSUME NEW i \in Ids, NEW j, into'[i] = j PROVE Carries(i, j)
  <2>1. j = i /\ rows'[i] = rows[i]
    BY <1>1, <1>2, <1>9
  <2>2. Curated(i) => Curated(i)'
    BY <1>5, <2>1 DEF Curated
  <2>3. Prose(i) # 0 => Prose(i)' # 0
    <3>1. CASE rows[i].slug = slug
      <4>1. i = k
        BY <3>1 DEF slug, CurationInv, UniqueSlugs
      <4> QED
        BY <1>4, <1>5, <2>1, <3>1, <4>1 DEF Prose, Curated
    <3>2. CASE rows[i].slug # slug
      BY <1>5, <2>1, <3>2 DEF Prose, Curated
    <3> QED
      BY <3>1, <3>2
  <2> QED
    BY <2>1, <2>2, <2>3 DEF Carries
<1> QED
  BY <1>6, <1>8, <1>9

\* A merge hands the curation of the loser on where the winner lacks it, and
\* deletes what is filed under the loser's slug, which is nobody else's.
LEMMA MergeCuration ==
    ASSUME CurationInv, NEW w \in Ids, NEW l \in Ids, Merge(w, l)
    PROVE  /\ UniqueSlugs' /\ CurationOwned'
           /\ \A i \in Ids : \A j : into'[i] = j => Carries(i, j)
<1> DEFINE win == rows[w].slug
           lose == rows[l].slug
           left == Inherited(w, l)
           kept == (DOMAIN curation \ (Dropped(l) \cup {win}))
                       \cup (IF left = {} THEN {} ELSE {win})
           text == CHOOSE c \in left : TRUE
<1>1. /\ w # l
      /\ curation' = [s \in kept |-> IF s = win THEN text ELSE curation[s]]
      /\ rows' = [i \in Ids \ {l} |-> rows[i]]
      /\ into' = [i \in DOMAIN into |-> IF into[i] = l THEN w ELSE into[i]]
  BY DEF Merge
<1>2. /\ Ids' = Ids \ {l} /\ \A i \in Ids' : rows'[i] = rows[i]
      /\ \A i \in Ids : into[i] = i /\ i \in DOMAIN into
  BY <1>1 DEF Ids, CurationInv, NamesInv, Numbered
<1>3. \A i \in Ids : /\ i # w => rows[i].slug # win
                     /\ i # l => rows[i].slug # lose
  BY DEF CurationInv, UniqueSlugs
<1>4. left # {} => text \in left
  OBVIOUS
<1>5. /\ left # {} => text \in {Prose(w), Prose(l)}
      /\ Curated(w) \/ Curated(l) => left # {}
      /\ Prose(w) # 0 \/ Prose(l) # 0 => left # {} /\ text # 0
  BY <1>4, OwnProse DEF Inherited
<1> HIDE DEF text, left
<1>6. left # {} /\ text # 0 => text \in DOMAIN into /\ into'[text] = w
  <2> SUFFICES ASSUME left # {}, text # 0 PROVE text \in DOMAIN into /\ into'[text] = w
    OBVIOUS
  <2>1. into[text] \in {w, l}
    BY <1>5, OwnProse
  <2>2. text \in DOMAIN into
    <3>1. PICK i \in {w, l} : text = Prose(i)
      BY <1>5
    <3>2. i \in Ids /\ Curated(i) /\ text = curation[rows[i].slug]
      BY <3>1, OwnProse
    <3> QED
      BY <3>2 DEF Curated, CurationInv, CurationNumbered, NamesInv, Numbered
  <2> QED
    BY <1>1, <2>1, <2>2
<1>7. /\ DOMAIN curation' = kept
      /\ left # {} => win \in kept /\ curation'[win] = text
      /\ \A s \in DOMAIN curation : s # win /\ s # lose => s \in kept /\ curation'[s] = curation[s]
      /\ \A s \in kept : s # win => s \in DOMAIN curation /\ s # lose
      /\ win \in kept => left # {}
  BY <1>1 DEF Dropped
<1> HIDE DEF kept
<1>8. UniqueSlugs'
  BY <1>2 DEF CurationInv, UniqueSlugs
<1>9. ASSUME NEW s \in DOMAIN curation'
      PROVE  \E i \in Ids' : /\ rows'[i].slug = s
                             /\ curation'[s] # 0 => into'[curation'[s]] = i
  <2>1. CASE s = win
    BY <1>1, <1>2, <1>6, <1>7, <1>9, <2>1
  <2>2. CASE s # win
    <3>1. s \in DOMAIN curation /\ s # lose /\ curation'[s] = curation[s]
      BY <1>7, <1>9, <2>2
    <3>2. PICK i \in Ids : rows[i].slug = s /\ (curation[s] # 0 => into[curation[s]] = i)
      BY <3>1 DEF CurationInv, CurationOwned
    <3>3. i # l
      BY <3>1, <3>2
    <3>4. curation[s] # 0 => curation[s] \in DOMAIN into
      BY <3>1 DEF CurationInv, CurationNumbered, NamesInv, Numbered
    <3>5. curation[s] # 0 => into'[curation[s]] = i
      BY <1>1, <3>2, <3>3, <3>4
    <3> QED
      BY <1>2, <3>1, <3>2, <3>3, <3>5
  <2> QED
    BY <2>1, <2>2
<1>10. CurationOwned'
  BY <1>9 DEF CurationOwned
<1>11. ASSUME NEW i \in Ids, NEW j, into'[i] = j PROVE Carries(i, j)
  <2>1. j = IF i = l THEN w ELSE i
    BY <1>1, <1>2, <1>11
  <2>2. CASE i \in {w, l}
    <3>1. j = w /\ rows'[w].slug = win
      BY <1>1, <1>2, <2>1, <2>2
    <3>2. Curated(i) => Curated(j)'
      BY <1>5, <1>7, <2>2, <3>1 DEF Curated
    <3>3. Prose(i) # 0 => Prose(j)' # 0
      BY <1>5, <1>7, <2>2, <3>1 DEF Prose, Curated
    <3> QED
      BY <3>2, <3>3 DEF Carries
  <2>3. CASE i \notin {w, l}
    <3>1. j = i /\ rows'[i] = rows[i] /\ rows[i].slug # win /\ rows[i].slug # lose
      BY <1>2, <1>3, <2>1, <2>3
    <3>2. Curated(i) => Curated(i)' /\ curation'[rows[i].slug] = curation[rows[i].slug]
      BY <1>7, <3>1 DEF Curated
    <3> QED
      BY <3>1, <3>2 DEF Carries, Prose, Curated
  <2> QED
    BY <2>2, <2>3
<1> QED
  BY <1>8, <1>10, <1>11

\* Prose is always written for a concept that there was.
LEMMA CurationNumberedStep ==
    ASSUME CurationInv, [NamesNext]_namesVars
    PROVE  CurationNumbered'
<1>1. /\ next \in Nat \ {0} /\ Ids \subseteq 1 .. (next - 1)
      /\ \A s \in DOMAIN curation : curation[s] \in 0 .. (next - 1)
  BY DEF CurationInv, CurationNumbered, NamesInv, Numbered
<1>2. \A i : Prose(i) \in 0 .. (next - 1)
  BY <1>1 DEF Prose, Curated
<1>3. ASSUME curation' = curation, next' \in {next, next + 1} PROVE CurationNumbered'
  BY <1>1, <1>3 DEF CurationNumbered
<1>4. ASSUME NEW nm \in Name, NEW n \in Space, NEW a, StoreKnown(nm, n, a) \/ StoreNew(nm, n, a)
      PROVE  CurationNumbered'
  BY <1>3, <1>4 DEF StoreKnown, StoreNew
<1>5. ASSUME NEW k \in Ids, NEW written \in BOOLEAN, Curate(k, written)
      PROVE  CurationNumbered'
  <2>1. /\ curation' = [s \in DOMAIN curation \cup {rows[k].slug} |->
                           IF s # rows[k].slug THEN curation[s]
                           ELSE IF written THEN k ELSE Prose(k)]
        /\ next' = next
    BY <1>5 DEF Curate
  <2> QED
    BY <1>1, <1>2, <2>1 DEF CurationNumbered
<1>6. ASSUME NEW w \in Ids, NEW l \in Ids, Merge(w, l)
      PROVE  CurationNumbered'
  <2> DEFINE left == Inherited(w, l)
             kept == (DOMAIN curation \ (Dropped(l) \cup {rows[w].slug}))
                         \cup (IF left = {} THEN {} ELSE {rows[w].slug})
             text == CHOOSE c \in left : TRUE
  <2>1. /\ curation' = [s \in kept |-> IF s = rows[w].slug THEN text ELSE curation[s]]
        /\ next' = next
    BY <1>6 DEF Merge
  <2>2. left # {} => text \in 0 .. (next - 1)
    BY <1>2 DEF Inherited
  <2> HIDE DEF left, text
  <2>3. ASSUME NEW s \in kept PROVE curation'[s] \in 0 .. (next - 1)
    BY <1>1, <2>1, <2>2
  <2>4. DOMAIN curation' = kept
    BY <2>1
  <2> HIDE DEF kept
  <2> QED
    BY <2>1, <2>3, <2>4 DEF CurationNumbered
<1>7. CASE UNCHANGED namesVars
  BY <1>3, <1>7 DEF namesVars
<1> QED
  BY <1>4, <1>5, <1>6, <1>7 DEF NamesNext

\* The first state has neither concepts nor curation.
LEMMA CurationInvInit == NamesInit => CurationInv
BY NamesInvInit DEF NamesInit, CurationInv, UniqueSlugs, CurationNumbered, CurationOwned, Ids

\* Every step keeps the curation with its concept.
LEMMA CurationStep ==
    ASSUME CurationInv, [NamesNext]_namesVars
    PROVE  /\ CurationInv'
           /\ UNCHANGED namesVars \/ \A i \in Ids : \A j : into'[i] = j => Carries(i, j)
<1>1. NamesInv' /\ CurationNumbered'
  BY NamesInvStep, CurationNumberedStep DEF CurationInv
<1>2. CASE UNCHANGED namesVars
  BY <1>1, <1>2 DEF namesVars, CurationInv, UniqueSlugs, CurationOwned, Ids
<1>3. CASE NamesNext
  <2>1. UniqueSlugs' /\ CurationOwned' /\ \A i \in Ids : \A j : into'[i] = j => Carries(i, j)
    BY <1>3, StoreCuration, CurateCuration, MergeCuration DEF NamesNext
  <2> QED
    BY <1>1, <2>1 DEF CurationInv
<1> QED
  BY <1>2, <1>3

\* Curation stays with the concept it was written for: no stranger that is
\* given a freed slug gets it, and merges carry it over (merge_concepts).
THEOREM CurationFollowsAlways == NamesSpec => CurationFollows
<1>1. CurationInv /\ [NamesNext]_namesVars => CurationInv'
  BY CurationStep
<1>2. CurationInv => CurationOwned
  BY DEF CurationInv
<1>3. CurationInv /\ [NamesNext]_namesVars =>
        [\A i \in Ids, j \in 1 .. MaxConcepts :
            into'[i] = j => /\ Curated(i) => Curated(j)'
                            /\ Prose(i) # 0 => Prose(j)' # 0]_namesVars
  BY CurationStep DEF Carries
<1> QED
  BY <1>1, <1>2, <1>3, CurationInvInit, PTL DEF NamesSpec, CurationFollows, CurationKept

\* Rows found under a name in a namespace are finitely many.
LEMMA SingleIs ==
    ASSUME NamesInv, NEW S \in SUBSET Ids, Single(S) # {}
    PROVE  \E i \in Ids : S = {i} /\ Single(S) = {i}
<1>1. IsFiniteSet(Ids)
  <2>1. next - 1 \in Int /\ Ids \subseteq 1 .. (next - 1)
    BY DEF NamesInv, Numbered
  <2> QED
    <3>1. 1 \in Int /\ IsFiniteSet(1 .. (next - 1))
      BY <2>1, FS_Interval
    <3> QED
      BY <2>1, <3>1, FS_Subset
<1>2. IsFiniteSet(S)
  BY <1>1, FS_Subset
<1>3. Cardinality(S) = 1 /\ Single(S) = S
  BY DEF Single
<1>4. PICK i : S = {i}
  BY <1>2, <1>3, FS_Singleton
<1> QED
  BY <1>3, <1>4

\* A payload that stores a name, and the end of a relation that spells it,
\* mean one concept, unless the name is the slug another name was given.
THEOREM LookupAgreesAlways == NamesSpec => []LookupAgrees
<1>1. ASSUME NamesInv, NEW nm \in Name, NEW n \in Space,
             \A i \in BySlug(nm) : rows[i].name = nm, Match(nm, n) # {}, Lookup(nm, n) # {}
      PROVE  Match(nm, n) = Lookup(nm, n)
  <2> DEFINE exact == {i \in BySlug(nm) : InScope(i, n)}
             named == ByName(nm, n)
  <2>1. exact \subseteq named /\ named \subseteq Ids
    BY <1>1 DEF BySlug, ByName
  <2>2. /\ Match(nm, n) = IF exact # {} THEN exact ELSE Single(named)
        /\ named # {} => Lookup(nm, n) = Single(named)
    BY DEF Match, Lookup
  <2> HIDE DEF exact, named
  <2>3. named # {}
    BY <1>1, <2>1, <2>2 DEF Single
  <2>4. PICK i \in Ids : named = {i} /\ Single(named) = {i}
    BY <1>1, <2>1, <2>2, <2>3, SingleIs
  <2>5. exact # {} => exact = {i}
    BY <2>1, <2>4
  <2> QED
    BY <2>2, <2>3, <2>4, <2>5
<1>2. NamesInv => LookupAgrees
  BY <1>1 DEF LookupAgrees
<1> QED
  BY <1>2, NamesInvariant, PTL

\* A new alias is one name, of the concept it is added to.
LEMMA AddAliasType ==
    ASSUME NEW i, NEW a \in Name \cup {NoAlias}, NEW R
    PROVE  AddAlias(i, a, R) \subseteq {i} \X Name
BY DEF AddAlias

\* Every step leaves the names well formed.
LEMMA NamesTypeStep ==
    ASSUME NamesInv, NamesTypeOK, CurationNumbered', Numbered', NamesNext
    PROVE  NamesTypeOK'
<1>1. /\ next \in 1 .. (MaxConcepts + 1) /\ alias \subseteq Ids \X Name
      /\ \A i \in Ids : rows[i].name \in Name /\ rows[i].space \in Space
      /\ DOMAIN into = 1 .. (next - 1) /\ \A i \in DOMAIN into : into[i] \in Ids
  BY DEF NamesTypeOK
<1>2. /\ Ids' \subseteq 1 .. (next' - 1) /\ DOMAIN into' = 1 .. (next' - 1)
      /\ \A s \in DOMAIN curation' : curation'[s] \in 0 .. (next' - 1)
      /\ \A i \in Ids' : rows'[i].name \in Name
  BY DEF Numbered, CurationNumbered
<1>3. ASSUME next' \in 1 .. (MaxConcepts + 1), alias' \subseteq Ids' \X Name,
             \A i \in Ids' : rows'[i].space \in Space,
             \A i \in DOMAIN into' : into'[i] \in Ids'
      PROVE  NamesTypeOK'
  BY <1>2, <1>3 DEF NamesTypeOK
<1>4. ASSUME NEW nm \in Name, NEW n \in Space, NEW a \in Name \cup {NoAlias}, StoreKnown(nm, n, a)
      PROVE  NamesTypeOK'
  <2>1. PICK i \in Match(nm, n) : /\ alias' = alias \cup AddAlias(i, a, rows)
                                  /\ UNCHANGED <<rows, curation, next, into>>
    BY <1>4 DEF StoreKnown
  <2>2. i \in Ids /\ Ids' = Ids
    BY <2>1 DEF Match, BySlug, ByName, Single, Ids
  <2>3. alias' \subseteq Ids \X Name
    BY <1>1, <2>1, <2>2, AddAliasType
  <2> QED
    BY <1>1, <1>3, <2>1, <2>2, <2>3
<1>5. ASSUME NEW nm \in Name, NEW n \in Space, NEW a \in Name \cup {NoAlias}, StoreNew(nm, n, a)
      PROVE  NamesTypeOK'
  <2> DEFINE new == [name |-> nm, space |-> n, slug |-> FreshSlug(nm, n)]
  <2>1. /\ rows' = [i \in Ids \cup {next} |-> IF i = next THEN new ELSE rows[i]]
        /\ alias' = alias \cup AddAlias(next, a, rows')
        /\ into' = [i \in DOMAIN into \cup {next} |-> IF i = next THEN next ELSE into[i]]
        /\ next' = next + 1 /\ next <= MaxConcepts
    BY <1>5 DEF StoreNew
  <2>2. Ids' = Ids \cup {next} /\ \A i \in Ids' : rows'[i] = IF i = next THEN new ELSE rows[i]
    BY <2>1 DEF Ids
  <2>3. new.space \in Space
    OBVIOUS
  <2> HIDE DEF new
  <2>4. alias' \subseteq Ids' \X Name
    BY <1>1, <2>1, <2>2, AddAliasType
  <2>5. next' \in 1 .. (MaxConcepts + 1)
    BY <1>1, <2>1, BoundAssumption
  <2>6. \A i \in DOMAIN into' : into'[i] \in Ids'
    BY <1>1, <2>1, <2>2
  <2>7. \A i \in Ids' : rows'[i].space \in Space
    BY <1>1, <2>2, <2>3
  <2> QED
    BY <1>3, <2>4, <2>5, <2>6, <2>7
<1>6. ASSUME NEW k \in Ids, NEW written \in BOOLEAN, Curate(k, written)
      PROVE  NamesTypeOK'
  <2>1. UNCHANGED <<rows, alias, next, into>> /\ Ids' = Ids
    BY <1>6 DEF Curate, Ids
  <2> QED
    BY <1>1, <1>3, <2>1
<1>7. ASSUME NEW w \in Ids, NEW l \in Ids, Merge(w, l)
      PROVE  NamesTypeOK'
  <2>1. /\ w # l
        /\ rows' = [i \in Ids \ {l} |-> rows[i]]
        /\ into' = [i \in DOMAIN into |-> IF into[i] = l THEN w ELSE into[i]]
        /\ alias' = (alias \ Cascade(l)) \cup HandedOn(w, l)
        /\ next' = next
    BY <1>7 DEF Merge
  <2>2. Ids' = Ids \ {l} /\ \A i \in Ids' : rows'[i] = rows[i]
    BY <2>1 DEF Ids
  <2>3. HandedOn(w, l) \subseteq {w} \X Name
    BY <1>1 DEF HandedOn
  <2>4. alias \ Cascade(l) \subseteq Ids' \X Name
    BY <1>1, <2>2 DEF Cascade
  <2>5. alias' \subseteq Ids' \X Name
    BY <2>1, <2>2, <2>3, <2>4
  <2>6. \A i \in DOMAIN into' : into'[i] \in Ids'
    BY <1>1, <2>1, <2>2
  <2> QED
    BY <1>1, <1>3, <2>1, <2>2, <2>5, <2>6
<1> QED
  BY <1>4, <1>5, <1>6, <1>7 DEF NamesNext

\* Rows, aliases and curation are well formed for any names and namespaces.
THEOREM NamesTypeCorrect == NamesSpec => []NamesTypeOK
<1>1. NamesInit => CurationInv /\ NamesTypeOK
  BY CurationInvInit, BoundAssumption DEF NamesInit, NamesTypeOK, Ids
<1>2. CurationInv /\ NamesTypeOK /\ [NamesNext]_namesVars => (CurationInv /\ NamesTypeOK)'
  <2> SUFFICES ASSUME CurationInv, NamesTypeOK, [NamesNext]_namesVars
               PROVE  CurationInv' /\ NamesTypeOK'
    OBVIOUS
  <2>1. CurationInv'
    BY CurationStep
  <2>2. CASE NamesNext
    BY <2>1, <2>2, NamesTypeStep DEF CurationInv, NamesInv
  <2>3. CASE UNCHANGED namesVars
    <3>1. rows' = rows /\ alias' = alias /\ curation' = curation /\ next' = next /\ into' = into
      BY <2>3 DEF namesVars
    <3>2. Ids' = Ids
      BY <3>1 DEF Ids
    <3> QED
      BY <2>1, <3>1, <3>2 DEF NamesTypeOK
  <2> QED
    BY <2>1, <2>2, <2>3
<1> QED
  BY <1>1, <1>2, PTL DEF NamesSpec

-----------------------------------------------------------------------------
(* AccessPolicy.                                                           *)

-----------------------------------------------------------------------------
(* Rules.                                                                  *)

\* A nonempty set of numbers up to n has a greatest element.
LEMMA Greatest ==
    ASSUME NEW n \in Nat, NEW S \in SUBSET (0 .. n), S # {}
    PROVE  \E m \in S : \A k \in S : k <= m
<1> DEFINE D == {n - k : k \in S}
<1>1. D \subseteq Nat
  <2> SUFFICES ASSUME NEW k \in S PROVE n - k \in Nat
    OBVIOUS
  <2>1. k \in 0 .. n
    OBVIOUS
  <2> QED
    BY <2>1
<1>2. D # {}
  OBVIOUS
<1>3. PICK x \in D : \A y \in D : <<y, x>> \notin OpToRel(<, Nat)
  BY <1>1, <1>2, NatLessThanWellFounded, WFMin
<1>4. \A y \in D : ~(y < x)
  BY <1>1, <1>3 DEF OpToRel
<1> QED
  BY <1>4

\* Rules that match the same resource are on one line.
LEMMA OneLine ==
    ASSUME NEW r \in Path, NEW o \in Path, NEW d \in Path,
           Matches(r, d), Matches(o, d), Len(r) <= Len(o)
    PROVE  Matches(r, o)
<1>1. \A k \in 1 .. Len(r) : k \in 1 .. Len(o)
  BY DEF Path
<1> QED
  BY <1>1 DEF Matches

\* Of two paths of which one lies under the other, and is no longer, both are one.
LEMMA TwoPaths ==
    ASSUME NEW r \in Path, NEW o \in Path, Matches(r, o), Len(o) <= Len(r)
    PROVE  r = o
<1>1. Len(r) = Len(o)
  BY DEF Matches, Path
<1> QED
  BY <1>1 DEF Matches, Path

\* Lying under a path is transitive.
LEMMA MatchesTransitive ==
    ASSUME NEW r \in Path, NEW o \in Path, NEW d \in Path, Matches(r, o), Matches(o, d)
    PROVE  Matches(r, d)
<1>1. \A k \in 1 .. Len(r) : k \in 1 .. Len(o)
  BY DEF Path, Matches
<1> QED
  BY <1>1 DEF Matches, Path

\* There is a longest rule that matches, so rule_for is defined.
LEMMA RuleForWorks ==
    ASSUME NEW P \in Policy, NEW d \in Path
    PROVE  /\ RuleFor(P, d) \in Rules(P)
           /\ Matches(RuleFor(P, d), d)
           /\ \A o \in Rules(P) : Matches(o, d) => Len(o) <= Len(RuleFor(P, d))
<1> DEFINE M == {r \in Rules(P) : Matches(r, d)}
           S == {Len(r) : r \in M}
<1>1. Rules(P) \subseteq Path /\ <<>> \in Rules(P)
  BY PolicyAssumption DEF Rules
<1>2. S \subseteq 0 .. Len(d)
  BY <1>1 DEF Matches, Path
<1>3. <<>> \in M
  BY <1>1 DEF Matches, Path
<1>4. S # {}
  BY <1>3
<1>5. \E m \in S : \A k \in S : k <= m
  <2>1. Len(d) \in Nat
    BY DEF Path
  <2> HIDE DEF S
  <2> QED
    BY <1>2, <1>4, <2>1, Greatest
<1>6. \E r \in Rules(P) : Matches(r, d) /\ \A o \in Rules(P) : Matches(o, d) => Len(o) <= Len(r)
  BY <1>5
<1> QED
  BY <1>6 DEF RuleFor

\* For every policy, person and path: the translated filter selects exactly
\* what the longest rule lets be read.
LEMMA FilterDecides ==
    ASSUME NEW P \in Policy, NEW p \in DOMAIN P.groups, NEW d \in Path
    PROVE  Selected(P, p, d) <=> MayRead(P, p, d)
<1> DEFINE m == RuleFor(P, d)
<1>1. /\ m \in Rules(P) /\ Matches(m, d)
      /\ \A o \in Rules(P) : Matches(o, d) => Len(o) <= Len(m)
  BY RuleForWorks
<1>2. Rules(P) \subseteq Path
  BY PolicyAssumption DEF Rules
<1> HIDE DEF m
<1>3. ASSUME NEW r \in Rules(P), Matches(r, d), Reads(P, r, p),
             \A o \in Denied(P, p, r) : ~Matches(o, d)
      PROVE  Reads(P, m, p)
  <2>1. Matches(r, m)
    BY <1>1, <1>2, <1>3, OneLine
  <2>2. CASE m = r
    BY <1>3, <2>2
  <2>3. CASE m # r
    BY <1>1, <1>3, <2>1, <2>3 DEF Denied, Encloses
  <2> QED
    BY <2>2, <2>3
<1>4. ASSUME Reads(P, m, p), NEW o \in Denied(P, p, m), Matches(o, d)
      PROVE  FALSE
  <2>1. o \in Rules(P) /\ o # m /\ Matches(m, o)
    BY <1>4 DEF Denied, Encloses
  <2>2. Len(o) <= Len(m)
    BY <1>1, <1>4, <2>1
  <2> QED
    BY <1>1, <1>2, <2>1, <2>2, TwoPaths
<1>5. MayRead(P, p, d) <=> p \in P.admin \/ Reads(P, m, p)
  BY DEF MayRead, m
<1> QED
  BY <1>1, <1>3, <1>4, <1>5 DEF Selected, ReadsEverything

\* For every policy, person, folder and path below it: what may be read is
\* below a folder that is listed.
LEMMA ListingLeads ==
    ASSUME NEW P \in Policy, NEW p \in DOMAIN P.groups, NEW f \in Path, NEW d \in Path,
           Matches(f, d), MayRead(P, p, d)
    PROVE  Listed(P, p, f)
<1> DEFINE m == RuleFor(P, d)
           q == RuleFor(P, f)
<1>1. /\ m \in Rules(P) /\ Matches(m, d)
      /\ \A o \in Rules(P) : Matches(o, d) => Len(o) <= Len(m)
      /\ q \in Rules(P) /\ Matches(q, f)
      /\ \A o \in Rules(P) : Matches(o, f) => Len(o) <= Len(q)
  BY RuleForWorks
<1>2. Rules(P) \subseteq Path
  BY PolicyAssumption DEF Rules
<1>3. /\ MayRead(P, p, d) <=> p \in P.admin \/ Reads(P, m, p)
      /\ MayRead(P, p, f) <=> p \in P.admin \/ Reads(P, q, p)
  BY DEF MayRead
<1> HIDE DEF m, q
<1>4. CASE Len(f) <= Len(m)
  <2>1. Matches(f, m)
    BY <1>1, <1>2, <1>4, OneLine
  <2>2. CASE m = f
    <3>1. m = q
      BY <1>1, <1>2, <2>1, <2>2, TwoPaths
    <3> QED
      BY <1>3, <3>1 DEF Listed
  <2>3. CASE m # f
    BY <1>1, <1>3, <2>1, <2>3 DEF Listed, Encloses
  <2> QED
    BY <2>2, <2>3
<1>5. CASE ~(Len(f) <= Len(m))
  <2>1. Len(m) <= Len(f)
    BY <1>1, <1>2, <1>5 DEF Path
  <2>2. Matches(m, f)
    BY <1>1, <1>2, <2>1, OneLine
  <2>3. Matches(q, d)
    BY <1>1, <1>2, MatchesTransitive
  <2>4. Len(q) <= Len(m) /\ Matches(m, d) /\ Matches(q, d)
    BY <1>1, <2>3
  <2>5. Matches(q, m)
    BY <1>1, <1>2, <2>4, OneLine
  <2>6. q = m
    BY <1>1, <1>2, <2>2, <2>5, TwoPaths
  <2> QED
    BY <1>3, <2>6 DEF Listed
<1> QED
  BY <1>4, <1>5
-----------------------------------------------------------------------------
(* Requests.                                                               *)

Request ==
    [pc : {"idle", "stat", "look", "read", "publish", "done"}, person : Person \cup {None},
     began : Nat, stamp : Nat, who : Nat, used : Nat]

\* An edit that was there between v and now, with a policy.
Since(e, v) == e \in v .. Now /\ Sound(e)

RequestOK(r) ==
    r.pc # "idle" =>
        /\ r.began \in 1 .. Now
        /\ r.who # 0 => Since(r.who, r.began)
        /\ r.pc \in {"look", "read", "publish"} => r.stamp \in r.began .. Now
        /\ r.pc = "publish" => Since(r.used, r.stamp)
        /\ r.pc = "done" => r.who # 0 /\ Since(r.used, r.began)

AccessInv ==
    /\ history \in Seq(Policy \cup {Broken}) /\ Now >= 1
    /\ cache \in [stamp : Nat, edit : Nat]
    /\ cache.stamp # 0 => Since(cache.edit, cache.stamp)
    /\ req \in [Thread -> Request]
    /\ \A t \in Thread : RequestOK(req[t])

\* The first state satisfies the invariant.
LEMMA AccessInvInit == AccessInit => AccessInv
<1> SUFFICES ASSUME AccessInit PROVE AccessInv
  OBVIOUS
<1>1. history \in Seq(Policy \cup {Broken}) /\ Now = 1
  BY DEF AccessInit, Now
<1>2. Idle \in Request
  BY DEF Idle, Request
<1>3. req = [t \in Thread |-> Idle] /\ cache = [stamp |-> 0, edit |-> 0]
  BY DEF AccessInit
<1>4. RequestOK(Idle)
  BY DEF RequestOK, Idle
<1> QED
  BY <1>1, <1>2, <1>3, <1>4 DEF AccessInv

\* Edits never make an edit that was seen older or unsound.
LEMMA SinceKept ==
    ASSUME AccessInv, NEW P \in Policy \cup {Broken}, EditPolicy(P)
    PROVE  AccessInv'
<1>1. history' = Append(history, P) /\ cache' = cache /\ req' = req
  BY DEF EditPolicy
<1>2. history' \in Seq(Policy \cup {Broken}) /\ Now' = Now + 1 /\ Now \in Nat
  BY <1>1 DEF AccessInv, Now
<1>3. ASSUME NEW e, NEW v \in Nat \ {0}, Since(e, v)
      PROVE  Since(e, v)'
  <2>1. e \in v .. Now /\ history[e] # Broken /\ e \in 1 .. Len(history)
    BY <1>2, <1>3 DEF Since, Sound, Now
  <2>2. history'[e] = history[e]
    BY <1>1, <2>1 DEF AccessInv
  <2> QED
    BY <1>2, <2>1, <2>2 DEF Since, Sound
<1>4. (cache.stamp # 0 => Since(cache.edit, cache.stamp))'
  BY <1>1, <1>3 DEF AccessInv
<1>5. ASSUME NEW t \in Thread
      PROVE  RequestOK(req[t])'
  <2>1. RequestOK(req[t]) /\ req[t] \in Request /\ req'[t] = req[t]
    BY <1>1 DEF AccessInv
  <2>2. req[t].pc # "idle" => req[t].began \in 1 .. Now'
    BY <1>2, <2>1 DEF RequestOK
  <2>3. req[t].pc \in {"look", "read", "publish"} =>
            req[t].stamp \in req[t].began .. Now' /\ req[t].stamp # 0 /\ req[t].stamp \in Nat
    BY <1>2, <2>1 DEF RequestOK, Request
  <2>4. req[t].began \in Nat
    BY <2>1 DEF Request
  <2> QED
    BY <1>3, <2>1, <2>2, <2>3, <2>4 DEF RequestOK
<1> QED
  BY <1>1, <1>2, <1>4, <1>5 DEF AccessInv

\* A step of one request leaves the others as they are.
LEMMA RequestStep ==
    ASSUME AccessInv, NEW t \in Thread, NEW r \in Request, Become(t, r), RequestOK(r),
           history' = history, cache' = cache
    PROVE  AccessInv'
<1>1. req' \in [Thread -> Request] /\ \A u \in Thread : req'[u] = IF u = t THEN r ELSE req[u]
  BY DEF AccessInv, Become
<1>2. \A u \in Thread : RequestOK(req[u])'
  BY <1>1 DEF AccessInv, RequestOK, Since, Sound, Now
<1> QED
  BY <1>1, <1>2 DEF AccessInv, Since, Sound, Now

\* Loading the policy of an edit that is no older than the stamp.
LEMMA LoadedOK ==
    ASSUME AccessInv, NEW t \in Thread, NEW v \in Nat, req[t].pc \in {"look", "publish"},
           Since(v, req[t].stamp), Loaded(t, v)
    PROVE  \E r \in Request : Become(t, r) /\ RequestOK(r)
<1>1. req[t] \in Request /\ RequestOK(req[t])
  BY DEF AccessInv
<1>2. Since(v, req[t].began)
  BY <1>1 DEF RequestOK, Request, Since
<1>3. Idle \in Request /\ RequestOK(Idle)
  BY DEF Idle, Request, RequestOK
<1>4. CASE req[t].who # 0
  <2> DEFINE r == [req[t] EXCEPT !.pc = "done", !.used = v]
  <2>1. Become(t, r)
    BY <1>4 DEF Loaded
  <2>2. r \in Request /\ RequestOK(r)
    BY <1>1, <1>2, <1>4 DEF Request, RequestOK
  <2> QED
    BY <2>1, <2>2
<1>5. CASE req[t].who = 0
  <2> DEFINE r == [req[t] EXCEPT !.pc = "stat", !.who = v]
  <2>1. Become(t, r) \/ Become(t, Idle)
    BY <1>5 DEF Loaded
  <2>2. r \in Request /\ RequestOK(r)
    BY <1>1, <1>2 DEF Request, RequestOK
  <2> QED
    BY <1>3, <2>1, <2>2
<1> QED
  BY <1>1, <1>4, <1>5 DEF Request

\* Every step keeps the invariant.
LEMMA AccessInvStep == AccessInv /\ [AccessNext]_accessVars => AccessInv'
<1> SUFFICES ASSUME AccessInv, [AccessNext]_accessVars
             PROVE  AccessInv'
  OBVIOUS
<1>0. Now \in Nat \ {0}
  BY DEF AccessInv, Now
<1>i. Idle \in Request /\ RequestOK(Idle)
  BY DEF Idle, Request, RequestOK
<1>t. \A t \in Thread : req[t] \in Request /\ RequestOK(req[t])
  BY DEF AccessInv
<1>1. ASSUME NEW P \in Policy \cup {Broken}, EditPolicy(P)
      PROVE  AccessInv'
  BY <1>1, SinceKept
<1>2. ASSUME NEW t \in Thread, NEW p \in Person, StartRequest(t, p)
      PROVE  AccessInv'
  <2> DEFINE r == [Idle EXCEPT !.pc = "stat", !.person = p, !.began = Now]
  <2>1. Idle.who = 0
    BY DEF Idle
  <2>2. r \in Request /\ r.pc = "stat" /\ r.began = Now /\ r.who = 0
    BY <1>0, <1>i, <2>1 DEF Request
  <2>3. RequestOK(r)
    BY <1>0, <2>2 DEF RequestOK
  <2> QED
    BY <1>2, <2>2, <2>3, RequestStep DEF StartRequest
<1>3. ASSUME NEW t \in Thread, StatPolicy(t)
      PROVE  AccessInv'
  <2> DEFINE r == [req[t] EXCEPT !.pc = "look", !.stamp = Now]
  <2>1. /\ r \in Request /\ r.pc = "look" /\ r.stamp = Now
        /\ r.began = req[t].began /\ r.who = req[t].who
    BY <1>0, <1>t DEF Request
  <2>2. RequestOK(r)
    BY <1>0, <1>t, <1>3, <2>1 DEF StatPolicy, RequestOK, Request
  <2> QED
    BY <1>3, <2>1, <2>2, RequestStep DEF StatPolicy
<1>4. ASSUME NEW t \in Thread, LookUp(t)
      PROVE  AccessInv'
  <2>1. req[t].pc = "look" /\ history' = history /\ cache' = cache
    BY <1>4 DEF LookUp
  <2>2. CASE cache.stamp = req[t].stamp
    <3>1. req[t].stamp # 0 /\ cache.edit \in Nat
      BY <1>t, <2>1 DEF RequestOK, AccessInv
    <3>2. Since(cache.edit, req[t].stamp) /\ Loaded(t, cache.edit)
      BY <1>4, <2>2, <3>1 DEF LookUp, AccessInv
    <3> QED
      BY <2>1, <3>1, <3>2, LoadedOK, RequestStep
  <2>3. CASE cache.stamp # req[t].stamp
    <3> DEFINE r == [req[t] EXCEPT !.pc = "read"]
    <3>1. r \in Request /\ RequestOK(r)
      BY <1>t, <2>1 DEF Request, RequestOK
    <3> QED
      BY <1>4, <2>1, <2>3, <3>1, RequestStep DEF LookUp
  <2> QED
    BY <2>2, <2>3
<1>5. ASSUME NEW t \in Thread, ReadPolicy(t)
      PROVE  AccessInv'
  <2> DEFINE r == [req[t] EXCEPT !.pc = "publish", !.used = Now]
  <2>1. req[t].pc = "read" /\ history' = history /\ cache' = cache
    BY <1>5 DEF ReadPolicy
  <2>2. CASE history[Now] = Broken
    BY <1>5, <1>i, <2>1, <2>2, RequestStep DEF ReadPolicy
  <2>3. CASE history[Now] # Broken
    <3>1. /\ r \in Request /\ r.pc = "publish" /\ r.used = Now /\ r.stamp = req[t].stamp
          /\ r.began = req[t].began /\ r.who = req[t].who
      BY <1>0, <1>t DEF Request
    <3>2. Since(Now, r.stamp) /\ r.stamp \in r.began .. Now
      BY <1>0, <1>t, <2>1, <2>3, <3>1 DEF RequestOK, Request, Since, Sound
    <3>3. RequestOK(r)
      BY <1>t, <2>1, <3>1, <3>2 DEF RequestOK
    <3> QED
      BY <1>5, <2>1, <2>3, <3>1, <3>3, RequestStep DEF ReadPolicy
  <2> QED
    BY <2>2, <2>3
<1>6. ASSUME NEW t \in Thread, Publish(t)
      PROVE  AccessInv'
  <2>1. /\ req[t].pc = "publish" /\ history' = history
        /\ cache' = [stamp |-> req[t].stamp, edit |-> req[t].used]
        /\ Loaded(t, req[t].used)
    BY <1>6 DEF Publish, Filed
  <2>2. Since(req[t].used, req[t].stamp) /\ req[t].used \in Nat /\ req[t].stamp \in Nat
    BY <1>t, <2>1 DEF RequestOK, Request
  <2>3. PICK r \in Request : Become(t, r) /\ RequestOK(r)
    BY <2>1, <2>2, LoadedOK
  <2>4. req' \in [Thread -> Request] /\ \A u \in Thread : req'[u] = IF u = t THEN r ELSE req[u]
    BY <2>3 DEF AccessInv, Become
  <2>5. \A u \in Thread : RequestOK(req[u])'
    BY <2>1, <2>3, <2>4 DEF AccessInv, RequestOK, Since, Sound, Now
  <2>6. cache' \in [stamp : Nat, edit : Nat] /\ Since(cache.edit, cache.stamp)'
    BY <2>1, <2>2 DEF Since, Sound, Now
  <2> QED
    BY <2>1, <2>4, <2>5, <2>6 DEF AccessInv, Now
<1>7. ASSUME NEW t \in Thread, EndRequest(t)
      PROVE  AccessInv'
  BY <1>7, <1>i, RequestStep DEF EndRequest
<1>8. CASE UNCHANGED accessVars
  BY <1>8 DEF accessVars, AccessInv, RequestOK, Since, Sound, Now
<1> QED
  BY <1>1, <1>2, <1>3, <1>4, <1>5, <1>6, <1>7, <1>8 DEF AccessNext

\* The invariant of the policy always holds.
THEOREM AccessInvariant == AccessSpec => []AccessInv
BY AccessInvInit, AccessInvStep, PTL DEF AccessSpec

\* A request is decided by policies no older than the file was when it
\* began, whatever is edited and whatever other threads publish (load_policy).
THEOREM PolicyFreshAlways == AccessSpec => []PolicyFresh
<1>1. AccessInv => PolicyFresh
  BY DEF AccessInv, PolicyFresh, RequestOK, Since, Request
<1> QED
  BY <1>1, AccessInvariant, PTL

\* A request that is decided has used a policy, not a broken file.
LEMMA PolicyUsed ==
    ASSUME AccessInv, NEW t \in Thread, req[t].pc = "done"
    PROVE  history[req[t].used] \in Policy
<1>1. req[t] \in Request /\ RequestOK(req[t])
  BY DEF AccessInv
<1>2. req[t].used \in 1 .. Len(history) /\ Sound(req[t].used)
  BY <1>1 DEF RequestOK, Since, Request, Now
<1>3. history \in Seq(Policy \cup {Broken})
  BY DEF AccessInv
<1> QED
  BY <1>2, <1>3 DEF Sound

\* A search is given exactly the documents that may be read (es_filter).
THEOREM FilterExactAlways == AccessSpec => []FilterExact
<1>1. AccessInv => FilterExact
  BY PolicyUsed, FilterDecides, ResourceAssumption DEF FilterExact
<1> QED
  BY <1>1, AccessInvariant, PTL

\* Everything that may be read is below folders that are listed (can_list).
THEOREM ListingCompleteAlways == AccessSpec => []ListingComplete
<1>1. AccessInv => ListingComplete
  BY PolicyUsed, ListingLeads, ResourceAssumption DEF ListingComplete
<1> QED
  BY <1>1, AccessInvariant, PTL

-----------------------------------------------------------------------------
(* MediaSync.  That an upload leaves no segment of an older content rests  *)
(* on two facts about a call that was checked: its vectors are all of the  *)
(* digest it was checked with (Pure), and unless another upload of the     *)
(* file overlapped it knows every segment that is stored (Known).          *)

\* The fields of a run and of a call.
IsRun(run) ==
    run \in [at: {"idle", "list", "get", "embed", "wait", "done", "refused"},
            entries: {run.entries}, listed: Nat, got: {run.got}, failed: Nat, calm: BOOLEAN]
IsCall(k) ==
    k \in [medium: {k.medium}, sha: {k.sha}, from: {k.from}, known: {k.known},
          step: {"none", "sent", "checked", "stored", "refused"}]

\* The records of runs and calls have their fields, the functions their keys.
MediaShape ==
    /\ vectors = [m \in Medium |-> vectors[m]]
    /\ client = [c \in Client |-> client[c]] /\ call = [c \in Client |-> call[c]]
    /\ \A c \in Client :
          /\ IsRun(client[c])
          /\ IsCall(call[c])

\* A file that is embedded was downloaded whole, and its vectors are of it.
Pure ==
    \A c \in Client :
        /\ client[c].at = "embed" => \A i \in DOMAIN client[c].got : client[c].got[i] = Current(c).sha
        /\ \A i \in DOMAIN call[c].from : call[c].from[i] = call[c].sha

\* An upload that is alone knows what is stored of its file.
Known ==
    \A c \in Client : call[c].step = "checked" /\ call[c].medium \notin torn =>
        DOMAIN vectors[call[c].medium] \subseteq call[c].known

\* Of two uploads of one file that are under way at once, each is known to be.
Crossing ==
    \A c \in Client : \A d \in Client \ {c} :
        call[c].step = "checked" /\ call[d].step = "checked" /\ call[c].medium = call[d].medium =>
            c \in crossed

\* What is stored of a file is one upload.
OneUpload(m) ==
    1 \in DOMAIN vectors[m] =>
        LET sha == vectors[m][1].sha
        IN  /\ DOMAIN vectors[m] = Segments(m, sha)
            /\ \A s \in DOMAIN vectors[m] : \A i \in DOMAIN vectors[m][s].from :
                  vectors[m][s].from[i] = sha

MediaInv ==
    /\ MediaShape /\ Pure /\ Known /\ Crossing
    /\ \A m \in Medium \ torn : OneUpload(m)

\* Steps that leave the calls and what is stored alone.
LEMMA ClientKeeps ==
    ASSUME MediaInv, UNCHANGED <<vectors, call, crossed, torn>>,
           client' = [c \in Client |-> client'[c]],
           \A c \in Client :
              /\ IsRun(client'[c])
              /\ client'[c].at = "embed" =>
                    \A i \in DOMAIN client'[c].got : client'[c].got[i] = Soonest(client'[c].entries).sha
    PROVE  MediaInv'
<1>1. MediaShape'
  BY DEF MediaInv, MediaShape
<1>2. Pure'
  BY DEF MediaInv, Pure, Current
<1>3. Known' /\ Crossing' /\ \A m \in Medium \ torn' : OneUpload(m)'
  BY DEF MediaInv, Known, Crossing, OneUpload, Segments
<1> QED
  BY <1>1, <1>2, <1>3 DEF MediaInv

\* One client moves on.
LEMMA MovesOn ==
    ASSUME MediaInv, NEW c \in Client, NEW run, IsRun(run),
           run.at = "embed" => \A i \in DOMAIN run.got : run.got[i] = Soonest(run.entries).sha,
           client' = [client EXCEPT ![c] = run], UNCHANGED <<vectors, call, crossed, torn>>
    PROVE  MediaInv'
<1>1. client'[c] = run /\ (\A d \in Client \ {c} : client'[d] = client[d])
      /\ client' = [d \in Client |-> client'[d]]
  BY DEF MediaInv, MediaShape
<1>2. ASSUME NEW d \in Client
      PROVE  /\ IsRun(client'[d])
             /\ client'[d].at = "embed" =>
                   \A i \in DOMAIN client'[d].got : client'[d].got[i] = Soonest(client'[d].entries).sha
  <2>1. CASE d = c
    BY <1>1, <2>1
  <2>2. CASE d # c
    BY <1>1, <2>2 DEF MediaInv, MediaShape, Pure, Current
  <2> QED
    BY <2>1, <2>2
<1> QED
  BY <1>1, <1>2, ClientKeeps

\* A run that has not begun, and one that begins.
LEMMA RestForm == IsRun(AtRest) /\ AtRest.at = "idle"
BY DEF AtRest, IsRun

LEMMA BeginForm ==
    ASSUME NEW c \in Client, Begin(c)
    PROVE  \E run : /\ client' = [client EXCEPT ![c] = run] /\ IsRun(run)
                    /\ run.at = "list" /\ run.calm = NobodyWorks /\ run.entries = {}
                    /\ run.listed = 0 /\ run.failed = 0
<1>1. PICK b \in BOOLEAN : b = NobodyWorks
  BY DEF NobodyWorks
<1>2. PICK run : run = [AtRest EXCEPT !.at = "list", !.calm = b]
  OBVIOUS
<1>3. client' = [client EXCEPT ![c] = run]
  BY <1>1, <1>2, Zenon DEF Begin
<1>4. run = [at |-> "list", entries |-> {}, listed |-> 0, got |-> <<>>, failed |-> 0, calm |-> b]
  BY <1>2 DEF AtRest
<1>5. /\ run.at = "list" /\ run.calm = b /\ run.entries = {} /\ run.listed = 0 /\ run.failed = 0
      /\ run.got = <<>>
  BY <1>4
<1>6. IsRun(run)
  <2>1. run \in [at: {"list"}, entries: {{}}, listed: {0}, got: {<<>>}, failed: {0}, calm: BOOLEAN]
    BY <1>4
  <2> QED
    BY <1>5, <2>1 DEF IsRun
<1> QED
  BY <1>1, <1>3, <1>5, <1>6

\* A run that goes on to its next entry.
LEMMA OnwardForm ==
    ASSUME NEW run, IsRun(run), NEW n \in Nat, NEW new, new = Onward(run, n)
    PROVE  /\ IsRun(new) /\ new.at \in {"done", "get"} /\ new.calm = run.calm
           /\ new.entries = run.entries \ {Soonest(run.entries)}
           /\ new.at = "done" => new.entries = {}
           /\ new.failed = run.failed + n
<1>1. PICK rest : rest = run.entries \ {Soonest(run.entries)}
  OBVIOUS
<1>2. PICK step \in {"done", "get"} : step = IF rest = {} THEN "done" ELSE "get"
  OBVIOUS
<1>3. new = [run EXCEPT !.entries = rest, !.got = <<>>, !.failed = @ + n, !.at = step]
  BY <1>1, <1>2 DEF Onward
<1>4. run.failed + n \in Nat
  BY DEF IsRun
<1>5. /\ IsRun(new) /\ new.at = step /\ new.calm = run.calm
      /\ new.entries = rest /\ new.failed = run.failed + n
  BY <1>3, <1>4 DEF IsRun
<1> QED
  BY <1>1, <1>2, <1>5

\* What a page of the list, the places from start up to end, does to a run.
PageAdds(c, run, start, end) ==
    /\ run.calm = client[c].calm /\ run.failed = client[c].failed
    /\ run.entries = client[c].entries \cup
          {[nr |-> Offset(m), medium |-> m, sha |-> library[m]] :
              m \in {k \in Missing : start <= Offset(k) /\ Offset(k) < end}}
    /\ run.listed = IF start < end THEN end ELSE start
    /\ run.at \in {"refused", "done", "get", "list"}
    /\ run.at \in {"done", "get"} => accepts /\ end >= Cardinality(Missing)
    /\ run.at = "done" => run.entries = {}

LEMMA ListForm ==
    ASSUME NEW c \in Client, List(c), IsRun(client[c]), client = [d \in Client |-> client[d]],
           NEW start, start = client[c].listed,
           NEW end, end = IF start + Page < Cardinality(Missing) THEN start + Page
                          ELSE Cardinality(Missing)
    PROVE  \E run : client' = [client EXCEPT ![c] = run] /\ IsRun(run) /\ PageAdds(c, run, start, end)
<1>1. PICK entries : entries = client[c].entries \cup
                    {[nr |-> Offset(m), medium |-> m, sha |-> library[m]] :
                        m \in {k \in Missing : start <= Offset(k) /\ Offset(k) < end}}
  OBVIOUS
<1>2. PICK listed : listed = IF start < end THEN end ELSE start
  OBVIOUS
<1>3. PICK last : last = (end >= Cardinality(Missing))
  BY Zenon
<1>4. PICK step : step = CASE ~accepts /\ last -> "refused"
                           [] accepts /\ last /\ entries = {} -> "done"
                           [] accepts /\ last /\ entries # {} -> "get"
                           [] OTHER -> "list"
  OBVIOUS
<1>5. client' = [client EXCEPT ![c].at = step, ![c].entries = entries, ![c].listed = listed]
  BY <1>1, <1>2, <1>3, <1>4, Zenon DEF List
<1>6. listed \in Nat
  <2>1. IsFiniteSet(Missing)
    BY MediaAssumption, FS_Subset DEF Missing
  <2>2. Cardinality(Missing) \in Nat
    BY <2>1, FS_CardinalityType
  <2> QED
    BY <1>2, <2>2, MediaAssumption DEF IsRun
<1>7. /\ step \in {"refused", "done", "get", "list"}
      /\ step \in {"done", "get"} => accepts /\ last
      /\ step = "done" => entries = {}
  BY <1>4
<1>8. PICK run : run = [client[c] EXCEPT !.at = step, !.entries = entries, !.listed = listed]
  OBVIOUS
<1>9. client' = [client EXCEPT ![c] = run]
  BY <1>5, <1>8
<1>10. /\ IsRun(run) /\ run.at = step /\ run.entries = entries /\ run.listed = listed
       /\ run.calm = client[c].calm /\ run.failed = client[c].failed
  BY <1>6, <1>7, <1>8 DEF IsRun
<1>11. PageAdds(c, run, start, end)
  BY <1>1, <1>2, <1>3, <1>7, <1>10, Zenon DEF PageAdds
<1> QED
  BY <1>9, <1>10, <1>11

\* A run that begins, lists, skips, ends or goes on without an answer.
LEMMA RunKeeps ==
    ASSUME MediaInv, NEW c \in Client,
           \/ Begin(c) \/ List(c) \/ GetPart(c) \/ Skip(c) \/ GiveUp(c) \/ End(c)
    PROVE  MediaInv'
<1>1. UNCHANGED <<vectors, call, crossed, torn>>
  BY Zenon DEF Begin, List, GetPart, Skip, GiveUp, End
<1>2. IsRun(client[c]) /\ IsRun(AtRest) /\ AtRest.at = "idle"
  <2>1. IsRun(client[c])
    BY DEF MediaInv, MediaShape
  <2> QED
    BY <2>1, RestForm
<1>3. ASSUME NEW run, IsRun(run), run.at # "embed", client' = [client EXCEPT ![c] = run]
      PROVE  MediaInv'
  BY <1>1, <1>3, MovesOn
<1>4. ASSUME NEW run, IsRun(run), NEW n \in Nat
      PROVE  IsRun(Onward(run, n)) /\ Onward(run, n).at # "embed"
  BY <1>4, OnwardForm
<1>5. CASE Begin(c)
  <2>1. PICK run : client' = [client EXCEPT ![c] = run] /\ IsRun(run) /\ run.at = "list"
    BY <1>5, BeginForm
  <2> QED
    BY <1>3, <2>1
<1>6. CASE List(c)
  <2>1. PICK start, end : /\ start = client[c].listed
                          /\ end = IF start + Page < Cardinality(Missing) THEN start + Page
                                   ELSE Cardinality(Missing)
    OBVIOUS
  <2>2. PICK run : /\ client' = [client EXCEPT ![c] = run] /\ IsRun(run)
                   /\ PageAdds(c, run, start, end)
    BY <1>2, <1>6, <2>1, ListForm, Zenon DEF MediaInv, MediaShape
  <2>3. run.at \in {"refused", "done", "get", "list"}
    BY <2>2 DEF PageAdds
  <2> QED
    BY <1>3, <2>2, <2>3
<1>7. CASE GetPart(c)
  <2>1. PICK got : got = Append(client[c].got, library[Current(c).medium])
    OBVIOUS
  <2>2. \/ client' = [client EXCEPT ![c] = Onward(client[c], 1)]
        \/ client' = [client EXCEPT ![c] = [client[c] EXCEPT !.got = got]] /\ client[c].at = "get"
        \/ client' = [client EXCEPT ![c] = [client[c] EXCEPT !.got = got, !.at = "embed"]] /\ Fresh(c, got)
    <3>1. PICK new :
              new = CASE library[Current(c).medium] = Gone -> Onward(client[c], 1)
                      [] library[Current(c).medium] # Gone
                         /\ ~IsEnd(Current(c).medium, Len(client[c].got)) -> [client[c] EXCEPT !.got = got]
                      [] library[Current(c).medium] = Current(c).sha
                         /\ IsEnd(Current(c).medium, Len(client[c].got)) /\ Fresh(c, got) ->
                            [client[c] EXCEPT !.got = got, !.at = "embed"]
                      [] OTHER -> Onward(client[c], 1)
      OBVIOUS
    <3>2. client' = [client EXCEPT ![c] = new] /\ client[c].at = "get"
      BY <1>7, <2>1, <3>1 DEF GetPart
    <3>3. \/ new = Onward(client[c], 1) \/ new = [client[c] EXCEPT !.got = got]
          \/ new = [client[c] EXCEPT !.got = got, !.at = "embed"] /\ Fresh(c, got)
      BY <3>1
    <3> QED
      BY <3>2, <3>3
  <2>3. CASE client' = [client EXCEPT ![c] = Onward(client[c], 1)]
    BY <1>2, <1>3, <1>4, <2>3
  <2>4. CASE client' = [client EXCEPT ![c] = [client[c] EXCEPT !.got = got]] /\ client[c].at = "get"
    <3>3. IsRun([client[c] EXCEPT !.got = got]) /\ [client[c] EXCEPT !.got = got].at = "get"
      BY <1>2, <2>4 DEF IsRun
    <3> QED
      BY <1>3, <2>4, <3>3
  <2>5. CASE client' = [client EXCEPT ![c] = [client[c] EXCEPT !.got = got, !.at = "embed"]] /\ Fresh(c, got)
    <3>1. PICK run : run = [client[c] EXCEPT !.got = got, !.at = "embed"]
      OBVIOUS
    <3>2. IsRun(run) /\ run.got = got /\ run.entries = client[c].entries
      BY <1>2, <3>1 DEF IsRun
    <3>3. \A i \in DOMAIN got : got[i] = Soonest(run.entries).sha
      BY <2>5, <3>2 DEF Fresh, Current
    <3> QED
      BY <1>1, <2>5, <3>1, <3>2, <3>3, MovesOn
  <2> QED
    BY <2>2, <2>3, <2>4, <2>5
<1>8. CASE Skip(c) \/ GiveUp(c)
  <2>1. client' = [client EXCEPT ![c] = Onward(client[c], 1)]
    BY <1>8 DEF Skip, GiveUp, MediaInv, MediaShape
  <2> QED
    BY <1>2, <1>3, <1>4, <2>1
<1>9. CASE End(c)
  BY <1>2, <1>3, <1>9 DEF End
<1> QED
  BY <1>5, <1>6, <1>7, <1>8, <1>9

\* What others do disturbs every run, and ends one that notices another backend.
LEMMA WorldForm ==
    ASSUME \A d \in Client : IsRun(client[d]),
           SwitchModel \/ \E m \in Medium : EditMedium(m) \/ PruneMedium(m)
    PROVE  /\ client' = [d \in Client |-> client'[d]]
           /\ \A d \in Client :
                 /\ IsRun(client'[d]) /\ client'[d].calm = FALSE
                 /\ client'[d].at = client[d].at \/ client'[d].at = "refused"
                 /\ client'[d].entries = client[d].entries /\ client'[d].got = client[d].got
<1>1. PICK Ends \in SUBSET Client :
          client' = [d \in Client |-> IF d \in Ends THEN [Disturbed[d] EXCEPT !.at = "refused"]
                                     ELSE Disturbed[d]]
  <2>1. CASE SwitchModel
    <3>1. PICK noticed \in BOOLEAN :
              client' = [d \in Client |->
                  IF noticed /\ client[d].at = "list" /\ client[d].listed > 0
                  THEN [Disturbed[d] EXCEPT !.at = "refused"] ELSE Disturbed[d]]
      BY Zenon, <2>1 DEF SwitchModel
    <3>2. WITNESS {d \in Client : noticed /\ client[d].at = "list" /\ client[d].listed > 0}
                  \in SUBSET Client
    <3> QED
      BY <3>1
  <2>2. CASE \E m \in Medium : EditMedium(m) \/ PruneMedium(m)
    <3>1. client' = Disturbed
      BY <2>2 DEF EditMedium, PruneMedium
    <3>2. Disturbed = [d \in Client |-> Disturbed[d]]
      BY DEF Disturbed
    <3>3. WITNESS {} \in SUBSET Client
    <3> QED
      BY <3>1, <3>2
  <2> QED
    BY <2>1, <2>2
<1>2. ASSUME NEW d \in Client
      PROVE  /\ IsRun(client'[d]) /\ client'[d].calm = FALSE
             /\ client'[d].at = client[d].at \/ client'[d].at = "refused"
             /\ client'[d].entries = client[d].entries /\ client'[d].got = client[d].got
  <2>1. PICK run : run = Disturbed[d]
    OBVIOUS
  <2>2. /\ IsRun(run) /\ run.calm = FALSE /\ run.at = client[d].at
        /\ run.entries = client[d].entries /\ run.got = client[d].got
    <3>1. IsRun(client[d]) /\ run = [client[d] EXCEPT !.calm = FALSE]
      BY <2>1 DEF Disturbed
    <3> QED
      BY <3>1 DEF IsRun
  <2>3. client'[d] = run \/ client'[d] = [run EXCEPT !.at = "refused"]
    BY <1>1, <2>1
  <2>4. /\ IsRun([run EXCEPT !.at = "refused"]) /\ [run EXCEPT !.at = "refused"].calm = FALSE
        /\ [run EXCEPT !.at = "refused"].at = "refused"
        /\ [run EXCEPT !.at = "refused"].entries = run.entries
        /\ [run EXCEPT !.at = "refused"].got = run.got
    BY <2>2 DEF IsRun
  <2> QED
    BY <2>2, <2>3, <2>4
<1>3. client' = [d \in Client |-> client'[d]]
  BY <1>1
<1> QED
  BY <1>2, <1>3

\* The files, the setting and the stored rows of files that are gone.
LEMMA WorldKeeps ==
    ASSUME MediaInv, SwitchModel \/ \E m \in Medium : EditMedium(m) \/ PruneMedium(m)
    PROVE  MediaInv'
<1>1. client' = [d \in Client |-> client'[d]] /\ UNCHANGED <<call, crossed, torn>>
  <2>1. UNCHANGED <<call, crossed, torn>>
    BY DEF SwitchModel, EditMedium, PruneMedium
  <2> QED
    BY <2>1, WorldForm DEF MediaInv, MediaShape
<1>2. ASSUME NEW d \in Client
      PROVE  /\ IsRun(client'[d])
             /\ client'[d].at = client[d].at \/ client'[d].at = "refused"
             /\ client'[d].entries = client[d].entries /\ client'[d].got = client[d].got
  BY WorldForm DEF MediaInv, MediaShape
<1>3. \A d \in Client : client'[d].at = "embed" =>
         \A i \in DOMAIN client'[d].got : client'[d].got[i] = Soonest(client'[d].entries).sha
  BY <1>2 DEF MediaInv, Pure, Current
<1>4. CASE vectors' = vectors
  BY <1>1, <1>2, <1>3, <1>4, ClientKeeps
<1>5. ASSUME NEW m \in Medium, PruneMedium(m) PROVE MediaInv'
  <2>1. vectors' = [vectors EXCEPT ![m] = <<>>]
    BY <1>5 DEF PruneMedium
  <2>2. /\ vectors' = [n \in Medium |-> vectors'[n]]
        /\ \A n \in Medium : vectors'[n] = vectors[n] \/ DOMAIN vectors'[n] = {}
    <3>1. /\ vectors' = [n \in Medium |-> vectors'[n]] /\ vectors'[m] = <<>>
          /\ \A n \in Medium \ {m} : vectors'[n] = vectors[n]
      BY <2>1 DEF MediaInv, MediaShape
    <3>2. DOMAIN <<>> = {}
      OBVIOUS
    <3> QED
      BY <3>1, <3>2
  <2>3. MediaShape' /\ Pure'
    BY <1>1, <1>2, <1>3, <2>2 DEF MediaInv, MediaShape, Pure, Current
  <2>4. \A n \in Medium \ torn : OneUpload(n)'
    <3> SUFFICES ASSUME NEW n \in Medium \ torn PROVE OneUpload(n)'
      OBVIOUS
    <3>1. CASE vectors'[n] = vectors[n]
      BY <3>1 DEF MediaInv, OneUpload, Segments
    <3>2. CASE DOMAIN vectors'[n] = {}
      BY <3>2 DEF OneUpload
    <3> QED
      BY <2>2, <3>1, <3>2
  <2>5. Known'
    <3> SUFFICES ASSUME NEW c \in Client, call[c].step = "checked", call[c].medium \notin torn
                 PROVE  DOMAIN vectors'[call[c].medium] \subseteq call[c].known
      BY <1>1 DEF Known
    <3>1. DOMAIN vectors[call[c].medium] \subseteq call[c].known
      BY DEF MediaInv, Known
    <3>2. CASE call[c].medium = m
      BY <2>1, <3>2 DEF MediaInv, MediaShape
    <3>3. CASE call[c].medium # m
      <4>1. vectors'[call[c].medium] = vectors[call[c].medium]
        BY <2>1, <3>3
      <4> QED
        BY <3>1, <4>1
    <3> QED
      BY <3>2, <3>3
  <2>6. Crossing'
    BY <1>1 DEF MediaInv, Crossing
  <2> QED
    BY <1>1, <2>3, <2>4, <2>5, <2>6 DEF MediaInv
<1> QED
  BY <1>4, <1>5 DEF SwitchModel, EditMedium

\* A call that is sent, or forgotten once the server has answered it.
LEMMA CallKeeps ==
    ASSUME MediaInv, NEW c \in Client, NEW k, IsCall(k), k.step # "checked",
           \A i \in DOMAIN k.from : k.from[i] = k.sha,
           call' = [call EXCEPT ![c] = k], UNCHANGED <<vectors, crossed, torn>>,
           NEW run, IsRun(run), run.at # "embed",
           client' = client \/ client' = [client EXCEPT ![c] = run]
    PROVE  MediaInv'
<1>1. /\ call' = [d \in Client |-> call'[d]] /\ call'[c] = k
      /\ \A d \in Client \ {c} : call'[d] = call[d]
      /\ client' = [d \in Client |-> client'[d]]
      /\ \A d \in Client : client'[d] = client[d] \/ client'[d] = run
  BY DEF MediaInv, MediaShape
<1>2. \A d \in Client : IsRun(client'[d]) /\ IsCall(call'[d])
  BY <1>1 DEF MediaInv, MediaShape
<1>3. MediaShape'
  BY <1>1, <1>2 DEF MediaInv, MediaShape
<1>4. Pure'
  BY <1>1 DEF MediaInv, Pure, Current
<1>5. Known'
  BY <1>1 DEF MediaInv, Known
<1>6. Crossing' /\ \A m \in Medium \ torn' : OneUpload(m)'
  <2>1. Crossing'
    BY <1>1 DEF MediaInv, Crossing
  <2>2. \A m \in Medium \ torn' : OneUpload(m)'
    BY DEF MediaInv, OneUpload, Segments
  <2> QED
    BY <2>1, <2>2
<1> QED
  BY <1>3, <1>4, <1>5, <1>6 DEF MediaInv

\* What is sent was downloaded whole.
LEMMA SendKeeps ==
    ASSUME MediaInv, NEW c \in Client, Send(c)
    PROVE  MediaInv'
<1>1. PICK k : k = [medium |-> Current(c).medium, sha |-> Current(c).sha,
                    from |-> client[c].got, known |-> {}, step |-> "sent"]
  OBVIOUS
<1>2. /\ IsCall(k) /\ k.step = "sent" /\ k.from = client[c].got /\ k.sha = Current(c).sha
  BY <1>1 DEF IsCall
<1>3. PICK run : run = [client[c] EXCEPT !.at = "wait"]
  OBVIOUS
<1>4. IsRun(run) /\ run.at = "wait"
  <2>1. IsRun(client[c])
    BY DEF MediaInv, MediaShape
  <2> QED
    BY <1>3, <2>1 DEF IsRun
<1>5. \A i \in DOMAIN k.from : k.from[i] = k.sha
  BY <1>2 DEF Send, MediaInv, Pure
<1>6. /\ call' = [call EXCEPT ![c] = k] /\ UNCHANGED <<vectors, crossed, torn>>
      /\ client' = [client EXCEPT ![c] = run]
  BY <1>1, <1>3 DEF Send, MediaInv, MediaShape
<1> QED
  BY <1>2, <1>4, <1>5, <1>6, CallKeeps

\* The answer comes, or nobody waits for it any more.
LEMMA ForgetKeeps ==
    ASSUME MediaInv, NEW c \in Client, Answered(c) \/ Unheard(c)
    PROVE  MediaInv'
<1>1. IsRun(client[c])
  BY DEF MediaInv, MediaShape
<1>2. IsCall(NoCall) /\ NoCall.step = "none" /\ NoCall.from = <<>>
  BY DEF IsCall, NoCall
<1>3. PICK run : run = Onward(client[c], IF call[c].step = "stored" THEN 0 ELSE 1)
  OBVIOUS
<1>4. IsRun(run) /\ run.at # "embed"
  BY <1>1, <1>3, OnwardForm
<1>5. /\ call' = [call EXCEPT ![c] = NoCall] /\ UNCHANGED <<vectors, crossed, torn>>
      /\ client' = client \/ client' = [client EXCEPT ![c] = run]
  BY <1>3 DEF Answered, Unheard
<1>6. \A i \in DOMAIN NoCall.from : NoCall.from[i] = NoCall.sha
  <2>1. DOMAIN <<>> = {}
    OBVIOUS
  <2> QED
    BY <1>2, <2>1
<1> QED
  BY <1>2, <1>4, <1>5, <1>6, CallKeeps

\* A call is checked with the digest its vectors are of, and knows what is
\* stored then.
LEMMA CheckKeeps ==
    ASSUME MediaInv, NEW c \in Client, CheckPut(c)
    PROVE  MediaInv'
<1>1. IsCall(call[c]) /\ call = [d \in Client |-> call[d]]
  BY DEF MediaInv, MediaShape
<1>2. UNCHANGED <<client, vectors, torn>>
  BY DEF CheckPut
<1>3. CASE call' = [call EXCEPT ![c].step = "refused"] /\ UNCHANGED crossed
  <2>1. PICK k : k = [call[c] EXCEPT !.step = "refused"]
    OBVIOUS
  <2>2. IsCall(k) /\ k.step = "refused" /\ k.from = call[c].from /\ k.sha = call[c].sha
    BY <1>1, <2>1 DEF IsCall
  <2>3. call' = [call EXCEPT ![c] = k] /\ \A i \in DOMAIN k.from : k.from[i] = k.sha
    BY <1>1, <1>3, <2>1, <2>2 DEF MediaInv, Pure
  <2>4. IsRun(AtRest) /\ AtRest.at = "idle"
    BY DEF AtRest, IsRun
  <2> QED
    BY <1>2, <1>3, <2>2, <2>3, <2>4, CallKeeps
<1>4. CASE Acceptable(call[c].medium, call[c].sha)
  <2>1. PICK k : k = [call[c] EXCEPT !.step = "checked", !.sha = library[call[c].medium],
                                     !.known = DOMAIN vectors[call[c].medium]]
    OBVIOUS
  <2>2. /\ IsCall(k) /\ k.step = "checked" /\ k.medium = call[c].medium /\ k.from = call[c].from
        /\ k.known = DOMAIN vectors[call[c].medium] /\ k.sha = library[call[c].medium]
    BY <1>1, <2>1 DEF IsCall
  <2>3. k.sha = call[c].sha
    BY <1>4, <2>2 DEF Acceptable
  <2>4. call' = [call EXCEPT ![c] = k]
    BY <1>1, <1>4, <2>1 DEF CheckPut
  <2>5. /\ call' = [d \in Client |-> call'[d]] /\ call'[c] = k
        /\ \A d \in Client \ {c} : call'[d] = call[d]
    BY <1>1, <2>4
  <2>6. MediaShape'
    BY <1>2, <2>2, <2>5 DEF MediaInv, MediaShape
  <2>7. Pure'
    BY <1>2, <2>2, <2>3, <2>5 DEF MediaInv, Pure, Current
  <2>8. Known'
    BY <1>2, <2>2, <2>5 DEF MediaInv, Known
  <2>9. \A m \in Medium \ torn' : OneUpload(m)'
    BY <1>2 DEF MediaInv, OneUpload, Segments
  <2>10. Crossing'
    <3>1. /\ Beside(c) # {} => c \in crossed'
          /\ Beside(c) \subseteq crossed' /\ crossed \ {c} \subseteq crossed'
      BY <1>4 DEF CheckPut
    <3> SUFFICES ASSUME NEW d \in Client, NEW e \in Client \ {d},
                        call'[d].step = "checked", call'[e].step = "checked",
                        call'[d].medium = call'[e].medium
                 PROVE  d \in crossed'
      BY Zenon DEF Crossing
    <3>2. CASE d = c
      <4>1. e \in Beside(c)
        BY <2>2, <2>5, <3>2 DEF Beside
      <4> QED
        BY <3>1, <3>2, <4>1
    <3>3. CASE e = c
      <4>1. d \in Beside(c)
        BY <2>2, <2>5, <3>3 DEF Beside
      <4> QED
        BY <3>1, <4>1
    <3>4. CASE d # c /\ e # c
      <4>1. call'[d] = call[d] /\ call'[e] = call[e]
        BY <2>5, <3>4
      <4>2. d \in crossed
        BY <4>1 DEF MediaInv, Crossing
      <4> QED
        BY <3>1, <3>4, <4>2
    <3> QED
      BY <3>2, <3>3, <3>4
  <2> QED
    BY <2>6, <2>7, <2>8, <2>9, <2>10 DEF MediaInv
<1> QED
  BY <1>3, <1>4 DEF CheckPut

\* A bulk of a call that was alone and failed in no part leaves its own chunks
\* and no others; after any other one the file is torn.
LEMMA ApplyKeeps ==
    ASSUME MediaInv, NEW c \in Client, ApplyPut(c)
    PROVE  MediaInv'
<1> DEFINE m == call[c].medium
           sha == call[c].sha
           wanted == Segments(m, sha)
           dropped == call[c].known \ wanted
           New(refused) ==
               [s \in (DOMAIN vectors[m] \ (dropped \ refused)) \cup (wanted \ refused) |->
                    IF s \in wanted \ refused THEN [sha |-> sha, from |-> call[c].from]
                    ELSE vectors[m][s]]
<1>5. PICK refused :
          /\ vectors' = [vectors EXCEPT ![m] = New(refused)]
          /\ call' = [call EXCEPT ![c].step = IF refused = {} THEN "stored" ELSE "refused"]
          /\ torn' = IF refused # {} \/ c \in crossed THEN torn \cup {m}
                     ELSE IF DOMAIN vectors[m] \subseteq call[c].known THEN torn \ {m} ELSE torn
  BY Zenon DEF ApplyPut
<1>6. call[c].step = "checked" /\ client' = Shifted(c)
  BY DEF ApplyPut
<1>1. m = call[c].medium /\ sha = call[c].sha /\ wanted = Segments(m, sha)
  OBVIOUS
<1>4. dropped = call[c].known \ wanted
  OBVIOUS
<1>7. PICK new : new = New(refused)
  OBVIOUS
<1> HIDE DEF m, sha, wanted, dropped
<1>8. /\ vectors' = [n \in Medium |-> vectors'[n]] /\ (m \in Medium => vectors'[m] = new)
      /\ \A n \in Medium \ {m} : vectors'[n] = vectors[n]
      /\ \A n : n # m => vectors'[n] = vectors[n]
  <2>1. vectors = [n \in Medium |-> vectors[n]] /\ vectors' = [vectors EXCEPT ![m] = new]
    BY <1>5, <1>7 DEF MediaInv, MediaShape
  <2> QED
    BY <2>1
<1>9. /\ call' = [d \in Client |-> call'[d]] /\ call'[c].step # "checked" /\ IsCall(call'[c])
      /\ call'[c].from = call[c].from /\ call'[c].sha = call[c].sha
      /\ \A d \in Client \ {c} : call'[d] = call[d]
  <2>1. IsCall(call[c]) /\ call = [d \in Client |-> call[d]]
    BY DEF MediaInv, MediaShape
  <2>2. PICK step \in {"stored", "refused"} : call' = [call EXCEPT ![c].step = step]
    BY <1>5
  <2>3. call' = [call EXCEPT ![c] = [call[c] EXCEPT !.step = step]]
    BY <2>1, <2>2
  <2>4. /\ IsCall([call[c] EXCEPT !.step = step]) /\ [call[c] EXCEPT !.step = step].step = step
        /\ [call[c] EXCEPT !.step = step].from = call[c].from
        /\ [call[c] EXCEPT !.step = step].sha = call[c].sha
    BY <2>1 DEF IsCall
  <2> QED
    BY <2>1, <2>3, <2>4
<1>10. /\ client' = [d \in Client |-> client'[d]]
       /\ \A d \in Client : /\ IsRun(client'[d]) /\ client'[d].at = client[d].at
                            /\ client'[d].entries = client[d].entries /\ client'[d].got = client[d].got
  <2>1. \A d \in Client : client'[d] = client[d] \/ client'[d] = [client[d] EXCEPT !.calm = FALSE]
    BY <1>6 DEF Shifted
  <2>2. client' = [d \in Client |-> client'[d]]
    BY <1>6 DEF Shifted
  <2>3. ASSUME NEW d \in Client
        PROVE  /\ IsRun([client[d] EXCEPT !.calm = FALSE])
               /\ [client[d] EXCEPT !.calm = FALSE].at = client[d].at
               /\ [client[d] EXCEPT !.calm = FALSE].entries = client[d].entries
               /\ [client[d] EXCEPT !.calm = FALSE].got = client[d].got
    <3>1. IsRun(client[d])
      BY DEF MediaInv, MediaShape
    <3> QED
      BY <3>1 DEF IsRun
  <2>4. \A d \in Client : IsRun(client[d])
    BY DEF MediaInv, MediaShape
  <2> QED
    BY <2>1, <2>2, <2>3, <2>4
<1>11. MediaShape'
  BY <1>8, <1>9, <1>10 DEF MediaInv, MediaShape
<1>12. Pure'
  BY <1>9, <1>10 DEF MediaInv, Pure, Current
<1>13. \A n \in Medium : n # m => (n \in torn' <=> n \in torn)
  BY <1>5
<1>14. m \in torn' \/ (refused = {} /\ c \notin crossed /\ DOMAIN vectors[m] \subseteq call[c].known)
  BY <1>1, <1>5, <1>6 DEF MediaInv, Known
<1>15. Known'
  <2> SUFFICES ASSUME NEW d \in Client, call'[d].step = "checked", call'[d].medium \notin torn'
               PROVE  DOMAIN vectors'[call'[d].medium] \subseteq call'[d].known
    BY DEF Known
  <2>1. d # c /\ call'[d] = call[d]
    BY <1>9
  <2>2. call[d].medium # m
    <3>1. c \in crossed \/ call[d].medium # call[c].medium
      BY <1>6, <2>1 DEF MediaInv, Crossing
    <3> QED
      BY <1>1, <1>9, <1>14, <2>1, <3>1
  <2>3. call[d].medium \notin torn
    BY <1>5, <2>1, <2>2
  <2> QED
    BY <1>8, <2>1, <2>2, <2>3 DEF MediaInv, Known
<1>16. ASSUME NEW n \in Medium, n \notin torn' PROVE OneUpload(n)'
  <2>1. CASE n # m
    <3>1. vectors'[n] = vectors[n] /\ n \notin torn
      BY <1>8, <1>13, <1>16, <2>1
    <3> QED
      BY <3>1 DEF MediaInv, OneUpload, Segments
  <2>2. CASE n = m
    <3>1. refused = {} /\ DOMAIN vectors[m] \subseteq call[c].known /\ vectors'[m] = new
      BY <1>8, <1>14, <1>16, <2>2
    <3>2. DOMAIN new = wanted
      BY <1>4, <1>7, <3>1
    <3>3. \A s \in wanted : new[s].sha = sha /\ new[s].from = call[c].from
      BY <1>7, <3>1
    <3>4. \A i \in DOMAIN call[c].from : call[c].from[i] = sha
      BY <1>1 DEF MediaInv, Pure
    <3> QED
      BY <1>1, <2>2, <3>1, <3>2, <3>3, <3>4 DEF OneUpload, Segments
  <2> QED
    BY <2>1, <2>2
<1>17. Crossing'
  <2>1. crossed' = crossed
    BY DEF ApplyPut
  <2> SUFFICES ASSUME NEW d \in Client, NEW e \in Client \ {d},
                      call'[d].step = "checked", call'[e].step = "checked",
                      call'[d].medium = call'[e].medium
               PROVE  d \in crossed
    BY Zenon, <2>1 DEF Crossing
  <2>2. call'[d] = call[d] /\ call'[e] = call[e]
    BY <1>9
  <2> QED
    BY <2>2 DEF MediaInv, Crossing
<1> QED
  BY <1>11, <1>12, <1>15, <1>16, <1>17 DEF MediaInv

\* A step of a client, of the server or of others keeps the invariant.
LEMMA MediaStep ==
    ASSUME MediaInv, [MediaNext]_mediaVars
    PROVE  MediaInv'
<1>1. CASE UNCHANGED mediaVars
  <2>1. UNCHANGED <<vectors, client, call, crossed, torn>>
    BY <1>1 DEF mediaVars
  <2>2. MediaShape' /\ Pure'
    BY <2>1 DEF MediaInv, MediaShape, Pure, Current
  <2>3. Known' /\ Crossing' /\ \A m \in Medium \ torn' : OneUpload(m)'
    BY <2>1 DEF MediaInv, Known, Crossing, OneUpload, Segments
  <2> QED
    BY <2>2, <2>3 DEF MediaInv
<1>2. CASE MediaNext
  BY <1>2, RunKeeps, WorldKeeps, SendKeeps, ForgetKeeps, CheckKeeps, ApplyKeeps DEF MediaNext
<1> QED
  BY <1>1, <1>2

-----------------------------------------------------------------------------
(* MediaSync, the list.  That a run without a failure leaves nothing       *)
(* missing rests on what it knows while nothing is changed and nobody      *)
(* stores anything under its list (Rely): every file that is missing is on *)
(* it, as the places of what is missing stay what they were; and what it   *)
(* strikes off was stored.                                                 *)

HasEntry(c, m) == \E e \in client[c].entries : e.medium = m
ListRead(c) == client[c].at \in {"get", "embed", "wait", "done"}

\* No file has changed since a call was checked.
CheckedStill ==
    \A c \in Client : call[c].step = "checked" =>
        call[c].sha = library[call[c].medium] /\ library[call[c].medium] # Gone

\* What a calm run may rely on.
Rely(c) ==
    /\ CheckedStill
    /\ client[c].at = "list" =>
          /\ call[c] = NoCall
          /\ \A m \in Missing : Offset(m) < client[c].listed => HasEntry(c, m)
    /\ ListRead(c) => accepts
    /\ ListRead(c) /\ client[c].failed = 0 => \A m \in Missing : HasEntry(c, m)
    /\ client[c].at = "wait" /\ call[c].step = "stored" /\ call[c].medium \in Medium =>
          Indexed(call[c].medium)

Clean(c) ==
    /\ client[c].at = "done" => client[c].entries = {}
    /\ client[c].at = "wait" => call[c].medium = Current(c).medium
    /\ client[c].calm /\ client[c].at # "idle" => Rely(c)

CleanInv ==
    /\ MediaInv /\ library \in [Medium -> Content \cup {Gone}]
    /\ \A c \in Client : Clean(c)

\* How many are missing, and how many of them come before one of them.
LEMMA OffsetBound ==
    /\ Cardinality(Missing) \in Nat
    /\ \A m \in Missing : Offset(m) \in Nat /\ Offset(m) < Cardinality(Missing)
<1>1. IsFiniteSet(Missing) /\ Missing \subseteq Nat
  BY MediaAssumption, FS_Subset DEF Missing
<1>2. ASSUME NEW m \in Missing PROVE Offset(m) \in Nat /\ Offset(m) < Cardinality(Missing)
  <2>1. {k \in Missing : k < m} \subseteq Missing /\ {k \in Missing : k < m} # Missing
    BY <1>1
  <2> QED
    BY <1>1, <2>1, FS_Subset, FS_CardinalityType DEF Offset
<1> QED
  BY <1>1, <1>2, FS_CardinalityType

\* What the steps of others leave to a run.
LEMMA OthersLeave ==
    ASSUME NEW c \in Client, Clean(c), UNCHANGED <<library, vectors, accepts>>,
           client'[c] = client[c], call'[c] = call[c],
           \A d \in Client : call'[d].step = "checked" => call'[d] = call[d]
    PROVE  Clean(c)'
<1>1. Missing' = Missing /\ \A m : Offset(m)' = Offset(m)
  BY DEF Missing, Indexed, Offset
<1>2. CheckedStill => CheckedStill'
  BY DEF CheckedStill
<1>3. Rely(c) => Rely(c)'
  BY <1>1, <1>2 DEF Rely, HasEntry, ListRead, Indexed
<1> QED
  BY <1>3 DEF Clean, Current

\* One run moves on, and nothing else does.
LEMMA OneMoves ==
    ASSUME CleanInv, MediaInv', NEW c \in Client, NEW run,
           client' = [client EXCEPT ![c] = run], UNCHANGED <<library, vectors, accepts>>,
           \A d \in Client \ {c} : call'[d] = call[d],
           call'[c].step = "checked" => call'[c] = call[c],
           Clean(c)'
    PROVE  CleanInv'
<1>1. ASSUME NEW d \in Client, d # c PROVE Clean(d)'
  <2>1. client'[d] = client[d] /\ call'[d] = call[d] /\ Clean(d)
    BY <1>1 DEF CleanInv, MediaInv, MediaShape
  <2> QED
    BY <2>1, OthersLeave
<1> QED
  BY <1>1 DEF CleanInv

\* A run that goes on after one more failure.
LEMMA FailForm ==
    ASSUME NEW run, IsRun(run), NEW new, new = Onward(run, 1)
    PROVE  /\ new.at \in {"done", "get"} /\ new.calm = run.calm
           /\ new.at = "done" => new.entries = {}
           /\ new.failed = run.failed + 1
<1>1. PICK n \in Nat : n = 1
  OBVIOUS
<1>2. new = Onward(run, n)
  BY <1>1
<1>3. /\ new.at \in {"done", "get"} /\ new.calm = run.calm
      /\ new.at = "done" => new.entries = {}
      /\ new.failed = run.failed + n
  BY <1>2, OnwardForm
<1> QED
  BY <1>1, <1>3

\* A run that goes on after a failure has no claim left but that the server
\* takes its vectors; and its calls are what they were.
LEMMA FailsOn ==
    ASSUME CleanInv, MediaInv', NEW c \in Client, ListRead(c),
           client' = [client EXCEPT ![c] = Onward(client[c], 1)],
           UNCHANGED <<library, vectors, accepts>>,
           \A d \in Client : call'[d] = call[d] \/ (d = c /\ call'[d] = NoCall)
    PROVE  CleanInv'
<1>1. PICK run : run = Onward(client[c], 1)
  OBVIOUS
<1>2. IsRun(client[c]) /\ client[c].failed \in Nat
  BY DEF CleanInv, MediaInv, MediaShape, IsRun
<1>3. /\ run.at \in {"done", "get"} /\ run.calm = client[c].calm /\ run.failed # 0
      /\ run.at = "done" => run.entries = {}
  <2>1. /\ run.at \in {"done", "get"} /\ run.calm = client[c].calm
        /\ run.at = "done" => run.entries = {}
        /\ run.failed = client[c].failed + 1
    BY <1>1, <1>2, FailForm
  <2> QED
    BY <1>2, <2>1
<1>4. client'[c] = run
  BY <1>1 DEF CleanInv, MediaInv, MediaShape
<1>5. NoCall.step = "none"
  BY DEF NoCall
<1>6. client[c].at # "idle"
  BY DEF ListRead
<1>7. Rely(c) => Rely(c)'
  <2>1. CheckedStill => CheckedStill'
    BY <1>5 DEF CheckedStill
  <2> QED
    BY <1>3, <1>4, <2>1 DEF Rely, ListRead
<1>8. Clean(c)'
  BY <1>3, <1>4, <1>6, <1>7 DEF CleanInv, Clean
<1> QED
  BY <1>1, <1>5, <1>8, OneMoves

\* A run that begins relies on nothing but that nobody works.
LEMMA BeginClean ==
    ASSUME CleanInv, MediaInv', NEW c \in Client, Begin(c)
    PROVE  CleanInv'
<1>1. PICK run : /\ client' = [client EXCEPT ![c] = run]
                 /\ run.at = "list" /\ run.calm = NobodyWorks /\ run.listed = 0
  BY BeginForm
<1>2. client'[c] = run /\ UNCHANGED <<library, vectors, accepts, call>>
  BY <1>1 DEF Begin, CleanInv, MediaInv, MediaShape
<1>3. ASSUME NobodyWorks PROVE Rely(c)'
  <2>1. \A d \in Client : call'[d] = NoCall
    BY <1>2, <1>3 DEF NobodyWorks
  <2>2. CheckedStill'
    BY <2>1 DEF CheckedStill, NoCall
  <2>3. \A m \in Missing' : ~ (Offset(m)' < 0)
    <3>1. \A m \in Missing : Offset(m) \in Nat
      BY OffsetBound
    <3>2. Missing' = Missing /\ \A m : Offset(m)' = Offset(m)
      BY <1>2 DEF Missing, Indexed, Offset
    <3> QED
      BY <3>1, <3>2
  <2> QED
    BY <1>1, <1>2, <2>1, <2>2, <2>3 DEF Rely, ListRead
<1>4. Clean(c)'
  BY <1>1, <1>2, <1>3 DEF Clean
<1> QED
  BY <1>1, <1>2, <1>4, OneMoves

\* A page adds the files at the next places; when the last one is read, every
\* file that is missing has been listed.
LEMMA ListClean ==
    ASSUME CleanInv, MediaInv', NEW c \in Client, List(c)
    PROVE  CleanInv'
<1>1. IsRun(client[c]) /\ client = [d \in Client |-> client[d]]
  BY DEF CleanInv, MediaInv, MediaShape
<1>2. PICK start \in Nat : start = client[c].listed
  BY <1>1 DEF IsRun
<1>3. PICK end \in Nat : end = IF start + Page < Cardinality(Missing) THEN start + Page
                               ELSE Cardinality(Missing)
  BY <1>2, OffsetBound, MediaAssumption
<1>4. PICK run : client' = [client EXCEPT ![c] = run] /\ PageAdds(c, run, start, end)
  BY <1>1, <1>2, <1>3, ListForm, Zenon
<1>5. client'[c] = run /\ UNCHANGED <<library, vectors, accepts, call>> /\ client[c].at = "list"
  BY <1>1, <1>4, Zenon DEF List, PageAdds
<1>6. Missing' = Missing /\ \A m : Offset(m)' = Offset(m)
  BY <1>5 DEF Missing, Indexed, Offset
<1>7. ASSUME Rely(c) PROVE Rely(c)'
  <2>1. CheckedStill' /\ call'[c] = NoCall
    BY <1>5, <1>7 DEF Rely, CheckedStill
  <2>2. ASSUME NEW m \in Missing, Offset(m) < start \/ Offset(m) < end
        PROVE  \E e \in run.entries : e.medium = m
    <3>1. Offset(m) \in Nat
      BY OffsetBound
    <3>2. CASE Offset(m) < start
      <4>1. HasEntry(c, m)
        BY <1>2, <1>5, <1>7, <3>2 DEF Rely
      <4> QED
        BY <1>4, <4>1 DEF HasEntry, PageAdds
    <3>3. CASE start <= Offset(m) /\ Offset(m) < end
      <4>1. [nr |-> Offset(m), medium |-> m, sha |-> library[m]] \in run.entries
        BY <1>4, <3>3 DEF PageAdds
      <4> QED
        BY <4>1
    <3> QED
      BY <2>2, <3>1, <3>2, <3>3
  <2>3. ASSUME NEW m \in Missing, Offset(m) < run.listed
        PROVE  \E e \in run.entries : e.medium = m
    BY <1>4, <2>2, <2>3 DEF PageAdds
  <2>4. ASSUME run.at \in {"done", "get"}, NEW m \in Missing
        PROVE  \E e \in run.entries : e.medium = m
    <3>1. end >= Cardinality(Missing)
      BY <1>4, <2>4 DEF PageAdds
    <3>2. Offset(m) < end
      BY <3>1, OffsetBound
    <3> QED
      BY <2>2, <3>2
  <2> QED
    BY <1>4, <1>5, <1>6, <2>1, <2>3, <2>4 DEF Rely, ListRead, HasEntry, PageAdds
<1>8. Clean(c)'
  BY <1>4, <1>5, <1>7 DEF CleanInv, Clean, PageAdds
<1> QED
  BY <1>4, <1>5, <1>8, OneMoves DEF PageAdds

\* A part that is read leaves the list alone, or the file fails.
LEMMA GetClean ==
    ASSUME CleanInv, MediaInv', NEW c \in Client, GetPart(c)
    PROVE  CleanInv'
<1>1. IsRun(client[c]) /\ client = [d \in Client |-> client[d]]
  BY DEF CleanInv, MediaInv, MediaShape
<1>2. UNCHANGED <<library, vectors, accepts, call>> /\ client[c].at = "get"
  BY Zenon DEF GetPart
<1>3. CASE client' = [client EXCEPT ![c] = Onward(client[c], 1)]
  BY <1>2, <1>3, FailsOn DEF ListRead
<1>4. PICK got : got = Append(client[c].got, library[Current(c).medium])
  OBVIOUS
<1>5. PICK new :
          /\ client' = [client EXCEPT ![c] = new]
          /\ \/ new = Onward(client[c], 1) \/ new = [client[c] EXCEPT !.got = got]
             \/ new = [client[c] EXCEPT !.got = got, !.at = "embed"]
  <2>1. PICK new :
            new = CASE library[Current(c).medium] = Gone -> Onward(client[c], 1)
                    [] library[Current(c).medium] # Gone
                       /\ ~IsEnd(Current(c).medium, Len(client[c].got)) -> [client[c] EXCEPT !.got = got]
                    [] library[Current(c).medium] # Gone
                       /\ library[Current(c).medium] = Current(c).sha
                       /\ IsEnd(Current(c).medium, Len(client[c].got)) /\ Fresh(c, got) ->
                          [client[c] EXCEPT !.got = got, !.at = "embed"]
                    [] OTHER -> Onward(client[c], 1)
    OBVIOUS
  <2>2. client' = [client EXCEPT ![c] = new]
    BY <1>4, <2>1, Zenon DEF GetPart
  <2>3. \/ new = Onward(client[c], 1) \/ new = [client[c] EXCEPT !.got = got]
        \/ new = [client[c] EXCEPT !.got = got, !.at = "embed"]
    BY <2>1
  <2> QED
    BY <2>2, <2>3
<1>6. CASE new # Onward(client[c], 1)
  <2>1. /\ new.at \in {"get", "embed"} /\ new.entries = client[c].entries
        /\ new.listed = client[c].listed /\ new.calm = client[c].calm
        /\ new.failed = client[c].failed
    BY <1>1, <1>2, <1>5, <1>6 DEF IsRun
  <2>2. client' = [client EXCEPT ![c] = new] /\ client'[c] = new
    BY <1>1, <1>5
  <2>3. Missing' = Missing
    BY <1>2 DEF Missing, Indexed
  <2>4. Rely(c) => Rely(c)'
    <3>1. CheckedStill => CheckedStill'
      BY <1>2 DEF CheckedStill
    <3> QED
      BY <1>2, <2>1, <2>2, <2>3, <3>1 DEF Rely, ListRead, HasEntry
  <2>5. Clean(c)'
    BY <1>2, <2>1, <2>2, <2>4 DEF CleanInv, Clean
  <2> QED
    BY <1>2, <2>2, <2>5, OneMoves
<1> QED
  BY <1>3, <1>5, <1>6

\* What is sent is the current entry of the list.
LEMMA SendClean ==
    ASSUME CleanInv, MediaInv', NEW c \in Client, Send(c)
    PROVE  CleanInv'
<1>1. /\ IsRun(client[c]) /\ client = [d \in Client |-> client[d]]
      /\ call = [d \in Client |-> call[d]]
  BY DEF CleanInv, MediaInv, MediaShape
<1>2. PICK run : run = [client[c] EXCEPT !.at = "wait"]
  OBVIOUS
<1>3. /\ run.at = "wait" /\ run.entries = client[c].entries
      /\ run.calm = client[c].calm /\ run.failed = client[c].failed
  BY <1>1, <1>2 DEF IsRun
<1>4. /\ client' = [client EXCEPT ![c] = run] /\ client'[c] = run
      /\ client[c].at = "embed" /\ UNCHANGED <<library, vectors, accepts>>
  BY <1>1, <1>2 DEF Send
<1>5. /\ call'[c].step = "sent" /\ call'[c].medium = Current(c).medium
      /\ \A d \in Client \ {c} : call'[d] = call[d]
  BY <1>1 DEF Send
<1>6. Missing' = Missing
  BY <1>4 DEF Missing, Indexed
<1>7. Rely(c) => Rely(c)'
  <2>1. CheckedStill => CheckedStill'
    BY <1>4, <1>5 DEF CheckedStill
  <2> QED
    BY <1>3, <1>4, <1>5, <1>6, <2>1 DEF Rely, ListRead, HasEntry
<1>8. Clean(c)'
  BY <1>3, <1>4, <1>5, <1>7 DEF CleanInv, Clean, Current
<1> QED
  BY <1>4, <1>5, <1>8, OneMoves

\* What was stored is struck off; what was refused has failed.
LEMMA AnswerClean ==
    ASSUME CleanInv, MediaInv', NEW c \in Client, Answered(c)
    PROVE  CleanInv'
<1>1. /\ IsRun(client[c]) /\ client[c].failed \in Nat /\ client = [d \in Client |-> client[d]]
      /\ call = [d \in Client |-> call[d]]
  BY DEF CleanInv, MediaInv, MediaShape, IsRun
<1>2. /\ client[c].at = "wait" /\ UNCHANGED <<library, vectors, accepts>>
      /\ call' = [call EXCEPT ![c] = NoCall] /\ NoCall.step = "none"
  BY DEF Answered, NoCall
<1>3. call'[c] = NoCall /\ \A d \in Client \ {c} : call'[d] = call[d]
  BY <1>1, <1>2
<1>4. CASE call[c].step # "stored"
  <2>1. client' = [client EXCEPT ![c] = Onward(client[c], 1)]
    BY <1>4 DEF Answered
  <2> QED
    BY <1>2, <1>3, <2>1, FailsOn DEF ListRead
<1>5. CASE call[c].step = "stored"
  <2>1. PICK run : run = Onward(client[c], 0)
    OBVIOUS
  <2>2. /\ run.at \in {"done", "get"} /\ run.calm = client[c].calm
        /\ run.entries = client[c].entries \ {Current(c)}
        /\ run.at = "done" => run.entries = {}
        /\ run.failed = client[c].failed
    BY <1>1, <2>1, OnwardForm DEF Current
  <2>3. client' = [client EXCEPT ![c] = run] /\ client'[c] = run
    BY <1>1, <1>5, <2>1 DEF Answered
  <2>4. ASSUME Rely(c) PROVE Rely(c)'
    <3>1. CheckedStill'
      BY <1>2, <1>3, <2>4 DEF Rely, CheckedStill
    <3>2. Missing' = Missing /\ accepts' /\ Missing \subseteq Medium
      BY <1>2, <2>4 DEF Missing, Indexed, Rely, ListRead
    <3>3. ASSUME client[c].failed = 0, NEW m \in Missing
          PROVE  \E e \in run.entries : e.medium = m
      <4>1. PICK e \in client[c].entries : e.medium = m
        BY <1>2, <2>4, <3>3 DEF Rely, ListRead, HasEntry
      <4>2. call[c].medium # m
        BY <1>2, <1>5, <2>4, <3>2 DEF Rely, Missing
      <4>3. e # Current(c)
        BY <1>2, <4>1, <4>2 DEF CleanInv, Clean
      <4> QED
        BY <2>2, <4>1, <4>3
    <3> QED
      BY <2>2, <2>3, <3>1, <3>2, <3>3 DEF Rely, ListRead, HasEntry
  <2>5. Clean(c)'
    BY <1>2, <2>2, <2>3, <2>4 DEF CleanInv, Clean
  <2> QED
    BY <1>2, <1>3, <2>3, <2>5, OneMoves
<1> QED
  BY <1>4, <1>5

\* A run that ends, and an answer nobody waits for.
LEMMA EndClean ==
    ASSUME CleanInv, MediaInv', NEW c \in Client, End(c) \/ Unheard(c)
    PROVE  CleanInv'
<1>1. /\ client = [d \in Client |-> client[d]] /\ call = [d \in Client |-> call[d]]
      /\ NoCall.step = "none" /\ AtRest.at = "idle"
  BY DEF CleanInv, MediaInv, MediaShape, NoCall, AtRest
<1>2. CASE End(c)
  <2>1. /\ client' = [client EXCEPT ![c] = AtRest] /\ client'[c] = AtRest
        /\ UNCHANGED <<library, vectors, accepts, call>>
    BY <1>1, <1>2 DEF End
  <2>2. Clean(c)'
    BY <1>1, <2>1 DEF Clean
  <2> QED
    BY <2>1, <2>2, OneMoves
<1>3. CASE Unheard(c)
  <2>1. /\ client' = client /\ UNCHANGED <<library, vectors, accepts>>
        /\ call'[c] = NoCall /\ client[c].at # "wait"
        /\ \A d \in Client \ {c} : call'[d] = call[d]
    BY <1>1, <1>3 DEF Unheard
  <2>2. Missing' = Missing /\ \A m : Offset(m)' = Offset(m)
    BY <2>1 DEF Missing, Indexed, Offset
  <2>3. Rely(c) => Rely(c)'
    <3>1. CheckedStill => CheckedStill'
      BY <1>1, <2>1 DEF CheckedStill
    <3> QED
      BY <2>1, <2>2, <3>1 DEF Rely, ListRead, HasEntry
  <2>4. Clean(c)'
    BY <2>1, <2>3 DEF CleanInv, Clean
  <2>5. client' = [client EXCEPT ![c] = client[c]]
    BY <1>1, <2>1
  <2> QED
    BY <1>1, <2>1, <2>4, <2>5, OneMoves
<1> QED
  BY <1>2, <1>3

\* Who changes files or the setting disturbs every run.
LEMMA WorldClean ==
    ASSUME CleanInv, MediaInv', SwitchModel \/ \E m \in Medium : EditMedium(m) \/ PruneMedium(m)
    PROVE  CleanInv'
<1>1. UNCHANGED call
  BY DEF SwitchModel, EditMedium, PruneMedium
<1>2. library' \in [Medium -> Content \cup {Gone}]
  BY DEF CleanInv, SwitchModel, EditMedium, PruneMedium
<1>3. ASSUME NEW c \in Client PROVE Clean(c)'
  <2>1. /\ client'[c].at = client[c].at \/ client'[c].at = "refused"
        /\ client'[c].entries = client[c].entries /\ client'[c].calm = FALSE
    BY WorldForm DEF CleanInv, MediaInv, MediaShape
  <2> QED
    BY <1>1, <2>1 DEF CleanInv, Clean, Current
<1> QED
  BY <1>2, <1>3 DEF CleanInv

\* A call is checked against the file as it is.
LEMMA CheckClean ==
    ASSUME CleanInv, MediaInv', NEW c \in Client, CheckPut(c)
    PROVE  CleanInv'
<1>1. /\ UNCHANGED <<library, vectors, accepts, client>> /\ call[c].step = "sent"
      /\ call = [d \in Client |-> call[d]] /\ IsCall(call[c])
  BY DEF CheckPut, CleanInv, MediaInv, MediaShape
<1>2. Missing' = Missing /\ \A m : Offset(m)' = Offset(m) /\ Indexed(m)' = Indexed(m)
  BY <1>1 DEF Missing, Indexed, Offset
<1>3. /\ \A d \in Client \ {c} : call'[d] = call[d]
      /\ call'[c].medium = call[c].medium /\ call'[c].step \in {"checked", "refused"}
      /\ call'[c].step = "checked" =>
            call'[c].sha = library[call[c].medium] /\ library[call[c].medium] # Gone
  <2>1. CASE call' = [call EXCEPT ![c].step = "refused"]
    <3>1. call'[c] = [call[c] EXCEPT !.step = "refused"]
      BY <1>1, <2>1
    <3> QED
      BY <1>1, <2>1, <3>1 DEF IsCall
  <2>2. CASE Acceptable(call[c].medium, call[c].sha)
    <3>1. PICK k : k = [call[c] EXCEPT !.step = "checked", !.sha = library[call[c].medium],
                                       !.known = DOMAIN vectors[call[c].medium]]
      OBVIOUS
    <3>2. call' = [call EXCEPT ![c] = k]
      BY <1>1, <2>2, <3>1 DEF CheckPut
    <3>3. k.step = "checked" /\ k.sha = library[call[c].medium] /\ k.medium = call[c].medium
      BY <1>1, <3>1 DEF IsCall
    <3> QED
      BY <1>1, <2>2, <3>2, <3>3 DEF Acceptable
  <2> QED
    BY <2>1, <2>2 DEF CheckPut
<1>4. ASSUME NEW d \in Client PROVE Clean(d)'
  <2>1. CheckedStill => CheckedStill'
    BY <1>1, <1>3 DEF CheckedStill
  <2>2. /\ ListRead(d)' <=> ListRead(d)
        /\ \A m : HasEntry(d, m)' <=> HasEntry(d, m)
    BY <1>1 DEF ListRead, HasEntry
  <2>3. /\ call'[d].medium = call[d].medium
        /\ call'[d].step = "stored" => call[d].step = "stored"
        /\ call[d] = NoCall => call'[d] = NoCall
    <3>1. NoCall.step # "sent"
      BY DEF NoCall
    <3>2. CASE d = c
      BY <1>1, <1>3, <3>1, <3>2
    <3>3. CASE d # c
      BY <1>3, <3>3
    <3> QED
      BY <3>2, <3>3
  <2>4. Rely(d) => Rely(d)'
    BY <1>1, <1>2, <2>1, <2>2, <2>3 DEF Rely
  <2> QED
    BY <1>1, <2>3, <2>4 DEF CleanInv, Clean, Current
<1> QED
  BY <1>1, <1>4 DEF CleanInv

\* A bulk of a file that is as it was when its call was checked takes the
\* first segment from no file that has it, and gives it to the file unless it
\* refuses it; every run that lists is disturbed.
LEMMA ApplyClean ==
    ASSUME CleanInv, MediaInv', NEW c \in Client, ApplyPut(c)
    PROVE  CleanInv'
<1> DEFINE m == call[c].medium
           sha == call[c].sha
           wanted == Segments(m, sha)
           dropped == call[c].known \ wanted
           New(refused) ==
               [s \in (DOMAIN vectors[m] \ (dropped \ refused)) \cup (wanted \ refused) |->
                    IF s \in wanted \ refused THEN [sha |-> sha, from |-> call[c].from]
                    ELSE vectors[m][s]]
<1>1. PICK refused :
          /\ vectors' = [vectors EXCEPT ![m] = New(refused)]
          /\ call' = [call EXCEPT ![c].step = IF refused = {} THEN "stored" ELSE "refused"]
  BY Zenon DEF ApplyPut
<1>2. /\ call[c].step = "checked" /\ client' = Shifted(c) /\ UNCHANGED <<library, accepts>>
      /\ call = [d \in Client |-> call[d]] /\ IsCall(call[c])
      /\ vectors = [n \in Medium |-> vectors[n]] /\ \A d \in Client : IsRun(client[d])
  BY DEF ApplyPut, CleanInv, MediaInv, MediaShape
<1>3. PICK new : new = New(refused)
  OBVIOUS
<1>4. ASSUME CheckedStill, m \in Medium
      PROVE  /\ 1 \in DOMAIN new \/ 1 \notin DOMAIN vectors[m]
             /\ 1 \in DOMAIN vectors[m] /\ vectors[m][1].sha = library[m] =>
                   new[1].sha = library[m]
             /\ refused = {} => 1 \in DOMAIN new /\ new[1].sha = library[m]
  <2>1. sha = library[m] /\ sha \in Content
    BY <1>2, <1>4 DEF CleanInv, CheckedStill
  <2>2. 1 \in wanted
    <3>1. Parts[sha] \in Nat \ {0}
      BY <2>1, MediaAssumption
    <3> QED
      BY <3>1 DEF Segments
  <2> HIDE DEF wanted, sha, m
  <2>3. /\ 1 \in DOMAIN new <=> 1 \in DOMAIN vectors[m] \/ 1 \notin refused
        /\ 1 \in DOMAIN new =>
              new[1].sha = IF 1 \notin refused THEN sha ELSE vectors[m][1].sha
    BY <1>3, <2>2
  <2> QED
    BY <2>1, <2>3
<1> HIDE DEF m, sha, wanted, dropped, New
<1>5. /\ m \in Medium => vectors'[m] = new
      /\ \A n \in Medium \ {m} : vectors'[n] = vectors[n]
  BY <1>1, <1>2, <1>3
<1>6. ASSUME CheckedStill, NEW n \in Medium, Indexed(n) PROVE Indexed(n)'
  <2>1. CASE n = m
    BY <1>2, <1>4, <1>5, <1>6, <2>1 DEF Indexed
  <2>2. CASE n # m
    BY <1>2, <1>5, <1>6, <2>2 DEF Indexed
  <2> QED
    BY <2>1, <2>2
<1>7. /\ call'[c].step = (IF refused = {} THEN "stored" ELSE "refused")
      /\ call'[c].medium = call[c].medium /\ \A d \in Client \ {c} : call'[d] = call[d]
  <2>1. PICK step : step = IF refused = {} THEN "stored" ELSE "refused"
    OBVIOUS
  <2>2. call'[c] = [call[c] EXCEPT !.step = step] /\ \A d \in Client \ {c} : call'[d] = call[d]
    BY <1>1, <1>2, <2>1
  <2> QED
    BY <1>2, <2>1, <2>2 DEF IsCall
<1>8. ASSUME NEW d \in Client
      PROVE  /\ client'[d].at = client[d].at /\ client'[d].entries = client[d].entries
             /\ client'[d].failed = client[d].failed /\ client'[d].listed = client[d].listed
             /\ client'[d].calm => client[d].calm /\ (client[d].at = "list" => d = c)
  <2>1. client'[d] = IF d # c /\ client[d].at = "list" THEN [client[d] EXCEPT !.calm = FALSE]
                     ELSE client[d]
    BY <1>2 DEF Shifted
  <2>2. CASE d # c /\ client[d].at = "list"
    <3>1. IsRun(client[d]) /\ client'[d] = [client[d] EXCEPT !.calm = FALSE]
      BY <1>2, <2>1, <2>2
    <3> QED
      BY <3>1 DEF IsRun
  <2>3. CASE ~(d # c /\ client[d].at = "list")
    BY <2>1, <2>3
  <2> QED
    BY <2>2, <2>3
<1>9. ASSUME NEW d \in Client, Rely(d), client[d].at = "list" => d = c
      PROVE  Rely(d)'
  <2>1. CheckedStill /\ client[d].at # "list"
    BY <1>2, <1>9 DEF Rely, NoCall
  <2>2. CheckedStill'
    BY <1>2, <1>7, <2>1 DEF CheckedStill
  <2>3. Missing' \subseteq Missing
    BY <1>2, <1>6, <2>1 DEF Missing
  <2>4. ASSUME client[d].at = "wait", call'[d].step = "stored", call[d].medium \in Medium
        PROVE  Indexed(call[d].medium)'
    <3>1. CASE d = c
      <4>1. m \in Medium /\ refused = {} /\ call[d].medium = m /\ call'[d].medium = m
        BY <1>7, <2>4, <3>1 DEF m
      <4>2. accepts
        BY <1>9, <2>4 DEF Rely, ListRead
      <4>3. vectors'[m] = new /\ 1 \in DOMAIN new /\ new[1].sha = library[m]
        BY <1>4, <1>5, <2>1, <4>1
      <4> QED
        BY <1>2, <4>1, <4>2, <4>3 DEF Indexed
    <3>2. CASE d # c
      <4>1. call'[d] = call[d] /\ Indexed(call[d].medium)
        BY <1>7, <1>9, <2>4, <3>2 DEF Rely
      <4>2. PICK n \in Medium : n = call[d].medium /\ n = call'[d].medium
        BY <2>4, <4>1
      <4>3. Indexed(n)'
        BY <1>6, <2>1, <4>1, <4>2
      <4> QED
        BY <4>2, <4>3 DEF Indexed
    <3> QED
      BY <3>1, <3>2
  <2>5. /\ ListRead(d)' <=> ListRead(d)
        /\ \A n : HasEntry(d, n)' <=> HasEntry(d, n)
    BY <1>8 DEF ListRead, HasEntry
  <2>6. call'[d].medium = call[d].medium
    BY <1>7
  <2> QED
    BY <1>2, <1>8, <1>9, <2>1, <2>2, <2>3, <2>4, <2>5, <2>6 DEF Rely
<1>10. ASSUME NEW d \in Client PROVE Clean(d)'
  <2>1. call'[d].medium = call[d].medium
    BY <1>7
  <2> QED
    BY <1>8, <1>9, <2>1 DEF CleanInv, Clean, Current
<1> QED
  BY <1>2, <1>10 DEF CleanInv

\* A step keeps both invariants.
LEMMA CleanStep ==
    ASSUME CleanInv, [MediaNext]_mediaVars
    PROVE  CleanInv'
<1>1. MediaInv'
  BY MediaStep DEF CleanInv
<1>2. CASE UNCHANGED mediaVars
  <2>1. UNCHANGED <<library, vectors, accepts, client, call>>
    BY <1>2 DEF mediaVars
  <2>2. ASSUME NEW c \in Client PROVE Clean(c)'
    BY <2>1, OthersLeave DEF CleanInv
  <2> QED
    BY <1>1, <2>1, <2>2 DEF CleanInv
<1>3. ASSUME NEW c \in Client, Skip(c) \/ GiveUp(c) PROVE CleanInv'
  <2>1. /\ client' = [client EXCEPT ![c] = Onward(client[c], 1)]
        /\ UNCHANGED <<library, vectors, accepts, call>> /\ client[c].at \in {"embed", "wait"}
    BY <1>3, Zenon DEF Skip, GiveUp
  <2>2. ListRead(c)
    BY <2>1 DEF ListRead
  <2> QED
    BY <1>1, <2>1, <2>2, FailsOn
<1>4. CASE MediaNext
  BY <1>1, <1>3, <1>4, BeginClean, ListClean, GetClean, SendClean, CheckClean, ApplyClean,
     AnswerClean, EndClean, WorldClean DEF MediaNext
<1> QED
  BY <1>2, <1>4

\* The beginning: nobody runs, nobody calls and no vector is stored.
LEMMA MediaStart == MediaInit => CleanInv
<1> SUFFICES ASSUME MediaInit PROVE CleanInv
  OBVIOUS
<1>1. DOMAIN <<>> = {}
  OBVIOUS
<1>2. IsRun(AtRest) /\ AtRest.at = "idle"
  BY DEF IsRun, AtRest
<1>3. IsCall(NoCall) /\ NoCall.step = "none" /\ NoCall.from = <<>>
  BY DEF IsCall, NoCall
<1>4. MediaInv
  <2>1. Crossing
    BY <1>3 DEF MediaInit, Crossing
  <2>2. MediaShape /\ Pure /\ Known
    BY <1>1, <1>2, <1>3 DEF MediaInit, MediaShape, Pure, Known
  <2>3. \A m \in Medium : DOMAIN vectors[m] = {}
    BY <1>1 DEF MediaInit
  <2>4. \A m \in Medium : OneUpload(m)
    BY <2>3 DEF OneUpload
  <2> QED
    BY <2>1, <2>2, <2>4 DEF MediaInv
<1>5. ASSUME NEW c \in Client PROVE Clean(c)
  BY <1>2 DEF MediaInit, Clean
<1> QED
  BY <1>4, <1>5 DEF MediaInit, CleanInv

\* What list_media reports as indexed has one vector per segment, all made from
\* the file as it is, unless an upload of the file failed in part or overlapped
\* another one; and a run that reports no failure, with no file or setting
\* changed since it began and nothing stored by others while it listed, leaves
\* no file without vectors (media.py, put_media_embeddings; media_sync.py).
THEOREM MediaExactAlways == MediaSpec => []MediaExact
<1>1. CleanInv /\ [MediaNext]_mediaVars => CleanInv'
  BY CleanStep
<1>2. CleanInv => IndexedIsWhole
  <2> SUFFICES ASSUME CleanInv, NEW m \in Medium, Indexed(m), m \notin torn
               PROVE  Complete(m)
    BY DEF IndexedIsWhole
  <2> QED
    BY DEF CleanInv, MediaInv, OneUpload, Indexed, Complete
<1>3. CleanInv => CleanRunLeavesNone
  <2> SUFFICES ASSUME CleanInv, NEW c \in Client, client[c].at = "done", client[c].calm,
                      client[c].failed = 0, NEW m \in Missing
               PROVE  FALSE
    BY DEF CleanRunLeavesNone
  <2>1. Clean(c) /\ Rely(c) /\ client[c].entries = {}
    BY DEF CleanInv, Clean
  <2>2. HasEntry(c, m)
    BY <2>1 DEF Rely, ListRead
  <2> QED
    BY <2>1, <2>2 DEF HasEntry
<1> QED
  BY <1>1, <1>2, <1>3, MediaStart, PTL DEF MediaSpec, MediaExact
-----------------------------------------------------------------------------
(* Chunking: sums.                                                         *)

\* f holds the sums of the first 0, 1, .. n numbers.
Summed(f, s, n) ==
    f \in [0 .. n -> Int] /\ f[0] = 0 /\ \A k \in 1 .. n : f[k] = f[k - 1] + s[k]

LEMMA Sums ==
    ASSUME NEW s \in Seq(Int), NEW n \in 0 .. Len(s)
    PROVE  \E f : Summed(f, s, n)
<1> DEFINE Bad == {m \in 0 .. Len(s) : ~\E f : Summed(f, s, m)}
<1>1. CASE Bad = {}
  BY <1>1
<1>2. CASE Bad # {}
  <2>1. PICK m \in Bad : \A j \in Bad : m <= j
    <3>1. Bad \in SUBSET Nat
      OBVIOUS
    <3> QED
      BY <1>2, <3>1, Least
  <2>2. m # 0
    <3>1. PICK f : f = [k \in 0 .. 0 |-> 0]
      OBVIOUS
    <3>2. Summed(f, s, 0)
      BY <3>1 DEF Summed
    <3> QED
      BY <2>1, <3>2
  <2>3. m \in 1 .. Len(s) /\ m - 1 \in 0 .. Len(s) /\ Len(s) \in Nat
    BY <2>1, <2>2, LenProperties
  <2>4. PICK f : Summed(f, s, m - 1)
    BY <2>1, <2>3
  <2>5. PICK g : g = [k \in 0 .. m |-> IF k = m THEN f[m - 1] + s[m] ELSE f[k]]
    OBVIOUS
  <2>6. f[m - 1] \in Int /\ s[m] \in Int
    BY <2>3, <2>4, ElementOfSeq DEF Summed
  <2>7. Summed(g, s, m)
    BY <2>3, <2>4, <2>5, <2>6, SMTT(30) DEF Summed
  <2> QED
    BY <2>1, <2>7
<1> QED
  BY <1>1, <1>2

LEMMA TotalSums ==
    ASSUME NEW s \in Seq(Int)
    PROVE  \E f : Summed(f, s, Len(s)) /\ Total(s) = f[Len(s)]
<1> DEFINE n == Len(s)
<1>1. n \in Nat
  BY LenProperties
<1>2. PICK f : Summed(f, s, n)
  BY <1>1, Sums
<1>3. f = [k \in 0 .. n |-> IF k = 0 THEN 0 ELSE f[k - 1] + s[k]]
  BY <1>1, <1>2 DEF Summed
<1> DEFINE upto == CHOOSE g : g = [k \in 0 .. n |-> IF k = 0 THEN 0 ELSE g[k - 1] + s[k]]
<1>4. upto = [k \in 0 .. n |-> IF k = 0 THEN 0 ELSE upto[k - 1] + s[k]]
  BY <1>3, Zenon
<1>5. Total(s) = upto[n]
  BY Zenon DEF Total
<1> HIDE DEF upto
<1>6. upto[0] = 0 /\ \A k \in 1 .. n : upto[k] = upto[k - 1] + s[k]
  BY <1>1, <1>4
<1> DEFINE Bad == {k \in 0 .. n : upto[k] # f[k]}
<1>7. CASE Bad # {}
  <2>1. PICK k \in Bad : \A j \in Bad : k <= j
    <3>1. Bad \in SUBSET Nat
      BY <1>1
    <3> QED
      BY <1>7, <3>1, Least
  <2>2. k # 0
    BY <1>2, <1>6, <2>1 DEF Summed
  <2>3. k \in 1 .. n /\ k - 1 \in 0 .. n
    BY <1>1, <2>1, <2>2
  <2>4. upto[k - 1] = f[k - 1]
    BY <2>1, <2>3
  <2> QED
    BY <1>2, <1>6, <2>1, <2>3, <2>4 DEF Summed
<1>8. CASE Bad = {}
  BY <1>1, <1>2, <1>5, <1>8
<1> QED
  BY <1>7, <1>8

LEMMA TotalEmpty == Total(<<>>) = 0
<1>1. <<>> \in Seq(Int) /\ Len(<<>>) = 0
  OBVIOUS
<1>2. PICK s : s = <<>>
  OBVIOUS
<1>3. s \in Seq(Int) /\ Len(s) = 0
  BY <1>1, <1>2
<1>4. PICK f : Summed(f, s, Len(s)) /\ Total(s) = f[Len(s)]
  BY <1>3, TotalSums
<1>5. Total(s) = 0
  BY <1>3, <1>4 DEF Summed
<1> QED
  BY <1>2, <1>5

LEMMA TotalInt ==
    ASSUME NEW s \in Seq(Int)
    PROVE  Total(s) \in Int
<1>1. PICK f : Summed(f, s, Len(s)) /\ Total(s) = f[Len(s)]
  BY TotalSums
<1>2. Len(s) \in Nat
  BY LenProperties
<1> QED
  BY <1>1, <1>2 DEF Summed

\* What holds of 0 and is kept by every element added holds of the sum.
LEMMA TotalConcat ==
    ASSUME NEW s \in Seq(Int), NEW t \in Seq(Int)
    PROVE  Total(s \o t) = Total(s) + Total(t)
<1> DEFINE u == s \o t
           m == Len(s)
           n == Len(t)
<1>1. u \in Seq(Int) /\ Len(u) = m + n /\ m \in Nat /\ n \in Nat
  BY ConcatProperties, LenProperties
<1>2. /\ \A k \in 1 .. m : u[k] = s[k]
      /\ \A k \in 1 .. n : u[m + k] = t[k]
  BY <1>1, ConcatProperties
<1> HIDE DEF u
<1>3. PICK f : Summed(f, s, m) /\ Total(s) = f[m]
  BY TotalSums
<1>4. PICK g : Summed(g, t, n) /\ Total(t) = g[n]
  BY TotalSums
<1>5. PICK h : Summed(h, u, m + n) /\ Total(u) = h[m + n]
  BY <1>1, TotalSums
<1>6. h[m] = f[m]
  <2> DEFINE Bad == {k \in 0 .. m : h[k] # f[k]}
  <2>1. CASE Bad = {}
    BY <1>1, <2>1
  <2>2. CASE Bad # {}
    <3>1. Bad \in SUBSET Nat
      BY <1>1
    <3>2. PICK k \in Bad : \A j \in Bad : k <= j
      BY <2>2, <3>1, Least
    <3>3. k # 0
      BY <1>3, <1>5, <3>2 DEF Summed
    <3>4. k \in 1 .. m /\ k - 1 \in 0 .. m /\ k \in 1 .. m + n
      BY <1>1, <3>2, <3>3
    <3>5. h[k - 1] = f[k - 1]
      BY <3>2, <3>4
    <3> QED
      BY <1>2, <1>3, <1>5, <3>2, <3>4, <3>5 DEF Summed
  <2> QED
    BY <2>1, <2>2
<1>7. h[m + n] = f[m] + g[n]
  <2>1. f[m] \in Int /\ \A k \in 0 .. n : g[k] \in Int
    <3>1. f \in [0 .. m -> Int] /\ m \in 0 .. m
      BY <1>1, <1>3 DEF Summed
    <3>2. g \in [0 .. n -> Int]
      BY <1>4 DEF Summed
    <3> QED
      BY <3>1, <3>2
  <2> DEFINE Bad == {k \in 0 .. n : h[m + k] # f[m] + g[k]}
  <2>2. CASE Bad = {}
    BY <1>1, <2>2, SMTT(30)
  <2>3. CASE Bad # {}
    <3>1. Bad \in SUBSET Nat
      BY <1>1
    <3>2. PICK k \in Bad : \A j \in Bad : k <= j
      BY <2>3, <3>1, Least
    <3>3. k # 0
      BY <1>1, <1>4, <1>6, <2>1, <3>2 DEF Summed
    <3>4. k \in 1 .. n /\ k - 1 \in 0 .. n /\ m + k \in 1 .. m + n /\ m + k - 1 = m + (k - 1)
      BY <1>1, <3>2, <3>3
    <3>5. h[m + (k - 1)] = f[m] + g[k - 1]
      BY <3>2, <3>4
    <3>6. h[m + k] = h[m + (k - 1)] + t[k] /\ g[k] = g[k - 1] + t[k]
      <4>1. h[m + k] = h[m + k - 1] + u[m + k]
        <5>1. \A j \in 1 .. m + n : h[j] = h[j - 1] + u[j]
          BY <1>5 DEF Summed
        <5>2. PICK j : j = m + k
          OBVIOUS
        <5>3. h[j] = h[j - 1] + u[j]
          BY <3>4, <5>1, <5>2
        <5> QED
          BY <5>2, <5>3
      <4>2. u[m + k] = t[k]
        BY <1>2, <3>4
      <4>3. g[k] = g[k - 1] + t[k]
        BY <1>4, <3>4 DEF Summed
      <4> QED
        BY <3>4, <4>1, <4>2, <4>3
    <3>7. t[k] \in Int /\ g[k - 1] \in Int
      BY <3>4, <2>1, ElementOfSeq
    <3> QED
      BY <2>1, <3>2, <3>5, <3>6, <3>7
  <2> QED
    BY <2>2, <2>3
<1> QED
  BY <1>3, <1>4, <1>5, <1>6, <1>7 DEF u

LEMMA TotalOne ==
    ASSUME NEW x \in Int
    PROVE  Total(<<x>>) = x
<1> DEFINE s == <<x>>
<1>1. s \in Seq(Int) /\ Len(s) = 1 /\ s[1] = x
  OBVIOUS
<1> HIDE DEF s
<1>2. PICK f : Summed(f, s, Len(s)) /\ Total(s) = f[Len(s)]
  BY <1>1, TotalSums
<1>3. f[1] = f[0] + s[1] /\ f[0] = 0
  BY <1>1, <1>2 DEF Summed
<1> QED
  BY <1>1, <1>2, <1>3 DEF s

LEMMA SumParity ==
    ASSUME NEW a \in Int, NEW b \in Int, a % 2 = 0
    PROVE  (a + b) % 2 = b % 2
OBVIOUS

\* A sum of even numbers is even.
LEMMA TotalEven ==
    ASSUME NEW s \in Seq(Int), \A k \in 1 .. Len(s) : s[k] % 2 = 0
    PROVE  Total(s) % 2 = 0
<1>1. PICK f : Summed(f, s, Len(s)) /\ Total(s) = f[Len(s)]
  BY TotalSums
<1>2. Len(s) \in Nat
  BY LenProperties
<1> DEFINE Bad == {k \in 0 .. Len(s) : f[k] % 2 # 0}
<1>3. CASE Bad = {}
  BY <1>1, <1>2, <1>3
<1>4. CASE Bad # {}
  <2>1. Bad \in SUBSET Nat
    BY <1>2
  <2>2. PICK k \in Bad : \A j \in Bad : k <= j
    BY <1>4, <2>1, Least
  <2>3. k # 0
    BY <1>1, <2>2 DEF Summed
  <2>4. k \in 1 .. Len(s) /\ k - 1 \in 0 .. Len(s)
    BY <1>2, <2>2, <2>3
  <2>5. f[k - 1] % 2 = 0
    BY <2>2, <2>4
  <2>6. f[k] = f[k - 1] + s[k] /\ f[k - 1] \in Int /\ s[k] \in Int
    BY <1>1, <2>4, ElementOfSeq DEF Summed
  <2>7. f[k] % 2 = 0
    <3>1. PICK a, b : a = f[k - 1] /\ b = s[k]
      OBVIOUS
    <3>2. a \in Int /\ b \in Int /\ a % 2 = 0 /\ b % 2 = 0
      BY <2>4, <2>5, <2>6, <3>1
    <3>3. (a + b) % 2 = 0
      BY <3>2, SumParity
    <3> QED
      BY <2>6, <3>1, <3>3
  <2> QED
    BY <2>2, <2>7
<1> QED
  BY <1>3, <1>4

\* A sum of zeros.
LEMMA TotalZero ==
    ASSUME NEW s \in Seq(Int), \A k \in 1 .. Len(s) : s[k] = 0
    PROVE  Total(s) = 0
<1>1. PICK f : Summed(f, s, Len(s)) /\ Total(s) = f[Len(s)]
  BY TotalSums
<1>2. Len(s) \in Nat
  BY LenProperties
<1> DEFINE Bad == {k \in 0 .. Len(s) : f[k] # 0}
<1>3. CASE Bad = {}
  BY <1>1, <1>2, <1>3
<1>4. CASE Bad # {}
  <2>1. Bad \in SUBSET Nat
    BY <1>2
  <2>2. PICK k \in Bad : \A j \in Bad : k <= j
    BY <1>4, <2>1, Least
  <2>3. k # 0
    BY <1>1, <2>2 DEF Summed
  <2>4. k \in 1 .. Len(s) /\ k - 1 \in 0 .. Len(s)
    BY <1>2, <2>2, <2>3
  <2>5. f[k - 1] = 0 /\ s[k] = 0 /\ f[k] = f[k - 1] + s[k]
    BY <1>1, <2>2, <2>4 DEF Summed
  <2> QED
    BY <2>2, <2>5
<1> QED
  BY <1>3, <1>4

-----------------------------------------------------------------------------
(* Chunking: pieces and lines.                                             *)

AllLines == UNION Alphabet
Piece == [at : Nat, from : Nat, to : Nat]

Widths(part) == [k \in DOMAIN part |-> part[k].to - part[k].from]
IsMark(p) == p.at = 0 \/ IsKind(p.at, "fence")
Marks(part) == [k \in DOMAIN part |-> IF IsMark(part[k]) THEN 1 ELSE 0]

LEMMA WidthsSeq ==
    ASSUME NEW part \in Seq(Piece)
    PROVE  /\ Widths(part) \in Seq(Int) /\ Len(Widths(part)) = Len(part)
           /\ DOMAIN part = 1 .. Len(part)
           /\ \A k \in 1 .. Len(part) : Widths(part)[k] = part[k].to - part[k].from
<1>1. Len(part) \in Nat /\ DOMAIN part = 1 .. Len(part)
  BY LenProperties
<1>2. \A k \in 1 .. Len(part) : part[k].to - part[k].from \in Int
  <2>1. ASSUME NEW k \in 1 .. Len(part) PROVE part[k] \in Piece
    BY ElementOfSeq
  <2> QED
    BY <2>1 DEF Piece
<1>3. Widths(part) \in [1 .. Len(part) -> Int]
  BY <1>1, <1>2 DEF Widths
<1>4. Widths(part) \in Seq(Int) /\ Len(Widths(part)) = Len(part)
  BY <1>1, <1>3, IsASeq, LenProperties
<1> QED
  BY <1>1, <1>4 DEF Widths

LEMMA MarksSeq ==
    ASSUME NEW part \in Seq(Piece)
    PROVE  /\ Marks(part) \in Seq(Int) /\ Len(Marks(part)) = Len(part)
           /\ DOMAIN part = 1 .. Len(part)
           /\ \A k \in 1 .. Len(part) : Marks(part)[k] = IF IsMark(part[k]) THEN 1 ELSE 0
<1>1. Len(part) \in Nat /\ DOMAIN part = 1 .. Len(part)
  BY LenProperties
<1>3. Marks(part) \in [1 .. Len(part) -> Int]
  BY <1>1 DEF Marks
<1>4. Marks(part) \in Seq(Int) /\ Len(Marks(part)) = Len(part)
  BY <1>1, <1>3, IsASeq, LenProperties
<1> QED
  BY <1>1, <1>4 DEF Marks

LEMMA TokensIsTotal == ASSUME NEW part PROVE Tokens(part) = Total(Widths(part))
BY Zenon DEF Tokens, Widths

LEMMA FencesIsTotal == ASSUME NEW part PROVE Fences(part) = Total(Marks(part))
BY Zenon DEF Fences, Marks, IsMark

LEMMA TokensInt == ASSUME NEW part \in Seq(Piece) PROVE Tokens(part) \in Int
BY WidthsSeq, TokensIsTotal, TotalInt

LEMMA FencesInt == ASSUME NEW part \in Seq(Piece) PROVE Fences(part) \in Int
BY MarksSeq, FencesIsTotal, TotalInt

LEMMA WidthsConcat ==
    ASSUME NEW a \in Seq(Piece), NEW b \in Seq(Piece)
    PROVE  Widths(a \o b) = Widths(a) \o Widths(b)
<1>1. a \o b \in Seq(Piece) /\ Len(a \o b) = Len(a) + Len(b) /\ Len(a) \in Nat /\ Len(b) \in Nat
  BY ConcatProperties, LenProperties
<1> DEFINE u == Widths(a \o b)
           v == Widths(a) \o Widths(b)
<1>2. u \in Seq(Int) /\ Len(u) = Len(a) + Len(b)
  BY <1>1, WidthsSeq
<1>3. v \in Seq(Int) /\ Len(v) = Len(a) + Len(b)
  <2>1. Widths(a) \in Seq(Int) /\ Len(Widths(a)) = Len(a)
    BY WidthsSeq
  <2>2. Widths(b) \in Seq(Int) /\ Len(Widths(b)) = Len(b)
    BY WidthsSeq
  <2> HIDE DEF v
  <2>3. /\ Widths(a) \o Widths(b) \in Seq(Int)
        /\ Len(Widths(a) \o Widths(b)) = Len(Widths(a)) + Len(Widths(b))
    BY <2>1, <2>2, ConcatProperties
  <2> QED
    BY <2>1, <2>2, <2>3 DEF v
<1>4. ASSUME NEW k \in 1 .. Len(a) + Len(b) PROVE u[k] = v[k]
  <2>1. u[k] = (a \o b)[k].to - (a \o b)[k].from
    BY <1>1, WidthsSeq
  <2>2. CASE k \in 1 .. Len(a)
    <3>1. (a \o b)[k] = a[k] /\ v[k] = Widths(a)[k]
      BY <1>1, <2>2, WidthsSeq, ConcatProperties
    <3> QED
      BY <2>1, <2>2, <3>1, WidthsSeq
  <2>3. CASE k \notin 1 .. Len(a)
    <3>1. k - Len(a) \in 1 .. Len(b)
      BY <1>1, <2>3
    <3>2. (a \o b)[k] = b[k - Len(a)] /\ v[k] = Widths(b)[k - Len(a)]
      BY <1>1, <2>3, WidthsSeq, ConcatProperties
    <3> QED
      BY <2>1, <3>1, <3>2, WidthsSeq
  <2> QED
    BY <2>2, <2>3
<1> HIDE DEF u, v
<1>5. u = v
  BY <1>2, <1>3, <1>4, SeqEqual
<1> QED
  BY <1>5 DEF u, v

LEMMA MarksConcat ==
    ASSUME NEW a \in Seq(Piece), NEW b \in Seq(Piece)
    PROVE  Marks(a \o b) = Marks(a) \o Marks(b)
<1>1. a \o b \in Seq(Piece) /\ Len(a \o b) = Len(a) + Len(b) /\ Len(a) \in Nat /\ Len(b) \in Nat
  BY ConcatProperties, LenProperties
<1> DEFINE u == Marks(a \o b)
           v == Marks(a) \o Marks(b)
<1>2. u \in Seq(Int) /\ Len(u) = Len(a) + Len(b)
  BY <1>1, MarksSeq
<1>3. v \in Seq(Int) /\ Len(v) = Len(a) + Len(b)
  <2>1. Marks(a) \in Seq(Int) /\ Len(Marks(a)) = Len(a)
    BY MarksSeq
  <2>2. Marks(b) \in Seq(Int) /\ Len(Marks(b)) = Len(b)
    BY MarksSeq
  <2> HIDE DEF v
  <2>3. /\ Marks(a) \o Marks(b) \in Seq(Int)
        /\ Len(Marks(a) \o Marks(b)) = Len(Marks(a)) + Len(Marks(b))
    BY <2>1, <2>2, ConcatProperties
  <2> QED
    BY <2>1, <2>2, <2>3 DEF v
<1>4. ASSUME NEW k \in 1 .. Len(a) + Len(b) PROVE u[k] = v[k]
  <2>1. u[k] = IF IsMark((a \o b)[k]) THEN 1 ELSE 0
    BY <1>1, MarksSeq
  <2>2. CASE k \in 1 .. Len(a)
    <3>1. (a \o b)[k] = a[k] /\ v[k] = Marks(a)[k]
      BY <1>1, <2>2, MarksSeq, ConcatProperties
    <3> QED
      BY <2>1, <2>2, <3>1, MarksSeq
  <2>3. CASE k \notin 1 .. Len(a)
    <3>1. k - Len(a) \in 1 .. Len(b)
      BY <1>1, <2>3
    <3>2. (a \o b)[k] = b[k - Len(a)] /\ v[k] = Marks(b)[k - Len(a)]
      BY <1>1, <2>3, MarksSeq, ConcatProperties
    <3> QED
      BY <2>1, <3>1, <3>2, MarksSeq
  <2> QED
    BY <2>2, <2>3
<1> HIDE DEF u, v
<1>5. u = v
  BY <1>2, <1>3, <1>4, SeqEqual
<1> QED
  BY <1>5 DEF u, v

LEMMA TokensConcat ==
    ASSUME NEW a \in Seq(Piece), NEW b \in Seq(Piece)
    PROVE  Tokens(a \o b) = Tokens(a) + Tokens(b)
BY WidthsSeq, WidthsConcat, TokensIsTotal, TotalConcat

LEMMA FencesConcat ==
    ASSUME NEW a \in Seq(Piece), NEW b \in Seq(Piece)
    PROVE  Fences(a \o b) = Fences(a) + Fences(b)
BY MarksSeq, MarksConcat, FencesIsTotal, TotalConcat

LEMMA OnePiece ==
    ASSUME NEW p \in Piece
    PROVE  /\ <<p>> \in Seq(Piece)
           /\ Tokens(<<p>>) = p.to - p.from
           /\ Fences(<<p>>) = IF IsMark(p) THEN 1 ELSE 0
<1>1. <<p>> \in Seq(Piece) /\ Len(<<p>>) = 1 /\ <<p>>[1] = p
  OBVIOUS
<1>2. p.to - p.from \in Int
  BY DEF Piece
<1>3. Widths(<<p>>) = <<p.to - p.from>>
  BY <1>1 DEF Widths
<1>4. Marks(<<p>>) = <<IF IsMark(p) THEN 1 ELSE 0>>
  BY <1>1 DEF Marks
<1>5. Tokens(<<p>>) = p.to - p.from
  BY <1>2, <1>3, TokensIsTotal, TotalOne
<1>6. Fences(<<p>>) = IF IsMark(p) THEN 1 ELSE 0
  BY <1>4, FencesIsTotal, TotalOne
<1> QED
  BY <1>1, <1>5, <1>6

LEMMA NoPieces == <<>> \in Seq(Piece) /\ Tokens(<<>>) = 0 /\ Fences(<<>>) = 0
<1>1. Widths(<<>>) = <<>> /\ Marks(<<>>) = <<>>
  BY DEF Widths, Marks
<1>2. <<>> \in Seq(Piece)
  OBVIOUS
<1> QED
  BY <1>1, <1>2, TokensIsTotal, FencesIsTotal, TotalEmpty

\* Pieces without a fence.
LEMMA FencesNone ==
    ASSUME NEW part \in Seq(Piece), \A p \in Range(part) : ~IsMark(p)
    PROVE  Fences(part) = 0
<1>1. ASSUME NEW k \in 1 .. Len(part) PROVE Marks(part)[k] = 0
  <2>1. part[k] \in Range(part)
    BY MarksSeq DEF Range
  <2> QED
    BY <2>1, MarksSeq
<1>2. Marks(part) \in Seq(Int) /\ Len(Marks(part)) = Len(part)
  BY MarksSeq
<1> QED
  BY <1>1, <1>2, FencesIsTotal, TotalZero

LEMMA TokensAppend ==
    ASSUME NEW part \in Seq(Piece), NEW p \in Piece
    PROVE  /\ Append(part, p) \in Seq(Piece)
           /\ Tokens(Append(part, p)) = Tokens(part) + (p.to - p.from)
<1>1. Append(part, p) = part \o <<p>>
  BY AppendIsConcat
<1>2. part \o <<p>> \in Seq(Piece)
  BY OnePiece, ConcatProperties
<1> QED
  BY <1>1, <1>2, OnePiece, TokensConcat

LEMMA JoinedOne ==
    ASSUME NEW part \in Seq(Piece)
    PROVE  Joined(<<part>>) = Tokens(part)
<1>1. [k \in DOMAIN <<part>> |-> Tokens(<<part>>[k])] = <<Tokens(part)>>
  OBVIOUS
<1>2. <<part>> # <<>> /\ Len(<<part>>) = 1
  OBVIOUS
<1>3. Total(<<Tokens(part)>>) = Tokens(part) /\ Tokens(part) \in Int
  BY TokensInt, TotalOne
<1> QED
  BY <1>1, <1>2, <1>3 DEF Joined

LEMMA LineType ==
    ASSUME markdown \in Seq(AllLines), NEW i \in 1 .. Len(markdown)
    PROVE  /\ markdown[i].tokens \in Nat \ {0} /\ markdown[i].level \in Nat
           /\ markdown[i].level > 0 <=> IsKind(i, "heading")
           /\ Whole(i) \in Piece /\ Whole(i).at = i
           /\ Whole(i).from = 0 /\ Whole(i).to = markdown[i].tokens
           /\ IsMark(Whole(i)) <=> IsKind(i, "fence")
<1>1. markdown[i] \in UNION Alphabet
  BY ElementOfSeq DEF AllLines
<1>2. PICK l : l = markdown[i]
  OBVIOUS
<1>3. l \in UNION Alphabet
  BY <1>1, <1>2
<1>4. /\ l.tokens \in Nat \ {0} /\ l.level \in Nat
      /\ l.level > 0 <=> l.kind = "heading"
  BY <1>3, ChunkingAssumption
<1>5. i \in Nat /\ i # 0
  BY LenProperties
<1>6. Whole(i) = [at |-> i, from |-> 0, to |-> l.tokens]
  BY <1>2 DEF Whole, Span
<1>7. /\ Whole(i) \in Piece /\ Whole(i).at = i
      /\ Whole(i).from = 0 /\ Whole(i).to = l.tokens
  BY <1>4, <1>5, <1>6 DEF Piece
<1>8. IsMark(Whole(i)) <=> IsKind(i, "fence")
  BY <1>5, <1>7 DEF IsMark
<1> QED
  BY <1>2, <1>4, <1>7, <1>8 DEF IsKind

LEMMA LinesSeq ==
    ASSUME markdown \in Seq(AllLines), NEW a \in 1 .. Len(markdown) + 1,
           NEW b \in a - 1 .. Len(markdown)
    PROVE  /\ Lines(a, b) \in Seq(Piece) /\ Len(Lines(a, b)) = b - a + 1
           /\ \A k \in 1 .. b - a + 1 : Lines(a, b)[k] = Whole(a + k - 1)
           /\ \A p \in Range(Lines(a, b)) : \E i \in a .. b : p = Whole(i)
           /\ \A i \in a .. b : Whole(i) \in Range(Lines(a, b))
<1>1. Len(markdown) \in Nat /\ b - a + 1 \in Nat /\ a \in Nat /\ b \in Nat
  BY LenProperties
<1>2. ASSUME NEW k \in 1 .. b - a + 1
      PROVE  a + k - 1 \in a .. b /\ a + k - 1 \in 1 .. Len(markdown) /\ Whole(a + k - 1) \in Piece
  <2>1. a + k - 1 \in a .. b /\ a + k - 1 \in 1 .. Len(markdown)
    BY <1>1
  <2> QED
    BY <2>1, LineType
<1>3. Lines(a, b) \in [1 .. b - a + 1 -> Piece]
  BY <1>1, <1>2 DEF Lines
<1>4. Lines(a, b) \in Seq(Piece) /\ Len(Lines(a, b)) = b - a + 1
  BY <1>1, <1>3, IsASeq, LenProperties
<1>5. \A k \in 1 .. b - a + 1 : Lines(a, b)[k] = Whole(a + k - 1)
  BY DEF Lines
<1>6. DOMAIN Lines(a, b) = 1 .. b - a + 1
  BY DEF Lines
<1>7. ASSUME NEW p \in Range(Lines(a, b)) PROVE \E i \in a .. b : p = Whole(i)
  <2>1. PICK k \in 1 .. b - a + 1 : p = Lines(a, b)[k]
    BY <1>6 DEF Range
  <2> QED
    BY <1>2, <1>5, <2>1
<1>8. ASSUME NEW i \in a .. b PROVE Whole(i) \in Range(Lines(a, b))
  <2>1. i - a + 1 \in 1 .. b - a + 1 /\ a + (i - a + 1) - 1 = i
    BY <1>1
  <2>2. Lines(a, b)[i - a + 1] = Whole(i)
    BY <1>5, <2>1
  <2> QED
    BY <1>6, <2>1, <2>2 DEF Range
<1> QED
  BY <1>4, <1>5, <1>7, <1>8

\* Lines in a row are the lines before one place and those after it.
LEMMA LinesSplit ==
    ASSUME markdown \in Seq(AllLines), NEW a \in 1 .. Len(markdown) + 1,
           NEW m \in a - 1 .. Len(markdown), NEW b \in m .. Len(markdown)
    PROVE  Lines(a, b) = Lines(a, m) \o Lines(m + 1, b)
<1> DEFINE u == Lines(a, b)
           v == Lines(a, m) \o Lines(m + 1, b)
<1>1. /\ Len(markdown) \in Nat /\ b \in a - 1 .. Len(markdown) /\ a \in Nat /\ m \in Nat /\ b \in Nat
      /\ m + 1 \in 1 .. Len(markdown) + 1 /\ b \in (m + 1) - 1 .. Len(markdown)
  BY LenProperties
<1>2. u \in Seq(Piece) /\ Len(u) = b - a + 1
  BY <1>1, LinesSeq
<1>3. /\ Lines(a, m) \in Seq(Piece) /\ Len(Lines(a, m)) = m - a + 1
      /\ Lines(m + 1, b) \in Seq(Piece) /\ Len(Lines(m + 1, b)) = b - (m + 1) + 1
  BY <1>1, LinesSeq
<1>4. v \in Seq(Piece) /\ Len(v) = b - a + 1
  <2>1. PICK x, y : x = Lines(a, m) /\ y = Lines(m + 1, b)
    OBVIOUS
  <2>2. x \in Seq(Piece) /\ y \in Seq(Piece) /\ Len(x) = m - a + 1 /\ Len(y) = b - (m + 1) + 1
    BY <1>3, <2>1
  <2>3. x \o y \in Seq(Piece) /\ Len(x \o y) = Len(x) + Len(y)
    BY <2>2, ConcatProperties
  <2>4. Len(x \o y) = b - a + 1
    BY <1>1, <2>2, <2>3
  <2> QED
    BY <2>1, <2>3, <2>4
<1>5. ASSUME NEW k \in 1 .. b - a + 1 PROVE u[k] = v[k]
  <2>1. u[k] = Whole(a + k - 1)
    BY <1>1, LinesSeq
  <2>2. CASE k <= m - a + 1
    <3>1. k \in 1 .. m - a + 1
      BY <1>1, <2>2
    <3>2. v[k] = Lines(a, m)[k]
      BY <1>1, <1>3, <2>2, ConcatProperties
    <3>3. Lines(a, m)[k] = Whole(a + k - 1)
      BY <3>1, LinesSeq
    <3> QED
      BY <2>1, <3>2, <3>3
  <2>3. CASE ~(k <= m - a + 1)
    <3>1. PICK j : j = k - (m - a + 1)
      OBVIOUS
    <3>2. j \in 1 .. b - (m + 1) + 1 /\ (m + 1) + j - 1 = a + k - 1
      BY <1>1, <2>3, <3>1
    <3>3. v[k] = Lines(m + 1, b)[j]
      BY <1>1, <1>3, <2>3, <3>1, ConcatProperties, SMTT(30)
    <3>4. Lines(m + 1, b)[j] = Whole((m + 1) + j - 1)
      BY <1>1, <3>2, LinesSeq
    <3> QED
      BY <2>1, <3>2, <3>3, <3>4
  <2> QED
    BY <2>2, <2>3
<1> HIDE DEF u, v
<1>6. u = v
  BY <1>1, <1>2, <1>4, <1>5, SeqEqual
<1> QED
  BY <1>6 DEF u, v

LEMMA LinesOne ==
    ASSUME markdown \in Seq(AllLines), NEW i \in 1 .. Len(markdown)
    PROVE  Lines(i, i) = <<Whole(i)>>
<1>1. i \in Nat /\ i - i + 1 = 1 /\ i + 1 - 1 = i
  BY LenProperties
<1>2. Lines(i, i) = [k \in 1 .. 1 |-> Whole(i + k - 1)]
  BY <1>1 DEF Lines
<1> QED
  BY <1>1, <1>2

LEMMA LinesNone ==
    ASSUME markdown \in Seq(AllLines), NEW a \in 1 .. Len(markdown) + 1
    PROVE  Lines(a, a - 1) = <<>>
<1>1. a - 1 \in a - 1 .. Len(markdown) /\ (a - 1) - a + 1 = 0
  BY LenProperties
<1>2. Lines(a, a - 1) \in Seq(Piece) /\ Len(Lines(a, a - 1)) = 0
  BY <1>1, LinesSeq
<1> QED
  BY <1>2, EmptySeq

LEMMA FencedStart == ~Fenced(0)
<1>1. Lines(1, 0) = <<>>
  BY DEF Lines
<1> QED
  BY <1>1, NoPieces DEF Fenced

LEMMA FencedStep ==
    ASSUME markdown \in Seq(AllLines), NEW i \in 1 .. Len(markdown)
    PROVE  Fenced(i) <=> (IF IsKind(i, "fence") THEN ~Fenced(i - 1) ELSE Fenced(i - 1))
<1>1. /\ 1 \in 1 .. Len(markdown) + 1 /\ i - 1 \in 1 - 1 .. Len(markdown)
      /\ i \in i - 1 .. Len(markdown) /\ (i - 1) + 1 = i
  BY LenProperties
<1>2. Lines(1, i) = Lines(1, i - 1) \o <<Whole(i)>>
  BY <1>1, LinesSplit, LinesOne
<1>3. PICK a, b : a = Fences(Lines(1, i - 1)) /\ b = Fences(<<Whole(i)>>)
  OBVIOUS
<1>4. Lines(1, i - 1) \in Seq(Piece) /\ <<Whole(i)>> \in Seq(Piece)
  BY <1>1, LinesSeq, LineType, OnePiece
<1>5. a \in Int /\ b = (IF IsKind(i, "fence") THEN 1 ELSE 0)
  BY <1>3, <1>4, FencesInt, OnePiece, LineType
<1>6. Fences(Lines(1, i)) = a + b
  BY <1>2, <1>3, <1>4, FencesConcat
<1>7. (a + b) % 2 = 1 <=> (IF IsKind(i, "fence") THEN a % 2 # 1 ELSE a % 2 = 1)
  BY <1>5
<1> QED
  BY <1>3, <1>6, <1>7 DEF Fenced

LEMMA EvenBetween ==
    ASSUME markdown \in Seq(AllLines), NEW a \in 1 .. Len(markdown), NEW b \in a .. Len(markdown),
           ~Fenced(a - 1), ~Fenced(b)
    PROVE  Fences(Lines(a, b)) % 2 = 0
<1>1. /\ 1 \in 1 .. Len(markdown) + 1 /\ a - 1 \in 1 - 1 .. Len(markdown)
      /\ b \in a - 1 .. Len(markdown) /\ (a - 1) + 1 = a /\ a \in 1 .. Len(markdown) + 1
  BY LenProperties
<1>2. Lines(1, b) = Lines(1, a - 1) \o Lines(a, b)
  BY <1>1, LinesSplit
<1>3. Lines(1, a - 1) \in Seq(Piece) /\ Lines(a, b) \in Seq(Piece)
  BY <1>1, LinesSeq
<1>4. PICK x, y : x = Fences(Lines(1, a - 1)) /\ y = Fences(Lines(a, b))
  OBVIOUS
<1>5. x \in Int /\ y \in Int /\ Fences(Lines(1, b)) = x + y
  BY <1>2, <1>3, <1>4, FencesInt, FencesConcat
<1>6. x % 2 # 1 /\ (x + y) % 2 # 1
  BY <1>4, <1>5 DEF Fenced
<1>7. y % 2 = 0
  BY <1>5, <1>6
<1> QED
  BY <1>4, <1>7

LEMMA PathStart == PathOf(0) = {}
BY DEF PathOf

\* The path of a line from that of the line before.
LEMMA PathStep ==
    ASSUME markdown \in Seq(AllLines), NEW i \in 1 .. Len(markdown)
    PROVE  PathOf(i) = IF Heading(i)
                       THEN {l \in PathOf(i - 1) : l < markdown[i].level} \cup {markdown[i].level}
                       ELSE PathOf(i - 1)
<1> DEFINE above(m) == {j \in 1 .. m : Heading(j) /\ \A k \in j + 1 .. m :
                                          Heading(k) => markdown[k].level > markdown[j].level}
<1>1. \A m : PathOf(m) = {markdown[j].level : j \in above(m)}
  BY DEF PathOf
<1>2. i \in Nat /\ i > 0 /\ \A j \in 1 .. i : markdown[j].level \in Nat
  BY LenProperties, LineType
<1>3. ASSUME NEW j
      PROVE  j \in above(i) <=> \/ j = i /\ Heading(i)
                                \/ /\ j \in above(i - 1)
                                   /\ Heading(i) => markdown[i].level > markdown[j].level
  <2>1. CASE j = i
    BY <1>2, <2>1
  <2>2. CASE j # i /\ j \in 1 .. i
    <3>1. j \in 1 .. i - 1 /\ j \in Nat /\ \A k \in Nat : k \in j + 1 .. i <=> k \in j + 1 .. i - 1 \/ k = i
      BY <1>2, <2>2
    <3> QED
      BY <1>2, <2>2, <3>1
  <2>3. CASE j \notin 1 .. i
    <3>1. j \notin 1 .. i - 1 /\ j # i
      BY <1>2, <2>3
    <3> QED
      BY <2>3, <3>1
  <2> QED
    BY <2>1, <2>2, <2>3
<1> HIDE DEF above
<1>4. CASE Heading(i)
  <2>1. PathOf(i) = {l \in PathOf(i - 1) : l < markdown[i].level} \cup {markdown[i].level}
    <3>1. \A j : j \in above(i - 1) => j \in 1 .. i
      BY <1>2 DEF above
    <3>2. ASSUME NEW l
          PROVE  l \in PathOf(i) <=>
                    l = markdown[i].level \/ (l \in PathOf(i - 1) /\ l < markdown[i].level)
      BY <1>1, <1>2, <1>3, <1>4, <3>1
    <3> QED
      BY <1>1, <3>2
  <2> QED
    BY <1>1, <1>4, <2>1
<1>5. CASE ~Heading(i)
  <2>1. above(i) = above(i - 1)
    BY <1>3, <1>5
  <2> QED
    BY <1>1, <1>5, <2>1
<1> QED
  BY <1>4, <1>5

LEMMA Quotient ==
    ASSUME NEW a \in Nat, NEW w \in Nat \ {0}
    PROVE  /\ a \div w \in Nat
           /\ (a \div w) * w <= a /\ a < ((a \div w) + 1) * w
OBVIOUS

LEMMA TimesRises ==
    ASSUME NEW a \in Int, NEW b \in Int, a <= b, NEW w \in Nat
    PROVE  a * w <= b * w
OBVIOUS

LEMMA TimesNext ==
    ASSUME NEW a \in Int, NEW w \in Int
    PROVE  (a + 1) * w = a * w + w /\ (a - 1) * w = a * w - w /\ a * w \in Int
OBVIOUS

\* The pieces of a line: each within the width, and every token in one of them.
LEMMA CutsCover ==
    ASSUME markdown \in Seq(AllLines), NEW i \in 1 .. Len(markdown), NEW w \in Nat \ {0}
    PROVE  /\ Cuts(i, w) \in Seq(Piece) /\ Len(Cuts(i, w)) \in Nat \ {0}
           /\ \A k \in 1 .. Len(Cuts(i, w)) :
                 /\ Cuts(i, w)[k].at = i
                 /\ Cuts(i, w)[k].from <= Cuts(i, w)[k].to
                 /\ Cuts(i, w)[k].to - Cuts(i, w)[k].from <= w
           /\ \A n \in 1 .. markdown[i].tokens : \E k \in 1 .. Len(Cuts(i, w)) :
                 n \in Cuts(i, w)[k].from + 1 .. Cuts(i, w)[k].to
<1>1. PICK t : t = markdown[i].tokens
  OBVIOUS
<1>2. t \in Nat \ {0} /\ i \in Nat
  BY <1>1, LineType, LenProperties
<1>3. PICK m : m = (t + w - 1) \div w
  OBVIOUS
<1>4. m \in Nat /\ m * w <= t + w - 1 /\ t + w - 1 < (m + 1) * w
  <2>1. t + w - 1 \in Nat
    BY <1>2
  <2> QED
    BY <1>3, <2>1, Quotient
<1>5. (m - 1) * w < t /\ t <= m * w
  <2>1. (m + 1) * w = m * w + w /\ (m - 1) * w = m * w - w /\ m * w \in Int
    BY <1>4, TimesNext
  <2> QED
    BY <1>2, <1>4, <2>1
<1>6. m # 0
  <2>1. CASE m = 0
    <3>1. m * w = 0
      BY <2>1
    <3> QED
      BY <1>2, <1>5, <3>1
  <2> QED
    BY <2>1
<1>7. PICK c : c = [k \in 1 .. m |-> Span(i, (k - 1) * w, IF k * w < t THEN k * w ELSE t)]
  OBVIOUS
<1>8. Cuts(i, w) = c
  BY <1>1, <1>3, <1>7 DEF Cuts
<1>9. ASSUME NEW k \in 1 .. m
      PROVE  /\ c[k] \in Piece /\ c[k].at = i /\ c[k].from = (k - 1) * w
             /\ c[k].to = IF k * w < t THEN k * w ELSE t
             /\ c[k].from <= c[k].to /\ c[k].to - c[k].from <= w
  <2>1. c[k] = Span(i, (k - 1) * w, IF k * w < t THEN k * w ELSE t)
    BY <1>7
  <2>2. PICK x, y : x = (k - 1) * w /\ y = k * w
    OBVIOUS
  <2>3. x = y - w /\ y \in Int
    BY <2>2, TimesNext
  <2>4. x \in Nat
    <3>1. 0 * w <= (k - 1) * w
      BY TimesRises
    <3>2. 0 * w = 0 /\ (k - 1) * w \in Int
      OBVIOUS
    <3> QED
      BY <2>2, <3>1, <3>2
  <2>5. x < t
    <3>1. k - 1 <= m - 1 /\ k - 1 \in Int /\ m - 1 \in Int
      BY <1>4
    <3>2. (k - 1) * w <= (m - 1) * w
      BY <3>1, TimesRises
    <3>3. (m - 1) * w \in Int
      BY <1>4
    <3> QED
      BY <1>2, <1>5, <2>2, <2>4, <3>2, <3>3
  <2>6. c[k] = [at |-> i, from |-> x, to |-> IF y < t THEN y ELSE t]
    BY <2>1, <2>2 DEF Span
  <2>7. PICK z : z = IF y < t THEN y ELSE t
    OBVIOUS
  <2>8. z \in Nat /\ x <= z /\ z - x <= w
    BY <1>2, <2>3, <2>4, <2>5, <2>7
  <2>9. c[k] = [at |-> i, from |-> x, to |-> z]
    BY <2>6, <2>7
  <2>10. c[k] \in Piece /\ c[k].at = i /\ c[k].from = x /\ c[k].to = z
    BY <1>2, <2>4, <2>8, <2>9 DEF Piece
  <2> QED
    BY <2>2, <2>7, <2>8, <2>10
<1>10. c \in Seq(Piece) /\ Len(c) = m
  <2>1. c \in [1 .. m -> Piece]
    BY <1>7, <1>9
  <2> QED
    BY <1>4, <2>1, IsASeq, LenProperties
<1>11. ASSUME NEW n \in 1 .. t
       PROVE  \E k \in 1 .. m : n \in c[k].from + 1 .. c[k].to
  <2>1. PICK q : q = (n - 1) \div w
    OBVIOUS
  <2>2. q \in Nat /\ q * w <= n - 1 /\ n - 1 < (q + 1) * w
    <3>1. n - 1 \in Nat
      BY <1>2
    <3> QED
      BY <2>1, <3>1, Quotient
  <2>3. q < m
    <3>1. CASE m <= q
      <4>1. m * w <= q * w
        BY <1>4, <2>2, <3>1, TimesRises
      <4>2. m * w \in Int /\ q * w \in Int
        BY <1>4, <2>2
      <4> QED
        BY <1>2, <1>5, <2>2, <4>1, <4>2
    <3> QED
      BY <1>4, <2>2, <3>1
  <2>4. q + 1 \in 1 .. m /\ q + 1 - 1 = q
    BY <1>4, <2>2, <2>3
  <2>5. c[q + 1].from = q * w /\ c[q + 1].to = IF (q + 1) * w < t THEN (q + 1) * w ELSE t
    <3>1. PICK k : k = q + 1
      OBVIOUS
    <3>2. k \in 1 .. m /\ k - 1 = q
      BY <2>2, <2>4, <3>1
    <3>3. c[k].from = (k - 1) * w /\ c[k].to = IF k * w < t THEN k * w ELSE t
      BY <1>9, <3>2
    <3> QED
      BY <3>1, <3>2, <3>3
  <2>6. PICK x, y : x = q * w /\ y = (q + 1) * w
    OBVIOUS
  <2>7. x \in Int /\ y \in Int /\ x <= n - 1 /\ n - 1 < y
    BY <2>2, <2>6
  <2>8. n \in c[q + 1].from + 1 .. c[q + 1].to
    BY <1>2, <2>5, <2>6, <2>7
  <2> QED
    BY <2>4, <2>8
<1> QED
  BY <1>1, <1>4, <1>6, <1>8, <1>9, <1>10, <1>11

-----------------------------------------------------------------------------
(* Chunking: the inductive invariant.                                      *)

Loops == {"write", "split", "chunk", "blocks", "parts", "lines", "rows", "merge", "done"}
\* A section is being cut, a block is being cut.
InSection == {"blocks", "parts", "lines", "rows"}
InCut == {"lines", "rows"}

SectionSet == [path : SUBSET Nat, first : Nat, last : Nat]
BlockSet == [first : Nat, last : Nat]
ChunkSet == [path : SUBSET Nat, parts : Seq(Seq(Piece))]

ChunkingType ==
    /\ markdown \in Seq(AllLines) /\ progress \in Loops /\ line \in Nat \ {0}
    /\ outline \in [stack : SUBSET Nat, fenced : BOOLEAN, pending : Nat \ {0}, current : Nat \ {0}]
    /\ sections \in Seq(SectionSet)
    /\ block \in [first : Nat, kind : {"plain", "fence", "table"}]
    /\ blocks \in Seq(BlockSet) /\ gathered \in Seq(Piece)
    /\ parts \in Seq(Seq(Piece)) /\ open \in Seq(Seq(Piece))
    /\ chunks \in Seq(ChunkSet) /\ at \in Nat \ {0}

\* What the loops leave behind when they end.
Quiet ==
    /\ progress = "write" =>
          line = 1 /\ outline = [stack |-> {}, fenced |-> FALSE, pending |-> 1, current |-> 1]
    /\ progress # "write" => markdown # <<>>
    /\ progress = "write" => sections = <<>>
    /\ progress \in {"write", "split"} => chunks = <<>>
    /\ progress \in {"merge", "done"} => sections = <<>>
    /\ progress \in InSection \cup {"chunk"} => sections # <<>>
    /\ progress \notin InSection => blocks = <<>> /\ parts = <<>> /\ open = <<>>
    /\ progress # "blocks" => block = NoBlock
    /\ progress = "blocks" => parts = <<>>
    /\ progress \notin InCut => gathered = <<>>
    /\ progress \in InCut => blocks # <<>>
    /\ progress \in InCut \cup {"blocks"} \/ blocks # <<>> => open = <<>>

Clear == ~Fenced(Len(markdown)) /\ FencesFit
NoFence(i) == ~IsKind(i, "fence")

Under(i, path) == PathOf(i) \subseteq path /\ (PathOf(i) # path => Heading(i) \/ Bare(i))
PieceOK(p, path) ==
    p.from <= p.to /\ (p.at = 0 \/ (p.at \in 1 .. Len(markdown) /\ Under(p.at, path)))
PartOK(part, path) ==
    /\ Tokens(part) <= ChunkSize
    /\ \A p \in Range(part) : PieceOK(p, path)
    /\ Clear => Fences(part) % 2 = 0
ChunkOK(c) ==
    /\ \A part \in Range(c.parts) : PartOK(part, c.path)
    /\ Joined(c.parts) <= ChunkSize
SectionOK(s) ==
    /\ 1 <= s.first /\ s.first <= s.last /\ s.last <= Len(markdown)
    /\ \A i \in s.first .. s.last : Under(i, s.path)
    /\ ~Fenced(s.first - 1) /\ (s.last = Len(markdown) \/ ~Fenced(s.last))

SplitOK ==
    progress = "split" =>
        /\ outline.pending <= outline.current /\ outline.current <= line
        /\ line <= Len(markdown) + 1
        /\ line > 1 => outline.current < line
        /\ outline.fenced <=> Fenced(line - 1)
        /\ outline.stack = PathOf(line - 1)
        /\ \A i \in outline.current .. line - 1 : PathOf(i) = outline.stack
        /\ \A i \in outline.pending .. outline.current - 1 :
              PathOf(i) \subseteq outline.stack /\ (Heading(i) \/ Bare(i))
        /\ outline.stack # {} => Heading(outline.current)
        /\ ~Fenced(outline.pending - 1)

BlockOK(b, s) ==
    /\ s.first <= b.first /\ b.first <= b.last /\ b.last <= s.last
    /\ \/ \A i \in b.first .. b.last : NoFence(i)
       \/ /\ IsKind(b.first, "fence")
          /\ \A i \in b.first + 1 .. b.last - 1 : NoFence(i)
          /\ Clear => b.first < b.last /\ IsKind(b.last, "fence")

\* The block that is being read.
BlockBegun ==
    progress = "blocks" =>
        /\ Section.first <= line /\ line <= Section.last + 1
        /\ block.kind = "fence" <=> Fenced(line - 1)
        /\ IF block.first = 0 THEN block.kind = "plain"
           ELSE /\ Section.first <= block.first /\ block.first < line
                /\ IsKind(block.first, "fence") <=> block.kind = "fence"
                /\ \A i \in block.first + 1 .. line - 1 : NoFence(i)

BodyFirst == Block.first + Len(Before)
LinesOK ==
    progress = "lines" =>
        /\ Block.first <= line /\ line <= Block.last + 1
        /\ Tokens(gathered) <= ChunkSize
        /\ \A p \in Range(gathered) : p.from <= p.to /\ p.at \in Block.first .. Block.last
        /\ Clear => \A i \in Block.first .. Block.last : NoFence(i)
RowsOK ==
    progress = "rows" =>
        /\ IsStructured /\ BodyFirst <= LastLine
        /\ BodyFirst <= line /\ line <= LastLine + 1
        /\ Tokens(gathered) <= RowRoom
        /\ \A p \in Range(gathered) : p.from <= p.to /\ p.at \in BodyFirst .. LastLine
        /\ line > BodyFirst => gathered # <<>>

PartsOK ==
    /\ \A part \in Range(parts) : PartOK(part, Section.path)
    /\ \A part \in Range(open) : PartOK(part, Section.path)
    /\ open # <<>> => Joined(open) <= ChunkSize

SectionsOK == \A s \in Range(sections) : SectionOK(s)
BlocksOK == \A b \in Range(blocks) : BlockOK(b, Section)
ChunksOK == \A c \in Range(chunks) : ChunkOK(c)

(* Where the text is that no chunk has yet.                                *)
Has(part, i, n) == \E p \in Range(part) : p.at = i /\ n \in p.from + 1 .. p.to
SomeHas(paragraphs, i, n) == \E part \in Range(paragraphs) : Has(part, i, n)

SectionsLeft == IF progress \in InSection THEN Tail(sections) ELSE sections
BlocksLeft == IF progress \in InCut THEN Tail(blocks) ELSE blocks

ToSplit(i) == progress = "write" \/ (progress = "split" /\ i >= outline.pending)
ToCut(i) == \E s \in Range(SectionsLeft) : i \in s.first .. s.last
InBlock(i) ==
    progress = "blocks" /\ (i \in line .. Section.last \/ (block.first # 0 /\ i \in block.first .. line - 1))
ToGather(i) == \E b \in Range(BlocksLeft) : i \in b.first .. b.last
InRows(i) ==
    /\ progress \in InCut /\ i \in Block.first .. Block.last
    /\ i >= line \/ (progress = "rows" /\ (i < BodyFirst \/ i > LastLine))

Held(i, n) ==
    \/ ToSplit(i) \/ ToCut(i) \/ InBlock(i) \/ ToGather(i) \/ InRows(i)
    \/ Has(gathered, i, n) \/ SomeHas(parts, i, n) \/ SomeHas(open, i, n)
    \/ \E c \in Range(chunks) : SomeHas(c.parts, i, n)

Kept ==
    \A i \in 1 .. Len(markdown) : ~IsKind(i, "blank") =>
        \A n \in 1 .. markdown[i].tokens : Held(i, n)

ChunkingInv ==
    /\ ChunkingType /\ Quiet
    /\ SplitOK /\ SectionsOK /\ BlockBegun /\ BlocksOK /\ LinesOK /\ RowsOK /\ PartsOK /\ ChunksOK
    /\ Kept

\* While the document does not change, neither does what is said about its lines.
LEMMA Frozen ==
    ASSUME markdown' = markdown
    PROVE  /\ \A i, k : IsKind(i, k)' <=> IsKind(i, k)
           /\ \A i : Whole(i)' = Whole(i)
           /\ \A a, b : Lines(a, b)' = Lines(a, b)
           /\ \A i : Fenced(i)' <=> Fenced(i)
           /\ \A i : Heading(i)' <=> Heading(i)
           /\ \A i : Bare(i)' <=> Bare(i)
           /\ \A i : PathOf(i)' = PathOf(i)
           /\ Clear' <=> Clear
           /\ \A i : NoFence(i)' <=> NoFence(i)
           /\ \A part, path : PartOK(part, path)' <=> PartOK(part, path)
           /\ \A c : ChunkOK(c)' <=> ChunkOK(c)
           /\ \A s : SectionOK(s)' <=> SectionOK(s)
           /\ \A b, s : BlockOK(b, s)' <=> BlockOK(b, s)
<1>1. \A i, k : IsKind(i, k)' <=> IsKind(i, k)
  BY DEF IsKind
<1>2. \A i : Whole(i)' = Whole(i)
  BY DEF Whole, Span
<1>3. \A a, b : Lines(a, b)' = Lines(a, b)
  BY <1>2 DEF Lines
<1>4. \A part : Fences(part)' = Fences(part)
  BY <1>1 DEF Fences
<1>5. \A i : Fenced(i)' <=> Fenced(i)
  BY <1>3, <1>4 DEF Fenced
<1>6. \A i : (Heading(i)' <=> Heading(i)) /\ (Bare(i)' <=> Bare(i)) /\ (NoFence(i)' <=> NoFence(i))
  BY <1>1, <1>5 DEF Heading, Bare, NoFence
<1>7. \A i : PathOf(i)' = PathOf(i)
  BY <1>6 DEF PathOf
<1>8. Clear' <=> Clear
  BY <1>1, <1>5 DEF Clear, FencesFit
<1>9. \A i, path : Under(i, path)' <=> Under(i, path)
  BY <1>6, <1>7 DEF Under
<1>10. \A p, path : PieceOK(p, path)' <=> PieceOK(p, path)
  BY <1>9 DEF PieceOK
<1>11. \A part, path : PartOK(part, path)' <=> PartOK(part, path)
  BY <1>4, <1>8, <1>10 DEF PartOK
<1>12. \A c : ChunkOK(c)' <=> ChunkOK(c)
  BY <1>11 DEF ChunkOK
<1>13. \A s : SectionOK(s)' <=> SectionOK(s)
  BY <1>5, <1>9 DEF SectionOK
<1>14. \A b, s : BlockOK(b, s)' <=> BlockOK(b, s)
  BY <1>1, <1>6, <1>8 DEF BlockOK
<1> QED
  BY <1>1, <1>2, <1>3, <1>5, <1>6, <1>7, <1>8, <1>11, <1>12, <1>13, <1>14

-----------------------------------------------------------------------------
(* Chunking: the elements of sequences.                                    *)

LEMMA InSeq ==
    ASSUME NEW S, NEW s \in Seq(S)
    PROVE  Range(s) \subseteq S /\ DOMAIN s = 1 .. Len(s)
BY LenProperties, ElementOfSeq DEF Range

LEMMA RangeNone == Range(<<>>) = {}
BY DEF Range

LEMMA RangeOne ==
    ASSUME NEW x
    PROVE  Range(<<x>>) = {x}
BY DEF Range

LEMMA RangeAppend ==
    ASSUME NEW S, NEW s \in Seq(S), NEW x \in S
    PROVE  /\ Append(s, x) \in Seq(S) /\ Append(s, x) # <<>>
           /\ Range(Append(s, x)) = Range(s) \cup {x}
<1>1. /\ Append(s, x) \in Seq(S) /\ Len(Append(s, x)) = Len(s) + 1 /\ Append(s, x) # <<>>
      /\ \A i \in 1 .. Len(s) : Append(s, x)[i] = s[i]
      /\ Append(s, x)[Len(s) + 1] = x
  BY AppendProperties
<1>2. Len(s) \in Nat /\ DOMAIN s = 1 .. Len(s) /\ DOMAIN Append(s, x) = 1 .. Len(s) + 1
  BY <1>1, LenProperties
<1>3. \A i \in 1 .. Len(s) + 1 : i \in 1 .. Len(s) \/ i = Len(s) + 1
  BY <1>2
<1>4. Len(s) + 1 \in 1 .. Len(s) + 1 /\ \A i \in 1 .. Len(s) : i \in 1 .. Len(s) + 1
  BY <1>2
<1> QED
  BY <1>1, <1>2, <1>3, <1>4 DEF Range

LEMMA RangeTail ==
    ASSUME NEW S, NEW s \in Seq(S), s # <<>>
    PROVE  /\ Head(s) \in S /\ Tail(s) \in Seq(S)
           /\ Range(s) = Range(Tail(s)) \cup {Head(s)}
<1>1. /\ Head(s) \in S /\ Tail(s) \in Seq(S) /\ Len(Tail(s)) = Len(s) - 1
      /\ \A i \in 1 .. Len(Tail(s)) : Tail(s)[i] = s[i + 1]
  BY HeadTailProperties
<1>2. Len(s) \in Nat \ {0} /\ DOMAIN s = 1 .. Len(s) /\ DOMAIN Tail(s) = 1 .. Len(s) - 1
  BY <1>1, LenProperties, EmptySeq
<1>3. Head(s) = s[1]
  BY DEF Head
<1>4. ASSUME NEW x \in Range(s) PROVE x \in Range(Tail(s)) \cup {Head(s)}
  <2>1. PICK i \in 1 .. Len(s) : x = s[i]
    BY <1>2 DEF Range
  <2>2. CASE i = 1
    BY <1>3, <2>1, <2>2
  <2>3. CASE i # 1
    <3>1. i - 1 \in 1 .. Len(s) - 1 /\ (i - 1) + 1 = i
      BY <1>2, <2>3
    <3>2. Tail(s)[i - 1] = x
      BY <1>1, <2>1, <3>1
    <3> QED
      BY <1>2, <3>1, <3>2 DEF Range
  <2> QED
    BY <2>2, <2>3
<1>5. ASSUME NEW x \in Range(Tail(s)) PROVE x \in Range(s)
  <2>1. PICK i \in 1 .. Len(s) - 1 : x = Tail(s)[i]
    BY <1>2 DEF Range
  <2>2. i + 1 \in 1 .. Len(s) /\ x = s[i + 1]
    BY <1>1, <1>2, <2>1
  <2> QED
    BY <1>2, <2>2 DEF Range
<1>6. Head(s) \in Range(s)
  BY <1>2, <1>3 DEF Range
<1> QED
  BY <1>1, <1>4, <1>5, <1>6

LEMMA RangeConcat ==
    ASSUME NEW S, NEW s \in Seq(S), NEW t \in Seq(S)
    PROVE  s \o t \in Seq(S) /\ Range(s \o t) = Range(s) \cup Range(t)
BY ConcatProperties, RangeConcatenation

LEMMA RangeSub ==
    ASSUME NEW S, NEW s \in Seq(S), NEW m \in 1 .. Len(s) + 1, NEW n \in m - 1 .. Len(s)
    PROVE  /\ SubSeq(s, m, n) \in Seq(S)
           /\ Range(SubSeq(s, m, n)) = {s[i] : i \in m .. n}
<1>1. /\ SubSeq(s, m, n) \in Seq(S) /\ Len(SubSeq(s, m, n)) = n - m + 1
      /\ \A i \in 1 .. n - m + 1 : SubSeq(s, m, n)[i] = s[m + i - 1]
  BY SubSeqProperties, LenProperties
<1>2. DOMAIN SubSeq(s, m, n) = 1 .. n - m + 1 /\ m \in Nat /\ n \in Int
  BY <1>1, LenProperties
<1>3. \A i \in 1 .. n - m + 1 : m + i - 1 \in m .. n
  BY <1>2
<1>4. \A j \in m .. n : j - m + 1 \in 1 .. n - m + 1 /\ m + (j - m + 1) - 1 = j
  BY <1>2
<1>5. ASSUME NEW x \in Range(SubSeq(s, m, n)) PROVE x \in {s[i] : i \in m .. n}
  BY <1>1, <1>2, <1>3 DEF Range
<1>6. ASSUME NEW j \in m .. n PROVE s[j] \in Range(SubSeq(s, m, n))
  <2>1. SubSeq(s, m, n)[j - m + 1] = s[j]
    BY <1>1, <1>4
  <2> QED
    BY <1>2, <1>4, <2>1 DEF Range
<1> QED
  BY <1>1, <1>5, <1>6

-----------------------------------------------------------------------------
(* Chunking: every step keeps the invariant.                               *)

LEMMA ChunkingInitHolds ==
    ASSUME ChunkingInit
    PROVE  ChunkingInv
<1>1. <<>> \in Seq(AllLines) /\ <<>> \in Seq(SectionSet) /\ <<>> \in Seq(BlockSet) /\ <<>> \in Seq(Piece)
      /\ <<>> \in Seq(Seq(Piece)) /\ <<>> \in Seq(ChunkSet)
  OBVIOUS
<1>2. ChunkingType
  BY <1>1 DEF ChunkingInit, ChunkingType, NoBlock, Loops
<1>3. Quiet
  BY DEF ChunkingInit, Quiet, NoBlock, Loops, InSection, InCut
<1>4. SplitOK /\ BlockBegun /\ LinesOK /\ RowsOK
  BY DEF ChunkingInit, SplitOK, BlockBegun, LinesOK, RowsOK
<1>5. SectionsOK /\ BlocksOK /\ PartsOK /\ ChunksOK
  BY RangeNone DEF ChunkingInit, SectionsOK, BlocksOK, PartsOK, ChunksOK
<1>6. Kept
  BY DEF ChunkingInit, Kept, Held, ToSplit
<1> QED
  BY <1>2, <1>3, <1>4, <1>5, <1>6 DEF ChunkingInv

LEMMA WriteLineKeeps ==
    ASSUME ChunkingInv, NEW l \in UNION Alphabet, WriteLine(l)
    PROVE  ChunkingInv'
<1>1. ChunkingType'
  <2>1. Append(markdown, l) \in Seq(AllLines)
    BY AppendProperties DEF ChunkingInv, ChunkingType, AllLines
  <2> QED
    BY <2>1 DEF ChunkingInv, ChunkingType, WriteLine, Loops
<1>2. Quiet'
  BY DEF ChunkingInv, Quiet, WriteLine, NoBlock
<1>3. (SplitOK /\ BlockBegun /\ LinesOK /\ RowsOK)'
  BY DEF WriteLine, SplitOK, BlockBegun, LinesOK, RowsOK
<1>4. /\ sections' = <<>> /\ chunks' = <<>> /\ blocks' = <<>> /\ parts' = <<>> /\ open' = <<>>
  BY DEF ChunkingInv, Quiet, WriteLine, InSection
<1>5. (SectionsOK /\ BlocksOK /\ PartsOK /\ ChunksOK)'
  BY <1>4, RangeNone DEF SectionsOK, BlocksOK, PartsOK, ChunksOK
<1>6. Kept'
  BY DEF WriteLine, Kept, Held, ToSplit
<1> QED
  BY <1>1, <1>2, <1>3, <1>5, <1>6 DEF ChunkingInv

LEMMA SplitSectionsKeeps ==
    ASSUME ChunkingInv, SplitSections
    PROVE  ChunkingInv'
<1>1. ChunkingType'
  BY DEF ChunkingInv, ChunkingType, SplitSections, Loops
<1>2. Quiet'
  BY DEF ChunkingInv, Quiet, SplitSections, NoBlock, InSection, InCut
<1>3. /\ outline = [stack |-> {}, fenced |-> FALSE, pending |-> 1, current |-> 1] /\ line = 1
      /\ sections = <<>> /\ chunks = <<>> /\ blocks = <<>> /\ parts = <<>> /\ open = <<>>
  BY DEF ChunkingInv, Quiet, SplitSections, InSection
<1>4. SplitOK'
  <2>1. Len(markdown) \in Nat
    BY LenProperties DEF ChunkingInv, ChunkingType
  <2>2. /\ outline.stack = {} /\ outline.fenced = FALSE /\ outline.pending = 1 /\ outline.current = 1
    BY <1>3
  <2>3. (~Fenced(0) /\ PathOf(0) = {})'
    BY FencedStart, PathStart, Frozen DEF SplitSections
  <2> QED
    BY <1>3, <2>1, <2>2, <2>3 DEF SplitOK, SplitSections
<1>5. (BlockBegun /\ LinesOK /\ RowsOK)'
  BY DEF SplitSections, BlockBegun, LinesOK, RowsOK
<1>6. (SectionsOK /\ BlocksOK /\ PartsOK /\ ChunksOK)'
  BY <1>3, RangeNone DEF SplitSections, SectionsOK, BlocksOK, PartsOK, ChunksOK
<1>7. Kept'
  BY <1>3 DEF SplitSections, Kept, Held, ToSplit
<1> QED
  BY <1>1, <1>2, <1>4, <1>5, <1>6, <1>7 DEF ChunkingInv

\* A section that ends before the line at hand.
LEMMA FlushedGood ==
    ASSUME ChunkingInv, progress = "split", line > 1,
           line = Len(markdown) + 1 \/ ~Fenced(line - 1)
    PROVE  /\ Flushed \in Seq(SectionSet) /\ Flushed # <<>>
           /\ \A s \in Range(Flushed) : SectionOK(s)
           /\ \A i : ToCut(i) \/ i \in outline.pending .. line - 1 =>
                 \E s \in Range(Flushed) : i \in s.first .. s.last
<1> DEFINE new == [path |-> outline.stack, first |-> outline.pending, last |-> line - 1]
<1>1. /\ markdown \in Seq(AllLines) /\ Len(markdown) \in Nat /\ line \in Nat \ {0}
      /\ outline.stack \in SUBSET Nat
      /\ outline.pending \in Nat \ {0} /\ outline.current \in Nat \ {0} /\ sections \in Seq(SectionSet)
  BY LenProperties DEF ChunkingInv, ChunkingType
<1>2. new \in SectionSet
  BY <1>1 DEF SectionSet
<1>3. Flushed \in Seq(SectionSet) /\ Flushed # <<>> /\ Range(Flushed) = Range(sections) \cup {new}
  BY <1>1, <1>2, RangeAppend DEF Flushed
<1>4. /\ outline.pending <= outline.current /\ outline.current < line
      /\ line <= Len(markdown) + 1
      /\ \A i \in outline.current .. line - 1 : PathOf(i) = outline.stack
      /\ \A i \in outline.pending .. outline.current - 1 :
            PathOf(i) \subseteq outline.stack /\ (Heading(i) \/ Bare(i))
      /\ ~Fenced(outline.pending - 1)
  BY DEF ChunkingInv, SplitOK
<1>5. SectionOK(new)
  <2>1. 1 <= new.first /\ new.first <= new.last /\ new.last <= Len(markdown)
    BY <1>1, <1>4
  <2>2. ASSUME NEW i \in new.first .. new.last PROVE Under(i, new.path)
    <3>1. i \in outline.current .. line - 1 \/ i \in outline.pending .. outline.current - 1
      BY <1>1, <1>4
    <3> QED
      BY <1>4, <3>1 DEF Under
  <2>3. new.last = Len(markdown) \/ ~Fenced(new.last)
    BY <1>1
  <2> QED
    BY <1>4, <2>1, <2>2, <2>3 DEF SectionOK
<1>6. \A s \in Range(Flushed) : SectionOK(s)
  BY <1>3, <1>5 DEF ChunkingInv, SectionsOK
<1>7. SectionsLeft = sections
  BY DEF SectionsLeft, InSection
<1>8. ASSUME NEW i, ToCut(i) \/ i \in outline.pending .. line - 1
      PROVE  \E s \in Range(Flushed) : i \in s.first .. s.last
  <2>1. CASE ToCut(i)
    <3>1. PICK s \in Range(sections) : i \in s.first .. s.last
      BY <1>7, <2>1 DEF ToCut
    <3> QED
      BY <1>3, <3>1
  <2>2. CASE i \in outline.pending .. line - 1
    <3>1. new \in Range(Flushed) /\ new.first = outline.pending /\ new.last = line - 1
      BY <1>3
    <3> HIDE DEF new
    <3> QED
      BY <2>2, <3>1
  <2> QED
    BY <1>8, <2>1, <2>2
<1> QED
  BY <1>3, <1>6, <1>8

\* The text of a document that stays is somewhere if each step keeps what is held.
LEMMA KeptStep ==
    ASSUME ChunkingInv, markdown' = markdown,
           \A i \in 1 .. Len(markdown) : ~IsKind(i, "blank") =>
               \A n \in 1 .. markdown[i].tokens : Held(i, n) => Held(i, n)'
    PROVE  Kept'
<1>1. ASSUME NEW i \in 1 .. Len(markdown), ~IsKind(i, "blank"), NEW n \in 1 .. markdown[i].tokens
      PROVE  Held(i, n)'
  BY <1>1 DEF ChunkingInv, Kept
<1> QED
  BY <1>1, Frozen DEF Kept

\* Before the first section is cut there is nothing to keep of cutting.
LEMMA SplitRest ==
    ASSUME ChunkingInv, progress = "split", progress' \in {"split", "chunk"},
           UNCHANGED <<markdown, block, blocks, gathered, parts, open, chunks>>,
           progress' = "chunk" => sections' # <<>>,
           ChunkingType', SplitOK', SectionsOK', Kept'
    PROVE  ChunkingInv'
<1>1. Quiet'
  BY DEF ChunkingInv, Quiet, NoBlock, InSection, InCut
<1>2. (BlockBegun /\ LinesOK /\ RowsOK)'
  BY DEF BlockBegun, LinesOK, RowsOK
<1>3. blocks' = <<>> /\ parts' = <<>> /\ open' = <<>> /\ chunks' = <<>>
  BY DEF ChunkingInv, Quiet, InSection
<1>4. (BlocksOK /\ PartsOK /\ ChunksOK)'
  BY <1>3, RangeNone DEF BlocksOK, PartsOK, ChunksOK
<1> QED
  BY <1>1, <1>2, <1>4 DEF ChunkingInv

LEMMA TakeLineKeeps ==
    ASSUME ChunkingInv, TakeLine
    PROVE  ChunkingInv'
<1> DEFINE fenced == IF IsKind(line, "fence") THEN ~outline.fenced ELSE outline.fenced
           level == markdown[line].level
           kept == outline.current = line \/ IsParent(level)
<1>1. /\ progress = "split" /\ line \in DOMAIN markdown /\ line' = line + 1
      /\ IF fenced \/ level = 0
         THEN outline' = [outline EXCEPT !.fenced = fenced] /\ UNCHANGED sections
         ELSE /\ sections' = IF kept THEN sections ELSE Flushed
              /\ outline' = [stack |-> {other \in outline.stack : other < level} \cup {level},
                             fenced |-> fenced,
                             pending |-> IF kept THEN outline.pending ELSE line,
                             current |-> line]
      /\ UNCHANGED <<markdown, progress, block, blocks, gathered, parts, open, chunks, at>>
  BY DEF TakeLine
<1>2. /\ markdown \in Seq(AllLines) /\ Len(markdown) \in Nat /\ line \in 1 .. Len(markdown)
      /\ outline \in [stack : SUBSET Nat, fenced : BOOLEAN, pending : Nat \ {0}, current : Nat \ {0}]
      /\ sections \in Seq(SectionSet)
  BY <1>1, LenProperties DEF ChunkingInv, ChunkingType
<1>3. /\ outline.pending <= outline.current /\ outline.current <= line
      /\ line > 1 => outline.current < line
      /\ outline.fenced <=> Fenced(line - 1)
      /\ outline.stack = PathOf(line - 1)
      /\ \A i \in outline.current .. line - 1 : PathOf(i) = outline.stack
      /\ \A i \in outline.pending .. outline.current - 1 :
            PathOf(i) \subseteq outline.stack /\ (Heading(i) \/ Bare(i))
      /\ outline.stack # {} => Heading(outline.current)
      /\ ~Fenced(outline.pending - 1)
  BY <1>1 DEF ChunkingInv, SplitOK
<1>4. /\ level \in Nat
      /\ level > 0 <=> IsKind(line, "heading")
      /\ IsKind(line, "heading") => ~IsKind(line, "fence")
  BY <1>2, LineType DEF IsKind
<1>5. fenced \in BOOLEAN /\ (fenced <=> Fenced(line))
  BY <1>2, <1>3, FencedStep
<1>6. Heading(line) <=> ~(fenced \/ level = 0)
  BY <1>4, <1>5 DEF Heading
<1>0. /\ line' = line + 1 /\ line' \in Nat \ {0}
      /\ UNCHANGED <<markdown, progress, block, blocks, gathered, parts, open, chunks, at>>
  BY <1>1, <1>2
<1> HIDE DEF fenced, level, kept
<1>7. CASE ~Heading(line)
  <2>1. outline' = [outline EXCEPT !.fenced = fenced] /\ sections' = sections
    BY <1>1, <1>6, <1>7
  <2>2. /\ outline'.stack = outline.stack /\ outline'.fenced = fenced
        /\ outline'.pending = outline.pending /\ outline'.current = outline.current
    BY <1>2, <2>1
  <2>3. PathOf(line) = outline.stack
    BY <1>2, <1>3, <1>7, PathStep
  <2>4. outline' \in [stack : SUBSET Nat, fenced : BOOLEAN, pending : Nat \ {0}, current : Nat \ {0}]
    BY <1>2, <1>5, <2>1
  <2>5. ChunkingType'
    BY <1>0, <1>2, <2>1, <2>4 DEF ChunkingInv, ChunkingType
  <2>6. SplitOK'
    <3>1. \A i \in outline.current .. line : PathOf(i) = outline.stack
      <4>1. \A i \in outline.current .. line : i \in outline.current .. line - 1 \/ i = line
        BY <1>2
      <4> QED
        BY <1>3, <2>3, <4>1
    <3>2. line' - 1 = line /\ line' <= Len(markdown) + 1 /\ line' > line
      BY <1>1, <1>2
    <3>3. outline.current \in Nat /\ outline.pending \in Nat
      BY <1>2
    <3>4. PICK p, c, stack : p = outline.pending /\ c = outline.current /\ stack = outline.stack
      OBVIOUS
    <3>5. /\ p \in Nat /\ c \in Nat /\ p <= c /\ c < line'
          /\ \A i \in c .. line : PathOf(i) = stack
          /\ stack = PathOf(line) /\ ~Fenced(p - 1) /\ (stack # {} => Heading(c))
      <4>1. p \in Nat /\ c \in Nat /\ p <= c /\ c <= line
        <5>1. outline.pending <= outline.current /\ outline.current <= line
          BY <1>3, Zenon
        <5> QED
          BY <3>3, <3>4, <5>1
      <4>2. c < line'
        <5>1. line \in Nat /\ line' = line + 1
          BY <1>0, <1>2
        <5> QED
          BY <4>1, <5>1
      <4>3. \A i \in c .. line : PathOf(i) = stack
        BY <3>1, <3>4, Zenon
      <4>4. stack = PathOf(line) /\ ~Fenced(p - 1) /\ (stack # {} => Heading(c))
        BY <1>3, <2>3, <3>4, Zenon
      <4> QED
        BY <4>1, <4>2, <4>3, <4>4
    <3>6. \A i \in p .. c - 1 : PathOf(i) \subseteq stack /\ (Heading(i) \/ Bare(i))
      BY <1>3, <3>4
    <3>7. /\ outline'.stack = stack /\ outline'.fenced = fenced
          /\ outline'.pending = p /\ outline'.current = c
      BY <2>2, <3>4
    <3>8. /\ outline'.pending <= outline'.current /\ outline'.current < line'
          /\ outline'.fenced <=> Fenced(line)
          /\ outline'.stack = PathOf(line)
          /\ outline'.stack # {} => Heading(outline'.current)
          /\ ~Fenced(outline'.pending - 1)
      BY <1>5, <3>5, <3>7
    <3>9. (\A i \in outline.current .. line - 1 : PathOf(i) = outline.stack)'
      BY <1>0, <3>2, <3>5, <3>7, Frozen
    <3>10. (\A i \in outline.pending .. outline.current - 1 :
               PathOf(i) \subseteq outline.stack /\ (Heading(i) \/ Bare(i)))'
      BY <1>0, <3>6, <3>7, Frozen
    <3>11. (\A i : Fenced(i)' <=> Fenced(i)) /\ (\A i : Heading(i)' <=> Heading(i))
           /\ (\A i : PathOf(i)' = PathOf(i)) /\ c <= line'
      BY <1>0, <3>2, <3>5, Frozen
    <3>12. /\ (outline.pending <= outline.current /\ outline.current <= line)'
           /\ (line <= Len(markdown) + 1)' /\ (line > 1 => outline.current < line)'
      BY <1>0, <3>2, <3>5, <3>7
    <3>13. (outline.fenced <=> Fenced(line - 1))' /\ (outline.stack = PathOf(line - 1))'
      BY <1>0, <3>2, <3>8, <3>11
    <3>14. (outline.stack # {} => Heading(outline.current))' /\ (~Fenced(outline.pending - 1))'
      BY <3>8, <3>11
    <3> QED
      BY <3>9, <3>10, <3>12, <3>13, <3>14, Zenon DEF SplitOK
  <2>7. SectionsOK'
    BY <1>1, <2>1, Frozen DEF ChunkingInv, SectionsOK
  <2>8. ASSUME NEW i \in 1 .. Len(markdown), NEW n, Held(i, n) PROVE Held(i, n)'
    <3>1. ToSplit(i) => ToSplit(i)'
      BY <1>1, <2>2 DEF ToSplit
    <3>2. ToCut(i) => ToCut(i)'
      BY <1>1, <2>1 DEF ToCut, SectionsLeft
    <3>3. ToGather(i) => ToGather(i)'
      BY <1>1 DEF ToGather, BlocksLeft
    <3>4. ~InBlock(i) /\ ~InRows(i)
      BY <1>1 DEF InBlock, InRows, InCut
    <3> QED
      BY <1>1, <2>8, <3>1, <3>2, <3>3, <3>4 DEF Held
  <2>9. Kept'
    BY <1>1, <2>8, KeptStep
  <2> QED
    BY <1>1, <2>5, <2>6, <2>7, <2>9, SplitRest
<1>8. CASE Heading(line)
  <2>1. /\ sections' = IF kept THEN sections ELSE Flushed
        /\ outline' = [stack |-> {other \in outline.stack : other < level} \cup {level},
                       fenced |-> fenced,
                       pending |-> IF kept THEN outline.pending ELSE line,
                       current |-> line]
    BY <1>1, <1>6, <1>8
  <2>2. PICK p : p = IF kept THEN outline.pending ELSE line
    OBVIOUS
  <2>3. PICK stack : stack = {other \in outline.stack : other < level} \cup {level}
    OBVIOUS
  <2>4. p \in Nat \ {0} /\ stack \in SUBSET Nat
    <3>1. outline.stack \in SUBSET Nat /\ outline.pending \in Nat \ {0} /\ line \in Nat \ {0}
      BY <1>2
    <3> QED
      BY <1>4, <2>2, <2>3, <3>1
  <2>5. /\ outline'.stack = stack /\ outline'.fenced = fenced /\ outline'.pending = p
        /\ outline'.current = line
    BY <2>1, <2>2, <2>3
  <2>6. outline' \in [stack : SUBSET Nat, fenced : BOOLEAN, pending : Nat \ {0}, current : Nat \ {0}]
    BY <1>2, <1>5, <2>1, <2>2, <2>3, <2>4
  <2>7. ~Fenced(line - 1)
    BY <1>2, <1>4, <1>5, <1>6, <1>8, FencedStep
  <2>8. PathOf(line) = stack
    BY <1>2, <1>3, <1>8, <2>3, PathStep DEF level
  <2>9. ~kept => line > 1
    BY <1>2, <1>3 DEF kept
  <2>10. ~kept => /\ Flushed \in Seq(SectionSet) /\ \A s \in Range(Flushed) : SectionOK(s)
                  /\ \A i : ToCut(i) \/ i \in outline.pending .. line - 1 =>
                        \E s \in Range(Flushed) : i \in s.first .. s.last
    BY <1>1, <2>7, <2>9, FlushedGood
  <2>11. ChunkingType'
    <3>1. sections' \in Seq(SectionSet)
      BY <1>2, <2>1, <2>10
    <3> QED
      BY <1>0, <1>2, <2>6, <3>1 DEF ChunkingInv, ChunkingType
  <2>12. SectionsOK'
    <3>1. \A s \in Range(sections') : SectionOK(s)
      BY <2>1, <2>10 DEF ChunkingInv, SectionsOK
    <3> QED
      BY <1>1, <3>1, Frozen DEF SectionsOK
  <2>13. SplitOK'
    <3>1. line' - 1 = line /\ line' <= Len(markdown) + 1 /\ line' > line /\ p <= line
      BY <1>1, <1>2, <1>3, <2>2, SMTT(30)
    <3>2. ASSUME NEW i \in p .. line - 1
          PROVE  PathOf(i) \subseteq stack /\ (Heading(i) \/ Bare(i))
      <4>1. kept /\ p = outline.pending
        BY <1>2, <2>2, <3>2
      <4>2. outline.current # line
        BY <1>2, <1>3, <4>1
      <4>3. IsParent(level)
        BY <4>1, <4>2 DEF kept
      <4>4. outline.stack \subseteq stack /\ Heading(outline.current)
        BY <1>3, <2>3, <4>3 DEF IsParent
      <4>5. i \in outline.pending .. outline.current - 1 \/ i = outline.current
            \/ i \in outline.current + 1 .. line - 1
        BY <1>2, <4>1
      <4>6. i \in outline.pending .. outline.current - 1 \/ i \in outline.current .. line - 1
        BY <1>2, <4>1
      <4>7. PathOf(i) \subseteq outline.stack
        BY <1>3, <4>6
      <4>8. Heading(i) \/ Bare(i)
        BY <1>3, <4>3, <4>4, <4>5 DEF IsParent
      <4> QED
        BY <4>4, <4>7, <4>8
    <3>3. ~Fenced(p - 1)
      BY <1>3, <2>2, <2>7
    <3>4. \A i \in line .. line : PathOf(i) = stack
      BY <1>2, <2>8
    <3> QED
      BY <1>1, <1>2, <1>5, <1>8, <2>5, <2>8, <3>1, <3>2, <3>3, <3>4, Frozen DEF SplitOK
  <2>14. ASSUME NEW i \in 1 .. Len(markdown), NEW n, Held(i, n) PROVE Held(i, n)'
    <3>1. SectionsLeft = sections /\ SectionsLeft' = sections'
      BY <1>1 DEF SectionsLeft, InSection
    <3>2. ToSplit(i) => ToSplit(i)' \/ ToCut(i)'
      <4>1. ASSUME ToSplit(i) PROVE i >= p \/ (~kept /\ i \in outline.pending .. line - 1)
        BY <1>1, <1>2, <2>2, <4>1 DEF ToSplit
      <4> QED
        BY <1>1, <2>1, <2>5, <2>10, <3>1, <4>1 DEF ToSplit, ToCut
    <3>3. ToCut(i) => ToCut(i)'
      BY <2>1, <2>10, <3>1 DEF ToCut
    <3>4. ToGather(i) => ToGather(i)'
      BY <1>1 DEF ToGather, BlocksLeft
    <3>5. ~InBlock(i) /\ ~InRows(i)
      BY <1>1 DEF InBlock, InRows, InCut
    <3> QED
      BY <1>1, <2>14, <3>2, <3>3, <3>4, <3>5 DEF Held
  <2>15. Kept'
    BY <1>1, <2>14, KeptStep
  <2> QED
    BY <1>1, <2>11, <2>12, <2>13, <2>15, SplitRest
<1> QED
  BY <1>7, <1>8

LEMMA EndSectionsKeeps ==
    ASSUME ChunkingInv, EndSections
    PROVE  ChunkingInv'
<1>1. /\ progress = "split" /\ line \notin DOMAIN markdown /\ sections' = Flushed /\ progress' = "chunk"
      /\ UNCHANGED <<markdown, line, outline, block, blocks, gathered, parts, open, chunks, at>>
  BY DEF EndSections
<1>2. markdown \in Seq(AllLines) /\ markdown # <<>> /\ line \in Nat \ {0}
  BY <1>1 DEF ChunkingInv, ChunkingType, Quiet
<1>3. Len(markdown) \in Nat \ {0} /\ DOMAIN markdown = 1 .. Len(markdown)
  BY <1>2, LenProperties, EmptySeq
<1>4. line = Len(markdown) + 1 /\ line > 1
  <2>1. line <= Len(markdown) + 1
    BY <1>1 DEF ChunkingInv, SplitOK
  <2> QED
    BY <1>1, <1>2, <1>3, <2>1
<1>5. /\ Flushed \in Seq(SectionSet) /\ Flushed # <<>>
      /\ \A s \in Range(Flushed) : SectionOK(s)
      /\ \A i : ToCut(i) \/ i \in outline.pending .. line - 1 =>
            \E s \in Range(Flushed) : i \in s.first .. s.last
  BY <1>1, <1>4, FlushedGood
<1>6. ChunkingType'
  BY <1>1, <1>5 DEF ChunkingInv, ChunkingType, Loops
<1>7. SplitOK'
  BY <1>1 DEF SplitOK
<1>8. SectionsOK'
  <2>1. \A s \in Range(sections') : SectionOK(s)
    BY <1>1, <1>5
  <2> QED
    BY <1>1, <2>1, Frozen DEF SectionsOK
<1>9. ASSUME NEW i \in 1 .. Len(markdown), NEW n, Held(i, n) PROVE Held(i, n)'
  <2>1. SectionsLeft' = Flushed
    BY <1>1 DEF SectionsLeft, InSection
  <2>2. ToSplit(i) \/ ToCut(i) => ToCut(i)'
    <3>1. outline.pending \in Nat
      BY DEF ChunkingInv, ChunkingType
    <3>2. ToSplit(i) => i \in outline.pending .. line - 1
      BY <1>1, <1>3, <1>4, <3>1 DEF ToSplit
    <3> QED
      BY <1>5, <2>1, <3>2 DEF ToCut
  <2>3. ToGather(i) => ToGather(i)'
    BY <1>1 DEF ToGather, BlocksLeft, InCut
  <2>4. ~InBlock(i) /\ ~InRows(i)
    BY <1>1 DEF InBlock, InRows, InCut
  <2> QED
    BY <1>1, <1>9, <2>2, <2>3, <2>4 DEF Held
<1>10. Kept'
  BY <1>1, <1>9, KeptStep
<1> QED
  BY <1>1, <1>5, <1>6, <1>7, <1>8, <1>10, SplitRest

\* The chunk that ends a section: what it drops has no text.
LEMMA SectionEndsKeeps ==
    ASSUME ChunkingInv, progress \in {"chunk", "parts"}, NEW paragraphs \in Seq(Seq(Piece)),
           SectionEnds(paragraphs), UNCHANGED <<markdown, line, outline, block, at>>,
           blocks' = <<>>, gathered' = <<>>, parts' = <<>>, open' = <<>>,
           \A part \in Range(paragraphs) : PartOK(part, Section.path),
           Joined(paragraphs) <= ChunkSize,
           \A i \in 1 .. Len(markdown) : ~IsKind(i, "blank") =>
               \A n \in 1 .. markdown[i].tokens : Held(i, n) =>
                   \/ \E s \in Range(Tail(sections)) : i \in s.first .. s.last
                   \/ SomeHas(paragraphs, i, n)
                   \/ \E c \in Range(chunks) : SomeHas(c.parts, i, n)
    PROVE  ChunkingInv'
<1> DEFINE new == [path |-> Section.path, parts |-> paragraphs]
<1>1. /\ chunks' = IF HasText(paragraphs) THEN Append(chunks, new) ELSE chunks
      /\ sections' = Tail(sections)
      /\ progress' = IF sections' = <<>> THEN "merge" ELSE "chunk"
  BY DEF SectionEnds
<1>2. sections # <<>> /\ sections \in Seq(SectionSet) /\ chunks \in Seq(ChunkSet) /\ markdown # <<>>
      /\ block = NoBlock
  BY DEF ChunkingInv, ChunkingType, Quiet, InSection
<1>3. /\ Section \in SectionSet /\ sections' \in Seq(SectionSet)
      /\ Range(sections') \subseteq Range(sections) /\ Section \in Range(sections)
  BY <1>1, <1>2, RangeTail DEF Section
<1>4. new \in ChunkSet
  BY <1>3 DEF SectionSet, ChunkSet
<1>5. /\ chunks' \in Seq(ChunkSet) /\ Range(chunks) \subseteq Range(chunks')
      /\ Range(chunks') \subseteq Range(chunks) \cup {new}
      /\ HasText(paragraphs) => new \in Range(chunks')
  BY <1>1, <1>2, <1>4, RangeAppend
<1>6. progress' \in {"merge", "chunk"}
  BY <1>1
<1>7. /\ blocks' \in Seq(BlockSet) /\ gathered' \in Seq(Piece) /\ parts' \in Seq(Seq(Piece))
      /\ open' \in Seq(Seq(Piece))
  OBVIOUS
<1>8. ChunkingType'
  BY <1>3, <1>5, <1>6, <1>7 DEF ChunkingInv, ChunkingType, Loops
<1>9. Quiet'
  BY <1>1, <1>2, <1>6 DEF Quiet, NoBlock, InSection, InCut
<1>10. (SplitOK /\ BlockBegun /\ LinesOK /\ RowsOK)'
  BY <1>6 DEF SplitOK, BlockBegun, LinesOK, RowsOK
<1>11. SectionsOK'
  BY <1>3, Frozen DEF ChunkingInv, SectionsOK
<1>12. (BlocksOK /\ PartsOK)'
  BY RangeNone DEF BlocksOK, PartsOK
<1>13. ChunksOK'
  <2>1. ChunkOK(new)
    BY DEF ChunkOK
  <2>2. \A c \in Range(chunks') : ChunkOK(c)
    BY <1>5, <2>1 DEF ChunkingInv, ChunksOK
  <2> QED
    BY <2>2, Frozen DEF ChunksOK
<1>14. ASSUME NEW i \in 1 .. Len(markdown), ~IsKind(i, "blank"),
              NEW n \in 1 .. markdown[i].tokens, Held(i, n)
       PROVE  Held(i, n)'
  <2>1. CASE \E s \in Range(Tail(sections)) : i \in s.first .. s.last
    <3>1. SectionsLeft' = Tail(sections)
      BY <1>1, <1>6 DEF SectionsLeft, InSection
    <3> QED
      BY <2>1, <3>1 DEF Held, ToCut
  <2>2. CASE SomeHas(paragraphs, i, n)
    <3>1. HasText(paragraphs)
      BY <1>14, <2>2 DEF HasText, SomeHas, Has
    <3>2. new \in Range(chunks') /\ new.parts = paragraphs
      BY <1>5, <3>1
    <3> HIDE DEF new
    <3> QED
      BY <2>2, <3>2 DEF Held, SomeHas, Has
  <2>3. CASE \E c \in Range(chunks) : SomeHas(c.parts, i, n)
    BY <1>5, <2>3 DEF Held, SomeHas, Has
  <2> QED
    BY <1>14, <2>1, <2>2, <2>3
<1>15. Kept'
  BY <1>14, KeptStep
<1> QED
  BY <1>8, <1>9, <1>10, <1>11, <1>12, <1>13, <1>15 DEF ChunkingInv

\* The section at hand.
LEMMA SectionSound ==
    ASSUME ChunkingInv, sections # <<>>
    PROVE  /\ Section \in SectionSet /\ SectionOK(Section)
           /\ Tail(sections) \in Seq(SectionSet)
           /\ Range(sections) = Range(Tail(sections)) \cup {Section}
           /\ markdown \in Seq(AllLines) /\ Len(markdown) \in Nat
           /\ Section.first \in 1 .. Len(markdown) /\ Section.last \in Section.first .. Len(markdown)
           /\ ~Fenced(Section.first - 1) /\ (Clear => ~Fenced(Section.last))
           /\ \A i \in Section.first .. Section.last : i \in 1 .. Len(markdown) /\ Under(i, Section.path)
<1>1. /\ sections \in Seq(SectionSet) /\ markdown \in Seq(AllLines) /\ Len(markdown) \in Nat
  BY LenProperties DEF ChunkingInv, ChunkingType
<1>2. /\ Section \in SectionSet /\ Tail(sections) \in Seq(SectionSet)
      /\ Range(sections) = Range(Tail(sections)) \cup {Section}
  BY <1>1, RangeTail DEF Section
<1>3. SectionOK(Section)
  BY <1>2 DEF ChunkingInv, SectionsOK
<1>4. PICK a, b, path : a = Section.first /\ b = Section.last /\ path = Section.path
  OBVIOUS
<1>5. a \in Nat /\ b \in Nat
  BY <1>2, <1>4 DEF SectionSet
<1>6. /\ 1 <= a /\ a <= b /\ b <= Len(markdown)
      /\ \A i \in a .. b : Under(i, path)
      /\ ~Fenced(a - 1) /\ (b = Len(markdown) \/ ~Fenced(b))
  BY <1>3, <1>4 DEF SectionOK
<1>7. /\ a \in 1 .. Len(markdown) /\ b \in a .. Len(markdown) /\ (Clear => ~Fenced(b))
      /\ \A i \in a .. b : i \in 1 .. Len(markdown) /\ Under(i, path)
  BY <1>1, <1>5, <1>6 DEF Clear
<1> QED
  BY <1>1, <1>2, <1>3, <1>4, <1>6, <1>7

\* Lines under a path, of a block within the limit.
LEMMA LinesPart ==
    ASSUME markdown \in Seq(AllLines), NEW a \in 1 .. Len(markdown), NEW b \in a .. Len(markdown),
           NEW path, \A i \in a .. b : Under(i, path),
           Tokens(Lines(a, b)) <= ChunkSize, Clear => Fences(Lines(a, b)) % 2 = 0
    PROVE  Lines(a, b) \in Seq(Piece) /\ PartOK(Lines(a, b), path)
<1>1. a \in 1 .. Len(markdown) + 1 /\ b \in a - 1 .. Len(markdown) /\ Len(markdown) \in Nat
  BY LenProperties
<1>2. /\ Lines(a, b) \in Seq(Piece)
      /\ \A p \in Range(Lines(a, b)) : \E i \in a .. b : p = Whole(i)
  BY <1>1, LinesSeq
<1>3. ASSUME NEW p \in Range(Lines(a, b)) PROVE PieceOK(p, path)
  <2>1. PICK i \in a .. b : p = Whole(i)
    BY <1>2
  <2>2. i \in 1 .. Len(markdown)
    BY <1>1
  <2>3. p.at = i /\ p.from = 0 /\ p.to = markdown[i].tokens /\ markdown[i].tokens \in Nat
    BY <2>1, <2>2, LineType
  <2> QED
    BY <2>2, <2>3 DEF PieceOK
<1> QED
  BY <1>2, <1>3 DEF PartOK

\* A part made of the lines of a block has every token of them.
LEMMA LinesHave ==
    ASSUME markdown \in Seq(AllLines), NEW a \in 1 .. Len(markdown), NEW b \in a .. Len(markdown),
           NEW i \in a .. b, NEW n \in 1 .. markdown[i].tokens
    PROVE  Has(Lines(a, b), i, n)
<1>1. /\ a \in 1 .. Len(markdown) + 1 /\ b \in a - 1 .. Len(markdown) /\ Len(markdown) \in Nat
      /\ i \in 1 .. Len(markdown)
  BY LenProperties
<1>2. Whole(i) \in Range(Lines(a, b))
  BY <1>1, LinesSeq
<1>3. /\ Whole(i).at = i /\ Whole(i).from = 0 /\ Whole(i).to = markdown[i].tokens
      /\ markdown[i].tokens \in Nat
  BY <1>1, LineType
<1>4. n \in Whole(i).from + 1 .. Whole(i).to
  BY <1>3
<1> QED
  BY <1>2, <1>3, <1>4 DEF Has

LEMMA KeepSectionKeeps ==
    ASSUME ChunkingInv, KeepSection
    PROVE  ChunkingInv'
<1> DEFINE part == Lines(Section.first, Section.last)
<1>1. /\ progress = "chunk" /\ Tokens(part) <= ChunkSize /\ SectionEnds(<<part>>)
      /\ UNCHANGED <<markdown, line, outline, block, blocks, gathered, parts, open, at>>
  BY DEF KeepSection
<1>2. /\ sections # <<>> /\ blocks = <<>> /\ gathered = <<>> /\ parts = <<>> /\ open = <<>>
  BY <1>1 DEF ChunkingInv, Quiet, InSection, InCut
<1>3. part \in Seq(Piece) /\ PartOK(part, Section.path)
  <2>1. Clear => Fences(part) % 2 = 0
    BY <1>2, SectionSound, EvenBetween
  <2> QED
    BY <1>1, <1>2, <2>1, SectionSound, LinesPart
<1>4. <<part>> \in Seq(Seq(Piece)) /\ Range(<<part>>) = {part}
  BY <1>3, RangeOne
<1>5. Joined(<<part>>) <= ChunkSize
  BY <1>1, <1>3, JoinedOne
<1>6. ASSUME NEW i \in 1 .. Len(markdown), NEW n \in 1 .. markdown[i].tokens, Held(i, n)
      PROVE  \/ \E s \in Range(Tail(sections)) : i \in s.first .. s.last
             \/ SomeHas(<<part>>, i, n)
             \/ \E c \in Range(chunks) : SomeHas(c.parts, i, n)
  <2>1. SectionsLeft = sections /\ BlocksLeft = <<>>
    BY <1>1, <1>2 DEF SectionsLeft, BlocksLeft, InSection, InCut
  <2>2. ~ToSplit(i) /\ ~InBlock(i) /\ ~InRows(i) /\ ~ToGather(i)
    BY <1>1, <2>1, RangeNone DEF ToSplit, InBlock, InRows, InCut, ToGather
  <2>3. ~Has(gathered, i, n) /\ ~SomeHas(parts, i, n) /\ ~SomeHas(open, i, n)
    BY <1>2, RangeNone DEF Has, SomeHas
  <2>4. CASE ToCut(i)
    <3>1. CASE i \in Section.first .. Section.last
      <4>1. Has(part, i, n)
        BY <1>2, <3>1, SectionSound, LinesHave
      <4> QED
        BY <1>4, <4>1 DEF SomeHas
    <3>2. CASE i \notin Section.first .. Section.last
      BY <1>2, <2>1, <2>4, <3>2, SectionSound DEF ToCut
    <3> QED
      BY <3>1, <3>2
  <2> QED
    BY <1>6, <2>2, <2>3, <2>4 DEF Held
<1> HIDE DEF part
<1>7. \A q \in Range(<<part>>) : PartOK(q, Section.path)
  BY <1>3, <1>4
<1> QED
  BY <1>1, <1>2, <1>4, <1>5, <1>6, <1>7, SectionEndsKeeps

LEMMA CutSectionKeeps ==
    ASSUME ChunkingInv, CutSection
    PROVE  ChunkingInv'
<1>1. /\ progress = "chunk" /\ progress' = "blocks" /\ line' = Section.first
      /\ UNCHANGED <<markdown, outline, sections, block, blocks, gathered, parts, open, chunks, at>>
  BY DEF CutSection
<1>2. /\ sections # <<>> /\ blocks = <<>> /\ gathered = <<>> /\ parts = <<>> /\ open = <<>>
      /\ block = NoBlock /\ markdown # <<>>
  BY <1>1 DEF ChunkingInv, Quiet, InSection, InCut
<1>3. Section' = Section
  BY <1>1 DEF Section
<1>4. ChunkingType'
  <2>1. line' \in Nat \ {0}
    BY <1>1, <1>2, SectionSound
  <2> QED
    BY <1>1, <2>1 DEF ChunkingInv, ChunkingType, Loops
<1>5. Quiet'
  BY <1>1, <1>2 DEF Quiet, NoBlock, InSection, InCut
<1>6. (SplitOK /\ LinesOK /\ RowsOK)'
  BY <1>1 DEF SplitOK, LinesOK, RowsOK
<1>7. BlockBegun'
  <2>1. block'.kind = "plain" /\ block'.first = 0
    BY <1>1, <1>2 DEF NoBlock
  <2>2. ~Fenced(line' - 1)
    BY <1>1, <1>2, SectionSound
  <2>3. (block.kind = "fence" <=> Fenced(line - 1))'
    BY <1>1, <2>1, <2>2, Frozen
  <2>4. Section.first <= line' /\ line' <= Section.last + 1
    BY <1>1, <1>2, SectionSound
  <2> QED
    BY <1>3, <2>1, <2>3, <2>4 DEF BlockBegun
<1>8. SectionsOK' /\ BlocksOK' /\ PartsOK' /\ ChunksOK'
  BY <1>1, <1>2, RangeNone, Frozen DEF ChunkingInv, SectionsOK, BlocksOK, PartsOK, ChunksOK
<1>9. ASSUME NEW i \in 1 .. Len(markdown), NEW n, Held(i, n) PROVE Held(i, n)'
  <2>1. SectionsLeft = sections /\ SectionsLeft' = Tail(sections)
    BY <1>1 DEF SectionsLeft, InSection
  <2>2. ToCut(i) => ToCut(i)' \/ InBlock(i)'
    <3>1. ASSUME ToCut(i), i \notin Section.first .. Section.last PROVE ToCut(i)'
      BY <1>2, <2>1, <3>1, SectionSound DEF ToCut
    <3>2. ASSUME i \in Section.first .. Section.last PROVE InBlock(i)'
      BY <1>1, <1>3, <3>2 DEF InBlock
    <3> QED
      BY <3>1, <3>2
  <2>3. ToGather(i) => ToGather(i)'
    BY <1>1 DEF ToGather, BlocksLeft, InCut
  <2>4. ~ToSplit(i) /\ ~InBlock(i) /\ ~InRows(i)
    BY <1>1 DEF ToSplit, InBlock, InRows, InCut
  <2> QED
    BY <1>1, <1>9, <2>2, <2>3, <2>4 DEF Held
<1>10. Kept'
  BY <1>1, <1>9, KeptStep
<1> QED
  BY <1>4, <1>5, <1>6, <1>7, <1>8, <1>10 DEF ChunkingInv

\* What the reading of blocks leaves alone.
LEMMA BlocksRest ==
    ASSUME ChunkingInv, progress = "blocks", progress' \in {"blocks", "parts"},
           UNCHANGED <<markdown, outline, sections, gathered, parts, open, chunks, at>>,
           line' \in Nat \ {0}, block' \in [first : Nat, kind : {"plain", "fence", "table"}],
           progress' = "parts" => block' = NoBlock, BlockBegun',
           blocks' \in Seq(BlockSet), \A b \in Range(blocks') : BlockOK(b, Section),
           \A i \in 1 .. Len(markdown) : ~IsKind(i, "blank") =>
               (InBlock(i) \/ ToGather(i) => InBlock(i)' \/ ToGather(i)')
    PROVE  ChunkingInv'
<1>1. ChunkingType'
  BY DEF ChunkingInv, ChunkingType, Loops
<1>2. Section' = Section
  BY DEF Section
<1>3. Quiet'
  BY DEF ChunkingInv, Quiet, NoBlock, InSection, InCut
<1>4. (SplitOK /\ LinesOK /\ RowsOK)'
  BY DEF SplitOK, LinesOK, RowsOK
<1>5. SectionsOK' /\ BlocksOK' /\ PartsOK' /\ ChunksOK'
  <2>1. SectionsOK' /\ ChunksOK'
    BY Frozen DEF ChunkingInv, SectionsOK, ChunksOK
  <2>2. PartsOK'
    <3>1. parts = <<>> /\ open = <<>>
      BY DEF ChunkingInv, Quiet
    <3> QED
      BY <3>1, RangeNone DEF PartsOK
  <2>3. BlocksOK'
    BY <1>2, Frozen DEF BlocksOK
  <2> QED
    BY <2>1, <2>2, <2>3
<1>6. ASSUME NEW i \in 1 .. Len(markdown), ~IsKind(i, "blank"), NEW n, Held(i, n) PROVE Held(i, n)'
  <2>1. SectionsLeft' = SectionsLeft
    BY DEF SectionsLeft, InSection
  <2>2. ToCut(i) => ToCut(i)'
    BY <2>1 DEF ToCut
  <2>3. ~ToSplit(i) /\ ~InRows(i)
    BY DEF ToSplit, InRows, InCut
  <2>4. CASE InBlock(i) \/ ToGather(i)
    BY <1>6, <2>4 DEF Held
  <2>5. CASE ~(InBlock(i) \/ ToGather(i))
    <3>1. \/ ToCut(i)' \/ Has(gathered, i, n) \/ SomeHas(parts, i, n) \/ SomeHas(open, i, n)
          \/ \E c \in Range(chunks) : SomeHas(c.parts, i, n)
      BY <1>6, <2>2, <2>3, <2>5 DEF Held
    <3> QED
      BY <3>1 DEF Held
  <2> QED
    BY <2>4, <2>5
<1>7. Kept'
  BY <1>6, KeptStep
<1> QED
  BY <1>1, <1>3, <1>4, <1>5, <1>7 DEF ChunkingInv

\* A block that ends.
LEMMA BlocksToHas ==
    ASSUME ChunkingInv, progress = "blocks", NEW last \in Nat,
           block.first # 0 => BlockOK([first |-> block.first, last |-> last], Section)
    PROVE  /\ BlocksTo(last) \in Seq(BlockSet) /\ \A b \in Range(BlocksTo(last)) : BlockOK(b, Section)
           /\ Range(blocks) \subseteq Range(BlocksTo(last))
           /\ block.first # 0 => \A i \in block.first .. last :
                 \E b \in Range(BlocksTo(last)) : i \in b.first .. b.last
<1> DEFINE new == [first |-> block.first, last |-> last]
<1>1. blocks \in Seq(BlockSet) /\ \A b \in Range(blocks) : BlockOK(b, Section)
  BY DEF ChunkingInv, ChunkingType, BlocksOK
<1>2. CASE block.first = 0
  BY <1>1, <1>2 DEF BlocksTo
<1>3. CASE block.first # 0
  <2>1. new \in BlockSet
    BY DEF BlockSet, ChunkingInv, ChunkingType
  <2>2. BlocksTo(last) = Append(blocks, new)
    BY <1>3 DEF BlocksTo
  <2>3. /\ BlocksTo(last) \in Seq(BlockSet)
        /\ Range(BlocksTo(last)) = Range(blocks) \cup {new}
    BY <1>1, <2>1, <2>2, RangeAppend
  <2>4. BlockOK(new, Section) /\ new.first = block.first /\ new.last = last
    BY <1>3
  <2> HIDE DEF new
  <2> QED
    BY <1>1, <2>3, <2>4
<1> QED
  BY <1>2, <1>3

LEMMA TakeBlockLineKeeps ==
    ASSUME ChunkingInv, TakeBlockLine
    PROVE  ChunkingInv'
<1>1. /\ progress = "blocks" /\ line <= Section.last /\ line' = line + 1
      /\ UNCHANGED <<markdown, progress, outline, sections, gathered, parts, open, chunks, at>>
  BY DEF TakeBlockLine
<1>2. sections # <<>> /\ Section' = Section
  BY <1>1 DEF ChunkingInv, Quiet, InSection, Section
<1>3. /\ markdown \in Seq(AllLines) /\ Len(markdown) \in Nat
      /\ Section.first \in 1 .. Len(markdown) /\ Section.last \in Section.first .. Len(markdown)
  BY <1>2, SectionSound
<1>4. /\ Section.first <= line /\ (block.kind = "fence" <=> Fenced(line - 1))
      /\ IF block.first = 0 THEN block.kind = "plain"
         ELSE /\ Section.first <= block.first /\ block.first < line
              /\ IsKind(block.first, "fence") <=> block.kind = "fence"
              /\ \A i \in block.first + 1 .. line - 1 : NoFence(i)
  BY <1>1 DEF ChunkingInv, BlockBegun
<1>5. /\ line \in Nat /\ line \in 1 .. Len(markdown) /\ line' \in Nat \ {0} /\ line' - 1 = line
      /\ Section.first <= line' /\ line' <= Section.last + 1
      /\ block \in [first : Nat, kind : {"plain", "fence", "table"}]
  <2>1. line \in Nat \ {0} /\ block \in [first : Nat, kind : {"plain", "fence", "table"}]
    BY DEF ChunkingInv, ChunkingType
  <2>2. line <= Section.last /\ Section.first <= line /\ line' = line + 1
    BY <1>1, <1>4
  <2> QED
    BY <1>3, <2>1, <2>2
<1>6. Fenced(line) <=> (IF IsKind(line, "fence") THEN ~Fenced(line - 1) ELSE Fenced(line - 1))
  BY <1>3, <1>5, FencedStep
<1>7. PICK f : f = block.first
  OBVIOUS
<1>8. f \in Nat
  BY <1>5, <1>7
<1>9. NoBlock \in [first : Nat, kind : {"plain", "fence", "table"}] /\ NoBlock.first = 0
      /\ NoBlock.kind = "plain"
  BY DEF NoBlock
<1>10. CASE Continues /\ UNCHANGED <<block, blocks>>
  <2>1. f # 0 /\ NoFence(line)
    <3>1. IsKind(line, "fence") => ~HasBar(line) /\ KindAt(line) = "fence"
      BY DEF HasBar, IsKind, KindAt
    <3>2. \/ block.kind = "fence" /\ ~IsKind(line, "fence")
          \/ block.kind = "table" /\ HasBar(line)
          \/ block.kind = "plain" /\ block.first > 0 /\ KindAt(line) = "plain"
      BY <1>10 DEF Continues
    <3>3. f # 0
      BY <1>4, <1>7, <1>8, <3>2
    <3> QED
      BY <3>1, <3>2, <3>3 DEF NoFence
  <2>2. Section.first <= f /\ f < line' /\ (IsKind(f, "fence") <=> block.kind = "fence")
    <3>1. Section.first <= f /\ f < line /\ (IsKind(f, "fence") <=> block.kind = "fence")
      BY <1>4, <1>7, <2>1
    <3> QED
      BY <1>1, <1>5, <1>8, <3>1
  <2>3. \A i \in f + 1 .. line : NoFence(i)
    <3>1. \A i \in f + 1 .. line - 1 : NoFence(i)
      BY <1>4, <1>7, <2>1
    <3>2. \A i \in f + 1 .. line : i \in f + 1 .. line - 1 \/ i = line
      BY <1>5, <1>8
    <3> QED
      BY <2>1, <3>1, <3>2
  <2>4. block.kind = "fence" <=> Fenced(line)
    BY <1>4, <1>6, <2>1 DEF NoFence
  <2>5. /\ block' = block /\ block'.first = f /\ block'.kind = block.kind
    BY <1>7, <1>10
  <2>6. BlockBegun'
    <3>1. (block.kind = "fence" <=> Fenced(line - 1))'
      BY <1>1, <1>5, <2>4, <2>5, Frozen
    <3>2. (\A i \in block.first + 1 .. line - 1 : NoFence(i))'
      BY <1>1, <1>5, <2>3, <2>5, Frozen
    <3>3. (Section.first <= block.first /\ block.first < line)'
      BY <1>2, <2>2, <2>5
    <3>4. (IsKind(block.first, "fence") <=> block.kind = "fence")'
      BY <1>1, <2>2, <2>5, Frozen
    <3>5. (Section.first <= line /\ line <= Section.last + 1)'
      BY <1>2, <1>5
    <3>6. block'.first # 0
      BY <2>1, <2>5
    <3> QED
      BY <3>1, <3>2, <3>3, <3>4, <3>5, <3>6, Zenon DEF BlockBegun
  <2>7. ASSUME NEW i \in 1 .. Len(markdown), InBlock(i) \/ ToGather(i)
        PROVE  InBlock(i)' \/ ToGather(i)'
    <3>1. CASE InBlock(i)
      <4>1. i \in line .. Section.last \/ i \in f .. line - 1
        BY <1>7, <3>1 DEF InBlock
      <4>2. i \in line' .. Section.last \/ i \in f .. line' - 1
        <5>1. PICK last : last = Section.last
          OBVIOUS
        <5>2. /\ f \in Nat /\ line \in Nat /\ last \in Nat /\ line' = line + 1
              /\ i \in line .. last \/ i \in f .. line - 1
          BY <1>1, <1>3, <1>5, <1>8, <4>1, <5>1
        <5>3. f <= line
          BY <2>2, <5>2
        <5>4. i \in line' .. last \/ i \in f .. line' - 1
          BY <5>2, <5>3
        <5> QED
          BY <5>1, <5>4
      <4> QED
        BY <1>1, <1>2, <2>1, <2>5, <4>2 DEF InBlock
    <3>2. CASE ToGather(i)
      BY <1>1, <1>10, <3>2 DEF ToGather, BlocksLeft
    <3> QED
      BY <2>7, <3>1, <3>2
  <2> QED
    BY <1>1, <1>5, <1>10, <2>5, <2>6, <2>7, BlocksRest DEF ChunkingInv, ChunkingType, BlocksOK
<1>11. CASE /\ block.kind = "fence" /\ IsKind(line, "fence")
            /\ block' = NoBlock /\ blocks' = BlocksTo(line)
  <2>1. f # 0
    BY <1>4, <1>7, <1>11
  <2>2. /\ Section.first <= f /\ f < line /\ IsKind(f, "fence")
        /\ \A i \in f + 1 .. line - 1 : NoFence(i)
    BY <1>4, <1>7, <1>11, <2>1
  <2>3. ~Fenced(line)
    BY <1>4, <1>6, <1>11
  <2>4. BlockOK([first |-> f, last |-> line], Section)
    <3>1. PICK b : b = [first |-> f, last |-> line]
      OBVIOUS
    <3>2. b.first = f /\ b.last = line
      BY <3>1
    <3>3. f <= line
      BY <1>5, <1>8, <2>2
    <3> QED
      BY <1>1, <1>11, <2>2, <3>1, <3>2, <3>3 DEF BlockOK
  <2>5. /\ blocks' \in Seq(BlockSet) /\ \A b \in Range(blocks') : BlockOK(b, Section)
        /\ Range(blocks) \subseteq Range(blocks')
        /\ \A i \in f .. line : \E b \in Range(blocks') : i \in b.first .. b.last
    BY <1>1, <1>5, <1>7, <1>11, <2>1, <2>4, BlocksToHas
  <2>6. BlockBegun'
    <3>1. (block.kind = "fence" <=> Fenced(line - 1))'
      BY <1>1, <1>5, <1>9, <1>11, <2>3, Frozen
    <3>2. (Section.first <= line /\ line <= Section.last + 1)'
      BY <1>2, <1>5
    <3>3. block'.first = 0 /\ block'.kind = "plain"
      BY <1>9, <1>11
    <3> QED
      BY <3>1, <3>2, <3>3, Zenon DEF BlockBegun
  <2>7. ASSUME NEW i \in 1 .. Len(markdown), InBlock(i) \/ ToGather(i)
        PROVE  InBlock(i)' \/ ToGather(i)'
    <3>0. BlocksLeft = blocks /\ BlocksLeft' = blocks'
      BY <1>1 DEF BlocksLeft, InCut
    <3>1. CASE InBlock(i)
      <4>1. i \in line .. Section.last \/ i \in f .. line - 1
        BY <1>7, <3>1 DEF InBlock
      <4>2. i \in line' .. Section.last \/ i \in f .. line
        <5>1. f <= line /\ Section.last \in Nat
          BY <1>3, <1>5, <1>8, <2>2
        <5> QED
          BY <1>1, <1>5, <1>8, <4>1, <5>1
      <4>3. i \in f .. line => ToGather(i)'
        BY <2>5, <3>0 DEF ToGather
      <4>4. i \in line' .. Section.last => InBlock(i)'
        BY <1>1, <1>2 DEF InBlock
      <4> QED
        BY <4>2, <4>3, <4>4
    <3>2. CASE ToGather(i)
      BY <2>5, <3>0, <3>2 DEF ToGather
    <3> QED
      BY <2>7, <3>1, <3>2
  <2> QED
    BY <1>1, <1>5, <1>9, <1>11, <2>5, <2>6, <2>7, BlocksRest
<1>12. CASE /\ block.kind # "fence" /\ ~Continues
            /\ block' = IF IsKind(line, "blank") THEN NoBlock ELSE [first |-> line, kind |-> KindAt(line)]
            /\ blocks' = BlocksTo(line - 1)
  <2>1. KindAt(line) \in {"plain", "fence", "table"} /\ (KindAt(line) = "fence" <=> IsKind(line, "fence"))
    BY DEF KindAt
  <2>2. PICK g, kind : g = block'.first /\ kind = block'.kind
    OBVIOUS
  <2>3. /\ block' \in [first : Nat, kind : {"plain", "fence", "table"}]
        /\ kind = "fence" <=> IsKind(line, "fence")
        /\ IF IsKind(line, "blank") THEN g = 0 /\ kind = "plain" ELSE g = line
    <3>1. CASE IsKind(line, "blank")
      <4>1. ~IsKind(line, "fence") /\ block' = NoBlock
        BY <1>12, <3>1 DEF IsKind
      <4> QED
        BY <1>9, <2>2, <3>1, <4>1
    <3>2. CASE ~IsKind(line, "blank")
      <4>1. block' = [first |-> line, kind |-> KindAt(line)]
        BY <1>12, <3>2
      <4>2. g = line /\ kind = KindAt(line)
        BY <2>2, <4>1
      <4> QED
        BY <1>5, <2>1, <3>2, <4>1, <4>2
    <3> QED
      BY <3>1, <3>2
  <2>4. kind = "fence" <=> Fenced(line)
    BY <1>4, <1>6, <1>12, <2>3
  <2>5. f # 0 => BlockOK([first |-> f, last |-> line - 1], Section)
    <3> SUFFICES ASSUME f # 0 PROVE BlockOK([first |-> f, last |-> line - 1], Section)
      OBVIOUS
    <3>1. PICK b : b = [first |-> f, last |-> line - 1]
      OBVIOUS
    <3>2. b.first = f /\ b.last = line - 1
      BY <3>1
    <3>3. /\ Section.first <= f /\ f < line /\ ~IsKind(f, "fence")
          /\ \A i \in f + 1 .. line - 1 : NoFence(i)
      BY <1>4, <1>7, <1>12
    <3>4. \A i \in f .. line - 1 : NoFence(i)
      <4>1. \A i \in f .. line - 1 : i = f \/ i \in f + 1 .. line - 1
        BY <1>5, <1>8
      <4> QED
        BY <3>3, <4>1 DEF NoFence
    <3>5. f <= line - 1 /\ line - 1 <= Section.last
      BY <1>1, <1>3, <1>5, <1>8, <3>3
    <3> QED
      BY <3>1, <3>2, <3>3, <3>4, <3>5 DEF BlockOK
  <2>6. /\ blocks' \in Seq(BlockSet) /\ \A b \in Range(blocks') : BlockOK(b, Section)
        /\ Range(blocks) \subseteq Range(blocks')
        /\ f # 0 => \A i \in f .. line - 1 : \E b \in Range(blocks') : i \in b.first .. b.last
    <3>1. line - 1 \in Nat
      BY <1>5
    <3> QED
      BY <1>1, <1>7, <1>12, <2>5, <3>1, BlocksToHas
  <2>7. BlockBegun'
    <3>1. (block.kind = "fence" <=> Fenced(line - 1))'
      BY <1>1, <1>5, <2>2, <2>4, Frozen
    <3>2. (Section.first <= line /\ line <= Section.last + 1)'
      BY <1>2, <1>5
    <3>3. CASE IsKind(line, "blank")
      <4>1. block'.first = 0 /\ block'.kind = "plain"
        BY <2>2, <2>3, <3>3
      <4> QED
        BY <3>1, <3>2, <4>1, Zenon DEF BlockBegun
    <3>4. CASE ~IsKind(line, "blank")
      <4>1. block'.first = line /\ (block'.kind = "fence" <=> IsKind(line, "fence"))
        BY <2>2, <2>3, <3>4
      <4>2. (Section.first <= block.first /\ block.first < line)'
        BY <1>1, <1>2, <1>4, <1>5, <4>1
      <4>3. (IsKind(block.first, "fence") <=> block.kind = "fence")'
        BY <1>1, <4>1, Frozen
      <4>4. (\A i \in block.first + 1 .. line - 1 : NoFence(i))'
        <5>1. line \in Nat /\ line' - 1 = line
          BY <1>5
        <5>2. \A i : i \notin line + 1 .. line' - 1
          BY <5>1
        <5> QED
          BY <4>1, <5>2
      <4>5. block'.first # 0
        BY <1>5, <4>1
      <4> QED
        BY <3>1, <3>2, <4>2, <4>3, <4>4, <4>5, Zenon DEF BlockBegun
    <3> QED
      BY <3>3, <3>4
  <2>8. ASSUME NEW i \in 1 .. Len(markdown), ~IsKind(i, "blank"), InBlock(i) \/ ToGather(i)
        PROVE  InBlock(i)' \/ ToGather(i)'
    <3>0. BlocksLeft = blocks /\ BlocksLeft' = blocks'
      BY <1>1 DEF BlocksLeft, InCut
    <3>1. CASE InBlock(i)
      <4>1. i \in line .. Section.last \/ (f # 0 /\ i \in f .. line - 1)
        BY <1>7, <3>1 DEF InBlock
      <4>2. i \in line' .. Section.last \/ i = line \/ (f # 0 /\ i \in f .. line - 1)
        BY <1>1, <1>3, <1>5, <4>1
      <4>3. f # 0 /\ i \in f .. line - 1 => ToGather(i)'
        BY <2>6, <3>0 DEF ToGather
      <4>4. i \in line' .. Section.last => InBlock(i)'
        BY <1>1, <1>2 DEF InBlock
      <4>5. i = line => InBlock(i)'
        <5>1. ASSUME i = line PROVE g = line /\ g # 0 /\ line \in g .. line' - 1
          <6>1. g = line
            BY <2>3, <2>8, <5>1
          <6>2. line \in Nat \ {0} /\ line' - 1 = line
            BY <1>5, Zenon DEF ChunkingInv, ChunkingType
          <6> QED
            BY <6>1, <6>2
        <5> QED
          BY <1>1, <2>2, <5>1 DEF InBlock
      <4> QED
        BY <4>2, <4>3, <4>4, <4>5
    <3>2. CASE ToGather(i)
      BY <2>6, <3>0, <3>2 DEF ToGather
    <3> QED
      BY <2>8, <3>1, <3>2
  <2> QED
    BY <1>1, <1>5, <2>3, <2>6, <2>7, <2>8, BlocksRest
<1> QED
  BY <1>10, <1>11, <1>12 DEF TakeBlockLine

LEMMA EndBlocksKeeps ==
    ASSUME ChunkingInv, EndBlocks
    PROVE  ChunkingInv'
<1>1. /\ progress = "blocks" /\ line > Section.last /\ progress' = "parts"
      /\ block' = NoBlock /\ blocks' = BlocksTo(Section.last)
      /\ UNCHANGED <<markdown, line, outline, sections, gathered, parts, open, chunks, at>>
  BY DEF EndBlocks
<1>2. sections # <<>>
  BY <1>1 DEF ChunkingInv, Quiet, InSection
<1>3. /\ markdown \in Seq(AllLines) /\ Len(markdown) \in Nat /\ (Clear => ~Fenced(Section.last))
      /\ Section.first \in 1 .. Len(markdown) /\ Section.last \in Section.first .. Len(markdown)
  BY <1>2, SectionSound
<1>4. /\ line <= Section.last + 1 /\ (block.kind = "fence" <=> Fenced(line - 1))
      /\ IF block.first = 0 THEN block.kind = "plain"
         ELSE /\ Section.first <= block.first /\ block.first < line
              /\ IsKind(block.first, "fence") <=> block.kind = "fence"
              /\ \A i \in block.first + 1 .. line - 1 : NoFence(i)
  BY <1>1 DEF ChunkingInv, BlockBegun
<1>5. PICK f, last : f = block.first /\ last = Section.last
  OBVIOUS
<1>6. f \in Nat /\ last \in Nat /\ line \in Nat \ {0}
  BY <1>3, <1>5 DEF ChunkingInv, ChunkingType
<1>7. line - 1 = last
  BY <1>1, <1>4, <1>5, <1>6
<1>8. f # 0 => BlockOK([first |-> f, last |-> last], Section)
  <2> SUFFICES ASSUME f # 0 PROVE BlockOK([first |-> f, last |-> last], Section)
    OBVIOUS
  <2>1. PICK b : b = [first |-> f, last |-> last]
    OBVIOUS
  <2>2. b.first = f /\ b.last = last
    BY <2>1
  <2>3. /\ Section.first <= f /\ f < line
        /\ IsKind(f, "fence") <=> block.kind = "fence"
        /\ \A i \in f + 1 .. last : NoFence(i)
    BY <1>4, <1>5, <1>7
  <2>4. f <= last /\ last <= Section.last
    BY <1>5, <1>6, <1>7, <2>3
  <2>5. CASE IsKind(f, "fence")
    <3>1. ~Clear
      BY <1>3, <1>4, <1>5, <1>7, <2>3, <2>5
    <3>2. \A i \in f + 1 .. last - 1 : NoFence(i)
      BY <1>6, <2>3
    <3> QED
      BY <2>1, <2>2, <2>3, <2>4, <2>5, <3>1, <3>2 DEF BlockOK
  <2>6. CASE ~IsKind(f, "fence")
    <3>1. \A i \in f .. last : i = f \/ i \in f + 1 .. last
      BY <1>6
    <3>2. \A i \in f .. last : NoFence(i)
      BY <2>3, <2>6, <3>1 DEF NoFence
    <3> QED
      BY <2>1, <2>2, <2>3, <2>4, <3>2 DEF BlockOK
  <2> QED
    BY <2>5, <2>6
<1>9. /\ blocks' \in Seq(BlockSet) /\ \A b \in Range(blocks') : BlockOK(b, Section)
      /\ Range(blocks) \subseteq Range(blocks')
      /\ f # 0 => \A i \in f .. last : \E b \in Range(blocks') : i \in b.first .. b.last
  BY <1>1, <1>5, <1>6, <1>8, BlocksToHas
<1>10. BlockBegun' /\ NoBlock \in [first : Nat, kind : {"plain", "fence", "table"}]
  BY <1>1 DEF BlockBegun, NoBlock
<1>11. ASSUME NEW i \in 1 .. Len(markdown), InBlock(i) \/ ToGather(i)
       PROVE  ToGather(i)'
  <2>1. BlocksLeft = blocks /\ BlocksLeft' = blocks'
    BY <1>1 DEF BlocksLeft, InCut
  <2>2. CASE InBlock(i)
    <3>1. i \in line .. last \/ (f # 0 /\ i \in f .. line - 1)
      BY <1>5, <2>2 DEF InBlock
    <3>2. i \notin line .. last
      BY <1>6, <1>7
    <3> QED
      BY <1>7, <1>9, <2>1, <3>1, <3>2 DEF ToGather
  <2>3. CASE ToGather(i)
    BY <1>9, <2>1, <2>3 DEF ToGather
  <2> QED
    BY <1>11, <2>2, <2>3
<1> QED
  BY <1>1, <1>6, <1>9, <1>10, <1>11, BlocksRest
-----------------------------------------------------------------------------
(* Chunking: the block at hand.                                            *)

LEMMA BlockSound ==
    ASSUME ChunkingInv, blocks # <<>>, progress \in InSection
    PROVE  /\ sections # <<>> /\ markdown \in Seq(AllLines) /\ Len(markdown) \in Nat
           /\ Tail(blocks) \in Seq(BlockSet) /\ Range(blocks) = Range(Tail(blocks)) \cup {Block}
           /\ BlockOK(Block, Section)
           /\ Block.first \in 1 .. Len(markdown) /\ Block.last \in Block.first .. Len(markdown)
           /\ \A i \in Block.first .. Block.last : i \in 1 .. Len(markdown) /\ Under(i, Section.path)
<1>1. sections # <<>> /\ blocks \in Seq(BlockSet)
  BY DEF ChunkingInv, ChunkingType, Quiet
<1>2. /\ markdown \in Seq(AllLines) /\ Len(markdown) \in Nat
      /\ Section.first \in 1 .. Len(markdown) /\ Section.last \in Section.first .. Len(markdown)
      /\ \A i \in Section.first .. Section.last : i \in 1 .. Len(markdown) /\ Under(i, Section.path)
  BY <1>1, SectionSound
<1>3. /\ Block \in BlockSet /\ Tail(blocks) \in Seq(BlockSet)
      /\ Range(blocks) = Range(Tail(blocks)) \cup {Block}
  BY <1>1, RangeTail DEF Block
<1>4. BlockOK(Block, Section)
  BY <1>3 DEF ChunkingInv, BlocksOK
<1>5. PICK a, b, first, last : /\ a = Block.first /\ b = Block.last
                               /\ first = Section.first /\ last = Section.last
  OBVIOUS
<1>6. a \in Nat /\ b \in Nat /\ first <= a /\ a <= b /\ b <= last
  BY <1>3, <1>4, <1>5 DEF BlockSet, BlockOK
<1>7. /\ a \in 1 .. Len(markdown) /\ b \in a .. Len(markdown)
      /\ \A i \in a .. b : i \in first .. last
  BY <1>2, <1>5, <1>6
<1> QED
  BY <1>1, <1>2, <1>3, <1>4, <1>5, <1>7

\* Lines none of which is a fence.
LEMMA LinesNoFence ==
    ASSUME markdown \in Seq(AllLines), NEW a \in 1 .. Len(markdown) + 1,
           NEW b \in a - 1 .. Len(markdown), \A i \in a .. b : NoFence(i)
    PROVE  Fences(Lines(a, b)) = 0
<1>1. /\ Lines(a, b) \in Seq(Piece)
      /\ \A p \in Range(Lines(a, b)) : \E i \in a .. b : p = Whole(i)
  BY LinesSeq
<1>2. ASSUME NEW p \in Range(Lines(a, b)) PROVE ~IsMark(p)
  <2>1. PICK i \in a .. b : p = Whole(i)
    BY <1>1
  <2>2. i \in 1 .. Len(markdown)
    BY LenProperties
  <2> QED
    BY <2>1, <2>2, LineType DEF NoFence
<1> QED
  BY <1>1, <1>2, FencesNone

\* A line on its own.
LEMMA LineAlone ==
    ASSUME markdown \in Seq(AllLines), NEW i \in 1 .. Len(markdown)
    PROVE  /\ Lines(i, i) \in Seq(Piece) /\ Tokens(Lines(i, i)) = markdown[i].tokens
           /\ Fences(Lines(i, i)) = IF IsKind(i, "fence") THEN 1 ELSE 0
<1>1. Lines(i, i) = <<Whole(i)>>
  BY LinesOne
<1>2. /\ Whole(i) \in Piece /\ Whole(i).from = 0 /\ Whole(i).to = markdown[i].tokens
      /\ IsMark(Whole(i)) <=> IsKind(i, "fence")
      /\ markdown[i].tokens \in Nat
  BY LineType
<1>3. Tokens(<<Whole(i)>>) = Whole(i).to - Whole(i).from
      /\ Fences(<<Whole(i)>>) = (IF IsMark(Whole(i)) THEN 1 ELSE 0) /\ <<Whole(i)>> \in Seq(Piece)
  BY <1>2, OnePiece
<1>4. Tokens(<<Whole(i)>>) = markdown[i].tokens
  BY <1>2, <1>3
<1>5. Fences(<<Whole(i)>>) = IF IsKind(i, "fence") THEN 1 ELSE 0
  BY <1>2, <1>3
<1> QED
  BY <1>1, <1>3, <1>4, <1>5

\* A block of a document that closes its code has both its fences or none.
LEMMA BlockEven ==
    ASSUME markdown \in Seq(AllLines), NEW b, NEW s, BlockOK(b, s), Clear,
           b.first \in 1 .. Len(markdown), b.last \in b.first .. Len(markdown)
    PROVE  Fences(Lines(b.first, b.last)) % 2 = 0
<1>1. PICK f, l : f = b.first /\ l = b.last
  OBVIOUS
<1>2. f \in 1 .. Len(markdown) /\ l \in f .. Len(markdown) /\ Len(markdown) \in Nat
  BY <1>1, LenProperties
<1>3. f \in 1 .. Len(markdown) + 1 /\ l \in f - 1 .. Len(markdown) /\ f \in Nat /\ l \in Nat
  BY <1>2
<1>4. \/ \A i \in f .. l : NoFence(i)
      \/ IsKind(f, "fence") /\ (\A i \in f + 1 .. l - 1 : NoFence(i)) /\ f < l /\ IsKind(l, "fence")
  BY <1>1 DEF BlockOK
<1>5. CASE \A i \in f .. l : NoFence(i)
  <2>1. Fences(Lines(f, l)) = 0
    BY <1>3, <1>5, LinesNoFence
  <2> QED
    BY <1>1, <2>1
<1>6. CASE /\ IsKind(f, "fence") /\ f < l /\ IsKind(l, "fence")
           /\ \A i \in f + 1 .. l - 1 : NoFence(i)
  <2>1. /\ f \in f - 1 .. Len(markdown) /\ l \in f .. Len(markdown)
        /\ f + 1 \in 1 .. Len(markdown) + 1 /\ l - 1 \in (f + 1) - 1 .. Len(markdown)
        /\ l \in l - 1 .. Len(markdown) /\ (l - 1) + 1 = l /\ l \in 1 .. Len(markdown)
        /\ l \in (f + 1) - 1 .. Len(markdown)
    BY <1>2, <1>3, <1>6
  <2>2. Lines(f, l) = Lines(f, f) \o Lines(f + 1, l)
    BY <1>3, <2>1, LinesSplit
  <2>3. Lines(f + 1, l) = Lines(f + 1, l - 1) \o Lines(l, l)
    <3>1. Lines(f + 1, l) = Lines(f + 1, l - 1) \o Lines((l - 1) + 1, l)
      BY <2>1, LinesSplit
    <3> QED
      BY <2>1, <3>1
  <2>4. /\ Lines(f, f) \in Seq(Piece) /\ Fences(Lines(f, f)) = 1
        /\ Lines(l, l) \in Seq(Piece) /\ Fences(Lines(l, l)) = 1
    BY <1>2, <1>6, <2>1, LineAlone
  <2>5. Lines(f + 1, l - 1) \in Seq(Piece) /\ Fences(Lines(f + 1, l - 1)) = 0
    BY <1>6, <2>1, LinesSeq, LinesNoFence
  <2>6. Lines(f + 1, l) \in Seq(Piece) /\ Fences(Lines(f + 1, l)) = 1
    <3>1. Fences(Lines(f + 1, l - 1) \o Lines(l, l)) = 1
      <4>1. /\ Fences(Lines(f + 1, l - 1) \o Lines(l, l))
               = Fences(Lines(f + 1, l - 1)) + Fences(Lines(l, l))
        BY <2>4, <2>5, FencesConcat
      <4> QED
        BY <2>4, <2>5, <4>1
    <3>2. Lines(f + 1, l - 1) \o Lines(l, l) \in Seq(Piece)
      BY <2>4, <2>5, ConcatProperties
    <3> QED
      BY <2>3, <3>1, <3>2, Zenon
  <2>7. Fences(Lines(f, l)) = 1 + 1
    BY <2>2, <2>4, <2>6, FencesConcat
  <2> QED
    BY <1>1, <2>7
<1> QED
  BY <1>4, <1>5, <1>6

\* The last line of a block that can be a row.
BodyLast == IF IsFenced /\ IsClosed THEN Block.last - 1 ELSE Block.last

\* What every piece of a structured block repeats: under the path of the section,
\* its fences in pairs, and none among the rows.
LEMMA FrameSound ==
    ASSUME ChunkingInv, blocks # <<>>, progress \in InSection, IsFenced \/ IsTable
    PROVE  /\ Before \in Seq(Piece) /\ After \in Seq(Piece)
           /\ BodyFirst - 1 \in Block.first .. Block.last
           /\ Before = Lines(Block.first, BodyFirst - 1)
           /\ IsFenced /\ IsClosed => After = Lines(Block.last, Block.last)
           /\ \A p \in Range(Before) : PieceOK(p, Section.path)
           /\ \A p \in Range(After) : PieceOK(p, Section.path)
           /\ (Fences(Before) + Fences(After)) % 2 = 0
           /\ Tokens(Before) \in Int /\ Tokens(After) \in Nat
           /\ \A i \in BodyFirst .. BodyLast : NoFence(i)
<1>1. PICK f, l, path : f = Block.first /\ l = Block.last /\ path = Section.path
  OBVIOUS
<1>2. /\ markdown \in Seq(AllLines) /\ Len(markdown) \in Nat
      /\ f \in 1 .. Len(markdown) /\ l \in f .. Len(markdown)
      /\ BlockOK(Block, Section)
      /\ \A i \in f .. l : i \in 1 .. Len(markdown) /\ Under(i, path)
  BY <1>1, BlockSound
<1>3. /\ \/ \A i \in f .. l : NoFence(i)
         \/ IsKind(f, "fence") /\ \A i \in f + 1 .. l - 1 : NoFence(i)
  BY <1>1, <1>2 DEF BlockOK
<1>4. f \in Nat /\ l \in Nat /\ f <= l
  BY <1>2
<1>5. ASSUME NEW a \in f .. l, NEW b \in a .. l, NEW p \in Range(Lines(a, b)) PROVE PieceOK(p, path)
  <2>1. a \in 1 .. Len(markdown) + 1 /\ b \in a - 1 .. Len(markdown)
    BY <1>2
  <2>2. PICK i \in a .. b : p = Whole(i)
    BY <1>2, <2>1, <1>5, LinesSeq
  <2>3. i \in 1 .. Len(markdown) /\ Under(i, path)
    BY <1>2, <1>4
  <2>4. p.at = i /\ p.from = 0 /\ p.to = markdown[i].tokens /\ markdown[i].tokens \in Nat
    BY <1>2, <2>2, <2>3, LineType
  <2> QED
    BY <2>3, <2>4 DEF PieceOK
<1>6. CASE IsFenced
  <2>1. IsKind(f, "fence") /\ Before = Lines(f, f)
    BY <1>1, <1>6 DEF IsFenced, Before
  <2>2. /\ Lines(f, f) \in Seq(Piece) /\ Fences(Lines(f, f)) = 1
    BY <1>2, <2>1, LineAlone
  <2>3. Len(Before) = 1 /\ BodyFirst = f + 1
    <3>1. Len(Lines(f, f)) = f - f + 1
      <4>1. f \in 1 .. Len(markdown) + 1 /\ f \in f - 1 .. Len(markdown)
        BY <1>2, <1>4
      <4> QED
        BY <1>2, <4>1, LinesSeq
    <3> QED
      BY <1>1, <1>4, <2>1, <3>1 DEF BodyFirst
  <2>4. BodyFirst - 1 = f /\ f \in f .. l /\ l \in f .. l
    BY <1>4, <2>3
  <2>5. Tokens(Before) \in Int /\ \A p \in Range(Before) : PieceOK(p, path)
    BY <1>4, <1>5, <2>1, <2>2, <2>4, TokensInt
  <2>6. \A i \in f + 1 .. l - 1 : NoFence(i)
    BY <1>3, <2>1, <2>4 DEF NoFence
  <2>7. CASE IsClosed
    <3>1. IsKind(l, "fence") /\ After = Lines(l, l)
      BY <1>1, <1>6, <2>7 DEF IsClosed, After
    <3>2. /\ Lines(l, l) \in Seq(Piece) /\ Fences(Lines(l, l)) = 1 /\ Tokens(Lines(l, l)) \in Nat
      <4>1. l \in 1 .. Len(markdown)
        BY <1>2, <1>4
      <4>2. /\ Lines(l, l) \in Seq(Piece) /\ Fences(Lines(l, l)) = 1
            /\ Tokens(Lines(l, l)) = markdown[l].tokens
        BY <1>2, <3>1, <4>1, LineAlone
      <4>3. markdown[l].tokens \in Nat
        BY <1>2, <4>1, LineType
      <4> QED
        BY <4>2, <4>3
    <3>3. \A p \in Range(After) : PieceOK(p, path)
      BY <1>5, <2>4, <3>1, <1>4
    <3>4. BodyLast = l - 1
      BY <1>1, <1>6, <2>7 DEF BodyLast
    <3>5. (Fences(Before) + Fences(After)) % 2 = 0
      BY <2>1, <2>2, <3>1, <3>2
    <3> QED
      BY <1>1, <2>1, <2>2, <2>3, <2>4, <2>5, <2>6, <3>1, <3>2, <3>3, <3>4, <3>5
  <2>8. CASE ~IsClosed
    <3>1. After = <<ClosingFence>> /\ (l > f => NoFence(l))
      BY <1>1, <1>6, <2>8 DEF IsClosed, After, NoFence
    <3>2. /\ ClosingFence \in Piece /\ ClosingFence.at = 0 /\ ClosingFence.from = 0
          /\ ClosingFence.to = 1
      BY DEF ClosingFence, Span, Piece
    <3>3. /\ <<ClosingFence>> \in Seq(Piece) /\ Tokens(<<ClosingFence>>) = 1
          /\ Fences(<<ClosingFence>>) = 1
      <4>1. IsMark(ClosingFence)
        BY <3>2 DEF IsMark
      <4>2. ClosingFence.to - ClosingFence.from = 1
        BY <3>2
      <4> QED
        BY <3>2, <4>1, <4>2, OnePiece
    <3>4. \A p \in Range(After) : PieceOK(p, path)
      <4>1. PieceOK(ClosingFence, path)
        BY <3>2 DEF PieceOK
      <4> QED
        BY <3>1, <4>1, RangeOne
    <3>5. BodyLast = l
      BY <1>1, <2>8 DEF BodyLast
    <3>6. \A i \in f + 1 .. l : NoFence(i)
      <4>1. \A i \in f + 1 .. l : i \in f + 1 .. l - 1 \/ (i = l /\ l > f)
        BY <1>4
      <4> QED
        BY <2>6, <3>1, <4>1
    <3>7. (Fences(Before) + Fences(After)) % 2 = 0
      BY <2>1, <2>2, <3>1, <3>3
    <3> QED
      BY <1>1, <2>1, <2>2, <2>3, <2>4, <2>5, <2>8, <3>1, <3>3, <3>4, <3>5, <3>6, <3>7
  <2> QED
    BY <2>7, <2>8
<1>7. CASE ~IsFenced
  <2>1. l > f /\ Before = Lines(f, f + 1) /\ After = <<>> /\ BodyLast = l
    BY <1>1, <1>7 DEF IsTable, Before, After, BodyLast
  <2>2. ~IsKind(f, "fence") /\ \A i \in f .. l : NoFence(i)
    BY <1>1, <1>3, <1>7 DEF IsFenced
  <2>3. /\ f \in 1 .. Len(markdown) + 1 /\ f + 1 \in f - 1 .. Len(markdown) /\ f + 1 \in f .. l
        /\ f \in f .. l /\ (f + 1) - f + 1 = 2
    BY <1>2, <1>4, <2>1
  <2>4. Before \in Seq(Piece) /\ Len(Before) = 2
    BY <1>2, <2>1, <2>3, LinesSeq
  <2>5. BodyFirst = f + 2 /\ BodyFirst - 1 = f + 1
    BY <1>1, <1>4, <2>4 DEF BodyFirst
  <2>6. Fences(Before) = 0
    <3>1. \A i \in f .. f + 1 : NoFence(i)
      BY <1>4, <2>1, <2>2
    <3> QED
      BY <1>2, <2>1, <2>3, <3>1, LinesNoFence
  <2>7. After \in Seq(Piece) /\ Tokens(After) = 0 /\ Fences(After) = 0 /\ Range(After) = {}
    BY <2>1, NoPieces, RangeNone
  <2>8. Tokens(Before) \in Int /\ \A p \in Range(Before) : PieceOK(p, path)
    <3>1. f + 1 \in f .. l
      BY <2>3
    <3> QED
      BY <1>5, <2>1, <2>3, <2>4, TokensInt
  <2>9. \A i \in BodyFirst .. BodyLast : NoFence(i)
    BY <1>4, <2>1, <2>2, <2>5
  <2>10. (Fences(Before) + Fences(After)) % 2 = 0
    BY <2>6, <2>7
  <2>11. BodyFirst - 1 \in f .. l /\ Before = Lines(f, BodyFirst - 1)
    BY <2>1, <2>3, <2>5
  <2>12. Tokens(After) \in Nat /\ \A p \in Range(After) : PieceOK(p, path)
    BY <2>7
  <2> QED
    BY <1>1, <1>7, <2>4, <2>7, <2>8, <2>9, <2>10, <2>11, <2>12
<1> QED
  BY <1>6, <1>7

\* A structured block that is cut has a row.
LEMMA RowsThere ==
    ASSUME ChunkingInv, blocks # <<>>, progress \in InSection, IsStructured,
           Tokens(Lines(Block.first, Block.last)) > ChunkSize
    PROVE  BodyFirst <= BodyLast
<1>1. PICK f, l : f = Block.first /\ l = Block.last
  OBVIOUS
<1>2. /\ markdown \in Seq(AllLines) /\ Len(markdown) \in Nat
      /\ f \in 1 .. Len(markdown) /\ l \in f .. Len(markdown)
  BY <1>1, BlockSound
<1>3. (IsFenced \/ IsTable) /\ ChunkSize - Tokens(Before) - Tokens(After) > 0
  BY DEF IsStructured, RowRoom
<1>4. /\ Before \in Seq(Piece) /\ After \in Seq(Piece)
      /\ BodyFirst - 1 \in f .. l /\ Before = Lines(f, BodyFirst - 1)
      /\ IsFenced /\ IsClosed => After = Lines(l, l)
      /\ Tokens(Before) \in Int /\ Tokens(After) \in Nat
  BY <1>1, <1>3, FrameSound
<1>5. PICK body, m, n : body = BodyFirst /\ m = Tokens(Before) /\ n = Tokens(After)
  OBVIOUS
<1>6. /\ f \in Nat /\ l \in Nat /\ m \in Int /\ n \in Nat /\ m + n < ChunkSize /\ ChunkSize \in Nat
  BY <1>2, <1>3, <1>4, <1>5, ChunkingAssumption
<1>7. body \in Int /\ body - 1 \in f .. l
  <2>1. Len(Before) \in Nat
    BY <1>4, LenProperties
  <2> QED
    BY <1>1, <1>4, <1>5, <1>6, <2>1 DEF BodyFirst
<1>8. ASSUME body - 1 = l PROVE FALSE
  <2>1. Lines(f, l) = Before
    BY <1>4, <1>5, <1>8
  <2> QED
    BY <1>1, <1>5, <1>6, <2>1
<1>9. ASSUME IsFenced, IsClosed, body - 1 = l - 1 PROVE FALSE
  <2>1. /\ l - 1 \in f - 1 .. Len(markdown) /\ l \in l - 1 .. Len(markdown) /\ (l - 1) + 1 = l
        /\ f \in 1 .. Len(markdown) + 1
    BY <1>2, <1>6, <1>7, <1>9
  <2>2. Lines(f, l) = Lines(f, l - 1) \o Lines((l - 1) + 1, l)
    BY <1>2, <2>1, LinesSplit
  <2>3. Lines(f, l) = Before \o After
    BY <1>4, <1>5, <1>9, <2>1, <2>2
  <2>4. Tokens(Lines(f, l)) = m + n
    BY <1>4, <1>5, <2>3, TokensConcat
  <2> QED
    BY <1>1, <1>6, <2>4
<1>10. BodyLast = IF IsFenced /\ IsClosed THEN l - 1 ELSE l
  BY <1>1 DEF BodyLast
<1> QED
  BY <1>5, <1>6, <1>7, <1>8, <1>9, <1>10

\* What the cutting of blocks leaves alone.
LEMMA PartsRest ==
    ASSUME ChunkingInv, UNCHANGED <<markdown, sections, outline, block, at>>,
           sections # <<>>, progress' \in {"parts", "lines", "rows"}, block = NoBlock,
           line' \in Nat \ {0}, blocks' \in Seq(BlockSet), Range(blocks') \subseteq Range(blocks),
           gathered' \in Seq(Piece), parts' \in Seq(Seq(Piece)), open' \in Seq(Seq(Piece)),
           chunks' \in Seq(ChunkSet), \A c \in Range(chunks') : ChunkOK(c),
           progress' = "parts" => gathered' = <<>>,
           progress' # "parts" => blocks' # <<>>,
           blocks' # <<>> => open' = <<>>,
           \A part \in Range(parts') : PartOK(part, Section.path),
           \A part \in Range(open') : PartOK(part, Section.path),
           open' # <<>> => Joined(open') <= ChunkSize,
           LinesOK', RowsOK', Kept'
    PROVE  ChunkingInv'
<1>1. Section' = Section
  BY DEF Section
<1>2. ChunkingType'
  BY DEF ChunkingInv, ChunkingType, Loops
<1>3. Quiet'
  <2>1. markdown # <<>>
    <3>1. progress # "write"
      BY DEF ChunkingInv, Quiet
    <3> QED
      BY <3>1 DEF ChunkingInv, Quiet
  <2> QED
    BY <2>1 DEF Quiet, NoBlock, InSection, InCut
<1>4. (SplitOK /\ BlockBegun)'
  BY DEF SplitOK, BlockBegun
<1>5. SectionsOK'
  BY Frozen DEF ChunkingInv, SectionsOK
<1>6. BlocksOK'
  BY <1>1, Frozen DEF ChunkingInv, BlocksOK
<1>7. PartsOK'
  BY <1>1, Frozen DEF PartsOK
<1>8. ChunksOK'
  BY Frozen DEF ChunksOK
<1> QED
  BY <1>2, <1>3, <1>4, <1>5, <1>6, <1>7, <1>8 DEF ChunkingInv

\* Where text is once a section is read into blocks.
LEMMA HeldInSection ==
    ASSUME NEW i, NEW n, Held(i, n), progress \in {"parts", "lines", "rows"}
    PROVE  \/ \E s \in Range(Tail(sections)) : i \in s.first .. s.last
           \/ ToGather(i) \/ InRows(i)
           \/ Has(gathered, i, n) \/ SomeHas(parts, i, n) \/ SomeHas(open, i, n)
           \/ \E c \in Range(chunks) : SomeHas(c.parts, i, n)
BY DEF Held, ToSplit, ToCut, InBlock, SectionsLeft, InSection

LEMMA TakeBlockKeeps ==
    ASSUME ChunkingInv, TakeBlock
    PROVE  ChunkingInv'
<1> DEFINE whole == Lines(Block.first, Block.last)
<1>1. /\ progress = "parts" /\ blocks # <<>>
      /\ UNCHANGED <<markdown, outline, sections, block, gathered, open, chunks, at>>
  BY DEF TakeBlock
<1>2. /\ sections # <<>> /\ block = NoBlock /\ gathered = <<>> /\ open = <<>>
  BY <1>1 DEF ChunkingInv, Quiet, InSection, InCut
<1>3. /\ line \in Nat \ {0} /\ blocks \in Seq(BlockSet) /\ parts \in Seq(Seq(Piece))
      /\ gathered \in Seq(Piece) /\ open \in Seq(Seq(Piece)) /\ chunks \in Seq(ChunkSet)
      /\ \A part \in Range(parts) : PartOK(part, Section.path)
      /\ \A c \in Range(chunks) : ChunkOK(c)
  BY DEF ChunkingInv, ChunkingType, PartsOK, ChunksOK
<1>4. progress \in InSection
  BY <1>1 DEF InSection
<1>5. /\ markdown \in Seq(AllLines) /\ Len(markdown) \in Nat
      /\ Tail(blocks) \in Seq(BlockSet) /\ Range(blocks) = Range(Tail(blocks)) \cup {Block}
      /\ BlockOK(Block, Section)
      /\ Block.first \in 1 .. Len(markdown) /\ Block.last \in Block.first .. Len(markdown)
      /\ \A i \in Block.first .. Block.last : i \in 1 .. Len(markdown) /\ Under(i, Section.path)
  BY <1>1, <1>4, BlockSound
<1>6. BlocksLeft = blocks
  BY <1>1 DEF BlocksLeft, InCut
<1>7. Range(open) = {} /\ Range(gathered) = {}
  BY <1>2, RangeNone
<1>8. CASE /\ Tokens(whole) <= ChunkSize
           /\ parts' = Append(parts, whole) /\ blocks' = Tail(blocks) /\ UNCHANGED <<progress, line>>
  <2>1. whole \in Seq(Piece) /\ PartOK(whole, Section.path)
    <3>1. Clear => Fences(whole) % 2 = 0
      BY <1>5, BlockEven
    <3> QED
      BY <1>5, <1>8, <3>1, LinesPart
  <2>2. parts' \in Seq(Seq(Piece)) /\ Range(parts') = Range(parts) \cup {whole}
    BY <1>3, <1>8, <2>1, RangeAppend
  <2>3. (LinesOK /\ RowsOK)'
    BY <1>1, <1>8 DEF LinesOK, RowsOK
  <2>4. ASSUME NEW i \in 1 .. Len(markdown), NEW n \in 1 .. markdown[i].tokens, Held(i, n)
        PROVE  Held(i, n)'
    <3>1. SectionsLeft' = Tail(sections) /\ BlocksLeft' = Tail(blocks)
      BY <1>1, <1>8 DEF SectionsLeft, BlocksLeft, InSection, InCut
    <3>2. ~InRows(i) /\ ~Has(gathered, i, n) /\ ~SomeHas(open, i, n)
      BY <1>1, <1>7 DEF InRows, InCut, Has, SomeHas
    <3>3. ToGather(i) => ToGather(i)' \/ SomeHas(parts, i, n)'
      <4>1. i \in Block.first .. Block.last => Has(whole, i, n)
        BY <1>5, LinesHave
      <4>2. i \in Block.first .. Block.last => SomeHas(parts', i, n)
        BY <2>2, <4>1 DEF SomeHas
      <4>3. ToGather(i) => ToGather(i)' \/ i \in Block.first .. Block.last
        BY <1>5, <1>6, <3>1 DEF ToGather
      <4> QED
        BY <4>2, <4>3 DEF SomeHas, Has
    <3>4. SomeHas(parts, i, n) => SomeHas(parts, i, n)'
      BY <2>2 DEF SomeHas, Has
    <3>5. (\E s \in Range(Tail(sections)) : i \in s.first .. s.last) => ToCut(i)'
      BY <3>1 DEF ToCut
    <3>6. (\E c \in Range(chunks) : SomeHas(c.parts, i, n))
             => (\E c \in Range(chunks) : SomeHas(c.parts, i, n))'
      BY <1>1 DEF SomeHas, Has
    <3> QED
      BY <1>1, <2>4, <3>2, <3>3, <3>4, <3>5, <3>6, HeldInSection DEF Held
  <2>5. Kept'
    BY <1>1, <2>4, KeptStep
  <2>6. \A part \in Range(parts') : PartOK(part, Section.path)
    BY <1>3, <2>1, <2>2
  <2> HIDE DEF whole
  <2> QED
    BY <1>1, <1>2, <1>3, <1>5, <1>7, <1>8, <2>2, <2>3, <2>5, <2>6, PartsRest
<1>9. CASE /\ Tokens(whole) > ChunkSize
           /\ progress' = IF IsStructured THEN "rows" ELSE "lines"
           /\ line' = Block.first + (IF IsStructured THEN Len(Before) ELSE 0)
           /\ UNCHANGED <<parts, blocks>>
  <2>1. Block' = Block /\ Section' = Section /\ gathered' = <<>> /\ Range(gathered') = {}
    BY <1>1, <1>2, <1>9, RangeNone DEF Block, Section
  <2>2. Tokens(<<>>) = 0 /\ ChunkSize \in Nat
    BY NoPieces, ChunkingAssumption
  <2>3. PICK f, l : f = Block.first /\ l = Block.last
    OBVIOUS
  <2>4. f \in Nat \ {0} /\ l \in Nat /\ f <= l
    BY <1>5, <2>3
  <2>5. ASSUME IsStructured
        PROVE  /\ LinesOK' /\ RowsOK' /\ line' \in Nat \ {0}
               /\ \A i \in Block.first .. Block.last : InRows(i)'
    <3>1. progress' = "rows" /\ line' = BodyFirst
      BY <1>9, <2>5 DEF BodyFirst
    <3>2. BodyFirst <= BodyLast
      BY <1>1, <1>4, <1>9, <2>5, RowsThere
    <3>3. BodyFirst \in Nat \ {0}
      <4>1. IsFenced \/ IsTable
        BY <2>5 DEF IsStructured
      <4>2. Before \in Seq(Piece) /\ BodyFirst - 1 \in f .. l
        BY <1>1, <1>4, <2>3, <4>1, FrameSound
      <4>3. Len(Before) \in Nat
        BY <4>2, LenProperties
      <4> QED
        BY <2>3, <2>4, <4>3 DEF BodyFirst
    <3>4. /\ (Before' = Before) /\ (After' = After) /\ (IsFenced' <=> IsFenced)
          /\ (IsClosed' <=> IsClosed) /\ (IsTable' <=> IsTable)
      BY <1>1, <2>1, Frozen DEF Before, After, IsFenced, IsClosed, IsTable, ClosingFence
    <3>5. BodyFirst' = BodyFirst /\ LastLine' = BodyLast /\ (IsStructured' <=> IsStructured)
          /\ RowRoom' = RowRoom
      BY <2>1, <3>1, <3>4 DEF BodyFirst, LastLine, BodyLast, IsStructured, RowRoom
    <3>6. RowRoom > 0
      BY <2>5 DEF IsStructured
    <3>7. RowsOK'
      <4>1. BodyLast \in Int
        BY <2>3, <2>4 DEF BodyLast
      <4>2. BodyFirst <= line' /\ line' <= BodyLast + 1 /\ line' = BodyFirst /\ ~(line' > BodyFirst)
        BY <3>1, <3>2, <3>3, <4>1
      <4>3. Tokens(gathered') <= RowRoom
        <5>1. RowRoom \in Int
          <6>1. IsFenced \/ IsTable
            BY <2>5 DEF IsStructured
          <6>2. Tokens(Before) \in Int /\ Tokens(After) \in Nat
            BY <1>1, <1>4, <6>1, FrameSound
          <6> QED
            BY <2>2, <6>2 DEF RowRoom
        <5> QED
          BY <2>1, <2>2, <3>6, <5>1
      <4> QED
        BY <2>1, <2>5, <3>2, <3>5, <4>2, <4>3 DEF RowsOK
    <3>8. LinesOK' /\ line' \in Nat \ {0}
      BY <3>1, <3>3 DEF LinesOK
    <3>9. ASSUME NEW i \in Block.first .. Block.last PROVE InRows(i)'
      <4>1. i >= line' \/ i < BodyFirst
        BY <2>3, <2>4, <3>1, <3>3
      <4> QED
        BY <2>1, <3>1, <3>5, <4>1 DEF InRows, InCut
    <3> QED
      BY <3>1, <3>7, <3>8, <3>9
  <2>6. ASSUME ~IsStructured
        PROVE  /\ LinesOK' /\ RowsOK' /\ line' \in Nat \ {0}
               /\ \A i \in Block.first .. Block.last : InRows(i)'
    <3>1. progress' = "lines" /\ line' = f
      BY <1>9, <2>3, <2>4, <2>6
    <3>2. Clear => \A i \in f .. l : NoFence(i)
      <4> SUFFICES ASSUME Clear PROVE \A i \in f .. l : NoFence(i)
        OBVIOUS
      <4>1. \/ \A i \in f .. l : NoFence(i)
            \/ IsKind(f, "fence") /\ f < l /\ IsKind(l, "fence")
        BY <1>5, <2>3 DEF BlockOK
      <4>2. ASSUME IsKind(f, "fence"), f < l, IsKind(l, "fence") PROVE FALSE
        <5>1. IsFenced /\ IsClosed
          BY <2>3, <2>4, <4>2 DEF IsFenced, IsClosed
        <5>2. Before = Lines(f, f) /\ After = Lines(l, l)
          BY <2>3, <5>1 DEF Before, After
        <5>3. f \in 1 .. Len(markdown) /\ l \in 1 .. Len(markdown)
          BY <1>5, <2>3
        <5>4. Tokens(Before) = markdown[f].tokens /\ Tokens(After) = markdown[l].tokens
          BY <1>5, <5>2, <5>3, LineAlone
        <5>5. markdown[f].tokens \in Nat /\ markdown[l].tokens \in Nat
          BY <1>5, <5>3, LineType
        <5>6. markdown[f].tokens + markdown[l].tokens < ChunkSize
          <6>1. DOMAIN markdown = 1 .. Len(markdown)
            BY <1>5, LenProperties
          <6> QED
            BY <4>2, <5>3, <6>1 DEF Clear, FencesFit
        <5>7. RowRoom > 0
          BY <2>2, <5>4, <5>5, <5>6 DEF RowRoom
        <5> QED
          BY <2>6, <5>1, <5>7 DEF IsStructured
      <4> QED
        BY <4>1, <4>2
    <3>3. (Clear => \A i \in f .. l : NoFence(i))'
      BY <1>1, <3>2, Frozen
    <3>4. LinesOK'
      <4>1. f <= line' /\ line' <= l + 1
        BY <2>4, <3>1
      <4>2. Tokens(gathered') <= ChunkSize
        BY <2>1, <2>2
      <4> QED
        BY <2>1, <2>3, <3>3, <4>1, <4>2 DEF LinesOK
    <3>5. RowsOK' /\ line' \in Nat \ {0}
      BY <2>4, <3>1 DEF RowsOK
    <3>6. ASSUME NEW i \in Block.first .. Block.last PROVE InRows(i)'
      <4>1. i >= line'
        BY <2>3, <2>4, <3>1
      <4> QED
        BY <2>1, <3>1, <4>1 DEF InRows, InCut
    <3> QED
      BY <3>1, <3>4, <3>5, <3>6
  <2>7. /\ progress' \in {"lines", "rows"} /\ LinesOK' /\ RowsOK' /\ line' \in Nat \ {0}
        /\ \A i \in Block.first .. Block.last : InRows(i)'
    <3>1. progress' \in {"lines", "rows"}
      BY <1>9
    <3>2. CASE IsStructured
      BY <2>5, <3>1, <3>2
    <3>3. CASE ~IsStructured
      BY <2>6, <3>1, <3>3
    <3> QED
      BY <3>2, <3>3
  <2>8. ASSUME NEW i \in 1 .. Len(markdown), NEW n, Held(i, n) PROVE Held(i, n)'
    <3>1. SectionsLeft' = Tail(sections) /\ BlocksLeft' = Tail(blocks)
      BY <1>1, <1>9, <2>7 DEF SectionsLeft, BlocksLeft, InSection, InCut
    <3>2. ~InRows(i)
      BY <1>1 DEF InRows, InCut
    <3>3. ToGather(i) => ToGather(i)' \/ InRows(i)'
      BY <1>5, <1>6, <2>7, <3>1 DEF ToGather
    <3>4. (\E s \in Range(Tail(sections)) : i \in s.first .. s.last) => ToCut(i)'
      BY <3>1 DEF ToCut
    <3>5. /\ Has(gathered, i, n) => Has(gathered, i, n)'
          /\ SomeHas(parts, i, n) => SomeHas(parts, i, n)'
          /\ SomeHas(open, i, n) => SomeHas(open, i, n)'
          /\ (\E c \in Range(chunks) : SomeHas(c.parts, i, n))
                => (\E c \in Range(chunks) : SomeHas(c.parts, i, n))'
      BY <1>1, <1>9 DEF SomeHas, Has
    <3> QED
      BY <1>1, <2>8, <3>2, <3>3, <3>4, <3>5, HeldInSection DEF Held
  <2>9. Kept'
    BY <1>1, <2>8, KeptStep
  <2> QED
    BY <1>1, <1>2, <1>3, <1>7, <1>9, <2>7, <2>9, PartsRest
<1> QED
  <2>1. Tokens(whole) <= ChunkSize \/ Tokens(whole) > ChunkSize
    <3>1. whole \in Seq(Piece)
      <4>1. Block.first \in 1 .. Len(markdown) + 1 /\ Block.last \in Block.first - 1 .. Len(markdown)
        BY <1>5
      <4> QED
        BY <1>5, <4>1, LinesSeq
    <3>2. Tokens(whole) \in Int
      BY <3>1, TokensInt
    <3> HIDE DEF whole
    <3> QED
      BY <3>2, ChunkingAssumption
  <2> QED
    BY <1>8, <1>9, <2>1 DEF TakeBlock

-----------------------------------------------------------------------------
(* Chunking: a block too long, row by row.                                 *)

RowsFirst == IF progress = "rows" THEN BodyFirst ELSE Block.first

LEMMA CutSound ==
    ASSUME ChunkingInv, progress \in InCut
    PROVE  /\ blocks # <<>> /\ progress \in InSection /\ open = <<>> /\ block = NoBlock
           /\ sections # <<>> /\ (progress = "lines" \/ progress = "rows")
           /\ Room \in Nat \ {0}
           /\ RowsFirst \in Nat /\ LastLine \in Nat
           /\ Block.first <= RowsFirst /\ LastLine <= Block.last
           /\ RowsFirst <= line /\ line <= LastLine + 1
           /\ gathered \in Seq(Piece) /\ Tokens(gathered) <= Room
           /\ \A p \in Range(gathered) : p.from <= p.to /\ p.at \in RowsFirst .. LastLine
           /\ Clear \/ progress = "rows" => \A i \in RowsFirst .. LastLine : NoFence(i)
           /\ progress = "rows" =>
                 /\ (IsFenced \/ IsTable) /\ LastLine = BodyLast /\ BodyFirst <= BodyLast
                 /\ line > BodyFirst => gathered # <<>>
           /\ progress = "lines" => LastLine = Block.last
<1>1. progress = "lines" \/ progress = "rows"
  BY DEF InCut
<1>2. /\ blocks # <<>> /\ progress \in InSection /\ open = <<>> /\ block = NoBlock
      /\ sections # <<>> /\ gathered \in Seq(Piece)
  BY <1>1 DEF ChunkingInv, ChunkingType, Quiet, InCut, InSection
<1>3. PICK f, l : f = Block.first /\ l = Block.last
  OBVIOUS
<1>4. f \in Nat \ {0} /\ l \in Nat /\ f <= l /\ ChunkSize \in Nat \ {0}
  BY <1>2, <1>3, BlockSound, ChunkingAssumption
<1>5. CASE progress = "lines"
  <2>1. Room = ChunkSize /\ RowsFirst = f /\ LastLine = l
    BY <1>3, <1>5 DEF Room, RowsFirst, LastLine
  <2>2. /\ f <= line /\ line <= l + 1
        /\ Tokens(gathered) <= ChunkSize
        /\ \A p \in Range(gathered) : p.from <= p.to /\ p.at \in f .. l
        /\ Clear => \A i \in f .. l : NoFence(i)
    BY <1>3, <1>5 DEF ChunkingInv, LinesOK
  <2>3. progress # "rows"
    BY <1>5
  <2> QED
    BY <1>2, <1>3, <1>4, <1>5, <2>1, <2>2, <2>3
<1>6. CASE progress = "rows"
  <2>1. /\ IsStructured /\ BodyFirst <= LastLine
        /\ BodyFirst <= line /\ line <= LastLine + 1
        /\ Tokens(gathered) <= RowRoom
        /\ \A p \in Range(gathered) : p.from <= p.to /\ p.at \in BodyFirst .. LastLine
        /\ line > BodyFirst => gathered # <<>>
    BY <1>6 DEF ChunkingInv, RowsOK
  <2>2. (IsFenced \/ IsTable) /\ RowRoom > 0
    BY <2>1 DEF IsStructured
  <2>3. Room = RowRoom /\ RowsFirst = BodyFirst /\ LastLine = BodyLast
    BY <1>6 DEF Room, RowsFirst, LastLine, BodyLast
  <2>4. /\ Before \in Seq(Piece) /\ BodyFirst - 1 \in f .. l
        /\ Tokens(Before) \in Int /\ Tokens(After) \in Nat
        /\ \A i \in BodyFirst .. BodyLast : NoFence(i)
    BY <1>2, <1>3, <2>2, FrameSound
  <2>5. BodyFirst \in Nat /\ f <= BodyFirst
    <3>1. Len(Before) \in Nat
      BY <2>4, LenProperties
    <3>2. BodyFirst = f + Len(Before)
      BY <1>3 DEF BodyFirst
    <3> QED
      BY <1>4, <3>1, <3>2
  <2>6. BodyLast \in Nat /\ BodyLast <= l
    <3>1. BodyLast = l \/ BodyLast = l - 1
      BY <1>3 DEF BodyLast
    <3>2. l \in Nat \ {0}
      BY <1>4
    <3> QED
      BY <3>1, <3>2
  <2>7. RowRoom \in Nat \ {0}
    <3>1. RowRoom \in Int
      BY <1>4, <2>4 DEF RowRoom
    <3> QED
      BY <2>2, <3>1
  <2>8. progress # "lines"
    BY <1>6
  <2> QED
    BY <1>2, <1>3, <1>6, <2>1, <2>2, <2>3, <2>4, <2>5, <2>6, <2>7, <2>8
<1> QED
  BY <1>1, <1>5, <1>6

\* Rows gathered within the room there is make a part, with what every part repeats.
LEMMA WrappedGood ==
    ASSUME ChunkingInv, progress \in InCut, NEW taken \in Seq(Piece), Tokens(taken) <= Room,
           \A p \in Range(taken) : p.from <= p.to /\ p.at \in RowsFirst .. LastLine
    PROVE  /\ Wrapped(taken) \in Seq(Piece) /\ PartOK(Wrapped(taken), Section.path)
           /\ Range(taken) \subseteq Range(Wrapped(taken))
           /\ progress = "rows" =>
                 Range(Before) \cup Range(After) \subseteq Range(Wrapped(taken))
<1>1. /\ blocks # <<>> /\ progress \in InSection /\ (progress = "lines" \/ progress = "rows")
      /\ RowsFirst \in Nat /\ LastLine \in Nat
      /\ Block.first <= RowsFirst /\ LastLine <= Block.last
      /\ Clear \/ progress = "rows" => \A i \in RowsFirst .. LastLine : NoFence(i)
      /\ progress = "rows" => IsFenced \/ IsTable
  BY CutSound
<1>2. /\ markdown \in Seq(AllLines) /\ Len(markdown) \in Nat
      /\ Block.first \in 1 .. Len(markdown) /\ Block.last \in Block.first .. Len(markdown)
      /\ \A i \in Block.first .. Block.last : i \in 1 .. Len(markdown) /\ Under(i, Section.path)
  BY <1>1, BlockSound
<1>3. \A i \in RowsFirst .. LastLine :
         i \in 1 .. Len(markdown) /\ i # 0 /\ Under(i, Section.path)
  <2>1. PICK f, l, a, b : f = Block.first /\ l = Block.last /\ a = RowsFirst /\ b = LastLine
    OBVIOUS
  <2>2. f \in Nat \ {0} /\ l \in Nat /\ a \in Nat /\ b \in Nat /\ f <= a /\ b <= l
    BY <1>1, <1>2, <2>1
  <2>3. \A i \in a .. b : i \in f .. l /\ i # 0
    BY <2>2
  <2> QED
    BY <1>2, <2>1, <2>3
<1>4. \A p \in Range(taken) : PieceOK(p, Section.path)
  BY <1>3 DEF PieceOK
<1>5. Clear \/ progress = "rows" => Fences(taken) = 0
  <2> SUFFICES ASSUME Clear \/ progress = "rows" PROVE Fences(taken) = 0
    OBVIOUS
  <2>1. \A p \in Range(taken) : ~IsMark(p)
    BY <1>1, <1>3 DEF IsMark, NoFence
  <2> QED
    BY <2>1, FencesNone
<1>6. CASE progress = "lines"
  <2>1. Wrapped(taken) = taken /\ Room = ChunkSize /\ progress # "rows"
    BY <1>6 DEF Wrapped, Room
  <2>2. PartOK(taken, Section.path)
    BY <1>4, <1>5, <2>1 DEF PartOK
  <2> QED
    BY <2>1, <2>2
<1>7. CASE progress = "rows"
  <2>1. Wrapped(taken) = Before \o taken \o After /\ Room = RowRoom
    BY <1>7 DEF Wrapped, Room
  <2>2. /\ Before \in Seq(Piece) /\ After \in Seq(Piece)
        /\ \A p \in Range(Before) : PieceOK(p, Section.path)
        /\ \A p \in Range(After) : PieceOK(p, Section.path)
        /\ (Fences(Before) + Fences(After)) % 2 = 0
        /\ Tokens(Before) \in Int /\ Tokens(After) \in Nat
    BY <1>1, <1>7, FrameSound
  <2>3. /\ Before \o taken \in Seq(Piece) /\ Range(Before \o taken) = Range(Before) \cup Range(taken)
    BY <2>2, RangeConcat
  <2>4. /\ Wrapped(taken) \in Seq(Piece)
        /\ Range(Wrapped(taken)) = Range(Before) \cup Range(taken) \cup Range(After)
    <3>1. PICK head : head = Before \o taken
      OBVIOUS
    <3>2. head \in Seq(Piece) /\ After \in Seq(Piece)
      BY <2>2, <2>3, <3>1
    <3>3. head \o After \in Seq(Piece) /\ Range(head \o After) = Range(head) \cup Range(After)
      BY <3>2, RangeConcat
    <3> QED
      BY <2>1, <2>3, <3>1, <3>3
  <2>5. Tokens(Wrapped(taken)) <= ChunkSize
    <3>1. Tokens(Before \o taken) = Tokens(Before) + Tokens(taken)
      BY <2>2, TokensConcat
    <3>2. Tokens(Before \o taken \o After) = Tokens(Before \o taken) + Tokens(After)
      BY <2>2, <2>3, TokensConcat
    <3>3. Tokens(taken) \in Int /\ Tokens(taken) <= ChunkSize - Tokens(Before) - Tokens(After)
      BY <2>1, TokensInt DEF RowRoom
    <3>4. PICK x, y, z, w : /\ x = Tokens(Before) /\ y = Tokens(taken) /\ z = Tokens(After)
                            /\ w = Tokens(Wrapped(taken))
      OBVIOUS
    <3>5. w = x + y + z /\ x \in Int /\ y \in Int /\ z \in Int /\ y <= ChunkSize - x - z
      BY <2>1, <2>2, <3>1, <3>2, <3>3, <3>4
    <3>6. w <= ChunkSize
      BY <3>5, ChunkingAssumption
    <3> QED
      BY <3>4, <3>6
  <2>6. Fences(Wrapped(taken)) % 2 = 0
    <3>1. Fences(Before \o taken) = Fences(Before) + Fences(taken)
      BY <2>2, FencesConcat
    <3>2. Fences(Before \o taken \o After) = Fences(Before \o taken) + Fences(After)
      BY <2>2, <2>3, FencesConcat
    <3>3. Fences(taken) = 0
      BY <1>5, <1>7
    <3>4. Fences(Before) \in Int /\ Fences(After) \in Int
      BY <2>2, FencesInt
    <3>5. Fences(Wrapped(taken)) = Fences(Before) + Fences(After)
      BY <2>1, <3>1, <3>2, <3>3, <3>4
    <3> QED
      BY <2>2, <3>5
  <2> QED
    BY <1>4, <2>2, <2>4, <2>5, <2>6 DEF PartOK
<1> QED
  BY <1>1, <1>6, <1>7

\* What is gathered ends in a part.
LEMMA EndedGood ==
    ASSUME ChunkingInv, progress \in InCut
    PROVE  /\ Ended \in Seq(Seq(Piece))
           /\ \A part \in Range(Ended) : PartOK(part, Section.path)
           /\ Range(parts) \subseteq Range(Ended)
           /\ gathered # <<>> => Wrapped(gathered) \in Range(Ended)
           /\ \A i, n : Has(gathered, i, n) => SomeHas(Ended, i, n)
<1>1. /\ gathered \in Seq(Piece) /\ Tokens(gathered) <= Room
      /\ \A p \in Range(gathered) : p.from <= p.to /\ p.at \in RowsFirst .. LastLine
  BY CutSound
<1>2. /\ Wrapped(gathered) \in Seq(Piece) /\ PartOK(Wrapped(gathered), Section.path)
      /\ Range(gathered) \subseteq Range(Wrapped(gathered))
  BY <1>1, WrappedGood
<1>3. parts \in Seq(Seq(Piece)) /\ \A part \in Range(parts) : PartOK(part, Section.path)
  BY DEF ChunkingInv, ChunkingType, PartsOK
<1>4. CASE gathered = <<>>
  <2>1. Ended = parts /\ Range(gathered) = {}
    BY <1>4, RangeNone DEF Ended
  <2> QED
    BY <1>3, <1>4, <2>1 DEF Has
<1>5. CASE gathered # <<>>
  <2>1. Ended = Append(parts, Wrapped(gathered))
    BY <1>5 DEF Ended
  <2>2. /\ Ended \in Seq(Seq(Piece))
        /\ Range(Ended) = Range(parts) \cup {Wrapped(gathered)}
    BY <1>2, <1>3, <2>1, RangeAppend
  <2>3. \A i, n : Has(gathered, i, n) => Has(Wrapped(gathered), i, n)
    BY <1>2 DEF Has
  <2> QED
    BY <1>2, <1>3, <2>2, <2>3 DEF SomeHas
<1> QED
  BY <1>4, <1>5

LEMMA FunSeq ==
    ASSUME NEW S, NEW n \in Nat, NEW f \in [1 .. n -> S]
    PROVE  f \in Seq(S) /\ Len(f) = n /\ Range(f) = {f[k] : k \in 1 .. n}
<1>1. f \in Seq(S) /\ Len(f) = n
  BY LenProperties
<1> QED
  BY <1>1 DEF Range

\* A line of a block goes to the pieces gathered or to the parts.
LEMMA RowTaken ==
    ASSUME ChunkingInv, progress \in InCut, line <= LastLine, line' = line + 1,
           UNCHANGED <<markdown, progress, outline, sections, block, blocks, open, chunks, at>>,
           gathered' \in Seq(Piece), Tokens(gathered') <= Room,
           \A p \in Range(gathered') : p.from <= p.to /\ p.at \in RowsFirst .. LastLine,
           progress = "rows" => gathered' # <<>>,
           parts' \in Seq(Seq(Piece)), Range(parts) \subseteq Range(parts'),
           \A part \in Range(parts') : PartOK(part, Section.path),
           \A i \in 1 .. Len(markdown) : \A n \in 1 .. markdown[i].tokens :
               i = line \/ Has(gathered, i, n) => Has(gathered', i, n) \/ SomeHas(parts', i, n)
    PROVE  ChunkingInv'
<1>1. /\ blocks # <<>> /\ progress \in InSection /\ open = <<>> /\ block = NoBlock
      /\ sections # <<>> /\ (progress = "lines" \/ progress = "rows")
      /\ RowsFirst \in Nat /\ LastLine \in Nat
      /\ Block.first <= RowsFirst /\ LastLine <= Block.last
      /\ RowsFirst <= line /\ line <= LastLine + 1
  BY CutSound
<1>2. Block' = Block /\ Section' = Section
  BY DEF Block, Section
<1>3. /\ line \in Nat \ {0} /\ line' \in Nat \ {0} /\ RowsFirst <= line' /\ line' <= LastLine + 1
  <2>1. line \in Nat \ {0}
    BY DEF ChunkingInv, ChunkingType
  <2>2. PICK a, b : a = RowsFirst /\ b = LastLine
    OBVIOUS
  <2>3. a \in Nat /\ b \in Nat /\ a <= line /\ line <= b
    BY <1>1, <2>2
  <2> QED
    BY <2>1, <2>2, <2>3
<1>4. LinesOK'
  <2> SUFFICES ASSUME progress = "lines" PROVE LinesOK'
    BY DEF LinesOK
  <2>1. RowsFirst = Block.first /\ LastLine = Block.last /\ Room = ChunkSize
    BY DEF RowsFirst, LastLine, Room
  <2>2. (Clear => \A i \in Block.first .. Block.last : NoFence(i))'
    <3>1. Clear => \A i \in Block.first .. Block.last : NoFence(i)
      BY DEF ChunkingInv, LinesOK
    <3> QED
      BY <1>2, <3>1, Frozen
  <2> QED
    BY <1>2, <1>3, <2>1, <2>2 DEF LinesOK
<1>5. RowsOK'
  <2> SUFFICES ASSUME progress = "rows" PROVE RowsOK'
    BY DEF RowsOK
  <2>1. RowsFirst = BodyFirst /\ Room = RowRoom
    BY DEF RowsFirst, Room
  <2>2. /\ (Before' = Before) /\ (After' = After) /\ (IsFenced' <=> IsFenced)
        /\ (IsClosed' <=> IsClosed) /\ (IsTable' <=> IsTable)
    BY <1>2, Frozen DEF Before, After, IsFenced, IsClosed, IsTable, ClosingFence
  <2>3. BodyFirst' = BodyFirst /\ LastLine' = LastLine /\ (IsStructured' <=> IsStructured)
        /\ RowRoom' = RowRoom
    BY <1>2, <2>2 DEF BodyFirst, LastLine, IsStructured, RowRoom
  <2>4. IsStructured /\ BodyFirst <= LastLine
    BY DEF ChunkingInv, RowsOK
  <2> QED
    BY <1>3, <2>1, <2>3, <2>4 DEF RowsOK
<1>6. ASSUME NEW i \in 1 .. Len(markdown), NEW n \in 1 .. markdown[i].tokens, Held(i, n)
      PROVE  Held(i, n)'
  <2>1. SectionsLeft' = Tail(sections) /\ BlocksLeft' = BlocksLeft
    BY <1>1 DEF SectionsLeft, BlocksLeft, InSection
  <2>2. ToGather(i) => ToGather(i)'
    BY <2>1 DEF ToGather
  <2>3. (\E s \in Range(Tail(sections)) : i \in s.first .. s.last) => ToCut(i)'
    BY <2>1 DEF ToCut
  <2>4. Has(gathered', i, n) => Has(gathered, i, n)'
    BY DEF Has
  <2>5. SomeHas(parts', i, n) => SomeHas(parts, i, n)'
    BY DEF SomeHas, Has
  <2>6. SomeHas(parts, i, n) => SomeHas(parts, i, n)'
    BY DEF SomeHas, Has
  <2>7. /\ SomeHas(open, i, n) => SomeHas(open, i, n)'
        /\ (\E c \in Range(chunks) : SomeHas(c.parts, i, n))
              => (\E c \in Range(chunks) : SomeHas(c.parts, i, n))'
    BY DEF SomeHas, Has
  <2>8. InRows(i) => i = line \/ InRows(i)'
    <3> SUFFICES ASSUME InRows(i), i # line PROVE InRows(i)'
      OBVIOUS
    <3>1. i >= line => i >= line'
      BY <1>3
    <3>2. /\ i \in Block.first .. Block.last
          /\ i >= line \/ (progress = "rows" /\ (i < BodyFirst \/ i > LastLine))
      BY DEF InRows
    <3>3. CASE i >= line
      BY <1>2, <3>1, <3>2, <3>3 DEF InRows
    <3>4. CASE progress = "rows" /\ (i < BodyFirst \/ i > LastLine)
      <4>1. /\ (Before' = Before) /\ (IsFenced' <=> IsFenced) /\ (IsClosed' <=> IsClosed)
        BY <1>2, Frozen DEF Before, IsFenced, IsClosed
      <4>2. BodyFirst' = BodyFirst /\ LastLine' = LastLine
        BY <1>2, <4>1 DEF BodyFirst, LastLine
      <4> QED
        BY <1>2, <3>2, <3>4, <4>2 DEF InRows
    <3> QED
      BY <3>2, <3>3, <3>4
  <2>9. i = line \/ Has(gathered, i, n) => Has(gathered, i, n)' \/ SomeHas(parts, i, n)'
    BY <2>4, <2>5
  <2> QED
    BY <1>1, <1>6, <2>2, <2>3, <2>6, <2>7, <2>8, <2>9, HeldInSection DEF Held
<1>7. Kept'
  BY <1>6, KeptStep
<1>8. /\ blocks \in Seq(BlockSet) /\ chunks \in Seq(ChunkSet) /\ \A c \in Range(chunks) : ChunkOK(c)
      /\ open' \in Seq(Seq(Piece)) /\ open' = <<>> /\ Range(open') = {}
  BY <1>1, RangeNone DEF ChunkingInv, ChunkingType, ChunksOK
<1>9. progress' \in {"lines", "rows"}
  BY <1>1
<1> QED
  BY <1>1, <1>3, <1>4, <1>5, <1>7, <1>8, <1>9, PartsRest

LEMMA TakeRowKeeps ==
    ASSUME ChunkingInv, TakeRow
    PROVE  ChunkingInv'
<1>1. /\ progress \in InCut /\ line <= LastLine /\ line' = line + 1
      /\ GatherLine \/ NextPart \/ CutLine \/ CutRow
      /\ UNCHANGED <<markdown, progress, outline, sections, block, blocks, open, chunks, at>>
  BY DEF TakeRow, InCut
<1>2. /\ blocks # <<>> /\ progress \in InSection /\ Room \in Nat \ {0}
      /\ RowsFirst \in Nat /\ LastLine \in Nat /\ (progress = "lines" \/ progress = "rows")
      /\ Block.first <= RowsFirst /\ LastLine <= Block.last /\ RowsFirst <= line
      /\ gathered \in Seq(Piece)
      /\ \A p \in Range(gathered) : p.from <= p.to /\ p.at \in RowsFirst .. LastLine
  BY <1>1, CutSound
<1>3. /\ markdown \in Seq(AllLines) /\ Len(markdown) \in Nat /\ line \in Nat
      /\ Block.first \in 1 .. Len(markdown) /\ Block.last \in Block.first .. Len(markdown)
  BY <1>2, BlockSound DEF ChunkingInv, ChunkingType
<1>4. line \in RowsFirst .. LastLine /\ line \in 1 .. Len(markdown)
  <2>1. PICK f, l, a, b : f = Block.first /\ l = Block.last /\ a = RowsFirst /\ b = LastLine
    OBVIOUS
  <2>2. /\ f \in 1 .. Len(markdown) /\ l \in f .. Len(markdown) /\ a \in Nat /\ b \in Nat
        /\ f <= a /\ b <= l /\ a <= line /\ line <= b
    BY <1>1, <1>2, <1>3, <2>1
  <2>3. line \in a .. b /\ line \in 1 .. Len(markdown)
    BY <1>3, <2>2
  <2> QED
    BY <2>1, <2>3
<1>5. /\ markdown[line].tokens \in Nat \ {0} /\ Whole(line) \in Piece /\ Whole(line).at = line
      /\ Whole(line).from = 0 /\ Whole(line).to = markdown[line].tokens
  BY <1>3, <1>4, LineType
<1>6. /\ Ended \in Seq(Seq(Piece)) /\ \A part \in Range(Ended) : PartOK(part, Section.path)
      /\ Range(parts) \subseteq Range(Ended)
      /\ \A i, n : Has(gathered, i, n) => SomeHas(Ended, i, n)
  BY <1>1, EndedGood
<1>7. parts \in Seq(Seq(Piece)) /\ \A part \in Range(parts) : PartOK(part, Section.path)
  BY DEF ChunkingInv, ChunkingType, PartsOK
<1>8. CASE GatherLine
  <2>1. /\ gathered' = Append(gathered, Whole(line)) /\ Tokens(gathered') <= Room /\ parts' = parts
    BY <1>8 DEF GatherLine, Fits
  <2>2. /\ gathered' \in Seq(Piece) /\ gathered' # <<>>
        /\ Range(gathered') = Range(gathered) \cup {Whole(line)}
    BY <1>2, <1>5, <2>1, RangeAppend
  <2>3. \A p \in Range(gathered') : p.from <= p.to /\ p.at \in RowsFirst .. LastLine
    <3>1. Whole(line).from <= Whole(line).to /\ Whole(line).at \in RowsFirst .. LastLine
      BY <1>4, <1>5
    <3> QED
      BY <1>2, <2>2, <3>1
  <2>4. ASSUME NEW i \in 1 .. Len(markdown), NEW n \in 1 .. markdown[i].tokens,
               i = line \/ Has(gathered, i, n)
        PROVE  Has(gathered', i, n)
    <3>1. CASE i = line
      <4>1. n \in Whole(line).from + 1 .. Whole(line).to
        BY <1>5, <2>4, <3>1
      <4> QED
        BY <1>5, <2>2, <3>1, <4>1 DEF Has
    <3>2. CASE Has(gathered, i, n)
      BY <2>2, <3>2 DEF Has
    <3> QED
      BY <2>4, <3>1, <3>2
  <2> QED
    BY <1>1, <1>7, <2>1, <2>2, <2>3, <2>4, RowTaken
<1>9. CASE NextPart
  <2>1. ~IsLong /\ parts' = Ended /\ gathered' = <<Whole(line)>>
    BY <1>9 DEF NextPart
  <2>2. /\ gathered' \in Seq(Piece) /\ gathered' # <<>> /\ Range(gathered') = {Whole(line)}
        /\ Tokens(gathered') = Whole(line).to - Whole(line).from
    BY <1>5, <2>1, OnePiece, RangeOne
  <2>3. Tokens(gathered') <= Room
    BY <1>2, <1>5, <2>1, <2>2 DEF IsLong
  <2>4. \A p \in Range(gathered') : p.from <= p.to /\ p.at \in RowsFirst .. LastLine
    <3>1. Whole(line).from <= Whole(line).to /\ Whole(line).at \in RowsFirst .. LastLine
      BY <1>4, <1>5
    <3> QED
      BY <2>2, <3>1
  <2>5. ASSUME NEW i \in 1 .. Len(markdown), NEW n \in 1 .. markdown[i].tokens,
               i = line \/ Has(gathered, i, n)
        PROVE  Has(gathered', i, n) \/ SomeHas(parts', i, n)
    <3>1. CASE i = line
      <4>1. n \in Whole(line).from + 1 .. Whole(line).to
        BY <1>5, <2>5, <3>1
      <4> QED
        BY <1>5, <2>2, <3>1, <4>1 DEF Has
    <3>2. CASE Has(gathered, i, n)
      BY <1>6, <2>1, <3>2
    <3> QED
      BY <2>5, <3>1, <3>2
  <2> QED
    BY <1>1, <1>6, <2>1, <2>2, <2>3, <2>4, <2>5, RowTaken
<1>10. CASE CutLine
  <2> DEFINE cuts == Cuts(line, ChunkSize - 1)
             new == [k \in DOMAIN cuts |-> <<cuts[k]>>]
  <2>1. progress = "lines" /\ parts' = Ended \o new /\ gathered' = <<>>
    BY <1>10 DEF CutLine
  <2>2. ChunkSize - 1 \in Nat \ {0} /\ ChunkSize \in Nat
    BY ChunkingAssumption
  <2>3. /\ cuts \in Seq(Piece) /\ Len(cuts) \in Nat \ {0}
        /\ \A k \in 1 .. Len(cuts) : /\ cuts[k].at = line /\ cuts[k].from <= cuts[k].to
                                     /\ cuts[k].to - cuts[k].from <= ChunkSize - 1
        /\ \A n \in 1 .. markdown[line].tokens : \E k \in 1 .. Len(cuts) :
              n \in cuts[k].from + 1 .. cuts[k].to
    BY <1>3, <1>4, <2>2, CutsCover
  <2> HIDE DEF cuts
  <2>4. ASSUME NEW k \in 1 .. Len(cuts)
        PROVE  <<cuts[k]>> \in Seq(Piece) /\ PartOK(<<cuts[k]>>, Section.path)
               /\ Range(<<cuts[k]>>) = {cuts[k]}
    <3>1. cuts[k] \in Piece /\ cuts[k].to - cuts[k].from \in Int
      <4>1. cuts[k] \in Piece
        BY <2>3, ElementOfSeq
      <4> QED
        BY <4>1 DEF Piece
    <3>2. /\ <<cuts[k]>> \in Seq(Piece) /\ Range(<<cuts[k]>>) = {cuts[k]}
          /\ Tokens(<<cuts[k]>>) = cuts[k].to - cuts[k].from
      BY <3>1, OnePiece, RangeOne
    <3>3. cuts[k].to - cuts[k].from <= ChunkSize - 1
      BY <2>3
    <3>4. Tokens(<<cuts[k]>>) <= Room
      <4>1. Room = ChunkSize
        BY <2>1 DEF Room
      <4> QED
        BY <2>2, <3>1, <3>2, <3>3, <4>1
    <3>5. \A p \in Range(<<cuts[k]>>) : p.from <= p.to /\ p.at \in RowsFirst .. LastLine
      BY <1>4, <2>3, <3>2
    <3>6. Wrapped(<<cuts[k]>>) = <<cuts[k]>>
      BY <2>1 DEF Wrapped
    <3>7. PartOK(Wrapped(<<cuts[k]>>), Section.path)
      BY <1>1, <3>2, <3>4, <3>5, WrappedGood
    <3> QED
      BY <3>2, <3>6, <3>7
  <2>5. new \in Seq(Seq(Piece)) /\ Range(new) = {new[k] : k \in 1 .. Len(cuts)}
        /\ \A k \in 1 .. Len(cuts) : new[k] = <<cuts[k]>>
    <3>1. DOMAIN cuts = 1 .. Len(cuts)
      BY <2>3, LenProperties
    <3>2. new \in [1 .. Len(cuts) -> Seq(Piece)]
      BY <2>4, <3>1
    <3>3. \A k \in 1 .. Len(cuts) : new[k] = <<cuts[k]>>
      BY <2>4, <3>1
    <3>4. PICK m \in Nat : m = Len(cuts)
      BY <2>3
    <3> HIDE DEF new
    <3>5. new \in [1 .. m -> Seq(Piece)]
      BY <3>2, <3>4
    <3>6. new \in Seq(Seq(Piece)) /\ Range(new) = {new[k] : k \in 1 .. m}
      BY <3>5, FunSeq
    <3> QED
      BY <3>3, <3>4, <3>6
  <2> HIDE DEF new
  <2>6. parts' \in Seq(Seq(Piece)) /\ Range(parts') = Range(Ended) \cup Range(new)
    BY <1>6, <2>1, <2>5, RangeConcat
  <2>7. \A part \in Range(parts') : PartOK(part, Section.path)
    BY <1>6, <2>4, <2>5, <2>6
  <2>8. ASSUME NEW i \in 1 .. Len(markdown), NEW n \in 1 .. markdown[i].tokens,
               i = line \/ Has(gathered, i, n)
        PROVE  SomeHas(parts', i, n)
    <3>1. CASE i = line
      <4>1. PICK k \in 1 .. Len(cuts) : n \in cuts[k].from + 1 .. cuts[k].to
        BY <2>3, <2>8, <3>1
      <4>2. new[k] \in Range(parts') /\ Range(new[k]) = {cuts[k]} /\ cuts[k].at = line
        BY <2>3, <2>4, <2>5, <2>6
      <4>3. Has(new[k], i, n)
        BY <3>1, <4>1, <4>2 DEF Has
      <4> QED
        BY <4>2, <4>3 DEF SomeHas
    <3>2. CASE Has(gathered, i, n)
      BY <1>6, <2>6, <3>2 DEF SomeHas
    <3> QED
      BY <2>8, <3>1, <3>2
  <2>9. gathered' \in Seq(Piece) /\ Tokens(gathered') <= Room /\ Range(gathered') = {}
    BY <1>2, <2>1, NoPieces, RangeNone
  <2>10. progress # "rows" /\ Range(parts) \subseteq Range(parts')
    BY <1>6, <2>1, <2>6
  <2> QED
    BY <1>1, <2>6, <2>7, <2>8, <2>9, <2>10, RowTaken
<1>11. CASE CutRow
  <2> DEFINE cuts == Cuts(line, Room)
             new == [k \in 1 .. Len(cuts) - 1 |-> Wrapped(<<cuts[k]>>)]
             n0 == Len(cuts)
  <2>1. progress = "rows" /\ parts' = Ended \o new /\ gathered' = <<cuts[n0]>>
    BY <1>11 DEF CutRow
  <2>2. /\ cuts \in Seq(Piece) /\ n0 \in Nat \ {0}
        /\ \A k \in 1 .. n0 : /\ cuts[k].at = line /\ cuts[k].from <= cuts[k].to
                              /\ cuts[k].to - cuts[k].from <= Room
        /\ \A n \in 1 .. markdown[line].tokens : \E k \in 1 .. n0 :
              n \in cuts[k].from + 1 .. cuts[k].to
    BY <1>2, <1>3, <1>4, CutsCover
  <2>3. cuts \in Seq(Piece) /\ \A k \in 1 .. n0 : cuts[k] \in Piece
    BY <2>2, ElementOfSeq
  <2> HIDE DEF cuts
  <2>4. ASSUME NEW k \in 1 .. n0
        PROVE  /\ <<cuts[k]>> \in Seq(Piece) /\ Range(<<cuts[k]>>) = {cuts[k]} /\ <<cuts[k]>> # <<>>
               /\ Tokens(<<cuts[k]>>) <= Room
               /\ \A p \in Range(<<cuts[k]>>) : p.from <= p.to /\ p.at \in RowsFirst .. LastLine
    <3>1. /\ <<cuts[k]>> \in Seq(Piece) /\ Range(<<cuts[k]>>) = {cuts[k]} /\ <<cuts[k]>> # <<>>
          /\ Tokens(<<cuts[k]>>) = cuts[k].to - cuts[k].from
      BY <2>3, OnePiece, RangeOne
    <3>2. Tokens(<<cuts[k]>>) <= Room
      BY <2>2, <3>1
    <3> QED
      BY <1>4, <2>2, <3>1, <3>2
  <2>5. ASSUME NEW k \in 1 .. n0
        PROVE  /\ Wrapped(<<cuts[k]>>) \in Seq(Piece) /\ PartOK(Wrapped(<<cuts[k]>>), Section.path)
               /\ cuts[k] \in Range(Wrapped(<<cuts[k]>>))
    <3>1. PICK taken : taken = <<cuts[k]>>
      OBVIOUS
    <3>2. /\ taken \in Seq(Piece) /\ Range(taken) = {cuts[k]} /\ Tokens(taken) <= Room
          /\ \A p \in Range(taken) : p.from <= p.to /\ p.at \in RowsFirst .. LastLine
      BY <2>4, <3>1
    <3>3. /\ Wrapped(taken) \in Seq(Piece) /\ PartOK(Wrapped(taken), Section.path)
          /\ Range(taken) \subseteq Range(Wrapped(taken))
      BY <1>1, <3>2, WrappedGood
    <3> QED
      BY <3>1, <3>2, <3>3
  <2> HIDE DEF n0
  <2>6. /\ n0 - 1 \in Nat /\ n0 \in 1 .. n0
        /\ \A k \in 1 .. n0 : k \in 1 .. n0 - 1 \/ k = n0
        /\ \A k \in 1 .. n0 - 1 : k \in 1 .. n0
    BY <2>2
  <2>7. new \in Seq(Seq(Piece)) /\ Range(new) = {new[k] : k \in 1 .. n0 - 1}
        /\ \A k \in 1 .. n0 - 1 : new[k] = Wrapped(<<cuts[k]>>)
    <3>1. new \in [1 .. n0 - 1 -> Seq(Piece)] /\ \A k \in 1 .. n0 - 1 : new[k] = Wrapped(<<cuts[k]>>)
      BY <2>5, <2>6 DEF n0
    <3> HIDE DEF new
    <3>2. new \in Seq(Seq(Piece)) /\ Range(new) = {new[k] : k \in 1 .. n0 - 1}
      <4>1. PICK n, S, f : n = n0 - 1 /\ S = Seq(Piece) /\ f = new
        OBVIOUS
      <4>2. n \in Nat /\ f \in [1 .. n -> S]
        BY <2>6, <3>1, <4>1
      <4>3. f \in Seq(S) /\ Range(f) = {f[k] : k \in 1 .. n}
        BY <4>2, FunSeq
      <4> QED
        BY <4>1, <4>3
    <3> QED
      BY <3>1, <3>2
  <2> HIDE DEF new
  <2>8. parts' \in Seq(Seq(Piece)) /\ Range(parts') = Range(Ended) \cup Range(new)
    BY <1>6, <2>1, <2>7, RangeConcat
  <2>9. \A part \in Range(parts') : PartOK(part, Section.path)
    BY <1>6, <2>5, <2>6, <2>7, <2>8
  <2>10. ASSUME NEW i \in 1 .. Len(markdown), NEW n \in 1 .. markdown[i].tokens,
                i = line \/ Has(gathered, i, n)
         PROVE  Has(gathered', i, n) \/ SomeHas(parts', i, n)
    <3>1. CASE i = line
      <4>1. PICK k \in 1 .. n0 : n \in cuts[k].from + 1 .. cuts[k].to
        BY <2>2, <2>10, <3>1
      <4>2. cuts[k].at = i
        BY <2>2, <3>1
      <4>3. CASE k = n0
        BY <2>1, <2>4, <4>1, <4>2, <4>3 DEF Has
      <4>4. CASE k \in 1 .. n0 - 1
        <5>1. new[k] \in Range(parts') /\ cuts[k] \in Range(new[k])
          BY <2>5, <2>7, <2>8, <4>4
        <5>2. Has(new[k], i, n)
          BY <4>1, <4>2, <5>1 DEF Has
        <5> QED
          BY <5>1, <5>2 DEF SomeHas
      <4> QED
        BY <2>6, <4>3, <4>4
    <3>2. CASE Has(gathered, i, n)
      BY <1>6, <2>8, <3>2 DEF SomeHas
    <3> QED
      BY <2>10, <3>1, <3>2
  <2>11. /\ gathered' \in Seq(Piece) /\ Tokens(gathered') <= Room /\ gathered' # <<>>
         /\ \A p \in Range(gathered') : p.from <= p.to /\ p.at \in RowsFirst .. LastLine
    BY <2>1, <2>4, <2>6
  <2>12. Range(parts) \subseteq Range(parts')
    BY <1>6, <2>8
  <2> QED
    BY <1>1, <2>8, <2>9, <2>10, <2>11, <2>12, RowTaken
<1> QED
  BY <1>1, <1>8, <1>9, <1>10, <1>11

LEMMA EndRowsKeeps ==
    ASSUME ChunkingInv, EndRows
    PROVE  ChunkingInv'
<1>1. /\ progress \in InCut /\ line > LastLine /\ parts' = Ended /\ gathered' = <<>>
      /\ blocks' = Tail(blocks) /\ progress' = "parts"
      /\ UNCHANGED <<markdown, line, outline, sections, block, open, chunks, at>>
  BY DEF EndRows, InCut
<1>2. /\ blocks # <<>> /\ progress \in InSection /\ open = <<>> /\ block = NoBlock
      /\ sections # <<>> /\ (progress = "lines" \/ progress = "rows")
      /\ LastLine \in Nat /\ line <= LastLine + 1
      /\ progress = "rows" =>
            /\ (IsFenced \/ IsTable) /\ LastLine = BodyLast /\ BodyFirst <= BodyLast
            /\ line > BodyFirst => gathered # <<>>
      /\ progress = "lines" => LastLine = Block.last
  BY <1>1, CutSound
<1>3. /\ markdown \in Seq(AllLines) /\ Len(markdown) \in Nat
      /\ Tail(blocks) \in Seq(BlockSet) /\ Range(blocks) = Range(Tail(blocks)) \cup {Block}
      /\ Block.first \in 1 .. Len(markdown) /\ Block.last \in Block.first .. Len(markdown)
      /\ \A i \in Block.first .. Block.last : i \in 1 .. Len(markdown)
  BY <1>2, BlockSound
<1>4. /\ Ended \in Seq(Seq(Piece)) /\ \A part \in Range(Ended) : PartOK(part, Section.path)
      /\ Range(parts) \subseteq Range(Ended)
      /\ gathered # <<>> => Wrapped(gathered) \in Range(Ended)
      /\ \A i, n : Has(gathered, i, n) => SomeHas(Ended, i, n)
  BY <1>1, EndedGood
<1>5. /\ gathered \in Seq(Piece) /\ Tokens(gathered) <= Room
      /\ \A p \in Range(gathered) : p.from <= p.to /\ p.at \in RowsFirst .. LastLine
  BY <1>1, CutSound
<1>6. PICK f, l, last : f = Block.first /\ l = Block.last /\ last = LastLine
  OBVIOUS
<1>7. /\ f \in 1 .. Len(markdown) /\ l \in f .. Len(markdown) /\ last \in Nat /\ line \in Nat
      /\ line = last + 1 /\ f \in Nat /\ l \in Nat
  <2>1. line \in Nat
    BY DEF ChunkingInv, ChunkingType
  <2> QED
    BY <1>1, <1>2, <1>3, <1>6, <2>1
<1>8. ASSUME NEW i \in 1 .. Len(markdown), NEW n \in 1 .. markdown[i].tokens, InRows(i)
      PROVE  SomeHas(Ended, i, n)
  <2>1. /\ i \in f .. l
        /\ i >= line \/ (progress = "rows" /\ (i < BodyFirst \/ i > LastLine))
    BY <1>6, <1>8 DEF InRows
  <2>2. progress = "rows"
    <3>1. ASSUME progress = "lines" PROVE FALSE
      BY <1>2, <1>6, <1>7, <2>1, <3>1
    <3> QED
      BY <1>2, <3>1
  <2>3. IsFenced \/ IsTable
    BY <1>2, <2>2
  <2>4. /\ Before = Lines(f, BodyFirst - 1) /\ BodyFirst - 1 \in f .. l
        /\ IsFenced /\ IsClosed => After = Lines(l, l)
        /\ Before \in Seq(Piece)
    BY <1>2, <1>6, <2>3, FrameSound
  <2>5. PICK body : body = BodyFirst
    OBVIOUS
  <2>6. body \in Nat
    <3>1. Len(Before) \in Nat
      BY <2>4, LenProperties
    <3> QED
      BY <1>6, <1>7, <2>5, <3>1 DEF BodyFirst
  <2>7. last = BodyLast /\ body <= last
    BY <1>2, <1>6, <2>2, <2>5
  <2>8. gathered # <<>>
    BY <1>2, <1>7, <2>2, <2>5, <2>6, <2>7
  <2>9. /\ Wrapped(gathered) \in Range(Ended)
        /\ Range(Before) \subseteq Range(Wrapped(gathered))
        /\ Range(After) \subseteq Range(Wrapped(gathered))
    BY <1>1, <1>4, <1>5, <2>2, <2>8, WrappedGood
  <2>10. i < body \/ i > last
    BY <1>6, <1>7, <2>1, <2>5
  <2>11. CASE i < body
    <3>1. body - 1 \in f .. Len(markdown) /\ i \in f .. body - 1
      BY <1>7, <2>1, <2>4, <2>5, <2>6, <2>11
    <3>2. Has(Lines(f, body - 1), i, n)
      BY <1>3, <1>7, <3>1, LinesHave
    <3>3. Has(Wrapped(gathered), i, n)
      BY <2>4, <2>5, <2>9, <3>2 DEF Has
    <3> QED
      BY <2>9, <3>3 DEF SomeHas
  <2>12. CASE i > last
    <3>1. i = l /\ IsFenced /\ IsClosed
      <4>1. BodyLast = IF IsFenced /\ IsClosed THEN l - 1 ELSE l
        BY <1>6 DEF BodyLast
      <4> QED
        BY <1>7, <2>1, <2>7, <2>12, <4>1
    <3>2. l \in 1 .. Len(markdown) /\ l \in l .. Len(markdown) /\ i \in l .. l
      BY <1>7, <3>1
    <3>3. Has(Lines(l, l), i, n)
      BY <1>3, <3>2, LinesHave
    <3>4. Has(Wrapped(gathered), i, n)
      BY <2>4, <2>9, <3>1, <3>3 DEF Has
    <3> QED
      BY <2>9, <3>4 DEF SomeHas
  <2> QED
    BY <2>10, <2>11, <2>12
<1>9. ASSUME NEW i \in 1 .. Len(markdown), NEW n \in 1 .. markdown[i].tokens, Held(i, n)
      PROVE  Held(i, n)'
  <2>1. SectionsLeft' = Tail(sections) /\ BlocksLeft' = Tail(blocks) /\ BlocksLeft = Tail(blocks)
    BY <1>1 DEF SectionsLeft, BlocksLeft, InSection, InCut
  <2>2. ToGather(i) => ToGather(i)'
    BY <2>1 DEF ToGather
  <2>3. (\E s \in Range(Tail(sections)) : i \in s.first .. s.last) => ToCut(i)'
    BY <2>1 DEF ToCut
  <2>4. SomeHas(Ended, i, n) => SomeHas(parts, i, n)'
    BY <1>1 DEF SomeHas, Has
  <2>5. SomeHas(parts, i, n) => SomeHas(Ended, i, n)
    BY <1>4 DEF SomeHas
  <2>6. /\ SomeHas(open, i, n) => SomeHas(open, i, n)'
        /\ (\E c \in Range(chunks) : SomeHas(c.parts, i, n))
              => (\E c \in Range(chunks) : SomeHas(c.parts, i, n))'
    BY <1>1 DEF SomeHas, Has
  <2>7. Has(gathered, i, n) \/ InRows(i) => SomeHas(Ended, i, n)
    BY <1>4, <1>8
  <2> QED
    BY <1>2, <1>9, <2>2, <2>3, <2>4, <2>5, <2>6, <2>7, HeldInSection DEF Held
<1>10. Kept'
  BY <1>1, <1>9, KeptStep
<1>11. (LinesOK /\ RowsOK)'
  BY <1>1 DEF LinesOK, RowsOK
<1>12. /\ chunks' \in Seq(ChunkSet) /\ \A c \in Range(chunks') : ChunkOK(c)
       /\ open' = <<>> /\ open' \in Seq(Seq(Piece)) /\ Range(open') = {}
       /\ gathered' \in Seq(Piece) /\ line' \in Nat \ {0}
  BY <1>1, <1>2, RangeNone DEF ChunkingInv, ChunkingType, ChunksOK
<1>13. Range(blocks') \subseteq Range(blocks)
  BY <1>1, <1>3
<1> QED
  BY <1>1, <1>2, <1>3, <1>4, <1>10, <1>11, <1>12, <1>13, PartsRest
-----------------------------------------------------------------------------
(* Chunking: parts into chunks.                                            *)

LEMMA JoinedInt ==
    ASSUME NEW paragraphs \in Seq(Seq(Piece))
    PROVE  Joined(paragraphs) \in Int
<1> DEFINE widths == [k \in DOMAIN paragraphs |-> Tokens(paragraphs[k])]
<1>1. DOMAIN paragraphs = 1 .. Len(paragraphs) /\ Len(paragraphs) \in Nat
  BY LenProperties
<1>2. widths \in [1 .. Len(paragraphs) -> Int]
  <2>1. ASSUME NEW k \in 1 .. Len(paragraphs) PROVE Tokens(paragraphs[k]) \in Int
    BY ElementOfSeq, TokensInt
  <2> QED
    BY <1>1, <2>1
<1>3. widths \in Seq(Int)
  BY <1>1, <1>2 DEF Seq
<1>4. Total(widths) \in Int
  BY <1>3, TotalInt
<1> QED
  BY <1>1, <1>4 DEF Joined

LEMMA NothingJoined == Joined(<<>>) = 0
<1>1. [k \in DOMAIN <<>> |-> Tokens(<<>>[k])] = <<>>
  OBVIOUS
<1> QED
  BY <1>1, TotalEmpty DEF Joined

\* What a chunk repeats of the one before leaves the limit to the next part.
LEMMA CarriedGood ==
    ASSUME NEW paragraphs \in Seq(Seq(Piece)), NEW coming \in Seq(Piece), Tokens(coming) <= ChunkSize
    PROVE  /\ Carried(paragraphs, coming) \in Seq(Seq(Piece))
           /\ Range(Carried(paragraphs, coming)) \subseteq Range(paragraphs)
           /\ Joined(Append(Carried(paragraphs, coming), coming)) <= ChunkSize
<1> DEFINE rest(k) == SubSeq(paragraphs, k, Len(paragraphs))
           fits(k) == Total([j \in DOMAIN rest(k) |-> Tokens(rest(k)[j])]) <= ChunkOverlap
           S == {k \in 1 .. Len(paragraphs) + 1 : fits(k)}
           first(k) == fits(k) /\ \A other \in 1 .. k - 1 : ~fits(other)
           kept == CarriedOverLimit(paragraphs, coming)
<1>1. Len(paragraphs) \in Nat /\ ChunkOverlap \in Nat /\ ChunkSize \in Nat
  BY LenProperties, ChunkingAssumption
<1>2. fits(Len(paragraphs) + 1)
  <2>1. rest(Len(paragraphs) + 1) = <<>>
    BY <1>1, SubSeqProperties, EmptySeq
  <2>2. [j \in DOMAIN <<>> |-> Tokens(<<>>[j])] = <<>>
    OBVIOUS
  <2>3. Total([j \in DOMAIN rest(Len(paragraphs) + 1) |-> Tokens(rest(Len(paragraphs) + 1)[j])]) = 0
    BY <2>1, <2>2, TotalEmpty, Zenon
  <2> QED
    BY <1>1, <2>3
<1> HIDE DEF fits
<1>3. \E k \in 1 .. Len(paragraphs) + 1 : first(k)
  <2>1. S \in SUBSET Nat /\ S # {}
    <3>1. 1 .. Len(paragraphs) + 1 \subseteq Nat /\ Len(paragraphs) + 1 \in 1 .. Len(paragraphs) + 1
      BY <1>1
    <3>2. Len(paragraphs) + 1 \in S
      BY <1>2, <3>1, Zenon
    <3>3. S \subseteq 1 .. Len(paragraphs) + 1
      BY Zenon
    <3> HIDE DEF S
    <3> QED
      BY <3>1, <3>2, <3>3
  <2>2. PICK k \in S : \A t \in S : k <= t
    BY <2>1, Least
  <2>3. k \in 1 .. Len(paragraphs) + 1 /\ fits(k) /\ k \in Nat
    BY <2>1, <2>2
  <2>4. ASSUME NEW other \in 1 .. k - 1, fits(other) PROVE FALSE
    <3>1. other \in 1 .. Len(paragraphs) + 1 /\ other \in Nat /\ other < k
      BY <1>1, <2>3
    <3>2. k <= other
      BY <2>2, <2>4, <3>1
    <3> QED
      BY <2>3, <3>1, <3>2
  <2> QED
    BY <2>3, <2>4
<1>4. kept = rest(CHOOSE k \in 1 .. Len(paragraphs) + 1 : first(k))
  BY DEF CarriedOverLimit, fits
<1> HIDE DEF first
<1>5. PICK k \in 1 .. Len(paragraphs) + 1 : kept = rest(k)
  BY <1>3, <1>4
<1>6. kept \in Seq(Seq(Piece)) /\ Range(kept) \subseteq Range(paragraphs)
  <2>1. k \in 1 .. Len(paragraphs) + 1 /\ Len(paragraphs) \in k - 1 .. Len(paragraphs)
    BY <1>1
  <2>2. /\ rest(k) \in Seq(Seq(Piece))
        /\ Range(rest(k)) = {paragraphs[i] : i \in k .. Len(paragraphs)}
    BY <2>1, RangeSub
  <2>3. \A i \in k .. Len(paragraphs) : paragraphs[i] \in Range(paragraphs)
    <3>1. DOMAIN paragraphs = 1 .. Len(paragraphs) /\ \A i \in k .. Len(paragraphs) : i \in 1 .. Len(paragraphs)
      BY <1>1, LenProperties
    <3> QED
      BY <3>1 DEF Range
  <2> QED
    BY <1>5, <2>2, <2>3
<1> HIDE DEF kept
<1>7. CASE Joined(Append(kept, coming)) > ChunkSize
  <2>1. Carried(paragraphs, coming) = <<>>
    BY <1>7 DEF Carried, kept
  <2>2. Append(<<>>, coming) = <<coming>> /\ Joined(<<coming>>) = Tokens(coming)
    BY JoinedOne
  <2>3. Joined(Append(Carried(paragraphs, coming), coming)) <= ChunkSize
    BY <2>1, <2>2
  <2> QED
    BY <2>1, <2>3, RangeNone
<1>8. CASE ~(Joined(Append(kept, coming)) > ChunkSize)
  <2>1. Carried(paragraphs, coming) = kept
    BY <1>8 DEF Carried, kept
  <2>2. Append(kept, coming) \in Seq(Seq(Piece))
    BY <1>6, AppendProperties
  <2>3. Joined(Append(kept, coming)) \in Int
    BY <2>2, JoinedInt
  <2>4. Joined(Append(kept, coming)) <= ChunkSize
    BY <1>1, <1>8, <2>3
  <2> QED
    BY <1>6, <2>1, <2>4
<1> QED
  BY <1>7, <1>8

LEMMA TakePartKeeps ==
    ASSUME ChunkingInv, TakePart
    PROVE  ChunkingInv'
<1>1. /\ progress = "parts" /\ blocks = <<>> /\ parts # <<>> /\ parts' = Tail(parts)
      /\ IF open # <<>> /\ Joined(Append(open, Head(parts))) > ChunkSize
         THEN /\ open' = Append(Carried(open, Head(parts)), Head(parts))
              /\ chunks' = IF HasText(open)
                           THEN Append(chunks, [path |-> Section.path, parts |-> open]) ELSE chunks
         ELSE open' = Append(open, Head(parts)) /\ UNCHANGED chunks
      /\ UNCHANGED <<markdown, progress, line, outline, sections, block, blocks, gathered, at>>
  BY DEF TakePart
<1>2. /\ sections # <<>> /\ block = NoBlock /\ gathered = <<>>
  BY <1>1 DEF ChunkingInv, Quiet, InSection, InCut
<1>3. /\ line \in Nat \ {0} /\ blocks \in Seq(BlockSet) /\ parts \in Seq(Seq(Piece))
      /\ gathered \in Seq(Piece) /\ open \in Seq(Seq(Piece)) /\ chunks \in Seq(ChunkSet)
      /\ \A part \in Range(parts) : PartOK(part, Section.path)
      /\ \A part \in Range(open) : PartOK(part, Section.path)
      /\ open # <<>> => Joined(open) <= ChunkSize
      /\ \A c \in Range(chunks) : ChunkOK(c)
  BY DEF ChunkingInv, ChunkingType, PartsOK, ChunksOK
<1>4. PICK coming : coming = Head(parts)
  OBVIOUS
<1>5. /\ coming \in Seq(Piece) /\ Tail(parts) \in Seq(Seq(Piece))
      /\ Range(parts) = Range(Tail(parts)) \cup {coming}
  BY <1>1, <1>3, <1>4, RangeTail
<1>6. PartOK(coming, Section.path) /\ Tokens(coming) <= ChunkSize
  BY <1>3, <1>5 DEF PartOK
<1>7. /\ open' \in Seq(Seq(Piece)) /\ coming \in Range(open')
      /\ \A part \in Range(open') : PartOK(part, Section.path)
      /\ Joined(open') <= ChunkSize
      /\ chunks' \in Seq(ChunkSet) /\ \A c \in Range(chunks') : ChunkOK(c)
      /\ Range(chunks) \subseteq Range(chunks')
      /\ \/ Range(open) \subseteq Range(open')
         \/ HasText(open) => \E c \in Range(chunks') : c.parts = open
  <2>1. CASE open # <<>> /\ Joined(Append(open, coming)) > ChunkSize
    <3> DEFINE new == [path |-> Section.path, parts |-> open]
    <3>1. /\ open' = Append(Carried(open, coming), coming)
          /\ chunks' = IF HasText(open) THEN Append(chunks, new) ELSE chunks
      BY <1>1, <1>4, <2>1
    <3>2. /\ Carried(open, coming) \in Seq(Seq(Piece))
          /\ Range(Carried(open, coming)) \subseteq Range(open)
          /\ Joined(open') <= ChunkSize
      BY <1>3, <1>5, <1>6, <3>1, CarriedGood
    <3>3. open' \in Seq(Seq(Piece)) /\ Range(open') = Range(Carried(open, coming)) \cup {coming}
      BY <1>5, <3>1, <3>2, RangeAppend
    <3>4. new \in ChunkSet
      <4>1. Section.path \in SUBSET Nat
        BY <1>2, SectionSound DEF SectionSet
      <4> QED
        BY <1>3, <4>1 DEF ChunkSet
    <3>5. ChunkOK(new)
      BY <1>3, <2>1 DEF ChunkOK
    <3>6. new.parts = open
      OBVIOUS
    <3> HIDE DEF new
    <3>7. /\ chunks' \in Seq(ChunkSet) /\ Range(chunks) \subseteq Range(chunks')
          /\ Range(chunks') \subseteq Range(chunks) \cup {new}
          /\ HasText(open) => new \in Range(chunks')
      BY <1>3, <3>1, <3>4, RangeAppend
    <3> QED
      BY <1>3, <1>6, <3>2, <3>3, <3>5, <3>6, <3>7
  <2>2. CASE ~(open # <<>> /\ Joined(Append(open, coming)) > ChunkSize)
    <3>1. open' = Append(open, coming) /\ chunks' = chunks
      BY <1>1, <1>4, <2>2
    <3>2. open' \in Seq(Seq(Piece)) /\ Range(open') = Range(open) \cup {coming}
      BY <1>3, <1>5, <3>1, RangeAppend
    <3>3. Joined(open') <= ChunkSize
      <4>1. CASE open = <<>>
        <5>1. open' = <<coming>>
          BY <3>1, <4>1
        <5> QED
          BY <1>5, <1>6, <5>1, JoinedOne
      <4>2. CASE ~(Joined(Append(open, coming)) > ChunkSize)
        <5>1. Joined(open') \in Int /\ ChunkSize \in Int
          BY <3>2, JoinedInt, ChunkingAssumption
        <5> QED
          BY <3>1, <4>2, <5>1
      <4> QED
        BY <2>2, <4>1, <4>2
    <3> QED
      BY <1>3, <1>6, <3>1, <3>2, <3>3
  <2> QED
    BY <2>1, <2>2
<1>8. ASSUME NEW i \in 1 .. Len(markdown), ~IsKind(i, "blank"), NEW n, Held(i, n)
      PROVE  Held(i, n)'
  <2>1. SectionsLeft' = Tail(sections) /\ BlocksLeft' = BlocksLeft
    BY <1>1 DEF SectionsLeft, BlocksLeft, InSection
  <2>2. ToGather(i) => ToGather(i)'
    BY <2>1 DEF ToGather
  <2>3. (\E s \in Range(Tail(sections)) : i \in s.first .. s.last) => ToCut(i)'
    BY <2>1 DEF ToCut
  <2>4. ~InRows(i) /\ ~Has(gathered, i, n)
    BY <1>1, <1>2, RangeNone DEF InRows, InCut, Has
  <2>5. SomeHas(open', i, n) => Held(i, n)'
    BY DEF Held, SomeHas, Has
  <2>6. (\E c \in Range(chunks') : SomeHas(c.parts, i, n)) => Held(i, n)'
    BY DEF Held, SomeHas, Has
  <2>7. SomeHas(parts, i, n) => Held(i, n)'
    <3>1. SomeHas(parts, i, n) => SomeHas(Tail(parts), i, n) \/ Has(coming, i, n)
      BY <1>5 DEF SomeHas
    <3>2. Has(coming, i, n) => SomeHas(open', i, n)
      BY <1>7 DEF SomeHas
    <3>3. SomeHas(Tail(parts), i, n) => SomeHas(parts, i, n)'
      BY <1>1 DEF SomeHas, Has
    <3> QED
      BY <2>5, <3>1, <3>2, <3>3 DEF Held
  <2>8. SomeHas(open, i, n) => Held(i, n)'
    <3> SUFFICES ASSUME SomeHas(open, i, n) PROVE Held(i, n)'
      OBVIOUS
    <3>1. HasText(open)
      BY <1>8 DEF HasText, SomeHas, Has
    <3>2. CASE Range(open) \subseteq Range(open')
      BY <2>5, <3>2 DEF SomeHas
    <3>3. CASE \E c \in Range(chunks') : c.parts = open
      BY <2>6, <3>3
    <3> QED
      BY <1>7, <3>1, <3>2, <3>3
  <2>9. (\E c \in Range(chunks) : SomeHas(c.parts, i, n)) => Held(i, n)'
    BY <1>7, <2>6
  <2>10. ToGather(i) \/ (\E s \in Range(Tail(sections)) : i \in s.first .. s.last) => Held(i, n)'
    BY <2>2, <2>3 DEF Held
  <2> QED
    BY <1>1, <1>8, <2>4, <2>7, <2>8, <2>9, <2>10, HeldInSection
<1>9. Kept'
  BY <1>1, <1>8, KeptStep
<1>10. (LinesOK /\ RowsOK)'
  BY <1>1 DEF LinesOK, RowsOK
<1>11. /\ parts' \in Seq(Seq(Piece)) /\ \A part \in Range(parts') : PartOK(part, Section.path)
  BY <1>1, <1>3, <1>5
<1> QED
  BY <1>1, <1>2, <1>3, <1>7, <1>9, <1>10, <1>11, PartsRest

LEMMA EndPartsKeeps ==
    ASSUME ChunkingInv, EndParts
    PROVE  ChunkingInv'
<1>1. /\ progress = "parts" /\ blocks = <<>> /\ parts = <<>> /\ SectionEnds(open) /\ open' = <<>>
      /\ UNCHANGED <<markdown, line, outline, block, blocks, gathered, parts, at>>
  BY DEF EndParts
<1>2. gathered = <<>>
  BY <1>1 DEF ChunkingInv, Quiet, InCut
<1>3. /\ open \in Seq(Seq(Piece)) /\ \A part \in Range(open) : PartOK(part, Section.path)
      /\ open # <<>> => Joined(open) <= ChunkSize
  BY DEF ChunkingInv, ChunkingType, PartsOK
<1>4. Joined(open) <= ChunkSize
  BY <1>3, NothingJoined, ChunkingAssumption
<1>5. ASSUME NEW i \in 1 .. Len(markdown), NEW n, Held(i, n)
      PROVE  \/ \E s \in Range(Tail(sections)) : i \in s.first .. s.last
             \/ SomeHas(open, i, n)
             \/ \E c \in Range(chunks) : SomeHas(c.parts, i, n)
  <2>1. ~InRows(i) /\ ~ToGather(i)
    BY <1>1, RangeNone DEF InRows, InCut, ToGather, BlocksLeft
  <2>2. ~Has(gathered, i, n) /\ ~SomeHas(parts, i, n)
    BY <1>1, <1>2, RangeNone DEF Has, SomeHas
  <2> QED
    BY <1>1, <1>5, <2>1, <2>2, HeldInSection
<1> QED
  BY <1>1, <1>2, <1>3, <1>4, <1>5, SectionEndsKeeps

-----------------------------------------------------------------------------
(* Chunking: tiny chunks, and the whole.                                   *)

LEMMA JoinGood ==
    ASSUME ChunkingInv, NEW k \in 1 .. Len(chunks), SamePath(k, k + 1),
           Joined(Both(k)) <= ChunkSize, Join(k)
    PROVE  /\ chunks' \in Seq(ChunkSet) /\ \A c \in Range(chunks') : ChunkOK(c)
           /\ \A i, n : (\E c \in Range(chunks) : SomeHas(c.parts, i, n))
                 => \E c \in Range(chunks') : SomeHas(c.parts, i, n)
<1>1. /\ chunks \in Seq(ChunkSet) /\ Len(chunks) \in Nat /\ DOMAIN chunks = 1 .. Len(chunks)
      /\ \A c \in Range(chunks) : ChunkOK(c)
  BY LenProperties DEF ChunkingInv, ChunkingType, ChunksOK
<1>2. k + 1 \in 1 .. Len(chunks) /\ chunks[k + 1].path = chunks[k].path
  BY <1>1 DEF SamePath
<1>3. PICK a, b : a = chunks[k] /\ b = chunks[k + 1]
  OBVIOUS
<1>4. /\ a \in ChunkSet /\ b \in ChunkSet /\ a \in Range(chunks) /\ b \in Range(chunks)
      /\ ChunkOK(a) /\ ChunkOK(b) /\ b.path = a.path
  BY <1>1, <1>2, <1>3, ElementOfSeq DEF Range
<1>5. PICK new : new = [a EXCEPT !.parts = a.parts \o b.parts]
  OBVIOUS
<1>6. /\ a.parts \o b.parts \in Seq(Seq(Piece))
      /\ Range(a.parts \o b.parts) = Range(a.parts) \cup Range(b.parts)
  <2>1. a.parts \in Seq(Seq(Piece)) /\ b.parts \in Seq(Seq(Piece))
    BY <1>4 DEF ChunkSet
  <2> QED
    BY <2>1, RangeConcat
<1>7. /\ new \in ChunkSet /\ new.parts = a.parts \o b.parts /\ new.path = a.path
  BY <1>4, <1>5, <1>6 DEF ChunkSet
<1>8. ChunkOK(new)
  <2>1. Joined(new.parts) <= ChunkSize
    BY <1>3, <1>7 DEF Both
  <2>2. \A part \in Range(new.parts) : PartOK(part, new.path)
    BY <1>4, <1>6, <1>7 DEF ChunkOK
  <2> QED
    BY <2>1, <2>2 DEF ChunkOK
<1> DEFINE left == SubSeq(chunks, 1, k - 1)
           right == SubSeq(chunks, k + 2, Len(chunks))
<1>9. chunks' = left \o <<new>> \o right
  BY <1>3, <1>5 DEF Join, Both
<1>10. left \in Seq(ChunkSet) /\ Range(left) = {chunks[j] : j \in 1 .. k - 1}
  <2>1. 1 \in 1 .. Len(chunks) + 1 /\ k - 1 \in 1 - 1 .. Len(chunks)
    BY <1>1
  <2> QED
    BY <1>1, <2>1, RangeSub
<1>11. right \in Seq(ChunkSet) /\ Range(right) = {chunks[j] : j \in k + 2 .. Len(chunks)}
  <2>1. k + 2 \in 1 .. Len(chunks) + 1 /\ Len(chunks) \in (k + 2) - 1 .. Len(chunks)
    BY <1>1, <1>2
  <2> QED
    BY <1>1, <2>1, RangeSub
<1> HIDE DEF left, right
<1>12. left \o <<new>> \in Seq(ChunkSet) /\ Range(left \o <<new>>) = Range(left) \cup {new}
  <2>1. PICK one : one = <<new>>
    OBVIOUS
  <2>2. one \in Seq(ChunkSet) /\ Range(one) = {new}
    BY <1>7, <2>1, RangeOne
  <2>3. left \in Seq(ChunkSet)
    BY <1>10
  <2>4. left \o one \in Seq(ChunkSet) /\ Range(left \o one) = Range(left) \cup Range(one)
    BY <2>2, <2>3, RangeConcat
  <2> QED
    BY <2>1, <2>2, <2>4
<1>13. chunks' \in Seq(ChunkSet) /\ Range(chunks') = Range(left) \cup {new} \cup Range(right)
  <2>1. PICK head : head = left \o <<new>>
    OBVIOUS
  <2>2. head \in Seq(ChunkSet)
    BY <1>12, <2>1
  <2>3. head \o right \in Seq(ChunkSet) /\ Range(head \o right) = Range(head) \cup Range(right)
    BY <1>11, <2>2, RangeConcat
  <2> QED
    BY <1>9, <1>12, <2>1, <2>3
<1>14. \A c \in Range(left) \cup Range(right) : c \in Range(chunks)
  <2>1. \A j : j \in 1 .. k - 1 \/ j \in k + 2 .. Len(chunks) => j \in 1 .. Len(chunks)
    BY <1>1, <1>2
  <2> QED
    BY <1>1, <1>10, <1>11, <2>1 DEF Range
<1>15. \A c \in Range(chunks') : ChunkOK(c)
  BY <1>1, <1>8, <1>13, <1>14
<1>16. ASSUME NEW i, NEW n, NEW c \in Range(chunks), SomeHas(c.parts, i, n)
       PROVE  \E other \in Range(chunks') : SomeHas(other.parts, i, n)
  <2>1. PICK j \in 1 .. Len(chunks) : c = chunks[j]
    BY <1>1 DEF Range
  <2>2. j \in 1 .. k - 1 \/ j = k \/ j = k + 1 \/ j \in k + 2 .. Len(chunks)
    BY <1>1
  <2>3. CASE j = k \/ j = k + 1
    <3>1. Range(c.parts) \subseteq Range(new.parts)
      BY <1>3, <1>6, <1>7, <2>1, <2>3
    <3>2. SomeHas(new.parts, i, n)
      BY <1>16, <3>1 DEF SomeHas
    <3> QED
      BY <1>13, <3>2
  <2>4. CASE j \in 1 .. k - 1
    <3>1. c \in Range(chunks')
      BY <1>10, <1>13, <2>1, <2>4
    <3> QED
      BY <1>16, <3>1
  <2>5. CASE j \in k + 2 .. Len(chunks)
    <3>1. c \in Range(chunks')
      BY <1>11, <1>13, <2>1, <2>5
    <3> QED
      BY <1>16, <3>1
  <2> QED
    BY <2>2, <2>3, <2>4, <2>5
<1>17. \A i, n : (\E c \in Range(chunks) : SomeHas(c.parts, i, n))
          => \E c \in Range(chunks') : SomeHas(c.parts, i, n)
  BY <1>16
<1> QED
  BY <1>13, <1>15, <1>17

\* Once the sections are cut, the text is in the chunks.
LEMMA MergeRest ==
    ASSUME ChunkingInv, progress = "merge", progress' \in {"merge", "done"},
           UNCHANGED <<markdown, line, outline, sections, block, blocks, gathered, parts, open>>,
           at' \in Nat \ {0}, chunks' \in Seq(ChunkSet), \A c \in Range(chunks') : ChunkOK(c),
           \A i, n : (\E c \in Range(chunks) : SomeHas(c.parts, i, n))
              => \E c \in Range(chunks') : SomeHas(c.parts, i, n)
    PROVE  ChunkingInv'
<1>1. /\ sections = <<>> /\ blocks = <<>> /\ parts = <<>> /\ open = <<>> /\ gathered = <<>>
      /\ block = NoBlock /\ markdown # <<>>
  BY DEF ChunkingInv, Quiet, InSection, InCut
<1>2. ChunkingType'
  BY DEF ChunkingInv, ChunkingType, Loops
<1>3. Quiet'
  BY <1>1 DEF Quiet, NoBlock, InSection, InCut
<1>4. (SplitOK /\ BlockBegun /\ LinesOK /\ RowsOK)'
  BY DEF SplitOK, BlockBegun, LinesOK, RowsOK
<1>5. (SectionsOK /\ BlocksOK /\ PartsOK)'
  BY <1>1, RangeNone DEF SectionsOK, BlocksOK, PartsOK
<1>6. ChunksOK'
  BY Frozen DEF ChunksOK
<1>7. ASSUME NEW i, NEW n, Held(i, n) PROVE \E c \in Range(chunks) : SomeHas(c.parts, i, n)
  <2>1. ~ToSplit(i) /\ ~InBlock(i) /\ ~InRows(i)
    BY DEF ToSplit, InBlock, InRows, InCut
  <2>2. ~ToCut(i) /\ ~ToGather(i)
    BY <1>1, RangeNone DEF ToCut, ToGather, SectionsLeft, BlocksLeft, InSection, InCut
  <2>3. ~Has(gathered, i, n) /\ ~SomeHas(parts, i, n) /\ ~SomeHas(open, i, n)
    BY <1>1, RangeNone DEF Has, SomeHas
  <2> QED
    BY <1>7, <2>1, <2>2, <2>3 DEF Held
<1>8. ASSUME NEW i, NEW n, Held(i, n) PROVE Held(i, n)'
  <2>1. \E c \in Range(chunks') : SomeHas(c.parts, i, n)
    BY <1>7, <1>8
  <2> QED
    BY <2>1 DEF Held, SomeHas, Has
<1>9. Kept'
  BY <1>8, KeptStep
<1> QED
  BY <1>2, <1>3, <1>4, <1>5, <1>6, <1>9 DEF ChunkingInv

LEMMA MergeChunkKeeps ==
    ASSUME ChunkingInv, MergeChunk
    PROVE  ChunkingInv'
<1>1. /\ progress = "merge" /\ at \in DOMAIN chunks
      /\ \/ FitsNext(at) /\ Join(at) /\ UNCHANGED at
         \/ FitsBack(at) /\ Join(at - 1) /\ at' = at - 1
         \/ ~FitsNext(at) /\ ~FitsBack(at) /\ at' = at + 1 /\ UNCHANGED chunks
      /\ UNCHANGED <<markdown, progress, line, outline, sections, block, blocks, gathered, parts, open>>
  BY DEF MergeChunk
<1>2. /\ at \in Nat \ {0} /\ chunks \in Seq(ChunkSet) /\ Len(chunks) \in Nat
      /\ DOMAIN chunks = 1 .. Len(chunks) /\ \A c \in Range(chunks) : ChunkOK(c)
  BY LenProperties DEF ChunkingInv, ChunkingType, ChunksOK
<1>3. CASE FitsNext(at) /\ Join(at) /\ UNCHANGED at
  <2>1. at \in 1 .. Len(chunks) /\ SamePath(at, at + 1) /\ Joined(Both(at)) <= ChunkSize
    BY <1>1, <1>2, <1>3 DEF FitsNext
  <2> QED
    BY <1>1, <1>2, <1>3, <2>1, JoinGood, MergeRest
<1>4. CASE FitsBack(at) /\ Join(at - 1) /\ at' = at - 1
  <2>1. SamePath(at, at - 1) /\ Joined(Both(at - 1)) <= ChunkSize
    BY <1>4 DEF FitsBack
  <2>2. PICK k : k = at - 1
    OBVIOUS
  <2>3. k \in 1 .. Len(chunks) /\ k + 1 = at /\ chunks[k].path = chunks[at].path
    BY <1>1, <1>2, <2>1, <2>2 DEF SamePath
  <2>4. SamePath(k, k + 1) /\ Joined(Both(k)) <= ChunkSize /\ Join(k)
    BY <1>1, <1>4, <2>1, <2>2, <2>3 DEF SamePath
  <2>5. at' \in Nat \ {0}
    BY <1>2, <1>4, <2>2, <2>3
  <2> QED
    BY <1>1, <2>3, <2>4, <2>5, JoinGood, MergeRest
<1>5. CASE ~FitsNext(at) /\ ~FitsBack(at) /\ at' = at + 1 /\ UNCHANGED chunks
  <2>1. at' \in Nat \ {0}
    BY <1>2, <1>5
  <2> QED
    BY <1>1, <1>2, <1>5, <2>1, MergeRest
<1> QED
  BY <1>1, <1>3, <1>4, <1>5

LEMMA ChunkedKeeps ==
    ASSUME ChunkingInv, Chunked
    PROVE  ChunkingInv'
<1>1. /\ progress = "merge" /\ progress' = "done"
      /\ UNCHANGED <<markdown, line, outline, sections, block, blocks, gathered, parts, open, chunks, at>>
  BY DEF Chunked
<1>2. /\ at \in Nat \ {0} /\ chunks \in Seq(ChunkSet) /\ \A c \in Range(chunks) : ChunkOK(c)
  BY DEF ChunkingInv, ChunkingType, ChunksOK
<1> QED
  BY <1>1, <1>2, MergeRest

LEMMA ChunkingStill ==
    ASSUME ChunkingInv, UNCHANGED chunkingVars
    PROVE  ChunkingInv'
<1>1. /\ markdown' = markdown /\ progress' = progress /\ line' = line /\ outline' = outline
      /\ sections' = sections /\ block' = block /\ blocks' = blocks /\ gathered' = gathered
      /\ parts' = parts /\ open' = open /\ chunks' = chunks /\ at' = at
  BY DEF chunkingVars
<1>2. Section' = Section /\ Block' = Block
  BY <1>1 DEF Section, Block
<1>3. ChunkingType' /\ Quiet'
  BY <1>1 DEF ChunkingInv, ChunkingType, Quiet
<1>4. SplitOK'
  BY <1>1, Frozen DEF ChunkingInv, SplitOK
<1>5. BlockBegun'
  BY <1>1, <1>2, Frozen DEF ChunkingInv, BlockBegun
<1>6. (SectionsOK /\ BlocksOK /\ PartsOK /\ ChunksOK)'
  BY <1>1, <1>2, Frozen DEF ChunkingInv, SectionsOK, BlocksOK, PartsOK, ChunksOK
<1>7. LinesOK'
  BY <1>1, <1>2, Frozen DEF ChunkingInv, LinesOK
<1>8. /\ (Before' = Before) /\ (After' = After) /\ (IsFenced' <=> IsFenced)
      /\ (IsClosed' <=> IsClosed) /\ (IsTable' <=> IsTable)
  BY <1>1, <1>2, Frozen DEF Before, After, IsFenced, IsClosed, IsTable, ClosingFence
<1>9. BodyFirst' = BodyFirst /\ LastLine' = LastLine /\ (IsStructured' <=> IsStructured)
      /\ RowRoom' = RowRoom
  BY <1>1, <1>2, <1>8 DEF BodyFirst, LastLine, IsStructured, RowRoom
<1>10. RowsOK'
  BY <1>1, <1>9 DEF ChunkingInv, RowsOK
<1>11. ASSUME NEW i, NEW n, Held(i, n) PROVE Held(i, n)'
  <2>1. /\ ToSplit(i) => ToSplit(i)'
        /\ ToCut(i) => ToCut(i)'
        /\ InBlock(i) => InBlock(i)'
        /\ ToGather(i) => ToGather(i)'
        /\ InRows(i) => InRows(i)'
    <3>1. SectionsLeft' = SectionsLeft /\ BlocksLeft' = BlocksLeft
      BY <1>1 DEF SectionsLeft, BlocksLeft
    <3> QED
      BY <1>1, <1>2, <1>9, <3>1 DEF ToSplit, ToCut, InBlock, ToGather, InRows
  <2>2. /\ Has(gathered, i, n) => Has(gathered, i, n)'
        /\ SomeHas(parts, i, n) => SomeHas(parts, i, n)'
        /\ SomeHas(open, i, n) => SomeHas(open, i, n)'
        /\ (\E c \in Range(chunks) : SomeHas(c.parts, i, n))
              => (\E c \in Range(chunks) : SomeHas(c.parts, i, n))'
    BY <1>1 DEF SomeHas, Has
  <2> QED
    BY <1>11, <2>1, <2>2 DEF Held
<1>12. Kept'
  BY <1>1, <1>11, KeptStep
<1> QED
  BY <1>3, <1>4, <1>5, <1>6, <1>7, <1>10, <1>12 DEF ChunkingInv

LEMMA ChunkingStep ==
    ASSUME ChunkingInv, [ChunkingNext]_chunkingVars
    PROVE  ChunkingInv'
BY WriteLineKeeps, SplitSectionsKeeps, TakeLineKeeps, EndSectionsKeeps, KeepSectionKeeps,
   CutSectionKeeps, TakeBlockLineKeeps, EndBlocksKeeps, TakeBlockKeeps, TakeRowKeeps, EndRowsKeeps,
   TakePartKeeps, EndPartsKeeps, MergeChunkKeeps, ChunkedKeeps, ChunkingStill DEF ChunkingNext

LEMMA ChunkingInvSound ==
    ASSUME ChunkingInv
    PROVE  ChunksFaithful
<1>1. /\ chunks \in Seq(ChunkSet) /\ \A c \in Range(chunks) : c \in ChunkSet /\ ChunkOK(c)
      /\ markdown \in Seq(AllLines) /\ DOMAIN markdown = 1 .. Len(markdown)
  BY InSeq, LenProperties DEF ChunkingInv, ChunkingType, ChunksOK
<1>2. \A c \in Range(chunks) : WithinSize(c)
  BY <1>1 DEF ChunkOK, WithinSize
<1>3. ASSUME progress = "done" PROVE NothingLost
  <2>1. ASSUME NEW i \in 1 .. Len(markdown), ~IsKind(i, "blank"), NEW n \in 1 .. markdown[i].tokens
        PROVE  \E c \in Range(chunks) : \E p \in PiecesOf(c) : p.at = i /\ n \in p.from + 1 .. p.to
    <3>1. Held(i, n)
      BY <2>1 DEF ChunkingInv, Kept
    <3>2. /\ sections = <<>> /\ blocks = <<>> /\ parts = <<>> /\ open = <<>> /\ gathered = <<>>
      BY <1>3 DEF ChunkingInv, Quiet, InSection, InCut
    <3>3. ~ToSplit(i) /\ ~InBlock(i) /\ ~InRows(i)
      BY <1>3 DEF ToSplit, InBlock, InRows, InCut
    <3>4. ~ToCut(i) /\ ~ToGather(i)
      BY <1>3, <3>2, RangeNone DEF ToCut, ToGather, SectionsLeft, BlocksLeft, InSection, InCut
    <3>5. ~Has(gathered, i, n) /\ ~SomeHas(parts, i, n) /\ ~SomeHas(open, i, n)
      BY <3>2, RangeNone DEF Has, SomeHas
    <3>6. PICK c \in Range(chunks) : SomeHas(c.parts, i, n)
      BY <3>1, <3>3, <3>4, <3>5 DEF Held
    <3>7. PICK part \in Range(c.parts) : \E p \in Range(part) : p.at = i /\ n \in p.from + 1 .. p.to
      BY <3>6 DEF SomeHas, Has
    <3> QED
      BY <3>7 DEF PiecesOf
  <2> QED
    BY <1>1, <2>1 DEF NothingLost
<1>4. ASSUME NEW c \in Range(chunks) PROVE InPlace(c)
  <2>1. ASSUME NEW p \in PiecesOf(c), p.at # 0
        PROVE  /\ PathOf(p.at) \subseteq c.path
               /\ PathOf(p.at) # c.path => Heading(p.at) \/ Bare(p.at)
    <3>1. PICK part \in Range(c.parts) : p \in Range(part)
      BY <2>1 DEF PiecesOf
    <3>2. PartOK(part, c.path)
      BY <1>1, <3>1 DEF ChunkOK
    <3>3. PieceOK(p, c.path)
      BY <3>1, <3>2 DEF PartOK
    <3> QED
      BY <2>1, <3>3 DEF PieceOK, Under
  <2> QED
    BY <2>1 DEF InPlace
<1>5. ASSUME NEW c \in Range(chunks) PROVE Balanced(c)
  <2> SUFFICES ASSUME Clear
               PROVE  Total([k \in DOMAIN c.parts |-> Fences(c.parts[k])]) % 2 = 0
    BY DEF Balanced, Clear
  <2> DEFINE fences == [k \in DOMAIN c.parts |-> Fences(c.parts[k])]
  <2>1. c.parts \in Seq(Seq(Piece))
    BY <1>1 DEF ChunkSet
  <2>2. DOMAIN c.parts = 1 .. Len(c.parts) /\ Len(c.parts) \in Nat
    BY <2>1, LenProperties
  <2>3. ASSUME NEW k \in 1 .. Len(c.parts)
        PROVE  Fences(c.parts[k]) \in Int /\ Fences(c.parts[k]) % 2 = 0
    <3>1. c.parts[k] \in Seq(Piece) /\ c.parts[k] \in Range(c.parts)
      BY <2>1, <2>2, ElementOfSeq DEF Range
    <3>2. PartOK(c.parts[k], c.path)
      BY <1>1, <3>1 DEF ChunkOK
    <3> QED
      BY <3>1, <3>2, FencesInt DEF PartOK
  <2>4. fences \in [1 .. Len(c.parts) -> Int] /\ \A k \in 1 .. Len(c.parts) : fences[k] % 2 = 0
    BY <2>2, <2>3
  <2> HIDE DEF fences
  <2>5. fences \in Seq(Int) /\ Len(fences) = Len(c.parts)
    BY <2>2, <2>4, LenProperties DEF Seq
  <2>6. Total(fences) % 2 = 0
    BY <2>4, <2>5, TotalEven
  <2> QED
    BY <2>6 DEF fences
<1> QED
  BY <1>2, <1>3, <1>4, <1>5 DEF ChunksFaithful

(* Whatever a document looks like, what is indexed of it is all of it, each *)
(* chunk within the limit, under its own headings and with its code closed  *)
(* (ingest.py, chunk_markdown_hierarchical).                                *)
THEOREM ChunksFaithfulAlways == ChunkingSpec => []ChunksFaithful
<1>1. ChunkingInit => ChunkingInv
  BY ChunkingInitHolds
<1>2. ChunkingInv /\ [ChunkingNext]_chunkingVars => ChunkingInv'
  BY ChunkingStep
<1>3. ChunkingInv => ChunksFaithful
  BY ChunkingInvSound
<1> QED
  BY <1>1, <1>2, <1>3, PTL DEF ChunkingSpec
=============================================================================
