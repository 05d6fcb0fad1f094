------------------------- MODULE EdgeEvidenceProofs -------------------------
(***************************************************************************)
(* Theorems about EdgeEvidence for any concepts, chunks, relations         *)
(* asserted and legacy edges.  The first part shows where rows and keys    *)
(* come from (Inv): evidence has a marker, a normalized graph stays one    *)
(* without loops, and a rebuild leaves what is served alone.  The second   *)
(* part (ServedInv) builds on it: what is served is the count of the       *)
(* evidence, and neither the served nor the staged graph has a cycle.      *)
(***************************************************************************)
EXTENDS EdgeEvidence, FiniteSetTheorems, TLAPS

All == DOMAIN edges \cup Keys(evidence)

\* What holds of every key, now and after any step.
Fine(k) == k \in Edge /\ ~IsLoop(k) /\ (Normalized => Normal(k) = k)

Rows == evidence \subseteq Chunk \X Edge

\* A store that waits was not told to materialize, unless it was overtaken.
HeldBack == rebuild /\ ~raced /\ job # None => ~job.materialize

Inv ==
    /\ Rows /\ EvidenceMarked
    /\ \A k \in All : k \in Edge /\ ~IsLoop(k)
    /\ job # None => job.chunk \in Chunk /\ job.edge \in Asserted
    /\ merges \in Nat
    /\ rebuild => Normalized
    /\ HeldBack

-----------------------------------------------------------------------------
(* Keys.                                                                   *)

\* An edge is a triple of two concepts and a relation.
LEMMA EdgeShape ==
    ASSUME NEW e \in Edge
    PROVE  /\ e = <<e[1], e[2], e[3]>>
           /\ e[1] \in Concept /\ e[2] \in Concept
           /\ e[3] \in {"is_a", "related_to", "uses", "example_of"}
BY DEF Edge, Relation, LegacyRelation

\* Two concepts and a relation make an edge.
LEMMA EdgeMade ==
    ASSUME NEW a \in Concept, NEW b \in Concept,
           NEW r \in {"is_a", "related_to", "uses", "example_of"}
    PROVE  <<a, b, r>> \in Edge
BY DEF Edge, Relation, LegacyRelation

\* Turning a symmetric relation the right way round makes a regular key.
LEMMA CanonicalKey ==
    ASSUME NEW e \in Edge
    PROVE  /\ Canonical(e) \in Edge
           /\ IsLoop(Canonical(e)) <=> IsLoop(e)
           /\ e[3] # "example_of" => Normal(Canonical(e)) = Canonical(e)
<1>1. e[1] \in Nat /\ e[2] \in Nat
  BY EdgeShape, ConceptAssumption
<1>2. CASE e[3] = "related_to" /\ e[1] > e[2]
  <2>1. Canonical(e) = <<e[2], e[1], e[3]>>
    BY <1>2 DEF Canonical
  <2>2. ~(e[2] > e[1])
    BY <1>1, <1>2
  <2> QED
    BY <2>1, <2>2, <1>2, EdgeShape, EdgeMade DEF Normal, Canonical, IsLoop
<1>3. CASE ~(e[3] = "related_to" /\ e[1] > e[2])
  <2>1. Canonical(e) = e
    BY <1>3 DEF Canonical
  <2> QED
    BY <2>1, <1>3 DEF Normal, Canonical
<1> QED
  BY <1>2, <1>3

\* A key moved to the winner of a merge is a regular one again.
LEMMA RepointedKey ==
    ASSUME NEW e \in Edge, NEW l \in Concept, NEW w \in Concept
    PROVE  /\ Repointed(e, l, w) \in Edge
           /\ Normal(e) = e => Normal(Repointed(e, l, w)) = Repointed(e, l, w)
<1> DEFINE k == Replaced(e, {l}, w)
<1>1. k \in Edge /\ k[3] = e[3]
  BY EdgeShape, EdgeMade DEF Replaced
<1>2. Normal(e) = e => e[3] # "example_of"
  <2> SUFFICES ASSUME e[3] = "example_of" PROVE Normal(e) # e
    OBVIOUS
  <2>1. Normal(e)[3] = "is_a"
    BY DEF Normal, Canonical
  <2> QED
    BY <2>1
<1> HIDE DEF k
<1>3. Repointed(e, l, w) = Canonical(k)
  BY DEF Repointed, k
<1> QED
  BY <1>1, <1>2, <1>3, CanonicalKey

\* Normalizing gives an edge, and neither makes nor removes a loop.
LEMMA NormalKey ==
    ASSUME NEW e \in Edge
    PROVE  Normal(e) \in Edge /\ (IsLoop(Normal(e)) <=> IsLoop(e))
<1>1. CASE e[3] = "example_of"
  <2> DEFINE k == <<e[1], e[2], "is_a">>
  <2>1. k \in Edge /\ (IsLoop(k) <=> IsLoop(e))
    BY EdgeShape, EdgeMade DEF IsLoop
  <2>2. Normal(e) = Canonical(k)
    BY <1>1 DEF Normal
  <2> QED
    BY <2>1, <2>2, CanonicalKey
<1>2. CASE e[3] # "example_of"
  BY <1>2, CanonicalKey DEF Normal
<1> QED
  BY <1>1, <1>2

\* What is served after a change has no keys but the old ones and those of
\* the evidence.
LEMMA ServedKeys ==
    ASSUME NEW ed, NEW ev, NEW K, NEW staging
    PROVE  DOMAIN Served(ed, ev, K, staging) \subseteq DOMAIN ed \cup Keys(ev)
<1>1. DOMAIN Recomputed(ed, ev, K) \subseteq DOMAIN ed \cup Keys(ev)
  BY DEF Recomputed
<1> QED
  BY <1>1 DEF Served

-----------------------------------------------------------------------------
(* Steps.  Each lemma gives what its action leaves: rows that come from     *)
(* marked chunks, and keys that are fine.                                  *)

FineRows == \A r \in evidence' : r \in Chunk \X Edge /\ r[1] \in marked'
FineKeys == \A k \in All' : Fine(k)

\* The keys before a step are fine.
LEMMA OldKeys == Inv => \A k \in All : Fine(k)
BY DEF Inv, Fine, Normalized, All

\* The evidence before a step is of marked chunks and known keys.
LEMMA OldRows == Inv => \A r \in evidence : r \in Chunk \X Edge /\ r[1] \in marked /\ r[2] \in All
BY DEF Inv, Rows, EvidenceMarked, All, Keys

\* The row a store may add.
Added(c, e) == {<<c, k>> : k \in {Canonical(x) : x \in {y \in Asserted : y = e /\ ~IsLoop(y)}}}

\* What a store adds is of its own chunk and fine.
LEMMA AddedKey ==
    ASSUME NEW c \in Chunk, NEW e, NEW r \in Added(c, e)
    PROVE  r \in Chunk \X Edge /\ r[1] = c /\ Fine(r[2])
<1>1. PICK x \in Asserted : ~IsLoop(x) /\ r = <<c, Canonical(x)>>
  BY DEF Added
<1>2. x \in Concept \X Concept \X Relation
  BY RelationAssumption
<1>3. x \in Edge /\ x[3] # "example_of"
  BY <1>2 DEF Edge, Relation
<1> QED
  BY <1>1, <1>3, CanonicalKey DEF Fine

\* What a store makes of evidence and edges.
LEMMA StoredOK ==
    ASSUME Inv, NEW c \in Chunk, NEW e, e \in Asserted \/ e = None, NEW clear, NEW mat
    PROVE  LET s == Stored(c, e, clear, mat)
           IN  /\ s.ev \subseteq evidence \cup Added(c, e)
               /\ DOMAIN s.ed \subseteq All \cup Keys(Added(c, e))
               /\ rebuild /\ ~mat => s.ed = edges
<1> DEFINE t == IF clear THEN Cleared(c) ELSE [ev |-> evidence, ed |-> edges]
           k == Canonical(e)
           ev == t.ev \cup {<<c, k>>}
<1>1. t.ev \subseteq evidence /\ DOMAIN t.ed \subseteq All /\ (rebuild => t.ed = edges)
  <2>1. CASE clear
    <3> DEFINE left == {r \in evidence : r[1] # c}
               K == {r[2] : r \in evidence \ left}
    <3>1. Cleared(c).ev = left /\ Cleared(c).ed = Served(edges, left, K, rebuild)
      BY DEF Cleared
    <3>2. DOMAIN Served(edges, left, K, rebuild) \subseteq DOMAIN edges \cup Keys(left)
      BY ServedKeys
    <3>3. Keys(left) \subseteq Keys(evidence)
      BY DEF Keys
    <3>4. rebuild => Served(edges, left, K, rebuild) = edges
      BY DEF Served
    <3> QED
      BY <2>1, <3>1, <3>2, <3>3, <3>4 DEF All
  <2>2. CASE ~clear
    BY <2>2 DEF All
  <2> QED
    BY <2>1, <2>2
<1>2. CASE e = None \/ ~Allowed(t.ev, t.ed, e)
  <2>1. Stored(c, e, clear, mat) = t
    BY <1>2 DEF Stored
  <2> QED
    BY <2>1, <1>1
<1>3. CASE e # None /\ Allowed(t.ev, t.ed, e)
  <2>1. Stored(c, e, clear, mat) = [ev |-> ev, ed |-> Served(t.ed, ev, {k}, ~mat)]
    BY <1>3 DEF Stored
  <2>2. e \in Asserted /\ ~IsLoop(e)
    BY <1>3 DEF Allowed, IsLoop
  <2>3. <<c, k>> \in Added(c, e)
    BY <2>2 DEF Added
  <2>4. ev \subseteq evidence \cup Added(c, e)
    BY <1>1, <2>3
  <2>5. DOMAIN Served(t.ed, ev, {k}, ~mat) \subseteq DOMAIN t.ed \cup Keys(ev)
    BY ServedKeys
  <2>6. Keys(ev) \subseteq All \cup Keys(Added(c, e))
    BY <2>4 DEF Keys, All
  <2>7. ~mat => Served(t.ed, ev, {k}, ~mat) = t.ed
    BY DEF Served
  <2> HIDE DEF t, k, ev
  <2>8. DOMAIN Served(t.ed, ev, {k}, ~mat) \subseteq All \cup Keys(Added(c, e))
    BY <1>1, <2>5, <2>6
  <2>9. rebuild /\ ~mat => Served(t.ed, ev, {k}, ~mat) = edges
    BY <1>1, <2>7
  <2> QED
    BY <2>1, <2>4, <2>8, <2>9
<1> QED
  BY <1>2, <1>3

\* A store keeps rows and keys fine, and serves nothing new in a rebuild.
LEMMA StoreOK ==
    ASSUME Inv, NEW c \in Chunk, NEW e, e \in Asserted \/ e = None, NEW clear, NEW mat,
           NEW latest, StoreTransaction(c, e, clear, mat, latest)
    PROVE  FineRows /\ FineKeys /\ (rebuild /\ ~mat => edges' = edges)
<1> DEFINE s == Stored(c, e, clear, mat)
<1>1. evidence' = s.ev /\ edges' = s.ed /\ marked' = marked \cup {c}
  BY DEF StoreTransaction
<1> HIDE DEF s
<1>2. /\ s.ev \subseteq evidence \cup Added(c, e)
      /\ DOMAIN s.ed \subseteq All \cup Keys(Added(c, e))
      /\ rebuild /\ ~mat => s.ed = edges
  BY StoredOK DEF s
<1>3. FineRows
  BY <1>1, <1>2, OldRows, AddedKey DEF FineRows
<1>4. All' \subseteq All \cup Keys(Added(c, e))
  BY <1>1, <1>2 DEF All, Keys
<1>5. \A k \in Keys(Added(c, e)) : Fine(k)
  BY AddedKey DEF Keys
<1>6. FineKeys
  BY <1>4, <1>5, OldKeys DEF FineKeys
<1> QED
  BY <1>1, <1>2, <1>3, <1>6

\* Evidence that is served anew adds no key.
LEMMA ServedOK ==
    ASSUME Inv, NEW K, edges' = Served(edges, evidence', K, rebuild),
           Keys(evidence') \subseteq All
    PROVE  FineKeys /\ (rebuild => edges' = edges)
<1>1. DOMAIN edges' \subseteq DOMAIN edges \cup Keys(evidence')
  BY ServedKeys
<1>2. All' \subseteq All
  BY <1>1 DEF All, Keys
<1>3. rebuild => edges' = edges
  BY DEF Served
<1> QED
  BY <1>2, <1>3, OldKeys DEF FineKeys

\* A realignment keeps rows and keys fine, and serves nothing new in a rebuild.
LEMMA RealignOK ==
    ASSUME Inv, NEW f \in [Chunk -> Chunk \cup {None}], Realign(f)
    PROVE  FineRows /\ FineKeys /\ (rebuild => edges' = edges)
<1>1. \A r \in evidence' : \E c \in Chunk, e \in Keys(evidence) :
          <<c, e>> \in evidence /\ f[c] # None /\ r = <<f[c], e>>
  <2> SUFFICES ASSUME NEW r \in evidence'
               PROVE  \E c \in Chunk, e \in Keys(evidence) :
                          <<c, e>> \in evidence /\ f[c] # None /\ r = <<f[c], e>>
    OBVIOUS
  <2> DEFINE from(e) == {c \in Chunk : <<c, e>> \in evidence}
  <2>1. evidence' = UNION {{<<d, e>> : d \in Relocated(f, from(e))} : e \in Keys(evidence)}
    BY DEF Realign
  <2>2. PICK e \in Keys(evidence) : r \in {<<d, e>> : d \in Relocated(f, from(e))}
    BY <2>1
  <2>3. PICK d \in Relocated(f, from(e)) : r = <<d, e>>
    BY <2>2
  <2>4. PICK c \in from(e) : d = f[c] /\ d # None
    BY <2>3 DEF Relocated
  <2> QED
    BY <2>3, <2>4
<1>2. FineRows
  <2> SUFFICES ASSUME NEW r \in evidence' PROVE r \in Chunk \X Edge /\ r[1] \in marked'
    BY DEF FineRows
  <2>1. PICK c \in Chunk, e \in Keys(evidence) :
            <<c, e>> \in evidence /\ f[c] # None /\ r = <<f[c], e>>
    BY <1>1
  <2>2. c \in marked /\ e \in Edge
    BY <2>1, OldRows
  <2>3. f[c] \in Chunk /\ f[c] \in Relocated(f, marked)
    BY <2>1, <2>2 DEF Relocated
  <2> QED
    BY <2>1, <2>2, <2>3 DEF Realign
<1>3. Keys(evidence') \subseteq All
  <2> SUFFICES ASSUME NEW r \in evidence' PROVE r[2] \in Keys(evidence)
    BY DEF Keys, All
  <2>1. PICK c \in Chunk, e \in Keys(evidence) : r = <<f[c], e>>
    BY <1>1
  <2> QED
    BY <2>1
<1>4. edges' = Served(edges, evidence', Keys(evidence), rebuild)
  BY DEF Realign
<1> QED
  BY <1>2, <1>3, <1>4, ServedOK

\* A purge keeps rows and keys fine, and serves nothing new in a rebuild.
LEMMA PurgeOK ==
    ASSUME Inv, NEW K, PurgeTransaction(K)
    PROVE  FineRows /\ FineKeys /\ (rebuild => edges' = edges)
<1>1. evidence' = {} /\ edges' = Served(edges, evidence', K, rebuild)
  BY DEF PurgeTransaction
<1>2. Keys(evidence') \subseteq All
  BY <1>1 DEF Keys
<1> QED
  BY <1>1, <1>2, ServedOK DEF FineRows

\* The end of a rebuild keeps rows and keys fine.
LEMMA FinalizeOK ==
    ASSUME Inv, Finalize
    PROVE  FineRows /\ FineKeys
<1>1. All' = Keys(evidence) /\ evidence' = evidence /\ marked' = marked
  BY DEF Finalize, All, Keys
<1> QED
  BY <1>1, OldKeys, OldRows DEF FineRows, FineKeys, All

\* A database whose keys are not yet regular has its edges renamed only.
LEMMA RekeyOK ==
    ASSUME Inv, NEW e, Rekey(e)
    PROVE  FineRows /\ FineKeys
<1>1. e \in DOMAIN edges /\ ~Normalized /\ evidence' = evidence /\ marked' = marked
  BY DEF Rekey
<1>2. DOMAIN edges' = (DOMAIN edges \ {e}) \cup {Normal(e)}
  BY DEF Rekey
<1>3. e \in Edge /\ ~IsLoop(e)
  BY <1>1 DEF Inv, All
<1>4. Fine(Normal(e))
  BY <1>1, <1>3, NormalKey DEF Fine
<1>5. All' \subseteq All \cup {Normal(e)}
  BY <1>1, <1>2 DEF All, Keys
<1> QED
  BY <1>1, <1>4, <1>5, OldKeys, OldRows DEF FineRows, FineKeys

Good(s) ==
    /\ \A r \in s.ev : r \in Chunk \X Edge /\ r[1] \in marked /\ Fine(r[2])
    /\ \A k \in DOMAIN s.ed : Fine(k)

\* Merging one concept into another keeps a good store good.
LEMMA MergedOK ==
    ASSUME NEW s, Good(s), NEW l \in Concept, NEW w \in Concept
    PROVE  Good(MergedOne(s, l, w))
<1> DEFINE ev == MergedRows(s.ev, l, w)
           K == WithoutLoops({Repointed(r[2], l, w) : r \in {q \in s.ev : Touches(q[2], {l})}})
           ed == MergedEdges(s.ed, l, w)
           m == MergedOne(s, l, w)
<1>1. m.ev = ev /\ m.ed = Served(ed, ev, K, rebuild)
  BY DEF MergedOne
<1>2. ASSUME NEW e, Fine(e), ~IsLoop(Repointed(e, l, w))
      PROVE  Fine(Repointed(e, l, w))
  BY <1>2, RepointedKey DEF Fine
<1>3. \A r \in ev : r \in Chunk \X Edge /\ r[1] \in marked /\ Fine(r[2])
  <2> SUFFICES ASSUME NEW r \in ev PROVE r \in Chunk \X Edge /\ r[1] \in marked /\ Fine(r[2])
    OBVIOUS
  <2>1. PICK q \in s.ev : r = <<q[1], Repointed(q[2], l, w)>> /\ ~IsLoop(r[2])
    BY DEF MergedRows
  <2>2. q \in Chunk \X Edge /\ q[1] \in marked /\ Fine(q[2])
    BY DEF Good
  <2>3. Fine(Repointed(q[2], l, w))
    BY <2>1, <2>2, <1>2
  <2> QED
    BY <2>1, <2>2, <2>3 DEF Fine
<1>4. \A k \in DOMAIN ed : Fine(k)
  <2> SUFFICES ASSUME NEW k \in DOMAIN ed PROVE Fine(k)
    OBVIOUS
  <2>1. DOMAIN ed = WithoutLoops({Repointed(e, l, w) : e \in DOMAIN s.ed})
    BY DEF MergedEdges
  <2>2. PICK e \in DOMAIN s.ed : k = Repointed(e, l, w) /\ ~IsLoop(k)
    BY <2>1 DEF WithoutLoops
  <2> QED
    BY <2>2, <1>2 DEF Good
<1> HIDE DEF ev, ed, K
<1>5. DOMAIN Served(ed, ev, K, rebuild) \subseteq DOMAIN ed \cup Keys(ev)
  BY ServedKeys
<1>6. \A k \in Keys(ev) : Fine(k)
  BY <1>3 DEF Keys
<1> QED
  BY <1>1, <1>3, <1>4, <1>5, <1>6 DEF Good

\* A merge keeps rows and keys fine.
LEMMA MergeOK ==
    ASSUME Inv, NEW w \in Concept, NEW l1 \in Concept, NEW l2 \in Concept, Merge(w, l1, l2)
    PROVE  FineRows /\ FineKeys
<1> DEFINE now == [ev |-> evidence, ed |-> edges]
           one == MergedOne(now, l1, w)
           both == IF l1 = l2 THEN one ELSE MergedOne(one, l2, w)
<1>1. evidence' = both.ev /\ edges' = both.ed /\ marked' = marked
  BY DEF Merge
<1>2. Good(now)
  BY OldRows, OldKeys DEF Good, All
<1> HIDE DEF now
<1>3. Good(one)
  BY <1>2, MergedOK
<1> HIDE DEF one
<1>4. Good(both)
  BY <1>3, MergedOK
<1> HIDE DEF both
<1>5. (\A r \in evidence' : r \in Chunk \X Edge /\ r[1] \in marked' /\ Fine(r[2]))
      /\ \A k \in DOMAIN edges' : Fine(k)
  BY <1>1, <1>4 DEF Good
<1> QED
  BY <1>5 DEF FineRows, FineKeys, All, Keys

-----------------------------------------------------------------------------
(* The invariant and the theorems.                                         *)

\* What every step does, of which the properties are parts.
Step ==
    /\ FineRows /\ FineKeys
    /\ rebuild /\ rebuild' /\ ~raced' => edges' = edges \/ merges' # merges
    /\ rebuild' => Normalized
    /\ HeldBack'
    /\ job' # None => job'.chunk \in Chunk /\ job'.edge \in Asserted
    /\ merges' \in Nat

\* What is left alone stays fine.
LEMMA UnchangedStep ==
    ASSUME Inv, UNCHANGED <<evidence, edges, marked>>
    PROVE  FineRows /\ FineKeys
BY OldRows, OldKeys DEF FineRows, FineKeys, All, Keys

\* Every action is a step that keeps rows and keys fine.
LEMMA NextStep ==
    ASSUME Inv, Next
    PROVE  Step
<1>1. ASSUME NEW c \in Chunk, NEW e \in Asserted \cup {None}, Store(c, e) PROVE Step
  <2>1. StoreTransaction(c, e, c \notin current, ~rebuild, TRUE) /\ UNCHANGED job /\ Normalized
    BY <1>1 DEF Store
  <2>2. FineRows /\ FineKeys /\ (rebuild => edges' = edges)
    BY <2>1, StoreOK
  <2> QED
    BY <2>1, <2>2 DEF Inv, Step, HeldBack, StoreTransaction
<1>2. ASSUME NEW c \in Chunk, NEW e \in Overtaken, StoreReads(c, e) PROVE Step
  <2>1. FineRows /\ FineKeys
    BY <1>2, UnchangedStep DEF StoreReads
  <2>2. job'.chunk \in Chunk /\ job'.edge \in Asserted /\ (job'.materialize <=> ~rebuild)
    BY <1>2, RelationAssumption DEF StoreReads
  <2> QED
    BY <1>2, <2>1, <2>2 DEF Inv, Step, HeldBack, StoreReads
<1>3. CASE StoreLate
  <2>1. PICK latest \in BOOLEAN :
            StoreTransaction(job.chunk, job.edge, job.clear, job.materialize, latest)
    BY <1>3 DEF StoreLate
  <2>5. job # None /\ job' = None /\ job.chunk \in Chunk /\ job.edge \in Asserted
    BY <1>3 DEF StoreLate, Inv
  <2>2. FineRows /\ FineKeys /\ (rebuild /\ ~job.materialize => edges' = edges)
    BY <2>1, <2>5, StoreOK
  <2>3. UNCHANGED <<rebuild, raced, merges>>
    BY <2>1 DEF StoreTransaction
  <2>4. rebuild /\ ~raced => ~job.materialize
    BY <2>5 DEF Inv, HeldBack
  <2> QED
    BY <2>2, <2>3, <2>4, <2>5 DEF Inv, Step, HeldBack
<1>4. ASSUME NEW f \in [Chunk -> Chunk \cup {None}], Realign(f) PROVE Step
  <2>1. FineRows /\ FineKeys /\ (rebuild => edges' = edges)
    BY <1>4, RealignOK
  <2> QED
    BY <1>4, <2>1 DEF Inv, Step, HeldBack, Realign
<1>5. CASE Purge
  <2>1. FineRows /\ FineKeys /\ (rebuild => edges' = edges)
    BY <1>5, PurgeOK DEF Purge
  <2> QED
    BY <1>5, <2>1 DEF Inv, Step, HeldBack, Purge, PurgeTransaction
<1>6. CASE PurgeReads
  <2>1. FineRows /\ FineKeys
    BY <1>6, UnchangedStep DEF PurgeReads
  <2> QED
    BY <1>6, <2>1 DEF Inv, Step, HeldBack, PurgeReads
<1>7. CASE PurgeLate
  <2>1. FineRows /\ FineKeys /\ (rebuild => edges' = edges)
    BY <1>7, PurgeOK DEF PurgeLate
  <2> QED
    BY <1>7, <2>1 DEF Inv, Step, HeldBack, PurgeLate, PurgeTransaction
<1>8. CASE Reset
  <2>1. evidence' = {} /\ edges' = edges
    BY <1>8 DEF Reset
  <2>2. FineRows /\ FineKeys
    BY <2>1, OldKeys DEF FineRows, FineKeys, All, Keys
  <2> QED
    BY <1>8, <2>2 DEF Inv, Step, HeldBack, Reset
<1>9. CASE FinalizeScan
  <2>1. FineRows /\ FineKeys
    BY <1>9, UnchangedStep DEF FinalizeScan
  <2> QED
    BY <1>9, <2>1 DEF Inv, Step, HeldBack, FinalizeScan
<1>10. CASE Finalize
  <2>1. FineRows /\ FineKeys
    BY <1>10, FinalizeOK
  <2> QED
    BY <1>10, <2>1 DEF Inv, Step, HeldBack, Finalize
<1>11. ASSUME NEW w \in Concept, NEW l1 \in Concept, NEW l2 \in Concept, Merge(w, l1, l2)
       PROVE  Step
  <2>1. FineRows /\ FineKeys
    BY <1>11, MergeOK
  <2>2. merges' = merges + 1 /\ merges \in Nat /\ UNCHANGED <<rebuild, job, raced>>
    BY <1>11 DEF Merge, Inv
  <2>3. merges' \in Nat /\ merges' # merges
    BY <2>2
  <2> QED
    BY <2>1, <2>2, <2>3 DEF Inv, Step, HeldBack
<1>12. ASSUME NEW e \in LegacyEdge, Rekey(e) PROVE Step
  <2>1. FineRows /\ FineKeys
    BY <1>12, RekeyOK
  <2>2. ~rebuild
    BY <1>12 DEF Inv, Rekey
  <2> QED
    BY <1>12, <2>1, <2>2 DEF Inv, Step, HeldBack, Rekey
<1>13. CASE Retitle
  <2>1. FineRows /\ FineKeys
    BY <1>13, UnchangedStep DEF Retitle
  <2> QED
    BY <1>13, <2>1 DEF Inv, Step, HeldBack, Retitle
<1> QED
  BY <1>1, <1>2, <1>3, <1>4, <1>5, <1>6, <1>7, <1>8, <1>9, <1>10, <1>11, <1>12, <1>13 DEF Next

\* The first state satisfies the invariant.
LEMMA InitInv == Init => Inv
<1> SUFFICES ASSUME Init PROVE Inv
  OBVIOUS
<1>1. DOMAIN edges \subseteq LegacyEdge /\ evidence = {} /\ rebuild = FALSE /\ job = None /\ merges = 0
  BY DEF Init
<1>2. \A k \in All : k \in Edge /\ ~IsLoop(k)
  BY <1>1, RelationAssumption DEF All, Keys, IsLoop
<1> QED
  BY <1>1, <1>2 DEF Inv, Rows, EvidenceMarked, HeldBack

\* Once normalized, a step leaves no key that is a loop.
LEMMA RegularStep == Inv /\ Step /\ Normalized => Normalized' /\ \A k \in All' : ~IsLoop(k)
BY DEF Step, FineKeys, Fine, Normalized, All

\* Every step keeps the invariant.
LEMMA InvStep == Inv /\ [Next]_vars => Inv'
<1>1. Inv /\ Step => Inv'
  <2> SUFFICES ASSUME Inv, Step PROVE Inv'
    OBVIOUS
  <2>1. Rows' /\ EvidenceMarked'
    BY DEF Step, FineRows, Rows, EvidenceMarked
  <2>2. \A k \in All' : k \in Edge /\ ~IsLoop(k)
    BY DEF Step, FineKeys, Fine
  <2>3. rebuild' => Normalized'
    BY RegularStep DEF Step
  <2> QED
    BY <2>1, <2>2, <2>3 DEF Inv, Step
<1>2. Inv /\ UNCHANGED vars => Inv'
  BY DEF Inv, Rows, EvidenceMarked, HeldBack, Normalized, All, Keys, vars
<1> QED
  BY <1>1, <1>2, NextStep

\* The invariant always holds.
LEMMA Invariant == Spec => []Inv
BY InitInv, InvStep, PTL DEF Spec

\* Evidence stands only at slots with an extraction marker, be it for an earlier
\* version of the slot, whatever is moved, purged, stored late, merged or reset:
\* for any graph and index.
THEOREM EvidenceHasMarker == Spec => []EvidenceMarked
<1>1. Inv => EvidenceMarked
  BY DEF Inv
<1> QED
  BY <1>1, Invariant, PTL

\* No sequence of stores, merges and migrations of keys turns a normalized
\* graph into one with loops or relations stored in the wrong direction.
THEOREM RegularGraph == Spec => RegularKept
<1>1. Inv /\ [Next]_vars =>
        [Normalized => Normalized' /\ \A e \in (DOMAIN edges \cup Keys(evidence))' : ~IsLoop(e)]_vars
  BY NextStep, RegularStep DEF All
<1> QED
  BY <1>1, Invariant, PTL DEF Spec, RegularKept

\* Unless a store was overtaken by reset-evidence, no step of a rebuild but a
\* merge changes the edges that are served.
THEOREM ServiceUnchanged == Spec => ServiceKept
<1>1. Inv /\ [Next]_vars =>
        [rebuild /\ rebuild' /\ ~raced' => edges' = edges \/ merges' # merges]_vars
  BY NextStep DEF Step
<1> QED
  BY <1>1, Invariant, PTL DEF Spec, ServiceKept

-----------------------------------------------------------------------------
(* Cycles.                                                                 *)

Closed(E, S) == \A e \in E : e[3] = "is_a" /\ e[1] \in S => e[2] \in S

\* The concepts on edges that can form a cycle.
Bounded(E) == \A e \in E : e[3] = "is_a" => e[1] \in Concept /\ e[2] \in Concept

\* Reaching over is_a edges is transitive, ...
LEMMA ReachesTransitive ==
    ASSUME NEW E, NEW a, NEW b, NEW c, Reaches(E, a, b), Reaches(E, b, c)
    PROVE  Reaches(E, a, c)
BY DEF Reaches

\* ... reflexive, ...
LEMMA ReachesSelf ==
    ASSUME NEW E, NEW a
    PROVE  Reaches(E, a, a)
BY DEF Reaches

\* ... and goes on over an edge.
LEMMA ReachesEdge ==
    ASSUME NEW E, NEW a, NEW e \in E, e[3] = "is_a", Reaches(E, a, e[1])
    PROVE  Reaches(E, a, e[2])
BY DEF Reaches

\* A closed set that holds a but not b shows that a does not reach b.
LEMMA Separated ==
    ASSUME NEW E, NEW S \in SUBSET Concept, Closed(E, S), NEW a \in S, NEW b, b \notin S
    PROVE  ~Reaches(E, a, b)
BY DEF Reaches, Closed

\* Fewer edges close no more cycles.
LEMMA FewerEdges ==
    ASSUME NEW E, NEW F, ~Cyclic(F), \A e \in E : e[3] = "is_a" => e \in F
    PROVE  ~Cyclic(E)
<1> SUFFICES ASSUME NEW e \in E, e[3] = "is_a", Reaches(E, e[2], e[1])
             PROVE  FALSE
  BY DEF Cyclic
<1>1. Reaches(F, e[2], e[1])
  BY DEF Reaches
<1> QED
  BY <1>1 DEF Cyclic

\* check_edge: an edge whose end does not reach its start closes no cycle.
LEMMA EdgeAdded ==
    ASSUME NEW E, NEW k, Bounded(E \cup {k}), ~Cyclic(E),
           k[3] = "is_a" => ~Reaches(E, k[2], k[1])
    PROVE  ~Cyclic(E \cup {k})
<1> SUFFICES ASSUME NEW f \in E \cup {k}, f[3] = "is_a", Reaches(E \cup {k}, f[2], f[1])
             PROVE  FALSE
  BY DEF Cyclic
<1> DEFINE F == E \cup {k}
           after(a) == {x \in Concept : Reaches(E, a, x)}
<1>1. CASE k[3] # "is_a"
  BY <1>1 DEF Cyclic, Reaches
<1>2. CASE k[3] = "is_a"
  <2>1. \A a : Closed(E, after(a))
    <3> SUFFICES ASSUME NEW a, NEW e \in E, e[3] = "is_a", e[1] \in after(a)
                 PROVE  e[2] \in after(a)
      BY DEF Closed
    <3> QED
      BY ReachesEdge DEF Bounded
  <2>2. \A e \in F : e[3] = "is_a" => e[1] \in Concept /\ e[2] \in Concept
    BY DEF Bounded
  <2>3. CASE f = k
    <3>1. k[1] \notin after(k[2]) /\ k[2] \in after(k[2])
      BY <1>2, <2>2, ReachesSelf
    <3>2. Closed(F, after(k[2]))
      BY <2>1, <3>1 DEF Closed
    <3> QED
      BY <2>3, <3>1, <3>2, Separated
  <2>4. CASE f \in E
    <3>1. ~Reaches(E, f[2], f[1])
      BY <2>4 DEF Cyclic
    <3>2. Reaches(E, f[2], k[1])
      <4> SUFFICES ASSUME ~Reaches(E, f[2], k[1]) PROVE FALSE
        OBVIOUS
      <4>1. Closed(F, after(f[2]))
        BY <2>1 DEF Closed
      <4>2. f[2] \in after(f[2]) /\ f[1] \notin after(f[2])
        BY <2>2, <3>1, ReachesSelf
      <4> QED
        BY <4>1, <4>2, Separated
    <3>3. Reaches(E, k[2], f[1])
      <4> SUFFICES ASSUME ~Reaches(E, k[2], f[1]) PROVE FALSE
        OBVIOUS
      <4> DEFINE S == after(f[2]) \cup after(k[2])
      <4>1. Closed(F, S)
        BY <1>2, <2>1, <2>2, ReachesSelf DEF Closed
      <4>2. f[2] \in S /\ f[1] \notin S
        BY <2>2, <3>1, ReachesSelf
      <4>3. S \in SUBSET Concept
        OBVIOUS
      <4> HIDE DEF S
      <4> QED
        BY <4>1, <4>2, <4>3, Separated
    <3>4. Reaches(E, k[2], f[2])
      BY <2>4, <3>3, ReachesEdge
    <3> QED
      BY <1>2, <3>2, <3>4, ReachesTransitive
  <2> QED
    BY <2>3, <2>4
<1> QED
  BY <1>1, <1>2

\* _check_merge: if no edge that a merge changes closes a cycle, then no edge
\* at all does.
LEMMA MergeAcyclic ==
    ASSUME NEW E, NEW L, NEW w \in Concept, Bounded(E), ~Cyclic(E), MergeAllowed(E, L, w)
    PROVE  ~Cyclic(WithoutLoops({Replaced(e, L, w) : e \in E}))
<1> DEFINE M == WithoutLoops({Replaced(e, L, w) : e \in E})
           isA(e) == e[3] = "is_a"
<1>1. \A m \in M : \E e \in E : m = Replaced(e, L, w) /\ ~IsLoop(m)
  BY DEF WithoutLoops
<1>2. \A m \in M : isA(m) => m[1] \in Concept /\ m[2] \in Concept
  <2> SUFFICES ASSUME NEW m \in M, isA(m) PROVE m[1] \in Concept /\ m[2] \in Concept
    OBVIOUS
  <2>1. PICK e \in E : m = Replaced(e, L, w)
    BY <1>1
  <2>2. e[3] = "is_a"
    BY <2>1 DEF Replaced
  <2> QED
    BY <2>1, <2>2 DEF Replaced, Bounded
<1>3. ASSUME NEW e \in E, Touches(e, L), isA(e), NEW m \in M, m = Replaced(e, L, w)
      PROVE  ~Reaches(M, m[2], m[1])
  BY <1>1, <1>3 DEF MergeAllowed
<1>4. ASSUME NEW e \in E, ~Touches(e, L), isA(e), NEW m, m = Replaced(e, L, w)
      PROVE  m[1] = e[1] /\ m[2] = e[2]
  BY <1>4 DEF Touches, Replaced
<1> HIDE DEF M
<1> SUFFICES ASSUME NEW m \in M, isA(m), Reaches(M, m[2], m[1])
             PROVE  FALSE
  BY DEF Cyclic, M
<1>5. PICK e \in E : m = Replaced(e, L, w)
  BY <1>1
<1>6. isA(e)
  BY <1>5 DEF Replaced
<1>7. ~Touches(e, L) /\ m[1] = e[1] /\ m[2] = e[2]
  BY <1>3, <1>4, <1>5, <1>6
<1>8. ~Reaches(E, m[2], m[1])
  BY <1>6, <1>7 DEF Cyclic
<1>9. PICK S \in SUBSET Concept : m[2] \in S /\ Closed(E, S) /\ m[1] \notin S
  BY <1>8 DEF Reaches, Closed
\* What m[2] reaches without a changed edge, or that does not lead back.
<1> DEFINE T == {x \in Concept : /\ Reaches(M, m[2], x)
                                 /\ x \in S \/ ~Reaches(M, x, m[1])}
<1>10. m[2] \in T /\ m[1] \notin T
  BY <1>2, <1>9, ReachesSelf
<1>11. Closed(M, T)
  <2> SUFFICES ASSUME NEW k \in M, isA(k), k[1] \in T
               PROVE  k[2] \in T
    BY DEF Closed
  <2>1. Reaches(M, m[2], k[2]) /\ k[2] \in Concept
    BY <1>2, ReachesEdge
  <2>2. CASE ~Reaches(M, k[1], m[1])
    <3>1. ~Reaches(M, k[2], m[1])
      BY <2>2, ReachesSelf, ReachesEdge, ReachesTransitive
    <3> QED
      BY <2>1, <3>1
  <2>3. CASE k[1] \in S /\ Reaches(M, k[2], m[1])
    <3>1. PICK d \in E : k = Replaced(d, L, w)
      BY <1>1
    <3>2. isA(d)
      BY <3>1 DEF Replaced
    <3>3. Reaches(M, k[2], k[1])
      <4>1. Reaches(M, k[2], m[2])
        BY <2>3, ReachesEdge
      <4> QED
        BY <4>1, ReachesTransitive
    <3>4. ~Touches(d, L) /\ k[1] = d[1] /\ k[2] = d[2]
      BY <1>3, <1>4, <3>1, <3>2, <3>3
    <3>5. k[2] \in S
      BY <1>9, <2>3, <3>2, <3>4 DEF Closed
    <3> QED
      BY <2>1, <3>5
  <2>4. CASE k[1] \in S /\ ~Reaches(M, k[2], m[1])
    BY <2>1, <2>4
  <2> QED
    BY <2>2, <2>3, <2>4
<1> QED
  BY <1>10, <1>11, Separated

-----------------------------------------------------------------------------
(* What is served is what the evidence says.                               *)

Counts(ev) == [e \in Keys(ev) |-> Count(ev, e)]

\* Rows s.ev and edges s.ed agree; exactly, if there is nothing else (x).
Agree(s, x) == Keys(s.ev) \subseteq DOMAIN s.ed /\ (x => s.ed = Counts(s.ev))

\* A count is a number, and not zero for a key that has evidence.
LEMMA CountNat ==
    ASSUME NEW ev, NEW e
    PROVE  /\ Count(ev, e) \in Nat
           /\ ev \subseteq Chunk \X Edge /\ e \in Keys(ev) => Count(ev, e) # 0
<1> DEFINE C == {c \in Chunk : <<c, e>> \in ev}
<1>1. IsFiniteSet(C) /\ C \subseteq Chunk
  BY ChunkAssumption, FS_Subset
<1>2. Cardinality(C) \in Nat /\ (Cardinality(C) = 0 <=> C = {})
  BY <1>1, FS_CardinalityType, FS_EmptySet
<1>3. ASSUME ev \subseteq Chunk \X Edge, e \in Keys(ev) PROVE C # {}
  <2>1. PICK r \in ev : r[2] = e
    BY <1>3 DEF Keys
  <2>2. r = <<r[1], e>> /\ r[1] \in Chunk
    BY <1>3, <2>1
  <2> QED
    BY <2>2
<1> QED
  BY <1>2, <1>3 DEF Count

\* Counting the keys K anew, when the others are already what they should be.
LEMMA RecomputedAgrees ==
    ASSUME NEW ed, NEW ev, NEW K, NEW x \in BOOLEAN, Keys(ev) \subseteq DOMAIN ed \cup K,
           x => \A e \in DOMAIN ed \ K : e \in Keys(ev) /\ ed[e] = Count(ev, e)
    PROVE  Agree([ev |-> ev, ed |-> Recomputed(ed, ev, K)], x)
<1> DEFINE new == Recomputed(ed, ev, K)
           s == [ev |-> ev, ed |-> new]
<1>1. new = [e \in (DOMAIN ed \ K) \cup (K \cap Keys(ev)) |->
                IF e \in K THEN Count(ev, e) ELSE ed[e]]
  BY DEF Recomputed
<1>2. DOMAIN new = (DOMAIN ed \ K) \cup (K \cap Keys(ev))
  BY <1>1
<1>3. Keys(ev) \subseteq DOMAIN new
  BY <1>2
<1>4. ASSUME x PROVE new = Counts(ev)
  <2>1. DOMAIN new = Keys(ev)
    BY <1>2, <1>3, <1>4
  <2>2. \A e \in Keys(ev) : new[e] = Count(ev, e)
    BY <1>1, <1>2, <1>3, <1>4
  <2>3. new = [e \in Keys(ev) |-> Count(ev, e)]
    BY <1>1, <2>1, <2>2
  <2> QED
    BY <2>3 DEF Counts
<1>5. s.ev = ev /\ s.ed = new
  OBVIOUS
<1> HIDE DEF new, s
<1>6. Agree(s, x)
  BY <1>3, <1>4, <1>5 DEF Agree
<1> QED
  BY <1>6 DEF s, new

\* The same after a change of the rows of the keys K and of no others.
LEMMA OthersAgree ==
    ASSUME NEW s, NEW x \in BOOLEAN, Agree(s, x), NEW ev, NEW K,
           \A r : r[2] \notin K => (r \in ev <=> r \in s.ev)
    PROVE  Agree([ev |-> ev, ed |-> Recomputed(s.ed, ev, K)], x)
<1>1. Keys(ev) \subseteq DOMAIN s.ed \cup K
  BY DEF Agree, Keys
<1>2. ASSUME x, NEW e \in DOMAIN s.ed \ K
      PROVE  e \in Keys(ev) /\ s.ed[e] = Count(ev, e)
  <2>1. s.ed = [k \in Keys(s.ev) |-> Count(s.ev, k)]
    BY <1>2 DEF Agree, Counts
  <2>2. e \in Keys(s.ev) /\ s.ed[e] = Count(s.ev, e)
    BY <1>2, <2>1
  <2>3. e \in Keys(ev)
    BY <1>2, <2>2 DEF Keys
  <2>4. \A c : <<c, e>>[2] = e
    OBVIOUS
  <2>5. \A c : <<c, e>> \in ev <=> <<c, e>> \in s.ev
    BY <1>2, <2>4
  <2>6. Count(ev, e) = Count(s.ev, e)
    BY <2>5 DEF Count
  <2> QED
    BY <2>2, <2>3, <2>6
<1> QED
  BY <1>1, <1>2, RecomputedAgrees

Now == [ev |-> evidence, ed |-> edges]

\* What a store leaves when nothing is being rebuilt: edges that agree with
\* the rows, and no cycle.
LEMMA ClearedAgrees ==
    ASSUME NEW c, ~rebuild, NEW x \in BOOLEAN, Agree(Now, x)
    PROVE  /\ Agree(Cleared(c), x)
           /\ DOMAIN Cleared(c).ed \subseteq DOMAIN edges
<1> DEFINE ev == {r \in evidence : r[1] # c}
           K == {r[2] : r \in evidence \ ev}
<1>1. Cleared(c) = [ev |-> ev, ed |-> Recomputed(edges, ev, K)]
  BY DEF Cleared, Served
<1>2. \A r : r[2] \notin K => (r \in ev <=> r \in evidence)
  OBVIOUS
<1>3. Now.ev = evidence /\ Now.ed = edges
  BY DEF Now
<1>4. Keys(ev) \subseteq DOMAIN edges
  BY <1>3 DEF Agree, Keys
<1> HIDE DEF ev, K
<1>5. Agree([ev |-> ev, ed |-> Recomputed(edges, ev, K)], x)
  BY <1>2, <1>3, OthersAgree
<1>6. DOMAIN Recomputed(edges, ev, K) \subseteq DOMAIN edges
  BY <1>4 DEF Recomputed
<1> QED
  BY <1>1, <1>5, <1>6

\* The canonical form keeps the relation, and an is_a edge as it is.
LEMMA CanonicalIsA ==
    ASSUME NEW e
    PROVE  Canonical(e)[3] = e[3] /\ (e[3] = "is_a" => Canonical(e) = e)
BY DEF Canonical

\* check_edge against a table of regular keys.
LEMMA AllowedAcyclic ==
    ASSUME NEW E, E \subseteq Edge, ~Cyclic(E), NEW e \in Edge,
           e[3] = "is_a" => ~Reaches(E, e[2], e[1])
    PROVE  ~Cyclic(E \cup {Canonical(e)})
<1> DEFINE k == Canonical(e)
<1>1. k \in Edge /\ (k[3] = "is_a" => ~Reaches(E, k[2], k[1]))
  BY CanonicalKey, CanonicalIsA
<1>2. Bounded(E \cup {k})
  BY <1>1, EdgeShape DEF Bounded
<1> HIDE DEF k
<1> QED
  BY <1>1, <1>2, EdgeAdded DEF k

\* What an extraction asserts are edges.
LEMMA AssertedEdge == Asserted \subseteq Edge
BY RelationAssumption DEF Edge, Relation

\* Outside a rebuild a store leaves the edges those of the evidence, without cycle.
LEMMA StoredAgrees ==
    ASSUME Inv, ~rebuild, NEW c \in Chunk, NEW e, e \in Asserted \/ e = None, NEW clear,
           NEW x \in BOOLEAN, Agree(Now, x), ~Cyclic(DOMAIN edges)
    PROVE  LET s == Stored(c, e, clear, TRUE)
           IN  Agree(s, x) /\ ~Cyclic(DOMAIN s.ed)
<1> DEFINE t == IF clear THEN Cleared(c) ELSE Now
           k == Canonical(e)
           ev == t.ev \cup {<<c, k>>}
           ed == Recomputed(t.ed, ev, {k})
<1>1. Agree(t, x) /\ DOMAIN t.ed \subseteq DOMAIN edges
  <2>1. Now.ed = edges
    BY DEF Now
  <2> QED
    BY <2>1, ClearedAgrees
<1>2. t = IF clear THEN Cleared(c) ELSE [ev |-> evidence, ed |-> edges]
  BY DEF Now
<1>3. DOMAIN t.ed \subseteq Edge /\ ~Cyclic(DOMAIN t.ed)
  <2>1. DOMAIN edges \subseteq Edge
    BY OldKeys DEF All, Fine
  <2>2. ~Cyclic(DOMAIN t.ed)
    BY <1>1, FewerEdges
  <2> QED
    BY <1>1, <2>1, <2>2
<1>4. CASE e = None \/ ~Allowed(t.ev, t.ed, e)
  <2>1. Stored(c, e, clear, TRUE) = t
    BY <1>2, <1>4 DEF Stored
  <2> QED
    BY <1>1, <1>3, <2>1
<1>5. CASE e # None /\ Allowed(t.ev, t.ed, e)
  <2>1. Stored(c, e, clear, TRUE) = [ev |-> ev, ed |-> ed]
    BY <1>2, <1>5 DEF Stored, Served
  <2>2. \A r : r[2] \notin {k} => (r \in ev <=> r \in t.ev)
    OBVIOUS
  <2>3. e[3] = "is_a" => ~Reaches(DOMAIN t.ed, e[2], e[1])
    BY <1>5 DEF Allowed, Table
  <2>4. e \in Edge
    BY <1>5, AssertedEdge
  <2>5. Keys(ev) \subseteq DOMAIN t.ed \cup {k}
    BY <1>1 DEF Agree, Keys
  <2> HIDE DEF t, ev
  <2>6. Agree([ev |-> ev, ed |-> ed], x)
    BY <1>1, <2>2, OthersAgree
  <2>7. DOMAIN ed \subseteq DOMAIN t.ed \cup {k}
    BY <2>5 DEF Recomputed
  <2>8. ~Cyclic(DOMAIN t.ed \cup {k})
    BY <1>3, <2>3, <2>4, AllowedAcyclic
  <2> HIDE DEF ed, k
  <2>9. ~Cyclic(DOMAIN ed)
    BY <2>7, <2>8, FewerEdges
  <2>10. [ev |-> ev, ed |-> ed].ed = ed
    OBVIOUS
  <2> QED
    BY <2>1, <2>6, <2>9, <2>10
<1> QED
  BY <1>4, <1>5

\* What a store stages in a rebuild has no cycle, wherever it materializes.
LEMMA StoredStaged ==
    ASSUME Inv, rebuild, NEW c \in Chunk, NEW e, e \in Asserted \/ e = None, NEW clear,
           NEW mat, ~Cyclic(Keys(evidence))
    PROVE  ~Cyclic(Keys(Stored(c, e, clear, mat).ev))
<1> DEFINE t == IF clear THEN Cleared(c) ELSE [ev |-> evidence, ed |-> edges]
           k == Canonical(e)
           ev == t.ev \cup {<<c, k>>}
<1>1. Keys(t.ev) \subseteq Keys(evidence)
  BY DEF Cleared, Keys
<1>2. Keys(t.ev) \subseteq Edge /\ ~Cyclic(Keys(t.ev))
  <2>1. Keys(evidence) \subseteq Edge
    BY OldKeys DEF All, Fine
  <2>2. ~Cyclic(Keys(t.ev))
    BY <1>1, FewerEdges
  <2> QED
    BY <1>1, <2>1, <2>2
<1>3. CASE e = None \/ ~Allowed(t.ev, t.ed, e)
  <2>1. Stored(c, e, clear, mat) = t
    BY <1>3 DEF Stored
  <2> QED
    BY <1>2, <2>1
<1>4. CASE e # None /\ Allowed(t.ev, t.ed, e)
  <2>1. Stored(c, e, clear, mat).ev = ev
    BY <1>4 DEF Stored
  <2>2. e[3] = "is_a" => ~Reaches(Keys(t.ev), e[2], e[1])
    BY <1>4 DEF Allowed, Table
  <2>3. e \in Edge
    BY <1>4, AssertedEdge
  <2>4. Keys(ev) \subseteq Keys(t.ev) \cup {k}
    BY DEF Keys
  <2> HIDE DEF t, ev
  <2>5. ~Cyclic(Keys(t.ev) \cup {k})
    BY <1>2, <2>2, <2>3, AllowedAcyclic
  <2> HIDE DEF k
  <2>6. ~Cyclic(Keys(ev))
    BY <2>4, <2>5, FewerEdges
  <2> QED
    BY <2>1, <2>6
<1> QED
  BY <1>3, <1>4

-----------------------------------------------------------------------------
(* Merges.                                                                 *)

\* A key that is its own normal form is its own canonical form.
LEMMA RegularCanonical ==
    ASSUME NEW e \in Edge, Normal(e) = e
    PROVE  e[3] # "example_of" /\ Canonical(e) = e
<1>1. e[3] # "example_of"
  <2> SUFFICES ASSUME e[3] = "example_of" PROVE Normal(e) # e
    OBVIOUS
  <2>1. Normal(e)[3] = "is_a"
    BY DEF Normal, Canonical
  <2> QED
    BY <2>1
<1> QED
  BY <1>1 DEF Normal

\* Repointing leaves an edge alone that does not touch the loser.
LEMMA Untouched ==
    ASSUME NEW e \in Edge, Normal(e) = e, NEW l, NEW w, ~Touches(e, {l})
    PROVE  Repointed(e, l, w) = e
<1>1. Replaced(e, {l}, w) = e
  BY EdgeShape DEF Replaced, Touches
<1> QED
  BY <1>1, RegularCanonical DEF Repointed

\* Where the keys of a merge of one loser come from.
LEMMA MergedKeys ==
    ASSUME NEW s, NEW l, NEW w
    PROVE  LET m == MergedOne(s, l, w)
           IN  /\ \A k \in Keys(m.ev) : \E d \in Keys(s.ev) : k = Repointed(d, l, w) /\ ~IsLoop(k)
               /\ \A k \in DOMAIN m.ed :
                     \/ \E d \in DOMAIN s.ed : k = Repointed(d, l, w) /\ ~IsLoop(k)
                     \/ ~rebuild /\ k \in Keys(m.ev)
<1> DEFINE ev == MergedRows(s.ev, l, w)
           K == WithoutLoops({Repointed(r[2], l, w) : r \in {q \in s.ev : Touches(q[2], {l})}})
           ed == MergedEdges(s.ed, l, w)
           m == MergedOne(s, l, w)
<1>1. m.ev = ev /\ m.ed = Served(ed, ev, K, rebuild)
  BY DEF MergedOne
<1>2. ASSUME NEW k \in Keys(ev)
      PROVE  \E d \in Keys(s.ev) : k = Repointed(d, l, w) /\ ~IsLoop(k)
  <2>1. PICK r \in ev : r[2] = k
    BY DEF Keys
  <2>2. PICK q \in s.ev : r = <<q[1], Repointed(q[2], l, w)>> /\ ~IsLoop(r[2])
    BY DEF MergedRows
  <2> QED
    BY <2>1, <2>2 DEF Keys
<1>3. \A k \in DOMAIN ed : \E d \in DOMAIN s.ed : k = Repointed(d, l, w) /\ ~IsLoop(k)
  <2>1. DOMAIN ed = WithoutLoops({Repointed(e, l, w) : e \in DOMAIN s.ed})
    BY DEF MergedEdges
  <2> QED
    BY <2>1 DEF WithoutLoops
<1> HIDE DEF ev, K, ed, m
<1>4. DOMAIN Served(ed, ev, K, rebuild) \subseteq
          IF rebuild THEN DOMAIN ed ELSE DOMAIN ed \cup Keys(ev)
  BY DEF Served, Recomputed
<1>5. ASSUME NEW k \in DOMAIN m.ed
      PROVE  \/ \E d \in DOMAIN s.ed : k = Repointed(d, l, w) /\ ~IsLoop(k)
             \/ ~rebuild /\ k \in Keys(m.ev)
  <2>1. k \in DOMAIN ed \/ (~rebuild /\ k \in Keys(ev))
    BY <1>1, <1>4
  <2> QED
    BY <1>1, <1>3, <2>1
<1>6. \A k \in Keys(m.ev) : \E d \in Keys(s.ev) : k = Repointed(d, l, w) /\ ~IsLoop(k)
  BY <1>1, <1>2
<1> QED
  BY <1>5, <1>6 DEF m

\* Edges that were exact are exact after a merge, although those that become
\* equal are added up first: these are counted anew.
LEMMA MergedAgrees ==
    ASSUME NEW s, Good(s), Normalized, ~rebuild, NEW x \in BOOLEAN, Agree(s, x),
           NEW l \in Concept, NEW w \in Concept
    PROVE  Agree(MergedOne(s, l, w), x)
<1> DEFINE to(e) == Repointed(e, l, w)
           ev == MergedRows(s.ev, l, w)
           K == WithoutLoops({to(r[2]) : r \in {q \in s.ev : Touches(q[2], {l})}})
           ed == MergedEdges(s.ed, l, w)
           moved(k) == {e \in DOMAIN s.ed : Touches(e, {l}) /\ to(e) = k}
<1>1. MergedOne(s, l, w) = [ev |-> ev, ed |-> Recomputed(ed, ev, K)]
  BY DEF MergedOne, Served
<1>2. ed = [k \in WithoutLoops({to(e) : e \in DOMAIN s.ed}) |->
               (IF k \in DOMAIN s.ed /\ ~Touches(k, {l}) THEN s.ed[k] ELSE 0)
                 + (IF moved(k) # {} THEN s.ed[CHOOSE e \in moved(k) : TRUE] ELSE 0)]
  BY DEF MergedEdges
<1>3. DOMAIN ed = WithoutLoops({to(e) : e \in DOMAIN s.ed})
  BY <1>2
<1>4. \A q \in s.ev : /\ q = <<q[1], q[2]>> /\ q[2] \in Edge /\ Normal(q[2]) = q[2]
                      /\ q[2] \in Keys(s.ev)
                      /\ Touches(q[2], {l}) /\ ~IsLoop(to(q[2])) => to(q[2]) \in K
                      /\ ~Touches(q[2], {l}) => to(q[2]) = q[2]
  <2> SUFFICES ASSUME NEW q \in s.ev
               PROVE  /\ q = <<q[1], q[2]>> /\ q[2] \in Edge /\ Normal(q[2]) = q[2]
                      /\ q[2] \in Keys(s.ev)
                      /\ Touches(q[2], {l}) /\ ~IsLoop(to(q[2])) => to(q[2]) \in K
                      /\ ~Touches(q[2], {l}) => to(q[2]) = q[2]
    OBVIOUS
  <2>1. q \in Chunk \X Edge /\ Fine(q[2])
    BY DEF Good
  <2>2. q = <<q[1], q[2]>> /\ q[2] \in Edge /\ Normal(q[2]) = q[2]
    BY <2>1 DEF Fine
  <2>3. q[2] \in Keys(s.ev)
    BY DEF Keys
  <2>4. Touches(q[2], {l}) /\ ~IsLoop(to(q[2])) => to(q[2]) \in K
    BY DEF WithoutLoops
  <2>5. ~Touches(q[2], {l}) => to(q[2]) = q[2]
    BY <2>2, Untouched
  <2> QED
    BY <2>2, <2>3, <2>4, <2>5
<1>5. \A r : r \in ev <=> \E q \in s.ev : r = <<q[1], to(q[2])>> /\ ~IsLoop(r[2])
  BY DEF MergedRows
<1>6. \A k \in Keys(ev) : \E q \in s.ev : k = to(q[2]) /\ ~IsLoop(k)
  BY <1>5 DEF Keys
<1>7. Keys(ev) \subseteq DOMAIN ed
  <2> SUFFICES ASSUME NEW k \in Keys(ev) PROVE k \in DOMAIN ed
    OBVIOUS
  <2>1. PICK q \in s.ev : k = to(q[2]) /\ ~IsLoop(k)
    BY <1>6
  <2>2. q[2] \in DOMAIN s.ed
    BY <1>4, <2>1 DEF Agree
  <2> QED
    BY <1>3, <2>1, <2>2 DEF WithoutLoops
<1> HIDE DEF ev, K, to, ed
<1>8. ASSUME x, NEW e \in DOMAIN ed \ K
      PROVE  e \in Keys(ev) /\ ed[e] = Count(ev, e)
  <2>1. s.ed = [k \in Keys(s.ev) |-> Count(s.ev, k)]
    BY <1>8 DEF Agree, Counts
  <2>2. DOMAIN s.ed = Keys(s.ev) /\ \A k \in Keys(s.ev) : s.ed[k] = Count(s.ev, k)
    BY <2>1
  <2>3. PICK d \in Keys(s.ev) : e = to(d) /\ ~IsLoop(e)
    BY <1>3, <2>2 DEF WithoutLoops
  <2>4. PICK q \in s.ev : q[2] = d
    BY DEF Keys
  <2>5. ~Touches(d, {l}) /\ d = e
    BY <1>4, <2>3, <2>4
  <2>6. <<q[1], e>> \in ev
    <3>1. <<q[1], e>>[2] = e
      OBVIOUS
    <3> QED
      BY <1>5, <2>3, <2>4, <2>5, <3>1
  <2>7. e \in Keys(ev)
    <3>1. <<q[1], e>>[2] = e
      OBVIOUS
    <3> QED
      BY <2>6, <3>1 DEF Keys
  <2>8. moved(e) = {}
    <3> SUFFICES ASSUME NEW y \in moved(e) PROVE FALSE
      OBVIOUS
    <3>1. y \in Keys(s.ev) /\ Touches(y, {l}) /\ to(y) = e
      BY <2>2
    <3>2. PICK r \in s.ev : r[2] = y
      BY <3>1 DEF Keys
    <3> QED
      BY <1>4, <2>3, <3>1, <3>2
  <2>9. ed[e] = Count(s.ev, e)
    <3>1. ed[e] = (IF e \in DOMAIN s.ed /\ ~Touches(e, {l}) THEN s.ed[e] ELSE 0)
                 + (IF moved(e) # {} THEN s.ed[CHOOSE y \in moved(e) : TRUE] ELSE 0)
      BY <1>2, <1>3
    <3>2. e \in DOMAIN s.ed /\ s.ed[e] = Count(s.ev, e)
      BY <2>2, <2>3, <2>5
    <3>3. ed[e] = s.ed[e] + 0
      BY <2>5, <2>8, <3>1, <3>2
    <3> QED
      BY <3>2, <3>3, CountNat
  <2>10. ASSUME NEW c PROVE <<c, e>> \in ev <=> <<c, e>> \in s.ev
    <3>1. <<c, e>>[1] = c /\ <<c, e>>[2] = e
      OBVIOUS
    <3>2. <<c, e>> \in s.ev => <<c, e>> \in ev
      BY <1>4, <1>5, <2>3, <2>5, <3>1
    <3>3. ASSUME <<c, e>> \in ev PROVE <<c, e>> \in s.ev
      <4>1. PICK r \in s.ev : <<c, e>> = <<r[1], to(r[2])>>
        BY <1>5, <3>3
      <4>2. c = r[1] /\ e = to(r[2])
        BY <4>1
      <4>3. to(r[2]) = r[2]
        BY <1>4, <2>3, <4>2
      <4> QED
        BY <1>4, <4>2, <4>3
    <3> QED
      BY <3>2, <3>3
  <2>11. Count(ev, e) = Count(s.ev, e)
    BY <2>10 DEF Count
  <2> QED
    BY <2>7, <2>9, <2>11
<1>9. Keys(ev) \subseteq DOMAIN ed \cup K
  BY <1>7
<1>10. Agree([ev |-> ev, ed |-> Recomputed(ed, ev, K)], x)
  BY <1>8, <1>9, RecomputedAgrees
<1> QED
  BY <1>1, <1>10

\* An acyclic relation redirected from one loser after the other.
LEMMA RepointedIsA ==
    ASSUME NEW d, NEW l, NEW w
    PROVE  /\ Repointed(d, l, w)[3] = d[3]
           /\ d[3] = "is_a" => Repointed(d, l, w) = Replaced(d, {l}, w)
<1>1. Replaced(d, {l}, w)[3] = d[3]
  BY DEF Replaced
<1> QED
  BY <1>1, CanonicalIsA DEF Repointed

\* Repointing one loser after the other is replacing both.
LEMMA TwoLosers ==
    ASSUME NEW d, NEW l1, NEW l2, NEW w, w # l2, d[3] = "is_a"
    PROVE  Repointed(Repointed(d, l1, w), l2, w) = Replaced(d, {l1, l2}, w)
<1> DEFINE one == Replaced(d, {l1}, w)
<1>1. one[1] = (IF d[1] = l1 THEN w ELSE d[1]) /\ one[2] = (IF d[2] = l1 THEN w ELSE d[2])
      /\ one[3] = "is_a"
  BY DEF Replaced
<1>2. Repointed(d, l1, w) = one
  BY RepointedIsA
<1> HIDE DEF one
<1>3. Repointed(one, l2, w) = Replaced(one, {l2}, w)
  BY <1>1, RepointedIsA
<1>4. Replaced(one, {l2}, w) = Replaced(d, {l1, l2}, w)
  BY <1>1 DEF Replaced
<1> QED
  BY <1>2, <1>3, <1>4

Both(w, l1, l2) ==
    LET one == MergedOne(Now, l1, w)
    IN  IF l1 = l2 THEN one ELSE MergedOne(one, l2, w)

Image(E, w, l1, l2) == WithoutLoops({Replaced(e, {l1, l2}, w) : e \in E})

\* The acyclic relations that a merge leaves are those that _check_merge
\* looked at.
LEMMA MergedIsA ==
    ASSUME NEW w, NEW l1, NEW l2, w \notin {l1, l2}
    PROVE  LET both == Both(w, l1, l2)
           IN  /\ \A k \in Keys(both.ev) :
                     k[3] = "is_a" => k \in Image(Keys(evidence), w, l1, l2)
               /\ \A k \in DOMAIN both.ed : k[3] = "is_a" =>
                     \/ k \in Image(DOMAIN edges, w, l1, l2)
                     \/ ~rebuild /\ k \in Image(Keys(evidence), w, l1, l2)
<1> DEFINE one == MergedOne(Now, l1, w)
           both == Both(w, l1, l2)
<1>1. Now.ev = evidence /\ Now.ed = edges
  BY DEF Now
<1>2. /\ \A k \in Keys(one.ev) : \E d \in Keys(evidence) : k = Repointed(d, l1, w) /\ ~IsLoop(k)
      /\ \A k \in DOMAIN one.ed :
            \/ \E d \in DOMAIN edges : k = Repointed(d, l1, w) /\ ~IsLoop(k)
            \/ ~rebuild /\ k \in Keys(one.ev)
  BY <1>1, MergedKeys
<1>3. CASE l1 = l2
  <2>1. both = one /\ {l1, l2} = {l1}
    BY <1>3 DEF Both
  <2>2. ASSUME NEW E, NEW k, k[3] = "is_a", ~IsLoop(k), \E d \in E : k = Repointed(d, l1, w)
        PROVE  k \in Image(E, w, l1, l2)
    <3>1. PICK d \in E : k = Repointed(d, l1, w)
      BY <2>2
    <3>2. k = Replaced(d, {l1, l2}, w)
      BY <2>1, <2>2, <3>1, RepointedIsA
    <3> QED
      BY <2>2, <3>2 DEF Image, WithoutLoops
  <2> HIDE DEF one, both
  <2> QED
    BY <1>2, <2>1, <2>2 DEF both
<1>4. CASE l1 # l2
  <2> HIDE DEF one
  <2>1. both = MergedOne(one, l2, w)
    BY <1>4 DEF Both, one
  <2>2. /\ \A k \in Keys(both.ev) : \E d \in Keys(one.ev) : k = Repointed(d, l2, w) /\ ~IsLoop(k)
        /\ \A k \in DOMAIN both.ed :
              \/ \E d \in DOMAIN one.ed : k = Repointed(d, l2, w) /\ ~IsLoop(k)
              \/ ~rebuild /\ k \in Keys(both.ev)
    BY <2>1, MergedKeys
  <2>3. ASSUME NEW E, NEW k, k[3] = "is_a", ~IsLoop(k),
               \E d \in E : k = Repointed(Repointed(d, l1, w), l2, w)
        PROVE  k \in Image(E, w, l1, l2)
    <3>1. PICK d \in E : k = Repointed(Repointed(d, l1, w), l2, w)
      BY <2>3
    <3>2. d[3] = "is_a"
      <4>1. Repointed(d, l1, w)[3] = d[3]
        BY RepointedIsA
      <4>2. \A c : Repointed(c, l2, w)[3] = c[3]
        BY RepointedIsA
      <4> QED
        BY <2>3, <3>1, <4>1, <4>2
    <3>3. k = Replaced(d, {l1, l2}, w)
      BY <3>1, <3>2, TwoLosers
    <3> QED
      BY <2>3, <3>3 DEF Image, WithoutLoops
  <2> HIDE DEF both
  <2>4. ASSUME NEW k \in Keys(both.ev), k[3] = "is_a"
        PROVE  k \in Image(Keys(evidence), w, l1, l2)
    <3>1. PICK c \in Keys(one.ev) : k = Repointed(c, l2, w) /\ ~IsLoop(k)
      BY <2>2
    <3>2. PICK d \in Keys(evidence) : c = Repointed(d, l1, w)
      BY <1>2
    <3> QED
      BY <2>3, <2>4, <3>1, <3>2
  <2>5. ASSUME NEW k \in DOMAIN both.ed, k[3] = "is_a"
        PROVE  \/ k \in Image(DOMAIN edges, w, l1, l2)
               \/ ~rebuild /\ k \in Image(Keys(evidence), w, l1, l2)
    <3>1. CASE \E d \in DOMAIN one.ed : k = Repointed(d, l2, w) /\ ~IsLoop(k)
      <4>1. PICK c \in DOMAIN one.ed : k = Repointed(c, l2, w) /\ ~IsLoop(k)
        BY <3>1
      <4>2. CASE \E d \in DOMAIN edges : c = Repointed(d, l1, w)
        BY <2>3, <2>5, <4>1, <4>2
      <4>3. CASE ~rebuild /\ c \in Keys(one.ev)
        <5>1. PICK d \in Keys(evidence) : c = Repointed(d, l1, w)
          BY <1>2, <4>3
        <5> QED
          BY <2>3, <2>5, <4>1, <4>3, <5>1
      <4> QED
        BY <1>2, <4>2, <4>3
    <3>2. CASE ~rebuild /\ k \in Keys(both.ev)
      BY <2>4, <2>5, <3>2
    <3> QED
      BY <2>2, <3>1, <3>2
  <2> QED
    BY <2>4, <2>5 DEF both
<1> QED
  BY <1>3, <1>4

-----------------------------------------------------------------------------
(* Types.  What is left to show is that no edge is served without a count. *)

Positive(f) == f \in [DOMAIN f -> Nat \ {0}]

\* A recomputed edge has a positive count.
LEMMA RecomputedPositive ==
    ASSUME NEW ed, Positive(ed), NEW ev, ev \subseteq Chunk \X Edge, NEW K, NEW staging
    PROVE  Positive(Served(ed, ev, K, staging))
<1> DEFINE new == Recomputed(ed, ev, K)
<1>1. new = [e \in (DOMAIN ed \ K) \cup (K \cap Keys(ev)) |->
                IF e \in K THEN Count(ev, e) ELSE ed[e]]
  BY DEF Recomputed
<1>2. \A e \in K \cap Keys(ev) : Count(ev, e) \in Nat \ {0}
  BY CountNat
<1>3. \A e \in DOMAIN ed : ed[e] \in Nat \ {0}
  BY DEF Positive
<1>4. \A e \in DOMAIN new : new[e] \in Nat \ {0}
  BY <1>1, <1>2, <1>3
<1>5. Positive(new)
  <2>1. new = [e \in DOMAIN new |-> new[e]]
    BY <1>1
  <2> HIDE DEF new
  <2> QED
    BY <1>4, <2>1 DEF Positive
<1> HIDE DEF new
<1> QED
  BY <1>5 DEF Served, new

\* A store leaves positive counts.
LEMMA StoredPositive ==
    ASSUME Inv, Positive(edges), NEW c \in Chunk, NEW e, e \in Asserted \/ e = None,
           NEW clear, NEW mat
    PROVE  Positive(Stored(c, e, clear, mat).ed)
<1> DEFINE t == IF clear THEN Cleared(c) ELSE [ev |-> evidence, ed |-> edges]
           k == Canonical(e)
           ev == t.ev \cup {<<c, k>>}
<1>1. t.ev \subseteq Chunk \X Edge /\ Positive(t.ed)
  <2> DEFINE left == {r \in evidence : r[1] # c}
             K == {r[2] : r \in evidence \ left}
  <2>1. Cleared(c) = [ev |-> left, ed |-> Served(edges, left, K, rebuild)]
    BY DEF Cleared
  <2>2. evidence \subseteq Chunk \X Edge /\ left \subseteq evidence
    BY DEF Inv, Rows
  <2> HIDE DEF left, K
  <2>3. Positive(Served(edges, left, K, rebuild))
    BY <2>2, RecomputedPositive
  <2> QED
    BY <2>1, <2>2, <2>3
<1>2. CASE e = None \/ ~Allowed(t.ev, t.ed, e)
  <2>1. Stored(c, e, clear, mat) = t
    BY <1>2 DEF Stored
  <2> QED
    BY <1>1, <2>1
<1>3. CASE e # None /\ Allowed(t.ev, t.ed, e)
  <2>1. Stored(c, e, clear, mat) = [ev |-> ev, ed |-> Served(t.ed, ev, {k}, ~mat)]
    BY <1>3 DEF Stored
  <2>2. k \in Edge
    BY <1>3, AssertedEdge, CanonicalKey
  <2>3. ev \subseteq Chunk \X Edge
    BY <1>1, <2>2
  <2> HIDE DEF t, k, ev
  <2>4. Positive(Served(t.ed, ev, {k}, ~mat))
    BY <1>1, <2>3, RecomputedPositive
  <2> QED
    BY <2>1, <2>4
<1> QED
  BY <1>2, <1>3

\* A merge leaves positive counts.
LEMMA MergedPositive ==
    ASSUME Normalized, NEW s, Good(s), Positive(s.ed), NEW l \in Concept, NEW w \in Concept
    PROVE  Positive(MergedOne(s, l, w).ed)
<1> DEFINE to(e) == Repointed(e, l, w)
           ev == MergedRows(s.ev, l, w)
           K == WithoutLoops({to(r[2]) : r \in {q \in s.ev : Touches(q[2], {l})}})
           ed == MergedEdges(s.ed, l, w)
           moved(k) == {e \in DOMAIN s.ed : Touches(e, {l}) /\ to(e) = k}
           own(k) == IF k \in DOMAIN s.ed /\ ~Touches(k, {l}) THEN s.ed[k] ELSE 0
           other(k) == IF moved(k) # {} THEN s.ed[CHOOSE e \in moved(k) : TRUE] ELSE 0
<1>1. MergedOne(s, l, w).ed = Served(ed, ev, K, rebuild)
  BY DEF MergedOne
<1>2. ed = [k \in WithoutLoops({to(e) : e \in DOMAIN s.ed}) |-> own(k) + other(k)]
  BY DEF MergedEdges
<1>3. \A k \in DOMAIN s.ed : s.ed[k] \in Nat \ {0}
  BY DEF Positive
<1>4. ASSUME NEW k \in DOMAIN ed PROVE ed[k] \in Nat \ {0}
  <2>1. ed[k] = own(k) + other(k) /\ k \in WithoutLoops({to(e) : e \in DOMAIN s.ed})
    BY <1>2
  <2>2. own(k) \in Nat
    BY <1>3
  <2>3. moved(k) # {} => other(k) \in Nat \ {0}
    <3>1. moved(k) # {} => (CHOOSE e \in moved(k) : TRUE) \in moved(k)
      OBVIOUS
    <3>2. moved(k) \subseteq DOMAIN s.ed
      OBVIOUS
    <3> HIDE DEF moved
    <3> QED
      BY <1>3, <3>1, <3>2
  <2>4. moved(k) = {} => other(k) = 0 /\ own(k) \in Nat \ {0}
    <3> SUFFICES ASSUME moved(k) = {} PROVE k \in DOMAIN s.ed /\ ~Touches(k, {l})
      BY <1>3
    <3>1. PICK e \in DOMAIN s.ed : k = to(e) /\ ~IsLoop(k)
      BY <2>1 DEF WithoutLoops
    <3>2. ~Touches(e, {l})
      BY <3>1
    <3>3. e \in Edge /\ Normal(e) = e
      BY DEF Good, Fine
    <3>4. k = e
      BY <3>1, <3>2, <3>3, Untouched
    <3> QED
      BY <3>2, <3>4
  <2> HIDE DEF own, other
  <2> QED
    BY <2>1, <2>2, <2>3, <2>4
<1>5. Positive(ed)
  <2>1. ed = [k \in DOMAIN ed |-> ed[k]]
    BY <1>2
  <2> HIDE DEF ed
  <2> QED
    BY <1>4, <2>1 DEF Positive
<1>6. ev \subseteq Chunk \X Edge
  <2> SUFFICES ASSUME NEW r \in ev PROVE r \in Chunk \X Edge
    OBVIOUS
  <2>1. PICK q \in s.ev : r = <<q[1], to(q[2])>>
    BY DEF MergedRows
  <2>2. q \in Chunk \X Edge /\ q[2] \in Edge
    BY DEF Good
  <2>3. to(q[2]) \in Edge
    BY <2>2, RepointedKey
  <2> HIDE DEF to
  <2> QED
    BY <2>1, <2>2, <2>3
<1> HIDE DEF ed, ev, K
<1> QED
  BY <1>1, <1>5, <1>6, RecomputedPositive

TypeInv == Inv /\ TypeOK

\* Every step leaves positive counts.
LEMMA PositiveStep ==
    ASSUME TypeInv, Next
    PROVE  Positive(edges')
<1> USE DEF TypeInv
<1>1. Positive(edges)
  BY DEF TypeOK, Positive
<1>2. ASSUME NEW c \in Chunk, NEW e, e \in Asserted \/ e = None, NEW clear, NEW mat,
             NEW latest, StoreTransaction(c, e, clear, mat, latest)
      PROVE  Positive(edges')
  BY <1>1, <1>2, StoredPositive DEF StoreTransaction
<1>3. Step
  BY NextStep
<1>4. evidence' \subseteq Chunk \X Edge
  BY <1>3 DEF Step, FineRows
<1>5. ASSUME NEW K, edges' = Served(edges, evidence', K, rebuild)
      PROVE  Positive(edges')
  BY <1>1, <1>4, <1>5, RecomputedPositive
<1>6. CASE StoreLate
  <2>1. PICK latest \in BOOLEAN :
            StoreTransaction(job.chunk, job.edge, job.clear, job.materialize, latest)
    BY <1>6 DEF StoreLate
  <2>2. job.chunk \in Chunk /\ job.edge \in Asserted
    BY <1>6 DEF StoreLate, Inv
  <2> QED
    BY <1>2, <2>1, <2>2
<1>7. CASE Purge \/ PurgeLate \/ \E f \in [Chunk -> Chunk \cup {None}] : Realign(f)
  <2>1. PICK K : edges' = Served(edges, evidence', K, rebuild)
    BY <1>7 DEF Purge, PurgeLate, PurgeTransaction, Realign
  <2> QED
    BY <1>5, <2>1
<1>8. CASE Finalize
  <2>1. edges' = [e \in Keys(evidence) |-> Count(evidence, e)]
    BY <1>8 DEF Finalize
  <2>2. \A e \in Keys(evidence) : Count(evidence, e) \in Nat \ {0}
    BY CountNat DEF TypeOK
  <2> QED
    BY <2>1, <2>2 DEF Positive
<1>9. ASSUME NEW w \in Concept, NEW l1 \in Concept, NEW l2 \in Concept, Merge(w, l1, l2)
      PROVE  Positive(edges')
  <2> DEFINE one == MergedOne(Now, l1, w)
             two == MergedOne(one, l2, w)
  <2>1. Now.ev = evidence /\ Now.ed = edges /\ Now = [ev |-> evidence, ed |-> edges]
    BY DEF Now
  <2>2. Normalized /\ edges' = (IF l1 = l2 THEN one ELSE two).ed
    BY <1>9, <2>1 DEF Merge
  <2>3. Good(Now)
    BY <2>1, OldRows, OldKeys DEF Good, All
  <2>4. Good(one) /\ Positive(one.ed)
    BY <1>1, <2>1, <2>2, <2>3, MergedOK, MergedPositive
  <2> HIDE DEF one
  <2>5. Positive(two.ed)
    BY <2>2, <2>4, MergedPositive
  <2> QED
    BY <2>2, <2>4, <2>5
<1>10. ASSUME NEW e \in LegacyEdge, Rekey(e)
       PROVE  Positive(edges')
  <2> DEFINE n == Normal(e)
             D == (DOMAIN edges \ {e}) \cup {n}
  <2>1. /\ edges' = [k \in D |-> IF k # n THEN edges[k]
                                 ELSE edges[e] + (IF k \in DOMAIN edges THEN edges[k] ELSE 0)]
        /\ e \in DOMAIN edges
    BY <1>10 DEF Rekey
  <2>2. \A k \in DOMAIN edges : edges[k] \in Nat \ {0}
    BY <1>1 DEF Positive
  <2> HIDE DEF n
  <2>3. \A k \in D : edges'[k] \in Nat \ {0}
    BY <2>1, <2>2
  <2> QED
    BY <2>1, <2>3 DEF Positive
<1>11. CASE UNCHANGED edges
  BY <1>1, <1>11
<1> QED
  BY <1>2, <1>6, <1>7, <1>8, <1>9, <1>10, <1>11
  DEF Next, Store, StoreReads, Retitle, PurgeReads, Reset, FinalizeScan

\* The rest of the types.
Flags ==
    /\ marked \subseteq Chunk /\ current \subseteq marked
    /\ rebuild \in BOOLEAN /\ ready \in BOOLEAN
    /\ job \in Request \cup {None}
    /\ purge = None \/ purge \subseteq Edge
    /\ merges \in 0 .. MaxMerges
    /\ clean \in BOOLEAN /\ raced \in BOOLEAN

\* Every step leaves the flags well formed.
LEMMA FlagsStep ==
    ASSUME TypeInv, Next
    PROVE  Flags'
<1>1. Flags /\ evidence \subseteq Chunk \X Edge /\ merges \in Nat
  BY DEF TypeInv, TypeOK, Flags, Inv
<1>2. Keys(evidence) \subseteq Edge
  BY <1>1 DEF Keys
<1> USE DEF Flags
<1>3. ASSUME NEW c \in Chunk, NEW e \in Asserted \cup {None}, Store(c, e) PROVE Flags'
  BY <1>1, <1>3 DEF Store, StoreTransaction
<1>4. ASSUME NEW c \in Chunk, NEW e \in Overtaken, StoreReads(c, e) PROVE Flags'
  <2>1. job' \in Request
    BY <1>1, <1>4 DEF StoreReads, Request
  <2> QED
    BY <1>1, <1>4, <2>1 DEF StoreReads
<1>5. CASE StoreLate
  <2>1. job \in Request /\ job' = None
    BY <1>1, <1>5 DEF StoreLate
  <2> QED
    BY <1>1, <1>5, <2>1 DEF StoreLate, StoreTransaction, Request
<1>6. ASSUME NEW f \in [Chunk -> Chunk \cup {None}], Realign(f) PROVE Flags'
  <2>1. Relocated(f, marked) \subseteq Chunk
    BY <1>1 DEF Relocated
  <2>2. \A c \in current : f[c] = c => c \in Relocated(f, marked)
    BY <1>1, ChunkAssumption DEF Relocated
  <2>3. Relocated(f, marked \ current) \subseteq Relocated(f, marked)
    BY DEF Relocated
  <2>4. current' \subseteq marked'
    BY <1>6, <2>2, <2>3 DEF Realign
  <2> QED
    BY <1>1, <1>6, <2>1, <2>4 DEF Realign
<1>7. CASE Purge \/ PurgeLate
  BY <1>1, <1>7 DEF Purge, PurgeLate, PurgeTransaction
<1>8. CASE PurgeReads
  BY <1>1, <1>2, <1>8 DEF PurgeReads
<1>9. CASE Reset
  BY <1>1, <1>9 DEF Reset
<1>10. CASE FinalizeScan
  BY <1>1, <1>10 DEF FinalizeScan
<1>11. CASE Finalize
  BY <1>1, <1>11 DEF Finalize
<1>12. ASSUME NEW w \in Concept, NEW l1 \in Concept, NEW l2 \in Concept, Merge(w, l1, l2)
       PROVE  Flags'
  <2>1. merges' \in 0 .. MaxMerges
    BY <1>1, <1>12, BoundAssumption DEF Merge
  <2> QED
    BY <1>1, <1>12, <2>1 DEF Merge
<1>13. ASSUME NEW e \in LegacyEdge, Rekey(e) PROVE Flags'
  BY <1>1, <1>13 DEF Rekey
<1>14. CASE Retitle
  BY <1>1, <1>14 DEF Retitle
<1> QED
  BY <1>3, <1>4, <1>5, <1>6, <1>7, <1>8, <1>9, <1>10, <1>11, <1>12, <1>13, <1>14 DEF Next

\* The first state is well formed.
LEMMA TypeInvInit == Init => TypeInv
<1> SUFFICES ASSUME Init PROVE TypeInv
  OBVIOUS
<1>1. PICK S \in SUBSET LegacyEdge : edges = [e \in S |-> 1]
  BY DEF Init
<1>2. DOMAIN edges \subseteq Edge /\ edges \in [DOMAIN edges -> Nat \ {0}]
  BY <1>1, RelationAssumption
<1>3. 0 \in 0 .. MaxMerges
  BY BoundAssumption
<1>4. clean \in BOOLEAN
  BY DEF Init
<1>5. Flags
  BY <1>3, <1>4 DEF Init, Flags
<1>6. evidence \subseteq Chunk \X Edge
  BY DEF Init
<1>7. TypeOK
  BY <1>2, <1>5, <1>6 DEF TypeOK, Flags
<1> QED
  BY <1>7, InitInv DEF TypeInv

\* Every step leaves the state well formed.
LEMMA TypeInvStep == TypeInv /\ [Next]_vars => TypeInv'
<1> SUFFICES ASSUME TypeInv, [Next]_vars PROVE TypeInv'
  OBVIOUS
<1>1. Inv'
  BY InvStep DEF TypeInv
<1>2. CASE Next
  <2>1. Positive(edges') /\ Flags'
    BY <1>2, PositiveStep, FlagsStep
  <2>2. evidence' \subseteq Chunk \X Edge /\ DOMAIN edges' \subseteq Edge
    BY <1>1 DEF Inv, Rows, All
  <2>3. edges' \in [DOMAIN edges' -> Nat \ {0}]
    BY <2>1 DEF Positive
  <2>4. TypeOK'
    BY <2>1, <2>2, <2>3 DEF TypeOK, Flags
  <2> QED
    BY <1>1, <2>4 DEF TypeInv
<1>3. CASE UNCHANGED vars
  <2>1. TypeOK'
    BY <1>3 DEF TypeInv, TypeOK, vars, Request
  <2> QED
    BY <1>1, <2>1 DEF TypeInv
<1> QED
  BY <1>2, <1>3

\* Every row and every edge is what it should be, and no edge is served that
\* counts nothing: for any graph, index and number of merges.
THEOREM TypeCorrect == Spec => []TypeOK
<1>1. TypeInv => TypeOK
  BY DEF TypeInv
<1> QED
  BY <1>1, TypeInvInit, TypeInvStep, PTL DEF Spec

-----------------------------------------------------------------------------
(* What is served, and what is staged.                                     *)

NormalKeys == {Normal(e) : e \in DOMAIN edges}

ServedInv ==
    /\ \A k \in Keys(evidence) : Normal(k) = k
    /\ job # None => Normalized /\ (~rebuild /\ ~raced => job.materialize)
    /\ Materialized
    /\ rebuild \/ ~raced => ~Cyclic(Keys(evidence))
    /\ ~raced => ~Cyclic(NormalKeys)

\* Outside a rebuild and before any race, being materialized is agreeing.
LEMMA NowAgrees ==
    ASSUME ~rebuild, ~raced
    PROVE  Materialized <=> Agree(Now, clean)
BY DEF Materialized, Agree, Now, Counts

\* A set of normal forms is the set of its normal forms.
LEMMA NormalFormsSame ==
    ASSUME NEW S, \A e \in S : Normal(e) = e
    PROVE  {Normal(e) : e \in S} = S
OBVIOUS

\* Once normalized, the edge keys are their own normal forms.
LEMMA NormalKeysSame == Normalized => NormalKeys = DOMAIN edges
<1>1. Normalized => \A e \in DOMAIN edges : Normal(e) = e
  BY DEF Normalized
<1> QED
  BY <1>1, NormalFormsSame DEF NormalKeys

\* Renaming relations of older versions can only close cycles.
LEMMA ServedAcyclic == ~Cyclic(NormalKeys) => ~Cyclic(DOMAIN edges)
<1>1. \A e \in DOMAIN edges : e[3] = "is_a" => e \in NormalKeys
  <2> SUFFICES ASSUME NEW e \in DOMAIN edges, e[3] = "is_a" PROVE Normal(e) = e
    BY DEF NormalKeys
  <2> QED
    BY CanonicalIsA DEF Normal
<1> QED
  BY <1>1, FewerEdges

\* What every step does to the two graphs, when no race is on.
Kept == ~raced' =>
    /\ ~rebuild' => Agree(Now', clean')
    /\ ~Cyclic(NormalKeys')

\* A store leaves the evidence without cycle and keeps what is served counted.
LEMMA StorePromise ==
    ASSUME TypeInv, ServedInv, Normalized, NEW c \in Chunk, NEW e \in Asserted \cup {None},
           NEW clear, NEW mat \in BOOLEAN, NEW latest,
           StoreTransaction(c, e, clear, mat, latest),
           ~raced => mat = ~rebuild, Normalized'
    PROVE  /\ rebuild \/ ~raced => ~Cyclic(Keys(evidence'))
           /\ Kept
<1> DEFINE s == Stored(c, e, clear, mat)
<1>1. /\ evidence' = s.ev /\ edges' = s.ed
      /\ UNCHANGED <<rebuild, raced, clean>>
  BY DEF StoreTransaction
<1>2. Inv /\ clean \in BOOLEAN
  BY DEF TypeInv, TypeOK
<1>3. CASE rebuild
  <2>1. ~Cyclic(Keys(s.ev))
    BY <1>2, <1>3, StoredStaged DEF ServedInv
  <2>2. ~raced => edges' = edges
    BY <1>2, <1>3, StoreOK
  <2>3. ~raced => NormalKeys' = NormalKeys
    BY <2>2 DEF NormalKeys
  <2> HIDE DEF s
  <2> QED
    BY <1>1, <1>3, <2>1, <2>3 DEF ServedInv, Kept
<1>4. CASE ~rebuild /\ raced
  BY <1>1, <1>4 DEF Kept
<1>5. CASE ~rebuild /\ ~raced
  <2>1. mat = TRUE
    BY <1>5
  <2>2. Agree(Now, clean) /\ ~Cyclic(DOMAIN edges)
    BY <1>5, NowAgrees, ServedAcyclic DEF ServedInv
  <2>3. Agree(s, clean) /\ ~Cyclic(DOMAIN s.ed)
    BY <1>2, <1>5, <2>1, <2>2, StoredAgrees
  <2>4. ~Cyclic(Keys(s.ev))
    BY <2>3, FewerEdges DEF Agree
  <2> HIDE DEF s
  <2>5. Now'.ev = s.ev /\ Now'.ed = s.ed
    BY <1>1 DEF Now
  <2>6. Agree(Now', clean')
    BY <1>1, <2>3, <2>5 DEF Agree
  <2>7. NormalKeys' = DOMAIN s.ed
    <3>1. \A k \in DOMAIN edges' : Normal(k) = k
      BY DEF Normalized
    <3> QED
      BY <1>1, <3>1, NormalFormsSame DEF NormalKeys
  <2> QED
    BY <1>1, <2>3, <2>4, <2>6, <2>7 DEF Kept
<1> QED
  BY <1>3, <1>4, <1>5

\* Realigning and purging: rows of the keys K change, and no key is added.
LEMMA ChangePromise ==
    ASSUME TypeInv, ServedInv, Normalized, Normalized', NEW K,
           edges' = Served(edges, evidence', K, rebuild), Keys(evidence') \subseteq Keys(evidence),
           \A r : r[2] \notin K => (r \in evidence' <=> r \in evidence),
           UNCHANGED <<rebuild, clean>>, raced => raced'
    PROVE  Kept
<1> SUFFICES ASSUME ~raced'
             PROVE  /\ ~rebuild' => Agree(Now', clean')
                    /\ ~Cyclic(NormalKeys')
  BY DEF Kept
<1>1. ~raced /\ clean \in BOOLEAN
  BY DEF TypeInv, TypeOK
<1>2. CASE rebuild
  <2>1. edges' = edges
    BY <1>2 DEF Served
  <2> QED
    BY <1>1, <1>2, <2>1 DEF NormalKeys, ServedInv
<1>3. CASE ~rebuild
  <2>1. Agree(Now, clean) /\ ~Cyclic(DOMAIN edges)
    BY <1>1, <1>3, NowAgrees, ServedAcyclic DEF ServedInv
  <2>2. Now.ev = evidence /\ Now.ed = edges
    BY DEF Now
  <2>3. edges' = Recomputed(edges, evidence', K)
    BY <1>3 DEF Served
  <2>4. Agree([ev |-> evidence', ed |-> Recomputed(edges, evidence', K)], clean)
    BY <1>1, <2>1, <2>2, OthersAgree
  <2>5. Now' = [ev |-> evidence', ed |-> Recomputed(edges, evidence', K)]
    BY <2>3 DEF Now
  <2>6. DOMAIN edges' \subseteq DOMAIN edges
    BY <2>1, <2>2, <2>3 DEF Recomputed, Agree
  <2>7. ~Cyclic(DOMAIN edges')
    BY <2>1, <2>6, FewerEdges
  <2>8. NormalKeys' = DOMAIN edges'
    <3>1. \A k \in DOMAIN edges' : Normal(k) = k
      BY DEF Normalized
    <3> QED
      BY <3>1, NormalFormsSame DEF NormalKeys
  <2> QED
    BY <1>3, <2>4, <2>5, <2>7, <2>8
<1> QED
  BY <1>2, <1>3

\* A merge leaves the evidence without cycle and keeps what is served counted.
LEMMA MergePromise ==
    ASSUME TypeInv, ServedInv, NEW w \in Concept, NEW l1 \in Concept, NEW l2 \in Concept,
           Merge(w, l1, l2), Normalized'
    PROVE  /\ rebuild \/ ~raced => ~Cyclic(Keys(evidence'))
           /\ Kept
<1> DEFINE one == MergedOne(Now, l1, w)
           both == Both(w, l1, l2)
<1>1. Now.ev = evidence /\ Now.ed = edges /\ Now = [ev |-> evidence, ed |-> edges]
  BY DEF Now
<1>2. /\ evidence' = both.ev /\ edges' = both.ed
      /\ w \notin {l1, l2} /\ Normalized
      /\ MergeAllowed(DOMAIN edges, {l1, l2}, w) /\ MergeAllowed(Keys(evidence), {l1, l2}, w)
      /\ UNCHANGED <<rebuild, raced, clean>>
  BY <1>1 DEF Merge, Both
<1>3. Inv /\ clean \in BOOLEAN
  BY DEF TypeInv, TypeOK
<1>4. Keys(evidence) \subseteq Edge /\ DOMAIN edges \subseteq Edge
  BY <1>3, OldKeys DEF All, Fine
<1>5. Bounded(Keys(evidence)) /\ Bounded(DOMAIN edges)
  BY <1>4, EdgeShape DEF Bounded
<1>6. /\ \A k \in Keys(evidence') : k[3] = "is_a" => k \in Image(Keys(evidence), w, l1, l2)
      /\ \A k \in DOMAIN edges' : k[3] = "is_a" =>
            \/ k \in Image(DOMAIN edges, w, l1, l2)
            \/ ~rebuild /\ k \in Image(Keys(evidence), w, l1, l2)
  BY <1>2, MergedIsA
<1>7. rebuild \/ ~raced => ~Cyclic(Keys(evidence'))
  <2> SUFFICES ASSUME rebuild \/ ~raced PROVE ~Cyclic(Keys(evidence'))
    OBVIOUS
  <2>1. ~Cyclic(Keys(evidence))
    BY DEF ServedInv
  <2>2. ~Cyclic(Image(Keys(evidence), w, l1, l2))
    BY <1>2, <1>5, <2>1, MergeAcyclic DEF Image
  <2> QED
    BY <1>6, <2>2, FewerEdges
<1>8. ASSUME ~raced PROVE ~Cyclic(NormalKeys')
  <2>1. ~Cyclic(DOMAIN edges)
    BY <1>8, ServedAcyclic DEF ServedInv
  <2>2. ~Cyclic(Image(DOMAIN edges, w, l1, l2))
    BY <1>2, <1>5, <2>1, MergeAcyclic DEF Image
  <2>3. ~rebuild => Keys(evidence) \subseteq DOMAIN edges
    BY <1>8 DEF ServedInv, Materialized
  <2>4. ~rebuild => Image(Keys(evidence), w, l1, l2) \subseteq Image(DOMAIN edges, w, l1, l2)
    BY <2>3 DEF Image, WithoutLoops
  <2>5. ~Cyclic(DOMAIN edges')
    BY <1>6, <2>2, <2>4, FewerEdges
  <2>6. NormalKeys' = DOMAIN edges'
    <3>1. \A k \in DOMAIN edges' : Normal(k) = k
      BY DEF Normalized
    <3> QED
      BY <3>1, NormalFormsSame DEF NormalKeys
  <2> QED
    BY <2>5, <2>6
<1>9. ASSUME ~raced, ~rebuild PROVE Agree(Now', clean')
  <2>1. Agree(Now, clean)
    BY <1>9, NowAgrees DEF ServedInv
  <2>2. Good(Now)
    BY <1>1, <1>3, OldRows, OldKeys DEF Good, All
  <2>3. Good(one) /\ Agree(one, clean)
    BY <1>2, <1>3, <1>9, <2>1, <2>2, MergedOK, MergedAgrees
  <2>4. Agree(MergedOne(one, l2, w), clean)
    <3> HIDE DEF one
    <3> QED
      BY <1>2, <1>3, <1>9, <2>3, MergedAgrees
  <2>5. Agree(both, clean)
    BY <2>3, <2>4 DEF Both
  <2> HIDE DEF both
  <2>6. Now'.ev = both.ev /\ Now'.ed = both.ed
    BY <1>2 DEF Now
  <2> QED
    BY <1>2, <2>5, <2>6 DEF Agree
<1> QED
  BY <1>2, <1>7, <1>8, <1>9 DEF Kept

\* Rekeying a legacy edge keeps what is served counted.
LEMMA RekeyPromise ==
    ASSUME TypeInv, ServedInv, NEW e \in LegacyEdge, Rekey(e)
    PROVE  Kept
<1> SUFFICES ASSUME ~raced'
             PROVE  /\ ~rebuild' => Agree(Now', clean')
                    /\ ~Cyclic(NormalKeys')
  BY DEF Kept
<1>1. /\ e \in DOMAIN edges /\ Normal(e) # e /\ e \in Edge
      /\ DOMAIN edges' = (DOMAIN edges \ {e}) \cup {Normal(e)}
      /\ UNCHANGED <<evidence, rebuild, clean, raced>> /\ ~Normalized
  BY RelationAssumption DEF Rekey
<1>2. Normal(Normal(e)) = Normal(e)
  <2>1. CASE e[3] = "example_of"
    <3> DEFINE k == <<e[1], e[2], "is_a">>
    <3>1. k \in Edge /\ k[3] # "example_of" /\ Normal(e) = Canonical(k)
      BY <1>1, <2>1, EdgeShape, EdgeMade DEF Normal
    <3> HIDE DEF k
    <3> QED
      BY <3>1, CanonicalKey
  <2>2. CASE e[3] # "example_of"
    BY <1>1, <2>2, CanonicalKey DEF Normal
  <2> QED
    BY <2>1, <2>2
<1>3. NormalKeys' = NormalKeys
  BY <1>1, <1>2 DEF NormalKeys
<1>4. ~rebuild
  BY <1>1 DEF TypeInv, Inv
<1>5. Agree(Now, clean)
  BY <1>1, <1>4, NowAgrees DEF ServedInv
<1>6. Keys(evidence) \subseteq DOMAIN edges' /\ ~clean
  <2>1. e \notin Keys(evidence) /\ Keys(evidence) \subseteq DOMAIN edges
    BY <1>1, <1>5 DEF ServedInv, Agree, Now
  <2>2. clean => DOMAIN edges = Keys(evidence)
    BY <1>5 DEF Agree, Now, Counts
  <2> QED
    BY <1>1, <2>1, <2>2
<1>7. Agree(Now', clean')
  BY <1>1, <1>6 DEF Agree, Now
<1> QED
  BY <1>1, <1>3, <1>7 DEF ServedInv

\* The keys of the rows are regular ones, and a store that waits was told what
\* the flag still says.
Regular ==
    /\ \A k \in Keys(evidence) : Normal(k) = k
    /\ job # None => Normalized /\ (~rebuild /\ ~raced => job.materialize)

\* Every step leaves regular rows.
LEMMA RegularRows ==
    ASSUME TypeInv, ServedInv, Next
    PROVE  Regular'
<1>1. Step /\ Inv /\ Inv'
  BY NextStep, InvStep DEF TypeInv
<1>2. Normalized => Normalized'
  BY <1>1, RegularStep
<1>3. ASSUME evidence' \subseteq evidence PROVE \A k \in Keys(evidence') : Normal(k) = k
  BY <1>3 DEF Keys, ServedInv
<1>4. ASSUME Normalized' PROVE \A k \in Keys(evidence') : Normal(k) = k
  BY <1>4 DEF Normalized, Keys
<1>5. \/ evidence' \subseteq evidence
      \/ Normalized
  BY DEF Next, Store, StoreReads, StoreLate, Realign, Retitle, Purge, PurgeReads, PurgeLate,
         PurgeTransaction, Reset, FinalizeScan, Finalize, Merge, Rekey, ServedInv
<1>6. \A k \in Keys(evidence') : Normal(k) = k
  BY <1>2, <1>3, <1>4, <1>5
<1>7. job' # None => Normalized'
  <2>1. job' # None => job' = job \/ Normalized
    BY DEF Next, Store, StoreReads, StoreLate, Realign, Retitle, Purge, PurgeReads, PurgeLate,
           PurgeTransaction, Reset, FinalizeScan, Finalize, Merge, Rekey
  <2> QED
    BY <1>2, <2>1 DEF ServedInv
<1>8. job' # None /\ ~rebuild' /\ ~raced' => job'.materialize
  <2> USE DEF Next, Store, StoreReads, StoreLate, StoreTransaction, Realign, Retitle, Purge,
              PurgeReads, PurgeLate, PurgeTransaction, Reset, FinalizeScan, Merge, Rekey
  <2>1. ASSUME NEW c \in Chunk, NEW e \in Overtaken, StoreReads(c, e)
        PROVE  job'.materialize <=> ~rebuild'
    BY <2>1
  <2>2. CASE Finalize
    BY <2>2 DEF Finalize
  <2>3. \/ job' = None \/ job' = job \/ Finalize
        \/ \E c \in Chunk, e \in Overtaken : StoreReads(c, e)
    OBVIOUS
  <2>4. rebuild' = rebuild \/ rebuild' \/ Finalize
    OBVIOUS
  <2>5. (raced => raced') \/ Finalize
    OBVIOUS
  <2> QED
    BY <2>1, <2>2, <2>3, <2>4, <2>5, Zenon DEF ServedInv
<1> QED
  BY <1>6, <1>7, <1>8 DEF Regular

\* Every step keeps what is promised of the two graphs.
LEMMA GraphsStep ==
    ASSUME TypeInv, ServedInv, Next
    PROVE  Kept /\ (rebuild' \/ ~raced' => ~Cyclic(Keys(evidence')))
<1> DEFINE Staged == rebuild' \/ ~raced' => ~Cyclic(Keys(evidence'))
<1>1. /\ Inv /\ (Normalized => Normalized')
      /\ job # None => job.chunk \in Chunk /\ job.edge \in Asserted /\ job.materialize \in BOOLEAN
  <2>1. Inv /\ TypeOK
    BY DEF TypeInv
  <2>2. Normalized => Normalized'
    BY <2>1, NextStep, RegularStep
  <2>3. job # None => job.materialize \in BOOLEAN
    BY <2>1 DEF TypeOK, Request
  <2> QED
    BY <2>1, <2>2, <2>3 DEF Inv
<1>2. ASSUME Keys(evidence') \subseteq Keys(evidence), rebuild' = rebuild, raced => raced'
      PROVE  Staged
  BY <1>2, FewerEdges DEF ServedInv
<1>3. ASSUME evidence' = evidence, edges' = edges, rebuild' = rebuild, raced' = raced,
             clean' = clean
      PROVE  Kept /\ Staged
  <2>1. ~raced /\ ~rebuild => Agree(Now, clean)
    BY NowAgrees DEF ServedInv
  <2>2. Now' = Now /\ NormalKeys' = NormalKeys
    BY <1>3 DEF Now, NormalKeys
  <2> QED
    BY <1>3, <2>1, <2>2 DEF ServedInv, Kept
<1>4. ASSUME NEW c \in Chunk, NEW e \in Asserted \cup {None}, Store(c, e)
      PROVE  Kept /\ Staged
  <2>1. /\ StoreTransaction(c, e, c \notin current, ~rebuild, TRUE) /\ Normalized
        /\ UNCHANGED <<rebuild, raced>>
    BY <1>4 DEF Store, StoreTransaction
  <2> QED
    BY <1>1, <2>1, StorePromise
<1>5. ASSUME NEW c \in Chunk, NEW e \in Overtaken, StoreReads(c, e)
      PROVE  Kept /\ Staged
  BY <1>3, <1>5 DEF StoreReads
<1>6. CASE StoreLate
  <2>1. PICK latest \in BOOLEAN :
            StoreTransaction(job.chunk, job.edge, job.clear, job.materialize, latest)
    BY <1>6 DEF StoreLate
  <2>4. job # None /\ UNCHANGED <<rebuild, raced>>
    BY <1>6, <2>1 DEF StoreLate, StoreTransaction
  <2>2. Normalized
    BY <2>4 DEF ServedInv
  <2>3. ~raced => job.materialize = ~rebuild
    <3>1. ~raced => (job.materialize <=> ~rebuild)
      BY <1>1, <2>4 DEF ServedInv, Inv, HeldBack
    <3> QED
      BY <1>1, <2>4, <3>1
  <2> QED
    BY <1>1, <2>1, <2>2, <2>3, <2>4, StorePromise
<1>7. ASSUME NEW f \in [Chunk -> Chunk \cup {None}], Realign(f)
      PROVE  Kept /\ Staged
  <2>1. /\ edges' = Served(edges, evidence', Keys(evidence), rebuild) /\ Normalized
        /\ UNCHANGED <<rebuild, clean, raced>>
    BY <1>7 DEF Realign
  <2>2. ASSUME NEW r \in evidence' PROVE r[2] \in Keys(evidence)
    <3> DEFINE new(e) == {<<d, e>> : d \in Relocated(f, {c \in Chunk : <<c, e>> \in evidence})}
    <3>1. evidence' = UNION {new(e) : e \in Keys(evidence)}
      BY <1>7 DEF Realign
    <3>2. PICK e \in Keys(evidence) : r \in new(e)
      BY <3>1
    <3>3. PICK d \in Relocated(f, {c \in Chunk : <<c, e>> \in evidence}) : r = <<d, e>>
      BY <3>2
    <3> QED
      BY <3>3
  <2>3. Keys(evidence') \subseteq Keys(evidence)
    BY <2>2 DEF Keys
  <2>4. \A r : r[2] \notin Keys(evidence) => (r \in evidence' <=> r \in evidence)
    BY <2>2 DEF Keys
  <2> QED
    BY <1>1, <1>2, <2>1, <2>3, <2>4, ChangePromise
<1>8. ASSUME NEW K, PurgeTransaction(K)
      PROVE  Kept /\ Staged
  <2>1. /\ evidence' = {} /\ edges' = Served(edges, {}, K, rebuild)
        /\ raced' = (raced \/ (~rebuild /\ ~(Keys(evidence) \subseteq K)))
        /\ UNCHANGED <<rebuild, clean>>
    BY <1>8 DEF PurgeTransaction
  <2>2. Staged
    BY <1>2, <2>1 DEF Keys
  <2>3. CASE raced'
    BY <2>2, <2>3 DEF Kept
  <2>4. CASE ~raced' /\ rebuild
    <3>1. edges' = edges
      BY <2>1, <2>4 DEF Served
    <3>2. NormalKeys' = NormalKeys
      BY <3>1 DEF NormalKeys
    <3> QED
      BY <2>1, <2>2, <2>4, <3>2 DEF Kept, ServedInv
  <2>5. CASE ~raced' /\ ~rebuild
    <3>1. ~raced /\ Keys(evidence) \subseteq K
      BY <2>1, <2>5
    <3>2. edges' = [e \in DOMAIN edges \ K |-> edges[e]]
      BY <2>1, <2>5 DEF Served, Recomputed, Keys
    <3>3. clean => edges' = Counts({})
      <4>1. clean => DOMAIN edges = Keys(evidence)
        BY <2>5, <3>1 DEF ServedInv, Materialized
      <4>2. Keys({}) = {}
        BY DEF Keys
      <4> QED
        BY <3>1, <3>2, <4>1, <4>2 DEF Counts
    <3>4. Agree(Now', clean')
      BY <2>1, <3>3 DEF Agree, Now, Keys
    <3>5. NormalKeys' \subseteq NormalKeys
      BY <3>2 DEF NormalKeys
    <3>6. ~Cyclic(NormalKeys')
      BY <3>1, <3>5, FewerEdges DEF ServedInv
    <3> QED
      BY <2>2, <3>4, <3>6 DEF Kept
  <2> QED
    BY <2>3, <2>4, <2>5
<1>9. CASE PurgeReads
  BY <1>3, <1>9 DEF PurgeReads
<1>10. CASE Reset
  <2>1. evidence' = {} /\ edges' = edges /\ rebuild' /\ (raced => raced')
    BY <1>10 DEF Reset
  <2>2. Keys(evidence') = {} /\ NormalKeys' = NormalKeys
    BY <2>1 DEF Keys, NormalKeys
  <2> QED
    BY <2>1, <2>2 DEF ServedInv, Kept, Cyclic
<1>11. CASE FinalizeScan
  BY <1>3, <1>11 DEF FinalizeScan
<1>12. CASE Finalize
  <2>1. /\ edges' = Counts(evidence) /\ evidence' = evidence
        /\ ~rebuild' /\ rebuild
    BY <1>12 DEF Finalize, Counts
  <2>2. ~Cyclic(Keys(evidence))
    BY <2>1 DEF ServedInv
  <2>3. DOMAIN edges' = Keys(evidence)
    BY <2>1 DEF Counts
  <2>4. Agree(Now', clean')
    BY <2>1, <2>3 DEF Agree, Now
  <2>5. NormalKeys' = Keys(evidence)
    BY <2>3 DEF NormalKeys, ServedInv
  <2> QED
    BY <2>1, <2>2, <2>4, <2>5 DEF Kept
<1>13. ASSUME NEW w \in Concept, NEW l1 \in Concept, NEW l2 \in Concept, Merge(w, l1, l2)
       PROVE  Kept /\ Staged
  <2>1. Normalized /\ UNCHANGED <<rebuild, raced>>
    BY <1>13 DEF Merge
  <2> QED
    BY <1>1, <1>13, <2>1, MergePromise
<1>14. ASSUME NEW e \in LegacyEdge, Rekey(e)
       PROVE  Kept /\ Staged
  <2>1. UNCHANGED <<evidence, rebuild, raced>>
    BY <1>14 DEF Rekey
  <2> QED
    BY <1>2, <1>14, <2>1, RekeyPromise
<1>15. CASE Retitle
  BY <1>3, <1>15 DEF Retitle
<1> QED
  BY <1>4, <1>5, <1>6, <1>7, <1>8, <1>9, <1>10, <1>11, <1>12, <1>13, <1>14, <1>15
  DEF Next, Purge, PurgeLate

\* The first state serves nothing.
LEMMA ServedInvInit == Init => ServedInv
<1> SUFFICES ASSUME Init PROVE ServedInv
  OBVIOUS
<1>1. PICK S \in SUBSET LegacyEdge : edges = [e \in S |-> 1] /\ ~Cyclic({Normal(e) : e \in S})
  BY DEF Init
<1>2. NormalKeys = {Normal(e) : e \in S} /\ DOMAIN edges = S
  BY <1>1 DEF NormalKeys
<1>3. evidence = {} /\ Keys(evidence) = {} /\ job = None /\ (clean <=> S = {})
  BY <1>2 DEF Init, Keys
<1>4. clean => edges = [e \in Keys(evidence) |-> Count(evidence, e)]
  BY <1>1, <1>3
<1> QED
  BY <1>1, <1>2, <1>3, <1>4 DEF ServedInv, Materialized, Cyclic

\* Every step keeps the invariant of what is served.
LEMMA ServedInvStep == TypeInv /\ ServedInv /\ [Next]_vars => ServedInv'
<1> SUFFICES ASSUME TypeInv, ServedInv, [Next]_vars PROVE ServedInv'
  OBVIOUS
<1>1. CASE Next
  <2>1. Regular' /\ Kept /\ (rebuild' \/ ~raced' => ~Cyclic(Keys(evidence')))
    BY <1>1, RegularRows, GraphsStep
  <2>2. Materialized'
    BY <2>1 DEF Materialized, Kept, Agree, Now, Counts
  <2> QED
    BY <2>1, <2>2 DEF ServedInv, Regular, Kept
<1>2. CASE UNCHANGED vars
  BY <1>2 DEF ServedInv, Materialized, Normalized, NormalKeys, vars
<1> QED
  BY <1>1, <1>2

\* The invariant of what is served always holds.
LEMMA ServedInvariant == Spec => [](TypeInv /\ ServedInv)
BY TypeInvInit, TypeInvStep, ServedInvInit, ServedInvStep, PTL DEF Spec

\* Outside rebuilds and races every piece of evidence is served, and edges are
\* exactly the counts of the evidence once the legacy edges are gone: for any
\* graph and any number of stores, merges, realigns and purges.
THEOREM ServedIsCounted == Spec => []Materialized
<1>1. ServedInv => Materialized
  BY DEF ServedInv
<1> QED
  BY <1>1, ServedInvariant, PTL

\* check_edge and _check_merge, each of which looks at one of the two graphs,
\* keep both without cycles until a race.
THEOREM NoCycle == Spec => []Acyclic
<1>1. ServedInv => Acyclic
  BY ServedAcyclic DEF ServedInv, Acyclic
<1> QED
  BY <1>1, ServedInvariant, PTL
=============================================================================
