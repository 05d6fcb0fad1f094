-------------------------- MODULE GraphAlignProofs --------------------------
(***************************************************************************)
(* Proofs about GraphAlign, for any number of processes, documents, texts  *)
(* and slots.  First what a realignment does to slots, then the types.     *)
(*                                                                         *)
(* MarksBacked, CountsExact and MentionsFollow hold where nothing commits  *)
(* between what a function reads before its transaction and the            *)
(* transaction (Undivided): then what it read is what it finds             *)
(* (AllCurrent), and each transaction keeps the two invariants.            *)
(*                                                                         *)
(* Faithful is about calls made one after the other.  Its invariant says   *)
(* where the markers of every document fit: the index, except for the one  *)
(* document whose realignment or purge is still to come (SerialFits).      *)
(***************************************************************************)
EXTENDS GraphAlign, FiniteSetTheorems, WellFoundedInduction, NaturalsInduction, TLAPS

-----------------------------------------------------------------------------
(* What a realignment does to slots.                                       *)

Part(V) == UNION {[S -> V] : S \in SUBSET Slot}

\* A partial map over the slots, as a set of functions.
LEMMA PartShape ==
    ASSUME NEW V
    PROVE  \A f : f \in Part(V) <=> IsPartial(f, Slot, V)
BY DEF Part, IsPartial

\* How a partial map is made ...
LEMMA PartMade ==
    ASSUME NEW V, NEW f, NEW S \in SUBSET Slot, f = [s \in S |-> f[s]], \A s \in S : f[s] \in V
    PROVE  f \in Part(V)
<1>1. DOMAIN f = S /\ f \in [S -> V]
  OBVIOUS
<1> QED
  BY <1>1 DEF Part

\* ... and what it is made of.
LEMMA PartSub ==
    ASSUME NEW V, NEW f \in Part(V)
    PROVE  DOMAIN f \subseteq Slot /\ f = [s \in DOMAIN f |-> f[s]] /\ \A s \in DOMAIN f : f[s] \in V
<1>1. IsPartial(f, Slot, V)
  BY PartShape
<1> QED
  BY <1>1 DEF IsPartial

\* A nonempty set of slots has a least ...
LEMMA LeastSlot ==
    ASSUME NEW S \in SUBSET Slot, S # {}
    PROVE  \E m \in S : \A k \in S : m <= k
<1>1. S \subseteq Nat
  BY SlotsAssumption DEF Slot
<1>2. PICK x \in S : \A y \in S : <<y, x>> \notin OpToRel(<, Nat)
  BY <1>1, NatLessThanWellFounded, WFMin
<1>3. \A y \in S : ~(y < x)
  BY <1>1, <1>2 DEF OpToRel
<1> QED
  BY <1>1, <1>3

\* ... and a greatest element.
LEMMA GreatestSlot ==
    ASSUME NEW S \in SUBSET Slot, S # {}
    PROVE  \E m \in S : \A k \in S : k <= m
<1> DEFINE D == {MaxSlots - 1 - k : k \in S}
<1>1. \A k \in S : k \in Nat /\ k <= MaxSlots - 1 /\ MaxSlots - 1 - k \in Slot
  BY SlotsAssumption DEF Slot
<1>2. D \in SUBSET Slot /\ D # {}
  BY <1>1
<1>3. PICK x \in D : \A y \in D : x <= y
  BY <1>2, LeastSlot
<1>4. PICK m \in S : x = MaxSlots - 1 - m
  OBVIOUS
<1>5. \A k \in S : MaxSlots - 1 - m <= MaxSlots - 1 - k
  BY <1>3, <1>4
<1> QED
  BY <1>1, <1>5, SlotsAssumption

\* A text that is still in the document is found where Target says; a slot
\* that kept its text keeps what it has.
LEMMA TargetFound ==
    ASSUME NEW old, NEW new, DOMAIN new \subseteq Slot, NEW s
    PROVE  /\ s \notin Left(old, new) => Target(old, new, s) = s /\ s \notin Gone(old, new)
           /\ s \in Moved(old, new) => Target(old, new, s) \in Homes(new, old[s])
           /\ s \in DOMAIN old \ Gone(old, new) =>
                 Target(old, new, s) \in DOMAIN new /\ new[Target(old, new, s)] = old[s]
           /\ s \in Slot => Target(old, new, s) \in Slot
<1> DEFINE H == Homes(new, old[s])
           t == CHOOSE t \in H : \A u \in H : t <= u
<1>1. H \in SUBSET Slot
  BY DEF Homes
<1>2. ASSUME s \in Moved(old, new)
      PROVE  Target(old, new, s) \in H
  <2>1. Target(old, new, s) = t /\ H # {}
    BY <1>2 DEF Target, Moved
  <2> HIDE DEF H
  <2>2. \E m \in H : \A k \in H : m <= k
    BY <1>1, <2>1, LeastSlot
  <2>3. t \in H
    BY <2>2
  <2> QED
    BY <2>1, <2>3
<1>3. s \notin Left(old, new) => Target(old, new, s) = s /\ s \notin Gone(old, new)
  BY DEF Target, Moved, Gone
<1>4. \A h \in H : h \in DOMAIN new /\ new[h] = old[s]
  BY DEF Homes
<1>5. s \in DOMAIN old /\ s \notin Left(old, new) => s \in DOMAIN new /\ new[s] = old[s]
  BY DEF Left
<1>6. s \in DOMAIN old \ Gone(old, new) => s \in Moved(old, new) \/ s \notin Left(old, new)
  BY DEF Gone
<1>7. s \notin Moved(old, new) => Target(old, new, s) = s
  BY DEF Target
<1> HIDE DEF H
<1>8. s \in Slot => Target(old, new, s) \in Slot
  BY <1>1, <1>2, <1>7
<1> QED
  BY <1>2, <1>3, <1>4, <1>5, <1>6, <1>8 DEF H

\* A marker in the new layout is one of the old, from a slot whose target it
\* is in; no marker of a text that is still there gets lost.
LEMMA RekeyedMarks ==
    ASSUME NEW old, NEW new, NEW V, NEW f, new \in Part(Text), f \in Part(V)
    PROVE  /\ Rekeyed(old, new, f) \in Part(V)
           /\ \A s \in DOMAIN f \ Gone(old, new) : Target(old, new, s) \in DOMAIN Rekeyed(old, new, f)
           /\ \A t \in DOMAIN Rekeyed(old, new, f) : \E s \in DOMAIN f \ Gone(old, new) :
                 Target(old, new, s) = t /\ Rekeyed(old, new, f)[t] = f[s]
<1> DEFINE kept == DOMAIN f \ Gone(old, new)
           to(s) == Target(old, new, s)
           from(t) == {s \in kept : to(s) = t}
           last(t) == CHOOSE s \in from(t) : \A u \in from(t) : u <= s
           g == Rekeyed(old, new, f)
<1>0. DOMAIN f \subseteq Slot /\ \A s \in DOMAIN f : f[s] \in V
  BY PartSub
<1>1. g = [t \in {to(s) : s \in kept} |-> f[last(t)]]
  BY DEF Rekeyed
<1>2. \A s \in kept : to(s) \in Slot
  <2>1. DOMAIN new \subseteq Slot
    BY PartSub
  <2> QED
    BY <1>0, <2>1, TargetFound
<1> HIDE DEF g, to
<1>3. ASSUME NEW t \in {to(s) : s \in kept} PROVE last(t) \in kept /\ to(last(t)) = t
  <2>1. from(t) \in SUBSET Slot /\ from(t) # {}
    BY <1>0
  <2>2. \A s \in from(t) : s \in kept /\ to(s) = t
    OBVIOUS
  <2> HIDE DEF from
  <2>3. \E s \in from(t) : \A u \in from(t) : u <= s
    BY <2>1, GreatestSlot
  <2>4. last(t) \in from(t)
    BY <2>3
  <2> QED
    BY <2>2, <2>4
<1> HIDE DEF last
<1>4. DOMAIN g = {to(s) : s \in kept}
  BY <1>1
<1>5. \A t \in DOMAIN g : g[t] = f[last(t)]
  BY <1>1
<1>6. \A t \in DOMAIN g : last(t) \in kept /\ to(last(t)) = t
  BY <1>3, <1>4
<1>7. g \in Part(V)
  <2>1. g = [t \in DOMAIN g |-> g[t]]
    BY <1>1
  <2>2. DOMAIN g \in SUBSET Slot
    BY <1>2, <1>4
  <2>3. \A t \in DOMAIN g : g[t] \in V
    BY <1>0, <1>5, <1>6
  <2> HIDE DEF kept
  <2> QED
    BY <2>1, <2>2, <2>3, PartMade
<1> QED
  BY <1>4, <1>5, <1>6, <1>7 DEF g, to

-----------------------------------------------------------------------------
(* Types.                                                                  *)

Table == [Doc -> SUBSET (Slot \X Text)]

Call ==
    [pc : Points, d : Doc \cup {None}, at : Slot \cup {None}, text : Text \cup {None},
     fresh : BOOLEAN, old : Part(Text), new : Part(Text), seen : Table, docs : SUBSET Doc]

\* The fields that a call at one of these places has set.
Ingesting(j) == j.pc \in {"apply", "realignPeek", "realign"}
Extracting(j) == j.pc \in {"check", "storePeek", "store"}

CallOK(j) ==
    /\ j \in Call
    /\ Ingesting(j) \/ Extracting(j) => j.d \in Doc
    /\ Extracting(j) => j.at \in Slot /\ j.text \in Text

JobTypes == job \in [Proc -> Call] /\ \A p \in Proc : CallOK(job[p])

DataTypes ==
    /\ es \in [Doc -> Part(Text)]
    /\ arch \subseteq Doc /\ known \subseteq Doc
    /\ mention \in Table
    /\ mark \in [Doc -> Part(Version)]
    /\ count \in [Text -> Nat]

Typed == DataTypes /\ JobTypes

\* The typed state is well formed.
LEMMA TypedOK == Typed => TypeOK
<1> SUFFICES ASSUME Typed PROVE TypeOK
  OBVIOUS
<1>1. DOMAIN es = Doc /\ \A d \in Doc : IsPartial(es[d], Slot, Text)
  BY PartShape DEF Typed, DataTypes
<1>2. DOMAIN mark = Doc /\ \A d \in Doc : IsPartial(mark[d], Slot, Version)
  BY PartShape DEF Typed, DataTypes
<1>3. DOMAIN job = Proc
  BY DEF Typed, JobTypes
<1>4. \A p \in Proc : job[p] \in Call
  BY DEF Typed, JobTypes
<1>5. \A p \in Proc : /\ job[p].pc \in Points /\ job[p].docs \subseteq Doc
                      /\ job[p].seen \in [Doc -> SUBSET (Slot \X Text)]
  BY <1>4 DEF Call, Table
<1> QED
  BY <1>1, <1>2, <1>3, <1>5 DEF Typed, DataTypes, TypeOK, Table

\* No chunks are a partial map.
LEMMA EmptyPart == \A V : NoChunks \in Part(V)
<1> SUFFICES ASSUME NEW V PROVE NoChunks \in Part(V)
  OBVIOUS
<1>1. NoChunks = [s \in {} |-> NoChunks[s]] /\ {} \in SUBSET Slot
  BY DEF NoChunks
<1> HIDE DEF NoChunks
<1> QED
  BY <1>1, PartMade

\* The idle call is a call.
LEMMA IdleCall == Idle \in Call /\ Idle.pc = "idle" /\ Idle.seen \in Table
BY EmptyPart DEF Idle, Call, Table, Points

\* The layouts of a document are nonempty partial maps.
LEMMA LayoutPart == Layout \subseteq Part(Text) /\ NoChunks \notin Layout
<1>1. \A n \in 1 .. MaxSlots : 0 .. (n - 1) \subseteq Slot /\ 0 \in 0 .. (n - 1)
  BY SlotsAssumption DEF Slot
<1>2. DOMAIN NoChunks = {}
  BY DEF NoChunks
<1> QED
  BY <1>1, <1>2 DEF Layout, Part

\* The number of mentions of a concept is a number.
LEMMA MentionsMeaning ==
    ASSUME NEW m, NEW c, NEW x
    PROVE  x \in Mentions(m, c) <=> \E d \in Doc, s \in Slot : x = <<d, s>> /\ <<s, c>> \in m[d]
<1> DEFINE of(d) == {<<d, s>> : s \in {y \in Slot : <<y, c>> \in m[d]}}
<1>1. Mentions(m, c) = UNION {of(d) : d \in Doc}
  BY DEF Mentions
<1>2. \A d : x \in of(d) <=> \E s \in Slot : x = <<d, s>> /\ <<s, c>> \in m[d]
  OBVIOUS
<1> HIDE DEF of
<1> QED
  BY <1>1, <1>2

\* The slots that mention a concept can be counted.
LEMMA MentionsFinite ==
    ASSUME NEW m, NEW c
    PROVE  IsFiniteSet(Mentions(m, c)) /\ Cardinality(Mentions(m, c)) \in Nat
<1>1. IsFiniteSet(Slot)
  BY SlotsAssumption, FS_Interval DEF Slot
<1>2. IsFiniteSet(Doc \X Slot)
  BY <1>1, FiniteAssumption, FS_Product
<1>3. Mentions(m, c) \in SUBSET (Doc \X Slot)
  <2> DEFINE of(d) == {<<d, s>> : s \in {y \in Slot : <<y, c>> \in m[d]}}
  <2>1. Mentions(m, c) = UNION {of(d) : d \in Doc}
    BY DEF Mentions
  <2>2. ASSUME NEW d \in Doc PROVE of(d) \subseteq Doc \X Slot
    <3>1. \A s \in Slot : <<d, s>> \in Doc \X Slot
      OBVIOUS
    <3> QED
      BY <3>1
  <2> HIDE DEF of
  <2> QED
    BY <2>1, <2>2
<1>4. IsFiniteSet(Mentions(m, c))
  BY <1>2, <1>3, FS_Subset
<1> QED
  BY <1>4, FS_CardinalityType

\* Recounting leaves numbers.
LEMMA RecountedType ==
    ASSUME NEW m, NEW C, count \in [Text -> Nat]
    PROVE  Recounted(m, C) \in [Text -> Nat]
BY MentionsFinite DEF Recounted

\* Relocating mentions leaves mentions.
LEMMA RelocatedType ==
    ASSUME NEW old \in Part(Text), NEW new \in Part(Text), NEW S \in SUBSET (Slot \X Text)
    PROVE  Relocated(old, new, S) \in SUBSET (Slot \X Text)
<1> SUFFICES ASSUME NEW m \in S
             PROVE  <<Target(old, new, m[1]), m[2]>> \in Slot \X Text
  BY DEF Relocated
<1>1. DOMAIN new \subseteq Slot /\ m[1] \in Slot /\ m[2] \in Text
  BY PartSub
<1>2. Target(old, new, m[1]) \in Slot
  BY <1>1, TargetFound
<1> QED
  BY <1>1, <1>2

\* Rekeying markers leaves markers.
LEMMA RekeyedType ==
    ASSUME NEW old \in Part(Text), NEW new \in Part(Text), NEW f \in Part(Version)
    PROVE  Rekeyed(old, new, f) \in Part(Version)
BY RekeyedMarks

\* A step of one call leaves all calls well formed.
LEMMA JobTyped ==
    ASSUME JobTypes, NEW p \in Proc, NEW j, CallOK(j), Go(p, j)
    PROVE  JobTypes'
<1>1. j \in Call
  BY DEF CallOK
<1> QED
  BY <1>1 DEF Go, JobTypes

\* What a call does to its own state keeps the types.
LEMMA TypedStep ==
    ASSUME Typed, NEW p \in Proc, Ingest(p) \/ Extract(p) \/ Clean(p) \/ Fail(p)
    PROVE  Typed'
<1> DEFINE j == job[p]
<1>1. /\ j \in Call
      /\ Ingesting(j) \/ Extracting(j) => j.d \in Doc
      /\ Extracting(j) => j.at \in Slot /\ j.text \in Text
      /\ j.old \in Part(Text) /\ j.new \in Part(Text) /\ j.seen \in Table /\ j.docs \subseteq Doc
  <2>1. CallOK(j)
    BY DEF Typed, JobTypes
  <2> HIDE DEF j
  <2>2. j.old \in Part(Text) /\ j.new \in Part(Text) /\ j.seen \in Table /\ j.docs \subseteq Doc
    BY <2>1 DEF CallOK, Call
  <2> QED
    BY <2>1, <2>2 DEF CallOK, j
<1>2. \A d \in Doc : es[d] \in Part(Text) /\ mark[d] \in Part(Version)
                     /\ mention[d] \in SUBSET (Slot \X Text)
  BY DEF Typed, DataTypes, Table
<1>3. ASSUME Go(p, Idle) PROVE JobTypes'
  <2>1. CallOK(Idle)
    BY IdleCall DEF CallOK, Ingesting, Extracting
  <2> QED
    BY <1>3, <2>1, JobTyped DEF Typed
<1>4. ASSUME NEW k, CallOK(k), Go(p, k) PROVE JobTypes'
  BY <1>4, JobTyped DEF Typed
<1>5. ASSUME UNCHANGED <<es, arch, mention, mark, known, count>> PROVE DataTypes'
  BY <1>5 DEF Typed, DataTypes
<1>6. ASSUME DataTypes', JobTypes' PROVE Typed'
  BY <1>6 DEF Typed, DataTypes
<1> USE DEF CallOK, Ingesting, Extracting
<1>7. ASSUME NEW d \in Doc, NEW new \in Layout, ReadExisting(p, d, new) PROVE DataTypes' /\ JobTypes'
  <2> DEFINE k == [Idle EXCEPT !.pc = "apply", !.d = d, !.old = es[d], !.new = new]
  <2>1. k \in Call /\ k.d = d /\ k.pc = "apply"
    BY <1>2, LayoutPart, IdleCall DEF Call, Points
  <2>2. Go(p, k) /\ UNCHANGED <<es, arch, mention, mark, known, count>>
    BY <1>7 DEF ReadExisting
  <2> HIDE DEF k
  <2> QED
    BY <1>4, <1>5, <2>1, <2>2
<1>8. CASE ApplyDelta(p)
  <2> DEFINE replaced == {s \in DOMAIN j.new : s \notin DOMAIN j.old \/ j.old[s] # j.new[s]}
             removed == DOMAIN j.old \ DOMAIN j.new
             now == [s \in (DOMAIN es[j.d] \ removed) \cup replaced |->
                        IF s \in replaced THEN j.new[s] ELSE es[j.d][s]]
             k == [j EXCEPT !.pc = "realignPeek"]
  <2>1. /\ j.pc = "apply" /\ es' = [es EXCEPT ![j.d] = now]
        /\ Go(p, IF DOMAIN j.old = {} THEN Idle ELSE k)
        /\ UNCHANGED <<arch, mention, mark, known, count>>
    BY <1>8 DEF ApplyDelta
  <2>2. j.d \in Doc
    BY <1>1, <2>1
  <2>3. now \in Part(Text)
    <3>1. /\ DOMAIN es[j.d] \subseteq Slot /\ \A s \in DOMAIN es[j.d] : es[j.d][s] \in Text
          /\ DOMAIN j.new \subseteq Slot /\ \A s \in DOMAIN j.new : j.new[s] \in Text
      BY <1>1, <1>2, <2>2, PartSub
    <3>2. DOMAIN now \in SUBSET Slot /\ now = [s \in DOMAIN now |-> now[s]]
      BY <3>1
    <3>3. \A s \in DOMAIN now : now[s] \in Text
      BY <3>1
    <3> HIDE DEF now
    <3> QED
      BY <3>2, <3>3, PartMade
  <2>4. k \in Call /\ k.d = j.d /\ k.pc = "realignPeek"
    BY <1>1 DEF Call, Points
  <2> HIDE DEF now, k
  <2>5. DataTypes'
    BY <2>1, <2>2, <2>3 DEF Typed, DataTypes
  <2>6. JobTypes'
    BY <1>3, <1>4, <2>1, <2>2, <2>4
  <2> QED
    BY <1>6, <2>5, <2>6
<1>9. CASE RealignPeek(p)
  <2> DEFINE k == [j EXCEPT !.pc = "realign", !.seen = mention]
  <2>1. /\ j.pc = "realignPeek" /\ Go(p, IF Left(j.old, j.new) = {} THEN Idle ELSE k)
        /\ UNCHANGED <<es, arch, mention, mark, known, count>>
    BY <1>9 DEF RealignPeek
  <2>2. k \in Call /\ k.d = j.d /\ k.pc = "realign"
    BY <1>1 DEF Call, Points, Typed, DataTypes
  <2> HIDE DEF k
  <2> QED
    BY <1>6, <1>1, <1>3, <1>4, <1>5, <2>1, <2>2
<1>10. CASE Realign(p)
  <2> DEFINE C == Concepts({m \in j.seen[j.d] : m[1] \in Left(j.old, j.new)})
  <2>1. /\ j.pc = "realign" /\ Go(p, Idle)
        /\ mention' = [mention EXCEPT ![j.d] = Relocated(j.old, j.new, j.seen[j.d])]
        /\ mark' = [mark EXCEPT ![j.d] = Rekeyed(j.old, j.new, mark[j.d])]
        /\ count' = Recounted(mention', C)
        /\ UNCHANGED <<es, arch, known>>
    BY <1>10 DEF Realign
  <2>2. j.d \in Doc
    BY <1>1, <2>1
  <2>3. Relocated(j.old, j.new, j.seen[j.d]) \in SUBSET (Slot \X Text)
    BY <1>1, <2>2, RelocatedType DEF Table
  <2>4. Rekeyed(j.old, j.new, mark[j.d]) \in Part(Version)
    BY <1>1, <1>2, <2>2, RekeyedType
  <2>5. count' \in [Text -> Nat]
    BY <2>1, RecountedType DEF Typed, DataTypes
  <2> HIDE DEF C
  <2>6. DataTypes'
    BY <2>1, <2>3, <2>4, <2>5 DEF Typed, DataTypes, Table
  <2> QED
    BY <1>6, <1>3, <2>1, <2>6
<1>11. ASSUME NEW d \in Doc, NEW s \in Slot, Fetch(p, d, s) PROVE DataTypes' /\ JobTypes'
  <2> DEFINE k == [Idle EXCEPT !.pc = "check", !.d = d, !.at = s, !.text = es[d][s]]
  <2>1. s \in DOMAIN es[d] /\ Go(p, k) /\ UNCHANGED <<es, arch, mention, mark, known, count>>
    BY <1>11 DEF Fetch
  <2>2. es[d][s] \in Text
    BY <1>2, <2>1, PartSub
  <2>3. k \in Call /\ k.d = d /\ k.at = s /\ k.text \in Text
    BY <2>2, IdleCall DEF Call, Points
  <2> HIDE DEF k
  <2> QED
    BY <1>4, <1>5, <2>1, <2>3
<1>12. CASE Check(p)
  <2> DEFINE k == [j EXCEPT !.pc = "storePeek"]
  <2>1. /\ j.pc = "check" /\ (Go(p, k) \/ Go(p, Idle))
        /\ UNCHANGED <<es, arch, mention, mark, known, count>>
    BY <1>12 DEF Check
  <2>2. k \in Call /\ k.d = j.d /\ k.at = j.at /\ k.text = j.text
    BY <1>1 DEF Call, Points
  <2> HIDE DEF k
  <2> QED
    BY <1>6, <1>1, <1>3, <1>4, <1>5, <2>1, <2>2
<1>13. CASE StorePeek(p)
  <2> DEFINE version == [text |-> j.text, slot |-> j.at]
             fresh == j.at \in DOMAIN mark[j.d] /\ mark[j.d][j.at] = version
             k == [j EXCEPT !.pc = "store", !.seen = mention, !.fresh = fresh]
  <2>1. /\ j.pc = "storePeek" /\ Go(p, k)
        /\ UNCHANGED <<es, arch, mention, mark, known, count>>
    BY <1>13 DEF StorePeek
  <2>2. fresh \in BOOLEAN
    OBVIOUS
  <2> HIDE DEF fresh
  <2>3. k \in Call /\ k.d = j.d /\ k.at = j.at /\ k.text = j.text
    BY <1>1, <2>2 DEF Call, Points, Typed, DataTypes
  <2> HIDE DEF k
  <2> QED
    BY <1>6, <1>1, <1>4, <1>5, <2>1, <2>3
<1>14. CASE Store(p)
  <2> DEFINE kept == IF j.fresh THEN mention[j.d] ELSE Replaced(mention[j.d], j.at)
             marks == [s \in DOMAIN mark[j.d] \cup {j.at} |->
                         IF s = j.at THEN [text |-> j.text, slot |-> j.at] ELSE mark[j.d][s]]
  <2>1. /\ j.pc = "store" /\ Go(p, Idle)
        /\ mention' = [mention EXCEPT ![j.d] = kept \cup {<<j.at, j.text>>}]
        /\ mark' = [mark EXCEPT ![j.d] = marks]
        /\ known' = known \cup {j.d}
        /\ count' = Recounted(mention', StoredConcepts(j))
        /\ UNCHANGED <<es, arch>>
    BY <1>14 DEF Store
  <2>2. j.d \in Doc /\ j.at \in Slot /\ j.text \in Text
    BY <1>1, <2>1
  <2>3. kept \cup {<<j.at, j.text>>} \in SUBSET (Slot \X Text)
    BY <1>2, <2>2 DEF Replaced
  <2>4. marks \in Part(Version)
    <3>1. DOMAIN mark[j.d] \subseteq Slot /\ \A s \in DOMAIN mark[j.d] : mark[j.d][s] \in Version
      BY <1>2, <2>2, PartSub
    <3>2. DOMAIN marks \in SUBSET Slot /\ marks = [s \in DOMAIN marks |-> marks[s]]
      BY <2>2, <3>1
    <3>3. \A s \in DOMAIN marks : marks[s] \in Version
      BY <2>2, <3>1 DEF Version
    <3> HIDE DEF marks
    <3> QED
      BY <3>2, <3>3, PartMade
  <2>5. count' \in [Text -> Nat]
    BY <2>1, RecountedType DEF Typed, DataTypes
  <2> HIDE DEF kept, marks
  <2>6. DataTypes'
    BY <2>1, <2>2, <2>3, <2>4, <2>5 DEF Typed, DataTypes, Table
  <2> QED
    BY <1>6, <1>3, <2>1, <2>6
<1>15. ASSUME NEW d \in Doc, DeleteDocument(p, d) PROVE DataTypes' /\ JobTypes'
  <2> DEFINE k == [Idle EXCEPT !.pc = "purgePeek", !.docs = {d}]
  <2>1. /\ es' = [es EXCEPT ![d] = NoChunks] /\ arch' = arch \ {d} /\ Go(p, k)
        /\ UNCHANGED <<mention, mark, known, count>>
    BY <1>15 DEF DeleteDocument
  <2>2. k \in Call /\ k.pc = "purgePeek"
    BY IdleCall DEF Call, Points
  <2> HIDE DEF k
  <2>3. DataTypes'
    BY <2>1, EmptyPart DEF Typed, DataTypes
  <2> QED
    BY <1>4, <2>1, <2>2, <2>3
<1>16. ASSUME NEW d \in Doc, Archive(p, d) PROVE DataTypes' /\ JobTypes'
  <2>1. DataTypes'
    BY <1>16 DEF Archive, Typed, DataTypes
  <2>2. job' = job
    BY <1>16 DEF Archive
  <2>3. JobTypes'
    BY <2>2 DEF Typed, JobTypes
  <2> QED
    BY <2>1, <2>3
<1>17. CASE ListDocuments(p)
  <2> DEFINE listed == {d \in Doc : es[d] # NoChunks} \ arch
             k == [Idle EXCEPT !.pc = "prunePeek", !.docs = listed]
  <2>1. Go(p, k) /\ UNCHANGED <<es, arch, mention, mark, known, count>>
    BY <1>17 DEF ListDocuments
  <2>2. k \in Call /\ k.pc = "prunePeek"
    BY IdleCall DEF Call, Points
  <2> HIDE DEF k
  <2> QED
    BY <1>6, <1>4, <1>5, <2>1, <2>2
<1>18. CASE PrunePeek(p)
  <2> DEFINE stale == (known \cup {d \in Doc : mention[d] # {}}) \ j.docs
             k == [j EXCEPT !.pc = "purge", !.docs = stale, !.seen = mention]
  <2>1. /\ Go(p, IF stale = {} THEN Idle ELSE k)
        /\ UNCHANGED <<es, arch, mention, mark, known, count>>
    BY <1>18 DEF PrunePeek
  <2>2. stale \subseteq Doc
    BY DEF Typed, DataTypes
  <2> HIDE DEF stale
  <2>3. k \in Call /\ k.pc = "purge"
    BY <1>1, <2>2 DEF Call, Points, Typed, DataTypes
  <2> HIDE DEF k
  <2> QED
    BY <1>6, <1>3, <1>4, <1>5, <2>1, <2>3
<1>19. CASE PurgePeek(p)
  <2> DEFINE k == [j EXCEPT !.pc = "purge", !.seen = mention]
  <2>1. Go(p, k) /\ UNCHANGED <<es, arch, mention, mark, known, count>>
    BY <1>19 DEF PurgePeek
  <2>2. k \in Call /\ k.pc = "purge"
    BY <1>1 DEF Call, Points, Typed, DataTypes
  <2> HIDE DEF k
  <2> QED
    BY <1>6, <1>4, <1>5, <2>1, <2>2
<1>20. CASE Purge(p)
  <2> DEFINE D == j.docs
  <2>1. /\ Go(p, Idle)
        /\ mention' = [d \in Doc |-> IF d \in D THEN {} ELSE mention[d]]
        /\ mark' = [d \in Doc |-> IF d \in D THEN NoChunks ELSE mark[d]]
        /\ known' = known \ D
        /\ \E C : count' = Recounted(mention', C)
        /\ UNCHANGED <<es, arch>>
    BY <1>20 DEF Purge
  <2>2. count' \in [Text -> Nat]
    BY <2>1, RecountedType DEF Typed, DataTypes
  <2>3. DataTypes'
    BY <2>1, <2>2, EmptyPart DEF Typed, DataTypes, Table
  <2> QED
    BY <1>6, <1>3, <2>1, <2>3
<1>21. CASE Fail(p)
  BY <1>3, <1>5, <1>6, <1>21 DEF Fail
<1> QED
  BY <1>6, <1>7, <1>8, <1>9, <1>10, <1>11, <1>12, <1>13, <1>14, <1>15, <1>16, <1>17, <1>18,
     <1>19, <1>20, <1>21 DEF Ingest, Extract, Clean

\* The first state is well formed.
LEMMA TypedInit == Init => Typed
<1> SUFFICES ASSUME Init PROVE Typed
  OBVIOUS
<1>1. DataTypes
  BY LayoutPart, EmptyPart DEF Init, DataTypes, Table
<1>2. \A p \in Proc : job[p] = Idle
  BY DEF Init
<1>3. CallOK(Idle)
  BY IdleCall DEF CallOK, Ingesting, Extracting
<1>4. Idle \in Call /\ job = [p \in Proc |-> Idle]
  BY IdleCall DEF Init
<1>5. JobTypes
  BY <1>2, <1>3, <1>4 DEF JobTypes
<1> QED
  BY <1>1, <1>5 DEF Typed

\* Every step leaves the state well formed.
LEMMA TypedNext == Typed /\ [Next]_vars => Typed'
<1> SUFFICES ASSUME Typed, [Next]_vars PROVE Typed'
  OBVIOUS
<1>1. CASE Next
  BY <1>1, TypedStep DEF Next
<1>2. CASE UNCHANGED vars
  BY <1>2 DEF vars, Typed, DataTypes, JobTypes
<1> QED
  BY <1>1, <1>2

\* The tables of the graph and the local state of every call keep their
\* types, whatever calls of ingest, store_concepts, delete_document and prune
\* overlap or fail.
THEOREM TypeCorrect == Spec => []TypeOK
<1>1. Spec => []Typed
  BY TypedInit, TypedNext, PTL DEF Spec
<1> QED
  BY <1>1, TypedOK, PTL

-----------------------------------------------------------------------------
(* Transactions that nothing falls between the parts of: what a call read  *)
(* before its transaction is what the transaction finds.                   *)

Undivided == serial \/ ~Window

Committing(j) == j.pc \in {"realign", "store", "purge"}
ItsVersion(j) == [text |-> j.text, slot |-> j.at]

Current(p) ==
    LET j == job[p]
    IN  Committing(j) =>
           /\ \A q \in Proc \ {p} : ~Committing(job[q])
           /\ j.seen = mention
           /\ j.pc = "store" =>
                 (j.fresh <=> j.at \in DOMAIN mark[j.d] /\ mark[j.d][j.at] = ItsVersion(j))

AllCurrent == \A p \in Proc : Current(p)

\* When a call may act on the graph undivided, no other call is about to.
LEMMA Alone ==
    ASSUME Undivided, NEW p \in Proc, Turn(p)
    PROVE  \A q \in Proc \ {p} : ~Committing(job[q])
BY DEF Undivided, Turn, Committing

\* A step that idles its call, or has read the tables it leaves alone.
LEMMA CurrentAfter ==
    ASSUME AllCurrent, NEW p \in Proc, NEW k, Go(p, k), job \in [Proc -> Call],
           \A q \in Proc \ {p} : ~Committing(job[q]),
           Committing(k) =>
              /\ k.seen = mention'
              /\ k.pc = "store" =>
                    (k.fresh <=> k.at \in DOMAIN mark'[k.d] /\ mark'[k.d][k.at] = ItsVersion(k))
    PROVE  AllCurrent'
<1>1. job'[p] = k /\ \A q \in Proc \ {p} : job'[q] = job[q]
  BY DEF Go
<1>2. \A q \in Proc \ {p} : ~Committing(job'[q])
  BY <1>1
<1>3. Current(p)'
  BY <1>1, <1>2 DEF Current
<1>4. \A q \in Proc \ {p} : Current(q)'
  BY <1>2 DEF Current
<1> QED
  BY <1>3, <1>4 DEF AllCurrent

\* Every step keeps what a call has read what it will find.
LEMMA CurrentStep ==
    ASSUME Typed, Undivided, AllCurrent, NEW p \in Proc,
           Ingest(p) \/ Extract(p) \/ Clean(p) \/ Fail(p)
    PROVE  AllCurrent'
<1> DEFINE j == job[p]
<1>1. job \in [Proc -> Call] /\ j \in Call
  BY DEF Typed, JobTypes
<1>2. ASSUME Turn(p), NEW k, Go(p, k), ~Committing(k) PROVE AllCurrent'
  BY <1>1, <1>2, Alone, CurrentAfter
<1>3. ~Committing(Idle)
  BY IdleCall DEF Committing
<1>4. ASSUME Turn(p), Go(p, Idle) PROVE AllCurrent'
  BY <1>2, <1>3, <1>4
<1>5. ASSUME Turn(p), NEW k, Go(p, k), k.seen = mention, mention' = mention, k.pc # "store"
      PROVE  AllCurrent'
  BY <1>1, <1>5, Alone, CurrentAfter
<1>6. ASSUME NEW d \in Doc, NEW new \in Layout, ReadExisting(p, d, new) PROVE AllCurrent'
  <2> DEFINE k == [Idle EXCEPT !.pc = "apply", !.d = d, !.old = es[d], !.new = new]
  <2>1. Go(p, k) /\ Turn(p) /\ k.pc = "apply"
    BY <1>6, IdleCall DEF ReadExisting, Call
  <2> QED
    BY <1>2, <2>1 DEF Committing
<1>7. CASE ApplyDelta(p)
  <2> DEFINE k == [j EXCEPT !.pc = "realignPeek"]
  <2>1. (Go(p, Idle) \/ Go(p, k)) /\ Turn(p) /\ k.pc = "realignPeek"
    BY <1>1, <1>7 DEF ApplyDelta, Call
  <2> QED
    BY <1>2, <1>4, <2>1 DEF Committing
<1>8. CASE RealignPeek(p)
  <2> DEFINE k == [j EXCEPT !.pc = "realign", !.seen = mention]
  <2>1. /\ (Go(p, Idle) \/ Go(p, k)) /\ Turn(p) /\ mention' = mention
        /\ k.pc = "realign" /\ k.seen = mention
    BY <1>1, <1>8 DEF RealignPeek, Call
  <2> HIDE DEF k
  <2> QED
    BY <1>4, <1>5, <2>1
<1>9. CASE Realign(p)
  BY <1>4, <1>9 DEF Realign
<1>10. ASSUME NEW d \in Doc, NEW s \in Slot, Fetch(p, d, s) PROVE AllCurrent'
  <2> DEFINE k == [Idle EXCEPT !.pc = "check", !.d = d, !.at = s, !.text = es[d][s]]
  <2>1. Go(p, k) /\ Turn(p) /\ k.pc = "check"
    BY <1>10, IdleCall DEF Fetch, Call
  <2> QED
    BY <1>2, <2>1 DEF Committing
<1>11. CASE Check(p)
  <2> DEFINE k == [j EXCEPT !.pc = "storePeek"]
  <2>1. (Go(p, Idle) \/ Go(p, k)) /\ Turn(p) /\ k.pc = "storePeek"
    BY <1>1, <1>11 DEF Check, Call
  <2> QED
    BY <1>2, <1>4, <2>1 DEF Committing
<1>12. CASE StorePeek(p)
  <2> DEFINE fresh == j.at \in DOMAIN mark[j.d] /\ mark[j.d][j.at] = ItsVersion(j)
             k == [j EXCEPT !.pc = "store", !.seen = mention, !.fresh = fresh]
  <2>1. Go(p, k) /\ Turn(p) /\ mention' = mention /\ mark' = mark
    BY <1>12 DEF StorePeek, ItsVersion
  <2>2. k.seen = mention /\ k.fresh = fresh /\ k.at = j.at /\ k.d = j.d /\ k.text = j.text
    BY <1>1 DEF Call
  <2>3. k.fresh <=> k.at \in DOMAIN mark[k.d] /\ mark[k.d][k.at] = ItsVersion(k)
    BY <2>2 DEF ItsVersion
  <2> HIDE DEF k
  <2> QED
    BY <1>1, <2>1, <2>2, <2>3, Alone, CurrentAfter
<1>13. CASE Store(p)
  BY <1>4, <1>13 DEF Store
<1>14. ASSUME NEW d \in Doc, DeleteDocument(p, d) PROVE AllCurrent'
  <2> DEFINE k == [Idle EXCEPT !.pc = "purgePeek", !.docs = {d}]
  <2>1. Go(p, k) /\ Turn(p) /\ k.pc = "purgePeek"
    BY <1>14, IdleCall DEF DeleteDocument, Call
  <2> QED
    BY <1>2, <2>1 DEF Committing
<1>15. ASSUME NEW d \in Doc, Archive(p, d) PROVE AllCurrent'
  BY <1>15 DEF Archive, AllCurrent, Current
<1>16. CASE ListDocuments(p)
  <2> DEFINE listed == {d \in Doc : es[d] # NoChunks} \ arch
             k == [Idle EXCEPT !.pc = "prunePeek", !.docs = listed]
  <2>1. Go(p, k) /\ Turn(p) /\ k.pc = "prunePeek"
    BY <1>16, IdleCall DEF ListDocuments, Call
  <2> QED
    BY <1>2, <2>1 DEF Committing
<1>17. CASE PrunePeek(p)
  <2> DEFINE stale == (known \cup {d \in Doc : mention[d] # {}}) \ job[p].docs
             k == [j EXCEPT !.pc = "purge", !.docs = stale, !.seen = mention]
  <2>1. /\ (Go(p, Idle) \/ Go(p, k)) /\ Turn(p) /\ mention' = mention
        /\ k.pc = "purge" /\ k.seen = mention
    BY <1>1, <1>17 DEF PrunePeek, Call
  <2> HIDE DEF k
  <2> QED
    BY <1>4, <1>5, <2>1
<1>18. CASE PurgePeek(p)
  <2> DEFINE k == [j EXCEPT !.pc = "purge", !.seen = mention]
  <2>1. Go(p, k) /\ Turn(p) /\ mention' = mention /\ k.pc = "purge" /\ k.seen = mention
    BY <1>1, <1>18 DEF PurgePeek, Call
  <2> HIDE DEF k
  <2> QED
    BY <1>5, <2>1
<1>19. CASE Purge(p)
  BY <1>4, <1>19 DEF Purge
<1>20. CASE Fail(p)
  <2>1. job'[p] = Idle /\ (\A q \in Proc \ {p} : job'[q] = job[q])
        /\ mention' = mention /\ mark' = mark
    BY <1>1, <1>20 DEF Fail, Go
  <2>2. \A q \in Proc : Current(q)'
    BY <1>3, <2>1 DEF AllCurrent, Current
  <2> QED
    BY <2>2 DEF AllCurrent
<1> QED
  BY <1>6, <1>7, <1>8, <1>9, <1>10, <1>11, <1>12, <1>13, <1>14, <1>15, <1>16, <1>17, <1>18,
     <1>19, <1>20 DEF Ingest, Extract, Clean

-----------------------------------------------------------------------------
(* What the three writing transactions do to the tables.                   *)

\* Realigning moves mentions and markers of the document from the old slots to
\* the new ones, and recounts.
LEMMA RealignDoes ==
    ASSUME Typed, AllCurrent, NEW p \in Proc, Realign(p)
    PROVE  LET j == job[p]
           IN  /\ j.d \in Doc /\ j.old \in Part(Text) /\ j.new \in Part(Text)
               /\ mention' = [mention EXCEPT ![j.d] = Relocated(j.old, j.new, mention[j.d])]
               /\ mark' = [mark EXCEPT ![j.d] = Rekeyed(j.old, j.new, mark[j.d])]
               /\ count' = Recounted(mention',
                              Concepts({m \in mention[j.d] : m[1] \in Left(j.old, j.new)}))
<1> DEFINE j == job[p]
<1>1. CallOK(j) /\ j.pc = "realign"
  BY DEF Typed, JobTypes, Realign
<1>2. j.d \in Doc /\ j.old \in Part(Text) /\ j.new \in Part(Text)
  BY <1>1 DEF CallOK, Call, Ingesting
<1>3. j.seen = mention
  BY <1>1 DEF AllCurrent, Current, Committing
<1> QED
  BY <1>2, <1>3 DEF Realign

\* Storing an extraction replaces the mentions of the chunk and marks it.
LEMMA StoreDoes ==
    ASSUME Typed, NEW p \in Proc, Store(p)
    PROVE  LET j == job[p]
               kept == IF j.fresh THEN mention[j.d] ELSE Replaced(mention[j.d], j.at)
           IN  /\ j.d \in Doc /\ j.at \in Slot /\ j.text \in Text /\ j.pc = "store"
               /\ mention' = [mention EXCEPT ![j.d] = kept \cup {<<j.at, j.text>>}]
               /\ mark' = [mark EXCEPT ![j.d] =
                              [s \in DOMAIN mark[j.d] \cup {j.at} |->
                                  IF s = j.at THEN ItsVersion(j) ELSE mark[j.d][s]]]
               /\ count' = Recounted(mention', StoredConcepts(j))
<1>1. CallOK(job[p]) /\ job[p].pc = "store"
  BY DEF Typed, JobTypes, Store
<1> QED
  BY <1>1 DEF Store, ItsVersion, CallOK, Extracting

\* No other step touches mentions, markers or counts.
LEMMA OthersStay ==
    ASSUME NEW p \in Proc, Ingest(p) \/ Extract(p) \/ Clean(p) \/ Fail(p),
           ~Realign(p), ~Store(p), ~Purge(p)
    PROVE  UNCHANGED <<mention, mark, count>>
BY DEF Ingest, Extract, Clean, Fail, ReadExisting, ApplyDelta, RealignPeek, Fetch, Check,
       StorePeek, DeleteDocument, Archive, ListDocuments, PrunePeek, PurgePeek

\* A mention of a text that has not gone is in the new layout, at its target.
LEMMA RelocatedKeeps ==
    ASSUME NEW old, NEW new, NEW S, NEW s, NEW c, <<s, c>> \in S, s \notin Gone(old, new)
    PROVE  <<Target(old, new, s), c>> \in Relocated(old, new, S)
<1> DEFINE m == <<s, c>>
<1>1. m \in {x \in S : x[1] \notin Gone(old, new)}
  OBVIOUS
<1>2. <<Target(old, new, m[1]), m[2]>> \in Relocated(old, new, S)
  BY <1>1 DEF Relocated
<1> QED
  BY <1>2

-----------------------------------------------------------------------------
(* Markers and mentions.                                                   *)

\* Every step keeps every marker backed by a chunk.
LEMMA BackedStep ==
    ASSUME Typed, AllCurrent, MarksBacked, NEW p \in Proc,
           Ingest(p) \/ Extract(p) \/ Clean(p) \/ Fail(p)
    PROVE  MarksBacked'
<1> DEFINE j == job[p]
<1>0. \A d \in Doc : mark[d] \in Part(Version)
  BY DEF Typed, DataTypes
<1>1. mention \in [Doc -> SUBSET (Slot \X Text)] /\ mark \in [Doc -> Part(Version)]
  BY DEF Typed, DataTypes, Table
<1>2. CASE Realign(p)
  <2> SUFFICES ASSUME NEW d \in Doc, NEW t \in DOMAIN mark'[d]
               PROVE  <<t, mark'[d][t].text>> \in mention'[d]
    BY DEF MarksBacked
  <2>1. /\ j.d \in Doc /\ j.old \in Part(Text) /\ j.new \in Part(Text)
        /\ mention' = [mention EXCEPT ![j.d] = Relocated(j.old, j.new, mention[j.d])]
        /\ mark' = [mark EXCEPT ![j.d] = Rekeyed(j.old, j.new, mark[j.d])]
    BY <1>2, RealignDoes
  <2>2. CASE d # j.d
    BY <1>1, <2>1, <2>2 DEF MarksBacked
  <2>3. CASE d = j.d
    <3>1. mark'[d] = Rekeyed(j.old, j.new, mark[d])
          /\ mention'[d] = Relocated(j.old, j.new, mention[d])
      BY <1>1, <2>1, <2>3
    <3>2. PICK s \in DOMAIN mark[d] \ Gone(j.old, j.new) :
             Target(j.old, j.new, s) = t /\ mark'[d][t] = mark[d][s]
      <4>1. mark[d] \in Part(Version)
        BY <1>0
      <4> QED
        BY <2>1, <3>1, <4>1, RekeyedMarks
    <3>3. <<s, mark[d][s].text>> \in mention[d]
      BY DEF MarksBacked
    <3>4. <<t, mark[d][s].text>> \in Relocated(j.old, j.new, mention[d])
      BY <3>2, <3>3, RelocatedKeeps
    <3> QED
      BY <3>1, <3>2, <3>4
  <2> QED
    BY <2>2, <2>3
<1>3. CASE Store(p)
  <2> DEFINE kept == IF j.fresh THEN mention[j.d] ELSE Replaced(mention[j.d], j.at)
  <2> SUFFICES ASSUME NEW d \in Doc, NEW t \in DOMAIN mark'[d]
               PROVE  <<t, mark'[d][t].text>> \in mention'[d]
    BY DEF MarksBacked
  <2>1. /\ j.d \in Doc
        /\ mention' = [mention EXCEPT ![j.d] = kept \cup {<<j.at, j.text>>}]
        /\ mark' = [mark EXCEPT ![j.d] =
                       [s \in DOMAIN mark[j.d] \cup {j.at} |->
                           IF s = j.at THEN ItsVersion(j) ELSE mark[j.d][s]]]
    BY <1>3, StoreDoes
  <2>2. CASE d # j.d
    BY <1>1, <2>1, <2>2 DEF MarksBacked
  <2>3. CASE d = j.d /\ t = j.at
    <3>1. mark'[d][t].text = j.text /\ <<j.at, j.text>> \in mention'[d]
      BY <1>1, <2>1, <2>3 DEF ItsVersion
    <3> QED
      BY <2>3, <3>1
  <2>4. CASE d = j.d /\ t # j.at
    <3>1. t \in DOMAIN mark[d] /\ mark'[d][t] = mark[d][t] /\ kept \subseteq mention'[d]
      BY <1>1, <2>1, <2>4
    <3>2. <<t, mark[d][t].text>> \in kept
      BY <2>4, <3>1 DEF MarksBacked, Replaced
    <3> QED
      BY <3>1, <3>2
  <2> QED
    BY <2>2, <2>3, <2>4
<1>4. CASE Purge(p)
  <2> DEFINE D == j.docs
  <2>1. /\ mention' = [d \in Doc |-> IF d \in D THEN {} ELSE mention[d]]
        /\ mark' = [d \in Doc |-> IF d \in D THEN NoChunks ELSE mark[d]]
    BY <1>4 DEF Purge
  <2>2. DOMAIN NoChunks = {}
    BY DEF NoChunks
  <2> HIDE DEF D
  <2> QED
    BY <2>1, <2>2 DEF MarksBacked
<1>5. CASE ~Realign(p) /\ ~Store(p) /\ ~Purge(p)
  <2>1. mention' = mention /\ mark' = mark
    BY <1>5, OthersStay
  <2> QED
    BY <2>1 DEF MarksBacked
<1> QED
  BY <1>2, <1>3, <1>4, <1>5

-----------------------------------------------------------------------------
(* Counts.                                                                 *)

\* If the concepts that are not recounted are where they were, counts stay
\* exact.
LEMMA RecountExact ==
    ASSUME CountsExact, NEW C, count' = Recounted(mention', C),
           \A c \in Text \ C : \A d \in Doc, s \in Slot :
               <<s, c>> \in mention'[d] <=> <<s, c>> \in mention[d]
    PROVE  CountsExact'
<1> SUFFICES ASSUME NEW c \in Text PROVE count'[c] = Cardinality(Mentions(mention', c))
  BY DEF CountsExact
<1>1. CASE c \in C
  BY <1>1 DEF Recounted
<1>2. CASE c \notin C
  <2>1. \A d \in Doc : {x \in Slot : <<x, c>> \in mention'[d]} = {x \in Slot : <<x, c>> \in mention[d]}
    BY <1>2
  <2>2. Mentions(mention', c) = Mentions(mention, c)
    <3> DEFINE now(d) == {<<d, s>> : s \in {x \in Slot : <<x, c>> \in mention'[d]}}
               was(d) == {<<d, s>> : s \in {x \in Slot : <<x, c>> \in mention[d]}}
    <3>1. Mentions(mention', c) = UNION {now(d) : d \in Doc}
          /\ Mentions(mention, c) = UNION {was(d) : d \in Doc}
      BY DEF Mentions
    <3>2. \A d \in Doc : now(d) = was(d)
      BY <2>1
    <3> HIDE DEF now, was
    <3> QED
      BY <3>1, <3>2
  <2> QED
    BY <1>2, <2>2 DEF Recounted, CountsExact
<1> QED
  BY <1>1, <1>2

\* A concept that is mentioned is among the concepts mentioned.
LEMMA ConceptIn == \A S : \A s, c : <<s, c>> \in S => c \in Concepts(S)
<1> SUFFICES ASSUME NEW S, NEW s, NEW c, <<s, c>> \in S PROVE c \in Concepts(S)
  OBVIOUS
<1> DEFINE m == <<s, c>>
<1>1. m \in S /\ m[2] = c
  OBVIOUS
<1> QED
  BY <1>1 DEF Concepts

\* Every step keeps the counts exact.
LEMMA CountsStep ==
    ASSUME Typed, AllCurrent, CountsExact, NEW p \in Proc,
           Ingest(p) \/ Extract(p) \/ Clean(p) \/ Fail(p)
    PROVE  CountsExact'
<1> DEFINE j == job[p]
<1>1. mention \in [Doc -> SUBSET (Slot \X Text)]
  BY DEF Typed, DataTypes, Table
<1>2. CASE Realign(p)
  <2> DEFINE C == Concepts({m \in mention[j.d] : m[1] \in Left(j.old, j.new)})
  <2>1. /\ j.d \in Doc /\ j.old \in Part(Text) /\ j.new \in Part(Text)
        /\ mention' = [mention EXCEPT ![j.d] = Relocated(j.old, j.new, mention[j.d])]
        /\ count' = Recounted(mention', C)
    BY <1>2, RealignDoes
  <2>2. DOMAIN j.new \subseteq Slot
    BY <2>1, PartSub
  <2>3. ASSUME NEW c \in Text \ C, NEW d \in Doc, NEW s \in Slot
        PROVE  <<s, c>> \in mention'[d] <=> <<s, c>> \in mention[d]
    <3>1. CASE d # j.d
      BY <1>1, <2>1, <3>1
    <3>2. ASSUME NEW x, <<x, c>> \in mention[j.d]
          PROVE  x \notin Left(j.old, j.new) /\ Target(j.old, j.new, x) = x
                 /\ x \notin Gone(j.old, j.new)
      <4>1. x \notin Left(j.old, j.new)
        <5> DEFINE m == <<x, c>>
        <5> SUFFICES ASSUME m[1] \in Left(j.old, j.new) PROVE FALSE
          OBVIOUS
        <5>1. m \in {n \in mention[j.d] : n[1] \in Left(j.old, j.new)}
          BY <3>2
        <5> QED
          BY <5>1, ConceptIn, <2>3
      <4> QED
        BY <2>2, <4>1, TargetFound
    <3>3. CASE d = j.d
      <4>1. mention'[d] = Relocated(j.old, j.new, mention[d])
        BY <1>1, <2>1, <3>3
      <4>2. ASSUME <<s, c>> \in mention[d] PROVE <<s, c>> \in mention'[d]
        BY <3>2, <3>3, <4>1, <4>2, RelocatedKeeps
      <4>3. ASSUME <<s, c>> \in mention'[d] PROVE <<s, c>> \in mention[d]
        <5>1. PICK m \in mention[d] : <<s, c>> = <<Target(j.old, j.new, m[1]), m[2]>>
          BY <4>1, <4>3 DEF Relocated
        <5>2. m = <<m[1], m[2]>> /\ m[2] = c /\ Target(j.old, j.new, m[1]) = s
          BY <1>1, <5>1
        <5>3. Target(j.old, j.new, m[1]) = m[1]
          BY <3>2, <3>3, <5>2
        <5> QED
          BY <5>2, <5>3
      <4> QED
        BY <4>2, <4>3
    <3> QED
      BY <3>1, <3>3
  <2> HIDE DEF C
  <2> QED
    BY <2>1, <2>3, RecountExact
<1>3. CASE Store(p)
  <2> DEFINE kept == IF j.fresh THEN mention[j.d] ELSE Replaced(mention[j.d], j.at)
  <2>1. /\ j.d \in Doc /\ j.pc = "store"
        /\ mention' = [mention EXCEPT ![j.d] = kept \cup {<<j.at, j.text>>}]
        /\ count' = Recounted(mention', StoredConcepts(j))
    BY <1>3, StoreDoes
  <2>2. j.seen = mention
    BY <2>1 DEF AllCurrent, Current, Committing
  <2>3. ASSUME NEW c \in Text \ StoredConcepts(j), NEW d \in Doc, NEW s \in Slot
        PROVE  <<s, c>> \in mention'[d] <=> <<s, c>> \in mention[d]
    <3>1. CASE d # j.d
      BY <1>1, <2>1, <3>1
    <3>2. CASE d = j.d
      <4>1. mention'[d] = kept \cup {<<j.at, j.text>>} /\ c # j.text
        BY <1>1, <2>1, <3>2 DEF StoredConcepts
      <4>2. ASSUME ~j.fresh, <<s, c>> \in mention[d] PROVE s # j.at
        <5> DEFINE m == <<s, c>>
        <5> SUFFICES ASSUME m[1] = j.at PROVE FALSE
          OBVIOUS
        <5>1. m \in {n \in j.seen[j.d] : n[1] = j.at}
          BY <2>2, <3>2, <4>2
        <5>2. c \in Concepts({n \in j.seen[j.d] : n[1] = j.at})
          BY <5>1, ConceptIn
        <5> QED
          BY <4>2, <5>2 DEF StoredConcepts
      <4>3. <<s, c>> \in kept <=> <<s, c>> \in mention[d]
        BY <3>2, <4>2 DEF Replaced
      <4> QED
        BY <4>1, <4>3
    <3> QED
      BY <3>1, <3>2
  <2> QED
    BY <2>1, <2>3, RecountExact
<1>4. CASE Purge(p)
  <2> DEFINE D == j.docs
  <2>1. /\ j.pc = "purge"
        /\ mention' = [d \in Doc |-> IF d \in D THEN {} ELSE mention[d]]
        /\ \E first \in D :
              count' = Recounted(mention', Concepts(j.seen[first]) \cup
                                           UNION {Concepts(mention[d]) : d \in D \ {first}})
    BY <1>4 DEF Purge
  <2>2. j.seen = mention
    BY <2>1 DEF AllCurrent, Current, Committing
  <2> HIDE DEF D
  <2>3. PICK first \in D :
           count' = Recounted(mention', Concepts(mention[first]) \cup
                                        UNION {Concepts(mention[d]) : d \in D \ {first}})
    BY <2>1, <2>2
  <2> DEFINE C == Concepts(mention[first]) \cup UNION {Concepts(mention[d]) : d \in D \ {first}}
  <2>4. \A d \in D : Concepts(mention[d]) \subseteq C
    OBVIOUS
  <2> HIDE DEF C
  <2>5. ASSUME NEW c \in Text \ C, NEW d \in Doc, NEW s \in Slot
        PROVE  <<s, c>> \in mention'[d] <=> <<s, c>> \in mention[d]
    BY <2>1, <2>4, ConceptIn
  <2> QED
    BY <2>3, <2>5, RecountExact DEF C
<1>5. CASE ~Realign(p) /\ ~Store(p) /\ ~Purge(p)
  <2>1. mention' = mention /\ count' = count
    BY <1>5, OthersStay
  <2> QED
    BY <2>1 DEF CountsExact
<1> QED
  BY <1>2, <1>3, <1>4, <1>5

-----------------------------------------------------------------------------
(* The theorems about transactions that nothing divides.                   *)

Aligned == Typed /\ Undivided /\ AllCurrent /\ MarksBacked /\ CountsExact

\* The first state is aligned.
LEMMA AlignedInit == Init /\ Undivided => Aligned
<1> SUFFICES ASSUME Init, Undivided PROVE Aligned
  OBVIOUS
<1>1. AllCurrent
  BY IdleCall DEF Init, AllCurrent, Current, Committing
<1>2. MarksBacked
  BY DEF Init, MarksBacked, NoChunks
<1>3. \A c \in Text : Mentions(mention, c) = {}
  BY DEF Init, Mentions
<1>4. CountsExact
  BY <1>3, FS_EmptySet DEF Init, CountsExact
<1> QED
  BY <1>1, <1>2, <1>4, TypedInit DEF Aligned

\* Every step keeps the graph aligned with what the calls have read.
LEMMA AlignedNext == Aligned /\ [Next]_vars => Aligned'
<1> SUFFICES ASSUME Aligned, [Next]_vars PROVE Aligned'
  OBVIOUS
<1>1. CASE Next
  <2>1. PICK p \in Proc : Ingest(p) \/ Extract(p) \/ Clean(p) \/ Fail(p)
    BY <1>1 DEF Next
  <2>2. Undivided'
    BY <1>1 DEF Next, Undivided, Aligned
  <2>3. Typed' /\ AllCurrent' /\ MarksBacked' /\ CountsExact'
    BY <2>1, TypedStep, CurrentStep, BackedStep, CountsStep DEF Aligned
  <2> QED
    BY <2>2, <2>3 DEF Aligned
<1>2. CASE UNCHANGED vars
  BY <1>2 DEF vars, Aligned, Typed, DataTypes, JobTypes, Undivided, AllCurrent, Current,
              MarksBacked, CountsExact
<1> QED
  BY <1>1, <1>2

\* When calls do not interleave inside the window, the graph is always aligned.
LEMMA AlwaysAligned == Spec /\ Undivided => []Aligned
BY AlignedInit, AlignedNext, PTL DEF Spec

\* A row of extracted_chunks never outlives the mentions of the text it marks:
\* realign_doc_chunks, store_concepts and purge_document take both along.
THEOREM NoOrphanMarkers == Spec /\ Undivided => []MarksBacked
<1>1. Aligned => MarksBacked
  BY DEF Aligned
<1> QED
  BY <1>1, AlwaysAligned, PTL

\* concepts.mention_count is the number of the concept's mentions after every
\* realignment, store and purge, though each recounts only some concepts.
THEOREM CountsStayExact == Spec /\ Undivided => []CountsExact
<1>1. Aligned => CountsExact
  BY DEF Aligned
<1> QED
  BY <1>1, AlwaysAligned, PTL

\* realign_doc_chunks keeps the concepts of every text the document still has,
\* at a slot that has this text in the new layout.
THEOREM MentionsKept == Spec /\ Undivided => MentionsFollow
<1> DEFINE Follow ==
      \A p \in Proc : Realign(p) =>
          LET j == job[p]
          IN  \A s \in DOMAIN j.old :
                 <<s, j.old[s]>> \in mention[j.d] /\ Homes(j.new, j.old[s]) # {} =>
                    \E t \in Homes(j.new, j.old[s]) : <<t, j.old[s]>> \in mention'[j.d]
<1>1. ASSUME Aligned, NEW p \in Proc, Realign(p), NEW s \in DOMAIN job[p].old,
             <<s, job[p].old[s]>> \in mention[job[p].d],
             Homes(job[p].new, job[p].old[s]) # {}
      PROVE  \E t \in Homes(job[p].new, job[p].old[s]) :
                <<t, job[p].old[s]>> \in mention'[job[p].d]
  <2> DEFINE j == job[p]
             t == Target(j.old, j.new, s)
  <2>1. /\ j.d \in Doc /\ j.new \in Part(Text) /\ mention \in Table
        /\ mention' = [mention EXCEPT ![j.d] = Relocated(j.old, j.new, mention[j.d])]
    BY <1>1, RealignDoes DEF Aligned, Typed, DataTypes
  <2>2. DOMAIN j.new \subseteq Slot
    BY <2>1, PartSub
  <2>3. s \notin Gone(j.old, j.new)
    BY <1>1 DEF Gone, Moved
  <2>4. t \in DOMAIN j.new /\ j.new[t] = j.old[s]
    BY <2>2, <2>3, TargetFound
  <2>5. <<t, j.old[s]>> \in Relocated(j.old, j.new, mention[j.d])
    BY <1>1, <2>3, RelocatedKeeps
  <2>6. mention'[j.d] = Relocated(j.old, j.new, mention[j.d])
    BY <2>1 DEF Table
  <2>7. t \in Homes(j.new, j.old[s])
    BY <2>4 DEF Homes
  <2> QED
    BY <2>5, <2>6, <2>7
<1>2. Aligned /\ [Next]_vars => [Follow]_vars
  BY <1>1
<1>3. Spec /\ Undivided => [][Follow]_vars
  BY <1>2, AlwaysAligned, PTL DEF Spec
<1> QED
  BY <1>3 DEF MentionsFollow

-----------------------------------------------------------------------------
(* Calls that are made one after the other: the marked texts are those of  *)
(* the index, except for the document that the one call under way is about *)
(* to realign or to purge.                                                 *)

Matches(f, L) == \A s \in DOMAIN f : s \in DOMAIN L /\ f[s].text = L[s]

Excused(j, d) ==
    \/ j.pc \in {"realignPeek", "realign"} /\ j.d = d
    \/ j.pc \in {"purgePeek", "purge"} /\ d \in j.docs

Fits(j, E, M) ==
    /\ j.pc = "apply" => E[j.d] = j.old
    /\ j.pc \in {"realignPeek", "realign"} => E[j.d] = j.new /\ Matches(M[j.d], j.old)
    /\ Extracting(j) => j.at \in DOMAIN E[j.d] /\ E[j.d][j.at] = j.text
    /\ \A d \in Doc : ~Excused(j, d) => Matches(M[d], E[d])

SerialFits ==
    \A p \in Proc : (\A q \in Proc \ {p} : job[q].pc = "idle") => Fits(job[p], es, mark)

\* A document's mentions are those its markers stand for, and no other.
OwnedBy(f, S) ==
    \A s \in Slot, c \in Text : <<s, c>> \in S <=> s \in DOMAIN f /\ f[s].text = c

Owned == \A d \in Doc : OwnedBy(mark[d], mention[d])

\* Markers fit the index whichever idle call is asked.
LEMMA IdleFits ==
    ASSUME NEW j, NEW k, NEW E, NEW M, j.pc = "idle", k.pc = "idle", Fits(j, E, M)
    PROVE  Fits(k, E, M)
BY DEF Fits, Excused, Extracting

\* What the calling process leaves behind fits; then it fits for everyone.
LEMMA FitsAfter ==
    ASSUME job \in [Proc -> Call], NEW p \in Proc, NEW k, job' = [job EXCEPT ![p] = k],
           \A q \in Proc \ {p} : job[q].pc = "idle", Fits(k, es', mark')
    PROVE  SerialFits'
<1> SUFFICES ASSUME NEW q \in Proc, \A r \in Proc \ {q} : job'[r].pc = "idle"
             PROVE  Fits(job'[q], es', mark')
  BY DEF SerialFits
<1>1. job'[p] = k
  OBVIOUS
<1>2. CASE q = p
  BY <1>1, <1>2
<1>3. CASE q # p
  <2>1. k.pc = "idle" /\ job'[q].pc = "idle"
    BY <1>1, <1>3
  <2> QED
    BY <2>1, IdleFits
<1> QED
  BY <1>2, <1>3

\* Markers that match the old layout match the new one when they are rekeyed.
LEMMA RekeyedMatches ==
    ASSUME NEW old, NEW new, NEW f, old \in Part(Text), new \in Part(Text),
           f \in Part(Version), Matches(f, old)
    PROVE  /\ Matches(Rekeyed(old, new, f), new)
           /\ Left(old, new) = {} => Matches(f, new)
<1>0. DOMAIN new \subseteq Slot
  BY PartSub
<1>1. ASSUME NEW t \in DOMAIN Rekeyed(old, new, f)
      PROVE  t \in DOMAIN new /\ Rekeyed(old, new, f)[t].text = new[t]
  <2>1. PICK s \in DOMAIN f \ Gone(old, new) :
           Target(old, new, s) = t /\ Rekeyed(old, new, f)[t] = f[s]
    BY RekeyedMarks
  <2>2. s \in DOMAIN old \ Gone(old, new) /\ f[s].text = old[s]
    BY DEF Matches
  <2>3. t \in DOMAIN new /\ new[t] = old[s]
    BY <1>0, <2>1, <2>2, TargetFound
  <2> QED
    BY <2>1, <2>2, <2>3
<1>2. ASSUME Left(old, new) = {}, NEW s \in DOMAIN f
      PROVE  s \in DOMAIN new /\ f[s].text = new[s]
  BY <1>2 DEF Matches, Left
<1> QED
  BY <1>1, <1>2 DEF Matches

\* Every step keeps the markers fitting the index.
LEMMA FitsStep ==
    ASSUME Typed, SerialFits, serial, NEW p \in Proc,
           Ingest(p) \/ Extract(p) \/ Clean(p) \/ Fail(p)
    PROVE  SerialFits'
<1> DEFINE j == job[p]
<1>1. /\ job \in [Proc -> Call] /\ CallOK(j) /\ j \in Call
      /\ j.old \in Part(Text) /\ j.new \in Part(Text)
  <2>1. CallOK(j)
    BY DEF Typed, JobTypes
  <2> QED
    BY <2>1 DEF Typed, JobTypes, CallOK, Call
<1>2. es \in [Doc -> Part(Text)] /\ mark \in [Doc -> Part(Version)]
  BY DEF Typed, DataTypes
<1>3. Turn(p)
  BY DEF Ingest, Extract, Clean, Fail, ReadExisting, ApplyDelta, RealignPeek, Realign, Fetch,
         Check, StorePeek, Store, DeleteDocument, Archive, ListDocuments, PrunePeek,
         PurgePeek, Purge
<1>4. \A q \in Proc \ {p} : job[q].pc = "idle"
  BY <1>3 DEF Turn
<1>5. Fits(j, es, mark)
  BY <1>4 DEF SerialFits
<1>6. ASSUME NEW k, Go(p, k), Fits(k, es', mark') PROVE SerialFits'
  BY <1>1, <1>4, <1>6, FitsAfter DEF Go
<1>7. \A d \in Doc : ~Excused(Idle, d)
  BY IdleCall DEF Excused
<1>8. ASSUME Go(p, Idle), \A d \in Doc : Matches(mark'[d], es'[d]) PROVE SerialFits'
  <2>1. Fits(Idle, es', mark')
    BY <1>8, IdleCall DEF Fits, Extracting
  <2> QED
    BY <1>6, <1>8, <2>1
<1>9. \A d \in Doc : ~Excused(j, d) => Matches(mark[d], es[d])
  BY <1>5 DEF Fits
<1>10. ASSUME NEW d \in Doc, NEW new \in Layout, ReadExisting(p, d, new) PROVE SerialFits'
  <2> DEFINE k == [Idle EXCEPT !.pc = "apply", !.d = d, !.old = es[d], !.new = new]
  <2>1. j.pc = "idle" /\ Go(p, k) /\ es' = es /\ mark' = mark
    BY <1>10 DEF ReadExisting
  <2>2. k.pc = "apply" /\ k.d = d /\ k.old = es[d]
    BY IdleCall DEF Call
  <2> HIDE DEF k
  <2>3. \A e \in Doc : Matches(mark[e], es[e])
    BY <1>9, <2>1 DEF Excused
  <2>4. Fits(k, es', mark')
    BY <2>1, <2>2, <2>3 DEF Fits, Extracting
  <2> QED
    BY <1>6, <2>1, <2>4
<1>11. CASE ApplyDelta(p)
  <2> DEFINE k == [j EXCEPT !.pc = "realignPeek"]
             replaced == {s \in DOMAIN j.new : s \notin DOMAIN j.old \/ j.old[s] # j.new[s]}
             removed == DOMAIN j.old \ DOMAIN j.new
             now == [s \in (DOMAIN es[j.d] \ removed) \cup replaced |->
                        IF s \in replaced THEN j.new[s] ELSE es[j.d][s]]
  <2>1. /\ j.pc = "apply" /\ es' = [es EXCEPT ![j.d] = now] /\ mark' = mark
        /\ Go(p, IF DOMAIN j.old = {} THEN Idle ELSE k)
    BY <1>11 DEF ApplyDelta
  <2>2. j.d \in Doc /\ es[j.d] = j.old
    BY <1>1, <1>5, <2>1 DEF CallOK, Ingesting, Fits
  <2>3. now = j.new
    <3>1. (DOMAIN j.old \ removed) \cup replaced = DOMAIN j.new
      OBVIOUS
    <3>2. now = [s \in DOMAIN j.new |-> j.new[s]]
      BY <2>2, <3>1
    <3>3. j.new = [s \in DOMAIN j.new |-> j.new[s]]
      BY <1>1, PartSub
    <3> QED
      BY <3>2, <3>3
  <2>4. k.pc = "realignPeek" /\ k.d = j.d /\ k.old = j.old /\ k.new = j.new
    BY <1>1 DEF Call
  <2> HIDE DEF now, k
  <2>5. es'[j.d] = j.new /\ \A e \in Doc \ {j.d} : es'[e] = es[e]
    BY <1>2, <2>1, <2>2, <2>3
  <2>6. \A e \in Doc : Matches(mark[e], es[e])
    BY <1>9, <2>1 DEF Excused
  <2>7. CASE DOMAIN j.old = {}
    <3>1. Matches(mark[j.d], es'[j.d])
      BY <2>2, <2>6, <2>7 DEF Matches
    <3>2. \A e \in Doc : Matches(mark'[e], es'[e])
      BY <2>1, <2>5, <2>6, <3>1
    <3> QED
      BY <1>8, <2>1, <2>7, <3>2
  <2>8. CASE DOMAIN j.old # {}
    <3>1. \A e \in Doc : ~Excused(k, e) => e # j.d
      BY <2>4 DEF Excused
    <3>2. Matches(mark'[j.d], j.old)
      BY <2>1, <2>2, <2>6
    <3>3. \A e \in Doc : ~Excused(k, e) => Matches(mark'[e], es'[e])
      BY <2>1, <2>5, <2>6, <3>1
    <3>4. Fits(k, es', mark')
      BY <2>4, <2>5, <3>2, <3>3 DEF Fits, Extracting
    <3> QED
      BY <1>6, <2>1, <2>8, <3>4
  <2> QED
    BY <2>7, <2>8
<1>12. CASE RealignPeek(p)
  <2> DEFINE k == [j EXCEPT !.pc = "realign", !.seen = mention]
  <2>1. /\ j.pc = "realignPeek" /\ es' = es /\ mark' = mark
        /\ Go(p, IF Left(j.old, j.new) = {} THEN Idle ELSE k)
    BY <1>12 DEF RealignPeek
  <2>2. j.d \in Doc /\ es[j.d] = j.new /\ Matches(mark[j.d], j.old)
    BY <1>1, <1>5, <2>1 DEF CallOK, Ingesting, Fits
  <2>3. k.pc = "realign" /\ k.d = j.d /\ k.old = j.old /\ k.new = j.new
    BY <1>1 DEF Call
  <2> HIDE DEF k
  <2>4. \A e \in Doc \ {j.d} : Matches(mark[e], es[e])
    BY <1>9, <2>1 DEF Excused
  <2>5. CASE Left(j.old, j.new) = {}
    <3>1. mark[j.d] \in Part(Version)
      BY <1>2, <2>2
    <3>2. Matches(mark[j.d], j.new)
      BY <1>1, <2>2, <2>5, <3>1, RekeyedMatches
    <3>3. \A e \in Doc : Matches(mark'[e], es'[e])
      BY <2>1, <2>2, <2>4, <3>2
    <3> QED
      BY <1>8, <2>1, <2>5, <3>3
  <2>6. CASE Left(j.old, j.new) # {}
    <3>1. \A e \in Doc : ~Excused(k, e) => e # j.d
      BY <2>3 DEF Excused
    <3>2. Fits(k, es', mark')
      BY <2>1, <2>2, <2>3, <2>4, <3>1 DEF Fits, Extracting
    <3> QED
      BY <1>6, <2>1, <2>6, <3>2
  <2> QED
    BY <2>5, <2>6
<1>13. CASE Realign(p)
  <2>1. /\ j.pc = "realign" /\ es' = es /\ Go(p, Idle)
        /\ mark' = [mark EXCEPT ![j.d] = Rekeyed(j.old, j.new, mark[j.d])]
    BY <1>13 DEF Realign
  <2>2. j.d \in Doc /\ es[j.d] = j.new /\ Matches(mark[j.d], j.old)
    BY <1>1, <1>5, <2>1 DEF CallOK, Ingesting, Fits
  <2>3. mark[j.d] \in Part(Version)
    BY <1>2, <2>2
  <2>4. Matches(Rekeyed(j.old, j.new, mark[j.d]), j.new)
    BY <1>1, <2>2, <2>3, RekeyedMatches
  <2>5. \A e \in Doc \ {j.d} : Matches(mark[e], es[e])
    BY <1>9, <2>1 DEF Excused
  <2>6. mark'[j.d] = Rekeyed(j.old, j.new, mark[j.d]) /\ \A e \in Doc \ {j.d} : mark'[e] = mark[e]
    BY <1>2, <2>1, <2>2
  <2>7. \A e \in Doc : Matches(mark'[e], es'[e])
    BY <2>1, <2>2, <2>4, <2>5, <2>6
  <2> QED
    BY <1>8, <2>1, <2>7
<1>14. ASSUME NEW d \in Doc, NEW s \in Slot, Fetch(p, d, s) PROVE SerialFits'
  <2> DEFINE k == [Idle EXCEPT !.pc = "check", !.d = d, !.at = s, !.text = es[d][s]]
  <2>1. j.pc = "idle" /\ s \in DOMAIN es[d] /\ Go(p, k) /\ es' = es /\ mark' = mark
    BY <1>14 DEF Fetch
  <2>2. k.pc = "check" /\ k.d = d /\ k.at = s /\ k.text = es[d][s]
    BY IdleCall DEF Call
  <2> HIDE DEF k
  <2>3. \A e \in Doc : Matches(mark[e], es[e])
    BY <1>9, <2>1 DEF Excused
  <2>4. Fits(k, es', mark')
    BY <2>1, <2>2, <2>3 DEF Fits, Extracting
  <2> QED
    BY <1>6, <2>1, <2>4
<1>15. CASE Check(p)
  <2> DEFINE k == [j EXCEPT !.pc = "storePeek"]
  <2>1. j.pc = "check" /\ es' = es /\ mark' = mark /\ (Go(p, Idle) \/ Go(p, k))
    BY <1>15 DEF Check
  <2>2. k.pc = "storePeek" /\ k.d = j.d /\ k.at = j.at /\ k.text = j.text
    BY <1>1 DEF Call
  <2> HIDE DEF k
  <2>3. \A e \in Doc : Matches(mark[e], es[e])
    BY <1>9, <2>1 DEF Excused
  <2>4. Fits(k, es', mark')
    BY <1>5, <2>1, <2>2, <2>3 DEF Fits, Extracting
  <2> QED
    BY <1>6, <1>8, <2>1, <2>3, <2>4
<1>16. CASE StorePeek(p)
  <2> DEFINE fresh == j.at \in DOMAIN mark[j.d] /\ mark[j.d][j.at] = ItsVersion(j)
             k == [j EXCEPT !.pc = "store", !.seen = mention, !.fresh = fresh]
  <2>1. j.pc = "storePeek" /\ es' = es /\ mark' = mark /\ Go(p, k)
    BY <1>16 DEF StorePeek, ItsVersion
  <2>2. k.pc = "store" /\ k.d = j.d /\ k.at = j.at /\ k.text = j.text
    BY <1>1 DEF Call
  <2> HIDE DEF k
  <2>3. \A e \in Doc : Matches(mark[e], es[e])
    BY <1>9, <2>1 DEF Excused
  <2>4. Fits(k, es', mark')
    BY <1>5, <2>1, <2>2, <2>3 DEF Fits, Extracting
  <2> QED
    BY <1>6, <2>1, <2>4
<1>17. CASE Store(p)
  <2>1. /\ j.d \in Doc /\ j.pc = "store"
        /\ mark' = [mark EXCEPT ![j.d] =
                       [s \in DOMAIN mark[j.d] \cup {j.at} |->
                           IF s = j.at THEN ItsVersion(j) ELSE mark[j.d][s]]]
    BY <1>17, StoreDoes
  <2>2. es' = es /\ Go(p, Idle)
    BY <1>17 DEF Store
  <2>3. j.at \in DOMAIN es[j.d] /\ es[j.d][j.at] = j.text
    BY <1>5, <2>1 DEF Fits, Extracting
  <2>4. \A e \in Doc : Matches(mark[e], es[e])
    BY <1>9, <2>1 DEF Excused
  <2>5. Matches(mark'[j.d], es[j.d])
    <3>1. DOMAIN mark'[j.d] = DOMAIN mark[j.d] \cup {j.at}
      BY <1>2, <2>1
    <3>2. mark'[j.d][j.at].text = j.text
      BY <1>2, <2>1 DEF ItsVersion
    <3>3. \A s \in DOMAIN mark[j.d] \ {j.at} : mark'[j.d][s] = mark[j.d][s]
      BY <1>2, <2>1
    <3> QED
      BY <2>1, <2>3, <2>4, <3>1, <3>2, <3>3 DEF Matches
  <2>6. \A e \in Doc \ {j.d} : mark'[e] = mark[e]
    BY <1>2, <2>1
  <2>7. \A e \in Doc : Matches(mark'[e], es'[e])
    BY <2>2, <2>4, <2>5, <2>6
  <2> QED
    BY <1>8, <2>2, <2>7
<1>18. ASSUME NEW d \in Doc, DeleteDocument(p, d) PROVE SerialFits'
  <2> DEFINE k == [Idle EXCEPT !.pc = "purgePeek", !.docs = {d}]
  <2>1. j.pc = "idle" /\ es' = [es EXCEPT ![d] = NoChunks] /\ mark' = mark /\ Go(p, k)
    BY <1>18 DEF DeleteDocument
  <2>2. k.pc = "purgePeek" /\ d \in k.docs
    BY IdleCall DEF Call
  <2> HIDE DEF k
  <2>3. \A e \in Doc : ~Excused(k, e) => e # d
    BY <2>2 DEF Excused
  <2>4. \A e \in Doc : ~Excused(k, e) => Matches(mark'[e], es'[e])
    BY <1>2, <1>9, <2>1, <2>3 DEF Excused
  <2>5. Fits(k, es', mark')
    BY <2>2, <2>4 DEF Fits, Extracting
  <2> QED
    BY <1>6, <2>1, <2>5
<1>19. ASSUME NEW d \in Doc, Archive(p, d) PROVE SerialFits'
  <2>1. es' = es /\ mark' = mark /\ job' = job
    BY <1>19 DEF Archive
  <2> QED
    BY <2>1 DEF SerialFits
<1>20. CASE ListDocuments(p)
  <2> DEFINE listed == {d \in Doc : es[d] # NoChunks} \ arch
             k == [Idle EXCEPT !.pc = "prunePeek", !.docs = listed]
  <2>1. j.pc = "idle" /\ es' = es /\ mark' = mark /\ Go(p, k)
    BY <1>20 DEF ListDocuments
  <2>2. k.pc = "prunePeek"
    BY IdleCall DEF Call
  <2> HIDE DEF k
  <2>3. \A e \in Doc : Matches(mark[e], es[e])
    BY <1>9, <2>1 DEF Excused
  <2>4. Fits(k, es', mark')
    BY <2>1, <2>2, <2>3 DEF Fits, Extracting
  <2> QED
    BY <1>6, <2>1, <2>4
<1>21. CASE PrunePeek(p)
  <2> DEFINE stale == (known \cup {d \in Doc : mention[d] # {}}) \ job[p].docs
             k == [j EXCEPT !.pc = "purge", !.docs = stale, !.seen = mention]
  <2>1. j.pc = "prunePeek" /\ es' = es /\ mark' = mark /\ (Go(p, Idle) \/ Go(p, k))
    BY <1>21 DEF PrunePeek
  <2>2. k.pc = "purge"
    BY <1>1 DEF Call
  <2> HIDE DEF k
  <2>3. \A e \in Doc : Matches(mark[e], es[e])
    BY <1>9, <2>1 DEF Excused
  <2>4. Fits(k, es', mark')
    BY <2>1, <2>2, <2>3 DEF Fits, Extracting
  <2> QED
    BY <1>6, <1>8, <2>1, <2>3, <2>4
<1>22. CASE PurgePeek(p)
  <2> DEFINE k == [j EXCEPT !.pc = "purge", !.seen = mention]
  <2>1. j.pc = "purgePeek" /\ es' = es /\ mark' = mark /\ Go(p, k)
    BY <1>22 DEF PurgePeek
  <2>2. k.pc = "purge" /\ k.docs = j.docs
    BY <1>1 DEF Call
  <2> HIDE DEF k
  <2>3. \A e \in Doc : ~Excused(k, e) => Matches(mark[e], es[e])
    BY <1>9, <2>1, <2>2 DEF Excused
  <2>4. Fits(k, es', mark')
    BY <2>1, <2>2, <2>3 DEF Fits, Extracting
  <2> QED
    BY <1>6, <2>1, <2>4
<1>23. CASE Purge(p)
  <2>1. /\ j.pc = "purge" /\ es' = es /\ Go(p, Idle)
        /\ mark' = [d \in Doc |-> IF d \in j.docs THEN NoChunks ELSE mark[d]]
    BY <1>23 DEF Purge
  <2>2. \A e \in Doc \ j.docs : Matches(mark[e], es[e])
    BY <1>9, <2>1 DEF Excused
  <2>3. \A L : Matches(NoChunks, L)
    BY DEF Matches, NoChunks
  <2>4. \A e \in Doc : Matches(mark'[e], es'[e])
    BY <2>1, <2>2, <2>3
  <2> QED
    BY <1>8, <2>1, <2>4
<1>24. ~Fail(p)
  BY DEF Fail
<1> QED
  BY <1>10, <1>11, <1>12, <1>13, <1>14, <1>15, <1>16, <1>17, <1>18, <1>19, <1>20, <1>21,
     <1>22, <1>23, <1>24 DEF Ingest, Extract, Clean

\* Mentions follow their markers: where both are moved, stored or purged.
LEMMA RelocatedOwned ==
    ASSUME NEW old, NEW new, NEW f, NEW S, old \in Part(Text), new \in Part(Text),
           f \in Part(Version), Matches(f, old), S \in SUBSET (Slot \X Text), OwnedBy(f, S)
    PROVE  OwnedBy(Rekeyed(old, new, f), Relocated(old, new, S))
<1>0. DOMAIN new \subseteq Slot
  BY PartSub
<1>1. \A s \in DOMAIN f : s \in Slot /\ f[s] \in Version
  BY PartSub
<1>2. ASSUME NEW t \in Slot, NEW c \in Text, <<t, c>> \in Relocated(old, new, S)
      PROVE  t \in DOMAIN Rekeyed(old, new, f) /\ Rekeyed(old, new, f)[t].text = c
  <2>1. PICK m \in S : <<t, c>> = <<Target(old, new, m[1]), m[2]>> /\ m[1] \notin Gone(old, new)
    BY <1>2 DEF Relocated
  <2> DEFINE s == m[1]
  <2>2. s \in Slot /\ m = <<s, c>> /\ Target(old, new, s) = t /\ s \notin Gone(old, new)
    BY <2>1
  <2>3. s \in DOMAIN f \ Gone(old, new) /\ f[s].text = c
    BY <2>2 DEF OwnedBy
  <2>4. s \in DOMAIN old /\ old[s] = c
    BY <2>3 DEF Matches
  <2> HIDE DEF s
  <2>5. t \in DOMAIN Rekeyed(old, new, f)
    BY <2>2, <2>3, RekeyedMarks
  <2>6. new[t] = c
    BY <1>0, <2>2, <2>4, TargetFound
  <2>7. Matches(Rekeyed(old, new, f), new)
    BY RekeyedMatches
  <2> QED
    BY <2>5, <2>6, <2>7 DEF Matches
<1>3. ASSUME NEW t \in Slot, NEW c \in Text, t \in DOMAIN Rekeyed(old, new, f),
             Rekeyed(old, new, f)[t].text = c
      PROVE  <<t, c>> \in Relocated(old, new, S)
  <2>1. PICK s \in DOMAIN f \ Gone(old, new) :
           Target(old, new, s) = t /\ Rekeyed(old, new, f)[t] = f[s]
    BY <1>3, RekeyedMarks
  <2>2. <<s, c>> \in S
    BY <1>1, <1>3, <2>1 DEF OwnedBy
  <2> QED
    BY <2>1, <2>2, RelocatedKeeps
<1> QED
  BY <1>2, <1>3 DEF OwnedBy

\* Every step keeps the mentions those of the markers.
LEMMA OwnedStep ==
    ASSUME Typed, AllCurrent, SerialFits, Owned, serial, NEW p \in Proc,
           Ingest(p) \/ Extract(p) \/ Clean(p) \/ Fail(p)
    PROVE  Owned'
<1> DEFINE j == job[p]
<1>1. mention \in [Doc -> SUBSET (Slot \X Text)] /\ mark \in [Doc -> Part(Version)]
  BY DEF Typed, DataTypes, Table
<1>2. CASE Realign(p)
  <2>1. /\ j.d \in Doc /\ j.old \in Part(Text) /\ j.new \in Part(Text)
        /\ mention' = [mention EXCEPT ![j.d] = Relocated(j.old, j.new, mention[j.d])]
        /\ mark' = [mark EXCEPT ![j.d] = Rekeyed(j.old, j.new, mark[j.d])]
    BY <1>2, RealignDoes
  <2>2. Fits(j, es, mark) /\ j.pc = "realign"
    BY <1>2 DEF Realign, Turn, SerialFits
  <2>3. Matches(mark[j.d], j.old)
    BY <2>2 DEF Fits
  <2>4. mention[j.d] \in SUBSET (Slot \X Text) /\ mark[j.d] \in Part(Version)
    BY <1>1, <2>1
  <2>5. OwnedBy(Rekeyed(j.old, j.new, mark[j.d]), Relocated(j.old, j.new, mention[j.d]))
    BY <2>1, <2>3, <2>4, RelocatedOwned DEF Owned
  <2>6. mention'[j.d] = Relocated(j.old, j.new, mention[j.d])
        /\ mark'[j.d] = Rekeyed(j.old, j.new, mark[j.d])
    BY <1>1, <2>1
  <2>7. \A d \in Doc \ {j.d} : mention'[d] = mention[d] /\ mark'[d] = mark[d]
    BY <1>1, <2>1
  <2> QED
    BY <2>5, <2>6, <2>7 DEF Owned
<1>3. CASE Store(p)
  <2> DEFINE kept == IF j.fresh THEN mention[j.d] ELSE Replaced(mention[j.d], j.at)
  <2>1. /\ j.d \in Doc /\ j.at \in Slot /\ j.text \in Text /\ j.pc = "store"
        /\ mention' = [mention EXCEPT ![j.d] = kept \cup {<<j.at, j.text>>}]
        /\ mark' = [mark EXCEPT ![j.d] =
                       [s \in DOMAIN mark[j.d] \cup {j.at} |->
                           IF s = j.at THEN ItsVersion(j) ELSE mark[j.d][s]]]
    BY <1>3, StoreDoes
  <2>2. j.fresh => j.at \in DOMAIN mark[j.d] /\ mark[j.d][j.at] = ItsVersion(j)
    BY <2>1 DEF AllCurrent, Current, Committing
  <2>3. ASSUME NEW d \in Doc, NEW s \in Slot, NEW c \in Text
        PROVE  <<s, c>> \in mention'[d] <=> s \in DOMAIN mark'[d] /\ mark'[d][s].text = c
    <3>1. CASE d # j.d
      BY <1>1, <2>1, <3>1 DEF Owned, OwnedBy
    <3>2. CASE d = j.d /\ s = j.at
      <4>1. s \in DOMAIN mark'[d] /\ mark'[d][s].text = j.text
        BY <1>1, <2>1, <3>2 DEF ItsVersion
      <4>2. mention'[d] = kept \cup {<<j.at, j.text>>}
        BY <1>1, <2>1, <3>2
      <4>3. <<s, c>> \in kept => c = j.text
        BY <2>2, <3>2 DEF Owned, OwnedBy, Replaced, ItsVersion
      <4> QED
        BY <3>2, <4>1, <4>2, <4>3
    <3>3. CASE d = j.d /\ s # j.at
      <4>1. mention'[d] = kept \cup {<<j.at, j.text>>}
        BY <1>1, <2>1, <3>3
      <4>2. <<s, c>> \in kept <=> <<s, c>> \in mention[d]
        BY <3>3 DEF Replaced
      <4>3. (s \in DOMAIN mark'[d] <=> s \in DOMAIN mark[d])
            /\ (s \in DOMAIN mark[d] => mark'[d][s] = mark[d][s])
        BY <1>1, <2>1, <3>3
      <4>4. <<s, c>> \in mention[d] <=> s \in DOMAIN mark[d] /\ mark[d][s].text = c
        BY DEF Owned, OwnedBy
      <4> HIDE DEF kept
      <4> QED
        BY <3>3, <4>1, <4>2, <4>3, <4>4
    <3> QED
      BY <3>1, <3>2, <3>3
  <2> QED
    BY <2>3 DEF Owned, OwnedBy
<1>4. CASE Purge(p)
  <2>1. /\ mention' = [d \in Doc |-> IF d \in j.docs THEN {} ELSE mention[d]]
        /\ mark' = [d \in Doc |-> IF d \in j.docs THEN NoChunks ELSE mark[d]]
    BY <1>4 DEF Purge
  <2>2. DOMAIN NoChunks = {}
    BY DEF NoChunks
  <2>3. \A d \in Doc : \/ mention'[d] = {} /\ mark'[d] = NoChunks
                       \/ mention'[d] = mention[d] /\ mark'[d] = mark[d]
    BY <2>1
  <2>4. OwnedBy(NoChunks, {})
    BY <2>2 DEF OwnedBy
  <2> QED
    BY <2>3, <2>4 DEF Owned
<1>5. CASE ~Realign(p) /\ ~Store(p) /\ ~Purge(p)
  <2>1. mention' = mention /\ mark' = mark
    BY <1>5, OthersStay
  <2> QED
    BY <2>1 DEF Owned
<1> QED
  BY <1>2, <1>3, <1>4, <1>5

InSeries == Typed /\ (serial => AllCurrent /\ SerialFits /\ Owned)

\* The first state is one of calls in series.
LEMMA InSeriesInit == Init => InSeries
<1> SUFFICES ASSUME Init, serial PROVE AllCurrent /\ SerialFits /\ Owned
  BY TypedInit DEF InSeries
<1>1. AllCurrent
  BY IdleCall DEF Init, AllCurrent, Current, Committing
<1>2. \A d \in Doc : mention[d] = {} /\ DOMAIN mark[d] = {}
  BY DEF Init, NoChunks
<1>3. Fits(Idle, es, mark)
  BY <1>2, IdleCall DEF Fits, Matches, Extracting
<1>4. SerialFits
  BY <1>3 DEF Init, SerialFits
<1>5. Owned
  BY <1>2 DEF Owned, OwnedBy
<1> QED
  BY <1>1, <1>4, <1>5

\* Every step keeps the calls in series.
LEMMA InSeriesNext == InSeries /\ [Next]_vars => InSeries'
<1> SUFFICES ASSUME InSeries, [Next]_vars PROVE InSeries'
  OBVIOUS
<1>0. Typed'
  BY TypedNext DEF InSeries
<1>1. CASE Next
  <2>1. PICK p \in Proc : Ingest(p) \/ Extract(p) \/ Clean(p) \/ Fail(p)
    BY <1>1 DEF Next
  <2>2. serial' = serial
    BY <1>1 DEF Next
  <2>3. ASSUME serial PROVE AllCurrent' /\ SerialFits' /\ Owned'
    BY <2>1, <2>3, CurrentStep, FitsStep, OwnedStep DEF InSeries, Undivided
  <2> QED
    BY <1>0, <2>2, <2>3 DEF InSeries
<1>2. CASE UNCHANGED vars
  BY <1>0, <1>2 DEF vars, InSeries, AllCurrent, Current, SerialFits, Owned
<1> QED
  BY <1>1, <1>2

\* A chunk that counts as extracted, and that is_pending therefore leaves
\* out for good, carries the concepts of its own text and of no other,
\* when calls are made one after the other.
THEOREM ExtractedIsFaithful == Spec => []Faithful
<1>1. InSeries => Faithful
  <2> SUFFICES ASSUME InSeries, serial, NEW d \in Doc, NEW s \in DOMAIN es[d], ~Pending(d, s)
               PROVE  {m \in mention[d] : m[1] = s} = {<<s, es[d][s]>>}
    BY DEF Faithful
  <2>1. /\ es[d] \in Part(Text) /\ mention[d] \in SUBSET (Slot \X Text)
        /\ s \in DOMAIN mark[d] /\ mark[d][s].text = es[d][s]
    BY DEF InSeries, Typed, DataTypes, Table, Pending
  <2>2. s \in Slot /\ es[d][s] \in Text
    BY <2>1, PartSub
  <2>3. \A c \in Text : <<s, c>> \in mention[d] <=> c = es[d][s]
    BY <2>1, <2>2 DEF InSeries, Owned, OwnedBy
  <2>4. \A m \in mention[d] : m[1] = s => m = <<s, es[d][s]>>
    BY <2>1, <2>3
  <2>5. <<s, es[d][s]>> \in mention[d] /\ <<s, es[d][s]>>[1] = s
    BY <2>2, <2>3
  <2> QED
    BY <2>4, <2>5
<1>2. Spec => []InSeries
  BY InSeriesInit, InSeriesNext, PTL DEF Spec
<1> QED
  BY <1>1, <1>2, PTL
=============================================================================
