--------------------------- MODULE DocIndexProofs ---------------------------
(***************************************************************************)
(* Proofs about DocIndex, for any documents, texts, slots, writers and     *)
(* number of edits: the state is well formed, an archived document keeps   *)
(* its mark, a sync that ends has recovered everything it set out to, no   *)
(* row of the document table is forgotten, and a document the row calls    *)
(* unchanged is unchanged.                                                 *)
(*                                                                         *)
(* None is inductive: a writer goes through a snapshot, a plan, a bulk per *)
(* document and a refresh of the rows, so each invariant says what a       *)
(* writer in the middle of it still knows.  SnapInv: its plan was made of  *)
(* the index as it is, but for what the writer did itself.  SyncInv: what  *)
(* a sync is to do covers what differs.  RowInv: a row that is not right   *)
(* is due.  MarkInv: the mark a writer carries is the one in the index.    *)
(*                                                                         *)
(* They hold of one writer at a time (SingleWriter).  Nothing in the code  *)
(* keeps two from running, and then they fail: see the run of two writers. *)
(* Those about rows need bulks that do not fail in part (~MayFail): see    *)
(* the run in which one does.                                              *)
(***************************************************************************)
EXTENDS DocIndex, FiniteSetTheorems, TLAPS

\* Lowest picks the smallest element of every nonempty set of numbers: among
\* the finite intervals 0..s with s in S, strict inclusion has a minimal one.
LEMMA LowestInSet ==
    ASSUME NEW S \in SUBSET Nat, S # {}
    PROVE  Lowest(S) \in S /\ \A t \in S : Lowest(S) <= t
<1> DEFINE T == {0 .. s : s \in S}
<1>1. T \subseteq FiniteSubsetsOf(Nat) /\ T # {}
  <2>1. \A s \in S : 0 .. s \subseteq Nat /\ IsFiniteSet(0 .. s)
    BY FS_Interval
  <2> QED
    BY <2>1 DEF FiniteSubsetsOf
<1>2. PICK x \in T : \A y \in T : <<y, x>> \notin StrictSubsetOrdering(Nat)
  BY <1>1, FS_StrictSubsetOrderingWellFounded, WFMin
<1>3. PICK s \in S : x = 0 .. s
  BY <1>2
<1>4. \A t \in S : s <= t
  <2> SUFFICES ASSUME NEW t \in S, t < s PROVE FALSE
    OBVIOUS
  <2>1. 0 .. t \subseteq 0 .. s /\ s \in 0 .. s /\ s \notin 0 .. t
    OBVIOUS
  <2>2. <<0 .. t, 0 .. s>> \in StrictSubsetOrdering(Nat)
    BY <2>1 DEF StrictSubsetOrdering
  <2> QED
    BY <1>2, <1>3, <2>2
<1> QED
  BY <1>4 DEF Lowest

\* Points at which a call goes on after its document rows are written.
Continuations == {"idle", "prepare", "list", "prune", "unarchive"}

\* What a call may need of its local state at the point where it stands.
Ready(j) ==
    /\ j.then \in Continuations
    /\ j.pc \in {"existing", "copy"} => j.cur \in Doc /\ j.read \in File
    /\ j.pc = "copy" => IsPartial(j.old, Slot, Snapshot)
    /\ j.pc \in {"empty", "drop"} => j.cur \in Doc
    /\ j.pc = "rows" => j.due # {}
    /\ j.pc = "apply" => j.todo \subseteq DOMAIN j.delta
    /\ j.op = "restore" => j.cur \in Doc \/ (j.pc = "prepare" /\ j.todo # {})
    /\ "unarchive" \in {j.pc, j.then} => j.op = "restore"

TypeInv == TypeOK /\ \A w \in Writer : Ready(job[w])

\* The idle call is well formed.
LEMMA IdleOK == JobOK(Idle) /\ Ready(Idle)
  BY NoneAssumption DEF JobOK, Ready, Continuations, Idle, IsPartial, NoChunks, Points, Ops, Continuations

\* A step that only replaces one job by a well-formed one.
LEMMA GoOK ==
    ASSUME TypeInv, NEW w \in Writer, NEW j, JobOK(j), Ready(j), Go(w, j)
    PROVE  /\ DOMAIN job' = Writer
           /\ \A v \in Writer : JobOK(job'[v]) /\ Ready(job'[v])
  BY DEF TypeInv, TypeOK, Go

\* The body of a file is a partial map from slots to texts.
LEMMA BodyOK ==
    ASSUME NEW b \in Body
    PROVE  DOMAIN b \subseteq Slot /\ b \in [DOMAIN b -> Text]
  BY BoundAssumption DEF Body, Slot

\* Reading a file keeps the call well formed.
LEMMA ReadFileOK ==
    ASSUME TypeInv, NEW w \in Writer, ReadFile(w)
    PROVE  TypeInv'
<1> DEFINE j == job[w]
           d == Lowest(j.todo)
           next == [j EXCEPT !.todo = j.todo \ {d}, !.cur = d]
<1>1. JobOK(j) /\ Ready(j) /\ j.pc = "prepare" /\ j.todo # {}
  BY DEF TypeInv, TypeOK, ReadFile
<1>2. d \in Doc /\ d \in j.todo
  BY <1>1, LowestInSet, DocAssumption DEF JobOK
<1>3. CASE ~Readable(d)
  <2>1. Go(w, Idle)
    BY <1>3 DEF ReadFile
  <2> QED
    BY <2>1, IdleOK, GoOK DEF TypeInv, TypeOK, ReadFile
<1>4. CASE Readable(d) /\ DOMAIN file[d].body = {}
  <2> DEFINE n == [next EXCEPT !.pc = "empty"]
  <2>1. Go(w, n)
    BY <1>4 DEF ReadFile
  <2>2. JobOK(n) /\ Ready(n)
    BY <1>1, <1>2 DEF JobOK, Ready, Continuations, Idle, Points, Ops
  <2> QED
    BY <2>1, <2>2, GoOK DEF TypeInv, TypeOK, ReadFile
<1>5. CASE Readable(d) /\ DOMAIN file[d].body # {}
  <2> DEFINE n == [next EXCEPT !.pc = "existing", !.read = file[d]]
  <2>1. Go(w, n)
    BY <1>5 DEF ReadFile
  <2>2. JobOK(n) /\ Ready(n)
    BY <1>1, <1>2, <1>5
       DEF JobOK, Ready, Continuations, Idle, Points, Ops, TypeInv, TypeOK, Has, Readable
  <2> QED
    BY <2>1, <2>2, GoOK DEF TypeInv, TypeOK, ReadFile
<1> QED
  BY <1>3, <1>4, <1>5

\* Reading an empty file again keeps the call well formed.
LEMMA ReadAgainOK ==
    ASSUME TypeInv, NEW w \in Writer, ReadAgain(w)
    PROVE  TypeInv'
<1> DEFINE j == job[w]
           n(p) == [j EXCEPT !.pc = p]
<1>1. JobOK(j) /\ Ready(j) /\ j.pc = "empty" /\ j.cur \in Doc
  BY DEF TypeInv, TypeOK, ReadAgain, Ready
<1>2. \A p \in {"drop", "prepare"} : JobOK(n(p)) /\ Ready(n(p))
  BY <1>1 DEF JobOK, Ready, Continuations, Idle, Points, Ops
<1>3. Go(w, Idle) \/ \E p \in {"drop", "prepare"} : Go(w, n(p))
  BY DEF ReadAgain
<1> QED
  BY <1>2, <1>3, IdleOK, GoOK DEF TypeInv, TypeOK, ReadAgain

\* Reading the existing chunks keeps the call well formed.
LEMMA ReadExistingOK ==
    ASSUME TypeInv, NEW w \in Writer, ReadExisting(w)
    PROVE  TypeInv'
<1> DEFINE j == job[w]
           old == [s \in DOMAIN es[j.cur] |->
                      [text |-> es[j.cur][s].text, arch |-> es[j.cur][s].arch]]
           n == [j EXCEPT !.pc = "copy", !.old = old]
<1>1. JobOK(j) /\ Ready(j) /\ j.cur \in Doc /\ j.read \in File /\ j.pc = "existing"
  BY DEF TypeInv, TypeOK, ReadExisting, Ready
<1>2. IsPartial(old, Slot, Snapshot)
  BY <1>1 DEF TypeInv, TypeOK, IsPartial, Chunk, Snapshot
<1>3. JobOK(n) /\ Ready(n)
  <2> HIDE DEF old
  <2> QED
    BY <1>1, <1>2 DEF JobOK, Ready, Continuations, Idle, Points, Ops
<1>4. Go(w, Idle) \/ Go(w, n)
  BY DEF ReadExisting
<1> QED
  BY <1>3, <1>4, IdleOK, GoOK DEF TypeInv, TypeOK, ReadExisting

\* A carried marker is a marker.
LEMMA CarriedOK ==
    ASSUME NEW read \in File, NEW old, IsPartial(old, Slot, Snapshot)
    PROVE  Carried(read, old) \in Mark
<1>1. Stamps(old) \subseteq Mark
  BY DEF Stamps, IsPartial, Snapshot, Mark
<1> QED
  BY <1>1 DEF Carried, File, Mark

\* A planned vector is the vector of some text.
LEMMA PlannedVectorOK ==
    ASSUME NEW c, IsPartial(c, Slot, Chunk), NEW old, NEW t \in Text
    PROVE  PlannedVector(c, old, t) \in Text
  BY DEF PlannedVector, IsPartial, Chunk

\* Preparing a delta keeps the call well formed.
LEMMA CopyVectorsOK ==
    ASSUME TypeInv, NEW w \in Writer, CopyVectors(w)
    PROVE  TypeInv'
<1> DEFINE j == job[w]
           new == [s \in DOMAIN j.read.body |->
                      [text |-> j.read.body[s],
                       vec |-> PlannedVector(es[j.cur], j.old, j.read.body[s]),
                       arch |-> Carried(j.read, j.old)]]
           delta == [d \in DOMAIN j.delta \cup {j.cur} |->
                        IF d = j.cur THEN [old |-> j.old, new |-> new] ELSE j.delta[d]]
           n == [j EXCEPT !.pc = "prepare", !.read = None, !.old = None, !.delta = delta]
<1>1. /\ JobOK(j) /\ Ready(j) /\ j.cur \in Doc /\ j.read \in File /\ j.pc = "copy"
      /\ IsPartial(j.old, Slot, Snapshot)
  BY DEF TypeInv, TypeOK, CopyVectors, Ready
<1>2. IsPartial(new, Slot, Chunk)
  <2>1. DOMAIN j.read.body \subseteq Slot /\ \A s \in DOMAIN j.read.body : j.read.body[s] \in Text
    BY <1>1, BodyOK DEF File
  <2>2. \A s \in DOMAIN j.read.body : PlannedVector(es[j.cur], j.old, j.read.body[s]) \in Text
    BY <1>1, <2>1, PlannedVectorOK DEF TypeInv, TypeOK
  <2>3. Carried(j.read, j.old) \in Mark
    BY <1>1, CarriedOK
  <2>4. \A s \in DOMAIN j.read.body : new[s] \in Chunk
    BY <2>1, <2>2, <2>3 DEF Chunk
  <2> QED
    BY <2>1, <2>4 DEF IsPartial
<1>3. DOMAIN delta \subseteq Doc /\ \A d \in DOMAIN delta : IsDelta(delta[d])
  <2> HIDE DEF new
  <2> QED
    BY <1>1, <1>2 DEF JobOK, IsDelta
<1>4. JobOK(n) /\ Ready(n)
  <2> HIDE DEF delta
  <2> QED
    BY <1>1, <1>3 DEF JobOK, Ready, Continuations, Idle, Points, Ops
<1>5. Go(w, n)
  BY DEF CopyVectors
<1> QED
  BY <1>4, <1>5, GoOK DEF TypeInv, TypeOK, CopyVectors

\* Going over to the bulk writes keeps the call well formed.
LEMMA BeginApplyOK ==
    ASSUME TypeInv, NEW w \in Writer, BeginApply(w)
    PROVE  TypeInv'
<1> DEFINE n == [job[w] EXCEPT !.pc = "apply", !.todo = DOMAIN job[w].delta]
<1>1. JobOK(job[w]) /\ Ready(job[w]) /\ job[w].pc = "prepare" /\ job[w].todo = {}
  BY DEF TypeInv, TypeOK, BeginApply
<1>2. JobOK(n) /\ Ready(n)
  BY <1>1 DEF JobOK, Ready, Continuations, Idle, Points, Ops
<1> QED
  BY <1>2, GoOK DEF TypeInv, TypeOK, BeginApply

\* A bulk over any of its slots leaves well-formed chunks.
LEMMA AfterBulkOK ==
    ASSUME NEW c, IsPartial(c, Slot, Chunk), NEW x, IsDelta(x), NEW S
    PROVE  IsPartial(AfterBulk(c, x, S), Slot, Chunk)
<1>1. Indexed(x) \subseteq Slot /\ \A s \in Indexed(x) : x.new[s] \in Chunk
  BY DEF IsDelta, IsPartial, Indexed
<1>2. ASSUME NEW s \in DOMAIN c, s \in MetaUpdates(x)
      PROVE  [c[s] EXCEPT !.arch = x.new[s].arch] \in Chunk
  BY <1>2 DEF IsDelta, IsPartial, MetaUpdates, Chunk
<1>3. \A s \in DOMAIN c : c[s] \in Chunk
  BY DEF IsPartial
<1>4. DOMAIN AfterBulk(c, x, S) \subseteq Slot
  BY <1>1 DEF AfterBulk, IsPartial
<1>5. \A s \in DOMAIN AfterBulk(c, x, S) : AfterBulk(c, x, S)[s] \in Chunk
  BY <1>1, <1>2, <1>3 DEF AfterBulk
<1> QED
  BY <1>4, <1>5 DEF IsPartial, AfterBulk

\* One bulk write keeps the types, whatever part of it landed.
LEMMA ApplyOK ==
    ASSUME TypeInv, NEW w \in Writer, Apply(w)
    PROVE  TypeInv'
<1> DEFINE j == job[w]
           d == Lowest(j.todo)
           x == j.delta[d]
<1>1. JobOK(j) /\ Ready(j) /\ j.pc = "apply" /\ j.todo # {}
  BY DEF TypeInv, TypeOK, Apply
<1>2. d \in Doc /\ d \in j.todo /\ IsDelta(x)
  BY <1>1, LowestInSet, DocAssumption DEF JobOK, Ready
<1>3. PICK S \in Landed(Touched(x)) :
        /\ es' = [es EXCEPT ![d] = AfterBulk(es[d], x, S)]
        /\ Go(w, IF S = Touched(x) /\ MetaUpdates(x) \subseteq DOMAIN es[d]
                 THEN [j EXCEPT !.todo = j.todo \ {d},
                                !.due = IF S = {} THEN @ ELSE @ \cup {d}]
                 ELSE Idle)
  BY DEF Apply
<1> DEFINE n == [j EXCEPT !.todo = j.todo \ {d},
                          !.due = IF S = {} THEN @ ELSE @ \cup {d}]
<1>4. JobOK(n) /\ Ready(n)
  <2> HIDE DEF d
  <2> QED
    BY <1>1, <1>2 DEF JobOK, Ready, Continuations, Idle, Points, Ops
<1>5. Go(w, Idle) \/ Go(w, n)
  BY <1>3
<1>6. DOMAIN es' = Doc /\ \A e \in Doc : IsPartial(es'[e], Slot, Chunk)
  <2>1. IsPartial(AfterBulk(es[d], x, S), Slot, Chunk)
    BY <1>2, AfterBulkOK DEF TypeInv, TypeOK
  <2> HIDE DEF d
  <2> QED
    BY <1>2, <1>3, <2>1 DEF TypeInv, TypeOK
<1> QED
  BY <1>4, <1>5, <1>6, IdleOK, GoOK DEF TypeInv, TypeOK, Apply

\* Going on at a point that needs nothing of the local state.
LEMMA RefreshingOK ==
    ASSUME NEW j, JobOK(j), Ready(j), NEW ds \in SUBSET Doc,
           NEW p \in Continuations,
           p = "unarchive" => j.op = "restore",
           j.op = "restore" => j.cur \in Doc
    PROVE  JobOK(Refreshing(j, ds, p)) /\ Ready(Refreshing(j, ds, p))
<1>1. CASE ds # {}
  <2> DEFINE n == [j EXCEPT !.pc = "rows", !.then = p, !.due = ds]
  <2>1. JobOK(n)
    BY <1>1 DEF JobOK, Continuations, Idle, Points, Ops
  <2>2. Ready(n)
    BY <1>1 DEF JobOK, Ready, Continuations, Idle
  <2> QED
    BY <1>1, <2>1, <2>2 DEF Refreshing
<1>2. CASE ds = {} /\ p = "idle"
  BY <1>2, IdleOK DEF Refreshing, At
<1>3. CASE ds = {} /\ p # "idle"
  <2> DEFINE n == [j EXCEPT !.pc = p]
  <2>1. n = Refreshing(j, ds, p)
    BY <1>3 DEF Refreshing, At
  <2>2. JobOK(n)
    BY <1>3 DEF JobOK, Continuations, Idle, Points, Ops
  <2>3. Ready(n)
    BY <1>3 DEF JobOK, Ready, Continuations, Idle
  <2> QED
    BY <2>1, <2>2, <2>3
<1> QED
  BY <1>1, <1>2, <1>3

\* Ending the bulk writes keeps the call well formed.
LEMMA FinishApplyOK ==
    ASSUME TypeInv, NEW w \in Writer, FinishApply(w)
    PROVE  TypeInv'
<1> DEFINE j == [job[w] EXCEPT !.delta = NoChunks]
<1>1. JobOK(job[w]) /\ Ready(job[w]) /\ job[w].pc = "apply" /\ job[w].todo = {}
  BY DEF TypeInv, TypeOK, FinishApply
<1>2. /\ JobOK(j) /\ Ready(j) /\ job[w].due \in SUBSET Doc /\ j.op = job[w].op
      /\ j.op = "restore" => j.cur \in Doc
  BY <1>1 DEF JobOK, Ready, Idle, NoChunks
<1>3. /\ AfterIngest(j.op) \in Continuations
      /\ AfterIngest(j.op) = "unarchive" => j.op = "restore"
  BY <1>1, <1>2 DEF AfterIngest, JobOK, Ops, Continuations
<1>4. Go(w, Refreshing(j, job[w].due, AfterIngest(j.op)))
  BY <1>2 DEF FinishApply
<1> HIDE DEF j
<1> QED
  BY <1>2, <1>3, <1>4, RefreshingOK, GoOK DEF TypeInv, TypeOK, FinishApply

\* A row derived from chunks is a row.
LEMMA DocRowOK ==
    ASSUME NEW c, IsPartial(c, Slot, Chunk)
    PROVE  DocRow(c) \in Row \cup {None}
<1>1. CASE DOMAIN c = {}
  BY <1>1 DEF DocRow
<1>2. CASE DOMAIN c # {}
  <2>1. c[Lowest(DOMAIN c)].arch \in Mark
    BY <1>2, LowestInSet DEF IsPartial, Slot, Chunk
  <2>2. ASSUME NEW t \in Text
        PROVE  Cardinality({s \in DOMAIN c : c[s].vec = t}) \in Nat
    <3>1. IsFiniteSet(Slot)
      BY FS_Interval, BoundAssumption DEF Slot
    <3>2. {s \in DOMAIN c : c[s].vec = t} \in SUBSET Slot
      BY DEF IsPartial
    <3> QED
      BY <3>1, <3>2, FS_Subset, FS_CardinalityType
  <2> QED
    BY <1>2, <2>1, <2>2 DEF DocRow, Row
<1> QED
  BY <1>1, <1>2

\* Reading chunks for a row keeps the call well formed.
LEMMA ReadRowOK ==
    ASSUME TypeInv, NEW w \in Writer, ReadRow(w)
    PROVE  TypeInv'
<1> DEFINE j == job[w]
           d == Lowest(j.due)
           row == DocRow(es[d])
           buf == [e \in DOMAIN j.buf \cup {d} |-> IF e = d THEN row ELSE j.buf[e]]
           n == [j EXCEPT !.due = j.due \ {d},
                          !.pc = IF j.due = {d} THEN "bulk" ELSE "rows",
                          !.buf = buf]
<1>1. JobOK(j) /\ Ready(j) /\ j.pc = "rows" /\ j.due # {}
  BY DEF TypeInv, TypeOK, ReadRow, Ready
<1>2. d \in Doc /\ d \in j.due
  BY <1>1, LowestInSet, DocAssumption DEF JobOK
<1>3. row \in Row \cup {None}
  BY <1>2, DocRowOK DEF TypeInv, TypeOK
<1>4. Go(w, n)
  BY DEF ReadRow
<1>5. IsPartial(buf, Doc, Row \cup {None})
  <2> HIDE DEF d, row
  <2> QED
    BY <1>1, <1>2, <1>3 DEF JobOK, IsPartial
<1>6. JobOK(n) /\ Ready(n)
  <2> HIDE DEF d, buf
  <2> QED
    BY <1>1, <1>2, <1>5 DEF JobOK, Ready, Continuations, Idle, Points, Ops
<1> QED
  BY <1>4, <1>6, GoOK DEF TypeInv, TypeOK, ReadRow

\* Writing rows keeps the types, whatever part of them landed.
LEMMA WriteRowsOK ==
    ASSUME TypeInv, NEW w \in Writer, WriteRows(w)
    PROVE  TypeInv'
<1> DEFINE j == job[w]
           k == [j EXCEPT !.buf = NoChunks]
<1>1. JobOK(j) /\ Ready(j) /\ j.pc = "bulk"
  BY DEF TypeInv, TypeOK, WriteRows
<1>2. PICK S \in Landed(DOMAIN j.buf) :
        /\ rows' = [d \in Doc |-> IF d \in S THEN j.buf[d] ELSE rows[d]]
        /\ Go(w, IF S = DOMAIN j.buf THEN At(k, j.then) ELSE Idle)
  BY DEF WriteRows
<1>3. S \subseteq DOMAIN j.buf
  BY DEF Landed
<1>4. rows' \in [Doc -> Row \cup {None}]
  BY <1>1, <1>2, <1>3 DEF TypeInv, TypeOK, JobOK, IsPartial
<1>5. JobOK(At(k, j.then)) /\ Ready(At(k, j.then))
  <2>1. CASE j.then = "idle"
    BY <2>1, IdleOK DEF At
  <2>2. CASE j.then # "idle"
    <3> DEFINE n == [k EXCEPT !.pc = j.then]
    <3>1. JobOK(n)
      BY <1>1 DEF JobOK, Idle, IsPartial, NoChunks
    <3>2. Ready(n)
      BY <1>1, <2>2 DEF JobOK, Ready, Continuations, Idle
    <3> QED
      BY <2>2, <3>1, <3>2 DEF At
  <2> QED
    BY <2>1, <2>2
<1> HIDE DEF k
<1> QED
  BY <1>2, <1>4, <1>5, IdleOK, GoOK DEF TypeInv, TypeOK, WriteRows

\* A by-query write of one document.
LEMMA WriteOneOK ==
    ASSUME TypeInv, NEW w \in Writer, NEW d \in Doc,
           NEW c, IsPartial(c, Slot, Chunk), es' = [es EXCEPT ![d] = c],
           NEW j, JobOK(j), Ready(j), NEW p \in Continuations,
           p = "unarchive" => j.op = "restore",
           j.op = "restore" => j.cur \in Doc,
           Go(w, Refreshing(j, {d}, p)) \/ Go(w, Idle),
           UNCHANGED <<file, rows, clean>>
    PROVE  TypeInv'
<1>1. JobOK(Refreshing(j, {d}, p)) /\ Ready(Refreshing(j, {d}, p))
  BY RefreshingOK
<1>2. DOMAIN es' = Doc /\ \A e \in Doc : IsPartial(es'[e], Slot, Chunk)
  BY DEF TypeInv, TypeOK
<1> QED
  BY <1>1, <1>2, IdleOK, GoOK DEF TypeInv, TypeOK

\* Deleting slots leaves a partial map of chunks.
LEMMA WithoutOK ==
    ASSUME NEW c, IsPartial(c, Slot, Chunk), NEW S
    PROVE  IsPartial(Without(c, S), Slot, Chunk)
  BY DEF IsPartial, Without

\* Stamping slots leaves a partial map of chunks.
LEMMA StampedOK ==
    ASSUME NEW c, IsPartial(c, Slot, Chunk), NEW S, NEW m \in Mark
    PROVE  IsPartial(Stamped(c, S, m), Slot, Chunk)
<1>1. \A s \in DOMAIN c : [c[s] EXCEPT !.arch = m] \in Chunk
  BY DEF IsPartial, Chunk
<1> QED
  BY <1>1 DEF IsPartial, Stamped

\* Deleting a document keeps the types.
LEMMA DeleteDocumentOK ==
    ASSUME TypeInv, NEW w \in Writer, NEW d \in Doc, DeleteDocument(w, d)
    PROVE  TypeInv'
<1>1. JobOK(job[w]) /\ Ready(job[w]) /\ job[w].pc = "idle"
  BY DEF TypeInv, TypeOK, DeleteDocument
<1>2. PICK S : /\ es' = [es EXCEPT ![d] = Without(es[d], S)]
               /\ Go(w, Refreshing(job[w], {d}, "idle")) \/ Go(w, Idle)
  BY DEF DeleteDocument, ByQuery
<1>3. IsPartial(Without(es[d], S), Slot, Chunk)
  BY WithoutOK DEF TypeInv, TypeOK
<1>4. UNCHANGED <<file, rows, clean>> /\ "idle" \in Continuations
  BY DEF DeleteDocument, ByQuery, Continuations
<1> QED
  BY <1>1, <1>2, <1>3, <1>4, WriteOneOK DEF Ready

\* Dropping an emptied document keeps the types.
LEMMA DropEmptyOK ==
    ASSUME TypeInv, NEW w \in Writer, DropEmpty(w)
    PROVE  TypeInv'
<1> DEFINE d == job[w].cur
<1>1. JobOK(job[w]) /\ Ready(job[w]) /\ job[w].pc = "drop" /\ d \in Doc
  BY DEF TypeInv, TypeOK, DropEmpty, Ready
<1>2. PICK S : /\ es' = [es EXCEPT ![d] = Without(es[d], S)]
               /\ Go(w, Refreshing(job[w], {d}, "prepare")) \/ Go(w, Idle)
  BY DEF DropEmpty, ByQuery
<1>3. IsPartial(Without(es[d], S), Slot, Chunk)
  BY <1>1, WithoutOK DEF TypeInv, TypeOK
<1>4. UNCHANGED <<file, rows, clean>> /\ "prepare" \in Continuations
  BY DEF DropEmpty, ByQuery, Continuations
<1> QED
  BY <1>1, <1>2, <1>3, <1>4, WriteOneOK DEF Ready

\* Pruning a document keeps the types.
LEMMA PruneOneOK ==
    ASSUME TypeInv, NEW w \in Writer, PruneOne(w)
    PROVE  TypeInv'
<1> DEFINE d == Lowest(job[w].todo)
           j == [job[w] EXCEPT !.todo = @ \ {d}]
<1>1. JobOK(job[w]) /\ Ready(job[w]) /\ job[w].pc = "prune" /\ job[w].todo # {}
  BY DEF TypeInv, TypeOK, PruneOne
<1>2. d \in Doc
  BY <1>1, LowestInSet, DocAssumption DEF JobOK
<1>3. PICK S : /\ es' = [es EXCEPT ![d] = Without(es[d], S)]
               /\ Go(w, Refreshing(j, {d}, "prune")) \/ Go(w, Idle)
  BY DEF PruneOne, ByQuery
<1>4. IsPartial(Without(es[d], S), Slot, Chunk)
  BY <1>2, WithoutOK DEF TypeInv, TypeOK
<1>5. UNCHANGED <<file, rows, clean>> /\ "prune" \in Continuations
  BY DEF PruneOne, ByQuery, Continuations
<1>6. /\ JobOK(j) /\ Ready(j)
      /\ j.op = "restore" => j.cur \in Doc
  <2> HIDE DEF d
  <2> QED
    BY <1>1 DEF JobOK, Ready, Continuations, Idle
<1> HIDE DEF j, d
<1> QED
  BY <1>2, <1>3, <1>4, <1>5, <1>6, WriteOneOK

\* The call that starts an ingest is well formed.
LEMMA IngestingOK ==
    ASSUME NEW op \in {"ingest", "sync", "restore"}, NEW ds \in SUBSET Doc,
           op = "restore" => ds # {}
    PROVE  JobOK(Ingesting(op, ds)) /\ Ready(Ingesting(op, ds))
<1>1. JobOK(Ingesting(op, ds))
  BY DEF Ingesting, JobOK, Idle, IsPartial, NoChunks, Points, Ops
<1>2. Ready(Ingesting(op, ds))
  BY DEF Ingesting, Ready, Idle, Continuations
<1> QED
  BY <1>1, <1>2

\* Starting an ingest or a sync keeps the types.
LEMMA StartOK ==
    ASSUME TypeInv, NEW w \in Writer,
           StartSync(w) \/ \E d \in Doc : StartIngest(w, d)
    PROVE  TypeInv'
<1>1. PICK op \in {"ingest", "sync"}, ds \in SUBSET Doc : Go(w, Ingesting(op, ds))
  BY DEF StartSync, StartIngest
<1>2. UNCHANGED <<file, es, rows>> /\ clean' \in [Writer -> SUBSET Doc]
  BY DEF StartSync, StartIngest, TypeInv, TypeOK
<1> QED
  BY <1>1, <1>2, IngestingOK, GoOK DEF TypeInv, TypeOK

\* Writing or stripping the marker of a file keeps the types.
LEMMA MarkFileOK ==
    ASSUME TypeInv, NEW w \in Writer, NEW d \in Doc,
           RestoreFile(w, d) \/ \E t \in Stamp : ArchiveFile(w, d, t)
    PROVE  TypeInv'
<1>1. PICK op \in {"ingest", "restore"} : Go(w, Ingesting(op, {d}))
  BY DEF RestoreFile, ArchiveFile
<1>2. UNCHANGED <<es, rows>> /\ clean' \in [Writer -> SUBSET Doc]
  BY DEF RestoreFile, ArchiveFile, TypeInv, TypeOK
<1>3. PICK m \in Mark : file' = [file EXCEPT ![d].arch = m]
  BY DEF RestoreFile, ArchiveFile, Mark
<1>4. file[d] \in File
  BY DEF RestoreFile, ArchiveFile, InFrontmatter, Has, TypeInv, TypeOK
<1>5. [file[d] EXCEPT !.arch = m] \in File
  BY <1>4 DEF File
<1>6. file' \in [Doc -> File \cup {None}]
  BY <1>3, <1>5 DEF TypeInv, TypeOK
<1> QED
  BY <1>1, <1>2, <1>6, IngestingOK, GoOK DEF TypeInv, TypeOK

\* Archiving in the index keeps the types.
LEMMA ArchiveInIndexOK ==
    ASSUME TypeInv, NEW w \in Writer, NEW d \in Doc, NEW t \in Stamp,
           ArchiveInIndex(w, d, t)
    PROVE  TypeInv'
<1>1. JobOK(job[w]) /\ Ready(job[w]) /\ job[w].pc = "idle"
  BY DEF TypeInv, TypeOK, ArchiveInIndex
<1>2. PICK S : /\ es' = [es EXCEPT ![d] = Stamped(es[d], S, t)]
               /\ Go(w, Refreshing(job[w], {d}, "idle")) \/ Go(w, Idle)
  BY DEF ArchiveInIndex, ByQuery
<1>3. IsPartial(Stamped(es[d], S, t), Slot, Chunk)
  BY StampedOK DEF TypeInv, TypeOK, Mark
<1>4. UNCHANGED <<file, rows, clean>> /\ "idle" \in Continuations
  BY DEF ArchiveInIndex, ByQuery, Continuations
<1> QED
  BY <1>1, <1>2, <1>3, <1>4, WriteOneOK DEF Ready

\* Clearing the marker in the index keeps the types.
LEMMA UnstampOK ==
    ASSUME TypeInv, NEW w \in Writer, NEW d \in Doc, Unstamp(w, d),
           job[w].pc # "prepare"
    PROVE  TypeInv'
<1>1. JobOK(job[w]) /\ Ready(job[w])
  BY DEF TypeInv, TypeOK
<1>2. PICK S : /\ es' = [es EXCEPT ![d] = Stamped(es[d], S, None)]
               /\ Go(w, Refreshing(job[w], {d}, "idle")) \/ Go(w, Idle)
  BY DEF Unstamp, ByQuery
<1>3. IsPartial(Stamped(es[d], S, None), Slot, Chunk)
  BY StampedOK DEF TypeInv, TypeOK, Mark
<1>4. UNCHANGED <<file, rows, clean>> /\ "idle" \in Continuations
  BY DEF Unstamp, ByQuery, Continuations
<1> QED
  BY <1>1, <1>2, <1>3, <1>4, WriteOneOK DEF Ready

\* The second half of a restore keeps the types.
LEMMA UnarchiveOK ==
    ASSUME TypeInv, NEW w \in Writer,
           Unarchive(w) \/ \E d \in Doc : RestoreInIndex(w, d)
    PROVE  TypeInv'
<1>1. CASE Unarchive(w)
  <2>1. job[w].pc = "unarchive" /\ job[w].cur \in Doc
    BY <1>1 DEF Unarchive, TypeInv, Ready
  <2> QED
    BY <1>1, <2>1, UnstampOK DEF Unarchive
<1>2. CASE \E d \in Doc : RestoreInIndex(w, d)
  BY <1>2, UnstampOK DEF RestoreInIndex
<1> QED
  BY <1>1, <1>2

\* Starting a purge keeps the types.
LEMMA StartPurgeOK ==
    ASSUME TypeInv, NEW w \in Writer, StartPurge(w)
    PROVE  TypeInv'
<1> DEFINE D == {d \in Doc : Archived(es[d]) # {}}
           j == [Idle EXCEPT !.pc = "purge", !.todo = D]
<1>1. JobOK(j)
  BY DEF JobOK, Idle, IsPartial, NoChunks, Points, Ops
<1>2. Ready(j)
  BY DEF Ready, Idle, Continuations
<1> QED
  BY <1>1, <1>2, GoOK DEF StartPurge, TypeInv, TypeOK

\* A purge keeps the types, whatever part of it landed.
LEMMA PurgeOK ==
    ASSUME TypeInv, NEW w \in Writer, Purge(w)
    PROVE  TypeInv'
<1> DEFINE j == [job[w] EXCEPT !.todo = {}]
<1>1. JobOK(job[w]) /\ Ready(job[w]) /\ job[w].pc = "purge"
  BY DEF TypeInv, TypeOK, Purge
<1>2. /\ JobOK(j) /\ Ready(j)
      /\ j.op = "restore" => j.cur \in Doc
      /\ job[w].todo \in SUBSET Doc
  BY <1>1 DEF JobOK, Ready, Continuations, Idle
<1>3. PICK S :
        /\ es' = [d \in Doc |-> Without(es[d], {s \in Slot : <<d, s>> \in S})]
        /\ Go(w, Refreshing(j, job[w].todo, "idle")) \/ Go(w, Idle)
  BY DEF Purge
<1>4. DOMAIN es' = Doc /\ \A d \in Doc : IsPartial(es'[d], Slot, Chunk)
  BY <1>3, WithoutOK DEF TypeInv, TypeOK
<1>5. "idle" \in Continuations
  BY DEF Continuations
<1> HIDE DEF j
<1>6. JobOK(Refreshing(j, job[w].todo, "idle")) /\ Ready(Refreshing(j, job[w].todo, "idle"))
  BY <1>2, <1>5, RefreshingOK
<1> QED
  BY <1>3, <1>4, <1>6, IdleOK, GoOK DEF Purge, TypeInv, TypeOK

\* Listing what to prune keeps the types.
LEMMA ListStaleOK ==
    ASSUME TypeInv, NEW w \in Writer, ListStale(w)
    PROVE  TypeInv'
<1> DEFINE listed == {d \in Doc : DOMAIN es[d] # Archived(es[d])}
           j == [job[w] EXCEPT !.pc = "prune", !.todo = listed \ job[w].seen]
<1>1. JobOK(job[w]) /\ Ready(job[w]) /\ job[w].pc = "list"
  BY DEF TypeInv, TypeOK, ListStale
<1>2. JobOK(j) /\ Ready(j)
  BY <1>1 DEF JobOK, Ready, Continuations, Idle, Points
<1> QED
  BY <1>2, GoOK DEF ListStale, TypeInv, TypeOK

\* A call that ends early leaves the types intact.
LEMMA AbandonOK ==
    ASSUME TypeInv, NEW w \in Writer, PruneDecline(w) \/ SyncDone(w) \/ Fail(w)
    PROVE  TypeInv'
  BY IdleOK, GoOK DEF PruneDecline, SyncDone, Fail, TypeInv, TypeOK

\* Editing a file keeps the types.
LEMMA EditFileOK ==
    ASSUME TypeInv, NEW d \in Doc, NEW f \in File \cup {None}, EditFile(d, f)
    PROVE  TypeInv'
  BY DEF EditFile, TypeInv, TypeOK

\* The initial states satisfy the type invariant.
LEMMA InitTypeInv == Init => TypeInv
<1> SUFFICES ASSUME Init PROVE TypeInv
  OBVIOUS
<1>1. IsPartial(NoChunks, Slot, Chunk)
  BY DEF IsPartial, NoChunks
<1> QED
  BY <1>1, IdleOK DEF Init, TypeInv, TypeOK

\* The type invariant is inductive.
LEMMA NextTypeInv ==
    ASSUME TypeInv, [Next]_vars
    PROVE  TypeInv'
<1>1. ASSUME NEW w \in Writer, Ingest(w) PROVE TypeInv'
  BY <1>1, ReadFileOK, ReadAgainOK, ReadExistingOK, CopyVectorsOK, BeginApplyOK, ApplyOK,
     FinishApplyOK, ReadRowOK, WriteRowsOK DEF Ingest
<1>2. ASSUME NEW w \in Writer, Lifecycle(w) PROVE TypeInv'
  BY <1>2, DropEmptyOK, UnarchiveOK, StartPurgeOK, PurgeOK, ListStaleOK, PruneOneOK,
     AbandonOK, DeleteDocumentOK, MarkFileOK, ArchiveInIndexOK DEF Lifecycle
<1>3. ASSUME NEW w \in Writer, StartSync(w) \/ Fail(w) \/ \E d \in Doc : StartIngest(w, d)
      PROVE  TypeInv'
  BY <1>3, StartOK, AbandonOK
<1>4. CASE UNCHANGED vars
  BY <1>4 DEF vars, TypeInv, TypeOK
<1> QED
  BY <1>1, <1>2, <1>3, <1>4, EditFileOK DEF Next

\* Every state of the index, the rows, the files and every call's local state
\* is well formed, for any set of documents, writers, texts and stamps.
THEOREM TypeCorrect == Spec => []TypeOK
<1>1. Init => TypeInv
  BY InitTypeInv
<1>2. TypeInv /\ [Next]_vars => TypeInv'
  BY NextTypeInv
<1>3. TypeInv => TypeOK
  BY DEF TypeInv
<1> QED
  BY <1>1, <1>2, <1>3, PTL DEF Spec

-----------------------------------------------------------------------------
(* With one writer no vector ever stands under another text.  The copy of   *)
(* vectors is by slot number, so the argument needs that the chunks read    *)
(* before (old) still describe the index when the vectors are read, and     *)
(* that whatever is planned in a delta is sound when it is applied.         *)

Sound(c) == \A s \in DOMAIN c : c[s].vec = c[s].text

SameTexts(old, c) ==
    DOMAIN old = DOMAIN c /\ \A s \in DOMAIN c : old[s].text = c[s].text

SoundDelta(j) == \A d \in DOMAIN j.delta : Sound(j.delta[d].new)

VecInv ==
    /\ \A d \in Doc : Sound(es[d])
    /\ \A w \in Writer : SoundDelta(job[w])
    /\ \A w \in Writer : job[w].pc = "copy" => SameTexts(job[w].old, es[job[w].cur])

SingleWriter == \A v, w \in Writer : v = w

\* A bulk of a sound delta leaves every vector beside its own text.
LEMMA SoundAfterBulk ==
    ASSUME NEW c, IsPartial(c, Slot, Chunk), Sound(c), NEW x, IsDelta(x), Sound(x.new), NEW S
    PROVE  Sound(AfterBulk(c, x, S))
<1>1. \A s \in Indexed(x) : x.new[s].vec = x.new[s].text
  BY DEF Indexed, Sound
<1>2. \A s \in DOMAIN c : LET k == [c[s] EXCEPT !.arch = x.new[s].arch] IN k.vec = k.text
  BY DEF IsPartial, Chunk, Sound
<1> QED
  BY <1>1, <1>2 DEF AfterBulk, Sound

\* Deleting slots leaves every vector beside its own text.
LEMMA SoundWithout ==
    ASSUME NEW c, Sound(c), NEW S
    PROVE  Sound(Without(c, S))
  BY DEF Sound, Without

\* Stamping slots leaves every vector beside its own text.
LEMMA SoundStamped ==
    ASSUME NEW c, IsPartial(c, Slot, Chunk), Sound(c), NEW S, NEW m
    PROVE  Sound(Stamped(c, S, m))
<1>1. \A s \in DOMAIN c : LET k == [c[s] EXCEPT !.arch = m] IN k.vec = k.text
  BY DEF IsPartial, Chunk, Sound
<1> QED
  BY <1>1 DEF Stamped, Sound

\* The idle call prepares no delta.
LEMMA IdleSound == SoundDelta(Idle) /\ Idle.pc # "copy"
  BY DEF SoundDelta, Idle, NoChunks

\* A step of the only writer after which it is not about to copy vectors.
LEMMA StepVec ==
    ASSUME TypeInv, VecInv, SingleWriter, NEW w \in Writer,
           \A d \in Doc : Sound(es'[d]),
           NEW j, SoundDelta(j), j.pc # "copy", Go(w, j)
    PROVE  VecInv'
<1>1. \A v \in Writer : job'[v] = j
  BY DEF SingleWriter, Go, TypeInv, TypeOK
<1> QED
  BY <1>1 DEF VecInv, SoundDelta

\* Going on to refresh rows prepares no delta.
LEMMA RefreshingSound ==
    ASSUME NEW j, JobOK(j), SoundDelta(j), NEW ds, NEW p \in Continuations
    PROVE  /\ SoundDelta(Refreshing(j, ds, p))
           /\ Refreshing(j, ds, p).pc # "copy"
<1>1. CASE ds = {} /\ p = "idle"
  BY <1>1, IdleSound DEF Refreshing, At
<1>2. CASE ds = {} /\ p # "idle"
  BY <1>2 DEF Refreshing, At, JobOK, Idle, SoundDelta, Continuations
<1>3. CASE ds # {}
  BY <1>3 DEF Refreshing, JobOK, Idle, SoundDelta
<1> QED
  BY <1>1, <1>2, <1>3

\* Reading a file keeps the vectors faithful.
LEMMA ReadFileVec ==
    ASSUME TypeInv, VecInv, SingleWriter, NEW w \in Writer, ReadFile(w) \/ ReadAgain(w)
    PROVE  VecInv'
<1> DEFINE d == Lowest(job[w].todo)
<1>1. JobOK(job[w]) /\ SoundDelta(job[w])
  BY DEF TypeInv, TypeOK, VecInv
<1>2. PICK j : Go(w, j) /\ (j = Idle \/ (j.delta = job[w].delta /\ j.pc # "copy"))
  <2> DEFINE next == [job[w] EXCEPT !.todo = job[w].todo \ {d}, !.cur = d]
             empty == [next EXCEPT !.pc = "empty"]
             full == [next EXCEPT !.pc = "existing", !.read = file[d]]
             again(p) == [job[w] EXCEPT !.pc = p]
  <2>1. empty.delta = job[w].delta /\ empty.pc # "copy"
    BY <1>1 DEF JobOK, Idle
  <2>2. full.delta = job[w].delta /\ full.pc # "copy"
    BY <1>1 DEF JobOK, Idle
  <2>3. \A p \in {"drop", "prepare"} : again(p).delta = job[w].delta /\ again(p).pc # "copy"
    BY <1>1 DEF JobOK, Idle
  <2>4. CASE ReadFile(w)
    <3>1. Go(w, Idle) \/ Go(w, empty) \/ Go(w, full)
      BY <2>4 DEF ReadFile
    <3> QED
      BY <2>1, <2>2, <3>1
  <2>5. CASE ReadAgain(w)
    <3>1. Go(w, Idle) \/ \E p \in {"drop", "prepare"} : Go(w, again(p))
      BY <2>5 DEF ReadAgain
    <3> QED
      BY <2>3, <3>1
  <2> QED
    BY <2>4, <2>5
<1>3. SoundDelta(j) /\ j.pc # "copy"
  BY <1>1, <1>2, IdleSound DEF SoundDelta
<1>4. \A e \in Doc : Sound(es'[e])
  BY DEF ReadFile, ReadAgain, VecInv
<1> QED
  BY <1>2, <1>3, <1>4, StepVec

\* What is read of the existing chunks agrees with the index.
LEMMA ReadExistingVec ==
    ASSUME TypeInv, VecInv, SingleWriter, NEW w \in Writer, ReadExisting(w)
    PROVE  VecInv'
<1> DEFINE j == job[w]
           old == [s \in DOMAIN es[j.cur] |->
                      [text |-> es[j.cur][s].text, arch |-> es[j.cur][s].arch]]
           n == [j EXCEPT !.pc = "copy", !.old = old]
<1>1. JobOK(j) /\ SoundDelta(j)
  BY DEF TypeInv, TypeOK, VecInv
<1>2. \A e \in Doc : Sound(es'[e])
  BY DEF ReadExisting, VecInv
<1>3. CASE Go(w, Idle)
  BY <1>2, <1>3, IdleSound, StepVec
<1>4. CASE Go(w, n)
  <2>1. \A v \in Writer : job'[v] = n
    BY <1>4 DEF SingleWriter, Go, TypeInv, TypeOK
  <2>2. n.old = old /\ n.cur = j.cur /\ n.delta = j.delta
    BY <1>1 DEF JobOK, Idle
  <2>3. SameTexts(old, es[j.cur])
    BY DEF SameTexts
  <2>4. es' = es
    BY DEF ReadExisting
  <2> QED
    BY <1>1, <1>2, <2>1, <2>2, <2>3, <2>4 DEF VecInv, SoundDelta
<1> QED
  BY <1>3, <1>4 DEF ReadExisting

\* With one writer the slots read before still hold the same texts when
\* their vectors are copied, so the delta is sound.
LEMMA CopyVectorsVec ==
    ASSUME TypeInv, VecInv, SingleWriter, NEW w \in Writer, CopyVectors(w)
    PROVE  VecInv'
<1> DEFINE j == job[w]
           new == [s \in DOMAIN j.read.body |->
                      [text |-> j.read.body[s],
                       vec |-> PlannedVector(es[j.cur], j.old, j.read.body[s]),
                       arch |-> Carried(j.read, j.old)]]
           delta == [d \in DOMAIN j.delta \cup {j.cur} |->
                        IF d = j.cur THEN [old |-> j.old, new |-> new] ELSE j.delta[d]]
           n == [j EXCEPT !.pc = "prepare", !.read = None, !.old = None, !.delta = delta]
<1>1. JobOK(j) /\ Ready(j) /\ j.pc = "copy" /\ j.cur \in Doc
  BY DEF TypeInv, TypeOK, CopyVectors, Ready
<1>2. SameTexts(j.old, es[j.cur]) /\ Sound(es[j.cur]) /\ DOMAIN j.old \subseteq Nat
  BY <1>1 DEF VecInv, Ready, IsPartial, Slot
<1>3. \A t : PlannedVector(es[j.cur], j.old, t) = t
  <2> SUFFICES ASSUME NEW t,
                      NEW src, src = {s \in DOMAIN j.old : j.old[s].text = t}, src # {}
               PROVE  es[j.cur][Lowest(src)].vec = t
    BY DEF PlannedVector
  <2>1. Lowest(src) \in src
    BY <1>2, LowestInSet
  <2> QED
    BY <1>2, <2>1 DEF SameTexts, Sound
<1>4. Sound(new)
  BY <1>3 DEF Sound
<1>5. SoundDelta(n) /\ n.pc # "copy"
  <2>1. n.delta = delta /\ n.pc = "prepare"
    BY <1>1 DEF JobOK, Idle
  <2>2. SoundDelta(j)
    BY DEF VecInv
  <2> HIDE DEF n, new
  <2> QED
    BY <1>4, <2>1, <2>2 DEF SoundDelta
<1>6. Go(w, n) /\ es' = es
  BY DEF CopyVectors
<1> HIDE DEF n
<1> QED
  BY <1>5, <1>6, StepVec DEF VecInv

\* One bulk write keeps the vectors faithful.
LEMMA ApplyVec ==
    ASSUME TypeInv, VecInv, SingleWriter, NEW w \in Writer, Apply(w)
    PROVE  VecInv'
<1> DEFINE j == job[w]
           d == Lowest(j.todo)
           x == j.delta[d]
<1>1. JobOK(j) /\ Ready(j) /\ j.pc = "apply" /\ j.todo # {} /\ SoundDelta(j)
  BY DEF TypeInv, TypeOK, Apply, VecInv
<1>2. d \in Doc /\ IsDelta(x) /\ Sound(x.new)
  BY <1>1, LowestInSet, DocAssumption DEF JobOK, Ready, SoundDelta
<1>3. PICK S \in Landed(Touched(x)) :
        /\ es' = [es EXCEPT ![d] = AfterBulk(es[d], x, S)]
        /\ Go(w, IF S = Touched(x) /\ MetaUpdates(x) \subseteq DOMAIN es[d]
                 THEN [j EXCEPT !.todo = j.todo \ {d},
                                !.due = IF S = {} THEN @ ELSE @ \cup {d}]
                 ELSE Idle)
  BY DEF Apply
<1> DEFINE n == [j EXCEPT !.todo = j.todo \ {d},
                          !.due = IF S = {} THEN @ ELSE @ \cup {d}]
<1>4. SoundDelta(n) /\ n.pc # "copy"
  BY <1>1 DEF JobOK, Idle, SoundDelta
<1>5. Go(w, Idle) \/ Go(w, n)
  BY <1>3
<1>6. Sound(AfterBulk(es[d], x, S))
  BY <1>2, SoundAfterBulk DEF TypeInv, TypeOK, VecInv
<1>7. \A e \in Doc : Sound(es'[e])
  <2> HIDE DEF d, x
  <2> QED
    BY <1>2, <1>3, <1>6 DEF VecInv, TypeInv, TypeOK
<1> HIDE DEF n
<1> QED
  BY <1>4, <1>5, <1>7, IdleSound, StepVec

\* Steps that do not write chunks keep the vectors faithful.
LEMMA BookkeepingVec ==
    ASSUME TypeInv, VecInv, SingleWriter, NEW w \in Writer,
           \/ BeginApply(w) \/ FinishApply(w) \/ ReadRow(w) \/ WriteRows(w)
           \/ StartSync(w) \/ StartPurge(w) \/ ListStale(w) \/ PruneDecline(w)
           \/ SyncDone(w) \/ Fail(w)
           \/ \E d \in Doc : StartIngest(w, d) \/ RestoreFile(w, d)
           \/ \E d \in Doc, t \in Stamp : ArchiveFile(w, d, t)
    PROVE  VecInv'
<1> DEFINE j == job[w]
<1>1. JobOK(j) /\ Ready(j) /\ SoundDelta(j)
  BY DEF TypeInv, TypeOK, VecInv
<1>2. es' = es
  BY DEF BeginApply, FinishApply, ReadRow, WriteRows, StartSync, StartPurge, ListStale,
         PruneDecline, SyncDone, Fail, StartIngest, RestoreFile, ArchiveFile
<1>3. \A n : SoundDelta(n) /\ n.pc # "copy" /\ Go(w, n) => VecInv'
  BY <1>2, StepVec DEF VecInv
<1>4. CASE BeginApply(w)
  <2> DEFINE n == [j EXCEPT !.pc = "apply", !.todo = DOMAIN j.delta]
  <2>1. SoundDelta(n) /\ n.pc # "copy"
    BY <1>1 DEF JobOK, Idle, SoundDelta
  <2> QED
    BY <1>3, <1>4, <2>1 DEF BeginApply
<1>5. CASE FinishApply(w)
  <2> DEFINE k == [j EXCEPT !.delta = NoChunks]
  <2>1. SoundDelta(k)
    BY <1>1 DEF JobOK, Idle, SoundDelta, NoChunks
  <2>2. JobOK(k)
    BY <1>1 DEF JobOK, Idle, NoChunks
  <2>3. AfterIngest(j.op) \in Continuations
    BY DEF AfterIngest, Continuations
  <2>4. Go(w, Refreshing(k, j.due, AfterIngest(j.op)))
    BY <1>5 DEF FinishApply
  <2> HIDE DEF k
  <2> QED
    BY <1>3, <2>1, <2>2, <2>3, <2>4, RefreshingSound
<1>6. CASE ReadRow(w)
  <2> DEFINE d == Lowest(j.due)
             buf == [e \in DOMAIN j.buf \cup {d} |->
                        IF e = d THEN DocRow(es[d]) ELSE j.buf[e]]
             n == [j EXCEPT !.due = j.due \ {d},
                            !.pc = IF j.due = {d} THEN "bulk" ELSE "rows",
                            !.buf = buf]
  <2>1. SoundDelta(n) /\ n.pc # "copy"
    <3> HIDE DEF d, buf
    <3> QED
      BY <1>1 DEF JobOK, Idle, SoundDelta
  <2> QED
    BY <1>3, <1>6, <2>1 DEF ReadRow
<1>7. CASE WriteRows(w)
  <2> DEFINE k == [j EXCEPT !.buf = NoChunks]
  <2>1. Go(w, At(k, j.then)) \/ Go(w, Idle)
    BY <1>7 DEF WriteRows
  <2>2. CASE j.then = "idle"
    BY <1>3, <2>1, <2>2, IdleSound DEF At
  <2>3. CASE j.then # "idle"
    <3> DEFINE n == [k EXCEPT !.pc = j.then]
    <3>1. SoundDelta(n) /\ n.pc # "copy"
      BY <1>1 DEF JobOK, Idle, SoundDelta, Ready, Continuations
    <3>2. Go(w, n) \/ Go(w, Idle)
      BY <2>1, <2>3 DEF At
    <3> QED
      BY <1>3, <3>1, <3>2, IdleSound
  <2> QED
    BY <2>2, <2>3
<1>8. CASE \/ StartSync(w)
           \/ \E d \in Doc : StartIngest(w, d) \/ RestoreFile(w, d)
           \/ \E d \in Doc, t \in Stamp : ArchiveFile(w, d, t)
  <2>1. PICK op, ds : Go(w, Ingesting(op, ds))
    BY <1>8 DEF StartSync, StartIngest, RestoreFile, ArchiveFile
  <2>2. SoundDelta(Ingesting(op, ds)) /\ Ingesting(op, ds).pc # "copy"
    BY DEF Ingesting, Idle, SoundDelta, NoChunks
  <2> QED
    BY <1>3, <2>1, <2>2
<1>9. CASE StartPurge(w)
  <2> DEFINE n == [Idle EXCEPT !.pc = "purge",
                               !.todo = {d \in Doc : Archived(es[d]) # {}}]
  <2>1. SoundDelta(n) /\ n.pc # "copy"
    BY DEF Idle, SoundDelta, NoChunks
  <2> QED
    BY <1>3, <1>9, <2>1 DEF StartPurge
<1>10. CASE ListStale(w)
  <2> DEFINE n == [j EXCEPT !.pc = "prune",
                            !.todo = {d \in Doc : DOMAIN es[d] # Archived(es[d])} \ j.seen]
  <2>1. SoundDelta(n) /\ n.pc # "copy"
    BY <1>1 DEF JobOK, Idle, SoundDelta
  <2> QED
    BY <1>3, <1>10, <2>1 DEF ListStale
<1>11. CASE PruneDecline(w) \/ SyncDone(w) \/ Fail(w)
  BY <1>3, <1>11, IdleSound DEF PruneDecline, SyncDone, Fail
<1> QED
  BY <1>4, <1>5, <1>6, <1>7, <1>8, <1>9, <1>10, <1>11

\* A by-query write that removes chunks of d or only changes their markers.
LEMMA ByQueryVec ==
    ASSUME TypeInv, VecInv, SingleWriter, NEW w \in Writer, NEW d \in Doc,
           NEW c, Sound(c), es' = [es EXCEPT ![d] = c],
           NEW j, JobOK(j), SoundDelta(j), NEW p \in Continuations,
           Go(w, Refreshing(j, {d}, p)) \/ Go(w, Idle)
    PROVE  VecInv'
<1>1. \A e \in Doc : Sound(es'[e])
  BY DEF VecInv, TypeInv, TypeOK
<1> QED
  BY <1>1, RefreshingSound, IdleSound, StepVec

\* Delete, archive, restore, prune and purge keep the vectors faithful.
LEMMA LifecycleVec ==
    ASSUME TypeInv, VecInv, SingleWriter, NEW w \in Writer,
           \/ DropEmpty(w) \/ PruneOne(w) \/ Unarchive(w) \/ Purge(w)
           \/ \E d \in Doc : DeleteDocument(w, d) \/ RestoreInIndex(w, d)
           \/ \E d \in Doc, t \in Stamp : ArchiveInIndex(w, d, t)
    PROVE  VecInv'
<1>1. JobOK(job[w]) /\ Ready(job[w]) /\ SoundDelta(job[w])
  BY DEF TypeInv, TypeOK, VecInv
<1>2. \A d \in Doc : \A S, m : Sound(Without(es[d], S)) /\ Sound(Stamped(es[d], S, m))
  BY SoundWithout, SoundStamped DEF TypeInv, TypeOK, VecInv
<1>3. {"idle", "prepare", "prune"} \subseteq Continuations
  BY DEF Continuations
<1>4. CASE DropEmpty(w)
  <2>1. job[w].cur \in Doc
    BY <1>1, <1>4 DEF DropEmpty, Ready
  <2>2. PICK S : /\ es' = [es EXCEPT ![job[w].cur] = Without(es[job[w].cur], S)]
                 /\ Go(w, Refreshing(job[w], {job[w].cur}, "prepare")) \/ Go(w, Idle)
    BY <1>4 DEF DropEmpty, ByQuery
  <2> QED
    BY <1>1, <1>2, <1>3, <2>1, <2>2, ByQueryVec
<1>5. CASE PruneOne(w)
  <2> DEFINE d == Lowest(job[w].todo)
             j == [job[w] EXCEPT !.todo = @ \ {d}]
  <2>1. d \in Doc
    BY <1>1, <1>5, LowestInSet, DocAssumption DEF PruneOne, JobOK
  <2>2. PICK S : /\ es' = [es EXCEPT ![d] = Without(es[d], S)]
                 /\ Go(w, Refreshing(j, {d}, "prune")) \/ Go(w, Idle)
    BY <1>5 DEF PruneOne, ByQuery
  <2>3. JobOK(j) /\ SoundDelta(j)
    <3> HIDE DEF d
    <3> QED
      BY <1>1 DEF JobOK, Idle, SoundDelta
  <2> HIDE DEF d, j
  <2> QED
    BY <1>2, <1>3, <2>1, <2>2, <2>3, ByQueryVec
<1>6. CASE Unarchive(w) \/ \E d \in Doc : RestoreInIndex(w, d)
  <2>1. PICK d \in Doc : Unstamp(w, d)
    BY <1>1, <1>6 DEF Unarchive, RestoreInIndex, Ready
  <2>2. PICK S : /\ es' = [es EXCEPT ![d] = Stamped(es[d], S, None)]
                 /\ Go(w, Refreshing(job[w], {d}, "idle")) \/ Go(w, Idle)
    BY <2>1 DEF Unstamp, ByQuery
  <2> QED
    BY <1>1, <1>2, <1>3, <2>2, ByQueryVec
<1>7. CASE Purge(w)
  <2> DEFINE j == [job[w] EXCEPT !.todo = {}]
  <2>1. JobOK(j) /\ SoundDelta(j)
    BY <1>1 DEF JobOK, Idle, SoundDelta
  <2>2. Go(w, Refreshing(j, job[w].todo, "idle")) \/ Go(w, Idle)
    BY <1>7 DEF Purge
  <2>3. \A e \in Doc : Sound(es'[e])
    BY <1>2, <1>7 DEF Purge, VecInv
  <2> HIDE DEF j
  <2> QED
    BY <1>3, <2>1, <2>2, <2>3, RefreshingSound, IdleSound, StepVec
<1>8. CASE \E d \in Doc : DeleteDocument(w, d)
  <2>1. PICK d \in Doc : DeleteDocument(w, d)
    BY <1>8
  <2>2. PICK S : /\ es' = [es EXCEPT ![d] = Without(es[d], S)]
                 /\ Go(w, Refreshing(job[w], {d}, "idle")) \/ Go(w, Idle)
    BY <2>1 DEF DeleteDocument, ByQuery
  <2> QED
    BY <1>1, <1>2, <1>3, <2>2, ByQueryVec
<1>9. CASE \E d \in Doc, t \in Stamp : ArchiveInIndex(w, d, t)
  <2>1. PICK d \in Doc, t \in Stamp : ArchiveInIndex(w, d, t)
    BY <1>9
  <2>2. PICK S : /\ es' = [es EXCEPT ![d] = Stamped(es[d], S, t)]
                 /\ Go(w, Refreshing(job[w], {d}, "idle")) \/ Go(w, Idle)
    BY <2>1 DEF ArchiveInIndex, ByQuery
  <2> QED
    BY <1>1, <1>2, <1>3, <2>2, ByQueryVec
<1> QED
  BY <1>4, <1>5, <1>6, <1>7, <1>8, <1>9

\* Every step of a single writer keeps the vectors faithful.
LEMMA NextVecInv ==
    ASSUME TypeInv, VecInv, SingleWriter, [Next]_vars
    PROVE  VecInv'
<1>1. ASSUME NEW w \in Writer, Ingest(w) PROVE VecInv'
  BY <1>1, ReadFileVec, ReadExistingVec, CopyVectorsVec, ApplyVec, BookkeepingVec DEF Ingest
<1>2. ASSUME NEW w \in Writer, Lifecycle(w) PROVE VecInv'
  BY <1>2, BookkeepingVec, LifecycleVec DEF Lifecycle
<1>3. ASSUME NEW w \in Writer, StartSync(w) \/ Fail(w) \/ \E d \in Doc : StartIngest(w, d)
      PROVE  VecInv'
  BY <1>3, BookkeepingVec
<1>4. CASE UNCHANGED <<es, job>>
  BY <1>4 DEF VecInv
<1>5. ASSUME NEW d \in Doc, NEW f, EditFile(d, f) PROVE VecInv'
  BY <1>4, <1>5 DEF EditFile
<1> QED
  BY <1>1, <1>2, <1>3, <1>4, <1>5 DEF Next, vars

\* With a single writer, whatever fails half-way and however files are edited
\* meanwhile, every stored vector is the vector of the text stored with it.
THEOREM VectorsFaithful == SingleWriter => (Spec => []VecFaithful)
<1> SUFFICES ASSUME SingleWriter PROVE Spec => []VecFaithful
  OBVIOUS
<1>1. Init => TypeInv /\ VecInv
  <2>1. Init => VecInv
    BY IdleSound DEF Init, VecInv, Sound, NoChunks, Idle
  <2> QED
    BY <2>1, InitTypeInv
<1>2. TypeInv /\ VecInv /\ [Next]_vars => (TypeInv /\ VecInv)'
  BY NextTypeInv, NextVecInv
<1>3. VecInv => VecFaithful
  BY DEF VecInv, VecFaithful, Sound
<1> QED
  BY <1>1, <1>2, <1>3, PTL DEF Spec

-----------------------------------------------------------------------------
(* What each step makes of the call that takes it, field by field.         *)

Fields(k, pc, op, then, cur, todo, due, seen, read, old, delta, buf) ==
    /\ k.pc = pc /\ k.op = op /\ k.then = then /\ k.cur = cur
    /\ k.todo = todo /\ k.due = due /\ k.seen = seen
    /\ k.read = read /\ k.old = old /\ k.delta = delta /\ k.buf = buf

\* The idle call, field by field.
LEMMA IdleFields ==
    Fields(Idle, "idle", "none", "idle", None, {}, {}, {}, None, None, NoChunks, NoChunks)
BY DEF Fields, Idle

\* A call that has just started to ingest ds, field by field.
LEMMA IngestingFields ==
    ASSUME NEW op, NEW ds
    PROVE  Fields(Ingesting(op, ds), "prepare", op, "idle", None, ds, {}, ds, None, None,
                  NoChunks, NoChunks)
BY DEF Fields, Ingesting, Idle

\* A call that only goes on to another point.
LEMMA PcFields ==
    ASSUME NEW j, JobOK(j), NEW p
    PROVE  Fields([j EXCEPT !.pc = p], p, j.op, j.then, j.cur, j.todo, j.due, j.seen, j.read,
                  j.old, j.delta, j.buf)
BY DEF Fields, JobOK, Idle

\* A call that goes on with ds to refresh, and then at p.
Refreshed(k, j, ds, p) ==
    \/ ds = {} /\ p = "idle" /\ k = Idle
    \/ ds = {} /\ p # "idle" /\ Fields(k, p, j.op, j.then, j.cur, j.todo, j.due, j.seen,
                                       j.read, j.old, j.delta, j.buf)
    \/ ds # {} /\ Fields(k, "rows", j.op, p, j.cur, j.todo, ds, j.seen,
                         j.read, j.old, j.delta, j.buf)

\* Refreshing goes on with the rows of ds, or past them when there are none.
LEMMA RefreshingFields ==
    ASSUME NEW j, JobOK(j), NEW ds, NEW p
    PROVE  Refreshed(Refreshing(j, ds, p), j, ds, p)
<1>1. CASE ds = {} /\ p = "idle"
  BY <1>1 DEF Refreshing, Refreshed, At
<1>2. CASE ds = {} /\ p # "idle"
  BY <1>2, PcFields DEF Refreshing, Refreshed, At
<1>3. CASE ds # {}
  <2> DEFINE k == [j EXCEPT !.pc = "rows", !.then = p, !.due = ds]
  <2>1. Fields(k, "rows", j.op, p, j.cur, j.todo, ds, j.seen, j.read, j.old, j.delta, j.buf)
    BY DEF Fields, JobOK, Idle
  <2>2. Refreshing(j, ds, p) = k
    BY <1>3 DEF Refreshing
  <2> HIDE DEF k
  <2> QED
    BY <1>3, <2>1, <2>2 DEF Refreshed
<1> QED
  BY <1>1, <1>2, <1>3

\* The local state of every call is well formed.
LEMMA Current ==
    ASSUME TypeInv, NEW w \in Writer
    PROVE  JobOK(job[w]) /\ Ready(job[w])
BY DEF TypeInv, TypeOK

\* Reading a file: it cannot be read, it is empty, or it is to be ingested.
LEMMA ReadFileDoes ==
    ASSUME TypeInv, NEW w \in Writer, ReadFile(w)
    PROVE  LET j == job[w]
               d == Lowest(j.todo)
           IN  /\ j.pc = "prepare" /\ d \in j.todo /\ d \in Doc
               /\ UNCHANGED <<file, es, rows, clean>>
               /\ \E k : /\ Go(w, k)
                         /\ \/ k = Idle
                            \/ /\ Has(d) /\ DOMAIN file[d].body = {}
                               /\ Fields(k, "empty", j.op, j.then, d, j.todo \ {d}, j.due,
                                         j.seen, j.read, j.old, j.delta, j.buf)
                            \/ /\ Has(d)
                               /\ Fields(k, "existing", j.op, j.then, d, j.todo \ {d}, j.due,
                                         j.seen, file[d], j.old, j.delta, j.buf)
<1> DEFINE j == job[w]
           d == Lowest(j.todo)
           next == [j EXCEPT !.todo = j.todo \ {d}, !.cur = d]
           empty == [next EXCEPT !.pc = "empty"]
           full == [next EXCEPT !.pc = "existing", !.read = file[d]]
<1>1. JobOK(j)
  BY Current
<1>2. d \in j.todo /\ j.todo \subseteq Doc
  BY <1>1, LowestInSet, DocAssumption DEF ReadFile, JobOK
<1> HIDE DEF d
<1>3. Fields(empty, "empty", j.op, j.then, d, j.todo \ {d}, j.due, j.seen, j.read, j.old,
             j.delta, j.buf)
  BY <1>1 DEF Fields, JobOK, Idle
<1>4. Fields(full, "existing", j.op, j.then, d, j.todo \ {d}, j.due, j.seen, file[d], j.old,
             j.delta, j.buf)
  BY <1>1 DEF Fields, JobOK, Idle
<1>5. /\ j.pc = "prepare" /\ UNCHANGED <<file, es, rows, clean>>
      /\ \/ Go(w, Idle)
         \/ Go(w, empty) /\ Has(d) /\ DOMAIN file[d].body = {}
         \/ Go(w, full) /\ Has(d)
  BY DEF ReadFile, Readable, d
<1> HIDE DEF empty, full
<1> QED
  BY <1>2, <1>3, <1>4, <1>5 DEF d

\* Reading an empty file again: it vanished, it still is empty, or it is left.
LEMMA ReadAgainDoes ==
    ASSUME TypeInv, NEW w \in Writer, ReadAgain(w)
    PROVE  LET j == job[w]
           IN  /\ j.pc = "empty" /\ j.cur \in Doc
               /\ UNCHANGED <<file, es, rows, clean>>
               /\ \E k, p : /\ Go(w, k)
                            /\ \/ k = Idle
                               \/ /\ Has(j.cur)
                                  /\ \/ p = "drop" /\ DOMAIN file[j.cur].body = {}
                                     \/ p = "prepare" /\ DOMAIN file[j.cur].body # {}
                                  /\ Fields(k, p, j.op, j.then, j.cur, j.todo, j.due,
                                            j.seen, j.read, j.old, j.delta, j.buf)
<1> DEFINE j == job[w]
           n(p) == [j EXCEPT !.pc = p]
<1>1. JobOK(j) /\ j.pc = "empty" /\ j.cur \in Doc /\ UNCHANGED <<file, es, rows, clean>>
  BY Current DEF ReadAgain, Ready
<1>2. \A p : Fields(n(p), p, j.op, j.then, j.cur, j.todo, j.due, j.seen, j.read, j.old,
                    j.delta, j.buf)
  BY <1>1, PcFields
<1>3. \/ Go(w, Idle)
      \/ Go(w, n("drop")) /\ Has(j.cur) /\ DOMAIN file[j.cur].body = {}
      \/ Go(w, n("prepare")) /\ Has(j.cur) /\ DOMAIN file[j.cur].body # {}
  BY DEF ReadAgain
<1> HIDE DEF n
<1> QED
  BY <1>1, <1>2, <1>3

\* The chunks of a document as a call has read them.
SameChunks(old, c) ==
    /\ DOMAIN old = DOMAIN c
    /\ \A s \in DOMAIN c : old[s].text = c[s].text /\ old[s].arch = c[s].arch

\* Reading the existing chunks: they conflict, or they are kept as read.
LEMMA ReadExistingDoes ==
    ASSUME TypeInv, NEW w \in Writer, ReadExisting(w)
    PROVE  LET j == job[w]
           IN  /\ j.pc = "existing" /\ j.cur \in Doc
               /\ UNCHANGED <<file, es, rows, clean>>
               /\ \E k : /\ Go(w, k)
                         /\ \/ k = Idle
                            \/ \E old : /\ SameChunks(old, es[j.cur])
                                        /\ Fields(k, "copy", j.op, j.then, j.cur, j.todo, j.due,
                                                  j.seen, j.read, old, j.delta, j.buf)
<1> DEFINE j == job[w]
           old == [s \in DOMAIN es[j.cur] |->
                      [text |-> es[j.cur][s].text, arch |-> es[j.cur][s].arch]]
           k == [j EXCEPT !.pc = "copy", !.old = old]
<1>1. JobOK(j) /\ Ready(j)
  BY Current
<1>2. SameChunks(old, es[j.cur])
  BY DEF SameChunks
<1> HIDE DEF old
<1>3. Fields(k, "copy", j.op, j.then, j.cur, j.todo, j.due, j.seen, j.read, old, j.delta, j.buf)
  BY <1>1 DEF Fields, JobOK, Idle
<1>4. /\ j.pc = "existing" /\ UNCHANGED <<file, es, rows, clean>>
      /\ Go(w, Idle) \/ Go(w, k)
  BY DEF ReadExisting, old
<1> HIDE DEF k
<1> QED
  BY <1>1, <1>2, <1>3, <1>4 DEF Ready

\* The delta x that a call plans for the file f: one archive marker for all
\* chunks, the file's if it has one, else one that the chunks have.
PlannedFor(x, f) ==
    /\ DOMAIN x.new = DOMAIN f.body
    /\ \A s \in DOMAIN x.new : /\ x.new[s].text = f.body[s]
                               /\ x.new[s].arch = Carried(f, x.old)

\* Copying vectors adds the delta of the current document to those planned.
LEMMA CopyVectorsDoes ==
    ASSUME TypeInv, NEW w \in Writer, CopyVectors(w)
    PROVE  LET j == job[w]
           IN  /\ j.pc = "copy" /\ j.cur \in Doc /\ j.read \in File
               /\ UNCHANGED <<file, es, rows, clean>>
               /\ \E k, delta :
                     /\ Go(w, k)
                     /\ DOMAIN delta = DOMAIN j.delta \cup {j.cur}
                     /\ \A d \in DOMAIN j.delta \ {j.cur} : delta[d] = j.delta[d]
                     /\ delta[j.cur].old = j.old /\ PlannedFor(delta[j.cur], j.read)
                     /\ Fields(k, "prepare", j.op, j.then, j.cur, j.todo, j.due, j.seen,
                               None, None, delta, j.buf)
<1> DEFINE j == job[w]
           new == [s \in DOMAIN j.read.body |->
                      [text |-> j.read.body[s],
                       vec |-> PlannedVector(es[j.cur], j.old, j.read.body[s]),
                       arch |-> Carried(j.read, j.old)]]
           x == [old |-> j.old, new |-> new]
           delta == [d \in DOMAIN j.delta \cup {j.cur} |->
                        IF d = j.cur THEN x ELSE j.delta[d]]
           k == [j EXCEPT !.pc = "prepare", !.read = None, !.old = None, !.delta = delta]
<1>1. JobOK(j) /\ Ready(j)
  BY Current
<1>2. PlannedFor(x, j.read) /\ x.old = j.old
  BY DEF PlannedFor
<1> HIDE DEF x
<1>3. /\ DOMAIN delta = DOMAIN j.delta \cup {j.cur}
      /\ \A d \in DOMAIN j.delta \ {j.cur} : delta[d] = j.delta[d]
      /\ delta[j.cur] = x
  OBVIOUS
<1> HIDE DEF delta
<1>4. Fields(k, "prepare", j.op, j.then, j.cur, j.todo, j.due, j.seen, None, None, delta, j.buf)
  BY <1>1 DEF Fields, JobOK, Idle
<1>5. j.pc = "copy" /\ UNCHANGED <<file, es, rows, clean>> /\ Go(w, k)
  BY DEF CopyVectors, delta, x
<1> HIDE DEF k
<1>6. j.cur \in Doc /\ j.read \in File
  BY <1>1, <1>5 DEF Ready
<1> QED
  BY <1>2, <1>3, <1>4, <1>5, <1>6

\* Once all files are prepared, every planned delta is to be applied.
LEMMA BeginApplyDoes ==
    ASSUME TypeInv, NEW w \in Writer, BeginApply(w)
    PROVE  LET j == job[w]
           IN  /\ j.pc = "prepare" /\ j.todo = {}
               /\ UNCHANGED <<file, es, rows, clean>>
               /\ \E k : /\ Go(w, k)
                         /\ Fields(k, "apply", j.op, j.then, j.cur, DOMAIN j.delta, j.due,
                                   j.seen, j.read, j.old, j.delta, j.buf)
<1> DEFINE j == job[w]
           k == [j EXCEPT !.pc = "apply", !.todo = DOMAIN j.delta]
<1>1. JobOK(j)
  BY Current
<1>2. Fields(k, "apply", j.op, j.then, j.cur, DOMAIN j.delta, j.due, j.seen, j.read, j.old,
             j.delta, j.buf)
  BY <1>1 DEF Fields, JobOK, Idle
<1>3. j.pc = "prepare" /\ j.todo = {} /\ UNCHANGED <<file, es, rows, clean>> /\ Go(w, k)
  BY DEF BeginApply
<1> HIDE DEF k
<1> QED
  BY <1>2, <1>3

\* Applying a delta: the bulk lands as a whole, or the call ends.
LEMMA ApplyDoes ==
    ASSUME TypeInv, NEW w \in Writer, Apply(w)
    PROVE  LET j == job[w]
               d == Lowest(j.todo)
               x == j.delta[d]
           IN  /\ j.pc = "apply" /\ d \in j.todo /\ d \in Doc /\ d \in DOMAIN j.delta
               /\ UNCHANGED <<file, rows, clean>>
               /\ \E S \in Landed(Touched(x)) : \E k :
                     /\ es' = [es EXCEPT ![d] = AfterBulk(es[d], x, S)]
                     /\ Go(w, k)
                     /\ IF S = Touched(x) /\ MetaUpdates(x) \subseteq DOMAIN es[d]
                        THEN Fields(k, "apply", j.op, j.then, j.cur, j.todo \ {d},
                                    IF S = {} THEN j.due ELSE j.due \cup {d},
                                    j.seen, j.read, j.old, j.delta, j.buf)
                        ELSE k = Idle
<1> DEFINE j == job[w]
           d == Lowest(j.todo)
           x == j.delta[d]
           n(S) == [j EXCEPT !.todo = j.todo \ {d},
                             !.due = IF S = {} THEN @ ELSE @ \cup {d}]
           due(S) == IF S = {} THEN j.due ELSE j.due \cup {d}
<1>1. JobOK(j) /\ Ready(j) /\ j.pc = "apply" /\ j.todo # {}
  BY Current DEF Apply
<1>2. d \in j.todo /\ d \in Doc /\ d \in DOMAIN j.delta
  BY <1>1, LowestInSet, DocAssumption DEF JobOK, Ready
<1>3. PICK S \in Landed(Touched(x)) :
        /\ es' = [es EXCEPT ![d] = AfterBulk(es[d], x, S)]
        /\ Go(w, IF S = Touched(x) /\ MetaUpdates(x) \subseteq DOMAIN es[d] THEN n(S) ELSE Idle)
  BY DEF Apply
<1> HIDE DEF d, x
<1>4. Fields(n(S), "apply", j.op, j.then, j.cur, j.todo \ {d}, due(S), j.seen, j.read, j.old,
             j.delta, j.buf)
  BY <1>1 DEF Fields, JobOK, Idle
<1>5. UNCHANGED <<file, rows, clean>>
  BY DEF Apply
<1> HIDE DEF n
<1>6. CASE S = Touched(x) /\ MetaUpdates(x) \subseteq DOMAIN es[d]
  <2>1. Go(w, n(S))
    BY <1>3, <1>6
  <2> QED
    BY <1>1, <1>2, <1>3, <1>4, <1>5, <1>6, <2>1 DEF d, x
<1>7. CASE ~(S = Touched(x) /\ MetaUpdates(x) \subseteq DOMAIN es[d])
  <2>1. Go(w, Idle)
    BY <1>3, <1>7
  <2> QED
    BY <1>1, <1>2, <1>3, <1>5, <1>7, <2>1 DEF d, x
<1> QED
  BY <1>6, <1>7

\* After the last delta the rows that are due are refreshed.
LEMMA FinishApplyDoes ==
    ASSUME TypeInv, NEW w \in Writer, FinishApply(w)
    PROVE  LET j == job[w]
           IN  /\ j.pc = "apply" /\ j.todo = {}
               /\ UNCHANGED <<file, es, rows, clean>>
               /\ \E n, k : /\ Go(w, k) /\ Refreshed(k, n, j.due, AfterIngest(j.op))
                            /\ Fields(n, "apply", j.op, j.then, j.cur, {}, j.due, j.seen, j.read,
                                      j.old, NoChunks, j.buf)
<1> DEFINE j == job[w]
           n == [j EXCEPT !.delta = NoChunks]
<1>1. JobOK(j) /\ j.pc = "apply" /\ j.todo = {}
  BY Current DEF FinishApply
<1>2. JobOK(n)
  BY <1>1 DEF JobOK, Idle, NoChunks
<1>3. Fields(n, "apply", j.op, j.then, j.cur, {}, j.due, j.seen, j.read, j.old, NoChunks, j.buf)
  BY <1>1 DEF Fields, JobOK, Idle
<1>4. Go(w, Refreshing(n, j.due, AfterIngest(j.op))) /\ UNCHANGED <<file, es, rows, clean>>
  BY DEF FinishApply
<1> HIDE DEF n
<1> QED
  BY <1>1, <1>2, <1>3, <1>4, RefreshingFields

\* Reading the chunks of a document puts its row into the buffer.
LEMMA ReadRowDoes ==
    ASSUME TypeInv, NEW w \in Writer, ReadRow(w)
    PROVE  LET j == job[w]
               d == Lowest(j.due)
           IN  /\ j.pc = "rows" /\ d \in j.due /\ d \in Doc
               /\ UNCHANGED <<file, es, rows, clean>>
               /\ \E k, buf :
                     /\ Go(w, k)
                     /\ DOMAIN buf = DOMAIN j.buf \cup {d} /\ buf[d] = DocRow(es[d])
                     /\ \A e \in DOMAIN j.buf \ {d} : buf[e] = j.buf[e]
                     /\ Fields(k, IF j.due = {d} THEN "bulk" ELSE "rows", j.op, j.then, j.cur,
                               j.todo, j.due \ {d}, j.seen, j.read, j.old, j.delta, buf)
<1> DEFINE j == job[w]
           d == Lowest(j.due)
           buf == [e \in DOMAIN j.buf \cup {d} |-> IF e = d THEN DocRow(es[d]) ELSE j.buf[e]]
           pc == IF j.due = {d} THEN "bulk" ELSE "rows"
           k == [j EXCEPT !.due = j.due \ {d}, !.pc = pc, !.buf = buf]
<1>1. JobOK(j) /\ Ready(j) /\ j.pc = "rows"
  BY Current DEF ReadRow
<1>2. d \in j.due /\ d \in Doc
  BY <1>1, LowestInSet, DocAssumption DEF JobOK, Ready
<1>3. Go(w, k) /\ UNCHANGED <<file, es, rows, clean>>
  BY DEF ReadRow
<1> HIDE DEF d
<1>4. /\ DOMAIN buf = DOMAIN j.buf \cup {d} /\ buf[d] = DocRow(es[d])
      /\ \A e \in DOMAIN j.buf \ {d} : buf[e] = j.buf[e]
  OBVIOUS
<1> HIDE DEF buf, pc
<1>5. Fields(k, pc, j.op, j.then, j.cur, j.todo, j.due \ {d}, j.seen, j.read, j.old, j.delta, buf)
  BY <1>1 DEF Fields, JobOK, Idle
<1> HIDE DEF k
<1> QED
  BY <1>1, <1>2, <1>3, <1>4, <1>5 DEF d, pc

\* Writing the rows empties the buffer, or the call ends.
LEMMA WriteRowsDoes ==
    ASSUME TypeInv, NEW w \in Writer, WriteRows(w)
    PROVE  LET j == job[w]
           IN  /\ j.pc = "bulk" /\ j.then \in Continuations
               /\ UNCHANGED <<file, es, clean>>
               /\ \E k : /\ Go(w, k)
                         /\ \/ k = Idle /\ (MayFail \/ j.then = "idle")
                            \/ /\ j.then # "idle"
                               /\ Fields(k, j.then, j.op, j.then, j.cur, j.todo, j.due, j.seen,
                                         j.read, j.old, j.delta, NoChunks)
               /\ ~MayFail => rows' = [d \in Doc |-> IF d \in DOMAIN j.buf THEN j.buf[d]
                                                     ELSE rows[d]]
<1> DEFINE j == job[w]
           m == [j EXCEPT !.buf = NoChunks]
           k == [m EXCEPT !.pc = j.then]
<1>1. JobOK(j) /\ Ready(j) /\ j.pc = "bulk"
  BY Current DEF WriteRows
<1>2. Fields(k, j.then, j.op, j.then, j.cur, j.todo, j.due, j.seen, j.read, j.old, j.delta,
             NoChunks)
  BY <1>1 DEF Fields, JobOK, Idle
<1>3. PICK S \in Landed(DOMAIN j.buf) :
         /\ rows' = [d \in Doc |-> IF d \in S THEN j.buf[d] ELSE rows[d]]
         /\ Go(w, IF S = DOMAIN j.buf THEN At(m, j.then) ELSE Idle)
  BY DEF WriteRows
<1>4. ~MayFail => S = DOMAIN j.buf
  BY DEF Landed
<1>5. At(m, j.then) = IF j.then = "idle" THEN Idle ELSE k
  BY DEF At
<1>6. \/ Go(w, Idle) /\ (MayFail \/ j.then = "idle")
      \/ Go(w, k) /\ j.then # "idle"
  BY <1>3, <1>4, <1>5
<1>7. UNCHANGED <<file, es, clean>>
  BY DEF WriteRows
<1> HIDE DEF m, k
<1> QED
  BY <1>1, <1>2, <1>3, <1>4, <1>6, <1>7 DEF Ready

\* A call that starts to ingest the documents ds, possibly after it has marked
\* one file.
LEMMA StartDoes ==
    ASSUME TypeInv, NEW w \in Writer,
           \/ StartSync(w)
           \/ \E d \in Doc : StartIngest(w, d) \/ RestoreFile(w, d)
           \/ \E d \in Doc, t \in Stamp : ArchiveFile(w, d, t)
    PROVE  /\ job[w].pc = "idle" /\ UNCHANGED <<es, rows>>
           /\ \E op \in {"ingest", "sync", "restore"}, ds \in SUBSET Doc :
                 /\ Go(w, Ingesting(op, ds))
                 /\ op = "sync" => /\ ds = {d \in Doc : Has(d)} /\ file' = file
<1>1. CASE StartSync(w)
  <2>1. {d \in Doc : Has(d)} \in SUBSET Doc
    OBVIOUS
  <2> QED
    BY <1>1, <2>1 DEF StartSync
<1>2. CASE \E d \in Doc : StartIngest(w, d) \/ RestoreFile(w, d)
  <2>1. PICK d \in Doc : StartIngest(w, d) \/ RestoreFile(w, d)
    BY <1>2
  <2>2. Go(w, Ingesting("ingest", {d})) \/ Go(w, Ingesting("restore", {d}))
    BY <2>1 DEF StartIngest, RestoreFile
  <2>3. job[w].pc = "idle" /\ UNCHANGED <<es, rows>>
    BY <2>1 DEF StartIngest, RestoreFile
  <2>4. {d} \in SUBSET Doc /\ "ingest" # "sync" /\ "restore" # "sync"
    OBVIOUS
  <2> QED
    BY <2>2, <2>3, <2>4
<1>3. CASE \E d \in Doc, t \in Stamp : ArchiveFile(w, d, t)
  <2>1. PICK d \in Doc, t \in Stamp : ArchiveFile(w, d, t)
    BY <1>3
  <2>2. {d} \in SUBSET Doc /\ "ingest" # "sync"
    OBVIOUS
  <2> QED
    BY <2>1, <2>2 DEF ArchiveFile
<1> QED
  BY <1>1, <1>2, <1>3

\* A by-query write over the slots of d succeeds for all of them and goes on
\* to the document's row, or the call ends.
QueryDone(w, d, j, p, all, c, S) ==
    /\ es' = [es EXCEPT ![d] = c]
    /\ UNCHANGED <<file, rows, clean>>
    /\ \/ Go(w, Idle) /\ MayFail
       \/ S = all /\ \E k : Go(w, k) /\ Refreshed(k, j, {d}, p)

\* Every by-query write is one that succeeds or one that ends the call.
LEMMA QueryDoes ==
    ASSUME NEW w, NEW d, NEW j, JobOK(j), NEW p, NEW all, NEW S \in Landed(all), NEW c,
           es' = [es EXCEPT ![d] = c], UNCHANGED <<file, rows, clean>>,
           Go(w, IF S = all THEN Refreshing(j, {d}, p) ELSE Idle)
    PROVE  QueryDone(w, d, j, p, all, c, S)
<1>1. CASE S = all
  BY <1>1, RefreshingFields DEF QueryDone
<1>2. CASE S # all
  BY <1>2 DEF Landed, QueryDone
<1> QED
  BY <1>1, <1>2

Emptied(w, d, j, p) ==
    \E c : /\ es' = [es EXCEPT ![d] = c]
           /\ UNCHANGED <<file, rows, clean>>
           /\ \/ Go(w, Idle) /\ MayFail
              \/ DOMAIN c = {} /\ \E k : Go(w, k) /\ Refreshed(k, j, {d}, p)

\* A delete by query that succeeds leaves the document without chunks.
LEMMA EmptiedDoes ==
    ASSUME NEW w, NEW d, NEW j, JobOK(j), NEW p, ByQuery(w, d, DOMAIN es[d], Without, j, p)
    PROVE  Emptied(w, d, j, p)
<1>1. PICK S \in Landed(DOMAIN es[d]) :
         /\ es' = [es EXCEPT ![d] = Without(es[d], S)]
         /\ Go(w, IF S = DOMAIN es[d] THEN Refreshing(j, {d}, p) ELSE Idle)
  BY DEF ByQuery
<1>2. UNCHANGED <<file, rows, clean>>
  BY DEF ByQuery
<1>3. QueryDone(w, d, j, p, DOMAIN es[d], Without(es[d], S), S)
  BY <1>1, <1>2, QueryDoes
<1>4. S = DOMAIN es[d] => DOMAIN Without(es[d], S) = {}
  BY DEF Without
<1> DEFINE c == Without(es[d], S)
<1> HIDE DEF c
<1> QED
  BY <1>3, <1>4 DEF QueryDone, Emptied, c

\* A file that became empty: its document is deleted, then ingest goes on.
LEMMA DropEmptyDoes ==
    ASSUME TypeInv, NEW w \in Writer, DropEmpty(w)
    PROVE  LET j == job[w]
           IN  /\ j.pc = "drop" /\ j.cur \in Doc
               /\ Emptied(w, j.cur, j, "prepare")
BY Current, EmptiedDoes DEF DropEmpty, Ready

\* delete_document deletes the chunks of its document.
LEMMA DeleteDoes ==
    ASSUME TypeInv, NEW w \in Writer, NEW d \in Doc, DeleteDocument(w, d)
    PROVE  job[w].pc = "idle" /\ Emptied(w, d, job[w], "idle")
BY Current, EmptiedDoes DEF DeleteDocument

\* One step of a prune deletes the document it is at.
LEMMA PruneOneDoes ==
    ASSUME TypeInv, NEW w \in Writer, PruneOne(w)
    PROVE  LET j == job[w]
               d == Lowest(j.todo)
           IN  /\ j.pc = "prune" /\ d \in j.todo /\ d \in Doc
               /\ \E n : /\ Fields(n, "prune", j.op, j.then, j.cur, j.todo \ {d}, j.due, j.seen,
                                   j.read, j.old, j.delta, j.buf)
                         /\ Emptied(w, d, n, "prune")
<1> DEFINE j == job[w]
           d == Lowest(j.todo)
           n == [j EXCEPT !.todo = @ \ {d}]
<1>1. JobOK(j) /\ j.pc = "prune" /\ j.todo # {}
  BY Current DEF PruneOne
<1>2. d \in j.todo /\ d \in Doc
  BY <1>1, LowestInSet, DocAssumption DEF JobOK
<1>3. ByQuery(w, d, DOMAIN es[d], Without, n, "prune")
  BY DEF PruneOne
<1> HIDE DEF d
<1>4. JobOK(n)
  BY <1>1 DEF JobOK, Idle
<1>5. Fields(n, "prune", j.op, j.then, j.cur, j.todo \ {d}, j.due, j.seen, j.read, j.old,
             j.delta, j.buf)
  BY <1>1 DEF Fields, JobOK, Idle
<1> HIDE DEF n
<1>6. Emptied(w, d, n, "prune")
  BY <1>3, <1>4, EmptiedDoes
<1> QED
  BY <1>1, <1>2, <1>5, <1>6 DEF d

\* The markers of d are set or cleared; texts and slots stay.
Restamped(w, d, m, p) ==
    \E c : /\ es' = [es EXCEPT ![d] = c]
           /\ UNCHANGED <<file, rows, clean>>
           /\ DOMAIN c = DOMAIN es[d]
           /\ \/ Go(w, Idle) /\ MayFail
              \/ /\ \A s \in DOMAIN c : c[s].arch = m
                 /\ \E k : Go(w, k) /\ Refreshed(k, job[w], {d}, p)

\* What stamping does to the marker of a slot.
LEMMA StampedArch ==
    ASSUME NEW c, IsPartial(c, Slot, Chunk), NEW S, NEW m, NEW s \in DOMAIN c
    PROVE  Stamped(c, S, m)[s].arch = IF s \in S THEN m ELSE c[s].arch
BY DEF Stamped, IsPartial, Chunk

\* A by-query update over every slot that bears another marker than m.
LEMMA RestampedBy ==
    ASSUME TypeInv, NEW w \in Writer, NEW d \in Doc, NEW all, NEW S \in Landed(all), NEW m,
           es' = [es EXCEPT ![d] = Stamped(es[d], S, m)], UNCHANGED <<file, rows, clean>>,
           Go(w, IF S = all THEN Refreshing(job[w], {d}, "idle") ELSE Idle),
           \A s \in DOMAIN es[d] : s \notin all => es[d][s].arch = m
    PROVE  Restamped(w, d, m, "idle")
<1> DEFINE c == Stamped(es[d], S, m)
<1>1. QueryDone(w, d, job[w], "idle", all, c, S)
  BY Current, QueryDoes
<1>2. DOMAIN c = DOMAIN es[d]
  BY DEF Stamped
<1>3. ASSUME S = all, NEW s \in DOMAIN es[d] PROVE c[s].arch = m
  <2>1. IsPartial(es[d], Slot, Chunk)
    BY DEF TypeInv, TypeOK
  <2>2. c[s].arch = IF s \in S THEN m ELSE es[d][s].arch
    BY <2>1, StampedArch
  <2> QED
    BY <1>3, <2>2
<1> HIDE DEF c
<1> QED
  BY <1>1, <1>2, <1>3 DEF QueryDone, Restamped

\* archive_document without a file stamps all chunks of its document.
LEMMA ArchiveInIndexDoes ==
    ASSUME TypeInv, NEW w \in Writer, NEW d \in Doc, NEW t \in Stamp, ArchiveInIndex(w, d, t)
    PROVE  job[w].pc = "idle" /\ Restamped(w, d, t, "idle")
<1>1. PICK S \in Landed(DOMAIN es[d]) :
         /\ es' = [es EXCEPT ![d] = Stamped(es[d], S, t)]
         /\ Go(w, IF S = DOMAIN es[d] THEN Refreshing(job[w], {d}, "idle") ELSE Idle)
  BY DEF ArchiveInIndex, ByQuery
<1>2. UNCHANGED <<file, rows, clean>> /\ job[w].pc = "idle"
  BY DEF ArchiveInIndex, ByQuery
<1> QED
  BY <1>1, <1>2, RestampedBy

\* Clearing the marker by query leaves no chunk with one.
LEMMA UnstampDoes ==
    ASSUME TypeInv, NEW w \in Writer, NEW d \in Doc, Unstamp(w, d)
    PROVE  Restamped(w, d, None, "idle")
<1>1. PICK S \in Landed(Archived(es[d])) :
         /\ es' = [es EXCEPT ![d] = Stamped(es[d], S, None)]
         /\ Go(w, IF S = Archived(es[d]) THEN Refreshing(job[w], {d}, "idle") ELSE Idle)
  BY DEF Unstamp, ByQuery
<1>2. UNCHANGED <<file, rows, clean>>
  BY DEF Unstamp, ByQuery
<1>3. \A s \in DOMAIN es[d] : s \notin Archived(es[d]) => es[d][s].arch = None
  BY DEF Archived
<1> QED
  BY <1>1, <1>2, <1>3, RestampedBy

\* Both ways to clear a marker in the index.
LEMMA RestoreDoes ==
    ASSUME TypeInv, NEW w \in Writer, Unarchive(w) \/ \E d \in Doc : RestoreInIndex(w, d)
    PROVE  \E d \in Doc : /\ Restamped(w, d, None, "idle")
                          /\ \/ job[w].pc = "unarchive" /\ job[w].cur = d
                             \/ job[w].pc = "idle"
BY Current, UnstampDoes DEF Unarchive, RestoreInIndex, Ready

\* A purge that succeeds deletes the archived chunks of every document.
LEMMA PurgeDoes ==
    ASSUME TypeInv, NEW w \in Writer, Purge(w)
    PROVE  LET j == job[w]
           IN  /\ j.pc = "purge"
               /\ UNCHANGED <<file, rows, clean>>
               /\ \/ Go(w, Idle) /\ MayFail
                  \/ /\ es' = [d \in Doc |-> Without(es[d], Archived(es[d]))]
                     /\ \E n, k : /\ Go(w, k) /\ Refreshed(k, n, j.todo, "idle")
                                  /\ Fields(n, "purge", j.op, j.then, j.cur, {}, j.due, j.seen,
                                            j.read, j.old, j.delta, j.buf)
<1> DEFINE j == job[w]
           all == {k \in Doc \X Slot : k[2] \in Archived(es[k[1]])}
           n == [j EXCEPT !.todo = {}]
<1>1. JobOK(j) /\ j.pc = "purge" /\ UNCHANGED <<file, rows, clean>>
  BY Current DEF Purge
<1>2. PICK S \in Landed(all) :
         /\ es' = [d \in Doc |-> Without(es[d], {s \in Slot : <<d, s>> \in S})]
         /\ Go(w, IF S = all THEN Refreshing(n, j.todo, "idle") ELSE Idle)
  BY DEF Purge
<1>3. JobOK(n) /\ Fields(n, "purge", j.op, j.then, j.cur, {}, j.due, j.seen, j.read, j.old,
                         j.delta, j.buf)
  BY <1>1 DEF JobOK, Fields, Idle
<1>4. \A d \in Doc : {s \in Slot : <<d, s>> \in all} = Archived(es[d])
  BY DEF TypeInv, TypeOK, IsPartial, Archived
<1> HIDE DEF all, n
<1>5. CASE S = all
  <2>1. Go(w, Refreshing(n, j.todo, "idle"))
    BY <1>2, <1>5
  <2>2. es' = [d \in Doc |-> Without(es[d], Archived(es[d]))]
    BY <1>2, <1>4, <1>5
  <2> QED
    BY <1>1, <1>3, <2>1, <2>2, RefreshingFields
<1>6. CASE S # all
  BY <1>1, <1>2, <1>6 DEF Landed
<1> QED
  BY <1>5, <1>6

\* A purge starts by listing the documents with archived chunks.
LEMMA StartPurgeDoes ==
    ASSUME NEW w \in Writer, StartPurge(w)
    PROVE  /\ job[w].pc = "idle" /\ UNCHANGED <<file, es, rows, clean>>
           /\ \E k : /\ Go(w, k)
                     /\ Fields(k, "purge", "none", "idle", None,
                               {d \in Doc : Archived(es[d]) # {}}, {}, {}, None, None,
                               NoChunks, NoChunks)
<1> DEFINE D == {d \in Doc : Archived(es[d]) # {}}
           k == [Idle EXCEPT !.pc = "purge", !.todo = D]
<1>1. job[w].pc = "idle" /\ UNCHANGED <<file, es, rows, clean>> /\ Go(w, k)
  BY DEF StartPurge
<1> HIDE DEF D
<1>2. Fields(k, "purge", "none", "idle", None, D, {}, {}, None, None, NoChunks, NoChunks)
  BY DEF Fields, Idle
<1> HIDE DEF k
<1> QED
  BY <1>1, <1>2 DEF D

\* What a sync lists to be pruned.
LEMMA ListStaleDoes ==
    ASSUME TypeInv, NEW w \in Writer, ListStale(w)
    PROVE  LET j == job[w]
               stale == {d \in Doc : DOMAIN es[d] # Archived(es[d])} \ j.seen
           IN  /\ j.pc = "list" /\ UNCHANGED <<file, es, rows, clean>>
               /\ \E k : /\ Go(w, k)
                         /\ Fields(k, "prune", j.op, j.then, j.cur, stale, j.due, j.seen,
                                   j.read, j.old, j.delta, j.buf)
<1> DEFINE j == job[w]
           stale == {d \in Doc : DOMAIN es[d] # Archived(es[d])} \ j.seen
           k == [j EXCEPT !.pc = "prune", !.todo = stale]
<1>1. JobOK(j) /\ j.pc = "list" /\ UNCHANGED <<file, es, rows, clean>> /\ Go(w, k)
  BY Current DEF ListStale
<1> HIDE DEF stale
<1>2. Fields(k, "prune", j.op, j.then, j.cur, stale, j.due, j.seen, j.read, j.old, j.delta, j.buf)
  BY <1>1 DEF Fields, JobOK, Idle
<1> HIDE DEF k
<1> QED
  BY <1>1, <1>2 DEF stale

\* The steps that end a call and touch nothing else.
LEMMA AbandonDoes ==
    ASSUME NEW w \in Writer, PruneDecline(w) \/ SyncDone(w) \/ Fail(w)
    PROVE  /\ Go(w, Idle) /\ UNCHANGED <<file, es, rows, clean>>
           /\ job[w].pc = "prune" \/ MayFail
BY DEF PruneDecline, SyncDone, Fail

-----------------------------------------------------------------------------
(* With one writer: what a call has read of the index is what the index    *)
(* still holds when the call acts on it, whatever fails.                   *)

\* The phases of a call.
Preparing(j) ==
    \/ j.pc \in {"prepare", "empty", "existing", "copy", "drop"}
    \/ j.pc \in {"rows", "bulk"} /\ j.then = "prepare"
Reading(j) == j.pc \in {"empty", "existing", "copy", "drop"}
Pruning(j) == j.pc = "prune" \/ (j.pc \in {"rows", "bulk"} /\ j.then = "prune")

\* The documents with a delta that is still to be applied.
Planned(j) == IF Preparing(j) THEN DOMAIN j.delta ELSE IF j.pc = "apply" THEN j.todo ELSE {}

\* What the call has read of the index is what the index holds.
Snapped(j, E) ==
    /\ Preparing(j) => DOMAIN j.delta \cap j.todo = {}
    /\ Reading(j) => j.cur \notin DOMAIN j.delta \cup j.todo
    /\ j.pc = "copy" => SameChunks(j.old, E[j.cur])
    /\ \A d \in Planned(j) : SameChunks(j.delta[d].old, E[d])
    /\ j.pc \in {"idle", "purge"} => j.op = "none"

SnapInv == \A w \in Writer : Snapped(job[w], es)

\* With one writer, its call is every call.
LEMMA OnlyWriter ==
    ASSUME TypeInv, SingleWriter, NEW w \in Writer, NEW k, Go(w, k)
    PROVE  \A v \in Writer : job'[v] = k
BY DEF SingleWriter, Go, TypeInv, TypeOK

\* The idle call is in none of the phases.
LEMMA IdlePhase == ~Preparing(Idle) /\ ~Reading(Idle) /\ ~Pruning(Idle) /\ Planned(Idle) = {}
BY IdleFields DEF Fields, Preparing, Reading, Pruning, Planned

\* The idle call has read nothing.
LEMMA IdleSnapped == \A E : Snapped(Idle, E)
BY IdleFields, IdlePhase DEF Fields, Snapped

\* A call that plans nothing and prunes nothing.
LEMMA QuietSnapped ==
    ASSUME NEW k, NEW E, ~Preparing(k), ~Pruning(k), k.pc # "apply",
           k.pc \in {"idle", "purge"} => k.op = "none"
    PROVE  Snapped(k, E) /\ Planned(k) = {}
BY DEF Snapped, Preparing, Reading, Pruning, Planned

\* The last write of a document: the call refreshes its row and goes on.
LEMMA RefreshedPhase ==
    ASSUME NEW k, NEW j, NEW ds, NEW p, Refreshed(k, j, ds, p),
           p \in {"idle", "list", "unarchive"}
    PROVE  /\ ~Preparing(k) /\ ~Reading(k) /\ ~Pruning(k) /\ k.pc # "apply" /\ k.pc # "purge"
           /\ \A E : Snapped(k, E)
<1>1. ~Preparing(k) /\ ~Pruning(k) /\ ~Reading(k) /\ k.pc # "apply" /\ k.pc # "purge"
      /\ (k.pc = "idle" => k.op = "none")
  BY IdleFields DEF Refreshed, Fields, Preparing, Pruning, Reading
<1> QED
  BY <1>1, QuietSnapped

\* Every step of the only writer keeps what it has read current.
LEMMA SnapStep ==
    ASSUME TypeInv, SingleWriter, SnapInv, NEW w \in Writer,
           StartSync(w) \/ Ingest(w) \/ Lifecycle(w) \/ Fail(w) \/ \E d \in Doc : StartIngest(w, d)
    PROVE  SnapInv'
<1> DEFINE j == job[w]
<1>1. JobOK(j) /\ Ready(j) /\ Snapped(j, es)
  BY Current DEF SnapInv
<1>2. ASSUME NEW k, Go(w, k), Snapped(k, es') PROVE SnapInv'
  BY <1>2, OnlyWriter DEF SnapInv
<1>3. ASSUME Go(w, Idle) PROVE SnapInv'
  BY <1>2, <1>3, IdleSnapped
<1>4. CASE \/ StartSync(w)
           \/ \E d \in Doc : StartIngest(w, d) \/ RestoreFile(w, d)
           \/ \E d \in Doc, t \in Stamp : ArchiveFile(w, d, t)
  <2>1. PICK op, ds : Go(w, Ingesting(op, ds))
    BY <1>4, StartDoes
  <2> DEFINE k == Ingesting(op, ds)
  <2>2. Fields(k, "prepare", op, "idle", None, ds, {}, ds, None, None, NoChunks, NoChunks)
    BY IngestingFields
  <2>3. DOMAIN NoChunks = {}
    BY DEF NoChunks
  <2> HIDE DEF k
  <2>4. Snapped(k, es')
    BY <2>2, <2>3 DEF Fields, Snapped, Preparing, Reading, Pruning, Planned
  <2> QED
    BY <1>2, <2>1, <2>4 DEF k
<1>5. CASE ReadFile(w)
  <2>1. /\ j.pc = "prepare" /\ es' = es
        /\ \E k : /\ Go(w, k)
                  /\ \/ k = Idle
                     \/ /\ k.pc \in {"empty", "existing"} /\ k.cur \in j.todo
                        /\ k.todo = j.todo \ {k.cur} /\ k.delta = j.delta
    BY <1>5, ReadFileDoes DEF Fields
  <2>2. ASSUME NEW k, k.pc \in {"empty", "existing"}, k.cur \in j.todo,
               k.todo = j.todo \ {k.cur}, k.delta = j.delta
        PROVE  Snapped(k, es)
    <3>1. DOMAIN j.delta \cap j.todo = {} /\ \A d \in DOMAIN j.delta : SameChunks(j.delta[d].old, es[d])
      BY <1>1, <2>1 DEF Snapped, Preparing, Planned
    <3>2. Preparing(k) /\ Planned(k) = DOMAIN j.delta /\ ~Pruning(k)
      BY <2>2 DEF Preparing, Planned, Pruning
    <3> QED
      BY <2>2, <3>1, <3>2 DEF Snapped
  <2> QED
    BY <1>2, <1>3, <2>1, <2>2
<1>6. CASE ReadExisting(w)
  <2>1. /\ j.pc = "existing" /\ es' = es
        /\ \E k : /\ Go(w, k)
                  /\ \/ k = Idle
                     \/ /\ k.pc = "copy" /\ SameChunks(k.old, es[j.cur])
                        /\ k.cur = j.cur /\ k.todo = j.todo /\ k.delta = j.delta
    BY <1>6, ReadExistingDoes DEF Fields
  <2>2. ASSUME NEW k, k.pc = "copy", SameChunks(k.old, es[j.cur]),
               k.cur = j.cur, k.todo = j.todo, k.delta = j.delta
        PROVE  Snapped(k, es)
    BY <1>1, <2>1, <2>2 DEF Snapped, Preparing, Reading, Planned, Pruning
  <2> QED
    BY <1>2, <1>3, <2>1, <2>2
<1>7. CASE CopyVectors(w)
  <2>1. PICK k, delta :
            /\ Go(w, k)
            /\ DOMAIN delta = DOMAIN j.delta \cup {j.cur}
            /\ \A d \in DOMAIN j.delta \ {j.cur} : delta[d] = j.delta[d]
            /\ delta[j.cur].old = j.old
            /\ Fields(k, "prepare", j.op, j.then, j.cur, j.todo, j.due, j.seen,
                      None, None, delta, j.buf)
    BY <1>7, CopyVectorsDoes
  <2>2. /\ Go(w, k) /\ k.pc = "prepare" /\ k.todo = j.todo
        /\ DOMAIN k.delta = DOMAIN j.delta \cup {j.cur}
        /\ \A d \in DOMAIN j.delta \ {j.cur} : k.delta[d] = j.delta[d]
        /\ k.delta[j.cur].old = j.old
    BY <2>1 DEF Fields
  <2>7. j.pc = "copy" /\ es' = es
    BY <1>7, CopyVectorsDoes
  <2>3. /\ DOMAIN j.delta \cap j.todo = {} /\ j.cur \notin DOMAIN j.delta \cup j.todo
        /\ SameChunks(j.old, es[j.cur])
        /\ \A d \in DOMAIN j.delta : SameChunks(j.delta[d].old, es[d])
    BY <1>1, <2>7 DEF Snapped, Preparing, Reading, Planned
  <2>4. Preparing(k) /\ ~Reading(k) /\ ~Pruning(k) /\ Planned(k) = DOMAIN k.delta
    BY <2>2 DEF Preparing, Planned, Reading, Pruning
  <2>5. \A d \in DOMAIN k.delta : SameChunks(k.delta[d].old, es[d])
    BY <2>2, <2>3
  <2>6. Snapped(k, es)
    BY <2>2, <2>3, <2>4, <2>5 DEF Snapped
  <2> QED
    BY <1>2, <2>2, <2>6, <2>7
<1>8. CASE BeginApply(w)
  <2>1. PICK k : /\ Go(w, k) /\ k.pc = "apply" /\ k.todo = DOMAIN j.delta /\ k.delta = j.delta
                 /\ es' = es /\ j.pc = "prepare"
    BY <1>8, BeginApplyDoes DEF Fields
  <2>2. ~Preparing(k) /\ ~Reading(k) /\ ~Pruning(k) /\ Planned(k) = DOMAIN j.delta
        /\ Planned(j) = DOMAIN j.delta
    BY <2>1 DEF Preparing, Planned, Reading, Pruning
  <2>3. Snapped(k, es)
    BY <1>1, <2>1, <2>2 DEF Snapped
  <2> QED
    BY <1>2, <2>1, <2>3
<1>9. CASE Apply(w)
  <2> DEFINE d == Lowest(j.todo)
           x == j.delta[d]
  <2>4. j.pc = "apply" /\ d \in j.todo
    BY <1>9, ApplyDoes
  <2>5. PICK S, k :
            /\ es' = [es EXCEPT ![d] = AfterBulk(es[d], x, S)]
            /\ Go(w, k)
            /\ IF S = Touched(x) /\ MetaUpdates(x) \subseteq DOMAIN es[d]
               THEN Fields(k, "apply", j.op, j.then, j.cur, j.todo \ {d},
                           IF S = {} THEN j.due ELSE j.due \cup {d},
                           j.seen, j.read, j.old, j.delta, j.buf)
               ELSE k = Idle
    BY <1>9, ApplyDoes
  <2> HIDE DEF d, x
  <2>1. /\ j.pc = "apply" /\ d \in j.todo /\ Go(w, k)
        /\ es' = [es EXCEPT ![d] = AfterBulk(es[d], x, S)]
        /\ \/ k = Idle
           \/ k.pc = "apply" /\ k.todo = j.todo \ {d} /\ k.delta = j.delta
    BY <2>4, <2>5 DEF Fields
  <2>2. \A e \in Doc \ {d} : es'[e] = es[e]
    BY <2>1 DEF TypeInv, TypeOK
  <2>3. ASSUME k.pc = "apply", k.todo = j.todo \ {d}, k.delta = j.delta PROVE Snapped(k, es')
    <3>1. ~Preparing(k) /\ ~Reading(k) /\ ~Pruning(k) /\ Planned(k) = j.todo \ {d}
          /\ Planned(j) = j.todo /\ j.todo \subseteq Doc
      BY <1>1, <2>1, <2>3 DEF Preparing, Planned, Reading, Pruning, JobOK
    <3>2. \A e \in Planned(k) : SameChunks(k.delta[e].old, es'[e])
      BY <1>1, <2>2, <2>3, <3>1 DEF Snapped
    <3> QED
      BY <2>3, <3>1, <3>2 DEF Snapped
  <2> QED
    BY <1>2, <1>3, <2>1, <2>3
<1>10. CASE FinishApply(w)
  <2>1. PICK n, k : Go(w, k) /\ Refreshed(k, n, j.due, AfterIngest(j.op))
    BY <1>10, FinishApplyDoes
  <2>2. AfterIngest(j.op) \in {"idle", "list", "unarchive"}
    BY DEF AfterIngest
  <2> QED
    BY <1>2, <2>1, <2>2, RefreshedPhase
<1>11. CASE ReadRow(w)
  <2>1. PICK k : /\ Go(w, k) /\ j.pc = "rows" /\ k.pc \in {"rows", "bulk"} /\ k.then = j.then
                 /\ k.todo = j.todo /\ k.delta = j.delta /\ es' = es
    BY <1>11, ReadRowDoes DEF Fields
  <2>2. Snapped(k, es)
    BY <1>1, <2>1 DEF Snapped, Preparing, Reading, Planned, Pruning
  <2> QED
    BY <1>2, <2>1, <2>2
<1>12. CASE WriteRows(w)
  <2>1. PICK k : /\ Go(w, k) /\ j.pc = "bulk" /\ es' = es /\ j.then \in Continuations
                 /\ \/ k = Idle
                    \/ /\ j.then # "idle" /\ k.pc = j.then
                       /\ k.todo = j.todo /\ k.delta = j.delta
    BY <1>12, WriteRowsDoes DEF Fields
  <2>2. ASSUME j.then # "idle", k.pc = j.then, k.todo = j.todo, k.delta = j.delta
        PROVE  Snapped(k, es)
    <3>1. k.pc \in {"prepare", "list", "prune", "unarchive"}
      BY <2>1, <2>2 DEF Continuations
    <3>2. CASE k.pc = "prepare"
      BY <1>1, <2>1, <2>2, <3>2 DEF Snapped, Preparing, Reading, Planned, Pruning
    <3>3. CASE k.pc = "prune"
      BY <1>1, <2>1, <2>2, <3>3 DEF Snapped, Preparing, Reading, Planned, Pruning
    <3>4. CASE k.pc \in {"list", "unarchive"}
      BY <3>4, QuietSnapped DEF Preparing, Pruning
    <3> QED
      BY <3>1, <3>2, <3>3, <3>4
  <2> QED
    BY <1>2, <1>3, <2>1, <2>2
<1>13. CASE DropEmpty(w)
  <2>1. PICK c : /\ es' = [es EXCEPT ![j.cur] = c] /\ j.pc = "drop" /\ j.cur \in Doc
                 /\ \/ Go(w, Idle)
                    \/ \E k : Go(w, k) /\ Refreshed(k, j, {j.cur}, "prepare")
    BY <1>13, DropEmptyDoes DEF Emptied
  <2>2. ASSUME NEW k, Refreshed(k, j, {j.cur}, "prepare") PROVE Snapped(k, es')
    <3>1. k.pc = "rows" /\ k.then = "prepare" /\ k.todo = j.todo /\ k.delta = j.delta
      BY <2>2 DEF Refreshed, Fields
    <3>2. \A e \in Doc \ {j.cur} : es'[e] = es[e]
      BY <2>1 DEF TypeInv, TypeOK
    <3>3. /\ DOMAIN j.delta \cap j.todo = {} /\ j.cur \notin DOMAIN j.delta
          /\ \A d \in DOMAIN j.delta : SameChunks(j.delta[d].old, es[d])
      BY <1>1, <2>1 DEF Snapped, Preparing, Reading, Planned
    <3>4. Preparing(k) /\ ~Reading(k) /\ ~Pruning(k) /\ Planned(k) = DOMAIN j.delta
      BY <3>1 DEF Preparing, Planned, Reading, Pruning
    <3>5. DOMAIN j.delta \subseteq Doc
      BY <1>1 DEF JobOK
    <3> QED
      BY <3>1, <3>2, <3>3, <3>4, <3>5 DEF Snapped
  <2> QED
    BY <1>2, <1>3, <2>1, <2>2
<1>14. CASE PruneOne(w)
  <2> DEFINE d == Lowest(j.todo)
  <2>1. \E n : Go(w, Idle) \/ \E k : Go(w, k) /\ Refreshed(k, n, {d}, "prune")
    BY <1>14, PruneOneDoes DEF Emptied
  <2> HIDE DEF d
  <2>2. ASSUME NEW k, NEW n, Refreshed(k, n, {d}, "prune") PROVE Snapped(k, es')
    <3>1. k.pc = "rows" /\ k.then = "prune"
      BY <2>2 DEF Refreshed, Fields
    <3>2. ~Preparing(k) /\ ~Reading(k) /\ Planned(k) = {}
      BY <3>1 DEF Preparing, Planned, Reading
    <3> QED
      BY <3>1, <3>2 DEF Snapped
  <2> QED
    BY <1>2, <1>3, <2>1, <2>2
<1>15. CASE Unarchive(w) \/ \E d \in Doc : RestoreInIndex(w, d)
  <2>1. PICK d \in Doc : Restamped(w, d, None, "idle")
    BY <1>15, RestoreDoes
  <2>2. Go(w, Idle) \/ \E k : Go(w, k) /\ Refreshed(k, j, {d}, "idle")
    BY <2>1 DEF Restamped
  <2> QED
    BY <1>2, <1>3, <2>2, RefreshedPhase
<1>16. CASE \E d \in Doc, t \in Stamp : ArchiveInIndex(w, d, t)
  <2>1. PICK d \in Doc, t \in Stamp : Restamped(w, d, t, "idle")
    BY <1>16, ArchiveInIndexDoes
  <2>2. Go(w, Idle) \/ \E k : Go(w, k) /\ Refreshed(k, j, {d}, "idle")
    BY <2>1 DEF Restamped
  <2> QED
    BY <1>2, <1>3, <2>2, RefreshedPhase
<1>17. CASE \E d \in Doc : DeleteDocument(w, d)
  <2>1. PICK d \in Doc : Emptied(w, d, j, "idle")
    BY <1>17, DeleteDoes
  <2>2. Go(w, Idle) \/ \E k : Go(w, k) /\ Refreshed(k, j, {d}, "idle")
    BY <2>1 DEF Emptied
  <2> QED
    BY <1>2, <1>3, <2>2, RefreshedPhase
<1>18. CASE StartPurge(w)
  <2>1. PICK k : Go(w, k) /\ k.pc = "purge" /\ k.op = "none"
    BY <1>18, StartPurgeDoes DEF Fields
  <2>2. Snapped(k, es')
    BY <2>1, QuietSnapped DEF Preparing, Pruning
  <2> QED
    BY <1>2, <2>1, <2>2
<1>19. CASE Purge(w)
  <2>1. Go(w, Idle) \/ \E n, k : Go(w, k) /\ Refreshed(k, n, j.todo, "idle")
    BY <1>19, PurgeDoes
  <2> QED
    BY <1>2, <1>3, <2>1, RefreshedPhase
<1>20. CASE ListStale(w)
  <2>1. PICK k : /\ Go(w, k) /\ k.pc = "prune" /\ es' = es
                 /\ k.todo = {d \in Doc : DOMAIN es[d] # Archived(es[d])} \ j.seen
    BY <1>20, ListStaleDoes DEF Fields
  <2>2. Snapped(k, es)
    BY <2>1 DEF Snapped, Preparing, Reading, Planned, Pruning
  <2> QED
    BY <1>2, <2>1, <2>2
<1>21. CASE PruneDecline(w) \/ SyncDone(w) \/ Fail(w)
  BY <1>3, <1>21, AbandonDoes
<1>22. CASE ReadAgain(w)
  <2>1. /\ j.pc = "empty" /\ es' = es
        /\ \E k : /\ Go(w, k)
                  /\ \/ k = Idle
                     \/ /\ k.pc \in {"drop", "prepare"} /\ k.cur = j.cur
                        /\ k.todo = j.todo /\ k.delta = j.delta
    BY <1>22, ReadAgainDoes DEF Fields
  <2>2. ASSUME NEW k, k.pc \in {"drop", "prepare"}, k.cur = j.cur,
               k.todo = j.todo, k.delta = j.delta
        PROVE  Snapped(k, es)
    <3>1. Preparing(j) /\ Reading(j) /\ Planned(j) = DOMAIN j.delta
      BY <2>1 DEF Preparing, Reading, Planned
    <3>2. Preparing(k) /\ Planned(k) = DOMAIN j.delta /\ ~Pruning(k)
      BY <2>2 DEF Preparing, Planned, Pruning
    <3> QED
      BY <1>1, <2>2, <3>1, <3>2 DEF Snapped
  <2> QED
    BY <1>2, <1>3, <2>1, <2>2
<1> QED
  BY <1>4, <1>5, <1>6, <1>7, <1>8, <1>9, <1>10, <1>11, <1>12, <1>13, <1>14, <1>15, <1>16,
     <1>17, <1>18, <1>19, <1>20, <1>21, <1>22 DEF Ingest, Lifecycle

\* At the start nothing has been read.
LEMMA InitSnapInv == Init => SnapInv
BY IdleSnapped DEF Init, SnapInv

\* Every step of a single writer, and every edit of a file.
LEMMA NextSnapInv ==
    ASSUME TypeInv, SingleWriter, SnapInv, [Next]_vars
    PROVE  SnapInv'
<1>1. CASE UNCHANGED <<es, job>>
  BY <1>1 DEF SnapInv
<1>2. ASSUME NEW d \in Doc, NEW f, EditFile(d, f) PROVE SnapInv'
  BY <1>1, <1>2 DEF EditFile
<1>3. ASSUME NEW w \in Writer,
             \/ StartSync(w) \/ Ingest(w) \/ Lifecycle(w) \/ Fail(w)
             \/ \E d \in Doc : StartIngest(w, d)
      PROVE  SnapInv'
  BY <1>3, SnapStep
<1> QED
  BY <1>1, <1>2, <1>3 DEF Next, vars

-----------------------------------------------------------------------------
(* With one writer: a sync that comes to the end of its prune has brought  *)
(* every document whose file did not change meanwhile to what its file     *)
(* says.                                                                   *)

ConvergedTo(c, f) ==
    IF f # None
    THEN /\ DOMAIN c = DOMAIN f.body
         /\ \A s \in DOMAIN c : c[s].text = f.body[s]
         /\ f.arch # None => \A s \in DOMAIN c : c[s].arch = f.arch
    ELSE Archived(c) = DOMAIN c

\* A document of the scan waits to be read, is being read, has its delta
\* planned, or is as its file says; once the index is listed, a document
\* without a file is to be pruned or archived.
Handled(j, c, f, d) ==
    /\ d \in j.seen <=> f # None
    /\ d \in Planned(j) => f # None /\ PlannedFor(j.delta[d], f)
    /\ Reading(j) /\ j.cur = d => f # None
    /\ j.pc \in {"existing", "copy"} /\ j.cur = d => j.read = f
    /\ j.pc \in {"empty", "drop"} /\ j.cur = d => DOMAIN f.body = {}
    /\ \/ d \notin j.seen \/ d \in Planned(j) \/ (Reading(j) /\ j.cur = d)
       \/ (Preparing(j) /\ d \in j.todo) \/ ConvergedTo(c, f)
    /\ Pruning(j) => \/ d \in j.seen /\ d \notin j.todo
                     \/ d \notin j.seen /\ (d \in j.todo \/ ConvergedTo(c, f))

\* Only a sync lists the index and prunes.
Listing(j) == j.pc = "list" \/ (j.pc \in {"rows", "bulk"} /\ j.then = "list")
Late(j) == Listing(j) \/ Pruning(j) => j.op = "sync"

Syncing(j, E, F, C) ==
    Late(j) /\ (j.op = "sync" => \A d \in C : Handled(j, E[d], F[d], d))

SyncInv == \A w \in Writer : Syncing(job[w], es, file, clean[w])

\* A call that is no sync and neither lists nor prunes.
LEMMA NotSyncing ==
    ASSUME NEW k, k.op # "sync", ~Listing(k), ~Pruning(k), NEW E, NEW F, NEW C
    PROVE  Syncing(k, E, F, C)
BY DEF Syncing, Late

\* The idle call is no sync.
LEMMA IdleSyncing == \A E, F, C : Syncing(Idle, E, F, C)
BY IdleFields, IdlePhase, NotSyncing DEF Fields, Listing

\* The call of the only writer goes on as k.
Keeps(w, k) ==
    job[w].op = "sync" => \A d \in clean[w] :
        Handled(job[w], es[d], file[d], d) => Handled(k, es'[d], file[d], d)

\* A step that keeps every clean document handled.
LEMMA KeepsSync ==
    ASSUME TypeInv, SingleWriter, SyncInv, NEW w \in Writer, NEW k, Go(w, k),
           UNCHANGED <<file, clean>>, k.op = job[w].op, Late(k), Keeps(w, k)
    PROVE  SyncInv'
<1>1. \A v \in Writer : v = w /\ job'[v] = k
  BY OnlyWriter DEF SingleWriter
<1>2. Syncing(job[w], es, file, clean[w])
  BY DEF SyncInv
<1>3. Syncing(k, es', file, clean[w])
  BY <1>2 DEF Syncing, Keeps
<1> QED
  BY <1>1, <1>3 DEF SyncInv

\* A step to a call for which there is nothing to handle.
LEMMA StartSyncs ==
    ASSUME TypeInv, SingleWriter, NEW w \in Writer, NEW k, Go(w, k),
           \A E, F, C : Syncing(k, E, F, C)
    PROVE  SyncInv'
BY OnlyWriter DEF SyncInv

\* What a whole bulk of a delta leaves of chunks that are as they were read.
LEMMA WholeBulk ==
    ASSUME NEW c, IsPartial(c, Slot, Chunk), NEW x, IsDelta(x), SameChunks(x.old, c)
    PROVE  LET r == AfterBulk(c, x, Touched(x))
           IN  /\ DOMAIN r = DOMAIN x.new
               /\ \A s \in DOMAIN x.new :
                     /\ r[s].text = x.new[s].text
                     /\ \/ r[s].arch = x.new[s].arch
                        \/ x.new[s].arch = None /\ s \in DOMAIN c /\ r[s].arch = c[s].arch
<1> DEFINE r == AfterBulk(c, x, Touched(x))
<1>1. /\ DOMAIN x.old = DOMAIN c
      /\ \A s \in DOMAIN c : x.old[s].text = c[s].text /\ x.old[s].arch = c[s].arch
  BY DEF SameChunks
<1>2. /\ Dropped(x) \cap Touched(x) = DOMAIN c \ DOMAIN x.new
      /\ Indexed(x) \cap Touched(x) = Indexed(x)
      /\ MetaUpdates(x) \cap Touched(x) = MetaUpdates(x)
  BY <1>1 DEF Touched, Dropped
<1>3. Indexed(x) \subseteq DOMAIN x.new /\ \A s \in DOMAIN x.new \ Indexed(x) :
         s \in DOMAIN c /\ x.old[s].text = x.new[s].text
  BY <1>1 DEF Indexed
<1>4. DOMAIN r = (DOMAIN c \ (DOMAIN c \ DOMAIN x.new)) \cup Indexed(x)
  BY <1>2 DEF AfterBulk
<1>5. DOMAIN r = DOMAIN x.new
  BY <1>3, <1>4
<1>6. \A s \in DOMAIN r : r[s] = IF s \in Indexed(x) THEN x.new[s]
                                 ELSE IF s \in MetaUpdates(x)
                                      THEN [c[s] EXCEPT !.arch = x.new[s].arch]
                                      ELSE c[s]
  BY <1>2 DEF AfterBulk
<1> HIDE DEF r
<1>7. ASSUME NEW s \in DOMAIN x.new
      PROVE  /\ r[s].text = x.new[s].text
             /\ \/ r[s].arch = x.new[s].arch
                \/ x.new[s].arch = None /\ s \in DOMAIN c /\ r[s].arch = c[s].arch
  <2>1. CASE s \in Indexed(x)
    BY <1>5, <1>6, <2>1
  <2>2. CASE s \notin Indexed(x) /\ s \in MetaUpdates(x)
    <3>1. s \in DOMAIN c /\ c[s] \in Chunk /\ c[s].text = x.new[s].text
      BY <1>1, <1>3, <2>2 DEF IsPartial
    <3>2. r[s] = [c[s] EXCEPT !.arch = x.new[s].arch]
      BY <1>5, <1>6, <2>2
    <3> QED
      BY <3>1, <3>2 DEF Chunk
  <2>3. CASE s \notin Indexed(x) /\ s \notin MetaUpdates(x)
    <3>1. s \in DOMAIN c /\ c[s].text = x.new[s].text /\ r[s] = c[s]
      BY <1>1, <1>3, <1>5, <1>6, <2>3
    <3>2. x.new[s].arch \in {None, c[s].arch}
      BY <1>1, <2>3, <3>1 DEF MetaUpdates
    <3> QED
      BY <3>1, <3>2
  <2> QED
    BY <2>1, <2>2, <2>3
<1> QED
  BY <1>5, <1>7 DEF r

\* So the whole bulk of what was planned for a file leaves what the file says.
LEMMA PlannedConverges ==
    ASSUME NEW c, IsPartial(c, Slot, Chunk), NEW x, IsDelta(x), SameChunks(x.old, c),
           NEW f, f # None, PlannedFor(x, f)
    PROVE  ConvergedTo(AfterBulk(c, x, Touched(x)), f)
<1> DEFINE r == AfterBulk(c, x, Touched(x))
<1>1. /\ DOMAIN r = DOMAIN x.new
      /\ \A s \in DOMAIN x.new :
            /\ r[s].text = x.new[s].text
            /\ \/ r[s].arch = x.new[s].arch
               \/ x.new[s].arch = None /\ s \in DOMAIN c /\ r[s].arch = c[s].arch
  BY WholeBulk
<1> HIDE DEF r
<1>2. f.arch # None => \A s \in DOMAIN x.new : x.new[s].arch = f.arch
  BY DEF PlannedFor, Carried
<1>3. DOMAIN x.new = DOMAIN f.body /\ \A s \in DOMAIN x.new : x.new[s].text = f.body[s]
  BY DEF PlannedFor
<1>4. ConvergedTo(r, f)
  BY <1>1, <1>2, <1>3 DEF ConvergedTo
<1> QED
  BY <1>4 DEF r

\* A document without chunks is as an empty or a missing file says.
LEMMA EmptyConverges ==
    ASSUME NEW c, DOMAIN c = {}, NEW f, f # None => DOMAIN f.body = {}
    PROVE  ConvergedTo(c, f)
BY DEF ConvergedTo, Archived

\* A step of the only writer in a sync: the documents it does not touch stay
\* handled, the one it reads, plans, writes or deletes moves on.
LEMMA SyncReads ==
    ASSUME TypeInv, SingleWriter, SyncInv, NEW w \in Writer,
           ReadFile(w) \/ ReadAgain(w) \/ ReadExisting(w)
    PROVE  SyncInv'
<1> DEFINE j == job[w]
<1>1. ASSUME Go(w, Idle) PROVE SyncInv'
  BY <1>1, StartSyncs, IdleSyncing
<1>2. CASE ReadFile(w)
  <2> DEFINE e == Lowest(j.todo)
  <2>1. j.pc = "prepare" /\ e \in j.todo /\ UNCHANGED <<file, es, clean>>
    BY <1>2, ReadFileDoes
  <2>2. PICK k : /\ Go(w, k)
                 /\ \/ k = Idle
                    \/ /\ Has(e) /\ DOMAIN file[e].body = {}
                       /\ Fields(k, "empty", j.op, j.then, e, j.todo \ {e}, j.due,
                                 j.seen, j.read, j.old, j.delta, j.buf)
                    \/ /\ Has(e)
                       /\ Fields(k, "existing", j.op, j.then, e, j.todo \ {e}, j.due,
                                 j.seen, file[e], j.old, j.delta, j.buf)
    BY <1>2, ReadFileDoes
  <2> HIDE DEF e
  <2>3. CASE k = Idle
    BY <1>1, <2>2, <2>3
  <2>4. CASE k # Idle
    <3>1. /\ Has(e) /\ k.op = j.op /\ k.cur = e /\ k.todo = j.todo \ {e} /\ k.seen = j.seen
          /\ k.delta = j.delta
          /\ \/ k.pc = "empty" /\ DOMAIN file[e].body = {}
             \/ k.pc = "existing" /\ k.read = file[e]
      BY <2>2, <2>4 DEF Fields
    <3>2. /\ Preparing(k) /\ Reading(k) /\ ~Pruning(k) /\ ~Listing(k)
          /\ Planned(k) = DOMAIN j.delta
          /\ Preparing(j) /\ ~Reading(j) /\ ~Pruning(j) /\ Planned(j) = DOMAIN j.delta
      BY <2>1, <3>1 DEF Preparing, Reading, Pruning, Listing, Planned
    <3>3. ASSUME NEW d \in clean[w], Handled(j, es[d], file[d], d)
          PROVE  Handled(k, es[d], file[d], d)
      BY <3>1, <3>2, <3>3 DEF Handled, Has
    <3>4. Keeps(w, k) /\ Late(k)
      BY <2>1, <3>2, <3>3 DEF Keeps, Late
    <3> QED
      BY <2>1, <2>2, <3>1, <3>4, KeepsSync
  <2> QED
    BY <2>3, <2>4
<1>3. CASE ReadExisting(w)
  <2>1. j.pc = "existing" /\ UNCHANGED <<file, es, clean>>
    BY <1>3, ReadExistingDoes
  <2>2. PICK k : /\ Go(w, k)
                 /\ \/ k = Idle
                    \/ /\ k.pc = "copy" /\ k.op = j.op /\ k.cur = j.cur /\ k.todo = j.todo
                       /\ k.seen = j.seen /\ k.delta = j.delta /\ k.read = j.read
    BY <1>3, ReadExistingDoes DEF Fields
  <2>3. CASE k = Idle
    BY <1>1, <2>2, <2>3
  <2>4. CASE k # Idle
    <3>1. /\ Preparing(k) /\ Reading(k) /\ ~Pruning(k) /\ ~Listing(k)
          /\ Planned(k) = DOMAIN j.delta
          /\ Preparing(j) /\ Reading(j) /\ ~Pruning(j) /\ Planned(j) = DOMAIN j.delta
      BY <2>1, <2>2, <2>4 DEF Preparing, Reading, Pruning, Listing, Planned
    <3>2. ASSUME NEW d \in clean[w], Handled(j, es[d], file[d], d)
          PROVE  Handled(k, es[d], file[d], d)
      BY <2>1, <2>2, <2>4, <3>1, <3>2 DEF Handled
    <3>3. Keeps(w, k) /\ Late(k)
      BY <2>1, <3>1, <3>2 DEF Keeps, Late
    <3> QED
      BY <2>1, <2>2, <2>4, <3>3, KeepsSync
  <2> QED
    BY <2>3, <2>4
<1>4. CASE ReadAgain(w)
  <2>1. j.pc = "empty" /\ UNCHANGED <<file, es, clean>>
    BY <1>4, ReadAgainDoes
  <2>2. PICK k : /\ Go(w, k)
                 /\ \/ k = Idle
                    \/ /\ \/ k.pc = "drop" /\ DOMAIN file[j.cur].body = {}
                          \/ k.pc = "prepare" /\ DOMAIN file[j.cur].body # {}
                       /\ k.op = j.op /\ k.cur = j.cur /\ k.todo = j.todo
                       /\ k.seen = j.seen /\ k.delta = j.delta /\ k.read = j.read
    BY <1>4, ReadAgainDoes DEF Fields
  <2>3. CASE k = Idle
    BY <1>1, <2>2, <2>3
  <2>4. CASE k # Idle
    <3>1. /\ Preparing(k) /\ ~Pruning(k) /\ ~Listing(k) /\ Planned(k) = DOMAIN j.delta
          /\ Reading(k) <=> k.pc = "drop"
          /\ Preparing(j) /\ Reading(j) /\ ~Pruning(j) /\ Planned(j) = DOMAIN j.delta
      BY <2>1, <2>2, <2>4 DEF Preparing, Reading, Pruning, Listing, Planned
    <3>2. ASSUME NEW d \in clean[w], Handled(j, es[d], file[d], d)
          PROVE  Handled(k, es[d], file[d], d)
      <4>1. CASE d # j.cur
        BY <2>1, <2>2, <2>4, <3>1, <3>2, <4>1 DEF Handled
      <4>2. CASE d = j.cur
        <5>1. k.pc = "drop"
          BY <2>1, <2>2, <2>4, <3>2, <4>2 DEF Handled
        <5> QED
          BY <2>1, <2>2, <2>4, <3>1, <3>2, <5>1 DEF Handled
      <4> QED
        BY <4>1, <4>2
    <3>3. Keeps(w, k) /\ Late(k)
      BY <2>1, <3>1, <3>2 DEF Keeps, Late
    <3> QED
      BY <2>1, <2>2, <2>4, <3>3, KeepsSync
  <2> QED
    BY <2>3, <2>4
<1> QED
  BY <1>2, <1>3, <1>4

\* A planned delta takes the place of the document that was read.
LEMMA SyncPlans ==
    ASSUME TypeInv, SingleWriter, SyncInv, NEW w \in Writer, CopyVectors(w) \/ BeginApply(w)
    PROVE  SyncInv'
<1> DEFINE j == job[w]
<1>1. CASE CopyVectors(w)
  <2>1. j.pc = "copy" /\ UNCHANGED <<file, es, clean>>
    BY <1>1, CopyVectorsDoes
  <2>2. PICK k, delta :
            /\ Go(w, k)
            /\ DOMAIN delta = DOMAIN j.delta \cup {j.cur}
            /\ \A d \in DOMAIN j.delta \ {j.cur} : delta[d] = j.delta[d]
            /\ delta[j.cur].old = j.old /\ PlannedFor(delta[j.cur], j.read)
            /\ Fields(k, "prepare", j.op, j.then, j.cur, j.todo, j.due, j.seen,
                      None, None, delta, j.buf)
    BY <1>1, CopyVectorsDoes
  <2>3. /\ k.pc = "prepare" /\ k.op = j.op /\ k.todo = j.todo /\ k.seen = j.seen
        /\ k.delta = delta
    BY <2>2 DEF Fields
  <2>4. /\ Preparing(k) /\ ~Reading(k) /\ ~Pruning(k) /\ ~Listing(k)
        /\ Planned(k) = DOMAIN j.delta \cup {j.cur}
        /\ Preparing(j) /\ Reading(j) /\ ~Pruning(j) /\ Planned(j) = DOMAIN j.delta
    BY <2>1, <2>2, <2>3 DEF Preparing, Reading, Pruning, Listing, Planned
  <2>5. ASSUME NEW d \in clean[w], Handled(j, es[d], file[d], d)
        PROVE  Handled(k, es[d], file[d], d)
    <3>1. CASE d = j.cur
      <4>1. file[d] # None /\ j.read = file[d] /\ d \in j.seen
        BY <2>1, <2>4, <2>5, <3>1 DEF Handled
      <4>2. PlannedFor(k.delta[d], file[d])
        BY <2>2, <2>3, <3>1, <4>1
      <4> QED
        BY <2>3, <2>4, <3>1, <4>1, <4>2 DEF Handled
    <3>2. CASE d # j.cur
      <4>1. d \in DOMAIN j.delta => k.delta[d] = j.delta[d]
        BY <2>2, <2>3, <3>2
      <4> QED
        BY <2>3, <2>4, <2>5, <3>2, <4>1 DEF Handled
    <3> QED
      BY <3>1, <3>2
  <2>6. Keeps(w, k) /\ Late(k)
    BY <2>1, <2>4, <2>5 DEF Keeps, Late
  <2> QED
    BY <2>1, <2>2, <2>3, <2>6, KeepsSync
<1>2. CASE BeginApply(w)
  <2>1. j.pc = "prepare" /\ j.todo = {} /\ UNCHANGED <<file, es, clean>>
    BY <1>2, BeginApplyDoes
  <2>2. PICK k : /\ Go(w, k) /\ k.pc = "apply" /\ k.op = j.op /\ k.todo = DOMAIN j.delta
                 /\ k.seen = j.seen /\ k.delta = j.delta
    BY <1>2, BeginApplyDoes DEF Fields
  <2>3. /\ ~Preparing(k) /\ ~Reading(k) /\ ~Pruning(k) /\ ~Listing(k)
        /\ Planned(k) = DOMAIN j.delta
        /\ Preparing(j) /\ ~Reading(j) /\ ~Pruning(j) /\ Planned(j) = DOMAIN j.delta
    BY <2>1, <2>2 DEF Preparing, Reading, Pruning, Listing, Planned
  <2>4. ASSUME NEW d \in clean[w], Handled(j, es[d], file[d], d)
        PROVE  Handled(k, es[d], file[d], d)
    BY <2>1, <2>2, <2>3, <2>4 DEF Handled
  <2>5. Keeps(w, k) /\ Late(k)
    BY <2>1, <2>3, <2>4 DEF Keeps, Late
  <2> QED
    BY <2>1, <2>2, <2>5, KeepsSync
<1> QED
  BY <1>1, <1>2

\* An applied delta brings its document to what its file says.
LEMMA SyncApplies ==
    ASSUME TypeInv, SingleWriter, SnapInv, SyncInv, NEW w \in Writer, Apply(w)
    PROVE  SyncInv'
<1> DEFINE j == job[w]
           e == Lowest(j.todo)
           x == j.delta[e]
<1>1. /\ j.pc = "apply" /\ e \in j.todo /\ e \in Doc /\ e \in DOMAIN j.delta
      /\ UNCHANGED <<file, clean>>
  BY ApplyDoes
<1>2. PICK S, k :
          /\ es' = [es EXCEPT ![e] = AfterBulk(es[e], x, S)]
          /\ Go(w, k)
          /\ IF S = Touched(x) /\ MetaUpdates(x) \subseteq DOMAIN es[e]
             THEN Fields(k, "apply", j.op, j.then, j.cur, j.todo \ {e},
                         IF S = {} THEN j.due ELSE j.due \cup {e},
                         j.seen, j.read, j.old, j.delta, j.buf)
             ELSE k = Idle
  BY ApplyDoes
<1>3. JobOK(j) /\ Snapped(j, es)
  BY Current DEF SnapInv
<1>4. IsDelta(x) /\ IsPartial(es[e], Slot, Chunk) /\ Doc = DOMAIN es
  BY <1>1, <1>3 DEF JobOK, TypeInv, TypeOK
<1>5. /\ ~Preparing(j) /\ ~Reading(j) /\ ~Pruning(j) /\ Planned(j) = j.todo
  BY <1>1 DEF Preparing, Reading, Pruning, Planned
<1>6. SameChunks(x.old, es[e])
  BY <1>1, <1>3, <1>5 DEF Snapped
<1> HIDE DEF e, x
<1>7. CASE k = Idle
  BY <1>2, <1>7, StartSyncs, IdleSyncing
<1>8. CASE k # Idle
  <2>1. /\ S = Touched(x) /\ k.pc = "apply" /\ k.op = j.op /\ k.todo = j.todo \ {e}
        /\ k.seen = j.seen /\ k.delta = j.delta
    BY <1>2, <1>8 DEF Fields
  <2>2. /\ ~Preparing(k) /\ ~Reading(k) /\ ~Pruning(k) /\ ~Listing(k)
        /\ Planned(k) = j.todo \ {e}
    BY <2>1 DEF Preparing, Reading, Pruning, Listing, Planned
  <2>3. ASSUME NEW d \in clean[w], Handled(j, es[d], file[d], d)
        PROVE  Handled(k, es'[d], file[d], d)
    <3>1. CASE d = e
      <4>1. file[d] # None /\ PlannedFor(x, file[d]) /\ d \in j.seen
        BY <1>1, <1>5, <2>3, <3>1 DEF Handled, x
      <4>2. es'[d] = AfterBulk(es[d], x, Touched(x))
        BY <1>1, <1>2, <1>4, <2>1, <3>1
      <4>3. ConvergedTo(es'[d], file[d])
        BY <1>4, <1>6, <3>1, <4>1, <4>2, PlannedConverges
      <4> QED
        BY <2>1, <2>2, <3>1, <4>1, <4>3 DEF Handled
    <3>2. CASE d # e
      <4>1. es'[d] = es[d]
        BY <1>2, <1>4, <3>2 DEF TypeInv, TypeOK
      <4> QED
        BY <1>1, <1>5, <2>1, <2>2, <2>3, <3>2, <4>1 DEF Handled
    <3> QED
      BY <3>1, <3>2
  <2>4. Keeps(w, k) /\ Late(k)
    BY <2>2, <2>3 DEF Keeps, Late
  <2> QED
    BY <1>1, <1>2, <2>1, <2>4, KeepsSync
<1> QED
  BY <1>7, <1>8

\* Refreshing rows changes nothing of what is handled.
LEMMA SyncRows ==
    ASSUME TypeInv, SingleWriter, SyncInv, NEW w \in Writer,
           FinishApply(w) \/ ReadRow(w) \/ WriteRows(w)
    PROVE  SyncInv'
<1> DEFINE j == job[w]
<1>1. ASSUME Go(w, Idle) PROVE SyncInv'
  BY <1>1, StartSyncs, IdleSyncing
<1>2. CASE FinishApply(w)
  <2>1. j.pc = "apply" /\ j.todo = {} /\ UNCHANGED <<file, es, clean>>
    BY <1>2, FinishApplyDoes
  <2>2. PICK n, k : /\ Go(w, k) /\ Refreshed(k, n, j.due, AfterIngest(j.op))
                    /\ Fields(n, "apply", j.op, j.then, j.cur, {}, j.due, j.seen, j.read,
                              j.old, NoChunks, j.buf)
    BY <1>2, FinishApplyDoes
  <2>3. CASE k = Idle
    BY <1>1, <2>2, <2>3
  <2>4. CASE k # Idle
    <3>1. n.op = j.op /\ n.seen = j.seen
      BY <2>2 DEF Fields
    <3>2. /\ k.op = j.op /\ k.seen = j.seen
          /\ \/ k.pc = AfterIngest(j.op)
             \/ k.pc = "rows" /\ k.then = AfterIngest(j.op)
      BY <2>2, <2>4, <3>1 DEF Refreshed, Fields
    <3>3. AfterIngest(j.op) \in {"idle", "list", "unarchive"}
          /\ (AfterIngest(j.op) = "list" => j.op = "sync")
      BY DEF AfterIngest
    <3>4. /\ ~Preparing(k) /\ ~Reading(k) /\ ~Pruning(k) /\ Planned(k) = {}
          /\ ~Preparing(j) /\ ~Reading(j) /\ ~Pruning(j) /\ Planned(j) = {}
          /\ k.pc \notin {"empty", "existing", "copy", "drop"}
      BY <2>1, <3>2, <3>3 DEF Preparing, Reading, Pruning, Planned
    <3>5. Late(k)
      BY <3>2, <3>3, <3>4 DEF Late, Listing
    <3>6. ASSUME NEW d \in clean[w], Handled(j, es[d], file[d], d)
          PROVE  Handled(k, es[d], file[d], d)
      BY <3>2, <3>4, <3>6 DEF Handled
    <3>7. Keeps(w, k)
      BY <2>1, <3>6 DEF Keeps
    <3> QED
      BY <2>1, <2>2, <3>2, <3>5, <3>7, KeepsSync
  <2> QED
    BY <2>3, <2>4
<1>3. ASSUME NEW k, Go(w, k), UNCHANGED <<file, es, clean>>, k.op = j.op, k.todo = j.todo,
             k.seen = j.seen, k.delta = j.delta, j.pc \in {"rows", "bulk"},
             \/ k.pc \in {"rows", "bulk"} /\ k.then = j.then
             \/ k.pc = j.then /\ k.pc \in {"prepare", "list", "prune", "unarchive"}
      PROVE  SyncInv'
  <2>1. /\ Preparing(k) <=> Preparing(j)
        /\ Pruning(k) <=> Pruning(j)
        /\ Listing(k) <=> Listing(j)
        /\ ~Reading(k) /\ ~Reading(j) /\ k.pc \notin {"empty", "existing", "copy", "drop"}
    BY <1>3 DEF Preparing, Pruning, Listing, Reading
  <2>2. Planned(k) = Planned(j)
    BY <1>3, <2>1 DEF Planned
  <2>3. ASSUME NEW d \in clean[w], Handled(j, es[d], file[d], d)
        PROVE  Handled(k, es[d], file[d], d)
    BY <1>3, <2>1, <2>2, <2>3 DEF Handled
  <2>4. Late(j)
    BY DEF SyncInv, Syncing
  <2>5. Keeps(w, k) /\ Late(k)
    BY <1>3, <2>1, <2>3, <2>4 DEF Keeps, Late
  <2> QED
    BY <1>3, <2>5, KeepsSync
<1>4. CASE ReadRow(w)
  <2>1. j.pc = "rows" /\ UNCHANGED <<file, es, clean>>
    BY <1>4, ReadRowDoes
  <2>2. PICK k : /\ Go(w, k) /\ k.op = j.op /\ k.todo = j.todo /\ k.seen = j.seen
                 /\ k.delta = j.delta /\ k.pc \in {"rows", "bulk"} /\ k.then = j.then
    BY <1>4, ReadRowDoes DEF Fields
  <2> QED
    BY <1>3, <2>1, <2>2
<1>5. CASE WriteRows(w)
  <2>1. j.pc = "bulk" /\ UNCHANGED <<file, es, clean>> /\ j.then \in Continuations
    BY <1>5, WriteRowsDoes
  <2>2. PICK k : /\ Go(w, k)
                 /\ \/ k = Idle
                    \/ /\ j.then # "idle" /\ k.op = j.op /\ k.todo = j.todo
                       /\ k.seen = j.seen /\ k.delta = j.delta /\ k.pc = j.then
    BY <1>5, WriteRowsDoes DEF Fields
  <2>3. CASE k = Idle
    BY <1>1, <2>2, <2>3
  <2>4. CASE k # Idle
    BY <1>3, <2>1, <2>2, <2>4 DEF Continuations
  <2> QED
    BY <2>3, <2>4
<1> QED
  BY <1>2, <1>4, <1>5

\* A deleted document is one whose file is empty or gone.
LEMMA SyncDeletes ==
    ASSUME TypeInv, SingleWriter, SyncInv, NEW w \in Writer, DropEmpty(w) \/ PruneOne(w)
    PROVE  SyncInv'
<1> DEFINE j == job[w]
<1>1. ASSUME Go(w, Idle) PROVE SyncInv'
  BY <1>1, StartSyncs, IdleSyncing
<1>2. Late(j)
  BY DEF SyncInv, Syncing
<1>3. CASE DropEmpty(w)
  <2>1. j.pc = "drop" /\ j.cur \in Doc /\ Emptied(w, j.cur, j, "prepare")
    BY <1>3, DropEmptyDoes
  <2>2. PICK c : /\ es' = [es EXCEPT ![j.cur] = c]
                 /\ UNCHANGED <<file, rows, clean>>
                 /\ \/ Go(w, Idle) /\ MayFail
                    \/ /\ DOMAIN c = {}
                       /\ \E k : Go(w, k) /\ Refreshed(k, j, {j.cur}, "prepare")
    BY <2>1 DEF Emptied
  <2>3. ASSUME NEW k, Go(w, k), Refreshed(k, j, {j.cur}, "prepare"), DOMAIN c = {}
        PROVE  SyncInv'
    <3>1. /\ k.op = j.op /\ k.seen = j.seen /\ k.todo = j.todo /\ k.delta = j.delta
          /\ k.pc = "rows" /\ k.then = "prepare"
      BY <2>3 DEF Refreshed, Fields
    <3>2. /\ Preparing(k) /\ ~Reading(k) /\ ~Pruning(k) /\ ~Listing(k)
          /\ Planned(k) = DOMAIN j.delta
          /\ Preparing(j) /\ Reading(j) /\ ~Pruning(j) /\ Planned(j) = DOMAIN j.delta
      BY <2>1, <3>1 DEF Preparing, Reading, Pruning, Listing, Planned
    <3>3. ASSUME NEW d \in clean[w], Handled(j, es[d], file[d], d)
          PROVE  Handled(k, es'[d], file[d], d)
      <4>1. CASE d = j.cur
        <5>1. DOMAIN file[d].body = {} /\ es'[d] = c
          BY <2>1, <2>2, <3>3, <4>1 DEF Handled, TypeInv, TypeOK
        <5>2. ConvergedTo(es'[d], file[d])
          BY <2>3, <5>1, EmptyConverges
        <5> QED
          BY <3>1, <3>2, <3>3, <5>2 DEF Handled
      <4>2. CASE d # j.cur
        <5>1. es'[d] = es[d]
          BY <2>2, <4>2 DEF TypeInv, TypeOK
        <5> QED
          BY <3>1, <3>2, <3>3, <4>2, <5>1 DEF Handled
      <4> QED
        BY <4>1, <4>2
    <3>4. Keeps(w, k) /\ Late(k)
      BY <3>2, <3>3 DEF Keeps, Late
    <3> QED
      BY <2>2, <2>3, <3>1, <3>4, KeepsSync
  <2> QED
    BY <1>1, <2>2, <2>3
<1>4. CASE PruneOne(w)
  <2> DEFINE e == Lowest(j.todo)
  <2>1. j.pc = "prune" /\ e \in j.todo /\ e \in Doc
    BY <1>4, PruneOneDoes
  <2>2. PICK n : /\ Fields(n, "prune", j.op, j.then, j.cur, j.todo \ {e}, j.due, j.seen,
                           j.read, j.old, j.delta, j.buf)
                 /\ Emptied(w, e, n, "prune")
    BY <1>4, PruneOneDoes
  <2> HIDE DEF e
  <2>3. PICK c : /\ es' = [es EXCEPT ![e] = c]
                 /\ UNCHANGED <<file, rows, clean>>
                 /\ \/ Go(w, Idle) /\ MayFail
                    \/ /\ DOMAIN c = {}
                       /\ \E k : Go(w, k) /\ Refreshed(k, n, {e}, "prune")
    BY <2>2 DEF Emptied
  <2>4. n.op = j.op /\ n.seen = j.seen /\ n.todo = j.todo \ {e}
    BY <2>2 DEF Fields
  <2>5. ASSUME NEW k, Go(w, k), Refreshed(k, n, {e}, "prune"), DOMAIN c = {}
        PROVE  SyncInv'
    <3>1. /\ k.op = j.op /\ k.seen = j.seen /\ k.todo = j.todo \ {e}
          /\ k.pc = "rows" /\ k.then = "prune"
      BY <2>4, <2>5 DEF Refreshed, Fields
    <3>2. /\ ~Preparing(k) /\ ~Reading(k) /\ Pruning(k) /\ Planned(k) = {}
          /\ ~Preparing(j) /\ ~Reading(j) /\ Pruning(j) /\ Planned(j) = {}
          /\ k.pc \notin {"empty", "existing", "copy", "drop"}
      BY <2>1, <3>1 DEF Preparing, Reading, Pruning, Planned
    <3>3. ASSUME NEW d \in clean[w], Handled(j, es[d], file[d], d)
          PROVE  Handled(k, es'[d], file[d], d)
      <4>1. CASE d = e
        <5>1. d \notin j.seen /\ file[d] = None /\ es'[d] = c
          BY <2>1, <2>3, <3>2, <3>3, <4>1 DEF Handled, TypeInv, TypeOK
        <5>2. ConvergedTo(es'[d], file[d])
          BY <2>5, <5>1, EmptyConverges
        <5> QED
          BY <3>1, <3>2, <3>3, <5>1, <5>2 DEF Handled
      <4>2. CASE d # e
        <5>1. es'[d] = es[d]
          BY <2>3, <4>2 DEF TypeInv, TypeOK
        <5> QED
          BY <3>1, <3>2, <3>3, <4>2, <5>1 DEF Handled
      <4> QED
        BY <4>1, <4>2
    <3>4. Keeps(w, k) /\ Late(k)
      BY <1>2, <3>1, <3>2, <3>3 DEF Keeps, Late
    <3> QED
      BY <2>3, <2>5, <3>1, <3>4, KeepsSync
  <2> QED
    BY <1>1, <2>3, <2>5
<1> QED
  BY <1>3, <1>4

\* What is listed are the documents without a file that are not archived.
LEMMA SyncLists ==
    ASSUME TypeInv, SingleWriter, SyncInv, NEW w \in Writer, ListStale(w)
    PROVE  SyncInv'
<1> DEFINE j == job[w]
           stale == {d \in Doc : DOMAIN es[d] # Archived(es[d])} \ j.seen
<1>1. j.pc = "list" /\ UNCHANGED <<file, es, clean>>
  BY ListStaleDoes
<1>2. PICK k : /\ Go(w, k) /\ k.pc = "prune" /\ k.op = j.op /\ k.todo = stale
               /\ k.seen = j.seen
  BY ListStaleDoes DEF Fields
<1>3. Listing(j) /\ Late(j)
  BY <1>1 DEF Listing, SyncInv, Syncing
<1>4. /\ ~Preparing(k) /\ ~Reading(k) /\ Pruning(k) /\ Planned(k) = {}
      /\ ~Preparing(j) /\ ~Reading(j) /\ Planned(j) = {}
      /\ k.pc \notin {"empty", "existing", "copy", "drop"}
  BY <1>1, <1>2 DEF Preparing, Reading, Pruning, Planned
<1>5. ASSUME NEW d \in clean[w], Handled(j, es[d], file[d], d)
      PROVE  Handled(k, es[d], file[d], d)
  <2>1. d \in Doc
    BY DEF TypeInv, TypeOK
  <2>2. CASE d \in j.seen
    BY <1>2, <1>4, <1>5, <2>2 DEF Handled
  <2>3. CASE d \notin j.seen
    <3>1. file[d] = None
      BY <1>5, <2>3 DEF Handled
    <3>2. d \in stale \/ DOMAIN es[d] = Archived(es[d])
      BY <2>1, <2>3
    <3>3. d \in k.todo \/ ConvergedTo(es[d], file[d])
      BY <1>2, <3>1, <3>2 DEF ConvergedTo
    <3> QED
      BY <1>2, <1>4, <1>5, <2>3, <3>3 DEF Handled
  <2> QED
    BY <2>2, <2>3
<1>6. Keeps(w, k) /\ Late(k)
  BY <1>1, <1>2, <1>3, <1>5 DEF Keeps, Late
<1> QED
  BY <1>1, <1>2, <1>6, KeepsSync

\* A sync starts with every file of its scan waiting.
LEMMA SyncStarts ==
    ASSUME TypeInv, SingleWriter, NEW w \in Writer,
           StartSync(w) \/ \E d \in Doc : StartIngest(w, d) \/ RestoreFile(w, d)
           \/ \E t \in Stamp : ArchiveFile(w, d, t)
    PROVE  SyncInv'
<1>1. PICK op \in {"ingest", "sync", "restore"}, ds \in SUBSET Doc :
         /\ Go(w, Ingesting(op, ds))
         /\ op = "sync" => /\ ds = {d \in Doc : Has(d)} /\ file' = file
  BY StartDoes
<1> DEFINE k == Ingesting(op, ds)
<1>2. /\ k.pc = "prepare" /\ k.op = op /\ k.todo = ds /\ k.seen = ds /\ DOMAIN k.delta = {}
  BY IngestingFields DEF Fields, NoChunks
<1>3. /\ Preparing(k) /\ ~Reading(k) /\ ~Pruning(k) /\ ~Listing(k) /\ Planned(k) = {}
      /\ k.pc \notin {"empty", "existing", "copy", "drop"}
  BY <1>2 DEF Preparing, Reading, Pruning, Listing, Planned
<1> HIDE DEF k
<1>4. CASE op # "sync"
  <2>1. \A E, F, C : Syncing(k, E, F, C)
    BY <1>2, <1>3, <1>4, NotSyncing
  <2> QED
    BY <1>1, <2>1, StartSyncs DEF k
<1>5. CASE op = "sync"
  <2>1. /\ ds = {d \in Doc : Has(d)} /\ file' = file
    BY <1>1, <1>5
  <2>2. \A v \in Writer : job'[v] = k
    BY <1>1, OnlyWriter DEF k
  <2>3. \A v \in Writer : clean'[v] \subseteq Doc
    <3>1. Next
      BY DEF Next, Lifecycle
    <3> QED
      BY <3>1, NextTypeInv DEF TypeInv, TypeOK
  <2>4. ASSUME NEW d \in Doc PROVE Handled(k, es'[d], file'[d], d)
    BY <1>2, <1>3, <2>1 DEF Handled, Has
  <2>5. Late(k)
    BY <1>3 DEF Late
  <2> QED
    BY <2>2, <2>3, <2>4, <2>5 DEF SyncInv, Syncing
<1> QED
  BY <1>4, <1>5

\* The other calls list nothing, so whatever they do, no sync is under way.
LEMMA SyncOthers ==
    ASSUME TypeInv, SingleWriter, SnapInv, NEW w \in Writer,
           \/ Unarchive(w) \/ StartPurge(w) \/ Purge(w)
           \/ \E d \in Doc : DeleteDocument(w, d) \/ RestoreInIndex(w, d)
           \/ \E d \in Doc, t \in Stamp : ArchiveInIndex(w, d, t)
    PROVE  SyncInv'
<1> DEFINE j == job[w]
<1>1. ASSUME Go(w, Idle) PROVE SyncInv'
  BY <1>1, StartSyncs, IdleSyncing
<1>2. ASSUME NEW k, Go(w, k), NEW n, NEW ds, Refreshed(k, n, ds, "idle"), n.op # "sync"
      PROVE  SyncInv'
  <2>1. CASE k = Idle
    BY <1>1, <1>2, <2>1
  <2>2. CASE k # Idle
    <3>1. k.op # "sync" /\ k.pc = "rows" /\ k.then = "idle"
      BY <1>2, <2>2 DEF Refreshed, Fields
    <3>2. ~Listing(k) /\ ~Pruning(k)
      BY <3>1 DEF Listing, Pruning
    <3> QED
      BY <1>2, <3>1, <3>2, NotSyncing, StartSyncs
  <2> QED
    BY <2>1, <2>2
<1>3. j.pc \in {"idle", "purge", "unarchive"} => j.op # "sync"
  BY Current DEF SnapInv, Snapped, Ready
<1>4. CASE Unarchive(w) \/ \E d \in Doc : RestoreInIndex(w, d)
  <2>1. PICK d \in Doc : /\ Restamped(w, d, None, "idle")
                         /\ j.pc \in {"unarchive", "idle"}
    BY <1>4, RestoreDoes
  <2>2. Go(w, Idle) \/ \E k : Go(w, k) /\ Refreshed(k, j, {d}, "idle")
    BY <2>1 DEF Restamped
  <2> QED
    BY <1>1, <1>2, <1>3, <2>1, <2>2
<1>5. CASE \E d \in Doc, t \in Stamp : ArchiveInIndex(w, d, t)
  <2>1. PICK d \in Doc, t \in Stamp : j.pc = "idle" /\ Restamped(w, d, t, "idle")
    BY <1>5, ArchiveInIndexDoes
  <2>2. Go(w, Idle) \/ \E k : Go(w, k) /\ Refreshed(k, j, {d}, "idle")
    BY <2>1 DEF Restamped
  <2> QED
    BY <1>1, <1>2, <1>3, <2>1, <2>2
<1>6. CASE \E d \in Doc : DeleteDocument(w, d)
  <2>1. PICK d \in Doc : j.pc = "idle" /\ Emptied(w, d, j, "idle")
    BY <1>6, DeleteDoes
  <2>2. Go(w, Idle) \/ \E k : Go(w, k) /\ Refreshed(k, j, {d}, "idle")
    BY <2>1 DEF Emptied
  <2> QED
    BY <1>1, <1>2, <1>3, <2>1, <2>2
<1>7. CASE StartPurge(w)
  <2>1. PICK k : Go(w, k) /\ k.pc = "purge" /\ k.op = "none"
    BY <1>7, StartPurgeDoes DEF Fields
  <2>2. ~Listing(k) /\ ~Pruning(k)
    BY <2>1 DEF Listing, Pruning
  <2> QED
    BY <2>1, <2>2, NotSyncing, StartSyncs
<1>8. CASE Purge(w)
  <2>1. j.pc = "purge"
    BY <1>8, PurgeDoes
  <2>2. \/ Go(w, Idle)
        \/ \E n, k : /\ Go(w, k) /\ Refreshed(k, n, j.todo, "idle")
                     /\ Fields(n, "purge", j.op, j.then, j.cur, {}, j.due, j.seen,
                               j.read, j.old, j.delta, j.buf)
    BY <1>8, PurgeDoes
  <2>3. \/ Go(w, Idle)
        \/ \E n, k : Go(w, k) /\ Refreshed(k, n, j.todo, "idle") /\ n.op = j.op
    BY <2>2 DEF Fields
  <2> QED
    BY <1>1, <1>2, <1>3, <2>1, <2>3
<1> QED
  BY <1>4, <1>5, <1>6, <1>7, <1>8

\* At the start no sync is under way.
LEMMA InitSyncInv == Init => SyncInv
BY IdleSyncing DEF Init, SyncInv

\* Every step of a single writer, and every edit of a file, which is no longer
\* among those unchanged since the scan.
LEMMA NextSyncInv ==
    ASSUME TypeInv, SingleWriter, SnapInv, SyncInv, [Next]_vars
    PROVE  SyncInv'
<1>1. CASE UNCHANGED vars
  BY <1>1 DEF SyncInv, vars
<1>2. ASSUME NEW d \in Doc, NEW f, EditFile(d, f) PROVE SyncInv'
  <2>1. /\ es' = es /\ job' = job
        /\ \A v \in Writer : clean'[v] = clean[v] \ {d}
        /\ \A e \in Doc \ {d} : file'[e] = file[e]
    BY <1>2 DEF EditFile, TypeInv, TypeOK
  <2>2. \A v \in Writer : clean[v] \subseteq Doc
    BY DEF TypeInv, TypeOK
  <2> QED
    BY <2>1, <2>2 DEF SyncInv, Syncing
<1>3. ASSUME NEW w \in Writer, Ingest(w) PROVE SyncInv'
  BY <1>3, SyncReads, SyncPlans, SyncApplies, SyncRows DEF Ingest
<1>4. ASSUME NEW w \in Writer, Lifecycle(w) PROVE SyncInv'
  <2>1. ASSUME PruneDecline(w) \/ SyncDone(w) PROVE SyncInv'
    BY <2>1, AbandonDoes, StartSyncs, IdleSyncing
  <2> QED
    BY <1>4, <2>1, SyncDeletes, SyncLists, SyncStarts, SyncOthers DEF Lifecycle
<1>5. ASSUME NEW w \in Writer, StartSync(w) \/ Fail(w) \/ \E d \in Doc : StartIngest(w, d)
      PROVE  SyncInv'
  BY <1>5, SyncStarts, AbandonDoes, StartSyncs, IdleSyncing
<1> QED
  BY <1>1, <1>2, <1>3, <1>4, <1>5 DEF Next

\* With one writer, whatever earlier calls left half-written and however many
\* bulks fail, a sync whose prune is done has brought the index to the tree
\* for every file that did not change since its scan.
THEOREM SyncRecovers == SingleWriter => (Spec => []SyncConverges)
<1> SUFFICES ASSUME SingleWriter PROVE Spec => []SyncConverges
  OBVIOUS
<1> DEFINE Inv == TypeInv /\ SnapInv /\ SyncInv
<1>1. Init => Inv
  BY InitTypeInv, InitSnapInv, InitSyncInv
<1>2. Inv /\ [Next]_vars => Inv'
  BY NextTypeInv, NextSnapInv, NextSyncInv
<1>3. Inv => SyncConverges
  <2> SUFFICES ASSUME Inv, NEW w \in Writer, job[w].pc = "prune", job[w].todo = {},
                      NEW d \in clean[w]
               PROVE  Converged(d)
    BY DEF SyncConverges
  <2> DEFINE j == job[w]
  <2>1. Pruning(j) /\ ~Preparing(j) /\ ~Reading(j) /\ Planned(j) = {}
    BY DEF Pruning, Preparing, Reading, Planned
  <2>2. Handled(j, es[d], file[d], d)
    BY <2>1 DEF SyncInv, Syncing, Late
  <2>3. ConvergedTo(es[d], file[d])
    BY <2>1, <2>2 DEF Handled
  <2> QED
    BY <2>3 DEF ConvergedTo, Converged, Has
<1> QED
  BY <1>1, <1>2, <1>3, PTL DEF Spec

-----------------------------------------------------------------------------
(* With one writer and no failures: a row that is behind its chunks is one  *)
(* that the call still has to read (due) or to write (buf).                 *)

Settled(E, R) == \A d \in Doc : R[d] = DocRow(E[d])

Owing(j, E, R) ==
    /\ j.due # {} => j.pc \in {"apply", "rows"}
    /\ DOMAIN j.buf # {} => j.pc \in {"rows", "bulk"}
    /\ \A d \in DOMAIN j.buf : j.buf[d] = DocRow(E[d])
    /\ j.pc = "purge" => j.todo = {d \in Doc : Archived(E[d]) # {}}
    /\ \A d \in Doc : R[d] # DocRow(E[d]) => d \in j.due \cup DOMAIN j.buf

\* RowsOwed itself speaks of a system without writers too.
RowInv == (\A w \in Writer : Owing(job[w], es, rows)) /\ RowsOwed

\* A step of the only writer that accounts for every row.
LEMMA StepOwing ==
    ASSUME TypeInv, SingleWriter, NEW w \in Writer, NEW k, Go(w, k), Owing(k, es', rows')
    PROVE  RowInv'
<1>1. \A v \in Writer : job'[v] = k
  BY OnlyWriter
<1> QED
  BY <1>1 DEF RowInv, RowsOwed, Owing

\* When all rows are right a call need not owe any.
LEMMA SettledOwing ==
    ASSUME NEW k, k.due = {}, DOMAIN k.buf = {}, NEW E, NEW R, Settled(E, R),
           k.pc = "purge" => k.todo = {d \in Doc : Archived(E[d]) # {}}
    PROVE  Owing(k, E, R)
BY DEF Owing, Settled

\* When all rows are right the call may end.
LEMMA IdleOwing ==
    ASSUME NEW E, NEW R, Settled(E, R)
    PROVE  Owing(Idle, E, R)
BY IdleFields, SettledOwing DEF Fields, NoChunks

\* A call that is not writing rows has left none behind.
LEMMA QuietSettled ==
    ASSUME NEW j, NEW E, NEW R, Owing(j, E, R), j.pc \notin {"apply", "rows", "bulk"}
    PROVE  j.due = {} /\ DOMAIN j.buf = {} /\ Settled(E, R)
BY DEF Owing, Settled

\* A call that refreshes the rows of all documents that differ.
LEMMA RefreshedOwing ==
    ASSUME NEW k, NEW n, NEW ds, NEW p, Refreshed(k, n, ds, p), p # "purge",
           DOMAIN n.buf = {}, n.due = {} \/ n.due = ds, NEW E, NEW R,
           \A d \in Doc \ ds : R[d] = DocRow(E[d])
    PROVE  Owing(k, E, R)
<1>1. CASE ds = {}
  <2>1. Settled(E, R)
    BY <1>1 DEF Settled
  <2>2. CASE k = Idle
    BY <2>1, <2>2, IdleOwing
  <2>3. CASE k # Idle
    <3>1. k.due = {} /\ DOMAIN k.buf = {} /\ k.pc # "purge"
      BY <1>1, <2>3 DEF Refreshed, Fields
    <3> QED
      BY <2>1, <3>1, SettledOwing
  <2> QED
    BY <2>2, <2>3
<1>2. CASE ds # {}
  <2>1. k.pc = "rows" /\ k.due = ds /\ DOMAIN k.buf = {}
    BY <1>2 DEF Refreshed, Fields
  <2> QED
    BY <2>1 DEF Owing
<1> QED
  BY <1>1, <1>2

\* A write to the chunks of one document, whose row is then refreshed.
LEMMA WriteOneOwing ==
    ASSUME TypeInv, SingleWriter, RowInv, NEW w \in Writer, NEW d \in Doc, NEW c,
           es' = [es EXCEPT ![d] = c], UNCHANGED rows,
           job[w].pc \notin {"apply", "rows", "bulk"},
           NEW n, n.due = job[w].due, n.buf = job[w].buf,
           NEW p, p # "purge", NEW k, Go(w, k), Refreshed(k, n, {d}, p)
    PROVE  RowInv'
<1>1. job[w].due = {} /\ DOMAIN job[w].buf = {} /\ Settled(es, rows)
  BY QuietSettled DEF RowInv
<1>2. \A e \in Doc \ {d} : es'[e] = es[e]
  BY DEF TypeInv, TypeOK
<1>3. \A e \in Doc \ {d} : rows'[e] = DocRow(es'[e])
  BY <1>1, <1>2 DEF Settled
<1>4. Owing(k, es', rows')
  BY <1>1, <1>3, RefreshedOwing
<1> QED
  BY <1>4, StepOwing

\* A bulk of which nothing lands changes nothing.
LEMMA EmptyBulk ==
    ASSUME NEW c, IsPartial(c, Slot, Chunk), NEW x
    PROVE  AfterBulk(c, x, {}) = c
BY DEF AfterBulk, IsPartial

\* Preparing deltas and listing leave chunks and rows alone.
LEMMA OwingPrepares ==
    ASSUME TypeInv, SingleWriter, RowInv, NEW w \in Writer,
           \/ ReadFile(w) \/ ReadAgain(w) \/ ReadExisting(w) \/ CopyVectors(w)
           \/ BeginApply(w) \/ ListStale(w)
    PROVE  RowInv'
<1> DEFINE j == job[w]
<1>1. ASSUME UNCHANGED <<es, rows>>, j.pc \notin {"apply", "rows", "bulk"}, NEW k, Go(w, k),
             \/ k = Idle
             \/ k.due = j.due /\ k.buf = j.buf /\ k.pc # "purge"
      PROVE  RowInv'
  <2>1. j.due = {} /\ DOMAIN j.buf = {} /\ Settled(es, rows)
    BY <1>1, QuietSettled DEF RowInv
  <2>2. Owing(k, es, rows)
    BY <1>1, <2>1, SettledOwing, IdleOwing
  <2> QED
    BY <1>1, <2>2, StepOwing
<1>2. CASE ReadFile(w)
  <2>1. j.pc = "prepare" /\ UNCHANGED <<es, rows>>
    BY <1>2, ReadFileDoes
  <2>2. PICK k : Go(w, k) /\ (k = Idle \/ (k.due = j.due /\ k.buf = j.buf /\ k.pc # "purge"))
    BY <1>2, ReadFileDoes DEF Fields
  <2> QED
    BY <1>1, <2>1, <2>2
<1>3. CASE ReadExisting(w)
  <2>1. j.pc = "existing" /\ UNCHANGED <<es, rows>>
    BY <1>3, ReadExistingDoes
  <2>2. PICK k : Go(w, k) /\ (k = Idle \/ (k.due = j.due /\ k.buf = j.buf /\ k.pc # "purge"))
    BY <1>3, ReadExistingDoes DEF Fields
  <2> QED
    BY <1>1, <2>1, <2>2
<1>4. CASE CopyVectors(w)
  <2>1. j.pc = "copy" /\ UNCHANGED <<es, rows>>
    BY <1>4, CopyVectorsDoes
  <2>2. PICK k, delta :
            /\ Go(w, k)
            /\ Fields(k, "prepare", j.op, j.then, j.cur, j.todo, j.due, j.seen,
                      None, None, delta, j.buf)
    BY <1>4, CopyVectorsDoes
  <2>3. k.due = j.due /\ k.buf = j.buf /\ k.pc # "purge"
    BY <2>2 DEF Fields
  <2> QED
    BY <1>1, <2>1, <2>2, <2>3
<1>5. CASE BeginApply(w)
  <2>1. j.pc = "prepare" /\ UNCHANGED <<es, rows>>
    BY <1>5, BeginApplyDoes
  <2>2. PICK k : Go(w, k) /\ k.due = j.due /\ k.buf = j.buf /\ k.pc # "purge"
    BY <1>5, BeginApplyDoes DEF Fields
  <2> QED
    BY <1>1, <2>1, <2>2
<1>6. CASE ListStale(w)
  <2>1. j.pc = "list" /\ UNCHANGED <<es, rows>>
    BY <1>6, ListStaleDoes
  <2>2. PICK k : Go(w, k) /\ k.due = j.due /\ k.buf = j.buf /\ k.pc # "purge"
    BY <1>6, ListStaleDoes DEF Fields
  <2> QED
    BY <1>1, <2>1, <2>2
<1>7. CASE ReadAgain(w)
  <2>1. j.pc = "empty" /\ UNCHANGED <<es, rows>>
    BY <1>7, ReadAgainDoes
  <2>2. PICK k : Go(w, k) /\ (k = Idle \/ (k.due = j.due /\ k.buf = j.buf /\ k.pc # "purge"))
    BY <1>7, ReadAgainDoes DEF Fields
  <2> QED
    BY <1>1, <2>1, <2>2
<1> QED
  BY <1>2, <1>3, <1>4, <1>5, <1>6, <1>7

\* The bulk of a delta: it succeeds, and if it has operations the row is due.
LEMMA OwingApplies ==
    ASSUME TypeInv, SingleWriter, ~MayFail, SnapInv, RowInv, NEW w \in Writer, Apply(w)
    PROVE  RowInv'
<1> DEFINE j == job[w]
           e == Lowest(j.todo)
           x == j.delta[e]
<1>1. /\ j.pc = "apply" /\ e \in j.todo /\ e \in Doc /\ e \in DOMAIN j.delta
      /\ UNCHANGED rows
  BY ApplyDoes
<1>2. PICK S, k :
          /\ S \in Landed(Touched(x))
          /\ es' = [es EXCEPT ![e] = AfterBulk(es[e], x, S)]
          /\ Go(w, k)
          /\ IF S = Touched(x) /\ MetaUpdates(x) \subseteq DOMAIN es[e]
             THEN Fields(k, "apply", j.op, j.then, j.cur, j.todo \ {e},
                         IF S = {} THEN j.due ELSE j.due \cup {e},
                         j.seen, j.read, j.old, j.delta, j.buf)
             ELSE k = Idle
  BY ApplyDoes
<1>3. Planned(j) = j.todo /\ Snapped(j, es) /\ Owing(j, es, rows)
  BY <1>1 DEF Planned, Preparing, SnapInv, RowInv
<1>4. SameChunks(x.old, es[e])
  BY <1>1, <1>3 DEF Snapped
<1>5. S = Touched(x) /\ MetaUpdates(x) \subseteq DOMAIN es[e]
  <2>1. S = Touched(x)
    BY <1>2 DEF Landed
  <2> QED
    BY <1>4, <2>1 DEF MetaUpdates, Indexed, SameChunks
<1>6. IsPartial(es[e], Slot, Chunk) /\ es'[e] = AfterBulk(es[e], x, S)
      /\ \A d \in Doc \ {e} : es'[d] = es[d]
  BY <1>1, <1>2 DEF TypeInv, TypeOK
<1>7. S = {} => es'[e] = es[e]
  BY <1>6, EmptyBulk
<1> HIDE DEF e, x
<1>8. /\ k.pc = "apply" /\ k.buf = j.buf
      /\ k.due = IF S = {} THEN j.due ELSE j.due \cup {e}
  BY <1>2, <1>5 DEF Fields
<1>9. DOMAIN j.buf = {}
  BY <1>1, <1>3 DEF Owing
<1>10. ASSUME NEW d \in Doc, rows[d] # DocRow(es'[d]) PROVE d \in k.due
  <2>1. CASE d = e /\ S # {}
    BY <1>8, <2>1
  <2>2. CASE d # e \/ S = {}
    <3>1. es'[d] = es[d]
      BY <1>6, <1>7, <2>2
    <3> QED
      BY <1>3, <1>8, <1>9, <1>10, <3>1 DEF Owing
  <2> QED
    BY <2>1, <2>2
<1>11. Owing(k, es', rows)
  BY <1>8, <1>9, <1>10 DEF Owing
<1> QED
  BY <1>1, <1>2, <1>11, StepOwing

\* A row that is due is read, and a row that was read is written.
LEMMA OwingRows ==
    ASSUME TypeInv, SingleWriter, ~MayFail, RowInv, NEW w \in Writer,
           FinishApply(w) \/ ReadRow(w) \/ WriteRows(w)
    PROVE  RowInv'
<1> DEFINE j == job[w]
<1>1. Owing(j, es, rows)
  BY DEF RowInv
<1>2. CASE FinishApply(w)
  <2>1. j.pc = "apply" /\ UNCHANGED <<es, rows>>
    BY <1>2, FinishApplyDoes
  <2>2. PICK n, k : /\ Go(w, k) /\ Refreshed(k, n, j.due, AfterIngest(j.op))
                    /\ Fields(n, "apply", j.op, j.then, j.cur, {}, j.due, j.seen, j.read,
                              j.old, NoChunks, j.buf)
    BY <1>2, FinishApplyDoes
  <2>3. n.buf = j.buf /\ n.due = j.due
    BY <2>2 DEF Fields
  <2>4. DOMAIN j.buf = {} /\ \A d \in Doc \ j.due : rows[d] = DocRow(es[d])
    BY <1>1, <2>1 DEF Owing
  <2>5. AfterIngest(j.op) # "purge"
    BY DEF AfterIngest
  <2>6. Owing(k, es, rows)
    BY <2>2, <2>3, <2>4, <2>5, RefreshedOwing
  <2> QED
    BY <2>1, <2>2, <2>6, StepOwing
<1>3. CASE ReadRow(w)
  <2> DEFINE e == Lowest(j.due)
  <2>1. j.pc = "rows" /\ e \in j.due /\ UNCHANGED <<es, rows>>
    BY <1>3, ReadRowDoes
  <2>2. PICK k, buf :
            /\ Go(w, k)
            /\ DOMAIN buf = DOMAIN j.buf \cup {e} /\ buf[e] = DocRow(es[e])
            /\ \A d \in DOMAIN j.buf \ {e} : buf[d] = j.buf[d]
            /\ Fields(k, IF j.due = {e} THEN "bulk" ELSE "rows", j.op, j.then, j.cur,
                      j.todo, j.due \ {e}, j.seen, j.read, j.old, j.delta, buf)
    BY <1>3, ReadRowDoes
  <2> HIDE DEF e
  <2>3. /\ k.pc \in {"rows", "bulk"} /\ (k.pc = "bulk" => j.due = {e})
        /\ k.due = j.due \ {e} /\ k.buf = buf
    BY <2>2 DEF Fields
  <2>4. Owing(k, es, rows)
    BY <1>1, <2>1, <2>2, <2>3 DEF Owing
  <2> QED
    BY <2>1, <2>2, <2>4, StepOwing
<1>4. CASE WriteRows(w)
  <2>1. j.pc = "bulk" /\ UNCHANGED es /\ j.then \in Continuations
        /\ rows' = [d \in Doc |-> IF d \in DOMAIN j.buf THEN j.buf[d] ELSE rows[d]]
    BY <1>4, WriteRowsDoes
  <2>2. PICK k : /\ Go(w, k)
                 /\ \/ k = Idle
                    \/ k.due = j.due /\ k.buf = NoChunks /\ k.pc = j.then
    BY <1>4, WriteRowsDoes DEF Fields
  <2>3. j.due = {}
    BY <1>1, <2>1 DEF Owing
  <2>4. Settled(es, rows')
    BY <1>1, <2>1, <2>3 DEF Owing, Settled
  <2>5. Owing(k, es, rows')
    BY <2>1, <2>2, <2>3, <2>4, SettledOwing, IdleOwing DEF Continuations, NoChunks
  <2> QED
    BY <2>1, <2>2, <2>5, StepOwing
<1> QED
  BY <1>2, <1>3, <1>4

\* A write to one document makes its row due.
LEMMA OwingLifecycle ==
    ASSUME TypeInv, SingleWriter, ~MayFail, RowInv, NEW w \in Writer,
           \/ DropEmpty(w) \/ PruneOne(w) \/ Unarchive(w)
           \/ \E d \in Doc : DeleteDocument(w, d) \/ RestoreInIndex(w, d)
           \/ \E d \in Doc, t \in Stamp : ArchiveInIndex(w, d, t)
    PROVE  RowInv'
<1> DEFINE j == job[w]
<1>1. ASSUME NEW d \in Doc, NEW n, NEW p \in {"idle", "prepare", "prune"}, Emptied(w, d, n, p),
             n.due = j.due, n.buf = j.buf, j.pc \notin {"apply", "rows", "bulk"}
      PROVE  RowInv'
  <2>1. PICK c : /\ es' = [es EXCEPT ![d] = c] /\ UNCHANGED rows
                 /\ \E k : Go(w, k) /\ Refreshed(k, n, {d}, p)
    BY <1>1 DEF Emptied
  <2> QED
    BY <1>1, <2>1, WriteOneOwing
<1>2. ASSUME NEW d \in Doc, NEW m, Restamped(w, d, m, "idle"),
             j.pc \notin {"apply", "rows", "bulk"}
      PROVE  RowInv'
  <2>1. PICK c : /\ es' = [es EXCEPT ![d] = c] /\ UNCHANGED rows
                 /\ \E k : Go(w, k) /\ Refreshed(k, j, {d}, "idle")
    BY <1>2 DEF Restamped
  <2> QED
    BY <1>2, <2>1, WriteOneOwing
<1>3. CASE DropEmpty(w)
  BY <1>1, <1>3, DropEmptyDoes
<1>4. CASE PruneOne(w)
  <2> DEFINE e == Lowest(j.todo)
  <2>1. j.pc = "prune" /\ e \in Doc
    BY <1>4, PruneOneDoes
  <2>2. PICK n : /\ Fields(n, "prune", j.op, j.then, j.cur, j.todo \ {e}, j.due, j.seen,
                           j.read, j.old, j.delta, j.buf)
                 /\ Emptied(w, e, n, "prune")
    BY <1>4, PruneOneDoes
  <2> HIDE DEF e
  <2>3. n.due = j.due /\ n.buf = j.buf
    BY <2>2 DEF Fields
  <2> QED
    BY <1>1, <2>1, <2>2, <2>3
<1>5. CASE Unarchive(w) \/ \E d \in Doc : RestoreInIndex(w, d)
  <2>1. PICK d \in Doc : Restamped(w, d, None, "idle") /\ j.pc \in {"unarchive", "idle"}
    BY <1>5, RestoreDoes
  <2> QED
    BY <1>2, <2>1
<1>6. CASE \E d \in Doc : DeleteDocument(w, d)
  <2>1. PICK d \in Doc : j.pc = "idle" /\ Emptied(w, d, j, "idle")
    BY <1>6, DeleteDoes
  <2> QED
    BY <1>1, <2>1
<1>7. CASE \E d \in Doc, t \in Stamp : ArchiveInIndex(w, d, t)
  <2>1. PICK d \in Doc, t \in Stamp : j.pc = "idle" /\ Restamped(w, d, t, "idle")
    BY <1>7, ArchiveInIndexDoes
  <2> QED
    BY <1>2, <2>1
<1> QED
  BY <1>3, <1>4, <1>5, <1>6, <1>7

\* Deleting no slot changes nothing.
LEMMA WithoutNone ==
    ASSUME NEW c, IsPartial(c, Slot, Chunk)
    PROVE  Without(c, {}) = c
BY DEF Without, IsPartial

\* A purge makes the rows due of all documents it takes chunks from.
LEMMA OwingPurge ==
    ASSUME TypeInv, SingleWriter, ~MayFail, RowInv, NEW w \in Writer, StartPurge(w) \/ Purge(w)
    PROVE  RowInv'
<1> DEFINE j == job[w]
           all == {d \in Doc : Archived(es[d]) # {}}
<1>1. Owing(j, es, rows)
  BY DEF RowInv
<1>2. CASE StartPurge(w)
  <2>1. j.pc = "idle" /\ UNCHANGED <<es, rows>>
    BY <1>2, StartPurgeDoes
  <2>2. PICK k : Go(w, k) /\ k.todo = all /\ k.due = {} /\ k.buf = NoChunks
    BY <1>2, StartPurgeDoes DEF Fields
  <2>3. Settled(es, rows)
    BY <1>1, <2>1, QuietSettled
  <2>4. Owing(k, es, rows)
    BY <2>2, <2>3, SettledOwing DEF NoChunks
  <2> QED
    BY <2>1, <2>2, <2>4, StepOwing
<1>3. CASE Purge(w)
  <2>1. /\ j.pc = "purge" /\ UNCHANGED rows
        /\ es' = [d \in Doc |-> Without(es[d], Archived(es[d]))]
    BY <1>3, PurgeDoes
  <2>2. PICK n, k : /\ Go(w, k) /\ Refreshed(k, n, j.todo, "idle")
                    /\ Fields(n, "purge", j.op, j.then, j.cur, {}, j.due, j.seen, j.read,
                              j.old, j.delta, j.buf)
    BY <1>3, PurgeDoes
  <2>3. n.due = j.due /\ n.buf = j.buf
    BY <2>2 DEF Fields
  <2>4. j.due = {} /\ DOMAIN j.buf = {} /\ Settled(es, rows)
    BY <1>1, <2>1, QuietSettled
  <2>5. j.todo = all
    BY <1>1, <2>1 DEF Owing
  <2>6. \A d \in Doc \ j.todo : rows'[d] = DocRow(es'[d])
    <3>1. \A d \in Doc \ j.todo : Archived(es[d]) = {}
      BY <2>5
    <3>2. \A d \in Doc \ j.todo : es'[d] = es[d]
      BY <2>1, <3>1, WithoutNone DEF TypeInv, TypeOK
    <3> QED
      BY <2>1, <2>4, <3>2 DEF Settled
  <2>7. Owing(k, es', rows')
    BY <2>2, <2>3, <2>4, <2>6, RefreshedOwing
  <2> QED
    BY <2>2, <2>7, StepOwing
<1> QED
  BY <1>2, <1>3

\* No call starts, or is given up, while a row is owed.
LEMMA OwingStarts ==
    ASSUME TypeInv, SingleWriter, ~MayFail, RowInv, NEW w \in Writer,
           \/ StartSync(w) \/ PruneDecline(w) \/ SyncDone(w) \/ Fail(w)
           \/ \E d \in Doc : StartIngest(w, d) \/ RestoreFile(w, d)
           \/ \E d \in Doc, t \in Stamp : ArchiveFile(w, d, t)
    PROVE  RowInv'
<1> DEFINE j == job[w]
<1>1. Owing(j, es, rows)
  BY DEF RowInv
<1>2. CASE PruneDecline(w) \/ SyncDone(w) \/ Fail(w)
  <2>1. Go(w, Idle) /\ UNCHANGED <<es, rows>> /\ j.pc = "prune"
    BY <1>2, AbandonDoes
  <2>2. Owing(Idle, es, rows)
    BY <1>1, <2>1, QuietSettled, IdleOwing
  <2> QED
    BY <2>1, <2>2, StepOwing
<1>3. CASE \/ StartSync(w) \/ \E d \in Doc : StartIngest(w, d) \/ RestoreFile(w, d)
           \/ \E d \in Doc, t \in Stamp : ArchiveFile(w, d, t)
  <2>1. j.pc = "idle" /\ UNCHANGED <<es, rows>>
    BY <1>3, StartDoes
  <2>2. PICK op, ds : Go(w, Ingesting(op, ds))
    BY <1>3, StartDoes
  <2> DEFINE k == Ingesting(op, ds)
  <2>3. k.due = {} /\ DOMAIN k.buf = {} /\ k.pc # "purge"
    BY IngestingFields DEF Fields, NoChunks
  <2> HIDE DEF k
  <2>4. Owing(k, es, rows)
    BY <1>1, <2>1, <2>3, QuietSettled, SettledOwing
  <2> QED
    BY <2>1, <2>2, <2>4, StepOwing DEF k
<1> QED
  BY <1>2, <1>3

\* At the start there are neither chunks nor rows.
LEMMA InitRowInv == Init => RowInv
<1> SUFFICES ASSUME Init PROVE RowInv
  OBVIOUS
<1>1. Settled(es, rows)
  BY DEF Init, Settled, DocRow, NoChunks
<1> QED
  BY <1>1, IdleOwing DEF Init, RowInv, RowsOwed, Settled

\* Every step of a single writer that does not fail accounts for the rows.
LEMMA NextRowInv ==
    ASSUME TypeInv, SingleWriter, ~MayFail, SnapInv, RowInv, [Next]_vars
    PROVE  RowInv'
<1>1. CASE UNCHANGED <<es, rows, job>>
  BY <1>1 DEF RowInv, RowsOwed
<1>2. ASSUME NEW d \in Doc, NEW f, EditFile(d, f) PROVE RowInv'
  BY <1>1, <1>2 DEF EditFile
<1>3. ASSUME NEW w \in Writer, Ingest(w) PROVE RowInv'
  BY <1>3, OwingPrepares, OwingApplies, OwingRows DEF Ingest
<1>4. ASSUME NEW w \in Writer, Lifecycle(w) PROVE RowInv'
  BY <1>4, OwingPrepares, OwingLifecycle, OwingPurge, OwingStarts DEF Lifecycle
<1>5. ASSUME NEW w \in Writer, StartSync(w) \/ Fail(w) \/ \E d \in Doc : StartIngest(w, d)
      PROVE  RowInv'
  BY <1>5, OwingStarts
<1> QED
  BY <1>1, <1>2, <1>3, <1>4, <1>5 DEF Next, vars

\* With one writer and no failures, a document row differs from what its
\* chunks say only while the call that changed them still owes that row.
THEOREM NoRowForgotten == SingleWriter /\ ~MayFail => (Spec => []RowsOwed)
<1> SUFFICES ASSUME SingleWriter, ~MayFail PROVE Spec => []RowsOwed
  OBVIOUS
<1>1. Init => TypeInv /\ SnapInv /\ RowInv
  BY InitTypeInv, InitSnapInv, InitRowInv
<1>2. TypeInv /\ SnapInv /\ RowInv /\ [Next]_vars => (TypeInv /\ SnapInv /\ RowInv)'
  BY NextTypeInv, NextSnapInv, NextRowInv
<1>3. RowInv => RowsOwed
  BY DEF RowInv
<1> QED
  BY <1>1, <1>2, <1>3, PTL DEF Spec

\* So, with one writer and no failures, ingest may leave the row of a document
\* alone that its delta did not change: that row is right.
THEOREM UnchangedAreRight == SingleWriter /\ ~MayFail => (Spec => []UnchangedRowsAreRight)
<1> SUFFICES ASSUME SingleWriter, ~MayFail PROVE Spec => []UnchangedRowsAreRight
  OBVIOUS
<1>1. Init => TypeInv /\ SnapInv /\ RowInv
  BY InitTypeInv, InitSnapInv, InitRowInv
<1>2. TypeInv /\ SnapInv /\ RowInv /\ [Next]_vars => (TypeInv /\ SnapInv /\ RowInv)'
  BY NextTypeInv, NextSnapInv, NextRowInv
<1>3. TypeInv /\ RowInv => UnchangedRowsAreRight
  <2> SUFFICES ASSUME TypeInv, RowInv, NEW w \in Writer, job[w].pc = "apply",
                      NEW d \in DOMAIN job[w].delta \ job[w].due
               PROVE  rows[d] = DocRow(es[d])
    BY DEF UnchangedRowsAreRight
  <2>1. d \in Doc /\ Owing(job[w], es, rows)
    BY Current DEF RowInv, JobOK
  <2> QED
    BY <2>1 DEF Owing
<1> QED
  BY <1>1, <1>2, <1>3, PTL DEF Spec

-----------------------------------------------------------------------------
(* With one writer and no failures: the chunks of a document bear one       *)
(* archive marker, in the index and in every delta that is planned.         *)

Agree(c) == \A s, t \in DOMAIN c : c[s].arch = c[t].arch
AllAgree(E) == \A d \in Doc : Agree(E[d])

\* A delta that marks all chunks alike, and unmarks none.
Uniform(x) ==
    \A s \in DOMAIN x.new : /\ x.new[s].arch = None => Stamps(x.old) = {}
                            /\ \A t \in DOMAIN x.new : x.new[s].arch = x.new[t].arch
PlansUniform(j) == \A d \in Planned(j) : Uniform(j.delta[d])

\* A restore that has come to its last row has cleared the marker.
Ending(j) == j.op = "restore" /\ j.pc \in {"rows", "bulk"} /\ j.then = "idle"
Cleared(j, E) == Ending(j) => Archived(E[j.cur]) = {}

MarkInv ==
    AllAgree(es) /\ \A w \in Writer : PlansUniform(job[w]) /\ Cleared(job[w], es)

\* A step of the only writer that keeps the markers.
LEMMA StepMark ==
    ASSUME TypeInv, SingleWriter, NEW w \in Writer, NEW k, Go(w, k),
           AllAgree(es'), PlansUniform(k), Cleared(k, es')
    PROVE  MarkInv'
<1>1. \A v \in Writer : job'[v] = k
  BY OnlyWriter
<1> QED
  BY <1>1 DEF MarkInv

\* The idle call plans nothing and restores nothing.
LEMMA IdleMark == PlansUniform(Idle) /\ \A E : Cleared(Idle, E)
BY IdlePhase, IdleFields DEF PlansUniform, Cleared, Ending, Fields

\* A planned delta is uniform, and unmarks nothing.
LEMMA PlannedUniform ==
    ASSUME NEW x, NEW f, PlannedFor(x, f)
    PROVE  Uniform(x)
<1>1. Stamps(x.old) # {} => (CHOOSE m \in Stamps(x.old) : TRUE) # None
  BY DEF Stamps
<1>2. Carried(f, x.old) = None => Stamps(x.old) = {}
  BY <1>1 DEF Carried
<1> QED
  BY <1>2 DEF PlannedFor, Uniform

\* What the bulk of a uniform delta leaves is marked alike, and still marked
\* if it was.
LEMMA BulkAgrees ==
    ASSUME NEW c, IsPartial(c, Slot, Chunk), NEW x, IsDelta(x), SameChunks(x.old, c), Uniform(x),
           NEW r, r = AfterBulk(c, x, Touched(x))
    PROVE  /\ Agree(r)
           /\ Archived(c) # {} /\ DOMAIN r # {} => Archived(r) # {}
<1>1. /\ DOMAIN r = DOMAIN x.new
      /\ \A s \in DOMAIN x.new :
            \/ r[s].arch = x.new[s].arch
            \/ x.new[s].arch = None /\ s \in DOMAIN c /\ r[s].arch = c[s].arch
  BY WholeBulk
<1>2. Stamps(x.old) = {} => \A s \in DOMAIN c : c[s].arch = None
  BY DEF Stamps, SameChunks
<1>3. \A s \in DOMAIN r : r[s].arch = x.new[s].arch
  BY <1>1, <1>2 DEF Uniform
<1>4. Agree(r)
  BY <1>1, <1>3 DEF Uniform, Agree
<1>5. Archived(c) # {} => Stamps(x.old) # {}
  BY DEF Archived, Stamps, SameChunks
<1> QED
  BY <1>1, <1>3, <1>4, <1>5 DEF Archived, Uniform

\* Every delta that is planned is uniform.
LEMMA MarkPrepares ==
    ASSUME TypeInv, SingleWriter, MarkInv, NEW w \in Writer,
           \/ ReadFile(w) \/ ReadAgain(w) \/ ReadExisting(w) \/ CopyVectors(w)
           \/ BeginApply(w) \/ ListStale(w)
    PROVE  MarkInv'
<1> DEFINE j == job[w]
<1>1. PlansUniform(j) /\ AllAgree(es)
  BY DEF MarkInv
<1>2. ASSUME es' = es, NEW k, Go(w, k), PlansUniform(k), k = Idle \/ k.pc \notin {"rows", "bulk"}
      PROVE  MarkInv'
  <2>1. Cleared(k, es')
    BY <1>2, IdleMark DEF Cleared, Ending
  <2> QED
    BY <1>1, <1>2, <2>1, StepMark
<1>3. CASE ReadFile(w)
  <2>1. j.pc = "prepare" /\ es' = es
    BY <1>3, ReadFileDoes
  <2>2. PICK k : Go(w, k) /\ (k = Idle \/ (k.pc \in {"empty", "existing"} /\ k.delta = j.delta))
    BY <1>3, ReadFileDoes DEF Fields
  <2>3. PlansUniform(k)
    BY <1>1, <2>1, <2>2, IdleMark DEF PlansUniform, Planned, Preparing
  <2> QED
    BY <1>2, <2>1, <2>2, <2>3
<1>4. CASE ReadExisting(w)
  <2>1. j.pc = "existing" /\ es' = es
    BY <1>4, ReadExistingDoes
  <2>2. PICK k : Go(w, k) /\ (k = Idle \/ (k.pc = "copy" /\ k.delta = j.delta))
    BY <1>4, ReadExistingDoes DEF Fields
  <2>3. PlansUniform(k)
    BY <1>1, <2>1, <2>2, IdleMark DEF PlansUniform, Planned, Preparing
  <2> QED
    BY <1>2, <2>1, <2>2, <2>3
<1>5. CASE CopyVectors(w)
  <2>1. j.pc = "copy" /\ es' = es
    BY <1>5, CopyVectorsDoes
  <2>2. PICK k, delta :
            /\ Go(w, k)
            /\ DOMAIN delta = DOMAIN j.delta \cup {j.cur}
            /\ \A d \in DOMAIN j.delta \ {j.cur} : delta[d] = j.delta[d]
            /\ PlannedFor(delta[j.cur], j.read)
            /\ Fields(k, "prepare", j.op, j.then, j.cur, j.todo, j.due, j.seen,
                      None, None, delta, j.buf)
    BY <1>5, CopyVectorsDoes
  <2>3. k.pc = "prepare" /\ k.delta = delta
    BY <2>2 DEF Fields
  <2>4. Planned(k) = DOMAIN delta /\ Planned(j) = DOMAIN j.delta
    BY <2>1, <2>3 DEF Planned, Preparing
  <2>5. Uniform(delta[j.cur]) /\ \A d \in DOMAIN j.delta \ {j.cur} : Uniform(delta[d])
    BY <1>1, <2>2, <2>4, PlannedUniform DEF PlansUniform
  <2>6. PlansUniform(k)
    BY <2>2, <2>3, <2>4, <2>5 DEF PlansUniform
  <2> QED
    BY <1>2, <2>1, <2>2, <2>3, <2>6
<1>6. CASE BeginApply(w)
  <2>1. j.pc = "prepare" /\ es' = es
    BY <1>6, BeginApplyDoes
  <2>2. PICK k : Go(w, k) /\ k.pc = "apply" /\ k.todo = DOMAIN j.delta /\ k.delta = j.delta
    BY <1>6, BeginApplyDoes DEF Fields
  <2>3. PlansUniform(k)
    BY <1>1, <2>1, <2>2 DEF PlansUniform, Planned, Preparing
  <2> QED
    BY <1>2, <2>1, <2>2, <2>3
<1>7. CASE ListStale(w)
  <2>1. es' = es
    BY <1>7, ListStaleDoes
  <2>2. PICK k : Go(w, k) /\ k.pc = "prune"
    BY <1>7, ListStaleDoes DEF Fields
  <2>3. PlansUniform(k)
    BY <2>2 DEF PlansUniform, Planned, Preparing
  <2> QED
    BY <1>2, <2>1, <2>2, <2>3
<1>8. CASE ReadAgain(w)
  <2>1. j.pc = "empty" /\ es' = es
    BY <1>8, ReadAgainDoes
  <2>2. PICK k : Go(w, k) /\ (k = Idle \/ (k.pc \in {"drop", "prepare"} /\ k.delta = j.delta))
    BY <1>8, ReadAgainDoes DEF Fields
  <2>3. PlansUniform(k)
    BY <1>1, <2>1, <2>2, IdleMark DEF PlansUniform, Planned, Preparing
  <2> QED
    BY <1>2, <2>1, <2>2, <2>3
<1> QED
  BY <1>3, <1>4, <1>5, <1>6, <1>7, <1>8

\* The bulk of a delta, and what it does to the markers of the document.
LEMMA ApplyMarks ==
    ASSUME TypeInv, SingleWriter, ~MayFail, SnapInv, MarkInv, NEW w \in Writer, Apply(w)
    PROVE  /\ MarkInv'
           /\ \A d \in Doc : Archived(es[d]) # {} /\ DOMAIN es'[d] # {} => Archived(es'[d]) # {}
<1> DEFINE j == job[w]
           e == Lowest(j.todo)
           x == j.delta[e]
<1>1. /\ j.pc = "apply" /\ e \in j.todo /\ e \in Doc /\ e \in DOMAIN j.delta
  BY ApplyDoes
<1>2. PICK S, k :
          /\ S \in Landed(Touched(x))
          /\ es' = [es EXCEPT ![e] = AfterBulk(es[e], x, S)]
          /\ Go(w, k)
          /\ IF S = Touched(x) /\ MetaUpdates(x) \subseteq DOMAIN es[e]
             THEN Fields(k, "apply", j.op, j.then, j.cur, j.todo \ {e},
                         IF S = {} THEN j.due ELSE j.due \cup {e},
                         j.seen, j.read, j.old, j.delta, j.buf)
             ELSE k = Idle
  BY ApplyDoes
<1>3. Planned(j) = j.todo /\ Snapped(j, es) /\ PlansUniform(j) /\ AllAgree(es)
  BY <1>1 DEF Planned, Preparing, SnapInv, MarkInv
<1>4. SameChunks(x.old, es[e]) /\ Uniform(x)
  BY <1>1, <1>3 DEF Snapped, PlansUniform
<1>5. S = Touched(x)
  BY <1>2 DEF Landed
<1>6. /\ IsPartial(es[e], Slot, Chunk) /\ es'[e] = AfterBulk(es[e], x, S)
      /\ \A d \in Doc \ {e} : es'[d] = es[d]
  BY <1>1, <1>2 DEF TypeInv, TypeOK
<1>7. IsDelta(x)
  BY <1>1, Current DEF JobOK
<1> HIDE DEF e, x
<1>8. /\ Agree(es'[e])
      /\ Archived(es[e]) # {} /\ DOMAIN es'[e] # {} => Archived(es'[e]) # {}
  BY <1>4, <1>5, <1>6, <1>7, BulkAgrees
<1>9. AllAgree(es')
  BY <1>3, <1>6, <1>8 DEF AllAgree
<1>10. k = Idle \/ (k.pc = "apply" /\ k.todo = j.todo \ {e} /\ k.delta = j.delta)
  BY <1>2 DEF Fields
<1>11. PlansUniform(k) /\ Cleared(k, es')
  <2>1. CASE k = Idle
    BY <2>1, IdleMark
  <2>2. CASE k # Idle
    <3>1. Planned(k) = j.todo \ {e}
      BY <1>10, <2>2 DEF Planned, Preparing
    <3> QED
      BY <1>3, <1>10, <2>2, <3>1 DEF PlansUniform, Cleared, Ending
  <2> QED
    BY <2>1, <2>2
<1>12. MarkInv'
  BY <1>2, <1>9, <1>11, StepMark
<1> QED
  BY <1>6, <1>8, <1>12

\* Refreshing rows touches no marker; a restore goes on to clear it.
LEMMA MarkRows ==
    ASSUME TypeInv, SingleWriter, MarkInv, NEW w \in Writer,
           FinishApply(w) \/ ReadRow(w) \/ WriteRows(w)
    PROVE  MarkInv'
<1> DEFINE j == job[w]
<1>1. PlansUniform(j) /\ AllAgree(es) /\ Cleared(j, es)
  BY DEF MarkInv
<1>2. CASE FinishApply(w)
  <2>1. es' = es
    BY <1>2, FinishApplyDoes
  <2>2. PICK n, k : /\ Go(w, k) /\ Refreshed(k, n, j.due, AfterIngest(j.op))
                    /\ Fields(n, "apply", j.op, j.then, j.cur, {}, j.due, j.seen, j.read,
                              j.old, NoChunks, j.buf)
    BY <1>2, FinishApplyDoes
  <2>3. n.op = j.op
    BY <2>2 DEF Fields
  <2>4. AfterIngest(j.op) \in {"idle", "list", "unarchive"}
        /\ (j.op = "restore" => AfterIngest(j.op) = "unarchive")
    BY DEF AfterIngest
  <2>5. Planned(k) = {}
    BY <2>2, <2>4, RefreshedPhase DEF Planned
  <2>6. ~Ending(k)
    <3>1. CASE k = Idle
      BY <3>1, IdleFields DEF Ending, Fields
    <3>2. CASE k # Idle
      BY <2>2, <2>3, <2>4, <3>2 DEF Refreshed, Fields, Ending
    <3> QED
      BY <3>1, <3>2
  <2> QED
    BY <1>1, <2>1, <2>2, <2>5, <2>6, StepMark DEF PlansUniform, Cleared
<1>3. CASE ReadRow(w)
  <2>1. j.pc = "rows" /\ es' = es
    BY <1>3, ReadRowDoes
  <2>2. PICK k : /\ Go(w, k) /\ k.op = j.op /\ k.todo = j.todo /\ k.cur = j.cur
                 /\ k.delta = j.delta /\ k.pc \in {"rows", "bulk"} /\ k.then = j.then
    BY <1>3, ReadRowDoes DEF Fields
  <2>3. Planned(k) = Planned(j) /\ (Ending(k) => Ending(j))
    BY <2>1, <2>2 DEF Planned, Preparing, Ending
  <2> QED
    BY <1>1, <2>1, <2>2, <2>3, StepMark DEF PlansUniform, Cleared
<1>4. CASE WriteRows(w)
  <2>1. j.pc = "bulk" /\ es' = es /\ j.then \in Continuations
    BY <1>4, WriteRowsDoes
  <2>2. PICK k : /\ Go(w, k)
                 /\ \/ k = Idle
                    \/ j.then # "idle" /\ k.pc = j.then /\ k.delta = j.delta
    BY <1>4, WriteRowsDoes DEF Fields
  <2>3. PlansUniform(k) /\ Cleared(k, es)
    <3>1. CASE k = Idle
      BY <3>1, IdleMark
    <3>2. CASE k # Idle
      <4>1. k.pc \in {"prepare", "list", "prune", "unarchive"}
        BY <2>1, <2>2, <3>2 DEF Continuations
      <4>2. Planned(k) \subseteq Planned(j)
        BY <2>1, <2>2, <3>2, <4>1 DEF Planned, Preparing
      <4> QED
        BY <1>1, <2>2, <3>2, <4>1, <4>2 DEF PlansUniform, Cleared, Ending
    <3> QED
      BY <3>1, <3>2
  <2> QED
    BY <1>1, <2>1, <2>2, <2>3, StepMark
<1> QED
  BY <1>2, <1>3, <1>4

\* Deletes, stamps and the purge leave the chunks of a document alike.
LEMMA MarkLifecycle ==
    ASSUME TypeInv, SingleWriter, ~MayFail, SnapInv, MarkInv, NEW w \in Writer,
           \/ DropEmpty(w) \/ PruneOne(w) \/ Unarchive(w) \/ StartPurge(w) \/ Purge(w)
           \/ \E d \in Doc : DeleteDocument(w, d) \/ RestoreInIndex(w, d)
           \/ \E d \in Doc, t \in Stamp : ArchiveInIndex(w, d, t)
    PROVE  MarkInv'
<1> DEFINE j == job[w]
<1>1. PlansUniform(j) /\ AllAgree(es) /\ Snapped(j, es)
  BY DEF MarkInv, SnapInv
<1>2. ASSUME NEW d \in Doc, NEW c, es' = [es EXCEPT ![d] = c], Agree(c)
      PROVE  AllAgree(es') /\ es'[d] = c
  BY <1>1, <1>2 DEF AllAgree, TypeInv, TypeOK
<1>3. ASSUME NEW d \in Doc, NEW p \in {"idle", "prepare", "prune"}, NEW n, Emptied(w, d, n, p),
             n.op = "restore" => p # "idle", p = "prepare" => Preparing(j) /\ n.delta = j.delta
      PROVE  MarkInv'
  <2>1. PICK c, k : /\ es' = [es EXCEPT ![d] = c] /\ DOMAIN c = {}
                    /\ Go(w, k) /\ Refreshed(k, n, {d}, p)
    BY <1>3 DEF Emptied
  <2>2. k.pc = "rows" /\ k.then = p /\ k.op = n.op /\ k.delta = n.delta
    BY <2>1 DEF Refreshed, Fields
  <2>3. AllAgree(es')
    BY <1>2, <2>1 DEF Agree
  <2>4. PlansUniform(k) /\ Cleared(k, es')
    BY <1>1, <1>3, <2>2 DEF PlansUniform, Planned, Preparing, Cleared, Ending
  <2> QED
    BY <2>1, <2>3, <2>4, StepMark
<1>4. ASSUME NEW d \in Doc, NEW m, Restamped(w, d, m, "idle"),
             j.op = "restore" => m = None /\ j.cur = d
      PROVE  MarkInv'
  <2>1. PICK c, k : /\ es' = [es EXCEPT ![d] = c] /\ \A s \in DOMAIN c : c[s].arch = m
                    /\ Go(w, k) /\ Refreshed(k, j, {d}, "idle")
    BY <1>4 DEF Restamped
  <2>2. k.pc = "rows" /\ k.then = "idle" /\ k.op = j.op /\ k.cur = j.cur
    BY <2>1 DEF Refreshed, Fields
  <2>3. AllAgree(es') /\ es'[d] = c
    BY <1>2, <2>1 DEF Agree
  <2>4. PlansUniform(k) /\ Cleared(k, es')
    BY <1>4, <2>1, <2>2, <2>3 DEF PlansUniform, Planned, Preparing, Cleared, Archived, Ending
  <2> QED
    BY <2>1, <2>3, <2>4, StepMark
<1>5. j.pc \in {"idle", "purge"} => j.op = "none"
  BY <1>1 DEF Snapped
<1>6. CASE DropEmpty(w)
  <2>1. j.pc = "drop" /\ j.cur \in Doc /\ Emptied(w, j.cur, j, "prepare")
    BY <1>6, DropEmptyDoes
  <2>2. Preparing(j)
    BY <2>1 DEF Preparing
  <2> QED
    BY <1>3, <2>1, <2>2
<1>7. CASE PruneOne(w)
  <2> DEFINE e == Lowest(j.todo)
  <2>1. e \in Doc /\ \E n : Emptied(w, e, n, "prune")
    BY <1>7, PruneOneDoes
  <2> HIDE DEF e
  <2> QED
    BY <1>3, <2>1
<1>8. CASE Unarchive(w) \/ \E d \in Doc : RestoreInIndex(w, d)
  <2>1. PICK d \in Doc : /\ Restamped(w, d, None, "idle")
                         /\ \/ j.pc = "unarchive" /\ j.cur = d
                            \/ j.pc = "idle"
    BY <1>8, RestoreDoes
  <2> QED
    BY <1>4, <1>5, <2>1
<1>9. CASE \E d \in Doc : DeleteDocument(w, d)
  <2>1. PICK d \in Doc : j.pc = "idle" /\ Emptied(w, d, j, "idle")
    BY <1>9, DeleteDoes
  <2> QED
    BY <1>3, <1>5, <2>1
<1>10. CASE \E d \in Doc, t \in Stamp : ArchiveInIndex(w, d, t)
  <2>1. PICK d \in Doc, t \in Stamp : j.pc = "idle" /\ Restamped(w, d, t, "idle")
    BY <1>10, ArchiveInIndexDoes
  <2> QED
    BY <1>4, <1>5, <2>1
<1>11. CASE StartPurge(w)
  <2>1. PICK k : Go(w, k) /\ k.pc = "purge" /\ es' = es
    BY <1>11, StartPurgeDoes DEF Fields
  <2>2. PlansUniform(k) /\ Cleared(k, es')
    BY <2>1 DEF PlansUniform, Planned, Preparing, Cleared, Ending
  <2> QED
    BY <1>1, <2>1, <2>2, StepMark
<1>12. CASE Purge(w)
  <2>1. /\ j.pc = "purge"
        /\ es' = [d \in Doc |-> Without(es[d], Archived(es[d]))]
    BY <1>12, PurgeDoes
  <2>2. PICK n, k : /\ Go(w, k) /\ Refreshed(k, n, j.todo, "idle")
                    /\ Fields(n, "purge", j.op, j.then, j.cur, {}, j.due, j.seen, j.read,
                              j.old, j.delta, j.buf)
    BY <1>12, PurgeDoes
  <2>3. n.op = "none"
    BY <1>5, <2>1, <2>2 DEF Fields
  <2>4. AllAgree(es')
    <3>1. \A d \in Doc : es'[d] = Without(es[d], Archived(es[d]))
      BY <2>1
    <3>2. \A d \in Doc : Agree(es[d]) => Agree(Without(es[d], Archived(es[d])))
      BY DEF Agree, Without
    <3> QED
      BY <1>1, <3>1, <3>2 DEF AllAgree
  <2>5. Planned(k) = {}
    BY <2>2, RefreshedPhase DEF Planned
  <2>6. k.op = "none"
    BY <2>2, <2>3, IdleFields DEF Refreshed, Fields
  <2>7. PlansUniform(k) /\ Cleared(k, es')
    BY <2>5, <2>6 DEF PlansUniform, Cleared, Ending
  <2> QED
    BY <2>2, <2>4, <2>7, StepMark
<1> QED
  BY <1>6, <1>7, <1>8, <1>9, <1>10, <1>11, <1>12

\* No call starts or ends with a delta planned.
LEMMA MarkStarts ==
    ASSUME TypeInv, SingleWriter, MarkInv, NEW w \in Writer,
           \/ StartSync(w) \/ PruneDecline(w) \/ SyncDone(w) \/ Fail(w)
           \/ \E d \in Doc : StartIngest(w, d) \/ RestoreFile(w, d)
           \/ \E d \in Doc, t \in Stamp : ArchiveFile(w, d, t)
    PROVE  MarkInv'
<1>1. AllAgree(es)
  BY DEF MarkInv
<1>2. CASE PruneDecline(w) \/ SyncDone(w) \/ Fail(w)
  BY <1>1, <1>2, AbandonDoes, IdleMark, StepMark
<1>3. CASE \/ StartSync(w) \/ \E d \in Doc : StartIngest(w, d) \/ RestoreFile(w, d)
           \/ \E d \in Doc, t \in Stamp : ArchiveFile(w, d, t)
  <2>1. PICK op, ds : Go(w, Ingesting(op, ds)) /\ es' = es
    BY <1>3, StartDoes
  <2> DEFINE k == Ingesting(op, ds)
  <2>2. k.pc = "prepare" /\ DOMAIN k.delta = {}
    BY IngestingFields DEF Fields, NoChunks
  <2> HIDE DEF k
  <2>3. PlansUniform(k) /\ Cleared(k, es')
    BY <2>2 DEF PlansUniform, Planned, Preparing, Cleared, Ending
  <2> QED
    BY <1>1, <2>1, <2>3, StepMark DEF k
<1> QED
  BY <1>2, <1>3

\* At the start there are no chunks.
LEMMA InitMarkInv == Init => MarkInv
BY IdleMark DEF Init, MarkInv, AllAgree, Agree, NoChunks

\* Every step of a single writer that does not fail keeps the markers.
LEMMA NextMarkInv ==
    ASSUME TypeInv, SingleWriter, ~MayFail, SnapInv, MarkInv, [Next]_vars
    PROVE  MarkInv'
<1>1. CASE UNCHANGED <<es, job>>
  BY <1>1 DEF MarkInv
<1>2. ASSUME NEW d \in Doc, NEW f, EditFile(d, f) PROVE MarkInv'
  BY <1>1, <1>2 DEF EditFile
<1>3. ASSUME NEW w \in Writer, Ingest(w) PROVE MarkInv'
  BY <1>3, MarkPrepares, ApplyMarks, MarkRows DEF Ingest
<1>4. ASSUME NEW w \in Writer, Lifecycle(w) PROVE MarkInv'
  BY <1>4, MarkPrepares, MarkLifecycle, MarkStarts DEF Lifecycle
<1>5. ASSUME NEW w \in Writer, StartSync(w) \/ Fail(w) \/ \E d \in Doc : StartIngest(w, d)
      PROVE  MarkInv'
  BY <1>5, MarkStarts
<1> QED
  BY <1>1, <1>2, <1>3, <1>4, <1>5 DEF Next, vars

\* With one writer and no failures, the chunks of a document are archived as a
\* whole, ingesting it again keeps the marker, and a restore ends with none.
THEOREM ArchiveIsKept == SingleWriter /\ ~MayFail => (Spec => ArchiveFollows)
<1> SUFFICES ASSUME SingleWriter, ~MayFail PROVE Spec => ArchiveFollows
  OBVIOUS
<1>1. Init => TypeInv /\ SnapInv /\ MarkInv
  BY InitTypeInv, InitSnapInv, InitMarkInv
<1>2. TypeInv /\ SnapInv /\ MarkInv /\ [Next]_vars => (TypeInv /\ SnapInv /\ MarkInv)'
  BY NextTypeInv, NextSnapInv, NextMarkInv
<1>3. MarkInv => CarriedFieldsAgree /\ RestoreClears
  BY DEF MarkInv, AllAgree, Agree, CarriedFieldsAgree, RestoreClears, Cleared, Ending
<1>4. TypeInv /\ SnapInv /\ MarkInv =>
        [\A w \in Writer : Apply(w) => \A d \in Doc :
            Archived(es[d]) # {} /\ DOMAIN es'[d] # {} => Archived(es'[d]) # {}]_vars
  BY ApplyMarks
<1> QED
  BY <1>1, <1>2, <1>3, <1>4, PTL DEF Spec, ArchiveFollows, IngestKeepsArchive
=============================================================================
