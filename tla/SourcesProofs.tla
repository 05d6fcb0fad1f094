---------------------------- MODULE SourcesProofs ----------------------------
(***************************************************************************)
(* Proofs about the ways files come into the tree (ImportCards, Uploads)   *)
(* and are followed there (SourceFiles), for any files, processes, texts   *)
(* and number of deaths, edits and starts: no two cards get one slot, and  *)
(* a plan that was accepted is accepted again wherever an attempt died;    *)
(* what is put in place is one sender's whole file; `stale' tells every    *)
(* file that is not indexed as it is, but for those watch is known to      *)
(* miss.                                                                   *)
(*                                                                         *)
(* None is inductive.  For the cards, checks and writes are steps apart,   *)
(* so the invariant adds what a process that holds the lock still knows of *)
(* what it checked: a slot that was free is free, for an edit takes no     *)
(* slot (Checked); and, as long as nobody interferes, a card that is still *)
(* to be replaced is the card that was read, and has a backup by the time  *)
(* cards are replaced (Undisturbed).  For the files it says what the       *)
(* snapshots and the reads of watch still know of the disk (StaleInv).     *)
(***************************************************************************)
EXTENDS ImportCards, Uploads, SourceFiles, TLAPS

-----------------------------------------------------------------------------
(* ImportCards: cards of attachments.                                      *)

State ==
    [pc: {"idle", "save", "indexed", "backup", "write", "replace", "reindex"},
     card: Card \cup {NoCard}, slot: Slot \cup {NoCard},
     raw: {OldCard} \cup [DOMAIN Plan -> CardType], todo: SUBSET DOMAIN Plan]

Typed ==
    /\ file \in [Card -> CardType \cup {NoCard}]
    /\ backup \in [Card -> CardType \cup {NoCard}]
    /\ proc \in [Proc -> State]
    /\ accepted \in BOOLEAN /\ disturbed \in BOOLEAN

\* Who does something holds the lock.
Held == \A p \in Proc : proc[p].pc # "idle" => lock = p

Migrating(p) == proc[p].pc \in {"backup", "write", "replace"}

Checked(p) ==
    /\ proc[p].pc = "save" =>
          /\ proc[p].card \in Card /\ proc[p].slot \in Slot
          /\ SlotFree(proc[p].card, proc[p].slot)
    /\ Migrating(p) =>
          /\ proc[p].raw \in [DOMAIN Plan -> CardType]
          /\ PlanConsistent
          /\ \A c \in DOMAIN Plan : SlotFree(c, Plan[c])
    /\ proc[p].pc = "replace" =>
          proc[p].card \in proc[p].todo /\ Changes(p, proc[p].card)

Undisturbed(p) ==
    (Migrating(p) /\ accepted /\ ~disturbed) => \A c \in DOMAIN Plan :
        /\ proc[p].pc = "backup" \/ c \in proc[p].todo => file[c] = proc[p].raw[c]
        /\ Changes(p, c) /\ (proc[p].pc # "backup" \/ c \notin proc[p].todo)
           => backup[c] # NoCard

ImportsInv ==
    /\ Typed /\ Held
    /\ \A p \in Proc : Checked(p) /\ Undisturbed(p)
    /\ SlotsUnique /\ RepeatAccepted

-----------------------------------------------------------------------------
(* What holds whatever the operation is.                                   *)

\* The lock excludes everybody else.
LEMMA Alone ==
    ASSUME Held, NEW p \in Proc, proc[p].pc # "idle"
    PROVE  lock = p /\ \A q \in Proc \ {p} : proc[q].pc = "idle"
BY DEF Held

\* At rest nothing is remembered.
LEMMA Resting ==
    ASSUME NEW q \in Proc, proc'[q].pc = "idle"
    PROVE  Checked(q)' /\ Undisturbed(q)'
BY DEF Checked, Undisturbed, Migrating

\* While no card gets a slot, what was free stays free.
LEMMA SlotsStay ==
    ASSUME \A d \in Card : HasSlot(d)' => HasSlot(d) /\ file'[d].slot = file[d].slot
    PROVE  /\ \A c \in Card, s \in Slot : SlotFree(c, s) => SlotFree(c, s)'
           /\ SlotsUnique => SlotsUnique'
<1>1. ASSUME NEW c \in Card, NEW s, SlotFree(c, s)
      PROVE  SlotFree(c, s)'
  BY <1>1 DEF SlotFree
<1>2. ASSUME SlotsUnique, NEW c \in Card, HasSlot(c)'
      PROVE  SlotFree(c, file[c].slot)'
  BY <1>2 DEF SlotsUnique, SlotFree
<1>3. ASSUME SlotsUnique
      PROVE  SlotsUnique'
  BY <1>2, <1>3 DEF SlotsUnique, SlotFree
<1> QED
  BY <1>1, <1>3

\* A card that is given a free slot takes it from nobody.
LEMMA SlotGiven ==
    ASSUME SlotsUnique, NEW c \in Card, NEW s, SlotFree(c, s),
           \A d \in Card \ {c} : file'[d] = file[d],
           HasSlot(c)' => file'[c].slot = s
    PROVE  SlotsUnique'
<1>1. ASSUME NEW d \in Card \ {c}
      PROVE  HasSlot(d)' <=> HasSlot(d)
  BY <1>1 DEF HasSlot
<1>2. ASSUME HasSlot(c)'
      PROVE  SlotFree(c, file[c].slot)'
  BY <1>1, <1>2 DEF SlotFree
<1>3. ASSUME NEW d \in Card \ {c}, HasSlot(d)'
      PROVE  SlotFree(d, file[d].slot)'
  <2>1. SlotFree(d, file[d].slot)
    BY <1>1, <1>3 DEF SlotsUnique
  <2>2. file[d].slot # s /\ (file[d].slot.id = s.id => Category[d] = Category[c])
    BY <1>1, <1>3 DEF SlotFree
  <2>3. file'[d].slot = file[d].slot
    BY <1>3
  <2> SUFFICES ASSUME NEW e \in Card \ {d}, HasSlot(e)'
               PROVE  /\ file'[e].slot # file'[d].slot
                      /\ file'[e].slot.id = file'[d].slot.id => Category[e] = Category[d]
    BY DEF SlotFree
  <2>4. CASE e = c
    BY <2>2, <2>3, <2>4
  <2>5. CASE e # c
    BY <1>1, <2>1, <2>3, <2>5 DEF SlotFree
  <2> QED
    BY <2>4, <2>5
<1> QED
  BY <1>2, <1>3 DEF SlotsUnique

\* What PlanAccepted asks, once slots are left alone.
LEMMA PlanStays ==
    ASSUME PlanAccepted, file' = file, backup' = backup
    PROVE  PlanAccepted'
BY DEF PlanAccepted, PlanConsistent, SlotFree, HasSlot, Intact, BackupFits

\* The plan names cards and gives each a slot.
LEMMA PlannedCards == DOMAIN Plan \subseteq Card /\ \A c \in DOMAIN Plan : Plan[c] \in Slot
BY ImportAssumption

\* A process that held the lock and is done leaves nothing to show for it.
LEMMA Released ==
    ASSUME ImportsInv, NEW p \in Proc, proc[p].pc # "idle", Release(p)
    PROVE  /\ proc' \in [Proc -> State] /\ Held'
           /\ \A q \in Proc : Checked(q)' /\ Undisturbed(q)'
<1>1. /\ proc \in [Proc -> State] /\ Held
      /\ proc' = [proc EXCEPT ![p] = AtRest]
  BY DEF ImportsInv, Typed, Release
<1>2. AtRest \in State /\ AtRest.pc = "idle"
  BY DEF AtRest, State
<1>3. proc' \in [Proc -> State]
  BY <1>1, <1>2
<1>4. \A q \in Proc : proc'[q].pc = "idle"
  BY <1>1, <1>2, Alone
<1> QED
  BY <1>3, <1>4, Resting DEF Held

\* A process that holds the lock and goes on: it answers for itself.
LEMMA GoesOn ==
    ASSUME ImportsInv, NEW p \in Proc, proc[p].pc # "idle", lock' = lock,
           NEW state \in State, proc' = [proc EXCEPT ![p] = state],
           Checked(p)', Undisturbed(p)'
    PROVE  /\ proc' \in [Proc -> State] /\ Held'
           /\ \A q \in Proc : Checked(q)' /\ Undisturbed(q)'
<1>1. proc \in [Proc -> State] /\ Held
  BY DEF ImportsInv, Typed
<1>2. lock' = p /\ \A q \in Proc \ {p} : proc'[q].pc = "idle"
  BY <1>1, Alone
<1> QED
  BY <1>1, <1>2, Resting DEF Held

\* A process that takes the lock.
LEMMA Taken ==
    ASSUME ImportsInv, NEW p \in Proc, NEW state \in State, Take(p, state),
           Checked(p)', Undisturbed(p)'
    PROVE  /\ proc' \in [Proc -> State] /\ Held'
           /\ \A q \in Proc : Checked(q)' /\ Undisturbed(q)'
<1>1. /\ proc \in [Proc -> State] /\ Held
      /\ lock = NoCard /\ lock' = p /\ proc' = [proc EXCEPT ![p] = state]
  BY DEF ImportsInv, Typed, Take
<1>2. \A q \in Proc \ {p} : proc'[q].pc = "idle"
  BY <1>1, ImportAssumption DEF Held
<1> QED
  BY <1>1, <1>2, Resting DEF Held

-----------------------------------------------------------------------------
(* Imports.                                                                *)

\* The start of an import keeps the invariant.
LEMMA StartImportInv ==
    ASSUME ImportsInv, NEW p \in Proc, StartImport(p)
    PROVE  ImportsInv'
<1>1. PICK c \in Card, s \in Slot :
          SlotFree(c, s) /\ Take(p, [AtRest EXCEPT !.pc = "save", !.card = c, !.slot = s])
  BY DEF StartImport
<1> DEFINE state == [AtRest EXCEPT !.pc = "save", !.card = c, !.slot = s]
<1>2. UNCHANGED <<file, backup, accepted, disturbed>>
  BY DEF StartImport
<1>3. state \in State /\ state.pc = "save" /\ state.card = c /\ state.slot = s
  BY DEF AtRest, State
<1>4. proc'[p] = state
  BY <1>1 DEF Take, ImportsInv, Typed
<1>5. Checked(p)' /\ Undisturbed(p)'
  BY <1>1, <1>2, <1>3, <1>4 DEF Checked, Undisturbed, Migrating, SlotFree, HasSlot
<1>6. /\ proc' \in [Proc -> State] /\ Held'
      /\ \A q \in Proc : Checked(q)' /\ Undisturbed(q)'
  BY <1>1, <1>3, <1>5, Taken
<1>7. SlotsUnique' /\ RepeatAccepted'
  BY <1>2, PlanStays DEF ImportsInv, SlotsUnique, SlotFree, HasSlot, RepeatAccepted
<1> QED
  BY <1>2, <1>6, <1>7 DEF ImportsInv, Typed

\* Saving an imported card keeps the invariant.
LEMMA SaveCardInv ==
    ASSUME ImportsInv, NEW p \in Proc, SaveCard(p)
    PROVE  ImportsInv'
<1> DEFINE c == proc[p].card
           s == proc[p].slot
<1>1. /\ proc[p].pc = "save"
      /\ file' = IF file[c] = NoCard THEN [file EXCEPT ![c] = NewCard(s)] ELSE file
      /\ disturbed' = (disturbed \/ file'[c] # file[c])
      /\ UNCHANGED <<backup, accepted>>
      /\ \/ proc' = [proc EXCEPT ![p].pc = "indexed"] /\ UNCHANGED lock
         \/ Release(p)
  BY DEF SaveCard
<1>2. c \in Card /\ s \in Slot /\ SlotFree(c, s)
  BY <1>1 DEF ImportsInv, Checked
<1>3. Typed /\ SlotsUnique /\ RepeatAccepted
  BY DEF ImportsInv
<1>4. NewCard(s) \in CardType /\ NewCard(s).slot = s
  BY <1>2 DEF NewCard, CardType
<1> HIDE DEF c, s
<1>5. file' \in [Card -> CardType \cup {NoCard}] /\ disturbed' \in BOOLEAN
  BY <1>1, <1>2, <1>3, <1>4 DEF Typed
<1>6. SlotsUnique' /\ RepeatAccepted'
  <2>1. CASE file' = file
    <3>1. disturbed' <=> disturbed
      BY <1>1, <2>1
    <3>2. RepeatAccepted'
      BY <1>1, <1>3, <2>1, <3>1, PlanStays DEF RepeatAccepted
    <3>3. SlotsUnique'
      BY <1>3, <2>1 DEF SlotsUnique, SlotFree, HasSlot
    <3> QED
      BY <3>2, <3>3
  <2>2. CASE file' # file
    <3>1. file' = [file EXCEPT ![c] = NewCard(s)] /\ file[c] = NoCard
      BY <1>1, <2>2
    <3>2. file'[c] = NewCard(s) /\ \A d \in Card \ {c} : file'[d] = file[d]
      BY <1>2, <1>3, <3>1 DEF Typed
    <3>3. SlotsUnique'
      BY <1>2, <1>3, <1>4, <3>2, SlotGiven
    <3>4. disturbed'
      BY <1>1, <1>4, <3>1, <3>2, NoCardAssumption
    <3> QED
      BY <3>3, <3>4 DEF RepeatAccepted
  <2> QED
    BY <2>1, <2>2
<1>7. /\ proc' \in [Proc -> State] /\ Held'
      /\ \A q \in Proc : Checked(q)' /\ Undisturbed(q)'
  <2>1. CASE Release(p)
    BY <1>1, <2>1, Released
  <2>2. CASE proc' = [proc EXCEPT ![p].pc = "indexed"] /\ UNCHANGED lock
    <3> DEFINE state == [proc[p] EXCEPT !.pc = "indexed"]
    <3>1. state \in State /\ state.pc = "indexed"
      BY <1>3 DEF Typed, State
    <3>2. proc' = [proc EXCEPT ![p] = state] /\ proc'[p] = state
      BY <1>3, <2>2 DEF Typed
    <3>3. Checked(p)' /\ Undisturbed(p)'
      BY <3>1, <3>2 DEF Checked, Undisturbed, Migrating
    <3> QED
      BY <1>1, <2>2, <3>1, <3>2, <3>3, GoesOn
  <2> QED
    BY <1>1, <2>1, <2>2
<1> QED
  BY <1>1, <1>3, <1>5, <1>6, <1>7 DEF ImportsInv, Typed

\* The last step of an operation, or its death.
LEMMA EndInv ==
    ASSUME ImportsInv, NEW p \in Proc, proc[p].pc # "idle", Release(p),
           UNCHANGED <<file, backup, accepted, disturbed>>
    PROVE  ImportsInv'
<1>1. /\ proc' \in [Proc -> State] /\ Held'
      /\ \A q \in Proc : Checked(q)' /\ Undisturbed(q)'
  BY Released
<1>2. SlotsUnique' /\ RepeatAccepted'
  BY PlanStays DEF ImportsInv, SlotsUnique, SlotFree, HasSlot, RepeatAccepted
<1> QED
  BY <1>1, <1>2 DEF ImportsInv, Typed

-----------------------------------------------------------------------------
(* The migration.                                                          *)

\* The start of a migration keeps the invariant.
LEMMA StartMigrationInv ==
    ASSUME ImportsInv, NEW p \in Proc, StartMigration(p)
    PROVE  ImportsInv'
<1> DEFINE cards == [c \in DOMAIN Plan |-> file[c]]
           state == [AtRest EXCEPT !.pc = "backup", !.raw = cards, !.todo = DOMAIN Plan]
<1>1. /\ PlanAccepted /\ Take(p, state)
      /\ accepted' /\ disturbed' \in BOOLEAN
      /\ UNCHANGED <<file, backup>>
  BY DEF StartMigration, ImportsInv, Typed
<1>2. cards \in [DOMAIN Plan -> CardType]
  BY <1>1, PlannedCards DEF PlanAccepted, Intact, ImportsInv, Typed
<1>3. state \in State /\ state.pc = "backup" /\ state.raw = cards /\ state.todo = DOMAIN Plan
  BY <1>2 DEF AtRest, State
<1>4. proc'[p] = state
  BY <1>1 DEF Take, ImportsInv, Typed
<1>5. Checked(p)'
  BY <1>1, <1>2, <1>3, <1>4
     DEF Checked, Migrating, PlanAccepted, PlanConsistent, SlotFree, HasSlot
<1>6. Undisturbed(p)'
  BY <1>1, <1>3, <1>4 DEF Undisturbed
<1>7. /\ proc' \in [Proc -> State] /\ Held'
      /\ \A q \in Proc : Checked(q)' /\ Undisturbed(q)'
  BY <1>1, <1>3, <1>5, <1>6, Taken
<1>8. SlotsUnique'
  BY <1>1 DEF ImportsInv, SlotsUnique, SlotFree, HasSlot
<1>9. RepeatAccepted'
  BY <1>1, PlanStays DEF RepeatAccepted
<1>10. accepted' \in BOOLEAN
  BY DEF StartMigration
<1> QED
  BY <1>1, <1>7, <1>8, <1>9, <1>10 DEF ImportsInv, Typed

\* Where a loop leads to after card c.
Advanced(p, c, pc) ==
    IF proc[p].todo = {c} THEN [proc[p] EXCEPT !.pc = pc, !.todo = DOMAIN Plan]
    ELSE [proc[p] EXCEPT !.todo = proc[p].todo \ {c}]

\* What a migration is at once it has seen a card.
LEMMA AdvancedState ==
    ASSUME ImportsInv, NEW p \in Proc, NEW c,
           NEW pc \in {"write", "reindex"}, Advance(p, c, pc)
    PROVE  /\ Advanced(p, c, pc) \in State
           /\ proc' = [proc EXCEPT ![p] = Advanced(p, c, pc)]
           /\ proc'[p] = Advanced(p, c, pc)
           /\ proc'[p].raw = proc[p].raw
           /\ \/ proc'[p].pc = pc /\ proc'[p].todo = DOMAIN Plan /\ proc[p].todo = {c}
              \/ proc'[p].pc = proc[p].pc /\ proc'[p].todo = proc[p].todo \ {c}
<1>1. proc \in [Proc -> State] /\ proc[p] \in State
  BY DEF ImportsInv, Typed
<1>2. Advanced(p, c, pc) \in State
  BY <1>1 DEF Advanced, State
<1>3. proc' = [proc EXCEPT ![p] = Advanced(p, c, pc)]
  BY DEF Advance, Advanced
<1>4. proc'[p] = Advanced(p, c, pc)
  BY <1>1, <1>3
<1> QED
  BY <1>1, <1>2, <1>3, <1>4 DEF Advanced, State

\* Backing up a card keeps the invariant.
LEMMA BackUpInv ==
    ASSUME ImportsInv, NEW p \in Proc, NEW c \in DOMAIN Plan, BackUp(p, c)
    PROVE  ImportsInv'
<1>1. /\ proc[p].pc = "backup" /\ c \in proc[p].todo
      /\ backup' = IF Changes(p, c) /\ backup[c] = NoCard
                   THEN [backup EXCEPT ![c] = proc[p].raw[c]] ELSE backup
      /\ Advance(p, c, "write")
      /\ UNCHANGED <<file, lock, accepted, disturbed>>
  BY DEF BackUp
<1>2. /\ Typed /\ Checked(p) /\ Undisturbed(p) /\ SlotsUnique /\ RepeatAccepted
      /\ proc[p].raw \in [DOMAIN Plan -> CardType]
  BY <1>1 DEF ImportsInv, Checked, Migrating
<1>3. /\ Advanced(p, c, "write") \in State
      /\ proc' = [proc EXCEPT ![p] = Advanced(p, c, "write")]
      /\ proc'[p].raw = proc[p].raw
      /\ \/ proc'[p].pc = "write" /\ proc'[p].todo = DOMAIN Plan /\ proc[p].todo = {c}
         \/ proc'[p].pc = "backup" /\ proc'[p].todo = proc[p].todo \ {c}
  BY <1>1, AdvancedState
<1>4. backup' \in [Card -> CardType \cup {NoCard}]
  BY <1>1, <1>2, PlannedCards DEF Typed
<1>5. \A d \in DOMAIN Plan \ {c} : backup'[d] = backup[d]
  BY <1>1, <1>2 DEF Typed
<1>6. Changes(p, c) => backup'[c] # NoCard
  <2>1. CASE backup[c] = NoCard
    BY <1>1, <1>2, <2>1, PlannedCards, NoCardAssumption DEF Typed
  <2>2. CASE backup[c] # NoCard
    BY <1>1, <2>2
  <2> QED
    BY <2>1, <2>2
<1>7. \A d : Changes(p, d)' <=> Changes(p, d)
  BY <1>3 DEF Changes
<1>8. Checked(p)'
  BY <1>1, <1>2, <1>3 DEF Checked, Migrating, PlanConsistent, SlotFree, HasSlot
<1>9. Undisturbed(p)'
  <2> SUFFICES ASSUME accepted, ~disturbed, NEW d \in DOMAIN Plan
               PROVE  /\ file[d] = proc[p].raw[d]
                      /\ Changes(p, d) /\ (proc'[p].pc # "backup" \/ d \notin proc'[p].todo)
                         => backup'[d] # NoCard
    BY <1>1, <1>3, <1>7 DEF Undisturbed
  <2>1. Migrating(p)
    BY <1>1 DEF Migrating
  <2>2. /\ file[d] = proc[p].raw[d]
        /\ Changes(p, d) /\ d \notin proc[p].todo => backup[d] # NoCard
    BY <1>1, <1>2, <2>1 DEF Undisturbed
  <2> QED
    BY <1>3, <1>5, <1>6, <2>2
<1>10. /\ proc' \in [Proc -> State] /\ Held'
       /\ \A q \in Proc : Checked(q)' /\ Undisturbed(q)'
  BY <1>1, <1>3, <1>8, <1>9, GoesOn
<1>11. RepeatAccepted'
  <2> SUFFICES ASSUME accepted, ~disturbed
               PROVE  PlanAccepted'
    BY <1>1 DEF RepeatAccepted
  <2>1. PlanAccepted
    BY <1>2 DEF RepeatAccepted
  <2>2. file[c] = proc[p].raw[c]
    BY <1>1, <1>2 DEF Undisturbed, Migrating
  <2>3. BackupFits(c)'
    <3>1. CASE Changes(p, c) /\ backup[c] = NoCard
      <4>1. backup'[c] = file[c]
        BY <1>1, <1>2, <2>2, <3>1, PlannedCards DEF Typed
      <4>2. file[c].slot = NoCard
        BY <2>1, <2>2, <3>1 DEF PlanAccepted, Changes
      <4> QED
        BY <1>1, <4>1, <4>2 DEF BackupFits
    <3>2. CASE ~(Changes(p, c) /\ backup[c] = NoCard)
      BY <1>1, <2>1, <3>2 DEF PlanAccepted, BackupFits, Intact
    <3> QED
      BY <3>1, <3>2
  <2>4. \A d \in DOMAIN Plan \ {c} : BackupFits(d)'
    BY <1>1, <1>5, <2>1 DEF PlanAccepted, BackupFits, Intact
  <2> QED
    BY <1>1, <2>1, <2>3, <2>4 DEF PlanAccepted, PlanConsistent, SlotFree, HasSlot, Intact
<1>12. SlotsUnique'
  BY <1>1, <1>2 DEF SlotsUnique, SlotFree, HasSlot
<1> QED
  BY <1>1, <1>2, <1>4, <1>10, <1>11, <1>12 DEF ImportsInv, Typed

\* Checking a card against its backup keeps the invariant.
LEMMA VerifyCardInv ==
    ASSUME ImportsInv, NEW p \in Proc, NEW c \in DOMAIN Plan, VerifyCard(p, c)
    PROVE  ImportsInv'
<1>1. /\ proc[p].pc = "write" /\ c \in proc[p].todo
      /\ UNCHANGED <<file, backup, accepted, disturbed>>
      /\ IF file[c] = proc[p].raw[c]
         THEN /\ IF Changes(p, c)
                 THEN proc' = [proc EXCEPT ![p].pc = "replace", ![p].card = c]
                 ELSE Advance(p, c, "reindex")
              /\ UNCHANGED lock
         ELSE Release(p)
  BY DEF VerifyCard
<1>2. /\ Typed /\ Checked(p) /\ Undisturbed(p) /\ SlotsUnique /\ RepeatAccepted
      /\ proc[p].raw \in [DOMAIN Plan -> CardType]
  BY <1>1 DEF ImportsInv, Checked, Migrating
<1>3. SlotsUnique' /\ RepeatAccepted'
  BY <1>1, <1>2, PlanStays DEF SlotsUnique, SlotFree, HasSlot, RepeatAccepted
<1>4. /\ proc' \in [Proc -> State] /\ Held'
      /\ \A q \in Proc : Checked(q)' /\ Undisturbed(q)'
  <2>1. CASE Release(p)
    BY <1>1, <2>1, Released
  <2>2. CASE /\ Changes(p, c) /\ UNCHANGED lock
             /\ proc' = [proc EXCEPT ![p].pc = "replace", ![p].card = c]
    <3> DEFINE state == [proc[p] EXCEPT !.pc = "replace", !.card = c]
    <3>1. /\ state \in State /\ state.pc = "replace" /\ state.card = c
          /\ state.raw = proc[p].raw /\ state.todo = proc[p].todo
      BY <1>2, PlannedCards DEF Typed, State
    <3>2. proc' = [proc EXCEPT ![p] = state] /\ proc'[p] = state
      BY <1>2, <2>2 DEF Typed
    <3> HIDE DEF state
    <3>3. \A d : Changes(p, d)' <=> Changes(p, d)
      BY <3>1, <3>2 DEF Changes
    <3>4. Checked(p)'
      BY <1>1, <1>2, <2>2, <3>1, <3>2, <3>3
         DEF Checked, Migrating, PlanConsistent, SlotFree, HasSlot
    <3>5. Undisturbed(p)'
      BY <1>1, <1>2, <3>1, <3>2, <3>3 DEF Undisturbed, Migrating
    <3> QED
      BY <1>1, <2>2, <3>1, <3>2, <3>4, <3>5, GoesOn
  <2>3. CASE ~Changes(p, c) /\ UNCHANGED lock /\ Advance(p, c, "reindex")
    <3>1. /\ Advanced(p, c, "reindex") \in State
          /\ proc' = [proc EXCEPT ![p] = Advanced(p, c, "reindex")]
          /\ proc'[p].raw = proc[p].raw
          /\ \/ proc'[p].pc = "reindex"
             \/ proc'[p].pc = "write" /\ proc'[p].todo = proc[p].todo \ {c}
      BY <1>1, <2>3, AdvancedState
    <3>2. \A d : Changes(p, d)' <=> Changes(p, d)
      BY <3>1 DEF Changes
    <3>3. Checked(p)'
      BY <1>1, <1>2, <3>1 DEF Checked, Migrating, PlanConsistent, SlotFree, HasSlot
    <3>4. Undisturbed(p)'
      BY <1>1, <1>2, <3>1, <3>2 DEF Undisturbed, Migrating
    <3> QED
      BY <1>1, <2>3, <3>1, <3>3, <3>4, GoesOn
  <2> QED
    BY <1>1, <2>1, <2>2, <2>3
<1> QED
  BY <1>1, <1>2, <1>3, <1>4 DEF ImportsInv, Typed

\* Replacing a card keeps the invariant.
LEMMA ReplaceCardInv ==
    ASSUME ImportsInv, NEW p \in Proc, ReplaceCard(p)
    PROVE  ImportsInv'
<1>1. PICK c \in DOMAIN Plan : c = proc[p].card /\ c \in proc[p].todo /\ Changes(p, c)
  <2>1. proc[p].todo \subseteq DOMAIN Plan
    BY DEF ImportsInv, Typed, State
  <2> QED
    BY <2>1 DEF ReplaceCard, ImportsInv, Checked
<1> DEFINE new == Migrated(proc[p].raw[c], Plan[c])
           state == IF proc[p].todo = {c}
                    THEN [proc[p] EXCEPT !.pc = "reindex", !.card = NoCard, !.todo = DOMAIN Plan]
                    ELSE [proc[p] EXCEPT !.pc = "write", !.card = NoCard,
                                         !.todo = proc[p].todo \ {c}]
<1>2. /\ proc[p].pc = "replace"
      /\ file' = [file EXCEPT ![c] = new]
      /\ proc' = [proc EXCEPT ![p] = state]
      /\ UNCHANGED <<backup, lock, accepted, disturbed>>
  BY <1>1 DEF ReplaceCard
<1>3. /\ Typed /\ Checked(p) /\ Undisturbed(p) /\ SlotsUnique /\ RepeatAccepted
      /\ proc[p].raw \in [DOMAIN Plan -> CardType] /\ PlanConsistent
      /\ \A d \in DOMAIN Plan : SlotFree(d, Plan[d])
  BY <1>2 DEF ImportsInv, Checked, Migrating
<1>4. /\ c \in Card /\ new \in CardType /\ new # NoCard /\ new.slot = Plan[c]
      /\ new.sealed = proc[p].raw[c].sealed
  BY <1>1, <1>3, PlannedCards, NoCardAssumption DEF Migrated, CardType
<1>5. /\ state \in State /\ state.raw = proc[p].raw
      /\ \/ state.pc = "reindex"
         \/ state.pc = "write" /\ state.todo = proc[p].todo \ {c}
  <2>1. proc[p] \in State
    BY <1>3 DEF Typed
  <2> QED
    BY <2>1 DEF State
<1>6. proc'[p] = state
  BY <1>2, <1>3 DEF Typed
<1> HIDE DEF new, state
<1>7. file'[c] = new /\ \A d \in Card \ {c} : file'[d] = file[d]
  BY <1>2, <1>3, <1>4 DEF Typed
<1>8. SlotsUnique'
  BY <1>1, <1>3, <1>4, <1>7, SlotGiven
<1>9. \A d \in DOMAIN Plan : SlotFree(d, Plan[d])'
  <2> SUFFICES ASSUME NEW d \in DOMAIN Plan, NEW e \in Card \ {d}, HasSlot(e)'
               PROVE  /\ file'[e].slot # Plan[d]
                      /\ file'[e].slot.id = Plan[d].id => Category[e] = Category[d]
    BY DEF SlotFree
  <2>1. CASE e = c
    BY <1>1, <1>3, <1>4, <1>7, <2>1 DEF PlanConsistent
  <2>2. CASE e # c
    BY <1>3, <1>7, <2>2 DEF SlotFree, HasSlot
  <2> QED
    BY <2>1, <2>2
<1>10. \A d : Changes(p, d)' <=> Changes(p, d)
  BY <1>5, <1>6 DEF Changes
<1>11. Checked(p)'
  BY <1>3, <1>5, <1>6, <1>9 DEF Checked, Migrating, PlanConsistent
<1>12. Undisturbed(p)'
  BY <1>2, <1>3, <1>5, <1>6, <1>7, <1>10, PlannedCards DEF Undisturbed, Migrating
<1>13. /\ proc' \in [Proc -> State] /\ Held'
       /\ \A q \in Proc : Checked(q)' /\ Undisturbed(q)'
  BY <1>2, <1>5, <1>11, <1>12, GoesOn
<1>14. RepeatAccepted'
  <2> SUFFICES ASSUME accepted, ~disturbed
               PROVE  PlanAccepted'
    BY <1>2 DEF RepeatAccepted
  <2>1. PlanAccepted
    BY <1>3 DEF RepeatAccepted
  <2>2. file[c] = proc[p].raw[c] /\ backup[c] # NoCard
    BY <1>1, <1>2, <1>3 DEF Undisturbed, Migrating
  <2>3. file[c].slot = NoCard /\ Intact(file[c]) /\ BackupFits(c)
    BY <1>1, <2>1, <2>2 DEF PlanAccepted, Changes
  <2>4. backup[c] = file[c]
    BY <2>2, <2>3 DEF BackupFits
  <2>5. BackupFits(c)' /\ Intact(file[c])'
    <3>1. file'[c].slot # NoCard
      BY <1>1, <1>4, <1>7, PlannedCards, ImportAssumption
    <3>2. Intact(file'[c])
      BY <1>4, <1>7, <2>2, <2>3 DEF Intact
    <3>3. Intact(backup'[c]) /\ backup'[c].slot = NoCard
      BY <1>2, <2>3, <2>4
    <3> QED
      BY <3>1, <3>2, <3>3 DEF BackupFits, Intact
  <2>6. \A d \in DOMAIN Plan \ {c} : BackupFits(d)' /\ Intact(file[d])'
                                      /\ file'[d].slot \in {NoCard, Plan[d]}
    BY <1>2, <1>7, <2>1, PlannedCards DEF PlanAccepted, BackupFits, Intact
  <2>7. file'[c].slot \in {NoCard, Plan[c]}
    BY <1>4, <1>7
  <2>8. PlanConsistent'
    BY <1>3 DEF PlanConsistent
  <2> QED
    BY <1>9, <2>5, <2>6, <2>7, <2>8 DEF PlanAccepted
<1>15. file' \in [Card -> CardType \cup {NoCard}]
  BY <1>1, <1>2, <1>3, <1>4 DEF Typed
<1> QED
  BY <1>2, <1>3, <1>8, <1>13, <1>14, <1>15 DEF ImportsInv, Typed

-----------------------------------------------------------------------------
(* Edits.                                                                  *)

\* An edit by hand keeps the invariant.
LEMMA EditCardInv ==
    ASSUME ImportsInv, NEW c \in Card, EditCard(c)
    PROVE  ImportsInv'
<1>1. PICK card \in {NoCard, [file[c] EXCEPT !.sealed = FALSE]} : file' = [file EXCEPT ![c] = card]
  BY DEF EditCard
<1>2. /\ file[c] # NoCard /\ disturbed' = TRUE
      /\ UNCHANGED <<backup, lock, proc, accepted>>
  BY DEF EditCard
<1>3. Typed /\ Held /\ SlotsUnique
  BY DEF ImportsInv
<1>4. card \in CardType \cup {NoCard} /\ (card # NoCard => card.slot = file[c].slot)
  BY <1>2, <1>3 DEF Typed, CardType
<1>5. file'[c] = card /\ \A d \in Card \ {c} : file'[d] = file[d]
  BY <1>1, <1>3 DEF Typed
<1>6. \A d \in Card : HasSlot(d)' => HasSlot(d) /\ file'[d].slot = file[d].slot
  BY <1>2, <1>4, <1>5 DEF HasSlot
<1>7. /\ \A d \in Card, s \in Slot : SlotFree(d, s) => SlotFree(d, s)'
      /\ SlotsUnique'
  BY <1>3, <1>6, SlotsStay
<1>8. \A q \in Proc : Checked(q)' /\ Undisturbed(q)'
  <2> SUFFICES ASSUME NEW q \in Proc
               PROVE  Checked(q)' /\ Undisturbed(q)'
    OBVIOUS
  <2>1. Checked(q)
    BY DEF ImportsInv
  <2>2. Checked(q)'
    BY <1>2, <1>7, <2>1, PlannedCards DEF Checked, Migrating, PlanConsistent, Changes
  <2>3. Undisturbed(q)'
    BY <1>2 DEF Undisturbed
  <2> QED
    BY <2>2, <2>3
<1>9. file' \in [Card -> CardType \cup {NoCard}]
  BY <1>1, <1>3, <1>4 DEF Typed
<1>10. Typed' /\ Held' /\ RepeatAccepted'
  BY <1>2, <1>3, <1>9 DEF Typed, Held, RepeatAccepted
<1> QED
  BY <1>7, <1>8, <1>10 DEF ImportsInv

-----------------------------------------------------------------------------
(* The theorem.                                                            *)

\* The first state satisfies the invariant.
LEMMA ImportsInvInit == ImportInit => ImportsInv
<1> SUFFICES ASSUME ImportInit
             PROVE  ImportsInv
  OBVIOUS
<1>1. OldCard \in CardType /\ OldCard.slot = NoCard
  BY DEF OldCard, CardType
<1>2. AtRest \in State /\ AtRest.pc = "idle"
  BY DEF AtRest, State
<1>3. Typed
  BY <1>1, <1>2 DEF ImportInit, Typed
<1>4. \A p \in Proc : proc[p].pc = "idle"
  BY <1>2 DEF ImportInit
<1>5. Held /\ \A p \in Proc : Checked(p) /\ Undisturbed(p)
  BY <1>4 DEF Held, Checked, Undisturbed, Migrating
<1>6. SlotsUnique /\ RepeatAccepted
  BY <1>1 DEF ImportInit, SlotsUnique, HasSlot, RepeatAccepted
<1> QED
  BY <1>3, <1>5, <1>6 DEF ImportsInv

\* Every step keeps the invariant.
LEMMA ImportsInvStep == ImportsInv /\ [ImportNext]_importVars => ImportsInv'
<1> SUFFICES ASSUME ImportsInv, [ImportNext]_importVars
             PROVE  ImportsInv'
  OBVIOUS
<1>1. ASSUME NEW p \in Proc, IndexCard(p) \/ Reindex(p) \/ ImportDies(p)
      PROVE  ImportsInv'
  <2>1. proc[p].pc # "idle" /\ Release(p) /\ UNCHANGED <<file, backup, accepted, disturbed>>
    BY <1>1 DEF IndexCard, Reindex, ImportDies
  <2> QED
    BY <2>1, EndInv
<1>2. ASSUME NEW p \in Proc, Import(p)
      PROVE  ImportsInv'
  BY <1>1, <1>2, StartImportInv, SaveCardInv DEF Import
<1>3. ASSUME NEW p \in Proc, Migrate(p)
      PROVE  ImportsInv'
  BY <1>1, <1>3, StartMigrationInv, BackUpInv, VerifyCardInv, ReplaceCardInv DEF Migrate
<1>4. CASE UNCHANGED importVars
  BY <1>4 DEF importVars, ImportsInv, Typed, Held, Checked, Undisturbed, Migrating, Changes,
              PlanConsistent, SlotsUnique, SlotFree, HasSlot, RepeatAccepted, PlanAccepted,
              BackupFits, Intact
<1> QED
  BY <1>1, <1>2, <1>3, <1>4, EditCardInv DEF ImportNext

\* Whatever imports, migrations, people and deaths do in whatever order, no
\* two cards share a slot and an accepted plan stays acceptable
\* (validate_slot, _migrate).
THEOREM ImportsSoundAlways == ImportSpec => []ImportsSound
<1>1. ImportsInv => ImportsSound
  BY DEF ImportsInv, ImportsSound
<1> QED
  BY <1>1, ImportsInvInit, ImportsInvStep, PTL DEF ImportSpec

-----------------------------------------------------------------------------
(* Uploads.  Nothing is known of the partial file, which may mix what      *)
(* several senders sent: only what has the digest of the whole is put in   *)
(* place, and what is in place stays.                                      *)

\* What a call puts in place is the file of the sender; it is never replaced.
LEMMA EffectOnTarget ==
    ASSUME NEW s \in Sender, NEW n, target' = Effect(s, n)[1]
    PROVE  /\ target # Nothing => target' = target
           /\ target' = target \/ target' = File[s]
BY DEF Effect, DigestMatches

\* A sender that is told so has its file in place.
LEMMA ToldComplete ==
    ASSUME NEW s \in Sender, NEW n, NEW named, target' = Effect(s, n)[1],
           FinalAnswer(s, n, named) = "complete"
    PROVE  target' = File[s]
<1>1. CASE target # Nothing
  BY <1>1 DEF FinalAnswer, DigestMatches, Effect
<1>2. CASE target = Nothing
  <2>1. offset[s] = Received(s) /\ Written(s, n) = File[s]
    BY <1>2 DEF FinalAnswer, DigestMatches
  <2>2. ~(Len(Written(s, n)) < Total(s))
    BY <2>1, UploadsAssumption DEF Total
  <2> QED
    BY <1>2, <2>1, <2>2 DEF Effect, DigestMatches
<1> QED
  BY <1>1, <1>2

\* A step keeps what is in place and what the answers said of it.
LEMMA UploadsStep ==
    ASSUME WholeFile, answer \in [Sender -> {"none", "complete", "exists", "given up"}],
           UploadsNext
    PROVE  /\ WholeFile'
           /\ answer' \in [Sender -> {"none", "complete", "exists", "given up"}]
<1> DEFINE Answers == {"none", "complete", "exists", "given up"}
<1>1. ASSUME NEW s \in Sender, PutAttachment(s)
      PROVE  WholeFile' /\ answer' \in [Sender -> Answers]
  <2>1. PICK n \in PieceLengths(s), named \in BOOLEAN :
             /\ target' = Effect(s, n)[1]
             /\ answer' = [answer EXCEPT ![s] = FinalAnswer(s, n, named)]
    BY <1>1 DEF PutAttachment
  <2>2. FinalAnswer(s, n, named) \in Answers
    BY DEF FinalAnswer
  <2>3. /\ target # Nothing => target' = target
        /\ target' = target \/ target' = File[s]
    BY <2>1, EffectOnTarget
  <2>4. ASSUME NEW r \in Sender, answer'[r] = "complete"
        PROVE  target' = File[r]
    <3>1. CASE r = s
      BY <2>1, <2>4, <3>1, ToldComplete
    <3>2. CASE r # s
      BY <2>1, <2>3, <2>4, <3>2, UploadsAssumption DEF WholeFile
    <3> QED
      BY <3>1, <3>2
  <2>5. target' # Nothing => \E r \in Sender : target' = File[r]
    BY <2>3 DEF WholeFile
  <2> QED
    BY <2>1, <2>2, <2>4, <2>5 DEF WholeFile
<1>2. ASSUME NEW s \in Sender, AnswerLost(s)
      PROVE  WholeFile' /\ answer' \in [Sender -> Answers]
  <2>1. PICK n \in PieceLengths(s) : target' = Effect(s, n)[1] /\ answer' = answer
    BY <1>2 DEF AnswerLost
  <2>2. /\ target # Nothing => target' = target
        /\ target' = target \/ target' = File[s]
    BY <2>1, EffectOnTarget
  <2> QED
    BY <2>1, <2>2, UploadsAssumption DEF WholeFile
<1>3. ASSUME NEW s \in Sender, KilledWriting(s) \/ StartOver(s)
      PROVE  WholeFile' /\ answer' \in [Sender -> Answers]
  BY <1>3 DEF KilledWriting, StartOver, WholeFile
<1>4. ASSUME NEW s \in Sender, GiveUp(s)
      PROVE  WholeFile' /\ answer' \in [Sender -> Answers]
  BY <1>4 DEF GiveUp, WholeFile
<1> QED
  BY <1>1, <1>2, <1>3, <1>4 DEF UploadsNext

\* What is in place is one sender's whole file, and a sender that was told so
\* finds its own there, for any files, senders, sizes of pieces and number of
\* killed servers and lost answers (put_attachment).
THEOREM OneWholeFile == UploadsSpec => []WholeFile
<1> DEFINE Inv == WholeFile /\ answer \in [Sender -> {"none", "complete", "exists", "given up"}]
<1>1. UploadsInit => Inv
  BY DEF UploadsInit, WholeFile
<1>2. Inv /\ [UploadsNext]_uploadsVars => Inv'
  <2> SUFFICES ASSUME Inv, [UploadsNext]_uploadsVars PROVE Inv'
    OBVIOUS
  <2>1. CASE UploadsNext
    BY <2>1, UploadsStep
  <2>2. CASE UNCHANGED uploadsVars
    BY <2>2 DEF uploadsVars, WholeFile
  <2> QED
    BY <2>1, <2>2
<1> QED
  BY <1>1, <1>2, PTL DEF UploadsSpec

-----------------------------------------------------------------------------
(* SourceFiles.  While watch runs, the marker moves past every file the    *)
(* poll did not see change, so the invariant has to know the snapshot: a   *)
(* file that is as the last snapshot saw it agrees with the index or is    *)
(* known to be missed (Caught), a file that is not was written after the   *)
(* marker.  During a poll the same is said of the new snapshot and of the  *)
(* time the poll began (Polled), and of the text that was read of each     *)
(* changed file (Fetched).                                                 *)

WatchType ==
    [pc: {"off", "reconcile", "baseline", "watching", "poll", "removed"}, since: Nat,
     snap: [Path -> Nat], new: [Path -> Nat], todo: SUBSET Path,
     read: [Path -> Text \cup {None, "blank"}], applied: BOOLEAN, starts: Nat]

FilesTyped ==
    /\ disk \in [Path -> [text: Text \cup {None, "blank"}, at: Nat, mtime: Nat]]
    /\ index \in [Path -> Text \cup {None}]
    /\ clock \in Nat /\ marker \in Nat
    /\ job \in [Writer -> Job]
    /\ \A w \in Writer : job[w].pc # "idle" => job[w].path \in Path
    /\ watch \in WatchType
    /\ missed \subseteq Path

\* No file was written after the last write, and the marker is in the past.
Timed ==
    /\ marker <= clock
    /\ \A f \in Path : disk[f].at <= clock

InPoll == watch.pc \in {"poll", "removed"}

\* A file is as the last snapshot saw it, or changed after the marker.
Caught ==
    watch.pc \in {"watching", "poll", "removed"} =>
        \A f \in Path :
            /\ watch.snap[f] <= clock + 1
            /\ watch.snap[f] = Snapshot[f] \/ disk[f].at > marker
            /\ Present(f) /\ f \notin missed /\ watch.snap[f] = Snapshot[f] => ~Differs(f)

\* A file is as the poll saw it, or changed after the poll began.
Polled ==
    InPoll =>
        /\ marker <= watch.since /\ watch.since <= clock
        /\ \A f \in Path : /\ watch.snap[f] <= watch.since + 1 /\ watch.new[f] <= watch.since + 1
                           /\ watch.new[f] = Snapshot[f] \/ disk[f].at > watch.since

\* A reconcile moves the marker to the time it began.
Reconciled == watch.pc = "reconcile" => watch.since <= clock

Changed == ChangedFiles(watch.snap, watch.new)

\* What was read of a changed file is what it holds, if it is as it was seen.
Fetched ==
    /\ watch.pc = "poll" => watch.todo \subseteq Changed
    /\ watch.pc = "poll" =>
          \A f \in Path :
             /\ f \notin Changed \/ f \in watch.todo => watch.read[f] = None
             /\ f \in Changed \ watch.todo /\ watch.new[f] = Snapshot[f] =>
                   /\ watch.read[f] = disk[f].text
                   /\ Shown(disk[f].text) = None => index[f] = None
    /\ watch.pc = "removed" =>
          \A f \in Changed : watch.new[f] = Snapshot[f] => ~Differs(f)

\* What was read is applied before anything else is done.
Unread ==
    watch.pc \in {"baseline", "watching", "removed"} => \A f \in Path : watch.read[f] = None

StaleInv ==
    /\ FilesTyped /\ Timed /\ Caught /\ Polled /\ Reconciled /\ Fetched /\ Unread
    /\ StaleTells

-----------------------------------------------------------------------------

\* The empty file and no file are the same to the index.
LEMMA ShownType ==
    ASSUME NEW t \in Text \cup {None, "blank"}
    PROVE  Shown(t) \in Text \cup {None} /\ (Shown(t) # None => Shown(t) = t)
BY DEF Shown

\* Snapshots hold the times files were written at.
LEMMA SnapshotOf ==
    ASSUME FilesTyped
    PROVE  /\ Snapshot \in [Path -> Nat]
           /\ \A f \in Path : Snapshot[f] = IF Present(f) THEN disk[f].at + 1 ELSE 0
BY DEF FilesTyped, Snapshot

\* A write is later than everything noted before it: the file differs from
\* every snapshot and is newer than the marker.
LEMMA Overwritten ==
    ASSUME StaleInv, NEW g \in Path, NEW text \in Text \cup {None, "blank"},
           NEW mtime \in Nat, Place(g, text, mtime),
           job' \in [Writer -> Job], \A w \in Writer : job'[w].pc # "idle" => job'[w].path \in Path,
           UNCHANGED <<index, marker, watch, missed>>
    PROVE  StaleInv'
<1>1. /\ clock' = clock + 1
      /\ disk' \in [Path -> [text: Text \cup {None, "blank"}, at: Nat, mtime: Nat]]
      /\ disk'[g].at = clock + 1
      /\ \A f \in Path \ {g} : disk'[f] = disk[f]
  BY DEF Place, StaleInv, FilesTyped
<1>2. FilesTyped'
  BY <1>1 DEF StaleInv, FilesTyped
<1>3. \A f \in Path \ {g} : /\ Snapshot'[f] = Snapshot[f] /\ (Present(f)' <=> Present(f))
                            /\ Differs(f)' <=> Differs(f)
  BY <1>1, <1>2, SnapshotOf DEF StaleInv, Present, Differs, Snapshot
<1>4. Timed'
  BY <1>1 DEF StaleInv, Timed, FilesTyped
<1>5. disk'[g].at > marker' /\ (InPoll => disk'[g].at > watch'.since)
  BY <1>1 DEF StaleInv, Timed, FilesTyped, Polled, WatchType
<1>6. Snapshot'[g] = 0 \/ Snapshot'[g] = clock + 2
  BY <1>1 DEF StaleInv, FilesTyped, Snapshot
<1>7. Caught'
  <2> SUFFICES ASSUME watch.pc \in {"watching", "poll", "removed"}, NEW f \in Path
               PROVE  /\ watch.snap[f] <= clock' + 1
                      /\ watch.snap[f] = Snapshot'[f] \/ disk'[f].at > marker
                      /\ Present(f)' /\ f \notin missed /\ watch.snap[f] = Snapshot'[f] => ~Differs(f)'
    BY DEF Caught
  <2>1. watch.snap[f] \in Nat /\ watch.snap[f] <= clock + 1 /\ clock \in Nat
    BY DEF StaleInv, Caught, FilesTyped, WatchType
  <2>2. CASE f # g
    BY <1>1, <1>3, <2>1, <2>2 DEF StaleInv, Caught
  <2>3. CASE f = g
    <3>1. Present(g)' => Snapshot'[g] = clock + 2
      BY <1>1 DEF StaleInv, FilesTyped, Snapshot
    <3> QED
      BY <1>1, <1>5, <2>1, <2>3, <3>1
  <2> QED
    BY <2>2, <2>3
<1>8. Polled'
  <2> SUFFICES ASSUME InPoll
               PROVE  /\ marker <= watch.since /\ watch.since <= clock'
                      /\ \A f \in Path : /\ watch.snap[f] <= watch.since + 1 /\ watch.new[f] <= watch.since + 1
                                         /\ watch.new[f] = Snapshot'[f] \/ disk'[f].at > watch.since
    BY DEF Polled, InPoll
  <2>1. /\ marker <= watch.since /\ watch.since <= clock'
          /\ \A f \in Path : watch.snap[f] <= watch.since + 1 /\ watch.new[f] <= watch.since + 1
    BY <1>1 DEF StaleInv, Polled, FilesTyped, WatchType
  <2>2. \A f \in Path \ {g} : watch.new[f] = Snapshot'[f] \/ disk'[f].at > watch.since
    BY <1>1, <1>3 DEF StaleInv, Polled
  <2> QED
    BY <1>5, <2>1, <2>2
<1>9. Reconciled'
  BY <1>1 DEF StaleInv, Reconciled, FilesTyped, WatchType
<1>10. Fetched'
  <2>1. ASSUME InPoll, NEW f \in Changed, watch.new[f] = Snapshot'[f]
        PROVE  f # g
    <3>1. /\ watch.new[f] # 0 /\ watch.new[f] \in Nat /\ f \in Path
          /\ watch.new[f] <= watch.since + 1 /\ watch.since <= clock
          /\ clock \in Nat /\ watch.since \in Nat
      BY <2>1 DEF StaleInv, Polled, FilesTyped, WatchType, Changed, ChangedFiles
    <3> QED
      BY <1>6, <2>1, <3>1
  <2>2. ASSUME watch.pc = "poll", NEW f \in Path
        PROVE  /\ f \notin Changed \/ f \in watch.todo => watch.read[f] = None
               /\ f \in Changed \ watch.todo /\ watch.new[f] = Snapshot'[f] =>
                     /\ watch.read[f] = disk'[f].text
                     /\ Shown(disk'[f].text) = None => index[f] = None
    BY <1>1, <1>3, <2>1, <2>2 DEF StaleInv, Fetched, InPoll
  <2>3. ASSUME watch.pc = "removed", NEW f \in Changed, watch.new[f] = Snapshot'[f]
        PROVE  ~Differs(f)'
    <3>1. f \in Path \ {g}
      BY <2>1, <2>3 DEF InPoll, Changed, ChangedFiles
    <3> QED
      BY <1>3, <2>3, <3>1 DEF StaleInv, Fetched
  <2>4. Changed' = Changed
    BY DEF Changed
  <2>5. watch.pc = "poll" => watch.todo \subseteq Changed
    BY DEF StaleInv, Fetched
  <2> QED
    BY <2>2, <2>3, <2>4, <2>5 DEF Fetched
<1>11. StaleTells'
  <2> SUFFICES ASSUME NEW f \in Path, f \notin Backdated', Differs(f)', Present(f)', f \notin missed
               PROVE  f \in Stale' \/ watch.pc = "baseline"
    BY DEF StaleTells
  <2>1. CASE f = g
    BY <1>5, <2>1 DEF Stale, Backdated
  <2>2. CASE f # g
    BY <1>1, <1>3, <2>2 DEF StaleInv, StaleTells, Stale, Backdated
  <2> QED
    BY <2>1, <2>2
<1>12. Unread'
  BY DEF StaleInv, Unread
<1> QED
  BY <1>2, <1>4, <1>7, <1>8, <1>9, <1>10, <1>11, <1>12 DEF StaleInv

-----------------------------------------------------------------------------
(* The writers *)

\* Where the index changes, it is what the file holds.
LEMMA Caughtup ==
    ASSUME StaleInv, UNCHANGED <<disk, clock, marker, watch, missed>>,
           index' \in [Path -> Text \cup {None}],
           \A f \in Path : index'[f] = index[f] \/ index'[f] = Shown(disk[f].text),
           job' \in [Writer -> Job], \A w \in Writer : job'[w].pc # "idle" => job'[w].path \in Path
    PROVE  StaleInv'
<1>1. /\ Snapshot' = Snapshot /\ Changed' = Changed /\ Stale' = Stale /\ Backdated' = Backdated
      /\ \A f \in Path : (Present(f)' <=> Present(f)) /\ (Differs(f)' => Differs(f))
  BY DEF Snapshot, Changed, Present, Differs, Stale, Backdated
<1>2. FilesTyped' /\ Timed' /\ Polled' /\ Reconciled'
  BY <1>1 DEF StaleInv, FilesTyped, Timed, Polled, Reconciled, InPoll
<1>3. Caught'
  BY <1>1 DEF StaleInv, Caught
<1>4. Fetched'
  <2>1. ASSUME watch.pc = "poll", NEW f \in Path
        PROVE  /\ f \notin Changed \/ f \in watch.todo => watch.read[f] = None
               /\ f \in Changed \ watch.todo /\ watch.new[f] = Snapshot[f] =>
                     /\ watch.read[f] = disk[f].text
                     /\ Shown(disk[f].text) = None => index'[f] = None
    BY <2>1 DEF StaleInv, Fetched
  <2>2. ASSUME watch.pc = "removed", NEW f \in Changed, watch.new[f] = Snapshot[f]
        PROVE  ~Differs(f)'
    BY <1>1, <2>2 DEF StaleInv, Fetched, Changed, ChangedFiles
  <2>3. watch.pc = "poll" => watch.todo \subseteq Changed
    BY DEF StaleInv, Fetched
  <2> QED
    BY <1>1, <2>1, <2>2, <2>3 DEF Fetched
<1>5. StaleTells'
  BY <1>1 DEF StaleInv, StaleTells
<1>6. Unread'
  BY DEF StaleInv, Unread
<1> QED
  BY <1>2, <1>3, <1>4, <1>5, <1>6 DEF StaleInv

\* What a writer does keeps the invariant.
LEMMA WritingKeeps ==
    ASSUME StaleInv, NEW w \in Writer, Writing(w)
    PROVE  StaleInv'
<1>0. /\ job \in [Writer -> Job] /\ \A v \in Writer : job[v].pc # "idle" => job[v].path \in Path
      /\ index \in [Path -> Text \cup {None}]
      /\ disk \in [Path -> [text: Text \cup {None, "blank"}, at: Nat, mtime: Nat]]
      /\ clock \in Nat
  BY DEF StaleInv, FilesTyped
<1>1. CASE CheckWrite(w) \/ CheckPatch(w)
  <2>1. /\ job' \in [Writer -> Job] /\ \A v \in Writer : job'[v].pc # "idle" => job'[v].path \in Path
        /\ UNCHANGED <<disk, index, clock, marker, watch, missed>>
    <3>1. PICK f \in Path, t \in Text, hash \in Text \cup {None} :
             job' = [job EXCEPT ![w] = [pc |-> "checked", path |-> f, text |-> t, base |-> hash]]
      BY <1>1 DEF CheckWrite, CheckPatch
    <3>2. [pc |-> "checked", path |-> f, text |-> t, base |-> hash] \in Job
      BY DEF Job
    <3> QED
      BY <1>0, <1>1, <3>1, <3>2 DEF CheckWrite, CheckPatch
  <2> QED
    BY <1>0, <2>1, Caughtup
<1>2. CASE OpenFile(w)
  <2>1. /\ job' \in [Writer -> Job] /\ \A v \in Writer : job'[v].pc # "idle" => job'[v].path \in Path
        /\ job[w].path \in Path /\ Place(job[w].path, "blank", clock + 1) /\ clock + 1 \in Nat
        /\ UNCHANGED <<index, marker, watch, missed>>
    <3>1. /\ job[w].pc = "checked" /\ Place(job[w].path, "blank", clock + 1)
          /\ job' = [job EXCEPT ![w].pc = "open", ![w].base = None]
          /\ UNCHANGED <<index, marker, watch, missed>>
      BY <1>2 DEF OpenFile, Put
    <3>2. job[w].path \in Path /\ clock + 1 \in Nat
      BY <1>0, <3>1
    <3> DEFINE j == [job[w] EXCEPT !.pc = "open", !.base = None]
    <3>3. j \in Job /\ j.path = job[w].path
      BY <1>0 DEF Job
    <3>4. job' = [job EXCEPT ![w] = j]
      BY <1>0, <3>1 DEF Job
    <3> HIDE DEF j
    <3> QED
      BY <1>0, <3>1, <3>2, <3>3, <3>4
  <2> QED
    BY <2>1, Overwritten
<1>3. CASE FillFile(w)
  <2>1. /\ job' \in [Writer -> Job] /\ \A v \in Writer : job'[v].pc # "idle" => job'[v].path \in Path
        /\ job[w].path \in Path /\ Place(job[w].path, job[w].text, clock + 1) /\ clock + 1 \in Nat
        /\ job[w].text \in Text \cup {None, "blank"}
        /\ UNCHANGED <<index, marker, watch, missed>>
    <3>1. PICK ingest \in BOOLEAN :
             job' = [job EXCEPT ![w] =
                       IF ingest THEN [Idle EXCEPT !.pc = "ingest", !.path = job[w].path] ELSE Idle]
      BY <1>3 DEF FillFile
    <3>2. job[w].path \in Path /\ job[w].text \in Text \cup {None}
      BY <1>0, <1>3 DEF FillFile, Job
    <3>3. /\ Idle \in Job /\ Idle.pc = "idle"
          /\ [Idle EXCEPT !.pc = "ingest", !.path = job[w].path] \in Job
          /\ [Idle EXCEPT !.pc = "ingest", !.path = job[w].path].path \in Path
      BY <3>2 DEF Idle, Job
    <3> QED
      BY <1>0, <1>3, <3>1, <3>2, <3>3 DEF FillFile, Put
  <2> QED
    BY <2>1, Overwritten
<1>4. CASE IngestWritten(w)
  <2>1. /\ job' \in [Writer -> Job] /\ \A v \in Writer : job'[v].pc # "idle" => job'[v].path \in Path
        /\ UNCHANGED <<disk, clock, marker, watch, missed>>
    BY <1>0, <1>4 DEF IngestWritten, Job, Idle
  <2>2. /\ index' \in [Path -> Text \cup {None}]
        /\ \A f \in Path : index'[f] = index[f] \/ index'[f] = Shown(disk[f].text)
    BY <1>0, <1>4, ShownType DEF IngestWritten
  <2> QED
    BY <2>1, <2>2, Caughtup
<1>5. CASE WriterDies(w)
  <2>1. /\ job' \in [Writer -> Job] /\ \A v \in Writer : job'[v].pc # "idle" => job'[v].path \in Path
        /\ UNCHANGED <<disk, index, clock, marker, watch, missed>>
    BY <1>0, <1>5 DEF WriterDies, Job, Idle
  <2> QED
    BY <1>0, <2>1, Caughtup
<1> QED
  BY <1>1, <1>2, <1>3, <1>4, <1>5 DEF Writing

\* An edit is a write, and a file that arrives one with an older time.
LEMMA EditKeeps ==
    ASSUME StaleInv, NEW f \in Path, Edit(f) \/ Arrive(f)
    PROVE  StaleInv'
<1>0. clock \in Nat
  BY DEF StaleInv, FilesTyped
<1>1. PICK t \in Text \cup {None}, mtime \in Nat : Place(f, t, mtime)
  <2>1. CASE Edit(f)
    <3>1. PICK t \in Text \cup {None} : Place(f, t, clock + 1)
      BY <2>1 DEF Edit, Put
    <3>2. clock + 1 \in Nat
      BY <1>0
    <3> QED
      BY <3>1, <3>2
  <2>2. CASE Arrive(f)
    <3>1. PICK t \in Text, mtime \in 0 .. clock : Place(f, t, mtime)
      BY <2>2 DEF Arrive
    <3>2. mtime \in Nat
      BY <1>0
    <3> QED
      BY <3>1, <3>2
  <2> QED
    BY <2>1, <2>2
<1>2. UNCHANGED <<index, marker, job, watch, missed>>
  BY DEF Edit, Arrive
<1>3. /\ job' \in [Writer -> Job] /\ \A w \in Writer : job'[w].pc # "idle" => job'[w].path \in Path
  BY <1>2 DEF StaleInv, FilesTyped
<1> QED
  BY <1>1, <1>2, <1>3, Overwritten

-----------------------------------------------------------------------------
(* The watch command *)

\* While watch runs, what the snapshots know is all that is to be shown.
LEMMA CaughtTells ==
    ASSUME Caught, watch.pc \in {"watching", "poll", "removed"}
    PROVE  StaleTells
BY DEF Caught, StaleTells, Stale, Backdated

\* What applying the reads leaves in the index.
LEMMA AppliedIs ==
    ASSUME FilesTyped
    PROVE  /\ Applied \in [Path -> Text \cup {None}]
           /\ \A f \in Path : Applied[f] = IF Shown(watch.read[f]) = None THEN index[f]
                                           ELSE Shown(watch.read[f])
<1>1. \A f \in Path : watch.read[f] \in Text \cup {None, "blank"}
  BY DEF FilesTyped, WatchType
<1> QED
  BY <1>1, ShownType DEF FilesTyped, Applied

\* A watch command that is off knows nothing that could be wrong.
LEMMA OffKeeps ==
    ASSUME StaleInv, watch.pc # "baseline", Die, index' = index,
           UNCHANGED <<disk, clock, marker, job, missed>>
    PROVE  StaleInv'
<1>1. watch' \in WatchType /\ watch'.pc = "off"
  BY DEF Die, Off, StaleInv, FilesTyped, WatchType
<1>2. FilesTyped' /\ Timed'
  BY <1>1 DEF StaleInv, FilesTyped, Timed
<1>3. Caught' /\ Polled' /\ Reconciled' /\ Fetched' /\ Unread'
  BY <1>1 DEF Caught, Polled, InPoll, Reconciled, Fetched, Unread
<1>4. StaleTells'
  BY <1>1 DEF StaleInv, StaleTells, Differs, Present, Stale, Backdated
<1> QED
  BY <1>2, <1>3, <1>4 DEF StaleInv

\* The start only notes the time and the files.
LEMMA StartWatchKeeps ==
    ASSUME StaleInv, StartWatch
    PROVE  StaleInv'
<1>1. /\ watch' \in WatchType /\ watch'.pc = "reconcile" /\ watch'.since = clock /\ watch.pc = "off"
      /\ UNCHANGED <<disk, index, clock, marker, job, missed>>
  <2>1. /\ watch' = [Off EXCEPT !.pc = "reconcile", !.since = clock,
                                !.todo = {f \in Path : Present(f)}, !.starts = watch.starts + 1]
        /\ watch.pc = "off" /\ UNCHANGED <<disk, index, clock, marker, job, missed>>
    BY DEF StartWatch
  <2>2. Off \in WatchType
    BY DEF Off, WatchType
  <2>3. clock \in Nat /\ watch.starts + 1 \in Nat /\ {f \in Path : Present(f)} \subseteq Path
    BY DEF StaleInv, FilesTyped, WatchType
  <2> QED
    BY <2>1, <2>2, <2>3 DEF WatchType
<1>2. FilesTyped' /\ Timed' /\ Reconciled'
  BY <1>1 DEF StaleInv, FilesTyped, Timed, Reconciled
<1>3. Caught' /\ Polled' /\ Fetched' /\ Unread'
  BY <1>1 DEF Caught, Polled, InPoll, Fetched, Unread
<1>4. StaleTells'
  BY <1>1 DEF StaleInv, StaleTells, Differs, Present, Stale, Backdated
<1> QED
  BY <1>2, <1>3, <1>4 DEF StaleInv

\* A read notes the text as it is, and an empty file leaves the index.
LEMMA ReadFileKeeps ==
    ASSUME StaleInv, NEW g \in Path, ReadFile(g)
    PROVE  StaleInv'
<1>0. /\ watch.pc \in {"reconcile", "poll"} /\ g \in watch.todo
      /\ UNCHANGED <<disk, clock, marker, job, missed>>
  BY DEF ReadFile
<1>1. CASE ~Present(g)
  BY <1>0, <1>1, OffKeeps DEF ReadFile
<1>2. CASE Present(g)
  <2>1. /\ watch' = [watch EXCEPT !.todo = @ \ {g}, !.read[g] = disk[g].text]
        /\ index' = IF Shown(disk[g].text) = None THEN [index EXCEPT ![g] = None] ELSE index
    BY <1>2 DEF ReadFile
  <2>2. /\ watch' \in WatchType /\ watch'.pc = watch.pc /\ watch'.since = watch.since
        /\ watch'.snap = watch.snap /\ watch'.new = watch.new /\ watch'.todo = watch.todo \ {g}
        /\ watch'.read[g] = disk[g].text
        /\ \A f \in Path \ {g} : watch'.read[f] = watch.read[f]
    BY <2>1 DEF StaleInv, FilesTyped, WatchType
  <2>3. /\ index' \in [Path -> Text \cup {None}]
        /\ \A f \in Path : index'[f] = index[f] \/ index'[f] = Shown(disk[f].text)
        /\ \A f \in Path \ {g} : index'[f] = index[f]
        /\ Shown(disk[g].text) = None => index'[g] = None
    BY <2>1 DEF StaleInv, FilesTyped
  <2>4. /\ Snapshot' = Snapshot /\ Changed' = Changed /\ Stale' = Stale /\ Backdated' = Backdated
        /\ \A f \in Path : (Present(f)' <=> Present(f)) /\ (Differs(f)' => Differs(f))
    BY <1>0, <2>2, <2>3 DEF Snapshot, Changed, Present, Differs, Stale, Backdated
  <2>5. FilesTyped' /\ Timed' /\ Polled' /\ Reconciled'
    BY <1>0, <2>2, <2>3, <2>4 DEF StaleInv, FilesTyped, Timed, Polled, Reconciled, InPoll
  <2>6. Caught' /\ Unread'
    BY <1>0, <2>2, <2>4 DEF StaleInv, Caught, Unread
  <2>7. StaleTells'
    BY <1>0, <2>2, <2>4 DEF StaleInv, StaleTells
  <2>8. Fetched'
    <3>1. ASSUME watch.pc = "poll", NEW f \in Path
          PROVE  /\ f \notin Changed \/ f \in watch.todo \ {g} => watch'.read[f] = None
                 /\ f \in Changed \ (watch.todo \ {g}) /\ watch.new[f] = Snapshot[f] =>
                       /\ watch'.read[f] = disk[f].text
                       /\ Shown(disk[f].text) = None => index'[f] = None
      <4>1. g \in Changed
        BY <1>0, <3>1 DEF StaleInv, Fetched
      <4>2. CASE f = g
        BY <2>2, <2>3, <4>1, <4>2
      <4>3. CASE f # g
        BY <2>2, <2>3, <3>1, <4>3 DEF StaleInv, Fetched
      <4> QED
        BY <4>2, <4>3
    <3>2. watch.pc = "poll" => watch.todo \ {g} \subseteq Changed
      BY DEF StaleInv, Fetched
    <3>3. watch'.pc # "removed"
      BY <1>0, <2>2
    <3> QED
      BY <1>0, <2>2, <2>4, <3>1, <3>2, <3>3 DEF Fetched
  <2> QED
    BY <2>5, <2>6, <2>7, <2>8 DEF StaleInv
<1> QED
  BY <1>1, <1>2

\* After a reconcile nothing is promised until the first snapshot.
LEMMA EndReconcileKeeps ==
    ASSUME StaleInv, EndReconcile
    PROVE  StaleInv'
<1>1. /\ watch' \in WatchType /\ watch'.pc = "baseline" /\ marker' = watch.since
      /\ marker' \in Nat /\ marker' <= clock
      /\ \A f \in Path : watch'.read[f] = None
      /\ index' = Applied /\ UNCHANGED <<disk, clock, job, missed>>
  BY DEF EndReconcile, Off, StaleInv, FilesTyped, WatchType, Reconciled
<1>2. FilesTyped' /\ Timed'
  BY <1>1, AppliedIs DEF StaleInv, FilesTyped, Timed
<1>3. Caught' /\ Polled' /\ Reconciled' /\ Fetched' /\ Unread' /\ StaleTells'
  BY <1>1 DEF Caught, Polled, InPoll, Reconciled, Fetched, Unread, StaleTells
<1> QED
  BY <1>2, <1>3 DEF StaleInv

\* The first snapshot notes every file that differs as missed.
LEMMA TakeBaselineKeeps ==
    ASSUME StaleInv, TakeBaseline
    PROVE  StaleInv'
<1>1. /\ watch' = [watch EXCEPT !.pc = "watching", !.snap = Snapshot]
      /\ missed' = {f \in Path : Differs(f)} /\ watch.pc = "baseline"
      /\ UNCHANGED <<disk, index, clock, marker, job>>
  BY DEF TakeBaseline, Differs
<1>2. /\ watch' \in WatchType /\ watch'.pc = "watching" /\ watch'.snap = Snapshot
      /\ watch'.read = watch.read
  BY <1>1, SnapshotOf DEF StaleInv, FilesTyped, WatchType
<1>3. Snapshot' = Snapshot /\ \A f \in Path : Differs(f)' <=> Differs(f)
  BY <1>1 DEF Snapshot, Present, Differs
<1>4. FilesTyped' /\ Timed'
  BY <1>1, <1>2 DEF StaleInv, FilesTyped, Timed
<1>5. \A f \in Path : Snapshot[f] <= clock + 1
  BY SnapshotOf DEF StaleInv, FilesTyped, Timed
<1>6. Caught'
  BY <1>1, <1>2, <1>3, <1>5 DEF Caught
<1>7. Polled' /\ Reconciled' /\ Fetched' /\ Unread'
  BY <1>1, <1>2 DEF StaleInv, Polled, InPoll, Reconciled, Fetched, Unread
<1> QED
  BY <1>2, <1>4, <1>6, <1>7, CaughtTells DEF StaleInv, Caught, StaleTells, Stale, Backdated

\* A poll starts with the snapshot it compares, and with nothing read.
LEMMA StartPollKeeps ==
    ASSUME StaleInv, StartPoll
    PROVE  StaleInv'
<1> DEFINE todo == ChangedFiles(watch.snap, Snapshot)
<1>1. /\ watch' = [watch EXCEPT !.pc = "poll", !.since = clock, !.new = Snapshot,
                                !.todo = todo, !.applied = todo # {}]
      /\ missed' = missed \cup Unseen /\ watch.pc = "watching"
      /\ UNCHANGED <<disk, index, clock, marker, job>>
  BY DEF StartPoll
<1>2. todo \subseteq Path /\ clock \in Nat /\ Snapshot \in [Path -> Nat]
  BY SnapshotOf DEF StaleInv, FilesTyped, ChangedFiles
<1>3. /\ watch' \in WatchType /\ watch'.pc = "poll" /\ watch'.since = clock
      /\ watch'.snap = watch.snap /\ watch'.new = Snapshot /\ watch'.todo = todo
      /\ watch'.read = watch.read
  BY <1>1, <1>2 DEF StaleInv, FilesTyped, WatchType
<1>4. /\ Snapshot' = Snapshot /\ \A f \in Path : (Differs(f)' <=> Differs(f)) /\ (Present(f)' <=> Present(f))
      /\ Changed' = todo
  BY <1>1, <1>3 DEF Snapshot, Present, Differs, Changed
<1>5. FilesTyped' /\ Timed'
  BY <1>1, <1>3 DEF StaleInv, FilesTyped, Timed, Unseen
<1>6. Caught'
  BY <1>1, <1>3, <1>4 DEF StaleInv, Caught
<1>7. Polled'
  <2>1. marker <= clock /\ \A f \in Path : watch.snap[f] <= clock + 1 /\ Snapshot[f] <= clock + 1
    BY <1>1, SnapshotOf DEF StaleInv, Timed, Caught, FilesTyped
  <2> QED
    BY <1>1, <1>2, <1>3, <1>4, <2>1 DEF Polled
<1>8. Fetched' /\ Unread' /\ Reconciled'
  <2>1. \A f \in Path : watch.read[f] = None
    BY <1>1 DEF StaleInv, Unread
  <2> HIDE DEF todo
  <2> QED
    BY <1>3, <1>4, <2>1 DEF Fetched, Unread, Reconciled
<1>9. StaleTells'
  BY <1>3, <1>6 DEF Caught, StaleTells, Stale, Backdated
<1> QED
  BY <1>5, <1>6, <1>7, <1>8, <1>9 DEF StaleInv

\* The end of an ingest: what was read of the changed files is in the index.
LEMMA EndIngestKeeps ==
    ASSUME StaleInv, EndIngest
    PROVE  StaleInv'
<1>1. /\ watch' = [watch EXCEPT !.pc = "removed", !.read = Off.read]
      /\ watch.pc = "poll" /\ watch.todo = {}
      /\ index' = Applied /\ missed' = missed \ Changed
      /\ UNCHANGED <<disk, clock, marker, job>>
  BY DEF EndIngest, Changed
<1>2. Off.read \in [Path -> Text \cup {None, "blank"}] /\ \A f \in Path : Off.read[f] = None
  BY DEF Off
<1>3. /\ watch' \in WatchType /\ watch'.pc = "removed" /\ watch'.since = watch.since
      /\ watch'.snap = watch.snap /\ watch'.new = watch.new
      /\ \A f \in Path : watch'.read[f] = None
  BY <1>1, <1>2 DEF StaleInv, FilesTyped, WatchType
<1>4. Snapshot' = Snapshot /\ Changed' = Changed /\ \A f \in Path : Present(f)' <=> Present(f)
  BY <1>1, <1>3 DEF Snapshot, Present, Changed
<1>5. FilesTyped' /\ Timed' /\ Unread' /\ Reconciled'
  BY <1>1, <1>3, AppliedIs DEF StaleInv, FilesTyped, Timed, Unread, Reconciled
<1>6. Polled'
  BY <1>1, <1>3, <1>4 DEF StaleInv, Polled, InPoll
<1>7. ASSUME NEW f \in Changed, watch.new[f] = Snapshot[f]
      PROVE  ~Differs(f)'
  <2>1. f \in Path
    BY DEF Changed, ChangedFiles
  <2>2. watch.read[f] = disk[f].text /\ (Shown(disk[f].text) = None => index[f] = None)
    BY <1>1, <1>7, <2>1 DEF StaleInv, Fetched
  <2>3. Applied[f] = Shown(disk[f].text)
    BY <2>1, <2>2, AppliedIs DEF StaleInv
  <2> QED
    BY <1>1, <2>3 DEF Differs
<1>8. ASSUME NEW f \in Path, f \notin Changed
      PROVE  Differs(f)' <=> Differs(f)
  <2>1. watch.read[f] = None
    BY <1>1, <1>8 DEF StaleInv, Fetched
  <2>2. Shown(None) = None
    BY FilesAssumption DEF Shown
  <2>3. Applied[f] = index[f]
    BY <2>1, <2>2, AppliedIs DEF StaleInv
  <2> QED
    BY <1>1, <2>3 DEF Differs
<1>9. Fetched'
  BY <1>3, <1>4, <1>7 DEF Fetched
<1>10. Caught'
  <2> SUFFICES ASSUME NEW f \in Path, Present(f), f \notin missed', watch.snap[f] = Snapshot[f]
               PROVE  ~Differs(f)'
    BY <1>1, <1>3, <1>4 DEF StaleInv, Caught
  <2>1. CASE f \in Changed
    <3>1. watch.snap[f] # watch.new[f]
      BY <2>1 DEF Changed, ChangedFiles
    <3>2. disk[f].at > watch.since /\ watch.snap[f] <= watch.since + 1
      BY <1>1, <3>1 DEF StaleInv, Polled, InPoll
    <3>3. Snapshot[f] = disk[f].at + 1 /\ disk[f].at \in Nat /\ watch.since \in Nat
      BY SnapshotOf DEF StaleInv, FilesTyped, WatchType
    <3> QED
      BY <3>2, <3>3
  <2>2. CASE f \notin Changed
    <3>1. f \notin missed
      BY <1>1, <2>2
    <3> QED
      BY <1>1, <1>8, <2>2, <3>1 DEF StaleInv, Caught
  <2> QED
    BY <2>1, <2>2
<1>11. StaleTells'
  BY <1>3, <1>10 DEF Caught, StaleTells, Stale, Backdated
<1> QED
  BY <1>5, <1>6, <1>9, <1>10, <1>11 DEF StaleInv

\* The end of a poll: its snapshot is the next one to compare with, and the
\* marker moves at most to the time it began.
LEMMA EndPollKeeps ==
    ASSUME StaleInv, EndPoll
    PROVE  StaleInv'
<1> DEFINE removed == RemovedFiles(watch.snap, watch.new)
<1>1. /\ watch' = [watch EXCEPT !.pc = "watching", !.snap = watch.new, !.new = Off.new,
                                !.applied = FALSE]
      /\ watch.pc = "removed"
      /\ index' = [f \in Path |-> IF f \in DeletedIds THEN None ELSE index[f]]
      /\ missed' = (missed \ DeletedIds) \cup {f \in removed \ DeletedIds : index[f] # None}
      /\ marker' \in {watch.since, marker}
      /\ UNCHANGED <<disk, clock, job>>
  BY DEF EndPoll
<1>2. Off.new \in [Path -> Nat] /\ removed \subseteq Path /\ DeletedIds \subseteq removed
  BY DEF Off, RemovedFiles, DeletedIds
<1> HIDE DEF removed
<1>3. /\ watch' \in WatchType /\ watch'.pc = "watching" /\ watch'.snap = watch.new
      /\ watch'.read = watch.read
  BY <1>1, <1>2 DEF StaleInv, FilesTyped, WatchType
<1>4. Snapshot' = Snapshot /\ \A f \in Path : Present(f)' <=> Present(f)
  BY <1>1, <1>3 DEF Snapshot, Present
<1>5. /\ marker' \in Nat /\ marker' <= watch.since /\ watch.since <= clock
      /\ watch.since \in Nat /\ clock \in Nat
  BY <1>1 DEF StaleInv, Polled, InPoll, FilesTyped, WatchType
<1>6. FilesTyped' /\ Timed'
  BY <1>1, <1>2, <1>3, <1>5 DEF StaleInv, FilesTyped, Timed
<1>7. Caught'
  <2> SUFFICES ASSUME NEW f \in Path
               PROVE  /\ watch.new[f] <= clock + 1
                      /\ watch.new[f] = Snapshot[f] \/ disk[f].at > marker'
                      /\ Present(f) /\ f \notin missed' /\ watch.new[f] = Snapshot[f] => ~Differs(f)'
    BY <1>1, <1>3, <1>4 DEF Caught
  <2>1. /\ watch.new[f] <= watch.since + 1 /\ watch.new[f] \in Nat
        /\ watch.new[f] = Snapshot[f] \/ disk[f].at > watch.since
        /\ disk[f].at \in Nat
    BY <1>1 DEF StaleInv, Polled, InPoll, FilesTyped, WatchType
  <2>2. ASSUME Present(f), f \notin missed', watch.new[f] = Snapshot[f]
        PROVE  ~Differs(f)'
    <3>1. watch.new[f] # 0
      BY <2>1, <2>2, SnapshotOf DEF StaleInv
    <3>2. f \notin removed
      BY <3>1 DEF RemovedFiles, removed
    <3>3. index'[f] = index[f] /\ f \notin missed
      BY <1>1, <1>2, <2>2, <3>2
    <3>4. CASE f \in Changed
      BY <1>1, <2>2, <3>3, <3>4 DEF StaleInv, Fetched, Differs
    <3>5. CASE f \notin Changed
      <4>1. watch.snap[f] = Snapshot[f]
        BY <2>2, <3>1, <3>5 DEF Changed, ChangedFiles
      <4>2. ~Differs(f)
        BY <1>1, <2>2, <3>3, <4>1 DEF StaleInv, Caught
      <4> QED
        BY <1>1, <3>3, <4>2 DEF Differs
    <3> QED
      BY <3>4, <3>5
  <2> QED
    BY <1>5, <2>1, <2>2
<1>8. Polled' /\ Reconciled' /\ Fetched' /\ Unread'
  BY <1>1, <1>3 DEF StaleInv, Polled, InPoll, Reconciled, Fetched, Unread
<1>9. StaleTells'
  BY <1>3, <1>7 DEF Caught, StaleTells, Stale, Backdated
<1> QED
  BY <1>6, <1>7, <1>8, <1>9 DEF StaleInv

\* A step of the writers, of people or of watch keeps the invariant.
LEMMA StaleStep ==
    ASSUME StaleInv, [FilesNext]_filesVars
    PROVE  StaleInv'
<1>1. CASE UNCHANGED filesVars
  <2>1. /\ UNCHANGED <<disk, clock, marker, watch, missed>> /\ index' = index /\ job' = job
    BY <1>1 DEF filesVars
  <2>2. /\ index' \in [Path -> Text \cup {None}] /\ job' \in [Writer -> Job]
        /\ \A w \in Writer : job'[w].pc # "idle" => job'[w].path \in Path
    BY <2>1 DEF StaleInv, FilesTyped
  <2> QED
    BY <2>1, <2>2, Caughtup
<1>2. CASE StopWatch
  <2>1. /\ watch.pc # "baseline" /\ Die /\ index' = index
        /\ UNCHANGED <<disk, clock, marker, job, missed>>
    BY <1>2 DEF StopWatch
  <2> QED
    BY <2>1, OffKeeps
<1>3. ASSUME NEW f \in Incoming, Arrive(f) PROVE StaleInv'
  BY <1>3, FilesAssumption, EditKeeps
<1> QED
  BY <1>1, <1>2, <1>3, WritingKeeps, EditKeeps, StartWatchKeeps, ReadFileKeeps, EndReconcileKeeps,
     TakeBaselineKeeps, StartPollKeeps, EndIngestKeeps, EndPollKeeps DEF FilesNext, Watching

\* The tree is indexed at the start.
LEMMA StaleInvInit ==
    ASSUME FilesInit
    PROVE  StaleInv
<1>1. /\ \A f \in Path : disk[f].at = 0 /\ disk[f].text \in Text \cup {None}
      /\ disk \in [Path -> [text: Text \cup {None, "blank"}, at: Nat, mtime: Nat]]
      /\ index = [f \in Path |-> Shown(disk[f].text)]
      /\ clock = 0 /\ marker = 0 /\ missed = {}
      /\ job = [w \in Writer |-> Idle] /\ watch = Off
  BY DEF FilesInit
<1>2. index \in [Path -> Text \cup {None}]
  BY <1>1, ShownType
<1>3. Idle \in Job /\ Idle.pc = "idle" /\ Off \in WatchType /\ Off.pc = "off"
  BY DEF Idle, Job, Off, WatchType
<1>4. FilesTyped /\ Timed
  BY <1>1, <1>2, <1>3 DEF FilesTyped, Timed
<1>5. Caught /\ Polled /\ Reconciled /\ Fetched /\ Unread
  BY <1>1, <1>3 DEF Caught, Polled, InPoll, Reconciled, Fetched, Unread
<1>6. StaleTells
  BY <1>1 DEF StaleTells, Differs
<1> QED
  BY <1>4, <1>5, <1>6 DEF StaleInv

\* Whatever writers, people and the watch command do to the tree and in
\* whatever order, `stale' shows every file whose text is not in the index,
\* except those watch is known to miss, those that came with an older
\* modification time, and while watch takes its first snapshot, for any tree,
\* texts and number of writers (count_stale, watch, reconcile).
THEOREM StaleAlwaysTells == FilesSpec => []StaleTells
<1>1. FilesInit => StaleInv
  BY StaleInvInit
<1>2. StaleInv /\ [FilesNext]_filesVars => StaleInv'
  BY StaleStep
<1>3. StaleInv => StaleTells
  BY DEF StaleInv
<1> QED
  BY <1>1, <1>2, <1>3, PTL DEF FilesSpec
=============================================================================
