---------------------------- MODULE ImportCards ----------------------------
(***************************************************************************)
(* Import cards (imports.py, import_versions.py): a card is the Markdown   *)
(* file written for an attachment of one category.  It carries a slot, the *)
(* pair of a document identity and a version, and a seal over its content. *)
(* Cards of an earlier release have no slot; a migration with an explicit  *)
(* plan gives them one, card after card, after backing all of them up.     *)
(*                                                                         *)
(* Imports and migrations exclude each other by a lock that dies with its  *)
(* holder.  People edit or delete cards without it: an edit breaks the     *)
(* seal and leaves the slot alone.  Whether the attachment is readable and *)
(* has its digest is not modelled: it does not change (Uploads).           *)
(***************************************************************************)
EXTENDS Naturals, FiniteSets

CONSTANTS
    Card,        \* card paths: one per category and attachment
    Category,    \* [Card -> category]
    Slot,        \* the slots in use, records [id, version]
    Proc,        \* processes that import or migrate
    Legacy,      \* cards an earlier release left, without a slot
    Plan,        \* the assignments of the migration: [subset of Legacy -> Slot]
    MaxFaults,   \* bound on deaths of processes
    MaxEdits,    \* bound on edits and deletions of cards
    NoCard

ASSUME ImportAssumption ==
    /\ Legacy \subseteq Card /\ DOMAIN Plan \subseteq Legacy
    /\ \A c \in DOMAIN Plan : Plan[c] \in Slot
    /\ {MaxFaults, MaxEdits} \subseteq Nat /\ NoCard \notin Slot \cup Proc

VARIABLES
    file,      \* [Card -> NoCard or the card]
    backup,    \* [Card -> NoCard or the card]: _archive/import-versions
    indexed,   \* [Card -> NoCard or the card]: what was ingested
    lock,      \* holder of .pkb-import.lock
    proc,      \* [Proc -> what the process does]
    accepted,  \* the plan passed its checks once
    disturbed, \* and since then people or imports took part in it
    faults, edits

importVars == <<file, backup, indexed, lock, proc, accepted, disturbed, faults, edits>>

\* made: by which release; kept: nobody edited it (the seal matches)
CardType == [slot: Slot \cup {NoCard}, made: {"legacy", "import"}, sealed: BOOLEAN]

ASSUME NoCardAssumption == NoCard \notin CardType

OldCard == [slot |-> NoCard, made |-> "legacy", sealed |-> TRUE]
NewCard(slot) == [slot |-> slot, made |-> "import", sealed |-> TRUE]
Migrated(card, slot) == [card EXCEPT !.slot = slot]

AtRest == [pc |-> "idle", card |-> NoCard, slot |-> NoCard, raw |-> OldCard, todo |-> {}]

ImportTypeOK ==
    /\ file \in [Card -> CardType \cup {NoCard}]
    /\ backup \in [Card -> CardType \cup {NoCard}]
    /\ indexed \in [Card -> CardType \cup {NoCard}]
    /\ lock \in Proc \cup {NoCard}
    /\ \A p \in Proc : proc[p].pc # "idle" <=> lock = p

ImportInit ==
    /\ file = [c \in Card |-> IF c \in Legacy THEN OldCard ELSE NoCard]
    /\ backup = [c \in Card |-> NoCard]
    /\ indexed = file
    /\ lock = NoCard
    /\ proc = [p \in Proc |-> AtRest]
    /\ accepted = FALSE /\ disturbed = FALSE
    /\ faults = 0 /\ edits = 0

-----------------------------------------------------------------------------
(* What both operations check *)

HasSlot(c) == file[c] # NoCard /\ file[c].slot # NoCard

\* validate_slot, and the first loop of _migrate: a slot has one card, and
\* the versions of an identity are in one category.
SlotFree(c, slot) ==
    \A d \in Card \ {c} :
        HasSlot(d) => /\ file[d].slot # slot
                      /\ file[d].slot.id = slot.id => Category[d] = Category[c]

\* _load_record: the card is there and unedited
Intact(card) == card # NoCard /\ card.sealed

\* Mutant of Take: nobody waits for the lock.
TakeUnlocked(p, state) ==
    /\ proc[p] = AtRest
    /\ lock' = p
    /\ proc' = [proc EXCEPT ![p] = state]

Take(p, state) ==
    /\ lock = NoCard /\ proc[p] = AtRest
    /\ lock' = p
    /\ proc' = [proc EXCEPT ![p] = state]

Release(p) == lock' = NoCard /\ proc' = [proc EXCEPT ![p] = AtRest]

-----------------------------------------------------------------------------
(* import_attachment *)

\* Validation and extraction, up to the look at the target.
StartImport(p) ==
    /\ \E c \in Card, s \in Slot :
          /\ SlotFree(c, s)
          /\ Take(p, [AtRest EXCEPT !.pc = "save", !.card = c, !.slot = s])
    /\ UNCHANGED <<file, backup, indexed, accepted, disturbed, faults, edits>>

\* A new card is linked into place, which fails if one appeared meanwhile;
\* one that is there must be intact and have the slot.
SaveCard(p) ==
    /\ proc[p].pc = "save"
    /\ LET c == proc[p].card
           s == proc[p].slot
       IN  /\ file' = IF file[c] = NoCard THEN [file EXCEPT ![c] = NewCard(s)] ELSE file
           /\ disturbed' = (disturbed \/ file'[c] # file[c])
           /\ IF Intact(file'[c]) /\ file'[c].slot = s
              THEN proc' = [proc EXCEPT ![p].pc = "indexed"] /\ UNCHANGED lock
              ELSE Release(p)
    /\ UNCHANGED <<backup, indexed, accepted, faults, edits>>

\* The card is ingested as it is on disk now; a deleted one is an error.
IndexCard(p) ==
    /\ proc[p].pc = "indexed"
    /\ indexed' = IF file[proc[p].card] = NoCard THEN indexed
                ELSE [indexed EXCEPT ![proc[p].card] = file[proc[p].card]]
    /\ Release(p)
    /\ UNCHANGED <<file, backup, accepted, disturbed, faults, edits>>

-----------------------------------------------------------------------------
(* migrate_import_versions *)

\* Mutant of BackupFits: always the card as it is.
BackupFitsNow(c) == backup[c] \in {NoCard, file[c]}

\* A backup from an earlier attempt must be the card as it is, or, of a card
\* that is migrated, the intact card without a slot.
BackupFits(c) ==
    IF file[c].slot = NoCard
    THEN backup[c] \in {NoCard, file[c]}
    ELSE Intact(backup[c]) /\ backup[c].slot = NoCard

PlanConsistent ==
    \A c, d \in DOMAIN Plan : c # d =>
        /\ Plan[c] # Plan[d]
        /\ Plan[c].id = Plan[d].id => Category[c] = Category[d]

\* All checks come before any write.
PlanAccepted ==
    /\ PlanConsistent
    /\ \A c \in DOMAIN Plan :
          /\ SlotFree(c, Plan[c])
          /\ Intact(file[c])
          /\ file[c].slot \in {NoCard, Plan[c]}
          /\ BackupFits(c)

StartMigration(p) ==
    /\ PlanAccepted
    /\ Take(p, [AtRest EXCEPT !.pc = "backup",
                            !.raw = [c \in DOMAIN Plan |-> file[c]], !.todo = DOMAIN Plan])
    /\ accepted' = TRUE
    /\ disturbed' = IF accepted THEN disturbed ELSE FALSE
    /\ UNCHANGED <<file, backup, indexed, faults, edits>>

Changes(p, c) == proc[p].raw[c].slot # Plan[c]

\* One loop after the other; each ends when it has no card left.
Advance(p, c, pc) ==
    proc' = [proc EXCEPT ![p] =
               IF @.todo = {c} THEN [@ EXCEPT !.pc = pc, !.todo = DOMAIN Plan]
               ELSE [@ EXCEPT !.todo = proc[p].todo \ {c}]]

BackUp(p, c) ==
    /\ proc[p].pc = "backup" /\ c \in proc[p].todo
    /\ backup' = IF Changes(p, c) /\ backup[c] = NoCard
                 THEN [backup EXCEPT ![c] = proc[p].raw[c]] ELSE backup
    /\ Advance(p, c, "write")
    /\ UNCHANGED <<file, indexed, lock, accepted, disturbed, faults, edits>>

\* The card must still be what was checked.
VerifyCard(p, c) ==
    /\ proc[p].pc = "write" /\ c \in proc[p].todo
    /\ IF file[c] = proc[p].raw[c]
       THEN /\ IF Changes(p, c)
               THEN proc' = [proc EXCEPT ![p].pc = "replace", ![p].card = c]
               ELSE Advance(p, c, "reindex")
            /\ UNCHANGED lock
       ELSE Release(p)
    /\ UNCHANGED <<file, backup, indexed, accepted, disturbed, faults, edits>>

\* _atomic_write
ReplaceCard(p) ==
    /\ proc[p].pc = "replace"
    /\ LET c == proc[p].card
       IN  /\ file' = [file EXCEPT ![c] = Migrated(proc[p].raw[c], Plan[c])]
           /\ proc' = [proc EXCEPT ![p] =
                         IF @.todo = {c}
                         THEN [@ EXCEPT !.pc = "reindex", !.card = NoCard, !.todo = DOMAIN Plan]
                         ELSE [@ EXCEPT !.pc = "write", !.card = NoCard, !.todo = proc[p].todo \ {c}]]
    /\ UNCHANGED <<backup, indexed, lock, accepted, disturbed, faults, edits>>

\* All cards of the plan are ingested in one call, which ends with an error
\* if a card is gone.
Reindex(p) ==
    /\ proc[p].pc = "reindex"
    /\ indexed' = IF \A c \in DOMAIN Plan : file[c] # NoCard
                THEN [c \in Card |-> IF c \in DOMAIN Plan THEN file[c] ELSE indexed[c]]
                ELSE indexed
    /\ Release(p)
    /\ UNCHANGED <<file, backup, accepted, disturbed, faults, edits>>

-----------------------------------------------------------------------------
(* Deaths and people *)

ImportDies(p) ==
    /\ proc[p].pc # "idle" /\ faults < MaxFaults
    /\ faults' = faults + 1
    /\ Release(p)
    /\ UNCHANGED <<file, backup, indexed, accepted, disturbed, edits>>

EditCard(c) ==
    /\ file[c] # NoCard /\ edits < MaxEdits
    /\ edits' = edits + 1
    /\ \E card \in {NoCard, [file[c] EXCEPT !.sealed = FALSE]} :
          file' = [file EXCEPT ![c] = card]
    /\ disturbed' = TRUE
    /\ UNCHANGED <<backup, indexed, lock, proc, accepted, faults>>

Import(p) == StartImport(p) \/ SaveCard(p) \/ IndexCard(p)

Migrate(p) ==
    \/ StartMigration(p) \/ ReplaceCard(p) \/ Reindex(p)
    \/ \E c \in DOMAIN Plan : BackUp(p, c) \/ VerifyCard(p, c)

ImportNext ==
    \/ \E p \in Proc : Import(p) \/ Migrate(p) \/ ImportDies(p)
    \/ \E c \in Card : EditCard(c)

ImportSpec == ImportInit /\ [][ImportNext]_importVars

-----------------------------------------------------------------------------
(* Properties *)

\* No two cards have one slot and the versions of an identity stay in one
\* category, across imports, migrations, their deaths, edits and deletions
\* (validate_slot, _migrate).
SlotsUnique == \A c \in Card : HasSlot(c) => SlotFree(c, file[c].slot)

\* A plan that was accepted is accepted again after any death, until it is
\* done and afterwards: nothing the interrupted attempt left makes the checks
\* refuse it (_migrate, "Repeating a completed or interrupted plan").
RepeatAccepted == accepted /\ ~disturbed => PlanAccepted

(* What imports and migrations leave can always be imported into and        *)
(* migrated further.                                                        *)
ImportsSound == SlotsUnique /\ RepeatAccepted

=============================================================================
