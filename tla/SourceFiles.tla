---------------------------- MODULE SourceFiles ----------------------------
(***************************************************************************)
(* The Markdown files of one tree and those who change and follow them:    *)
(* write_and_ingest (operations.py) behind write_file, patch_file and the  *)
(* write command, a person with an editor, and the watch command (cli.py), *)
(* which polls the tree and ingests what changed.  `stale' (cli.py) tells  *)
(* which files changed after the marker of the last sync.                  *)
(*                                                                         *)
(* A text is a model value; two texts are equal when their hashes are.     *)
(* The clock ticks with every change of a file.  A file that is written    *)
(* has the modification time of that moment; one that is moved, copied     *)
(* with its times or synchronized from another device keeps an older one.  *)
(* The signature of a file (mtime, size) tells its changes apart: that it  *)
(* comes back to one it had is left out.  The index is the text a document *)
(* was last ingested from: how a delta reaches it is the subject of        *)
(* DocIndex.                                                               *)
(***************************************************************************)
EXTENDS Naturals, FiniteSets

CONSTANTS
    Path,        \* documents of the tree
    Curated,     \* those whose path is subject to the strict policy
    Incoming,    \* bound: those whose file may be moved in from elsewhere
    Odd,         \* those whose file name is not in normal form (NFC)
    Text,        \* what a file may hold
    Malformed,   \* texts whose frontmatter the policy rejects
    Canonical,   \* Text -> canonical_id or None
    Writer,      \* processes that run write_and_ingest
    Threshold,   \* PRUNE_CONFIRM_THRESHOLD
    MaxClock,    \* bound on the writes to files
    MaxStarts,   \* bound on the starts of watch
    None

ASSUME FilesAssumption ==
    /\ Curated \cup Incoming \cup Odd \subseteq Path /\ Malformed \subseteq Text
    /\ None \notin Text /\ "blank" \notin Text
    /\ {Threshold, MaxClock, MaxStarts} \subseteq Nat

VARIABLES
    disk,     \* [Path -> [text, at, mtime]]: None no file, "blank" an empty one;
              \* at, the moment it changed, stands for its signature
    index,    \* [Path -> Text or None]: the document in the chunk index
    clock,    \* time of the last change of a file
    marker,   \* last_sync.json
    job,      \* [Writer -> what the writer does]
    watch,    \* the watch process
    missed    \* documents that differed from the index where watch cannot see it

filesVars == <<disk, index, clock, marker, job, watch, missed>>

Present(f) == disk[f].text # None

\* What ingesting a file leaves in the index: an empty file is no document.
Shown(text) == IF text \in Text THEN text ELSE None

Off == [pc |-> "off", since |-> 0, snap |-> [f \in Path |-> 0],
        new |-> [f \in Path |-> 0], todo |-> {}, read |-> [f \in Path |-> None],
        applied |-> FALSE, starts |-> 0]

\* base: the text whose hash was given, None without a hash
Idle == [pc |-> "idle", path |-> None, text |-> None, base |-> None]

Job ==
    [pc: {"idle", "checked", "open", "ingest"}, path: Path \cup {None},
     text: Text \cup {None}, base: Text \cup {None}]

TypeOK ==
    /\ disk \in [Path -> [text: Text \cup {None, "blank"}, at: 0..MaxClock, mtime: 0..MaxClock]]
    /\ index \in [Path -> Text \cup {None}]
    /\ clock \in 0..MaxClock /\ marker \in 0..MaxClock
    /\ job \in [Writer -> Job]
    /\ watch.pc \in {"off", "reconcile", "baseline", "watching", "poll", "removed"}
    /\ watch.todo \subseteq Path /\ missed \subseteq Path

FilesInit ==
    /\ disk \in [Path -> {[text |-> t, at |-> 0, mtime |-> 0] : t \in Text \cup {None}}]
    /\ index = [f \in Path |-> Shown(disk[f].text)]
    /\ clock = 0 /\ marker = 0
    /\ job = [w \in Writer |-> Idle]
    /\ watch = Off
    /\ missed = {}

-----------------------------------------------------------------------------
(* Writing a document *)

Place(f, text, mtime) ==
    /\ clock < MaxClock
    /\ clock' = clock + 1
    /\ disk' = [disk EXCEPT ![f] = [text |-> text, at |-> clock + 1, mtime |-> mtime]]

Put(f, text) == Place(f, text, clock + 1)

\* _canonical_id_conflicts: other files of the tree with the same canonical_id
Conflicts(f, text) ==
    {g \in Path \ {f} : /\ disk[g].text \in Text
                        /\ Canonical[text] # None
                        /\ Canonical[disk[g].text] = Canonical[text]}

\* resolve_document_policy raises only for curated paths in strict mode
PolicyError(f, text, strict) ==
    strict /\ f \in Curated /\ (text \in Malformed \/ Conflicts(f, text) # {})

\* The optimistic lock: a hash that was given must be that of the file.
LockError(f, hash) == hash # None /\ hash # disk[f].text

\* Every check comes before the file is touched; a refused call changes nothing.
CheckWrite(w) ==
    /\ job[w].pc = "idle"
    /\ \E f \in Path, t \in Text, hash \in Text \cup {None}, strict \in BOOLEAN :
          /\ ~LockError(f, hash) /\ ~PolicyError(f, t, strict)
          /\ job' = [job EXCEPT ![w] = [pc |-> "checked", path |-> f, text |-> t, base |-> hash]]
    /\ UNCHANGED <<disk, index, clock, marker, watch, missed>>

\* patch_file: a part of the text that is there is replaced, under its hash.
CheckPatch(w) ==
    /\ job[w].pc = "idle"
    /\ \E f \in Path, t \in Text, strict \in BOOLEAN :
          /\ disk[f].text \in Text /\ ~PolicyError(f, t, strict)
          /\ job' = [job EXCEPT ![w] = [pc |-> "checked", path |-> f, text |-> t,
                                        base |-> disk[f].text]]
    /\ UNCHANGED <<disk, index, clock, marker, watch, missed>>

\* write_text opens the file for writing, which empties it, and fills it.
OpenFile(w) ==
    /\ job[w].pc = "checked"
    /\ Put(job[w].path, "blank")
    /\ job' = [job EXCEPT ![w].pc = "open", ![w].base = None]
    /\ UNCHANGED <<index, marker, watch, missed>>

FillFile(w) ==
    /\ job[w].pc = "open"
    /\ Put(job[w].path, job[w].text)
    /\ \E ingest \in BOOLEAN :
          job' = [job EXCEPT ![w] =
                    IF ingest THEN [Idle EXCEPT !.pc = "ingest", !.path = job[w].path] ELSE Idle]
    /\ UNCHANGED <<index, marker, watch, missed>>

\* ingest_files reads the file again, whoever wrote it last.
IngestWritten(w) ==
    /\ job[w].pc = "ingest"
    /\ index' = IF Present(job[w].path)
                THEN [index EXCEPT ![job[w].path] = Shown(disk[job[w].path].text)]
                ELSE index
    /\ job' = [job EXCEPT ![w] = Idle]
    /\ UNCHANGED <<disk, clock, marker, watch, missed>>

WriterDies(w) ==
    /\ job[w].pc # "idle"
    /\ job' = [job EXCEPT ![w] = Idle]
    /\ UNCHANGED <<disk, index, clock, marker, watch, missed>>

\* Somebody edits or deletes a file with another program.
Edit(f) ==
    /\ \E t \in Text \cup {None} : t # disk[f].text /\ Put(f, t)
    /\ UNCHANGED <<index, marker, job, watch, missed>>

\* A file is moved or copied into the tree, or synchronized, with its times.
Arrive(f) ==
    /\ \E t \in Text, mtime \in 0..clock : t # disk[f].text /\ Place(f, t, mtime)
    /\ UNCHANGED <<index, marker, job, watch, missed>>

-----------------------------------------------------------------------------
(* The watch command *)

\* The signature of every file of the tree, 0 where there is none.
Snapshot == [f \in Path |-> IF Present(f) THEN disk[f].at + 1 ELSE 0]

\* snapshot_diff
ChangedFiles(old, new) == {f \in Path : new[f] # 0 /\ new[f] # old[f]}
RemovedFiles(old, new) == {f \in Path : old[f] # 0 /\ new[f] = 0}

\* A file that is gone when it is read ends the command with an error.
Die == watch' = [Off EXCEPT !.starts = watch.starts]

\* Start: reconcile notes the time and lists the files.
StartWatch ==
    /\ watch.pc = "off" /\ watch.starts < MaxStarts
    /\ watch' = [Off EXCEPT !.pc = "reconcile", !.since = clock,
                            !.todo = {f \in Path : Present(f)},
                            !.starts = watch.starts + 1]
    /\ UNCHANGED <<disk, index, clock, marker, job, missed>>

\* ingest_files reads one file after the other, deletes the document of an
\* empty one, and applies the deltas of the others at the end.
ReadFile(f) ==
    /\ watch.pc \in {"reconcile", "poll"} /\ f \in watch.todo
    /\ IF Present(f)
       THEN /\ watch' = [watch EXCEPT !.todo = @ \ {f}, !.read[f] = disk[f].text]
            /\ index' = IF Shown(disk[f].text) = None
                        THEN [index EXCEPT ![f] = None] ELSE index
       ELSE Die /\ UNCHANGED index
    /\ UNCHANGED <<disk, clock, marker, job, missed>>

Applied == [f \in Path |-> IF Shown(watch.read[f]) = None THEN index[f] ELSE watch.read[f]]

\* End of reconcile: the deltas are written, then the marker; documents
\* without a file are only reported.
EndReconcile ==
    /\ watch.pc = "reconcile" /\ watch.todo = {}
    /\ index' = Applied
    /\ marker' = watch.since
    /\ watch' = [watch EXCEPT !.pc = "baseline", !.read = Off.read]
    /\ UNCHANGED <<disk, clock, job, missed>>

\* The first snapshot: what differs from the index now looks unchanged later.
TakeBaseline ==
    /\ watch.pc = "baseline"
    /\ watch' = [watch EXCEPT !.pc = "watching", !.snap = Snapshot]
    /\ missed' = {f \in Path : index[f] # Shown(disk[f].text)}
    /\ UNCHANGED <<disk, index, clock, marker, job>>

\* Documents whose file came and went between two snapshots.
Unseen == {f \in Path : watch.snap[f] = 0 /\ ~Present(f) /\ index[f] # None}

StartPoll ==
    /\ watch.pc = "watching"
    /\ Snapshot # watch.snap \/ Unseen \ missed # {}
    /\ missed' = missed \cup Unseen
    /\ watch' = [watch EXCEPT !.pc = "poll", !.since = clock, !.new = Snapshot,
                              !.todo = ChangedFiles(watch.snap, Snapshot),
                              !.applied = ChangedFiles(watch.snap, Snapshot) # {}]
    /\ UNCHANGED <<disk, index, clock, marker, job>>

EndIngest ==
    /\ watch.pc = "poll" /\ watch.todo = {}
    /\ index' = Applied
    /\ missed' = missed \ ChangedFiles(watch.snap, watch.new)
    /\ watch' = [watch EXCEPT !.pc = "removed", !.read = Off.read]
    /\ UNCHANGED <<disk, clock, marker, job>>

\* Deletions: all of them up to the threshold, none beyond it.  The document
\* is looked up under the name of the file as it is, while ingest indexed it
\* under the name in normal form.
DeletedIds ==
    LET removed == RemovedFiles(watch.snap, watch.new)
    IN  IF Cardinality(removed) > Threshold THEN {} ELSE removed \ Odd

\* Mutant of EndPoll: the next poll compares with the tree as it is now.
EndPollRescans ==
    /\ watch.pc = "removed"
    /\ index' = [f \in Path |-> IF f \in DeletedIds THEN None ELSE index[f]]
    /\ missed' = (missed \ DeletedIds) \cup
                 {f \in RemovedFiles(watch.snap, watch.new) \ DeletedIds : index[f] # None}
    /\ marker' = IF watch.applied THEN watch.since ELSE marker
    /\ watch' = [watch EXCEPT !.pc = "watching", !.snap = Snapshot, !.new = Off.new,
                              !.applied = FALSE]
    /\ UNCHANGED <<disk, clock, job>>

\* Mutant of EndPoll: the marker is the time of its end.
EndPollNow ==
    /\ watch.pc = "removed"
    /\ index' = [f \in Path |-> IF f \in DeletedIds THEN None ELSE index[f]]
    /\ missed' = (missed \ DeletedIds) \cup
                 {f \in RemovedFiles(watch.snap, watch.new) \ DeletedIds : index[f] # None}
    /\ marker' = IF watch.applied THEN clock ELSE marker
    /\ watch' = [watch EXCEPT !.pc = "watching", !.snap = watch.new, !.new = Off.new,
                              !.applied = FALSE]
    /\ UNCHANGED <<disk, clock, job>>

EndPoll ==
    /\ watch.pc = "removed"
    /\ LET removed == RemovedFiles(watch.snap, watch.new)
           handled == removed # {} /\ Cardinality(removed) <= Threshold
       IN  /\ index' = [f \in Path |-> IF f \in DeletedIds THEN None ELSE index[f]]
           /\ missed' = (missed \ DeletedIds) \cup
                        {f \in removed \ DeletedIds : index[f] # None}
           /\ marker' = IF watch.applied \/ handled THEN watch.since ELSE marker
    /\ watch' = [watch EXCEPT !.pc = "watching", !.snap = watch.new, !.new = Off.new,
                              !.applied = FALSE]
    /\ UNCHANGED <<disk, clock, job>>

StopWatch ==
    /\ watch.pc = "watching"
    /\ Die
    /\ UNCHANGED <<disk, index, clock, marker, job, missed>>

Watching ==
    \/ \E f \in Path : ReadFile(f)
    \/ EndReconcile \/ TakeBaseline \/ StartPoll \/ EndIngest \/ EndPoll

Writing(w) ==
    \/ CheckWrite(w) \/ CheckPatch(w) \/ OpenFile(w) \/ FillFile(w)
    \/ IngestWritten(w) \/ WriterDies(w)

FilesNext ==
    \/ \E w \in Writer : Writing(w)
    \/ \E f \in Path : Edit(f)
    \/ \E f \in Incoming : Arrive(f)
    \/ StartWatch \/ Watching \/ StopWatch

FilesSpec == FilesInit /\ [][FilesNext]_filesVars

\* watch runs until it is stopped; nothing is assumed of writers and people.
FilesFairSpec == FilesSpec /\ WF_filesVars(Watching)

-----------------------------------------------------------------------------
(* Properties *)

\* What count_stale reports: files modified after the marker.
Stale == {f \in Path : Present(f) /\ disk[f].mtime > marker}

\* Files that came with an older modification time than that of their arrival.
Backdated == {f \in Path : disk[f].mtime # disk[f].at}

Differs(f) == index[f] # Shown(disk[f].text)

\* A file whose text is not the one in the index is reported by `stale',
\* through failed polls, files emptied under way and edits during a scan,
\* unless it changed between the reading of reconcile and the first snapshot,
\* its deletion was held back, or it came with an older modification time:
\* modification times are all that count_stale looks at (cli.py count_stale,
\* watch; ingest.py reconcile).
StaleTells ==
    \A f \in Path \ Backdated :
        Differs(f) /\ Present(f) /\ f \notin missed => f \in Stale \/ watch.pc = "baseline"

\* While watch runs, the index catches up with every file it does not miss
\* for the first two reasons above, those with an older modification time
\* included, whatever writers and editors do in between, once they pause
\* (cli.py watch).
WatchCatchesUp ==
    \A f \in Path : []<>(watch.pc = "off" \/ f \in missed \/ ~Differs(f) \/ clock < MaxClock)

\* The optimistic lock as write_file documents it: a write that named the
\* hash of what it replaces replaces nothing else.
NoLostUpdate ==
    [][\A w \in Writer :
          job[w].pc = "checked" /\ job'[w].pc = "open" /\ job[w].base # None
          => disk[job[w].path].text = job[w].base]_filesVars
=============================================================================
