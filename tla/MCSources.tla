----------------------------- MODULE MCSources -----------------------------
(* The files of the library (SourceFiles), attachments that arrive in      *)
(* pieces (Uploads), imported cards (ImportCards) and the models that are  *)
(* held in memory (IdleModel) share no state: a behaviour is one of them,  *)
(* chosen at the start, and the others stand still.                        *)
EXTENDS SourceFiles, Uploads, ImportCards, IdleModel

VARIABLE scene

sourcesVars == <<scene, filesVars, uploadsVars, importVars, idleVars>>

MCCanonical == [t \in Text |-> None]
MCText == CHOOSE t \in Text : t \notin Malformed
MCFile == [s \in Sender |-> IF s = "x" THEN <<1, 2, 3>> ELSE <<4, 2>>]
MCCategory == [c \in Card |-> IF c = "c3" THEN "k2" ELSE "k1"]
MCSlot == {[id |-> "u", version |-> v] : v \in 1 .. 2}
MCPlan == [c \in {"c1", "c2"} |-> [id |-> "u", version |-> IF c = "c1" THEN 1 ELSE 2]]

\* Only in the scene that plays do inputs vary; the tree starts full.
SourcesInit ==
    /\ scene \in {"files", "upload", "import", "model"}
    /\ FilesInit /\ UploadsInit /\ ImportInit /\ IdleInit
    /\ \A f \in Path : disk[f].text = IF scene = "files" THEN MCText ELSE None

SourcesNext ==
    /\ UNCHANGED scene
    /\ \/ scene = "files" /\ FilesNext /\ UNCHANGED <<uploadsVars, importVars, idleVars>>
       \/ scene = "upload" /\ UploadsNext /\ UNCHANGED <<filesVars, importVars, idleVars>>
       \/ scene = "import" /\ ImportNext /\ UNCHANGED <<filesVars, uploadsVars, idleVars>>
       \/ scene = "model" /\ IdleNext /\ UNCHANGED <<filesVars, uploadsVars, importVars>>

\* A file that is moved in is older than every marker.
ArrivalsOld == \A f \in Backdated : disk[f].mtime = 0

\* The fairness of FilesFairSpec and IdleFairSpec, each for its scene.
SourcesSpec ==
    /\ SourcesInit /\ [][SourcesNext]_sourcesVars
    /\ WF_filesVars(scene = "files" /\ Watching)
    /\ WF_idleVars(scene = "model" /\ Tick) /\ SF_idleVars(scene = "model" /\ Expire)
    /\ \A u \in User : WF_idleVars(scene = "model" /\ (Load(u) \/ Leave(u)))
============================================================================
