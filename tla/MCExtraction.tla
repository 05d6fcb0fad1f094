---------------------------- MODULE MCExtraction ----------------------------
(* The background worker (ExtractionWorker) and the commands that extract  *)
(* by hand (ExtractionRuns) over one index, its markers and the flag of a  *)
(* rebuild.  A behaviour has one of them at work, chosen at the start: to  *)
(* each the other is somebody who stores concepts or writes chunks, as the *)
(* actions of both modules have it.                                        *)
EXTENDS ExtractionWorker, ExtractionRuns

VARIABLE scene

ownOfWorker == <<visible, seq, retry, cache, job>>
ownOfRuns == <<runs, proc, kept>>
extractionVars == <<scene, workerVars, ownOfRuns>>

WorkerScene == WorkerInit /\ runs = [r \in Run |-> None] /\ kept = [r \in Run |-> {}]
                          /\ proc = [p \in Proc |-> Off]

CommandScene ==
    /\ RunsInit
    /\ visible = Nothing /\ seq = 0 /\ retry = <<>> /\ job = Idle
    /\ cache = [sources |-> Nothing, snapshot |-> Unsettled]

\* Bounds: the worker, and commands that writes and resets come between, have
\* two chunks; a third makes up the queue of a rebuild that nothing disturbs but
\* outages, interrupts and deaths.
TwoChunks(index) == \A c \in Chunk : c > 2 => index[c] = None
Disturbed == {"worker", "commands"}

ExtractionInit ==
    /\ scene \in {"worker", "commands", "queue"}
    /\ IF scene = "worker" THEN WorkerScene ELSE CommandScene
    /\ IF scene \in Disturbed THEN TwoChunks(src)
       ELSE rebuild /\ src \in [Chunk -> Version]

ExtractionNext ==
    /\ UNCHANGED scene
    /\ IF scene = "worker" THEN WorkerNext /\ UNCHANGED ownOfRuns
       ELSE RunsNext /\ UNCHANGED ownOfWorker
    /\ IF scene \in Disturbed THEN TwoChunks(src') ELSE UNCHANGED writes

Extracts(p) == scene # "worker" /\ Extraction(p) /\ UNCHANGED ownOfWorker
StartsAgain(p) == scene # "worker" /\ StartRebuild(p) /\ UNCHANGED ownOfWorker

\* The fairness of WorkerFairSpec and RunsFairSpec, each for its scene.
ExtractionSpec ==
    /\ ExtractionInit /\ [][ExtractionNext]_extractionVars
    /\ WF_workerVars(scene = "worker" /\ Worker) /\ WF_workerVars(scene = "worker" /\ Advance)
    /\ \A p \in Proc :
          /\ WF_runsVars(Extracts(p))
          /\ WF_runsVars(StartsAgain(p))

\* See ExtractionWorker: every chunk that can be extracted is in the end.
WorkerExtracts == scene = "worker" => EveryChunkExtracted

\* See ExtractionRuns: a rebuild gets to every chunk past those that fail, as
\* long as fewer of them stand before it than end a run.
EverExtracted == scene # "worker" => []<>RebuildGetsThrough
=============================================================================
