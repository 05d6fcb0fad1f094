--------------------------- MODULE ExtractionQueue ---------------------------
(***************************************************************************)
(* What all that extracts concepts works on.  There is no table of tasks:  *)
(* the chunk index is the queue, and what to do is the difference between  *)
(* its chunks and the markers of the graph (graph/services.py), but for a  *)
(* rebuild of the evidence, which drops the markers and is active until it *)
(* is finished.                                                            *)
(*                                                                         *)
(* A version stands for the content hash and input hash of a chunk.        *)
(***************************************************************************)
EXTENDS Naturals, FiniteSets

CONSTANTS
    Chunk,      \* chunks, numbered in the order of doc_id and chunk_index
    Version,
    Poison,     \* versions whose extraction always fails
    MaxFaults,  \* bound: outages of Elasticsearch or the model, interrupts, deaths
    None

ASSUME ChunkAssumption == Chunk \subseteq Nat /\ IsFiniteSet(Chunk)
ASSUME VersionAssumption == Poison \subseteq Version /\ None \notin Version
ASSUME FaultsAssumption == MaxFaults \in Nat

VARIABLES
    src,      \* the chunk index: src[c], a version or None
    marked,   \* extracted_chunks: marked[c], a version or None
    rebuild,  \* an explicit rebuild of the evidence is active
    writes,   \* writes to the index and resets so far
    faults

Source == Version \cup {None}
Nothing == [c \in Chunk |-> None]

\* scan_pending_chunks.  Who writes chunks refreshes the index in the same call
\* (store.py 389), so a search finds them; writes that are not refreshed yet
\* are in ExtractionWorker, whose discovery refreshes for that reason.
Pending == {c \in Chunk : src[c] # None /\ src[c] # marked[c]}
=============================================================================
