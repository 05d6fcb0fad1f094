----------------------------- MODULE ActiveStore -----------------------------
(***************************************************************************)
(* What the embedding runtime promises its callers: one store of chunks,   *)
(* in the vector space of one model.  A completed write stays; the model   *)
(* may be switched at any time without a chunk appearing or vanishing, and *)
(* every chunk is always in the space of the current model.                *)
(***************************************************************************)
CONSTANTS Chunk, Generation

VARIABLES
    current,   \* the generation (model selection and stores) in use
    content    \* the chunks a reader of the current stores finds

TypeOK == current \in Generation /\ content \subseteq Chunk

Init == current \in Generation /\ content = {}

Write(c) == content' = content \cup {c} /\ UNCHANGED current

Switch(g) == current' = g /\ UNCHANGED content

Next == (\E c \in Chunk : Write(c)) \/ (\E g \in Generation : Switch(g))

Spec == Init /\ [][Next]_<<current, content>>
=============================================================================
