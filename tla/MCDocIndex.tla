----------------------------- MODULE MCDocIndex -----------------------------
(* DocIndex with two documents, of which only one can carry its archive    *)
(* marker in the file.  Either the second does not exist, and the first    *)
(* has all texts, slots and stamps; or both do, with one chunk, one text   *)
(* and one stamp each.                                                     *)
EXTENDS DocIndex

Plain == CHOOSE t \in Text : TRUE
OneStamp == CHOOSE m \in Stamp : TRUE
Other == Doc \ Managed

Alone ==
    /\ \A d \in Other : file[d] = None /\ es[d] = NoChunks /\ rows[d] = None
    /\ \A w \in Writer : (job[w].todo \cup job[w].seen) \cap Other = {}

Small ==
    \A d \in Doc :
        /\ DOMAIN es[d] \subseteq {0}
        /\ \A s \in DOMAIN es[d] : es[d][s].text = Plain /\ es[d][s].arch \in {None, OneStamp}
        /\ file[d] # None =>
              /\ DOMAIN file[d].body \subseteq {0}
              /\ \A s \in DOMAIN file[d].body : file[d].body[s] = Plain
              /\ file[d].arch \in {None, OneStamp}

Bounded == Alone \/ Small
=============================================================================
