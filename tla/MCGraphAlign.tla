---------------------------- MODULE MCGraphAlign ----------------------------
\* GraphAlign on small instances: processes and texts are interchangeable;
\* only serial behaviours use the third slot.
EXTENDS GraphAlign, TLC

Interchangeable == Permutations(Proc) \cup Permutations(Text)

Bounded ==
    ~serial => \A l \in {es[d] : d \in Doc} \cup {job[p].new : p \in Proc} :
                  DOMAIN l \subseteq {0, 1}
=============================================================================
