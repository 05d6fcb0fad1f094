--------------------------- MODULE MCConceptNames ---------------------------
\* Names for TLC.
EXTENDS ConceptNames

CONSTANTS a, x

\* Two names, of which one spells the slug the other gets in x; and one.
MCName == {<<a>>, <<a, <<x, 1>>>>}
MCOneName == {<<a>>}
=============================================================================
