--------------------------- MODULE MCEdgeEvidence ---------------------------
(* The instance of EdgeEvidence for TLC: three concepts and relations that  *)
(* a merge can make equal, turn around, or close to a cycle.                *)
EXTENDS EdgeEvidence, TLC

ChunkSymmetry == Permutations(Chunk)

\* A behaviour is followed up to the first race: from there on the properties
\* of what is served promise nothing before the next switch.
RacesBounded == ~raced

\* Markers for other versions are followed while no purge waits, which looks at
\* no marker; and a behaviour that starts with legacy edges as long as the
\* markers are for what their slots hold and no call waits.
VersionsBounded == current = marked \/ purge = None
LegacyBounded == clean \/ (current = marked /\ job = None /\ purge = None)

MCAsserted ==
    {<<1, 2, "is_a">>, <<2, 1, "is_a">>, <<3, 2, "is_a">>, <<2, 1, "related_to">>}

MCOvertaken == {<<1, 2, "is_a">>}

MCLegacyEdge == {<<1, 3, "example_of">>, <<1, 3, "is_a">>}
=============================================================================
