--------------------------- MODULE MCEventIngest ---------------------------
(* Small instances of the three event adapters under the event engine.     *)
EXTENDS EventSources, TLC

CONSTANTS a, b

Symmetry == Permutations(Text)

SmallOthers == [text |-> {a}, log |-> 3, faults |-> 2, restarts |-> 1]
Gaps        == {0, 3}

\* Two texts are alike, so the first entry may have the first name.  (A
\* symmetry TLC must not be told of when it checks liveness; as nobody has
\* to log, no fair behaviour ends here that would have gone on.)
NamedInOrder ==
    /\ journal # <<>> => journal[1] = a
    /\ macLog # <<>> => macLog[1].says = a
=============================================================================
