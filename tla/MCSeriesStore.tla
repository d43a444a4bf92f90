--------------------------- MODULE MCSeriesStore ---------------------------
(***************************************************************************)
(* A process that a rule watches and a disk, hours of two buckets.         *)
(***************************************************************************)
EXTENDS SeriesAnswers

Two     == 1..2
Three   == 1..3
AllFaults == {"lock", "crash", "full"}
OneDisk == {2}
OnlyTheProcess == {1}

\* Bound: of an exemption, an incident and a fault, two in a behaviour.
TwoOfThree == used.exempt + used.opens + used.faults <= 2
=============================================================================
