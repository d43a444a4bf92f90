----------------------------- MODULE MCReadSide -----------------------------
(***************************************************************************)
(* A disk with four buckets and a learned level, a process with hourly     *)
(* rows and two buckets, and a series that does not exist yet; or a        *)
(* dashboard page over one external monitor, whose second definition       *)
(* leaves its collection's health to the runtime's rule.                   *)
(***************************************************************************)
EXTENDS Readers

Disk    == [id |-> 1, key |-> 1, durable |-> TRUE]
Process == [id |-> 2, key |-> 2, durable |-> FALSE]
Later   == [id |-> 3, key |-> 3, durable |-> FALSE]

Three == {Disk, Process, Later}

At(sid, at, value) == [sid |-> sid, at |-> at, value |-> value]
State(at, level)   == [at |-> at, level |-> level]

Tables ==
    [series |-> {Disk, Process}, samples |-> {},
     rollup5m |-> {At(1, 1, 0), At(1, 2, 64), At(1, 3, 0), At(1, 4, 64),
                   At(2, 3, 0), At(2, 4, 64)},
     rollup1h |-> {At(1, 1, 32), At(2, 1, 0), At(2, 2, 64)},
     base |-> {[sid |-> 1, level |-> 40, updates |-> 4, at |-> 4, half |-> 1],
               [sid |-> 2, level |-> 32, updates |-> 2, at |-> 4, half |-> 1]},
     tagged |-> {1}]

Past == [s \in 1..3 |->
    CASE s = 1 -> {State(1, 0), State(2, 32), State(3, 16), State(4, 40)}
      [] s = 2 -> {State(3, 0), State(4, 32)}
      [] s = 3 -> {}]

TwoValues == {0, 64}
OneOrTwo  == {1, 2}
Ranges    == {1, 4}
AllOrDisk == {{1, 2, 3}, {1}}
Times     == 1..4

Ran(state, verdict, measured) ==
    [state |-> state, verdict |-> verdict, measured |-> measured]
Owners == [threshold |-> "down", plain |-> "@check-health"]
Outcomes ==
    [threshold |-> {Ran(3, "TRUE", FALSE), Ran(0, "TRUE", TRUE),
                    Ran(0, "FALSE", TRUE), Ran(0, "UNKNOWN", FALSE)},
     plain     |-> {Ran(3, "TRUE", FALSE), Ran(0, "FALSE", TRUE)}]
Before == {-2}
=============================================================================
