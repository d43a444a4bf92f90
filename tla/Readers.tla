------------------------------ MODULE Readers ------------------------------
(***************************************************************************)
(* Who reads the tables while the daemon writes: an assistant asks for     *)
(* metrics or for the pages of the baselines, or a browser asks for the    *)
(* dashboard.  The two share nothing but the database.                     *)
(***************************************************************************)
EXTENDS ReadSide

CONSTANTS StaleAfter, Interval, Versions, Owner, Runs, LastRuns, None,
          MaxNow, MaxEdits, MaxStarts, MaxAcks
VARIABLES
    side,  \* whose question it is: "assistant" or "page"
    file, daemon, tables, page, now, edits, acks

Dash == INSTANCE Dashboard

ASSUME PageAssumption == Dash!ConstantsMakeSense

\* One question at a time; what it is not about is fixed.
SomeOf(S) == CHOOSE x \in S : TRUE
shown == <<file, daemon, tables, page, now, edits, acks>>
ReadersInit ==
    /\ Dash!Init
    /\ \/ /\ side = "assistant" /\ ReadInit
          /\ file = SomeOf(Versions) /\ tables = Dash!Fresh
       \/ /\ side = "page"
          /\ db = [FirstTables EXCEPT !.base = {}] /\ bucket = FirstBucket
          /\ past = FirstPast /\ half = SomeOf(HalfLives) /\ writes = 0
          /\ call = Idle
ReadersNext ==
    /\ UNCHANGED side
    /\ \/ side = "assistant" /\ ReadNext /\ UNCHANGED shown
       \/ side = "page" /\ Dash!Next /\ UNCHANGED readVars
ReadersSpec == ReadersInit /\ [][ReadersNext]_<<readVars, shown, side>>

(* UI-14, UI-17, EC-11: a page claims nothing that was not so while it was *)
(* put together, and leaves no alarm out that was live all through it      *)
(* (Dashboard).                                                            *)
StatusIsEvidenced == side = "page" => Dash!StatusIsEvidenced
=============================================================================
