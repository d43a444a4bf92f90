------------------------------ MODULE StormGuard ------------------------------
(***************************************************************************)
(* The storm guard of the event engine: of what one provider wants stored, *)
(* at most StormLimit events a minute are; what comes after them is only   *)
(* counted, until the guard closes the storm and reports the count.        *)
(*                                                                         *)
(* src/ftmon/engine/events.py (_StormState, _storm_suppressed,             *)
(* _close_quiet_storms).                                                   *)
(***************************************************************************)
EXTENDS Integers

CONSTANTS StormLimit,   \* STORM_STORED_PER_MIN
          MinuteTicks   \* units of the clock in a minute

ASSUME StormAssumption == StormLimit \in Nat /\ MinuteTicks \in Nat \ {0}

VARIABLES now,    \* wall clock of the last tick
          storm,  \* _storms[source, provider]
          books   \* ghost: what this process was offered, kept and told

guardVars == <<now, storm, books>>

Bucket(t) == t \div MinuteTicks

NoStorm == [bucket |-> -1, stored |-> 0, active |-> FALSE, suppressed |-> 0]
NoBooks == [offered |-> 0, kept |-> 0, told |-> 0, minute |-> -1, inMinute |-> 0]

(* Mutant: every tick has the whole limit. *)
TurnedEachTick(st, t) == [st EXCEPT !.bucket = Bucket(t), !.stored = 0]
(* The first candidate of a new minute starts its count. *)
Turned(st, t) ==
    IF Bucket(t) = st.bucket THEN st
    ELSE [st EXCEPT !.bucket = Bucket(t), !.stored = 0]

Room(st) == IF st.active \/ st.stored > StormLimit THEN 0
            ELSE StormLimit - st.stored

KeptOf(st, n, t) ==
    IF n = 0 THEN 0
    ELSE IF n < Room(Turned(st, t)) THEN n ELSE Room(Turned(st, t))

(* _storm_suppressed, for the n candidates of one tick.                    *)
Offered(st, n, t) ==
    LET s == Turned(st, t)
    IN CASE n = 0 -> st
         [] n > 0 /\ s.active -> [s EXCEPT !.suppressed = @ + n]
         [] n > 0 /\ ~s.active /\ n <= Room(s) -> [s EXCEPT !.stored = @ + n]
         [] OTHER -> [s EXCEPT !.stored = StormLimit + 1, !.active = TRUE,
                               !.suppressed = n - Room(s)]

(* _close_quiet_storms: the storm is over at the first tick of a minute in *)
(* which no candidate came before or with that tick.                       *)
Quiet(st, t) == st.active /\ Bucket(t) > st.bucket
Closed(st, t) == IF Quiet(st, t)
                 THEN [NoStorm EXCEPT !.bucket = Bucket(t)] ELSE st

(* One tick of the guard. *)
Guard(n, t) ==
    LET st == Offered(storm, n, t)
        kept == KeptOf(storm, n, t)
    IN /\ now' = t
       /\ storm' = Closed(st, t)
       /\ books' = [offered  |-> books.offered + n,
                    kept     |-> books.kept + kept,
                    told     |-> books.told + (IF Quiet(st, t)
                                               THEN st.suppressed ELSE 0),
                    minute   |-> Bucket(t),
                    inMinute |-> kept + (IF books.minute = Bucket(t)
                                         THEN books.inMinute ELSE 0)]

(* A new process knows of no storm. *)
GuardAnew(t) == now' = t /\ storm' = NoStorm /\ books' = NoBooks

GuardInit == now = 0 /\ storm = NoStorm /\ books = NoBooks

(* The clock moves forward. *)
GuardNext == \E t \in Nat : t > now /\ (GuardAnew(t) \/ \E n \in Nat : Guard(n, t))

GuardSpec == GuardInit /\ [][GuardNext]_guardVars
-----------------------------------------------------------------------------
(* DM-10: no more than StormLimit events of a provider are stored in one   *)
(* minute, whatever storms began or ended in it, ...                       *)
MinuteIsBounded == books.inMinute <= StormLimit

(* ... and none is lost from the count: everything offered is stored, told *)
(* by the report that closed its storm, or counted by the storm that is    *)
(* still on.                                                               *)
NothingUncounted == books.offered = books.kept + books.told + storm.suppressed

StormKeepsBooks == MinuteIsBounded /\ NothingUncounted
=============================================================================
