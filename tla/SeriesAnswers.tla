--------------------------- MODULE SeriesAnswers ---------------------------
(***************************************************************************)
(* The tables that SeriesStore fills and empties, as the queries read them *)
(* between two commits.                                                    *)
(***************************************************************************)
EXTENDS SeriesStore

CONSTANT RawSpan  \* _RAW_MAX_SPAN_S

Read == INSTANCE Queries WITH
    RawRecent <- RawKeep, RawMaxSpan <- RawSpan, MinUpdates <- 1,
    Keep5mDurable <- R5KeepDurable, Keep5mProcess <- R5KeepProcess

AsRead ==
    [series |-> {[id |-> s, key |-> db.series[s],
                  durable |-> db.series[s] \in Durable] :
                    s \in {q \in Sid : db.series[q] # Nobody}},
     samples |-> db.raw, rollup5m |-> db.r5, rollup1h |-> db.r1]

Cohorts == {Entity} \cup {{e} : e \in Entity}

\* The time by which a tier knows a sample, where it is to know it.
Slot(tier, p) ==
    CASE tier = "raw" -> p[2]
      [] tier = "5m"  -> Floor(p[2], Bucket)
      [] tier = "1h"  -> Floor(p[2], Hour)
Settled(tier, p) ==
    CASE tier = "raw" -> TRUE
      [] tier = "5m"  -> p \in OnTime("5m") /\ Floor(p[2], Bucket) < db.cur5
      [] tier = "1h"  -> p \in OnTime("1h") /\ Floor(p[2], Hour) < db.cur1 /\ InR1(p)

(* DM-06: whatever range is asked for, the tier that is chosen still holds *)
(* every sample of the range for every series of the answer, also where    *)
(* disks and processes are asked for together: no answer is cut short      *)
(* because a window ended before it.  Left out are the latest samples,     *)
(* which the tier's rollup has not come to yet, and those it will never    *)
(* have, since their window ended in a downtime before it could            *)
(* (HistoryIsKept): an answer over that downtime has a hole.               *)
AnswersAreWhole ==
    ~degraded /\ phase = "idle" /\ taken # {} =>
      \A d \in {AsRead}, es \in Cohorts :
        \A cohort \in {{s \in d.series : s.key \in es}} :
          \A p \in taken, tier \in {"raw", "5m", "1h"} :
            /\ p[1] \in es
            /\ Settled(tier, p)
            /\ \E start \in 1..Slot(tier, p) :
                  Read!Resolution(cohort, now, start, now) = tier
            => \E s \in cohort :
                 \E r \in Read!InRange(d, tier, s.id, Slot(tier, p), now) :
                    p \in r.of
=============================================================================
