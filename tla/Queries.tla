------------------------------ MODULE Queries ------------------------------
(***************************************************************************)
(* What the read side makes of the tables (store/query.py): which tier     *)
(* answers a question, the pages of the baselines, the reversal of a       *)
(* learned level, the points of a chart.                                   *)
(*                                                                         *)
(* A database d is [series, samples, rollup5m, rollup1h, base].  A series  *)
(* is [id, key, durable], its key standing for (monitor, entity, metric)   *)
(* in the order of ORDER BY.  A row is [sid, at, value]; of a rollup, the  *)
(* value is the statistic asked for.  Times count five-minute buckets, and *)
(* a half life h stands for alpha = 1 - 2^-h.                              *)
(***************************************************************************)
EXTENDS Integers, FiniteSets, Sequences

CONSTANTS
    RawRecent, RawMaxSpan,         \* _RAW_RECENT_S, _RAW_MAX_SPAN_S
    Keep5mDurable, Keep5mProcess,  \* _R5M_KEEP_DURABLE_S, _R5M_KEEP_PROCESS_S
    MinUpdates                     \* _BASELINE_MIN_UPDATES

ASSUME QueryAssumption ==
    /\ {RawRecent, RawMaxSpan, Keep5mDurable, Keep5mProcess, MinUpdates}
        \subseteq Nat
    /\ Keep5mProcess <= Keep5mDurable

Least(a, b)   == IF a <= b THEN a ELSE b
LOCAL Size(a)       == IF a < 0 THEN -a ELSE a
LOCAL CeilDiv(a, b) == (a + b - 1) \div b
LOCAL First(s, n)   == SubSeq(s, 1, Least(n, Len(s)))

\* ORDER BY, of records whose field at (or key) differs.
ByTime(rows) ==
    [i \in 1..Cardinality(rows) |->
        CHOOSE r \in rows : Cardinality({q \in rows : q.at < r.at}) = i - 1]
ByKey(rows) ==
    [i \in 1..Cardinality(rows) |->
        CHOOSE r \in rows : Cardinality({q \in rows : q.key < r.key}) = i - 1]
-----------------------------------------------------------------------------
(* Tiers (DM-06) *)

\* Mutant: one durable member speaks for the cohort.
AnyDurable(cohort) == \E s \in cohort : s.durable

\* _cohort_all_durable; no series at all counts as a mixed cohort.
AllDurable(cohort) == cohort # {} /\ \A s \in cohort : s.durable

\* _resolution: by the age of the oldest point asked for.
Resolution(cohort, now, start, end) ==
    IF start >= now - RawRecent /\ end - start <= RawMaxSpan THEN "raw"
    ELSE IF start >= now - (IF AllDurable(cohort) THEN Keep5mDurable
                            ELSE Keep5mProcess) THEN "5m"
    ELSE "1h"

TierTable(d, tier) ==
    CASE tier = "raw" -> d.samples
      [] tier = "5m"  -> d.rollup5m
      [] tier = "1h"  -> d.rollup1h

InRange(d, tier, sid, from, to) ==
    {r \in TierTable(d, tier) : r.sid = sid /\ from <= r.at /\ r.at <= to}

\* list_observed_series_entities: a series without a row in range is left out.
Observed(d, cohort, tier, from, to) ==
    ByKey({s \in cohort : InRange(d, tier, s.id, from, to) # {}})

\* series_point_budget
PointBudget(d, tier, sid, from, to, max) ==
    Least(Cardinality(InRange(d, tier, sid, from, to)), max)
-----------------------------------------------------------------------------
(* Downsampling *)

Total(s) ==
    LET sum[i \in 0..Len(s)] == IF i = 0 THEN 0 ELSE sum[i - 1] + s[i]
    IN  sum[Len(s)]

\* Where the i-th of n - 2 equal buckets between the first and the last
\* point begins, counting from zero.
Edge(points, n, i) == (i * (Len(points) - 2)) \div (n - 2) + 1

\* Of a bucket, the point (by index from zero) that spans the largest
\* triangle with the one chosen before it, a, and the mean of the next
\* bucket; of several, the first.
Largest(points, a, bucket, next) ==
    LET n == Len(next)
        x == Total([k \in 1..n |-> next[k].at])
        y == Total([k \in 1..n |-> next[k].value])
        Area(p) == Size((n * a.at - x) * (p.value - a.value)
                        - (a.at - p.at) * (y - n * a.value))
        area == [j \in bucket |-> Area(points[j + 1])]
    IN  CHOOSE j \in bucket : \A k \in bucket :
            area[k] < area[j] \/ (area[k] = area[j] /\ j <= k)

\* lttb
Lttb(points, n) ==
    IF n >= Len(points) THEN points
    ELSE IF n <= 2 THEN <<points[1], points[Len(points)]>>
    ELSE LET From(i) == Edge(points, n, i)
             Next(i) == SubSeq(points, From(i) + 1,
                               Least(From(i + 1), Len(points)))
             pick[i \in 0..n - 2] ==
                IF i = 0 THEN 0
                ELSE Largest(points, points[pick[i - 1] + 1],
                             From(i - 1)..From(i) - 1,
                             IF Next(i) = <<>> THEN <<points[Len(points)]>>
                             ELSE Next(i))
         IN  [i \in 1..n |-> IF i = n THEN points[Len(points)]
                             ELSE points[pick[i - 1] + 1]]

\* series_points
SeriesPoints(d, tier, sid, from, to, max) ==
    Lttb(ByTime(InRange(d, tier, sid, from, to)), max)

\* cap_nullable of trend: every stride-th point, both ends and the rims of
\* gaps; and where those are too many, every k-th of them and the last.
CapNullable(points, max) ==
    LET last    == Len(points) - 1
        stride  == CeilDiv(last - 1, max - 2)
        Rim(i)  == points[i].gap # points[i + 1].gap
        indexes == {0, last}
                   \cup {i \in 1..last - 1 : (i - 1) % stride = 0}
                   \cup {i \in 1..last : Rim(i)}
        chosen  == [k \in 1..Cardinality(indexes) |->
                      CHOOSE i \in indexes :
                        Cardinality({j \in indexes : j < i}) = k - 1]
        step    == CeilDiv(Len(chosen), max)
        every   == [k \in 1..CeilDiv(Len(chosen), step) |->
                      chosen[(k - 1) * step + 1]]
        kept    == IF Len(chosen) <= max THEN chosen
                   ELSE Append(First(every, max - 1), last)
    IN  IF Len(points) <= max THEN points
        ELSE [k \in 1..Len(kept) |-> points[kept[k] + 1]]

\* The projection panel of trend (CA-10): where rate, confidence and
\* remainder all have a point, the hours left, as a fraction, or a gap.
\* Each is a function from the times of its points.
Projection(rate, confidence, remaining, threshold) ==
    LET at == DOMAIN rate \cap DOMAIN confidence \cap DOMAIN remaining
    IN  ByTime({[at |-> t,
                 gap |-> ~(rate[t] > 0 /\ confidence[t] >= threshold),
                 left |-> IF rate[t] > 0 /\ confidence[t] >= threshold
                          THEN <<remaining[t], rate[t]>> ELSE <<>>] : t \in at})

TrendPanel(rate, confidence, remaining, threshold, max) ==
    CapNullable(Projection(rate, confidence, remaining, threshold),
                IF max < 3 THEN 3 ELSE max)
-----------------------------------------------------------------------------
(* Baselines (CA-05, MC-07): d.base is a set of [sid, level, updates, at,  *)
(* half].                                                                  *)

BaseOf(d, sid) == CHOOSE b \in d.base : b.sid = sid
Ready(b) == b.updates >= MinUpdates

\* _baseline_filters: ready is "any", "yes" or "no".
Passes(b, ready) == ready = "any" \/ (ready = "yes") = Ready(b)

\* Mutant: the page ends before its last row.
BaselinePageShort(d, ready, after, limit) ==
    LET rows == ByKey({s \in d.series : s.key > after /\
                        \E b \in d.base : b.sid = s.id /\ Passes(b, ready)})
    IN  [keys |-> [i \in 1..Least(Len(rows), limit) |-> rows[i].key],
         next |-> IF Len(rows) > limit THEN rows[limit + 1].key ELSE 0]

\* list_baselines: the rows behind a key, and the key to go on from (0, for
\* None, where no more follow).
BaselinePage(d, ready, after, limit) ==
    LET rows == ByKey({s \in d.series : s.key > after /\
                        \E b \in d.base : b.sid = s.id /\ Passes(b, ready)})
    IN  [keys |-> [i \in 1..Least(Len(rows), limit) |-> rows[i].key],
         next |-> IF Len(rows) > limit THEN rows[limit].key ELSE 0]

\* One update undone: level = before + alpha * (avg - before).
Undone(level, avg, half) == avg + (level - avg) * 2^half

\* Mutant: rows from before the seed are undone as well.
StepsPastSeed(b, rows) == Len(rows) - 1

\* How many updates baseline_history undoes: each needs the row it applied
\* and the next older one, for the time of the state before it.
Steps(b, rows) == Least(Len(rows), b.updates) - 1

Reversed(s) == [i \in 1..Len(s) |-> s[Len(s) - i + 1]]

\* baseline_history: the states in [start, end] and whether older ones of
\* the range are lost.
BaselineHistory(d, sid, start, end) ==
    LET b      == BaseOf(d, sid)
        rows   == Reversed(ByTime({r \in d.rollup5m : r.sid = sid /\ r.at <= b.at}))
        steps  == IF rows # <<>> /\ rows[1].at = b.at THEN Steps(b, rows) ELSE 0
        state[i \in 0..steps] ==
            IF i = 0 THEN [at |-> b.at, level |-> b.level]
            ELSE [at |-> rows[i + 1].at,
                  level |-> Undone(state[i - 1].level, rows[i].value, b.half)]
    IN  [points |-> {s \in {state[i] : i \in 0..steps} :
                        start <= s.at /\ s.at <= end},
         truncated |-> start < state[steps].at /\ b.updates - steps # 1]
=============================================================================
