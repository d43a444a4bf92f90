------------------------------ MODULE ReadSide ------------------------------
(***************************************************************************)
(* An assistant asks while the daemon writes.                              *)
(*                                                                         *)
(* query_metrics (mcp_server.py) takes many statements: the tier, the      *)
(* series with rows, the filter, then per series a count and its points.   *)
(* list_baselines takes one statement a page and as many calls as there    *)
(* are pages.  Between any two statements the daemon may roll up a bucket  *)
(* and step a baseline, prune, reap, or re-tag an entity; an operator may  *)
(* reset a baseline, or restart the daemon under another half life.        *)
(***************************************************************************)
EXTENDS Queries, FiniteSetsExt

CONSTANTS
    Catalog,      \* the series that may ever exist
    FirstTables,  \* the database at the start
    FirstPast,    \* the states its baselines went through
    FirstBucket,  \* the last bucket rolled up
    Values,       \* averages a bucket may have
    HalfLives,    \* half lives a configuration may set
    Now,          \* the wall clock of every call
    Starts,       \* range starts that are asked for
    Scopes,       \* sets of keys that are asked for
    MaxEntities, MaxPoints, MaxTotal,  \* _QM_MAX_*
    PageSize,     \* limit of list_baselines
    ChartTimes, ChartMax, Threshold,
    MaxWrites

VARIABLES
    db,      \* the tables, as Queries has them, and the tagged keys
    bucket,  \* the last bucket rolled up
    half,    \* Retention._half_life_s of the daemon that runs
    past,    \* ghost: the states of each baseline since its seed
    writes,  \* how often the database has changed
    call     \* the call that is being served

readVars == <<db, bucket, half, past, writes, call>>

\* Keys order the series; a page has room for a row.
TablesMakeSense ==
    /\ IsFiniteSet(Catalog) /\ \A s \in Catalog : s.key \in Nat \ {0}
    /\ \A s, t \in Catalog : s.key = t.key => s = t
    /\ "series" \in DOMAIN FirstTables /\ FirstTables.series \subseteq Catalog
    /\ PageSize \in Nat \ {0}

ASSUME ReadAssumption == TablesMakeSense

Idle == [tool |-> "none", stage |-> "idle", view |-> FirstTables, tier |-> "raw",
         start |-> 0, scope |-> {}, filtered |-> FALSE, left |-> <<>>,
         got |-> <<>>, total |-> 0, truncated |-> FALSE, reason |-> "",
         ready |-> "any", after |-> 0, keys |-> <<>>, lasting |-> {},
         chart |-> [rate |-> <<>>, confidence |-> <<>>, remaining |-> <<>>,
                    points |-> <<>>]]

ReadInit ==
    /\ db = FirstTables /\ bucket = FirstBucket /\ past = FirstPast
    /\ half \in HalfLives
    /\ writes = 0 /\ call = Idle
-----------------------------------------------------------------------------
(* The daemon and the operator *)

Qualifies(d, key, ready) ==
    \E s \in d.series, b \in d.base :
        s.key = key /\ b.sid = s.id /\ Passes(b, ready)

\* A write before an answer is complete; later ones do not concern it.
MayWrite == writes < MaxWrites /\ call.stage # "done"

\* One transaction; what a session of pages must list stays what it was.
Written(d) ==
    /\ MayWrite /\ writes' = writes + 1
    /\ db' = d
    /\ call' = [call EXCEPT !.lasting =
                    {k \in @ : Qualifies(d, k, call.ready)}]

\* _update_baselines: the first bucket, and the first under another half
\* life, is a seed.
SteppedBase(sid, avg) ==
    LET old == {b \in db.base : b.sid = sid}
        seed == [sid |-> sid, level |-> avg, updates |-> 1,
                 at |-> bucket + 1, half |-> half]
    IN  IF \E b \in old : b.half = half
        THEN LET b == BaseOf(db, sid)
             IN  [b EXCEPT !.level = avg + (b.level - avg) \div 2^half,
                           !.updates = @ + 1, !.at = bucket + 1]
        ELSE seed

\* A tick's samples of a series, known or new, rolled up.
RollUp ==
    \E s \in Catalog, avg \in Values :
      \E b \in {SteppedBase(s.id, avg)} :
        /\ Written([db EXCEPT
                !.series = @ \cup {s},
                !.rollup5m = @ \cup {[sid |-> s.id, at |-> bucket + 1,
                                      value |-> avg]},
                !.base = {o \in @ : o.sid # s.id} \cup {b}])
        /\ bucket' = bucket + 1
        /\ past' = [past EXCEPT ![s.id] =
                        (IF b.updates = 1 THEN {} ELSE @)
                        \cup {[at |-> b.at, level |-> b.level]}]
        /\ UNCHANGED half

Without(rows, sid) == {r \in rows : r.sid # sid}

\* _prune_normal: what is past its window goes, the oldest first.
Prune ==
    /\ \E s \in db.series :
         LET rows == {r \in db.rollup5m : r.sid = s.id}
         IN  /\ rows # {}
             /\ Written([db EXCEPT !.rollup5m =
                            @ \ {ByTime(rows)[1]}])
    /\ UNCHANGED <<bucket, half, past>>

\* _reap_catalog
Reap ==
    /\ \E s \in db.series :
         Written([db EXCEPT !.series = @ \ {s},
                            !.rollup5m = Without(@, s.id),
                            !.rollup1h = Without(@, s.id),
                            !.base = Without(@, s.id),
                            !.tagged = @ \ {s.key}])
    /\ UNCHANGED <<bucket, half, past>>

\* reset_baselines
Reset ==
    /\ \E b \in db.base : Written([db EXCEPT !.base = @ \ {b}])
    /\ UNCHANGED <<bucket, half, past>>

\* An upsert of an entity whose attributes have changed.
Retag ==
    /\ \E s \in db.series :
         Written([db EXCEPT !.tagged = IF s.key \in @ THEN @ \ {s.key}
                                       ELSE @ \cup {s.key}])
    /\ UNCHANGED <<bucket, half, past>>

\* A restart with another half life configured.
Reconfigure ==
    /\ MayWrite /\ writes' = writes + 1
    /\ half' \in HalfLives \ {half}
    /\ UNCHANGED <<db, bucket, past, call>>

Write == RollUp \/ Prune \/ Reap \/ Reset \/ Retag \/ Reconfigure
unread == <<db, bucket, half, past, writes>>
-----------------------------------------------------------------------------
(* query_metrics *)

\* Mutant: each statement reads what is committed when it runs.
SeenLive == db

\* read_snapshot: every statement reads what the first one read.
Seen == call.view

Cohort(d) == {s \in d.series : s.key \in call.scope}

AskMetrics ==
    /\ call.stage = "idle"
    /\ \E start \in Starts, filtered \in BOOLEAN, scope \in Scopes :
         call' = [Idle EXCEPT !.tool = "metrics", !.stage = "tier",
                    !.start = start, !.filtered = filtered, !.scope = scope]
    /\ UNCHANGED unread

\* resolution_for, the first statement of the snapshot.
ResolveTier ==
    /\ call.stage = "tier"
    /\ call' = [call EXCEPT !.stage = "discover", !.view = db,
                    !.tier = Resolution(Cohort(db), Now, call.start, Now)]
    /\ UNCHANGED unread

Discover ==
    /\ call.stage = "discover"
    /\ call' = [call EXCEPT !.stage = "filter",
                    !.left = Observed(Seen, Cohort(Seen), call.tier,
                                      call.start, Now)]
    /\ UNCHANGED unread

\* Known is a metric that has series or that the definition file, as it is
\* when the answer turns out empty, declares.
EmptyReason(observed, declared) ==
    IF call.filtered /\ observed # <<>> THEN "filtered_out"
    ELSE IF ~declared /\ Seen.series = {} THEN "unknown_metric"
    ELSE "no_data_in_range"

\* _attr_filter and, where nothing is left, the empty answer.
Filter ==
    /\ call.stage = "filter"
    /\ \E matched \in {SelectSeq(call.left,
                LAMBDA s : call.filtered => s.key \in Seen.tagged)} :
       \E declared \in BOOLEAN :
         call' = IF matched = <<>>
                 THEN [call EXCEPT !.stage = "done", !.left = <<>>,
                                   !.reason = EmptyReason(call.left, declared)]
                 ELSE [call EXCEPT !.stage = "fetch", !.left = matched]
    /\ UNCHANGED unread

Fits(n) == call.total + n <= MaxTotal

Truncate ==
    /\ call.stage = "fetch" /\ call.left # <<>>
    /\ \/ Len(call.got) >= MaxEntities
       \/ ~Fits(PointBudget(Seen, call.tier, Head(call.left).id, call.start,
                            Now, MaxPoints))
    /\ call' = [call EXCEPT !.stage = "done", !.truncated = TRUE,
                            !.left = <<>>]
    /\ UNCHANGED unread

\* The second look at the total after the points were fetched; the count
\* above is made by the same action, as no answer lies between the two.
Fetch ==
    /\ call.stage = "fetch" /\ call.left # <<>>
    /\ Len(call.got) < MaxEntities
    /\ Fits(PointBudget(Seen, call.tier, Head(call.left).id, call.start,
                        Now, MaxPoints))
    /\ \E points \in {SeriesPoints(Seen, call.tier, Head(call.left).id,
                                   call.start, Now, MaxPoints)} :
         call' = IF Fits(Len(points))
                 THEN [call EXCEPT
                        !.got = Append(@, [key |-> Head(call.left).key,
                                           points |-> points]),
                        !.total = @ + Len(points), !.left = Tail(@)]
                 ELSE [call EXCEPT !.stage = "done", !.truncated = TRUE,
                                   !.left = <<>>]
    /\ UNCHANGED unread

Answered ==
    /\ call.stage = "fetch" /\ call.left = <<>>
    /\ call' = [call EXCEPT !.stage = "done"]
    /\ UNCHANGED unread

QueryMetrics ==
    AskMetrics \/ ResolveTier \/ Discover \/ Filter \/ Truncate \/ Fetch
    \/ Answered
-----------------------------------------------------------------------------
(* list_baselines, asked page after page *)

AskBaselines ==
    /\ call.stage = "idle"
    /\ \E ready \in {"any", "yes", "no"} :
         call' = [Idle EXCEPT !.tool = "baselines", !.stage = "page",
                    !.ready = ready,
                    !.lasting = {s.key : s \in {q \in Catalog :
                                    Qualifies(db, q.key, ready)}}]
    /\ UNCHANGED unread

NextPage ==
    /\ call.stage = "page"
    /\ \E page \in {BaselinePage(db, call.ready, call.after, PageSize)} :
         call' = [call EXCEPT !.keys = @ \o page.keys, !.after = page.next,
                    !.stage = IF page.next = 0 THEN "done" ELSE "page"]
    /\ UNCHANGED unread
-----------------------------------------------------------------------------
(* A trend panel; the history it is drawn from does not change meanwhile.  *)

PartialMaps == UNION {[times -> {0, 1}] : times \in SUBSET ChartTimes}

DrawTrend ==
    /\ call.stage = "idle" /\ writes = 0
    /\ \E rate, confidence \in PartialMaps, measured \in SUBSET ChartTimes :
       \E remaining \in {[t \in measured |-> 1]} :
         call' = [Idle EXCEPT !.tool = "trend", !.stage = "done",
            !.chart = [rate |-> rate, confidence |-> confidence,
                       remaining |-> remaining,
                       points |-> TrendPanel(rate, confidence, remaining,
                                             Threshold, ChartMax)]]
    /\ UNCHANGED unread

Return ==
    /\ call.stage = "done" /\ call' = Idle
    /\ UNCHANGED unread

ReadNext == Write \/ QueryMetrics \/ AskBaselines \/ NextPage \/ DrawTrend \/ Return

ReadSpec == ReadInit /\ [][ReadNext]_readVars
-----------------------------------------------------------------------------
Rows(s) == InRange(call.view, call.tier, s.id, call.start, Now)
Cost(s) == Least(Cardinality(Rows(s)), MaxPoints)

Increasing(s) == \A i \in 1..Len(s) - 1 : s[i].at < s[i + 1].at

\* A line of at most MaxPoints points through the rows: its ends are
\* theirs, and each of the stretches between has its point.
Drawn(points, rows) ==
    LET all == ByTime(rows)
        n   == Len(points)
    IN  /\ n = Least(Len(all), MaxPoints) /\ Increasing(points)
        /\ points[1] = all[1] /\ points[n] = all[Len(all)]
        /\ n < Len(all) => \A i \in 0..n - 3 :
             \E k \in Edge(all, n, i) + 1..Edge(all, n, i + 1) :
                points[i + 2] = all[k]

\* What query_metrics owes on one database: as many of the series with
\* rows, in order, as the bounds allow, word of the rest, and why there are
\* none.
OwedMetrics ==
    LET rows  == {s \in Cohort(call.view) : Rows(s) # {}}
        found == {s \in rows : call.filtered => s.key \in call.view.tagged}
        order == ByKey(found)
        Sum(k) == Total([i \in 1..k |-> Cost(order[i])])
        fit   == Max({k \in 0..Least(Len(order), MaxEntities) :
                        Sum(k) <= MaxTotal})
    IN  /\ Len(call.got) = fit
        /\ call.truncated = (fit < Len(order))
        /\ (call.reason = "") = (found # {})
        /\ (call.reason = "filtered_out") = (found = {} /\ rows # {})
        /\ \A i \in 1..fit :
             /\ call.got[i].key = order[i].key
             /\ Drawn(call.got[i].points, Rows(order[i]))

\* What a projection owes: its ends, all of it if it has room, and a gap
\* exactly where growth is not positive or unreliable; between the points of
\* its three inputs it has none.
OwedTrend ==
    LET c  == call.chart
        ps == c.points
        at == DOMAIN c.rate \cap DOMAIN c.confidence \cap DOMAIN c.remaining
    IN  /\ Len(ps) <= Least(Cardinality(at), ChartMax)
        /\ at # {} => ps[1].at = Min(at) /\ ps[Len(ps)].at = Max(at)
        /\ Cardinality(at) <= ChartMax => {ps[i].at : i \in DOMAIN ps} = at
        /\ \A i \in 1..Len(ps) :
             /\ ps[i].at \in at
             /\ ps[i].gap = ~(c.rate[ps[i].at] > 0
                              /\ c.confidence[ps[i].at] >= Threshold)
             /\ i > 1 => ps[i - 1].at <= ps[i].at

(* DM-06, MC-01: whatever is committed while it is put together, an answer *)
(* of query_metrics is the one a single database state would give: one     *)
(* tier, the first series in order that the bounds have room for, each     *)
(* with its ends, and told to be truncated exactly if a series is left     *)
(* out; and a projection (CA-10) covers its range and is drawn only where  *)
(* its three inputs meet and qualify.                                      *)
AnswersAreExact ==
    call.stage = "done" =>
        /\ call.tool = "metrics" => OwedMetrics
        /\ call.tool = "trend" => OwedTrend

(* MC-07: the pages of a session, read while baselines are learned, reset  *)
(* and reaped, list no baseline twice, and list each one that passed the   *)
(* filter all the while.                                                   *)
PagesListOnce ==
    call.stage = "done" /\ call.tool = "baselines" =>
        /\ \A i \in 1..Len(call.keys) - 1 : call.keys[i] < call.keys[i + 1]
        /\ \A k \in call.lasting : \E i \in 1..Len(call.keys) : call.keys[i] = k

(* CA-05: baseline_history, which undoes updates from the level backwards, *)
(* gives states the baseline really had, and all those of the range unless *)
(* it says that older ones are lost: over gaps in the rows, pruned rows, a *)
(* reset and a changed half life.  It reads one state of the tables, each  *)
(* of which is there without any other call.                               *)
HistoryReplays ==
    call = Idle => \A b \in db.base, start \in 0..bucket :
      LET h == BaselineHistory(db, b.sid, start, bucket)
      IN  /\ h.points \subseteq past[b.sid]
          /\ h.truncated \/ {s \in past[b.sid] : start <= s.at} = h.points

=============================================================================
