---------------------------- MODULE SeriesStore ----------------------------
(***************************************************************************)
(* How long what is known of an entity lives.                              *)
(*                                                                         *)
(* A tick of the sampling pipeline sights entities, and the writer buffers *)
(* their samples under a series id it caches (engine/pipeline.py,          *)
(* store/writer.py).  Once the tick is committed the retention pass rolls  *)
(* samples up into 5-minute and hourly rows, steps the baselines, prunes   *)
(* what is past its window and reaps the catalog rows of entities that are *)
(* gone (store/retention.py).  A crash ends the daemon between any two of  *)
(* these, and a locked database drops a tick or stops retention.           *)
(*                                                                         *)
(* An entity has one metric here, hence one series.  A sample is its       *)
(* entity and its time; a rollup row holds the samples it was made of, in  *)
(* place of their average, extremes and count.                             *)
(***************************************************************************)
EXTENDS Naturals, FiniteSets, FiniteSetsExt

CONSTANTS
    Entity,         \* 1..n: the entities table is scanned in this order
    Durable,        \* entities of a durable source; the others are processes
    Watched,        \* entities with a rule that may fire
    Sid,            \* 1..n: series ids
    Bucket, Hour,   \* ROLLUP5M_S and ROLLUP1H_S, in ticks
    Slack,          \* the late writer's allowance of _rollup_5m
    Span,           \* max_bucket_span_s
    RetentionEvery, \* _RETENTION_EVERY_S
    RawKeep, RawDay,          \* raw_keep_s, and the day of _degrade
    R5KeepDurable, R5KeepProcess, R1KeepDurable, R1KeepProcess,
    GoneExpire,     \* r1h_gone_expire_s
    Grace,          \* gone_grace_s
    Batch,          \* delete_batch
    ExpireRows,     \* expire_rows
    ReapScan,       \* reap_scan
    MaxNow, LongDown, MaxSightings, MaxExempt, MaxOpens, MaxFaults,
    Faults          \* those that happen: "lock", "crash", "full"

ASSUME CatalogAssumption ==
    /\ IsFiniteSet(Entity) /\ Entity = 1..Cardinality(Entity)
    /\ IsFiniteSet(Sid) /\ Sid = 1..Cardinality(Sid)
    /\ Durable \subseteq Entity /\ Watched \subseteq Entity
    /\ Bucket \in Nat \ {0} /\ Hour \in Nat \ {0} /\ Span \in Nat \ {0}
    /\ Slack \in 0..Hour
    /\ RetentionEvery \in Nat \ {0} /\ Batch \in Nat \ {0}
    /\ ExpireRows \in Nat \ {0} /\ ReapScan \in Nat \ {0}
    /\ {RawKeep, RawDay, R5KeepDurable, R5KeepProcess, R1KeepDurable,
        R1KeepProcess, GoneExpire, Grace} \subseteq Nat
    /\ Hour <= MaxNow
    /\ {MaxNow, LongDown, MaxSightings, MaxExempt, MaxOpens, MaxFaults}
        \subseteq Nat
    /\ Faults \subseteq {"lock", "crash", "full"}

VARIABLES
    now,        \* the wall clock
    phase,      \* how far the tick is; "down" without a daemon
    due,        \* ticks until the next retention pass
    upSince,    \* when this daemon started
    seen,       \* _MonitorState.seen: last sightings, in memory only
    open,       \* entities with a live incident in the engine's memory
    cache,      \* TickWriter._series_cache
    nextSid,    \* TickWriter._next_series_id
    pend,       \* what the writer buffered this tick
    db,         \* the tables
    taken,      \* ghost: the samples committed and not forgotten
    cut,        \* ghost: hours up to which an entity's hourly rows expired
    degraded,   \* ghost: a budget step has deleted rows
    late,       \* ghost: samples that no longer are sure of a rollup's row
    used        \* sightings, exempt ones, openings and faults so far

memory == <<seen, open, cache, nextSid>>
ghosts == <<taken, cut, degraded, late>>
vars   == <<now, phase, due, upSince, memory, pend, db, ghosts, used>>

Nobody == 0   \* the owner of a free series id
Never  == 0   \* a time before every time
NoSid  == 0

Time   == Nat
Sample == Entity \X Time
Row    == [sid : Sid, at : Time, of : SUBSET Sample]
Known  == [stored : BOOLEAN, last : Time, gone : Time]
Base   == [updates : Nat, at : Time]

Unknown == [stored |-> FALSE, last |-> Never, gone |-> Never]
NoBase  == [updates |-> 0, at |-> Never]

Tables == [series : [Sid -> Entity \cup {Nobody}], raw : SUBSET Row,
           r5 : SUBSET Row, r1 : SUBSET Row, base : [Sid -> Base],
           cur5 : Time, cur1 : Time, reap : Entity \cup {0},
           ent : [Entity -> Known], inc : SUBSET Entity]
Buffers == [forget : SUBSET Entity, series : [Sid -> Entity \cup {Nobody}],
            raw : SUBSET Row, ent : [Entity -> Known], inc : SUBSET Entity]

EmptyTables ==
    [series |-> [s \in Sid |-> Nobody], raw |-> {}, r5 |-> {}, r1 |-> {},
     base |-> [s \in Sid |-> NoBase], cur5 |-> Never, cur1 |-> Never,
     reap |-> 0, ent |-> [e \in Entity |-> Unknown], inc |-> {}]
EmptyBuffers ==
    [forget |-> {}, series |-> [s \in Sid |-> Nobody], raw |-> {},
     ent |-> [e \in Entity |-> Unknown], inc |-> {}]

Floor(t, unit) == (t \div unit) * unit
Lesser(a, b)   == IF a <= b THEN a ELSE b
Ago(t, d)      == IF d <= t THEN t - d ELSE 0
IsProcess(e)   == e \notin Durable
May(fault)     == fault \in Faults /\ used.faults < MaxFaults
R5Keep(e) == IF e \in Durable THEN R5KeepDurable ELSE R5KeepProcess
R1Keep(e) == IF e \in Durable THEN R1KeepDurable ELSE R1KeepProcess
-----------------------------------------------------------------------------
(***************************************************************************)
(* Retention.run, stage by stage: each takes the tables and gives the      *)
(* tables, or the set of tables a LIMIT without an ORDER BY may leave.     *)
(***************************************************************************)
Within(rows, from, to)  == {r \in rows : from <= r.at /\ r.at < to}
Part(rows, s, at, unit) == {r \in rows : r.sid = s /\ Floor(r.at, unit) = at}

\* GROUP BY series_id, bucket.
Grouped(rows, unit) ==
    {[sid |-> q.sid, at |-> Floor(q.at, unit),
      of |-> UNION {r.of : r \in Part(rows, q.sid, Floor(q.at, unit), unit)}] :
        q \in rows}

\* INSERT OR REPLACE, with (series_id, bucket) the primary key.
Replaced(old, new) ==
    {r \in old : ~\E n \in new : n.sid = r.sid /\ n.at = r.at} \cup new

\* Where a rollup cursor that was never set begins.
From(cursor, rows, unit) ==
    IF cursor # Never THEN cursor
    ELSE IF rows = {} THEN Never
    ELSE Floor(Min({r.at : r \in rows}), unit)

\* _update_baselines: a bucket counts once, and only after those before it.
Stepped(base, new) ==
    [s \in Sid |->
        LET fresh == {r \in new : r.sid = s /\ r.at > base[s].at}
        IN  IF fresh = {} THEN base[s]
            ELSE [updates |-> base[s].updates + Cardinality(fresh),
                  at |-> Max({r.at : r \in fresh})]]

\* The end of the buckets that no sample can join any more.
Watermark(t) == Floor(Ago(t, Slack), Bucket)

Rolled5(d, t) ==
    LET from == From(d.cur5, d.raw, Bucket)
        to   == Lesser(Watermark(t), from + Span)
        new  == Grouped(Within(d.raw, from, to), Bucket)
    IN  IF from = Never \/ to <= from THEN d
        ELSE [d EXCEPT !.r5 = Replaced(@, new), !.base = Stepped(@, new),
                       !.cur5 = to]

Rolled1(d) ==
    LET from == From(d.cur1, d.r5, Hour)
        to   == Lesser(Floor(d.cur5, Hour), from + Span)
        new  == Grouped(Within(d.r5, from, to), Hour)
    IN  IF from = Never \/ to <= from THEN d
        ELSE [d EXCEPT !.r1 = Replaced(@, new), !.cur1 = to]

\* The rows a DELETE ... LIMIT may pick of those it matches.
Picks(rows) ==
    IF Cardinality(rows) <= Batch THEN {rows} ELSE kSubset(Batch, rows)

Past(rows, t, keep) == {r \in rows : r.at + keep < t}
Of(d, rows, es)     == {r \in rows : d.series[r.sid] \in es}

Tier(d, rows, es, t, keep) == Picks(Past(Of(d, rows, es), t, keep))

\* _prune_normal.
Pruned(d, t) ==
    LET process == Entity \ Durable
    IN  {[d EXCEPT !.raw = @ \ p[1], !.r5 = @ \ (p[2] \cup p[3]),
                   !.r1 = @ \ (p[4] \cup p[5])] :
            p \in Picks(Past(d.raw, t, RawKeep))
                  \X Tier(d, d.r5, Durable, t, R5KeepDurable)
                  \X Tier(d, d.r5, process, t, R5KeepProcess)
                  \X Tier(d, d.r1, Durable, t, R1KeepDurable)
                  \X Tier(d, d.r1, process, t, R1KeepProcess)}

\* Everything stored of the entities es goes: the deletes of _reap_catalog,
\* and those of commit_tick for entities that became exempt.
Erased(d, es) ==
    [d EXCEPT !.raw = @ \ Of(d, @, es), !.r5 = @ \ Of(d, @, es),
              !.r1 = @ \ Of(d, @, es),
              !.base = [s \in Sid |->
                           IF d.series[s] \in es THEN NoBase ELSE @[s]],
              !.series = [s \in Sid |-> IF @[s] \in es THEN Nobody ELSE @[s]],
              !.ent = [e \in Entity |-> IF e \in es THEN Unknown ELSE @[e]]]

\* The entities the reap's cursor passes over.
Visited(d) ==
    {e \in Entity : d.ent[e].stored /\ e > d.reap /\
        Cardinality({f \in d.reap + 1 .. e : d.ent[f].stored}) <= ReapScan}

\* Mutant: the hourly rows do not keep an entity in the catalog.
ReapableWithHours(d, e) ==
    /\ d.ent[e].gone # Never
    /\ e \notin d.inc
    /\ Of(d, d.raw \cup d.r5, {e}) = {}

Reapable(d, e) ==
    /\ d.ent[e].gone # Never
    /\ e \notin d.inc
    /\ Of(d, d.raw \cup d.r5 \cup d.r1, {e}) = {}

Reaped(d) == {e \in Visited(d) : Reapable(d, e)}

\* _reap_catalog; a scan that meets the end of the table starts over.
AfterReap(d) ==
    [Erased(d, Reaped(d)) EXCEPT
        !.reap = IF Cardinality(Visited(d)) < ReapScan THEN 0
                 ELSE Max(Visited(d))]

LongGone(d, t) ==
    {e \in Entity : /\ IsProcess(e) /\ d.ent[e].gone # Never
                    /\ d.ent[e].gone + GoneExpire <= t}

\* _expire_gone_rollup1h: what it deletes before a budget stops it.
Expirable(d, t) ==
    LET rows == Of(d, d.r1, LongGone(d, t))
    IN  IF rows = {} THEN {{}}
        ELSE {x \in SUBSET rows : x # {} /\ Cardinality(x) <= ExpireRows}

\* ORDER BY bucket LIMIT: none that stays is older than one that goes.
Oldest(rows) ==
    {x \in Picks(rows) : \A r \in x, q \in rows \ x : r.at <= q.at}

\* _degrade_if_over_budget, stopped by the first step that suffices.
Degradations(d, t) ==
    IF ~May("full") THEN {d}
    ELSE LET raw == {[d EXCEPT !.raw = @ \ x] :
                        x \in Picks(Past(d.raw, t, RawDay))}
             r5  == UNION {{[q EXCEPT !.r5 = @ \ x] : x \in Oldest(q.r5)} :
                        q \in raw}
             r1  == UNION {{[q EXCEPT !.r1 = @ \ x] : x \in Oldest(q.r1)} :
                        q \in r5}
         IN  {d} \cup raw \cup r5 \cup r1
-----------------------------------------------------------------------------
Init ==
    /\ now = Hour /\ phase = "idle" /\ due = 0 /\ upSince = Hour
    /\ seen = [e \in Entity |-> Never] /\ open = {}
    /\ cache = [e \in Entity |-> NoSid] /\ nextSid = NoSid
    /\ pend = EmptyBuffers /\ db = EmptyTables
    /\ taken = {} /\ cut = [e \in Entity |-> Never] /\ degraded = FALSE
    /\ late = {}
    /\ used = [sightings |-> 0, exempt |-> 0, opens |-> 0, faults |-> 0]

(***************************************************************************)
(* A tick: Pipeline.run_monitor on one snapshot.  An entity of it is       *)
(* exempt, kept (selected for history), or only passed over: a process     *)
(* that is not among the top ones.                                         *)
(***************************************************************************)
Kind == {"absent", "exempt", "passed", "kept"}

Snapshot ==
    {k \in [Entity -> Kind] : \A e \in Durable : k[e] # "passed"}

Those(k, kind) == {e \in Entity : k[e] = kind}

\* series_id: the cache, then the table, then an id nobody has.
StoredSid(e) ==
    IF \E s \in Sid : db.series[s] = e
    THEN CHOOSE s \in Sid : db.series[s] = e ELSE NoSid

FreeSid ==
    IF nextSid # NoSid THEN nextSid
    ELSE 1 + Max({NoSid} \cup {s \in Sid : db.series[s] # Nobody})

KnownSid(e) == IF cache[e] # NoSid THEN cache[e] ELSE StoredSid(e)
Newcomers(k) == {e \in Those(k, "kept") : KnownSid(e) = NoSid}

SidOf(k, e) ==
    IF e \in Newcomers(k)
    THEN FreeSid + Cardinality({f \in Newcomers(k) : f < e})
    ELSE KnownSid(e)

Sighted(k, t) == [e \in Entity |-> IF k[e] = "absent" THEN seen[e] ELSE t]

\* _track_gone: seen once, and not for longer than the grace.
Gone(last, t) == {e \in Entity : last[e] # Never /\ t > last[e] + Grace}

\* What evaluation and disappearance make of the incidents in memory.
OpenAfter(k, gone, firing) ==
    (open \ (Those(k, "kept") \cup Those(k, "passed") \cup gone)) \cup firing

Buffered(k, t, gone, live) ==
    [forget |-> Those(k, "exempt"),
     series |-> [s \in Sid |->
        IF \E e \in Newcomers(k) : SidOf(k, e) = s
        THEN CHOOSE e \in Newcomers(k) : SidOf(k, e) = s ELSE Nobody],
     raw |-> {[sid |-> SidOf(k, e), at |-> t, of |-> {<<e, t>>}] :
                e \in Those(k, "kept")},
     ent |-> [e \in Entity |->
        CASE k[e] = "kept" -> [stored |-> TRUE, last |-> t, gone |-> Never]
          [] e \in gone -> [stored |-> TRUE, last |-> seen[e], gone |-> t]
          [] OTHER -> Unknown],
     inc |-> (open \ live) \cup (live \ open)]

\* The snapshots and firing rules that the bounds leave room for.
Affordable(k, firing) ==
    /\ used.sightings + Cardinality(Entity \ Those(k, "absent")) <= MaxSightings
    /\ used.exempt + Cardinality(Those(k, "exempt")) <= MaxExempt
    /\ used.opens + Cardinality(firing \ open) <= MaxOpens
    /\ \A e \in Newcomers(k) : SidOf(k, e) \in Sid

Tick ==
    /\ phase = "idle" /\ now < MaxNow
    /\ now' = now + 1
    /\ \E k \in Snapshot :
         LET last == Sighted(k, now + 1)
             gone == Gone(last, now + 1)
         IN  \E firing \in SUBSET (Watched \cap (Those(k, "kept")
                                               \cup Those(k, "passed"))) :
             /\ Affordable(k, firing)
             /\ open' = OpenAfter(k, gone, firing)
             /\ pend' = Buffered(k, now + 1, gone, OpenAfter(k, gone, firing))
             /\ seen' = [e \in Entity |-> IF e \in gone THEN Never ELSE last[e]]
             /\ cache' = [e \in Entity |->
                            CASE k[e] = "exempt" -> NoSid
                              [] k[e] = "kept" -> SidOf(k, e)
                              [] OTHER -> cache[e]]
             /\ nextSid' = IF Newcomers(k) = {} THEN nextSid
                           ELSE FreeSid + Cardinality(Newcomers(k))
             /\ used' = [used EXCEPT
                            !.sightings = @ + Cardinality(Entity \ Those(k, "absent")),
                            !.exempt = @ + Cardinality(Those(k, "exempt")),
                            !.opens = @ + Cardinality(firing \ open)]
    /\ phase' = "buffered"
    /\ due' = IF due = 0 THEN 0 ELSE due - 1
    /\ UNCHANGED <<upSince, db, ghosts>>
-----------------------------------------------------------------------------
Committed ==
    LET d == Erased(db, pend.forget)
    IN  [d EXCEPT
            !.series = [s \in Sid |-> IF pend.series[s] # Nobody
                                      THEN pend.series[s] ELSE @[s]],
            !.raw = Replaced(@, pend.raw),
            !.ent = [e \in Entity |-> IF pend.ent[e].stored
                                      THEN pend.ent[e] ELSE @[e]],
            !.inc = (@ \ pend.inc) \cup (open \cap pend.inc)]

\* TickWriter.commit_tick; then the daemon looks whether retention is due.
Commit ==
    /\ phase = "buffered"
    /\ db' = Committed
    /\ pend' = EmptyBuffers
    /\ phase' = IF due = 0 THEN "retain" ELSE "idle"
    /\ taken' = {p \in taken : p[1] \notin pend.forget}
                \cup UNION {r.of : r \in pend.raw}
    /\ late' = {l \in late : l[2][1] \notin pend.forget}
    /\ UNCHANGED <<now, due, upSince, memory, cut, degraded, used>>

\* The database is locked: the tick's data are dropped and retention waits.
CommitLocked ==
    /\ phase = "buffered" /\ May("lock")
    /\ pend' = EmptyBuffers
    /\ cache' = [e \in Entity |-> NoSid]
    /\ nextSid' = NoSid
    /\ phase' = "idle"
    /\ used' = [used EXCEPT !.faults = @ + 1]
    /\ UNCHANGED <<now, due, upSince, seen, open, db, ghosts>>

\* Mutant: nobody tells the writer of the series that were reaped.
EvictedNone(es) == cache

\* The daemon drops what the writer's cache holds of reaped entities.
Evicted(es) == [e \in Entity |-> IF e \in es THEN NoSid ELSE cache[e]]

\* A sample that some window of DM-04 still covers.
InRaw(p) == p[2] + RawKeep >= now
InR5(p)  == Floor(p[2], Bucket) + R5Keep(p[1]) >= now
InR1(p)  == /\ Floor(p[2], Hour) + R1Keep(p[1]) >= now
            /\ Floor(p[2], Hour) >= cut[p[1]]
Promised(p, overtaken) ==
    \/ InRaw(p)
    \/ InR5(p) /\ <<"5m", p>> \notin overtaken
    \/ InR1(p) /\ <<"1h", p>> \notin overtaken

\* Nothing makes the prune wait for the rollups, which go on by Span at most
\* a pass.  Of a sample that was taken before this daemon started, the finer
\* window can end while the cursors of the tables d have not come to it.
Overtaken(d) ==
    LET before == {p \in taken : p[2] <= upSince}
    IN  ({"5m", "1h"} \X {p \in before : /\ ~InRaw(p)
                                       /\ Floor(p[2], Bucket) >= d.cur5})
        \cup ({"1h"} \X {p \in before : /\ ~InR5(p)
                                       /\ Floor(p[2], Hour) >= d.cur1})

\* Retention.run in one transaction, and Daemon._run_retention after it.
Retain ==
    /\ phase = "retain"
    /\ \E d \in Pruned(Rolled1(Rolled5(db, now)), now) :
         /\ cache' = Evicted(Reaped(d))
         /\ LET overtaken == late \cup Overtaken(d)
                Stays(p)  == p[1] \in Reaped(d) => Promised(p, overtaken)
            IN  /\ taken' = {p \in taken : Stays(p)}
                /\ late' = {l \in overtaken : Stays(l[2])}
         /\ \E x \in Expirable(AfterReap(d), now) :
              LET expired == [AfterReap(d) EXCEPT !.r1 = @ \ x]
              IN  /\ db' \in Degradations(expired, now)
                  /\ degraded' = (degraded \/ db' # expired)
                  /\ used' = IF db' = expired THEN used
                             ELSE [used EXCEPT !.faults = @ + 1]
                  /\ cut' = [e \in Entity |-> IF Of(d, x, {e}) # {}
                                              THEN d.cur1 ELSE cut[e]]
    /\ phase' = "idle"
    /\ due' = RetentionEvery
    /\ UNCHANGED <<now, upSince, seen, open, nextSid, pend>>

\* A daemon that ends takes its memory along.
Forgets ==
    /\ phase' = "down" /\ due' = 0 /\ upSince' = Never
    /\ seen' = [e \in Entity |-> Never] /\ open' = {}
    /\ cache' = [e \in Entity |-> NoSid] /\ nextSid' = NoSid
    /\ pend' = EmptyBuffers

\* Retention has no answer to a locked database, and the daemon ends.
RetainLocked ==
    /\ phase = "retain" /\ May("lock")
    /\ used' = [used EXCEPT !.faults = @ + 1]
    /\ Forgets
    /\ UNCHANGED <<now, db, ghosts>>

Crash ==
    /\ phase # "down" /\ May("crash")
    /\ used' = [used EXCEPT !.faults = @ + 1]
    /\ Forgets
    /\ UNCHANGED <<now, db, ghosts>>

\* Mutant: an incident is rebuilt without its entity's last sighting.
SeededNever(e, t) == Never

\* seed_seen: from the stored row, or from now where there is none.
Seeded(e, t) ==
    IF e \notin db.inc THEN Never
    ELSE IF db.ent[e].stored THEN db.ent[e].last ELSE t

\* Daemon.startup, at once or after a long downtime: _rebuild_incidents reads what is open.
Start ==
    /\ phase = "down"
    /\ now' \in {now, Lesser(now + LongDown, MaxNow)}
    /\ phase' = "idle"
    /\ upSince' = now'
    /\ open' = db.inc
    /\ seen' = [e \in Entity |-> Seeded(e, now')]
    /\ UNCHANGED <<due, cache, nextSid, pend, db, ghosts, used>>

Next ==
    \/ Tick \/ Commit \/ CommitLocked \/ Retain \/ RetainLocked
    \/ Crash \/ Start

Spec == Init /\ [][Next]_vars
-----------------------------------------------------------------------------
(* Every table, buffer and cache keeps its shape.                          *)
TypeOK ==
    /\ now \in Time /\ upSince \in Time /\ due \in 0..RetentionEvery
    /\ phase \in {"idle", "buffered", "retain", "down"}
    /\ seen \in [Entity -> Time] /\ open \subseteq Entity
    /\ cache \in [Entity -> Sid \cup {NoSid}] /\ nextSid \in Nat
    /\ pend \in Buffers /\ db \in Tables
    /\ taken \subseteq Sample /\ cut \in [Entity -> Time]
    /\ degraded \in BOOLEAN /\ late \subseteq {"5m", "1h"} \X Sample
    /\ used \in [sightings : Nat, exempt : Nat, opens : Nat, faults : Nat]

(* A stored row belongs to a series that exists, and to the entity of that *)
(* series alone: neither a cached id that outlived its series nor an id    *)
(* that was given out twice mixes histories (evict_series_cache, PM-10).   *)
OwnedRow(d, r) == \A p \in r.of : p[1] = d.series[r.sid]
NoOrphans ==
    /\ \A r \in db.raw \cup db.r5 \cup db.r1 :
          db.series[r.sid] # Nobody /\ OwnedRow(db, r)
    /\ \A s \in Sid : db.base[s].updates > 0 => db.series[s] # Nobody

\* The samples that a tier is sure to hold, where its rows are promised.
OnTime(tier) == {p \in taken : <<tier, p>> \notin late}

\* The row of p holds all that is sure of its time, and nothing else.
Whole(rows, p, unit, sure) ==
    LET Its(samples) ==
            {q \in samples : q[1] = p[1] /\ Floor(q[2], unit) = Floor(p[2], unit)}
    IN  \E r \in rows :
            /\ db.series[r.sid] = p[1] /\ r.at = Floor(p[2], unit)
            /\ Its(sure) \subseteq r.of /\ r.of \subseteq Its(taken)

BucketsBefore(samples, end) ==
    {b \in {Floor(p[2], Bucket) : p \in samples} : b < end}

(* DM-04: a committed sample is found raw, in its complete 5-minute row    *)
(* and in its complete hourly row for as long as each window promises,     *)
(* and each bucket has stepped the baseline once, unless its entity became *)
(* exempt, is gone for long, or the database is over budget.  A downtime   *)
(* makes an exception the requirement does not: of what an earlier daemon  *)
(* left, the prune takes what is past the finer window also where the      *)
(* rollups, a Span a pass, have not come to it, and the coarser row is     *)
(* made without it.  What the running daemon itself has taken is never     *)
(* lost so, whatever there is to catch up.                                 *)
HistoryIsKept ==
    ~degraded =>
    /\ \A p \in taken : InRaw(p) => Whole(db.raw, p, 1, taken)
    /\ \A p \in OnTime("5m") :
        InR5(p) /\ Floor(p[2], Bucket) < db.cur5 =>
            Whole(db.r5, p, Bucket, OnTime("5m"))
    /\ \A p \in OnTime("1h") :
        InR1(p) /\ Floor(p[2], Hour) < db.cur1 =>
            Whole(db.r1, p, Hour, OnTime("1h"))
    /\ \A s \in {q \in Sid : db.series[q] # Nobody} :
        LET Its(samples) == {p \in samples : p[1] = db.series[s]}
        IN  /\ Cardinality(BucketsBefore(Its(OnTime("5m")), db.cur5))
                   <= db.base[s].updates
            /\ db.base[s].updates
                   <= Cardinality(BucketsBefore(Its(taken), db.cur5))

(* IN-09: an incident in memory belongs to an entity whose disappearance   *)
(* would be noticed, also after a restart, so none stays open for ever.    *)
IncidentsAreTracked ==
    phase # "down" => \A e \in open : seen[e] # Never

=============================================================================
