------------------------- MODULE SeriesStore_proofs -------------------------
(***************************************************************************)
(* For any number of entities and series, any windows, budgets and faults: *)
(* the tables keep their shape, no stored row is orphaned or changes       *)
(* hands, and no incident loses sight of its entity.                       *)
(*                                                                         *)
(* A series id the writer caches is, once the buffers are committed, an id *)
(* of the same entity; the next id it gives out is above every id in use,  *)
(* in the table or in the buffers.  So a commit never takes a series away  *)
(* from its rows, and retention, which takes series away, takes their rows *)
(* and their cached ids along.                                             *)
(***************************************************************************)
EXTENDS SeriesStore, FiniteSetTheorems, WellFoundedInduction, TLAPS

LEMMA LeastIn ==
    ASSUME NEW S \in SUBSET Nat, S # {}
    PROVE  Min(S) \in S /\ \A y \in S : Min(S) <= y
<1>1. \E x \in S : \A y \in S : ~(<<y, x>> \in OpToRel(<, Nat))
  BY WFMin, NatLessThanWellFounded
<1>2. PICK x \in S : \A y \in S : ~(<<y, x>> \in OpToRel(<, Nat))
  BY <1>1
<1>3. ASSUME NEW y \in S PROVE x <= y
  <2>1. ~(<<y, x>> \in {ss \in Nat \X Nat : ss[1] < ss[2]})
    BY <1>2 DEF OpToRel
  <2>2. <<y, x>> \in Nat \X Nat
    OBVIOUS
  <2> QED
    BY <2>1, <2>2
<1> QED
  BY <1>3 DEF Min

LEMMA GreatestIn ==
    ASSUME NEW S \in SUBSET Nat, NEW b \in Nat, \A y \in S : y <= b, S # {}
    PROVE  Max(S) \in S /\ \A y \in S : y <= Max(S)
<1> DEFINE U == {u \in Nat : \A y \in S : y <= u}
<1>1. U # {} /\ U \in SUBSET Nat
  OBVIOUS
<1>2. PICK x \in U : \A u \in U : x <= u
  BY <1>1, LeastIn
<1>3. x \in S
  <2>1. SUFFICES ASSUME x \notin S PROVE FALSE
    OBVIOUS
  <2>2. PICK y \in S : TRUE
    OBVIOUS
  <2>3. x > 0 /\ x - 1 \in Nat
    BY <2>1, <2>2
  <2>4. ASSUME NEW z \in S PROVE z <= x - 1
    BY <2>1, <2>3
  <2>5. x - 1 \in U
    BY <2>3, <2>4
  <2> QED
    BY <1>2, <2>3, <2>5
<1>4. \A y \in S : x >= y
  BY <1>3
<1> QED
  BY <1>3, <1>4 DEF Max
-----------------------------------------------------------------------------
Finite(d) == IsFiniteSet(d.raw) /\ IsFiniteSet(d.r5) /\ IsFiniteSet(d.r1)
Typed(d)  == d \in Tables /\ Finite(d)

Rows == SUBSET Row
Owners == [Sid -> Entity \cup {Nobody}]

\* What the rows are to the series.
Good(series, rows) ==
    \A r \in rows : /\ series[r.sid] # Nobody
                    /\ \A p \in r.of : p[1] = series[r.sid]
Counted(series, base) ==
    \A s \in Sid : base[s].updates > 0 => series[s] # Nobody
Sound(d) ==
    /\ Good(d.series, d.raw) /\ Good(d.series, d.r5) /\ Good(d.series, d.r1)
    /\ Counted(d.series, d.base)

LEMMA SoundIsNoOrphans == Sound(db) <=> NoOrphans
BY DEF Sound, Good, Counted, NoOrphans, OwnedRow

\* An entity that has a row has a last sighting.
Dated(d) == \A e \in Entity : d.ent[e].stored => d.ent[e].last # Never

\* What a stage of retention may change besides the rows.
Kept(d, q) == Typed(q) /\ Sound(q) /\ q.series = d.series /\ q.ent = d.ent
              /\ q.inc = d.inc

LEMMA TablesFields ==
    ASSUME NEW d \in Tables
    PROVE  /\ d.series \in Owners
           /\ d.raw \in Rows /\ d.r5 \in Rows /\ d.r1 \in Rows
           /\ d.base \in [Sid -> Base] /\ d.cur5 \in Nat /\ d.cur1 \in Nat
           /\ d.reap \in Entity \cup {0} /\ d.ent \in [Entity -> Known]
           /\ d.inc \in SUBSET Entity
BY DEF Tables, Owners, Rows, Time

LEMMA GoodFewer ==
    ASSUME NEW series, NEW rows, NEW fewer \in SUBSET rows, Good(series, rows)
    PROVE  Good(series, fewer)
BY DEF Good

LEMMA FewerRows ==
    ASSUME NEW d, Typed(d), Sound(d),
           NEW a \in SUBSET d.raw, NEW b \in SUBSET d.r5, NEW c \in SUBSET d.r1
    PROVE  /\ Kept(d, [d EXCEPT !.raw = a, !.r5 = b, !.r1 = c])
           /\ Kept(d, [d EXCEPT !.raw = a])
           /\ Kept(d, [d EXCEPT !.r5 = b])
           /\ Kept(d, [d EXCEPT !.r1 = c])
<1> DEFINE q == [d EXCEPT !.raw = a, !.r5 = b, !.r1 = c]
<1>1. d \in Tables /\ Finite(d)
  BY DEF Typed
<1>2. /\ IsFiniteSet(a) /\ IsFiniteSet(b) /\ IsFiniteSet(c)
  BY <1>1, FS_Subset DEF Finite
<1>3. /\ Good(d.series, a) /\ Good(d.series, b) /\ Good(d.series, c)
  BY GoodFewer DEF Sound
<1>4. Kept(d, q)
  BY <1>1, <1>2, <1>3 DEF Kept, Typed, Finite, Sound, Tables
<1>5. Kept(d, [d EXCEPT !.raw = a])
  BY <1>1, <1>2, <1>3 DEF Kept, Typed, Finite, Sound, Tables
<1>6. Kept(d, [d EXCEPT !.r5 = b])
  BY <1>1, <1>2, <1>3 DEF Kept, Typed, Finite, Sound, Tables
<1>7. Kept(d, [d EXCEPT !.r1 = c])
  BY <1>1, <1>2, <1>3 DEF Kept, Typed, Finite, Sound, Tables
<1> QED
  BY <1>4, <1>5, <1>6, <1>7

LEMMA GroupedRows ==
    ASSUME NEW rows \in Rows, IsFiniteSet(rows), NEW unit \in Nat \ {0},
           NEW series \in Owners, Good(series, rows)
    PROVE  /\ Grouped(rows, unit) \in Rows
           /\ IsFiniteSet(Grouped(rows, unit))
           /\ Good(series, Grouped(rows, unit))
<1> DEFINE G(q) == [sid |-> q.sid, at |-> Floor(q.at, unit),
                    of |-> UNION {r.of : r \in
                              Part(rows, q.sid, Floor(q.at, unit), unit)}]
<1> DEFINE f == [q \in rows |-> G(q)]
<1>1. Grouped(rows, unit) = {f[q] : q \in rows}
  BY DEF Grouped
<1>2. ASSUME NEW q \in rows
      PROVE  /\ f[q] \in Row
             /\ series[f[q].sid] # Nobody
             /\ \A p \in f[q].of : p[1] = series[f[q].sid]
  <2>1. q \in Row
    BY DEF Rows
  <2>2. q.sid \in Sid /\ q.at \in Nat
    BY <2>1 DEF Row, Time
  <2>3. Floor(q.at, unit) \in Nat
    BY <2>2 DEF Floor
  <2>4. UNION {r.of : r \in Part(rows, q.sid, Floor(q.at, unit), unit)}
            \in SUBSET Sample
    <3>1. \A r \in Part(rows, q.sid, Floor(q.at, unit), unit) :
              r.of \in SUBSET Sample
      BY DEF Part, Rows, Row
    <3> QED
      BY <3>1
  <2>5. f[q] = G(q)
    OBVIOUS
  <2>6. f[q] \in Row
    BY <2>2, <2>3, <2>4, <2>5 DEF Row, Time
  <2>7. series[q.sid] # Nobody
    BY DEF Good
  <2>8. ASSUME NEW p \in G(q).of PROVE p[1] = series[q.sid]
    <3>1. PICK r \in Part(rows, q.sid, Floor(q.at, unit), unit) : p \in r.of
      OBVIOUS
    <3>2. r \in rows /\ r.sid = q.sid
      BY DEF Part
    <3> QED
      BY <3>1, <3>2 DEF Good
  <2> QED
    BY <2>5, <2>6, <2>7, <2>8
<1>3. f \in Surjection(rows, Grouped(rows, unit))
  BY <1>1 DEF Surjection
<1>4. IsFiniteSet(Grouped(rows, unit))
  BY <1>3, FS_Surjection
<1>5. Grouped(rows, unit) \in Rows
  BY <1>1, <1>2 DEF Rows
<1>6. Good(series, Grouped(rows, unit))
  BY <1>1, <1>2 DEF Good
<1> QED
  BY <1>4, <1>5, <1>6

LEMMA ReplacedRows ==
    ASSUME NEW series, NEW old \in Rows, IsFiniteSet(old), Good(series, old),
           NEW new \in Rows, IsFiniteSet(new), Good(series, new)
    PROVE  /\ Replaced(old, new) \in Rows
           /\ IsFiniteSet(Replaced(old, new))
           /\ Good(series, Replaced(old, new))
<1> DEFINE rest == {r \in old : ~\E n \in new : n.sid = r.sid /\ n.at = r.at}
<1>1. rest \in SUBSET old /\ Replaced(old, new) = rest \cup new
  BY DEF Replaced
<1>2. IsFiniteSet(rest)
  BY <1>1, FS_Subset
<1>3. IsFiniteSet(rest \cup new)
  BY <1>2, FS_Union
<1>4. Good(series, rest \cup new)
  BY <1>1 DEF Good
<1> QED
  BY <1>1, <1>3, <1>4 DEF Rows

LEMMA FromTime ==
    ASSUME NEW cursor \in Nat, NEW rows \in Rows, NEW unit \in Nat \ {0}
    PROVE  From(cursor, rows, unit) \in Nat
<1>1. CASE cursor # Never \/ rows = {}
  BY <1>1 DEF From, Never
<1>2. CASE ~(cursor # Never \/ rows = {})
  <2> DEFINE times == {r.at : r \in rows}
  <2>1. times \in SUBSET Nat /\ times # {}
    BY <1>2 DEF Rows, Row, Time
  <2>2. Min(times) \in Nat
    BY <2>1, LeastIn
  <2> QED
    BY <1>2, <2>2 DEF From, Floor
<1> QED
  BY <1>1, <1>2

\* No bucket counted now is later than b.
LEMMA SteppedBase ==
    ASSUME NEW base \in [Sid -> Base], NEW new \in Rows, IsFiniteSet(new),
           NEW b \in Nat, \A r \in new : r.at <= b
    PROVE  Stepped(base, new) \in [Sid -> Base]
<1> SUFFICES ASSUME NEW s \in Sid
             PROVE  Stepped(base, new)[s] \in Base
  BY DEF Stepped
<1> DEFINE fresh == {r \in new : r.sid = s /\ r.at > base[s].at}
<1>1. CASE fresh = {}
  BY <1>1 DEF Stepped
<1>2. CASE fresh # {}
  <2>1. IsFiniteSet(fresh) /\ Cardinality(fresh) \in Nat
    BY FS_Subset, FS_CardinalityType
  <2> DEFINE times == {r.at : r \in fresh}
  <2>2. times \in SUBSET Nat /\ times # {} /\ \A t \in times : t <= b
    BY <1>2 DEF Rows, Row, Time
  <2>3. Max(times) \in Nat
    BY <2>2, GreatestIn
  <2>4. base[s].updates + Cardinality(fresh) \in Nat
    BY <2>1 DEF Base
  <2>5. Stepped(base, new)[s] = [updates |-> base[s].updates + Cardinality(fresh),
                                 at |-> Max(times)]
    BY <1>2 DEF Stepped
  <2> QED
    BY <2>3, <2>4, <2>5 DEF Base, Time
<1> QED
  BY <1>1, <1>2

LEMMA SteppedCounted ==
    ASSUME NEW base \in [Sid -> Base], NEW new \in Rows, NEW series,
           Counted(series, base), Good(series, new)
    PROVE  Counted(series, Stepped(base, new))
<1> SUFFICES ASSUME NEW s \in Sid, Stepped(base, new)[s].updates > 0
             PROVE  series[s] # Nobody
  BY DEF Counted
<1> DEFINE fresh == {r \in new : r.sid = s /\ r.at > base[s].at}
<1>1. CASE fresh = {}
  <2>1. Stepped(base, new)[s] = base[s]
    BY <1>1 DEF Stepped
  <2> QED
    BY <2>1 DEF Counted
<1>2. CASE fresh # {}
  BY <1>2 DEF Good
<1> QED
  BY <1>1, <1>2

\* A bucket begins no later than what it holds.
LEMMA FloorBelow ==
    ASSUME NEW t \in Nat, NEW unit \in Nat \ {0}
    PROVE  Floor(t, unit) \in Nat /\ Floor(t, unit) <= t
BY DEF Floor

LEMMA LesserTime ==
    ASSUME NEW a \in Nat, NEW b \in Nat
    PROVE  Lesser(a, b) \in Nat
BY DEF Lesser

LEMMA WatermarkTime ==
    ASSUME NEW t \in Nat PROVE Watermark(t) \in Nat
<1>1. Bucket \in Nat \ {0} /\ Slack \in Nat
  BY CatalogAssumption
<1>2. Ago(t, Slack) \in Nat
  BY <1>1 DEF Ago
<1> QED
  BY <1>1, <1>2, FloorBelow DEF Watermark

LEMMA GroupedBefore ==
    ASSUME NEW rows \in Rows, NEW from, NEW to \in Nat,
           NEW unit \in Nat \ {0},
           NEW r \in Grouped(Within(rows, from, to), unit)
    PROVE  r.at <= to
<1>1. PICK q \in Within(rows, from, to) : r.at = Floor(q.at, unit)
  BY DEF Grouped
<1>2. q \in Row /\ q.at < to
  BY DEF Within, Rows
<1>3. q.at \in Nat
  BY <1>2 DEF Row, Time
<1>4. Floor(q.at, unit) \in Nat /\ Floor(q.at, unit) <= q.at
  BY <1>3, FloorBelow
<1> QED
  BY <1>1, <1>2, <1>3, <1>4

LEMMA Rolled5Keeps ==
    ASSUME NEW d, Typed(d), Sound(d), NEW t \in Nat
    PROVE  Kept(d, Rolled5(d, t))
<1> DEFINE from == From(d.cur5, d.raw, Bucket)
           to   == Lesser(Watermark(t), from + Span)
           part == Within(d.raw, from, to)
           new  == Grouped(part, Bucket)
<1>1. /\ Bucket \in Nat \ {0} /\ Span \in Nat
      /\ d \in Tables /\ IsFiniteSet(d.raw) /\ IsFiniteSet(d.r5)
      /\ IsFiniteSet(d.r1)
  BY CatalogAssumption DEF Typed, Finite
<1>2. /\ d.series \in Owners /\ d.raw \in Rows /\ d.r5 \in Rows
      /\ d.base \in [Sid -> Base] /\ d.cur5 \in Nat
  BY <1>1, TablesFields
<1>3. from \in Nat /\ to \in Nat
  <2>1. from \in Nat
    BY <1>1, <1>2, FromTime
  <2>2. from + Span \in Nat
    BY <1>1, <2>1
  <2> QED
    BY <2>1, <2>2, WatermarkTime, LesserTime
<1>4. /\ part \in Rows /\ IsFiniteSet(part) /\ Good(d.series, part)
  <2>1. part \in SUBSET d.raw
    BY DEF Within
  <2>2. Good(d.series, d.raw)
    BY DEF Sound
  <2> QED
    BY <1>1, <1>2, <2>1, <2>2, FS_Subset, GoodFewer DEF Rows
<1>5. /\ new \in Rows /\ IsFiniteSet(new) /\ Good(d.series, new)
  BY <1>1, <1>2, <1>4, GroupedRows
<1>6. /\ Replaced(d.r5, new) \in Rows /\ IsFiniteSet(Replaced(d.r5, new))
      /\ Good(d.series, Replaced(d.r5, new))
  <2>1. Good(d.series, d.r5)
    BY DEF Sound
  <2> QED
    BY <1>1, <1>2, <1>5, <2>1, ReplacedRows
<1>7. \A r \in new : r.at <= to
  BY <1>1, <1>2, <1>3, GroupedBefore
<1>8. Stepped(d.base, new) \in [Sid -> Base]
  BY <1>2, <1>3, <1>5, <1>7, SteppedBase
<1>9. Counted(d.series, Stepped(d.base, new))
  <2>1. Counted(d.series, d.base)
    BY DEF Sound
  <2> QED
    BY <1>2, <1>5, <2>1, SteppedCounted
<1>10. CASE from = Never \/ to <= from
  BY <1>10 DEF Rolled5, Kept
<1>11. CASE ~(from = Never \/ to <= from)
  <2> DEFINE q == [d EXCEPT !.r5 = Replaced(@, new),
                            !.base = Stepped(@, new), !.cur5 = to]
  <2>1. Rolled5(d, t) = q
    BY <1>11 DEF Rolled5
  <2>2. q = [d EXCEPT !.r5 = Replaced(d.r5, new),
                      !.base = Stepped(d.base, new), !.cur5 = to]
    BY <1>1 DEF Tables
  <2> HIDE DEF from, to, part, new
  <2>3. q \in Tables
    BY <1>1, <1>3, <1>6, <1>8, <2>2 DEF Tables, Rows, Time
  <2>4. /\ q.raw = d.raw /\ q.r5 = Replaced(d.r5, new) /\ q.r1 = d.r1
        /\ q.base = Stepped(d.base, new)
        /\ q.series = d.series /\ q.ent = d.ent /\ q.inc = d.inc
    BY <1>1, <2>2 DEF Tables
  <2> HIDE DEF q
  <2>5. Finite(q)
    BY <1>1, <1>6, <2>4 DEF Finite
  <2>6. Sound(q)
    BY <1>6, <1>9, <2>4 DEF Sound
  <2> QED
    BY <2>1, <2>3, <2>4, <2>5, <2>6 DEF Kept, Typed
<1> QED
  BY <1>10, <1>11

LEMMA Rolled1Keeps ==
    ASSUME NEW d, Typed(d), Sound(d)
    PROVE  Kept(d, Rolled1(d))
<1> DEFINE from == From(d.cur1, d.r5, Hour)
           to   == Lesser(Floor(d.cur5, Hour), from + Span)
           part == Within(d.r5, from, to)
           new  == Grouped(part, Hour)
<1>1. /\ Hour \in Nat \ {0} /\ Span \in Nat
      /\ d \in Tables /\ IsFiniteSet(d.raw) /\ IsFiniteSet(d.r5)
      /\ IsFiniteSet(d.r1)
  BY CatalogAssumption DEF Typed, Finite
<1>2. /\ d.series \in Owners /\ d.r1 \in Rows /\ d.r5 \in Rows
      /\ d.cur5 \in Nat /\ d.cur1 \in Nat
  BY <1>1, TablesFields
<1>3. to \in Nat
  <2>1. from \in Nat
    BY <1>1, <1>2, FromTime
  <2>2. from + Span \in Nat
    BY <1>1, <2>1
  <2>3. Floor(d.cur5, Hour) \in Nat
    BY <1>1, <1>2, FloorBelow
  <2> QED
    BY <2>2, <2>3, LesserTime
<1>4. /\ part \in Rows /\ IsFiniteSet(part) /\ Good(d.series, part)
  <2>1. part \in SUBSET d.r5
    BY DEF Within
  <2>2. Good(d.series, d.r5)
    BY DEF Sound
  <2> QED
    BY <1>1, <1>2, <2>1, <2>2, FS_Subset, GoodFewer DEF Rows
<1>5. /\ new \in Rows /\ IsFiniteSet(new) /\ Good(d.series, new)
  BY <1>1, <1>2, <1>4, GroupedRows
<1>6. /\ Replaced(d.r1, new) \in Rows /\ IsFiniteSet(Replaced(d.r1, new))
      /\ Good(d.series, Replaced(d.r1, new))
  <2>1. Good(d.series, d.r1)
    BY DEF Sound
  <2> QED
    BY <1>1, <1>2, <1>5, <2>1, ReplacedRows
<1>7. CASE from = Never \/ to <= from
  BY <1>7 DEF Rolled1, Kept
<1>8. CASE ~(from = Never \/ to <= from)
  <2> DEFINE q == [d EXCEPT !.r1 = Replaced(@, new), !.cur1 = to]
  <2>1. Rolled1(d) = q
    BY <1>8 DEF Rolled1
  <2>2. q = [d EXCEPT !.r1 = Replaced(d.r1, new), !.cur1 = to]
    BY <1>1 DEF Tables
  <2> HIDE DEF from, to, part, new
  <2>3. q \in Tables
    BY <1>1, <1>3, <1>6, <2>2 DEF Tables, Rows, Time
  <2>4. /\ q.raw = d.raw /\ q.r5 = d.r5 /\ q.r1 = Replaced(d.r1, new)
        /\ q.base = d.base
        /\ q.series = d.series /\ q.ent = d.ent /\ q.inc = d.inc
    BY <1>1, <2>2 DEF Tables
  <2> HIDE DEF q
  <2>5. Finite(q)
    BY <1>1, <1>6, <2>4 DEF Finite
  <2>6. Sound(q)
    BY <1>6, <2>4 DEF Sound
  <2> QED
    BY <2>1, <2>3, <2>4, <2>5, <2>6 DEF Kept, Typed
<1> QED
  BY <1>7, <1>8

LEMMA KeptOn ==
    ASSUME NEW d, NEW q, NEW p, Kept(d, q), Kept(q, p)
    PROVE  Kept(d, p)
BY DEF Kept

LEMMA PicksFewer ==
    ASSUME NEW rows, NEW x \in Picks(rows)
    PROVE  x \in SUBSET rows
BY DEF Picks, kSubset

LEMMA PrunedKeeps ==
    ASSUME NEW d, Typed(d), Sound(d), NEW t, NEW q \in Pruned(d, t)
    PROVE  Kept(d, q)
<1> DEFINE process == Entity \ Durable
           picks == Picks(Past(d.raw, t, RawKeep))
                    \X Tier(d, d.r5, Durable, t, R5KeepDurable)
                    \X Tier(d, d.r5, process, t, R5KeepProcess)
                    \X Tier(d, d.r1, Durable, t, R1KeepDurable)
                    \X Tier(d, d.r1, process, t, R1KeepProcess)
           less(p) == [d EXCEPT !.raw = @ \ p[1], !.r5 = @ \ (p[2] \cup p[3]),
                                !.r1 = @ \ (p[4] \cup p[5])]
<1>1. PICK p \in picks : q = less(p)
  BY Zenon DEF Pruned
<1>2. /\ d.raw \ p[1] \in SUBSET d.raw
      /\ d.r5 \ (p[2] \cup p[3]) \in SUBSET d.r5
      /\ d.r1 \ (p[4] \cup p[5]) \in SUBSET d.r1
  OBVIOUS
<1> QED
  BY <1>1, <1>2, FewerRows

ErasedSeries(d, es) ==
    [s \in Sid |-> IF d.series[s] \in es THEN Nobody ELSE d.series[s]]
ErasedBase(d, es) ==
    [s \in Sid |-> IF d.series[s] \in es THEN NoBase ELSE d.base[s]]
ErasedEnt(d, es) ==
    [e \in Entity |-> IF e \in es THEN Unknown ELSE d.ent[e]]

LEMMA ErasedTables ==
    ASSUME NEW d, NEW es
    PROVE  Erased(d, es) =
             [d EXCEPT !.raw = d.raw \ Of(d, d.raw, es),
                       !.r5 = d.r5 \ Of(d, d.r5, es),
                       !.r1 = d.r1 \ Of(d, d.r1, es),
                       !.base = ErasedBase(d, es),
                       !.series = ErasedSeries(d, es),
                       !.ent = ErasedEnt(d, es)]
BY DEF Erased, ErasedSeries, ErasedBase, ErasedEnt

LEMMA ErasedGood ==
    ASSUME NEW d \in Tables, NEW es \in SUBSET Entity, NEW rows \in Rows,
           Good(d.series, rows)
    PROVE  Good(ErasedSeries(d, es), rows \ Of(d, rows, es))
<1> SUFFICES ASSUME NEW r \in rows \ Of(d, rows, es)
             PROVE  ErasedSeries(d, es)[r.sid] = d.series[r.sid]
  BY DEF Good
<1>1. r.sid \in Sid
  BY DEF Rows, Row
<1>2. d.series[r.sid] \notin es
  BY DEF Of
<1> QED
  BY <1>1, <1>2 DEF ErasedSeries

LEMMA ErasedKeeps ==
    ASSUME NEW d, Typed(d), Sound(d), NEW es \in SUBSET Entity
    PROVE  /\ Typed(Erased(d, es)) /\ Sound(Erased(d, es))
           /\ Erased(d, es).series = ErasedSeries(d, es)
           /\ Erased(d, es).ent = ErasedEnt(d, es)
           /\ Erased(d, es).inc = d.inc
<1> DEFINE q == Erased(d, es)
<1>1. d \in Tables /\ Finite(d)
  BY DEF Typed
<1>2. /\ d.series \in Owners
      /\ d.raw \in Rows /\ d.r5 \in Rows /\ d.r1 \in Rows
      /\ d.base \in [Sid -> Base] /\ d.cur5 \in Nat /\ d.cur1 \in Nat
      /\ d.reap \in Entity \cup {0} /\ d.ent \in [Entity -> Known]
      /\ d.inc \in SUBSET Entity
  BY <1>1, TablesFields
<1>3. /\ q.series = ErasedSeries(d, es) /\ q.raw = d.raw \ Of(d, d.raw, es)
      /\ q.r5 = d.r5 \ Of(d, d.r5, es) /\ q.r1 = d.r1 \ Of(d, d.r1, es)
      /\ q.base = ErasedBase(d, es) /\ q.ent = ErasedEnt(d, es)
      /\ q.inc = d.inc
  BY <1>1, ErasedTables DEF Tables
<1>4. q \in Tables
  <2>1. ErasedSeries(d, es) \in Owners
    BY <1>2 DEF ErasedSeries, Owners
  <2>2. NoBase \in Base /\ Unknown \in Known
    BY DEF NoBase, Base, Unknown, Known, Time, Never
  <2>3. ErasedBase(d, es) \in [Sid -> Base]
    BY <1>2, <2>2 DEF ErasedBase
  <2>4. ErasedEnt(d, es) \in [Entity -> Known]
    BY <1>2, <2>2 DEF ErasedEnt
  <2>5. /\ d.raw \ Of(d, d.raw, es) \in Rows
        /\ d.r5 \ Of(d, d.r5, es) \in Rows
        /\ d.r1 \ Of(d, d.r1, es) \in Rows
    BY <1>2 DEF Rows
  <2> QED
    BY <1>1, <1>2, <2>1, <2>3, <2>4, <2>5, ErasedTables
      DEF Tables, Owners, Rows, Time
<1> HIDE DEF q
<1>5. Finite(q)
  BY <1>1, <1>3, FS_Subset DEF Finite
<1>6. Counted(q.series, q.base)
  <2> SUFFICES ASSUME NEW s \in Sid, ErasedBase(d, es)[s].updates > 0
               PROVE  ErasedSeries(d, es)[s] # Nobody
    BY <1>3 DEF Counted
  <2>1. d.series[s] \notin es /\ ErasedBase(d, es)[s] = d.base[s]
    BY DEF ErasedBase, NoBase
  <2>2. d.series[s] # Nobody
    BY <2>1 DEF Sound, Counted
  <2> QED
    BY <2>1, <2>2 DEF ErasedSeries
<1>7. Sound(q)
  BY <1>1, <1>2, <1>3, <1>6, ErasedGood DEF Sound
<1> QED
  BY <1>3, <1>4, <1>5, <1>7 DEF Typed, q

LEMMA ReapedEntities ==
    ASSUME NEW d PROVE Reaped(d) \in SUBSET Entity
BY DEF Reaped, Visited

LEMMA AfterReapKeeps ==
    ASSUME NEW d, Typed(d), Sound(d)
    PROVE  /\ Typed(AfterReap(d)) /\ Sound(AfterReap(d))
           /\ AfterReap(d).series = ErasedSeries(d, Reaped(d))
           /\ AfterReap(d).ent = ErasedEnt(d, Reaped(d))
           /\ AfterReap(d).inc = d.inc
<1> DEFINE q == Erased(d, Reaped(d))
           at == IF Cardinality(Visited(d)) < ReapScan THEN 0
                 ELSE Max(Visited(d))
<1>1. /\ Typed(q) /\ Sound(q) /\ q.series = ErasedSeries(d, Reaped(d))
      /\ q.ent = ErasedEnt(d, Reaped(d)) /\ q.inc = d.inc
  BY ReapedEntities, ErasedKeeps
<1>2. at \in Entity \cup {0}
  <2>1. CASE Cardinality(Visited(d)) < ReapScan
    BY <2>1
  <2>2. CASE ~(Cardinality(Visited(d)) < ReapScan)
    <3> DEFINE n == Cardinality(Entity)
    <3>1. /\ n \in Nat /\ Entity = 1..n /\ ReapScan \in Nat \ {0}
      BY CatalogAssumption, FS_CardinalityType
    <3>2. Visited(d) # {}
      <4>1. SUFFICES ASSUME Visited(d) = {} PROVE FALSE
        OBVIOUS
      <4>2. Cardinality(Visited(d)) = 0
        BY <4>1, FS_EmptySet
      <4> QED
        BY <2>2, <3>1, <4>2
    <3>3. Visited(d) \in SUBSET Nat /\ \A e \in Visited(d) : e <= n
      <4>1. Visited(d) \in SUBSET Entity
        BY DEF Visited
      <4> HIDE DEF n
      <4> QED
        BY <3>1, <4>1
    <3>4. Max(Visited(d)) \in Visited(d)
      BY <3>1, <3>2, <3>3, GreatestIn
    <3> QED
      BY <2>2, <3>4 DEF Visited
  <2> QED
    BY <2>1, <2>2
<1>3. AfterReap(d) = [q EXCEPT !.reap = at]
  BY DEF AfterReap
<1> HIDE DEF q, at
<1>4. q \in Tables /\ Finite(q)
  BY <1>1 DEF Typed
<1>5. AfterReap(d) \in Tables
  BY <1>2, <1>3, <1>4 DEF Tables
<1>6. /\ AfterReap(d).raw = q.raw /\ AfterReap(d).r5 = q.r5
      /\ AfterReap(d).r1 = q.r1 /\ AfterReap(d).base = q.base
      /\ AfterReap(d).series = q.series /\ AfterReap(d).ent = q.ent
      /\ AfterReap(d).inc = q.inc
  BY <1>3, <1>4 DEF Tables
<1> QED
  BY <1>1, <1>4, <1>5, <1>6 DEF Typed, Finite, Sound

LEMMA ExpirableRows ==
    ASSUME NEW d, NEW t, NEW x \in Expirable(d, t)
    PROVE  x \in SUBSET d.r1
BY DEF Expirable, Of

LEMMA DegradationsKeep ==
    ASSUME NEW d, Typed(d), Sound(d), NEW t, NEW q \in Degradations(d, t)
    PROVE  Kept(d, q)
<1> DEFINE raw == {[d EXCEPT !.raw = @ \ x] : x \in Picks(Past(d.raw, t, RawDay))}
           r5  == UNION {{[p EXCEPT !.r5 = @ \ x] : x \in Oldest(p.r5)} : p \in raw}
           r1  == UNION {{[p EXCEPT !.r1 = @ \ x] : x \in Oldest(p.r1)} : p \in r5}
<1>1. q \in {d} \cup raw \cup r5 \cup r1
  BY DEF Degradations
<1>2. ASSUME NEW p \in raw PROVE Kept(d, p)
  <2>1. PICK x : p = [d EXCEPT !.raw = @ \ x]
    OBVIOUS
  <2>2. p = [d EXCEPT !.raw = d.raw \ x]
    BY <2>1 DEF Typed, Tables
  <2>3. d.raw \ x \in SUBSET d.raw
    OBVIOUS
  <2> QED
    BY <2>2, <2>3, FewerRows
<1>3. ASSUME NEW p \in r5 PROVE Kept(d, p)
  <2>1. PICK o \in raw : \E x : p = [o EXCEPT !.r5 = @ \ x]
    OBVIOUS
  <2>2. PICK x : p = [o EXCEPT !.r5 = @ \ x]
    BY <2>1
  <2>3. Kept(d, o)
    BY <1>2
  <2>4. p = [o EXCEPT !.r5 = o.r5 \ x]
    BY <2>2, <2>3 DEF Kept, Typed, Tables
  <2>5. o.r5 \ x \in SUBSET o.r5
    OBVIOUS
  <2>6. Kept(o, p)
    <3>1. Typed(o) /\ Sound(o)
      BY <2>3 DEF Kept
    <3> HIDE DEF raw, r5
    <3> QED
      BY <2>4, <2>5, <3>1, FewerRows
  <2> QED
    BY <2>3, <2>6, KeptOn
<1>4. ASSUME NEW p \in r1 PROVE Kept(d, p)
  <2>1. PICK o \in r5 : \E x : p = [o EXCEPT !.r1 = @ \ x]
    OBVIOUS
  <2>2. PICK x : p = [o EXCEPT !.r1 = @ \ x]
    BY <2>1
  <2>3. Kept(d, o)
    BY <1>3
  <2>4. p = [o EXCEPT !.r1 = o.r1 \ x]
    BY <2>2, <2>3 DEF Kept, Typed, Tables
  <2>5. o.r1 \ x \in SUBSET o.r1
    OBVIOUS
  <2>6. Kept(o, p)
    <3>1. Typed(o) /\ Sound(o)
      BY <2>3 DEF Kept
    <3> HIDE DEF raw, r5
    <3> QED
      BY <2>4, <2>5, <3>1, FewerRows
  <2> QED
    BY <2>3, <2>6, KeptOn
<1>5. Kept(d, d)
  BY DEF Kept
<1> HIDE DEF raw, r5, r1
<1> QED
  BY <1>1, <1>2, <1>3, <1>4, <1>5

LEMMA RetentionKeeps ==
    ASSUME NEW o, Typed(o), Sound(o), NEW t \in Nat,
           NEW d \in Pruned(Rolled1(Rolled5(o, t)), t),
           NEW x \in Expirable(AfterReap(d), t),
           NEW q \in Degradations([AfterReap(d) EXCEPT !.r1 = @ \ x], t)
    PROVE  /\ Typed(q) /\ Sound(q)
           /\ q.series = ErasedSeries(o, Reaped(d))
           /\ q.ent = ErasedEnt(o, Reaped(d)) /\ q.inc = o.inc
           /\ AfterReap(d) \in Tables /\ d.cur1 \in Nat
<1>1. Kept(o, Rolled5(o, t))
  BY Rolled5Keeps
<1>2. Kept(Rolled5(o, t), Rolled1(Rolled5(o, t)))
  BY <1>1, Rolled1Keeps DEF Kept
<1>3. Kept(Rolled1(Rolled5(o, t)), d)
  BY <1>2, PrunedKeeps DEF Kept
<1>4. Kept(o, d)
  BY <1>1, <1>2, <1>3, KeptOn
<1> DEFINE a == AfterReap(d)
           e == [a EXCEPT !.r1 = @ \ x]
<1>5. /\ Typed(a) /\ Sound(a) /\ a.series = ErasedSeries(d, Reaped(d))
      /\ a.ent = ErasedEnt(d, Reaped(d)) /\ a.inc = d.inc
  BY <1>4, AfterReapKeeps DEF Kept
<1>6. Kept(a, e)
  <2>1. e = [a EXCEPT !.r1 = a.r1 \ x]
    OBVIOUS
  <2>2. a.r1 \ x \in SUBSET a.r1
    OBVIOUS
  <2> HIDE DEF a, e
  <2> QED
    BY <1>5, <2>1, <2>2, FewerRows
<1>7. Kept(e, q)
  BY <1>6, DegradationsKeep DEF Kept
<1>8. Kept(a, q)
  BY <1>6, <1>7, KeptOn
<1>9. /\ ErasedSeries(d, Reaped(d)) = ErasedSeries(o, Reaped(d))
      /\ ErasedEnt(d, Reaped(d)) = ErasedEnt(o, Reaped(d)) /\ d.inc = o.inc
  BY <1>4 DEF Kept, ErasedSeries, ErasedEnt
<1>10. d.cur1 \in Nat
  BY <1>4, TablesFields DEF Kept, Typed
<1> HIDE DEF a, e
<1> QED
  BY <1>5, <1>8, <1>9, <1>10 DEF Kept, Typed, a
-----------------------------------------------------------------------------
\* Whose the id s is once the buffers p are in the tables d.
Owner(d, p, s) ==
    IF p.series[s] # Nobody THEN p.series[s]
    ELSE IF d.series[s] \in p.forget THEN Nobody ELSE d.series[s]

\* The ids the writer holds and gives out.
CacheOwned(d, p, c) ==
    \A e \in Entity : c[e] # NoSid => c[e] \in Sid /\ Owner(d, p, c[e]) = e
NextFree(d, p, n) ==
    n # NoSid => \A s \in Sid :
        d.series[s] # Nobody \/ p.series[s] # Nobody => s < n
PendFresh(d, p) ==
    \A s \in Sid : p.series[s] # Nobody => d.series[s] = Nobody
PendOwned(d, p) ==
    \A r \in p.raw : /\ Owner(d, p, r.sid) # Nobody
                     /\ \A a \in r.of : a[1] = Owner(d, p, r.sid)
Ids(d, p, c, n) ==
    CacheOwned(d, p, c) /\ NextFree(d, p, n) /\ PendFresh(d, p)
    /\ PendOwned(d, p)

LEMMA NatSets ==
    /\ Sid \in SUBSET (Nat \ {0}) /\ Entity \in SUBSET (Nat \ {0})
    /\ IsFiniteSet(Entity) /\ Cardinality(Sid) \in Nat
    /\ \A s \in Sid : s <= Cardinality(Sid)
<1> DEFINE n == Cardinality(Sid)
           m == Cardinality(Entity)
<1>1. n \in Nat /\ m \in Nat /\ Sid = 1..n /\ Entity = 1..m
  BY CatalogAssumption, FS_CardinalityType
<1>2. IsFiniteSet(Entity)
  BY CatalogAssumption
<1> HIDE DEF n, m
<1>3. Sid \in SUBSET (Nat \ {0}) /\ Entity \in SUBSET (Nat \ {0})
      /\ \A s \in Sid : s <= n
  BY <1>1
<1> QED
  BY <1>1, <1>2, <1>3 DEF n

LEMMA CommittedKeeps ==
    ASSUME Typed(db), Sound(db), pend \in Buffers, IsFiniteSet(pend.raw),
           open \in SUBSET Entity, PendFresh(db, pend), PendOwned(db, pend)
    PROVE  /\ Typed(Committed) /\ Sound(Committed)
           /\ Committed.series = [s \in Sid |-> Owner(db, pend, s)]
           /\ Committed.ent = [e \in Entity |->
                 IF pend.ent[e].stored THEN pend.ent[e]
                 ELSE ErasedEnt(db, pend.forget)[e]]
           /\ Committed.inc = (db.inc \ pend.inc) \cup (open \cap pend.inc)
<1> DEFINE d == Erased(db, pend.forget)
           series == [s \in Sid |-> Owner(db, pend, s)]
           raw == Replaced(d.raw, pend.raw)
           ent == [e \in Entity |-> IF pend.ent[e].stored THEN pend.ent[e]
                                    ELSE d.ent[e]]
           inc == (d.inc \ pend.inc) \cup (open \cap pend.inc)
<1>1. /\ pend.forget \in SUBSET Entity /\ pend.series \in Owners
      /\ pend.raw \in Rows /\ pend.ent \in [Entity -> Known]
      /\ pend.inc \in SUBSET Entity
  BY DEF Buffers, Owners, Rows
<1>2. /\ Typed(d) /\ Sound(d) /\ d.series = ErasedSeries(db, pend.forget)
      /\ d.ent = ErasedEnt(db, pend.forget) /\ d.inc = db.inc
  BY <1>1, ErasedKeeps
<1>3. d \in Tables /\ Finite(d)
  BY <1>2 DEF Typed
<1>4. /\ d.series \in Owners /\ d.raw \in Rows /\ d.r5 \in Rows
      /\ d.r1 \in Rows /\ d.ent \in [Entity -> Known]
      /\ d.inc \in SUBSET Entity
  BY <1>3, TablesFields
<1>5. db.series \in Owners
  BY TablesFields DEF Typed
<1>6. ASSUME NEW s \in Sid, d.series[s] # Nobody
      PROVE  series[s] = d.series[s]
  <2>1. db.series[s] # Nobody /\ db.series[s] \notin pend.forget
        /\ d.series[s] = db.series[s]
    BY <1>2, <1>6 DEF ErasedSeries
  <2>2. pend.series[s] = Nobody
    BY <2>1 DEF PendFresh
  <2> QED
    BY <2>1, <2>2 DEF Owner
<1>7. series \in Owners
  BY <1>1, <1>5 DEF Owner, Owners
<1>8. ASSUME NEW rows \in Rows, Good(d.series, rows)
      PROVE  Good(series, rows)
  <2> SUFFICES ASSUME NEW r \in rows
               PROVE  /\ series[r.sid] # Nobody
                      /\ \A p \in r.of : p[1] = series[r.sid]
    BY DEF Good
  <2>1. r.sid \in Sid
    BY DEF Rows, Row
  <2>2. d.series[r.sid] # Nobody
    BY <1>8 DEF Good
  <2>3. series[r.sid] = d.series[r.sid]
    BY <1>6, <2>1, <2>2
  <2> QED
    BY <1>8, <2>2, <2>3 DEF Good
<1>9. /\ Good(series, d.raw) /\ Good(series, d.r5) /\ Good(series, d.r1)
      /\ Counted(series, d.base)
  <2>1. /\ Good(d.series, d.raw) /\ Good(d.series, d.r5)
        /\ Good(d.series, d.r1) /\ Counted(d.series, d.base)
    BY <1>2 DEF Sound
  <2>2. Counted(series, d.base)
    BY <1>6, <2>1 DEF Counted
  <2> HIDE DEF d, series
  <2> QED
    BY <1>4, <1>8, <2>1, <2>2
<1>10. Good(series, pend.raw)
  <2> SUFFICES ASSUME NEW r \in pend.raw
               PROVE  series[r.sid] = Owner(db, pend, r.sid)
    BY DEF Good, PendOwned
  <2>1. r.sid \in Sid
    BY <1>1 DEF Rows, Row
  <2> QED
    BY <2>1
<1>11. raw \in Rows /\ IsFiniteSet(raw) /\ Good(series, raw)
  <2> HIDE DEF d, series
  <2> QED
    BY <1>1, <1>3, <1>4, <1>9, <1>10, ReplacedRows DEF Finite
<1>12. ent \in [Entity -> Known] /\ inc \in SUBSET Entity
  BY <1>1, <1>4
<1>13. Committed = [d EXCEPT !.series = series, !.raw = raw, !.ent = ent,
                             !.inc = inc]
  <2>1. \A s \in Sid :
           (IF pend.series[s] # Nobody THEN pend.series[s] ELSE d.series[s])
             = Owner(db, pend, s)
    BY <1>2 DEF Owner, ErasedSeries
  <2>2. [s \in Sid |-> IF pend.series[s] # Nobody THEN pend.series[s]
                       ELSE d.series[s]] = series
    BY <2>1
  <2> QED
    BY <2>2 DEF Committed
<1> HIDE DEF d, series, raw, ent, inc
<1>14. Committed \in Tables
  BY <1>3, <1>7, <1>11, <1>12, <1>13 DEF Tables, Owners, Rows
<1>15. /\ Committed.series = series /\ Committed.raw = raw
       /\ Committed.r5 = d.r5 /\ Committed.r1 = d.r1
       /\ Committed.base = d.base /\ Committed.ent = ent
       /\ Committed.inc = inc
  BY <1>3, <1>13 DEF Tables
<1>16. Typed(Committed) /\ Sound(Committed)
  BY <1>3, <1>9, <1>11, <1>14, <1>15 DEF Typed, Finite, Sound
<1> QED
  BY <1>2, <1>15, <1>16 DEF series, ent, inc
-----------------------------------------------------------------------------
\* Between two ticks nothing is buffered, and Owner is the table.
LEMMA NothingBuffered ==
    ASSUME NEW s \in Sid, NEW d PROVE Owner(d, EmptyBuffers, s) = d.series[s]
BY DEF Owner, EmptyBuffers

LEMMA EmptyTyped ==
    /\ EmptyBuffers \in Buffers /\ IsFiniteSet(EmptyBuffers.raw)
    /\ EmptyTables \in Tables /\ Finite(EmptyTables)
<1>1. Unknown \in Known /\ NoBase \in Base
  BY DEF Unknown, Known, NoBase, Base, Time, Never
<1> QED
  BY <1>1, FS_EmptySet DEF EmptyBuffers, Buffers, EmptyTables, Tables, Finite,
     Time, Never

LEMMA FreeSidAbove ==
    ASSUME db \in Tables, nextSid \in Nat, NextFree(db, EmptyBuffers, nextSid)
    PROVE  /\ FreeSid \in Nat \ {0}
           /\ \A s \in Sid : db.series[s] # Nobody => s < FreeSid
<1>1. CASE nextSid # NoSid
  BY <1>1, NatSets DEF FreeSid, NextFree, NoSid
<1>2. CASE nextSid = NoSid
  <2> DEFINE taking == {NoSid} \cup {s \in Sid : db.series[s] # Nobody}
  <2>1. /\ taking \in SUBSET Nat /\ taking # {}
        /\ \A s \in taking : s <= Cardinality(Sid)
    <3>1. PICK n \in Nat : n = Cardinality(Sid)
      BY NatSets
    <3>2. Sid \in SUBSET Nat /\ \A s \in Sid : s <= n
      BY <3>1, NatSets
    <3>3. taking \in SUBSET Nat
      <4>1. {s \in Sid : db.series[s] # Nobody} \in SUBSET Sid
        OBVIOUS
      <4>2. NoSid \in Nat
        BY DEF NoSid
      <4> QED
        BY <3>2, <4>1, <4>2, Zenon
    <3>4. 0 \in taking
      BY DEF NoSid
    <3>5. \A s \in taking : s <= n
      BY <3>1, <3>2 DEF NoSid
    <3> HIDE DEF taking
    <3> QED
      BY <3>1, <3>3, <3>4, <3>5
  <2>2. Max(taking) \in taking /\ \A s \in taking : s <= Max(taking)
    BY <2>1, NatSets, GreatestIn
  <2>3. FreeSid = 1 + Max(taking)
    BY <1>2 DEF FreeSid
  <2>4. Max(taking) \in Nat
    BY <2>1, <2>2
  <2>5. ASSUME NEW s \in Sid, db.series[s] # Nobody PROVE s < FreeSid
    <3>1. s <= Max(taking) /\ s \in Nat
      BY <2>2, <2>5, NatSets
    <3> HIDE DEF taking
    <3> QED
      BY <2>3, <2>4, <3>1
  <2> QED
    BY <2>3, <2>4, <2>5
<1> QED
  BY <1>1, <1>2

LEMMA KnownOwned ==
    ASSUME db \in Tables, CacheOwned(db, EmptyBuffers, cache),
           NEW e \in Entity, KnownSid(e) # NoSid
    PROVE  KnownSid(e) \in Sid /\ db.series[KnownSid(e)] = e
<1>1. CASE cache[e] # NoSid
  BY <1>1, NothingBuffered DEF KnownSid, CacheOwned
<1>2. CASE cache[e] = NoSid
  <2>1. KnownSid(e) = StoredSid(e)
    BY <1>2 DEF KnownSid
  <2>2. \E s \in Sid : db.series[s] = e
    BY <2>1 DEF StoredSid
  <2> QED
    BY <2>1, <2>2 DEF StoredSid
<1> QED
  BY <1>1, <1>2

\* Newcomers get different ids, none below FreeSid.
LEMMA NewcomerSids ==
    ASSUME db \in Tables, nextSid \in Nat, NextFree(db, EmptyBuffers, nextSid),
           NEW k
    PROVE  /\ Cardinality(Newcomers(k)) \in Nat
           /\ \A e \in Newcomers(k) :
                /\ SidOf(k, e) \in Nat /\ FreeSid <= SidOf(k, e)
                /\ SidOf(k, e) < FreeSid + Cardinality(Newcomers(k))
           /\ \A e, f \in Newcomers(k) : SidOf(k, e) = SidOf(k, f) => e = f
<1> DEFINE Before(e) == {f \in Newcomers(k) : f < e}
<1>1. Newcomers(k) \in SUBSET Entity
  BY DEF Newcomers, Those
<1>2. IsFiniteSet(Newcomers(k)) /\ Cardinality(Newcomers(k)) \in Nat
  BY <1>1, NatSets, FS_Subset, FS_CardinalityType
<1>3. FreeSid \in Nat
  BY FreeSidAbove
<1>4. ASSUME NEW e \in Newcomers(k)
      PROVE  /\ IsFiniteSet(Before(e)) /\ Cardinality(Before(e)) \in Nat
             /\ Cardinality(Before(e)) < Cardinality(Newcomers(k))
             /\ SidOf(k, e) = FreeSid + Cardinality(Before(e))
  <2>1. Before(e) \in SUBSET Newcomers(k)
    OBVIOUS
  <2>2. IsFiniteSet(Before(e)) /\ Cardinality(Before(e)) \in Nat
        /\ Cardinality(Before(e)) <= Cardinality(Newcomers(k))
        /\ (Cardinality(Before(e)) = Cardinality(Newcomers(k))
              => Newcomers(k) = Before(e))
    BY <1>2, <2>1, FS_Subset, FS_CardinalityType
  <2>3. e \in Nat
    BY <1>1, NatSets
  <2>4. e \notin Before(e)
    BY <2>3
  <2>5. Cardinality(Before(e)) # Cardinality(Newcomers(k))
    BY <2>2, <2>4
  <2> QED
    BY <1>2, <2>2, <2>5 DEF SidOf
<1>5. ASSUME NEW e \in Newcomers(k), NEW f \in Newcomers(k), e < f
      PROVE  Cardinality(Before(e)) < Cardinality(Before(f))
  <2>1. e \in Nat /\ f \in Nat
    BY <1>1, NatSets
  <2>2. Before(e) \in SUBSET Before(f) /\ e \in Before(f) /\ e \notin Before(e)
    <3>1. Newcomers(k) \in SUBSET Nat
      BY <1>1, NatSets
    <3> QED
      BY <1>5, <2>1, <3>1
  <2>3. /\ Cardinality(Before(e)) <= Cardinality(Before(f))
        /\ (Cardinality(Before(f)) = Cardinality(Before(e))
              => Before(f) = Before(e))
    BY <1>4, <2>2, FS_Subset
  <2>4. Cardinality(Before(e)) \in Nat /\ Cardinality(Before(f)) \in Nat
    BY <1>4
  <2> HIDE DEF Before
  <2> QED
    BY <2>2, <2>3, <2>4
<1>6. ASSUME NEW e \in Newcomers(k), NEW f \in Newcomers(k),
             SidOf(k, e) = SidOf(k, f)
      PROVE  e = f
  <2>1. e \in Nat /\ f \in Nat
    BY <1>1, NatSets
  <2>2. /\ Cardinality(Before(e)) \in Nat /\ Cardinality(Before(f)) \in Nat
        /\ SidOf(k, e) = FreeSid + Cardinality(Before(e))
        /\ SidOf(k, f) = FreeSid + Cardinality(Before(f))
    BY <1>4
  <2>3. Cardinality(Before(e)) = Cardinality(Before(f))
    <3>1. PICK a \in Nat, b \in Nat, m \in Nat :
            /\ a = Cardinality(Before(e)) /\ b = Cardinality(Before(f))
            /\ m = FreeSid
      BY <1>3, <2>2
    <3>2. m + a = m + b
      BY <1>6, <2>2, <3>1
    <3>3. a = b
      BY <3>2
    <3> QED
      BY <3>1, <3>3
  <2>4. ~(e < f) /\ ~(f < e)
    <3>1. ASSUME e < f PROVE FALSE
      <4>1. Cardinality(Before(e)) < Cardinality(Before(f))
        BY <1>5, <3>1
      <4> HIDE DEF Before
      <4> QED
        BY <2>2, <2>3, <4>1
    <3>2. ASSUME f < e PROVE FALSE
      <4>1. Cardinality(Before(f)) < Cardinality(Before(e))
        BY <1>5, <3>2
      <4> HIDE DEF Before
      <4> QED
        BY <2>2, <2>3, <4>1
    <3> QED
      BY <3>1, <3>2
  <2> QED
    BY <2>1, <2>4
<1>7. ASSUME NEW e \in Newcomers(k)
      PROVE  /\ SidOf(k, e) \in Nat /\ FreeSid <= SidOf(k, e)
             /\ SidOf(k, e) < FreeSid + Cardinality(Newcomers(k))
  <2>1. /\ Cardinality(Before(e)) \in Nat
        /\ Cardinality(Before(e)) < Cardinality(Newcomers(k))
        /\ SidOf(k, e) = FreeSid + Cardinality(Before(e))
    BY <1>4
  <2> HIDE DEF Before
  <2> QED
    BY <1>2, <1>3, <2>1
<1> QED
  BY <1>2, <1>6, <1>7

\* A tick's buffers leave every id to its entity.
LEMMA TickIds ==
    ASSUME db \in Tables, nextSid \in Nat, cache \in [Entity -> Sid \cup {NoSid}],
           Ids(db, EmptyBuffers, cache, nextSid),
           NEW k \in Snapshot, NEW t, NEW gone, NEW live,
           \A e \in Newcomers(k) : SidOf(k, e) \in Sid,
           NEW p, p = Buffered(k, t, gone, live),
           NEW c, c = [e \in Entity |->
                         CASE k[e] = "exempt" -> NoSid
                           [] k[e] = "kept" -> SidOf(k, e)
                           [] OTHER -> cache[e]],
           NEW n, n = IF Newcomers(k) = {} THEN nextSid
                      ELSE FreeSid + Cardinality(Newcomers(k))
    PROVE  Ids(db, p, c, n) /\ n \in Nat /\ c \in [Entity -> Sid \cup {NoSid}]
<1>1. /\ CacheOwned(db, EmptyBuffers, cache)
      /\ NextFree(db, EmptyBuffers, nextSid)
  BY DEF Ids
<1>2. /\ p.forget = Those(k, "exempt")
      /\ p.series = [s \in Sid |->
            IF \E e \in Newcomers(k) : SidOf(k, e) = s
            THEN CHOOSE e \in Newcomers(k) : SidOf(k, e) = s ELSE Nobody]
      /\ p.raw = {[sid |-> SidOf(k, e), at |-> t, of |-> {<<e, t>>}] :
                    e \in Those(k, "kept")}
  BY DEF Buffered
<1>3. k \in [Entity -> Kind]
  BY DEF Snapshot
<1>4. Newcomers(k) \in SUBSET Entity /\ Newcomers(k) \in SUBSET (Nat \ {0})
  BY NatSets DEF Newcomers, Those
<1>5. /\ FreeSid \in Nat \ {0}
      /\ \A s \in Sid : db.series[s] # Nobody => s < FreeSid
  BY <1>1, FreeSidAbove
<1>6. /\ Cardinality(Newcomers(k)) \in Nat
      /\ \A e \in Newcomers(k) :
           /\ SidOf(k, e) \in Nat /\ FreeSid <= SidOf(k, e)
           /\ SidOf(k, e) < FreeSid + Cardinality(Newcomers(k))
      /\ \A e, f \in Newcomers(k) : SidOf(k, e) = SidOf(k, f) => e = f
  BY <1>1, NewcomerSids
<1>7. ASSUME NEW e \in Newcomers(k)
      PROVE  Owner(db, p, SidOf(k, e)) = e
  <2>1. p.series[SidOf(k, e)] = e
    BY <1>2, <1>6
  <2>2. e # Nobody
    BY <1>4 DEF Nobody
  <2> QED
    BY <2>1, <2>2 DEF Owner
<1>8. ASSUME NEW s \in Sid, p.series[s] # Nobody
      PROVE  s \in Nat /\ FreeSid <= s
             /\ s < FreeSid + Cardinality(Newcomers(k)) /\ Newcomers(k) # {}
  BY <1>2, <1>6, <1>8
<1>9. PendFresh(db, p)
  <2> SUFFICES ASSUME NEW s \in Sid, p.series[s] # Nobody,
                      db.series[s] # Nobody
               PROVE  FALSE
    BY DEF PendFresh
  <2>1. s \in Nat /\ FreeSid <= s /\ s < FreeSid
    BY <1>5, <1>8
  <2> QED
    BY <1>5, <2>1
<1>10. NextFree(db, p, n) /\ n \in Nat
  <2>1. CASE Newcomers(k) = {}
    <3>1. n = nextSid
      BY <2>1
    <3> QED
      BY <1>1, <1>8, <2>1, <3>1 DEF NextFree
  <2>2. CASE Newcomers(k) # {}
    <3>1. n = FreeSid + Cardinality(Newcomers(k))
      BY <2>2
    <3>2. n \in Nat /\ FreeSid <= n
      BY <1>5, <1>6, <3>1
    <3>3. ASSUME NEW s \in Sid, db.series[s] # Nobody PROVE s < n
      <4>1. s < FreeSid /\ s \in Nat
        BY <1>5, <3>3, NatSets
      <4> QED
        BY <1>5, <3>2, <4>1
    <3>4. ASSUME NEW s \in Sid, p.series[s] # Nobody PROVE s < n
      BY <1>8, <3>1, <3>4
    <3> QED
      BY <3>2, <3>3, <3>4 DEF NextFree
  <2> QED
    BY <2>1, <2>2
\* An id the table has stays with its entity, unless that is exempt.
<1>11. ASSUME NEW s \in Sid, db.series[s] # Nobody,
              db.series[s] \notin Those(k, "exempt")
       PROVE  Owner(db, p, s) = db.series[s]
  <2>1. p.series[s] = Nobody
    BY <1>9, <1>11 DEF PendFresh
  <2> QED
    BY <1>2, <1>11, <2>1 DEF Owner
<1>12. ASSUME NEW e \in Those(k, "kept")
       PROVE  SidOf(k, e) \in Sid /\ Owner(db, p, SidOf(k, e)) = e
  <2>1. CASE e \in Newcomers(k)
    BY <1>7, <2>1
  <2>2. CASE e \notin Newcomers(k)
    <3>1. e \in Entity /\ k[e] = "kept" /\ KnownSid(e) # NoSid
          /\ SidOf(k, e) = KnownSid(e)
      BY <2>2 DEF Newcomers, Those, SidOf
    <3>2. KnownSid(e) \in Sid /\ db.series[KnownSid(e)] = e
      BY <1>1, <3>1, KnownOwned
    <3>3. e # Nobody /\ e \notin Those(k, "exempt")
      BY <3>1, NatSets DEF Nobody, Those
    <3> QED
      BY <1>11, <3>1, <3>2, <3>3
  <2> QED
    BY <2>1, <2>2
<1>13. PendOwned(db, p)
  <2> SUFFICES ASSUME NEW r \in p.raw
               PROVE  /\ Owner(db, p, r.sid) # Nobody
                      /\ \A a \in r.of : a[1] = Owner(db, p, r.sid)
    BY DEF PendOwned
  <2>1. PICK e \in Those(k, "kept") :
           r = [sid |-> SidOf(k, e), at |-> t, of |-> {<<e, t>>}]
    BY <1>2
  <2>2. Owner(db, p, r.sid) = e /\ e # Nobody
    BY <1>12, <2>1, NatSets DEF Those, Nobody
  <2>3. \A a \in r.of : a[1] = e
    BY <2>1
  <2> QED
    BY <2>2, <2>3
<1>14. ASSUME NEW e \in Entity
       PROVE  /\ c[e] \in Sid \cup {NoSid}
              /\ c[e] # NoSid => c[e] \in Sid /\ Owner(db, p, c[e]) = e
  <2>1. CASE k[e] = "exempt"
    BY <2>1
  <2>2. CASE k[e] = "kept"
    BY <1>12, <2>2 DEF Those
  <2>3. CASE k[e] # "exempt" /\ k[e] # "kept"
    <3>1. c[e] = cache[e]
      BY <2>3
    <3>2. CASE cache[e] = NoSid
      BY <3>1, <3>2
    <3>3. CASE cache[e] # NoSid
      <4>1. cache[e] \in Sid /\ db.series[cache[e]] = e
        BY <1>1, <3>3, NothingBuffered DEF CacheOwned
      <4>2. e # Nobody /\ e \notin Those(k, "exempt")
        BY <2>3, NatSets DEF Nobody, Those
      <4> QED
        BY <1>11, <3>1, <4>1, <4>2
    <3> QED
      BY <3>2, <3>3
  <2> QED
    BY <2>1, <2>2, <2>3
<1>15. CacheOwned(db, p, c)
  BY <1>14 DEF CacheOwned
<1>16. c \in [Entity -> Sid \cup {NoSid}]
  BY <1>14
<1> QED
  BY <1>9, <1>10, <1>13, <1>15, <1>16 DEF Ids
-----------------------------------------------------------------------------
IInv ==
    /\ TypeOK
    /\ Finite(db) /\ IsFiniteSet(pend.raw)
    /\ NoOrphans
    /\ Ids(db, pend, cache, nextSid)
    /\ phase # "buffered" => pend = EmptyBuffers
    /\ now # Never /\ Dated(db) /\ Dated(pend)
    /\ IncidentsAreTracked

LEMMA Numbers ==
    /\ RetentionEvery \in Nat \ {0} /\ Hour \in Nat \ {0} /\ MaxNow \in Nat
    /\ LongDown \in Nat /\ Grace \in Nat /\ Hour <= MaxNow
    /\ Watched \in SUBSET Entity
BY CatalogAssumption

LEMMA EmptyIds ==
    ASSUME NEW d PROVE Ids(d, EmptyBuffers, [e \in Entity |-> NoSid], NoSid)
BY DEF Ids, CacheOwned, NextFree, PendFresh, PendOwned, EmptyBuffers

LEMMA EmptyDated == Dated(EmptyBuffers) /\ Dated(EmptyTables)
BY DEF Dated, EmptyBuffers, EmptyTables, Unknown

LEMMA InitIInv == Init => IInv
<1> SUFFICES ASSUME Init PROVE IInv
  OBVIOUS
<1>1. TypeOK
  <2>1. now \in Nat /\ upSince \in Nat /\ due \in 0..RetentionEvery
    BY Numbers DEF Init
  <2>2. seen \in [Entity -> Time] /\ cut \in [Entity -> Time]
        /\ cache \in [Entity -> Sid \cup {NoSid}] /\ nextSid \in Nat
    BY DEF Init, Time, Never, NoSid
  <2>3. pend \in Buffers /\ db \in Tables
    BY EmptyTyped DEF Init
  <2>4. used \in [sightings : Nat, exempt : Nat, opens : Nat, faults : Nat]
    BY DEF Init
  <2> QED
    BY <2>1, <2>2, <2>3, <2>4 DEF Init, TypeOK, Time
<1>2. Finite(db) /\ IsFiniteSet(pend.raw)
  BY EmptyTyped DEF Init
<1>3. NoOrphans
  BY DEF Init, NoOrphans, EmptyTables, NoBase
<1>4. Ids(db, pend, cache, nextSid)
  BY EmptyIds DEF Init
<1>5. now # Never /\ Dated(db) /\ Dated(pend)
  BY EmptyDated, Numbers DEF Init, Never
<1>6. IncidentsAreTracked
  BY DEF Init, IncidentsAreTracked
<1> QED
  BY <1>1, <1>2, <1>3, <1>4, <1>5, <1>6 DEF IInv, Init

LEMMA KeptSids ==
    ASSUME db \in Tables, CacheOwned(db, EmptyBuffers, cache), NEW k,
           \A e \in Newcomers(k) : SidOf(k, e) \in Sid,
           NEW e \in Those(k, "kept")
    PROVE  SidOf(k, e) \in Sid
<1>1. CASE e \in Newcomers(k)
  BY <1>1
<1>2. CASE e \notin Newcomers(k)
  <2>1. e \in Entity /\ KnownSid(e) # NoSid /\ SidOf(k, e) = KnownSid(e)
    BY <1>2 DEF Newcomers, Those, SidOf
  <2> QED
    BY <2>1, KnownOwned
<1> QED
  BY <1>1, <1>2

LEMMA BufferedTyped ==
    ASSUME NEW k, NEW t \in Nat, t # Never,
           NEW gone \in SUBSET Entity, NEW live \in SUBSET Entity,
           seen \in [Entity -> Time], open \in SUBSET Entity,
           \A e \in gone : k[e] # "kept" /\ seen[e] # Never,
           \A e \in Those(k, "kept") : SidOf(k, e) \in Sid
    PROVE  LET p == Buffered(k, t, gone, live)
           IN  p \in Buffers /\ IsFiniteSet(p.raw) /\ Dated(p)
<1> DEFINE p == Buffered(k, t, gone, live)
           new(e) == [sid |-> SidOf(k, e), at |-> t, of |-> {<<e, t>>}]
           f == [e \in Those(k, "kept") |-> new(e)]
<1>1. p.forget \in SUBSET Entity
  BY DEF Buffered, Those
<1>2. p.series \in [Sid -> Entity \cup {Nobody}]
  <2>1. Newcomers(k) \in SUBSET Entity
    BY DEF Newcomers, Those
  <2>2. p.series = [s \in Sid |->
            IF \E e \in Newcomers(k) : SidOf(k, e) = s
            THEN CHOOSE e \in Newcomers(k) : SidOf(k, e) = s ELSE Nobody]
    BY DEF Buffered
  <2>3. ASSUME NEW s \in Sid PROVE p.series[s] \in Entity \cup {Nobody}
    BY <2>1, <2>2
  <2> QED
    BY <2>2, <2>3
<1>3. p.raw = {new(e) : e \in Those(k, "kept")}
  BY DEF Buffered
<1>4. \A e \in Those(k, "kept") : new(e) \in Row
  BY DEF Those, Row, Sample, Time
<1>5. p.raw \in SUBSET Row
  BY <1>3, <1>4
<1>6. IsFiniteSet(p.raw)
  <2>1. IsFiniteSet(Those(k, "kept"))
    BY NatSets, FS_Subset DEF Those
  <2>2. f \in Surjection(Those(k, "kept"), p.raw)
    BY <1>3 DEF Surjection
  <2> QED
    BY <2>1, <2>2, FS_Surjection
<1>7. p.ent = [e \in Entity |->
        CASE k[e] = "kept" -> [stored |-> TRUE, last |-> t, gone |-> Never]
          [] e \in gone -> [stored |-> TRUE, last |-> seen[e], gone |-> t]
          [] OTHER -> Unknown]
  BY DEF Buffered
<1>10. p.inc \in SUBSET Entity
  BY DEF Buffered
<1>11. p = [forget |-> p.forget, series |-> p.series, raw |-> p.raw,
            ent |-> p.ent, inc |-> p.inc]
  BY DEF Buffered
<1> HIDE DEF p
<1>8. ASSUME NEW e \in Entity
      PROVE  /\ p.ent[e] \in Known
             /\ p.ent[e].stored => p.ent[e].last # Never
  <2>1. CASE k[e] = "kept"
    <3>1. p.ent[e] = [stored |-> TRUE, last |-> t, gone |-> Never]
      BY <1>7, <2>1
    <3> QED
      BY <3>1 DEF Known, Time, Never
  <2>2. CASE k[e] # "kept" /\ e \in gone
    <3>1. p.ent[e] = [stored |-> TRUE, last |-> seen[e], gone |-> t]
      BY <1>7, <2>2
    <3> QED
      BY <2>2, <3>1 DEF Known, Time, Never
  <2>3. CASE k[e] # "kept" /\ e \notin gone
    <3>1. p.ent[e] = Unknown
      BY <1>7, <2>3
    <3> QED
      BY <3>1 DEF Known, Time, Never, Unknown
  <2> QED
    BY <2>1, <2>2, <2>3
<1>9. p.ent \in [Entity -> Known] /\ Dated(p)
  BY <1>7, <1>8 DEF Dated
<1>12. p \in Buffers
  BY <1>1, <1>2, <1>5, <1>9, <1>10, <1>11 DEF Buffers
<1> QED
  BY <1>6, <1>9, <1>12 DEF p

\* Who is gone was not in the snapshot, and had been sighted.
LEMMA GoneAbsent ==
    ASSUME NEW k, NEW t \in Nat, NEW e \in Gone(Sighted(k, t), t)
    PROVE  e \in Entity /\ k[e] = "absent" /\ seen[e] # Never
<1>1. /\ e \in Entity /\ Sighted(k, t)[e] # Never
      /\ t > Sighted(k, t)[e] + Grace
  BY DEF Gone
<1>2. CASE k[e] = "absent"
  BY <1>1, <1>2 DEF Sighted
<1>3. CASE k[e] # "absent"
  <2>1. Sighted(k, t)[e] = t
    BY <1>1, <1>3 DEF Sighted
  <2> QED
    BY <1>1, <2>1, Numbers
<1> QED
  BY <1>2, <1>3

LEMMA TickKeeps == ASSUME IInv, Tick PROVE IInv'
<1> USE DEF Time
<1>1. /\ TypeOK /\ Finite(db) /\ NoOrphans /\ Dated(db)
      /\ Ids(db, pend, cache, nextSid) /\ IncidentsAreTracked
  BY DEF IInv
<1>2. phase = "idle" /\ pend = EmptyBuffers
  BY DEF IInv, Tick
<1>3. /\ now \in Nat /\ now' = now + 1 /\ phase' = "buffered"
      /\ due' = IF due = 0 THEN 0 ELSE due - 1
      /\ db' = db /\ upSince' = upSince /\ taken' = taken /\ cut' = cut
      /\ degraded' = degraded /\ late' = late
  BY <1>1 DEF Tick, ghosts, TypeOK
<1>4. now' \in Nat /\ now' # Never
  BY <1>3 DEF Never
<1>5. /\ db \in Tables /\ seen \in [Entity -> Time] /\ open \in SUBSET Entity
      /\ cache \in [Entity -> Sid \cup {NoSid}] /\ nextSid \in Nat
      /\ used \in [sightings : Nat, exempt : Nat, opens : Nat, faults : Nat]
      /\ due \in 0..RetentionEvery
  BY <1>1 DEF TypeOK
<1>6. PICK k \in Snapshot :
         \E firing \in SUBSET (Watched \cap (Those(k, "kept")
                                             \cup Those(k, "passed"))) :
             LET last == Sighted(k, now + 1)
                 gone == Gone(last, now + 1)
             IN
             /\ Affordable(k, firing)
             /\ open' = OpenAfter(k, gone, firing)
             /\ pend' = Buffered(k, now + 1, gone, OpenAfter(k, gone, firing))
             /\ seen' = [e \in Entity |-> IF e \in gone THEN Never ELSE last[e]]
             /\ cache' = [e \in Entity |->
                            CASE k[e] = "exempt" -> NoSid
                              [] k[e] = "kept" -> SidOf(k, e)
                              [] OTHER -> cache[e]]
             /\ nextSid' = IF Newcomers(k) = {} THEN nextSid
                           ELSE FreeSid + Cardinality(Newcomers(k))
             /\ used' = [used EXCEPT
                            !.sightings = @ + Cardinality(Entity \ Those(k, "absent")),
                            !.exempt = @ + Cardinality(Those(k, "exempt")),
                            !.opens = @ + Cardinality(firing \ open)]
  BY Zenon DEF Tick
<1> DEFINE last == Sighted(k, now + 1)
           gone == Gone(last, now + 1)
<1>7. PICK firing \in SUBSET (Watched \cap (Those(k, "kept")
                                            \cup Those(k, "passed"))) :
             /\ Affordable(k, firing)
             /\ open' = OpenAfter(k, gone, firing)
             /\ pend' = Buffered(k, now + 1, gone, OpenAfter(k, gone, firing))
             /\ seen' = [e \in Entity |-> IF e \in gone THEN Never ELSE last[e]]
             /\ cache' = [e \in Entity |->
                            CASE k[e] = "exempt" -> NoSid
                              [] k[e] = "kept" -> SidOf(k, e)
                              [] OTHER -> cache[e]]
             /\ nextSid' = IF Newcomers(k) = {} THEN nextSid
                           ELSE FreeSid + Cardinality(Newcomers(k))
             /\ used' = [used EXCEPT
                            !.sightings = @ + Cardinality(Entity \ Those(k, "absent")),
                            !.exempt = @ + Cardinality(Those(k, "exempt")),
                            !.opens = @ + Cardinality(firing \ open)]
  BY <1>6, Zenon
<1>8. gone \in SUBSET Entity /\ \A e \in gone : k[e] = "absent" /\ seen[e] # Never
  <2>1. now + 1 \in Nat
    BY <1>3
  <2>2. gone \in SUBSET Entity
    BY DEF Gone
  <2>3. ASSUME NEW e \in gone PROVE k[e] = "absent" /\ seen[e] # Never
    BY <2>1, GoneAbsent
  <2> HIDE DEF gone
  <2> QED
    BY <2>2, <2>3
<1>9. firing \in SUBSET Entity /\ open' \in SUBSET Entity
  BY <1>5, <1>7 DEF OpenAfter, Those
<1>10. \A e \in Newcomers(k) : SidOf(k, e) \in Sid
  BY <1>7 DEF Affordable
<1>11. Ids(db, EmptyBuffers, cache, nextSid)
  BY <1>1, <1>2
<1>12. /\ Ids(db, pend', cache', nextSid') /\ nextSid' \in Nat
       /\ cache' \in [Entity -> Sid \cup {NoSid}]
  <2> HIDE DEF last, gone
  <2> QED
    BY <1>5, <1>7, <1>10, <1>11, TickIds
<1>13. pend' \in Buffers /\ IsFiniteSet(pend'.raw) /\ Dated(pend')
  <2>1. \A e \in Those(k, "kept") : SidOf(k, e) \in Sid
    BY <1>5, <1>10, <1>11, KeptSids DEF Ids
  <2>2. pend' = Buffered(k, now', gone, open')
    BY <1>3, <1>7
  <2>3. \A e \in gone : k[e] # "kept" /\ seen[e] # Never
    BY <1>8
  <2> HIDE DEF last, gone
  <2> QED
    BY <1>4, <1>5, <1>8, <1>9, <2>1, <2>2, <2>3, BufferedTyped
<1>14. /\ last \in [Entity -> Nat] /\ seen' \in [Entity -> Nat]
       /\ \A e \in Entity : seen'[e] = IF e \in gone THEN Never ELSE last[e]
  <2>1. last \in [Entity -> Nat]
    BY <1>3, <1>5 DEF Sighted
  <2> HIDE DEF last, gone
  <2> QED
    BY <1>7, <2>1 DEF Never
<1>15. used' \in [sightings : Nat, exempt : Nat, opens : Nat, faults : Nat]
  <2>1. /\ Cardinality(Entity \ Those(k, "absent")) \in Nat
        /\ Cardinality(Those(k, "exempt")) \in Nat
        /\ Cardinality(firing \ open) \in Nat
    BY <1>9, NatSets, FS_Subset, FS_CardinalityType DEF Those
  <2>2. PICK a \in Nat, b \in Nat, c \in Nat :
          used' = [used EXCEPT !.sightings = used.sightings + a,
                               !.exempt = used.exempt + b,
                               !.opens = used.opens + c]
    BY <1>7, <2>1, Zenon
  <2>3. /\ used.sightings + a \in Nat /\ used.exempt + b \in Nat
        /\ used.opens + c \in Nat
    BY <1>5
  <2> QED
    BY <1>5, <2>2, <2>3
<1>16. due' \in 0..RetentionEvery
  BY <1>3, <1>5, Numbers
<1>17. TypeOK'
  <2> HIDE DEF last, gone
  <2> QED
    BY <1>1, <1>3, <1>4, <1>9, <1>12, <1>13, <1>14, <1>15, <1>16 DEF TypeOK
<1>18. IncidentsAreTracked'
  <2> SUFFICES ASSUME NEW e \in open' PROVE seen'[e] # Never
    BY DEF IncidentsAreTracked
  <2>1. e \in Entity
    BY <1>9
  <2>2. CASE e \in firing
    <3>1. k[e] = "kept" \/ k[e] = "passed"
      BY <2>2 DEF Those
    <3>2. e \notin gone
      BY <1>8, <3>1
    <3>3. last[e] = now + 1
      BY <2>1, <3>1 DEF Sighted
    <3> HIDE DEF last, gone
    <3> QED
      BY <1>3, <1>4, <1>14, <2>1, <3>2, <3>3
  <2>3. CASE e \notin firing
    <3>1. e \in open /\ e \notin gone
      BY <1>7, <2>3 DEF OpenAfter
    <3>2. seen[e] # Never
      BY <1>1, <1>2, <3>1 DEF IncidentsAreTracked
    <3>3. last[e] = seen[e] \/ last[e] = now + 1
      BY <2>1 DEF Sighted
    <3> HIDE DEF last, gone
    <3> QED
      BY <1>3, <1>4, <1>14, <2>1, <3>1, <3>2, <3>3
  <2> QED
    BY <2>2, <2>3
<1>19. NoOrphans' /\ Finite(db)' /\ Dated(db)'
  BY <1>1, <1>3 DEF NoOrphans, OwnedRow, Finite, Dated
<1> QED
  <2> HIDE DEF last, gone
  <2> QED
    BY <1>3, <1>4, <1>12, <1>13, <1>17, <1>18, <1>19 DEF IInv

LEMMA CommitKeeps == ASSUME IInv, Commit PROVE IInv'
<1> USE DEF Time
<1>1. /\ TypeOK /\ Finite(db) /\ IsFiniteSet(pend.raw) /\ NoOrphans
      /\ Dated(db) /\ Dated(pend)
      /\ Ids(db, pend, cache, nextSid) /\ IncidentsAreTracked
  BY DEF IInv
<1>2. /\ db \in Tables /\ pend \in Buffers /\ open \in SUBSET Entity
      /\ Typed(db) /\ Sound(db)
      /\ PendFresh(db, pend) /\ PendOwned(db, pend)
      /\ CacheOwned(db, pend, cache) /\ NextFree(db, pend, nextSid)
  BY <1>1, SoundIsNoOrphans DEF TypeOK, Typed, Ids
<1>3. /\ phase = "buffered" /\ db' = Committed /\ pend' = EmptyBuffers
      /\ phase' \in {"idle", "retain"}
      /\ now' = now /\ due' = due /\ upSince' = upSince /\ cut' = cut
      /\ degraded' = degraded /\ used' = used
      /\ seen' = seen /\ open' = open /\ cache' = cache /\ nextSid' = nextSid
  BY DEF Commit, memory
<1>4. /\ Typed(db') /\ Sound(db')
      /\ db'.series = [s \in Sid |-> Owner(db, pend, s)]
      /\ db'.ent = [e \in Entity |->
            IF pend.ent[e].stored THEN pend.ent[e]
            ELSE ErasedEnt(db, pend.forget)[e]]
  BY <1>1, <1>2, <1>3, CommittedKeeps
<1>5. taken' \in SUBSET Sample /\ late' \in SUBSET ({"5m", "1h"} \X Sample)
  <2>1. taken \in SUBSET Sample /\ late \in SUBSET ({"5m", "1h"} \X Sample)
    BY <1>1 DEF TypeOK
  <2>2. \A r \in pend.raw : r.of \in SUBSET Sample
    BY <1>2 DEF Buffers, Row
  <2>3. UNION {r.of : r \in pend.raw} \in SUBSET Sample
    BY <2>2
  <2>4. taken' = {p \in taken : p[1] \notin pend.forget}
                 \cup UNION {r.of : r \in pend.raw}
    BY DEF Commit
  <2>5. late' \subseteq late
    BY DEF Commit
  <2> QED
    BY <2>1, <2>3, <2>4, <2>5
<1>6. TypeOK'
  BY <1>1, <1>3, <1>4, <1>5, EmptyTyped DEF TypeOK, Typed
<1>7. Ids(db', pend', cache', nextSid')
  <2>1. CacheOwned(db', pend', cache')
    BY <1>2, <1>3, <1>4, NothingBuffered DEF CacheOwned
  <2>2. NextFree(db', pend', nextSid')
    <3>1. \A s \in Sid : Owner(db, pend, s) # Nobody =>
              db.series[s] # Nobody \/ pend.series[s] # Nobody
      BY DEF Owner
    <3>2. \A s \in Sid : EmptyBuffers.series[s] = Nobody
      BY DEF EmptyBuffers
    <3> QED
      BY <1>2, <1>3, <1>4, <3>1, <3>2 DEF NextFree
  <2>3. PendFresh(db', pend') /\ PendOwned(db', pend')
    BY <1>3 DEF PendFresh, PendOwned, EmptyBuffers
  <2> QED
    BY <2>1, <2>2, <2>3 DEF Ids
<1>8. Dated(db')
  <2> SUFFICES ASSUME NEW e \in Entity, db'.ent[e].stored
               PROVE  db'.ent[e].last # Never
    BY DEF Dated
  <2>1. CASE pend.ent[e].stored
    BY <1>1, <1>4, <2>1 DEF Dated
  <2>2. CASE ~pend.ent[e].stored
    <3>1. db'.ent[e] = ErasedEnt(db, pend.forget)[e]
      BY <1>4, <2>2
    <3>2. e \notin pend.forget /\ db'.ent[e] = db.ent[e]
      BY <3>1 DEF ErasedEnt, Unknown
    <3> QED
      BY <1>1, <3>2 DEF Dated
  <2> QED
    BY <2>1, <2>2
<1>9. IncidentsAreTracked'
  BY <1>1, <1>3 DEF IncidentsAreTracked
<1>10. NoOrphans'
  BY <1>4 DEF Sound, Good, Counted, NoOrphans, OwnedRow
<1>11. now' # Never
  BY <1>3 DEF IInv
<1> QED
  BY <1>3, <1>4, <1>6, <1>7, <1>8, <1>9, <1>10, <1>11, EmptyTyped, EmptyDated
    DEF IInv, Typed

\* The writer loses its buffers and its cache, and the tables stay.
LEMMA DroppedKeeps ==
    ASSUME IInv, db' = db, pend' = EmptyBuffers,
           cache' = [e \in Entity |-> NoSid], nextSid' = NoSid,
           TypeOK', IncidentsAreTracked', now' # Never
    PROVE  IInv'
<1>1. NoOrphans'
  BY DEF IInv, NoOrphans, OwnedRow
<1>2. Ids(db', pend', cache', nextSid')
  BY EmptyIds
<1>3. Finite(db)' /\ Dated(db)'
  BY DEF IInv, Finite, Dated
<1> QED
  BY <1>1, <1>2, <1>3, EmptyTyped, EmptyDated DEF IInv

LEMMA FaultCounted ==
    ASSUME TypeOK
    PROVE  [used EXCEPT !.faults = @ + 1]
              \in [sightings : Nat, exempt : Nat, opens : Nat, faults : Nat]
<1>1. used \in [sightings : Nat, exempt : Nat, opens : Nat, faults : Nat]
  BY DEF TypeOK
<1>2. used.faults + 1 \in Nat
  BY <1>1
<1> QED
  BY <1>1, <1>2

LEMMA CommitLockedKeeps == ASSUME IInv, CommitLocked PROVE IInv'
<1>1. /\ TypeOK /\ IncidentsAreTracked /\ now # Never
  BY DEF IInv
<1>2. /\ db' = db /\ pend' = EmptyBuffers /\ nextSid' = NoSid
      /\ cache' = [e \in Entity |-> NoSid]
      /\ phase = "buffered" /\ phase' = "idle"
      /\ used' = [used EXCEPT !.faults = @ + 1]
      /\ now' = now /\ due' = due /\ upSince' = upSince /\ cut' = cut
      /\ degraded' = degraded /\ taken' = taken /\ late' = late
      /\ seen' = seen /\ open' = open
  BY DEF CommitLocked, ghosts
<1>3. TypeOK'
  BY <1>1, <1>2, FaultCounted, EmptyTyped DEF TypeOK, NoSid
<1>4. IncidentsAreTracked'
  BY <1>1, <1>2 DEF IncidentsAreTracked
<1> QED
  BY <1>1, <1>2, <1>3, <1>4, DroppedKeeps

\* What a lock met by retention and a crash have in common.
LEMMA EndKeeps ==
    ASSUME IInv, Forgets, used' = [used EXCEPT !.faults = @ + 1],
           UNCHANGED <<now, db, ghosts>>
    PROVE  IInv'
<1>1. TypeOK /\ now # Never
  BY DEF IInv
<1>2. /\ db' = db /\ pend' = EmptyBuffers /\ nextSid' = NoSid
      /\ cache' = [e \in Entity |-> NoSid] /\ phase' = "down"
      /\ now' = now /\ due' = 0 /\ upSince' = Never /\ cut' = cut
      /\ degraded' = degraded /\ taken' = taken /\ late' = late
      /\ seen' = [e \in Entity |-> Never] /\ open' = {}
  BY DEF Forgets, ghosts
<1>3. TypeOK'
  BY <1>1, <1>2, FaultCounted, EmptyTyped, Numbers
    DEF TypeOK, NoSid, Never, Time
<1>4. IncidentsAreTracked'
  BY <1>2 DEF IncidentsAreTracked
<1> QED
  BY <1>1, <1>2, <1>3, <1>4, DroppedKeeps

LEMMA RetainKeeps == ASSUME IInv, Retain PROVE IInv'
<1> USE DEF Time
<1>1. /\ TypeOK /\ Finite(db) /\ IsFiniteSet(pend.raw) /\ NoOrphans
      /\ Dated(db) /\ Ids(db, pend, cache, nextSid) /\ IncidentsAreTracked
      /\ now # Never
  BY DEF IInv
<1>2. /\ phase = "retain" /\ phase' = "idle" /\ due' = RetentionEvery
      /\ now' = now /\ upSince' = upSince /\ seen' = seen /\ open' = open
      /\ nextSid' = nextSid /\ pend' = pend /\ pend = EmptyBuffers
  BY DEF Retain, IInv
<1>3. /\ now \in Nat /\ Typed(db) /\ Sound(db)
      /\ cache \in [Entity -> Sid \cup {NoSid}]
      /\ taken \in SUBSET Sample /\ degraded \in BOOLEAN
      /\ late \in SUBSET ({"5m", "1h"} \X Sample)
      /\ cut \in [Entity -> Nat]
  BY <1>1, SoundIsNoOrphans DEF TypeOK, Typed
<1>4. PICK d \in Pruned(Rolled1(Rolled5(db, now)), now) :
         /\ cache' = Evicted(Reaped(d))
         /\ LET overtaken == late \cup Overtaken(d)
                Stays(p)  == p[1] \in Reaped(d) => Promised(p, overtaken)
            IN  /\ taken' = {p \in taken : Stays(p)}
                /\ late' = {l \in overtaken : Stays(l[2])}
         /\ \E x \in Expirable(AfterReap(d), now) :
              LET expired == [AfterReap(d) EXCEPT !.r1 = @ \ x]
              IN  /\ db' \in Degradations(expired, now)
                  /\ degraded' = (degraded \/ db' # expired)
                  /\ used' = IF db' = expired THEN used
                             ELSE [used EXCEPT !.faults = @ + 1]
                  /\ cut' = [e \in Entity |-> IF Of(d, x, {e}) # {}
                                              THEN d.cur1 ELSE cut[e]]
  BY Zenon DEF Retain
<1>5. PICK x \in Expirable(AfterReap(d), now) :
         /\ db' \in Degradations([AfterReap(d) EXCEPT !.r1 = @ \ x], now)
         /\ degraded' = (degraded \/ db' # [AfterReap(d) EXCEPT !.r1 = @ \ x])
         /\ used' = used \/ used' = [used EXCEPT !.faults = @ + 1]
         /\ cut' = [e \in Entity |-> IF Of(d, x, {e}) # {}
                                     THEN d.cur1 ELSE cut[e]]
  BY <1>4, Zenon
<1>6. /\ Typed(db') /\ Sound(db')
      /\ db'.series = ErasedSeries(db, Reaped(d))
      /\ db'.ent = ErasedEnt(db, Reaped(d)) /\ d.cur1 \in Nat
  BY <1>3, <1>5, RetentionKeeps
<1>7. /\ taken' \in SUBSET Sample /\ degraded' \in BOOLEAN
      /\ late' \in SUBSET ({"5m", "1h"} \X Sample)
      /\ cut' \in [Entity -> Nat]
      /\ cache' \in [Entity -> Sid \cup {NoSid}]
  <2>1. taken' \in SUBSET Sample
    <3>1. taken' \subseteq taken
      BY <1>4
    <3> QED
      BY <1>3, <3>1
  <2>5. late' \in SUBSET ({"5m", "1h"} \X Sample)
    <3>1. late' \subseteq late \cup Overtaken(d)
      BY <1>4
    <3>2. Overtaken(d) \in SUBSET ({"5m", "1h"} \X taken)
      BY DEF Overtaken
    <3> QED
      BY <1>3, <3>1, <3>2
  <2>2. degraded' \in BOOLEAN
    BY <1>5, Zenon
  <2>3. cut' \in [Entity -> Nat]
    BY <1>3, <1>5, <1>6
  <2>4. cache' \in [Entity -> Sid \cup {NoSid}]
    BY <1>3, <1>4 DEF Evicted
  <2> QED
    BY <2>1, <2>2, <2>3, <2>4, <2>5
<1>8. used' \in [sightings : Nat, exempt : Nat, opens : Nat, faults : Nat]
  BY <1>1, <1>5, FaultCounted DEF TypeOK
<1>9. TypeOK'
  BY <1>1, <1>2, <1>6, <1>7, <1>8, Numbers DEF TypeOK, Typed
<1>10. Ids(db', pend', cache', nextSid')
  <2>1. CacheOwned(db', pend', cache')
    <3> SUFFICES ASSUME NEW e \in Entity, cache'[e] # NoSid
                 PROVE  cache'[e] \in Sid /\ Owner(db', pend', cache'[e]) = e
      BY DEF CacheOwned
    <3>1. e \notin Reaped(d) /\ cache'[e] = cache[e]
      BY <1>4 DEF Evicted
    <3>2. cache[e] \in Sid /\ db.series[cache[e]] = e
      BY <1>1, <1>2, <3>1, NothingBuffered DEF Ids, CacheOwned
    <3>3. db'.series[cache[e]] = e
      BY <1>6, <3>1, <3>2 DEF ErasedSeries
    <3> QED
      BY <1>2, <3>1, <3>2, <3>3, NothingBuffered
  <2>2. NextFree(db', pend', nextSid')
    <3>1. \A s \in Sid : db'.series[s] # Nobody => db.series[s] # Nobody
      BY <1>6 DEF ErasedSeries
    <3> QED
      BY <1>1, <1>2, <3>1 DEF Ids, NextFree
  <2>3. PendFresh(db', pend') /\ PendOwned(db', pend')
    BY <1>2 DEF PendFresh, PendOwned, EmptyBuffers
  <2> QED
    BY <2>1, <2>2, <2>3 DEF Ids
<1>11. Dated(db')
  <2> SUFFICES ASSUME NEW e \in Entity, db'.ent[e].stored
               PROVE  db'.ent[e].last # Never
    BY DEF Dated
  <2>1. e \notin Reaped(d) /\ db'.ent[e] = db.ent[e]
    BY <1>6 DEF ErasedEnt, Unknown
  <2> QED
    BY <1>1, <2>1 DEF Dated
<1>12. IncidentsAreTracked'
  BY <1>1, <1>2 DEF IncidentsAreTracked
<1>13. NoOrphans'
  BY <1>6 DEF Sound, Good, Counted, NoOrphans, OwnedRow
<1> QED
  BY <1>1, <1>2, <1>6, <1>9, <1>10, <1>11, <1>12, <1>13, EmptyTyped, EmptyDated
    DEF IInv, Typed

LEMMA StartKeeps == ASSUME IInv, Start PROVE IInv'
<1> USE DEF Time
<1>1. /\ TypeOK /\ Finite(db) /\ IsFiniteSet(pend.raw) /\ NoOrphans
      /\ Dated(db) /\ Ids(db, pend, cache, nextSid) /\ now # Never
      /\ pend = EmptyBuffers
  BY DEF IInv, Start
<1>2. /\ phase' = "idle" /\ upSince' = now' /\ open' = db.inc
      /\ seen' = [e \in Entity |-> Seeded(e, now')]
      /\ due' = due /\ cache' = cache /\ nextSid' = nextSid /\ pend' = pend
      /\ db' = db /\ taken' = taken /\ cut' = cut /\ degraded' = degraded
      /\ late' = late /\ used' = used
  BY DEF Start, ghosts
<1>3. db \in Tables /\ db.inc \in SUBSET Entity /\ db.ent \in [Entity -> Known]
  BY <1>1, TablesFields DEF TypeOK
<1>4. now' \in Nat /\ now' # Never
  <2>1. now \in Nat /\ now # 0
    BY <1>1 DEF TypeOK, Never
  <2>2. now' = now \/ now' = Lesser(now + LongDown, MaxNow)
    BY DEF Start
  <2>3. MaxNow # 0 /\ now + LongDown \in Nat /\ now + LongDown # 0
    BY <2>1, Numbers
  <2> QED
    BY <2>1, <2>2, <2>3, Numbers DEF Lesser, Never
<1>5. ASSUME NEW e \in Entity
      PROVE  /\ Seeded(e, now') \in Nat
             /\ e \in db.inc => Seeded(e, now') # Never
  <2>1. db.ent[e] \in Known
    BY <1>3
  <2>2. db.ent[e].last \in Nat
    BY <2>1 DEF Known
  <2> QED
    BY <1>1, <1>4, <2>2 DEF Seeded, Dated, Never
<1>6. seen' \in [Entity -> Nat]
  BY <1>2, <1>5
<1>7. TypeOK'
  BY <1>1, <1>2, <1>3, <1>4, <1>6 DEF TypeOK
<1>8. IncidentsAreTracked'
  BY <1>2, <1>3, <1>5 DEF IncidentsAreTracked
<1>9. NoOrphans' /\ Finite(db)' /\ Dated(db)'
  BY <1>1, <1>2 DEF NoOrphans, OwnedRow, Finite, Dated
<1> QED
  BY <1>1, <1>2, <1>4, <1>7, <1>8, <1>9, EmptyDated DEF IInv

LEMMA StutterKeeps == ASSUME IInv, UNCHANGED vars PROVE IInv'
<1>1. /\ now' = now /\ phase' = phase /\ due' = due /\ upSince' = upSince
      /\ seen' = seen /\ open' = open /\ cache' = cache /\ nextSid' = nextSid
      /\ pend' = pend /\ db' = db /\ taken' = taken /\ cut' = cut
      /\ degraded' = degraded /\ late' = late /\ used' = used
  BY DEF vars, memory, ghosts
<1>2. TypeOK'
  BY <1>1 DEF IInv, TypeOK
<1>3. /\ NoOrphans' /\ Finite(db)' /\ Dated(db)' /\ Dated(pend)'
      /\ IncidentsAreTracked'
  BY <1>1 DEF IInv, NoOrphans, OwnedRow, Finite, Dated, IncidentsAreTracked
<1> QED
  BY <1>1, <1>2, <1>3 DEF IInv

(* The strengthened invariant: besides what follows from it below, that    *)
(* every id the writer holds is its entity's and every id it will give out *)
(* is nobody's, whether the buffers of the tick are committed or not.      *)
THEOREM InductiveInvariant == Spec => []IInv
<1>1. IInv /\ [Next]_vars => IInv'
  <2> SUFFICES ASSUME IInv, [Next]_vars PROVE IInv'
    OBVIOUS
  <2>1. CASE Tick
    BY <2>1, TickKeeps
  <2>2. CASE Commit
    BY <2>2, CommitKeeps
  <2>3. CASE CommitLocked
    BY <2>3, CommitLockedKeeps
  <2>4. CASE Retain
    BY <2>4, RetainKeeps
  <2>5. CASE RetainLocked
    BY <2>5, EndKeeps DEF RetainLocked
  <2>6. CASE Crash
    BY <2>6, EndKeeps DEF Crash
  <2>7. CASE Start
    BY <2>7, StartKeeps
  <2>8. CASE UNCHANGED vars
    BY <2>8, StutterKeeps
  <2> QED
    BY <2>1, <2>2, <2>3, <2>4, <2>5, <2>6, <2>7, <2>8, Zenon DEF Next
<1> QED
  BY <1>1, InitIInv, PTL DEF Spec

(* Tables, buffers, caches and counters keep their shape, for any number   *)
(* of entities and series.                                                 *)
THEOREM TypeCorrect == Spec => []TypeOK
<1>1. IInv => TypeOK
  BY DEF IInv
<1> QED
  BY <1>1, InductiveInvariant, PTL

(* No stored row outlives its series or passes to another entity, whatever *)
(* is reaped, exempted, dropped or lost (evict_series_cache, PM-10).       *)
THEOREM RowsKeepTheirSeries == Spec => []NoOrphans
<1>1. IInv => NoOrphans
  BY DEF IInv
<1> QED
  BY <1>1, InductiveInvariant, PTL

(* Every incident in memory is of an entity whose disappearance would be   *)
(* noticed, over any restarts (seed_seen, IN-09).                          *)
THEOREM NoIncidentOutOfSight == Spec => []IncidentsAreTracked
<1>1. IInv => IncidentsAreTracked
  BY DEF IInv
<1> QED
  BY <1>1, InductiveInvariant, PTL
=============================================================================
