------------------------------ MODULE Sampling ------------------------------
(***************************************************************************)
(* The tick of the sampling half of the daemon: the scheduler and the due    *)
(* table (engine/scheduler.py), the external checks that run within a        *)
(* budget (checks/sampler.py), and the pipeline that turns each snapshot     *)
(* into ring points, derived metrics, rule outcomes, durable history and     *)
(* disappearances (engine/pipeline.py, engine/rings.py).                    *)
(*                                                                         *)
(* Every time is relative to the start of the latest tick and an age stops   *)
(* at MaxAge, beyond every window and grace.  The wall clock runs with the   *)
(* monotonic one.  A snapshot is a function from the entities it found to    *)
(* [attrs, metrics]; samplers enumerate entities in the order of their ids.  *)
(***************************************************************************)
EXTENDS ExternalChecks, Ticks

CONSTANTS
  Monitors,      \* the monitors' names
  Def,           \* Def[monitor][version]: the definition
  Entities,      \* the entity ids, as a sequence in their order
  Spec,          \* alias -> [timeout, protocol]
  Snapshots,     \* what a sampler other than the external one may find
  Processes,     \* alias -> the ways its check may go
  Late,          \* how late the scheduler may wake
  TickLength, Budget, Grace, DemoteAfter, MaxAge,
  Limit,         \* promotions per monitor
  MaxReports,    \* external observations that are published
  MaxMemory,     \* points the rings may hold
  MaxLate,       \* late wakings
  MaxReloads,    \* changes of definitions and of the registry
  None

ASSUME SamplingAssumption ==
  /\ MaxAge > Grace /\ MaxAge > DemoteAfter
  /\ \A m \in Monitors : \A v \in DOMAIN Def[m] : Def[m][v].interval > 0

VARIABLES
  loaded,    \* monitor -> version of its definition, or None
  table,     \* the due table: its monitors in order
  due,       \* monitor -> when it is due next
  plan,      \* when the next tick is planned
  spent,     \* how long the checks of the latest tick took
  registry,  \* the aliases that may run
  turn,      \* _next_alias
  rings,     \* monitor -> entity -> metric -> points
  seen,      \* monitor -> entity -> when it was last seen
  promoted,  \* monitor -> entity -> when its heuristic last held
  denied,    \* monitor -> the entities refused a slot
  limited,   \* the monitors that refused one
  streak,    \* monitor -> rule -> runs in which it lacked a measurement
  reports,   \* monitor -> version its published observation was made under
  last,      \* what the latest tick made of each monitor (bookkeeping)
  taken,     \* every point of the longest window (bookkeeping)
  late, reloads

clock    == <<table, due, plan, spent, late>>
pipeline == <<rings, seen, promoted, denied, limited, streak, reports>>
vars     == <<loaded, clock, registry, turn, pipeline, last, taken, reloads>>

Definition(m) == Def[m][loaded[m]]
Loaded        == {m \in Monitors : loaded[m] # None}
External(m)   == Definition(m).source = "external"
Earlier(t, d) == IF t - d < -MaxAge THEN -MaxAge ELSE t - d
Aged(f, d)    == [x \in DOMAIN f |-> Earlier(f[x], d)]
AgedPoints(seq, d) == [i \in DOMAIN seq |-> <<Earlier(seq[i][1], d), seq[i][2]>>]
\* A function, as a table of its values.
Tabulated(f)  == f @@ <<>>
AgedRings(r, d) ==
  [e \in DOMAIN r |-> Tabulated([x \in DOMAIN r[e] |-> AgedPoints(r[e][x], d)])]
Place(e)      == CHOOSE i \in DOMAIN Entities : Entities[i] = e
InTurn(Step(_, _), base, seq) ==
  LET f[i \in 0..Len(seq)] == IF i = 0 THEN base ELSE Step(f[i - 1], seq[i]) IN f[Len(seq)]

----------------------------------------------------------------------------
(* Rings.                                                                   *)

\* MonitorDef.windows: the longest window any expression of the definition
\* looks back over, for each metric that has one.
WindowsOf(def) ==
  LET pairs == UNION ({Windows(def.rules[k].when) : k \in DOMAIN def.rules}
                      \cup {Windows(def.derived[k].expr) : k \in DOMAIN def.derived}
                      \cup {Windows(x) : x \in def.exempt \cup {def.promotion}})
  IN  [metric \in {w[1] : w \in pairs} |-> Max({w[2] : w \in {w \in pairs : w[1] = metric}})]

\* RingStore.configure: a metric that is never looked back over keeps two.
Cap(def, metric) == IF metric \in DOMAIN def.windows THEN Capacity(def.windows[metric], def.interval) ELSE 2
Span(def, metric) == IF metric \in DOMAIN def.windows THEN def.windows[metric] ELSE 0

ASSUME WindowsAssumption ==
  \A m \in Monitors : \A v \in DOMAIN Def[m] : Def[m][v].windows = WindowsOf(Def[m][v])

LastOf(seq, n) == SubSeq(seq, IF Len(seq) > n THEN Len(seq) - n + 1 ELSE 1, Len(seq))
\* RingStore.append: the oldest point makes room.
append(series, metric, cap, value) ==
  (metric :> LastOf(Append(IF metric \in DOMAIN series THEN series[metric] ELSE <<>>, <<0, value>>), cap))
  @@ series

PointsOf(r, m, e) ==
  FoldFunctionOnSet(+, 0, [metric \in DOMAIN r[m][e] |-> Len(r[m][e][metric])], DOMAIN r[m][e])
Keys(r) == {k \in Monitors \X Range(Entities) : DOMAIN r[k[1]][k[2]] # {}}
Memory(r) == FoldFunctionOnSet(+, 0, [k \in Keys(r) |-> PointsOf(r, k[1], k[2])], Keys(r))
Touched(r, k) == Max({Last(r[k[1]][k[2]][metric])[1] : metric \in DOMAIN r[k[1]][k[2]]})
ForgetKeys(r, gone) == [m \in Monitors |-> [e \in Range(Entities) |-> IF <<m, e>> \in gone THEN <<>> ELSE r[m][e]]]

\* evict_if_over: whole entities, the least recently touched first, until the
\* rest fits; what is promoted stays.  Those touched at once go in any order.
Evictions(r, prom) ==
  LET free == {k \in Keys(r) : k[2] \notin DOMAIN prom[k[1]]} IN
  {out \in SUBSET free :
     /\ \A k \in out, j \in free \ out : Touched(r, k) <= Touched(r, j)
     /\ out # free => Memory(ForgetKeys(r, out)) <= MaxMemory
     /\ out # {} => \E k \in out : /\ \A j \in out : Touched(r, j) <= Touched(r, k)
                                   /\ Memory(ForgetKeys(r, out \ {k})) > MaxMemory}

----------------------------------------------------------------------------
(* External checks.                                                         *)

\* ExternalSampler.prepare: the aliases of the monitors that are due, each
\* once, from the one whose turn it is, while the budget lasts.
Rotated(aliases, first) ==
  IF first \notin Range(aliases) THEN aliases
  ELSE LET i == CHOOSE i \in DOMAIN aliases : aliases[i] = first
       IN  SubSeq(aliases, i, Len(aliases)) \o SubSeq(aliases, 1, i - 1)

RunNext(acc, alias, processes) ==
  IF acc.stopped THEN acc
  ELSE IF acc.spent >= Budget THEN [acc EXCEPT !.stopped = TRUE, !.turn = alias]
  ELSE LET raw == Run(Spec[alias], processes[alias], Budget - acc.spent)
       IN  [acc EXCEPT !.results = (alias :> raw) @@ @, !.spent = @ + raw.took]

prepare(monitors, processes) ==
  LET externals == SelectSeq(monitors, LAMBDA m : External(m) /\ Definition(m).check \in registry)
      Merge(seq, m) == IF Definition(m).check \in Range(seq) THEN seq ELSE Append(seq, Definition(m).check)
      ordered   == Rotated(InTurn(Merge, <<>>, externals), turn)
      start     == [results |-> <<>>, spent |-> 0, stopped |-> FALSE,
                    turn |-> IF ordered = <<>> THEN None ELSE ordered[1]]
  IN  InTurn(LAMBDA acc, alias : RunNext(acc, alias, processes), start, ordered)

\* ExternalSampler.sample: a check that did not run leaves no entity at all.
sample(m, results) ==
  IF Definition(m).check \notin DOMAIN results THEN <<>>
  ELSE (Definition(m).entity :> [attrs |-> <<>>, metrics |-> project(Definition(m), results[Definition(m).check])])

----------------------------------------------------------------------------
(* One entity of a snapshot.                                                *)

\* A context that takes what the rings hold for current.
NothingUnavailable(def, available) == {}
Unavailable(def, available) == IF def.source = "external" THEN declared_metric_names(def) \ available ELSE {}

Context(def, series, attrs, available) ==
  [rings |-> series, attrs |-> attrs, params |-> def.params, baselines |-> <<>>, now |-> 0,
   unavailable |-> Unavailable(def, available)]
MetricNames(def, node) == Mentions(node) \cap declared_metric_names(def)
\* What an unknown value lacked; a derived metric that is missing lacks in turn
\* what it was made of.
Causes(def, node, available, missing) ==
  UNION {IF x \in DOMAIN missing THEN missing[x] ELSE {x} : x \in MetricNames(def, node) \ available}

Derive(def, attrs, acc, d) ==
  LET v == Ev(d.expr, EnvOf(def), Context(def, acc.series, attrs, acc.available)) IN
  IF IsNum(v)
  THEN [acc EXCEPT !.series = append(@, d.name, Cap(def, d.name), v.n),
                   !.available = @ \cup {d.name}]
  ELSE [acc EXCEPT !.missing = (d.name :> Causes(def, d.expr, acc.available, acc.missing)) @@ @]

Concluded(def, rules, after, ctx, result) ==
  [series |-> after.series, available |-> after.available,
   excluded |-> \E x \in def.exempt : Ev(x, EnvOf(def), ctx) = Truth(TRUE),
   matches |-> Ev(def.promotion, EnvOf(def), ctx) = Truth(TRUE),
   outcome |-> result,
   lacks |-> {k \in DOMAIN rules : /\ result[k] = "unknown"
                                   /\ Causes(def, rules[k].when, after.available, after.missing) # {}}]
Evaluated(def, rules, after, ctx) ==
  Concluded(def, rules, after, ctx, [k \in DOMAIN rules |-> Tribool(Ev(rules[k].when, EnvOf(def), ctx))])

\* Its measurements enter the rings, then the derived metrics in their order;
\* the exemptions, the heuristic and the rules see all of them.
View(def, sampled, before) ==
  LET Sampled(series, metric) == append(series, metric, Cap(def, metric), sampled.metrics[metric])
      base == [series |-> InTurn(Sampled, before, SetToSeq(DOMAIN sampled.metrics)),
               available |-> DOMAIN sampled.metrics, missing |-> <<>>]
      Known(after) == Evaluated(def, runtime_rules(def), after,
                                Context(def, after.series, sampled.attrs, after.available))
  IN  Known(InTurn(LAMBDA acc, d : Derive(def, sampled.attrs, acc, d), base, def.derived))

----------------------------------------------------------------------------
(* One monitor.                                                             *)

\* _update_unknown_rules: consecutive runs in which a rule was unknown for
\* want of a measurement; a run that evaluated nothing counts neither way.
ReportAfter == 3
NextStreak(m, views, kept) ==
  [k \in DOMAIN runtime_rules(Definition(m)) |->
     IF kept = {} THEN streak[m][k]
     ELSE IF \E e \in kept : k \in views[e].lacks
     THEN IF streak[m][k] < ReportAfter THEN streak[m][k] + 1 ELSE ReportAfter
     ELSE 0]

\* _select_persisted: the top N of a process monitor by either measure,
TopN(snap, metric, n) ==
  LET of == {e \in DOMAIN snap : metric \in DOMAIN snap[e].metrics}
      above(e) == {f \in of : \/ snap[f].metrics[metric] > snap[e].metrics[metric]
                              \/ snap[f].metrics[metric] = snap[e].metrics[metric] /\ Place(f) < Place(e)}
  IN  {e \in of : Cardinality(above(e)) < n}

FirstN(set, n) == {e \in set : Cardinality({f \in set : Place(f) < Place(e)}) < n}

\* (Slots that are counted before anything is demoted:)
PromotionsBeforeDemotion(prom, matches) ==
  LET kept == [e \in {e \in DOMAIN prom : e \in matches \/ -prom[e] <= DemoteAfter} |->
                 IF e \in matches THEN 0 ELSE prom[e]]
      candidates == matches \ DOMAIN kept
      slots    == IF Limit > Cardinality(DOMAIN prom) THEN Limit - Cardinality(DOMAIN prom) ELSE 0
      admitted == FirstN(candidates, slots)
  IN  [promoted |-> [e \in admitted |-> 0] @@ kept, denied |-> candidates \ admitted]

\* and those promoted: an admission lasts while its heuristic holds and some
\* time longer, the slots that are free go to the candidates in order.
Promotions(prom, matches) ==
  LET kept == [e \in {e \in DOMAIN prom : e \in matches \/ -prom[e] <= DemoteAfter} |->
                 IF e \in matches THEN 0 ELSE prom[e]]
      candidates == matches \ DOMAIN kept
      slots    == IF Limit > Cardinality(DOMAIN kept) THEN Limit - Cardinality(DOMAIN kept) ELSE 0
      admitted == FirstN(candidates, slots)
  IN  [promoted |-> [e \in admitted |-> 0] @@ kept, denied |-> candidates \ admitted]

\* run_monitor, at d seconds after the last tick.
RanWith(m, snap, d, aged, views) ==
  LET def    == Definition(m)
      exempt == {e \in DOMAIN snap : views[e].excluded}
      kept   == DOMAIN snap \ exempt
      sight  == [e \in DOMAIN snap |-> 0] @@ Aged(seen[m], d)
      gone   == IF def.source = "external" THEN {} ELSE {e \in DOMAIN sight : -sight[e] > Grace}
      choice == IF def.source = "process"
                THEN Promotions(Aged(promoted[m], d), {e \in kept : views[e].matches})
                ELSE [promoted |-> promoted[m], denied |-> denied[m]]
      picked == IF def.source = "process"
                THEN TopN(snap, "cpu_pct", def.top_n) \cup TopN(snap, "rss_bytes", def.top_n)
                     \cup DOMAIN choice.promoted
                ELSE DOMAIN snap
  IN  [rings    |-> [e \in Range(Entities) |->
                       IF e \in gone THEN <<>> ELSE IF e \in DOMAIN snap THEN views[e].series ELSE aged[e]],
       seen     |-> Restrict(sight, DOMAIN sight \ gone),
       promoted |-> Restrict(choice.promoted, DOMAIN choice.promoted \ gone),
       denied   |-> choice.denied \ gone,
       limited  |-> choice.denied # {},
       streak   |-> NextStreak(m, views, kept),
       observed |-> IF def.source # "external" THEN {} ELSE kept,
       hidden   |-> IF def.source # "external" THEN {} ELSE exempt,
       did      |-> [knows   |-> [e \in DOMAIN snap |-> views[e].available],
                     outcome |-> [e \in kept |-> views[e].outcome],
                     wrote   |-> (picked \cap DOMAIN snap) \ exempt,
                     freed   |-> DOMAIN choice.promoted \cap gone]]

RunOver(m, snap, d, aged) ==
  RanWith(m, snap, d, aged, Tabulated([e \in DOMAIN snap |-> View(Definition(m), snap[e], aged[e])]))
RunMonitor(m, snap, d) == RunOver(m, snap, d, Tabulated(AgedRings(rings[m], d)))

Quiet == [knows |-> <<>>, outcome |-> <<>>, wrote |-> {}, freed |-> {}]

\* The observation an external monitor publishes: the slots are limited.
Publish(acc, m, results) ==
  IF results[m].observed # {} /\ (acc[m] # None \/ Cardinality({n \in Monitors : acc[n] # None}) < MaxReports)
  THEN [acc EXCEPT ![m] = loaded[m]]
  ELSE IF results[m].hidden # {} THEN [acc EXCEPT ![m] = None] ELSE acc

----------------------------------------------------------------------------
(* Actions.                                                                 *)

NewSpan(d, m, e, metric, new) ==
  LET was == IF metric \in DOMAIN taken[m][e] THEN AgedPoints(taken[m][e][metric], d) ELSE <<>>
      now == IF new = {} THEN was ELSE Append(was, CHOOSE p \in new : TRUE)
      Recent(p) == p[1] >= -Span(Definition(m), metric)
  IN  SelectSeq(now, Recent)

Waking(delay) == (IF plan > spent THEN plan ELSE spent) + delay
DueAt(d) == SelectSeq(table, LAMBDA m : IsDue(due[m] - d, 0))

\* One tick, d seconds after the last, that finds snap and whose checks go as
\* processes say.
Tick(delay, snap, processes) ==
  \E d \in {Waking(delay)} : \E checked \in {prepare(DueAt(d), processes)} :
    /\ delay > 0 => late < MaxLate
    /\ late' = IF delay > 0 THEN late + 1 ELSE late
    /\ plan' = NextTick(plan - d, 0, TickLength)
    /\ spent' = checked.spent /\ turn' = checked.turn
    /\ \E did \in {Tabulated([m \in Range(DueAt(d)) |->
                     RunMonitor(m, IF External(m) THEN sample(m, checked.results) ELSE snap, d)])} :
         LET isDue == DOMAIN did IN
         /\ due' = [m \in Monitors |-> IF m \in isDue THEN Advanced(due[m] - d, 0, Definition(m).interval)
                                       ELSE IF m \in Range(table) THEN due[m] - d ELSE 0]
         /\ promoted' = [m \in Monitors |-> IF m \in isDue THEN did[m].promoted ELSE Aged(promoted[m], d)]
         /\ seen' = [m \in Monitors |-> IF m \in isDue THEN did[m].seen ELSE Aged(seen[m], d)]
         /\ denied' = [m \in Monitors |-> IF m \in isDue THEN did[m].denied ELSE denied[m]]
         /\ limited' = {m \in Monitors : IF m \in isDue THEN did[m].limited ELSE m \in limited}
         /\ streak' = [m \in Monitors |-> IF m \in isDue THEN did[m].streak ELSE streak[m]]
         /\ reports' = InTurn(LAMBDA acc, m : Publish(acc, m, did), reports, DueAt(d))
         /\ last' = [m \in Monitors |-> IF m \in isDue THEN did[m].did ELSE Quiet]
         /\ \E rung \in {Tabulated([m \in Monitors |-> IF m \in isDue THEN did[m].rings
                                                      ELSE AgedRings(rings[m], d)])} :
            \E out \in Evictions(rung, promoted') :
              /\ rings' = ForgetKeys(rung, out)
              /\ taken' = [m \in Monitors |-> [e \in Range(Entities) |->
                             IF <<m, e>> \in out \/ rung[m][e] = <<>> THEN <<>>
                             ELSE [x \in DOMAIN rung[m][e] |->
                                     NewSpan(d, m, e, x, {p \in Range(rung[m][e][x]) : p[1] = 0})]]]
    /\ UNCHANGED <<loaded, table, registry, reloads>>

NoSeries == [e \in Range(Entities) |-> <<>>]
NoStreak(m, v) == IF v = None THEN <<>> ELSE [k \in DOMAIN runtime_rules(Def[m][v]) |-> 0]

\* A rescan at the head of a tick, after the clock was read: a new or changed
\* definition starts with empty rings and is due at once; what the pipeline
\* remembers of its entities stays.
Reload(m, v) ==
  /\ reloads < MaxReloads /\ reloads' = reloads + 1
  /\ v # loaded[m]
  /\ loaded' = [loaded EXCEPT ![m] = v]
  /\ table' = IF v = None THEN SelectSeq(table, LAMBDA n : n # m)
              ELSE IF m \in Range(table) THEN table ELSE Append(table, m)
  /\ due' = [due EXCEPT ![m] = 0]
  /\ rings' = [rings EXCEPT ![m] = NoSeries] /\ taken' = [taken EXCEPT ![m] = NoSeries]
  /\ streak' = [streak EXCEPT ![m] = NoStreak(m, v)]
  /\ reports' = [reports EXCEPT ![m] = None]
  /\ last' = [last EXCEPT ![m] = Quiet]
  /\ UNCHANGED <<plan, spent, late, registry, turn, seen, promoted, denied, limited>>

set_registry(aliases) ==
  /\ reloads < MaxReloads /\ reloads' = reloads + 1
  /\ registry' = aliases /\ aliases # registry
  /\ turn' = IF turn \in aliases THEN turn ELSE None
  /\ UNCHANGED <<loaded, clock, pipeline, last, taken>>

InitWith(first, names, aliases) ==
  /\ loaded = first /\ table = names /\ due = [m \in Monitors |-> 0]
  /\ plan = TickLength /\ spent = 0 /\ registry = aliases /\ turn = None
  /\ rings = [m \in Monitors |-> NoSeries] /\ taken = [m \in Monitors |-> NoSeries]
  /\ seen = [m \in Monitors |-> <<>>] /\ promoted = [m \in Monitors |-> <<>>]
  /\ denied = [m \in Monitors |-> {}] /\ limited = {}
  /\ streak = [m \in Monitors |-> NoStreak(m, first[m])]
  /\ reports = [m \in Monitors |-> None]
  /\ last = [m \in Monitors |-> Quiet]
  /\ late = 0 /\ reloads = 0

Ticks_ == \E delay \in Late, snap \in Snapshots, processes \in Processes : Tick(delay, snap, processes)
Changes == \/ \E m \in Monitors : \E v \in DOMAIN Def[m] \cup {None} : Reload(m, v)
           \/ \E aliases \in SUBSET DOMAIN Spec : set_registry(aliases)
Next == Ticks_ \/ Changes

----------------------------------------------------------------------------
(* Properties.                                                              *)

\* A window is never cut short by the ring it is read from: as long as an
\* entity is not forgotten as a whole, every point its monitor took within
\* the longest window over a metric is there, however late and close to each
\* other the ticks came (rings.py: configure's capacity, CA-04).
WindowsAreWhole ==
  \A m \in Loaded : \A e \in Range(Entities) : \A x \in DOMAIN taken[m][e] :
    LET Recent(p) == p[1] >= -Span(Definition(m), x)
    IN  SelectSeq(rings[m][e][x], Recent) = taken[m][e][x]

\* A promotion is worth its slot, and gives it back.  Slots are bounded, and
\* their holder is an entity that is still known: a promotion goes with its
\* entity, if its heuristic did not lapse before.  A run leaves no slot idle
\* while it refuses candidates, but those that came free when it gave up an
\* entity at its end, which the next run fills.  So no run writes history for
\* more than the top N of each measure and the limit; and what is promoted and
\* was found in the latest snapshot still has its points, although the rings
\* had to make room (pipeline.py _select_persisted, _track_gone, rings.py
\* evict_if_over, daemon.py _is_protected, SA-05).
Ran(m) == last[m].knows # <<>>
PromotionsHold ==
  /\ Memory(rings) <= MaxMemory \/ \A k \in Keys(rings) : k[2] \in DOMAIN promoted[k[1]]
  /\ \A m \in Loaded :
       /\ Cardinality(DOMAIN promoted[m]) <= Limit
       /\ DOMAIN promoted[m] \subseteq DOMAIN seen[m]
       /\ Ran(m) /\ m \in limited => Cardinality(DOMAIN promoted[m]) + Cardinality(last[m].freed) >= Limit
       /\ Definition(m).source = "process"
            => Cardinality(last[m].wrote) <= 2 * Definition(m).top_n + Limit
       /\ \A e \in DOMAIN promoted[m] \cap DOMAIN last[m].knows : rings[m][e] # <<>>

\* A rule of an external monitor speaks of the current observation, and of all
\* of it: had the rings never held a metric that is missing now, every rule
\* would have come out the same; and when the check could not be made (state 3)
\* one of them is TRUE, whatever else could not be measured (context.py
\* unavailable_metrics, checks/health.py, EC-11).
OutcomesAreEvidenced ==
  \A m \in Loaded : External(m) => \A e \in {e \in DOMAIN last[m].outcome : rings[m][e] # <<>>} :
    LET def     == Definition(m)
        known   == last[m].knows[e]
        outcome == last[m].outcome[e]
        fresh == [rings |-> Restrict(rings[m][e], known \cap DOMAIN rings[m][e]), attrs |-> <<>>,
                  params |-> def.params, baselines |-> <<>>, now |-> 0,
                  unavailable |-> declared_metric_names(def) \ known]
    IN  /\ \A k \in DOMAIN outcome : outcome[k] = Tribool(Ev(runtime_rules(def)[k].when, EnvOf(def), fresh))
        /\ Last(rings[m][e]["plugin_state"])[2] = 3 * Scale => \E k \in DOMAIN outcome : outcome[k] = "true"

=============================================================================
