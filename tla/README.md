# ftmon: verification project

ftmon is a host monitor: one daemon samples the machine, evaluates rules over
the samples and over the system log, turns what stays wrong into incidents, and
delivers notifications about them. It keeps everything in one SQLite file that a
command line, a web page and an MCP server read, and into which they write acks.

The modules in this directory model that program, from its Python source under
`src/src/ftmon`, and TLC and TLAPS check them. SPEC identifiers such as IN-02
refer to `SPEC.md` of the repository.

## 1. The system

### Parts, state, operations

| part | code | state | operations |
|---|---|---|---|
| Daemon tick | `daemon.py`, `engine/scheduler.py` | loaded definitions, due table, group states, rescan clock | `on_tick`: rescan, run due monitors, step incidents, event tick, commit, launch actions, wake the outbox |
| Incident engine | `engine/incidents.py` | none: pure functions over `GroupState` (rungs, core) | `step_group`, `clear_gone`, `clear_superseded` |
| Effects and store | `engine/effects.py`, `store/writer.py` | buffers of the tick, caches of ids and history numbers | `apply`, `upsert_incident`, `add_incident_history`, `commit_tick` |
| Actions | `engine/actions.py` | `action_runs` table | `run`: reserve, launch, record |
| Acks | `SmallWrites` in `store/query.py` | the incident's row and history | `ack`, from another process |
| Outbox | `store/outbox.py`, `notify/` | notifications, deliveries, a worker thread with its own connection | `commit_tick`'s fan-out, `flush`, claim, deliver, mark, digest, retry |
| Event ingest | `sources/journald.py`, `sources/repeats.py`, `engine/events.py` | a bounded queue under a lock, a reader thread, drop counters, cursor | offer and merge, drain, supervise, overflow report, checkpoint |
| Event rules | `engine/events.py`, `engine/episodes.py` | episode per rule and identity, storm state per provider | `step_episode`, storm guard, `supersede`, `refresh_acks`, `rebuild` |
| Scheduler | `engine/scheduler.py`, `clock.py` | due table, anchor | `due`, `run` |
| Sampling pipeline | `engine/pipeline.py`, `engine/rings.py`, `engine/context.py` | tracked entities, rings, baselines | sample, promote, evaluate, gone tracking |
| Expressions | `expr/` | none | parse, check names and signatures, three-valued evaluation |
| Definitions | `definitions/`, `recipes/install.py` | TOML files, drafts, `checks.toml`, `monitor_loads` | load and validate, draft, approve, enable, disable, install, rescan |
| Retention | `store/retention.py` | roll-ups and their cursors, baselines, the reap's cursor | `run`: roll up to 5 minutes and hours, step baselines, prune, reap the catalog, expire what is long gone, cap history, degrade over budget |
| External checks | `checks/` | registry, the alias whose turn it is | run within a budget, parse, project, decide which rule owns a failed check |
| Other readers | `sources/oslog.py`, `sources/win_evtlog.py` | identities and a watermark; bookmarks of channels | start, replay, subscribe, read, drain |
| Read side | `store/query.py`, `mcp_server.py`, `web/app.py`, `glance.py` | none | `query_metrics`, `list_baselines`, `collection_health`, a page's state |
| Interfaces | `cli.py`, `demo.py` | none | queries, ack, definition management |

### How they interact

Within a tick everything is one thread: samplers and the event queue feed the
engines, engines return effects, `EffectExecutor.apply` turns effects into
buffered rows, and `commit_tick` stores samples, events, the event cursor,
incidents, history, notifications and deliveries in one transaction (PM-03).
Actions run after the commit, the outbox worker is woken after it.

Around the tick run: the outbox worker (own connection, own transactions), one
reader thread per event source (shares the queue under its lock), other
processes that write acks and edit definitions, others that read several tables
one statement at a time, and the operating system, which
may kill the daemon between any two of these steps. A restart rebuilds memory
from the tables.

### Behaviours that are hard

* memory and tables hold the same incident; an ack changes the table first, a
  transition changes memory first, a dropped commit changes memory only, a
  crash keeps the tables only;
* ids and history numbers are chosen from caches outside the transaction that
  stores them, while other writers insert;
* a delivery is claimed, sent with no transaction open, and marked; any of the
  three may fail or be the last thing the process does;
* a cursor is stored while entries wait in a pipe, in a queue, or in a batch that
  a locked database drops;
* quiet periods, confirmation windows, cooldowns and backoffs span restarts;
* a series id is cached for the life of the daemon, while retention, exemption
  and a dropped commit take the series away; who is gone is known from sightings
  that are in memory only, while what follows from it is in the tables;
* definitions, drafts and the registry of checks are files that several tools
  change without a common lock, and the daemon rescans them in between;
* a check may hang, a measurement may be missing, a tick may come late, and a rule
  must not be decided by what is not there;
* an answer or a page is many statements, and the tables move on between them;
* clocks jump, storms begin and end within a minute, queues overflow.

`PROJECT.json` lists each of these as a hazard at its line, with the properties
that would catch it.

## 2. Modules

| module | models | variables to code |
|---|---|---|
| `IncidentEngine` | `incidents.py`: the ladder as operators, no variables | a `GroupState` is `[rungs, core]`; `StepGroup`, `ClearOutright` are `step_group`, `clear_gone`/`clear_superseded` |
| `IncidentLifecycle` (extends it) | one incident group in the daemon | `mem` is `_istates[key]`, `pend` the writer's buffers, `rows` and `notes` the tables, `hash` the definition on disk, in memory and in `monitor_loads` |
| `TickStore` | `writer.py`, `actions.py` and the ack | `cache` is `_history_seq`, `nextNote` the next notification id, `buf` the buffers, `hist`/`notes`/`rows` the tables, `queue` the pending actions, `launches` what ran |
| `Obligations` | abstract: what a delivery owes its channel | `duty`, `got` |
| `Outbox` | `outbox.py` and the tick's fan-out; implements `Obligations` | `notes`, `deliv` the tables, `worker` the thread with its claim, `config` the channels and quiet hours, `got` what receivers saw |
| `EventIngest` | journald's reader threads, queue, supervision, checkpoint | `queue`, `dropped`, `pipes` and `reader` the threads, `batch` the tick's buffers, `db` events and cursor, `lastCursor`, `overflow` the report's counters |
| `OslogReader` | `oslog.py`: replay, handoff to the stream, identities, gap reports | `source` is the adapter's fields, `reader` its thread and subprocess, `tick` and `db` as above; a cursor is a watermark and identities; `lost` is a ghost that names what was evicted, missed, skipped, or dropped with a locked commit (`unsaved`, its gap reports `untold`) |
| `WindowsReader` | `win_evtlog.py`: subscriptions of several channels into one queue | `sub` is `_subs` and `_channel_ok`, `committed` the composite bookmark, which keeps what was drained when a commit meets a lock; `lost` is a ghost as above |
| `EventSources` (extends `EventIngest`) | `sources/__init__.py`: the adapter of the platform; instantiates both others | `platform` |
| `StormGuard` | `_storm_suppressed`, `_close_quiet_storms` | `storm` is one `_StormState`; `books` is a ghost |
| `EventRules` (extends it) | `episodes.py` and the event engine's use of it | `ep` is `_states[key]`, `pend`/`rows`/`notes` as above, `matched` and `since` are ghosts |
| `Ticks` | `scheduler.py`'s arithmetic, `rings.py`'s capacity: operators | |
| `Expressions` | `expr/`: what compiles, and the value of a tree in a context | |
| `ExternalChecks` (extends `Expressions`) | `checks/`: a run, both protocols, projection, who owns a failure | |
| `Sampling` (extends the last three) | `on_tick`'s sampling half: due table, checks within a budget, rings, derived metrics, outcomes, promotion, disappearance | `table`, `due`, `plan` the scheduler, `registry`, `turn` the external sampler, `rings`, `promoted`, `seen` the pipeline; `last` and `taken` are ghosts |
| `DefinitionLoader` (extends `Expressions`) | `loader.py` and `schema.py`: from a TOML document to the set of its errors | |
| `Definitions` | the files, the tools that change them, the rescan, the restart | `monitors`, `drafts`, `checks` the files, `tool` each tool's steps, `loaded`, `events`, `authority`, `held` the daemon, `rows`, `loads` the tables |
| `SeriesStore` | a tick's samples in `pipeline.py` and `writer.py`, `retention.py`, the daemon's start | `db` is the tables `series`, `samples`, `rollup5m`, `rollup1h`, `baselines`, `entities`, `meta`, `incidents`; `pend` the buffers, `cache` and `nextSid` the writer's ids, `seen` the pipeline's sightings, `open` the engine's incidents; `taken`, `cut`, `degraded`, `late` are ghosts, `late` the samples whose roll-up a downtime may have overtaken |
| `Queries` | `query.py`: tiers, series, pages, reversal, chart points: operators | |
| `SeriesAnswers` (extends `SeriesStore`) | the tables of `SeriesStore` as `Queries` reads them | |
| `ReadSide` (extends `Queries`) | `query_metrics` and `list_baselines` of `mcp_server.py`, statement by statement, while retention writes | `db` the tables, `call` what the call has read so far |
| `Dashboard` | a page of `web/app.py` with `glance.py` and `collection_health`, statement by statement, while the daemon ticks, reloads, stops and starts | the tables, the file, the page's readings |
| `Readers` (extends `ReadSide`, instantiates `Dashboard`) | the two readers side by side | `side` whose question it is |

`Definitions` takes what the loader makes of a body from a constant, and
`MCDefinitions` checks with an assumption that this is what `DefinitionLoader`
makes of real documents. `Sampling` treats a snapshot and the way a check goes as
input. `Readers` composes `ReadSide` and `Dashboard`: one reader at a time.

The stages of `Retention.run` are operators from tables to tables (`Rolled5`,
`Rolled1`, `Pruned`, `AfterReap`, `Expirable`, `Degradations`), composed in the
action `Retain` in the order the transaction runs them. A sample is its entity
and its time, and a roll-up row holds the set of samples it was made of in place
of average, extremes and count, so that a row that lost a sample, counted one
twice or took another entity's shows. `ReadSide` has the values instead.

The `MC*` modules give the constants values; `MCDefinitions` and `MCSampling` also
let a document or a condition be examined on its own, one state each, because a
pure algorithm is checked over bounded inputs in the run it belongs to. Constants
of the program that are numbers (backoffs, windows, limits) are CONSTANTS with the
weakest assumption the code justifies; bounds of the model are CONSTANTS named
`Max...` and appear in guards only.

A tick is two steps, "change memory and fill the buffers" and "commit", because
an ack or a crash may come in between. Working states are threaded through the
operators of the first step in the order the code calls them, so that a rescan,
an acknowledgement seen by it and the evaluation are one action, as they are one
call of `on_tick`.

## 3. What the runs show

| run | asks |
|---|---|
| `lifecycle_restart` | Does memory agree with the tables over edits, an ack, a crash and a gone entity; do notifications keep their backoff over restarts; is every raise announced and a cleared incident final? |
| `lifecycle_recovers` | Does an incident whose rung stays false end cleared, from any state a crash or a restart leaves; can only a dropped commit make a later one raise? |
| `store_history` | Do the history numbers of three writers come in order or make the commit raise; do actions keep their rate limit? |
| `store_ack` | **Violation.** Is an ack harmless to the daemon? |
| `outbox` | Does the outbox implement `Obligations`, with repeats bounded by faults and nothing settled touched again; while the worker lives, does every remote delivery settle, and is the audit file written once it can be? |
| `ingest_accounts` | On each platform: is what a stored cursor passes stored or lost in a named way, and nothing stored twice; on Linux, are drops reported in full, and do all entries arrive? |
| `log_handoff` | **Violation.** Does no event fall between `log show` and `log stream`? |
| `events_episode` | Is every episode evidenced by a burst within its window and no burst missed; does it end in quiet only and stay one row over restarts; does the storm guard keep its limit and its count? |
| `definitions` | Is an external monitor loaded only against a registry that has its check; does no incident pass to another definition; is an accepted document wholly right; does every edit that leaves a valid file, and every removal, take effect in the end? |
| `sampling` | Do rings hold whole windows however late ticks come; do promotions keep slots and points, and give the slot back when their entity goes; are outcomes those of the current observation, and is a failed check some rule's business; is UNKNOWN never taken for an answer? |
| `catalog_keeps` | Does every stored row stay with its entity's series; is each committed sample found raw, in its whole 5-minute row and in its whole hourly row for as long as each window promises, unless a downtime overtook its roll-up, and did each bucket step the baseline once; is no incident out of sight after a restart; is the tier a query chooses whole for all it asks about? |
| `reading` | Is an answer of `query_metrics` one state's; do the pages of the baselines list each once; does a reversed history replay the levels that were; is what a dashboard says of a monitor true of one moment of the page? |

### Bounds, and why they are enough

* Lifecycle: two rungs of distinct severity, confirm and clear cycles 2/1 and
  1/2 so that each rung lags the other both ways, three backoff tiers, a flap
  window of four, three incident ids, two edits, one crash. Seven units of time
  let an incident confirm, escalate, renotify, clear, flap and restart. Locked
  commits are left to `lifecycle_recovers`: after one, memory and table differ
  until the next transition (which is PM-10's design), so `MemoryMirrorsRows`,
  `BackoffSpacing` and `RaiseIsAnnounced` are statements about unlocked commits.
* Store: two incidents that share one action, history of four entries, three
  ticks, one of each fault, and a clock with three readings that goes anywhere.
* Outbox: two notifications, the file and one remote channel, lifetime two, two
  delays, receivers that ask for an early or a late retry, a fault the worker may
  or may not survive, a crash, a reconfiguration. One id is left for a digest.
* Ingest: three entries of two texts, a queue of two, so that merging, eviction
  and a pipe with leftovers happen; `MaxFaults` bounds deaths, crashes and locked
  commits together, two of them in a behaviour. The backoff starts at its cap, so its doubling shows only in
  the violation run. The other two readers get three entries and faults of
  their own: on macOS two, each a death, a restart or a locked commit, on Windows one
  restart or locked commit (`Others`); on macOS two identities are kept, the overlap is one second and times
  count half seconds, so that a watermark is cut to a whole second; entries are 0 or
  3 of them apart (with steps of 2 as well an entry may be replayed after a newer one
  and its identity outlast that of the newer one, as identities go in the order they
  were remembered, not of age; `RepeatsAreOld` allows for that, and TLC agrees, but the
  run would take too long); on Windows two
  channels and two subscriptions that fail. The two texts are alike, so the constraint
  `NamedInOrder` has the first entry named `a`.
* Events: three matches confirm, records repeat twice, the window is two, the
  quiet period three, the storm limit two in a minute of three, six units of
  time, an edit and a crash. A lower bound in any of these leaves an action
  without effect or a mutant alive.
* Catalog: a process with a rule and a disk, hours of two buckets, windows of 3
  (raw), 4 and 5 (5-minute), 8 and 9 (hourly) in the order the code's defaults
  have, batches of two rows and expiry of one, 16 units of time with downtimes of
  five, so that a bucket is rolled up late, pruned, expired and its entity reaped
  and seen again within one behaviour, and so that after a downtime past the
  5-minute window the capped roll-up lags behind the prune. `MaxSightings`,
  `MaxExempt`, `MaxOpens` and `MaxFaults` bound how often the environment acts; the
  constraint `TwoOfThree` leaves out behaviours with an exemption, an incident and a
  fault all three. A 5-minute window shorter than an hour would lose hourly rows; the
  code's is 7 days.
* Definitions: two file names and six bodies (two versions of a sampler, an
  external and an event monitor, one the validator rejects, one that makes it
  raise), one tool beside hand edits, two edits, a crash, a locked commit. A file
  keeps to the table its monitor is in (`KeepsTable`; `Swap = FALSE`); what happens
  otherwise is in section 4. The documents examined are all those with one fault
  and all ways in which three derived metrics may refer to each other.
* Sampling: ticks of 5 s, a budget of 10 s, intervals of 15 and 30 s, one late
  waking, one reload; the grace (15 s), the demotion delay (30 s), the promotion limit
  (one) and the memory cap (nine points) are scaled down so that each is reached, the
  grace before the delay as in the code (300 s at `pipeline.py:78`, 30 minutes at
  `pipeline.py:33`), so that a promotion vanishes with its entity while others are
  refused. A process
  monitor in two versions over two entities, or two external monitors. The
  conditions examined have two operators over what a check measures.
* Reading: three writes between the statements of a call, two entities, caps of
  three and five points, pages of one row; a projection has up to four points of each
  of its three inputs. Half lives stand for alphas 1 - 2^-h so
  that levels are exact. The dashboard: two ticks, two starts, an edit, an ack.

Every property of a passing run has a mutant in `PROJECT.json`: a change of one
mapped definition, of the kind a bug would be, under which the same run finds
the property violated. Type invariants are not among the properties of the runs:
where a module has one it is proved.

### Fairness

`IncidentLifecycle!FairSpec`: a tick that evaluates, the commit and the restart
are weakly fair, since the scheduler loop calls `on_tick` without end, the
commit follows in the same call, and the service manager restarts the daemon.
`Outbox!FairSpec`: the worker loop and the clock. Nothing is assumed of what
receivers answer, except in `FileIsWritten`'s premise. `EventSources!FairSources`:
the tick and journalctl, and strong fairness of the reader, because the tick
takes the queue's lock again and again but gives it back each time. The
specification of `definitions`: a rescan comes every 30 s, whatever tools do in
between (strong, because a tick that has not committed yet disables it), and every
tick ends with a commit. `ClearsInQuiet` and `SettledIsFinal` are action
properties and need none.

## 4. What is disagreed on

Two statements of the documentation are shown false by a run:

1. **An ack may end the daemon** (`store_ack`, IN-02, DM-12). The daemon numbers
   history entries from a cache, the ack from the table; the incident's next
   transition inserts a number that is taken, and `commit_tick` raises an error
   `on_tick` does not handle.
2. **An event between `log show` and `log stream` is lost** (`log_handoff`, DM-15,
   `SPEC.md:476-477`). The stream tails future events and begins after the replay
   has ended; the next event moves the watermark past the overlap.

Met while modelling, without a run of their own. Incidents and definitions:

* memory learns of an ack at the next rescan, up to 30 s later; a renotification or
  a downgrade before it writes `state = 'open'` and an empty `ack_by` over it
  (IN-02, `SPEC.md:1086`);
* two rungs of one severity: when the top one clears, the owning rule stays the
  cleared rung's;
* the flap history is in memory only: a second restart of a flapping incident
  starts it at a faster tier than it had;
* after a clear dropped by a locked commit, a reopening inserts a second live
  row for the group and the unique index ends the daemon; an incident of a
  monitor that never confirms again stays live in the table until the restart;
* an action run numbers history like an ack does, with the same end, and its
  short transactions do not handle a locked database at all; a digest takes
  `MAX(id) + 1` as notification id in its own transaction, a tick that chose its
  ids before may collide with it;
* a file that becomes invalid has its monitor superseded and dropped by the next
  rescan, where PM-04 (`SPEC.md:323`, `daemon.py:456`) keeps the last good
  definition: `load_dir` leaves the file out and the scan drops what it did not see.
  The model does what the code does; `EditsArrive` claims nothing of such a file.
  A document that makes the validator raise ends the daemon at its next rescan, and
  as long as it lies there no start succeeds and no edit of another file arrives;
* a file whose source changes between sampled and event leaves the old monitor's
  tables filled; two files with one monitor name supersede each other at every
  rescan; a `monitor_loads` row dropped by a locked commit is not written again;
* approval looks for the target and renames later, so a target that appears in
  between is replaced (PM-06d); a reload keeps promotions although it drops rings
  (MD-06);
* as the argument of a window function a derived metric must stand above the one
  that refers to it, while elsewhere the loader orders them as MD-08 (`SPEC.md:1009`)
  has it (`loader.py:792-816`: there an unknown name is a syntax error, which is not
  tried again); `schema: true` and `1.0` pass for version 1.

Events and notifications:

* a locked commit drops the events with their cursor, but they have left the queue
  and the adapter goes on from behind them, on macOS with their identities and
  watermark, on Windows with their bookmarks: the next stored checkpoint passes
  events that are neither stored nor replayed. PM-10 (`SPEC.md:370`) asks for the
  drop, DM-15 (`SPEC.md:478`) for a checkpoint that advances only after its events
  are stored. `LossIsAccounted` and `CursorsCover` name these events as lost
  (`unsaved`);
* a reader that is replaced while its thread still has entries to offer stores
  them twice; on the first run, before any cursor exists, its successor begins
  behind what the first one did not deliver;
* macOS: `--start` is cut to whole seconds while identities are kept for the exact
  overlap, so events of that part of a second are stored again; a `log show` that
  fails passes for one that ended, since its return code is looked at before it is
  waited for; a gap report is put at the head of the queue, where overflow takes
  it first, and an empty replay reports no gap (`SPEC.md:478-480`);
* Windows: a channel whose subscription fails once leaves the composite, the next
  commit overwrites its bookmark, and it resumes at its tail; the first boundary of
  a channel is stored with the first tick's commit, not before it is subscribed;
* a storm ends only in a minute whose first tick and all ticks before it brought
  nothing, so a provider that logs one event at the turn of each minute is never
  stored again, at any rate, although DM-10 says "until the rate drops";
* episodes do not restore `ack_by` at their next refresh: the row stays acked,
  but nobody acked it;
* a retry is not looked at for its age when it is claimed: after downtime one
  attempt may come after the lifetime of NO-07.

Samples, checks and reading:

* the prune does not wait for the roll-ups (`retention.py:201-237`, `322-345`), which
  advance by a bounded span a pass: after a downtime longer than the 5-minute window
  (7 days, or 30) the 5-minute rows of the last hour that was not yet rolled up are
  pruned before it is, and its hourly row is made of what is left or not at all; an
  entity with nothing but such rows may be reaped with its baseline early. After one
  longer than the raw window (48 h) the same holds of the last raw samples. DM-04
  (`SPEC.md:451`) makes no such exception, and the head of the module
  (`retention.py:4-9`) means a database that was offline for weeks to catch up.
  `HistoryIsKept` and `AnswersAreWhole` except just these samples (`Overtaken`): those
  an earlier daemon took, whose finer window ended before the cursor came to them.
  What the running daemon itself took is never lost so;
* who vanishes within a grace before a restart, or during the downtime, keeps an
  empty `gone_ts` and is never reaped (CA-08, `SPEC.md:928`, `SPEC.md:1093`): a
  start restores only the sightings of entities with an open incident; a locked
  commit drops the mark likewise;
* a process that reappears without being selected for history stays marked gone,
  and its hourly history expires while it runs (MD-09, `SPEC.md:1040`); an exempt
  entity that vanishes is written to `entities` after all, by `_track_gone`,
  although `pipeline.py:226` says that it must never enter persistent history;
* a locked database met by retention is not handled and ends the daemon
  (`daemon.py:868`), where one met by `commit_tick` costs a tick;
* the alias whose turn it is is forgotten at each tick at which no external
  monitor is due, so that a slow check may starve those after it (EC-08,
  `SPEC.md:731-734`, `checks/sampler.py:64`);
* `[x] != [1]` is TRUE when x is UNKNOWN, which EX-06 (`SPEC.md:1018`) excludes; an
  integer too large for a float makes the JSON adapter raise;
* a chart that is thinned to its limit loses the rims of a gap again
  (`query.py:822`, DM-17 at `SPEC.md:455`), so `AnswersAreExact` asks a projection for
  all its points only where they fit, and for its ends and for gaps among the points
  drawn where they do not; `query_metrics` aggregates what was thinned for display.

## 5. What is proved

TLAPS proves these for every value of the constants under the named assumptions
(`EngineAssumption`, `LifecycleAssumption`, `StoreAssumption`, ... in the modules
that declare them).

* `IncidentLifecycle_proofs`: `TypeOK`, `SeverityIsTop`, `RowsNameTheirOwner`. The
  engine lemmas show that `StepGroup` and the clears map coherent states to coherent
  states. The invariant is the conjunction of the three: a restart rebuilds the
  ladder from a row, so coherence after it needs that every row, stored or still
  buffered, names a rung of its own severity. `Sound(w)` is the same statement about
  the working state of a tick.
  On top of it, `KInv` says what memory, buffers and tables know of each other, and
  gives five more: `MemoryMirrorsRows` and `BackoffSpacing` as long as no commit was
  dropped, `CommitNeverRaises`, `ClearedIsFinal` without a hypothesis, and
  `RaiseIsAnnounced` for behaviours without a dropped commit (one that is dropped
  takes its notification with it). `Outcome` says in which of six ways the engine may
  move an incident and what it emits for each; `KnowsIds` that ids are only handed
  out upwards, so that no buffered write reaches a cleared row; `Mirrors` that the
  row and the notification history of the live incident, once the buffers are
  committed, tell the same opening, last repeat, count and tier as memory, or a
  tier that memory will at most repeat earlier in the schedule. That last part is
  what a restart needs, which has to rebuild the tier from the count of
  notifications; it is why the backoffs must not shrink with the tier, which
  `EngineAssumption` takes from `BACKOFF_S` (`engine/incidents.py:40`).
* `Tables_proofs`, of `TickStore`: `TypeOK`, `HistoryInOrder` and `ActionsSpaced`. For the
  history the invariant says the cache is never behind the numbers buffered, which
  is why a number another writer took makes the commit raise and never makes it
  store out of order. For the actions it says that no launch is later than the
  reservation the limiter remembers, and that a reservation in progress has the
  tick's clock and lies `RateLimit` after every earlier launch.
* `Outbox_proofs`: `TypeOK`, `OneInFlight`, `BoundedRepeats`, `FileNeverFails`,
  `SettledIsFinal`, `KeepsPromises` (refinement of `Obligations`). The invariant
  has parts for what rows exist, what the worker holds, that the file has only
  retryable outcomes, that an answer marked as success was counted, and a budget:
  repeats plus the rows that could still be repeated never exceed the faults.
* `EventSources_proofs`: of journald `TypeOK`, `DropsAreTold`, `LossIsAccounted`, and
  of the three adapters together `CursorsCover`; on Windows also `ResumesOnce`.
  Assumed are `IngestAssumption` and `SourcesAssumption` (sizes of queues, budgets and
  overlaps are numbers, a queue and the remembered identities have room for one). For
  journald the invariant says every cursor is covered by what is in front of it: an
  item's by the items before it, the reader's by the queue, the batch's by the batch,
  memory's by batch and table. What a locked commit drops is `unsaved` from then on and
  covered as such, in all three adapters; on macOS its gap reports are `untold` and
  count among those that crowd the identities. Each thread begins at a covered cursor.
  That nothing is stored twice on Linux while journalctl lives (`StoredAlwaysOnce`) has an invariant of
  its own, `OnceIInv`: what is stored, in the batch and in each item of the queue
  stands in the order of the journal, each behind the cursor of the one before it, and
  there is one reader, which is behind all of them. For Windows it
  says the same of each channel's mark in a composite bookmark, where an item in the
  middle of the queue covers all channels at once, and that no entry is in two of the
  table, the batch and the queue, nor behind a mark from which it may be read again.
* `EventSources_proofs`, its macOS half (`ReplayCovers`, `GapsAreReal`). A
  checkpoint there covers in two ways, and the invariant keeps them apart: what is
  older than the time a replay starts at has been taken (`MacTakenBefore`), and so has
  each remembered identity (`MacTakenIds`). For the drain to keep both, the queue is in
  the order of the log but for gap reports at its head (`MacInOrder`), each item covers
  what the log has before it (`MacQueueCovers`), and a pending identity is that of an
  entry in the item its run has in the queue, or was evicted with it (`MacPending`).
  For these the lemmas about `Remembered` and `Kept` say of the bounded deques only that
  nothing is in them that was not put there; which identities survive matters to the
  next theorem.
* `EventRepeats_proofs`: `NothingTwice`, on macOS `RepeatsAreOld` (the invariant
  `MacOnce`). A deque forgets from its front, and the question is what it may forget.
  Its identities are ordered so that each is one a replay from any before it would give
  (`MacDeque`; not by age: with an overlap, an older entry may be remembered after a
  newer one). So when more identities come than there is room for, everything in the
  deque behind the one that goes, and the newcomer, is in the overlap of that one:
  the entries a replay from it gives and the gap reports outnumber `IdentityMax`
  (`MacCrowded`, `MacEvictedIsCrowded`). Hence a deque remembers each entry it was given,
  or the entry is older than the overlap, or crowded out (`MacKeeps`), and that stays so
  as log, watermark and gaps grow. The invariant says it of the stored checkpoint, of
  the last drained one and of the source's own identities (`MacMemory`), that a reader
  is past all that was drained or replays only what is remembered (`MacReads`), that
  an entry in the queue is pending or crowded, and was stored before only if it is old
  or crowded (`MacWaits`), and that pending identities are in the order of the log and
  belong to a queued run, or are older than all that is queued (`MacPendingOnce`). The
  longest step is the drain (`MacDrainRemembers` and the four lemmas after
  `MacDrainsTo`). `NothingComesTwice` puts the three platforms together.
* `EventRules_proofs`: `StormKeepsBooks`, of the guard alone and of the event
  engine. The limit is a sum over the ticks of a minute; the invariant ties the
  guard's own count to it: while no storm is on the count is not behind, and a
  minute in which something was stored is the guard's minute, so that no storm
  ends in it. `OneLiveEpisode`: what the table will hold once the buffers are
  committed (`After`) has a live row only where the engine's own episode is live
  and names it (`Owned`), and `Sound(w)` carries that through rescan, step and
  recording within one tick; a start therefore finds at most one row to take up.
  `EpisodeIsEvidenced`, `BurstOpens`, `ClearsInQuiet` and `TypeOK`, for any threshold
  and windows: the number of matches is carried by the tick's working copy, the
  buffers, the tables and, over a restart, the row alone. The ghost `matched` is the
  count of committed matches up to each time, and `SeenBy` that count with what the
  buffers hold, which a commit does not change. `BInv` says of every row as the
  buffers will leave it that its count is the burst it opened with and every match
  since, up to its end (`Evidenced`); of what waits in memory that it came when it
  says (`Waiting`) and that nothing since the last end which is still within the
  window is missing from it (`Complete`, which gives `BurstOpens`); of a live
  episode that it is the row's (`Mirrors`, without which a restart or the next
  refresh would lose counts); of ids that none is given twice (`IdsAreNew`); and
  while the definition was never edited, that a row buffered as cleared had nothing
  in the quiet time (`Quieted`). `Works` says all of this of a working state, so that
  the lemmas of one tick compose: `RescannedWorks`, `SupersededWorks`, `StepWorks`
  with one lemma per outcome of `StepEpisode`. The two lemmas the rest leans on are
  about times in order: `Within` is the end of its tuple (`WithinIsTheEnd`), and the
  last places of a window that is complete are the last matches (`MoreWait`). The
  assumptions are `StormAssumption` and `EventAssumption` of the modules themselves.
* `SeriesStore_proofs`: `TypeOK`, `NoOrphans`, `IncidentsAreTracked`. Each stage of
  retention has a lemma: it keeps the shape of the tables, the rows finite and
  every row with its series. The invariant adds that an id the writer caches
  belongs, once the buffers are committed, to the entity it is cached for
  (`CacheOwned`), that the next id is above all ids in table and buffers
  (`NextFree`), and that an entity with a row has a last sighting (`Dated`), from
  which a start can seed the watch for open incidents. The ghost `late` only needs its
  type: it excepts samples from `HistoryIsKept`, which is not proved.
* `Tables_proofs`, of `Readers`: `PagesListOnce` of `ReadSide` (with
  `ReadAssumption`: keys tell series apart, a page has room for a row). That `ORDER
  BY` lists each record once and in order (`ByKeySorts`) needs no induction: of the
  records with at least as many before them as asked for, the first has exactly as
  many, or its predecessor would do. Between two pages (`PagesSoFar`) the keys so far
  are in order and up to the cursor, and a baseline that has passed the filter all the
  while is among them or behind the cursor. `StatusIsEvidenced` of `Dashboard` (with
  `PageAssumption`: staleness and interval are numbers): while a page is computed,
  `sure` holds what was so at each commit since it was asked for and `some` what was
  so at one of them; `DashClaims` says for each statement of the page that what it
  found is in `some`, and that it found what is in `sure`. The hard case is the check
  that is shown: an observation in the published report is the last run, by the
  process that published it (`DashObserved`), across reloads, stops and starts.
* `Definitions_proofs`: `TypeOK`, `ChecksAreBacked` and `NoInheritance`, of the
  behaviours in which a file keeps to the table its monitor is in (`KeepsTable`;
  without it both fail, section 4). A scan is two loops; `Scanned` is what each round
  keeps and `ScanKeeps` shows, by induction over the places of `Stems`, that the loops
  are defined and keep it. `ChecksAreBacked` follows because what a scan leaves was
  named by a file that was valid under the aliases of that very scan (`FromFile`,
  `Gone`). For `NoInheritance` the invariant relates what runs, what is held and what
  the tables will say once the buffers are committed (`Told`, `OwnHeld`, `RowsHeld`),
  and says that a committed row names the body of the committed latest load: that is
  all a start has to tell a changed definition from the old one. A commit that a lock
  drops breaks it, which is why the property excludes it.
* `Tables_proofs`, of `Ticks`: a monitor that was due is due again on its own grid, in the
  future and within one interval (`DueOnceOnGrid`); a ring's capacity spans its
  window for every window and interval (`CapacitySuffices`), which is why
  `WindowsAreWhole` holds.

Only model-checked: everything with fairness (`Recovers`, `RemoteIsSettled`,
`FileIsWritten`, `EntriesArrive`, `EditsArrive`), which the prover does not reach;
`HistoryReplays`, which folds a history and needs induction over data; what is said
of expressions and documents, whose operators are recursive (`WholeOrNot`,
`UnknownIsNoEvidence`, `OutcomesAreEvidenced`), and with them the rest of
`Sampling`, which evaluates them (`WindowsAreWhole`, `PromotionsHold`);
`AnswersAreExact` and `AnswersAreWhole`, which count and thin points with sums and
recursive functions. `HistoryIsKept` holds under relations between the windows, the
span and the cadence of passes that the bounds satisfy and the defaults satisfy by
far; a theorem would have to state them all.

## 6. What is left out, and why

* Wording, titles, bodies, durations; numbers that only appear in messages.
* In `EventIngest`: rate and activity gauges, malformed lines, the store filter;
  a reader's lock is one stage of the tick (`draining`), its backoff is counted
  in ticks. In the other two readers: the parsing of records, timestamps that go
  back, corrupt cursors, bookmarks that have rolled over.
* In `EventRules`: locked commits (shown in the other modules), the matching of
  records to rules (a match is an input), message hashing, several identities.
* In `Outbox`: the deletion of old rows by retention, the worker's meta rows, the
  number of reconnects (a worker may die instead, `MayDie`). The file adapter has
  retryable failures only.
* In `TickStore`: retention's cap of history entries, collision of incident ids.
* In `Expressions`: floats (numbers are multiples of a tenth, a result that is too
  large is UNKNOWN), limits of size, depth and steps.
* In `DefinitionLoader`: the wording of errors, several codes for one fault of one
  key; texts are members of a small set.
* In `Definitions`: a clock that goes back between two loads of a name, the instance
  lock, which excludes a second daemon and nothing
  else; error reports repeated at each rescan.
* In `Sampling`: what samplers read, rendering, baselines, facets of local monitors,
  the memory a point takes (each counts one), the trust of a path (an outcome). The
  streaks of unknown rules and the published observations are kept as the code keeps
  them, but no property of this module is about them (`Dashboard` has one about what
  is published).
* In `ExternalChecks`: a run is bounded by its timeout. In the code the readers of its
  output are waited for without one (`runner.py:82`), so that a descendant that
  outlives the check and holds its output open blocks the tick as long as it lives.
* In `SeriesStore`: several metrics of an entity, the change of a series to durable,
  the values of baselines and their half-life (`ReadSide` has them), events and the
  history cap, the admission of entities to history (`Sampling` has it), a clock
  that is set back, the `external` source (never gone), and the wall time that
  stops expiry (any number of rows up to `ExpireRows` may go).
* In `ReadSide`: aggregation over the points returned, trends, event search, NULL
  averages; pruning takes the oldest rows first. In `Dashboard`: everything but the
  state of one external monitor, the truncation of a published observation, and
  when an incident confirms.
* Whole parts: see the components of `PROJECT.json`. Samplers, adapters, schema
  migration, configuration parsing and the command line are input and output of the
  operating system or formatting over what is modelled.

## 7. What would come next

* *Retention*, what is left of it: the history cap against the history numbers of
  `TickStore`, a clock set back under the roll-up cursors.
* *An event source* as an abstract specification ("every entry after the cursor is
  offered at least once, in order"), which the three readers would implement; today
  `CursorsCover` and `LossIsAccounted` say it for each.
* *Several entities* in `Dashboard`, event search over pages.
* Theorems: `HistoryIsKept` under stated relations between the windows.
