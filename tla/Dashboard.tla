------------------------------ MODULE Dashboard ------------------------------
(***************************************************************************)
(* A dashboard page that shows an external monitor while the daemon works. *)
(*                                                                         *)
(* The page reads the definition from disk, then the tables, one statement *)
(* after the other and with no snapshot around them: the last tick, the    *)
(* live incidents (glance.py), the collection incident, the published      *)
(* observation and the daemon it is from (Query.collection_health), and    *)
(* the current readout.  Between any two the daemon may commit a tick, in  *)
(* which a check may have run, an edited file may have been loaded and an  *)
(* incident may have been raised, cleared or superseded; it may stop and   *)
(* start again; an operator may edit the file and acknowledge an incident. *)
(*                                                                         *)
(* Times are in ticks.  When an incident confirms and clears is left open  *)
(* here: IncidentEngine says it.                                           *)
(***************************************************************************)
EXTENDS Integers

CONSTANTS
    StaleAfter,  \* STALE_AFTER_S
    Interval,    \* the monitor's interval_s
    Versions,    \* contents of the file that load and are enabled
    Owner,       \* version -> the rule that owns the collection's health
    Runs,        \* version -> what its check may come to
    None,
    LastRuns,    \* when the last check was, by time 0
    MaxNow, MaxEdits, MaxStarts, MaxAcks

ConstantsMakeSense ==
    /\ StaleAfter \in Nat /\ Interval \in Nat /\ LastRuns \subseteq Int
    /\ Versions \cap {"disabled", "invalid"} = {}

Never    == -100  \* a time that is not recorded
Contents == Versions \cup {"disabled", "invalid"}

VARIABLES
    file,    \* the monitor's file
    daemon,  \* the process: its pid, 0 for none, what it has loaded and observed
    tables,  \* what is committed
    page,    \* the request that is being served
    now, edits, acks

vars == <<file, daemon, tables, page, now, edits, acks>>

Idle == [stage |-> "idle", at |-> 0, def |-> None, stale |-> FALSE,
         found |-> {}, obs |-> None, incident |-> FALSE, health |-> "none",
         tile |-> "none", readout |-> Never, sure |-> {}, some |-> {}]

\* A new database, or a daemon that has run: its last check was good.
Fresh == [tick |-> Never, pid |-> 0, report |-> None, rows |-> {},
          known |-> FALSE, sample |-> Never, last |-> None]
Good(at) == [pid |-> 1, version |-> file, at |-> at, state |-> 0,
             verdict |-> "FALSE"]
Settled(at) == [tick |-> 0, pid |-> 1, rows |-> {}, known |-> TRUE,
                report |-> [pid |-> 1, made |-> 0, obs |-> Good(at)],
                sample |-> at, last |-> Good(at)]

Init ==
    /\ file \in Versions
    /\ \/ tables = Fresh /\ daemon = [pid |-> 0, loaded |-> None, obs |-> None]
       \/ \E at \in LastRuns :
            /\ tables = Settled(at)
            /\ daemon = [pid |-> 1, loaded |-> file, obs |-> Good(at)]
    /\ page = Idle
    /\ now = 0 /\ edits = 0 /\ acks = 0
-----------------------------------------------------------------------------
(* What is so in the tables, of the definition a page has read.            *)

SampleAge == IF 3 * Interval > StaleAfter THEN 3 * Interval ELSE StaleAfter

Alarms(t)       == {r \in t.rows : r.severity = 3}
OwnAlarms(t, v) == {r \in t.rows : r.group = "health" /\ r.rule = Owner[v]}

\* tables.last, the last run that was committed, is bookkeeping.
LastOf(t, p) ==
    t.last # None /\ t.last.version = p.def /\ t.last.pid = t.pid

Facts(t, p) ==
    {f \in {"live", "error", "own", "worked", "failed", "alive"} :
       \/ f = "live"  /\ t.rows # {}
       \/ f = "error" /\ Alarms(t) # {}
       \/ f = "own"   /\ p.def \in Versions /\ OwnAlarms(t, p.def) # {}
       \/ /\ f = "worked" /\ LastOf(t, p)
          /\ t.last.state # 3 /\ t.last.verdict # "TRUE"
          /\ p.at - t.last.at <= SampleAge
       \/ f = "failed" /\ LastOf(t, p) /\ t.last.state = 3
       \/ f = "alive" /\ p.at - t.tick <= StaleAfter}

Alarming == {"live", "error", "own"}
Noted(p, t) == [p EXCEPT !.sure = @ \cap Facts(t, p),
                         !.some = @ \cup (Facts(t, p) \ {"own"})]
-----------------------------------------------------------------------------
(* The daemon *)

Busy == page.stage \notin {"idle", "done"}
Open == page.stage # "done"

Commit(t) ==
    /\ tables' = t
    /\ page' = IF Busy THEN Noted(page, t) ELSE page

Loadable == IF file \in Versions THEN file ELSE None

\* The incidents after a run, as the engine may have decided.
Row(v, group) ==
    [version |-> v, group |-> group, state |-> "open",
     rule |-> IF group = "health" THEN Owner[v] ELSE "full",
     severity |-> IF group = "health" THEN 2 ELSE 3]

Outcomes(rows, v, run, group, raises, clears) ==
    LET mine == {r \in rows : r.group = group}
    IN  {rows}
        \cup (IF raises /\ mine = {} THEN {rows \cup {Row(v, group)}} ELSE {})
        \cup (IF clears THEN {rows \ mine} ELSE {})

Decided(rows, v, run) ==
    UNION {Outcomes(r, v, run, "full", run.measured, run.measured) :
             r \in Outcomes(rows, v, run, "health",
                            run.verdict = "TRUE", run.verdict = "FALSE")}

\* on_tick with or without a rescan, up to its commit.  A definition that is
\* not the loaded one loses its incidents and its observation; so do those of
\* a process before that ran another one.  An observation may find no slot,
\* unless the monitor has one.
Evaluate(v, before, run) ==
    \E room \in BOOLEAN, kept \in {{r \in tables.rows : r.version = v}} :
      \E rows \in IF run = None THEN {kept} ELSE Decided(kept, v, run) :
        LET ran == [pid |-> daemon.pid, version |-> v, at |-> now',
                    state |-> run.state, verdict |-> run.verdict]
            obs == IF run = None THEN before ELSE IF room THEN ran ELSE None
        IN  /\ run = None \/ before # None => room
            /\ daemon' = [daemon EXCEPT !.loaded = v, !.obs = obs]
            /\ Commit([tables EXCEPT
                 !.tick = now', !.pid = daemon.pid, !.rows = rows,
                 !.report = [pid |-> daemon.pid, made |-> now', obs |-> obs],
                 !.known = @ \/ v # None,
                 !.sample = IF run # None /\ run.measured THEN now' ELSE @,
                 !.last = IF run = None THEN @ ELSE ran])

Tick ==
    /\ daemon.pid # 0 /\ Open
    /\ now < MaxNow /\ now' = now + 1
    /\ \E rescan \in BOOLEAN :
         LET v == IF rescan THEN Loadable ELSE daemon.loaded
             before == IF v = daemon.loaded THEN daemon.obs ELSE None
         IN  /\ rescan => v # daemon.loaded
             /\ \E run \in {None} \cup (IF v = None THEN {} ELSE Runs[v]) :
                  Evaluate(v, before, run)
    /\ UNCHANGED <<file, edits, acks>>

\* Time goes by: the daemon is down or hangs, or its commit was locked out.
Pass ==
    /\ Open /\ now < MaxNow /\ now' = now + 1
    /\ UNCHANGED <<file, daemon, tables, page, edits, acks>>

Start ==
    /\ daemon.pid = 0 /\ tables.pid < MaxStarts /\ Open
    /\ daemon' = [pid |-> tables.pid + 1, loaded |-> Loadable, obs |-> None]
    /\ UNCHANGED <<file, tables, page, now, edits, acks>>

Stop ==
    /\ daemon.pid # 0 /\ daemon.pid = tables.pid /\ Open
    /\ daemon' = [pid |-> 0, loaded |-> None, obs |-> None]
    /\ UNCHANGED <<file, tables, page, now, edits, acks>>

Edit ==
    /\ Open /\ edits < MaxEdits /\ edits' = edits + 1
    /\ file' \in Contents \ {file}
    /\ UNCHANGED <<daemon, tables, page, now, acks>>

\* SmallWrites.ack
Ack ==
    /\ Open /\ acks < MaxAcks /\ acks' = acks + 1
    /\ \E r \in tables.rows :
         /\ r.state = "open"
         /\ Commit([tables EXCEPT
                !.rows = (@ \ {r}) \cup {[r EXCEPT !.state = "acked"]}])
    /\ UNCHANGED <<file, daemon, now, edits>>
-----------------------------------------------------------------------------
(* The page *)

others == <<file, daemon, tables, now, edits, acks>>

\* load_dir, and _status with daemon_stale: the age of the last tick, which
\* a database without one lacks.  A file that does not load is its own tile.
Ask ==
    /\ page.stage = "idle"
    /\ \E p \in {[Idle EXCEPT !.at = now, !.def = file]} :
         page' = IF file = "invalid"
                 THEN [p EXCEPT !.stage = "done", !.tile = "config-error"]
                 ELSE [p EXCEPT !.stage = "status",
                                !.sure = Facts(tables, p) \cap Alarming,
                                !.some = Facts(tables, p) \ {"own"}]
    /\ UNCHANGED others

Status ==
    /\ page.stage = "status"
    /\ page' = [page EXCEPT !.stage = "live",
                            !.stale = page.at - tables.tick > StaleAfter]
    /\ UNCHANGED others

\* open_incidents_by_monitor
Live(rows) == {r \in rows : r.state # "cleared"}

LiveIncidents ==
    /\ page.stage = "live"
    /\ page' = [page EXCEPT !.stage = "health",
                    !.found = {r.severity : r \in Live(tables.rows)}]
    /\ UNCHANGED others

\* collection_health, up to where it needs no evidence: the live incident of
\* a rule that owns the collection's health in the page's definition.
Health ==
    /\ page.stage = "health"
    /\ \E own \in {IF page.def = "disabled" THEN {}
                   ELSE OwnAlarms(tables, page.def)} :
         LET p == [page EXCEPT !.incident = own # {}] IN
         page' = IF page.def = "disabled"
                 THEN [p EXCEPT !.stage = "tile", !.health = "disabled"]
                 ELSE IF page.stale
                 THEN [p EXCEPT !.stage = "tile", !.health = "daemon_stale"]
                 ELSE [p EXCEPT !.stage = "report"]
    /\ UNCHANGED others

\* Mutant: whatever the monitor's name was last observed under will do.
OfThisName(p, report) ==
    report # None /\ report.obs # None /\ report.made <= p.at + StaleAfter

\* An observation is believed of the very definition the page has read.
Believable(p, report) ==
    /\ report # None /\ report.obs # None
    /\ report.obs.version = p.def
    /\ report.obs.at <= report.made /\ report.made <= p.at + StaleAfter

ReadReport ==
    /\ page.stage = "report"
    /\ page' = IF Believable(page, tables.report)
               THEN [page EXCEPT !.stage = "pid", !.obs = tables.report]
               ELSE [page EXCEPT !.stage = "tile", !.health = "unavailable"]
    /\ UNCHANGED others

\* What the evidence comes to.
Described(p) ==
    LET obs == p.obs.obs IN
    IF p.at - obs.at > SampleAge THEN "sample_stale"
    ELSE IF obs.state = 3 THEN "failed"
    ELSE IF obs.verdict = "TRUE" THEN "alerting"
    ELSE IF p.incident
    THEN IF obs.verdict = "UNKNOWN" THEN "unconfirmed" ELSE "recovering"
    ELSE "available"

ReadPid ==
    /\ page.stage = "pid"
    /\ page' = [page EXCEPT !.stage = "tile", !.obs = None,
                    !.health = IF page.obs.pid = tables.pid
                               THEN Described(page) ELSE "unavailable"]
    /\ UNCHANGED others

\* has_evidence and health_state, in their fixed precedence.
health_state(p, known) ==
    IF p.stale \/ ~known THEN "unknown"
    ELSE IF p.def = "disabled" THEN "disabled"
    ELSE IF \E severity \in p.found : severity >= 3 THEN "error"
    ELSE IF p.found # {} THEN "warning"
    ELSE "clear"

Tile ==
    /\ page.stage = "tile"
    /\ page' = [page EXCEPT !.stage = "readout",
                            !.tile = health_state(page, tables.known)]
    /\ UNCHANGED others

GLANCE_STATES == {"clear", "warning", "error"}

\* declared_reading: the latest sample, unless it is older than two intervals.
Readout ==
    /\ page.stage = "readout"
    /\ page' = [page EXCEPT !.stage = "done",
            !.readout = IF /\ page.tile \in GLANCE_STATES
                           /\ tables.sample >= page.at - 2 * Interval
                        THEN tables.sample ELSE Never]
    /\ UNCHANGED others

Request ==
    Ask \/ Status \/ LiveIncidents \/ Health \/ ReadReport \/ ReadPid \/ Tile
    \/ Readout

Next == Tick \/ Pass \/ Start \/ Stop \/ Edit \/ Ack \/ Request

Spec == Init /\ [][Next]_vars
-----------------------------------------------------------------------------
(* UI-14, UI-17, EC-11: a page that is put together while the daemon       *)
(* commits, reloads, stops and starts claims nothing that was not so at    *)
(* some moment of the request, and leaves out no alarm that was live all   *)
(* through it, acknowledged or not: a tile is clear only under a daemon    *)
(* that ticks and without an alarm; a check is called available only if    *)
(* its last run under the very definition that the page shows, by the      *)
(* daemon that writes, worked and satisfied no rule of its health, not too *)
(* long ago; a readout is never from before two intervals.                 *)
StatusIsEvidenced ==
    page.stage = "done" =>
        /\ page.tile = "clear" => "live" \notin page.sure
        /\ page.tile \in GLANCE_STATES => "alive" \in page.some
        /\ page.tile = "warning" =>
              "live" \in page.some /\ "error" \notin page.sure
        /\ page.tile = "error" => "error" \in page.some
        /\ page.health = "available" =>
              "worked" \in page.some /\ "own" \notin page.sure
        /\ page.health = "failed" => "failed" \in page.some
        /\ page.def \in Versions /\ "own" \in page.sure => page.incident
        /\ page.readout # Never =>
              "alive" \in page.some /\ page.at - page.readout <= 2 * Interval
=============================================================================
