----------------------------- MODULE Definitions -----------------------------
(***************************************************************************)
(* The monitor definitions of a running installation: the files in         *)
(* monitors/ and drafts/, the registry of external checks, the tools that   *)
(* change them (definitions/manage.py, recipes/install.py, an editor), and  *)
(* the daemon that rescans them and has to keep open incidents apart from   *)
(* definitions they were not opened under (daemon.py).                      *)
(*                                                                         *)
(* A file holds a body, which is the definition without its enabled line,   *)
(* and that line.  What the loader makes of a body is About[body]; how it   *)
(* gets there is the module DefinitionLoader.  Every tool is a process of   *)
(* its own and no two hold a common lock, so what it reads, checks and      *)
(* writes are separate steps.  The daemon is one thread: a rescan is one     *)
(* step, and what it buffers reaches the database when the tick commits.    *)
(***************************************************************************)
EXTENDS Integers, Sequences, FiniteSets, SequencesExt

CONSTANTS
  Stems,        \* the file names, as a sequence in their sorted order
  Bodies,       \* the definition texts
  About,        \* body -> [name, kind, verdict, alias]
  Aliases,      \* the check aliases
  Recipe,       \* [stem, body, aliases] of the recipe that may be installed
  Tools,        \* processes that change files
  None,         \* no file, no body, no incident
  MaxEdits,     \* changes begun by tools and users
  MaxCrashes,   \* ends of the daemon
  MaxLocked     \* commits that fail

\* A recipe installs its monitor under the monitor's name.
ASSUME DefinitionsAssumption ==
  /\ Stems \in Seq(Range(Stems)) /\ Stems # <<>>
  /\ None \notin Bodies \cup [body : Bodies, on : BOOLEAN]
  /\ Recipe.stem \in Range(Stems) /\ Recipe.body \in Bodies /\ Recipe.aliases \subseteq Aliases
  /\ About[Recipe.body].name = Recipe.stem
  /\ \A b \in Bodies : /\ About[b].name \in Range(Stems)
                       /\ About[b].kind \in {"sampler", "event", "external", "unavailable"}
                       /\ About[b].verdict \in {"ok", "invalid", "raises"}

VARIABLES
  monitors,   \* stem -> file or None
  drafts,     \* stem -> file or None
  checks,     \* checks.toml: [there, good, aliases, stamp]
  tool,       \* tool -> what it has read and is about to do
  up,         \* the daemon runs
  loaded,     \* name -> body: daemon.monitors
  events,     \* name -> body: daemon.event_monitors
  authority,  \* the aliases of check_registry, and the stamp they were read at
  held,       \* name -> the body its open incident was opened under: _istates
  buf,        \* the writer's buffers: [open, close, loads]
  rows,       \* open incidents in the database: [name, body]
  loads,      \* name -> the body of its latest monitor_loads row
  edits, crashes, locked

disk   == <<monitors, drafts, checks, tool>>
memory == <<loaded, events, authority, held, buf>>
tables == <<rows, loads>>
vars   == <<disk, up, memory, tables, edits, crashes, locked>>

Names == Range(Stems)
File  == [body : Bodies, on : BOOLEAN]
Idle  == [op |-> "idle", stem |-> Stems[1], file |-> None, aliases |-> {}]
EmptyBuf  == [open |-> {}, close |-> {}, loads |-> <<>>]
Nothing   == [n \in Names |-> None]
NoMonitor == [s \in Names |-> None]
Row(n, b) == [name |-> n, body |-> b]

\* The checks a validating process finds in the registry file at that moment.
FileAliases == IF checks.there /\ checks.good THEN checks.aliases ELSE {}

\* load_text with the actions in place and the checks required or not.
Valid(f, aliases, requireChecks) ==
  /\ About[f.body].verdict = "ok"
  /\ (requireChecks /\ About[f.body].kind = "external") => About[f.body].alias \in aliases

----------------------------------------------------------------------------
(* Tools.                                                                   *)

Edit == edits < MaxEdits /\ edits' = edits + 1
DaemonUnchanged == UNCHANGED <<up, memory, tables, crashes, locked>>

\* write_draft: the text is valid, no monitor has its name.
WriteDraft(b) ==
  /\ Edit
  /\ About[b].verdict = "ok" /\ monitors[About[b].name] = None
  /\ drafts' = [drafts EXCEPT ![About[b].name] = [body |-> b, on |-> TRUE]]
  /\ UNCHANGED <<monitors, checks, tool>> /\ DaemonUnchanged

delete_draft(s) ==
  /\ Edit
  /\ drafts[s] # None /\ drafts' = [drafts EXCEPT ![s] = None]
  /\ UNCHANGED <<monitors, checks, tool>> /\ DaemonUnchanged

\* approve_draft reads and validates the draft, looks at the target, renames.
ApproveRead(t, s) ==
  /\ Edit
  /\ tool[t] = Idle /\ drafts[s] # None /\ Valid(drafts[s], FileAliases, TRUE)
  /\ tool' = [tool EXCEPT ![t] = [Idle EXCEPT !.op = "approve", !.stem = s, !.file = drafts[s]]]
  /\ UNCHANGED <<monitors, drafts, checks>> /\ DaemonUnchanged

ApproveTarget(t) ==
  /\ tool[t].op = "approve"
  /\ tool' = [tool EXCEPT ![t] = IF monitors[@.stem] # None THEN Idle ELSE [@ EXCEPT !.op = "rename"]]
  /\ UNCHANGED <<monitors, drafts, checks, edits>> /\ DaemonUnchanged

\* rename() moves the draft as it is now, over whatever has the name now.
ApproveRename(t) ==
  /\ tool[t].op = "rename"
  /\ LET s == tool[t].stem IN
     IF drafts[s] = None THEN UNCHANGED <<monitors, drafts>>
     ELSE monitors' = [monitors EXCEPT ![s] = drafts[s]] /\ drafts' = [drafts EXCEPT ![s] = None]
  /\ tool' = [tool EXCEPT ![t] = Idle]
  /\ UNCHANGED <<checks, edits>> /\ DaemonUnchanged

\* set_enabled reads the file, validates the changed text, writes it back.
EnableRead(t, s, on) ==
  /\ tool[t] = Idle /\ monitors[s] # None
  /\ LET new == [monitors[s] EXCEPT !.on = on] IN
     /\ Valid(new, FileAliases, on)
     /\ tool' = [tool EXCEPT ![t] = [Idle EXCEPT !.op = "write", !.stem = s, !.file = new]]
  /\ UNCHANGED <<monitors, drafts, checks>> /\ DaemonUnchanged
SetEnabled(t, s, on) == Edit /\ EnableRead(t, s, on)

EnableWrite(t) ==
  /\ tool[t].op = "write"
  /\ monitors' = [monitors EXCEPT ![tool[t].stem] = tool[t].file]
  /\ tool' = [tool EXCEPT ![t] = Idle]
  /\ UNCHANGED <<drafts, checks, edits>> /\ DaemonUnchanged

\* install_recipe merges the aliases of the recipe into a copy of the registry
\* it read, and replaces the registry with it, if that adds any;
InstallRead(t) ==
  /\ Edit
  /\ tool[t] = Idle /\ checks.there => checks.good
  /\ tool' = [tool EXCEPT ![t] = [Idle EXCEPT !.op = IF Recipe.aliases \subseteq FileAliases THEN "install" ELSE "merge",
                                  !.stem = Recipe.stem, !.aliases = FileAliases \cup Recipe.aliases]]
  /\ UNCHANGED <<monitors, drafts, checks>> /\ DaemonUnchanged

InstallMerge(t) ==
  /\ tool[t].op = "merge"
  /\ checks' = [there |-> TRUE, good |-> TRUE, aliases |-> tool[t].aliases, stamp |-> checks.stamp + 1]
  /\ tool' = [tool EXCEPT ![t].op = "install"]
  /\ UNCHANGED <<monitors, drafts, edits>> /\ DaemonUnchanged

\* then it writes the monitor, enabled already, unless there is one by that
\* name; set_enabled follows in either case.
InstallMonitor(t) ==
  /\ tool[t].op = "install"
  /\ monitors' = [monitors EXCEPT ![Recipe.stem] = IF @ = None THEN [body |-> Recipe.body, on |-> TRUE] ELSE @]
  /\ tool' = [tool EXCEPT ![t].op = "installed"]
  /\ UNCHANGED <<drafts, checks, edits>> /\ DaemonUnchanged

InstallEnable(t) ==
  /\ tool[t].op = "installed"
  /\ LET new == [body |-> monitors[Recipe.stem].body, on |-> TRUE] IN
     tool' = [tool EXCEPT ![t] =
       IF monitors[Recipe.stem] = None THEN Idle
       ELSE IF ~Valid(new, FileAliases, TRUE) THEN Idle
       ELSE [Idle EXCEPT !.op = "write", !.stem = Recipe.stem, !.file = new]]
  /\ UNCHANGED <<monitors, drafts, checks, edits>> /\ DaemonUnchanged

\* A user writes or removes a file by hand, without asking any validator; the
\* file is named after its monitor, as those of the tools are.
HandEdit(s, f) ==
  /\ Edit
  /\ f # None => About[f.body].name = s
  /\ monitors[s] # f /\ monitors' = [monitors EXCEPT ![s] = f]
  /\ UNCHANGED <<drafts, checks, tool>> /\ DaemonUnchanged

EditRegistry(there, good, aliases) ==
  /\ Edit
  /\ (~good => aliases = {}) /\ (good => there)
  /\ checks' = [there |-> there, good |-> good, aliases |-> aliases, stamp |-> checks.stamp + 1]
  /\ UNCHANGED <<monitors, drafts, tool>> /\ DaemonUnchanged

----------------------------------------------------------------------------
(* The daemon.                                                              *)

\* The memory a scan works on.
Memory == [loaded |-> loaded, events |-> events, held |-> held, buf |-> buf, seen |-> {}]

\* _reload_check_registry: a registry that is missing, unchanged or rejected
\* leaves the loaded one in force.
Reloaded == IF checks.there /\ checks.good /\ checks.stamp # authority.stamp
            THEN [aliases |-> checks.aliases, stamp |-> checks.stamp] ELSE authority

\* _supersede_monitor, EventEngine.supersede: the open incident is cleared.
Supersede(st, n, kinds) ==
  IF st.held[n] = None THEN st
  ELSE IF About[st.held[n]].kind \notin kinds THEN st
  ELSE [st EXCEPT !.buf.close = @ \cup {Row(n, st.held[n])}, !.held[n] = None]
SamplerKinds == {"sampler", "external"}
EventKinds   == {"event"}

\* One definition of the scan: unchanged, new, or changed.
LoadEvent(st, b) ==
  LET n == About[b].name IN
  IF st.events[n] = b THEN st
  ELSE [Supersede(st, n, EventKinds) EXCEPT !.events[n] = b, !.buf.loads = Append(@, Row(n, b))]
LoadSampler(st, b) ==
  LET n == About[b].name IN
  IF st.loaded[n] = b THEN st
  ELSE [Supersede(st, n, SamplerKinds) EXCEPT !.loaded[n] = b, !.buf.loads = Append(@, Row(n, b))]
LoadOne(st, f) ==
  LET seen == [st EXCEPT !.seen = @ \cup {About[f.body].name}] IN
  IF ~f.on THEN st
  ELSE IF About[f.body].kind = "unavailable" THEN seen
  ELSE IF About[f.body].kind = "event" THEN LoadEvent(seen, f.body)
  ELSE LoadSampler(seen, f.body)

\* A scan that forgets to look for what went missing among event monitors.
DropSamplerOnly(st, n) ==
  IF n \in st.seen \/ st.loaded[n] = None THEN st
  ELSE [Supersede(st, n, SamplerKinds) EXCEPT !.loaded[n] = None]

\* Whatever no valid, enabled file named this time is dropped.
DropOne(st, n) ==
  IF n \in st.seen THEN st
  ELSE LET s == IF st.loaded[n] = None THEN st
                ELSE [Supersede(st, n, SamplerKinds) EXCEPT !.loaded[n] = None]
       IN  IF s.events[n] = None THEN s
           ELSE [Supersede(s, n, EventKinds) EXCEPT !.events[n] = None]

\* _load_definitions: the files in order, the invalid ones left out.
LoadFile(st, s, aliases) ==
  IF monitors[s] # None /\ Valid(monitors[s], aliases, TRUE) THEN LoadOne(st, monitors[s]) ELSE st
Scan(st, aliases) ==
  LET after[i \in 0..Len(Stems)] == IF i = 0 THEN st ELSE LoadFile(after[i - 1], Stems[i], aliases)
      kept[i \in 0..Len(Stems)]  == IF i = 0 THEN after[Len(Stems)] ELSE DropOne(kept[i - 1], Stems[i])
  IN  kept[Len(Stems)]
\* A text that makes the validator raise takes the scan with it.
ScanRaises == \E s \in Names : monitors[s] # None /\ About[monitors[s].body].verdict = "raises"

\* What ends with the process: tables in memory and what was not committed.
Forget ==
  /\ up' = FALSE
  /\ loaded' = Nothing /\ events' = Nothing /\ held' = Nothing /\ buf' = EmptyBuf
  /\ authority' = [aliases |-> {}, stamp |-> 0]

\* A rescan that takes the registry over after the definitions.
RescanBeforeRegistry ==
  /\ up /\ buf = EmptyBuf /\ ~ScanRaises
  /\ LET st == Scan(Memory, authority.aliases) IN
     /\ authority' = Reloaded
     /\ loaded' = st.loaded /\ events' = st.events /\ held' = st.held /\ buf' = st.buf
     /\ up' = up
  /\ UNCHANGED <<disk, tables, edits, crashes, locked>>

Rescan ==
  /\ up /\ buf = EmptyBuf
  /\ IF ScanRaises THEN Forget
     ELSE LET st == Scan(Memory, Reloaded.aliases) IN
          /\ authority' = Reloaded
          /\ loaded' = st.loaded /\ events' = st.events /\ held' = st.held /\ buf' = st.buf
          /\ up' = up
  /\ UNCHANGED <<disk, tables, edits, crashes, locked>>

Current(n) == IF loaded[n] # None THEN loaded[n] ELSE events[n]

\* An incident opens or clears in a tick: step_group, the event rules.
OpenIncident(n) ==
  /\ up /\ Current(n) # None /\ held[n] = None
  /\ Row(n, Current(n)) \notin buf.close
  /\ held' = [held EXCEPT ![n] = Current(n)]
  /\ buf' = [buf EXCEPT !.open = @ \cup {Row(n, Current(n))}]
  /\ UNCHANGED <<disk, up, loaded, events, authority, tables, edits, crashes, locked>>

ClearIncident(n) ==
  /\ up /\ held[n] # None /\ Row(n, held[n]) \notin buf.open
  /\ held' = [held EXCEPT ![n] = None]
  /\ buf' = [buf EXCEPT !.close = @ \cup {Row(n, held[n])}]
  /\ UNCHANGED <<disk, up, loaded, events, authority, tables, edits, crashes, locked>>

\* The newest row of a name.
LatestLoad(new, n) ==
  LET own == {i \in DOMAIN new : new[i].name = n} IN IF own = {} THEN loads[n] ELSE new[Max(own)].body

\* commit_tick: everything buffered, or nothing; the buffers are empty after.
Commit ==
  /\ up /\ buf # EmptyBuf /\ buf' = EmptyBuf
  /\ rows' = (rows \ buf.close) \cup buf.open
  /\ loads' = [n \in Names |-> LatestLoad(buf.loads, n)]
  /\ UNCHANGED <<disk, up, loaded, events, authority, held, edits, crashes, locked>>

CommitLocked ==
  /\ up /\ buf # EmptyBuf /\ buf' = EmptyBuf
  /\ locked < MaxLocked /\ locked' = locked + 1
  /\ UNCHANGED <<disk, up, loaded, events, authority, held, tables, edits, crashes>>

Stop ==
  /\ up /\ crashes < MaxCrashes
  /\ Forget /\ crashes' = crashes + 1
  /\ UNCHANGED <<disk, tables, edits, locked>>

\* __post_init__: the latest loads are read before the first scan, incidents
\* of a monitor whose definition changed or is gone are cleared, the others
\* are taken up again.
ChangedWhenGone(st, n) == st.loaded[n] = None /\ st.events[n] = None
Changed(st, n) ==
  LET now == IF st.loaded[n] # None THEN st.loaded[n] ELSE st.events[n]
  IN  now = None \/ loads[n] \notin {None, now}
Start ==
  /\ ~up /\ ~ScanRaises /\ up' = TRUE
  /\ LET auth == IF checks.there /\ checks.good
                 THEN [aliases |-> checks.aliases, stamp |-> checks.stamp] ELSE [aliases |-> {}, stamp |-> 0]
         st   == Scan([loaded |-> Nothing, events |-> Nothing, held |-> Nothing, buf |-> EmptyBuf, seen |-> {}],
                      auth.aliases)
     IN  /\ authority' = auth /\ loaded' = st.loaded /\ events' = st.events
         /\ buf' = [st.buf EXCEPT !.close = {r \in rows : Changed(st, r.name)}]
         /\ held' \in {h \in [Names -> Bodies \cup {None}] :
                       \A n \in Names :
                         LET own == {r.body : r \in {r \in rows : r.name = n}} IN
                         IF Changed(st, n) \/ own = {} THEN h[n] = None ELSE h[n] \in own}
  /\ UNCHANGED <<disk, tables, edits, crashes, locked>>

----------------------------------------------------------------------------
Init ==
  /\ monitors = NoMonitor /\ drafts = NoMonitor
  /\ checks = [there |-> FALSE, good |-> FALSE, aliases |-> {}, stamp |-> 1]
  /\ tool = [t \in Tools |-> Idle]
  /\ up = FALSE /\ loaded = Nothing /\ events = Nothing /\ held = Nothing /\ buf = EmptyBuf
  /\ authority = [aliases |-> {}, stamp |-> 0]
  /\ rows = {} /\ loads = Nothing
  /\ edits = 0 /\ crashes = 0 /\ locked = 0

Next ==
  \/ \E b \in Bodies : WriteDraft(b)
  \/ \E s \in Names : delete_draft(s)
  \/ \E t \in Tools, s \in Names : ApproveRead(t, s)
  \/ \E t \in Tools : ApproveTarget(t) \/ ApproveRename(t)
  \/ \E t \in Tools, s \in Names, on \in BOOLEAN : SetEnabled(t, s, on)
  \/ \E t \in Tools : EnableWrite(t)
  \/ \E t \in Tools : InstallRead(t) \/ InstallMerge(t) \/ InstallMonitor(t) \/ InstallEnable(t)
  \/ \E s \in Names, f \in File \cup {None} : HandEdit(s, f)
  \/ \E there, good \in BOOLEAN, a \in SUBSET Aliases : EditRegistry(there, good, a)
  \/ Rescan
  \/ \E n \in Names : OpenIncident(n) \/ ClearIncident(n)
  \/ Commit \/ CommitLocked \/ Stop \/ Start

Spec == Init /\ [][Next]_vars

----------------------------------------------------------------------------
(* Properties.                                                              *)

BodyOrNone == Bodies \cup {None}
Entry == [name : Names, body : Bodies]
Step  == {"idle", "approve", "rename", "write", "install", "merge", "installed"}
TypeOK ==
  /\ monitors \in [Names -> File \cup {None}] /\ drafts \in [Names -> File \cup {None}]
  /\ checks \in [there : BOOLEAN, good : BOOLEAN, aliases : SUBSET Aliases, stamp : Nat]
  /\ tool \in [Tools -> [op : Step, stem : Names, file : File \cup {None}, aliases : SUBSET Aliases]]
  /\ up \in BOOLEAN /\ authority \in [aliases : SUBSET Aliases, stamp : Nat]
  /\ loaded \in [Names -> BodyOrNone] /\ events \in [Names -> BodyOrNone]
  /\ held \in [Names -> BodyOrNone] /\ loads \in [Names -> BodyOrNone]
  /\ rows \subseteq Entry
  /\ buf \in [open : SUBSET Entry, close : SUBSET Entry, loads : Seq(Entry)]
  /\ edits \in Nat /\ crashes \in Nat /\ locked \in Nat

\* A file that has a monitor running under its name keeps to its table: a
\* scan that finds the name in one table does not look into the other.
KeepsTable ==
  \A s \in Names : monitors'[s] # None =>
    /\ loaded[s] # None => About[monitors'[s].body].kind \in SamplerKinds
    /\ events[s] # None => About[monitors'[s].body].kind \in EventKinds

\* The daemon only schedules checks that the registry in force backs: a check
\* that an administrator withdrew stops in the rescan that takes the registry
\* over, also when tools rewrite both files in between (EC-01, EC-06:
\* _reload_check_registry comes before _load_definitions).
ChecksAreBacked ==
  /\ TypeOK
  /\ \A n \in Names : loaded[n] # None /\ About[loaded[n]].kind = "external"
       => About[loaded[n]].alias \in authority.aliases

\* An open incident was opened under the definition that evaluates it now,
\* through hot reloads, edits made while the daemon is down, and crashes
\* between a reload and its commit (MD-06).  It takes that no commit was lost
\* to a lock: the monitor_loads row of a reload is not written again.
NoInheritance ==
  locked = 0 => \A n \in Names : held[n] # None => held[n] = Current(n)

\* Once tools and users leave the files alone, a daemon that is up comes to run
\* just the text of every file that is valid and enabled, and nothing of a file
\* that is gone or disabled, however reloads, lost commits and restarts fell
\* between the edits (PM-04: changes are applied without restart).  Of a file
\* that has become invalid it says nothing: PM-04 keeps the loaded version, the
\* code drops it.  It says nothing either while a file makes the validator raise
\* (the daemon ends at its next rescan and no start succeeds), and it takes that
\* no file moves its monitor to the other table (KeepsTable), which the scan does
\* not notice.
Settled(n, f) ==
  /\ f # None /\ f.on /\ Valid(f, authority.aliases, TRUE) /\ About[f.body].kind # "unavailable"
     => Current(n) = f.body
  /\ f = None \/ ~f.on => Current(n) = None
EditsArrive == <>[](up => \A n \in Names : Settled(n, monitors[n]))

=============================================================================
