-------------------------- MODULE IncidentLifecycle --------------------------
(***************************************************************************)
(* One incident group inside the running daemon: the in-memory core of     *)
(* IncidentEngine, the incident rows and notifications in SQLite, the      *)
(* tick that buffers a transition and the commit that stores it, acks      *)
(* written by other processes, definition edits, crashes and restarts.     *)
(*                                                                         *)
(* src/ftmon/daemon.py (on_tick, _step_incidents, _clear_gone,             *)
(* _supersede_monitor, _refresh_acks, _rebuild_incidents),                 *)
(* src/ftmon/engine/effects.py and the incident part of                    *)
(* src/ftmon/store/writer.py.                                              *)
(*                                                                         *)
(* A tick has two steps, because an ack or a crash may come in between:    *)
(* it first changes memory and fills the writer's buffers, then commits.   *)
(***************************************************************************)
EXTENDS IncidentEngine, Sequences

CONSTANTS
    MaxNow,       \* bound: the wall clock ends here
    Saturate,     \* at MaxNow ticks go on with a standing clock, or stop
    MaxStep,      \* bound: the longest time between two ticks
    RescanEvery,  \* ticks after which a tick rescans even if not asked to
    MaxId,        \* bound: incident ids
    MaxEdits,     \* bound: definition contents, 1..MaxEdits
    MaxCrashes,   \* bound: kills of the process
    MaxLocks      \* bound: commits that fail because the database is locked

ASSUME LifecycleAssumption ==
    /\ MaxNow \in Nat \ {0} /\ Saturate \in BOOLEAN
    /\ MaxStep \in Nat \ {0} /\ RescanEvery \in Nat \ {0}
    /\ MaxId \in Nat \ {0} /\ MaxEdits \in Nat \ {0}
    /\ MaxCrashes \in Nat /\ MaxLocks \in Nat

VARIABLES
    now,       \* wall clock
    phase,     \* "idle" between ticks, "buffered" before the commit, "down"
    mem,       \* _istates[key]; EmptyState when the key is absent
    sinceScan, \* ticks since the last rescan
    nextId,    \* writer._next_incident_id, 0 for None
    pend,      \* the writer's buffers
    rows,      \* table incidents
    notes,     \* table notifications, per incident, in commit order
    hash,      \* content hash of the definition: on disk, loaded, in monitor_loads
    crashes, locks  \* faults so far, for the bounds

vars == <<now, phase, mem, sinceScan, nextId, pend, rows, notes, hash,
          crashes, locks>>

Id == 1..MaxId
Row == [state : {"none", "open", "acked", "cleared"}, sev : 0..4,
        owner : 0..NRungs, opened : Nat, nc : Nat, flapping : BOOLEAN]
NoRow == [state |-> "none", sev |-> 0, owner |-> 0, opened |-> 0, nc |-> 0,
          flapping |-> FALSE]
Note == [kind : NoteKind, ts : Nat]
Pending == [rows : [Id -> Row], notes : [Id -> Seq(Note)], load : BOOLEAN]
NoPending == [rows |-> [i \in Id |-> NoRow], notes |-> [i \in Id |-> <<>>],
              load |-> FALSE]

LiveRows(table) == {i \in Id : table[i].state \in LiveStates}
(* COALESCE(MAX(x), 0) *)
MaxOf(S) == IF \E x \in S : \A y \in S : y <= x
            THEN CHOOSE x \in S : \A y \in S : y <= x ELSE 0

-----------------------------------------------------------------------------
(* A working state w = [mem, pend, nextId] threads through one tick.       *)

AllocId(w) ==
    IF w.nextId = 0
    THEN MaxOf({i \in Id : rows[i].state # "none"}) + 1 ELSE w.nextId

RowOf(core) == [state |-> core.state, sev |-> core.sev, owner |-> core.owner,
                opened |-> core.opened, nc |-> core.nc,
                flapping |-> Flapping(core.flaps)]

(* EffectExecutor.apply, called by the daemon only when there are effects. *)
Apply(w, step, t) ==
    IF step.effect = NoEffect
    THEN [w EXCEPT !.mem = [rungs |-> step.rungs, core |-> step.core]]
    ELSE LET fresh == step.core.id = 0
             id == IF fresh THEN AllocId(w) ELSE step.core.id
             core == [step.core EXCEPT !.id = id]
             sent == IF step.effect.note = "none" THEN <<>>
                     ELSE <<[kind |-> step.effect.note, ts |-> t]>>
         IN [mem |-> [rungs |-> step.rungs, core |-> core],
             nextId |-> IF fresh THEN id + 1 ELSE w.nextId,
             pend |-> [w.pend EXCEPT !.rows[id] = RowOf(core),
                                     !.notes[id] = @ \o sent]]

Forget(w) == [w EXCEPT !.mem = EmptyState]

(* _load_definitions: a changed definition supersedes what its old self    *)
(* had open, and its load is recorded with the tick.                       *)
Reloaded(w, t) ==
    IF hash.disk = hash.mem THEN w
    ELSE [Forget(Apply(w, ClearOutright(w.mem, t, "superseded"), t))
          EXCEPT !.pend.load = TRUE]

(* _refresh_acks: the only way memory learns of an ack.                    *)
AcksSeen(w) ==
    IF w.mem.core.state = "open" /\ w.mem.core.id \in Id
       /\ rows[w.mem.core.id].state = "acked"
    THEN [w EXCEPT !.mem.core.state = "acked"] ELSE w

Evaluated(w, evals, t) == Apply(w, StepGroup(w.mem, evals, t), t)

(* _clear_gone: the entity was absent for gone_grace.                      *)
Gone(w, t) == Forget(Apply(w, ClearOutright(w.mem, t, "entity_gone"), t))

-----------------------------------------------------------------------------
(* The part of on_tick before the commit: it rescans if half a minute      *)
(* passed or a reload was requested, then works on the group.              *)
TickTimes == {AtMost(now + step, MaxNow) : step \in 1..MaxStep}

MayTick(scan) ==
    /\ phase = "idle" /\ (now < MaxNow \/ Saturate)
    /\ sinceScan >= RescanEvery => scan

Begun(scan, t) ==
    LET w == [mem |-> mem, pend |-> pend, nextId |-> nextId]
    IN IF scan THEN AcksSeen(Reloaded(w, t)) ELSE w

Buffer(done, scan, t) ==
    /\ done.nextId <= MaxId + 1
    /\ now' = t /\ phase' = "buffered"
    /\ mem' = done.mem /\ pend' = done.pend /\ nextId' = done.nextId
    /\ sinceScan' = IF scan THEN 1 ELSE sinceScan + 1
    /\ hash' = IF scan THEN [hash EXCEPT !.mem = hash.disk] ELSE hash
    /\ UNCHANGED <<rows, notes, crashes, locks>>

(* The group's monitor is due and its entity was sampled.                  *)
TickEvaluates(evals) ==
    \E t \in TickTimes, scan \in BOOLEAN :
      MayTick(scan) /\ Buffer(Evaluated(Begun(scan, t), evals, t), scan, t)

(* The monitor is not due, or the entity is absent but not yet gone.       *)
TickPasses ==
    \E t \in TickTimes, scan \in BOOLEAN :
      MayTick(scan) /\ Buffer(Begun(scan, t), scan, t)

TickGone ==
    \E t \in TickTimes, scan \in BOOLEAN :
      MayTick(scan) /\ Buffer(Gone(Begun(scan, t), t), scan, t)

(* What the tables hold once the buffered rows are upserted.               *)
Merged == [i \in Id |-> IF pend.rows[i].state = "none" THEN rows[i]
                        ELSE [pend.rows[i] EXCEPT !.opened =
                              IF rows[i].state = "none" THEN @
                              ELSE rows[i].opened]]

(* Unique index inc_live: one live row per (monitor, group, entity).       *)
BreaksUniqueIndex == \E i, j \in LiveRows(Merged) : i # j

CommitSucceeds ==
    /\ phase = "buffered" /\ ~BreaksUniqueIndex
    /\ rows' = Merged
    /\ notes' = [i \in Id |-> notes[i] \o pend.notes[i]]
    /\ hash' = IF pend.load THEN [hash EXCEPT !.db = hash.mem] ELSE hash
    /\ pend' = NoPending /\ phase' = "idle"
    /\ UNCHANGED <<now, mem, sinceScan, nextId, crashes, locks>>

(* PM-10: locked past busy_timeout; the buffers are dropped, memory stays. *)
CommitLocked ==
    /\ phase = "buffered" /\ locks < MaxLocks
    /\ pend' = NoPending /\ phase' = "idle" /\ locks' = locks + 1
    /\ UNCHANGED <<now, mem, sinceScan, nextId, rows, notes, hash, crashes>>

Stopped ==
    /\ phase' = "down" /\ mem' = EmptyState /\ pend' = NoPending
    /\ nextId' = 0 /\ sinceScan' = 0

(* An IntegrityError is not a lock error: on_tick lets it end the daemon.  *)
CommitRaises ==
    /\ phase = "buffered" /\ BreaksUniqueIndex
    /\ Stopped
    /\ UNCHANGED <<now, rows, notes, hash, crashes, locks>>

Crash ==
    /\ phase # "down" /\ crashes < MaxCrashes
    /\ Stopped /\ crashes' = crashes + 1
    /\ UNCHANGED <<now, rows, notes, hash, locks>>

(* SmallWrites.ack from the CLI, the web UI or MCP, at any moment.         *)
Ack(i) ==
    /\ rows[i].state = "open"
    /\ rows' = [rows EXCEPT ![i].state = "acked"]
    /\ UNCHANGED <<now, phase, mem, sinceScan, nextId, pend, notes, hash,
                   crashes, locks>>

EditDefinition ==
    /\ hash.disk < MaxEdits
    /\ hash' = [hash EXCEPT !.disk = @ + 1]
    /\ UNCHANGED <<now, phase, mem, sinceScan, nextId, pend, rows, notes,
                   crashes, locks>>

(* Mutant: a restart takes the opening for the last notification. *)
RebuiltCoreFromOpening(i) ==
    [id |-> i, state |-> rows[i].state, sev |-> rows[i].sev,
     owner |-> rows[i].owner, opened |-> rows[i].opened,
     last |-> rows[i].opened, nc |-> rows[i].nc,
     tier |-> IF rows[i].flapping THEN LastTier
              ELSE AtMost(IF rows[i].nc = 0 THEN 0 ELSE rows[i].nc - 1, LastTier),
     flaps |-> {}]
(* Mutant: a restart starts the backoff schedule anew. *)
RebuiltCoreFirstTier(i) ==
    [id |-> i, state |-> rows[i].state, sev |-> rows[i].sev,
     owner |-> rows[i].owner, opened |-> rows[i].opened,
     last |-> IF notes[i] = <<>> THEN rows[i].opened
              ELSE MaxOf({notes[i][k].ts : k \in DOMAIN notes[i]}),
     nc |-> rows[i].nc, tier |-> 0, flaps |-> {}]

(* _rebuild_incidents for a live row of an unchanged definition.           *)
RebuiltCore(i) ==
    [id |-> i, state |-> rows[i].state, sev |-> rows[i].sev,
     owner |-> rows[i].owner, opened |-> rows[i].opened,
     last |-> IF notes[i] = <<>> THEN rows[i].opened
              ELSE MaxOf({notes[i][k].ts : k \in DOMAIN notes[i]}),
     nc |-> rows[i].nc,
     tier |-> IF rows[i].flapping THEN LastTier
              ELSE AtMost(IF rows[i].nc = 0 THEN 0 ELSE rows[i].nc - 1, LastTier),
     flaps |-> {}]
(* Mutant: the owning rung starts unconfirmed. *)
RebuiltUnconfirmed(i) == [rungs |-> FreshRungs, core |-> RebuiltCore(i)]
Rebuilt(i) ==
    [rungs |-> [r \in Rung |->
                  IF r = rows[i].owner
                  THEN [confirmed |-> TRUE, confirm |-> ConfirmCycles[r],
                        clear |-> 0]
                  ELSE FreshRung],
     core |-> RebuiltCore(i)]

(* The definition changed while the daemon was down (MD-06): the loads of  *)
(* the last run, not those of this start, are compared with the disk.      *)
SupersededAtStart == hash.db # 0 /\ hash.db # hash.disk

(* _clear_startup_superseded: the row is closed with the first tick.       *)
SupersededRow(i) ==
    [rows[i] EXCEPT !.state = "cleared",
                    !.flapping = Flapping(LatestClears({now}))]

(* DaemonCore.__post_init__ *)
Restart ==
    /\ phase = "down"
    /\ mem' = IF SupersededAtStart \/ LiveRows(rows) = {} THEN EmptyState
              ELSE Rebuilt(CHOOSE i \in LiveRows(rows) : TRUE)
    /\ pend' = [NoPending EXCEPT
          !.load = TRUE,
          !.rows = [i \in Id |-> IF SupersededAtStart /\ i \in LiveRows(rows)
                                 THEN SupersededRow(i) ELSE NoRow]]
    /\ hash' = [hash EXCEPT !.mem = hash.disk]
    /\ phase' = "idle" /\ nextId' = 0 /\ sinceScan' = RescanEvery
    /\ UNCHANGED <<now, rows, notes, crashes, locks>>

Init ==
    /\ now = 1 /\ phase = "down" /\ mem = EmptyState /\ sinceScan = 0
    /\ nextId = 0 /\ pend = NoPending
    /\ rows = [i \in Id |-> NoRow] /\ notes = [i \in Id |-> <<>>]
    /\ hash = [disk |-> 1, mem |-> 0, db |-> 0]
    /\ crashes = 0 /\ locks = 0

Next ==
    \/ \E evals \in [Rung -> TriBool] : TickEvaluates(evals)
    \/ TickPasses \/ TickGone
    \/ CommitSucceeds \/ CommitLocked \/ CommitRaises
    \/ Crash \/ Restart \/ EditDefinition
    \/ \E i \in Id : Ack(i)

Spec == Init /\ [][Next]_vars
-----------------------------------------------------------------------------
(* Properties *)

(* Every variable keeps its shape, through overlapping ticks, acks,        *)
(* restarts and dropped commits.                                           *)
TypeOK ==
    /\ now \in Nat /\ phase \in {"idle", "buffered", "down"}
    /\ mem \in GroupState /\ sinceScan \in Nat /\ nextId \in Nat
    /\ pend \in Pending /\ rows \in [Id -> Row] /\ notes \in [Id -> Seq(Note)]
    /\ hash \in [disk : Nat, mem : Nat, db : Nat]
    /\ crashes \in Nat /\ locks \in Nat

(* IN-03: an incident is live exactly while some rung is confirmed, and    *)
(* its severity is that of the highest confirmed rung, also after          *)
(* _rebuild_incidents reconstructs the rungs from one row.                 *)
SeverityIsTop == Coherent(mem)

(* A live row names the rung it belongs to and carries that rung's         *)
(* severity: what _rebuild_incidents relies on, for rows stored and for    *)
(* rows still buffered.                                                    *)
NamesItsOwner(row) ==
    row.state \in LiveStates =>
      row.owner \in Rung /\ row.sev = Severity[row.owner]
RowsNameTheirOwner ==
    \A i \in Id : NamesItsOwner(rows[i]) /\ NamesItsOwner(pend.rows[i])

(* IN-02 restart continuity: between ticks the row the next start would    *)
(* read says what memory says (an ack may be in the row first), and no     *)
(* live row exists that memory does not own.                               *)
MemoryMirrorsRows ==
    phase = "idle" /\ pend = NoPending =>
      /\ LiveRows(rows) = IF Live(mem.core) THEN {mem.core.id} ELSE {}
      /\ Live(mem.core) =>
            LET row == rows[mem.core.id]
            IN /\ row.state \in {mem.core.state, "acked"}
               /\ row.sev = mem.core.sev /\ row.owner = mem.core.owner
               /\ row.nc = mem.core.nc
               /\ RebuiltCore(mem.core.id).last = mem.core.last

(* Renotifications in a row that end before the k-th notification.         *)
Streak(i, k) ==
    Cardinality({j \in 2..(k - 1) :
                   \A m \in j..(k - 1) : notes[i][m].kind = "renotify"})

(* IN-02: in the stored notification history, the n-th renotification      *)
(* since the last open or escalation waits at least the n-th backoff,      *)
(* however often the daemon restarted in between.                          *)
BackoffSpacing ==
    \A i \in Id : \A k \in 2..Len(notes[i]) :
      notes[i][k].kind = "renotify" =>
        notes[i][k].ts - notes[i][k - 1].ts
          >= Backoff[AtMost(Streak(i, k), LastTier)]

(* DM-11: a cleared incident is history.  No late transition, restart or   *)
(* ack changes its row or adds a notification to it.                       *)
ClearedIsFinal ==
    [][\A i \in Id : rows[i].state = "cleared" =>
          rows'[i] = rows[i] /\ notes'[i] = notes[i]]_vars

(* NO-04: a commit that raises an incident's severity, from nothing or     *)
(* from a lower one, stores a notification with it.                        *)
RaiseIsAnnounced ==
    [][\A i \in Id : rows'[i].state \in LiveStates
                     /\ rows'[i].sev > rows[i].sev
          => Len(notes'[i]) > Len(notes[i])]_vars

(* PM-10: only after a locked commit, which dropped a clear that memory    *)
(* had made, can a later commit break the unique index of live rows and    *)
(* end the daemon.                                                         *)
CommitNeverRaises ==
    locks = 0 => ~(phase = "buffered" /\ BreaksUniqueIndex)

-----------------------------------------------------------------------------
(* The scheduler keeps ticking, a commit returns, and systemd restarts a   *)
(* daemon that stopped.                                                    *)
FairSpec ==
    /\ Spec
    /\ WF_vars(\E evals \in [Rung -> TriBool] : TickEvaluates(evals))
    /\ WF_vars(CommitSucceeds) /\ WF_vars(CommitRaises) /\ WF_vars(Restart)

AllFalse == [r \in Rung |-> "false"]
OnlyFalseTicks ==
    phase = "idle" /\ phase' = "buffered" => TickEvaluates(AllFalse)

(* IN-03: once every rung stays false, the incident is cleared in the      *)
(* database and stays so, whatever crashes came before, as long as no      *)
(* commit met a locked database.                                           *)
Recovers ==
    (<>[][OnlyFalseTicks]_vars /\ [](locks = 0)) => <>[](LiveRows(rows) = {})
=============================================================================
