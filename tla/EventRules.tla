------------------------------ MODULE EventRules ------------------------------
(***************************************************************************)
(* One event rule and one event identity: the episode the rule opens, the  *)
(* incident rows and notifications that stand for it, and the storm guard  *)
(* in front of the event table, through ticks, acks, definition edits,     *)
(* crashes and restarts.                                                   *)
(*                                                                         *)
(* src/ftmon/engine/episodes.py, EventEngine.tick, supersede, refresh_acks *)
(* and rebuild of src/ftmon/engine/events.py, and what daemon.py does with *)
(* them at a start.                                                        *)
(***************************************************************************)
EXTENDS StormGuard, FiniteSets, Sequences, FiniteSetsExt

CONSTANTS
    Cooldown, ClearAfter, ConfirmCount, ConfirmWindow, NotifyRecovery, \* rule
    FlapWindow, FlapCount, FlapFactor, FlapKeep, \* the flap guard's constants
    MaxNow, MaxStep, \* bounds: the clock's end, the time between two ticks
    MaxRecords, MaxRepeat, MaxOthers, \* bounds: what a tick may drain
    MaxId, MaxEdits, MaxCrashes \* bounds: incident ids, faults

ASSUME EventAssumption ==
    /\ Cooldown \in Nat /\ ClearAfter \in Nat \ {0} /\ ConfirmWindow \in Nat
    /\ ConfirmCount \in Nat \ {0} /\ NotifyRecovery \in BOOLEAN
    /\ FlapWindow \in Nat /\ FlapCount \in Nat \ {0}
    /\ FlapFactor \in Nat \ {0} /\ FlapKeep \in Nat \ {0}
    /\ MaxNow \in Nat /\ MaxStep \in Nat \ {0} /\ MaxRecords \in Nat
    /\ MaxRepeat \in Nat \ {0} /\ MaxOthers \in Nat /\ MaxId \in Nat
    /\ MaxEdits \in Nat /\ MaxCrashes \in Nat

VARIABLES
    phase,   \* "idle", "buffered" before the commit, or "down"
    ep,      \* _states[key]; NoEpisode when the key is absent
    nextId,  \* writer._next_incident_id, 0 for None
    pend,    \* the writer's buffers, with the matches they go with
    rows,    \* table incidents
    notes,   \* table notifications, per incident
    matched, \* ghost: matching occurrences committed up to a time
    since,   \* ghost: from when on matches count towards the next episode
    def,     \* content of the definition: on disk, loaded, in monitor_loads
    crashes  \* for the bound

vars == <<now, storm, books, phase, ep, nextId, pend, rows, notes, matched,
          since, def, crashes>>

Id == 1..MaxId
Time == 0..MaxNow
Live == {"open", "acked"}
NoCore == [id |-> 0, state |-> "none", opened |-> 0, last |-> 0, occ |-> 0]
NoEpisode == [core |-> NoCore, seen |-> 0, pending |-> <<>>, flaps |-> <<>>,
              cooldown |-> Cooldown]
NoRow == [state |-> "none", opened |-> 0, changed |-> 0, cleared |-> 0, occ |-> 0]
NoPending == [rows |-> [i \in Id |-> NoRow], notes |-> [i \in Id |-> <<>>],
              matches |-> 0, load |-> FALSE]

(* What a tick drained: records of the identity, each a run of repeats, and *)
(* other records that pass the store filter.                               *)
Drained == {[records |-> 0, each |-> 1]} \cup [records : 1..MaxRecords, each : 1..MaxRepeat]
Occurrences(hits) == hits.records * hits.each

AtMost(n, cap) == IF n < cap THEN n ELSE cap
(* The times of a tuple are in order: those within the window end it.      *)
Within(times, window, t) ==
    LET kept == {k \in DOMAIN times : t - times[k] <= window}
    IN  IF kept = {} THEN <<>> ELSE SubSeq(times, Min(kept), Len(times))
LastOf(times, n) == SubSeq(times, 1 + Len(times) - AtMost(Len(times), n), Len(times))
IsLive(e) == e.core.state \in Live
LiveRows == {i \in Id : rows[i].state \in Live}

-----------------------------------------------------------------------------
(* step_episode: the episode after the tick, what is recorded, what is     *)
(* announced.                                                              *)
Step(e, record, note) == [ep |-> e, record |-> record, note |-> note]

(* Mutant: matches that stayed alone never expire. *)
PendingForever(e, t) == e.pending
PendingAt(e, t) == Within(e.pending, ConfirmWindow, t)

(* Mutant: a run of repeats waits as one match. *)
WaitedOnce(e, hits, t) ==
    [e EXCEPT !.pending = PendingAt(e, t) \o [k \in 1..hits.records |-> t]]
(* Too few so far: a record is kept as often as could matter.              *)
Waited(e, hits, t) ==
    [e EXCEPT !.pending = PendingAt(e, t) \o
       [k \in 1..(hits.records * AtMost(hits.each, ConfirmCount)) |-> t]]

Opened(e, hits, t) ==
    LET flaps == Within(e.flaps, FlapWindow, t)
    IN [core |-> [id |-> 0, state |-> "open", opened |-> t, last |-> t,
                  occ |-> Len(PendingAt(e, t)) + Occurrences(hits)],
        seen |-> t, pending |-> <<>>, flaps |-> flaps,
        cooldown |-> IF Len(flaps) >= FlapCount THEN FlapFactor * Cooldown
                     ELSE Cooldown]

(* _maybe_open *)
MaybeOpen(e, hits, t) ==
    IF Len(PendingAt(e, t)) + Occurrences(hits) < ConfirmCount
    THEN Step(Waited(e, hits, t), "none", "none")
    ELSE Step(Opened(e, hits, t), "open", "open")

RenotifyDue(e, t) == e.core.state = "open" /\ t - e.core.last >= e.cooldown

(* _refresh *)
Refresh(e, hits, t) ==
    LET core == [e.core EXCEPT !.occ = @ + Occurrences(hits)]
    IN IF RenotifyDue(e, t)
       THEN Step([e EXCEPT !.seen = t, !.core = [core EXCEPT !.last = t]],
                 "refresh", "renotify")
       ELSE Step([e EXCEPT !.seen = t, !.core = core], "refresh", "none")

(* _clear *)
Clear(e, t) ==
    Step([core |-> [e.core EXCEPT !.state = "cleared"], seen |-> 0,
          pending |-> <<>>, flaps |-> LastOf(Append(e.flaps, t), FlapKeep),
          cooldown |-> Cooldown],
         "clear", IF NotifyRecovery THEN "recover" ELSE "none")

StepEpisode(e, hits, t) ==
    CASE IsLive(e) /\ hits.records > 0 -> Refresh(e, hits, t)
      [] IsLive(e) /\ hits.records = 0 /\ t - e.seen >= ClearAfter -> Clear(e, t)
      [] ~IsLive(e) /\ hits.records > 0 -> MaybeOpen(e, hits, t)
      [] ~IsLive(e) /\ hits.records = 0 ->
           Step([e EXCEPT !.pending = PendingAt(e, t)], "none", "none")
      [] OTHER -> Step(e, "none", "none")

-----------------------------------------------------------------------------
(* A working state w = [ep, pend, nextId] threads through one tick.        *)

(* COALESCE(MAX(id), 0) + 1 at the first use, a counter after it.          *)
AllocId(w) ==
    IF w.nextId = 0
    THEN 1 + Max({0} \cup {i \in Id : rows[i].state # "none"}) ELSE w.nextId

(* EffectExecutor.apply, when there are effects.                           *)
Apply(w, step, t) ==
    LET fresh == step.ep.core.id = 0
        id == IF fresh THEN AllocId(w) ELSE step.ep.core.id
        core == [step.ep.core EXCEPT !.id = id]
        row == [state |-> core.state, opened |-> core.opened, changed |-> t,
                cleared |-> IF core.state = "cleared" THEN t ELSE 0,
                occ |-> core.occ]
        sent == IF step.note = "none" THEN <<>>
                ELSE <<[kind |-> step.note, ts |-> t]>>
    IN IF step.record = "none" THEN [w EXCEPT !.ep = step.ep]
       ELSE [ep |-> [step.ep EXCEPT !.core = core],
             nextId |-> IF fresh THEN id + 1 ELSE w.nextId,
             pend |-> [w.pend EXCEPT !.rows[id] = row, !.notes[id] = @ \o sent]]

(* EventEngine.supersede: the definition was edited.                       *)
Superseded(w, t) ==
    LET gone == Step([w.ep EXCEPT !.core.state = "cleared"], "clear", "none")
    IN [IF IsLive(w.ep) THEN Apply(w, gone, t) ELSE w EXCEPT !.ep = NoEpisode]

(* refresh_acks *)
AcksSeen(w) ==
    IF w.ep.core.state = "open" /\ w.ep.core.id \in Id
       /\ rows[w.ep.core.id].state = "acked"
    THEN [w EXCEPT !.ep.core.state = "acked"] ELSE w

(* Every half minute, and when asked to, the tick rescans the definitions. *)
Edited == def.disk # def.mem
Rescanned(scan, t) ==
    LET w == [ep |-> ep, pend |-> pend, nextId |-> nextId]
    IN CASE ~scan -> w
         [] scan /\ ~Edited -> AcksSeen(w)
         [] OTHER -> [Superseded(w, t) EXCEPT !.pend.load = TRUE]

Later == {AtMost(now + step, MaxNow) : step \in 1..MaxStep}

(* EventEngine.tick with what it drained, up to the commit.                *)
Tick(hits, others, scan) ==
    /\ phase = "idle" /\ now < MaxNow
    /\ \E t \in Later :
         LET w == Rescanned(scan, t)
             done == Apply(w, StepEpisode(w.ep, hits, t), t)
         IN /\ done.nextId <= MaxId + 1
            /\ Guard(hits.records + others, t)
            /\ ep' = done.ep /\ nextId' = done.nextId
            /\ pend' = [done.pend EXCEPT !.matches = Occurrences(hits)]
            /\ since' = IF (scan /\ Edited) \/ (IsLive(w.ep) /\ ~IsLive(done.ep))
                        THEN t ELSE since
    /\ def' = IF scan THEN [def EXCEPT !.mem = def.disk] ELSE def
    /\ phase' = "buffered"
    /\ UNCHANGED <<rows, notes, matched, crashes>>

(* commit_tick; opened_ts is not among the columns an upsert updates.      *)
Commit ==
    /\ phase = "buffered" /\ phase' = "idle"
    /\ rows' = [i \in Id |->
         CASE pend.rows[i].state = "none" -> rows[i]
           [] pend.rows[i].state # "none" /\ rows[i].state = "none" -> pend.rows[i]
           [] OTHER -> [pend.rows[i] EXCEPT !.opened = rows[i].opened]]
    /\ notes' = [i \in Id |-> notes[i] \o pend.notes[i]]
    /\ matched' = [t \in Time |-> IF t < now THEN matched[t]
                                 ELSE matched[t] + pend.matches]
    /\ def' = IF pend.load THEN [def EXCEPT !.db = def.mem] ELSE def
    /\ pend' = NoPending
    /\ UNCHANGED <<now, storm, books, ep, nextId, since, crashes>>

(* SmallWrites.ack *)
Ack(i) ==
    /\ rows[i].state = "open"
    /\ rows' = [rows EXCEPT ![i].state = "acked"]
    /\ UNCHANGED <<now, storm, books, phase, ep, nextId, pend, notes, matched,
                   since, def, crashes>>

(* The process dies; the events of an uncommitted tick are replayed, which *)
(* is to say they come later.                                              *)
Crash ==
    /\ phase # "down" /\ crashes < MaxCrashes /\ crashes' = crashes + 1
    /\ phase' = "down" /\ ep' = NoEpisode /\ nextId' = 0 /\ pend' = NoPending
    /\ UNCHANGED <<now, storm, books, rows, notes, matched, since, def>>

(* Mutant: the quiet period is counted from the opening. *)
RebuiltFromOpening(i) ==
    [NoEpisode EXCEPT !.seen = rows[i].opened,
       !.core = [id |-> i, state |-> rows[i].state, opened |-> rows[i].opened,
                 last |-> rows[i].changed, occ |-> rows[i].occ]]
(* EventEngine.rebuild and _core_from_row *)
Rebuilt(i) ==
    [NoEpisode EXCEPT !.seen = rows[i].changed,
       !.core = [id |-> i, state |-> rows[i].state, opened |-> rows[i].opened,
                 last |-> rows[i].changed, occ |-> rows[i].occ]]

(* _clear_startup_superseded: the definition was edited while down.        *)
SupersededRow(i, t) ==
    [rows[i] EXCEPT !.state = "cleared", !.changed = t, !.cleared = t]

EditDefinition ==
    /\ def.disk < MaxEdits + 1 /\ def' = [def EXCEPT !.disk = @ + 1]
    /\ UNCHANGED <<now, storm, books, phase, ep, nextId, pend, rows, notes,
                   matched, since, crashes>>

(* MD-06: the definition the last stored load had is not the one on disk.  *)
EditedWhileDown == def.db # 0 /\ def.db # def.disk

(* Mutant: a start knows no episode. *)
ReloadedNothing == NoEpisode
(* What a start rebuilds. *)
Reloaded == IF EditedWhileDown \/ LiveRows = {} THEN NoEpisode
            ELSE Rebuilt(CHOOSE i \in LiveRows : TRUE)

(* _start_events, after the definitions were loaded.                       *)
Restart ==
    /\ phase = "down" /\ phase' = "idle" /\ now < MaxNow
    /\ ep' = Reloaded /\ def' = [def EXCEPT !.mem = def.disk]
    /\ \E t \in Later :
         /\ GuardAnew(t) /\ since' = t
         /\ pend' = [NoPending EXCEPT
              !.load = TRUE,
              !.rows = [i \in Id |-> IF EditedWhileDown /\ i \in LiveRows
                                     THEN SupersededRow(i, t) ELSE NoRow]]
    /\ UNCHANGED <<nextId, rows, notes, matched, crashes>>

Init ==
    /\ GuardInit
    /\ phase = "down" /\ ep = NoEpisode /\ nextId = 0 /\ pend = NoPending
    /\ rows = [i \in Id |-> NoRow] /\ notes = [i \in Id |-> <<>>]
    /\ matched = [t \in Time |-> 0] /\ since = 0
    /\ def = [disk |-> 1, mem |-> 0, db |-> 0] /\ crashes = 0

Next ==
    \/ \E hits \in Drained, others \in 0..MaxOthers, scan \in BOOLEAN :
         Tick(hits, others, scan)
    \/ Commit \/ Crash \/ Restart \/ EditDefinition
    \/ \E i \in Id : Ack(i)

Spec == Init /\ [][Next]_vars
-----------------------------------------------------------------------------
(* Properties *)

CoreType == [id : 0..MaxId, state : {"none", "open", "acked", "cleared"},
             opened : Time, last : Time, occ : Nat]
RowType == [state : {"none", "open", "acked", "cleared"}, opened : Time,
            changed : Time, cleared : Time, occ : Nat]
NoteType == [kind : {"open", "renotify", "recover"}, ts : Time]

(* Every variable keeps its shape; what waits for a confirmation is less   *)
(* than the confirmation takes.                                            *)
TypeOK ==
    /\ now \in Time /\ phase \in {"idle", "buffered", "down"}
    /\ ep.core \in CoreType /\ ep.seen \in Time /\ ep.cooldown \in Nat
    /\ ep.pending \in Seq(Time) /\ Len(ep.pending) < ConfirmCount
    /\ ep.flaps \in Seq(Time) /\ Len(ep.flaps) <= FlapKeep
    /\ nextId \in 0..(MaxId + 1)
    /\ pend.rows \in [Id -> RowType] /\ rows \in [Id -> RowType]
    /\ notes \in [Id -> Seq(NoteType)]
    /\ matched \in [Time -> Nat] /\ since \in Time
    /\ def \in [disk : Nat, mem : Nat, db : Nat]

(* Matches committed from a to b, in the event table or only counted. *)
Upto(t) == IF t < 0 THEN 0 ELSE matched[t]
Matches(a, b) == Upto(b) - Upto(a - 1)

(* IN-08: an incident stands for at least ConfirmCount committed matches   *)
(* within the window before it opened, and counts every one since, over    *)
(* acks, restarts and replays, whether the storm guard stored them or not. *)
EpisodeIsEvidenced ==
    \A i \in Id : rows[i].state # "none" =>
      LET end == IF rows[i].state = "cleared" THEN rows[i].cleared - 1 ELSE now
          burst == rows[i].occ - Matches(rows[i].opened + 1, end)
      IN /\ ConfirmCount <= burst
         /\ burst <= Matches(rows[i].opened - ConfirmWindow, rows[i].opened)

(* IN-08: a burst is never missed: without an episode, fewer matches than  *)
(* confirm one came within the window, since this process started or the   *)
(* last episode ended.                                                     *)
BurstOpens ==
    phase = "idle" /\ ~IsLive(ep) =>
      Matches(IF since < now - ConfirmWindow THEN now - ConfirmWindow ELSE since, now) < ConfirmCount

(* IN-08: an episode that no edit ended was quiet for ClearAfter: nothing  *)
(* committed matched in that time, also across a restart.                  *)
ClearsInQuiet ==
    [][\A i \in Id :
         (phase = "buffered" /\ def.disk = 1 /\ rows'[i].state = "cleared"
          /\ rows[i].state \in Live)
         => Matches(now - ClearAfter + 1, now) = 0]_vars

(* A restart does not open a second incident for an episode that is live:  *)
(* the unique index of live rows is never challenged.                      *)
OneLiveEpisode == Cardinality(LiveRows) <= 1
=============================================================================
