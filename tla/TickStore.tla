------------------------------- MODULE TickStore -------------------------------
(***************************************************************************)
(* The writers that share the incident tables: the daemon's TickWriter,    *)
(* which numbers history entries and notifications in memory while a tick  *)
(* runs and stores them in one transaction at its end; the post-commit     *)
(* ActionRunner; acks from other processes; and the dispatcher's           *)
(* quiet-hours digest.  Each numbers its rows with MAX + 1 of its own.     *)
(*                                                                         *)
(* src/ftmon/store/writer.py, src/ftmon/engine/actions.py,                 *)
(* src/ftmon/engine/effects.py, SmallWrites.ack of store/query.py,         *)
(* Outbox._materialize_digest and the commit part of DaemonCore.on_tick.   *)
(***************************************************************************)
EXTENDS Integers, FiniteSets, Sequences

CONSTANTS
    Incident,   \* incident ids; each belongs to a group of its own
    RateLimit,  \* _RATE_LIMIT_S
    Time,       \* bound: wall clock readings, in any order
    MaxSeq,     \* bound: history numbers
    MaxNote,    \* bound: notification ids
    MaxTicks, MaxCrashes, MaxLocks, MaxAcked, MaxDigests, \* bounds: how often
    Actions     \* the rungs of the definitions name an action, or not

ASSUME StoreAssumption ==
    /\ RateLimit \in Nat \ {0} /\ Time \subseteq Nat \ {0}
    /\ MaxSeq \in Nat /\ MaxNote \in Nat
    /\ MaxTicks \in Nat /\ MaxCrashes \in Nat /\ MaxLocks \in Nat
    /\ MaxAcked \in Nat /\ MaxDigests \in Nat /\ Actions \in BOOLEAN

VARIABLES
    phase,    \* "idle", "buffering", "acting" after the commit, or "down"
    wall,     \* the tick's wall time
    mem,      \* state of each incident in memory
    cache,    \* writer._history_seq, Unknown when the key is absent
    nextNote, \* writer._next_outbox_id, Unknown for None
    buf,      \* the writer's buffers
    queue,    \* executor._pending_actions, then the requests being run
    run,      \* where run_one is with the head of the queue
    rows,     \* table incidents: state
    hist,     \* table incident_history: seq numbers
    notes,    \* table notifications: ids, by what they announce
    held,     \* notifications whose deliveries wait for quiet hours to end
    lastRun,  \* table action_runs: last_run_ts, of the one action modelled
    launches, \* every launch of the action, in order
    count     \* how often each bounded event happened

vars == <<phase, wall, mem, cache, nextNote, buf, queue, run, rows, hist,
          notes, held, lastRun, launches, count>>
stored == <<rows, hist, notes, held, lastRun>>

Unknown == -1
Seqs == 1..MaxSeq
NoteIds == 1..MaxNote
Live == {"open", "acked"}
State == Live \cup {"none", "cleared"}
Buffer == [rows : [Incident -> State], hist : [Incident -> SUBSET Seqs],
           notes : SUBSET NoteIds]
EmptyBuffer == [rows  |-> [i \in Incident |-> "none"],
                hist  |-> [i \in Incident |-> {}],
                notes |-> {}]

Counter == {"ticks", "crashes", "locks", "acks", "digests"}
Most == [ticks |-> MaxTicks, crashes |-> MaxCrashes, locks |-> MaxLocks,
         acks |-> MaxAcked, digests |-> MaxDigests]
Counts(what) == count[what] < Most[what]
                /\ count' = [count EXCEPT ![what] = @ + 1]

(* COALESCE(MAX(x), 0) *)
Highest(S) == IF S = {} THEN 0 ELSE CHOOSE x \in S : \A y \in S : y <= x

-----------------------------------------------------------------------------
(* _refresh_acks at a rescan *)
AcksSeen == [i \in Incident |-> IF mem[i] = "open" /\ rows[i] = "acked"
                                THEN "acked" ELSE mem[i]]

BeginTick ==
    /\ phase = "idle" /\ Counts("ticks")
    /\ \E t \in Time : wall' = t
    /\ \E scan \in BOOLEAN : mem' = IF scan THEN AcksSeen ELSE mem
    /\ phase' = "buffering"
    /\ UNCHANGED <<cache, nextNote, buf, queue, run, stored, launches>>

(* Mutant: after a restart the numbers start from 1. *)
LastSeqIgnoresTable(i) == IF cache[i] = Unknown THEN 0 ELSE cache[i]
(* add_incident_history: MAX(seq) on the first use, the cache after it.    *)
LastSeq(i) == IF cache[i] = Unknown THEN Highest(hist[i]) ELSE cache[i]

(* add_outbox: never below MAX(id) + 1 as it is now.                       *)
NextNoteId == IF Highest(notes) + 1 > nextNote THEN Highest(notes) + 1
              ELSE nextNote

(* EffectExecutor.apply for one transition: n history entries, a           *)
(* notification or none, then the upsert of the row.                       *)
Transition(i, state, n, notify) ==
    /\ phase = "buffering"
    /\ LastSeq(i) + n <= MaxSeq /\ (notify => NextNoteId <= MaxNote)
    /\ cache' = [cache EXCEPT ![i] = LastSeq(i) + n]
    /\ nextNote' = IF notify THEN NextNoteId + 1 ELSE nextNote
    /\ buf' = [rows  |-> [buf.rows EXCEPT ![i] = state],
               hist  |-> [buf.hist EXCEPT ![i] =
                            @ \cup ((LastSeq(i) + 1)..(LastSeq(i) + n))],
               notes |-> IF notify THEN buf.notes \cup {NextNoteId}
                         ELSE buf.notes]
    /\ mem' = [mem EXCEPT ![i] = state]
    /\ UNCHANGED <<phase, wall, run, stored, launches, count>>

(* AC-02: only an open asks for the action.                                *)
Open(i) ==
    /\ mem[i] = "none" /\ rows[i] = "none"
    /\ Transition(i, "open", 2, TRUE)
    /\ queue' = IF Actions THEN Append(queue, i) ELSE queue

(* A group is stepped once a tick; _clear_gone may close it after that.    *)
NotStepped(i) == buf.rows[i] = "none"
Escalate(i) ==
    /\ mem[i] \in Live /\ NotStepped(i)
    /\ Transition(i, "open", 2, TRUE) /\ UNCHANGED queue
Downgrade(i) ==
    /\ mem[i] \in Live /\ NotStepped(i)
    /\ Transition(i, mem[i], 1, FALSE) /\ UNCHANGED queue
Renotify(i) ==
    /\ mem[i] = "open" /\ NotStepped(i)
    /\ Transition(i, "open", 1, TRUE) /\ UNCHANGED queue
Clear(i) ==
    /\ mem[i] \in Live /\ UNCHANGED queue
    /\ \E notify \in BOOLEAN :
         Transition(i, "cleared", IF notify THEN 2 ELSE 1, notify)

-----------------------------------------------------------------------------
(* The primary keys of incident_history and notifications. *)
BreaksHistoryKey == \E i \in Incident : buf.hist[i] \cap hist[i] # {}
BreaksNoteKey == buf.notes \cap notes # {}

(* Which of the stored notifications are held is up to their severity and  *)
(* the hour.                                                               *)
CommitSucceeds ==
    /\ phase = "buffering" /\ ~BreaksHistoryKey /\ ~BreaksNoteKey
    /\ rows' = [i \in Incident |-> IF buf.rows[i] = "none" THEN rows[i]
                                   ELSE buf.rows[i]]
    /\ hist' = [i \in Incident |-> hist[i] \cup buf.hist[i]]
    /\ notes' = notes \cup buf.notes
    /\ \E h \in SUBSET buf.notes : held' = held \cup h
    /\ buf' = EmptyBuffer /\ phase' = "acting"
    /\ UNCHANGED <<wall, mem, cache, nextNote, queue, run, lastRun, launches,
                   count>>

(* PM-10: the buffers and the action requests are dropped; memory, the     *)
(* history numbers and the next notification id stay as they are.          *)
CommitLocked ==
    /\ phase = "buffering" /\ Counts("locks")
    /\ buf' = EmptyBuffer /\ queue' = <<>> /\ phase' = "idle"
    /\ UNCHANGED <<wall, mem, cache, nextNote, run, stored, launches>>

Stopped ==
    /\ phase' = "down" /\ queue' = <<>> /\ run' = "none"
    /\ buf' = EmptyBuffer /\ nextNote' = Unknown
    /\ cache' = [i \in Incident |-> Unknown]
    /\ mem' = [i \in Incident |-> "none"]

(* An IntegrityError is no lock error: it ends the daemon.                 *)
CommitRaises ==
    /\ phase = "buffering" /\ (BreaksHistoryKey \/ BreaksNoteKey)
    /\ Stopped /\ UNCHANGED <<wall, stored, launches, count>>

Crash ==
    /\ phase # "down" /\ Counts("crashes")
    /\ Stopped /\ UNCHANGED <<wall, stored, launches>>

Restart ==
    /\ phase = "down" /\ phase' = "idle"
    /\ mem' = [i \in Incident |-> IF rows[i] \in Live THEN rows[i] ELSE "none"]
    /\ UNCHANGED <<wall, cache, nextNote, buf, queue, run, stored, launches,
                   count>>

-----------------------------------------------------------------------------
(* ActionRunner.run_pending, request by request.                           *)
Record(i) ==
    /\ Highest(hist[i]) < MaxSeq
    /\ hist' = [hist EXCEPT ![i] = @ \cup {Highest(hist[i]) + 1}]
    /\ queue' = Tail(queue) /\ run' = "none"

(* max(0, now - last_run_ts): a clock set back suppresses the run.         *)
RateLimited ==
    lastRun # 0 /\ (IF wall > lastRun THEN wall - lastRun ELSE 0) < RateLimit

Acting(at) == phase = "acting" /\ queue # <<>> /\ run = at

ActionLimited ==
    /\ Acting("none") /\ RateLimited
    /\ Record(Head(queue))
    /\ UNCHANGED <<phase, wall, mem, cache, nextNote, buf, rows, notes, held,
                   lastRun, launches, count>>

(* Mutant: the rate slot is not reserved. *)
ActionReservesNothing ==
    /\ Acting("none") /\ ~RateLimited
    /\ run' = "reserved"
    /\ UNCHANGED <<phase, wall, mem, cache, nextNote, buf, queue, rows, hist,
                   notes, held, lastRun, launches, count>>

(* The reservation is committed before the launch.                         *)
ActionReserves ==
    /\ Acting("none") /\ ~RateLimited
    /\ lastRun' = wall /\ run' = "reserved"
    /\ UNCHANGED <<phase, wall, mem, cache, nextNote, buf, queue, rows, hist,
                   notes, held, launches, count>>

(* The script runs, or is no longer one that may be run.                   *)
ActionLaunches ==
    /\ Acting("reserved") /\ run' = "finished"
    /\ \E trusted \in BOOLEAN :
         launches' = IF trusted
                     THEN Append(launches, [inc |-> Head(queue), ts |-> wall])
                     ELSE launches
    /\ UNCHANGED <<phase, wall, mem, cache, nextNote, buf, queue, stored, count>>

ActionRecorded ==
    /\ Acting("finished") /\ Record(Head(queue))
    /\ UNCHANGED <<phase, wall, mem, cache, nextNote, buf, rows, notes, held,
                   lastRun, launches, count>>

(* The short transactions of run_one and _record are not guarded against a *)
(* lock: it ends the daemon.                                               *)
ActionLocked ==
    /\ phase = "acting" /\ queue # <<>> /\ run # "reserved" /\ Counts("locks")
    /\ Stopped /\ UNCHANGED <<wall, stored, launches>>

EndTick ==
    /\ phase = "acting" /\ queue = <<>>
    /\ phase' = "idle"
    /\ UNCHANGED <<wall, mem, cache, nextNote, buf, queue, run, stored,
                   launches, count>>

-----------------------------------------------------------------------------
(* Other writers, at any moment. *)

(* SmallWrites.ack: one transaction. *)
Ack(i) ==
    /\ rows[i] = "open" /\ Highest(hist[i]) < MaxSeq /\ Counts("acks")
    /\ rows' = [rows EXCEPT ![i] = "acked"]
    /\ hist' = [hist EXCEPT ![i] = @ \cup {Highest(hist[i]) + 1}]
    /\ UNCHANGED <<phase, wall, mem, cache, nextNote, buf, queue, run, notes,
                   held, lastRun, launches>>

(* The dispatcher replaces the held notifications when quiet hours ended.  *)
Digest ==
    /\ phase # "down" /\ held # {} /\ Highest(notes) < MaxNote
    /\ Counts("digests")
    /\ notes' = notes \cup {Highest(notes) + 1} /\ held' = {}
    /\ UNCHANGED <<phase, wall, mem, cache, nextNote, buf, queue, run, rows,
                   hist, lastRun, launches>>

Init ==
    /\ phase = "down" /\ wall \in Time
    /\ mem = [i \in Incident |-> "none"] /\ cache = [i \in Incident |-> Unknown]
    /\ nextNote = Unknown /\ buf = EmptyBuffer /\ queue = <<>> /\ run = "none"
    /\ rows = [i \in Incident |-> "none"] /\ hist = [i \in Incident |-> {}]
    /\ notes = {} /\ held = {} /\ lastRun = 0 /\ launches = <<>>
    /\ count = [c \in Counter |-> 0]

Effects(i) == Open(i) \/ Escalate(i) \/ Downgrade(i) \/ Renotify(i) \/ Clear(i)

Next ==
    \/ BeginTick \/ (\E i \in Incident : Effects(i))
    \/ CommitSucceeds \/ CommitLocked \/ CommitRaises \/ Crash \/ Restart
    \/ ActionLimited \/ ActionReserves \/ ActionLaunches \/ ActionRecorded
    \/ ActionLocked \/ EndTick
    \/ (\E i \in Incident : Ack(i)) \/ Digest

Spec == Init /\ [][Next]_vars
-----------------------------------------------------------------------------
(* Properties *)

(* Every variable keeps its shape, through dropped ticks and restarts.     *)
TypeOK ==
    /\ phase \in {"idle", "buffering", "acting", "down"}
    /\ wall \in Time /\ run \in {"none", "reserved", "finished"}
    /\ mem \in [Incident -> State] /\ rows \in [Incident -> State]
    /\ cache \in [Incident -> Seqs \cup {0, Unknown}]
    /\ nextNote \in (1..(MaxNote + 1)) \cup {Unknown}
    /\ buf \in Buffer /\ hist \in [Incident -> SUBSET Seqs]
    /\ notes \in SUBSET NoteIds /\ held \in SUBSET notes
    /\ queue \in Seq(Incident) /\ lastRun \in Time \cup {0}

(* DM-12: history tells the story in order.  Whoever adds entries, the     *)
(* tick, an ack or the action runner, adds them after all stored ones,     *)
(* although the tick's numbers were chosen before and outside the          *)
(* transaction, and survive a dropped tick.                                *)
HistoryInOrder ==
    [][\A i \in Incident : \A new \in hist'[i] \ hist[i], old \in hist[i] :
          old < new]_vars

(* AC-02: two launches of an action are never closer than its rate limit,  *)
(* even if the daemon dies between the launch and its record or the clock  *)
(* is set back.                                                            *)
ActionsSpaced ==
    \A k \in 2..Len(launches) :
      launches[k].ts - launches[k - 1].ts >= RateLimit

(* IN-02 and DM-12: acks and action runs are recorded in the history of an *)
(* incident that goes on and clears normally; they do not end the daemon.  *)
HistoryNeverRaises == ~(phase = "buffering" /\ BreaksHistoryKey)
=============================================================================
