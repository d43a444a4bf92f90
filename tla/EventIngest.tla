---------------------------- MODULE EventIngest ----------------------------
(***************************************************************************)
(* Journal events on their way into the database: `journalctl -f` writes   *)
(* the entries after a cursor into a pipe, a reader thread moves them into *)
(* a bounded queue (sources/journald.py), and every tick the event engine  *)
(* supervises the reader, drains the queue and buffers what it took with   *)
(* the cursor of the last item (engine/events.py); the commit of the tick  *)
(* stores both in one transaction (store/writer.py).                       *)
(*                                                                         *)
(* An entry is its position in the journal and a cursor is the entry it    *)
(* names, so "after the cursor" is an order.  What an entry says matters   *)
(* only for the merge of adjacent equal entries.  The tick is four steps   *)
(* because the reader runs beside it: supervise, the drain with the        *)
(* queue's lock held, the look at the overflow counters after the lock is  *)
(* given back, and the commit.                                             *)
(***************************************************************************)
EXTENDS Integers, Sequences, FiniteSets

CONSTANTS Text,          \* what entries say, up to equality
          MaxLog,        \* bound: entries the journal gets
          QueueMax,      \* QUEUE_MAX
          DrainBudget,   \* DRAIN_BUDGET
          BackoffStart,  \* _BACKOFF_START_S, in ticks
          BackoffCap,    \* _BACKOFF_CAP_S, in ticks
          FirstRun,      \* TRUE: no checkpoint was ever stored
          MaxDeaths,     \* bound: deaths of journalctl
          MaxLocks,      \* bound: commits that meet a locked database
          MaxCrashes,    \* bound: deaths of the daemon
          MaxFaults      \* bound: deaths, locked commits and crashes together

ASSUME IngestAssumption ==
    /\ MaxLog \in Nat
    /\ QueueMax \in Nat \ {0} /\ DrainBudget \in Nat \ {0}
    /\ BackoffStart \in Nat \ {0} /\ BackoffCap \in Nat \ {0}
    /\ FirstRun \in BOOLEAN
    /\ MaxDeaths \in Nat /\ MaxLocks \in Nat /\ MaxCrashes \in Nat
    /\ MaxFaults \in Nat

VARIABLES
    journal,     \* Seq(Text): the journal
    reader,      \* the running journalctl and the thread on its pipe
    pipes,       \* dead journalctls whose threads still read what was left
    queue,       \* JournaldEventSource._queue
    dropped,     \* JournaldEventSource.dropped
    stage,       \* how far the tick is; "down" without a daemon
    taken,       \* items the drain has taken
    lastCursor,  \* EventEngine._last_cursor
    batch,       \* the writer's buffered events and cursor
    restart,     \* _deaths > 0, _next_restart_mono and _backoff_s
    overflow,    \* _last_dropped and _overflow_start_total
    db,          \* the events and the cursor in the database
    evicted,     \* ghost: entries the full queue dropped
    unsaved,     \* ghost: entries a locked commit dropped
    skipped,     \* ghost: entries a reader without a cursor began behind
    told,        \* ghost: drops the closed overflow summaries of this run told
    faults       \* deaths, locks and crashes so far

engine  == <<lastCursor, batch, restart, overflow>>
ghosts  == <<evicted, unsaved, skipped, told>>
vars == <<journal, reader, pipes, queue, dropped, stage, taken, lastCursor,
          batch, restart, overflow, db, evicted, unsaved, skipped, told, faults>>

Entry    == 1 .. MaxLog
NoCursor == -1
Cursor   == {NoCursor} \cup 0 .. MaxLog
NoTotal  == -1
Counts   == [Entry -> Nat]
Nothing  == [e \in Entry |-> 0]

\* One more occurrence of e, and all of c as well as d.
Plus(c, e)  == [c EXCEPT ![e] = @ + 1]
Union(c, d) == [e \in Entry |-> c[e] + d[e]]
Upto(a, b)  == IF a <= b THEN a ELSE b

Item   == [of : Counts, cursor : Entry]
Buffer == [of : Counts, cursor : Cursor]

EmptyBatch == [of |-> Nothing, cursor |-> NoCursor]
-----------------------------------------------------------------------------
(***************************************************************************)
(* JournaldEventSource.start: `--after-cursor` replays what follows the    *)
(* cursor, `-n 0` begins at the end of the journal.                        *)
(***************************************************************************)
StartAt(c) ==
    LET from == IF c = NoCursor THEN Len(journal) ELSE c
    IN  /\ reader' = [alive |-> TRUE, sent |-> from, read |-> from]
        /\ skipped' = IF c = NoCursor
                      THEN skipped \cup 1 .. Len(journal) ELSE skipped

TypeOK ==
    /\ journal \in Seq(Text) /\ Len(journal) <= MaxLog
    /\ reader \in [alive : BOOLEAN, sent : 0 .. MaxLog, read : 0 .. MaxLog]
    /\ pipes \in Seq([sent : 0 .. MaxLog, read : 0 .. MaxLog])
    /\ queue \in Seq(Item) /\ Len(queue) <= QueueMax
    /\ dropped \in Nat /\ taken \in 0 .. DrainBudget
    /\ stage \in {"supervise", "drain", "draining", "observe", "commit", "down"}
    /\ lastCursor \in Cursor
    /\ batch \in Buffer /\ db \in Buffer
    /\ restart \in [died : BOOLEAN, in : Nat, backoff : Nat]
    /\ overflow \in [last : Nat, from : Nat \cup {NoTotal}]
    /\ evicted \subseteq Entry /\ unsaved \subseteq Entry
    /\ skipped \subseteq Entry /\ told \in Nat
    /\ faults \in [deaths : 0 .. MaxDeaths, locks : 0 .. MaxLocks,
                   crashes : 0 .. MaxCrashes]

FirstCursor == IF FirstRun THEN NoCursor ELSE 0

Init ==
    /\ journal = << >>
    /\ reader = [alive |-> TRUE, sent |-> 0, read |-> 0]
    /\ pipes = << >> /\ queue = << >> /\ dropped = 0
    /\ stage = "supervise" /\ taken = 0
    /\ lastCursor = FirstCursor
    /\ batch = EmptyBatch
    /\ restart = [died |-> FALSE, in |-> 0, backoff |-> BackoffStart]
    /\ overflow = [last |-> 0, from |-> NoTotal]
    /\ db = [of |-> Nothing, cursor |-> FirstCursor]
    /\ evicted = {} /\ unsaved = {} /\ skipped = {} /\ told = 0
    /\ faults = [deaths |-> 0, locks |-> 0, crashes |-> 0]
-----------------------------------------------------------------------------
\* Somebody logs.
Log(t) ==
    /\ Len(journal) < MaxLog
    /\ journal' = Append(journal, t)
    /\ UNCHANGED <<reader, pipes, queue, dropped, stage, taken, engine, db,
                   ghosts, faults>>

\* journalctl writes the next entry into its pipe.
Send ==
    /\ reader.alive /\ reader.sent < Len(journal)
    /\ reader' = [reader EXCEPT !.sent = @ + 1]
    /\ UNCHANGED <<journal, pipes, queue, dropped, stage, taken, engine, db,
                   ghosts, faults>>

MoreFaults == faults.deaths + faults.locks + faults.crashes < MaxFaults

\* journalctl dies; what it had written can still be read.
Die ==
    /\ reader.alive /\ stage # "down"
    /\ faults.deaths < MaxDeaths /\ MoreFaults
    /\ reader' = [reader EXCEPT !.alive = FALSE]
    /\ faults' = [faults EXCEPT !.deaths = @ + 1]
    /\ UNCHANGED <<journal, pipes, queue, dropped, stage, taken, engine, db,
                   ghosts>>

\* merge_adjacent: the newest item already says the same.
Merges(e) ==
    queue # << >> /\ journal[queue[Len(queue)].cursor] = journal[e]

OfferMerged(e) ==
    /\ Merges(e)
    /\ queue' = [queue EXCEPT ![Len(queue)] =
                    [of |-> Plus(@.of, e), cursor |-> e]]
    /\ UNCHANGED <<dropped, evicted>>

OfferNew(e) ==
    /\ ~Merges(e) /\ Len(queue) < QueueMax
    /\ queue' = Append(queue, [of |-> Plus(Nothing, e), cursor |-> e])
    /\ UNCHANGED <<dropped, evicted>>

\* deque(maxlen): the oldest item makes room.
OfferEvicting(e) ==
    /\ ~Merges(e) /\ Len(queue) = QueueMax
    /\ queue' = Append(Tail(queue), [of |-> Plus(Nothing, e), cursor |-> e])
    /\ dropped' = dropped + 1
    /\ evicted' = evicted \cup {x \in Entry : Head(queue).of[x] > 0}

\* _offer_locked: not while the drain holds the queue's lock.
Offer(e) ==
    /\ stage # "draining"
    /\ OfferMerged(e) \/ OfferNew(e) \/ OfferEvicting(e)

\* _read_loop of the running journalctl.
Read ==
    /\ stage # "down"
    /\ reader.read < reader.sent
    /\ Offer(reader.read + 1)
    /\ reader' = [reader EXCEPT !.read = @ + 1]
    /\ UNCHANGED <<journal, pipes, stage, taken, engine, db, unsaved, skipped,
                   told, faults>>

\* _read_loop of a journalctl that was replaced before its pipe was empty.
ReadLeftover(i) ==
    /\ pipes[i].read < pipes[i].sent
    /\ Offer(pipes[i].read + 1)
    /\ pipes' = [pipes EXCEPT ![i].read = @ + 1]
    /\ UNCHANGED <<journal, reader, stage, taken, engine, db, unsaved, skipped,
                   told, faults>>
-----------------------------------------------------------------------------
(***************************************************************************)
(* EventEngine._supervise, one tick later than the last: a dead reader is  *)
(* started again from the last drained cursor once its backoff is over.    *)
(***************************************************************************)
Waited == IF restart.died /\ restart.in > 0 THEN restart.in - 1 ELSE 0

SuperviseAlive ==
    /\ reader.alive
    /\ restart' = [restart EXCEPT !.in = Waited, !.backoff = BackoffStart]
    /\ UNCHANGED <<reader, pipes, skipped>>

\* Mutant: the death is noted and the reader is not started.
SuperviseUnstarted ==
    /\ ~reader.alive /\ Waited = 0
    /\ restart' = [restart EXCEPT !.died = TRUE, !.in = 0]
    /\ UNCHANGED <<reader, pipes, skipped>>

SuperviseRestart ==
    /\ ~reader.alive /\ Waited = 0
    /\ StartAt(lastCursor)
    /\ pipes' = IF reader.read < reader.sent
                THEN Append(pipes, [sent |-> reader.sent, read |-> reader.read])
                ELSE pipes
    /\ restart' = [died |-> TRUE, in |-> restart.backoff,
                   backoff |-> Upto(2 * restart.backoff, BackoffCap)]

SuperviseWait ==
    /\ ~reader.alive /\ Waited > 0
    /\ restart' = [restart EXCEPT !.in = Waited]
    /\ UNCHANGED <<reader, pipes, skipped>>

Supervise ==
    /\ stage = "supervise"
    /\ SuperviseAlive \/ SuperviseRestart \/ SuperviseWait
    /\ stage' = "drain"
    /\ UNCHANGED <<journal, queue, dropped, taken, lastCursor, batch, overflow,
                   db, evicted, unsaved, told, faults>>

\* JournaldEventSource.drain takes the lock ...
TakeLock ==
    /\ stage = "drain"
    /\ stage' = "draining"
    /\ taken' = 0
    /\ UNCHANGED <<journal, reader, pipes, queue, dropped, engine, db, ghosts,
                   faults>>

\* Mutant: the drain reports the newest cursor it saw, not the last it took.
TakeItemNewestCursor ==
    /\ stage = "draining"
    /\ queue # << >> /\ taken < DrainBudget
    /\ batch' = [of |-> Union(batch.of, Head(queue).of),
                 cursor |-> queue[Len(queue)].cursor]
    /\ queue' = Tail(queue)
    /\ taken' = taken + 1
    /\ UNCHANGED <<journal, reader, pipes, dropped, stage, lastCursor, restart,
                   overflow, db, ghosts, faults>>

\* ... takes items while there are any and the budget lasts ...
TakeItem ==
    /\ stage = "draining"
    /\ queue # << >> /\ taken < DrainBudget
    /\ batch' = [of |-> Union(batch.of, Head(queue).of),
                 cursor |-> Head(queue).cursor]
    /\ queue' = Tail(queue)
    /\ taken' = taken + 1
    /\ UNCHANGED <<journal, reader, pipes, dropped, stage, lastCursor, restart,
                   overflow, db, ghosts, faults>>

\* ... and gives it back; EventEngine.tick notes the cursor in memory.
Drained ==
    /\ stage = "draining"
    /\ queue = << >> \/ taken = DrainBudget
    /\ stage' = "observe"
    /\ taken' = 0
    /\ lastCursor' = IF batch.cursor = NoCursor THEN lastCursor ELSE batch.cursor
    /\ UNCHANGED <<journal, reader, pipes, queue, dropped, batch, restart,
                   overflow, db, ghosts, faults>>

\* Mutant: the summary counts from the report of the start, not from before it.
ObserveFromReport ==
    /\ stage = "observe"
    /\ stage' = "commit"
    /\ LET new  == dropped - overflow.last
           from == IF new > 0 /\ overflow.from = NoTotal
                   THEN dropped ELSE overflow.from
           over == new = 0 /\ from # NoTotal /\ Len(queue) < QueueMax
       IN  /\ overflow' = [last |-> dropped, from |-> IF over THEN NoTotal ELSE from]
           /\ told' = IF over THEN told + (dropped - from) ELSE told
    /\ UNCHANGED <<journal, reader, pipes, queue, dropped, taken, lastCursor,
                   batch, restart, db, evicted, unsaved, skipped, faults>>

(***************************************************************************)
(* _observe_overflow: one report when drops begin, one with their number   *)
(* when a tick sees no new one and room in the queue.                      *)
(***************************************************************************)
Observe ==
    /\ stage = "observe"
    /\ stage' = "commit"
    /\ LET new  == dropped - overflow.last
           from == IF new > 0 /\ overflow.from = NoTotal
                   THEN overflow.last ELSE overflow.from
           over == new = 0 /\ from # NoTotal /\ Len(queue) < QueueMax
       IN  /\ overflow' = [last |-> dropped, from |-> IF over THEN NoTotal ELSE from]
           /\ told' = IF over THEN told + (dropped - from) ELSE told
    /\ UNCHANGED <<journal, reader, pipes, queue, dropped, taken, lastCursor,
                   batch, restart, db, evicted, unsaved, skipped, faults>>

\* Writer.commit_tick: the events and the cursor in one transaction.
Commit ==
    /\ stage = "commit"
    /\ db' = [of |-> Union(db.of, batch.of),
              cursor |-> IF batch.cursor = NoCursor THEN db.cursor ELSE batch.cursor]
    /\ batch' = EmptyBatch
    /\ stage' = "supervise"
    /\ UNCHANGED <<journal, reader, pipes, queue, dropped, taken, lastCursor,
                   restart, overflow, ghosts, faults>>

\* The database is locked: the tick's data are dropped and the tick goes on.
CommitLocked ==
    /\ stage = "commit"
    /\ faults.locks < MaxLocks /\ MoreFaults
    /\ faults' = [faults EXCEPT !.locks = @ + 1]
    /\ unsaved' = unsaved \cup {e \in Entry : batch.of[e] > 0}
    /\ batch' = EmptyBatch
    /\ stage' = "supervise"
    /\ UNCHANGED <<journal, reader, pipes, queue, dropped, taken, lastCursor,
                   restart, overflow, db, evicted, skipped, told>>

\* The daemon dies, and with it its reader, queue and buffers.
Crash ==
    /\ stage # "down"
    /\ faults.crashes < MaxCrashes /\ MoreFaults
    /\ faults' = [faults EXCEPT !.crashes = @ + 1]
    /\ stage' = "down"
    /\ reader' = [reader EXCEPT !.alive = FALSE]
    /\ pipes' = << >> /\ queue' = << >> /\ dropped' = 0 /\ taken' = 0
    /\ batch' = EmptyBatch
    /\ UNCHANGED <<journal, lastCursor, restart, overflow, db, ghosts>>

\* _start_events and EventEngine.start in a new daemon.
Start ==
    /\ stage = "down"
    /\ stage' = "supervise"
    /\ StartAt(db.cursor)
    /\ lastCursor' = db.cursor
    /\ restart' = [died |-> FALSE, in |-> 0, backoff |-> BackoffStart]
    /\ overflow' = [last |-> dropped, from |-> NoTotal]
    /\ told' = 0
    /\ UNCHANGED <<journal, pipes, queue, dropped, taken, batch, db, evicted,
                   unsaved, faults>>
-----------------------------------------------------------------------------
Tick == Supervise \/ TakeLock \/ TakeItem \/ Drained \/ Observe \/ Commit

Next ==
    \/ \E t \in Text : Log(t)
    \/ Send \/ Die \/ Read
    \/ \E i \in 1 .. Len(pipes) : ReadLeftover(i)
    \/ Supervise \/ TakeLock \/ TakeItem \/ Drained \/ Observe
    \/ Commit \/ CommitLocked
    \/ Crash \/ Start

Spec == Init /\ [][Next]_vars

(***************************************************************************)
(* The tick loop runs while the process does, the service manager starts   *)
(* it again, and the operating system runs journalctl and the reader       *)
(* thread.  Nobody has to log and nothing has to fail.  The reader needs the *)
(* queue's lock, which every tick holds for a moment: it must get it again *)
(* and again (SF), for the tick gives it back for seconds each time.       *)
(***************************************************************************)
FairSpec ==
    /\ Spec
    /\ WF_vars(Tick) /\ WF_vars(Start)
    /\ WF_vars(Send) /\ SF_vars(Read)
-----------------------------------------------------------------------------
(***************************************************************************)
(* SAFETY: the same with every way to lose an entry named: dropped by the  *)
(* full queue, dropped by a locked commit, or logged before a reader that  *)
(* had no cursor began.                                                    *)
(***************************************************************************)
LossIsAccounted ==
    \A e \in Entry :
        e <= db.cursor => db.of[e] > 0 \/ e \in evicted \cup unsaved \cup skipped

(***************************************************************************)
(* SAFETY: as long as journalctl lives, crashes and locked commits         *)
(* notwithstanding, no entry is stored twice, so occurrence counts,        *)
(* confirmations and the storm guard count what was logged.                *)
(***************************************************************************)
StoredOnceWhileReaderLives ==
    faults.deaths = 0 => \A e \in Entry : db.of[e] <= 1

(***************************************************************************)
(* SAFETY: every drop that a tick has seen is told by exactly one closed   *)
(* summary or belongs to the open one.                                     *)
(***************************************************************************)
DropsAreTold ==
    stage # "down" =>
        told = (IF overflow.from = NoTotal THEN overflow.last ELSE overflow.from)

(***************************************************************************)
(* LIVENESS: every logged entry is stored in the end or was lost in one of *)
(* the three named ways, though journalctl and the daemon die and are      *)
(* started again.  (The journal ends, so again and again none is on its    *)
(* way.)                                                                   *)
(***************************************************************************)
EntriesArrive ==
    []<>(\A e \in 1 .. Len(journal) :
            db.of[e] > 0 \/ e \in evicted \cup unsaved \cup skipped)
=============================================================================
