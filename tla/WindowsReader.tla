--------------------------- MODULE WindowsReader ---------------------------
(***************************************************************************)
(* Events of the Windows Event Log (sources/win_evtlog.py): a subscription *)
(* for each channel, all of them feeding one bounded queue, and a          *)
(* composite checkpoint that keeps a bookmark for each channel.            *)
(*                                                                         *)
(* An entry is its place in its channel and a bookmark is the entry it     *)
(* names; 0, the explicit oldest-record marker, is the bookmark of an      *)
(* empty channel.  Malformed is what an entry says that cannot be parsed;  *)
(* of others it matters only whether they are equal.  An adapter's start,  *)
(* its callbacks and its drain exclude each other by the queue's lock, or  *)
(* run on the daemon's thread.                                             *)
(***************************************************************************)
EXTENDS Integers, Sequences, FiniteSets

LOCAL INSTANCE Functions

CONSTANTS Channel, Text, Malformed, QueueMax, DrainBudget,
          MaxLog,       \* bound: entries the channels get together
          MaxFailures,  \* bound: subscriptions that fail
          MaxRestarts   \* bound: deaths of the daemon, and commits that meet a
                        \* locked database

VARIABLES
    channel,    \* what was logged on each channel
    sub,        \* _subs, _channel_ok and how far each has delivered
    queue,      \* WindowsEventSource._queue
    committed,  \* WindowsEventSource._committed
    tick,       \* the stage of the tick, EventEngine._last_cursor, the buffers
    db,         \* the events and the cursor in the database
    lost,       \* ghost: entries evicted, from before, forgotten, and those
                \* a locked commit dropped
    known,      \* ghost: channels that were subscribed when a composite was
                \* stored, and those that failed
    faults

vars == <<channel, sub, queue, committed, tick, db, lost, known, faults>>

Place  == 1 .. MaxLog
Absent == -1   \* a composite without this channel
NoCursor == [c \in Channel |-> Absent]
Nothing  == [c \in Channel |-> {}]
Fewer(a, b) == IF a < b THEN a ELSE b

Init ==
    /\ channel = [c \in Channel |-> <<>>]
    /\ sub = [c \in Channel |-> [ok |-> FALSE, sent |-> 0]]
    /\ queue = <<>> /\ committed = NoCursor
    /\ tick = [stage |-> "down", last |-> NoCursor, of |-> Nothing]
    /\ db = [of |-> [c \in Channel |-> [e \in Place |-> 0]],
             cursor |-> NoCursor]
    /\ lost = [evicted |-> Nothing, before |-> Nothing, forgotten |-> Nothing,
               unsaved |-> Nothing]
    /\ known = [begun |-> {}, failed |-> {}]
    /\ faults = [failures |-> 0, restarts |-> 0]
-----------------------------------------------------------------------------
Log ==
    /\ FoldFunction(+, 0, [c \in Channel |-> Len(channel[c])]) < MaxLog
    /\ \E c \in Channel, says \in Text \cup {Malformed} :
         /\ Len(channel[c]) < MaxLog
         /\ channel' = [channel EXCEPT ![c] = Append(@, says)]
    /\ UNCHANGED <<sub, queue, committed, tick, db, lost, known, faults>>

Says(item) == channel[item.last.c][item.last.e]

\* merge_adjacent of _offer_locked: an unreadable record ends a run.
Merges(c, e) ==
    /\ queue # <<>>
    /\ channel[c][e] # Malformed
    /\ Says(queue[Len(queue)]) = channel[c][e]

Alone(c, e) ==
    [of |-> [Nothing EXCEPT ![c] = {e}], last |-> [c |-> c, e |-> e],
     marks |-> [NoCursor EXCEPT ![c] = e]]

OfferMerged(c, e) ==
    /\ Merges(c, e)
    /\ LET newest == queue[Len(queue)]
       IN  queue' = [queue EXCEPT ![Len(queue)] =
                        [of |-> [newest.of EXCEPT ![c] = @ \cup {e}],
                         last |-> [c |-> c, e |-> e],
                         marks |-> [newest.marks EXCEPT ![c] = e]]]
    /\ UNCHANGED lost

OfferNew(c, e) ==
    /\ ~Merges(c, e) /\ Len(queue) < QueueMax
    /\ queue' = Append(queue, Alone(c, e))
    /\ UNCHANGED lost

\* deque(maxlen): the oldest goes, and its bookmarks with it.
OfferEvicting(c, e) ==
    /\ ~Merges(c, e) /\ Len(queue) = QueueMax
    /\ queue' = Append(Tail(queue), Alone(c, e))
    /\ lost' = [lost EXCEPT !.evicted =
                    [d \in Channel |-> @[d] \cup queue[1].of[d]]]

\* The callback of a channel's subscription.
Deliver(c) ==
    /\ sub[c].ok /\ sub[c].sent < Len(channel[c])
    /\ \/ OfferMerged(c, sub[c].sent + 1)
       \/ OfferNew(c, sub[c].sent + 1)
       \/ OfferEvicting(c, sub[c].sent + 1)
    /\ sub' = [sub EXCEPT ![c].sent = @ + 1]
    /\ UNCHANGED <<channel, committed, tick, db, known, faults>>

Fails(channels) ==
    /\ faults.failures + Cardinality(channels) <= MaxFailures
    /\ known' = [known EXCEPT !.failed = @ \cup channels]

\* EvtSubscribeActionError: this channel is silent from now on.
FailLater(c) ==
    /\ sub[c].ok /\ Fails({c})
    /\ sub' = [sub EXCEPT ![c].ok = FALSE]
    /\ faults' = [faults EXCEPT !.failures = @ + 1]
    /\ UNCHANGED <<channel, queue, committed, tick, db, lost>>
-----------------------------------------------------------------------------
\* Mutant: a channel without a bookmark starts with future events and is
\* left out of the composite until its first event is drained.
BoundaryFuture(cursor, c) == cursor[c]

\* What a channel starts with in the composite: its own bookmark, or its
\* tail as _initial_checkpoint finds it.
Boundary(cursor, c) ==
    IF cursor[c] = Absent THEN Len(channel[c]) ELSE cursor[c]

\* A new reader epoch begins with an empty queue.
Leftover == <<>>

\* start: every channel by itself; one that fails drops out of the
\* composite, with the bookmark it may have had.
StartFrom(cursor) ==
    \E bad \in SUBSET Channel :
        /\ Fails(bad)
        /\ faults' = [faults EXCEPT !.failures = @ + Cardinality(bad)]
        /\ queue' = Leftover
        /\ committed' = [c \in Channel |->
                            IF c \in bad THEN Absent ELSE Boundary(cursor, c)]
        /\ sub' = [c \in Channel |->
                    [ok |-> c \notin bad,
                     sent |-> IF c \in bad THEN 0
                              ELSE IF cursor[c] = Absent THEN Len(channel[c])
                              ELSE cursor[c]]]
        /\ LET passed(c) == IF c \notin bad /\ cursor[c] = Absent
                            THEN 1..Len(channel[c]) ELSE {}
           IN  lost' = [lost EXCEPT
                !.before = [c \in Channel |-> @[c] \cup
                    IF c \in known.begun THEN {} ELSE passed(c)],
                !.forgotten = [c \in Channel |-> @[c] \cup
                    IF c \in known.begun THEN passed(c) ELSE {}]]

\* The daemon begins, after a crash or for the first time.
Start ==
    /\ tick.stage = "down"
    /\ StartFrom(db.cursor)
    /\ tick' = [stage |-> "supervise", last |-> db.cursor, of |-> Nothing]
    /\ UNCHANGED <<channel, db>>

Alive == \E c \in Channel : sub[c].ok

\* EventEngine._supervise, when the backoff allows a restart.
Supervise ==
    /\ tick.stage = "supervise"
    /\ \/ Alive /\ UNCHANGED <<sub, queue, committed, lost, known, faults>>
       \/ ~Alive /\ StartFrom(tick.last)
    /\ tick' = [tick EXCEPT !.stage = "drain"]
    /\ UNCHANGED <<channel, db>>

\* drain: only what leaves the queue moves the committed bookmarks.  A
\* composite is given, and later stored, even if nothing was drained.
Drain ==
    /\ tick.stage = "drain"
    /\ LET n == Fewer(Len(queue), DrainBudget)
           marks(c) == {queue[i].marks[c] : i \in 1..n} \cup {committed[c]}
           newest(c) == CHOOSE m \in marks(c) : \A k \in marks(c) : k <= m
           readable(c) == {e \in UNION {queue[i].of[c] : i \in 1..n} :
                            channel[c][e] # Malformed}
       IN  /\ queue' = SubSeq(queue, n + 1, Len(queue))
           /\ committed' = [c \in Channel |-> newest(c)]
           /\ tick' = [stage |-> "commit",
                       last |-> IF committed' = NoCursor THEN tick.last
                                ELSE committed',
                       of |-> [c \in Channel |-> readable(c)]]
    /\ UNCHANGED <<channel, sub, db, lost, known, faults>>

\* commit_tick: the events and the composite in one transaction.
Commit ==
    /\ tick.stage = "commit"
    /\ db' = [of |-> [c \in Channel |-> [e \in Place |-> db.of[c][e]
                        + (IF e \in tick.of[c] THEN 1 ELSE 0)]],
              cursor |-> tick.last]
    /\ known' = [known EXCEPT !.begun = @ \cup
                    {c \in Channel : sub[c].ok /\ tick.last # NoCursor}]
    /\ tick' = [tick EXCEPT !.stage = "supervise", !.of = Nothing]
    /\ UNCHANGED <<channel, sub, queue, committed, lost, faults>>

\* The database is locked: the tick's events and composite are dropped.  The
\* committed bookmarks stay where they are, and the next composite passes the
\* events whether or not anything is drained for it.
CommitLocked ==
    /\ tick.stage = "commit" /\ faults.restarts < MaxRestarts
    /\ faults' = [faults EXCEPT !.restarts = @ + 1]
    /\ lost' = [lost EXCEPT !.unsaved =
                    [c \in Channel |-> @[c] \cup tick.of[c]]]
    /\ tick' = [tick EXCEPT !.stage = "supervise", !.of = Nothing]
    /\ UNCHANGED <<channel, sub, queue, committed, db, known>>

Crash ==
    /\ tick.stage # "down" /\ faults.restarts < MaxRestarts
    /\ faults' = [faults EXCEPT !.restarts = @ + 1]
    /\ tick' = [tick EXCEPT !.stage = "down", !.of = Nothing]
    /\ sub' = [c \in Channel |-> [ok |-> FALSE, sent |-> 0]]
    /\ queue' = <<>> /\ committed' = NoCursor
    /\ UNCHANGED <<channel, db, lost, known>>

Next ==
    \/ Log
    \/ \E c \in Channel : Deliver(c) \/ FailLater(c)
    \/ Start \/ Supervise \/ Drain \/ Commit \/ CommitLocked \/ Crash

Spec == Init /\ [][Next]_vars
-----------------------------------------------------------------------------
(* DM-15, DM-19: up to each stored bookmark every event of its channel is  *)
(* stored, dropped by the full queue, dropped by a commit that met a       *)
(* locked database, unreadable, or from before the channel was first       *)
(* watched; only a channel whose subscription has failed may have lost its *)
(* place.  So it is with siblings drained and crashes between their first  *)
(* events, with runs merged across channels, and with channels that fail   *)
(* alone or together.                                                      *)
BookmarksCover ==
    \A c \in Channel : \A e \in 1..db.cursor[c] :
        \/ db.of[c][e] > 0 \/ channel[c][e] = Malformed
        \/ e \in lost.evicted[c] \cup lost.unsaved[c] \cup lost.before[c]
        \/ c \in known.failed /\ e \in lost.forgotten[c]

(* DM-15: a bookmark resumes exactly: no event is stored twice, however    *)
(* often readers and daemons begin again.                                  *)
ResumesOnce ==
    \A c \in Channel, e \in Place : db.of[c][e] <= 1

=============================================================================
