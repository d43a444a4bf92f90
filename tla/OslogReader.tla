---------------------------- MODULE OslogReader ----------------------------
(***************************************************************************)
(* Events of the macOS unified log (sources/oslog.py).  That log has no    *)
(* bookmark: a checkpoint is the source time of the newest drained event   *)
(* and the identities of the newest ones.  A reader that starts replays    *)
(* with `log show` from some seconds before that time, passes over the     *)
(* identities it knows, and goes on with `log stream`.                     *)
(*                                                                         *)
(* An entry is its place in the log; its identity is the entry itself, and *)
(* that of a gap report a negative number.  Times count fractions of a     *)
(* second, Second of them each, for `--start` takes whole seconds only.    *)
(* Two equal texts stand for a canonical signature that merges.            *)
(***************************************************************************)
EXTENDS Integers, Sequences, FiniteSets

CONSTANTS Text, QueueMax, DrainBudget,
          IdentityMax,  \* IDENTITY_MAX
          Overlap,      \* REPLAY_OVERLAP_S
          Second,
          Steps,        \* how much later than the last an entry may be
          MaxLog,       \* bound: entries the log gets
          MaxPurged,    \* bound: entries its retention removes
          MaxFaults     \* bound: deaths of `log` and of the daemon, commits
                        \* that meet a locked database

VARIABLES
    log,     \* Seq([at, says])
    purged,  \* so many of its first entries are no longer retained
    reader,  \* the thread and its subprocess
    source,  \* the fields of MacOSLogEventSource
    tick,    \* how far the tick is, EventEngine._last_cursor, the buffers
    db,      \* events, gap reports and checkpoint in the database
    lost,    \* ghost: entries evicted, missed, skipped, and what a locked
             \* commit dropped: entries unsaved and gap reports untold
    faults

vars == <<log, purged, reader, source, tick, db, lost, faults>>

Entry     == 1 .. MaxLog
NoTime    == -1
LastSeq   == 2 * MaxLog + 1
NoCursor  == [wm |-> 0, ids |-> <<>>]
Nothing   == [of |-> {}, gaps |-> {}, cursor |-> NoCursor]
Later(a, b) == IF a < b THEN b ELSE a
Fewer(a, b) == IF a < b THEN a ELSE b

Elements(s) == {s[i] : i \in 1..Len(s)}

\* deque(maxlen = IDENTITY_MAX)
Bounded(s, x) == Append(IF Len(s) = IdentityMax THEN Tail(s) ELSE s, x)

\* max(0, int(watermark) - REPLAY_OVERLAP_S)
ReplayFrom(wm) == Later(0, (wm - (wm % Second)) - Overlap)

Init ==
    /\ log = <<>> /\ purged = 0
    /\ reader = [stage |-> "hand", read |-> 0, wm |-> 0, first |-> NoTime]
    /\ source = [queue |-> <<>>, pending |-> <<>>, committed |-> <<>>,
                 watermark |-> 0]
    /\ tick = [stage |-> "supervise", last |-> NoCursor, batch |-> Nothing]
    /\ db = [of |-> [e \in Entry |-> 0], gaps |-> {}, cursor |-> NoCursor]
    /\ lost = [evicted |-> {}, missed |-> {}, skipped |-> {}, unsaved |-> {},
               untold |-> {}]
    /\ faults = 0
-----------------------------------------------------------------------------
(* The log (external) *)

Log ==
    /\ Len(log) < MaxLog
    /\ \E says \in Text, step \in Steps :
         log' = Append(log, [at |-> step + (IF log = <<>> THEN Second
                                            ELSE log[Len(log)].at),
                             says |-> says])
    /\ UNCHANGED <<purged, reader, source, tick, db, lost, faults>>

Purge ==
    /\ purged < Fewer(MaxPurged, Len(log))
    /\ purged' = purged + 1
    /\ UNCHANGED <<log, reader, source, tick, db, lost, faults>>
-----------------------------------------------------------------------------
(* The queue *)

Known(id) ==
    \/ \E i \in 1..Len(source.queue) : source.queue[i].id = id
    \/ \E i \in 1..Len(source.pending) : source.pending[i].id = id
    \/ \E i \in 1..Len(source.committed) : source.committed[i].id = id

\* merge_adjacent with the newest item; a gap report has another origin.
Merges(e) ==
    /\ source.queue # <<>>
    /\ LET last == source.queue[Len(source.queue)]
       IN  last.id > 0 /\ log[last.id].says = log[e].says

Full == Len(source.queue) = QueueMax
Room == IF Full THEN Tail(source.queue) ELSE source.queue
Evict == IF Full THEN [lost EXCEPT !.evicted = @ \cup source.queue[1].of]
         ELSE lost

\* _offer of an identity that is not known.  A run is named by its first
\* entry; the sequence numbers of the code order as seq does.
OfferMerged(e) ==
    LET n == Len(source.queue)
        last == source.queue[n]
        item == [last EXCEPT !.of = @ \cup {e}, !.id = e, !.seq = 2 * e,
                             !.at = log[e].at]
    IN  /\ source' = [source EXCEPT
            !.queue[n] = item,
            !.pending = Bounded(@, [run |-> last.run, at |-> log[e].at,
                                    id |-> e])]
        /\ UNCHANGED lost

OfferNew(e) ==
    /\ source' = [source EXCEPT
            !.queue = Append(Room, [of |-> {e}, id |-> e, seq |-> 2 * e,
                                    run |-> 2 * e, at |-> log[e].at,
                                    gap |-> <<>>]),
            !.pending = Bounded(@, [run |-> 2 * e, at |-> log[e].at, id |-> e])]
    /\ lost' = Evict

Offer(e) ==
    IF Known(e) THEN UNCHANGED <<source, lost>>
    ELSE IF Merges(e) THEN OfferMerged(e) ELSE OfferNew(e)

GapId(from, to) == -(from * 1000 + to)

\* _enqueue_gap: at the head, after the oldest item has made room.
EnqueueGap ==
    IF reader.first > reader.wm /\ ~Known(GapId(reader.wm, reader.first))
    THEN /\ source' = [source EXCEPT !.queue =
                <<[of |-> {}, id |-> GapId(reader.wm, reader.first),
                   seq |-> 2 * reader.read + 1, run |-> 2 * reader.read + 1,
                   at |-> reader.first,
                   gap |-> <<reader.wm, reader.first>>]>> \o Room]
         /\ lost' = Evict
    ELSE UNCHANGED <<source, lost>>
-----------------------------------------------------------------------------
(* The reader thread *)

\* The log is in the order of time.
EntriesBefore(t) ==
    CHOOSE n \in 0..Len(log) : \A e \in 1..Len(log) : log[e].at < t <=> e <= n

\* start and the beginning of _run: what was queued is forgotten.
StartAt(c) ==
    /\ reader' = [stage |-> IF c.wm = 0 THEN "hand" ELSE "show",
                  read |-> EntriesBefore(ReplayFrom(c.wm)),
                  wm |-> c.wm, first |-> NoTime]
    /\ source' = [queue |-> <<>>, pending |-> <<>>, committed |-> c.ids,
                  watermark |-> c.wm]

\* first_ts of _consume
FirstSeen(e) == IF reader.first = NoTime THEN log[e].at ELSE reader.first

NextRetained == Later(reader.read, purged) + 1

\* A line of `log show`.
ReadShow ==
    /\ reader.stage = "show" /\ NextRetained <= Len(log)
    /\ Offer(NextRetained)
    /\ reader' = [reader EXCEPT !.read = NextRetained,
                                !.first = FirstSeen(NextRetained)]
    /\ UNCHANGED <<log, purged, tick, db, faults>>

\* `log show` has nothing more to write.
EndShow ==
    /\ reader.stage = "show" /\ NextRetained > Len(log)
    /\ EnqueueGap
    /\ reader' = [reader EXCEPT !.stage = "hand", !.read = Len(log)]
    /\ UNCHANGED <<log, purged, tick, db, faults>>

\* It fails: nobody has waited for it, so its return code is None, and that
\* passes for success.
BreakShow ==
    /\ reader.stage = "show" /\ NextRetained <= Len(log)
    /\ faults < MaxFaults /\ faults' = faults + 1
    /\ EnqueueGap
    /\ reader' = [reader EXCEPT !.stage = "hand"]
    /\ UNCHANGED <<log, purged, tick, db>>

\* `log stream` tails what is logged from now on.
StartStream ==
    /\ reader.stage = "hand"
    /\ reader' = [reader EXCEPT !.stage = "stream", !.read = Len(log)]
    /\ LET between == reader.read + 1 .. Len(log)
       IN  lost' = IF reader.wm = 0
                   THEN [lost EXCEPT !.skipped = @ \cup between]
                   ELSE [lost EXCEPT !.missed = @ \cup between]
    /\ UNCHANGED <<log, purged, source, tick, db, faults>>

ReadStream ==
    /\ reader.stage = "stream" /\ reader.read < Len(log)
    /\ Offer(reader.read + 1)
    /\ reader' = [reader EXCEPT !.read = @ + 1]
    /\ UNCHANGED <<log, purged, tick, db, faults>>

\* A subprocess that cannot be started, or a stream that ends.
Die ==
    /\ reader.stage \in {"show", "hand", "stream"}
    /\ reader.stage = "show" => reader.first = NoTime
    /\ faults < MaxFaults /\ faults' = faults + 1
    /\ reader' = [reader EXCEPT !.stage = "dead"]
    /\ UNCHANGED <<log, purged, source, tick, db, lost>>
-----------------------------------------------------------------------------
(* The tick *)

\* EventEngine._supervise, when the backoff allows a restart.
Supervise ==
    /\ tick.stage = "supervise"
    /\ \/ reader.stage # "dead" /\ UNCHANGED <<reader, source>>
       \/ reader.stage = "dead" /\ StartAt(tick.last)
    /\ tick' = [tick EXCEPT !.stage = "drain"]
    /\ UNCHANGED <<log, purged, db, lost, faults>>

\* Mutant: of a merged run only the newest identity is committed.
CandidatesNewest(items) == {[seq |-> q.seq, at |-> q.at, id |-> q.id] : q \in items}

\* The identities of the drained runs that are still remembered, and those
\* of the items themselves.
Candidates(items) ==
    LET runs == {q.run : q \in items}
        kept == {[seq |-> 2 * source.pending[i].id, at |-> source.pending[i].at,
                  id |-> source.pending[i].id] :
                    i \in {j \in 1..Len(source.pending) :
                            source.pending[j].run \in runs}}
    IN  kept \cup {[seq |-> q.seq, at |-> q.at, id |-> q.id] :
                    q \in {p \in items : \A k \in kept : k.id # p.id}}

\* One more sequence number, whoever has it.
Remember(committed, rs) ==
    IF rs = {} THEN committed
    ELSE LET r == CHOOSE r \in rs : TRUE
         IN  Bounded(committed, [at |-> r.at, id |-> r.id])

\* _remember_committed_locked for each, in the order of their numbers.
Remembered(committed, rs) ==
    LET numbered == [k \in 1..LastSeq |-> {r \in rs : r.seq = k}]
        upto[k \in 0..LastSeq] ==
            IF k = 0 THEN committed
            ELSE Remember(upto[k - 1], numbered[k])
    IN  upto[LastSeq]

\* What of a deque is in S.
Kept(s, S) ==
    LET upto[i \in 0..Len(s)] ==
            IF i = 0 THEN <<>>
            ELSE IF s[i] \in S THEN Append(upto[i - 1], s[i]) ELSE upto[i - 1]
    IN  upto[Len(s)]

\* _encode_checkpoint
Encoded(wm, committed) ==
    [wm |-> wm,
     ids |-> Kept(committed, {c \in Elements(committed) : c.at >= wm - Overlap})]

Newest(wm, items) ==
    LET times == {wm} \cup {q.at : q \in items}
    IN  CHOOSE t \in times : \A u \in times : u <= t

Watermark(items) == Newest(source.watermark, items)

\* drain and _commit_drained_identities_locked, all with the lock held; then
\* EventEngine.tick buffers what came and notes the cursor.
Drain ==
    /\ tick.stage = "drain"
    /\ LET n == Fewer(Len(source.queue), DrainBudget)
           items == {source.queue[i] : i \in 1..n}
           runs  == {q.run : q \in items}
           committed == Remembered(source.committed, Candidates(items))
           wm == Watermark(items)
           c  == Encoded(wm, committed)
       IN  IF n = 0
           THEN /\ tick' = [tick EXCEPT !.stage = "commit"]
                /\ UNCHANGED source
           ELSE /\ source' = [queue |-> SubSeq(source.queue, n + 1,
                                               Len(source.queue)),
                              pending |-> Kept(source.pending,
                                            {p \in Elements(source.pending) :
                                                p.run \notin runs}),
                              committed |-> committed, watermark |-> wm]
                /\ tick' = [stage |-> "commit", last |-> c,
                            batch |-> [of |-> UNION {q.of : q \in items},
                                       gaps |-> {q.gap : q \in items} \ {<<>>},
                                       cursor |-> c]]
    /\ UNCHANGED <<log, purged, reader, db, lost, faults>>

\* commit_tick
Commit ==
    /\ tick.stage = "commit"
    /\ db' = IF tick.batch.cursor = NoCursor THEN db
             ELSE [of |-> [e \in Entry |-> db.of[e]
                            + (IF e \in tick.batch.of THEN 1 ELSE 0)],
                   gaps |-> db.gaps \cup tick.batch.gaps,
                   cursor |-> tick.batch.cursor]
    /\ tick' = [tick EXCEPT !.stage = "supervise", !.batch = Nothing]
    /\ UNCHANGED <<log, purged, reader, source, lost, faults>>

\* The database is locked: the tick's events, reports and checkpoint are
\* dropped.  The adapter goes on as if it had committed them, and the
\* checkpoint of the next tick that drains something passes them.
CommitLocked ==
    /\ tick.stage = "commit"
    /\ faults < MaxFaults /\ faults' = faults + 1
    /\ lost' = [lost EXCEPT !.unsaved = @ \cup tick.batch.of,
                            !.untold = @ \cup tick.batch.gaps]
    /\ tick' = [tick EXCEPT !.stage = "supervise", !.batch = Nothing]
    /\ UNCHANGED <<log, purged, reader, source, db>>

\* The daemon dies, its successor starts from the database.
Restart ==
    /\ faults < MaxFaults /\ faults' = faults + 1
    /\ StartAt(db.cursor)
    /\ tick' = [stage |-> "supervise", last |-> db.cursor, batch |-> Nothing]
    /\ UNCHANGED <<log, purged, db, lost>>

Next ==
    \/ Log \/ Purge
    \/ ReadShow \/ EndShow \/ BreakShow \/ StartStream \/ ReadStream \/ Die
    \/ Supervise \/ Drain \/ Commit \/ CommitLocked \/ Restart

Spec == Init /\ [][Next]_vars
-----------------------------------------------------------------------------
Checkpointed(e) == \E i \in 1..Len(db.cursor.ids) : db.cursor.ids[i].id = e

\* What a successor that starts from the stored checkpoint would accept.
Replayable(e) ==
    log[e].at >= ReplayFrom(db.cursor.wm) /\ ~Checkpointed(e)

Behind == {e \in 1..Len(log) : log[e].at <= db.cursor.wm}

\* Stored, still to be replayed, or lost where the adapter says so.
Answered(e) ==
    \/ db.of[e] > 0 \/ Replayable(e)
    \/ e <= purged
    \/ e \in lost.evicted \cup lost.skipped \cup lost.unsaved

(* DM-15: the checkpoint names nothing that is not durably accepted: what  *)
(* is not later than it is stored, or would be accepted from a replay, or  *)
(* is lost in one of the named ways: dropped by the full queue, drained in *)
(* a tick whose commit met a locked database (the adapter's own checkpoint *)
(* stays ahead, and the next one that is stored passes the event), logged  *)
(* before the first reader, expired in the log, or logged between the end  *)
(* (or the failure) of `log show` and the begin of `log stream`.           *)
ReplayCovers == \A e \in Behind : Answered(e) \/ e \in lost.missed

(* DM-15: the overlap is deduplicated: a stored event waits in the queue   *)
(* again only if it is older than the overlap of the checkpoint it was     *)
(* replayed from, or if more entries of the log, and gap reports, compete  *)
(* for the identities that are kept: those a replay from its own time      *)
(* would give, as older ones that come again are remembered after it and   *)
(* outlast it.  Merged runs, dropped runs, locked commits and crashes      *)
(* between drain and commit notwithstanding.                               *)
RepeatsAreOld ==
    \A i \in 1..Len(source.queue), e \in Entry :
        e \in source.queue[i].of /\ db.of[e] > 0 =>
            \/ log[e].at < reader.wm - Overlap
            \/ Cardinality({x \in 1..Len(log) :
                              log[x].at >= ReplayFrom(log[e].at)})
                 + Cardinality(db.gaps \cup lost.untold) > IdentityMax

(* DM-15: a gap is reported only where the log really has one: of the      *)
(* entries between the checkpoint and the first replayed one none is left, *)
(* nor the one the checkpoint was taken from.                              *)
GapsAreReal ==
    \A g \in db.gaps \cup {source.queue[i].gap : i \in 1..Len(source.queue)} :
        g # <<>> =>
            \A e \in 1..Len(log) :
                g[1] <= log[e].at /\ log[e].at < g[2] => e <= purged

(* DM-15: the overlap includes the handoff from `log show` to              *)
(* `log stream`: no event that falls between the two is behind the         *)
(* checkpoint without being stored or replayable.                          *)
HandoffCovers == \A e \in Behind : Answered(e)
=============================================================================
