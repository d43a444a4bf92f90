-------------------------------- MODULE Outbox --------------------------------
(***************************************************************************)
(* Notification delivery: the rows of notifications and                    *)
(* notification_deliveries that a tick commits, and the one background     *)
(* DispatchWorker that claims a row, calls the channel's adapter with no   *)
(* transaction open, and records the outcome; quiet hours and their        *)
(* digest; store faults, crashes, and changes of the configuration.        *)
(*                                                                         *)
(* src/ftmon/store/outbox.py (Outbox, DispatchWorker), the fan-out of      *)
(* TickWriter.commit_tick and DaemonCore._reload_channels.                 *)
(***************************************************************************)
EXTENDS Integers, FiniteSets, Sequences

CONSTANTS
    MaxNote,     \* bound: notification ids
    NChannels,   \* channels, file first, then by name
    Delays,      \* _RETRY_DELAYS; the last one repeats
    Lifetime,    \* _REMOTE_LIFETIME
    RetryAfter,  \* hints a receiver may send, as delays; 0 for none
    QuietTime,   \* the minutes for which QuietHours.active holds
    MaxNow,      \* bound: all later times are one
    MaxTick,     \* bound: the last time a tick commits a notification
    MaxFaults, MaxCrashes, MaxConfigs, \* bounds: how often
    MayDie       \* store faults may be of the kind that ends the worker

ASSUME OutboxAssumption ==
    /\ MaxNote \in Nat \ {0} /\ NChannels \in Nat \ {0}
    /\ Delays \in Seq(Nat \ {0}) /\ Delays # <<>>
    /\ Lifetime \in Nat /\ RetryAfter \subseteq Nat /\ 0 \in RetryAfter
    /\ MaxNow \in Nat /\ MaxTick \in 0..MaxNow /\ QuietTime \subseteq Nat
    /\ MaxFaults \in Nat /\ MaxCrashes \in Nat /\ MaxConfigs \in Nat
    /\ MayDie \in BOOLEAN

Id == 1..MaxNote
Channel == 1..NChannels
File == 1
Row == Id \X Channel

VARIABLES
    now,
    notes,   \* table notifications
    deliv,   \* table notification_deliveries
    config,  \* what a reload last gave the worker: adapters, quiet hours
    worker,  \* the dispatcher thread
    got,     \* how often an adapter returned success for a row
    repeats, \* how many of those were not the first for their row
    faults, crashes, configs  \* for the bounds

vars == <<now, notes, deliv, config, worker, got, repeats, faults, crashes,
          configs>>

NoNote == [created |-> 0, urgent |-> FALSE, used |-> FALSE]
NoDelivery == [state |-> "none", attempts |-> 0, next |-> 0]
Idle == [phase |-> "idle", at |-> 0, conf |-> [adapters |-> {}, quiet |-> FALSE],
         due |-> 0, held |-> {}, claim |-> <<0, 0>>, outcome |-> "none"]
Closed == [Idle EXCEPT !.phase = "closed"]
Dead == [Idle EXCEPT !.phase = "dead"]

AtMost(x, n) == IF x < n THEN x ELSE n
AtLeast(x, n) == IF x > n THEN x ELSE n
Used == {n \in Id : notes[n].used}
(* COALESCE(MAX(id), 0) + 1 *)
NextId == CHOOSE n \in 1..(MaxNote + 1) :
            /\ \A m \in Used : m < n
            /\ n = 1 \/ n - 1 \in Used

-----------------------------------------------------------------------------
(* The daemon *)

(* commit_tick: the notification and a row for every channel it goes to,   *)
(* the mandatory file channel among them.                                  *)
Enqueue(urgent, channels) ==
    /\ NextId < MaxNote /\ now <= MaxTick  \* one id is left for a digest
    /\ File \in channels /\ channels \subseteq config.adapters
    /\ notes' = [notes EXCEPT ![NextId] =
                   [created |-> now, urgent |-> urgent, used |-> TRUE]]
    /\ deliv' = [r \in Row |->
                   IF r[1] = NextId /\ r[2] \in channels
                   THEN [state |-> "pending", attempts |-> 0, next |-> now]
                   ELSE deliv[r]]
    /\ UNCHANGED <<now, config, worker, got, repeats, faults, crashes, configs>>

(* Mutant: a new worker takes over at once. *)
ReconfigureRestarts ==
    /\ configs < MaxConfigs /\ configs' = configs + 1
    /\ \E remote \in SUBSET (Channel \ {File}), quiet \in BOOLEAN :
         config' = [adapters |-> {File} \cup remote, quiet |-> quiet]
    /\ worker' = Closed
    /\ UNCHANGED <<now, notes, deliv, got, repeats, faults, crashes>>
(* _reload_channels and DispatchWorker.reconfigure. *)
Reconfigure ==
    /\ configs < MaxConfigs /\ configs' = configs + 1
    /\ \E remote \in SUBSET (Channel \ {File}), quiet \in BOOLEAN :
         config' = [adapters |-> {File} \cup remote, quiet |-> quiet]
    /\ UNCHANGED <<now, notes, deliv, worker, got, repeats, faults, crashes>>

(* At MaxNow the clock stands, and all that is due later is due Later.     *)
Later == MaxNow + 1

TimePasses ==
    /\ now < MaxNow /\ now' = now + 1
    /\ UNCHANGED <<notes, deliv, config, worker, got, repeats, faults, crashes,
                   configs>>

-----------------------------------------------------------------------------
(* The worker *)

Active(t) == t \in QuietTime

(* Outbox._held, under the worker's snapshot of the configuration. *)
Held(conf, n) == conf.quiet /\ ~notes[n].urgent /\ Active(notes[n].created)

Pending == {r \in Row : deliv[r].state = "pending"}

(* Mutant: reconnecting forgets the rows that were in flight. *)
OpenWithoutReset ==
    /\ worker.phase = "closed" /\ worker' = Idle /\ UNCHANGED deliv
    /\ UNCHANGED <<now, notes, config, got, repeats, faults, crashes, configs>>
(* Mutant: the reset takes everything back that is not pending. *)
OpenResetsSettled ==
    /\ worker.phase = "closed" /\ worker' = Idle
    /\ deliv' = [r \in Row |-> IF deliv[r].state \in {"sending", "delivered"}
                               THEN [deliv[r] EXCEPT !.state = "pending"]
                               ELSE deliv[r]]
    /\ UNCHANGED <<now, notes, config, got, repeats, faults, crashes, configs>>

(* _open: connect, migrate, and reset_inflight. *)
Open ==
    /\ worker.phase = "closed" /\ worker' = Idle
    /\ deliv' = [r \in Row |-> IF deliv[r].state = "sending"
                               THEN [deliv[r] EXCEPT !.state = "pending"]
                               ELSE deliv[r]]
    /\ UNCHANGED <<now, notes, config, got, repeats, faults, crashes, configs>>

DueAt(t, d) == {r \in Row : d[r].state = "pending" /\ d[r].next <= t}

(* The notifications _materialize_digest selects, before its transaction.  *)
ToFold(conf, t) ==
    IF ~conf.quiet \/ Active(t) THEN {}
    ELSE {n \in Id : Held(conf, n) /\ \E c \in Channel : <<n, c>> \in Pending}

(* _drain takes a snapshot of the configuration, flush of the clock.       *)
StartFlush ==
    /\ worker.phase = "idle"
    /\ worker' = [Idle EXCEPT
         !.phase = IF ToFold(config, now) = {} THEN "flushing" ELSE "digest",
         !.at = now, !.conf = config, !.held = ToFold(config, now),
         !.due = IF ToFold(config, now) = {}
                 THEN Cardinality(DueAt(now, deliv)) ELSE 0]
    /\ UNCHANGED <<now, notes, deliv, config, got, repeats, faults, crashes,
                   configs>>

Foldable == {r \in Pending : r[1] \in worker.held}

(* Mutant: the digest goes to the file only. *)
FoldChannelsFileOnly == {File}
FoldChannels == {c \in Channel : \E r \in Foldable : r[2] = c}

(* The transaction of _materialize_digest: the held rows are settled and   *)
(* one digest is owed on every channel that was owed one of them.          *)
MakeDigest ==
    /\ worker.phase = "digest" /\ NextId <= MaxNote
    /\ notes' = [notes EXCEPT ![NextId] =
                   [created |-> worker.at, urgent |-> FALSE, used |-> TRUE]]
    /\ deliv' = [r \in Row |->
         IF r[1] = NextId /\ r[2] \in FoldChannels
         THEN [state |-> "pending", attempts |-> 0, next |-> worker.at]
         ELSE IF r \in Foldable
         THEN [deliv[r] EXCEPT !.state = "delivered", !.next = 0]
         ELSE deliv[r]]
    /\ worker' = [worker EXCEPT !.phase = "flushing", !.held = {},
                                !.due = Cardinality(DueAt(worker.at, deliv'))]
    /\ UNCHANGED <<now, config, got, repeats, faults, crashes, configs>>

(* What is due and not held. *)
Claimable == {r \in DueAt(worker.at, deliv) : ~Held(worker.conf, r[1])}

(* created_ts, id, file first, channel *)
Before(r, s) ==
    \/ notes[r[1]].created < notes[s[1]].created
    \/ notes[r[1]].created = notes[s[1]].created
       /\ (r[1] < s[1] \/ (r[1] = s[1] /\ r[2] <= s[2]))

(* _claim_one and, without an adapter, its outcome.                        *)
Claim(r) ==
    /\ worker.phase = "flushing" /\ worker.due > 0
    /\ r \in Claimable /\ \A s \in Claimable : Before(r, s)
    /\ deliv' = [deliv EXCEPT ![r].state = "sending",
                              ![r].attempts = AtMost(@ + 1, Len(Delays))]
    /\ worker' = IF r[2] \in worker.conf.adapters
                 THEN [worker EXCEPT !.phase = "sending", !.due = @ - 1,
                                     !.claim = r]
                 ELSE [worker EXCEPT !.phase = "marking", !.due = @ - 1,
                                     !.claim = r, !.outcome = "permanent"]
    /\ UNCHANGED <<now, notes, config, got, repeats, faults, crashes, configs>>

(* The flush is over and the worker waits; when the clock stands, until    *)
(* what is due Later is due.                                               *)
EndFlush ==
    /\ worker.phase = "flushing" /\ (worker.due = 0 \/ Claimable = {})
    /\ worker' = Idle
    /\ deliv' = IF worker.at < MaxNow THEN deliv
                ELSE [r \in Row |-> [deliv[r] EXCEPT !.next = AtMost(@, MaxNow)]]
    /\ UNCHANGED <<now, notes, config, got, repeats, faults, crashes, configs>>

(* _deliver: what the adapter may answer.  The file adapter has no         *)
(* permanent failure.                                                      *)
Send(outcome) ==
    /\ worker.phase = "sending"
    /\ outcome = "permanent" => worker.claim[2] # File
    /\ worker' = [worker EXCEPT !.phase = "marking", !.outcome = outcome]
    /\ got' = IF outcome = "success" THEN [got EXCEPT ![worker.claim] = @ + 1]
              ELSE got
    /\ repeats' = IF outcome = "success" /\ got[worker.claim] > 0
                  THEN repeats + 1 ELSE repeats
    /\ UNCHANGED <<now, notes, deliv, config, faults, crashes, configs>>

Marked(row) ==
    /\ worker.phase = "marking"
    /\ deliv' = [deliv EXCEPT ![worker.claim] = row]
    /\ worker' = [worker EXCEPT !.phase = "flushing", !.claim = <<0, 0>>,
                                !.outcome = "none"]
    /\ UNCHANGED <<now, notes, config, got, repeats, faults, crashes, configs>>

Claimed == deliv[worker.claim]

MarkDelivered ==
    /\ worker.outcome = "success"
    /\ Marked([Claimed EXCEPT !.state = "delivered", !.next = 0])

NextAttempt(hint) ==
    AtLeast(worker.at + Delays[Claimed.attempts],
            IF hint = 0 THEN 0 ELSE worker.at + hint)

(* Mutant: nothing expires. *)
NeverExpired(hint) == FALSE
(* NO-07: a remote delivery is not retried past its lifetime.              *)
Expired(hint) ==
    worker.claim[2] # File
    /\ NextAttempt(hint) > notes[worker.claim[1]].created + Lifetime

MarkFailed ==
    /\ \/ worker.outcome = "permanent"
       \/ worker.outcome = "retry" /\ \E hint \in RetryAfter : Expired(hint)
    /\ Marked([Claimed EXCEPT !.state = "failed", !.next = 0])

MarkRetry ==
    /\ worker.outcome = "retry"
    /\ \E hint \in RetryAfter :
         /\ ~Expired(hint)
         /\ Marked([Claimed EXCEPT !.state = "pending",
                                   !.next = AtMost(NextAttempt(hint), Later)])

(* PM-12: any access to the store may fail.  The worker closes its         *)
(* connection and opens another, or ends if waiting would not help.        *)
StoreFault ==
    /\ worker.phase \in {"closed", "idle", "digest", "flushing", "marking"}
    /\ faults < MaxFaults /\ faults' = faults + 1
    /\ worker' = Closed \/ (MayDie /\ worker' = Dead)
    /\ UNCHANGED <<now, notes, deliv, config, got, repeats, crashes, configs>>

(* The process dies and is started again. *)
Crash ==
    /\ crashes < MaxCrashes /\ crashes' = crashes + 1
    /\ worker' = Closed
    /\ UNCHANGED <<now, notes, deliv, config, got, repeats, faults, configs>>

Init ==
    /\ now = 0 /\ notes = [n \in Id |-> NoNote]
    /\ deliv = [r \in Row |-> NoDelivery]
    /\ config = [adapters |-> Channel, quiet |-> TRUE]
    /\ worker = Closed /\ got = [r \in Row |-> 0] /\ repeats = 0
    /\ faults = 0 /\ crashes = 0 /\ configs = 0

Outcome == {"success", "retry", "permanent"}

Next ==
    \/ (\E urgent \in BOOLEAN, cs \in SUBSET Channel : Enqueue(urgent, cs))
    \/ Reconfigure \/ TimePasses
    \/ Open \/ StartFlush \/ MakeDigest \/ (\E r \in Row : Claim(r)) \/ EndFlush
    \/ (\E outcome \in Outcome : Send(outcome))
    \/ MarkDelivered \/ MarkFailed \/ MarkRetry
    \/ StoreFault \/ Crash

Spec == Init /\ [][Next]_vars
-----------------------------------------------------------------------------
(* Properties *)

Conf == [adapters : SUBSET Channel, quiet : BOOLEAN]

NoteRow == [created : 0..MaxNow, urgent : BOOLEAN, used : BOOLEAN]
DeliveryRow == [state : {"none", "pending", "sending", "delivered", "failed"},
                attempts : 0..Len(Delays), next : 0..Later]
WorkerState == [phase : {"closed", "idle", "digest", "flushing", "sending",
                         "marking", "dead"},
                at : 0..MaxNow, conf : Conf, due : Nat, held : SUBSET Id,
                claim : Row \cup {<<0, 0>>}, outcome : Outcome \cup {"none"}]

(* Every variable keeps its shape across faults, crashes and reloads; a    *)
(* flush claims no more than it counted.                                   *)
TypeOK ==
    /\ now \in 0..MaxNow
    /\ notes \in [Id -> NoteRow]
    /\ deliv \in [Row -> DeliveryRow]
    /\ config \in Conf
    /\ worker \in WorkerState
    /\ got \in [Row -> Nat] /\ repeats \in Nat
    /\ faults \in Nat /\ crashes \in Nat /\ configs \in Nat

(* PM-12, NO-04: whatever failed in between, at most one row is claimed,   *)
(* and while the worker is at an adapter it is the worker's row.           *)
OneInFlight ==
    /\ \A r, s \in Row :
         deliv[r].state = "sending" /\ deliv[s].state = "sending" => r = s
    /\ worker.phase \in {"sending", "marking"} =>
         deliv[worker.claim].state = "sending"

(* NO-04: a delivery is repeated at most once for each death of the        *)
(* process or fault of the store, over all deliveries together.            *)
BoundedRepeats == repeats <= faults + crashes

(* DM-18: a delivered or failed row is never sent or changed again, by a   *)
(* reset, a digest, another channel or a new configuration.                *)
SettledIsFinal ==
    [][\A r \in Row : deliv[r].state \in {"delivered", "failed"} =>
          deliv'[r] = deliv[r] /\ got'[r] = got[r]]_vars

(* NO-07: whatever happens to the other channels and however long the      *)
(* file is not writable, the local audit is still owed or done.            *)
FileNeverFails == \A n \in Id : deliv[<<n, File>>].state # "failed"

(* The outbox keeps the promises of Obligations.                           *)
DutyOf(r) ==
    CASE deliv[r].state = "none" -> "none"
      [] deliv[r].state \in {"pending", "sending"} -> "owed"
      [] deliv[r].state = "failed" -> "failed"
      [] deliv[r].state = "delivered" /\ got[r] > 0 -> "done"
      [] OTHER -> "folded"
ChannelOf(r) == r[2]

Promise == INSTANCE Obligations WITH
    Delivery <- Row, duty <- [r \in Row |-> DutyOf(r)]

(* NO-03, NO-04, NO-07: nothing is marked delivered that no adapter        *)
(* accepted, unless a digest owed on the same channel replaced it.         *)
KeepsPromises == Promise!Spec

-----------------------------------------------------------------------------
(* The worker thread runs and the clock advances. *)
Work ==
    \/ Open \/ StartFlush \/ MakeDigest \/ (\E r \in Row : Claim(r)) \/ EndFlush
    \/ (\E outcome \in Outcome : Send(outcome))
    \/ MarkDelivered \/ MarkFailed \/ MarkRetry

FairSpec == Spec /\ WF_vars(Work) /\ WF_vars(TimePasses)

(* NO-04, NO-07: while the worker lives, a remote delivery is settled in   *)
(* the end, whatever the receiver answers and whatever faults the worker   *)
(* recovers from (of those whose lifetime ends before the clock stands).   *)
RemoteIsSettled ==
    [](worker.phase # "dead") =>
      \A r \in Row :
        (/\ r[2] # File /\ deliv[r].state = "pending"
         /\ notes[r[1]].created + Lifetime <= MaxNow)
        ~> (deliv[r].state \in {"delivered", "failed"})

FileSucceeds ==
    worker.phase = "sending" /\ worker'.phase = "marking"
      /\ worker.claim[2] = File
    => worker'.outcome = "success"

(* NO-04: while the worker lives, and once the file can be written, every  *)
(* notification reaches it.                                                *)
FileIsWritten ==
    ([](worker.phase # "dead") /\ <>[][FileSucceeds]_vars) =>
      \A n \in Id : (deliv[<<n, File>>].state = "pending")
                    ~> (deliv[<<n, File>>].state = "delivered")
=============================================================================
