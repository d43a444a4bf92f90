---------------------------- MODULE Outbox_proofs ----------------------------
(***************************************************************************)
(* Theorems about delivery, for any number of notifications, channels,     *)
(* retry delays, faults, crashes and reconfigurations: at most one row is  *)
(* in flight, every repeat is paid for by a fault or a crash, the file is  *)
(* never given up, what is settled stays so, and the outbox implements     *)
(* Obligations.                                                            *)
(***************************************************************************)
EXTENDS Outbox, FiniteSetTheorems, WellFoundedInduction, TLAPS

(* Nothing exists of an id that is not used. *)
RowsHaveNotes ==
    \A r \in Row : /\ deliv[r].state # "none" => notes[r[1]].used
                   /\ deliv[r].state = "none" => got[r] = 0

(* A claim is counted, and what is settled has no next attempt.            *)
RowsAreMarked ==
    \A r \in Row :
      /\ deliv[r].state = "sending" => deliv[r].attempts > 0
      /\ deliv[r].state \in {"delivered", "failed"} => deliv[r].next = 0

(* Only the worker's row is in flight, or the one that it left behind when *)
(* its connection closed.                                                  *)
Flying ==
    /\ \A r, s \in Row :
         deliv[r].state = "sending" /\ deliv[s].state = "sending" => r = s
    /\ worker.phase \in {"sending", "marking"} =>
         worker.claim \in Row /\ deliv[worker.claim].state = "sending"
    /\ worker.phase \in {"idle", "digest", "flushing"} =>
         \A r \in Row : deliv[r].state # "sending"

FileIsServed ==
    /\ File \in config.adapters
    /\ worker.phase \in {"digest", "flushing", "sending", "marking"} =>
         File \in worker.conf.adapters
    /\ worker.phase = "marking" /\ worker.claim[2] = File =>
         worker.outcome # "permanent"

Answered(r) ==
    worker.phase = "marking" /\ worker.claim = r /\ worker.outcome = "success"

AnswersCount == \A r \in Row : Answered(r) => got[r] > 0

(* What was accepted once and will be sent again. *)
Repeatable ==
    {r \in Row : /\ got[r] > 0 /\ deliv[r].state \in {"pending", "sending"}
                 /\ ~Answered(r)}

(* Every fault or crash pays for one repeat, made or still to come.        *)
Budget == repeats + Cardinality(Repeatable) <= faults + crashes

IInv ==
    /\ TypeOK /\ RowsHaveNotes /\ RowsAreMarked /\ Flying /\ FileIsServed
    /\ AnswersCount /\ FileNeverFails /\ Budget
-----------------------------------------------------------------------------
(* Lemmas *)

LEMMA RowsAreFinite ==
    ASSUME NEW S \in SUBSET Row
    PROVE  IsFiniteSet(S) /\ Cardinality(S) \in Nat
<1>1. MaxNote \in Int /\ NChannels \in Int
  BY OutboxAssumption
<1>2. IsFiniteSet(Id) /\ IsFiniteSet(Channel)
  BY <1>1, FS_Interval DEF Id, Channel
<1>3. IsFiniteSet(Row)
  BY <1>2, FS_Product DEF Row
<1>4. IsFiniteSet(S)
  BY <1>3, FS_Subset
<1> QED
  BY <1>4, FS_CardinalityType

(* MAX(id) + 1 is above every id in use. *)
LEMMA NextIdIsFree ==
    ASSUME notes \in [Id -> NoteRow]
    PROVE  NextId \in 1..(MaxNote + 1) /\ \A m \in Used : m < NextId
<1>1. MaxNote \in Nat
  BY OutboxAssumption
<1>2. Used \in SUBSET (1..MaxNote)
  BY DEF Used, Id
<1> DEFINE U == {n \in 1..(MaxNote + 1) : \A m \in Used : m < n}
<1>3. U # {} /\ U \in SUBSET Nat
  <2>1. MaxNote + 1 \in U
    BY <1>1, <1>2
  <2> QED
    BY <2>1
<1>4. PICK x \in U : \A y \in U : ~(<<y, x>> \in OpToRel(<, Nat))
  BY <1>3, WFMin, NatLessThanWellFounded
<1>5. ASSUME x # 1 PROVE x - 1 \in Used
  <2>1. x \in Nat /\ x > 1
    BY <1>5
  <2>2. x - 1 \notin U
    <3>1. SUFFICES ASSUME x - 1 \in U PROVE FALSE
      OBVIOUS
    <3>2. <<x - 1, x>> \notin {ss \in Nat \X Nat : ss[1] < ss[2]}
      BY <1>4, <3>1 DEF OpToRel
    <3> QED
      BY <2>1, <3>2
  <2>3. PICK m \in Used : ~(m < x - 1)
    BY <2>1, <2>2, <1>1
  <2>4. m < x /\ m \in Nat
    BY <1>2
  <2>5. m = x - 1
    BY <2>1, <2>3, <2>4
  <2> QED
    BY <2>3, <2>5
<1>6. /\ \A m \in Used : m < x
      /\ x = 1 \/ x - 1 \in Used
  BY <1>5
<1>7. \E n \in 1..(MaxNote + 1) :
         /\ \A m \in Used : m < n
         /\ n = 1 \/ n - 1 \in Used
  BY <1>6
<1> QED
  BY <1>7 DEF NextId

(* No row exists of the next id. *)
LEMMA NextIdHasNoRows ==
    ASSUME TypeOK, RowsHaveNotes, NEW r \in Row, r[1] = NextId
    PROVE  deliv[r].state = "none" /\ got[r] = 0
<1>1. r[1] \in Id
  BY DEF Row
<1>2. notes \in [Id -> NoteRow]
  BY DEF TypeOK
<1>3. r[1] \in 1..MaxNote /\ MaxNote \in Nat
  BY <1>1, OutboxAssumption DEF Id
<1>4. r[1] \notin Used
  BY <1>2, <1>3, NextIdIsFree
<1>5. ~notes[r[1]].used
  BY <1>1, <1>4 DEF Used
<1> QED
  BY <1>5 DEF RowsHaveNotes

LEMMA MarkedRowTyped ==
    ASSUME NEW d \in DeliveryRow,
           NEW s \in {"none", "pending", "sending", "delivered", "failed"},
           NEW x \in 0..Later
    PROVE  /\ [d EXCEPT !.state = s] \in DeliveryRow
           /\ [d EXCEPT !.next = x] \in DeliveryRow
           /\ [d EXCEPT !.state = s, !.next = x] \in DeliveryRow
BY DEF DeliveryRow

LEMMA LaterIsNat == Later \in Nat /\ 0 \in 0..Later /\ 0..MaxNow \subseteq 0..Later
BY OutboxAssumption DEF Later
-----------------------------------------------------------------------------
(* Type correctness *)

LEMMA IdleTyped ==
    /\ Idle \in WorkerState /\ Closed \in WorkerState /\ Dead \in WorkerState
<1>1. 0 \in 0..MaxNow
  BY OutboxAssumption
<1> DEFINE c == [adapters |-> {}, quiet |-> FALSE]
<1> DEFINE p == <<0, 0>>
<1>2. c \in Conf
  BY DEF Conf
<1>3. p \in Row \cup {<<0, 0>>}
  OBVIOUS
<1>4. Idle = [phase |-> "idle", at |-> 0, conf |-> c, due |-> 0, held |-> {},
              claim |-> p, outcome |-> "none"]
  BY DEF Idle
<1> DEFINE R == Row \cup {<<0, 0>>}
<1>5. p \in R
  BY <1>3
<1>6. WorkerState = [phase : {"closed", "idle", "digest", "flushing", "sending",
                             "marking", "dead"},
                    at : 0..MaxNow, conf : Conf, due : Nat, held : SUBSET Id,
                    claim : R, outcome : Outcome \cup {"none"}]
  BY DEF WorkerState
<1> HIDE DEF c, p, R
<1>7. Idle \in WorkerState
  BY <1>1, <1>2, <1>4, <1>5, <1>6
<1> QED
  BY <1>6, <1>7 DEF Closed, Dead

LEMMA InitialInvariant == Init => IInv
<1>1. SUFFICES ASSUME Init PROVE IInv
  OBVIOUS
<1>2. MaxNote \in Nat /\ NChannels \in Nat \ {0} /\ MaxNow \in Nat
      /\ Len(Delays) \in Nat
  BY OutboxAssumption
<1>3. TypeOK
  <2>1. now \in 0..MaxNow /\ config \in Conf
    BY <1>1, <1>2 DEF Init, Conf
  <2>2. notes \in [Id -> NoteRow]
    BY <1>1, <1>2 DEF Init, NoNote, NoteRow
  <2>3. deliv \in [Row -> DeliveryRow]
    BY <1>1, <1>2, LaterIsNat DEF Init, NoDelivery, DeliveryRow
  <2>4. worker \in WorkerState
    BY <1>1, IdleTyped DEF Init
  <2> QED
    BY <1>1, <2>1, <2>2, <2>3, <2>4 DEF Init, TypeOK
<1>4. RowsHaveNotes /\ RowsAreMarked /\ FileNeverFails
  BY <1>1, <1>2 DEF Init, NoDelivery, NoNote, RowsHaveNotes, RowsAreMarked,
     FileNeverFails, Row, Id, Channel, File
<1>5. Flying
  BY <1>1 DEF Init, NoDelivery, Closed, Idle, Flying
<1>6. FileIsServed /\ AnswersCount
  BY <1>1, <1>2 DEF Init, Closed, Idle, FileIsServed, AnswersCount, Answered,
     File, Channel
<1>7. Budget
  <2>1. Repeatable = {}
    BY <1>1 DEF Init, Repeatable
  <2> QED
    BY <1>1, <2>1, FS_EmptySet DEF Init, Budget
<1> QED
  BY <1>3, <1>4, <1>5, <1>6, <1>7 DEF IInv

LEMMA NextAttemptTyped ==
    ASSUME TypeOK, RowsAreMarked, Flying, worker.phase = "marking",
           NEW hint \in RetryAfter
    PROVE  NextAttempt(hint) \in Nat
           /\ AtMost(NextAttempt(hint), Later) \in 0..Later
<1>1. worker.claim \in Row /\ deliv[worker.claim].state = "sending"
  BY DEF Flying
<1>2. Claimed.attempts \in 1..Len(Delays)
  <2>1. Claimed \in DeliveryRow
    BY <1>1 DEF TypeOK, Claimed
  <2>2. Claimed.attempts \in 0..Len(Delays) /\ Claimed.attempts > 0
    BY <1>1, <2>1 DEF DeliveryRow, RowsAreMarked, Claimed
  <2>3. Len(Delays) \in Nat
    BY OutboxAssumption
  <2> QED
    BY <2>2, <2>3
<1>3. Delays[Claimed.attempts] \in Nat
  BY <1>2, OutboxAssumption
<1>4. worker.at \in Nat /\ hint \in Nat
  BY OutboxAssumption DEF TypeOK, WorkerState
<1>5. NextAttempt(hint) \in Nat
  BY <1>3, <1>4 DEF NextAttempt, AtLeast
<1> QED
  BY <1>5, LaterIsNat DEF AtMost

LEMMA TypeStep == TypeOK /\ RowsAreMarked /\ Flying /\ [Next]_vars => TypeOK'
<1>1. SUFFICES ASSUME TypeOK, RowsAreMarked, Flying, [Next]_vars
               PROVE  TypeOK'
  OBVIOUS
<1>2. /\ MaxNote \in Nat /\ NChannels \in Nat \ {0} /\ MaxNow \in Nat
      /\ Len(Delays) \in Nat /\ Later \in Nat
  BY OutboxAssumption, LaterIsNat
<1>3. ASSUME NEW urgent \in BOOLEAN, NEW cs \in SUBSET Channel,
             Enqueue(urgent, cs)
      PROVE  TypeOK'
  <2>1. notes' \in [Id -> NoteRow]
    BY <1>1, <1>3 DEF Enqueue, TypeOK, NoteRow
  <2>2. deliv' \in [Row -> DeliveryRow]
    <3>1. [state |-> "pending", attempts |-> 0, next |-> now] \in DeliveryRow
      BY <1>1, <1>2, LaterIsNat DEF TypeOK, DeliveryRow
    <3> QED
      BY <1>1, <1>3, <3>1 DEF Enqueue, TypeOK
  <2> QED
    BY <1>1, <1>3, <2>1, <2>2 DEF Enqueue, TypeOK
<1>4. CASE Reconfigure
  <2>1. config' \in Conf
    BY <1>2, <1>4 DEF Reconfigure, Conf, File, Channel
  <2>2. configs' \in Nat
    BY <1>1, <1>4 DEF Reconfigure, TypeOK
  <2> QED
    BY <1>1, <1>4, <2>1, <2>2 DEF Reconfigure, TypeOK
<1>5. CASE TimePasses
  <2>1. now' \in 0..MaxNow
    BY <1>1, <1>2, <1>5 DEF TimePasses, TypeOK
  <2> QED
    BY <1>1, <1>5, <2>1 DEF TimePasses, TypeOK
<1>6. CASE Open
  <2>1. deliv' \in [Row -> DeliveryRow]
    <3>1. \A r \in Row : [deliv[r] EXCEPT !.state = "pending"] \in DeliveryRow
      BY <1>1, MarkedRowTyped, LaterIsNat DEF TypeOK
    <3> QED
      BY <1>1, <1>6, <3>1 DEF Open, TypeOK
  <2> QED
    BY <1>1, <1>6, <2>1, IdleTyped DEF Open, TypeOK
<1>7. CASE StartFlush
  <2>1. ToFold(config, now) \in SUBSET Id
    BY DEF ToFold
  <2>2. Cardinality(DueAt(now, deliv)) \in Nat
    BY RowsAreFinite DEF DueAt
  <2>3. worker' \in WorkerState
    <3> DEFINE F == ToFold(config, now)
    <3> DEFINE n == Cardinality(DueAt(now, deliv))
    <3>1. worker' = [Idle EXCEPT !.phase = IF F = {} THEN "flushing" ELSE "digest",
                       !.at = now, !.conf = config, !.held = F,
                       !.due = IF F = {} THEN n ELSE 0]
      BY <1>7 DEF StartFlush
    <3>2. now \in 0..MaxNow /\ config \in Conf
      BY <1>1 DEF TypeOK
    <3> HIDE DEF F, n
    <3>3. (IF F = {} THEN "flushing" ELSE "digest")
             \in {"closed", "idle", "digest", "flushing", "sending", "marking",
                  "dead"}
      OBVIOUS
    <3>4. (IF F = {} THEN n ELSE 0) \in Nat
      BY <2>2 DEF n
    <3> QED
      BY <2>1, <3>1, <3>2, <3>3, <3>4, IdleTyped DEF F, WorkerState
  <2> QED
    BY <1>1, <1>7, <2>3 DEF StartFlush, TypeOK
<1>8. CASE MakeDigest
  <2>1. worker.at \in 0..MaxNow
    BY <1>1 DEF TypeOK, WorkerState
  <2>2. notes' \in [Id -> NoteRow]
    BY <1>1, <1>8, <2>1 DEF MakeDigest, TypeOK, NoteRow
  <2>3. deliv' \in [Row -> DeliveryRow]
    <3>1. [state |-> "pending", attempts |-> 0, next |-> worker.at] \in DeliveryRow
      BY <1>2, <2>1, LaterIsNat DEF DeliveryRow
    <3>2. \A r \in Row :
            [deliv[r] EXCEPT !.state = "delivered", !.next = 0] \in DeliveryRow
      BY <1>1, MarkedRowTyped, LaterIsNat DEF TypeOK
    <3> QED
      BY <1>1, <1>8, <3>1, <3>2 DEF MakeDigest, TypeOK
  <2>4. Cardinality(DueAt(worker.at, deliv')) \in Nat
    BY RowsAreFinite DEF DueAt
  <2>5. worker' \in WorkerState
    <3> DEFINE n == Cardinality(DueAt(worker.at, deliv'))
    <3>1. worker' = [worker EXCEPT !.phase = "flushing", !.held = {}, !.due = n]
      BY <1>8 DEF MakeDigest
    <3>2. n \in Nat
      BY <2>4
    <3> HIDE DEF n
    <3> QED
      BY <1>1, <3>1, <3>2 DEF TypeOK, WorkerState
  <2> QED
    BY <1>1, <1>8, <2>2, <2>3, <2>5 DEF MakeDigest, TypeOK
<1>9. ASSUME NEW r \in Row, Claim(r) PROVE TypeOK'
  <2>1. deliv' \in [Row -> DeliveryRow]
    <3>1. AtMost(deliv[r].attempts + 1, Len(Delays)) \in 0..Len(Delays)
      BY <1>1, <1>2 DEF TypeOK, DeliveryRow, AtMost
    <3> DEFINE a == AtMost(deliv[r].attempts + 1, Len(Delays))
    <3>2. [[deliv[r] EXCEPT !.state = "sending"] EXCEPT !.attempts = a]
             \in DeliveryRow
      <4> HIDE DEF a
      <4>1. deliv[r] \in DeliveryRow
        BY <1>1 DEF TypeOK
      <4>2. a \in 0..Len(Delays)
        BY <3>1 DEF a
      <4> QED
        BY <4>1, <4>2 DEF DeliveryRow
    <3>3. deliv' = [deliv EXCEPT ![r] =
                      [[deliv[r] EXCEPT !.state = "sending"] EXCEPT !.attempts = a]]
      BY <1>1, <1>9 DEF Claim, TypeOK
    <3> HIDE DEF a
    <3> QED
      BY <1>1, <3>2, <3>3 DEF TypeOK
  <2>2. worker' \in WorkerState
    <3>1. worker.due - 1 \in Nat
      BY <1>1, <1>9 DEF Claim, TypeOK, WorkerState
    <3> DEFINE n == worker.due - 1
    <3>2. worker' = [worker EXCEPT !.phase = "sending", !.due = n, !.claim = r]
          \/ worker' = [worker EXCEPT !.phase = "marking", !.due = n, !.claim = r,
                                      !.outcome = "permanent"]
      BY <1>9 DEF Claim
    <3>3. n \in Nat
      BY <3>1
    <3> HIDE DEF n
    <3>4. worker \in WorkerState /\ r \in Row
      BY <1>1 DEF TypeOK
    <3>5. /\ [worker EXCEPT !.phase = "sending", !.due = n, !.claim = r]
             \in WorkerState
          /\ [worker EXCEPT !.phase = "marking", !.due = n, !.claim = r,
                            !.outcome = "permanent"] \in WorkerState
      BY <3>3, <3>4 DEF WorkerState, Outcome
    <3> QED
      BY <3>2, <3>5
  <2> QED
    BY <1>1, <1>9, <2>1, <2>2 DEF Claim, TypeOK
<1>10. CASE EndFlush
  <2>1. deliv' \in [Row -> DeliveryRow]
    <3>1. \A r \in Row : AtMost(deliv[r].next, MaxNow) \in 0..Later
      BY <1>1, <1>2 DEF TypeOK, DeliveryRow, AtMost, Later
    <3>2. \A r \in Row : \A x \in 0..Later :
            [deliv[r] EXCEPT !.next = x] \in DeliveryRow
      BY <1>1 DEF TypeOK, DeliveryRow
    <3>3. \A r \in Row : [deliv[r] EXCEPT !.next = AtMost(@, MaxNow)] \in DeliveryRow
      BY <3>1, <3>2
    <3> QED
      BY <1>1, <1>10, <3>3 DEF EndFlush, TypeOK
  <2> QED
    BY <1>1, <1>10, <2>1, IdleTyped DEF EndFlush, TypeOK
<1>11. ASSUME NEW outcome \in Outcome, Send(outcome) PROVE TypeOK'
  <2>1. worker' \in WorkerState
    BY <1>1, <1>11 DEF Send, TypeOK, WorkerState
  <2>2. got' \in [Row -> Nat] /\ repeats' \in Nat
    <3>1. worker.claim \in Row
      BY <1>1, <1>11 DEF Send, Flying
    <3>2. got \in [Row -> Nat] /\ got[worker.claim] + 1 \in Nat
          /\ repeats \in Nat /\ repeats + 1 \in Nat
      BY <1>1, <3>1 DEF TypeOK
    <3>3. /\ got' = got \/ got' = [got EXCEPT ![worker.claim] = @ + 1]
          /\ repeats' = repeats \/ repeats' = repeats + 1
      BY <1>11 DEF Send
    <3> QED
      BY <3>1, <3>2, <3>3
  <2> QED
    BY <1>1, <1>11, <2>1, <2>2 DEF Send, TypeOK
<1>12. ASSUME NEW row \in DeliveryRow, Marked(row) PROVE TypeOK'
  <2>1. worker' \in WorkerState
    BY <1>1, <1>12 DEF Marked, TypeOK, WorkerState
  <2>2. deliv' \in [Row -> DeliveryRow]
    BY <1>1, <1>12 DEF Marked, TypeOK
  <2> QED
    BY <1>1, <1>12, <2>1, <2>2 DEF Marked, TypeOK
<1>13. CASE MarkDelivered \/ MarkFailed \/ MarkRetry
  <2>1. worker.phase = "marking"
    BY <1>13 DEF MarkDelivered, MarkFailed, MarkRetry, Marked
  <2>2. Claimed \in DeliveryRow
    BY <1>1, <2>1 DEF TypeOK, Flying, Claimed
  <2>3. CASE MarkDelivered
    BY <1>12, <2>2, <2>3, MarkedRowTyped, LaterIsNat DEF MarkDelivered
  <2>4. CASE MarkFailed
    BY <1>12, <2>2, <2>4, MarkedRowTyped, LaterIsNat DEF MarkFailed
  <2>5. CASE MarkRetry
    <3>1. PICK hint \in RetryAfter :
            Marked([Claimed EXCEPT !.state = "pending",
                                   !.next = AtMost(NextAttempt(hint), Later)])
      BY <2>5 DEF MarkRetry
    <3>2. AtMost(NextAttempt(hint), Later) \in 0..Later
      BY <1>1, <2>1, NextAttemptTyped
    <3>3. [Claimed EXCEPT !.state = "pending",
                          !.next = AtMost(NextAttempt(hint), Later)] \in DeliveryRow
      BY <2>2, <3>2, MarkedRowTyped
    <3> QED
      BY <1>12, <3>1, <3>3
  <2> QED
    BY <1>13, <2>3, <2>4, <2>5
<1>14. CASE StoreFault
  BY <1>1, <1>14, IdleTyped DEF StoreFault, TypeOK
<1>15. CASE Crash
  BY <1>1, <1>15, IdleTyped DEF Crash, TypeOK
<1>16. CASE UNCHANGED vars
  BY <1>1, <1>16 DEF vars, TypeOK
<1> QED
  BY <1>1, <1>3, <1>4, <1>5, <1>6, <1>7, <1>8, <1>9, <1>10, <1>11, <1>13,
     <1>14, <1>15, <1>16, Zenon DEF Next
-----------------------------------------------------------------------------
(* What the actions do to one row *)

LEMMA ClaimRow ==
    ASSUME TypeOK, NEW r \in Row, Claim(r)
    PROVE  /\ deliv[r].state = "pending" /\ deliv'[r].state = "sending"
           /\ deliv'[r].attempts > 0
           /\ \A s \in Row \ {r} : deliv'[s] = deliv[s]
<1>1. deliv \in [Row -> DeliveryRow] /\ deliv[r] \in DeliveryRow
  BY DEF TypeOK
<1> DEFINE a == AtMost(deliv[r].attempts + 1, Len(Delays))
<1>2. a > 0
  BY <1>1, OutboxAssumption DEF DeliveryRow, AtMost
<1>3. deliv' = [deliv EXCEPT ![r] =
                  [[deliv[r] EXCEPT !.state = "sending"] EXCEPT !.attempts = a]]
  BY <1>1 DEF Claim
<1>4. r \in DueAt(worker.at, deliv)
  BY DEF Claim, Claimable
<1> HIDE DEF a
<1>5. deliv'[r] = [[deliv[r] EXCEPT !.state = "sending"] EXCEPT !.attempts = a]
  BY <1>1, <1>3
<1>6. deliv'[r].state = "sending" /\ deliv'[r].attempts = a
  BY <1>1, <1>5 DEF DeliveryRow
<1> QED
  BY <1>1, <1>2, <1>3, <1>4, <1>6 DEF DueAt

LEMMA MarkedRow ==
    ASSUME TypeOK, Flying, NEW row, Marked(row)
    PROVE  /\ worker.claim \in Row /\ deliv[worker.claim].state = "sending"
           /\ deliv'[worker.claim] = row
           /\ \A s \in Row \ {worker.claim} : deliv'[s] = deliv[s]
BY DEF Marked, Flying, TypeOK

(* What the three outcomes write. *)
Outcomes(row) ==
    /\ row.state \in {"delivered", "failed", "pending"}
    /\ row.state = "pending" \/ row.next = 0
    /\ row.state = "delivered" <=> worker.outcome = "success"
    /\ row.state = "failed" =>
         worker.claim[2] # File \/ worker.outcome = "permanent"

LEMMA MarkSettles ==
    ASSUME TypeOK, Flying, MarkDelivered \/ MarkFailed \/ MarkRetry
    PROVE  \E row : Marked(row) /\ Outcomes(row)
<1>1. worker.phase = "marking"
  BY DEF MarkDelivered, MarkFailed, MarkRetry, Marked
<1>2. Claimed \in DeliveryRow
  BY <1>1 DEF TypeOK, Flying, Claimed
<1>3. \A s, x : /\ [Claimed EXCEPT !.state = s, !.next = x].state = s
                /\ [Claimed EXCEPT !.state = s, !.next = x].next = x
  BY <1>2 DEF DeliveryRow
<1>4. CASE MarkDelivered
  <2> DEFINE row == [Claimed EXCEPT !.state = "delivered", !.next = 0]
  <2>1. row.state = "delivered" /\ row.next = 0
    BY <1>3
  <2>2. Marked(row) /\ worker.outcome = "success"
    BY <1>4 DEF MarkDelivered
  <2> HIDE DEF row
  <2>3. Outcomes(row)
    BY <2>1, <2>2 DEF Outcomes
  <2> QED
    BY <2>2, <2>3
<1>5. CASE MarkFailed
  <2> DEFINE row == [Claimed EXCEPT !.state = "failed", !.next = 0]
  <2>1. row.state = "failed" /\ row.next = 0
    BY <1>3
  <2>2. Marked(row) /\ worker.outcome \in {"permanent", "retry"}
    BY <1>5 DEF MarkFailed
  <2>3. worker.claim[2] # File \/ worker.outcome = "permanent"
    BY <1>5 DEF MarkFailed, Expired
  <2> HIDE DEF row
  <2>4. Outcomes(row)
    BY <2>1, <2>2, <2>3 DEF Outcomes
  <2> QED
    BY <2>2, <2>4
<1>6. CASE MarkRetry
  <2>1. PICK hint \in RetryAfter :
          Marked([Claimed EXCEPT !.state = "pending",
                                 !.next = AtMost(NextAttempt(hint), Later)])
    BY <1>6 DEF MarkRetry
  <2> DEFINE row == [Claimed EXCEPT !.state = "pending",
                                    !.next = AtMost(NextAttempt(hint), Later)]
  <2>2. row.state = "pending"
    BY <1>3
  <2>3. Marked(row) /\ worker.outcome = "retry"
    BY <1>6, <2>1 DEF MarkRetry
  <2> HIDE DEF row
  <2>4. Outcomes(row)
    BY <2>2, <2>3 DEF Outcomes
  <2> QED
    BY <2>3, <2>4
<1> QED
  BY <1>4, <1>5, <1>6

LEMMA OpenRows ==
    ASSUME TypeOK, Open
    PROVE  \A r \in Row :
             /\ deliv[r].state = "sending" =>
                  /\ deliv'[r].state = "pending" /\ deliv'[r].next = deliv[r].next
                  /\ deliv'[r].attempts = deliv[r].attempts
             /\ deliv[r].state # "sending" => deliv'[r] = deliv[r]
<1>1. SUFFICES ASSUME NEW r \in Row
      PROVE  /\ deliv[r].state = "sending" =>
                  /\ deliv'[r].state = "pending" /\ deliv'[r].next = deliv[r].next
                  /\ deliv'[r].attempts = deliv[r].attempts
             /\ deliv[r].state # "sending" => deliv'[r] = deliv[r]
  OBVIOUS
<1>2. deliv[r] \in DeliveryRow
  BY <1>1 DEF TypeOK
<1>3. deliv'[r] = IF deliv[r].state = "sending"
                  THEN [deliv[r] EXCEPT !.state = "pending"] ELSE deliv[r]
  BY <1>1 DEF Open
<1> QED
  BY <1>2, <1>3 DEF DeliveryRow

LEMMA EndFlushRows ==
    ASSUME TypeOK, EndFlush
    PROVE  \A r \in Row : /\ deliv'[r].state = deliv[r].state
                          /\ deliv'[r].attempts = deliv[r].attempts
                          /\ deliv[r].next = 0 => deliv'[r] = deliv[r]
<1>1. SUFFICES ASSUME NEW r \in Row
               PROVE  /\ deliv'[r].state = deliv[r].state
                      /\ deliv'[r].attempts = deliv[r].attempts
                      /\ deliv[r].next = 0 => deliv'[r] = deliv[r]
  OBVIOUS
<1>2. deliv[r] \in DeliveryRow
  BY <1>1 DEF TypeOK
<1>3. CASE worker.at < MaxNow
  BY <1>1, <1>3 DEF EndFlush
<1>4. CASE ~(worker.at < MaxNow)
  <2> DEFINE x == AtMost(deliv[r].next, MaxNow)
  <2>1. deliv'[r] = [deliv[r] EXCEPT !.next = x]
    BY <1>1, <1>4 DEF EndFlush
  <2>2. deliv[r].next = 0 => x = 0
    BY OutboxAssumption DEF AtMost
  <2> HIDE DEF x
  <2> QED
    BY <1>2, <2>1, <2>2 DEF DeliveryRow
<1> QED
  BY <1>3, <1>4

LEMMA DigestRows ==
    ASSUME TypeOK, RowsHaveNotes, MakeDigest
    PROVE  \A r \in Row :
             /\ r[1] = NextId /\ r[2] \in FoldChannels =>
                  /\ deliv[r].state = "none" /\ got[r] = 0
                  /\ deliv'[r].state = "pending"
             /\ ~(r[1] = NextId /\ r[2] \in FoldChannels) /\ r \in Foldable =>
                  /\ deliv[r].state = "pending" /\ deliv'[r].state = "delivered"
                  /\ deliv'[r].next = 0
             /\ ~(r[1] = NextId /\ r[2] \in FoldChannels) /\ r \notin Foldable =>
                  deliv'[r] = deliv[r]
<1>1. SUFFICES ASSUME NEW r \in Row
      PROVE  /\ r[1] = NextId /\ r[2] \in FoldChannels =>
                  /\ deliv[r].state = "none" /\ got[r] = 0
                  /\ deliv'[r].state = "pending"
             /\ ~(r[1] = NextId /\ r[2] \in FoldChannels) /\ r \in Foldable =>
                  /\ deliv[r].state = "pending" /\ deliv'[r].state = "delivered"
                  /\ deliv'[r].next = 0
             /\ ~(r[1] = NextId /\ r[2] \in FoldChannels) /\ r \notin Foldable =>
                  deliv'[r] = deliv[r]
  OBVIOUS
<1>2. deliv[r] \in DeliveryRow
  BY <1>1 DEF TypeOK
<1>3. deliv'[r] = IF r[1] = NextId /\ r[2] \in FoldChannels
                  THEN [state |-> "pending", attempts |-> 0, next |-> worker.at]
                  ELSE IF r \in Foldable
                  THEN [deliv[r] EXCEPT !.state = "delivered", !.next = 0]
                  ELSE deliv[r]
  BY <1>1 DEF MakeDigest
<1>4. r \in Foldable => deliv[r].state = "pending"
  BY DEF Foldable, Pending
<1>5. r[1] = NextId => deliv[r].state = "none" /\ got[r] = 0
  BY <1>1, NextIdHasNoRows
<1>6. /\ [deliv[r] EXCEPT !.state = "delivered", !.next = 0].state = "delivered"
      /\ [deliv[r] EXCEPT !.state = "delivered", !.next = 0].next = 0
  BY <1>2 DEF DeliveryRow
<1> QED
  BY <1>3, <1>4, <1>5, <1>6

LEMMA EnqueueRows ==
    ASSUME TypeOK, RowsHaveNotes, NEW urgent \in BOOLEAN,
           NEW cs \in SUBSET Channel, Enqueue(urgent, cs)
    PROVE  \A r \in Row :
             /\ r[1] = NextId /\ r[2] \in cs =>
                  /\ deliv[r].state = "none" /\ got[r] = 0
                  /\ deliv'[r].state = "pending"
             /\ ~(r[1] = NextId /\ r[2] \in cs) => deliv'[r] = deliv[r]
BY NextIdHasNoRows DEF Enqueue
-----------------------------------------------------------------------------
(* The other conjuncts *)

(* The actions that leave all rows, or the worker, as they are.            *)
Elsewhere ==
    \/ Reconfigure \/ TimePasses \/ UNCHANGED vars
    \/ StartFlush \/ StoreFault \/ Crash
    \/ \E outcome \in Outcome : Send(outcome)

LEMMA ElsewhereKeepsRows == Elsewhere => deliv' = deliv /\ notes' = notes
BY DEF Elsewhere, Reconfigure, TimePasses, vars, StartFlush, StoreFault, Crash,
   Send

LEMMA NextCases ==
    ASSUME TypeOK, Flying, [Next]_vars
    PROVE  \/ \E urgent \in BOOLEAN, cs \in SUBSET Channel : Enqueue(urgent, cs)
           \/ Open \/ MakeDigest \/ (\E r \in Row : Claim(r)) \/ EndFlush
           \/ \E row : Marked(row) /\ Outcomes(row)
           \/ Elsewhere
<1>1. MarkDelivered \/ MarkFailed \/ MarkRetry =>
        \E row : Marked(row) /\ Outcomes(row)
  BY MarkSettles
<1> QED
  BY <1>1, Zenon DEF Next, Elsewhere

LEMMA RowsHaveNotesStep ==
    ASSUME TypeOK, RowsHaveNotes, Flying, [Next]_vars
    PROVE  RowsHaveNotes'
<1>1. SUFFICES ASSUME NEW r \in Row
      PROVE  /\ deliv'[r].state # "none" => notes'[r[1]].used
             /\ deliv'[r].state = "none" => got'[r] = 0
  BY DEF RowsHaveNotes
<1>2. /\ deliv[r].state # "none" => notes[r[1]].used
      /\ deliv[r].state = "none" => got[r] = 0
  BY <1>1 DEF RowsHaveNotes
<1>3. r[1] \in Id /\ notes \in [Id -> NoteRow]
  BY <1>1 DEF Row, TypeOK
<1>4. CASE \E urgent \in BOOLEAN, cs \in SUBSET Channel : Enqueue(urgent, cs)
  <2>1. PICK urgent \in BOOLEAN, cs \in SUBSET Channel : Enqueue(urgent, cs)
    BY <1>4
  <2>2. notes'[r[1]] = IF r[1] = NextId
                       THEN [created |-> now, urgent |-> urgent, used |-> TRUE]
                       ELSE notes[r[1]]
    BY <1>3, <2>1 DEF Enqueue
  <2>3. got' = got
    BY <2>1 DEF Enqueue
  <2> QED
    BY <1>1, <1>2, <2>1, <2>2, <2>3, EnqueueRows
<1>5. CASE Open
  <2>1. notes' = notes /\ got' = got
    BY <1>5 DEF Open
  <2> QED
    BY <1>1, <1>2, <1>5, <2>1, OpenRows
<1>6. CASE MakeDigest
  <2>1. notes'[r[1]] = IF r[1] = NextId
                       THEN [created |-> worker.at, urgent |-> FALSE, used |-> TRUE]
                       ELSE notes[r[1]]
    BY <1>3, <1>6 DEF MakeDigest
  <2>2. got' = got
    BY <1>6 DEF MakeDigest
  <2> QED
    BY <1>1, <1>2, <1>6, <2>1, <2>2, DigestRows
<1>7. CASE \E c \in Row : Claim(c)
  <2>1. PICK c \in Row : Claim(c)
    BY <1>7
  <2>2. notes' = notes /\ got' = got
    BY <2>1 DEF Claim
  <2> QED
    BY <1>1, <1>2, <2>1, <2>2, ClaimRow
<1>8. CASE EndFlush
  <2>1. notes' = notes /\ got' = got
    BY <1>8 DEF EndFlush
  <2> QED
    BY <1>1, <1>2, <1>8, <2>1, EndFlushRows
<1>9. CASE \E row : Marked(row) /\ Outcomes(row)
  <2>1. PICK row : Marked(row) /\ Outcomes(row)
    BY <1>9
  <2>2. notes' = notes /\ got' = got
    BY <2>1 DEF Marked
  <2> QED
    BY <1>1, <1>2, <2>1, <2>2, MarkedRow DEF Outcomes
<1>10. CASE Elsewhere
  <2>1. got'[r] = got[r] \/ (r = worker.claim /\ worker.phase = "sending")
    BY <1>1, <1>10 DEF Elsewhere, Reconfigure, TimePasses, vars, StartFlush,
       StoreFault, Crash, Send, TypeOK
  <2>2. r = worker.claim /\ worker.phase = "sending" => deliv[r].state = "sending"
    BY DEF Flying
  <2> QED
    BY <1>2, <1>10, <2>1, <2>2, ElsewhereKeepsRows
<1> QED
  BY <1>4, <1>5, <1>6, <1>7, <1>8, <1>9, <1>10, NextCases

LEMMA RowsAreMarkedStep ==
    ASSUME TypeOK, RowsHaveNotes, RowsAreMarked, Flying, [Next]_vars
    PROVE  RowsAreMarked'
<1>1. SUFFICES ASSUME NEW r \in Row
      PROVE  /\ deliv'[r].state = "sending" => deliv'[r].attempts > 0
             /\ deliv'[r].state \in {"delivered", "failed"} => deliv'[r].next = 0
  BY DEF RowsAreMarked
<1>2. /\ deliv[r].state = "sending" => deliv[r].attempts > 0
      /\ deliv[r].state \in {"delivered", "failed"} => deliv[r].next = 0
  BY <1>1 DEF RowsAreMarked
<1>4. CASE \E urgent \in BOOLEAN, cs \in SUBSET Channel : Enqueue(urgent, cs)
  BY <1>1, <1>2, <1>4, EnqueueRows
<1>5. CASE Open
  BY <1>1, <1>2, <1>5, OpenRows
<1>6. CASE MakeDigest
  BY <1>1, <1>2, <1>6, DigestRows
<1>7. CASE \E c \in Row : Claim(c)
  BY <1>1, <1>2, <1>7, ClaimRow
<1>8. CASE EndFlush
  BY <1>1, <1>2, <1>8, EndFlushRows
<1>9. CASE \E row : Marked(row) /\ Outcomes(row)
  BY <1>1, <1>2, <1>9, MarkedRow DEF Outcomes
<1>10. CASE Elsewhere
  BY <1>2, <1>10, ElsewhereKeepsRows
<1> QED
  BY <1>4, <1>5, <1>6, <1>7, <1>8, <1>9, <1>10, NextCases

LEMMA FileNeverFailsStep ==
    ASSUME TypeOK, RowsHaveNotes, Flying, FileIsServed, FileNeverFails,
           [Next]_vars
    PROVE  FileNeverFails'
<1>1. SUFFICES ASSUME NEW n \in Id PROVE deliv'[<<n, File>>].state # "failed"
  BY DEF FileNeverFails
<1> DEFINE r == <<n, File>>
<1>2. r \in Row /\ r[2] = File
  BY <1>1, OutboxAssumption DEF Row, Channel, File
<1>3. deliv[r].state # "failed"
  BY DEF FileNeverFails
<1> HIDE DEF r
<1>4. CASE \E urgent \in BOOLEAN, cs \in SUBSET Channel : Enqueue(urgent, cs)
  BY <1>2, <1>3, <1>4, EnqueueRows DEF r
<1>5. CASE Open
  BY <1>2, <1>3, <1>5, OpenRows DEF r
<1>6. CASE MakeDigest
  BY <1>2, <1>3, <1>6, DigestRows DEF r
<1>7. CASE \E c \in Row : Claim(c)
  BY <1>2, <1>3, <1>7, ClaimRow DEF r
<1>8. CASE EndFlush
  BY <1>2, <1>3, <1>8, EndFlushRows DEF r
<1>9. CASE \E row : Marked(row) /\ Outcomes(row)
  <2>1. PICK row : Marked(row) /\ Outcomes(row)
    BY <1>9
  <2>2. worker.claim[2] = File => worker.outcome # "permanent"
    BY <2>1 DEF Marked, FileIsServed
  <2>3. worker.claim = r => deliv'[r].state # "failed"
    BY <1>2, <2>1, <2>2, MarkedRow DEF Outcomes
  <2>4. worker.claim # r => deliv'[r].state # "failed"
    BY <1>2, <1>3, <2>1, MarkedRow
  <2> QED
    BY <2>3, <2>4 DEF r
<1>10. CASE Elsewhere
  BY <1>3, <1>10, ElsewhereKeepsRows DEF r
<1> QED
  BY <1>4, <1>5, <1>6, <1>7, <1>8, <1>9, <1>10, NextCases
LEMMA FlyingStep ==
    ASSUME TypeOK, RowsHaveNotes, Flying, [Next]_vars
    PROVE  Flying'
<1> DEFINE One(d) == \A r, s \in Row :
                       d[r].state = "sending" /\ d[s].state = "sending" => r = s
<1> DEFINE None(d) == \A r \in Row : d[r].state # "sending"
<1>1. One(deliv)
  BY DEF Flying
<1>2. worker.phase \in {"idle", "digest", "flushing"} => None(deliv)
  BY DEF Flying
<1>3. worker.phase \in {"sending", "marking"} =>
        worker.claim \in Row /\ deliv[worker.claim].state = "sending"
  BY DEF Flying
<1>4. CASE \E urgent \in BOOLEAN, cs \in SUBSET Channel : Enqueue(urgent, cs)
  <2>1. PICK urgent \in BOOLEAN, cs \in SUBSET Channel : Enqueue(urgent, cs)
    BY <1>4
  <2>2. \A r \in Row : deliv'[r].state = "sending" <=> deliv[r].state = "sending"
    BY <2>1, EnqueueRows
  <2>3. worker' = worker
    BY <2>1 DEF Enqueue
  <2> QED
    BY <1>1, <1>2, <1>3, <2>2, <2>3 DEF Flying
<1>5. CASE Open
  <2>1. None(deliv')
    BY <1>5, OpenRows
  <2>2. worker'.phase = "idle"
    BY <1>5 DEF Open, Idle
  <2> QED
    BY <2>1, <2>2 DEF Flying
<1>6. CASE MakeDigest
  <2>1. None(deliv)
    BY <1>2, <1>6 DEF MakeDigest
  <2>2. None(deliv')
    BY <1>6, <2>1, DigestRows
  <2>3. worker'.phase = "flushing"
    BY <1>6 DEF MakeDigest, TypeOK, WorkerState
  <2> QED
    BY <2>2, <2>3 DEF Flying
<1>7. CASE \E c \in Row : Claim(c)
  <2>1. PICK c \in Row : Claim(c)
    BY <1>7
  <2>2. None(deliv)
    BY <1>2, <2>1 DEF Claim
  <2>3. \A r \in Row : deliv'[r].state = "sending" <=> r = c
    BY <2>1, <2>2, ClaimRow
  <2>4. worker'.phase \in {"sending", "marking"} /\ worker'.claim = c
    BY <2>1 DEF Claim, TypeOK, WorkerState
  <2> QED
    BY <2>1, <2>3, <2>4 DEF Flying
<1>8. CASE EndFlush
  <2>1. None(deliv)
    BY <1>2, <1>8 DEF EndFlush
  <2>2. None(deliv')
    BY <1>8, <2>1, EndFlushRows
  <2>3. worker'.phase = "idle"
    BY <1>8 DEF EndFlush, Idle
  <2> QED
    BY <2>2, <2>3 DEF Flying
<1>9. CASE \E row : Marked(row) /\ Outcomes(row)
  <2>1. PICK row : Marked(row) /\ Outcomes(row)
    BY <1>9
  <2>2. None(deliv')
    <3>1. \A s \in Row \ {worker.claim} : deliv[s].state # "sending"
      BY <1>1, <2>1, MarkedRow
    <3> QED
      BY <2>1, <3>1, MarkedRow DEF Outcomes
  <2>3. worker'.phase = "flushing"
    BY <2>1 DEF Marked, TypeOK, WorkerState
  <2> QED
    BY <2>2, <2>3 DEF Flying
<1>10. CASE Elsewhere
  <2>1. deliv' = deliv
    BY <1>10, ElsewhereKeepsRows
  <2>2. \/ worker' = worker
        \/ worker'.phase \in {"closed", "dead"}
        \/ worker.phase = "idle" /\ worker'.phase \in {"flushing", "digest"}
        \/ worker.phase = "sending" /\ worker'.phase = "marking"
             /\ worker'.claim = worker.claim
    <3>1. CASE \E outcome \in Outcome : Send(outcome)
      BY <3>1 DEF Send, TypeOK, WorkerState
    <3>2. CASE StartFlush
      BY <3>2 DEF StartFlush, Idle
    <3>3. CASE StoreFault \/ Crash
      BY <3>3 DEF StoreFault, Crash, Closed, Dead, Idle
    <3>4. CASE Reconfigure \/ TimePasses \/ UNCHANGED vars
      BY <3>4 DEF Reconfigure, TimePasses, vars
    <3> QED
      BY <1>10, <3>1, <3>2, <3>3, <3>4 DEF Elsewhere
  <2> QED
    BY <1>1, <1>2, <1>3, <2>1, <2>2 DEF Flying
<1> QED
  BY <1>4, <1>5, <1>6, <1>7, <1>8, <1>9, <1>10, NextCases

LEMMA FileIsServedStep ==
    ASSUME TypeOK, Flying, FileIsServed, [Next]_vars
    PROVE  FileIsServed'
<1>1. /\ File \in config.adapters
      /\ worker.phase \in {"digest", "flushing", "sending", "marking"} =>
           File \in worker.conf.adapters
      /\ worker.phase = "marking" /\ worker.claim[2] = File =>
           worker.outcome # "permanent"
  BY DEF FileIsServed
<1>2. worker \in WorkerState
  BY DEF TypeOK
<1>3. CASE \E urgent \in BOOLEAN, cs \in SUBSET Channel : Enqueue(urgent, cs)
  BY <1>1, <1>3 DEF Enqueue, FileIsServed
<1>4. CASE Reconfigure
  <2>1. File \in config'.adapters /\ worker' = worker
    BY <1>4 DEF Reconfigure
  <2> QED
    BY <1>1, <2>1 DEF FileIsServed
<1>5. CASE TimePasses \/ UNCHANGED vars
  BY <1>1, <1>5 DEF TimePasses, vars, FileIsServed
<1>6. CASE Open
  BY <1>1, <1>6 DEF Open, Idle, FileIsServed
<1>7. CASE StartFlush
  <2>1. worker'.conf = config /\ worker'.phase # "marking" /\ config' = config
    BY <1>7 DEF StartFlush, Idle
  <2> QED
    BY <1>1, <2>1 DEF FileIsServed
<1>8. CASE MakeDigest
  <2>1. worker'.conf = worker.conf /\ worker'.phase = "flushing"
        /\ worker.phase = "digest" /\ config' = config
    BY <1>2, <1>8 DEF MakeDigest, WorkerState
  <2> QED
    BY <1>1, <2>1 DEF FileIsServed
<1>9. CASE \E r \in Row : Claim(r)
  <2>1. PICK r \in Row : Claim(r)
    BY <1>9
  <2>2. worker.phase = "flushing" /\ config' = config
    BY <2>1 DEF Claim
  <2>3. CASE r[2] \in worker.conf.adapters
    <3>1. worker'.conf = worker.conf /\ worker'.phase = "sending"
      BY <1>2, <2>1, <2>3 DEF Claim, WorkerState
    <3> QED
      BY <1>1, <2>2, <3>1 DEF FileIsServed
  <2>4. CASE r[2] \notin worker.conf.adapters
    <3>1. worker'.conf = worker.conf /\ worker'.claim = r
      BY <1>2, <2>1, <2>4 DEF Claim, WorkerState
    <3>2. r[2] # File
      BY <1>1, <2>2, <2>4
    <3> QED
      BY <1>1, <2>2, <3>1, <3>2 DEF FileIsServed
  <2> QED
    BY <2>3, <2>4
<1>10. CASE EndFlush
  BY <1>1, <1>10 DEF EndFlush, Idle, FileIsServed
<1>11. CASE \E outcome \in Outcome : Send(outcome)
  <2>1. PICK outcome \in Outcome : Send(outcome)
    BY <1>11
  <2>2. /\ worker'.conf = worker.conf /\ worker'.claim = worker.claim
        /\ worker'.outcome = outcome /\ worker.phase = "sending"
        /\ config' = config
    BY <1>2, <2>1 DEF Send, WorkerState
  <2>3. outcome = "permanent" => worker.claim[2] # File
    BY <2>1 DEF Send
  <2> QED
    BY <1>1, <2>2, <2>3 DEF FileIsServed
<1>12. CASE \E row : Marked(row) /\ Outcomes(row)
  <2>1. /\ worker'.conf = worker.conf /\ worker'.phase = "flushing"
        /\ worker.phase = "marking" /\ config' = config
    BY <1>2, <1>12 DEF Marked, WorkerState
  <2> QED
    BY <1>1, <2>1 DEF FileIsServed
<1>13. CASE StoreFault \/ Crash
  <2>1. worker'.phase \in {"closed", "dead"} /\ config' = config
    BY <1>13 DEF StoreFault, Crash, Closed, Dead, Idle
  <2> QED
    BY <1>1, <2>1 DEF FileIsServed
<1> QED
  BY <1>3, <1>4, <1>5, <1>6, <1>7, <1>8, <1>9, <1>10, <1>11, <1>12, <1>13,
     NextCases DEF Elsewhere

LEMMA AnswersCountStep ==
    ASSUME TypeOK, Flying, AnswersCount, [Next]_vars
    PROVE  AnswersCount'
<1>1. SUFFICES ASSUME NEW r \in Row, worker'.phase = "marking",
                      worker'.claim = r, worker'.outcome = "success"
               PROVE  got'[r] > 0
  BY DEF AnswersCount, Answered
<1>2. worker \in WorkerState /\ got \in [Row -> Nat]
  BY DEF TypeOK
<1>3. CASE \E urgent \in BOOLEAN, cs \in SUBSET Channel : Enqueue(urgent, cs)
  BY <1>1, <1>3 DEF Enqueue, AnswersCount, Answered
<1>4. CASE Reconfigure \/ TimePasses \/ UNCHANGED vars
  BY <1>1, <1>4 DEF Reconfigure, TimePasses, vars, AnswersCount, Answered
<1>5. CASE \E outcome \in Outcome : Send(outcome)
  <2>1. PICK outcome \in Outcome : Send(outcome)
    BY <1>5
  <2>2. worker'.claim = worker.claim /\ worker'.outcome = outcome
    BY <1>2, <2>1 DEF Send, WorkerState
  <2>3. got' = [got EXCEPT ![r] = got[r] + 1]
    BY <1>1, <2>1, <2>2 DEF Send
  <2> QED
    BY <1>1, <1>2, <2>3
<1>6. CASE \E c \in Row : Claim(c)
  <2>1. PICK c \in Row : Claim(c)
    BY <1>6
  <2>2. worker'.phase = "sending" \/ worker'.outcome = "permanent"
    BY <1>2, <2>1 DEF Claim, WorkerState
  <2> QED
    BY <1>1, <2>2
<1>7. CASE Open \/ EndFlush \/ StoreFault \/ Crash
  <2>1. worker' \in {Idle, Closed, Dead}
    BY <1>7 DEF Open, EndFlush, StoreFault, Crash
  <2> QED
    BY <1>1, <2>1 DEF Closed, Dead, Idle
<1>8. CASE StartFlush
  <2>1. worker'.phase \in {"flushing", "digest"}
    BY <1>8 DEF StartFlush, Idle
  <2> QED
    BY <1>1, <2>1
<1>9. CASE MakeDigest \/ \E row : Marked(row) /\ Outcomes(row)
  <2>1. worker'.phase = "flushing"
    BY <1>2, <1>9 DEF MakeDigest, Marked, WorkerState
  <2> QED
    BY <1>1, <2>1
<1> QED
  BY <1>3, <1>4, <1>5, <1>6, <1>7, <1>8, <1>9, NextCases DEF Elsewhere
(* What may still be repeated grows only where a fault or a crash pays.    *)
LEMMA RepeatableStep ==
    ASSUME TypeOK, RowsHaveNotes, Flying, [Next]_vars
    PROVE  \/ /\ Repeatable' \subseteq Repeatable
              /\ repeats' = repeats /\ faults' = faults /\ crashes' = crashes
           \/ /\ worker.claim \in Repeatable
              /\ Repeatable' \subseteq Repeatable \ {worker.claim}
              /\ repeats' = repeats + 1 /\ faults' = faults /\ crashes' = crashes
           \/ /\ Repeatable' \subseteq Repeatable \cup {worker.claim}
              /\ repeats' = repeats
              /\ \/ faults' = faults + 1 /\ crashes' = crashes
                 \/ crashes' = crashes + 1 /\ faults' = faults
<1> DEFINE Free == repeats' = repeats /\ faults' = faults /\ crashes' = crashes
<1>1. worker \in WorkerState /\ got \in [Row -> Nat]
  BY DEF TypeOK
<1> DEFINE In(r) == /\ got[r] > 0 /\ deliv[r].state \in {"pending", "sending"}
                    /\ ~Answered(r)
<1>2. \A r \in Row : r \in Repeatable <=> In(r)
  BY DEF Repeatable
<1>3. \A r : r \in Repeatable' <=>
               /\ r \in Row /\ got'[r] > 0
               /\ deliv'[r].state \in {"pending", "sending"}
               /\ ~Answered(r)'
  BY DEF Repeatable
<1>4. CASE \E urgent \in BOOLEAN, cs \in SUBSET Channel : Enqueue(urgent, cs)
  <2>1. PICK urgent \in BOOLEAN, cs \in SUBSET Channel : Enqueue(urgent, cs)
    BY <1>4
  <2>2. Free /\ worker' = worker /\ got' = got
    BY <2>1 DEF Enqueue
  <2>3. ASSUME NEW r \in Repeatable' PROVE r \in Repeatable
    <3>1. deliv'[r] = deliv[r]
      BY <1>1, <1>3, <2>1, <2>2, <2>3, EnqueueRows
    <3> QED
      BY <1>2, <1>3, <2>2, <2>3, <3>1 DEF Answered
  <2> QED
    BY <2>2, <2>3
<1>5. CASE Open
  <2>1. Free /\ got' = got /\ worker.phase = "closed"
    BY <1>5 DEF Open
  <2>2. ASSUME NEW r \in Repeatable' PROVE r \in Repeatable
    <3>1. deliv[r].state \in {"pending", "sending"} /\ r \in Row
      BY <1>3, <1>5, <2>2, OpenRows
    <3> QED
      BY <1>2, <1>3, <2>1, <2>2, <3>1 DEF Answered
  <2> QED
    BY <2>1, <2>2
<1>6. CASE MakeDigest
  <2>1. Free /\ got' = got /\ worker.phase = "digest"
    BY <1>6 DEF MakeDigest
  <2>2. ASSUME NEW r \in Repeatable' PROVE r \in Repeatable
    <3>1. deliv[r].state \in {"pending", "sending"} /\ r \in Row
      BY <1>1, <1>3, <1>6, <2>1, <2>2, DigestRows
    <3> QED
      BY <1>2, <1>3, <2>1, <2>2, <3>1 DEF Answered
  <2> QED
    BY <2>1, <2>2
<1>7. CASE \E c \in Row : Claim(c)
  <2>1. PICK c \in Row : Claim(c)
    BY <1>7
  <2>2. Free /\ got' = got /\ worker.phase = "flushing"
    BY <2>1 DEF Claim
  <2>3. ASSUME NEW r \in Repeatable' PROVE r \in Repeatable
    <3>1. deliv[r].state \in {"pending", "sending"} /\ r \in Row
      BY <1>3, <2>1, <2>3, ClaimRow
    <3> QED
      BY <1>2, <1>3, <2>2, <2>3, <3>1 DEF Answered
  <2> QED
    BY <2>2, <2>3
<1>8. CASE EndFlush
  <2>1. Free /\ got' = got /\ worker.phase = "flushing"
    BY <1>8 DEF EndFlush
  <2>2. ASSUME NEW r \in Repeatable' PROVE r \in Repeatable
    <3>1. deliv[r].state \in {"pending", "sending"} /\ r \in Row
      BY <1>3, <1>8, <2>2, EndFlushRows
    <3> QED
      BY <1>2, <1>3, <2>1, <2>2, <3>1 DEF Answered
  <2> QED
    BY <2>1, <2>2
<1>9. CASE \E row : Marked(row) /\ Outcomes(row)
  <2>1. PICK row : Marked(row) /\ Outcomes(row)
    BY <1>9
  <2>2. Free /\ got' = got
    BY <2>1 DEF Marked
  <2>3. ASSUME NEW r \in Repeatable' PROVE r \in Repeatable
    <3>1. CASE r = worker.claim
      <4>1. row.state = "pending" /\ worker.outcome # "success"
        BY <1>3, <2>1, <2>3, <3>1, MarkedRow DEF Outcomes
      <4>2. In(r)
        BY <1>3, <2>1, <2>2, <2>3, <3>1, <4>1, MarkedRow DEF Answered
      <4> QED
        BY <1>2, <1>3, <2>3, <4>2
    <3>2. CASE r # worker.claim
      <4>1. deliv'[r] = deliv[r]
        BY <1>3, <2>1, <2>3, <3>2, MarkedRow
      <4> QED
        BY <1>2, <1>3, <2>2, <2>3, <3>2, <4>1 DEF Answered
    <3> QED
      BY <3>1, <3>2
  <2> QED
    BY <2>2, <2>3
<1>10. CASE \E outcome \in Outcome : Send(outcome)
  <2>1. PICK outcome \in Outcome : Send(outcome)
    BY <1>10
  <2> DEFINE c == worker.claim
  <2>2. c \in Row /\ deliv[c].state = "sending" /\ deliv' = deliv
        /\ worker.phase = "sending" /\ faults' = faults /\ crashes' = crashes
    BY <2>1 DEF Send, Flying
  <2>3. worker'.phase = "marking" /\ worker'.claim = c
        /\ worker'.outcome = outcome
    BY <1>1, <2>1 DEF Send, WorkerState
  <2>4. \A r \in Row : ~Answered(r)
    BY <2>2 DEF Answered
  <2>5. CASE outcome = "success"
    <3>1. got' = [got EXCEPT ![c] = got[c] + 1]
      BY <2>1, <2>5 DEF Send
    <3>2. ASSUME NEW r \in Repeatable' PROVE r \in Repeatable /\ r # c
      <4>1. r # c /\ r \in Row
        BY <1>3, <2>3, <2>5, <3>2 DEF Answered
      <4>2. got'[r] = got[r]
        BY <1>1, <2>2, <3>1, <4>1
      <4> QED
        BY <1>2, <1>3, <2>2, <2>4, <3>2, <4>1, <4>2
    <3>3. CASE got[c] > 0
      <4>1. c \in Repeatable
        BY <1>2, <2>2, <2>4, <3>3
      <4>2. repeats' = repeats + 1
        BY <2>1, <2>5, <3>3 DEF Send
      <4> QED
        BY <2>2, <3>2, <4>1, <4>2
    <3>4. CASE ~(got[c] > 0)
      <4>1. repeats' = repeats
        BY <2>1, <3>4 DEF Send
      <4> QED
        BY <2>2, <3>2, <4>1
    <3> QED
      BY <3>3, <3>4
  <2>6. CASE outcome # "success"
    <3>1. got' = got /\ repeats' = repeats
      BY <2>1, <2>6 DEF Send
    <3>2. ASSUME NEW r \in Repeatable' PROVE r \in Repeatable
      BY <1>2, <1>3, <2>2, <2>4, <3>1, <3>2
    <3> QED
      BY <2>2, <3>1, <3>2
  <2> QED
    BY <2>5, <2>6
<1>11. CASE Reconfigure \/ TimePasses \/ UNCHANGED vars
  <2>1. Free /\ got' = got /\ deliv' = deliv /\ worker' = worker
    BY <1>11 DEF Reconfigure, TimePasses, vars
  <2>2. Repeatable' = Repeatable
    BY <2>1 DEF Repeatable, Answered
  <2> QED
    BY <2>1, <2>2
<1>12. CASE StartFlush
  <2>1. Free /\ got' = got /\ deliv' = deliv /\ worker.phase = "idle"
    BY <1>12 DEF StartFlush
  <2>2. ASSUME NEW r \in Repeatable' PROVE r \in Repeatable
    BY <1>2, <1>3, <2>1, <2>2 DEF Answered
  <2> QED
    BY <2>1, <2>2
<1>13. CASE StoreFault \/ Crash
  <2>1. /\ repeats' = repeats /\ got' = got /\ deliv' = deliv
        /\ \/ faults' = faults + 1 /\ crashes' = crashes
           \/ crashes' = crashes + 1 /\ faults' = faults
    BY <1>13 DEF StoreFault, Crash
  <2>2. ASSUME NEW r \in Repeatable', r # worker.claim PROVE r \in Repeatable
    BY <1>2, <1>3, <2>1, <2>2 DEF Answered
  <2> QED
    BY <2>1, <2>2
<1> QED
  BY <1>4, <1>5, <1>6, <1>7, <1>8, <1>9, <1>10, <1>11, <1>12, <1>13, NextCases
     DEF Elsewhere

LEMMA BudgetStep ==
    ASSUME TypeOK, RowsHaveNotes, Flying, Budget, [Next]_vars
    PROVE  Budget'
<1> DEFINE R == Repeatable
<1> DEFINE P == Repeatable'
<1> DEFINE c == worker.claim
<1>1. R \in SUBSET Row /\ P \in SUBSET Row
  BY DEF Repeatable
<1>2. /\ IsFiniteSet(R) /\ Cardinality(R) \in Nat
      /\ IsFiniteSet(P) /\ Cardinality(P) \in Nat
  BY <1>1, RowsAreFinite
<1>3. repeats + Cardinality(R) <= faults + crashes
  BY DEF Budget
<1>4. SUFFICES repeats' + Cardinality(P) <= faults' + crashes'
  BY DEF Budget
<1>5. repeats \in Nat /\ faults \in Nat /\ crashes \in Nat
  BY DEF TypeOK
<1>6. \/ P \subseteq R /\ repeats' = repeats /\ faults' = faults
           /\ crashes' = crashes
      \/ c \in R /\ P \subseteq R \ {c} /\ repeats' = repeats + 1
           /\ faults' = faults /\ crashes' = crashes
      \/ /\ P \subseteq R \cup {c} /\ repeats' = repeats
         /\ \/ faults' = faults + 1 /\ crashes' = crashes
            \/ crashes' = crashes + 1 /\ faults' = faults
  BY RepeatableStep
<1> HIDE DEF R, P, c
<1>7. CASE P \subseteq R /\ repeats' = repeats /\ faults' = faults
           /\ crashes' = crashes
  <2>1. Cardinality(P) <= Cardinality(R)
    BY <1>2, <1>7, FS_Subset
  <2> QED
    BY <1>2, <1>3, <1>5, <1>7, <2>1
<1>8. CASE c \in R /\ P \subseteq R \ {c} /\ repeats' = repeats + 1
           /\ faults' = faults /\ crashes' = crashes
  <2>1. IsFiniteSet(R \ {c}) /\ Cardinality(R \ {c}) = Cardinality(R) - 1
    BY <1>2, <1>8, FS_RemoveElement
  <2>2. Cardinality(P) <= Cardinality(R \ {c})
    BY <1>8, <2>1, FS_Subset
  <2> QED
    BY <1>2, <1>3, <1>5, <1>8, <2>1, <2>2
<1>9. CASE /\ P \subseteq R \cup {c} /\ repeats' = repeats
           /\ \/ faults' = faults + 1 /\ crashes' = crashes
              \/ crashes' = crashes + 1 /\ faults' = faults
  <2>1. /\ IsFiniteSet(R \cup {c})
        /\ Cardinality(R \cup {c}) = Cardinality(R)
             \/ Cardinality(R \cup {c}) = Cardinality(R) + 1
    BY <1>2, FS_AddElement
  <2>2. Cardinality(P) <= Cardinality(R \cup {c})
    BY <1>9, <2>1, FS_Subset
  <2> QED
    BY <1>2, <1>3, <1>5, <1>9, <2>1, <2>2
<1> QED
  BY <1>6, <1>7, <1>8, <1>9
-----------------------------------------------------------------------------
(* Theorems *)

LEMMA InvariantStep == IInv /\ [Next]_vars => IInv'
<1>1. SUFFICES ASSUME IInv, [Next]_vars PROVE IInv'
  OBVIOUS
<1>2. TypeOK /\ RowsHaveNotes /\ RowsAreMarked /\ Flying /\ FileIsServed
      /\ AnswersCount /\ FileNeverFails /\ Budget
  BY <1>1 DEF IInv
<1>3. TypeOK'
  BY <1>1, <1>2, TypeStep
<1>4. RowsHaveNotes' /\ RowsAreMarked' /\ Flying'
  BY <1>1, <1>2, RowsHaveNotesStep, RowsAreMarkedStep, FlyingStep
<1>5. FileIsServed' /\ AnswersCount' /\ FileNeverFails' /\ Budget'
  BY <1>1, <1>2, FileIsServedStep, AnswersCountStep, FileNeverFailsStep,
     BudgetStep
<1> QED
  BY <1>3, <1>4, <1>5 DEF IInv

(* The inductive invariant holds in every behaviour of the outbox.         *)
THEOREM IInvHolds == Spec => []IInv
<1>1. Init => IInv
  BY InitialInvariant
<1>2. IInv /\ [Next]_vars => IInv'
  BY InvariantStep
<1> QED
  BY <1>1, <1>2, PTL DEF Spec

(* The rows, the worker and the clock keep their types; a flush never      *)
(* claims more rows than it counted.                                       *)
THEOREM TypeCorrect == Spec => []TypeOK
<1>1. IInv => TypeOK
  BY DEF IInv
<1> QED
  BY <1>1, IInvHolds, PTL

(* Never two rows in flight, and the row at the adapter is marked so.      *)
THEOREM OneIsInFlight == Spec => []OneInFlight
<1>1. IInv => OneInFlight
  BY DEF IInv, Flying, OneInFlight
<1> QED
  BY <1>1, IInvHolds, PTL

(* NO-04: however the faults and crashes fall, the receivers together see  *)
(* at most one repeat for each of them.                                    *)
THEOREM RepeatsAreBounded == Spec => []BoundedRepeats
<1>1. ASSUME IInv PROVE BoundedRepeats
  <2>1. Cardinality(Repeatable) \in Nat
    BY RowsAreFinite DEF Repeatable
  <2>2. repeats \in Nat /\ faults \in Nat /\ crashes \in Nat
    BY <1>1 DEF IInv, TypeOK
  <2>3. repeats + Cardinality(Repeatable) <= faults + crashes
    BY <1>1 DEF IInv, Budget
  <2> QED
    BY <2>1, <2>2, <2>3 DEF BoundedRepeats
<1> QED
  BY <1>1, IInvHolds, PTL

(* NO-07: no file delivery ever becomes failed. *)
THEOREM FileIsNeverGivenUp == Spec => []FileNeverFails
<1>1. IInv => FileNeverFails
  BY DEF IInv
<1> QED
  BY <1>1, IInvHolds, PTL

Settled == {"delivered", "failed"}

LEMMA SettledStep ==
    ASSUME IInv, [Next]_vars, NEW r \in Row, deliv[r].state \in Settled
    PROVE  deliv'[r] = deliv[r] /\ got'[r] = got[r]
<1>1. TypeOK /\ RowsHaveNotes /\ RowsAreMarked /\ Flying
  BY DEF IInv
<1>2. deliv[r].state # "sending" /\ deliv[r].state # "pending"
      /\ deliv[r].state # "none" /\ deliv[r].next = 0
  BY <1>1 DEF Settled, RowsAreMarked
<1>3. CASE \E urgent \in BOOLEAN, cs \in SUBSET Channel : Enqueue(urgent, cs)
  <2>1. PICK urgent \in BOOLEAN, cs \in SUBSET Channel : Enqueue(urgent, cs)
    BY <1>3
  <2>2. got' = got
    BY <2>1 DEF Enqueue
  <2> QED
    BY <1>1, <1>2, <2>1, <2>2, EnqueueRows
<1>4. CASE Open
  <2>1. got' = got
    BY <1>4 DEF Open
  <2> QED
    BY <1>1, <1>2, <1>4, <2>1, OpenRows
<1>5. CASE MakeDigest
  <2>1. got' = got
    BY <1>5 DEF MakeDigest
  <2> QED
    BY <1>1, <1>2, <1>5, <2>1, DigestRows
<1>6. CASE \E c \in Row : Claim(c)
  <2>1. PICK c \in Row : Claim(c)
    BY <1>6
  <2>2. got' = got
    BY <2>1 DEF Claim
  <2> QED
    BY <1>1, <1>2, <2>1, <2>2, ClaimRow
<1>7. CASE EndFlush
  <2>1. got' = got
    BY <1>7 DEF EndFlush
  <2> QED
    BY <1>1, <1>2, <1>7, <2>1, EndFlushRows
<1>8. CASE \E row : Marked(row) /\ Outcomes(row)
  <2>1. PICK row : Marked(row) /\ Outcomes(row)
    BY <1>8
  <2>2. got' = got
    BY <2>1 DEF Marked
  <2> QED
    BY <1>1, <1>2, <2>1, <2>2, MarkedRow
<1>9. CASE Elsewhere
  <2>1. got'[r] = got[r] \/ (r = worker.claim /\ worker.phase = "sending")
    BY <1>1, <1>9 DEF Elsewhere, Reconfigure, TimePasses, vars, StartFlush,
       StoreFault, Crash, Send, TypeOK
  <2> QED
    BY <1>1, <1>2, <1>9, <2>1, ElsewhereKeepsRows DEF Flying
<1> QED
  BY <1>1, <1>3, <1>4, <1>5, <1>6, <1>7, <1>8, <1>9, NextCases

(* DM-18: once delivered or failed, a row is never changed or sent again.  *)
THEOREM SettledStaysFinal == Spec => SettledIsFinal
<1>1. ASSUME IInv, [Next]_vars
      PROVE  [\A r \in Row : deliv[r].state \in {"delivered", "failed"} =>
                deliv'[r] = deliv[r] /\ got'[r] = got[r]]_vars
  BY <1>1, SettledStep DEF Settled
<1> QED
  BY <1>1, IInvHolds, PTL DEF Spec, SettledIsFinal
-----------------------------------------------------------------------------
(* The outbox implements Obligations *)

Duties == [r \in Row |-> DutyOf(r)]

LEMMA InitImplements == Init => Promise!Init
<1>1. SUFFICES ASSUME Init PROVE Promise!Init
  OBVIOUS
<1>2. \A r \in Row : DutyOf(r) = "none"
  BY <1>1 DEF Init, NoDelivery, DutyOf
<1> QED
  BY <1>1, <1>2 DEF Init, Promise!Init

(* Two rows that agree in what DutyOf reads have the same duty.            *)
LEMMA SameDuty ==
    ASSUME NEW r \in Row, got'[r] = got[r],
           \/ deliv'[r].state = deliv[r].state
           \/ {deliv'[r].state, deliv[r].state} \subseteq {"pending", "sending"}
    PROVE  DutyOf(r)' = DutyOf(r)
BY DEF DutyOf

LEMMA StepImplements ==
    ASSUME IInv, [Next]_vars
    PROVE  [Promise!Next]_<<Duties, got>>
<1>1. TypeOK /\ RowsHaveNotes /\ RowsAreMarked /\ Flying /\ AnswersCount
  BY DEF IInv
<1>2. /\ worker \in WorkerState /\ got \in [Row -> Nat]
      /\ notes \in [Id -> NoteRow]
  BY <1>1 DEF TypeOK
<1>3. ASSUME got' = got, \A r \in Row : DutyOf(r)' = DutyOf(r)
      PROVE  UNCHANGED <<Duties, got>>
  BY <1>3 DEF Duties
<1>4. CASE \E urgent \in BOOLEAN, cs \in SUBSET Channel : Enqueue(urgent, cs)
  <2>1. PICK urgent \in BOOLEAN, cs \in SUBSET Channel : Enqueue(urgent, cs)
    BY <1>4
  <2> DEFINE S == {r \in Row : r[1] = NextId /\ r[2] \in cs}
  <2>2. got' = got
    BY <2>1 DEF Enqueue
  <2>3. \A r \in S : DutyOf(r) = "none" /\ DutyOf(r)' = "owed"
    BY <1>1, <2>1, EnqueueRows DEF DutyOf
  <2>4. \A r \in Row \ S : DutyOf(r)' = DutyOf(r)
    BY <1>1, <2>1, <2>2, EnqueueRows, SameDuty
  <2>5. Promise!Owe(S)
    BY <2>2, <2>3, <2>4 DEF Promise!Owe
  <2> QED
    BY <2>5 DEF Promise!Next
<1>5. CASE Open
  <2>1. got' = got
    BY <1>5 DEF Open
  <2> QED
    BY <1>1, <1>3, <1>5, <2>1, OpenRows, SameDuty
<1>6. CASE MakeDigest
  <2> DEFINE S == {r \in Row : r \in Foldable}
  <2> DEFINE T == {r \in Row : r[1] = NextId /\ r[2] \in FoldChannels}
  <2>1. got' = got /\ NextId \in Id
    <3>1. NextId \in 1..(MaxNote + 1) /\ NextId <= MaxNote
      BY <1>2, <1>6, NextIdIsFree DEF MakeDigest
    <3>2. NextId \in 1..MaxNote
      BY <3>1, OutboxAssumption
    <3> QED
      BY <1>6, <3>2 DEF MakeDigest, Id
  <2>2. \A r \in T : DutyOf(r) = "none" /\ DutyOf(r)' = "owed"
    BY <1>1, <1>6, DigestRows DEF DutyOf
  <2>3. \A r \in S \ T : /\ DutyOf(r) = "owed"
                         /\ DutyOf(r)' = IF got[r] > 0 THEN "done" ELSE "folded"
    BY <1>1, <1>6, <2>1, DigestRows DEF DutyOf
  <2>4. \A r \in Row : r \notin S /\ r \notin T => DutyOf(r)' = DutyOf(r)
    BY <1>1, <1>6, <2>1, DigestRows, SameDuty
  <2>5. \A r \in S : DutyOf(r) = "owed" /\ r \notin T
    BY <1>1, <1>6, DigestRows DEF DutyOf, Foldable, Pending
  <2>6. \A r \in S : \E e \in T : ChannelOf(e) = ChannelOf(r)
    <3>1. ASSUME NEW r \in S PROVE \E e \in T : ChannelOf(e) = ChannelOf(r)
      <4>1. r[2] \in FoldChannels /\ r[2] \in Channel
        BY DEF FoldChannels, Row
      <4>2. <<NextId, r[2]>> \in T
        BY <2>1, <4>1 DEF Row
      <4> QED
        BY <4>2 DEF ChannelOf
    <3> QED
      BY <3>1
  <2>7. Promise!Fold(S, T)
    BY <2>1, <2>2, <2>3, <2>4, <2>5, <2>6 DEF Promise!Fold
  <2> QED
    BY <2>7 DEF Promise!Next
<1>7. CASE \E c \in Row : Claim(c)
  <2>1. PICK c \in Row : Claim(c)
    BY <1>7
  <2>2. got' = got
    BY <2>1 DEF Claim
  <2>3. \A r \in Row : DutyOf(r)' = DutyOf(r)
    BY <1>1, <2>1, <2>2, ClaimRow, SameDuty
  <2> QED
    BY <1>3, <2>2, <2>3
<1>8. CASE EndFlush
  <2>1. got' = got
    BY <1>8 DEF EndFlush
  <2> QED
    BY <1>1, <1>3, <1>8, <2>1, EndFlushRows, SameDuty
<1>9. CASE \E row : Marked(row) /\ Outcomes(row)
  <2>1. PICK row : Marked(row) /\ Outcomes(row)
    BY <1>9
  <2>0. PICK c \in Row : c = worker.claim
    BY <1>1, <2>1, MarkedRow
  <2>2. got' = got /\ DutyOf(c) = "owed"
    BY <1>1, <2>0, <2>1, MarkedRow DEF Marked, DutyOf
  <2>3. \A r \in Row \ {c} : DutyOf(r)' = DutyOf(r)
    BY <1>1, <2>0, <2>1, <2>2, MarkedRow, SameDuty
  <2>4. deliv'[c] = row
    BY <1>1, <2>0, <2>1, MarkedRow
  <2>5. CASE row.state = "delivered"
    <3>1. got[c] > 0
      BY <1>1, <2>0, <2>1, <2>2, <2>5 DEF AnswersCount, Answered, Outcomes, Marked
    <3>2. DutyOf(c)' = "done"
      BY <2>2, <2>4, <2>5, <3>1 DEF DutyOf
    <3>3. Promise!Done(c)
      BY <2>2, <2>3, <3>1, <3>2 DEF Promise!Done
    <3> QED
      BY <2>2, <3>3 DEF Promise!Next
  <2>6. CASE row.state = "failed"
    <3>1. DutyOf(c)' = "failed"
      BY <2>4, <2>6 DEF DutyOf
    <3>2. Promise!GiveUp(c)
      BY <2>2, <2>3, <3>1 DEF Promise!GiveUp
    <3> QED
      BY <2>2, <3>2 DEF Promise!Next
  <2>7. CASE row.state = "pending"
    <3>1. DutyOf(c)' = "owed"
      BY <2>4, <2>7 DEF DutyOf
    <3> QED
      BY <1>3, <2>2, <2>3, <3>1
  <2> QED
    BY <2>1, <2>5, <2>6, <2>7 DEF Outcomes
<1>10. CASE Elsewhere
  <2>1. deliv' = deliv
    BY <1>10, ElsewhereKeepsRows
  <2>2. CASE got' = got
    BY <1>3, <2>1, <2>2, SameDuty
  <2>3. CASE got' # got
    <3>1. PICK outcome \in Outcome : Send(outcome)
      BY <1>10, <2>3 DEF Elsewhere, Reconfigure, TimePasses, vars, StartFlush,
         StoreFault, Crash
    <3>0. PICK c \in Row : c = worker.claim
      BY <1>1, <3>1 DEF Send, Flying
    <3>2. /\ DutyOf(c) = "owed" /\ deliv[c].state = "sending"
          /\ got' = [got EXCEPT ![c] = got[c] + 1]
      BY <1>1, <2>3, <3>0, <3>1 DEF Send, Flying, DutyOf
    <3>3. \A r \in Row : DutyOf(r)' = DutyOf(r)
      <4>1. DutyOf(c)' = DutyOf(c)
        BY <2>1, <3>2 DEF DutyOf
      <4>2. \A r \in Row \ {c} : got'[r] = got[r]
        BY <1>2, <3>2
      <4> QED
        BY <2>1, <4>1, <4>2, SameDuty
    <3>4. Promise!Receive(c)
      BY <3>2, <3>3 DEF Promise!Receive
    <3> QED
      BY <3>2, <3>4 DEF Promise!Next
  <2> QED
    BY <2>2, <2>3
<1> QED
  BY <1>1, <1>4, <1>5, <1>6, <1>7, <1>8, <1>9, <1>10, NextCases

(* NO-03, NO-04, NO-07: the outbox implements Obligations.                 *)
THEOREM ImplementsObligations == Spec => KeepsPromises
<1>1. Init => Promise!Init
  BY InitImplements
<1>2. IInv /\ [Next]_vars => [Promise!Next]_<<Duties, got>>
  BY StepImplements
<1> QED
  BY <1>1, <1>2, IInvHolds, PTL DEF Spec, KeepsPromises, Promise!Spec, Duties
=============================================================================
