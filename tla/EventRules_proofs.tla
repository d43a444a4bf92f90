-------------------------- MODULE EventRules_proofs --------------------------
(***************************************************************************)
(* The storm guard keeps its limit and its count for every limit, every    *)
(* length of a minute and every load; a rule never has two live rows; and  *)
(* every incident stands for the matches it counts, no burst is missed, no *)
(* episode ends before it is quiet.                                        *)
(*                                                                         *)
(* The limit is a sum over the ticks of a minute, the guard compares one   *)
(* tick's candidates with what is left. What ties the two together is that *)
(* as long as no storm is on, the guard's own count of the minute is not   *)
(* behind the books, and that a minute in which something was stored is    *)
(* the guard's minute, so that no storm ends in it.                        *)
(***************************************************************************)
EXTENDS EventRules, SequenceTheorems, FiniteSetTheorems, WellFoundedInduction, TLAPS

USE StormAssumption, EventAssumption

StormType == [bucket : Int, stored : Nat, active : BOOLEAN, suppressed : Nat]
BooksType == [offered : Nat, kept : Nat, told : Nat, minute : Int, inMinute : Nat]

Typed == storm \in StormType /\ books \in BooksType

\* Without a storm nothing is suppressed and the count is within the limit.
CalmIsCounted == ~storm.active => storm.suppressed = 0 /\ storm.stored <= StormLimit
\* A minute in which something was stored is the guard's minute; ...
MinuteIsGuarded == books.inMinute > 0 => storm.bucket = books.minute
\* ... and if no storm is on in it, the guard has counted what was stored.
CountIsAhead ==
    ~storm.active /\ storm.bucket = books.minute => books.inMinute <= storm.stored

IInv == Typed /\ CalmIsCounted /\ MinuteIsGuarded /\ CountIsAhead /\ StormKeepsBooks
-----------------------------------------------------------------------------
LEMMA BucketIsInt == ASSUME NEW t \in Nat PROVE Bucket(t) \in Int
BY DEF Bucket

(* What the guard does to the candidates of a tick: as many are stored as  *)
(* there is room for, the others are suppressed.                           *)
LEMMA OfferSplits ==
    ASSUME NEW st \in StormType, NEW n \in Nat, NEW t \in Nat,
           ~st.active => st.suppressed = 0 /\ st.stored <= StormLimit
    PROVE  LET o == Offered(st, n, t)
               kept == KeptOf(st, n, t)
           IN /\ o \in StormType
              /\ kept \in 0 .. n
              /\ o.suppressed + kept = st.suppressed + n
              /\ ~o.active => o.suppressed = 0 /\ o.stored <= StormLimit
              /\ kept <= StormLimit
              /\ n > 0 => o.bucket = Bucket(t)
              /\ n = 0 => o = st /\ kept = 0
              /\ st.active => kept = 0
              /\ ~o.active => ~st.active
              /\ st.bucket = Bucket(t) /\ ~st.active => kept + st.stored <= StormLimit
              /\ st.bucket = Bucket(t) /\ ~o.active => o.stored = st.stored + kept
              /\ st.bucket # Bucket(t) /\ ~o.active /\ n > 0 => o.stored = kept
<1> DEFINE s == Turned(st, t)
<1>1. Bucket(t) \in Int
  BY BucketIsInt
<1>2. /\ s \in StormType
      /\ s.bucket = Bucket(t)
      /\ s.active = st.active
      /\ s.suppressed = st.suppressed
      /\ s.stored = IF Bucket(t) = st.bucket THEN st.stored ELSE 0
  BY <1>1 DEF Turned, StormType
<1>3. Room(s) = IF s.active THEN 0 ELSE StormLimit - s.stored
  BY <1>2 DEF Room, StormType
<1>4. CASE n = 0
  BY <1>4 DEF Offered, KeptOf, StormType
<1>5. CASE n > 0 /\ s.active
  <2>1. Offered(st, n, t) = [s EXCEPT !.suppressed = @ + n]
    BY <1>5 DEF Offered
  <2>2. KeptOf(st, n, t) = 0
    BY <1>3, <1>5 DEF KeptOf
  <2> HIDE DEF s
  <2> QED
    BY <1>2, <1>5, <2>1, <2>2 DEF StormType
<1>6. CASE n > 0 /\ ~s.active /\ n <= Room(s)
  <2>1. Offered(st, n, t) = [s EXCEPT !.stored = @ + n]
    BY <1>6 DEF Offered
  <2>2. KeptOf(st, n, t) = n
    BY <1>2, <1>3, <1>6 DEF KeptOf, StormType
  <2> HIDE DEF s
  <2> QED
    BY <1>2, <1>3, <1>6, <2>1, <2>2 DEF StormType
<1>7. CASE n > 0 /\ ~s.active /\ ~(n <= Room(s))
  <2>1. Offered(st, n, t) = [s EXCEPT !.stored = StormLimit + 1, !.active = TRUE,
                                      !.suppressed = n - Room(s)]
    BY <1>7 DEF Offered
  <2>2. KeptOf(st, n, t) = Room(s)
    BY <1>2, <1>3, <1>7 DEF KeptOf, StormType
  <2> HIDE DEF s
  <2>3. Room(s) \in 0 .. StormLimit /\ Room(s) < n
        /\ Room(s) = StormLimit - s.stored
    BY <1>2, <1>3, <1>7 DEF StormType
  <2>4. /\ Offered(st, n, t) \in StormType
        /\ Offered(st, n, t).active
        /\ Offered(st, n, t).bucket = Bucket(t)
        /\ Offered(st, n, t).suppressed = n - Room(s)
    <3>1. n - Room(s) \in Nat /\ StormLimit + 1 \in Nat
      BY <2>3
    <3>2. Offered(st, n, t) = [bucket |-> Bucket(t), stored |-> StormLimit + 1,
                               active |-> TRUE, suppressed |-> n - Room(s)]
      BY <1>2, <2>1, Zenon DEF StormType
    <3> QED
      BY <1>1, <3>1, <3>2 DEF StormType
  <2> QED
    BY <1>2, <1>7, <2>2, <2>3, <2>4 DEF StormType
<1> QED
  BY <1>2, <1>4, <1>5, <1>6, <1>7 DEF StormType

LEMMA CloseTells ==
    ASSUME NEW st \in StormType, NEW t \in Nat
    PROVE  /\ Closed(st, t) \in StormType
           /\ Quiet(st, t) => Closed(st, t) = [bucket |-> Bucket(t), stored |-> 0,
                                               active |-> FALSE, suppressed |-> 0]
           /\ ~Quiet(st, t) => Closed(st, t) = st
<1>1. Bucket(t) \in Int
  BY BucketIsInt
<1> QED
  BY <1>1 DEF Closed, NoStorm, StormType

LEMMA InitIInv == GuardInit => IInv
BY DEF GuardInit, IInv, Typed, StormType, BooksType, NoStorm, NoBooks, CalmIsCounted,
       MinuteIsGuarded, CountIsAhead, StormKeepsBooks, MinuteIsBounded, NothingUncounted

LEMMA GuardKeeps ==
    ASSUME IInv, NEW n \in Nat, NEW t \in Nat, Guard(n, t)
    PROVE  IInv'
<1> DEFINE st   == Offered(storm, n, t)
           kept == KeptOf(storm, n, t)
           b    == Bucket(t)
           told == IF Quiet(st, t) THEN st.suppressed ELSE 0
           here == IF books.minute = b THEN books.inMinute ELSE 0
<1>1. /\ storm \in StormType /\ books \in BooksType /\ b \in Int
      /\ ~storm.active => storm.suppressed = 0 /\ storm.stored <= StormLimit
  BY BucketIsInt DEF IInv, Typed, CalmIsCounted
<1>2. /\ st \in StormType
      /\ kept \in 0 .. n
      /\ st.suppressed + kept = storm.suppressed + n
      /\ ~st.active => st.suppressed = 0 /\ st.stored <= StormLimit
      /\ kept <= StormLimit
      /\ n > 0 => st.bucket = b
      /\ n = 0 => st = storm /\ kept = 0
      /\ storm.active => kept = 0
      /\ ~st.active => ~storm.active
      /\ storm.bucket = b /\ ~storm.active => kept + storm.stored <= StormLimit
      /\ storm.bucket = b /\ ~st.active => st.stored = storm.stored + kept
      /\ storm.bucket # b /\ ~st.active /\ n > 0 => st.stored = kept
  BY <1>1, OfferSplits
<1>3. /\ storm' \in StormType
      /\ Quiet(st, t) => storm' = [bucket |-> b, stored |-> 0,
                                   active |-> FALSE, suppressed |-> 0]
      /\ ~Quiet(st, t) => storm' = st
  BY <1>2, CloseTells DEF Guard
<1>4. books' = [offered |-> books.offered + n, kept |-> books.kept + kept,
                told |-> books.told + told, minute |-> b, inMinute |-> kept + here]
  BY DEF Guard
<1>5. Quiet(st, t) <=> st.active /\ b > st.bucket
  BY DEF Quiet
<1>6. /\ books.inMinute <= StormLimit
      /\ books.offered = books.kept + books.told + storm.suppressed
      /\ books.inMinute > 0 => storm.bucket = books.minute
      /\ ~storm.active /\ storm.bucket = books.minute => books.inMinute <= storm.stored
  BY DEF IInv, MinuteIsGuarded, CountIsAhead, StormKeepsBooks, MinuteIsBounded,
         NothingUncounted
<1> HIDE DEF st, kept, b
<1>7. Quiet(st, t) => n = 0 /\ st = storm /\ kept = 0 /\ here = 0
  BY <1>1, <1>2, <1>5, <1>6 DEF StormType, BooksType
<1>8. here \in Nat /\ told \in Nat
  BY <1>1, <1>2 DEF StormType, BooksType
<1>9. books' \in BooksType
  BY <1>1, <1>2, <1>4, <1>8 DEF BooksType
<1>10. /\ books'.offered = books.offered + n /\ books'.kept = books.kept + kept
       /\ books'.told = books.told + told /\ books'.minute = b
       /\ books'.inMinute = kept + here
  BY <1>4
<1> HIDE DEF told
<1>11. kept + here <= StormLimit
  BY <1>1, <1>2, <1>6 DEF StormType, BooksType
<1>12. told = IF Quiet(st, t) THEN st.suppressed ELSE 0
  BY DEF told
<1>13. CASE Quiet(st, t)
  <2>1. storm'.bucket = b /\ storm'.stored = 0 /\ ~storm'.active /\ storm'.suppressed = 0
    BY <1>3, <1>13
  <2>2. /\ books'.inMinute = 0
        /\ books'.offered = books'.kept + books'.told + storm'.suppressed
    BY <1>1, <1>2, <1>6, <1>7, <1>10, <1>12, <1>13, <2>1 DEF StormType, BooksType
  <2> QED
    BY <1>3, <1>9, <2>1, <2>2
    DEF IInv, Typed, CalmIsCounted, MinuteIsGuarded, CountIsAhead, StormKeepsBooks,
        MinuteIsBounded, NothingUncounted
<1>14. CASE ~Quiet(st, t)
  <2>1. storm' = st
    BY <1>3, <1>14
  <2>2. books'.offered = books'.kept + books'.told + storm'.suppressed
    BY <1>1, <1>2, <1>6, <1>10, <1>12, <1>14, <2>1 DEF StormType, BooksType
  <2>3. kept + here > 0 => st.bucket = b
    BY <1>1, <1>2, <1>6 DEF StormType, BooksType
  <2>4. ~st.active /\ st.bucket = b => kept + here <= st.stored
    BY <1>1, <1>2, <1>6 DEF StormType, BooksType
  <2> QED
    BY <1>2, <1>3, <1>9, <1>10, <1>11, <2>1, <2>2, <2>3, <2>4
    DEF IInv, Typed, CalmIsCounted, MinuteIsGuarded, CountIsAhead, StormKeepsBooks,
        MinuteIsBounded, NothingUncounted
<1> QED
  BY <1>13, <1>14

LEMMA NextIInv == IInv /\ [GuardNext]_guardVars => IInv'
<1> SUFFICES ASSUME IInv, [GuardNext]_guardVars
             PROVE  IInv'
  OBVIOUS
<1>1. CASE GuardNext
  <2>1. PICK t \in Nat : GuardAnew(t) \/ \E n \in Nat : Guard(n, t)
    BY <1>1 DEF GuardNext
  <2>2. CASE GuardAnew(t)
    BY <2>2 DEF GuardAnew, IInv, Typed, StormType, BooksType, NoStorm, NoBooks,
                CalmIsCounted, MinuteIsGuarded, CountIsAhead, StormKeepsBooks,
                MinuteIsBounded, NothingUncounted
  <2>3. CASE \E n \in Nat : Guard(n, t)
    BY <2>3, GuardKeeps
  <2> QED
    BY <2>1, <2>2, <2>3
<1>2. CASE UNCHANGED guardVars
  BY <1>2 DEF guardVars, IInv, Typed, CalmIsCounted, MinuteIsGuarded, CountIsAhead,
              StormKeepsBooks, MinuteIsBounded, NothingUncounted
<1> QED
  BY <1>1, <1>2

(* DM-10 for every limit and every load: no minute stores more than the    *)
(* limit, and what is not stored is in a report or in the storm that is    *)
(* still on (StormKeepsBooks).                                             *)
THEOREM StormAlwaysKeepsBooks == GuardSpec => []StormKeepsBooks
<1>1. IInv => StormKeepsBooks
  BY DEF IInv
<1> QED
  BY <1>1, InitIInv, NextIInv, PTL DEF GuardSpec

(* Every step of the event engine is a step of its guard or leaves the     *)
(* guard alone: the storm guard's promise is the event engine's.           *)
LEMMA TimeIsNat == Init => now = 0
BY DEF Init, GuardInit

LEMMA LaterIsLater ==
    ASSUME now \in Nat, now < MaxNow, NEW t \in Later
    PROVE  t \in Nat /\ t > now
BY DEF Later, AtMost

LEMMA StepGuards ==
    ASSUME now \in Nat, [Next]_vars
    PROVE  [GuardNext]_guardVars /\ now' \in Nat
<1>1. ASSUME NEW hits \in Drained, NEW others \in 0 .. MaxOthers, NEW scan \in BOOLEAN,
             Tick(hits, others, scan)
      PROVE  GuardNext /\ now' \in Nat
  <2>1. now < MaxNow
    BY <1>1 DEF Tick
  <2>2. PICK t \in Later : Guard(hits.records + others, t)
    BY <1>1 DEF Tick
  <2>3. t \in Nat /\ t > now
    BY <2>1, LaterIsLater
  <2>4. hits.records \in Nat
    BY DEF Drained
  <2>5. hits.records + others \in Nat
    BY <2>4
  <2>6. now' = t
    BY <2>2 DEF Guard
  <2> QED
    BY <2>2, <2>3, <2>5, <2>6 DEF GuardNext
<1>2. CASE Restart
  <2>1. now < MaxNow
    BY <1>2 DEF Restart
  <2>2. PICK t \in Later : GuardAnew(t)
    BY <1>2 DEF Restart
  <2>3. t \in Nat /\ t > now
    BY <2>1, LaterIsLater
  <2>4. now' = t
    BY <2>2 DEF GuardAnew
  <2> QED
    BY <2>2, <2>3, <2>4 DEF GuardNext
<1>3. CASE Commit \/ Crash \/ EditDefinition \/ \E i \in Id : Ack(i)
  BY <1>3 DEF Commit, Crash, EditDefinition, Ack, guardVars
<1>4. CASE UNCHANGED vars
  BY <1>4 DEF vars, guardVars
<1> QED
  BY <1>1, <1>2, <1>3, <1>4 DEF Next

ClockedIInv == now \in Nat /\ IInv

(* DM-10 for the event engine as it runs, through definition edits, acks,  *)
(* crashes and restarts (StormKeepsBooks).                                 *)
THEOREM EventRulesKeepBooks == Spec => []StormKeepsBooks
<1>1. Init => ClockedIInv
  BY TimeIsNat, InitIInv DEF Init, ClockedIInv
<1>2. ClockedIInv /\ [Next]_vars => ClockedIInv'
  BY StepGuards, NextIInv DEF ClockedIInv
<1>3. ClockedIInv => StormKeepsBooks
  BY DEF ClockedIInv, IInv
<1> QED
  BY <1>1, <1>2, <1>3, PTL DEF Spec
-----------------------------------------------------------------------------
(* One live episode. What the table will hold after the commit is what the *)
(* buffers say, and what the table says where they say nothing. While the  *)
(* process lives, a row that will be live is the engine's own episode; so  *)
(* there is at most one, and a start, which reads them, finds at most one. *)

\* Only the shape of these records matters, not what their fields range over.
IsCore(c) == c \in [id : {c.id}, state : {c.state}, opened : {c.opened},
                    last : {c.last}, occ : {c.occ}]
IsRow(r) == r \in [state : {r.state}, opened : {r.opened}, changed : {r.changed},
                   cleared : {r.cleared}, occ : {r.occ}]
AreRows(rs) == rs = [i \in Id |-> rs[i]] /\ \A i \in Id : IsRow(rs[i])
IsEpisode(e) ==
    /\ e \in [core : {e.core}, seen : {e.seen}, pending : {e.pending},
              flaps : {e.flaps}, cooldown : {e.cooldown}]
    /\ IsCore(e.core)
IsPending(p) ==
    /\ p \in [rows : {p.rows}, notes : {p.notes}, matches : {p.matches}, load : {p.load}]
    /\ AreRows(p.rows)

\* The state of a row once the buffers are committed.
After(p, i) == IF p.rows[i].state = "none" THEN rows[i].state ELSE p.rows[i].state
Owned(p, e) == \A i \in Id : After(p, i) \in Live => IsLive(e) /\ e.core.id = i

\* A working state of the tick in which all live rows are the episode's.
Sound(w) ==
    /\ w \in [ep : {w.ep}, pend : {w.pend}, nextId : {w.nextId}]
    /\ IsEpisode(w.ep) /\ IsPending(w.pend) /\ w.nextId \in 0 .. MaxId + 1
    /\ IsLive(w.ep) => w.ep.core.id \in Id
    /\ Owned(w.pend, w.ep)

Held == [ep |-> ep, pend |-> pend, nextId |-> nextId]
OneRow == \A i, j \in LiveRows : i = j
EInv == AreRows(rows) /\ OneRow /\ nextId \in 0 .. MaxId + 1 /\ (phase # "down" => Sound(Held))

\* What a step of the episode may do to the episode's identity.
Faithful(step, e) ==
    /\ IsEpisode(step.ep)
    /\ step.record = "none" => step.ep.core = e.core
    /\ step.record # "none" =>
         /\ step.ep.core.state \in {"open", "acked", "cleared"}
         /\ step.ep.core.id = IF IsLive(e) THEN e.core.id ELSE 0

LEMMA LeastIn ==
    ASSUME NEW S \in SUBSET Nat, S # {}
    PROVE  Min(S) \in S /\ \A y \in S : Min(S) <= y
<1>1. \E x \in S : \A y \in S : ~(<<y, x>> \in OpToRel(<, Nat))
  BY WFMin, NatLessThanWellFounded
<1>2. PICK x \in S : \A y \in S : ~(<<y, x>> \in OpToRel(<, Nat))
  BY <1>1
<1>3. ASSUME NEW y \in S PROVE x <= y
  <2>1. ~(<<y, x>> \in {ss \in Nat \X Nat : ss[1] < ss[2]})
    BY <1>2 DEF OpToRel
  <2>2. <<y, x>> \in Nat \X Nat
    OBVIOUS
  <2> QED
    BY <2>1, <2>2
<1> QED
  BY <1>3 DEF Min

LEMMA GreatestIn ==
    ASSUME NEW S \in SUBSET Nat, NEW b \in Nat, \A y \in S : y <= b, S # {}
    PROVE  Max(S) \in S /\ \A y \in S : y <= Max(S)
<1> DEFINE U == {u \in Nat : \A y \in S : y <= u}
<1>1. U # {} /\ U \in SUBSET Nat
  OBVIOUS
<1>2. PICK x \in U : \A u \in U : x <= u
  BY <1>1, LeastIn
<1>3. x \in S
  <2>1. SUFFICES ASSUME x \notin S PROVE FALSE
    OBVIOUS
  <2>2. PICK y \in S : TRUE
    OBVIOUS
  <2>3. x > 0 /\ x - 1 \in Nat
    BY <2>1, <2>2
  <2>4. ASSUME NEW z \in S PROVE z <= x - 1
    BY <2>1, <2>3
  <2>5. x - 1 \in U
    BY <2>3, <2>4
  <2> QED
    BY <1>2, <2>3, <2>5
<1>4. \A y \in S : x >= y
  BY <1>3
<1> QED
  BY <1>3, <1>4 DEF Max
\* The next id is above all ids of the table, or the writer's own count.
LEMMA AllocIsNew ==
    ASSUME NEW w, w.nextId \in Nat
    PROVE  /\ AllocId(w) \in Nat /\ AllocId(w) # 0
           /\ w.nextId = 0 =>
                \A i \in Id : rows[i].state # "none" => i < AllocId(w)
           /\ w.nextId # 0 => AllocId(w) = w.nextId
<1> DEFINE S == {0} \cup {i \in Id : rows[i].state # "none"}
<1>1. S \in SUBSET Nat /\ S # {} /\ \A i \in S : i <= MaxId
  BY DEF Id
<1>2. Max(S) \in S /\ \A i \in S : i <= Max(S)
  BY <1>1, GreatestIn, Zenon
<1>3. AllocId(w) = IF w.nextId = 0 THEN 1 + Max(S) ELSE w.nextId
  BY DEF AllocId
<1> DEFINE top == Max(S)
<1>4. \A i \in Id : rows[i].state # "none" => i \in Nat /\ i <= top
  BY <1>2 DEF Id
<1>5. top \in Nat
  BY <1>1, <1>2
<1>6. AllocId(w) = IF w.nextId = 0 THEN 1 + top ELSE w.nextId
  BY <1>3
<1> HIDE DEF top
<1> QED
  BY <1>4, <1>5, <1>6

LEMMA ApplyKeepsSound ==
    ASSUME NEW w, NEW step, NEW t, Sound(w), Faithful(step, w.ep),
           Apply(w, step, t).nextId <= MaxId + 1
    PROVE  Sound(Apply(w, step, t))
<1> DEFINE done  == Apply(w, step, t)
           fresh == step.ep.core.id = 0
           id    == IF fresh THEN AllocId(w) ELSE step.ep.core.id
           core  == [step.ep.core EXCEPT !.id = id]
           row   == [state |-> core.state, opened |-> core.opened, changed |-> t,
                     cleared |-> IF core.state = "cleared" THEN t ELSE 0,
                     occ |-> core.occ]
           sent  == IF step.note = "none" THEN <<>>
                    ELSE <<[kind |-> step.note, ts |-> t]>>
           p     == [w.pend EXCEPT !.rows[id] = row, !.notes[id] = @ \o sent]
<1>1. CASE step.record = "none"
  <2>1. done = [w EXCEPT !.ep = step.ep]
    BY <1>1 DEF Apply
  <2>2. done \in [ep : {done.ep}, pend : {done.pend}, nextId : {done.nextId}]
    BY <2>1 DEF Sound
  <2>3. done.ep = step.ep /\ done.pend = w.pend /\ done.nextId = w.nextId
    BY <2>1 DEF Sound
  <2>4. step.ep.core = w.ep.core /\ IsEpisode(step.ep)
    BY <1>1 DEF Faithful
  <2> QED
    BY <2>2, <2>3, <2>4 DEF Sound, Owned, IsLive
<1>2. CASE step.record # "none"
  <2>1. done = [ep |-> [step.ep EXCEPT !.core = core],
                nextId |-> IF fresh THEN id + 1 ELSE w.nextId, pend |-> p]
    BY <1>2 DEF Apply
  <2>2. /\ IsEpisode(step.ep) /\ step.ep.core.state \in {"open", "acked", "cleared"}
        /\ step.ep.core.id = IF IsLive(w.ep) THEN w.ep.core.id ELSE 0
    BY <1>2 DEF Faithful
  <2>3. /\ core.id = id /\ core.state = step.ep.core.state /\ IsCore(core)
    BY <2>2 DEF IsEpisode, IsCore
  <2>4. /\ IsRow(row) /\ row.state = step.ep.core.state
    BY <2>3 DEF IsRow
  <2>5. done.nextId = IF fresh THEN id + 1 ELSE w.nextId
    BY <2>1
  <2>6. id \in Id
    <3>1. CASE fresh
      <4>1. id \in Nat /\ id # 0
        BY <3>1, AllocIsNew DEF Sound
      <4>2. id + 1 <= MaxId + 1
        BY <2>5, <3>1
      <4> HIDE DEF id
      <4> QED
        BY <4>1, <4>2 DEF Id
    <3>2. CASE ~fresh
      BY <2>2, <3>2 DEF Sound
    <3> QED
      BY <3>1, <3>2
  <2>7. done.nextId \in 0 .. MaxId + 1
    <3>1. id \in Nat /\ w.nextId \in 0 .. MaxId + 1
      BY <2>6 DEF Sound, Id
    <3> QED
      BY <2>5, <3>1
  <2> HIDE DEF core, row, sent, id
  <2>8. IsPending(w.pend)
    BY DEF Sound
  <2>9. p.rows = [w.pend.rows EXCEPT ![id] = row]
        /\ p \in [rows : {p.rows}, notes : {p.notes}, matches : {p.matches}, load : {p.load}]
    BY <2>8 DEF IsPending
  <2>10. /\ p.rows[id] = row
         /\ \A i \in Id : i # id => p.rows[i] = w.pend.rows[i]
         /\ p.rows = [i \in Id |-> p.rows[i]]
    BY <2>6, <2>8, <2>9 DEF IsPending, AreRows
  <2> HIDE DEF p
  <2>11. IsPending(p)
    BY <2>4, <2>8, <2>9, <2>10 DEF IsPending, AreRows
  <2>12. [step.ep EXCEPT !.core = core].core = core
         /\ IsEpisode([step.ep EXCEPT !.core = core])
    BY <2>2, <2>3 DEF IsEpisode
  <2> DEFINE e == [step.ep EXCEPT !.core = core]
  <2>13. e.core = core /\ IsEpisode(e)
    BY <2>12
  <2> HIDE DEF e
  <2>14. e.core.id = id /\ (IsLive(e) <=> row.state \in Live)
    BY <2>3, <2>4, <2>13 DEF IsLive
  <2>15. ASSUME NEW i \in Id, After(p, i) \in Live
         PROVE  IsLive(e) /\ e.core.id = i
    <3>1. CASE i = id
      <4>1. After(p, i) = row.state
        BY <2>2, <2>4, <2>10, <3>1 DEF After
      <4> QED
        BY <2>14, <2>15, <3>1, <4>1
    <3>2. CASE i # id
      <4>1. After(w.pend, i) \in Live
        BY <2>10, <2>15, <3>2 DEF After
      <4>2. IsLive(w.ep) /\ w.ep.core.id = i
        BY <4>1 DEF Sound, Owned
      <4>3. step.ep.core.id = i /\ i # 0
        BY <2>2, <4>2 DEF Id
      <4> QED
        BY <3>2, <4>3 DEF id
    <3> QED
      BY <3>1, <3>2
  <2>16. done.ep = e /\ done.pend = p
         /\ done \in [ep : {done.ep}, pend : {done.pend}, nextId : {done.nextId}]
    BY <2>1 DEF e
  <2> HIDE DEF done
  <2>17. Sound(done)
    BY <2>6, <2>7, <2>11, <2>13, <2>14, <2>15, <2>16 DEF Sound, Owned
  <2> QED
    BY <2>17 DEF done
<1> QED
  BY <1>1, <1>2

(* No step of the rule changes which incident an episode is.               *)
LEMMA StepIsFaithful ==
    ASSUME NEW e, IsEpisode(e), NEW hits, NEW t
    PROVE  Faithful(StepEpisode(e, hits, t), e)
<1>1. ASSUME IsLive(e)
      PROVE  Faithful(Refresh(e, hits, t), e) /\ Faithful(Clear(e, t), e)
  <2>1. e.core.state \in {"open", "acked"}
    BY <1>1 DEF IsLive, Live
  <2> DEFINE core == [e.core EXCEPT !.occ = @ + Occurrences(hits)]
             told == [core EXCEPT !.last = t]
             gone == [e.core EXCEPT !.state = "cleared"]
  <2>2. /\ IsCore(core) /\ core.id = e.core.id /\ core.state = e.core.state
        /\ IsCore(told) /\ told.id = e.core.id /\ told.state = e.core.state
        /\ IsCore(gone) /\ gone.id = e.core.id /\ gone.state = "cleared"
    BY DEF IsEpisode, IsCore
  <2> HIDE DEF core, told, gone
  <2>3. ASSUME NEW c, IsCore(c)
        PROVE  /\ IsEpisode([e EXCEPT !.seen = t, !.core = c])
               /\ [e EXCEPT !.seen = t, !.core = c].core = c
    BY <2>3 DEF IsEpisode
  <2>4. \/ Refresh(e, hits, t) =
             Step([e EXCEPT !.seen = t, !.core = told], "refresh", "renotify")
        \/ Refresh(e, hits, t) =
             Step([e EXCEPT !.seen = t, !.core = core], "refresh", "none")
    BY DEF Refresh, core, told
  <2>5. Faithful(Refresh(e, hits, t), e)
    <3>1. ASSUME NEW c, IsCore(c), c.id = e.core.id, c.state = e.core.state, NEW note
          PROVE  Faithful(Step([e EXCEPT !.seen = t, !.core = c], "refresh", note), e)
      <4>1. /\ IsEpisode([e EXCEPT !.seen = t, !.core = c])
            /\ [e EXCEPT !.seen = t, !.core = c].core = c
        BY <2>3, <3>1
      <4> QED
        BY <1>1, <2>1, <3>1, <4>1 DEF Faithful, Step
    <3> QED
      BY <2>2, <2>4, <3>1
  <2>6. Clear(e, t).ep.core = gone /\ Clear(e, t).record = "clear"
        /\ IsEpisode(Clear(e, t).ep)
    BY <2>2 DEF Clear, Step, IsEpisode, gone
  <2>7. Faithful(Clear(e, t), e)
    BY <1>1, <2>2, <2>6 DEF Faithful
  <2> QED
    BY <2>5, <2>7
<1>2. ASSUME ~IsLive(e)
      PROVE  Faithful(MaybeOpen(e, hits, t), e)
  <2>1. /\ Waited(e, hits, t).core = e.core
        /\ IsEpisode(Waited(e, hits, t))
    BY DEF Waited, IsEpisode
  <2>2. /\ Opened(e, hits, t).core.id = 0 /\ Opened(e, hits, t).core.state = "open"
        /\ IsEpisode(Opened(e, hits, t))
    BY DEF Opened, IsEpisode, IsCore
  <2>3. \/ MaybeOpen(e, hits, t) = Step(Waited(e, hits, t), "none", "none")
        \/ MaybeOpen(e, hits, t) = Step(Opened(e, hits, t), "open", "open")
    BY DEF MaybeOpen
  <2> QED
    BY <1>2, <2>1, <2>2, <2>3 DEF Faithful, Step
<1>3. /\ Faithful(Step(e, "none", "none"), e)
      /\ Faithful(Step([e EXCEPT !.pending = PendingAt(e, t)], "none", "none"), e)
  BY DEF Faithful, Step, IsEpisode
<1>4. StepEpisode(e, hits, t) \in
        (IF IsLive(e) THEN {Refresh(e, hits, t), Clear(e, t)} ELSE {MaybeOpen(e, hits, t)})
        \cup {Step(e, "none", "none"),
              Step([e EXCEPT !.pending = PendingAt(e, t)], "none", "none")}
  BY Zenon DEF StepEpisode
<1> QED
  BY <1>1, <1>2, <1>3, <1>4

LEMMA NoEpisodeIsEpisode == IsEpisode(NoEpisode) /\ ~IsLive(NoEpisode)
BY DEF NoEpisode, NoCore, IsEpisode, IsCore, IsLive, Live

(* An edited definition ends the episode and leaves no live row behind.    *)
LEMMA SupersededIsSound ==
    ASSUME NEW w, Sound(w), NEW t
    PROVE  Sound(Superseded(w, t))
<1> DEFINE gone == Step([w.ep EXCEPT !.core.state = "cleared"], "clear", "none")
           x == IF IsLive(w.ep) THEN Apply(w, gone, t) ELSE w
<1>1. Sound(x) /\ ~IsLive(x.ep)
  <2>1. CASE IsLive(w.ep)
    <3>1. /\ IsEpisode(gone.ep) /\ gone.ep.core.id = w.ep.core.id
          /\ gone.ep.core.state = "cleared" /\ gone.record = "clear"
      BY DEF Sound, IsEpisode, IsCore, Step
    <3>2. Faithful(gone, w.ep)
      BY <2>1, <3>1 DEF Faithful
    <3> HIDE DEF gone
    <3>3. gone.ep.core.id \in Nat \ {0}
      BY <2>1, <3>1 DEF Sound, Id
    <3>4. /\ Apply(w, gone, t).nextId = w.nextId
          /\ Apply(w, gone, t).ep.core.state = "cleared"
      <4>1. gone.ep.core.id # 0 /\ gone.record # "none"
        BY <3>1, <3>3
      <4>2. Apply(w, gone, t).nextId = w.nextId
        BY <4>1 DEF Apply
      <4>3. Apply(w, gone, t).ep =
              [gone.ep EXCEPT !.core = [gone.ep.core EXCEPT !.id = gone.ep.core.id]]
        BY <4>1 DEF Apply
      <4> QED
        BY <3>1, <4>2, <4>3 DEF IsEpisode, IsCore
    <3>5. Sound(Apply(w, gone, t))
      BY <3>2, <3>4, ApplyKeepsSound DEF Sound
    <3> QED
      BY <2>1, <3>4, <3>5 DEF IsLive, Live
  <2>2. CASE ~IsLive(w.ep)
    BY <2>2
  <2> QED
    BY <2>1, <2>2
<1>2. Superseded(w, t) = [x EXCEPT !.ep = NoEpisode]
  BY DEF Superseded
<1> HIDE DEF x
<1> DEFINE z == Superseded(w, t)
<1>3. /\ z \in [ep : {z.ep}, pend : {z.pend}, nextId : {z.nextId}]
      /\ z.ep = NoEpisode /\ z.pend = x.pend /\ z.nextId = x.nextId
  BY <1>1, <1>2 DEF Sound
<1> HIDE DEF z
<1>4. Sound(z)
  BY <1>1, <1>3, NoEpisodeIsEpisode DEF Sound, Owned
<1> QED
  BY <1>4 DEF z

LEMMA RescannedIsSound ==
    ASSUME Sound(Held), NEW scan \in BOOLEAN, NEW t
    PROVE  Sound(Rescanned(scan, t))
<1>1. Sound(AcksSeen(Held))
  <2>1. CASE AcksSeen(Held) = Held
    BY <2>1
  <2>2. CASE AcksSeen(Held) # Held
    <3>1. Held.ep.core.state = "open" /\ AcksSeen(Held) = [Held EXCEPT !.ep.core.state = "acked"]
      BY <2>2 DEF AcksSeen
    <3> DEFINE c == [ep.core EXCEPT !.state = "acked"]
               e == [ep EXCEPT !.core.state = "acked"]
    <3>2. IsEpisode(ep) /\ Held.ep = ep
      BY DEF Sound, Held
    <3>3. IsCore(c) /\ c.id = ep.core.id /\ c.state = "acked"
      BY <3>2 DEF IsEpisode, IsCore
    <3>4. IsEpisode(e) /\ e.core = c
      BY <3>2, <3>3 DEF IsEpisode
    <3> DEFINE z == AcksSeen(Held)
    <3>5. /\ z \in [ep : {z.ep}, pend : {z.pend}, nextId : {z.nextId}]
          /\ z.ep = e /\ z.pend = pend /\ z.nextId = nextId
      BY <3>1, <3>2 DEF Held
    <3> HIDE DEF c, e, z
    <3>6. IsLive(ep) /\ IsLive(e)
      BY <3>1, <3>2, <3>3, <3>4 DEF IsLive, Live
    <3>7. Sound(z)
      BY <3>2, <3>3, <3>4, <3>5, <3>6 DEF Sound, Held, Owned
    <3> QED
      BY <3>7 DEF z
  <2> QED
    BY <2>1, <2>2
<1>2. Sound(Superseded(Held, t))
  BY SupersededIsSound
<1>3. Sound([Superseded(Held, t) EXCEPT !.pend.load = TRUE])
  <2> DEFINE s == Superseded(Held, t)
             q == [s.pend EXCEPT !.load = TRUE]
             z == [s EXCEPT !.pend.load = TRUE]
  <2> HIDE DEF s
  <2>1. Sound(s)
    BY <1>2 DEF s
  <2>2. IsPending(q) /\ q.rows = s.pend.rows
    BY <2>1 DEF Sound, IsPending
  <2>3. /\ z \in [ep : {z.ep}, pend : {z.pend}, nextId : {z.nextId}]
        /\ z.ep = s.ep /\ z.pend = q /\ z.nextId = s.nextId
    BY <2>1 DEF Sound
  <2> HIDE DEF q, z
  <2>4. Sound(z)
    BY <2>1, <2>2, <2>3 DEF Sound, Owned, After
  <2> QED
    BY <2>4 DEF z, s
<1> QED
  BY <1>1, <1>2, <1>3 DEF Rescanned, Held

(* The step of the tick: rescan, evaluate, record in the buffers.          *)
LEMMA TickKeeps ==
    ASSUME EInv, NEW hits \in Drained, NEW others \in 0 .. MaxOthers,
           NEW scan \in BOOLEAN, Tick(hits, others, scan)
    PROVE  EInv'
<1>1. PICK t \in Later :
        LET w == Rescanned(scan, t)
            done == Apply(w, StepEpisode(w.ep, hits, t), t)
        IN /\ done.nextId <= MaxId + 1
           /\ ep' = done.ep /\ nextId' = done.nextId
           /\ pend' = [done.pend EXCEPT !.matches = Occurrences(hits)]
  BY DEF Tick
<1> DEFINE w == Rescanned(scan, t)
           step == StepEpisode(w.ep, hits, t)
           done == Apply(w, step, t)
<1>2. Sound(w)
  BY RescannedIsSound DEF EInv, Tick
<1>3. Faithful(step, w.ep)
  BY <1>2, StepIsFaithful DEF Sound
<1>4. /\ done.nextId <= MaxId + 1
      /\ ep' = done.ep /\ nextId' = done.nextId
      /\ pend' = [done.pend EXCEPT !.matches = Occurrences(hits)]
  BY <1>1
<1> HIDE DEF w, step
<1>5. Sound(done)
  BY <1>2, <1>3, <1>4, ApplyKeepsSound
<1> HIDE DEF done
<1>6. rows' = rows
  BY DEF Tick
<1>7. IsPending(pend') /\ pend'.rows = done.pend.rows
  BY <1>4, <1>5 DEF Sound, IsPending
<1>8. Sound(Held)'
  <2> DEFINE h == [ep |-> ep', pend |-> pend', nextId |-> nextId']
  <2>1. /\ h \in [ep : {h.ep}, pend : {h.pend}, nextId : {h.nextId}]
        /\ h.ep = done.ep /\ h.pend = pend' /\ h.nextId = done.nextId
    BY <1>4
  <2> HIDE DEF h
  <2>2. \A i \in Id : After(pend, i)' = After(done.pend, i)
    BY <1>6, <1>7 DEF After
  <2>3. \A i \in Id : After(pend, i)' \in Live => IsLive(h.ep) /\ h.ep.core.id = i
    BY <1>5, <2>1, <2>2 DEF Sound, Owned
  <2>4. Owned(pend, ep)'
    BY <1>4, <2>1, <2>3 DEF Owned, IsLive
  <2>5. Held' = h
    BY DEF Held, h
  <2>6. /\ IsEpisode(h.ep) /\ IsPending(h.pend) /\ h.nextId \in 0 .. MaxId + 1
        /\ IsLive(h.ep) => h.ep.core.id \in Id
    BY <1>5, <1>7, <2>1 DEF Sound
  <2>7. Owned(Held.pend, Held.ep)'
    BY <2>4 DEF Held
  <2> QED
    BY <2>1, <2>5, <2>6, <2>7 DEF Sound, IsLive, IsEpisode, IsCore, IsPending, AreRows, IsRow
<1>9. nextId' \in 0 .. MaxId + 1
  BY <1>4, <1>5 DEF Sound
<1> QED
  BY <1>6, <1>8, <1>9 DEF EInv, AreRows, IsRow, OneRow, LiveRows

(* What an empty buffer and an episode make of the rows.                   *)
LEMMA NoPendingIsPending ==
    /\ IsPending(NoPending)
    /\ \A i \in Id : NoPending.rows[i].state = "none"
BY DEF NoPending, NoRow, IsPending, AreRows, IsRow

LEMMA CommitKeeps == ASSUME EInv, Commit PROVE EInv'
<1>1. Sound(Held) /\ AreRows(rows) /\ nextId \in 0 .. MaxId + 1
  BY DEF EInv, Commit
<1>2. /\ IsEpisode(ep) /\ IsPending(pend) /\ Owned(pend, ep)
      /\ IsLive(ep) => ep.core.id \in Id
  BY <1>1 DEF Sound, Held
<1>3. /\ rows' = [i \in Id |->
           CASE pend.rows[i].state = "none" -> rows[i]
             [] pend.rows[i].state # "none" /\ rows[i].state = "none" -> pend.rows[i]
             [] OTHER -> [pend.rows[i] EXCEPT !.opened = rows[i].opened]]
      /\ pend' = NoPending /\ ep' = ep /\ nextId' = nextId
  BY DEF Commit
<1>4. ASSUME NEW i \in Id
      PROVE  IsRow(rows'[i]) /\ rows'[i].state = After(pend, i)
  <2>1. IsRow(rows[i]) /\ IsRow(pend.rows[i])
    BY <1>1, <1>2 DEF AreRows, IsPending
  <2>2. LET r == [pend.rows[i] EXCEPT !.opened = rows[i].opened]
        IN IsRow(r) /\ r.state = pend.rows[i].state
    BY <2>1 DEF IsRow
  <2>3. rows'[i] = CASE pend.rows[i].state = "none" -> rows[i]
             [] pend.rows[i].state # "none" /\ rows[i].state = "none" -> pend.rows[i]
             [] OTHER -> [pend.rows[i] EXCEPT !.opened = rows[i].opened]
    BY <1>3
  <2> QED
    BY <2>1, <2>2, <2>3 DEF After
<1>5. AreRows(rows)'
  BY <1>3, <1>4 DEF AreRows
<1>6. \A i \in Id : rows'[i].state \in Live => IsLive(ep) /\ ep.core.id = i
  BY <1>2, <1>4 DEF Owned
<1>7. OneRow'
  BY <1>6 DEF OneRow, LiveRows
<1>8. Sound(Held)'
  <2>1. \A i \in Id : After(pend, i)' = rows'[i].state
    BY <1>3, NoPendingIsPending DEF After
  <2>2. Owned(pend, ep)'
    BY <1>3, <1>6, <2>1 DEF Owned, IsLive
  <2>3. IsPending(pend)'
    BY <1>3, NoPendingIsPending DEF IsPending, AreRows, IsRow
  <2> QED
    BY <1>1, <1>2, <1>3, <2>2, <2>3 DEF Sound, Held, IsEpisode, IsCore, IsLive
<1> QED
  BY <1>1, <1>3, <1>5, <1>7, <1>8 DEF EInv

(* An ack does not change which rows are live.                             *)
LEMMA AckKeeps == ASSUME EInv, NEW k \in Id, Ack(k) PROVE EInv'
<1>1. AreRows(rows) /\ OneRow /\ nextId \in 0 .. MaxId + 1
  BY DEF EInv
<1>2. /\ rows' = [rows EXCEPT ![k].state = "acked"] /\ rows[k].state = "open"
      /\ ep' = ep /\ pend' = pend /\ nextId' = nextId /\ phase' = phase
  BY DEF Ack
<1>3. ASSUME NEW i \in Id
      PROVE  /\ IsRow(rows'[i])
             /\ rows'[i].state = IF i = k THEN "acked" ELSE rows[i].state
  BY <1>1, <1>2 DEF AreRows, IsRow
<1>4. AreRows(rows)'
  BY <1>1, <1>2, <1>3 DEF AreRows, IsRow
<1>5. \A i \in Id : rows'[i].state \in Live <=> rows[i].state \in Live
  BY <1>2, <1>3 DEF Live
<1>6. OneRow'
  BY <1>1, <1>5 DEF OneRow, LiveRows
<1>7. ASSUME phase # "down" PROVE Sound(Held)'
  <2>1. Sound(Held)
    BY <1>7 DEF EInv
  <2>2. \A i \in Id : After(pend, i)' \in Live => After(pend, i) \in Live
    BY <1>2, <1>5 DEF After
  <2>3. Owned(pend, ep)'
    BY <1>2, <2>1, <2>2 DEF Owned, Sound, Held, IsLive
  <2> QED
    BY <1>2, <2>1, <2>3 DEF Sound, Held, IsEpisode, IsCore, IsLive, IsPending, AreRows, IsRow
<1> QED
  BY <1>1, <1>2, <1>4, <1>6, <1>7 DEF EInv

(* A start takes up the live row, or clears it when the rule was edited.   *)
LEMMA RestartKeeps == ASSUME EInv, Restart PROVE EInv'
<1>1. AreRows(rows) /\ OneRow /\ nextId \in 0 .. MaxId + 1
  BY DEF EInv
<1>2. PICK t \in Later :
        pend' = [NoPending EXCEPT
          !.load = TRUE,
          !.rows = [i \in Id |-> IF EditedWhileDown /\ i \in LiveRows
                                 THEN SupersededRow(i, t) ELSE NoRow]]
  BY DEF Restart
<1>3. ep' = Reloaded /\ rows' = rows /\ nextId' = nextId
  BY DEF Restart
<1>4. pend'.rows = [i \in Id |-> IF EditedWhileDown /\ i \in LiveRows
                                 THEN SupersededRow(i, t) ELSE NoRow]
  BY <1>2 DEF NoPending
<1>5. ASSUME NEW i \in Id
      PROVE  /\ IsRow(pend'.rows[i])
             /\ pend'.rows[i].state = IF EditedWhileDown /\ i \in LiveRows
                                      THEN "cleared" ELSE "none"
  <2>1. IsRow(SupersededRow(i, t)) /\ SupersededRow(i, t).state = "cleared"
    BY <1>1 DEF SupersededRow, AreRows, IsRow
  <2>2. IsRow(NoRow) /\ NoRow.state = "none"
    BY DEF NoRow, IsRow
  <2> QED
    BY <1>4, <2>1, <2>2
<1>6. IsPending(pend')
  BY <1>2, <1>4, <1>5 DEF IsPending, AreRows, NoPending
<1>7. ASSUME NEW i \in Id
      PROVE  After(pend, i)' \in Live <=> ~EditedWhileDown /\ i \in LiveRows
  BY <1>3, <1>5 DEF After, LiveRows, Live
<1>8. CASE EditedWhileDown \/ LiveRows = {}
  <2>1. ep' = NoEpisode
    BY <1>3, <1>8 DEF Reloaded
  <2>2. Owned(pend, ep)'
    BY <1>7, <1>8 DEF Owned
  <2> QED
    BY <1>1, <1>3, <1>6, <2>1, <2>2, NoEpisodeIsEpisode
    DEF EInv, Sound, Held, IsEpisode, IsCore, IsLive, IsPending, AreRows, IsRow,
        OneRow, LiveRows
<1>9. CASE ~EditedWhileDown /\ LiveRows # {}
  <2> DEFINE k == CHOOSE i \in LiveRows : TRUE
  <2>1. k \in LiveRows
    BY <1>9
  <2>2. ep' = Rebuilt(k)
    BY <1>3, <1>9 DEF Reloaded
  <2> HIDE DEF k
  <2>3. k \in Id /\ rows[k].state \in Live
    BY <2>1 DEF LiveRows
  <2>4. /\ IsEpisode(Rebuilt(k)) /\ Rebuilt(k).core.id = k
        /\ Rebuilt(k).core.state = rows[k].state
    BY DEF Rebuilt, NoEpisode, IsEpisode, IsCore
  <2>5. IsLive(Rebuilt(k))
    BY <2>3, <2>4 DEF IsLive
  <2>6. \A i \in LiveRows : i = k
    BY <1>1, <2>1 DEF OneRow
  <2>7. Owned(pend, ep)'
    BY <1>7, <2>2, <2>4, <2>5, <2>6 DEF Owned, IsLive
  <2> QED
    BY <1>1, <1>3, <1>6, <2>2, <2>3, <2>4, <2>5, <2>7
    DEF EInv, Sound, Held, IsEpisode, IsCore, IsLive, IsPending, AreRows, IsRow,
        OneRow, LiveRows
<1> QED
  BY <1>8, <1>9

LEMMA InitEInv == Init => EInv
<1> SUFFICES ASSUME Init PROVE EInv
  OBVIOUS
<1>1. phase = "down" /\ nextId = 0 /\ rows = [i \in Id |-> NoRow]
  BY DEF Init
<1>2. \A i \in Id : rows[i].state = "none" /\ IsRow(rows[i])
  BY <1>1 DEF NoRow, IsRow
<1>3. LiveRows = {}
  BY <1>2 DEF LiveRows, Live
<1> QED
  BY <1>1, <1>2, <1>3 DEF EInv, AreRows, OneRow

LEMMA NextEInv == EInv /\ [Next]_vars => EInv'
<1> SUFFICES ASSUME EInv, [Next]_vars PROVE EInv'
  OBVIOUS
<1>1. ASSUME NEW hits \in Drained, NEW others \in 0 .. MaxOthers, NEW scan \in BOOLEAN,
             Tick(hits, others, scan)
      PROVE  EInv'
  BY <1>1, TickKeeps
<1>2. CASE Commit
  BY <1>2, CommitKeeps
<1>3. CASE Restart
  BY <1>3, RestartKeeps
<1>4. ASSUME NEW k \in Id, Ack(k)
      PROVE  EInv'
  BY <1>4, AckKeeps
<1>5. CASE Crash
  BY <1>5 DEF Crash, EInv, AreRows, IsRow, OneRow, LiveRows
<1>6. CASE EditDefinition \/ UNCHANGED vars
  BY <1>6 DEF EditDefinition, vars, EInv, AreRows, IsRow, OneRow, LiveRows, Sound, Held,
              Owned, After, IsEpisode, IsCore, IsLive, IsPending
<1> QED
  BY <1>1, <1>2, <1>3, <1>4, <1>5, <1>6 DEF Next

(* For any number of incidents, ticks, crashes and edits: at most one row  *)
(* of a rule's key is live (OneLiveEpisode), so no start and no tick meets *)
(* the unique index of live incidents.                                     *)
THEOREM EpisodeStaysAlone == Spec => []OneLiveEpisode
<1>1. EInv => OneLiveEpisode
  <2> SUFFICES ASSUME EInv PROVE OneLiveEpisode
    OBVIOUS
  <2>1. CASE LiveRows = {}
    BY <2>1, FS_EmptySet DEF OneLiveEpisode
  <2>2. CASE LiveRows # {}
    <3>1. PICK k \in LiveRows : LiveRows = {k}
      BY <2>2 DEF EInv, OneRow
    <3>2. Cardinality({k}) = 1
      BY FS_Singleton
    <3>3. Cardinality(LiveRows) = 1
      BY <3>1, <3>2, Zenon
    <3> QED
      BY <3>3 DEF OneLiveEpisode
  <2> QED
    BY <2>1, <2>2
<1> QED
  BY <1>1, InitEInv, NextEInv, PTL DEF Spec
-----------------------------------------------------------------------------
(***************************************************************************)
(* What an incident stands for. A row counts the matches its burst had     *)
(* when it opened and every one after, and no step may lose that count or  *)
(* add to it: the counts go through the working copy of a tick, the        *)
(* buffers, the commit, and at a restart come back from the row alone.     *)
(*                                                                         *)
(* The invariant BInv says of every row, as the buffers will leave it, how *)
(* its count relates to the matches up to its opening, its last change and *)
(* its end (Evidenced); of what waits in memory, that it came when it says *)
(* (Waiting) and that since the last end nothing that still matters is     *)
(* missing (Complete); and of the live episode, that it is the row's       *)
(* (Mirrors). The matches of a tick are in its buffers before they are in  *)
(* the table: SeenBy counts them as if they were there, so that a commit   *)
(* changes no count. Works says all of it of a working state, so that the  *)
(* lemmas about the steps of one tick compose.                             *)
(***************************************************************************)
\* The matched occurrences are counted in order, and none is ahead of the clock.
CountsInOrder ==
    /\ now \in Time /\ matched \in [Time -> Nat]
    /\ \A a, b \in Time : a <= b =>
         matched[a] <= matched[b] /\ (now <= a => matched[a] = matched[now])

LEMMA UptoGrows ==
  ASSUME CountsInOrder
  PROVE  /\ \A a \in Int : a <= MaxNow => Upto(a) \in Nat
         /\ \A a, b \in Int : a <= b /\ b <= MaxNow => Upto(a) <= Upto(b)
         /\ \A a \in Int : now <= a /\ a <= MaxNow => Upto(a) = Upto(now)
         /\ now \in Nat /\ now <= MaxNow
<1>1. \A a \in Int : 0 <= a /\ a <= MaxNow <=> a \in Time
  BY DEF Time
<1>2. now \in Nat /\ now <= MaxNow
  BY DEF CountsInOrder, Time
<1>3. \A a \in Int : a <= MaxNow => Upto(a) \in Nat
  BY <1>1 DEF CountsInOrder, Upto
<1>4. ASSUME NEW a \in Int, NEW b \in Int, a <= b, b <= MaxNow
      PROVE  Upto(a) <= Upto(b)
  <2>1. CASE a < 0
    BY <1>3, <1>4, <2>1 DEF Upto
  <2>2. CASE a >= 0
    <3>1. a \in Time /\ b \in Time
      BY <1>1, <1>4, <2>2
    <3> QED
      BY <1>4, <2>2, <3>1 DEF CountsInOrder, Upto
  <2> QED
    BY <2>1, <2>2
<1>5. ASSUME NEW a \in Int, now <= a, a <= MaxNow PROVE Upto(a) = Upto(now)
  <2>1. a \in Time /\ now \in Time /\ a >= 0 /\ now >= 0
    BY <1>1, <1>2, <1>5
  <2> QED
    BY <1>5, <2>1 DEF CountsInOrder, Upto
<1> QED
  BY <1>2, <1>3, <1>4, <1>5

\* The matches up to x when m of time n are committed as well.
SeenBy(x, n, m) == Upto(x) + (IF x >= n THEN m ELSE 0)

\* Times in their order.
InOrder(q) == q \in Seq(Time) /\ \A i, j \in 1 .. Len(q) : i <= j => q[i] <= q[j]

\* f is the end of q from place m on, where what is within the window begins.
IsEndOf(f, q, m, window, t) ==
    /\ f \in Seq(Time) /\ Len(f) = Len(q) - m + 1
    /\ \A i \in 1 .. Len(f) : f[i] = q[m + i - 1] /\ t - f[i] <= window
    /\ \A i \in 1 .. m - 1 : t - q[i] > window

LEMMA WithinIsTheEnd ==
  ASSUME NEW q, InOrder(q), NEW window \in Nat, NEW t \in Int
  PROVE  \E m \in 1 .. Len(q) + 1 : IsEndOf(Within(q, window, t), q, m, window, t)
<1> DEFINE kept == {k \in DOMAIN q : t - q[k] <= window}
           f == Within(q, window, t)
<1>1. /\ q \in Seq(Time) /\ Len(q) \in Nat /\ DOMAIN q = 1 .. Len(q)
      /\ \A i \in 1 .. Len(q) : q[i] \in Nat
      /\ \A i, j \in 1 .. Len(q) : i <= j => q[i] <= q[j]
  BY DEF InOrder, Time
<1>2. f = IF kept = {} THEN <<>> ELSE SubSeq(q, Min(kept), Len(q))
  BY DEF Within
<1>3. CASE kept = {}
  <2>1. f = <<>> /\ \A i \in 1 .. Len(q) : t - q[i] > window
    BY <1>1, <1>2, <1>3
  <2> HIDE DEF f, kept
  <2>2. /\ f \in Seq(Time) /\ Len(f) = Len(q) - (Len(q) + 1) + 1
        /\ \A i \in 1 .. (Len(q) + 1) - 1 : t - q[i] > window
    BY <1>1, <2>1
  <2>3. \A i \in 1 .. Len(f) : f[i] = q[(Len(q) + 1) + i - 1] /\ t - f[i] <= window
    BY <2>1
  <2>4. Len(q) + 1 \in 1 .. Len(q) + 1
    BY <1>1
  <2>5. IsEndOf(f, q, Len(q) + 1, window, t)
    BY <2>2, <2>3 DEF IsEndOf
  <2> QED
    BY <2>4, <2>5 DEF f
<1>4. CASE kept # {}
  <2> DEFINE m == Min(kept)
  <2>1. kept \in SUBSET Nat
    BY <1>1
  <2>2. m \in kept /\ \A k \in kept : m <= k
    BY <1>4, <2>1, LeastIn, Zenon
  <2>3. f = SubSeq(q, m, Len(q))
    BY <1>2, <1>4
  <2> HIDE DEF m, f
  <2>4. m \in 1 .. Len(q) /\ t - q[m] <= window
    BY <1>1, <2>2
  <2>5. \A i \in 1 .. m - 1 : t - q[i] > window
    <3>1. ASSUME NEW i \in 1 .. m - 1 PROVE t - q[i] > window
      <4>1. m \in 1 .. Len(q) /\ Len(q) \in Nat
        BY <1>1, <2>4
      <4>2. i \in 1 .. Len(q) /\ i < m
        BY <4>1
      <4> HIDE DEF kept
      <4>3. i \notin kept
        BY <2>2, <4>1, <4>2
      <4>4. q[i] \in Nat /\ ~(t - q[i] <= window)
        BY <1>1, <4>2, <4>3 DEF kept
      <4> QED
        BY <4>4
    <3> QED
      BY <3>1
  <2>6. \A i \in m .. Len(q) : t - q[i] <= window
    BY <1>1, <2>4
  <2>7. /\ f \in Seq(Time) /\ Len(f) = Len(q) - m + 1
        /\ \A i \in 1 .. Len(f) : f[i] = q[m + i - 1]
    BY <1>1, <2>3, <2>4
  <2>8. \A i \in 1 .. Len(f) : m + i - 1 \in m .. Len(q)
    BY <1>1, <2>4, <2>7
  <2>9. \A i \in 1 .. Len(f) : f[i] = q[m + i - 1] /\ t - f[i] <= window
    BY <2>6, <2>7, <2>8
  <2>10. IsEndOf(f, q, m, window, t) /\ m \in 1 .. Len(q) + 1
    BY <1>1, <2>4, <2>5, <2>7, <2>9 DEF IsEndOf
  <2> QED
    BY <2>10 DEF f
<1> QED
  BY <1>3, <1>4


\* What waits came when it says; ...
Waiting(q, n, m) ==
    /\ InOrder(q) /\ \A i \in 1 .. Len(q) : q[i] <= n
    /\ \A i \in 1 .. Len(q) :
         Len(q) - i + 1 <= SeenBy(n, n, m) - SeenBy(q[i] - 1, n, m)
\* ... and since s nothing that matters has come and does not wait.
Complete(q, s, n, m) ==
    \A x \in s .. n : x >= n - ConfirmWindow =>
      LET k == SeenBy(n, n, m) - SeenBy(x - 1, n, m)
      IN  k <= Len(q) /\ (k > 0 => q[Len(q) - k + 1] >= x)

LEMMA SeenUnmatched ==
  ASSUME CountsInOrder
  PROVE  \A x \in Int, n \in Int : x <= MaxNow => SeenBy(x, n, 0) = Upto(x)
BY UptoGrows DEF SeenBy

LEMMA WaitingAges ==
  ASSUME CountsInOrder, NEW q, NEW t \in Time, now < t, Waiting(q, now, 0)
  PROVE  Waiting(q, t, 0)
<1>1. t \in Nat /\ t <= MaxNow /\ now \in Nat
  BY UptoGrows DEF Time
<1>2. Upto(t) = Upto(now)
  BY <1>1, UptoGrows
<1>3. InOrder(q) /\ \A i \in 1 .. Len(q) : q[i] \in Nat /\ q[i] <= now
  BY DEF Waiting, InOrder, Time
<1>4. \A i \in 1 .. Len(q) : Len(q) - i + 1 <= Upto(now) - Upto(q[i] - 1)
  BY <1>1, <1>3, SeenUnmatched DEF Waiting
<1> QED
  BY <1>1, <1>2, <1>3, <1>4, SeenUnmatched DEF Waiting

LEMMA CompleteAges ==
  ASSUME CountsInOrder, NEW q, InOrder(q), NEW s \in Nat,
         NEW t \in Time, now < t, Complete(q, s, now, 0)
  PROVE  Complete(q, s, t, 0)
<1>1. t \in Nat /\ t <= MaxNow /\ now \in Nat /\ Upto(t) \in Nat
  BY UptoGrows DEF Time
<1>2. Upto(t) = Upto(now)
  BY <1>1, UptoGrows
<1>3. Len(q) \in Nat
  BY DEF InOrder
<1>4. SUFFICES ASSUME NEW x \in s .. t, x >= t - ConfirmWindow
               PROVE  /\ Upto(t) - Upto(x - 1) <= Len(q)
                      /\ Upto(t) - Upto(x - 1) > 0 =>
                           q[Len(q) - (Upto(t) - Upto(x - 1)) + 1] >= x
  <2>1. \A x \in s .. t : SeenBy(t, t, 0) = Upto(t) /\ SeenBy(x - 1, t, 0) = Upto(x - 1)
    BY <1>1, SeenUnmatched
  <2> QED
    BY <1>4, <2>1 DEF Complete
<1>5. CASE x <= now
  <2>1. x \in s .. now /\ x >= now - ConfirmWindow
    BY <1>1, <1>4, <1>5
  <2>2. SeenBy(now, now, 0) = Upto(now) /\ SeenBy(x - 1, now, 0) = Upto(x - 1)
    BY <1>1, <1>4, SeenUnmatched
  <2> QED
    BY <1>2, <2>1, <2>2 DEF Complete
<1>6. CASE now < x
  <2>1. Upto(x - 1) = Upto(now)
    BY <1>1, <1>4, <1>6, UptoGrows
  <2> QED
    BY <1>1, <1>2, <1>3, <2>1
<1> QED
  BY <1>1, <1>4, <1>5, <1>6

\* The end of what waits waits, and is complete if the whole was.
LEMMA EndWaits ==
  ASSUME CountsInOrder, NEW q, NEW t \in Time, now <= t, Waiting(q, t, 0),
         NEW s \in Nat
  PROVE  LET f == Within(q, ConfirmWindow, t)
         IN  /\ Waiting(f, t, 0) /\ Len(f) \in Nat /\ Len(f) <= Len(q)
             /\ Complete(q, s, t, 0) => Complete(f, s, t, 0)
             /\ Len(f) <= Upto(t) - Upto(t - ConfirmWindow - 1)
<1> DEFINE f == Within(q, ConfirmWindow, t)
<1>1. InOrder(q) /\ q \in Seq(Time) /\ Len(q) \in Nat /\ t \in Nat /\ t <= MaxNow
  BY DEF Waiting, InOrder, Time
<1>2. PICK m \in 1 .. Len(q) + 1 : IsEndOf(f, q, m, ConfirmWindow, t)
  <2>1. t \in Int /\ ConfirmWindow \in Nat
    BY <1>1
  <2> QED
    BY <1>1, <2>1, WithinIsTheEnd, Zenon
<1>0. \A i \in 1 .. Len(q) : q[i] \in Nat /\ q[i] <= t
  <2>1. \A i \in 1 .. Len(q) : q[i] \in Time
    BY <1>1
  <2>2. \A i \in 1 .. Len(q) : q[i] <= t
    BY DEF Waiting
  <2> QED
    BY <2>1, <2>2 DEF Time
<1> HIDE DEF f
<1>3. /\ f \in Seq(Time) /\ Len(f) = Len(q) - m + 1 /\ Len(f) \in Nat
      /\ \A i \in 1 .. Len(f) : /\ f[i] = q[m + i - 1] /\ m + i - 1 \in 1 .. Len(q)
                               /\ t - f[i] <= ConfirmWindow /\ f[i] \in Nat
                               /\ f[i] <= t
      /\ \A i \in 1 .. m - 1 : i \in 1 .. Len(q) /\ t - q[i] > ConfirmWindow
  <2>1. Len(f) = Len(q) - m + 1 /\ Len(f) \in Nat /\ f \in Seq(Time)
    BY <1>1, <1>2 DEF IsEndOf
  <2>2. \A i \in 1 .. Len(f) : m + i - 1 \in 1 .. Len(q)
    BY <1>1, <2>1
  <2>3. \A i \in 1 .. Len(f) : f[i] = q[m + i - 1] /\ t - f[i] <= ConfirmWindow
    BY <1>2 DEF IsEndOf
  <2>4. \A i \in 1 .. Len(f) : f[i] \in Nat /\ f[i] <= t
    BY <1>0, <2>2, <2>3
  <2>5. \A i \in 1 .. m - 1 : i \in 1 .. Len(q) /\ t - q[i] > ConfirmWindow
    BY <1>1, <1>2 DEF IsEndOf
  <2> QED
    BY <2>1, <2>2, <2>3, <2>4, <2>5
<1>4. InOrder(f)
  <2>1. \A i, j \in 1 .. Len(q) : i <= j => q[i] <= q[j]
    BY <1>1 DEF InOrder
  <2>2. ASSUME NEW i \in 1 .. Len(f), NEW j \in 1 .. Len(f), i <= j
        PROVE  f[i] <= f[j]
    <3>1. /\ f[i] = q[m + i - 1] /\ f[j] = q[m + j - 1]
          /\ m + i - 1 \in 1 .. Len(q) /\ m + j - 1 \in 1 .. Len(q)
          /\ m + i - 1 <= m + j - 1
      BY <1>3, <2>2
    <3> QED
      BY <2>1, <3>1
  <2> QED
    BY <1>3, <2>2 DEF InOrder
<1>5. \A i \in 1 .. Len(q) : q[i] \in Nat /\ Len(q) - i + 1 <= Upto(t) - Upto(q[i] - 1)
  <2>1. ASSUME NEW i \in 1 .. Len(q)
        PROVE  Len(q) - i + 1 <= Upto(t) - Upto(q[i] - 1)
    <3>1. q[i] - 1 \in Int /\ q[i] - 1 <= MaxNow
      BY <1>0, <1>1
    <3>2. SeenBy(q[i] - 1, t, 0) = Upto(q[i] - 1) /\ SeenBy(t, t, 0) = Upto(t)
      BY <1>1, <3>1, SeenUnmatched
    <3> QED
      BY <3>2 DEF Waiting
  <2> QED
    BY <1>0, <2>1
<1>6. ASSUME NEW i \in 1 .. Len(f)
      PROVE  Len(f) - i + 1 <= Upto(t) - Upto(f[i] - 1)
  <2>1. m + i - 1 \in 1 .. Len(q) /\ f[i] = q[m + i - 1]
        /\ Len(q) - (m + i - 1) + 1 = Len(f) - i + 1
    BY <1>1, <1>3
  <2> QED
    BY <1>5, <2>1
<1>7. Waiting(f, t, 0)
  <2>1. ASSUME NEW i \in 1 .. Len(f)
        PROVE  Len(f) - i + 1 <= SeenBy(t, t, 0) - SeenBy(f[i] - 1, t, 0)
    <3>1. f[i] - 1 \in Int /\ f[i] - 1 <= MaxNow
      BY <1>1, <1>3
    <3>2. SeenBy(f[i] - 1, t, 0) = Upto(f[i] - 1) /\ SeenBy(t, t, 0) = Upto(t)
      BY <1>1, <3>1, SeenUnmatched
    <3> QED
      BY <1>6, <3>2
  <2> QED
    BY <1>3, <1>4, <2>1 DEF Waiting
<1>8. Len(f) <= Upto(t) - Upto(t - ConfirmWindow - 1)
  <2>1. Upto(t - ConfirmWindow - 1) <= Upto(t) /\ Upto(t) \in Nat
        /\ Upto(t - ConfirmWindow - 1) \in Nat
    BY <1>1, UptoGrows
  <2>2. CASE Len(f) = 0
    BY <2>1, <2>2
  <2>3. CASE Len(f) > 0
    <3>1. Len(f) <= Upto(t) - Upto(f[1] - 1) /\ f[1] >= t - ConfirmWindow
          /\ f[1] \in Nat /\ f[1] <= t
      BY <1>1, <1>3, <1>6, <2>3
    <3>2. Upto(t - ConfirmWindow - 1) <= Upto(f[1] - 1) /\ Upto(f[1] - 1) \in Nat
      <4>1. /\ t - ConfirmWindow - 1 \in Int /\ f[1] - 1 \in Int
            /\ t - ConfirmWindow - 1 <= f[1] - 1 /\ f[1] - 1 <= MaxNow
        BY <1>1, <3>1
      <4> QED
        BY <4>1, UptoGrows
    <3> QED
      BY <1>3, <2>1, <3>1, <3>2
  <2> QED
    BY <1>3, <2>2, <2>3
<1>9. ASSUME Complete(q, s, t, 0) PROVE Complete(f, s, t, 0)
  <2>1. ASSUME NEW x \in s .. t, x >= t - ConfirmWindow,
               NEW k \in Int, k = SeenBy(t, t, 0) - SeenBy(x - 1, t, 0)
        PROVE  k <= Len(f) /\ (k > 0 => f[Len(f) - k + 1] >= x)
    <3>1. k <= Len(q) /\ (k > 0 => q[Len(q) - k + 1] >= x)
      BY <1>9, <2>1 DEF Complete
    <3>2. CASE k > 0
      <4>1. Len(q) - k + 1 \in 1 .. Len(q)
        BY <1>1, <3>1, <3>2
      <4>2. q[Len(q) - k + 1] \in Nat
        BY <1>5, <4>1
      <4>3. ~(t - q[Len(q) - k + 1] > ConfirmWindow)
        <5>1. q[Len(q) - k + 1] >= x /\ x >= t - ConfirmWindow
          BY <2>1, <3>1, <3>2
        <5>2. t \in Int /\ s \in Int /\ x \in Int
          BY <1>1, <2>1
        <5> QED
          BY <4>2, <5>1, <5>2
      <4>4. ~(Len(q) - k + 1 \in 1 .. m - 1)
        BY <1>3, <4>3
      <4>5. k <= Len(f) /\ Len(f) - k + 1 \in 1 .. Len(f)
            /\ m + (Len(f) - k + 1) - 1 = Len(q) - k + 1
        BY <1>1, <1>3, <3>2, <4>1, <4>4
      <4>6. f[Len(f) - k + 1] = q[Len(q) - k + 1]
        BY <1>3, <4>5
      <4> QED
        BY <3>1, <3>2, <4>5, <4>6
    <3>3. CASE ~(k > 0)
      BY <1>3, <2>1, <3>3
    <3> QED
      BY <3>2, <3>3
  <2>2. \A x \in s .. t : SeenBy(t, t, 0) - SeenBy(x - 1, t, 0) \in Int
    <3>1. \A x \in s .. t : x - 1 \in Int /\ x - 1 <= MaxNow /\ x \in Int
      BY <1>1
    <3>2. \A x \in s .. t : Upto(x - 1) \in Nat /\ SeenBy(x - 1, t, 0) = Upto(x - 1)
      BY <1>1, <3>1, UptoGrows, SeenUnmatched
    <3>3. Upto(t) \in Nat /\ SeenBy(t, t, 0) = Upto(t)
      BY <1>1, UptoGrows, SeenUnmatched
    <3> QED
      BY <3>2, <3>3
  <2> QED
    BY <2>1, <2>2 DEF Complete
<1> QED
  BY <1>1, <1>3, <1>7, <1>8, <1>9 DEF f


\* A tick that does not confirm keeps each of its occurrences.
LEMMA OccurrencesKept ==
  ASSUME NEW hits \in Drained
  PROVE  /\ hits.records \in Nat /\ Occurrences(hits) \in Nat
         /\ hits.records = 0 => Occurrences(hits) = 0
         /\ hits.records > 0 => Occurrences(hits) > 0
         /\ hits.records > 0 /\ Occurrences(hits) < ConfirmCount =>
              hits.records * AtMost(hits.each, ConfirmCount) = Occurrences(hits)
<1>1. hits.records \in Nat /\ hits.each \in Nat /\ hits.each >= 1
  BY DEF Drained
<1>2. ASSUME NEW a \in Nat, NEW b \in Nat, b >= 1, a > 0
      PROVE  a * b \in Nat /\ a * b >= b
  BY <1>2
<1>3. ASSUME NEW a \in Nat, NEW b \in Nat PROVE a * b \in Nat
  BY <1>3
<1>4. Occurrences(hits) = hits.records * hits.each
  BY DEF Occurrences
<1>5. hits.records = 0 => Occurrences(hits) = 0
  BY <1>1, <1>4
<1>6. ASSUME hits.records > 0
      PROVE  Occurrences(hits) >= hits.each
  BY <1>1, <1>2, <1>4, <1>6
<1>7. ASSUME hits.records > 0, Occurrences(hits) < ConfirmCount
      PROVE  hits.records * AtMost(hits.each, ConfirmCount) = Occurrences(hits)
  <2>1. hits.each < ConfirmCount
    BY <1>1, <1>3, <1>4, <1>6, <1>7
  <2>2. AtMost(hits.each, ConfirmCount) = hits.each
    BY <2>1 DEF AtMost
  <2> QED
    BY <1>4, <2>2
<1> QED
  BY <1>1, <1>3, <1>4, <1>5, <1>6, <1>7

\* c more at time t wait behind the others.
LEMMA MoreWait ==
  ASSUME CountsInOrder, NEW f, NEW t \in Time, now < t, Waiting(f, t, 0),
         NEW c \in Nat, NEW s \in Nat
  PROVE  LET q == f \o [k \in 1 .. c |-> t]
         IN  /\ Waiting(q, t, c) /\ Len(q) = Len(f) + c
             /\ Complete(f, s, t, 0) => Complete(q, s, t, c)
<1> DEFINE new == [k \in 1 .. c |-> t]
           q   == f \o new
<1>1. /\ InOrder(f) /\ f \in Seq(Time) /\ Len(f) \in Nat
      /\ t \in Nat /\ t <= MaxNow /\ Upto(t) \in Nat /\ Upto(t - 1) \in Nat
      /\ Upto(t - 1) <= Upto(t)
  <2>1. InOrder(f) /\ f \in Seq(Time) /\ Len(f) \in Nat
    BY DEF Waiting, InOrder
  <2>2. t \in Nat /\ t <= MaxNow
    BY DEF Time
  <2> QED
    BY <2>1, <2>2, UptoGrows
<1>2. \A i \in 1 .. Len(f) : f[i] \in Nat /\ f[i] <= t
  <2>1. \A i \in 1 .. Len(f) : f[i] \in Time
    BY <1>1
  <2>2. \A i \in 1 .. Len(f) : f[i] <= t
    BY DEF Waiting
  <2> QED
    BY <2>1, <2>2 DEF Time
<1>3. new \in Seq(Time) /\ Len(new) = c /\ \A i \in 1 .. c : new[i] = t
  OBVIOUS
<1> HIDE DEF new
<1>4. /\ q \in Seq(Time) /\ Len(q) = Len(f) + c
      /\ \A i \in 1 .. Len(f) : q[i] = f[i]
      /\ \A i \in Len(f) + 1 .. Len(f) + c : q[i] = t
  BY <1>1, <1>3
<1> HIDE DEF q
<1>5. \A i \in 1 .. Len(q) : q[i] \in Nat /\ q[i] <= t
  <2>1. ASSUME NEW i \in 1 .. Len(q) PROVE q[i] \in Nat /\ q[i] <= t
    <3>1. i \in 1 .. Len(f) \/ i \in Len(f) + 1 .. Len(f) + c
      BY <1>1, <1>4
    <3>2. CASE i \in 1 .. Len(f)
      BY <1>2, <1>4, <3>2
    <3>3. CASE i \in Len(f) + 1 .. Len(f) + c
      <4>1. q[i] = t
        BY <1>4, <3>3
      <4> QED
        BY <1>1, <4>1
    <3> QED
      BY <3>1, <3>2, <3>3
  <2> QED
    BY <2>1
<1>6. InOrder(q)
  <2>1. \A i, j \in 1 .. Len(f) : i <= j => f[i] <= f[j]
    BY <1>1 DEF InOrder
  <2>2. ASSUME NEW i \in 1 .. Len(q), NEW j \in 1 .. Len(q), i <= j
        PROVE  q[i] <= q[j]
    <3>1. CASE j \in 1 .. Len(f)
      <4>1. i \in 1 .. Len(f)
        BY <1>1, <1>4, <2>2, <3>1
      <4> QED
        BY <1>4, <2>1, <2>2, <3>1, <4>1
    <3>2. CASE j \in Len(f) + 1 .. Len(f) + c
      BY <1>4, <1>5, <2>2, <3>2
    <3> QED
      BY <1>1, <1>4, <3>1, <3>2
  <2> QED
    BY <1>4, <2>2 DEF InOrder
<1>7. /\ SeenBy(t, t, c) = Upto(t) + c /\ SeenBy(t, t, 0) = Upto(t)
      /\ \A x \in Int : x < t => SeenBy(x, t, c) = Upto(x) /\ SeenBy(x, t, 0) = Upto(x)
                              /\ Upto(x) \in Nat
  <2>1. \A x \in Int : x < t => Upto(x) \in Nat
    BY <1>1, UptoGrows
  <2> QED
    BY <1>1, <2>1 DEF SeenBy
<1>8. ASSUME NEW i \in 1 .. Len(q)
      PROVE  Len(q) - i + 1 <= SeenBy(t, t, c) - SeenBy(q[i] - 1, t, c)
  <2>1. q[i] - 1 \in Int /\ q[i] - 1 < t
    BY <1>1, <1>5
  <2>2. SeenBy(t, t, c) - SeenBy(q[i] - 1, t, c) = Upto(t) + c - Upto(q[i] - 1)
        /\ Upto(q[i] - 1) \in Nat
    <3>1. /\ SeenBy(q[i] - 1, t, c) = Upto(q[i] - 1)
          /\ Upto(q[i] - 1) \in Nat
      BY <1>7, <2>1
    <3>2. SeenBy(t, t, c) = Upto(t) + c /\ Upto(t) \in Nat
      BY <1>1, <1>7
    <3> QED
      BY <3>1, <3>2
  <2>3. CASE i \in 1 .. Len(f)
    <3>1. Len(f) - i + 1 <= SeenBy(t, t, 0) - SeenBy(f[i] - 1, t, 0)
      BY <2>3 DEF Waiting
    <3>2. f[i] = q[i] /\ SeenBy(f[i] - 1, t, 0) = Upto(q[i] - 1)
      BY <1>4, <1>7, <2>1, <2>3
    <3>3. SeenBy(t, t, 0) = Upto(t) /\ Upto(t) \in Nat /\ Len(f) \in Nat
          /\ Len(q) = Len(f) + c /\ Upto(q[i] - 1) \in Nat
      BY <1>1, <1>4, <1>7, <2>2
    <3>4. Len(f) - i + 1 <= Upto(t) - Upto(q[i] - 1)
      BY <3>1, <3>2, <3>3, Zenon
    <3>5. SeenBy(t, t, c) - SeenBy(q[i] - 1, t, c) = Upto(t) + c - Upto(q[i] - 1)
      BY <2>2
    <3> QED
      BY <2>3, <3>3, <3>4, <3>5
  <2>4. CASE i \in Len(f) + 1 .. Len(f) + c
    <3>1. q[i] = t
      BY <1>4, <2>4
    <3> QED
      BY <1>1, <1>4, <2>2, <2>4, <3>1
  <2> QED
    BY <1>1, <1>4, <2>3, <2>4
<1>9. Waiting(q, t, c)
  BY <1>5, <1>6, <1>8 DEF Waiting
<1>10. ASSUME Complete(f, s, t, 0) PROVE Complete(q, s, t, c)
  <2>1. ASSUME NEW x \in s .. t, x >= t - ConfirmWindow,
               NEW k, k = SeenBy(t, t, c) - SeenBy(x - 1, t, c)
        PROVE  k <= Len(q) /\ (k > 0 => q[Len(q) - k + 1] >= x)
    <3>1. x \in Nat /\ x <= t /\ x - 1 \in Int /\ x - 1 < t
      BY <1>1
    <3>0. Len(q) = Len(f) + c /\ Len(f) \in Nat
      BY <1>1, <1>4
    <3> DEFINE l == SeenBy(t, t, 0) - SeenBy(x - 1, t, 0)
    <3>2. l <= Len(f) /\ (l > 0 => f[Len(f) - l + 1] >= x)
      BY <1>10, <2>1 DEF Complete
    <3>3. l = Upto(t) - Upto(x - 1) /\ k = l + c /\ l \in Int
      BY <1>1, <1>7, <2>1, <3>1
    <3> HIDE DEF l
    <3>4. k <= Len(q) /\ k \in Int
      BY <1>1, <1>4, <3>2, <3>3
    <3>5. CASE k > 0 /\ l > 0
      <4>1. Len(f) - l + 1 \in 1 .. Len(f) /\ Len(q) - k + 1 = Len(f) - l + 1
        <5>1. l <= Len(f) /\ l > 0 /\ k = l + c /\ l \in Int
          BY <3>2, <3>3, <3>5
        <5> QED
          BY <3>0, <5>1
      <4>2. q[Len(q) - k + 1] = f[Len(f) - l + 1]
        BY <1>4, <4>1
      <4> QED
        BY <3>2, <3>4, <3>5, <4>2
    <3>6. CASE k > 0 /\ ~(l > 0)
      <4>1. Len(q) - k + 1 \in Len(f) + 1 .. Len(f) + c
        <5>1. k = l + c /\ l \in Int /\ k \in Int /\ k > 0 /\ l <= 0
          BY <3>3, <3>4, <3>6
        <5>2. Len(q) - k + 1 = Len(f) + (1 - l)
          BY <3>0, <5>1
        <5> QED
          BY <3>0, <5>1, <5>2
      <4>2. q[Len(q) - k + 1] = t
        BY <1>4, <4>1
      <4> QED
        BY <1>1, <3>1, <3>4, <4>2
    <3> QED
      BY <3>4, <3>5, <3>6
  <2> QED
    BY <2>1 DEF Complete
<1> QED
  BY <1>4, <1>9, <1>10 DEF q, new

\* What an incident stands for, when m of time n are committed as well.
Evidenced(r, n, m) ==
    LET end   == IF r.state = "cleared" THEN r.cleared - 1 ELSE n
        burst == r.occ - (SeenBy(end, n, m) - SeenBy(r.opened, n, m))
    IN  /\ r.opened <= n /\ r.changed <= n
        /\ r.state = "cleared" => r.opened < r.cleared /\ r.cleared <= n
        /\ ConfirmCount <= burst
        /\ burst <= SeenBy(r.opened, n, m) - SeenBy(r.opened - ConfirmWindow - 1, n, m)
        /\ r.state # "cleared" => SeenBy(n, n, m) = SeenBy(r.changed, n, m)

LEMMA EvidenceAges ==
  ASSUME CountsInOrder, NEW r \in RowType, Evidenced(r, now, 0), NEW t \in Time, now < t
  PROVE  Evidenced(r, t, 0) /\ r.opened < t
<1>1. /\ r.opened \in Nat /\ r.changed \in Nat /\ r.cleared \in Nat /\ r.occ \in Nat
      /\ t \in Nat /\ t <= MaxNow /\ now \in Nat
  BY UptoGrows DEF RowType, Time
<1>2. /\ r.opened <= now /\ r.changed <= now
      /\ r.state = "cleared" => r.opened < r.cleared /\ r.cleared <= now
  BY DEF Evidenced
<1>3. Upto(t) = Upto(now)
  BY <1>1, UptoGrows
<1>4. /\ SeenBy(t, t, 0) = SeenBy(now, now, 0)
      /\ \A x \in Int : x <= MaxNow => SeenBy(x, t, 0) = SeenBy(x, now, 0)
  BY <1>1, <1>3, SeenUnmatched
<1>5. /\ SeenBy(r.opened, t, 0) = SeenBy(r.opened, now, 0)
      /\ SeenBy(r.changed, t, 0) = SeenBy(r.changed, now, 0)
      /\ SeenBy(r.opened - ConfirmWindow - 1, t, 0)
           = SeenBy(r.opened - ConfirmWindow - 1, now, 0)
      /\ r.state = "cleared" =>
           SeenBy(r.cleared - 1, t, 0) = SeenBy(r.cleared - 1, now, 0)
  BY <1>1, <1>2, <1>4
<1>6. r.opened <= t /\ r.changed <= t /\ (r.state = "cleared" => r.cleared <= t)
      /\ r.opened < t
  BY <1>1, <1>2
<1>7. CASE r.state = "cleared"
  BY <1>2, <1>4, <1>5, <1>6, <1>7 DEF Evidenced
<1>8. CASE r.state # "cleared"
  BY <1>2, <1>4, <1>5, <1>6, <1>8 DEF Evidenced
<1> QED
  BY <1>6, <1>7, <1>8

\* What happens from the time of its end on does not concern a cleared one.
LEMMA ClearedStands ==
  ASSUME CountsInOrder, NEW r \in RowType, NEW t \in Time, NEW m \in Nat,
         Evidenced(r, t, 0), r.state = "cleared"
  PROVE  Evidenced(r, t, m)
<1>1. /\ r.opened \in Nat /\ r.cleared \in Nat /\ t \in Nat /\ t <= MaxNow
      /\ r.opened < r.cleared /\ r.cleared <= t
  BY DEF RowType, Time, Evidenced
<1>2. \A x \in Int : x < t => SeenBy(x, t, m) = SeenBy(x, t, 0)
  BY <1>1 DEF SeenBy
<1>3. /\ SeenBy(r.cleared - 1, t, m) = SeenBy(r.cleared - 1, t, 0)
      /\ SeenBy(r.opened, t, m) = SeenBy(r.opened, t, 0)
      /\ SeenBy(r.opened - ConfirmWindow - 1, t, m)
           = SeenBy(r.opened - ConfirmWindow - 1, t, 0)
  BY <1>1, <1>2
<1> QED
  BY <1>3 DEF Evidenced

\* The row the executor writes.
RowOf(c, t) == [state |-> c.state, opened |-> c.opened, changed |-> t,
                cleared |-> IF c.state = "cleared" THEN t ELSE 0, occ |-> c.occ]

\* An incident that opens: the burst is what waited and what came.
LEMMA OpensEvidenced ==
  ASSUME CountsInOrder, NEW t \in Time, now < t, NEW m \in Nat, NEW c,
         NEW len \in Nat, len <= Upto(t) - Upto(t - ConfirmWindow - 1),
         c.state = "open", c.opened = t, c.occ = len + m, len + m >= ConfirmCount
  PROVE  Evidenced(RowOf(c, t), t, m)
<1> DEFINE r == RowOf(c, t)
<1>1. /\ t \in Nat /\ t <= MaxNow /\ Upto(t) \in Nat
      /\ Upto(t - ConfirmWindow - 1) \in Nat
  <2>1. t \in Nat /\ t <= MaxNow
    BY DEF Time
  <2> QED
    BY <2>1, UptoGrows
<1>2. r.state = "open" /\ r.opened = t /\ r.changed = t /\ r.occ = len + m
  BY DEF RowOf
<1>3. /\ SeenBy(t, t, m) = Upto(t) + m
      /\ SeenBy(t - ConfirmWindow - 1, t, m) = Upto(t - ConfirmWindow - 1)
  BY <1>1 DEF SeenBy
<1> HIDE DEF r
<1>4. r.opened <= t /\ r.changed <= t /\ r.state # "cleared"
  BY <1>1, <1>2
<1>5. r.occ - (SeenBy(t, t, m) - SeenBy(r.opened, t, m)) = len + m
  BY <1>1, <1>2, <1>3
<1>6. SeenBy(r.opened, t, m) - SeenBy(r.opened - ConfirmWindow - 1, t, m)
        = Upto(t) + m - Upto(t - ConfirmWindow - 1)
  <2>1. SeenBy(r.opened, t, m) = Upto(t) + m
        /\ SeenBy(r.opened - ConfirmWindow - 1, t, m) = Upto(t - ConfirmWindow - 1)
    BY <1>2, <1>3
  <2> QED
    BY <1>1, <2>1
<1>7. /\ ConfirmCount <= len + m
      /\ len + m <= Upto(t) + m - Upto(t - ConfirmWindow - 1)
  BY <1>1
<1>8. SeenBy(t, t, m) = SeenBy(r.changed, t, m)
  BY <1>2
<1> QED
  BY <1>4, <1>5, <1>6, <1>7, <1>8 DEF Evidenced, r

\* An incident that goes on counts what came.
LEMMA GoesOnEvidenced ==
  ASSUME CountsInOrder, NEW t \in Time, now < t, NEW m \in Nat, NEW c,
         NEW r \in RowType, Evidenced(r, t, 0), r.state # "cleared", r.opened < t,
         c.state # "cleared", c.opened = r.opened, c.occ = r.occ + m
  PROVE  Evidenced(RowOf(c, t), t, m)
<1> DEFINE q == RowOf(c, t)
<1>1. /\ t \in Nat /\ t <= MaxNow /\ Upto(t) \in Nat
      /\ r.opened \in Nat /\ r.occ \in Nat
      /\ Upto(r.opened) \in Nat /\ Upto(r.opened - ConfirmWindow - 1) \in Nat
  <2>1. t \in Nat /\ t <= MaxNow /\ r.opened \in Nat /\ r.occ \in Nat
    BY DEF Time, RowType
  <2> QED
    BY <2>1, UptoGrows
<1>2. q.state # "cleared" /\ q.opened = r.opened /\ q.changed = t /\ q.occ = r.occ + m
  BY DEF RowOf
<1>3. /\ SeenBy(t, t, m) = Upto(t) + m /\ SeenBy(t, t, 0) = Upto(t)
      /\ SeenBy(r.opened, t, m) = Upto(r.opened)
      /\ SeenBy(r.opened, t, 0) = Upto(r.opened)
      /\ SeenBy(r.opened - ConfirmWindow - 1, t, m) = Upto(r.opened - ConfirmWindow - 1)
      /\ SeenBy(r.opened - ConfirmWindow - 1, t, 0) = Upto(r.opened - ConfirmWindow - 1)
  BY <1>1 DEF SeenBy
<1>4. LET burst == r.occ - (Upto(t) - Upto(r.opened))
      IN  /\ ConfirmCount <= burst
          /\ burst <= Upto(r.opened) - Upto(r.opened - ConfirmWindow - 1)
  BY <1>3 DEF Evidenced
<1> HIDE DEF q
<1>5. q.occ - (SeenBy(t, t, m) - SeenBy(q.opened, t, m))
        = r.occ - (Upto(t) - Upto(r.opened))
  BY <1>1, <1>2, <1>3
<1>6. SeenBy(q.opened, t, m) - SeenBy(q.opened - ConfirmWindow - 1, t, m)
        = Upto(r.opened) - Upto(r.opened - ConfirmWindow - 1)
  BY <1>2, <1>3
<1>7. q.opened <= t /\ q.changed <= t /\ SeenBy(t, t, m) = SeenBy(q.changed, t, m)
  BY <1>1, <1>2
<1> QED
  BY <1>2, <1>4, <1>5, <1>6, <1>7 DEF Evidenced, q

\* An incident that ends counts nothing of the time it ends at.
LEMMA EndsEvidenced ==
  ASSUME CountsInOrder, NEW t \in Time, now < t, NEW m \in Nat, NEW c,
         NEW r \in RowType, Evidenced(r, t, 0), r.state # "cleared", r.opened < t,
         c.state = "cleared", c.opened = r.opened, c.occ = r.occ
  PROVE  Evidenced(RowOf(c, t), t, m)
<1> DEFINE q == RowOf(c, t)
<1>1. /\ t \in Nat /\ t <= MaxNow /\ Upto(t) \in Nat
      /\ r.opened \in Nat /\ r.occ \in Nat
      /\ Upto(r.opened) \in Nat /\ Upto(r.opened - ConfirmWindow - 1) \in Nat
      /\ Upto(t - 1) = Upto(t)
  <2>1. /\ t \in Nat /\ t <= MaxNow /\ r.opened \in Nat /\ r.occ \in Nat
        /\ now \in Nat /\ now <= t - 1
    BY UptoGrows DEF Time, RowType
  <2>2. Upto(t - 1) = Upto(now) /\ Upto(t) = Upto(now)
    BY <2>1, UptoGrows
  <2>3. Upto(t) \in Nat /\ Upto(r.opened) \in Nat
        /\ Upto(r.opened - ConfirmWindow - 1) \in Nat
    BY <2>1, UptoGrows
  <2> QED
    BY <2>1, <2>2, <2>3
<1>2. q.state = "cleared" /\ q.opened = r.opened /\ q.changed = t /\ q.occ = r.occ
      /\ q.cleared = t
  BY DEF RowOf
<1>3. /\ SeenBy(t - 1, t, m) = Upto(t) /\ SeenBy(t, t, 0) = Upto(t)
      /\ SeenBy(r.opened, t, m) = Upto(r.opened)
      /\ SeenBy(r.opened, t, 0) = Upto(r.opened)
      /\ SeenBy(r.opened - ConfirmWindow - 1, t, m) = Upto(r.opened - ConfirmWindow - 1)
      /\ SeenBy(r.opened - ConfirmWindow - 1, t, 0) = Upto(r.opened - ConfirmWindow - 1)
  BY <1>1 DEF SeenBy
<1>4. LET burst == r.occ - (Upto(t) - Upto(r.opened))
      IN  /\ ConfirmCount <= burst
          /\ burst <= Upto(r.opened) - Upto(r.opened - ConfirmWindow - 1)
  BY <1>3 DEF Evidenced
<1> HIDE DEF q
<1>5. q.occ - (SeenBy(q.cleared - 1, t, m) - SeenBy(q.opened, t, m))
        = r.occ - (Upto(t) - Upto(r.opened))
  BY <1>1, <1>2, <1>3
<1>6. SeenBy(q.opened, t, m) - SeenBy(q.opened - ConfirmWindow - 1, t, m)
        = Upto(r.opened) - Upto(r.opened - ConfirmWindow - 1)
  BY <1>2, <1>3
<1>7. q.opened <= t /\ q.changed <= t /\ q.opened < q.cleared /\ q.cleared <= t
  BY <1>1, <1>2
<1> QED
  BY <1>2, <1>4, <1>5, <1>6, <1>7 DEF Evidenced, q

\* The row as it will be once the buffers are committed.
RowAfter(p, i) ==
    CASE p.rows[i].state = "none" -> rows[i]
      [] p.rows[i].state # "none" /\ rows[i].state = "none" -> p.rows[i]
      [] OTHER -> [p.rows[i] EXCEPT !.opened = rows[i].opened]

LEMMA RowAfterIs ==
  ASSUME rows \in [Id -> RowType], NEW p, p.rows \in [Id -> RowType], NEW i \in Id
  PROVE  /\ RowAfter(p, i) \in RowType /\ RowAfter(p, i).state = After(p, i)
         /\ rows[i].state # "none" =>
              /\ RowAfter(p, i).state # "none" /\ RowAfter(p, i).opened = rows[i].opened
         /\ p.rows[i].state = "none" => RowAfter(p, i) = rows[i]
         /\ p.rows[i].state # "none" /\ rows[i].state = "none" => RowAfter(p, i) = p.rows[i]
         /\ p.rows[i].state # "none" /\ rows[i].opened = p.rows[i].opened =>
              RowAfter(p, i) = p.rows[i]
         /\ p.rows[i].state # "none" => RowAfter(p, i).state # "none"
         /\ RowAfter(p, i).state # "none" =>
              p.rows[i].state # "none" \/ rows[i].state # "none"
<1>1. rows[i] \in RowType /\ p.rows[i] \in RowType
  OBVIOUS
<1> DEFINE r == rows[i]
           q == p.rows[i]
<1>2. RowAfter(p, i) = CASE q.state = "none" -> r
                         [] q.state # "none" /\ r.state = "none" -> q
                         [] OTHER -> [q EXCEPT !.opened = r.opened]
  BY DEF RowAfter
<1>3. After(p, i) = IF q.state = "none" THEN r.state ELSE q.state
  BY DEF After
<1> HIDE DEF r, q
<1>4. r \in RowType /\ q \in RowType
  BY <1>1 DEF r, q
<1>5. LET z == [q EXCEPT !.opened = r.opened]
      IN  /\ z \in RowType /\ z.state = q.state /\ z.opened = r.opened
          /\ r.opened = q.opened => z = q
  BY <1>4 DEF RowType
<1>6. CASE q.state = "none"
  <2>1. RowAfter(p, i) = r
    BY <1>2, <1>6
  <2> QED
    BY <1>3, <1>4, <1>6, <2>1 DEF r, q
<1>7. CASE q.state # "none" /\ r.state = "none"
  <2>1. RowAfter(p, i) = q
    BY <1>2, <1>7
  <2> QED
    BY <1>3, <1>4, <1>7, <2>1 DEF r, q
<1>8. CASE q.state # "none" /\ r.state # "none"
  <2>1. RowAfter(p, i) = [q EXCEPT !.opened = r.opened]
    BY <1>2, <1>8
  <2> QED
    BY <1>3, <1>4, <1>5, <1>8, <2>1 DEF r, q
<1> QED
  BY <1>6, <1>7, <1>8

\* The types of a working state.
EpisodeTyped(e) ==
    /\ e.core \in CoreType /\ e.seen \in Time /\ e.cooldown \in Nat
    /\ e.pending \in Seq(Time) /\ Len(e.pending) < ConfirmCount
    /\ e.flaps \in Seq(Time) /\ Len(e.flaps) <= FlapKeep
PendTyped(p) == p.rows \in [Id -> RowType] /\ p.notes \in [Id -> Seq(NoteType)]

\* No id is given out twice.
IdsAreNew(p, next) ==
    \A i \in Id : RowAfter(p, i).state # "none" =>
        IF next = 0 THEN rows[i].state # "none" ELSE i < next
\* The episode is the row's.
Mirrors(p, e) ==
    IsLive(e) => LET r == RowAfter(p, e.core.id)
                 IN  /\ r.state \in Live /\ r.opened = e.core.opened
                     /\ r.occ = e.core.occ /\ r.changed = e.seen
AllEvidenced(p, n, m) ==
    \A i \in Id : RowAfter(p, i).state # "none" => Evidenced(RowAfter(p, i), n, m)

\* A working state of a tick at time n, m matches in the buffers, the last
\* episode over since s.
Works(w, s, n, m) ==
    /\ Sound(w) /\ EpisodeTyped(w.ep) /\ PendTyped(w.pend)
    /\ IdsAreNew(w.pend, w.nextId) /\ Mirrors(w.pend, w.ep)
    /\ AllEvidenced(w.pend, n, m)
    /\ Waiting(w.ep.pending, n, m)
    /\ ~IsLive(w.ep) => Complete(w.ep.pending, s, n, m)
\* All rows are of earlier ticks.
AllEarlier(p, n) ==
    \A i \in Id : RowAfter(p, i).state # "none" => RowAfter(p, i).opened < n

LEMMA WorksAges ==
  ASSUME CountsInOrder, rows \in [Id -> RowType], NEW t \in Time, now < t,
         NEW w, NEW s \in Nat, Works(w, s, now, 0)
  PROVE  Works(w, s, t, 0) /\ AllEarlier(w.pend, t)
<1>1. ASSUME NEW i \in Id, RowAfter(w.pend, i).state # "none"
      PROVE  Evidenced(RowAfter(w.pend, i), t, 0) /\ RowAfter(w.pend, i).opened < t
  <2>1. RowAfter(w.pend, i) \in RowType
    BY RowAfterIs DEF Works, PendTyped
  <2> QED
    BY <1>1, <2>1, EvidenceAges DEF Works, AllEvidenced
<1>2. Waiting(w.ep.pending, t, 0)
  BY WaitingAges DEF Works
<1>3. ~IsLive(w.ep) => Complete(w.ep.pending, s, t, 0)
  BY CompleteAges DEF Works, Waiting
<1> QED
  BY <1>1, <1>2, <1>3 DEF Works, AllEarlier, AllEvidenced

\* What the executor writes under an id, when there is something to record.
Written(done, w, e, t, id) ==
    /\ IsLive(w.ep) => id = w.ep.core.id
    /\ done.ep = [e EXCEPT !.core = [e.core EXCEPT !.id = id]]
    /\ done.pend.rows = [w.pend.rows EXCEPT ![id] = RowOf(e.core, t)]
    /\ PendTyped(done.pend) /\ IdsAreNew(done.pend, done.nextId)
    /\ RowAfter(done.pend, id) = RowOf(e.core, t)
    /\ \A i \in Id : i # id => RowAfter(done.pend, i) = RowAfter(w.pend, i)
LEMMA ApplyWrites ==
  ASSUME rows \in [Id -> RowType], NEW t \in Time, NEW s, NEW m, NEW w, NEW step,
         Works(w, s, t, m), Faithful(step, w.ep), step.record # "none",
         step.ep.core \in CoreType, step.note \in {"none", "open", "renotify", "recover"},
         IsLive(w.ep) => step.ep.core.opened = w.ep.core.opened,
         Apply(w, step, t).nextId <= MaxId + 1
  PROVE  \E id \in Id : Written(Apply(w, step, t), w, step.ep, t, id)
<1> DEFINE done  == Apply(w, step, t)
           row   == RowOf(step.ep.core, t)
           fresh == step.ep.core.id = 0
           id    == IF fresh THEN AllocId(w) ELSE step.ep.core.id
           core  == [step.ep.core EXCEPT !.id = id]
           sent  == IF step.note = "none" THEN <<>>
                    ELSE <<[kind |-> step.note, ts |-> t]>>
           p     == [w.pend EXCEPT !.rows[id] = row, !.notes[id] = @ \o sent]
<1>1. /\ Sound(w) /\ PendTyped(w.pend) /\ IdsAreNew(w.pend, w.nextId)
      /\ Mirrors(w.pend, w.ep) /\ w.nextId \in Nat /\ IsPending(w.pend)
      /\ step.ep.core.state \in {"open", "acked", "cleared"}
      /\ step.ep.core.id = IF IsLive(w.ep) THEN w.ep.core.id ELSE 0
      /\ IsLive(w.ep) => w.ep.core.id \in Id
  BY DEF Works, Sound, Faithful
<1>2. /\ core.state = step.ep.core.state /\ core.opened = step.ep.core.opened
      /\ core.occ = step.ep.core.occ /\ core.id = id
  BY DEF CoreType
<1>3. row = [state |-> core.state, opened |-> core.opened, changed |-> t,
             cleared |-> IF core.state = "cleared" THEN t ELSE 0, occ |-> core.occ]
  BY <1>2 DEF RowOf
<1>4. done = [ep |-> [step.ep EXCEPT !.core = core],
              nextId |-> IF fresh THEN id + 1 ELSE w.nextId, pend |-> p]
  <2> HIDE DEF row
  <2> QED
    BY <1>3 DEF Apply
<1>5. /\ done.ep = [step.ep EXCEPT !.core = core] /\ done.pend = p
      /\ done.nextId = IF fresh THEN id + 1 ELSE w.nextId
  BY <1>4
<1>6. row \in RowType /\ row.state # "none" /\ row.opened = step.ep.core.opened
  BY <1>1 DEF RowOf, RowType, CoreType, Time
<1>7. id \in Id
  <2>1. CASE fresh
    <3>1. AllocId(w) \in Nat /\ AllocId(w) # 0
      BY <1>1, AllocIsNew
    <3>2. AllocId(w) + 1 <= MaxId + 1
      BY <1>5, <2>1
    <3> QED
      BY <2>1, <3>1, <3>2 DEF Id
  <2>2. CASE ~fresh
    BY <1>1, <2>2
  <2> QED
    BY <2>1, <2>2
<1>8. fresh => rows[id].state = "none"
  <2>1. SUFFICES ASSUME fresh, rows[id].state # "none" PROVE FALSE
    OBVIOUS
  <2>2. id = AllocId(w) /\ id \in Nat
    BY <1>7, <2>1 DEF Id
  <2>3. CASE w.nextId = 0
    BY <1>1, <1>7, <2>1, <2>2, <2>3, AllocIsNew
  <2>4. CASE w.nextId # 0
    <3>1. id = w.nextId
      BY <1>1, <2>2, <2>4, AllocIsNew
    <3>2. RowAfter(w.pend, id).state # "none"
      BY <1>1, <1>7, <2>1, RowAfterIs DEF PendTyped
    <3>3. id < w.nextId
      BY <1>1, <1>7, <2>4, <3>2 DEF IdsAreNew
    <3> QED
      BY <2>2, <3>1, <3>3
  <2> QED
    BY <2>3, <2>4
<1>9. ~fresh => IsLive(w.ep) /\ id = w.ep.core.id
                /\ RowAfter(w.pend, id).state \in Live
                /\ RowAfter(w.pend, id).opened = row.opened
  BY <1>1, <1>6 DEF Mirrors
<1>10. IsLive(w.ep) => id = w.ep.core.id
  BY <1>1 DEF Id
<1> HIDE DEF row, id, core, sent, fresh
<1>11. /\ p.rows = [w.pend.rows EXCEPT ![id] = row]
       /\ p.notes = [w.pend.notes EXCEPT ![id] = @ \o sent]
  BY <1>1 DEF IsPending
<1> HIDE DEF p
<1>12. /\ p.rows \in [Id -> RowType] /\ p.rows[id] = row
       /\ \A i \in Id : i # id => p.rows[i] = w.pend.rows[i]
  BY <1>1, <1>6, <1>7, <1>11 DEF PendTyped
<1>13. sent \in Seq(NoteType)
  <2>1. CASE step.note = "none"
    BY <2>1 DEF sent
  <2>2. CASE step.note # "none"
    <3>1. [kind |-> step.note, ts |-> t] \in NoteType
      BY <2>2 DEF NoteType
    <3> QED
      BY <2>2, <3>1 DEF sent
  <2> QED
    BY <2>1, <2>2
<1>14. p.notes \in [Id -> Seq(NoteType)]
  <2>1. w.pend.notes[id] \o sent \in Seq(NoteType)
    BY <1>1, <1>7, <1>13 DEF PendTyped
  <2> QED
    BY <1>1, <1>7, <1>11, <2>1 DEF PendTyped
<1>15. PendTyped(p)
  BY <1>12, <1>14 DEF PendTyped
<1>16. RowAfter(p, id) = row
  <2>1. CASE rows[id].state = "none"
    BY <1>6, <1>7, <1>12, <2>1, RowAfterIs
  <2>2. CASE rows[id].state # "none"
    <3>1. RowAfter(w.pend, id).opened = row.opened
      BY <1>8, <1>9, <2>2
    <3>2. rows[id].opened = row.opened
      BY <1>1, <1>7, <2>2, <3>1, RowAfterIs DEF PendTyped
    <3> QED
      BY <1>6, <1>7, <1>12, <3>2, RowAfterIs
  <2> QED
    BY <2>1, <2>2
<1>17. \A i \in Id : i # id => RowAfter(p, i) = RowAfter(w.pend, i)
  BY <1>12 DEF RowAfter
<1>18. IdsAreNew(p, done.nextId)
  <2>1. SUFFICES ASSUME NEW i \in Id, RowAfter(p, i).state # "none"
                 PROVE  IF done.nextId = 0 THEN rows[i].state # "none" ELSE i < done.nextId
    BY DEF IdsAreNew
  <2>2. i \in Nat /\ id \in Nat
    BY <1>7 DEF Id
  <2>3. CASE fresh
    <3>1. done.nextId = id + 1 /\ id = AllocId(w)
      BY <1>5, <2>3 DEF id
    <3>2. i # id => i < id
      <4>1. SUFFICES ASSUME i # id PROVE i < id
        OBVIOUS
      <4>2. RowAfter(w.pend, i).state # "none"
        BY <1>17, <2>1, <4>1
      <4>3. IF w.nextId = 0 THEN rows[i].state # "none" ELSE i < w.nextId
        BY <1>1, <4>2 DEF IdsAreNew
      <4> QED
        BY <1>1, <3>1, <4>3, AllocIsNew
    <3> QED
      BY <2>2, <3>1, <3>2
  <2>4. CASE ~fresh
    <3>1. done.nextId = w.nextId
      BY <1>5, <2>4
    <3>2. RowAfter(w.pend, i).state # "none"
      <4>1. CASE i = id
        BY <1>9, <2>4, <4>1 DEF Live
      <4>2. CASE i # id
        BY <1>17, <2>1, <4>2
      <4> QED
        BY <4>1, <4>2
    <3> QED
      BY <1>1, <3>1, <3>2 DEF IdsAreNew
  <2> QED
    BY <2>3, <2>4
<1> HIDE DEF done
<1>19. Written(done, w, step.ep, t, id)
  BY <1>5, <1>10, <1>11, <1>15, <1>16, <1>17, <1>18 DEF Written, core, row
<1> QED
  BY <1>7, <1>19 DEF done

LEMMA OthersAreCleared ==
  ASSUME rows \in [Id -> RowType], NEW w, Sound(w), PendTyped(w.pend),
         NEW i \in Id, RowAfter(w.pend, i).state # "none"
  PROVE  \/ RowAfter(w.pend, i).state = "cleared"
         \/ RowAfter(w.pend, i).state \in Live /\ IsLive(w.ep) /\ i = w.ep.core.id
<1>1. RowAfter(w.pend, i) \in RowType /\ RowAfter(w.pend, i).state = After(w.pend, i)
  BY RowAfterIs DEF PendTyped
<1>2. RowAfter(w.pend, i).state \in {"cleared", "open", "acked"}
  BY <1>1 DEF RowType
<1> QED
  BY <1>1, <1>2 DEF Sound, Owned, Live

\* A step that records something.
LEMMA RecordWorks ==
  ASSUME CountsInOrder, rows \in [Id -> RowType], NEW t \in Time, NEW s, NEW next,
         NEW m \in Nat, NEW w, NEW step,
         Works(w, s, t, 0), Faithful(step, w.ep), step.record # "none",
         EpisodeTyped(step.ep), step.note \in {"none", "open", "renotify", "recover"},
         IsLive(w.ep) => step.ep.core.opened = w.ep.core.opened,
         Apply(w, step, t).nextId <= MaxId + 1,
         Evidenced(RowOf(step.ep.core, t), t, m),
         IsLive(step.ep) => step.ep.seen = t,
         Waiting(step.ep.pending, t, m),
         ~IsLive(step.ep) => Complete(step.ep.pending, next, t, m)
  PROVE  Works(Apply(w, step, t), next, t, m)
<1> DEFINE done == Apply(w, step, t)
           row  == RowOf(step.ep.core, t)
<1>1. Sound(w) /\ PendTyped(w.pend) /\ AllEvidenced(w.pend, t, 0)
  BY DEF Works
<1>2. Sound(done)
  BY <1>1, ApplyKeepsSound
<1>3. step.ep.core \in CoreType
  BY DEF EpisodeTyped
<1>0. PICK id \in Id : Written(done, w, step.ep, t, id)
  BY <1>3, ApplyWrites
<1>4. /\ IsLive(w.ep) => id = w.ep.core.id
      /\ done.ep = [step.ep EXCEPT !.core = [step.ep.core EXCEPT !.id = id]]
      /\ PendTyped(done.pend) /\ IdsAreNew(done.pend, done.nextId)
      /\ RowAfter(done.pend, id) = row
      /\ \A i \in Id : i # id => RowAfter(done.pend, i) = RowAfter(w.pend, i)
  <2> HIDE DEF done
  <2> QED
    BY <1>0 DEF Written
<1> HIDE DEF done
<1> DEFINE core == [step.ep.core EXCEPT !.id = id]
<1>5. /\ core \in CoreType /\ core.id = id /\ core.state = step.ep.core.state
      /\ core.opened = step.ep.core.opened /\ core.occ = step.ep.core.occ
  <2>1. id \in 0 .. MaxId
    BY DEF Id
  <2> QED
    BY <1>3, <2>1 DEF CoreType
<1> HIDE DEF core
<1>6. IsEpisode(step.ep)
  BY DEF Faithful
<1>7. /\ done.ep.core = core /\ done.ep.seen = step.ep.seen
      /\ done.ep.pending = step.ep.pending /\ done.ep.flaps = step.ep.flaps
      /\ done.ep.cooldown = step.ep.cooldown
  BY <1>4, <1>6 DEF IsEpisode, core
<1>8. EpisodeTyped(done.ep)
  BY <1>5, <1>7 DEF EpisodeTyped
<1>9. IsLive(done.ep) <=> IsLive(step.ep)
  BY <1>5, <1>7 DEF IsLive
<1>10. /\ row.state = core.state /\ row.opened = core.opened /\ row.occ = core.occ
       /\ row.changed = t
  BY <1>5 DEF RowOf
<1> HIDE DEF row
<1>11. Mirrors(done.pend, done.ep)
  <2>1. SUFFICES ASSUME IsLive(done.ep)
                 PROVE  /\ row.state \in Live /\ row.opened = done.ep.core.opened
                        /\ row.occ = done.ep.core.occ /\ row.changed = done.ep.seen
    BY <1>4, <1>5, <1>7 DEF Mirrors
  <2>2. core.state \in Live /\ done.ep.seen = t
    BY <1>7, <1>9, <2>1 DEF IsLive
  <2> QED
    BY <1>7, <1>10, <2>2
<1>12. AllEvidenced(done.pend, t, m)
  <2>1. SUFFICES ASSUME NEW i \in Id, RowAfter(done.pend, i).state # "none"
                 PROVE  Evidenced(RowAfter(done.pend, i), t, m)
    BY DEF AllEvidenced
  <2>2. CASE i = id
    BY <1>4, <2>2 DEF row
  <2>3. CASE i # id
    <3>1. RowAfter(done.pend, i) = RowAfter(w.pend, i)
          /\ RowAfter(w.pend, i).state # "none"
      BY <1>4, <2>1, <2>3
    <3>2. RowAfter(w.pend, i).state = "cleared"
      BY <1>1, <1>4, <2>3, <3>1, OthersAreCleared
    <3>3. Evidenced(RowAfter(w.pend, i), t, 0) /\ RowAfter(w.pend, i) \in RowType
      BY <1>1, <3>1, RowAfterIs DEF AllEvidenced, PendTyped
    <3> QED
      BY <3>1, <3>2, <3>3, ClearedStands
  <2> QED
    BY <2>2, <2>3
<1>13. Works(done, next, t, m)
  BY <1>2, <1>4, <1>7, <1>8, <1>9, <1>11, <1>12 DEF Works
<1> QED
  BY <1>13 DEF done

\* A step that records nothing.
LEMMA NothingWorks ==
  ASSUME CountsInOrder, rows \in [Id -> RowType], NEW t \in Time, NEW s,
         NEW m \in Nat, NEW w, NEW step,
         Works(w, s, t, 0), Faithful(step, w.ep), step.record = "none",
         EpisodeTyped(step.ep), step.ep.seen = w.ep.seen,
         IsLive(w.ep) => m = 0,
         Apply(w, step, t).nextId <= MaxId + 1,
         Waiting(step.ep.pending, t, m),
         ~IsLive(step.ep) => Complete(step.ep.pending, s, t, m)
  PROVE  Works(Apply(w, step, t), s, t, m)
<1> DEFINE done == Apply(w, step, t)
<1>1. Sound(w) /\ PendTyped(w.pend) /\ AllEvidenced(w.pend, t, 0)
  BY DEF Works
<1>2. Sound(done)
  BY <1>1, ApplyKeepsSound
<1>3. done = [w EXCEPT !.ep = step.ep]
  BY DEF Apply
<1>4. done.ep = step.ep /\ done.pend = w.pend /\ done.nextId = w.nextId
      /\ step.ep.core = w.ep.core
  BY <1>1, <1>3 DEF Sound, Faithful
<1> HIDE DEF done
<1>5. IsLive(done.ep) <=> IsLive(w.ep)
  BY <1>4 DEF IsLive
<1>6. Mirrors(done.pend, done.ep)
  BY <1>4, <1>5 DEF Works, Mirrors
<1>7. AllEvidenced(done.pend, t, m)
  <2>1. SUFFICES ASSUME NEW i \in Id, RowAfter(w.pend, i).state # "none"
                 PROVE  Evidenced(RowAfter(w.pend, i), t, m)
    BY <1>4 DEF AllEvidenced
  <2>2. Evidenced(RowAfter(w.pend, i), t, 0) /\ RowAfter(w.pend, i) \in RowType
    BY <1>1, <2>1, RowAfterIs DEF AllEvidenced, PendTyped
  <2>3. CASE RowAfter(w.pend, i).state = "cleared"
    BY <2>2, <2>3, ClearedStands
  <2>4. CASE IsLive(w.ep)
    BY <2>2, <2>4
  <2> QED
    BY <1>1, <2>1, <2>3, <2>4, OthersAreCleared
<1>8. Works(done, s, t, m)
  BY <1>2, <1>4, <1>6, <1>7 DEF Works
<1> QED
  BY <1>8 DEF done

\* What is said of the buffers is said of their rows.
LEMMA SameRows ==
  ASSUME NEW p, NEW q, q.rows = p.rows, q.notes = p.notes
  PROVE  /\ \A i : RowAfter(q, i) = RowAfter(p, i)
         /\ PendTyped(p) => PendTyped(q)
         /\ \A next : IdsAreNew(p, next) => IdsAreNew(q, next)
         /\ \A e : Mirrors(p, e) => Mirrors(q, e)
         /\ \A n, m : AllEvidenced(p, n, m) => AllEvidenced(q, n, m)
<1>1. \A i : RowAfter(q, i) = RowAfter(p, i)
  BY DEF RowAfter
<1>2. PendTyped(p) => PendTyped(q)
  BY DEF PendTyped
<1>3. \A next : IdsAreNew(p, next) => IdsAreNew(q, next)
  BY <1>1 DEF IdsAreNew
<1>4. \A e : Mirrors(p, e) => Mirrors(q, e)
  BY <1>1 DEF Mirrors
<1>5. \A n, m : AllEvidenced(p, n, m) => AllEvidenced(q, n, m)
  BY <1>1 DEF AllEvidenced
<1> QED
  BY <1>1, <1>2, <1>3, <1>4, <1>5

\* Nothing came since a time at which nothing is committed.
LEMMA NewlyComplete ==
  ASSUME CountsInOrder, NEW t \in Time, now < t, NEW q \in Seq(Time)
  PROVE  Complete(q, t, t, 0)
<1>1. t \in Nat /\ t <= MaxNow /\ now \in Nat /\ Len(q) \in Nat
  BY UptoGrows DEF Time
<1>2. Upto(t) = Upto(now) /\ Upto(t - 1) = Upto(now) /\ Upto(now) \in Nat
  BY <1>1, UptoGrows
<1>3. SeenBy(t, t, 0) = Upto(now) /\ SeenBy(t - 1, t, 0) = Upto(now)
  BY <1>1, <1>2, SeenUnmatched
<1>4. \A x \in t .. t : x = t
  BY <1>1
<1> QED
  BY <1>1, <1>2, <1>3, <1>4 DEF Complete

LEMMA NothingWaits == \A n, m : Waiting(<<>>, n, m)
BY DEF Waiting, InOrder

LEMMA AcksSeenWorks ==
  ASSUME NEW s, NEW n, NEW m, NEW w, Works(w, s, n, m), Sound(AcksSeen(w))
  PROVE  /\ Works(AcksSeen(w), s, n, m) /\ AcksSeen(w).pend = w.pend
         /\ IsLive(AcksSeen(w).ep) => IsLive(w.ep)
         /\ AcksSeen(w).ep.core.opened = w.ep.core.opened
<1>1. CASE AcksSeen(w) = w
  BY <1>1
<1>2. CASE AcksSeen(w) # w
  <2> DEFINE z == AcksSeen(w)
             c == [w.ep.core EXCEPT !.state = "acked"]
             e == [w.ep EXCEPT !.core.state = "acked"]
  <2>1. w.ep.core.state = "open" /\ z = [w EXCEPT !.ep.core.state = "acked"]
    BY <1>2 DEF AcksSeen
  <2>2. /\ w \in [ep : {w.ep}, pend : {w.pend}, nextId : {w.nextId}]
        /\ IsEpisode(w.ep) /\ w.ep.core \in CoreType
    BY DEF Works, Sound, EpisodeTyped
  <2>3. /\ c \in CoreType /\ c.state = "acked" /\ c.id = w.ep.core.id
        /\ c.opened = w.ep.core.opened /\ c.occ = w.ep.core.occ
    BY <2>2 DEF CoreType
  <2>4. /\ e.core = c /\ e.seen = w.ep.seen /\ e.pending = w.ep.pending
        /\ e.flaps = w.ep.flaps /\ e.cooldown = w.ep.cooldown
    BY <2>2 DEF IsEpisode
  <2>5. z.ep = e /\ z.pend = w.pend /\ z.nextId = w.nextId
    BY <2>1, <2>2
  <2> HIDE DEF c, e, z
  <2>6. IsLive(w.ep) /\ IsLive(z.ep)
    BY <2>1, <2>3, <2>4, <2>5 DEF IsLive, Live
  <2>7. EpisodeTyped(z.ep)
    BY <2>3, <2>4, <2>5 DEF EpisodeTyped, Works
  <2>8. Mirrors(z.pend, z.ep)
    BY <2>3, <2>4, <2>5, <2>6 DEF Mirrors, Works
  <2>9. Works(z, s, n, m)
    BY <2>4, <2>5, <2>6, <2>7, <2>8 DEF Works, z
  <2> QED
    BY <2>3, <2>4, <2>5, <2>6, <2>9 DEF z
<1> QED
  BY <1>1, <1>2

\* The row of a live episode.
LEMMA LiveRow ==
  ASSUME rows \in [Id -> RowType], NEW s, NEW n, NEW m, NEW w, Works(w, s, n, m),
         IsLive(w.ep)
  PROVE  LET r == RowAfter(w.pend, w.ep.core.id)
         IN  /\ w.ep.core.id \in Id
             /\ r \in RowType /\ Evidenced(r, n, m) /\ r.state # "cleared"
             /\ r.opened = w.ep.core.opened /\ r.occ = w.ep.core.occ
             /\ r.changed = w.ep.seen
<1>1. w.ep.core.id \in Id
  BY DEF Works, Sound
<1> DEFINE r == RowAfter(w.pend, w.ep.core.id)
<1>2. /\ r.state \in Live /\ r.opened = w.ep.core.opened /\ r.occ = w.ep.core.occ
      /\ r.changed = w.ep.seen
  BY DEF Works, Mirrors
<1>3. r \in RowType
  BY <1>1, RowAfterIs DEF Works, PendTyped
<1>4. Evidenced(r, n, m)
  BY <1>1, <1>2 DEF Works, AllEvidenced, Live
<1> QED
  BY <1>1, <1>2, <1>3, <1>4 DEF Live

\* An edited definition ends the episode; no match counts that came before.
LEMMA SupersededWorks ==
  ASSUME CountsInOrder, rows \in [Id -> RowType], NEW t \in Time, now < t, NEW s,
         NEW w, Works(w, s, t, 0), IsLive(w.ep) => w.ep.core.opened < t
  PROVE  Works(Superseded(w, t), t, t, 0) /\ ~IsLive(Superseded(w, t).ep)
<1> DEFINE gone == Step([w.ep EXCEPT !.core.state = "cleared"], "clear", "none")
           x == IF IsLive(w.ep) THEN Apply(w, gone, t) ELSE w
<1>1. PendTyped(x.pend) /\ IdsAreNew(x.pend, x.nextId) /\ AllEvidenced(x.pend, t, 0)
      /\ Sound(x)
  <2>1. CASE ~IsLive(w.ep)
    BY <2>1 DEF Works
  <2>2. CASE IsLive(w.ep)
    <3> DEFINE c == [w.ep.core EXCEPT !.state = "cleared"]
    <3>1. /\ w.ep.core \in CoreType /\ IsEpisode(w.ep) /\ Sound(w)
          /\ EpisodeTyped(w.ep) /\ w.nextId <= MaxId + 1
      BY DEF Works, EpisodeTyped, Sound
    <3>2. /\ c \in CoreType /\ c.state = "cleared" /\ c.id = w.ep.core.id
          /\ c.opened = w.ep.core.opened /\ c.occ = w.ep.core.occ
      BY <3>1 DEF CoreType
    <3>3. /\ gone.ep.core = c /\ gone.ep.seen = w.ep.seen
          /\ gone.ep.pending = w.ep.pending /\ gone.ep.flaps = w.ep.flaps
          /\ gone.ep.cooldown = w.ep.cooldown /\ IsEpisode(gone.ep)
          /\ gone.record = "clear" /\ gone.note = "none"
      BY <3>1 DEF IsEpisode, IsCore, Step
    <3> HIDE DEF gone, c
    <3>4. Faithful(gone, w.ep)
      BY <2>2, <3>2, <3>3 DEF Faithful
    <3>5. EpisodeTyped(gone.ep)
      BY <3>1, <3>2, <3>3 DEF EpisodeTyped
    <3>6. Evidenced(RowOf(gone.ep.core, t), t, 0)
      <4> DEFINE r == RowAfter(w.pend, w.ep.core.id)
      <4>1. /\ r \in RowType /\ Evidenced(r, t, 0) /\ r.state # "cleared"
            /\ r.opened = c.opened /\ r.occ = c.occ /\ r.opened < t
        BY <2>2, <3>2, LiveRow
      <4> HIDE DEF r
      <4> QED
        BY <3>2, <3>3, <4>1, EndsEvidenced
    <3>7. Apply(w, gone, t).nextId = w.nextId
      <4>1. gone.ep.core.id # 0 /\ gone.record # "none"
        BY <2>2, <3>2, <3>3, LiveRow DEF Id
      <4> QED
        BY <4>1 DEF Apply
    <3>8. /\ ~IsLive(gone.ep) /\ Waiting(gone.ep.pending, t, 0)
          /\ Complete(gone.ep.pending, t, t, 0)
      <4>1. ~IsLive(gone.ep)
        BY <3>2, <3>3 DEF IsLive, Live
      <4>2. w.ep.pending \in Seq(Time) /\ Waiting(w.ep.pending, t, 0)
        BY DEF Works, EpisodeTyped
      <4> QED
        BY <3>3, <4>1, <4>2, NewlyComplete
    <3>9. gone.ep.core.opened = w.ep.core.opened
      BY <3>2, <3>3
    <3>10. Works(Apply(w, gone, t), t, t, 0)
      BY <3>1, <3>3, <3>4, <3>5, <3>6, <3>7, <3>8, <3>9, RecordWorks
    <3> QED
      BY <2>2, <3>10 DEF Works
  <2> QED
    BY <2>1, <2>2
<1> DEFINE z == Superseded(w, t)
<1>2. z = [x EXCEPT !.ep = NoEpisode]
  BY DEF Superseded
<1> HIDE DEF x
<1>3. z.ep = NoEpisode /\ z.pend = x.pend /\ z.nextId = x.nextId
  BY <1>1, <1>2 DEF Sound
<1>4. Sound(z)
  BY SupersededIsSound DEF Works
<1> HIDE DEF z
<1>5. EpisodeTyped(NoEpisode) /\ NoEpisode.pending = <<>>
  BY DEF EpisodeTyped, NoEpisode, NoCore, CoreType, Time
<1>6. Waiting(<<>>, t, 0) /\ Complete(<<>>, t, t, 0)
  <2>1. <<>> \in Seq(Time)
    OBVIOUS
  <2> QED
    BY <2>1, NothingWaits, NewlyComplete
<1>7. ~IsLive(NoEpisode)
  BY NoEpisodeIsEpisode
<1>8. Works(z, t, t, 0)
  BY <1>1, <1>3, <1>4, <1>5, <1>6, <1>7 DEF Works, Mirrors
<1> QED
  BY <1>3, <1>7, <1>8 DEF z

LEMMA RescannedWorks ==
  ASSUME CountsInOrder, rows \in [Id -> RowType], NEW t \in Time, now < t,
         NEW s \in Nat, Works(Held, s, now, 0), NEW scan \in BOOLEAN
  PROVE  LET w == Rescanned(scan, t)
         IN  /\ Works(w, IF scan /\ Edited THEN t ELSE s, t, 0)
             /\ IsLive(w.ep) => w.ep.core.opened < t
             /\ ~Edited => w.pend = pend
<1>1. Works(Held, s, t, 0) /\ AllEarlier(Held.pend, t) /\ Sound(Held)
  BY WorksAges DEF Works
<1>2. IsLive(Held.ep) => Held.ep.core.opened < t
  <2>1. SUFFICES ASSUME IsLive(Held.ep) PROVE Held.ep.core.opened < t
    OBVIOUS
  <2>2. /\ Held.ep.core.id \in Id
        /\ RowAfter(Held.pend, Held.ep.core.id).opened = Held.ep.core.opened
    BY <1>1, <2>1, LiveRow
  <2>3. RowAfter(Held.pend, Held.ep.core.id).state # "none"
    BY <1>1, <2>1 DEF Works, Mirrors, Live
  <2> QED
    BY <1>1, <2>2, <2>3 DEF AllEarlier
<1>3. Held.pend = pend
  BY DEF Held
<1>4. Sound(Rescanned(scan, t))
  BY <1>1, RescannedIsSound
<1>5. CASE ~scan
  <2>1. Rescanned(scan, t) = Held
    BY <1>5 DEF Rescanned, Held
  <2> QED
    BY <1>1, <1>2, <1>3, <1>5, <2>1
<1>6. CASE scan /\ ~Edited
  <2>1. Rescanned(scan, t) = AcksSeen(Held)
    BY <1>6 DEF Rescanned, Held
  <2>2. /\ Works(AcksSeen(Held), s, t, 0) /\ AcksSeen(Held).pend = pend
        /\ IsLive(AcksSeen(Held).ep) => IsLive(Held.ep)
        /\ AcksSeen(Held).ep.core.opened = Held.ep.core.opened
    BY <1>1, <1>3, <1>4, <2>1, AcksSeenWorks
  <2> QED
    BY <1>2, <1>6, <2>1, <2>2
<1>7. CASE scan /\ Edited
  <2> DEFINE x == Superseded(Held, t)
             q == [x.pend EXCEPT !.load = TRUE]
             z == Rescanned(scan, t)
  <2>1. z = [x EXCEPT !.pend.load = TRUE]
    BY <1>7 DEF Rescanned, Held
  <2>2. Works(x, t, t, 0) /\ ~IsLive(x.ep)
    BY <1>1, <1>2, SupersededWorks
  <2> HIDE DEF x
  <2>3. Sound(x) /\ IsPending(x.pend)
    BY <2>2 DEF Works, Sound
  <2>4. q.rows = x.pend.rows /\ q.notes = x.pend.notes
    BY <2>3 DEF IsPending
  <2>5. z.ep = x.ep /\ z.pend = q /\ z.nextId = x.nextId
    BY <2>1, <2>3 DEF Sound
  <2> HIDE DEF q, z
  <2>6. Sound(z)
    BY <1>4 DEF z
  <2>7. /\ PendTyped(z.pend) /\ IdsAreNew(z.pend, z.nextId) /\ Mirrors(z.pend, z.ep)
        /\ AllEvidenced(z.pend, t, 0)
    BY <2>2, <2>4, <2>5, SameRows DEF Works
  <2>8. Works(z, t, t, 0)
    BY <2>2, <2>5, <2>6, <2>7 DEF Works
  <2> QED
    BY <1>7, <2>2, <2>5, <2>8 DEF z
<1> QED
  BY <1>5, <1>6, <1>7

LEMMA WithinShortens ==
  ASSUME NEW q \in Seq(Time), NEW window \in Nat, NEW t \in Time
  PROVE  Within(q, window, t) \in Seq(Time) /\ Len(Within(q, window, t)) <= Len(q)
<1> DEFINE kept == {k \in DOMAIN q : t - q[k] <= window}
           f == Within(q, window, t)
<1>1. f = IF kept = {} THEN <<>> ELSE SubSeq(q, Min(kept), Len(q))
  BY DEF Within
<1>2. kept \in SUBSET Nat /\ kept \subseteq 1 .. Len(q) /\ Len(q) \in Nat
  OBVIOUS
<1>3. CASE kept = {}
  BY <1>1, <1>2, <1>3
<1>4. CASE kept # {}
  <2> DEFINE m == Min(kept)
  <2>1. m \in kept
    BY <1>2, <1>4, LeastIn, Zenon
  <2>2. f = SubSeq(q, m, Len(q))
    BY <1>1, <1>4
  <2> HIDE DEF m, f, kept
  <2>3. m \in 1 .. Len(q)
    BY <1>2, <2>1
  <2>4. f \in Seq(Time) /\ Len(f) <= Len(q)
    BY <2>2, <2>3
  <2> QED
    BY <2>4 DEF f
<1> QED
  BY <1>3, <1>4

LEMMA LastAreKept ==
  ASSUME NEW q \in Seq(Time)
  PROVE  LastOf(q, FlapKeep) \in Seq(Time) /\ Len(LastOf(q, FlapKeep)) <= FlapKeep
<1>1. Len(q) \in Nat
  OBVIOUS
<1>2. CASE Len(q) < FlapKeep
  <2>1. AtMost(Len(q), FlapKeep) = Len(q)
    BY <1>2 DEF AtMost
  <2>2. LastOf(q, FlapKeep) = SubSeq(q, 1 + Len(q) - Len(q), Len(q))
    BY <2>1 DEF LastOf
  <2> QED
    BY <1>1, <1>2, <2>2
<1>3. CASE ~(Len(q) < FlapKeep)
  <2>1. AtMost(Len(q), FlapKeep) = FlapKeep
    BY <1>3 DEF AtMost
  <2>2. LastOf(q, FlapKeep) = SubSeq(q, 1 + Len(q) - FlapKeep, Len(q))
    BY <2>1 DEF LastOf
  <2> QED
    BY <1>1, <1>3, <2>2
<1> QED
  BY <1>2, <1>3

\* More that comes at n changes nothing about what came before.
LEMMA WaitingMore ==
  ASSUME CountsInOrder, NEW q, NEW t \in Time, NEW m \in Nat, Waiting(q, t, 0)
  PROVE  Waiting(q, t, m)
<1>1. /\ t \in Nat /\ t <= MaxNow /\ Upto(t) \in Nat
      /\ \A i \in 1 .. Len(q) : q[i] \in Nat /\ q[i] <= t
  <2>1. t \in Nat /\ t <= MaxNow
    BY DEF Time
  <2>2. \A i \in 1 .. Len(q) : q[i] \in Nat /\ q[i] <= t
    BY DEF Waiting, InOrder, Time
  <2> QED
    BY <2>1, <2>2, UptoGrows
<1>2. ASSUME NEW i \in 1 .. Len(q)
      PROVE  Len(q) - i + 1 <= SeenBy(t, t, m) - SeenBy(q[i] - 1, t, m)
  <2>1. q[i] - 1 \in Int /\ ~(q[i] - 1 >= t) /\ q[i] - 1 <= MaxNow /\ t >= t
    BY <1>1
  <2>2. SeenBy(q[i] - 1, t, m) = Upto(q[i] - 1) + 0
        /\ SeenBy(q[i] - 1, t, 0) = Upto(q[i] - 1) + 0
        /\ SeenBy(t, t, m) = Upto(t) + m /\ SeenBy(t, t, 0) = Upto(t) + 0
    BY <2>1 DEF SeenBy
  <2>3. Upto(q[i] - 1) \in Nat
    BY <2>1, UptoGrows
  <2>4. Len(q) - i + 1 <= SeenBy(t, t, 0) - SeenBy(q[i] - 1, t, 0)
    BY DEF Waiting
  <2>5. Len(q) \in Nat
    BY DEF Waiting, InOrder
  <2> QED
    BY <1>1, <2>2, <2>3, <2>4, <2>5
<1> QED
  BY <1>2 DEF Waiting

\* What a step of the episode starts from.
Steps(w, s, t, hits) ==
    /\ CountsInOrder /\ rows \in [Id -> RowType] /\ t \in Time /\ now < t /\ s \in Nat
    /\ Works(w, s, t, 0) /\ (IsLive(w.ep) => w.ep.core.opened < t)
    /\ hits \in Drained /\ Apply(w, StepEpisode(w.ep, hits, t), t).nextId <= MaxId + 1
    /\ Faithful(StepEpisode(w.ep, hits, t), w.ep)

\* The executor fills in an id, no more.
LEMMA ApplyLives ==
  ASSUME NEW w, Sound(w), NEW step, IsEpisode(step.ep), NEW t
  PROVE  IsLive(Apply(w, step, t).ep) <=> IsLive(step.ep)
<1> DEFINE id == IF step.ep.core.id = 0 THEN AllocId(w) ELSE step.ep.core.id
           core == [step.ep.core EXCEPT !.id = id]
<1>1. core.state = step.ep.core.state
  BY DEF IsEpisode, IsCore
<1> HIDE DEF id
<1>2. CASE step.record = "none"
  <2>1. Apply(w, step, t).ep = step.ep
    BY <1>2 DEF Apply, Sound
  <2> QED
    BY <2>1
<1>3. CASE step.record # "none"
  <2>1. Apply(w, step, t).ep = [step.ep EXCEPT !.core = core]
    BY <1>3 DEF Apply, id
  <2> HIDE DEF core
  <2>2. Apply(w, step, t).ep.core = core
    BY <2>1 DEF IsEpisode
  <2> QED
    BY <1>1, <2>2 DEF IsLive
<1> QED
  BY <1>2, <1>3

LEMMA RefreshWorks ==
  ASSUME NEW w, NEW s, NEW t, NEW hits, Steps(w, s, t, hits),
         IsLive(w.ep), hits.records > 0
  PROVE  LET step == StepEpisode(w.ep, hits, t)
         IN  Works(Apply(w, step, t), s, t, Occurrences(hits)) /\ IsLive(step.ep)
<1> DEFINE step == Refresh(w.ep, hits, t)
           m    == Occurrences(hits)
           r    == RowAfter(w.pend, w.ep.core.id)
           b    == [w.ep.core EXCEPT !.occ = @ + m]
           c    == step.ep.core
<1>1. StepEpisode(w.ep, hits, t) = step
  BY DEF StepEpisode
<1>2. /\ CountsInOrder /\ rows \in [Id -> RowType] /\ t \in Time /\ now < t /\ s \in Nat
      /\ Works(w, s, t, 0) /\ w.ep.core.opened < t /\ hits \in Drained
      /\ Apply(w, step, t).nextId <= MaxId + 1 /\ Faithful(step, w.ep)
  BY <1>1 DEF Steps
<1>3. m \in Nat
  BY <1>2, OccurrencesKept
<1>4. w.ep.core \in CoreType /\ IsEpisode(w.ep) /\ EpisodeTyped(w.ep)
      /\ Waiting(w.ep.pending, t, 0)
  BY <1>2 DEF Works, Sound, EpisodeTyped
<1> HIDE DEF m
<1>5. /\ b \in CoreType /\ b.occ = w.ep.core.occ + m /\ b.id = w.ep.core.id
      /\ b.opened = w.ep.core.opened /\ b.state = w.ep.core.state
  BY <1>3, <1>4 DEF CoreType
<1>6. LET d == [b EXCEPT !.last = t]
      IN  /\ d \in CoreType /\ d.occ = b.occ /\ d.id = b.id /\ d.opened = b.opened
          /\ d.state = b.state
  BY <1>2, <1>5 DEF CoreType
<1>7. /\ step.record = "refresh" /\ step.note \in {"none", "renotify"}
      /\ c \in {b, [b EXCEPT !.last = t]}
      /\ step.ep.seen = t /\ step.ep.pending = w.ep.pending
      /\ step.ep.flaps = w.ep.flaps /\ step.ep.cooldown = w.ep.cooldown
  <2> HIDE DEF b
  <2>1. step = IF RenotifyDue(w.ep, t)
               THEN Step([w.ep EXCEPT !.seen = t, !.core = [b EXCEPT !.last = t]],
                         "refresh", "renotify")
               ELSE Step([w.ep EXCEPT !.seen = t, !.core = b], "refresh", "none")
    BY DEF Refresh, b, m
  <2> HIDE DEF step
  <2> QED
    BY <1>4, <2>1 DEF IsEpisode, Step
<1> HIDE DEF b, step
<1>8. /\ c \in CoreType /\ c.occ = w.ep.core.occ + m /\ c.state = w.ep.core.state
      /\ c.opened = w.ep.core.opened
  BY <1>5, <1>6, <1>7
<1> HIDE DEF c
<1>9. /\ r \in RowType /\ Evidenced(r, t, 0) /\ r.state # "cleared"
      /\ r.opened = c.opened /\ c.occ = r.occ + m /\ r.opened < t
  BY <1>2, <1>8, LiveRow
<1>10. c.state # "cleared"
  BY <1>8 DEF IsLive, Live
<1> HIDE DEF r
<1>11. Evidenced(RowOf(c, t), t, m)
  BY <1>2, <1>3, <1>9, <1>10, GoesOnEvidenced
<1>12. EpisodeTyped(step.ep)
  BY <1>2, <1>4, <1>7, <1>8 DEF EpisodeTyped, c
<1>13. Waiting(step.ep.pending, t, m)
  BY <1>2, <1>3, <1>4, <1>7, WaitingMore
<1>14. IsLive(step.ep)
  BY <1>8 DEF c, IsLive
<1>15. step.ep.core.opened = w.ep.core.opened /\ Evidenced(RowOf(step.ep.core, t), t, m)
  BY <1>8, <1>11 DEF c
<1>16. /\ step.record # "none"
       /\ step.note \in {"none", "open", "renotify", "recover"}
  BY <1>7
<1>17. Works(Apply(w, step, t), s, t, m)
  BY <1>2, <1>3, <1>7, <1>12, <1>13, <1>14, <1>15, <1>16, RecordWorks
<1> QED
  BY <1>1, <1>14, <1>17 DEF m

LEMMA ClearWorks ==
  ASSUME NEW w, NEW s, NEW t, NEW hits, Steps(w, s, t, hits),
         IsLive(w.ep), hits.records = 0, t - w.ep.seen >= ClearAfter
  PROVE  LET step == StepEpisode(w.ep, hits, t)
         IN  /\ Works(Apply(w, step, t), t, t, Occurrences(hits))
             /\ ~IsLive(step.ep) /\ ~IsLive(Apply(w, step, t).ep)
             /\ Upto(t) = Upto(t - ClearAfter)
<1> DEFINE step == Clear(w.ep, t)
           r    == RowAfter(w.pend, w.ep.core.id)
           c    == [w.ep.core EXCEPT !.state = "cleared"]
<1>1. StepEpisode(w.ep, hits, t) = step
  BY DEF StepEpisode
<1>2. /\ CountsInOrder /\ rows \in [Id -> RowType] /\ t \in Time /\ now < t /\ s \in Nat
      /\ Works(w, s, t, 0) /\ w.ep.core.opened < t /\ hits \in Drained
      /\ Apply(w, step, t).nextId <= MaxId + 1 /\ Faithful(step, w.ep)
  BY <1>1 DEF Steps
<1>3. Occurrences(hits) = 0
  BY <1>2, OccurrencesKept
<1>4. w.ep.core \in CoreType /\ IsEpisode(w.ep) /\ EpisodeTyped(w.ep)
  BY <1>2 DEF Works, Sound, EpisodeTyped
<1>5. /\ c \in CoreType /\ c.state = "cleared" /\ c.id = w.ep.core.id
      /\ c.opened = w.ep.core.opened /\ c.occ = w.ep.core.occ
  BY <1>4 DEF CoreType
<1>6. /\ step.ep.core = c /\ step.ep.seen = 0 /\ step.ep.pending = <<>>
      /\ step.ep.flaps = LastOf(Append(w.ep.flaps, t), FlapKeep)
      /\ step.ep.cooldown = Cooldown
      /\ step.record = "clear" /\ step.note \in {"none", "recover"}
  BY DEF Clear, Step
<1> HIDE DEF c, step
<1>7. /\ r \in RowType /\ Evidenced(r, t, 0) /\ r.state # "cleared"
      /\ r.opened = c.opened /\ c.occ = r.occ /\ r.opened < t
      /\ r.changed = w.ep.seen
  BY <1>2, <1>5, LiveRow
<1> HIDE DEF r
<1>8. Evidenced(RowOf(c, t), t, 0)
  BY <1>2, <1>5, <1>7, EndsEvidenced
<1>9. EpisodeTyped(step.ep)
  <2>1. Append(w.ep.flaps, t) \in Seq(Time)
    BY <1>2, <1>4 DEF EpisodeTyped
  <2>2. step.ep.flaps \in Seq(Time) /\ Len(step.ep.flaps) <= FlapKeep
    BY <1>6, <2>1, LastAreKept
  <2>3. 0 \in Time
    BY DEF Time
  <2> QED
    BY <1>5, <1>6, <2>2, <2>3 DEF EpisodeTyped
<1>10. ~IsLive(step.ep)
  BY <1>5, <1>6 DEF IsLive, Live
<1>11. Waiting(step.ep.pending, t, 0) /\ Complete(step.ep.pending, t, t, 0)
  <2>1. <<>> \in Seq(Time)
    OBVIOUS
  <2> QED
    BY <1>2, <1>6, <2>1, NothingWaits, NewlyComplete
<1>12. /\ step.ep.core.opened = w.ep.core.opened
       /\ Evidenced(RowOf(step.ep.core, t), t, 0)
       /\ step.record # "none" /\ step.note \in {"none", "open", "renotify", "recover"}
  BY <1>5, <1>6, <1>8
<1>13. Works(Apply(w, step, t), t, t, 0)
  BY <1>2, <1>9, <1>10, <1>11, <1>12, RecordWorks
<1>14. ~IsLive(Apply(w, step, t).ep)
  BY <1>2, <1>10, ApplyLives DEF Works, Faithful
<1>15. Upto(t) = Upto(t - ClearAfter)
  <2>1. /\ t \in Nat /\ t <= MaxNow /\ r.changed \in Nat /\ r.changed <= t
        /\ t - r.changed >= ClearAfter
    BY <1>2, <1>7 DEF Time, RowType, Evidenced
  <2>2. SeenBy(t, t, 0) = SeenBy(r.changed, t, 0)
    BY <1>7 DEF Evidenced
  <2>3. Upto(t) = Upto(r.changed)
    BY <1>2, <2>1, <2>2, SeenUnmatched
  <2>4. /\ r.changed <= t - ClearAfter /\ t - ClearAfter <= t /\ t - ClearAfter \in Int
        /\ t - ClearAfter <= MaxNow
    BY <2>1
  <2>5. Upto(r.changed) <= Upto(t - ClearAfter) /\ Upto(t - ClearAfter) <= Upto(t)
    BY <1>2, <2>1, <2>4, UptoGrows
  <2>6. Upto(t) \in Nat /\ Upto(t - ClearAfter) \in Nat
    BY <1>2, <2>1, <2>4, UptoGrows
  <2> QED
    BY <2>3, <2>5, <2>6
<1> QED
  BY <1>1, <1>3, <1>10, <1>13, <1>14, <1>15

\* The end of what waits, as the step sees it.
LEMMA PendingWaits ==
  ASSUME NEW w, NEW s, NEW t, NEW hits, Steps(w, s, t, hits)
  PROVE  LET f == PendingAt(w.ep, t)
         IN  /\ Waiting(f, t, 0) /\ f \in Seq(Time) /\ Len(f) \in Nat
             /\ Len(f) < ConfirmCount
             /\ ~IsLive(w.ep) => Complete(f, s, t, 0)
             /\ Len(f) <= Upto(t) - Upto(t - ConfirmWindow - 1)
<1> DEFINE q == w.ep.pending
           f == Within(q, ConfirmWindow, t)
<1>1. /\ CountsInOrder /\ t \in Time /\ now < t /\ s \in Nat /\ now \in Nat /\ t \in Nat
      /\ Waiting(q, t, 0) /\ Len(q) < ConfirmCount /\ q \in Seq(Time) /\ Len(q) \in Nat
      /\ ~IsLive(w.ep) => Complete(q, s, t, 0)
  BY UptoGrows DEF Steps, Works, EpisodeTyped, Time
<1> HIDE DEF q
<1>2. now <= t
  BY <1>1
<1>3. /\ Waiting(f, t, 0) /\ Len(f) \in Nat /\ Len(f) <= Len(q)
      /\ Complete(q, s, t, 0) => Complete(f, s, t, 0)
      /\ Len(f) <= Upto(t) - Upto(t - ConfirmWindow - 1)
  BY <1>1, <1>2, EndWaits
<1>4. f = PendingAt(w.ep, t)
  BY DEF PendingAt, q
<1> HIDE DEF f
<1>5. f \in Seq(Time) /\ Len(f) < ConfirmCount
  BY <1>1, <1>3 DEF Waiting, InOrder
<1> QED
  BY <1>1, <1>3, <1>4, <1>5

LEMMA OpensWorks ==
  ASSUME NEW w, NEW s, NEW t, NEW hits, Steps(w, s, t, hits),
         ~IsLive(w.ep), hits.records > 0,
         ~(Len(PendingAt(w.ep, t)) + Occurrences(hits) < ConfirmCount)
  PROVE  Works(Apply(w, StepEpisode(w.ep, hits, t), t), s, t, Occurrences(hits))
<1> DEFINE step == Step(Opened(w.ep, hits, t), "open", "open")
           m    == Occurrences(hits)
           len  == Len(PendingAt(w.ep, t))
           c    == [id |-> 0, state |-> "open", opened |-> t, last |-> t, occ |-> len + m]
           flaps == Within(w.ep.flaps, FlapWindow, t)
<1>1. StepEpisode(w.ep, hits, t) = step
  <2>0. hits.records \in Nat
    BY OccurrencesKept DEF Steps
  <2>1. ~IsLive(w.ep) /\ hits.records > 0 /\ hits.records # 0
    BY <2>0
  <2>2. StepEpisode(w.ep, hits, t) = MaybeOpen(w.ep, hits, t)
    BY <2>1, Zenon DEF StepEpisode
  <2>3. MaybeOpen(w.ep, hits, t) = step
    BY DEF MaybeOpen
  <2> QED
    BY <2>2, <2>3, Zenon
<1>2. /\ CountsInOrder /\ rows \in [Id -> RowType] /\ t \in Time /\ now < t /\ s \in Nat
      /\ Works(w, s, t, 0) /\ hits \in Drained
      /\ Apply(w, step, t).nextId <= MaxId + 1 /\ Faithful(step, w.ep)
  BY <1>1 DEF Steps
<1>3. /\ m \in Nat /\ len \in Nat /\ len <= Upto(t) - Upto(t - ConfirmWindow - 1)
      /\ len + m >= ConfirmCount
  BY <1>2, OccurrencesKept, PendingWaits
<1>4. EpisodeTyped(w.ep)
  BY <1>2 DEF Works
<1>5. /\ step.ep.core = c /\ step.ep.seen = t /\ step.ep.pending = <<>>
      /\ step.ep.flaps = flaps
      /\ step.ep.cooldown = IF Len(flaps) >= FlapCount THEN FlapFactor * Cooldown
                            ELSE Cooldown
      /\ step.record = "open" /\ step.note = "open"
  BY DEF Opened, Step
<1> HIDE DEF step, m, len
<1>6. /\ c.state = "open" /\ c.opened = t /\ c.occ = len + m /\ c \in CoreType
  BY <1>2, <1>3 DEF CoreType, Time
<1> HIDE DEF c
<1>7. Evidenced(RowOf(c, t), t, m)
  BY <1>2, <1>3, <1>6, OpensEvidenced
<1>8. flaps \in Seq(Time) /\ Len(flaps) <= FlapKeep
  <2>1. w.ep.flaps \in Seq(Time) /\ Len(w.ep.flaps) <= FlapKeep
    BY <1>4 DEF EpisodeTyped
  <2>2. flaps \in Seq(Time) /\ Len(flaps) <= Len(w.ep.flaps)
    BY <1>2, <2>1, WithinShortens
  <2> HIDE DEF flaps
  <2>3. Len(flaps) \in Nat /\ Len(w.ep.flaps) \in Nat
    BY <2>1, <2>2
  <2> QED
    BY <2>1, <2>2, <2>3
<1>9. step.ep.cooldown \in Nat
  <2>1. FlapFactor * Cooldown \in Nat
    OBVIOUS
  <2> QED
    BY <1>5, <2>1
<1> HIDE DEF flaps
<1>10. EpisodeTyped(step.ep)
  <2>1. <<>> \in Seq(Time) /\ Len(<<>>) < ConfirmCount
    OBVIOUS
  <2> QED
    BY <1>2, <1>5, <1>6, <1>8, <1>9, <2>1 DEF EpisodeTyped
<1>11. IsLive(step.ep) /\ Waiting(step.ep.pending, t, m)
  BY <1>5, <1>6, NothingWaits DEF IsLive, Live
<1>12. /\ Evidenced(RowOf(step.ep.core, t), t, m)
       /\ step.record # "none" /\ step.note \in {"none", "open", "renotify", "recover"}
  BY <1>5, <1>7
<1>13. Works(Apply(w, step, t), s, t, m)
  BY <1>2, <1>3, <1>5, <1>10, <1>11, <1>12, RecordWorks
<1> QED
  BY <1>1, <1>13 DEF m

\* A step that only changes what waits.
LEMMA WaitsWorks ==
  ASSUME NEW w, NEW s, NEW t, NEW hits, Steps(w, s, t, hits), ~IsLive(w.ep),
         NEW q \in Seq(Time), Len(q) < ConfirmCount, NEW m \in Nat,
         Waiting(q, t, m), Complete(q, s, t, m),
         StepEpisode(w.ep, hits, t) = Step([w.ep EXCEPT !.pending = q], "none", "none")
  PROVE  Works(Apply(w, StepEpisode(w.ep, hits, t), t), s, t, m)
<1> DEFINE step == StepEpisode(w.ep, hits, t)
<1>1. /\ CountsInOrder /\ rows \in [Id -> RowType] /\ t \in Time /\ now < t /\ s \in Nat
      /\ Works(w, s, t, 0) /\ Apply(w, step, t).nextId <= MaxId + 1
      /\ Faithful(step, w.ep)
  BY DEF Steps
<1>2. IsEpisode(w.ep) /\ EpisodeTyped(w.ep)
  BY <1>1 DEF Works, Sound
<1>3. /\ step.ep.core = w.ep.core /\ step.ep.seen = w.ep.seen /\ step.ep.pending = q
      /\ step.ep.flaps = w.ep.flaps /\ step.ep.cooldown = w.ep.cooldown
      /\ step.record = "none"
  <2> DEFINE e == [w.ep EXCEPT !.pending = q]
  <2>1. step = Step(e, "none", "none")
    OBVIOUS
  <2> HIDE DEF step
  <2>2. /\ e.core = w.ep.core /\ e.seen = w.ep.seen /\ e.pending = q
        /\ e.flaps = w.ep.flaps /\ e.cooldown = w.ep.cooldown
    BY <1>2 DEF IsEpisode
  <2> HIDE DEF e
  <2> QED
    BY <2>1, <2>2 DEF Step
<1> HIDE DEF step
<1>4. EpisodeTyped(step.ep)
  BY <1>2, <1>3 DEF EpisodeTyped
<1>5. /\ Waiting(step.ep.pending, t, m)
      /\ ~IsLive(step.ep) => Complete(step.ep.pending, s, t, m)
  BY <1>3
<1>6. Works(Apply(w, step, t), s, t, m)
  BY <1>1, <1>3, <1>4, <1>5, NothingWorks
<1> QED
  BY <1>6 DEF step

LEMMA WaitedWorks ==
  ASSUME NEW w, NEW s, NEW t, NEW hits, Steps(w, s, t, hits),
         ~IsLive(w.ep), hits.records > 0,
         Len(PendingAt(w.ep, t)) + Occurrences(hits) < ConfirmCount
  PROVE  Works(Apply(w, StepEpisode(w.ep, hits, t), t), s, t, Occurrences(hits))
<1> DEFINE f == PendingAt(w.ep, t)
           m == Occurrences(hits)
           q == f \o [k \in 1 .. m |-> t]
<1>1. /\ CountsInOrder /\ t \in Time /\ now < t /\ s \in Nat /\ hits \in Drained
  BY DEF Steps
<1>2. /\ Waiting(f, t, 0) /\ f \in Seq(Time) /\ Len(f) \in Nat
      /\ Complete(f, s, t, 0) /\ m \in Nat /\ Len(f) + m < ConfirmCount
  BY <1>1, PendingWaits, OccurrencesKept
<1>3. hits.records * AtMost(hits.each, ConfirmCount) = m
  BY <1>1, <1>2, OccurrencesKept
<1>4. StepEpisode(w.ep, hits, t) = Step([w.ep EXCEPT !.pending = q], "none", "none")
  <2>0. hits.records \in Nat
    BY OccurrencesKept DEF Steps
  <2>1. ~IsLive(w.ep) /\ hits.records > 0 /\ hits.records # 0
    BY <2>0
  <2>2. StepEpisode(w.ep, hits, t) = MaybeOpen(w.ep, hits, t)
    BY <2>1, Zenon DEF StepEpisode
  <2>3. MaybeOpen(w.ep, hits, t) = Step(Waited(w.ep, hits, t), "none", "none")
    BY DEF MaybeOpen
  <2>4. Waited(w.ep, hits, t) = [w.ep EXCEPT !.pending = q]
    BY <1>3 DEF Waited
  <2> QED
    BY <2>2, <2>3, <2>4, Zenon
<1> HIDE DEF f, m
<1>5. Waiting(q, t, m) /\ Len(q) = Len(f) + m /\ Complete(q, s, t, m)
  <2>1. CountsInOrder /\ t \in Time /\ now < t /\ Waiting(f, t, 0) /\ m \in Nat /\ s \in Nat
    BY <1>1, <1>2
  <2>2. LET g == f \o [k \in 1 .. m |-> t]
        IN  /\ Waiting(g, t, m) /\ Len(g) = Len(f) + m
            /\ Complete(f, s, t, 0) => Complete(g, s, t, m)
    BY <2>1, MoreWait, ZenonT(40)
  <2> QED
    BY <1>2, <2>2, Zenon
<1> HIDE DEF q
<1>6. q \in Seq(Time) /\ Len(q) < ConfirmCount
  BY <1>2, <1>5 DEF Waiting, InOrder
<1>7. Works(Apply(w, StepEpisode(w.ep, hits, t), t), s, t, m)
  BY <1>2, <1>4, <1>5, <1>6, WaitsWorks
<1> QED
  BY <1>7 DEF m

LEMMA FilteredWorks ==
  ASSUME NEW w, NEW s, NEW t, NEW hits, Steps(w, s, t, hits),
         ~IsLive(w.ep), hits.records = 0
  PROVE  Works(Apply(w, StepEpisode(w.ep, hits, t), t), s, t, Occurrences(hits))
<1>1. Occurrences(hits) = 0
  BY OccurrencesKept DEF Steps
<1> DEFINE f == PendingAt(w.ep, t)
<1>2. StepEpisode(w.ep, hits, t) = Step([w.ep EXCEPT !.pending = f], "none", "none")
  BY DEF StepEpisode
<1>3. /\ Waiting(f, t, 0) /\ f \in Seq(Time) /\ Len(f) < ConfirmCount
      /\ Complete(f, s, t, 0)
  BY PendingWaits
<1> HIDE DEF f
<1>4. Works(Apply(w, StepEpisode(w.ep, hits, t), t), s, t, 0)
  <2>1. 0 \in Nat
    OBVIOUS
  <2> QED
    BY <1>2, <1>3, <2>1, WaitsWorks
<1> QED
  BY <1>1, <1>4

LEMMA QuietWorks ==
  ASSUME NEW w, NEW s, NEW t, NEW hits, Steps(w, s, t, hits),
         IsLive(w.ep), hits.records = 0, ~(t - w.ep.seen >= ClearAfter)
  PROVE  /\ Works(Apply(w, StepEpisode(w.ep, hits, t), t), s, t, Occurrences(hits))
         /\ IsLive(StepEpisode(w.ep, hits, t).ep)
<1> DEFINE step == StepEpisode(w.ep, hits, t)
<1>1. /\ CountsInOrder /\ rows \in [Id -> RowType] /\ t \in Time /\ now < t /\ s \in Nat
      /\ Works(w, s, t, 0) /\ Apply(w, step, t).nextId <= MaxId + 1
      /\ Faithful(step, w.ep) /\ hits \in Drained
  BY DEF Steps
<1>2. step = Step(w.ep, "none", "none")
  BY DEF StepEpisode
<1>3. step.ep = w.ep /\ step.record = "none"
  BY <1>2 DEF Step
<1> HIDE DEF step
<1>4. Occurrences(hits) = 0
  BY <1>1, OccurrencesKept
<1>5. EpisodeTyped(step.ep) /\ Waiting(step.ep.pending, t, 0) /\ IsLive(step.ep)
  BY <1>1, <1>3 DEF Works
<1>6. Works(Apply(w, step, t), s, t, 0)
  BY <1>1, <1>3, <1>5, NothingWorks
<1> QED
  BY <1>4, <1>5, <1>6 DEF step
\* The step of the episode, whatever it does.
LEMMA StepWorks ==
  ASSUME NEW w, NEW s, NEW t, NEW hits, Steps(w, s, t, hits)
  PROVE  LET done == Apply(w, StepEpisode(w.ep, hits, t), t)
             over == IsLive(w.ep) /\ ~IsLive(done.ep)
         IN  Works(done, IF over THEN t ELSE s, t, Occurrences(hits))
<1> DEFINE done == Apply(w, StepEpisode(w.ep, hits, t), t)
           m == Occurrences(hits)
<1>1. hits.records \in Nat
  BY OccurrencesKept DEF Steps
<1>2. CASE IsLive(w.ep) /\ (hits.records > 0 \/ ~(t - w.ep.seen >= ClearAfter))
  <2>1. Works(done, s, t, m) /\ IsLive(done.ep)
    <3>1. Works(done, s, t, m)
      BY <1>1, <1>2, RefreshWorks, QuietWorks
    <3>2. IsLive(StepEpisode(w.ep, hits, t).ep)
      BY <1>1, <1>2, RefreshWorks, QuietWorks
    <3>3. Sound(w) /\ IsEpisode(StepEpisode(w.ep, hits, t).ep)
      BY DEF Steps, Works, Faithful
    <3> QED
      BY <3>1, <3>2, <3>3, ApplyLives
  <2> QED
    BY <1>2, <2>1
<1>3. CASE IsLive(w.ep) /\ hits.records = 0 /\ t - w.ep.seen >= ClearAfter
  BY <1>3, ClearWorks
<1>4. CASE ~IsLive(w.ep)
  <2>1. Works(done, s, t, m)
    BY <1>1, <1>4, OpensWorks, WaitedWorks, FilteredWorks
  <2> QED
    BY <1>4, <2>1
<1> QED
  BY <1>1, <1>2, <1>3, <1>4

\* A step marks a row cleared only when nothing came for long enough.
LEMMA ClearsAreQuiet ==
  ASSUME NEW w, NEW s, NEW t, NEW hits, Steps(w, s, t, hits), NEW i \in Id,
         Apply(w, StepEpisode(w.ep, hits, t), t).pend.rows[i].state = "cleared"
  PROVE  /\ w.pend.rows[i].state = "cleared" \/ Upto(t) = Upto(t - ClearAfter)
<1> DEFINE step == StepEpisode(w.ep, hits, t)
           done == Apply(w, step, t)
<1>1. hits.records \in Nat
  BY OccurrencesKept DEF Steps
<1>2. /\ CountsInOrder /\ rows \in [Id -> RowType] /\ t \in Time /\ Works(w, s, t, 0)
      /\ Sound(w) /\ PendTyped(w.pend) /\ Faithful(step, w.ep)
      /\ done.nextId <= MaxId + 1 /\ IsEpisode(w.ep)
  BY DEF Steps, Works, Sound
<1>3. CASE IsLive(w.ep) /\ hits.records = 0 /\ t - w.ep.seen >= ClearAfter
  BY <1>3, ClearWorks
<1>4. CASE ~(IsLive(w.ep) /\ hits.records = 0 /\ t - w.ep.seen >= ClearAfter)
  <2>1. step.record = "none" \/ IsLive(step.ep)
    <3>1. CASE IsLive(w.ep)
      BY <1>1, <1>4, <3>1, RefreshWorks, QuietWorks
    <3>2. CASE ~IsLive(w.ep)
      <4>1. step \in {MaybeOpen(w.ep, hits, t),
                      Step([w.ep EXCEPT !.pending = PendingAt(w.ep, t)], "none", "none")}
        BY <1>1, <3>2 DEF StepEpisode
      <4>2. CASE step = Step([w.ep EXCEPT !.pending = PendingAt(w.ep, t)], "none", "none")
        BY <4>2 DEF Step
      <4>3. CASE step = MaybeOpen(w.ep, hits, t)
        <5> HIDE DEF step
        <5>1. step \in {Step(Waited(w.ep, hits, t), "none", "none"),
                        Step(Opened(w.ep, hits, t), "open", "open")}
          BY <4>3 DEF MaybeOpen
        <5>2. Opened(w.ep, hits, t).core.state = "open"
          BY DEF Opened
        <5> QED
          BY <5>1, <5>2 DEF Step, IsLive, Live
      <4> QED
        BY <4>1, <4>2, <4>3
    <3> QED
      BY <3>1, <3>2
  <2>2. CASE step.record = "none"
    <3> HIDE DEF step
    <3>1. done.pend = w.pend
      BY <1>2, <2>2 DEF Apply, Sound
    <3> QED
      BY <3>1 DEF step
  <2>3. CASE step.record # "none" /\ IsLive(step.ep)
    <3>1. done.pend.rows = [w.pend.rows EXCEPT ![IF step.ep.core.id = 0 THEN AllocId(w)
                                              ELSE step.ep.core.id] = RowOf(step.ep.core, t)]
      <4> HIDE DEF step
      <4> QED
        BY <1>2, <2>3 DEF Apply, RowOf, Sound, IsPending, Faithful, IsEpisode, IsCore
    <3>2. RowOf(step.ep.core, t).state # "cleared"
      BY <2>3 DEF RowOf, IsLive, Live
    <3> HIDE DEF done, step
    <3> QED
      BY <1>2, <3>1, <3>2 DEF PendTyped, done, step
  <2> QED
    BY <2>1, <2>2, <2>3
<1> QED
  BY <1>3, <1>4

DefInOrder ==
    /\ def \in [disk : Nat, mem : Nat, db : Nat]
    /\ 1 <= def.disk /\ def.mem <= def.disk /\ def.db <= def.disk
    /\ phase # "down" => 1 <= def.mem
\* Where the definition was never edited, a row is cleared only after quiet.
Quieted ==
    \A i \in Id : def.disk = 1 /\ pend.rows[i].state = "cleared" =>
        phase = "buffered" /\ Upto(now) = Upto(now - ClearAfter)
RowsEvidenced == \A i \in Id : rows[i].state # "none" => Evidenced(rows[i], now, 0)

BInv ==
    /\ EInv /\ CountsInOrder /\ DefInOrder /\ Quieted /\ RowsEvidenced
    /\ phase \in {"idle", "buffered", "down"}
    /\ rows \in [Id -> RowType] /\ notes \in [Id -> Seq(NoteType)]
    /\ PendTyped(pend) /\ EpisodeTyped(ep)
    /\ pend.matches \in Nat /\ (phase # "buffered" => pend.matches = 0)
    /\ since \in Time /\ since <= now
    /\ phase = "down" => nextId = 0
    /\ phase # "down" => Works(Held, since, now, pend.matches)

\* The counts, with what is in the buffers, are the same after the step.
Recounted(n, m, k) == \A x \in Int : x <= MaxNow => SeenBy(x, n, k)' = SeenBy(x, n, m)
\* The two rows differ at most in an ack.
Alike(r, q) ==
    /\ q.opened = r.opened /\ q.changed = r.changed /\ q.cleared = r.cleared
    /\ q.occ = r.occ
    /\ q.state = r.state \/ (q.state \in Live /\ r.state \in Live)

LEMMA EvidenceCarries ==
  ASSUME NEW n \in Time, NEW m, NEW k, Recounted(n, m, k),
         NEW r \in RowType, NEW q \in RowType, Alike(r, q), Evidenced(r, n, m)
  PROVE  Evidenced(q, n, k)'
<1>1. /\ n \in Nat /\ n <= MaxNow /\ r.opened \in Nat /\ r.changed \in Nat
      /\ r.cleared \in Nat /\ r.opened <= MaxNow /\ r.changed <= MaxNow
      /\ r.cleared <= MaxNow
  BY DEF Time, RowType
<1>2. /\ SeenBy(n, n, k)' = SeenBy(n, n, m)
      /\ SeenBy(r.opened, n, k)' = SeenBy(r.opened, n, m)
      /\ SeenBy(r.changed, n, k)' = SeenBy(r.changed, n, m)
      /\ SeenBy(r.cleared - 1, n, k)' = SeenBy(r.cleared - 1, n, m)
      /\ SeenBy(r.opened - ConfirmWindow - 1, n, k)'
           = SeenBy(r.opened - ConfirmWindow - 1, n, m)
  BY <1>1 DEF Recounted
<1>3. q.state = "cleared" <=> r.state = "cleared"
  BY DEF Alike, Live
<1>4. /\ q.opened = r.opened /\ q.changed = r.changed /\ q.cleared = r.cleared
      /\ q.occ = r.occ
  BY DEF Alike
<1>5. CASE r.state = "cleared"
  BY <1>2, <1>3, <1>4, <1>5 DEF Evidenced
<1>6. CASE r.state # "cleared"
  BY <1>2, <1>3, <1>4, <1>6 DEF Evidenced
<1> QED
  BY <1>5, <1>6

LEMMA WaitingCarries ==
  ASSUME NEW n \in Time, NEW m, NEW k, Recounted(n, m, k), NEW q, Waiting(q, n, m)
  PROVE  Waiting(q, n, k)'
<1>1. /\ n \in Nat /\ n <= MaxNow
      /\ \A i \in 1 .. Len(q) : q[i] - 1 \in Int /\ q[i] - 1 <= MaxNow
  BY DEF Time, Waiting, InOrder
<1>2. /\ SeenBy(n, n, k)' = SeenBy(n, n, m)
      /\ \A i \in 1 .. Len(q) : SeenBy(q[i] - 1, n, k)' = SeenBy(q[i] - 1, n, m)
  BY <1>1 DEF Recounted
<1> QED
  BY <1>2 DEF Waiting, InOrder

LEMMA CompleteCarries ==
  ASSUME NEW n \in Time, NEW m, NEW k, Recounted(n, m, k), NEW q, NEW s \in Nat,
         Complete(q, s, n, m)
  PROVE  Complete(q, s, n, k)'
<1>1. /\ n \in Nat /\ n <= MaxNow
      /\ \A x \in s .. n : x - 1 \in Int /\ x - 1 <= MaxNow
  BY DEF Time
<1>2. /\ SeenBy(n, n, k)' = SeenBy(n, n, m)
      /\ \A x \in s .. n : SeenBy(x - 1, n, k)' = SeenBy(x - 1, n, m)
  BY <1>1 DEF Recounted
<1> QED
  BY <1>2 DEF Complete

\* What a step has to do for the working state to stand after it.
LEMMA HeldCarries ==
  ASSUME rows \in [Id -> RowType], (rows \in [Id -> RowType])',
         NEW n \in Time, NEW m, NEW k, Recounted(n, m, k), NEW s \in Nat, NEW e, NEW p,
         EpisodeTyped(e), PendTyped(p), IsLive(e) => e.core.id \in Id,
         Mirrors(p, e), AllEvidenced(p, n, m), Waiting(e.pending, n, m),
         ~IsLive(e) => Complete(e.pending, s, n, m),
         ep' = e, now' = n, since' = s, pend'.matches = k,
         Sound(Held)', PendTyped(pend)', IdsAreNew(pend, nextId)',
         \A i \in Id : Alike(RowAfter(p, i), RowAfter(pend, i)')
  PROVE  Works(Held, since, now, pend.matches)'
<1>1. EpisodeTyped(ep)'
  BY DEF EpisodeTyped
<1>2. Waiting(ep.pending, now, pend.matches)'
  <2>1. Waiting(e.pending, n, k)'
    BY WaitingCarries
  <2> QED
    BY <2>1
<1>3. ~IsLive(ep)' => Complete(ep.pending, since, now, pend.matches)'
  <2>1. ~IsLive(e) => Complete(e.pending, s, n, k)'
    BY CompleteCarries
  <2>2. IsLive(ep)' <=> IsLive(e)
    BY DEF IsLive
  <2> QED
    BY <2>1, <2>2
<1>4. \A i \in Id : RowAfter(p, i) \in RowType /\ RowAfter(pend, i)' \in RowType
  <2>1. \A i \in Id : RowAfter(p, i) \in RowType
    BY RowAfterIs DEF PendTyped
  <2>2. ASSUME NEW i \in Id PROVE RowAfter(pend, i)' \in RowType
    <3>1. pend'.rows[i] \in RowType /\ rows'[i] \in RowType
      BY DEF PendTyped
    <3>2. [pend'.rows[i] EXCEPT !.opened = rows'[i].opened] \in RowType
      BY <3>1 DEF RowType
    <3> QED
      BY <3>1, <3>2 DEF RowAfter
  <2> QED
    BY <2>1, <2>2
<1>5. Mirrors(pend, ep)'
  <2>1. SUFFICES ASSUME IsLive(e) PROVE Mirrors(pend, e)'
    <3>1. IsLive(ep)' <=> IsLive(e)
      BY DEF IsLive
    <3> QED
      BY <2>1, <3>1 DEF Mirrors
  <2> DEFINE i == e.core.id
  <2>2. Alike(RowAfter(p, i), RowAfter(pend, i)')
    BY <2>1
  <2>3. /\ RowAfter(p, i).state \in Live /\ RowAfter(p, i).opened = e.core.opened
        /\ RowAfter(p, i).occ = e.core.occ /\ RowAfter(p, i).changed = e.seen
    BY <2>1 DEF Mirrors
  <2>4. /\ RowAfter(pend, i)'.state \in Live /\ RowAfter(pend, i)'.opened = e.core.opened
        /\ RowAfter(pend, i)'.occ = e.core.occ /\ RowAfter(pend, i)'.changed = e.seen
    BY <2>2, <2>3 DEF Alike
  <2> QED
    BY <2>4 DEF Mirrors
<1>6. AllEvidenced(pend, now, pend.matches)'
  <2>1. ASSUME NEW i \in Id, RowAfter(pend, i)'.state # "none"
        PROVE  Evidenced(RowAfter(pend, i), n, k)'
    <3>1. Alike(RowAfter(p, i), RowAfter(pend, i)')
      OBVIOUS
    <3>2. RowAfter(p, i).state # "none"
      BY <2>1, <3>1 DEF Alike, Live
    <3>3. Evidenced(RowAfter(p, i), n, m)
      BY <3>2 DEF AllEvidenced
    <3> QED
      BY <1>4, <3>1, <3>3, EvidenceCarries
  <2> QED
    BY <2>1 DEF AllEvidenced
<1> QED
  BY <1>1, <1>2, <1>3, <1>5, <1>6 DEF Works, Held

\* What a step that commits nothing keeps of the counts and of the rows.
LEMMA CountsStay ==
  ASSUME CountsInOrder, matched' = matched, now' \in Time, now <= now'
  PROVE  /\ CountsInOrder'
         /\ \A n, m : Recounted(n, m, m)
         /\ \A x : Upto(x)' = Upto(x)
<1>1. \A x : Upto(x)' = Upto(x)
  BY DEF Upto
<1>2. \A n, m : Recounted(n, m, m)
  BY <1>1 DEF Recounted, SeenBy
<1>3. /\ now \in Nat /\ now' \in Nat /\ matched \in [Time -> Nat] /\ now \in Time
      /\ \A a, b \in Time : a <= b =>
           matched[a] <= matched[b] /\ (now <= a => matched[a] = matched[now])
  BY DEF CountsInOrder, Time
<1>4. \A a \in Time : now' <= a => matched[a] = matched[now']
  <2>1. SUFFICES ASSUME NEW a \in Time, now' <= a PROVE matched[a] = matched[now']
    OBVIOUS
  <2>2. a \in Nat /\ now <= a /\ a <= a /\ now' <= now'
    BY <1>3, <2>1 DEF Time
  <2>3. matched[a] = matched[now] /\ matched[now'] = matched[now]
    BY <1>3, <2>2
  <2> QED
    BY <2>3
<1>5. CountsInOrder'
  BY <1>3, <1>4 DEF CountsInOrder
<1> QED
  BY <1>1, <1>2, <1>5

LEMMA AlikeIsReflexive == \A r, q : q = r => Alike(r, q)
<1> SUFFICES ASSUME NEW r, NEW q, q = r PROVE Alike(r, q)
  OBVIOUS
<1>1. /\ q.opened = r.opened /\ q.changed = r.changed /\ q.cleared = r.cleared
      /\ q.occ = r.occ /\ q.state = r.state
  OBVIOUS
<1> QED
  BY <1>1 DEF Alike

LEMMA EvidencedLater ==
  ASSUME CountsInOrder, matched' = matched, NEW t \in Time, now < t,
         NEW r \in RowType, Evidenced(r, now, 0)
  PROVE  Evidenced(r, t, 0)'
<1>1. Evidenced(r, t, 0)
  BY EvidenceAges
<1>2. Recounted(t, 0, 0)
  BY DEF Recounted, SeenBy, Upto
<1> QED
  BY <1>1, <1>2, AlikeIsReflexive, EvidenceCarries

LEMMA RowsAge ==
  ASSUME BInv, rows' = rows, matched' = matched, NEW t \in Time, now' = t, now < t
  PROVE  RowsEvidenced'
<1>1. CountsInOrder /\ rows \in [Id -> RowType] /\ RowsEvidenced
  BY DEF BInv
<1>2. SUFFICES ASSUME NEW i \in Id, rows'[i].state # "none"
               PROVE  Evidenced(rows[i], now, 0)'
  BY DEF RowsEvidenced
<1>3. rows[i] \in RowType /\ Evidenced(rows[i], now, 0) /\ rows'[i] = rows[i]
  BY <1>1, <1>2 DEF RowsEvidenced
<1>4. \A r \in RowType : Evidenced(r, now, 0) => Evidenced(r, t, 0)'
  BY <1>1, EvidencedLater
<1> QED
  BY <1>3, <1>4

\* What a tick makes of the working state.
LEMMA TickWorks ==
  ASSUME BInv, NEW hits \in Drained, NEW scan \in BOOLEAN, phase = "idle",
         NEW t \in Time, now < t,
         LET w == Rescanned(scan, t)
         IN  Apply(w, StepEpisode(w.ep, hits, t), t).nextId <= MaxId + 1
  PROVE  LET w    == Rescanned(scan, t)
             done == Apply(w, StepEpisode(w.ep, hits, t), t)
             s    == IF (scan /\ Edited) \/ (IsLive(w.ep) /\ ~IsLive(done.ep))
                     THEN t ELSE since
         IN  /\ Works(done, s, t, Occurrences(hits)) /\ s \in Time /\ s <= t
             /\ def.disk = 1 => \A i \in Id : done.pend.rows[i].state = "cleared" =>
                                    Upto(t) = Upto(t - ClearAfter)
<1> DEFINE w    == Rescanned(scan, t)
           done == Apply(w, StepEpisode(w.ep, hits, t), t)
           old  == IF scan /\ Edited THEN t ELSE since
           s    == IF (scan /\ Edited) \/ (IsLive(w.ep) /\ ~IsLive(done.ep))
                   THEN t ELSE since
<1>1. /\ CountsInOrder /\ rows \in [Id -> RowType] /\ since \in Time /\ since <= now
      /\ Works(Held, since, now, 0) /\ DefInOrder /\ Quieted
  BY DEF BInv
<1>2. since \in Nat /\ t \in Nat /\ now \in Nat
  BY <1>1, UptoGrows DEF Time
<1>3. /\ Works(w, old, t, 0)
      /\ IsLive(w.ep) => w.ep.core.opened < t
      /\ ~Edited => w.pend = pend
  BY <1>1, <1>2, RescannedWorks
<1> HIDE DEF w
<1>4. old \in Nat /\ old \in Time /\ old <= t
  BY <1>1, <1>2
<1>5. Faithful(StepEpisode(w.ep, hits, t), w.ep)
  BY <1>3, StepIsFaithful DEF Works, Sound
<1>6. done.nextId <= MaxId + 1
  BY DEF w
<1>7. Steps(w, old, t, hits)
  BY <1>1, <1>3, <1>4, <1>5, <1>6 DEF Steps
<1>8. Works(done, IF IsLive(w.ep) /\ ~IsLive(done.ep) THEN t ELSE old, t, Occurrences(hits))
  BY <1>7, StepWorks
<1>9. \A i \in Id : done.pend.rows[i].state = "cleared" =>
          w.pend.rows[i].state = "cleared" \/ Upto(t) = Upto(t - ClearAfter)
  BY <1>7, ClearsAreQuiet
<1>10. def.disk = 1 => \A i \in Id : w.pend.rows[i].state # "cleared"
  <2>1. def.disk = 1 => ~Edited
    BY <1>1 DEF DefInOrder, Edited
  <2>2. def.disk = 1 => \A i \in Id : pend.rows[i].state # "cleared"
    BY <1>1 DEF Quieted
  <2> QED
    BY <1>3, <2>1, <2>2
<1> HIDE DEF done
<1>11. (IF IsLive(w.ep) /\ ~IsLive(done.ep) THEN t ELSE old) = s
  OBVIOUS
<1>12. Works(done, s, t, Occurrences(hits)) /\ s \in Time /\ s <= t
  BY <1>1, <1>2, <1>8, <1>11
<1> QED
  BY <1>9, <1>10, <1>12 DEF done, w

LEMMA LaterIsTime ==
  ASSUME now \in Time, now < MaxNow, NEW t \in Later
  PROVE  t \in Time /\ now < t
BY DEF Time, Later, AtMost

LEMMA TickKeepsEvidence ==
    ASSUME BInv, NEW hits \in Drained, NEW others \in 0 .. MaxOthers,
           NEW scan \in BOOLEAN, Tick(hits, others, scan)
    PROVE  BInv'
<1>1. PICK t \in Later :
        LET w == Rescanned(scan, t)
            done == Apply(w, StepEpisode(w.ep, hits, t), t)
        IN /\ done.nextId <= MaxId + 1
           /\ Guard(hits.records + others, t)
           /\ ep' = done.ep /\ nextId' = done.nextId
           /\ pend' = [done.pend EXCEPT !.matches = Occurrences(hits)]
           /\ since' = IF (scan /\ Edited) \/ (IsLive(w.ep) /\ ~IsLive(done.ep))
                       THEN t ELSE since
  BY DEF Tick
<1>2. /\ phase = "idle" /\ now < MaxNow /\ phase' = "buffered" /\ rows' = rows
      /\ notes' = notes /\ matched' = matched
      /\ def' = IF scan THEN [def EXCEPT !.mem = def.disk] ELSE def
  BY DEF Tick
<1>3. /\ EInv /\ CountsInOrder /\ DefInOrder /\ rows \in [Id -> RowType]
      /\ notes \in [Id -> Seq(NoteType)] /\ now \in Time
  BY DEF BInv, CountsInOrder
<1>4. t \in Time /\ now < t
  BY <1>2, <1>3, LaterIsTime
<1> DEFINE w    == Rescanned(scan, t)
           done == Apply(w, StepEpisode(w.ep, hits, t), t)
           s    == IF (scan /\ Edited) \/ (IsLive(w.ep) /\ ~IsLive(done.ep))
                   THEN t ELSE since
           m    == Occurrences(hits)
<1>5. /\ done.nextId <= MaxId + 1 /\ now' = t /\ ep' = done.ep /\ nextId' = done.nextId
      /\ pend' = [done.pend EXCEPT !.matches = m] /\ since' = s
  BY <1>1 DEF Guard
<1>6. /\ Works(done, s, t, m) /\ s \in Time /\ s <= t
      /\ def.disk = 1 => \A i \in Id : done.pend.rows[i].state = "cleared" =>
                             Upto(t) = Upto(t - ClearAfter)
  BY <1>2, <1>4, <1>5, TickWorks
<1>7. m \in Nat
  BY OccurrencesKept
<1>8. EInv'
  BY <1>3, TickKeeps
<1> HIDE DEF w, done, s, m
<1>9. /\ pend'.rows = done.pend.rows /\ pend'.notes = done.pend.notes
      /\ pend'.matches = m
  BY <1>5, <1>6 DEF Works, Sound, IsPending
<1>10. CountsInOrder' /\ Recounted(t, m, m) /\ \A x : Upto(x)' = Upto(x)
  <2>1. now <= t
    BY <1>3, <1>4 DEF Time
  <2> QED
    BY <1>2, <1>3, <1>4, <1>5, <2>1, CountsStay
<1>11. PendTyped(pend)'
  BY <1>6, <1>9 DEF Works, PendTyped
<1>12. \A i : RowAfter(pend, i)' = RowAfter(done.pend, i)
  BY <1>2, <1>9 DEF RowAfter
<1>13. IdsAreNew(pend, nextId)'
  BY <1>2, <1>5, <1>6, <1>12 DEF Works, IdsAreNew
<1>14. Sound(Held)'
  BY <1>2, <1>8 DEF EInv
<1>15. Works(Held, since, now, pend.matches)'
  <2>1. \A i \in Id : Alike(RowAfter(done.pend, i), RowAfter(pend, i)')
    BY <1>12, AlikeIsReflexive
  <2>2. s \in Nat
    BY <1>6 DEF Time
  <2>3. /\ EpisodeTyped(done.ep) /\ PendTyped(done.pend)
        /\ IsLive(done.ep) => done.ep.core.id \in Id
        /\ Mirrors(done.pend, done.ep) /\ AllEvidenced(done.pend, t, m)
        /\ Waiting(done.ep.pending, t, m)
        /\ ~IsLive(done.ep) => Complete(done.ep.pending, s, t, m)
    BY <1>6 DEF Works, Sound
  <2>4. (rows \in [Id -> RowType])'
    BY <1>2, <1>3
  <2> QED
    BY <1>3, <1>4, <1>5, <1>9, <1>10, <1>11, <1>13, <1>14, <2>1, <2>2, <2>3, <2>4,
       HeldCarries
<1>16. RowsEvidenced'
  BY <1>2, <1>4, <1>5, RowsAge
<1>17. DefInOrder'
  <2>1. CASE scan
    <3>1. /\ def' = [def EXCEPT !.mem = def.disk]
          /\ def \in [disk : Nat, mem : Nat, db : Nat]
          /\ 1 <= def.disk /\ def.db <= def.disk
      BY <1>2, <1>3, <2>1 DEF DefInOrder
    <3>2. /\ def' \in [disk : Nat, mem : Nat, db : Nat]
          /\ def'.disk = def.disk /\ def'.mem = def.disk /\ def'.db = def.db
      BY <3>1
    <3> QED
      BY <3>1, <3>2 DEF DefInOrder
  <2>2. CASE ~scan
    BY <1>2, <1>3, <2>2 DEF DefInOrder
  <2> QED
    BY <2>1, <2>2
<1>18. Quieted'
  <2>1. def'.disk = def.disk
    BY <1>2, <1>3 DEF DefInOrder
  <2>2. \A i \in Id : def'.disk = 1 /\ pend'.rows[i].state = "cleared" =>
          Upto(t) = Upto(t - ClearAfter)
    BY <1>6, <1>9, <2>1
  <2> QED
    BY <1>2, <1>5, <1>10, <2>2 DEF Quieted
<1>19. EpisodeTyped(ep)'
  BY <1>15 DEF Works, Held
<1> QED
  BY <1>2, <1>3, <1>5, <1>6, <1>7, <1>8, <1>9, <1>10, <1>11, <1>15, <1>16, <1>17, <1>18,
     <1>19 DEF BInv

LEMMA NothingPending ==
  /\ PendTyped(NoPending) /\ NoPending.matches = 0
  /\ \A i \in Id : NoPending.rows[i].state = "none" /\ NoPending.notes[i] = <<>>
<1>1. NoRow \in RowType /\ NoRow.state = "none"
  BY DEF NoRow, RowType, Time
<1>2. <<>> \in Seq(NoteType)
  OBVIOUS
<1> QED
  BY <1>1, <1>2 DEF NoPending, PendTyped

\* A commit moves what the buffers say into the tables, the count with it.
LEMMA CommitKeepsEvidence == ASSUME BInv, Commit PROVE BInv'
<1>0. PICK n, m : n = now /\ m = pend.matches
  OBVIOUS
<1>1. /\ phase = "buffered" /\ phase' = "idle" /\ pend' = NoPending /\ now' = now
      /\ ep' = ep /\ nextId' = nextId /\ since' = since
      /\ matched' = [t \in Time |-> IF t < now THEN matched[t] ELSE matched[t] + m]
      /\ notes' = [i \in Id |-> notes[i] \o pend.notes[i]]
      /\ def' = IF pend.load THEN [def EXCEPT !.db = def.mem] ELSE def
  BY <1>0 DEF Commit
<1>2. /\ EInv /\ CountsInOrder /\ DefInOrder /\ rows \in [Id -> RowType]
      /\ notes \in [Id -> Seq(NoteType)] /\ PendTyped(pend) /\ EpisodeTyped(ep)
      /\ m \in Nat /\ since \in Time /\ since <= now
      /\ Works(Held, since, now, m)
  BY <1>0, <1>1 DEF BInv
<1>3. /\ now \in Time /\ now \in Nat /\ now <= MaxNow /\ matched \in [Time -> Nat]
      /\ \A a, b \in Time : a <= b =>
           matched[a] <= matched[b] /\ (now <= a => matched[a] = matched[now])
  BY <1>2, UptoGrows DEF CountsInOrder
<1>4. EInv'
  BY <1>2, CommitKeeps
<1>5. CountsInOrder'
  <2>1. \A t \in Time : matched'[t] = IF t < now THEN matched[t] ELSE matched[t] + m
    BY <1>1
  <2>2. matched' \in [Time -> Nat]
    <3>1. \A t \in Time : matched[t] \in Nat /\ matched[t] + m \in Nat
      BY <1>2, <1>3
    <3> QED
      BY <1>1, <3>1
  <2>3. ASSUME NEW a \in Time, NEW b \in Time, a <= b
        PROVE  matched'[a] <= matched'[b] /\ (now <= a => matched'[a] = matched'[now])
    <3>1. a \in Nat /\ b \in Nat /\ matched[a] \in Nat /\ matched[b] \in Nat
      BY <1>3 DEF Time
    <3>2. matched[a] <= matched[b] /\ (now <= a => matched[a] = matched[now])
      BY <1>3, <2>3
    <3>3. /\ matched'[a] = IF a < now THEN matched[a] ELSE matched[a] + m
          /\ matched'[b] = IF b < now THEN matched[b] ELSE matched[b] + m
          /\ matched'[now] = IF now < now THEN matched[now] ELSE matched[now] + m
      BY <1>3, <2>1
    <3> QED
      BY <1>2, <1>3, <2>3, <3>1, <3>2, <3>3
  <2> QED
    BY <1>1, <1>3, <2>2, <2>3 DEF CountsInOrder
<1>6. Recounted(n, m, 0)
  <2>1. ASSUME NEW x \in Int, x <= MaxNow
        PROVE  SeenBy(x, n, 0)' = SeenBy(x, n, m)
    <3>1. CASE x < 0
      <4>1. ~(x >= now)
        BY <1>0, <1>3, <3>1
      <4> QED
        BY <1>0, <1>1, <3>1, <4>1 DEF SeenBy, Upto
    <3>2. CASE x >= 0
      <4>1. x \in Time /\ ~(x < 0)
        BY <2>1, <3>2 DEF Time
      <4>2. matched'[x] = IF x < now THEN matched[x] ELSE matched[x] + m
        BY <1>1, <4>1
      <4>3. matched[x] \in Nat
        BY <1>3, <4>1
      <4>4. SeenBy(x, n, 0)' = matched'[x] + (IF x >= n THEN 0 ELSE 0)
        BY <1>0, <1>1, <4>1 DEF SeenBy, Upto
      <4>5. SeenBy(x, n, m) = matched[x] + (IF x >= n THEN m ELSE 0)
        BY <1>0, <4>1 DEF SeenBy, Upto
      <4> QED
        BY <1>0, <1>2, <1>3, <2>1, <4>2, <4>3, <4>4, <4>5
    <3> QED
      BY <2>1, <3>1, <3>2
  <2> QED
    BY <2>1 DEF Recounted
<1>7. ASSUME NEW i \in Id
      PROVE  rows'[i] = RowAfter(pend, i) /\ RowAfter(pend, i)' = RowAfter(pend, i)
             /\ RowAfter(pend, i) \in RowType
  <2>1. rows'[i] = RowAfter(pend, i)
    BY DEF Commit, RowAfter
  <2>2. RowAfter(pend, i)' = rows'[i]
    BY <1>1, NothingPending DEF RowAfter
  <2>3. RowAfter(pend, i) \in RowType
    BY <1>2, RowAfterIs DEF PendTyped
  <2> QED
    BY <2>1, <2>2, <2>3
<1>8. (rows \in [Id -> RowType])'
  <2>1. rows' = [i \in Id |-> rows'[i]]
    BY DEF Commit
  <2> QED
    BY <1>7, <2>1
<1>9. PendTyped(pend)'
  BY <1>1, NothingPending DEF PendTyped
<1>10. IdsAreNew(pend, nextId)'
  <2>1. IdsAreNew(pend, nextId)
    BY <1>2 DEF Works, Held
  <2> QED
    BY <1>1, <1>7, <2>1 DEF IdsAreNew
<1>11. Sound(Held)'
  BY <1>1, <1>4 DEF EInv
<1>12. pend'.matches = 0
  BY <1>1, NothingPending
<1>13. Works(Held, since, now, pend.matches)'
  <2>1. \A i \in Id : Alike(RowAfter(pend, i), RowAfter(pend, i)')
    BY <1>7, AlikeIsReflexive
  <2>2. since \in Nat
    BY <1>2 DEF Time
  <2>3. /\ IsLive(ep) => ep.core.id \in Id
        /\ Mirrors(pend, ep) /\ AllEvidenced(pend, n, m) /\ Waiting(ep.pending, n, m)
        /\ ~IsLive(ep) => Complete(ep.pending, since, n, m)
    BY <1>0, <1>2 DEF Works, Sound, Held
  <2>4. n \in Time /\ now' = n
    BY <1>0, <1>1, <1>3
  <2> QED
    BY <2>4, <1>1, <1>2, <1>3, <1>6, <1>8, <1>9, <1>10, <1>11, <1>12, <2>1, <2>2, <2>3,
       HeldCarries
<1>14. RowsEvidenced'
  <2>1. ASSUME NEW i \in Id, rows'[i].state # "none"
        PROVE  Evidenced(rows[i], now, 0)'
    <3>1. Evidenced(RowAfter(pend, i), n, m)
      BY <1>0, <1>2, <1>7, <2>1 DEF Works, Held, AllEvidenced
    <3>2. \A r \in RowType : Evidenced(r, n, m) => Evidenced(r, n, 0)'
      <4>1. n \in Time
        BY <1>0, <1>3
      <4> QED
        BY <1>6, <4>1, AlikeIsReflexive, EvidenceCarries
    <3>3. Evidenced(RowAfter(pend, i), n, m) /\ rows'[i] \in RowType
          /\ rows'[i] = RowAfter(pend, i) /\ now' = n
      BY <1>0, <1>1, <1>7, <3>1
    <3> QED
      BY <3>2, <3>3
  <2> QED
    BY <2>1 DEF RowsEvidenced
<1>15. DefInOrder'
  <2>1. /\ def \in [disk : Nat, mem : Nat, db : Nat]
        /\ 1 <= def.disk /\ def.mem <= def.disk /\ def.db <= def.disk /\ 1 <= def.mem
    BY <1>1, <1>2 DEF DefInOrder
  <2>2. /\ def' \in [disk : Nat, mem : Nat, db : Nat]
        /\ def'.disk = def.disk /\ def'.mem = def.mem /\ def'.db \in {def.mem, def.db}
    BY <1>1, <2>1
  <2> QED
    BY <2>1, <2>2 DEF DefInOrder
<1>16. Quieted'
  BY <1>1, NothingPending DEF Quieted
<1>17. (notes \in [Id -> Seq(NoteType)])'
  <2>1. ASSUME NEW i \in Id PROVE notes[i] \o pend.notes[i] \in Seq(NoteType)
    <3>1. notes[i] \in Seq(NoteType) /\ pend.notes[i] \in Seq(NoteType)
      BY <1>2 DEF PendTyped
    <3> QED
      BY <3>1
  <2> QED
    BY <1>1, <2>1
<1>18. EpisodeTyped(ep)' /\ (since \in Time /\ since <= now)'
  BY <1>1, <1>2 DEF EpisodeTyped
<1>19. (now \in Time)' /\ (pend.matches \in Nat)' /\ phase' = "idle"
  BY <1>1, <1>3, <1>12
<1> QED
  BY <1>19, <1>4, <1>5, <1>8, <1>9, <1>12, <1>13, <1>14, <1>15, <1>16, <1>17, <1>18 DEF BInv

LEMMA AckKeepsEvidence == ASSUME BInv, NEW k \in Id, Ack(k) PROVE BInv'
<1>0. PICK n, m : n = now /\ m = pend.matches
  OBVIOUS
<1>1. /\ rows' = [rows EXCEPT ![k].state = "acked"] /\ rows[k].state = "open"
      /\ ep' = ep /\ pend' = pend /\ nextId' = nextId /\ phase' = phase /\ now' = now
      /\ since' = since /\ matched' = matched /\ notes' = notes /\ def' = def
  BY DEF Ack
<1>2. /\ EInv /\ CountsInOrder /\ DefInOrder /\ Quieted /\ RowsEvidenced
      /\ rows \in [Id -> RowType] /\ PendTyped(pend) /\ EpisodeTyped(ep)
      /\ since \in Time /\ since <= now /\ now \in Time
  BY DEF BInv, CountsInOrder
<1>3. EInv'
  BY <1>2, AckKeeps
<1>4. /\ CountsInOrder' /\ \A x : Upto(x)' = Upto(x)
      /\ Recounted(n, m, m) /\ Recounted(n, 0, 0)
  <2>1. now <= now /\ now' \in Time
    BY <1>1, <1>2 DEF Time
  <2> QED
    BY <1>1, <1>2, <2>1, CountsStay
<1>5. ASSUME NEW i \in Id
      PROVE  rows'[i] \in RowType /\ Alike(rows[i], rows'[i])
             /\ (rows'[i].state = "none" <=> rows[i].state = "none")
  <2>1. rows[i] \in RowType
    BY <1>2
  <2>2. CASE i = k
    <3> DEFINE r == rows[k]
    <3>1. rows'[i] = [r EXCEPT !.state = "acked"] /\ r.state = "open" /\ r \in RowType
      BY <1>1, <1>2, <2>2
    <3> HIDE DEF r
    <3>2. /\ rows'[i] \in RowType /\ rows'[i].state = "acked" /\ rows'[i].opened = r.opened
          /\ rows'[i].changed = r.changed /\ rows'[i].cleared = r.cleared
          /\ rows'[i].occ = r.occ
      BY <3>1 DEF RowType
    <3>3. Alike(r, rows'[i])
      BY <3>1, <3>2 DEF Alike, Live
    <3> QED
      BY <2>2, <3>1, <3>2, <3>3 DEF r
  <2>3. CASE i # k
    <3>1. rows'[i] = rows[i]
      BY <1>1, <1>2, <2>3
    <3> QED
      BY <2>1, <3>1, AlikeIsReflexive
  <2> QED
    BY <2>2, <2>3
<1>6. rows' \in [Id -> RowType]
  BY <1>1, <1>2, <1>5
<1>7. ASSUME NEW i \in Id
      PROVE  /\ Alike(RowAfter(pend, i), RowAfter(pend, i)')
             /\ RowAfter(pend, i)'.state = "none" <=> RowAfter(pend, i).state = "none"
  <2>1. /\ pend.rows[i] \in RowType /\ rows[i] \in RowType
        /\ rows'[i].opened = rows[i].opened
    BY <1>2, <1>5 DEF PendTyped, Alike
  <2>2. CASE pend.rows[i].state = "none"
    <3>1. RowAfter(pend, i) = rows[i] /\ RowAfter(pend, i)' = rows'[i]
      BY <1>1, <2>2 DEF RowAfter
    <3> QED
      BY <1>5, <3>1
  <2>3. CASE pend.rows[i].state # "none"
    <3>1. RowAfter(pend, i)' = RowAfter(pend, i)
      BY <1>1, <1>5, <2>1, <2>3 DEF RowAfter
    <3> QED
      BY <3>1, AlikeIsReflexive
  <2> QED
    BY <2>2, <2>3
<1>8. PendTyped(pend)' /\ EpisodeTyped(ep)' /\ DefInOrder' /\ Quieted'
  BY <1>1, <1>2, <1>4 DEF PendTyped, EpisodeTyped, DefInOrder, Quieted
<1>9. RowsEvidenced'
  <2>1. ASSUME NEW i \in Id, rows'[i].state # "none"
        PROVE  Evidenced(rows[i], now, 0)'
    <3>1. Evidenced(rows[i], n, 0) /\ rows[i] \in RowType
      BY <1>0, <1>2, <1>5, <2>1 DEF RowsEvidenced
    <3>2. \A r, q \in RowType : Evidenced(r, n, 0) /\ Alike(r, q) => Evidenced(q, n, 0)'
      <4>1. n \in Time
        BY <1>0, <1>2
      <4> QED
        BY <1>4, <4>1, EvidenceCarries
    <3>3. now' = n /\ rows'[i] \in RowType /\ Alike(rows[i], rows'[i])
      BY <1>0, <1>1, <1>5
    <3> QED
      BY <3>1, <3>2, <3>3
  <2> QED
    BY <2>1 DEF RowsEvidenced
<1>10. ASSUME phase # "down" PROVE Works(Held, since, now, pend.matches)'
  <2>1. Works(Held, since, n, m)
    BY <1>0, <1>10 DEF BInv
  <2>2. IdsAreNew(pend, nextId)'
    <3>1. IdsAreNew(pend, nextId)
      BY <2>1 DEF Works, Held
    <3> QED
      BY <1>1, <1>5, <1>7, <3>1 DEF IdsAreNew
  <2>3. /\ IsLive(ep) => ep.core.id \in Id
        /\ Mirrors(pend, ep) /\ AllEvidenced(pend, n, m) /\ Waiting(ep.pending, n, m)
        /\ ~IsLive(ep) => Complete(ep.pending, since, n, m)
    BY <2>1 DEF Works, Sound, Held
  <2>4. Sound(Held)'
    BY <1>1, <1>3, <1>10 DEF EInv
  <2>5. since \in Nat /\ n \in Time /\ now' = n /\ pend'.matches = m /\ since' = since
        /\ ep' = ep
    BY <1>0, <1>1, <1>2 DEF Time
  <2>6. (rows \in [Id -> RowType])' /\ \A i \in Id : Alike(RowAfter(pend, i), RowAfter(pend, i)')
    BY <1>6, <1>7
  <2> QED
    BY <1>2, <1>4, <1>8, <2>2, <2>3, <2>4, <2>5, <2>6, HeldCarries
<1> QED
  BY <1>1, <1>2, <1>3, <1>4, <1>6, <1>8, <1>9, <1>10 DEF BInv

\* The process forgets; the tables and the counts stay.
LEMMA CrashKeepsEvidence == ASSUME BInv, Crash PROVE BInv'
<1>1. /\ phase' = "down" /\ ep' = NoEpisode /\ nextId' = 0 /\ pend' = NoPending
      /\ rows' = rows /\ matched' = matched /\ now' = now /\ since' = since
      /\ notes' = notes /\ def' = def
  BY DEF Crash
<1>2. /\ EInv /\ CountsInOrder /\ DefInOrder /\ RowsEvidenced
      /\ rows \in [Id -> RowType] /\ notes \in [Id -> Seq(NoteType)]
      /\ since \in Time /\ since <= now
  BY DEF BInv
<1>3. EInv' /\ CountsInOrder' /\ DefInOrder' /\ RowsEvidenced'
  <2>1. EInv'
    <3>1. AreRows(rows) /\ OneRow
      BY <1>2 DEF EInv
    <3>2. AreRows(rows)' /\ OneRow'
      BY <1>1, <3>1 DEF AreRows, IsRow, OneRow, LiveRows
    <3>3. nextId' \in 0 .. MaxId + 1
      BY <1>1
    <3> QED
      BY <1>1, <3>2, <3>3 DEF EInv
  <2>2. CountsInOrder' /\ DefInOrder'
    BY <1>1, <1>2 DEF CountsInOrder, DefInOrder
  <2>3. RowsEvidenced'
    BY <1>1, <1>2 DEF RowsEvidenced, Evidenced, SeenBy, Upto
  <2> QED
    BY <2>1, <2>2, <2>3
<1>4. PendTyped(pend)' /\ pend'.matches = 0 /\ Quieted'
  BY <1>1, NothingPending DEF PendTyped, Quieted
<1>5. EpisodeTyped(ep)'
  <2>1. EpisodeTyped(NoEpisode)
    BY DEF EpisodeTyped, NoEpisode, NoCore, CoreType, Time
  <2> QED
    BY <1>1, <2>1 DEF EpisodeTyped
<1> QED
  BY <1>1, <1>2, <1>3, <1>4, <1>5 DEF BInv

\* An edit changes the file, and nothing the process knows.
LEMMA EditKeepsEvidence ==
  ASSUME BInv, EditDefinition \/ UNCHANGED vars
  PROVE  BInv'
<1>1. /\ phase' = phase /\ ep' = ep /\ nextId' = nextId /\ pend' = pend
      /\ rows' = rows /\ matched' = matched /\ now' = now /\ since' = since
      /\ notes' = notes
      /\ def' = def \/ (def' = [def EXCEPT !.disk = @ + 1])
  BY DEF EditDefinition, vars
<1>2. /\ EInv /\ CountsInOrder /\ DefInOrder /\ Quieted /\ RowsEvidenced
  BY DEF BInv
<1>3. EInv'
  BY <1>1, <1>2 DEF EInv, AreRows, IsRow, OneRow, LiveRows, Sound, Held, Owned, After,
                    IsEpisode, IsCore, IsLive, IsPending
<1>4. CountsInOrder' /\ RowsEvidenced'
  BY <1>1, <1>2 DEF CountsInOrder, RowsEvidenced, Evidenced, SeenBy, Upto
<1>5. DefInOrder' /\ (def' = def \/ def'.disk # 1)
  BY <1>1, <1>2 DEF DefInOrder
<1>6. Quieted'
  BY <1>1, <1>2, <1>5 DEF Quieted, Upto
<1>7. PendTyped(pend)' /\ EpisodeTyped(ep)'
  BY <1>1 DEF BInv, PendTyped, EpisodeTyped
<1>8. ASSUME phase # "down" PROVE Works(Held, since, now, pend.matches)'
  <2>1. Works(Held, since, now, pend.matches)
    BY <1>8 DEF BInv
  <2>2. Sound(Held)'
    BY <1>1, <1>3, <1>8 DEF EInv
  <2>3. \A i : RowAfter(pend, i)' = RowAfter(pend, i)
    BY <1>1 DEF RowAfter
  <2>4. IdsAreNew(pend, nextId)' /\ Mirrors(pend, ep)'
    BY <1>1, <2>1, <2>3 DEF Works, Held, IdsAreNew, Mirrors, IsLive, RowAfter
  <2>5. AllEvidenced(pend, now, pend.matches)'
    BY <1>1, <2>1, <2>3 DEF Works, Held, AllEvidenced, Evidenced, SeenBy, Upto
  <2>6. Waiting(ep.pending, now, pend.matches)'
    BY <1>1, <2>1 DEF Works, Held, Waiting, InOrder, SeenBy, Upto
  <2>7. (~IsLive(ep) => Complete(ep.pending, since, now, pend.matches))'
    <3>1. IsLive(ep)' = IsLive(ep)
      BY <1>1 DEF IsLive
    <3>2. Complete(ep.pending, since, now, pend.matches)'
            = Complete(ep.pending, since, now, pend.matches)
      BY <1>1 DEF Complete, SeenBy, Upto
    <3>3. ~IsLive(ep) => Complete(ep.pending, since, now, pend.matches)
      BY <2>1 DEF Works, Held
    <3> QED
      BY <3>1, <3>2, <3>3
  <2> QED
    BY <1>7, <2>2, <2>4, <2>5, <2>6, <2>7 DEF Works, Held
<1> QED
  BY <1>1, <1>3, <1>4, <1>5, <1>6, <1>7, <1>8 DEF BInv

\* A start: what is taken up is what the row says, and what an edit ended in the
\* meantime counts up to now.
LEMMA RestartKeepsEvidence == ASSUME BInv, Restart PROVE BInv'
<1>1. PICK t \in Later :
        /\ GuardAnew(t) /\ since' = t
        /\ pend' = [NoPending EXCEPT
             !.load = TRUE,
             !.rows = [i \in Id |-> IF EditedWhileDown /\ i \in LiveRows
                                    THEN SupersededRow(i, t) ELSE NoRow]]
  BY DEF Restart
<1>2. /\ phase = "down" /\ phase' = "idle" /\ now < MaxNow /\ ep' = Reloaded
      /\ def' = [def EXCEPT !.mem = def.disk] /\ nextId' = nextId /\ rows' = rows
      /\ notes' = notes /\ matched' = matched /\ now' = t /\ since' = t
  BY <1>1 DEF Restart, GuardAnew
<1>3. /\ EInv /\ CountsInOrder /\ DefInOrder /\ RowsEvidenced
      /\ rows \in [Id -> RowType] /\ notes \in [Id -> Seq(NoteType)]
      /\ nextId = 0 /\ now \in Time /\ OneRow
  BY <1>2 DEF BInv, CountsInOrder, EInv
<1>4. t \in Time /\ now < t /\ t \in Nat
  <2>1. t \in Time /\ now < t
    BY <1>2, <1>3, LaterIsTime
  <2> QED
    BY <2>1 DEF Time
<1>5. EInv'
  BY <1>3, RestartKeeps
<1>6. CountsInOrder' /\ Recounted(t, 0, 0) /\ RowsEvidenced'
  <2>1. now <= t
    BY <1>3, <1>4 DEF Time
  <2>2. CountsInOrder' /\ Recounted(t, 0, 0)
    BY <1>2, <1>3, <1>4, <2>1, CountsStay
  <2>3. RowsEvidenced'
    BY <1>2, <1>4, RowsAge
  <2> QED
    BY <2>2, <2>3
<1>7. PICK p : p = pend'
  OBVIOUS
<1>8. /\ p.rows = [i \in Id |-> IF EditedWhileDown /\ i \in LiveRows
                                THEN SupersededRow(i, t) ELSE NoRow]
      /\ p.notes = NoPending.notes /\ p.matches = 0
  BY <1>1, <1>7 DEF NoPending
<1>9. ASSUME NEW i \in Id, EditedWhileDown /\ i \in LiveRows
      PROVE  /\ p.rows[i] \in RowType /\ p.rows[i].state = "cleared"
             /\ rows[i].state # "none"
             /\ Evidenced(p.rows[i], t, 0) /\ p.rows[i].opened = rows[i].opened
  <2> DEFINE r == rows[i]
             c == [state |-> "cleared", opened |-> r.opened, occ |-> r.occ]
  <2>1. r \in RowType /\ r.state \in Live /\ r.state # "cleared" /\ r.state # "none"
    BY <1>3, <1>9 DEF LiveRows, Live
  <2>2. Evidenced(r, t, 0) /\ r.opened < t
    <3>1. Evidenced(r, now, 0)
      BY <1>3, <2>1 DEF RowsEvidenced
    <3> HIDE DEF r
    <3> QED
      BY <1>3, <1>4, <2>1, <3>1, EvidenceAges
  <2>3. p.rows[i] = [r EXCEPT !.state = "cleared", !.changed = t, !.cleared = t]
    BY <1>8, <1>9 DEF SupersededRow
  <2>4. c.state = "cleared" /\ c.opened = r.opened /\ c.occ = r.occ
    OBVIOUS
  <2>5. RowOf(c, t) = [state |-> "cleared", opened |-> r.opened, changed |-> t,
                       cleared |-> t, occ |-> r.occ]
    BY DEF RowOf
  <2> HIDE DEF r, c
  <2>6. /\ p.rows[i] \in RowType /\ p.rows[i].state = "cleared"
        /\ p.rows[i].opened = r.opened /\ p.rows[i] = RowOf(c, t)
    BY <1>4, <2>1, <2>3, <2>5 DEF RowType
  <2>7. Evidenced(RowOf(c, t), t, 0)
    BY <1>3, <1>4, <2>1, <2>2, <2>4, EndsEvidenced
  <2> QED
    BY <2>1, <2>6, <2>7 DEF r
<1>10. ASSUME NEW i \in Id, ~(EditedWhileDown /\ i \in LiveRows)
       PROVE  p.rows[i] = NoRow
  BY <1>8, <1>10
<1>11. NoRow \in RowType /\ NoRow.state = "none"
  BY DEF NoRow, RowType, Time
<1>12. PendTyped(p)
  <2>1. \A i \in Id : p.rows[i] \in RowType
    BY <1>9, <1>10, <1>11
  <2>2. p.rows \in [Id -> RowType]
    BY <1>8, <2>1
  <2> QED
    BY <1>8, <2>2, NothingPending DEF PendTyped
<1>13. ASSUME NEW i \in Id
       PROVE  /\ EditedWhileDown /\ i \in LiveRows => RowAfter(p, i) = p.rows[i]
              /\ ~(EditedWhileDown /\ i \in LiveRows) => RowAfter(p, i) = rows[i]
  <2>1. p.rows[i] \in RowType /\ rows[i] \in RowType /\ p.rows \in [Id -> RowType]
    BY <1>3, <1>12 DEF PendTyped
  <2>2. CASE EditedWhileDown /\ i \in LiveRows
    <3>1. p.rows[i].state = "cleared" /\ p.rows[i].opened = rows[i].opened
      BY <1>9, <2>2
    <3>2. RowAfter(p, i) = p.rows[i]
      BY <1>3, <2>1, <3>1, RowAfterIs
    <3> QED
      BY <2>2, <3>2
  <2>3. CASE ~(EditedWhileDown /\ i \in LiveRows)
    <3>1. p.rows[i].state = "none"
      BY <1>10, <1>11, <2>3
    <3>2. RowAfter(p, i) = rows[i]
      BY <3>1 DEF RowAfter
    <3> QED
      BY <2>3, <3>2
  <2> QED
    BY <2>2, <2>3
<1>14. AllEvidenced(p, t, 0)
  <2>1. SUFFICES ASSUME NEW i \in Id, RowAfter(p, i).state # "none"
                 PROVE  Evidenced(RowAfter(p, i), t, 0)
    BY DEF AllEvidenced
  <2>2. CASE EditedWhileDown /\ i \in LiveRows
    BY <1>9, <1>13, <2>2
  <2>3. CASE ~(EditedWhileDown /\ i \in LiveRows)
    <3>1. RowAfter(p, i) = rows[i] /\ rows[i] \in RowType /\ Evidenced(rows[i], now, 0)
      BY <1>3, <1>13, <2>1, <2>3 DEF RowsEvidenced
    <3> QED
      BY <1>3, <1>4, <3>1, EvidenceAges
  <2> QED
    BY <2>2, <2>3
<1>15. \A i \in Id : RowAfter(p, i).state # "none" => rows[i].state # "none"
  BY <1>9, <1>13
<1>16. \A i : RowAfter(pend, i)' = RowAfter(p, i)
  BY <1>2, <1>7 DEF RowAfter
<1>17. PICK e : e = Reloaded
  OBVIOUS
<1>18. EpisodeTyped(NoEpisode) /\ NoEpisode.pending = <<>> /\ ~IsLive(NoEpisode)
  BY NoEpisodeIsEpisode DEF EpisodeTyped, NoEpisode, NoCore, CoreType, Time
<1>19. /\ EpisodeTyped(e) /\ e.pending = <<>>
       /\ IsLive(e) => e.core.id \in Id
       /\ Mirrors(p, e)
  <2>1. CASE EditedWhileDown \/ LiveRows = {}
    <3>1. e = NoEpisode
      BY <1>17, <2>1 DEF Reloaded
    <3> QED
      BY <1>18, <3>1 DEF Mirrors
  <2>2. CASE ~EditedWhileDown /\ LiveRows # {}
    <3>1. PICK k \in LiveRows : e = Rebuilt(k)
      BY <1>17, <2>2 DEF Reloaded
    <3>2. k \in Id /\ rows[k] \in RowType /\ rows[k].state \in Live
      BY <1>3, <3>1 DEF LiveRows
    <3> DEFINE r == rows[k]
               c == [id |-> k, state |-> r.state, opened |-> r.opened,
                     last |-> r.changed, occ |-> r.occ]
    <3>3. e = [core |-> c, seen |-> r.changed, pending |-> <<>>, flaps |-> <<>>,
               cooldown |-> Cooldown]
      BY <3>1 DEF Rebuilt, NoEpisode
    <3>4. c \in CoreType /\ r.changed \in Time /\ k \in Id
      <4>1. k \in 0 .. MaxId
        BY <3>2 DEF Id
      <4> QED
        BY <3>2, <4>1 DEF CoreType, RowType
    <3>5. c.id = k /\ c.state = r.state /\ c.opened = r.opened /\ c.occ = r.occ
      OBVIOUS
    <3>6. RowAfter(p, k) = r
      BY <1>13, <2>2, <3>2
    <3>7. r.state \in Live
      BY <3>2
    <3> HIDE DEF r, c
    <3>8. /\ e.core = c /\ e.seen = r.changed /\ e.pending = <<>> /\ e.flaps = <<>>
          /\ e.cooldown = Cooldown
      BY <3>3
    <3>9. EpisodeTyped(e)
      <4>1. <<>> \in Seq(Time) /\ Len(<<>>) = 0
        OBVIOUS
      <4> QED
        BY <3>4, <3>8, <4>1 DEF EpisodeTyped
    <3>10. Mirrors(p, e)
      BY <3>5, <3>6, <3>7, <3>8 DEF Mirrors
    <3> QED
      BY <3>4, <3>5, <3>8, <3>9, <3>10
  <2> QED
    BY <2>1, <2>2
<1>20. Waiting(e.pending, t, 0) /\ Complete(e.pending, t, t, 0)
  <2>1. <<>> \in Seq(Time)
    OBVIOUS
  <2> QED
    BY <1>3, <1>4, <1>19, <2>1, NothingWaits, NewlyComplete
<1>21. PendTyped(pend)'
  BY <1>7, <1>12 DEF PendTyped
<1>22. IdsAreNew(pend, nextId)'
  BY <1>2, <1>3, <1>15, <1>16 DEF IdsAreNew
<1>23. Works(Held, since, now, pend.matches)'
  <2>1. Sound(Held)'
    BY <1>2, <1>5 DEF EInv
  <2>2. (rows \in [Id -> RowType])' /\ ep' = e /\ pend'.matches = 0
    BY <1>2, <1>3, <1>7, <1>8, <1>17
  <2>3. \A i \in Id : Alike(RowAfter(p, i), RowAfter(pend, i)')
    BY <1>16, AlikeIsReflexive
  <2> QED
    BY <1>2, <1>3, <1>4, <1>6, <1>12, <1>14, <1>19, <1>20, <1>21, <1>22, <2>1, <2>2, <2>3,
       HeldCarries
<1>24. DefInOrder' /\ def'.disk = def.disk
  <2>1. /\ def \in [disk : Nat, mem : Nat, db : Nat]
        /\ 1 <= def.disk /\ def.db <= def.disk
    BY <1>3 DEF DefInOrder
  <2>2. /\ def' \in [disk : Nat, mem : Nat, db : Nat]
        /\ def'.disk = def.disk /\ def'.mem = def.disk /\ def'.db = def.db
    BY <1>2, <2>1
  <2> QED
    BY <2>1, <2>2 DEF DefInOrder
<1>25. Quieted'
  <2>1. def.disk = 1 => ~EditedWhileDown
    BY <1>3 DEF EditedWhileDown, DefInOrder
  <2>2. def.disk = 1 => \A i \in Id : p.rows[i].state = "none"
    BY <1>10, <1>11, <2>1
  <2> QED
    BY <1>7, <1>24, <2>2 DEF Quieted
<1>26. EpisodeTyped(ep)' /\ (since \in Time /\ since <= now)' /\ pend'.matches = 0
  <2>1. ep' = e /\ since' = t /\ now' = t /\ t <= t
    BY <1>2, <1>4, <1>17
  <2>2. EpisodeTyped(ep)'
    BY <1>19, <2>1 DEF EpisodeTyped
  <2> QED
    BY <1>4, <1>7, <1>8, <2>1, <2>2
<1> QED
  BY <1>2, <1>3, <1>5, <1>6, <1>21, <1>23, <1>24, <1>25, <1>26 DEF BInv

LEMMA InitEvidence == Init => BInv
<1> SUFFICES ASSUME Init PROVE BInv
  OBVIOUS
<1>1. /\ now = 0 /\ phase = "down" /\ ep = NoEpisode /\ nextId = 0 /\ pend = NoPending
      /\ rows = [i \in Id |-> NoRow] /\ notes = [i \in Id |-> <<>>]
      /\ matched = [t \in Time |-> 0] /\ since = 0
      /\ def = [disk |-> 1, mem |-> 0, db |-> 0]
  BY DEF Init, GuardInit
<1>2. EInv
  BY InitEInv
<1>3. CountsInOrder
  BY <1>1 DEF CountsInOrder, Time
<1>4. NoRow \in RowType /\ NoRow.state = "none"
  BY DEF NoRow, RowType, Time
<1>5. RowsEvidenced /\ rows \in [Id -> RowType]
  BY <1>1, <1>4 DEF RowsEvidenced
<1>6. DefInOrder
  BY <1>1 DEF DefInOrder
<1>7. PendTyped(pend) /\ pend.matches = 0 /\ Quieted
  BY <1>1, NothingPending DEF Quieted
<1>8. EpisodeTyped(ep)
  BY <1>1 DEF EpisodeTyped, NoEpisode, NoCore, CoreType, Time
<1>9. notes \in [Id -> Seq(NoteType)] /\ since \in Time /\ since <= now
  <2>1. <<>> \in Seq(NoteType)
    OBVIOUS
  <2> QED
    BY <1>1, <2>1 DEF Time
<1> QED
  BY <1>1, <1>2, <1>3, <1>5, <1>6, <1>7, <1>8, <1>9 DEF BInv

LEMMA NextEvidence == BInv /\ [Next]_vars => BInv'
<1> SUFFICES ASSUME BInv, [Next]_vars PROVE BInv'
  OBVIOUS
<1>1. ASSUME NEW hits \in Drained, NEW others \in 0 .. MaxOthers, NEW scan \in BOOLEAN,
             Tick(hits, others, scan)
      PROVE  BInv'
  BY <1>1, TickKeepsEvidence
<1>2. CASE Commit
  BY <1>2, CommitKeepsEvidence
<1>3. CASE Restart
  BY <1>3, RestartKeepsEvidence
<1>4. ASSUME NEW k \in Id, Ack(k) PROVE BInv'
  BY <1>4, AckKeepsEvidence
<1>5. CASE Crash
  BY <1>5, CrashKeepsEvidence
<1>6. CASE EditDefinition \/ UNCHANGED vars
  BY <1>6, EditKeepsEvidence
<1> QED
  BY <1>1, <1>2, <1>3, <1>4, <1>5, <1>6 DEF Next

LEMMA MatchesSince ==
  ASSUME NEW a \in Int, NEW b
  PROVE  Matches(a + 1, b) = Upto(b) - Upto(a)
<1>1. a + 1 - 1 = a
  OBVIOUS
<1>2. Upto(a + 1 - 1) = Upto(a)
  BY <1>1 DEF Upto
<1>3. Matches(a + 1, b) = Upto(b) - Upto(a + 1 - 1)
  BY DEF Matches
<1> QED
  BY <1>2, <1>3

(* IN-08: an incident stands for enough committed matches before it opened, *)
(* and counts every one since (EpisodeIsEvidenced).                         *)
THEOREM EpisodesAreEvidenced == Spec => []EpisodeIsEvidenced
<1>1. BInv => EpisodeIsEvidenced
  <2> SUFFICES ASSUME BInv, NEW i \in Id, rows[i].state # "none"
               PROVE  LET end == IF rows[i].state = "cleared" THEN rows[i].cleared - 1
                                 ELSE now
                          burst == rows[i].occ - Matches(rows[i].opened + 1, end)
                      IN  /\ ConfirmCount <= burst
                          /\ burst <= Matches(rows[i].opened - ConfirmWindow,
                                              rows[i].opened)
    BY DEF EpisodeIsEvidenced
  <2> DEFINE r == rows[i]
             end == IF r.state = "cleared" THEN r.cleared - 1 ELSE now
  <2>1. /\ CountsInOrder /\ r \in RowType /\ Evidenced(r, now, 0)
    BY DEF BInv, RowsEvidenced
  <2> HIDE DEF r
  <2>2. /\ r.opened \in Nat /\ r.opened <= MaxNow /\ end \in Int /\ end <= MaxNow
        /\ now \in Nat /\ now <= MaxNow
    BY <2>1, UptoGrows DEF RowType, Time
  <2>3. /\ SeenBy(end, now, 0) = Upto(end) /\ SeenBy(r.opened, now, 0) = Upto(r.opened)
        /\ SeenBy(r.opened - ConfirmWindow - 1, now, 0)
             = Upto(r.opened - ConfirmWindow - 1)
    BY <2>1, <2>2, SeenUnmatched
  <2>4. LET burst == r.occ - (SeenBy(end, now, 0) - SeenBy(r.opened, now, 0))
        IN  /\ ConfirmCount <= burst
            /\ burst <= SeenBy(r.opened, now, 0)
                         - SeenBy(r.opened - ConfirmWindow - 1, now, 0)
    BY <2>1 DEF Evidenced
  <2> HIDE DEF end
  <2>6. Matches(r.opened + 1, end) = Upto(end) - Upto(r.opened)
    BY <2>2, MatchesSince
  <2>7. Matches(r.opened - ConfirmWindow, r.opened)
          = Upto(r.opened) - Upto(r.opened - ConfirmWindow - 1)
    BY DEF Matches
  <2>8. LET burst == r.occ - Matches(r.opened + 1, end)
        IN  /\ ConfirmCount <= burst
            /\ burst <= Matches(r.opened - ConfirmWindow, r.opened)
    BY <2>3, <2>4, <2>6, <2>7
  <2> QED
    BY <2>8 DEF r, end
<1> QED
  BY <1>1, InitEvidence, NextEvidence, PTL DEF Spec

(* IN-08: no burst that came since the last episode ended is missed         *)
(* (BurstOpens): all that matters of it waits, and too little waits.        *)
THEOREM BurstsAlwaysOpen == Spec => []BurstOpens
<1>1. BInv => BurstOpens
  <2> DEFINE x == IF since < now - ConfirmWindow THEN now - ConfirmWindow ELSE since
  <2> SUFFICES ASSUME BInv, phase = "idle", ~IsLive(ep)
               PROVE  Matches(x, now) < ConfirmCount
    BY DEF BurstOpens
  <2>1. /\ CountsInOrder /\ since \in Time /\ since <= now /\ EpisodeTyped(ep)
        /\ Works(Held, since, now, pend.matches) /\ pend.matches = 0
    BY DEF BInv
  <2>2. Complete(ep.pending, since, now, 0)
    BY <2>1 DEF Works, Held
  <2>3. since \in Nat /\ now \in Nat /\ now <= MaxNow
    BY <2>1, UptoGrows DEF Time
  <2>4. x \in since .. now /\ x >= now - ConfirmWindow /\ x - 1 \in Int /\ x - 1 <= MaxNow
    BY <2>1, <2>3
  <2> HIDE DEF x
  <2>5. SeenBy(now, now, 0) - SeenBy(x - 1, now, 0) <= Len(ep.pending)
    BY <2>2, <2>4 DEF Complete
  <2>6. SeenBy(now, now, 0) = Upto(now) /\ SeenBy(x - 1, now, 0) = Upto(x - 1)
        /\ Upto(now) \in Nat /\ Upto(x - 1) \in Nat
    BY <2>1, <2>3, <2>4, SeenUnmatched, UptoGrows
  <2>7. Matches(x, now) = Upto(now) - Upto(x - 1)
    BY DEF Matches
  <2>8. Len(ep.pending) \in Nat /\ Len(ep.pending) < ConfirmCount
    BY <2>1 DEF EpisodeTyped
  <2> QED
    BY <2>5, <2>6, <2>7, <2>8
<1> QED
  BY <1>1, InitEvidence, NextEvidence, PTL DEF Spec

(* IN-08: an episode that no edit ended was quiet for ClearAfter, also      *)
(* across a restart (ClearsInQuiet).                                        *)
THEOREM ClearsAlwaysInQuiet == Spec => ClearsInQuiet
<1> DEFINE Cleared(i) == phase = "buffered" /\ def.disk = 1 /\ rows'[i].state = "cleared"
                         /\ rows[i].state \in Live
<1>1. ASSUME BInv, [Next]_vars, NEW i \in Id, Cleared(i)
      PROVE  Matches(now - ClearAfter + 1, now) = 0
  <2>1. pend.rows[i].state = "cleared"
    <3>1. CASE Commit
      <4>1. rows'[i] = CASE pend.rows[i].state = "none" -> rows[i]
                 [] pend.rows[i].state # "none" /\ rows[i].state = "none" -> pend.rows[i]
                 [] OTHER -> [pend.rows[i] EXCEPT !.opened = rows[i].opened]
        BY <3>1 DEF Commit
      <4>2. rows[i].state # "none" /\ rows[i].state # "cleared"
        BY <1>1 DEF Live
      <4>3. pend.rows[i] \in RowType
        BY <1>1 DEF BInv, PendTyped
      <4>4. [pend.rows[i] EXCEPT !.opened = rows[i].opened].state = pend.rows[i].state
        BY <4>3 DEF RowType
      <4> QED
        BY <1>1, <4>1, <4>2, <4>4
    <3>2. ASSUME NEW k \in Id, Ack(k) PROVE FALSE
      <4>1. rows' = [rows EXCEPT ![k].state = "acked"] /\ rows \in [Id -> RowType]
        BY <1>1, <3>2 DEF Ack, BInv
      <4>2. rows[k] \in RowType /\ rows[i].state # "cleared"
        BY <1>1, <4>1 DEF Live
      <4>3. [rows[k] EXCEPT !.state = "acked"].state = "acked"
        BY <4>2 DEF RowType
      <4>4. rows'[i] = IF i = k THEN [rows[k] EXCEPT !.state = "acked"] ELSE rows[i]
        BY <4>1
      <4> QED
        BY <1>1, <4>2, <4>3, <4>4
    <3>3. ASSUME NEW hits \in Drained, NEW others \in 0 .. MaxOthers,
                 NEW scan \in BOOLEAN, Tick(hits, others, scan)
          PROVE  FALSE
      BY <1>1, <3>3 DEF Tick
    <3>4. CASE Restart
      BY <1>1, <3>4 DEF Restart
    <3>5. CASE Crash \/ EditDefinition \/ UNCHANGED vars
      BY <1>1, <3>5 DEF Crash, EditDefinition, vars, Live
    <3> QED
      BY <1>1, <3>1, <3>2, <3>3, <3>4, <3>5 DEF Next
  <2>2. Upto(now) = Upto(now - ClearAfter)
    BY <1>1, <2>1 DEF BInv, Quieted
  <2>3. now \in Nat /\ now <= MaxNow /\ Upto(now) \in Nat
    BY <1>1, UptoGrows DEF BInv
  <2>4. Matches(now - ClearAfter + 1, now) = Upto(now) - Upto(now - ClearAfter)
    BY <2>3, MatchesSince
  <2> QED
    BY <2>2, <2>3, <2>4
<1>2. BInv /\ [Next]_vars =>
        [\A i \in Id : Cleared(i) => Matches(now - ClearAfter + 1, now) = 0]_vars
  BY <1>1
<1> QED
  BY <1>2, InitEvidence, NextEvidence, PTL DEF Spec, ClearsInQuiet

(* Every variable keeps its shape (TypeOK).                                 *)
THEOREM TypeCorrect == Spec => []TypeOK
<1>1. BInv => TypeOK
  <2> SUFFICES ASSUME BInv PROVE TypeOK
    OBVIOUS
  <2>1. now \in Time /\ matched \in [Time -> Nat]
    BY DEF BInv, CountsInOrder
  <2>2. nextId \in 0 .. MaxId + 1
    BY DEF BInv, EInv
  <2>3. def \in [disk : Nat, mem : Nat, db : Nat]
    BY DEF BInv, DefInOrder
  <2>4. EpisodeTyped(ep) /\ PendTyped(pend)
    BY DEF BInv
  <2> QED
    BY <2>1, <2>2, <2>3, <2>4 DEF BInv, TypeOK, EpisodeTyped, PendTyped
<1> QED
  BY <1>1, InitEvidence, NextEvidence, PTL DEF Spec
=============================================================================
