---------------------------- MODULE Tables_proofs ----------------------------
(***************************************************************************)
(* The tables of incidents: who writes them and who reads them.            *)
(***************************************************************************)
EXTENDS TickStore, Ticks, Readers, FiniteSetTheorems, WellFoundedInduction, TLAPS

-----------------------------------------------------------------------------
(***************************************************************************)
(* History stays in order for any number of incidents, ticks, acks,        *)
(* action runs, dropped commits and crashes.                               *)
(*                                                                         *)
(* The numbers a tick chose form an interval lo+1..cache.  What other      *)
(* writers stored above lo since, they stored without a gap: the first of  *)
(* them took lo+1.  So either a buffered number is taken and the commit    *)
(* raises, or every stored number is at most lo.                           *)
(*                                                                         *)
(* And launches stay spaced: no launch is later than the reservation the   *)
(* limiter remembers, and a new reservation keeps its distance from it.    *)
(*                                                                         *)
(* The last part is about the schedule and the capacity of the rings, for  *)
(* all intervals and times.                                                *)
(***************************************************************************)

(* A nonempty set of bounded naturals has a greatest element.              *)
LEMMA Greatest ==
    ASSUME NEW S \in SUBSET Nat, NEW b \in Nat, \A y \in S : y <= b, S # {}
    PROVE  \E x \in S : \A y \in S : y <= x
<1> DEFINE U == {u \in Nat : \A y \in S : y <= u}
<1>1. U # {} /\ U \in SUBSET Nat
  OBVIOUS
<1>2. \E x \in U : \A y \in U : ~(<<y, x>> \in OpToRel(<, Nat))
  BY <1>1, WFMin, NatLessThanWellFounded
<1>3. PICK x \in U : \A y \in U : ~(<<y, x>> \in OpToRel(<, Nat))
  BY <1>2
<1>4. ASSUME NEW y \in U PROVE x <= y
  <2>1. ~(<<y, x>> \in {ss \in Nat \X Nat : ss[1] < ss[2]})
    BY <1>3 DEF OpToRel
  <2>2. <<y, x>> \in Nat \X Nat
    OBVIOUS
  <2> QED
    BY <2>1, <2>2
<1>5. x \in S
  <2>1. SUFFICES ASSUME x \notin S PROVE FALSE
    OBVIOUS
  <2>2. x > 0
    <3>1. PICK y \in S : TRUE
      OBVIOUS
    <3>2. y <= x /\ y # x /\ y \in Nat
      BY <2>1
    <3> QED
      BY <3>2
  <2>3. x - 1 \in U
    <3>1. ASSUME NEW y \in S PROVE y <= x - 1
      BY <2>1, <2>2
    <3> QED
      BY <3>1, <2>2
  <2> QED
    BY <1>4, <2>3
<1> QED
  BY <1>5

LEMMA HighestBounds ==
    ASSUME NEW n \in Nat, NEW S \in SUBSET (1..n)
    PROVE  /\ Highest(S) \in 0..n
           /\ \A y \in S : y <= Highest(S)
           /\ S # {} => Highest(S) \in S
<1>1. CASE S = {}
  BY <1>1 DEF Highest
<1>2. CASE S # {}
  <2>1. S \in SUBSET Nat /\ \A y \in S : y <= n
    OBVIOUS
  <2>2. \E x \in S : \A y \in S : y <= x
    BY <1>2, <2>1, Greatest
  <2>3. Highest(S) \in S /\ \A y \in S : y <= Highest(S)
    BY <1>2, <2>2 DEF Highest
  <2>4. Highest(S) \in 1..n
    BY <2>3
  <2> QED
    BY <2>3, <2>4
<1> QED
  BY <1>1, <1>2

(* Above lo the stored numbers have no gap. *)
NoGapAbove(lo, H) == \A s \in H : s > lo => (lo + 1)..s \subseteq H

(* MAX + 1 leaves no gap. *)
LEMMA AppendLeavesNoGap ==
    ASSUME NEW H \in SUBSET Seqs, NEW lo \in Nat, NoGapAbove(lo, H)
    PROVE  NoGapAbove(lo, H \cup {Highest(H) + 1})
<1>1. MaxSeq \in Nat
  BY StoreAssumption
<1>2. /\ Highest(H) \in Nat /\ \A y \in H : y <= Highest(H)
      /\ H # {} => Highest(H) \in H
      /\ H = {} => Highest(H) = 0
  <2>1. H \in SUBSET (1..MaxSeq)
    BY DEF Seqs
  <2>2. /\ Highest(H) \in 0..MaxSeq /\ \A y \in H : y <= Highest(H)
        /\ H # {} => Highest(H) \in H
    BY <1>1, <2>1, HighestBounds
  <2>3. H = {} => Highest(H) = 0
    BY DEF Highest
  <2> QED
    BY <1>1, <2>2, <2>3
<1> DEFINE m == Highest(H) + 1
<1>3. SUFFICES ASSUME NEW s \in H \cup {m}, s > lo, NEW t \in (lo + 1)..s
               PROVE  t \in H \cup {m}
  BY DEF NoGapAbove
<1>4. CASE s \in H
  BY <1>3, <1>4 DEF NoGapAbove
<1>5. CASE s = m
  <2>1. t \in Nat /\ t <= m /\ t > lo
    BY <1>2, <1>3, <1>5
  <2>2. CASE t = m
    BY <2>2
  <2>3. CASE t # m
    <3>1. t <= Highest(H) /\ t > 0
      BY <2>1, <2>3, <1>2
    <3>2. H # {} /\ Highest(H) \in H /\ Highest(H) > lo
      BY <3>1, <2>1, <1>2
    <3> QED
      BY <3>1, <3>2, <2>1, <1>2 DEF NoGapAbove
  <2> QED
    BY <2>2, <2>3
<1> QED
  BY <1>4, <1>5

(* The numbers the tick chose for an incident, against those stored.       *)
Chosen(lo, c, B, H) ==
    /\ lo <= c /\ B = (lo + 1)..c
    /\ NoGapAbove(lo, H)
Numbered(c, B, H) ==
    IF c = Unknown THEN B = {} ELSE \E lo \in Nat : Chosen(lo, c, B, H)

AllNumbered == \A i \in Incident : Numbered(cache[i], buf.hist[i], hist[i])

IInv == TypeOK /\ AllNumbered

LEMMA NumberedAfterAppend ==
    ASSUME NEW c, NEW B, NEW H \in SUBSET Seqs, Numbered(c, B, H)
    PROVE  Numbered(c, B, H \cup {Highest(H) + 1})
BY AppendLeavesNoGap DEF Numbered, Chosen

LEMMA NumberedWhenDropped ==
    ASSUME NEW c \in Seqs \cup {0, Unknown}, NEW B, NEW H \in SUBSET Seqs,
           Numbered(c, B, H)
    PROVE  Numbered(c, {}, H)
<1>1. CASE c = Unknown
  BY <1>1 DEF Numbered
<1>2. CASE c # Unknown
  <2>1. PICK lo \in Nat : Chosen(lo, c, B, H)
    BY <1>2 DEF Numbered
  <2>2. c \in Nat
    BY <1>2, StoreAssumption DEF Seqs
  <2>3. NoGapAbove(c, H)
    <3>1. ASSUME NEW s \in H, s > c, NEW t \in (c + 1)..s PROVE t \in H
      <4>1. s \in Nat /\ s > lo /\ t \in (lo + 1)..s
        BY <2>1, <2>2, <3>1, StoreAssumption DEF Seqs, Chosen
      <4> QED
        BY <4>1, <2>1 DEF Chosen, NoGapAbove
    <3> QED
      BY <3>1 DEF NoGapAbove
  <2>4. {} = (c + 1)..c
    BY <2>2
  <2>5. Chosen(c, c, {}, H)
    BY <2>2, <2>3, <2>4 DEF Chosen
  <2> QED
    BY <2>2, <2>5, <1>2 DEF Numbered
<1> QED
  BY <1>1, <1>2

(* With no number taken, everything stored is older than the buffer.       *)
LEMMA BufferIsNewer ==
    ASSUME NEW c \in Seqs \cup {0, Unknown}, NEW B, NEW H \in SUBSET Seqs,
           Numbered(c, B, H), B \cap H = {}, NEW new \in B, NEW old \in H
    PROVE  old < new
<1>1. c # Unknown
  BY DEF Numbered
<1>2. PICK lo \in Nat : Chosen(lo, c, B, H)
  BY <1>1 DEF Numbered
<1>3. c \in Nat /\ old \in Nat
  BY <1>1, StoreAssumption DEF Seqs
<1>4. new \in (lo + 1)..c
  BY <1>2 DEF Chosen
<1>5. lo + 1 \in B
  BY <1>2, <1>3, <1>4 DEF Chosen
<1>6. ~(old > lo)
  <2>1. SUFFICES ASSUME old > lo PROVE FALSE
    OBVIOUS
  <2>2. lo + 1 \in (lo + 1)..old
    BY <2>1, <1>3
  <2>3. lo + 1 \in H
    BY <2>1, <2>2, <1>2 DEF Chosen, NoGapAbove
  <2> QED
    BY <2>3, <1>5
<1> QED
  BY <1>3, <1>4, <1>6

LEMMA NumberedAfterCommit ==
    ASSUME NEW c \in Seqs \cup {0, Unknown}, NEW B \in SUBSET Seqs,
           NEW H \in SUBSET Seqs, Numbered(c, B, H)
    PROVE  Numbered(c, {}, H \cup B)
<1>1. CASE c = Unknown
  BY <1>1 DEF Numbered
<1>2. CASE c # Unknown
  <2>1. PICK lo \in Nat : Chosen(lo, c, B, H)
    BY <1>2 DEF Numbered
  <2>2. c \in Nat
    BY <1>2, StoreAssumption DEF Seqs
  <2>3. ASSUME NEW s \in H \cup B, s > c, NEW t \in (c + 1)..s
        PROVE  t \in H \cup B
    <3>1. s \notin B
      BY <2>1, <2>2, <2>3 DEF Chosen
    <3>2. s \in H /\ s \in Nat /\ s > lo /\ t \in (lo + 1)..s
      BY <2>1, <2>2, <2>3, <3>1, StoreAssumption DEF Seqs, Chosen
    <3> QED
      BY <3>2, <2>1 DEF Chosen, NoGapAbove
  <2>4. NoGapAbove(c, H \cup B)
    BY <2>3 DEF NoGapAbove
  <2>5. {} = (c + 1)..c
    BY <2>2
  <2>6. Chosen(c, c, {}, H \cup B)
    BY <2>2, <2>4, <2>5 DEF Chosen
  <2> QED
    BY <2>2, <2>6, <1>2 DEF Numbered
<1> QED
  BY <1>1, <1>2

(* The buffer grows by the next n numbers.                                 *)
LEMMA NumberedAfterTransition ==
    ASSUME NEW c \in Seqs \cup {0, Unknown}, NEW B \in SUBSET Seqs,
           NEW H \in SUBSET Seqs, Numbered(c, B, H), NEW n \in Nat,
           NEW last, last = IF c = Unknown THEN Highest(H) ELSE c
    PROVE  Numbered(last + n, B \cup ((last + 1)..(last + n)), H)
<1>1. last \in Nat
  BY HighestBounds, StoreAssumption DEF Seqs
<1>2. last + n # Unknown
  BY <1>1 DEF Unknown
<1>3. CASE c = Unknown
  <2>1. B = {}
    BY <1>3 DEF Numbered
  <2>2. \A y \in H : y <= last /\ y \in Nat
    BY <1>3, HighestBounds, StoreAssumption DEF Seqs
  <2>3. NoGapAbove(last, H)
    BY <2>2, <1>1 DEF NoGapAbove
  <2>4. Chosen(last, last + n, B \cup ((last + 1)..(last + n)), H)
    BY <1>1, <2>1, <2>3 DEF Chosen
  <2> QED
    BY <1>1, <1>2, <2>4 DEF Numbered
<1>4. CASE c # Unknown
  <2>1. PICK lo \in Nat : Chosen(lo, c, B, H)
    BY <1>4 DEF Numbered
  <2>2. last = c
    BY <1>4
  <2>3. B \cup ((last + 1)..(last + n)) = (lo + 1)..(last + n)
    BY <2>1, <2>2, <1>1 DEF Chosen
  <2>4. Chosen(lo, last + n, B \cup ((last + 1)..(last + n)), H)
    BY <2>1, <2>2, <2>3, <1>1 DEF Chosen
  <2> QED
    BY <1>2, <2>4 DEF Numbered
<1> QED
  BY <1>3, <1>4

LEMMA LastSeqType ==
    ASSUME TypeOK, NEW i \in Incident
    PROVE  LastSeq(i) \in Nat
BY HighestBounds, StoreAssumption, SMTT(30) DEF TypeOK, LastSeq, Seqs, Unknown

LEMMA NextNoteType ==
    ASSUME TypeOK
    PROVE  NextNoteId \in Nat /\ NextNoteId >= 1
<1>1. Highest(notes) \in Nat
  <2>1. notes \in SUBSET (1..MaxNote) /\ MaxNote \in Nat
    BY StoreAssumption DEF TypeOK, NoteIds
  <2>2. Highest(notes) \in 0..MaxNote
    BY <2>1, HighestBounds
  <2> QED
    BY <2>1, <2>2
<1> QED
  BY <1>1, StoreAssumption DEF TypeOK, NextNoteId, Unknown

LEMMA TransitionKeepsIInv ==
    ASSUME IInv, NEW i \in Incident, NEW state \in State, NEW n \in Nat,
           NEW notify \in BOOLEAN, Transition(i, state, n, notify),
           queue' \in Seq(Incident)
    PROVE  IInv'
<1> DEFINE last == LastSeq(i)
<1> DEFINE more == (last + 1)..(last + n)
<1>1. last \in Nat /\ last + n <= MaxSeq
  BY LastSeqType DEF IInv, Transition
<1>2. more \in SUBSET Seqs /\ last + n \in Seqs \cup {0, Unknown}
  BY <1>1, StoreAssumption DEF Seqs
<1>3. buf'.hist = [buf.hist EXCEPT ![i] = @ \cup more]
  BY DEF Transition
<1>4. cache' = [cache EXCEPT ![i] = last + n] /\ hist' = hist
  BY DEF Transition, stored
<1>5. NextNoteId \in Nat /\ NextNoteId >= 1
  BY NextNoteType DEF IInv
<1>6. TypeOK'
  <2>1. cache' \in [Incident -> Seqs \cup {0, Unknown}]
    BY <1>2, <1>4 DEF IInv, TypeOK
  <2>2. nextNote' \in (1..(MaxNote + 1)) \cup {Unknown}
    BY <1>5, StoreAssumption DEF IInv, TypeOK, Transition
  <2>3. buf'.hist \in [Incident -> SUBSET Seqs]
    BY <1>2, <1>3 DEF IInv, TypeOK, Buffer
  <2>4. buf'.notes \in SUBSET NoteIds
    BY <1>5, StoreAssumption DEF IInv, TypeOK, Transition, Buffer, NoteIds
  <2>5. buf'.rows \in [Incident -> State]
    BY DEF IInv, TypeOK, Transition, Buffer
  <2>6. buf' = [rows |-> buf'.rows, hist |-> buf'.hist, notes |-> buf'.notes]
    BY DEF Transition
  <2>7. buf' \in Buffer
    BY <2>3, <2>4, <2>5, <2>6 DEF Buffer
  <2>8. mem' \in [Incident -> State]
    BY DEF IInv, TypeOK, Transition
  <2>9. UNCHANGED <<phase, wall, run, rows, hist, notes, held, lastRun>>
    BY DEF Transition, stored
  <2> QED
    BY <2>1, <2>2, <2>7, <2>8, <2>9 DEF IInv, TypeOK
<1>7. AllNumbered'
  <2>1. ASSUME NEW j \in Incident
        PROVE  Numbered(cache'[j], buf'.hist[j], hist'[j])
    <3>1. Numbered(cache[j], buf.hist[j], hist[j])
      BY DEF IInv, AllNumbered
    <3>2. /\ cache[j] \in Seqs \cup {0, Unknown}
          /\ buf.hist[j] \in SUBSET Seqs /\ hist[j] \in SUBSET Seqs
      BY DEF IInv, TypeOK, Buffer
    <3>3. CASE j = i
      <4>1. last = IF cache[j] = Unknown THEN Highest(hist[j]) ELSE cache[j]
        BY <3>3 DEF LastSeq
      <4>2. Numbered(last + n, buf.hist[j] \cup more, hist[j])
        BY <3>1, <3>2, <4>1, NumberedAfterTransition
      <4>3. cache'[j] = last + n /\ buf'.hist[j] = buf.hist[j] \cup more
        BY <1>3, <1>4, <3>3 DEF IInv, TypeOK, Buffer
      <4> QED
        BY <4>2, <4>3, <1>4
    <3>4. CASE j # i
      BY <1>3, <1>4, <3>1, <3>4 DEF IInv, TypeOK, Buffer
    <3> QED
      BY <3>3, <3>4
  <2> QED
    BY <2>1 DEF AllNumbered
<1> QED
  BY <1>6, <1>7 DEF IInv

LEMMA EffectsKeepIInv ==
    ASSUME IInv, NEW i \in Incident, Effects(i)
    PROVE  IInv'
<1>1. queue \in Seq(Incident) /\ mem[i] \in State
  BY DEF IInv, TypeOK
<1>2. {"open", "cleared"} \subseteq State
  BY DEF State, Live
<1>3. CASE Open(i)
  <2>1. queue' \in Seq(Incident)
    BY <1>1, <1>3 DEF Open
  <2>2. Transition(i, "open", 2, TRUE)
    BY <1>3 DEF Open
  <2> QED
    BY <2>1, <2>2, <1>2, TransitionKeepsIInv
<1>4. CASE Escalate(i)
  BY <1>1, <1>2, <1>4, TransitionKeepsIInv DEF Escalate
<1>5. CASE Downgrade(i)
  BY <1>1, <1>2, <1>5, TransitionKeepsIInv DEF Downgrade
<1>6. CASE Renotify(i)
  BY <1>1, <1>2, <1>6, TransitionKeepsIInv DEF Renotify
<1>7. CASE Clear(i)
  <2>1. PICK notify \in BOOLEAN :
          Transition(i, "cleared", IF notify THEN 2 ELSE 1, notify)
    BY <1>7 DEF Clear
  <2>2. (IF notify THEN 2 ELSE 1) \in Nat /\ queue' \in Seq(Incident)
    BY <1>1, <1>7 DEF Clear
  <2> QED
    BY <2>1, <2>2, <1>2, TransitionKeepsIInv
<1> QED
  BY <1>3, <1>4, <1>5, <1>6, <1>7 DEF Effects

(* An ack and the action runner append MAX + 1, and nothing else moves.    *)
LEMMA AppendKeepsNumbering ==
    ASSUME IInv, NEW i \in Incident, Highest(hist[i]) < MaxSeq,
           hist' = [hist EXCEPT ![i] = @ \cup {Highest(hist[i]) + 1}],
           UNCHANGED <<cache, buf>>
    PROVE  hist' \in [Incident -> SUBSET Seqs] /\ AllNumbered'
<1>1. hist[i] \in SUBSET (1..MaxSeq) /\ MaxSeq \in Nat
  BY StoreAssumption DEF IInv, TypeOK, Seqs
<1>2. Highest(hist[i]) + 1 \in Seqs
  BY <1>1, HighestBounds DEF Seqs
<1>3. ASSUME NEW j \in Incident
      PROVE  Numbered(cache'[j], buf'.hist[j], hist'[j])
  <2>1. Numbered(cache[j], buf.hist[j], hist[j]) /\ hist[j] \in SUBSET Seqs
    BY DEF IInv, AllNumbered, TypeOK
  <2>2. CASE j = i
    BY <2>1, <2>2, NumberedAfterAppend DEF IInv, TypeOK
  <2>3. CASE j # i
    BY <2>1, <2>3 DEF IInv, TypeOK
  <2> QED
    BY <2>2, <2>3
<1> QED
  BY <1>2, <1>3 DEF IInv, TypeOK, AllNumbered

LEMMA EmptyBufferType == EmptyBuffer \in Buffer
BY DEF EmptyBuffer, Buffer, State

LEMMA StoppedKeepsIInv ==
    ASSUME IInv, Stopped, UNCHANGED <<wall, stored>>
    PROVE  IInv'
<1>1. TypeOK'
  BY EmptyBufferType DEF IInv, TypeOK, Stopped, stored, State, Unknown
<1>2. AllNumbered'
  BY DEF AllNumbered, Numbered, Stopped, EmptyBuffer
<1> QED
  BY <1>1, <1>2 DEF IInv

LEMMA CommitKeepsIInv ==
    ASSUME IInv, CommitSucceeds
    PROVE  IInv'
<1>1. TypeOK'
  <2>1. rows' \in [Incident -> State]
    BY DEF IInv, TypeOK, CommitSucceeds, Buffer
  <2>2. hist' \in [Incident -> SUBSET Seqs]
    BY DEF IInv, TypeOK, CommitSucceeds, Buffer
  <2>3. notes' \in SUBSET NoteIds /\ held' \in SUBSET notes'
    BY DEF IInv, TypeOK, CommitSucceeds, Buffer
  <2> QED
    BY <2>1, <2>2, <2>3, EmptyBufferType DEF IInv, TypeOK, CommitSucceeds
<1>2. ASSUME NEW i \in Incident
      PROVE  Numbered(cache'[i], buf'.hist[i], hist'[i])
  <2>1. Numbered(cache[i], buf.hist[i], hist[i])
    BY DEF IInv, AllNumbered
  <2>2. /\ cache[i] \in Seqs \cup {0, Unknown}
        /\ buf.hist[i] \in SUBSET Seqs /\ hist[i] \in SUBSET Seqs
    BY DEF IInv, TypeOK, Buffer
  <2>3. Numbered(cache[i], {}, hist[i] \cup buf.hist[i])
    BY <2>1, <2>2, NumberedAfterCommit
  <2> QED
    BY <2>3 DEF CommitSucceeds, EmptyBuffer
<1> QED
  BY <1>1, <1>2 DEF IInv, AllNumbered

LEMMA DropKeepsIInv ==
    ASSUME IInv, CommitLocked
    PROVE  IInv'
<1>1. TypeOK'
  BY EmptyBufferType DEF IInv, TypeOK, CommitLocked, stored
<1>2. ASSUME NEW i \in Incident
      PROVE  Numbered(cache'[i], buf'.hist[i], hist'[i])
  <2>1. Numbered(cache[i], {}, hist[i])
    BY NumberedWhenDropped DEF IInv, AllNumbered, TypeOK
  <2> QED
    BY <2>1 DEF CommitLocked, EmptyBuffer, stored
<1> QED
  BY <1>1, <1>2 DEF IInv, AllNumbered

(* Steps that leave the numbers and the buffers alone.                     *)
LEMMA OtherStepsKeepIInv ==
    ASSUME IInv, UNCHANGED <<cache, buf, hist, nextNote, notes, held, rows>>,
           phase' \in {"idle", "buffering", "acting", "down"},
           wall' \in Time, run' \in {"none", "reserved", "finished"},
           mem' \in [Incident -> State], queue' \in Seq(Incident),
           lastRun' \in Time \cup {0}
    PROVE  IInv'
BY DEF IInv, TypeOK, AllNumbered

LEMMA InitHolds == Init => IInv
<1> SUFFICES ASSUME Init PROVE IInv
  OBVIOUS
<1>1. TypeOK
  BY EmptyBufferType DEF Init, TypeOK, State
<1>2. AllNumbered
  BY DEF Init, AllNumbered, Numbered, EmptyBuffer
<1> QED
  BY <1>1, <1>2 DEF IInv

LEMMA AcksKeepIInv ==
    ASSUME IInv, NEW i \in Incident, Ack(i)
    PROVE  IInv'
<1>1. hist' \in [Incident -> SUBSET Seqs] /\ AllNumbered'
  BY AppendKeepsNumbering DEF Ack
<1>2. TypeOK'
  BY <1>1 DEF Ack, IInv, TypeOK, State, Live
<1> QED
  BY <1>1, <1>2 DEF IInv

LEMMA RecordsKeepIInv ==
    ASSUME IInv, ActionLimited \/ ActionRecorded
    PROVE  IInv'
<1>1. PICK i \in Incident : i = Head(queue)
  BY DEF ActionLimited, ActionRecorded, Acting, IInv, TypeOK
<1>2. /\ Highest(hist[i]) < MaxSeq
      /\ hist' = [hist EXCEPT ![i] = @ \cup {Highest(hist[i]) + 1}]
      /\ UNCHANGED <<cache, buf, phase, wall, mem, nextNote, rows, notes, held,
                     lastRun>>
      /\ run' = "none"
  BY <1>1 DEF ActionLimited, ActionRecorded, Record
<1>5. queue' \in Seq(Incident)
  <2>1. queue \in Seq(Incident) /\ queue # <<>> /\ queue' = Tail(queue)
    BY DEF ActionLimited, ActionRecorded, Acting, Record, IInv, TypeOK
  <2> QED
    BY <2>1
<1>3. hist' \in [Incident -> SUBSET Seqs] /\ AllNumbered'
  BY <1>2, AppendKeepsNumbering
<1>4. TypeOK'
  BY <1>2, <1>3, <1>5 DEF IInv, TypeOK
<1> QED
  BY <1>3, <1>4 DEF IInv

LEMMA DigestKeepsIInv ==
    ASSUME IInv, Digest
    PROVE  IInv'
<1>1. Highest(notes) + 1 \in NoteIds
  BY HighestBounds, StoreAssumption DEF Digest, IInv, TypeOK, NoteIds
<1> QED
  BY <1>1 DEF Digest, IInv, TypeOK, AllNumbered

LEMMA NextKeepsIInv == IInv /\ [Next]_vars => IInv'
<1> SUFFICES ASSUME IInv, [Next]_vars PROVE IInv'
  OBVIOUS
<1>1. CASE BeginTick
  <2>1. mem' \in [Incident -> State]
    BY <1>1 DEF BeginTick, AcksSeen, IInv, TypeOK, State, Live
  <2> QED
    BY <1>1, <2>1, OtherStepsKeepIInv DEF BeginTick, IInv, TypeOK, stored
<1>2. CASE \E i \in Incident : Effects(i)
  BY <1>2, EffectsKeepIInv
<1>3. CASE CommitSucceeds
  BY <1>3, CommitKeepsIInv
<1>4. CASE CommitLocked
  BY <1>4, DropKeepsIInv
<1>5. CASE CommitRaises \/ Crash \/ ActionLocked
  BY <1>5, StoppedKeepsIInv DEF CommitRaises, Crash, ActionLocked
<1>6. CASE Restart
  <2>1. mem' \in [Incident -> State]
    BY <1>6 DEF Restart, IInv, TypeOK, State
  <2> QED
    BY <1>6, <2>1, OtherStepsKeepIInv DEF Restart, IInv, TypeOK, stored
<1>7. CASE ActionLimited \/ ActionRecorded
  BY <1>7, RecordsKeepIInv
<1>8. CASE ActionReserves
  BY <1>8, OtherStepsKeepIInv DEF ActionReserves, IInv, TypeOK
<1>9. CASE ActionLaunches
  BY <1>9, OtherStepsKeepIInv DEF ActionLaunches, IInv, TypeOK, stored
<1>10. CASE EndTick
  BY <1>10, OtherStepsKeepIInv DEF EndTick, IInv, TypeOK, stored
<1>11. CASE \E i \in Incident : Ack(i)
  BY <1>11, AcksKeepIInv
<1>12. CASE Digest
  BY <1>12, DigestKeepsIInv
<1>13. CASE UNCHANGED vars
  BY <1>13, OtherStepsKeepIInv DEF vars, IInv, TypeOK, stored
<1> QED
  BY <1>1, <1>2, <1>3, <1>4, <1>5, <1>6, <1>7, <1>8, <1>9, <1>10, <1>11,
     <1>12, <1>13 DEF Next

THEOREM IInvHolds == Spec => []IInv
<1>1. IInv /\ [Next]_vars => IInv'
  BY NextKeepsIInv
<1> QED
  BY InitHolds, <1>1, PTL DEF Spec

(* Types of the buffers, the tables and the caches, for every bound.       *)
THEOREM TypeCorrect == Spec => []TypeOK
<1>1. IInv => TypeOK
  BY DEF IInv
<1> QED
  BY IInvHolds, <1>1, PTL

(* What one step adds to a history.                                        *)
InOrderStep ==
    \A i \in Incident : \A new \in hist'[i] \ hist[i], old \in hist[i] :
      old < new

LEMMA AppendInOrder ==
    ASSUME IInv, NEW i \in Incident,
           hist' = [hist EXCEPT ![i] = @ \cup {Highest(hist[i]) + 1}]
    PROVE  InOrderStep
<1>1. \A y \in hist[i] : y <= Highest(hist[i]) /\ y \in Nat
  BY HighestBounds, StoreAssumption DEF IInv, TypeOK, Seqs
<1>2. Highest(hist[i]) \in Nat
  BY HighestBounds, StoreAssumption, SMTT(30) DEF IInv, TypeOK, Seqs
<1> QED
  BY <1>1, <1>2 DEF InOrderStep, IInv, TypeOK

LEMMA StepsInOrder == IInv /\ [Next]_vars => InOrderStep
<1> SUFFICES ASSUME IInv, [Next]_vars PROVE InOrderStep
  OBVIOUS
<1>1. CASE CommitSucceeds
  <2>1. ASSUME NEW i \in Incident, NEW new \in hist'[i] \ hist[i],
               NEW old \in hist[i]
        PROVE  old < new
    <3>1. new \in buf.hist[i] /\ buf.hist[i] \cap hist[i] = {}
      BY <1>1, <2>1 DEF CommitSucceeds, BreaksHistoryKey
    <3>2. /\ Numbered(cache[i], buf.hist[i], hist[i])
          /\ cache[i] \in Seqs \cup {0, Unknown} /\ hist[i] \in SUBSET Seqs
      BY DEF IInv, AllNumbered, TypeOK
    <3> QED
      BY <3>1, <3>2, BufferIsNewer
  <2> QED
    BY <2>1 DEF InOrderStep
<1>2. CASE \E i \in Incident : Ack(i)
  BY <1>2, AppendInOrder DEF Ack
<1>3. CASE ActionLimited \/ ActionRecorded
  <2>1. Head(queue) \in Incident
    BY <1>3 DEF ActionLimited, ActionRecorded, Acting, IInv, TypeOK
  <2> QED
    BY <1>3, <2>1, AppendInOrder DEF ActionLimited, ActionRecorded, Record
<1>4. CASE hist' = hist
  BY <1>4 DEF InOrderStep
<1>5. hist' = hist \/ CommitSucceeds \/ (\E i \in Incident : Ack(i))
        \/ ActionLimited \/ ActionRecorded
  BY DEF Next, vars, stored, BeginTick, Effects, Open, Escalate, Downgrade,
         Renotify, Clear, Transition, CommitLocked, CommitRaises, Crash,
         ActionLocked, Restart, ActionReserves, ActionLaunches, EndTick, Digest
<1> QED
  BY <1>1, <1>2, <1>3, <1>4, <1>5

(* DM-12: whoever adds to an incident's history adds after all of it.      *)
THEOREM HistoryStaysInOrder == Spec => HistoryInOrder
<1>1. IInv /\ [Next]_vars => [InOrderStep]_vars
  BY StepsInOrder
<1> QED
  BY IInvHolds, <1>1, PTL DEF Spec, HistoryInOrder, InOrderStep

(* The last launch is no later than the reservation, which outlives the    *)
(* process; and from a reservation to its launch the tick, whose clock was *)
(* far enough from all launches before, goes on.                           *)
Launch == [inc : Incident, ts : Time]
Reserved ==
    run = "reserved" =>
        /\ phase = "acting" /\ queue # <<>> /\ lastRun = wall
        /\ launches # <<>> =>
              launches[Len(launches)].ts + RateLimit <= wall
LInv ==
    /\ launches \in Seq(Launch) /\ ActionsSpaced /\ Reserved
    /\ launches # <<>> => launches[Len(launches)].ts <= lastRun

LEMMA InitSpaced == Init => LInv
BY DEF Init, LInv, Reserved, ActionsSpaced

(* Whatever keeps the launches, the reservation and the step of the runner,*)
(* or ends the step.                                                       *)
LEMMA OtherStepsKeepLInv ==
    ASSUME LInv, UNCHANGED <<launches, lastRun>>,
           run' = "reserved" => run = "reserved" /\ UNCHANGED <<phase, queue, wall>>
    PROVE  LInv'
BY DEF LInv, Reserved, ActionsSpaced

LEMMA LastIsLaunch ==
    ASSUME LInv, launches # <<>>
    PROVE  launches[Len(launches)] \in Launch
<1>1. launches \in Seq(Launch)
  BY DEF LInv
<1>2. Len(launches) \in 1..Len(launches)
  BY <1>1
<1> QED
  BY <1>1, <1>2

LEMMA ReservesKeepsLInv ==
    ASSUME TypeOK, LInv, ActionReserves
    PROVE  LInv'
<1>1. UNCHANGED <<launches, phase, queue, wall>> /\ lastRun' = wall
  BY DEF ActionReserves
<1>2. phase = "acting" /\ queue # <<>> /\ ~RateLimited
  BY DEF ActionReserves, Acting
<1>3. RateLimit \in Nat \ {0} /\ Time \subseteq Nat \ {0} /\ wall \in Time
      /\ lastRun \in Time \cup {0}
  BY StoreAssumption DEF TypeOK
<1>4. ASSUME launches # <<>>
      PROVE  launches[Len(launches)].ts + RateLimit <= wall
             /\ launches[Len(launches)].ts <= wall
  <2> DEFINE ts == launches[Len(launches)].ts
  <2>1. launches[Len(launches)] \in Launch
    BY <1>4, LastIsLaunch
  <2>2. ts \in Nat \ {0}
    BY <2>1, <1>3 DEF Launch
  <2>3. ts <= lastRun
    BY <1>4 DEF LInv
  <2> HIDE DEF ts
  <2>4. wall \in Nat /\ lastRun \in Nat
    BY <1>3
  <2>5. wall - lastRun >= RateLimit
    BY <1>2, <1>3, <2>2, <2>3, <2>4 DEF RateLimited
  <2>6. ts + RateLimit <= wall /\ ts <= wall
    BY <1>3, <2>2, <2>3, <2>4, <2>5
  <2> QED
    BY <2>6 DEF ts
<1> QED
  BY <1>1, <1>2, <1>4 DEF LInv, Reserved, ActionsSpaced

LEMMA LaunchesKeepsLInv ==
    ASSUME TypeOK, LInv, ActionLaunches
    PROVE  LInv'
<1>1. run' = "finished" /\ UNCHANGED <<lastRun, wall>>
  BY DEF ActionLaunches, stored
<1>2. run = "reserved" /\ queue # <<>>
  BY DEF ActionLaunches, Acting
<1>3. lastRun = wall
      /\ (launches # <<>> => launches[Len(launches)].ts + RateLimit <= wall)
  BY <1>2 DEF LInv, Reserved
<1> DEFINE new == [inc |-> Head(queue), ts |-> wall]
<1>4. new \in Launch
  BY <1>2 DEF TypeOK, Launch
<1>5. launches \in Seq(Launch) /\ ActionsSpaced
  BY DEF LInv
<1>6. CASE launches' = launches
  BY <1>1, <1>6, OtherStepsKeepLInv
<1>7. CASE launches' = Append(launches, new)
  <2>1. launches' \in Seq(Launch) /\ launches' # <<>>
        /\ Len(launches') = Len(launches) + 1
    BY <1>4, <1>5, <1>7
  <2>2. launches'[Len(launches')] = new
    BY <1>4, <1>5, <1>7
  <2>3. launches'[Len(launches')].ts <= lastRun'
    <3>1. wall <= wall
      BY StoreAssumption DEF TypeOK
    <3> QED
      BY <2>2, <1>1, <1>3, <3>1
  <2>4. ASSUME NEW k \in 2..Len(launches')
        PROVE  launches'[k].ts - launches'[k - 1].ts >= RateLimit
    <3>0. Len(launches) \in Nat /\ k \in 2..(Len(launches) + 1)
      BY <1>5, <2>1
    <3>1. CASE k \in 2..Len(launches)
      <4>1. k - 1 \in 1..Len(launches) /\ k \in 1..Len(launches)
        BY <3>0, <3>1
      <4>2. launches'[k] = launches[k] /\ launches'[k - 1] = launches[k - 1]
        BY <4>1, <1>5, <1>7, <1>4
      <4> QED
        BY <3>1, <4>2, <1>5 DEF ActionsSpaced
    <3>2. CASE k = Len(launches) + 1
      <4>1. launches # <<>> /\ k - 1 = Len(launches) /\ k - 1 \in 1..Len(launches)
        BY <3>0, <3>2
      <4>2. launches'[k - 1] = launches[Len(launches)] /\ launches'[k] = new
        BY <3>2, <4>1, <1>5, <1>7, <1>4
      <4> DEFINE ts == launches[Len(launches)].ts
      <4>3. ts \in Nat /\ wall \in Nat /\ RateLimit \in Nat
        BY <4>1, LastIsLaunch, StoreAssumption DEF Launch, TypeOK
      <4>5. ts + RateLimit <= wall
        BY <4>1, <1>3
      <4> HIDE DEF ts
      <4>6. wall - ts >= RateLimit
        BY <4>3, <4>5
      <4>4. wall - launches[Len(launches)].ts >= RateLimit
        BY <4>6 DEF ts
      <4> QED
        BY <4>2, <4>4
    <3> QED
      BY <3>0, <3>1, <3>2
  <2> QED
    BY <2>1, <2>3, <2>4, <1>1 DEF LInv, Reserved, ActionsSpaced
<1> QED
  BY <1>6, <1>7 DEF ActionLaunches

LEMMA NextKeepsLInv == TypeOK /\ LInv /\ [Next]_vars => LInv'
<1> SUFFICES ASSUME TypeOK, LInv, [Next]_vars PROVE LInv'
  OBVIOUS
<1>1. CASE ActionReserves
  BY <1>1, ReservesKeepsLInv
<1>2. CASE ActionLaunches
  BY <1>2, LaunchesKeepsLInv
<1>3. CASE BeginTick \/ (\E i \in Incident : Effects(i)) \/ CommitSucceeds
           \/ CommitLocked \/ Restart \/ EndTick
  <2>1. UNCHANGED <<launches, lastRun, run>>
    BY <1>3 DEF BeginTick, Effects, Open, Escalate, Downgrade, Renotify, Clear,
                Transition, CommitSucceeds, CommitLocked, Restart, EndTick, stored
  <2>2. phase # "acting" \/ queue = <<>>
    BY <1>3 DEF BeginTick, Effects, Open, Escalate, Downgrade, Renotify, Clear,
                Transition, CommitSucceeds, CommitLocked, Restart, EndTick
  <2>3. run # "reserved"
    BY <2>2 DEF LInv, Reserved
  <2> QED
    BY <2>1, <2>3, OtherStepsKeepLInv
<1>4. CASE CommitRaises \/ Crash \/ ActionLocked \/ ActionLimited
           \/ ActionRecorded
  <2>1. UNCHANGED <<launches, lastRun>> /\ run' = "none"
    BY <1>4 DEF CommitRaises, Crash, ActionLocked, Stopped, ActionLimited,
                ActionRecorded, Record, stored
  <2> QED
    BY <2>1, OtherStepsKeepLInv
<1>5. CASE (\E i \in Incident : Ack(i)) \/ Digest \/ UNCHANGED vars
  <2>1. UNCHANGED <<launches, lastRun, run, phase, queue, wall>>
    BY <1>5 DEF Ack, Digest, vars, stored
  <2> QED
    BY <2>1, OtherStepsKeepLInv
<1> QED
  BY <1>1, <1>2, <1>3, <1>4, <1>5 DEF Next

(* AC-02: launches of an action keep its rate limit apart, for any limit,  *)
(* any clock that jumps and any sequence of crashes and lost commits.      *)
THEOREM LaunchesStaySpaced == Spec => []ActionsSpaced
<1>1. TypeOK /\ LInv /\ [Next]_vars => LInv'
  BY NextKeepsLInv
<1>2. LInv => ActionsSpaced
  BY DEF LInv
<1> QED
  BY InitSpaced, TypeCorrect, <1>1, <1>2, PTL DEF Spec
-----------------------------------------------------------------------------
(* The schedule and the rings (Ticks).                                     *)

\* The rounded down quotient: it fits into the dividend, one more does not.
LEMMA DivFits ==
  ASSUME NEW a \in Int, NEW b \in Nat \ {0}
  PROVE  /\ a \div b \in Int
         /\ (a \div b) * b <= a
         /\ a < (a \div b) * b + b
<1>1. a = b * (a \div b) + (a % b) /\ a % b \in 0..(b - 1) /\ a \div b \in Int
  BY SMTT(30)
<1> QED BY <1>1, SMTT(30)

\* Multiples of a positive number are ordered as their factors.
LEMMA FactorsInOrder ==
  ASSUME NEW x \in Int, NEW y \in Int, NEW b \in Nat \ {0}, x * b < y * b
  PROVE  x < y
<1>1. SUFFICES ASSUME x >= y PROVE x * b >= y * b
  BY SMTT(30)
<1>2. x - y \in Nat /\ (x - y) * b >= 0
  BY <1>1, SMTT(30)
<1>3. x * b = y * b + (x - y) * b
  BY SMTT(30)
<1> QED BY <1>2, <1>3, SMTT(30)

\* A monitor that is due is due again after now and within one interval, a
\* whole number of intervals after its last slot: however long the daemon
\* slept, it runs once, keeps its grid and never bursts to catch up
\* (scheduler.py DueTable.due).
THEOREM DueOnceOnGrid ==
  ASSUME NEW next \in Int, NEW clock \in Int, NEW interval \in Nat \ {0}, IsDue(next, clock)
  PROVE  /\ Advanced(next, clock, interval) > clock
         /\ Advanced(next, clock, interval) <= clock + interval
         /\ Overruns(next, clock, interval) \in Nat
<1> DEFINE q == (clock - next) \div interval
<1>1. clock - next \in Nat
  BY DEF IsDue
<1>2. q \in Int /\ q * interval <= clock - next /\ clock - next < q * interval + interval
  BY DivFits, <1>1
<1>3. q \in Nat
  <2>1. 0 * interval < (q + 1) * interval
    BY <1>1, <1>2, SMTT(30)
  <2>2. 0 < q + 1
    BY <2>1, <1>2, FactorsInOrder
  <2> QED BY <2>2, <1>2
<1>4. Advanced(next, clock, interval) = next + q * interval + interval
  BY <1>2, SMTT(30) DEF Advanced, Overruns
<1>5. Overruns(next, clock, interval) = q
  BY DEF Overruns
<1>6. q * interval \in Int
  BY <1>2
<1> HIDE DEF q
<1> QED BY <1>1, <1>2, <1>3, <1>4, <1>5, <1>6

\* The capacity covers the window it was computed for.
LEMMA CeilingCovers ==
  ASSUME NEW w \in Nat, NEW interval \in Nat \ {0}
  PROVE  Ceiling(w, interval) \in Int /\ w <= Ceiling(w, interval) * interval
<1> DEFINE c == (w + interval - 1) \div interval
<1>1. w + interval - 1 \in Int /\ Ceiling(w, interval) = c
  BY DEF Ceiling
<1>2. c \in Int /\ w + interval - 1 < c * interval + interval
  BY <1>1, DivFits
<1>3. c * interval \in Int
  BY <1>2
<1> HIDE DEF c
<1> QED BY <1>1, <1>2, <1>3

\* A ring holds all of its window.  Two points that were taken in the slots j
\* and k of a monitor's schedule, each at any time before the next slot began,
\* and that lie no further apart than the window, are counted by the capacity
\* together with all the slots between them (rings.py RingStore.configure).
THEOREM CapacitySuffices ==
  ASSUME NEW w \in Nat, NEW interval \in Nat \ {0}, NEW j \in Int, NEW k \in Int,
         NEW first \in Int, NEW taken \in Int, NEW clock \in Int,
         taken < first + j * interval + interval,
         clock >= first + k * interval,
         clock - taken <= w
  PROVE  k - j + 1 <= Capacity(w, interval)
<1> DEFINE c == Ceiling(w, interval)
<1>1. c \in Int /\ w <= c * interval
  BY CeilingCovers
<1>2. (k - j) * interval = k * interval - j * interval
  BY SMTT(30)
<1>3. (c + 1) * interval = c * interval + interval
  BY <1>1, SMTT(30)
<1>4. k * interval \in Int /\ j * interval \in Int /\ c * interval \in Int
  BY <1>1
<1>5. (k - j) * interval < (c + 1) * interval
  <2> HIDE DEF c
  <2> QED BY <1>1, <1>2, <1>3, <1>4
<1>6. k - j < c + 1
  <2> HIDE DEF c
  <2>1. k - j \in Int /\ c + 1 \in Int
    BY <1>1
  <2> QED BY <2>1, <1>5, FactorsInOrder
<1> QED BY <1>1, <1>6 DEF Capacity
-----------------------------------------------------------------------------
(***************************************************************************)
(* Two readers of the tables, for any tables and any writes between their  *)
(* statements: the pages of list_baselines, and the dashboard.             *)
(***************************************************************************)

LEMMA LeastIn ==
    ASSUME NEW S \in SUBSET Nat, S # {}
    PROVE  Min(S) \in S /\ \A y \in S : Min(S) <= y
<1>1. \E x \in S : \A y \in S : ~(<<y, x>> \in OpToRel(<, Nat))
  BY WFMin, NatLessThanWellFounded
<1>2. PICK x \in S : \A y \in S : ~(<<y, x>> \in OpToRel(<, Nat))
  BY <1>1
<1>3. ASSUME NEW y \in S PROVE x <= y
  <2>1. ~(<<y, x>> \in {ss \in Nat \X Nat : ss[1] < ss[2]})
    BY <1>2 DEF OpToRel
  <2>2. <<y, x>> \in Nat \X Nat
    OBVIOUS
  <2> QED
    BY <2>1, <2>2
<1> QED
  BY <1>3 DEF Min

LEMMA GreatestIn ==
    ASSUME NEW S \in SUBSET Nat, NEW b \in Nat, \A y \in S : y <= b, S # {}
    PROVE  Max(S) \in S /\ \A y \in S : y <= Max(S)
<1> DEFINE U == {u \in Nat : \A y \in S : y <= u}
<1>1. U # {} /\ U \in SUBSET Nat
  OBVIOUS
<1>2. PICK x \in U : \A u \in U : x <= u
  BY <1>1, LeastIn
<1>3. x \in S
  <2>1. SUFFICES ASSUME x \notin S PROVE FALSE
    OBVIOUS
  <2>2. PICK y \in S : TRUE
    OBVIOUS
  <2>3. x > 0 /\ x - 1 \in Nat
    BY <2>1, <2>2
  <2>4. ASSUME NEW z \in S PROVE z <= x - 1
    BY <2>1, <2>3
  <2>5. x - 1 \in U
    BY <2>3, <2>4
  <2> QED
    BY <1>2, <2>3, <2>5
<1>4. \A y \in S : x >= y
  BY <1>3
<1> QED
  BY <1>3, <1>4 DEF Max
-----------------------------------------------------------------------------
(***************************************************************************)
(* What the pages of list_baselines list.                                  *)
(*                                                                         *)
(* Between two pages the keys listed so far are in order and none is above *)
(* the cursor; a baseline that has passed the filter all the while is      *)
(* among them or still above the cursor.                                   *)
(***************************************************************************)
\* Records that their keys tell apart, and how many come before one.
Keyed(R) ==
    /\ IsFiniteSet(R) /\ \A r \in R : r.key \in Nat
    /\ \A r, q \in R : r.key = q.key => r = q
Below(R, r) == {q \in R : q.key < r.key}
Rank(R, r)  == Cardinality(Below(R, r))

LEMMA RankIsNat ==
  ASSUME NEW R, Keyed(R), NEW r \in R
  PROVE  /\ IsFiniteSet(Below(R, r)) /\ Rank(R, r) \in Nat
         /\ Cardinality(R) \in Nat /\ Rank(R, r) < Cardinality(R)
<1>1. IsFiniteSet(R) /\ Below(R, r) \subseteq R
  BY DEF Keyed, Below
<1>2. IsFiniteSet(Below(R, r)) /\ Cardinality(R) \in Nat /\ Rank(R, r) \in Nat
  BY <1>1, FS_Subset, FS_CardinalityType DEF Rank
<1>3. r \notin Below(R, r)
  BY DEF Below, Keyed
<1>4. Below(R, r) # R
  BY <1>3
<1>5. Rank(R, r) < Cardinality(R)
  BY <1>1, <1>2, <1>4, FS_Subset DEF Rank
<1> QED
  BY <1>2, <1>5

\* One more comes before the record after.
LEMMA RankGrows ==
  ASSUME NEW R, Keyed(R), NEW r \in R, NEW q \in R, r.key < q.key
  PROVE  Rank(R, r) + 1 <= Rank(R, q)
<1>1. Below(R, r) \cup {r} \subseteq Below(R, q)
  BY DEF Keyed, Below
<1>2. r \notin Below(R, r)
  BY DEF Below, Keyed
<1>3. IsFiniteSet(Below(R, r)) /\ IsFiniteSet(Below(R, q))
      /\ Rank(R, r) \in Nat /\ Rank(R, q) \in Nat
  BY RankIsNat
<1>4. Cardinality(Below(R, r) \cup {r}) = Rank(R, r) + 1
  BY <1>2, <1>3, FS_AddElement DEF Rank
<1>5. Cardinality(Below(R, r) \cup {r}) <= Rank(R, q)
  BY <1>1, <1>3, FS_Subset DEF Rank
<1> QED
  BY <1>3, <1>4, <1>5

LEMMA RankOrders ==
  ASSUME NEW R, Keyed(R), NEW r \in R, NEW q \in R
  PROVE  /\ Rank(R, r) < Rank(R, q) => r.key < q.key
         /\ Rank(R, r) = Rank(R, q) => r = q
<1>1. r.key \in Nat /\ q.key \in Nat /\ (r.key = q.key => r = q)
  BY DEF Keyed
<1>2. Rank(R, r) \in Nat /\ Rank(R, q) \in Nat
  BY RankIsNat
<1>3. r.key < q.key => Rank(R, r) + 1 <= Rank(R, q)
  BY RankGrows
<1>4. q.key < r.key => Rank(R, q) + 1 <= Rank(R, r)
  BY RankGrows
<1>5. r.key < q.key \/ q.key < r.key \/ r = q
  BY <1>1
<1> QED
  BY <1>1, <1>2, <1>3, <1>4, <1>5

\* Of some of the records, the one with the most before it.
LEMMA LastOfSome ==
  ASSUME NEW R, Keyed(R), NEW S, S \subseteq R, S # {}
  PROVE  \E p \in S : \A q \in S : q.key <= p.key
<1> DEFINE ranks == {Rank(R, q) : q \in S}
<1>1. Cardinality(R) \in Nat
  BY RankIsNat
<1>2. ranks \in SUBSET Nat /\ ranks # {} /\ \A y \in ranks : y <= Cardinality(R)
  <2>1. \A q \in S : Rank(R, q) \in Nat /\ Rank(R, q) < Cardinality(R)
    BY RankIsNat
  <2> QED
    BY <1>1, <2>1
<1>3. PICK p \in S : Rank(R, p) = Max(ranks)
  <2>1. Max(ranks) \in ranks
    BY <1>1, <1>2, GreatestIn, Zenon
  <2> QED
    BY <2>1
<1>4. \A q \in S : Rank(R, q) <= Rank(R, p)
  <2>1. \A y \in ranks : y <= Max(ranks)
    BY <1>1, <1>2, GreatestIn, Zenon
  <2> QED
    BY <1>3, <2>1
<1>5. ASSUME NEW q \in S PROVE q.key <= p.key
  <2>1. q.key \in Nat /\ p.key \in Nat /\ q \in R /\ p \in R
    BY <1>3, <1>5 DEF Keyed
  <2>2. Rank(R, q) \in Nat /\ Rank(R, p) \in Nat
    BY <2>1, RankIsNat
  <2>3. p.key < q.key => Rank(R, p) + 1 <= Rank(R, q)
    BY <2>1, RankGrows
  <2>4. Rank(R, q) <= Rank(R, p)
    BY <1>4, <1>5
  <2> QED
    BY <2>1, <2>2, <2>3, <2>4
<1> QED
  BY <1>3, <1>5

\* There is a record in every place.
LEMMA RankTaken ==
  ASSUME NEW R, Keyed(R), NEW i \in 1..Cardinality(R)
  PROVE  \E r \in R : Rank(R, r) = i - 1
<1>1. IsFiniteSet(R) /\ Cardinality(R) \in Nat
  BY FS_CardinalityType DEF Keyed
<1>2. R # {}
  BY <1>1, FS_EmptySet
<1> DEFINE from == {r \in R : Rank(R, r) >= i - 1}
           keys == {r.key : r \in from}
<1>3. from # {}
  <2>1. PICK p \in R : \A q \in R : q.key <= p.key
    BY <1>2, LastOfSome
  <2>2. Below(R, p) = R \ {p}
    BY <2>1 DEF Below, Keyed
  <2>3. Rank(R, p) = Cardinality(R) - 1
    BY <1>1, <2>1, <2>2, FS_RemoveElement DEF Rank
  <2> QED
    BY <1>1, <2>1, <2>3
<1>4. keys \in SUBSET Nat /\ keys # {}
  BY <1>3 DEF Keyed
<1>5. PICK r \in from : r.key = Min(keys)
  <2>1. Min(keys) \in keys
    BY <1>4, LeastIn, Zenon
  <2> QED
    BY <2>1
<1>6. \A q \in from : r.key <= q.key
  <2>1. \A y \in keys : Min(keys) <= y
    BY <1>4, LeastIn, Zenon
  <2> QED
    BY <1>5, <2>1
<1>7. r \in R /\ Rank(R, r) \in Nat /\ Rank(R, r) >= i - 1
  BY <1>5, RankIsNat
<1>8. SUFFICES ASSUME Rank(R, r) > i - 1 PROVE FALSE
  BY <1>1, <1>7
<1>9. Below(R, r) # {}
  BY <1>7, <1>8, <1>1, FS_EmptySet DEF Rank
<1>10. PICK p \in Below(R, r) : \A q \in Below(R, r) : q.key <= p.key
  <2>1. Below(R, r) \subseteq R
    BY DEF Below
  <2> QED
    BY <1>9, <2>1, LastOfSome, Zenon
<1>11. p \in R /\ p.key < r.key
  BY <1>10 DEF Below
<1>12. Below(R, r) = Below(R, p) \cup {p} /\ p \notin Below(R, p)
  BY <1>7, <1>10, <1>11 DEF Below, Keyed
<1>13. IsFiniteSet(Below(R, p)) /\ Rank(R, p) \in Nat
  BY <1>11, RankIsNat
<1>14. Rank(R, r) = Rank(R, p) + 1
  BY <1>12, <1>13, FS_AddElement DEF Rank
<1>15. p \in from
  BY <1>1, <1>7, <1>8, <1>11, <1>13, <1>14
<1>16. r.key <= p.key /\ r.key \in Nat /\ p.key \in Nat
  BY <1>6, <1>7, <1>11, <1>15 DEF Keyed
<1> QED
  BY <1>11, <1>16

\* ORDER BY: all the records, each once, in the order of their keys.
LEMMA ByKeySorts ==
  ASSUME NEW R, Keyed(R)
  PROVE  /\ ByKey(R) \in Seq(R) /\ Len(ByKey(R)) = Cardinality(R)
         /\ Cardinality(R) \in Nat
         /\ \A i, j \in 1..Cardinality(R) :
              i < j => ByKey(R)[i].key < ByKey(R)[j].key
         /\ \A r \in R : \E i \in 1..Cardinality(R) : ByKey(R)[i] = r
<1> DEFINE n == Cardinality(R)
           s == [i \in 1..n |-> CHOOSE r \in R : Rank(R, r) = i - 1]
<1>1. ByKey(R) = s
  BY DEF ByKey, Rank, Below
<1>2. n \in Nat
  BY FS_CardinalityType DEF Keyed
<1>3. \A i \in 1..n : s[i] \in R /\ Rank(R, s[i]) = i - 1
  BY RankTaken
<1> HIDE DEF n
<1>4. s \in Seq(R) /\ Len(s) = n
  <2>1. s \in [1..n -> R]
    BY <1>3
  <2> QED
    BY <1>2, <2>1
<1>5. ASSUME NEW i \in 1..n, NEW j \in 1..n, i < j PROVE s[i].key < s[j].key
  <2>1. Rank(R, s[i]) < Rank(R, s[j])
    BY <1>2, <1>3, <1>5
  <2> QED
    BY <1>3, <2>1, RankOrders
<1>6. ASSUME NEW r \in R PROVE \E i \in 1..n : s[i] = r
  <2>1. Rank(R, r) \in Nat /\ Rank(R, r) < n
    BY RankIsNat DEF n
  <2>2. Rank(R, r) + 1 \in 1..n
    BY <1>2, <2>1
  <2>3. Rank(R, s[Rank(R, r) + 1]) = Rank(R, r) /\ s[Rank(R, r) + 1] \in R
    BY <1>3, <2>1, <2>2
  <2> QED
    BY <2>2, <2>3, RankOrders
<1> QED
  BY <1>1, <1>2, <1>4, <1>5, <1>6 DEF n

\* The rows of a page, and the keys that are listed after a key.
Listed(d, ready, after) ==
    {s \in d.series : s.key > after /\
        \E b \in d.base : b.sid = s.id /\ Passes(b, ready)}

LEMMA ListedKeyed ==
  ASSUME TablesMakeSense, NEW d, d.series \subseteq Catalog, NEW ready,
         NEW after
  PROVE  Keyed(Listed(d, ready, after))
<1>1. IsFiniteSet(Catalog)
  BY DEF TablesMakeSense
<1>2. Listed(d, ready, after) \subseteq Catalog
  BY DEF Listed
<1>3. IsFiniteSet(Listed(d, ready, after))
  BY <1>1, <1>2, FS_Subset
<1> QED
  BY <1>2, <1>3 DEF Keyed, TablesMakeSense

\* A page lists the rows after the cursor in order, up to the next cursor, or
\* to the end when there is none.
LEMMA PageLists ==
  ASSUME TablesMakeSense, NEW d, d.series \subseteq Catalog, NEW ready,
         NEW after \in Nat, NEW keys, NEW next,
         keys = BaselinePage(d, ready, after, PageSize).keys,
         next = BaselinePage(d, ready, after, PageSize).next
  PROVE  /\ keys \in Seq(Nat) /\ next \in Nat /\ (next # 0 => next > after)
         /\ \A i, j \in 1..Len(keys) : i < j => keys[i] < keys[j]
         /\ \A i \in 1..Len(keys) :
              keys[i] > after /\ (next # 0 => keys[i] <= next)
         /\ \A s \in Listed(d, ready, after) :
              \/ next # 0 /\ s.key > next
              \/ \E i \in 1..Len(keys) : keys[i] = s.key
<1> DEFINE R == Listed(d, ready, after)
           sorted == ByKey(R)
           n == Cardinality(R)
           m == Least(Len(sorted), PageSize)
<1>1. Keyed(R)
  BY ListedKeyed
<1>2. /\ sorted \in Seq(R) /\ Len(sorted) = n /\ n \in Nat
      /\ \A i, j \in 1..n : i < j => sorted[i].key < sorted[j].key
      /\ \A r \in R : \E i \in 1..n : sorted[i] = r
  BY <1>1, ByKeySorts, Zenon
<1>3. \A r \in R : r.key \in Nat /\ r.key > after /\ r.key > 0
  BY DEF Listed, TablesMakeSense
<1>4. PageSize \in Nat /\ PageSize > 0
  BY DEF TablesMakeSense
<1>5. /\ keys = [i \in 1..m |-> sorted[i].key]
      /\ next = IF Len(sorted) > PageSize THEN sorted[PageSize].key ELSE 0
  BY DEF BaselinePage, Listed
<1>6. m \in Nat /\ m <= n /\ m <= PageSize /\ (n <= PageSize => m = n)
      /\ (n > PageSize => m = PageSize)
  BY <1>2, <1>4 DEF Least
<1> HIDE DEF m, n, sorted, R
<1>7. \A i \in 1..n : sorted[i] \in R /\ sorted[i].key \in Nat /\ sorted[i].key > after
                      /\ sorted[i].key > 0
  BY <1>2, <1>3
<1>8. /\ keys \in Seq(Nat) /\ Len(keys) = m
      /\ \A i \in 1..m : i \in 1..n /\ keys[i] = sorted[i].key
  <2>1. \A i \in 1..m : i \in 1..n
    BY <1>2, <1>6
  <2>2. keys \in [1..m -> Nat]
    BY <1>5, <1>7, <2>1
  <2> QED
    BY <1>5, <1>6, <2>1, <2>2
<1>9. \A i, j \in 1..Len(keys) : i < j => keys[i] < keys[j]
  BY <1>2, <1>8
<1>10. CASE n > PageSize
  <2>1. next = sorted[PageSize].key /\ PageSize \in 1..n /\ m = PageSize
    BY <1>2, <1>4, <1>5, <1>6, <1>10
  <2>2. next \in Nat /\ next # 0 /\ next > after
    BY <1>7, <2>1
  <2>3. ASSUME NEW i \in 1..Len(keys) PROVE keys[i] > after /\ keys[i] <= next
    <3>1. i \in 1..n /\ keys[i] = sorted[i].key /\ i <= PageSize
      BY <1>4, <1>8, <2>1, <2>3
    <3>2. i < PageSize => sorted[i].key < sorted[PageSize].key
      BY <1>2, <2>1, <3>1
    <3>3. i = PageSize => sorted[i].key = sorted[PageSize].key
      OBVIOUS
    <3> QED
      BY <1>4, <1>7, <2>1, <3>1, <3>2, <3>3
  <2>4. ASSUME NEW s \in R
        PROVE  s.key > next \/ \E i \in 1..Len(keys) : keys[i] = s.key
    <3>1. PICK i \in 1..n : sorted[i] = s
      BY <1>2
    <3>2. CASE i <= PageSize
      <4>1. i \in 1..m
        BY <2>1, <3>2
      <4> QED
        BY <1>8, <3>1, <4>1
    <3>3. CASE i > PageSize
      <4>1. sorted[PageSize].key < sorted[i].key
        BY <1>2, <2>1, <3>3
      <4> QED
        BY <1>7, <2>1, <3>1, <4>1
    <3> QED
      BY <1>2, <1>4, <3>2, <3>3
  <2> QED
    BY <1>8, <1>9, <2>2, <2>3, <2>4 DEF R
<1>11. CASE n <= PageSize
  <2>1. next = 0 /\ m = n
    BY <1>2, <1>4, <1>5, <1>6, <1>11
  <2>2. \A i \in 1..Len(keys) : keys[i] > after
    BY <1>7, <1>8
  <2>3. ASSUME NEW s \in R PROVE \E i \in 1..Len(keys) : keys[i] = s.key
    <3>1. PICK i \in 1..n : sorted[i] = s
      BY <1>2
    <3> QED
      BY <1>8, <2>1, <3>1
  <2> QED
    BY <1>8, <1>9, <2>1, <2>2, <2>3 DEF R
<1>12. n > PageSize \/ n <= PageSize
  BY <1>2, <1>4
<1> QED
  BY <1>10, <1>11, <1>12, Zenon

\* The call is a record, whatever is asked.
CallFields == {"tool", "stage", "view", "tier", "start", "scope", "filtered",
               "left", "got", "total", "truncated", "reason", "ready", "after",
               "keys", "lasting", "chart"}
CallShape ==
    /\ DOMAIN call = CallFields
    /\ call.stage = "page" => call.tool = "baselines"
    /\ call.stage \in {"tier", "discover", "filter", "fetch"} => call.tool = "metrics"

\* The keys listed so far, and what is still to come.
PagesSoFar(d, c) ==
    /\ c.keys \in Seq(Nat) /\ c.after \in Nat
    /\ \A i, j \in 1..Len(c.keys) : i < j => c.keys[i] < c.keys[j]
    /\ \A i \in 1..Len(c.keys) : c.keys[i] <= c.after
    /\ \A k \in c.lasting :
         /\ Qualifies(d, k, c.ready)
         /\ k > c.after \/ \E i \in 1..Len(c.keys) : c.keys[i] = k

PagesIInv ==
    /\ "series" \in DOMAIN db /\ db.series \subseteq Catalog
    /\ CallShape /\ PagesListOnce
    /\ call.stage = "page" => PagesSoFar(db, call)

\* A commit forgets what no longer passes the filter.
LEMMA PagesWritten ==
  ASSUME NEW d, PagesIInv, "series" \in DOMAIN d, d.series \subseteq Catalog,
         Written(d)
  PROVE  PagesIInv'
<1> DEFINE lasting == {k \in call.lasting : Qualifies(d, k, call.ready)}
<1>1. /\ db' = d /\ call' = [call EXCEPT !.lasting = lasting]
      /\ call.stage # "done"
  BY DEF Written, MayWrite
<1>2. \A k \in lasting : k \in call.lasting /\ Qualifies(d, k, call.ready)
  OBVIOUS
<1> HIDE DEF lasting
<1>3. /\ DOMAIN call' = CallFields
      /\ call'.stage = call.stage /\ call'.tool = call.tool
      /\ call'.keys = call.keys /\ call'.after = call.after
      /\ call'.ready = call.ready /\ call'.lasting = lasting
  BY <1>1 DEF PagesIInv, CallShape, CallFields
<1>4. CallShape' /\ PagesListOnce'
  BY <1>1, <1>3 DEF PagesIInv, CallShape, PagesListOnce
<1>5. ASSUME call.stage = "page" PROVE PagesSoFar(d, call')
  BY <1>2, <1>3, <1>5 DEF PagesIInv, PagesSoFar
<1>6. (call.stage = "page" => PagesSoFar(db, call))'
  BY <1>1, <1>3, <1>5
<1> QED
  BY <1>1, <1>4, <1>6 DEF PagesIInv

LEMMA PagesKeepWrites ==
  ASSUME TablesMakeSense, PagesIInv, Write
  PROVE  PagesIInv'
<1>1. "series" \in DOMAIN db /\ db.series \subseteq Catalog
  BY DEF PagesIInv
<1>2. ASSUME Reconfigure PROVE PagesIInv'
  <2>1. db' = db /\ call' = call
    BY <1>2 DEF Reconfigure
  <2> QED
    BY <2>1, Zenon DEF PagesIInv, CallShape, PagesListOnce
<1>3. ASSUME ~Reconfigure
      PROVE  \E d : "series" \in DOMAIN d /\ d.series \subseteq Catalog
                    /\ Written(d)
  <2>1. CASE RollUp
    BY <1>1, <2>1 DEF RollUp
  <2>2. CASE Prune
    BY <1>1, <2>2 DEF Prune
  <2>3. CASE Reap
    BY <1>1, <2>3 DEF Reap
  <2>4. CASE Reset \/ Retag
    BY <1>1, <2>4 DEF Reset, Retag
  <2> QED
    BY <1>3, <2>1, <2>2, <2>3, <2>4 DEF Write
<1> QED
  BY <1>2, <1>3, PagesWritten

\* The other tools do not page.
LEMMA OthersDoNotPage ==
  ASSUME PagesIInv, UNCHANGED unread, DOMAIN call' = CallFields,
         call'.tool # "baselines", call'.stage # "page",
         call'.stage \in {"tier", "discover", "filter", "fetch"} =>
            call'.tool = "metrics"
  PROVE  PagesIInv'
BY DEF PagesIInv, CallShape, PagesListOnce, unread

LEMMA PagesKeepMetrics ==
  ASSUME PagesIInv, QueryMetrics
  PROVE  PagesIInv'
<1>1. DOMAIN call = CallFields /\ UNCHANGED unread
  BY DEF PagesIInv, CallShape, QueryMetrics, AskMetrics,
         ResolveTier, Discover, Filter, Truncate,
         Fetch, Answered
<1>2. CASE AskMetrics
  <2>1. DOMAIN Idle = CallFields
    BY DEF Idle, CallFields
  <2>2. DOMAIN call' = CallFields /\ call'.tool = "metrics" /\ call'.stage = "tier"
    BY <1>2, <2>1 DEF AskMetrics, CallFields
  <2> QED
    BY <1>1, <2>2, OthersDoNotPage
<1>3. CASE ~AskMetrics
  <2>1. call.tool = "metrics"
    BY <1>3 DEF PagesIInv, CallShape, QueryMetrics, ResolveTier,
                Discover, Filter, Truncate, Fetch,
                Answered
  <2>2. ASSUME NEW tier, NEW view, call' = [call EXCEPT !.stage = "discover",
                                              !.view = view, !.tier = tier]
        PROVE  DOMAIN call' = CallFields /\ call'.tool = "metrics"
               /\ call'.stage = "discover"
    BY <1>1, <2>1, <2>2 DEF CallFields
  <2>3. ASSUME NEW left, call' = [call EXCEPT !.stage = "filter", !.left = left]
        PROVE  DOMAIN call' = CallFields /\ call'.tool = "metrics"
               /\ call'.stage = "filter"
    BY <1>1, <2>1, <2>3 DEF CallFields
  <2>4. ASSUME NEW left, NEW reason,
               \/ call' = [call EXCEPT !.stage = "done", !.left = left,
                                       !.reason = reason]
               \/ call' = [call EXCEPT !.stage = "fetch", !.left = left]
        PROVE  DOMAIN call' = CallFields /\ call'.tool = "metrics"
               /\ call'.stage \in {"done", "fetch"}
    BY <1>1, <2>1, <2>4 DEF CallFields
  <2>5. ASSUME NEW got, NEW total, NEW left,
               \/ call' = [call EXCEPT !.got = got, !.total = total, !.left = left]
               \/ call' = [call EXCEPT !.stage = "done", !.truncated = TRUE,
                                       !.left = left]
               \/ call' = [call EXCEPT !.stage = "done"]
        PROVE  DOMAIN call' = CallFields /\ call'.tool = "metrics"
               /\ call'.stage \in {"done", call.stage}
    BY <1>1, <2>1, <2>5 DEF CallFields
  <2>6. CASE ResolveTier
    <3>1. DOMAIN call' = CallFields /\ call'.tool = "metrics"
          /\ call'.stage = "discover"
      BY <2>2, <2>6 DEF ResolveTier
    <3> QED
      BY <1>1, <3>1, OthersDoNotPage
  <2>7. CASE Discover
    <3>1. DOMAIN call' = CallFields /\ call'.tool = "metrics"
          /\ call'.stage = "filter"
      BY <2>3, <2>7 DEF Discover
    <3> QED
      BY <1>1, <3>1, OthersDoNotPage
  <2>8. CASE Filter
    <3>1. PICK matched, declared : call' =
              IF matched = <<>>
              THEN [call EXCEPT !.stage = "done", !.left = <<>>,
                                !.reason = EmptyReason(call.left, declared)]
              ELSE [call EXCEPT !.stage = "fetch", !.left = matched]
      BY <2>8, Zenon DEF Filter
    <3>2. DOMAIN call' = CallFields /\ call'.tool = "metrics"
          /\ call'.stage \in {"done", "fetch"}
      BY <2>4, <3>1
    <3> QED
      BY <1>1, <3>2, OthersDoNotPage
  <2>9. CASE Truncate \/ Fetch \/ Answered
    <3>1. call.stage = "fetch"
      BY <2>9 DEF Truncate, Fetch, Answered
    <3>2. Truncate => 
            call' = [call EXCEPT !.stage = "done", !.truncated = TRUE, !.left = <<>>]
      BY DEF Truncate
    <3>3. Fetch => \E got, total, left :
              \/ call' = [call EXCEPT !.got = got, !.total = total, !.left = left]
              \/ call' = [call EXCEPT !.stage = "done", !.truncated = TRUE,
                                      !.left = left]
      <4> SUFFICES ASSUME Fetch
                   PROVE  \E got, total, left :
                      \/ call' = [call EXCEPT !.got = got, !.total = total,
                                              !.left = left]
                      \/ call' = [call EXCEPT !.stage = "done", !.truncated = TRUE,
                                              !.left = left]
        OBVIOUS
      <4>1. PICK points : call' =
               IF Fits(Len(points))
               THEN [call EXCEPT
                      !.got = Append(@, [key |-> Head(call.left).key,
                                         points |-> points]),
                      !.total = @ + Len(points), !.left = Tail(@)]
               ELSE [call EXCEPT !.stage = "done", !.truncated = TRUE,
                                 !.left = <<>>]
        BY Zenon DEF Fetch
      <4> QED
        BY <4>1, Zenon
    <3>4. Answered => call' = [call EXCEPT !.stage = "done"]
      BY DEF Answered
    <3>5. DOMAIN call' = CallFields /\ call'.tool = "metrics"
          /\ call'.stage \in {"done", "fetch"}
      <4>1. \E got, total, left :
              \/ call' = [call EXCEPT !.got = got, !.total = total, !.left = left]
              \/ call' = [call EXCEPT !.stage = "done", !.truncated = TRUE,
                                      !.left = left]
              \/ call' = [call EXCEPT !.stage = "done"]
        BY <2>9, <3>2, <3>3, <3>4, Zenon
      <4> QED
        BY <2>5, <3>1, <4>1
    <3> QED
      BY <1>1, <3>5, OthersDoNotPage
  <2> QED
    BY <1>3, <2>6, <2>7, <2>8, <2>9 DEF QueryMetrics
<1> QED
  BY <1>2, <1>3

LEMMA PagesBegin ==
  ASSUME TablesMakeSense, PagesIInv, AskBaselines
  PROVE  PagesIInv'
<1>1. PICK ready \in {"any", "yes", "no"} :
        call' = [Idle EXCEPT !.tool = "baselines", !.stage = "page",
                   !.ready = ready,
                   !.lasting = {s.key : s \in {q \in Catalog :
                                  Qualifies(db, q.key, ready)}}]
  BY DEF AskBaselines
<1> DEFINE lasting == {s.key : s \in {q \in Catalog :
                         Qualifies(db, q.key, ready)}}
<1>2. \A k \in lasting : Qualifies(db, k, ready) /\ k \in Nat /\ k > 0
  BY DEF TablesMakeSense
<1>3. DOMAIN Idle = CallFields /\ Idle.keys = <<>>
      /\ Idle.after = 0
  BY DEF Idle, CallFields
<1>4. call' = [Idle EXCEPT !.tool = "baselines", !.stage = "page",
                 !.ready = ready, !.lasting = lasting]
  BY <1>1
<1> HIDE DEF lasting
<1>5. /\ DOMAIN call' = CallFields /\ call'.stage = "page"
      /\ call'.tool = "baselines" /\ call'.keys = <<>> /\ call'.after = 0
      /\ call'.ready = ready /\ call'.lasting = lasting
  BY <1>3, <1>4 DEF CallFields
<1>6. db' = db
  BY DEF AskBaselines, unread
<1>7. PagesSoFar(db, call')
  BY <1>2, <1>5 DEF PagesSoFar
<1>8. CallShape' /\ PagesListOnce'
  BY <1>5 DEF CallShape, PagesListOnce
<1> QED
  BY <1>6, <1>7, <1>8 DEF PagesIInv

\* What still passes and is above the cursor is a row of the next page, or is
\* above the next cursor.
LEMMA PagesGoOn ==
  ASSUME TablesMakeSense, PagesIInv, NextPage
  PROVE  PagesIInv'
<1> DEFINE keys == BaselinePage(db, call.ready, call.after,
                                       PageSize).keys
           next == BaselinePage(db, call.ready, call.after,
                                       PageSize).next
           stage == IF next = 0 THEN "done" ELSE "page"
           all == call.keys \o keys
<1>1. /\ db.series \subseteq Catalog /\ PagesSoFar(db, call)
      /\ DOMAIN call = CallFields /\ call.tool = "baselines"
      /\ call.stage = "page"
  BY DEF PagesIInv, CallShape, NextPage
<1>2. call' = [call EXCEPT !.keys = all, !.after = next, !.stage = stage]
  BY DEF NextPage
<1>3. db' = db
  BY DEF NextPage, unread
<1>4. /\ keys \in Seq(Nat) /\ next \in Nat /\ (next # 0 => next > call.after)
      /\ \A i, j \in 1..Len(keys) : i < j => keys[i] < keys[j]
      /\ \A i \in 1..Len(keys) :
           keys[i] > call.after /\ (next # 0 => keys[i] <= next)
      /\ \A s \in Listed(db, call.ready, call.after) :
           \/ next # 0 /\ s.key > next
           \/ \E i \in 1..Len(keys) : keys[i] = s.key
  <2>1. call.after \in Nat
    BY <1>1 DEF PagesSoFar
  <2> QED
    BY <1>1, <2>1, PageLists
<1> HIDE DEF keys, next
<1>5. /\ call.keys \in Seq(Nat) /\ call.after \in Nat
      /\ \A i, j \in 1..Len(call.keys) : i < j => call.keys[i] < call.keys[j]
      /\ \A i \in 1..Len(call.keys) : call.keys[i] <= call.after
      /\ \A k \in call.lasting :
           /\ Qualifies(db, k, call.ready)
           /\ k > call.after \/ \E i \in 1..Len(call.keys) : call.keys[i] = k
  BY <1>1, Zenon DEF PagesSoFar
<1>6. /\ all \in Seq(Nat) /\ Len(all) = Len(call.keys) + Len(keys)
      /\ Len(call.keys) \in Nat /\ Len(keys) \in Nat
  BY <1>4, <1>5
<1>e. \A i \in 1..Len(all) : all[i] \in Nat
  BY <1>6
<1>l. \A i \in 1..Len(all) : i <= Len(call.keys) =>
         i \in 1..Len(call.keys) /\ all[i] = call.keys[i]
  BY <1>4, <1>5
<1>r. \A i \in 1..Len(all) : ~(i <= Len(call.keys)) =>
         i - Len(call.keys) \in 1..Len(keys) /\ all[i] = keys[i - Len(call.keys)]
  BY <1>4, <1>5
<1>7. /\ \A i \in 1..Len(call.keys) : i \in 1..Len(all) /\ all[i] = call.keys[i]
      /\ \A i \in 1..Len(keys) :
           i + Len(call.keys) \in 1..Len(all) /\ all[i + Len(call.keys)] = keys[i]
  <2> HIDE DEF all
  <2>2. ASSUME NEW i \in 1..Len(call.keys)
        PROVE  i \in 1..Len(all) /\ all[i] = call.keys[i]
    <3>1. i \in 1..Len(all) /\ i <= Len(call.keys)
      BY <1>6
    <3> QED
      BY <1>l, <3>1
  <2>3. ASSUME NEW i \in 1..Len(keys)
        PROVE  i + Len(call.keys) \in 1..Len(all) /\ all[i + Len(call.keys)] = keys[i]
    <3>1. i + Len(call.keys) \in 1..Len(all) /\ ~(i + Len(call.keys) <= Len(call.keys))
      BY <1>6
    <3>2. (i + Len(call.keys)) - Len(call.keys) = i
      BY <1>6
    <3> QED
      BY <1>r, <3>1, <3>2
  <2> QED
    BY <2>2, <2>3
<1> HIDE DEF all
<1>8. \A i, j \in 1..Len(all) : i < j => all[i] < all[j]
  <2> SUFFICES ASSUME NEW i \in 1..Len(all), NEW j \in 1..Len(all), i < j
               PROVE  all[i] < all[j]
    OBVIOUS
  <2>1. CASE j <= Len(call.keys)
    <3>1. i <= Len(call.keys)
      BY <1>6, <2>1
    <3>2. /\ i \in 1..Len(call.keys) /\ all[i] = call.keys[i]
          /\ j \in 1..Len(call.keys) /\ all[j] = call.keys[j]
      BY <1>l, <2>1, <3>1
    <3> QED
      BY <1>5, <3>2
  <2>2. CASE i <= Len(call.keys) /\ ~(j <= Len(call.keys))
    <3>1. i \in 1..Len(call.keys) /\ all[i] = call.keys[i]
      BY <1>l, <2>2
    <3>2. j - Len(call.keys) \in 1..Len(keys) /\ all[j] = keys[j - Len(call.keys)]
      BY <1>r, <2>2
    <3>3. all[i] <= call.after /\ all[j] > call.after
      BY <1>4, <1>5, <3>1, <3>2
    <3>4. all[i] \in Nat /\ all[j] \in Nat
      BY <1>e
    <3> QED
      BY <1>5, <3>3, <3>4
  <2>3. CASE ~(i <= Len(call.keys))
    <3>1. i - Len(call.keys) \in 1..Len(keys) /\ all[i] = keys[i - Len(call.keys)]
      BY <1>r, <2>3
    <3>2. j - Len(call.keys) \in 1..Len(keys) /\ all[j] = keys[j - Len(call.keys)]
      <4>1. ~(j <= Len(call.keys))
        BY <1>6, <2>3
      <4> QED
        BY <1>r, <4>1
    <3>3. i - Len(call.keys) < j - Len(call.keys)
      BY <1>6
    <3> QED
      BY <1>4, <3>1, <3>2, <3>3
  <2> QED
    BY <2>1, <2>2, <2>3
<1>9. next # 0 => \A i \in 1..Len(all) : all[i] <= next
  <2> SUFFICES ASSUME next # 0, NEW i \in 1..Len(all) PROVE all[i] <= next
    OBVIOUS
  <2>1. CASE i <= Len(call.keys)
    <3>1. i \in 1..Len(call.keys) /\ all[i] = call.keys[i]
      BY <1>l, <2>1
    <3>2. all[i] \in Nat
      BY <1>e
    <3> QED
      BY <1>4, <1>5, <3>1, <3>2
  <2>2. CASE ~(i <= Len(call.keys))
    BY <1>4, <1>r, <2>2
  <2> QED
    BY <2>1, <2>2
<1>10. ASSUME NEW k \in call.lasting
       PROVE  (next # 0 /\ k > next) \/ \E i \in 1..Len(all) : all[i] = k
  <2>1. CASE \E i \in 1..Len(call.keys) : call.keys[i] = k
    BY <1>7, <2>1
  <2>2. CASE k > call.after
    <3>1. PICK s \in db.series, b \in db.base :
            s.key = k /\ b.sid = s.id /\ Passes(b, call.ready)
      BY <1>5 DEF Qualifies
    <3>2. s \in Listed(db, call.ready, call.after)
      BY <2>2, <3>1 DEF Listed
    <3>3. (next # 0 /\ k > next) \/ \E i \in 1..Len(keys) : keys[i] = k
      BY <1>4, <3>1, <3>2
    <3> QED
      BY <1>7, <3>3
  <2> QED
    BY <1>5, <2>1, <2>2
<1>11. /\ DOMAIN call' = CallFields /\ call'.stage = stage
       /\ call'.tool = "baselines" /\ call'.keys = all /\ call'.after = next
       /\ call'.ready = call.ready /\ call'.lasting = call.lasting
  BY <1>1, <1>2 DEF CallFields
<1>12. CallShape'
  BY <1>11 DEF CallShape
<1>13. PagesListOnce'
  <2> SUFFICES ASSUME call'.stage = "done"
               PROVE  /\ \A i \in 1..Len(all) - 1 : all[i] < all[i + 1]
                      /\ \A k \in call.lasting : \E i \in 1..Len(all) : all[i] = k
    BY <1>11 DEF PagesListOnce
  <2>1. next = 0
    BY <1>11
  <2>2. \A i \in 1..Len(all) - 1 : i \in 1..Len(all) /\ i + 1 \in 1..Len(all) /\ i < i + 1
    BY <1>6
  <2> QED
    BY <1>8, <1>10, <2>1, <2>2
<1>14. call'.stage = "page" => PagesSoFar(db, call')
  <2> SUFFICES ASSUME call'.stage = "page" PROVE PagesSoFar(db, call')
    OBVIOUS
  <2>1. next # 0
    BY <1>11
  <2> QED
    BY <1>4, <1>5, <1>6, <1>8, <1>9, <1>10, <1>11, <2>1 DEF PagesSoFar
<1> QED
  BY <1>3, <1>12, <1>13, <1>14 DEF PagesIInv

LEMMA PagesReturn ==
  ASSUME PagesIInv, DrawTrend \/ Return
  PROVE  PagesIInv'
<1>1. DOMAIN Idle = CallFields /\ Idle.tool = "none"
      /\ Idle.stage = "idle"
  BY DEF Idle, CallFields
<1>2. CASE Return
  <2>1. call' = Idle /\ UNCHANGED unread
    BY <1>2 DEF Return
  <2> QED
    BY <1>1, <2>1, OthersDoNotPage
<1>3. CASE DrawTrend
  <2>1. ASSUME NEW chart, call' = [Idle EXCEPT !.tool = "trend",
                                      !.stage = "done", !.chart = chart]
        PROVE  DOMAIN call' = CallFields /\ call'.tool = "trend"
               /\ call'.stage = "done"
    BY <1>1, <2>1 DEF CallFields
  <2>2. \E chart : call' = [Idle EXCEPT !.tool = "trend",
                              !.stage = "done", !.chart = chart]
    BY <1>3, Zenon DEF DrawTrend
  <2>3. DOMAIN call' = CallFields /\ call'.tool = "trend" /\ call'.stage = "done"
    BY <2>1, <2>2
  <2>4. UNCHANGED unread
    BY <1>3 DEF DrawTrend
  <2> QED
    BY <2>3, <2>4, OthersDoNotPage
<1> QED
  BY <1>2, <1>3

LEMMA PagesFirst ==
  ASSUME "series" \in DOMAIN db, db.series \subseteq Catalog, call = Idle
  PROVE  PagesIInv
<1>1. DOMAIN call = CallFields /\ call.tool = "none" /\ call.stage = "idle"
  BY DEF Idle, CallFields
<1> QED
  BY <1>1 DEF PagesIInv, CallShape, PagesListOnce

LEMMA PagesStep ==
  ASSUME PagesIInv, [ReadNext]_readVars
  PROVE  PagesIInv'
<1>1. CASE UNCHANGED readVars
  <2>1. db' = db /\ call' = call
    BY <1>1 DEF readVars
  <2> QED
    BY <2>1, Zenon DEF PagesIInv, CallShape, PagesListOnce
<1>2. CASE Write \/ QueryMetrics
  BY <1>2, ReadAssumption, PagesKeepWrites, PagesKeepMetrics
<1>3. CASE AskBaselines \/ NextPage
  BY <1>3, ReadAssumption, PagesBegin, PagesGoOn
<1>4. CASE DrawTrend \/ Return
  BY <1>4, ReadAssumption, PagesReturn
<1> QED
  BY <1>1, <1>2, <1>3, <1>4 DEF ReadNext

\* MC-07, for any tables, page sizes, filters and writes between the pages:
\* the pages of a session list no baseline twice, and list each one that
\* passed the filter all the while; alone or beside the dashboard.
THEOREM PagesAlwaysListOnce ==
    /\ ReadSpec => []PagesListOnce
    /\ ReadersSpec => []PagesListOnce
<1>1. ReadInit => PagesIInv
  BY ReadAssumption, PagesFirst DEF ReadInit, TablesMakeSense
<1>2. ReadersInit => PagesIInv
  <2> SUFFICES ASSUME ReadersInit PROVE PagesIInv
    OBVIOUS
  <2>1. CASE ReadInit
    BY <1>1, <2>1
  <2>2. CASE db = [FirstTables EXCEPT !.base = {}] /\ call = Idle
    <3>1. "series" \in DOMAIN db /\ db.series \subseteq Catalog
      BY <2>2, ReadAssumption DEF TablesMakeSense
    <3> QED
      BY <2>2, <3>1, PagesFirst
  <2> QED
    BY <2>1, <2>2 DEF ReadersInit
<1>3. PagesIInv /\ [ReadNext]_readVars => PagesIInv'
  BY PagesStep
<1>4. [ReadersNext]_<<readVars, shown, side>> => [ReadNext]_readVars
  BY DEF ReadersNext
<1>5. PagesIInv => PagesListOnce
  BY DEF PagesIInv
<1> QED
  BY <1>1, <1>2, <1>3, <1>4, <1>5, PTL DEF ReadSpec, ReadersSpec
-----------------------------------------------------------------------------
(***************************************************************************)
(* What the dashboard says of the tables.                                  *)
(*                                                                         *)
(* While a page is computed, sure holds what was so at each commit since   *)
(* it was asked for, and some what was so at one of them.  Each statement  *)
(* of the page reads the tables once, so what it finds is in some, and it  *)
(* finds what is in sure: DashClaims says so for the values the page has   *)
(* taken by then.  Its last statement shows a run, and a run published in  *)
(* the report is the last one (DashObserved).                              *)
(***************************************************************************)
\* Only the shape of these records matters, and where a number is compared.
DashRow(r) == r \in [version : {r.version}, group : {r.group}, rule : {r.rule},
                     state : {"open", "acked"}, severity : {2, 3}]
DashTables(t) ==
    /\ t \in [tick : Int, pid : {t.pid}, report : {t.report}, rows : {t.rows},
              known : {t.known}, sample : Int, last : {t.last}]
    /\ \A r \in t.rows : DashRow(r)
    /\ t.last # None => t.last.at \in Int
DashDaemon(d) == d \in [pid : {d.pid}, loaded : {d.loaded}, obs : {d.obs}]
DashPage(p) ==
    p \in [stage : {p.stage}, at : Int, def : {p.def}, stale : BOOLEAN,
           found : {p.found}, obs : {p.obs}, incident : {p.incident},
           health : {p.health}, tile : {p.tile}, readout : Int,
           sure : {p.sure}, some : {p.some}]

\* An observation that is held, or published, is the last run, and by the
\* process that holds or published it.
DashObserved ==
    /\ daemon.obs # None =>
         daemon.obs = tables.last /\ daemon.obs.pid = daemon.pid
    /\ tables.report # None /\ tables.report.obs # None =>
         /\ tables.report.obs = tables.last
         /\ tables.last.pid = tables.pid

\* What is sure is so now, and what is so now was so at some moment.
DashWatched(p, t) ==
    /\ \A f \in p.sure : f \in Dash!Facts(t, p)
    /\ \A f \in Dash!Facts(t, p) : f # "own" => f \in p.some

DashAfterStatus == {"live", "health", "report", "pid", "tile", "readout"}
DashAfterLive   == {"health", "report", "pid", "tile", "readout"}
DashAfterHealth == {"report", "pid", "tile", "readout", "done"}

\* What the page found so far, against what was so.
DashAlive(p) == p.stage \in DashAfterStatus /\ p.stale = FALSE => "alive" \in p.some
DashFound(p) ==
    p.stage \in DashAfterLive =>
        /\ p.found \subseteq {2, 3}
        /\ "live" \in p.sure => p.found # {}
        /\ p.found # {} => "live" \in p.some
        /\ "error" \in p.sure => 3 \in p.found
        /\ 3 \in p.found => "error" \in p.some
DashOwn(p) ==
    p.stage \in DashAfterHealth => ("own" \in p.sure => p.incident = TRUE)
DashEvidence(p) ==
    p.stage = "pid" =>
        /\ /\ p.obs.obs.state # 3 /\ p.obs.obs.verdict # "TRUE"
           /\ ~(p.at - p.obs.obs.at > Dash!SampleAge)
           => "worked" \in p.some
        /\ p.obs.obs.state = 3 => "failed" \in p.some
DashHealth(p) ==
    /\ p.health = "available" => "worked" \in p.some /\ "own" \notin p.sure
    /\ p.health = "failed" => "failed" \in p.some
DashTile(p) ==
    /\ p.tile = "clear" => "live" \notin p.sure
    /\ p.tile \in Dash!GLANCE_STATES => "alive" \in p.some
    /\ p.tile = "warning" => "live" \in p.some /\ "error" \notin p.sure
    /\ p.tile = "error" => "error" \in p.some
DashReadout(p) ==
    p.readout # Dash!Never =>
        "alive" \in p.some /\ p.at - p.readout <= 2 * Interval
DashClaims(p) ==
    /\ DashAlive(p) /\ DashFound(p) /\ DashOwn(p) /\ DashEvidence(p)
    /\ DashHealth(p) /\ DashTile(p) /\ DashReadout(p)

DashIInv ==
    /\ DashTables(tables) /\ DashDaemon(daemon) /\ DashPage(page)
    /\ now \in Int /\ DashObserved
    /\ Dash!Busy => DashWatched(page, tables)
    /\ DashClaims(page)

\* Each fact on its own.
LEMMA DashFactsAre ==
  ASSUME NEW t, NEW p
  PROVE  /\ "live" \in Dash!Facts(t, p) <=> t.rows # {}
         /\ "error" \in Dash!Facts(t, p) <=> Dash!Alarms(t) # {}
         /\ "own" \in Dash!Facts(t, p) <=>
              p.def \in Versions /\ Dash!OwnAlarms(t, p.def) # {}
         /\ "worked" \in Dash!Facts(t, p) <=>
              /\ Dash!LastOf(t, p) /\ t.last.state # 3 /\ t.last.verdict # "TRUE"
              /\ p.at - t.last.at <= Dash!SampleAge
         /\ "failed" \in Dash!Facts(t, p) <=> Dash!LastOf(t, p) /\ t.last.state = 3
         /\ "alive" \in Dash!Facts(t, p) <=> p.at - t.tick <= StaleAfter
BY Zenon DEF Dash!Facts

\* They are about the time and the definition of the request.
LEMMA DashFactsOf ==
  ASSUME NEW t, NEW p, NEW q, p.at = q.at, p.def = q.def
  PROVE  Dash!Facts(t, p) = Dash!Facts(t, q)
BY DEF Dash!Facts, Dash!LastOf

\* What was noted stays noted, and nothing becomes sure.
LEMMA DashClaimsNoted ==
  ASSUME NEW p, NEW t, DashPage(p), DashClaims(p)
  PROVE  LET q == Dash!Noted(p, t) IN
         DashPage(q) /\ DashClaims(q) /\ DashWatched(q, t) /\ q.stage = p.stage
<1> DEFINE q == Dash!Noted(p, t)
           F == Dash!Facts(t, p)
<1>1. /\ DashPage(q) /\ q.stage = p.stage /\ q.at = p.at /\ q.def = p.def
      /\ q.stale = p.stale /\ q.found = p.found /\ q.obs = p.obs
      /\ q.incident = p.incident /\ q.health = p.health /\ q.tile = p.tile
      /\ q.readout = p.readout /\ q.sure = p.sure \cap F
      /\ q.some = p.some \cup (F \ {"own"})
  BY DEF DashPage, Dash!Noted
<1>2. Dash!Facts(t, q) = F
  BY <1>1, DashFactsOf
<1> HIDE DEF q, F
<1>3. DashWatched(q, t)
  BY <1>1, <1>2 DEF DashWatched
<1>4. /\ \A f \in q.sure : f \in p.sure
      /\ \A f \in p.some : f \in q.some
  BY <1>1
<1>5. DashAlive(q) /\ DashFound(q) /\ DashOwn(q)
  BY <1>1, <1>4 DEF DashClaims, DashAlive, DashFound, DashOwn
<1>6. DashEvidence(q)
  BY <1>1, <1>4, Zenon DEF DashClaims, DashEvidence
<1>7. DashHealth(q) /\ DashTile(q) /\ DashReadout(q)
  BY <1>1, <1>4 DEF DashClaims, DashHealth, DashTile, DashReadout
<1> QED
  BY <1>1, <1>3, <1>5, <1>6, <1>7 DEF DashClaims, q

\* A commit: the tables t come, and a request that is served notes them.
LEMMA DashCommitKeeps ==
  ASSUME NEW t, DashIInv, DashTables(t), Dash!Commit(t)
  PROVE  /\ tables' = t /\ DashTables(tables)' /\ DashPage(page)'
         /\ (Dash!Busy => DashWatched(page, tables))' /\ DashClaims(page)'
<1>1. tables' = t /\ DashPage(page) /\ DashClaims(page) /\ DashTables(tables)'
  BY DEF DashIInv, Dash!Commit
<1>2. CASE Dash!Busy
  <2>1. page' = Dash!Noted(page, t)
    BY <1>2 DEF Dash!Commit
  <2> QED
    BY <1>1, <2>1, DashClaimsNoted, Zenon
<1>3. CASE ~Dash!Busy
  <2>1. page' = page
    BY <1>3 DEF Dash!Commit
  <2>2. ~Dash!Busy'
    BY <1>3, <2>1 DEF Dash!Busy
  <2>3. DashPage(page)' /\ DashClaims(page)'
    BY <1>1, <2>1, Zenon
  <2> QED
    BY <1>1, <2>2, <2>3, Zenon
<1> QED
  BY <1>2, <1>3

\* What the engine may decide of rows are rows.
LEMMA DashDecidedRows ==
  ASSUME NEW live, \A r \in live : DashRow(r), NEW v, NEW outcome,
         NEW made \in Dash!Decided(live, v, outcome)
  PROVE  \A r \in made : DashRow(r)
<1>1. ASSUME NEW g \in {"health", "full"} PROVE DashRow(Dash!Row(v, g))
  BY <1>1 DEF DashRow, Dash!Row
<1>2. ASSUME NEW rs, \A r \in rs : DashRow(r), NEW g \in {"health", "full"},
             NEW raises, NEW clears, NEW out \in Dash!Outcomes(rs, v, outcome, g, raises, clears)
      PROVE  \A r \in out : DashRow(r)
  <2>1. out \subseteq rs \cup {Dash!Row(v, g)}
    BY <1>2 DEF Dash!Outcomes
  <2> QED
    BY <1>1, <1>2, <2>1
<1>3. PICK rs \in Dash!Outcomes(live, v, outcome, "health", outcome.verdict = "TRUE",
                                outcome.verdict = "FALSE") :
         made \in Dash!Outcomes(rs, v, outcome, "full", outcome.measured, outcome.measured)
  BY DEF Dash!Decided
<1>4. \A r \in rs : DashRow(r)
  BY <1>2, <1>3
<1> QED
  BY <1>2, <1>3, <1>4

\* One tick, whatever it loaded and whatever ran in it.
LEMMA DashTickKeeps ==
  ASSUME DashIInv, Dash!Tick
  PROVE  DashIInv'
<1>1. /\ DashTables(tables) /\ DashDaemon(daemon) /\ now \in Int
      /\ DashObserved
  BY DEF DashIInv
<1>2. now' \in Int
  BY <1>1 DEF Dash!Tick
<1>3. PICK v, before, outcome :
        /\ Dash!Evaluate(v, before, outcome)
        /\ before # None => before = daemon.obs
  BY Zenon DEF Dash!Tick
<1>r. PICK room \in BOOLEAN, kept \in {{r \in tables.rows : r.version = v}} :
        \E live \in IF outcome = None THEN {kept} ELSE Dash!Decided(kept, v, outcome) :
        LET ran == [pid |-> daemon.pid, version |-> v, at |-> now',
                    state |-> outcome.state, verdict |-> outcome.verdict]
            obs == IF outcome = None THEN before ELSE IF room THEN ran ELSE None
        IN  /\ outcome = None \/ before # None => room
            /\ daemon' = [daemon EXCEPT !.loaded = v, !.obs = obs]
            /\ Dash!Commit([tables EXCEPT
                 !.tick = now', !.pid = daemon.pid, !.rows = live,
                 !.report = [pid |-> daemon.pid, made |-> now', obs |-> obs],
                 !.known = @ \/ v # None,
                 !.sample = IF outcome # None /\ outcome.measured THEN now' ELSE @,
                 !.last = IF outcome = None THEN @ ELSE ran])
  BY <1>3 DEF Dash!Evaluate
<1> DEFINE ran == [pid |-> daemon.pid, version |-> v, at |-> now',
                   state |-> outcome.state, verdict |-> outcome.verdict]
           obs == IF outcome = None THEN before ELSE IF room THEN ran ELSE None
<1>4. PICK live \in IF outcome = None THEN {kept} ELSE Dash!Decided(kept, v, outcome) :
        /\ daemon' = [daemon EXCEPT !.loaded = v, !.obs = obs]
        /\ Dash!Commit([tables EXCEPT
             !.tick = now', !.pid = daemon.pid, !.rows = live,
             !.report = [pid |-> daemon.pid, made |-> now', obs |-> obs],
             !.known = @ \/ v # None,
             !.sample = IF outcome # None /\ outcome.measured THEN now' ELSE @,
             !.last = IF outcome = None THEN @ ELSE ran])
  BY <1>r, Zenon
<1> DEFINE t == [tables EXCEPT
             !.tick = now', !.pid = daemon.pid, !.rows = live,
             !.report = [pid |-> daemon.pid, made |-> now', obs |-> obs],
             !.known = @ \/ v # None,
             !.sample = IF outcome # None /\ outcome.measured THEN now' ELSE @,
             !.last = IF outcome = None THEN @ ELSE ran]
<1>5. \A r \in live : DashRow(r)
  <2>1. \A r \in kept : DashRow(r)
    BY <1>1, <1>r DEF DashTables
  <2>2. CASE outcome = None
    BY <1>4, <2>1, <2>2
  <2>3. CASE outcome # None
    BY <1>4, <2>1, <2>3, DashDecidedRows
  <2> QED
    BY <2>2, <2>3
<1>6. /\ t.rows = live /\ t.pid = daemon.pid
      /\ t.report = [pid |-> daemon.pid, made |-> now', obs |-> obs]
      /\ t.last = IF outcome = None THEN tables.last ELSE ran
      /\ t \in [tick : Int, pid : {t.pid}, report : {t.report}, rows : {t.rows},
                known : {t.known}, sample : Int, last : {t.last}]
  <2> DEFINE report == [pid |-> daemon.pid, made |-> now', obs |-> obs]
             known == tables.known \/ v # None
             sample == IF outcome # None /\ outcome.measured THEN now'
                                                    ELSE tables.sample
             last == IF outcome = None THEN tables.last ELSE ran
  <2>1. tables \in [tick : Int, pid : {tables.pid},
                        report : {tables.report}, rows : {tables.rows},
                        known : {tables.known}, sample : Int,
                        last : {tables.last}]
    BY <1>1 DEF DashTables
  <2>2. sample \in Int
    BY <1>2, <2>1
  <2>3. t = [tables EXCEPT !.tick = now', !.pid = daemon.pid,
                               !.rows = live, !.report = report, !.known = known,
                               !.sample = sample, !.last = last]
    BY Zenon
  <2> HIDE DEF ran, obs, t, report, known, sample, last
  <2>4. /\ t.rows = live /\ t.pid = daemon.pid
        /\ t.report = report /\ t.last = last
    BY <2>1, <2>3
  <2>5. t \in [tick : Int, pid : {t.pid}, report : {t.report}, rows : {t.rows},
               known : {t.known}, sample : Int, last : {t.last}]
    BY <1>2, <2>1, <2>2, <2>3
  <2> QED
    BY <2>4, <2>5 DEF report, last
<1>7. Dash!Commit(t)
  BY <1>4
<1> HIDE DEF t
<1>8. DashTables(t)
  <2>1. t.last # None => t.last.at \in Int
    BY <1>1, <1>2, <1>6 DEF DashTables
  <2> QED
    BY <1>5, <1>6, <2>1 DEF DashTables
<1>9. /\ tables' = t /\ DashTables(tables)' /\ DashPage(page)'
      /\ (Dash!Busy => DashWatched(page, tables))' /\ DashClaims(page)'
  BY <1>7, <1>8, DashCommitKeeps
<1>10. /\ daemon'.obs = obs /\ daemon'.pid = daemon.pid
       /\ DashDaemon(daemon)'
  BY <1>1, <1>4 DEF DashDaemon
<1>11. obs # None => obs = t.last /\ t.last.pid = t.pid
  <2>1. CASE outcome = None
    BY <1>1, <1>3, <1>4, <1>6, <2>1 DEF DashObserved
  <2>2. CASE outcome # None
    BY <1>4, <1>6, <2>2
  <2> QED
    BY <2>1, <2>2
<1>12. t.report.obs = obs
  BY <1>6
<1>13. DashObserved'
  BY <1>6, <1>9, <1>10, <1>11, <1>12 DEF DashObserved
<1> QED
  BY <1>2, <1>9, <1>10, <1>13 DEF DashIInv

\* An acknowledgement.
LEMMA DashAckKeeps ==
  ASSUME DashIInv, Dash!Ack
  PROVE  DashIInv'
<1>1. /\ DashTables(tables) /\ DashDaemon(daemon) /\ now \in Int
      /\ DashObserved
  BY DEF DashIInv
<1>2. PICK r \in tables.rows :
        Dash!Commit([tables EXCEPT
            !.rows = (@ \ {r}) \cup {[r EXCEPT !.state = "acked"]}])
  BY DEF Dash!Ack
<1> DEFINE live == (tables.rows \ {r}) \cup {[r EXCEPT !.state = "acked"]}
           t == [tables EXCEPT !.rows = live]
<1>3. Dash!Commit(t)
  BY <1>2
<1>4. \A q \in live : DashRow(q)
  <2>1. DashRow(r)
    BY <1>1 DEF DashTables
  <2>2. DashRow([r EXCEPT !.state = "acked"])
    BY <2>1 DEF DashRow
  <2> QED
    BY <1>1, <2>2 DEF DashTables
<1> HIDE DEF live
<1>5. DashTables(t) /\ t.report = tables.report /\ t.last = tables.last
      /\ t.pid = tables.pid
  BY <1>1, <1>4 DEF DashTables
<1> HIDE DEF t
<1>6. /\ tables' = t /\ DashTables(tables)' /\ DashPage(page)'
      /\ (Dash!Busy => DashWatched(page, tables))' /\ DashClaims(page)'
  BY <1>3, <1>5, DashCommitKeeps
<1>7. daemon' = daemon /\ now' = now
  BY DEF Dash!Ack
<1>8. DashObserved' /\ DashDaemon(daemon)'
  BY <1>1, <1>5, <1>6, <1>7 DEF DashObserved, DashDaemon
<1> QED
  BY <1>1, <1>6, <1>7, <1>8 DEF DashIInv

\* The daemon ends and begins, time passes, the file is edited.
LEMMA DashElseKeeps ==
  ASSUME DashIInv, Dash!Pass \/ Dash!Start \/ Dash!Stop \/ Dash!Edit
  PROVE  DashIInv'
<1>1. /\ DashTables(tables) /\ DashDaemon(daemon) /\ DashPage(page)
      /\ now \in Int /\ DashObserved /\ DashClaims(page)
      /\ Dash!Busy => DashWatched(page, tables)
  BY DEF DashIInv
<1>2. tables' = tables /\ page' = page
  BY DEF Dash!Pass, Dash!Start, Dash!Stop, Dash!Edit
<1>3. now' \in Int
  BY <1>1 DEF Dash!Pass, Dash!Start, Dash!Stop, Dash!Edit
<1>4. DashDaemon(daemon)' /\ (daemon' = daemon \/ daemon'.obs = None)
  BY <1>1 DEF Dash!Pass, Dash!Start, Dash!Stop, Dash!Edit, DashDaemon
<1>5. DashObserved'
  BY <1>1, <1>2, <1>4 DEF DashObserved
<1>6. DashTables(tables)' /\ DashPage(page)' /\ DashClaims(page)'
  BY <1>1, <1>2, Zenon
<1>7. (Dash!Busy => DashWatched(page, tables))'
  <2>1. Dash!Busy' => Dash!Busy
    BY <1>2 DEF Dash!Busy
  <2> QED
    BY <1>1, <1>2, <2>1, Zenon
<1> QED
  BY <1>3, <1>4, <1>5, <1>6, <1>7 DEF DashIInv

\* The page begins: what it is sure of and what it noted is what is so.
LEMMA DashAskKeeps ==
  ASSUME DashIInv, Dash!Ask
  PROVE  DashIInv'
<1>1. /\ DashTables(tables) /\ DashDaemon(daemon) /\ now \in Int
      /\ DashObserved
  BY DEF DashIInv
<1>2. UNCHANGED <<tables, daemon, now>>
  BY DEF Dash!Ask, Dash!others
<1> DEFINE p == [Dash!Idle EXCEPT !.at = now, !.def = file]
           F == Dash!Facts(tables, p)
<1>3. \/ page' = [p EXCEPT !.stage = "done", !.tile = "config-error"]
      \/ page' = [p EXCEPT !.stage = "status", !.sure = F \cap Dash!Alarming,
                           !.some = F \ {"own"}]
  BY DEF Dash!Ask
<1>4. /\ p.at = now /\ p.def = file /\ p.sure = {} /\ p.found = {}
      /\ p.health = "none" /\ p.tile = "none" /\ p.readout = Dash!Never
      /\ p \in [stage : {p.stage}, at : Int, def : {p.def}, stale : BOOLEAN,
           found : {p.found}, obs : {p.obs}, incident : {p.incident},
           health : {p.health}, tile : {p.tile}, readout : Int,
           sure : {p.sure}, some : {p.some}]
  <2>1. Dash!Idle \in [stage : {"idle"}, at : Int, def : {None}, stale : {FALSE},
                       found : {{}}, obs : {None}, incident : {FALSE},
                       health : {"none"}, tile : {"none"}, readout : {Dash!Never},
                       sure : {{}}, some : {{}}]
    BY DEF Dash!Idle
  <2>2. p \in [stage : {"idle"}, at : {now}, def : {file}, stale : {FALSE},
               found : {{}}, obs : {None}, incident : {FALSE},
               health : {"none"}, tile : {"none"}, readout : {Dash!Never},
               sure : {{}}, some : {{}}]
    BY <2>1
  <2>3. Dash!Never \in Int
    BY DEF Dash!Never
  <2> HIDE DEF p
  <2> QED
    BY <1>1, <2>2, <2>3
<1> HIDE DEF p
<1>5. CASE page' = [p EXCEPT !.stage = "done", !.tile = "config-error"]
  <2>1. /\ page'.stage = "done" /\ page'.sure = {} /\ page'.health = "none"
        /\ page'.tile = "config-error" /\ page'.readout = Dash!Never
        /\ DashPage(page)'
    BY <1>4, <1>5 DEF DashPage
  <2>2. DashClaims(page)'
    BY <2>1 DEF DashClaims, DashAlive, DashFound, DashOwn, DashEvidence,
                DashHealth, DashTile, DashReadout, DashAfterStatus, DashAfterLive,
                Dash!GLANCE_STATES
  <2>3. ~Dash!Busy'
    BY <2>1 DEF Dash!Busy
  <2> QED
    BY <1>1, <1>2, <2>1, <2>2, <2>3 DEF DashIInv, DashObserved
<1>6. CASE page' = [p EXCEPT !.stage = "status", !.sure = F \cap Dash!Alarming,
                             !.some = F \ {"own"}]
  <2> HIDE DEF F
  <2>1. /\ page'.stage = "status" /\ page'.sure = F \cap Dash!Alarming
        /\ page'.some = F \ {"own"} /\ page'.health = "none"
        /\ page'.tile = "none" /\ page'.readout = Dash!Never
        /\ page'.at = p.at /\ page'.def = p.def /\ DashPage(page)'
    BY <1>4, <1>6 DEF DashPage
  <2>2. DashClaims(page)'
    BY <2>1 DEF DashClaims, DashAlive, DashFound, DashOwn, DashEvidence,
                DashHealth, DashTile, DashReadout, DashAfterStatus, DashAfterLive,
                DashAfterHealth, Dash!GLANCE_STATES
  <2>3. F = Dash!Facts(tables, page')
    BY <2>1, DashFactsOf DEF F
  <2>4. DashWatched(page, tables)'
    BY <1>2, <2>1, <2>3 DEF DashWatched
  <2> QED
    BY <1>1, <1>2, <2>1, <2>2, <2>4 DEF DashIInv, DashObserved
<1> QED
  BY <1>3, <1>5, <1>6

\* A statement of the page: what was so is so, and what it noted it keeps.
LEMMA DashReads ==
  ASSUME DashIInv, Dash!Busy, UNCHANGED Dash!others, DashPage(page)',
         page'.at = page.at, page'.def = page.def, page'.sure = page.sure,
         page'.some = page.some, DashClaims(page)'
  PROVE  DashIInv'
<1>1. /\ DashTables(tables) /\ DashDaemon(daemon) /\ now \in Int
      /\ DashObserved /\ DashWatched(page, tables)
  BY DEF DashIInv
<1>2. UNCHANGED <<tables, daemon, now>>
  BY DEF Dash!others
<1>3. Dash!Facts(tables, page)' = Dash!Facts(tables, page)
  <2>1. Dash!Facts(tables, page') = Dash!Facts(tables, page)
    BY DashFactsOf
  <2> QED
    BY <1>2, <2>1
<1>4. DashWatched(page, tables)'
  BY <1>1, <1>3 DEF DashWatched
<1> QED
  BY <1>1, <1>2, <1>4 DEF DashIInv, DashObserved

LEMMA DashStatusKeeps ==
  ASSUME Dash!ConstantsMakeSense, DashIInv, Dash!Status
  PROVE  DashIInv'
<1>1. /\ DashTables(tables) /\ DashPage(page) /\ DashClaims(page)
      /\ page.stage = "status" /\ Dash!Busy
      /\ DashWatched(page, tables)
  BY DEF DashIInv, Dash!Status, Dash!Busy
<1> DEFINE stale == page.at - tables.tick > StaleAfter
<1>2. page' = [page EXCEPT !.stage = "live", !.stale = stale] /\ stale \in BOOLEAN
  BY DEF Dash!Status
<1> HIDE DEF stale
<1>3. /\ DashPage(page)' /\ page'.stage = "live"
      /\ page'.stale = stale
      /\ page'.at = page.at /\ page'.def = page.def /\ page'.sure = page.sure
      /\ page'.some = page.some /\ page'.health = page.health
      /\ page'.tile = page.tile /\ page'.readout = page.readout
  BY <1>1, <1>2 DEF DashPage
<1>4. page.at \in Int /\ tables.tick \in Int
  BY <1>1 DEF DashPage, DashTables
<1>5. page'.stale = FALSE => "alive" \in page.some
  <2>1. ASSUME page'.stale = FALSE PROVE page.at - tables.tick <= StaleAfter
    <3>1. ~(page.at - tables.tick > StaleAfter)
      BY <1>3, <2>1 DEF stale
    <3> QED
      BY <1>4, <3>1 DEF Dash!ConstantsMakeSense
  <2> QED
    BY <1>1, <2>1, DashFactsAre DEF DashWatched
<1>6. DashClaims(page)'
  BY <1>1, <1>3, <1>5
     DEF DashClaims, DashAlive, DashFound, DashOwn, DashEvidence, DashHealth,
         DashTile, DashReadout, DashAfterLive, DashAfterHealth
<1>7. UNCHANGED Dash!others
  BY DEF Dash!Status
<1> QED
  BY <1>1, <1>3, <1>6, <1>7, DashReads

LEMMA DashLiveKeeps ==
  ASSUME DashIInv, Dash!LiveIncidents
  PROVE  DashIInv'
<1>1. /\ DashTables(tables) /\ DashPage(page) /\ DashClaims(page)
      /\ page.stage = "live" /\ Dash!Busy
      /\ DashWatched(page, tables)
  BY DEF DashIInv, Dash!LiveIncidents, Dash!Busy
<1> DEFINE found == {r.severity : r \in Dash!Live(tables.rows)}
<1>2. page' = [page EXCEPT !.stage = "health", !.found = found]
  BY DEF Dash!LiveIncidents
<1>3. /\ \A r \in tables.rows : r.severity \in {2, 3} /\ r.state # "cleared"
  BY <1>1 DEF DashTables, DashRow
<1>4. Dash!Live(tables.rows) = tables.rows
  BY <1>3 DEF Dash!Live
<1>5. /\ found \subseteq {2, 3} /\ (found # {} <=> tables.rows # {})
      /\ (3 \in found <=> Dash!Alarms(tables) # {})
  BY <1>3, <1>4 DEF Dash!Alarms
<1> HIDE DEF found
<1>6. /\ DashPage(page)' /\ page'.stage = "health" /\ page'.found = found
      /\ page'.stale = page.stale
      /\ page'.at = page.at /\ page'.def = page.def /\ page'.sure = page.sure
      /\ page'.some = page.some /\ page'.health = page.health
      /\ page'.tile = page.tile /\ page'.readout = page.readout
  BY <1>1, <1>2 DEF DashPage
<1>7. /\ "live" \in page.sure => found # {}
      /\ found # {} => "live" \in page.some
      /\ "error" \in page.sure => 3 \in found
      /\ 3 \in found => "error" \in page.some
  BY <1>1, <1>5, DashFactsAre DEF DashWatched
<1>8. DashClaims(page)'
  BY <1>1, <1>5, <1>6, <1>7
     DEF DashClaims, DashAlive, DashFound, DashOwn, DashEvidence, DashHealth,
         DashTile, DashReadout, DashAfterStatus, DashAfterHealth
<1>9. UNCHANGED Dash!others
  BY DEF Dash!LiveIncidents
<1> QED
  BY <1>1, <1>6, <1>8, <1>9, DashReads

LEMMA DashHealthKeeps ==
  ASSUME Dash!ConstantsMakeSense, DashIInv, Dash!Health
  PROVE  DashIInv'
<1>1. /\ DashTables(tables) /\ DashPage(page) /\ DashClaims(page)
      /\ page.stage = "health" /\ Dash!Busy
      /\ DashWatched(page, tables)
  BY DEF DashIInv, Dash!Health, Dash!Busy
<1> DEFINE own == IF page.def = "disabled" THEN {}
                  ELSE Dash!OwnAlarms(tables, page.def)
           p == [page EXCEPT !.incident = own # {}]
<1>2. \/ page.def = "disabled"
         /\ page' = [p EXCEPT !.stage = "tile", !.health = "disabled"]
      \/ page' = [p EXCEPT !.stage = "tile", !.health = "daemon_stale"]
      \/ page' = [p EXCEPT !.stage = "report"]
  BY DEF Dash!Health
<1>3. "own" \in page.sure => own # {}
  <2>1. "own" \in page.sure => page.def \in Versions
                               /\ Dash!OwnAlarms(tables, page.def) # {}
    BY <1>1, DashFactsAre DEF DashWatched
  <2> QED
    BY <2>1 DEF Dash!ConstantsMakeSense
<1> HIDE DEF own
<1>4. /\ DashPage(p) /\ p.incident = (own # {})
      /\ p.stale = page.stale /\ p.found = page.found
      /\ p.at = page.at /\ p.def = page.def /\ p.sure = page.sure
      /\ p.some = page.some /\ p.health = page.health
      /\ p.tile = page.tile /\ p.readout = page.readout
  BY <1>1 DEF DashPage
<1> HIDE DEF p
<1>5. /\ DashPage(page)' /\ page'.stage \in {"tile", "report"}
      /\ page'.health \in {p.health, "disabled", "daemon_stale"}
      /\ page'.incident = p.incident
      /\ page'.stale = p.stale /\ page'.found = p.found
      /\ page'.at = p.at /\ page'.def = p.def /\ page'.sure = p.sure
      /\ page'.some = p.some /\ page'.tile = p.tile /\ page'.readout = p.readout
  <2>1. DashPage(p)
    BY <1>4
  <2>2. CASE \E h \in {"disabled", "daemon_stale"} :
               page' = [p EXCEPT !.stage = "tile", !.health = h]
    <3>1. PICK h \in {"disabled", "daemon_stale"} :
               page' = [p EXCEPT !.stage = "tile", !.health = h]
      BY <2>2
    <3> QED
      BY <2>1, <3>1 DEF DashPage
  <2>3. CASE page' = [p EXCEPT !.stage = "report"]
    BY <2>1, <2>3 DEF DashPage
  <2> QED
    BY <1>2, <2>2, <2>3
<1>6. page'.incident = TRUE \/ "own" \notin page'.sure
  BY <1>3, <1>4, <1>5
<1>7. DashAlive(page)' /\ DashFound(page)'
  BY <1>1, <1>4, <1>5
     DEF DashClaims, DashAlive, DashFound, DashAfterStatus, DashAfterLive
<1>8. DashOwn(page)' /\ DashEvidence(page)' /\ DashHealth(page)'
  BY <1>1, <1>4, <1>5, <1>6 DEF DashClaims, DashOwn, DashEvidence, DashHealth
<1>9. DashTile(page)' /\ DashReadout(page)'
  BY <1>1, <1>4, <1>5 DEF DashClaims, DashTile, DashReadout
<1>10. UNCHANGED Dash!others /\ page'.at = page.at /\ page'.def = page.def
       /\ page'.sure = page.sure /\ page'.some = page.some
  BY <1>4, <1>5 DEF Dash!Health
<1> QED
  BY <1>1, <1>5, <1>7, <1>8, <1>9, <1>10, DashReads DEF DashClaims

\* The report that is believed is the last run of the page's definition.
LEMMA DashReportKeeps ==
  ASSUME Dash!ConstantsMakeSense, DashIInv, Dash!ReadReport
  PROVE  DashIInv'
<1>1. /\ DashTables(tables) /\ DashPage(page) /\ DashClaims(page)
      /\ page.stage = "report" /\ Dash!Busy /\ DashObserved
      /\ DashWatched(page, tables)
  BY DEF DashIInv, Dash!ReadReport, Dash!Busy
<1> DEFINE report == tables.report
<1>2. \/ /\ Dash!Believable(page, report)
         /\ page' = [page EXCEPT !.stage = "pid", !.obs = report]
      \/ page' = [page EXCEPT !.stage = "tile", !.health = "unavailable"]
  BY DEF Dash!ReadReport
<1>3. UNCHANGED Dash!others
  BY DEF Dash!ReadReport
<1>4. CASE page' = [page EXCEPT !.stage = "tile", !.health = "unavailable"]
  <2>1. /\ DashPage(page)' /\ page'.stage = "tile" /\ page'.health = "unavailable"
        /\ page'.incident = page.incident
        /\ page'.stale = page.stale /\ page'.found = page.found
        /\ page'.at = page.at /\ page'.def = page.def /\ page'.sure = page.sure
        /\ page'.some = page.some /\ page'.tile = page.tile
        /\ page'.readout = page.readout
    BY <1>1, <1>4 DEF DashPage
  <2>2. DashAlive(page)' /\ DashFound(page)'
    BY <1>1, <2>1
       DEF DashClaims, DashAlive, DashFound, DashAfterStatus, DashAfterLive
  <2>3. DashOwn(page)' /\ DashEvidence(page)' /\ DashHealth(page)'
    BY <1>1, <2>1
       DEF DashClaims, DashOwn, DashEvidence, DashHealth, DashAfterHealth
  <2>4. DashTile(page)' /\ DashReadout(page)'
    BY <1>1, <2>1 DEF DashClaims, DashTile, DashReadout
  <2> QED
    BY <1>1, <1>3, <2>1, <2>2, <2>3, <2>4, DashReads DEF DashClaims
<1>5. CASE /\ Dash!Believable(page, report)
           /\ page' = [page EXCEPT !.stage = "pid", !.obs = report]
  <2>1. /\ DashPage(page)' /\ page'.stage = "pid" /\ page'.obs = report
        /\ page'.health = page.health /\ page'.incident = page.incident
        /\ page'.stale = page.stale /\ page'.found = page.found
        /\ page'.at = page.at /\ page'.def = page.def /\ page'.sure = page.sure
        /\ page'.some = page.some /\ page'.tile = page.tile
        /\ page'.readout = page.readout
    BY <1>1, <1>5 DEF DashPage
  <2>2. /\ report.obs = tables.last /\ Dash!LastOf(tables, page)
    BY <1>1, <1>5 DEF Dash!Believable, DashObserved, Dash!LastOf
  <2>3. ASSUME report.obs.state # 3, report.obs.verdict # "TRUE",
               ~(page.at - report.obs.at > Dash!SampleAge)
        PROVE  "worked" \in page.some
    <3>1. page.at - tables.last.at <= Dash!SampleAge
      <4>1. tables.last.at \in Int /\ page.at \in Int
        BY <1>1, <2>2 DEF DashTables, DashPage, Dash!LastOf
      <4>2. ~(page.at - tables.last.at > Dash!SampleAge)
        BY <2>2, <2>3
      <4> QED
        BY <4>1, <4>2 DEF Dash!SampleAge, Dash!ConstantsMakeSense
    <3>2. "worked" \in Dash!Facts(tables, page)
      BY <2>2, <2>3, <3>1, DashFactsAre, Zenon
    <3> QED
      BY <1>1, <3>2 DEF DashWatched
  <2>4. report.obs.state = 3 => "failed" \in page.some
    <3>1. report.obs.state = 3 => "failed" \in Dash!Facts(tables, page)
      BY <2>2, DashFactsAre
    <3> QED
      BY <1>1, <3>1 DEF DashWatched
  <2>5. DashAlive(page)' /\ DashFound(page)'
    BY <1>1, <2>1
       DEF DashClaims, DashAlive, DashFound, DashAfterStatus, DashAfterLive
  <2>6. DashEvidence(page)'
    BY <2>1, <2>3, <2>4 DEF DashEvidence, Dash!SampleAge
  <2>7. DashOwn(page)' /\ DashHealth(page)'
    BY <1>1, <2>1 DEF DashClaims, DashOwn, DashHealth, DashAfterHealth
  <2>8. DashTile(page)' /\ DashReadout(page)'
    BY <1>1, <2>1 DEF DashClaims, DashTile, DashReadout
  <2> QED
    BY <1>1, <1>3, <2>1, <2>5, <2>6, <2>7, <2>8, DashReads DEF DashClaims
<1> QED
  BY <1>2, <1>4, <1>5

LEMMA DashPidKeeps ==
  ASSUME DashIInv, Dash!ReadPid
  PROVE  DashIInv'
<1>1. /\ DashTables(tables) /\ DashPage(page) /\ DashClaims(page)
      /\ page.stage = "pid" /\ Dash!Busy
  BY DEF DashIInv, Dash!ReadPid, Dash!Busy
<1> DEFINE health == IF page.obs.pid = tables.pid THEN Dash!Described(page)
                     ELSE "unavailable"
<1>2. page' = [page EXCEPT !.stage = "tile", !.obs = None, !.health = health]
  BY DEF Dash!ReadPid
<1>3. /\ health = "available" => "worked" \in page.some /\ "own" \notin page.sure
      /\ health = "failed" => "failed" \in page.some
  <2>1. health = "failed" => page.obs.obs.state = 3
    BY DEF Dash!Described
  <2>2. health = "available" =>
           /\ ~(page.at - page.obs.obs.at > Dash!SampleAge)
           /\ page.obs.obs.state # 3 /\ page.obs.obs.verdict # "TRUE"
           /\ ~page.incident
    BY DEF Dash!Described
  <2>3. "own" \in page.sure => page.incident = TRUE
    BY <1>1 DEF DashClaims, DashFound, DashAfterLive, DashOwn, DashAfterHealth
  <2> HIDE DEF health
  <2> QED
    BY <1>1, <2>1, <2>2, <2>3 DEF DashClaims, DashEvidence
<1> HIDE DEF health
<1>4. /\ DashPage(page)' /\ page'.stage = "tile" /\ page'.health = health
      /\ page'.incident = page.incident
      /\ page'.stale = page.stale /\ page'.found = page.found
      /\ page'.at = page.at /\ page'.def = page.def /\ page'.sure = page.sure
      /\ page'.some = page.some /\ page'.tile = page.tile
      /\ page'.readout = page.readout
  BY <1>1, <1>2 DEF DashPage
<1>5. DashAlive(page)' /\ DashFound(page)'
  BY <1>1, <1>4
     DEF DashClaims, DashAlive, DashFound, DashAfterStatus, DashAfterLive
<1>6. DashOwn(page)' /\ DashEvidence(page)'
  BY <1>1, <1>4 DEF DashClaims, DashOwn, DashEvidence, DashAfterHealth
<1>7. DashHealth(page)'
  BY <1>3, <1>4 DEF DashHealth
<1>8. DashTile(page)' /\ DashReadout(page)'
  BY <1>1, <1>4 DEF DashClaims, DashTile, DashReadout
<1>9. UNCHANGED Dash!others
  BY DEF Dash!ReadPid
<1> QED
  BY <1>1, <1>4, <1>5, <1>6, <1>7, <1>8, <1>9, DashReads DEF DashClaims

LEMMA DashTileKeeps ==
  ASSUME DashIInv, Dash!Tile
  PROVE  DashIInv'
<1>1. /\ DashTables(tables) /\ DashPage(page) /\ DashClaims(page)
      /\ page.stage = "tile" /\ Dash!Busy
  BY DEF DashIInv, Dash!Tile, Dash!Busy
<1> DEFINE tile == Dash!health_state(page, tables.known)
<1>2. page' = [page EXCEPT !.stage = "readout", !.tile = tile]
  BY DEF Dash!Tile
<1>3. /\ tile \in {"unknown", "disabled", "error", "warning", "clear"}
      /\ tile \in {"error", "warning", "clear"} => page.stale = FALSE \/ ~page.stale
      /\ tile = "error" => \E s \in page.found : s >= 3
      /\ tile = "warning" => page.found # {} /\ \A s \in page.found : ~(s >= 3)
      /\ tile = "clear" => page.found = {}
  BY DEF Dash!health_state
<1>4. tile \in Dash!GLANCE_STATES => page.stale = FALSE
  <2>1. page.stale \in BOOLEAN
    BY <1>1 DEF DashPage
  <2>2. tile \in Dash!GLANCE_STATES => ~page.stale
    BY DEF Dash!health_state, Dash!GLANCE_STATES
  <2> QED
    BY <2>1, <2>2
<1> HIDE DEF tile
<1>5. /\ page.stale = FALSE => "alive" \in page.some
      /\ page.found \subseteq {2, 3}
      /\ "live" \in page.sure => page.found # {}
      /\ page.found # {} => "live" \in page.some
      /\ "error" \in page.sure => 3 \in page.found
      /\ 3 \in page.found => "error" \in page.some
  BY <1>1 DEF DashClaims, DashAlive, DashFound, DashAfterStatus, DashAfterLive
<1>6. /\ DashPage(page)' /\ page'.stage = "readout" /\ page'.tile = tile
      /\ page'.incident = page.incident /\ page'.health = page.health
      /\ page'.stale = page.stale /\ page'.found = page.found
      /\ page'.at = page.at /\ page'.def = page.def /\ page'.sure = page.sure
      /\ page'.some = page.some /\ page'.readout = page.readout
  BY <1>1, <1>2 DEF DashPage
<1>7. DashTile(page)'
  <2>1. tile = "error" => 3 \in page.found
    BY <1>3, <1>5
  <2>2. tile = "warning" => page.found # {} /\ 3 \notin page.found
    BY <1>3
  <2> QED
    BY <1>3, <1>4, <1>5, <1>6, <2>1, <2>2 DEF DashTile, Dash!GLANCE_STATES
<1>8. DashAlive(page)' /\ DashFound(page)'
  BY <1>1, <1>6
     DEF DashClaims, DashAlive, DashFound, DashAfterStatus, DashAfterLive
<1>9. DashOwn(page)' /\ DashEvidence(page)' /\ DashHealth(page)' /\ DashReadout(page)'
  BY <1>1, <1>6 DEF DashClaims, DashOwn, DashEvidence, DashHealth, DashReadout,
                    DashAfterHealth
<1>10. UNCHANGED Dash!others
  BY DEF Dash!Tile
<1> QED
  BY <1>1, <1>6, <1>7, <1>8, <1>9, <1>10, DashReads DEF DashClaims

LEMMA DashReadoutKeeps ==
  ASSUME Dash!ConstantsMakeSense, DashIInv, Dash!Readout
  PROVE  DashIInv'
<1>1. /\ DashTables(tables) /\ DashPage(page) /\ DashClaims(page)
      /\ page.stage = "readout" /\ Dash!Busy
  BY DEF DashIInv, Dash!Readout, Dash!Busy
<1> DEFINE readout == IF /\ page.tile \in Dash!GLANCE_STATES
                         /\ tables.sample >= page.at - 2 * Interval
                      THEN tables.sample ELSE Dash!Never
<1>2. page' = [page EXCEPT !.stage = "done", !.readout = readout]
  BY DEF Dash!Readout
<1>3. page.at \in Int /\ tables.sample \in Int /\ Dash!Never \in Int
  BY <1>1 DEF DashPage, DashTables, Dash!Never
<1>4. /\ readout \in Int
      /\ readout # Dash!Never =>
           page.tile \in Dash!GLANCE_STATES /\ page.at - readout <= 2 * Interval
  BY <1>3 DEF Dash!ConstantsMakeSense
<1> HIDE DEF readout
<1>5. /\ DashPage(page)' /\ page'.stage = "done" /\ page'.readout = readout
      /\ page'.incident = page.incident /\ page'.health = page.health
      /\ page'.stale = page.stale /\ page'.found = page.found
      /\ page'.at = page.at /\ page'.def = page.def /\ page'.sure = page.sure
      /\ page'.some = page.some /\ page'.tile = page.tile
  BY <1>1, <1>2, <1>4 DEF DashPage
<1>6. DashReadout(page)'
  BY <1>1, <1>4, <1>5 DEF DashClaims, DashTile, DashReadout
<1>7. DashAlive(page)' /\ DashFound(page)'
  BY <1>5 DEF DashAlive, DashFound, DashAfterStatus, DashAfterLive
<1>8. DashOwn(page)' /\ DashEvidence(page)' /\ DashHealth(page)' /\ DashTile(page)'
  BY <1>1, <1>5 DEF DashClaims, DashOwn, DashEvidence, DashHealth, DashTile,
                    DashAfterHealth
<1>9. UNCHANGED Dash!others
  BY DEF Dash!Readout
<1> QED
  BY <1>1, <1>5, <1>6, <1>7, <1>8, <1>9, DashReads DEF DashClaims

LEMMA DashInit ==
  ASSUME Dash!ConstantsMakeSense, Dash!Init
  PROVE  DashIInv
<1>1. DashPage(page) /\ page.stage = "idle" /\ page.health = "none"
      /\ page.tile = "none" /\ page.readout = Dash!Never
  BY DEF Dash!Init, Dash!Idle, DashPage, Dash!Never
<1>2. ~Dash!Busy /\ DashClaims(page)
  BY <1>1 DEF Dash!Busy, DashClaims, DashAlive, DashFound, DashOwn, DashEvidence,
              DashHealth, DashTile, DashReadout, DashAfterStatus, DashAfterLive,
              DashAfterHealth, Dash!GLANCE_STATES
<1>3. DashDaemon(daemon) /\ now \in Int
  BY DEF Dash!Init, DashDaemon
<1>4. CASE /\ tables = Dash!Fresh
           /\ daemon = [pid |-> 0, loaded |-> None, obs |-> None]
  BY <1>1, <1>2, <1>3, <1>4 DEF DashIInv, DashTables, DashObserved, Dash!Fresh,
                                Dash!Never
<1>5. ASSUME NEW at \in LastRuns, tables = Dash!Settled(at),
             daemon = [pid |-> 1, loaded |-> file, obs |-> Dash!Good(at)]
      PROVE  DashIInv
  <2>1. at \in Int
    BY DEF Dash!ConstantsMakeSense
  <2>2. DashTables(tables)
    BY <1>5, <2>1 DEF DashTables, Dash!Settled, Dash!Good
  <2>3. DashObserved
    BY <1>5 DEF DashObserved, Dash!Settled, Dash!Good
  <2> QED
    BY <1>1, <1>2, <1>3, <2>2, <2>3 DEF DashIInv
<1> QED
  BY <1>4, <1>5 DEF Dash!Init

LEMMA DashStep ==
  ASSUME Dash!ConstantsMakeSense, DashIInv, [Dash!Next]_Dash!vars
  PROVE  DashIInv'
<1>1. CASE UNCHANGED Dash!vars
  <2>1. UNCHANGED <<file, daemon, tables, page, now>>
    BY <1>1 DEF Dash!vars
  <2>2. /\ DashTables(tables)' /\ DashDaemon(daemon)' /\ DashPage(page)'
        /\ now' \in Int /\ DashClaims(page)'
        /\ (Dash!Busy => DashWatched(page, tables))'
    BY <2>1, Zenon DEF DashIInv, Dash!Busy
  <2>3. DashObserved'
    BY <2>1 DEF DashIInv, DashObserved
  <2> QED
    BY <2>2, <2>3 DEF DashIInv
<1>2. CASE Dash!Tick \/ Dash!Ack
  BY <1>2, DashTickKeeps, DashAckKeeps
<1>3. CASE Dash!Pass \/ Dash!Start \/ Dash!Stop \/ Dash!Edit
  BY <1>3, DashElseKeeps
<1>4. CASE Dash!Ask \/ Dash!Status \/ Dash!LiveIncidents
  BY <1>4, DashAskKeeps, DashStatusKeeps, DashLiveKeeps
<1>5. CASE Dash!Health \/ Dash!ReadReport \/ Dash!ReadPid
  BY <1>5, DashHealthKeeps, DashReportKeeps, DashPidKeeps
<1>6. CASE Dash!Tile \/ Dash!Readout
  BY <1>6, DashTileKeeps, DashReadoutKeeps
<1> QED
  BY <1>1, <1>2, <1>3, <1>4, <1>5, <1>6 DEF Dash!Next, Dash!Request

\* UI-14, UI-17, EC-11, for any versions, runs, edits, restarts and times: a
\* page claims nothing that was not so while it was put together, and leaves
\* out no alarm that was live all through it.
THEOREM StatusAlwaysEvidenced ==
    /\ Dash!Spec => []Dash!StatusIsEvidenced
    /\ ReadersSpec => []StatusIsEvidenced
<1>1. Dash!Init => DashIInv
  BY PageAssumption, DashInit
<1>2. DashIInv /\ [Dash!Next]_Dash!vars => DashIInv'
  BY PageAssumption, DashStep
<1>3. DashIInv => Dash!StatusIsEvidenced
  <2> SUFFICES ASSUME DashIInv, page.stage = "done" PROVE Dash!StatusIsEvidenced
    BY DEF Dash!StatusIsEvidenced
  <2>1. DashHealth(page) /\ DashTile(page) /\ DashReadout(page) /\ DashOwn(page)
    BY DEF DashIInv, DashClaims
  <2> QED
    BY <2>1 DEF DashHealth, DashTile, DashReadout, DashOwn, DashAfterHealth,
                Dash!StatusIsEvidenced
<1>4. ReadersInit => DashIInv
  BY <1>1 DEF ReadersInit
<1>5. [ReadersNext]_<<readVars, shown, side>> => [Dash!Next]_Dash!vars
  BY DEF ReadersNext, shown, Dash!vars
<1>6. DashIInv => StatusIsEvidenced
  BY <1>3 DEF StatusIsEvidenced
<1> QED
  BY <1>1, <1>2, <1>3, <1>4, <1>5, <1>6, PTL DEF Dash!Spec, ReadersSpec
=============================================================================
