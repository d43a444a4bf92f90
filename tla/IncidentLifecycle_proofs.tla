----------------------- MODULE IncidentLifecycle_proofs -----------------------
(***************************************************************************)
(* For every ladder, every clock and every number of ids, edits, crashes   *)
(* and locked commits: what the pure engine returns, types, the agreement  *)
(* of rung counters and incident (IN-03), that tables and buffers together *)
(* mirror memory as long as no commit was dropped (IN-02), and what follows *)
(* from that for the backoff schedule, for raises, for the unique index of  *)
(* live rows and for cleared ones.                                          *)
(***************************************************************************)
EXTENDS IncidentLifecycle, WellFoundedInduction, FiniteSetTheorems,
        SequenceTheorems, TLAPS

-----------------------------------------------------------------------------
(* What every step of the pure engine returns and preserves, for every     *)
(* ladder and every evaluation.                                            *)

(* A nonempty set of naturals has a least element.                         *)
LEMMA LeastNatural ==
    ASSUME NEW S \in SUBSET Nat, S # {}
    PROVE  \E x \in S : \A y \in S : x <= y
<1>1. \E x \in S : \A y \in S : ~(<<y, x>> \in OpToRel(<, Nat))
  BY WFMin, NatLessThanWellFounded
<1>2. PICK x \in S : \A y \in S : ~(<<y, x>> \in OpToRel(<, Nat))
  BY <1>1
<1>3. ASSUME NEW y \in S PROVE x <= y
  <2>1. x \in Nat /\ y \in Nat
    OBVIOUS
  <2>2. ~(<<y, x>> \in {ss \in Nat \X Nat : ss[1] < ss[2]})
    BY <1>2 DEF OpToRel
  <2>3. <<y, x>> \in Nat \X Nat
    BY <2>1
  <2>4. ~(y < x)
    BY <2>2, <2>3
  <2> QED
    BY <2>1, <2>4
<1> QED
  BY <1>3

(* The owning rung is a confirmed one, and no confirmed rung outranks it.  *)
LEMMA OwningIsFirst ==
    ASSUME NEW rungs, Confirmed(rungs) # {}
    PROVE  /\ Owning(rungs) \in Confirmed(rungs)
           /\ Owning(rungs) \in Rung
           /\ \A s \in Confirmed(rungs) : Owning(rungs) <= s
<1>1. Confirmed(rungs) \in SUBSET Nat
  BY DEF Confirmed, Rung
<1>2. \E r \in Confirmed(rungs) : \A s \in Confirmed(rungs) : r <= s
  BY <1>1, LeastNatural
<1> QED
  BY <1>2 DEF Owning, Confirmed, Rung

(* The rungs are sorted, so the first confirmed one has the top severity.  *)
LEMMA OwningHasTopSeverity ==
    ASSUME NEW rungs, Confirmed(rungs) # {}
    PROVE  Top(rungs, Severity[Owning(rungs)])
<1>1. ASSUME NEW s \in Confirmed(rungs)
      PROVE  Severity[s] <= Severity[Owning(rungs)]
  <2>1. s \in Rung /\ Owning(rungs) \in Rung /\ Owning(rungs) <= s
    BY OwningIsFirst DEF Confirmed
  <2>2. CASE Owning(rungs) = s
    <3>1. Severity[s] \in 1..4
      BY <2>1, EngineAssumption DEF Rung
    <3> QED
      BY <2>2, <3>1
  <2>3. CASE Owning(rungs) < s
    BY <2>1, <2>3, EngineAssumption DEF Rung
  <2> QED
    BY <2>1, <2>2, <2>3 DEF Rung
<1> QED
  BY <1>1, OwningIsFirst DEF Top

LEMMA StepRungType ==
    ASSUME NEW r \in Rung, NEW rs \in RungState, NEW result \in TriBool
    PROVE  StepRung(r, rs, result) \in RungState
BY EngineAssumption DEF StepRung, RungState, TriBool, AtMost, Rung

LEMMA StepRungsType ==
    ASSUME NEW rungs \in [Rung -> RungState], NEW evals \in [Rung -> TriBool]
    PROVE  StepRungs(rungs, evals) \in [Rung -> RungState]
BY StepRungType DEF StepRungs

LEMMA FreshRungsAreQuiet ==
    FreshRungs \in [Rung -> RungState] /\ Confirmed(FreshRungs) = {}
BY DEF FreshRungs, FreshRung, RungState, Confirmed

LEMMA EmptyStateIsCoherent == EmptyState \in GroupState /\ Coherent(EmptyState)
BY FreshRungsAreQuiet, EngineAssumption
   DEF EmptyState, GroupState, Coherent, NoCore, Core, Live, LiveStates

LEMMA OpenCoreType ==
    ASSUME NEW prior \in Core, NEW owner \in Rung, NEW t \in Nat
    PROVE  /\ OpenCore(prior, owner, t) \in Core
           /\ Live(OpenCore(prior, owner, t))
           /\ OpenCore(prior, owner, t).owner = owner
           /\ OpenCore(prior, owner, t).sev = Severity[owner]
<1>1. RecentClears(prior.flaps, t) \in SUBSET Nat
  BY DEF RecentClears, Core
<1>2. Severity[owner] \in 0..4 /\ owner \in 0..NRungs
  BY EngineAssumption DEF Rung
<1>3. (IF Flapping(RecentClears(prior.flaps, t)) THEN LastTier ELSE 0)
        \in 0..LastTier
  BY EngineAssumption
<1> QED
  BY <1>1, <1>2, <1>3 DEF OpenCore, Core, Live, LiveStates

LEMMA ClearCoreType ==
    ASSUME NEW core \in Core, NEW t \in Nat, NEW reason
    PROVE  LET cleared == ClearCore(core, t, reason)
           IN /\ cleared.core \in Core
              /\ ~Live(cleared.core)
              /\ cleared.effect \in Effect
<1>1. LatestClears(core.flaps \cup {t}) \in SUBSET Nat
  BY DEF LatestClears, Core
<1> QED
  BY <1>1 DEF ClearCore, Core, Live, LiveStates, Effect, RecordKind, NoteKind

(* A live incident on a ladder with a confirmed rung leaves _update_open   *)
(* owned by a rung of the severity it reports.                             *)
LEMMA UpdateOpenIsCoherent ==
    ASSUME NEW core \in Core, NEW rungs \in [Rung -> RungState],
           NEW evals \in [Rung -> TriBool], NEW t \in Nat,
           Live(core), Confirmed(rungs) # {},
           core.owner \in Rung, core.sev = Severity[core.owner]
    PROVE  LET step == UpdateOpen(core, rungs, evals, t)
           IN /\ step \in Step
              /\ Coherent([rungs |-> step.rungs, core |-> step.core])
<1> DEFINE owner == Owning(rungs)
           step == UpdateOpen(core, rungs, evals, t)
<1>1. owner \in Rung /\ Top(rungs, Severity[owner])
  BY OwningIsFirst, OwningHasTopSeverity
<1>2. Severity[owner] \in 1..4 /\ Severity[owner] \in 0..4
      /\ core.sev \in 0..4 /\ owner \in 0..NRungs
  <2> HIDE DEF owner
  <2>1. Severity[owner] \in 1..4 /\ owner \in 1..NRungs
    BY <1>1, EngineAssumption DEF Rung
  <2>2. NRungs \in Nat /\ core.sev \in 0..4
    BY EngineAssumption DEF Core
  <2> QED
    BY <2>1, <2>2
<1> HIDE DEF owner
<1>3. CASE Severity[owner] > core.sev
  <2> DEFINE next == Escalated(core, owner, t)
  <2>1. step = [rungs |-> rungs, core |-> next,
                effect |-> [record |-> "escalate", note |-> "escalate"]]
    BY <1>3, <1>2 DEF UpdateOpen, owner
  <2>2. core.nc + 1 \in Nat /\ 0 \in 0..LastTier
    <3>1. core.nc \in Nat
      BY DEF Core
    <3>2. LastTier \in Nat
      BY EngineAssumption
    <3> QED
      BY <3>1, <3>2
  <2>3. next \in Core
    BY <1>2, <2>2 DEF Escalated, Core
  <2>4. Live(next) /\ next.owner = owner /\ next.sev = Severity[owner]
    BY DEF Escalated, Core, Live, LiveStates
  <2> HIDE DEF next
  <2>5. step \in Step
    BY <2>1, <2>3 DEF Step, Effect, RecordKind, NoteKind
  <2> QED
    BY <1>1, <2>1, <2>4, <2>5 DEF Coherent
<1>4. CASE Severity[owner] < core.sev
  <2> DEFINE next == Downgraded(core, owner)
  <2>1. step = [rungs |-> rungs, core |-> next,
                effect |-> [record |-> "downgrade", note |-> "none"]]
    BY <1>4, <1>2 DEF UpdateOpen, owner
  <2>2. next \in Core
    BY <1>2 DEF Downgraded, Core
  <2>3. Live(next) /\ next.owner = owner /\ next.sev = Severity[owner]
    BY DEF Downgraded, Core, Live, LiveStates
  <2> HIDE DEF next
  <2>4. step \in Step
    BY <2>1, <2>2 DEF Step, Effect, RecordKind, NoteKind
  <2> QED
    BY <1>1, <2>1, <2>3, <2>4 DEF Coherent
<1>5. CASE Severity[owner] = core.sev /\ RenotifyDue(core, owner, evals, t)
  <2> DEFINE next == Renotified(core, t)
  <2>1. step = [rungs |-> rungs, core |-> next,
                effect |-> [record |-> "none", note |-> "renotify"]]
    BY <1>5, <1>2 DEF UpdateOpen, owner
  <2>2. core.nc + 1 \in Nat /\ AtMost(core.tier + 1, LastTier) \in 0..LastTier
    <3>1. core.nc \in Nat /\ core.tier \in 0..LastTier
      BY DEF Core
    <3>2. LastTier \in Nat
      BY EngineAssumption
    <3> QED
      BY <3>1, <3>2 DEF AtMost
  <2>3. next \in Core
    BY <2>2 DEF Renotified, Core
  <2>4. Live(next) /\ next.owner = core.owner /\ next.sev = core.sev
    BY DEF Renotified, Core, Live, LiveStates
  <2> HIDE DEF next
  <2>5. step \in Step
    BY <2>1, <2>3 DEF Step, Effect, RecordKind, NoteKind
  <2> QED
    BY <1>1, <1>5, <2>1, <2>4, <2>5 DEF Coherent
<1>6. CASE Severity[owner] = core.sev /\ ~RenotifyDue(core, owner, evals, t)
  <2>1. step = [rungs |-> rungs, core |-> core,
                effect |-> [record |-> "none", note |-> "none"]]
    BY <1>6, <1>2 DEF UpdateOpen, owner
  <2> QED
    BY <1>1, <1>6, <2>1 DEF Step, Effect, RecordKind, NoteKind, Coherent
<1> QED
  BY <1>2, <1>3, <1>4, <1>5, <1>6

(* One evaluation of a ladder keeps counters and incident coherent.        *)
LEMMA StepGroupIsCoherent ==
    ASSUME NEW st \in GroupState, Coherent(st),
           NEW evals \in [Rung -> TriBool], NEW t \in Nat
    PROVE  LET step == StepGroup(st, evals, t)
           IN /\ step \in Step
              /\ Coherent([rungs |-> step.rungs, core |-> step.core])
<1> DEFINE rungs == StepRungs(st.rungs, evals)
           step == StepGroup(st, evals, t)
           opened == OpenCore(st.core, Owning(rungs), t)
           cleared == ClearCore(st.core, t, "recovered")
<1>1. rungs \in [Rung -> RungState] /\ st.core \in Core
  BY StepRungsType DEF GroupState
<1> HIDE DEF rungs
<1>2. CASE ~Live(st.core) /\ Confirmed(rungs) = {}
  <2>1. step = [rungs |-> rungs, core |-> st.core, effect |-> NoEffect]
    BY <1>2 DEF StepGroup, rungs
  <2> QED
    BY <1>1, <1>2, <2>1
       DEF Step, Effect, NoEffect, RecordKind, NoteKind, Coherent
<1>3. CASE ~Live(st.core) /\ Confirmed(rungs) # {}
  <2>1. step = [rungs |-> rungs, core |-> opened,
                effect |-> [record |-> "open", note |-> "open"]]
    BY <1>3 DEF StepGroup, rungs
  <2>2. Owning(rungs) \in Rung /\ Top(rungs, Severity[Owning(rungs)])
    BY <1>3, OwningIsFirst, OwningHasTopSeverity
  <2>3. /\ opened \in Core /\ Live(opened)
        /\ opened.owner = Owning(rungs) /\ opened.sev = Severity[Owning(rungs)]
    BY <1>1, <2>2, OpenCoreType
  <2> HIDE DEF opened
  <2> QED
    BY <1>1, <1>3, <2>1, <2>2, <2>3
       DEF Step, Effect, RecordKind, NoteKind, Coherent
<1>4. CASE Live(st.core) /\ Confirmed(rungs) = {}
  <2>1. step = [rungs |-> rungs, core |-> cleared.core,
                effect |-> cleared.effect]
    BY <1>4 DEF StepGroup, rungs
  <2>2. cleared.core \in Core /\ ~Live(cleared.core) /\ cleared.effect \in Effect
    BY <1>1, ClearCoreType
  <2> HIDE DEF cleared
  <2> QED
    BY <1>1, <1>4, <2>1, <2>2 DEF Step, Coherent
<1>5. CASE Live(st.core) /\ Confirmed(rungs) # {}
  <2>1. step = UpdateOpen(st.core, rungs, evals, t)
    BY <1>5 DEF StepGroup, rungs
  <2>2. st.core.owner \in Rung /\ st.core.sev = Severity[st.core.owner]
    BY <1>5 DEF Coherent
  <2> QED
    BY <1>1, <1>5, <2>1, <2>2, UpdateOpenIsCoherent
<1> QED
  BY <1>2, <1>3, <1>4, <1>5

(* Clearing outright leaves no confirmed rung behind a closed incident.    *)
LEMMA ClearOutrightIsCoherent ==
    ASSUME NEW st \in GroupState, Coherent(st), NEW t \in Nat, NEW reason
    PROVE  LET step == ClearOutright(st, t, reason)
           IN /\ step \in Step
              /\ Coherent([rungs |-> step.rungs, core |-> step.core])
              /\ ~Live(step.core)
<1> DEFINE cleared == ClearCore(st.core, t, reason)
           step == ClearOutright(st, t, reason)
<1>1. CASE Live(st.core)
  <2>1. step = [rungs |-> FreshRungs, core |-> cleared.core,
                effect |-> cleared.effect]
    BY <1>1 DEF ClearOutright
  <2>2. cleared.core \in Core /\ ~Live(cleared.core) /\ cleared.effect \in Effect
    BY ClearCoreType DEF GroupState
  <2> HIDE DEF cleared
  <2> QED
    BY <2>1, <2>2, FreshRungsAreQuiet DEF Step, Coherent
<1>2. CASE ~Live(st.core)
  BY <1>2
     DEF ClearOutright, GroupState, Step, Effect, NoEffect, RecordKind,
         NoteKind, Coherent
<1> QED
  BY <1>1, <1>2

-----------------------------------------------------------------------------
(* The daemon around it. *)

(* Rows carry what a restart needs to rebuild a coherent ladder.           *)
IInv == TypeOK /\ SeverityIsTop /\ RowsNameTheirOwner

(* The same facts about the working state of a tick.                       *)
Working == [mem : GroupState, pend : Pending, nextId : Nat]
Sound(w) ==
    /\ w \in Working /\ Coherent(w.mem)
    /\ \A i \in Id : NamesItsOwner(w.pend.rows[i])

LEMMA MaxOfIsNatural ==
    ASSUME NEW S \in SUBSET Nat PROVE MaxOf(S) \in Nat
BY DEF MaxOf

LEMMA AllocIdType == ASSUME NEW w \in Working PROVE AllocId(w) \in Nat
<1>1. {i \in Id : rows[i].state # "none"} \in SUBSET Nat
  BY DEF Id
<1> QED
  BY <1>1, MaxOfIsNatural DEF AllocId, Working

LEMMA NoPendingIsSound ==
    NoPending \in Pending /\ \A i \in Id : NamesItsOwner(NoPending.rows[i])
BY EngineAssumption
   DEF NoPending, Pending, NoRow, Row, NamesItsOwner, LiveStates

LEMMA RowOfType ==
    ASSUME NEW core \in Core, Live(core) => core.owner \in Rung
                                            /\ core.sev = Severity[core.owner]
    PROVE  RowOf(core) \in Row /\ NamesItsOwner(RowOf(core))
BY DEF RowOf, Core, Row, NamesItsOwner, Live, Flapping

(* The executor stores what the engine decided, and nothing else.          *)
LEMMA ApplyIsSound ==
    ASSUME NEW w, Sound(w), NEW step \in Step, NEW t \in Nat,
           Coherent([rungs |-> step.rungs, core |-> step.core])
    PROVE  Sound(Apply(w, step, t))
<1> DEFINE fresh == step.core.id = 0
           id == IF fresh THEN AllocId(w) ELSE step.core.id
           core == [step.core EXCEPT !.id = id]
           sent == IF step.effect.note = "none" THEN <<>>
                   ELSE <<[kind |-> step.effect.note, ts |-> t]>>
           pending == [w.pend EXCEPT !.rows[id] = RowOf(core),
                                     !.notes[id] = @ \o sent]
<1>1. CASE step.effect = NoEffect
  <2>1. Apply(w, step, t) =
          [w EXCEPT !.mem = [rungs |-> step.rungs, core |-> step.core]]
    BY <1>1 DEF Apply
  <2>2. [rungs |-> step.rungs, core |-> step.core] \in GroupState
    BY DEF Step, GroupState
  <2> QED
    BY <2>1, <2>2 DEF Sound, Working
<1>2. CASE step.effect # NoEffect
  <2>1. Apply(w, step, t) =
          [mem |-> [rungs |-> step.rungs, core |-> core],
           nextId |-> IF fresh THEN id + 1 ELSE w.nextId, pend |-> pending]
    BY <1>2 DEF Apply
  <2>2. id \in Nat /\ (IF fresh THEN id + 1 ELSE w.nextId) \in Nat
    BY AllocIdType DEF Step, Core, Sound, Working
  <2>3. core \in Core /\ Live(core) = Live(step.core)
        /\ core.owner = step.core.owner /\ core.sev = step.core.sev
    BY <2>2 DEF Step, Core, Live
  <2>4. Coherent([rungs |-> step.rungs, core |-> core])
    BY <2>3 DEF Coherent
  <2>5. [rungs |-> step.rungs, core |-> core] \in GroupState
    BY <2>3 DEF Step, GroupState
  <2>6. RowOf(core) \in Row /\ NamesItsOwner(RowOf(core))
    BY <2>3, <2>4, RowOfType DEF Coherent
  <2>7. sent \in Seq(Note)
    <3>1. step.effect.note \in NoteKind
      BY DEF Step, Effect
    <3>2. [kind |-> step.effect.note, ts |-> t] \in Note
      BY <3>1 DEF Note
    <3> QED
      BY <3>2
  <2>8. pending \in Pending /\ \A i \in Id : NamesItsOwner(pending.rows[i])
    <3> HIDE DEF core, id, sent
    <3>1. w.pend \in Pending /\ \A i \in Id : NamesItsOwner(w.pend.rows[i])
      BY DEF Sound, Working
    <3>2. \A i \in Id : w.pend.notes[i] \o sent \in Seq(Note)
      BY <2>7, <3>1, ConcatProperties DEF Pending
    <3>3. /\ pending.rows = [w.pend.rows EXCEPT ![id] = RowOf(core)]
          /\ pending.notes = [w.pend.notes EXCEPT ![id] = @ \o sent]
          /\ pending.load = w.pend.load
      BY <3>1 DEF Pending
    <3>7. pending = [rows |-> pending.rows, notes |-> pending.notes,
                     load |-> pending.load]
      <4>1. pending = [w.pend EXCEPT !.rows = pending.rows,
                                     !.notes = pending.notes]
        BY <3>1, <3>3 DEF Pending
      <4> HIDE DEF pending
      <4> QED
        BY <3>1, <3>3, <4>1 DEF Pending
    <3>4. pending.rows \in [Id -> Row]
      BY <2>6, <3>1, <3>3 DEF Pending
    <3>5. pending.notes \in [Id -> Seq(Note)]
      BY <3>1, <3>2, <3>3 DEF Pending
    <3>6. \A i \in Id : NamesItsOwner(pending.rows[i])
      BY <2>6, <3>1, <3>3 DEF Pending
    <3> HIDE DEF pending
    <3> QED
      BY <3>1, <3>3, <3>4, <3>5, <3>6, <3>7 DEF Pending
  <2> HIDE DEF pending, core, id, fresh
  <2> QED
    BY <2>1, <2>2, <2>4, <2>5, <2>8 DEF Sound, Working
<1> QED
  BY <1>1, <1>2

LEMMA ForgetIsSound == ASSUME NEW w, Sound(w) PROVE Sound(Forget(w))
BY EmptyStateIsCoherent DEF Sound, Forget, Working

LEMMA ClearedIsSound ==
    ASSUME NEW w, Sound(w), NEW t \in Nat, NEW reason
    PROVE  Sound(Apply(w, ClearOutright(w.mem, t, reason), t))
<1>1. w.mem \in GroupState /\ Coherent(w.mem)
  BY DEF Sound, Working
<1> QED
  BY <1>1, ClearOutrightIsCoherent, ApplyIsSound

LEMMA EvaluatedIsSound ==
    ASSUME NEW w, Sound(w), NEW evals \in [Rung -> TriBool], NEW t \in Nat
    PROVE  Sound(Evaluated(w, evals, t))
<1>1. w.mem \in GroupState /\ Coherent(w.mem)
  BY DEF Sound, Working
<1> QED
  BY <1>1, StepGroupIsCoherent, ApplyIsSound DEF Evaluated

LEMMA ReloadedIsSound ==
    ASSUME NEW w, Sound(w), NEW t \in Nat PROVE Sound(Reloaded(w, t))
<1> DEFINE forgotten == Forget(Apply(w, ClearOutright(w.mem, t, "superseded"), t))
<1>1. Sound(forgotten)
  BY ClearedIsSound, ForgetIsSound
<1> HIDE DEF forgotten
<1>2. Sound([forgotten EXCEPT !.pend.load = TRUE])
  BY <1>1 DEF Sound, Working, Pending
<1> QED
  BY <1>2 DEF Reloaded, forgotten

LEMMA AcksSeenIsSound == ASSUME NEW w, Sound(w) PROVE Sound(AcksSeen(w))
<1> SUFFICES ASSUME w.mem.core.state = "open"
             PROVE  Sound([w EXCEPT !.mem.core.state = "acked"])
  BY DEF AcksSeen
<1> DEFINE acked == [w EXCEPT !.mem.core.state = "acked"]
<1>1. acked \in Working
  BY DEF Sound, Working, GroupState, Core
<1>2. acked.mem.rungs = w.mem.rungs /\ acked.pend = w.pend
      /\ Live(acked.mem.core) /\ Live(w.mem.core)
      /\ acked.mem.core.owner = w.mem.core.owner
      /\ acked.mem.core.sev = w.mem.core.sev
  BY DEF Sound, Working, GroupState, Core, Live, LiveStates
<1> HIDE DEF acked
<1>3. Sound(acked)
  BY <1>1, <1>2 DEF Sound, Coherent
<1> QED
  BY <1>3 DEF acked

LEMMA BegunIsSound ==
    ASSUME IInv, NEW scan \in BOOLEAN, NEW t \in Nat
    PROVE  Sound(Begun(scan, t))
<1> DEFINE w == [mem |-> mem, pend |-> pend, nextId |-> nextId]
<1>1. Sound(w)
  BY DEF IInv, TypeOK, SeverityIsTop, RowsNameTheirOwner, Sound, Working
<1> HIDE DEF w
<1>2. Sound(AcksSeen(Reloaded(w, t)))
  BY <1>1, ReloadedIsSound, AcksSeenIsSound
<1> QED
  BY <1>1, <1>2 DEF Begun, w

LEMMA TickTimesAreNatural == TypeOK => TickTimes \in SUBSET Nat
BY LifecycleAssumption DEF TypeOK, TickTimes, AtMost

(* Whatever sound state a tick ends with, the invariant holds of it.       *)
LEMMA BufferKeepsIInv ==
    ASSUME IInv, NEW done, Sound(done), NEW scan \in BOOLEAN, NEW t \in Nat,
           Buffer(done, scan, t)
    PROVE  IInv'
<1>1. TypeOK'
  BY DEF IInv, TypeOK, Buffer, Sound, Working
<1>2. SeverityIsTop' /\ RowsNameTheirOwner'
  BY DEF IInv, SeverityIsTop, RowsNameTheirOwner, Buffer, Sound
<1> QED
  BY <1>1, <1>2 DEF IInv

-----------------------------------------------------------------------------
(* One lemma per action. *)

LEMMA TicksKeepIInv ==
    ASSUME IInv,
           (\E evals \in [Rung -> TriBool] : TickEvaluates(evals))
             \/ TickPasses \/ TickGone
    PROVE  IInv'
<1>1. TickTimes \in SUBSET Nat
  BY TickTimesAreNatural DEF IInv
<1>2. ASSUME NEW evals \in [Rung -> TriBool], TickEvaluates(evals) PROVE IInv'
  <2>1. PICK t \in TickTimes, scan \in BOOLEAN :
          Buffer(Evaluated(Begun(scan, t), evals, t), scan, t)
    BY <1>2 DEF TickEvaluates
  <2>2. t \in Nat
    BY <1>1
  <2>3. Sound(Evaluated(Begun(scan, t), evals, t))
    BY <2>2, BegunIsSound, EvaluatedIsSound
  <2> QED
    BY <2>1, <2>2, <2>3, BufferKeepsIInv
<1>3. CASE TickPasses
  <2>1. PICK t \in TickTimes, scan \in BOOLEAN : Buffer(Begun(scan, t), scan, t)
    BY <1>3 DEF TickPasses
  <2>2. t \in Nat
    BY <1>1
  <2> QED
    BY <2>1, <2>2, BegunIsSound, BufferKeepsIInv
<1>4. CASE TickGone
  <2>1. PICK t \in TickTimes, scan \in BOOLEAN :
          Buffer(Gone(Begun(scan, t), t), scan, t)
    BY <1>4 DEF TickGone
  <2>2. t \in Nat
    BY <1>1
  <2>3. Sound(Gone(Begun(scan, t), t))
    BY <2>2, BegunIsSound, ClearedIsSound, ForgetIsSound DEF Gone
  <2> QED
    BY <2>1, <2>2, <2>3, BufferKeepsIInv
<1> QED
  BY <1>2, <1>3, <1>4

LEMMA MergedType ==
    ASSUME IInv
    PROVE  Merged \in [Id -> Row] /\ \A i \in Id : NamesItsOwner(Merged[i])
<1>1. pend.rows \in [Id -> Row] /\ rows \in [Id -> Row]
  BY DEF IInv, TypeOK, Pending
<1>2. ASSUME NEW i \in Id PROVE Merged[i] \in Row /\ NamesItsOwner(Merged[i])
  <2>1. CASE pend.rows[i].state = "none"
    BY <2>1, <1>1 DEF Merged, IInv, RowsNameTheirOwner
  <2>2. CASE pend.rows[i].state # "none"
    <3> DEFINE opened == IF rows[i].state = "none" THEN pend.rows[i].opened
                         ELSE rows[i].opened
    <3>1. Merged[i] = [pend.rows[i] EXCEPT !.opened = opened]
      BY <2>2 DEF Merged
    <3>2. opened \in Nat /\ pend.rows[i] \in Row
      BY <1>1 DEF Row
    <3> HIDE DEF opened
    <3>3. Merged[i] \in Row /\ Merged[i].state = pend.rows[i].state
          /\ Merged[i].owner = pend.rows[i].owner
          /\ Merged[i].sev = pend.rows[i].sev
      BY <3>1, <3>2 DEF Row
    <3>4. NamesItsOwner(pend.rows[i])
      BY DEF IInv, RowsNameTheirOwner
    <3> QED
      BY <3>3, <3>4 DEF NamesItsOwner
  <2> QED
    BY <2>1, <2>2
<1> QED
  BY <1>2 DEF Merged

LEMMA CommitSucceedsKeepsIInv == IInv /\ CommitSucceeds => IInv'
<1> SUFFICES ASSUME IInv, CommitSucceeds PROVE IInv'
  OBVIOUS
<1>1. rows' \in [Id -> Row] /\ \A i \in Id : NamesItsOwner(rows'[i])
  BY MergedType DEF CommitSucceeds
<1>2. notes' \in [Id -> Seq(Note)]
  <2>1. \A i \in Id : notes[i] \o pend.notes[i] \in Seq(Note)
    BY ConcatProperties DEF IInv, TypeOK, Pending
  <2> QED
    BY <2>1 DEF CommitSucceeds
<1>3. hash' \in [disk : Nat, mem : Nat, db : Nat]
  BY DEF CommitSucceeds, IInv, TypeOK
<1>4. pend' \in Pending /\ \A i \in Id : NamesItsOwner(pend'.rows[i])
  BY NoPendingIsSound DEF CommitSucceeds
<1>5. TypeOK'
  BY <1>1, <1>2, <1>3, <1>4 DEF CommitSucceeds, IInv, TypeOK
<1> QED
  BY <1>1, <1>4, <1>5
     DEF CommitSucceeds, IInv, SeverityIsTop, RowsNameTheirOwner

LEMMA CommitLockedKeepsIInv == IInv /\ CommitLocked => IInv'
BY NoPendingIsSound
   DEF CommitLocked, IInv, TypeOK, SeverityIsTop, RowsNameTheirOwner

LEMMA StoppingKeepsIInv == IInv /\ (CommitRaises \/ Crash) => IInv'
BY NoPendingIsSound, EmptyStateIsCoherent
   DEF CommitRaises, Crash, Stopped, IInv, TypeOK, SeverityIsTop,
       RowsNameTheirOwner

LEMMA AckKeepsIInv ==
    ASSUME IInv, NEW i \in Id, Ack(i) PROVE IInv'
<1>1. rows' = [rows EXCEPT ![i].state = "acked"] /\ rows[i].state = "open"
      /\ rows \in [Id -> Row]
  BY DEF Ack, IInv, TypeOK
<1>2. rows' \in [Id -> Row]
  BY <1>1 DEF Row
<1>3. ASSUME NEW j \in Id PROVE NamesItsOwner(rows'[j])
  BY <1>1 DEF IInv, RowsNameTheirOwner, NamesItsOwner, LiveStates, Row
<1>4. TypeOK'
  BY <1>2 DEF Ack, IInv, TypeOK
<1> QED
  BY <1>3, <1>4 DEF Ack, IInv, SeverityIsTop, RowsNameTheirOwner

LEMMA EditKeepsIInv == IInv /\ EditDefinition => IInv'
BY DEF EditDefinition, IInv, TypeOK, SeverityIsTop, RowsNameTheirOwner

(* A live row is rebuilt into a ladder whose only confirmed rung is the    *)
(* row's owner, so the incident it restores is coherent.                   *)
LEMMA RebuiltIsCoherent ==
    ASSUME IInv, NEW i \in LiveRows(rows)
    PROVE  Rebuilt(i) \in GroupState /\ Coherent(Rebuilt(i))
<1> DEFINE owner == rows[i].owner
<1>1. /\ i \in Id /\ rows[i] \in Row /\ rows[i].state \in LiveStates
      /\ owner \in Rung /\ rows[i].sev = Severity[owner]
  BY DEF LiveRows, IInv, TypeOK, RowsNameTheirOwner, NamesItsOwner
<1>2. RebuiltCore(i) \in Core
  <2>1. {notes[i][k].ts : k \in DOMAIN notes[i]} \in SUBSET Nat
    <3>1. \A k \in DOMAIN notes[i] : notes[i][k] \in Note
      BY <1>1, ElementOfSeq DEF IInv, TypeOK
    <3> QED
      BY <3>1 DEF Note
  <2>2. MaxOf({notes[i][k].ts : k \in DOMAIN notes[i]}) \in Nat
    BY <2>1, MaxOfIsNatural
  <2>3. (IF notes[i] = <<>> THEN rows[i].opened
         ELSE MaxOf({notes[i][k].ts : k \in DOMAIN notes[i]})) \in Nat
    BY <1>1, <2>2 DEF Row
  <2>4. (IF rows[i].flapping THEN LastTier
         ELSE AtMost(IF rows[i].nc = 0 THEN 0 ELSE rows[i].nc - 1, LastTier))
          \in 0..LastTier
    <3> DEFINE renotified == IF rows[i].nc = 0 THEN 0 ELSE rows[i].nc - 1
    <3>1. renotified \in Nat
      BY <1>1 DEF Row
    <3> HIDE DEF renotified
    <3>2. AtMost(renotified, LastTier) \in 0..LastTier
          /\ LastTier \in 0..LastTier
      BY <3>1, EngineAssumption DEF AtMost
    <3> QED
      BY <3>2 DEF renotified
  <2>5. i \in Nat /\ rows[i].state \in {"none", "open", "acked", "cleared"}
        /\ rows[i].sev \in 0..4 /\ rows[i].owner \in 0..NRungs
        /\ rows[i].opened \in Nat /\ rows[i].nc \in Nat
    BY <1>1 DEF Id, Row
  <2> QED
    BY <2>3, <2>4, <2>5 DEF RebuiltCore, Core
<1>3. Rebuilt(i).rungs \in [Rung -> RungState]
      /\ Confirmed(Rebuilt(i).rungs) = {owner}
  BY <1>1, EngineAssumption
     DEF Rebuilt, RungState, FreshRung, Confirmed, Rung
<1>4. /\ Rebuilt(i).core = RebuiltCore(i) /\ Live(RebuiltCore(i))
      /\ RebuiltCore(i).owner = owner /\ RebuiltCore(i).sev = Severity[owner]
  BY <1>1 DEF Rebuilt, RebuiltCore, Live
<1>5. Rebuilt(i) = [rungs |-> Rebuilt(i).rungs, core |-> RebuiltCore(i)]
  BY DEF Rebuilt
<1>6. Severity[owner] \in 1..4
  BY <1>1, EngineAssumption DEF Rung
<1> HIDE DEF owner
<1>7. Top(Rebuilt(i).rungs, Severity[owner])
  BY <1>3, <1>6 DEF Top
<1>8. Rebuilt(i) \in GroupState
  BY <1>2, <1>3, <1>5 DEF GroupState
<1> QED
  BY <1>1, <1>3, <1>4, <1>7, <1>8 DEF Coherent

LEMMA RestartKeepsIInv == IInv /\ Restart => IInv'
<1> SUFFICES ASSUME IInv, Restart PROVE IInv'
  OBVIOUS
<1>1. mem' \in GroupState /\ Coherent(mem')
  <2>1. CASE SupersededAtStart \/ LiveRows(rows) = {}
    BY <2>1, EmptyStateIsCoherent DEF Restart
  <2>2. CASE ~(SupersededAtStart \/ LiveRows(rows) = {})
    <3>1. (CHOOSE i \in LiveRows(rows) : TRUE) \in LiveRows(rows)
      BY <2>2
    <3> QED
      BY <2>2, <3>1, RebuiltIsCoherent DEF Restart
  <2> QED
    BY <2>1, <2>2
<1>2. ASSUME NEW i \in Id
      PROVE  SupersededRow(i) \in Row /\ NamesItsOwner(SupersededRow(i))
  <2> DEFINE flapping == Flapping(LatestClears({now}))
  <2>1. rows[i] \in Row /\ flapping \in BOOLEAN
    BY DEF IInv, TypeOK, Flapping
  <2> HIDE DEF flapping
  <2>2. [rows[i] EXCEPT !.state = "cleared", !.flapping = flapping] \in Row
    BY <2>1 DEF Row
  <2>3. [rows[i] EXCEPT !.state = "cleared", !.flapping = flapping].state
          = "cleared"
    BY <2>1 DEF Row
  <2> QED
    BY <2>2, <2>3 DEF SupersededRow, NamesItsOwner, LiveStates, flapping
<1>3. pend' \in Pending /\ \A i \in Id : NamesItsOwner(pend'.rows[i])
  <2> DEFINE starts == [i \in Id |-> IF SupersededAtStart /\ i \in LiveRows(rows)
                                     THEN SupersededRow(i) ELSE NoRow]
  <2>1. pend' = [rows |-> starts, notes |-> [i \in Id |-> <<>>], load |-> TRUE]
    <3>1. pend' = [NoPending EXCEPT !.load = TRUE, !.rows = starts]
      BY DEF Restart
    <3> HIDE DEF starts
    <3> QED
      BY <3>1 DEF NoPending
  <2>2. NoRow \in Row /\ NamesItsOwner(NoRow)
    BY EngineAssumption DEF NoRow, Row, NamesItsOwner, LiveStates
  <2>3. starts \in [Id -> Row] /\ \A i \in Id : NamesItsOwner(starts[i])
    BY <1>2, <2>2
  <2> HIDE DEF starts
  <2> QED
    BY <2>1, <2>3 DEF Pending
<1>4. TypeOK'
  BY <1>1, <1>3, LifecycleAssumption DEF Restart, IInv, TypeOK
<1> QED
  BY <1>1, <1>3, <1>4 DEF Restart, IInv, SeverityIsTop, RowsNameTheirOwner

LEMMA InitEstablishesIInv == Init => IInv
BY NoPendingIsSound, EmptyStateIsCoherent, EngineAssumption
   DEF Init, IInv, TypeOK, SeverityIsTop, RowsNameTheirOwner, NoRow, Row,
       NamesItsOwner, LiveStates

LEMMA NextKeepsIInv == IInv /\ [Next]_vars => IInv'
<1> SUFFICES ASSUME IInv, [Next]_vars PROVE IInv'
  OBVIOUS
<1>1. CASE UNCHANGED vars
  BY <1>1 DEF vars, IInv, TypeOK, SeverityIsTop, RowsNameTheirOwner
<1>2. CASE (\E evals \in [Rung -> TriBool] : TickEvaluates(evals))
             \/ TickPasses \/ TickGone
  BY <1>2, TicksKeepIInv
<1>3. CASE CommitSucceeds
  BY <1>3, CommitSucceedsKeepsIInv
<1>4. CASE CommitLocked
  BY <1>4, CommitLockedKeepsIInv
<1>5. CASE CommitRaises \/ Crash
  BY <1>5, StoppingKeepsIInv
<1>6. CASE Restart
  BY <1>6, RestartKeepsIInv
<1>7. CASE EditDefinition
  BY <1>7, EditKeepsIInv
<1>8. CASE \E i \in Id : Ack(i)
  BY <1>8, AckKeepsIInv
<1> HIDE DEF IInv
<1> QED
  BY <1>1, <1>2, <1>3, <1>4, <1>5, <1>6, <1>7, <1>8, Zenon DEF Next

LEMMA IInvAlways == Spec => []IInv
BY InitEstablishesIInv, NextKeepsIInv, PTL DEF Spec

(* Every variable of the daemon, of its buffers and of the tables keeps    *)
(* its type, for every ladder and every interleaving.                      *)
THEOREM TypeCorrect == Spec => []TypeOK
BY IInvAlways, PTL DEF IInv

(* IN-03 for every ladder: severity and liveness of the incident agree     *)
(* with the rung counters in every reachable state, restarts included.     *)
THEOREM SeverityIsAlwaysTop == Spec => []SeverityIsTop
BY IInvAlways, PTL DEF IInv

(* Every live row, stored or buffered, names the rung it belongs to, which *)
(* is what a restart rebuilds from.                                        *)
THEOREM RowsAlwaysNameTheirOwner == Spec => []RowsNameTheirOwner
BY IInvAlways, PTL DEF IInv

-----------------------------------------------------------------------------
(* What one transition of the engine may do to an incident.                *)

Stays(core, step) == step.core = core /\ step.effect = NoEffect

Opens(core, step, t) ==
    /\ ~Live(core) /\ step.effect.note = "open"
    /\ step.core.id = 0 /\ step.core.state = "open"
    /\ step.core.last = t /\ step.core.nc = 1

(* The same incident goes on.                                              *)
Continues(core, step) == Live(core) /\ step.core.id = core.id

Escalates(core, step, t) ==
    /\ Continues(core, step) /\ step.effect.note = "escalate"
    /\ step.core.state = "open"
    /\ step.core.last = t /\ step.core.nc = core.nc + 1

Renotifies(core, step, t) ==
    /\ Continues(core, step) /\ step.effect.note = "renotify"
    /\ step.core.state = "open" /\ step.core.sev = core.sev
    /\ step.core.last = t /\ step.core.nc = core.nc + 1
    /\ step.core.tier = AtMost(core.tier + 1, LastTier)
    /\ t - core.last >= Backoff[AtMost(core.tier, LastTier)]

Downgrades(core, step) ==
    /\ Continues(core, step)
    /\ step.effect.note = "none" /\ step.effect # NoEffect
    /\ step.core.state = core.state /\ step.core.sev < core.sev
    /\ step.core.last = core.last /\ step.core.nc = core.nc
    /\ step.core.tier = core.tier

Ends(core, step) ==
    /\ Continues(core, step) /\ step.core.state = "cleared"
    /\ step.effect.note \in {"none", "recover"} /\ step.effect # NoEffect

Outcome(core, step, t) ==
    \/ Stays(core, step) \/ Opens(core, step, t) \/ Escalates(core, step, t)
    \/ Renotifies(core, step, t) \/ Downgrades(core, step) \/ Ends(core, step)

LEMMA ClearCoreEnds ==
    ASSUME NEW core \in Core, Live(core), NEW t \in Nat, NEW reason, NEW rungs
    PROVE  LET cleared == ClearCore(core, t, reason)
           IN Ends(core, [rungs |-> rungs, core |-> cleared.core,
                          effect |-> cleared.effect])
BY DEF ClearCore, Core, Ends, Continues, NoEffect

(* Clearing outright ends a live incident and leaves every other alone.    *)
LEMMA ClearOutrightOutcome ==
    ASSUME NEW st \in GroupState, NEW t \in Nat, NEW reason
    PROVE  LET step == ClearOutright(st, t, reason)
           IN Stays(st.core, step) \/ Ends(st.core, step)
<1>1. CASE Live(st.core)
  BY <1>1, ClearCoreEnds DEF ClearOutright, GroupState
<1>2. CASE ~Live(st.core)
  BY <1>2 DEF ClearOutright, Stays
<1> QED
  BY <1>1, <1>2

LEMMA UpdateOpenOutcome ==
    ASSUME NEW core \in Core, NEW rungs, NEW evals, NEW t \in Nat,
           Live(core), Confirmed(rungs) # {}
    PROVE  Outcome(core, UpdateOpen(core, rungs, evals, t), t)
<1> DEFINE owner == Owning(rungs)
           step == UpdateOpen(core, rungs, evals, t)
<1>1. Severity[owner] \in 1..4 /\ core.sev \in 0..4
  <2>1. owner \in Rung
    BY OwningIsFirst
  <2> QED
    BY <2>1, EngineAssumption DEF Rung, Core
<1> HIDE DEF owner
<1>2. CASE Severity[owner] > core.sev
  <2>1. step = [rungs |-> rungs, core |-> Escalated(core, owner, t),
                effect |-> [record |-> "escalate", note |-> "escalate"]]
    BY <1>1, <1>2 DEF UpdateOpen, owner
  <2> HIDE DEF step
  <2>2. Escalates(core, step, t)
    BY <2>1 DEF Escalated, Escalates, Continues, Core
  <2> QED
    BY <2>2 DEF Outcome, step
<1>3. CASE Severity[owner] < core.sev
  <2>1. step = [rungs |-> rungs, core |-> Downgraded(core, owner),
                effect |-> [record |-> "downgrade", note |-> "none"]]
    BY <1>1, <1>3 DEF UpdateOpen, owner
  <2> HIDE DEF step
  <2>2. Downgrades(core, step)
    BY <1>3, <2>1 DEF Downgraded, Downgrades, Continues, Core, NoEffect
  <2> QED
    BY <2>2 DEF Outcome, step
<1>4. CASE Severity[owner] = core.sev /\ RenotifyDue(core, owner, evals, t)
  <2>1. step = [rungs |-> rungs, core |-> Renotified(core, t),
                effect |-> [record |-> "none", note |-> "renotify"]]
    BY <1>1, <1>4 DEF UpdateOpen, owner
  <2> HIDE DEF step
  <2>2. core.state = "open"
        /\ t - core.last >= Backoff[AtMost(core.tier, LastTier)]
    BY <1>4 DEF RenotifyDue
  <2>3. Renotifies(core, step, t)
    BY <2>1, <2>2 DEF Renotified, Renotifies, Continues, Core
  <2> QED
    BY <2>3 DEF Outcome, step
<1>5. CASE Severity[owner] = core.sev /\ ~RenotifyDue(core, owner, evals, t)
  BY <1>1, <1>5 DEF UpdateOpen, owner, Outcome, Stays, NoEffect
<1> QED
  BY <1>1, <1>2, <1>3, <1>4, <1>5

LEMMA StepGroupOutcome ==
    ASSUME NEW st \in GroupState, NEW evals, NEW t \in Nat
    PROVE  Outcome(st.core, StepGroup(st, evals, t), t)
<1> DEFINE rungs == StepRungs(st.rungs, evals)
           opened == OpenCore(st.core, Owning(rungs), t)
           cleared == ClearCore(st.core, t, "recovered")
<1>1. st.core \in Core
  BY DEF GroupState
<1> HIDE DEF rungs
<1>2. CASE ~Live(st.core) /\ Confirmed(rungs) = {}
  BY <1>2 DEF StepGroup, rungs, Outcome, Stays
<1>3. CASE ~Live(st.core) /\ Confirmed(rungs) # {}
  <2>1. StepGroup(st, evals, t) =
          [rungs |-> rungs, core |-> opened,
           effect |-> [record |-> "open", note |-> "open"]]
    BY <1>3 DEF StepGroup, rungs
  <2> QED
    BY <1>3, <2>1 DEF Outcome, Opens, OpenCore
<1>4. CASE Live(st.core) /\ Confirmed(rungs) = {}
  <2>1. StepGroup(st, evals, t) =
          [rungs |-> rungs, core |-> cleared.core, effect |-> cleared.effect]
    BY <1>4 DEF StepGroup, rungs
  <2>2. Ends(st.core, [rungs |-> rungs, core |-> cleared.core,
                       effect |-> cleared.effect])
    BY <1>1, <1>4, ClearCoreEnds
  <2> HIDE DEF cleared
  <2> QED
    BY <2>1, <2>2 DEF Outcome
<1>5. CASE Live(st.core) /\ Confirmed(rungs) # {}
  <2>1. StepGroup(st, evals, t) = UpdateOpen(st.core, rungs, evals, t)
    BY <1>5 DEF StepGroup, rungs
  <2> QED
    BY <1>1, <1>5, <2>1, UpdateOpenOutcome
<1> QED
  BY <1>2, <1>3, <1>4, <1>5

-----------------------------------------------------------------------------
(* Notification histories. *)

StreakOf(h, k) ==
    Cardinality({j \in 2..(k - 1) :
                   \A m \in j..(k - 1) : h[m].kind = "renotify"})
Spaced(h) ==
    \A k \in 2..Len(h) :
      h[k].kind = "renotify" =>
        h[k].ts - h[k - 1].ts >= Backoff[AtMost(StreakOf(h, k), LastTier)]
EndsAt(h, x) ==
    /\ h # <<>> /\ h[Len(h)].ts = x
    /\ \A k \in 1..Len(h) : h[k].ts <= x

LEMMA AppendedNote ==
    ASSUME NEW h \in Seq(Note), NEW n \in Note
    PROVE  /\ h \o <<n>> \in Seq(Note)
           /\ Len(h \o <<n>>) = Len(h) + 1
           /\ \A k \in 1..Len(h) : (h \o <<n>>)[k] = h[k]
           /\ (h \o <<n>>)[Len(h) + 1] = n
BY ConcatProperties

LEMMA StreakIsBounded ==
    ASSUME NEW h, NEW k \in Nat \ {0, 1}
    PROVE  StreakOf(h, k) \in Nat /\ StreakOf(h, k) <= k - 2
<1> DEFINE J == {j \in 2..(k - 1) : \A m \in j..(k - 1) : h[m].kind = "renotify"}
<1>1. IsFiniteSet(2..(k - 1)) /\ Cardinality(2..(k - 1)) = k - 2
  BY FS_Interval
<1>2. J \subseteq 2..(k - 1)
  OBVIOUS
<1> HIDE DEF J
<1>3. IsFiniteSet(J) /\ Cardinality(J) <= Cardinality(2..(k - 1))
  BY <1>1, <1>2, FS_Subset
<1>4. Cardinality(J) \in Nat
  BY <1>3, FS_CardinalityType
<1> QED
  BY <1>1, <1>3, <1>4 DEF StreakOf, J

(* One more renotification lengthens the streak by one; anything else ends *)
(* it.  Earlier streaks do not change.                                     *)
LEMMA StreakGrows ==
    ASSUME NEW h \in Seq(Note), h # <<>>, NEW n \in Note
    PROVE  /\ \A k \in 1..(Len(h) + 1) : StreakOf(h \o <<n>>, k) = StreakOf(h, k)
           /\ StreakOf(h \o <<n>>, Len(h) + 2) =
                IF n.kind = "renotify" THEN StreakOf(h, Len(h) + 1) + 1 ELSE 0
<1> DEFINE g == h \o <<n>>
<1>1. /\ Len(h) \in Nat \ {0} /\ \A k \in 1..Len(h) : g[k] = h[k]
      /\ g[Len(h) + 1] = n
  BY AppendedNote, EmptySeq
<1> HIDE DEF g
<1>2. ASSUME NEW k \in 1..(Len(h) + 1) PROVE StreakOf(g, k) = StreakOf(h, k)
  <2>1. ASSUME NEW j \in 2..(k - 1), NEW m \in j..(k - 1) PROVE g[m] = h[m]
    BY <1>1
  <2>2. {j \in 2..(k - 1) : \A m \in j..(k - 1) : g[m].kind = "renotify"} =
        {j \in 2..(k - 1) : \A m \in j..(k - 1) : h[m].kind = "renotify"}
    BY <2>1
  <2> QED
    BY <2>2 DEF StreakOf
<1> DEFINE J == {j \in 2..Len(h) : \A m \in j..Len(h) : h[m].kind = "renotify"}
           K == {j \in 2..(Len(h) + 1) :
                   \A m \in j..(Len(h) + 1) : g[m].kind = "renotify"}
<1>3. StreakOf(g, Len(h) + 2) = Cardinality(K)
      /\ StreakOf(h, Len(h) + 1) = Cardinality(J)
  <2>1. (Len(h) + 2) - 1 = Len(h) + 1 /\ (Len(h) + 1) - 1 = Len(h)
    BY <1>1
  <2> QED
    BY <2>1 DEF StreakOf
<1>4. CASE n.kind # "renotify"
  <2>1. K = {}
    BY <1>1, <1>4
  <2> HIDE DEF K
  <2> QED
    BY <1>2, <1>3, <1>4, <2>1, FS_EmptySet DEF g
<1>5. CASE n.kind = "renotify"
  <2>1. Len(h) + 1 \in K
    BY <1>1, <1>5
  <2>2. ASSUME NEW j \in J PROVE j \in K
    <3>1. ASSUME NEW m \in j..(Len(h) + 1) PROVE g[m].kind = "renotify"
      BY <1>1, <1>5
    <3> QED
      BY <1>1, <3>1
  <2>3. ASSUME NEW j \in K, j # Len(h) + 1 PROVE j \in J
    <3>1. ASSUME NEW m \in j..Len(h) PROVE h[m].kind = "renotify"
      BY <1>1
    <3> QED
      BY <1>1, <2>3, <3>1
  <2>4. K = J \cup {Len(h) + 1} /\ Len(h) + 1 \notin J
    BY <1>1, <2>1, <2>2, <2>3
  <2>5. IsFiniteSet(2..Len(h)) /\ J \in SUBSET (2..Len(h))
    BY <1>1, FS_Interval
  <2> HIDE DEF J, K
  <2>6. Cardinality(K) = Cardinality(J) + 1
    BY <2>4, <2>5, FS_Subset, FS_AddElement
  <2> QED
    BY <1>2, <1>3, <1>5, <2>6 DEF g
<1> QED
  BY <1>4, <1>5

LEMMA SpacedExtends ==
    ASSUME NEW h \in Seq(Note), NEW n \in Note, Spaced(h),
           n.kind = "renotify" =>
             /\ h # <<>>
             /\ n.ts - h[Len(h)].ts
                  >= Backoff[AtMost(StreakOf(h, Len(h) + 1), LastTier)]
    PROVE  Spaced(h \o <<n>>)
<1> DEFINE g == h \o <<n>>
<1>1. /\ Len(h) \in Nat /\ Len(g) = Len(h) + 1 /\ g[Len(h) + 1] = n
      /\ \A k \in 1..Len(h) : g[k] = h[k]
  BY AppendedNote
<1>2. h # <<>> => \A k \in 1..(Len(h) + 1) : StreakOf(g, k) = StreakOf(h, k)
  BY StreakGrows
<1>3. Len(h) > 0 => h # <<>>
  BY EmptySeq
<1> HIDE DEF g
<1>4. ASSUME NEW k \in 2..Len(g), g[k].kind = "renotify"
      PROVE  g[k].ts - g[k - 1].ts >= Backoff[AtMost(StreakOf(g, k), LastTier)]
  <2>1. h # <<>> /\ k \in 1..(Len(h) + 1) /\ StreakOf(g, k) = StreakOf(h, k)
        /\ g[k - 1] = h[k - 1]
    BY <1>1, <1>2, <1>3
  <2>2. CASE k = Len(h) + 1
    <3>1. k - 1 = Len(h) /\ g[k] = n
      BY <1>1, <2>2
    <3> QED
      BY <1>4, <2>1, <2>2, <3>1
  <2>3. CASE k # Len(h) + 1
    <3>1. k \in 2..Len(h) /\ g[k] = h[k]
      BY <1>1, <2>1, <2>3
    <3> QED
      BY <1>4, <2>1, <3>1 DEF Spaced
  <2> QED
    BY <2>2, <2>3
<1> QED
  BY <1>4 DEF Spaced, g

LEMMA EndsAtAppended ==
    ASSUME NEW h \in Seq(Note), NEW n \in Note,
           \A k \in 1..Len(h) : h[k].ts <= n.ts
    PROVE  EndsAt(h \o <<n>>, n.ts)
<1>1. /\ Len(h) \in Nat /\ Len(h \o <<n>>) = Len(h) + 1
      /\ (h \o <<n>>)[Len(h) + 1] = n
      /\ \A k \in 1..Len(h) : (h \o <<n>>)[k] = h[k]
      /\ h \o <<n>> \in Seq(Note)
  BY AppendedNote
<1>2. h \o <<n>> # <<>>
  BY <1>1, EmptySeq
<1>3. n.ts \in Nat
  BY DEF Note
<1> QED
  BY <1>1, <1>2, <1>3 DEF EndsAt

-----------------------------------------------------------------------------
(* What a tick's working state owes to the tables. *)

(* The row and the history the next commit would leave of an incident.     *)
Latest(p, i) == IF p.rows[i].state = "none" THEN rows[i] ELSE p.rows[i]
History(p, i) == notes[i] \o p.notes[i]

(* Ids are never handed out twice, and a cleared row is out of reach.      *)
KnowsIds(w) ==
    /\ w.nextId <= MaxId + 1
    /\ \A i \in Id : w.pend.rows[i].state # "none" =>
                       rows[i].state # "none" \/ w.nextId # 0
    /\ \A i \in Id : w.nextId # 0 /\ Latest(w.pend, i).state # "none" =>
                       i < w.nextId
    /\ \A i \in Id : w.pend.notes[i] # <<>> => w.pend.rows[i].state # "none"
    /\ \A i \in Id : rows[i].state = "cleared" => w.pend.rows[i].state = "none"
    /\ Live(w.mem.core) =>
         /\ w.mem.core.id \in Id
         /\ w.nextId # 0 => w.mem.core.id < w.nextId
         /\ w.nextId = 0 => rows[w.mem.core.id].state # "none"
         /\ Latest(w.pend, w.mem.core.id).state # "cleared"

(* The row and the history a live incident must have.                      *)
Reflects(row, h, core) ==
    /\ row.state \in {core.state, "acked"}
    /\ row.sev = core.sev /\ row.owner = core.owner /\ row.nc = core.nc
    /\ EndsAt(h, core.last) /\ Len(h) = core.nc
    /\ core.tier >= AtMost(StreakOf(h, Len(h) + 1), LastTier)

(* As long as no commit was dropped, tables and buffers together say what  *)
(* memory says.                                                            *)
Mirrors(w, t) ==
    /\ \A i \in Id : Latest(w.pend, i).state \in LiveStates =>
                       Live(w.mem.core) /\ w.mem.core.id = i
    /\ Live(w.mem.core) =>
         Reflects(Latest(w.pend, w.mem.core.id),
                  History(w.pend, w.mem.core.id), w.mem.core)
    /\ \A i \in Id : w.pend.rows[i].state \in LiveStates
                     /\ w.pend.rows[i].sev > rows[i].sev
                     => w.pend.notes[i] # <<>>
    /\ \A i \in Id : Spaced(History(w.pend, i))
    /\ \A i \in Id : \A k \in 1..Len(History(w.pend, i)) :
                       History(w.pend, i)[k].ts <= t

(* Before the group is evaluated nothing live waits in the buffers.        *)
NotBegun(w) == \A i \in Id : w.pend.rows[i].state \in {"none", "cleared"}

TablesTyped ==
    /\ rows \in [Id -> Row] /\ notes \in [Id -> Seq(Note)]
    /\ \A i \in Id : rows[i].state = "none" => notes[i] = <<>>

(* What the executor buffers for an effect.                                *)
EffectId(w, step) == IF step.core.id = 0 THEN AllocId(w) ELSE step.core.id
EffectCore(w, step) == [step.core EXCEPT !.id = EffectId(w, step)]
Sent(step, t) == IF step.effect.note = "none" THEN <<>>
                 ELSE <<[kind |-> step.effect.note, ts |-> t]>>

LEMMA ApplyWrites ==
    ASSUME NEW w, Sound(w), NEW step \in Step, NEW t \in Nat,
           step.effect # NoEffect
    PROVE  LET r == Apply(w, step, t)
               id == EffectId(w, step)
           IN /\ id \in Nat
              /\ r.mem.core = EffectCore(w, step)
              /\ r.nextId = IF step.core.id = 0 THEN id + 1 ELSE w.nextId
              /\ \A i \in Id :
                   /\ r.pend.rows[i] = IF i = id THEN RowOf(EffectCore(w, step))
                                       ELSE w.pend.rows[i]
                   /\ r.pend.notes[i] =
                        IF i = id THEN w.pend.notes[i] \o Sent(step, t)
                        ELSE w.pend.notes[i]
<1> DEFINE id == EffectId(w, step)
           core == EffectCore(w, step)
           pending == [w.pend EXCEPT !.rows[id] = RowOf(core),
                                     !.notes[id] = @ \o Sent(step, t)]
<1>1. Apply(w, step, t) =
        [mem |-> [rungs |-> step.rungs, core |-> core],
         nextId |-> IF step.core.id = 0 THEN id + 1 ELSE w.nextId,
         pend |-> pending]
  BY DEF Apply, EffectId, EffectCore, Sent
<1>2. id \in Nat
  BY AllocIdType DEF Step, Core, Sound, Working, EffectId
<1>3. w.pend \in Pending
  BY DEF Sound, Working
<1> HIDE DEF id, core
<1>4. /\ pending.rows = [w.pend.rows EXCEPT ![id] = RowOf(core)]
      /\ pending.notes = [w.pend.notes EXCEPT ![id] = @ \o Sent(step, t)]
  BY <1>3 DEF Pending
<1> HIDE DEF pending
<1>5. ASSUME NEW i \in Id
      PROVE  /\ pending.rows[i] = IF i = id THEN RowOf(core) ELSE w.pend.rows[i]
             /\ pending.notes[i] = IF i = id THEN w.pend.notes[i] \o Sent(step, t)
                                   ELSE w.pend.notes[i]
  BY <1>3, <1>4 DEF Pending
<1> QED
  BY <1>1, <1>2, <1>5 DEF id, core

LEMMA SentType ==
    ASSUME NEW step \in Step, NEW t \in Nat PROVE Sent(step, t) \in Seq(Note)
<1>1. [kind |-> step.effect.note, ts |-> t] \in Note
  BY DEF Step, Effect, Note
<1> QED
  BY <1>1 DEF Sent

LEMMA ConcatNotes ==
    ASSUME NEW f \in Seq(Note), NEW g \in Seq(Note), NEW h \in Seq(Note)
    PROVE  f \o (g \o h) = (f \o g) \o h
BY ConcatAssociative

(* The same, seen row by row and history by history.                       *)
LEMMA ApplyChanges ==
    ASSUME TablesTyped, NEW w, Sound(w), NEW step \in Step, NEW t \in Nat,
           step.effect # NoEffect, EffectId(w, step) \in Id,
           step.core.state # "none"
    PROVE  LET r == Apply(w, step, t)
               id == EffectId(w, step)
               core == EffectCore(w, step)
           IN /\ \A i \in Id \ {id} :
                   /\ r.pend.rows[i] = w.pend.rows[i]
                   /\ r.pend.notes[i] = w.pend.notes[i]
                   /\ Latest(r.pend, i) = Latest(w.pend, i)
                   /\ History(r.pend, i) = History(w.pend, i)
              /\ r.pend.rows[id] = RowOf(core)
              /\ Latest(r.pend, id) = RowOf(core)
              /\ r.pend.notes[id] = w.pend.notes[id] \o Sent(step, t)
              /\ History(r.pend, id) = History(w.pend, id) \o Sent(step, t)
<1> DEFINE r == Apply(w, step, t)
           id == EffectId(w, step)
           core == EffectCore(w, step)
<1>1. \A i \in Id :
         /\ r.pend.rows[i] = IF i = id THEN RowOf(core) ELSE w.pend.rows[i]
         /\ r.pend.notes[i] = IF i = id THEN w.pend.notes[i] \o Sent(step, t)
                              ELSE w.pend.notes[i]
  BY ApplyWrites
<1>2. /\ w.pend.rows \in [Id -> Row] /\ w.pend.notes \in [Id -> Seq(Note)]
      /\ notes[id] \in Seq(Note) /\ w.pend.notes[id] \in Seq(Note)
  BY DEF Sound, Working, Pending, TablesTyped
<1>3. core.state = step.core.state
  BY DEF EffectCore, Step, Core
<1>4. Sent(step, t) \in Seq(Note)
  BY SentType
<1> HIDE DEF r, id, core
<1>5. RowOf(core).state # "none"
  BY <1>3 DEF RowOf
<1>6. notes[id] \o (w.pend.notes[id] \o Sent(step, t))
        = (notes[id] \o w.pend.notes[id]) \o Sent(step, t)
  BY <1>2, <1>4, ConcatNotes
<1>7. id \in Id
  BY DEF id
<1>8. /\ r.pend.rows[id] = RowOf(core)
      /\ r.pend.notes[id] = w.pend.notes[id] \o Sent(step, t)
  BY <1>1, <1>2, <1>7
<1>9. ASSUME NEW i \in Id \ {id}
      PROVE  r.pend.rows[i] = w.pend.rows[i] /\ r.pend.notes[i] = w.pend.notes[i]
  BY <1>1, <1>2
<1>10. Latest(r.pend, id) = RowOf(core)
       /\ History(r.pend, id) = History(w.pend, id) \o Sent(step, t)
  BY <1>5, <1>6, <1>8 DEF Latest, History
<1>11. ASSUME NEW i \in Id \ {id}
       PROVE  Latest(r.pend, i) = Latest(w.pend, i)
              /\ History(r.pend, i) = History(w.pend, i)
  BY <1>9 DEF Latest, History
<1> QED
  BY <1>8, <1>9, <1>10, <1>11 DEF r, id, core

LEMMA MaxOfBounds ==
    ASSUME NEW S \in SUBSET Nat, NEW n \in Nat, \A x \in S : x <= n,
           NEW y \in S
    PROVE  y <= MaxOf(S) /\ MaxOf(S) \in Nat
<1>1. \E x \in S : \A z \in S : z <= x
  <2> DEFINE T == {m \in Nat : \A x \in S : x <= m}
  <2>1. PICK m \in T : \A k \in T : m <= k
    <3>1. T \in SUBSET Nat /\ T # {}
      OBVIOUS
    <3> HIDE DEF T
    <3> QED
      BY <3>1, LeastNatural
  <2>2. m \in Nat /\ \A x \in S : x <= m
    BY <2>1
  <2>3. m \in S
    <3>1. SUFFICES ASSUME m \notin S PROVE FALSE
      OBVIOUS
    <3>2. y < m /\ \A x \in S : x <= m - 1
      BY <2>2, <3>1
    <3>3. m - 1 \in T
      BY <2>2, <3>2
    <3> QED
      BY <2>1, <2>2, <3>3
  <2> QED
    BY <2>2, <2>3
<1> QED
  BY <1>1 DEF MaxOf

(* A new incident gets an id above all that rows and buffers know.         *)
LEMMA AllocatedIsNew ==
    ASSUME TablesTyped, NEW w, Sound(w), KnowsIds(w)
    PROVE  /\ AllocId(w) \in Nat \ {0}
           /\ \A i \in Id : Latest(w.pend, i).state # "none" => i < AllocId(w)
<1> DEFINE known == {i \in Id : rows[i].state # "none"}
           id == AllocId(w)
<1>1. CASE w.nextId # 0
  <2>1. id = w.nextId /\ w.nextId \in Nat
    BY <1>1 DEF AllocId, Sound, Working
  <2> QED
    BY <1>1, <2>1 DEF KnowsIds
<1>2. CASE w.nextId = 0
  <2>1. id = MaxOf(known) + 1
    BY <1>2 DEF AllocId
  <2>2. known \in SUBSET Nat /\ \A x \in known : x <= MaxId
    BY DEF Id
  <2>3. MaxId \in Nat /\ MaxOf(known) \in Nat
    BY <2>2, LifecycleAssumption, MaxOfIsNatural
  <2>4. ASSUME NEW i \in Id, Latest(w.pend, i).state # "none" PROVE i < id
    <3>1. i \in known /\ i \in Nat
      BY <1>2, <2>4 DEF KnowsIds, Latest, Id
    <3> HIDE DEF known
    <3>2. i <= MaxOf(known)
      BY <2>2, <2>3, <3>1, MaxOfBounds
    <3> QED
      BY <2>1, <2>3, <3>1, <3>2
  <2> QED
    BY <2>1, <2>3, <2>4
<1> QED
  BY <1>1, <1>2

-----------------------------------------------------------------------------
(* One transition keeps ids and mirror. *)

LEMMA EffectIdIsKnown ==
    ASSUME TablesTyped, NEW w, Sound(w), KnowsIds(w), NEW step \in Step,
           NEW t \in Nat, step.effect # NoEffect,
           Outcome(w.mem.core, step, t),
           Apply(w, step, t).nextId <= MaxId + 1
    PROVE  /\ EffectId(w, step) \in Id
           /\ step.core.state # "none"
           /\ \/ /\ Opens(w.mem.core, step, t)
                 /\ Latest(w.pend, EffectId(w, step)).state = "none"
                 /\ \A i \in Id : Latest(w.pend, i).state # "none" =>
                                    i < EffectId(w, step)
                 /\ Apply(w, step, t).nextId = EffectId(w, step) + 1
              \/ /\ Live(w.mem.core)
                 /\ EffectId(w, step) = w.mem.core.id
                 /\ step.core.id = w.mem.core.id
                 /\ Apply(w, step, t).nextId = w.nextId
<1> DEFINE id == EffectId(w, step)
<1>1. /\ id \in Nat /\ w.mem.core \in Core
      /\ Apply(w, step, t).nextId =
           IF step.core.id = 0 THEN id + 1 ELSE w.nextId
  BY ApplyWrites DEF Sound, Working, GroupState
<1>2. CASE Opens(w.mem.core, step, t)
  <2>1. step.core.id = 0 /\ step.core.state = "open"
    BY <1>2 DEF Opens
  <2>2. id = AllocId(w)
    BY <2>1 DEF EffectId
  <2> HIDE DEF id
  <2>3. /\ id \in Nat \ {0}
        /\ \A i \in Id : Latest(w.pend, i).state # "none" => i < id
    BY <2>2, AllocatedIsNew
  <2>4. id <= MaxId
    BY <1>1, <2>1, LifecycleAssumption
  <2>5. id \in Id
    BY <2>3, <2>4, LifecycleAssumption DEF Id
  <2>6. Latest(w.pend, id).state = "none"
    <3>1. ~(id < id)
      BY <2>3
    <3> QED
      BY <2>3, <2>5, <3>1
  <2> QED
    BY <1>1, <1>2, <2>1, <2>3, <2>5, <2>6 DEF id
<1>3. CASE Live(w.mem.core)
  <2>1. step.core.id = w.mem.core.id /\ step.core.state # "none"
    BY <1>3 DEF Outcome, Stays, Opens, Escalates, Renotifies, Downgrades,
                Ends, Continues, Live, LiveStates
  <2>2. w.mem.core.id \in Id /\ w.mem.core.id # 0
    BY <1>3 DEF KnowsIds, Id
  <2>3. id = w.mem.core.id
    BY <2>1, <2>2 DEF EffectId
  <2> QED
    BY <1>1, <1>3, <2>1, <2>2, <2>3
<1> QED
  BY <1>2, <1>3 DEF Outcome, Stays, Escalates, Renotifies, Downgrades, Ends,
                    Continues

LEMMA StaysIsNoWrite ==
    ASSUME NEW w, Sound(w), NEW step, NEW t, step.effect = NoEffect
    PROVE  LET r == Apply(w, step, t)
           IN r.mem.core = step.core /\ r.pend = w.pend /\ r.nextId = w.nextId
BY DEF Apply, Sound, Working

LEMMA ApplyKeepsIds ==
    ASSUME TablesTyped, NEW w, Sound(w), KnowsIds(w), NEW step \in Step,
           NEW t \in Nat, Outcome(w.mem.core, step, t),
           Apply(w, step, t).nextId <= MaxId + 1
    PROVE  KnowsIds(Apply(w, step, t))
<1> DEFINE r == Apply(w, step, t)
           id == EffectId(w, step)
           core == EffectCore(w, step)
<1>0. r.nextId <= MaxId + 1
  OBVIOUS
<1>1. CASE step.effect = NoEffect
  <2>1. step.core = w.mem.core
    BY <1>1 DEF Outcome, Stays, Opens, Escalates, Renotifies, Downgrades, Ends,
                NoEffect
  <2>2. r.mem.core = w.mem.core /\ r.pend = w.pend /\ r.nextId = w.nextId
    BY <1>1, <2>1, StaysIsNoWrite
  <2> HIDE DEF r
  <2> QED
    BY <2>2 DEF KnowsIds, r
<1>2. CASE step.effect # NoEffect
  <2>1. /\ id \in Id /\ step.core.state # "none"
        /\ \/ /\ Opens(w.mem.core, step, t)
              /\ Latest(w.pend, id).state = "none"
              /\ \A i \in Id : Latest(w.pend, i).state # "none" => i < id
              /\ r.nextId = id + 1
           \/ /\ Live(w.mem.core) /\ id = w.mem.core.id
              /\ r.nextId = w.nextId
    BY <1>2, EffectIdIsKnown
  <2>2. /\ \A i \in Id \ {id} :
             /\ r.pend.rows[i] = w.pend.rows[i]
             /\ r.pend.notes[i] = w.pend.notes[i]
             /\ Latest(r.pend, i) = Latest(w.pend, i)
        /\ r.pend.rows[id] = RowOf(core)
        /\ Latest(r.pend, id) = RowOf(core)
    BY <1>2, <2>1, ApplyChanges
  <2>3. r.mem.core = core
    BY <1>2, ApplyWrites
  <2>4. core.id = id /\ core.state = step.core.state
        /\ RowOf(core).state = core.state
    BY DEF EffectCore, Step, Core, RowOf
  <2>5. /\ r.nextId \in Nat /\ w.nextId \in Nat /\ id \in Nat \ {0}
        /\ w.nextId # 0 => r.nextId # 0
    BY <2>1 DEF Sound, Working, Id
  <2>6. rows[id].state # "cleared"
    BY <2>1 DEF KnowsIds, Latest
  <2> HIDE DEF r, id, core
  <2>7. ASSUME NEW i \in Id, r.pend.rows[i].state # "none"
        PROVE  rows[i].state # "none" \/ r.nextId # 0
    <3>1. CASE i = id
      BY <2>1, <2>5, <3>1 DEF KnowsIds
    <3>2. CASE i # id
      BY <2>2, <2>5, <2>7, <3>2 DEF KnowsIds
    <3> QED
      BY <3>1, <3>2
  <2>8. ASSUME NEW i \in Id, r.nextId # 0, Latest(r.pend, i).state # "none"
        PROVE  i < r.nextId
    <3>1. CASE Opens(w.mem.core, step, t) /\ r.nextId = id + 1
               /\ \A j \in Id : Latest(w.pend, j).state # "none" => j < id
      <4>1. i = id \/ i < id
        BY <2>2, <2>8, <3>1
      <4>2. i \in Nat
        BY DEF Id
      <4> QED
        BY <2>5, <3>1, <4>1, <4>2
    <3>2. CASE Live(w.mem.core) /\ id = w.mem.core.id /\ r.nextId = w.nextId
      <4>1. CASE i = id
        BY <2>8, <3>2, <4>1 DEF KnowsIds
      <4>2. CASE i # id
        BY <2>2, <2>8, <3>2, <4>2 DEF KnowsIds
      <4> QED
        BY <4>1, <4>2
    <3> QED
      BY <2>1, <3>1, <3>2
  <2>9. ASSUME NEW i \in Id, r.pend.notes[i] # <<>>
        PROVE  r.pend.rows[i].state # "none"
    BY <2>1, <2>2, <2>4, <2>9 DEF KnowsIds
  <2>10. ASSUME NEW i \in Id, rows[i].state = "cleared"
         PROVE  r.pend.rows[i].state = "none"
    BY <2>2, <2>6, <2>10 DEF KnowsIds
  <2>11. ASSUME Live(r.mem.core)
         PROVE  /\ r.mem.core.id \in Id
                /\ r.nextId # 0 => r.mem.core.id < r.nextId
                /\ r.nextId = 0 => rows[r.mem.core.id].state # "none"
                /\ Latest(r.pend, r.mem.core.id).state # "cleared"
    <3>1. r.mem.core.id = id /\ id \in Id
      BY <2>1, <2>3, <2>4
    <3>2. Latest(r.pend, id).state # "cleared" /\ Latest(r.pend, id).state # "none"
      BY <2>2, <2>3, <2>4, <2>11 DEF Live, LiveStates
    <3>3. r.nextId # 0 => id < r.nextId
      BY <2>8, <3>1, <3>2
    <3>4. r.nextId = 0 => rows[id].state # "none"
      BY <2>1, <2>5 DEF KnowsIds
    <3> QED
      BY <3>1, <3>2, <3>3, <3>4
  <2>12. KnowsIds(r)
    BY <1>0, <2>7, <2>8, <2>9, <2>10, <2>11 DEF KnowsIds
  <2> QED
    BY <2>12 DEF r
<1> QED
  BY <1>1, <1>2

LEMMA HistoryType ==
    ASSUME TablesTyped, NEW w, Sound(w), NEW i \in Id
    PROVE  History(w.pend, i) \in Seq(Note)
<1>1. notes[i] \in Seq(Note) /\ w.pend.notes[i] \in Seq(Note)
  BY DEF TablesTyped, Sound, Working, Pending
<1> QED
  BY <1>1, ConcatProperties DEF History

(* Backoffs grow with the tier, so a tier at least the streak waits at     *)
(* least as long as the streak demands.                                    *)
LEMMA TierCoversStreak ==
    ASSUME NEW tier \in 0..LastTier, NEW streak \in Nat,
           tier >= AtMost(streak, LastTier)
    PROVE  /\ Backoff[AtMost(tier, LastTier)] >= Backoff[AtMost(streak, LastTier)]
           /\ Backoff[AtMost(streak, LastTier)] \in Nat
           /\ Backoff[AtMost(tier, LastTier)] \in Nat
           /\ AtMost(tier + 1, LastTier) >= AtMost(streak + 1, LastTier)
<1>1. LastTier \in Nat /\ AtMost(streak, LastTier) \in 0..LastTier
      /\ AtMost(tier, LastTier) = tier
  BY EngineAssumption DEF AtMost
<1>2. AtMost(tier + 1, LastTier) >= AtMost(streak + 1, LastTier)
  BY <1>1 DEF AtMost
<1> HIDE DEF AtMost
<1> QED
  BY <1>1, <1>2, EngineAssumption

(* What a row and its history owe to the incident survives a transition,   *)
(* and the history stays spaced.                                           *)
LEMMA OutcomeIsReflected ==
    ASSUME NEW core \in Core, Live(core), NEW row, NEW h \in Seq(Note),
           Reflects(row, h, core), Spaced(h), NEW t \in Nat, NEW step \in Step,
           \A k \in 1..Len(h) : h[k].ts <= t,
           Continues(core, step), step.effect # NoEffect,
           Outcome(core, step, t)
    PROVE  LET new == [step.core EXCEPT !.id = core.id]
               g == h \o Sent(step, t)
           IN /\ Live(step.core) => Reflects(RowOf(new), g, new)
              /\ Spaced(g)
              /\ \A k \in 1..Len(g) : g[k].ts <= t
              /\ step.core.sev > row.sev /\ Live(step.core) => Sent(step, t) # <<>>
<1> DEFINE new == [step.core EXCEPT !.id = core.id]
           n == [kind |-> step.effect.note, ts |-> t]
           g == h \o Sent(step, t)
<1>1. /\ new \in Core /\ new = step.core /\ n \in Note /\ n.ts = t
      /\ n.kind = step.effect.note
  BY DEF Step, Core, Effect, Note, Continues
<1>2. /\ RowOf(new).state = new.state /\ RowOf(new).sev = new.sev
      /\ RowOf(new).owner = new.owner /\ RowOf(new).nc = new.nc
  BY DEF RowOf
<1>3. /\ Len(h) \in Nat \ {0} /\ h # <<>> /\ Len(h) = core.nc
      /\ h[Len(h)].ts = core.last
      /\ core.tier >= AtMost(StreakOf(h, Len(h) + 1), LastTier)
      /\ core.tier \in 0..LastTier /\ row.sev = core.sev
  BY EmptySeq DEF Reflects, EndsAt, Core
<1>4. StreakOf(h, Len(h) + 1) \in Nat
  BY <1>3, StreakIsBounded
<1> HIDE DEF new, n
<1>5. CASE step.effect.note = "none"
  <2>1. Sent(step, t) = <<>> /\ g = h
    BY <1>5, ConcatEmptySeq DEF Sent
  <2>2. CASE Downgrades(core, step)
    <3>1. Reflects(RowOf(new), h, new)
      BY <1>1, <1>2, <2>2 DEF Reflects, Downgrades
    <3>2. ~(step.core.sev > row.sev)
      <4>1. step.core.sev \in Int /\ core.sev \in Int
        BY DEF Step, Core
      <4>2. step.core.sev < core.sev
        BY <2>2 DEF Downgrades
      <4> QED
        BY <1>3, <4>1, <4>2
    <3> QED
      BY <2>1, <3>1, <3>2 DEF new
  <2>3. CASE Ends(core, step)
    BY <2>1, <2>3 DEF Ends, Live, LiveStates
  <2> QED
    BY <1>5, <2>2, <2>3 DEF Outcome, Stays, Opens, Escalates, Renotifies
<1>6. CASE step.effect.note # "none"
  <2>1. Sent(step, t) = <<n>> /\ g = h \o <<n>>
    BY <1>6 DEF Sent, n
  <2>2. Sent(step, t) # <<>>
    BY <2>1
  <2>3. /\ g \in Seq(Note) /\ Len(g) = Len(h) + 1 /\ EndsAt(g, t)
        /\ StreakOf(g, Len(h) + 2) =
             IF n.kind = "renotify" THEN StreakOf(h, Len(h) + 1) + 1 ELSE 0
    BY <1>1, <1>3, <2>1, AppendedNote, EndsAtAppended, StreakGrows
  <2>4. \A k \in 1..Len(g) : g[k].ts <= t
    BY <2>3 DEF EndsAt
  <2>5. Len(g) + 1 = Len(h) + 2
    BY <1>3, <2>3
  <2> HIDE DEF g
  <2>6. CASE Renotifies(core, step, t)
    <3>1. /\ t - core.last >= Backoff[AtMost(core.tier, LastTier)]
          /\ core.last \in Nat
      BY <2>6 DEF Renotifies, Core
    <3>2. t - core.last >= Backoff[AtMost(StreakOf(h, Len(h) + 1), LastTier)]
      BY <1>3, <1>4, <3>1, TierCoversStreak
    <3>3. Spaced(g)
      BY <1>1, <1>3, <2>1, <3>2, SpacedExtends
    <3>4. StreakOf(g, Len(g) + 1) = StreakOf(h, Len(h) + 1) + 1
      BY <1>1, <2>3, <2>5, <2>6 DEF Renotifies
    <3>5. new.tier >= AtMost(StreakOf(g, Len(g) + 1), LastTier)
      BY <1>1, <1>3, <1>4, <2>6, <3>4, TierCoversStreak DEF Renotifies
    <3>6. Reflects(RowOf(new), g, new)
      BY <1>1, <1>2, <1>3, <2>3, <2>6, <3>5 DEF Reflects, Renotifies
    <3> QED
      BY <2>2, <2>4, <3>3, <3>6 DEF new, g
  <2>7. CASE n.kind # "renotify"
    <3>1. Spaced(g)
      BY <1>1, <2>1, <2>7, SpacedExtends
    <3>2. ASSUME Escalates(core, step, t)
          PROVE  Reflects(RowOf(new), g, new)
      <4>1. StreakOf(g, Len(g) + 1) = 0
        BY <2>3, <2>5, <2>7
      <4>2. new.tier >= AtMost(0, LastTier)
        <5>1. LastTier \in Nat /\ new.tier \in 0..LastTier
          BY <1>1, EngineAssumption DEF Core
        <5> QED
          BY <5>1 DEF AtMost
      <4> QED
        BY <1>1, <1>2, <1>3, <2>3, <3>2, <4>1, <4>2 DEF Reflects, Escalates
    <3>3. Live(step.core) => Escalates(core, step, t)
      BY <1>1, <1>6, <2>7
         DEF Outcome, Stays, Opens, Renotifies, Downgrades, Ends, Live, LiveStates
    <3> QED
      BY <2>2, <2>4, <3>1, <3>2, <3>3 DEF new, g
  <2> QED
    BY <1>1, <2>6, <2>7
       DEF Outcome, Stays, Opens, Escalates, Downgrades, Ends
<1> QED
  BY <1>5, <1>6

(* The first notification of a new incident.                               *)
LEMMA OpeningIsReflected ==
    ASSUME NEW step \in Step, NEW core, NEW t \in Nat, Opens(core, step, t),
           NEW id \in Nat
    PROVE  LET new == [step.core EXCEPT !.id = id]
               g == Sent(step, t)
           IN /\ Reflects(RowOf(new), g, new) /\ Live(new)
              /\ Spaced(g) /\ g # <<>>
              /\ \A k \in 1..Len(g) : g[k].ts <= t
<1> DEFINE new == [step.core EXCEPT !.id = id]
           n == [kind |-> "open", ts |-> t]
           g == Sent(step, t)
<1>1. g = <<n>> /\ n \in Note
  BY DEF Sent, Opens, Note, NoteKind
<1>2. /\ new.state = "open" /\ new.last = t /\ new.nc = 1
      /\ new.tier \in 0..LastTier
      /\ RowOf(new).state = new.state /\ RowOf(new).sev = new.sev
      /\ RowOf(new).owner = new.owner /\ RowOf(new).nc = new.nc
  BY DEF Opens, Step, Core, RowOf
<1> HIDE DEF new, g
<1>3. /\ Len(g) = 1 /\ g[1] = n /\ g # <<>> /\ n.ts = t
  BY <1>1
<1>4. EndsAt(g, t)
  BY <1>3 DEF EndsAt
<1>5. StreakOf(g, Len(g) + 1) \in Nat /\ StreakOf(g, Len(g) + 1) <= 0
  BY <1>3, StreakIsBounded
<1>6. new.tier >= AtMost(StreakOf(g, Len(g) + 1), LastTier)
  BY <1>2, <1>5, EngineAssumption DEF AtMost
<1>7. Spaced(g)
  BY <1>3 DEF Spaced
<1>8. Reflects(RowOf(new), g, new) /\ Live(new)
  BY <1>2, <1>3, <1>4, <1>6 DEF Reflects, Live, LiveStates
<1> QED
  BY <1>3, <1>4, <1>7, <1>8 DEF new, g, EndsAt

LEMMA ApplyKeepsMirror ==
    ASSUME TablesTyped, NEW w, Sound(w), KnowsIds(w), NotBegun(w),
           NEW t \in Nat, Mirrors(w, t), NEW step \in Step,
           Outcome(w.mem.core, step, t),
           Apply(w, step, t).nextId <= MaxId + 1
    PROVE  Mirrors(Apply(w, step, t), t)
<1> DEFINE r == Apply(w, step, t)
           id == EffectId(w, step)
           core == EffectCore(w, step)
           sent == Sent(step, t)
<1>1. CASE step.effect = NoEffect
  <2>1. step.core = w.mem.core
    BY <1>1 DEF Outcome, Stays, Opens, Escalates, Renotifies, Downgrades, Ends,
                NoEffect
  <2>2. r.mem.core = w.mem.core /\ r.pend = w.pend
    BY <1>1, <2>1, StaysIsNoWrite
  <2> HIDE DEF r
  <2> QED
    BY <2>2 DEF Mirrors, r
<1>2. CASE step.effect # NoEffect
  <2>1. /\ id \in Id /\ step.core.state # "none"
        /\ \/ Opens(w.mem.core, step, t) /\ Latest(w.pend, id).state = "none"
           \/ /\ Live(w.mem.core) /\ id = w.mem.core.id
              /\ step.core.id = w.mem.core.id
    BY <1>2, EffectIdIsKnown
  <2>2. /\ \A i \in Id \ {id} :
             /\ r.pend.rows[i] = w.pend.rows[i]
             /\ r.pend.notes[i] = w.pend.notes[i]
             /\ Latest(r.pend, i) = Latest(w.pend, i)
             /\ History(r.pend, i) = History(w.pend, i)
        /\ r.pend.rows[id] = RowOf(core)
        /\ Latest(r.pend, id) = RowOf(core)
        /\ r.pend.notes[id] = w.pend.notes[id] \o sent
        /\ History(r.pend, id) = History(w.pend, id) \o sent
    BY <1>2, <2>1, ApplyChanges
  <2>3. r.mem.core = core
    BY <1>2, ApplyWrites
  <2>4. core.id = id /\ core.state = step.core.state
        /\ RowOf(core).state = core.state /\ RowOf(core).sev = step.core.sev
    BY DEF EffectCore, Step, Core, RowOf
  <2>5. sent \in Seq(Note)
    BY SentType
  <2>6. Live(core) <=> Live(step.core)
    BY <2>4 DEF Live
  <2>7. core = [step.core EXCEPT !.id = id]
    BY DEF EffectCore
  <2>8. w.pend.rows[id].state = "none" /\ w.pend.notes[id] = <<>>
        /\ Latest(w.pend, id) = rows[id]
    <3>1. Latest(w.pend, id).state # "cleared"
      BY <2>1 DEF KnowsIds
    <3>2. w.pend.rows[id].state = "none"
      BY <2>1, <3>1 DEF NotBegun, Latest
    <3> QED
      BY <2>1, <3>2 DEF KnowsIds, Latest
  <2>9. r.pend.notes[id] = sent
    BY <2>2, <2>5, <2>8, ConcatEmptySeq
  <2>10. w.mem.core \in Core /\ id \in Nat
    BY <2>1 DEF Sound, Working, GroupState, Id
  <2>11. /\ Live(core) => Reflects(RowOf(core), History(r.pend, id), core)
         /\ Spaced(History(r.pend, id))
         /\ \A k \in 1..Len(History(r.pend, id)) : History(r.pend, id)[k].ts <= t
         /\ Live(core) /\ step.core.sev > rows[id].sev => sent # <<>>
         /\ \A i \in Id \ {id} : Latest(w.pend, i).state \notin LiveStates
    <3>1. CASE Opens(w.mem.core, step, t) /\ Latest(w.pend, id).state = "none"
      <4>1. notes[id] = <<>>
        BY <2>1, <2>8, <3>1 DEF TablesTyped
      <4>2. History(w.pend, id) = <<>>
        BY <2>8, <4>1, ConcatEmptySeq, EmptySeq DEF History
      <4>3. History(r.pend, id) = sent
        BY <2>2, <2>5, <4>2, ConcatEmptySeq
      <4>4. /\ Reflects(RowOf(core), sent, core) /\ Spaced(sent) /\ sent # <<>>
            /\ \A k \in 1..Len(sent) : sent[k].ts <= t
        BY <2>7, <2>10, <3>1, OpeningIsReflected
      <4>5. ~Live(w.mem.core)
        BY <3>1 DEF Opens
      <4> HIDE DEF r, id, core, sent
      <4> QED
        BY <4>3, <4>4, <4>5 DEF Mirrors
    <3>2. CASE /\ Live(w.mem.core) /\ id = w.mem.core.id
               /\ step.core.id = w.mem.core.id
      <4> DEFINE h == History(w.pend, id)
      <4>1. /\ h \in Seq(Note) /\ Spaced(h)
            /\ \A k \in 1..Len(h) : h[k].ts <= t
            /\ Reflects(rows[id], h, w.mem.core)
        BY <2>1, <2>8, <3>2, HistoryType DEF Mirrors
      <4>2. Continues(w.mem.core, step)
        BY <3>2 DEF Continues
      <4>3. core = [step.core EXCEPT !.id = w.mem.core.id]
        BY <2>7, <3>2
      <4> HIDE DEF h, r, id, core
      <4>4. /\ Live(step.core) => Reflects(RowOf(core), h \o sent, core)
            /\ Spaced(h \o sent)
            /\ \A k \in 1..Len(h \o sent) : (h \o sent)[k].ts <= t
            /\ step.core.sev > rows[id].sev /\ Live(step.core) => sent # <<>>
        BY <1>2, <2>10, <3>2, <4>1, <4>2, <4>3, OutcomeIsReflected
      <4>5. \A i \in Id \ {id} : Latest(w.pend, i).state \notin LiveStates
        BY <3>2 DEF Mirrors
      <4> QED
        BY <2>2, <2>6, <4>4, <4>5 DEF h
    <3> QED
      BY <2>1, <3>1, <3>2
  <2> HIDE DEF r, id, core, sent
  <2>12. ASSUME NEW i \in Id, Latest(r.pend, i).state \in LiveStates
         PROVE  Live(r.mem.core) /\ r.mem.core.id = i
    BY <2>2, <2>3, <2>4, <2>11, <2>12 DEF Live
  <2>13. Live(r.mem.core) =>
           Reflects(Latest(r.pend, r.mem.core.id),
                    History(r.pend, r.mem.core.id), r.mem.core)
    BY <2>2, <2>3, <2>4, <2>11
  <2>14. ASSUME NEW i \in Id, r.pend.rows[i].state \in LiveStates,
                r.pend.rows[i].sev > rows[i].sev
         PROVE  r.pend.notes[i] # <<>>
    <3>1. CASE i = id
      BY <2>2, <2>4, <2>9, <2>11, <2>14, <3>1 DEF Live
    <3>2. CASE i # id
      BY <2>2, <2>14, <3>2 DEF NotBegun, LiveStates
    <3> QED
      BY <3>1, <3>2
  <2>15. ASSUME NEW i \in Id
         PROVE  /\ Spaced(History(r.pend, i))
                /\ \A k \in 1..Len(History(r.pend, i)) :
                     History(r.pend, i)[k].ts <= t
    BY <2>2, <2>11 DEF Mirrors
  <2>16. Mirrors(r, t)
    BY <2>12, <2>13, <2>14, <2>15 DEF Mirrors
  <2> QED
    BY <2>16 DEF r
<1> QED
  BY <1>1, <1>2

LEMMA MirrorsLater ==
    ASSUME TablesTyped, NEW w, Sound(w), NEW s \in Nat, NEW t \in Nat, s <= t,
           Mirrors(w, s)
    PROVE  Mirrors(w, t)
<1>1. ASSUME NEW i \in Id, NEW k \in 1..Len(History(w.pend, i))
      PROVE  History(w.pend, i)[k].ts <= t
  <2>1. History(w.pend, i) \in Seq(Note)
    BY HistoryType
  <2>2. History(w.pend, i)[k] \in Note
    BY <2>1, ElementOfSeq
  <2>3. History(w.pend, i)[k].ts \in Nat /\ History(w.pend, i)[k].ts <= s
    BY <2>2 DEF Mirrors, Note
  <2> QED
    BY <2>3
<1> QED
  BY <1>1 DEF Mirrors

-----------------------------------------------------------------------------
(* The stages of a tick. *)

(* The working state of a tick at time t.                                  *)
Keeps(w, t) ==
    Sound(w) /\ KnowsIds(w) /\ (locks = 0 => Mirrors(w, t))

(* Only a live core is bound to the tables; nothing looks at the load flag.*)
LEMMA SameBuffersKeep ==
    ASSUME NEW w, NEW v, NEW t, Keeps(w, t), Sound(v),
           v.pend.rows = w.pend.rows, v.pend.notes = w.pend.notes,
           v.nextId = w.nextId,
           v.mem.core = w.mem.core \/ (~Live(w.mem.core) /\ ~Live(v.mem.core))
    PROVE  Keeps(v, t) /\ (NotBegun(w) => NotBegun(v))
<1>1. \A i \in Id : Latest(v.pend, i) = Latest(w.pend, i)
                    /\ History(v.pend, i) = History(w.pend, i)
  BY DEF Latest, History
<1>2. KnowsIds(v)
  BY <1>1 DEF Keeps, KnowsIds
<1>3. ASSUME locks = 0 PROVE Mirrors(v, t)
  <2>1. Mirrors(w, t) /\ KnowsIds(w)
    BY <1>3 DEF Keeps
  <2>2. Live(v.mem.core) => v.mem.core = w.mem.core /\ w.mem.core.id \in Id
    BY <2>1 DEF KnowsIds
  <2> QED
    BY <1>1, <2>1, <2>2 DEF Mirrors
<1> QED
  BY <1>2, <1>3 DEF Keeps, NotBegun

LEMMA ApplyKeeps ==
    ASSUME TablesTyped, NEW w, NEW t \in Nat, Keeps(w, t), NotBegun(w),
           NEW step \in Step,
           Coherent([rungs |-> step.rungs, core |-> step.core]),
           Outcome(w.mem.core, step, t),
           Apply(w, step, t).nextId <= MaxId + 1
    PROVE  Keeps(Apply(w, step, t), t)
BY ApplyIsSound, ApplyKeepsIds, ApplyKeepsMirror DEF Keeps

LEMMA ClearedKeeps ==
    ASSUME TablesTyped, NEW w, NEW t \in Nat, Keeps(w, t), NotBegun(w),
           NEW reason
    PROVE  LET r == Forget(Apply(w, ClearOutright(w.mem, t, reason), t))
           IN Keeps(r, t) /\ NotBegun(r)
<1> DEFINE step == ClearOutright(w.mem, t, reason)
           r == Apply(w, step, t)
<1>1. w.mem \in GroupState /\ Coherent(w.mem) /\ KnowsIds(w) /\ Sound(w)
  BY DEF Keeps, Sound, Working
<1>2. /\ step \in Step /\ ~Live(step.core)
      /\ Coherent([rungs |-> step.rungs, core |-> step.core])
      /\ Stays(w.mem.core, step) \/ Ends(w.mem.core, step)
  BY <1>1, ClearOutrightIsCoherent, ClearOutrightOutcome
<1> HIDE DEF step
<1>3. Outcome(w.mem.core, step, t)
  BY <1>2 DEF Outcome
<1>4. r.nextId = w.nextId /\ NotBegun(r) /\ ~Live(r.mem.core)
  <2>1. CASE Stays(w.mem.core, step)
    BY <1>1, <1>2, <2>1, StaysIsNoWrite DEF Stays, NotBegun
  <2>2. CASE Ends(w.mem.core, step)
    <3>1. step.effect # NoEffect /\ step.core.id # 0
          /\ step.core.id = w.mem.core.id /\ w.mem.core.id \in Id
          /\ step.core.state = "cleared"
      BY <1>1, <2>2 DEF Ends, Continues, KnowsIds, Id
    <3>2. EffectId(w, step) = w.mem.core.id
      BY <3>1 DEF EffectId
    <3>3. EffectCore(w, step).state = "cleared"
          /\ RowOf(EffectCore(w, step)).state = "cleared"
      BY <1>2, <3>1 DEF EffectCore, Step, Core, RowOf
    <3>4. /\ r.mem.core = EffectCore(w, step) /\ r.nextId = w.nextId
          /\ \A i \in Id : r.pend.rows[i] =
               IF i = EffectId(w, step) THEN RowOf(EffectCore(w, step))
               ELSE w.pend.rows[i]
      BY <1>1, <1>2, <3>1, ApplyWrites
    <3> QED
      BY <3>3, <3>4 DEF NotBegun, Live, LiveStates
  <2> QED
    BY <1>2, <2>1, <2>2
<1>5. Keeps(r, t)
  <2>1. r.nextId <= MaxId + 1
    BY <1>1, <1>4 DEF KnowsIds
  <2> QED
    BY <1>2, <1>3, <2>1, ApplyKeeps
<1> HIDE DEF r
<1>6. Sound(Forget(r))
  BY <1>5, ForgetIsSound DEF Keeps
<1>7. /\ Forget(r).pend = r.pend /\ Forget(r).nextId = r.nextId
      /\ ~Live(Forget(r).mem.core)
  BY <1>5 DEF Forget, Keeps, Sound, Working, EmptyState, NoCore, Live, LiveStates
<1>8. Keeps(Forget(r), t) /\ NotBegun(Forget(r))
  BY <1>4, <1>5, <1>6, <1>7, SameBuffersKeep
<1> QED
  BY <1>8 DEF r, step

LEMMA ReloadedKeeps ==
    ASSUME TablesTyped, NEW w, NEW t \in Nat, Keeps(w, t), NotBegun(w)
    PROVE  Keeps(Reloaded(w, t), t) /\ NotBegun(Reloaded(w, t))
<1> DEFINE f == Forget(Apply(w, ClearOutright(w.mem, t, "superseded"), t))
           v == [f EXCEPT !.pend.load = TRUE]
<1>1. Keeps(f, t) /\ NotBegun(f)
  BY ClearedKeeps
<1> HIDE DEF f
<1>2. f \in Working /\ Sound(f)
  BY <1>1 DEF Keeps, Sound
<1>3. /\ v \in Working /\ v.pend.rows = f.pend.rows /\ v.pend.notes = f.pend.notes
      /\ v.nextId = f.nextId /\ v.mem = f.mem
  BY <1>2 DEF Working, Pending
<1> HIDE DEF v
<1>4. Sound(v)
  BY <1>2, <1>3 DEF Sound
<1>5. Keeps(v, t) /\ NotBegun(v)
  BY <1>1, <1>3, <1>4, SameBuffersKeep
<1> QED
  BY <1>5 DEF Reloaded, v, f

LEMMA AcksSeenKeeps ==
    ASSUME TablesTyped, NEW w, NEW t \in Nat, Keeps(w, t), NotBegun(w)
    PROVE  Keeps(AcksSeen(w), t) /\ NotBegun(AcksSeen(w))
<1> SUFFICES ASSUME w.mem.core.state = "open", w.mem.core.id \in Id,
                    rows[w.mem.core.id].state = "acked"
             PROVE  LET v == [w EXCEPT !.mem.core.state = "acked"]
                    IN Keeps(v, t) /\ NotBegun(v)
  BY DEF AcksSeen
<1> DEFINE v == [w EXCEPT !.mem.core.state = "acked"]
           c == w.mem.core
<1>1. Sound(v) /\ Sound(w) /\ KnowsIds(w)
  <2>1. Sound(w)
    BY DEF Keeps
  <2>2. v = AcksSeen(w)
    BY DEF AcksSeen
  <2> QED
    BY <2>1, <2>2, AcksSeenIsSound DEF Keeps
<1>2. /\ v.pend = w.pend /\ v.nextId = w.nextId /\ v.mem.core.state = "acked"
      /\ v.mem.core.id = c.id /\ v.mem.core.sev = c.sev
      /\ v.mem.core.owner = c.owner /\ v.mem.core.nc = c.nc
      /\ v.mem.core.last = c.last /\ v.mem.core.tier = c.tier
  BY <1>1 DEF Sound, Working, GroupState, Core
<1>3. Live(c) /\ Live(v.mem.core)
  BY <1>2 DEF Live, LiveStates
<1> HIDE DEF v
<1>4. KnowsIds(v)
  BY <1>1, <1>2, <1>3 DEF KnowsIds
<1>5. Latest(w.pend, c.id) = rows[c.id]
  <2>1. Latest(w.pend, c.id).state # "cleared"
    BY <1>1, <1>3 DEF KnowsIds
  <2> QED
    BY <2>1 DEF NotBegun, Latest
<1>6. ASSUME Mirrors(w, t) PROVE Mirrors(v, t)
  <2>1. Reflects(Latest(v.pend, c.id), History(v.pend, c.id), v.mem.core)
    BY <1>2, <1>3, <1>5, <1>6 DEF Mirrors, Reflects
  <2> QED
    BY <1>2, <1>3, <1>6, <2>1 DEF Mirrors
<1>7. NotBegun(v)
  BY <1>2 DEF NotBegun
<1> QED
  BY <1>1, <1>4, <1>6, <1>7 DEF Keeps, v

LEMMA BegunKeeps ==
    ASSUME TablesTyped, NEW t \in Nat, NEW scan \in BOOLEAN,
           Keeps([mem |-> mem, pend |-> pend, nextId |-> nextId], t),
           NotBegun([mem |-> mem, pend |-> pend, nextId |-> nextId])
    PROVE  Keeps(Begun(scan, t), t) /\ NotBegun(Begun(scan, t))
BY ReloadedKeeps, AcksSeenKeeps DEF Begun

LEMMA EvaluatedKeeps ==
    ASSUME TablesTyped, NEW w, NEW t \in Nat, Keeps(w, t), NotBegun(w),
           NEW evals \in [Rung -> TriBool],
           Evaluated(w, evals, t).nextId <= MaxId + 1
    PROVE  Keeps(Evaluated(w, evals, t), t)
<1>1. w.mem \in GroupState /\ Coherent(w.mem)
  BY DEF Keeps, Sound, Working
<1>2. /\ StepGroup(w.mem, evals, t) \in Step
      /\ Coherent([rungs |-> StepGroup(w.mem, evals, t).rungs,
                   core |-> StepGroup(w.mem, evals, t).core])
      /\ Outcome(w.mem.core, StepGroup(w.mem, evals, t), t)
  BY <1>1, StepGroupIsCoherent, StepGroupOutcome
<1> QED
  BY <1>2, ApplyKeeps DEF Evaluated

-----------------------------------------------------------------------------
(* The inductive invariant: what the tables keep by themselves, and what   *)
(* memory and buffers owe to them while the daemon runs.                   *)
Held == [mem |-> mem, pend |-> pend, nextId |-> nextId]

TablesKept ==
    /\ \A i \in Id : rows[i].state = "none" => notes[i] = <<>>
    /\ \A i, j \in LiveRows(rows) : i = j
    /\ locks = 0 =>
         \A i \in Id :
           /\ Spaced(notes[i])
           /\ \A k \in 1..Len(notes[i]) : notes[i][k].ts <= now
           /\ i \in LiveRows(rows) =>
                /\ Len(notes[i]) = rows[i].nc
                /\ EndsAt(notes[i], notes[i][Len(notes[i])].ts)

KInv ==
    /\ IInv /\ now <= MaxNow /\ TablesKept
    /\ phase # "down" => Keeps(Held, now)
    /\ phase = "idle" => NotBegun(Held)

LEMMA KInvTypes ==
    ASSUME KInv
    PROVE  /\ TablesTyped /\ now \in Nat /\ locks \in Nat
           /\ mem \in GroupState /\ pend \in Pending /\ nextId \in Nat
           /\ Held.mem = mem /\ Held.pend = pend /\ Held.nextId = nextId
BY DEF KInv, IInv, TypeOK, TablesKept, TablesTyped, Held

(* With the tables unchanged, what held of the working state a step ends   *)
(* with holds of the new state.                                            *)
LEMMA KeepsCarries ==
    ASSUME NEW v, NEW t, Keeps(v, t), rows' = rows, notes' = notes,
           locks' = locks, Held' = v, now' = t
    PROVE  Keeps(Held, now)'
BY DEF Keeps, Sound, Working, KnowsIds, Mirrors, Latest, History

LEMMA TablesCarry ==
    ASSUME KInv, rows' = rows, notes' = notes, locks' = locks,
           now' \in Nat, now <= now'
    PROVE  TablesKept'
<1>1. /\ \A i \in Id : rows'[i].state = "none" => notes'[i] = <<>>
      /\ \A i, j \in LiveRows(rows') : i = j
  BY DEF KInv, TablesKept, LiveRows
<1>2. ASSUME locks' = 0, NEW i \in Id
      PROVE  /\ Spaced(notes'[i])
             /\ \A k \in 1..Len(notes'[i]) : notes'[i][k].ts <= now'
             /\ i \in LiveRows(rows') =>
                  /\ Len(notes'[i]) = rows'[i].nc
                  /\ EndsAt(notes'[i], notes'[i][Len(notes'[i])].ts)
  <2>1. notes[i] \in Seq(Note) /\ now \in Nat
    BY KInvTypes DEF TablesTyped
  <2>2. ASSUME NEW k \in 1..Len(notes[i]) PROVE notes[i][k].ts <= now'
    <3>1. notes[i][k] \in Note
      BY <2>1, ElementOfSeq
    <3>2. notes[i][k].ts \in Nat /\ notes[i][k].ts <= now
      BY <1>2, <3>1 DEF Note, KInv, TablesKept
    <3> QED
      BY <2>1, <3>2
  <2> QED
    BY <1>2, <2>2 DEF KInv, TablesKept, LiveRows
<1> QED
  BY <1>1, <1>2 DEF TablesKept

LEMMA TickTimesPass ==
    ASSUME KInv, NEW t \in TickTimes
    PROVE  t \in Nat /\ now <= t /\ t <= MaxNow
BY LifecycleAssumption, KInvTypes DEF KInv, TickTimes, AtMost

LEMMA BufferKeepsKInv ==
    ASSUME KInv, IInv', NEW done, NEW scan \in BOOLEAN, NEW t \in TickTimes,
           Keeps(done, t), Buffer(done, scan, t)
    PROVE  KInv'
<1>1. t \in Nat /\ now <= t /\ t <= MaxNow
  BY TickTimesPass
<1>2. /\ now' = t /\ phase' = "buffered" /\ rows' = rows /\ notes' = notes
      /\ locks' = locks /\ mem' = done.mem /\ pend' = done.pend
      /\ nextId' = done.nextId
  BY DEF Buffer
<1>3. Held' = done
  BY <1>2 DEF Held, Keeps, Sound, Working
<1>4. Keeps(Held, now)'
  BY <1>2, <1>3, KeepsCarries
<1>5. TablesKept'
  BY <1>1, <1>2, TablesCarry
<1> QED
  BY <1>1, <1>2, <1>4, <1>5 DEF KInv

LEMMA BegunKeepsKInv ==
    ASSUME KInv, NEW scan \in BOOLEAN, NEW t \in TickTimes, MayTick(scan)
    PROVE  Keeps(Begun(scan, t), t) /\ NotBegun(Begun(scan, t))
<1>1. t \in Nat /\ now \in Nat /\ now <= t /\ TablesTyped
  BY TickTimesPass, KInvTypes
<1>2. Keeps(Held, now) /\ NotBegun(Held)
  BY DEF KInv, MayTick
<1>3. Keeps(Held, t)
  BY <1>1, <1>2, MirrorsLater DEF Keeps
<1> QED
  BY <1>1, <1>2, <1>3, BegunKeeps DEF Held

LEMMA TicksKeepKInv ==
    ASSUME KInv, IInv',
           (\E evals \in [Rung -> TriBool] : TickEvaluates(evals))
             \/ TickPasses \/ TickGone
    PROVE  KInv'
<1>1. ASSUME NEW evals \in [Rung -> TriBool], TickEvaluates(evals) PROVE KInv'
  <2>1. PICK t \in TickTimes, scan \in BOOLEAN :
          MayTick(scan) /\ Buffer(Evaluated(Begun(scan, t), evals, t), scan, t)
    BY <1>1 DEF TickEvaluates
  <2>2. Keeps(Begun(scan, t), t) /\ NotBegun(Begun(scan, t))
    BY <2>1, BegunKeepsKInv
  <2>3. t \in Nat /\ TablesTyped
    BY TickTimesPass, KInvTypes
  <2>4. Evaluated(Begun(scan, t), evals, t).nextId <= MaxId + 1
    BY <2>1 DEF Buffer
  <2>5. Keeps(Evaluated(Begun(scan, t), evals, t), t)
    BY <2>2, <2>3, <2>4, EvaluatedKeeps
  <2> QED
    BY <2>1, <2>5, BufferKeepsKInv
<1>2. CASE TickPasses
  <2>1. PICK t \in TickTimes, scan \in BOOLEAN :
          MayTick(scan) /\ Buffer(Begun(scan, t), scan, t)
    BY <1>2 DEF TickPasses
  <2> QED
    BY <2>1, BegunKeepsKInv, BufferKeepsKInv
<1>3. CASE TickGone
  <2>1. PICK t \in TickTimes, scan \in BOOLEAN :
          MayTick(scan) /\ Buffer(Gone(Begun(scan, t), t), scan, t)
    BY <1>3 DEF TickGone
  <2>2. Keeps(Begun(scan, t), t) /\ NotBegun(Begun(scan, t))
    BY <2>1, BegunKeepsKInv
  <2>3. Keeps(Gone(Begun(scan, t), t), t)
    BY <2>2, TickTimesPass, KInvTypes, ClearedKeeps DEF Gone
  <2> QED
    BY <2>1, <2>3, BufferKeepsKInv
<1> QED
  BY <1>1, <1>2, <1>3

-----------------------------------------------------------------------------
(* The commit. *)

LEMMA MergedIsLatest ==
    ASSUME KInv, NEW i \in Id
    PROVE  /\ Merged[i].state = Latest(pend, i).state
           /\ Merged[i].sev = Latest(pend, i).sev
           /\ Merged[i].owner = Latest(pend, i).owner
           /\ Merged[i].nc = Latest(pend, i).nc
<1>1. pend.rows[i] \in Row
  BY KInvTypes DEF Pending
<1>2. CASE pend.rows[i].state = "none"
  BY <1>2 DEF Merged, Latest
<1>3. CASE pend.rows[i].state # "none"
  <2> DEFINE opened == IF rows[i].state = "none" THEN pend.rows[i].opened
                       ELSE rows[i].opened
  <2>1. Merged[i] = [pend.rows[i] EXCEPT !.opened = opened]
    BY <1>3 DEF Merged
  <2> HIDE DEF opened
  <2> QED
    BY <1>1, <1>3, <2>1 DEF Latest, Row
<1> QED
  BY <1>2, <1>3

LEMMA NoPendingIsEmpty ==
    \A i \in Id : NoPending.rows[i] = NoRow /\ NoPending.notes[i] = <<>>
BY DEF NoPending

LEMMA CommitSucceedsKeepsKInv ==
    ASSUME KInv, IInv', CommitSucceeds PROVE KInv'
<1> USE DEF CommitSucceeds
<1>1. /\ TablesTyped /\ now \in Nat /\ locks \in Nat /\ Sound(Held)
      /\ Held.mem = mem /\ Held.pend = pend /\ Held.nextId = nextId
      /\ Keeps(Held, now) /\ KnowsIds(Held)
  BY KInvTypes DEF KInv, Keeps
<1>2. Held'.mem = mem /\ Held'.pend = NoPending /\ Held'.nextId = nextId
  BY DEF Held
<1>3. ASSUME NEW i \in Id
      PROVE  /\ rows'[i] = Merged[i]
             /\ Latest(NoPending, i)' = rows'[i]
             /\ notes'[i] = History(pend, i)
             /\ History(NoPending, i)' = notes'[i]
             /\ notes'[i] \in Seq(Note)
  <2>1. rows'[i] = Merged[i] /\ notes'[i] = History(pend, i)
    BY DEF History
  <2>2. NoPending.rows[i].state = "none" /\ NoPending.notes[i] = <<>>
    BY NoPendingIsEmpty DEF NoRow
  <2>3. notes'[i] \in Seq(Note)
    BY <1>1, <2>1, HistoryType
  <2>4. notes'[i] \o <<>> = notes'[i]
    BY <2>3, ConcatEmptySeq
  <2> QED
    BY <2>1, <2>2, <2>3, <2>4 DEF Latest, History
<1>4. ASSUME NEW i \in Id
      PROVE  /\ rows'[i].state = Latest(pend, i).state
             /\ rows'[i].sev = Latest(pend, i).sev
             /\ rows'[i].owner = Latest(pend, i).owner
             /\ rows'[i].nc = Latest(pend, i).nc
  BY <1>3, MergedIsLatest
<1>5. KnowsIds(Held)'
  <2>1. \A i \in Id : NoPending.rows[i].state = "none" /\ NoPending.notes[i] = <<>>
    BY NoPendingIsEmpty DEF NoRow
  <2>2. \A i \in Id : rows[i].state # "none" => rows'[i].state # "none"
    BY <1>4 DEF Latest
  <2>3. ASSUME NEW i \in Id, nextId # 0, Latest(NoPending, i)'.state # "none"
        PROVE  i < nextId
    BY <1>1, <1>3, <1>4, <2>3 DEF KnowsIds
  <2>4. Live(mem.core) =>
          /\ mem.core.id \in Id
          /\ nextId # 0 => mem.core.id < nextId
          /\ nextId = 0 => rows'[mem.core.id].state # "none"
          /\ Latest(NoPending, mem.core.id)'.state # "cleared"
    BY <1>1, <1>3, <1>4, <2>2 DEF KnowsIds
  <2> QED
    BY <1>1, <1>2, <2>1, <2>3, <2>4 DEF KnowsIds
<1>6. ASSUME locks' = 0 PROVE Mirrors(Held, now)'
  <2>1. Mirrors(Held, now)
    BY <1>1, <1>6 DEF Keeps
  <2>2. ASSUME NEW i \in Id, Latest(NoPending, i)'.state \in LiveStates
        PROVE  Live(mem.core) /\ mem.core.id = i
    BY <1>1, <1>3, <1>4, <2>1, <2>2 DEF Mirrors
  <2>3. ASSUME Live(mem.core)
        PROVE  Reflects(Latest(NoPending, mem.core.id)',
                        History(NoPending, mem.core.id)', mem.core)
    <3>1. mem.core.id \in Id
      BY <1>1, <2>3 DEF KnowsIds
    <3>2. Reflects(Latest(pend, mem.core.id), History(pend, mem.core.id),
                   mem.core)
      BY <1>1, <2>1, <2>3 DEF Mirrors
    <3> QED
      BY <1>3, <1>4, <3>1, <3>2 DEF Reflects
  <2>4. \A i \in Id : NoPending.rows[i].state \notin LiveStates
    BY NoPendingIsEmpty DEF NoRow, LiveStates
  <2>5. \A i \in Id : /\ Spaced(History(NoPending, i)')
                      /\ \A k \in 1..Len(History(NoPending, i)') :
                           History(NoPending, i)'[k].ts <= now'
    BY <1>1, <1>3, <2>1, ZenonT(40) DEF Mirrors
  <2> QED
    BY <1>2, <2>2, <2>3, <2>4, <2>5 DEF Mirrors
<1>7. TablesKept'
  <2>1. ASSUME NEW i \in Id, rows'[i].state = "none" PROVE notes'[i] = <<>>
    <3>1. rows[i].state = "none" /\ pend.rows[i].state = "none"
      BY <1>4, <2>1 DEF Latest
    <3>2. notes[i] = <<>> /\ pend.notes[i] = <<>>
      BY <1>1, <3>1 DEF KnowsIds, TablesTyped
    <3> QED
      BY <1>3, <3>2, ConcatEmptySeq, EmptySeq DEF History
  <2>2. \A i, j \in LiveRows(rows)' : i = j
    BY DEF BreaksUniqueIndex, LiveRows
  <2>3. ASSUME locks' = 0, NEW i \in Id
        PROVE  /\ Spaced(notes'[i])
               /\ \A k \in 1..Len(notes'[i]) : notes'[i][k].ts <= now'
               /\ i \in LiveRows(rows') =>
                    /\ Len(notes'[i]) = rows'[i].nc
                    /\ EndsAt(notes'[i], notes'[i][Len(notes'[i])].ts)
    <3>1. Mirrors(Held, now)
      BY <1>1, <2>3 DEF Keeps
    <3>2. Spaced(notes'[i]) /\ \A k \in 1..Len(notes'[i]) : notes'[i][k].ts <= now'
      BY <1>1, <1>3, <3>1 DEF Mirrors
    <3>3. ASSUME i \in LiveRows(rows')
          PROVE  /\ Len(notes'[i]) = rows'[i].nc
                 /\ EndsAt(notes'[i], notes'[i][Len(notes'[i])].ts)
      <4>1. Latest(pend, i).state \in LiveStates
        BY <1>4, <3>3 DEF LiveRows
      <4>2. Live(mem.core) /\ mem.core.id = i
        BY <1>1, <3>1, <4>1 DEF Mirrors
      <4>3. Reflects(Latest(pend, i), History(pend, i), mem.core)
        BY <1>1, <3>1, <4>2 DEF Mirrors
      <4> QED
        BY <1>3, <1>4, <4>3 DEF Reflects, EndsAt
    <3> QED
      BY <3>2, <3>3
  <2> QED
    BY <2>1, <2>2, <2>3 DEF TablesKept, LiveRows
<1>8. NotBegun(Held)'
  BY <1>2, NoPendingIsEmpty DEF NotBegun, NoRow
<1>9. Sound(Held)'
  BY NoPendingIsSound, KInvTypes
     DEF Held, Sound, Working, KInv, IInv, SeverityIsTop
<1> QED
  BY <1>5, <1>6, <1>7, <1>8, <1>9 DEF KInv, Keeps

-----------------------------------------------------------------------------
(* The other actions. *)

LEMMA CommitLockedKeepsKInv ==
    ASSUME KInv, IInv', CommitLocked PROVE KInv'
<1> USE DEF CommitLocked
<1>1. /\ Held.mem = mem /\ Held.pend = pend /\ Held.nextId = nextId
      /\ KnowsIds(Held) /\ now \in Nat /\ locks \in Nat
  BY KInvTypes DEF KInv, Keeps
<1>2. Held'.mem = mem /\ Held'.pend = NoPending /\ Held'.nextId = nextId
  BY DEF Held
<1>3. \A i \in Id : NoPending.rows[i].state = "none" /\ NoPending.notes[i] = <<>>
  BY NoPendingIsEmpty DEF NoRow
<1>4. KnowsIds(Held)'
  <2>1. \A i \in Id : Latest(NoPending, i)' = rows[i]
    BY <1>3 DEF Latest
  <2>2. \A i \in Id : rows[i].state # "none" => Latest(pend, i).state # "none"
    BY DEF Latest
  <2>3. Live(mem.core) =>
          /\ mem.core.id \in Id
          /\ nextId # 0 => mem.core.id < nextId
          /\ nextId = 0 => rows[mem.core.id].state # "none"
          /\ rows[mem.core.id].state # "cleared"
    BY <1>1 DEF KnowsIds, Latest
  <2> QED
    BY <1>1, <1>2, <1>3, <2>1, <2>2, <2>3 DEF KnowsIds
<1>5. locks' # 0
  BY <1>1
<1>6. TablesKept'
  BY <1>5 DEF KInv, TablesKept, LiveRows
<1>7. Sound(Held)'
  BY NoPendingIsSound, KInvTypes
     DEF Held, Sound, Working, KInv, IInv, SeverityIsTop
<1>8. NotBegun(Held)'
  BY <1>2, <1>3 DEF NotBegun
<1> QED
  BY <1>4, <1>5, <1>6, <1>7, <1>8 DEF KInv, Keeps

LEMMA StoppingKeepsKInv ==
    ASSUME KInv, IInv', CommitRaises \/ Crash PROVE KInv'
<1>1. /\ phase' = "down" /\ rows' = rows /\ notes' = notes /\ locks' = locks
      /\ now' = now
  BY DEF CommitRaises, Crash, Stopped
<1>2. now \in Nat /\ now <= now
  BY KInvTypes
<1>3. TablesKept'
  BY <1>1, <1>2, TablesCarry
<1> QED
  BY <1>1, <1>3 DEF KInv

LEMMA EditKeepsKInv ==
    ASSUME KInv, IInv', EditDefinition PROVE KInv'
<1>1. /\ phase' = phase /\ rows' = rows /\ notes' = notes /\ locks' = locks
      /\ now' = now /\ Held' = Held
  BY DEF EditDefinition, Held
<1>2. now \in Nat /\ now <= now
  BY KInvTypes
<1>3. TablesKept'
  BY <1>1, <1>2, TablesCarry
<1>4. phase # "down" => Keeps(Held, now)'
  BY <1>1, KeepsCarries DEF KInv
<1>5. phase = "idle" => NotBegun(Held)'
  BY <1>1 DEF KInv, NotBegun
<1> QED
  BY <1>1, <1>3, <1>4, <1>5 DEF KInv

(* An ack changes the state of one live row and leaves it live.            *)
LEMMA AckKeepsKInv ==
    ASSUME KInv, IInv', NEW a \in Id, Ack(a) PROVE KInv'
<1>1. /\ TablesTyped /\ Held.mem = mem /\ Held.pend = pend
      /\ Held.nextId = nextId /\ now \in Nat
  BY KInvTypes
<1>2. /\ phase' = phase /\ notes' = notes /\ locks' = locks /\ now' = now
      /\ Held' = Held /\ rows[a].state = "open"
      /\ rows' = [rows EXCEPT ![a].state = "acked"]
  BY DEF Ack, Held
<1>3. ASSUME NEW i \in Id
      PROVE  /\ rows'[i].state = IF i = a THEN "acked" ELSE rows[i].state
             /\ rows'[i].sev = rows[i].sev /\ rows'[i].owner = rows[i].owner
             /\ rows'[i].nc = rows[i].nc
  BY <1>1, <1>2 DEF TablesTyped, Row
<1>4. ASSUME NEW i \in Id
      PROVE  /\ Latest(pend, i)'.state \in {Latest(pend, i).state, "acked"}
             /\ Latest(pend, i)'.state \in LiveStates
                  <=> Latest(pend, i).state \in LiveStates
             /\ Latest(pend, i)'.state = "none" <=> Latest(pend, i).state = "none"
             /\ Latest(pend, i)'.state = "cleared"
                  <=> Latest(pend, i).state = "cleared"
             /\ Latest(pend, i)'.sev = Latest(pend, i).sev
             /\ Latest(pend, i)'.owner = Latest(pend, i).owner
             /\ Latest(pend, i)'.nc = Latest(pend, i).nc
             /\ History(pend, i)' = History(pend, i)
  <2>1. pend' = pend
    BY DEF Ack
  <2> QED
    BY <1>2, <1>3, <2>1 DEF Latest, History, LiveStates
<1>5. LiveRows(rows') = LiveRows(rows)
  BY <1>2, <1>3 DEF LiveRows, LiveStates
<1>6. TablesKept'
  <2>1. \A i \in Id : rows'[i].state = "none" => notes'[i] = <<>>
    BY <1>1, <1>2, <1>3 DEF TablesTyped
  <2>2. \A i, j \in LiveRows(rows') : i = j
    BY <1>5 DEF KInv, TablesKept
  <2>3. ASSUME locks' = 0, NEW i \in Id
        PROVE  /\ Spaced(notes'[i])
               /\ \A k \in 1..Len(notes'[i]) : notes'[i][k].ts <= now'
               /\ i \in LiveRows(rows') =>
                    /\ Len(notes'[i]) = rows'[i].nc
                    /\ EndsAt(notes'[i], notes'[i][Len(notes'[i])].ts)
    BY <1>2, <1>3, <1>5, <2>3 DEF KInv, TablesKept
  <2> QED
    BY <2>1, <2>2, <2>3 DEF TablesKept, LiveRows
<1>7. ASSUME phase # "down" PROVE Keeps(Held, now)'
  <2>1. Sound(Held) /\ KnowsIds(Held) /\ (locks = 0 => Mirrors(Held, now))
    BY <1>7 DEF KInv, Keeps
  <2>2. Sound(Held)'
    BY <1>2, <2>1 DEF Sound, Working
  <2>3. pend' = pend /\ mem' = mem /\ nextId' = nextId
        /\ Held'.mem = mem /\ Held'.pend = pend /\ Held'.nextId = nextId
    BY <1>1, <1>2 DEF Ack
  <2>4. KnowsIds(Held)'
    <3>1. \A i \in Id : pend.rows[i].state # "none" =>
                          rows'[i].state # "none" \/ nextId # 0
      BY <1>1, <1>3, <2>1 DEF KnowsIds
    <3>2. \A i \in Id : nextId # 0 /\ Latest(pend, i)'.state # "none" =>
                          i < nextId
      BY <1>1, <1>4, <2>1 DEF KnowsIds
    <3>3. \A i \in Id : rows'[i].state = "cleared" => pend.rows[i].state = "none"
      BY <1>1, <1>3, <2>1 DEF KnowsIds
    <3>4. Live(mem.core) =>
            /\ mem.core.id \in Id
            /\ nextId # 0 => mem.core.id < nextId
            /\ nextId = 0 => rows'[mem.core.id].state # "none"
            /\ Latest(pend, mem.core.id)'.state # "cleared"
      BY <1>1, <1>3, <1>4, <2>1, <2>3 DEF KnowsIds
    <3>5. /\ nextId <= MaxId + 1
          /\ \A i \in Id : pend.notes[i] # <<>> => pend.rows[i].state # "none"
      BY <1>1, <2>1 DEF KnowsIds
    <3> QED
      BY <2>3, <3>1, <3>2, <3>3, <3>4, <3>5 DEF KnowsIds
  <2>5. ASSUME locks' = 0 PROVE Mirrors(Held, now)'
    <3>1. Mirrors(Held, now)
      BY <1>2, <2>1, <2>5
    <3>2. ASSUME NEW i \in Id, Latest(pend, i)'.state \in LiveStates
          PROVE  Live(mem.core) /\ mem.core.id = i
      BY <1>1, <1>4, <3>1, <3>2 DEF Mirrors
    <3>3. ASSUME Live(mem.core)
          PROVE  Reflects(Latest(pend, mem.core.id)',
                          History(pend, mem.core.id)', mem.core)
      <4>1. mem.core.id \in Id
            /\ Reflects(Latest(pend, mem.core.id), History(pend, mem.core.id),
                        mem.core)
        BY <1>1, <2>1, <3>1, <3>3 DEF KnowsIds, Mirrors
      <4> QED
        BY <1>4, <2>3, <4>1 DEF Reflects
    <3>4. \A i \in Id : pend.rows[i].state \in LiveStates
                        /\ pend.rows[i].sev > rows'[i].sev
                        => pend.notes[i] # <<>>
      BY <1>1, <1>3, <3>1 DEF Mirrors
    <3>5. \A i \in Id : /\ Spaced(History(pend, i)')
                        /\ \A k \in 1..Len(History(pend, i)') :
                             History(pend, i)'[k].ts <= now'
      BY <1>1, <1>2, <1>4, <3>1 DEF Mirrors
    <3> QED
      BY <2>3, <3>2, <3>3, <3>4, <3>5 DEF Mirrors
  <2> QED
    BY <2>2, <2>4, <2>5 DEF Keeps
<1>8. phase = "idle" => NotBegun(Held)'
  BY <1>2 DEF KInv, NotBegun
<1> QED
  BY <1>2, <1>6, <1>7, <1>8 DEF KInv

(* The latest of a history that ends with its latest.                      *)
LEMMA LatestOfHistory ==
    ASSUME NEW h \in Seq(Note), NEW x \in Nat, EndsAt(h, x)
    PROVE  MaxOf({h[k].ts : k \in DOMAIN h}) = x
<1> DEFINE S == {h[k].ts : k \in DOMAIN h}
<1>1. /\ DOMAIN h = 1..Len(h) /\ Len(h) \in Nat \ {0}
      /\ \A k \in 1..Len(h) : h[k] \in Note
  BY EmptySeq, ElementOfSeq DEF EndsAt
<1>2. x \in S
  BY <1>1 DEF EndsAt
<1>3. \A y \in S : y <= x
  BY <1>1 DEF EndsAt
<1>4. S \in SUBSET Nat
  BY <1>1 DEF Note
<1> HIDE DEF S
<1>5. x <= MaxOf(S)
  BY <1>2, <1>3, <1>4, MaxOfBounds
<1>6. MaxOf(S) \in S
  BY <1>2, <1>3 DEF MaxOf
<1>7. MaxOf(S) <= x /\ MaxOf(S) \in Nat
  BY <1>3, <1>4, <1>6
<1>8. MaxOf(S) = x
  BY <1>5, <1>7
<1> QED
  BY <1>8 DEF S

LEMMA RestartKeepsKInv ==
    ASSUME KInv, IInv', Restart PROVE KInv'
<1>1. /\ TablesTyped /\ now \in Nat /\ locks \in Nat /\ MaxId \in Nat
  BY KInvTypes, LifecycleAssumption
<1>2. /\ rows' = rows /\ notes' = notes /\ locks' = locks /\ now' = now
      /\ nextId' = 0 /\ phase' = "idle"
  BY DEF Restart
<1>3. TablesKept'
  BY <1>1, <1>2, TablesCarry
<1>4. Held'.mem = mem' /\ Held'.pend = pend' /\ Held'.nextId = 0
  BY <1>2 DEF Held
<1>5. Sound(Held)'
  BY DEF Held, Sound, Working, IInv, TypeOK, SeverityIsTop, RowsNameTheirOwner
<1>6. ASSUME NEW i \in Id
      PROVE  /\ pend'.notes[i] = <<>>
             /\ History(pend, i)' = notes[i] /\ notes[i] \in Seq(Note)
             /\ pend'.rows[i] = IF SupersededAtStart /\ i \in LiveRows(rows)
                                THEN SupersededRow(i) ELSE NoRow
  <2>1. pend'.notes[i] = <<>>
        /\ pend'.rows[i] = IF SupersededAtStart /\ i \in LiveRows(rows)
                           THEN SupersededRow(i) ELSE NoRow
    BY DEF Restart, NoPending
  <2>2. notes[i] \in Seq(Note)
    BY <1>1 DEF TablesTyped
  <2>3. History(pend, i)' = notes'[i] \o pend'.notes[i]
    BY DEF History
  <2> QED
    BY <1>2, <2>1, <2>2, <2>3, ConcatEmptySeq
<1>7. ASSUME NEW i \in Id
      PROVE  SupersededRow(i).state = "cleared" /\ NoRow.state = "none"
  BY <1>1 DEF SupersededRow, NoRow, TablesTyped, Row
<1>8. NotBegun(Held)'
  BY <1>4, <1>6, <1>7 DEF NotBegun
<1>9. ASSUME NEW i \in Id
      PROVE  Latest(pend, i)'.state \in LiveStates
               <=> i \in LiveRows(rows) /\ ~SupersededAtStart
  BY <1>2, <1>6, <1>7 DEF Latest, LiveRows, LiveStates
<1>10. ASSUME NEW i \in Id
       PROVE  /\ pend'.rows[i].state # "none" => rows[i].state # "none"
              /\ rows[i].state = "cleared" => pend'.rows[i].state = "none"
              /\ pend'.rows[i].state \notin LiveStates
  BY <1>6, <1>7 DEF LiveRows, LiveStates
<1>11. CASE SupersededAtStart \/ LiveRows(rows) = {}
  <2>1. ~Live(mem'.core)
    BY <1>11 DEF Restart, EmptyState, NoCore, Live, LiveStates
  <2>2. KnowsIds(Held)'
    BY <1>1, <1>2, <1>4, <1>6, <1>10, <2>1 DEF KnowsIds
  <2>3. locks' = 0 => Mirrors(Held, now)'
    BY <1>2, <1>4, <1>6, <1>9, <1>10, <1>11, <2>1 DEF Mirrors, KInv, TablesKept
  <2> QED
    BY <1>2, <1>3, <1>5, <1>8, <2>2, <2>3 DEF KInv, Keeps
<1>12. CASE ~(SupersededAtStart \/ LiveRows(rows) = {})
  <2>0. PICK i \in LiveRows(rows) : mem' = Rebuilt(i)
    BY <1>12 DEF Restart
  <2> DEFINE core == RebuiltCore(i)
             h == notes[i]
  <2>1. i \in LiveRows(rows) /\ i \in Id
    BY DEF LiveRows
  <2>2. mem'.core = core
    BY <2>0 DEF Rebuilt
  <2>3. /\ core.id = i /\ core.state = rows[i].state /\ core.sev = rows[i].sev
        /\ core.owner = rows[i].owner /\ core.nc = rows[i].nc
        /\ core.tier = (IF rows[i].flapping THEN LastTier
                        ELSE AtMost(IF rows[i].nc = 0 THEN 0 ELSE rows[i].nc - 1,
                                    LastTier))
        /\ h # <<>> => core.last = MaxOf({h[k].ts : k \in DOMAIN h})
    BY DEF RebuiltCore
  <2> HIDE DEF core
  <2>4. Live(core) /\ rows[i].state \in LiveStates
    BY <2>1, <2>3 DEF Live, LiveRows
  <2>5. pend'.rows[i].state = "none" /\ Latest(pend, i)' = rows[i]
    <3>1. pend'.rows[i].state = "none"
      BY <1>6, <1>7, <1>12, <2>1
    <3> QED
      BY <1>2, <3>1 DEF Latest
  <2>6. KnowsIds(Held)'
    BY <1>1, <1>2, <1>4, <1>6, <1>10, <2>1, <2>2, <2>3, <2>4, <2>5
       DEF KnowsIds, LiveStates
  <2>7. ASSUME locks' = 0 PROVE Mirrors(Held, now)'
    <3>1. /\ Len(h) = rows[i].nc /\ EndsAt(h, h[Len(h)].ts) /\ h \in Seq(Note)
      BY <1>1, <1>2, <2>1, <2>7 DEF KInv, TablesKept, TablesTyped
    <3>2. /\ Len(h) \in Nat \ {0} /\ h # <<>> /\ h[Len(h)].ts \in Nat
      <4>1. Len(h) \in Nat \ {0} /\ h # <<>>
        BY <3>1, EmptySeq DEF EndsAt
      <4>2. h[Len(h)] \in Note
        BY <3>1, <4>1, ElementOfSeq
      <4> QED
        BY <4>1, <4>2 DEF Note
    <3>3. EndsAt(h, core.last)
      BY <2>3, <3>1, <3>2, LatestOfHistory
    <3>4. core.tier >= AtMost(StreakOf(h, Len(h) + 1), LastTier)
      <4> DEFINE streak == StreakOf(h, Len(h) + 1)
      <4>1. streak \in Nat /\ streak <= Len(h) - 1
        BY <3>2, StreakIsBounded
      <4>2. LastTier \in Nat /\ rows[i].nc = Len(h) /\ rows[i].nc # 0
        BY <3>1, <3>2, EngineAssumption
      <4> HIDE DEF streak, h
      <4>3. core.tier = LastTier \/ core.tier = AtMost(Len(h) - 1, LastTier)
        BY <2>3, <4>2
      <4>4. core.tier >= AtMost(streak, LastTier)
        BY <3>2, <4>1, <4>2, <4>3 DEF AtMost
      <4> QED
        BY <4>4 DEF streak
    <3>5. Reflects(rows[i], h, core)
      BY <2>3, <3>1, <3>3, <3>4 DEF Reflects
    <3>6. \A j \in Id : Latest(pend, j)'.state \in LiveStates =>
                          Live(core) /\ core.id = j
      BY <1>9, <2>1, <2>3, <2>4 DEF KInv, TablesKept
    <3>7. Reflects(Latest(pend, i)', History(pend, i)', core)
      BY <1>6, <2>1, <2>5, <3>5
    <3>8. \A j \in Id : /\ Spaced(History(pend, j)')
                        /\ \A k \in 1..Len(History(pend, j)') :
                             History(pend, j)'[k].ts <= now'
      BY <1>2, <1>6, <2>7 DEF KInv, TablesKept
    <3> QED
      BY <1>4, <1>10, <2>2, <2>3, <3>6, <3>7, <3>8 DEF Mirrors
  <2> QED
    BY <1>2, <1>3, <1>5, <1>8, <2>6, <2>7 DEF KInv, Keeps
<1> QED
  BY <1>11, <1>12

LEMMA InitEstablishesKInv == Init => KInv
<1> SUFFICES ASSUME Init PROVE KInv
  OBVIOUS
<1>1. IInv
  BY InitEstablishesIInv
<1>2. \A i \in Id : rows[i].state = "none" /\ notes[i] = <<>>
  BY DEF Init, NoRow
<1>3. \A i \in Id : Spaced(notes[i]) /\ Len(notes[i]) = 0 /\ i \notin LiveRows(rows)
  BY <1>2, EmptySeq DEF Spaced, LiveRows, LiveStates
<1>4. TablesKept
  BY <1>2, <1>3 DEF TablesKept, LiveRows
<1> QED
  BY <1>1, <1>4, LifecycleAssumption DEF Init, KInv

LEMMA NextKeepsKInv == KInv /\ [Next]_vars => KInv'
<1> SUFFICES ASSUME KInv, [Next]_vars PROVE KInv'
  OBVIOUS
<1>1. IInv'
  BY NextKeepsIInv DEF KInv
<1>2. CASE UNCHANGED vars
  <2>1. /\ phase' = phase /\ rows' = rows /\ notes' = notes /\ locks' = locks
        /\ now' = now /\ Held' = Held
    BY <1>2 DEF vars, Held
  <2>2. now \in Nat /\ now <= now
    BY KInvTypes
  <2>3. TablesKept'
    BY <2>1, <2>2, TablesCarry
  <2>4. phase # "down" => Keeps(Held, now)'
    BY <2>1, KeepsCarries DEF KInv
  <2>5. phase = "idle" => NotBegun(Held)'
    BY <2>1 DEF KInv, NotBegun
  <2> QED
    BY <1>1, <2>1, <2>3, <2>4, <2>5 DEF KInv
<1>3. CASE (\E evals \in [Rung -> TriBool] : TickEvaluates(evals))
             \/ TickPasses \/ TickGone
  BY <1>1, <1>3, TicksKeepKInv
<1>4. CASE CommitSucceeds
  BY <1>1, <1>4, CommitSucceedsKeepsKInv
<1>5. CASE CommitLocked
  BY <1>1, <1>5, CommitLockedKeepsKInv
<1>6. CASE CommitRaises \/ Crash
  BY <1>1, <1>6, StoppingKeepsKInv
<1>7. CASE Restart
  BY <1>1, <1>7, RestartKeepsKInv
<1>8. CASE EditDefinition
  BY <1>1, <1>8, EditKeepsKInv
<1>9. CASE \E i \in Id : Ack(i)
  BY <1>1, <1>9, AckKeepsKInv
<1> HIDE DEF KInv
<1> QED
  BY <1>2, <1>3, <1>4, <1>5, <1>6, <1>7, <1>8, <1>9, Zenon DEF Next

LEMMA KInvAlways == Spec => []KInv
BY InitEstablishesKInv, NextKeepsKInv, PTL DEF Spec

-----------------------------------------------------------------------------
(* What the invariant gives. *)

LEMMA MirrorGivesRows ==
    ASSUME KInv, locks = 0 PROVE MemoryMirrorsRows
<1> SUFFICES ASSUME phase = "idle", pend = NoPending
             PROVE  /\ LiveRows(rows) = IF Live(mem.core) THEN {mem.core.id} ELSE {}
                    /\ Live(mem.core) =>
                         LET row == rows[mem.core.id]
                         IN /\ row.state \in {mem.core.state, "acked"}
                            /\ row.sev = mem.core.sev /\ row.owner = mem.core.owner
                            /\ row.nc = mem.core.nc
                            /\ RebuiltCore(mem.core.id).last = mem.core.last
  BY DEF MemoryMirrorsRows
<1>1. /\ Held.mem = mem /\ Held.pend = pend /\ TablesTyped
      /\ mem.core \in Core /\ Mirrors(Held, now) /\ KnowsIds(Held)
  BY KInvTypes DEF KInv, Keeps, GroupState
<1>2. ASSUME NEW i \in Id
      PROVE  Latest(pend, i) = rows[i] /\ History(pend, i) = notes[i]
             /\ notes[i] \in Seq(Note)
  <2>1. NoPending.rows[i].state = "none" /\ NoPending.notes[i] = <<>>
    BY NoPendingIsEmpty DEF NoRow
  <2>2. notes[i] \in Seq(Note)
    BY <1>1 DEF TablesTyped
  <2>3. notes[i] \o <<>> = notes[i]
    BY <2>2, ConcatEmptySeq
  <2> QED
    BY <2>1, <2>2, <2>3 DEF Latest, History
<1>3. \A i \in LiveRows(rows) : Live(mem.core) /\ mem.core.id = i
  BY <1>1, <1>2 DEF Mirrors, LiveRows
<1>4. CASE ~Live(mem.core)
  BY <1>3, <1>4
<1>5. CASE Live(mem.core)
  <2> DEFINE id == mem.core.id
  <2>1. id \in Id
    BY <1>1, <1>5 DEF KnowsIds
  <2>2. Reflects(rows[id], notes[id], mem.core)
    BY <1>1, <1>2, <1>5, <2>1 DEF Mirrors
  <2>3. rows[id].state \in LiveStates
    BY <1>5, <2>2 DEF Reflects, Live, LiveStates
  <2>4. LiveRows(rows) = {id}
    BY <1>3, <2>1, <2>3 DEF LiveRows
  <2>5. mem.core.last \in Nat
    BY <1>1 DEF Core
  <2>6. notes[id] # <<>> /\ EndsAt(notes[id], mem.core.last)
    BY <2>2 DEF Reflects, EndsAt
  <2>7. RebuiltCore(id).last = mem.core.last
    BY <1>2, <2>1, <2>5, <2>6, LatestOfHistory DEF RebuiltCore
  <2> QED
    BY <1>5, <2>2, <2>4, <2>7 DEF Reflects
<1> QED
  BY <1>4, <1>5

LEMMA MirrorGivesCommit == KInv => CommitNeverRaises
<1> SUFFICES ASSUME KInv, locks = 0, phase = "buffered", BreaksUniqueIndex
             PROVE  FALSE
  BY DEF CommitNeverRaises
<1>1. Held.mem = mem /\ Held.pend = pend /\ Mirrors(Held, now)
  BY KInvTypes DEF KInv, Keeps
<1>2. ASSUME NEW i \in LiveRows(Merged) PROVE mem.core.id = i
  <2>1. i \in Id /\ Merged[i].state \in LiveStates
    BY DEF LiveRows
  <2>2. Latest(pend, i).state \in LiveStates
    BY <2>1, MergedIsLatest
  <2> QED
    BY <1>1, <2>1, <2>2 DEF Mirrors
<1> QED
  BY <1>2 DEF BreaksUniqueIndex

LEMMA MirrorGivesSpacing ==
    ASSUME KInv, locks = 0 PROVE BackoffSpacing
BY DEF KInv, TablesKept, Spaced, StreakOf, BackoffSpacing, Streak

(* Only a commit and an ack write the tables.                              *)
LEMMA TablesWritten ==
    ASSUME Next
    PROVE  CommitSucceeds \/ (\E i \in Id : Ack(i))
           \/ (rows' = rows /\ notes' = notes)
BY DEF Next, TickEvaluates, TickPasses, TickGone, Buffer, CommitLocked,
       CommitRaises, Crash, Restart, EditDefinition

LEMMA AckLeavesHistory ==
    ASSUME KInv, NEW a \in Id, Ack(a), NEW i \in Id
    PROVE  /\ notes'[i] = notes[i] /\ rows'[i].sev = rows[i].sev
           /\ rows[i].state = "cleared" => rows'[i] = rows[i]
<1>1. rows \in [Id -> Row] /\ rows[a].state = "open"
      /\ rows' = [rows EXCEPT ![a].state = "acked"] /\ notes' = notes
  BY KInvTypes DEF TablesTyped, Ack
<1> QED
  BY <1>1 DEF Row

LEMMA ClearedStays ==
    ASSUME KInv, Next, NEW i \in Id, rows[i].state = "cleared"
    PROVE  rows'[i] = rows[i] /\ notes'[i] = notes[i]
<1>1. CASE CommitSucceeds
  <2>1. Held.pend = pend /\ KnowsIds(Held) /\ TablesTyped
    BY <1>1, KInvTypes DEF CommitSucceeds, KInv, Keeps
  <2>2. pend.rows[i].state = "none" /\ pend.notes[i] = <<>>
    BY <2>1 DEF KnowsIds
  <2>3. notes[i] \in Seq(Note)
    BY <2>1 DEF TablesTyped
  <2>4. notes[i] \o pend.notes[i] = notes[i]
    BY <2>2, <2>3, ConcatEmptySeq
  <2> QED
    BY <1>1, <2>2, <2>4 DEF CommitSucceeds, Merged
<1>2. CASE \E a \in Id : Ack(a)
  BY <1>2, AckLeavesHistory
<1>3. CASE rows' = rows /\ notes' = notes
  BY <1>3
<1> QED
  BY <1>1, <1>2, <1>3, TablesWritten

LEMMA RaiseIsNoted ==
    ASSUME KInv, locks = 0, Next, NEW i \in Id,
           rows'[i].state \in LiveStates, rows'[i].sev > rows[i].sev
    PROVE  Len(notes'[i]) > Len(notes[i])
<1>0. TablesTyped /\ rows[i].sev \in Int /\ ~(rows[i].sev > rows[i].sev)
  <2>1. TablesTyped /\ rows[i].sev \in 0..4
    BY KInvTypes DEF TablesTyped, Row
  <2> QED
    BY <2>1
<1>1. CASE CommitSucceeds
  <2>1. Held.pend = pend /\ KnowsIds(Held) /\ Mirrors(Held, now)
        /\ pend \in Pending
    BY <1>1, KInvTypes DEF CommitSucceeds, KInv, Keeps
  <2>2. /\ rows'[i].state = Latest(pend, i).state
        /\ rows'[i].sev = Latest(pend, i).sev
    BY <1>1, MergedIsLatest DEF CommitSucceeds
  <2>3. pend.rows[i].state # "none"
    BY <1>0, <2>2 DEF Latest
  <2>4. pend.notes[i] # <<>>
    BY <2>1, <2>2, <2>3 DEF Mirrors, Latest
  <2>5. notes[i] \in Seq(Note) /\ pend.notes[i] \in Seq(Note)
    BY <1>0, <2>1 DEF TablesTyped, Pending
  <2>6. Len(pend.notes[i]) \in Nat \ {0} /\ Len(notes[i]) \in Nat
    BY <2>4, <2>5, EmptySeq
  <2>7. notes'[i] = notes[i] \o pend.notes[i]
    BY <1>1 DEF CommitSucceeds
  <2>8. Len(notes'[i]) = Len(notes[i]) + Len(pend.notes[i])
    BY <2>5, <2>7, ConcatProperties
  <2> DEFINE stored == Len(notes[i])
             new == Len(pend.notes[i])
             total == Len(notes'[i])
  <2>9. stored \in Nat /\ new \in Nat \ {0} /\ total = stored + new
    BY <2>6, <2>8
  <2> HIDE DEF stored, new, total
  <2>10. total > stored
    BY <2>9
  <2> QED
    BY <2>10 DEF stored, total
<1>2. CASE \E a \in Id : Ack(a)
  BY <1>0, <1>2, AckLeavesHistory
<1>3. CASE rows' = rows /\ notes' = notes
  BY <1>0, <1>3
<1> QED
  BY <1>1, <1>2, <1>3, TablesWritten

(* IN-02 for every ladder and schedule: as long as no commit was dropped,  *)
(* the database between ticks says of the incident what memory says, so a  *)
(* restart at that moment loses nothing.                                   *)
THEOREM MemoryAlwaysMirrorsRows == Spec => [](locks = 0 => MemoryMirrorsRows)
<1>1. KInv => (locks = 0 => MemoryMirrorsRows)
  BY MirrorGivesRows
<1> QED
  BY <1>1, KInvAlways, PTL

(* PM-10: without a dropped commit no commit ever breaks the unique index  *)
(* of live rows, whatever ticks, acks, edits, crashes and restarts came    *)
(* before.                                                                 *)
THEOREM CommitsNeverRaise == Spec => []CommitNeverRaises
BY MirrorGivesCommit, KInvAlways, PTL

(* IN-02: across restarts too, the stored notifications keep the backoff   *)
(* schedule: no renotification comes earlier than its tier allows.         *)
THEOREM BackoffAlwaysSpaces == Spec => [](locks = 0 => BackoffSpacing)
<1>1. KInv => (locks = 0 => BackoffSpacing)
  BY MirrorGivesSpacing
<1> QED
  BY <1>1, KInvAlways, PTL

(* DM-11: nothing ever changes a cleared row or adds a notification to it, *)
(* dropped commits included: its id is never handed out again.             *)
THEOREM ClearedIsAlwaysFinal == Spec => ClearedIsFinal
<1> DEFINE Final == \A i \in Id : rows[i].state = "cleared" =>
                      rows'[i] = rows[i] /\ notes'[i] = notes[i]
<1>1. KInv /\ [Next]_vars => [Final]_vars
  BY ClearedStays
<1> HIDE DEF Final
<1>2. Spec => [][Final]_vars
  BY <1>1, KInvAlways, PTL DEF Spec
<1> QED
  BY <1>2 DEF ClearedIsFinal, Final

(* NO-04: as long as no commit was dropped, a commit that raises a row's   *)
(* severity stores a notification with it.                                 *)
THEOREM RaisesAreAlwaysAnnounced == Spec /\ [](locks = 0) => RaiseIsAnnounced
<1> DEFINE Announced == \A i \in Id : rows'[i].state \in LiveStates
                                      /\ rows'[i].sev > rows[i].sev
                                      => Len(notes'[i]) > Len(notes[i])
<1>1. KInv /\ locks = 0 /\ [Next]_vars => [Announced]_vars
  BY RaiseIsNoted
<1> HIDE DEF Announced
<1>2. Spec /\ [](locks = 0) => [][Announced]_vars
  BY <1>1, KInvAlways, PTL DEF Spec
<1> QED
  BY <1>2 DEF RaiseIsAnnounced, Announced
=============================================================================
