--------------------------- MODULE IncidentEngine ---------------------------
(***************************************************************************)
(* The pure incident state machine of src/ftmon/engine/incidents.py: the   *)
(* ladder of one (monitor, entity, group).  No variables: every operator   *)
(* maps a state, evaluations and a time to a new state and its effect,     *)
(* exactly as step_group and the two clear_* functions do.                 *)
(*                                                                         *)
(* Message text, titles and durations are left out.  flap_clears, a tuple  *)
(* of clear times, is a set of times: a group clears at most once per tick *)
(* and every tick has its own wall time.                                   *)
(***************************************************************************)
EXTENDS Integers, FiniteSets

CONSTANTS
    NRungs,          \* rungs of the ladder, in definition order after the sort
    Severity,        \* Severity[r], descending as _index_groups sorts them
    ConfirmCycles,   \* TRUE evaluations in a row that confirm rung r
    ClearCycles,     \* FALSE evaluations in a row that clear rung r
    NotifyRecovery,  \* whether rung r announces a recovery
    LastTier,        \* len(BACKOFF_S) - 1
    Backoff,         \* Backoff[t]: the renotify wait of tier t
    FlapWindow,      \* FLAP_WINDOW_S
    FlapCount,       \* FLAP_COUNT
    FlapKeep         \* how many clear times a core keeps

ASSUME EngineAssumption ==
    /\ NRungs \in Nat \ {0}
    /\ Severity \in [1..NRungs -> 1..4]
    /\ \A r, s \in 1..NRungs : r < s => Severity[r] >= Severity[s]
    /\ ConfirmCycles \in [1..NRungs -> Nat \ {0}]
    /\ ClearCycles \in [1..NRungs -> Nat \ {0}]
    /\ NotifyRecovery \in [1..NRungs -> BOOLEAN]
    /\ LastTier \in Nat
    /\ Backoff \in [0..LastTier -> Nat]
    /\ \A s, t \in 0..LastTier : s <= t => Backoff[s] <= Backoff[t]
    /\ FlapWindow \in Nat
    /\ FlapCount \in Nat \ {0}
    /\ FlapKeep \in Nat

Rung == 1..NRungs
TriBool == {"true", "false", "unknown"}

RungState == [confirmed : BOOLEAN, confirm : Nat, clear : Nat]
FreshRung == [confirmed |-> FALSE, confirm |-> 0, clear |-> 0]
FreshRungs == [r \in Rung |-> FreshRung]

(* IncidentCore; state "none" stands for core = None, and id 0 for an      *)
(* incident_id the executor has still to assign.                           *)
Core == [id : Nat, state : {"none", "open", "acked", "cleared"},
         sev : 0..4, owner : 0..NRungs, opened : Nat, last : Nat, nc : Nat,
         tier : 0..LastTier, flaps : SUBSET Nat]
NoCore == [id |-> 0, state |-> "none", sev |-> 0, owner |-> 0, opened |-> 0,
           last |-> 0, nc |-> 0, tier |-> 0, flaps |-> {}]

GroupState == [rungs : [Rung -> RungState], core : Core]
EmptyState == [rungs |-> FreshRungs, core |-> NoCore]

LiveStates == {"open", "acked"}
(* Mutant: an acked incident counts as over. *)
LiveOnlyOpen(core) == core.state = "open"
Live(core) == core.state \in LiveStates

RecordKind == {"none", "open", "escalate", "downgrade", "clear"}
NoteKind == {"none", "open", "escalate", "renotify", "recover"}
Effect == [record : RecordKind, note : NoteKind]
NoEffect == [record |-> "none", note |-> "none"]

Step == [rungs : [Rung -> RungState], core : Core, effect : Effect]

AtMost(n, cap) == IF n < cap THEN n ELSE cap

-----------------------------------------------------------------------------
(* Mutant: the clear count starts over at every FALSE. *)
StepRungClearRestarts(r, rs, result) ==
    CASE result = "true" ->
           LET confirm == AtMost(rs.confirm + 1, ConfirmCycles[r])
           IN [confirmed |-> rs.confirmed \/ confirm >= ConfirmCycles[r],
               confirm |-> confirm, clear |-> 0]
      [] result = "false" ->
           [confirmed |-> rs.confirmed /\ 1 < ClearCycles[r], confirm |-> 0,
            clear |-> IF rs.confirmed THEN 1 ELSE 0]
      [] OTHER -> rs

(* IN-01: TRUE confirms, FALSE clears, UNKNOWN freezes both counters.      *)
StepRung(r, rs, result) ==
    CASE result = "true" ->
           LET confirm == AtMost(rs.confirm + 1, ConfirmCycles[r])
           IN [confirmed |-> rs.confirmed \/ confirm >= ConfirmCycles[r],
               confirm |-> confirm, clear |-> 0]
      [] result = "false" ->
           LET clear == IF rs.confirmed
                        THEN AtMost(rs.clear + 1, ClearCycles[r]) ELSE 0
           IN [confirmed |-> rs.confirmed /\ clear < ClearCycles[r],
               confirm |-> 0, clear |-> clear]
      [] OTHER -> rs

StepRungs(rungs, evals) == [r \in Rung |-> StepRung(r, rungs[r], evals[r])]

Confirmed(rungs) == {r \in Rung : rungs[r].confirmed}

(* The first confirmed rung, hence one of the highest severity.            *)
Owning(rungs) ==
    CHOOSE r \in Confirmed(rungs) : \A s \in Confirmed(rungs) : r <= s

(* The highest severity of a confirmed rung.                               *)
Top(rungs, sev) ==
    /\ \E r \in Confirmed(rungs) : Severity[r] = sev
    /\ \A r \in Confirmed(rungs) : Severity[r] <= sev

(* What ties the counters of a ladder to its incident (IN-03).             *)
Coherent(st) ==
    /\ Live(st.core) <=> Confirmed(st.rungs) # {}
    /\ Live(st.core) => /\ st.core.owner \in Rung
                        /\ st.core.sev = Severity[st.core.owner]
                        /\ Top(st.rungs, st.core.sev)

RecentClears(flaps, now) == {t \in flaps : now - t <= FlapWindow}
Flapping(flaps) == Cardinality(flaps) >= FlapCount
LatestClears(flaps) ==
    {t \in flaps : Cardinality({u \in flaps : u > t}) < FlapKeep}

(* Mutant: a reopened incident keeps the id of the cleared one. *)
OpenCoreReusesId(prior, owner, now) ==
    LET flaps == RecentClears(prior.flaps, now)
    IN [id |-> prior.id, state |-> "open", sev |-> Severity[owner],
        owner |-> owner, opened |-> now, last |-> now, nc |-> 1,
        tier |-> IF Flapping(flaps) THEN LastTier ELSE 0, flaps |-> flaps]

OpenCore(prior, owner, now) ==
    LET flaps == RecentClears(prior.flaps, now)
    IN [id |-> 0, state |-> "open", sev |-> Severity[owner], owner |-> owner,
        opened |-> now, last |-> now, nc |-> 1,
        tier |-> IF Flapping(flaps) THEN LastTier ELSE 0, flaps |-> flaps]

Escalated(core, owner, now) ==
    [core EXCEPT !.state = "open", !.sev = Severity[owner], !.owner = owner,
                 !.last = now, !.nc = @ + 1, !.tier = 0]

Downgraded(core, owner) ==
    [core EXCEPT !.sev = Severity[owner], !.owner = owner]

Renotified(core, now) ==
    [core EXCEPT !.last = now, !.nc = @ + 1, !.tier = AtMost(@ + 1, LastTier)]

RenotifyDue(core, owner, evals, now) ==
    /\ core.state = "open"
    /\ evals[owner] = "true"
    /\ now - core.last >= Backoff[AtMost(core.tier, LastTier)]

(* Mutant: an escalation is as silent as a downgrade. *)
UpdateOpenSilently(core, rungs, evals, now) ==
    LET owner == Owning(rungs)
        result(c, record, note) ==
            [rungs |-> rungs, core |-> c,
             effect |-> [record |-> record, note |-> note]]
    IN CASE Severity[owner] # core.sev ->
              result(Downgraded(core, owner), "downgrade", "none")
         [] Severity[owner] = core.sev /\ RenotifyDue(core, owner, evals, now) ->
              result(Renotified(core, now), "none", "renotify")
         [] OTHER -> result(core, "none", "none")

UpdateOpen(core, rungs, evals, now) ==
    LET owner == Owning(rungs)
        result(c, record, note) ==
            [rungs |-> rungs, core |-> c,
             effect |-> [record |-> record, note |-> note]]
    IN CASE Severity[owner] > core.sev ->
              result(Escalated(core, owner, now), "escalate", "escalate")
         [] Severity[owner] < core.sev ->
              result(Downgraded(core, owner), "downgrade", "none")
         [] Severity[owner] = core.sev /\ RenotifyDue(core, owner, evals, now) ->
              result(Renotified(core, now), "none", "renotify")
         [] OTHER -> result(core, "none", "none")

(* _clear: announced once, unless rules changed or the owner opts out.     *)
ClearCore(core, now, reason) ==
    [core |-> [core EXCEPT !.state = "cleared",
                           !.flaps = LatestClears(@ \cup {now})],
     effect |-> [record |-> "clear",
                 note |-> IF reason # "superseded"
                             /\ (core.owner \in Rung => NotifyRecovery[core.owner])
                          THEN "recover" ELSE "none"]]

StepGroup(st, evals, now) ==
    LET rungs == StepRungs(st.rungs, evals)
        core == st.core
        cleared == ClearCore(core, now, "recovered")
        opened == OpenCore(core, Owning(rungs), now)
    IN CASE ~Live(core) /\ Confirmed(rungs) = {} ->
              [rungs |-> rungs, core |-> core, effect |-> NoEffect]
         [] ~Live(core) /\ Confirmed(rungs) # {} ->
              [rungs |-> rungs, core |-> opened,
               effect |-> [record |-> "open", note |-> "open"]]
         [] Live(core) /\ Confirmed(rungs) = {} ->
              [rungs |-> rungs, core |-> cleared.core, effect |-> cleared.effect]
         [] OTHER -> UpdateOpen(core, rungs, evals, now)

(* clear_for_entity_gone and clear_superseded: counters start afresh.      *)
ClearOutright(st, now, reason) ==
    IF Live(st.core)
    THEN LET cleared == ClearCore(st.core, now, reason)
         IN [rungs |-> FreshRungs, core |-> cleared.core,
             effect |-> cleared.effect]
    ELSE [rungs |-> st.rungs, core |-> st.core, effect |-> NoEffect]
=============================================================================
