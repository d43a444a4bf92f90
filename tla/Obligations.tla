----------------------------- MODULE Obligations -----------------------------
(***************************************************************************)
(* What the outbox promises (SPEC 9.2, NO-03, NO-04, NO-07): a delivery    *)
(* owed on a channel is settled only after its adapter returned success,   *)
(* or by giving up for good, or by folding it into a digest that is then   *)
(* owed on the same channel.  It may be received more than once.           *)
(***************************************************************************)
EXTENDS Integers

CONSTANTS Delivery,      \* what can be owed
          ChannelOf(_)   \* the channel of a delivery

VARIABLES duty,  \* "none", "owed", "done", "failed" or "folded"
          got    \* how often the adapter returned success

Settled == {"done", "failed", "folded"}

Init == /\ duty = [d \in Delivery |-> "none"]
        /\ got = [d \in Delivery |-> 0]

(* A notification is owed on every channel of its set. *)
Owe(S) ==
    /\ \A d \in S : duty[d] = "none"
    /\ duty' = [d \in Delivery |-> IF d \in S THEN "owed" ELSE duty[d]]
    /\ UNCHANGED got

Receive(d) ==
    /\ duty[d] = "owed"
    /\ got' = [got EXCEPT ![d] = @ + 1]
    /\ UNCHANGED duty

Done(d) ==
    /\ duty[d] = "owed" /\ got[d] > 0
    /\ duty' = [duty EXCEPT ![d] = "done"]
    /\ UNCHANGED got

GiveUp(d) ==
    /\ duty[d] = "owed"
    /\ duty' = [duty EXCEPT ![d] = "failed"]
    /\ UNCHANGED got

(* The deliveries S are replaced by T, which covers their channels.        *)
Fold(S, T) ==
    /\ \A d \in S : duty[d] = "owed"
    /\ \A d \in T : duty[d] = "none"
    /\ \A d \in S : \E e \in T : ChannelOf(e) = ChannelOf(d)
    /\ duty' = [d \in Delivery |->
                  IF d \in T THEN "owed"
                  ELSE IF d \in S THEN (IF got[d] > 0 THEN "done" ELSE "folded")
                  ELSE duty[d]]
    /\ UNCHANGED got

Next ==
    \/ \E S \in SUBSET Delivery : Owe(S)
    \/ \E d \in Delivery : Receive(d) \/ Done(d) \/ GiveUp(d)
    \/ \E S, T \in SUBSET Delivery : Fold(S, T)

Spec == Init /\ [][Next]_<<duty, got>>
=============================================================================
