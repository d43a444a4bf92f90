------------------------ MODULE MCIncidentLifecycle ------------------------
(* Small instances of IncidentLifecycle for TLC.                           *)
EXTENDS IncidentLifecycle, TLC

(* A warning rung over a notice rung; the upper one needs two cycles.      *)
TwoRungs == <<2, 1>>
TwoOne == <<2, 1>>
OneTwo == <<1, 2>>
BothAnnounce == <<TRUE, TRUE>>
OneRung == <<2>>
Double == <<2>>
Announces == <<TRUE>>
Tiers == (0 :> 1) @@ (1 :> 2) @@ (2 :> 3)
=============================================================================
