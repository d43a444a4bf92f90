---------------------------- MODULE MCEventRules ----------------------------
(* Small instances of EventRules. *)
EXTENDS EventRules
=============================================================================
