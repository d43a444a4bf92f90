------------------------------- MODULE MCOutbox -------------------------------
(* Instances of Outbox for TLC: two retry delays, the last one repeating.  *)
EXTENDS Outbox

TwoDelays == <<1, 2>>
=============================================================================
