------------------------------- MODULE MCGate -------------------------------
(* Two requests of one account, and a cache that lives two ticks. *)
EXTENDS SubscriptionGate
=============================================================================
