------------------------------ MODULE MCBilling ------------------------------
(* Handlers are interchangeable where no fairness distinguishes them. *)
EXTENDS Billing, TLC

HandlerSymmetry == Permutations(Handler)
=============================================================================
