----------------------------- MODULE MCLoginFlow -----------------------------
(* Requests, passwords and places in the array are interchangeable. *)
EXTENDS LoginFlow, TLC

LoginSymmetry == Permutations(Request) \cup Permutations(Password) \cup Permutations(Code)
=============================================================================
