--------------------------- MODULE MCSessionStore ---------------------------
(* Values for the constants of SessionStore that a cfg cannot write.  One  *)
(* unit of time is 30 seconds; requests are interchangeable.               *)
EXTENDS SessionStore, TLC

RequestSymmetry == Permutations(Request)

(* Every owed write may fail but the touch of lastActiveAt. *)
AllButTouch == Effect \ {"touch"}

=============================================================================
