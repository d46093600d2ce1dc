------------------------------ MODULE SortedSet ------------------------------
(***************************************************************************)
(* A Redis sorted set whose members differ in nothing but their scores:    *)
(* how many members each score has, and how many members a set of scores   *)
(* has together (ZCARD).                                                   *)
(***************************************************************************)
EXTENDS Naturals, FiniteSets

Entries(count, scores) == UNION {{t} \X (1..count[t]) : t \in scores}

Tally(count, scores) == Cardinality(Entries(count, scores))
=============================================================================
