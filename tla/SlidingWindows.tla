---------------------------- MODULE SlidingWindows ----------------------------
(* The two sliding windows kept in sorted sets of Redis: the tiers of the  *)
(* API (rate-limit-tiers.ts) and the lead forms (leads.routes.ts).         *)
EXTENDS RateLimits, LeadCapture

(* Both sliding windows that are read in one round trip and added to in    *)
(* the next, the one of the tiers and the one of the lead forms, admit no  *)
(* more than their limit and what the requests under way add to it.        *)
WindowsBounded == RateBounded /\ LeadsBounded
=============================================================================
