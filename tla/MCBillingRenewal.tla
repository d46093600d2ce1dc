--------------------------- MODULE MCBillingRenewal --------------------------
(* Billing with one history variable: when the account was last marked as  *)
(* paid.                                                                   *)
EXTENDS Billing

VARIABLE paidAt

MarksPaid == \E h \in Handler : handler[h].pc = "apply" /\ handler'[h].pc = "enqueue"

RenewalInit == Init /\ paidAt = None

RenewalNext == Next /\ paidAt' = IF MarksPaid THEN now ELSE paidAt

RenewalSpec == RenewalInit /\ [][RenewalNext]_<<vars, paidAt>>

(* What the comment of handleRenewal says of a payment for an existing     *)
(* subscription: it extends the local subscription record.                 *)
PaymentExtends ==
  (paidAt # None /\ job.state = "completed" /\ \A h \in Handler : handler[h].pc = "free")
    => \E i \in DOMAIN subs : subs[i].end >= paidAt + Month
=============================================================================
