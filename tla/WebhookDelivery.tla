---------------------------- MODULE WebhookDelivery ----------------------------
(***************************************************************************)
(* Outgoing webhooks (workers/index.ts): jobs of one customer's endpoint,  *)
(* delivered by workers in several processes, with a circuit breaker that  *)
(* counts consecutive failures in the endpoint's row and an administrator  *)
(* who re-enables the endpoint and retries failed jobs.                    *)
(*                                                                         *)
(* Nothing in src/ queues a delivery yet; QueueHook is whatever will.      *)
(***************************************************************************)
EXTENDS Naturals

CONSTANTS
  Hook,             \* the deliveries
  Deliverer,        \* worker processes
  HookAttempts,     \* attempts of the webhooks queue
  HookRetries,      \* bounds the model: lost workers and an administrator's retries, per job
  BreakerThreshold  \* SECURITY.WEBHOOK_CIRCUIT_BREAKER_THRESHOLD

ASSUME HookAssumption ==
  HookAttempts \in Nat \ {0} /\ HookRetries \in Nat /\ BreakerThreshold \in Nat \ {0}

VARIABLES
  endpoint,   \* the row: whether it is enabled, and its count of consecutive failures
  hook,       \* the job of each delivery
  deliverer,  \* what each worker does, the count it read, and whether that was reset since
  earned,     \* failures counted since the last reset by attempts that began after it
  carried     \* whether one that began before it has been counted too

hookVars == <<endpoint, hook, deliverer, earned, carried>>

Resting == [pc |-> "free", hook |-> "none", seen |-> 0, stale |-> FALSE]

HookInit ==
  /\ endpoint = [enabled |-> TRUE, failures |-> 0]
  /\ hook = [h \in Hook |-> [state |-> "absent", tries |-> 0, again |-> 0]]
  /\ deliverer = [w \in Deliverer |-> Resting]
  /\ earned = 0 /\ carried = FALSE

QueueHook(h) ==
  /\ hook[h].state = "absent"
  /\ hook' = [hook EXCEPT ![h].state = "waiting"]
  /\ UNCHANGED <<endpoint, deliverer, earned, carried>>

TakeHook(w, h) ==
  /\ deliverer[w] = Resting /\ hook[h].state = "waiting"
  /\ hook' = [hook EXCEPT ![h].state = "active"]
  /\ deliverer' = [deliverer EXCEPT ![w] = [Resting EXCEPT !.pc = "read", !.hook = h]]
  /\ UNCHANGED <<endpoint, earned, carried>>

HookDone(w, new) ==
  /\ hook' = [hook EXCEPT ![deliverer[w].hook] = new]
  /\ deliverer' = [deliverer EXCEPT ![w] = Resting]

HookState(w) == hook[deliverer[w].hook]

Thrown(w) ==
  LET tries == HookState(w).tries + 1
  IN [HookState(w) EXCEPT !.tries = tries, !.state = IF tries < HookAttempts THEN "waiting" ELSE "failed"]

(* A delivery to a disabled endpoint is dropped without an error. *)
ReadEndpoint(w) ==
  /\ deliverer[w].pc = "read"
  /\ \/ /\ endpoint.enabled
        /\ deliverer' = [deliverer EXCEPT ![w].pc = "send", ![w].seen = endpoint.failures]
        /\ UNCHANGED hook
     \/ ~endpoint.enabled /\ HookDone(w, [HookState(w) EXCEPT !.state = "completed"])
     \/ HookDone(w, Thrown(w))
  /\ UNCHANGED <<endpoint, earned, carried>>

(* Private address, unreadable secret, timeout, refusal: a failure. *)
Send(w) ==
  /\ deliverer[w].pc = "send"
  /\ \E pc \in {"reset", "count"} : deliverer' = [deliverer EXCEPT ![w].pc = pc]
  /\ UNCHANGED <<endpoint, hook, earned, carried>>

(* Whoever has read the endpoint before a reset holds a stale count. *)
Stale(d) == [d EXCEPT !.stale = d.pc \in {"send", "reset", "count"}]

Reset ==
  /\ earned' = 0 /\ carried' = FALSE

\* A delivery that leaves the count as it is.
ResetNothing(w) ==
  /\ deliverer[w].pc = "reset"
  /\ Reset
  /\ hook' = [hook EXCEPT ![deliverer[w].hook].state = "completed"]
  /\ deliverer' = [v \in Deliverer |-> IF v = w THEN Resting ELSE Stale(deliverer[v])]
  /\ UNCHANGED endpoint

(* A delivered job whose reset fails is taken for a failed delivery. *)
ResetFailures(w) ==
  /\ deliverer[w].pc = "reset"
  /\ \/ /\ endpoint' = [endpoint EXCEPT !.failures = 0]
        /\ Reset
        /\ hook' = [hook EXCEPT ![deliverer[w].hook].state = "completed"]
        /\ deliverer' = [v \in Deliverer |-> IF v = w THEN Resting ELSE Stale(deliverer[v])]
     \/ /\ deliverer' = [deliverer EXCEPT ![w].pc = "count"]
        /\ UNCHANGED <<endpoint, hook, earned, carried>>

(* The count read before the request is written back plus one. *)
CountFailure(w) ==
  LET failures == deliverer[w].seen + 1
  IN
  /\ deliverer[w].pc = "count"
  /\ \/ /\ endpoint' = [enabled |-> endpoint.enabled /\ failures < BreakerThreshold, failures |-> failures]
        /\ earned' = IF deliverer[w].stale THEN earned ELSE earned + 1
        /\ carried' = (carried \/ deliverer[w].stale)
     \/ UNCHANGED <<endpoint, earned, carried>>
  /\ HookDone(w, Thrown(w))

DelivererLost(w) ==
  /\ deliverer[w] # Resting /\ HookState(w).again < HookRetries
  /\ HookDone(w, [HookState(w) EXCEPT !.state = "waiting", !.again = @ + 1])
  /\ UNCHANGED <<endpoint, earned, carried>>

(* The administrator *)
RetryHook(h) ==
  /\ hook[h].state = "failed" /\ hook[h].again < HookRetries
  /\ hook' = [hook EXCEPT ![h].state = "waiting", ![h].again = @ + 1, ![h].tries = HookAttempts - 1]
  /\ UNCHANGED <<endpoint, deliverer, earned, carried>>

Reenable ==
  /\ endpoint' = [enabled |-> TRUE, failures |-> 0]
  /\ Reset
  /\ deliverer' = [w \in Deliverer |-> Stale(deliverer[w])]
  /\ UNCHANGED hook

HookStep(w) == ReadEndpoint(w) \/ Send(w) \/ ResetFailures(w) \/ CountFailure(w) \/ DelivererLost(w)

HookNext ==
  \/ \E w \in Deliverer : HookStep(w) \/ \E h \in Hook : TakeHook(w, h)
  \/ \E h \in Hook : QueueHook(h) \/ RetryHook(h)
  \/ Reenable

HookSpec == HookInit /\ [][HookNext]_hookVars

-----------------------------------------------------------------------------
(* Properties *)

HookTypeOK ==
  /\ endpoint \in [enabled : BOOLEAN, failures : 0..BreakerThreshold]
  /\ hook \in [Hook -> [state : {"absent", "waiting", "active", "completed", "failed"},
                        tries : 0..HookAttempts, again : 0..HookRetries]]
  /\ deliverer \in [Deliverer -> {Resting} \cup
       [pc : {"read", "send", "reset", "count"}, hook : Hook, seen : 0..BreakerThreshold, stale : BOOLEAN]]
  /\ earned \in Nat /\ carried \in BOOLEAN

(* Workers write back a count read before a request of ten seconds: a      *)
(* healthy endpoint could be cut off by a count that was reset meanwhile.  *)
(* Only an attempt that began before the reset can do that; without one    *)
(* the breaker opens after BreakerThreshold failures since the last        *)
(* success or re-enabling, and never sooner (workers/index.ts:305).        *)
BreakerEarned ==
  [][endpoint.enabled /\ ~endpoint'.enabled => earned' >= BreakerThreshold \/ carried']_hookVars
=============================================================================
