------------------------------ MODULE RateLimits ------------------------------
(***************************************************************************)
(* The sliding window of lib/api/rate-limit-tiers.ts for one identifier,   *)
(* whose endpoints share a key and have limits and windows of their own.   *)
(* A request takes a timestamp and sends two pipelines, the first cleaning *)
(* the window and counting it, the second adding the request; requests run *)
(* concurrently.  A pipeline whose commands fail has the errors in its     *)
(* result, which the code reads as a count of zero; without a client, or   *)
(* when a pipeline throws, the endpoint's fail mode decides.               *)
(***************************************************************************)
EXTENDS Naturals, FiniteSets, SortedSet

CONSTANTS
  Caller,          \* concurrent requests
  Endpoint,        \* endpoints called with the same tier
  EndpointLimit,   \* ENDPOINT_OVERRIDES
  EndpointWindow,  \* ENDPOINT_WINDOW_MS, in ticks
  FailsClosed,     \* ENDPOINT_FAIL_MODE
  Minute,          \* the default window, in ticks
  Delay,           \* bounds the model: ticks between a request's timestamp and its entry
  OpenCeiling,     \* FAIL_OPEN_CEILING_PER_KEY
  MaxUncounted     \* bounds the model: entries of requests whose count failed

\* An entry never outlives its key, which each request keeps for two windows.
ASSUME LimitAssumption ==
  /\ IsFiniteSet(Caller) /\ IsFiniteSet(Endpoint) /\ "uncounted" \notin Endpoint
  /\ EndpointLimit \in [Endpoint -> Nat \ {0}] /\ EndpointWindow \in [Endpoint -> Nat]
  /\ FailsClosed \subseteq Endpoint /\ OpenCeiling \in Nat \ {0}
  /\ Delay \in Nat /\ MaxUncounted \in Nat /\ Minute \in Nat \ {0}
  /\ \A e \in Endpoint : EndpointWindow[e] \in Minute .. 2 * Minute - 1

VARIABLES
  zset,       \* the key's entries: how many of each age, by the endpoint that counted them
  caller,     \* what each request does, for which endpoint, the age of its timestamp,
              \* and whether it was counted
  fallback    \* the in-process counter of requests let through without Redis

limitVars == <<zset, caller, fallback>>

Age == 0 .. 2 * Minute - 1
Entrant == Endpoint \cup {"uncounted"}

NotCalling == [pc |-> "away", endpoint |-> "none", age |-> 0, counted |-> FALSE]

LimitInit ==
  /\ zset = [e \in Entrant |-> [a \in Age |-> 0]]
  /\ caller = [c \in Caller |-> NotCalling]
  /\ fallback = 0

Held(kept) == Tally([p \in Entrant \X Age |-> kept[p[1]][p[2]]], Entrant \X Age)

Arrive(c, e) ==
  /\ caller[c] = NotCalling
  /\ caller' = [caller EXCEPT ![c] = [NotCalling EXCEPT !.pc = "check", !.endpoint = e]]
  /\ UNCHANGED <<zset, fallback>>

Respond(c) == caller' = [caller EXCEPT ![c] = NotCalling]

(* The window of the endpoint that asks is cleaned of what is too old for  *)
(* it, whoever's it was.                                                   *)
Cleaned(c) ==
  LET start == caller[c].age + EndpointWindow[caller[c].endpoint]
  IN [e \in Entrant |-> [a \in Age |-> IF a < start THEN zset[e][a] ELSE 0]]

\* Off by one.
AdmitsOneMore(c, count) == count <= EndpointLimit[caller[c].endpoint]

Admits(c, count) == count < EndpointLimit[caller[c].endpoint]

Check(c) ==
  /\ caller[c].pc = "check"
  /\ zset' = Cleaned(c)
  /\ IF Admits(c, Held(Cleaned(c))) THEN caller' = [caller EXCEPT ![c].pc = "add", ![c].counted = TRUE]
     ELSE Respond(c)
  /\ UNCHANGED fallback

CheckFails(c) ==
  /\ caller[c].pc = "check"
  /\ Tally(zset["uncounted"], Age) < MaxUncounted
  /\ caller' = [caller EXCEPT ![c].pc = "add"]
  /\ UNCHANGED <<zset, fallback>>

Record(c) ==
  /\ caller[c].pc = "add"
  /\ LET entrant == IF caller[c].counted THEN caller[c].endpoint ELSE "uncounted"
     IN zset' = [zset EXCEPT ![entrant][caller[c].age] = @ + 1]
  /\ Respond(c)
  /\ UNCHANGED fallback

RecordFails(c) ==
  /\ caller[c].pc = "add"
  /\ Respond(c)
  /\ UNCHANGED <<zset, fallback>>

(* handleRedisUnavailable: a closed endpoint denies, an open one lets      *)
(* OpenCeiling requests a minute pass in this process, whose minute may be *)
(* over.                                                                   *)
Unavailable(c) ==
  /\ caller[c].pc \in {"check", "add"}
  /\ fallback' \in
       IF caller[c].endpoint \in FailsClosed THEN {fallback}
       ELSE {1, IF fallback < OpenCeiling THEN fallback + 1 ELSE fallback}
  /\ Respond(c)
  /\ UNCHANGED zset

LimitTick ==
  /\ \A c \in Caller : caller[c].age < Delay
  /\ zset' = [e \in Entrant |-> [a \in Age |-> IF a = 0 THEN 0 ELSE zset[e][a - 1]]]
  /\ caller' = [c \in Caller |-> IF caller[c] = NotCalling THEN NotCalling ELSE [caller[c] EXCEPT !.age = @ + 1]]
  /\ UNCHANGED fallback

LimitNext ==
  \/ \E c \in Caller :
       \/ Check(c) \/ CheckFails(c) \/ Record(c) \/ RecordFails(c) \/ Unavailable(c)
       \/ \E e \in Endpoint : Arrive(c, e)
  \/ LimitTick

LimitSpec == LimitInit /\ [][LimitNext]_limitVars

-----------------------------------------------------------------------------
(* Properties *)

LimitTypeOK ==
  /\ zset \in [Entrant -> [Age -> Nat]]
  /\ caller \in [Caller -> {NotCalling} \cup [pc : {"check", "add"}, endpoint : Endpoint, age : 0..Delay, counted : BOOLEAN]]
  /\ fallback \in 0..OpenCeiling

(* The window is counted in one round trip and filled in another: requests *)
(* counted together all pass.  Of any minute's requests that Redis has     *)
(* counted and recorded, an endpoint lets through no more than its limit   *)
(* and one per other request in flight, whatever its own window and the    *)
(* cleaning by other endpoints' requests (rate-limit-tiers.ts:200-215).    *)
RateBounded ==
  \A e \in Endpoint :
    Tally(zset[e], 0 .. Minute - 1) < EndpointLimit[e] + Cardinality(Caller)
=============================================================================
