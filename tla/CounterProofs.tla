---------------------------- MODULE CounterProofs ----------------------------
(***************************************************************************)
(* The components that count and limit: the sliding windows of the tiers   *)
(* and of the public forms, the meter of the active users and the circuit  *)
(* breaker of the outgoing webhooks.                                       *)
(***************************************************************************)
EXTENDS WebhookDelivery, UsageMeter, SlidingWindows, FiniteSetTheorems, TLAPS

-----------------------------------------------------------------------------
(* Sorted sets *)

(* A pair is an entry when its score is one of the scores and its number   *)
(* is within the count.                                                    *)
LEMMA EntryDef ==
  ASSUME NEW count, NEW scores, NEW t, NEW i
  PROVE  <<t, i>> \in Entries(count, scores) <=> t \in scores /\ i \in 1..count[t]
BY DEF Entries

LEMMA EntriesArePairs ==
  ASSUME NEW count, NEW scores, NEW m \in Entries(count, scores)
  PROVE  /\ m = <<m[1], m[2]>> /\ m[1] \in scores /\ m[2] \in 1..count[m[1]]
         /\ m[2] \in Nat
BY DEF Entries

(* Finitely many scores have finitely many entries. *)
LEMMA EntriesFinite ==
  ASSUME NEW count, NEW scores, IsFiniteSet(scores), \A t \in scores : count[t] \in Nat
  PROVE  IsFiniteSet(Entries(count, scores)) /\ Tally(count, scores) \in Nat
<1> DEFINE rows == {{t} \X (1..count[t]) : t \in scores}
           f == [t \in scores |-> {t} \X (1..count[t])]
<1>1. f \in Surjection(scores, rows) BY DEF Surjection
<1>2. IsFiniteSet(rows) BY <1>1, FS_Surjection
<1>3. ASSUME NEW row \in rows PROVE IsFiniteSet(row)
  <2>1. PICK t \in scores : row = {t} \X (1..count[t]) OBVIOUS
  <2>2. IsFiniteSet({t}) BY FS_Singleton
  <2>3. IsFiniteSet(1..count[t]) BY FS_Interval
  <2> QED BY <2>1, <2>2, <2>3, FS_Product
<1>4. IsFiniteSet(UNION rows) BY <1>2, <1>3, FS_UNION
<1> QED BY <1>4, FS_CardinalityType DEF Entries, Tally

(* Scores that can be told apart among other scores, each with no more     *)
(* members than the one it goes to, have no more members together.         *)
LEMMA TallyInto ==
  ASSUME NEW fewer, NEW scores, NEW more, NEW range, IsFiniteSet(range),
         \A t \in range : more[t] \in Nat,
         NEW f \in Injection(scores, range),
         \A t \in scores : fewer[t] \in Nat /\ fewer[t] <= more[f[t]]
  PROVE  Tally(fewer, scores) <= Tally(more, range)
<1> DEFINE g == [m \in Entries(fewer, scores) |-> <<f[m[1]], m[2]>>]
<1>0. f \in [scores -> range] /\ \A a, b \in scores : f[a] = f[b] => a = b BY DEF Injection, IsInjective
<1>1. ASSUME NEW m \in Entries(fewer, scores) PROVE g[m] \in Entries(more, range)
  <2>1. m[1] \in scores /\ m[2] \in 1..fewer[m[1]] BY EntriesArePairs
  <2>2. f[m[1]] \in range /\ more[f[m[1]]] \in Nat /\ fewer[m[1]] <= more[f[m[1]]] /\ fewer[m[1]] \in Nat BY <1>0, <2>1
  <2>3. m[2] \in 1..more[f[m[1]]] BY <2>1, <2>2
  <2> QED BY <2>2, <2>3, EntryDef
<1>2. ASSUME NEW m \in Entries(fewer, scores), NEW n \in Entries(fewer, scores), g[m] = g[n] PROVE m = n
  BY <1>0, <1>2, EntriesArePairs
<1>3. g \in Injection(Entries(fewer, scores), Entries(more, range)) BY <1>1, <1>2 DEF Injection, IsInjective
<1>4. IsFiniteSet(Entries(more, range)) BY EntriesFinite
<1> QED BY <1>3, <1>4, FS_Injection DEF Tally

(* More scores and more members of each make a larger tally. *)
LEMMA TallyMonotone ==
  ASSUME NEW fewer, NEW scores, NEW more, NEW range, IsFiniteSet(range), scores \subseteq range,
         \A t \in range : more[t] \in Nat,
         \A t \in scores : fewer[t] \in Nat /\ fewer[t] <= more[t]
  PROVE  Tally(fewer, scores) <= Tally(more, range)
<1> DEFINE f == [t \in scores |-> t]
<1>1. f \in Injection(scores, range) BY DEF Injection, IsInjective
<1> QED BY <1>1, TallyInto

(* Counts that agree on the scores have the same tally. *)
LEMMA TallySame ==
  ASSUME NEW count, NEW other, NEW scores, \A t \in scores : count[t] = other[t]
  PROVE  Tally(count, scores) = Tally(other, scores)
BY DEF Tally, Entries

(* A member more is one more among the scores that include its own. *)
LEMMA TallyOneMore ==
  ASSUME NEW count, NEW new, NEW t, NEW scores, IsFiniteSet(scores),
         \A s \in scores : count[s] \in Nat /\ new[s] = IF s = t THEN count[s] + 1 ELSE count[s]
  PROVE  Tally(new, scores) = Tally(count, scores) + (IF t \in scores THEN 1 ELSE 0)
<1>0. Tally(count, scores) \in Nat BY EntriesFinite
<1>1. CASE t \notin scores
  <2>1. \A s \in scores : new[s] = count[s] BY <1>1
  <2>2. Tally(new, scores) = Tally(count, scores) BY <2>1, TallySame
  <2> QED BY <1>0, <1>1, <2>2
<1>2. CASE t \in scores
  <2> DEFINE m == <<t, count[t] + 1>>
  <2>1. IsFiniteSet(Entries(count, scores)) BY EntriesFinite
  <2>2. m \notin Entries(count, scores) BY EntryDef
  <2>3. Entries(new, scores) = Entries(count, scores) \cup {m}
    <3>1. ASSUME NEW n \in Entries(new, scores) PROVE n \in Entries(count, scores) \cup {m}
      <4>1. n = <<n[1], n[2]>> /\ n[1] \in scores /\ n[2] \in 1..new[n[1]] BY EntriesArePairs
      <4>2. CASE n[1] # t
        <5>1. n[2] \in 1..count[n[1]] BY <4>1, <4>2
        <5> QED BY <4>1, <5>1, EntryDef
      <4>3. CASE n[1] = t /\ n[2] # count[t] + 1
        <5>1. n[2] \in 1..count[t] BY <4>1, <4>3
        <5> QED BY <4>1, <4>3, <5>1, EntryDef
      <4>4. CASE n[1] = t /\ n[2] = count[t] + 1 BY <4>1, <4>4
      <4> QED BY <4>2, <4>3, <4>4
    <3>2. ASSUME NEW n \in Entries(count, scores) PROVE n \in Entries(new, scores)
      <4>1. n = <<n[1], n[2]>> /\ n[1] \in scores /\ n[2] \in 1..count[n[1]] BY EntriesArePairs
      <4>2. n[2] \in 1..new[n[1]] BY <4>1
      <4> QED BY <4>1, <4>2, EntryDef
    <3>3. m \in Entries(new, scores)
      <4>1. count[t] + 1 \in 1..new[t] BY <1>2
      <4> QED BY <1>2, <4>1, EntryDef
    <3> QED BY <3>1, <3>2, <3>3
  <2>4. Cardinality(Entries(new, scores)) = Cardinality(Entries(count, scores)) + 1
    BY <2>1, <2>2, <2>3, FS_AddElement
  <2> QED BY <1>2, <2>4 DEF Tally
<1> QED BY <1>1, <1>2

(* An empty sorted set *)
LEMMA TallyNone ==
  ASSUME NEW count, NEW scores, \A t \in scores : count[t] = 0
  PROVE  Tally(count, scores) = 0
<1>1. Entries(count, scores) = {}
  <2> SUFFICES ASSUME NEW m \in Entries(count, scores) PROVE FALSE OBVIOUS
  <2>1. m[1] \in scores /\ m[2] \in 1..count[m[1]] BY EntriesArePairs
  <2> QED BY <2>1
<1> QED BY <1>1, FS_EmptySet DEF Tally
-----------------------------------------------------------------------------
(* Outgoing webhooks *)

HookJob == [state : {"absent", "waiting", "active", "completed", "failed"},
            tries : 0..HookAttempts, again : 0..HookRetries]
Attempt == [pc : {"read", "send", "reset", "count"}, hook : Hook, seen : 0..BreakerThreshold, stale : BOOLEAN]

(* A worker's job is active and no other worker's, and a job that may be   *)
(* tried again has an attempt left.                                        *)
JobsHeld ==
  /\ hook \in [Hook -> HookJob]
  /\ deliverer \in [Deliverer -> {Resting} \cup Attempt]
  /\ \A w \in Deliverer : deliverer[w] # Resting => hook[deliverer[w].hook].state = "active"
  /\ \A v, w \in Deliverer :
       v # w /\ deliverer[v] # Resting /\ deliverer[w] # Resting => deliverer[v].hook # deliverer[w].hook
  /\ \A h \in Hook : hook[h].state \notin {"completed", "failed"} => hook[h].tries < HookAttempts

(* An endpoint that is enabled has not reached the threshold, nor has any  *)
(* count that a worker has read from one; unless a stale count came in,    *)
(* what is counted has been earned since the last reset.                   *)
Earned(d) == d.pc \in {"send", "reset", "count"} /\ ~d.stale => d.seen <= earned
CountsEarned ==
  /\ endpoint \in [enabled : BOOLEAN, failures : 0..BreakerThreshold]
  /\ earned \in Nat /\ carried \in BOOLEAN
  /\ endpoint.enabled => endpoint.failures < BreakerThreshold
  /\ \A w \in Deliverer : deliverer[w].seen < BreakerThreshold
  /\ ~carried => endpoint.failures <= earned /\ \A w \in Deliverer : Earned(deliverer[w])

HookInv == JobsHeld /\ CountsEarned

LEMMA RestingIsNoAttempt == Resting \notin Attempt /\ Resting.seen = 0 /\ Resting.pc = "free" BY DEF Resting, Attempt

(* A worker that gives its job back: the others keep theirs. *)
LEMMA HookDoneJobs ==
  ASSUME HookInv, NEW w \in Deliverer, deliverer[w] # Resting, NEW new \in HookJob, new.state # "active",
         new.state \in {"absent", "waiting"} => new.tries < HookAttempts, HookDone(w, new)
  PROVE  JobsHeld' /\ \A v \in Deliverer : deliverer'[v] = IF v = w THEN Resting ELSE deliverer[v]
<1>0. deliverer[w] \in Attempt /\ deliverer[w].hook \in Hook BY DEF HookInv, JobsHeld, Attempt
<1>1. hook' = [hook EXCEPT ![deliverer[w].hook] = new] /\ deliverer' = [deliverer EXCEPT ![w] = Resting] BY DEF HookDone
<1>2. hook' \in [Hook -> HookJob] /\ deliverer' \in [Deliverer -> {Resting} \cup Attempt] BY <1>0, <1>1 DEF HookInv, JobsHeld
<1>3. \A v \in Deliverer : deliverer'[v] = IF v = w THEN Resting ELSE deliverer[v] BY <1>1 DEF HookInv, JobsHeld
<1>4. \A h \in Hook : hook'[h] = IF h = deliverer[w].hook THEN new ELSE hook[h] BY <1>0, <1>1 DEF HookInv, JobsHeld
<1>5. ASSUME NEW v \in Deliverer, deliverer'[v] # Resting PROVE hook'[deliverer'[v].hook].state = "active"
  <2>1. v # w /\ deliverer'[v] = deliverer[v] BY <1>3, <1>5
  <2>2. deliverer[v] \in Attempt /\ deliverer[v].hook \in Hook BY <1>5, <2>1 DEF HookInv, JobsHeld, Attempt
  <2>3. deliverer[v].hook # deliverer[w].hook BY <1>5, <2>1 DEF HookInv, JobsHeld
  <2> QED BY <1>4, <1>5, <2>1, <2>2, <2>3 DEF HookInv, JobsHeld
<1>6. \A u, v \in Deliverer :
       u # v /\ deliverer'[u] # Resting /\ deliverer'[v] # Resting => deliverer'[u].hook # deliverer'[v].hook
  BY <1>3 DEF HookInv, JobsHeld
<1>7. \A h \in Hook : hook'[h].state \notin {"completed", "failed"} => hook'[h].tries < HookAttempts
  BY <1>4 DEF HookInv, JobsHeld, HookJob
<1> QED BY <1>2, <1>3, <1>5, <1>6, <1>7 DEF JobsHeld

(* A worker that goes on with its job *)
LEMMA AttemptGoesOn ==
  ASSUME HookInv, NEW w \in Deliverer, deliverer[w] # Resting, NEW new \in Attempt, new.hook = deliverer[w].hook,
         deliverer' = [deliverer EXCEPT ![w] = new], UNCHANGED hook
  PROVE  JobsHeld' /\ \A v \in Deliverer : deliverer'[v] = IF v = w THEN new ELSE deliverer[v]
<1>1. \A v \in Deliverer : deliverer'[v] = IF v = w THEN new ELSE deliverer[v] BY DEF HookInv, JobsHeld
<1>2. deliverer' \in [Deliverer -> {Resting} \cup Attempt] BY DEF HookInv, JobsHeld
<1>3. \A v \in Deliverer : deliverer'[v] # Resting => deliverer[v] # Resting /\ deliverer'[v].hook = deliverer[v].hook
  BY <1>1
<1> QED BY <1>1, <1>2, <1>3 DEF HookInv, JobsHeld

(* A reset marks the attempts it overtakes and leaves them their jobs. *)
LEMMA StaleAttempts ==
  ASSUME NEW d \in {Resting} \cup Attempt
  PROVE  /\ Stale(d) \in {Resting} \cup Attempt /\ Stale(d).hook = d.hook /\ Stale(d).seen = d.seen
         /\ Stale(d) = Resting <=> d = Resting
         /\ Stale(d).pc = d.pc /\ (d.pc \in {"send", "reset", "count"} => Stale(d).stale)
<1>1. CASE d = Resting
  <2>1. (d.pc \in {"send", "reset", "count"}) = FALSE BY <1>1 DEF Resting
  <2>2. Stale(d) = [d EXCEPT !.stale = FALSE] BY <2>1 DEF Stale
  <2>3. Stale(d) = Resting BY <1>1, <2>2 DEF Resting
  <2> QED BY <1>1, <2>1, <2>3
<1>2. CASE d \in Attempt
  <2>0. (d.pc \in {"send", "reset", "count"}) = TRUE \/ (d.pc \in {"send", "reset", "count"}) = FALSE OBVIOUS
  <2>1. PICK b \in BOOLEAN : b = (d.pc \in {"send", "reset", "count"}) BY <2>0
  <2>2. Stale(d) = [d EXCEPT !.stale = b] BY <2>1 DEF Stale
  <2>3. Stale(d) \in Attempt BY <1>2, <2>2 DEF Attempt
  <2>4. Stale(d).hook = d.hook /\ Stale(d).seen = d.seen /\ Stale(d).pc = d.pc /\ Stale(d).stale = b
    BY <1>2, <2>2 DEF Attempt
  <2> QED BY <1>2, <2>1, <2>3, <2>4, RestingIsNoAttempt
<1> QED BY <1>1, <1>2

(* After a reset nothing is counted and every attempt under way is stale. *)
LEMMA ResetEarns ==
  ASSUME HookInv, Reset, endpoint'.failures = 0, endpoint'.enabled \in BOOLEAN,
         endpoint' \in [enabled : BOOLEAN, failures : 0..BreakerThreshold],
         \A v \in Deliverer : deliverer'[v] = Resting \/ deliverer'[v] = Stale(deliverer[v])
  PROVE  CountsEarned'
<1>1. earned' = 0 /\ carried' = FALSE BY DEF Reset
<1>2. ASSUME NEW v \in Deliverer PROVE deliverer'[v].seen < BreakerThreshold /\ Earned(deliverer[v])'
  <2>1. deliverer[v] \in {Resting} \cup Attempt /\ deliverer[v].seen < BreakerThreshold BY DEF HookInv, JobsHeld, CountsEarned
  <2>2. CASE deliverer'[v] = Resting BY <2>2, RestingIsNoAttempt, HookAssumption DEF Earned
  <2>3. CASE deliverer'[v] = Stale(deliverer[v]) BY <2>1, <2>3, StaleAttempts DEF Earned
  <2> QED BY <2>2, <2>3
<1>3. endpoint'.enabled => endpoint'.failures < BreakerThreshold BY HookAssumption
<1>4. carried' = FALSE /\ earned' \in Nat /\ endpoint'.failures <= earned' BY <1>1
<1> QED BY <1>2, <1>3, <1>4 DEF CountsEarned, Earned

LEMMA HookInitHolds == HookInit => HookInv
<1> SUFFICES ASSUME HookInit PROVE HookInv OBVIOUS
<1>1. JobsHeld BY HookAssumption DEF HookInit, JobsHeld, HookJob
<1>2. endpoint \in [enabled : BOOLEAN, failures : 0..BreakerThreshold] /\ endpoint.failures = 0
  BY HookAssumption DEF HookInit
<1>3. \A w \in Deliverer : deliverer[w] = Resting BY DEF HookInit
<1>4. earned = 0 /\ carried = FALSE BY DEF HookInit
<1>a. \A w \in Deliverer : deliverer[w].seen = 0 BY <1>3, RestingIsNoAttempt
<1>d. 0 < BreakerThreshold BY HookAssumption
<1>b. 0 < BreakerThreshold /\ earned \in Nat /\ carried \in BOOLEAN BY <1>4, <1>d
<1>c. endpoint.failures <= earned /\ \A w \in Deliverer : deliverer[w].seen < BreakerThreshold /\ deliverer[w].seen <= earned
  BY <1>2, <1>4, <1>a, <1>b
<1>5. CountsEarned BY <1>2, <1>b, <1>c DEF CountsEarned, Earned
<1> QED BY <1>1, <1>5 DEF HookInv
LEMMA HookStepHolds == HookInv /\ [HookNext]_hookVars => HookInv'
<1> SUFFICES ASSUME HookInv, [HookNext]_hookVars PROVE HookInv' OBVIOUS
<1> USE HookAssumption, RestingIsNoAttempt
<1>0. ASSUME NEW w \in Deliverer, deliverer[w] # Resting
      PROVE  /\ deliverer[w] \in Attempt /\ deliverer[w].hook \in Hook /\ HookState(w) \in HookJob
             /\ HookState(w).state = "active" /\ HookState(w).tries < HookAttempts
  <2>1. deliverer[w] \in Attempt /\ deliverer[w].hook \in Hook BY <1>0 DEF HookInv, JobsHeld, Attempt
  <2> QED BY <1>0, <2>1 DEF HookInv, JobsHeld, HookState
<1>a. ASSUME NEW w \in Deliverer, deliverer[w] # Resting
      PROVE  Thrown(w) \in HookJob /\ Thrown(w).state # "active"
             /\ (Thrown(w).state \in {"absent", "waiting"} => Thrown(w).tries < HookAttempts)
  <2> DEFINE tries == HookState(w).tries + 1
             state == IF tries < HookAttempts THEN "waiting" ELSE "failed"
  <2>1. tries \in 0..HookAttempts /\ state \in {"waiting", "failed"} BY <1>0, <1>a DEF HookJob
  <2>2. Thrown(w) = [HookState(w) EXCEPT !.tries = tries, !.state = state] BY DEF Thrown
  <2>3. Thrown(w).tries = tries /\ Thrown(w).state = state BY <1>0, <1>a, <2>2 DEF HookJob
  <2>4. Thrown(w) \in HookJob BY <1>0, <1>a, <2>1, <2>2 DEF HookJob
  <2> QED BY <2>1, <2>3, <2>4
<1>b. ASSUME NEW w \in Deliverer, deliverer[w] # Resting, NEW state \in {"waiting", "completed"}
      PROVE  [HookState(w) EXCEPT !.state = state] \in HookJob /\ [HookState(w) EXCEPT !.state = state].state = state
             /\ [HookState(w) EXCEPT !.state = state].tries < HookAttempts
  BY <1>0, <1>b DEF HookJob
<1>c. ASSUME NEW w \in Deliverer,
             \A v \in Deliverer : deliverer'[v] = IF v = w THEN Resting ELSE deliverer[v],
             UNCHANGED <<endpoint, earned, carried>>
      PROVE  CountsEarned'
  BY <1>c DEF HookInv, CountsEarned, Earned
<1>1. ASSUME NEW w \in Deliverer, ReadEndpoint(w) PROVE HookInv'
  <2>0. deliverer[w].pc = "read" /\ deliverer[w] # Resting /\ UNCHANGED <<endpoint, earned, carried>> BY <1>1 DEF ReadEndpoint
  <2>1. CASE endpoint.enabled /\ UNCHANGED hook
               /\ deliverer' = [deliverer EXCEPT ![w].pc = "send", ![w].seen = endpoint.failures]
    <3> DEFINE new == [deliverer[w] EXCEPT !.pc = "send", !.seen = endpoint.failures]
    <3>1. new \in Attempt /\ new.hook = deliverer[w].hook /\ new.seen = endpoint.failures /\ endpoint.failures < BreakerThreshold
      BY <1>0, <2>0, <2>1 DEF Attempt, HookInv, CountsEarned
    <3>2. deliverer' = [deliverer EXCEPT ![w] = new] BY <2>1
    <3> HIDE DEF new
    <3>3. JobsHeld' /\ \A v \in Deliverer : deliverer'[v] = IF v = w THEN new ELSE deliverer[v]
      BY <2>0, <2>1, <3>1, <3>2, AttemptGoesOn
    <3>4. CountsEarned' BY <2>0, <3>1, <3>3 DEF HookInv, CountsEarned, Earned
    <3> QED BY <3>3, <3>4 DEF HookInv
  <2>2. CASE ~endpoint.enabled /\ HookDone(w, [HookState(w) EXCEPT !.state = "completed"])
    <3>1. JobsHeld' /\ \A v \in Deliverer : deliverer'[v] = IF v = w THEN Resting ELSE deliverer[v]
      BY <1>b, <2>0, <2>2, HookDoneJobs
    <3> QED BY <1>c, <2>0, <3>1 DEF HookInv
  <2>3. CASE HookDone(w, Thrown(w))
    <3>1. JobsHeld' /\ \A v \in Deliverer : deliverer'[v] = IF v = w THEN Resting ELSE deliverer[v]
      BY <1>a, <2>0, <2>3, HookDoneJobs
    <3> QED BY <1>c, <2>0, <3>1 DEF HookInv
  <2> QED BY <1>1, <2>1, <2>2, <2>3 DEF ReadEndpoint
<1>d. ASSUME NEW w \in Deliverer, deliverer[w].pc \in {"send", "reset"}, NEW pc \in {"reset", "count"},
             deliverer' = [deliverer EXCEPT ![w].pc = pc], UNCHANGED <<endpoint, hook, earned, carried>>
      PROVE  HookInv'
  <2> DEFINE new == [deliverer[w] EXCEPT !.pc = pc]
  <2>0. deliverer[w] # Resting BY <1>d
  <2>1. new \in Attempt /\ new.hook = deliverer[w].hook /\ new.seen = deliverer[w].seen /\ new.stale = deliverer[w].stale
    BY <1>0, <2>0 DEF Attempt
  <2>2. deliverer' = [deliverer EXCEPT ![w] = new] BY <1>d
  <2> HIDE DEF new
  <2>3. JobsHeld' /\ \A v \in Deliverer : deliverer'[v] = IF v = w THEN new ELSE deliverer[v]
    BY <1>d, <2>0, <2>1, <2>2, AttemptGoesOn
  <2>4. CountsEarned' BY <1>d, <2>1, <2>3 DEF HookInv, CountsEarned, Earned
  <2> QED BY <2>3, <2>4 DEF HookInv
<1>2. ASSUME NEW w \in Deliverer, Send(w) PROVE HookInv'
  BY <1>2, <1>d DEF Send
<1>3. ASSUME NEW w \in Deliverer, ResetFailures(w) PROVE HookInv'
  <2>0. deliverer[w].pc = "reset" /\ deliverer[w] # Resting BY <1>3 DEF ResetFailures
  <2>1. CASE /\ endpoint' = [endpoint EXCEPT !.failures = 0]
             /\ Reset
             /\ hook' = [hook EXCEPT ![deliverer[w].hook].state = "completed"]
             /\ deliverer' = [v \in Deliverer |-> IF v = w THEN Resting ELSE Stale(deliverer[v])]
    <3>1. \A v \in Deliverer : deliverer[v] \in {Resting} \cup Attempt BY DEF HookInv, JobsHeld
    <3>2. deliverer' \in [Deliverer -> {Resting} \cup Attempt] BY <2>1, <3>1, StaleAttempts
    <3>3. \A v \in Deliverer : deliverer'[v] = IF v = w THEN Resting ELSE Stale(deliverer[v]) BY <2>1
    <3>4. \A v \in Deliverer : deliverer'[v] # Resting => v # w /\ deliverer[v] # Resting /\ deliverer'[v].hook = deliverer[v].hook
      BY <3>1, <3>3, StaleAttempts
    <3>5. hook' = [hook EXCEPT ![deliverer[w].hook] = [HookState(w) EXCEPT !.state = "completed"]] BY <2>1 DEF HookState
    <3>6. hook' \in [Hook -> HookJob] /\ \A h \in Hook : h # deliverer[w].hook => hook'[h] = hook[h]
      BY <1>b, <2>0, <3>5 DEF HookInv, JobsHeld
    <3>7. hook'[deliverer[w].hook].state = "completed" BY <1>b, <1>0, <2>0, <3>5 DEF HookInv, JobsHeld
    <3>8. ASSUME NEW v \in Deliverer, deliverer'[v] # Resting PROVE hook'[deliverer'[v].hook].state = "active"
      <4>1. v # w /\ deliverer[v] # Resting /\ deliverer'[v].hook = deliverer[v].hook BY <3>4, <3>8
      <4>2. deliverer[v].hook \in Hook /\ deliverer[v].hook # deliverer[w].hook BY <1>0, <2>0, <4>1 DEF HookInv, JobsHeld
      <4> QED BY <3>6, <4>1, <4>2 DEF HookInv, JobsHeld
    <3>9. JobsHeld' BY <3>2, <3>4, <3>6, <3>7, <3>8 DEF HookInv, JobsHeld
    <3>10. endpoint' \in [enabled : BOOLEAN, failures : 0..BreakerThreshold] /\ endpoint'.failures = 0
      BY <2>1 DEF HookInv, CountsEarned
    <3>11. CountsEarned' BY <2>1, <3>3, <3>10, ResetEarns
    <3> QED BY <3>9, <3>11 DEF HookInv
  <2>2. CASE deliverer' = [deliverer EXCEPT ![w].pc = "count"] /\ UNCHANGED <<endpoint, hook, earned, carried>>
    BY <1>d, <2>0, <2>2
  <2> QED BY <1>3, <2>1, <2>2 DEF ResetFailures
<1>4. ASSUME NEW w \in Deliverer, CountFailure(w) PROVE HookInv'
  <2>0. deliverer[w].pc = "count" /\ deliverer[w] # Resting /\ HookDone(w, Thrown(w)) BY <1>4 DEF CountFailure
  <2>1. JobsHeld' /\ \A v \in Deliverer : deliverer'[v] = IF v = w THEN Resting ELSE deliverer[v]
    BY <1>a, <2>0, HookDoneJobs
  <2> DEFINE failures == deliverer[w].seen + 1
  <2>2. CASE UNCHANGED <<endpoint, earned, carried>> BY <1>c, <2>1, <2>2 DEF HookInv
  <2>3. CASE /\ endpoint' = [enabled |-> endpoint.enabled /\ failures < BreakerThreshold, failures |-> failures]
             /\ earned' = IF deliverer[w].stale THEN earned ELSE earned + 1
             /\ carried' = (carried \/ deliverer[w].stale)
    <3>0. failures \in 0..BreakerThreshold /\ earned \in Nat /\ carried \in BOOLEAN /\ deliverer[w].stale \in BOOLEAN
      BY <1>0, <2>0 DEF HookInv, CountsEarned, Attempt
    <3>1. PICK b \in BOOLEAN : b = (endpoint.enabled /\ failures < BreakerThreshold) OBVIOUS
    <3>2. endpoint' = [enabled |-> b, failures |-> failures] /\ (b => failures < BreakerThreshold) BY <2>3, <3>1
    <3>3. earned' \in Nat /\ earned <= earned' /\ carried' \in BOOLEAN BY <2>3, <3>0
    <3>4. ASSUME ~carried' PROVE failures <= earned' /\ ~carried
      <4>1. ~carried /\ ~deliverer[w].stale BY <2>3, <3>4, <3>0
      <4>2. deliverer[w].seen <= earned BY <2>0, <4>1 DEF HookInv, CountsEarned, Earned
      <4>3. earned' = earned + 1 BY <2>3, <4>1
      <4>4. deliverer[w].seen \in Nat BY <1>0, <2>0 DEF Attempt
      <4> QED BY <3>0, <4>1, <4>2, <4>3, <4>4
    <3>5. \A v \in Deliverer : deliverer'[v].seen < BreakerThreshold BY <2>1 DEF HookInv, CountsEarned
    <3>6. ASSUME ~carried', NEW v \in Deliverer PROVE Earned(deliverer[v])'
      <4>1. Earned(deliverer[v]) BY <3>4, <3>6 DEF HookInv, CountsEarned
      <4>2. CASE v = w BY <2>1, <4>2 DEF Earned
      <4>3. CASE v # w
        <5>1. deliverer'[v] = deliverer[v] BY <2>1, <4>3
        <5>2. deliverer[v].seen \in Nat BY <5>1, <2>1 DEF HookInv, JobsHeld, Attempt
        <5> QED BY <3>0, <3>3, <4>1, <5>1, <5>2 DEF Earned
      <4> QED BY <4>2, <4>3
    <3>7. CountsEarned' BY <3>0, <3>2, <3>3, <3>4, <3>5, <3>6 DEF CountsEarned
    <3> QED BY <2>1, <3>7 DEF HookInv
  <2> QED BY <1>4, <2>2, <2>3 DEF CountFailure
<1>5. ASSUME NEW w \in Deliverer, DelivererLost(w) PROVE HookInv'
  <2>0. deliverer[w] # Resting /\ HookState(w).again < HookRetries /\ UNCHANGED <<endpoint, earned, carried>>
        /\ HookDone(w, [HookState(w) EXCEPT !.state = "waiting", !.again = @ + 1]) BY <1>5 DEF DelivererLost
  <2> DEFINE new == [HookState(w) EXCEPT !.state = "waiting", !.again = @ + 1]
  <2>a. PICK job \in HookJob : job = HookState(w) BY <1>0, <2>0
  <2>b. new = [job EXCEPT !.state = "waiting", !.again = @ + 1] BY <2>a
  <2>c. job.again < HookRetries /\ job.tries < HookAttempts BY <1>0, <2>0, <2>a
  <2>d. job.again + 1 \in 0..HookRetries BY <2>a, <2>c DEF HookJob
  <2>1. new \in HookJob /\ new.state = "waiting" /\ new.tries < HookAttempts BY <2>a, <2>b, <2>c, <2>d DEF HookJob
  <2>2. JobsHeld' /\ \A v \in Deliverer : deliverer'[v] = IF v = w THEN Resting ELSE deliverer[v]
    BY <2>0, <2>1, HookDoneJobs
  <2> QED BY <1>c, <2>0, <2>2 DEF HookInv
<1>6. ASSUME NEW w \in Deliverer, NEW h \in Hook, TakeHook(w, h) PROVE HookInv'
  <2> DEFINE new == [Resting EXCEPT !.pc = "read", !.hook = h]
             job == [hook[h] EXCEPT !.state = "active"]
  <2>0. deliverer[w] = Resting /\ hook[h].state = "waiting" /\ UNCHANGED <<endpoint, earned, carried>>
        /\ deliverer' = [deliverer EXCEPT ![w] = new] /\ hook' = [hook EXCEPT ![h] = job] BY <1>6 DEF TakeHook
  <2>1. new \in [pc : {"read"}, hook : {h}, seen : {0}, stale : {FALSE}] BY DEF Resting
  <2>b. 0 \in 0..BreakerThreshold BY HookAssumption
  <2>2. new \in Attempt /\ new.hook = h /\ new.seen = 0 /\ new.pc = "read" BY <2>1, <2>b DEF Attempt
  <2>3. job \in HookJob /\ job.state = "active" /\ job.tries = hook[h].tries BY DEF HookInv, JobsHeld, HookJob
  <2> HIDE DEF new, job
  <2>4. \A v \in Deliverer : deliverer'[v] = IF v = w THEN new ELSE deliverer[v] BY <2>0 DEF HookInv, JobsHeld
  <2>5. \A g \in Hook : hook'[g] = IF g = h THEN job ELSE hook[g] BY <2>0 DEF HookInv, JobsHeld
  <2>6. deliverer' \in [Deliverer -> {Resting} \cup Attempt] /\ hook' \in [Hook -> HookJob]
    BY <2>0, <2>2, <2>3 DEF HookInv, JobsHeld
  <2>7. ASSUME NEW v \in Deliverer, deliverer[v] # Resting PROVE deliverer[v].hook # h /\ deliverer[v].hook \in Hook
    BY <1>0, <2>0, <2>7 DEF HookInv, JobsHeld
  <2>8. ASSUME NEW v \in Deliverer, deliverer'[v] # Resting PROVE hook'[deliverer'[v].hook].state = "active"
    <3>1. CASE v = w BY <2>2, <2>3, <2>4, <2>5, <3>1
    <3>2. CASE v # w
      <4>1. deliverer'[v] = deliverer[v] BY <2>4, <3>2
      <4>2. hook[deliverer[v].hook].state = "active" BY <2>8, <4>1 DEF HookInv, JobsHeld
      <4> QED BY <2>5, <2>7, <2>8, <4>1, <4>2
    <3> QED BY <3>1, <3>2
  <2>9. \A u, v \in Deliverer :
         u # v /\ deliverer'[u] # Resting /\ deliverer'[v] # Resting => deliverer'[u].hook # deliverer'[v].hook
    BY <2>2, <2>4, <2>7 DEF HookInv, JobsHeld
  <2>10. \A g \in Hook : hook'[g].state \notin {"completed", "failed"} => hook'[g].tries < HookAttempts
    BY <2>0, <2>3, <2>5 DEF HookInv, JobsHeld
  <2>11. JobsHeld' BY <2>6, <2>8, <2>9, <2>10 DEF JobsHeld
  <2>12. CountsEarned' BY <2>0, <2>2, <2>4 DEF HookInv, CountsEarned, Earned
  <2> QED BY <2>11, <2>12 DEF HookInv
<1>e. ASSUME NEW h \in Hook, NEW job \in HookJob, hook[h].state \in {"absent", "failed"}, job.state = "waiting",
             job.tries < HookAttempts, hook' = [hook EXCEPT ![h] = job], UNCHANGED <<endpoint, deliverer, earned, carried>>
      PROVE  HookInv'
  <2>1. hook' \in [Hook -> HookJob] /\ \A g \in Hook : hook'[g] = IF g = h THEN job ELSE hook[g]
    BY <1>e DEF HookInv, JobsHeld
  <2>2. \A w \in Deliverer : deliverer[w] # Resting => deliverer[w].hook # h /\ deliverer[w].hook \in Hook
    BY <1>0, <1>e DEF HookInv, JobsHeld
  <2>3. JobsHeld' BY <1>e, <2>1, <2>2 DEF HookInv, JobsHeld
  <2>4. CountsEarned' BY <1>e DEF HookInv, CountsEarned, Earned
  <2> QED BY <2>3, <2>4 DEF HookInv
<1>7. ASSUME NEW h \in Hook, QueueHook(h) PROVE HookInv'
  <2> DEFINE job == [hook[h] EXCEPT !.state = "waiting"]
  <2>1. hook[h] \in HookJob /\ hook[h].state = "absent" /\ hook[h].tries < HookAttempts BY <1>7 DEF QueueHook, HookInv, JobsHeld
  <2>2. job \in HookJob /\ job.state = "waiting" /\ job.tries < HookAttempts BY <2>1 DEF HookJob
  <2> QED BY <1>7, <1>e, <2>1, <2>2 DEF QueueHook
<1>8. ASSUME NEW h \in Hook, RetryHook(h) PROVE HookInv'
  <2> DEFINE job == [hook[h] EXCEPT !.state = "waiting", !.again = @ + 1, !.tries = HookAttempts - 1]
  <2>1. hook[h] \in HookJob /\ hook[h].state = "failed" /\ hook[h].again < HookRetries BY <1>8 DEF RetryHook, HookInv, JobsHeld
  <2>a. PICK old \in HookJob : old = hook[h] BY <2>1
  <2>b. old.again + 1 \in 0..HookRetries /\ HookAttempts - 1 \in 0..HookAttempts /\ HookAttempts - 1 < HookAttempts
    BY <2>1, <2>a DEF HookJob
  <2>c. job = [old EXCEPT !.state = "waiting", !.again = @ + 1, !.tries = HookAttempts - 1] BY <2>a
  <2>2. job \in HookJob /\ job.state = "waiting" /\ job.tries < HookAttempts BY <2>a, <2>b, <2>c DEF HookJob
  <2>3. hook' = [hook EXCEPT ![h] = job] /\ UNCHANGED <<endpoint, deliverer, earned, carried>> BY <1>8 DEF RetryHook
  <2> QED BY <1>e, <2>1, <2>2, <2>3
<1>9. ASSUME Reenable PROVE HookInv'
  <2>1. deliverer' = [w \in Deliverer |-> Stale(deliverer[w])] /\ UNCHANGED hook /\ Reset
        /\ endpoint' = [enabled |-> TRUE, failures |-> 0] BY <1>9 DEF Reenable
  <2>2. \A v \in Deliverer : deliverer[v] \in {Resting} \cup Attempt BY DEF HookInv, JobsHeld
  <2>3. deliverer' \in [Deliverer -> {Resting} \cup Attempt] BY <2>1, <2>2, StaleAttempts
  <2>4. \A v \in Deliverer : deliverer'[v] = Stale(deliverer[v]) BY <2>1
  <2>5. \A v \in Deliverer : deliverer'[v] # Resting => deliverer[v] # Resting /\ deliverer'[v].hook = deliverer[v].hook
    BY <2>2, <2>4, StaleAttempts
  <2>6. JobsHeld' BY <2>1, <2>3, <2>5 DEF HookInv, JobsHeld
  <2>7. CountsEarned' BY <2>1, <2>4, ResetEarns
  <2> QED BY <2>6, <2>7 DEF HookInv
<1>10. CASE UNCHANGED hookVars BY <1>10 DEF hookVars, HookInv, JobsHeld, CountsEarned, Earned
<1> QED BY <1>1, <1>2, <1>3, <1>4, <1>5, <1>6, <1>7, <1>8, <1>9, <1>10 DEF HookNext, HookStep

(* Jobs, workers and the counter are well-formed and counts are earned in  *)
(* every reachable state (workers/index.ts).                               *)
THEOREM HookInvariance == HookSpec => []HookInv
<1>1. HookInit => HookInv BY HookInitHolds
<1>2. HookInv /\ [HookNext]_hookVars => HookInv' BY HookStepHolds
<1> QED BY <1>1, <1>2, PTL DEF HookSpec

(* A step that disables the endpoint has counted to the threshold. *)
LEMMA DisabledWhenEarned ==
  ASSUME HookInv, [HookNext]_hookVars, endpoint.enabled, ~endpoint'.enabled
  PROVE  earned' >= BreakerThreshold \/ carried'
<1>1. PICK w \in Deliverer : CountFailure(w) /\ endpoint' # endpoint
  <2>1. endpoint' # endpoint OBVIOUS
  <2>2. ASSUME NEW w \in Deliverer, ResetFailures(w) PROVE FALSE
    BY <2>1, <2>2 DEF ResetFailures, HookInv, CountsEarned
  <2>3. ~Reenable BY DEF Reenable
  <2> QED BY <2>1, <2>2, <2>3 DEF HookNext, HookStep, hookVars, ReadEndpoint, Send, DelivererLost, TakeHook, QueueHook, RetryHook
<1> DEFINE failures == deliverer[w].seen + 1
<1>2. /\ deliverer[w].pc = "count"
      /\ endpoint' = [enabled |-> endpoint.enabled /\ failures < BreakerThreshold, failures |-> failures]
      /\ earned' = IF deliverer[w].stale THEN earned ELSE earned + 1
      /\ carried' = (carried \/ deliverer[w].stale)
  BY <1>1 DEF CountFailure
<1>3. ~(failures < BreakerThreshold) BY <1>2
<1>4. deliverer[w] \in Attempt BY <1>2, RestingIsNoAttempt DEF HookInv, JobsHeld
<1>5. deliverer[w].seen \in Nat /\ deliverer[w].stale \in BOOLEAN /\ earned \in Nat /\ carried \in BOOLEAN
  BY <1>4 DEF Attempt, HookInv, CountsEarned
<1>6. CASE carried \/ deliverer[w].stale BY <1>2, <1>6
<1>7. CASE ~carried /\ ~deliverer[w].stale
  <2>1. deliverer[w].seen <= earned BY <1>2, <1>7 DEF HookInv, CountsEarned, Earned
  <2> QED BY <1>2, <1>3, <1>5, <1>7, <2>1, HookAssumption
<1> QED BY <1>6, <1>7

(* The breaker opens only after BreakerThreshold failures since the last   *)
(* success or re-enabling, or when an attempt that began before it was     *)
(* counted (workers/index.ts:305), for any workers, jobs and threshold.    *)
THEOREM BreakerIsEarned == HookSpec => BreakerEarned
<1>1. HookInv /\ [HookNext]_hookVars =>
        [endpoint.enabled /\ ~endpoint'.enabled => earned' >= BreakerThreshold \/ carried']_hookVars
  BY DisabledWhenEarned
<1> QED BY <1>1, HookInvariance, PTL DEF HookSpec, BreakerEarned
-----------------------------------------------------------------------------
(* The meter of the active users *)

(* A reader that has begun has found days that hold every user recorded    *)
(* before, and one that has counted has counted a set between those users  *)
(* and the ones recorded by now; the shared key holds nobody else.         *)
ReadingOK(d) ==
  /\ d.pc = "scan" => d.count = 0
  /\ d.pc \in {"scan", "unite"} => \A u \in d.before : \E k \in d.keys \cap Day : u \in seenOn[k]
  /\ d.pc \in {"delete", "done"} =>
       \E counted \in SUBSET ActiveUser :
         d.before \subseteq counted /\ counted \subseteq United(Day) /\ d.count = Cardinality(counted)

MeterInv ==
  /\ MeterTypeOK
  /\ seenOn["tmp"] \subseteq United(Day)
  /\ \A r \in Reader : ReadingOK(reader[r])

Reading == [pc : {"away", "scan", "unite", "delete", "done"}, keys : SUBSET MeterKey,
            before : SUBSET ActiveUser, count : 0..Cardinality(ActiveUser)]

LEMMA UserCount ==
  ASSUME NEW users \in SUBSET ActiveUser
  PROVE  IsFiniteSet(users) /\ Cardinality(users) \in 0..Cardinality(ActiveUser)
<1>1. IsFiniteSet(users) /\ Cardinality(users) <= Cardinality(ActiveUser) BY FS_Subset, MeterAssumption
<1>2. Cardinality(users) \in Nat /\ Cardinality(ActiveUser) \in Nat BY <1>1, FS_CardinalityType, MeterAssumption
<1> QED BY <1>1, <1>2

(* Days only gain users, and what a reader has found stays found. *)
LEMMA ReadingStays ==
  ASSUME NEW d \in Reading, ReadingOK(d), \A k \in Day : seenOn[k] \subseteq seenOn'[k]
  PROVE  ReadingOK(d)'
<1>1. United(Day) \subseteq United(Day)' BY DEF United
<1> QED BY <1>1 DEF ReadingOK

(* The reader's own step, while the days stay as they are *)
LEMMA ReaderSteps ==
  ASSUME MeterInv, NEW r \in Reader, NEW new \in Reading, reader' = [reader EXCEPT ![r] = new],
         ReadingOK(new)', NEW tmp \in SUBSET ActiveUser, tmp \subseteq United(Day),
         seenOn' = [seenOn EXCEPT !["tmp"] = tmp]
  PROVE  MeterInv'
<1>1. MeterTypeOK' /\ seenOn'["tmp"] = tmp BY DEF MeterInv, MeterTypeOK, MeterKey, Reading
<1>2. \A k \in Day : seenOn'[k] = seenOn[k] BY MeterAssumption DEF MeterInv, MeterTypeOK, MeterKey
<1>3. United(Day)' = United(Day) BY <1>2 DEF United
<1>4. ASSUME NEW q \in Reader PROVE ReadingOK(reader[q])'
  <2>1. CASE q = r
    <3>1. reader'[q] = new BY <2>1 DEF MeterInv, MeterTypeOK
    <3> QED BY <3>1 DEF ReadingOK
  <2>2. CASE q # r
    <3>1. reader'[q] = reader[q] /\ reader[q] \in Reading /\ ReadingOK(reader[q])
      BY <2>2 DEF MeterInv, MeterTypeOK, Reading
    <3>2. ReadingOK(reader[q])
      BY <3>1
    <3> DEFINE d == reader[q]
    <3>3. PICK was \in Reading : was = reader[q] BY <3>1
    <3>4. ReadingOK(was) BY <3>2, <3>3
    <3>5. ReadingOK(was)' BY <1>2, <3>4, ReadingStays
    <3>6. reader'[q] = was BY <3>1, <3>3
    <3> QED BY <3>5, <3>6 DEF ReadingOK
  <2> QED BY <2>1, <2>2
<1> QED BY <1>1, <1>3, <1>4 DEF MeterInv

LEMMA MeterInitHolds == MeterInit => MeterInv
<1> SUFFICES ASSUME MeterInit PROVE MeterInv OBVIOUS
<1>1. Cardinality(ActiveUser) \in Nat BY FS_CardinalityType, MeterAssumption
<1>2. NotReading \in Reading /\ NotReading.pc = "away" BY <1>1 DEF NotReading, Reading
<1>3. seenOn \in [MeterKey -> SUBSET ActiveUser] /\ seenOn["tmp"] = {} BY DEF MeterInit, MeterKey
<1> QED BY <1>2, <1>3 DEF MeterInit, MeterInv, MeterTypeOK, Reading, ReadingOK

LEMMA MeterStepHolds == MeterInv /\ [MeterNext]_meterVars => MeterInv'
<1> SUFFICES ASSUME MeterInv, [MeterNext]_meterVars PROVE MeterInv' OBVIOUS
<1>0. ASSUME NEW r \in Reader PROVE reader[r] \in Reading /\ ReadingOK(reader[r])
  BY DEF MeterInv, MeterTypeOK, Reading
<1>a. /\ seenOn \in [MeterKey -> SUBSET ActiveUser] /\ seenOn["tmp"] \in SUBSET ActiveUser
      /\ seenOn["tmp"] \subseteq United(Day) /\ United(Day) \in SUBSET ActiveUser
      /\ seenOn = [seenOn EXCEPT !["tmp"] = seenOn["tmp"]]
  BY DEF MeterInv, MeterTypeOK, MeterKey, United
<1>b. Cardinality(ActiveUser) \in Nat BY FS_CardinalityType, MeterAssumption
<1>c. ASSUME NEW r \in Reader, NEW new \in Reading, reader' = [reader EXCEPT ![r] = new],
             ReadingOK(new), UNCHANGED seenOn
      PROVE  MeterInv'
  <2>1. ReadingOK(new)' BY <1>c DEF ReadingOK, United
  <2>2. PICK tmp \in SUBSET ActiveUser : tmp = seenOn["tmp"] BY <1>a
  <2>3. tmp \subseteq United(Day) /\ seenOn' = [seenOn EXCEPT !["tmp"] = tmp] BY <1>a, <1>c, <2>2
  <2> QED BY <1>c, <2>1, <2>3, ReaderSteps
<1>1. ASSUME NEW u \in ActiveUser, NEW d \in Day, RecordActiveUser(u, d) PROVE MeterInv'
  <2>1. seenOn' = [seenOn EXCEPT ![d] = @ \cup {u}] /\ UNCHANGED reader BY <1>1 DEF RecordActiveUser
  <2>2. MeterTypeOK' BY <1>a, <2>1 DEF MeterInv, MeterTypeOK, MeterKey
  <2>3. \A k \in Day : seenOn[k] \subseteq seenOn'[k] BY <1>a, <2>1 DEF MeterKey
  <2>4. seenOn'["tmp"] = seenOn["tmp"] BY <1>a, <2>1, MeterAssumption DEF MeterKey
  <2>5. United(Day) \subseteq United(Day)' BY <2>3 DEF United
  <2>6. ASSUME NEW r \in Reader PROVE ReadingOK(reader[r])'
    <3>1. PICK was \in Reading : was = reader[r] BY <1>0
    <3>2. ReadingOK(was) BY <1>0, <3>1
    <3>3. ReadingOK(was)' BY <2>3, <3>2, ReadingStays
    <3>4. reader'[r] = was BY <2>1, <3>1
    <3> QED BY <3>3, <3>4 DEF ReadingOK
  <2> QED BY <1>a, <2>2, <2>4, <2>5, <2>6 DEF MeterInv
<1>2. ASSUME NEW r \in Reader, BeginScan(r) PROVE MeterInv'
  <2> DEFINE new == [pc |-> "scan", keys |-> Present, before |-> United(Day), count |-> 0]
  <2>1. new \in Reading BY <1>a, <1>b DEF Reading, Present
  <2>2. ASSUME NEW u \in United(Day) PROVE \E k \in Present \cap Day : u \in seenOn[k]
    BY DEF United, Present, MeterKey
  <2>3. ReadingOK(new) BY <2>2 DEF ReadingOK
  <2> QED BY <1>2, <1>c, <2>1, <2>3 DEF BeginScan
<1>3. ASSUME NEW r \in Reader, EndScan(r) PROVE MeterInv'
  <2>1. PICK more \in SUBSET Present :
          LET keys == reader[r].keys \cup more
          IN reader' = [reader EXCEPT ![r].keys = keys, ![r].pc = IF keys = {} THEN "done" ELSE "unite"]
    BY <1>3 DEF EndScan
  <2>2. PICK was \in Reading : was = reader[r] BY <1>0
  <2>3. PICK keys \in SUBSET MeterKey : keys = was.keys \cup more BY <2>2 DEF Reading, Present
  <2>4. PICK pc \in {"done", "unite"} : pc = IF keys = {} THEN "done" ELSE "unite" OBVIOUS
  <2> DEFINE new == [was EXCEPT !.keys = keys, !.pc = pc]
  <2>5. reader' = [reader EXCEPT ![r] = new] BY <2>1, <2>2, <2>3, <2>4
  <2>6. /\ new \in Reading /\ new.pc = pc /\ new.keys = keys /\ new.before = was.before /\ new.count = was.count
    BY <2>2 DEF Reading
  <2>7. was.pc = "scan" /\ ReadingOK(was) /\ UNCHANGED seenOn BY <1>0, <1>3, <2>2 DEF EndScan
  <2> HIDE DEF new
  <2>8. was.count = 0 /\ \A u \in was.before : \E k \in was.keys \cap Day : u \in seenOn[k] BY <2>7 DEF ReadingOK
  <2>9. CASE keys = {}
    <3>1. was.before = {} /\ new.pc = "done" BY <2>3, <2>4, <2>6, <2>8, <2>9
    <3>2. Cardinality({}) = 0 BY FS_EmptySet
    <3>3. ReadingOK(new) BY <2>6, <2>8, <3>1, <3>2 DEF ReadingOK
    <3> QED BY <1>c, <2>5, <2>6, <2>7, <3>3
  <2>10. CASE keys # {}
    <3>1. new.pc = "unite" BY <2>4, <2>6, <2>10
    <3>2. ReadingOK(new) BY <2>3, <2>6, <2>8, <3>1 DEF ReadingOK
    <3> QED BY <1>c, <2>5, <2>6, <2>7, <3>2
  <2> QED BY <2>9, <2>10
<1>4. ASSUME NEW r \in Reader, UniteDays(r) PROVE MeterInv'
  <2>1. PICK was \in Reading : was = reader[r] BY <1>0
  <2>2. was.pc = "unite" /\ ReadingOK(was) BY <1>0, <1>4, <2>1 DEF UniteDays
  <2>3. United(was.keys) \subseteq United(Day)
    <3>1. ASSUME NEW k \in was.keys PROVE seenOn[k] \subseteq United(Day)
      <4>1. k \in Day \/ k = "tmp" BY DEF Reading, MeterKey
      <4> QED BY <1>a, <4>1 DEF United
    <3> QED BY <3>1 DEF United
  <2>4. was.before \subseteq United(was.keys) BY <2>2 DEF ReadingOK, United
  <2>5. PICK all \in SUBSET ActiveUser : all = United(was.keys) BY <1>a, <2>3
  <2>6. Cardinality(all) \in 0..Cardinality(ActiveUser) BY UserCount
  <2>7. PICK count \in 0..Cardinality(ActiveUser) : count = Cardinality(all) BY <2>6
  <2> DEFINE new == [was EXCEPT !.pc = "delete", !.count = count]
  <2>8. reader' = [reader EXCEPT ![r] = new] /\ seenOn' = [seenOn EXCEPT !["tmp"] = all]
    BY <1>4, <2>1, <2>5, <2>7 DEF UniteDays
  <2>9. new \in Reading /\ new.pc = "delete" /\ new.count = count /\ new.before = was.before BY DEF Reading
  <2> HIDE DEF new
  <2>10. United(Day)' = United(Day) BY <1>a, <2>8, MeterAssumption DEF United, MeterKey
  <2>11. ReadingOK(new)' BY <2>3, <2>4, <2>5, <2>7, <2>9, <2>10 DEF ReadingOK
  <2> QED BY <2>3, <2>5, <2>8, <2>9, <2>11, ReaderSteps
<1>5. ASSUME NEW r \in Reader, DeleteTmp(r) PROVE MeterInv'
  <2>1. PICK was \in Reading : was = reader[r] BY <1>0
  <2>2. was.pc = "delete" /\ ReadingOK(was) BY <1>0, <1>5, <2>1 DEF DeleteTmp
  <2> DEFINE new == [was EXCEPT !.pc = "done"]
  <2>3. reader' = [reader EXCEPT ![r] = new] /\ seenOn' = [seenOn EXCEPT !["tmp"] = {}] BY <1>5, <2>1 DEF DeleteTmp
  <2>4. new \in Reading /\ new.pc = "done" /\ new.count = was.count /\ new.before = was.before BY DEF Reading
  <2> HIDE DEF new
  <2>5. United(Day)' = United(Day) BY <1>a, <2>3, MeterAssumption DEF United, MeterKey
  <2>6. ReadingOK(new)' BY <2>2, <2>4, <2>5 DEF ReadingOK
  <2>7. {} \in SUBSET ActiveUser /\ {} \subseteq United(Day) OBVIOUS
  <2> QED BY <2>3, <2>4, <2>6, <2>7, ReaderSteps
<1>6. ASSUME NEW r \in Reader, StopReading(r) PROVE MeterInv'
  <2>1. NotReading \in Reading /\ ReadingOK(NotReading) BY <1>b DEF NotReading, Reading, ReadingOK
  <2> QED BY <1>6, <1>c, <2>1 DEF StopReading
<1>7. CASE UNCHANGED meterVars
  BY <1>7 DEF meterVars, MeterInv, MeterTypeOK, ReadingOK, United
<1> QED BY <1>1, <1>2, <1>3, <1>4, <1>5, <1>6, <1>7 DEF MeterNext

(* What readers have found and counted in every reachable state            *)
(* (lib/metering.ts)                                                       *)
THEOREM MeterInvariance == MeterSpec => []MeterInv
<1>1. MeterInit => MeterInv BY MeterInitHolds
<1>2. MeterInv /\ [MeterNext]_meterVars => MeterInv' BY MeterStepHolds
<1> QED BY <1>1, <1>2, PTL DEF MeterSpec

LEMMA MeterInvIsExact == MeterInv => MeterExact
<1> SUFFICES ASSUME MeterInv, NEW r \in Reader, reader[r].pc = "done"
             PROVE  reader[r].count \in Cardinality(reader[r].before) .. Cardinality(United(Day))
  BY DEF MeterExact
<1>1. PICK counted \in SUBSET ActiveUser :
        reader[r].before \subseteq counted /\ counted \subseteq United(Day) /\ reader[r].count = Cardinality(counted)
  BY DEF MeterInv, ReadingOK
<1>2. United(Day) \in SUBSET ActiveUser /\ reader[r].before \in SUBSET ActiveUser
  BY DEF MeterInv, MeterTypeOK, United, MeterKey
<1>3. IsFiniteSet(counted) /\ IsFiniteSet(United(Day)) /\ IsFiniteSet(reader[r].before) BY <1>2, UserCount
<1>4. Cardinality(reader[r].before) <= Cardinality(counted) BY <1>1, <1>3, FS_Subset
<1>5. Cardinality(counted) <= Cardinality(United(Day)) BY <1>1, <1>3, FS_Subset
<1>6. /\ Cardinality(counted) \in Nat /\ Cardinality(United(Day)) \in Nat
      /\ Cardinality(reader[r].before) \in Nat
  BY <1>3, FS_CardinalityType
<1> QED BY <1>1, <1>4, <1>5, <1>6

(* However readers overwrite and delete each other's temporary key, a bill *)
(* counts every user recorded before the reading began and nobody twice    *)
(* (metering.ts:130-133), for any readers, users and days.                 *)
THEOREM MeterIsExact == MeterSpec => []MeterExact
BY MeterInvariance, MeterInvIsExact, PTL
-----------------------------------------------------------------------------
(* The windows of the tiers *)

Call == [pc : {"check", "add"}, endpoint : Endpoint, age : 0..Delay, counted : BOOLEAN]
LastMinute == 0 .. Minute - 1

(* The requests that an endpoint has counted and not recorded yet *)
YetToAdd(e) == {c \in Caller : caller[c].pc = "add" /\ caller[c].counted /\ caller[c].endpoint = e}

(* What an endpoint has recorded within the minute and what it has let     *)
(* through without recording it yet stay below the bound together.         *)
RateOK(e) == Tally(zset[e], LastMinute) + Cardinality(YetToAdd(e)) < EndpointLimit[e] + Cardinality(Caller)

LimitInv ==
  /\ LimitTypeOK
  /\ \A c \in Caller : caller[c].pc = "check" => ~caller[c].counted
  /\ \A e \in Endpoint : RateOK(e)

LEMMA LimitFacts ==
  /\ IsFiniteSet(Caller) /\ Cardinality(Caller) \in Nat
  /\ IsFiniteSet(Age) /\ IsFiniteSet(LastMinute) /\ LastMinute \subseteq Age /\ Age \subseteq Nat
  /\ IsFiniteSet(Entrant \X Age)
  /\ \A e \in Endpoint : e \in Entrant /\ e # "uncounted" /\ EndpointLimit[e] \in Nat \ {0}
                         /\ EndpointWindow[e] \in Minute .. 2 * Minute - 1
  /\ Minute \in Nat \ {0} /\ Delay \in Nat /\ OpenCeiling \in Nat \ {0}
<1>1. IsFiniteSet(Caller) /\ Cardinality(Caller) \in Nat BY FS_CardinalityType, LimitAssumption
<1>2. Minute \in Nat \ {0} /\ 2 * Minute - 1 \in Int /\ Minute - 1 \in Int BY LimitAssumption
<1>3. IsFiniteSet(Age) /\ IsFiniteSet(LastMinute) BY <1>2, FS_Interval DEF Age, LastMinute
<1>4. LastMinute \subseteq Age /\ Age \subseteq Nat BY <1>2 DEF Age, LastMinute
<1>5. IsFiniteSet(Entrant) BY FS_AddElement, LimitAssumption DEF Entrant
<1>6. IsFiniteSet(Entrant \X Age) BY <1>3, <1>5, FS_Product
<1> QED BY <1>1, <1>2, <1>3, <1>4, <1>6, LimitAssumption DEF Entrant

LEMMA CountedFinite ==
  ASSUME NEW e
  PROVE  /\ IsFiniteSet(YetToAdd(e)) /\ Cardinality(YetToAdd(e)) \in Nat
         /\ Cardinality(YetToAdd(e)) <= Cardinality(Caller)
<1>1. YetToAdd(e) \in SUBSET Caller BY DEF YetToAdd
<1>2. IsFiniteSet(YetToAdd(e)) /\ Cardinality(YetToAdd(e)) <= Cardinality(Caller) BY <1>1, FS_Subset, LimitFacts
<1> QED BY <1>2, FS_CardinalityType

LEMMA LastMinuteTally ==
  ASSUME NEW e \in Endpoint, LimitTypeOK
  PROVE  Tally(zset[e], LastMinute) \in Nat
<1>1. \A a \in LastMinute : zset[e][a] \in Nat BY LimitFacts DEF LimitTypeOK
<1> QED BY <1>1, EntriesFinite, LimitFacts

(* The last minute of one endpoint is part of what the key holds. *)
LEMMA HeldBounds ==
  ASSUME NEW kept \in [Entrant -> [Age -> Nat]], NEW e \in Endpoint
  PROVE  Tally(kept[e], LastMinute) <= Held(kept)
<1> DEFINE all == [p \in Entrant \X Age |-> kept[p[1]][p[2]]]
           f == [a \in LastMinute |-> <<e, a>>]
<1>1. \A a \in LastMinute : <<e, a>> \in Entrant \X Age BY LimitFacts
<1>2. f \in Injection(LastMinute, Entrant \X Age) BY <1>1 DEF Injection, IsInjective
<1>3. \A p \in Entrant \X Age : all[p] \in Nat OBVIOUS
<1>4. \A a \in LastMinute : kept[e][a] \in Nat /\ kept[e][a] <= all[f[a]] BY <1>1, LimitFacts
<1>5. Tally(kept[e], LastMinute) <= Tally(all, Entrant \X Age)
  <2> HIDE DEF all, f
  <2> QED BY <1>2, <1>3, <1>4, TallyInto, LimitFacts
<1> QED BY <1>5 DEF Held

(* The bound holds where neither number has grown. *)
LEMMA RateKept ==
  ASSUME LimitTypeOK', NEW e \in Endpoint, NEW n \in Nat, NEW k \in Nat,
         n + k < EndpointLimit[e] + Cardinality(Caller),
         Tally(zset'[e], LastMinute) <= n, Cardinality(YetToAdd(e)') <= k
  PROVE  RateOK(e)'
<1>1. Tally(zset'[e], LastMinute) \in Nat
  <2>1. \A a \in LastMinute : zset'[e][a] \in Nat BY LimitFacts DEF LimitTypeOK
  <2> QED BY <2>1, EntriesFinite, LimitFacts
<1>2. Cardinality(YetToAdd(e)') \in Nat
  <2>1. YetToAdd(e)' \in SUBSET Caller BY DEF YetToAdd
  <2> QED BY <2>1, FS_Subset, FS_CardinalityType, LimitFacts
<1>3. PICK m \in Nat : m = Tally(zset'[e], LastMinute) BY <1>1
<1>4. PICK j \in Nat : j = Cardinality(YetToAdd(e)') BY <1>2
<1>5. EndpointLimit[e] \in Nat /\ Cardinality(Caller) \in Nat BY LimitFacts
<1>6. m + j < EndpointLimit[e] + Cardinality(Caller) BY <1>3, <1>4, <1>5
<1> QED BY <1>3, <1>4, <1>6 DEF RateOK

(* ... in particular where the endpoint's entries and requests are among   *)
(* those it had.                                                           *)
LEMMA RateUntouched ==
  ASSUME LimitInv, LimitTypeOK', NEW e \in Endpoint,
         Tally(zset'[e], LastMinute) <= Tally(zset[e], LastMinute), YetToAdd(e)' \subseteq YetToAdd(e)
  PROVE  RateOK(e)'
<1>1. Tally(zset[e], LastMinute) \in Nat BY LastMinuteTally DEF LimitInv
<1>2. IsFiniteSet(YetToAdd(e)) /\ Cardinality(YetToAdd(e)) \in Nat BY CountedFinite
<1>3. PICK had : had = YetToAdd(e) OBVIOUS
<1>4. PICK has : has = YetToAdd(e)' OBVIOUS
<1>5. has \in SUBSET had /\ IsFiniteSet(had) BY <1>2, <1>3, <1>4
<1>6. Cardinality(has) <= Cardinality(had) BY <1>5, FS_Subset
<1>7. PICK n \in Nat : n = Tally(zset[e], LastMinute) BY <1>1
<1>8. PICK k \in Nat : k = Cardinality(YetToAdd(e)) BY <1>2
<1>9. n + k < EndpointLimit[e] + Cardinality(Caller) BY <1>7, <1>8 DEF LimitInv, RateOK
<1> QED BY <1>3, <1>4, <1>6, <1>7, <1>8, <1>9, RateKept

LEMMA LimitInitHolds == LimitInit => LimitInv
<1> SUFFICES ASSUME LimitInit PROVE LimitInv OBVIOUS
<1>1. LimitTypeOK BY LimitAssumption DEF LimitInit, LimitTypeOK
<1>2. \A c \in Caller : caller[c].pc = "away" BY DEF LimitInit, NotCalling
<1>3. ASSUME NEW e \in Endpoint PROVE RateOK(e)
  <2>1. \A a \in LastMinute : zset[e][a] = 0 BY LimitFacts DEF LimitInit
  <2>2. Tally(zset[e], LastMinute) = 0 BY <2>1, TallyNone
  <2>3. YetToAdd(e) = {} BY <1>2 DEF YetToAdd
  <2>4. Cardinality(YetToAdd(e)) = 0 BY <2>3, FS_EmptySet
  <2> QED BY <2>2, <2>4, LimitFacts DEF RateOK
<1> QED BY <1>1, <1>2, <1>3 DEF LimitInv
(* A request that leaves: what it had let through is no longer waited for. *)
LEMMA RespondHolds ==
  ASSUME LimitInv, NEW c \in Caller, Respond(c), UNCHANGED zset, fallback' \in 0..OpenCeiling
  PROVE  LimitInv'
<1>1. \A q \in Caller : caller'[q] = IF q = c THEN NotCalling ELSE caller[q] BY DEF Respond, LimitInv, LimitTypeOK
<1>2. LimitTypeOK' BY DEF LimitInv, LimitTypeOK, Respond
<1>3. \A q \in Caller : caller'[q].pc = "check" => ~caller'[q].counted BY <1>1 DEF LimitInv, NotCalling
<1>4. ASSUME NEW e \in Endpoint PROVE RateOK(e)'
  <2>1. YetToAdd(e)' \subseteq YetToAdd(e) BY <1>1 DEF YetToAdd, NotCalling
  <2>2. Tally(zset[e], LastMinute) \in Nat BY LastMinuteTally DEF LimitInv
  <2>3. Tally(zset'[e], LastMinute) <= Tally(zset[e], LastMinute) BY <2>2
  <2> QED BY <1>2, <2>1, <2>3, RateUntouched
<1> QED BY <1>2, <1>3, <1>4 DEF LimitInv

(* The cleaning takes nothing of the last minute. *)
LEMMA CleaningKeepsMinute ==
  ASSUME LimitInv, NEW c \in Caller, caller[c] \in Call
  PROVE  /\ Cleaned(c) \in [Entrant -> [Age -> Nat]]
         /\ \A e \in Endpoint : Tally(Cleaned(c)[e], LastMinute) = Tally(zset[e], LastMinute)
<1> DEFINE start == caller[c].age + EndpointWindow[caller[c].endpoint]
<1>1. start \in Nat /\ Minute <= start BY LimitFacts DEF Call
<1>2. Cleaned(c) = [e \in Entrant |-> [a \in Age |-> IF a < start THEN zset[e][a] ELSE 0]] BY DEF Cleaned
<1>3. Cleaned(c) \in [Entrant -> [Age -> Nat]] BY <1>2 DEF LimitInv, LimitTypeOK
<1>4. ASSUME NEW e \in Endpoint, NEW a \in LastMinute PROVE Cleaned(c)[e][a] = zset[e][a]
  <2>1. a \in Age /\ a < start /\ e \in Entrant BY <1>1, LimitFacts DEF LastMinute
  <2> QED BY <1>2, <2>1
<1>5. ASSUME NEW e \in Endpoint PROVE Tally(Cleaned(c)[e], LastMinute) = Tally(zset[e], LastMinute)
  BY <1>4, TallySame
<1> QED BY <1>3, <1>5

LEMMA CallOf ==
  ASSUME LimitTypeOK, NEW c \in Caller, caller[c].pc \in {"check", "add"}
  PROVE  caller[c] \in Call
BY DEF LimitTypeOK, Call, NotCalling

LEMMA LimitStepHolds == LimitInv /\ [LimitNext]_limitVars => LimitInv'
<1> SUFFICES ASSUME LimitInv, [LimitNext]_limitVars PROVE LimitInv' OBVIOUS
<1>0. LimitTypeOK BY DEF LimitInv
<1>1. ASSUME NEW c \in Caller, NEW e \in Endpoint, Arrive(c, e) PROVE LimitInv'
  <2> DEFINE new == [NotCalling EXCEPT !.pc = "check", !.endpoint = e]
  <2>1. new \in [pc : {"check"}, endpoint : {e}, age : {0}, counted : {FALSE}] BY DEF NotCalling
  <2>a. 0 \in 0..Delay BY LimitFacts
  <2>2. new \in Call BY <2>1, <2>a DEF Call
  <2>3. new.pc = "check" /\ ~new.counted BY <2>1
  <2>4. caller' = [caller EXCEPT ![c] = new] /\ UNCHANGED <<zset, fallback>> BY <1>1 DEF Arrive
  <2> HIDE DEF new
  <2>5. \A q \in Caller : caller'[q] = IF q = c THEN new ELSE caller[q] BY <1>0, <2>4 DEF LimitTypeOK
  <2>6. LimitTypeOK' BY <1>0, <2>2, <2>4 DEF LimitTypeOK, Call
  <2>7. \A q \in Caller : caller'[q].pc = "check" => ~caller'[q].counted BY <2>3, <2>5 DEF LimitInv
  <2>8. ASSUME NEW d \in Endpoint PROVE RateOK(d)'
    <3>1. YetToAdd(d)' \subseteq YetToAdd(d) BY <2>3, <2>5 DEF YetToAdd
    <3>2. Tally(zset[d], LastMinute) \in Nat BY <1>0, LastMinuteTally
    <3>3. Tally(zset'[d], LastMinute) <= Tally(zset[d], LastMinute) BY <2>4, <3>2
    <3> QED BY <2>6, <3>1, <3>3, RateUntouched
  <2> QED BY <2>6, <2>7, <2>8 DEF LimitInv
<1>2. ASSUME NEW c \in Caller, Check(c) PROVE LimitInv'
  <2>0. caller[c] \in Call /\ caller[c].pc = "check" /\ zset' = Cleaned(c) /\ UNCHANGED fallback
    BY <1>0, <1>2, CallOf DEF Check
  <2>1. /\ zset' \in [Entrant -> [Age -> Nat]]
        /\ \A e \in Endpoint : Tally(zset'[e], LastMinute) = Tally(zset[e], LastMinute)
    BY <2>0, CleaningKeepsMinute
  <2>2. CASE Admits(c, Held(Cleaned(c))) /\ caller' = [caller EXCEPT ![c].pc = "add", ![c].counted = TRUE]
    <3> DEFINE new == [caller[c] EXCEPT !.pc = "add", !.counted = TRUE]
    <3>1. new \in Call /\ new.pc = "add" /\ new.endpoint = caller[c].endpoint BY <2>0 DEF Call
    <3>2. caller' = [caller EXCEPT ![c] = new] BY <2>2
    <3> HIDE DEF new
    <3>3. \A q \in Caller : caller'[q] = IF q = c THEN new ELSE caller[q] BY <1>0, <3>2 DEF LimitTypeOK
    <3>4. LimitTypeOK' BY <1>0, <2>0, <2>1, <3>1, <3>2 DEF LimitTypeOK, Call
    <3>5. \A q \in Caller : caller'[q].pc = "check" => ~caller'[q].counted BY <3>1, <3>3 DEF LimitInv
    <3>6. ASSUME NEW e \in Endpoint PROVE RateOK(e)'
      <4>1. CASE e = caller[c].endpoint
        <5>1. Held(Cleaned(c)) < EndpointLimit[e] BY <2>2, <4>1 DEF Admits
        <5>2. Tally(zset'[e], LastMinute) <= Held(Cleaned(c)) BY <2>0, <2>1, HeldBounds
        <5>3. PICK n \in Nat : n = Tally(zset[e], LastMinute) BY <1>0, LastMinuteTally
        <5>4. PICK held : held = Held(Cleaned(c)) OBVIOUS
        <5>5. held \in Nat
          <6> DEFINE kept == Cleaned(c)
                     all == [p \in Entrant \X Age |-> kept[p[1]][p[2]]]
          <6>1. \A p \in Entrant \X Age : all[p] \in Nat BY <2>0, CleaningKeepsMinute
          <6>2. held = Tally(all, Entrant \X Age) BY <5>4 DEF Held
          <6> HIDE DEF all
          <6> QED BY <6>1, <6>2, EntriesFinite, LimitFacts
        <5>6. n <= held /\ held < EndpointLimit[e] BY <2>1, <5>1, <5>2, <5>3, <5>4
        <5>7. PICK k \in Nat : k = Cardinality(Caller) BY LimitFacts
        <5>8. n + k < EndpointLimit[e] + Cardinality(Caller) BY <5>5, <5>6, <5>7, LimitFacts
        <5>9. Cardinality(YetToAdd(e)') <= k
          <6>1. YetToAdd(e)' \in SUBSET Caller BY DEF YetToAdd
          <6> QED BY <5>7, <6>1, FS_Subset, LimitFacts
        <5>10. Tally(zset'[e], LastMinute) <= n BY <2>1, <5>3
        <5> QED BY <3>4, <5>8, <5>9, <5>10, RateKept
      <4>2. CASE e # caller[c].endpoint
        <5>1. YetToAdd(e)' \subseteq YetToAdd(e) BY <3>1, <3>3, <4>2 DEF YetToAdd
        <5>2. Tally(zset[e], LastMinute) \in Nat BY <1>0, LastMinuteTally
        <5>3. Tally(zset'[e], LastMinute) <= Tally(zset[e], LastMinute) BY <2>1, <5>2
        <5> QED BY <3>4, <5>1, <5>3, RateUntouched
      <4> QED BY <4>1, <4>2
    <3> QED BY <3>4, <3>5, <3>6 DEF LimitInv
  <2>3. CASE Respond(c)
    <3>1. \A q \in Caller : caller'[q] = IF q = c THEN NotCalling ELSE caller[q] BY <1>0, <2>3 DEF Respond, LimitTypeOK
    <3>2. LimitTypeOK' BY <1>0, <2>0, <2>1, <2>3 DEF LimitTypeOK, Respond
    <3>3. \A q \in Caller : caller'[q].pc = "check" => ~caller'[q].counted BY <3>1 DEF LimitInv, NotCalling
    <3>4. ASSUME NEW e \in Endpoint PROVE RateOK(e)'
      <4>1. YetToAdd(e)' \subseteq YetToAdd(e) BY <3>1 DEF YetToAdd, NotCalling
      <4>2. Tally(zset[e], LastMinute) \in Nat BY <1>0, LastMinuteTally
      <4>3. Tally(zset'[e], LastMinute) <= Tally(zset[e], LastMinute) BY <2>1, <4>2
      <4> QED BY <3>2, <4>1, <4>3, RateUntouched
    <3> QED BY <3>2, <3>3, <3>4 DEF LimitInv
  <2> QED BY <1>2, <2>2, <2>3 DEF Check
<1>3. ASSUME NEW c \in Caller, CheckFails(c) PROVE LimitInv'
  <2>0. caller[c] \in Call /\ caller[c].pc = "check" /\ ~caller[c].counted /\ UNCHANGED <<zset, fallback>>
        /\ caller' = [caller EXCEPT ![c].pc = "add"]
    BY <1>0, <1>3, CallOf DEF CheckFails, LimitInv
  <2> DEFINE new == [caller[c] EXCEPT !.pc = "add"]
  <2>1. new \in Call /\ new.pc = "add" /\ new.counted = caller[c].counted BY <2>0 DEF Call
  <2>2. caller' = [caller EXCEPT ![c] = new] BY <2>0
  <2> HIDE DEF new
  <2>3. \A q \in Caller : caller'[q] = IF q = c THEN new ELSE caller[q] BY <1>0, <2>2 DEF LimitTypeOK
  <2>4. LimitTypeOK' BY <1>0, <2>0, <2>1, <2>2 DEF LimitTypeOK, Call
  <2>5. \A q \in Caller : caller'[q].pc = "check" => ~caller'[q].counted BY <2>1, <2>3 DEF LimitInv
  <2>6. ASSUME NEW e \in Endpoint PROVE RateOK(e)'
    <3>1. YetToAdd(e)' \subseteq YetToAdd(e) BY <2>0, <2>1, <2>3 DEF YetToAdd
    <3>2. Tally(zset[e], LastMinute) \in Nat BY <1>0, LastMinuteTally
    <3>3. Tally(zset'[e], LastMinute) <= Tally(zset[e], LastMinute) BY <2>0, <3>2
    <3> QED BY <2>4, <3>1, <3>3, RateUntouched
  <2> QED BY <2>4, <2>5, <2>6 DEF LimitInv
<1>4. ASSUME NEW c \in Caller, Record(c) PROVE LimitInv'
  <2>0. caller[c] \in Call /\ caller[c].pc = "add" /\ Respond(c) /\ UNCHANGED fallback
    BY <1>0, <1>4, CallOf DEF Record
  <2>1. PICK entrant \in Entrant : entrant = IF caller[c].counted THEN caller[c].endpoint ELSE "uncounted"
    BY <2>0, LimitFacts DEF Call, Entrant
  <2>2. PICK age \in Nat : age = caller[c].age BY <2>0 DEF Call
  <2>3. zset' = [zset EXCEPT ![entrant][age] = @ + 1] BY <1>4, <2>1, <2>2 DEF Record
  <2> DEFINE row == [zset[entrant] EXCEPT ![age] = @ + 1]
  <2>a. PICK was \in [Age -> Nat] : was = zset[entrant] BY <1>0 DEF LimitTypeOK
  <2>b. age \in Age => was[age] + 1 \in Nat BY <2>a
  <2>4. row \in [Age -> Nat] BY <2>a, <2>b
  <2>5. zset' = [zset EXCEPT ![entrant] = row] BY <2>3
  <2>6. zset' \in [Entrant -> [Age -> Nat]] /\ \A e \in Entrant : zset'[e] = IF e = entrant THEN row ELSE zset[e]
    <3> HIDE DEF row
    <3> QED BY <1>0, <2>4, <2>5 DEF LimitTypeOK
  <2>7. \A q \in Caller : caller'[q] = IF q = c THEN NotCalling ELSE caller[q] BY <1>0, <2>0 DEF Respond, LimitTypeOK
  <2>8. LimitTypeOK' BY <1>0, <2>0, <2>6 DEF LimitTypeOK, Respond
  <2>9. \A q \in Caller : caller'[q].pc = "check" => ~caller'[q].counted BY <2>7 DEF LimitInv, NotCalling
  <2>10. ASSUME NEW e \in Endpoint PROVE RateOK(e)'
    <3>1. YetToAdd(e)' = YetToAdd(e) \ {c} BY <2>7 DEF YetToAdd, NotCalling
    <3>2. CASE e # entrant
      <4>1. zset'[e] = zset[e] BY <2>6, <3>2, LimitFacts
      <4>2. Tally(zset[e], LastMinute) \in Nat BY <1>0, LastMinuteTally
      <4>3. Tally(zset'[e], LastMinute) <= Tally(zset[e], LastMinute) BY <4>1, <4>2
      <4> QED BY <2>8, <3>1, <4>3, RateUntouched
    <3>3. CASE e = entrant
      <4>1. c \in YetToAdd(e) BY <2>0, <2>1, <3>3, LimitFacts DEF YetToAdd, Call
      <4>2. PICK had : had = YetToAdd(e) OBVIOUS
      <4>3. IsFiniteSet(had) /\ Cardinality(had) \in Nat BY <4>2, CountedFinite
      <4>4. Cardinality(had \ {c}) = Cardinality(had) - 1 /\ IsFiniteSet(had \ {c}) BY <4>1, <4>2, <4>3, FS_RemoveElement
      <4>5. Cardinality(had \ {c}) \in Nat BY <4>4, FS_CardinalityType
      <4>6. PICK k \in Nat : k = Cardinality(had \ {c}) BY <4>5
      <4>7. Cardinality(YetToAdd(e)) = k + 1 BY <4>2, <4>3, <4>4, <4>6
      <4>8. PICK n \in Nat : n = Tally(zset[e], LastMinute) BY <1>0, LastMinuteTally
      <4>9. n + 1 + k < EndpointLimit[e] + Cardinality(Caller) BY <4>7, <4>8 DEF LimitInv, RateOK
      <4>10. PICK old \in [Age -> Nat] : old = zset[e] BY <1>0, LimitFacts DEF LimitTypeOK
      <4>11. zset'[e] = [old EXCEPT ![age] = @ + 1] BY <2>6, <3>3, <4>10
      <4>12. Tally(zset'[e], LastMinute) <= n + 1
        <5>1. CASE age \in Age
          <6>0. IsFiniteSet(LastMinute) /\ LastMinute \subseteq Age BY LimitFacts
          <6>1. PICK new : new = zset'[e] OBVIOUS
          <6>2. \A s \in LastMinute : old[s] \in Nat /\ new[s] = IF s = age THEN old[s] + 1 ELSE old[s]
            BY <4>10, <4>11, <6>0, <6>1
          <6>3. Tally(new, LastMinute) = Tally(old, LastMinute) + (IF age \in LastMinute THEN 1 ELSE 0)
            BY <6>0, <6>2, TallyOneMore, SMTT(30)
          <6> QED BY <4>8, <4>10, <6>1, <6>3
        <5>2. CASE age \notin Age
          <6>1. [old EXCEPT ![age] = @ + 1] = old BY <5>2
          <6> QED BY <4>8, <4>10, <4>11, <6>1
        <5> QED BY <5>1, <5>2
      <4>13. Cardinality(YetToAdd(e)') <= k BY <3>1, <4>2, <4>6
      <4> QED BY <2>8, <4>9, <4>12, <4>13, RateKept
    <3> QED BY <3>2, <3>3
  <2> QED BY <2>8, <2>9, <2>10 DEF LimitInv
<1>5. ASSUME NEW c \in Caller, RecordFails(c) PROVE LimitInv'
  BY <1>0, <1>5, RespondHolds DEF RecordFails, LimitTypeOK
<1>6. ASSUME NEW c \in Caller, Unavailable(c) PROVE LimitInv'
  <2>1. fallback' \in IF caller[c].endpoint \in FailsClosed THEN {fallback}
                      ELSE {1, IF fallback < OpenCeiling THEN fallback + 1 ELSE fallback}
    BY <1>6 DEF Unavailable
  <2>2. fallback' \in 0..OpenCeiling BY <1>0, <2>1, LimitFacts DEF LimitTypeOK
  <2> QED BY <1>6, <2>2, RespondHolds DEF Unavailable
<1>7. ASSUME LimitTick PROVE LimitInv'
  <2>0. /\ \A c \in Caller : caller[c].age < Delay
        /\ zset' = [e \in Entrant |-> [a \in Age |-> IF a = 0 THEN 0 ELSE zset[e][a - 1]]]
        /\ caller' = [c \in Caller |-> IF caller[c] = NotCalling THEN NotCalling ELSE [caller[c] EXCEPT !.age = @ + 1]]
        /\ UNCHANGED fallback
    BY <1>7 DEF LimitTick
  <2>1. \A a \in Age : a # 0 => a - 1 \in Age BY LimitFacts DEF Age
  <2>2. zset' \in [Entrant -> [Age -> Nat]] BY <1>0, <2>0, <2>1 DEF LimitTypeOK
  <2>3. ASSUME NEW c \in Caller
        PROVE  /\ caller'[c] \in {NotCalling} \cup Call
               /\ caller'[c].pc = caller[c].pc /\ caller'[c].counted = caller[c].counted
               /\ caller'[c].endpoint = caller[c].endpoint
    <3>1. CASE caller[c] = NotCalling BY <2>0, <3>1
    <3>2. CASE caller[c] # NotCalling
      <4>1. PICK call \in Call : call = caller[c] BY <1>0, <3>2 DEF LimitTypeOK, Call
      <4>2. caller'[c] = [call EXCEPT !.age = @ + 1] BY <2>0, <3>2, <4>1
      <4>3. call.age + 1 \in 0..Delay BY <2>0, <4>1, LimitFacts DEF Call
      <4> QED BY <4>1, <4>2, <4>3 DEF Call
    <3> QED BY <3>1, <3>2
  <2>4. LimitTypeOK' BY <1>0, <2>0, <2>2, <2>3 DEF LimitTypeOK, Call
  <2>5. \A q \in Caller : caller'[q].pc = "check" => ~caller'[q].counted BY <2>3 DEF LimitInv
  <2>6. ASSUME NEW e \in Endpoint PROVE RateOK(e)'
    <3>1. YetToAdd(e)' \subseteq YetToAdd(e) BY <2>3 DEF YetToAdd
    <3>2. PICK old \in [Age -> Nat] : old = zset[e] BY <1>0, LimitFacts DEF LimitTypeOK
    <3>3. PICK new \in [Age -> Nat] : new = zset'[e] BY <2>2, LimitFacts
    <3> DEFINE f == [a \in LastMinute |-> IF a = 0 THEN Minute - 1 ELSE a - 1]
    <3>4. f \in [LastMinute -> LastMinute] BY LimitFacts DEF LastMinute
    <3>5. \A a, b \in LastMinute : f[a] = f[b] => a = b BY LimitFacts DEF LastMinute
    <3>6. f \in Injection(LastMinute, LastMinute) BY <3>4, <3>5 DEF Injection, IsInjective
    <3>7. ASSUME NEW a \in LastMinute PROVE new[a] \in Nat /\ new[a] <= old[f[a]]
      <4>1. a \in Age /\ f[a] \in Age /\ e \in Entrant BY <3>4, LimitFacts
      <4>2. new[a] = IF a = 0 THEN 0 ELSE old[a - 1] BY <2>0, <3>2, <3>3, <4>1
      <4>3. new[a] \in Nat /\ old[f[a]] \in Nat BY <4>1
      <4> QED BY <4>2, <4>3, LimitFacts
    <3>8. \A a \in LastMinute : old[a] \in Nat BY LimitFacts
    <3>9. Tally(new, LastMinute) <= Tally(old, LastMinute)
      <4> HIDE DEF f
      <4> QED BY <3>6, <3>7, <3>8, TallyInto, LimitFacts
    <3> QED BY <2>4, <3>1, <3>2, <3>3, <3>9, RateUntouched
  <2> QED BY <2>4, <2>5, <2>6 DEF LimitInv
<1>8. CASE UNCHANGED limitVars
  <2>1. LimitTypeOK' BY <1>0, <1>8 DEF limitVars, LimitTypeOK
  <2>2. \A e \in Endpoint : RateOK(e)' BY <1>8 DEF limitVars, LimitInv, RateOK, YetToAdd
  <2> QED BY <1>8, <2>1, <2>2 DEF limitVars, LimitInv
<1> QED BY <1>1, <1>2, <1>3, <1>4, <1>5, <1>6, <1>7, <1>8 DEF LimitNext

(* Types, and the bound with the requests under way, in every reachable    *)
(* state (rate-limit-tiers.ts)                                             *)
THEOREM LimitInvariance == LimitSpec => []LimitInv
<1>1. LimitInit => LimitInv BY LimitInitHolds
<1>2. LimitInv /\ [LimitNext]_limitVars => LimitInv' BY LimitStepHolds
<1> QED BY <1>1, <1>2, PTL DEF LimitSpec

LEMMA LimitInvIsBound == LimitInv => RateBounded
<1> SUFFICES ASSUME LimitInv, NEW e \in Endpoint
             PROVE  Tally(zset[e], 0 .. Minute - 1) < EndpointLimit[e] + Cardinality(Caller)
  BY DEF RateBounded
<1>1. Tally(zset[e], LastMinute) \in Nat BY LastMinuteTally DEF LimitInv
<1>2. Cardinality(YetToAdd(e)) \in Nat BY CountedFinite
<1>3. Tally(zset[e], LastMinute) + Cardinality(YetToAdd(e)) < EndpointLimit[e] + Cardinality(Caller) BY DEF LimitInv, RateOK
<1>4. EndpointLimit[e] \in Nat /\ Cardinality(Caller) \in Nat BY LimitFacts
<1>5. Tally(zset[e], LastMinute) < EndpointLimit[e] + Cardinality(Caller) BY <1>1, <1>2, <1>3, <1>4
<1> QED BY <1>5 DEF LastMinute

(* An endpoint lets through, of any minute's requests that Redis counted   *)
(* and recorded, no more than its limit and one per other request in       *)
(* flight (rate-limit-tiers.ts:200-215), for any endpoints with limits and *)
(* windows of their own and any number of concurrent requests.             *)
THEOREM RateIsBounded == LimitSpec => []RateBounded
BY LimitInvariance, LimitInvIsBound, PTL
-----------------------------------------------------------------------------
(* The windows of the public forms *)

Capture == [pc : {"away", "count", "record", "send"}, at : Instant]

(* The instants that still count at an instant *)
Recently(a) == {t \in Instant : t + LeadWindow > a}

SendingIn(c, a) == {r \in LeadRequest : c[r].pc = "send" /\ c[r].at \in Recently(a)}
RecordingIn(c) == {r \in LeadRequest : c[r].pc = "record"}

(* From the instant on, the window holds every submission that has been or *)
(* will be mailed about, but for the commands that failed.                 *)
Ledger(c, w, m, f, a) ==
  Tally(m, Recently(a)) + Cardinality(SendingIn(c, a)) <= Tally(w, Recently(a)) + f

(* Those mailed about, to be mailed about and to be recorded stay in the   *)
(* bound together.                                                         *)
Load(c, m, f, a) ==
  Tally(m, Recently(a)) + Cardinality(SendingIn(c, a)) + Cardinality(RecordingIn(c))
    <= LeadLimit + Cardinality(LeadRequest) - 1 + f

LeadInv ==
  /\ LeadTypeOK
  /\ \A r \in LeadRequest : capture[r].at <= instant
  /\ \A a \in Instant : instant <= a => Ledger(capture, window, mailed, faults, a)
  /\ Load(capture, mailed, faults, instant)

LEMMA LeadFacts ==
  /\ IsFiniteSet(LeadRequest) /\ Cardinality(LeadRequest) \in Nat
  /\ IsFiniteSet(Instant) /\ Instant \subseteq Nat /\ 0 \in Instant
  /\ LeadLimit \in Nat \ {0} /\ LeadWindow \in Nat \ {0} /\ MaxFaults \in Nat /\ LastInstant \in Nat
  /\ Cardinality(LeadRequest) # 0
<1>1. IsFiniteSet(LeadRequest) /\ Cardinality(LeadRequest) \in Nat BY FS_CardinalityType, LeadAssumption
<1>2. Cardinality(LeadRequest) # 0 BY <1>1, FS_EmptySet, LeadAssumption
<1>3. LastInstant \in Nat /\ LastInstant \in Int BY LeadAssumption
<1>4. IsFiniteSet(Instant) BY <1>3, FS_Interval DEF Instant
<1> QED BY <1>1, <1>2, <1>3, <1>4, LeadAssumption DEF Instant

LEMMA RecentlyFinite ==
  ASSUME NEW a, NEW count \in [Instant -> Nat]
  PROVE  /\ IsFiniteSet(Recently(a)) /\ Recently(a) \subseteq Instant
         /\ Tally(count, Recently(a)) \in Nat
<1>1. Recently(a) \in SUBSET Instant BY DEF Recently
<1>2. IsFiniteSet(Recently(a)) BY <1>1, FS_Subset, LeadFacts
<1>3. \A t \in Recently(a) : count[t] \in Nat BY <1>1
<1> QED BY <1>1, <1>2, <1>3, EntriesFinite

LEMMA RequestCount ==
  ASSUME NEW some \in SUBSET LeadRequest
  PROVE  IsFiniteSet(some) /\ Cardinality(some) \in Nat /\ Cardinality(some) <= Cardinality(LeadRequest)
BY FS_Subset, FS_CardinalityType, LeadFacts

(* Two sets that differ in one request at most *)
LEMMA OneMoves ==
  ASSUME NEW had \in SUBSET LeadRequest, NEW has \in SUBSET LeadRequest, NEW r, had \ {r} = has \ {r}
  PROVE  /\ Cardinality(had) \in Nat /\ Cardinality(has) \in Nat
         /\ Cardinality(has) + (IF r \in had THEN 1 ELSE 0) = Cardinality(had) + (IF r \in has THEN 1 ELSE 0)
<1>1. /\ IsFiniteSet(had) /\ Cardinality(had) \in Nat /\ IsFiniteSet(has) /\ Cardinality(has) \in Nat BY RequestCount
<1>2. Cardinality(had \ {r}) = IF r \in had THEN Cardinality(had) - 1 ELSE Cardinality(had) BY <1>1, FS_RemoveElement
<1>3. Cardinality(has \ {r}) = IF r \in has THEN Cardinality(has) - 1 ELSE Cardinality(has) BY <1>1, FS_RemoveElement
<1> QED BY <1>1, <1>2, <1>3

(* A submission that moves on: only its own place in the sets changes. *)
LEMMA CaptureMoves ==
  ASSUME NEW c, NEW d, NEW r \in LeadRequest, NEW a, \A q \in LeadRequest : q # r => d[q] = c[q]
  PROVE  /\ Cardinality(SendingIn(c, a)) \in Nat /\ Cardinality(SendingIn(d, a)) \in Nat
         /\ Cardinality(RecordingIn(c)) \in Nat /\ Cardinality(RecordingIn(d)) \in Nat
         /\ Cardinality(RecordingIn(d)) <= Cardinality(LeadRequest)
         /\ Cardinality(SendingIn(d, a)) + (IF r \in SendingIn(c, a) THEN 1 ELSE 0)
              = Cardinality(SendingIn(c, a)) + (IF r \in SendingIn(d, a) THEN 1 ELSE 0)
         /\ Cardinality(RecordingIn(d)) + (IF r \in RecordingIn(c) THEN 1 ELSE 0)
              = Cardinality(RecordingIn(c)) + (IF r \in RecordingIn(d) THEN 1 ELSE 0)
<1>1. /\ SendingIn(c, a) \in SUBSET LeadRequest /\ SendingIn(d, a) \in SUBSET LeadRequest
      /\ SendingIn(c, a) \ {r} = SendingIn(d, a) \ {r}
  BY DEF SendingIn
<1>2. /\ RecordingIn(c) \in SUBSET LeadRequest /\ RecordingIn(d) \in SUBSET LeadRequest
      /\ RecordingIn(c) \ {r} = RecordingIn(d) \ {r}
  BY DEF RecordingIn
<1>3. Cardinality(RecordingIn(d)) <= Cardinality(LeadRequest) BY <1>2, RequestCount
<1> HIDE DEF SendingIn, RecordingIn
<1> QED BY <1>1, <1>2, <1>3, OneMoves

LEMMA LeadInitHolds == LeadInit => LeadInv
<1> SUFFICES ASSUME LeadInit PROVE LeadInv OBVIOUS
<1>1. NotCapturing \in Capture /\ NotCapturing.pc = "away" /\ NotCapturing.at = 0 BY LeadFacts DEF NotCapturing, Capture
<1>2. LeadTypeOK /\ \A r \in LeadRequest : capture[r].at <= instant
  BY <1>1, LeadFacts DEF LeadInit, LeadTypeOK, Capture
<1>3. ASSUME NEW a PROVE /\ Tally(mailed, Recently(a)) = 0 /\ Tally(window, Recently(a)) = 0
                         /\ Cardinality(SendingIn(capture, a)) = 0 /\ Cardinality(RecordingIn(capture)) = 0
  <2>1. \A t \in Recently(a) : mailed[t] = 0 /\ window[t] = 0 BY DEF LeadInit, Recently
  <2>2. SendingIn(capture, a) = {} /\ RecordingIn(capture) = {} BY <1>1 DEF LeadInit, SendingIn, RecordingIn
  <2>3. Cardinality({}) = 0 BY FS_EmptySet
  <2> QED BY <2>1, <2>2, <2>3, TallyNone
<1>4. faults = 0 BY DEF LeadInit
<1>5. \A a \in Instant : Ledger(capture, window, mailed, faults, a) BY <1>3, <1>4 DEF Ledger
<1>6. Load(capture, mailed, faults, instant) BY <1>3, <1>4, LeadFacts DEF Load
<1> QED BY <1>2, <1>5, <1>6 DEF LeadInv
(* The sets and counts of a step of one submission, as numbers *)
LEMMA LeadSums ==
  ASSUME LeadInv, NEW r \in LeadRequest, NEW a, NEW d, \A q \in LeadRequest : q # r => d[q] = capture[q]
  PROVE  /\ Tally(mailed, Recently(a)) \in Nat /\ Tally(window, Recently(a)) \in Nat /\ faults \in Nat
         /\ Cardinality(SendingIn(capture, a)) \in Nat /\ Cardinality(SendingIn(d, a)) \in Nat
         /\ Cardinality(RecordingIn(capture)) \in Nat /\ Cardinality(RecordingIn(d)) \in Nat
         /\ Cardinality(RecordingIn(d)) <= Cardinality(LeadRequest)
         /\ Cardinality(SendingIn(d, a)) + (IF r \in SendingIn(capture, a) THEN 1 ELSE 0)
              = Cardinality(SendingIn(capture, a)) + (IF r \in SendingIn(d, a) THEN 1 ELSE 0)
         /\ Cardinality(RecordingIn(d)) + (IF r \in RecordingIn(capture) THEN 1 ELSE 0)
              = Cardinality(RecordingIn(capture)) + (IF r \in RecordingIn(d) THEN 1 ELSE 0)
<1>1. mailed \in [Instant -> Nat] /\ window \in [Instant -> Nat] /\ faults \in Nat BY DEF LeadInv, LeadTypeOK
<1>2. Tally(mailed, Recently(a)) \in Nat /\ Tally(window, Recently(a)) \in Nat BY <1>1, RecentlyFinite
<1> QED BY <1>1, <1>2, CaptureMoves

(* A submission that comes in or is refused, and a count that takes away   *)
(* only what is no longer recent                                           *)
LEMMA QuietStep ==
  ASSUME LeadInv, NEW r \in LeadRequest, NEW new \in Capture, new.pc \in {"away", "count"}, new.at <= instant,
         capture[r].pc # "send", capture' = [capture EXCEPT ![r] = new],
         UNCHANGED <<form, instant, mailed, faults>>, window' \in [Instant -> Nat],
         \A a \in Instant : instant <= a => Tally(window', Recently(a)) = Tally(window, Recently(a))
  PROVE  LeadInv'
<1>1. PICK d : d = capture' OBVIOUS
<1>2. \A q \in LeadRequest : d[q] = IF q = r THEN new ELSE capture[q] BY <1>1 DEF LeadInv, LeadTypeOK
<1>3. LeadTypeOK' BY DEF LeadInv, LeadTypeOK, Capture
<1>4. \A q \in LeadRequest : capture'[q].at <= instant' BY <1>1, <1>2 DEF LeadInv
<1>5. ASSUME NEW a PROVE r \notin SendingIn(capture, a) /\ r \notin SendingIn(d, a) /\ r \notin RecordingIn(d)
  BY <1>2 DEF SendingIn, RecordingIn
<1>6. ASSUME NEW a PROVE /\ Cardinality(SendingIn(d, a)) = Cardinality(SendingIn(capture, a))
                         /\ Cardinality(RecordingIn(d)) <= Cardinality(RecordingIn(capture))
  BY <1>2, <1>5, LeadSums
<1>7. ASSUME NEW a \in Instant, instant <= a PROVE Ledger(d, window', mailed, faults, a)
  BY <1>6, <1>7 DEF LeadInv, Ledger
<1>8. Load(d, mailed, faults, instant)
  <2>1. \A q \in LeadRequest : q # r => d[q] = capture[q] BY <1>2
  <2> QED BY <1>6, <2>1, LeadSums, LeadFacts DEF LeadInv, Load
<1> QED BY <1>1, <1>3, <1>4, <1>7, <1>8 DEF LeadInv

(* A window without what is no longer recent for a submission under way    *)
LEMMA RecentKeeps ==
  ASSUME LeadInv, NEW r \in LeadRequest
  PROVE  /\ Recent(r) \in [Instant -> Nat]
         /\ \A a \in Instant : instant <= a => Tally(Recent(r), Recently(a)) = Tally(window, Recently(a))
<1>1. capture[r].at \in Instant /\ capture[r].at <= instant /\ window \in [Instant -> Nat] /\ instant \in Instant
  BY DEF LeadInv, LeadTypeOK
<1>2. Recent(r) = [t \in Instant |-> IF t + LeadWindow <= capture[r].at THEN 0 ELSE window[t]] BY DEF Recent
<1>3. ASSUME NEW a \in Instant, instant <= a, NEW t \in Recently(a) PROVE Recent(r)[t] = window[t]
  <2>1. t \in Instant /\ t + LeadWindow > a BY DEF Recently
  <2>a. t \in Nat /\ a \in Nat /\ capture[r].at \in Nat /\ instant \in Nat /\ LeadWindow \in Nat BY <1>1, <2>1, LeadFacts
  <2>2. ~(t + LeadWindow <= capture[r].at) BY <1>1, <1>3, <2>1, <2>a
  <2> QED BY <1>2, <2>1, <2>2
<1>4. ASSUME NEW a \in Instant, instant <= a PROVE Tally(Recent(r), Recently(a)) = Tally(window, Recently(a))
  BY <1>3, <1>4, TallySame
<1> QED BY <1>1, <1>2, <1>4

LEMMA LeadStepHolds == LeadInv /\ [LeadNext]_leadVars => LeadInv'
<1> SUFFICES ASSUME LeadInv, [LeadNext]_leadVars PROVE LeadInv' OBVIOUS
<1>0. /\ LeadTypeOK /\ instant \in Instant /\ faults \in 0..MaxFaults
      /\ window \in [Instant -> Nat] /\ mailed \in [Instant -> Nat] /\ capture \in [LeadRequest -> Capture]
  BY DEF LeadInv, LeadTypeOK, Capture
<1>a. NotCapturing \in Capture /\ NotCapturing.pc = "away" /\ NotCapturing.at <= instant
  BY <1>0, LeadFacts DEF NotCapturing, Capture
<1>b. ASSUME NEW r \in LeadRequest, NEW new
      PROVE  \A q \in LeadRequest : [capture EXCEPT ![r] = new][q] = IF q = r THEN new ELSE capture[q]
  BY <1>0
<1>1. ASSUME NEW r \in LeadRequest, Submit(r) PROVE LeadInv'
  <2>1. [pc |-> "count", at |-> instant] \in Capture /\ instant <= instant BY <1>0, LeadFacts DEF Capture
  <2>2. PICK new \in Capture : new = [pc |-> "count", at |-> instant] BY <2>1
  <2> QED BY <1>0, <1>1, <2>1, <2>2, QuietStep DEF Submit
<1>2. ASSUME NEW r \in LeadRequest, CountLeads(r) PROVE LeadInv'
  <2>0. capture[r].pc = "count" /\ window' = Recent(r) /\ UNCHANGED <<form, instant, mailed>> BY <1>2 DEF CountLeads
  <2>1. /\ window' \in [Instant -> Nat]
        /\ \A a \in Instant : instant <= a => Tally(window', Recently(a)) = Tally(window, Recently(a))
    BY <2>0, RecentKeeps
  <2> DEFINE new == [capture[r] EXCEPT !.pc = "record"]
  <2>2. new \in Capture /\ new.pc = "record" /\ new.at <= instant BY <1>0 DEF Capture, LeadInv
  <2> HIDE DEF new
  <2>4. CASE capture' = [capture EXCEPT ![r] = NotCapturing] /\ UNCHANGED faults
    BY <1>a, <2>0, <2>1, <2>4, QuietStep
  <2>5. ASSUME capture' = [capture EXCEPT ![r] = new],
               \/ Allows(Tally(Recent(r), Instant)) /\ UNCHANGED faults
               \/ faults < MaxFaults /\ faults' = faults + 1
        PROVE  LeadInv'
    <3>1. PICK d : d = capture' OBVIOUS
    <3>2. \A q \in LeadRequest : d[q] = IF q = r THEN new ELSE capture[q] BY <1>b, <2>5, <3>1
    <3>3. faults' \in 0..MaxFaults /\ faults <= faults' BY <1>0, <2>5, LeadFacts
    <3>4. LeadTypeOK' BY <1>0, <2>0, <2>1, <2>2, <2>5, <3>3 DEF LeadTypeOK, Capture
    <3>5. \A q \in LeadRequest : capture'[q].at <= instant' BY <2>0, <2>2, <3>1, <3>2 DEF LeadInv
    <3>6. ASSUME NEW a PROVE r \notin SendingIn(capture, a) /\ r \notin SendingIn(d, a)
                             /\ r \notin RecordingIn(capture) /\ r \in RecordingIn(d)
      BY <2>0, <2>2, <3>2 DEF SendingIn, RecordingIn
    <3>7. \A q \in LeadRequest : q # r => d[q] = capture[q] BY <3>2
    <3>8. ASSUME NEW a PROVE /\ Cardinality(SendingIn(d, a)) = Cardinality(SendingIn(capture, a))
                             /\ Cardinality(RecordingIn(d)) = Cardinality(RecordingIn(capture)) + 1
      BY <3>6, <3>7, LeadSums
    <3>9. PICK f \in Nat : f = faults' BY <3>3
    <3>10. ASSUME NEW a \in Instant, instant <= a PROVE Ledger(d, window', mailed, f, a)
      <4>1. Ledger(capture, window, mailed, faults, a) BY <3>10 DEF LeadInv
      <4>2. Cardinality(SendingIn(d, a)) = Cardinality(SendingIn(capture, a)) BY <3>8
      <4>3. Tally(window', Recently(a)) = Tally(window, Recently(a)) BY <2>1, <3>10
      <4>4. faults <= f BY <3>3, <3>9
      <4> QED BY <3>7, <4>1, <4>2, <4>3, <4>4, LeadSums DEF Ledger
    <3>11. Load(d, mailed, f, instant)
      <4> DEFINE m == Tally(mailed, Recently(instant))
                 k == Cardinality(SendingIn(capture, instant))
      <4>0. m \in Nat /\ k \in Nat /\ faults \in Nat BY <3>7, LeadSums
      <4>1. CASE faults' = faults + 1
        <5>1. Load(capture, mailed, faults, instant) BY DEF LeadInv
        <5>2. f = faults + 1 BY <3>9, <4>1
        <5> QED BY <3>7, <3>8, <5>1, <5>2, LeadSums, LeadFacts DEF Load
      <4>2. CASE Allows(Tally(Recent(r), Instant)) /\ UNCHANGED faults
        <5>1. Tally(Recent(r), Instant) < LeadLimit BY <4>2 DEF Allows
        <5>2. Recent(r) \in [Instant -> Nat] BY RecentKeeps
        <5>3. PICK some : some = Recent(r) OBVIOUS
        <5>4. IsFiniteSet(Instant) /\ Recently(instant) \subseteq Instant /\ \A t \in Instant : some[t] \in Nat
          BY <5>2, <5>3, LeadFacts DEF Recently
        <5>5. \A t \in Recently(instant) : some[t] \in Nat /\ some[t] <= some[t] BY <5>4
        <5>6. Tally(some, Recently(instant)) <= Tally(some, Instant) BY <5>4, <5>5, TallyMonotone
        <5>7. Tally(some, Instant) \in Nat BY <5>4, EntriesFinite
        <5>8. PICK w \in Nat : w = Tally(window, Recently(instant)) BY <3>7, LeadSums
        <5>9. w < LeadLimit BY <1>0, <5>1, <5>3, <5>6, <5>7, <5>8, RecentKeeps, LeadFacts
        <5>10. m + k <= w + faults BY <1>0, <5>8, LeadFacts DEF LeadInv, Ledger
        <5>11. Cardinality(SendingIn(d, instant)) = k BY <3>8
        <5>12. PICK j \in Nat : j = Cardinality(RecordingIn(d)) BY <3>7, LeadSums
        <5>13. j <= Cardinality(LeadRequest) BY <3>7, <5>12, LeadSums
        <5>14. f = faults BY <3>9, <4>2
        <5>15. m + k + j <= LeadLimit + Cardinality(LeadRequest) - 1 + f
          <6> HIDE DEF m, k
          <6> QED BY <4>0, <5>9, <5>10, <5>13, <5>14, LeadFacts
        <5> QED BY <5>11, <5>12, <5>15 DEF Load
      <4> QED BY <2>5, <4>1, <4>2
    <3> QED BY <2>0, <3>1, <3>4, <3>5, <3>9, <3>10, <3>11 DEF LeadInv
  <2> QED BY <1>2, <2>4, <2>5 DEF CountLeads, new
<1>3. ASSUME NEW r \in LeadRequest, RecordLead(r) PROVE LeadInv'
  <2>0. capture[r].pc = "record" /\ UNCHANGED <<form, instant, mailed>> BY <1>3 DEF RecordLead
  <2> DEFINE new == [capture[r] EXCEPT !.pc = "send"]
  <2>1. new \in Capture /\ new.pc = "send" /\ new.at = capture[r].at /\ new.at <= instant /\ new.at \in Instant
    BY <1>0 DEF Capture, LeadInv
  <2>2. capture' = [capture EXCEPT ![r] = new] BY <1>3 DEF RecordLead
  <2> HIDE DEF new
  <2>3. PICK d : d = capture' OBVIOUS
  <2>4. \A q \in LeadRequest : d[q] = IF q = r THEN new ELSE capture[q] BY <1>b, <2>2, <2>3
  <2>5. \A q \in LeadRequest : q # r => d[q] = capture[q] BY <2>4
  <2>6. \A q \in LeadRequest : capture'[q].at <= instant' BY <2>0, <2>1, <2>3, <2>4 DEF LeadInv
  <2>7. ASSUME NEW a PROVE /\ r \notin SendingIn(capture, a) /\ (r \in SendingIn(d, a) <=> new.at \in Recently(a))
                           /\ r \in RecordingIn(capture) /\ r \notin RecordingIn(d)
    BY <2>0, <2>1, <2>4 DEF SendingIn, RecordingIn
  <2>8. ASSUME NEW a
        PROVE  /\ Cardinality(SendingIn(d, a)) = Cardinality(SendingIn(capture, a)) + (IF new.at \in Recently(a) THEN 1 ELSE 0)
               /\ Cardinality(RecordingIn(d)) + 1 = Cardinality(RecordingIn(capture))
    BY <2>5, <2>7, LeadSums
  <2>9. ASSUME NEW f \in Nat, f = faults' , faults <= f PROVE Load(d, mailed, f, instant')
    <3>1. Load(capture, mailed, faults, instant) BY DEF LeadInv
    <3>2. Load(d, mailed, f, instant) BY <2>5, <2>8, <2>9, <3>1, LeadSums, LeadFacts DEF Load
    <3> QED BY <2>0, <3>2
  <2>10. CASE window' = [window EXCEPT ![capture[r].at] = @ + 1] /\ UNCHANGED faults
    <3>1. PICK w : w = window' OBVIOUS
    <3>2. w = [window EXCEPT ![new.at] = @ + 1] /\ w \in [Instant -> Nat] BY <1>0, <2>1, <2>10, <3>1
    <3>3. LeadTypeOK' BY <1>0, <2>0, <2>1, <2>2, <2>10, <3>1, <3>2 DEF LeadTypeOK, Capture
    <3>4. ASSUME NEW a PROVE Tally(w, Recently(a)) = Tally(window, Recently(a)) + (IF new.at \in Recently(a) THEN 1 ELSE 0)
      <4>1. IsFiniteSet(Recently(a)) /\ Recently(a) \subseteq Instant BY <1>0, RecentlyFinite
      <4>2. \A t \in Recently(a) : window[t] \in Nat /\ w[t] = IF t = new.at THEN window[t] + 1 ELSE window[t]
        BY <1>0, <3>2, <4>1
      <4> QED BY <4>1, <4>2, TallyOneMore
    <3>5. ASSUME NEW a \in Instant, instant <= a PROVE Ledger(d, w, mailed, faults, a)
      <4>1. Ledger(capture, window, mailed, faults, a) BY <3>5 DEF LeadInv
      <4> QED BY <2>5, <2>8, <3>4, <4>1, LeadSums DEF Ledger
    <3>6. faults \in Nat /\ faults <= faults BY <1>0, LeadFacts
    <3> QED BY <2>0, <2>3, <2>6, <2>9, <2>10, <3>1, <3>3, <3>5, <3>6 DEF LeadInv
  <2>11. CASE faults < MaxFaults /\ faults' = faults + 1 /\ UNCHANGED window
    <3>1. PICK f \in Nat : f = faults' /\ f = faults + 1 /\ f \in 0..MaxFaults BY <1>0, <2>11, LeadFacts
    <3>2. LeadTypeOK' BY <1>0, <2>0, <2>1, <2>2, <2>11, <3>1 DEF LeadTypeOK, Capture
    <3>3. ASSUME NEW a \in Instant, instant <= a PROVE Ledger(d, window, mailed, f, a)
      <4>1. Ledger(capture, window, mailed, faults, a) BY <3>3 DEF LeadInv
      <4> QED BY <2>5, <2>8, <3>1, <4>1, LeadSums DEF Ledger
    <3>4. faults <= f BY <1>0, <3>1, LeadFacts
    <3> QED BY <2>0, <2>3, <2>6, <2>9, <2>11, <3>1, <3>2, <3>3, <3>4 DEF LeadInv
  <2> QED BY <1>3, <2>10, <2>11 DEF RecordLead
<1>4. ASSUME NEW r \in LeadRequest, RefuseLead(r) PROVE LeadInv'
  BY <1>0, <1>4, <1>a, QuietStep DEF RefuseLead
<1>5. ASSUME NEW r \in LeadRequest, Mail(r) PROVE LeadInv'
  <2>0. /\ capture[r].pc = "send" /\ UNCHANGED <<form, instant, window, faults>>
        /\ capture' = [capture EXCEPT ![r] = NotCapturing] /\ mailed' = [mailed EXCEPT ![capture[r].at] = @ + 1]
    BY <1>5 DEF Mail
  <2>1. PICK at \in Instant : at = capture[r].at BY <1>0 DEF Capture
  <2>2. PICK m : m = mailed' OBVIOUS
  <2>3. m = [mailed EXCEPT ![at] = @ + 1] /\ m \in [Instant -> Nat] BY <1>0, <2>0, <2>1, <2>2
  <2>4. PICK d : d = capture' OBVIOUS
  <2>5. \A q \in LeadRequest : d[q] = IF q = r THEN NotCapturing ELSE capture[q] BY <1>b, <2>0, <2>4
  <2>6. \A q \in LeadRequest : q # r => d[q] = capture[q] BY <2>5
  <2>7. LeadTypeOK' BY <1>0, <1>a, <2>0, <2>2, <2>3 DEF LeadTypeOK, Capture
  <2>8. \A q \in LeadRequest : capture'[q].at <= instant' BY <1>a, <2>0, <2>4, <2>5 DEF LeadInv
  <2>9. ASSUME NEW a PROVE /\ r \notin SendingIn(d, a) /\ (r \in SendingIn(capture, a) <=> at \in Recently(a))
                           /\ r \notin RecordingIn(capture) /\ r \notin RecordingIn(d)
    BY <1>a, <2>0, <2>1, <2>5 DEF SendingIn, RecordingIn
  <2>10. ASSUME NEW a PROVE Tally(m, Recently(a)) = Tally(mailed, Recently(a)) + (IF at \in Recently(a) THEN 1 ELSE 0)
    <3>1. IsFiniteSet(Recently(a)) /\ Recently(a) \subseteq Instant BY <1>0, RecentlyFinite
    <3>2. \A t \in Recently(a) : mailed[t] \in Nat /\ m[t] = IF t = at THEN mailed[t] + 1 ELSE mailed[t]
      BY <1>0, <2>3, <3>1
    <3> QED BY <3>1, <3>2, TallyOneMore
  <2>11. ASSUME NEW a PROVE /\ Tally(m, Recently(a)) + Cardinality(SendingIn(d, a))
                                = Tally(mailed, Recently(a)) + Cardinality(SendingIn(capture, a))
                            /\ Cardinality(RecordingIn(d)) = Cardinality(RecordingIn(capture))
    BY <2>6, <2>9, <2>10, LeadSums
  <2>12. ASSUME NEW a \in Instant, instant <= a PROVE Ledger(d, window, m, faults, a)
    BY <2>11, <2>12 DEF Ledger, LeadInv
  <2>13. Load(d, m, faults, instant) BY <2>11 DEF Load, LeadInv
  <2> QED BY <2>0, <2>2, <2>4, <2>7, <2>8, <2>12, <2>13 DEF LeadInv
<1>6. ASSUME Wait PROVE LeadInv'
  <2>0. instant < LastInstant /\ instant' = instant + 1 /\ UNCHANGED <<form, window, capture, mailed, faults>>
    BY <1>6 DEF Wait
  <2>1. PICK next \in Instant : next = instant' /\ next = instant + 1 BY <1>0, <2>0, LeadFacts DEF Instant
  <2>2. LeadTypeOK' BY <1>0, <2>0, <2>1 DEF LeadTypeOK
  <2>3. instant \in Nat /\ next \in Nat /\ instant <= next BY <1>0, <2>1, LeadFacts
  <2>4. ASSUME NEW q \in LeadRequest PROVE capture'[q].at <= instant'
    <3>1. capture[q].at \in Nat /\ capture[q].at <= instant BY <1>0, LeadFacts DEF LeadInv, Capture
    <3> QED BY <2>0, <2>1, <2>3, <3>1
  <2>5. \A a \in Instant : next <= a => Ledger(capture, window, mailed, faults, a) BY <2>1, <2>3, LeadFacts DEF LeadInv
  <2>6. Load(capture, mailed, faults, next)
    <3>a. \A t \in Instant : t \in Nat /\ (t + LeadWindow > next => t + LeadWindow > instant) BY <2>3, LeadFacts
    <3>1. Recently(next) \subseteq Recently(instant) BY <3>a DEF Recently
    <3>b. IsFiniteSet(Recently(instant)) /\ Recently(instant) \subseteq Instant BY <1>0, RecentlyFinite
    <3>c. \A t \in Recently(instant) : mailed[t] \in Nat BY <1>0, <3>b
    <3>2. IsFiniteSet(Recently(instant)) /\ \A t \in Recently(instant) : mailed[t] \in Nat /\ mailed[t] <= mailed[t]
      BY <3>b, <3>c
    <3>3. Tally(mailed, Recently(next)) <= Tally(mailed, Recently(instant)) BY <3>1, <3>2, TallyMonotone
    <3>4. SendingIn(capture, next) \in SUBSET SendingIn(capture, instant) BY <3>1 DEF SendingIn
    <3>5. SendingIn(capture, instant) \in SUBSET LeadRequest /\ RecordingIn(capture) \in SUBSET LeadRequest
      BY DEF SendingIn, RecordingIn
    <3>6. Cardinality(SendingIn(capture, next)) <= Cardinality(SendingIn(capture, instant))
      BY <3>4, <3>5, RequestCount, FS_Subset
    <3>7. /\ Cardinality(SendingIn(capture, next)) \in Nat /\ Cardinality(SendingIn(capture, instant)) \in Nat
          /\ Cardinality(RecordingIn(capture)) \in Nat
      BY <3>4, <3>5, RequestCount
    <3>8. Tally(mailed, Recently(next)) \in Nat /\ Tally(mailed, Recently(instant)) \in Nat BY <1>0, RecentlyFinite
    <3>9. Load(capture, mailed, faults, instant) /\ faults \in Nat BY <1>0, LeadFacts DEF LeadInv
    <3> QED BY <3>3, <3>6, <3>7, <3>8, <3>9, LeadFacts DEF Load
  <2> QED BY <2>0, <2>1, <2>2, <2>4, <2>5, <2>6 DEF LeadInv
<1>7. CASE UNCHANGED leadVars BY <1>7 DEF leadVars, LeadInv, LeadTypeOK
<1> QED BY <1>1, <1>2, <1>3, <1>4, <1>5, <1>6, <1>7 DEF LeadNext, MailDemo, MailNewsletter

(* Types, and what the window holds of what is mailed about, in every      *)
(* reachable state (leads.routes.ts)                                       *)
THEOREM LeadInvariance == LeadSpec => []LeadInv
<1>1. LeadInit => LeadInv BY LeadInitHolds
<1>2. LeadInv /\ [LeadNext]_leadVars => LeadInv' BY LeadStepHolds
<1> QED BY <1>1, <1>2, PTL DEF LeadSpec

LEMMA LeadInvIsBound == LeadInv => LeadsBounded
<1> SUFFICES ASSUME LeadInv
             PROVE  Tally(mailed, Recently(instant)) <= LeadLimit + Cardinality(LeadRequest) - 1 + faults
  BY DEF LeadsBounded, Recently
<1>1. SendingIn(capture, instant) \in SUBSET LeadRequest /\ RecordingIn(capture) \in SUBSET LeadRequest
  BY DEF SendingIn, RecordingIn
<1>2. Cardinality(SendingIn(capture, instant)) \in Nat /\ Cardinality(RecordingIn(capture)) \in Nat
  BY <1>1, RequestCount
<1>3. mailed \in [Instant -> Nat] /\ faults \in Nat BY DEF LeadInv, LeadTypeOK
<1>4. Tally(mailed, Recently(instant)) \in Nat BY <1>3, RecentlyFinite
<1>5. Load(capture, mailed, faults, instant) BY DEF LeadInv
<1> QED BY <1>2, <1>3, <1>4, <1>5, LeadFacts DEF Load

(* A form mails about one email at most LEADS_RATE_LIMIT times within the  *)
(* window, but for the other submissions under way and the commands that   *)
(* failed unseen (leads.routes.ts:50-80), for any limit and window, any    *)
(* number of submissions and whatever the order of their pipelines.        *)
THEOREM LeadsAreBounded == LeadSpec => []LeadsBounded
BY LeadInvariance, LeadInvIsBound, PTL

(* Both windows at once: the tiers and the lead forms, each with its own   *)
(* pipelines, admit no more than their limits and what is under way.       *)
THEOREM WindowsAreBounded == LimitSpec /\ LeadSpec => []WindowsBounded
<1>1. RateBounded /\ LeadsBounded => WindowsBounded
  BY DEF WindowsBounded
<1> QED BY RateIsBounded, LeadsAreBounded, <1>1, PTL
=============================================================================
