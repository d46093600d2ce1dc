----------------------------- MODULE CortexProofs -----------------------------
(***************************************************************************)
(* Proofs about the Cortex: the jobs of its events (CortexEvents), the     *)
(* runs of its agents (CortexEngine) and the decisions on what they ask    *)
(* (CortexApprovals), for any number of events, workers, runs, tools and   *)
(* reviewers.                                                              *)
(***************************************************************************)
EXTENDS CortexEvents, CortexEngine, CortexApprovals, FiniteSetTheorems, SequenceTheorems, TLAPS

(* Acting on an event *)

(* The deliveries of an event that may still start an agent: the one to    *)
(* come, and those whose worker has loaded nothing yet, whoever holds the  *)
(* job's lock by now.                                                      *)
Loading(e) == {w \in CortexWorker : worker[w].pc = "load" /\ worker[w].event = e}
ToCome(e) == IF job[e].state \in {"absent", "waiting"} THEN 1 ELSE 0
Deliveries(e) == Cardinality(Loading(e)) + ToCome(e)

(* A stall adds a delivery and an attempt that throws replaces one that    *)
(* has not acted.  A job that is not over has an attempt left, and none    *)
(* was queued before its event was stored.                                 *)
EInv ==
  /\ EventTypeOK
  /\ \A e \in Event : emission[e] # "over" => job[e].state = "absent"
  /\ \A e \in Event : job[e].owner # {} \/ job[e].state \in {"absent", "waiting", "active"}
                        => job[e].tries < EventAttempts
  /\ \A e \in Event : job[e].owner # {} => job[e].state = "active"
  /\ \A e \in Event : acted[e] + Deliveries(e) <= 1 + job[e].stalls

LEMMA LoadingFinite ==
  ASSUME NEW e
  PROVE  IsFiniteSet(Loading(e)) /\ Cardinality(Loading(e)) \in Nat
BY FS_Subset, FS_CardinalityType, EventAssumption DEF Loading

LEMMA LoadingAfter ==
  /\ IsFiniteSet(CortexWorker)
  /\ \A e : IsFiniteSet(Loading(e)') /\ Cardinality(Loading(e)') \in Nat
<1>1. \A e : Loading(e)' \subseteq CortexWorker
  BY DEF Loading
<1> QED BY <1>1, FS_Subset, FS_CardinalityType, EventAssumption

LEMMA EventInitInv == EventInit => EInv
<1> SUFFICES ASSUME EventInit PROVE EInv
  OBVIOUS
<1>1. EventTypeOK
  BY EventAssumption DEF EventInit, EventTypeOK, JobState
<1>2. \A e \in Event : Loading(e) = {}
  BY DEF EventInit, Loading, Free
<1>3. Cardinality({}) = 0
  BY FS_EmptySet
<1>4. \A e \in Event : Deliveries(e) = 1
  <2> TAKE e \in Event
  <2>1. job[e].state = "absent"
    BY DEF EventInit
  <2>2. ToCome(e) = 1
    BY <2>1 DEF ToCome
  <2> QED BY <1>2, <1>3, <2>2 DEF Deliveries
<1> QED BY <1>1, <1>4, EventAssumption DEF EventInit, EInv

(* A worker that leaves "load" leaves the deliveries of its event, and     *)
(* those of no other one change.                                           *)
LEMMA LeavesLoading ==
  ASSUME EventTypeOK, NEW w \in CortexWorker, worker[w].pc = "load",
         NEW new, worker' = [worker EXCEPT ![w] = new], new.pc # "load"
  PROVE  /\ worker[w].event \in Event
         /\ \A e \in Event : Cardinality(Loading(e)') =
              IF e = worker[w].event THEN Cardinality(Loading(e)) - 1 ELSE Cardinality(Loading(e))
<1>1. worker[w].event \in Event
  BY DEF EventTypeOK, Free
<1>2. \A e \in Event : Loading(e)' = Loading(e) \ {w}
  BY DEF Loading, EventTypeOK
<1>3. \A e \in Event : w \in Loading(e) <=> e = worker[w].event
  BY DEF Loading
<1>4. \A e \in Event : Cardinality(Loading(e) \ {w}) =
        IF w \in Loading(e) THEN Cardinality(Loading(e)) - 1 ELSE Cardinality(Loading(e))
  BY LoadingFinite, FS_RemoveElement
<1> QED BY <1>1, <1>2, <1>3, <1>4

(* The job a worker resolves: of its event only, and if it holds the lock. *)
LEMMA Resolved ==
  ASSUME EInv, NEW w \in CortexWorker, worker[w].event \in Event, worker[w] # Free,
         Throw(w) \/ Return(w)
  PROVE  /\ job' \in [Event -> JobState]
         /\ \A e \in Event : e # worker[w].event => job'[e] = job[e]
         /\ \A e \in Event :
              /\ job'[e].stalls = job[e].stalls
              /\ job'[e].state = "absent" => job[e].state = "absent"
              /\ job'[e].owner # {} => job'[e].state = "active"
              /\ job'[e].state \in {"absent", "waiting"} /\ job[e].state \notin {"absent", "waiting"}
                   => w \in job[e].owner /\ job'[e].state = "waiting"
              /\ job[e].state = "absent" => job'[e].state = "absent"
              /\ job'[e].owner # {} \/ job'[e].state \in {"absent", "waiting", "active"}
                   => job'[e].tries < EventAttempts
<1> DEFINE e == worker[w].event
<1>1. PICK state \in {"waiting", "failed", "completed"}, tries \in Nat :
        /\ Resolve(w, state, tries)
        /\ w \in job[e].owner => tries <= EventAttempts /\ (state = "waiting" => tries < EventAttempts)
  <2>1. job[e].tries \in Nat /\ (w \in job[e].owner => job[e].tries < EventAttempts)
    BY DEF EInv, EventTypeOK, JobState
  <2>2. CASE Throw(w)
    BY <2>1, <2>2, EventAssumption DEF Throw
  <2>3. CASE Return(w)
    BY <2>1, <2>3, EventAssumption DEF Return
  <2> QED BY <2>2, <2>3
<1>2. job \in [Event -> JobState] /\ EventAttempts \in Nat
  BY EventAssumption DEF EInv, EventTypeOK
<1>3. \A d \in Event : /\ job[d].owner # {} => job[d].state = "active"
                       /\ job[d].owner # {} \/ job[d].state \in {"absent", "waiting", "active"}
                            => job[d].tries < EventAttempts
  BY DEF EInv
<1>4. CASE w \notin job[e].owner
  <2>1. job' = job
    BY <1>1, <1>4 DEF Resolve
  <2> QED BY <1>2, <1>3, <2>1
<1>5. CASE w \in job[e].owner
  <2>1. /\ job' = [job EXCEPT ![e].owner = {}, ![e].state = state, ![e].tries = tries]
        /\ tries \in 0..EventAttempts
        /\ state = "waiting" => tries < EventAttempts
    BY <1>1, <1>2, <1>5 DEF Resolve
  <2>2. \A d \in Event : d # e => job'[d] = job[d]
    BY <1>2, <2>1
  <2>3. job'[e] = [job[e] EXCEPT !.owner = {}, !.state = state, !.tries = tries] /\ job[e] \in JobState
    BY <1>2, <2>1
  <2>4. /\ job'[e].stalls = job[e].stalls /\ job'[e].owner = {}
        /\ job'[e].state = state /\ job'[e].tries = tries
    BY <2>3 DEF JobState
  <2>5. job'[e] \in JobState
    <3>1. state \in {"absent", "waiting", "active", "completed", "failed"} /\ tries \in 0..EventAttempts
      BY <1>1, <2>1
    <3>2. {} \in SUBSET CortexWorker
      OBVIOUS
    <3>3. job'[e] = [state |-> state, owner |-> {}, tries |-> tries, stalls |-> job[e].stalls]
          /\ job[e].stalls \in 0..EventStalls
      BY <2>3 DEF JobState
    <3> QED BY <3>1, <3>2, <3>3 DEF JobState
  <2>6. job' \in [Event -> JobState]
    BY <1>2, <2>1, <2>5
  <2>7. job[e].state = "active"
    BY <1>3, <1>5
  <2>8. ASSUME NEW d \in Event
        PROVE  /\ job'[d].stalls = job[d].stalls
               /\ job'[d].state = "absent" => job[d].state = "absent"
               /\ job'[d].owner # {} => job'[d].state = "active"
               /\ job'[d].state \in {"absent", "waiting"} /\ job[d].state \notin {"absent", "waiting"}
                    => w \in job[d].owner /\ job'[d].state = "waiting"
               /\ job[d].state = "absent" => job'[d].state = "absent"
               /\ job'[d].owner # {} \/ job'[d].state \in {"absent", "waiting", "active"}
                    => job'[d].tries < EventAttempts
    <3>1. CASE d = e
      BY <1>1, <1>5, <2>1, <2>4, <2>7, <3>1
    <3>2. CASE d # e
      BY <1>3, <2>2, <3>2
    <3> QED BY <3>1, <3>2
  <2> QED BY <2>2, <2>6, <2>8
<1> QED BY <1>4, <1>5

(* The job a worker that left "load" resolved: the delivery it gives up is *)
(* at most replaced.                                                       *)
LEMMA GivesUp ==
  ASSUME EInv, NEW w \in CortexWorker, worker[w].pc = "load",
         worker' = [worker EXCEPT ![w] = Free], Throw(w) \/ Return(w) \/ UNCHANGED job,
         UNCHANGED acted
  PROVE  \A e \in Event : acted'[e] + Deliveries(e)' <= 1 + job'[e].stalls
<1>1. worker[w] # Free /\ Free.pc # "load" /\ EventTypeOK
  BY DEF Free, EInv
<1>2. /\ worker[w].event \in Event
      /\ \A e \in Event : Cardinality(Loading(e)') =
              IF e = worker[w].event THEN Cardinality(Loading(e)) - 1 ELSE Cardinality(Loading(e))
  BY <1>1, LeavesLoading
<1> SUFFICES ASSUME NEW e \in Event PROVE acted'[e] + Deliveries(e)' <= 1 + job'[e].stalls
  OBVIOUS
<1>3. Cardinality(Loading(e)) \in Nat /\ acted[e] \in Nat /\ job[e].stalls \in Nat
  BY LoadingFinite, EventAssumption DEF EInv, EventTypeOK, JobState
<1>4. acted[e] + (Cardinality(Loading(e)) + ToCome(e)) <= 1 + job[e].stalls
  BY DEF EInv, Deliveries
<1>5. job'[e].stalls = job[e].stalls /\ (e # worker[w].event => job'[e] = job[e])
  BY <1>1, <1>2, Resolved
<1>6. ToCome(e)' \in {0, 1} /\ ToCome(e) \in {0, 1} /\ (e # worker[w].event => ToCome(e)' = ToCome(e))
  BY <1>5 DEF ToCome
<1>7. acted'[e] + (Cardinality(Loading(e)') + ToCome(e)') <= 1 + job'[e].stalls
  BY <1>2, <1>3, <1>4, <1>5, <1>6
<1> QED BY <1>7 DEF Deliveries

(* The same when it has acted and is about to mark the row.                *)
LEMMA HasActed ==
  ASSUME EInv, NEW w \in CortexWorker, worker[w].pc \in {"running", "mark"},
         NEW new, worker' = [worker EXCEPT ![w] = new], new.pc # "load", UNCHANGED acted,
         NEW e \in Event, job'[e].stalls = job[e].stalls,
         job'[e].state \in {"absent", "waiting"} => job[e].state \in {"absent", "waiting"}
  PROVE  acted'[e] + Deliveries(e)' <= 1 + job'[e].stalls
<1>1. Loading(e)' = Loading(e)
  BY DEF Loading, EInv, EventTypeOK
<1>2. Cardinality(Loading(e)) \in Nat /\ acted[e] \in Nat /\ job[e].stalls \in Nat
  BY LoadingFinite, EventAssumption DEF EInv, EventTypeOK, JobState
<1>3. acted[e] + (Cardinality(Loading(e)) + ToCome(e)) <= 1 + job[e].stalls
  BY DEF EInv, Deliveries
<1>4. ToCome(e)' <= ToCome(e) /\ ToCome(e) \in Nat /\ ToCome(e)' \in Nat
  BY DEF ToCome
<1> QED BY <1>1, <1>2, <1>3, <1>4 DEF Deliveries

LEMMA EventStepInv == EInv /\ [EventNext]_eventVars => EInv'
<1> SUFFICES ASSUME EInv, [EventNext]_eventVars PROVE EInv'
  OBVIOUS
<1> USE EventAssumption
<1>0. /\ EventTypeOK
      /\ \A e \in Event : /\ acted[e] \in Nat /\ job[e].stalls \in Nat /\ job[e] \in JobState
                          /\ Cardinality(Loading(e)) \in Nat /\ ToCome(e) \in {0, 1}
                          /\ acted[e] + (Cardinality(Loading(e)) + ToCome(e)) <= 1 + job[e].stalls
                          /\ emission[e] # "over" => job[e].state = "absent"
                          /\ job[e].owner # {} \/ job[e].state \in {"absent", "waiting", "active"}
                               => job[e].tries < EventAttempts
                          /\ job[e].owner # {} => job[e].state = "active"
  BY LoadingFinite DEF EInv, EventTypeOK, JobState, Deliveries, ToCome
<1>1. CASE UNCHANGED eventVars
  <2>1. \A e : Loading(e)' = Loading(e)
    BY <1>1 DEF eventVars, Loading
  <2> QED BY <1>0, <1>1, <2>1 DEF eventVars, EInv, EventTypeOK, Deliveries, ToCome
<1>2. ASSUME NEW e \in Event, StoreEvent(e) \/ QueueEvent(e) PROVE EInv'
  <2>1. \A f : Loading(f)' = Loading(f)
    BY <1>2 DEF StoreEvent, QueueEvent, Loading
  <2>2. \A f \in Event : /\ job'[f].stalls = job[f].stalls /\ job'[f].owner = job[f].owner
                         /\ job'[f].tries = job[f].tries
                         /\ job'[f].state # job[f].state => job[f].state = "absent" /\ job'[f].state = "waiting"
                         /\ job'[f].state # job[f].state => emission'[f] = "over"
                         /\ emission'[f] # "over" => emission[f] # "over"
    <3>1. CASE StoreEvent(e)
      BY <1>0, <3>1 DEF StoreEvent, EventTypeOK
    <3>2. CASE QueueEvent(e)
      <4>1. emission' = [emission EXCEPT ![e] = "over"] /\ job[e].state = "absent"
            /\ job' \in {job, [job EXCEPT ![e].state = "waiting"]}
        BY <1>0, <3>2 DEF QueueEvent
      <4> QED BY <1>0, <4>1 DEF EventTypeOK, JobState
    <3> QED BY <1>2, <3>1, <3>2
  <2>3. EventTypeOK'
    <3>1. job' \in [Event -> JobState]
      <4>1. \A new \in JobState : [new EXCEPT !.state = "waiting"] \in JobState
        BY DEF JobState
      <4>2. job' \in {job, [job EXCEPT ![e] = [job[e] EXCEPT !.state = "waiting"]]}
        BY <1>2 DEF StoreEvent, QueueEvent
      <4> QED BY <1>0, <4>1, <4>2 DEF EventTypeOK
    <3> QED BY <1>0, <1>2, <3>1 DEF StoreEvent, QueueEvent, EventTypeOK
  <2>4. \A f \in Event : ToCome(f)' = ToCome(f)
    BY <2>2 DEF ToCome
  <2>5. UNCHANGED acted
    BY <1>2 DEF StoreEvent, QueueEvent
  <2> QED BY <1>0, <2>1, <2>2, <2>3, <2>4, <2>5 DEF EInv, Deliveries
<1>3. ASSUME NEW e \in Event, StallJob(e) PROVE EInv'
  <2>1. \A f : Loading(f)' = Loading(f)
    BY <1>3 DEF StallJob, Loading
  <2>2. EventTypeOK'
    BY <1>0, <1>3 DEF StallJob, EventTypeOK, JobState
  <2>3. \A f \in Event : ToCome(f)' + job[f].stalls <= ToCome(f) + job'[f].stalls /\ ToCome(f)' \in Nat
                         /\ job'[f].stalls \in Nat
    BY <1>0, <1>3 DEF StallJob, JobState, EventTypeOK, ToCome
  <2>4. \A f \in Event : /\ emission'[f] # "over" => job'[f].state = "absent"
                         /\ job'[f].owner # {} \/ job'[f].state \in {"absent", "waiting", "active"}
                               => job'[f].tries < EventAttempts
                         /\ job'[f].owner # {} => job'[f].state = "active"
    BY <1>0, <1>3 DEF StallJob, JobState, EventTypeOK
  <2>5. UNCHANGED acted
    BY <1>3 DEF StallJob
  <2> QED BY <1>0, <2>1, <2>2, <2>3, <2>4, <2>5 DEF EInv, Deliveries
<1>4. ASSUME NEW w \in CortexWorker, NEW e \in Event, TakeJob(w, e) PROVE EInv'
  <2>1. /\ Loading(e)' = Loading(e) \cup {w} /\ w \notin Loading(e)
        /\ \A f \in Event : f # e => Loading(f)' = Loading(f)
    BY <1>0, <1>4 DEF TakeJob, Loading, EventTypeOK, Free
  <2>2. \A f \in Event : Cardinality(Loading(f)') =
          IF f = e THEN Cardinality(Loading(f)) + 1 ELSE Cardinality(Loading(f))
    BY <2>1, LoadingFinite, FS_AddElement
  <2>3. EventTypeOK'
    <3>1. [job[e] EXCEPT !.state = "active", !.owner = {w}] \in JobState
      BY <1>0 DEF JobState
    <3>2. job' \in [Event -> JobState]
      BY <1>0, <1>4, <3>1 DEF TakeJob, EventTypeOK
    <3> QED BY <1>0, <1>4, <3>2 DEF TakeJob, EventTypeOK
  <2>4. \A f \in Event : /\ emission'[f] # "over" => job'[f].state = "absent"
                         /\ job'[f].owner # {} \/ job'[f].state \in {"absent", "waiting", "active"}
                               => job'[f].tries < EventAttempts
                         /\ job'[f].owner # {} => job'[f].state = "active"
                         /\ job'[f].stalls = job[f].stalls
                         /\ ToCome(f)' = IF f = e THEN ToCome(f) - 1 ELSE ToCome(f)
    <3>1. /\ job[e].state = "waiting" /\ UNCHANGED emission
          /\ job' = [job EXCEPT ![e] = [job[e] EXCEPT !.state = "active", !.owner = {w}]]
      BY <1>0, <1>4 DEF TakeJob, EventTypeOK
    <3>2. /\ \A f \in Event : f # e => job'[f] = job[f]
          /\ job'[e].state = "active" /\ job'[e].tries = job[e].tries /\ job'[e].stalls = job[e].stalls
      BY <1>0, <3>1 DEF EventTypeOK, JobState
    <3> QED BY <1>0, <3>1, <3>2 DEF ToCome
  <2>5. UNCHANGED acted
    BY <1>4 DEF TakeJob
  <2> QED BY <1>0, <2>2, <2>3, <2>4, <2>5 DEF EInv, Deliveries
<1>5. ASSUME NEW w \in CortexWorker, RunAgent(w) PROVE EInv'
  <2> DEFINE new == [worker[w] EXCEPT !.pc = "running"]
  <2>1. worker[w].pc = "load" /\ worker' = [worker EXCEPT ![w] = new] /\ new.pc # "load"
    BY <1>0, <1>5 DEF RunAgent, Goes, EventTypeOK, Free
  <2>2. /\ worker[w].event \in Event
        /\ \A e \in Event : Cardinality(Loading(e)') =
              IF e = worker[w].event THEN Cardinality(Loading(e)) - 1 ELSE Cardinality(Loading(e))
    BY <1>0, <2>1, LeavesLoading
  <2>3. EventTypeOK'
    BY <1>0, <1>5 DEF RunAgent, Goes, EventTypeOK, Free
  <2>4. \A e \in Event : acted'[e] = IF e = worker[w].event THEN acted[e] + 1 ELSE acted[e]
    BY <1>0, <1>5 DEF RunAgent, EventTypeOK
  <2>5. UNCHANGED <<job, emission>> /\ \A e : ToCome(e)' = ToCome(e)
    BY <1>5 DEF RunAgent, ToCome
  <2> QED BY <1>0, <2>2, <2>3, <2>4, <2>5 DEF EInv, Deliveries
<1>6. ASSUME NEW w \in CortexWorker, NoHandler(w) PROVE EInv'
  <2> DEFINE new == [worker[w] EXCEPT !.pc = "mark"]
  <2>1. worker[w].pc = "load" /\ worker' = [worker EXCEPT ![w] = new] /\ new.pc # "load"
    BY <1>0, <1>6 DEF NoHandler, Goes, EventTypeOK, Free
  <2>2. /\ worker[w].event \in Event
        /\ \A e \in Event : Cardinality(Loading(e)') =
              IF e = worker[w].event THEN Cardinality(Loading(e)) - 1 ELSE Cardinality(Loading(e))
    BY <1>0, <2>1, LeavesLoading
  <2>3. EventTypeOK'
    BY <1>0, <1>6 DEF NoHandler, Goes, EventTypeOK, Free
  <2>4. UNCHANGED <<job, emission, acted>> /\ \A e : ToCome(e)' = ToCome(e)
    BY <1>6 DEF NoHandler, ToCome
  <2> QED BY <1>0, <2>2, <2>3, <2>4 DEF EInv, Deliveries
<1>7. ASSUME NEW w \in CortexWorker, AgentDone(w) PROVE EInv'
  <2>1. \A e : Loading(e)' = Loading(e)
    BY <1>0, <1>7 DEF AgentDone, Goes, EventTypeOK, Loading
  <2>2. EventTypeOK'
    BY <1>0, <1>7 DEF AgentDone, Goes, EventTypeOK, Free
  <2> QED BY <1>0, <1>7, <2>1, <2>2 DEF AgentDone, EInv, Deliveries, ToCome
<1>8. ASSUME NEW w \in CortexWorker, DropEvent(w) \/ MarkProcessed(w) PROVE EInv'
  <2>1. /\ worker[w] # Free /\ worker[w].event \in Event /\ (Throw(w) \/ Return(w))
        /\ worker' = [worker EXCEPT ![w] = Free] /\ UNCHANGED <<emission, acted>>
        /\ row' \in [Event -> {"absent", "new", "processed"}]
        /\ worker[w].pc = "load" \/ (worker[w].pc = "mark" /\ Return(w))
    BY <1>0, <1>8 DEF DropEvent, MarkProcessed, EventTypeOK, Free
  <2>2. /\ job' \in [Event -> JobState]
        /\ \A e \in Event :
              /\ job'[e].stalls = job[e].stalls
              /\ job'[e].owner # {} => job'[e].state = "active"
              /\ job[e].state = "absent" => job'[e].state = "absent"
              /\ job'[e].owner # {} \/ job'[e].state \in {"absent", "waiting", "active"}
                   => job'[e].tries < EventAttempts
    BY <2>1, Resolved
  <2>3. EventTypeOK'
    BY <1>0, <2>1, <2>2 DEF EventTypeOK
  <2>4. \A e \in Event : acted'[e] + Deliveries(e)' <= 1 + job'[e].stalls
    <3>1. CASE worker[w].pc = "load"
      BY <2>1, <3>1, GivesUp
    <3>2. CASE worker[w].pc = "mark" /\ Return(w)
      <4>1. \A e \in Event : job'[e].state \in {"absent", "waiting"} => job[e].state \in {"absent", "waiting"}
        BY <1>0, <3>2, <2>1 DEF Return, Resolve, JobState, EventTypeOK
      <4>2. Free.pc # "load"
        BY DEF Free
      <4> QED BY <2>1, <2>2, <3>2, <4>1, <4>2, HasActed
    <3> QED BY <2>1, <3>1, <3>2
  <2> QED BY <1>0, <2>1, <2>2, <2>3, <2>4 DEF EInv
<1>9. ASSUME NEW w \in CortexWorker, WorkerLost(w) PROVE EInv'
  <2>1. EventTypeOK' /\ worker' = [worker EXCEPT ![w] = Free] /\ UNCHANGED <<job, acted, emission>>
    BY <1>0, <1>9 DEF WorkerLost, EventTypeOK
  <2>2. worker[w].pc \in {"load", "running", "mark"} /\ Free.pc # "load"
    BY <1>0, <1>9 DEF WorkerLost, EventTypeOK, Free
  <2>3. \A e \in Event : acted'[e] + Deliveries(e)' <= 1 + job'[e].stalls
    BY <2>1, <2>2, GivesUp, HasActed
  <2> QED BY <1>0, <2>1, <2>3 DEF EInv
<1> QED BY <1>1, <1>2, <1>3, <1>4, <1>5, <1>6, <1>7, <1>8, <1>9 DEF EventNext, ProcessorStep

(* The invariant holds in every state of the events. *)
LEMMA EventInvariance == EventSpec => []EInv
BY EventInitInv, EventStepInv, PTL DEF EventSpec

(* An agent acts on an event once more than its job was taken from a       *)
(* worker at most, for any number of workers, attempts, stalls, lost       *)
(* processes and rows that could not be marked (events/processor.ts:80).   *)
THEOREM ActsAreBounded == EventSpec => []ActsBounded
<1>1. EInv => ActsBounded
  <2> SUFFICES ASSUME EInv, NEW e \in Event PROVE acted[e] <= 1 + job[e].stalls
    BY DEF ActsBounded
  <2>1. Deliveries(e) \in Nat
    BY LoadingFinite DEF Deliveries, ToCome
  <2> QED BY <2>1, EventAssumption DEF EInv, EventTypeOK, JobState
<1> QED BY <1>1, EventInvariance, PTL

-----------------------------------------------------------------------------
(* The runs of the agents *)

(* Calls to the model a run may still make that count against the quota    *)
(* without another check; one pair for each.                               *)
Left(n) ==
  CASE n.pc \in {"call", "tools"} -> MaxIterations - n.iterations
    [] n.pc = "assist" -> 1
    [] OTHER -> 0
Allowed == {c \in Run \X (1..MaxIterations) : c[2] <= Left(run[c[1]])}
AllCalls == Cardinality(Run) * MaxIterations

Quota == queries + Cardinality(Allowed) < QueryLimit + AllCalls

(* A run works at a level the plan had when it was clamped, and remembers  *)
(* the highest ceiling since it began.                                     *)
Clamped(n) ==
  /\ n.pc \in {"load", "clamp", "gate", "call", "tools"} => ceiling <= n.top
  /\ n.pc \in {"gate", "call", "tools"} => n.level <= n.top
  /\ \A t \in Tool : n.calls[t] > 0 => n.pc \in {"call", "tools"}
  /\ \A t \in RequiresApproval : n.calls[t] > 0 => n.level = Autonomous

(* messages is what the conversation may be after the first n stored       *)
(* turns: turns among those, a later one nearer to the end, and every one  *)
(* that is missing is missing for a reason HistoryKept allows.             *)
SnapshotOf(log, messages, n) ==
  /\ n <= Len(log) /\ Len(messages) <= TurnsKept
  /\ \A p \in 1..Len(messages) : \E i \in 1..n : log[i].turn = messages[p]
  /\ \A i \in 1..n, p \in 1..Len(messages) :
       messages[p] = log[i].turn => n - i >= Len(messages) - p
  /\ \A i \in 1..n :
       \/ InSeq(log[i].turn, messages)
       \/ n - i >= TurnsKept
       \/ \E j \in i + 1 .. n : log[j].since < i
Snapshot(messages, n) == SnapshotOf(stored, messages, n)

Conversing(n) ==
  /\ n.pc \in {"load", "approve", "persist"} => n.turn # 0
  /\ n.turn <= turns
  /\ \A i \in 1..Len(stored) : stored[i].turn # n.turn
  /\ Snapshot(n.seen, n.since)

RunOK(n) == n \in RunState /\ Clamped(n) /\ Conversing(n)

(* Each turn is begun once, by one run, and stored once.                   *)
TurnsApart ==
  /\ \A r, s \in Run : run[r].turn # 0 /\ run[r].turn = run[s].turn => r = s
  /\ \A i, j \in 1..Len(stored) : stored[i].turn = stored[j].turn => i = j
  /\ \A i \in 1..Len(stored) : stored[i].turn <= turns

NInv ==
  /\ EngineTypeOK
  /\ Quota
  /\ Snapshot(history, Len(stored))
  /\ TurnsApart
  /\ \A r \in Run : RunOK(run[r])

LEMMA AllCallsType == AllCalls \in Nat /\ IsFiniteSet(Run \X (1..MaxIterations))
                      /\ Cardinality(Run \X (1..MaxIterations)) = AllCalls
<1>1. IsFiniteSet(1..MaxIterations) /\ Cardinality(1..MaxIterations) = MaxIterations
  BY FS_Interval, EngineAssumption
<1>2. IsFiniteSet(Run)
  BY EngineAssumption
<1> QED BY <1>1, <1>2, FS_Product, FS_CardinalityType, SMTT(30) DEF AllCalls

LEMMA AllowedBounded == IsFiniteSet(Allowed) /\ Cardinality(Allowed) \in Nat /\ Cardinality(Allowed) <= AllCalls
<1>1. Allowed \in SUBSET (Run \X (1..MaxIterations))
  BY DEF Allowed
<1> QED BY <1>1, AllCallsType, FS_Subset, FS_CardinalityType

LEMMA AllowedAfter ==
  IsFiniteSet(Allowed') /\ Cardinality(Allowed') \in Nat /\ Cardinality(Allowed') <= AllCalls
<1>1. Allowed' \in SUBSET (Run \X (1..MaxIterations))
  BY DEF Allowed
<1> QED BY <1>1, AllCallsType, FS_Subset, FS_CardinalityType

(* The quota holds after a step of one run that may make fewer calls, and  *)
(* counts one only if it gives one up, or that has just checked it.        *)
LEMMA QuotaStep ==
  ASSUME EngineTypeOK, Quota, NEW r \in Run, NEW new \in RunState, run' = [run EXCEPT ![r] = new],
         \/ Left(new) <= Left(run[r]) /\ queries' = queries
         \/ Left(new) < Left(run[r]) /\ queries' \in {queries, queries + 1}
         \/ WithinLimit /\ queries' = queries
  PROVE  Quota'
<1>1. /\ queries \in Nat /\ QueryLimit \in Nat /\ AllCalls \in Nat /\ MaxIterations \in Nat \ {0}
      /\ Left(new) \in 0..MaxIterations /\ Left(run[r]) \in 0..MaxIterations
      /\ Cardinality(Allowed) \in Nat /\ Cardinality(Allowed') \in Nat /\ Cardinality(Allowed') <= AllCalls
  <2>1. run[r] \in RunState
    BY DEF EngineTypeOK
  <2>2. \A n \in RunState : Left(n) \in 0..MaxIterations
    <3> TAKE n \in RunState
    <3>1. n.iterations \in 0..MaxIterations
      BY DEF RunState
    <3> QED BY <3>1, EngineAssumption DEF Left
  <2> QED BY <2>1, <2>2, AllCallsType, AllowedBounded, AllowedAfter, EngineAssumption DEF EngineTypeOK
<1>2. ASSUME Left(new) <= Left(run[r]) PROVE Allowed' \subseteq Allowed
  BY <1>1, <1>2 DEF Allowed, EngineTypeOK
<1>3. ASSUME Left(new) < Left(run[r]) PROVE Cardinality(Allowed') < Cardinality(Allowed)
  <2> DEFINE x == <<r, Left(run[r])>>
  <2>1. x \in Allowed /\ x \notin Allowed'
    BY <1>1, <1>3 DEF Allowed, EngineTypeOK
  <2>2. Allowed' \in SUBSET Allowed /\ Allowed' # Allowed
    BY <1>1, <1>2, <1>3, <2>1
  <2> QED BY <1>1, <2>2, AllowedBounded, FS_Subset
<1>4. ASSUME Left(new) <= Left(run[r]) PROVE Cardinality(Allowed') <= Cardinality(Allowed)
  BY <1>2, <1>4, AllowedBounded, FS_Subset
<1> QED BY <1>1, <1>3, <1>4 DEF Quota, WithinLimit
(* Updates of a run keep its type. *)
LEMMA RunUpdates ==
  ASSUME NEW n \in RunState
  PROVE  /\ \A pc \in {"clamp", "gate", "call", "tools", "persist", "assist"} :
              [n EXCEPT !.pc = pc] \in RunState
         /\ \A seen \in Seq(Turn), since \in 0..MaxTurns :
              [n EXCEPT !.pc = "clamp", !.seen = seen, !.since = since] \in RunState
         /\ \A level \in Ceilings : [n EXCEPT !.pc = "gate", !.level = level] \in RunState
         /\ \A top \in Ceilings : [n EXCEPT !.pc = "clamp", !.top = top] \in RunState
         /\ \A turn \in 0..MaxTurns, top \in Ceilings :
              [n EXCEPT !.pc = "load", !.turn = turn, !.top = top] \in RunState
         /\ \A top \in Ceilings : [n EXCEPT !.top = top] \in RunState
         /\ n.iterations < MaxIterations => [n EXCEPT !.iterations = @ + 1] \in RunState
         /\ \A t \in Tool : n.calls[t] < CallCap => [n EXCEPT !.calls[t] = @ + 1] \in RunState
<1>1. ASSUME n.iterations < MaxIterations PROVE n.iterations + 1 \in 0..MaxIterations
  BY <1>1, EngineAssumption DEF RunState
<1>2. ASSUME NEW t \in Tool, n.calls[t] < CallCap
      PROVE  [n.calls EXCEPT ![t] = @ + 1] \in [Tool -> 0..CallCap]
  <2>1. n.calls \in [Tool -> 0..CallCap]
    BY DEF RunState
  <2>2. n.calls[t] + 1 \in 0..CallCap
    BY <1>2, <2>1, EngineAssumption
  <2> QED BY <2>1, <2>2
<1> QED BY <1>1, <1>2 DEF RunState

(* A step of one run that changes neither the plan nor the conversation.   *)
LEMMA RunStep ==
  ASSUME NInv, NEW r \in Run, NEW new, RunOK(new), new.turn \in {0, run[r].turn},
         run' = [run EXCEPT ![r] = new], UNCHANGED <<ceiling, conversation>>,
         queries' \in Nat, Quota'
  PROVE  NInv'
<1>1. \A s \in Run : run'[s] = IF s = r THEN new ELSE run[s]
  BY DEF NInv, EngineTypeOK
<1>2. EngineTypeOK'
  BY DEF NInv, EngineTypeOK, RunOK, conversation
<1>3. Snapshot(history, Len(stored))'
  BY DEF NInv, Snapshot, SnapshotOf, conversation
<1>4. TurnsApart'
  BY <1>1 DEF NInv, TurnsApart, conversation
<1>5. ASSUME NEW s \in Run PROVE RunOK(run[s])'
  <2>1. RunOK(run[s]) /\ run'[s] \in {run[s], new} /\ RunOK(run'[s])
    BY <1>1 DEF NInv
  <2>2. UNCHANGED <<ceiling, turns, history, stored>>
    BY DEF conversation
  <2>3. Clamped(run[s])'
    BY <2>1, <2>2 DEF RunOK, Clamped
  <2>4. Snapshot(run[s].seen, run[s].since)'
    BY <2>1, <2>2 DEF RunOK, Conversing, Snapshot, SnapshotOf
  <2>5. Conversing(run[s])'
    BY <2>1, <2>2, <2>4 DEF RunOK, Conversing
  <2> QED BY <2>1, <2>3, <2>5 DEF RunOK
<1> QED BY <1>2, <1>3, <1>4, <1>5 DEF NInv

LEMMA StoredTurns ==
  NInv => \A i \in 1..Len(stored) : stored[i].turn \in Turn /\ stored[i].since \in 0..MaxTurns
<1> SUFFICES ASSUME NInv, NEW i \in 1..Len(stored)
             PROVE  stored[i].turn \in Turn /\ stored[i].since \in 0..MaxTurns
  OBVIOUS
<1>1. stored[i] \in [turn : Turn, since : 0..MaxTurns]
  BY ElementOfSeq DEF NInv, EngineTypeOK
<1> QED BY <1>1

(* A turn is stored once, so no more are stored than were begun. *)
LEMMA StoredLength == NInv => Len(stored) \in 0..turns /\ turns <= MaxTurns
<1> SUFFICES ASSUME NInv, Len(stored) > turns PROVE FALSE
  BY EngineAssumption DEF NInv, EngineTypeOK
<1>1. turns \in Nat /\ turns <= MaxTurns /\ Len(stored) \in Nat
  BY EngineAssumption DEF NInv, EngineTypeOK
<1>2. \A i \in 1..Len(stored) : stored[i].turn \in 1..turns
  BY <1>1, StoredTurns DEF NInv, TurnsApart, Turn
<1> DEFINE f == [i \in 1..Len(stored) |-> stored[i].turn]
<1>3. f \in [1..Len(stored) -> 1..turns]
  BY <1>2
<1>4. /\ IsFiniteSet(1..Len(stored)) /\ IsFiniteSet(1..turns)
      /\ Cardinality(1..turns) = turns /\ Cardinality(1..Len(stored)) = Len(stored)
  <2>1. turns \in Int /\ Len(stored) \in Int /\ 1 \in Int
    BY <1>1
  <2>2. IsFiniteSet(1..turns) /\ Cardinality(1..turns) = IF 1 > turns THEN 0 ELSE turns - 1 + 1
    BY <2>1, FS_Interval
  <2>3. /\ IsFiniteSet(1..Len(stored))
        /\ Cardinality(1..Len(stored)) = IF 1 > Len(stored) THEN 0 ELSE Len(stored) - 1 + 1
    BY <2>1, FS_Interval
  <2> QED BY <1>1, <2>2, <2>3
<1>5. \E i, j \in 1..Len(stored) : i # j /\ f[i] = f[j]
  <2>1. Cardinality(1..turns) < Cardinality(1..Len(stored))
    BY <1>1, <1>4
  <2> HIDE DEF f
  <2> QED BY <1>3, <1>4, <2>1, FS_PigeonHole
<1> QED BY <1>5 DEF NInv, TurnsApart

LEMMA IdleOK == NInv => RunOK(Idle) /\ Idle.turn = 0 /\ Left(Idle) = 0
<1> SUFFICES ASSUME NInv PROVE RunOK(Idle) /\ Idle.turn = 0 /\ Left(Idle) = 0
  OBVIOUS
<1>1. Idle \in RunState
  BY EngineAssumption DEF Idle, RunState, Ceilings, Supervised
<1>2. Clamped(Idle) /\ Idle.turn = 0 /\ Left(Idle) = 0
  BY EngineAssumption DEF Idle, Clamped, Left
<1>3. Idle.seen = <<>> /\ Idle.since = 0 /\ Len(<<>>) = 0 /\ Len(stored) \in Nat
  BY DEF Idle, NInv, EngineTypeOK
<1>4. Snapshot(Idle.seen, Idle.since)
  BY <1>3, EngineAssumption DEF Snapshot, SnapshotOf
<1>5. Conversing(Idle)
  <2>1. \A i \in 1..Len(stored) : stored[i].turn # 0
    BY StoredTurns, EngineAssumption DEF Turn
  <2>2. Idle.pc = "idle" /\ turns \in Nat
    BY EngineAssumption DEF Idle, NInv, EngineTypeOK
  <2> QED BY <1>2, <1>4, <2>1, <2>2 DEF Conversing
<1> QED BY <1>1, <1>2, <1>5 DEF RunOK

(* How a run of the loop ends.                                             *)
LEMMA EndedOK ==
  ASSUME NInv, NEW r \in Run, NEW n, NEW asks \in BOOLEAN,
         n.turn = run[r].turn, n.seen = run[r].seen, n.since = run[r].since
  PROVE  /\ RunOK(Ended(n, asks)) /\ Ended(n, asks).turn \in {0, run[r].turn}
         /\ Left(Ended(n, asks)) = 0
<1> DEFINE new == Ended(n, asks)
<1>1. RunOK(run[r]) /\ RunOK(Idle) /\ Idle.turn = 0 /\ Left(Idle) = 0
  BY IdleOK DEF NInv
<1>2. CASE n.turn = 0
  BY <1>1, <1>2 DEF Ended
<1>3. CASE n.turn # 0
  <2>1. /\ new = [Idle EXCEPT !.pc = IF asks THEN "approve" ELSE "persist",
                              !.turn = run[r].turn, !.seen = run[r].seen, !.since = run[r].since]
        /\ run[r].turn # 0
    BY <1>3 DEF Ended
  <2>2. /\ new.turn = run[r].turn /\ new.seen = run[r].seen /\ new.since = run[r].since
        /\ new.pc \in {"approve", "persist"} /\ new.calls = Idle.calls
    BY <2>1 DEF Idle
  <2>3. new \in RunState
    BY <1>1, <2>1, ZenonT(40) DEF RunOK, RunState, Idle
  <2>4. Clamped(new) /\ Left(new) = 0
    <3>1. \A t \in Tool : new.calls[t] = 0
      BY <2>2 DEF Idle
    <3> QED BY <2>2, <3>1, EngineAssumption DEF Clamped, Left
  <2>5. Conversing(new)
    BY <1>1, <2>1, <2>2 DEF Conversing, RunOK
  <2> QED BY <2>2, <2>3, <2>4, <2>5 DEF RunOK
<1> QED BY <1>2, <1>3
(* The steps of a run but for those of the conversation it begins or ends. *)
LEMMA LoopStep ==
  ASSUME NInv, NEW r \in Run,
         \/ LoadConversation(r) \/ ClampAutonomy(r) \/ CheckLimit(r) \/ Answer(r) \/ GiveUp(r)
         \/ IterationsSpent(r) \/ NextIteration(r) \/ QueueApproval(r) \/ PersistFails(r)
         \/ StartEventRun(r) \/ OpenAssistant(r) \/ AnswerAssistant(r)
         \/ \E t \in Tool : Halt(r, t) \/ Execute(r, t)
  PROVE  NInv'
<1> USE EngineAssumption
<1> DEFINE n == run[r]
<1>0. /\ RunOK(n) /\ n \in RunState /\ EngineTypeOK /\ Quota /\ queries \in Nat /\ ceiling \in Ceilings
      /\ Clamped(n) /\ Conversing(n)
  BY DEF NInv, RunOK, EngineTypeOK
<1>1. RunOK(Idle) /\ Idle.turn = 0 /\ Left(Idle) = 0
  BY IdleOK
<1>2. ASSUME NEW new, RunOK(new), new.turn \in {0, n.turn}, run' = [run EXCEPT ![r] = new],
             UNCHANGED <<ceiling, conversation>>,
             \/ Left(new) <= Left(n) /\ queries' = queries
             \/ Left(new) < Left(n) /\ queries' \in {queries, queries + 1}
             \/ WithinLimit /\ queries' = queries
      PROVE  NInv'
  <2>1. new \in RunState /\ queries' \in Nat
    BY <1>0, <1>2 DEF RunOK
  <2>2. ASSUME Left(new) <= Left(n) /\ queries' = queries PROVE Quota'
    BY <1>0, <1>2, <2>1, <2>2, QuotaStep
  <2>3. ASSUME Left(new) < Left(n) /\ queries' \in {queries, queries + 1} PROVE Quota'
    BY <1>0, <1>2, <2>1, <2>3, QuotaStep
  <2>4. ASSUME WithinLimit /\ queries' = queries PROVE Quota'
    BY <1>0, <1>2, <2>1, <2>4, QuotaStep
  <2>5. Quota'
    BY <1>2, <2>2, <2>3, <2>4
  <2> QED BY <1>2, <2>1, <2>5, RunStep
<1>3. Left(n) \in Nat /\ (n.pc \in {"call", "tools"} => Left(n) = MaxIterations - n.iterations)
  <2>1. n.iterations \in 0..MaxIterations
    BY <1>0 DEF RunState
  <2> QED BY <2>1 DEF Left
<1>4. CASE LoadConversation(r)
  <2> DEFINE new == [n EXCEPT !.pc = "clamp", !.seen = history, !.since = Len(stored)]
  <2>1. n.pc = "load" /\ run' = [run EXCEPT ![r] = new] /\ UNCHANGED <<ceiling, queries, conversation>>
    BY <1>4 DEF LoadConversation, At, Update
  <2>2. /\ new.pc = "clamp" /\ new.seen = history /\ new.since = Len(stored) /\ new.turn = n.turn
        /\ new.level = n.level /\ new.top = n.top /\ new.calls = n.calls
    BY <1>0 DEF RunState
  <2>3. new \in RunState
    <3>1. history \in Seq(Turn) /\ Len(stored) \in 0..MaxTurns
      BY <1>0, StoredLength DEF EngineTypeOK
    <3> QED BY <1>0, <3>1, RunUpdates
  <2>4. Clamped(new)
    BY <1>0, <2>1, <2>2 DEF Clamped
  <2>6. Conversing(new)
    <3>1. Snapshot(history, Len(stored))
      BY DEF NInv
    <3> QED BY <1>0, <2>1, <2>2, <3>1 DEF Conversing
  <2>5. Left(new) = 0 /\ Left(new) <= Left(n) /\ queries' = queries /\ RunOK(new)
    BY <1>3, <2>1, <2>2, <2>3, <2>4, <2>6 DEF Left, RunOK
  <2> QED BY <1>2, <2>1, <2>2, <2>5
<1>5. CASE StartEventRun(r)
  <2> DEFINE new == [Idle EXCEPT !.pc = "clamp", !.top = ceiling]
  <2>1. run' = [run EXCEPT ![r] = new] /\ UNCHANGED <<ceiling, queries, conversation>>
    BY <1>5 DEF StartEventRun, Update
  <2>2. /\ new.pc = "clamp" /\ new.seen = Idle.seen /\ new.since = Idle.since /\ new.turn = 0
        /\ new.top = ceiling /\ new.calls = Idle.calls
    BY DEF Idle
  <2>3. new \in RunState /\ ceiling <= ceiling
    <3>1. Idle \in RunState
      BY <1>1 DEF RunOK
    <3>2. ceiling <= ceiling
      BY <1>0 DEF Ceilings, Supervised, Autonomous
    <3> QED BY <1>0, <3>1, <3>2, RunUpdates
  <2>6. \A t \in Tool : new.calls[t] = 0
    BY <2>2 DEF Idle
  <2>4. Clamped(new) /\ Conversing(new)
    BY <1>1, <2>2, <2>3, <2>6 DEF RunOK, Clamped, Conversing
  <2>5. Left(new) = 0 /\ Left(new) <= Left(n) /\ queries' = queries /\ RunOK(new)
    BY <1>3, <2>1, <2>2, <2>3, <2>4 DEF Left, RunOK
  <2> QED BY <1>2, <2>1, <2>2, <2>5
<1>6. CASE ClampAutonomy(r)
  <2>1. PICK level \in {ceiling, Supervised} :
          /\ n.pc = "clamp" /\ UNCHANGED <<ceiling, queries, conversation>>
          /\ run' = [run EXCEPT ![r] = [n EXCEPT !.pc = "gate", !.level = level]]
    BY <1>6 DEF ClampAutonomy, At, Update
  <2> DEFINE new == [n EXCEPT !.pc = "gate", !.level = level]
  <2>2. /\ new.pc = "gate" /\ new.seen = n.seen /\ new.since = n.since /\ new.turn = n.turn
        /\ new.level = level /\ new.top = n.top /\ new.calls = n.calls
    BY <1>0 DEF RunState
  <2>3. new \in RunState /\ level <= n.top /\ ceiling <= n.top
    <3>1. level \in Ceilings /\ n.top \in Ceilings /\ ceiling <= n.top
      BY <1>0, <2>1 DEF RunState, Clamped, Ceilings
    <3>2. new \in RunState
      BY <1>0, <3>1, RunUpdates
    <3> QED BY <2>1, <3>1, <3>2 DEF Ceilings, Supervised, Autonomous
  <2>4. \A t \in Tool : ~(new.calls[t] > 0)
    BY <1>0, <2>1, <2>2 DEF Clamped
  <2>5. Clamped(new) /\ Conversing(new)
    BY <1>0, <2>2, <2>3, <2>4 DEF Clamped, Conversing
  <2>6. Left(new) = 0 /\ Left(new) <= Left(n) /\ queries' = queries /\ RunOK(new)
    BY <1>3, <2>1, <2>2, <2>3, <2>5 DEF Left, RunOK
  <2> QED BY <1>2, <2>1, <2>2, <2>6
<1>7. CASE n.pc = "gate" /\ WithinLimit /\ UNCHANGED <<ceiling, queries, conversation>>
           /\ run' = [run EXCEPT ![r] = [n EXCEPT !.pc = "call"]]
  <2> DEFINE new == [n EXCEPT !.pc = "call"]
  <2>1. /\ new.pc = "call" /\ new.seen = n.seen /\ new.since = n.since /\ new.turn = n.turn
        /\ new.level = n.level /\ new.top = n.top /\ new.calls = n.calls
    BY <1>0 DEF RunState
  <2>2. Clamped(new) /\ Conversing(new)
    BY <1>0, <1>7, <2>1 DEF Clamped, Conversing
  <2>3. new \in RunState
    BY <1>0, RunUpdates
  <2>4. RunOK(new) /\ queries' = queries
    BY <1>7, <2>2, <2>3 DEF RunOK
  <2> QED BY <1>2, <1>7, <2>1, <2>4
<1>8. ASSUME NEW m, NEW asks \in BOOLEAN, m.turn = n.turn, m.seen = n.seen, m.since = n.since,
             run' = [run EXCEPT ![r] = Ended(m, asks)], UNCHANGED <<ceiling, conversation>>,
             queries' = queries \/ (Left(n) > 0 /\ queries' \in {queries, queries + 1})
      PROVE  NInv'
  <2>1. /\ RunOK(Ended(m, asks)) /\ Ended(m, asks).turn \in {0, n.turn}
        /\ Left(Ended(m, asks)) = 0
    BY <1>8, EndedOK
  <2>2. \/ Left(Ended(m, asks)) <= Left(n) /\ queries' = queries
        \/ Left(Ended(m, asks)) < Left(n) /\ queries' \in {queries, queries + 1}
    BY <1>3, <1>8, <2>1
  <2> QED BY <1>2, <1>8, <2>1, <2>2
<1>9. CASE CheckLimit(r)
  <2>1. n.pc = "gate" /\ UNCHANGED <<ceiling, queries, conversation>>
    BY <1>9 DEF CheckLimit, At
  <2>2. CASE run' = [run EXCEPT ![r] = Ended(n, FALSE)]
    BY <1>8, <2>1, <2>2
  <2> QED BY <1>7, <1>9, <2>1, <2>2 DEF CheckLimit, Update, End
<1>10. CASE GiveUp(r) \/ IterationsSpent(r)
  BY <1>8, <1>10 DEF GiveUp, IterationsSpent, At, Update, End
<1>11. ASSUME NEW t \in Tool, Halt(r, t) PROVE NInv'
  BY <1>8, <1>11 DEF Halt, Update, End
<1>12. CASE Answer(r)
  <2> DEFINE called == [n EXCEPT !.iterations = @ + 1]
             new == [called EXCEPT !.pc = "tools"]
  <2>1. /\ n.pc = "call" /\ n.iterations < MaxIterations /\ UNCHANGED <<ceiling, conversation>>
        /\ queries' \in {queries, queries + 1}
        /\ run' = [run EXCEPT ![r] = new] \/ run' = [run EXCEPT ![r] = Ended(called, FALSE)]
    BY <1>12 DEF Answer, At, Update
  <2>2. /\ called.seen = n.seen /\ called.since = n.since /\ called.turn = n.turn
        /\ new.pc = "tools" /\ new.seen = n.seen /\ new.since = n.since /\ new.turn = n.turn
        /\ new.level = n.level /\ new.top = n.top /\ new.calls = n.calls
        /\ new.iterations = n.iterations + 1
    BY <1>0, <2>1 DEF RunState
  <2>7. new \in RunState
    <3>1. called \in RunState
      BY <1>0, <2>1, RunUpdates
    <3> HIDE DEF called
    <3> QED BY <3>1, RunUpdates
  <2>3. Clamped(new) /\ Conversing(new)
    BY <1>0, <2>1, <2>2 DEF Clamped, Conversing
  <2>4. Left(n) > 0 /\ Left(new) < Left(n)
    <3>1. n.iterations \in Nat /\ Left(n) = MaxIterations - n.iterations
      BY <1>0, <1>3, <2>1 DEF RunState
    <3>2. Left(new) = MaxIterations - (n.iterations + 1)
      BY <2>2 DEF Left
    <3> QED BY <2>1, <3>1, <3>2
  <2>5. CASE run' = [run EXCEPT ![r] = new]
    <3>1. RunOK(new)
      BY <2>3, <2>7 DEF RunOK
    <3> QED BY <1>2, <2>1, <2>2, <2>4, <2>5, <3>1
  <2>6. CASE run' = [run EXCEPT ![r] = Ended(called, FALSE)]
    BY <1>8, <2>1, <2>2, <2>4, <2>6
  <2> QED BY <2>1, <2>5, <2>6
<1>13. ASSUME NEW t \in Tool, Execute(r, t) PROVE NInv'
  <2> DEFINE new == [n EXCEPT !.calls[t] = @ + 1]
  <2>1. /\ n.pc = "tools" /\ n.calls[t] < CallCap /\ (t \in RequiresApproval => n.level >= Autonomous)
        /\ run' = [run EXCEPT ![r] = new] /\ UNCHANGED <<ceiling, queries, conversation>>
    BY <1>0, <1>13, SMTT(30) DEF Execute, Callable, At, Update, MustAsk, RunState, Ceilings, Supervised, Autonomous
  <2>2. /\ new.pc = n.pc /\ new.seen = n.seen /\ new.since = n.since /\ new.turn = n.turn
        /\ new.level = n.level /\ new.top = n.top /\ new.iterations = n.iterations
        /\ \A u \in Tool : new.calls[u] = IF u = t THEN n.calls[u] + 1 ELSE n.calls[u]
    BY <1>0 DEF RunState
  <2>3. new \in RunState
    BY <1>0, <2>1, RunUpdates
  <2>4. Clamped(new)
    <3>1. n.level \in {Supervised, Autonomous}
      BY <1>0 DEF RunState, Ceilings
    <3>2. ASSUME NEW u \in RequiresApproval, new.calls[u] > 0 PROVE new.level = Autonomous
      <4>1. u \in Tool
        OBVIOUS
      <4>2. CASE u = t
        BY <2>1, <2>2, <3>1, <4>2 DEF Supervised, Autonomous
      <4>3. CASE u # t
        BY <1>0, <2>2, <3>2, <4>1, <4>3 DEF Clamped
      <4> QED BY <4>2, <4>3
    <3> QED BY <1>0, <2>1, <2>2, <3>2 DEF Clamped
  <2>6. Conversing(new)
    BY <1>0, <2>2 DEF Conversing
  <2>5. Left(new) = Left(n) /\ Left(new) <= Left(n) /\ queries' = queries /\ RunOK(new)
    BY <1>3, <2>1, <2>2, <2>3, <2>4, <2>6 DEF Left, RunOK
  <2> QED BY <1>2, <2>1, <2>2, <2>5
<1>14. CASE NextIteration(r)
  <2> DEFINE new == [n EXCEPT !.pc = "call"]
  <2>1. n.pc = "tools" /\ run' = [run EXCEPT ![r] = new] /\ UNCHANGED <<ceiling, queries, conversation>>
    BY <1>14 DEF NextIteration, At, Update
  <2>2. /\ new.pc = "call" /\ new.seen = n.seen /\ new.since = n.since /\ new.turn = n.turn
        /\ new.level = n.level /\ new.top = n.top /\ new.calls = n.calls
        /\ new.iterations = n.iterations
    BY <1>0 DEF RunState
  <2>3. Clamped(new) /\ Conversing(new)
    BY <1>0, <2>1, <2>2 DEF Clamped, Conversing
  <2>5. new \in RunState
    BY <1>0, RunUpdates
  <2>4. Left(new) = Left(n) /\ Left(new) <= Left(n) /\ queries' = queries /\ RunOK(new)
    BY <1>3, <2>1, <2>2, <2>3, <2>5 DEF Left, RunOK
  <2> QED BY <1>2, <2>1, <2>2, <2>4
<1>15. CASE /\ run' = [run EXCEPT ![r] = Idle] /\ UNCHANGED <<ceiling, conversation>>
            /\ queries' = queries \/ (Left(n) > 0 /\ queries' \in {queries, queries + 1})
  <2>1. \/ Left(Idle) <= Left(n) /\ queries' = queries
        \/ Left(Idle) < Left(n) /\ queries' \in {queries, queries + 1}
    BY <1>1, <1>3, <1>15
  <2> QED BY <1>1, <1>2, <1>15, <2>1
<1>16. CASE PersistFails(r)
  BY <1>15, <1>16 DEF PersistFails, Update
<1>17. CASE AnswerAssistant(r)
  <2>1. Left(n) > 0
    BY <1>17 DEF AnswerAssistant, At, Left
  <2> QED BY <1>15, <1>17, <2>1 DEF AnswerAssistant, Update
<1>18. CASE OpenAssistant(r)
  <2> DEFINE new == [Idle EXCEPT !.pc = "assist"]
  <2>1. run' = [run EXCEPT ![r] = new] /\ UNCHANGED <<ceiling, queries, conversation>> /\ WithinLimit
    BY <1>18 DEF OpenAssistant, Update
  <2>2. /\ new.pc = "assist" /\ new.seen = Idle.seen /\ new.since = Idle.since /\ new.turn = 0
        /\ new.calls = Idle.calls
    BY DEF Idle
  <2>4. new \in RunState
    <3>1. Idle \in RunState
      BY <1>1 DEF RunOK
    <3> QED BY <3>1, RunUpdates
  <2>5. \A t \in Tool : new.calls[t] = 0
    BY <2>2 DEF Idle
  <2>3. Clamped(new) /\ Conversing(new)
    BY <1>1, <2>2, <2>5 DEF RunOK, Clamped, Conversing
  <2>6. RunOK(new) /\ queries' = queries
    BY <2>1, <2>3, <2>4 DEF RunOK
  <2> QED BY <1>2, <2>1, <2>2, <2>6
<1>19. CASE QueueApproval(r)
  <2> DEFINE new == [n EXCEPT !.pc = "persist"]
  <2>1. /\ n.pc = "approve" /\ UNCHANGED <<ceiling, queries, conversation>>
        /\ run' = [run EXCEPT ![r] = new] \/ run' = [run EXCEPT ![r] = Idle]
    BY <1>19 DEF QueueApproval, At, Update
  <2>2. /\ new.pc = "persist" /\ new.seen = n.seen /\ new.since = n.since /\ new.turn = n.turn
        /\ new.level = n.level /\ new.top = n.top /\ new.calls = n.calls
    BY <1>0 DEF RunState
  <2>3. Clamped(new) /\ Conversing(new) /\ Left(new) = 0
    BY <1>0, <2>1, <2>2 DEF Clamped, Conversing, Left
  <2>5. new \in RunState
    BY <1>0, RunUpdates
  <2>6. RunOK(new) /\ Left(new) <= Left(n) /\ queries' = queries
    BY <1>3, <2>1, <2>3, <2>5 DEF RunOK
  <2>4. CASE run' = [run EXCEPT ![r] = new]
    BY <1>2, <2>1, <2>2, <2>4, <2>6
  <2> QED BY <1>15, <2>1, <2>4
<1> QED
  BY <1>4, <1>5, <1>6, <1>9, <1>10, <1>11, <1>12, <1>13, <1>14, <1>16, <1>17, <1>18, <1>19


(* The stored turns stay what they were for a request that has read them.  *)
LEMMA SnapshotStays ==
  ASSUME NInv, NEW messages, NEW m \in Nat, Snapshot(messages, m),
         Len(stored') \in Nat, Len(stored') >= Len(stored), Len(messages) \in Nat,
         \A i \in 1..Len(stored) : stored'[i] = stored[i]
  PROVE  Snapshot(messages, m)'
<1>1. m <= Len(stored) /\ Len(stored) \in Nat
  BY DEF Snapshot, SnapshotOf, NInv, EngineTypeOK
<1>2. \A i \in 1..m : i \in 1..Len(stored) /\ stored'[i] = stored[i]
  BY <1>1
<1>3. \A i \in 1..m : \A j \in i + 1 .. m : stored'[j] = stored[j]
  BY <1>2
<1>4. m <= Len(stored') /\ Len(messages) <= TurnsKept
  BY <1>1 DEF Snapshot, SnapshotOf
<1>5. \A p \in 1..Len(messages) : \E i \in 1..m : stored'[i].turn = messages[p]
  BY <1>2 DEF Snapshot, SnapshotOf
<1>6. \A i \in 1..m, p \in 1..Len(messages) :
        messages[p] = stored'[i].turn => m - i >= Len(messages) - p
  BY <1>2 DEF Snapshot, SnapshotOf
<1>7. \A i \in 1..m :
        \/ InSeq(stored'[i].turn, messages)
        \/ m - i >= TurnsKept
        \/ \E j \in i + 1 .. m : stored'[j].since < i
  BY <1>2, <1>3 DEF Snapshot, SnapshotOf
<1> QED BY <1>4, <1>5, <1>6, <1>7 DEF Snapshot, SnapshotOf

(* A chat begins a turn nobody has. *)
LEMMA OpenChatStep ==
  ASSUME NInv, NEW r \in Run, OpenChat(r)
  PROVE  NInv'
<1> USE EngineAssumption
<1> DEFINE new == [Idle EXCEPT !.pc = "load", !.turn = turns + 1, !.top = ceiling]
<1>1. /\ turns < MaxTurns /\ WithinLimit /\ turns' = turns + 1 /\ run' = [run EXCEPT ![r] = new]
      /\ UNCHANGED <<ceiling, queries, history, stored>>
  BY DEF OpenChat, Update
<1>2. /\ EngineTypeOK /\ Quota /\ queries \in Nat /\ ceiling \in Ceilings /\ turns \in Nat
      /\ Len(stored) \in Nat /\ \A s \in Run : RunOK(run[s])
  BY DEF NInv, EngineTypeOK
<1>3. RunOK(Idle) /\ Idle.turn = 0 /\ Left(Idle) = 0 /\ Idle \in RunState
  BY IdleOK DEF RunOK
<1>4. /\ new.pc = "load" /\ new.turn = turns + 1 /\ new.seen = Idle.seen /\ new.since = Idle.since
      /\ new.top = ceiling /\ new.calls = Idle.calls /\ \A t \in Tool : new.calls[t] = 0
  BY DEF Idle
<1>5. new \in RunState
  <2>1. turns + 1 \in 0..MaxTurns
    BY <1>1, <1>2
  <2> QED BY <1>2, <1>3, <2>1, RunUpdates
<1>6. \A s \in Run : run'[s] = IF s = r THEN new ELSE run[s]
  BY <1>1, <1>2 DEF EngineTypeOK
<1>7. EngineTypeOK'
  BY <1>1, <1>2, <1>5 DEF EngineTypeOK
<1>8. Quota'
  BY <1>1, <1>2, <1>5, QuotaStep
<1>9. Snapshot(history, Len(stored))'
  BY <1>1 DEF NInv, Snapshot, SnapshotOf
<1>10. TurnsApart'
  <2>1. \A s \in Run : run[s].turn \in Nat /\ run[s].turn <= turns
    BY <1>2 DEF RunOK, RunState, Conversing
  <2>2. \A i \in 1..Len(stored) : stored[i].turn \in Nat /\ stored[i].turn <= turns
    BY StoredTurns DEF NInv, TurnsApart, Turn
  <2> QED BY <1>1, <1>2, <1>4, <1>6, <2>1, <2>2 DEF NInv, TurnsApart
<1>11. ASSUME NEW s \in Run PROVE RunOK(run[s])'
  <2>1. run'[s] \in RunState /\ run'[s] \in {run[s], new} /\ RunOK(run[s])
    BY <1>2, <1>5, <1>6 DEF RunOK
  <2>2. Clamped(run[s])'
    <3>1. ceiling <= ceiling
      BY <1>2 DEF Ceilings, Supervised, Autonomous
    <3>2. Clamped(new)
      BY <1>4, <3>1 DEF Clamped
    <3> QED BY <1>1, <2>1, <3>2 DEF Clamped, RunOK
  <2>3. Snapshot(run[s].seen, run[s].since)'
    <3>1. Snapshot(run[s].seen, run[s].since) /\ Snapshot(Idle.seen, Idle.since)
      BY <1>2, <1>3 DEF RunOK, Conversing
    <3>2. Snapshot(run'[s].seen, run'[s].since)
      BY <1>4, <2>1, <3>1
    <3> QED BY <1>1, <3>2 DEF Snapshot, SnapshotOf
  <2>4. /\ run'[s].pc \in {"load", "approve", "persist"} => run'[s].turn # 0
        /\ run'[s].turn <= turns'
    <3>1. run[s].turn \in Nat /\ run[s].turn <= turns
      BY <1>2 DEF RunOK, RunState, Conversing
    <3> QED BY <1>1, <1>2, <1>4, <2>1, <3>1 DEF RunOK, Conversing
  <2>5. \A i \in 1..Len(stored') : stored'[i].turn # run'[s].turn
    <3>1. \A i \in 1..Len(stored) : stored[i].turn \in Nat /\ stored[i].turn <= turns
      BY StoredTurns DEF NInv, TurnsApart, Turn
    <3> QED BY <1>1, <1>2, <1>4, <2>1, <3>1 DEF RunOK, Conversing
  <2> QED BY <2>1, <2>2, <2>3, <2>4, <2>5 DEF RunOK, Conversing
<1> QED BY <1>7, <1>8, <1>9, <1>10, <1>11 DEF NInv


(* new is messages with turn at its end and without its first off turns.   *)
Capped(messages, turn, new, off) ==
  /\ new \in Seq(Turn) /\ Len(new) \in 1..TurnsKept
  /\ Len(new) + off = Len(messages) + 1 /\ (off = 1 => Len(new) = TurnsKept)
  /\ \A p \in 1..Len(new) :
       new[p] = IF p + off = Len(messages) + 1 THEN turn ELSE messages[p + off]
  /\ \A q \in 1..Len(messages) : InSeq(messages[q], new) \/ (off = 1 /\ q = 1)
  /\ InSeq(turn, new)

LEMMA CappedHistory ==
  ASSUME NEW messages \in Seq(Turn), NEW turn \in Turn, Len(messages) <= TurnsKept
  PROVE  \E off \in {0, 1} : Capped(messages, turn, CapHistory(Append(messages, turn)), off)
<1> USE EngineAssumption
<1> DEFINE all == Append(messages, turn)
           capped == CapHistory(all)
<1>1. /\ all \in Seq(Turn) /\ Len(all) = Len(messages) + 1 /\ Len(messages) \in Nat
      /\ \A p \in 1..Len(all) : all[p] = IF p = Len(all) THEN turn ELSE messages[p]
  BY DEF all
<1> HIDE DEF all
<1>2. CASE Len(all) > TurnsKept
  <2>1. Len(all) = TurnsKept + 1 /\ Len(all) - TurnsKept + 1 = 2 /\ TurnsKept \in Nat \ {0}
    BY <1>1, <1>2
  <2>2. capped = SubSeq(all, 2, TurnsKept + 1)
    BY <1>2, <2>1 DEF CapHistory
  <2>3. /\ capped \in Seq(Turn) /\ Len(capped) = TurnsKept
        /\ \A p \in 1..TurnsKept : capped[p] = all[p + 1]
    BY <1>1, <2>1, <2>2
  <2> HIDE DEF capped
  <2>5. \A p \in 1..Len(capped) :
          capped[p] = IF p + 1 = Len(messages) + 1 THEN turn ELSE messages[p + 1]
    <3> TAKE p \in 1..Len(capped)
    <3>1. capped[p] = all[p + 1] /\ p + 1 \in 1..Len(all)
      BY <1>1, <2>1, <2>3
    <3> QED BY <1>1, <3>1
  <2>6. ASSUME NEW q \in 1..Len(messages), q # 1 PROVE InSeq(messages[q], capped)
    <3>1. q - 1 \in 1..Len(capped) /\ capped[q - 1] = messages[q]
      BY <1>1, <2>1, <2>3, <2>6
    <3>2. DOMAIN capped = 1..Len(capped)
      BY <2>3
    <3> QED BY <3>1, <3>2 DEF InSeq
  <2>7. InSeq(turn, capped)
    <3>1. TurnsKept \in DOMAIN capped /\ capped[TurnsKept] = turn
      BY <1>1, <2>1, <2>3
    <3> QED BY <3>1 DEF InSeq
  <2>8. Len(capped) \in 1..TurnsKept /\ Len(capped) + 1 = Len(messages) + 1
    BY <1>1, <2>1, <2>3
  <2>9. Capped(messages, turn, capped, 1)
    BY <2>3, <2>5, <2>6, <2>7, <2>8 DEF Capped
  <2> QED BY <2>9 DEF capped, all
<1>3. CASE Len(all) <= TurnsKept
  <2>1. capped = SubSeq(all, 1, Len(all))
    <3>1. ~(Len(all) > TurnsKept)
      BY <1>1, <1>3
    <3> QED BY <3>1 DEF CapHistory
  <2>2. capped = all
    BY <1>1, <2>1, SubSeqFull
  <2> HIDE DEF capped
  <2>3. DOMAIN capped = 1..Len(messages) + 1 /\ Len(capped) + 0 = Len(messages) + 1
    BY <1>1, <2>2
  <2>4. \A p \in 1..Len(capped) :
          capped[p] = IF p + 0 = Len(messages) + 1 THEN turn ELSE messages[p + 0]
    <3> TAKE p \in 1..Len(capped)
    <3>1. capped[p] = all[p] /\ p \in 1..Len(all) /\ p + 0 = p
      BY <1>1, <2>2
    <3> QED BY <1>1, <3>1
  <2>5. \A q \in 1..Len(messages) : InSeq(messages[q], capped)
    BY <1>1, <2>2, <2>3 DEF InSeq
  <2>6. InSeq(turn, capped)
    <3>1. Len(messages) + 1 \in DOMAIN capped /\ capped[Len(messages) + 1] = turn
      BY <1>1, <2>2, <2>3
    <3> QED BY <3>1 DEF InSeq
  <2>7. Capped(messages, turn, capped, 0)
    BY <1>1, <1>3, <2>2, <2>3, <2>4, <2>5, <2>6 DEF Capped
  <2> QED BY <2>7 DEF capped, all
<1>4. Len(all) \in Nat
  BY <1>1
<1> QED BY <1>2, <1>3, <1>4


(* A turn stored on top of what its request had read. *)
LEMMA SnapshotGrows ==
  ASSUME NInv, NEW messages \in Seq(Turn), NEW k \in Nat, Snapshot(messages, k),
         NEW turn \in Turn, \A i \in 1..Len(stored) : stored[i].turn # turn,
         NEW new, NEW off \in {0, 1}, Capped(messages, turn, new, off),
         stored' = Append(stored, [turn |-> turn, since |-> k])
  PROVE  SnapshotOf(stored', new, Len(stored'))
<1> USE EngineAssumption
<1> DEFINE length == Len(stored) + 1
<1>1. /\ Len(stored) \in Nat /\ k <= Len(stored) /\ Len(messages) \in Nat /\ Len(messages) <= TurnsKept
      /\ Len(new) \in 1..TurnsKept /\ Len(new) + off = Len(messages) + 1
      /\ (off = 1 => Len(new) = TurnsKept)
  BY DEF NInv, EngineTypeOK, Snapshot, SnapshotOf, Capped
<1>2. /\ length = Len(stored') /\ stored'[length].turn = turn /\ stored'[length].since = k
      /\ \A i \in 1..Len(stored) : stored'[i] = stored[i]
  BY DEF NInv, EngineTypeOK
<1>3. \A q \in 1..Len(messages) : \E i \in 1..k : stored[i].turn = messages[q]
  BY DEF Snapshot, SnapshotOf
<1>4. \A q \in 1..Len(messages), i \in 1..Len(stored) :
        messages[q] = stored[i].turn => i \in 1..k /\ k - i >= Len(messages) - q
  <2> SUFFICES ASSUME NEW q \in 1..Len(messages), NEW i \in 1..Len(stored), messages[q] = stored[i].turn
               PROVE  i \in 1..k /\ k - i >= Len(messages) - q
    OBVIOUS
  <2>1. PICK l \in 1..k : stored[l].turn = messages[q]
    BY <1>3
  <2>2. l \in 1..Len(stored)
    BY <1>1
  <2>3. l = i
    BY <2>1, <2>2 DEF NInv, TurnsApart
  <2> QED BY <2>3 DEF Snapshot, SnapshotOf
<1>5. \A p \in 1..Len(new) :
        \/ p + off = Len(messages) + 1 /\ p = Len(new) /\ new[p] = turn
        \/ p + off \in 1..Len(messages) /\ new[p] = messages[p + off]
  <2> TAKE p \in 1..Len(new)
  <2>1. p + off \in 1..Len(messages) + 1
    BY <1>1
  <2> QED BY <1>1, <2>1 DEF Capped
<1>6. \A p \in 1..Len(new) : \E i \in 1..length : stored'[i].turn = new[p]
  <2> TAKE p \in 1..Len(new)
  <2>1. CASE new[p] = turn
    BY <1>1, <1>2, <2>1
  <2>2. CASE p + off \in 1..Len(messages) /\ new[p] = messages[p + off]
    <3>1. PICK i \in 1..k : stored[i].turn = messages[p + off]
      BY <1>3, <2>2
    <3>2. i \in 1..Len(stored) /\ i \in 1..length
      BY <1>1
    <3> QED BY <1>2, <2>2, <3>1, <3>2
  <2> QED BY <1>5, <2>1, <2>2
<1>7. ASSUME NEW i \in 1..length, NEW p \in 1..Len(new), new[p] = stored'[i].turn
      PROVE  length - i >= Len(new) - p
  <2>1. CASE p = Len(new)
    BY <1>1, <2>1
  <2>2. CASE p + off \in 1..Len(messages) /\ new[p] = messages[p + off]
    <3>1. i # length
      <4>1. PICK l \in 1..k : stored[l].turn = messages[p + off]
        BY <1>3, <2>2
      <4>2. l \in 1..Len(stored)
        BY <1>1
      <4> QED BY <1>2, <1>7, <2>2, <4>1, <4>2
    <3>2. i \in 1..Len(stored) /\ messages[p + off] = stored[i].turn
      BY <1>1, <1>2, <1>7, <2>2, <3>1
    <3>3. k - i >= Len(messages) - (p + off)
      BY <1>4, <2>2, <3>2
    <3> QED BY <1>1, <3>3
  <2> QED BY <1>5, <2>1, <2>2
<1>8. ASSUME NEW i \in 1..length
      PROVE  \/ InSeq(stored'[i].turn, new)
             \/ length - i >= TurnsKept
             \/ \E j \in i + 1 .. length : stored'[j].since < i
  <2>1. CASE i = length
    BY <1>2, <2>1 DEF Capped
  <2>2. CASE i # length /\ i > k
    <3>1. length \in i + 1 .. length
      BY <1>1, <2>2
    <3> QED BY <1>2, <2>2, <3>1
  <2>3. CASE i # length /\ i <= k
    <3>1. i \in 1..k /\ i \in 1..Len(stored) /\ stored'[i] = stored[i]
      BY <1>1, <1>2, <2>3
    <3>2. CASE InSeq(stored[i].turn, messages)
      <4>1. PICK q \in 1..Len(messages) : messages[q] = stored[i].turn
        BY <1>1, <3>2 DEF InSeq
      <4>2. CASE InSeq(messages[q], new)
        BY <3>1, <4>1, <4>2
      <4>3. CASE off = 1 /\ q = 1
        <5>1. k - i >= Len(messages) - 1
          BY <1>4, <3>1, <4>1, <4>3
        <5> QED BY <1>1, <4>3, <5>1
      <4> QED BY <4>2, <4>3 DEF Capped
    <3>3. CASE k - i >= TurnsKept
      BY <1>1, <3>3
    <3>4. CASE \E j \in i + 1 .. k : stored[j].since < i
      <4>1. PICK j \in i + 1 .. k : stored[j].since < i
        BY <3>4
      <4>2. j \in 1..Len(stored) /\ j \in i + 1 .. length
        BY <1>1, <3>1
      <4> QED BY <1>2, <4>1, <4>2
    <3> QED BY <3>1, <3>2, <3>3, <3>4 DEF Snapshot, SnapshotOf
  <2>4. i = length \/ (i # length /\ i > k) \/ (i # length /\ i <= k)
    BY <1>1
  <2> QED BY <2>1, <2>2, <2>3, <2>4
<1>9. length <= Len(stored') /\ Len(new) <= TurnsKept
  BY <1>1, <1>2
<1> HIDE DEF length
<1>10. SnapshotOf(stored', new, length)
  BY <1>6, <1>7, <1>8, <1>9 DEF SnapshotOf
<1> QED BY <1>2, <1>10

(* A chat stores its turn.                                                 *)
LEMMA PersistTurnStep ==
  ASSUME NInv, NEW r \in Run, PersistTurn(r)
  PROVE  NInv'
<1> USE EngineAssumption
<1> DEFINE n == run[r]
           entry == [turn |-> n.turn, since |-> n.since]
<1>1. /\ n.pc = "persist" /\ history' = CapHistory(Append(n.seen, n.turn))
      /\ stored' = Append(stored, entry) /\ run' = [run EXCEPT ![r] = Idle]
      /\ UNCHANGED <<ceiling, queries, turns>>
  BY DEF PersistTurn, At, Update
<1>2. /\ EngineTypeOK /\ Quota /\ RunOK(n) /\ \A s \in Run : RunOK(run[s])
      /\ run \in [Run -> RunState] /\ Len(stored) \in Nat /\ turns \in 0..MaxTurns
  BY DEF NInv, EngineTypeOK
<1>3. /\ n.seen \in Seq(Turn) /\ n.since \in 0..MaxTurns /\ n.turn \in Turn /\ n.turn <= turns
      /\ Snapshot(n.seen, n.since) /\ Len(n.seen) <= TurnsKept
      /\ \A i \in 1..Len(stored) : stored[i].turn # n.turn
  BY <1>1, <1>2 DEF RunOK, RunState, Conversing, Turn, Snapshot, SnapshotOf
<1>4. RunOK(Idle) /\ Idle.turn = 0 /\ Left(Idle) = 0 /\ Idle \in RunState
  BY IdleOK DEF RunOK
<1>5. PICK off \in {0, 1} : Capped(n.seen, n.turn, history', off)
  BY <1>1, <1>3, CappedHistory
<1>6. \A s \in Run : run'[s] = IF s = r THEN Idle ELSE run[s]
  BY <1>1, <1>2
<1>7. /\ Len(stored') = Len(stored) + 1 /\ stored'[Len(stored) + 1] = entry
      /\ \A i \in 1..Len(stored) : stored'[i] = stored[i]
  BY <1>1, <1>2 DEF EngineTypeOK
<1>8. EngineTypeOK'
  <2>1. entry \in [turn : Turn, since : 0..MaxTurns]
    BY <1>3
  <2>2. stored' \in Seq([turn : Turn, since : 0..MaxTurns])
    BY <1>1, <1>2, <2>1 DEF EngineTypeOK
  <2>3. history' \in Seq(Turn) /\ Len(history') <= TurnsKept
    BY <1>5 DEF Capped
  <2>4. run' \in [Run -> RunState]
    BY <1>1, <1>2, <1>4
  <2> QED BY <1>1, <1>2, <2>2, <2>3, <2>4 DEF EngineTypeOK
<1>9. Quota'
  <2>1. Left(n) \in Nat
    <3>1. n.iterations \in 0..MaxIterations
      BY <1>2 DEF RunOK, RunState
    <3> QED BY <3>1 DEF Left
  <2>2. Left(Idle) <= Left(n) /\ queries' = queries
    BY <1>1, <1>4, <2>1
  <2> QED BY <1>1, <1>2, <1>4, <2>2, QuotaStep
<1>10. Snapshot(history, Len(stored))'
  <2> DEFINE m == n.seen
             k == n.since
             x == n.turn
             h == history'
  <2>1. k \in Nat /\ m \in Seq(Turn) /\ x \in Turn
    BY <1>3
  <2>2. /\ Snapshot(m, k) /\ \A i \in 1..Len(stored) : stored[i].turn # x
        /\ Capped(m, x, h, off) /\ stored' = Append(stored, [turn |-> x, since |-> k])
    BY <1>1, <1>3, <1>5
  <2> HIDE DEF m, k, x, h
  <2>3. SnapshotOf(stored', h, Len(stored'))
    BY <2>1, <2>2, SnapshotGrows
  <2> QED BY <2>3 DEF Snapshot, h
<1>11. \A s \in Run : run'[s].turn # 0 => s # r /\ run'[s] = run[s] /\ run[s].turn # n.turn
  BY <1>3, <1>4, <1>6 DEF NInv, TurnsApart
<1>12. \A i \in 1..Len(stored') : \/ i \in 1..Len(stored) /\ stored'[i].turn = stored[i].turn
                                  \/ i = Len(stored) + 1 /\ stored'[i].turn = n.turn
  BY <1>2, <1>7
<1>13. TurnsApart'
  <2>1. \A s, t \in Run : run'[s].turn # 0 /\ run'[s].turn = run'[t].turn => s = t
    BY <1>11 DEF NInv, TurnsApart
  <2>2. \A i, j \in 1..Len(stored') : stored'[i].turn = stored'[j].turn => i = j
    BY <1>3, <1>12 DEF NInv, TurnsApart
  <2>3. \A i \in 1..Len(stored') : stored'[i].turn <= turns'
    BY <1>1, <1>3, <1>12 DEF NInv, TurnsApart
  <2> QED BY <2>1, <2>2, <2>3 DEF TurnsApart
<1>14. ASSUME NEW s \in Run PROVE RunOK(run[s])'
  <2> DEFINE m == run'[s]
  <2>1. m \in RunState /\ RunOK(m)
    BY <1>2, <1>4, <1>6 DEF RunOK
  <2>2. Clamped(run[s])'
    BY <1>1, <2>1 DEF RunOK, Clamped
  <2>3. Snapshot(run[s].seen, run[s].since)'
    <3>1. Snapshot(m.seen, m.since) /\ m.since \in Nat /\ Len(m.seen) \in Nat
      BY <2>1 DEF RunOK, Conversing, RunState
    <3>2. Len(stored') \in Nat /\ Len(stored') >= Len(stored)
      BY <1>2, <1>7
    <3> HIDE DEF m
    <3>3. ASSUME NEW messages, NEW l \in Nat, Snapshot(messages, l), Len(messages) \in Nat
          PROVE  Snapshot(messages, l)'
      BY <1>7, <3>2, <3>3, SnapshotStays
    <3> QED BY <3>1, <3>3 DEF m
  <2>4. \A i \in 1..Len(stored') : stored'[i].turn # m.turn
    BY <1>3, <1>4, <1>11, <1>12, <2>1, SMTT(30) DEF RunOK, Conversing, Turn
  <2>5. (m.pc \in {"load", "approve", "persist"} => m.turn # 0) /\ m.turn <= turns'
    BY <1>1, <2>1 DEF RunOK, Conversing
  <2> QED BY <2>1, <2>2, <2>3, <2>4, <2>5 DEF RunOK, Conversing
<1> QED BY <1>8, <1>9, <1>10, <1>13, <1>14 DEF NInv


(* A plan that goes up raises what a run may do; one that goes down leaves *)
(* it what it was clamped to.                                              *)
LEMMA ChangePlanStep == NInv /\ ChangePlan => NInv'
<1> SUFFICES ASSUME NInv, ChangePlan PROVE NInv'
  OBVIOUS
<1> USE EngineAssumption
<1>1. /\ ceiling' \in Ceilings /\ UNCHANGED <<queries, turns, history, stored>>
      /\ run' = [r \in Run |-> [run[r] EXCEPT !.top = IF @ < ceiling' THEN ceiling' ELSE @]]
      /\ EngineTypeOK /\ Quota /\ \A r \in Run : RunOK(run[r])
  BY DEF ChangePlan, conversation, NInv
<1>2. ASSUME NEW r \in Run
      PROVE  \E top \in Ceilings :
               /\ run'[r] = [run[r] EXCEPT !.top = top] /\ run'[r] \in RunState
               /\ run[r].top <= top /\ ceiling' <= top
  <2> DEFINE top == IF run[r].top < ceiling' THEN ceiling' ELSE run[r].top
  <2>1. run'[r] = [run[r] EXCEPT !.top = top] /\ run[r] \in RunState /\ run[r].top \in Ceilings
    BY <1>1 DEF RunOK, RunState
  <2>2. top \in Ceilings /\ run[r].top <= top /\ ceiling' <= top
    BY <1>1, <2>1 DEF Ceilings, Supervised, Autonomous
  <2> HIDE DEF top
  <2>3. [run[r] EXCEPT !.top = top] \in RunState
    BY <2>1, <2>2, RunUpdates
  <2> QED BY <2>1, <2>2, <2>3
<1>3. \A r \in Run :
        /\ run'[r] \in RunState /\ run'[r].pc = run[r].pc /\ run'[r].turn = run[r].turn
        /\ run'[r].seen = run[r].seen /\ run'[r].since = run[r].since /\ run'[r].level = run[r].level
        /\ run'[r].iterations = run[r].iterations /\ run'[r].calls = run[r].calls
        /\ run'[r].top \in Ceilings /\ run[r].top <= run'[r].top /\ ceiling' <= run'[r].top
  <2> TAKE r \in Run
  <2>1. PICK top \in Ceilings :
          /\ run'[r] = [run[r] EXCEPT !.top = top] /\ run'[r] \in RunState
          /\ run[r].top <= top /\ ceiling' <= top
    BY <1>2
  <2>2. run[r] \in RunState
    BY <1>1 DEF RunOK
  <2> QED BY <2>1, <2>2 DEF RunState
<1>4. EngineTypeOK'
  BY <1>1, <1>3 DEF EngineTypeOK
<1>5. Quota'
  <2>1. \A r \in Run : Left(run'[r]) = Left(run[r])
    BY <1>3 DEF Left
  <2>2. Allowed' = Allowed
    BY <2>1 DEF Allowed
  <2> QED BY <1>1, <2>2 DEF Quota, AllCalls
<1>6. Snapshot(history, Len(stored))' /\ TurnsApart'
  <2>1. \A r \in Run : run'[r].turn = run[r].turn
    BY <1>3
  <2>2. Snapshot(history, Len(stored))'
    BY <1>1 DEF NInv, Snapshot
  <2>3. TurnsApart'
    <3>1. turns' = turns /\ stored' = stored /\ TurnsApart
      BY <1>1 DEF NInv
    <3> QED BY <2>1, <3>1 DEF TurnsApart
  <2> QED BY <2>2, <2>3
<1>7. ASSUME NEW r \in Run PROVE RunOK(run[r])'
  <2>1. RunOK(run[r]) /\ run[r].level \in Ceilings /\ run[r].top \in Ceilings
    BY <1>1 DEF RunOK, RunState
  <2>2. run[r].level <= run[r].top => run'[r].level <= run'[r].top
    BY <1>3, <2>1 DEF Ceilings, Supervised, Autonomous
  <2>3. Clamped(run[r])'
    <3>1. /\ run'[r].pc = run[r].pc /\ run'[r].level = run[r].level /\ run'[r].calls = run[r].calls
          /\ ceiling' <= run'[r].top
      BY <1>3
    <3>2. Clamped(run[r])
      BY <2>1 DEF RunOK
    <3> QED BY <2>2, <3>1, <3>2 DEF Clamped
  <2>4. Conversing(run[r])'
    <3>1. /\ run'[r].pc = run[r].pc /\ run'[r].turn = run[r].turn
          /\ run'[r].seen = run[r].seen /\ run'[r].since = run[r].since
          /\ turns' = turns /\ stored' = stored
      BY <1>1, <1>3
    <3>2. Conversing(run[r])
      BY <2>1 DEF RunOK
    <3> QED BY <3>1, <3>2 DEF Conversing, Snapshot
  <2> QED BY <1>3, <2>3, <2>4 DEF RunOK
<1> QED BY <1>4, <1>5, <1>6, <1>7 DEF NInv

LEMMA NewMonthStep == NInv /\ NewMonth => NInv'
<1> SUFFICES ASSUME NInv, NewMonth PROVE NInv'
  OBVIOUS
<1>1. queries' = 0 /\ UNCHANGED <<ceiling, turns, history, stored, run>>
  BY DEF NewMonth, conversation
<1>2. Quota'
  <2>1. Cardinality(Allowed') \in Nat /\ Cardinality(Allowed') <= AllCalls /\ AllCalls' = AllCalls
    BY AllowedAfter DEF AllCalls
  <2> QED BY <1>1, <2>1, AllCallsType, EngineAssumption DEF Quota
<1>3. EngineTypeOK'
  BY <1>1 DEF NInv, EngineTypeOK
<1>4. Snapshot(history, Len(stored))' /\ TurnsApart'
  BY <1>1 DEF NInv, Snapshot, SnapshotOf, TurnsApart
<1>5. \A r \in Run : RunOK(run[r])'
  BY <1>1 DEF NInv, RunOK, Clamped, Conversing, Snapshot
<1> QED BY <1>2, <1>3, <1>4, <1>5 DEF NInv

LEMMA EngineInitInv == EngineInit => NInv
<1> SUFFICES ASSUME EngineInit PROVE NInv
  OBVIOUS
<1> USE EngineAssumption
<1>1. Idle \in RunState
  BY DEF Idle, RunState, Ceilings, Supervised
<1>2. EngineTypeOK
  BY <1>1 DEF EngineInit, EngineTypeOK, Ceilings
<1>3. /\ Len(stored) = 0 /\ Len(history) = 0 /\ stored = <<>> /\ history = <<>>
      /\ \A r \in Run : run[r] = Idle
  BY DEF EngineInit
<1>4. Snapshot(history, Len(stored)) /\ Snapshot(<<>>, 0)
  BY <1>3 DEF Snapshot, SnapshotOf
<1>5. TurnsApart
  <2>1. \A r \in Run : run[r].turn = 0
    BY <1>3 DEF Idle
  <2> QED BY <1>3, <2>1 DEF TurnsApart
<1>6. ASSUME NEW r \in Run PROVE RunOK(run[r])
  <2>1. /\ run[r] = Idle /\ Idle.pc = "idle" /\ Idle.turn = 0 /\ Idle.seen = <<>> /\ Idle.since = 0
        /\ \A t \in Tool : Idle.calls[t] = 0
    BY <1>3 DEF Idle
  <2>2. Clamped(Idle)
    BY <2>1 DEF Clamped
  <2>3. Conversing(Idle)
    <3>1. turns = 0 /\ 0 <= 0
      BY DEF EngineInit
    <3> QED BY <1>3, <1>4, <2>1, <3>1 DEF Conversing
  <2> QED BY <1>1, <2>1, <2>2, <2>3 DEF RunOK
<1>7. Quota
  <2>1. \A r \in Run : Left(run[r]) = 0
    BY <1>3 DEF Left, Idle
  <2>2. Allowed = {}
    BY <2>1 DEF Allowed
  <2>3. Cardinality({}) = 0
    BY FS_EmptySet
  <2> QED BY <2>2, <2>3, AllCallsType DEF Quota, EngineInit
<1> QED BY <1>2, <1>4, <1>5, <1>6, <1>7, <1>3 DEF NInv

LEMMA EngineStepInv == NInv /\ [EngineNext]_engineVars => NInv'
<1> SUFFICES ASSUME NInv, [EngineNext]_engineVars PROVE NInv'
  OBVIOUS
<1>1. ASSUME NEW r \in Run, EngineStep(r) PROVE NInv'
  BY <1>1, LoopStep, PersistTurnStep DEF EngineStep
<1>2. ASSUME NEW r \in Run, OpenChat(r) \/ StartEventRun(r) \/ OpenAssistant(r) \/ AnswerAssistant(r)
      PROVE  NInv'
  BY <1>2, LoopStep, OpenChatStep
<1>3. CASE ChangePlan \/ NewMonth
  BY <1>3, ChangePlanStep, NewMonthStep
<1>4. CASE UNCHANGED engineVars
  <2>1. UNCHANGED <<ceiling, queries, turns, history, stored, run>>
    BY <1>4 DEF engineVars
  <2>2. EngineTypeOK' /\ Quota' /\ TurnsApart' /\ Snapshot(history, Len(stored))'
    BY <2>1 DEF NInv, EngineTypeOK, Quota, AllCalls, Allowed, TurnsApart, Snapshot, SnapshotOf
  <2>3. \A r \in Run : RunOK(run[r])'
    BY <2>1, SMTT(30) DEF NInv, RunOK, Clamped, Conversing, Snapshot, SnapshotOf
  <2> QED BY <2>2, <2>3 DEF NInv
<1> QED BY <1>1, <1>2, <1>3, <1>4 DEF EngineNext

(* The invariant holds in every state of the engine. *)
LEMMA EngineInvariance == EngineSpec => []NInv
BY EngineInitInv, EngineStepInv, PTL DEF EngineSpec

(* The month's quota is overshot by the runs that passed the check         *)
(* together, each by its own calls at most, for any number of runs and     *)
(* any limits (ai-usage.service.ts, engine.ts).                            *)
THEOREM QuotaIsBounded == EngineSpec => []QuotaBounded
<1>1. NInv => QuotaBounded
  BY AllowedBounded, AllCallsType, EngineAssumption DEF NInv, EngineTypeOK, Quota, AllCalls, QuotaBounded
<1> QED BY <1>1, EngineInvariance, PTL

(* A tool that requires approval is used by itself only in a run that had  *)
(* a plan with the autonomy for it (engine.ts:373).                        *)
THEOREM CeilingIsHeld == EngineSpec => []CeilingHeld
<1>1. NInv => CeilingHeld
  <2> SUFFICES ASSUME NInv, NEW r \in Run, NEW t \in RequiresApproval, run[r].calls[t] > 0
               PROVE  run[r].top = Autonomous
    BY DEF CeilingHeld
  <2>1. t \in Tool /\ RunOK(run[r])
    BY EngineAssumption DEF NInv
  <2>2. /\ run[r].level = Autonomous /\ run[r].level <= run[r].top
        /\ run[r].top \in Ceilings
    BY <2>1 DEF RunOK, RunState, Clamped
  <2> QED BY <2>2 DEF Ceilings, Supervised, Autonomous
<1> QED BY <1>1, EngineInvariance, PTL

(* No stored turn is lost from the conversation but to the cap, or to a    *)
(* turn whose request had read the conversation before it was there, for   *)
(* any number of requests and any cap (cortex.routes.ts, engine.ts).       *)
THEOREM HistoryIsKept == EngineSpec => []HistoryKept
<1>1. NInv => HistoryKept
  <2> SUFFICES ASSUME NInv PROVE HistoryKept
    OBVIOUS
  <2>1. DOMAIN stored = 1..Len(stored)
    BY DEF NInv, EngineTypeOK
  <2> QED BY <2>1 DEF NInv, Snapshot, SnapshotOf, HistoryKept
<1> QED BY <1>1, EngineInvariance, PTL

-----------------------------------------------------------------------------
(* Deciding an approval *)

AInv == ApprovalTypeOK /\ DecisionStands

LEMMA ApprovalStepInv == AInv /\ [ApprovalNext]_approvalVars => AInv'
<1> SUFFICES ASSUME AInv, [ApprovalNext]_approvalVars PROVE AInv'
  OBVIOUS
<1> USE DEF AInv
<1> DEFINE Made == announced \cup {reviewer[v] : v \in Reviewer}
<1>1. CASE UNCHANGED approvalVars
  BY <1>1 DEF approvalVars, ApprovalTypeOK, DecisionStands
<1>2. \A d \in Made : d \in Decided \cup {Nothing}
  BY DEF ApprovalTypeOK
<1>3. ASSUME NEW a \in Asked, AskApproval(a) PROVE AInv'
  <2>1. ApprovalTypeOK'
    BY <1>3 DEF AskApproval, ApprovalTypeOK
  <2>2. \A d \in Made : d # Nothing => d.id \in Asked /\ d.id # a /\ approval[d.id] = d.as
    BY <1>2, <1>3 DEF AskApproval, DecisionStands, Decided, Decision
  <2>3. DecisionStands'
    BY <1>3, <2>2 DEF AskApproval, DecisionStands, ApprovalTypeOK
  <2> QED BY <2>1, <2>3
<1>4. ASSUME NEW v \in Reviewer, NEW a \in Asked, NEW as \in Decision, Decide(v, a, as) PROVE AInv'
  <2> DEFINE new == [id |-> a, as |-> as]
  <2>0. new \in Decided
    BY DEF Decided
  <2>1. ApprovalTypeOK'
    BY <1>4, <2>0 DEF Decide, ApprovalTypeOK
  <2>2. \A d \in Made : d # Nothing => d.id \in Asked /\ d.id # a /\ approval[d.id] = d.as
    BY <1>2, <1>4 DEF Decide, Pending, DecisionStands, Decided, Decision
  <2>3. \A d \in Made' : d \in Made \/ d = new
    BY <1>4 DEF Decide, ApprovalTypeOK
  <2>4. approval'[a] = as /\ \A b \in Asked : b # a => approval'[b] = approval[b]
    BY <1>4 DEF Decide, ApprovalTypeOK
  <2>5. \A d \in Made' : d # Nothing => approval'[d.id] = d.as
    <3> SUFFICES ASSUME NEW d \in Made', d # Nothing PROVE approval'[d.id] = d.as
      OBVIOUS
    <3>1. CASE d = new
      <4>1. d.id = a /\ d.as = as
        BY <3>1
      <4> QED BY <2>4, <4>1
    <3>2. CASE d \in Made
      <4>1. d.id \in Asked /\ d.id # a /\ approval[d.id] = d.as
        BY <2>2, <3>2
      <4> QED BY <2>4, <4>1
    <3> QED BY <2>3, <3>1, <3>2
  <2>6. DecisionStands'
    BY <2>5 DEF DecisionStands
  <2> QED BY <2>1, <2>6
<1>5. ASSUME NEW v \in Reviewer, EmitDecision(v) PROVE AInv'
  <2>1. ApprovalTypeOK'
    BY <1>5 DEF EmitDecision, ApprovalTypeOK
  <2>2. \A d \in Made' : d \in Made \/ d = Nothing
    BY <1>5 DEF EmitDecision, ApprovalTypeOK
  <2>3. DecisionStands'
    BY <1>5, <2>2 DEF EmitDecision, DecisionStands
  <2> QED BY <2>1, <2>3
<1> QED BY <1>1, <1>3, <1>4, <1>5 DEF ApprovalNext, Approve, Reject, Decision

LEMMA ApprovalInitInv == ApprovalInit => AInv
BY DEF ApprovalInit, AInv, ApprovalTypeOK, DecisionStands

(* The invariant holds in every state of the approvals. *)
LEMMA ApprovalInvariance == ApprovalSpec => []AInv
BY ApprovalInitInv, ApprovalStepInv, PTL DEF ApprovalSpec

(* One decision of an approval stands and no other is announced, for any   *)
(* number of reviewers (cortex.routes.ts:551).                             *)
THEOREM DecisionsStand == ApprovalSpec => []DecisionStands
<1>1. AInv => DecisionStands
  BY DEF AInv
<1> QED BY <1>1, ApprovalInvariance, PTL

=============================================================================
