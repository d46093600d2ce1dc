----------------------------- MODULE CortexEvents -----------------------------
(***************************************************************************)
(* Events from emitEvent to the agent that acts on them: a row in          *)
(* cortex_events, a job in a BullMQ queue that delivers at least once, and *)
(* workers that load the row, run the agent the event's type is registered *)
(* for and mark the row.  Processes are lost, the database fails, and a    *)
(* worker that seems lost may still be at work.                            *)
(***************************************************************************)
EXTENDS Naturals, FiniteSets

CONSTANTS
  Event, Handled,   \* the events, and those with a registered agent
  CortexWorker,     \* worker processes of the cortex queue
  EventAttempts,    \* attempts of a job whose processor throws
  EventStalls       \* times BullMQ takes a job back from a lost worker

ASSUME EventAssumption ==
  /\ IsFiniteSet(CortexWorker) /\ Handled \subseteq Event
  /\ EventAttempts \in Nat \ {0} /\ EventStalls \in Nat

VARIABLES
  emission,   \* how far emitEvent has come
  row,        \* the event's row: absent, new or processed
  job,        \* its job
  worker,     \* what each worker does
  acted       \* the agent runs started for each event

eventVars == <<emission, row, job, worker, acted>>

Free == [pc |-> "free", event |-> "none"]

EventInit ==
  /\ emission = [e \in Event |-> "due"]
  /\ row = [e \in Event |-> "absent"]
  /\ job = [e \in Event |-> [state |-> "absent", owner |-> {}, tries |-> 0, stalls |-> 0]]
  /\ worker = [w \in CortexWorker |-> Free]
  /\ acted = [e \in Event |-> 0]

(* The row is written first; an event that cannot be stored is lost. *)
StoreEvent(e) ==
  /\ emission[e] = "due"
  /\ \/ row' = [row EXCEPT ![e] = "new"] /\ emission' = [emission EXCEPT ![e] = "stored"]
     \/ UNCHANGED row /\ emission' = [emission EXCEPT ![e] = "over"]
  /\ UNCHANGED <<job, worker, acted>>

(* Then the job is queued, unless Redis or the process fails. *)
QueueEvent(e) ==
  /\ emission[e] = "stored"
  /\ emission' = [emission EXCEPT ![e] = "over"]
  /\ \/ job' = [job EXCEPT ![e].state = "waiting"]
     \/ UNCHANGED job
  /\ UNCHANGED <<row, worker, acted>>

-----------------------------------------------------------------------------
(* BullMQ *)

TakeJob(w, e) ==
  /\ worker[w] = Free /\ job[e].state = "waiting"
  /\ job' = [job EXCEPT ![e].state = "active", ![e].owner = {w}]
  /\ worker' = [worker EXCEPT ![w] = [pc |-> "load", event |-> e]]
  /\ UNCHANGED <<emission, row, acted>>

(* The lock of an active job has run out, its worker lost or only slow. *)
StallJob(e) ==
  LET again == job[e].stalls < EventStalls
  IN
  /\ job[e].state = "active"
  /\ job' = [job EXCEPT ![e].owner = {},
                        ![e].state = IF again THEN "waiting" ELSE "failed",
                        ![e].stalls = IF again THEN @ + 1 ELSE @]
  /\ UNCHANGED <<emission, row, worker, acted>>

(* The processor throws or returns: the result counts while the worker     *)
(* holds the lock.                                                         *)
Resolve(w, state, tries) ==
  LET e == worker[w].event
  IN job' = IF w \in job[e].owner
            THEN [job EXCEPT ![e].owner = {}, ![e].state = state, ![e].tries = tries]
            ELSE job

Throw(w) ==
  LET tries == job[worker[w].event].tries + 1
  IN Resolve(w, IF tries < EventAttempts THEN "waiting" ELSE "failed", tries)

Return(w) == Resolve(w, "completed", job[worker[w].event].tries)

WorkerLost(w) ==
  /\ worker[w] # Free
  /\ worker' = [worker EXCEPT ![w] = Free]
  /\ UNCHANGED <<emission, row, job, acted>>

-----------------------------------------------------------------------------
(* processCortexEvent *)

Goes(w, pc) == worker' = [worker EXCEPT ![w].pc = pc]

AlreadyProcessed(e) == row[e] = "processed"

(* The row is absent or processed already, or the query throws: the job is *)
(* over with this attempt.                                                 *)
DropEvent(w) ==
  /\ worker[w].pc = "load"
  /\ \/ /\ row[worker[w].event] = "absent" \/ AlreadyProcessed(worker[w].event)
        /\ Return(w)
     \/ Throw(w)
  /\ worker' = [worker EXCEPT ![w] = Free]
  /\ UNCHANGED <<emission, row, acted>>

(* Without an agent, or without a key for the model, the row is only       *)
(* marked.                                                                 *)
NoHandler(w) ==
  /\ worker[w].pc = "load" /\ row[worker[w].event] = "new"
  /\ Goes(w, "mark")
  /\ UNCHANGED <<emission, row, job, acted>>

(* executeAgent, which is CortexEngine's, starts; it always returns. *)
RunAgent(w) ==
  LET e == worker[w].event
  IN
  /\ worker[w].pc = "load"
  /\ e \in Handled /\ row[e] # "absent" /\ ~AlreadyProcessed(e)
  /\ acted' = [acted EXCEPT ![e] = @ + 1]
  /\ Goes(w, "running")
  /\ UNCHANGED <<emission, row, job>>

AgentDone(w) ==
  /\ worker[w].pc = "running"
  /\ Goes(w, "mark")
  /\ UNCHANGED <<emission, row, job, acted>>

\* An attempt that cannot mark the row throws.
MarkOrThrow(w) ==
  /\ worker[w].pc = "mark"
  /\ \/ row' = [row EXCEPT ![worker[w].event] = "processed"] /\ Return(w)
     \/ UNCHANGED row /\ Throw(w)
  /\ worker' = [worker EXCEPT ![w] = Free]
  /\ UNCHANGED <<emission, acted>>

(* A row that cannot be marked is left as it is, and the job completes. *)
MarkProcessed(w) ==
  /\ worker[w].pc = "mark"
  /\ row' \in {row, [row EXCEPT ![worker[w].event] = "processed"]}
  /\ Return(w)
  /\ worker' = [worker EXCEPT ![w] = Free]
  /\ UNCHANGED <<emission, acted>>

ProcessorStep(w) ==
  DropEvent(w) \/ NoHandler(w) \/ RunAgent(w) \/ AgentDone(w) \/ MarkProcessed(w)

EventNext ==
  \/ \E e \in Event : StoreEvent(e) \/ QueueEvent(e) \/ StallJob(e)
  \/ \E w \in CortexWorker : ProcessorStep(w) \/ WorkerLost(w) \/ \E e \in Event : TakeJob(w, e)

EventSpec == EventInit /\ [][EventNext]_eventVars

-----------------------------------------------------------------------------
(* Properties *)

JobState ==
  [state : {"absent", "waiting", "active", "completed", "failed"}, owner : SUBSET CortexWorker,
   tries : 0..EventAttempts, stalls : 0..EventStalls]

EventTypeOK ==
  /\ emission \in [Event -> {"due", "stored", "over"}]
  /\ row \in [Event -> {"absent", "new", "processed"}]
  /\ job \in [Event -> JobState]
  /\ worker \in [CortexWorker -> {Free} \cup [pc : {"load", "running", "mark"}, event : Event]]
  /\ acted \in [Event -> Nat]

(* An agent that acts on an event twice pays or writes twice: it does so   *)
(* only once more for each time BullMQ took the job from a worker that was *)
(* lost or slow, never for an attempt that threw or a row left unmarked.   *)
ActsBounded == \A e \in Event : acted[e] <= 1 + job[e].stalls
=============================================================================
