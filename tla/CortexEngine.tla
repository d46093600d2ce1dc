----------------------------- MODULE CortexEngine -----------------------------
(***************************************************************************)
(* The agentic loop of the Cortex (cortex/engine.ts) as its two callers    *)
(* run it for one account: the chat route, which keeps a conversation and  *)
(* queues approval requests, and the event processor, which does neither.  *)
(* The runs share the account's plan, its AI usage counter in Redis and    *)
(* one conversation; what becomes of the requests is in CortexApprovals.   *)
(*                                                                         *)
(* A turn is a message of the user with the answer to it.  What the model  *)
(* answers is any sequence of tool uses.                                   *)
(***************************************************************************)
EXTENDS Naturals, Sequences, FiniteSets

CONSTANTS
  Tool,           \* the tools with side effects; those that only read pass every gate but the cap
  RequiresApproval, \* the tools that delete, submit or cancel documents
  Run,            \* requests and workers that may run an agent at the same time
  QueryLimit,     \* AI queries per month
  MaxIterations,  \* calls to the model per run
  CallCap,        \* calls of one tool per run
  TurnsKept,      \* turns capHistory keeps
  MaxTurns        \* bounds the model: turns of the conversation

ASSUME EngineAssumption ==
  /\ RequiresApproval \subseteq Tool /\ IsFiniteSet(Run)
  /\ QueryLimit \in Nat \ {0} /\ MaxIterations \in Nat \ {0} /\ CallCap \in Nat \ {0}
  /\ TurnsKept \in Nat \ {0} /\ MaxTurns \in Nat \ {0}

VARIABLES
  ceiling,        \* maxAutonomyLevel of the account's plan
  queries,        \* the month's counter of AI queries
  turns,          \* turns begun
  history,        \* the conversation's messages, as turns
  stored,         \* the turns stored, in order, with how many there were when read
  run             \* the local state of each run

engineVars == <<ceiling, queries, turns, history, stored, run>>
conversation == <<turns, history, stored>>

Turn == 1..MaxTurns

\* Autonomy levels: a supervised agent proposes what an autonomous one does.
Supervised == 2
Autonomous == 3

(* The ceilings of the plans, and of a plan that is not known. *)
Ceilings == {Supervised, Autonomous}

Idle == [pc |-> "idle", turn |-> 0, seen |-> <<>>, since |-> 0, level |-> Supervised, top |-> Supervised,
         iterations |-> 0, calls |-> [t \in Tool |-> 0]]

EngineInit ==
  /\ ceiling = Supervised
  /\ queries = 0 /\ turns = 0 /\ history = <<>> /\ stored = <<>>
  /\ run = [r \in Run |-> Idle]

At(r, pc) == run[r].pc = pc

Update(r, new) == run' = [run EXCEPT ![r] = new]

WithinLimit == queries < QueryLimit

(* The chat route checks the quota before it opens the stream. *)
OpenChat(r) ==
  /\ At(r, "idle") /\ turns < MaxTurns
  /\ WithinLimit
  /\ turns' = turns + 1
  /\ Update(r, [Idle EXCEPT !.pc = "load", !.turn = turns + 1, !.top = ceiling])
  /\ UNCHANGED <<ceiling, queries, history, stored>>

LoadConversation(r) ==
  /\ At(r, "load")
  /\ Update(r, [run[r] EXCEPT !.pc = "clamp", !.seen = history, !.since = Len(stored)])
  /\ UNCHANGED <<ceiling, queries, conversation>>

(* A worker runs an agent for an event, see CortexEvents. *)
StartEventRun(r) ==
  /\ At(r, "idle")
  /\ Update(r, [Idle EXCEPT !.pc = "clamp", !.top = ceiling])
  /\ UNCHANGED <<ceiling, queries, conversation>>

(* The run ends: the chat route goes on with what it returned, while the   *)
(* processor has no use for a pending action.                              *)
Ended(new, asks) ==
  IF new.turn = 0 THEN Idle
  ELSE [Idle EXCEPT !.pc = IF asks THEN "approve" ELSE "persist",
                    !.turn = new.turn, !.seen = new.seen, !.since = new.since]

End(r, asks) == Update(r, Ended(run[r], asks))

\* A clamp that fails open.
ClampOpen(r) ==
  /\ At(r, "clamp")
  /\ \E level \in {ceiling, Autonomous} : Update(r, [run[r] EXCEPT !.pc = "gate", !.level = level])
  /\ UNCHANGED <<ceiling, queries, conversation>>

(* The level is clamped to the plan's, or to supervised when the plan      *)
(* cannot be read.                                                         *)
ClampAutonomy(r) ==
  /\ At(r, "clamp")
  /\ \E level \in {ceiling, Supervised} : Update(r, [run[r] EXCEPT !.pc = "gate", !.level = level])
  /\ UNCHANGED <<ceiling, queries, conversation>>

\* Only the chat route looks at the quota.
CheckNothing(r) ==
  /\ At(r, "gate")
  /\ Update(r, [run[r] EXCEPT !.pc = "call"])
  /\ UNCHANGED <<ceiling, queries, conversation>>

(* A run out of quota, or whose quota cannot be read, never starts. *)
CheckLimit(r) ==
  /\ At(r, "gate")
  /\ \/ WithinLimit /\ Update(r, [run[r] EXCEPT !.pc = "call"])
     \/ End(r, FALSE)
  /\ UNCHANGED <<ceiling, queries, conversation>>

(* One call to the model, whose usage is recorded when Redis is there. *)
Answer(r) ==
  /\ At(r, "call") /\ run[r].iterations < MaxIterations
  /\ queries' \in {queries, queries + 1}
  /\ LET called == [run[r] EXCEPT !.iterations = @ + 1]
     IN Update(r, [called EXCEPT !.pc = "tools"]) \/ Update(r, Ended(called, FALSE))
  /\ UNCHANGED <<ceiling, conversation>>

(* The deadline has passed, or the call fails. *)
GiveUp(r) ==
  /\ At(r, "call") /\ run[r].iterations < MaxIterations
  /\ End(r, FALSE)
  /\ UNCHANGED <<ceiling, queries, conversation>>

IterationsSpent(r) ==
  /\ At(r, "call") /\ run[r].iterations = MaxIterations
  /\ End(r, FALSE)
  /\ UNCHANGED <<ceiling, queries, conversation>>

(* An unknown tool, or one beyond its cap, is answered with an error and   *)
(* changes nothing.                                                        *)
Callable(r, t) == At(r, "tools") /\ run[r].calls[t] < CallCap

(* The amount the engine finds in the input may exceed the limit of the    *)
(* agent; it finds none in most.                                           *)
Impact == BOOLEAN

MustAsk(r, t, costly) ==
  \/ t \in RequiresApproval /\ run[r].level < Autonomous
  \/ costly

(* The engine halts at a tool that needs a human's consent. *)
Halt(r, t) ==
  /\ Callable(r, t)
  /\ \E costly \in Impact : MustAsk(r, t, costly)
  /\ End(r, TRUE)
  /\ UNCHANGED <<ceiling, queries, conversation>>

Execute(r, t) ==
  /\ Callable(r, t)
  /\ \E costly \in Impact : ~MustAsk(r, t, costly)
  /\ Update(r, [run[r] EXCEPT !.calls[t] = @ + 1])
  /\ UNCHANGED <<ceiling, queries, conversation>>

NextIteration(r) ==
  /\ At(r, "tools")
  /\ Update(r, [run[r] EXCEPT !.pc = "call"])
  /\ UNCHANGED <<ceiling, queries, conversation>>

(* The chat route queues the halted action; if it cannot, the handler is   *)
(* over and stores nothing.                                                *)
QueueApproval(r) ==
  /\ At(r, "approve")
  /\ Update(r, [run[r] EXCEPT !.pc = "persist"]) \/ Update(r, Idle)
  /\ UNCHANGED <<ceiling, queries, conversation>>

\* The history is not capped, or the wrong end of it kept.
CapNothing(messages) == messages
CapNewest(messages) ==
  SubSeq(messages, 1, IF Len(messages) > TurnsKept THEN TurnsKept ELSE Len(messages))

CapHistory(messages) ==
  SubSeq(messages, IF Len(messages) > TurnsKept THEN Len(messages) - TurnsKept + 1 ELSE 1, Len(messages))

(* The answered turn is appended to the messages the request has read. *)
PersistTurn(r) ==
  /\ At(r, "persist")
  /\ history' = CapHistory(Append(run[r].seen, run[r].turn))
  /\ stored' = Append(stored, [turn |-> run[r].turn, since |-> run[r].since])
  /\ Update(r, Idle)
  /\ UNCHANGED <<ceiling, queries, turns>>

PersistFails(r) ==
  /\ At(r, "persist")
  /\ Update(r, Idle)
  /\ UNCHANGED <<ceiling, queries, conversation>>

(* POST /ai/chat, the assistant there was before the Cortex: checked like  *)
(* a chat, with tools of its own and a history in Redis for an hour, and   *)
(* counted once for all its calls to the model, when none of them fails.   *)
OpenAssistant(r) ==
  /\ At(r, "idle")
  /\ WithinLimit
  /\ Update(r, [Idle EXCEPT !.pc = "assist"])
  /\ UNCHANGED <<ceiling, queries, conversation>>

AnswerAssistant(r) ==
  /\ At(r, "assist")
  /\ queries' \in {queries, queries + 1}
  /\ Update(r, Idle)
  /\ UNCHANGED <<ceiling, conversation>>

ChangePlan ==
  /\ ceiling' \in Ceilings \ {ceiling}
  /\ run' = [r \in Run |-> [run[r] EXCEPT !.top = IF @ < ceiling' THEN ceiling' ELSE @]]
  /\ UNCHANGED <<queries, conversation>>

(* The counter's key carries the month. *)
NewMonth ==
  /\ queries' = 0
  /\ UNCHANGED <<ceiling, conversation, run>>

EngineStep(r) ==
  \/ LoadConversation(r) \/ ClampAutonomy(r) \/ CheckLimit(r) \/ Answer(r) \/ GiveUp(r)
  \/ IterationsSpent(r) \/ NextIteration(r) \/ QueueApproval(r) \/ PersistTurn(r) \/ PersistFails(r)
  \/ \E t \in Tool : Halt(r, t) \/ Execute(r, t)

EngineNext ==
  \/ \E r \in Run : OpenChat(r) \/ StartEventRun(r) \/ OpenAssistant(r) \/ AnswerAssistant(r) \/ EngineStep(r)
  \/ ChangePlan \/ NewMonth

EngineSpec == EngineInit /\ [][EngineNext]_engineVars

-----------------------------------------------------------------------------
(* Properties *)

RunState ==
  [pc : {"idle", "load", "clamp", "gate", "call", "tools", "approve", "persist", "assist"},
   turn : 0..MaxTurns, seen : Seq(Turn), since : 0..MaxTurns, level : Ceilings,
   top : Ceilings, iterations : 0..MaxIterations,
   calls : [Tool -> 0..CallCap]]

EngineTypeOK ==
  /\ ceiling \in Ceilings
  /\ queries \in Nat /\ turns \in 0..MaxTurns
  /\ history \in Seq(Turn) /\ Len(history) <= TurnsKept
  /\ stored \in Seq([turn : Turn, since : 0..MaxTurns])
  /\ run \in [Run -> RunState]

(* checkAiLimit is read before the loop and the counter written after each *)
(* call in it: runs that pass the check together overshoot the limit, each *)
(* by the calls of one run and no more, whatever plan changes, failures    *)
(* and new runs come in between.                                           *)
QuotaBounded == queries < QueryLimit + Cardinality(Run) * MaxIterations

(* No run uses a tool that requires approval at an autonomy the plan never *)
(* had while it lasted: the clamp fails closed and is taken once for the    *)
(* whole loop (engine.ts:373-378).                                         *)
CeilingHeld ==
  \A r \in Run, t \in RequiresApproval : run[r].calls[t] > 0 => run[r].top = Autonomous

(* A stored turn leaves the conversation only when it is old enough to be  *)
(* capped, or to a turn whose request had read the messages before it was  *)
(* there: chats one after the other lose nothing.                          *)
InSeq(x, s) == \E i \in DOMAIN s : s[i] = x

HistoryKept ==
  \A i \in DOMAIN stored :
    \/ InSeq(stored[i].turn, history)
    \/ Len(stored) - i >= TurnsKept
    \/ \E j \in i + 1 .. Len(stored) : stored[j].since < i
=============================================================================
