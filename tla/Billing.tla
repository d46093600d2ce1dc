------------------------------- MODULE Billing -------------------------------
(***************************************************************************)
(* Billing of ONE account: the Paddle webhook handler                      *)
(* (src/routes/webhooks.routes.ts), markAccountPaid and signup             *)
(* (billing.service.ts), the subscription service                          *)
(* (subscription.service.ts), the queued job that inserts the subscription *)
(* (lib/jobs/queue.ts, the provisioning worker of workers/index.ts) and    *)
(* the two hourly jobs that block accounts (the cleanup worker).           *)
(*                                                                         *)
(* Paddle redelivers an event until it is answered 200, and may deliver it *)
(* to two handlers at once.  A handler may lose its process between any    *)
(* two awaits; a worker that loses its process leaves a stalled job, which *)
(* BullMQ runs again.  Every database call may fail.                       *)
(*                                                                         *)
(* Not here: plan changes and refunds, and cleanupExpiredTrialData, whose  *)
(* only write is refused by the CHECK constraint on accounts.status.       *)
(***************************************************************************)
EXTENDS Naturals, Sequences, FiniteSets

CONSTANTS
  Payment,       \* event ids of transaction.completed
  Cancellation,  \* event ids of subscription.canceled
  Handler,       \* webhook requests that can be in flight at the same time
  Attempts,      \* retry budget of a provisioning job
  TrialDays,     \* length of the trial given at signup
  Month,         \* length of the billing period
  GraceDays,     \* GRACE_PERIOD_DAYS
  KeyTtl,        \* WEBHOOK_IDEMPOTENCY_TTL_SEC, in days
  MaxCrashes,    \* bound on lost processes
  MaxTime,       \* bound on the clock
  MaxEvents,     \* bound on the events Paddle sends
  None           \* null

Event == Payment \cup Cancellation

ASSUME BillingAssumption ==
  /\ Attempts \in Nat \ {0} /\ MaxCrashes \in Nat /\ MaxTime \in Nat /\ MaxEvents \in Nat
  /\ TrialDays \in Nat /\ Month \in Nat \ {0} /\ GraceDays \in Nat /\ KeyTtl \in Nat \ {0}
  /\ IsFiniteSet(Handler)
  /\ Payment \cap Cancellation = {}
  /\ None \notin Nat \cup Event

VARIABLES
  now,       \* the clock, in days
  status,    \* Account.status
  trialEnd,  \* Account.trialEndsAt
  subs,      \* the Subscription rows, in the order they were inserted
  invoices,  \* how many BillingInvoice rows, all of them paid
  job,       \* the job with id provisioning:subscription:<accountId>
  key,       \* when the idempotency key of each event expires in Redis
  handler,   \* the webhook requests
  cron,      \* the two hourly jobs
  sentAt,    \* when Paddle began to deliver each event
  acked,     \* the events Paddle was answered 200 for
  crashes,   \* how many processes were lost
  applied,   \* history: how often each event changed the account
  lost       \* history: the events that only handlers which failed have had the key of

account == <<status, trialEnd, subs, invoices>>
paddle  == <<sentAt, acked>>
history == <<applied, lost>>
vars    == <<now, account, job, key, handler, cron, paddle, crashes, history>>

AccountStatus == {"active", "past_due", "canceled"}
Sub == [status : {"active", "past_due", "canceled"}, end : Nat]
JobState == {"none", "waiting", "active", "completed", "failed"}
Job == [state : JobState, step : {"create", "invoice", "finish"}, left : Nat, stalled : BOOLEAN]
NoJob == [state |-> "none", step |-> "create", left |-> 0, stalled |-> FALSE]
NewJob == [state |-> "waiting", step |-> "create", left |-> Attempts, stalled |-> FALSE]

FreeHandler == [pc |-> "free", event |-> None]

TypeOK ==
  /\ now \in Nat /\ status \in AccountStatus /\ trialEnd \in Nat \cup {None}
  /\ subs \in Seq(Sub) /\ invoices \in Nat
  /\ job \in Job
  /\ key \in [Event -> Nat \cup {None}] /\ sentAt \in [Event -> Nat \cup {None}]
  /\ acked \subseteq Event
  /\ handler \in [Handler -> [pc : {"free", "claim", "apply", "enqueue"}, event : Event \cup {None}]]
  /\ cron \in [trial : {"idle", "block"}, grace : {"idle", "read", "block"}]
  /\ crashes \in Nat
  /\ applied \in [Event -> Nat] /\ lost \subseteq Event

-----------------------------------------------------------------------------
(* createAccount has committed the account; the job was queued, or queueing *)
(* it failed and the failure was logged.                                    *)
Init ==
  /\ now = 0 /\ status = "active" /\ trialEnd = TrialDays
  /\ subs = <<>> /\ invoices = 0
  /\ job \in {NoJob, NewJob}
  /\ key = [e \in Event |-> None] /\ sentAt = [e \in Event |-> None] /\ acked = {}
  /\ handler = [h \in Handler |-> FreeHandler]
  /\ cron = [trial |-> "idle", grace |-> "idle"]
  /\ crashes = 0
  /\ applied = [e \in Event |-> 0] /\ lost = {}

Relabel(from, to) ==
  subs' = [i \in DOMAIN subs |-> IF subs[i].status = from THEN [subs[i] EXCEPT !.status = to]
                                                          ELSE subs[i]]

-----------------------------------------------------------------------------
(* Paddle *)

Emit(e) ==
  /\ sentAt[e] = None /\ Cardinality({d \in Event : sentAt[d] # None}) < MaxEvents
  /\ sentAt' = [sentAt EXCEPT ![e] = now]
  /\ UNCHANGED <<now, account, job, key, handler, cron, acked, crashes, history>>

(* The first delivery, a retry or a duplicate. *)
Deliver(h, e) ==
  /\ handler[h].pc = "free" /\ sentAt[e] # None
  /\ handler' = [handler EXCEPT ![h] = [pc |-> "claim", event |-> e]]
  /\ UNCHANGED <<now, account, job, key, cron, paddle, crashes, history>>

(* Response 200; the handler is done. *)
Acknowledge(h) ==
  /\ acked' = acked \cup {handler[h].event}
  /\ handler' = [handler EXCEPT ![h] = FreeHandler]

Continue(h, pc) == handler' = [handler EXCEPT ![h].pc = pc]

-----------------------------------------------------------------------------
(* POST /webhooks/paddle *)

(* A key that was set and has not expired. *)
Held(e) == key[e] # None /\ now < key[e]

SetKey(e) == key' = [key EXCEPT ![e] = now + KeyTtl]

(* The history: a handler gives up an event whose key is set, or applies   *)
(* it.                                                                     *)
LoseEvent(e) == lost' = IF applied[e] = 0 THEN lost \cup {e} ELSE lost

Change(e) == applied' = [applied EXCEPT ![e] = @ + 1] /\ lost' = lost \ {e}

(* Mutant: SET without NX. *)
ClaimAnyway(h) ==
  /\ handler[h].pc = "claim"
  /\ SetKey(handler[h].event)
  /\ Continue(h, "apply")
  /\ UNCHANGED <<now, account, job, cron, paddle, crashes, history>>

(* Mutant: a duplicate is dropped without an answer. *)
ClaimSilently(h) ==
  LET e == handler[h].event IN
  /\ handler[h].pc = "claim"
  /\ IF Held(e) THEN UNCHANGED key ELSE SetKey(e)
  /\ handler' = [handler EXCEPT ![h] = IF Held(e) THEN FreeHandler ELSE [@ EXCEPT !.pc = "apply"]]
  /\ UNCHANGED <<now, account, job, cron, paddle, crashes, history>>

(* SET webhook:paddle:<eventId> EX NX: who finds no key goes on, any other *)
(* delivery is answered at once.                                           *)
Claim(h) ==
  LET e == handler[h].event IN
  /\ handler[h].pc = "claim"
  /\ \/ Held(e) /\ Acknowledge(h) /\ UNCHANGED key
     \/ ~Held(e) /\ SetKey(e) /\ Continue(h, "apply") /\ UNCHANGED acked
  /\ UNCHANGED <<now, account, job, cron, sentAt, crashes, history>>

(* The rate limiter answers 429, or Redis throws and Express answers 500,  *)
(* when the key may have been set.                                         *)
ClaimFails(h) ==
  LET e == handler[h].event IN
  /\ handler[h].pc = "claim"
  /\ \/ UNCHANGED <<key, lost>>
     \/ ~Held(e) /\ SetKey(e) /\ LoseEvent(e)
  /\ handler' = [handler EXCEPT ![h] = FreeHandler]
  /\ UNCHANGED <<now, account, job, cron, paddle, crashes, applied>>

(* markAccountPaid updates the account: active, and no longer on trial. *)
MarkPaid(h) ==
  LET e == handler[h].event IN
  /\ handler[h].pc = "apply" /\ e \in Payment
  /\ status' = "active" /\ trialEnd' = None
  /\ Change(e)
  /\ Continue(h, "enqueue")
  /\ UNCHANGED <<now, subs, invoices, job, key, cron, paddle, crashes>>

(* ...and then queues the job that inserts the subscription.  An add with  *)
(* the id of a job BullMQ still knows, whatever its state, does nothing; a *)
(* failed add is only logged.                                              *)
EnqueueSubscription(h) ==
  /\ handler[h].pc = "enqueue"
  /\ job' \in (IF job.state = "none" THEN {job, NewJob} ELSE {job})
  /\ Acknowledge(h)
  /\ UNCHANGED <<now, account, key, cron, sentAt, crashes, history>>

(* cancelSubscription: both rows in one transaction. *)
CancelSubscription ==
  /\ Relabel("active", "canceled")
  /\ status' = "canceled"
  /\ UNCHANGED <<trialEnd, invoices>>

WebhookCancel(h) ==
  LET e == handler[h].event IN
  /\ handler[h].pc = "apply" /\ e \in Cancellation
  /\ CancelSubscription
  /\ Change(e)
  /\ Acknowledge(h)
  /\ UNCHANGED <<now, job, key, cron, sentAt, crashes>>

(* A database error: both services return err(...), which the handler logs *)
(* or ignores before it answers 200.                                       *)
ApplyFails(h) ==
  /\ handler[h].pc = "apply"
  /\ LoseEvent(handler[h].event)
  /\ Acknowledge(h)
  /\ UNCHANGED <<now, account, job, key, cron, sentAt, crashes, applied>>

(* The process is lost: no answer. *)
HandlerCrash(h) ==
  /\ handler[h].pc # "free" /\ crashes < MaxCrashes
  /\ crashes' = crashes + 1
  /\ IF handler[h].pc = "apply" THEN LoseEvent(handler[h].event) ELSE UNCHANGED lost
  /\ handler' = [handler EXCEPT ![h] = FreeHandler]
  /\ UNCHANGED <<now, account, job, key, cron, paddle, applied>>

-----------------------------------------------------------------------------
(* POST /billing/cancel *)
OwnerCancel ==
  /\ CancelSubscription
  /\ UNCHANGED <<now, job, key, handler, cron, paddle, crashes, history>>

-----------------------------------------------------------------------------
(* The provisioning worker: createSubscription inserts the subscription,   *)
(* then its paid invoice, in two statements.                               *)

JobOnly == UNCHANGED <<now, account, key, handler, cron, paddle, crashes, history>>

JobStart ==
  /\ job.state = "waiting"
  /\ job' = [job EXCEPT !.state = "active", !.step = "create"]
  /\ JobOnly

JobCreate ==
  /\ job.state = "active" /\ job.step = "create"
  /\ subs' = Append(subs, [status |-> "active", end |-> now + Month])
  /\ job' = [job EXCEPT !.step = "invoice"]
  /\ UNCHANGED <<now, status, trialEnd, invoices, key, handler, cron, paddle, crashes, history>>

JobInvoice ==
  /\ job.state = "active" /\ job.step = "invoice"
  /\ invoices' = invoices + 1
  /\ job' = [job EXCEPT !.step = "finish"]
  /\ UNCHANGED <<now, status, trialEnd, subs, key, handler, cron, paddle, crashes, history>>

JobComplete ==
  /\ job.state = "active" /\ job.step = "finish"
  /\ job' = [job EXCEPT !.state = "completed"]
  /\ JobOnly

(* Mutant: the job can also fail after its last insert. *)
JobFailAnywhere ==
  /\ job.state = "active"
  /\ job' = [job EXCEPT !.left = @ - 1,
                        !.state = IF job.left > 1 THEN "waiting" ELSE "failed"]
  /\ JobOnly

(* Either statement fails: err(...), the worker throws, BullMQ retries. *)
JobFail ==
  /\ job.state = "active" /\ job.step \in {"create", "invoice"}
  /\ job' = [job EXCEPT !.left = @ - 1,
                        !.state = IF job.left > 1 THEN "waiting" ELSE "failed"]
  /\ JobOnly

(* The worker's process is lost.  A job may stall once. *)
JobStall ==
  /\ job.state = "active" /\ crashes < MaxCrashes
  /\ crashes' = crashes + 1
  /\ job' = [job EXCEPT !.stalled = TRUE, !.state = IF job.stalled THEN "failed" ELSE "waiting"]
  /\ UNCHANGED <<now, account, key, handler, cron, paddle, history>>

-----------------------------------------------------------------------------
(* Mutant: any active subscription counts as paid. *)
PaidSubAny(i) == subs[i].end > 0

(* checkTrialExpiry: a read, then a transaction that trusts it.  A         *)
(* subscription counts as paid when it has a paymentSubscriptionId, which  *)
(* no code ever writes.                                                    *)

PaidSub(i) == FALSE

(* Mutant: any trial with a date counts as over. *)
TrialDated == status = "active" /\ trialEnd # None

TrialOver ==
  /\ status = "active" /\ trialEnd # None /\ trialEnd <= now
  /\ ~ \E i \in DOMAIN subs : subs[i].status = "active" /\ PaidSub(i)

CheckTrialExpiry ==
  /\ cron.trial = "idle" /\ TrialOver
  /\ cron' = [cron EXCEPT !.trial = "block"]
  /\ UNCHANGED <<now, account, job, key, handler, paddle, crashes, history>>

BlockTrial ==
  /\ cron.trial = "block"
  /\ status' = "past_due"
  /\ cron' = [cron EXCEPT !.trial = "idle"]
  /\ UNCHANGED <<now, trialEnd, subs, invoices, job, key, handler, paddle, crashes, history>>

(* Mutant: a run that marks nothing stops there. *)
MarkPastDueAndStop ==
  LET due == {i \in DOMAIN subs : subs[i].status = "active" /\ subs[i].end + GraceDays <= now} IN
  /\ cron.grace = "idle"
  /\ subs' = [i \in DOMAIN subs |-> IF i \in due THEN [subs[i] EXCEPT !.status = "past_due"]
                                               ELSE subs[i]]
  /\ cron' = [cron EXCEPT !.grace = IF due = {} THEN "idle" ELSE "read"]
  /\ UNCHANGED <<now, status, trialEnd, invoices, job, key, handler, paddle, crashes, history>>

(* checkGracePeriodExpiry: three statements. *)
MarkPastDue ==
  /\ cron.grace = "idle"
  /\ subs' = [i \in DOMAIN subs |->
                IF subs[i].status = "active" /\ subs[i].end + GraceDays <= now
                  THEN [subs[i] EXCEPT !.status = "past_due"] ELSE subs[i]]
  /\ cron' = [cron EXCEPT !.grace = "read"]
  /\ UNCHANGED <<now, status, trialEnd, invoices, job, key, handler, paddle, crashes, history>>

ReadPastDue ==
  /\ cron.grace = "read"
  /\ cron' = [cron EXCEPT !.grace = IF \E i \in DOMAIN subs : subs[i].status = "past_due"
                                      THEN "block" ELSE "idle"]
  /\ UNCHANGED <<now, account, job, key, handler, paddle, crashes, history>>

BlockPastDue ==
  /\ cron.grace = "block"
  /\ status' = "past_due"
  /\ cron' = [cron EXCEPT !.grace = "idle"]
  /\ UNCHANGED <<now, trialEnd, subs, invoices, job, key, handler, paddle, crashes, history>>

(* Either job fails; it runs again within the hour. *)
CronFail ==
  /\ \/ cron.trial # "idle" /\ cron' = [cron EXCEPT !.trial = "idle"]
     \/ cron.grace # "idle" /\ cron' = [cron EXCEPT !.grace = "idle"]
  /\ UNCHANGED <<now, account, job, key, handler, paddle, crashes, history>>

-----------------------------------------------------------------------------
Tick ==
  /\ now < MaxTime
  /\ now' = now + 1
  /\ UNCHANGED <<account, job, key, handler, cron, paddle, crashes, history>>

Handle(h) ==
  \/ Claim(h) \/ ClaimFails(h)
  \/ MarkPaid(h) \/ EnqueueSubscription(h) \/ WebhookCancel(h) \/ ApplyFails(h)

Next ==
  \/ \E e \in Event : Emit(e) \/ \E h \in Handler : Deliver(h, e)
  \/ \E h \in Handler : Handle(h) \/ HandlerCrash(h)
  \/ OwnerCancel
  \/ JobStart \/ JobCreate \/ JobInvoice \/ JobComplete \/ JobFail \/ JobStall
  \/ CheckTrialExpiry \/ BlockTrial
  \/ MarkPastDue \/ ReadPastDue \/ BlockPastDue \/ CronFail
  \/ Tick

Spec == Init /\ [][Next]_vars

(* Paddle retries an event until it is acknowledged; a handler that is not *)
(* lost goes on; the hourly jobs run again after a failure; and neither    *)
(* Redis nor the database fails for ever.                                  *)
Retry(e) == e \notin acked /\ \E h \in Handler : Deliver(h, e)

Fairness ==
  /\ \A e \in Event : SF_vars(Retry(e))
  /\ \A h \in Handler : WF_vars(Handle(h)) /\ SF_vars(Claim(h))
  /\ WF_vars(CheckTrialExpiry) /\ SF_vars(BlockTrial)
  /\ WF_vars(MarkPastDue) /\ SF_vars(ReadPastDue) /\ SF_vars(BlockPastDue)

LiveSpec == Spec /\ Fairness

-----------------------------------------------------------------------------
(* Properties *)

(* Paddle delivers an event any number of times, to several handlers at    *)
(* once, and handlers fail or are lost with the key set and nothing done   *)
(* (webhooks.routes.ts:113).  An event changes the account at most once    *)
(* for each lifetime of a key that has gone by since it was sent, and once *)
(* more.  One that was answered 200 has changed the account, is about to,  *)
(* or only handlers that failed have had its key.                          *)
Applying(e) == {h \in Handler : handler[h].pc = "apply" /\ handler[h].event = e}

AppliedOnce ==
  \A e \in Event :
    /\ applied[e] > 0 => (applied[e] - 1) * KeyTtl <= now - sentAt[e]
    /\ e \in acked => applied[e] > 0 \/ e \in lost \/ Applying(e) # {}

(* The retries of the subscription job, two inserts without a transaction, *)
(* leave a second paid invoice only if a worker was lost after the first;  *)
(* a completed job has left one.  Several deliveries queue one job.        *)
InvoicedOnce ==
  /\ invoices > 1 => job.stalled
  /\ invoices <= 2 /\ invoices <= Len(subs) /\ Len(subs) <= Attempts + 1
  /\ job.state = "completed" => invoices >= 1

(* No account is blocked without cause: a subscription is past due only    *)
(* after its grace period, and an account after its trial, or because of   *)
(* such a subscription, whatever payments and cancellations came between   *)
(* the read of an hourly job and its write (subscription.service.ts:97).   *)
BlockedForCause ==
  /\ \A i \in DOMAIN subs : subs[i].status = "past_due" => subs[i].end + GraceDays <= now
  /\ status = "past_due" => now >= TrialDays \/ \E i \in DOMAIN subs : subs[i].status = "past_due"

(* Paddle's retries of every event end: each is acknowledged. *)
Acknowledged == \A e \in Event : sentAt[e] # None ~> e \in acked

(* An account whose trial is over and that has not paid is blocked, though *)
(* it has had an active subscription row since signup.                     *)
TrialEnds == (status = "active" /\ trialEnd # None /\ trialEnd <= now)
               ~> (status # "active" \/ trialEnd = None)

(* A subscription that is past due blocks its account, also when the run   *)
(* that marked it failed before it got to the account.                     *)
PastDueBlocks == (\E i \in DOMAIN subs : subs[i].status = "past_due") ~> status # "active"
=============================================================================
