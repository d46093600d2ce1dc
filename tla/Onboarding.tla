------------------------------ MODULE Onboarding ------------------------------
(***************************************************************************)
(* Signing up with one email (routes/signup.routes.ts, createAccount) and  *)
(* what is provisioned in ERPNext for the accounts this makes              *)
(* (provisioning.service.ts and its queue).  An account that is not active *)
(* is erased by the next signup with its email.  Billing has how an        *)
(* account's status changes and its subscription job.                      *)
(***************************************************************************)
EXTENDS Naturals

CONSTANTS
  Signup,             \* concurrent POST /signup with the email
  MaxAccounts,        \* bounds the model: accounts ever created
  ProvisionAttempts,  \* attempts of the provisioning queue
  ProvisionStalls     \* bounds the model: lost workers per job

ASSUME OnboardingAssumption ==
  MaxAccounts \in Nat /\ ProvisionAttempts \in Nat \ {0} /\ ProvisionStalls \in Nat

VARIABLES
  tenant,   \* each account: its status and whether erpnextCompany is set
  created,  \* accounts created
  signup,   \* the local state of each signup
  task,      \* the provisioning job of each account
  company   \* whether ERPNext has the accounts' company

onboardingVars == <<tenant, created, signup, task, company>>

Id == 1..MaxAccounts
NoSignup == [pc |-> "away", replaces |-> FALSE, id |-> 0, raced |-> FALSE]
NoTask == [state |-> "absent", tries |-> 0, stalls |-> 0]

OnboardingInit ==
  /\ tenant = [i \in Id |-> [status |-> "absent", linked |-> FALSE]]
  /\ created = 0
  /\ signup = [s \in Signup |-> NoSignup]
  /\ task = [i \in Id |-> NoTask]
  /\ company = FALSE

Status(i) == tenant[i].status
Live == {i \in Id : Status(i) \in {"active", "unpaid"}}

\* An active account does not refuse.
ReadWhatever(s) ==
  /\ signup[s] = NoSignup /\ created < MaxAccounts
  /\ signup' = [signup EXCEPT ![s] = [NoSignup EXCEPT !.pc = "commit", !.replaces = Live # {}]]
  /\ UNCHANGED <<tenant, created, task, company>>

(* The rows are looked for in the transaction; an active account refuses.  *)
ReadExisting(s) ==
  /\ signup[s] = NoSignup /\ created < MaxAccounts
  /\ \A i \in Live : Status(i) # "active"
  /\ signup' = [signup EXCEPT ![s] = [NoSignup EXCEPT !.pc = "commit", !.replaces = Live # {}]]
  /\ UNCHANGED <<tenant, created, task, company>>

Raced(u) == [u EXCEPT !.raced = u.pc = "commit"]

(* The rows of the email are deleted by the email, then the new account is *)
(* created, which throws when another one has taken the email.             *)
CommitSignup(s) ==
  LET new == created + 1
  IN
  /\ signup[s].pc = "commit" /\ created < MaxAccounts
  /\ signup[s].replaces \/ Live = {}
  /\ created' = new
  /\ tenant' = [i \in Id |-> CASE i = new -> [status |-> "active", linked |-> FALSE]
                               [] i \in Live -> [tenant[i] EXCEPT !.status = "erased"]
                               [] OTHER -> tenant[i]]
  /\ signup' = [u \in Signup |-> IF u = s THEN [NoSignup EXCEPT !.pc = "queue", !.id = new] ELSE Raced(signup[u])]
  /\ UNCHANGED <<task, company>>

(* A job of this account that is there in any state takes the place of a   *)
(* new one.                                                                *)
Enqueued(i) == [task EXCEPT ![i].state = IF @ = "absent" THEN "waiting" ELSE @]

(* The signup ends with its job queued; without one if Redis or, before,   *)
(* the creation of the session fails.                                      *)
QueueProvisioning(s) ==
  /\ signup[s].pc = "queue"
  /\ task' \in {task, Enqueued(signup[s].id)}
  /\ signup' = [signup EXCEPT ![s] = NoSignup]
  /\ UNCHANGED <<tenant, created, company>>

SignupFails(s) ==
  /\ signup[s].pc = "commit"
  /\ signup' = [signup EXCEPT ![s] = NoSignup]
  /\ UNCHANGED <<tenant, created, task, company>>

StopPaying(i) ==
  /\ Status(i) = "active"
  /\ tenant' = [tenant EXCEPT ![i].status = "unpaid"]
  /\ UNCHANGED <<created, signup, task, company>>

(* A payment activates the account and queues the job again. *)
PayAgain(i) ==
  /\ i \in Live
  /\ tenant' = [tenant EXCEPT ![i].status = "active"]
  /\ signup' = [u \in Signup |-> Raced(signup[u])]
  /\ task' \in {task, Enqueued(i)}
  /\ UNCHANGED <<created, company>>

(* The worker *)
SetTask(i, state) == task' = [task EXCEPT ![i].state = state]

TaskThrows(i) ==
  task' = [task EXCEPT ![i].tries = @ + 1,
                     ![i].state = IF task[i].tries + 1 < ProvisionAttempts THEN "waiting" ELSE "failed"]

TakeTask(i) ==
  /\ task[i].state = "waiting"
  /\ IF i \in Live THEN SetTask(i, "company") ELSE TaskThrows(i)
  /\ UNCHANGED <<tenant, created, signup, company>>

(* A company that exists already is taken for this account's. *)
CreateCompany(i) ==
  /\ task[i].state = "company"
  /\ \/ company' = TRUE /\ SetTask(i, "user")
     \/ company' \in {company, TRUE} /\ TaskThrows(i)
  /\ UNCHANGED <<tenant, created, signup>>

(* ERPNext refusing the user does not stop the job; no answer does. *)
CreateErpUser(i) ==
  /\ task[i].state = "user"
  /\ SetTask(i, "link") \/ TaskThrows(i)
  /\ UNCHANGED <<tenant, created, signup, company>>

(* The update throws when the account is gone. *)
LinkCompany(i) ==
  /\ task[i].state = "link"
  /\ \/ /\ i \in Live
        /\ tenant' = [tenant EXCEPT ![i].linked = TRUE]
        /\ SetTask(i, "completed")
     \/ TaskThrows(i) /\ UNCHANGED tenant
  /\ UNCHANGED <<created, signup, company>>

TaskLost(i) ==
  /\ task[i].state \in {"company", "user", "link"} /\ task[i].stalls < ProvisionStalls
  /\ task' = [task EXCEPT ![i].state = "waiting", ![i].stalls = @ + 1]
  /\ UNCHANGED <<tenant, created, signup, company>>

(* The queue keeps a number of finished jobs and forgets the oldest.     *)
ForgetTask(i) ==
  /\ task[i].state \in {"completed", "failed"}
  /\ task' = [task EXCEPT ![i] = NoTask]
  /\ UNCHANGED <<tenant, created, signup, company>>

OnboardingNext ==
  \/ \E s \in Signup : ReadExisting(s) \/ CommitSignup(s) \/ QueueProvisioning(s) \/ SignupFails(s)
  \/ \E i \in Id :
       \/ StopPaying(i) \/ PayAgain(i)
       \/ TakeTask(i) \/ CreateCompany(i) \/ CreateErpUser(i) \/ LinkCompany(i) \/ TaskLost(i)
       \/ ForgetTask(i)

OnboardingSpec == OnboardingInit /\ [][OnboardingNext]_onboardingVars

-----------------------------------------------------------------------------
(* Properties *)

OnboardingTypeOK ==
  /\ tenant \in [Id -> [status : {"absent", "active", "unpaid", "erased"}, linked : BOOLEAN]]
  /\ created \in 0..MaxAccounts
  /\ signup \in [Signup -> [pc : {"away", "commit", "queue"}, replaces : BOOLEAN,
                            id : 0..MaxAccounts, raced : BOOLEAN]]
  /\ task \in [Id -> [state : {"absent", "waiting", "company", "user", "link", "completed", "failed"},
                     tries : 0..ProvisionAttempts, stalls : 0..ProvisionStalls]]
  /\ company \in BOOLEAN

(* An account is linked only to a company ERPNext has, whatever attempts   *)
(* were lost, repeated or overtaken by a new account of the same name.     *)
LinkedCompany == (\E i \in Id : tenant[i].linked) => company

(* A signup erases an active account only if it was paid for, or created,  *)
(* after that signup had read the email's rows (billing.service.ts:86).    *)
ActiveKept ==
  [][\A i \in Id : Status(i) = "active" /\ tenant'[i].status = "erased" =>
       \E s \in Signup : signup[s].raced /\ signup'[s].id > i]_onboardingVars
=============================================================================
