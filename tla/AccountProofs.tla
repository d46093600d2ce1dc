---------------------------- MODULE AccountProofs ----------------------------
(***************************************************************************)
(* Proofs about an account, its beginning and its end: Onboarding, for any *)
(* number of signups, accounts, attempts and lost workers; AccountErasure, *)
(* for any number of requests, people and audit entries and any grace      *)
(* period; and about who gets into it: the subscription gate               *)
(* (SubscriptionGate), enrolling a second factor (TotpSetup), removing a   *)
(* member (MemberRemoval), signing in through an identity provider         *)
(* (SingleSignOn) and inviting within the plan's seats (TeamInvites), for  *)
(* any number of requests.                                                 *)
(***************************************************************************)
EXTENDS Onboarding, AccountErasure, SubscriptionGate, TotpSetup, MemberRemoval, SingleSignOn,
        TeamInvites, FiniteSetTheorems, TLAPS

(* An account that was not created yet is absent.                          *)
Ahead == \A i \in Id : i > created => Status(i) = "absent"

(* A signup about to commit has read that no account is active, and is     *)
(* marked as overtaken as soon as one is.                                  *)
Watched ==
  \A s \in Signup : signup[s].pc = "commit" /\ ~signup[s].raced => \A i \in Id : Status(i) # "active"

(* A job that is not finished has an attempt left.                         *)
Trying == \A i \in Id : task[i].state \notin {"completed", "failed"} => task[i].tries < ProvisionAttempts

(* The steps after the company was created follow its creation.            *)
Founded == \A i \in Id : task[i].state \in {"user", "link"} => company

OInv == OnboardingTypeOK /\ Ahead /\ Watched /\ Trying /\ Founded /\ LinkedCompany

TaskState == {"absent", "waiting", "company", "user", "link", "completed", "failed"}

LEMMA OnboardingInitInv == OnboardingInit => OInv
<1> SUFFICES ASSUME OnboardingInit PROVE OInv
  OBVIOUS
<1> USE OnboardingAssumption DEF OnboardingInit
<1>1. OnboardingTypeOK
  <2>1. 0 \in 0..MaxAccounts /\ 0 \in 0..ProvisionAttempts /\ 0 \in 0..ProvisionStalls
    OBVIOUS
  <2>2. tenant \in [Id -> [status : {"absent", "active", "unpaid", "erased"}, linked : BOOLEAN]]
    OBVIOUS
  <2>3. signup \in [Signup -> [pc : {"away", "commit", "queue"}, replaces : BOOLEAN,
                              id : 0..MaxAccounts, raced : BOOLEAN]]
    BY <2>1 DEF NoSignup
  <2>4. task \in [Id -> [state : TaskState, tries : 0..ProvisionAttempts, stalls : 0..ProvisionStalls]]
    BY <2>1 DEF NoTask, TaskState
  <2>5. company \in BOOLEAN
    OBVIOUS
  <2> QED BY <2>1, <2>2, <2>3, <2>4, <2>5 DEF OnboardingTypeOK, TaskState
<1>2. Ahead /\ Watched /\ Trying
  BY DEF Ahead, Watched, Trying, Status, NoSignup, NoTask
<1>3. Founded /\ LinkedCompany
  BY DEF Founded, LinkedCompany, NoTask
<1> QED BY <1>1, <1>2, <1>3 DEF OInv

(* The steps of the worker move one job, and link its account at most.     *)
LEMMA WorkerKeeps ==
  ASSUME OInv, NEW i \in Id,
         \/ TakeTask(i) \/ CreateCompany(i) \/ CreateErpUser(i) \/ LinkCompany(i)
         \/ TaskLost(i) \/ ForgetTask(i)
  PROVE  OInv'
<1> USE OnboardingAssumption DEF OInv
<1> DEFINE Job == [state : TaskState, tries : 0..ProvisionAttempts, stalls : 0..ProvisionStalls]
<1>1. task[i] \in Job /\ \A j \in Id : task[j].state \in TaskState
  BY DEF OnboardingTypeOK, TaskState
<1>2. PICK new \in Job :
        /\ task' = [task EXCEPT ![i] = new]
        /\ new.state \notin {"completed", "failed"} => new.tries < ProvisionAttempts
        /\ new.state \in {"user", "link"} => company'
  <2>1. ASSUME TaskThrows(i), task[i].state \notin {"completed", "failed"}
        PROVE  \E new \in Job : /\ task' = [task EXCEPT ![i] = new]
                                /\ new.state \notin {"completed", "failed"} => new.tries < ProvisionAttempts
                                /\ new.state \notin {"user", "link"}
    <3> DEFINE new == [task[i] EXCEPT !.tries = @ + 1,
                                      !.state = IF task[i].tries + 1 < ProvisionAttempts THEN "waiting" ELSE "failed"]
    <3>1. task[i].tries < ProvisionAttempts /\ task[i].tries \in 0..ProvisionAttempts
      BY <1>1, <2>1 DEF Trying
    <3>a. new.tries = task[i].tries + 1 /\ new.stalls = task[i].stalls
          /\ new.state = IF task[i].tries + 1 < ProvisionAttempts THEN "waiting" ELSE "failed"
      BY <1>1
    <3>b. task[i].tries + 1 \in 0..ProvisionAttempts
      BY <3>1
    <3>2. new \in Job
      BY <1>1, <3>a, <3>b DEF TaskState
    <3>3. task' = [task EXCEPT ![i] = new]
      BY <2>1 DEF TaskThrows, OnboardingTypeOK
    <3> QED BY <3>1, <3>a, <3>2, <3>3
  <2>2. ASSUME NEW stage \in TaskState, SetTask(i, stage), task[i].state \notin {"completed", "failed"},
               stage \in {"user", "link"} => company'
        PROVE  \E new \in Job : /\ task' = [task EXCEPT ![i] = new]
                                /\ new.state \notin {"completed", "failed"} => new.tries < ProvisionAttempts
                                /\ new.state \in {"user", "link"} => company'
    <3> DEFINE new == [task[i] EXCEPT !.state = stage]
    <3>1. new \in Job /\ new.tries = task[i].tries /\ new.state = stage
      BY <1>1
    <3>2. task' = [task EXCEPT ![i] = new] /\ task[i].tries < ProvisionAttempts
      BY <2>2 DEF SetTask, OnboardingTypeOK, Trying
    <3> QED BY <2>2, <3>1, <3>2
  <2>3. CASE TakeTask(i)
    BY <2>1, <2>2, <2>3 DEF TakeTask, TaskState
  <2>4. CASE CreateCompany(i)
    BY <2>1, <2>2, <2>4 DEF CreateCompany, TaskState
  <2>5. CASE CreateErpUser(i)
    BY <2>1, <2>2, <2>5 DEF CreateErpUser, TaskState, Founded
  <2>6. CASE LinkCompany(i)
    BY <2>1, <2>2, <2>6 DEF LinkCompany, TaskState
  <2>7. CASE TaskLost(i)
    <3> DEFINE new == [task[i] EXCEPT !.state = "waiting", !.stalls = @ + 1]
    <3>a. new.tries = task[i].tries /\ new.stalls = task[i].stalls + 1 /\ new.state = "waiting"
      BY <1>1
    <3>b. task[i].stalls + 1 \in 0..ProvisionStalls
      BY <1>1, <2>7 DEF TaskLost
    <3>1. new \in Job /\ new.tries = task[i].tries /\ new.state = "waiting"
      BY <1>1, <3>a, <3>b DEF TaskState
    <3>2. task' = [task EXCEPT ![i] = new] /\ task[i].tries < ProvisionAttempts
      BY <2>7 DEF TaskLost, OnboardingTypeOK, Trying
    <3> QED BY <3>1, <3>2
  <2>8. CASE ForgetTask(i)
    <3>1. NoTask \in Job /\ NoTask.state = "absent" /\ NoTask.tries = 0
      BY DEF NoTask, TaskState
    <3>2. 0 < ProvisionAttempts
      OBVIOUS
    <3>3. task' = [task EXCEPT ![i] = NoTask] /\ NoTask.state \notin {"user", "link"}
      BY <2>8, <3>1 DEF ForgetTask
    <3> QED BY <3>1, <3>2, <3>3
  <2> QED BY <2>3, <2>4, <2>5, <2>6, <2>7, <2>8
<1>3. /\ UNCHANGED <<created, signup>> /\ company' \in BOOLEAN /\ (company => company')
      /\ \/ tenant' = tenant
         \/ tenant' = [tenant EXCEPT ![i].linked = TRUE] /\ task[i].state = "link"
  BY DEF TakeTask, CreateCompany, CreateErpUser, LinkCompany, TaskLost, ForgetTask, OnboardingTypeOK
<1>4. OnboardingTypeOK'
  <2>1. task' \in [Id -> Job]
    BY <1>2 DEF OnboardingTypeOK, TaskState
  <2>2. tenant' \in [Id -> [status : {"absent", "active", "unpaid", "erased"}, linked : BOOLEAN]]
    <3>1. CASE tenant' = tenant
      BY <3>1 DEF OnboardingTypeOK
    <3>2. CASE tenant' = [tenant EXCEPT ![i].linked = TRUE]
      BY <3>2 DEF OnboardingTypeOK
    <3> QED BY <1>3, <3>1, <3>2
  <2> QED BY <1>3, <2>1, <2>2 DEF OnboardingTypeOK, TaskState
<1>5. \A j \in Id : Status(j)' = Status(j)
  BY <1>3 DEF Status, OnboardingTypeOK
<1>6. Ahead' /\ Watched'
  BY <1>3, <1>5 DEF Ahead, Watched
<1>7. \A j \in Id : task'[j] = IF j = i THEN new ELSE task[j]
  BY <1>2 DEF OnboardingTypeOK
<1>8. Trying' /\ Founded'
  BY <1>2, <1>3, <1>7 DEF Trying, Founded
<1>9. LinkedCompany'
  BY <1>3 DEF LinkedCompany, Founded, OnboardingTypeOK
<1> QED BY <1>4, <1>6, <1>8, <1>9

(* A job is queued where there was none.                                   *)
LEMMA QueueKeeps ==
  ASSUME OInv, NEW i \in Id, task' \in {task, Enqueued(i)}
  PROVE  /\ task' \in [Id -> [state : TaskState, tries : 0..ProvisionAttempts, stalls : 0..ProvisionStalls]]
         /\ Trying'
         /\ company' = company => Founded'
<1>1. CASE task' = task
  BY <1>1 DEF OInv, OnboardingTypeOK, TaskState, Trying, Founded
<1>2. CASE task' = Enqueued(i)
  <2>1. \A j \in Id : task'[j].tries = task[j].tries
                      /\ task'[j].state \in {task[j].state, "waiting"}
                      /\ (task'[j].state # task[j].state => task[j].state = "absent")
    BY <1>2 DEF Enqueued, OInv, OnboardingTypeOK
  <2>2. task' \in [Id -> [state : TaskState, tries : 0..ProvisionAttempts, stalls : 0..ProvisionStalls]]
    BY <1>2 DEF Enqueued, OInv, OnboardingTypeOK, TaskState
  <2> QED BY <2>1, <2>2 DEF OInv, Trying, Founded
<1> QED BY <1>1, <1>2

LEMMA RacedTypes ==
  ASSUME NEW u \in [pc : {"away", "commit", "queue"}, replaces : BOOLEAN, id : 0..MaxAccounts, raced : BOOLEAN]
  PROVE  /\ Raced(u) \in [pc : {"away", "commit", "queue"}, replaces : BOOLEAN, id : 0..MaxAccounts, raced : BOOLEAN]
         /\ Raced(u).pc = u.pc /\ (u.pc = "commit" => Raced(u).raced)
<1>1. (u.pc = "commit") \in BOOLEAN
  OBVIOUS
<1> QED BY <1>1, Zenon DEF Raced

LEMMA CommitKeeps ==
  ASSUME OInv, NEW s \in Signup, CommitSignup(s)
  PROVE  OInv'
<1> USE OnboardingAssumption DEF OInv, CommitSignup
<1> DEFINE new == created + 1
<1>1. created \in Nat /\ new \in Id
  BY DEF OnboardingTypeOK, Id
<1>2. OnboardingTypeOK'
  <2>1. tenant' \in [Id -> [status : {"absent", "active", "unpaid", "erased"}, linked : BOOLEAN]]
    BY DEF OnboardingTypeOK
  <2>2. \A u \in Signup : Raced(signup[u]) \in
          [pc : {"away", "commit", "queue"}, replaces : BOOLEAN, id : 0..MaxAccounts, raced : BOOLEAN]
    BY RacedTypes DEF OnboardingTypeOK
  <2>3. new \in 0..MaxAccounts
    BY <1>1 DEF Id
  <2>4. signup' \in [Signup -> [pc : {"away", "commit", "queue"}, replaces : BOOLEAN,
                               id : 0..MaxAccounts, raced : BOOLEAN]]
    BY <2>2, <2>3 DEF NoSignup
  <2> QED BY <2>1, <2>3, <2>4 DEF OnboardingTypeOK
<1>3. \A i \in Id : /\ i > new => Status(i)' = Status(i)
                    /\ tenant'[i].linked => tenant[i].linked
  BY <1>1, SMTT(30) DEF Status, OnboardingTypeOK, Live, Ahead, Id
<1>4. Ahead'
  BY <1>1, <1>3 DEF Ahead, Id
<1>5. \A u \in Signup : signup'[u].pc = "commit" => signup'[u].raced
  BY DEF OnboardingTypeOK, NoSignup, Raced
<1>6. Watched'
  BY <1>5 DEF Watched
<1>7. Trying' /\ Founded' /\ LinkedCompany'
  BY <1>3 DEF Trying, Founded, LinkedCompany
<1> QED BY <1>2, <1>4, <1>6, <1>7

LEMMA OnboardingStepInv == OInv /\ [OnboardingNext]_onboardingVars => OInv'
<1> SUFFICES ASSUME OInv, [OnboardingNext]_onboardingVars PROVE OInv'
  OBVIOUS
<1> USE OnboardingAssumption
<1>1. CASE UNCHANGED onboardingVars
  BY <1>1 DEF onboardingVars, OInv, OnboardingTypeOK, Ahead, Watched, Trying, Founded, LinkedCompany, Status
<1>2. ASSUME NEW s \in Signup, ReadExisting(s) PROVE OInv'
  <2>1. OnboardingTypeOK'
    BY <1>2 DEF ReadExisting, OInv, OnboardingTypeOK, NoSignup
  <2>2. \A i \in Id : Status(i) # "active"
    BY <1>2 DEF ReadExisting, Live
  <2>3. Watched'
    BY <1>2, <2>2 DEF ReadExisting, Watched, Status
  <2> QED BY <1>2, <2>1, <2>3 DEF ReadExisting, OInv, Ahead, Trying, Founded, LinkedCompany, Status
<1>3. ASSUME NEW s \in Signup, QueueProvisioning(s) PROVE OInv'
  <2>1. CASE signup[s].id \in Id
    <3>1. Trying' /\ Founded' /\ task' \in [Id -> [state : TaskState, tries : 0..ProvisionAttempts, stalls : 0..ProvisionStalls]]
      BY <1>3, <2>1, QueueKeeps DEF QueueProvisioning
    <3>2. OnboardingTypeOK'
      BY <1>3, <3>1 DEF QueueProvisioning, OInv, OnboardingTypeOK, NoSignup, TaskState
    <3>3. Watched'
      BY <1>3 DEF QueueProvisioning, OInv, OnboardingTypeOK, Watched, Status, NoSignup
    <3> QED BY <1>3, <3>1, <3>2, <3>3 DEF QueueProvisioning, OInv, Ahead, LinkedCompany, Status
  <2>2. CASE signup[s].id \notin Id
    <3>1. task' = task
      BY <1>3, <2>2 DEF QueueProvisioning, Enqueued, OInv, OnboardingTypeOK
    <3>2. OnboardingTypeOK'
      BY <1>3, <3>1 DEF QueueProvisioning, OInv, OnboardingTypeOK, NoSignup
    <3>3. Watched'
      BY <1>3 DEF QueueProvisioning, OInv, OnboardingTypeOK, Watched, Status, NoSignup
    <3> QED BY <1>3, <3>1, <3>2, <3>3
            DEF QueueProvisioning, OInv, Ahead, Trying, Founded, LinkedCompany, Status
  <2> QED BY <2>1, <2>2
<1>4. ASSUME NEW s \in Signup, SignupFails(s) PROVE OInv'
  <2>1. OnboardingTypeOK' /\ Watched'
    BY <1>4 DEF SignupFails, OInv, OnboardingTypeOK, Watched, Status, NoSignup
  <2> QED BY <1>4, <2>1 DEF SignupFails, OInv, Ahead, Trying, Founded, LinkedCompany, Status
<1>5. ASSUME NEW i \in Id, StopPaying(i) PROVE OInv'
  <2>1. OnboardingTypeOK' /\ LinkedCompany'
    BY <1>5 DEF StopPaying, OInv, OnboardingTypeOK, LinkedCompany
  <2>2. \A j \in Id : Status(j)' = IF j = i THEN "unpaid" ELSE Status(j)
    BY <1>5 DEF StopPaying, OInv, OnboardingTypeOK, Status
  <2>3. Ahead' /\ Watched'
    BY <1>5, <2>2 DEF StopPaying, OInv, Ahead, Watched
  <2> QED BY <1>5, <2>1, <2>3 DEF StopPaying, OInv, Trying, Founded
<1>6. ASSUME NEW i \in Id, PayAgain(i) PROVE OInv'
  <2>1. Trying' /\ Founded' /\ task' \in [Id -> [state : TaskState, tries : 0..ProvisionAttempts, stalls : 0..ProvisionStalls]]
    BY <1>6, QueueKeeps DEF PayAgain
  <2>a. signup' \in [Signup -> [pc : {"away", "commit", "queue"}, replaces : BOOLEAN,
                               id : 0..MaxAccounts, raced : BOOLEAN]]
    BY <1>6, RacedTypes DEF PayAgain, OInv, OnboardingTypeOK
  <2>b. tenant' \in [Id -> [status : {"absent", "active", "unpaid", "erased"}, linked : BOOLEAN]]
    BY <1>6 DEF PayAgain, OInv, OnboardingTypeOK
  <2>2. OnboardingTypeOK' /\ LinkedCompany'
    BY <1>6, <2>1, <2>a, <2>b DEF PayAgain, OInv, OnboardingTypeOK, LinkedCompany, TaskState
  <2>3. \A j \in Id : Status(j)' = IF j = i THEN "active" ELSE Status(j)
    BY <1>6 DEF PayAgain, OInv, OnboardingTypeOK, Status
  <2>4. Ahead'
    BY <1>6, <2>3 DEF PayAgain, OInv, Ahead, Live
  <2>5. \A u \in Signup : signup'[u].pc = "commit" => signup'[u].raced
    BY <1>6 DEF PayAgain, Raced, OInv, OnboardingTypeOK
  <2>6. Watched'
    BY <2>5 DEF Watched
  <2> QED BY <2>1, <2>2, <2>4, <2>6 DEF OInv
<1> QED BY <1>1, <1>2, <1>3, <1>4, <1>5, <1>6, CommitKeeps, WorkerKeeps DEF OnboardingNext

(* The strengthened invariant of signup and provisioning.                  *)
THEOREM OnboardingInvariance == OnboardingSpec => []OInv
BY OnboardingInitInv, OnboardingStepInv, PTL DEF OnboardingSpec

(* An account is linked only to a company that exists, whatever attempts   *)
(* were lost, repeated or overtaken (provisioning.service.ts:57).          *)
THEOREM CompaniesAreThere == OnboardingSpec => []LinkedCompany
<1>1. OInv => LinkedCompany
  BY DEF OInv
<1> QED BY <1>1, OnboardingInvariance, PTL

(* Only a signup that was overtaken erases an active account, and only one *)
(* older than its own (billing.service.ts:81).                             *)
THEOREM ActiveAccountsAreKept == OnboardingSpec => ActiveKept
<1> DEFINE A == \A i \in Id : Status(i) = "active" /\ tenant'[i].status = "erased" =>
                  \E s \in Signup : signup[s].raced /\ signup'[s].id > i
<1>1. OInv /\ [OnboardingNext]_onboardingVars => [A]_onboardingVars
  <2> SUFFICES ASSUME OInv, OnboardingNext, NEW i \in Id,
                      Status(i) = "active", tenant'[i].status = "erased"
               PROVE  \E s \in Signup : signup[s].raced /\ signup'[s].id > i
    OBVIOUS
  <2>1. PICK s \in Signup : CommitSignup(s)
    <3>1. tenant \in [Id -> [status : {"absent", "active", "unpaid", "erased"}, linked : BOOLEAN]]
      BY DEF OInv, OnboardingTypeOK
    <3>2. tenant' # tenant
      BY DEF Status
    <3>3. ~ \E j \in Id : StopPaying(j) \/ PayAgain(j) \/ LinkCompany(j)
      BY <3>1 DEF StopPaying, PayAgain, LinkCompany, Status
    <3> QED
      BY <3>2, <3>3 DEF OnboardingNext, ReadExisting, QueueProvisioning, SignupFails, TakeTask, CreateCompany,
                        CreateErpUser, TaskLost, ForgetTask
  <2>2. signup[s].raced
    BY <2>1 DEF CommitSignup, OInv, Watched, OnboardingTypeOK
  <2>3. i <= created /\ created \in Nat
    BY DEF OInv, Ahead, OnboardingTypeOK, Id
  <2>4. signup'[s].id = created + 1
    BY <2>1 DEF CommitSignup, NoSignup, OInv, OnboardingTypeOK
  <2> QED BY <2>2, <2>3, <2>4 DEF Id
<1> QED BY <1>1, OnboardingInvariance, PTL DEF OnboardingSpec, ActiveKept

-----------------------------------------------------------------------------
(* Erasure *)

(* Once the entries were stripped, personal data is in later ones only.    *)
Stripped ==
  purger \in {"erpCompany", "delete"} \/ standing = "purged"
    => \A x \in LogEntry : log[x] = "personal" => x \in unstripped

(* A request knows of every member but those who joined since it looked;   *)
(* who is signed in, or about to be, has a row.                            *)
Listed ==
  standing = "open" =>
    /\ \A e \in Listing : Member \subseteq eraser[e].users \cup joined
    /\ signed \cup signing \subseteq Member \cup Removed

(* From the moment an account is marked nobody joins it or begins to sign  *)
(* in, and who is there joined or signed in in time.                       *)
Closed ==
  standing = "closing" =>
    /\ \A p \in Person : person[p] # "invited"
    /\ signing \subseteq arriving
    /\ Member \subseteq joined
    /\ signed \subseteq joined \cup arriving \cup Removed

PeopleInv == ErasureTypeOK /\ Stripped /\ Listed /\ Closed

LEMMA ErasureInitInv == ErasureInit => PeopleInv
BY ErasureAssumption
   DEF ErasureInit, PeopleInv, ErasureTypeOK, Stripped, Listed, Closed, NotErasing, Listing

LEMMA ErasureTypeStep ==
  ASSUME ErasureTypeOK, ErasureNext
  PROVE  ErasureTypeOK'
<1> USE DEF ErasureTypeOK
<1>1. ASSUME NEW p \in Person, Join(p) \/ Leave(p) \/ BeginAccess(p) \/ EndAccess(p) \/ LogOut(p)
      PROVE  ErasureTypeOK'
  BY <1>1 DEF Join, Leave, BeginAccess, EndAccess, LogOut
<1>2. ASSUME NEW x \in LogEntry, LogPersonal(x) PROVE ErasureTypeOK'
  BY <1>2 DEF LogPersonal
<1>3. ASSUME NEW e \in Eraser, ListUsers(e) PROVE ErasureTypeOK'
  BY <1>3 DEF ListUsers, Member
<1>4. ASSUME NEW e \in Eraser, SoftDelete(e) PROVE ErasureTypeOK'
  BY <1>4, ErasureAssumption DEF SoftDelete
<1>5. ASSUME NEW e \in Eraser, SoftDeleteFails(e) \/ RevokeAccess(e) PROVE ErasureTypeOK'
  BY <1>5 DEF SoftDeleteFails, RevokeAccess, NotErasing
<1>6. CASE PurgeTask
  BY <1>6 DEF PurgeTask, FindDue, StripLog, DeleteCompany, HardDelete, PurgeFails
<1>7. CASE NextDay
  BY <1>7, ErasureAssumption DEF NextDay
<1> QED BY <1>1, <1>2, <1>3, <1>4, <1>5, <1>6, <1>7 DEF ErasureNext, DeleteRequest

LEMMA ErasureStepInv == PeopleInv /\ [ErasureNext]_erasureVars => PeopleInv'
<1> SUFFICES ASSUME PeopleInv, [ErasureNext]_erasureVars PROVE PeopleInv'
  OBVIOUS
<1> USE DEF PeopleInv
<1>0. CASE UNCHANGED erasureVars
  BY <1>0 DEF erasureVars, ErasureTypeOK, Stripped, Listed, Closed, Listing, Member, Removed
<1> SUFFICES ASSUME ErasureNext PROVE Stripped' /\ Listed' /\ Closed'
  BY <1>0, ErasureTypeStep
<1>1. ASSUME NEW p \in Person, Join(p) PROVE Stripped' /\ Listed' /\ Closed'
  <2>1. Stripped'
    BY <1>1 DEF Join, Stripped
  <2>2. Member' = Member \cup {p} /\ Removed' = Removed /\ Listing' = Listing
    BY <1>1 DEF Join, Member, Removed, Listing, ErasureTypeOK
  <2>3. Listed'
    BY <1>1, <2>2 DEF Join, Listed
  <2>4. Closed'
    BY <1>1 DEF Join, Closed
  <2> QED BY <2>1, <2>3, <2>4
<1>2. ASSUME NEW p \in Person, Leave(p) PROVE Stripped' /\ Listed' /\ Closed'
  <2>1. Stripped'
    BY <1>2 DEF Leave, Stripped
  <2>2. Member' = Member \ {p} /\ Removed' = Removed \cup {p} /\ Listing' = Listing
    BY <1>2 DEF Leave, Member, Removed, Listing, ErasureTypeOK
  <2>3. Listed'
    BY <1>2, <2>2 DEF Leave, Listed
  <2>4. Closed'
    BY <1>2, <2>2 DEF Leave, Closed, ErasureTypeOK
  <2> QED BY <2>1, <2>3, <2>4
<1>3. ASSUME NEW p \in Person, BeginAccess(p) \/ EndAccess(p) \/ LogOut(p)
      PROVE  Stripped' /\ Listed' /\ Closed'
  <2>1. Stripped'
    BY <1>3 DEF BeginAccess, EndAccess, LogOut, Stripped
  <2>2. Member' = Member /\ Removed' = Removed /\ Listing' = Listing
    BY <1>3 DEF BeginAccess, EndAccess, LogOut, Member, Removed, Listing
  <2>3. Listed'
    BY <1>3, <2>2 DEF BeginAccess, EndAccess, LogOut, Listed, Member
  <2>4. Closed'
    BY <1>3, <2>2 DEF BeginAccess, EndAccess, LogOut, Closed
  <2> QED BY <2>1, <2>3, <2>4
<1>4. ASSUME NEW x \in LogEntry, LogPersonal(x) PROVE Stripped' /\ Listed' /\ Closed'
  <2>1. Stripped'
    BY <1>4 DEF LogPersonal, Stripped, ErasureTypeOK
  <2>2. Listed' /\ Closed'
    BY <1>4 DEF LogPersonal, Listed, Closed, Member, Removed, Listing
  <2> QED BY <2>1, <2>2
<1>5. ASSUME NEW e \in Eraser, ListUsers(e) PROVE Stripped' /\ Listed' /\ Closed'
  <2>1. Stripped' /\ Closed'
    BY <1>5 DEF ListUsers, Stripped, Closed
  <2>2. Member' = Member /\ Removed' = Removed
    BY <1>5 DEF ListUsers, Member, Removed
  <2>3. \A f \in Listing' : Member \subseteq eraser'[f].users \cup joined
    BY <1>5 DEF ListUsers, Listed, Listing, ErasureTypeOK
  <2>4. Listed'
    BY <1>5, <2>2, <2>3 DEF ListUsers, Listed
  <2> QED BY <2>1, <2>4
<1>6. ASSUME NEW e \in Eraser, SoftDelete(e) PROVE Stripped' /\ Listed' /\ Closed'
  <2> DEFINE users == eraser[e].users
  <2>1. Stripped' /\ Listed'
    BY <1>6 DEF SoftDelete, Stripped, Listed
  <2>2. Member' = Member \ users /\ Removed' = Removed /\ \A p \in Person : person'[p] # "invited"
    BY <1>6 DEF SoftDelete, Member, Removed, ErasureTypeOK
  <2>3. Member \subseteq users \cup joined /\ signed \subseteq Member \cup Removed
    BY <1>6 DEF SoftDelete, Listed, Listing
  <2>4. Closed'
    BY <1>6, <2>2, <2>3 DEF SoftDelete, Closed
  <2> QED BY <2>1, <2>4
<1>7. ASSUME NEW e \in Eraser, SoftDeleteFails(e) PROVE Stripped' /\ Listed' /\ Closed'
  <2>1. Stripped'
    BY <1>7 DEF SoftDeleteFails, Stripped
  <2>2. Member' = Member /\ Removed' = Removed
    BY <1>7 DEF SoftDeleteFails, Member, Removed
  <2>3. Listing' = Listing \ {e} /\ \A f \in Listing' : eraser'[f] = eraser[f]
    BY <1>7 DEF SoftDeleteFails, Listing, NotErasing, ErasureTypeOK
  <2>4. Listed'
    BY <1>7, <2>2, <2>3 DEF SoftDeleteFails, Listed
  <2>5. Closed'
    BY <1>7, <2>2 DEF SoftDeleteFails, Closed
  <2> QED BY <2>1, <2>4, <2>5
<1>8. ASSUME NEW e \in Eraser, RevokeAccess(e) PROVE Stripped' /\ Listed' /\ Closed'
  <2>1. Stripped'
    BY <1>8 DEF RevokeAccess, Stripped
  <2>2. Member' = Member /\ Removed' = Removed /\ signed' \subseteq signed
    BY <1>8 DEF RevokeAccess, Member, Removed
  <2>3. \A f \in Listing' : f \in Listing /\ eraser'[f] = eraser[f]
    BY <1>8 DEF RevokeAccess, Listing, NotErasing, ErasureTypeOK
  <2>4. Listed'
    BY <1>8, <2>2, <2>3 DEF RevokeAccess, Listed
  <2>5. Closed'
    BY <1>8, <2>2 DEF RevokeAccess, Closed
  <2> QED BY <2>1, <2>4, <2>5
<1>9. CASE PurgeTask
  <2>1. Stripped'
    BY <1>9 DEF PurgeTask, FindDue, StripLog, DeleteCompany, HardDelete, PurgeFails, Stripped, ErasureTypeOK
  <2>2. Listed' /\ Closed'
    BY <1>9 DEF PurgeTask, FindDue, StripLog, DeleteCompany, HardDelete, PurgeFails, Listed, Closed,
                Member, Removed, Listing
  <2> QED BY <2>1, <2>2
<1>10. CASE NextDay
  BY <1>10 DEF NextDay, Stripped, Listed, Closed, Member, Removed, Listing
<1> QED BY <1>1, <1>2, <1>3, <1>4, <1>5, <1>6, <1>7, <1>8, <1>9, <1>10 DEF ErasureNext, DeleteRequest

(* The strengthened invariant: what each request knows of the members, and *)
(* that a marked account takes in nobody.                                  *)
THEOREM ErasureInvariance == ErasureSpec => []PeopleInv
BY ErasureInitInv, ErasureStepInv, PTL DEF ErasureSpec

(* What is left of an erased account: no personal data in entries older    *)
(* than the stripping, and nobody unscrubbed or signed in but those the    *)
(* request could not know of (account-cleanup.service.ts:63 and 158).      *)
THEOREM ErasureIsClean == ErasureSpec => []ErasedClean
<1>1. PeopleInv => ErasedClean
  BY DEF PeopleInv, Stripped, Closed, ErasedClean
<1> QED BY <1>1, ErasureInvariance, PTL

(* Where the CHECK constraints of the migrations are, the transaction of   *)
(* softDeleteAccount never commits: no account is ever marked or purged    *)
(* (account-cleanup.service.ts:69 against 20260318_add_check_constraints). *)
NeverErased == constrained => standing = "open"

THEOREM ConstraintsForbidErasure == ErasureSpec => []NeverErased
<1> DEFINE Quiet == constrained => standing = "open" /\ purger = "idle"
<1>1. ErasureInit => Quiet
  BY DEF ErasureInit
<1>2. Quiet /\ [ErasureNext]_erasureVars => Quiet'
  BY DEF ErasureNext, erasureVars, DeleteRequest, PurgeTask, Join, Leave, BeginAccess, EndAccess,
         LogOut, LogPersonal, ListUsers, SoftDelete, SoftDeleteFails, RevokeAccess, FindDue, StripLog,
         DeleteCompany, HardDelete, PurgeFails, NextDay
<1>3. Quiet => NeverErased
  BY DEF NeverErased
<1> QED BY <1>1, <1>2, <1>3, PTL DEF ErasureSpec
-----------------------------------------------------------------------------
(* The subscription gate *)

(* With the gate before every requireAuth no request has a session when it *)
(* meets the gate, whatever the account's status: it reads neither cache   *)
(* nor database and refuses nobody.  A handler serves only who signed in.  *)
GateRequest ==
  [at : 0..3, pc : {"away", "enter", "served", "refused"}, route : Route,
   session : BOOLEAN, due : BOOLEAN, status : {"none"}, trial : {"none"}]

(* How a request that has come so far looks. *)
Along(q) ==
  /\ q.pc = "enter" => q.at \in 1..3
  /\ q.pc \in {"enter", "served"} => (q.session <=> q.at = 3)
  /\ q.pc = "refused" => q.at = 2
  /\ q.pc = "served" => q.at = 3

GateInv ==
  /\ request \in [Request -> GateRequest]
  /\ \A r \in Request : Along(request[r])
  /\ cache = NoCache

(* One request moves. *)
LEMMA OneAlong ==
  ASSUME GateInv, NEW r \in Request, NEW q \in GateRequest, Along(q), Goto(r, q), UNCHANGED cache
  PROVE  GateInv'
BY DEF GateInv, Goto

LEMMA GateInitInv == GateInit => GateInv
<1>1. NoRequest \in GateRequest /\ Along(NoRequest)
  BY DEF NoRequest, GateRequest, Along, Route
<1> QED BY <1>1 DEF GateInit, GateInv

LEMMA GateStepInv == GateInv /\ [GateNext]_gateVars => GateInv'
<1> SUFFICES ASSUME GateInv, [GateNext]_gateVars PROVE GateInv'
  OBVIOUS
<1>1. Chain[1] = "gate" /\ Chain[2] = "auth" /\ Chain[3] = "handler"
  BY DEF Chain
<1>2. ASSUME NEW r \in Request, NEW route \in Route, CallApi(r, route) PROVE GateInv'
  <2> DEFINE overdue == blockedFor > CacheTtl
  <2>1. overdue \in BOOLEAN
    BY SMT
  <2> HIDE DEF overdue
  <2>2. [NoRequest EXCEPT !.at = 1] \in GateRequest
    <3>1. NoRequest \in GateRequest
      BY DEF NoRequest, GateRequest, Route
    <3> QED BY <3>1 DEF GateRequest
  <2>3. [NoRequest EXCEPT !.at = 1, !.pc = "enter"] \in GateRequest
    BY <2>2 DEF GateRequest
  <2>4. [NoRequest EXCEPT !.at = 1, !.pc = "enter", !.route = route] \in GateRequest
    BY <2>3 DEF GateRequest
  <2>5. PICK q : q = [NoRequest EXCEPT !.at = 1, !.pc = "enter", !.route = route, !.due = overdue]
    OBVIOUS
  <2>6. q \in GateRequest
    BY <2>1, <2>4, <2>5 DEF GateRequest
  <2>7. q.at = 1 /\ q.pc = "enter" /\ ~q.session
    BY <2>5 DEF NoRequest
  <2>8. Goto(r, q) /\ UNCHANGED cache
    BY <1>2, <2>5, Zenon DEF CallApi, Goto, overdue
  <2> QED BY <2>6, <2>7, <2>8, OneAlong DEF Along
<1>3. ASSUME NEW r \in Request, Entering(r, "gate")
      PROVE  request[r].at = 1 /\ ~request[r].session /\ request[r].pc = "enter"
  BY <1>1, <1>3 DEF Entering, GateInv, Along, GateRequest
<1>4. ASSUME NEW r \in Request PROVE request[r] \in GateRequest
  BY <1>4 DEF GateInv
<1>5. ASSUME NEW r \in Request, PassGate(r) PROVE GateInv'
  <2>1. PICK q : q = [request[r] EXCEPT !.pc = "enter", !.at = @ + 1]
    OBVIOUS
  <2>2. q \in GateRequest /\ Along(q)
    <3>1. request[r].at = 1 /\ ~request[r].session /\ request[r].pc = "enter"
      BY <1>3, <1>5 DEF PassGate
    <3>2. q.at = 2 /\ q.pc = "enter" /\ q.session = request[r].session
      BY <1>4, <2>1, <3>1 DEF GateRequest
    <3>3. q = [request[r] EXCEPT !.pc = "enter", !.at = 2]
      BY <2>1, <3>1
    <3>4. [request[r] EXCEPT !.pc = "enter", !.at = 2] \in GateRequest
      <4>1. [request[r] EXCEPT !.at = 2] \in GateRequest
        BY <1>4 DEF GateRequest
      <4> QED BY <1>4, <4>1, <3>1 DEF GateRequest
    <3> QED BY <3>1, <3>2, <3>3, <3>4 DEF Along
  <2>3. Goto(r, q) /\ UNCHANGED cache
    BY <1>5, <2>1 DEF PassGate, NextInChain
  <2> QED BY <2>2, <2>3, OneAlong
<1>6. ASSUME NEW r \in Request, RequireAuth(r) PROVE GateInv'
  <2>1. request[r].at = 2 /\ request[r].pc = "enter" /\ UNCHANGED cache
    BY <1>1, <1>6 DEF RequireAuth, Entering, GateInv, Along
  <2>2. CASE Goto(r, [request[r] EXCEPT !.at = @ + 1, !.session = TRUE])
    <3>1. PICK q : q = [request[r] EXCEPT !.at = @ + 1, !.session = TRUE]
      OBVIOUS
    <3>2. q.at = 3 /\ q.pc = "enter" /\ q.session = TRUE
      BY <1>4, <2>1, <3>1 DEF GateRequest
    <3>3. q = [request[r] EXCEPT !.at = 3, !.session = TRUE]
      BY <2>1, <3>1
    <3>4. q \in GateRequest
      <4>1. [request[r] EXCEPT !.at = 3] \in GateRequest
        BY <1>4 DEF GateRequest
      <4>2. [[request[r] EXCEPT !.at = 3] EXCEPT !.session = TRUE] \in GateRequest
        BY <4>1 DEF GateRequest
      <4> QED BY <3>3, <4>2
    <3>5. Along(q)
      BY <3>2 DEF Along
    <3> QED BY <2>1, <2>2, <3>1, <3>4, <3>5, OneAlong
  <2>3. CASE Refuse(r)
    <3>1. PICK q : q = [request[r] EXCEPT !.pc = "refused"]
      OBVIOUS
    <3>2. q \in GateRequest /\ Along(q)
      BY <1>4, <2>1, <3>1 DEF GateRequest, Along
    <3> QED BY <2>1, <2>3, <3>1, <3>2, OneAlong DEF Refuse
  <2> QED BY <1>6, <2>2, <2>3 DEF RequireAuth
<1>7. ASSUME NEW r \in Request, Handle(r) PROVE GateInv'
  <2>1. PICK q : q = [request[r] EXCEPT !.pc = "served"]
    OBVIOUS
  <2>2. request[r].at = 3 /\ request[r].pc = "enter"
    BY <1>1, <1>7 DEF Handle, Entering, GateInv, Along
  <2>3. q \in GateRequest /\ Along(q)
    BY <1>4, <2>1, <2>2 DEF GateRequest, Along, GateInv
  <2> QED BY <1>7, <2>1, <2>3, OneAlong DEF Handle
<1>8. ASSUME NEW r \in Request PROVE ~ReadCache(r) /\ ~ReadStatus(r) /\ ~DecideGate(r)
  BY <1>3, <1>4 DEF ReadCache, ReadStatus, DecideGate, GateRequest
<1>9. ASSUME NEW new \in AccountStatus, SetStatus(new) PROVE GateInv'
  <2>1. CASE UNCHANGED <<request, cache>>
    BY <2>1 DEF GateInv
  <2>2. CASE request' = [r \in Request |-> [request[r] EXCEPT !.due = FALSE]] /\ UNCHANGED cache
    <3>1. ASSUME NEW r \in Request PROVE request'[r] \in GateRequest /\ Along(request'[r])
      BY <1>4, <2>2 DEF GateRequest, Along, GateInv
    <3> QED BY <2>2, <3>1 DEF GateInv
  <2> QED BY <1>9, <2>1, <2>2 DEF SetStatus
<1>10. CASE EndTrial \/ Tick \/ UNCHANGED gateVars
  <2>1. CASE UNCHANGED <<request, cache>>
    BY <2>1 DEF GateInv
  <2>2. CASE Tick
    BY <2>2 DEF Tick, GateInv
  <2> QED BY <1>10, <2>1, <2>2 DEF EndTrial, gateVars
<1> QED BY <1>2, <1>5, <1>6, <1>7, <1>8, <1>9, <1>10 DEF GateNext

(* The middleware order defeats the gate in every run, for any number of   *)
(* requests and any lifetime of the cache: requireActiveSubscription never *)
(* looks at the account, nothing is refused for its status, and what is    *)
(* served has passed requireAuth.                                          *)
THEOREM GateIsIdle == GateSpec => []GateIdle
<1>1. GateInv => GateIdle
  BY DEF GateInv, GateIdle, GateRequest, Along
<1> QED BY <1>1, GateInitInv, GateStepInv, PTL DEF GateSpec

-----------------------------------------------------------------------------
(* Enrolling a second factor *)

(* Whoever is about to enable the factor enables a secret that was checked *)
(* or stored while somebody was about to; a setup under way beside an      *)
(* enabled factor had looked before.                                       *)
FInv ==
  /\ SetupTypeOK
  /\ Enabling # {} /\ factor.secret \in Secret => factor.secret \in proven \cup raced
  /\ factor.verified => factor.secret \in proven \cup raced
  /\ \A r \in Enroller : enroller[r].pc = "store" /\ factor.verified => enroller[r].since

LEMMA SetupInitInv == SetupInit => FInv
BY SetupAssumption DEF SetupInit, FInv, SetupTypeOK, Enabling, Secret, NoFactor, NotEnrolling

LEMMA SetupStepInv == FInv /\ [SetupNext]_setupVars => FInv'
<1> SUFFICES ASSUME FInv, [SetupNext]_setupVars PROVE FInv'
  OBVIOUS
<1> USE SetupAssumption DEF FInv
<1>1. CASE UNCHANGED setupVars
  BY <1>1 DEF setupVars, SetupTypeOK, Enabling
<1>2. ASSUME NEW r \in Enroller, BeginSetup(r) PROVE FInv'
  <2>1. SetupTypeOK'
    BY <1>2 DEF BeginSetup, SetupTypeOK
  <2>2. Enabling' \subseteq Enabling
    BY <1>2 DEF BeginSetup, SetupTypeOK, Enabling
  <2> QED BY <1>2, <2>1, <2>2 DEF BeginSetup, SetupTypeOK
<1>3. ASSUME NEW r \in Enroller, StoreSecret(r) PROVE FInv'
  <2>1. generated + 1 \in Secret
    BY <1>3 DEF StoreSecret, SetupTypeOK, Secret
  <2>2. SetupTypeOK'
    BY <1>3, <2>1 DEF StoreSecret, SetupTypeOK, Secret, NotEnrolling
  <2>3. Enabling' \subseteq Enabling
    BY <1>3 DEF StoreSecret, SetupTypeOK, Enabling, NotEnrolling
  <2>4. factor'.secret = generated + 1 /\ factor'.verified = FALSE
    BY <1>3 DEF StoreSecret
  <2>5. Enabling' # {} => generated + 1 \in raced'
    BY <1>3, <2>3 DEF StoreSecret
  <2> QED BY <2>2, <2>4, <2>5
<1>4. ASSUME NEW r \in Enroller, CheckCode(r) PROVE FInv'
  <2>1. SetupTypeOK'
    BY <1>4 DEF CheckCode, SetupTypeOK
  <2> QED BY <1>4, <2>1 DEF CheckCode, SetupTypeOK
<1>5. ASSUME NEW r \in Enroller, EnableFactor(r) PROVE FInv'
  <2>1. Enabling # {}
    BY <1>5 DEF EnableFactor, Enabling
  <2>2. factor' \in [secret : 0..MaxSecrets, verified : BOOLEAN] /\ factor'.secret = factor.secret
        /\ (factor'.verified => factor.verified \/ factor.secret \in Secret)
    BY <1>5 DEF EnableFactor, SetupTypeOK
  <2>3. \A s \in Enroller :
          /\ enroller'[s] \in [pc : {"free", "store", "enable"}, since : BOOLEAN]
          /\ enroller'[s].pc = "store" => enroller'[s].since
    BY <1>5 DEF EnableFactor, SetupTypeOK, NotEnrolling
  <2>4. SetupTypeOK'
    BY <1>5, <2>2, <2>3 DEF EnableFactor, SetupTypeOK
  <2> QED BY <1>5, <2>1, <2>2, <2>3, <2>4 DEF EnableFactor
<1>6. CASE DisableFactor
  BY <1>6 DEF DisableFactor, NoFactor, SetupTypeOK, Secret
<1>7. ASSUME NEW r \in Enroller, EndEnroller(r) PROVE FInv'
  <2>1. SetupTypeOK'
    BY <1>7 DEF EndEnroller, SetupTypeOK, NotEnrolling
  <2>2. Enabling' \subseteq Enabling
    BY <1>7 DEF EndEnroller, SetupTypeOK, Enabling, NotEnrolling
  <2> QED BY <1>7, <2>1, <2>2 DEF EndEnroller, SetupTypeOK, NotEnrolling
<1> QED BY <1>1, <1>2, <1>3, <1>4, <1>5, <1>6, <1>7 DEF SetupNext

LEMMA SetupInvariance == SetupSpec => []FInv
BY SetupInitInv, SetupStepInv, PTL DEF SetupSpec

(* An enabled secret has had a code checked, unless it was stored between  *)
(* a check and the enabling (totp.routes.ts:118).                          *)
THEOREM EnabledIsProven == SetupSpec => []EnabledProven
<1>1. FInv => EnabledProven
  BY DEF FInv, EnabledProven
<1> QED BY <1>1, SetupInvariance, PTL

(* An enabled factor goes away only by disabling it or to a setup that had *)
(* looked before it was enabled (totp.routes.ts:29).                       *)
THEOREM FactorsStay == SetupSpec => FactorStays
<1> DEFINE A == factor.verified /\ ~factor'.verified =>
                  factor' = NoFactor \/ \E r \in Enroller : enroller[r].since
<1>1. FInv /\ [SetupNext]_setupVars => [A]_setupVars
  <2> SUFFICES ASSUME FInv, SetupNext, factor.verified, ~factor'.verified, factor' # NoFactor
               PROVE  \E r \in Enroller : enroller[r].since
    OBVIOUS
  <2>1. PICK r \in Enroller : StoreSecret(r)
    BY DEF SetupNext, BeginSetup, CheckCode, EnableFactor, DisableFactor, EndEnroller, FInv, SetupTypeOK
  <2> QED BY <2>1 DEF StoreSecret, FInv
<1> QED BY <1>1, SetupInvariance, PTL DEF SetupSpec, FactorStays

-----------------------------------------------------------------------------
(* Removing a member *)

RInv == RemovalTypeOK /\ RemovedUserOut

SigningIn == {s \in SignIn : signIn[s] = "read"}

LEMMA ReadingFinite == IsFiniteSet(SigningIn) /\ UnderWay = Cardinality(SigningIn) /\ UnderWay \in Nat
BY FS_Subset, FS_CardinalityType, RemovalAssumption DEF SigningIn, UnderWay

LEMMA RemovalStepInv == RInv /\ [RemovalNext]_removalVars => RInv'
<1> SUFFICES ASSUME RInv, [RemovalNext]_removalVars PROVE RInv'
  OBVIOUS
<1> USE RemovalAssumption, ReadingFinite DEF RInv
<1>1. CASE UNCHANGED removalVars
  BY <1>1 DEF removalVars, RemovalTypeOK, RemovedUserOut, UnderWay
<1>2. ASSUME NEW s \in SignIn, ReadUser(s) PROVE RInv'
  BY <1>2 DEF ReadUser, AdminRowFound, RemovalTypeOK, RemovedUserOut
<1>3. ASSUME NEW s \in SignIn, EndSignIn(s) PROVE RInv'
  <2>1. RemovalTypeOK'
    BY <1>3 DEF EndSignIn, RemovalTypeOK
  <2>2. SigningIn' = SigningIn \ {s} /\ s \in SigningIn
    BY <1>3 DEF EndSignIn, RemovalTypeOK, SigningIn
  <2>3. UnderWay' = UnderWay - 1
    BY <2>2, FS_RemoveElement DEF UnderWay, SigningIn
  <2>4. sessions' <= sessions + 1 /\ UNCHANGED <<removed, allowance>> /\ sessions' \in Nat
    BY <1>3, <2>1 DEF EndSignIn, RemovalTypeOK
  <2> QED BY <2>1, <2>3, <2>4 DEF RemovedUserOut, RemovalTypeOK
<1>4. CASE EndSession
  <2>1. RemovalTypeOK' /\ UnderWay' = UnderWay
    BY <1>4 DEF EndSession, RemovalTypeOK, UnderWay
  <2> QED BY <1>4, <2>1 DEF EndSession, RemovalTypeOK, RemovedUserOut
<1>5. ASSUME NEW a \in Remover, FindMember(a) \/ RemovalFails(a) PROVE RInv'
  <2>1. RemovalTypeOK' /\ UnderWay' = UnderWay
    BY <1>5 DEF FindMember, RemovalFails, RemovalTypeOK, UnderWay
  <2> QED BY <1>5, <2>1 DEF FindMember, RemovalFails, RemovedUserOut
<1>6. ASSUME NEW a \in Remover, MarkRemoved(a) PROVE RInv'
  <2>1. RemovalTypeOK' /\ UnderWay' = UnderWay
    BY <1>6 DEF MarkRemoved, RemovalTypeOK, UnderWay
  <2> QED BY <1>6, <2>1 DEF MarkRemoved, RemovalTypeOK, RemovedUserOut
<1>7. ASSUME NEW a \in Remover, RevokeSessions(a) PROVE RInv'
  <2>1. RemovalTypeOK' /\ UnderWay' = UnderWay
    BY <1>7 DEF RevokeSessions, RemovalTypeOK, UnderWay
  <2> QED BY <1>7, <2>1 DEF RevokeSessions, RemovedUserOut
<1> QED BY <1>1, <1>2, <1>3, <1>4, <1>5, <1>6, <1>7 DEF RemovalNext

LEMMA RemovalInitInv == RemovalInit => RInv
<1> SUFFICES ASSUME RemovalInit PROVE RemovalTypeOK /\ RemovedUserOut
  BY DEF RInv
<1>1. removed \in BOOLEAN /\ RemovedUserOut
  BY DEF RemovalInit, RemovedUserOut
<1>2. RemovalTypeOK
  BY <1>1, RemovalAssumption DEF RemovalInit, RemovalTypeOK
<1> QED BY <1>1, <1>2

(* The invariant holds in every state of a removal. *)
LEMMA RemovalInvariance == RemovalSpec => []RInv
BY RemovalInitInv, RemovalStepInv, PTL DEF RemovalSpec

(* A removed member keeps at most the sign-ins that were under way at the  *)
(* revocation, or what was there when it was lost (team.routes.ts:124),    *)
(* for any number of sign-ins and administrators.                          *)
THEOREM RemovedUsersAreOut == RemovalSpec => []RemovedUserOut
<1>1. RInv => RemovedUserOut
  BY DEF RInv
<1> QED BY <1>1, RemovalInvariance, PTL

-----------------------------------------------------------------------------
(* Creating users at a sign-in *)

(* The callbacks that may still create a user: they loaded the             *)
(* configuration that allows it.                                           *)
Provisioning == {c \in Callback : callback[c].provision}

(* The users created since it was switched off and those that may be.      *)
SsoInv ==
  /\ SsoTypeOK
  /\ \A c \in Callback : callback[c].pc = "create" => callback[c].provision
  /\ ~provision => late.created + Cardinality(Provisioning) <= late.underWay

LEMMA ProvisioningFinite ==
  /\ IsFiniteSet(Provisioning) /\ Cardinality(Provisioning) \in 0..Cardinality(Callback)
  /\ IsFiniteSet(Provisioning') /\ Cardinality(Provisioning') \in 0..Cardinality(Callback)
<1>1. Provisioning \in SUBSET Callback /\ Provisioning' \in SUBSET Callback
  BY DEF Provisioning
<1> QED BY <1>1, SsoAssumption, FS_Subset, FS_CardinalityType

(* A step of one callback that creates a user, if it does, on its own      *)
(* configuration.                                                          *)
LEMMA CallbackStep ==
  ASSUME SsoInv, NEW c \in Callback, NEW new,
         new \in [pc : {"away", "get", "del", "exchange", "find", "create"},
                  state : SsoState \cup {"none"}, email : SsoEmail \cup {"none"}, provision : BOOLEAN],
         new.pc = "create" => new.provision, new.provision => (callback[c].provision \/ provision),
         callback' = [callback EXCEPT ![c] = new], provision' = provision,
         \/ late' = late
         \/ /\ ~new.provision /\ callback[c].provision /\ late' = [late EXCEPT !.created = @ + 1]
         \/ provision /\ late' \in [created : Nat, underWay : 0..Cardinality(Callback)],
         state' \in [SsoState -> {"none", "stored", "gone"}], code' \subseteq SsoState,
         ssoUser' \in [SsoEmail -> {"none", "user", "removed"}]
  PROVE  SsoInv'
<1>1. late' \in [created : Nat, underWay : 0..Cardinality(Callback)]
  BY DEF SsoInv, SsoTypeOK
<1>2. SsoTypeOK'
  BY <1>1 DEF SsoInv, SsoTypeOK
<1>3. \A d \in Callback : callback'[d] = IF d = c THEN new ELSE callback[d]
  BY DEF SsoInv, SsoTypeOK
<1>4. \A d \in Callback : callback'[d].pc = "create" => callback'[d].provision
  BY <1>3 DEF SsoInv
<1>5. ASSUME ~provision PROVE late'.created + Cardinality(Provisioning') <= late'.underWay
  <2>1. Provisioning' \in SUBSET Provisioning
    BY <1>3, <1>5 DEF Provisioning
  <2>2. Cardinality(Provisioning') <= Cardinality(Provisioning)
    BY <2>1, ProvisioningFinite, FS_Subset
  <2>3. late.created \in Nat /\ late.underWay \in Nat /\ late.created + Cardinality(Provisioning) <= late.underWay
    BY <1>5 DEF SsoInv, SsoTypeOK
  <2>4. CASE late' = late
    BY <2>2, <2>3, <2>4, ProvisioningFinite
  <2>5. CASE ~new.provision /\ callback[c].provision /\ late' = [late EXCEPT !.created = @ + 1]
    <3>1. c \in Provisioning /\ c \notin Provisioning'
      BY <1>3, <2>5 DEF Provisioning
    <3>2. Provisioning' # Provisioning
      BY <3>1
    <3>3. Cardinality(Provisioning') < Cardinality(Provisioning)
      BY <2>1, <3>2, ProvisioningFinite, FS_Subset
    <3>4. late'.created = late.created + 1 /\ late'.underWay = late.underWay
      BY <2>5 DEF SsoInv, SsoTypeOK
    <3> QED BY <2>3, <3>3, <3>4, ProvisioningFinite
  <2> QED BY <1>5, <2>4, <2>5
<1> QED BY <1>2, <1>4, <1>5 DEF SsoInv

LEMMA SsoStepInv == SsoInv /\ [SsoNext]_ssoVars => SsoInv'
<1> SUFFICES ASSUME SsoInv, [SsoNext]_ssoVars PROVE SsoInv'
  OBVIOUS
<1> DEFINE CallbackState ==
      [pc : {"away", "get", "del", "exchange", "find", "create"},
       state : SsoState \cup {"none"}, email : SsoEmail \cup {"none"}, provision : BOOLEAN]
<1>1. /\ SsoTypeOK /\ \A c \in Callback : callback[c] \in CallbackState
      /\ state \in [SsoState -> {"none", "stored", "gone"}] /\ code \subseteq SsoState
      /\ ssoUser \in [SsoEmail -> {"none", "user", "removed"}] /\ provision \in BOOLEAN
  BY DEF SsoInv, SsoTypeOK
<1>2. NoCallback \in CallbackState /\ NoCallback.pc = "away" /\ ~NoCallback.provision
  BY DEF NoCallback
<1>3. ASSUME NEW c \in Callback, EndCallback(c), provision' = provision,
             late' = late \/ (callback[c].provision /\ late' = [late EXCEPT !.created = @ + 1]),
             state' = state, code' = code, ssoUser' \in [SsoEmail -> {"none", "user", "removed"}]
      PROVE  SsoInv'
  BY <1>1, <1>2, <1>3, CallbackStep DEF EndCallback
<1>4. ASSUME NEW c \in Callback,
             NEW pc \in {"away", "get", "del", "exchange", "find", "create"}, Step(c, pc),
             pc = "create" => callback[c].provision,
             UNCHANGED <<provision, code, ssoUser, late>>,
             state' \in [SsoState -> {"none", "stored", "gone"}]
      PROVE  SsoInv'
  <2> DEFINE new == [callback[c] EXCEPT !.pc = pc]
  <2>1. /\ callback' = [callback EXCEPT ![c] = new] /\ new \in CallbackState
        /\ new.pc = pc /\ new.provision = callback[c].provision
    BY <1>1, <1>4 DEF Step
  <2> QED BY <1>1, <1>4, <2>1, CallbackStep
<1>5. ASSUME NEW s \in SsoState, Authorize(s) \/ ExpireState(s) PROVE SsoInv'
  <2>1. SsoTypeOK' /\ UNCHANGED <<provision, callback, late>>
    BY <1>1, <1>5 DEF Authorize, ExpireState, SsoTypeOK
  <2> QED BY <2>1 DEF SsoInv, Provisioning
<1>6. ASSUME NEW s \in SsoState, NEW c \in Callback, BeginCallback(c, s) PROVE SsoInv'
  <2> DEFINE new == [NoCallback EXCEPT !.pc = "get", !.state = s, !.provision = provision]
  <2>1. callback' = [callback EXCEPT ![c] = new] /\ UNCHANGED <<provision, state, code, ssoUser, late>>
    BY <1>6 DEF BeginCallback
  <2>2. new \in CallbackState /\ new.pc = "get" /\ new.provision = provision
    BY <1>1 DEF NoCallback
  <2> QED BY <1>1, <2>1, <2>2, CallbackStep
<1>7. ASSUME NEW c \in Callback, GetState(c) PROVE SsoInv'
  BY <1>1, <1>3, <1>4, <1>7 DEF GetState
<1>8. ASSUME NEW c \in Callback, DeleteState(c) PROVE SsoInv'
  <2>1. state' \in [SsoState -> {"none", "stored", "gone"}]
    BY <1>1, <1>8 DEF DeleteState
  <2> QED BY <1>4, <1>8, <2>1 DEF DeleteState
<1>9. ASSUME NEW c \in Callback, NEW e \in SsoEmail, ExchangeCode(c, e) PROVE SsoInv'
  <2> DEFINE new == [callback[c] EXCEPT !.pc = "find", !.email = e]
  <2>1. /\ callback' = [callback EXCEPT ![c] = new] /\ code' \subseteq SsoState
        /\ UNCHANGED <<provision, state, ssoUser, late>>
    BY <1>1, <1>9 DEF ExchangeCode, SsoTypeOK
  <2>2. new \in CallbackState /\ new.pc = "find" /\ new.provision = callback[c].provision
    BY <1>1
  <2> QED BY <1>1, <2>1, <2>2, CallbackStep
<1>10. ASSUME NEW c \in Callback, FindUser(c) PROVE SsoInv'
  <2>1. UNCHANGED <<provision, state, code, ssoUser, late>>
    BY <1>10 DEF FindUser
  <2>2. EndCallback(c) \/ (Step(c, "create") /\ callback[c].provision)
    BY <1>1, <1>10 DEF FindUser
  <2> QED BY <1>1, <1>3, <1>4, <2>1, <2>2
<1>11. ASSUME NEW c \in Callback, CreateUser(c) PROVE SsoInv'
  <2>1. callback[c].provision /\ EndCallback(c) /\ UNCHANGED <<provision, state, code>>
    BY <1>11 DEF CreateUser, SsoInv
  <2>2. late' = late \/ late' = [late EXCEPT !.created = @ + 1]
    BY <1>1, <1>11 DEF CreateUser, SsoTypeOK
  <2>3. ssoUser' \in [SsoEmail -> {"none", "user", "removed"}]
    BY <1>1, <1>11 DEF CreateUser
  <2> QED BY <1>3, <2>1, <2>2, <2>3
<1>12. ASSUME NEW c \in Callback, CallbackFails(c) PROVE SsoInv'
  BY <1>1, <1>3, <1>12 DEF CallbackFails
<1>13. ASSUME NEW auto \in BOOLEAN, SaveConfig(auto) PROVE SsoInv'
  <2>1. /\ late' = [created |-> 0, underWay |-> Cardinality(Provisioning)]
        /\ UNCHANGED <<state, code, ssoUser, callback>> /\ provision' \in BOOLEAN
    BY <1>13 DEF SaveConfig, Provisioning
  <2>2. Provisioning' = Provisioning /\ Cardinality(Provisioning) \in 0..Cardinality(Callback)
    BY <2>1, ProvisioningFinite DEF Provisioning
  <2>3. SsoTypeOK'
    BY <1>1, <2>1, <2>2 DEF SsoTypeOK
  <2>4. late'.created + Cardinality(Provisioning') <= late'.underWay
    BY <2>1, <2>2
  <2> QED BY <2>1, <2>3, <2>4 DEF SsoInv
<1>14. ASSUME NEW e \in SsoEmail, RemoveSsoUser(e) PROVE SsoInv'
  <2>1. SsoTypeOK' /\ UNCHANGED <<provision, callback, late>>
    BY <1>1, <1>14 DEF RemoveSsoUser, SsoTypeOK
  <2> QED BY <2>1 DEF SsoInv, Provisioning
<1>15. CASE UNCHANGED ssoVars
  BY <1>15 DEF ssoVars, SsoInv, SsoTypeOK, Provisioning
<1> QED
  BY <1>5, <1>6, <1>7, <1>8, <1>9, <1>10, <1>11, <1>12, <1>13, <1>14, <1>15 DEF SsoNext

LEMMA SsoInitInv == SsoInit => SsoInv
<1> SUFFICES ASSUME SsoInit PROVE SsoInv
  OBVIOUS
<1>1. Cardinality(Callback) \in Nat
  BY SsoAssumption, FS_CardinalityType
<1>2. SsoTypeOK /\ provision /\ \A c \in Callback : callback[c].pc = "away"
  BY <1>1 DEF SsoInit, SsoTypeOK, NoCallback
<1> QED BY <1>2 DEF SsoInv

(* The invariant holds in every state of the sign-ins. *)
LEMMA SsoInvariance == SsoSpec => []SsoInv
BY SsoInitInv, SsoStepInv, PTL DEF SsoSpec

(* Once an admin has switched it off, no more users are created than there *)
(* were callbacks under way, for any number of callbacks, codes and emails *)
(* (sso.routes.ts).                                                        *)
THEOREM ProvisionIsBounded == SsoSpec => []ProvisionBounded
<1>1. SsoInv => ProvisionBounded
  <2> SUFFICES ASSUME SsoInv PROVE ProvisionBounded
    OBVIOUS
  <2>1. late.created \in Nat /\ late.underWay \in Nat
    BY DEF SsoInv, SsoTypeOK
  <2> QED BY <2>1, ProvisioningFinite DEF SsoInv, ProvisionBounded
<1> QED BY <1>1, SsoInvariance, PTL

-----------------------------------------------------------------------------
(* Inviting within the plan's seats *)

Users == Cardinality(Members)
Invites == Cardinality(In("pending"))

(* What an inviter nobody has overtaken counted is no less than what there *)
(* is now, and what it counted in all leaves a seat.                       *)
Honest(n) ==
  n.overtaken \/ /\ n.pc = "count" => /\ n.counted = {"users"} => n.seats >= Users
                                      /\ n.counted = {"invites"} => n.seats >= Invites
                                      /\ n.counted = {"users", "invites"} => n.seats >= Users + Invites
                 /\ n.pc = "create" => Users + Invites < SeatLimit

Addressed(i) == i \in Invite /\ invite[i].state # "absent"

TeamInv ==
  /\ SeatTypeOK
  /\ \A i \in Invite : invite[i].state # "absent" => invite[i].email \in Email
  /\ \A q \in Inviter : inviter[q].pc = "create" => inviter[q].email \in Email
  /\ \A q \in Inviter : inviter[q].pc = "mail" => Addressed(inviter[q].invite)
  /\ \A v \in Accepter : accepter[v].pc # "away" => Addressed(accepter[v].invite)
  /\ \A q \in Inviter : Honest(inviter[q])
  /\ Users + Invites <= SeatLimit + excused

LEMMA SeatsFinite ==
  /\ IsFiniteSet(Members) /\ Users \in Nat /\ IsFiniteSet(In("pending")) /\ Invites \in Nat
  /\ IsFiniteSet(Members') /\ Users' \in Nat /\ IsFiniteSet(In("pending")') /\ Invites' \in Nat
<1>1. IsFiniteSet(Invite)
  <2>1. 1 \in Int /\ MaxInvites \in Int
    BY SeatAssumption
  <2> QED BY <2>1, FS_Interval DEF Invite
<1>2. /\ Members \in SUBSET Email /\ Members' \in SUBSET Email
      /\ In("pending") \in SUBSET Invite /\ In("pending")' \in SUBSET Invite
  BY DEF Members, In
<1> QED BY <1>1, <1>2, SeatAssumption, FS_Subset, FS_CardinalityType DEF Users, Invites

LEMMA FewerUsers == Members' \subseteq Members => Users' <= Users
BY SeatsFinite, FS_Subset DEF Users

LEMMA FewerInvites == In("pending")' \subseteq In("pending") => Invites' <= Invites
BY SeatsFinite, FS_Subset DEF Invites

LEMMA OneMoreElement ==
  ASSUME NEW S, NEW T, NEW x, IsFiniteSet(S), T \subseteq S \cup {x}
  PROVE  Cardinality(T) <= Cardinality(S) + 1
<1>1. IsFiniteSet(S \cup {x}) /\ Cardinality(S) \in Nat
      /\ Cardinality(S \cup {x}) = IF x \in S THEN Cardinality(S) ELSE Cardinality(S) + 1
  BY FS_AddElement, FS_CardinalityType
<1>2. IsFiniteSet(T) /\ Cardinality(T) \in Nat /\ Cardinality(T) <= Cardinality(S \cup {x})
  BY <1>1, FS_Subset, FS_CardinalityType
<1> QED BY <1>1, <1>2

LEMMA OneMoreUser ==
  ASSUME NEW e, Members' \subseteq Members \cup {e}
  PROVE  Users' <= Users + 1
BY SeatsFinite, OneMoreElement DEF Users

LEMMA OneMoreInvite ==
  ASSUME NEW i, In("pending")' \subseteq In("pending") \cup {i}
  PROVE  Invites' <= Invites + 1
BY SeatsFinite, OneMoreElement DEF Invites

LEMMA OneInviteLess ==
  ASSUME NEW i \in In("pending"), In("pending")' \subseteq In("pending") \ {i}
  PROVE  Invites' + 1 <= Invites
<1>1. In("pending")' \in SUBSET In("pending") /\ In("pending")' # In("pending")
  OBVIOUS
<1>2. /\ Cardinality(In("pending")') <= Cardinality(In("pending"))
      /\ Cardinality(In("pending")') # Cardinality(In("pending"))
  BY <1>1, SeatsFinite, FS_Subset
<1>3. Cardinality(In("pending")') \in Nat /\ Cardinality(In("pending")) \in Nat
  BY SeatsFinite DEF Invites
<1> QED BY <1>2, <1>3 DEF Invites

(* Whoever has not counted, or is overtaken, is honest about nothing.      *)
LEMMA OvertakenHonest ==
  ASSUME SeatTypeOK, NEW q \in Inviter, NEW n, n = Overtaken(q)
  PROVE  /\ Honest(n)'
         /\ n \in [pc : {"count", "create", "mail"}, email : Email \cup {"none"},
                   counted : SUBSET {"users", "invites"}, seats : Nat, overtaken : BOOLEAN,
                   old : SUBSET Invite, invite : Invite \cup {0}]
         /\ n.pc = inviter[q].pc /\ n.email = inviter[q].email /\ n.invite = inviter[q].invite
<1> DEFINE missed == inviter[q].overtaken \/ inviter[q].counted # {} \/ inviter[q].pc = "create"
<1>0. PICK b \in BOOLEAN : b = missed
  OBVIOUS
<1>4. n = [inviter[q] EXCEPT !.overtaken = b]
  BY <1>0 DEF Overtaken
<1>1. /\ n.pc = inviter[q].pc /\ n.email = inviter[q].email /\ n.invite = inviter[q].invite
      /\ n.counted = inviter[q].counted /\ n.seats = inviter[q].seats /\ n.overtaken = b
      /\ inviter[q].counted \in SUBSET {"users", "invites"}
  BY <1>4 DEF SeatTypeOK
<1>5. n.overtaken \/ (n.counted = {} /\ n.pc # "create")
  BY <1>0, <1>1
<1>2. n \in [pc : {"count", "create", "mail"}, email : Email \cup {"none"},
             counted : SUBSET {"users", "invites"}, seats : Nat, overtaken : BOOLEAN,
             old : SUBSET Invite, invite : Invite \cup {0}]
  <2>1. inviter[q] \in [pc : {"count", "create", "mail"}, email : Email \cup {"none"},
             counted : SUBSET {"users", "invites"}, seats : Nat, overtaken : BOOLEAN,
             old : SUBSET Invite, invite : Invite \cup {0}]
    BY DEF SeatTypeOK
  <2> QED BY <1>4, <2>1
<1>6. {} # {"users"} /\ {} # {"invites"} /\ {} # {"users", "invites"}
  OBVIOUS
<1>3. Honest(n)'
  BY <1>5, <1>6 DEF Honest
<1> QED BY <1>1, <1>2, <1>3

(* Fewer seats taken is fewer in all. *)
LEMMA SeatSum ==
  ASSUME NEW users \in Nat, NEW invites \in Nat, NEW others \in Nat, NEW more \in Nat,
         NEW bound \in Nat, users <= others, invites <= more
  PROVE  /\ bound >= others + more => bound >= users + invites
         /\ others + more < bound => users + invites < bound
OBVIOUS

LEMMA StaysHonest ==
  ASSUME NEW n, Honest(n), n.seats \in Nat, Users' <= Users, Invites' <= Invites
  PROVE  Honest(n)'
<1>2. n.seats >= Users => n.seats >= Users'
  BY SeatsFinite
<1>3. n.seats >= Invites => n.seats >= Invites'
  BY SeatsFinite
<1>4. n.seats >= Users + Invites => n.seats >= Users' + Invites'
  BY SeatsFinite, SeatSum
<1>5. Users + Invites < SeatLimit => Users' + Invites' < SeatLimit
  BY SeatsFinite, SeatAssumption, SeatSum
<1> QED BY <1>2, <1>3, <1>4, <1>5 DEF Honest

InviterState ==
  [pc : {"count", "create", "mail"}, email : Email \cup {"none"},
   counted : SUBSET {"users", "invites"}, seats : Nat, overtaken : BOOLEAN,
   old : SUBSET Invite, invite : Invite \cup {0}]

(* The invites keep their addresses. *)
Addresses ==
  /\ \A i \in Invite : invite[i].state # "absent" => invite[i].email \in Email
  /\ \A q \in Inviter : inviter[q].pc = "create" => inviter[q].email \in Email
  /\ \A q \in Inviter : inviter[q].pc = "mail" => Addressed(inviter[q].invite)
  /\ \A v \in Accepter : accepter[v].pc # "away" => Addressed(accepter[v].invite)

(* A step of one inviter that fills no seat.                               *)
LEMMA InviterStep ==
  ASSUME TeamInv, NEW q \in Inviter, NEW new \in InviterState, Honest(new),
         inviter' = [inviter EXCEPT ![q] = new], UNCHANGED <<member, invite, accepter, excused>>,
         new.pc = "create" => new.email \in Email, new.pc # "mail"
  PROVE  TeamInv'
<1>1. \A p \in Inviter : inviter'[p] = IF p = q THEN new ELSE inviter[p]
  BY DEF TeamInv, SeatTypeOK
<1>2. SeatTypeOK'
  BY DEF TeamInv, SeatTypeOK, InviterState
<1>3. Users' = Users /\ Invites' = Invites
  BY DEF Users, Invites, Members, In
<1>4. \A p \in Inviter : Honest(inviter[p])'
  BY <1>1, <1>3 DEF TeamInv, Honest
<1>5. Addresses'
  BY <1>1 DEF TeamInv, Addresses, Addressed
<1> QED BY <1>2, <1>3, <1>4, <1>5 DEF TeamInv, Addresses

(* A step that fills no seat and leaves the inviters alone but for those   *)
(* that are overtaken.                                                     *)
LEMMA SeatsLeft ==
  ASSUME TeamInv, SeatTypeOK', Addresses', Members' \subseteq Members, In("pending")' \subseteq In("pending"),
         excused' \in Nat, excused' >= excused,
         \A q \in Inviter : inviter'[q] = inviter[q] \/ inviter'[q] = Overtaken(q) \/ inviter'[q] = NotInviting
  PROVE  TeamInv'
<1>1. Users' <= Users /\ Invites' <= Invites
  BY FewerUsers, FewerInvites
<1>2. ASSUME NEW q \in Inviter PROVE Honest(inviter[q])'
  <2>1. CASE inviter'[q] = inviter[q]
    <3>1. inviter[q].seats \in Nat /\ Honest(inviter[q])
      BY DEF TeamInv, SeatTypeOK
    <3>2. PICK n : n = inviter[q]
      OBVIOUS
    <3>3. Honest(n)'
      BY <1>1, <3>1, <3>2, StaysHonest
    <3> QED BY <2>1, <3>2, <3>3 DEF Honest
  <2>2. CASE inviter'[q] = Overtaken(q)
    <3>1. PICK n : n = Overtaken(q)
      OBVIOUS
    <3>2. Honest(n)'
      BY <3>1, OvertakenHonest DEF TeamInv
    <3> QED BY <2>2, <3>1, <3>2 DEF Honest
  <2>3. CASE inviter'[q] = NotInviting
    <3>1. {} # {"users"} /\ {} # {"invites"} /\ {} # {"users", "invites"}
      OBVIOUS
    <3> QED BY <2>3, <3>1 DEF Honest, NotInviting
  <2> QED BY <2>1, <2>2, <2>3
<1>3. Users' + Invites' <= SeatLimit + excused'
  <2> DEFINE users == Users'
             invites == Invites'
             more == excused'
  <2>1. /\ Users + Invites <= SeatLimit + excused /\ excused \in Nat /\ SeatLimit \in Nat
        /\ users \in Nat /\ invites \in Nat /\ users <= Users /\ invites <= Invites
        /\ more \in Nat /\ more >= excused
    BY <1>1, SeatsFinite, SeatAssumption DEF TeamInv, SeatTypeOK
  <2> HIDE DEF users, invites, more
  <2>2. users + invites <= SeatLimit + more
    BY <2>1, SeatsFinite
  <2> QED BY <2>2 DEF users, invites, more
<1> QED BY <1>2, <1>3 DEF TeamInv, Addresses

LEMMA CountStep ==
  ASSUME TeamInv, NEW q \in Inviter, NEW what \in {"users", "invites"}, CountSeats(q, what)
  PROVE  TeamInv'
<1> DEFINE n == inviter[q]
           new == [n EXCEPT !.seats = @ + Occupied(what), !.counted = @ \cup {what}]
<1>1. /\ n.pc = "count" /\ what \notin n.counted /\ inviter' = [inviter EXCEPT ![q] = new]
      /\ UNCHANGED <<member, invite, accepter, excused>>
  BY DEF CountSeats
<1>2. n \in InviterState /\ Honest(n)
  BY DEF TeamInv, SeatTypeOK, InviterState
<1>3. Occupied(what) = IF what = "users" THEN Users ELSE Invites
  BY DEF Occupied, Users, Invites
<1>4. /\ new \in InviterState /\ new.pc = "count" /\ new.overtaken = n.overtaken
      /\ new.seats = n.seats + Occupied(what) /\ new.counted = n.counted \cup {what}
  <2>1. n.seats + Occupied(what) \in Nat /\ n.counted \cup {what} \in SUBSET {"users", "invites"}
    BY <1>2, <1>3, SeatsFinite DEF InviterState
  <2> QED BY <1>1, <1>2, <2>1 DEF InviterState
<1>5. Honest(new)
  <2>1. /\ n.seats \in Nat /\ Users \in Nat /\ Invites \in Nat
        /\ n.counted \in {{}, {"users"}, {"invites"}, {"users", "invites"}}
    BY <1>2, SeatsFinite DEF InviterState
  <2>2. CASE what = "users"
    <3>1. n.counted \in {{}, {"invites"}}
      BY <1>1, <2>1, <2>2
    <3>2. CASE n.counted = {}
      <4>1. new.counted = {"users"} /\ new.seats >= Users
        BY <1>3, <1>4, <2>1, <2>2, <3>2
      <4>2. {"users"} # {"invites"} /\ {"users"} # {"users", "invites"}
        OBVIOUS
      <4> QED BY <1>4, <4>1, <4>2 DEF Honest
    <3>3. CASE n.counted = {"invites"}
      <4>1. new.counted = {"users", "invites"} /\ (n.overtaken \/ new.seats >= Users + Invites)
        BY <1>1, <1>2, <1>3, <1>4, <2>1, <2>2, <3>3 DEF Honest
      <4>2. {"users"} # {"users", "invites"} /\ {"invites"} # {"users", "invites"}
        OBVIOUS
      <4> QED BY <1>4, <4>1, <4>2 DEF Honest
    <3> QED BY <3>1, <3>2, <3>3
  <2>3. CASE what = "invites"
    <3>1. n.counted \in {{}, {"users"}}
      BY <1>1, <2>1, <2>3
    <3>2. CASE n.counted = {}
      <4>1. new.counted = {"invites"} /\ new.seats >= Invites
        BY <1>3, <1>4, <2>1, <2>3, <3>2
      <4>2. {"users"} # {"invites"} /\ {"invites"} # {"users", "invites"}
        OBVIOUS
      <4> QED BY <1>4, <4>1, <4>2 DEF Honest
    <3>3. CASE n.counted = {"users"}
      <4>1. new.counted = {"users", "invites"} /\ (n.overtaken \/ new.seats >= Users + Invites)
        BY <1>1, <1>2, <1>3, <1>4, <2>1, <2>3, <3>3 DEF Honest
      <4>2. {"users"} # {"users", "invites"} /\ {"invites"} # {"users", "invites"}
        OBVIOUS
      <4> QED BY <1>4, <4>1, <4>2 DEF Honest
    <3> QED BY <3>1, <3>2, <3>3
  <2> QED BY <2>2, <2>3
<1> HIDE DEF new
<1> QED BY <1>1, <1>4, <1>5, InviterStep

LEMMA BeginCreateStep ==
  ASSUME TeamInv, NEW q \in Inviter, NEW e \in Email, BeginCreate(q, e)
  PROVE  TeamInv'
<1> DEFINE n == inviter[q]
           new == [NotInviting EXCEPT !.pc = "create", !.email = e, !.overtaken = n.overtaken,
                                      !.old = {i \in Unused : invite[i].email = e}]
<1>1. /\ n.pc = "count" /\ n.counted = {"users", "invites"} /\ n.seats < SeatLimit
      /\ inviter' = [inviter EXCEPT ![q] = new]
      /\ UNCHANGED <<member, invite, accepter, excused>>
  BY DEF BeginCreate, Counted, HasSeat
<1>2. n \in InviterState /\ Honest(n)
  BY DEF TeamInv, SeatTypeOK, InviterState
<1>3. new \in InviterState /\ new.pc = "create" /\ new.overtaken = n.overtaken /\ new.email = e
  BY <1>2 DEF InviterState, NotInviting, Unused, In
<1>4. n.overtaken \/ Users + Invites < SeatLimit
  <2>1. n.overtaken \/ n.seats >= Users + Invites
    BY <1>1, <1>2 DEF Honest
  <2>2. n.seats \in Nat /\ Users + Invites \in Nat
    BY <1>2, SeatsFinite DEF InviterState
  <2> QED BY <1>1, <2>1, <2>2, SeatAssumption
<1> HIDE DEF new
<1>5. Honest(new)
  BY <1>3, <1>4 DEF Honest
<1> QED BY <1>1, <1>3, <1>5, InviterStep

LEMMA CreateInviteStep ==
  ASSUME TeamInv, NEW q \in Inviter, CreateInvite(q)
  PROVE  TeamInv'
<1> DEFINE n == inviter[q]
<1>1. n.pc = "create" /\ In("absent") # {} /\ UNCHANGED <<member, accepter>>
      /\ excused' = (IF n.overtaken THEN excused + 1 ELSE excused)
      /\ (n.overtaken => excused < MaxExcused)
  BY DEF CreateInvite
<1> DEFINE chosen == CHOOSE i \in In("absent") : TRUE
<1>13. /\ chosen \in In("absent")
       /\ invite' = [i \in Invite |->
              CASE i = chosen -> [state |-> "pending", email |-> n.email]
                [] i \in n.old /\ i \in Unused -> [invite[i] EXCEPT !.state = "used"]
                [] OTHER -> invite[i]]
       /\ inviter' = [p \in Inviter |->
              IF p = q THEN [NotInviting EXCEPT !.pc = "mail", !.invite = chosen] ELSE Overtaken(p)]
  BY <1>1 DEF CreateInvite
<1> HIDE DEF chosen
<1>2. PICK new \in In("absent") :
        /\ invite' = [i \in Invite |->
             CASE i = new -> [state |-> "pending", email |-> n.email]
               [] i \in n.old /\ i \in Unused -> [invite[i] EXCEPT !.state = "used"]
               [] OTHER -> invite[i]]
        /\ inviter' = [p \in Inviter |->
             IF p = q THEN [NotInviting EXCEPT !.pc = "mail", !.invite = new] ELSE Overtaken(p)]
  BY <1>13
<1>3. /\ SeatTypeOK /\ n.email \in Email /\ new \in Invite /\ excused \in Nat /\ SeatLimit \in Nat
      /\ excused \in 0..MaxExcused
  BY <1>1, <1>2, SeatAssumption DEF TeamInv, SeatTypeOK, In
<1>4. ASSUME NEW i \in Invite
      PROVE  /\ invite'[i] \in [state : {"absent", "pending", "expired", "used", "deleted"},
                                email : Email \cup {"none"}]
             /\ i = new => invite'[i] = [state |-> "pending", email |-> n.email]
             /\ i # new => /\ invite'[i].email = invite[i].email
                           /\ invite'[i].state \in {invite[i].state, "used"}
                           /\ invite[i].state = "absent" => invite'[i].state = "absent"
  <2>1. invite[i] \in [state : {"absent", "pending", "expired", "used", "deleted"},
                       email : Email \cup {"none"}]
    BY <1>3 DEF SeatTypeOK
  <2>2. CASE i = new
    <3>2. new \notin Unused
      BY <1>2 DEF Unused, In
    <3>1. invite'[i] = [state |-> "pending", email |-> n.email]
      BY <1>2, <2>2, <3>2
    <3> QED BY <1>3, <2>2, <3>1
  <2>3. CASE i # new /\ i \in n.old /\ i \in Unused
    <3>1. invite'[i] = [invite[i] EXCEPT !.state = "used"] /\ invite[i].state # "absent"
      BY <1>2, <2>3 DEF Unused, In
    <3> QED BY <2>1, <2>3, <3>1
  <2>4. CASE i # new /\ ~(i \in n.old /\ i \in Unused)
    <3>1. invite'[i] = invite[i]
      BY <1>2, <2>4
    <3> QED BY <2>1, <2>4, <3>1
  <2> QED BY <2>2, <2>3, <2>4
<1>5. ASSUME NEW p \in Inviter
      PROVE  /\ inviter'[p] \in InviterState
             /\ p # q => inviter'[p] = Overtaken(p)
             /\ p = q => inviter'[p].pc = "mail" /\ inviter'[p].invite = new /\ inviter'[p].counted = {}
  <2>1. CASE p = q
    BY <1>2, <1>3, <2>1 DEF NotInviting, InviterState
  <2>2. CASE p # q
    <3>1. inviter'[p] = Overtaken(p)
      BY <1>2, <2>2
    <3>2. PICK m : m = Overtaken(p)
      OBVIOUS
    <3>3. m \in InviterState
      BY <1>3, <3>2, OvertakenHonest DEF InviterState
    <3> QED BY <2>2, <3>1, <3>2, <3>3
  <2> QED BY <2>1, <2>2
<1>6. SeatTypeOK'
  <2>1. invite' \in [Invite -> [state : {"absent", "pending", "expired", "used", "deleted"},
                                email : Email \cup {"none"}]]
    BY <1>2, <1>4
  <2>2. inviter' \in [Inviter -> InviterState]
    BY <1>2, <1>5
  <2>3. excused' \in 0..MaxExcused
    BY <1>1, <1>3, SeatAssumption
  <2> QED BY <1>1, <1>3, <2>1, <2>2, <2>3 DEF SeatTypeOK, InviterState
<1>7. ASSUME NEW p \in Inviter, p # q
      PROVE  /\ Honest(inviter[p])' /\ inviter'[p].pc = inviter[p].pc
             /\ inviter'[p].email = inviter[p].email /\ inviter'[p].invite = inviter[p].invite
  <2>1. PICK m : m = Overtaken(p)
    OBVIOUS
  <2>2. Honest(m)' /\ m.pc = inviter[p].pc /\ m.email = inviter[p].email /\ m.invite = inviter[p].invite
    BY <1>3, <2>1, OvertakenHonest
  <2> QED BY <1>5, <1>7, <2>1, <2>2 DEF Honest
<1>8. \A i : Addressed(i) => Addressed(i)'
  BY <1>4 DEF Addressed
<1>9. Addresses'
  <2>1. \A i \in Invite : invite'[i].state # "absent" => invite'[i].email \in Email
    BY <1>3, <1>4 DEF TeamInv
  <2>2. Addressed(new)'
    BY <1>3, <1>4 DEF Addressed
  <2>3. \A p \in Inviter : inviter'[p].pc = "mail" => Addressed(inviter[p].invite)'
    BY <1>5, <1>7, <1>8, <2>2 DEF TeamInv, Addressed
  <2>4. \A p \in Inviter : inviter'[p].pc = "create" => inviter'[p].email \in Email
    BY <1>5, <1>7 DEF TeamInv
  <2>5. \A v \in Accepter : accepter'[v].pc # "away" => Addressed(accepter[v].invite)'
    BY <1>1, <1>8 DEF TeamInv, Addressed
  <2> QED BY <2>1, <2>3, <2>4, <2>5 DEF Addresses
<1>10. Users' = Users /\ Invites' <= Invites + 1
  <2>1. In("pending")' \subseteq In("pending") \cup {new}
    BY <1>4 DEF In
  <2>2. Users' = Users
    BY <1>1 DEF Users, Members
  <2> QED BY <2>1, <2>2, OneMoreInvite
<1>11. \A p \in Inviter : Honest(inviter[p])'
  <2>1. inviter'[q].pc = "mail"
    BY <1>5
  <2>2. Honest(inviter[q])'
    BY <2>1 DEF Honest
  <2> QED BY <1>7, <2>2
<1>12. Users' + Invites' <= SeatLimit + excused'
  <2> DEFINE users == Users'
             invites == Invites'
             more == excused'
  <2>1. /\ Honest(n) /\ Users + Invites <= SeatLimit + excused /\ users = Users
        /\ invites <= Invites + 1 /\ invites \in Nat /\ Users \in Nat /\ Invites \in Nat
        /\ more = (IF n.overtaken THEN excused + 1 ELSE excused)
    BY <1>1, <1>10, SeatsFinite DEF TeamInv
  <2> HIDE DEF users, invites, more
  <2>2. CASE n.overtaken
    <3>1. users + invites <= SeatLimit + more
      BY <1>3, <2>1, <2>2
    <3> QED BY <3>1 DEF users, invites, more
  <2>3. CASE ~n.overtaken
    <3>1. Users + Invites < SeatLimit
      BY <1>1, <2>1, <2>3 DEF Honest
    <3>2. users + invites <= SeatLimit + more
      BY <1>3, <2>1, <2>3, <3>1
    <3> QED BY <3>2 DEF users, invites, more
  <2> QED BY <2>2, <2>3
<1> QED BY <1>6, <1>9, <1>11, <1>12 DEF TeamInv, Addresses

(* An expired invite comes back to life without a count. *)
LEMMA ResendStep ==
  ASSUME TeamInv, NEW i \in Invite, ResendInvite(i), invite[i].state = "expired"
  PROVE  TeamInv'
<1>1. /\ excused < MaxExcused /\ excused' = excused + 1 /\ member' = member
      /\ invite' = [invite EXCEPT ![i].state = "pending"]
      /\ inviter' = [q \in Inviter |-> Overtaken(q)]
      /\ accepter' = [v \in Accepter |->
                        IF accepter[v] = [pc |-> "check", invite |-> i] THEN Away ELSE accepter[v]]
  BY DEF ResendInvite
<1>2. /\ SeatTypeOK /\ excused \in Nat /\ SeatLimit \in Nat /\ excused \in 0..MaxExcused
  BY SeatAssumption DEF TeamInv, SeatTypeOK
<1>3. \A j \in Invite : /\ invite'[j].email = invite[j].email
                        /\ j = i => invite'[j].state = "pending"
                        /\ j # i => invite'[j] = invite[j]
  BY <1>1, <1>2 DEF SeatTypeOK
<1>4. ASSUME NEW q \in Inviter
      PROVE  /\ Honest(inviter[q])' /\ inviter'[q].pc = inviter[q].pc /\ inviter'[q] \in InviterState
             /\ inviter'[q].email = inviter[q].email /\ inviter'[q].invite = inviter[q].invite
  <2>1. PICK m : m = Overtaken(q)
    OBVIOUS
  <2>2. /\ Honest(m)' /\ m.pc = inviter[q].pc /\ m.email = inviter[q].email /\ m.invite = inviter[q].invite
        /\ m \in InviterState
    BY <1>2, <2>1, OvertakenHonest DEF InviterState
  <2> QED BY <1>1, <2>1, <2>2 DEF Honest
<1>5. \A v \in Accepter : accepter'[v] \in {Away, accepter[v]}
  BY <1>1
<1>6. SeatTypeOK'
  <2>1. invite' \in [Invite -> [state : {"absent", "pending", "expired", "used", "deleted"},
                                email : Email \cup {"none"}]]
    BY <1>1, <1>2 DEF SeatTypeOK
  <2>2. inviter' \in [Inviter -> InviterState]
    BY <1>1, <1>4
  <2>3. accepter' \in [Accepter -> [pc : {"away", "check", "commit"}, invite : Invite \cup {0}]]
    BY <1>1, <1>2, <1>5 DEF SeatTypeOK, Away
  <2>4. excused' \in 0..MaxExcused
    BY <1>1, <1>2, SeatAssumption
  <2> QED BY <1>1, <1>2, <2>1, <2>2, <2>3, <2>4 DEF SeatTypeOK, InviterState
<1>7. \A j : Addressed(j) => Addressed(j)'
  BY <1>3 DEF Addressed
<1>8. Addresses'
  <2>1. \A j \in Invite : invite'[j].state # "absent" => invite'[j].email \in Email
    <3>1. invite[i].email \in Email
      BY DEF TeamInv
    <3> QED BY <1>3, <3>1 DEF TeamInv
  <2>2. \A q \in Inviter : /\ inviter'[q].pc = "mail" => Addressed(inviter[q].invite)'
                           /\ inviter'[q].pc = "create" => inviter'[q].email \in Email
    BY <1>4, <1>7 DEF TeamInv, Addressed
  <2>3. \A v \in Accepter : accepter'[v].pc # "away" => Addressed(accepter[v].invite)'
    BY <1>5, <1>7 DEF TeamInv, Away, Addressed
  <2> QED BY <2>1, <2>2, <2>3 DEF Addresses
<1>9. Users' + Invites' <= SeatLimit + excused'
  <2> DEFINE users == Users'
             invites == Invites'
             more == excused'
  <2>1. In("pending")' \subseteq In("pending") \cup {i} /\ Users' = Users
    BY <1>1, <1>3 DEF In, Users, Members
  <2>2. /\ Users + Invites <= SeatLimit + excused /\ users = Users /\ more = excused + 1
        /\ invites <= Invites + 1 /\ invites \in Nat /\ Users \in Nat /\ Invites \in Nat
    BY <1>1, <2>1, OneMoreInvite, SeatsFinite DEF TeamInv
  <2> HIDE DEF users, invites, more
  <2>3. users + invites <= SeatLimit + more
    BY <1>2, <2>2
  <2> QED BY <2>3 DEF users, invites, more
<1> QED BY <1>4, <1>6, <1>8, <1>9 DEF TeamInv, Addresses

(* An invite is used, in time or late. *)
LEMMA AcceptStep ==
  ASSUME TeamInv, NEW v \in Accepter, AcceptInvite(v)
  PROVE  TeamInv'
<1> DEFINE i == accepter[v].invite
           e == invite[i].email
           after == member[e] = "none" /\ invite[i].state # "pending"
<1>1. /\ accepter[v].pc = "commit" /\ (after => excused < MaxExcused)
      /\ excused' = (IF after THEN excused + 1 ELSE excused)
      /\ invite' = [invite EXCEPT ![i].state = "used"]
      /\ member' = [member EXCEPT ![e] = Joined(e)]
      /\ inviter' = [q \in Inviter |-> Overtaken(q)]
      /\ accepter' = [accepter EXCEPT ![v] = Away]
  BY DEF AcceptInvite
<1>2. /\ SeatTypeOK /\ excused \in Nat /\ SeatLimit \in Nat /\ excused \in 0..MaxExcused
      /\ i \in Invite /\ invite[i].state # "absent" /\ e \in Email
  BY <1>1, SeatAssumption DEF TeamInv, SeatTypeOK, Addressed
<1>3. \A j \in Invite : /\ invite'[j].email = invite[j].email
                        /\ j = i => invite'[j].state = "used"
                        /\ j # i => invite'[j] = invite[j]
  BY <1>1, <1>2 DEF SeatTypeOK
<1>4. ASSUME NEW q \in Inviter
      PROVE  /\ Honest(inviter[q])' /\ inviter'[q].pc = inviter[q].pc /\ inviter'[q] \in InviterState
             /\ inviter'[q].email = inviter[q].email /\ inviter'[q].invite = inviter[q].invite
  <2>1. PICK m : m = Overtaken(q)
    OBVIOUS
  <2>2. /\ Honest(m)' /\ m.pc = inviter[q].pc /\ m.email = inviter[q].email /\ m.invite = inviter[q].invite
        /\ m \in InviterState
    BY <1>2, <2>1, OvertakenHonest DEF InviterState
  <2> QED BY <1>1, <2>1, <2>2 DEF Honest
<1>5. \A w \in Accepter : accepter'[w] \in {Away, accepter[w]}
  BY <1>1, <1>2 DEF SeatTypeOK
<1>6. SeatTypeOK'
  <2>1. invite' \in [Invite -> [state : {"absent", "pending", "expired", "used", "deleted"},
                                email : Email \cup {"none"}]]
    BY <1>1, <1>2 DEF SeatTypeOK
  <2>2. inviter' \in [Inviter -> InviterState]
    BY <1>1, <1>4
  <2>3. accepter' \in [Accepter -> [pc : {"away", "check", "commit"}, invite : Invite \cup {0}]]
    BY <1>1, <1>2 DEF SeatTypeOK, Away
  <2>4. excused' \in 0..MaxExcused
    BY <1>1, <1>2, SeatAssumption
  <2>5. member' \in [Email -> {"none", "active", "removed", "ghost"}]
    BY <1>1, <1>2 DEF SeatTypeOK, Joined
  <2> QED BY <2>1, <2>2, <2>3, <2>4, <2>5 DEF SeatTypeOK, InviterState
<1>7. \A j : Addressed(j) => Addressed(j)'
  BY <1>3 DEF Addressed
<1>8. Addresses'
  <2>1. \A j \in Invite : invite'[j].state # "absent" => invite'[j].email \in Email
    BY <1>2, <1>3 DEF TeamInv
  <2>2. \A q \in Inviter : /\ inviter'[q].pc = "mail" => Addressed(inviter[q].invite)'
                           /\ inviter'[q].pc = "create" => inviter'[q].email \in Email
    BY <1>4, <1>7 DEF TeamInv, Addressed
  <2>3. \A w \in Accepter : accepter'[w].pc # "away" => Addressed(accepter[w].invite)'
    BY <1>5, <1>7 DEF TeamInv, Away, Addressed
  <2> QED BY <2>1, <2>2, <2>3 DEF Addresses
<1>9. Users' + Invites' <= SeatLimit + excused'
  <2> DEFINE users == Users'
             invites == Invites'
             more == excused'
  <2>1. PICK x : x = e
    OBVIOUS
  <2>2. PICK k : k = i
    OBVIOUS
  <2>3. \A d \in Email : d # x => member'[d] = member[d]
    BY <1>1, <1>2, <2>1 DEF SeatTypeOK
  <2>4. In("pending")' \subseteq In("pending") \ {k}
    BY <1>3, <2>2 DEF In
  <2>5. invites <= Invites /\ (invite[i].state = "pending" => invites + 1 <= Invites)
    <3>1. invites <= Invites
      BY <2>4, FewerInvites
    <3>2. ASSUME invite[i].state = "pending" PROVE Invites' + 1 <= Invites
      <4>1. k \in In("pending")
        BY <1>2, <2>2, <3>2 DEF In
      <4> QED BY <2>4, <4>1, OneInviteLess
    <3> QED BY <3>1, <3>2
  <2>6. users <= Users + 1 /\ (member[e] # "none" => users <= Users)
    <3>1. Members' \subseteq Members \cup {x}
      BY <2>3 DEF Members
    <3>2. ASSUME member[e] # "none" PROVE Members' \subseteq Members
      BY <1>1, <1>2, <2>1, <2>3, <3>2 DEF Members, Joined, SeatTypeOK
    <3> QED BY <3>1, <3>2, OneMoreUser, FewerUsers
  <2>7. /\ Users + Invites <= SeatLimit + excused /\ more = (IF after THEN excused + 1 ELSE excused)
        /\ users \in Nat /\ invites \in Nat /\ Users \in Nat /\ Invites \in Nat
    BY <1>1, SeatsFinite DEF TeamInv
  <2> HIDE DEF users, invites, more
  <2>8. users + invites <= SeatLimit + more
    BY <1>2, <2>5, <2>6, <2>7
  <2> QED BY <2>8 DEF users, invites, more
<1> QED BY <1>4, <1>6, <1>8, <1>9 DEF TeamInv, Addresses

LEMMA TeamStepInv == TeamInv /\ [SeatNext]_seatVars => TeamInv'
<1> SUFFICES ASSUME TeamInv, [SeatNext]_seatVars PROVE TeamInv'
  OBVIOUS
<1>1. /\ SeatTypeOK /\ excused \in Nat /\ excused >= excused
  BY SeatAssumption DEF TeamInv, SeatTypeOK
<1>2. ASSUME NEW q \in Inviter, RefuseInvite(q) PROVE TeamInv'
  <2>1. NotInviting \in InviterState /\ NotInviting.pc = "count" /\ NotInviting.counted = {}
    BY DEF NotInviting, InviterState
  <2>2. Honest(NotInviting)
    <3>1. {} # {"users"} /\ {} # {"invites"} /\ {} # {"users", "invites"}
      OBVIOUS
    <3> QED BY <2>1, <3>1 DEF Honest
  <2> QED BY <2>1, <2>2, <1>2, InviterStep DEF RefuseInvite
<1>3. ASSUME NEW q \in Inviter, MailInvite(q) PROVE TeamInv'
  <2>1. /\ inviter[q].pc = "mail" /\ inviter' = [inviter EXCEPT ![q] = NotInviting]
        /\ UNCHANGED <<member, accepter, excused>>
        /\ invite' \in {invite, [invite EXCEPT ![inviter[q].invite].state = "deleted"]}
    BY <1>3 DEF MailInvite
  <2>2. \A i \in Invite : /\ invite'[i].email = invite[i].email
                          /\ invite'[i].state = invite[i].state
                             \/ (invite'[i].state = "deleted" /\ invite[i].state # "absent")
    BY <1>1, <2>1 DEF SeatTypeOK, TeamInv, Addressed
  <2>3. SeatTypeOK'
    BY <1>1, <2>1, SMTT(30) DEF SeatTypeOK, NotInviting
  <2>4. \A i : Addressed(i) => Addressed(i)'
    BY <2>2 DEF Addressed
  <2>5. \A p \in Inviter : inviter'[p] = IF p = q THEN NotInviting ELSE inviter[p]
    BY <1>1, <2>1 DEF SeatTypeOK
  <2>6. Addresses'
    <3>1. \A i \in Invite : invite'[i].state # "absent" => invite'[i].email \in Email
      BY <2>2 DEF TeamInv
    <3>2. NotInviting.pc = "count"
      BY DEF NotInviting
    <3>3. \A p \in Inviter : /\ inviter'[p].pc = "mail" => Addressed(inviter[p].invite)'
                             /\ inviter'[p].pc = "create" => inviter'[p].email \in Email
      BY <2>4, <2>5, <3>2 DEF TeamInv, Addressed
    <3>4. \A v \in Accepter : accepter'[v].pc # "away" => Addressed(accepter[v].invite)'
      BY <2>1, <2>4 DEF TeamInv, Addressed
    <3> QED BY <3>1, <3>3, <3>4 DEF Addresses
  <2>7. Members' \subseteq Members /\ In("pending")' \subseteq In("pending")
    BY <2>1, <2>2 DEF Members, In
  <2> QED BY <1>1, <2>1, <2>3, <2>5, <2>6, <2>7, SeatsLeft
<1>4. ASSUME NEW i \in Invite, ExpireInvite(i) PROVE TeamInv'
  <2>1. /\ invite[i].state = "pending" /\ invite' = [invite EXCEPT ![i].state = "expired"]
        /\ UNCHANGED <<member, inviter, accepter, excused>>
    BY <1>4 DEF ExpireInvite, In
  <2>2. \A j \in Invite : /\ invite'[j].email = invite[j].email
                          /\ invite'[j].state = IF j = i THEN "expired" ELSE invite[j].state
    BY <1>1, <2>1 DEF SeatTypeOK
  <2>3. SeatTypeOK'
    BY <1>1, <2>1 DEF SeatTypeOK
  <2>4. Addresses'
    BY <2>1, <2>2 DEF TeamInv, Addresses, Addressed
  <2>5. Members' \subseteq Members /\ In("pending")' \subseteq In("pending")
    BY <2>1, <2>2 DEF Members, In
  <2> QED BY <1>1, <2>1, <2>3, <2>4, <2>5, SeatsLeft
<1>5. ASSUME NEW i \in Invite, ResendInvite(i) PROVE TeamInv'
  <2>1. CASE invite[i].state = "expired"
    BY <1>5, <2>1, ResendStep
  <2>2. CASE invite[i].state # "expired"
    <3>1. /\ invite[i].state = "pending" /\ invite' = [invite EXCEPT ![i].state = "pending"]
          /\ UNCHANGED <<member, inviter, excused>>
          /\ accepter' = [v \in Accepter |->
                            IF accepter[v] = [pc |-> "check", invite |-> i] THEN Away ELSE accepter[v]]
      BY <1>5, <2>2 DEF ResendInvite, Unused, In
    <3>2. \A j \in Invite : invite'[j].email = invite[j].email /\ invite'[j].state = invite[j].state
      BY <1>1, <3>1 DEF SeatTypeOK
    <3>3. \A v \in Accepter : accepter'[v] \in {Away, accepter[v]}
      BY <3>1
    <3>4. SeatTypeOK'
      BY <1>1, <3>1, <3>3 DEF SeatTypeOK, Away
    <3>5. Addresses'
      BY <3>1, <3>2, <3>3 DEF TeamInv, Addresses, Addressed, Away
    <3>6. Members' \subseteq Members /\ In("pending")' \subseteq In("pending")
      BY <3>1, <3>2 DEF Members, In
    <3> QED BY <1>1, <3>1, <3>4, <3>5, <3>6, SeatsLeft
  <2> QED BY <2>1, <2>2
<1>6. ASSUME NEW v \in Accepter, NEW new \in {Away} \cup [pc : {"check", "commit"}, invite : Invite],
             new.pc # "away" => Addressed(new.invite),
             accepter' = [accepter EXCEPT ![v] = new], UNCHANGED <<member, invite, inviter, excused>>
      PROVE  TeamInv'
  <2>1. \A w \in Accepter : accepter'[w] = IF w = v THEN new ELSE accepter[w]
    BY <1>1, <1>6 DEF SeatTypeOK
  <2>2. SeatTypeOK'
    BY <1>1, <1>6 DEF SeatTypeOK, Away
  <2>3. Addresses'
    BY <1>6, <2>1 DEF TeamInv, Addresses, Addressed
  <2>4. Members' \subseteq Members /\ In("pending")' \subseteq In("pending")
    BY <1>6 DEF Members, In
  <2> QED BY <1>1, <1>6, <2>2, <2>3, <2>4, SeatsLeft
<1>7. ASSUME NEW v \in Accepter, NEW i \in Invite, OpenInvite(v, i) PROVE TeamInv'
  <2>1. Addressed(i)
    BY <1>7 DEF OpenInvite, In, Addressed
  <2> QED BY <1>6, <1>7, <2>1 DEF OpenInvite
<1>8. ASSUME NEW v \in Accepter, CheckInvite(v) \/ AcceptFails(v) PROVE TeamInv'
  <2>1. CASE accepter' = [accepter EXCEPT ![v] = Away]
    BY <1>6, <1>8, <2>1 DEF CheckInvite, AcceptFails, Away
  <2>2. CASE accepter' = [accepter EXCEPT ![v].pc = "commit"] /\ accepter[v].pc = "check"
    <3>1. Addressed(accepter[v].invite)
      BY <2>2 DEF TeamInv
    <3> DEFINE new == [accepter[v] EXCEPT !.pc = "commit"]
    <3>2. /\ new \in [pc : {"check", "commit"}, invite : Invite] /\ new.invite = accepter[v].invite
          /\ accepter' = [accepter EXCEPT ![v] = new]
      BY <1>1, <2>2, <3>1 DEF SeatTypeOK, Addressed
    <3> QED BY <1>6, <1>8, <3>1, <3>2 DEF CheckInvite, AcceptFails
  <2> QED BY <1>8, <2>1, <2>2 DEF CheckInvite, AcceptFails
<1>9. ASSUME NEW e \in Email, RemoveMember(e) PROVE TeamInv'
  <2>1. member' = [member EXCEPT ![e] = "removed"] /\ UNCHANGED <<invite, inviter, accepter, excused>>
    BY <1>9 DEF RemoveMember
  <2>2. SeatTypeOK' /\ Addresses'
    BY <1>1, <2>1 DEF SeatTypeOK, TeamInv, Addresses, Addressed
  <2>3. Members' \subseteq Members /\ In("pending")' \subseteq In("pending")
    BY <1>1, <2>1 DEF SeatTypeOK, Members, In
  <2> QED BY <1>1, <2>1, <2>2, <2>3, SeatsLeft
<1>10. CASE UNCHANGED seatVars
  <2>1. SeatTypeOK' /\ Addresses' /\ Members' \subseteq Members /\ In("pending")' \subseteq In("pending")
    BY <1>1, <1>10 DEF seatVars, SeatTypeOK, TeamInv, Addresses, Addressed, Members, In
  <2> QED BY <1>1, <1>10, <2>1, SeatsLeft DEF seatVars
<1> QED
  BY <1>2, <1>3, <1>4, <1>5, <1>7, <1>8, <1>9, <1>10, CountStep, BeginCreateStep, CreateInviteStep, AcceptStep
  DEF SeatNext

LEMMA TeamInitInv == SeatInit => TeamInv
<1> SUFFICES ASSUME SeatInit PROVE TeamInv
  OBVIOUS
<1>1. SeatTypeOK
  BY SeatAssumption DEF SeatInit, SeatTypeOK, NotInviting, Away
<1>2. Members = {} /\ In("pending") = {}
  BY DEF SeatInit, Members, In
<1>3. Cardinality({}) = 0
  BY FS_EmptySet
<1>4. Users = 0 /\ Invites = 0
  BY <1>2, <1>3 DEF Users, Invites
<1>5. \A q \in Inviter : inviter[q].pc = "count" /\ inviter[q].counted = {}
  BY DEF SeatInit, NotInviting
<1>6. \A q \in Inviter : Honest(inviter[q])
  <2>1. {} # {"users"} /\ {} # {"invites"} /\ {} # {"users", "invites"}
    OBVIOUS
  <2> QED BY <1>5, <2>1 DEF Honest
<1>7. Addresses
  BY <1>5 DEF SeatInit, Addresses, Away
<1>8. Users + Invites <= SeatLimit + excused
  BY <1>4, SeatAssumption DEF SeatInit
<1> QED BY <1>1, <1>6, <1>7, <1>8 DEF TeamInv, Addresses

(* The invariant holds in every state of the invitations. *)
LEMMA TeamInvariance == SeatSpec => []TeamInv
BY TeamInitInv, TeamStepInv, PTL DEF SeatSpec

(* No more seats are filled than the plan has but for those that are       *)
(* excused, one each, for any number of inviters, accepters and emails     *)
(* (invite.routes.ts:101).                                                 *)
THEOREM SeatsAreBounded == SeatSpec => []SeatsBounded
<1>1. TeamInv => SeatsBounded
  BY DEF TeamInv, SeatsBounded, Users, Invites
<1> QED BY <1>1, TeamInvariance, PTL
=============================================================================
