------------------------------ MODULE DataProofs ------------------------------
(***************************************************************************)
(* The components that keep and serve an account's data: the connections   *)
(* to the database, the reports, the proxy to ERPNext with its cache and   *)
(* the audit log.                                                          *)
(***************************************************************************)
EXTENDS TenantScope, ReportJobs, ErpDocuments, AuditChain, FiniteSetTheorems, TLAPS

-----------------------------------------------------------------------------
(* No account sees the rows of another, for any number of requests,        *)
(* accounts and connections.                                               *)

InTransaction == {"set", "query", "close"}

(* A connection has one holder, who is in a transaction and in no other.   *)
Bracketed ==
  \A c \in Connection : \A t \in holder[c] :
    /\ holder[c] = {t} /\ actor[t].pc \in InTransaction /\ actor[t].tenant \in Tenant
    /\ \A d \in Connection : t \in holder[d] => d = c

(* The setting of a transaction is its holder's account, once it is set.   *)
Pinned ==
  /\ \A c \in Connection : setting[c] = NoTenant
  /\ \A c \in Connection : holder[c] = {} => local[c] = NoTenant
  /\ \A c \in Connection : \A t \in holder[c] :
       local[c] = IF actor[t].pc = "set" THEN NoTenant ELSE actor[t].tenant

(* Who is outside a transaction has no account but a request's own.        *)
Apart == \A t \in Actor : actor[t].pc = "away" => seen[t] = NoTenant /\ actor[t].tenant = NoTenant

TInv == TenantTypeOK /\ Bracketed /\ Pinned /\ Apart /\ TenantIsolated

LEMMA TenantInitInv == TenantInit => TInv
BY DEF TenantInit, TInv, TenantTypeOK, Bracketed, Pinned, Apart, TenantIsolated, Outside, Context

LEMMA BeginKeeps ==
  ASSUME TInv, NEW t \in Actor, NEW c \in Connection, NEW state,
         actor[t].pc = "run", Begin(t, c, state),
         state \in [pc : {"set"}, tenant : Tenant, scoped : BOOLEAN],
         seen[t] \in {NoTenant, state.tenant}
  PROVE  TInv'
<1> USE DEF TInv, Begin
<1>1. TenantTypeOK'
  BY DEF TenantTypeOK, Context
<1>2. \A d \in Connection : t \notin holder[d]
  BY DEF Bracketed, InTransaction
<1>3. \A u \in Actor : u # t => actor'[u] = actor[u]
  BY DEF TenantTypeOK
<1>4. actor'[t] = state
  BY DEF TenantTypeOK
<1>5. \A d \in Connection : holder'[d] = IF d = c THEN {t} ELSE holder[d]
  BY DEF TenantTypeOK
<1>6. \A d \in Connection : holder[d] \subseteq Actor
  BY DEF TenantTypeOK
<1>7. Bracketed'
  BY <1>2, <1>3, <1>4, <1>5, <1>6 DEF Bracketed, InTransaction
<1>8. Pinned'
  BY <1>2, <1>3, <1>4, <1>5, <1>6 DEF Pinned
<1>9. Apart' /\ TenantIsolated'
  BY <1>3, <1>4 DEF Apart, TenantIsolated
<1> QED BY <1>1, <1>7, <1>8, <1>9

(* A step that changes neither a holder nor a setting, and of actors only  *)
(* t's state and what it has seen.                                         *)
LEMMA OwnStep ==
  ASSUME TInv, NEW t \in Actor, NEW state, NEW rows,
         actor' = [actor EXCEPT ![t] = state], seen' = [seen EXCEPT ![t] = rows],
         UNCHANGED <<setting, local, holder>>,
         state \in [pc : {"away", "run"}, tenant : Context, scoped : BOOLEAN],
         state.pc = "away" => state.tenant = NoTenant,
         \A c \in Connection : t \notin holder[c],
         rows = NoTenant
  PROVE  TInv'
<1> USE DEF TInv
<1>1. TenantTypeOK'
  BY DEF TenantTypeOK, Context
<1>3. \A u \in Actor : u # t => actor'[u] = actor[u] /\ seen'[u] = seen[u]
  BY DEF TenantTypeOK
<1>4. actor'[t] = state /\ seen'[t] = rows
  BY DEF TenantTypeOK
<1>6. \A d \in Connection : holder[d] \subseteq Actor
  BY DEF TenantTypeOK
<1>7. Bracketed'
  BY <1>3, <1>4, <1>6 DEF Bracketed
<1>8. Pinned'
  BY <1>3, <1>4, <1>6 DEF Pinned
<1>9. Apart' /\ TenantIsolated'
  BY <1>3, <1>4 DEF Apart, TenantIsolated
<1> QED BY <1>1, <1>7, <1>8, <1>9

LEMMA SetConfigKeeps ==
  ASSUME TInv, NEW t \in Actor, NEW c \in Connection, SetConfig(t, c)
  PROVE  TInv'
<1> USE DEF TInv, SetConfig
<1>1. TenantTypeOK'
  BY DEF TenantTypeOK
<1>2. actor'[t] = [actor[t] EXCEPT !.pc = "query"] /\ \A u \in Actor : u # t => actor'[u] = actor[u]
  BY DEF TenantTypeOK
<1>3. actor'[t].pc = "query" /\ actor'[t].tenant = actor[t].tenant
  BY <1>2 DEF TenantTypeOK
<1>4. \A d \in Connection : local'[d] = IF d = c THEN actor[t].tenant ELSE local[d]
  BY DEF TenantTypeOK
<1>5. \A d \in Connection : holder[d] \subseteq Actor
  BY DEF TenantTypeOK
<1>6. Bracketed'
  BY <1>2, <1>3, <1>5 DEF Bracketed, InTransaction
<1>7. Pinned'
  BY <1>2, <1>3, <1>4, <1>5 DEF Pinned, Bracketed
<1>8. Apart' /\ TenantIsolated'
  BY <1>2, <1>3 DEF Apart, TenantIsolated
<1> QED BY <1>1, <1>6, <1>7, <1>8

LEMMA QueryKeeps ==
  ASSUME TInv, NEW t \in Actor, NEW c \in Connection, Query(t, c)
  PROVE  TInv'
<1> USE DEF TInv, Query
<1>0. Visible(c) = actor[t].tenant /\ actor[t].tenant \in Tenant
  BY TenantAssumption DEF Visible, Pinned, Bracketed
<1>1. TenantTypeOK'
  BY <1>0 DEF TenantTypeOK, Context
<1> DEFINE pc == IF actor[t].scoped THEN "query" ELSE "close"
<1>2. actor'[t] = [actor[t] EXCEPT !.pc = pc] /\ \A u \in Actor : u # t => actor'[u] = actor[u] /\ seen'[u] = seen[u]
  BY DEF TenantTypeOK
<1>3. actor'[t].pc = pc /\ actor'[t].tenant = actor[t].tenant /\ seen'[t] = actor[t].tenant
  BY <1>0, <1>2 DEF TenantTypeOK
<1>5. \A d \in Connection : holder[d] \subseteq Actor
  BY DEF TenantTypeOK
<1>6. Bracketed'
  BY <1>2, <1>3, <1>5 DEF Bracketed, InTransaction
<1>7. Pinned'
  BY <1>2, <1>3, <1>5 DEF Pinned, Bracketed
<1>8. Apart' /\ TenantIsolated'
  BY <1>2, <1>3 DEF Apart, TenantIsolated
<1> QED BY <1>1, <1>6, <1>7, <1>8

LEMMA CloseKeeps ==
  ASSUME TInv, NEW t \in Actor, NEW c \in Connection, CloseTransaction(t, c)
  PROVE  TInv'
<1> USE DEF TInv, CloseTransaction
<1> DEFINE state == IF actor[t].scoped THEN [Outside EXCEPT !.pc = "run"] ELSE [actor[t] EXCEPT !.pc = "run"]
<1>0. state \in [pc : {"run"}, tenant : Context, scoped : BOOLEAN]
      /\ state.tenant = IF actor[t].scoped THEN NoTenant ELSE actor[t].tenant
  BY DEF TenantTypeOK, Outside, Context
<1>1. TenantTypeOK'
  BY <1>0 DEF TenantTypeOK, Context
<1>2. actor'[t] = state /\ \A u \in Actor : u # t => actor'[u] = actor[u] /\ seen'[u] = seen[u]
  BY DEF TenantTypeOK
<1>3. seen'[t] = IF actor[t].scoped THEN NoTenant ELSE seen[t]
  BY DEF TenantTypeOK
<1>4. \A d \in Connection : /\ holder'[d] = IF d = c THEN {} ELSE holder[d]
                            /\ local'[d] = IF d = c THEN NoTenant ELSE local[d]
  BY DEF TenantTypeOK
<1>5. \A d \in Connection : holder[d] \subseteq Actor /\ (t \in holder[d] => d = c)
  BY DEF TenantTypeOK, Bracketed
<1>6. Bracketed'
  BY <1>2, <1>4, <1>5 DEF Bracketed
<1>7. Pinned'
  BY <1>2, <1>4, <1>5 DEF Pinned
<1>8. Apart' /\ TenantIsolated'
  BY <1>0, <1>2, <1>3 DEF Apart, TenantIsolated
<1> QED BY <1>1, <1>6, <1>7, <1>8

LEMMA ForwardKeeps ==
  ASSUME TInv, NEW t \in Actor, NEW c \in Connection, Forward(t, c)
  PROVE  TInv'
<1> USE DEF TInv, Forward
<1>0. Visible(c) = NoTenant
  BY DEF Visible, Pinned
<1>1. TenantTypeOK'
  BY <1>0 DEF TenantTypeOK, Context
<1>2. seen'[t] = NoTenant /\ \A u \in Actor : u # t => seen'[u] = seen[u]
  BY <1>0 DEF TenantTypeOK
<1>3. Bracketed' /\ Pinned'
  BY DEF Bracketed, Pinned
<1>4. Apart' /\ TenantIsolated'
  BY <1>2 DEF Apart, TenantIsolated
<1> QED BY <1>1, <1>3, <1>4

LEMMA TenantStepInv == TInv /\ [TenantNext]_tenantVars => TInv'
<1> SUFFICES ASSUME TInv, [TenantNext]_tenantVars PROVE TInv'
  OBVIOUS
<1>1. CASE UNCHANGED tenantVars
  BY <1>1 DEF tenantVars, TInv, TenantTypeOK, Bracketed, Pinned, Apart, TenantIsolated, Context
<1>2. ASSUME NEW t \in Actor, NEW tenant \in Context, EnterContext(t, tenant) PROVE TInv'
  <2>1. \A c \in Connection : t \notin holder[c]
    BY <1>2 DEF EnterContext, TInv, Bracketed, InTransaction
  <2> QED BY <1>2, <2>1, OwnStep DEF EnterContext
<1>3. ASSUME NEW t \in Actor, LeaveContext(t) PROVE TInv'
  <2>1. \A c \in Connection : t \notin holder[c]
    BY <1>3 DEF LeaveContext, TInv, Bracketed, InTransaction
  <2> QED BY <1>3, <2>1, OwnStep DEF LeaveContext, Outside, Context
<1>4. ASSUME NEW t \in Actor, NEW c \in Connection, PinQuery(t, c) PROVE TInv'
  <2> DEFINE state == [actor[t] EXCEPT !.pc = "set"]
  <2>1. state \in [pc : {"set"}, tenant : Tenant, scoped : BOOLEAN] /\ state.tenant = actor[t].tenant
    BY <1>4 DEF PinQuery, TInv, TenantTypeOK, Context
  <2>2. seen[t] \in {NoTenant, state.tenant}
    BY <2>1 DEF TInv, TenantIsolated
  <2>3. actor[t].pc = "run" /\ Begin(t, c, state)
    BY <1>4 DEF PinQuery
  <2> HIDE DEF state
  <2> QED BY <2>1, <2>2, <2>3, BeginKeeps
<1>5. ASSUME NEW t \in Actor, NEW c \in Connection, NEW tenant \in Tenant, OpenScope(t, c, tenant) PROVE TInv'
  <2> DEFINE state == [pc |-> "set", tenant |-> tenant, scoped |-> TRUE]
  <2>1. seen[t] \in {NoTenant, state.tenant}
    BY <1>5 DEF OpenScope, TInv, TenantIsolated
  <2> QED BY <1>5, <2>1, BeginKeeps DEF OpenScope
<1> QED BY <1>1, <1>2, <1>3, <1>4, <1>5, SetConfigKeeps, QueryKeeps, CloseKeeps, ForwardKeeps DEF TenantNext

(* The strengthened invariant: connections are held by one transaction at  *)
(* a time and carry its holder's account, and no setting outlives one.     *)
THEOREM TenantInvariance == TenantSpec => []TInv
BY TenantInitInv, TenantStepInv, PTL DEF TenantSpec

(* However requests, jobs and public routes share the pool, a statement    *)
(* sees the rows of its own account or none (prisma.ts, tenant-scope.ts).  *)
THEOREM TenantsAreIsolated == TenantSpec => []TenantIsolated
<1>1. TInv => TenantIsolated
  BY DEF TInv
<1> QED BY <1>1, TenantInvariance, PTL
-----------------------------------------------------------------------------
(* Reports *)

ReportJob == [tries : 0..ReportAttempts,
  state : {"absent", "waiting", "active", "written", "completed", "delayed", "failed", "removed"}]
StatusRequest == [pc : {"away", "job", "log", "done"}, report : Report \cup {"none"},
                  done : BOOLEAN, answer : {"none", "found", "missing"}]

(* A report that was written stays in the audit log: a status request that *)
(* met it when it was completed finds it there.                            *)
PollOK(d) == (d.done => d.report \in logged /\ d.answer # "missing") /\ (d.pc # "away" => d.report \in Report)

ReportInv ==
  /\ ReportTypeOK
  /\ \A p \in Report : report[p].state \notin {"completed", "failed", "removed"} => report[p].tries < ReportAttempts
  /\ \A p \in Report : report[p].state \in {"written", "completed"} => p \in logged
  /\ \A v \in Poller : PollOK(poller[v])

(* A job that moves on, with the row of its report *)
LEMMA JobMoves ==
  ASSUME ReportInv, NEW p \in Report, NEW new \in ReportJob, report' = [report EXCEPT ![p] = new],
         new.state \notin {"completed", "failed", "removed"} => new.tries < ReportAttempts,
         logged' \in SUBSET Report, logged \subseteq logged', new.state \in {"written", "completed"} => p \in logged',
         requester' \in [Requester -> {"away", "add"}], UNCHANGED poller
  PROVE  ReportInv'
<1>1. report' \in [Report -> ReportJob] /\ \A q \in Report : report'[q] = IF q = p THEN new ELSE report[q]
  BY DEF ReportInv, ReportTypeOK, ReportJob
<1>2. ReportTypeOK' BY <1>1 DEF ReportInv, ReportTypeOK, ReportJob
<1>3. \A v \in Poller : PollOK(poller[v])' BY DEF ReportInv, PollOK
<1> QED BY <1>1, <1>2, <1>3 DEF ReportInv

(* A status request that moves on *)
LEMMA PollMoves ==
  ASSUME ReportInv, NEW v \in Poller, NEW new \in StatusRequest, poller' = [poller EXCEPT ![v] = new], PollOK(new),
         UNCHANGED <<report, logged, requester>>
  PROVE  ReportInv'
<1>1. poller' \in [Poller -> StatusRequest] /\ \A w \in Poller : poller'[w] = IF w = v THEN new ELSE poller[w]
  BY DEF ReportInv, ReportTypeOK, StatusRequest
<1>2. ReportTypeOK' BY <1>1 DEF ReportInv, ReportTypeOK, StatusRequest
<1>3. \A w \in Poller : PollOK(poller[w])' BY <1>1 DEF ReportInv, PollOK
<1> QED BY <1>2, <1>3 DEF ReportInv

LEMMA ReportInitHolds == ReportInit => ReportInv
<1> SUFFICES ASSUME ReportInit PROVE ReportInv OBVIOUS
<1>1. 0 \in 0..ReportAttempts /\ 0 < ReportAttempts BY ReportAssumption
<1>2. NoPoll \in StatusRequest /\ NoPoll.done = FALSE /\ NoPoll.pc = "away" BY DEF NoPoll, StatusRequest
<1>3. ReportTypeOK BY <1>1, <1>2 DEF ReportInit, ReportTypeOK, StatusRequest
<1>4. \A v \in Poller : PollOK(poller[v]) BY <1>2 DEF ReportInit, PollOK
<1> QED BY <1>1, <1>3, <1>4 DEF ReportInit, ReportInv

LEMMA ReportStepHolds == ReportInv /\ [ReportNext]_reportVars => ReportInv'
<1> SUFFICES ASSUME ReportInv, [ReportNext]_reportVars PROVE ReportInv' OBVIOUS
<1>0. /\ ReportTypeOK /\ report \in [Report -> ReportJob] /\ logged \in SUBSET Report
      /\ poller \in [Poller -> StatusRequest] /\ requester \in [Requester -> {"away", "add"}]
  BY DEF ReportInv, ReportTypeOK, ReportJob, StatusRequest
<1>a. ASSUME NEW p \in Report, NEW from, report[p].state = from, NEW to, SetState(p, to),
             from \notin {"completed", "failed", "removed"}
             \/ to = "removed",
             to \in {"waiting", "active", "written", "completed", "removed"},
             logged' \in SUBSET Report, logged \subseteq logged', to \in {"written", "completed"} => p \in logged',
             requester' \in [Requester -> {"away", "add"}], UNCHANGED poller
      PROVE  ReportInv'
  <2> DEFINE new == [report[p] EXCEPT !.state = to]
  <2>1. new \in ReportJob /\ new.state = to /\ new.tries = report[p].tries BY <1>0, <1>a DEF ReportJob
  <2>2. report' = [report EXCEPT ![p] = new] BY <1>a DEF SetState
  <2>3. new.state \notin {"completed", "failed", "removed"} => new.tries < ReportAttempts BY <1>a, <2>1 DEF ReportInv
  <2> HIDE DEF new
  <2> QED BY <1>a, <2>1, <2>2, <2>3, JobMoves
<1>1. ASSUME NEW q \in Requester, CheckDepth(q) PROVE ReportInv'
  <2>1. UNCHANGED <<report, logged, poller>> /\ requester' = [requester EXCEPT ![q] = "add"] BY <1>1 DEF CheckDepth
  <2> QED BY <1>0, <2>1 DEF ReportInv, ReportTypeOK, PollOK
<1>2. ASSUME NEW q \in Requester, NEW p \in Report, EnqueueReport(q, p) PROVE ReportInv'
  <2>1. /\ report[p].state = "absent" /\ SetState(p, "waiting") /\ UNCHANGED <<logged, poller>>
        /\ requester' \in [Requester -> {"away", "add"}]
    BY <1>0, <1>2 DEF EnqueueReport, InState
  <2> QED BY <1>0, <1>a, <2>1
<1>3. ASSUME NEW p \in Report, StartReport(p) PROVE ReportInv'
  BY <1>0, <1>3, <1>a DEF StartReport, InState
<1>4. ASSUME NEW p \in Report, WriteReport(p) PROVE ReportInv'
  <2>1. report[p].state = "active" /\ SetState(p, "written") /\ UNCHANGED <<requester, poller>> /\ logged' = logged \cup {p}
    BY <1>4 DEF WriteReport, InState
  <2> QED BY <1>0, <1>a, <2>1
<1>5. ASSUME NEW p \in Report, CompleteReport(p) PROVE ReportInv'
  <2>1. report[p].state = "written" /\ SetState(p, "completed") /\ UNCHANGED <<logged, requester, poller>>
    BY <1>5 DEF CompleteReport, InState
  <2>2. p \in logged BY <2>1 DEF ReportInv
  <2> QED BY <1>0, <1>a, <2>1, <2>2
<1>6. ASSUME NEW p \in Report, FailReport(p) PROVE ReportInv'
  <2> DEFINE tries == report[p].tries + 1
  <2>0. report[p].state \in {"active", "written"} /\ UNCHANGED <<logged, requester, poller>>
        /\ report' = [report EXCEPT ![p] = [state |-> IF tries < ReportAttempts THEN "delayed" ELSE "failed", tries |-> tries]]
    BY <1>6 DEF FailReport, InState
  <2>1. tries \in 0..ReportAttempts BY <1>0, <2>0, ReportAssumption DEF ReportInv, ReportJob
  <2>2. PICK state \in {"delayed", "failed"} : state = IF tries < ReportAttempts THEN "delayed" ELSE "failed" OBVIOUS
  <2>3. PICK new \in ReportJob : new = [state |-> state, tries |-> tries] BY <2>1, <2>2 DEF ReportJob
  <2>4. report' = [report EXCEPT ![p] = new] BY <2>0, <2>2, <2>3
  <2>5. new.state = state /\ new.tries = tries /\ (state = "delayed" => tries < ReportAttempts) BY <2>2, <2>3
  <2> QED BY <1>0, <2>0, <2>4, <2>5, JobMoves, ZenonT(30)
<1>7. ASSUME NEW p \in Report, RetryReport(p) PROVE ReportInv'
  BY <1>0, <1>7, <1>a DEF RetryReport, InState
<1>8. ASSUME NEW p \in Report, ForgetReport(p) PROVE ReportInv'
  BY <1>0, <1>8, <1>a DEF ForgetReport, InState
<1>9. ASSUME NEW v \in Poller, NEW p \in Report, Poll(v, p) PROVE ReportInv'
  <2>0. (report[p].state = "completed") = TRUE \/ (report[p].state = "completed") = FALSE OBVIOUS
  <2>1. PICK done \in BOOLEAN : done = (report[p].state = "completed") BY <2>0
  <2> DEFINE new == [NoPoll EXCEPT !.pc = "job", !.report = p, !.done = done]
  <2>2. poller' = [poller EXCEPT ![v] = new] /\ UNCHANGED <<report, logged, requester>> BY <1>9, <2>1 DEF Poll
  <2>3. new \in [pc : {"job"}, report : {p}, done : {done}, answer : {"none"}] BY DEF NoPoll
  <2>4. new \in StatusRequest /\ new.pc = "job" /\ new.report = p /\ new.done = done /\ new.answer = "none"
    BY <2>3 DEF StatusRequest
  <2> HIDE DEF new
  <2>5. done => p \in logged BY <2>1 DEF ReportInv
  <2>6. PollOK(new) BY <2>4, <2>5 DEF PollOK
  <2> QED BY <2>2, <2>4, <2>6, PollMoves
<1>b. ASSUME NEW v \in Poller, poller[v].pc # "away", NEW answer \in {"found", "missing"}, Answered(v, answer),
             poller[v].done => answer = "found", UNCHANGED <<report, logged, requester>>
      PROVE  ReportInv'
  <2> DEFINE new == [poller[v] EXCEPT !.pc = "done", !.answer = answer]
  <2>1. poller' = [poller EXCEPT ![v] = new] BY <1>b DEF Answered
  <2>2. new \in StatusRequest /\ new.report = poller[v].report /\ new.done = poller[v].done /\ new.answer = answer
    BY <1>0 DEF StatusRequest
  <2> HIDE DEF new
  <2>3. PollOK(new) BY <1>b, <2>2 DEF ReportInv, PollOK
  <2> QED BY <1>b, <2>1, <2>2, <2>3, PollMoves
<1>10. ASSUME NEW v \in Poller, PollJob(v) PROVE ReportInv'
  <2>0. poller[v].pc = "job" /\ UNCHANGED <<report, logged, requester>> BY <1>10 DEF PollJob
  <2>1. CASE poller' = [poller EXCEPT ![v].pc = "log"]
    <3> DEFINE new == [poller[v] EXCEPT !.pc = "log"]
    <3>1. poller' = [poller EXCEPT ![v] = new] BY <2>1
    <3>2. /\ new \in StatusRequest /\ new.report = poller[v].report /\ new.done = poller[v].done
          /\ new.answer = poller[v].answer
      BY <1>0 DEF StatusRequest
    <3> HIDE DEF new
    <3>3. PollOK(new) BY <2>0, <3>2 DEF ReportInv, PollOK
    <3> QED BY <2>0, <3>1, <3>2, <3>3, PollMoves
  <2>2. CASE Answered(v, "found") BY <1>b, <2>0, <2>2
  <2> QED BY <1>10, <2>1, <2>2 DEF PollJob
<1>11. ASSUME NEW v \in Poller, PollLog(v) PROVE ReportInv'
  <2>1. PICK answer \in {"found", "missing"} : answer = IF poller[v].report \in logged THEN "found" ELSE "missing" OBVIOUS
  <2>2. /\ poller[v].pc = "log" /\ Answered(v, answer) /\ UNCHANGED <<report, logged, requester>>
    BY <1>11, <2>1 DEF PollLog
  <2>3. poller[v].done => answer = "found" BY <2>1 DEF ReportInv, PollOK
  <2> QED BY <1>b, <2>2, <2>3
<1>12. ASSUME NEW v \in Poller, EndPoll(v) PROVE ReportInv'
  <2>1. NoPoll \in StatusRequest /\ PollOK(NoPoll) BY DEF NoPoll, StatusRequest, PollOK
  <2> QED BY <1>12, <2>1, PollMoves DEF EndPoll
<1>13. CASE UNCHANGED reportVars BY <1>13 DEF reportVars, ReportInv, ReportTypeOK, PollOK
<1> QED BY <1>1, <1>2, <1>3, <1>4, <1>5, <1>6, <1>7, <1>8, <1>9, <1>10, <1>11, <1>12, <1>13 DEF ReportNext, ReportStep

(* A report the queue calls written or completed is in the audit log, in   *)
(* every reachable state (workers/index.ts, reports.routes.ts).            *)
THEOREM ReportInvariance == ReportSpec => []ReportInv
<1>1. ReportInit => ReportInv BY ReportInitHolds
<1>2. ReportInv /\ [ReportNext]_reportVars => ReportInv' BY ReportStepHolds
<1> QED BY <1>1, <1>2, PTL DEF ReportSpec

(* A report that was completed when a status request came in is found by   *)
(* it, also when the queue forgets the job meanwhile                       *)
(* (reports.routes.ts:196-235), for any jobs, requests and retries.        *)
THEOREM ReportsAreFound == ReportSpec => []ReportFound
<1>1. ReportInv => ReportFound BY DEF ReportInv, PollOK, ReportFound
<1> QED BY <1>1, ReportInvariance, PTL
-----------------------------------------------------------------------------
(* The proxy to ERPNext *)

CacheEntry == [there : BOOLEAN, version : Version, age : 0..Longest, old : BOOLEAN]
ErpRead == [pc : {"away", "fetch", "fetched"}, kind : Kind, version : Version, flight : 0..Flight, old : BOOLEAN]
ErpWrite == [pc : {"away", "check", "send", "failed", "scan", "delete"},
             op : {"post", "put", "delete"}, attempts : 0..MaxAttempts, version : Version]

(* A response under way was current when it was fetched, and an entry no   *)
(* longer ago than its age and a flight; neither is from before the last   *)
(* drop of the list, unless the response overlapped one.                   *)
ReadOK(d) ==
  d.pc = "fetched" => outdated[d.version] <= d.flight /\ (d.kind = "list" /\ ~d.old => floor <= d.version)
EntryOK(kind, e) ==
  e.there => /\ outdated[e.version] <= e.age + Flight /\ e.age <= Ttl(kind)
             /\ kind = "list" /\ ~e.old => floor <= e.version

ErpInv ==
  /\ ErpTypeOK
  /\ \A v \in Version : version <= v => outdated[v] = 0
  /\ \A r \in ErpReader : ReadOK(erpReader[r])
  /\ \A kind \in Kind : EntryOK(kind, cached[kind])
  /\ \A w \in Writer : writer[w].version <= version

LEMMA ErpFacts ==
  /\ DocTtl \in Nat /\ ListTtl \in Nat /\ Flight \in Nat /\ MaxAttempts \in Nat \ {0} /\ MaxVersions \in Nat
  /\ Longest \in Nat /\ 0 \in 0..Longest /\ 0 \in 0..Flight /\ 0 \in Version /\ 0 \in 0..MaxAttempts
  /\ Version \subseteq Nat /\ \A v \in Version : v <= MaxVersions
  /\ \A kind \in Kind : Ttl(kind) \in Nat /\ Ttl(kind) <= Longest
  /\ Kind = {"doc", "list"}
BY ErpAssumption DEF Longest, Ttl, Kind, Version

LEMMA ErpParts ==
  ASSUME ErpInv
  PROVE  /\ version \in Version /\ floor \in 0..version /\ gone \in BOOLEAN
         /\ outdated \in [Version -> 0..(Longest + 1)] /\ cached \in [Kind -> CacheEntry]
         /\ erpReader \in [ErpReader -> ErpRead] /\ writer \in [Writer -> ErpWrite]
BY DEF ErpInv, ErpTypeOK, CacheEntry, ErpRead, ErpWrite

LEMMA ErpNumbers ==
  ASSUME ErpInv
  PROVE  /\ version \in Nat /\ floor \in Nat /\ floor <= version
         /\ \A v \in Version : outdated[v] \in Nat
         /\ \A w \in Writer : writer[w].version \in Nat
<1>1. version \in Nat BY ErpParts, ErpFacts
<1>2. floor \in Nat /\ floor <= version BY <1>1, ErpParts
<1>3. Longest + 1 \in Nat BY ErpFacts
<1>4. ASSUME NEW v \in Version PROVE outdated[v] \in Nat
  <2>1. outdated[v] \in 0..(Longest + 1) BY ErpParts
  <2> QED BY <1>3, <2>1
<1>5. ASSUME NEW w \in Writer PROVE writer[w].version \in Nat
  <2>1. writer[w].version \in Version BY ErpParts DEF ErpWrite
  <2> QED BY <2>1, ErpFacts
<1> QED BY <1>1, <1>2, <1>4, <1>5

LEMMA NothingThere ==
  /\ NoEntry \in CacheEntry /\ ~NoEntry.there
  /\ NotFetching \in ErpRead /\ NotFetching.pc = "away"
  /\ NotWriting \in ErpWrite /\ NotWriting.version = 0
<1>1. NoEntry \in CacheEntry BY ErpFacts DEF NoEntry, CacheEntry
<1>2. ~NoEntry.there BY DEF NoEntry
<1>3. NotFetching \in ErpRead /\ NotFetching.pc = "away" BY ErpFacts DEF NotFetching, ErpRead
<1>4. NotWriting \in ErpWrite /\ NotWriting.version = 0 BY ErpFacts DEF NotWriting, ErpWrite
<1> QED BY <1>1, <1>2, <1>3, <1>4

(* A read that moves on, and may set an entry *)
LEMMA ReadMoves ==
  ASSUME ErpInv, NEW r \in ErpReader, NEW new \in ErpRead, ReadOK(new), erpReader' = [erpReader EXCEPT ![r] = new],
         cached' \in [Kind -> CacheEntry], \A kind \in Kind : EntryOK(kind, cached'[kind]),
         UNCHANGED <<version, outdated, writer, gone, floor>>
  PROVE  ErpInv'
<1>1. erpReader' \in [ErpReader -> ErpRead] /\ \A q \in ErpReader : erpReader'[q] = IF q = r THEN new ELSE erpReader[q]
  BY ErpParts
<1>2. ErpTypeOK' BY <1>1, ErpParts DEF ErpInv, ErpTypeOK, CacheEntry, ErpRead
<1>3. \A q \in ErpReader : ReadOK(erpReader[q])' BY <1>1 DEF ErpInv, ReadOK
<1>4. \A kind \in Kind : EntryOK(kind, cached[kind])' BY DEF EntryOK
<1> QED BY <1>2, <1>3, <1>4 DEF ErpInv

(* A write that moves on, and may be done *)
LEMMA WriteMoves ==
  ASSUME ErpInv, NEW w \in Writer, NEW new \in ErpWrite, writer' = [writer EXCEPT ![w] = new],
         NEW v \in Version, version' = v, version <= v, new.version <= v, gone' \in BOOLEAN,
         UNCHANGED <<outdated, cached, erpReader, floor>>
  PROVE  ErpInv'
<1>1. writer' \in [Writer -> ErpWrite] /\ \A x \in Writer : writer'[x] = IF x = w THEN new ELSE writer[x]
  BY ErpParts
<1>2. version \in Nat /\ v \in Nat BY ErpParts, ErpFacts
<1>3. floor \in 0..v BY <1>2, ErpParts
<1>4. ErpTypeOK' BY <1>1, <1>3, ErpParts DEF ErpInv, ErpTypeOK, ErpWrite
<1>5. \A u \in Version : v <= u => outdated[u] = 0
  <2> TAKE u \in Version
  <2>1. u \in Nat BY ErpFacts
  <2> QED BY <1>2, <2>1 DEF ErpInv
<1>6. ASSUME NEW x \in Writer PROVE writer'[x].version <= v
  <2>1. CASE x = w BY <1>1, <2>1
  <2>2. CASE x # w
    <3>1. writer[x].version \in Nat /\ writer[x].version <= version BY ErpParts, ErpFacts DEF ErpInv, ErpWrite
    <3> QED BY <1>1, <1>2, <2>2, <3>1
  <2> QED BY <2>1, <2>2
<1>7. \A r \in ErpReader : ReadOK(erpReader[r])' BY DEF ErpInv, ReadOK
<1>8. \A kind \in Kind : EntryOK(kind, cached[kind])' BY DEF ErpInv, EntryOK
<1> QED BY <1>4, <1>5, <1>6, <1>7, <1>8 DEF ErpInv

(* The drop of the list: responses of lists under way count as older. *)
LEMMA InvalidatedHolds ==
  ASSUME ErpInv, NEW w \in Writer, Invalidated(w), UNCHANGED <<version, outdated, gone>>,
         cached' \in [Kind -> CacheEntry], ~cached'["list"].there, cached'["doc"] = cached["doc"]
  PROVE  ErpInv'
<1>1. writer' = [writer EXCEPT ![w] = NotWriting] /\ floor' = IF writer[w].version > floor THEN writer[w].version ELSE floor
  BY DEF Invalidated
<1>2. writer[w].version \in Nat /\ writer[w].version <= version /\ version \in Nat /\ floor \in 0..version
  BY ErpParts, ErpFacts DEF ErpInv, ErpWrite
<1>3. floor' \in 0..version' BY <1>1, <1>2
<1>4. writer' \in [Writer -> ErpWrite] /\ \A x \in Writer : writer'[x] = IF x = w THEN NotWriting ELSE writer[x]
  BY <1>1, ErpParts, NothingThere
<1>5. ASSUME NEW r \in ErpReader
      PROVE  erpReader'[r] \in ErpRead /\ ReadOK(erpReader[r])'
  <2>1. PICK d \in ErpRead : d = erpReader[r] BY ErpParts
  <2>2. ReadOK(d) BY <2>1 DEF ErpInv
  <2>3. (d.old \/ (d.pc = "fetched" /\ d.kind = "list")) = TRUE \/ (d.old \/ (d.pc = "fetched" /\ d.kind = "list")) = FALSE
    OBVIOUS
  <2>4. PICK old \in BOOLEAN : old = (d.old \/ (d.pc = "fetched" /\ d.kind = "list")) BY <2>3
  <2>5. erpReader'[r] = [d EXCEPT !.old = old] BY <2>1, <2>4 DEF Invalidated
  <2>6. PICK e \in ErpRead : e = [d EXCEPT !.old = old] BY DEF ErpRead
  <2>7. e.pc = d.pc /\ e.kind = d.kind /\ e.version = d.version /\ e.flight = d.flight /\ e.old = old BY <2>6 DEF ErpRead
  <2>8. e.pc = "fetched" /\ e.kind = "list" => e.old BY <2>4, <2>7
  <2>9. e.pc = "fetched" => outdated[e.version] <= e.flight BY <2>2, <2>7 DEF ReadOK
  <2> QED BY <2>5, <2>6, <2>8, <2>9 DEF ReadOK
<1>6. erpReader' \in [ErpReader -> ErpRead] BY <1>5 DEF Invalidated
<1>7. ErpTypeOK' BY <1>3, <1>4, <1>6, ErpParts DEF ErpInv, ErpTypeOK, CacheEntry, ErpRead, ErpWrite
<1>8. ASSUME NEW kind \in Kind PROVE EntryOK(kind, cached[kind])'
  <2>1. CASE kind = "list" BY <2>1 DEF EntryOK
  <2>2. CASE kind = "doc"
    <3>1. EntryOK("doc", cached["doc"]) BY <2>2 DEF ErpInv
    <3> QED BY <2>2, <3>1 DEF EntryOK, Ttl
  <2> QED BY <2>1, <2>2, ErpFacts
<1>9. \A x \in Writer : writer'[x].version <= version' BY <1>2, <1>4, NothingThere DEF ErpInv
<1>10. \A v \in Version : version' <= v => outdated'[v] = 0 BY DEF ErpInv
<1> QED BY <1>5, <1>7, <1>8, <1>9, <1>10 DEF ErpInv

LEMMA ErpInitHolds == ErpInit => ErpInv
<1> SUFFICES ASSUME ErpInit PROVE ErpInv OBVIOUS
<1>1. 0 \in 0..(Longest + 1) /\ 0 \in 0..0 /\ FALSE \in BOOLEAN BY ErpFacts
<1>2. ErpTypeOK BY <1>1, ErpFacts, NothingThere DEF ErpInit, ErpTypeOK, CacheEntry, ErpRead, ErpWrite
<1>3. \A v \in Version : outdated[v] = 0 BY DEF ErpInit
<1>4. \A r \in ErpReader : ReadOK(erpReader[r]) BY NothingThere DEF ErpInit, ReadOK
<1>5. \A kind \in Kind : EntryOK(kind, cached[kind]) BY NothingThere DEF ErpInit, EntryOK
<1>6. \A w \in Writer : writer[w].version <= version BY NothingThere DEF ErpInit
<1> QED BY <1>2, <1>3, <1>4, <1>5, <1>6 DEF ErpInv
(* A minute passes: what is no longer current has been so for longer, and  *)
(* the entries and the responses under way are as much older.              *)
LEMMA PassHolds == ASSUME ErpInv, Pass PROVE ErpInv'
<1>0. /\ \A r \in ErpReader : erpReader[r].pc = "fetched" => erpReader[r].flight < Flight
      /\ outdated' = [v \in Version |-> IF v < version /\ outdated[v] <= Longest THEN outdated[v] + 1 ELSE outdated[v]]
      /\ cached' = [kind \in Kind |-> Older(kind)]
      /\ erpReader' = [r \in ErpReader |->
                  IF erpReader[r].pc = "fetched" THEN [erpReader[r] EXCEPT !.flight = @ + 1] ELSE erpReader[r]]
      /\ UNCHANGED <<version, writer, gone, floor>>
  BY DEF Pass
<1>1. ASSUME NEW v \in Version
      PROVE  /\ outdated'[v] \in 0..(Longest + 1) /\ outdated[v] \in Nat
             /\ outdated'[v] \in Nat /\ outdated'[v] <= outdated[v] + 1
             /\ (version <= v => outdated'[v] = 0)
  <2>1. outdated[v] \in 0..(Longest + 1) /\ v \in Nat /\ version \in Nat /\ Longest \in Nat BY ErpParts, ErpFacts
  <2>2. outdated'[v] = IF v < version /\ outdated[v] <= Longest THEN outdated[v] + 1 ELSE outdated[v] BY <1>0
  <2>3. version <= v => outdated[v] = 0 BY DEF ErpInv
  <2> QED BY <2>1, <2>2, <2>3
<1>2. outdated' \in [Version -> 0..(Longest + 1)] BY <1>0, <1>1
<1>3. ASSUME NEW r \in ErpReader PROVE erpReader'[r] \in ErpRead /\ ReadOK(erpReader[r])'
  <2>1. PICK d \in ErpRead : d = erpReader[r] BY ErpParts
  <2>2. ReadOK(d) BY <2>1 DEF ErpInv
  <2>3. CASE d.pc = "fetched"
    <3>1. d.flight + 1 \in 0..Flight /\ d.flight \in Nat BY <1>0, <2>1, <2>3, ErpFacts DEF ErpRead
    <3>2. PICK e \in ErpRead : e = [d EXCEPT !.flight = @ + 1] BY <3>1 DEF ErpRead
    <3>3. erpReader'[r] = e BY <1>0, <2>1, <2>3, <3>2
    <3>4. e.kind = d.kind /\ e.version = d.version /\ e.flight = d.flight + 1 /\ e.old = d.old BY <3>2 DEF ErpRead
    <3>5. d.version \in Version BY DEF ErpRead
    <3>6. outdated[d.version] <= d.flight /\ (d.kind = "list" /\ ~d.old => floor <= d.version) BY <2>2, <2>3 DEF ReadOK
    <3>7. PICK age : age = outdated'[d.version] OBVIOUS
    <3>8. age \in Nat /\ age <= outdated[d.version] + 1 BY <1>1, <3>5, <3>7
    <3>9. outdated[d.version] \in Nat BY <1>1, <3>5
    <3>10. age <= e.flight BY <3>1, <3>4, <3>6, <3>8, <3>9
    <3> QED BY <1>0, <3>3, <3>4, <3>6, <3>7, <3>10 DEF ReadOK
  <2>4. CASE d.pc # "fetched"
    <3>1. erpReader'[r] = d BY <1>0, <2>1, <2>4
    <3> QED BY <2>4, <3>1 DEF ReadOK
  <2> QED BY <2>3, <2>4
<1>4. erpReader' \in [ErpReader -> ErpRead] BY <1>0, <1>3
<1>5. ASSUME NEW kind \in Kind PROVE cached'[kind] \in CacheEntry /\ EntryOK(kind, cached[kind])'
  <2>1. PICK e \in CacheEntry : e = cached[kind] BY ErpParts
  <2>2. EntryOK(kind, e) /\ Ttl(kind) \in Nat /\ Ttl(kind) <= Longest BY <2>1, ErpFacts DEF ErpInv
  <2>3. cached'[kind] = IF ~e.there \/ e.age + 1 > Ttl(kind) THEN NoEntry ELSE [e EXCEPT !.age = @ + 1]
    BY <1>0, <2>1 DEF Older
  <2>4. CASE ~e.there \/ e.age + 1 > Ttl(kind)
    <3>1. cached'[kind] = NoEntry BY <2>3, <2>4
    <3> QED BY <3>1, NothingThere DEF EntryOK
  <2>5. CASE e.there /\ ~(e.age + 1 > Ttl(kind))
    <3>1. e.age + 1 \in 0..Longest /\ e.age \in Nat /\ e.age + 1 <= Ttl(kind) BY <2>2, <2>5, ErpFacts DEF CacheEntry
    <3>2. PICK f \in CacheEntry : f = [e EXCEPT !.age = @ + 1] BY <3>1 DEF CacheEntry
    <3>3. cached'[kind] = f BY <2>3, <2>5, <3>2
    <3>4. f.version = e.version /\ f.age = e.age + 1 /\ f.old = e.old /\ e.version \in Version BY <3>2 DEF CacheEntry
    <3>5. /\ outdated[e.version] <= e.age + Flight
          /\ kind = "list" /\ ~e.old => floor <= e.version
      BY <2>2, <2>5 DEF EntryOK
    <3>6. PICK age : age = outdated'[e.version] OBVIOUS
    <3>7. age \in Nat /\ age <= outdated[e.version] + 1 /\ outdated[e.version] \in Nat BY <1>1, <3>4, <3>6
    <3>8. age <= f.age + Flight BY <3>1, <3>4, <3>5, <3>7, ErpFacts
    <3> QED BY <1>0, <3>1, <3>3, <3>4, <3>5, <3>6, <3>8 DEF EntryOK, Ttl
  <2> QED BY <2>4, <2>5
<1>6. cached' \in [Kind -> CacheEntry] BY <1>0, <1>5
<1>7. ErpTypeOK' BY <1>0, <1>2, <1>4, <1>6, ErpParts DEF ErpInv, ErpTypeOK, CacheEntry, ErpRead
<1>8. \A v \in Version : version' <= v => outdated'[v] = 0 BY <1>0, <1>1
<1>9. \A w \in Writer : writer'[w].version <= version' BY <1>0 DEF ErpInv
<1> QED BY <1>3, <1>5, <1>7, <1>8, <1>9 DEF ErpInv

LEMMA ErpStepHolds == ErpInv /\ [ErpNext]_erpVars => ErpInv'
<1> SUFFICES ASSUME ErpInv, [ErpNext]_erpVars PROVE ErpInv' OBVIOUS
<1>0. \A kind \in Kind : EntryOK(kind, cached[kind]) BY DEF ErpInv
<1>a. ASSUME NEW r \in ErpReader, NEW kind \in Kind, Fetching(r, kind) PROVE ErpInv'
  <2> DEFINE new == [NotFetching EXCEPT !.pc = "fetch", !.kind = kind]
  <2>1. new \in [pc : {"fetch"}, kind : {kind}, version : {0}, flight : {0}, old : {FALSE}] BY DEF NotFetching
  <2>2. new \in ErpRead /\ new.pc = "fetch" BY <2>1, ErpFacts DEF ErpRead
  <2>3. erpReader' = [erpReader EXCEPT ![r] = new] /\ UNCHANGED <<version, outdated, cached, writer, gone, floor>>
    BY <1>a DEF Fetching
  <2> HIDE DEF new
  <2>4. ReadOK(new) BY <2>2 DEF ReadOK
  <2> QED BY <1>0, <2>2, <2>3, <2>4, ErpParts, ReadMoves
<1>b. ASSUME NEW r \in ErpReader, erpReader' = [erpReader EXCEPT ![r] = NotFetching],
             cached' \in [Kind -> CacheEntry], \A kind \in Kind : EntryOK(kind, cached'[kind]),
             UNCHANGED <<version, outdated, writer, gone, floor>>
      PROVE  ErpInv'
  <2>1. ReadOK(NotFetching) BY NothingThere DEF ReadOK
  <2> QED BY <1>b, <2>1, NothingThere, ReadMoves
<1>1. ASSUME NEW r \in ErpReader, FetchErp(r) PROVE ErpInv'
  <2>0. UNCHANGED <<version, outdated, cached, writer, gone, floor>> BY <1>1 DEF FetchErp
  <2>1. CASE erpReader' = [erpReader EXCEPT ![r].pc = "fetched", ![r].version = version]
    <3>1. PICK d \in ErpRead : d = erpReader[r] BY ErpParts
    <3>2. version \in Version /\ version \in Nat /\ floor <= version /\ outdated[version] = 0
      <4>1. version \in Version /\ version \in Nat /\ floor <= version BY ErpParts, ErpNumbers
      <4> QED BY <4>1 DEF ErpInv
    <3>3. PICK new \in ErpRead : new = [d EXCEPT !.pc = "fetched", !.version = version] BY <3>2 DEF ErpRead
    <3>4. new.version = version /\ new.flight = d.flight /\ d.flight \in Nat BY <3>3, ErpFacts DEF ErpRead
    <3>5. ReadOK(new) BY <3>2, <3>4 DEF ReadOK
    <3>6. erpReader' = [erpReader EXCEPT ![r] = new] BY <2>1, <3>1, <3>3
    <3> QED BY <1>0, <2>0, <3>5, <3>6, ErpParts, ReadMoves
  <2>2. CASE erpReader' = [erpReader EXCEPT ![r] = NotFetching] BY <1>0, <1>b, <2>0, <2>2, ErpParts
  <2> QED BY <1>1, <2>1, <2>2 DEF FetchErp
<1>2. ASSUME NEW r \in ErpReader, NEW kind \in Kind, Store(r, kind) PROVE ErpInv'
  <2>1. PICK d \in ErpRead : d = erpReader[r] BY ErpParts
  <2>2. d.pc = "fetched" /\ d.kind = kind /\ ReadOK(d) BY <1>2, <2>1 DEF Store, ErpInv
  <2>3. PICK new \in CacheEntry : new = [there |-> TRUE, version |-> d.version, age |-> 0, old |-> d.old]
    BY ErpFacts DEF CacheEntry, ErpRead
  <2>4. cached' \in {cached, [cached EXCEPT ![kind] = new]} BY <1>2, <2>1, <2>3 DEF Store
  <2>5. d.flight \in 0..Flight /\ d.version \in Version /\ outdated[d.version] \in Nat
    BY ErpNumbers DEF ErpRead
  <2>6. outdated[d.version] <= Flight /\ (kind = "list" /\ ~d.old => floor <= d.version)
    BY <2>2, <2>5, ErpFacts DEF ReadOK
  <2>7. EntryOK(kind, new) BY <2>3, <2>5, <2>6, ErpFacts DEF EntryOK
  <2>8. cached' \in [Kind -> CacheEntry] /\ \A k \in Kind : EntryOK(k, cached'[k]) BY <1>0, <2>4, <2>7, ErpParts
  <2> QED BY <1>2, <1>b, <2>8 DEF Store
<1>c. ASSUME NEW w \in Writer, NEW new \in ErpWrite, writer' = [writer EXCEPT ![w] = new], new.version <= version,
             UNCHANGED <<version, outdated, cached, erpReader, gone, floor>>
      PROVE  ErpInv'
  <2>1. PICK v \in Version : v = version BY ErpParts
  <2>2. version <= v /\ gone \in BOOLEAN BY <2>1, ErpParts, ErpFacts
  <2> QED BY <1>c, <2>1, <2>2, WriteMoves
<1>d. ASSUME NEW w \in Writer
      PROVE  /\ writer[w] \in ErpWrite /\ writer[w].version \in Nat /\ writer[w].version <= version /\ version \in Nat
             /\ NotWriting.version <= version
  <2>1. writer[w] \in ErpWrite /\ writer[w].version \in Nat /\ version \in Nat BY ErpParts, ErpNumbers
  <2>2. writer[w].version <= version BY DEF ErpInv
  <2>3. NotWriting.version = 0 BY NothingThere
  <2> QED BY <2>1, <2>2, <2>3
<1>e. ASSUME NEW w \in Writer, NEW pc \in {"check", "send", "failed", "scan", "delete"},
             writer' = [writer EXCEPT ![w].pc = pc], UNCHANGED <<version, outdated, cached, erpReader, gone, floor>>
      PROVE  ErpInv'
  <2> DEFINE new == [writer[w] EXCEPT !.pc = pc]
  <2>1. new \in ErpWrite /\ new.version = writer[w].version BY <1>d DEF ErpWrite
  <2>2. writer' = [writer EXCEPT ![w] = new] BY <1>e
  <2> HIDE DEF new
  <2> QED BY <1>c, <1>d, <1>e, <2>1, <2>2
<1>f. ASSUME NEW w \in Writer, writer' = [writer EXCEPT ![w] = NotWriting],
             UNCHANGED <<version, outdated, cached, erpReader, gone, floor>>
      PROVE  ErpInv'
  BY <1>c, <1>d, <1>f, NothingThere
<1>3. ASSUME NEW w \in Writer, NEW op \in {"post", "put", "delete"}, NEW pc \in {"send", "check"}, BeginWrite(w, op, pc)
      PROVE  ErpInv'
  <2> DEFINE new == [writer[w] EXCEPT !.pc = pc, !.op = op]
  <2>1. new \in ErpWrite /\ new.version = writer[w].version BY <1>d DEF ErpWrite
  <2>2. writer' = [writer EXCEPT ![w] = new] /\ UNCHANGED <<version, outdated, cached, erpReader, gone, floor>>
    BY <1>3 DEF BeginWrite
  <2> HIDE DEF new
  <2> QED BY <1>c, <1>d, <2>1, <2>2
<1>4. ASSUME NEW w \in Writer, CheckOwner(w) PROVE ErpInv'
  BY <1>4, <1>e, <1>f DEF CheckOwner
<1>g. ASSUME NEW w \in Writer, NEW pc \in {"send", "failed", "scan"}, pc = "send" => writer[w].attempts + 1 <= MaxAttempts,
             NEW v \in Version
      PROVE  Sent(w, pc, v) \in ErpWrite /\ Sent(w, pc, v).version \in {0, v}
  <2>1. PICK d \in ErpWrite : d = writer[w] BY <1>d
  <2>2. PICK attempts \in 0..MaxAttempts : attempts = IF pc = "send" THEN d.attempts + 1 ELSE 0
    BY <1>g, <2>1, ErpFacts DEF ErpWrite
  <2>3. PICK u \in Version : u = IF pc = "failed" THEN 0 ELSE v BY ErpFacts
  <2>4. Sent(w, pc, v) = [d EXCEPT !.pc = pc, !.attempts = attempts, !.version = u] BY <2>1, <2>2, <2>3 DEF Sent
  <2>5. PICK new \in ErpWrite : new = [d EXCEPT !.pc = pc, !.attempts = attempts, !.version = u] BY DEF ErpWrite
  <2>6. new.version = u BY <2>5 DEF ErpWrite
  <2> QED BY <2>3, <2>4, <2>5, <2>6
<1>h. ASSUME NEW w \in Writer, NEW pc \in {"send", "failed", "scan"}, pc = "send" => writer[w].attempts + 1 <= MaxAttempts,
             \/ Write(w, pc)
             \/ writer' = [writer EXCEPT ![w] = Sent(w, pc, writer[w].version)] /\ UNCHANGED <<version, gone>>,
             UNCHANGED <<outdated, cached, erpReader, floor>>
      PROVE  ErpInv'
  <2>1. CASE Write(w, pc)
    <3>1. version < MaxVersions /\ version \in Nat /\ gone \in BOOLEAN BY <2>1, <1>d, ErpParts DEF Write
    <3>2. PICK v \in Version : v = version + 1 BY <3>1, ErpFacts DEF Version
    <3>3. PICK new \in ErpWrite : new = Sent(w, pc, v) BY <1>g, <1>h
    <3>4. new.version \in {0, v} BY <1>g, <1>h, <3>3
    <3>5. writer' = [writer EXCEPT ![w] = new] /\ version' = v BY <2>1, <3>2, <3>3 DEF Write
    <3>6. gone' \in BOOLEAN BY <2>1, <3>1 DEF Write
    <3>7. version <= v /\ new.version <= v BY <3>1, <3>2, <3>4
    <3> QED BY <1>h, <3>5, <3>6, <3>7, WriteMoves
  <2>2. CASE writer' = [writer EXCEPT ![w] = Sent(w, pc, writer[w].version)] /\ UNCHANGED <<version, gone>>
    <3>1. PICK v \in Version : v = writer[w].version BY <1>d DEF ErpWrite
    <3>2. PICK new \in ErpWrite : new = Sent(w, pc, v) BY <1>g, <1>h
    <3>3. new.version \in {0, v} BY <1>g, <1>h, <3>2
    <3>4. new.version <= version BY <1>d, <3>1, <3>3
    <3> QED BY <1>c, <1>h, <2>2, <3>1, <3>2, <3>4
  <2> QED BY <1>h, <2>1, <2>2
<1>5. ASSUME NEW w \in Writer, WriteErp(w) PROVE ErpInv'
  BY <1>5, <1>h DEF WriteErp
<1>6. ASSUME NEW w \in Writer, WriteUnanswered(w) PROVE ErpInv'
  <2>1. PICK pc \in {"send", "failed"} : pc = IF writer[w].attempts + 1 < MaxAttempts THEN "send" ELSE "failed" OBVIOUS
  <2>2. writer[w].attempts \in Nat /\ MaxAttempts \in Nat BY <1>d, ErpFacts DEF ErpWrite
  <2>3. pc = "send" => writer[w].attempts + 1 <= MaxAttempts BY <2>1, <2>2
  <2>4. /\ Write(w, pc) \/ (writer' = [writer EXCEPT ![w] = Sent(w, pc, writer[w].version)] /\ UNCHANGED <<version, gone>>)
        /\ UNCHANGED <<outdated, cached, erpReader, floor>>
    BY <1>6, <2>1 DEF WriteUnanswered
  <2> QED BY <1>h, <2>3, <2>4
<1>7. ASSUME NEW w \in Writer, WriteFails(w) PROVE ErpInv'
  BY <1>7, <1>f DEF WriteFails
<1>8. ASSUME NEW w \in Writer, ScanList(w) PROVE ErpInv'
  <2>1. UNCHANGED <<version, outdated, cached, gone>> BY <1>8 DEF ScanList
  <2>2. CASE writer' = [writer EXCEPT ![w].pc = "delete"] /\ UNCHANGED <<erpReader, floor>> BY <1>e, <2>1, <2>2
  <2>3. CASE ~cached["list"].there /\ Invalidated(w) BY <2>1, <2>3, ErpParts, InvalidatedHolds
  <2> QED BY <1>8, <2>2, <2>3 DEF ScanList
<1>9. ASSUME NEW w \in Writer, DeleteList(w) PROVE ErpInv'
  <2>1. cached' = [cached EXCEPT !["list"] = NoEntry] /\ Invalidated(w) /\ UNCHANGED <<version, outdated, gone>>
    BY <1>9 DEF DeleteList
  <2>2. cached' \in [Kind -> CacheEntry] /\ ~cached'["list"].there /\ cached'["doc"] = cached["doc"]
    BY <2>1, ErpParts, ErpFacts, NothingThere
  <2> QED BY <2>1, <2>2, InvalidatedHolds
<1>10. ASSUME NEW w \in Writer, InvalidateFails(w) PROVE ErpInv'
  BY <1>10, <1>f DEF InvalidateFails
<1>11. ASSUME NEW w \in Writer, handleCreateDoc(w) \/ handleUpdateDoc(w) \/ handleDeleteDoc(w) PROVE ErpInv'
  <2>1. ASSUME NEW op, Proceed(w, op) PROVE ErpInv'
    BY <1>4, <1>5, <1>6, <1>7, <1>8, <1>9, <1>10, <2>1 DEF Proceed
  <2>2. ASSUME BeginPost(w) \/ BeginPut(w) \/ BeginDelete(w) PROVE ErpInv'
    BY <1>3, <2>2 DEF BeginPost, BeginPut, BeginDelete
  <2> QED BY <1>11, <2>1, <2>2 DEF handleCreateDoc, handleUpdateDoc, handleDeleteDoc
<1>12. ASSUME NEW r \in ErpReader, MissList(r) \/ MissDoc(r) \/ FetchErp(r) \/ StoreList(r) \/ StoreDoc(r) PROVE ErpInv'
  BY <1>12, <1>a, <1>1, <1>2, ErpFacts DEF MissList, MissDoc, StoreList, StoreDoc
<1>13. CASE UNCHANGED erpVars BY <1>13 DEF erpVars, ErpInv, ErpTypeOK, ReadOK, EntryOK
<1> QED BY <1>11, <1>12, <1>13, PassHolds DEF ErpNext

(* Types, and how old what is cached and what is on its way into the cache *)
(* can be, in every reachable state (erp.service.ts, erp.controller.ts).   *)
THEOREM ErpInvariance == ErpSpec => []ErpInv
<1>1. ErpInit => ErpInv BY ErpInitHolds
<1>2. ErpInv /\ [ErpNext]_erpVars => ErpInv' BY ErpStepHolds
<1> QED BY <1>1, <1>2, PTL DEF ErpSpec

LEMMA ErpInvIsFresh == ErpInv => CachesFresh
<1> SUFFICES ASSUME ErpInv PROVE CachesFresh OBVIOUS
<1>1. ASSUME NEW kind \in Kind, cached[kind].there PROVE outdated[cached[kind].version] <= Ttl(kind) + Flight
  <2>1. PICK e \in CacheEntry : e = cached[kind] BY ErpParts
  <2>2. outdated[e.version] <= e.age + Flight /\ e.age <= Ttl(kind) BY <1>1, <2>1 DEF ErpInv, EntryOK
  <2>a. e.age \in 0..Longest /\ e.version \in Version BY DEF CacheEntry
  <2>3. outdated[e.version] \in Nat BY <2>a, ErpNumbers
  <2>b. e.age \in Nat BY <2>a, ErpFacts
  <2> QED BY <2>1, <2>2, <2>3, <2>b, ErpFacts
<1>2. ASSUME cached["list"].there, ~cached["list"].old PROVE cached["list"].version >= floor
  <2>1. floor <= cached["list"].version BY <1>2, ErpFacts DEF ErpInv, EntryOK
  <2>2. cached["list"].version \in Version BY ErpParts, ErpFacts DEF CacheEntry
  <2>3. floor \in Nat /\ cached["list"].version \in Nat BY <2>2, ErpNumbers, ErpFacts
  <2> QED BY <2>1, <2>3
<1> QED BY <1>1, <1>2 DEF CachesFresh

(* What the cache answers was current within the entry's lifetime and a    *)
(* flight, and a dropped list does not come back from before the drop      *)
(* (erp.controller.ts:48), for any readers, writers, lifetimes and retries. *)
THEOREM CachesAreFresh == ErpSpec => []CachesFresh
BY ErpInvariance, ErpInvIsFresh, PTL
-----------------------------------------------------------------------------
(* The audit log *)

AuditEntry == [hash : Seq(Nat), prev : Seq(Nat), at : Nat, missing : Nat, unset : BOOLEAN]
LoggerState == [pc : {"away", "insert", "set"}, prev : Seq(Nat), at : Nat, entry : Nat]

(* A hash that may be named at t: that of an entry at most this old then   *)
Backed(e, hash, t, old) == hash = Genesis \/ \E j \in 1..Len(e) : e[j].hash = hash /\ t <= e[j].at + old

ChainedIn(e, i) ==
  e[i].prev = Genesis \/ \E j \in (e[i].missing + 1)..(i - 1) : e[j].hash = e[i].prev

(* The entries that name a hash and reached Redis or still may; those and  *)
(* the entries with the hash that no logger has still to write to Redis;   *)
(* and the loggers about to insert an entry that names it.                 *)
Naming(e, hash) == {i \in 1..Len(e) : e[i].prev = hash /\ ~e[i].unset}
Settled(g, i) == \A l \in Logger : ~(g[l].pc = "set" /\ g[l].entry = i)
SettledNaming(e, g, hash) == {i \in Naming(e, hash) : Settled(g, i)}
SettledCopies(e, g, hash) == {i \in 1..Len(e) : e[i].hash = hash /\ Settled(g, i)}
Inserting(g, hash) == {l \in Logger : g[l].pc = "insert" /\ g[l].prev = hash}

(* Each time a hash was written to Redis, every logger may follow it once; *)
(* while it is there, the last time is not used up by what is settled.     *)
Forks(e, g, top, hash) ==
  /\ Cardinality(Naming(e, hash)) + Cardinality(Inserting(g, hash))
       <= Cardinality(Logger) * Cardinality(SettledCopies(e, g, hash))
  /\ top = hash => Cardinality(SettledNaming(e, g, hash)) + Cardinality(Logger)
                     <= Cardinality(Logger) * Cardinality(SettledCopies(e, g, hash))

LoggerOK(e, g, l) ==
  /\ g[l].pc # "away" => clock <= g[l].at + LogDelay
  /\ g[l].pc = "insert" => Backed(e, g[l].prev, g[l].at, LogDelay + HeadTtl)
  /\ g[l].pc = "set" => g[l].entry \in 1..Len(e) /\ g[l].at <= e[g[l].entry].at

AuditShape ==
  /\ entries \in Seq(AuditEntry) /\ logger \in [Logger -> LoggerState] /\ head \in [hash : Seq(Nat), age : Nat]
  /\ \A i \in 1..Len(entries) : entries[i].hash # Genesis /\ entries[i].hash # entries[i].prev
  /\ \A i, j \in 1..Len(entries) : i <= j => entries[i].at <= entries[j].at
  /\ \A i \in 1..purged : entries[i].at + Retention < clock

AuditInv ==
  /\ AuditTypeOK /\ Len(entries) + Cardinality(Busy) <= MaxEntries
  /\ AuditShape
  /\ Backed(entries, head.hash, clock, LogDelay + head.age)
  /\ \A l \in Logger : LoggerOK(entries, logger, l)
  /\ \A l, m \in Logger :
       l # m /\ logger[l].pc = "set" /\ logger[m].pc = "set" => logger[l].entry # logger[m].entry
  /\ \A i \in 1..Len(entries) : ChainedIn(entries, i)
  /\ \A hash : hash # Genesis => Forks(entries, logger, head.hash, hash)

LEMMA AuditFacts ==
  /\ IsFiniteSet(Logger) /\ Cardinality(Logger) \in Nat
  /\ HeadTtl \in Nat /\ Retention \in Nat /\ LogDelay \in Nat /\ HeadTtl + 2 * LogDelay <= Retention
  /\ MaxOutages \in Nat /\ MaxEntries \in Nat /\ LastClock \in Nat
BY FS_CardinalityType, AuditAssumption

LEMMA LoggerSets ==
  ASSUME NEW some \in SUBSET Logger
  PROVE  IsFiniteSet(some) /\ Cardinality(some) \in Nat /\ Cardinality(some) <= Cardinality(Logger)
BY FS_Subset, FS_CardinalityType, AuditFacts

LEMMA EntrySets ==
  ASSUME NEW n \in Nat, NEW some \in SUBSET (1..n)
  PROVE  IsFiniteSet(some) /\ Cardinality(some) \in Nat /\ Cardinality(some) <= n
<1>1. IsFiniteSet(1..n) /\ Cardinality(1..n) = n BY FS_Interval
<1> QED BY <1>1, FS_Subset, FS_CardinalityType

LEMMA Products ==
  ASSUME NEW n \in Nat, NEW few \in Nat, NEW many \in Nat
  PROVE  /\ n * few \in Nat /\ n * (few + 1) = n * few + n
         /\ few <= many => n * few <= n * many
OBVIOUS

LEMMA ForkSets ==
  ASSUME NEW e, Len(e) \in Nat, NEW g, NEW hash
  PROVE  /\ IsFiniteSet(Naming(e, hash)) /\ Cardinality(Naming(e, hash)) \in Nat
         /\ IsFiniteSet(SettledNaming(e, g, hash)) /\ Cardinality(SettledNaming(e, g, hash)) \in Nat
         /\ IsFiniteSet(SettledCopies(e, g, hash)) /\ Cardinality(SettledCopies(e, g, hash)) \in Nat
         /\ IsFiniteSet(Inserting(g, hash)) /\ Cardinality(Inserting(g, hash)) \in Nat
<1>1. Naming(e, hash) \in SUBSET (1..Len(e)) BY DEF Naming
<1>2. SettledNaming(e, g, hash) \in SUBSET (1..Len(e)) BY <1>1 DEF SettledNaming
<1>3. SettledCopies(e, g, hash) \in SUBSET (1..Len(e)) BY DEF SettledCopies
<1>4. Inserting(g, hash) \in SUBSET Logger BY DEF Inserting
<1> QED BY <1>1, <1>2, <1>3, <1>4, EntrySets, LoggerSets

(* The entries that are not settled and the loggers about to insert are at *)
(* most one for each logger.                                               *)
LEMMA Crowd ==
  ASSUME NEW e, Len(e) \in Nat, NEW g, NEW hash
  PROVE  Cardinality(Naming(e, hash)) + Cardinality(Inserting(g, hash))
           <= Cardinality(SettledNaming(e, g, hash)) + Cardinality(Logger)
<1> DEFINE N == Naming(e, hash)
           S == SettledNaming(e, g, hash)
           I == Inserting(g, hash)
           W == {l \in Logger : g[l].pc = "set" /\ g[l].entry \in N}
           f == [l \in W |-> g[l].entry]
<1>1. W \in SUBSET Logger /\ I \in SUBSET Logger /\ W \cap I = {} /\ W \cup I \in SUBSET Logger BY DEF Inserting
<1>2. IsFiniteSet(W) /\ IsFiniteSet(I) /\ Cardinality(W) \in Nat /\ Cardinality(I) \in Nat
      /\ Cardinality(W \cup I) <= Cardinality(Logger)
  BY <1>1, LoggerSets
<1>3. Cardinality(W \cup I) = Cardinality(W) + Cardinality(I)
  <2>1. Cardinality(W \cup I) = Cardinality(W) + Cardinality(I) - Cardinality(W \cap I) BY <1>2, FS_Union
  <2>2. Cardinality(W \cap I) = 0 BY <1>1, FS_EmptySet
  <2> QED BY <1>2, <2>1, <2>2
<1>4. f \in Surjection(W, N \ S)
  <2>1. \A l \in W : g[l].entry \in N \ S BY DEF SettledNaming, Settled
  <2>2. \A i \in N \ S : \E l \in W : g[l].entry = i BY DEF SettledNaming, Settled
  <2> QED BY <2>1, <2>2 DEF Surjection
<1>5. Cardinality(N \ S) <= Cardinality(W) BY <1>2, <1>4, FS_Surjection
<1>6. S \subseteq N /\ IsFiniteSet(N) /\ Cardinality(N) \in Nat /\ Cardinality(S) \in Nat BY ForkSets DEF SettledNaming
<1>7. N \cap S = S BY <1>6
<1>8. Cardinality(N \ S) = Cardinality(N) - Cardinality(S) BY <1>6, <1>7, FS_Difference
<1> HIDE DEF N, S, I, W
<1>9. Cardinality(N) + Cardinality(I) <= Cardinality(S) + Cardinality(Logger) BY <1>2, <1>3, <1>5, <1>6, <1>8, AuditFacts
<1> QED BY <1>9 DEF N, S, I

(* A step that adds no follower and leaves what was written to Redis       *)
LEMMA ForksKept ==
  ASSUME NEW e, NEW e1, NEW g, NEW g1, NEW top, NEW top1, NEW hash, Len(e) \in Nat, Len(e1) \in Nat,
         Forks(e, g, top, hash),
         Cardinality(Naming(e1, hash)) + Cardinality(Inserting(g1, hash))
           <= Cardinality(Naming(e, hash)) + Cardinality(Inserting(g, hash)),
         top1 = hash => top = hash /\ SettledNaming(e1, g1, hash) \subseteq SettledNaming(e, g, hash),
         SettledCopies(e, g, hash) \subseteq SettledCopies(e1, g1, hash)
  PROVE  Forks(e1, g1, top1, hash)
<1> DEFINE n == Cardinality(Logger)
           few == Cardinality(SettledCopies(e, g, hash))
           many == Cardinality(SettledCopies(e1, g1, hash))
<1>1. n \in Nat /\ few \in Nat /\ many \in Nat BY ForkSets, AuditFacts
<1>2. few <= many BY ForkSets, FS_Subset
<1>3. n * few \in Nat /\ n * many \in Nat /\ n * few <= n * many BY <1>1, <1>2, Products
<1>4. /\ Cardinality(Naming(e, hash)) \in Nat /\ Cardinality(Naming(e1, hash)) \in Nat
      /\ Cardinality(Inserting(g, hash)) \in Nat /\ Cardinality(Inserting(g1, hash)) \in Nat
      /\ Cardinality(SettledNaming(e, g, hash)) \in Nat /\ Cardinality(SettledNaming(e1, g1, hash)) \in Nat
  BY ForkSets
<1>5. top1 = hash => Cardinality(SettledNaming(e1, g1, hash)) <= Cardinality(SettledNaming(e, g, hash))
  BY ForkSets, FS_Subset
<1>6. PICK low : low = n * few OBVIOUS
<1>7. PICK high : high = n * many OBVIOUS
<1>8. Cardinality(Naming(e, hash)) + Cardinality(Inserting(g, hash)) <= low
      /\ (top = hash => Cardinality(SettledNaming(e, g, hash)) + n <= low)
  BY <1>6 DEF Forks
<1>9. low \in Nat /\ high \in Nat /\ low <= high BY <1>3, <1>6, <1>7
<1> HIDE DEF n, few, many
<1>10. Cardinality(Naming(e1, hash)) + Cardinality(Inserting(g1, hash)) <= high BY <1>4, <1>8, <1>9
<1>11. top1 = hash => Cardinality(SettledNaming(e1, g1, hash)) + n <= high BY <1>1, <1>4, <1>5, <1>8, <1>9
<1> QED BY <1>7, <1>10, <1>11 DEF n, many, Forks

(* The hash in Redis stays: any logger may read it. *)
LEMMA ForksRead ==
  ASSUME NEW e, NEW e1, NEW g, NEW g1, NEW hash, Len(e) \in Nat, Len(e1) \in Nat, Forks(e, g, hash, hash),
         SettledNaming(e1, g1, hash) \subseteq SettledNaming(e, g, hash),
         SettledCopies(e, g, hash) \subseteq SettledCopies(e1, g1, hash)
  PROVE  Forks(e1, g1, hash, hash)
<1> DEFINE n == Cardinality(Logger)
           few == Cardinality(SettledCopies(e, g, hash))
           many == Cardinality(SettledCopies(e1, g1, hash))
<1>1. n \in Nat /\ few \in Nat /\ many \in Nat BY ForkSets, AuditFacts
<1>2. few <= many BY ForkSets, FS_Subset
<1>3. PICK low : low = n * few OBVIOUS
<1>4. PICK high : high = n * many OBVIOUS
<1>5. low \in Nat /\ high \in Nat /\ low <= high BY <1>1, <1>2, <1>3, <1>4, Products
<1>6. Cardinality(SettledNaming(e1, g1, hash)) <= Cardinality(SettledNaming(e, g, hash)) BY ForkSets, FS_Subset
<1>7. Cardinality(SettledNaming(e, g, hash)) \in Nat /\ Cardinality(SettledNaming(e1, g1, hash)) \in Nat
      /\ Cardinality(Naming(e1, hash)) \in Nat /\ Cardinality(Inserting(g1, hash)) \in Nat BY ForkSets
<1>8. Cardinality(SettledNaming(e, g, hash)) + n <= low BY <1>3 DEF Forks
<1>9. Cardinality(Naming(e1, hash)) + Cardinality(Inserting(g1, hash)) <= Cardinality(SettledNaming(e1, g1, hash)) + n
  BY Crowd
<1> HIDE DEF n, few, many
<1>10. Cardinality(SettledNaming(e1, g1, hash)) + n <= high BY <1>1, <1>5, <1>6, <1>7, <1>8
<1>11. Cardinality(Naming(e1, hash)) + Cardinality(Inserting(g1, hash)) <= high BY <1>1, <1>5, <1>7, <1>9, <1>10
<1> QED BY <1>4, <1>10, <1>11 DEF n, many, Forks

(* The hash is written to Redis once more. *)
LEMMA ForksSet ==
  ASSUME NEW e, NEW g, NEW g1, NEW top, NEW hash, Len(e) \in Nat, Forks(e, g, top, hash),
         NEW k, k \notin SettledCopies(e, g, hash), SettledCopies(e, g, hash) \cup {k} \subseteq SettledCopies(e, g1, hash)
  PROVE  Forks(e, g1, hash, hash)
<1> DEFINE n == Cardinality(Logger)
           few == Cardinality(SettledCopies(e, g, hash))
           many == Cardinality(SettledCopies(e, g1, hash))
<1>1. n \in Nat /\ few \in Nat /\ many \in Nat BY ForkSets, AuditFacts
<1>2. Cardinality(SettledCopies(e, g, hash) \cup {k}) = few + 1 BY ForkSets, FS_AddElement
<1>3. few + 1 <= many
  <2>1. Cardinality(SettledCopies(e, g, hash) \cup {k}) <= Cardinality(SettledCopies(e, g1, hash)) BY ForkSets, FS_Subset
  <2> QED BY <1>2, <2>1
<1>4. PICK low : low = n * few OBVIOUS
<1>5. PICK high : high = n * many OBVIOUS
<1>6. low \in Nat /\ high \in Nat /\ low + n <= high
  <2> HIDE DEF n, few, many
  <2>1. few + 1 \in Nat BY <1>1
  <2>2. n * (few + 1) = low + n /\ low \in Nat BY <1>1, <1>4, Products
  <2>3. n * (few + 1) <= high /\ high \in Nat BY <1>1, <1>3, <1>5, <2>1, Products
  <2> QED BY <2>2, <2>3
<1>7. Cardinality(SettledNaming(e, g1, hash)) <= Cardinality(Naming(e, hash))
  <2>1. SettledNaming(e, g1, hash) \in SUBSET Naming(e, hash) BY DEF SettledNaming
  <2> QED BY <2>1, ForkSets, FS_Subset
<1>8. /\ Cardinality(SettledNaming(e, g1, hash)) \in Nat /\ Cardinality(Naming(e, hash)) \in Nat
      /\ Cardinality(Inserting(g, hash)) \in Nat /\ Cardinality(Inserting(g1, hash)) \in Nat
  BY ForkSets
<1>9. Cardinality(Naming(e, hash)) + Cardinality(Inserting(g, hash)) <= low BY <1>4 DEF Forks
<1>10. Cardinality(Naming(e, hash)) + Cardinality(Inserting(g1, hash)) <= Cardinality(SettledNaming(e, g1, hash)) + n
  BY Crowd
<1> HIDE DEF n, few, many
<1>11. Cardinality(SettledNaming(e, g1, hash)) + n <= high BY <1>1, <1>6, <1>7, <1>8, <1>9
<1>12. Cardinality(Naming(e, hash)) + Cardinality(Inserting(g1, hash)) <= high BY <1>1, <1>6, <1>8, <1>10, <1>11
<1> QED BY <1>5, <1>11, <1>12 DEF n, many, Forks

LEMMA AuditInitHolds == AuditInit => AuditInv
<1> SUFFICES ASSUME AuditInit PROVE AuditInv OBVIOUS
<1>1. /\ clock = 0 /\ purged = 0 /\ outages = 0 /\ entries = <<>> /\ Len(entries) = 0
      /\ head = [hash |-> <<>>, age |-> 0]
      /\ logger = [l \in Logger |-> [pc |-> "away", prev |-> <<>>, at |-> 0, entry |-> 0]]
  BY DEF AuditInit, NoHead, NotLogging, Genesis
<1>2. 1..0 = {} /\ 0 \in 0..LastClock /\ 0 \in 0..MaxOutages /\ 0 \in 0..HeadTtl /\ 0 <= MaxEntries BY AuditFacts
<1>3. Genesis \in Hash /\ Genesis = <<>> BY DEF Hash, Genesis
<1>4. AuditTypeOK BY <1>1, <1>2, <1>3 DEF AuditTypeOK
<1>5. Len(entries) + Cardinality(Busy) <= MaxEntries
  <2>1. Busy = {} BY <1>1 DEF Busy
  <2> QED BY <1>1, <1>2, <2>1, FS_EmptySet
<1>6. AuditShape
  <2>1. <<>> \in Seq(Nat) /\ <<>> \in Seq(AuditEntry) OBVIOUS
  <2>2. logger \in [Logger -> LoggerState] BY <1>1, <2>1 DEF LoggerState
  <2> QED BY <1>1, <1>2, <2>1, <2>2 DEF AuditShape
<1>7. Backed(entries, head.hash, clock, LogDelay + head.age) BY <1>1, <1>3 DEF Backed
<1>8. \A l \in Logger : LoggerOK(entries, logger, l) BY <1>1 DEF LoggerOK
<1>9. \A l, m \in Logger : l # m /\ logger[l].pc = "set" /\ logger[m].pc = "set" => logger[l].entry # logger[m].entry
  BY <1>1
<1>10. \A i \in 1..Len(entries) : ChainedIn(entries, i) BY <1>1, <1>2
<1>11. ASSUME NEW hash, hash # Genesis PROVE Forks(entries, logger, head.hash, hash)
  <2>1. Naming(entries, hash) = {} /\ Inserting(logger, hash) = {} BY <1>1, <1>2 DEF Naming, Inserting
  <2>2. Cardinality(Naming(entries, hash)) = 0 /\ Cardinality(Inserting(logger, hash)) = 0 BY <2>1, FS_EmptySet
  <2>3. Cardinality(SettledCopies(entries, logger, hash)) \in Nat BY <1>1, ForkSets
  <2>4. Cardinality(Logger) * Cardinality(SettledCopies(entries, logger, hash)) \in Nat BY <2>3, AuditFacts, Products
  <2>5. head.hash # hash BY <1>1, <1>3, <1>11
  <2>6. Cardinality(Naming(entries, hash)) + Cardinality(Inserting(logger, hash))
          <= Cardinality(Logger) * Cardinality(SettledCopies(entries, logger, hash))
    <3>1. PICK low : low = Cardinality(Logger) * Cardinality(SettledCopies(entries, logger, hash)) OBVIOUS
    <3> QED BY <2>2, <2>4, <3>1
  <2> QED BY <2>5, <2>6 DEF Forks
<1> QED BY <1>4, <1>5, <1>6, <1>7, <1>8, <1>9, <1>10, <1>11 DEF AuditInv

LEMMA AuditParts ==
  ASSUME AuditInv
  PROVE  /\ entries \in Seq(AuditEntry) /\ Len(entries) \in Nat /\ Len(entries) <= MaxEntries
         /\ clock \in Nat /\ clock <= LastClock /\ purged \in Nat /\ purged <= Len(entries)
         /\ outages \in Nat /\ outages <= MaxOutages
         /\ \A i \in 1..Len(entries) : /\ entries[i] \in AuditEntry
                                       /\ entries[i].at <= clock /\ entries[i].missing <= purged
                                       /\ entries[i].hash # Genesis /\ entries[i].hash # entries[i].prev
         /\ head \in [hash : Seq(Nat), age : Nat] /\ head.hash \in Hash /\ head.age <= HeadTtl
         /\ logger \in [Logger -> LoggerState]
         /\ \A l \in Logger : /\ logger[l] \in LoggerState /\ logger[l].prev \in Hash
                              /\ logger[l].at <= clock /\ logger[l].entry <= Len(entries)
<1>1. AuditTypeOK /\ AuditShape BY DEF AuditInv
<1>2. entries \in Seq(AuditEntry) /\ Len(entries) \in Nat /\ \A i \in 1..Len(entries) : entries[i] \in AuditEntry
  BY <1>1 DEF AuditShape
<1>3. clock \in Nat /\ clock <= LastClock /\ outages \in Nat /\ outages <= MaxOutages BY <1>1, AuditFacts DEF AuditTypeOK
<1>4. purged \in Nat /\ purged <= Len(entries) /\ Len(entries) <= MaxEntries BY <1>1, <1>2 DEF AuditTypeOK
<1>5. \A i \in 1..Len(entries) : entries[i].at <= clock /\ entries[i].missing <= purged
  BY <1>1, <1>2, <1>3, <1>4 DEF AuditTypeOK
<1>6. head.hash \in Hash /\ head.age <= HeadTtl BY <1>1, AuditFacts DEF AuditTypeOK
<1>7. \A l \in Logger : logger[l].prev \in Hash /\ logger[l].at <= clock /\ logger[l].entry <= Len(entries)
  BY <1>1, <1>2, <1>3 DEF AuditTypeOK
<1> QED BY <1>1, <1>2, <1>3, <1>4, <1>5, <1>6, <1>7 DEF AuditShape

(* What may be named stays so when entries are added or change otherwise,  *)
(* and when more age is allowed than time has passed.                      *)
LEMMA BackedStays ==
  ASSUME NEW e, NEW e1, NEW hash, NEW t \in Nat, NEW t1 \in Nat, NEW old \in Nat, NEW old1 \in Nat,
         Len(e) \in Nat, Len(e1) \in Nat, Len(e) <= Len(e1),
         \A j \in 1..Len(e) : e[j].at \in Nat /\ e1[j].at = e[j].at /\ e1[j].hash = e[j].hash,
         Backed(e, hash, t, old), t1 + old <= t + old1
  PROVE  Backed(e1, hash, t1, old1)
<1>1. CASE hash = Genesis BY <1>1 DEF Backed
<1>2. CASE hash # Genesis
  <2>1. PICK j \in 1..Len(e) : e[j].hash = hash /\ t <= e[j].at + old BY <1>2 DEF Backed
  <2>2. j \in 1..Len(e1) OBVIOUS
  <2>3. e1[j].hash = hash BY <2>1
  <2>4. PICK at \in Nat : at = e[j].at OBVIOUS
  <2>5. t1 <= at + old1 BY <2>1, <2>4
  <2> QED BY <2>2, <2>3, <2>4, <2>5 DEF Backed
<1> QED BY <1>1, <1>2

LEMMA ReadHeadHolds ==
  ASSUME AuditInv, NEW l \in Logger, ReadHead(l)
  PROVE  AuditInv'
<1>1. PICK prev \in {head.hash, Genesis} :
        /\ outages' = IF prev = head.hash THEN outages ELSE outages + 1
        /\ logger' = [logger EXCEPT ![l] = [pc |-> "insert", prev |-> prev, at |-> clock, entry |-> 0]]
  BY DEF ReadHead
<1>2. /\ logger[l].pc = "away" /\ Len(entries) + Cardinality(Busy) < MaxEntries /\ outages' <= MaxOutages
      /\ clock' = clock /\ entries' = entries /\ purged' = purged /\ head' = head
  BY DEF ReadHead
<1>3. PICK r : r = [pc |-> "insert", prev |-> prev, at |-> clock, entry |-> 0] OBVIOUS
<1>4. r.pc = "insert" /\ r.prev = prev /\ r.at = clock /\ r.entry = 0 /\ r \in LoggerState /\ prev \in Hash
  <2>1. head.hash \in Seq(Nat) /\ <<>> \in Seq(Nat) /\ clock \in Nat /\ head.hash \in Hash BY AuditParts
  <2>2. prev \in Seq(Nat) /\ prev \in Hash BY <2>1 DEF Genesis, Hash
  <2> QED BY <1>3, <2>1, <2>2 DEF LoggerState
<1>5. logger' \in [Logger -> LoggerState] /\ logger'[l] = r /\ \A m \in Logger : m # l => logger'[m] = logger[m]
  BY <1>1, <1>3, <1>4, AuditParts
<1>6. Hash' = Hash BY <1>2 DEF Hash
<1>7. AuditTypeOK'
  <2>1. outages' \in 0..MaxOutages BY <1>1, <1>2, AuditParts, AuditFacts
  <2>2. ASSUME NEW m \in Logger
        PROVE  /\ logger'[m].pc \in {"away", "insert", "set"} /\ logger'[m].prev \in Hash
               /\ logger'[m].at \in 0..clock /\ logger'[m].entry \in 0..Len(entries)
    <3>1. CASE m = l BY <1>4, <1>5, <3>1, AuditParts
    <3>2. CASE m # l BY <1>5, <3>2 DEF AuditInv, AuditTypeOK
    <3> QED BY <3>1, <3>2
  <2> QED BY <1>2, <1>6, <2>1, <2>2 DEF AuditInv, AuditTypeOK
<1>8. (Len(entries) + Cardinality(Busy) <= MaxEntries)'
  <2>1. Busy' = Busy \cup {l} /\ l \notin Busy BY <1>2, <1>4, <1>5 DEF Busy
  <2>2. IsFiniteSet(Busy) /\ Cardinality(Busy) \in Nat BY LoggerSets DEF Busy
  <2>3. Cardinality(Busy \cup {l}) = Cardinality(Busy) + 1 BY <2>1, <2>2, FS_AddElement
  <2>4. Len(entries) + Cardinality(Busy') <= MaxEntries BY <1>2, <2>1, <2>2, <2>3, AuditParts, AuditFacts
  <2> QED BY <1>2, <2>4
<1>9. AuditShape' BY <1>2, <1>5 DEF AuditInv, AuditShape
<1>10. Backed(entries, head.hash, clock, LogDelay + head.age)' BY <1>2 DEF AuditInv, Backed
<1>11. ASSUME NEW m \in Logger PROVE LoggerOK(entries, logger, m)'
  <2>1. CASE m = l
    <3>1. clock <= clock + LogDelay BY AuditParts, AuditFacts
    <3>2. Backed(entries, prev, clock, LogDelay + HeadTtl)
      <4>1. CASE prev = Genesis BY <4>1 DEF Backed
      <4>2. CASE prev = head.hash
        <5>1. Backed(entries, prev, clock, LogDelay + head.age) BY <4>2 DEF AuditInv
        <5>2. clock \in Nat /\ LogDelay + head.age \in Nat /\ LogDelay + HeadTtl \in Nat
              /\ LogDelay + head.age <= LogDelay + HeadTtl
          BY AuditParts, AuditFacts
        <5>3. clock + (LogDelay + head.age) <= clock + (LogDelay + HeadTtl) BY <5>2
        <5>4. Len(entries) \in Nat /\ \A i \in 1..Len(entries) : entries[i].at \in Nat BY AuditParts DEF AuditEntry
        <5> QED BY <5>1, <5>2, <5>3, <5>4, BackedStays
      <4> QED BY <4>1, <4>2
    <3> QED BY <1>2, <1>4, <1>5, <2>1, <3>1, <3>2 DEF LoggerOK
  <2>2. CASE m # l BY <1>2, <1>5, <2>2 DEF AuditInv, LoggerOK
  <2> QED BY <2>1, <2>2
<1>12. (\A a, m \in Logger : a # m /\ logger[a].pc = "set" /\ logger[m].pc = "set" => logger[a].entry # logger[m].entry)'
  BY <1>4, <1>5 DEF AuditInv
<1>13. (\A i \in 1..Len(entries) : ChainedIn(entries, i))' BY <1>2 DEF AuditInv
<1>14. ASSUME NEW hash, hash # Genesis PROVE Forks(entries, logger', head.hash, hash)
  <2>1. Forks(entries, logger, head.hash, hash) /\ Len(entries) \in Nat BY <1>14, AuditParts DEF AuditInv
  <2>2. \A i : Settled(logger', i) <=> Settled(logger, i) BY <1>2, <1>4, <1>5 DEF Settled
  <2>3. SettledNaming(entries, logger', hash) = SettledNaming(entries, logger, hash)
        /\ SettledCopies(entries, logger', hash) = SettledCopies(entries, logger, hash)
    BY <2>2 DEF SettledNaming, SettledCopies
  <2>4. CASE hash = prev
    <3>1. head.hash = hash BY <1>14, <2>4
    <3> QED BY <2>1, <2>3, <3>1, ForksRead
  <2>5. CASE hash # prev
    <3>1. Inserting(logger', hash) = Inserting(logger, hash) BY <1>2, <1>4, <1>5, <2>5 DEF Inserting
    <3>2. Cardinality(Naming(entries, hash)) + Cardinality(Inserting(logger', hash))
            <= Cardinality(Naming(entries, hash)) + Cardinality(Inserting(logger, hash))
      BY <2>1, <3>1, ForkSets
    <3> QED BY <2>1, <2>3, <3>2, ForksKept
  <2> QED BY <2>4, <2>5
<1>15. (\A hash : hash # Genesis => Forks(entries, logger, head.hash, hash))' BY <1>2, <1>14
<1> QED BY <1>7, <1>8, <1>9, <1>10, <1>11, <1>12, <1>13, <1>15 DEF AuditInv

(* A call of logAudit that has ended. *)
LEMMA Leaves ==
  ASSUME AuditInv, NEW l \in Logger, logger' = [logger EXCEPT ![l] = NotLogging]
  PROVE  /\ NotLogging.pc = "away" /\ NotLogging.prev = Genesis /\ NotLogging.at = 0 /\ NotLogging.entry = 0
         /\ logger' \in [Logger -> LoggerState] /\ logger'[l] = NotLogging
         /\ \A m \in Logger : m # l => logger'[m] = logger[m]
         /\ Hash \subseteq Hash' /\ Len(entries') = Len(entries) /\ clock' = clock =>
              \A m \in Logger : /\ logger'[m].pc \in {"away", "insert", "set"} /\ logger'[m].prev \in Hash'
                                 /\ logger'[m].at \in 0..clock' /\ logger'[m].entry \in 0..Len(entries')
         /\ IsFiniteSet(Busy') /\ Cardinality(Busy') \in Nat /\ Cardinality(Busy') <= Cardinality(Busy)
<1>1. /\ NotLogging.pc = "away" /\ NotLogging.prev = Genesis /\ NotLogging.at = 0 /\ NotLogging.entry = 0
      /\ NotLogging \in LoggerState
  <2>1. <<>> \in Seq(Nat) OBVIOUS
  <2> QED BY <2>1 DEF NotLogging, Genesis, LoggerState
<1>2. /\ logger' \in [Logger -> LoggerState] /\ logger'[l] = NotLogging
      /\ \A m \in Logger : m # l => logger'[m] = logger[m]
  BY <1>1, AuditParts
<1>3. ASSUME Hash \subseteq Hash', Len(entries') = Len(entries), clock' = clock, NEW m \in Logger
      PROVE  /\ logger'[m].pc \in {"away", "insert", "set"} /\ logger'[m].prev \in Hash'
             /\ logger'[m].at \in 0..clock' /\ logger'[m].entry \in 0..Len(entries')
  <2>1. Genesis \in Hash' BY DEF Hash
  <2>2. CASE m = l BY <1>1, <1>2, <1>3, <2>1, <2>2, AuditParts
  <2>3. CASE m # l BY <1>2, <1>3, <2>3 DEF AuditInv, AuditTypeOK
  <2> QED BY <2>2, <2>3
<1>4. IsFiniteSet(Busy') /\ Cardinality(Busy') \in Nat /\ Cardinality(Busy') <= Cardinality(Busy)
  <2>1. Busy' \in SUBSET Busy BY <1>1, <1>2 DEF Busy
  <2>2. IsFiniteSet(Busy) /\ Cardinality(Busy) \in Nat BY LoggerSets DEF Busy
  <2> QED BY <2>1, <2>2, FS_Subset, FS_CardinalityType
<1> QED BY <1>1, <1>2, <1>3, <1>4

LEMMA InsertFailsHolds ==
  ASSUME AuditInv, NEW l \in Logger, InsertFails(l)
  PROVE  AuditInv'
<1>1. /\ logger[l].pc = "insert" /\ logger' = [logger EXCEPT ![l] = NotLogging]
      /\ clock' = clock /\ entries' = entries /\ purged' = purged /\ outages' = outages /\ head' = head
  BY DEF InsertFails
<1>2. NotLogging.pc = "away" /\ NotLogging.prev = Genesis /\ NotLogging.at = 0 /\ NotLogging.entry = 0
  BY <1>1, Leaves
<1>3. /\ logger' \in [Logger -> LoggerState] /\ logger'[l] = NotLogging
      /\ \A m \in Logger : m # l => logger'[m] = logger[m]
  BY <1>1, Leaves
<1>4. Hash' = Hash BY <1>1 DEF Hash
<1>5. AuditTypeOK'
  <2>1. \A m \in Logger : /\ logger'[m].pc \in {"away", "insert", "set"} /\ logger'[m].prev \in Hash'
                          /\ logger'[m].at \in 0..clock' /\ logger'[m].entry \in 0..Len(entries')
    BY <1>1, <1>4, Leaves
  <2> QED BY <1>1, <1>4, <2>1 DEF AuditInv, AuditTypeOK
<1>6. (Len(entries) + Cardinality(Busy) <= MaxEntries)'
  <2>1. Cardinality(Busy') <= Cardinality(Busy) /\ Cardinality(Busy') \in Nat BY <1>1, Leaves
  <2>2. Len(entries) + Cardinality(Busy) <= MaxEntries BY DEF AuditInv
  <2>3. Cardinality(Busy) \in Nat BY LoggerSets DEF Busy
  <2>4. Len(entries) + Cardinality(Busy') <= MaxEntries BY <2>1, <2>2, <2>3, AuditParts, AuditFacts
  <2> QED BY <1>1, <2>4
<1>7. AuditShape' BY <1>1, <1>3 DEF AuditInv, AuditShape
<1>8. Backed(entries, head.hash, clock, LogDelay + head.age)' BY <1>1 DEF AuditInv, Backed
<1>9. ASSUME NEW m \in Logger PROVE LoggerOK(entries, logger, m)'
  <2>1. CASE m = l BY <1>2, <1>3, <2>1 DEF LoggerOK
  <2>2. CASE m # l BY <1>1, <1>3, <2>2 DEF AuditInv, LoggerOK
  <2> QED BY <2>1, <2>2
<1>10. (\A a, m \in Logger : a # m /\ logger[a].pc = "set" /\ logger[m].pc = "set" => logger[a].entry # logger[m].entry)'
  BY <1>2, <1>3 DEF AuditInv
<1>11. (\A i \in 1..Len(entries) : ChainedIn(entries, i))' BY <1>1 DEF AuditInv
<1>12. ASSUME NEW hash, hash # Genesis PROVE Forks(entries, logger', head.hash, hash)
  <2>1. Forks(entries, logger, head.hash, hash) /\ Len(entries) \in Nat BY <1>12, AuditParts DEF AuditInv
  <2>2. \A i : Settled(logger', i) <=> Settled(logger, i) BY <1>1, <1>2, <1>3 DEF Settled
  <2>3. SettledNaming(entries, logger', hash) = SettledNaming(entries, logger, hash)
        /\ SettledCopies(entries, logger', hash) = SettledCopies(entries, logger, hash)
    BY <2>2 DEF SettledNaming, SettledCopies
  <2>4. Inserting(logger', hash) \in SUBSET Inserting(logger, hash) BY <1>2, <1>3 DEF Inserting
  <2>5. Cardinality(Inserting(logger', hash)) <= Cardinality(Inserting(logger, hash)) BY <2>1, <2>4, ForkSets, FS_Subset
  <2>6. Cardinality(Naming(entries, hash)) + Cardinality(Inserting(logger', hash))
          <= Cardinality(Naming(entries, hash)) + Cardinality(Inserting(logger, hash))
    BY <2>1, <2>5, ForkSets
  <2> QED BY <2>1, <2>3, <2>6, ForksKept
<1>13. (\A hash : hash # Genesis => Forks(entries, logger, head.hash, hash))' BY <1>1, <1>12
<1> QED BY <1>5, <1>6, <1>7, <1>8, <1>9, <1>10, <1>11, <1>13 DEF AuditInv

LEMMA InsertEntryHolds ==
  ASSUME AuditInv, NEW l \in Logger, InsertEntry(l)
  PROVE  AuditInv'
<1> DEFINE prev == logger[l].prev
           last == Len(entries) + 1
<1>1. PICK new : new = [hash |-> EntryHash(l), prev |-> prev, at |-> clock, missing |-> purged, unset |-> FALSE]
  OBVIOUS
<1>2. /\ logger[l].pc = "insert" /\ entries' = Append(entries, new)
      /\ logger' = [logger EXCEPT ![l].pc = "set", ![l].entry = Len(entries) + 1]
      /\ clock' = clock /\ purged' = purged /\ outages' = outages /\ head' = head
  BY <1>1 DEF InsertEntry
<1>3. /\ logger[l] \in LoggerState /\ prev \in Seq(Nat) /\ logger[l].at \in Nat /\ prev \in Hash
      /\ Len(entries) \in Nat /\ clock \in Nat /\ purged \in Nat /\ last \in Nat
  BY AuditParts DEF LoggerState
<1>4. /\ new.hash = Append(prev, logger[l].at) /\ new.prev = prev /\ new.at = clock /\ new.missing = purged
      /\ new.unset = FALSE /\ new \in AuditEntry /\ new.hash # Genesis /\ new.hash # prev
  <2>1. Append(prev, logger[l].at) \in Seq(Nat) /\ Len(Append(prev, logger[l].at)) = Len(prev) + 1 BY <1>3
  <2>2. Append(prev, logger[l].at) # prev BY <1>3, <2>1
  <2>3. Append(prev, logger[l].at) # <<>> BY <1>3, <2>1, SMTT(30)
  <2> QED BY <1>1, <1>3, <2>1, <2>2, <2>3 DEF EntryHash, AuditEntry, Genesis
<1>5. /\ entries' \in Seq(AuditEntry) /\ Len(entries') = last /\ entries'[last] = new
      /\ \A i \in 1..Len(entries) : entries'[i] = entries[i]
  BY <1>2, <1>4, AuditParts
<1>6. \A i \in 1..Len(entries') : i \in 1..Len(entries) \/ i = last BY <1>3, <1>5
<1>7. PICK r : r = logger'[l] OBVIOUS
<1>8. r = [logger[l] EXCEPT !.pc = "set", !.entry = last] BY <1>2, <1>7, AuditParts
<1>9. r.pc = "set" /\ r.entry = last /\ r.prev = prev /\ r.at = logger[l].at /\ r \in LoggerState
  BY <1>3, <1>8 DEF LoggerState
<1>10. logger' \in [Logger -> LoggerState] /\ logger'[l] = r /\ \A m \in Logger : m # l => logger'[m] = logger[m]
  BY <1>2, <1>7, <1>9, AuditParts
<1>11. Hash \subseteq Hash'
  <2>1. \A i \in 1..Len(entries) : i \in 1..Len(entries') /\ entries'[i].hash = entries[i].hash BY <1>3, <1>5
  <2> QED BY <2>1 DEF Hash
<1>12. Len(entries') + Cardinality(Busy') <= MaxEntries /\ Cardinality(Busy') \in Nat
  <2>1. Busy' = Busy \ {l} /\ l \in Busy BY <1>2, <1>9, <1>10 DEF Busy
  <2>2. IsFiniteSet(Busy) /\ Cardinality(Busy) \in Nat BY LoggerSets DEF Busy
  <2>3. IsFiniteSet(Busy \ {l}) /\ Cardinality(Busy \ {l}) = Cardinality(Busy) - 1 BY <2>1, <2>2, FS_RemoveElement
  <2>4. Cardinality(Busy \ {l}) \in Nat BY <2>3, FS_CardinalityType
  <2>5. Len(entries) + Cardinality(Busy) <= MaxEntries BY DEF AuditInv
  <2> QED BY <1>3, <1>5, <2>1, <2>2, <2>3, <2>4, <2>5, AuditFacts
<1>13. Len(entries') <= MaxEntries BY <1>3, <1>5, <1>12, AuditFacts
<1>14. AuditTypeOK'
  <2>1. purged \in 0..Len(entries') BY <1>3, <1>5, AuditParts
  <2>2. ASSUME NEW i \in 1..Len(entries') PROVE entries'[i].at \in 0..clock /\ entries'[i].missing \in 0..purged
    <3>1. CASE i \in 1..Len(entries) BY <1>5, <3>1 DEF AuditInv, AuditTypeOK
    <3>2. CASE i = last BY <1>3, <1>4, <1>5, <3>2
    <3> QED BY <1>6, <3>1, <3>2
  <2>3. head.hash \in Hash' /\ head.age \in 0..HeadTtl BY <1>11 DEF AuditInv, AuditTypeOK
  <2>4. ASSUME NEW m \in Logger
        PROVE  /\ logger'[m].pc \in {"away", "insert", "set"} /\ logger'[m].prev \in Hash'
               /\ logger'[m].at \in 0..clock /\ logger'[m].entry \in 0..Len(entries')
    <3>1. CASE m = l
      <4>1. logger[l].at \in 0..clock BY DEF AuditInv, AuditTypeOK
      <4>2. last \in 0..Len(entries') BY <1>3, <1>5
      <4> QED BY <1>3, <1>9, <1>10, <1>11, <3>1, <4>1, <4>2
    <3>2. CASE m # l
      <4>1. logger[m].entry \in 0..Len(entries) BY DEF AuditInv, AuditTypeOK
      <4>2. logger[m].entry \in 0..Len(entries') BY <1>3, <1>5, <4>1
      <4> QED BY <1>10, <1>11, <3>2, <4>2 DEF AuditInv, AuditTypeOK
    <3> QED BY <3>1, <3>2
  <2> QED BY <1>2, <1>13, <2>1, <2>2, <2>3, <2>4 DEF AuditInv, AuditTypeOK
<1>15. AuditShape'
  <2>1. ASSUME NEW i \in 1..Len(entries') PROVE entries'[i].hash # Genesis /\ entries'[i].hash # entries'[i].prev
    <3>1. CASE i \in 1..Len(entries) BY <1>5, <3>1, AuditParts
    <3>2. CASE i = last BY <1>4, <1>5, <3>2
    <3> QED BY <1>6, <3>1, <3>2
  <2>2. ASSUME NEW i \in 1..Len(entries'), NEW j \in 1..Len(entries'), i <= j
        PROVE  entries'[i].at <= entries'[j].at
    <3>1. CASE j \in 1..Len(entries)
      <4>1. i \in 1..Len(entries) BY <1>3, <1>5, <2>2, <3>1
      <4> QED BY <1>5, <2>2, <3>1, <4>1 DEF AuditInv, AuditShape
    <3>2. CASE j = last
      <4>1. CASE i \in 1..Len(entries) BY <1>4, <1>5, <3>2, <4>1, AuditParts
      <4>2. CASE i = last BY <1>3, <1>4, <1>5, <3>2, <4>2
      <4> QED BY <1>6, <4>1, <4>2
    <3> QED BY <1>6, <3>1, <3>2
  <2>3. ASSUME NEW i \in 1..purged PROVE entries'[i].at + Retention < clock
    <3>1. i \in 1..Len(entries) BY <1>3, AuditParts
    <3> QED BY <1>5, <3>1 DEF AuditInv, AuditShape
  <2>4. head \in [hash : Seq(Nat), age : Nat] BY AuditParts
  <2> QED BY <1>2, <1>5, <1>10, <2>1, <2>2, <2>3, <2>4 DEF AuditShape
<1>16. /\ Len(entries) \in Nat /\ Len(entries') \in Nat /\ Len(entries) <= Len(entries')
       /\ \A j \in 1..Len(entries) :
            entries[j].at \in Nat /\ entries'[j].at = entries[j].at /\ entries'[j].hash = entries[j].hash
  <2>1. \A j \in 1..Len(entries) : entries[j].at \in Nat BY AuditParts DEF AuditEntry
  <2>2. Len(entries) <= Len(entries') /\ Len(entries') \in Nat BY <1>3, <1>5
  <2> QED BY <1>3, <1>5, <2>1, <2>2
<1>17. Backed(entries', head.hash, clock, LogDelay + head.age)
  <2>1. Backed(entries, head.hash, clock, LogDelay + head.age) BY DEF AuditInv
  <2>2. LogDelay + head.age \in Nat BY AuditParts, AuditFacts
  <2>3. clock + (LogDelay + head.age) <= clock + (LogDelay + head.age) BY <1>3, <2>2
  <2> QED BY <1>3, <1>16, <2>1, <2>2, <2>3, BackedStays
<1>18. ASSUME NEW m \in Logger PROVE LoggerOK(entries, logger, m)'
  <2>1. CASE m = l
    <3>1. clock <= logger[l].at + LogDelay BY <1>2 DEF AuditInv, LoggerOK
    <3>2. last \in 1..Len(entries') BY <1>3, <1>5
    <3>3. logger[l].at <= entries'[last].at BY <1>4, <1>5, AuditParts
    <3> QED BY <1>2, <1>9, <1>10, <2>1, <3>1, <3>2, <3>3 DEF LoggerOK
  <2>2. CASE m # l
    <3>1. LoggerOK(entries, logger, m) /\ logger'[m] = logger[m] BY <1>10, <2>2 DEF AuditInv
    <3>2. ASSUME logger[m].pc = "insert" PROVE Backed(entries', logger[m].prev, logger[m].at, LogDelay + HeadTtl)
      <4>1. Backed(entries, logger[m].prev, logger[m].at, LogDelay + HeadTtl) BY <3>1, <3>2 DEF LoggerOK
      <4>2. LogDelay + HeadTtl \in Nat /\ logger[m].at \in Nat BY AuditParts, AuditFacts DEF LoggerState
      <4>3. logger[m].at + (LogDelay + HeadTtl) <= logger[m].at + (LogDelay + HeadTtl) BY <4>2
      <4> QED BY <1>16, <4>1, <4>2, <4>3, BackedStays
    <3>3. ASSUME logger[m].pc = "set"
          PROVE  logger[m].entry \in 1..Len(entries') /\ logger[m].at <= entries'[logger[m].entry].at
      <4>1. logger[m].entry \in 1..Len(entries) /\ logger[m].at <= entries[logger[m].entry].at
        BY <3>1, <3>3 DEF LoggerOK
      <4>2. logger[m].entry \in 1..Len(entries') BY <1>3, <1>5, <4>1
      <4> QED BY <1>5, <4>1, <4>2
    <3> QED BY <1>2, <3>1, <3>2, <3>3 DEF LoggerOK
  <2> QED BY <2>1, <2>2
<1>19. ASSUME NEW m \in Logger, m # l, logger[m].pc = "set" PROVE logger[m].entry # last
  <2>1. logger[m].entry \in 1..Len(entries) BY <1>19 DEF AuditInv, LoggerOK
  <2> QED BY <1>3, <2>1
<1>20. (\A a, m \in Logger : a # m /\ logger[a].pc = "set" /\ logger[m].pc = "set" => logger[a].entry # logger[m].entry)'
  <2>1. ASSUME NEW a \in Logger, NEW m \in Logger, a # m, logger'[a].pc = "set", logger'[m].pc = "set"
        PROVE  logger'[a].entry # logger'[m].entry
    <3>1. CASE a = l BY <1>9, <1>10, <1>19, <2>1, <3>1
    <3>2. CASE m = l BY <1>9, <1>10, <1>19, <2>1, <3>2
    <3>3. CASE a # l /\ m # l BY <1>10, <2>1, <3>3 DEF AuditInv
    <3> QED BY <3>1, <3>2, <3>3
  <2> QED BY <2>1
<1>21. ASSUME NEW i \in 1..Len(entries') PROVE ChainedIn(entries', i)
  <2>1. CASE i \in 1..Len(entries)
    <3>1. ChainedIn(entries, i) BY <2>1 DEF AuditInv
    <3>2. CASE entries[i].prev = Genesis BY <1>5, <2>1, <3>2 DEF ChainedIn
    <3>3. CASE entries[i].prev # Genesis
      <4>1. PICK j \in (entries[i].missing + 1)..(i - 1) : entries[j].hash = entries[i].prev BY <3>1, <3>3 DEF ChainedIn
      <4>2. entries[i].missing \in Nat BY <2>1, AuditParts DEF AuditEntry
      <4>3. j \in 1..Len(entries) BY <1>3, <2>1, <4>2
      <4> QED BY <1>5, <2>1, <4>1, <4>3 DEF ChainedIn
    <3> QED BY <3>2, <3>3
  <2>2. CASE i = last
    <3>1. CASE prev = Genesis BY <1>4, <1>5, <2>2, <3>1 DEF ChainedIn
    <3>2. CASE prev # Genesis
      <4>1. Backed(entries, prev, logger[l].at, LogDelay + HeadTtl) /\ clock <= logger[l].at + LogDelay
        BY <1>2 DEF AuditInv, LoggerOK
      <4>2. PICK j \in 1..Len(entries) : entries[j].hash = prev /\ logger[l].at <= entries[j].at + (LogDelay + HeadTtl)
        BY <3>2, <4>1 DEF Backed
      <4>3. entries[j].at \in Nat BY AuditParts DEF AuditEntry
      <4>4. clock <= entries[j].at + Retention
        <5>1. PICK there \in Nat : there = entries[j].at BY <4>3
        <5>2. PICK then \in Nat : then = logger[l].at BY <1>3
        <5>3. clock <= then + LogDelay /\ then <= there + (LogDelay + HeadTtl) BY <4>1, <4>2, <5>1, <5>2
        <5>4. clock <= there + Retention BY <1>3, <5>3, AuditFacts, SMTT(30)
        <5> QED BY <5>1, <5>4
      <4>5. j \notin 1..purged
        <5>1. \A x \in 1..purged : entries[x].at + Retention < clock BY DEF AuditInv, AuditShape
        <5> QED BY <1>3, <4>3, <4>4, <5>1, AuditFacts
      <4>6. j \in (purged + 1)..(last - 1) BY <1>3, <4>5
      <4>7. entries'[j].hash = prev BY <1>5, <4>2
      <4> QED BY <1>4, <1>5, <2>2, <4>6, <4>7 DEF ChainedIn
    <3> QED BY <3>1, <3>2
  <2> QED BY <1>6, <2>1, <2>2
<1>22. ASSUME NEW hash, hash # Genesis PROVE Forks(entries', logger', head.hash, hash)
  <2>1. Forks(entries, logger, head.hash, hash) BY <1>22 DEF AuditInv
  <2>2. ASSUME NEW i \in 1..Len(entries) PROVE Settled(logger', i) <=> Settled(logger, i)
    <3>1. i # last BY <1>3
    <3> QED BY <1>2, <1>9, <1>10, <3>1 DEF Settled
  <2>3. ~Settled(logger', last) BY <1>9, <1>10 DEF Settled
  <2>4. SettledNaming(entries', logger', hash) \subseteq SettledNaming(entries, logger, hash)
    BY <1>5, <1>6, <2>2, <2>3 DEF SettledNaming, Naming
  <2>5. SettledCopies(entries, logger, hash) \subseteq SettledCopies(entries', logger', hash)
    <3>1. \A i \in 1..Len(entries) : i \in 1..Len(entries') BY <1>3, <1>5
    <3> QED BY <1>5, <2>2, <3>1 DEF SettledCopies
  <2>6. Cardinality(Naming(entries', hash)) + Cardinality(Inserting(logger', hash))
          <= Cardinality(Naming(entries, hash)) + Cardinality(Inserting(logger, hash))
    <3>1. last \in 1..Len(entries') /\ last \notin 1..Len(entries) BY <1>3, <1>5
    <3>2. \A i \in 1..Len(entries) : i \in 1..Len(entries') BY <1>3, <1>5
    <3>3. /\ IsFiniteSet(Naming(entries, hash)) /\ Cardinality(Naming(entries, hash)) \in Nat
          /\ IsFiniteSet(Inserting(logger, hash)) /\ Cardinality(Inserting(logger, hash)) \in Nat
      BY <1>16, ForkSets
    <3>4. CASE hash = prev
      <4>1. Naming(entries', hash) = Naming(entries, hash) \cup {last} /\ last \notin Naming(entries, hash)
        BY <1>4, <1>5, <1>6, <3>1, <3>2, <3>4 DEF Naming
      <4>2. Inserting(logger', hash) = Inserting(logger, hash) \ {l} /\ l \in Inserting(logger, hash)
        BY <1>2, <1>9, <1>10, <3>4 DEF Inserting
      <4>3. Cardinality(Naming(entries', hash)) = Cardinality(Naming(entries, hash)) + 1
        BY <3>3, <4>1, FS_AddElement
      <4>4. Cardinality(Inserting(logger', hash)) = Cardinality(Inserting(logger, hash)) - 1
        BY <3>3, <4>2, FS_RemoveElement
      <4> QED BY <3>3, <4>3, <4>4
    <3>5. CASE hash # prev
      <4>1. Naming(entries', hash) = Naming(entries, hash)
        BY <1>4, <1>5, <1>6, <3>1, <3>2, <3>5 DEF Naming
      <4>2. Inserting(logger', hash) = Inserting(logger, hash) BY <1>2, <1>9, <1>10, <3>5 DEF Inserting
      <4> QED BY <3>3, <4>1, <4>2
    <3> QED BY <3>4, <3>5
  <2> QED BY <1>16, <2>1, <2>4, <2>5, <2>6, ForksKept
<1>23. (Len(entries) + Cardinality(Busy) <= MaxEntries)' BY <1>12
<1>24. Backed(entries, head.hash, clock, LogDelay + head.age)' BY <1>2, <1>17
<1>25. (\A i \in 1..Len(entries) : ChainedIn(entries, i))' BY <1>21
<1>26. (\A hash : hash # Genesis => Forks(entries, logger, head.hash, hash))' BY <1>2, <1>22
<1> QED BY <1>14, <1>15, <1>18, <1>20, <1>23, <1>24, <1>25, <1>26 DEF AuditInv

LEMMA SetHeadHolds ==
  ASSUME AuditInv, NEW l \in Logger, SetHead(l), UNCHANGED <<entries, outages>>,
         head' = [hash |-> entries[logger[l].entry].hash, age |-> 0]
  PROVE  AuditInv'
<1> DEFINE k == logger[l].entry
<1>1. /\ logger[l].pc = "set" /\ logger' = [logger EXCEPT ![l] = NotLogging]
      /\ clock' = clock /\ entries' = entries /\ purged' = purged /\ outages' = outages
  BY DEF SetHead
<1>2. NotLogging.pc = "away" BY <1>1, Leaves
<1>3. /\ logger' \in [Logger -> LoggerState] /\ logger'[l] = NotLogging
      /\ \A m \in Logger : m # l => logger'[m] = logger[m]
  BY <1>1, Leaves
<1>4. k \in 1..Len(entries) /\ logger[l].at <= entries[k].at /\ clock <= logger[l].at + LogDelay
  BY <1>1 DEF AuditInv, LoggerOK
<1>5. head'.hash = entries[k].hash /\ head'.age = 0 OBVIOUS
<1>6. Hash' = Hash /\ entries[k].hash \in Hash BY <1>1, <1>4 DEF Hash
<1>7. AuditTypeOK'
  <2>1. \A m \in Logger : /\ logger'[m].pc \in {"away", "insert", "set"} /\ logger'[m].prev \in Hash'
                          /\ logger'[m].at \in 0..clock' /\ logger'[m].entry \in 0..Len(entries')
    BY <1>1, <1>6, Leaves
  <2>2. head'.hash \in Hash' /\ head'.age \in 0..HeadTtl BY <1>5, <1>6, AuditFacts
  <2> QED BY <1>1, <2>1, <2>2 DEF AuditInv, AuditTypeOK
<1>8. (Len(entries) + Cardinality(Busy) <= MaxEntries)'
  <2>1. Cardinality(Busy') <= Cardinality(Busy) /\ Cardinality(Busy') \in Nat BY <1>1, Leaves
  <2>2. Len(entries) + Cardinality(Busy) <= MaxEntries BY DEF AuditInv
  <2>3. Cardinality(Busy) \in Nat BY LoggerSets DEF Busy
  <2>4. Len(entries) + Cardinality(Busy') <= MaxEntries BY <2>1, <2>2, <2>3, AuditParts, AuditFacts
  <2> QED BY <1>1, <2>4
<1>9. AuditShape'
  <2>1. entries[k].hash \in Seq(Nat) BY <1>4, AuditParts DEF AuditEntry
  <2>2. head' \in [hash : Seq(Nat), age : Nat] BY <2>1
  <2> QED BY <1>1, <1>3, <2>2 DEF AuditInv, AuditShape
<1>10. Backed(entries, head.hash, clock, LogDelay + head.age)'
  <2>1. entries[k].at \in Nat /\ logger[l].at \in Nat BY <1>4, AuditParts DEF AuditEntry, LoggerState
  <2>2. PICK there \in Nat : there = entries[k].at BY <2>1
  <2>3. PICK then \in Nat : then = logger[l].at BY <2>1
  <2>4. then <= there /\ clock <= then + LogDelay BY <1>4, <2>2, <2>3
  <2>5. clock <= there + (LogDelay + 0) BY <2>4, AuditParts, AuditFacts
  <2>6. Backed(entries, entries[k].hash, clock, LogDelay + 0) BY <1>4, <2>2, <2>5 DEF Backed
  <2> QED BY <1>1, <1>5, <2>6
<1>11. ASSUME NEW m \in Logger PROVE LoggerOK(entries, logger, m)'
  <2>1. CASE m = l BY <1>2, <1>3, <2>1 DEF LoggerOK
  <2>2. CASE m # l BY <1>1, <1>3, <2>2 DEF AuditInv, LoggerOK
  <2> QED BY <2>1, <2>2
<1>12. (\A a, m \in Logger : a # m /\ logger[a].pc = "set" /\ logger[m].pc = "set" => logger[a].entry # logger[m].entry)'
  BY <1>2, <1>3 DEF AuditInv
<1>13. (\A i \in 1..Len(entries) : ChainedIn(entries, i))' BY <1>1 DEF AuditInv
<1>14. ASSUME NEW hash, hash # Genesis PROVE Forks(entries, logger', head'.hash, hash)
  <2>1. Forks(entries, logger, head.hash, hash) /\ Len(entries) \in Nat BY <1>14, AuditParts DEF AuditInv
  <2>2. ~Settled(logger, k) BY <1>1 DEF Settled
  <2>3. Settled(logger', k)
    <3>1. \A m \in Logger : m # l /\ logger[m].pc = "set" => logger[m].entry # k BY <1>1 DEF AuditInv
    <3> QED BY <1>2, <1>3, <3>1 DEF Settled
  <2>4. \A i : Settled(logger, i) => Settled(logger', i) BY <1>2, <1>3 DEF Settled
  <2>5. SettledCopies(entries, logger, hash) \subseteq SettledCopies(entries, logger', hash) BY <2>4 DEF SettledCopies
  <2>6. CASE hash = entries[k].hash
    <3>1. k \notin SettledCopies(entries, logger, hash) BY <2>2 DEF SettledCopies
    <3>2. SettledCopies(entries, logger, hash) \cup {k} \subseteq SettledCopies(entries, logger', hash)
      BY <1>4, <2>3, <2>5, <2>6 DEF SettledCopies
    <3> QED BY <1>5, <2>1, <2>6, <3>1, <3>2, ForksSet
  <2>7. CASE hash # entries[k].hash
    <3>1. Inserting(logger', hash) = Inserting(logger, hash) BY <1>1, <1>2, <1>3 DEF Inserting
    <3>2. Cardinality(Naming(entries, hash)) + Cardinality(Inserting(logger', hash))
            <= Cardinality(Naming(entries, hash)) + Cardinality(Inserting(logger, hash))
      BY <2>1, <3>1, ForkSets
    <3>3. head'.hash # hash BY <1>5, <2>7
    <3> QED BY <2>1, <2>5, <3>2, <3>3, ForksKept
  <2> QED BY <2>6, <2>7
<1>15. (\A hash : hash # Genesis => Forks(entries, logger, head.hash, hash))' BY <1>1, <1>14
<1> QED BY <1>7, <1>8, <1>9, <1>10, <1>11, <1>12, <1>13, <1>15 DEF AuditInv

(* setPrevHash fails: the entry is in the database and never in Redis. *)
Lost(e, k) == [e EXCEPT ![k].unset = TRUE]

LEMMA SetHeadLostHolds ==
  ASSUME AuditInv, NEW l \in Logger, SetHead(l), outages < MaxOutages, outages' = outages + 1,
         entries' = Lost(entries, logger[l].entry), head' = head
  PROVE  AuditInv'
<1> DEFINE k == logger[l].entry
<1>1. /\ logger[l].pc = "set" /\ logger' = [logger EXCEPT ![l] = NotLogging]
      /\ clock' = clock /\ purged' = purged
  BY DEF SetHead
<1>2. NotLogging.pc = "away" BY <1>1, Leaves
<1>3. /\ logger' \in [Logger -> LoggerState] /\ logger'[l] = NotLogging
      /\ \A m \in Logger : m # l => logger'[m] = logger[m]
  BY <1>1, Leaves
<1>4. k \in 1..Len(entries) BY <1>1 DEF AuditInv, LoggerOK
<1>5. PICK lost : lost = [entries[k] EXCEPT !.unset = TRUE] OBVIOUS
<1>6. entries[k] \in AuditEntry BY <1>4, AuditParts
<1>7. /\ lost \in AuditEntry /\ lost.unset = TRUE /\ lost.hash = entries[k].hash /\ lost.prev = entries[k].prev
      /\ lost.at = entries[k].at /\ lost.missing = entries[k].missing
  BY <1>5, <1>6 DEF AuditEntry
<1>8. /\ entries' \in Seq(AuditEntry) /\ Len(entries') = Len(entries) /\ Len(entries) \in Nat
      /\ entries'[k] = lost /\ \A i \in 1..Len(entries) : i # k => entries'[i] = entries[i]
  <2>1. entries' = [entries EXCEPT ![k] = lost] BY <1>5 DEF Lost
  <2> QED BY <1>4, <1>7, <2>1, AuditParts
<1>9. \A i \in 1..Len(entries) :
        /\ entries'[i].hash = entries[i].hash /\ entries'[i].prev = entries[i].prev
        /\ entries'[i].at = entries[i].at /\ entries'[i].missing = entries[i].missing
        /\ entries[i].at \in Nat
  <2>1. ASSUME NEW i \in 1..Len(entries) PROVE entries[i].at \in Nat BY AuditParts DEF AuditEntry
  <2> QED BY <1>7, <1>8, <2>1
<1>10. Hash' = Hash BY <1>8, <1>9 DEF Hash
<1>11. AuditTypeOK'
  <2>1. \A m \in Logger : /\ logger'[m].pc \in {"away", "insert", "set"} /\ logger'[m].prev \in Hash'
                          /\ logger'[m].at \in 0..clock' /\ logger'[m].entry \in 0..Len(entries')
    BY <1>1, <1>8, <1>10, Leaves
  <2>2. outages' \in 0..MaxOutages BY AuditParts, AuditFacts
  <2>3. \A i \in 1..Len(entries') : entries'[i].at \in 0..clock /\ entries'[i].missing \in 0..purged
    BY <1>8, <1>9 DEF AuditInv, AuditTypeOK
  <2> QED BY <1>1, <1>8, <1>10, <2>1, <2>2, <2>3 DEF AuditInv, AuditTypeOK
<1>12. (Len(entries) + Cardinality(Busy) <= MaxEntries)'
  <2>1. Cardinality(Busy') <= Cardinality(Busy) /\ Cardinality(Busy') \in Nat BY <1>1, Leaves
  <2>2. Len(entries) + Cardinality(Busy) <= MaxEntries BY DEF AuditInv
  <2>3. Cardinality(Busy) \in Nat BY LoggerSets DEF Busy
  <2>4. Len(entries) + Cardinality(Busy') <= MaxEntries BY <2>1, <2>2, <2>3, AuditParts, AuditFacts, SMTT(30)
  <2> QED BY <1>8, <2>4
<1>13. AuditShape'
  <2>1. \A i \in 1..Len(entries') : entries'[i].hash # Genesis /\ entries'[i].hash # entries'[i].prev
    BY <1>8, <1>9, AuditParts
  <2>2. \A i, j \in 1..Len(entries') : i <= j => entries'[i].at <= entries'[j].at
    BY <1>8, <1>9, SMTT(30) DEF AuditInv, AuditShape
  <2>3. ASSUME NEW i \in 1..purged PROVE entries'[i].at + Retention < clock
    <3>1. i \in 1..Len(entries) BY <1>8, AuditParts
    <3> QED BY <1>9, <3>1 DEF AuditInv, AuditShape
  <2>4. head \in [hash : Seq(Nat), age : Nat] BY AuditParts
  <2> QED BY <1>1, <1>3, <1>8, <2>1, <2>2, <2>3, <2>4 DEF AuditShape
<1>14. Len(entries) <= Len(entries') /\ Len(entries') \in Nat BY <1>8
<1>15. Backed(entries', head.hash, clock, LogDelay + head.age)
  <2>1. Backed(entries, head.hash, clock, LogDelay + head.age) BY DEF AuditInv
  <2>2. LogDelay + head.age \in Nat /\ clock \in Nat BY AuditParts, AuditFacts
  <2>3. clock + (LogDelay + head.age) <= clock + (LogDelay + head.age) BY <2>2
  <2> QED BY <1>8, <1>9, <1>14, <2>1, <2>2, <2>3, BackedStays
<1>16. ASSUME NEW m \in Logger PROVE LoggerOK(entries, logger, m)'
  <2>1. CASE m = l BY <1>2, <1>3, <2>1 DEF LoggerOK
  <2>2. CASE m # l
    <3>1. LoggerOK(entries, logger, m) /\ logger'[m] = logger[m] BY <1>3, <2>2 DEF AuditInv
    <3>2. ASSUME logger[m].pc = "insert" PROVE Backed(entries', logger[m].prev, logger[m].at, LogDelay + HeadTtl)
      <4>1. Backed(entries, logger[m].prev, logger[m].at, LogDelay + HeadTtl) BY <3>1, <3>2 DEF LoggerOK
      <4>a. logger[m].at \in Nat BY AuditParts DEF LoggerState
      <4>b. LogDelay + HeadTtl \in Nat BY AuditFacts
      <4>2. LogDelay + HeadTtl \in Nat /\ logger[m].at \in Nat BY <4>a, <4>b
      <4>3. logger[m].at + (LogDelay + HeadTtl) <= logger[m].at + (LogDelay + HeadTtl) BY <4>2
      <4> QED BY <1>8, <1>9, <1>14, <4>1, <4>2, <4>3, BackedStays
    <3>3. ASSUME logger[m].pc = "set"
          PROVE  logger[m].entry \in 1..Len(entries') /\ logger[m].at <= entries'[logger[m].entry].at
      BY <1>8, <1>9, <3>1, <3>3 DEF LoggerOK
    <3> QED BY <1>1, <3>1, <3>2, <3>3 DEF LoggerOK
  <2> QED BY <2>1, <2>2
<1>17. (\A a, m \in Logger : a # m /\ logger[a].pc = "set" /\ logger[m].pc = "set" => logger[a].entry # logger[m].entry)'
  BY <1>2, <1>3 DEF AuditInv
<1>18. ASSUME NEW i \in 1..Len(entries') PROVE ChainedIn(entries', i)
  <2>1. ChainedIn(entries, i) /\ i \in 1..Len(entries) BY <1>8 DEF AuditInv
  <2>2. CASE entries[i].prev = Genesis BY <1>9, <2>1, <2>2 DEF ChainedIn
  <2>3. CASE entries[i].prev # Genesis
    <3>1. PICK j \in (entries[i].missing + 1)..(i - 1) : entries[j].hash = entries[i].prev BY <2>1, <2>3 DEF ChainedIn
    <3>2. entries[i].missing \in Nat BY <2>1, AuditParts DEF AuditEntry
    <3>3. j \in 1..Len(entries) BY <1>8, <2>1, <3>2
    <3>4. entries'[j].hash = entries'[i].prev /\ entries'[i].missing = entries[i].missing BY <1>9, <2>1, <3>1, <3>3
    <3> QED BY <3>4 DEF ChainedIn
  <2> QED BY <2>2, <2>3
<1>19. ASSUME NEW hash, hash # Genesis PROVE Forks(entries', logger', head.hash, hash)
  <2>1. Forks(entries, logger, head.hash, hash) BY <1>19 DEF AuditInv
  <2>2. ASSUME NEW i, i # k PROVE Settled(logger', i) <=> Settled(logger, i) BY <1>2, <1>3, <2>2 DEF Settled
  <2>3. \A i : Settled(logger, i) => Settled(logger', i) BY <1>2, <1>3 DEF Settled
  <2>4. Naming(entries', hash) \in SUBSET Naming(entries, hash) /\ k \notin Naming(entries', hash)
    BY <1>7, <1>8, <1>9 DEF Naming
  <2>5. SettledNaming(entries', logger', hash) \subseteq SettledNaming(entries, logger, hash)
    BY <2>2, <2>4 DEF SettledNaming
  <2>6. SettledCopies(entries, logger, hash) \subseteq SettledCopies(entries', logger', hash)
    BY <1>8, <1>9, <2>3 DEF SettledCopies
  <2>7. Inserting(logger', hash) = Inserting(logger, hash) BY <1>1, <1>2, <1>3 DEF Inserting
  <2>8. Cardinality(Naming(entries', hash)) <= Cardinality(Naming(entries, hash)) BY <1>8, <2>4, ForkSets, FS_Subset
  <2>9. Cardinality(Naming(entries', hash)) + Cardinality(Inserting(logger', hash))
          <= Cardinality(Naming(entries, hash)) + Cardinality(Inserting(logger, hash))
    BY <1>8, <2>7, <2>8, ForkSets
  <2> QED BY <1>8, <2>1, <2>5, <2>6, <2>9, ForksKept
<1>20. Backed(entries, head.hash, clock, LogDelay + head.age)' BY <1>1, <1>15
<1>21. (\A i \in 1..Len(entries) : ChainedIn(entries, i))' BY <1>18
<1>22. (\A hash : hash # Genesis => Forks(entries, logger, head.hash, hash))' BY <1>19
<1> QED BY <1>11, <1>12, <1>13, <1>16, <1>17, <1>20, <1>21, <1>22 DEF AuditInv

LEMMA PurgeEntriesHolds ==
  ASSUME AuditInv, PurgeEntries
  PROVE  AuditInv'
<1> DEFINE S == {i \in 1..Len(entries) : entries[i].at + Retention < clock}
<1>1. /\ purged' = Cardinality(S) /\ \E i \in (purged + 1)..Len(entries) : entries[i].at + Retention < clock
      /\ clock' = clock /\ entries' = entries /\ outages' = outages /\ head' = head /\ logger' = logger
  BY DEF PurgeEntries
<1>2. Len(entries) \in Nat /\ purged \in Nat /\ purged <= Len(entries) /\ clock \in Nat
      /\ \A i \in 1..Len(entries) : entries[i].at \in Nat
  BY AuditParts DEF AuditEntry
<1>3. purged' \in Nat /\ purged' <= Len(entries)
  <2>1. S \in SUBSET (1..Len(entries)) OBVIOUS
  <2> QED BY <1>1, <1>2, <2>1, EntrySets
<1>4. purged <= purged'
  <2>1. 1..purged \subseteq S
    <3>1. \A i \in 1..purged : i \in 1..Len(entries) BY <1>2
    <3> QED BY <3>1 DEF AuditInv, AuditShape
  <2>2. IsFiniteSet(S) BY <1>2, EntrySets
  <2>3. Cardinality(1..purged) = purged BY <1>2, FS_Interval
  <2>4. Cardinality(1..purged) <= Cardinality(S) BY <2>1, <2>2, FS_Subset
  <2> QED BY <1>1, <2>3, <2>4
<1>5. ASSUME NEW i \in 1..purged' PROVE entries[i].at + Retention < clock
  <2>1. i \in 1..Len(entries) BY <1>2, <1>3
  <2>2. SUFFICES ASSUME i \notin S PROVE FALSE BY <2>1
  <2>3. ASSUME NEW j \in S PROVE j \in 1..(i - 1)
    <3>1. j \in 1..Len(entries) /\ entries[j].at + Retention < clock OBVIOUS
    <3>2. CASE i <= j
      <4>1. entries[i].at <= entries[j].at BY <2>1, <3>1, <3>2 DEF AuditInv, AuditShape
      <4>2. PICK a \in Nat : a = entries[i].at BY <1>2, <2>1
      <4>3. PICK b \in Nat : b = entries[j].at BY <1>2, <3>1
      <4>4. a + Retention < clock BY <1>2, <3>1, <4>1, <4>2, <4>3, AuditFacts, SMTT(30)
      <4> QED BY <2>1, <2>2, <4>2, <4>4
    <3> QED BY <1>2, <2>1, <3>1, <3>2
  <2>4. Cardinality(S) <= i - 1
    <3>1. S \in SUBSET (1..(i - 1)) BY <2>3
    <3>2. i - 1 \in Nat BY <2>1, <1>2
    <3> QED BY <3>1, <3>2, EntrySets
  <2> QED BY <1>1, <1>3, <2>1, <2>4
<1>6. Hash' = Hash BY <1>1 DEF Hash
<1>7. AuditTypeOK'
  <2>1. ASSUME NEW i \in 1..Len(entries) PROVE entries[i].at \in 0..clock /\ entries[i].missing \in 0..purged'
    <3>1. entries[i].missing \in 0..purged /\ entries[i].at \in 0..clock BY DEF AuditInv, AuditTypeOK
    <3> QED BY <1>2, <1>3, <1>4, <3>1
  <2>2. purged' \in 0..Len(entries) BY <1>2, <1>3
  <2> QED BY <1>1, <1>6, <2>1, <2>2 DEF AuditInv, AuditTypeOK
<1>8. (Len(entries) + Cardinality(Busy) <= MaxEntries)' BY <1>1 DEF AuditInv, Busy
<1>9. AuditShape' BY <1>1, <1>5 DEF AuditInv, AuditShape
<1>10. Backed(entries, head.hash, clock, LogDelay + head.age)' BY <1>1 DEF AuditInv, Backed
<1>11. (\A l \in Logger : LoggerOK(entries, logger, l))' BY <1>1 DEF AuditInv, LoggerOK
<1>12. (\A a, m \in Logger : a # m /\ logger[a].pc = "set" /\ logger[m].pc = "set" => logger[a].entry # logger[m].entry)'
  BY <1>1 DEF AuditInv
<1>13. (\A i \in 1..Len(entries) : ChainedIn(entries, i))' BY <1>1 DEF AuditInv
<1>14. (\A hash : hash # Genesis => Forks(entries, logger, head.hash, hash))' BY <1>1 DEF AuditInv
<1> QED BY <1>7, <1>8, <1>9, <1>10, <1>11, <1>12, <1>13, <1>14 DEF AuditInv

LEMMA AuditTickHolds ==
  ASSUME AuditInv, ClockTick
  PROVE  AuditInv'
<1>1. /\ clock < LastClock /\ clock' = clock + 1
      /\ \A l \in Logger : logger[l].pc # "away" => clock - logger[l].at < LogDelay
      /\ head' = IF head.hash = Genesis \/ head.age + 1 > HeadTtl THEN NoHead ELSE [head EXCEPT !.age = @ + 1]
      /\ entries' = entries /\ purged' = purged /\ outages' = outages /\ logger' = logger
  BY DEF ClockTick
<1>2. Len(entries) \in Nat /\ clock \in Nat /\ clock' \in Nat /\ head.age \in Nat /\ head.age <= HeadTtl
      /\ \A i \in 1..Len(entries) : entries[i].at \in Nat
  <2>1. \A i \in 1..Len(entries) : entries[i].at \in Nat BY AuditParts DEF AuditEntry
  <2>2. Len(entries) \in Nat /\ clock \in Nat /\ head.age \in Nat /\ head.age <= HeadTtl BY AuditParts
  <2>3. clock' \in Nat BY <1>1, <2>2
  <2> QED BY <2>1, <2>2, <2>3
<1>3. Hash' = Hash /\ Genesis \in Hash BY <1>1 DEF Hash
<1>4. \/ head'.hash = Genesis /\ head'.age = 0
      \/ head.hash # Genesis /\ head'.hash = head.hash /\ head'.age = head.age + 1 /\ head.age + 1 <= HeadTtl
  <2>1. NoHead.hash = Genesis /\ NoHead.age = 0 BY DEF NoHead
  <2>2. CASE head.hash = Genesis \/ head.age + 1 > HeadTtl BY <1>1, <2>1, <2>2
  <2>3. CASE ~(head.hash = Genesis \/ head.age + 1 > HeadTtl)
    <3>1. head' = [head EXCEPT !.age = head.age + 1] BY <1>1, <2>3
    <3>2. head'.hash = head.hash /\ head'.age = head.age + 1 BY <3>1, AuditParts
    <3>3. head.age + 1 <= HeadTtl BY <1>2, <2>3, AuditFacts
    <3> QED BY <2>3, <3>2, <3>3
  <2> QED BY <2>2, <2>3
<1>5. head' \in [hash : Seq(Nat), age : Nat]
  <2>1. CASE head.hash = Genesis \/ head.age + 1 > HeadTtl
    <3>1. <<>> \in Seq(Nat) OBVIOUS
    <3>2. NoHead \in [hash : Seq(Nat), age : Nat] BY <3>1 DEF NoHead, Genesis
    <3> QED BY <1>1, <2>1, <3>2
  <2>2. CASE ~(head.hash = Genesis \/ head.age + 1 > HeadTtl)
    <3>1. head' = [head EXCEPT !.age = head.age + 1] /\ head.age + 1 \in Nat BY <1>1, <1>2, <2>2
    <3> QED BY <3>1, AuditParts
  <2> QED BY <2>1, <2>2
<1>6. ASSUME NEW l \in Logger, logger[l].pc # "away" PROVE clock' <= logger[l].at + LogDelay
  <2>1. PICK then \in Nat : then = logger[l].at BY AuditParts DEF LoggerState
  <2>2. clock - then < LogDelay BY <1>1, <1>6, <2>1
  <2>3. clock + 1 <= then + LogDelay BY <1>2, <2>2, AuditFacts
  <2> QED BY <1>1, <2>1, <2>3
<1>7. AuditTypeOK'
  <2>1. clock' \in 0..LastClock BY <1>1, <1>2, AuditFacts
  <2>2. ASSUME NEW i \in 1..Len(entries) PROVE entries[i].at \in 0..clock'
    <3>1. entries[i].at \in 0..clock BY DEF AuditInv, AuditTypeOK
    <3> QED BY <1>1, <1>2, <3>1
  <2>3. ASSUME NEW l \in Logger PROVE logger[l].at \in 0..clock'
    <3>1. logger[l].at \in 0..clock BY DEF AuditInv, AuditTypeOK
    <3> QED BY <1>1, <1>2, <3>1
  <2>4. head'.hash \in Hash BY <1>3, <1>4, AuditParts
  <2>5. head'.age \in 0..HeadTtl BY <1>2, <1>4, AuditFacts
  <2> QED BY <1>1, <1>3, <2>1, <2>2, <2>3, <2>4, <2>5 DEF AuditInv, AuditTypeOK
<1>8. (Len(entries) + Cardinality(Busy) <= MaxEntries)' BY <1>1 DEF AuditInv, Busy
<1>9. AuditShape'
  <2>1. ASSUME NEW i \in 1..purged PROVE entries[i].at + Retention < clock'
    <3>a. i \in 1..Len(entries) BY AuditParts
    <3>1. i \in 1..Len(entries) /\ entries[i].at + Retention < clock BY <3>a DEF AuditInv, AuditShape
    <3>2. PICK a \in Nat : a = entries[i].at BY <1>2, <3>1
    <3>3. a + Retention < clock' BY <1>1, <1>2, <3>1, <3>2, AuditFacts, SMTT(30)
    <3> QED BY <3>2, <3>3
  <2> QED BY <1>1, <1>5, <2>1 DEF AuditInv, AuditShape
<1>10. Backed(entries, head.hash, clock, LogDelay + head.age)'
  <2>1. CASE head'.hash = Genesis BY <2>1 DEF Backed
  <2>2. CASE head'.hash = head.hash /\ head'.age = head.age + 1
    <3>1. Backed(entries, head.hash, clock, LogDelay + head.age) BY DEF AuditInv
    <3>2. LogDelay + head.age \in Nat /\ LogDelay + (head.age + 1) \in Nat
          /\ clock' + (LogDelay + head.age) <= clock + (LogDelay + (head.age + 1))
      <4>1. PICK a \in Nat : a = head.age BY <1>2
      <4>2. clock' = clock + 1 /\ LogDelay \in Nat BY <1>1, AuditFacts
      <4>3. LogDelay + a \in Nat /\ LogDelay + (a + 1) \in Nat
            /\ (clock + 1) + (LogDelay + a) <= clock + (LogDelay + (a + 1))
        BY <1>2, <4>2
      <4> QED BY <4>1, <4>2, <4>3
    <3>3. Len(entries) <= Len(entries) BY <1>2
    <3>4. Backed(entries, head.hash, clock', LogDelay + (head.age + 1))
      BY <1>2, <3>1, <3>2, <3>3, BackedStays
    <3> QED BY <1>1, <2>2, <3>4
  <2> QED BY <1>4, <2>1, <2>2
<1>11. ASSUME NEW l \in Logger PROVE LoggerOK(entries, logger, l)'
  <2>1. LoggerOK(entries, logger, l) BY DEF AuditInv
  <2> QED BY <1>1, <1>6, <2>1 DEF LoggerOK
<1>12. (\A a, m \in Logger : a # m /\ logger[a].pc = "set" /\ logger[m].pc = "set" => logger[a].entry # logger[m].entry)'
  BY <1>1 DEF AuditInv
<1>13. (\A i \in 1..Len(entries) : ChainedIn(entries, i))' BY <1>1 DEF AuditInv
<1>14. ASSUME NEW hash, hash # Genesis PROVE Forks(entries, logger, head'.hash, hash)
  <2>1. Forks(entries, logger, head.hash, hash) BY <1>14 DEF AuditInv
  <2>2. head'.hash = hash => head.hash = hash BY <1>4, <1>14
  <2> QED BY <2>1, <2>2 DEF Forks
<1>15. (\A hash : hash # Genesis => Forks(entries, logger, head.hash, hash))' BY <1>1, <1>14
<1> QED BY <1>7, <1>8, <1>9, <1>10, <1>11, <1>12, <1>13, <1>15 DEF AuditInv

LEMMA AuditStepHolds == AuditInv /\ [AuditNext]_auditVars => AuditInv'
<1> SUFFICES ASSUME AuditInv, [AuditNext]_auditVars PROVE AuditInv' OBVIOUS
<1>1. ASSUME NEW l \in Logger, ReadHead(l) PROVE AuditInv' BY <1>1, ReadHeadHolds
<1>2. ASSUME NEW l \in Logger, InsertEntry(l) PROVE AuditInv' BY <1>2, InsertEntryHolds
<1>3. ASSUME NEW l \in Logger, InsertFails(l) PROVE AuditInv' BY <1>3, InsertFailsHolds
<1>4. ASSUME NEW l \in Logger, SetHead(l) PROVE AuditInv'
  <2>1. CASE head' = [hash |-> entries[logger[l].entry].hash, age |-> 0] /\ UNCHANGED <<entries, outages>>
    BY <1>4, <2>1, SetHeadHolds
  <2>2. CASE /\ outages < MaxOutages /\ outages' = outages + 1
             /\ entries' = [entries EXCEPT ![logger[l].entry].unset = TRUE] /\ UNCHANGED head
    <3>1. entries' = Lost(entries, logger[l].entry) BY <2>2 DEF Lost
    <3> QED BY <1>4, <2>2, <3>1, SetHeadLostHolds
  <2> QED BY <1>4, <2>1, <2>2 DEF SetHead
<1>5. CASE PurgeEntries BY <1>5, PurgeEntriesHolds
<1>6. CASE ClockTick BY <1>6, AuditTickHolds
<1>7. CASE UNCHANGED auditVars
  <2>1. /\ clock' = clock /\ entries' = entries /\ purged' = purged /\ outages' = outages
        /\ head' = head /\ logger' = logger
    BY <1>7 DEF auditVars
  <2>2. AuditTypeOK' /\ AuditShape' BY <2>1 DEF AuditInv, AuditTypeOK, AuditShape, Hash
  <2>3. (Len(entries) + Cardinality(Busy) <= MaxEntries)' BY <2>1 DEF AuditInv, Busy
  <2>4. Backed(entries, head.hash, clock, LogDelay + head.age)' BY <2>1 DEF AuditInv, Backed
  <2>5. (\A l \in Logger : LoggerOK(entries, logger, l))' BY <2>1 DEF AuditInv, LoggerOK
  <2>6. (\A a, m \in Logger : a # m /\ logger[a].pc = "set" /\ logger[m].pc = "set"
                                => logger[a].entry # logger[m].entry)'
    BY <2>1 DEF AuditInv
  <2>7. (\A i \in 1..Len(entries) : ChainedIn(entries, i))' BY <2>1 DEF AuditInv
  <2>8. (\A hash : hash # Genesis => Forks(entries, logger, head.hash, hash))' BY <2>1 DEF AuditInv
  <2> QED BY <2>2, <2>3, <2>4, <2>5, <2>6, <2>7, <2>8 DEF AuditInv
<1> QED BY <1>1, <1>2, <1>3, <1>4, <1>5, <1>6, <1>7 DEF AuditNext

(* Types, how old what a logger may name can be, and how often a hash that *)
(* was in Redis is followed, in every reachable state (audit.service.ts).  *)
THEOREM AuditInvariance == AuditSpec => []AuditInv
<1>1. AuditInit => AuditInv BY AuditInitHolds
<1>2. AuditInv /\ [AuditNext]_auditVars => AuditInv' BY AuditStepHolds
<1> QED BY <1>1, <1>2, PTL DEF AuditSpec

LEMMA AuditInvLinks == AuditInv => AuditLinked
<1> SUFFICES ASSUME AuditInv PROVE AuditLinked OBVIOUS
<1>1. \A i \in 1..Len(entries) : Chained(i) BY DEF AuditInv, ChainedIn, Chained
<1>2. ASSUME NEW hash \in Hash \ {Genesis}
      PROVE  Cardinality(Followers(hash)) <= Cardinality(Logger) * Cardinality(Copies(hash))
  <2>1. Forks(entries, logger, head.hash, hash) /\ Len(entries) \in Nat BY AuditParts DEF AuditInv
  <2>2. Followers(hash) = Naming(entries, hash) BY DEF Followers, Naming
  <2>3. Cardinality(SettledCopies(entries, logger, hash)) <= Cardinality(Copies(hash)) /\ Cardinality(Copies(hash)) \in Nat
    <3>1. Copies(hash) \in SUBSET (1..Len(entries)) BY DEF Copies
    <3>2. SettledCopies(entries, logger, hash) \subseteq Copies(hash) BY DEF SettledCopies, Copies
    <3> QED BY <2>1, <3>1, <3>2, EntrySets, FS_Subset
  <2>4. Cardinality(SettledCopies(entries, logger, hash)) \in Nat BY <2>1, ForkSets
  <2>5. PICK low : low = Cardinality(Logger) * Cardinality(SettledCopies(entries, logger, hash)) OBVIOUS
  <2>6. PICK high : high = Cardinality(Logger) * Cardinality(Copies(hash)) OBVIOUS
  <2>7. low \in Nat /\ high \in Nat /\ low <= high BY <2>3, <2>4, <2>5, <2>6, AuditFacts, Products
  <2>8. Cardinality(Naming(entries, hash)) + Cardinality(Inserting(logger, hash)) <= low BY <2>1, <2>5 DEF Forks
  <2>9. Cardinality(Naming(entries, hash)) \in Nat /\ Cardinality(Inserting(logger, hash)) \in Nat BY <2>1, ForkSets
  <2>10. Cardinality(Naming(entries, hash)) <= high BY <2>7, <2>8, <2>9
  <2> QED BY <2>2, <2>6, <2>10
<1> QED BY <1>1, <1>2 DEF AuditLinked

(* An entry names GENESIS or an entry inserted before it and not yet       *)
(* deleted, and the chain forks no more than loggers overlap (audit.service *)
(* .ts:36 and 147), for any loggers, delays, lifetimes and outages.        *)
THEOREM AuditIsLinked == AuditSpec => []AuditLinked
BY AuditInvariance, AuditInvLinks, PTL
=============================================================================
