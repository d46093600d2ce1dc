----------------------------- MODULE TenantScope -----------------------------
(* Row-level security under the runtime's role (prisma.ts, tenant-         *)
(* scope.ts, tenant-als.ts; the policies of the migration                  *)
(* 20260318_add_row_level_security): a connection of the pool has one      *)
(* setting, app.current_account_id, and a statement sees the rows of the   *)
(* account it names, or none. Requests and jobs share the connections;     *)
(* every one sets the setting for its transaction only. A statement        *)
(* outside a transaction runs on whichever connection is free.             *)
EXTENDS Naturals

CONSTANTS
  Actor,       \* requests and jobs that run at once
  Tenant,      \* accounts
  Connection,  \* the connections of the pool
  NoTenant     \* an unset setting, and no tenant context

ASSUME TenantAssumption == NoTenant \notin Tenant

VARIABLES
  setting,  \* the setting of each connection, beyond its transactions
  local,    \* the setting of the transaction each connection is in
  holder,   \* the set of the actor in a transaction on each connection
  actor,    \* the local state of each request or job
  seen      \* whose rows the actor's last statement saw

tenantVars == <<setting, local, holder, actor, seen>>

Context == Tenant \cup {NoTenant}
Outside == [pc |-> "away", tenant |-> NoTenant, scoped |-> FALSE]

TenantInit ==
  /\ setting = [c \in Connection |-> NoTenant]
  /\ local = [c \in Connection |-> NoTenant]
  /\ holder = [c \in Connection |-> {}]
  /\ actor = [t \in Actor |-> Outside]
  /\ seen = [t \in Actor |-> NoTenant]

(* The policies: the setting of the transaction hides the other; after a   *)
(* transaction the setting is empty, which is no account's.                *)
Visible(c) == IF local[c] = NoTenant THEN setting[c] ELSE local[c]

(* requireAuth runs the request's handlers in the context of its session's *)
(* account; a worker and a public route have none.                         *)
EnterContext(t, tenant) ==
  /\ actor[t].pc = "away"
  /\ actor' = [actor EXCEPT ![t] = [pc |-> "run", tenant |-> tenant, scoped |-> FALSE]]
  /\ seen' = [seen EXCEPT ![t] = NoTenant]
  /\ UNCHANGED <<setting, local, holder>>

Begin(t, c, state) ==
  /\ holder[c] = {}
  /\ holder' = [holder EXCEPT ![c] = {t}]
  /\ actor' = [actor EXCEPT ![t] = state]
  /\ UNCHANGED <<setting, local, seen>>

(* A query in a tenant's context is wrapped in a transaction of its own. *)
PinQuery(t, c) ==
  /\ actor[t].pc = "run" /\ actor[t].tenant # NoTenant
  /\ Begin(t, c, [actor[t] EXCEPT !.pc = "set"])

(* withTenantScope: a worker's transaction in the context of the account. *)
OpenScope(t, c, tenant) ==
  /\ actor[t].pc = "run" /\ actor[t].tenant = NoTenant
  /\ Begin(t, c, [pc |-> "set", tenant |-> tenant, scoped |-> TRUE])

\* A setting that outlives the transaction.
SetSession(t, c) ==
  /\ actor[t].pc = "set" /\ holder[c] = {t}
  /\ setting' = [setting EXCEPT ![c] = actor[t].tenant]
  /\ actor' = [actor EXCEPT ![t].pc = "query"]
  /\ UNCHANGED <<local, holder, seen>>

SetConfig(t, c) ==
  /\ actor[t].pc = "set" /\ holder[c] = {t}
  /\ local' = [local EXCEPT ![c] = actor[t].tenant]
  /\ actor' = [actor EXCEPT ![t].pc = "query"]
  /\ UNCHANGED <<setting, holder, seen>>

(* The statement of the transaction: one when it wraps a query, any number *)
(* in a scope.                                                             *)
Query(t, c) ==
  /\ actor[t].pc = "query" /\ holder[c] = {t}
  /\ seen' = [seen EXCEPT ![t] = Visible(c)]
  /\ actor' = [actor EXCEPT ![t].pc = IF actor[t].scoped THEN "query" ELSE "close"]
  /\ UNCHANGED <<setting, local, holder>>

(* The transaction commits, fails, times out or loses its connection. *)
CloseTransaction(t, c) ==
  /\ actor[t].pc \in {"set", "query", "close"} /\ holder[c] = {t}
  /\ holder' = [holder EXCEPT ![c] = {}]
  /\ local' = [local EXCEPT ![c] = NoTenant]
  /\ actor' = [actor EXCEPT ![t] = IF @.scoped THEN [Outside EXCEPT !.pc = "run"] ELSE [@ EXCEPT !.pc = "run"]]
  /\ seen' = [seen EXCEPT ![t] = IF actor[t].scoped THEN NoTenant ELSE @]
  /\ UNCHANGED setting

(* A query that is passed on as it is: raw, without a context, or through  *)
(* the client instead of the transaction's own inside a scope.             *)
Forward(t, c) ==
  /\ holder[c] = {}
  /\ actor[t].pc \in {"run", "query"} /\ (actor[t].pc = "query" => actor[t].scoped)
  /\ seen' = [seen EXCEPT ![t] = Visible(c)]
  /\ UNCHANGED <<setting, local, holder, actor>>

LeaveContext(t) ==
  /\ actor[t].pc = "run"
  /\ actor' = [actor EXCEPT ![t] = Outside]
  /\ seen' = [seen EXCEPT ![t] = NoTenant]
  /\ UNCHANGED <<setting, local, holder>>

TenantNext ==
  \E t \in Actor :
    \/ \E tenant \in Context : EnterContext(t, tenant)
    \/ \E c \in Connection :
         \/ PinQuery(t, c) \/ SetConfig(t, c) \/ Query(t, c) \/ CloseTransaction(t, c) \/ Forward(t, c)
         \/ \E tenant \in Tenant : OpenScope(t, c, tenant)
    \/ LeaveContext(t)

TenantSpec == TenantInit /\ [][TenantNext]_tenantVars

-----------------------------------------------------------------------------
(* Properties *)

TenantTypeOK ==
  /\ setting \in [Connection -> Context] /\ local \in [Connection -> Context]
  /\ holder \in [Connection -> SUBSET Actor]
  /\ actor \in [Actor -> [pc : {"away", "run", "set", "query", "close"}, tenant : Context, scoped : BOOLEAN]]
  /\ seen \in [Actor -> Context]

(* However requests, jobs and public routes share the connections, a       *)
(* statement sees the rows of its own account or none, and the statement a *)
(* query was wrapped for sees its account's.                               *)
TenantIsolated ==
  \A t \in Actor : /\ seen[t] \in {NoTenant, actor[t].tenant}
                   /\ actor[t].pc = "close" => seen[t] = actor[t].tenant
=============================================================================
