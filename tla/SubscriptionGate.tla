---------------------------- MODULE SubscriptionGate ----------------------------
(***************************************************************************)
(* The middleware of the API router (app.ts, middleware/auth.ts): the      *)
(* subscription gate, then the route's own requireAuth, then its handler,  *)
(* for the requests of one account whose status changes meanwhile.  The    *)
(* gate keeps the status in Redis for a minute and nothing removes it from *)
(* there.  Only the chain's order decides whether a session is there for   *)
(* the gate to look at: requireAuth is what attaches it.                   *)
(***************************************************************************)
EXTENDS Naturals, Sequences

CONSTANTS
  Request,    \* concurrent requests of the account
  CacheTtl    \* ACCOUNT_STATUS_CACHE_TTL_SEC

VARIABLES
  status,      \* of the account
  trial,       \* trialEndsAt: "none" or "set"
  over,        \* whether a date that was set has come
  paid,        \* whether an active subscription exists
  cache,       \* the cached status and trial, with their age; NoCache
  blockedFor,  \* how long the status has been one that blocks, up to CacheTtl + 1
  request      \* the local state of each request

gateVars == <<status, trial, over, paid, cache, blockedFor, request>>
account == <<status, trial, over, paid>>

AccountStatus == {"active", "past_due", "canceled"}
Blocked == {"past_due", "canceled"}

Route == {"billing", "auth", "erp"}
ExemptRoute == {"billing", "auth"}

(* The exempt prefixes are full paths, while req.path is relative to the   *)
(* router's mount point.                                                   *)
ExemptPrefixes == {<<"api", x>> : x \in ExemptRoute} \cup {<<"api", "v1", x>> : x \in ExemptRoute}
ReqPath(route) == <<route>>
StartsWith(path, prefix) == Len(prefix) <= Len(path) /\ SubSeq(path, 1, Len(prefix)) = prefix
Exempt(route) == \E prefix \in ExemptPrefixes : StartsWith(ReqPath(route), prefix)

(* app.ts mounts the gate on the router, before every route's requireAuth. *)
Chain == <<"gate", "auth", "handler">>

NoCache == [status |-> "none", trial |-> "none", age |-> 0]
NoRequest == [at |-> 0, pc |-> "away", route |-> "erp", session |-> FALSE, due |-> FALSE,
              status |-> "none", trial |-> "none"]

GateInit ==
  /\ status = "active" /\ trial \in {"none", "set"} /\ over = FALSE /\ paid = (trial = "none")
  /\ cache = NoCache /\ blockedFor = 0
  /\ request = [r \in Request |-> NoRequest]

CallApi(r, route) ==
  /\ request[r].pc \in {"away", "served", "refused"}
  /\ request' = [request EXCEPT ![r] = [NoRequest EXCEPT !.at = 1, !.pc = "enter", !.route = route,
                                                        !.due = blockedFor > CacheTtl]]
  /\ UNCHANGED <<account, cache, blockedFor>>

Goto(r, new) == request' = [request EXCEPT ![r] = new]

Refuse(r) == Goto(r, [request[r] EXCEPT !.pc = "refused"])

NextInChain(r) == Goto(r, [request[r] EXCEPT !.pc = "enter", !.at = @ + 1])

Entering(r, middleware) == request[r].pc = "enter" /\ Chain[request[r].at] = middleware

(* requireAuth, for the cookie of a valid or an invalid session. *)
RequireAuth(r) ==
  /\ Entering(r, "auth")
  /\ \/ Goto(r, [request[r] EXCEPT !.at = @ + 1, !.session = TRUE])
     \/ Refuse(r)
  /\ UNCHANGED <<account, cache, blockedFor>>

Handle(r) ==
  /\ Entering(r, "handler")
  /\ Goto(r, [request[r] EXCEPT !.pc = "served"])
  /\ UNCHANGED <<account, cache, blockedFor>>

(* requireActiveSubscription *)
PassGate(r) ==
  /\ Entering(r, "gate")
  /\ Exempt(request[r].route) \/ ~request[r].session
  /\ NextInChain(r)
  /\ UNCHANGED <<account, cache, blockedFor>>

Judging(r, info) == [request[r] EXCEPT !.pc = "decide", !.status = info.status, !.trial = info.trial]

ReadCache(r) ==
  /\ Entering(r, "gate")
  /\ ~Exempt(request[r].route) /\ request[r].session
  /\ \/ cache # NoCache /\ Goto(r, Judging(r, cache))
     \/ Goto(r, [request[r] EXCEPT !.pc = "database"])
  /\ UNCHANGED <<account, cache, blockedFor>>

(* The row is read and cached, unless Redis is down; without a row the     *)
(* answer is 503.                                                          *)
ReadStatus(r) ==
  /\ request[r].pc = "database"
  /\ \/ /\ Goto(r, Judging(r, [status |-> status, trial |-> trial]))
        /\ cache' \in {cache, [status |-> status, trial |-> trial, age |-> 0]}
     \/ Refuse(r) /\ UNCHANGED cache
  /\ UNCHANGED <<account, blockedFor>>

(* An account whose trial is over needs an active subscription, and a      *)
(* failed look for one refuses.                                            *)
DecideGate(r) ==
  LET trialOver == request[r].trial = "set" /\ over IN
  /\ request[r].pc = "decide"
  /\ IF request[r].status \in Blocked \/ (trialOver /\ ~paid)
     THEN Refuse(r)
     ELSE NextInChain(r) \/ (trialOver /\ Refuse(r))
  /\ UNCHANGED <<account, cache, blockedFor>>

(* The account, see Billing *)
SetStatus(new) ==
  /\ new \in AccountStatus \ {status}
  /\ status' = new
  /\ trial' = IF new = "active" THEN "none" ELSE trial
  /\ paid' = (new = "active") /\ UNCHANGED over
  /\ IF new \in Blocked THEN UNCHANGED <<blockedFor, request>>
     ELSE /\ blockedFor' = 0
          /\ request' = [r \in Request |-> [request[r] EXCEPT !.due = FALSE]]
  /\ UNCHANGED cache

EndTrial ==
  /\ ~over /\ over' = TRUE
  /\ UNCHANGED <<status, trial, paid, cache, blockedFor, request>>

Tick ==
  /\ blockedFor' = IF status \in Blocked /\ blockedFor <= CacheTtl THEN blockedFor + 1 ELSE blockedFor
  /\ cache' = IF cache = NoCache \/ cache.age = CacheTtl THEN NoCache ELSE [cache EXCEPT !.age = @ + 1]
  /\ UNCHANGED <<account, request>>

GateNext ==
  \/ \E r \in Request :
       \/ \E route \in Route : CallApi(r, route)
       \/ RequireAuth(r) \/ Handle(r) \/ PassGate(r) \/ ReadCache(r) \/ ReadStatus(r) \/ DecideGate(r)
  \/ \E new \in AccountStatus : SetStatus(new)
  \/ EndTrial \/ Tick

GateSpec == GateInit /\ [][GateNext]_gateVars

-----------------------------------------------------------------------------
(* Properties *)

(* "Block past_due/canceled accounts from accessing non-billing endpoints" *)
(* (app.ts:161): no handler outside the exempt routes serves an account    *)
(* whose status had blocked it for longer than the cache lives when the    *)
(* request came in and has blocked it ever since.                          *)
GateBlocks ==
  \A r \in Request : request[r].pc = "served" /\ request[r].due => request[r].route \in ExemptRoute

(* What the code does instead: no request has a session when it meets the  *)
(* gate (middleware/auth.ts:199), so none is judged by the account's       *)
(* status, and only requireAuth refuses.                                   *)
GateIdle ==
  /\ cache = NoCache
  /\ \A r \in Request : /\ request[r].pc \notin {"database", "decide"}
                        /\ request[r].pc = "refused" => request[r].at = 2
                        /\ request[r].pc = "served" => request[r].session
=============================================================================
