---------------------------- MODULE SessionStore ----------------------------
(***************************************************************************)
(* The session service (src/lib/services/session.service.ts): the session  *)
(* rows of ONE user in PostgreSQL, their copies in the Redis cache, the    *)
(* Redis index of the user's cache keys, and the requests that read and    *)
(* write the three of them concurrently.  Every key and every query of the *)
(* service is scoped by a token or by a user id, so users do not interact. *)
(*                                                                         *)
(* A request is a record: its program counter, the session it is about,    *)
(* the clock value it sampled when it began, the lastActiveAt it will      *)
(* write into the cache, the cache keys it will delete, and the            *)
(* fire-and-forget writes it still owes (todo).  An owed write lands at    *)
(* any later moment, in any order, also after the request was answered,    *)
(* and may be lost when the code only logs its failure.                    *)
(***************************************************************************)
EXTENDS Naturals, FiniteSets

CONSTANTS
  Session,         \* the tokens that may be drawn
  Request,         \* the requests that can be in flight at the same time
  MaxConcurrent,   \* MAX_CONCURRENT_SESSIONS
  CacheTtl,        \* SESSION_CACHE_TTL_SEC
  ActiveInterval,  \* the 60 seconds between two writes of lastActiveAt
  IdleTimeout,     \* IDLE_TIMEOUT_MINUTES
  Expiry,          \* SESSION_EXPIRY_DAYS
  MaxDelay,        \* the longest a request, its owed writes included, takes
  LostWrites,      \* the owed writes that may fail
  MaxTime,         \* bound on the clock
  Nobody           \* the session of a request that is about none

Effect == {"set", "touch", "del", "rowdel"}

ASSUME SessionAssumption ==
  /\ MaxConcurrent \in Nat \ {0}
  /\ CacheTtl \in Nat /\ ActiveInterval \in Nat /\ IdleTimeout \in Nat
  /\ Expiry \in Nat \ {0} /\ MaxDelay \in Nat /\ MaxTime \in Nat
  /\ LostWrites \subseteq Effect
  /\ Nobody \notin Session

(* A cache entry dies before it is old enough to be written back a second  *)
(* time: 30 s of TTL and a request of at most 30 s against 60 s.           *)
ASSUME DelayAssumption == CacheTtl + MaxDelay <= ActiveInterval

VARIABLES
  now,         \* the clock
  born,        \* the sessions whose row was inserted at some time
  rows,        \* the sessions that have a row now
  expiresAt,   \* Session.expiresAt (never changes, so the cached copy is equal)
  lastActive,  \* Session.lastActiveAt in the database
  issued,      \* the sessions whose token was returned to a client
  cached,      \* the sessions that have a live cache entry
  entry,       \* their entries: the cached lastActiveAt and when Redis drops it
  index,       \* the set stored under session:user:<userId>
  proc,        \* the requests
  revokedAt,   \* history: when the row was deleted
  lastOk       \* history: when the session last passed every check

db    == <<born, rows, expiresAt, lastActive, revokedAt>>
redis == <<cached, entry, index>>
vars  == <<now, db, issued, redis, proc, lastOk>>

Time == Nat
PC == {"done", "inserting", "indexing", "get", "find", "answer", "members", "flush"}

Idle == [pc |-> "done", sess |-> Nobody, start |-> 0, last |-> 0,
         keys |-> {}, todo |-> {}]

Proc == [pc : PC, sess : Session \cup {Nobody}, start : Time, last : Time,
         keys : SUBSET Session, todo : SUBSET Effect]

Empty == [lastActive |-> 0, evictAt |-> 0]

TypeOK ==
  /\ now \in Time
  /\ born \subseteq Session /\ rows \subseteq born /\ issued \subseteq born
  /\ expiresAt \in [Session -> Time] /\ lastActive \in [Session -> Time]
  /\ cached \subseteq born
  /\ entry \in [Session -> [lastActive : Time, evictAt : Time]]
  /\ index \subseteq born
  /\ proc \in [Request -> Proc]
  /\ revokedAt \in [Session -> Time] /\ lastOk \in [Session -> Time]

Init ==
  /\ now = 0
  /\ born = {} /\ rows = {} /\ issued = {} /\ cached = {} /\ index = {}
  /\ expiresAt = [s \in Session |-> 0] /\ lastActive = [s \in Session |-> 0]
  /\ entry = [s \in Session |-> Empty]
  /\ proc = [r \in Request |-> Idle]
  /\ revokedAt = [s \in Session |-> 0] /\ lastOk = [s \in Session |-> 0]

-----------------------------------------------------------------------------
(* Requests *)

Free(r) == proc[r].pc = "done" /\ proc[r].todo = {}

Begin(r, pc, s) == [Idle EXCEPT !.pc = pc, !.sess = s, !.start = now]

(* A request that was answered and owes nothing is forgotten. *)
Become(r, p) ==
  proc' = [proc EXCEPT ![r] = IF p.pc = "done" /\ p.todo = {} THEN Idle ELSE p]

(* The rows of gone are deleted; a row already gone is not deleted twice. *)
Delete(gone) ==
  /\ rows' = rows \ gone
  /\ revokedAt' = [s \in Session |-> IF s \in rows \cap gone THEN now ELSE revokedAt[s]]

Pass(s) == lastOk' = [lastOk EXCEPT ![s] = now]

-----------------------------------------------------------------------------
(* createSession *)

Active == {s \in rows : expiresAt[s] > now}

Oldest(S) == {s \in S : \A t \in S : lastActive[s] <= lastActive[t]}

(* The transaction reads the active sessions.  At the limit it picks the   *)
(* least recently active one, and setImmediate owes the deletion of that   *)
(* one's cache key, before the transaction has committed.                  *)
CreateBegin(r, s) ==
  /\ Free(r)
  /\ s \notin born /\ \A q \in Request : proc[q].sess # s
  /\ IF Cardinality(Active) >= MaxConcurrent
       THEN \E v \in Oldest(Active) :
              Become(r, [Begin(r, "inserting", s) EXCEPT !.keys = {v}, !.todo = {"del"}])
       ELSE Become(r, Begin(r, "inserting", s))
  /\ UNCHANGED <<now, db, issued, redis, lastOk>>

(* The transaction commits.  It runs at PostgreSQL's default isolation, so *)
(* what it read may have changed; the victim may be gone (its failed       *)
(* deletion is caught).  Login counts as activity.                         *)
CreateCommit(r) ==
  LET p == proc[r]  s == p.sess IN
  /\ p.pc = "inserting"
  /\ born' = born \cup {s}
  /\ rows' = (rows \ p.keys) \cup {s}
  /\ revokedAt' = [x \in Session |-> IF x \in rows \cap p.keys THEN now ELSE revokedAt[x]]
  /\ expiresAt' = [expiresAt EXCEPT ![s] = p.start + Expiry]
  /\ lastActive' = [lastActive EXCEPT ![s] = now]
  /\ Pass(s)
  /\ Become(r, [p EXCEPT !.pc = "indexing"])
  /\ UNCHANGED <<now, issued, redis>>

(* sadd into the user's index, whose failure is only logged; the token is  *)
(* returned either way.                                                    *)
CreateIndex(r) ==
  LET p == proc[r] IN
  /\ p.pc = "indexing"
  /\ index' \in {index, index \cup {p.sess}}
  /\ issued' = issued \cup {p.sess}
  /\ Become(r, [p EXCEPT !.pc = "done"])
  /\ UNCHANGED <<now, db, cached, entry, lastOk>>

(* The catch branches: a failed transaction (createSession) and a failed   *)
(* flush of the cache (revokeAllUserSessions).                             *)
Abort(r) ==
  /\ proc[r].pc \in {"inserting", "members", "flush"}
  /\ Become(r, [proc[r] EXCEPT !.pc = "done"])
  /\ UNCHANGED <<now, db, issued, redis, lastOk>>

-----------------------------------------------------------------------------
(* validateSession: the cache *)

ValidateStart(r, s) ==
  /\ Free(r)
  /\ s \in issued
  /\ Become(r, Begin(r, "get", s))
  /\ UNCHANGED <<now, db, issued, redis, lastOk>>

Hit(r) == proc[r].pc = "get" /\ proc[r].sess \in cached

HitUsable(r) ==
  LET p == proc[r] IN
  /\ expiresAt[p.sess] > p.start
  /\ p.start <= entry[p.sess].lastActive + IdleTimeout

(* The cached entry is expired or idle: the row and the key are deleted. *)
HitStale(r) ==
  /\ Hit(r) /\ ~HitUsable(r)
  /\ Become(r, [proc[r] EXCEPT !.pc = "done", !.keys = {proc[r].sess},
                               !.todo = {"rowdel", "del"}])
  /\ UNCHANGED <<now, db, issued, redis, lastOk>>

(* The caller's fingerprint is not the cached one: only the key goes. *)
HitForeign(r) ==
  /\ Hit(r) /\ HitUsable(r)
  /\ Become(r, [proc[r] EXCEPT !.pc = "done", !.keys = {proc[r].sess}, !.todo = {"del"}])
  /\ UNCHANGED <<now, db, issued, redis, lastOk>>

(* Mutant: every hit writes the entry back. *)
RefreshAlways(r) == proc[r].start >= entry[proc[r].sess].lastActive

RefreshDue(r) == proc[r].start > entry[proc[r].sess].lastActive + ActiveInterval

(* Accepted from the cache; an entry that is old enough is written back    *)
(* with a new lastActiveAt and a new TTL, and the row is touched lazily.   *)
HitFresh(r) ==
  /\ Hit(r) /\ HitUsable(r)
  /\ Pass(proc[r].sess)
  /\ Become(r, IF RefreshDue(r)
                 THEN [proc[r] EXCEPT !.pc = "done", !.last = proc[r].start,
                                      !.todo = {"set", "touch"}]
                 ELSE [proc[r] EXCEPT !.pc = "done"])
  /\ UNCHANGED <<now, db, issued, redis>>

(* No live entry, or the read failed and the code falls through to the     *)
(* database.                                                               *)
Miss(r) ==
  /\ proc[r].pc = "get"
  /\ Become(r, [proc[r] EXCEPT !.pc = "find"])
  /\ UNCHANGED <<now, db, issued, redis, lastOk>>

-----------------------------------------------------------------------------
(* validateSession: the database *)

(* Mutants: a row is checked for one of the two only. *)
RowUsableByIdle(r) == proc[r].start <= lastActive[proc[r].sess] + IdleTimeout
RowUsableByExpiry(r) == expiresAt[proc[r].sess] > proc[r].start

RowUsable(r) ==
  LET p == proc[r] IN
  /\ expiresAt[p.sess] > p.start
  /\ p.start <= lastActive[p.sess] + IdleTimeout

(* No row, or a row whose fingerprint is not the caller's. *)
FindReject(r) ==
  /\ proc[r].pc = "find"
  /\ proc[r].sess \notin rows \/ RowUsable(r)
  /\ Become(r, [proc[r] EXCEPT !.pc = "done"])
  /\ UNCHANGED <<now, db, issued, redis, lastOk>>

FindStale(r) ==
  /\ proc[r].pc = "find" /\ proc[r].sess \in rows /\ ~RowUsable(r)
  /\ Become(r, [proc[r] EXCEPT !.pc = "done", !.todo = {"rowdel"}])
  /\ UNCHANGED <<now, db, issued, redis, lastOk>>

(* Mutant: lastActiveAt is written only when the session is about to idle. *)
TouchAtIdle(r) == proc[r].start >= lastActive[proc[r].sess] + IdleTimeout

TouchDue(r) == proc[r].start > lastActive[proc[r].sess] + ActiveInterval

FindLive(r) ==
  LET p == proc[r] IN
  /\ p.pc = "find" /\ p.sess \in rows /\ RowUsable(r)
  /\ Pass(p.sess)
  /\ Become(r, IF TouchDue(r)
                 THEN [p EXCEPT !.pc = "answer", !.last = p.start, !.todo = {"touch"}]
                 ELSE [p EXCEPT !.pc = "answer", !.last = lastActive[p.sess]])
  /\ UNCHANGED <<now, db, issued, redis>>

(* The awaited touch is over; the result is cached and returned. *)
Answer(r) ==
  /\ proc[r].pc = "answer" /\ "touch" \notin proc[r].todo
  /\ Become(r, [proc[r] EXCEPT !.pc = "done", !.todo = {"set"}])
  /\ UNCHANGED <<now, db, issued, redis, lastOk>>

-----------------------------------------------------------------------------
(* Owed writes *)

Settle(r, e) ==
  /\ e \in proc[r].todo
  /\ Become(r, [proc[r] EXCEPT !.todo = @ \ {e}])

DoSet(r) ==
  LET p == proc[r] IN
  /\ Settle(r, "set")
  /\ cached' = cached \cup {p.sess}
  /\ entry' = [entry EXCEPT ![p.sess] = [lastActive |-> p.last, evictAt |-> now + CacheTtl]]
  /\ UNCHANGED <<now, db, issued, index, lastOk>>

(* Mutant: the touch is an upsert, which inserts a row already deleted. *)
DoTouchUpsert(r) ==
  LET p == proc[r] IN
  /\ Settle(r, "touch")
  /\ rows' = rows \cup {p.sess}
  /\ lastActive' = [lastActive EXCEPT ![p.sess] = p.start]
  /\ UNCHANGED <<now, born, expiresAt, revokedAt, issued, redis, lastOk>>

DoTouch(r) ==
  LET p == proc[r] IN
  /\ Settle(r, "touch")
  /\ lastActive' = IF p.sess \in rows THEN [lastActive EXCEPT ![p.sess] = p.start]
                                      ELSE lastActive
  /\ UNCHANGED <<now, born, rows, expiresAt, revokedAt, issued, redis, lastOk>>

DropKeys(keys) ==
  /\ cached' = cached \ keys
  /\ entry' = [s \in Session |-> IF s \in keys THEN Empty ELSE entry[s]]

DoDel(r) ==
  /\ Settle(r, "del")
  /\ DropKeys(proc[r].keys)
  /\ UNCHANGED <<now, db, issued, index, lastOk>>

DoRowDel(r) ==
  /\ Settle(r, "rowdel")
  /\ Delete({proc[r].sess})
  /\ UNCHANGED <<now, born, expiresAt, lastActive, issued, redis, lastOk>>

Lose(r, e) ==
  /\ e \in LostWrites
  /\ Settle(r, e)
  /\ UNCHANGED <<now, db, issued, redis, lastOk>>

-----------------------------------------------------------------------------
(* Revocation *)

(* revokeSession: the row, then the key without waiting for it. *)
RevokeSession(r, s) ==
  /\ Free(r)
  /\ s \in issued
  /\ Delete({s})
  /\ Become(r, [Begin(r, "done", s) EXCEPT !.keys = {s}, !.todo = {"del"}])
  /\ UNCHANGED <<now, born, expiresAt, lastActive, issued, redis, lastOk>>

(* POST /logout revokes the session whether it is still valid or not; it   *)
(* is validated before, for the audit log: a ValidateStart of its own.     *)
handleLogout(r, s) == RevokeSession(r, s)

(* revokeAllUserSessions: the rows, then smembers of the index, then one   *)
(* pipeline that deletes those keys and the index.                         *)
RevokeAll(r) ==
  /\ Free(r)
  /\ Delete(Session)
  /\ Become(r, Begin(r, "members", Nobody))
  /\ UNCHANGED <<now, born, expiresAt, lastActive, issued, redis, lastOk>>

RevokeMembers(r) ==
  /\ proc[r].pc = "members"
  /\ Become(r, [proc[r] EXCEPT !.pc = "flush", !.keys = index])
  /\ UNCHANGED <<now, db, issued, redis, lastOk>>

RevokeFlush(r) ==
  /\ proc[r].pc = "flush"
  /\ DropKeys(proc[r].keys)
  /\ index' = {}
  /\ Become(r, [proc[r] EXCEPT !.pc = "done"])
  /\ UNCHANGED <<now, db, issued, lastOk>>

(* changePassword keeps the caller's session, applyPasswordReset keeps     *)
(* none; both delete the other rows in their transaction and touch no key. *)
PasswordChanged(keep) ==
  /\ Delete(Session \ keep)
  /\ UNCHANGED <<now, born, expiresAt, lastActive, issued, redis, proc, lastOk>>

DeleteExpired ==
  /\ Delete({s \in Session : expiresAt[s] < now})
  /\ UNCHANGED <<now, born, expiresAt, lastActive, issued, redis, proc, lastOk>>

-----------------------------------------------------------------------------
(* Time passes only while no request is older than MaxDelay; Redis drops   *)
(* the entries whose TTL is over (a unit is coarse: an entry may still be  *)
(* hit within the unit in which it dies).                                  *)
Tick ==
  /\ now < MaxTime
  /\ \A r \in Request : Free(r) \/ now < proc[r].start + MaxDelay
  /\ now' = now + 1
  /\ DropKeys({s \in Session : entry[s].evictAt < now + 1})
  /\ UNCHANGED <<db, issued, index, proc, lastOk>>

RequestStep(r) ==
  \/ \E s \in Session : CreateBegin(r, s) \/ ValidateStart(r, s) \/ handleLogout(r, s)
  \/ CreateCommit(r) \/ CreateIndex(r) \/ Abort(r)
  \/ HitStale(r) \/ HitForeign(r) \/ HitFresh(r) \/ Miss(r)
  \/ FindReject(r) \/ FindStale(r) \/ FindLive(r) \/ Answer(r)
  \/ DoSet(r) \/ DoTouch(r) \/ DoDel(r) \/ DoRowDel(r)
  \/ \E e \in Effect : Lose(r, e)
  \/ RevokeAll(r) \/ RevokeMembers(r) \/ RevokeFlush(r)

Kept == {{}} \cup {{s} : s \in issued}

Next ==
  \/ \E r \in Request : RequestStep(r)
  \/ \E keep \in Kept : PasswordChanged(keep)
  \/ DeleteExpired
  \/ Tick

Spec == Init /\ [][Next]_vars

-----------------------------------------------------------------------------
(* Properties *)

(* How long a session can go on authenticating after its row was deleted. *)
Grace == 2 * (CacheTtl + MaxDelay)

(* A session whose row is gone (logout, revocation of all sessions,        *)
(* password change or reset, eviction, expiry) stops authenticating within *)
(* Grace, whatever validations were in flight, whichever cache deletions   *)
(* were lost, never sent or overtaken: validateSession never keeps its own *)
(* copy alive.                                                             *)
RevocationBounded ==
  \A s \in born \ rows : lastOk[s] <= revokedAt[s] + Grace

(* The session service implements its contract: see SessionContract.       *)
Contract == INSTANCE SessionContract WITH
    Session <- Session, Grace <- Grace, now <- now, born <- born, rows <- rows,
    revokedAt <- revokedAt, lastOk <- lastOk
ImplementsContract == Contract!Spec

(* The cache never bypasses the expiry (validateSession's contract): no    *)
(* session passes once it has expired, up to the delay of the request.     *)
ExpiryHonoured ==
  \A s \in born : lastOk[s] < expiresAt[s] + MaxDelay

(* Nor the idle timeout: a session passes only if it last did so at most   *)
(* IdleTimeout ago, although two copies of lastActiveAt are written by     *)
(* racing requests.                                                        *)
IdleHonoured ==
  [][\A s \in born : lastOk'[s] # lastOk[s] => lastOk'[s] <= lastOk[s] + IdleTimeout + MaxDelay]_vars

(* A session in use is not logged out early: a request that finds it idle, *)
(* while no other request for it is in flight, finds one unused for        *)
(* IdleTimeout but for the lag of lastActiveAt behind the cache hits that  *)
(* did not write it.                                                       *)
Lag == ActiveInterval + 2 * MaxDelay

IdlesOut(r) ==
  /\ HitStale(r) \/ FindStale(r)
  /\ expiresAt[proc[r].sess] > proc[r].start
  /\ \A q \in Request \ {r} : proc[q].sess # proc[r].sess

NeverIdledOutEarly ==
  [][\A r \in Request : IdlesOut(r) => lastOk[proc[r].sess] + IdleTimeout < proc[r].start + Lag]_vars

(* MAX_CONCURRENT_SESSIONS as the comments of createSession state it: the  *)
(* user never has more active sessions, whatever logins race.              *)
SessionCap == Cardinality(Active) <= MaxConcurrent
=============================================================================
