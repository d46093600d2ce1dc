------------------------- MODULE SessionStoreProofs -------------------------
(***************************************************************************)
(* Proofs about SessionStore, for any number of sessions and requests and  *)
(* any values of the timeouts that satisfy its assumptions.                *)
(***************************************************************************)
EXTENDS SessionStore, TLAPS

(* A request in flight is between 0 and MaxDelay old. *)
Young ==
  \A r \in Request : ~Free(r) => proc[r].start <= now /\ now <= proc[r].start + MaxDelay

(* What a request is about: a validation, and every write it owes, is      *)
(* about an issued session; a row being inserted is nobody else's.         *)
About ==
  \A r \in Request :
    /\ (proc[r].pc \in {"get", "find", "answer"} \/ proc[r].todo \cap {"set", "touch", "rowdel"} # {})
         => proc[r].sess \in issued
    /\ proc[r].pc = "inserting" =>
         /\ proc[r].sess \in Session \ born
         /\ \A q \in Request \ {r} : proc[q].pc = "inserting" => proc[q].sess # proc[r].sess
    /\ proc[r].pc = "indexing" => proc[r].sess \in born

Past == \A s \in Session : lastOk[s] <= now /\ revokedAt[s] <= now

(* A live entry outlives now by at most its TTL. *)
EntryAlive == \A s \in cached : now <= entry[s].evictAt /\ entry[s].evictAt <= now + CacheTtl

(* The copies of a session whose row is gone: an entry comes from a read   *)
(* before the revocation, or is the one refresh of such an entry, and then *)
(* it dies before its lastActiveAt is old enough for another refresh.      *)
EntryDoomed ==
  \A s \in cached \ rows :
    \/ entry[s].evictAt <= revokedAt[s] + MaxDelay + CacheTtl
    \/ /\ entry[s].evictAt <= revokedAt[s] + Grace
       /\ entry[s].evictAt <= entry[s].lastActive + MaxDelay + CacheTtl

(* And the same of the entries still to be written. *)
SetDoomed ==
  \A r \in Request : proc[r].sess \notin rows =>
    /\ proc[r].pc = "answer" => proc[r].start <= revokedAt[proc[r].sess]
    /\ "set" \in proc[r].todo =>
         \/ proc[r].start <= revokedAt[proc[r].sess]
         \/ /\ proc[r].start <= revokedAt[proc[r].sess] + MaxDelay + CacheTtl
            /\ proc[r].last = proc[r].start

(* Every copy of lastActiveAt is the time of an earlier success. *)
ActiveIsUse ==
  /\ \A s \in born : lastActive[s] <= lastOk[s]
  /\ \A s \in cached : entry[s].lastActive <= lastOk[s]
  /\ \A r \in Request :
       /\ "touch" \in proc[r].todo => proc[r].start <= lastOk[proc[r].sess]
       /\ (proc[r].pc = "answer" \/ "set" \in proc[r].todo) => proc[r].last <= lastOk[proc[r].sess]

IInv ==
  /\ TypeOK
  /\ Young /\ About /\ Past /\ EntryAlive /\ EntryDoomed /\ SetDoomed /\ ActiveIsUse
  /\ RevocationBounded /\ ExpiryHonoured

-----------------------------------------------------------------------------
(* Every action preserves the invariant. *)

(* CreateBegin preserves the invariant. *)
LEMMA CreateBeginKeeps ==
  ASSUME IInv, NEW r \in Request, NEW s \in Session, CreateBegin(r, s)
  PROVE  IInv'
<1> USE SessionAssumption, DelayAssumption
<1>1. PICK p \in Proc :
        /\ Become(r, p)
        /\ p.pc = "inserting" /\ p.sess = s /\ p.start = now
        /\ p.todo \in {{}, {"del"}}
  <2>1. Begin(r, "inserting", s) \in Proc
    BY DEF IInv, TypeOK, Begin, Proc, PC, Idle, Time
  <2>2. \A v \in Session : [Begin(r, "inserting", s) EXCEPT !.keys = {v}, !.todo = {"del"}] \in Proc
    BY <2>1 DEF Proc, Effect
  <2>3. CASE Cardinality(Active) >= MaxConcurrent
    <3>1. PICK v \in Oldest(Active) :
            Become(r, [Begin(r, "inserting", s) EXCEPT !.keys = {v}, !.todo = {"del"}])
      BY <2>3 DEF CreateBegin
    <3>2. v \in Session
      BY DEF IInv, TypeOK, Oldest, Active
    <3> QED BY <2>2, <3>1, <3>2 DEF Begin, Idle
  <2>4. CASE ~(Cardinality(Active) >= MaxConcurrent)
    BY <2>1, <2>4 DEF CreateBegin, Begin, Idle
  <2> QED BY <2>3, <2>4
<1>2. proc' = [proc EXCEPT ![r] = p]
  BY <1>1 DEF Become
<1>3. /\ s \notin born /\ \A q \in Request : proc[q].sess # s
      /\ UNCHANGED <<now, db, issued, redis, lastOk>>
  BY DEF CreateBegin
<1>4. TypeOK'
  BY <1>1, <1>2, <1>3 DEF IInv, TypeOK, db, redis
<1>5. Young' /\ About'
  BY <1>1, <1>2, <1>3 DEF IInv, TypeOK, Young, About, Free, db, redis, Time
<1>6. Past' /\ EntryAlive' /\ EntryDoomed' /\ RevocationBounded' /\ ExpiryHonoured'
  BY <1>3 DEF IInv, Past, EntryAlive, EntryDoomed, RevocationBounded, ExpiryHonoured, db, redis
<1>7. SetDoomed' /\ ActiveIsUse'
  BY <1>1, <1>2, <1>3 DEF IInv, TypeOK, SetDoomed, ActiveIsUse, db, redis
<1> QED
  BY <1>4, <1>5, <1>6, <1>7 DEF IInv

(* CreateCommit preserves the invariant. *)
LEMMA CreateCommitKeeps ==
  ASSUME IInv, NEW r \in Request, CreateCommit(r)
  PROVE  IInv'
<1> USE SessionAssumption, DelayAssumption
<1>1. TypeOK'
  <2>1. proc[r] \in Proc /\ Idle \in Proc
    BY DEF IInv, TypeOK, Proc, PC, Idle, Time
  <2>2. [proc[r] EXCEPT !.pc = "indexing"] \in Proc
    BY <2>1 DEF IInv, TypeOK, Proc, PC, Effect, Time
  <2>3. proc' \in [Request -> Proc]
    BY <2>1, <2>2 DEF IInv, TypeOK, CreateCommit, Become
  <2> QED BY <2>1, <2>3 DEF IInv, TypeOK, About, CreateCommit, Pass, db, redis,
            Proc, Time
<1>2. Young'
  BY DEF IInv, TypeOK, Young, Free, CreateCommit, Pass, Become, db, redis,
         Proc, PC, Effect, Idle, Time
<1>3. About'
  BY DEF IInv, TypeOK, About, CreateCommit, Pass, Become, db, redis, Proc, PC,
         Effect, Idle, Time
<1>4. Past'
  BY DEF IInv, TypeOK, Past, CreateCommit, Pass, Become, db, redis, Proc, PC,
         Effect, Idle, Time
<1>5. EntryDoomed'
  BY DEF IInv, TypeOK, EntryDoomed, Young, Free, About, EntryAlive, SetDoomed,
         Grace, CreateCommit, Pass, Become, db, redis, Proc, PC, Effect, Idle,
         Time
<1>6. SetDoomed'
  BY DEF IInv, TypeOK, About, SetDoomed, Young, Free, EntryAlive, EntryDoomed,
         Grace, CreateCommit, Pass, Become, db, redis, Proc, PC, Effect, Idle,
         Time
<1>7. ActiveIsUse'
  BY DEF IInv, TypeOK, About, ActiveIsUse, CreateCommit, Pass, Become, db,
         redis, Proc, PC, Effect, Idle, Time
<1>8. RevocationBounded'
  BY DEF IInv, TypeOK, RevocationBounded, Past, EntryAlive, EntryDoomed, About,
         Grace, CreateCommit, Pass, Become, db, redis, Proc, PC, Effect, Idle,
         Time
<1>9. ExpiryHonoured'
  <2>1. PICK s \in Session : s = proc[r].sess /\ s \notin born
    BY DEF IInv, About, CreateCommit
  <2>2. proc[r].start \in Nat /\ now \in Nat /\ now <= proc[r].start + MaxDelay
    BY DEF IInv, TypeOK, Young, Free, CreateCommit, Proc, Time
  <2>3. /\ born' = born \cup {s} /\ lastOk' = [lastOk EXCEPT ![s] = now]
        /\ expiresAt' = [expiresAt EXCEPT ![s] = proc[r].start + Expiry]
    BY <2>1 DEF CreateCommit, Pass
  <2>4. lastOk'[s] < expiresAt'[s] + MaxDelay
    BY <2>1, <2>2, <2>3 DEF IInv, TypeOK, Time
  <2>5. \A x \in born : lastOk'[x] < expiresAt'[x] + MaxDelay
    BY <2>1, <2>3 DEF IInv, TypeOK, ExpiryHonoured
  <2> QED BY <2>3, <2>4, <2>5 DEF ExpiryHonoured
<1>10. EntryAlive'
  BY DEF IInv, EntryAlive, CreateCommit, Pass, db, redis
<1> QED BY <1>1, <1>2, <1>3, <1>4, <1>5, <1>6, <1>7, <1>8, <1>9, <1>10 DEF IInv

(* CreateIndex preserves the invariant. *)
LEMMA CreateIndexKeeps ==
  ASSUME IInv, NEW r \in Request, CreateIndex(r)
  PROVE  IInv'
<1> USE SessionAssumption, DelayAssumption
<1>1. TypeOK'
  <2>1. proc[r] \in Proc /\ Idle \in Proc
    BY DEF IInv, TypeOK, Proc, PC, Idle, Time
  <2>2. [proc[r] EXCEPT !.pc = "done"] \in Proc
    BY <2>1 DEF Proc, PC, Effect, Time
  <2>3. proc' \in [Request -> Proc]
    BY <2>1, <2>2 DEF IInv, TypeOK, CreateIndex, Become
  <2> QED BY <2>1, <2>3 DEF IInv, TypeOK, About, CreateIndex, db, redis, Proc,
            Time
<1>2. Young'
  BY DEF IInv, TypeOK, Young, Free, CreateIndex, Become, db, redis, Proc, PC,
         Effect, Idle, Time
<1>3. About'
  BY DEF IInv, TypeOK, About, CreateIndex, Become, db, redis, Proc, PC, Effect,
         Idle, Time
<1>4. SetDoomed'
  BY DEF IInv, TypeOK, About, SetDoomed, CreateIndex, Become, db, redis, Proc,
         PC, Effect, Idle, Time
<1>5. ActiveIsUse'
  BY DEF IInv, TypeOK, About, ActiveIsUse, CreateIndex, Become, db, redis,
         Proc, PC, Effect, Idle, Time
<1>6. Past' /\ EntryAlive' /\ EntryDoomed' /\ RevocationBounded' /\ ExpiryHonoured'
  BY DEF IInv, Past, EntryAlive, EntryDoomed, RevocationBounded,
         ExpiryHonoured, CreateIndex, db, redis
<1> QED BY <1>1, <1>2, <1>3, <1>4, <1>5, <1>6 DEF IInv

(* Abort preserves the invariant. *)
LEMMA AbortKeeps ==
  ASSUME IInv, NEW r \in Request, Abort(r)
  PROVE  IInv'
<1> USE SessionAssumption, DelayAssumption
<1>1. TypeOK'
  <2>1. proc[r] \in Proc /\ Idle \in Proc
    BY DEF IInv, TypeOK, Proc, PC, Idle, Time
  <2>2. [proc[r] EXCEPT !.pc = "done"] \in Proc
    BY <2>1 DEF Proc, PC, Effect, Time
  <2>3. proc' \in [Request -> Proc]
    BY <2>1, <2>2 DEF IInv, TypeOK, Abort, Become
  <2> QED BY <2>1, <2>3 DEF IInv, TypeOK, About, Abort, db, redis, Proc, Time
<1>2. Young'
  BY DEF IInv, TypeOK, Young, Free, Abort, Become, db, redis, Proc, PC, Effect,
         Idle, Time
<1>3. About'
  BY DEF IInv, TypeOK, About, Abort, Become, db, redis, Proc, PC, Effect, Idle,
         Time
<1>4. SetDoomed'
  BY DEF IInv, TypeOK, About, SetDoomed, Abort, Become, db, redis, Proc, PC,
         Effect, Idle, Time
<1>5. ActiveIsUse'
  BY DEF IInv, TypeOK, About, ActiveIsUse, Abort, Become, db, redis, Proc, PC,
         Effect, Idle, Time
<1>6. Past' /\ EntryAlive' /\ EntryDoomed' /\ RevocationBounded' /\ ExpiryHonoured'
  BY DEF IInv, Past, EntryAlive, EntryDoomed, RevocationBounded,
         ExpiryHonoured, Abort, db, redis
<1> QED BY <1>1, <1>2, <1>3, <1>4, <1>5, <1>6 DEF IInv

(* ValidateStart preserves the invariant. *)
LEMMA ValidateStartKeeps ==
  ASSUME IInv, NEW r \in Request, NEW s \in Session, ValidateStart(r, s)
  PROVE  IInv'
<1> USE SessionAssumption, DelayAssumption
<1>1. TypeOK'
  <2>1. proc[r] \in Proc /\ Idle \in Proc
    BY DEF IInv, TypeOK, Proc, PC, Idle, Time
  <2>2. Begin(r, "get", s) \in Proc
    BY DEF IInv, TypeOK, Begin, Proc, PC, Effect, Idle, Time
  <2>3. proc' \in [Request -> Proc]
    BY <2>1, <2>2 DEF IInv, TypeOK, ValidateStart, Become
  <2> QED BY <2>1, <2>3 DEF IInv, TypeOK, About, ValidateStart, db, redis,
            Proc, Time
<1>2. Young'
  BY DEF IInv, TypeOK, Young, Free, ValidateStart, Begin, Become, db, redis,
         Proc, PC, Effect, Idle, Time
<1>3. About'
  BY DEF IInv, TypeOK, About, ValidateStart, Begin, Become, db, redis, Proc,
         PC, Effect, Idle, Time
<1>4. SetDoomed'
  BY DEF IInv, TypeOK, About, SetDoomed, ValidateStart, Begin, Become, db,
         redis, Proc, PC, Effect, Idle, Time
<1>5. ActiveIsUse'
  BY DEF IInv, TypeOK, About, ActiveIsUse, ValidateStart, Begin, Become, db,
         redis, Proc, PC, Effect, Idle, Time
<1>6. Past' /\ EntryAlive' /\ EntryDoomed' /\ RevocationBounded' /\ ExpiryHonoured'
  BY DEF IInv, Past, EntryAlive, EntryDoomed, RevocationBounded,
         ExpiryHonoured, ValidateStart, db, redis
<1> QED BY <1>1, <1>2, <1>3, <1>4, <1>5, <1>6 DEF IInv

(* HitStale preserves the invariant. *)
LEMMA HitStaleKeeps ==
  ASSUME IInv, NEW r \in Request, HitStale(r)
  PROVE  IInv'
<1> USE SessionAssumption, DelayAssumption
<1>1. TypeOK'
  <2>1. proc[r] \in Proc /\ Idle \in Proc
    BY DEF IInv, TypeOK, Proc, PC, Idle, Time
  <2>2. [proc[r] EXCEPT !.pc = "done", !.keys = {proc[r].sess},
                       !.todo = {"rowdel", "del"}] \in Proc
    BY <2>1, ZenonT(30) DEF IInv, TypeOK, Hit, HitStale, Proc, PC, Effect, Time
  <2>3. proc' \in [Request -> Proc]
    BY <2>1, <2>2 DEF IInv, TypeOK, HitStale, Become
  <2> QED BY <2>1, <2>3 DEF IInv, TypeOK, About, HitStale, Hit, db, redis,
            Proc, Time
<1>2. Young'
  BY DEF IInv, TypeOK, Young, Free, HitStale, Hit, Become, db, redis, Proc, PC,
         Effect, Idle, Time
<1>3. About'
  BY DEF IInv, TypeOK, About, HitStale, Hit, Become, db, redis, Proc, PC,
         Effect, Idle, Time
<1>4. SetDoomed'
  BY DEF IInv, TypeOK, About, SetDoomed, HitStale, Hit, Become, db, redis,
         Proc, PC, Effect, Idle, Time
<1>5. ActiveIsUse'
  BY DEF IInv, TypeOK, About, ActiveIsUse, HitStale, Hit, Become, db, redis,
         Proc, PC, Effect, Idle, Time
<1>6. Past' /\ EntryAlive' /\ EntryDoomed' /\ RevocationBounded' /\ ExpiryHonoured'
  BY DEF IInv, Past, EntryAlive, EntryDoomed, RevocationBounded,
         ExpiryHonoured, HitStale, Hit, db, redis
<1> QED BY <1>1, <1>2, <1>3, <1>4, <1>5, <1>6 DEF IInv

(* HitForeign preserves the invariant. *)
LEMMA HitForeignKeeps ==
  ASSUME IInv, NEW r \in Request, HitForeign(r)
  PROVE  IInv'
<1> USE SessionAssumption, DelayAssumption
<1>1. TypeOK'
  <2>1. proc[r] \in Proc /\ Idle \in Proc
    BY DEF IInv, TypeOK, Proc, PC, Idle, Time
  <2>2. [proc[r] EXCEPT !.pc = "done", !.keys = {proc[r].sess},
                       !.todo = {"del"}] \in Proc
    BY <2>1, ZenonT(30) DEF IInv, TypeOK, Hit, HitForeign, Proc, PC, Effect, Time
  <2>3. proc' \in [Request -> Proc]
    BY <2>1, <2>2 DEF IInv, TypeOK, HitForeign, Become
  <2> QED BY <2>1, <2>3 DEF IInv, TypeOK, About, HitForeign, Hit, db, redis,
            Proc, Time
<1>2. Young'
  BY DEF IInv, TypeOK, Young, Free, HitForeign, Hit, Become, db, redis, Proc,
         PC, Effect, Idle, Time
<1>3. About'
  BY DEF IInv, TypeOK, About, HitForeign, Hit, Become, db, redis, Proc, PC,
         Effect, Idle, Time
<1>4. SetDoomed'
  BY DEF IInv, TypeOK, About, SetDoomed, HitForeign, Hit, Become, db, redis,
         Proc, PC, Effect, Idle, Time
<1>5. ActiveIsUse'
  BY DEF IInv, TypeOK, About, ActiveIsUse, HitForeign, Hit, Become, db, redis,
         Proc, PC, Effect, Idle, Time
<1>6. Past' /\ EntryAlive' /\ EntryDoomed' /\ RevocationBounded' /\ ExpiryHonoured'
  BY DEF IInv, Past, EntryAlive, EntryDoomed, RevocationBounded,
         ExpiryHonoured, HitForeign, Hit, db, redis
<1> QED BY <1>1, <1>2, <1>3, <1>4, <1>5, <1>6 DEF IInv

(* HitFresh preserves the invariant. *)
LEMMA HitFreshKeeps ==
  ASSUME IInv, NEW r \in Request, HitFresh(r)
  PROVE  IInv'
<1> USE SessionAssumption, DelayAssumption
<1>1. TypeOK'
  <2>1. proc[r] \in Proc /\ Idle \in Proc
    BY DEF IInv, TypeOK, Proc, PC, Idle, Time
  <2>2. [proc[r] EXCEPT !.pc = "done"] \in Proc
    BY <2>1 DEF Proc, PC, Effect, Time
  <2>3. [proc[r] EXCEPT !.pc = "done", !.last = proc[r].start,
                       !.todo = {"set", "touch"}] \in Proc
    BY <2>1 DEF Proc, PC, Effect, Time
  <2>4. proc' \in [Request -> Proc]
    BY <2>1, <2>2, <2>3 DEF IInv, TypeOK, HitFresh, Become
  <2> QED BY <2>1, <2>4 DEF IInv, TypeOK, About, HitFresh, Hit, HitUsable,
            RefreshDue, Pass, db, redis, Proc, Time
<1>2. Young'
  BY DEF IInv, TypeOK, Young, Free, HitFresh, Hit, HitUsable, RefreshDue, Pass,
         Become, db, redis, Proc, PC, Effect, Idle, Time
<1>3. About'
  BY DEF IInv, TypeOK, About, HitFresh, Hit, HitUsable, RefreshDue, Pass,
         Become, db, redis, Proc, PC, Effect, Idle, Time
<1>4. Past'
  BY DEF IInv, TypeOK, Past, HitFresh, Hit, HitUsable, RefreshDue, Pass,
         Become, db, redis, Proc, PC, Effect, Idle, Time
<1>5. PICK new :
        /\ proc' = [proc EXCEPT ![r] = new] /\ new.pc = "done"
        /\ \/ new.todo = {}
           \/ /\ new.sess = proc[r].sess /\ new.start = proc[r].start
              /\ \/ new.todo = proc[r].todo /\ new.last = proc[r].last
                 \/ RefreshDue(r) /\ new.todo = {"set", "touch"} /\ new.last = proc[r].start
  <2>1. proc[r] \in Proc
    BY DEF IInv, TypeOK
  <2>2. CASE RefreshDue(r)
    <3> DEFINE p == [proc[r] EXCEPT !.pc = "done", !.last = proc[r].start, !.todo = {"set", "touch"}]
    <3>1. /\ p.pc = "done" /\ p.sess = proc[r].sess /\ p.start = proc[r].start
          /\ p.last = proc[r].start /\ p.todo = {"set", "touch"}
      BY <2>1 DEF Proc
    <3>2. proc' = [proc EXCEPT ![r] = p]
      BY <2>2, <3>1 DEF HitFresh, Become
    <3> QED BY <2>2, <3>1, <3>2
  <2>3. CASE ~RefreshDue(r)
    <3> DEFINE p == [proc[r] EXCEPT !.pc = "done"]
    <3>1. /\ p.pc = "done" /\ p.sess = proc[r].sess /\ p.start = proc[r].start
          /\ p.last = proc[r].last /\ p.todo = proc[r].todo
      BY <2>1 DEF Proc
    <3>2. proc' = [proc EXCEPT ![r] = IF p.todo = {} THEN Idle ELSE p]
      BY <2>3, <3>1 DEF HitFresh, Become
    <3>3. Idle.pc = "done" /\ Idle.todo = {}
      BY DEF Idle
    <3> QED BY <3>1, <3>2, <3>3
  <2> QED BY <2>2, <2>3
<1>6. /\ \A q \in Request : proc'[q] = IF q = r THEN new ELSE proc[q]
      /\ proc[r].sess \in cached /\ proc[r].sess \in Session /\ proc[r].start \in Nat
      /\ proc[r].start <= now /\ now <= proc[r].start + MaxDelay /\ now \in Nat
      /\ UNCHANGED <<now, rows, born, expiresAt, revokedAt, lastActive, issued, cached, entry, index>>
      /\ lastOk' = [lastOk EXCEPT ![proc[r].sess] = now]
  BY <1>5 DEF IInv, TypeOK, Young, About, Free, HitFresh, Hit, Pass, db, redis, Proc, Time, Idle
<1>7. SetDoomed'
  <2> SUFFICES ASSUME NEW q \in Request, proc'[q].sess \notin rows'
               PROVE  /\ proc'[q].pc = "answer" => proc'[q].start <= revokedAt'[proc'[q].sess]
                      /\ "set" \in proc'[q].todo =>
                           \/ proc'[q].start <= revokedAt'[proc'[q].sess]
                           \/ /\ proc'[q].start <= revokedAt'[proc'[q].sess] + MaxDelay + CacheTtl
                              /\ proc'[q].last = proc'[q].start
    BY DEF SetDoomed
  <2>1. CASE q # r
    BY <1>6, <2>1 DEF IInv, SetDoomed
  <2>2. CASE q = r /\ new.todo # {}
    <3>1. proc'[r] = new /\ new.pc = "done" /\ new.sess = proc[r].sess /\ new.start = proc[r].start
      BY <1>5, <1>6, <2>2
    <3>2. CASE new.todo = proc[r].todo /\ new.last = proc[r].last
      BY <1>6, <2>2, <3>1, <3>2 DEF IInv, SetDoomed
    <3>3. CASE RefreshDue(r) /\ new.last = proc[r].start
      <4>1. /\ entry[proc[r].sess].lastActive \in Nat /\ entry[proc[r].sess].evictAt \in Nat
            /\ revokedAt[proc[r].sess] \in Nat
        BY <1>6 DEF IInv, TypeOK, Time
      <4>2. now <= entry[proc[r].sess].evictAt /\ proc[r].start > entry[proc[r].sess].lastActive + ActiveInterval
        BY <1>6, <3>3 DEF IInv, EntryAlive, RefreshDue
      <4>3. \/ entry[proc[r].sess].evictAt <= revokedAt[proc[r].sess] + MaxDelay + CacheTtl
            \/ entry[proc[r].sess].evictAt <= entry[proc[r].sess].lastActive + MaxDelay + CacheTtl
        BY <1>6, <2>2, <3>1 DEF IInv, EntryDoomed
      <4>4. proc[r].start <= revokedAt[proc[r].sess] + MaxDelay + CacheTtl
        BY <1>6, <4>1, <4>2, <4>3
      <4> QED BY <1>6, <2>2, <3>1, <3>3, <4>4
    <3> QED BY <1>5, <2>2, <3>2, <3>3
  <2>3. CASE q = r /\ new.todo = {}
    BY <1>5, <1>6, <2>3
  <2> QED BY <2>1, <2>2, <2>3
<1>8. ActiveIsUse'
  <2>1. /\ \A s \in Session : lastOk'[s] \in Nat /\ lastOk[s] \in Nat /\ lastOk[s] <= lastOk'[s]
        /\ lastOk'[proc[r].sess] = now
    BY <1>6 DEF IInv, TypeOK, Past, Time
  <2>2. \A s \in born : lastActive'[s] <= lastOk'[s]
    BY <1>6, <2>1 DEF IInv, TypeOK, ActiveIsUse, Time
  <2>3. \A s \in cached : entry'[s].lastActive <= lastOk'[s]
    BY <1>6, <2>1 DEF IInv, TypeOK, ActiveIsUse, Time
  <2>4. ASSUME NEW q \in Request
        PROVE  /\ "touch" \in proc'[q].todo => proc'[q].start <= lastOk'[proc'[q].sess]
               /\ proc'[q].pc = "answer" \/ "set" \in proc'[q].todo => proc'[q].last <= lastOk'[proc'[q].sess]
    <3>0. /\ "touch" \in proc[q].todo => proc[q].start <= lastOk[proc[q].sess]
          /\ proc[q].pc = "answer" \/ "set" \in proc[q].todo => proc[q].last <= lastOk[proc[q].sess]
          /\ proc[q].start \in Nat /\ proc[q].last \in Nat
          /\ proc[q].pc = "answer" \/ proc[q].todo \cap {"set", "touch"} # {} => proc[q].sess \in Session
      BY DEF IInv, TypeOK, ActiveIsUse, About, Proc, Time
    <3>1. CASE q # r
      BY <1>6, <2>1, <3>0, <3>1
    <3>2. CASE q = r
      BY <1>5, <1>6, <2>1, <3>0, <3>2
    <3> QED BY <3>1, <3>2
  <2> QED BY <1>6, <2>2, <2>3, <2>4 DEF ActiveIsUse
<1>9. RevocationBounded'
  BY DEF IInv, TypeOK, RevocationBounded, Past, EntryAlive, EntryDoomed, About,
         Grace, HitFresh, Hit, HitUsable, RefreshDue, Pass, Become, db, redis,
         Proc, PC, Effect, Idle, Time
<1>10. ExpiryHonoured'
  BY DEF IInv, TypeOK, ExpiryHonoured, Young, Free, About, HitFresh, Hit,
         HitUsable, RefreshDue, Pass, Become, db, redis, Proc, PC, Effect,
         Idle, Time
<1>11. EntryAlive' /\ EntryDoomed'
  BY DEF IInv, EntryAlive, EntryDoomed, HitFresh, Hit, HitUsable, RefreshDue,
         Pass, db, redis
<1> QED BY <1>1, <1>2, <1>3, <1>4, <1>7, <1>8, <1>9, <1>10, <1>11 DEF IInv

(* Miss preserves the invariant. *)
LEMMA MissKeeps ==
  ASSUME IInv, NEW r \in Request, Miss(r)
  PROVE  IInv'
<1> USE SessionAssumption, DelayAssumption
<1>1. TypeOK'
  <2>1. proc[r] \in Proc /\ Idle \in Proc
    BY DEF IInv, TypeOK, Proc, PC, Idle, Time
  <2>2. [proc[r] EXCEPT !.pc = "find"] \in Proc
    BY <2>1 DEF Proc, PC, Effect, Time
  <2>3. proc' \in [Request -> Proc]
    BY <2>1, <2>2 DEF IInv, TypeOK, Miss, Become
  <2> QED BY <2>1, <2>3 DEF IInv, TypeOK, About, Miss, db, redis, Proc, Time
<1>2. Young'
  BY DEF IInv, TypeOK, Young, Free, Miss, Become, db, redis, Proc, PC, Effect,
         Idle, Time
<1>3. About'
  BY DEF IInv, TypeOK, About, Miss, Become, db, redis, Proc, PC, Effect, Idle,
         Time
<1>4. SetDoomed'
  BY DEF IInv, TypeOK, About, SetDoomed, Miss, Become, db, redis, Proc, PC,
         Effect, Idle, Time
<1>5. ActiveIsUse'
  BY DEF IInv, TypeOK, About, ActiveIsUse, Miss, Become, db, redis, Proc, PC,
         Effect, Idle, Time
<1>6. Past' /\ EntryAlive' /\ EntryDoomed' /\ RevocationBounded' /\ ExpiryHonoured'
  BY DEF IInv, Past, EntryAlive, EntryDoomed, RevocationBounded,
         ExpiryHonoured, Miss, db, redis
<1> QED BY <1>1, <1>2, <1>3, <1>4, <1>5, <1>6 DEF IInv

(* FindReject preserves the invariant. *)
LEMMA FindRejectKeeps ==
  ASSUME IInv, NEW r \in Request, FindReject(r)
  PROVE  IInv'
<1> USE SessionAssumption, DelayAssumption
<1>1. TypeOK'
  <2>1. proc[r] \in Proc /\ Idle \in Proc
    BY DEF IInv, TypeOK, Proc, PC, Idle, Time
  <2>2. [proc[r] EXCEPT !.pc = "done"] \in Proc
    BY <2>1 DEF Proc, PC, Effect, Time
  <2>3. proc' \in [Request -> Proc]
    BY <2>1, <2>2 DEF IInv, TypeOK, FindReject, Become
  <2> QED BY <2>1, <2>3 DEF IInv, TypeOK, About, FindReject, db, redis, Proc,
            Time
<1>2. Young'
  BY DEF IInv, TypeOK, Young, Free, FindReject, Become, db, redis, Proc, PC,
         Effect, Idle, Time
<1>3. About'
  BY DEF IInv, TypeOK, About, FindReject, Become, db, redis, Proc, PC, Effect,
         Idle, Time
<1>4. SetDoomed'
  BY DEF IInv, TypeOK, About, SetDoomed, FindReject, Become, db, redis, Proc,
         PC, Effect, Idle, Time
<1>5. ActiveIsUse'
  BY DEF IInv, TypeOK, About, ActiveIsUse, FindReject, Become, db, redis, Proc,
         PC, Effect, Idle, Time
<1>6. Past' /\ EntryAlive' /\ EntryDoomed' /\ RevocationBounded' /\ ExpiryHonoured'
  BY DEF IInv, Past, EntryAlive, EntryDoomed, RevocationBounded,
         ExpiryHonoured, FindReject, db, redis
<1> QED BY <1>1, <1>2, <1>3, <1>4, <1>5, <1>6 DEF IInv

(* FindStale preserves the invariant. *)
LEMMA FindStaleKeeps ==
  ASSUME IInv, NEW r \in Request, FindStale(r)
  PROVE  IInv'
<1> USE SessionAssumption, DelayAssumption
<1>1. TypeOK'
  <2>1. proc[r] \in Proc /\ Idle \in Proc
    BY DEF IInv, TypeOK, Proc, PC, Idle, Time
  <2>2. [proc[r] EXCEPT !.pc = "done", !.todo = {"rowdel"}] \in Proc
    BY <2>1 DEF Proc, PC, Effect, Time
  <2>3. proc' \in [Request -> Proc]
    BY <2>1, <2>2 DEF IInv, TypeOK, FindStale, Become
  <2> QED BY <2>1, <2>3 DEF IInv, TypeOK, About, FindStale, db, redis, Proc,
            Time
<1>2. Young'
  BY DEF IInv, TypeOK, Young, Free, FindStale, Become, db, redis, Proc, PC,
         Effect, Idle, Time
<1>3. About'
  BY DEF IInv, TypeOK, About, FindStale, Become, db, redis, Proc, PC, Effect,
         Idle, Time
<1>4. SetDoomed'
  BY DEF IInv, TypeOK, About, SetDoomed, FindStale, Become, db, redis, Proc,
         PC, Effect, Idle, Time
<1>5. ActiveIsUse'
  BY DEF IInv, TypeOK, About, ActiveIsUse, FindStale, Become, db, redis, Proc,
         PC, Effect, Idle, Time
<1>6. Past' /\ EntryAlive' /\ EntryDoomed' /\ RevocationBounded' /\ ExpiryHonoured'
  BY DEF IInv, Past, EntryAlive, EntryDoomed, RevocationBounded,
         ExpiryHonoured, FindStale, db, redis
<1> QED BY <1>1, <1>2, <1>3, <1>4, <1>5, <1>6 DEF IInv

(* FindLive preserves the invariant. *)
LEMMA FindLiveKeeps ==
  ASSUME IInv, NEW r \in Request, FindLive(r)
  PROVE  IInv'
<1> USE SessionAssumption, DelayAssumption
<1>1. TypeOK'
  <2>1. proc[r] \in Proc /\ Idle \in Proc
    BY DEF IInv, TypeOK, Proc, PC, Idle, Time
  <2>2. [proc[r] EXCEPT !.pc = "answer", !.last = proc[r].start,
                       !.todo = {"touch"}] \in Proc
    BY <2>1 DEF IInv, TypeOK, FindLive, Proc, PC, Effect, Time
  <2>3. [proc[r] EXCEPT !.pc = "answer", !.last = lastActive[proc[r].sess]] \in Proc
    BY <2>1 DEF IInv, TypeOK, FindLive, Proc, PC, Effect, Time
  <2>4. proc' \in [Request -> Proc]
    BY <2>1, <2>2, <2>3 DEF IInv, TypeOK, FindLive, Become
  <2> QED BY <2>1, <2>4 DEF IInv, TypeOK, About, FindLive, RowUsable, TouchDue,
            Pass, db, redis, Proc, Time
<1>2. Young'
  BY DEF IInv, TypeOK, Young, Free, FindLive, RowUsable, TouchDue, Pass,
         Become, db, redis, Proc, PC, Effect, Idle, Time
<1>3. About'
  BY DEF IInv, TypeOK, About, FindLive, RowUsable, TouchDue, Pass, Become, db,
         redis, Proc, PC, Effect, Idle, Time
<1>4. Past'
  BY DEF IInv, TypeOK, Past, FindLive, RowUsable, TouchDue, Pass, Become, db,
         redis, Proc, PC, Effect, Idle, Time
<1>5. SetDoomed'
  BY DEF IInv, TypeOK, About, SetDoomed, FindLive, RowUsable, TouchDue, Pass,
         Become, db, redis, Proc, PC, Effect, Idle, Time
<1>6. ActiveIsUse'
  BY DEF IInv, TypeOK, About, ActiveIsUse, Past, Young, EntryAlive,
         EntryDoomed, SetDoomed, RevocationBounded, ExpiryHonoured, Free,
         FindLive, RowUsable, TouchDue, Pass, Become, db, redis, Proc, PC,
         Effect, Idle, Time
<1>7. RevocationBounded'
  BY DEF IInv, TypeOK, RevocationBounded, FindLive, RowUsable, TouchDue, Pass,
         Become, db, redis, Proc, PC, Effect, Idle, Time
<1>8. ExpiryHonoured'
  BY DEF IInv, TypeOK, ExpiryHonoured, Young, Free, About, FindLive, RowUsable,
         TouchDue, Pass, Become, db, redis, Proc, PC, Effect, Idle, Time
<1>9. EntryAlive' /\ EntryDoomed'
  BY DEF IInv, EntryAlive, EntryDoomed, FindLive, RowUsable, TouchDue, Pass,
         db, redis
<1> QED BY <1>1, <1>2, <1>3, <1>4, <1>5, <1>6, <1>7, <1>8, <1>9 DEF IInv

(* Answer preserves the invariant. *)
LEMMA AnswerKeeps ==
  ASSUME IInv, NEW r \in Request, Answer(r)
  PROVE  IInv'
<1> USE SessionAssumption, DelayAssumption
<1>1. TypeOK'
  <2>1. proc[r] \in Proc /\ Idle \in Proc
    BY DEF IInv, TypeOK, Proc, PC, Idle, Time
  <2>2. [proc[r] EXCEPT !.pc = "done", !.todo = {"set"}] \in Proc
    BY <2>1 DEF Proc, PC, Effect, Time
  <2>3. proc' \in [Request -> Proc]
    BY <2>1, <2>2 DEF IInv, TypeOK, Answer, Become
  <2> QED BY <2>1, <2>3 DEF IInv, TypeOK, About, Answer, db, redis, Proc, Time
<1>2. Young'
  BY DEF IInv, TypeOK, Young, Free, Answer, Become, db, redis, Proc, PC,
         Effect, Idle, Time
<1>3. About'
  BY DEF IInv, TypeOK, About, Answer, Become, db, redis, Proc, PC, Effect,
         Idle, Time
<1>4. SetDoomed'
  BY DEF IInv, TypeOK, About, SetDoomed, Answer, Become, db, redis, Proc, PC,
         Effect, Idle, Time
<1>5. ActiveIsUse'
  BY DEF IInv, TypeOK, About, ActiveIsUse, Answer, Become, db, redis, Proc, PC,
         Effect, Idle, Time
<1>6. Past' /\ EntryAlive' /\ EntryDoomed' /\ RevocationBounded' /\ ExpiryHonoured'
  BY DEF IInv, Past, EntryAlive, EntryDoomed, RevocationBounded,
         ExpiryHonoured, Answer, db, redis
<1> QED BY <1>1, <1>2, <1>3, <1>4, <1>5, <1>6 DEF IInv

(* DoSet preserves the invariant. *)
LEMMA DoSetKeeps ==
  ASSUME IInv, NEW r \in Request, DoSet(r)
  PROVE  IInv'
<1> USE SessionAssumption, DelayAssumption
<1>1. TypeOK'
  <2>1. proc[r] \in Proc /\ Idle \in Proc
    BY DEF IInv, TypeOK, Proc, PC, Idle, Time
  <2>2. [proc[r] EXCEPT !.todo = @ \ {"set"}] \in Proc
    BY <2>1 DEF Proc, PC, Effect, Time
  <2>3. proc' \in [Request -> Proc]
    BY <2>1, <2>2 DEF IInv, TypeOK, DoSet, Settle, Become
  <2> QED BY <2>1, <2>3 DEF IInv, TypeOK, About, DoSet, Settle, db, redis,
            Proc, Time
<1>2. Young'
  BY DEF IInv, TypeOK, Young, Free, DoSet, Settle, Become, db, redis, Proc, PC,
         Effect, Idle, Time
<1>3. About'
  BY DEF IInv, TypeOK, About, DoSet, Settle, Become, db, redis, Proc, PC,
         Effect, Idle, Time
<1>4. EntryAlive'
  BY DEF IInv, TypeOK, EntryAlive, Young, Free, About, Past, EntryDoomed,
         SetDoomed, ActiveIsUse, RevocationBounded, ExpiryHonoured, DoSet,
         Settle, Become, db, redis, Proc, PC, Effect, Idle, Time
<1>5. EntryDoomed'
  BY DEF IInv, TypeOK, EntryDoomed, Young, Free, About, EntryAlive, SetDoomed,
         Grace, DoSet, Settle, Become, db, redis, Proc, PC, Effect, Idle, Time
<1>6. SetDoomed'
  BY DEF IInv, TypeOK, About, SetDoomed, DoSet, Settle, Become, db, redis,
         Proc, PC, Effect, Idle, Time
<1>7. ActiveIsUse'
  BY DEF IInv, TypeOK, About, ActiveIsUse, DoSet, Settle, Become, db, redis,
         Proc, PC, Effect, Idle, Time
<1>8. Past' /\ RevocationBounded' /\ ExpiryHonoured'
  BY DEF IInv, Past, RevocationBounded, ExpiryHonoured, DoSet, Settle, db,
         redis
<1> QED BY <1>1, <1>2, <1>3, <1>4, <1>5, <1>6, <1>7, <1>8 DEF IInv

(* DoTouch preserves the invariant. *)
LEMMA DoTouchKeeps ==
  ASSUME IInv, NEW r \in Request, DoTouch(r)
  PROVE  IInv'
<1> USE SessionAssumption, DelayAssumption
<1>1. TypeOK'
  <2>1. proc[r] \in Proc /\ Idle \in Proc
    BY DEF IInv, TypeOK, Proc, PC, Idle, Time
  <2>2. [proc[r] EXCEPT !.todo = @ \ {"touch"}] \in Proc
    BY <2>1 DEF Proc, PC, Effect, Time
  <2>3. proc' \in [Request -> Proc]
    BY <2>1, <2>2 DEF IInv, TypeOK, DoTouch, Settle, Become
  <2> QED BY <2>1, <2>3 DEF IInv, TypeOK, About, DoTouch, Settle, db, redis,
            Proc, Time
<1>2. Young'
  BY DEF IInv, TypeOK, Young, Free, DoTouch, Settle, Become, db, redis, Proc,
         PC, Effect, Idle, Time
<1>3. About'
  BY DEF IInv, TypeOK, About, DoTouch, Settle, Become, db, redis, Proc, PC,
         Effect, Idle, Time
<1>4. SetDoomed'
  BY DEF IInv, TypeOK, About, SetDoomed, DoTouch, Settle, Become, db, redis,
         Proc, PC, Effect, Idle, Time
<1>5. ActiveIsUse'
  BY DEF IInv, TypeOK, About, ActiveIsUse, DoTouch, Settle, Become, db, redis,
         Proc, PC, Effect, Idle, Time
<1>6. Past' /\ EntryAlive' /\ EntryDoomed' /\ RevocationBounded' /\ ExpiryHonoured'
  BY DEF IInv, Past, EntryAlive, EntryDoomed, RevocationBounded,
         ExpiryHonoured, DoTouch, Settle, db, redis
<1> QED BY <1>1, <1>2, <1>3, <1>4, <1>5, <1>6 DEF IInv

(* DoDel preserves the invariant. *)
LEMMA DoDelKeeps ==
  ASSUME IInv, NEW r \in Request, DoDel(r)
  PROVE  IInv'
<1> USE SessionAssumption, DelayAssumption
<1>1. TypeOK'
  <2>1. proc[r] \in Proc /\ Idle \in Proc
    BY DEF IInv, TypeOK, Proc, PC, Idle, Time
  <2>2. [proc[r] EXCEPT !.todo = @ \ {"del"}] \in Proc
    BY <2>1 DEF Proc, PC, Effect, Time
  <2>3. proc' \in [Request -> Proc]
    BY <2>1, <2>2 DEF IInv, TypeOK, DoDel, Settle, Become
  <2> QED BY <2>1, <2>3 DEF IInv, TypeOK, About, DoDel, Settle, DropKeys,
            Empty, db, redis, Proc, Time
<1>2. Young'
  BY DEF IInv, TypeOK, Young, Free, DoDel, Settle, DropKeys, Empty, Become, db,
         redis, Proc, PC, Effect, Idle, Time
<1>3. About'
  BY DEF IInv, TypeOK, About, DoDel, Settle, DropKeys, Empty, Become, db,
         redis, Proc, PC, Effect, Idle, Time
<1>4. EntryAlive'
  BY DEF IInv, TypeOK, EntryAlive, DoDel, Settle, DropKeys, Empty, Become, db,
         redis, Proc, PC, Effect, Idle, Time
<1>5. EntryDoomed'
  BY DEF IInv, TypeOK, EntryDoomed, DoDel, Settle, DropKeys, Empty, Become, db,
         redis, Proc, PC, Effect, Idle, Time
<1>6. SetDoomed'
  BY DEF IInv, TypeOK, About, SetDoomed, DoDel, Settle, DropKeys, Empty,
         Become, db, redis, Proc, PC, Effect, Idle, Time
<1>7. ActiveIsUse'
  BY DEF IInv, TypeOK, About, ActiveIsUse, DoDel, Settle, DropKeys, Empty,
         Become, db, redis, Proc, PC, Effect, Idle, Time
<1>8. Past' /\ RevocationBounded' /\ ExpiryHonoured'
  BY DEF IInv, Past, RevocationBounded, ExpiryHonoured, DoDel, Settle,
         DropKeys, Empty, db, redis
<1> QED BY <1>1, <1>2, <1>3, <1>4, <1>5, <1>6, <1>7, <1>8 DEF IInv

(* DoRowDel preserves the invariant. *)
LEMMA DoRowDelKeeps ==
  ASSUME IInv, NEW r \in Request, DoRowDel(r)
  PROVE  IInv'
<1> USE SessionAssumption, DelayAssumption
<1>1. TypeOK'
  <2>1. proc[r] \in Proc /\ Idle \in Proc
    BY DEF IInv, TypeOK, Proc, PC, Idle, Time
  <2>2. [proc[r] EXCEPT !.todo = @ \ {"rowdel"}] \in Proc
    BY <2>1 DEF Proc, PC, Effect, Time
  <2>3. proc' \in [Request -> Proc]
    BY <2>1, <2>2 DEF IInv, TypeOK, DoRowDel, Settle, Become
  <2> QED BY <2>1, <2>3 DEF IInv, TypeOK, About, DoRowDel, Settle, Delete, db,
            redis, Proc, Time
<1>2. Young'
  BY DEF IInv, TypeOK, Young, Free, DoRowDel, Settle, Delete, Become, db,
         redis, Proc, PC, Effect, Idle, Time
<1>3. About'
  BY DEF IInv, TypeOK, About, DoRowDel, Settle, Delete, Become, db, redis,
         Proc, PC, Effect, Idle, Time
<1>4. Past'
  BY DEF IInv, TypeOK, Past, DoRowDel, Settle, Delete, Become, db, redis, Proc,
         PC, Effect, Idle, Time
<1>5. EntryDoomed'
  BY DEF IInv, TypeOK, EntryDoomed, Young, Free, About, EntryAlive, SetDoomed,
         Grace, DoRowDel, Settle, Delete, Become, db, redis, Proc, PC, Effect,
         Idle, Time
<1>6. SetDoomed'
  BY DEF IInv, TypeOK, About, SetDoomed, Young, Free, EntryAlive, EntryDoomed,
         Grace, DoRowDel, Settle, Delete, Become, db, redis, Proc, PC, Effect,
         Idle, Time
<1>7. ActiveIsUse'
  BY DEF IInv, TypeOK, About, ActiveIsUse, DoRowDel, Settle, Delete, Become,
         db, redis, Proc, PC, Effect, Idle, Time
<1>8. RevocationBounded'
  BY DEF IInv, TypeOK, RevocationBounded, Past, EntryAlive, EntryDoomed, About,
         Grace, DoRowDel, Settle, Delete, Become, db, redis, Proc, PC, Effect,
         Idle, Time
<1>9. EntryAlive' /\ ExpiryHonoured'
  BY DEF IInv, EntryAlive, ExpiryHonoured, DoRowDel, Settle, Delete, db, redis
<1> QED BY <1>1, <1>2, <1>3, <1>4, <1>5, <1>6, <1>7, <1>8, <1>9 DEF IInv

(* Lose preserves the invariant. *)
LEMMA LoseKeeps ==
  ASSUME IInv, NEW r \in Request, NEW e \in Effect, Lose(r, e)
  PROVE  IInv'
<1> USE SessionAssumption, DelayAssumption
<1>1. TypeOK'
  <2>1. proc[r] \in Proc /\ Idle \in Proc
    BY DEF IInv, TypeOK, Proc, PC, Idle, Time
  <2>2. [proc[r] EXCEPT !.todo = @ \ {e}] \in Proc
    BY <2>1 DEF Proc, PC, Effect, Time
  <2>3. proc' \in [Request -> Proc]
    BY <2>1, <2>2 DEF IInv, TypeOK, Lose, Settle, Become
  <2> QED BY <2>1, <2>3 DEF IInv, TypeOK, About, Lose, Settle, db, redis, Proc,
            Time
<1>2. Young'
  BY DEF IInv, TypeOK, Young, Free, Lose, Settle, Become, db, redis, Proc, PC,
         Effect, Idle, Time
<1>3. About'
  BY DEF IInv, TypeOK, About, Lose, Settle, Become, db, redis, Proc, PC,
         Effect, Idle, Time
<1>4. SetDoomed'
  BY DEF IInv, TypeOK, About, SetDoomed, Lose, Settle, Become, db, redis, Proc,
         PC, Effect, Idle, Time
<1>5. ActiveIsUse'
  BY DEF IInv, TypeOK, About, ActiveIsUse, Lose, Settle, Become, db, redis,
         Proc, PC, Effect, Idle, Time
<1>6. Past' /\ EntryAlive' /\ EntryDoomed' /\ RevocationBounded' /\ ExpiryHonoured'
  BY DEF IInv, Past, EntryAlive, EntryDoomed, RevocationBounded,
         ExpiryHonoured, Lose, Settle, db, redis
<1> QED BY <1>1, <1>2, <1>3, <1>4, <1>5, <1>6 DEF IInv

(* RevokeSession preserves the invariant. *)
LEMMA RevokeSessionKeeps ==
  ASSUME IInv, NEW r \in Request, NEW s \in Session, RevokeSession(r, s)
  PROVE  IInv'
<1> USE SessionAssumption, DelayAssumption
<1>1. TypeOK'
  <2>1. proc[r] \in Proc /\ Idle \in Proc
    BY DEF IInv, TypeOK, Proc, PC, Idle, Time
  <2>2. [Begin(r, "done", s) EXCEPT !.keys = {s}, !.todo = {"del"}] \in Proc
    BY DEF IInv, TypeOK, Begin, Proc, PC, Effect, Idle, Time
  <2>3. proc' \in [Request -> Proc]
    BY <2>1, <2>2 DEF IInv, TypeOK, RevokeSession, Become
  <2> QED BY <2>1, <2>3 DEF IInv, TypeOK, About, RevokeSession, Delete, db,
            redis, Proc, Time
<1>2. Young'
  BY DEF IInv, TypeOK, Young, Free, RevokeSession, Begin, Delete, Become, db,
         redis, Proc, PC, Effect, Idle, Time
<1>3. About'
  BY DEF IInv, TypeOK, About, RevokeSession, Begin, Delete, Become, db, redis,
         Proc, PC, Effect, Idle, Time
<1>4. Past'
  BY DEF IInv, TypeOK, Past, RevokeSession, Begin, Delete, Become, db, redis,
         Proc, PC, Effect, Idle, Time
<1>5. EntryDoomed'
  BY DEF IInv, TypeOK, EntryDoomed, Young, Free, About, EntryAlive, SetDoomed,
         Grace, RevokeSession, Begin, Delete, Become, db, redis, Proc, PC,
         Effect, Idle, Time
<1>6. SetDoomed'
  BY DEF IInv, TypeOK, About, SetDoomed, Young, Free, EntryAlive, EntryDoomed,
         Grace, RevokeSession, Begin, Delete, Become, db, redis, Proc, PC,
         Effect, Idle, Time
<1>7. ActiveIsUse'
  BY DEF IInv, TypeOK, About, ActiveIsUse, RevokeSession, Begin, Delete,
         Become, db, redis, Proc, PC, Effect, Idle, Time
<1>8. RevocationBounded'
  BY DEF IInv, TypeOK, RevocationBounded, Past, EntryAlive, EntryDoomed, About,
         Grace, RevokeSession, Begin, Delete, Become, db, redis, Proc, PC,
         Effect, Idle, Time
<1>9. EntryAlive' /\ ExpiryHonoured'
  BY DEF IInv, EntryAlive, ExpiryHonoured, RevokeSession, Delete, db, redis
<1> QED BY <1>1, <1>2, <1>3, <1>4, <1>5, <1>6, <1>7, <1>8, <1>9 DEF IInv

(* RevokeAll preserves the invariant. *)
LEMMA RevokeAllKeeps ==
  ASSUME IInv, NEW r \in Request, RevokeAll(r)
  PROVE  IInv'
<1> USE SessionAssumption, DelayAssumption
<1>1. TypeOK'
  <2>1. proc[r] \in Proc /\ Idle \in Proc
    BY DEF IInv, TypeOK, Proc, PC, Idle, Time
  <2>2. Begin(r, "members", Nobody) \in Proc
    BY DEF IInv, TypeOK, Begin, Proc, PC, Effect, Idle, Time
  <2>3. proc' \in [Request -> Proc]
    BY <2>1, <2>2 DEF IInv, TypeOK, RevokeAll, Become
  <2> QED BY <2>1, <2>3 DEF IInv, TypeOK, About, RevokeAll, Delete, db, redis,
            Proc, Time
<1>2. Young'
  BY DEF IInv, TypeOK, Young, Free, RevokeAll, Begin, Delete, Become, db,
         redis, Proc, PC, Effect, Idle, Time
<1>3. About'
  BY DEF IInv, TypeOK, About, RevokeAll, Begin, Delete, Become, db, redis,
         Proc, PC, Effect, Idle, Time
<1>4. Past'
  BY DEF IInv, TypeOK, Past, RevokeAll, Begin, Delete, Become, db, redis, Proc,
         PC, Effect, Idle, Time
<1>5. EntryDoomed'
  BY DEF IInv, TypeOK, EntryDoomed, Young, Free, About, EntryAlive, SetDoomed,
         Grace, RevokeAll, Begin, Delete, Become, db, redis, Proc, PC, Effect,
         Idle, Time
<1>6. SetDoomed'
  BY DEF IInv, TypeOK, About, SetDoomed, Young, Free, EntryAlive, EntryDoomed,
         Grace, RevokeAll, Begin, Delete, Become, db, redis, Proc, PC, Effect,
         Idle, Time
<1>7. ActiveIsUse'
  BY DEF IInv, TypeOK, About, ActiveIsUse, RevokeAll, Begin, Delete, Become,
         db, redis, Proc, PC, Effect, Idle, Time
<1>8. RevocationBounded'
  BY DEF IInv, TypeOK, RevocationBounded, Past, EntryAlive, EntryDoomed, About,
         Grace, RevokeAll, Begin, Delete, Become, db, redis, Proc, PC, Effect,
         Idle, Time
<1>9. EntryAlive' /\ ExpiryHonoured'
  BY DEF IInv, EntryAlive, ExpiryHonoured, RevokeAll, Delete, db, redis
<1> QED BY <1>1, <1>2, <1>3, <1>4, <1>5, <1>6, <1>7, <1>8, <1>9 DEF IInv

(* RevokeMembers preserves the invariant. *)
LEMMA RevokeMembersKeeps ==
  ASSUME IInv, NEW r \in Request, RevokeMembers(r)
  PROVE  IInv'
<1> USE SessionAssumption, DelayAssumption
<1>1. TypeOK'
  <2>1. proc[r] \in Proc /\ Idle \in Proc
    BY DEF IInv, TypeOK, Proc, PC, Idle, Time
  <2>2. [proc[r] EXCEPT !.pc = "flush", !.keys = index] \in Proc
    BY <2>1 DEF IInv, TypeOK, Proc, PC, Effect, Time
  <2>3. proc' \in [Request -> Proc]
    BY <2>1, <2>2 DEF IInv, TypeOK, RevokeMembers, Become
  <2> QED BY <2>1, <2>3 DEF IInv, TypeOK, About, RevokeMembers, db, redis,
            Proc, Time
<1>2. Young'
  BY DEF IInv, TypeOK, Young, Free, RevokeMembers, Become, db, redis, Proc, PC,
         Effect, Idle, Time
<1>3. About'
  BY DEF IInv, TypeOK, About, RevokeMembers, Become, db, redis, Proc, PC,
         Effect, Idle, Time
<1>4. SetDoomed'
  BY DEF IInv, TypeOK, About, SetDoomed, RevokeMembers, Become, db, redis,
         Proc, PC, Effect, Idle, Time
<1>5. ActiveIsUse'
  BY DEF IInv, TypeOK, About, ActiveIsUse, RevokeMembers, Become, db, redis,
         Proc, PC, Effect, Idle, Time
<1>6. Past' /\ EntryAlive' /\ EntryDoomed' /\ RevocationBounded' /\ ExpiryHonoured'
  BY DEF IInv, Past, EntryAlive, EntryDoomed, RevocationBounded,
         ExpiryHonoured, RevokeMembers, db, redis
<1> QED BY <1>1, <1>2, <1>3, <1>4, <1>5, <1>6 DEF IInv

(* RevokeFlush preserves the invariant. *)
LEMMA RevokeFlushKeeps ==
  ASSUME IInv, NEW r \in Request, RevokeFlush(r)
  PROVE  IInv'
<1> USE SessionAssumption, DelayAssumption
<1>1. TypeOK'
  <2>1. proc[r] \in Proc /\ Idle \in Proc
    BY DEF IInv, TypeOK, Proc, PC, Idle, Time
  <2>2. [proc[r] EXCEPT !.pc = "done"] \in Proc
    BY <2>1 DEF Proc, PC, Effect, Time
  <2>3. proc' \in [Request -> Proc]
    BY <2>1, <2>2 DEF IInv, TypeOK, RevokeFlush, Become
  <2> QED BY <2>1, <2>3 DEF IInv, TypeOK, About, RevokeFlush, DropKeys, Empty,
            db, redis, Proc, Time
<1>2. Young'
  BY DEF IInv, TypeOK, Young, Free, RevokeFlush, DropKeys, Empty, Become, db,
         redis, Proc, PC, Effect, Idle, Time
<1>3. About'
  BY DEF IInv, TypeOK, About, RevokeFlush, DropKeys, Empty, Become, db, redis,
         Proc, PC, Effect, Idle, Time
<1>4. EntryAlive'
  BY DEF IInv, TypeOK, EntryAlive, RevokeFlush, DropKeys, Empty, Become, db,
         redis, Proc, PC, Effect, Idle, Time
<1>5. EntryDoomed'
  BY DEF IInv, TypeOK, EntryDoomed, RevokeFlush, DropKeys, Empty, Become, db,
         redis, Proc, PC, Effect, Idle, Time
<1>6. SetDoomed'
  BY DEF IInv, TypeOK, About, SetDoomed, RevokeFlush, DropKeys, Empty, Become,
         db, redis, Proc, PC, Effect, Idle, Time
<1>7. ActiveIsUse'
  BY DEF IInv, TypeOK, About, ActiveIsUse, RevokeFlush, DropKeys, Empty,
         Become, db, redis, Proc, PC, Effect, Idle, Time
<1>8. Past' /\ RevocationBounded' /\ ExpiryHonoured'
  BY DEF IInv, Past, RevocationBounded, ExpiryHonoured, RevokeFlush, DropKeys,
         Empty, db, redis
<1> QED BY <1>1, <1>2, <1>3, <1>4, <1>5, <1>6, <1>7, <1>8 DEF IInv

(* PasswordChanged preserves the invariant. *)
LEMMA PasswordChangedKeeps ==
  ASSUME IInv, NEW keep \in SUBSET Session, PasswordChanged(keep)
  PROVE  IInv'
<1> USE SessionAssumption, DelayAssumption
<1>1. TypeOK'
  BY DEF IInv, TypeOK, PasswordChanged, Delete, db, redis, Time
<1>2. Past'
  BY DEF IInv, TypeOK, Past, PasswordChanged, Delete, db, redis, Proc, Time
<1>3. EntryDoomed'
  BY DEF IInv, TypeOK, EntryDoomed, Young, Free, About, EntryAlive, SetDoomed,
         Grace, PasswordChanged, Delete, db, redis, Proc, Time
<1>4. SetDoomed'
  BY DEF IInv, TypeOK, About, SetDoomed, Young, Free, EntryAlive, EntryDoomed,
         Grace, PasswordChanged, Delete, db, redis, Proc, Time
<1>5. RevocationBounded'
  BY DEF IInv, TypeOK, RevocationBounded, Past, EntryAlive, EntryDoomed, About,
         Grace, PasswordChanged, Delete, db, redis, Proc, Time
<1>6. Young' /\ About' /\ EntryAlive' /\ ActiveIsUse' /\ ExpiryHonoured'
  BY DEF IInv, Young, About, EntryAlive, ActiveIsUse, ExpiryHonoured,
         PasswordChanged, Delete, db, redis, Free
<1> QED BY <1>1, <1>2, <1>3, <1>4, <1>5, <1>6 DEF IInv

(* DeleteExpired preserves the invariant. *)
LEMMA DeleteExpiredKeeps ==
  ASSUME IInv, DeleteExpired
  PROVE  IInv'
<1> USE SessionAssumption, DelayAssumption
<1>1. TypeOK'
  BY DEF IInv, TypeOK, DeleteExpired, Delete, db, redis, Time
<1>2. Past'
  BY DEF IInv, TypeOK, Past, DeleteExpired, Delete, db, redis, Proc, Time
<1>3. EntryDoomed'
  BY DEF IInv, TypeOK, EntryDoomed, Young, Free, About, EntryAlive, SetDoomed,
         Grace, DeleteExpired, Delete, db, redis, Proc, Time
<1>4. SetDoomed'
  BY DEF IInv, TypeOK, About, SetDoomed, Young, Free, EntryAlive, EntryDoomed,
         Grace, DeleteExpired, Delete, db, redis, Proc, Time
<1>5. RevocationBounded'
  BY DEF IInv, TypeOK, RevocationBounded, Past, EntryAlive, EntryDoomed, About,
         Grace, DeleteExpired, Delete, db, redis, Proc, Time
<1>6. Young' /\ About' /\ EntryAlive' /\ ActiveIsUse' /\ ExpiryHonoured'
  BY DEF IInv, Young, About, EntryAlive, ActiveIsUse, ExpiryHonoured,
         DeleteExpired, Delete, db, redis, Free
<1> QED BY <1>1, <1>2, <1>3, <1>4, <1>5, <1>6 DEF IInv

(* Tick preserves the invariant. *)
LEMMA TickKeeps ==
  ASSUME IInv, Tick
  PROVE  IInv'
<1> USE SessionAssumption, DelayAssumption
<1>1. TypeOK'
  BY DEF IInv, TypeOK, Tick, DropKeys, Empty, db, redis, Time
<1>2. Young'
  BY DEF IInv, TypeOK, Young, Free, Tick, DropKeys, Empty, db, redis, Proc,
         Time
<1>3. Past'
  BY DEF IInv, TypeOK, Past, Tick, DropKeys, Empty, db, redis, Proc, Time
<1>4. EntryAlive'
  BY DEF IInv, TypeOK, EntryAlive, Tick, DropKeys, Empty, db, redis, Proc, Time
<1>5. EntryDoomed'
  BY DEF IInv, TypeOK, EntryDoomed, Tick, DropKeys, Empty, db, redis, Proc,
         Time
<1>6. ActiveIsUse'
  BY DEF IInv, TypeOK, About, ActiveIsUse, Tick, DropKeys, Empty, db, redis,
         Proc, Time
<1>7. About' /\ SetDoomed' /\ RevocationBounded' /\ ExpiryHonoured'
  BY DEF IInv, About, SetDoomed, RevocationBounded, ExpiryHonoured, Tick,
         DropKeys, Empty, db, redis
<1> QED BY <1>1, <1>2, <1>3, <1>4, <1>5, <1>6, <1>7 DEF IInv

-----------------------------------------------------------------------------
(* Before the first login there is nothing to be wrong about. *)
LEMMA InitHolds == Init => IInv
<1> USE SessionAssumption
<1>1. Idle \in Proc
  BY DEF Idle, Proc, PC, Time
<1>2. Init => TypeOK
  BY <1>1 DEF Init, TypeOK, Empty, Time
<1>3. Init => Young /\ About /\ SetDoomed /\ ActiveIsUse
  BY DEF Init, Young, About, SetDoomed, ActiveIsUse, Free, Idle
<1>4. Init => Past /\ EntryAlive /\ EntryDoomed /\ RevocationBounded /\ ExpiryHonoured
  BY DEF Init, Past, EntryAlive, EntryDoomed, RevocationBounded, ExpiryHonoured
<1> QED BY <1>2, <1>3, <1>4 DEF IInv

(* A password change ends sessions of this user only. *)
LEMMA KeptIsSession ==
  ASSUME IInv, NEW keep \in Kept
  PROVE  keep \in SUBSET Session
BY DEF IInv, TypeOK, Kept

(* IInv is inductive. *)
LEMMA NextKeeps == IInv /\ [Next]_vars => IInv'
<1> SUFFICES ASSUME IInv, [Next]_vars PROVE IInv'
  OBVIOUS
<1>1. CASE UNCHANGED vars
  <2>1. TypeOK' /\ Young' /\ About' /\ Past' /\ EntryAlive'
    BY <1>1 DEF IInv, TypeOK, Young, About, Past, EntryAlive, Free, vars, db, redis
  <2>2. EntryDoomed' /\ SetDoomed' /\ ActiveIsUse' /\ RevocationBounded' /\ ExpiryHonoured'
    BY <1>1 DEF IInv, EntryDoomed, SetDoomed, ActiveIsUse, RevocationBounded, ExpiryHonoured,
                vars, db, redis
  <2> QED BY <2>1, <2>2 DEF IInv
<1>2. ASSUME NEW r \in Request, NEW s \in Session,
             CreateBegin(r, s) \/ ValidateStart(r, s) \/ RevokeSession(r, s)
      PROVE  IInv'
  BY <1>2, CreateBeginKeeps, ValidateStartKeeps, RevokeSessionKeeps
<1>3. ASSUME NEW r \in Request, CreateCommit(r) \/ CreateIndex(r) \/ Abort(r)
      PROVE  IInv'
  BY <1>3, CreateCommitKeeps, CreateIndexKeeps, AbortKeeps
<1>4. ASSUME NEW r \in Request, HitStale(r) \/ HitForeign(r) \/ HitFresh(r) \/ Miss(r)
      PROVE  IInv'
  BY <1>4, HitStaleKeeps, HitForeignKeeps, HitFreshKeeps, MissKeeps
<1>5. ASSUME NEW r \in Request, FindReject(r) \/ FindStale(r) \/ FindLive(r) \/ Answer(r)
      PROVE  IInv'
  BY <1>5, FindRejectKeeps, FindStaleKeeps, FindLiveKeeps, AnswerKeeps
<1>6. ASSUME NEW r \in Request, DoSet(r) \/ DoTouch(r) \/ DoDel(r) \/ DoRowDel(r)
      PROVE  IInv'
  BY <1>6, DoSetKeeps, DoTouchKeeps, DoDelKeeps, DoRowDelKeeps
<1>7. ASSUME NEW r \in Request, NEW e \in Effect, Lose(r, e)
      PROVE  IInv'
  BY <1>7, LoseKeeps
<1>8. ASSUME NEW r \in Request, RevokeAll(r) \/ RevokeMembers(r) \/ RevokeFlush(r)
      PROVE  IInv'
  BY <1>8, RevokeAllKeeps, RevokeMembersKeeps, RevokeFlushKeeps
<1>9. ASSUME NEW keep \in Kept, PasswordChanged(keep)
      PROVE  IInv'
  BY <1>9, KeptIsSession, PasswordChangedKeeps
<1>10. CASE DeleteExpired
  BY <1>10, DeleteExpiredKeeps
<1>11. CASE Tick
  BY <1>11, TickKeeps
<1> QED
  BY <1>1, <1>2, <1>3, <1>4, <1>5, <1>6, <1>7, <1>8, <1>9, <1>10, <1>11 DEF Next, RequestStep, handleLogout

(* The invariant holds in every reachable state. *)
THEOREM Invariance == Spec => []IInv
BY InitHolds, NextKeeps, PTL DEF Spec

(* Every variable has its type: in particular every cached, indexed and    *)
(* issued session was once inserted.                                       *)
THEOREM TypeCorrect == Spec => []TypeOK
<1>1. IInv => TypeOK
  BY DEF IInv
<1> QED BY <1>1, Invariance, PTL

(* validateSession stops accepting a session at most Grace after its row   *)
(* was deleted, however many requests race and whichever deletions of its  *)
(* cache key are lost.                                                     *)
THEOREM RevocationIsBounded == Spec => []RevocationBounded
<1>1. IInv => RevocationBounded
  BY DEF IInv
<1> QED BY <1>1, Invariance, PTL

(* The cache never bypasses the expiry of a session. *)
THEOREM ExpiryIsHonoured == Spec => []ExpiryHonoured
<1>1. IInv => ExpiryHonoured
  BY DEF IInv
<1> QED BY <1>1, Invariance, PTL

-----------------------------------------------------------------------------
(* The steps at which a session passes, as the contract sees them. *)

(* A hit on an entry of a revoked session comes within Grace. *)
LEMMA HitInGrace ==
  ASSUME IInv, NEW r \in Request, HitFresh(r)
  PROVE  /\ proc[r].sess \in born
         /\ proc[r].sess \in rows \/ now <= revokedAt[proc[r].sess] + Grace
<1> USE SessionAssumption
<1>1. proc[r].sess \in cached /\ cached \subseteq born /\ born \subseteq Session
  BY DEF IInv, TypeOK, HitFresh, Hit
<1>2. PICK s \in Session : s = proc[r].sess
  BY <1>1
<1>3. /\ now \in Nat /\ revokedAt[s] \in Nat /\ entry[s].evictAt \in Nat
      /\ now <= entry[s].evictAt
  BY <1>1, <1>2 DEF IInv, TypeOK, EntryAlive, Time
<1>4. s \in rows \/ entry[s].evictAt <= revokedAt[s] + Grace
  BY <1>1, <1>2, <1>3 DEF IInv, EntryDoomed, Grace
<1> QED BY <1>1, <1>2, <1>3, <1>4, MaxDelay \in Nat, CacheTtl \in Nat DEF Grace

(* When a session passes, its last success is at most IdleTimeout old, but *)
(* for the time the request has taken.                                     *)
LEMMA PassIsRecent ==
  ASSUME IInv, NEW r \in Request, HitFresh(r) \/ FindLive(r)
  PROVE  /\ proc[r].sess \in born
         /\ now <= lastOk[proc[r].sess] + IdleTimeout + MaxDelay
         /\ lastOk' = [lastOk EXCEPT ![proc[r].sess] = now]
<1> USE SessionAssumption
<1>1. proc[r].sess \in born /\ proc[r].sess \in Session
  BY DEF IInv, TypeOK, HitFresh, Hit, FindLive
<1>2. PICK s \in Session : s = proc[r].sess
  BY <1>1
<1>3. /\ now \in Nat /\ lastOk[s] \in Nat /\ lastActive[s] \in Nat
      /\ entry[s].lastActive \in Nat /\ proc[r].start \in Nat
  BY <1>2 DEF IInv, TypeOK, Proc, Time
<1>4. now <= proc[r].start + MaxDelay
  BY DEF IInv, Young, Free, HitFresh, Hit, FindLive
<1>5. CASE HitFresh(r)
  <2>1. proc[r].start <= entry[s].lastActive + IdleTimeout /\ entry[s].lastActive <= lastOk[s]
    BY <1>2, <1>5 DEF IInv, ActiveIsUse, HitFresh, Hit, HitUsable
  <2> QED BY <1>1, <1>2, <1>3, <1>4, <1>5, <2>1 DEF HitFresh, Pass
<1>6. CASE FindLive(r)
  <2>1. proc[r].start <= lastActive[s] + IdleTimeout /\ lastActive[s] <= lastOk[s]
    BY <1>1, <1>2, <1>6 DEF IInv, ActiveIsUse, FindLive, RowUsable
  <2> QED BY <1>1, <1>2, <1>3, <1>4, <1>6, <2>1 DEF FindLive, Pass
<1> QED BY <1>5, <1>6

(* Every other step leaves the history of successes alone, except a login, *)
(* which starts that of a session never seen before.                       *)
LEMMA PassOnly ==
  ASSUME IInv, [Next]_vars
  PROVE  \/ \E r \in Request : HitFresh(r) \/ FindLive(r)
         \/ \E r \in Request : CreateCommit(r)
         \/ UNCHANGED lastOk
<1>1. CASE UNCHANGED vars
  BY <1>1 DEF vars
<1>2. CASE Next
  BY <1>2 DEF Next, RequestStep, handleLogout, CreateBegin, ValidateStart, RevokeSession, CreateIndex, Abort, HitStale,
     HitForeign, Miss, FindReject, FindStale, Answer, DoSet, DoTouch, DoDel, DoRowDel, Lose,
     RevokeAll, RevokeMembers, RevokeFlush, PasswordChanged, DeleteExpired, Tick
<1> QED BY <1>1, <1>2

(* The cache never bypasses the idle timeout: a session passes only if it  *)
(* last did so at most IdleTimeout ago.                                    *)
THEOREM IdleIsHonoured == Spec => IdleHonoured
<1> DEFINE Recent == \A s \in born : lastOk'[s] # lastOk[s] =>
                       lastOk'[s] <= lastOk[s] + IdleTimeout + MaxDelay
<1>1. IInv /\ [Next]_vars => [Recent]_vars
  <2> SUFFICES ASSUME IInv, [Next]_vars PROVE Recent
    OBVIOUS
  <2>1. lastOk \in [Session -> Time] /\ born \subseteq Session
    BY DEF IInv, TypeOK
  <2>2. CASE \E r \in Request : HitFresh(r) \/ FindLive(r)
    BY <2>1, <2>2, PassIsRecent
  <2>3. CASE \E r \in Request : CreateCommit(r)
    BY <2>1, <2>3 DEF IInv, About, CreateCommit, Pass
  <2>4. CASE UNCHANGED lastOk
    BY <2>4
  <2> QED BY <2>2, <2>3, <2>4, PassOnly
<1> HIDE DEF Recent
<1>2. (Spec => [][Recent]_vars)
  BY <1>1, Invariance, PTL DEF Spec
<1> QED BY <1>2 DEF IdleHonoured, Recent

-----------------------------------------------------------------------------
(* The service implements its contract. *)

(* The initial states of the service are initial states of the contract. *)
LEMMA InitImplements == Init => Contract!Init
BY DEF Init, Contract!Init

(* Every step of the service is a step of the contract, or invisible. *)
LEMMA StepImplements == IInv /\ [Next]_vars => [Contract!Next]_(Contract!vars)
<1> SUFFICES ASSUME IInv, [Next]_vars PROVE Contract!Next \/ UNCHANGED Contract!vars
  OBVIOUS
<1>1. CASE UNCHANGED vars
  BY <1>1 DEF vars, db, Contract!vars
<1>2. ASSUME NEW r \in Request, CreateCommit(r)
      PROVE  Contract!Next
  <2>1. proc[r].sess \in Session \ born /\ proc[r].keys \in SUBSET Session
    BY <1>2 DEF IInv, TypeOK, About, CreateCommit, Proc
  <2>2. Contract!LogIn(proc[r].sess, proc[r].keys)
    BY <1>2, <2>1 DEF CreateCommit, Pass, Contract!LogIn, Contract!Forget
  <2> QED BY <2>1, <2>2 DEF Contract!Next
<1>3. ASSUME NEW r \in Request, HitFresh(r) \/ FindLive(r)
      PROVE  Contract!Next
  <2>1. proc[r].sess \in Session
    BY <1>3, PassIsRecent DEF IInv, TypeOK
  <2>2. Contract!Authenticate(proc[r].sess)
    BY <1>3, HitInGrace DEF HitFresh, FindLive, Pass, db, Contract!Authenticate
  <2> QED BY <2>1, <2>2 DEF Contract!Next
<1>4. ASSUME NEW gone \in SUBSET Session, Delete(gone), UNCHANGED <<now, born, lastOk>>
      PROVE  Contract!Next
  <2>1. Contract!Revoke(gone)
    BY <1>4 DEF Delete, Contract!Revoke, Contract!Forget
  <2> QED BY <2>1 DEF Contract!Next
<1>5. ASSUME NEW r \in Request, DoRowDel(r)
      PROVE  Contract!Next
  <2>1. {proc[r].sess} \in SUBSET Session
    BY <1>5 DEF IInv, TypeOK, About, DoRowDel, Settle
  <2> QED BY <1>4, <1>5, <2>1 DEF DoRowDel
<1>6. ASSUME NEW r \in Request, NEW s \in Session, RevokeSession(r, s)
      PROVE  Contract!Next
  BY <1>4, <1>6 DEF RevokeSession
<1>7. ASSUME NEW r \in Request, RevokeAll(r)
      PROVE  Contract!Next
  BY <1>4, <1>7 DEF RevokeAll
<1>8. ASSUME NEW keep \in Kept, PasswordChanged(keep)
      PROVE  Contract!Next
  BY <1>4, <1>8 DEF PasswordChanged
<1>9. CASE DeleteExpired
  BY <1>4, <1>9 DEF DeleteExpired
<1>10. CASE Tick
  BY <1>10 DEF Tick, db, Contract!Next, Contract!Tick
<1>11. ASSUME NEW r \in Request,
              \/ \E s \in Session : CreateBegin(r, s) \/ ValidateStart(r, s)
              \/ CreateIndex(r) \/ Abort(r)
              \/ HitStale(r) \/ HitForeign(r) \/ Miss(r) \/ FindReject(r) \/ FindStale(r)
              \/ Answer(r) \/ DoSet(r) \/ DoTouch(r) \/ DoDel(r)
              \/ \E e \in Effect : Lose(r, e)
              \/ RevokeMembers(r) \/ RevokeFlush(r)
       PROVE  UNCHANGED Contract!vars
  BY <1>11 DEF CreateBegin, ValidateStart, CreateIndex, Abort, HitStale, HitForeign, Miss,
     FindReject, FindStale, Answer, DoSet, DoTouch, DoDel, Lose, RevokeMembers, RevokeFlush,
     db, Contract!vars
<1> QED
  BY <1>1, <1>2, <1>3, <1>5, <1>6, <1>7, <1>8, <1>9, <1>10, <1>11 DEF Next, RequestStep, handleLogout

(* Cache, index, owed writes and racing requests together show the rest of *)
(* the API nothing but the contract.                                       *)
THEOREM ContractImplemented == Spec => ImplementsContract
<1>1. (Spec => Contract!Spec)
  BY InitImplements, StepImplements, Invariance, PTL DEF Spec, Contract!Spec
<1> QED BY <1>1 DEF ImplementsContract

-----------------------------------------------------------------------------
(* What the contract is worth. *)

ContractInv ==
  /\ now \in Nat /\ born \subseteq Session
  /\ revokedAt \in [Session -> Nat] /\ lastOk \in [Session -> Nat]
  /\ \A s \in born : lastOk[s] <= now
  /\ Contract!DiesWithinGrace

LEMMA ContractStep == ContractInv /\ [Contract!Next]_(Contract!vars) => ContractInv'
<1> SUFFICES ASSUME ContractInv, [Contract!Next]_(Contract!vars) PROVE ContractInv'
  OBVIOUS
<1> USE DEF ContractInv, Contract!DiesWithinGrace
<1>0. Grace \in Nat
  BY SessionAssumption DEF Grace
<1>1. ASSUME NEW out \in SUBSET Session, Contract!Forget(out)
      PROVE  /\ revokedAt' \in [Session -> Nat]
             /\ \A s \in Session : revokedAt'[s] = IF s \in rows \cap out THEN now ELSE revokedAt[s]
  BY <1>1 DEF Contract!Forget
<1>2. ASSUME NEW s \in Session, NEW out \in SUBSET Session, Contract!LogIn(s, out) PROVE ContractInv'
  <2>1. /\ s \notin born /\ born' = born \cup {s} /\ rows' = (rows \ out) \cup {s} /\ now' = now
        /\ lastOk' = [lastOk EXCEPT ![s] = now] /\ Contract!Forget(out)
    BY <1>2 DEF Contract!LogIn
  <2>2. \A u \in born' : lastOk'[u] <= now'
    BY <2>1
  <2>3. \A u \in born' \ rows' : lastOk'[u] <= revokedAt'[u] + Grace
    <3> SUFFICES ASSUME NEW u \in born' \ rows' PROVE lastOk'[u] <= revokedAt'[u] + Grace
      OBVIOUS
    <3>1. u \in born /\ u \in Session /\ lastOk'[u] = lastOk[u] /\ lastOk[u] \in Nat /\ lastOk[u] <= now
      BY <2>1
    <3>2. CASE u \in rows
      BY <1>0, <1>1, <2>1, <3>1, <3>2
    <3>3. CASE u \notin rows
      BY <1>0, <1>1, <2>1, <3>1, <3>3
    <3> QED BY <3>2, <3>3
  <2> QED BY <1>1, <2>1, <2>2, <2>3
<1>3. ASSUME NEW out \in SUBSET Session, Contract!Revoke(out) PROVE ContractInv'
  <2>1. rows' = rows \ out /\ UNCHANGED <<now, born, lastOk>> /\ Contract!Forget(out)
    BY <1>3 DEF Contract!Revoke
  <2>2. \A u \in born' \ rows' : lastOk'[u] <= revokedAt'[u] + Grace
    <3> SUFFICES ASSUME NEW u \in born \ rows' PROVE lastOk[u] <= revokedAt'[u] + Grace
      BY <2>1
    <3>1. u \in Session /\ lastOk[u] \in Nat /\ lastOk[u] <= now
      OBVIOUS
    <3>2. CASE u \in rows
      BY <1>0, <1>1, <2>1, <3>1, <3>2
    <3>3. CASE u \notin rows
      BY <1>0, <1>1, <2>1, <3>1, <3>3
    <3> QED BY <3>2, <3>3
  <2> QED BY <1>1, <2>1, <2>2
<1>4. ASSUME NEW s \in Session, Contract!Authenticate(s) PROVE ContractInv'
  BY <1>0, <1>4 DEF Contract!Authenticate
<1>5. CASE Contract!Tick \/ UNCHANGED Contract!vars
  BY <1>0, <1>5 DEF Contract!Tick, Contract!vars
<1> QED BY <1>2, <1>3, <1>4, <1>5 DEF Contract!Next

(* Whoever implements the contract keeps its promises: a revoked session   *)
(* never comes back, and authenticates nobody for longer than Grace.       *)
THEOREM ContractHolds == Contract!Spec => Contract!StaysRevoked /\ []Contract!DiesWithinGrace
<1>1. Contract!Init => ContractInv
  BY SessionAssumption DEF Contract!Init, ContractInv, Contract!DiesWithinGrace
<1>2. ContractInv => Contract!DiesWithinGrace
  BY DEF ContractInv
<1>3. ContractInv /\ [Contract!Next]_(Contract!vars) =>
        [\A s \in born \ rows : s \notin rows' /\ revokedAt'[s] = revokedAt[s]]_(Contract!vars)
  <2> SUFFICES ASSUME ContractInv, Contract!Next, NEW s \in born \ rows
               PROVE  s \notin rows' /\ revokedAt'[s] = revokedAt[s]
    OBVIOUS
  <2>1. s \in Session
    BY DEF ContractInv
  <2>2. ASSUME NEW u \in Session, NEW out \in SUBSET Session, Contract!LogIn(u, out)
        PROVE  s \notin rows' /\ revokedAt'[s] = revokedAt[s]
    BY <2>1, <2>2 DEF Contract!LogIn, Contract!Forget
  <2>3. ASSUME NEW out \in SUBSET Session, Contract!Revoke(out)
        PROVE  s \notin rows' /\ revokedAt'[s] = revokedAt[s]
    BY <2>1, <2>3 DEF Contract!Revoke, Contract!Forget
  <2>4. CASE Contract!Tick \/ \E u \in Session : Contract!Authenticate(u)
    BY <2>4 DEF Contract!Tick, Contract!Authenticate
  <2> QED BY <2>2, <2>3, <2>4 DEF Contract!Next
<1> QED BY <1>1, <1>2, <1>3, ContractStep, PTL DEF Contract!Spec, Contract!StaysRevoked

(* So the session service never restores a revoked session, whatever the   *)
(* cache, the index and the requests in flight do (session.service.ts).    *)
THEOREM SessionsStayRevoked == Spec => Contract!StaysRevoked
BY ContractImplemented, ContractHolds, PTL DEF ImplementsContract
-----------------------------------------------------------------------------
(* A session in use is not logged out early. *)

(* A request that still owes the touch of the row of s. *)
Pending(s) == \E q \in Request : proc[q].sess = s /\ "touch" \in proc[q].todo

(* A request that has a lastActiveAt to write into the cache. *)
Carries(q) == proc[q].pc = "answer" \/ "set" \in proc[q].todo

(* How far every copy of lastActiveAt can be behind the last success, and  *)
(* the copies behind each other, unless the row is about to be touched.    *)
Lagging ==
  /\ \A s \in rows : Pending(s) \/ lastOk[s] <= lastActive[s] + Lag
  /\ \A s \in rows \cap cached : Pending(s) \/ entry[s].lastActive <= lastActive[s] + MaxDelay
  /\ \A q \in Request : Carries(q) => proc[q].start <= proc[q].last + ActiveInterval
  /\ \A q \in Request, s \in rows : Carries(q) /\ proc[q].sess = s =>
       Pending(s) \/ proc[q].last <= lastActive[s] + MaxDelay
  /\ \A s \in cached : entry[s].evictAt <= entry[s].lastActive + ActiveInterval + MaxDelay + CacheTtl
  /\ \A q \in Request : proc[q].pc \in {"get", "find"} => proc[q].todo = {}

(* What one request becomes. *)
LEMMA BecomeOnly ==
  ASSUME IInv, NEW r \in Request, NEW p, Become(r, p)
  PROVE  /\ proc'[r] = IF p.pc = "done" /\ p.todo = {} THEN Idle ELSE p
         /\ \A q \in Request : q # r => proc'[q] = proc[q]
         /\ \A e : e \in proc'[r].todo <=> e \in p.todo
         /\ p.todo # {} \/ p.pc # "done" => proc'[r] = p
<1>1. proc \in [Request -> Proc] BY DEF IInv, TypeOK
<1>2. proc'[r] = IF p.pc = "done" /\ p.todo = {} THEN Idle ELSE p BY <1>1 DEF Become
<1>3. Idle.todo = {} BY DEF Idle
<1> QED BY <1>1, <1>2, <1>3 DEF Become

LEMMA PendingKept ==
  ASSUME IInv, NEW r \in Request, NEW p, Become(r, p),
         "touch" \in proc[r].todo => "touch" \in p.todo /\ p.sess = proc[r].sess
  PROVE  \A s : Pending(s) => Pending(s)'
<1> SUFFICES ASSUME NEW s, Pending(s) PROVE Pending(s)' OBVIOUS
<1>1. PICK q \in Request : proc[q].sess = s /\ "touch" \in proc[q].todo BY DEF Pending
<1>2. CASE q = r
  <2>1. proc'[r] = p BY <1>1, <1>2, BecomeOnly
  <2> QED BY <1>1, <1>2, <2>1 DEF Pending
<1>3. CASE q # r
  <2>1. proc'[q] = proc[q] BY <1>3, BecomeOnly
  <2> QED BY <1>1, <2>1 DEF Pending
<1> QED BY <1>2, <1>3

(* The steps that write no lastActiveAt and learn none. *)
LEMMA QuietKeeps ==
  ASSUME IInv, Lagging, NEW r \in Request, NEW p, Become(r, p),
         "touch" \in proc[r].todo => "touch" \in p.todo /\ p.sess = proc[r].sess,
         p.pc = "answer" \/ "set" \in p.todo =>
           Carries(r) /\ p.sess = proc[r].sess /\ p.start = proc[r].start /\ p.last = proc[r].last,
         p.pc \in {"get", "find"} => p.todo = {},
         rows' \subseteq rows, lastActive' = lastActive, lastOk' = lastOk, cached' \subseteq cached,
         \A s \in cached' : entry'[s] = entry[s]
  PROVE  Lagging'
<1>1. \A s : Pending(s) => Pending(s)' BY PendingKept
<1>2. ASSUME NEW q \in Request, Carries(q)'
      PROVE  /\ Carries(q) /\ proc'[q].sess = proc[q].sess
             /\ proc'[q].start = proc[q].start /\ proc'[q].last = proc[q].last
  <2>1. CASE q = r
    <3>1. p.pc = "answer" \/ "set" \in p.todo
      <4>1. Idle.pc = "done" BY DEF Idle
      <4> QED BY <1>2, <2>1, <4>1, BecomeOnly DEF Carries
    <3>2. proc'[r] = p BY <3>1, BecomeOnly
    <3> QED BY <2>1, <3>1, <3>2
  <2>2. CASE q # r BY <1>2, <2>2, BecomeOnly DEF Carries
  <2> QED BY <2>1, <2>2
<1>3. ASSUME NEW q \in Request, proc'[q].pc \in {"get", "find"} PROVE proc'[q].todo = {}
  <2>1. CASE q = r
    <3>1. Idle.pc = "done" BY DEF Idle
    <3> QED BY <1>3, <2>1, <3>1, BecomeOnly
  <2>2. CASE q # r BY <1>3, <2>2, BecomeOnly DEF Lagging
  <2> QED BY <2>1, <2>2
<1>4. (\A s \in rows : Pending(s) \/ lastOk[s] <= lastActive[s] + Lag)' BY <1>1 DEF Lagging
<1>5. (\A s \in rows \cap cached : Pending(s) \/ entry[s].lastActive <= lastActive[s] + MaxDelay)'
  BY <1>1 DEF Lagging
<1>6. (\A q \in Request : Carries(q) => proc[q].start <= proc[q].last + ActiveInterval)'
  BY <1>2 DEF Lagging
<1>7. (\A q \in Request, s \in rows : Carries(q) /\ proc[q].sess = s =>
         Pending(s) \/ proc[q].last <= lastActive[s] + MaxDelay)'
  BY <1>1, <1>2 DEF Lagging
<1>8. (\A s \in cached : entry[s].evictAt <= entry[s].lastActive + ActiveInterval + MaxDelay + CacheTtl)'
  BY DEF Lagging
<1> QED BY <1>3, <1>4, <1>5, <1>6, <1>7, <1>8 DEF Lagging

(* The steps of no request. *)
LEMMA AloneKeeps ==
  ASSUME Lagging, proc' = proc, rows' \subseteq rows, lastActive' = lastActive, lastOk' = lastOk,
         cached' \subseteq cached, \A s \in cached' : entry'[s] = entry[s]
  PROVE  Lagging'
<1>1. \A s : Pending(s)' <=> Pending(s) BY DEF Pending
<1>2. \A q \in Request : Carries(q)' <=> Carries(q) BY DEF Carries
<1> QED BY <1>1, <1>2 DEF Lagging

(* Typed copies of what a request and its session hold. *)
LEMMA Held ==
  ASSUME IInv, NEW r \in Request, proc[r].sess \in Session
  PROVE  LET s == proc[r].sess IN
         /\ now \in Nat /\ proc[r].start \in Nat /\ proc[r].last \in Nat
         /\ lastOk[s] \in Nat /\ lastActive[s] \in Nat
         /\ entry[s].lastActive \in Nat /\ entry[s].evictAt \in Nat
         /\ lastOk[s] <= now
         /\ ~Free(r) => proc[r].start <= now /\ now <= proc[r].start + MaxDelay
<1>1. proc[r] \in Proc /\ entry[proc[r].sess] \in [lastActive : Time, evictAt : Time] BY DEF IInv, TypeOK
<1>2. proc[r].start \in Nat /\ proc[r].last \in Nat BY <1>1 DEF Proc, Time
<1>3. entry[proc[r].sess].lastActive \in Nat /\ entry[proc[r].sess].evictAt \in Nat BY <1>1 DEF Time
<1>4. now \in Nat /\ lastOk[proc[r].sess] \in Nat /\ lastActive[proc[r].sess] \in Nat BY DEF IInv, TypeOK, Time
<1>5. lastOk[proc[r].sess] <= now BY DEF IInv, Past
<1>6. ~Free(r) => proc[r].start <= now /\ now <= proc[r].start + MaxDelay BY DEF IInv, Young
<1> QED BY <1>2, <1>3, <1>4, <1>5, <1>6

LEMMA CommitLags ==
  ASSUME IInv, Lagging, NEW r \in Request, CreateCommit(r)
  PROVE  Lagging'
<1> DEFINE s == proc[r].sess
<1>1. PICK p : p = [proc[r] EXCEPT !.pc = "indexing"] OBVIOUS
<1>2. /\ proc[r].pc = "inserting" /\ Become(r, p) /\ rows' = (rows \ proc[r].keys) \cup {s}
      /\ lastActive' = [lastActive EXCEPT ![s] = now] /\ lastOk' = [lastOk EXCEPT ![s] = now]
      /\ cached' = cached /\ entry' = entry /\ now' = now
  BY <1>1 DEF CreateCommit, Pass, redis
<1>3. proc[r] \in Proc BY DEF IInv, TypeOK
<1>4. p.pc = "indexing" /\ p.sess = s /\ p.start = proc[r].start /\ p.last = proc[r].last /\ p.todo = proc[r].todo
  BY <1>1, <1>3 DEF Proc
<1>5. s \in Session \ born /\ cached \subseteq born BY <1>2 DEF IInv, TypeOK, About
<1>6. \A x : Pending(x) => Pending(x)' BY <1>2, <1>4, PendingKept
<1>7. proc'[r] = p BY <1>2, <1>4, BecomeOnly
<1>8. ASSUME NEW q \in Request, Carries(q)'
      PROVE  /\ Carries(q) /\ proc'[q].sess = proc[q].sess /\ proc[q].sess # s
             /\ proc'[q].start = proc[q].start /\ proc'[q].last = proc[q].last
  <2>1. Carries(q) /\ proc'[q].sess = proc[q].sess
        /\ proc'[q].start = proc[q].start /\ proc'[q].last = proc[q].last
    BY <1>2, <1>4, <1>7, <1>8, BecomeOnly DEF Carries
  <2>2. proc[q].sess \in issued /\ issued \subseteq born BY <2>1 DEF IInv, About, TypeOK, Carries
  <2> QED BY <1>5, <2>1, <2>2
<1>9. lastActive'[s] = now /\ lastOk'[s] = now
      /\ \A x \in Session : x # s => lastActive'[x] = lastActive[x] /\ lastOk'[x] = lastOk[x]
  BY <1>2, <1>5 DEF IInv, TypeOK
<1>10. rows' \subseteq rows \cup {s} /\ rows \subseteq Session BY <1>2 DEF IInv, TypeOK
<1>11. (\A x \in rows : Pending(x) \/ lastOk[x] <= lastActive[x] + Lag)'
  <2>1. ASSUME NEW x \in rows' PROVE Pending(x)' \/ lastOk'[x] <= lastActive'[x] + Lag
    <3>1. CASE x = s
      <4>1. now <= now + Lag BY SessionAssumption DEF IInv, TypeOK, Time, Lag
      <4> QED BY <1>9, <3>1, <4>1
    <3>2. CASE x # s BY <1>6, <1>9, <1>10, <3>2 DEF Lagging
    <3> QED BY <3>1, <3>2
  <2> QED BY <2>1 DEF Lag
<1>12. (\A x \in rows \cap cached : Pending(x) \/ entry[x].lastActive <= lastActive[x] + MaxDelay)'
  <2>1. ASSUME NEW x \in rows' \cap cached PROVE Pending(x)' \/ entry[x].lastActive <= lastActive'[x] + MaxDelay
    BY <1>5, <1>6, <1>9, <1>10 DEF Lagging
  <2> QED BY <1>2, <2>1
<1>13. (\A q \in Request : Carries(q) => proc[q].start <= proc[q].last + ActiveInterval)' BY <1>8 DEF Lagging
<1>14. (\A q \in Request, x \in rows : Carries(q) /\ proc[q].sess = x =>
          Pending(x) \/ proc[q].last <= lastActive[x] + MaxDelay)'
  <2>1. ASSUME NEW q \in Request, NEW x \in rows', Carries(q)', proc'[q].sess = x
        PROVE  Pending(x)' \/ proc'[q].last <= lastActive'[x] + MaxDelay
    <3>1. Carries(q) /\ proc[q].sess = x /\ x # s /\ proc'[q].last = proc[q].last BY <1>8, <2>1
    <3>2. x \in rows /\ lastActive'[x] = lastActive[x] BY <1>9, <1>10, <3>1
    <3> QED BY <1>6, <3>1, <3>2 DEF Lagging
  <2> QED BY <2>1
<1>15. (\A x \in cached : entry[x].evictAt <= entry[x].lastActive + ActiveInterval + MaxDelay + CacheTtl)'
  BY <1>2 DEF Lagging
<1>16. (\A q \in Request : proc[q].pc \in {"get", "find"} => proc[q].todo = {})'
  BY <1>2, <1>4, <1>7, BecomeOnly DEF Lagging
<1> QED BY <1>11, <1>12, <1>13, <1>14, <1>15, <1>16 DEF Lagging

(* A pass is at most a request later than the start that was compared with *)
(* a copy of lastActiveAt, and every copy is close to the row's.           *)
LEMMA PassLags ==
  ASSUME IInv, Lagging, NEW r \in Request, NEW p, Become(r, p), p.sess = proc[r].sess, p.pc \notin {"get", "find"},
         proc[r].sess \in Session, ~Free(r), proc[r].todo = {}, p.start = proc[r].start,
         rows' = rows, lastActive' = lastActive, cached' = cached, entry' = entry,
         lastOk' = [lastOk EXCEPT ![proc[r].sess] = now],
         \/ "touch" \in p.todo
         \/ proc[r].sess \in rows => Pending(proc[r].sess)
                                  \/ proc[r].start <= lastActive[proc[r].sess] + ActiveInterval + MaxDelay,
         p.pc = "answer" \/ "set" \in p.todo =>
           /\ p.start <= p.last + ActiveInterval
           /\ "touch" \in p.todo \/ p.last <= lastActive[proc[r].sess] + MaxDelay
  PROVE  Lagging'
<1>s. PICK s \in Session : s = proc[r].sess OBVIOUS
<1>1. \A x : Pending(x) => Pending(x)' BY PendingKept
<1>2. "touch" \in p.todo => Pending(s)'
  <2>1. ASSUME "touch" \in p.todo PROVE proc'[r] = p BY <2>1, BecomeOnly
  <2> QED BY <1>s, <2>1 DEF Pending
<1>3. lastOk'[s] = now /\ \A x \in Session : x # s => lastOk'[x] = lastOk[x] BY <1>s DEF IInv, TypeOK
<1>4. rows \subseteq Session BY DEF IInv, TypeOK
<1>5. (\A x \in rows : Pending(x) \/ lastOk[x] <= lastActive[x] + Lag)'
  <2>1. ASSUME NEW x \in rows PROVE Pending(x)' \/ lastOk'[x] <= lastActive[x] + Lag
    <3>1. CASE x = s
      <4>1. CASE "touch" \in p.todo BY <1>2, <3>1, <4>1
      <4>2. CASE Pending(s) BY <1>1, <3>1, <4>2
      <4>3. CASE proc[r].start <= lastActive[s] + ActiveInterval + MaxDelay
        <5>1. now <= lastActive[s] + Lag BY <1>s, <4>3, Held, SessionAssumption DEF Lag
        <5> QED BY <1>3, <3>1, <5>1
      <4> QED BY <1>s, <2>1, <3>1, <4>1, <4>2, <4>3
    <3>2. CASE x # s BY <1>1, <1>3, <1>4, <3>2 DEF Lagging
    <3> QED BY <3>1, <3>2
  <2> QED BY <2>1 DEF Lag
<1>6. (\A x \in rows \cap cached : Pending(x) \/ entry[x].lastActive <= lastActive[x] + MaxDelay)'
  BY <1>1 DEF Lagging
<1>7. \A q \in Request : q # r => proc'[q] = proc[q] BY BecomeOnly
<1>8. Carries(r)' => proc'[r] = p /\ (p.pc = "answer" \/ "set" \in p.todo)
  <2>1. Idle.pc = "done" BY DEF Idle
  <2> QED BY <2>1, BecomeOnly DEF Carries
<1>9. (\A q \in Request : Carries(q) => proc[q].start <= proc[q].last + ActiveInterval)'
  BY <1>7, <1>8 DEF Lagging, Carries
<1>10. (\A q \in Request, x \in rows : Carries(q) /\ proc[q].sess = x =>
          Pending(x) \/ proc[q].last <= lastActive[x] + MaxDelay)'
  <2>1. ASSUME NEW q \in Request, NEW x \in rows, Carries(q)', proc'[q].sess = x
        PROVE  Pending(x)' \/ proc'[q].last <= lastActive[x] + MaxDelay
    <3>1. CASE q = r BY <1>s, <1>2, <1>8, <2>1, <3>1
    <3>2. CASE q # r BY <1>1, <1>7, <2>1, <3>2 DEF Lagging, Carries
    <3> QED BY <3>1, <3>2
  <2> QED BY <2>1
<1>11. (\A x \in cached : entry[x].evictAt <= entry[x].lastActive + ActiveInterval + MaxDelay + CacheTtl)'
  BY DEF Lagging
<1>12. (\A q \in Request : proc[q].pc \in {"get", "find"} => proc[q].todo = {})'
  <2>1. Idle.pc = "done" BY DEF Idle
  <2>2. proc'[r].pc \notin {"get", "find"} BY <2>1, BecomeOnly
  <2> QED BY <1>7, <2>2 DEF Lagging
<1> QED BY <1>5, <1>6, <1>9, <1>10, <1>11, <1>12 DEF Lagging

LEMMA HitFreshLags ==
  ASSUME IInv, Lagging, NEW r \in Request, HitFresh(r)
  PROVE  Lagging'
<1> DEFINE s == proc[r].sess
<1>1. PICK p : p = IF RefreshDue(r)
                   THEN [proc[r] EXCEPT !.pc = "done", !.last = proc[r].start, !.todo = {"set", "touch"}]
                   ELSE [proc[r] EXCEPT !.pc = "done"]
  OBVIOUS
<1>2. /\ proc[r].pc = "get" /\ s \in cached /\ Become(r, p) /\ lastOk' = [lastOk EXCEPT ![s] = now]
      /\ rows' = rows /\ lastActive' = lastActive /\ cached' = cached /\ entry' = entry
  BY <1>1 DEF HitFresh, Hit, Pass, db, redis
<1>3. proc[r] \in Proc /\ s \in Session /\ ~Free(r) /\ proc[r].todo = {}
  BY <1>2 DEF IInv, TypeOK, Lagging, Free
<1>4. p.sess = s /\ p.pc = "done" /\ p.start = proc[r].start BY <1>1, <1>3 DEF Proc
<1>5. CASE RefreshDue(r)
  <2>1. p.todo = {"set", "touch"} /\ p.last = proc[r].start BY <1>1, <1>3, <1>5 DEF Proc
  <2>2. p.start <= p.last + ActiveInterval BY <1>3, <1>4, <2>1, Held, SessionAssumption
  <2> QED BY <1>2, <1>3, <1>4, <2>1, <2>2, PassLags
<1>6. CASE ~RefreshDue(r)
  <2>1. p.todo = {} BY <1>1, <1>3, <1>6 DEF Proc
  <2>2. proc[r].start <= entry[s].lastActive + ActiveInterval BY <1>3, <1>6, Held, SessionAssumption DEF RefreshDue
  <2>3. s \in rows => Pending(s) \/ entry[s].lastActive <= lastActive[s] + MaxDelay BY <1>2 DEF Lagging
  <2>4. s \in rows => Pending(s) \/ proc[r].start <= lastActive[s] + ActiveInterval + MaxDelay
    BY <1>3, <2>2, <2>3, Held, SessionAssumption
  <2> QED BY <1>2, <1>3, <1>4, <2>1, <2>4, PassLags
<1> QED BY <1>5, <1>6

LEMMA FindLiveLags ==
  ASSUME IInv, Lagging, NEW r \in Request, FindLive(r)
  PROVE  Lagging'
<1> DEFINE s == proc[r].sess
<1>1. PICK p : p = IF TouchDue(r)
                   THEN [proc[r] EXCEPT !.pc = "answer", !.last = proc[r].start, !.todo = {"touch"}]
                   ELSE [proc[r] EXCEPT !.pc = "answer", !.last = lastActive[s]]
  OBVIOUS
<1>2. /\ proc[r].pc = "find" /\ s \in rows /\ Become(r, p) /\ lastOk' = [lastOk EXCEPT ![s] = now]
      /\ rows' = rows /\ lastActive' = lastActive /\ cached' = cached /\ entry' = entry
  BY <1>1 DEF FindLive, Pass, db, redis
<1>3. proc[r] \in Proc /\ s \in Session /\ ~Free(r) /\ proc[r].todo = {}
  BY <1>2 DEF IInv, TypeOK, Lagging, Free
<1>4. p.sess = s /\ p.pc = "answer" /\ p.start = proc[r].start BY <1>1, <1>3 DEF Proc
<1>5. CASE TouchDue(r)
  <2>1. p.todo = {"touch"} /\ p.last = proc[r].start BY <1>1, <1>3, <1>5 DEF Proc
  <2>2. p.start <= p.last + ActiveInterval BY <1>3, <1>4, <2>1, Held, SessionAssumption
  <2> QED BY <1>2, <1>3, <1>4, <2>1, <2>2, PassLags
<1>6. CASE ~TouchDue(r)
  <2>1. p.last = lastActive[s] BY <1>1, <1>3, <1>6 DEF Proc
  <2>2. p.start <= p.last + ActiveInterval BY <1>3, <1>4, <1>6, <2>1, Held, SessionAssumption DEF TouchDue
  <2>3. proc[r].start <= lastActive[s] + ActiveInterval + MaxDelay BY <1>3, <1>4, <2>1, <2>2, Held, SessionAssumption
  <2>4. p.last <= lastActive[s] + MaxDelay BY <1>3, <2>1, Held, SessionAssumption
  <2> QED BY <1>2, <1>3, <1>4, <2>2, <2>3, <2>4, PassLags
<1> QED BY <1>5, <1>6

LEMMA DoSetLags ==
  ASSUME IInv, Lagging, NEW r \in Request, DoSet(r)
  PROVE  Lagging'
<1>1. PICK p : p = [proc[r] EXCEPT !.todo = @ \ {"set"}] OBVIOUS
<1>2. PICK s : s = proc[r].sess OBVIOUS
<1>3. /\ "set" \in proc[r].todo /\ Become(r, p) /\ cached' = cached \cup {s}
      /\ entry' = [entry EXCEPT ![s] = [lastActive |-> proc[r].last, evictAt |-> now + CacheTtl]]
      /\ rows' = rows /\ lastActive' = lastActive /\ lastOk' = lastOk
  BY <1>1, <1>2 DEF DoSet, Settle, db
<1>4. proc[r] \in Proc /\ s \in Session /\ ~Free(r) BY <1>2, <1>3 DEF IInv, TypeOK, About, Free
<1>5. /\ p.pc = proc[r].pc /\ p.sess = s /\ p.start = proc[r].start /\ p.last = proc[r].last
      /\ p.todo = proc[r].todo \ {"set"}
  BY <1>1, <1>2, <1>4 DEF Proc
<1>6. \A x : Pending(x) => Pending(x)' BY <1>2, <1>3, <1>5, PendingKept
<1>7. Carries(r) BY <1>3 DEF Carries
<1>8. entry'[s].lastActive = proc[r].last /\ entry'[s].evictAt = now + CacheTtl
      /\ \A x \in Session : x # s => entry'[x] = entry[x]
  BY <1>3, <1>4 DEF IInv, TypeOK
<1>9. rows \subseteq Session /\ cached \subseteq Session BY DEF IInv, TypeOK
<1>10. ASSUME NEW q \in Request, Carries(q)'
       PROVE  /\ Carries(q) /\ proc'[q].sess = proc[q].sess
              /\ proc'[q].start = proc[q].start /\ proc'[q].last = proc[q].last
  <2>1. CASE q = r
    <3>1. Idle.pc = "done" BY DEF Idle
    <3>2. proc'[r] = p BY <1>3, <1>10, <2>1, <3>1, BecomeOnly DEF Carries
    <3> QED BY <1>2, <1>5, <1>7, <2>1, <3>2
  <2>2. CASE q # r BY <1>3, <1>10, <2>2, BecomeOnly DEF Carries
  <2> QED BY <2>1, <2>2
<1>11. (\A x \in rows : Pending(x) \/ lastOk[x] <= lastActive[x] + Lag)' BY <1>3, <1>6 DEF Lagging
<1>12. (\A x \in rows \cap cached : Pending(x) \/ entry[x].lastActive <= lastActive[x] + MaxDelay)'
  <2>1. ASSUME NEW x \in rows \cap cached' PROVE Pending(x)' \/ entry'[x].lastActive <= lastActive[x] + MaxDelay
    <3>1. CASE x = s BY <1>2, <1>6, <1>7, <1>8, <3>1 DEF Lagging
    <3>2. CASE x # s BY <1>3, <1>6, <1>8, <1>9, <3>2 DEF Lagging
    <3> QED BY <3>1, <3>2
  <2> QED BY <1>3, <2>1
<1>13. (\A q \in Request : Carries(q) => proc[q].start <= proc[q].last + ActiveInterval)' BY <1>10 DEF Lagging
<1>14. (\A q \in Request, x \in rows : Carries(q) /\ proc[q].sess = x =>
          Pending(x) \/ proc[q].last <= lastActive[x] + MaxDelay)'
  BY <1>3, <1>6, <1>10 DEF Lagging
<1>15. (\A x \in cached : entry[x].evictAt <= entry[x].lastActive + ActiveInterval + MaxDelay + CacheTtl)'
  <2>1. ASSUME NEW x \in cached'
        PROVE  entry'[x].evictAt <= entry'[x].lastActive + ActiveInterval + MaxDelay + CacheTtl
    <3>1. CASE x = s
      <4>1. proc[r].start <= proc[r].last + ActiveInterval BY <1>7 DEF Lagging
      <4>2. now + CacheTtl <= proc[r].last + ActiveInterval + MaxDelay + CacheTtl
        BY <1>2, <1>4, <4>1, Held, SessionAssumption
      <4> QED BY <1>8, <3>1, <4>2
    <3>2. CASE x # s BY <1>3, <1>8, <1>9, <3>2 DEF Lagging
    <3> QED BY <3>1, <3>2
  <2> QED BY <2>1
<1>16. (\A q \in Request : proc[q].pc \in {"get", "find"} => proc[q].todo = {})'
  <2>1. Idle.pc = "done" BY DEF Idle
  <2>2. proc'[r].pc \notin {"get", "find"} BY <1>3, <1>5, <2>1, BecomeOnly DEF Lagging
  <2> QED BY <1>3, <2>2, BecomeOnly DEF Lagging
<1> QED BY <1>11, <1>12, <1>13, <1>14, <1>15, <1>16 DEF Lagging

(* A touch, even one that sets the row back, is younger than MaxDelay: it  *)
(* brings the row close to the last success.                               *)
LEMMA DoTouchLags ==
  ASSUME IInv, Lagging, NEW r \in Request, DoTouch(r)
  PROVE  Lagging'
<1>1. PICK p : p = [proc[r] EXCEPT !.todo = @ \ {"touch"}] OBVIOUS
<1>2. PICK s : s = proc[r].sess OBVIOUS
<1>3. /\ "touch" \in proc[r].todo /\ Become(r, p) /\ cached' = cached /\ entry' = entry
      /\ rows' = rows /\ lastOk' = lastOk
      /\ lastActive' = IF s \in rows THEN [lastActive EXCEPT ![s] = proc[r].start] ELSE lastActive
  BY <1>1, <1>2 DEF DoTouch, Settle, redis
<1>4. proc[r] \in Proc /\ s \in Session /\ ~Free(r) BY <1>2, <1>3 DEF IInv, TypeOK, About, Free
<1>5. /\ p.pc = proc[r].pc /\ p.sess = s /\ p.start = proc[r].start /\ p.last = proc[r].last
      /\ p.todo = proc[r].todo \ {"touch"}
  BY <1>1, <1>2, <1>4 DEF Proc
<1>6. \A x : x # s /\ Pending(x) => Pending(x)'
  <2> SUFFICES ASSUME NEW x, x # s, Pending(x) PROVE Pending(x)' OBVIOUS
  <2>1. PICK q \in Request : proc[q].sess = x /\ "touch" \in proc[q].todo BY DEF Pending
  <2>2. proc'[q] = proc[q] BY <1>2, <1>3, <2>1, BecomeOnly
  <2> QED BY <2>1, <2>2 DEF Pending
<1>7. rows \subseteq Session /\ cached \subseteq Session BY DEF IInv, TypeOK
<1>8. /\ s \in rows => lastActive'[s] = proc[r].start
      /\ \A x \in rows : x # s => lastActive'[x] = lastActive[x]
  BY <1>3, <1>4, <1>7 DEF IInv, TypeOK
<1>9. now \in Nat /\ proc[r].start \in Nat /\ lastOk[s] \in Nat /\ lastOk[s] <= now
      /\ now <= proc[r].start + MaxDelay
  BY <1>2, <1>4, Held
<1>10. ASSUME NEW q \in Request, Carries(q)'
       PROVE  /\ Carries(q) /\ proc'[q].sess = proc[q].sess
              /\ proc'[q].start = proc[q].start /\ proc'[q].last = proc[q].last
  <2>1. CASE q = r
    <3>1. Idle.pc = "done" BY DEF Idle
    <3>2. proc'[r] = p BY <1>3, <1>10, <2>1, <3>1, BecomeOnly DEF Carries
    <3> QED BY <1>2, <1>5, <1>10, <2>1, <3>2 DEF Carries
  <2>2. CASE q # r BY <1>3, <1>10, <2>2, BecomeOnly DEF Carries
  <2> QED BY <2>1, <2>2
<1>11. (\A x \in rows : Pending(x) \/ lastOk[x] <= lastActive[x] + Lag)'
  <2>1. ASSUME NEW x \in rows PROVE Pending(x)' \/ lastOk[x] <= lastActive'[x] + Lag
    <3>1. CASE x = s
      <4>1. lastOk[s] <= proc[r].start + Lag BY <1>9, SessionAssumption DEF Lag
      <4> QED BY <1>8, <2>1, <3>1, <4>1
    <3>2. CASE x # s BY <1>6, <1>8, <3>2 DEF Lagging
    <3> QED BY <3>1, <3>2
  <2> QED BY <1>3, <2>1 DEF Lag
<1>12. (\A x \in rows \cap cached : Pending(x) \/ entry[x].lastActive <= lastActive[x] + MaxDelay)'
  <2>1. ASSUME NEW x \in rows \cap cached PROVE Pending(x)' \/ entry[x].lastActive <= lastActive'[x] + MaxDelay
    <3>1. CASE x = s
      <4>1. entry[s].lastActive <= lastOk[s] /\ entry[s].lastActive \in Nat
        BY <1>2, <1>4, <3>1, Held DEF IInv, ActiveIsUse
      <4>2. entry[s].lastActive <= proc[r].start + MaxDelay BY <1>9, <4>1, SessionAssumption
      <4> QED BY <1>8, <3>1, <4>2
    <3>2. CASE x # s BY <1>6, <1>8, <3>2 DEF Lagging
    <3> QED BY <3>1, <3>2
  <2> QED BY <1>3, <2>1
<1>13. (\A q \in Request : Carries(q) => proc[q].start <= proc[q].last + ActiveInterval)' BY <1>10 DEF Lagging
<1>14. (\A q \in Request, x \in rows : Carries(q) /\ proc[q].sess = x =>
          Pending(x) \/ proc[q].last <= lastActive[x] + MaxDelay)'
  <2>1. ASSUME NEW q \in Request, NEW x \in rows, Carries(q)', proc'[q].sess = x
        PROVE  Pending(x)' \/ proc'[q].last <= lastActive'[x] + MaxDelay
    <3>1. Carries(q) /\ proc[q].sess = x /\ proc'[q].last = proc[q].last BY <1>10, <2>1
    <3>2. CASE x = s
      <4>1. proc[q].last <= lastOk[s] BY <3>1, <3>2 DEF IInv, ActiveIsUse, Carries
      <4>2. proc[q].last \in Nat BY DEF IInv, TypeOK, Proc, Time
      <4>3. proc[q].last <= proc[r].start + MaxDelay BY <1>9, <4>1, <4>2, SessionAssumption
      <4> QED BY <1>8, <3>1, <3>2, <4>3
    <3>3. CASE x # s BY <1>6, <1>8, <3>1, <3>3 DEF Lagging
    <3> QED BY <3>2, <3>3
  <2> QED BY <1>3, <2>1
<1>15. (\A x \in cached : entry[x].evictAt <= entry[x].lastActive + ActiveInterval + MaxDelay + CacheTtl)'
  BY <1>3 DEF Lagging
<1>16. (\A q \in Request : proc[q].pc \in {"get", "find"} => proc[q].todo = {})'
  <2>1. Idle.pc = "done" BY DEF Idle
  <2>2. proc'[r].pc \notin {"get", "find"} BY <1>3, <1>5, <2>1, BecomeOnly DEF Lagging
  <2> QED BY <1>3, <2>2, BecomeOnly DEF Lagging
<1> QED BY <1>11, <1>12, <1>13, <1>14, <1>15, <1>16 DEF Lagging

(* The keys that are left keep their entries. *)
LEMMA DropKeysOnly ==
  ASSUME IInv, NEW keys, DropKeys(keys)
  PROVE  cached' \subseteq cached /\ \A s \in cached' : entry'[s] = entry[s]
BY DEF IInv, TypeOK, DropKeys

LEMMA CreateIndexLags ==
  ASSUME IInv, Lagging, NEW r \in Request, CreateIndex(r)
  PROVE  Lagging'
<1>1. PICK p : p = [proc[r] EXCEPT !.pc = "done"] OBVIOUS
<1>2. proc[r] \in Proc BY DEF IInv, TypeOK
<1>3. p.pc = "done" /\ p.todo = proc[r].todo
      /\ p.sess = proc[r].sess /\ p.start = proc[r].start /\ p.last = proc[r].last
  BY <1>1, <1>2 DEF Proc
<1>4. Become(r, p) /\ rows' \subseteq rows /\ lastActive' = lastActive /\ lastOk' = lastOk
      /\ cached' \subseteq cached /\ \A s \in cached' : entry'[s] = entry[s]
  BY <1>1 DEF CreateIndex, db, redis
<1> QED BY <1>3, <1>4, QuietKeeps DEF Carries

LEMMA AbortLags ==
  ASSUME IInv, Lagging, NEW r \in Request, Abort(r)
  PROVE  Lagging'
<1>1. PICK p : p = [proc[r] EXCEPT !.pc = "done"] OBVIOUS
<1>2. proc[r] \in Proc BY DEF IInv, TypeOK
<1>3. p.pc = "done" /\ p.todo = proc[r].todo
      /\ p.sess = proc[r].sess /\ p.start = proc[r].start /\ p.last = proc[r].last
  BY <1>1, <1>2 DEF Proc
<1>4. Become(r, p) /\ rows' \subseteq rows /\ lastActive' = lastActive /\ lastOk' = lastOk
      /\ cached' \subseteq cached /\ \A s \in cached' : entry'[s] = entry[s]
  BY <1>1 DEF Abort, db, redis
<1> QED BY <1>3, <1>4, QuietKeeps DEF Carries

LEMMA FindRejectLags ==
  ASSUME IInv, Lagging, NEW r \in Request, FindReject(r)
  PROVE  Lagging'
<1>1. PICK p : p = [proc[r] EXCEPT !.pc = "done"] OBVIOUS
<1>2. proc[r] \in Proc BY DEF IInv, TypeOK
<1>3. p.pc = "done" /\ p.todo = proc[r].todo
      /\ p.sess = proc[r].sess /\ p.start = proc[r].start /\ p.last = proc[r].last
  BY <1>1, <1>2 DEF Proc
<1>4. Become(r, p) /\ rows' \subseteq rows /\ lastActive' = lastActive /\ lastOk' = lastOk
      /\ cached' \subseteq cached /\ \A s \in cached' : entry'[s] = entry[s]
  BY <1>1 DEF FindReject, db, redis
<1> QED BY <1>3, <1>4, QuietKeeps DEF Carries

LEMMA RevokeMembersLags ==
  ASSUME IInv, Lagging, NEW r \in Request, RevokeMembers(r)
  PROVE  Lagging'
<1>1. PICK p : p = [proc[r] EXCEPT !.pc = "flush", !.keys = index] OBVIOUS
<1>2. proc[r] \in Proc BY DEF IInv, TypeOK
<1>3. p.pc = "flush" /\ p.todo = proc[r].todo
      /\ p.sess = proc[r].sess /\ p.start = proc[r].start /\ p.last = proc[r].last
  BY <1>1, <1>2 DEF Proc
<1>4. Become(r, p) /\ rows' \subseteq rows /\ lastActive' = lastActive /\ lastOk' = lastOk
      /\ cached' \subseteq cached /\ \A s \in cached' : entry'[s] = entry[s]
  BY <1>1 DEF RevokeMembers, db, redis
<1> QED BY <1>3, <1>4, QuietKeeps DEF Carries

LEMMA RevokeFlushLags ==
  ASSUME IInv, Lagging, NEW r \in Request, RevokeFlush(r)
  PROVE  Lagging'
<1>1. PICK p : p = [proc[r] EXCEPT !.pc = "done"] OBVIOUS
<1>2. proc[r] \in Proc BY DEF IInv, TypeOK
<1>3. p.pc = "done" /\ p.todo = proc[r].todo
      /\ p.sess = proc[r].sess /\ p.start = proc[r].start /\ p.last = proc[r].last
  BY <1>1, <1>2 DEF Proc
<1>4. Become(r, p) /\ rows' \subseteq rows /\ lastActive' = lastActive /\ lastOk' = lastOk
      /\ cached' \subseteq cached /\ \A s \in cached' : entry'[s] = entry[s]
  BY <1>1, DropKeysOnly DEF RevokeFlush, db
<1> QED BY <1>3, <1>4, QuietKeeps DEF Carries

LEMMA MissLags ==
  ASSUME IInv, Lagging, NEW r \in Request, Miss(r)
  PROVE  Lagging'
<1>1. PICK p : p = [proc[r] EXCEPT !.pc = "find"] OBVIOUS
<1>2. proc[r] \in Proc BY DEF IInv, TypeOK
<1>3. p.pc = "find" /\ p.todo = {} /\ proc[r].todo = {}
  BY <1>1, <1>2 DEF Miss, Lagging, Proc
<1>4. Become(r, p) /\ rows' \subseteq rows /\ lastActive' = lastActive /\ lastOk' = lastOk
      /\ cached' \subseteq cached /\ \A s \in cached' : entry'[s] = entry[s]
  BY <1>1 DEF Miss, db, redis
<1> QED BY <1>3, <1>4, QuietKeeps DEF Carries

LEMMA HitStaleLags ==
  ASSUME IInv, Lagging, NEW r \in Request, HitStale(r)
  PROVE  Lagging'
<1>1. PICK p : p = [proc[r] EXCEPT !.pc = "done", !.keys = {proc[r].sess}, !.todo = {"rowdel", "del"}] OBVIOUS
<1>2. proc[r] \in Proc BY DEF IInv, TypeOK
<1>3. p.pc = "done" /\ p.todo = {"rowdel", "del"} /\ proc[r].todo = {}
  BY <1>1, <1>2 DEF HitStale, Hit, Lagging, Proc
<1>4. Become(r, p) /\ rows' \subseteq rows /\ lastActive' = lastActive /\ lastOk' = lastOk
      /\ cached' \subseteq cached /\ \A s \in cached' : entry'[s] = entry[s]
  BY <1>1 DEF HitStale, db, redis
<1> QED BY <1>3, <1>4, QuietKeeps DEF Carries

LEMMA HitForeignLags ==
  ASSUME IInv, Lagging, NEW r \in Request, HitForeign(r)
  PROVE  Lagging'
<1>1. PICK p : p = [proc[r] EXCEPT !.pc = "done", !.keys = {proc[r].sess}, !.todo = {"del"}] OBVIOUS
<1>2. proc[r] \in Proc BY DEF IInv, TypeOK
<1>3. p.pc = "done" /\ p.todo = {"del"} /\ proc[r].todo = {}
  BY <1>1, <1>2 DEF HitForeign, Hit, Lagging, Proc
<1>4. Become(r, p) /\ rows' \subseteq rows /\ lastActive' = lastActive /\ lastOk' = lastOk
      /\ cached' \subseteq cached /\ \A s \in cached' : entry'[s] = entry[s]
  BY <1>1 DEF HitForeign, db, redis
<1> QED BY <1>3, <1>4, QuietKeeps DEF Carries

LEMMA FindStaleLags ==
  ASSUME IInv, Lagging, NEW r \in Request, FindStale(r)
  PROVE  Lagging'
<1>1. PICK p : p = [proc[r] EXCEPT !.pc = "done", !.todo = {"rowdel"}] OBVIOUS
<1>2. proc[r] \in Proc BY DEF IInv, TypeOK
<1>3. p.pc = "done" /\ p.todo = {"rowdel"} /\ proc[r].todo = {}
  BY <1>1, <1>2 DEF FindStale, Lagging, Proc
<1>4. Become(r, p) /\ rows' \subseteq rows /\ lastActive' = lastActive /\ lastOk' = lastOk
      /\ cached' \subseteq cached /\ \A s \in cached' : entry'[s] = entry[s]
  BY <1>1 DEF FindStale, db, redis
<1> QED BY <1>3, <1>4, QuietKeeps DEF Carries

LEMMA AnswerLags ==
  ASSUME IInv, Lagging, NEW r \in Request, Answer(r)
  PROVE  Lagging'
<1>1. PICK p : p = [proc[r] EXCEPT !.pc = "done", !.todo = {"set"}] OBVIOUS
<1>2. proc[r] \in Proc BY DEF IInv, TypeOK
<1>3. p.pc = "done" /\ p.todo = {"set"} /\ proc[r].pc = "answer" /\ "touch" \notin proc[r].todo
      /\ p.sess = proc[r].sess /\ p.start = proc[r].start /\ p.last = proc[r].last
  BY <1>1, <1>2 DEF Answer, Proc
<1>4. Become(r, p) /\ rows' \subseteq rows /\ lastActive' = lastActive /\ lastOk' = lastOk
      /\ cached' \subseteq cached /\ \A s \in cached' : entry'[s] = entry[s]
  BY <1>1 DEF Answer, db, redis
<1> QED BY <1>3, <1>4, QuietKeeps DEF Carries

LEMMA DoDelLags ==
  ASSUME IInv, Lagging, NEW r \in Request, DoDel(r)
  PROVE  Lagging'
<1>1. PICK p : p = [proc[r] EXCEPT !.todo = @ \ {"del"}] OBVIOUS
<1>2. proc[r] \in Proc BY DEF IInv, TypeOK
<1>3. p.pc = proc[r].pc /\ p.todo = proc[r].todo \ {"del"} /\ (p.pc \in {"get", "find"} => p.todo = {})
      /\ p.sess = proc[r].sess /\ p.start = proc[r].start /\ p.last = proc[r].last
  BY <1>1, <1>2 DEF Lagging, Proc
<1>4. Become(r, p) /\ rows' \subseteq rows /\ lastActive' = lastActive /\ lastOk' = lastOk
      /\ cached' \subseteq cached /\ \A s \in cached' : entry'[s] = entry[s]
  BY <1>1, DropKeysOnly DEF DoDel, Settle, db
<1> QED BY <1>3, <1>4, QuietKeeps DEF Carries

LEMMA DoRowDelLags ==
  ASSUME IInv, Lagging, NEW r \in Request, DoRowDel(r)
  PROVE  Lagging'
<1>1. PICK p : p = [proc[r] EXCEPT !.todo = @ \ {"rowdel"}] OBVIOUS
<1>2. proc[r] \in Proc BY DEF IInv, TypeOK
<1>3. p.pc = proc[r].pc /\ p.todo = proc[r].todo \ {"rowdel"} /\ (p.pc \in {"get", "find"} => p.todo = {})
      /\ p.sess = proc[r].sess /\ p.start = proc[r].start /\ p.last = proc[r].last
  BY <1>1, <1>2 DEF Lagging, Proc
<1>4. Become(r, p) /\ rows' \subseteq rows /\ lastActive' = lastActive /\ lastOk' = lastOk
      /\ cached' \subseteq cached /\ \A s \in cached' : entry'[s] = entry[s]
  BY <1>1 DEF DoRowDel, Settle, Delete, redis
<1> QED BY <1>3, <1>4, QuietKeeps DEF Carries

(* A lost write is another one than the touch. *)
LEMMA LoseLags ==
  ASSUME IInv, Lagging, NEW r \in Request, "touch" \notin LostWrites, NEW e, Lose(r, e)
  PROVE  Lagging'
<1>1. PICK p : p = [proc[r] EXCEPT !.todo = @ \ {e}] OBVIOUS
<1>2. proc[r] \in Proc BY DEF IInv, TypeOK
<1>3. p.pc = proc[r].pc /\ p.todo = proc[r].todo \ {e} /\ (p.pc \in {"get", "find"} => p.todo = {})
      /\ e # "touch" /\ p.sess = proc[r].sess /\ p.start = proc[r].start /\ p.last = proc[r].last
  BY <1>1, <1>2 DEF Lose, Lagging, Proc
<1>4. Become(r, p) /\ rows' \subseteq rows /\ lastActive' = lastActive /\ lastOk' = lastOk
      /\ cached' \subseteq cached /\ \A s \in cached' : entry'[s] = entry[s]
  BY <1>1 DEF Lose, Settle, db, redis
<1> QED BY <1>3, <1>4, QuietKeeps DEF Carries

LEMMA ValidateStartLags ==
  ASSUME IInv, Lagging, NEW r \in Request, NEW s, ValidateStart(r, s)
  PROVE  Lagging'
<1>1. PICK p : p = Begin(r, "get", s) OBVIOUS
<1>2. proc[r] \in Proc BY DEF IInv, TypeOK
<1>3. p.pc = "get" /\ p.todo = {} /\ proc[r].todo = {}
  BY <1>1, <1>2 DEF ValidateStart, Free, Begin, Idle
<1>4. Become(r, p) /\ rows' \subseteq rows /\ lastActive' = lastActive /\ lastOk' = lastOk
      /\ cached' \subseteq cached /\ \A t \in cached' : entry'[t] = entry[t]
  BY <1>1 DEF ValidateStart, db, redis
<1> QED BY <1>3, <1>4, QuietKeeps DEF Carries

LEMMA RevokeSessionLags ==
  ASSUME IInv, Lagging, NEW r \in Request, NEW s, RevokeSession(r, s)
  PROVE  Lagging'
<1>1. PICK p : p = [Begin(r, "done", s) EXCEPT !.keys = {s}, !.todo = {"del"}] OBVIOUS
<1>2. proc[r] \in Proc BY DEF IInv, TypeOK
<1>3. p.pc = "done" /\ p.todo = {"del"} /\ proc[r].todo = {}
  BY <1>1, <1>2 DEF RevokeSession, Free, Begin, Idle
<1>4. Become(r, p) /\ rows' \subseteq rows /\ lastActive' = lastActive /\ lastOk' = lastOk
      /\ cached' \subseteq cached /\ \A t \in cached' : entry'[t] = entry[t]
  BY <1>1 DEF RevokeSession, Delete, redis
<1> QED BY <1>3, <1>4, QuietKeeps DEF Carries

LEMMA RevokeAllLags ==
  ASSUME IInv, Lagging, NEW r \in Request, RevokeAll(r)
  PROVE  Lagging'
<1>1. PICK p : p = Begin(r, "members", Nobody) OBVIOUS
<1>2. proc[r] \in Proc BY DEF IInv, TypeOK
<1>3. p.pc = "members" /\ p.todo = {} /\ proc[r].todo = {}
  BY <1>1, <1>2 DEF RevokeAll, Free, Begin, Idle
<1>4. Become(r, p) /\ rows' \subseteq rows /\ lastActive' = lastActive /\ lastOk' = lastOk
      /\ cached' \subseteq cached /\ \A s \in cached' : entry'[s] = entry[s]
  BY <1>1 DEF RevokeAll, Delete, redis
<1> QED BY <1>3, <1>4, QuietKeeps DEF Carries

LEMMA CreateBeginLags ==
  ASSUME IInv, Lagging, NEW r \in Request, NEW s \in Session, CreateBegin(r, s)
  PROVE  Lagging'
<1>1. PICK p \in Proc : Become(r, p) /\ p.pc = "inserting" /\ p.todo \in {{}, {"del"}}
  <2>1. Begin(r, "inserting", s) \in Proc
    BY DEF IInv, TypeOK, Begin, Proc, PC, Idle, Time
  <2>2. \A v \in Session : [Begin(r, "inserting", s) EXCEPT !.keys = {v}, !.todo = {"del"}] \in Proc
    BY <2>1 DEF Proc, Effect
  <2>3. CASE Cardinality(Active) >= MaxConcurrent
    <3>1. PICK v \in Oldest(Active) :
            Become(r, [Begin(r, "inserting", s) EXCEPT !.keys = {v}, !.todo = {"del"}])
      BY <2>3 DEF CreateBegin
    <3>2. v \in Session
      BY DEF IInv, TypeOK, Oldest, Active
    <3> QED BY <2>2, <3>1, <3>2 DEF Begin, Idle
  <2>4. CASE ~(Cardinality(Active) >= MaxConcurrent)
    BY <2>1, <2>4 DEF CreateBegin, Begin, Idle
  <2> QED BY <2>3, <2>4
<1>2. rows' = rows /\ lastActive' = lastActive /\ lastOk' = lastOk /\ cached' = cached /\ entry' = entry
      /\ proc[r].todo = {}
  BY DEF CreateBegin, Free, db, redis
<1> QED BY <1>1, <1>2, QuietKeeps

LEMMA LaggingKept ==
  ASSUME "touch" \notin LostWrites, IInv, Lagging, [Next]_vars
  PROVE  Lagging'
<1>1. CASE UNCHANGED vars BY <1>1, AloneKeeps DEF vars, db, redis
<1>2. ASSUME NEW r \in Request, NEW s \in Session,
             CreateBegin(r, s) \/ ValidateStart(r, s) \/ RevokeSession(r, s)
      PROVE  Lagging'
  BY <1>2, CreateBeginLags, ValidateStartLags, RevokeSessionLags
<1>3. ASSUME NEW r \in Request, CreateCommit(r) \/ CreateIndex(r) \/ Abort(r)
      PROVE  Lagging'
  BY <1>3, CommitLags, CreateIndexLags, AbortLags
<1>4. ASSUME NEW r \in Request, HitStale(r) \/ HitForeign(r) \/ HitFresh(r) \/ Miss(r)
      PROVE  Lagging'
  BY <1>4, HitStaleLags, HitForeignLags, HitFreshLags, MissLags
<1>5. ASSUME NEW r \in Request, FindReject(r) \/ FindStale(r) \/ FindLive(r) \/ Answer(r)
      PROVE  Lagging'
  BY <1>5, FindRejectLags, FindStaleLags, FindLiveLags, AnswerLags
<1>6. ASSUME NEW r \in Request, DoSet(r) \/ DoTouch(r) \/ DoDel(r) \/ DoRowDel(r)
      PROVE  Lagging'
  BY <1>6, DoSetLags, DoTouchLags, DoDelLags, DoRowDelLags
<1>7. ASSUME NEW r \in Request, NEW e \in Effect, Lose(r, e)
      PROVE  Lagging'
  BY <1>7, LoseLags
<1>8. ASSUME NEW r \in Request, RevokeAll(r) \/ RevokeMembers(r) \/ RevokeFlush(r)
      PROVE  Lagging'
  BY <1>8, RevokeAllLags, RevokeMembersLags, RevokeFlushLags
<1>9. ASSUME NEW keep \in Kept, PasswordChanged(keep)
      PROVE  Lagging'
  BY <1>9, AloneKeeps DEF PasswordChanged, Delete, redis
<1>10. CASE DeleteExpired BY <1>10, AloneKeeps DEF DeleteExpired, Delete, redis
<1>11. CASE Tick
  <2>1. cached' \subseteq cached /\ \A s \in cached' : entry'[s] = entry[s] BY <1>11, DropKeysOnly DEF Tick
  <2> QED BY <1>11, <2>1, AloneKeeps DEF Tick, db
<1> QED
  BY <1>1, <1>2, <1>3, <1>4, <1>5, <1>6, <1>7, <1>8, <1>9, <1>10, <1>11 DEF Next, RequestStep, handleLogout

(* An entry dies before a session with a longer idle timeout looks idle in *)
(* it, so only the row can show an idle session; and the row is close to   *)
(* the last success once no request owes it a touch.                       *)
LEMMA IdleIsUnused ==
  ASSUME IdleTimeout >= ActiveInterval + CacheTtl + MaxDelay, IInv, Lagging, NEW r \in Request, IdlesOut(r)
  PROVE  lastOk[proc[r].sess] + IdleTimeout < proc[r].start + Lag
<1>1. PICK s : s = proc[r].sess OBVIOUS
<1>2. expiresAt[s] > proc[r].start /\ \A q \in Request \ {r} : proc[q].sess # s BY <1>1 DEF IdlesOut
<1>3. CASE HitStale(r)
  <2>1. s \in cached /\ s \in Session /\ ~Free(r) BY <1>1, <1>3 DEF HitStale, Hit, Free, IInv, TypeOK
  <2>2. ~(proc[r].start <= entry[s].lastActive + IdleTimeout) BY <1>1, <1>2, <1>3 DEF HitStale, HitUsable
  <2>3. entry[s].evictAt <= entry[s].lastActive + ActiveInterval + MaxDelay + CacheTtl BY <2>1 DEF Lagging
  <2>4. now <= entry[s].evictAt BY <2>1 DEF IInv, EntryAlive
  <2>5. FALSE BY <1>1, <2>1, <2>2, <2>3, <2>4, Held, SessionAssumption
  <2> QED BY <2>5
<1>4. CASE FindStale(r)
  <2>1. s \in rows /\ s \in Session /\ ~Free(r) BY <1>1, <1>4 DEF FindStale, Free, IInv, TypeOK
  <2>2. ~(proc[r].start <= lastActive[s] + IdleTimeout) BY <1>1, <1>2, <1>4 DEF FindStale, RowUsable
  <2>3. ~Pending(s)
    <3>1. proc[r].todo = {} BY <1>4 DEF FindStale, Lagging
    <3> QED BY <1>2, <3>1 DEF Pending
  <2>4. lastOk[s] <= lastActive[s] + Lag BY <2>1, <2>3 DEF Lagging
  <2>5. Lag \in Nat BY SessionAssumption DEF Lag
  <2>6. lastOk[s] + IdleTimeout < proc[r].start + Lag BY <1>1, <2>1, <2>2, <2>4, <2>5, Held, SessionAssumption
  <2> QED BY <1>1, <2>6
<1> QED BY <1>3, <1>4 DEF IdlesOut

(* A session in use is not logged out early, as long as no touch of its    *)
(* row fails: a request that finds it idle, while no other is in flight    *)
(* for it, finds one that was not used for IdleTimeout but for Lag. The    *)
(* timeout is longer than a cache entry can lag (30 minutes against 2:     *)
(* session.service.ts:16).                                                 *)
THEOREM NeverIdledOut ==
  ASSUME "touch" \notin LostWrites, IdleTimeout >= ActiveInterval + CacheTtl + MaxDelay
  PROVE  Spec => NeverIdledOutEarly
<1> DEFINE Late == \A r \in Request : IdlesOut(r) => lastOk[proc[r].sess] + IdleTimeout < proc[r].start + Lag
<1>1. Init => Lagging
  BY DEF Init, Lagging, Pending, Carries, Idle
<1>2. IInv /\ Lagging /\ [Next]_vars => Lagging'
  BY LaggingKept
<1>3. IInv /\ Lagging => Late
  BY IdleIsUnused
<1> HIDE DEF Late
<1>4. (Spec => [][Late]_vars)
  BY <1>1, <1>2, <1>3, Invariance, PTL DEF Spec
<1> QED BY <1>4 DEF NeverIdledOutEarly, Late
=============================================================================
