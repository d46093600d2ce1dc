------------------------------ MODULE LoginFlow ------------------------------
(***************************************************************************)
(* How ONE user signs in: POST /auth/login and /auth/login/totp            *)
(* (src/routes/auth.controller.ts), the lockout columns of the user row,   *)
(* the enrolment of a second factor (src/routes/totp.routes.ts), and the   *)
(* two ways to get a new password (password-reset.service.ts and           *)
(* changePassword of auth.service.ts).                                     *)
(*                                                                         *)
(* Every handler reads, awaits, and writes what it computed from the read: *)
(* one action per database or Redis round trip, so any number of requests  *)
(* interleave between them.  A request can also fail at any await.         *)
(*                                                                         *)
(* Not here: the rate limits in front of the routes (any number of         *)
(* requests may come), what a session is worth afterwards (SessionStore),  *)
(* and users without a local password, whom ERPNext authenticates.         *)
(***************************************************************************)
EXTENDS Naturals, FiniteSets

CONSTANTS
  Request,       \* the requests that can be in flight at the same time
  Password,      \* the passwords somebody may type
  Challenge,     \* the second-factor challenges that may be drawn
  Code,          \* the places of the array of backup codes
  Token,         \* the password reset tokens that may be drawn
  MaxAttempts,   \* the 5 failures after which the user is locked
  LockTime,      \* the 15 minutes of the lock
  ChallengeTtl,  \* TOTP_CHALLENGE_TTL_SEC
  ResetTtl,      \* RESET_EXPIRY_MINUTES
  MaxDelay,      \* the longest a request takes
  MaxTime,       \* bound on the clock
  None           \* null

ASSUME LoginAssumption ==
  /\ MaxAttempts \in Nat \ {0}
  /\ LockTime \in Nat /\ ChallengeTtl \in Nat /\ ResetTtl \in Nat
  /\ MaxDelay \in Nat /\ MaxTime \in Nat
  /\ IsFiniteSet(Request) /\ IsFiniteSet(Code)
  /\ None \notin Challenge \cup Token \cup Password

VARIABLES
  now,         \* the clock
  hash,        \* the password of User.passwordHash
  failed,      \* User.failedLoginAttempts
  lockedUntil, \* User.lockedUntil, 0 for null
  totp,        \* the TotpSecret row
  live,        \* the challenges in Redis
  challenge,   \* what was issued: when Redis drops it, and for which password
  token,       \* the PasswordResetToken rows
  proc,        \* the requests
  wrong,       \* history: passwords refused since the lock was set or cleared
  guesses,     \* history: second factors tried with each challenge
  spent,       \* history: backup codes accepted since they were drawn
  applied,     \* history: how often each reset token set a password
  replacedAt   \* history: when each password was last replaced

user    == <<hash, failed, lockedUntil>>
redis   == <<live, challenge>>
history == <<wrong, guesses, spent, applied, replacedAt>>
vars    == <<now, user, totp, redis, token, proc, history>>

Time == Nat
PC == {"done", "compare", "reject", "accept", "gate", "issue", "open", "burn", "second",
       "consume", "recover", "setup", "enable", "mint", "reset", "change"}

(* saw is the counter a login read, codes the array a redemption will      *)
(* write.                                                                  *)
Proc == [pc : PC, start : Time, pw : Password \cup {None}, saw : Nat,
         chal : Challenge \cup {None}, codes : SUBSET Code, tok : Token \cup {None}]

Idle == [pc |-> "done", start |-> 0, pw |-> None, saw |-> 0, chal |-> None,
         codes |-> {}, tok |-> None]

NoRow == [row |-> FALSE, verified |-> FALSE, codes |-> {}]

TypeOK ==
  /\ now \in Time /\ hash \in Password /\ failed \in Nat /\ lockedUntil \in Time
  /\ totp \in [row : BOOLEAN, verified : BOOLEAN, codes : SUBSET Code]
  /\ ~totp.row => totp = NoRow
  /\ challenge \in [Challenge -> [diesAt : Time, pw : Password \cup {None}]]
  /\ live \subseteq {c \in Challenge : challenge[c].pw # None}
  /\ token \in [Token -> [drawn : BOOLEAN, used : BOOLEAN, expiresAt : Time]]
  /\ proc \in [Request -> Proc]
  /\ wrong \in Nat /\ spent \in Nat
  /\ guesses \in [Challenge -> Nat] /\ applied \in [Token -> Nat]
  /\ replacedAt \in [Password -> Time]

Init ==
  /\ now = 0 /\ hash \in Password /\ failed = 0 /\ lockedUntil = 0
  /\ totp \in {NoRow, [row |-> TRUE, verified |-> TRUE, codes |-> Code]}
  /\ live = {} /\ challenge = [c \in Challenge |-> [diesAt |-> 0, pw |-> None]]
  /\ token = [t \in Token |-> [drawn |-> FALSE, used |-> FALSE, expiresAt |-> 0]]
  /\ proc = [r \in Request |-> Idle]
  /\ wrong = 0 /\ spent = 0
  /\ guesses = [c \in Challenge |-> 0] /\ applied = [t \in Token |-> 0]
  /\ replacedAt = [p \in Password |-> 0]

-----------------------------------------------------------------------------
(* Requests *)

Free(r) == proc[r].pc = "done"

Begin(r, pc) == [Idle EXCEPT !.pc = pc, !.start = now]

Become(r, p) == proc' = [proc EXCEPT ![r] = IF p.pc = "done" THEN Idle ELSE p]

Goto(r, pc) == Become(r, [proc[r] EXCEPT !.pc = pc])

At(r, pc) == proc[r].pc = pc

(* The request is answered with an error: a database or Redis call threw,  *)
(* or an external one failed.                                              *)
Fail(r) ==
  /\ ~Free(r)
  /\ Goto(r, "done")
  /\ UNCHANGED <<now, user, totp, redis, token, history>>

-----------------------------------------------------------------------------
(* POST /auth/login *)

(* The user row is read once; a locked user is turned away at once.        *)
LoginStart(r, pw) ==
  /\ Free(r)
  /\ lockedUntil <= now
  /\ Become(r, [Begin(r, "compare") EXCEPT !.pw = pw, !.saw = failed])
  /\ UNCHANGED <<now, user, totp, redis, token, history>>

(* login() reads the hash itself, later. *)
LoginCompare(r) ==
  /\ At(r, "compare")
  /\ Goto(r, IF proc[r].pw = hash THEN "accept" ELSE "reject")
  /\ UNCHANGED <<now, user, totp, redis, token, history>>

(* Mutant: the counter written back is the one that was read. *)
LoginRejectUncounted(r) ==
  /\ At(r, "reject")
  /\ failed' = proc[r].saw
  /\ lockedUntil' = IF proc[r].saw >= MaxAttempts THEN now + LockTime ELSE lockedUntil
  /\ wrong' = IF proc[r].saw >= MaxAttempts THEN 0 ELSE wrong + 1
  /\ Goto(r, "done")
  /\ UNCHANGED <<now, hash, totp, redis, token, guesses, spent, applied, replacedAt>>

LoginReject(r) ==
  LET next == proc[r].saw + 1 IN
  /\ At(r, "reject")
  /\ failed' = next
  /\ lockedUntil' = IF next >= MaxAttempts THEN now + LockTime ELSE lockedUntil
  /\ wrong' = IF next >= MaxAttempts THEN 0 ELSE wrong + 1
  /\ Goto(r, "done")
  /\ UNCHANGED <<now, hash, totp, redis, token, guesses, spent, applied, replacedAt>>

Unlock == failed' = 0 /\ lockedUntil' = 0 /\ wrong' = 0

LoginAccept(r) ==
  /\ At(r, "accept")
  /\ Unlock
  /\ Goto(r, "gate")
  /\ UNCHANGED <<now, hash, totp, redis, token, guesses, spent, applied, replacedAt>>

(* A failed read of the TotpSecret row counts as no row. *)
LoginGate(r) ==
  /\ At(r, "gate")
  /\ Goto(r, "open") \/ (totp.verified /\ Goto(r, "issue"))
  /\ UNCHANGED <<now, user, totp, redis, token, history>>

(* Mutant: the challenge is stored without EX. *)
IssueForEver(r, c) ==
  /\ At(r, "issue") /\ challenge[c].pw = None
  /\ live' = live \cup {c}
  /\ challenge' = [challenge EXCEPT ![c] = [diesAt |-> now + MaxTime + 1, pw |-> proc[r].pw]]
  /\ Goto(r, "done")
  /\ UNCHANGED <<now, user, totp, token, history>>

IssueChallenge(r, c) ==
  /\ At(r, "issue") /\ challenge[c].pw = None
  /\ live' = live \cup {c}
  /\ challenge' = [challenge EXCEPT ![c] = [diesAt |-> now + ChallengeTtl, pw |-> proc[r].pw]]
  /\ Goto(r, "done")
  /\ UNCHANGED <<now, user, totp, token, history>>

(* createSession; the request is answered with the cookie. *)
OpenSession(r) ==
  /\ At(r, "open")
  /\ Goto(r, "done")
  /\ UNCHANGED <<now, user, totp, redis, token, history>>

-----------------------------------------------------------------------------
(* POST /auth/login/totp *)

TotpStart(r, c) ==
  /\ Free(r) /\ c \in live
  /\ Become(r, [Begin(r, "burn") EXCEPT !.chal = c, !.pw = challenge[c].pw])
  /\ UNCHANGED <<now, user, totp, redis, token, history>>

(* Mutant: the challenge is left to its TTL. *)
TotpKeep(r) ==
  /\ At(r, "burn")
  /\ Goto(r, "second")
  /\ UNCHANGED <<now, user, totp, redis, token, history>>

TotpBurn(r) ==
  /\ At(r, "burn")
  /\ live' = live \ {proc[r].chal}
  /\ Goto(r, "second")
  /\ UNCHANGED <<now, user, totp, challenge, token, history>>

Guess(r) ==
  /\ At(r, "second") /\ totp.verified
  /\ guesses' = [guesses EXCEPT ![proc[r].chal] = @ + 1]

(* A six-digit code, right or wrong. *)
TotpCode(r) ==
  /\ Guess(r)
  /\ Goto(r, "open") \/ Goto(r, "done")
  /\ UNCHANGED <<now, user, totp, redis, token, wrong, spent, applied, replacedAt>>

(* A backup code of the array that was read; a code that is not in it is   *)
(* refused like a wrong six-digit code.                                    *)
TotpBackup(r, k) ==
  /\ Guess(r) /\ k \in totp.codes
  /\ Become(r, [proc[r] EXCEPT !.pc = "consume", !.codes = totp.codes \ {k}])
  /\ UNCHANGED <<now, user, totp, redis, token, wrong, spent, applied, replacedAt>>

(* Mutant: the array is written back unfiltered. *)
SpendNothing(r) ==
  /\ totp.row
  /\ UNCHANGED totp
  /\ spent' = spent + 1

(* The row, which may be another one by now, gets the array that was read  *)
(* without the code; an update without a row throws.                       *)
Spend(r) ==
  /\ totp.row
  /\ totp' = [totp EXCEPT !.codes = proc[r].codes]
  /\ spent' = spent + 1

TotpConsume(r) ==
  /\ At(r, "consume")
  /\ Spend(r)
  /\ Goto(r, "open")
  /\ UNCHANGED <<now, user, redis, token, wrong, guesses, applied, replacedAt>>

-----------------------------------------------------------------------------
(* /auth/2fa, for a user who is signed in *)

SetupRead(r) ==
  /\ Free(r) /\ ~totp.verified
  /\ Become(r, Begin(r, "setup"))
  /\ UNCHANGED <<now, user, totp, redis, token, history>>

(* The upsert: a new secret, new codes, not verified. *)
SetupWrite(r) ==
  /\ At(r, "setup")
  /\ totp' = [row |-> TRUE, verified |-> FALSE, codes |-> Code]
  /\ spent' = 0
  /\ Goto(r, "done")
  /\ UNCHANGED <<now, user, redis, token, wrong, guesses, applied, replacedAt>>

VerifyRead(r) ==
  /\ Free(r) /\ totp.row
  /\ Become(r, Begin(r, "enable"))
  /\ UNCHANGED <<now, user, totp, redis, token, history>>

VerifyWrite(r) ==
  /\ At(r, "enable") /\ totp.row
  /\ totp' = [totp EXCEPT !.verified = TRUE]
  /\ Goto(r, "done")
  /\ UNCHANGED <<now, user, redis, token, history>>

Disable ==
  /\ totp' = NoRow
  /\ UNCHANGED <<now, user, redis, token, proc, history>>

RecoverRead(r, k) ==
  /\ Free(r) /\ totp.verified /\ k \in totp.codes
  /\ Become(r, [Begin(r, "recover") EXCEPT !.codes = totp.codes \ {k}])
  /\ UNCHANGED <<now, user, totp, redis, token, history>>

RecoverWrite(r) ==
  /\ At(r, "recover")
  /\ Spend(r)
  /\ Goto(r, "done")
  /\ UNCHANGED <<now, user, redis, token, wrong, guesses, applied, replacedAt>>

-----------------------------------------------------------------------------
(* A new password *)

SetPassword(pw) ==
  /\ hash' = pw
  /\ replacedAt' = IF pw = hash THEN replacedAt ELSE [replacedAt EXCEPT ![hash] = now]

(* requestPasswordReset: the unused tokens are used up, then one is drawn. *)
ForgotStart(r) ==
  /\ Free(r)
  /\ token' = [t \in Token |-> IF token[t].drawn THEN [token[t] EXCEPT !.used = TRUE] ELSE token[t]]
  /\ Become(r, Begin(r, "mint"))
  /\ UNCHANGED <<now, user, totp, redis, history>>

ForgotMint(r, t) ==
  /\ At(r, "mint") /\ ~token[t].drawn
  /\ token' = [token EXCEPT ![t] = [drawn |-> TRUE, used |-> FALSE, expiresAt |-> now + ResetTtl]]
  /\ Goto(r, "done")
  /\ UNCHANGED <<now, user, totp, redis, history>>

Usable(t) == token[t].drawn /\ ~token[t].used /\ now <= token[t].expiresAt

(* applyPasswordReset validates the token, waits for ERPNext, and commits  *)
(* without a second look at the token.                                     *)
ResetStart(r, t) ==
  /\ Free(r) /\ Usable(t)
  /\ Become(r, [Begin(r, "reset") EXCEPT !.tok = t])
  /\ UNCHANGED <<now, user, totp, redis, token, history>>

(* Mutant: the token is not marked as used. *)
ResetCommitReusable(r, pw) ==
  LET t == proc[r].tok IN
  /\ At(r, "reset")
  /\ SetPassword(pw)
  /\ Unlock
  /\ applied' = [applied EXCEPT ![t] = @ + 1]
  /\ Goto(r, "done")
  /\ UNCHANGED <<now, totp, redis, token, guesses, spent>>

ResetCommit(r, pw) ==
  LET t == proc[r].tok IN
  /\ At(r, "reset")
  /\ token' = [token EXCEPT ![t].used = TRUE]
  /\ SetPassword(pw)
  /\ Unlock
  /\ applied' = [applied EXCEPT ![t] = @ + 1]
  /\ Goto(r, "done")
  /\ UNCHANGED <<now, totp, redis, guesses, spent>>

(* changePassword compares the current password, waits for ERPNext, and    *)
(* commits.                                                                *)
ChangeStart(r) ==
  /\ Free(r)
  /\ Become(r, Begin(r, "change"))
  /\ UNCHANGED <<now, user, totp, redis, token, history>>

ChangeCommit(r, pw) ==
  /\ At(r, "change")
  /\ SetPassword(pw)
  /\ Goto(r, "done")
  /\ UNCHANGED <<now, failed, lockedUntil, totp, redis, token, wrong, guesses, spent, applied>>

-----------------------------------------------------------------------------
(* Time passes only while no request is older than MaxDelay; Redis drops   *)
(* the challenges whose TTL is over.                                       *)
Tick ==
  /\ now < MaxTime
  /\ \A r \in Request : Free(r) \/ now < proc[r].start + MaxDelay
  /\ now' = now + 1
  /\ live' = {c \in live : challenge[c].diesAt > now}
  /\ UNCHANGED <<user, totp, challenge, token, proc, history>>

LoginStep(r) ==
  \/ \E pw \in Password : LoginStart(r, pw)
  \/ LoginCompare(r) \/ LoginReject(r) \/ LoginAccept(r) \/ LoginGate(r)
  \/ \E c \in Challenge : IssueChallenge(r, c) \/ TotpStart(r, c)
  \/ TotpBurn(r) \/ TotpCode(r) \/ TotpConsume(r)
  \/ \E k \in Code : TotpBackup(r, k)
  \/ OpenSession(r)

EnrolStep(r) ==
  \/ SetupRead(r) \/ SetupWrite(r) \/ VerifyRead(r) \/ VerifyWrite(r)
  \/ RecoverWrite(r) \/ \E k \in Code : RecoverRead(r, k)

HandleForgotPassword(r) == ForgotStart(r) \/ \E t \in Token : ForgotMint(r, t)

HandleResetPassword(r) ==
  (\E t \in Token : ResetStart(r, t)) \/ \E pw \in Password : ResetCommit(r, pw)

HandleChangePassword(r) == ChangeStart(r) \/ \E pw \in Password : ChangeCommit(r, pw)

PasswordStep(r) == HandleForgotPassword(r) \/ HandleResetPassword(r) \/ HandleChangePassword(r)

Next ==
  \/ \E r \in Request : LoginStep(r) \/ EnrolStep(r) \/ PasswordStep(r) \/ Fail(r)
  \/ Disable
  \/ Tick

Spec == Init /\ [][Next]_vars

-----------------------------------------------------------------------------
(* Properties *)

(* What k requests can get out of a counter that each of them reads and    *)
(* later writes back one higher, until it reaches n: each step takes one   *)
(* of them away from the lowest level it has, and those levels are         *)
(* multisets, C(n + k - 1, k) of them.  One request gets n, two get        *)
(* n * (n + 1) / 2.                                                        *)
Profile(k, n) ==
  {f \in [1..(n - 1) -> 0..k] : \A x, y \in 1..(n - 1) : x <= y => f[x] <= f[y]}

Budget(k, n) == Cardinality(Profile(k, n))

InFlight == Cardinality(Request)

(* The lock engages: failedLoginAttempts is read and written back in two   *)
(* steps, so concurrent logins lose counts and even set it back, yet the   *)
(* passwords refused before the lock stay within the budget.               *)
LockEngages == wrong < Budget(InFlight, MaxAttempts)

(* Backup codes are consumed by the same read and write back: a code can   *)
(* be accepted twice or come back, but no more are ever accepted than the  *)
(* budget.                                                                 *)
BackupBounded == spent < Budget(InFlight, Cardinality(Code) + 1)

(* A challenge buys one second factor per request that read it before it   *)
(* was first deleted, and none afterwards.                                 *)
ChallengeBurns == \A c \in Challenge : guesses[c] <= InFlight

(* A reset token sets a password once per request that validated it before *)
(* it was first used, and never afterwards.                                *)
ResetBurns == \A t \in Token : applied[t] <= InFlight

(* A password that was replaced opens no session any more once the logins  *)
(* and the challenges of its time are over, whichever order they end in.   *)
Aftermath == ChallengeTtl + 2 * MaxDelay

OldPasswordDies ==
  [][\A r \in Request : OpenSession(r) =>
       proc[r].pw = hash \/ now <= replacedAt[proc[r].pw] + Aftermath]_vars

(* What handleLoginTotp says of its challenge: exactly one guess per       *)
(* password authentication.                                                *)
OneGuess == \A c \in Challenge : guesses[c] <= 1
=============================================================================
