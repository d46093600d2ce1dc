----------------------------- MODULE LoginProofs -----------------------------
(***************************************************************************)
(* Proofs about LoginFlow, for any number of requests, passwords,          *)
(* challenges and tokens and any lengths of the TTLs.                      *)
(***************************************************************************)
EXTENDS LoginFlow, FiniteSetTheorems, TLAPS

(* A request in flight is between 0 and MaxDelay old. *)
Young(r) == ~Free(r) => proc[r].start <= now /\ now <= proc[r].start + MaxDelay

(* The password a request got in with was right when the request began,    *)
(* or when the challenge it redeems was issued.                            *)
Knew(r) ==
  /\ proc[r].pc \in {"compare", "reject", "accept", "gate", "issue", "open", "burn", "second", "consume"}
       => proc[r].pw \in Password
  /\ proc[r].pc \in {"accept", "gate", "issue"}
       => proc[r].pw = hash \/ proc[r].start <= replacedAt[proc[r].pw]
  /\ proc[r].pc \in {"open", "burn", "second", "consume"}
       => proc[r].pw = hash \/ proc[r].start <= replacedAt[proc[r].pw] + MaxDelay + ChallengeTtl
  /\ proc[r].pc \in {"burn", "second"} => proc[r].chal \in Challenge
  /\ proc[r].pc = "reset" => proc[r].tok \in Token

(* And so was the password of every challenge, which is gone soon. *)
Issued ==
  \A c \in Challenge :
    /\ c \in live => now <= challenge[c].diesAt
    /\ challenge[c].pw # None =>
         /\ challenge[c].diesAt <= now + ChallengeTtl
         /\ \/ challenge[c].pw = hash
            \/ challenge[c].diesAt <= replacedAt[challenge[c].pw] + MaxDelay + ChallengeTtl

Replaced == \A p \in Password : replacedAt[p] <= now

Requests == \A r \in Request : Young(r) /\ Knew(r)

LInv == TypeOK /\ Replaced /\ Requests /\ Issued

-----------------------------------------------------------------------------
(* A step of one request, as every handler takes it. *)
LEMMA BecomeType ==
  ASSUME TypeOK, NEW r \in Request, NEW p \in Proc, Become(r, p)
  PROVE  /\ proc' \in [Request -> Proc]
         /\ proc' = [proc EXCEPT ![r] = IF p.pc = "done" THEN Idle ELSE p]
<1>1. Idle \in Proc
  BY DEF Idle, Proc, PC, Time
<1> QED BY <1>1 DEF TypeOK, Become

(* A request goes on to another point of its handler. *)
LEMMA GotoType ==
  ASSUME TypeOK, NEW r \in Request, NEW pc \in PC, Goto(r, pc)
  PROVE  /\ proc' \in [Request -> Proc]
         /\ \A q \in Request \ {r} : proc'[q] = proc[q]
         /\ pc = "done" => proc'[r] = Idle
         /\ pc # "done" => /\ proc'[r].pc = pc
                           /\ proc'[r].start = proc[r].start
                           /\ proc'[r].pw = proc[r].pw
                           /\ proc'[r].saw = proc[r].saw
                           /\ proc'[r].chal = proc[r].chal
                           /\ proc'[r].codes = proc[r].codes
                           /\ proc'[r].tok = proc[r].tok
<1> DEFINE p == [proc[r] EXCEPT !.pc = pc]
<1>1. p \in Proc /\ p.pc = pc /\ p.start = proc[r].start /\ p.pw = proc[r].pw
      /\ p.chal = proc[r].chal /\ p.tok = proc[r].tok
      /\ p.saw = proc[r].saw /\ p.codes = proc[r].codes
  BY DEF TypeOK, Proc
<1>2. Become(r, p)
  BY DEF Goto
<1> HIDE DEF p
<1>3. proc' \in [Request -> Proc] /\ proc' = [proc EXCEPT ![r] = IF p.pc = "done" THEN Idle ELSE p]
  BY <1>1, <1>2, BecomeType
<1> QED BY <1>1, <1>3 DEF TypeOK

(* A free request begins. *)
LEMMA BeginType ==
  ASSUME TypeOK, NEW r \in Request, NEW pc \in PC
  PROVE  /\ Begin(r, pc) \in Proc
         /\ Begin(r, pc).pc = pc
         /\ Begin(r, pc).start = now
<1>1. Idle \in Proc
  BY DEF Idle, Proc, PC, Time
<1> QED BY <1>1 DEF Begin, TypeOK, Proc, Time

(* A request that begins: only its own record changes. *)
LEMMA StartType ==
  ASSUME TypeOK, NEW r \in Request, NEW p \in Proc, p.pc # "done", Become(r, p)
  PROVE  /\ proc' \in [Request -> Proc]
         /\ proc'[r] = p
         /\ \A q \in Request \ {r} : proc'[q] = proc[q]
  BY BecomeType DEF TypeOK

(* A new password: the old one was replaced now. *)
LEMMA SetPasswordType ==
  ASSUME TypeOK, NEW pw \in Password, SetPassword(pw)
  PROVE  hash' \in Password /\ replacedAt' \in [Password -> Time]
  BY DEF TypeOK, SetPassword, Time

-----------------------------------------------------------------------------
(* The initial state satisfies the invariant. *)
LEMMA InitHolds == Init => LInv
<1> SUFFICES ASSUME Init PROVE LInv
  OBVIOUS
<1> USE LoginAssumption
<1>1. Idle \in Proc
  BY DEF Idle, Proc, PC, Time
<1>2. totp \in [row : BOOLEAN, verified : BOOLEAN, codes : SUBSET Code] /\ (~totp.row => totp = NoRow)
  <2>1. CASE totp = NoRow
    BY <2>1 DEF NoRow
  <2>2. CASE totp = [row |-> TRUE, verified |-> TRUE, codes |-> Code]
    BY <2>2
  <2> QED BY <2>1, <2>2 DEF Init
<1>3. TypeOK
  BY <1>1, <1>2 DEF Init, TypeOK, Time
<1>4. Replaced /\ Requests /\ Issued
  BY DEF Init, Replaced, Requests, Young, Knew, Issued, Free, Idle, Time
<1> QED BY <1>3, <1>4 DEF LInv

(* No step leaves the types. *)
LEMMA TypeKept ==
  ASSUME LInv, [Next]_vars
  PROVE  TypeOK'
<1> USE LoginAssumption DEF LInv
<1>1. ASSUME NEW r \in Request, Fail(r) PROVE TypeOK'
  BY <1>1, GotoType DEF Fail, PC, TypeOK, user, redis, history
<1>2. ASSUME NEW r \in Request, NEW pw \in Password, LoginStart(r, pw) PROVE TypeOK'
  <2>1. [Begin(r, "compare") EXCEPT !.pw = pw, !.saw = failed] \in Proc
    <3>1. Begin(r, "compare") \in Proc
      BY BeginType DEF PC
    <3>2. failed \in Nat
      BY DEF TypeOK
    <3> QED BY <3>1, <3>2 DEF Proc
  <2> QED BY <1>2, <2>1, BecomeType DEF LoginStart, TypeOK, user, redis, history
<1>3. ASSUME NEW r \in Request, LoginCompare(r) PROVE TypeOK'
  BY <1>3, GotoType DEF LoginCompare, PC, TypeOK, user, redis, history
<1>4. ASSUME NEW r \in Request, LoginReject(r) PROVE TypeOK'
  <2>1. proc[r].saw \in Nat
    BY DEF TypeOK, Proc
  <2> QED BY <1>4, <2>1, GotoType DEF LoginReject, PC, TypeOK, Time, redis
<1>5. ASSUME NEW r \in Request, LoginAccept(r) PROVE TypeOK'
  BY <1>5, GotoType DEF LoginAccept, Unlock, PC, TypeOK, Time, redis
<1>6. ASSUME NEW r \in Request, LoginGate(r) PROVE TypeOK'
  BY <1>6, GotoType DEF LoginGate, PC, TypeOK, user, redis, history
<1>7. ASSUME NEW r \in Request, NEW c \in Challenge, IssueChallenge(r, c) PROVE TypeOK'
  <2>1. proc[r].pw \in Password /\ proc[r].pw # None
    BY <1>7 DEF IssueChallenge, At, Requests, Knew
  <2>2. proc' \in [Request -> Proc]
    BY <1>7, GotoType DEF IssueChallenge, PC
  <2>3. challenge' \in [Challenge -> [diesAt : Time, pw : Password \cup {None}]]
    BY <1>7, <2>1 DEF IssueChallenge, TypeOK, Time
  <2>4. live' \subseteq {d \in Challenge : challenge'[d].pw # None}
    BY <1>7, <2>1 DEF IssueChallenge, TypeOK
  <2> QED BY <1>7, <2>2, <2>3, <2>4 DEF IssueChallenge, TypeOK, user, history
<1>8. ASSUME NEW r \in Request, OpenSession(r) PROVE TypeOK'
  BY <1>8, GotoType DEF OpenSession, PC, TypeOK, user, redis, history
<1>9. ASSUME NEW r \in Request, NEW c \in Challenge, TotpStart(r, c) PROVE TypeOK'
  <2>1. [Begin(r, "burn") EXCEPT !.chal = c, !.pw = challenge[c].pw] \in Proc
    <3>1. Begin(r, "burn") \in Proc
      BY BeginType DEF PC
    <3>2. challenge[c].pw \in Password \cup {None}
      BY DEF TypeOK
    <3> QED BY <3>1, <3>2 DEF Proc
  <2> QED BY <1>9, <2>1, BecomeType DEF TotpStart, TypeOK, user, redis, history
<1>10. ASSUME NEW r \in Request, TotpBurn(r) PROVE TypeOK'
  BY <1>10, GotoType DEF TotpBurn, PC, TypeOK, user, history
<1>11. ASSUME NEW r \in Request, TotpCode(r) PROVE TypeOK'
  <2>1. proc[r].chal \in Challenge /\ guesses' \in [Challenge -> Nat]
    BY <1>11 DEF TotpCode, Guess, At, Requests, Knew, TypeOK
  <2>2. proc' \in [Request -> Proc]
    BY <1>11, GotoType DEF TotpCode, PC
  <2> QED BY <1>11, <2>1, <2>2 DEF TotpCode, TypeOK, user, redis
<1>12. ASSUME NEW r \in Request, NEW k \in Code, TotpBackup(r, k) PROVE TypeOK'
  <2>1. [proc[r] EXCEPT !.pc = "consume", !.codes = totp.codes \ {k}] \in Proc
    <3>1. totp.codes \ {k} \in SUBSET Code /\ proc[r] \in Proc
      BY DEF TypeOK
    <3> QED BY <3>1 DEF Proc, PC
  <2>2. guesses' \in [Challenge -> Nat]
    BY <1>12 DEF TotpBackup, Guess, At, Requests, Knew, TypeOK
  <2>3. proc' \in [Request -> Proc]
    BY <1>12, <2>1, BecomeType DEF TotpBackup
  <2> QED BY <1>12, <2>2, <2>3 DEF TotpBackup, TypeOK, user, redis
<1>13. ASSUME NEW r \in Request, TotpConsume(r) \/ RecoverWrite(r) PROVE TypeOK'
  <2>1. proc[r].codes \in SUBSET Code
    BY DEF TypeOK, Proc
  <2>2. proc' \in [Request -> Proc]
    BY <1>13, GotoType DEF TotpConsume, RecoverWrite, PC
  <2> QED BY <1>13, <2>1, <2>2 DEF TotpConsume, RecoverWrite, Spend, NoRow, TypeOK, user, redis
<1>14. ASSUME NEW r \in Request, SetupRead(r) PROVE TypeOK'
  <2>1. Begin(r, "setup") \in Proc
    BY BeginType DEF PC
  <2> QED BY <1>14, <2>1, BecomeType DEF SetupRead, TypeOK, user, redis, history
<1>15. ASSUME NEW r \in Request, SetupWrite(r) PROVE TypeOK'
  BY <1>15, GotoType DEF SetupWrite, PC, NoRow, TypeOK, user, redis
<1>16. ASSUME NEW r \in Request, VerifyRead(r) PROVE TypeOK'
  <2>1. Begin(r, "enable") \in Proc
    BY BeginType DEF PC
  <2> QED BY <1>16, <2>1, BecomeType DEF VerifyRead, TypeOK, user, redis, history
<1>17. ASSUME NEW r \in Request, VerifyWrite(r) PROVE TypeOK'
  BY <1>17, GotoType DEF VerifyWrite, PC, NoRow, TypeOK, user, redis, history
<1>18. ASSUME Disable PROVE TypeOK'
  BY <1>18 DEF Disable, NoRow, TypeOK, user, redis, history
<1>19. ASSUME NEW r \in Request, NEW k \in Code, RecoverRead(r, k) PROVE TypeOK'
  <2>1. [Begin(r, "recover") EXCEPT !.codes = totp.codes \ {k}] \in Proc
    <3>1. Begin(r, "recover") \in Proc
      BY BeginType DEF PC
    <3>2. totp.codes \ {k} \in SUBSET Code
      BY DEF TypeOK
    <3> QED BY <3>1, <3>2 DEF Proc
  <2> QED BY <1>19, <2>1, BecomeType DEF RecoverRead, TypeOK, user, redis, history
<1>20. ASSUME NEW r \in Request, ForgotStart(r) PROVE TypeOK'
  <2>1. Begin(r, "mint") \in Proc
    BY BeginType DEF PC
  <2> QED BY <1>20, <2>1, BecomeType DEF ForgotStart, TypeOK, user, redis, history
<1>21. ASSUME NEW r \in Request, NEW t \in Token, ForgotMint(r, t) PROVE TypeOK'
  BY <1>21, GotoType DEF ForgotMint, PC, Time, TypeOK, user, redis, history
<1>22. ASSUME NEW r \in Request, NEW t \in Token, ResetStart(r, t) PROVE TypeOK'
  <2>1. [Begin(r, "reset") EXCEPT !.tok = t] \in Proc
    <3>1. Begin(r, "reset") \in Proc
      BY BeginType DEF PC
    <3> QED BY <3>1 DEF Proc
  <2> QED BY <1>22, <2>1, BecomeType DEF ResetStart, TypeOK, user, redis, history
<1>23. ASSUME NEW r \in Request, NEW pw \in Password, ResetCommit(r, pw) PROVE TypeOK'
  <2>1. proc' \in [Request -> Proc]
    BY <1>23, GotoType DEF ResetCommit, PC
  <2>2. hash' \in Password /\ replacedAt' \in [Password -> Time]
    BY <1>23, SetPasswordType DEF ResetCommit
  <2>3. token' \in [Token -> [drawn : BOOLEAN, used : BOOLEAN, expiresAt : Time]]
    BY <1>23 DEF ResetCommit, TypeOK
  <2>4. applied' \in [Token -> Nat]
    BY <1>23 DEF ResetCommit, At, Requests, Knew, TypeOK
  <2> QED BY <1>23, <2>1, <2>2, <2>3, <2>4 DEF ResetCommit, Unlock, Time, TypeOK, redis
<1>24. ASSUME NEW r \in Request, ChangeStart(r) PROVE TypeOK'
  <2>1. Begin(r, "change") \in Proc
    BY BeginType DEF PC
  <2> QED BY <1>24, <2>1, BecomeType DEF ChangeStart, TypeOK, user, redis, history
<1>25. ASSUME NEW r \in Request, NEW pw \in Password, ChangeCommit(r, pw) PROVE TypeOK'
  <2>1. proc' \in [Request -> Proc]
    BY <1>25, GotoType DEF ChangeCommit, PC
  <2>2. hash' \in Password /\ replacedAt' \in [Password -> Time]
    BY <1>25, SetPasswordType DEF ChangeCommit
  <2> QED BY <1>25, <2>1, <2>2 DEF ChangeCommit, TypeOK, redis
<1>26. ASSUME Tick PROVE TypeOK'
  BY <1>26 DEF Tick, Time, TypeOK, user, history
<1>27. CASE UNCHANGED vars
  BY <1>27 DEF vars, TypeOK, user, redis, history
<1> QED
  BY <1>1, <1>2, <1>3, <1>4, <1>5, <1>6, <1>7, <1>8, <1>9, <1>10, <1>11, <1>12, <1>13,
     <1>14, <1>15, <1>16, <1>17, <1>18, <1>19, <1>20, <1>21, <1>22, <1>23, <1>24, <1>25,
     <1>26, <1>27 DEF Next, LoginStep, EnrolStep, PasswordStep,
        HandleForgotPassword, HandleResetPassword, HandleChangePassword

-----------------------------------------------------------------------------
(* A request that did not move knows what it knew. *)
LEMMA Still ==
  ASSUME LInv, NEW q \in Request, proc'[q] = proc[q], UNCHANGED <<now, hash, replacedAt>>
  PROVE  Young(q)' /\ Knew(q)'
  BY DEF LInv, Requests, Young, Knew, Free

(* One request moved: the others did not. *)
LEMMA OneMoved ==
  ASSUME LInv, NEW r \in Request, UNCHANGED <<now, hash, replacedAt>>,
         \A q \in Request \ {r} : proc'[q] = proc[q],
         Young(r)', Knew(r)'
  PROVE  Requests'
  BY Still DEF Requests

(* A request that ends. *)
LEMMA Ended ==
  ASSUME LInv, NEW r \in Request, UNCHANGED <<now, hash, replacedAt>>, Goto(r, "done")
  PROVE  Requests'
<1>1. "done" \in PC
  BY DEF PC
<1>2. (\A q \in Request \ {r} : proc'[q] = proc[q]) /\ proc'[r] = Idle
  BY <1>1, GotoType DEF LInv
<1>3. Young(r)' /\ Knew(r)'
  BY <1>2 DEF Young, Knew, Free, Idle
<1> QED BY <1>2, <1>3, OneMoved

(* A request that goes on. *)
LEMMA Moved ==
  ASSUME LInv, NEW r \in Request, UNCHANGED <<now, hash, replacedAt>>,
         NEW pc \in PC, pc # "done", ~Free(r), Goto(r, pc),
         pc \in {"compare", "reject", "accept", "gate", "issue", "open", "burn", "second", "consume"}
           => proc[r].pw \in Password,
         pc \in {"accept", "gate", "issue"}
           => proc[r].pw = hash \/ proc[r].start <= replacedAt[proc[r].pw],
         pc \in {"open", "burn", "second", "consume"}
           => proc[r].pw = hash \/ proc[r].start <= replacedAt[proc[r].pw] + MaxDelay + ChallengeTtl,
         pc \in {"burn", "second"} => proc[r].chal \in Challenge,
         pc # "reset"
  PROVE  Requests'
<1>1. (\A q \in Request \ {r} : proc'[q] = proc[q])
      /\ proc'[r].pc = pc /\ proc'[r].start = proc[r].start
      /\ proc'[r].pw = proc[r].pw /\ proc'[r].chal = proc[r].chal
  BY GotoType DEF LInv
<1>2. Young(r)' /\ Knew(r)'
  BY <1>1 DEF LInv, Requests, Young, Knew, Free
<1> QED BY <1>1, <1>2, OneMoved

(* A request that begins. *)
LEMMA Started ==
  ASSUME LInv, NEW r \in Request, UNCHANGED <<now, hash, replacedAt>>,
         NEW p \in Proc, p.start = now, Become(r, p),
         p.pc \in {"setup", "enable", "recover", "mint", "change", "compare"}
           \/ (p.pc = "reset" /\ p.tok \in Token),
         p.pc = "compare" => p.pw \in Password
  PROVE  Requests'
<1>1. proc'[r] = p /\ \A q \in Request \ {r} : proc'[q] = proc[q]
  BY StartType DEF LInv
<1>2. Young(r)' /\ Knew(r)'
  BY <1>1, LoginAssumption DEF LInv, TypeOK, Time, Young, Knew
<1> QED BY <1>1, <1>2, OneMoved

(* Nobody knows less when a password is replaced: it was replaced now. *)
LEMMA Renewed ==
  ASSUME LInv, NEW r \in Request, NEW pw \in Password, SetPassword(pw), Goto(r, "done"),
         UNCHANGED now
  PROVE  Requests' /\ Replaced'
<1> USE LoginAssumption
<1>1. "done" \in PC
  BY DEF PC
<1>2. (\A q \in Request \ {r} : proc'[q] = proc[q]) /\ proc'[r] = Idle
  BY <1>1, GotoType DEF LInv
<1>3. Young(r)' /\ Knew(r)'
  BY <1>2 DEF Young, Knew, Free, Idle
<1>4. hash \in Password /\ replacedAt \in [Password -> Nat] /\ now \in Nat
  BY DEF LInv, TypeOK, Time
<1>5. \A p \in Password : /\ replacedAt'[p] \in Nat /\ replacedAt[p] <= replacedAt'[p]
                          /\ p = hash => p = hash' \/ replacedAt'[p] = now
                          /\ replacedAt'[p] <= now
  BY <1>4 DEF LInv, Replaced, SetPassword
<1>6. ASSUME NEW q \in Request \ {r} PROVE Young(q)' /\ Knew(q)'
  <2>1. Young(q) /\ Knew(q) /\ proc'[q] = proc[q] /\ proc[q].start \in Nat
    BY <1>2 DEF LInv, Requests, TypeOK, Proc, Time
  <2>2. Young(q)'
    BY <2>1 DEF Young, Free
  <2>3. Knew(q)'
    <3>1. CASE proc[q].pc \in {"accept", "gate", "issue", "open", "burn", "second", "consume"}
      <4>1. proc[q].pw \in Password /\ proc[q].start <= now
        BY <2>1, <3>1 DEF Knew, Young, Free
      <4>2. /\ replacedAt'[proc[q].pw] \in Nat
            /\ replacedAt[proc[q].pw] <= replacedAt'[proc[q].pw]
            /\ proc[q].pw = hash => proc[q].pw = hash' \/ replacedAt'[proc[q].pw] = now
        BY <1>5, <4>1
      <4>3. replacedAt[proc[q].pw] \in Nat /\ MaxDelay + ChallengeTtl \in Nat
        BY <1>4, <4>1
      <4>4. CASE proc[q].pc \in {"accept", "gate", "issue"}
        <5>1. proc[q].pw = hash' \/ proc[q].start <= replacedAt'[proc[q].pw]
          BY <1>4, <2>1, <4>1, <4>2, <4>3, <4>4 DEF Knew
        <5> QED BY <2>1, <4>1, <4>4, <5>1 DEF Knew
      <4>5. CASE proc[q].pc \in {"open", "burn", "second", "consume"}
        <5>1. proc[q].pw = hash' \/ proc[q].start <= replacedAt'[proc[q].pw] + MaxDelay + ChallengeTtl
          BY <1>4, <2>1, <4>1, <4>2, <4>3, <4>5 DEF Knew
        <5> QED BY <2>1, <4>1, <4>5, <5>1 DEF Knew
      <4> QED BY <3>1, <4>4, <4>5
    <3>2. CASE proc[q].pc \notin {"accept", "gate", "issue", "open", "burn", "second", "consume"}
      BY <2>1, <3>2 DEF Knew
    <3> QED BY <3>1, <3>2
  <2> QED BY <2>2, <2>3
<1> QED BY <1>3, <1>5, <1>6 DEF Requests, Replaced

(* What the requests know holds on. *)
LEMMA RequestsKept ==
  ASSUME LInv, [Next]_vars
  PROVE  Requests' /\ Replaced'
<1> USE LoginAssumption
<1> DEFINE Quiet == UNCHANGED <<now, hash, replacedAt>>
<1>1. Quiet => Replaced'
  BY DEF LInv, Replaced
<1>2. ASSUME NEW r \in Request, LoginStep(r) PROVE Requests' /\ Replaced'
  <2>1. Quiet
    BY <1>2 DEF LoginStep, LoginStart, LoginCompare, LoginReject, LoginAccept, LoginGate, Unlock,
       IssueChallenge, TotpStart, TotpBurn, TotpCode, TotpConsume, TotpBackup, OpenSession,
       Guess, Spend, user, history
  <2> USE <2>1, <1>1
  <2>2. Young(r) /\ Knew(r) /\ proc[r].start \in Nat /\ hash \in Password
        /\ replacedAt \in [Password -> Nat] /\ now \in Nat
    BY DEF LInv, Requests, TypeOK, Proc, Time
  <2>3. ASSUME NEW pw \in Password, LoginStart(r, pw) PROVE Requests'
    <3> DEFINE p == [Begin(r, "compare") EXCEPT !.pw = pw, !.saw = failed]
    <3>1. Begin(r, "compare") \in Proc /\ Begin(r, "compare").pc = "compare"
          /\ Begin(r, "compare").start = now /\ failed \in Nat
      BY BeginType DEF LInv, PC, TypeOK
    <3>2. p \in Proc /\ p.pc = "compare" /\ p.start = now /\ p.pw = pw
      BY <3>1 DEF Proc
    <3>3. Become(r, p)
      BY <2>3 DEF LoginStart
    <3> HIDE DEF p
    <3> QED BY <3>2, <3>3, Started
  <2>4. CASE LoginCompare(r)
    <3>1. At(r, "compare") /\ ~Free(r) /\ proc[r].pw \in Password
      BY <2>2, <2>4 DEF LoginCompare, At, Free, Knew
    <3>2. CASE proc[r].pw = hash
      BY <2>4, <3>1, <3>2, Moved DEF LoginCompare, PC
    <3>3. CASE proc[r].pw # hash
      BY <2>4, <3>1, <3>3, Moved DEF LoginCompare, PC
    <3> QED BY <3>2, <3>3
  <2>5. CASE LoginReject(r) \/ OpenSession(r) \/ \E c \in Challenge : IssueChallenge(r, c)
    BY <2>5, Ended DEF LoginReject, OpenSession, IssueChallenge
  <2>6. CASE LoginAccept(r)
    BY <2>2, <2>6, Moved DEF LoginAccept, At, Free, Knew, PC
  <2>7. CASE LoginGate(r)
    <3>1. At(r, "gate") /\ ~Free(r) /\ proc[r].pw \in Password
          /\ (proc[r].pw = hash \/ proc[r].start <= replacedAt[proc[r].pw])
      BY <2>2, <2>7 DEF LoginGate, At, Free, Knew
    <3>2. proc[r].pw = hash \/ proc[r].start <= replacedAt[proc[r].pw] + MaxDelay + ChallengeTtl
      BY <2>2, <3>1
    <3>3. CASE Goto(r, "open")
      BY <3>1, <3>2, <3>3, Moved DEF PC
    <3>4. CASE Goto(r, "issue")
      BY <3>1, <3>4, Moved DEF PC
    <3> QED BY <2>7, <3>3, <3>4 DEF LoginGate
  <2>8. ASSUME NEW c \in Challenge, TotpStart(r, c) PROVE Requests'
    <3>1. /\ challenge[c].pw \in Password /\ now <= challenge[c].diesAt
          /\ challenge[c].diesAt \in Nat
          /\ \/ challenge[c].pw = hash
             \/ challenge[c].diesAt <= replacedAt[challenge[c].pw] + MaxDelay + ChallengeTtl
      BY <2>8 DEF TotpStart, LInv, TypeOK, Issued, Time
    <3> DEFINE p == [Begin(r, "burn") EXCEPT !.chal = c, !.pw = challenge[c].pw]
    <3>2. Begin(r, "burn") \in Proc /\ Begin(r, "burn").pc = "burn" /\ Begin(r, "burn").start = now
      BY BeginType DEF LInv, PC
    <3>3. p \in Proc /\ p.pc = "burn" /\ p.start = now /\ p.pw = challenge[c].pw /\ p.chal = c
      BY <3>1, <3>2 DEF Proc
    <3>4. Become(r, p)
      BY <2>8 DEF TotpStart
    <3> HIDE DEF p
    <3>5. proc'[r] = p /\ \A q \in Request \ {r} : proc'[q] = proc[q]
      BY <3>3, <3>4, StartType DEF LInv
    <3>6. now <= replacedAt[challenge[c].pw] + MaxDelay + ChallengeTtl \/ challenge[c].pw = hash
      BY <2>2, <3>1
    <3>7. Knew(r)'
      BY <3>1, <3>3, <3>5, <3>6 DEF Knew
    <3>8. Young(r)'
      BY <2>2, <3>3, <3>5 DEF Young
    <3> QED BY <3>5, <3>7, <3>8, OneMoved
  <2>9. CASE TotpBurn(r)
    BY <2>2, <2>9, Moved DEF TotpBurn, At, Free, Knew, PC
  <2>10. CASE TotpCode(r)
    <3>1. ~Free(r) /\ proc[r].pw \in Password
          /\ (proc[r].pw = hash \/ proc[r].start <= replacedAt[proc[r].pw] + MaxDelay + ChallengeTtl)
      BY <2>2, <2>10 DEF TotpCode, Guess, At, Free, Knew
    <3>2. CASE Goto(r, "open")
      BY <3>1, <3>2, Moved DEF PC
    <3> QED BY <2>10, <3>2, Ended DEF TotpCode
  <2>11. CASE TotpConsume(r)
    BY <2>2, <2>11, Moved DEF TotpConsume, At, Free, Knew, PC
  <2>12. ASSUME NEW k \in Code, TotpBackup(r, k) PROVE Requests'
    <3> DEFINE p == [proc[r] EXCEPT !.pc = "consume", !.codes = totp.codes \ {k}]
    <3>1. totp.codes \ {k} \in SUBSET Code /\ proc[r] \in Proc
      BY DEF LInv, TypeOK
    <3>2. p \in Proc /\ p.pc = "consume" /\ p.start = proc[r].start /\ p.pw = proc[r].pw
      BY <3>1 DEF Proc, PC
    <3>3. Become(r, p)
      BY <2>12 DEF TotpBackup
    <3> HIDE DEF p
    <3>4. proc'[r] = p /\ \A q \in Request \ {r} : proc'[q] = proc[q]
      BY <3>2, <3>3, StartType DEF LInv
    <3>5. At(r, "second")
      BY <2>12 DEF TotpBackup, Guess
    <3>6. Young(r)' /\ Knew(r)'
      BY <2>2, <3>2, <3>4, <3>5 DEF Young, Knew, At, Free
    <3> QED BY <3>4, <3>6, OneMoved
  <2> QED
    BY <1>2, <2>3, <2>4, <2>5, <2>6, <2>7, <2>8, <2>9, <2>10, <2>11, <2>12 DEF LoginStep
<1>3. ASSUME NEW r \in Request, EnrolStep(r) PROVE Requests' /\ Replaced'
  <2>1. Quiet
    BY <1>3 DEF EnrolStep, SetupRead, SetupWrite, VerifyRead, VerifyWrite, RecoverWrite,
       RecoverRead, Spend, user, history
  <2> USE <2>1, <1>1
  <2>2. CASE SetupRead(r)
    BY <2>2, BeginType, Started DEF SetupRead, LInv, PC
  <2>3. CASE VerifyRead(r)
    BY <2>3, BeginType, Started DEF VerifyRead, LInv, PC
  <2>4. CASE SetupWrite(r) \/ VerifyWrite(r) \/ RecoverWrite(r)
    BY <2>4, Ended DEF SetupWrite, VerifyWrite, RecoverWrite
  <2>5. ASSUME NEW k \in Code, RecoverRead(r, k) PROVE Requests'
    <3> DEFINE p == [Begin(r, "recover") EXCEPT !.codes = totp.codes \ {k}]
    <3>1. Begin(r, "recover") \in Proc /\ Begin(r, "recover").pc = "recover"
          /\ Begin(r, "recover").start = now /\ totp.codes \ {k} \in SUBSET Code
      BY BeginType DEF LInv, PC, TypeOK
    <3>2. p \in Proc /\ p.pc = "recover" /\ p.start = now
      BY <3>1 DEF Proc
    <3>3. Become(r, p)
      BY <2>5 DEF RecoverRead
    <3> HIDE DEF p
    <3> QED BY <3>2, <3>3, Started
  <2> QED BY <1>3, <2>2, <2>3, <2>4, <2>5 DEF EnrolStep
<1>4. ASSUME NEW r \in Request, PasswordStep(r) PROVE Requests' /\ Replaced'
  <2>1. CASE ForgotStart(r)
    BY <1>1, <2>1, BeginType, Started DEF ForgotStart, user, history, LInv, PC
  <2>2. CASE ChangeStart(r)
    BY <1>1, <2>2, BeginType, Started DEF ChangeStart, user, history, LInv, PC
  <2>3. ASSUME NEW t \in Token, ForgotMint(r, t) PROVE Requests' /\ Replaced'
    BY <1>1, <2>3, Ended DEF ForgotMint, user, history
  <2>4. ASSUME NEW t \in Token, ResetStart(r, t) PROVE Requests' /\ Replaced'
    <3> DEFINE p == [Begin(r, "reset") EXCEPT !.tok = t]
    <3>1. Begin(r, "reset") \in Proc /\ Begin(r, "reset").pc = "reset" /\ Begin(r, "reset").start = now
      BY BeginType DEF LInv, PC
    <3>2. p \in Proc /\ p.pc = "reset" /\ p.start = now /\ p.tok = t
      BY <3>1 DEF Proc
    <3>3. Become(r, p) /\ Quiet
      BY <2>4 DEF ResetStart, user, history
    <3> HIDE DEF p
    <3> QED BY <1>1, <3>2, <3>3, Started
  <2>5. ASSUME NEW pw \in Password, ResetCommit(r, pw) \/ ChangeCommit(r, pw)
        PROVE  Requests' /\ Replaced'
    BY <2>5, Renewed DEF ResetCommit, ChangeCommit
  <2> QED BY <1>4, <2>1, <2>2, <2>3, <2>4, <2>5 DEF PasswordStep,
    HandleForgotPassword, HandleResetPassword, HandleChangePassword
<1>5. ASSUME NEW r \in Request, Fail(r) PROVE Requests' /\ Replaced'
  BY <1>1, <1>5, Ended DEF Fail, user, history
<1>6. CASE Disable \/ UNCHANGED vars
  BY <1>1, <1>6, Still DEF Disable, vars, user, history, Requests
<1>7. CASE Tick
  <2>1. now \in Nat /\ now' = now + 1 /\ UNCHANGED <<proc, hash, replacedAt>>
    BY <1>7 DEF Tick, user, history, LInv, TypeOK, Time
  <2>2. Replaced'
    BY <2>1 DEF LInv, Replaced, TypeOK, Time
  <2>3. ASSUME NEW q \in Request PROVE Young(q)' /\ Knew(q)'
    <3>1. Young(q) /\ Knew(q) /\ proc[q].start \in Nat
      BY DEF LInv, Requests, TypeOK, Proc, Time
    <3>2. Free(q) \/ now < proc[q].start + MaxDelay
      BY <1>7 DEF Tick
    <3>3. Young(q)'
      BY <2>1, <3>1, <3>2 DEF Young, Free
    <3>4. Knew(q)'
      BY <2>1, <3>1 DEF Knew
    <3> QED BY <3>3, <3>4
  <2> QED BY <2>2, <2>3 DEF Requests
<1> QED BY <1>2, <1>3, <1>4, <1>5, <1>6, <1>7 DEF Next

-----------------------------------------------------------------------------
(* A new password replaces the old one now, and no challenge issued for    *)
(* the old one lives longer than ChallengeTtl from now.                    *)
LEMMA IssuedOutlived ==
  ASSUME LInv, NEW pw \in Password, SetPassword(pw), UNCHANGED <<now, redis>>
  PROVE  Issued'
<1> USE LoginAssumption
<1>1. hash \in Password /\ replacedAt \in [Password -> Nat] /\ now \in Nat
      /\ challenge \in [Challenge -> [diesAt : Nat, pw : Password \cup {None}]]
  BY DEF LInv, TypeOK, Time
<1>2. \A p \in Password : /\ replacedAt'[p] \in Nat /\ replacedAt[p] <= replacedAt'[p]
                          /\ p = hash => p = hash' \/ replacedAt'[p] = now
  BY <1>1 DEF LInv, Replaced, SetPassword
<1>3. ASSUME NEW c \in Challenge, challenge[c].pw # None
      PROVE  \/ challenge[c].pw = hash'
             \/ challenge[c].diesAt <= replacedAt'[challenge[c].pw] + MaxDelay + ChallengeTtl
  <2>1. challenge[c].pw \in Password /\ challenge[c].diesAt \in Nat
        /\ challenge[c].diesAt <= now + ChallengeTtl
    BY <1>1, <1>3 DEF LInv, Issued
  <2>2. CASE challenge[c].pw = hash
    BY <1>1, <1>2, <2>1, <2>2
  <2>3. CASE challenge[c].diesAt <= replacedAt[challenge[c].pw] + MaxDelay + ChallengeTtl
    BY <1>1, <1>2, <2>1, <2>3
  <2> QED BY <1>3, <2>2, <2>3 DEF LInv, Issued
<1> QED BY <1>3 DEF LInv, Issued, redis

(* Challenges are issued for a password that was right within MaxDelay. *)
LEMMA IssuedKept ==
  ASSUME LInv, [Next]_vars
  PROVE  Issued'
<1> USE LoginAssumption
<1>1. CASE UNCHANGED <<now, hash, redis, replacedAt>>
  BY <1>1 DEF LInv, Issued, redis
<1>2. ASSUME NEW r \in Request, LoginStep(r) PROVE Issued'
  <2>1. ASSUME NEW c \in Challenge, IssueChallenge(r, c) PROVE Issued'
    <3>1. /\ challenge' = [challenge EXCEPT ![c] = [diesAt |-> now + ChallengeTtl, pw |-> proc[r].pw]]
          /\ live' = live \cup {c} /\ UNCHANGED <<now, hash, replacedAt>>
          /\ proc[r].pc = "issue"
      BY <2>1 DEF IssueChallenge, At, user, history
    <3>2. /\ proc[r].pw \in Password /\ proc[r].start \in Nat /\ now \in Nat
          /\ (proc[r].pw = hash \/ proc[r].start <= replacedAt[proc[r].pw])
          /\ now <= proc[r].start + MaxDelay
          /\ replacedAt \in [Password -> Nat]
      BY <3>1 DEF LInv, Requests, Knew, Young, Free, TypeOK, Proc, Time
    <3>3. challenge'[c] = [diesAt |-> now + ChallengeTtl, pw |-> proc[r].pw]
          /\ \A d \in Challenge \ {c} : challenge'[d] = challenge[d]
      BY <3>1 DEF LInv, TypeOK
    <3>4. proc[r].pw = hash \/ now + ChallengeTtl <= replacedAt[proc[r].pw] + MaxDelay + ChallengeTtl
      BY <3>2
    <3>5. ASSUME NEW d \in Challenge \ {c}
          PROVE  /\ d \in live' => now' <= challenge'[d].diesAt
                 /\ challenge'[d].pw # None =>
                      /\ challenge'[d].diesAt <= now' + ChallengeTtl
                      /\ \/ challenge'[d].pw = hash'
                         \/ challenge'[d].diesAt <= replacedAt'[challenge'[d].pw] + MaxDelay + ChallengeTtl
      BY <3>1, <3>3 DEF LInv, Issued
    <3>6. /\ now' <= challenge'[c].diesAt
          /\ challenge'[c].diesAt <= now' + ChallengeTtl
          /\ \/ challenge'[c].pw = hash'
             \/ challenge'[c].diesAt <= replacedAt'[challenge'[c].pw] + MaxDelay + ChallengeTtl
      BY <3>1, <3>2, <3>3, <3>4
    <3> QED BY <3>5, <3>6 DEF Issued
  <2>2. CASE TotpBurn(r)
    BY <2>2 DEF TotpBurn, LInv, Issued, user, history
  <2>3. CASE ~TotpBurn(r) /\ ~\E c \in Challenge : IssueChallenge(r, c)
    <3>1. UNCHANGED <<now, hash, redis, replacedAt>>
      BY <1>2, <2>3 DEF LoginStep, LoginStart, LoginCompare, LoginReject, LoginAccept, LoginGate,
         Unlock, TotpStart, TotpCode, TotpConsume, TotpBackup, OpenSession, Guess, Spend,
         user, history
    <3> QED BY <1>1, <3>1, SMTT(30)
  <2> QED BY <2>1, <2>2, <2>3
<1>3. ASSUME NEW r \in Request, EnrolStep(r) PROVE Issued'
  <2>1. UNCHANGED <<now, hash, redis, replacedAt>>
    BY <1>3 DEF EnrolStep, SetupRead, SetupWrite, VerifyRead, VerifyWrite, RecoverWrite,
       RecoverRead, Spend, user, history
  <2> QED BY <1>1, <2>1
<1>4. ASSUME NEW r \in Request, PasswordStep(r) PROVE Issued'
  <2>1. ASSUME NEW pw \in Password, ResetCommit(r, pw) \/ ChangeCommit(r, pw) PROVE Issued'
    BY <2>1, IssuedOutlived DEF ResetCommit, ChangeCommit
  <2>2. CASE ~\E pw \in Password : ResetCommit(r, pw) \/ ChangeCommit(r, pw)
    <3>1. UNCHANGED <<now, hash, redis, replacedAt>>
      BY <1>4, <2>2 DEF PasswordStep, HandleForgotPassword, HandleResetPassword, HandleChangePassword,
        ForgotStart, ForgotMint, ResetStart, ChangeStart, user, history
    <3> QED BY <1>1, <3>1
  <2> QED BY <2>1, <2>2
<1>5. ASSUME NEW r \in Request, Fail(r) PROVE Issued'
  BY <1>1, <1>5 DEF Fail, user, history
<1>6. CASE Disable \/ UNCHANGED vars
  BY <1>1, <1>6 DEF Disable, vars, user, history
<1>7. CASE Tick
  <2>1. now \in Nat /\ now' = now + 1 /\ UNCHANGED <<challenge, hash, replacedAt>>
        /\ live' = {c \in live : challenge[c].diesAt > now}
        /\ \A c \in Challenge : challenge[c].diesAt \in Nat
    BY <1>7 DEF Tick, user, history, LInv, TypeOK, Time
  <2>2. ASSUME NEW c \in Challenge, c \in live' PROVE now' <= challenge'[c].diesAt
    BY <2>1, <2>2
  <2>3. ASSUME NEW c \in Challenge, challenge'[c].pw # None
        PROVE  /\ challenge'[c].diesAt <= now' + ChallengeTtl
               /\ \/ challenge'[c].pw = hash'
                  \/ challenge'[c].diesAt <= replacedAt'[challenge'[c].pw] + MaxDelay + ChallengeTtl
    <3>1. challenge[c].diesAt <= now + ChallengeTtl
          /\ \/ challenge[c].pw = hash
             \/ challenge[c].diesAt <= replacedAt[challenge[c].pw] + MaxDelay + ChallengeTtl
      BY <2>1, <2>3 DEF LInv, Issued
    <3> QED BY <2>1, <3>1
  <2> QED BY <2>2, <2>3 DEF Issued
<1> QED BY <1>2, <1>3, <1>4, <1>5, <1>6, <1>7 DEF Next

-----------------------------------------------------------------------------
(* The strengthened invariant of LoginFlow holds in every state. *)
THEOREM LoginInvariance == Spec => []LInv
<1>1. LInv /\ [Next]_vars => LInv'
  <2> SUFFICES ASSUME LInv, [Next]_vars PROVE LInv'
    OBVIOUS
  <2> QED BY TypeKept, RequestsKept, IssuedKept DEF LInv
<1> QED BY InitHolds, <1>1, PTL DEF Spec

(* Type correctness of the login flow, for any number of requests. *)
THEOREM LoginTypes == Spec => []TypeOK
<1>1. LInv => TypeOK
  BY DEF LInv
<1> QED BY LoginInvariance, <1>1, PTL

(* No request opens a session with a password that was replaced longer ago *)
(* than the lifetime of a challenge and the delays of the two requests     *)
(* (handleLogin and handleLoginTotp) that led to it.                       *)
THEOREM OldPasswordsDie == Spec => OldPasswordDies
<1>1. ASSUME LInv, NEW r \in Request, OpenSession(r)
      PROVE  proc[r].pw = hash \/ now <= replacedAt[proc[r].pw] + Aftermath
  <2>1. proc[r].pc = "open"
    BY <1>1 DEF OpenSession, At
  <2>2. Young(r) /\ Knew(r) /\ proc[r].start \in Nat /\ now \in Nat
        /\ replacedAt \in [Password -> Nat]
    BY <1>1 DEF LInv, Requests, TypeOK, Proc, Time
  <2>3. /\ proc[r].pw \in Password /\ now <= proc[r].start + MaxDelay
        /\ \/ proc[r].pw = hash
           \/ proc[r].start <= replacedAt[proc[r].pw] + MaxDelay + ChallengeTtl
    BY <2>1, <2>2 DEF Young, Knew, Free
  <2> QED BY <2>2, <2>3, LoginAssumption DEF Aftermath
<1>2. LInv /\ [Next]_vars
        => [\A r \in Request : OpenSession(r) =>
              proc[r].pw = hash \/ now <= replacedAt[proc[r].pw] + Aftermath]_vars
  BY <1>1
<1> QED BY LoginInvariance, <1>2, PTL DEF Spec, OldPasswordDies
-----------------------------------------------------------------------------
(* The requests that read challenge c and may still try a second factor,   *)
(* and those that validated reset token t and may still set a password.    *)
Redeeming(c) == {r \in Request : proc[r].pc \in {"burn", "second"} /\ proc[r].chal = c}
Resetting(t) == {r \in Request : proc[r].pc = "reset" /\ proc[r].tok = t}

(* Each of them accounts for one guess, and none joins them once a         *)
(* challenge is deleted.                                                   *)
Burning ==
  \A c \in Challenge :
    /\ guesses[c] + Cardinality(Redeeming(c)) <= InFlight
    /\ c \in live => guesses[c] = 0 /\ \A r \in Redeeming(c) : proc[r].pc = "burn"
    /\ challenge[c].pw = None => guesses[c] = 0 /\ Redeeming(c) = {}

(* And for one password, and none joins them once a token is used. *)
Using ==
  \A t \in Token :
    /\ applied[t] + Cardinality(Resetting(t)) <= InFlight
    /\ ~token[t].drawn \/ ~token[t].used => applied[t] = 0
    /\ ~token[t].drawn => Resetting(t) = {}

BurnInv == LInv /\ Burning /\ Using

(* Nobody joins either set. *)
NoneJoins ==
  \A q \in Request : proc'[q].pc \in {"burn", "second", "reset"} => proc'[q] = proc[q]

(* Counting requests. *)
LEMMA Count ==
  ASSUME NEW S \in SUBSET Request
  PROVE  /\ Cardinality(S) \in Nat /\ InFlight \in Nat /\ Cardinality(S) <= InFlight
         /\ \A T \in SUBSET S : Cardinality(T) \in Nat /\ Cardinality(T) <= Cardinality(S)
         /\ \A r \in S : Cardinality(S \ {r}) = Cardinality(S) - 1
<1>1. IsFiniteSet(Request) /\ IsFiniteSet(S)
  BY LoginAssumption, FS_Subset
<1>2. Cardinality(S) \in Nat /\ InFlight \in Nat
  BY <1>1, FS_CardinalityType DEF InFlight
<1>3. Cardinality(S) <= InFlight
  BY <1>1, FS_Subset DEF InFlight
<1>4. ASSUME NEW T \in SUBSET S PROVE Cardinality(T) \in Nat /\ Cardinality(T) <= Cardinality(S)
  BY <1>1, FS_Subset, FS_CardinalityType
<1>5. ASSUME NEW r \in S PROVE Cardinality(S \ {r}) = Cardinality(S) - 1
  BY <1>1, <1>5, FS_RemoveElement
<1> QED BY <1>2, <1>3, <1>4, <1>5

(* A request that ends or goes on elsewhere joins neither set. *)
LEMMA GotoJoinsNot ==
  ASSUME LInv, NEW r \in Request, NEW pc \in PC, pc \notin {"burn", "second", "reset"}, Goto(r, pc)
  PROVE  NoneJoins /\ proc'[r].pc \notin {"burn", "second", "reset"}
<1>1. Idle.pc = "done"
  BY DEF Idle
<1>2. (\A q \in Request \ {r} : proc'[q] = proc[q]) /\ proc'[r].pc \notin {"burn", "second", "reset"}
  BY <1>1, GotoType DEF LInv
<1> QED BY <1>2 DEF NoneJoins

(* Nor does one that begins elsewhere. *)
LEMMA BeginJoinsNot ==
  ASSUME LInv, NEW r \in Request, NEW p \in Proc,
         p.pc \notin {"done", "burn", "second", "reset"}, Become(r, p)
  PROVE  NoneJoins /\ proc'[r].pc \notin {"burn", "second", "reset"}
<1>1. proc'[r] = p /\ \A q \in Request \ {r} : proc'[q] = proc[q]
  BY StartType DEF LInv
<1> QED BY <1>1 DEF NoneJoins

(* Burning holds on while nobody joins and no guess is made. *)
LEMMA BurningStays ==
  ASSUME LInv, Burning, NoneJoins, UNCHANGED guesses,
         \A c \in Challenge : c \in live' => c \in live \/ challenge[c].pw = None,
         \A c \in Challenge : challenge'[c].pw = None => challenge[c].pw = None
  PROVE  Burning'
<1> SUFFICES ASSUME NEW c \in Challenge
             PROVE  /\ guesses[c] + Cardinality(Redeeming(c)') <= InFlight
                    /\ c \in live' => guesses[c] = 0 /\ \A r \in Redeeming(c)' : proc'[r].pc = "burn"
                    /\ challenge'[c].pw = None => guesses[c] = 0 /\ Redeeming(c)' = {}
  BY DEF Burning, InFlight
<1>1. /\ Redeeming(c)' \subseteq Redeeming(c)
      /\ \A q \in Redeeming(c)' : proc'[q].pc = proc[q].pc
  BY DEF NoneJoins, Redeeming
<1>2. Redeeming(c) \in SUBSET Request /\ guesses[c] \in Nat
  BY DEF Redeeming, LInv, TypeOK
<1>3. Cardinality(Redeeming(c)') <= Cardinality(Redeeming(c))
      /\ Cardinality(Redeeming(c)') \in Nat /\ Cardinality(Redeeming(c)) \in Nat /\ InFlight \in Nat
  BY <1>1, <1>2, Count
<1>4. guesses[c] + Cardinality(Redeeming(c)') <= InFlight
  BY <1>2, <1>3 DEF Burning
<1> QED BY <1>1, <1>4 DEF Burning

(* Using holds on while nobody joins and no password is set by a token. *)
LEMMA UsingStays ==
  ASSUME LInv, Using, NoneJoins, UNCHANGED applied,
         \A t \in Token : ~token'[t].drawn => ~token[t].drawn,
         \A t \in Token : ~token'[t].used => ~token[t].drawn \/ ~token[t].used
  PROVE  Using'
<1> SUFFICES ASSUME NEW t \in Token
             PROVE  /\ applied[t] + Cardinality(Resetting(t)') <= InFlight
                    /\ ~token'[t].drawn \/ ~token'[t].used => applied[t] = 0
                    /\ ~token'[t].drawn => Resetting(t)' = {}
  BY DEF Using, InFlight
<1>1. Resetting(t)' \subseteq Resetting(t)
  BY DEF NoneJoins, Resetting
<1>2. Resetting(t) \in SUBSET Request /\ applied[t] \in Nat
  BY DEF Resetting, LInv, TypeOK
<1>3. Cardinality(Resetting(t)') <= Cardinality(Resetting(t))
      /\ Cardinality(Resetting(t)') \in Nat /\ Cardinality(Resetting(t)) \in Nat /\ InFlight \in Nat
  BY <1>1, <1>2, Count
<1>4. applied[t] + Cardinality(Resetting(t)') <= InFlight
  BY <1>2, <1>3 DEF Using
<1> QED BY <1>1, <1>4 DEF Using

(* Both hold on while nobody joins and what they are about is unchanged. *)
LEMMA BothStay ==
  ASSUME BurnInv, NoneJoins, UNCHANGED <<redis, token, guesses, applied>>
  PROVE  Burning' /\ Using'
<1>1. UNCHANGED <<live, challenge, token, guesses, applied>>
  BY DEF redis
<1> QED BY <1>1, BurningStays, UsingStays DEF BurnInv

(* A guess: one request fewer, one guess more. *)
LEMMA GuessCounts ==
  ASSUME BurnInv, NEW r \in Request, Guess(r), NoneJoins,
         proc'[r].pc \notin {"burn", "second", "reset"}, UNCHANGED redis
  PROVE  Burning'
<1> DEFINE d == proc[r].chal
<1>1. /\ d \in Challenge /\ r \in Redeeming(d) /\ proc[r].pc = "second"
      /\ guesses' = [guesses EXCEPT ![d] = @ + 1] /\ UNCHANGED <<live, challenge>>
  BY DEF Guess, At, BurnInv, LInv, Requests, Knew, Redeeming, redis
<1>2. d \notin live /\ challenge[d].pw # None
  BY <1>1 DEF BurnInv, Burning
<1> SUFFICES ASSUME NEW c \in Challenge
             PROVE  /\ guesses'[c] + Cardinality(Redeeming(c)') <= InFlight
                    /\ c \in live => guesses'[c] = 0 /\ \A q \in Redeeming(c)' : proc'[q].pc = "burn"
                    /\ challenge[c].pw = None => guesses'[c] = 0 /\ Redeeming(c)' = {}
  BY <1>1 DEF Burning, InFlight
<1>3. /\ Redeeming(c)' \subseteq Redeeming(c) \ {r}
      /\ \A q \in Redeeming(c)' : proc'[q].pc = proc[q].pc
  BY DEF NoneJoins, Redeeming
<1>4. Redeeming(c) \in SUBSET Request /\ Redeeming(c) \ {r} \in SUBSET Request /\ guesses[c] \in Nat
  BY DEF Redeeming, BurnInv, LInv, TypeOK
<1>5. /\ Cardinality(Redeeming(c)') \in Nat /\ Cardinality(Redeeming(c)) \in Nat /\ InFlight \in Nat
      /\ Cardinality(Redeeming(c) \ {r}) \in Nat
      /\ Cardinality(Redeeming(c)') <= Cardinality(Redeeming(c) \ {r})
      /\ Cardinality(Redeeming(c) \ {r}) <= Cardinality(Redeeming(c))
      /\ r \in Redeeming(c) => Cardinality(Redeeming(c) \ {r}) = Cardinality(Redeeming(c)) - 1
  BY <1>3, <1>4, Count
<1>6. guesses[c] + Cardinality(Redeeming(c)) <= InFlight
  BY DEF BurnInv, Burning
<1>7. CASE c = d
  <2>1. guesses'[c] = guesses[c] + 1
    BY <1>1, <1>7 DEF BurnInv, LInv, TypeOK
  <2> QED BY <1>1, <1>2, <1>4, <1>5, <1>6, <1>7, <2>1
<1>8. CASE c # d
  <2>1. guesses'[c] = guesses[c]
    BY <1>1, <1>8 DEF BurnInv, LInv, TypeOK
  <2>2. guesses'[c] + Cardinality(Redeeming(c)') <= InFlight
    BY <1>4, <1>5, <1>6, <2>1
  <2> QED BY <1>3, <2>1, <2>2 DEF BurnInv, Burning
<1> QED BY <1>7, <1>8

(* Steps of /auth/login and /auth/login/totp. *)
LEMMA LoginBurns ==
  ASSUME BurnInv, NEW r \in Request, LoginStep(r)
  PROVE  Burning' /\ Using'
<1> USE DEF BurnInv
<1>1. ASSUME NEW pw \in Password, LoginStart(r, pw) PROVE Burning' /\ Using'
  <2> DEFINE p == [Begin(r, "compare") EXCEPT !.pw = pw, !.saw = failed]
  <2>1. Begin(r, "compare") \in Proc /\ Begin(r, "compare").pc = "compare" /\ failed \in Nat
    BY BeginType DEF LInv, PC, TypeOK
  <2>2. p \in Proc /\ p.pc = "compare"
    BY <2>1 DEF Proc
  <2>3. Become(r, p)
    BY <1>1 DEF LoginStart
  <2> HIDE DEF p
  <2>4. NoneJoins
    BY <2>2, <2>3, BeginJoinsNot
  <2> QED BY <1>1, <2>4, BothStay DEF LoginStart, history
<1>2. CASE LoginCompare(r) \/ LoginReject(r) \/ LoginAccept(r) \/ LoginGate(r) \/ OpenSession(r)
           \/ TotpConsume(r)
  <2>1. \E pc \in PC \ {"burn", "second", "reset"} : Goto(r, pc)
    BY <1>2 DEF LoginCompare, LoginReject, LoginAccept, LoginGate, OpenSession, TotpConsume, PC
  <2>2. NoneJoins
    BY <2>1, GotoJoinsNot
  <2>3. UNCHANGED <<redis, token, guesses, applied>>
    BY <1>2 DEF LoginCompare, LoginReject, LoginAccept, LoginGate, OpenSession, TotpConsume, history
  <2> QED BY <2>2, <2>3, BothStay
<1>3. ASSUME NEW c \in Challenge, IssueChallenge(r, c) PROVE Burning' /\ Using'
  <2>1. NoneJoins
    BY <1>3, GotoJoinsNot DEF IssueChallenge, PC
  <2>2. UNCHANGED <<token, guesses, applied>> /\ live' = live \cup {c} /\ challenge[c].pw = None
        /\ \A d \in Challenge : challenge'[d].pw = None => challenge[d].pw = None
    BY <1>3 DEF IssueChallenge, history, LInv, TypeOK
  <2> QED BY <2>1, <2>2, BurningStays, UsingStays
<1>4. ASSUME NEW c \in Challenge, TotpStart(r, c) PROVE Burning' /\ Using'
  <2> DEFINE p == [Begin(r, "burn") EXCEPT !.chal = c, !.pw = challenge[c].pw]
  <2>1. Begin(r, "burn") \in Proc /\ Begin(r, "burn").pc = "burn"
        /\ challenge[c].pw \in Password \cup {None} /\ c \in live /\ challenge[c].pw # None
    BY <1>4, BeginType DEF TotpStart, LInv, PC, TypeOK
  <2>2. p \in Proc /\ p.pc = "burn" /\ p.chal = c
    BY <2>1 DEF Proc
  <2>3. Become(r, p) /\ UNCHANGED <<live, challenge, token, guesses, applied>>
    BY <1>4 DEF TotpStart, redis, history
  <2> HIDE DEF p
  <2>4. proc'[r] = p /\ \A q \in Request \ {r} : proc'[q] = proc[q]
    BY <2>2, <2>3, StartType DEF LInv
  <2>5. ASSUME NEW d \in Challenge
        PROVE  /\ guesses[d] + Cardinality(Redeeming(d)') <= InFlight
               /\ d \in live => guesses[d] = 0 /\ \A q \in Redeeming(d)' : proc'[q].pc = "burn"
               /\ challenge[d].pw = None => guesses[d] = 0 /\ Redeeming(d)' = {}
    <3>1. Redeeming(d) \in SUBSET Request /\ Redeeming(d)' \in SUBSET Request /\ guesses[d] \in Nat
      BY DEF Redeeming, LInv, TypeOK
    <3>2. d # c => Redeeming(d)' \subseteq Redeeming(d)
      BY <2>2, <2>4 DEF Redeeming
    <3>3. Redeeming(d)' \subseteq Redeeming(d) \cup {r}
          /\ \A q \in Redeeming(d)' : q # r => proc'[q].pc = proc[q].pc
      BY <2>4 DEF Redeeming
    <3>4. /\ Cardinality(Redeeming(d)') \in Nat /\ Cardinality(Redeeming(d)') <= InFlight
          /\ InFlight \in Nat
          /\ Cardinality(Redeeming(d)) \in Nat
          /\ d # c => Cardinality(Redeeming(d)') <= Cardinality(Redeeming(d))
      BY <3>1, <3>2, Count
    <3>5. guesses[d] + Cardinality(Redeeming(d)') <= InFlight
      <4>1. guesses[d] + Cardinality(Redeeming(d)) <= InFlight /\ (d = c => guesses[d] = 0)
        BY <2>1 DEF Burning
      <4> QED BY <3>1, <3>4, <4>1
    <3>6. d \in live => \A q \in Redeeming(d)' : proc'[q].pc = "burn"
      BY <2>2, <2>4, <3>3 DEF Burning
    <3> QED BY <2>1, <3>2, <3>5, <3>6 DEF Burning
  <2>6. Burning'
    BY <2>3, <2>5 DEF Burning, InFlight
  <2>7. ASSUME NEW t \in Token
        PROVE  /\ applied[t] + Cardinality(Resetting(t)') <= InFlight
               /\ ~token[t].drawn \/ ~token[t].used => applied[t] = 0
               /\ ~token[t].drawn => Resetting(t)' = {}
    <3>1. Resetting(t)' \subseteq Resetting(t) /\ Resetting(t) \in SUBSET Request /\ applied[t] \in Nat
      BY <2>2, <2>4 DEF Resetting, LInv, TypeOK
    <3>2. Cardinality(Resetting(t)') \in Nat /\ Cardinality(Resetting(t)) \in Nat /\ InFlight \in Nat
          /\ Cardinality(Resetting(t)') <= Cardinality(Resetting(t))
      BY <3>1, Count
    <3> QED BY <3>1, <3>2 DEF Using
  <2>8. Using'
    BY <2>3, <2>7 DEF Using, InFlight
  <2> QED BY <2>6, <2>8
<1>5. CASE TotpBurn(r)
  <2>1. /\ proc[r].pc = "burn" /\ Goto(r, "second") /\ live' = live \ {proc[r].chal}
        /\ UNCHANGED <<challenge, token, guesses, applied>>
    BY <1>5 DEF TotpBurn, At, history
  <2>2. (\A q \in Request \ {r} : proc'[q] = proc[q])
        /\ proc'[r].pc = "second" /\ proc'[r].chal = proc[r].chal
    BY <2>1, GotoType DEF LInv, PC
  <2>3. \A c \in Challenge : Redeeming(c)' = Redeeming(c)
    BY <2>1, <2>2 DEF Redeeming
  <2>4. ASSUME NEW c \in Challenge, c \in live', NEW q \in Redeeming(c)' PROVE proc'[q].pc = "burn"
    <3>1. q # r
      BY <2>1, <2>2, <2>4 DEF Redeeming
    <3> QED BY <2>1, <2>2, <2>3, <2>4, <3>1 DEF Burning, Redeeming
  <2>5. Burning'
    BY <2>1, <2>3, <2>4 DEF Burning, InFlight
  <2>6. \A t \in Token : Resetting(t)' = Resetting(t)
    BY <2>1, <2>2 DEF Resetting
  <2>7. Using'
    BY <2>1, <2>6 DEF Using, InFlight
  <2> QED BY <2>5, <2>7
<1>6. CASE TotpCode(r)
  <2>1. NoneJoins /\ proc'[r].pc \notin {"burn", "second", "reset"}
    BY <1>6, GotoJoinsNot DEF TotpCode, PC
  <2>2. Burning'
    BY <1>6, <2>1, GuessCounts DEF TotpCode
  <2>3. Using'
    BY <1>6, <2>1, UsingStays DEF TotpCode
  <2> QED BY <2>2, <2>3
<1>7. ASSUME NEW k \in Code, TotpBackup(r, k) PROVE Burning' /\ Using'
  <2> DEFINE p == [proc[r] EXCEPT !.pc = "consume", !.codes = totp.codes \ {k}]
  <2>1. totp.codes \ {k} \in SUBSET Code /\ proc[r] \in Proc
    BY DEF LInv, TypeOK
  <2>2. p \in Proc /\ p.pc = "consume"
    BY <2>1 DEF Proc, PC
  <2>3. Become(r, p)
    BY <1>7 DEF TotpBackup
  <2> HIDE DEF p
  <2>4. NoneJoins /\ proc'[r].pc \notin {"burn", "second", "reset"}
    BY <2>2, <2>3, BeginJoinsNot
  <2>5. Burning'
    BY <1>7, <2>4, GuessCounts DEF TotpBackup
  <2>6. Using'
    BY <1>7, <2>4, UsingStays DEF TotpBackup
  <2> QED BY <2>5, <2>6
<1> QED BY <1>1, <1>2, <1>3, <1>4, <1>5, <1>6, <1>7 DEF LoginStep

(* Steps of /auth/2fa: no challenge and no token. *)
LEMMA EnrolBurns ==
  ASSUME BurnInv, NEW r \in Request, EnrolStep(r)
  PROVE  Burning' /\ Using'
<1> USE DEF BurnInv
<1>1. UNCHANGED <<redis, token, guesses, applied>>
  BY DEF EnrolStep, SetupRead, SetupWrite, VerifyRead, VerifyWrite, RecoverWrite, RecoverRead,
     Spend, history
<1>2. CASE SetupRead(r)
  <2>1. Become(r, Begin(r, "setup")) /\ Begin(r, "setup") \in Proc /\ Begin(r, "setup").pc = "setup"
    BY <1>2, BeginType DEF SetupRead, LInv, PC
  <2> QED BY <1>1, <2>1, BeginJoinsNot, BothStay
<1>3. CASE VerifyRead(r)
  <2>1. Become(r, Begin(r, "enable")) /\ Begin(r, "enable") \in Proc /\ Begin(r, "enable").pc = "enable"
    BY <1>3, BeginType DEF VerifyRead, LInv, PC
  <2> QED BY <1>1, <2>1, BeginJoinsNot, BothStay
<1>4. CASE SetupWrite(r) \/ VerifyWrite(r) \/ RecoverWrite(r)
  <2>1. Goto(r, "done") /\ "done" \in PC
    BY <1>4 DEF SetupWrite, VerifyWrite, RecoverWrite, PC
  <2> QED BY <1>1, <2>1, GotoJoinsNot, BothStay
<1>5. ASSUME NEW k \in Code, RecoverRead(r, k) PROVE Burning' /\ Using'
  <2> DEFINE p == [Begin(r, "recover") EXCEPT !.codes = totp.codes \ {k}]
  <2>1. Begin(r, "recover") \in Proc /\ Begin(r, "recover").pc = "recover"
        /\ totp.codes \ {k} \in SUBSET Code
    BY BeginType DEF LInv, PC, TypeOK
  <2>2. p \in Proc /\ p.pc = "recover"
    BY <2>1 DEF Proc
  <2>3. Become(r, p)
    BY <1>5 DEF RecoverRead
  <2> HIDE DEF p
  <2> QED BY <1>1, <2>2, <2>3, BeginJoinsNot, BothStay
<1> QED BY <1>2, <1>3, <1>4, <1>5 DEF EnrolStep

(* Steps towards a new password. *)
LEMMA PasswordBurns ==
  ASSUME BurnInv, NEW r \in Request, PasswordStep(r)
  PROVE  Burning' /\ Using'
<1> USE DEF BurnInv
<1>1. CASE ForgotStart(r)
  <2>1. Become(r, Begin(r, "mint")) /\ Begin(r, "mint") \in Proc /\ Begin(r, "mint").pc = "mint"
    BY <1>1, BeginType DEF ForgotStart, LInv, PC
  <2>2. NoneJoins
    BY <2>1, BeginJoinsNot
  <2>3. UNCHANGED <<live, challenge, guesses, applied>>
        /\ \A t \in Token : (~token'[t].drawn => ~token[t].drawn)
                            /\ (~token'[t].used => ~token[t].drawn \/ ~token[t].used)
    BY <1>1 DEF ForgotStart, redis, history, LInv, TypeOK
  <2> QED BY <2>2, <2>3, BurningStays, UsingStays
<1>2. ASSUME NEW t \in Token, ForgotMint(r, t) PROVE Burning' /\ Using'
  <2>1. NoneJoins
    BY <1>2, GotoJoinsNot DEF ForgotMint, PC
  <2>2. UNCHANGED <<live, challenge, guesses, applied>>
        /\ \A s \in Token : (~token'[s].drawn => ~token[s].drawn)
                            /\ (~token'[s].used => ~token[s].drawn \/ ~token[s].used)
    BY <1>2 DEF ForgotMint, redis, history, LInv, TypeOK
  <2> QED BY <2>1, <2>2, BurningStays, UsingStays
<1>3. ASSUME NEW t \in Token, ResetStart(r, t) PROVE Burning' /\ Using'
  <2> DEFINE p == [Begin(r, "reset") EXCEPT !.tok = t]
  <2>1. Begin(r, "reset") \in Proc /\ Begin(r, "reset").pc = "reset"
    BY BeginType DEF LInv, PC
  <2>2. p \in Proc /\ p.pc = "reset" /\ p.tok = t
    BY <2>1 DEF Proc
  <2>3. Become(r, p) /\ UNCHANGED <<live, challenge, token, guesses, applied>>
        /\ token[t].drawn /\ ~token[t].used
    BY <1>3 DEF ResetStart, Usable, redis, history
  <2> HIDE DEF p
  <2>4. proc'[r] = p /\ \A q \in Request \ {r} : proc'[q] = proc[q]
    BY <2>2, <2>3, StartType DEF LInv
  <2>5. ASSUME NEW s \in Token
        PROVE  /\ applied[s] + Cardinality(Resetting(s)') <= InFlight
               /\ ~token[s].drawn => Resetting(s)' = {}
    <3>1. Resetting(s) \in SUBSET Request /\ Resetting(s)' \in SUBSET Request /\ applied[s] \in Nat
      BY DEF Resetting, LInv, TypeOK
    <3>2. s # t => Resetting(s)' \subseteq Resetting(s)
      BY <2>2, <2>4 DEF Resetting
    <3>3. /\ Cardinality(Resetting(s)') \in Nat /\ Cardinality(Resetting(s)') <= InFlight
          /\ InFlight \in Nat
          /\ Cardinality(Resetting(s)) \in Nat
          /\ s # t => Cardinality(Resetting(s)') <= Cardinality(Resetting(s))
      BY <3>1, <3>2, Count
    <3>4. /\ applied[s] + Cardinality(Resetting(s)) <= InFlight
          /\ ~token[s].drawn => Resetting(s) = {}
          /\ s = t => applied[s] = 0
      BY <2>3 DEF Using
    <3>5. applied[s] + Cardinality(Resetting(s)') <= InFlight
      BY <3>1, <3>3, <3>4
    <3> QED BY <2>3, <3>2, <3>4, <3>5
  <2>6. Using'
    BY <2>3, <2>5 DEF Using, InFlight
  <2>7. ASSUME NEW c \in Challenge
        PROVE  /\ guesses[c] + Cardinality(Redeeming(c)') <= InFlight
               /\ c \in live => \A q \in Redeeming(c)' : proc'[q].pc = "burn"
               /\ challenge[c].pw = None => Redeeming(c)' = {}
    <3>1. Redeeming(c)' \subseteq Redeeming(c) /\ Redeeming(c) \in SUBSET Request /\ guesses[c] \in Nat
          /\ \A q \in Redeeming(c)' : proc'[q].pc = proc[q].pc
      BY <2>2, <2>4 DEF Redeeming, LInv, TypeOK
    <3>2. Cardinality(Redeeming(c)') \in Nat /\ Cardinality(Redeeming(c)) \in Nat /\ InFlight \in Nat
          /\ Cardinality(Redeeming(c)') <= Cardinality(Redeeming(c))
      BY <3>1, Count
    <3>3. guesses[c] + Cardinality(Redeeming(c)') <= InFlight
      BY <3>1, <3>2 DEF Burning
    <3> QED BY <3>1, <3>3 DEF Burning
  <2>8. Burning'
    BY <2>3, <2>7 DEF Burning, InFlight
  <2> QED BY <2>6, <2>8
<1>4. ASSUME NEW pw \in Password, ResetCommit(r, pw) PROVE Burning' /\ Using'
  <2> DEFINE d == proc[r].tok
  <2>1. NoneJoins /\ proc'[r].pc \notin {"burn", "second", "reset"}
    BY <1>4, GotoJoinsNot DEF ResetCommit, PC
  <2>2. Burning'
    BY <1>4, <2>1, BurningStays DEF ResetCommit, redis
  <2>3. /\ d \in Token /\ r \in Resetting(d)
        /\ token' = [token EXCEPT ![d].used = TRUE] /\ applied' = [applied EXCEPT ![d] = @ + 1]
    BY <1>4 DEF ResetCommit, At, LInv, Requests, Knew, Resetting
  <2>4. ASSUME NEW s \in Token
        PROVE  /\ applied'[s] + Cardinality(Resetting(s)') <= InFlight
               /\ ~token'[s].drawn \/ ~token'[s].used => applied'[s] = 0
               /\ ~token'[s].drawn => Resetting(s)' = {}
    <3>1. Resetting(s)' \subseteq Resetting(s) \ {r} /\ Resetting(s) \in SUBSET Request
          /\ Resetting(s) \ {r} \in SUBSET Request /\ applied[s] \in Nat
      BY <2>1 DEF NoneJoins, Resetting, LInv, TypeOK
    <3>2. /\ Cardinality(Resetting(s)') \in Nat /\ Cardinality(Resetting(s)) \in Nat /\ InFlight \in Nat
          /\ Cardinality(Resetting(s) \ {r}) \in Nat
          /\ Cardinality(Resetting(s)') <= Cardinality(Resetting(s) \ {r})
          /\ Cardinality(Resetting(s) \ {r}) <= Cardinality(Resetting(s))
          /\ r \in Resetting(s) => Cardinality(Resetting(s) \ {r}) = Cardinality(Resetting(s)) - 1
      BY <3>1, Count
    <3>3. applied[s] + Cardinality(Resetting(s)) <= InFlight
      BY DEF Using
    <3>4. CASE s = d
      <4>1. applied'[s] = applied[s] + 1 /\ token'[s].used /\ token'[s].drawn = token[s].drawn
        BY <2>3, <3>4 DEF LInv, TypeOK
      <4>2. token[s].drawn
        BY <2>3, <3>4 DEF Using
      <4> QED BY <2>3, <3>1, <3>2, <3>3, <3>4, <4>1, <4>2
    <3>5. CASE s # d
      <4>1. applied'[s] = applied[s] /\ token'[s] = token[s]
        BY <2>3, <3>5 DEF LInv, TypeOK
      <4>2. applied'[s] + Cardinality(Resetting(s)') <= InFlight
        BY <3>1, <3>2, <3>3, <4>1
      <4> QED BY <3>1, <4>1, <4>2 DEF Using
    <3> QED BY <3>4, <3>5
  <2>5. Using'
    BY <2>4 DEF Using, InFlight
  <2> QED BY <2>2, <2>5
<1>5. CASE ChangeStart(r)
  <2>1. Become(r, Begin(r, "change")) /\ Begin(r, "change") \in Proc /\ Begin(r, "change").pc = "change"
        /\ UNCHANGED <<redis, token, guesses, applied>>
    BY <1>5, BeginType DEF ChangeStart, LInv, PC, history
  <2> QED BY <2>1, BeginJoinsNot, BothStay
<1>6. ASSUME NEW pw \in Password, ChangeCommit(r, pw) PROVE Burning' /\ Using'
  <2>1. Goto(r, "done") /\ "done" \in PC /\ UNCHANGED <<redis, token, guesses, applied>>
    BY <1>6 DEF ChangeCommit, PC
  <2> QED BY <2>1, GotoJoinsNot, BothStay
<1> QED BY <1>1, <1>2, <1>3, <1>4, <1>5, <1>6 DEF PasswordStep,
    HandleForgotPassword, HandleResetPassword, HandleChangePassword

(* The accounts of guesses and passwords hold in every state. *)
THEOREM BurnInvariance == Spec => []BurnInv
<1>1. Init => Burning /\ Using
  <2> SUFFICES ASSUME Init PROVE Burning /\ Using
    OBVIOUS
  <2>1. \A c \in Challenge : Redeeming(c) = {} /\ guesses[c] = 0
    BY DEF Init, Redeeming, Idle
  <2>2. \A t \in Token : Resetting(t) = {} /\ applied[t] = 0
    BY DEF Init, Resetting, Idle
  <2>3. Cardinality({}) = 0 /\ InFlight \in Nat
    BY Count, FS_EmptySet
  <2> QED BY <2>1, <2>2, <2>3 DEF Burning, Using
<1>2. BurnInv /\ [Next]_vars => Burning' /\ Using'
  <2> SUFFICES ASSUME BurnInv, [Next]_vars PROVE Burning' /\ Using'
    OBVIOUS
  <2>1. ASSUME NEW r \in Request, Fail(r) PROVE Burning' /\ Using'
    <3>1. NoneJoins
      BY <2>1, GotoJoinsNot DEF Fail, PC, BurnInv
    <3> QED BY <2>1, <3>1, BothStay DEF Fail, history
  <2>2. CASE Disable \/ UNCHANGED vars
    <3>1. NoneJoins /\ UNCHANGED <<redis, token, guesses, applied>>
      BY <2>2 DEF Disable, vars, history, NoneJoins
    <3> QED BY <3>1, BothStay
  <2>3. CASE Tick
    <3>1. NoneJoins /\ live' \subseteq live /\ UNCHANGED <<challenge, token, guesses, applied>>
      BY <2>3 DEF Tick, history, NoneJoins
    <3> QED BY <3>1, BurningStays, UsingStays DEF BurnInv
  <2> QED BY <2>1, <2>2, <2>3, LoginBurns, EnrolBurns, PasswordBurns DEF Next
<1>3. BurnInv /\ [Next]_vars => BurnInv'
  BY <1>2, TypeKept, RequestsKept, IssuedKept DEF BurnInv, LInv
<1> QED BY InitHolds, <1>1, <1>3, PTL DEF Spec, BurnInv

(* A challenge buys no more second factors than there are requests.        *)
THEOREM ChallengesBurn == Spec => []ChallengeBurns
<1>1. BurnInv => ChallengeBurns
  <2> SUFFICES ASSUME BurnInv, NEW c \in Challenge PROVE guesses[c] <= InFlight
    BY DEF ChallengeBurns
  <2>1. Redeeming(c) \in SUBSET Request /\ guesses[c] \in Nat
    BY DEF Redeeming, BurnInv, LInv, TypeOK
  <2>2. Cardinality(Redeeming(c)) \in Nat /\ InFlight \in Nat
    BY <2>1, Count
  <2> QED BY <2>1, <2>2 DEF BurnInv, Burning
<1> QED BY BurnInvariance, <1>1, PTL

(* A reset token sets no more passwords than there are requests. *)
THEOREM ResetsBurn == Spec => []ResetBurns
<1>1. BurnInv => ResetBurns
  <2> SUFFICES ASSUME BurnInv, NEW t \in Token PROVE applied[t] <= InFlight
    BY DEF ResetBurns
  <2>1. Resetting(t) \in SUBSET Request /\ applied[t] \in Nat
    BY DEF Resetting, BurnInv, LInv, TypeOK
  <2>2. Cardinality(Resetting(t)) \in Nat /\ InFlight \in Nat
    BY <2>1, Count
  <2> QED BY <2>1, <2>2 DEF BurnInv, Using
<1> QED BY BurnInvariance, <1>1, PTL
-----------------------------------------------------------------------------
(* The budget of a counter that is read and written back.  Below are the   *)
(* profiles that come after f: the ones with a lower level, and none       *)
(* higher before it.                                                       *)
Below(k, n, f) ==
  {g \in Profile(k, n) : \E x \in 1..(n - 1) : /\ g[x] < f[x]
                                               /\ \A y \in 1..(n - 1) : y < x => g[y] <= f[y]}

(* There are finitely many profiles. *)
LEMMA Profiles ==
  ASSUME NEW k \in Nat, NEW n \in Nat \ {0}
  PROVE  /\ IsFiniteSet(Profile(k, n)) /\ Budget(k, n) \in Nat
         /\ \A f \in Profile(k, n) : /\ IsFiniteSet(Below(k, n, f))
                                     /\ Cardinality(Below(k, n, f)) \in Nat
                                     /\ Cardinality(Below(k, n, f)) < Budget(k, n)
<1> DEFINE S == 1..(n - 1)
           Q == SUBSET (S \X (0..k))
           graph == [f \in Profile(k, n) |-> {<<x, f[x]>> : x \in S}]
<1>1. IsFiniteSet(Q)
  <2>1. IsFiniteSet(S) /\ IsFiniteSet(0..k)
    BY FS_Interval
  <2>2. IsFiniteSet(S \X (0..k))
    BY <2>1, FS_Product
  <2> QED BY <2>2, FS_SUBSET
<1>2. \A f \in Profile(k, n) : f \in [S -> 0..k]
  BY DEF Profile
<1>3. graph \in [Profile(k, n) -> Q]
  <2>1. ASSUME NEW f \in Profile(k, n) PROVE {<<x, f[x]>> : x \in S} \in Q
    <3>1. \A x \in S : f[x] \in 0..k
      BY <1>2
    <3> QED BY <3>1
  <2> QED BY <2>1
<1>4. ASSUME NEW f \in Profile(k, n), NEW g \in Profile(k, n), graph[f] = graph[g] PROVE f = g
  <2>1. ASSUME NEW x \in S PROVE f[x] = g[x]
    <3>1. <<x, f[x]>> \in graph[f]
      OBVIOUS
    <3>2. <<x, f[x]>> \in {<<y, g[y]>> : y \in S}
      BY <3>1, <1>4
    <3>3. PICK y \in S : <<x, f[x]>> = <<y, g[y]>>
      BY <3>2
    <3> QED BY <3>3
  <2>2. f \in [S -> 0..k] /\ g \in [S -> 0..k]
    BY <1>2
  <2> HIDE DEF S, graph
  <2> QED BY <2>1, <2>2
<1>5. graph \in Injection(Profile(k, n), Q)
  <2> HIDE DEF S, Q, graph
  <2> QED BY <1>3, <1>4 DEF Injection, IsInjective
<1>6. IsFiniteSet(Profile(k, n))
  <2> HIDE DEF S, Q, graph
  <2> QED BY <1>1, <1>5, FS_Injection
<1>7. Budget(k, n) \in Nat
  BY <1>6, FS_CardinalityType DEF Budget
<1>8. ASSUME NEW f \in Profile(k, n)
      PROVE  /\ IsFiniteSet(Below(k, n, f)) /\ Cardinality(Below(k, n, f)) \in Nat
             /\ Cardinality(Below(k, n, f)) < Budget(k, n)
  <2>1. f \in [S -> 0..k]
    BY <1>2
  <2>2. f \notin Below(k, n, f)
    BY <2>1 DEF Below
  <2>3. Below(k, n, f) \in SUBSET Profile(k, n) /\ Below(k, n, f) # Profile(k, n)
    BY <2>2 DEF Below
  <2>4. /\ IsFiniteSet(Below(k, n, f))
        /\ Cardinality(Below(k, n, f)) <= Cardinality(Profile(k, n))
        /\ Cardinality(Below(k, n, f)) # Cardinality(Profile(k, n))
    BY <1>6, <2>3, FS_Subset
  <2>5. Cardinality(Below(k, n, f)) \in Nat
    BY <2>4, FS_CardinalityType
  <2> QED BY <1>7, <2>4, <2>5 DEF Budget
<1> HIDE DEF S, Q, graph
<1> QED BY <1>6, <1>7, <1>8

(* What comes after a profile that is nowhere higher came after the other. *)
LEMMA BelowShrinks ==
  ASSUME NEW k \in Nat, NEW n \in Nat \ {0}, NEW f \in Profile(k, n), NEW g \in Profile(k, n),
         \A y \in 1..(n - 1) : g[y] <= f[y]
  PROVE  Cardinality(Below(k, n, g)) <= Cardinality(Below(k, n, f))
<1>1. Below(k, n, g) \subseteq Below(k, n, f)
  <2> SUFFICES ASSUME NEW h \in Below(k, n, g) PROVE h \in Below(k, n, f)
    OBVIOUS
  <2>1. h \in Profile(k, n)
    BY DEF Below
  <2>2. PICK x \in 1..(n - 1) : h[x] < g[x] /\ \A y \in 1..(n - 1) : y < x => h[y] <= g[y]
    BY DEF Below
  <2>3. \A y \in 1..(n - 1) : f[y] \in Nat /\ g[y] \in Nat /\ h[y] \in Nat
    BY <2>1 DEF Profile
  <2>4. h[x] < f[x] /\ \A y \in 1..(n - 1) : y < x => h[y] <= f[y]
    BY <2>2, <2>3
  <2> QED BY <2>1, <2>4 DEF Below
<1> QED BY <1>1, Profiles, FS_Subset

(* A profile that is lower at x, and nowhere higher before, comes after,   *)
(* and less comes after it.                                                *)
LEMMA BelowLoses ==
  ASSUME NEW k \in Nat, NEW n \in Nat \ {0}, NEW f \in Profile(k, n), NEW g \in Profile(k, n),
         NEW x \in 1..(n - 1), g[x] < f[x], \A y \in 1..(n - 1) : y < x => g[y] <= f[y]
  PROVE  Cardinality(Below(k, n, g)) + 1 <= Cardinality(Below(k, n, f))
<1>1. g \in Below(k, n, f)
  BY DEF Below
<1>2. g \notin Below(k, n, g)
  <2>1. \A y \in 1..(n - 1) : g[y] \in Nat
    BY DEF Profile
  <2> QED BY <2>1 DEF Below
<1>3. Below(k, n, g) \subseteq Below(k, n, f)
  <2> SUFFICES ASSUME NEW h \in Below(k, n, g) PROVE h \in Below(k, n, f)
    OBVIOUS
  <2>1. h \in Profile(k, n)
    BY DEF Below
  <2>2. PICK z \in 1..(n - 1) : h[z] < g[z] /\ \A y \in 1..(n - 1) : y < z => h[y] <= g[y]
    BY DEF Below
  <2>3. \A y \in 1..(n - 1) : f[y] \in Nat /\ g[y] \in Nat /\ h[y] \in Nat
    BY <2>1 DEF Profile
  <2>4. CASE z < x
    <3>1. h[z] < f[z] /\ \A y \in 1..(n - 1) : y < z => h[y] <= f[y]
      BY <2>2, <2>3, <2>4
    <3> QED BY <2>1, <3>1 DEF Below
  <2>5. CASE ~(z < x)
    <3>1. h[x] <= g[x] /\ \A y \in 1..(n - 1) : y < x => h[y] <= g[y]
      BY <2>2, <2>3, <2>5
    <3>2. h[x] < f[x] /\ \A y \in 1..(n - 1) : y < x => h[y] <= f[y]
      BY <2>3, <3>1
    <3> QED BY <2>1, <3>2 DEF Below
  <2> QED BY <2>4, <2>5
<1>4. /\ IsFiniteSet(Below(k, n, g)) /\ IsFiniteSet(Below(k, n, f))
      /\ Cardinality(Below(k, n, g)) \in Nat /\ Cardinality(Below(k, n, f)) \in Nat
  BY Profiles
<1>5. /\ Cardinality(Below(k, n, g)) <= Cardinality(Below(k, n, f))
      /\ Cardinality(Below(k, n, g)) # Cardinality(Below(k, n, f))
  BY <1>1, <1>2, <1>3, <1>4, FS_Subset
<1> QED BY <1>4, <1>5

-----------------------------------------------------------------------------
(* The requests at each level, a level holding the ones before it, and     *)
(* what may still be done from there.                                      *)
Levels(n) ==
  {b \in [1..(n - 1) -> SUBSET Request] :
     \A x, y \in 1..(n - 1) : x <= y => b[x] \subseteq b[y]}

Heights(n, b) == [x \in 1..(n - 1) |-> Cardinality(b[x])]

Room(n, b) == Cardinality(Below(InFlight, n, Heights(n, b)))

LEMMA HeightsType ==
  ASSUME NEW n \in Nat \ {0}, NEW b \in Levels(n)
  PROVE  Heights(n, b) \in Profile(InFlight, n)
<1>1. ASSUME NEW x \in 1..(n - 1) PROVE Cardinality(b[x]) \in 0..InFlight
  <2>1. b[x] \in SUBSET Request
    BY DEF Levels
  <2>2. Cardinality(b[x]) \in Nat /\ InFlight \in Nat /\ Cardinality(b[x]) <= InFlight
    BY <2>1, Count
  <2> QED BY <2>2
<1>2. ASSUME NEW x \in 1..(n - 1), NEW y \in 1..(n - 1), x <= y
      PROVE  Cardinality(b[x]) <= Cardinality(b[y])
  <2>1. b[y] \in SUBSET Request /\ b[x] \in SUBSET b[y]
    BY <1>2 DEF Levels
  <2> QED BY <2>1, Count
<1> QED BY <1>1, <1>2 DEF Heights, Profile

LEMMA RoomBound ==
  ASSUME NEW n \in Nat \ {0}, NEW b \in Levels(n)
  PROVE  Room(n, b) \in Nat /\ Budget(InFlight, n) \in Nat /\ Room(n, b) < Budget(InFlight, n)
<1>1. InFlight \in Nat
  BY Count
<1> QED BY <1>1, HeightsType, Profiles DEF Room

LEMMA RoomKept ==
  ASSUME NEW n \in Nat \ {0}, NEW b \in Levels(n), NEW c \in Levels(n),
         \A x \in 1..(n - 1) : c[x] \subseteq b[x]
  PROVE  Room(n, c) <= Room(n, b)
<1>1. InFlight \in Nat
  BY Count
<1>2. ASSUME NEW x \in 1..(n - 1) PROVE Heights(n, c)[x] <= Heights(n, b)[x]
  <2>1. b[x] \in SUBSET Request /\ c[x] \in SUBSET b[x]
    BY DEF Levels
  <2> QED BY <2>1, Count DEF Heights
<1>3. Heights(n, b) \in Profile(InFlight, n) /\ Heights(n, c) \in Profile(InFlight, n)
  BY HeightsType
<1> QED BY <1>1, <1>2, <1>3, BelowShrinks DEF Room

LEMMA RoomLost ==
  ASSUME NEW n \in Nat \ {0}, NEW b \in Levels(n), NEW c \in Levels(n), NEW x \in 1..(n - 1),
         NEW r \in b[x], c[x] \subseteq b[x] \ {r},
         \A y \in 1..(n - 1) : y < x => c[y] \subseteq b[y]
  PROVE  Room(n, c) + 1 <= Room(n, b)
<1>1. InFlight \in Nat
  BY Count
<1>2. ASSUME NEW y \in 1..(n - 1), y < x PROVE Heights(n, c)[y] <= Heights(n, b)[y]
  <2>1. b[y] \in SUBSET Request /\ c[y] \in SUBSET b[y]
    BY <1>2 DEF Levels
  <2> QED BY <2>1, Count DEF Heights
<1>3. Heights(n, c)[x] < Heights(n, b)[x]
  <2>1. b[x] \in SUBSET Request /\ b[x] \ {r} \in SUBSET Request /\ c[x] \in SUBSET (b[x] \ {r})
    BY DEF Levels
  <2>2. /\ Cardinality(c[x]) \in Nat /\ Cardinality(b[x]) \in Nat /\ Cardinality(b[x] \ {r}) \in Nat
        /\ Cardinality(c[x]) <= Cardinality(b[x] \ {r})
        /\ Cardinality(b[x] \ {r}) = Cardinality(b[x]) - 1
    BY <2>1, Count
  <2> QED BY <2>2 DEF Heights
<1>4. Heights(n, b) \in Profile(InFlight, n) /\ Heights(n, c) \in Profile(InFlight, n)
  BY HeightsType
<1> QED BY <1>1, <1>2, <1>3, <1>4, BelowLoses DEF Room

-----------------------------------------------------------------------------
(* The requests that may still bring failedLoginAttempts below level x:    *)
(* those whose read lies below it, and all of them while it is below.      *)
Behind(m, p) ==
  [x \in 1..(MaxAttempts - 1) |->
     {r \in Request : m < x \/ (p[r].pc \in {"compare", "reject"} /\ p[r].saw < x)}]

(* The passwords refused and the room that is left stay within the budget. *)
Locking == wrong + Room(MaxAttempts, Behind(failed, proc)) < Budget(InFlight, MaxAttempts)

(* The same of the backup codes: x of them are used up, and a request      *)
(* holds an array in which no more than x are.                             *)
Codes == Cardinality(Code)

Stale(s, p) ==
  [x \in 1..Codes |->
     {r \in Request : \/ Codes - Cardinality(s) < x
                      \/ /\ p[r].pc \in {"consume", "recover"}
                         /\ Codes - Cardinality(p[r].codes) <= x}]

Spending ==
  /\ \A r \in Request : proc[r].pc \in {"consume", "recover"} => Cardinality(proc[r].codes) < Codes
  /\ spent + Room(Codes + 1, Stale(totp.codes, proc)) < Budget(InFlight, Codes + 1)

BudgetInv == LInv /\ Locking /\ Spending

LEMMA BehindType ==
  ASSUME NEW m \in Nat, NEW p \in [Request -> Proc]
  PROVE  Behind(m, p) \in Levels(MaxAttempts)
<1>1. MaxAttempts \in Nat \ {0} /\ \A r \in Request : p[r].saw \in Nat
  BY LoginAssumption DEF Proc
<1> QED BY <1>1 DEF Behind, Levels

(* Sets of backup codes can be counted. *)
LEMMA CountCodes ==
  ASSUME NEW s \in SUBSET Code
  PROVE  /\ Cardinality(s) \in Nat /\ Codes \in Nat /\ Cardinality(s) <= Codes
         /\ \A k \in s : Cardinality(s \ {k}) = Cardinality(s) - 1
<1>1. IsFiniteSet(Code) /\ IsFiniteSet(s)
  BY LoginAssumption, FS_Subset
<1>2. Cardinality(s) \in Nat /\ Codes \in Nat /\ Cardinality(s) <= Codes
  BY <1>1, FS_Subset, FS_CardinalityType DEF Codes
<1>3. ASSUME NEW k \in s PROVE Cardinality(s \ {k}) = Cardinality(s) - 1
  BY <1>1, <1>3, FS_RemoveElement
<1> QED BY <1>2, <1>3

LEMMA StaleType ==
  ASSUME NEW s \in SUBSET Code, NEW p \in [Request -> Proc]
  PROVE  Stale(s, p) \in Levels(Codes + 1) /\ Codes + 1 \in Nat \ {0} /\ (Codes + 1) - 1 = Codes
<1>1. Codes \in Nat /\ Cardinality(s) \in Nat
  BY CountCodes
<1>2. \A r \in Request : Cardinality(p[r].codes) \in Nat
  BY CountCodes DEF Proc
<1>3. Stale(s, p) \in [1..Codes -> SUBSET Request]
  BY DEF Stale
<1>4. ASSUME NEW x \in 1..Codes, NEW y \in 1..Codes, x <= y PROVE Stale(s, p)[x] \subseteq Stale(s, p)[y]
  BY <1>1, <1>2, <1>4 DEF Stale
<1> QED BY <1>1, <1>3, <1>4 DEF Levels

(* The lock keeps its budget while nobody counts, or one more reads. *)
LEMMA LockStays ==
  ASSUME TypeOK, TypeOK', Locking, UNCHANGED <<failed, wrong>>,
         \A q \in Request : proc'[q].pc \in {"compare", "reject"} =>
           \/ proc'[q].saw = failed
           \/ proc[q].pc \in {"compare", "reject"} /\ proc'[q].saw = proc[q].saw
  PROVE  Locking'
<1>1. /\ failed \in Nat /\ wrong \in Nat /\ proc \in [Request -> Proc] /\ proc' \in [Request -> Proc]
      /\ MaxAttempts \in Nat \ {0}
  BY LoginAssumption DEF TypeOK
<1>2. Behind(failed, proc) \in Levels(MaxAttempts) /\ Behind(failed, proc') \in Levels(MaxAttempts)
  BY <1>1, BehindType
<1>3. ASSUME NEW x \in 1..(MaxAttempts - 1)
      PROVE  Behind(failed, proc')[x] \subseteq Behind(failed, proc)[x]
  BY DEF Behind
<1>4. Room(MaxAttempts, Behind(failed, proc')) <= Room(MaxAttempts, Behind(failed, proc))
  BY <1>1, <1>2, <1>3, RoomKept
<1>5. /\ Room(MaxAttempts, Behind(failed, proc)) \in Nat
      /\ Room(MaxAttempts, Behind(failed, proc')) \in Nat
      /\ Budget(InFlight, MaxAttempts) \in Nat
  BY <1>1, <1>2, RoomBound
<1>6. wrong + Room(MaxAttempts, Behind(failed, proc')) < Budget(InFlight, MaxAttempts)
  BY <1>1, <1>4, <1>5 DEF Locking
<1> QED BY <1>6 DEF Locking, InFlight

(* A lock that is set or cleared has its whole budget. *)
LEMMA LockClears ==
  ASSUME TypeOK', wrong' = 0
  PROVE  Locking'
<1>1. failed' \in Nat /\ proc' \in [Request -> Proc] /\ MaxAttempts \in Nat \ {0}
  BY LoginAssumption DEF TypeOK
<1>2. Behind(failed', proc') \in Levels(MaxAttempts)
  BY <1>1, BehindType
<1>3. /\ Room(MaxAttempts, Behind(failed', proc')) \in Nat
      /\ Room(MaxAttempts, Behind(failed', proc')) < Budget(InFlight, MaxAttempts)
  BY <1>1, <1>2, RoomBound
<1>4. wrong' + Room(MaxAttempts, Behind(failed', proc')) < Budget(InFlight, MaxAttempts)
  BY <1>3
<1> QED BY <1>4 DEF Locking, InFlight

(* A refused password: the counter may go back, but the request that set   *)
(* it back is gone from the level it set it to.                            *)
LEMMA LockCounts ==
  ASSUME TypeOK, TypeOK', Locking, NEW r \in Request, LoginReject(r)
  PROVE  Locking'
<1> DEFINE n == MaxAttempts
           saw == proc[r].saw
<1>1. /\ failed \in Nat /\ wrong \in Nat /\ proc \in [Request -> Proc] /\ proc' \in [Request -> Proc]
      /\ n \in Nat \ {0} /\ saw \in Nat
  BY LoginAssumption DEF TypeOK, Proc
<1>2. /\ proc[r].pc = "reject" /\ failed' = saw + 1
      /\ saw + 1 >= n => wrong' = 0
      /\ ~(saw + 1 >= n) => wrong' = wrong + 1
  BY DEF LoginReject, At
<1>3. proc'[r].pc = "done" /\ \A q \in Request \ {r} : proc'[q] = proc[q]
  BY GotoType DEF LoginReject, PC, Idle
<1>4. CASE saw + 1 >= n
  BY <1>2, <1>4, LockClears
<1>5. CASE ~(saw + 1 >= n)
  <2> DEFINE b == Behind(failed, proc)
             c == Behind(saw + 1, proc')
             x == IF saw < failed THEN saw + 1 ELSE failed + 1
  <2>1. x \in 1..(n - 1) /\ x <= saw + 1 /\ x <= failed + 1 /\ (saw < x \/ failed < x)
    BY <1>1, <1>5
  <2>2. b \in Levels(n) /\ c \in Levels(n)
    BY <1>1, BehindType
  <2> HIDE DEF x, saw
  <2>3. r \in b[x]
    BY <1>2, <2>1 DEF Behind, saw
  <2>4. ASSUME NEW y \in 1..(n - 1), y <= x PROVE c[y] \subseteq b[y] \ {r}
    <3>1. ~(saw + 1 < y)
      BY <1>1, <2>1, <2>4
    <3> QED BY <1>3, <3>1 DEF Behind
  <2> HIDE DEF b, c
  <2>5. c[x] \subseteq b[x] \ {r} /\ \A y \in 1..(n - 1) : y < x => c[y] \subseteq b[y]
    BY <2>1, <2>4
  <2>6. Room(n, c) + 1 <= Room(n, b)
    BY <1>1, <2>1, <2>2, <2>3, <2>5, RoomLost
  <2>7. Room(n, c) \in Nat /\ Room(n, b) \in Nat /\ Budget(InFlight, n) \in Nat
    BY <1>1, <2>2, RoomBound
  <2>8. wrong + Room(n, b) < Budget(InFlight, n)
    BY DEF Locking, b
  <2>9. wrong' + Room(n, c) < Budget(InFlight, n)
    BY <1>1, <1>2, <1>5, <2>6, <2>7, <2>8
  <2> QED BY <1>2, <2>9 DEF Locking, InFlight, c, saw
<1> QED BY <1>4, <1>5

(* Backup codes keep their budget while the array shrinks or stays, and    *)
(* nobody holds one, or one more reads it.                                 *)
LEMMA CodesStay ==
  ASSUME TypeOK, TypeOK', Spending, UNCHANGED spent,
         totp'.codes = totp.codes \/ totp'.codes = {},
         \A q \in Request : proc'[q].pc \in {"consume", "recover"} =>
           \/ \E k \in totp.codes : proc'[q].codes = totp.codes \ {k}
           \/ proc[q].pc \in {"consume", "recover"} /\ proc'[q].codes = proc[q].codes
  PROVE  Spending'
<1> DEFINE s == totp.codes
           t == totp'.codes
           b == Stale(s, proc)
           c == Stale(t, proc')
<1>1. /\ s \in SUBSET Code /\ t \in SUBSET Code /\ spent \in Nat
      /\ proc \in [Request -> Proc] /\ proc' \in [Request -> Proc]
  BY DEF TypeOK
<1>2. /\ Cardinality(s) \in Nat /\ Cardinality(t) \in Nat /\ Codes \in Nat
      /\ Cardinality(s) <= Codes /\ Cardinality(t) <= Cardinality(s)
      /\ \A k \in s : Cardinality(s \ {k}) = Cardinality(s) - 1
  <2>1. /\ Cardinality(s) \in Nat /\ Codes \in Nat /\ Cardinality(s) <= Codes
        /\ \A k \in s : Cardinality(s \ {k}) = Cardinality(s) - 1
    BY <1>1, CountCodes
  <2>2. Cardinality({}) = 0
    BY FS_EmptySet
  <2>3. t = s \/ t = {}
    OBVIOUS
  <2> HIDE DEF s, t
  <2> QED BY <2>1, <2>2, <2>3
<1> HIDE DEF s, t
<1>3. ASSUME NEW q \in Request, proc'[q].pc \in {"consume", "recover"}
      PROVE  /\ Cardinality(proc'[q].codes) \in Nat /\ Cardinality(proc'[q].codes) < Codes
             /\ \/ Cardinality(proc'[q].codes) = Cardinality(s) - 1
                \/ proc[q].pc \in {"consume", "recover"} /\ proc'[q].codes = proc[q].codes
  <2>1. Cardinality(proc'[q].codes) \in Nat
    BY <1>1, CountCodes DEF Proc
  <2>2. CASE \E k \in s : proc'[q].codes = s \ {k}
    BY <1>2, <2>1, <2>2
  <2>3. CASE proc[q].pc \in {"consume", "recover"} /\ proc'[q].codes = proc[q].codes
    <3>1. Cardinality(proc[q].codes) < Codes
      BY <2>3 DEF Spending
    <3> QED BY <2>1, <2>3, <3>1
  <2> QED BY <1>3, <2>2, <2>3 DEF s
<1>4. b \in Levels(Codes + 1) /\ c \in Levels(Codes + 1) /\ Codes + 1 \in Nat \ {0}
      /\ (Codes + 1) - 1 = Codes
  BY <1>1, StaleType
<1>5. ASSUME NEW x \in 1..Codes PROVE c[x] \subseteq b[x]
  <2>1. SUFFICES ASSUME NEW q \in Request, q \in c[x], ~(Codes - Cardinality(s) < x) PROVE q \in b[x]
    BY DEF Stale
  <2>2. /\ proc'[q].pc \in {"consume", "recover"} /\ Codes - Cardinality(proc'[q].codes) <= x
    <3>1. ~(Codes - Cardinality(t) < x)
      BY <1>2, <2>1
    <3> QED BY <2>1, <3>1 DEF Stale
  <2>3. proc[q].pc \in {"consume", "recover"} /\ proc'[q].codes = proc[q].codes
    BY <1>2, <1>3, <2>1, <2>2
  <2> QED BY <2>2, <2>3 DEF Stale
<1> HIDE DEF b, c
<1>6. Room(Codes + 1, c) <= Room(Codes + 1, b)
  BY <1>4, <1>5, RoomKept
<1>7. Room(Codes + 1, b) \in Nat /\ Room(Codes + 1, c) \in Nat /\ Budget(InFlight, Codes + 1) \in Nat
  BY <1>4, RoomBound
<1>8. spent + Room(Codes + 1, b) < Budget(InFlight, Codes + 1)
  BY DEF Spending, b, s
<1>9. spent + Room(Codes + 1, c) < Budget(InFlight, Codes + 1)
  BY <1>1, <1>6, <1>7, <1>8
<1>10. \A q \in Request : proc'[q].pc \in {"consume", "recover"} => Cardinality(proc'[q].codes) < Codes
  BY <1>3
<1> QED BY <1>9, <1>10 DEF Spending, InFlight, Codes, c, t

(* New codes have their whole budget. *)
LEMMA CodesRenewed ==
  ASSUME TypeOK', Spending, spent' = 0,
         \A q \in Request : proc'[q].pc \in {"consume", "recover"} => proc'[q] = proc[q]
  PROVE  Spending'
<1>1. totp'.codes \in SUBSET Code /\ proc' \in [Request -> Proc]
  BY DEF TypeOK
<1>2. Stale(totp'.codes, proc') \in Levels(Codes + 1) /\ Codes + 1 \in Nat \ {0}
  BY <1>1, StaleType
<1>3. /\ Room(Codes + 1, Stale(totp'.codes, proc')) \in Nat
      /\ Room(Codes + 1, Stale(totp'.codes, proc')) < Budget(InFlight, Codes + 1)
  BY <1>2, RoomBound
<1>4. spent' + Room(Codes + 1, Stale(totp'.codes, proc')) < Budget(InFlight, Codes + 1)
  BY <1>3
<1>5. \A q \in Request : proc'[q].pc \in {"consume", "recover"} => Cardinality(proc'[q].codes) < Codes
  BY DEF Spending
<1> QED BY <1>4, <1>5 DEF Spending, InFlight, Codes

(* A backup code is accepted: codes may come back, but the request that    *)
(* brought them back is gone from the level it set the array to.           *)
LEMMA CodesSpent ==
  ASSUME TypeOK, TypeOK', Spending, NEW r \in Request, proc[r].pc \in {"consume", "recover"},
         Spend(r), proc'[r].pc \notin {"consume", "recover"},
         \A q \in Request \ {r} : proc'[q] = proc[q]
  PROVE  Spending'
<1> DEFINE n == Codes + 1
           used == Codes - Cardinality(totp.codes)
           next == Codes - Cardinality(proc[r].codes)
           b == Stale(totp.codes, proc)
           c == Stale(proc[r].codes, proc')
           x == IF next <= used THEN next ELSE used + 1
<1>1. /\ totp.codes \in SUBSET Code /\ spent \in Nat /\ proc[r].codes \in SUBSET Code
      /\ proc \in [Request -> Proc] /\ proc' \in [Request -> Proc]
  BY DEF TypeOK, Proc
<1>2. totp'.codes = proc[r].codes /\ spent' = spent + 1
  BY DEF Spend, TypeOK
<1>3. /\ Codes \in Nat /\ used \in Nat /\ next \in Nat \ {0} /\ next <= Codes
  BY <1>1, CountCodes DEF Spending
<1>4. b \in Levels(n) /\ c \in Levels(n) /\ n \in Nat \ {0} /\ n - 1 = Codes
  BY <1>1, StaleType
<1>5. x \in 1..Codes /\ x <= next /\ (next <= x \/ used < x)
  BY <1>3
<1> HIDE DEF x
<1>6. r \in b[x]
  BY <1>5 DEF Stale
<1>7. ASSUME NEW y \in 1..Codes, y <= x PROVE c[y] \subseteq b[y] \ {r}
  <2>1. ~(next < y)
    BY <1>3, <1>5, <1>7
  <2> QED BY <2>1 DEF Stale
<1> HIDE DEF b, c, n, used, next
<1>8. c[x] \subseteq b[x] \ {r} /\ \A y \in 1..Codes : y < x => c[y] \subseteq b[y]
  BY <1>3, <1>5, <1>7
<1>9. Room(n, c) + 1 <= Room(n, b)
  BY <1>4, <1>5, <1>6, <1>8, RoomLost
<1>10. Room(n, c) \in Nat /\ Room(n, b) \in Nat /\ Budget(InFlight, n) \in Nat
  BY <1>4, RoomBound
<1>11. spent + Room(n, b) < Budget(InFlight, n)
  BY DEF Spending, b, n
<1>12. spent' + Room(n, c) < Budget(InFlight, n)
  BY <1>1, <1>2, <1>9, <1>10, <1>11
<1>13. \A q \in Request : proc'[q].pc \in {"consume", "recover"} => Cardinality(proc'[q].codes) < Codes
  BY DEF Spending
<1> QED BY <1>2, <1>12, <1>13 DEF Spending, InFlight, Codes, c, n

-----------------------------------------------------------------------------
(* Nobody starts to count or to hold an array. *)
NoneHolds ==
  \A q \in Request : proc'[q].pc \in {"compare", "reject", "consume", "recover"} => proc'[q] = proc[q]

LEMMA GotoHoldsNot ==
  ASSUME TypeOK, NEW r \in Request, NEW pc \in PC, Goto(r, pc),
         pc \notin {"compare", "reject", "consume", "recover"}
  PROVE  /\ NoneHolds
         /\ proc'[r].pc \notin {"compare", "reject", "consume", "recover"}
         /\ \A q \in Request \ {r} : proc'[q] = proc[q]
<1>1. Idle.pc = "done"
  BY DEF Idle
<1>2. (\A q \in Request \ {r} : proc'[q] = proc[q])
      /\ proc'[r].pc \notin {"compare", "reject", "consume", "recover"}
  BY <1>1, GotoType
<1> QED BY <1>2 DEF NoneHolds

LEMMA BeginHoldsNot ==
  ASSUME TypeOK, NEW r \in Request, NEW p \in Proc, Become(r, p),
         p.pc \notin {"done", "compare", "reject", "consume", "recover"}
  PROVE  NoneHolds
<1>1. proc'[r] = p /\ \A q \in Request \ {r} : proc'[q] = proc[q]
  BY StartType
<1> QED BY <1>1 DEF NoneHolds

(* Then both budgets are kept, or renewed. *)
LEMMA BudgetStays ==
  ASSUME BudgetInv, TypeOK', NoneHolds,
         UNCHANGED <<failed, wrong>> \/ wrong' = 0,
         (UNCHANGED spent /\ (totp'.codes = totp.codes \/ totp'.codes = {})) \/ spent' = 0
  PROVE  Locking' /\ Spending'
<1>1. Locking'
  BY LockStays, LockClears DEF BudgetInv, LInv, NoneHolds
<1>2. Spending'
  BY CodesStay, CodesRenewed DEF BudgetInv, LInv, NoneHolds
<1> QED BY <1>1, <1>2

(* Steps of /auth/login and /auth/login/totp. *)
LEMMA LoginBudget ==
  ASSUME BudgetInv, TypeOK', NEW r \in Request, LoginStep(r)
  PROVE  Locking' /\ Spending'
<1> USE DEF BudgetInv, LInv
<1>1. ASSUME NEW pw \in Password, LoginStart(r, pw) PROVE Locking' /\ Spending'
  <2> DEFINE p == [Begin(r, "compare") EXCEPT !.pw = pw, !.saw = failed]
  <2>1. Begin(r, "compare") \in Proc /\ Begin(r, "compare").pc = "compare" /\ failed \in Nat
    BY BeginType DEF PC, TypeOK
  <2>2. p \in Proc /\ p.pc = "compare" /\ p.saw = failed
    BY <2>1 DEF Proc
  <2>3. Become(r, p) /\ UNCHANGED <<failed, wrong, totp, spent>>
    BY <1>1 DEF LoginStart, user, history
  <2> HIDE DEF p
  <2>4. proc'[r] = p /\ \A q \in Request \ {r} : proc'[q] = proc[q]
    BY <2>2, <2>3, StartType
  <2>5. Locking'
    BY <2>2, <2>3, <2>4, LockStays
  <2>6. Spending'
    BY <2>2, <2>3, <2>4, CodesStay
  <2> QED BY <2>5, <2>6
<1>2. CASE LoginCompare(r)
  <2>1. proc[r].pc = "compare" /\ UNCHANGED <<failed, wrong, totp, spent>>
        /\ (Goto(r, "accept") \/ Goto(r, "reject"))
    BY <1>2 DEF LoginCompare, At, user, history
  <2>2. /\ \A q \in Request \ {r} : proc'[q] = proc[q]
        /\ proc'[r].pc \in {"accept", "reject"} /\ proc'[r].saw = proc[r].saw
    BY <2>1, GotoType DEF PC
  <2>3. Locking'
    BY <2>1, <2>2, LockStays
  <2>4. Spending'
    BY <2>1, <2>2, CodesStay
  <2> QED BY <2>3, <2>4
<1>3. CASE LoginReject(r)
  <2>1. NoneHolds /\ UNCHANGED <<totp, spent>>
    BY <1>3, GotoHoldsNot DEF LoginReject, PC
  <2>2. Spending'
    BY <2>1, CodesStay DEF NoneHolds
  <2> QED BY <1>3, <2>2, LockCounts
<1>4. CASE LoginAccept(r)
  <2>1. NoneHolds /\ UNCHANGED <<totp, spent>> /\ wrong' = 0
    BY <1>4, GotoHoldsNot DEF LoginAccept, Unlock, PC
  <2> QED BY <2>1, BudgetStays
<1>5. CASE LoginGate(r) \/ TotpBurn(r) \/ TotpCode(r) \/ OpenSession(r)
           \/ \E c \in Challenge : IssueChallenge(r, c)
  <2>1. \E pc \in PC \ {"compare", "reject", "consume", "recover"} : Goto(r, pc)
    BY <1>5 DEF LoginGate, TotpBurn, TotpCode, OpenSession, IssueChallenge, PC
  <2>2. NoneHolds
    BY <2>1, GotoHoldsNot
  <2>3. UNCHANGED <<failed, wrong, totp, spent>>
    BY <1>5 DEF LoginGate, TotpBurn, TotpCode, OpenSession, IssueChallenge, user, history
  <2> QED BY <2>2, <2>3, BudgetStays
<1>6. ASSUME NEW c \in Challenge, TotpStart(r, c) PROVE Locking' /\ Spending'
  <2> DEFINE p == [Begin(r, "burn") EXCEPT !.chal = c, !.pw = challenge[c].pw]
  <2>1. Begin(r, "burn") \in Proc /\ Begin(r, "burn").pc = "burn"
        /\ challenge[c].pw \in Password \cup {None}
    BY BeginType DEF PC, TypeOK
  <2>2. p \in Proc /\ p.pc = "burn"
    BY <2>1 DEF Proc
  <2>3. Become(r, p) /\ UNCHANGED <<failed, wrong, totp, spent>>
    BY <1>6 DEF TotpStart, user, history
  <2> HIDE DEF p
  <2> QED BY <2>2, <2>3, BeginHoldsNot, BudgetStays
<1>7. ASSUME NEW k \in Code, TotpBackup(r, k) PROVE Locking' /\ Spending'
  <2> DEFINE p == [proc[r] EXCEPT !.pc = "consume", !.codes = totp.codes \ {k}]
  <2>1. totp.codes \ {k} \in SUBSET Code /\ proc[r] \in Proc
    BY DEF TypeOK
  <2>2. p \in Proc /\ p.pc = "consume" /\ p.codes = totp.codes \ {k}
    BY <2>1 DEF Proc, PC
  <2>3. Become(r, p) /\ k \in totp.codes /\ UNCHANGED <<failed, wrong, totp, spent>>
    BY <1>7 DEF TotpBackup, user
  <2> HIDE DEF p
  <2>4. proc'[r] = p /\ \A q \in Request \ {r} : proc'[q] = proc[q]
    BY <2>2, <2>3, StartType
  <2>5. Locking'
    BY <2>2, <2>3, <2>4, LockStays
  <2>6. Spending'
    BY <2>2, <2>3, <2>4, CodesStay
  <2> QED BY <2>5, <2>6
<1>8. CASE TotpConsume(r)
  <2>1. proc[r].pc = "consume" /\ Spend(r) /\ Goto(r, "open") /\ UNCHANGED <<failed, wrong>>
    BY <1>8 DEF TotpConsume, At, user
  <2>2. NoneHolds /\ proc'[r].pc \notin {"compare", "reject", "consume", "recover"}
        /\ \A q \in Request \ {r} : proc'[q] = proc[q]
    BY <2>1, GotoHoldsNot DEF PC
  <2>3. Locking'
    BY <2>1, <2>2, LockStays DEF NoneHolds
  <2>4. Spending'
    BY <2>1, <2>2, CodesSpent
  <2> QED BY <2>3, <2>4
<1> QED BY <1>1, <1>2, <1>3, <1>4, <1>5, <1>6, <1>7, <1>8 DEF LoginStep

(* Steps of /auth/2fa. *)
LEMMA EnrolBudget ==
  ASSUME BudgetInv, TypeOK', NEW r \in Request, EnrolStep(r)
  PROVE  Locking' /\ Spending'
<1> USE DEF BudgetInv, LInv
<1>1. CASE SetupRead(r) \/ VerifyRead(r)
  <2>1. \E pc \in {"setup", "enable"} : Become(r, Begin(r, pc))
    BY <1>1 DEF SetupRead, VerifyRead
  <2>2. \A pc \in {"setup", "enable"} : Begin(r, pc) \in Proc /\ Begin(r, pc).pc = pc
    BY BeginType DEF PC
  <2>3. UNCHANGED <<failed, wrong, totp, spent>>
    BY <1>1 DEF SetupRead, VerifyRead, user, history
  <2> QED BY <2>1, <2>2, <2>3, BeginHoldsNot, BudgetStays
<1>2. CASE SetupWrite(r)
  <2>1. NoneHolds /\ UNCHANGED <<failed, wrong>> /\ spent' = 0
    BY <1>2, GotoHoldsNot DEF SetupWrite, PC, user
  <2> QED BY <2>1, BudgetStays
<1>3. CASE VerifyWrite(r)
  <2>1. NoneHolds /\ UNCHANGED <<failed, wrong, spent>> /\ totp'.codes = totp.codes
    BY <1>3, GotoHoldsNot DEF VerifyWrite, PC, user, history, TypeOK
  <2> QED BY <2>1, BudgetStays
<1>4. CASE RecoverWrite(r)
  <2>1. proc[r].pc = "recover" /\ Spend(r) /\ Goto(r, "done") /\ UNCHANGED <<failed, wrong>>
    BY <1>4 DEF RecoverWrite, At, user
  <2>2. NoneHolds /\ proc'[r].pc \notin {"compare", "reject", "consume", "recover"}
        /\ \A q \in Request \ {r} : proc'[q] = proc[q]
    BY <2>1, GotoHoldsNot DEF PC
  <2>3. Locking'
    BY <2>1, <2>2, LockStays DEF NoneHolds
  <2>4. Spending'
    BY <2>1, <2>2, CodesSpent
  <2> QED BY <2>3, <2>4
<1>5. ASSUME NEW k \in Code, RecoverRead(r, k) PROVE Locking' /\ Spending'
  <2> DEFINE p == [Begin(r, "recover") EXCEPT !.codes = totp.codes \ {k}]
  <2>1. Begin(r, "recover") \in Proc /\ Begin(r, "recover").pc = "recover"
        /\ totp.codes \ {k} \in SUBSET Code
    BY BeginType DEF PC, TypeOK
  <2>2. p \in Proc /\ p.pc = "recover" /\ p.codes = totp.codes \ {k}
    BY <2>1 DEF Proc
  <2>3. Become(r, p) /\ k \in totp.codes /\ UNCHANGED <<failed, wrong, totp, spent>>
    BY <1>5 DEF RecoverRead, user, history
  <2> HIDE DEF p
  <2>4. proc'[r] = p /\ \A q \in Request \ {r} : proc'[q] = proc[q]
    BY <2>2, <2>3, StartType
  <2>5. Locking'
    BY <2>2, <2>3, <2>4, LockStays
  <2>6. Spending'
    BY <2>2, <2>3, <2>4, CodesStay
  <2> QED BY <2>5, <2>6
<1> QED BY <1>1, <1>2, <1>3, <1>4, <1>5 DEF EnrolStep

(* Steps towards a new password. *)
LEMMA PasswordBudget ==
  ASSUME BudgetInv, TypeOK', NEW r \in Request, PasswordStep(r)
  PROVE  Locking' /\ Spending'
<1> USE DEF BudgetInv, LInv
<1>1. CASE ForgotStart(r) \/ ChangeStart(r)
  <2>1. \E pc \in {"mint", "change"} : Become(r, Begin(r, pc))
    BY <1>1 DEF ForgotStart, ChangeStart
  <2>2. \A pc \in {"mint", "change"} : Begin(r, pc) \in Proc /\ Begin(r, pc).pc = pc
    BY BeginType DEF PC
  <2>3. UNCHANGED <<failed, wrong, totp, spent>>
    BY <1>1 DEF ForgotStart, ChangeStart, user, history
  <2> QED BY <2>1, <2>2, <2>3, BeginHoldsNot, BudgetStays
<1>2. ASSUME NEW t \in Token, ResetStart(r, t) PROVE Locking' /\ Spending'
  <2> DEFINE p == [Begin(r, "reset") EXCEPT !.tok = t]
  <2>1. Begin(r, "reset") \in Proc /\ Begin(r, "reset").pc = "reset"
    BY BeginType DEF PC
  <2>2. p \in Proc /\ p.pc = "reset"
    BY <2>1 DEF Proc
  <2>3. Become(r, p) /\ UNCHANGED <<failed, wrong, totp, spent>>
    BY <1>2 DEF ResetStart, user, history
  <2> HIDE DEF p
  <2> QED BY <2>2, <2>3, BeginHoldsNot, BudgetStays
<1>3. CASE (\E t \in Token : ForgotMint(r, t)) \/ \E pw \in Password : ChangeCommit(r, pw)
  <2>1. Goto(r, "done") /\ UNCHANGED <<failed, wrong, totp, spent>>
    BY <1>3 DEF ForgotMint, ChangeCommit, user, history
  <2> QED BY <2>1, GotoHoldsNot, BudgetStays DEF PC
<1>4. ASSUME NEW pw \in Password, ResetCommit(r, pw) PROVE Locking' /\ Spending'
  <2>1. Goto(r, "done") /\ wrong' = 0 /\ UNCHANGED <<totp, spent>>
    BY <1>4 DEF ResetCommit, Unlock
  <2> QED BY <2>1, GotoHoldsNot, BudgetStays DEF PC
<1> QED BY <1>1, <1>2, <1>3, <1>4 DEF PasswordStep,
    HandleForgotPassword, HandleResetPassword, HandleChangePassword

(* The accounts of refused passwords and of accepted backup codes hold in  *)
(* every state.                                                            *)
THEOREM BudgetInvariance == Spec => []BudgetInv
<1>1. Init => Locking /\ Spending
  <2> SUFFICES ASSUME Init PROVE Locking /\ Spending
    OBVIOUS
  <2>1. TypeOK
    BY InitHolds DEF LInv
  <2>2. Behind(failed, proc) \in Levels(MaxAttempts) /\ MaxAttempts \in Nat \ {0} /\ wrong = 0
    BY <2>1, BehindType, LoginAssumption DEF TypeOK, Init
  <2>3. Locking
    BY <2>2, RoomBound DEF Locking
  <2>4. Stale(totp.codes, proc) \in Levels(Codes + 1) /\ Codes + 1 \in Nat \ {0} /\ spent = 0
    BY <2>1, StaleType DEF TypeOK, Init
  <2>5. \A r \in Request : proc[r].pc \notin {"consume", "recover"}
    BY DEF Init, Idle
  <2> QED BY <2>3, <2>4, <2>5, RoomBound DEF Spending
<1>2. BudgetInv /\ [Next]_vars => BudgetInv'
  <2> SUFFICES ASSUME BudgetInv, [Next]_vars PROVE BudgetInv'
    OBVIOUS
  <2>1. LInv'
    BY TypeKept, RequestsKept, IssuedKept DEF BudgetInv, LInv
  <2>2. TypeOK /\ TypeOK'
    BY <2>1 DEF BudgetInv, LInv
  <2>3. ASSUME NEW r \in Request, LoginStep(r) \/ EnrolStep(r) \/ PasswordStep(r)
        PROVE  Locking' /\ Spending'
    BY <2>2, <2>3, LoginBudget, EnrolBudget, PasswordBudget
  <2>4. ASSUME NEW r \in Request, Fail(r) PROVE Locking' /\ Spending'
    <3>1. Goto(r, "done") /\ UNCHANGED <<failed, wrong, totp, spent>>
      BY <2>4 DEF Fail, user, history
    <3> QED BY <2>2, <3>1, GotoHoldsNot, BudgetStays DEF PC
  <2>5. ASSUME Disable PROVE Locking' /\ Spending'
    <3>1. NoneHolds /\ UNCHANGED <<failed, wrong, spent>> /\ totp'.codes = {}
      BY <2>5 DEF Disable, NoneHolds, NoRow, user, history
    <3> QED BY <2>2, <3>1, BudgetStays
  <2>6. ASSUME Tick \/ UNCHANGED vars PROVE Locking' /\ Spending'
    <3>1. NoneHolds /\ UNCHANGED <<failed, wrong, totp, spent>>
      BY <2>6 DEF Tick, vars, NoneHolds, user, history
    <3> QED BY <2>2, <3>1, BudgetStays
  <2>7. Locking' /\ Spending'
    BY <2>3, <2>4, <2>5, <2>6 DEF Next
  <2> QED BY <2>1, <2>7 DEF BudgetInv
<1> QED BY InitHolds, <1>1, <1>2, PTL DEF Spec, BudgetInv

(* However many logins run at once, the lock engages before the budget of  *)
(* wrong passwords is spent (handleLogin's failedLoginAttempts).           *)
THEOREM LockDoesEngage == Spec => []LockEngages
<1>1. BudgetInv => LockEngages
  <2> SUFFICES ASSUME BudgetInv PROVE LockEngages
    OBVIOUS
  <2>1. wrong \in Nat /\ failed \in Nat /\ proc \in [Request -> Proc] /\ MaxAttempts \in Nat \ {0}
    BY LoginAssumption DEF BudgetInv, LInv, TypeOK
  <2>2. Room(MaxAttempts, Behind(failed, proc)) \in Nat /\ Budget(InFlight, MaxAttempts) \in Nat
    BY <2>1, BehindType, RoomBound
  <2> QED BY <2>1, <2>2 DEF BudgetInv, Locking, LockEngages
<1> QED BY BudgetInvariance, <1>1, PTL

(* And however many redemptions run at once, the backup codes of one       *)
(* enrolment are accepted within their budget.                             *)
THEOREM BackupIsBounded == Spec => []BackupBounded
<1>1. BudgetInv => BackupBounded
  <2> SUFFICES ASSUME BudgetInv PROVE BackupBounded
    OBVIOUS
  <2>1. spent \in Nat /\ totp.codes \in SUBSET Code /\ proc \in [Request -> Proc]
    BY DEF BudgetInv, LInv, TypeOK
  <2>2. Room(Codes + 1, Stale(totp.codes, proc)) \in Nat /\ Budget(InFlight, Codes + 1) \in Nat
    BY <2>1, StaleType, RoomBound
  <2> QED BY <2>1, <2>2 DEF BudgetInv, Spending, BackupBounded, Codes
<1> QED BY BudgetInvariance, <1>1, PTL
=============================================================================
