----------------------------- MODULE MemberRemoval -----------------------------
(***************************************************************************)
(* Removing a member (routes/team.routes.ts): the user row is marked, then *)
(* the sessions are revoked, while the member signs in from elsewhere.     *)
(* Neither creating nor validating a session looks at the user's status,   *)
(* so a sign-in that has read the row before it was marked goes on.        *)
(* SessionStore has what a session is; here they are only counted.         *)
(***************************************************************************)
EXTENDS Naturals, FiniteSets

CONSTANTS
  Remover,      \* concurrent DELETE /team/:id, an administrator's retries included
  SignIn,       \* concurrent sign-ins of the member
  MaxSessions,  \* MAX_CONCURRENT_SESSIONS
  MaxSignIns    \* bounds the model: sign-ins ever begun

ASSUME RemovalAssumption == IsFiniteSet(SignIn) /\ MaxSessions \in Nat \ {0} /\ MaxSignIns \in Nat

VARIABLES
  removed,    \* deletedAt is set and the status is suspended
  sessions,   \* the member's sessions
  remover,    \* the local state of each removal
  signIn,     \* the local state of each sign-in
  signIns,    \* sign-ins begun
  allowance   \* sign-ins and sessions under way when the row was marked or, later, the sessions revoked

removalVars == <<removed, sessions, remover, signIn, signIns, allowance>>

RemovalInit ==
  /\ removed = FALSE /\ sessions = 0 /\ signIns = 0 /\ allowance = 0
  /\ remover = [a \in Remover |-> "away"]
  /\ signIn = [s \in SignIn |-> "away"]

(* The client of the requests: a marked row is not found and not updated. *)
RowFound == ~removed

(* The client of the sign-ins filters as the other does. *)
AdminRowFound == ~removed

UnderWay == Cardinality({s \in SignIn : signIn[s] = "read"})

\* A sign-in that finds a marked row.
ReadAnyUser(s) ==
  /\ signIn[s] = "away" /\ signIns < MaxSignIns
  /\ signIn' = [signIn EXCEPT ![s] = "read"]
  /\ signIns' = signIns + 1
  /\ UNCHANGED <<removed, sessions, remover, allowance>>

(* A sign-in by SSO, or with the address of the account, finds the row. *)
ReadUser(s) ==
  /\ signIn[s] = "away" /\ signIns < MaxSignIns
  /\ AdminRowFound
  /\ signIn' = [signIn EXCEPT ![s] = "read"]
  /\ signIns' = signIns + 1
  /\ UNCHANGED <<removed, sessions, remover, allowance>>

(* A session beyond the maximum takes the place of the oldest; the wrong   *)
(* password or a failure creates none.                                     *)
EndSignIn(s) ==
  /\ signIn[s] = "read"
  /\ signIn' = [signIn EXCEPT ![s] = "away"]
  /\ sessions' \in {sessions, IF sessions < MaxSessions THEN sessions + 1 ELSE sessions}
  /\ UNCHANGED <<removed, remover, signIns, allowance>>

(* Logout, expiry, idling out. *)
EndSession ==
  /\ sessions > 0
  /\ sessions' = sessions - 1
  /\ UNCHANGED <<removed, remover, signIn, signIns, allowance>>

(* The administrator: a removed member is not found. *)
FindMember(a) ==
  /\ remover[a] = "away" /\ RowFound
  /\ remover' = [remover EXCEPT ![a] = "found"]
  /\ UNCHANGED <<removed, sessions, signIn, signIns, allowance>>

MarkRemoved(a) ==
  /\ remover[a] = "found" /\ RowFound
  /\ removed' = TRUE
  /\ allowance' = sessions + UnderWay
  /\ remover' = [remover EXCEPT ![a] = "marked"]
  /\ UNCHANGED <<sessions, signIn, signIns>>

RevokeSessions(a) ==
  /\ remover[a] = "marked"
  /\ sessions' = 0
  /\ allowance' = UnderWay
  /\ remover' = [remover EXCEPT ![a] = "away"]
  /\ UNCHANGED <<removed, signIn, signIns>>

(* The process is lost or a query fails: after the mark, nobody revokes.   *)
RemovalFails(a) ==
  /\ remover[a] # "away"
  /\ remover' = [remover EXCEPT ![a] = "away"]
  /\ UNCHANGED <<removed, sessions, signIn, signIns, allowance>>

RemovalNext ==
  \/ \E s \in SignIn : ReadUser(s) \/ EndSignIn(s)
  \/ \E a \in Remover : FindMember(a) \/ MarkRemoved(a) \/ RevokeSessions(a) \/ RemovalFails(a)
  \/ EndSession

RemovalSpec == RemovalInit /\ [][RemovalNext]_removalVars

-----------------------------------------------------------------------------
(* Properties *)

RemovalTypeOK ==
  /\ removed \in BOOLEAN
  /\ sessions \in 0..MaxSessions /\ allowance \in Nat
  /\ remover \in [Remover -> {"away", "found", "marked"}]
  /\ signIn \in [SignIn -> {"away", "read"}]
  /\ signIns \in 0..MaxSignIns

(* "Revoke all sessions so the user is logged out immediately"             *)
(* (team.routes.ts:123): a removed member's sessions are at most the       *)
(* sign-ins that were under way at the revocation or, when the revocation  *)
(* was lost, what was there when the row was marked; nothing new opens.    *)
RemovedUserOut == removed => sessions + UnderWay <= allowance
=============================================================================
