------------------------------- MODULE TotpSetup -------------------------------
(***************************************************************************)
(* Enrolling a second factor (routes/totp.routes.ts) with the secrets told *)
(* apart: setup replaces the row's secret, verify checks a code against    *)
(* the secret it read and then enables the row, whichever secret is in it  *)
(* by then, and disable deletes it.  LoginFlow has what signing in makes   *)
(* of the row; there every secret is the same.                             *)
(***************************************************************************)
EXTENDS Naturals, FiniteSets

CONSTANTS
  Enroller,    \* concurrent requests of one user
  MaxSecrets   \* bounds the model: secrets ever generated

ASSUME SetupAssumption == MaxSecrets \in Nat

VARIABLES
  factor,      \* the TotpSecret row; secret 0 for none
  enroller,    \* the local state of each request
  generated,   \* secrets generated
  proven,      \* secrets whose code a verify has checked
  raced        \* secrets stored while a verify that checked another was under way

setupVars == <<factor, enroller, generated, proven, raced>>

Secret == 1..MaxSecrets
NoFactor == [secret |-> 0, verified |-> FALSE]
NotEnrolling == [pc |-> "free", since |-> FALSE]

SetupInit ==
  /\ factor = NoFactor
  /\ enroller = [r \in Enroller |-> NotEnrolling]
  /\ generated = 0 /\ proven = {} /\ raced = {}

Enabling == {r \in Enroller : enroller[r].pc = "enable"}

(* Not while a verified factor is there. *)
BeginSetup(r) ==
  /\ enroller[r] = NotEnrolling /\ ~factor.verified /\ generated < MaxSecrets
  /\ enroller' = [enroller EXCEPT ![r].pc = "store"]
  /\ UNCHANGED <<factor, generated, proven, raced>>

\* The new secret inherits the row's verification.
StoreVerified(r) ==
  /\ enroller[r].pc = "store" /\ generated < MaxSecrets
  /\ generated' = generated + 1
  /\ factor' = [factor EXCEPT !.secret = generated + 1]
  /\ raced' = IF Enabling = {} THEN raced ELSE raced \cup {generated + 1}
  /\ enroller' = [enroller EXCEPT ![r] = NotEnrolling]
  /\ UNCHANGED proven

StoreSecret(r) ==
  /\ enroller[r].pc = "store" /\ generated < MaxSecrets
  /\ generated' = generated + 1
  /\ factor' = [secret |-> generated + 1, verified |-> FALSE]
  /\ raced' = IF Enabling = {} THEN raced ELSE raced \cup {generated + 1}
  /\ enroller' = [enroller EXCEPT ![r] = NotEnrolling]
  /\ UNCHANGED proven

(* The user types a code of the secret that is read; a wrong code ends the *)
(* request and changes nothing.                                            *)
CheckCode(r) ==
  /\ enroller[r] = NotEnrolling /\ factor.secret \in Secret
  /\ proven' = proven \cup {factor.secret}
  /\ enroller' = [enroller EXCEPT ![r].pc = "enable"]
  /\ UNCHANGED <<factor, generated, raced>>

(* The update throws when the row was deleted. *)
EnableFactor(r) ==
  /\ enroller[r].pc = "enable"
  /\ factor' = [factor EXCEPT !.verified = @ \/ factor.secret \in Secret]
  /\ enroller' = [s \in Enroller |->
       CASE s = r -> NotEnrolling
         [] enroller[s].pc = "store" -> [enroller[s] EXCEPT !.since = TRUE]
         [] OTHER -> enroller[s]]
  /\ UNCHANGED <<generated, proven, raced>>

DisableFactor ==
  /\ factor' = NoFactor
  /\ UNCHANGED <<enroller, generated, proven, raced>>

EndEnroller(r) ==
  /\ enroller[r] # NotEnrolling
  /\ enroller' = [enroller EXCEPT ![r] = NotEnrolling]
  /\ UNCHANGED <<factor, generated, proven, raced>>

SetupNext ==
  \/ \E r \in Enroller :
       BeginSetup(r) \/ StoreSecret(r) \/ CheckCode(r) \/ EnableFactor(r) \/ EndEnroller(r)
  \/ DisableFactor

SetupSpec == SetupInit /\ [][SetupNext]_setupVars

-----------------------------------------------------------------------------
(* Properties *)

SetupTypeOK ==
  /\ factor \in [secret : 0..MaxSecrets, verified : BOOLEAN]
  /\ enroller \in [Enroller -> [pc : {"free", "store", "enable"}, since : BOOLEAN]]
  /\ generated \in 0..MaxSecrets
  /\ proven \subseteq Secret /\ raced \subseteq Secret

(* A user is locked out by a factor enabled with a secret that no          *)
(* authenticator of theirs has: an enabled secret has had a code checked,  *)
(* unless a second setup stored it between the check and the enabling      *)
(* (totp.routes.ts:118).                                                   *)
EnabledProven == factor.verified => factor.secret \in proven \cup raced

(* An enabled factor is lost only by disabling it or to a setup that had   *)
(* looked before it was enabled (totp.routes.ts:29).                       *)
FactorStays ==
  [][factor.verified /\ ~factor'.verified =>
       factor' = NoFactor \/ \E r \in Enroller : enroller[r].since]_setupVars
=============================================================================
