----------------------------- MODULE SingleSignOn -----------------------------
(***************************************************************************)
(* Signing in to one account through its identity provider                 *)
(* (routes/sso.routes.ts, sso.service.ts): a state kept in Redis for five  *)
(* minutes is read and then deleted by the callback, the provider's code   *)
(* is exchanged, and the user found or created as the configuration the    *)
(* callback loaded at its start allows.                                    *)
(***************************************************************************)
EXTENDS Naturals, FiniteSets

CONSTANTS
  SsoState,     \* the states; each belongs to one trip to the provider and its code
  Callback,     \* concurrent GET /sso/callback
  SsoEmail      \* the emails the provider vouches for

ASSUME SsoAssumption == IsFiniteSet(Callback)

VARIABLES
  provision,    \* autoProvision of the stored configuration
  state,        \* each state in Redis: "none", "stored" or "gone"
  code,         \* the provider: the codes it has not yet exchanged
  ssoUser,      \* the user row of each email: "none", "user" or "removed"
  callback,     \* the local state of each callback
  late          \* users created since autoProvision was switched off, and callbacks under way then

ssoVars == <<provision, state, code, ssoUser, callback, late>>

NoCallback == [pc |-> "away", state |-> "none", email |-> "none", provision |-> FALSE]

SsoInit ==
  /\ provision = TRUE
  /\ state = [s \in SsoState |-> "none"]
  /\ code = SsoState
  /\ ssoUser = [e \in SsoEmail |-> "none"]
  /\ callback = [c \in Callback |-> NoCallback]
  /\ late = [created |-> 0, underWay |-> 0]

(* GET /sso/authorize; discovery may fail and then stores nothing. *)
Authorize(s) ==
  /\ state[s] = "none"
  /\ state' = [state EXCEPT ![s] = "stored"]
  /\ UNCHANGED <<provision, code, ssoUser, callback, late>>

ExpireState(s) ==
  /\ state[s] = "stored"
  /\ state' = [state EXCEPT ![s] = "gone"]
  /\ UNCHANGED <<provision, code, ssoUser, callback, late>>

(* The callback loads the configuration before it looks at the state. *)
BeginCallback(c, s) ==
  /\ callback[c] = NoCallback /\ state[s] # "none"
  /\ callback' = [callback EXCEPT ![c] = [NoCallback EXCEPT !.pc = "get", !.state = s, !.provision = provision]]
  /\ UNCHANGED <<provision, state, code, ssoUser, late>>

Step(c, pc) == callback' = [callback EXCEPT ![c].pc = pc]

EndCallback(c) == callback' = [callback EXCEPT ![c] = NoCallback]

GetState(c) ==
  LET s == callback[c].state
  IN
  /\ callback[c].pc = "get"
  /\ \/ state[s] = "stored" /\ Step(c, "del")
     \/ state[s] = "gone" /\ EndCallback(c)
  /\ UNCHANGED <<provision, state, code, ssoUser, late>>

DeleteState(c) ==
  /\ callback[c].pc = "del"
  /\ state' = [state EXCEPT ![callback[c].state] = "gone"]
  /\ Step(c, "exchange")
  /\ UNCHANGED <<provision, code, ssoUser, late>>

(* The provider gives a token once per code and names a verified email.    *)
ExchangeCode(c, e) ==
  /\ callback[c].pc = "exchange" /\ callback[c].state \in code
  /\ code' = code \ {callback[c].state}
  /\ callback' = [callback EXCEPT ![c].pc = "find", ![c].email = e]
  /\ UNCHANGED <<provision, state, ssoUser, late>>

\* Whoever has no user gets one.
FindOrCreate(c) ==
  /\ callback[c].pc = "find"
  /\ IF ssoUser[callback[c].email] = "user" THEN EndCallback(c) ELSE Step(c, "create")
  /\ UNCHANGED <<provision, state, code, ssoUser, late>>

FindUser(c) ==
  /\ callback[c].pc = "find"
  /\ CASE ssoUser[callback[c].email] = "user" -> EndCallback(c)
       [] callback[c].provision -> Step(c, "create")
       [] OTHER -> EndCallback(c)
  /\ UNCHANGED <<provision, state, code, ssoUser, late>>

(* A removed user was not found, and the row cannot be created again.      *)
CreateUser(c) ==
  LET e == callback[c].email
  IN
  /\ callback[c].pc = "create"
  /\ ssoUser' = [ssoUser EXCEPT ![e] = IF @ = "none" THEN "user" ELSE @]
  /\ late' = [late EXCEPT !.created = IF ssoUser[e] = "none" /\ ~provision THEN @ + 1 ELSE @]
  /\ EndCallback(c)
  /\ UNCHANGED <<provision, state, code>>

(* Redis, the provider or the database fails. *)
CallbackFails(c) ==
  /\ callback[c] # NoCallback
  /\ EndCallback(c)
  /\ UNCHANGED <<provision, state, code, ssoUser, late>>

(* PUT /sso/config *)
SaveConfig(auto) ==
  /\ provision # auto
  /\ provision' = auto
  /\ late' = [created |-> 0, underWay |-> Cardinality({c \in Callback : callback[c].provision})]
  /\ UNCHANGED <<state, code, ssoUser, callback>>

RemoveSsoUser(e) ==
  /\ ssoUser[e] = "user"
  /\ ssoUser' = [ssoUser EXCEPT ![e] = "removed"]
  /\ UNCHANGED <<provision, state, code, callback, late>>

SsoNext ==
  \/ \E s \in SsoState : Authorize(s) \/ ExpireState(s) \/ \E c \in Callback : BeginCallback(c, s)
  \/ \E c \in Callback :
       \/ GetState(c) \/ DeleteState(c) \/ FindUser(c) \/ CreateUser(c) \/ CallbackFails(c)
       \/ \E e \in SsoEmail : ExchangeCode(c, e)
  \/ \E auto \in BOOLEAN : SaveConfig(auto)
  \/ \E e \in SsoEmail : RemoveSsoUser(e)

SsoSpec == SsoInit /\ [][SsoNext]_ssoVars

-----------------------------------------------------------------------------
(* Properties *)

SsoTypeOK ==
  /\ provision \in BOOLEAN
  /\ state \in [SsoState -> {"none", "stored", "gone"}]
  /\ code \subseteq SsoState
  /\ ssoUser \in [SsoEmail -> {"none", "user", "removed"}]
  /\ callback \in [Callback -> [pc : {"away", "get", "del", "exchange", "find", "create"},
       state : SsoState \cup {"none"}, email : SsoEmail \cup {"none"}, provision : BOOLEAN]]
  /\ late \in [created : Nat, underWay : 0..Cardinality(Callback)]

(* Switching autoProvision off stops the creation of users, up to the      *)
(* callbacks that were under way with the old configuration.               *)
ProvisionBounded == ~provision => late.created <= late.underWay
=============================================================================
