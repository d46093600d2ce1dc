---------------------------- MODULE AccountErasure ----------------------------
(***************************************************************************)
(* The erasure of an account: DELETE /account/delete marks it and scrubs   *)
(* its users (softDeleteAccount), and a daily job purges it once the grace *)
(* period is over (hardDeleteAccount), while people join, leave and sign   *)
(* in, and audit entries are written. The transaction stores a status that *)
(* the CHECK constraints of the migrations refuse: constrained says        *)
(* whether the database has them. A database made from the schema alone,   *)
(* as in ci.yml, has none.                                                 *)
(***************************************************************************)
EXTENDS Naturals

CONSTANTS
  Eraser,    \* concurrent DELETE /account/delete
  Person,    \* the addresses invited to the account
  LogEntry,  \* rows of the account's audit log
  Grace      \* SOFT_DELETED_DAYS

ASSUME ErasureAssumption == Grace \in Nat

VARIABLES
  constrained,  \* the database has the CHECK constraints
  standing,     \* of the account: open, closing (marked) or purged
  days,         \* since it was marked
  person,       \* the user row of each address, or what there is instead
  signed,       \* the people with a session
  signing,      \* the people whose sign-in has read the user row
  log,          \* of each entry: none, personal or stripped
  erpCompany,   \* ERPNext has the company
  eraser,       \* the local state of each request
  purger,       \* where the daily job is
  joined,       \* people who joined while a request held its list of users
  arriving,     \* people whose sign-in was under way when the account was marked
  unstripped    \* entries written after the others were stripped

erasureVars == <<constrained, standing, days, person, signed, signing, log, erpCompany,
                 eraser, purger, joined, arriving, unstripped>>

NotErasing == [pc |-> "away", users |-> {}]

ErasureInit ==
  /\ constrained \in BOOLEAN
  /\ standing = "open" /\ days = 0 /\ erpCompany = TRUE /\ purger = "idle"
  /\ person = [p \in Person |-> "invited"]
  /\ signed = {} /\ signing = {} /\ joined = {} /\ arriving = {} /\ unstripped = {}
  /\ log = [x \in LogEntry |-> "none"]
  /\ eraser = [e \in Eraser |-> NotErasing]

Member == {p \in Person : person[p] = "member"}

Removed == {p \in Person : person[p] = "removed"}

Listing == {e \in Eraser : eraser[e].pc = "listed"}

-----------------------------------------------------------------------------
(* The people of the account *)

(* The invitation is used up and the row inserted, in one transaction.     *)
Join(p) ==
  /\ person[p] = "invited" /\ standing # "purged"
  /\ person' = [person EXCEPT ![p] = "member"]
  /\ joined' = IF Listing = {} THEN joined ELSE joined \cup {p}
  /\ UNCHANGED <<constrained, standing, days, signed, signing, log, erpCompany, eraser, purger, arriving, unstripped>>

(* Removed by an administrator: the row is marked and keeps the name.      *)
Leave(p) ==
  /\ person[p] = "member"
  /\ person' = [person EXCEPT ![p] = "removed"]
  /\ UNCHANGED <<constrained, standing, days, signed, signing, log, erpCompany, eraser, purger, joined, arriving, unstripped>>

(* The rows of the account and of the user are found while not marked.     *)
BeginAccess(p) ==
  /\ person[p] = "member" /\ standing = "open"
  /\ signing' = signing \cup {p}
  /\ UNCHANGED <<constrained, standing, days, person, signed, log, erpCompany, eraser, purger, joined, arriving, unstripped>>

(* A session needs the user row it refers to, marked or not. *)
EndAccess(p) ==
  /\ p \in signing /\ signing' = signing \ {p}
  /\ signed' \in IF standing = "purged" THEN {signed} ELSE {signed, signed \cup {p}}
  /\ UNCHANGED <<constrained, standing, days, person, log, erpCompany, eraser, purger, joined, arriving, unstripped>>

(* Logout, expiry, or the revocation that follows a removal. *)
LogOut(p) ==
  /\ p \in signed /\ signed' = signed \ {p}
  /\ UNCHANGED <<constrained, standing, days, person, signing, log, erpCompany, eraser, purger, joined, arriving, unstripped>>

(* An entry names the account, which has to be there. *)
LogPersonal(x) ==
  /\ log[x] = "none" /\ standing # "purged"
  /\ log' = [log EXCEPT ![x] = "personal"]
  /\ unstripped' = IF purger \in {"erpCompany", "delete"} THEN unstripped \cup {x} ELSE unstripped
  /\ UNCHANGED <<constrained, standing, days, person, signed, signing, erpCompany, eraser, purger, joined, arriving>>

-----------------------------------------------------------------------------
(* DELETE /account/delete *)

(* softDeleteAccount lists the users whose rows are not marked. *)
ListUsers(e) ==
  /\ eraser[e].pc = "away" /\ standing = "open"
  /\ eraser' = [eraser EXCEPT ![e] = [pc |-> "listed", users |-> Member]]
  /\ UNCHANGED <<constrained, standing, days, person, signed, signing, log, erpCompany, purger, joined, arriving, unstripped>>

(* The transaction: every listed row has to be there unmarked still.       *)
(* Invitations go, so nobody joins from here on.                           *)
SoftDelete(e) ==
  LET users == eraser[e].users IN
  /\ eraser[e].pc = "listed" /\ ~constrained
  /\ standing = "open" /\ users \subseteq Member
  /\ standing' = "closing" /\ days' = 0
  /\ person' = [p \in Person |-> CASE p \in users -> "scrubbed"
                                   [] person[p] = "invited" -> "gone"
                                   [] OTHER -> person[p]]
  /\ signed' = signed \ users
  /\ arriving' = signing
  /\ eraser' = [eraser EXCEPT ![e].pc = "revoke"]
  /\ UNCHANGED <<constrained, signing, log, erpCompany, purger, joined, unstripped>>

(* Nothing of it is done: a status the constraints refuse, a listed user   *)
(* removed meanwhile, another request that was first, or a failure.        *)
SoftDeleteFails(e) ==
  /\ eraser[e].pc = "listed"
  /\ eraser' = [eraser EXCEPT ![e] = NotErasing]
  /\ joined' = IF Listing = {e} /\ standing = "open" THEN {} ELSE joined
  /\ UNCHANGED <<constrained, standing, days, person, signed, signing, log, erpCompany, purger, arriving, unstripped>>

(* The route revokes the sessions of the users it saw, each of which may   *)
(* fail unnoticed.                                                         *)
RevokeAccess(e) ==
  /\ eraser[e].pc = "revoke"
  /\ \E failed \in SUBSET eraser[e].users : signed' = signed \ (eraser[e].users \ failed)
  /\ eraser' = [eraser EXCEPT ![e] = NotErasing]
  /\ UNCHANGED <<constrained, standing, days, person, signing, log, erpCompany, purger, joined, arriving, unstripped>>

-----------------------------------------------------------------------------
(* The daily job *)

(* findAccountsDueForHardDelete *)
FindDue ==
  /\ purger = "idle" /\ standing = "closing" /\ days > Grace
  /\ purger' = "strip"
  /\ UNCHANGED <<constrained, standing, days, person, signed, signing, log, erpCompany, eraser, joined, arriving, unstripped>>

\* The company goes first, and the entries are forgotten.
StripNothing ==
  /\ purger = "strip" /\ purger' = "erpCompany"
  /\ UNCHANGED <<constrained, standing, days, person, signed, signing, log, erpCompany, eraser, joined, arriving, unstripped>>

StripLog ==
  /\ purger = "strip" /\ purger' = "erpCompany"
  /\ log' = [x \in LogEntry |-> IF log[x] = "personal" THEN "stripped" ELSE log[x]]
  /\ unstripped' = {}
  /\ UNCHANGED <<constrained, standing, days, person, signed, signing, erpCompany, eraser, joined, arriving>>

(* deleteErpnextCompany, whose failure does not stop the purge. *)
DeleteCompany ==
  /\ purger = "erpCompany" /\ purger' = "delete"
  /\ erpCompany' \in {FALSE, erpCompany}
  /\ UNCHANGED <<constrained, standing, days, person, signed, signing, log, eraser, joined, arriving, unstripped>>

(* The row of the account takes those of the users and sessions with it,   *)
(* and leaves the entries.                                                 *)
HardDelete ==
  /\ purger = "delete" /\ purger' = "idle"
  /\ standing' = "purged"
  /\ person' = [p \in Person |-> "gone"] /\ signed' = {}
  /\ UNCHANGED <<constrained, days, signing, log, erpCompany, eraser, joined, arriving, unstripped>>

(* An error, or the loss of the worker: the next run finds the account.    *)
PurgeFails ==
  /\ purger # "idle" /\ purger' = "idle"
  /\ UNCHANGED <<constrained, standing, days, person, signed, signing, log, erpCompany, eraser, joined, arriving, unstripped>>

NextDay ==
  /\ standing = "closing" /\ days <= Grace /\ days' = days + 1
  /\ UNCHANGED <<constrained, standing, person, signed, signing, log, erpCompany, eraser, purger, joined, arriving, unstripped>>

DeleteRequest(e) == ListUsers(e) \/ SoftDelete(e) \/ SoftDeleteFails(e) \/ RevokeAccess(e)

(* The task purge-deleted-accounts of the cleanup worker. *)
PurgeTask == FindDue \/ StripLog \/ DeleteCompany \/ HardDelete \/ PurgeFails

ErasureNext ==
  \/ \E p \in Person : Join(p) \/ Leave(p) \/ BeginAccess(p) \/ EndAccess(p) \/ LogOut(p)
  \/ \E x \in LogEntry : LogPersonal(x)
  \/ \E e \in Eraser : DeleteRequest(e)
  \/ PurgeTask
  \/ NextDay

ErasureSpec == ErasureInit /\ [][ErasureNext]_erasureVars

-----------------------------------------------------------------------------
(* Properties *)

ErasureTypeOK ==
  /\ constrained \in BOOLEAN /\ erpCompany \in BOOLEAN
  /\ standing \in {"open", "closing", "purged"} /\ days \in 0..(Grace + 1)
  /\ person \in [Person -> {"invited", "member", "removed", "scrubbed", "gone"}]
  /\ signed \subseteq Person /\ signing \subseteq Person
  /\ joined \subseteq Person /\ arriving \subseteq Person /\ unstripped \subseteq LogEntry
  /\ log \in [LogEntry -> {"none", "personal", "stripped"}]
  /\ eraser \in [Eraser -> [pc : {"away", "listed", "revoke"}, users : SUBSET Person]]
  /\ purger \in {"idle", "strip", "erpCompany", "delete"}

(* The account is gone only with every audit entry stripped of personal    *)
(* data but those written while it was being purged; and from the moment   *)
(* it is marked its users are scrubbed and signed out, but for those who   *)
(* joined after the request listed them, had been removed before it did,   *)
(* or were signing in (account-cleanup.service.ts:63 and 158).             *)
ErasedClean ==
  /\ standing = "purged" => \A x \in LogEntry : log[x] = "personal" => x \in unstripped
  /\ standing = "closing" => Member \subseteq joined /\ signed \subseteq joined \cup arriving \cup Removed
=============================================================================
