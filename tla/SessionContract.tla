--------------------------- MODULE SessionContract ---------------------------
(***************************************************************************)
(* What the session service promises the rest of the API, without cache,   *)
(* index or requests: a session is authenticated while it exists, and for  *)
(* at most Grace after it was revoked; a revoked session never exists      *)
(* again.                                                                  *)
(***************************************************************************)
EXTENDS Naturals

CONSTANTS Session, Grace

VARIABLES now, born, rows, revokedAt, lastOk

vars == <<now, born, rows, revokedAt, lastOk>>

Init ==
  /\ now = 0 /\ born = {} /\ rows = {}
  /\ revokedAt = [s \in Session |-> 0] /\ lastOk = [s \in Session |-> 0]

Forget(out) ==
  revokedAt' = [s \in Session |-> IF s \in rows \cap out THEN now ELSE revokedAt[s]]

(* A login creates a session that never was, and may end older ones. *)
LogIn(s, out) ==
  /\ s \notin born
  /\ born' = born \cup {s}
  /\ rows' = (rows \ out) \cup {s}
  /\ Forget(out)
  /\ lastOk' = [lastOk EXCEPT ![s] = now]
  /\ UNCHANGED now

Revoke(out) ==
  /\ rows' = rows \ out
  /\ Forget(out)
  /\ UNCHANGED <<now, born, lastOk>>

Authenticate(s) ==
  /\ s \in rows \/ (s \in born /\ now <= revokedAt[s] + Grace)
  /\ lastOk' = [lastOk EXCEPT ![s] = now]
  /\ UNCHANGED <<now, born, rows, revokedAt>>

Tick == now' = now + 1 /\ UNCHANGED <<born, rows, revokedAt, lastOk>>

Next ==
  \/ \E s \in Session : (\E out \in SUBSET Session : LogIn(s, out)) \/ Authenticate(s)
  \/ \E out \in SUBSET Session : Revoke(out)
  \/ Tick

Spec == Init /\ [][Next]_vars

-----------------------------------------------------------------------------
(* Properties *)

(* What the callers of revokeSession and revokeAllUserSessions count on: a *)
(* session that was revoked is never restored or revoked again...          *)
StaysRevoked == [][\A s \in born \ rows : s \notin rows' /\ revokedAt'[s] = revokedAt[s]]_vars

(* ...and the last request it authenticated came within Grace.             *)
DiesWithinGrace == \A s \in born \ rows : lastOk[s] <= revokedAt[s] + Grace
=============================================================================
