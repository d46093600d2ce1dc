--------------------------- MODULE MCSessionReset ---------------------------
(* SessionStore with one history variable: the sessions whose row a change *)
(* or a reset of the password deleted.                                     *)
EXTENDS MCSessionStore

VARIABLE expelled

ResetInit == Init /\ expelled = {}

ResetNext ==
  \/ /\ (\E r \in Request : RequestStep(r)) \/ DeleteExpired \/ Tick
     /\ UNCHANGED expelled
  \/ \E keep \in Kept :
       /\ PasswordChanged(keep)
       /\ expelled' = expelled \cup (rows \ keep)

ResetSpec == ResetInit /\ [][ResetNext]_<<vars, expelled>>

(* What applyPasswordReset says of its last transaction: the sessions it   *)
(* revokes are invalid from then on.                                       *)
ExpelledAtOnce == \A s \in expelled : lastOk[s] <= revokedAt[s]
=============================================================================
