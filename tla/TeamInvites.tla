------------------------------ MODULE TeamInvites ------------------------------
(***************************************************************************)
(* Invitations into one account (routes/invite.routes.ts, invite.service): *)
(* an inviter counts the plan's seats and then creates the invite, whoever *)
(* holds an invite accepts it, invites expire and are resent, and members  *)
(* are removed by a soft delete that later look-ups do not see.  The plan  *)
(* does not change, and the owner's seat is left out of the count.         *)
(***************************************************************************)
EXTENDS Naturals, FiniteSets

CONSTANTS
  Email,       \* who is invited
  Inviter,     \* concurrent POST /invite
  Accepter,    \* concurrent POST /invite/accept
  SeatLimit,   \* PLAN_USER_LIMITS of the plan, without the owner
  MaxInvites,  \* bounds the model: invites ever created
  MaxExcused   \* bounds the model: see excused

ASSUME SeatAssumption ==
  /\ IsFiniteSet(Email)
  /\ SeatLimit \in Nat /\ MaxInvites \in Nat /\ MaxExcused \in Nat

VARIABLES
  member,    \* the user row of each email; a ghost is active but still deleted
  invite,    \* the invites
  inviter,   \* the local state of each inviter
  accepter,  \* the local state of each accepter
  excused    \* seats filled by an inviter who was overtaken, by resending an expired invite
             \* or by an invite that was used up or had expired since it was checked

seatVars == <<member, invite, inviter, accepter, excused>>

Invite == 1..MaxInvites
Away == [pc |-> "away", invite |-> 0]
NotInviting == [pc |-> "count", email |-> "none", counted |-> {}, seats |-> 0, overtaken |-> FALSE,
                old |-> {}, invite |-> 0]

SeatInit ==
  /\ member = [e \in Email |-> "none"]
  /\ invite = [i \in Invite |-> [state |-> "absent", email |-> "none"]]
  /\ inviter = [q \in Inviter |-> NotInviting]
  /\ accepter = [v \in Accepter |-> Away]
  /\ excused = 0

In(state) == {i \in Invite : invite[i].state = state}
Unused == In("pending") \cup In("expired")
Members == {e \in Email : member[e] = "active"}

\* Pending invites take no seat.
OccupiedByUsers(what) == Cardinality(IF what = "users" THEN Members ELSE {})

Occupied(what) == Cardinality(IF what = "users" THEN Members ELSE In("pending"))

\* Whoever has begun to count and not created the invite misses what changes.
Overtaken(q) ==
  [inviter[q] EXCEPT !.overtaken = @ \/ inviter[q].counted # {} \/ inviter[q].pc = "create"]

(* The two counts are sent together and answered in either order. *)
CountSeats(q, what) ==
  /\ inviter[q].pc = "count" /\ what \notin inviter[q].counted
  /\ inviter' = [inviter EXCEPT ![q].seats = @ + Occupied(what), ![q].counted = @ \cup {what}]
  /\ UNCHANGED <<member, invite, accepter, excused>>

Counted(q) == inviter[q].pc = "count" /\ inviter[q].counted = {"users", "invites"}

HasSeat(q) == inviter[q].seats < SeatLimit

(* A removed user is not found; the transaction marks the invites it finds *)
(* of this email as used.                                                  *)
BeginCreate(q, e) ==
  /\ Counted(q) /\ HasSeat(q)
  /\ member[e] # "active"
  /\ inviter' = [inviter EXCEPT ![q] = [NotInviting EXCEPT !.pc = "create", !.email = e,
                                          !.overtaken = inviter[q].overtaken,
                                          !.old = {i \in Unused : invite[i].email = e}]]
  /\ UNCHANGED <<member, invite, accepter, excused>>

(* No seat is left, or the email is that of an active user. *)
RefuseInvite(q) ==
  /\ Counted(q)
  /\ ~HasSeat(q) \/ Members # {}
  /\ inviter' = [inviter EXCEPT ![q] = NotInviting]
  /\ UNCHANGED <<member, invite, accepter, excused>>

CreateInvite(q) ==
  /\ inviter[q].pc = "create" /\ In("absent") # {}
  /\ inviter[q].overtaken => excused < MaxExcused
  /\ excused' = IF inviter[q].overtaken THEN excused + 1 ELSE excused
  /\ LET new == CHOOSE i \in In("absent") : TRUE
     IN /\ invite' = [i \in Invite |->
                        CASE i = new -> [state |-> "pending", email |-> inviter[q].email]
                          [] i \in inviter[q].old /\ i \in Unused -> [invite[i] EXCEPT !.state = "used"]
                          [] OTHER -> invite[i]]
        /\ inviter' = [p \in Inviter |-> IF p = q THEN [NotInviting EXCEPT !.pc = "mail", !.invite = new]
                                         ELSE Overtaken(p)]
  /\ UNCHANGED <<member, accepter>>

(* An invite whose mail cannot be sent is deleted again, if that succeeds. *)
MailInvite(q) ==
  /\ inviter[q].pc = "mail"
  /\ invite' \in {invite, [invite EXCEPT ![inviter[q].invite].state = "deleted"]}
  /\ inviter' = [inviter EXCEPT ![q] = NotInviting]
  /\ UNCHANGED <<member, accepter, excused>>

ExpireInvite(i) ==
  /\ i \in In("pending")
  /\ invite' = [invite EXCEPT ![i].state = "expired"]
  /\ UNCHANGED <<member, inviter, accepter, excused>>

(* Any unused invite is resent for another 72 hours, with a new token and  *)
(* without a count.  Whoever holds the old token is refused.               *)
ResendInvite(i) ==
  /\ i \in Unused
  /\ invite[i].state = "expired" => excused < MaxExcused
  /\ invite' = [invite EXCEPT ![i].state = "pending"]
  /\ excused' = IF invite[i].state = "expired" THEN excused + 1 ELSE excused
  /\ inviter' = IF invite[i].state = "expired" THEN [q \in Inviter |-> Overtaken(q)] ELSE inviter
  /\ accepter' = [v \in Accepter |->
                    IF accepter[v] = [pc |-> "check", invite |-> i] THEN Away ELSE accepter[v]]
  /\ UNCHANGED member

(* The invite is checked and the password set in ERPNext ... *)
OpenInvite(v, i) ==
  /\ accepter[v] = Away /\ i \in In("pending")
  /\ accepter' = [accepter EXCEPT ![v] = [pc |-> "check", invite |-> i]]
  /\ UNCHANGED <<member, invite, inviter, excused>>

(* ... and the invite checked again by its token; ERPNext may refuse too. *)
CheckInvite(v) ==
  /\ accepter[v].pc = "check"
  /\ \/ /\ accepter[v].invite \in In("pending")
        /\ accepter' = [accepter EXCEPT ![v].pc = "commit"]
     \/ accepter' = [accepter EXCEPT ![v] = Away]
  /\ UNCHANGED <<member, invite, inviter, excused>>

Joined(e) == CASE member[e] = "none" -> "active"
               [] member[e] = "removed" -> "ghost"
               [] OTHER -> member[e]

(* The transaction uses the invite, whatever became of it since, unless it *)
(* was deleted; the password's hash is stored afterwards.                  *)
AcceptInvite(v) ==
  LET i == accepter[v].invite
      e == invite[i].email
      late == member[e] = "none" /\ invite[i].state # "pending"
  IN
  /\ accepter[v].pc = "commit" /\ invite[i].state # "deleted"
  /\ late => excused < MaxExcused
  /\ invite' = [invite EXCEPT ![i].state = "used"]
  /\ member' = [member EXCEPT ![e] = Joined(e)]
  /\ excused' = IF late THEN excused + 1 ELSE excused
  /\ inviter' = [q \in Inviter |-> Overtaken(q)]
  /\ accepter' = [accepter EXCEPT ![v] = Away]

AcceptFails(v) ==
  /\ accepter[v].pc = "commit"
  /\ accepter' = [accepter EXCEPT ![v] = Away]
  /\ UNCHANGED <<member, invite, inviter, excused>>

(* DELETE /team/:id does not find a ghost. *)
RemoveMember(e) ==
  /\ member[e] = "active"
  /\ member' = [member EXCEPT ![e] = "removed"]
  /\ UNCHANGED <<invite, inviter, accepter, excused>>

SeatNext ==
  \/ \E q \in Inviter :
       \/ \E what \in {"users", "invites"} : CountSeats(q, what)
       \/ \E e \in Email : BeginCreate(q, e)
       \/ RefuseInvite(q) \/ CreateInvite(q) \/ MailInvite(q)
  \/ \E i \in Invite : ExpireInvite(i) \/ ResendInvite(i)
  \/ \E v \in Accepter :
       (\E i \in Invite : OpenInvite(v, i)) \/ CheckInvite(v) \/ AcceptInvite(v) \/ AcceptFails(v)
  \/ \E e \in Email : RemoveMember(e)

SeatSpec == SeatInit /\ [][SeatNext]_seatVars

-----------------------------------------------------------------------------
(* Properties *)

SeatTypeOK ==
  /\ member \in [Email -> {"none", "active", "removed", "ghost"}]
  /\ invite \in [Invite -> [state : {"absent", "pending", "expired", "used", "deleted"},
                            email : Email \cup {"none"}]]
  /\ inviter \in [Inviter -> [pc : {"count", "create", "mail"}, email : Email \cup {"none"},
                              counted : SUBSET {"users", "invites"}, seats : Nat, overtaken : BOOLEAN,
                              old : SUBSET Invite, invite : Invite \cup {0}]]
  /\ accepter \in [Accepter -> [pc : {"away", "check", "commit"}, invite : Invite \cup {0}]]
  /\ excused \in 0..MaxExcused

(* The limit is checked long before the invite that fills the seat is      *)
(* created or accepted: a seat too many is filled by an inviter whom       *)
(* another one or an acceptance has overtaken, by resending an expired     *)
(* invite, or by an invite used after it was superseded or had expired,    *)
(* one each, and by nothing else (invite.routes.ts:101).                   *)
SeatsBounded == Cardinality(Members) + Cardinality(In("pending")) <= SeatLimit + excused
=============================================================================
