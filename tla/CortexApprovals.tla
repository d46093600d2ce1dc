--------------------------- MODULE CortexApprovals ----------------------------
(***************************************************************************)
(* The approval requests a halted chat leaves behind (cortex.routes.ts):   *)
(* users of the account approve or reject them, and each decision is       *)
(* emitted as an event for the workers.                                    *)
(***************************************************************************)
EXTENDS Naturals, FiniteSets

CONSTANTS
  Reviewer,   \* requests that decide at the same time
  Asked       \* the approval requests

VARIABLES
  approval,   \* the state of each request
  reviewer,   \* the decision each reviewer has made and not announced
  announced   \* the decisions announced as events

approvalVars == <<approval, reviewer, announced>>

Decision == {"approved", "rejected"}
Decided == [id : Asked, as : Decision]
Nothing == [id |-> "none", as |-> "none"]

ApprovalInit ==
  /\ approval = [a \in Asked |-> "none"]
  /\ reviewer = [v \in Reviewer |-> Nothing]
  /\ announced = {}

(* A chat run halts, see CortexEngine's QueueApproval. *)
AskApproval(a) ==
  /\ approval[a] = "none"
  /\ approval' = [approval EXCEPT ![a] = "pending"]
  /\ UNCHANGED <<reviewer, announced>>

\* The request is found whatever became of it.
Asking(a) == approval[a] # "none"

(* The decision is one statement, which finds the request pending or does  *)
(* nothing.                                                                *)
Pending(a) == approval[a] = "pending"

Decide(v, a, as) ==
  /\ reviewer[v] = Nothing
  /\ Pending(a)
  /\ approval' = [approval EXCEPT ![a] = as]
  /\ reviewer' = [reviewer EXCEPT ![v] = [id |-> a, as |-> as]]
  /\ UNCHANGED announced

(* emitEvent may fail, which no one is told. *)
EmitDecision(v) ==
  /\ reviewer[v] # Nothing
  /\ announced' \in {announced, announced \cup {reviewer[v]}}
  /\ reviewer' = [reviewer EXCEPT ![v] = Nothing]
  /\ UNCHANGED approval

Approve(v, a) == Decide(v, a, "approved")
Reject(v, a) == Decide(v, a, "rejected")

ApprovalNext ==
  \/ \E a \in Asked : AskApproval(a)
  \/ \E v \in Reviewer : EmitDecision(v) \/ \E a \in Asked : Approve(v, a) \/ Reject(v, a)

ApprovalSpec == ApprovalInit /\ [][ApprovalNext]_approvalVars

-----------------------------------------------------------------------------
(* Properties *)

ApprovalTypeOK ==
  /\ approval \in [Asked -> {"none", "pending"} \cup Decision]
  /\ reviewer \in [Reviewer -> Decided \cup {Nothing}]
  /\ announced \subseteq Decided

(* Reviewers race for a request: one decision stands, and no other one is  *)
(* ever announced to the workers (cortex.routes.ts:551).                   *)
DecisionStands ==
  \A d \in announced \cup {reviewer[v] : v \in Reviewer} :
    d # Nothing => approval[d.id] = d.as
=============================================================================
