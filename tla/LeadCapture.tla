----------------------------- MODULE LeadCapture -----------------------------
(* The two public forms (leads.routes.ts) as one visitor's email meets     *)
(* them: a sliding window of an hour in Redis for each form, counted in    *)
(* one pipeline and recorded in another, then the row and the mails nobody *)
(* waits for. Without Redis the forms refuse; a command that fails inside  *)
(* a pipeline does not make the pipeline throw.                            *)
EXTENDS Naturals, FiniteSets, SortedSet

CONSTANTS
  LeadRequest,  \* concurrent submissions of the email
  LeadLimit,    \* LEADS_RATE_LIMIT
  LeadWindow,   \* LEADS_WINDOW_MS
  LeadDelay,    \* how long a submission takes at most
  MaxFaults,    \* bounds the model: commands that fail inside a pipeline
  LastInstant   \* bounds the model: the clock

ASSUME LeadAssumption ==
  /\ IsFiniteSet(LeadRequest) /\ LeadRequest # {}
  /\ LeadLimit \in Nat \ {0} /\ LeadWindow \in Nat \ {0} /\ LeadDelay \in Nat
  /\ MaxFaults \in Nat /\ LastInstant \in Nat

VARIABLES
  form,      \* the form that is followed: each has a window of its own
  instant,   \* the time
  window,    \* the form's sorted set: how many members have each score
  capture,   \* the local state of each submission
  mailed,    \* how many submissions of each instant were mailed about
  faults     \* commands that failed inside a pipeline

leadVars == <<form, instant, window, capture, mailed, faults>>

Form == {"demo", "newsletter"}
Instant == 0..LastInstant
NotCapturing == [pc |-> "away", at |-> 0]

LeadInit ==
  /\ form \in Form /\ instant = 0 /\ faults = 0
  /\ window = [t \in Instant |-> 0] /\ mailed = [t \in Instant |-> 0]
  /\ capture = [r \in LeadRequest |-> NotCapturing]

(* A submission that is well formed and within the limit of its address    *)
(* (RateLimits).                                                           *)
Submit(r) ==
  /\ capture[r].pc = "away"
  /\ capture' = [capture EXCEPT ![r] = [pc |-> "count", at |-> instant]]
  /\ UNCHANGED <<form, instant, window, mailed, faults>>

(* The scores the first pipeline leaves. *)
Recent(r) ==
  [t \in Instant |-> IF t + LeadWindow <= capture[r].at THEN 0 ELSE window[t]]

Allows(count) == count < LeadLimit

(* zremrangebyscore and zcard; a zcard that failed reads as none. *)
CountLeads(r) ==
  /\ capture[r].pc = "count"
  /\ window' = Recent(r)
  /\ \/ /\ capture' = [capture EXCEPT ![r] = IF Allows(Tally(Recent(r), Instant)) THEN [@ EXCEPT !.pc = "record"] ELSE NotCapturing]
        /\ UNCHANGED faults
     \/ /\ faults < MaxFaults /\ faults' = faults + 1
        /\ capture' = [capture EXCEPT ![r].pc = "record"]
  /\ UNCHANGED <<form, instant, mailed>>

(* zadd and pexpire; the key outlives its newest score by a window, so its *)
(* expiry takes nothing that still counts.                                 *)
RecordLead(r) ==
  /\ capture[r].pc = "record"
  /\ \/ window' = [window EXCEPT ![capture[r].at] = @ + 1] /\ UNCHANGED faults
     \/ faults < MaxFaults /\ faults' = faults + 1 /\ UNCHANGED window
  /\ capture' = [capture EXCEPT ![r].pc = "send"]
  /\ UNCHANGED <<form, instant, mailed>>

(* No Redis, or a pipeline that throws: the submission is refused. *)
RefuseLead(r) ==
  /\ capture[r].pc \in {"count", "record"}
  /\ capture' = [capture EXCEPT ![r] = NotCapturing]
  /\ UNCHANGED <<form, instant, window, mailed, faults>>

Mail(r) ==
  /\ capture[r].pc = "send"
  /\ mailed' = [mailed EXCEPT ![capture[r].at] = @ + 1]
  /\ capture' = [capture EXCEPT ![r] = NotCapturing]
  /\ UNCHANGED <<form, instant, window, faults>>

(* The row is stored, or not, and the visitor and sales are mailed. *)
MailDemo(r) == form = "demo" /\ Mail(r)

(* The row is stored, or not, and the visitor is mailed. *)
MailNewsletter(r) == form = "newsletter" /\ Mail(r)

Wait ==
  /\ instant < LastInstant /\ instant' = instant + 1
  /\ \A r \in LeadRequest : capture[r].pc # "away" => instant - capture[r].at < LeadDelay
  /\ UNCHANGED <<form, window, capture, mailed, faults>>

LeadNext ==
  \/ \E r \in LeadRequest :
       \/ Submit(r) \/ CountLeads(r) \/ RecordLead(r) \/ RefuseLead(r) \/ MailDemo(r) \/ MailNewsletter(r)
  \/ Wait

LeadSpec == LeadInit /\ [][LeadNext]_leadVars

-----------------------------------------------------------------------------
(* Properties *)

LeadTypeOK ==
  /\ form \in Form /\ instant \in Instant /\ faults \in 0..MaxFaults
  /\ window \in [Instant -> Nat] /\ mailed \in [Instant -> Nat]
  /\ capture \in [LeadRequest -> [pc : {"away", "count", "record", "send"}, at : Instant]]

(* Each form mails about one email at most LEADS_RATE_LIMIT times for the  *)
(* submissions of the last hour, but for the submissions that counted at   *)
(* once and the commands that failed unseen, in whatever order the         *)
(* pipelines of overlapping submissions reach Redis.                       *)
LeadsBounded ==
  Tally(mailed, {t \in Instant : t + LeadWindow > instant})
    <= LeadLimit + Cardinality(LeadRequest) - 1 + faults
=============================================================================
