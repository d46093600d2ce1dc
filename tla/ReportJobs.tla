------------------------------ MODULE ReportJobs ------------------------------
(***************************************************************************)
(* Reports of an account: a request queues a job unless the queue is full, *)
(* a worker writes the report into the audit log and returns it as the     *)
(* job's value, and the status route looks for the job in the queue, which *)
(* forgets finished jobs, and then for the row in the audit log.           *)
(***************************************************************************)
EXTENDS Naturals, FiniteSets

CONSTANTS
  Report,           \* the jobs
  Requester,        \* concurrent requests for a report
  Poller,           \* concurrent status requests
  MaxReportDepth,   \* MAX_REPORT_QUEUE_DEPTH
  ReportAttempts    \* attempts of the reports queue

ASSUME ReportAssumption == MaxReportDepth \in Nat /\ ReportAttempts \in Nat \ {0}

VARIABLES
  report,     \* the job: its state and the attempts that failed
  logged,     \* the reports in the audit log
  requester,  \* what each request does
  poller      \* what each status request does, for which report, whether it was done, the answer

reportVars == <<report, logged, requester, poller>>

NoPoll == [pc |-> "away", report |-> "none", done |-> FALSE, answer |-> "none"]

ReportInit ==
  /\ report = [p \in Report |-> [state |-> "absent", tries |-> 0]]
  /\ logged = {}
  /\ requester = [q \in Requester |-> "away"]
  /\ poller = [v \in Poller |-> NoPoll]

InState(state) == {p \in Report : report[p].state = state}

SetState(p, state) == report' = [report EXCEPT ![p].state = state]

CheckDepth(q) ==
  /\ requester[q] = "away"
  /\ Cardinality(InState("waiting")) <= MaxReportDepth
  /\ requester' = [requester EXCEPT ![q] = "add"]
  /\ UNCHANGED <<report, logged, poller>>

EnqueueReport(q, p) ==
  /\ requester[q] = "add" /\ p \in InState("absent")
  /\ SetState(p, "waiting")
  /\ requester' = [requester EXCEPT ![q] = "away"]
  /\ UNCHANGED <<logged, poller>>

StartReport(p) ==
  /\ p \in InState("waiting")
  /\ SetState(p, "active")
  /\ UNCHANGED <<logged, requester, poller>>

\* A report that is returned and not logged.
WriteNoRow(p) ==
  /\ p \in InState("active")
  /\ SetState(p, "written")
  /\ UNCHANGED <<logged, requester, poller>>

(* The report and its row are one transaction. *)
WriteReport(p) ==
  /\ p \in InState("active")
  /\ logged' = logged \cup {p}
  /\ SetState(p, "written")
  /\ UNCHANGED <<requester, poller>>

CompleteReport(p) ==
  /\ p \in InState("written")
  /\ SetState(p, "completed")
  /\ UNCHANGED <<logged, requester, poller>>

(* The handler throws, or the worker is lost before or after the row was   *)
(* written; the job waits again, delayed at first.                         *)
FailReport(p) ==
  LET tries == report[p].tries + 1
  IN
  /\ p \in InState("active") \cup InState("written")
  /\ report' = [report EXCEPT ![p] = [state |-> IF tries < ReportAttempts THEN "delayed" ELSE "failed",
                                      tries |-> tries]]
  /\ UNCHANGED <<logged, requester, poller>>

RetryReport(p) ==
  /\ p \in InState("delayed")
  /\ SetState(p, "waiting")
  /\ UNCHANGED <<logged, requester, poller>>

(* removeOnComplete and removeOnFail keep the last jobs only. *)
ForgetReport(p) ==
  /\ p \in InState("completed") \cup InState("failed")
  /\ SetState(p, "removed")
  /\ UNCHANGED <<logged, requester, poller>>

Poll(v, p) ==
  /\ poller[v] = NoPoll /\ p \notin InState("absent")
  /\ poller' = [poller EXCEPT ![v] = [NoPoll EXCEPT !.pc = "job", !.report = p,
                                                    !.done = report[p].state = "completed"]]
  /\ UNCHANGED <<report, logged, requester>>

Answered(v, answer) == poller' = [poller EXCEPT ![v].pc = "done", ![v].answer = answer]

(* The state is asked for after the job; it may be unknown by then. *)
PollJob(v) ==
  /\ poller[v].pc = "job"
  /\ IF report[poller[v].report].state = "removed"
     THEN poller' = [poller EXCEPT ![v].pc = "log"]
     ELSE Answered(v, "found")
  /\ UNCHANGED <<report, logged, requester>>

PollLog(v) ==
  /\ poller[v].pc = "log"
  /\ Answered(v, IF poller[v].report \in logged THEN "found" ELSE "missing")
  /\ UNCHANGED <<report, logged, requester>>

EndPoll(v) ==
  /\ poller[v].pc = "done"
  /\ poller' = [poller EXCEPT ![v] = NoPoll]
  /\ UNCHANGED <<report, logged, requester>>

ReportStep(p) ==
  StartReport(p) \/ WriteReport(p) \/ CompleteReport(p) \/ FailReport(p) \/ RetryReport(p) \/ ForgetReport(p)

ReportNext ==
  \/ \E q \in Requester : CheckDepth(q) \/ \E p \in Report : EnqueueReport(q, p)
  \/ \E p \in Report : ReportStep(p)
  \/ \E v \in Poller : PollJob(v) \/ PollLog(v) \/ EndPoll(v) \/ \E p \in Report : Poll(v, p)

ReportSpec == ReportInit /\ [][ReportNext]_reportVars

-----------------------------------------------------------------------------
(* Properties *)

ReportTypeOK ==
  /\ report \in [Report -> [tries : 0..ReportAttempts,
       state : {"absent", "waiting", "active", "written", "completed", "delayed", "failed", "removed"}]]
  /\ logged \subseteq Report
  /\ requester \in [Requester -> {"away", "add"}]
  /\ poller \in [Poller -> [pc : {"away", "job", "log", "done"}, report : Report \cup {"none"},
                            done : BOOLEAN, answer : {"none", "found", "missing"}]]

(* The queue forgets the job between the two places the status route looks *)
(* in: a report that was completed when a request came in is found by it   *)
(* all the same (reports.routes.ts:196-235).                               *)
ReportFound == \A v \in Poller : poller[v].done => poller[v].answer # "missing"
=============================================================================
