---------------------------- MODULE BillingProofs ----------------------------
(***************************************************************************)
(* Proofs about Billing, for any events, any number of handlers, any retry *)
(* budget and any number of crashes.                                       *)
(***************************************************************************)
EXTENDS Billing, FiniteSetTheorems, SequenceTheorems, TLAPS

(* A handler that is not free is about an event that Paddle sent. *)
Busy ==
  \A h \in Handler : handler[h].pc # "free" => handler[h].event \in Event /\ sentAt[handler[h].event] # None

(* The changes an event has made, and those its handlers are about to.     *)
Used(e) == applied[e] + Cardinality(Applying(e))

(* Each of them had a lifetime of the key, and they came one after another *)
(* since the event was sent.                                               *)
Spaced ==
  \A e \in Event :
    /\ sentAt[e] # None => sentAt[e] <= now
    /\ key[e] = None => applied[e] = 0 /\ Applying(e) = {}
    /\ key[e] # None => /\ sentAt[e] # None
                        /\ key[e] <= now + KeyTtl /\ sentAt[e] + Used(e) * KeyTtl <= key[e]

(* A key is not set without a change, a handler about to make it, or a     *)
(* failure; and nothing is answered 200 before its key is set.             *)
Accounted ==
  /\ \A e \in Event : key[e] # None => applied[e] > 0 \/ e \in lost \/ Applying(e) # {}
  /\ \A e \in acked : key[e] # None
  /\ \A h \in Handler : handler[h].pc \in {"apply", "enqueue"} => key[handler[h].event] # None

Retries == Attempts - job.left
Stalls  == IF job.stalled THEN 1 ELSE 0

(* What the runs of the job so far, failed, stalled or going on, can have  *)
(* inserted.                                                               *)
Inserted ==
  /\ job.left <= Attempts
  /\ invoices <= Len(subs)
  /\ job.state = "none" => invoices = 0 /\ Len(subs) = 0 /\ ~job.stalled
  /\ job.state \in {"waiting", "active"} => job.left >= 1
  /\ job.state = "waiting" \/ (job.state = "active" /\ job.step = "create") =>
       Len(subs) <= Retries + Stalls /\ invoices <= Stalls
  /\ job.state = "active" /\ job.step = "invoice" =>
       Len(subs) <= Retries + Stalls + 1 /\ invoices <= Stalls /\ invoices < Len(subs)
  /\ job.state = "completed" \/ (job.state = "active" /\ job.step = "finish") =>
       Len(subs) <= Attempts + 1 /\ Len(subs) <= Retries + Stalls + 1
         /\ invoices <= Stalls + 1 /\ invoices >= 1
  /\ job.state = "failed" => Len(subs) <= Attempts + 1 /\ invoices <= 1 + Stalls

BInv == TypeOK /\ Busy /\ Spaced /\ Accounted /\ Inserted

-----------------------------------------------------------------------------
(* Relabelling rows neither adds nor removes one. *)
LEMMA RowsKept ==
  ASSUME NEW q, NEW r \in Seq(Sub), q = [i \in DOMAIN r |-> q[i]],
         \A i \in DOMAIN r : q[i] \in Sub
  PROVE  q \in Seq(Sub) /\ Len(q) = Len(r)
<1>1. DOMAIN r = 1..Len(r) /\ Len(r) \in Nat
  OBVIOUS
<1>2. q \in [1..Len(r) -> Sub]
  BY <1>1
<1> QED BY <1>1, <1>2, SeqDef, LenProperties

(* The three updateMany of the service relabel. *)
LEMMA RelabelKeeps ==
  ASSUME TypeOK, NEW from, NEW to \in {"active", "past_due", "canceled"}, Relabel(from, to)
  PROVE  subs' \in Seq(Sub) /\ Len(subs') = Len(subs)
<1>1. subs' = [i \in DOMAIN subs |-> subs'[i]]
  BY Zenon DEF Relabel
<1>2. ASSUME NEW i \in DOMAIN subs PROVE subs'[i] \in Sub
  <2>1. subs[i] \in Sub
    BY LenProperties DEF TypeOK
  <2>2. [subs[i] EXCEPT !.status = to] \in Sub
    BY <2>1 DEF Sub
  <2>3. subs'[i] \in {subs[i], [subs[i] EXCEPT !.status = to]}
    BY Zenon DEF Relabel
  <2> QED BY <2>1, <2>2, <2>3
<1> QED BY <1>1, <1>2, RowsKept DEF TypeOK

(* Nor does marking the rows whose grace period is over. *)
LEMMA MarkPastDueKeeps ==
  ASSUME TypeOK, MarkPastDue
  PROVE  subs' \in Seq(Sub) /\ Len(subs') = Len(subs)
<1>1. subs' = [i \in DOMAIN subs |-> subs'[i]]
  BY Zenon DEF MarkPastDue
<1>2. ASSUME NEW i \in DOMAIN subs PROVE subs'[i] \in Sub
  <2>1. subs[i] \in Sub
    BY LenProperties DEF TypeOK
  <2>2. [subs[i] EXCEPT !.status = "past_due"] \in Sub
    BY <2>1 DEF Sub
  <2>3. subs'[i] \in {subs[i], [subs[i] EXCEPT !.status = "past_due"]}
    BY Zenon DEF MarkPastDue
  <2> QED BY <2>1, <2>2, <2>3
<1> QED BY <1>1, <1>2, RowsKept DEF TypeOK

-----------------------------------------------------------------------------
(* The initial state satisfies the invariant. *)
LEMMA InitHolds == Init => BInv
<1> SUFFICES ASSUME Init PROVE BInv
  OBVIOUS
<1> USE BillingAssumption
<1>0. job \in {[state |-> "none", step |-> "create", left |-> 0, stalled |-> FALSE],
               [state |-> "waiting", step |-> "create", left |-> Attempts, stalled |-> FALSE]}
  BY DEF Init, NoJob, NewJob
<1>1. subs = <<>> /\ subs \in Seq(Sub) /\ Len(subs) = 0
  BY DEF Init
<1>2. TypeOK
  <2>1. job \in Job
    <3>1. Attempts \in Nat
      OBVIOUS
    <3>2. [state |-> "none", step |-> "create", left |-> 0, stalled |-> FALSE] \in Job
      BY DEF Job, JobState
    <3>3. [state |-> "waiting", step |-> "create", left |-> Attempts, stalled |-> FALSE] \in Job
      BY <3>1 DEF Job, JobState
    <3> QED BY <1>0, <3>2, <3>3
  <2>2. handler \in [Handler -> [pc : {"free", "claim", "apply", "enqueue"}, event : Event \cup {None}]]
    BY DEF Init, FreeHandler
  <2> QED BY <1>1, <2>1, <2>2 DEF Init, TypeOK, AccountStatus
<1>3. Busy /\ Spaced /\ Accounted
  <2>1. \A h \in Handler : handler[h].pc = "free"
    BY DEF Init, FreeHandler
  <2>2. \A e \in Event : Applying(e) = {}
    BY <2>1 DEF Applying
  <2> QED BY <2>1, <2>2 DEF Init, Busy, Spaced, Accounted
<1>4. Inserted
  <2>1. invoices = 0 /\ ~job.stalled /\ job.state \in {"none", "waiting"} /\ job.left <= Attempts
        /\ (job.state = "waiting" => job.left = Attempts)
    BY <1>0 DEF Init
  <2> QED BY <1>1, <2>1 DEF Inserted, Retries, Stalls
<1> QED BY <1>2, <1>3, <1>4 DEF BInv

(* No step of the billing code leaves the types. *)
LEMMA TypeKept ==
  ASSUME BInv, [Next]_vars
  PROVE  TypeOK'
<1> USE BillingAssumption DEF BInv, history
<1>1. ASSUME NEW e \in Event, Emit(e) PROVE TypeOK'
  BY <1>1 DEF Emit, TypeOK, account
<1>2. ASSUME NEW e \in Event, NEW h \in Handler, Deliver(h, e) PROVE TypeOK'
  BY <1>2 DEF Deliver, TypeOK, account, paddle
<1>3. ASSUME NEW h \in Handler, Claim(h) PROVE TypeOK'
  <2>1. handler[h].event \in Event
    BY <1>3 DEF Claim, Busy
  <2>2. CASE Acknowledge(h) /\ UNCHANGED key
    BY <1>3, <2>1, <2>2 DEF Claim, Acknowledge, FreeHandler, TypeOK, account
  <2>3. CASE Continue(h, "apply") /\ UNCHANGED acked /\ SetKey(handler[h].event)
    <3>1. now + KeyTtl \in Nat
      BY DEF TypeOK
    <3>2. key' \in [Event -> Nat \cup {None}]
      BY <2>1, <2>3, <3>1 DEF SetKey, TypeOK
    <3>3. handler' \in [Handler -> [pc : {"free", "claim", "apply", "enqueue"}, event : Event \cup {None}]]
      BY <2>3 DEF Continue, TypeOK
    <3> QED BY <1>3, <2>3, <3>2, <3>3 DEF Claim, TypeOK, account
  <2> QED BY <1>3, <2>2, <2>3 DEF Claim
<1>4. ASSUME NEW h \in Handler, ClaimFails(h) PROVE TypeOK'
  <2>1. handler[h].event \in Event
    BY <1>4 DEF ClaimFails, Busy
  <2>2. now + KeyTtl \in Nat
    BY DEF TypeOK
  <2>3. key' \in [Event -> Nat \cup {None}]
    BY <1>4, <2>1, <2>2 DEF ClaimFails, SetKey, TypeOK
  <2>4. lost' \subseteq Event
    BY <1>4, <2>1 DEF ClaimFails, LoseEvent, TypeOK
  <2> QED BY <1>4, <2>3, <2>4 DEF ClaimFails, FreeHandler, TypeOK, account, paddle
<1>5. ASSUME NEW h \in Handler, MarkPaid(h) PROVE TypeOK'
  <2>1. handler[h].event \in Event
    BY <1>5 DEF MarkPaid, Event
  <2>2. applied' \in [Event -> Nat] /\ lost' \subseteq Event
    BY <1>5, <2>1 DEF MarkPaid, Change, TypeOK
  <2>3. handler' \in [Handler -> [pc : {"free", "claim", "apply", "enqueue"}, event : Event \cup {None}]]
    BY <1>5 DEF MarkPaid, Continue, TypeOK
  <2> QED BY <1>5, <2>2, <2>3 DEF MarkPaid, AccountStatus, TypeOK, paddle
<1>6. ASSUME NEW h \in Handler, EnqueueSubscription(h) PROVE TypeOK'
  <2>1. Attempts \in Nat
    OBVIOUS
  <2>2. NewJob \in Job
    BY <2>1 DEF NewJob, Job, JobState
  <2>3. job' \in Job
    BY <1>6, <2>2 DEF EnqueueSubscription, TypeOK
  <2> QED BY <1>6, <2>3 DEF EnqueueSubscription, Acknowledge, FreeHandler, Busy, TypeOK, account
<1>7. ASSUME NEW h \in Handler, WebhookCancel(h) PROVE TypeOK'
  <2>1. subs' \in Seq(Sub)
    BY <1>7, RelabelKeeps DEF WebhookCancel, CancelSubscription
  <2> QED BY <1>7, <2>1 DEF WebhookCancel, CancelSubscription, Change, Acknowledge, FreeHandler,
                Event, AccountStatus, Busy, TypeOK
<1>8. ASSUME NEW h \in Handler, ApplyFails(h) PROVE TypeOK'
  BY <1>8 DEF ApplyFails, LoseEvent, Acknowledge, FreeHandler, Busy, TypeOK, account
<1>9. ASSUME NEW h \in Handler, HandlerCrash(h) PROVE TypeOK'
  BY <1>9 DEF HandlerCrash, LoseEvent, FreeHandler, Busy, TypeOK, account, paddle
<1>10. ASSUME OwnerCancel PROVE TypeOK'
  <2>1. subs' \in Seq(Sub)
    BY <1>10, RelabelKeeps DEF OwnerCancel, CancelSubscription
  <2> QED BY <1>10, <2>1 DEF OwnerCancel, CancelSubscription, AccountStatus, TypeOK, paddle
<1>11. ASSUME JobStart \/ JobComplete PROVE TypeOK'
  <2>1. /\ JobOnly /\ job \in Job
        /\ job' \in {[job EXCEPT !.state = "active", !.step = "create"], [job EXCEPT !.state = "completed"]}
    BY <1>11 DEF JobStart, JobComplete, TypeOK
  <2>2. job' \in Job
    BY <2>1 DEF Job, JobState
  <2> QED BY <2>1, <2>2 DEF JobOnly, TypeOK, account, paddle
<1>12. ASSUME JobCreate PROVE TypeOK'
  <2>1. [status |-> "active", end |-> now + Month] \in Sub
    BY DEF Sub, TypeOK
  <2>2. subs' \in Seq(Sub)
    BY <1>12, <2>1, AppendProperties DEF JobCreate, TypeOK
  <2> QED BY <1>12, <2>2 DEF JobCreate, Job, TypeOK, paddle
<1>13. ASSUME JobInvoice PROVE TypeOK'
  <2>1. job' \in Job
    BY <1>13 DEF JobInvoice, Job, TypeOK
  <2> QED BY <1>13, <2>1, SMTT(30) DEF JobInvoice, TypeOK, paddle
<1>14. ASSUME JobFail PROVE TypeOK'
  <2>1. job.left \in Nat /\ job.left >= 1
    BY <1>14 DEF JobFail, Inserted, TypeOK, Job
  <2>2. job.left - 1 \in Nat
    BY <2>1
  <2>3. job' \in Job
    BY <1>14, <2>2 DEF JobFail, Job, JobState, TypeOK
  <2> QED BY <1>14, <2>3 DEF JobFail, JobOnly, TypeOK, account, paddle
<1>15. ASSUME JobStall PROVE TypeOK'
  <2>1. job' \in Job
    BY <1>15 DEF JobStall, Job, JobState, TypeOK
  <2> QED BY <1>15, <2>1, SMTT(30) DEF JobStall, TypeOK, account, paddle
<1>16. ASSUME CheckTrialExpiry \/ ReadPastDue \/ CronFail PROVE TypeOK'
  BY <1>16 DEF CheckTrialExpiry, ReadPastDue, CronFail, TypeOK, account, paddle
<1>17. ASSUME BlockTrial \/ BlockPastDue PROVE TypeOK'
  BY <1>17 DEF BlockTrial, BlockPastDue, AccountStatus, TypeOK, paddle
<1>18. ASSUME MarkPastDue PROVE TypeOK'
  <2>1. subs' \in Seq(Sub)
    BY <1>18, MarkPastDueKeeps
  <2> QED BY <1>18, <2>1 DEF MarkPastDue, TypeOK, paddle
<1>19. ASSUME Tick PROVE TypeOK'
  BY <1>19 DEF Tick, TypeOK, account, paddle
<1>20. CASE UNCHANGED vars
  BY <1>20 DEF vars, account, paddle, TypeOK
<1> QED
  BY <1>1, <1>2, <1>3, <1>4, <1>5, <1>6, <1>7, <1>8, <1>9, <1>10, <1>11, <1>12, <1>13,
     <1>14, <1>15, <1>16, <1>17, <1>18, <1>19, <1>20 DEF Next, Handle

(* One more lifetime of the key. *)
LEMMA TimesNext == \A n \in Nat : (n + 1) * KeyTtl = n * KeyTtl + KeyTtl /\ n * KeyTtl \in Nat
BY BillingAssumption

LEMMA UsedIsFinite ==
  ASSUME TypeOK, NEW e \in Event
  PROVE  IsFiniteSet(Applying(e)) /\ Cardinality(Applying(e)) \in Nat /\ applied[e] \in Nat /\ Used(e) \in Nat
<1>1. Applying(e) \subseteq Handler
  BY DEF Applying
<1>2. IsFiniteSet(Applying(e))
  BY <1>1, FS_Subset, BillingAssumption
<1>3. Cardinality(Applying(e)) \in Nat
  BY <1>2, FS_CardinalityType
<1>4. applied[e] \in Nat
  BY DEF TypeOK
<1> QED BY <1>2, <1>3, <1>4 DEF Used

(* What one handler goes on to changes who applies an event by that one. *)
LEMMA ApplyingMoves ==
  ASSUME TypeOK, NEW h \in Handler, NEW p, handler' = [handler EXCEPT ![h] = p], NEW e \in Event
  PROVE  /\ p.pc = "apply" /\ p.event = e => Applying(e)' = Applying(e) \cup {h}
         /\ p.pc # "apply" \/ p.event # e => Applying(e)' = Applying(e) \ {h}
BY DEF Applying, TypeOK

(* A handler that was not applying an event and is not going to. *)
LEMMA ApplyingStays ==
  ASSUME TypeOK, NEW h \in Handler, NEW p, handler' = [handler EXCEPT ![h] = p],
         handler[h].pc # "apply", p.pc # "apply"
  PROVE  \A e \in Event : Applying(e)' = Applying(e)
<1> SUFFICES ASSUME NEW e \in Event PROVE Applying(e)' = Applying(e)
  OBVIOUS
<1>1. Applying(e) \ {h} = Applying(e)
  BY DEF Applying
<1> QED BY <1>1, ApplyingMoves

(* A handler that was, and is done with it. *)
LEMMA ApplyingLoses ==
  ASSUME TypeOK, NEW h \in Handler, NEW p, handler' = [handler EXCEPT ![h] = p],
         handler[h].pc = "apply", p.pc # "apply", NEW e \in Event
  PROVE  /\ e # handler[h].event => Applying(e)' = Applying(e)
         /\ e = handler[h].event => Cardinality(Applying(e)') + 1 = Cardinality(Applying(e))
<1>1. Applying(e)' = Applying(e) \ {h}
  BY ApplyingMoves
<1>2. h \in Applying(e) <=> e = handler[h].event
  BY DEF Applying
<1>3. ASSUME h \in Applying(e) PROVE Cardinality(Applying(e)') + 1 = Cardinality(Applying(e))
  <2>1. IsFiniteSet(Applying(e)) /\ Cardinality(Applying(e)) \in Nat
    BY UsedIsFinite
  <2>2. Cardinality(Applying(e) \ {h}) = Cardinality(Applying(e)) - 1
    BY <1>3, <2>1, FS_RemoveElement
  <2> QED BY <1>1, <2>1, <2>2
<1> QED BY <1>1, <1>2, <1>3

(* The handler that finds no key. *)
LEMMA ApplyingGains ==
  ASSUME TypeOK, NEW h \in Handler, NEW p, handler' = [handler EXCEPT ![h] = p],
         handler[h].pc # "apply", p.pc = "apply", NEW e \in Event
  PROVE  /\ e # p.event => Applying(e)' = Applying(e)
         /\ e = p.event => h \in Applying(e)' /\ Cardinality(Applying(e)') = Cardinality(Applying(e)) + 1
<1>1. h \notin Applying(e)
  BY DEF Applying
<1>2. CASE e # p.event
  <2>1. Applying(e) \ {h} = Applying(e)
    BY <1>1
  <2> QED BY <1>2, <2>1, ApplyingMoves
<1>3. CASE e = p.event
  <2>1. Applying(e)' = Applying(e) \cup {h}
    BY <1>1, <1>3, ApplyingMoves
  <2>2. Cardinality(Applying(e) \cup {h}) = Cardinality(Applying(e)) + 1
    BY <1>1, UsedIsFinite, FS_AddElement
  <2> QED BY <1>3, <2>1, <2>2
<1> QED BY <1>2, <1>3

-----------------------------------------------------------------------------
(* A step that sets no key and uses it at most for what was claimed. *)
LEMMA SpacedStays ==
  ASSUME BInv, UNCHANGED key, now' \in Nat, now' >= now,
         \A e \in Event : sentAt'[e] = sentAt[e] \/ (sentAt[e] = None /\ sentAt'[e] = now),
         \A e \in Event : Used(e)' \in Nat /\ (Used(e)' = Used(e) \/ Used(e)' + 1 = Used(e)),
         \A e \in Event : key[e] = None => applied'[e] = 0 /\ Applying(e)' = {}
  PROVE  Spaced'
<1> SUFFICES ASSUME NEW e \in Event
             PROVE  /\ sentAt'[e] # None => sentAt'[e] <= now'
                    /\ key[e] = None => applied'[e] = 0 /\ Applying(e)' = {}
                    /\ key[e] # None => /\ sentAt'[e] # None /\ key[e] <= now' + KeyTtl
                                        /\ sentAt'[e] + Used(e)' * KeyTtl <= key[e]
  BY DEF Spaced
<1>1. now \in Nat /\ key[e] \in Nat \cup {None} /\ sentAt[e] \in Nat \cup {None} /\ KeyTtl \in Nat /\ None \notin Nat
  BY BillingAssumption DEF BInv, TypeOK
<1>2. sentAt'[e] # None => sentAt'[e] <= now'
  BY <1>1 DEF BInv, Spaced
<1>3. ASSUME key[e] # None
      PROVE  sentAt'[e] # None /\ key[e] <= now' + KeyTtl /\ sentAt'[e] + Used(e)' * KeyTtl <= key[e]
  <2>1. /\ sentAt[e] \in Nat /\ sentAt'[e] = sentAt[e] /\ key[e] \in Nat
        /\ key[e] <= now + KeyTtl /\ sentAt[e] + Used(e) * KeyTtl <= key[e]
    BY <1>1, <1>3 DEF BInv, Spaced
  <2>2. Used(e) \in Nat
    BY UsedIsFinite DEF BInv
  <2>3. Used(e)' * KeyTtl \in Nat /\ Used(e) * KeyTtl \in Nat /\ Used(e)' * KeyTtl <= Used(e) * KeyTtl
    <3> DEFINE n == Used(e)'
               m == Used(e)
    <3>1. n \in Nat /\ m \in Nat /\ (n = m \/ n + 1 = m)
      BY <2>2
    <3> HIDE DEF n, m
    <3>2. n * KeyTtl \in Nat /\ m * KeyTtl \in Nat /\ n * KeyTtl <= m * KeyTtl
      BY <1>1, <3>1, TimesNext
    <3> QED BY <3>2 DEF n, m
  <2> DEFINE x == Used(e)' * KeyTtl
             y == Used(e) * KeyTtl
  <2>4. x \in Nat /\ y \in Nat /\ x <= y /\ sentAt[e] + y <= key[e]
    BY <2>1, <2>3
  <2> HIDE DEF x, y
  <2>5. sentAt[e] + x <= key[e]
    BY <2>1, <2>4
  <2>6. key[e] <= now' + KeyTtl
    BY <1>1, <2>1
  <2> QED BY <1>3, <1>1, <2>1, <2>5, <2>6 DEF x
<1> QED BY <1>2, <1>3

(* A step that sets the key of an event, and gives it to one more handler  *)
(* at most: the last lifetime is over.                                     *)
LEMMA SpacedAnew ==
  ASSUME BInv, NEW e \in Event, sentAt[e] # None, ~Held(e), SetKey(e), UNCHANGED <<now, sentAt, applied>>,
         \A d \in Event : d # e => Applying(d)' = Applying(d),
         Used(e)' = Used(e) \/ Used(e)' = Used(e) + 1
  PROVE  Spaced'
<1> SUFFICES ASSUME NEW d \in Event
             PROVE  /\ sentAt[d] # None => sentAt[d] <= now
                    /\ key'[d] = None => applied[d] = 0 /\ Applying(d)' = {}
                    /\ key'[d] # None => /\ sentAt[d] # None /\ key'[d] <= now + KeyTtl
                                         /\ sentAt[d] + Used(d)' * KeyTtl <= key'[d]
  BY DEF Spaced
<1>1. now \in Nat /\ key \in [Event -> Nat \cup {None}] /\ sentAt[e] \in Nat /\ KeyTtl \in Nat /\ None \notin Nat
  BY BillingAssumption DEF BInv, TypeOK
<1>2. sentAt[d] # None => sentAt[d] <= now
  BY DEF BInv, Spaced
<1>3. CASE d # e
  <2>1. key'[d] = key[d] /\ Used(d)' = Used(d)
    BY <1>1, <1>3 DEF SetKey, Used
  <2> QED BY <1>2, <1>3, <2>1 DEF BInv, Spaced
<1>4. CASE d = e
  <2>1. key'[e] = now + KeyTtl
    BY <1>1 DEF SetKey
  <2>2. Used(e) \in Nat /\ (key[e] = None => Used(e) = 0)
    BY UsedIsFinite, FS_EmptySet DEF BInv, Spaced, Used
  <2>3. sentAt[e] + Used(e) * KeyTtl <= now
    <3>1. CASE key[e] = None
      <4>1. Used(e) * KeyTtl = 0
        BY <1>1, <2>2, <3>1
      <4> QED BY <1>1, <4>1 DEF BInv, Spaced
    <3>2. CASE key[e] # None
      <4>1. key[e] \in Nat /\ key[e] <= now /\ sentAt[e] + Used(e) * KeyTtl <= key[e]
        BY <1>1, <3>2 DEF Held, BInv, Spaced
      <4>2. Used(e) * KeyTtl \in Nat
        BY <2>2, TimesNext
      <4> QED BY <1>1, <4>1, <4>2
    <3> QED BY <3>1, <3>2
  <2>4. sentAt[e] + Used(e)' * KeyTtl <= now + KeyTtl
    <3>1. Used(e) * KeyTtl \in Nat /\ (Used(e) + 1) * KeyTtl = Used(e) * KeyTtl + KeyTtl
      BY <2>2, TimesNext
    <3>2. CASE Used(e)' = Used(e)
      BY <1>1, <2>3, <3>1, <3>2
    <3>3. CASE Used(e)' = Used(e) + 1
      <4>1. Used(e)' * KeyTtl = Used(e) * KeyTtl + KeyTtl
        BY <3>1, <3>3
      <4> QED BY <1>1, <2>3, <3>1, <4>1
    <3> QED BY <3>2, <3>3
  <2> QED BY <1>1, <1>2, <1>4, <2>1, <2>4
<1> QED BY <1>3, <1>4

(* A handler that stops applying an event, which has changed the account   *)
(* or was lost.                                                            *)
LEMMA ApplyEnds ==
  ASSUME BInv, NEW h \in Handler, NEW p, handler' = [handler EXCEPT ![h] = p],
         handler[h].pc = "apply", p.pc # "apply", p.pc # "free" => p.event = handler[h].event,
         Change(handler[h].event) \/ (LoseEvent(handler[h].event) /\ UNCHANGED applied),
         UNCHANGED <<now, key, sentAt>>, acked' \subseteq acked \cup {handler[h].event}
  PROVE  Busy' /\ Spaced' /\ Accounted'
<1> DEFINE e == handler[h].event
<1>1. e \in Event /\ key[e] # None /\ now \in Nat
  BY DEF BInv, Busy, Accounted, TypeOK
<1>2. \A g \in Handler : handler'[g] = IF g = h THEN p ELSE handler[g]
  BY DEF BInv, TypeOK
<1>3. \A d \in Event : /\ d # e => Applying(d)' = Applying(d)
                       /\ d = e => Cardinality(Applying(d)') + 1 = Cardinality(Applying(d))
  BY ApplyingLoses DEF BInv
<1>4. \A d \in Event : d # e => applied'[d] = applied[d] /\ (d \in lost' <=> d \in lost)
  BY <1>1 DEF Change, LoseEvent, BInv, TypeOK
<1>5. applied'[e] \in {applied[e], applied[e] + 1} /\ (applied'[e] > 0 \/ e \in lost')
  <2>1. applied \in [Event -> Nat] /\ applied[e] \in Nat
    BY <1>1 DEF BInv, TypeOK
  <2>2. CASE Change(e)
    BY <1>1, <2>1, <2>2 DEF Change
  <2>3. CASE LoseEvent(e) /\ UNCHANGED applied
    BY <2>1, <2>3 DEF LoseEvent
  <2> QED BY <2>2, <2>3
<1>6. Busy'
  BY <1>2 DEF BInv, Busy
<1>7. Spaced'
  <2>1. ASSUME NEW d \in Event
        PROVE  Used(d)' \in Nat /\ (Used(d)' = Used(d) \/ Used(d)' + 1 = Used(d))
    <3>1. /\ Cardinality(Applying(d)) \in Nat /\ applied[d] \in Nat
          /\ IsFiniteSet(Applying(d))
      BY UsedIsFinite DEF BInv
    <3>2. CASE d # e
      BY <1>3, <1>4, <3>1, <3>2 DEF Used
    <3>3. CASE d = e
      <4>1. Applying(d)' \subseteq Handler
        BY DEF Applying
      <4>2. Cardinality(Applying(d)') \in Nat
        BY <4>1, FS_Subset, FS_CardinalityType, BillingAssumption
      <4>3. Cardinality(Applying(d)') + 1 = Cardinality(Applying(d)) /\ applied'[d] \in {applied[d], applied[d] + 1}
        BY <1>3, <1>5, <3>3
      <4> DEFINE c == Cardinality(Applying(d)')
                 b == Cardinality(Applying(d))
      <4> HIDE DEF c, b
      <4>4. c \in Nat /\ b \in Nat /\ c + 1 = b /\ applied'[d] \in {applied[d], applied[d] + 1}
        BY <3>1, <4>2, <4>3 DEF c, b
      <4>5. applied'[d] + c \in Nat /\ (applied'[d] + c = applied[d] + b \/ applied'[d] + c + 1 = applied[d] + b)
        BY <3>1, <4>4
      <4> QED BY <4>5 DEF Used, c, b
    <3> QED BY <3>2, <3>3
  <2>2. \A d \in Event : key[d] = None => applied'[d] = 0 /\ Applying(d)' = {}
    BY <1>1, <1>3, <1>4 DEF BInv, Spaced
  <2> QED BY <1>1, <2>1, <2>2, SpacedStays
<1>8. Accounted'
  <2>1. \A d \in Event : key[d] # None => applied'[d] > 0 \/ d \in lost' \/ Applying(d)' # {}
    BY <1>3, <1>4, <1>5 DEF BInv, Accounted
  <2>2. \A d \in acked' : key[d] # None
    BY <1>1 DEF BInv, Accounted
  <2>3. \A g \in Handler : handler'[g].pc \in {"apply", "enqueue"} => key[handler'[g].event] # None
    BY <1>1, <1>2 DEF BInv, Accounted
  <2> QED BY <2>1, <2>2, <2>3 DEF Accounted
<1> QED BY <1>6, <1>7, <1>8

(* A step of a handler that applies nothing, before it or after it, and    *)
(* sets no key.                                                            *)
LEMMA HandlerMoves ==
  ASSUME BInv, NEW h \in Handler, NEW p, handler' = [handler EXCEPT ![h] = p],
         handler[h].pc # "apply", p.pc \in {"free", "claim"},
         p.pc # "free" => p.event \in Event /\ sentAt[p.event] # None,
         UNCHANGED <<now, key, sentAt, history>>,
         \A e \in acked' : e \in acked \/ key[e] # None
  PROVE  Busy' /\ Spaced' /\ Accounted'
<1>1. \A g \in Handler : handler'[g] = IF g = h THEN p ELSE handler[g]
  BY DEF BInv, TypeOK
<1>2. \A e \in Event : Applying(e)' = Applying(e)
  BY ApplyingStays DEF BInv
<1>3. \A e \in Event : Used(e)' \in Nat /\ Used(e)' = Used(e)
  BY <1>2, UsedIsFinite DEF Used, history, BInv
<1>4. Busy'
  BY <1>1 DEF BInv, Busy
<1>5. Spaced'
  <2>1. now \in Nat
    BY DEF BInv, TypeOK
  <2>2. \A e \in Event : key[e] = None => applied'[e] = 0 /\ Applying(e)' = {}
    BY <1>2 DEF BInv, Spaced, history
  <2> QED BY <1>3, <2>1, <2>2, SpacedStays
<1>6. Accounted'
  BY <1>1, <1>2 DEF BInv, Accounted, history
<1> QED BY <1>4, <1>5, <1>6

(* A step that concerns no handler and no event. *)
LEMMA EventsRest ==
  ASSUME BInv, UNCHANGED <<handler, key, sentAt, acked, history>>, now' \in Nat, now' >= now
  PROVE  Busy' /\ Spaced' /\ Accounted'
<1>1. \A e \in Event : Applying(e)' = Applying(e) /\ Used(e)' = Used(e) /\ Used(e) \in Nat
  BY UsedIsFinite DEF Applying, Used, history, BInv
<1>2. Busy' /\ Accounted'
  BY <1>1 DEF BInv, Busy, Accounted, history
<1>3. \A e \in Event : key[e] = None => applied'[e] = 0 /\ Applying(e)' = {}
  BY <1>1 DEF BInv, Spaced, history
<1>4. Spaced'
  BY <1>1, <1>3, SpacedStays
<1> QED BY <1>2, <1>4

(* The idempotency key spaces the changes of an event, whatever is         *)
(* delivered, fails or is lost.                                            *)
LEMMA ClaimKept ==
  ASSUME BInv, [Next]_vars
  PROVE  Busy' /\ Spaced' /\ Accounted'
<1>1. ASSUME NEW e \in Event, Emit(e) PROVE Busy' /\ Spaced' /\ Accounted'
  <2>1. now \in Nat /\ sentAt' = [sentAt EXCEPT ![e] = now] /\ sentAt[e] = None /\ now # None
    BY <1>1, BillingAssumption DEF Emit, BInv, TypeOK
  <2>2. \A d \in Event : sentAt'[d] = sentAt[d] \/ (sentAt[d] = None /\ sentAt'[d] = now)
    BY <2>1 DEF BInv, TypeOK
  <2>3. \A d \in Event : Applying(d)' = Applying(d) /\ Used(d)' = Used(d) /\ Used(d) \in Nat
    BY <1>1, UsedIsFinite DEF Emit, Applying, Used, history, BInv
  <2>4. Busy' /\ Accounted'
    BY <1>1, <2>1, <2>2, <2>3 DEF Emit, BInv, Busy, Accounted, history
  <2>5. \A d \in Event : key[d] = None => applied'[d] = 0 /\ Applying(d)' = {}
    BY <1>1, <2>3 DEF Emit, BInv, Spaced, history
  <2>6. Spaced'
    BY <1>1, <2>1, <2>2, <2>3, <2>5, SpacedStays DEF Emit
  <2> QED BY <2>4, <2>6
<1>2. ASSUME NEW e \in Event, NEW h \in Handler, Deliver(h, e) PROVE Busy' /\ Spaced' /\ Accounted'
  BY <1>2, HandlerMoves DEF Deliver, paddle
<1>3. ASSUME NEW h \in Handler, Claim(h) PROVE Busy' /\ Spaced' /\ Accounted'
  <2>0. PICK e \in Event : e = handler[h].event
    BY <1>3 DEF Claim, BInv, Busy
  <2>1. e \in Event /\ sentAt[e] # None /\ handler[h].pc = "claim"
    BY <1>3, <2>0 DEF Claim, BInv, Busy
  <2>2. CASE Held(e) /\ Acknowledge(h) /\ UNCHANGED key
    <3>1. \A d \in acked' : d \in acked \/ key[d] # None
      BY <2>0, <2>2 DEF Acknowledge, Held
    <3> QED BY <1>3, <2>1, <2>2, <3>1, HandlerMoves DEF Claim, Acknowledge, FreeHandler
  <2>3. CASE ~Held(e) /\ SetKey(e) /\ Continue(h, "apply") /\ UNCHANGED acked
    <3>1. PICK p : p = [handler[h] EXCEPT !.pc = "apply"]
      OBVIOUS
    <3>2. handler' = [handler EXCEPT ![h] = p] /\ p.pc = "apply" /\ p.event = e
      BY <2>0, <2>3, <3>1 DEF Continue, BInv, TypeOK
    <3>3. \A d \in Event : /\ d # e => Applying(d)' = Applying(d)
                           /\ d = e => h \in Applying(d)' /\ Cardinality(Applying(d)') = Cardinality(Applying(d)) + 1
      BY <2>1, <3>2, ApplyingGains DEF BInv
    <3>4. \A g \in Handler : handler'[g] = IF g = h THEN p ELSE handler[g]
      BY <3>2 DEF BInv, TypeOK
    <3>5. UNCHANGED <<now, sentAt, history, acked>> /\ now \in Nat /\ None \notin Nat
      BY <1>3, <2>3, BillingAssumption DEF Claim, BInv, TypeOK
    <3>6. Used(e)' = Used(e) + 1
      BY <2>1, <3>3, <3>5, UsedIsFinite DEF Used, history, BInv
    <3>7. Spaced'
      BY <2>1, <2>3, <3>3, <3>5, <3>6, SpacedAnew DEF history
    <3>8. Busy'
      BY <2>1, <3>2, <3>4, <3>5 DEF BInv, Busy
    <3>9. \A d \in Event : key'[d] = IF d = e THEN now + KeyTtl ELSE key[d]
      BY <2>1, <2>3 DEF SetKey, BInv, TypeOK
    <3>10. now + KeyTtl # None
      BY <3>5, BillingAssumption
    <3>11. Accounted'
      <4>1. \A d \in Event : key'[d] # None => applied'[d] > 0 \/ d \in lost' \/ Applying(d)' # {}
        BY <3>3, <3>5, <3>9 DEF BInv, Accounted, history
      <4>2. \A d \in acked' : key'[d] # None
        BY <3>5, <3>9, <3>10 DEF BInv, Accounted, TypeOK
      <4>3. \A g \in Handler : handler'[g].pc \in {"apply", "enqueue"} => key'[handler'[g].event] # None
        <5> SUFFICES ASSUME NEW g \in Handler, handler'[g].pc \in {"apply", "enqueue"}
                     PROVE  key'[handler'[g].event] # None
          OBVIOUS
        <5>1. handler'[g].event \in Event
          BY <3>8 DEF Busy
        <5> QED BY <3>2, <3>4, <3>9, <3>10, <5>1 DEF BInv, Accounted
      <4> QED BY <4>1, <4>2, <4>3 DEF Accounted
    <3> QED BY <3>7, <3>8, <3>11
  <2> QED BY <1>3, <2>0, <2>2, <2>3 DEF Claim
<1>4. ASSUME NEW h \in Handler, ClaimFails(h) PROVE Busy' /\ Spaced' /\ Accounted'
  <2>0. PICK e \in Event : e = handler[h].event
    BY <1>4 DEF ClaimFails, BInv, Busy
  <2>1. e \in Event /\ sentAt[e] # None /\ handler[h].pc = "claim"
    BY <1>4, <2>0 DEF ClaimFails, BInv, Busy
  <2>2. CASE UNCHANGED <<key, lost>>
    BY <1>4, <2>1, <2>2, HandlerMoves DEF ClaimFails, FreeHandler, paddle, history
  <2>3. CASE ~Held(e) /\ SetKey(e) /\ LoseEvent(e)
    <3>1. /\ UNCHANGED <<now, sentAt, applied, acked>> /\ now \in Nat /\ None \notin Nat
          /\ handler' = [handler EXCEPT ![h] = FreeHandler] /\ FreeHandler.pc = "free"
      BY <1>4, BillingAssumption DEF ClaimFails, paddle, BInv, TypeOK, FreeHandler
    <3>2. \A d \in Event : Applying(d)' = Applying(d)
      BY <2>1, <3>1, ApplyingStays DEF BInv
    <3>3. Used(e)' = Used(e)
      BY <2>1, <3>1, <3>2 DEF Used
    <3>4. Spaced'
      BY <2>1, <2>3, <3>1, <3>2, <3>3, SpacedAnew
    <3>5. \A g \in Handler : handler'[g] = IF g = h THEN FreeHandler ELSE handler[g]
      BY <3>1 DEF BInv, TypeOK
    <3>6. Busy'
      BY <3>1, <3>5 DEF BInv, Busy
    <3>7. (\A d \in Event : key'[d] = IF d = e THEN now + KeyTtl ELSE key[d]) /\ now + KeyTtl # None
      BY <2>1, <2>3, <3>1, BillingAssumption DEF SetKey, BInv, TypeOK
    <3>8. Accounted'
      <4>1. \A d \in Event : key'[d] # None => applied'[d] > 0 \/ d \in lost' \/ Applying(d)' # {}
        <5> SUFFICES ASSUME NEW d \in Event, key'[d] # None
                     PROVE  applied[d] > 0 \/ d \in lost' \/ Applying(d) # {}
          BY <3>1, <3>2
        <5>1. applied[d] \in Nat /\ lost \subseteq lost'
          BY <2>3 DEF LoseEvent, BInv, TypeOK
        <5>2. CASE d = e
          BY <2>3, <5>1, <5>2 DEF LoseEvent
        <5>3. CASE d # e
          BY <3>7, <5>1, <5>3 DEF BInv, Accounted
        <5> QED BY <5>2, <5>3
      <4>2. \A d \in acked' : key'[d] # None
        BY <3>1, <3>7 DEF BInv, Accounted, TypeOK
      <4>3. \A g \in Handler : handler'[g].pc \in {"apply", "enqueue"} => key'[handler'[g].event] # None
        <5> SUFFICES ASSUME NEW g \in Handler, handler'[g].pc \in {"apply", "enqueue"}
                     PROVE  key'[handler'[g].event] # None
          OBVIOUS
        <5>1. handler'[g].event \in Event
          BY <3>6 DEF Busy
        <5> QED BY <3>1, <3>5, <3>7, <5>1 DEF BInv, Accounted
      <4> QED BY <4>1, <4>2, <4>3 DEF Accounted
    <3> QED BY <3>4, <3>6, <3>8
  <2> QED BY <1>4, <2>0, <2>2, <2>3 DEF ClaimFails
<1>5. ASSUME NEW h \in Handler, MarkPaid(h) PROVE Busy' /\ Spaced' /\ Accounted'
  <2>1. PICK p : p = [handler[h] EXCEPT !.pc = "enqueue"]
    OBVIOUS
  <2>2. /\ handler' = [handler EXCEPT ![h] = p] /\ p.pc = "enqueue" /\ p.event = handler[h].event
        /\ acked' = acked /\ UNCHANGED <<now, key, sentAt>>
    BY <1>5, <2>1 DEF MarkPaid, Continue, paddle, BInv, TypeOK
  <2> QED BY <1>5, <2>2, ApplyEnds DEF MarkPaid
<1>6. ASSUME NEW h \in Handler, EnqueueSubscription(h) PROVE Busy' /\ Spaced' /\ Accounted'
  <2>1. \A d \in acked' : d \in acked \/ key[d] # None
    BY <1>6 DEF EnqueueSubscription, Acknowledge, BInv, Accounted
  <2> QED BY <1>6, <2>1, HandlerMoves DEF EnqueueSubscription, Acknowledge, FreeHandler
<1>7. ASSUME NEW h \in Handler, WebhookCancel(h) PROVE Busy' /\ Spaced' /\ Accounted'
  <2>1. /\ handler' = [handler EXCEPT ![h] = FreeHandler] /\ FreeHandler.pc = "free"
        /\ acked' = acked \cup {handler[h].event} /\ UNCHANGED <<now, key, sentAt>>
    BY <1>7 DEF WebhookCancel, Acknowledge, FreeHandler
  <2> QED BY <1>7, <2>1, ApplyEnds DEF WebhookCancel
<1>8. ASSUME NEW h \in Handler, ApplyFails(h) PROVE Busy' /\ Spaced' /\ Accounted'
  <2>1. /\ handler' = [handler EXCEPT ![h] = FreeHandler] /\ FreeHandler.pc = "free"
        /\ acked' = acked \cup {handler[h].event} /\ UNCHANGED <<now, key, sentAt>>
    BY <1>8 DEF ApplyFails, Acknowledge, FreeHandler
  <2> QED BY <1>8, <2>1, ApplyEnds DEF ApplyFails
<1>9. ASSUME NEW h \in Handler, HandlerCrash(h) PROVE Busy' /\ Spaced' /\ Accounted'
  <2>1. /\ handler' = [handler EXCEPT ![h] = FreeHandler] /\ FreeHandler.pc = "free" /\ acked' = acked
        /\ UNCHANGED <<now, key, sentAt, applied>>
    BY <1>9 DEF HandlerCrash, FreeHandler, paddle
  <2>2. CASE handler[h].pc = "apply"
    BY <1>9, <2>1, <2>2, ApplyEnds DEF HandlerCrash
  <2>3. CASE handler[h].pc # "apply"
    BY <1>9, <2>1, <2>3, HandlerMoves DEF HandlerCrash, history
  <2> QED BY <2>2, <2>3
<1>10. CASE Tick
  <2>1. now' \in Nat /\ now' >= now
    BY <1>10 DEF Tick, BInv, TypeOK
  <2> QED BY <1>10, <2>1, EventsRest DEF Tick, paddle
<1>11. CASE \/ OwnerCancel \/ JobStart \/ JobCreate \/ JobInvoice \/ JobComplete \/ JobFail
            \/ JobStall \/ CheckTrialExpiry \/ BlockTrial \/ MarkPastDue \/ ReadPastDue
            \/ BlockPastDue \/ CronFail \/ UNCHANGED vars
  <2>1. UNCHANGED <<now, handler, key, sentAt, acked, history>>
    BY <1>11 DEF OwnerCancel, JobStart, JobCreate, JobInvoice, JobComplete, JobFail,
       JobStall, JobOnly, CheckTrialExpiry, BlockTrial, MarkPastDue, ReadPastDue, BlockPastDue,
       CronFail, vars, paddle
  <2>2. now' \in Nat /\ now' >= now
    BY <2>1 DEF BInv, TypeOK
  <2> QED BY <2>1, <2>2, EventsRest
<1> QED
  BY <1>1, <1>2, <1>3, <1>4, <1>5, <1>6, <1>7, <1>8, <1>9, <1>10, <1>11 DEF Next, Handle


(* Every run of the job inserts at most one row of each kind, and BullMQ   *)
(* runs it at most once per attempt and once more after a stall.           *)
LEMMA InsertedKept ==
  ASSUME BInv, [Next]_vars
  PROVE  Inserted'
<1> USE BillingAssumption DEF BInv
<1>0. /\ Len(subs) \in Nat /\ invoices \in Nat /\ job.left \in Nat /\ Stalls \in {0, 1}
      /\ job \in Job
  BY LenProperties DEF TypeOK, Job, Stalls
<1>1. ASSUME Len(subs') = Len(subs), UNCHANGED <<job, invoices>> PROVE Inserted'
  BY <1>1 DEF Inserted, Retries, Stalls
<1>2. ASSUME NEW h \in Handler, EnqueueSubscription(h) PROVE Inserted'
  <2>1. CASE job' = job
    BY <1>1, <1>2, <2>1 DEF EnqueueSubscription, account
  <2>2. CASE job.state = "none" /\ job' = NewJob
    BY <1>0, <1>2, <2>2 DEF EnqueueSubscription, account, NewJob, NoJob, Inserted, Retries, Stalls
  <2> QED BY <1>2, <2>1, <2>2 DEF EnqueueSubscription
<1>3. ASSUME CancelSubscription, UNCHANGED job PROVE Inserted'
  BY <1>1, <1>3, RelabelKeeps DEF CancelSubscription
<1>4. ASSUME MarkPastDue PROVE Inserted'
  BY <1>1, <1>4, MarkPastDueKeeps DEF MarkPastDue
<1>5. ASSUME JobStart PROVE Inserted'
  BY <1>0, <1>5 DEF JobStart, JobOnly, account, Inserted, Retries, Stalls, Job
<1>6. ASSUME JobCreate PROVE Inserted'
  <2>1. Len(subs') = Len(subs) + 1
    BY <1>6, AppendProperties DEF JobCreate, TypeOK, Sub
  <2>2. /\ job'.state = "active" /\ job'.step = "invoice" /\ job'.left = job.left
        /\ job'.stalled = job.stalled /\ invoices' = invoices
    BY <1>0, <1>6 DEF JobCreate, Job
  <2>3. Retries' = Retries /\ Stalls' = Stalls
    BY <2>2 DEF Retries, Stalls
  <2>4. /\ job.left >= 1 /\ job.left <= Attempts /\ invoices <= Len(subs)
        /\ Len(subs) <= Retries + Stalls /\ invoices <= Stalls
    BY <1>6 DEF JobCreate, Inserted
  <2>5. Retries \in Nat
    BY <1>0, <2>4 DEF Retries
  <2>6. Len(subs') <= Retries' + Stalls' + 1 /\ invoices' < Len(subs') /\ invoices' <= Len(subs')
    BY <1>0, <2>1, <2>2, <2>3, <2>4, <2>5
  <2> QED BY <2>2, <2>3, <2>4, <2>6 DEF Inserted
<1>7. ASSUME JobInvoice PROVE Inserted'
  <2>1. /\ job'.state = "active" /\ job'.step = "finish" /\ job'.left = job.left /\ job'.stalled = job.stalled
        /\ subs' = subs /\ invoices' = invoices + 1
    BY <1>0, <1>7 DEF JobInvoice, Job
  <2>2. Retries' = Retries /\ Stalls' = Stalls
    BY <2>1 DEF Retries, Stalls
  <2>3. /\ job.left >= 1 /\ job.left <= Attempts /\ Len(subs) <= Retries + Stalls + 1 /\ invoices <= Stalls
        /\ invoices < Len(subs)
    BY <1>7 DEF JobInvoice, Inserted
  <2>4. Len(subs) <= Attempts + 1
    BY <1>0, <2>3 DEF Retries
  <2> QED BY <1>0, <2>1, <2>2, <2>3, <2>4 DEF Inserted
<1>a. ASSUME job.state = "active"
      PROVE  /\ job.left >= 1 /\ job.left <= Attempts /\ invoices <= Len(subs)
             /\ Len(subs) <= Retries + Stalls + 1 /\ invoices <= Stalls + 1
             /\ job.step # "finish" => invoices <= Stalls
  <2>1. job.left >= 1 /\ job.left <= Attempts /\ invoices <= Len(subs)
    BY <1>a DEF Inserted
  <2>2. Retries \in Nat
    BY <1>0, <2>1 DEF Retries
  <2>3. CASE job.step = "create"
    <3>1. Len(subs) <= Retries + Stalls /\ invoices <= Stalls
      BY <1>a, <2>3, Zenon DEF Inserted
    <3> QED BY <1>0, <2>1, <2>2, <3>1
  <2>4. CASE job.step = "invoice"
    <3>1. Len(subs) <= Retries + Stalls + 1 /\ invoices <= Stalls
      BY <1>a, <2>4, Zenon DEF Inserted
    <3> QED BY <1>0, <2>1, <3>1
  <2>5. CASE job.step = "finish"
    <3>1. Len(subs) <= Retries + Stalls + 1 /\ invoices <= Stalls + 1
      BY <1>a, <2>5, Zenon DEF Inserted
    <3> QED BY <2>1, <2>5, <3>1
  <2> QED BY <1>0, <2>3, <2>4, <2>5 DEF Job
<1>8. ASSUME JobComplete PROVE Inserted'
  <2>1. /\ job'.state = "completed" /\ job'.left = job.left /\ job'.stalled = job.stalled
        /\ subs' = subs /\ invoices' = invoices
    BY <1>0, <1>8 DEF JobComplete, JobOnly, account, Job
  <2>2. Retries' = Retries /\ Stalls' = Stalls
    BY <2>1 DEF Retries, Stalls
  <2> QED BY <1>8, <2>1, <2>2 DEF JobComplete, Inserted
<1>9. ASSUME JobFail PROVE Inserted'
  <2>1. /\ job'.state = IF job.left > 1 THEN "waiting" ELSE "failed"
        /\ job'.left = job.left - 1 /\ job'.stalled = job.stalled
        /\ subs' = subs /\ invoices' = invoices
    BY <1>0, <1>9 DEF JobFail, JobOnly, account, Job
  <2>2. Retries' = Retries + 1 /\ Stalls' = Stalls /\ Retries = Attempts - job.left
    BY <1>0, <2>1 DEF Retries, Stalls
  <2>3. /\ job.left >= 1 /\ job.left <= Attempts /\ invoices <= Len(subs)
        /\ Len(subs) <= Retries + Stalls + 1 /\ invoices <= Stalls
    BY <1>9, <1>a DEF JobFail
  <2>4. CASE job.left > 1
    <3>1. job'.state = "waiting" /\ job'.left >= 1 /\ job'.left <= Attempts
      BY <1>0, <2>1, <2>3, <2>4
    <3>2. Len(subs') <= Retries' + Stalls' /\ invoices' <= Stalls' /\ invoices' <= Len(subs')
      BY <1>0, <2>1, <2>2, <2>3
    <3> QED BY <3>1, <3>2 DEF Inserted
  <2>5. CASE job.left = 1
    <3>1. job'.state = "failed" /\ job'.left <= Attempts /\ invoices' <= Len(subs')
      BY <1>0, <2>1, <2>3, <2>5
    <3>2. Len(subs') <= Attempts + 1 /\ invoices' <= 1 + Stalls'
      BY <1>0, <2>1, <2>2, <2>3, <2>5
    <3> QED BY <3>1, <3>2 DEF Inserted
  <2> QED BY <1>0, <2>3, <2>4, <2>5
<1>10. ASSUME JobStall PROVE Inserted'
  <2>1. /\ job'.state = IF job.stalled THEN "failed" ELSE "waiting"
        /\ job'.left = job.left /\ job'.stalled = TRUE
        /\ subs' = subs /\ invoices' = invoices
    BY <1>0, <1>10 DEF JobStall, account, Job
  <2>2. Retries' = Retries /\ Stalls' = 1 /\ Retries = Attempts - job.left
    BY <2>1 DEF Retries, Stalls
  <2>3. /\ job.left >= 1 /\ job.left <= Attempts /\ invoices <= Len(subs)
        /\ Len(subs) <= Retries + Stalls + 1 /\ invoices <= Stalls + 1
    BY <1>10, <1>a DEF JobStall
  <2>4. CASE ~job.stalled
    <3>1. job'.state = "waiting" /\ Stalls = 0
      BY <2>1, <2>4 DEF Stalls
    <3>2. Len(subs') <= Retries' + Stalls' /\ invoices' <= Stalls'
      BY <1>0, <2>1, <2>2, <2>3, <3>1
    <3> QED BY <2>1, <2>3, <3>1, <3>2 DEF Inserted
  <2>5. CASE job.stalled
    <3>1. job'.state = "failed" /\ Stalls = 1
      BY <2>1, <2>5 DEF Stalls
    <3>2. Len(subs') <= Attempts + 1 /\ invoices' <= 1 + Stalls'
      BY <1>0, <2>1, <2>2, <2>3, <3>1
    <3> QED BY <2>1, <2>3, <3>1, <3>2 DEF Inserted
  <2> QED BY <2>4, <2>5
<1>11. ASSUME NEW h \in Handler,
              \/ Claim(h) \/ ClaimFails(h) \/ MarkPaid(h) \/ ApplyFails(h) \/ HandlerCrash(h)
       PROVE Inserted'
  BY <1>1, <1>11 DEF Claim, ClaimFails, MarkPaid, ApplyFails, HandlerCrash, account
<1>12. CASE \/ \E e \in Event : Emit(e) \/ \E h \in Handler : Deliver(h, e)
            \/ CheckTrialExpiry \/ BlockTrial \/ ReadPastDue \/ BlockPastDue \/ CronFail
            \/ Tick \/ UNCHANGED vars
  BY <1>1, <1>12 DEF Emit, Deliver, CheckTrialExpiry, BlockTrial, ReadPastDue, BlockPastDue,
     CronFail, Tick, vars, account
<1> QED
  BY <1>2, <1>3, <1>4, <1>5, <1>6, <1>7, <1>8, <1>9, <1>10, <1>11, <1>12
     DEF Next, Handle, WebhookCancel, OwnerCancel

-----------------------------------------------------------------------------
(* The invariant holds in every state of the billing code. *)
THEOREM BillingInvariance == Spec => []BInv
<1>1. BInv /\ [Next]_vars => BInv'
  BY TypeKept, ClaimKept, InsertedKept DEF BInv
<1> QED BY <1>1, InitHolds, PTL DEF Spec

(* Type correctness of the account, the job, the handlers and the cron. *)
THEOREM BillingTypes == Spec => []TypeOK
<1>1. BInv => TypeOK
  BY DEF BInv
<1> QED BY <1>1, BillingInvariance, PTL

(* The webhook handler applies every event at most once in a lifetime of   *)
(* its key, and answers none 200 that nobody has had, for any number of    *)
(* deliveries, concurrent handlers, failures and crashes.                  *)
THEOREM EventsApplyOnce == Spec => []AppliedOnce
<1>1. BInv => AppliedOnce
  <2> SUFFICES ASSUME BInv, NEW e \in Event
               PROVE  /\ applied[e] > 0 => (applied[e] - 1) * KeyTtl <= now - sentAt[e]
                      /\ e \in acked => applied[e] > 0 \/ e \in lost \/ Applying(e) # {}
    BY DEF AppliedOnce
  <2>1. e \in acked => applied[e] > 0 \/ e \in lost \/ Applying(e) # {}
    BY DEF BInv, Accounted
  <2>2. ASSUME applied[e] > 0 PROVE (applied[e] - 1) * KeyTtl <= now - sentAt[e]
    <3>1. /\ applied[e] \in Nat /\ Cardinality(Applying(e)) \in Nat /\ now \in Nat
          /\ KeyTtl \in Nat /\ key[e] # None /\ None \notin Nat
      BY <2>2, UsedIsFinite, BillingAssumption DEF BInv, TypeOK, Spaced
    <3>2. /\ sentAt[e] \in Nat /\ key[e] \in Nat /\ key[e] <= now + KeyTtl
          /\ sentAt[e] + Used(e) * KeyTtl <= key[e]
      BY <3>1 DEF BInv, TypeOK, Spaced
    <3> DEFINE n == applied[e] - 1
               m == Cardinality(Applying(e))
    <3>3. n \in Nat /\ m \in Nat /\ Used(e) = (n + 1) + m
      BY <2>2, <3>1 DEF Used
    <3> HIDE DEF n, m
    <3>4. n * KeyTtl \in Nat /\ m * KeyTtl \in Nat /\ ((n + 1) + m) * KeyTtl = (n * KeyTtl + KeyTtl) + m * KeyTtl
      BY <3>1, <3>3, TimesNext
    <3>5. n * KeyTtl <= now - sentAt[e]
      <4> DEFINE x == n * KeyTtl
                 y == m * KeyTtl
      <4>1. x \in Nat /\ y \in Nat /\ sentAt[e] + ((x + KeyTtl) + y) <= key[e]
        BY <3>2, <3>3, <3>4
      <4> HIDE DEF x, y
      <4>2. x <= now - sentAt[e]
        BY <3>1, <3>2, <4>1
      <4> QED BY <4>2 DEF x
    <3> QED BY <3>5 DEF n
  <2> QED BY <2>1, <2>2
<1> QED BY <1>1, BillingInvariance, PTL

(* The subscription job leaves one paid invoice, or two if a worker was    *)
(* lost, and at most one subscription per attempt and one more, for any    *)
(* retry budget.                                                           *)
THEOREM JobInvoicesOnce == Spec => []InvoicedOnce
<1>1. BInv => InvoicedOnce
  <2> SUFFICES ASSUME BInv PROVE InvoicedOnce
    OBVIOUS
  <2>1. /\ Len(subs) \in Nat /\ invoices \in Nat /\ job.left \in Nat /\ Stalls \in {0, 1}
        /\ job \in Job
    BY LenProperties DEF BInv, TypeOK, Job, Stalls
  <2> QED BY <2>1, BillingAssumption DEF BInv, Inserted, InvoicedOnce, Retries, Stalls, Job, JobState
<1> QED BY <1>1, BillingInvariance, PTL
-----------------------------------------------------------------------------
PastDue == {i \in DOMAIN subs : subs[i].status = "past_due"}

(* What the hourly jobs have read still holds when they write: a trial     *)
(* once over stays over, and no row ceases to be past due.                 *)
Cause ==
  /\ trialEnd \in {TrialDays, None}
  /\ cron.trial = "block" => now >= TrialDays
  /\ cron.grace = "block" => PastDue # {}
  /\ \A i \in PastDue : subs[i].end + GraceDays <= now
  /\ status = "past_due" => now >= TrialDays \/ PastDue # {}

(* A cancellation relabels no row that is past due and none to past due.   *)
LEMMA CancelKeepsPastDue ==
  ASSUME TypeOK, CancelSubscription
  PROVE  PastDue' = PastDue /\ \A i \in PastDue : subs'[i] = subs[i]
<1>1. subs' = [i \in DOMAIN subs |-> IF subs[i].status = "active" THEN [subs[i] EXCEPT !.status = "canceled"]
                                                                ELSE subs[i]]
  BY DEF CancelSubscription, Relabel
<1>2. DOMAIN subs' = DOMAIN subs
  BY <1>1
<1>3. ASSUME NEW i \in DOMAIN subs
      PROVE  /\ subs'[i].status = "past_due" <=> subs[i].status = "past_due"
             /\ subs[i].status = "past_due" => subs'[i] = subs[i]
  <2>1. subs[i] \in Sub
    BY LenProperties DEF TypeOK
  <2> QED BY <1>1, <2>1 DEF Sub
<1> QED BY <1>2, <1>3 DEF PastDue

(* Marking adds the rows whose grace period is over. *)
LEMMA MarkGrowsPastDue ==
  ASSUME TypeOK, MarkPastDue
  PROVE  /\ PastDue \subseteq PastDue'
         /\ \A i \in PastDue' : \/ i \in PastDue /\ subs'[i].end = subs[i].end
                                \/ subs'[i].end + GraceDays <= now
<1>1. subs' = [i \in DOMAIN subs |->
                IF subs[i].status = "active" /\ subs[i].end + GraceDays <= now
                  THEN [subs[i] EXCEPT !.status = "past_due"] ELSE subs[i]]
  BY DEF MarkPastDue
<1>2. DOMAIN subs' = DOMAIN subs
  BY <1>1
<1>3. ASSUME NEW i \in DOMAIN subs
      PROVE  /\ subs[i].status = "past_due" => subs'[i].status = "past_due"
             /\ subs'[i].status = "past_due" => \/ subs[i].status = "past_due" /\ subs'[i].end = subs[i].end
                                                \/ subs'[i].end + GraceDays <= now
  <2>1. subs[i] \in Sub
    BY LenProperties DEF TypeOK
  <2> QED BY <1>1, <2>1 DEF Sub
<1> QED BY <1>2, <1>3 DEF PastDue

(* The subscription job inserts an active row after the others. *)
LEMMA CreateKeepsPastDue ==
  ASSUME TypeOK, JobCreate
  PROVE  PastDue' = PastDue /\ \A i \in PastDue : subs'[i] = subs[i]
<1> DEFINE s == [status |-> "active", end |-> now + Month]
<1>1. s \in Sub
  BY BillingAssumption DEF Sub, TypeOK
<1>2. /\ subs' = Append(subs, s) /\ Len(subs) \in Nat
      /\ DOMAIN subs = 1..Len(subs) /\ DOMAIN subs' = 1..(Len(subs) + 1)
      /\ subs'[Len(subs) + 1] = s /\ \A i \in 1..Len(subs) : subs'[i] = subs[i]
  BY <1>1, AppendProperties, LenProperties DEF JobCreate, TypeOK
<1>3. s.status # "past_due"
  OBVIOUS
<1> HIDE DEF s
<1>4. \A i \in DOMAIN subs' : i \in DOMAIN subs \/ i = Len(subs) + 1
  BY <1>2
<1>5. \A i \in DOMAIN subs : i \in DOMAIN subs' /\ subs'[i] = subs[i]
  BY <1>2
<1> QED BY <1>2, <1>3, <1>4, <1>5 DEF PastDue

LEMMA CauseKept ==
  ASSUME BInv, Cause, [Next]_vars
  PROVE  Cause'
<1>1. /\ now \in Nat /\ TrialDays \in Nat /\ GraceDays \in Nat /\ None \notin Nat /\ TypeOK
      /\ cron \in [trial : {"idle", "block"}, grace : {"idle", "read", "block"}]
  BY BillingAssumption DEF BInv, TypeOK
<1>2. \A i \in PastDue : subs[i].end \in Nat
  <2>1. \A i \in DOMAIN subs : subs[i] \in Sub
    BY LenProperties DEF BInv, TypeOK
  <2> QED BY <2>1 DEF PastDue, Sub
<1>3. ASSUME UNCHANGED subs PROVE PastDue' = PastDue
  BY <1>3 DEF PastDue
<1>4. ASSUME UNCHANGED <<now, account, cron>> PROVE Cause'
  BY <1>3, <1>4 DEF Cause, account
<1>5. ASSUME NEW h \in Handler, MarkPaid(h) PROVE Cause'
  BY <1>3, <1>5 DEF MarkPaid, Cause
<1>6. ASSUME CancelSubscription, UNCHANGED <<now, cron>> PROVE Cause'
  <2>1. status' = "canceled" /\ trialEnd' = trialEnd
    BY <1>6 DEF CancelSubscription
  <2> QED BY <1>1, <1>6, <2>1, CancelKeepsPastDue DEF Cause
<1>7. ASSUME JobCreate PROVE Cause'
  <2>1. UNCHANGED <<now, cron, status, trialEnd>>
    BY <1>7 DEF JobCreate
  <2> QED BY <1>1, <1>7, <2>1, CreateKeepsPastDue DEF Cause
<1>8. ASSUME CheckTrialExpiry PROVE Cause'
  <2>1. now >= TrialDays
    BY <1>1, <1>8 DEF CheckTrialExpiry, TrialOver, Cause
  <2>2. UNCHANGED <<now, status, trialEnd, subs>> /\ cron'.grace = cron.grace
    BY <1>1, <1>8 DEF CheckTrialExpiry, account
  <2> QED BY <1>3, <2>1, <2>2 DEF Cause
<1>9. ASSUME BlockTrial PROVE Cause'
  <2>1. now >= TrialDays /\ UNCHANGED <<now, trialEnd, subs>>
    BY <1>9 DEF BlockTrial, Cause
  <2>2. cron'.trial = "idle" /\ cron'.grace = cron.grace
    BY <1>1, <1>9 DEF BlockTrial
  <2> QED BY <1>3, <2>1, <2>2 DEF Cause
<1>10. ASSUME MarkPastDue PROVE Cause'
  <2>1. UNCHANGED <<now, status, trialEnd>> /\ cron'.trial = cron.trial /\ cron'.grace = "read"
    BY <1>1, <1>10 DEF MarkPastDue
  <2> QED BY <1>1, <1>10, <2>1, MarkGrowsPastDue DEF Cause
<1>11. ASSUME ReadPastDue PROVE Cause'
  <2>1. UNCHANGED <<now, status, trialEnd, subs>> /\ cron'.trial = cron.trial
    BY <1>1, <1>11 DEF ReadPastDue, account
  <2>2. cron'.grace = "block" => PastDue # {}
    BY <1>1, <1>11 DEF ReadPastDue, PastDue
  <2> QED BY <1>3, <2>1, <2>2 DEF Cause
<1>12. ASSUME BlockPastDue PROVE Cause'
  <2>1. PastDue # {} /\ UNCHANGED <<now, trialEnd, subs>>
    BY <1>12 DEF BlockPastDue, Cause
  <2>2. cron'.trial = cron.trial /\ cron'.grace = "idle"
    BY <1>1, <1>12 DEF BlockPastDue
  <2> QED BY <1>3, <2>1, <2>2 DEF Cause
<1>13. ASSUME CronFail PROVE Cause'
  <2>1. UNCHANGED <<now, status, trialEnd, subs>>
    BY <1>13 DEF CronFail, account
  <2>2. cron'.trial \in {cron.trial, "idle"} /\ cron'.grace \in {cron.grace, "idle"}
    BY <1>1, <1>13 DEF CronFail
  <2> QED BY <1>3, <2>1, <2>2 DEF Cause
<1>14. ASSUME Tick PROVE Cause'
  <2>1. now' = now + 1 /\ UNCHANGED <<account, cron>>
    BY <1>14 DEF Tick
  <2> QED BY <1>1, <1>2, <1>3, <2>1 DEF Cause, account
<1>15. ASSUME JobInvoice PROVE Cause'
  BY <1>3, <1>15 DEF JobInvoice, Cause
<1>16. CASE \/ \E e \in Event : Emit(e) \/ \E h \in Handler : Deliver(h, e)
            \/ \E h \in Handler : Claim(h) \/ ClaimFails(h) \/ EnqueueSubscription(h) \/ ApplyFails(h)
                                  \/ HandlerCrash(h)
            \/ JobStart \/ JobComplete \/ JobFail \/ JobStall \/ UNCHANGED vars
  <2>1. UNCHANGED <<now, account, cron>>
    BY <1>16 DEF Emit, Deliver, Claim, ClaimFails, EnqueueSubscription, ApplyFails, HandlerCrash,
       JobStart, JobComplete, JobFail, JobStall, JobOnly, vars
  <2> QED BY <1>4, <2>1
<1> QED
  BY <1>5, <1>6, <1>7, <1>8, <1>9, <1>10, <1>11, <1>12, <1>13, <1>14, <1>15, <1>16
     DEF Next, Handle, WebhookCancel, OwnerCancel

(* No account is blocked without cause, for any trial, grace period and    *)
(* month: the payments and cancellations between the read of an hourly job *)
(* and its write cannot take the cause away.                               *)
THEOREM BlockedHasCause == Spec => []BlockedForCause
<1>1. Init => Cause
  <2>1. ASSUME Init PROVE /\ trialEnd = TrialDays /\ status = "active" /\ DOMAIN subs = {}
                          /\ cron.trial = "idle" /\ cron.grace = "idle"
    BY <2>1 DEF Init
  <2> QED BY <2>1 DEF Cause, PastDue
<1>2. BInv /\ Cause /\ [Next]_vars => Cause'
  BY CauseKept
<1>3. Cause => BlockedForCause
  BY DEF Cause, PastDue, BlockedForCause
<1> QED BY <1>1, <1>2, <1>3, BillingInvariance, PTL DEF Spec
=============================================================================
