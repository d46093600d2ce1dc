----------------------------- MODULE AuditChain ------------------------------
(* The hash chain of one account's audit log (audit.service.ts): a logger  *)
(* reads the hash of the latest entry from Redis, inserts its own entry    *)
(* naming it, and writes its hash to Redis, in three separate steps that   *)
(* nobody waits for; the cleanup worker deletes old entries. An entry's    *)
(* hash is that of its predecessor's hash and its time: here, the sequence *)
(* of the times.                                                           *)
EXTENDS Naturals, Sequences, FiniteSets

CONSTANTS
  Logger,      \* concurrent calls of logAudit
  HeadTtl,     \* how long Redis keeps the latest hash
  Retention,   \* AUDIT_LOGS_DAYS
  LogDelay,    \* how long a call takes at most
  MaxOutages,  \* bounds the model: calls of Redis that fail
  MaxEntries,  \* bounds the model: entries ever inserted
  LastClock    \* bounds the model: the clock

ASSUME AuditAssumption ==
  /\ IsFiniteSet(Logger)
  /\ HeadTtl \in Nat /\ Retention \in Nat /\ LogDelay \in Nat
  /\ MaxOutages \in Nat /\ MaxEntries \in Nat /\ LastClock \in Nat
  /\ HeadTtl + 2 * LogDelay <= Retention

VARIABLES
  clock,    \* the time
  entries,  \* every entry ever inserted, in the order of insertion
  purged,   \* how many of the first entries are deleted
  outages,  \* calls of Redis that failed
  head,     \* the hash in Redis and its age
  logger    \* the local state of each call

auditVars == <<clock, entries, purged, outages, head, logger>>

Genesis == <<>>
NoHead == [hash |-> Genesis, age |-> 0]
NotLogging == [pc |-> "away", prev |-> Genesis, at |-> 0, entry |-> 0]

AuditInit ==
  /\ clock = 0 /\ purged = 0 /\ outages = 0
  /\ entries = <<>> /\ head = NoHead
  /\ logger = [l \in Logger |-> NotLogging]

Busy == {l \in Logger : logger[l].pc = "insert"}

(* getPrevHash: the hash in Redis, or GENESIS when there is none or Redis  *)
(* does not answer.                                                        *)
ReadHead(l) ==
  /\ logger[l].pc = "away" /\ Len(entries) + Cardinality(Busy) < MaxEntries
  /\ \E prev \in {head.hash, Genesis} :
       /\ outages' = IF prev = head.hash THEN outages ELSE outages + 1
       /\ logger' = [logger EXCEPT ![l] = [pc |-> "insert", prev |-> prev, at |-> clock, entry |-> 0]]
  /\ outages' <= MaxOutages
  /\ UNCHANGED <<clock, entries, purged, head>>

EntryHash(l) == Append(logger[l].prev, logger[l].at)

InsertEntry(l) ==
  /\ logger[l].pc = "insert"
  /\ entries' = Append(entries, [hash |-> EntryHash(l), prev |-> logger[l].prev, at |-> clock,
                                 missing |-> purged, unset |-> FALSE])
  /\ logger' = [logger EXCEPT ![l].pc = "set", ![l].entry = Len(entries) + 1]
  /\ UNCHANGED <<clock, purged, outages, head>>

\* An insertion that fails and goes on.
InsertSkipped(l) ==
  /\ logger[l].pc = "insert"
  /\ head' = [hash |-> EntryHash(l), age |-> 0]
  /\ logger' = [logger EXCEPT ![l] = NotLogging]
  /\ UNCHANGED <<clock, entries, purged, outages>>

(* The entry could not be inserted: it is logged, and the head stays. *)
InsertFails(l) ==
  /\ logger[l].pc = "insert"
  /\ logger' = [logger EXCEPT ![l] = NotLogging]
  /\ UNCHANGED <<clock, entries, purged, outages, head>>

(* setPrevHash: the write may be lost. *)
SetHead(l) ==
  /\ logger[l].pc = "set"
  /\ \/ head' = [hash |-> entries[logger[l].entry].hash, age |-> 0] /\ UNCHANGED <<entries, outages>>
     \/ /\ outages < MaxOutages /\ outages' = outages + 1
        /\ entries' = [entries EXCEPT ![logger[l].entry].unset = TRUE] /\ UNCHANGED head
  /\ logger' = [logger EXCEPT ![l] = NotLogging]
  /\ UNCHANGED <<clock, purged>>

(* The cleanup worker's audit_logs task. *)
PurgeEntries ==
  /\ \E i \in (purged + 1)..Len(entries) : entries[i].at + Retention < clock
  /\ purged' = Cardinality({i \in 1..Len(entries) : entries[i].at + Retention < clock})
  /\ UNCHANGED <<clock, entries, outages, head, logger>>

ClockTick ==
  /\ clock < LastClock /\ clock' = clock + 1
  /\ \A l \in Logger : logger[l].pc # "away" => clock - logger[l].at < LogDelay
  /\ head' = IF head.hash = Genesis \/ head.age + 1 > HeadTtl THEN NoHead ELSE [head EXCEPT !.age = @ + 1]
  /\ UNCHANGED <<entries, purged, outages, logger>>

AuditNext ==
  \/ \E l \in Logger : ReadHead(l) \/ InsertEntry(l) \/ InsertFails(l) \/ SetHead(l)
  \/ PurgeEntries
  \/ ClockTick

AuditSpec == AuditInit /\ [][AuditNext]_auditVars

-----------------------------------------------------------------------------
(* Properties *)

Hash == {entries[i].hash : i \in 1..Len(entries)} \cup {Genesis}

AuditTypeOK ==
  /\ clock \in 0..LastClock /\ purged \in 0..Len(entries) /\ Len(entries) <= MaxEntries /\ outages \in 0..MaxOutages
  /\ \A i \in 1..Len(entries) : entries[i].at \in 0..clock /\ entries[i].missing \in 0..purged
  /\ head.hash \in Hash /\ head.age \in 0..HeadTtl
  /\ \A l \in Logger : /\ logger[l].pc \in {"away", "insert", "set"} /\ logger[l].prev \in Hash
                       /\ logger[l].at \in 0..clock /\ logger[l].entry \in 0..Len(entries)

Chained(i) ==
  entries[i].prev = Genesis \/ \E j \in (entries[i].missing + 1)..(i - 1) : entries[j].hash = entries[i].prev

Followers(hash) == {i \in 1..Len(entries) : entries[i].prev = hash /\ ~entries[i].unset}

Copies(hash) == {i \in 1..Len(entries) : entries[i].hash = hash}

(* However loggers overlap, entries fail to be inserted and writes to      *)
(* Redis are lost, an entry names GENESIS or an entry that was inserted    *)
(* before it and not yet deleted; and no more entries follow the same one  *)
(* than loggers were under way, but for those whose hash never reached     *)
(* Redis (the chain forks: audit.service.ts:36 and 147).                   *)
AuditLinked ==
  /\ \A i \in 1..Len(entries) : Chained(i)
  /\ \A hash \in Hash \ {Genesis} :
       Cardinality(Followers(hash)) <= Cardinality(Logger) * Cardinality(Copies(hash))
=============================================================================
