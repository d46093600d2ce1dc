------------------------------ MODULE UsageMeter ------------------------------
(***************************************************************************)
(* The active users of an account in a billing month (lib/metering.ts):    *)
(* one Redis set per day, which meter.get unites into a temporary key that *)
(* all readers share and whose name the scan for the days also matches.    *)
(***************************************************************************)
EXTENDS Naturals, FiniteSets

CONSTANTS Day, ActiveUser, Reader

ASSUME MeterAssumption == IsFiniteSet(ActiveUser) /\ "tmp" \notin Day

VARIABLES
  seenOn,   \* the users in each key, of the days and "tmp"; an empty key is absent
  reader    \* what each reader does, the keys it found and its count, with the users when it began

meterVars == <<seenOn, reader>>

MeterKey == Day \cup {"tmp"}

NotReading == [pc |-> "away", keys |-> {}, before |-> {}, count |-> 0]

MeterInit ==
  /\ seenOn = [k \in MeterKey |-> {}]
  /\ reader = [r \in Reader |-> NotReading]

Present == {k \in MeterKey : seenOn[k] # {}}
United(keys) == UNION {seenOn[k] : k \in keys}

(* Every request of a user records him, unless Redis fails. *)
RecordActiveUser(u, d) ==
  /\ seenOn' = [seenOn EXCEPT ![d] = @ \cup {u}]
  /\ UNCHANGED reader

BeginScan(r) ==
  /\ reader[r] = NotReading
  /\ reader' = [reader EXCEPT ![r] = [pc |-> "scan", keys |-> Present, before |-> United(Day), count |-> 0]]
  /\ UNCHANGED seenOn

(* A scan finds the keys there at its beginning, and maybe others. *)
EndScan(r) ==
  /\ reader[r].pc = "scan"
  /\ \E more \in SUBSET Present :
       LET keys == reader[r].keys \cup more
       IN reader' = [reader EXCEPT ![r].keys = keys, ![r].pc = IF keys = {} THEN "done" ELSE "unite"]
  /\ UNCHANGED seenOn

UniteDays(r) ==
  /\ reader[r].pc = "unite"
  /\ seenOn' = [seenOn EXCEPT !["tmp"] = United(reader[r].keys)]
  /\ reader' = [reader EXCEPT ![r].pc = "delete", ![r].count = Cardinality(United(reader[r].keys))]

\* The count is taken from the temporary key when it is deleted.
CountTmp(r) ==
  /\ reader[r].pc = "delete"
  /\ seenOn' = [seenOn EXCEPT !["tmp"] = {}]
  /\ reader' = [reader EXCEPT ![r].pc = "done", ![r].count = Cardinality(seenOn["tmp"])]

(* The reader deletes the key and answers. *)
DeleteTmp(r) ==
  /\ reader[r].pc = "delete"
  /\ seenOn' = [seenOn EXCEPT !["tmp"] = {}]
  /\ reader' = [reader EXCEPT ![r].pc = "done"]

(* It has answered, or is lost and leaves the key behind. *)
StopReading(r) ==
  /\ reader[r] # NotReading
  /\ reader' = [reader EXCEPT ![r] = NotReading]
  /\ UNCHANGED seenOn

MeterNext ==
  \/ \E u \in ActiveUser, d \in Day : RecordActiveUser(u, d)
  \/ \E r \in Reader : BeginScan(r) \/ EndScan(r) \/ UniteDays(r) \/ DeleteTmp(r) \/ StopReading(r)

MeterSpec == MeterInit /\ [][MeterNext]_meterVars

-----------------------------------------------------------------------------
(* Properties *)

MeterTypeOK ==
  /\ seenOn \in [MeterKey -> SUBSET ActiveUser]
  /\ reader \in [Reader -> [pc : {"away", "scan", "unite", "delete", "done"}, keys : SUBSET MeterKey,
                            before : SUBSET ActiveUser, count : 0..Cardinality(ActiveUser)]]

(* Readers overwrite, read and delete each other's temporary key: a bill   *)
(* still counts every user recorded before the reading began, and no user  *)
(* twice (metering.ts:130-133).                                            *)
MeterExact ==
  \A r \in Reader :
    reader[r].pc = "done" =>
      reader[r].count \in Cardinality(reader[r].before) .. Cardinality(United(Day))
=============================================================================
