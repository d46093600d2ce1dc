----------------------------- MODULE ErpDocuments -----------------------------
(***************************************************************************)
(* The proxy to ERPNext (erp.controller.ts, erp.service.ts,                *)
(* erpnext.client.ts): one document of one account as its versions, the    *)
(* list it is in, and the two Redis entries that keep a response for a     *)
(* minute and for 90 seconds.  A write drops the cached list and leaves    *)
(* the cached document; an entry is written after its response was fetched *)
(* and nobody waits for it.  A write is sent again when ERPNext does not   *)
(* answer, whether or not it was done.                                     *)
(***************************************************************************)
EXTENDS Naturals, FiniteSets

CONSTANTS
  ErpReader, Writer,  \* concurrent requests
  DocTtl,             \* ERP_DOC_CACHE_TTL_SEC
  ListTtl,            \* ERP_LIST_CACHE_TTL_SEC
  Flight,             \* how long a fetched response may be on its way into the cache
  MaxAttempts,        \* MAX_ATTEMPTS
  MaxVersions         \* bounds the model: writes ERPNext ever applies

ASSUME ErpAssumption ==
  /\ DocTtl \in Nat \ {0} /\ ListTtl \in Nat \ {0} /\ Flight \in Nat
  /\ MaxAttempts \in Nat \ {0} /\ MaxVersions \in Nat

VARIABLES
  version,    \* the document's version in ERPNext
  outdated,   \* for how long each version has not been the current one
  cached,     \* the two entries
  erpReader,  \* the local state of each GET
  writer,     \* the local state of each POST, PUT or DELETE
  gone,       \* whether the document has been deleted
  floor       \* the last version whose write has dropped the cached list

erpVars == <<version, outdated, cached, erpReader, writer, gone, floor>>

Version == 0..MaxVersions
Kind == {"doc", "list"}
Ttl(kind) == IF kind = "doc" THEN DocTtl ELSE ListTtl
Longest == (IF DocTtl < ListTtl THEN ListTtl ELSE DocTtl) + Flight

NoEntry == [there |-> FALSE, version |-> 0, age |-> 0, old |-> FALSE]
NotFetching == [pc |-> "away", kind |-> "doc", version |-> 0, flight |-> 0, old |-> FALSE]
NotWriting == [pc |-> "away", op |-> "post", attempts |-> 0, version |-> 0]

ErpInit ==
  /\ version = 0 /\ floor = 0 /\ gone = FALSE
  /\ outdated = [v \in Version |-> 0]
  /\ cached = [kind \in Kind |-> NoEntry]
  /\ erpReader = [r \in ErpReader |-> NotFetching]
  /\ writer = [w \in Writer |-> NotWriting]

Fetching(r, kind) ==
  /\ erpReader[r].pc = "away"
  /\ erpReader' = [erpReader EXCEPT ![r] = [NotFetching EXCEPT !.pc = "fetch", !.kind = kind]]
  /\ UNCHANGED <<version, outdated, cached, writer, gone, floor>>

(* GET /erp/list by an account with a company: an entry that is there and  *)
(* can be read is the answer, and what is left asks ERPNext.               *)
MissList(r) == Fetching(r, "list")

(* GET /erp/doc. *)
MissDoc(r) == Fetching(r, "doc")

(* ERPNext answers; a document that is gone is answered as an empty one.   *)
(* The request may fail, or be refused, and then caches nothing.           *)
FetchErp(r) ==
  /\ erpReader[r].pc = "fetch"
  /\ \/ erpReader' = [erpReader EXCEPT ![r].pc = "fetched", ![r].version = version]
     \/ erpReader' = [erpReader EXCEPT ![r] = NotFetching]
  /\ UNCHANGED <<version, outdated, cached, writer, gone, floor>>

(* The response is the answer; the entry is set, or the set is lost. *)
Store(r, kind) ==
  /\ erpReader[r].pc = "fetched" /\ erpReader[r].kind = kind
  /\ cached' \in {cached, [cached EXCEPT ![kind] =
       [there |-> TRUE, version |-> erpReader[r].version, age |-> 0, old |-> erpReader[r].old]]}
  /\ erpReader' = [erpReader EXCEPT ![r] = NotFetching]
  /\ UNCHANGED <<version, outdated, writer, gone, floor>>

StoreList(r) == Store(r, "list")

(* Once the document was found to be the account's. *)
StoreDoc(r) == Store(r, "doc")

BeginWrite(w, op, pc) ==
  /\ writer[w].pc = "away" /\ version < MaxVersions
  /\ writer' = [writer EXCEPT ![w].pc = pc, ![w].op = op]
  /\ UNCHANGED <<version, outdated, cached, erpReader, gone, floor>>

BeginPost(w) == BeginWrite(w, "post", "send")

(* PUT and DELETE /erp/doc fetch the document first. *)
BeginPut(w) == BeginWrite(w, "put", "check")

BeginDelete(w) == BeginWrite(w, "delete", "check")

(* verifyTenantAccess: another company's document is refused. The request  *)
(* goes on when it is the account's, when the document or the account      *)
(* could not be read, and when either names no company.                    *)
CheckOwner(w) ==
  /\ writer[w].pc = "check"
  /\ writer' \in {[writer EXCEPT ![w] = NotWriting], [writer EXCEPT ![w].pc = "send"]}
  /\ UNCHANGED <<version, outdated, cached, erpReader, gone, floor>>

(* Attempts are counted while there may be another one, and what was       *)
(* written is remembered until the list is dropped.                        *)
Sent(w, pc, v) ==
  [writer[w] EXCEPT !.pc = pc,
                    !.attempts = IF pc = "send" THEN @ + 1 ELSE 0,
                    !.version = IF pc = "failed" THEN 0 ELSE v]

Write(w, pc) ==
  /\ version < MaxVersions /\ (gone => writer[w].op = "post")
  /\ version' = version + 1
  /\ gone' = (gone \/ writer[w].op = "delete")
  /\ writer' = [writer EXCEPT ![w] = Sent(w, pc, version + 1)]

(* ERPNext does it and says so; an answer of 404 counts as success too.    *)
WriteErp(w) ==
  /\ writer[w].pc = "send"
  /\ \/ Write(w, "scan")
     \/ writer' = [writer EXCEPT ![w] = Sent(w, "scan", writer[w].version)] /\ UNCHANGED <<version, gone>>
  /\ UNCHANGED <<outdated, cached, erpReader, floor>>

(* No answer, or a 502, 503 or 429, whether it was done or not: once more. *)
WriteUnanswered(w) ==
  /\ writer[w].pc = "send"
  /\ LET pc == IF writer[w].attempts + 1 < MaxAttempts THEN "send" ELSE "failed"
     IN \/ Write(w, pc)
        \/ writer' = [writer EXCEPT ![w] = Sent(w, pc, writer[w].version)] /\ UNCHANGED <<version, gone>>
  /\ UNCHANGED <<outdated, cached, erpReader, floor>>

(* Any other answer is an error at once; an error leaves the cached list.  *)
WriteFails(w) ==
  /\ writer[w].pc \in {"send", "failed"}
  /\ writer' = [writer EXCEPT ![w] = NotWriting]
  /\ UNCHANGED <<version, outdated, cached, erpReader, gone, floor>>

(* From here on the list shows the write, but for responses under way.     *)
Invalidated(w) ==
  /\ floor' = IF writer[w].version > floor THEN writer[w].version ELSE floor
  /\ erpReader' = [r \in ErpReader |-> [erpReader[r] EXCEPT !.old = @ \/ (erpReader[r].pc = "fetched" /\ erpReader[r].kind = "list")]]
  /\ writer' = [writer EXCEPT ![w] = NotWriting]

(* invalidateErpListCache scans for the keys, then deletes them. *)
ScanList(w) ==
  /\ writer[w].pc = "scan"
  /\ \/ /\ cached["list"].there
        /\ writer' = [writer EXCEPT ![w].pc = "delete"]
        /\ UNCHANGED <<erpReader, floor>>
     \/ ~cached["list"].there /\ Invalidated(w)
  /\ UNCHANGED <<version, outdated, cached, gone>>

\* The keys are found and left there.
DeleteNothing(w) ==
  /\ writer[w].pc = "delete"
  /\ Invalidated(w)
  /\ UNCHANGED <<version, outdated, cached, gone>>

DeleteList(w) ==
  /\ writer[w].pc = "delete"
  /\ cached' = [cached EXCEPT !["list"] = NoEntry]
  /\ Invalidated(w)
  /\ UNCHANGED <<version, outdated, gone>>

InvalidateFails(w) ==
  /\ writer[w].pc \in {"scan", "delete"}
  /\ writer' = [writer EXCEPT ![w] = NotWriting]
  /\ UNCHANGED <<version, outdated, cached, erpReader, gone, floor>>

Older(kind) ==
  IF ~cached[kind].there \/ cached[kind].age + 1 > Ttl(kind) THEN NoEntry
  ELSE [cached[kind] EXCEPT !.age = @ + 1]

Pass ==
  /\ \A r \in ErpReader : erpReader[r].pc = "fetched" => erpReader[r].flight < Flight
  /\ outdated' = [v \in Version |-> IF v < version /\ outdated[v] <= Longest THEN outdated[v] + 1 ELSE outdated[v]]
  /\ cached' = [kind \in Kind |-> Older(kind)]
  /\ erpReader' = [r \in ErpReader |->
                  IF erpReader[r].pc = "fetched" THEN [erpReader[r] EXCEPT !.flight = @ + 1] ELSE erpReader[r]]
  /\ UNCHANGED <<version, writer, gone, floor>>

(* What follows the beginning of a request that writes. *)
Proceed(w, op) ==
  /\ writer[w].op = op
  /\ \/ CheckOwner(w) \/ WriteErp(w) \/ WriteUnanswered(w) \/ WriteFails(w)
     \/ ScanList(w) \/ DeleteList(w) \/ InvalidateFails(w)

handleCreateDoc(w) == BeginPost(w) \/ Proceed(w, "post")
handleUpdateDoc(w) == BeginPut(w) \/ Proceed(w, "put")
handleDeleteDoc(w) == BeginDelete(w) \/ Proceed(w, "delete")

ErpNext ==
  \/ \E r \in ErpReader : MissList(r) \/ MissDoc(r) \/ FetchErp(r) \/ StoreList(r) \/ StoreDoc(r)
  \/ \E w \in Writer : handleCreateDoc(w) \/ handleUpdateDoc(w) \/ handleDeleteDoc(w)
  \/ Pass

ErpSpec == ErpInit /\ [][ErpNext]_erpVars

-----------------------------------------------------------------------------
(* Properties *)

ErpTypeOK ==
  /\ version \in Version /\ floor \in 0..version /\ gone \in BOOLEAN
  /\ outdated \in [Version -> 0..(Longest + 1)]
  /\ cached \in [Kind -> [there : BOOLEAN, version : Version, age : 0..Longest, old : BOOLEAN]]
  /\ erpReader \in [ErpReader -> [pc : {"away", "fetch", "fetched"}, kind : Kind, version : Version,
                            flight : 0..Flight, old : BOOLEAN]]
  /\ writer \in [Writer -> [pc : {"away", "check", "send", "failed", "scan", "delete"},
                            op : {"post", "put", "delete"}, attempts : 0..MaxAttempts, version : Version]]

(* What the cache answers was current within the entry's lifetime and the  *)
(* time a response needs into the cache, however reads, retried writes and *)
(* invalidations overlap; and once a write has dropped the cached list,    *)
(* the list is never cached from before that write again, except from a    *)
(* response fetched before the drop and stored after it                    *)
(* (erp.controller.ts:48).                                                 *)
CachesFresh ==
  /\ \A kind \in Kind : cached[kind].there => outdated[cached[kind].version] <= Ttl(kind) + Flight
  /\ cached["list"].there /\ ~cached["list"].old => cached["list"].version >= floor
=============================================================================
