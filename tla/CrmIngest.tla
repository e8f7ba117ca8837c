----------------------------- MODULE CrmIngest -----------------------------
(***************************************************************************)
(* Watermark-incremental extraction of the CRM (src/fanuni/pipeline):      *)
(* flows.py ingest_salesforce with the helpers it calls in db.py, load.py, *)
(* lake.py and contracts.py, against an upstream org that keeps changing.  *)
(*                                                                         *)
(* A run reads the watermark of an object, fetches every record stamped    *)
(* after it, puts the extract in the lake, and in ONE database transaction *)
(* loads the accepted rows, quarantines the rejected ones, audits the load *)
(* and moves the watermark.  Runs may overlap, fail at any point or be     *)
(* killed.  A fetch is one response page here; SalesforcePaging.tla takes  *)
(* the multi-page fetch apart.                                             *)
(*                                                                         *)
(* Stamps are seconds, 1..MaxClock; 0 stands for "no watermark row" and    *)
(* for Python's None.  The object key of an extract is its run's second.   *)
(***************************************************************************)
EXTENDS Integers, Sequences, FiniteSets

CONSTANTS
  Runs,          \* run ids (uuid based, never reused)
  IdsOf,         \* IdsOf[o]: the record Ids object o can have
  Kinds,         \* the kinds of record the org may hold
  MaxClock,      \* bound: seconds of wall clock
  MaxFaults,     \* bound: failures plus kills
  MaxActive,     \* how many runs may overlap
  FullRefresh,   \* may a run be started with full_refresh=True?
  LateWrites,    \* may the org write a stamp of a second already extracted?
  SharedSeconds  \* may two runs start within the same second?

SfObjects == <<"Contact", "Opportunity">>
Objects == {"Contact", "Opportunity"}

(* What a record looks like to the contract.  "ok" meets it; "bad" breaks  *)
(* it in some field; "unstamped" has SystemModstamp null and "nostamp" no  *)
(* such key; "malformed" has a string there that is no timestamp and sorts *)
(* after every date (one that sorts before them all is served and holds    *)
(* the watermark as "nostamp" does, one among them as "bad" does);         *)
(* "nullid" has Id null and "noid" no Id key.  The stamp kept for a record *)
(* without a usable one is the one its corrected version will show.        *)
AllKinds == {"ok", "bad", "unstamped", "nostamp", "malformed", "nullid", "noid"}

ASSUME CrmAssumption ==
  /\ MaxClock \in Nat \ {0} /\ MaxFaults \in Nat /\ MaxActive \in Nat
  /\ "ok" \in Kinds /\ Kinds \subseteq AllKinds
  /\ \A o \in Objects : IsFiniteSet(IdsOf[o])
  /\ FullRefresh \in BOOLEAN /\ LateWrites \in BOOLEAN /\ SharedSeconds \in BOOLEAN

VARIABLES
  clock,      \* the current second
  closed,     \* the last second some fetch has looked at
  org,        \* org[o][i]: record i of object o upstream
  watermark,  \* ops.watermarks
  raw,        \* raw.crm_contacts and raw.crm_opportunities
  quarantine, \* raw.quarantine
  lake,       \* the objects of the lake bucket, as rows
  audit,      \* ops.load_audit
  status,     \* ops.pipeline_runs.status
  faults,     \* failures and kills so far
  pc,         \* what the run does next
  full,       \* its full_refresh parameter
  key,        \* its stamp, which names its lake objects
  pos,        \* where it is in SF_OBJECTS
  after,      \* the watermark it extracts after
  batch,      \* the records it fetched
  dropped     \* the rows the DELETEs of its open transaction have removed

upstream == <<clock, org>>
locals == <<full, key, pos, after, batch, dropped>>
tables == <<watermark, raw, quarantine, audit>>
vars == <<clock, closed, org, watermark, raw, quarantine, lake, audit, status,
          faults, pc, full, key, pos, after, batch, dropped>>

Ids == UNION {IdsOf[o] : o \in Objects}
Absent == [stamp |-> 0, kind |-> "absent"]
OrgRecord == {Absent} \cup [stamp : 1 .. MaxClock, kind : Kinds]
Record == [id : Ids, stamp : 1 .. MaxClock, kind : Kinds]
Row == [obj : Objects, key : 1 .. MaxClock, rec : Record]

Present(o, i) == org[o][i] # Absent
Rows(o, k, recs) == {[obj |-> o, key |-> k, rec |-> b] : b \in recs}
RowsOf(table, o, k) == {w \in table : w.obj = o /\ w.key = k}
NoDrop == [raw |-> {}, quarantine |-> {}]

TypeOK ==
  /\ clock \in 1 .. MaxClock /\ closed \in 0 .. MaxClock
  /\ org \in [Objects -> [Ids -> OrgRecord]]
  /\ watermark \in [Objects -> 0 .. MaxClock]
  /\ raw \subseteq Row /\ quarantine \subseteq Row /\ lake \subseteq Row
  /\ audit \subseteq [run : Runs, obj : Objects, key : 1 .. MaxClock,
                      loaded : Nat, rejected : Nat]
  /\ status \in [Runs -> {"none", "running", "completed", "failed"}]
  /\ faults \in 0 .. MaxFaults
  /\ pc \in [Runs -> {"idle", "read", "fetch", "upload", "load", "commit",
                      "finish", "ended"}]
  /\ full \in [Runs -> BOOLEAN]
  /\ key \in [Runs -> 0 .. MaxClock]
  /\ pos \in [Runs -> 1 .. 3]
  /\ after \in [Runs -> 0 .. MaxClock]
  /\ batch \in [Runs -> SUBSET Record]
  /\ dropped \in [Runs -> [raw : SUBSET Row, quarantine : SUBSET Row]]

Init ==
  /\ clock = 1 /\ closed = 0
  /\ org = [o \in Objects |-> [i \in Ids |-> Absent]]
  /\ watermark = [o \in Objects |-> 0]
  /\ raw = {} /\ quarantine = {} /\ lake = {} /\ audit = {}
  /\ status = [r \in Runs |-> "none"]
  /\ faults = 0
  /\ pc = [r \in Runs |-> "idle"]
  /\ full = [r \in Runs |-> FALSE]
  /\ key = [r \in Runs |-> 0]
  /\ pos = [r \in Runs |-> 1]
  /\ after = [r \in Runs |-> 0]
  /\ batch = [r \in Runs |-> {}]
  /\ dropped = [r \in Runs |-> NoDrop]

-----------------------------------------------------------------------------
(* The upstream org. *)

Tick ==
  /\ clock < MaxClock
  /\ clock' = clock + 1
  /\ UNCHANGED <<closed, org, tables, lake, status, faults, pc, locals>>

(* A record is created or edited: it takes the current second as its stamp. *)
Write(o, i, kind) ==
  /\ LateWrites \/ clock > closed
  /\ org' = [org EXCEPT ![o][i] = [stamp |-> clock, kind |-> kind]]
  /\ UNCHANGED <<clock, closed, tables, lake, status, faults, pc, locals>>

(* A record is corrected in place: it meets the contract and keeps its stamp. *)
Correct(o, i) ==
  /\ Present(o, i)
  /\ org[o][i].kind # "ok"
  /\ org' = [org EXCEPT ![o][i].kind = "ok"]
  /\ UNCHANGED <<clock, closed, tables, lake, status, faults, pc, locals>>

(* Definitions named Bug... are what a plausible mistake would make of the  *)
(* definition they precede; nothing uses them but the mutation runs.        *)

(* What the query endpoint serves: stamps after the watermark, compared as *)
(* strings, so a null stamp ("None") sorts after every date and a missing  *)
(* one ("") before.  build_soql leaves the WHERE out when there is none.   *)
BugServesLater(rec, from) ==
  CASE rec.kind \in {"absent", "nostamp"} -> FALSE
    [] rec.kind \in {"unstamped", "malformed"} -> TRUE
    [] OTHER -> rec.stamp > from + 1

Serves(rec, from) ==
  CASE rec.kind = "absent" -> FALSE
    [] rec.kind \in {"unstamped", "malformed"} -> TRUE
    [] rec.kind = "nostamp" -> from = 0
    [] OTHER -> rec.stamp > from

Served(o, from) ==
  {[id |-> i, stamp |-> org[o][i].stamp, kind |-> org[o][i].kind] :
     i \in {j \in Ids : Serves(org[o][j], from)}}

-----------------------------------------------------------------------------
(* The contract and the watermark rule. *)

Accepted(recs) == {b \in recs : b.kind = "ok"}
Rejected(recs) == recs \ Accepted(recs)
NoStamp(b) == b.kind \in {"unstamped", "nostamp"}

MaxOf(S) == CHOOSE m \in S : \A s \in S : s <= m

(* The accepted stamps below every stamp of a reject: the min over all the *)
(* strings among them, so a malformed one that sorts last is no ceiling.   *)
NoCeiling(b) == NoStamp(b) \/ b.kind = "malformed"

BugSafeTies(recs) ==
  {s \in {b.stamp : b \in Accepted(recs)} : \A b \in Rejected(recs) : s <= b.stamp}
BugSafeAll(recs) == {b.stamp : b \in Accepted(recs)}

Safe(recs) ==
  {s \in {b.stamp : b \in Accepted(recs)} :
     \A b \in Rejected(recs) : ~NoCeiling(b) => s < b.stamp}

(* 0 is None: the watermark must not move. *)
BugNextUnstamped(recs, current) ==
  IF Safe(recs) = {} THEN 0
  ELSE IF MaxOf(Safe(recs)) <= current THEN 0 ELSE MaxOf(Safe(recs))

NextWatermark(recs, current) ==
  IF (\E b \in Rejected(recs) : NoStamp(b)) \/ Safe(recs) = {} THEN 0
  ELSE IF MaxOf(Safe(recs)) <= current THEN 0 ELSE MaxOf(Safe(recs))

-----------------------------------------------------------------------------
(* A run of ingest_salesforce. *)

Obj(r) == SfObjects[pos[r]]
Active(r) == pc[r] \notin {"idle", "ended"}

(* db.start_run, then the run takes its stamp. *)
Start(r, f) ==
  /\ pc[r] = "idle"
  /\ Cardinality({q \in Runs : Active(q)}) < MaxActive
  /\ SharedSeconds \/ \A q \in Runs : key[q] # clock
  /\ f => FullRefresh
  /\ status' = [status EXCEPT ![r] = "running"]
  /\ full' = [full EXCEPT ![r] = f]
  /\ key' = [key EXCEPT ![r] = clock]
  /\ pc' = [pc EXCEPT ![r] = "read"]
  /\ UNCHANGED <<upstream, closed, tables, lake, faults, pos, after, batch, dropped>>

BugReadNothing(r) ==
  /\ pc[r] = "read"
  /\ pc' = [pc EXCEPT ![r] = "fetch"]
  /\ UNCHANGED <<upstream, closed, tables, lake, status, faults, locals>>

ReadWatermark(r) ==
  /\ pc[r] = "read"
  /\ after' = [after EXCEPT ![r] = IF full[r] THEN 0 ELSE watermark[Obj(r)]]
  /\ pc' = [pc EXCEPT ![r] = "fetch"]
  /\ UNCHANGED <<upstream, closed, tables, lake, status, faults, full, key, pos, batch,
                 dropped>>

(* On to the next object of SF_OBJECTS, or to finish_run. *)
NextObject(r) ==
  /\ pos' = [pos EXCEPT ![r] = @ + 1]
  /\ pc' = [pc EXCEPT ![r] = IF pos[r] = Len(SfObjects) THEN "finish" ELSE "read"]
  /\ batch' = [batch EXCEPT ![r] = {}]
  /\ after' = [after EXCEPT ![r] = 0]
  /\ dropped' = [dropped EXCEPT ![r] = NoDrop]
  /\ UNCHANGED <<full, key>>

(* The fetch task; a retry starts over, so only the last attempt shows. *)
FetchNothing(r) ==
  /\ pc[r] = "fetch"
  /\ Served(Obj(r), after[r]) = {}
  /\ closed' = clock
  /\ NextObject(r)
  /\ UNCHANGED <<upstream, tables, lake, status, faults>>

FetchRecords(r) ==
  /\ pc[r] = "fetch"
  /\ Served(Obj(r), after[r]) # {}
  /\ closed' = clock
  /\ batch' = [batch EXCEPT ![r] = Served(Obj(r), after[r])]
  /\ pc' = [pc EXCEPT ![r] = "upload"]
  /\ UNCHANGED <<upstream, tables, lake, status, faults, full, key, pos, after, dropped>>

BugUploadAccepted(r) ==
  /\ pc[r] = "upload"
  /\ lake' = lake \cup Rows(Obj(r), key[r], Accepted(batch[r]))
  /\ pc' = [pc EXCEPT ![r] = "load"]
  /\ UNCHANGED <<upstream, closed, tables, status, faults, locals>>

Upload(r) ==
  /\ pc[r] = "upload"
  /\ lake' = (lake \ RowsOf(lake, Obj(r), key[r])) \cup Rows(Obj(r), key[r], batch[r])
  /\ pc' = [pc EXCEPT ![r] = "load"]
  /\ UNCHANGED <<upstream, closed, tables, status, faults, locals>>

(* supersede_quarantine matches payload->>'Id' against str(r["Id"]): a row *)
(* whose Id is null is never matched.                                      *)
BugSupersedesNothing(r) == {}
BugSupersedesRejects(r) ==
  {q \in quarantine : q.obj = Obj(r) /\ \E b \in Rejected(batch[r]) : b.id = q.rec.id}

Superseded(r) ==
  {q \in quarantine : /\ q.obj = Obj(r)
                      /\ q.rec.kind # "nullid"
                      /\ \E b \in batch[r] : b.id = q.rec.id /\ b.kind # "nullid"}

(* replace_batch deletes what raw holds of the run's own source_file.       *)
BugReplacesObject(r) == {w \in raw : w.obj = Obj(r)}

Replaced(r) == RowsOf(raw, Obj(r), key[r])

(* The DELETEs of the transaction: each sees the rows committed by then.   *)
Load(r) ==
  /\ pc[r] = "load"
  /\ \A b \in batch[r] : b.kind # "noid"
  /\ dropped' = [dropped EXCEPT ![r] =
                   [raw |-> Replaced(r),
                    quarantine |-> Superseded(r) \cup RowsOf(quarantine, Obj(r), key[r])]]
  /\ pc' = [pc EXCEPT ![r] = "commit"]
  /\ UNCHANGED <<upstream, closed, tables, lake, status, faults, full, key, pos, after,
                 batch>>

BugAuditFetched(r) ==
  [run |-> r, obj |-> Obj(r), key |-> key[r],
   loaded |-> Cardinality(batch[r]), rejected |-> Cardinality(Rejected(batch[r]))]

AuditRow(r) ==
  [run |-> r, obj |-> Obj(r), key |-> key[r],
   loaded |-> Cardinality(Accepted(batch[r])),
   rejected |-> Cardinality(Rejected(batch[r]))]

BugAdvanceAll(o, w) == IF w = 0 THEN watermark ELSE [p \in Objects |-> w]

Advance(o, w) == IF w = 0 THEN watermark ELSE [watermark EXCEPT ![o] = w]

(* The COPYs, the audit row and the watermark become visible together. *)
Commit(r) ==
  /\ pc[r] = "commit"
  /\ raw' = (raw \ dropped[r].raw) \cup Rows(Obj(r), key[r], Accepted(batch[r]))
  /\ quarantine' = (quarantine \ dropped[r].quarantine)
                     \cup Rows(Obj(r), key[r], Rejected(batch[r]))
  /\ audit' = audit \cup {AuditRow(r)}
  /\ watermark' = Advance(Obj(r), NextWatermark(batch[r], after[r]))
  /\ NextObject(r)
  /\ UNCHANGED <<upstream, closed, lake, status, faults>>

(* The run is over; nothing of it is left but its rows. *)
Stop(r) ==
  /\ pc' = [pc EXCEPT ![r] = "ended"]
  /\ batch' = [batch EXCEPT ![r] = {}]
  /\ after' = [after EXCEPT ![r] = 0]
  /\ full' = [full EXCEPT ![r] = FALSE]
  /\ dropped' = [dropped EXCEPT ![r] = NoDrop]
  /\ UNCHANGED <<upstream, closed, tables, lake, key, pos>>

BugFinishStatus(r) ==
  /\ pc[r] = "finish"
  /\ status' = [status EXCEPT ![r] = "complete"]
  /\ Stop(r)
  /\ UNCHANGED faults

Finish(r) ==
  /\ pc[r] = "finish"
  /\ status' = [status EXCEPT ![r] = "completed"]
  /\ Stop(r)
  /\ UNCHANGED faults

(* str(r["Id"]) raises KeyError in the middle of the transaction. *)
BugMissingIdLost(r) ==
  /\ pc[r] = "load"
  /\ \E b \in batch[r] : b.kind = "noid"
  /\ Stop(r)
  /\ UNCHANGED <<status, faults>>

MissingId(r) ==
  /\ pc[r] = "load"
  /\ \E b \in batch[r] : b.kind = "noid"
  /\ status' = [status EXCEPT ![r] = "failed"]
  /\ Stop(r)
  /\ UNCHANGED faults

(* Any step raises: roll back, then mark the run failed. *)
Fail(r) ==
  /\ Active(r)
  /\ faults < MaxFaults
  /\ faults' = faults + 1
  /\ status' = [status EXCEPT ![r] = "failed"]
  /\ Stop(r)

(* The process is killed: the server rolls the transaction back. *)
Kill(r) ==
  /\ Active(r)
  /\ faults < MaxFaults
  /\ faults' = faults + 1
  /\ Stop(r)
  /\ UNCHANGED status

Step(r) ==
  \/ ReadWatermark(r) \/ FetchNothing(r) \/ FetchRecords(r) \/ Upload(r)
  \/ Load(r) \/ MissingId(r) \/ Commit(r) \/ Finish(r)

Upstream ==
  \/ Tick
  \/ \E o \in Objects : \E i \in IdsOf[o] :
       \/ \E kind \in Kinds : Write(o, i, kind)
       \/ Correct(o, i)

Next ==
  \/ Upstream
  \/ \E r \in Runs : \/ \E f \in BOOLEAN : Start(r, f)
                     \/ Step(r)
                     \/ Fail(r)
                     \/ Kill(r)

Spec == Init /\ [][Next]_vars

(* A started process runs on until it ends, fails or is killed. *)
FairSpec == Spec /\ \A r \in Runs : WF_vars(Step(r))

-----------------------------------------------------------------------------
(* Correctness. *)

(* The current version of record i has been accepted into raw. *)
Landed(o, i) ==
  \E w \in raw : w.obj = o /\ w.rec.id = i /\ w.rec.stamp = org[o][i].stamp

(* next_watermark: the watermark claims only what is fully processed, so an *)
(* upstream record that is not in raw is always stamped after it and will   *)
(* be extracted again, its correction included.                             *)
WatermarkSafe ==
  \A o \in Objects : \A i \in Ids :
    Present(o, i) /\ ~Landed(o, i) => org[o][i].stamp > watermark[o]

(* supersede_quarantine: a standing reject is not duplicated, however many *)
(* runs extract it.                                                        *)
QuarantineNotDuplicated ==
  \A q1, q2 \in quarantine : q1.obj = q2.obj /\ q1.rec.id = q2.rec.id => q1 = q2

(* supersede_quarantine: a record that was accepted later than it was      *)
(* quarantined leaves no quarantine row behind.                            *)
QuarantineCleared ==
  \A q \in quarantine : \A w \in raw :
    q.obj = w.obj /\ q.rec.id = w.rec.id => w.key < q.key

(* ingest_salesforce uploads before it loads: whatever is in raw or in     *)
(* quarantine can be found again in the lake object it names.              *)
LakeBacksWarehouse == raw \cup quarantine \subseteq lake

(* audit_load: the audit row of an extract counts what raw holds of it, for *)
(* good, and no row is in raw or in quarantine that no audit row speaks of. *)
AuditAccountsForRows ==
  /\ \A a \in audit :
       /\ Cardinality(RowsOf(raw, a.obj, a.key)) = a.loaded
       /\ Cardinality(RowsOf(quarantine, a.obj, a.key)) <= a.rejected
  /\ \A w \in raw \cup quarantine : \E a \in audit : a.obj = w.obj /\ a.key = w.key

(* next_watermark: the watermark does not move backwards. *)
WatermarkNeverRegresses == [][\A o \in Objects : watermark'[o] >= watermark[o]]_vars

(* A commit whose extract is still current leaves every acceptable record  *)
(* of the object in raw, those it did not fetch included.                  *)
CommitCatchesUp ==
  [][\A r \in Runs : \A o \in Objects :
       /\ pc[r] = "commit" /\ pc'[r] \in {"read", "finish"}
       /\ o = Obj(r) /\ batch[r] = Served(o, after[r])
       => \A i \in IdsOf[o] : org[o][i].kind = "ok" => Landed(o, i)']_vars

(* Nothing is taken out of raw or replaced there once it was loaded. *)
RawOnlyGrows == [][raw \subseteq raw']_vars

(* mark_run_failed and finish_run: as long as nothing fails around it, a   *)
(* run that started settles in ops.pipeline_runs, whatever it extracts.    *)
RunsSettle ==
  \A r \in Runs : status[r] = "running" /\ faults = 0 ~>
                    status[r] \in {"completed", "failed"} \/ faults > 0

-----------------------------------------------------------------------------
(* Why the watermark is safe: what a run carries from its reads to its     *)
(* commit stays true of an org and a warehouse that change meanwhile.      *)

SfIndex(o) == IF o = "Contact" THEN 1 ELSE 2
Unlanded(o, i) == Present(o, i) /\ ~Landed(o, i)

(* No two runs share a stamp, and a row of raw names a run that is past    *)
(* the object: a run deletes nobody's rows.                                *)
KeysDistinct == \A r, q \in Runs : key[r] # 0 /\ key[r] = key[q] => r = q
RawKeyed ==
  \A w \in raw : \E q \in Runs :
    key[q] = w.key /\ pc[q] # "idle" /\ SfIndex(w.obj) < pos[q]
DropsNothing == \A r \in Runs : pc[r] = "commit" => dropped[r].raw = {}

(* Nothing a fetch has looked at can still be stamped. *)
SecondsClosed ==
  /\ closed <= clock
  /\ \A o \in Objects : watermark[o] <= closed
  /\ \A o \in Objects : \A i \in Ids : org[o][i].stamp <= clock

(* The watermark a run has read stays safe until it has fetched. *)
ReadSafe(r) ==
  pc[r] = "fetch" =>
    /\ after[r] <= closed
    /\ \A i \in Ids : Unlanded(Obj(r), i) => org[Obj(r)][i].stamp > after[r]

(* What it has fetched holds every record that is neither in raw nor       *)
(* stamped after the whole extract.                                        *)
Covered(recs, o, i) ==
  \/ \E b \in recs : b.id = i /\ b.stamp = org[o][i].stamp
  \/ \A b \in recs : b.stamp < org[o][i].stamp

BatchSafe(r) ==
  pc[r] \in {"upload", "load", "commit"} =>
    /\ \A b \in batch[r] : b.stamp <= closed
    /\ \A i \in Ids : Unlanded(Obj(r), i) => Covered(batch[r], Obj(r), i)

ExtractInv ==
  /\ SecondsClosed /\ WatermarkSafe
  /\ KeysDistinct /\ RawKeyed /\ DropsNothing
  /\ \A r \in Runs : ReadSafe(r) /\ BatchSafe(r)

=============================================================================
