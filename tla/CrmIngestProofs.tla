-------------------------- MODULE CrmIngestProofs --------------------------
(* What holds of CrmIngest for every set of runs and records and every     *)
(* bound: type correctness, the safety of the watermark and what a commit  *)
(* catches up with; that the tables, the lake and the audit rows agree;    *)
(* and, for runs in turn, what becomes of the quarantine.                  *)
EXTENDS CrmIngest, FiniteSetTheorems, WellFoundedInduction, TLAPS

(***************************************************************************)
(* Lemmas about the operators.                                             *)
(***************************************************************************)

(* A finite extract: the org holds finitely many records. *)
LEMMA ServedFinite ==
  ASSUME NEW o \in Objects, NEW from
  PROVE  IsFiniteSet(Served(o, from))
<1> DEFINE S == {j \in Ids : Serves(org[o][j], from)}
           f == [i \in S |-> [id |-> i, stamp |-> org[o][i].stamp, kind |-> org[o][i].kind]]
<1>1. IsFiniteSet(Ids)
  <2>1. Ids = IdsOf["Contact"] \cup IdsOf["Opportunity"]
    BY DEF Ids, Objects
  <2>2. QED  BY <2>1, CrmAssumption, FS_Union DEF CrmAssumption, Objects
<1>2. IsFiniteSet(S)
  BY <1>1, FS_Subset
<1>3. f \in Surjection(S, Served(o, from))
  BY DEF Surjection, Served
<1>4. QED  BY <1>2, <1>3, FS_Surjection

(* A nonempty set of numbers below a bound has a greatest element: the one *)
(* with the fewest elements of the set above it.                           *)
LEMMA MaxOfMember ==
  ASSUME NEW m \in Nat, NEW S \in SUBSET (0 .. m), S # {}
  PROVE  /\ MaxOf(S) \in S
         /\ \A s \in S : s <= MaxOf(S)
<1> DEFINE Above(s) == {u \in S : u > s}
           T == {Above(s) : s \in S}
<1>1. IsFiniteSet(S)
  <2>1. S \in SUBSET Nat /\ \A s \in S : s <= m
    OBVIOUS
  <2>2. QED  BY <2>1, FS_BoundedSetOfNaturals
<1>2. IsWellFoundedOn(StrictSubsetOrdering(S), FiniteSubsetsOf(S))
  BY FS_StrictSubsetOrderingWellFounded
<1>3. T \subseteq FiniteSubsetsOf(S)
  <2>1. T \subseteq SUBSET S
    OBVIOUS
  <2>2. QED  BY ONLY <1>1, <2>1, FS_FiniteSubsetsOfFinite
<1>4. PICK A \in T : \A B \in T : ~(<<B, A>> \in StrictSubsetOrdering(S))
  <2>1. T # {}
    <3>1. PICK s \in S : TRUE
      OBVIOUS
    <3>2. Above(s) \in T
      BY <3>1
    <3>3. QED  BY <3>2
  <2>2. QED  BY <1>2, <1>3, <2>1, WFMin
<1>5. PICK x \in S : A = Above(x)
  BY <1>4
<1>6. ASSUME NEW s \in S, s > x  PROVE FALSE
  <2>1. Above(s) \in T
    OBVIOUS
  <2>2. Above(s) \subseteq Above(x) /\ Above(s) # Above(x)
    <3>1. \A u \in S : u > s => u > x
      BY <1>6
    <3>2. s \in Above(x) /\ s \notin Above(s)
      BY <1>6
    <3>3. QED  BY <3>1, <3>2
  <2>3. <<Above(s), Above(x)>> \in StrictSubsetOrdering(S)
    BY <2>2 DEF StrictSubsetOrdering
  <2>4. QED  BY <1>4, <1>5, <2>1, <2>3
<1>7. \A s \in S : s <= x
  BY <1>6
<1>8. QED  BY <1>7 DEF MaxOf

(***************************************************************************)
(* Type correctness.                                                       *)
(***************************************************************************)

(* An extract is finite, so what the audit counts are numbers. *)
FiniteBatches == \A r \in Runs : IsFiniteSet(batch[r])

(* A started run has its stamp, and an object to work on until the last. *)
Working(r) == pc[r] \in {"read", "fetch", "upload", "load", "commit"}
RunsPlaced ==
  \A r \in Runs : /\ pc[r] = "idle" => pos[r] = 1
                  /\ pc[r] # "idle" => key[r] # 0
                  /\ Working(r) => pos[r] \in 1 .. 2

TypeInv == TypeOK /\ FiniteBatches /\ RunsPlaced

LEMMA ServedType ==
  ASSUME TypeOK, NEW o \in Objects, NEW from \in 0 .. MaxClock
  PROVE  Served(o, from) \in SUBSET Record
<1> SUFFICES ASSUME NEW i \in Ids, Serves(org[o][i], from)
             PROVE  [id |-> i, stamp |-> org[o][i].stamp, kind |-> org[o][i].kind] \in Record
  BY DEF Served
<1>1. org[o][i] \in OrgRecord /\ org[o][i] # Absent
  BY DEF TypeOK, Serves, Absent
<1>2. QED  BY <1>1 DEF OrgRecord, Record

LEMMA RowsType ==
  ASSUME NEW o \in Objects, NEW k \in 1 .. MaxClock, NEW recs \in SUBSET Record
  PROVE  Rows(o, k, recs) \in SUBSET Row
BY DEF Rows, Row

LEMMA ObjType ==
  ASSUME TypeInv, NEW r \in Runs, Working(r)
  PROVE  Obj(r) \in Objects
BY DEF TypeInv, RunsPlaced, Obj, SfObjects, Objects

(* Moving on to the next object keeps a run well formed. *)
LEMMA NextObjectType ==
  ASSUME TypeInv, NEW r \in Runs, Working(r), NextObject(r)
  PROVE  /\ pc' \in [Runs -> {"idle", "read", "fetch", "upload", "load", "commit",
                              "finish", "ended"}]
         /\ full' \in [Runs -> BOOLEAN]
         /\ key' \in [Runs -> 0 .. MaxClock]
         /\ pos' \in [Runs -> 1 .. 3]
         /\ after' \in [Runs -> 0 .. MaxClock]
         /\ batch' \in [Runs -> SUBSET Record]
         /\ dropped' \in [Runs -> [raw : SUBSET Row, quarantine : SUBSET Row]]
         /\ FiniteBatches'
         /\ RunsPlaced'
<1>1. Len(SfObjects) = 2
  BY DEF SfObjects
<1>2. MaxClock \in Nat
  BY CrmAssumption DEF CrmAssumption
<1>3. pos[r] \in 1 .. 2
  BY DEF TypeInv, RunsPlaced
<1>4. pos' \in [Runs -> 1 .. 3] /\ after' \in [Runs -> 0 .. MaxClock]
  BY <1>2, <1>3 DEF TypeInv, TypeOK, NextObject
<1>5. dropped' \in [Runs -> [raw : SUBSET Row, quarantine : SUBSET Row]]
  BY DEF TypeInv, TypeOK, NextObject, NoDrop
<1>6. FiniteBatches'
  BY FS_EmptySet DEF TypeInv, TypeOK, NextObject, FiniteBatches
<1>7. RunsPlaced'
  BY <1>1, <1>3 DEF TypeInv, TypeOK, NextObject, RunsPlaced, Working
<1>8. QED
  BY <1>4, <1>5, <1>6, <1>7 DEF TypeInv, TypeOK, NextObject

(* So does ending it. *)
LEMMA StopType ==
  ASSUME TypeInv, NEW r \in Runs, Active(r), Stop(r),
         status' \in [Runs -> {"none", "running", "completed", "failed"}],
         faults' \in 0 .. MaxFaults
  PROVE  TypeInv'
<1>1. FiniteBatches'
  BY FS_EmptySet DEF TypeInv, TypeOK, Stop, FiniteBatches
<1>2. RunsPlaced'
  BY DEF TypeInv, TypeOK, Stop, RunsPlaced, Working, Active
<1>3. after' \in [Runs -> 0 .. MaxClock] /\ full' \in [Runs -> BOOLEAN]
  BY CrmAssumption DEF TypeInv, TypeOK, Stop, CrmAssumption
<1>4. dropped' \in [Runs -> [raw : SUBSET Row, quarantine : SUBSET Row]]
  BY DEF TypeInv, TypeOK, Stop, NoDrop
<1>5. batch' \in [Runs -> SUBSET Record] /\ pos' \in [Runs -> 1 .. 3]
  BY DEF TypeInv, TypeOK, Stop
<1>6. pc' \in [Runs -> {"idle", "read", "fetch", "upload", "load", "commit",
                        "finish", "ended"}]
  BY DEF TypeInv, TypeOK, Stop
<1>7. QED
  BY <1>1, <1>2, <1>3, <1>4, <1>5, <1>6
  DEF TypeInv, TypeOK, Stop, tables, upstream


(* The org changes its records and the clock only. *)
LEMMA UpstreamType ==
  ASSUME TypeInv, Upstream
  PROVE  TypeInv'
<1>1. MaxClock \in Nat
  BY CrmAssumption DEF CrmAssumption
<1>2. CASE Tick
  <2>1. clock' \in 1 .. MaxClock
    BY <1>1, <1>2 DEF Tick, TypeInv, TypeOK
  <2>2. QED
    BY <1>2, <2>1 DEF Tick, TypeInv, TypeOK, FiniteBatches, RunsPlaced, Working, tables, locals
<1>3. ASSUME NEW o \in Objects, NEW i \in IdsOf[o], NEW kind \in Kinds, Write(o, i, kind)
      PROVE  TypeInv'
  <2>1. org' \in [Objects -> [Ids -> OrgRecord]]
    BY <1>1, <1>3 DEF Write, TypeInv, TypeOK, Ids, OrgRecord
  <2>2. QED
    BY <1>3, <2>1 DEF Write, TypeInv, TypeOK, FiniteBatches, RunsPlaced, Working, tables, locals
<1>4. ASSUME NEW o \in Objects, NEW i \in IdsOf[o], Correct(o, i), "ok" \in Kinds
      PROVE  TypeInv'
  <2>1. i \in Ids
    BY DEF Ids
  <2>2. org[o][i] \in [stamp : 1 .. MaxClock, kind : Kinds]
    BY <1>4, <2>1 DEF Correct, Present, TypeInv, TypeOK, OrgRecord
  <2>3. [org[o][i] EXCEPT !.kind = "ok"] \in OrgRecord
    BY <1>4, <2>2 DEF OrgRecord
  <2>4. org' \in [Objects -> [Ids -> OrgRecord]]
    BY <1>4, <2>1, <2>3 DEF Correct, TypeInv, TypeOK
  <2>5. QED
    BY <1>4, <2>4 DEF Correct, TypeInv, TypeOK, FiniteBatches, RunsPlaced, Working, tables, locals
<1>5. QED  BY <1>2, <1>3, <1>4, CrmAssumption DEF Upstream, CrmAssumption


(* The steps of a run before its transaction. *)
LEMMA ExtractType ==
  ASSUME TypeInv, NEW r \in Runs,
         \/ \E f \in BOOLEAN : Start(r, f)
         \/ ReadWatermark(r) \/ FetchNothing(r) \/ FetchRecords(r) \/ Upload(r)
  PROVE  TypeInv'
<1>1. MaxClock \in Nat
  BY CrmAssumption DEF CrmAssumption
<1>2. ASSUME NEW f \in BOOLEAN, Start(r, f)  PROVE TypeInv'
  <2>1. key' \in [Runs -> 0 .. MaxClock] /\ key'[r] # 0
    BY <1>1, <1>2 DEF Start, TypeInv, TypeOK
  <2>2. RunsPlaced'
    BY <1>2, <2>1 DEF Start, TypeInv, TypeOK, RunsPlaced, Working
  <2>3. QED
    BY <1>2, <2>1, <2>2 DEF Start, TypeInv, TypeOK, FiniteBatches, tables, upstream
<1>3. CASE ReadWatermark(r)
  <2>1. Obj(r) \in Objects
    BY <1>3, ObjType DEF ReadWatermark, Working
  <2>2. after' \in [Runs -> 0 .. MaxClock]
    BY <1>1, <1>3, <2>1 DEF ReadWatermark, TypeInv, TypeOK
  <2>3. QED
    BY <1>3, <2>2
    DEF ReadWatermark, TypeInv, TypeOK, FiniteBatches, RunsPlaced, Working, tables, upstream
<1>4. CASE FetchNothing(r)
  <2>1. closed' \in 0 .. MaxClock
    BY <1>1, <1>4 DEF FetchNothing, TypeInv, TypeOK
  <2>2. Working(r) /\ NextObject(r)
    BY <1>4 DEF FetchNothing, Working
  <2>3. QED
    BY <1>4, <2>1, <2>2, NextObjectType DEF FetchNothing, TypeInv, TypeOK, tables, upstream
<1>5. CASE FetchRecords(r)
  <2>1. closed' \in 0 .. MaxClock
    BY <1>1, <1>5 DEF FetchRecords, TypeInv, TypeOK
  <2>2. Obj(r) \in Objects /\ after[r] \in 0 .. MaxClock
    BY <1>5, ObjType DEF FetchRecords, Working, TypeInv, TypeOK
  <2>3. Served(Obj(r), after[r]) \in SUBSET Record /\ IsFiniteSet(Served(Obj(r), after[r]))
    BY <2>2, ServedType, ServedFinite DEF TypeInv
  <2>4. batch' \in [Runs -> SUBSET Record] /\ FiniteBatches'
    BY <1>5, <2>3 DEF FetchRecords, TypeInv, TypeOK, FiniteBatches
  <2>5. QED
    BY <1>5, <2>1, <2>4
    DEF FetchRecords, TypeInv, TypeOK, RunsPlaced, Working, tables, upstream
<1>6. CASE Upload(r)
  <2>1. Obj(r) \in Objects
    BY <1>6, ObjType DEF Upload, Working
  <2>2. Rows(Obj(r), key[r], batch[r]) \in SUBSET Row
    <3>1. key[r] \in 1 .. MaxClock /\ batch[r] \in SUBSET Record
      BY <1>1, <1>6 DEF Upload, TypeInv, TypeOK, RunsPlaced
    <3>2. QED  BY <2>1, <3>1, RowsType
  <2>3. lake' \subseteq Row
    BY <1>6, <2>2 DEF Upload, TypeInv, TypeOK
  <2>4. QED
    BY <1>6, <2>3
    DEF Upload, TypeInv, TypeOK, FiniteBatches, RunsPlaced, Working, tables, upstream, locals
<1>7. QED  BY <1>2, <1>3, <1>4, <1>5, <1>6

(* NextWatermark is 0 or the stamp of an accepted record, below every      *)
(* reject whose stamp is a date.                                           *)
LEMMA NextWatermarkSafe ==
  ASSUME NEW recs \in SUBSET Record, NEW current, NextWatermark(recs, current) # 0
  PROVE  /\ NextWatermark(recs, current) \in 1 .. MaxClock
         /\ \E b \in recs : b.stamp = NextWatermark(recs, current)
         /\ \A b \in recs : b.kind # "ok" =>
              /\ b.kind # "unstamped"
              /\ b.kind # "malformed" => NextWatermark(recs, current) < b.stamp
<1>1. MaxClock \in Nat
  BY CrmAssumption DEF CrmAssumption
<1>2. Safe(recs) # {} /\ ~(\E b \in Rejected(recs) : NoStamp(b))
  BY DEF NextWatermark
<1>3. Safe(recs) \in SUBSET (0 .. MaxClock)
  BY DEF Safe, Accepted, Record
<1>4. MaxOf(Safe(recs)) \in Safe(recs)
  BY <1>1, <1>2, <1>3, MaxOfMember
<1>5. NextWatermark(recs, current) = MaxOf(Safe(recs))
  BY DEF NextWatermark
<1>6. QED
  BY <1>2, <1>4, <1>5 DEF Safe, Accepted, Rejected, NoStamp, NoCeiling, Record

(* The transaction and the ways a run ends. *)
LEMMA LoadType ==
  ASSUME TypeInv, NEW r \in Runs,
         \/ Load(r) \/ Commit(r)
         \/ MissingId(r) \/ Finish(r) \/ Fail(r) \/ Kill(r)
  PROVE  TypeInv'
<1>1. CASE Load(r)
  <2>1. Superseded(r) \cup RowsOf(quarantine, Obj(r), key[r]) \subseteq Row
    BY DEF Superseded, RowsOf, TypeInv, TypeOK
  <2>2. Replaced(r) \subseteq Row
    BY DEF Replaced, RowsOf, TypeInv, TypeOK
  <2>3. dropped' \in [Runs -> [raw : SUBSET Row, quarantine : SUBSET Row]]
    BY <1>1, <2>1, <2>2 DEF Load, TypeInv, TypeOK
  <2>4. QED
    BY <1>1, <2>3
    DEF Load, TypeInv, TypeOK, FiniteBatches, RunsPlaced, Working, tables, upstream
<1>2. CASE Commit(r)
  <2>1. Working(r) /\ NextObject(r)
    BY <1>2 DEF Commit, Working
  <2>2. Obj(r) \in Objects /\ key[r] \in 1 .. MaxClock /\ batch[r] \in SUBSET Record
    BY <1>2, <2>1, ObjType DEF Commit, TypeInv, TypeOK, RunsPlaced
  <2>3. Accepted(batch[r]) \in SUBSET batch[r] /\ Rejected(batch[r]) \in SUBSET batch[r]
    BY DEF Accepted, Rejected
  <2>4. raw' \subseteq Row /\ quarantine' \subseteq Row
    BY <1>2, <2>2, <2>3, RowsType DEF Commit, TypeInv, TypeOK
  <2>5. /\ Cardinality(Accepted(batch[r])) \in Nat
        /\ Cardinality(Rejected(batch[r])) \in Nat
    BY <2>3, FS_Subset, FS_CardinalityType DEF TypeInv, FiniteBatches
  <2>6. audit' \subseteq [run : Runs, obj : Objects, key : 1 .. MaxClock,
                          loaded : Nat, rejected : Nat]
    BY <1>2, <2>2, <2>5 DEF Commit, AuditRow, TypeInv, TypeOK
  <2>7. watermark' \in [Objects -> 0 .. MaxClock]
    <3> DEFINE w == NextWatermark(batch[r], after[r])
    <3>1. w = 0 \/ w \in 1 .. MaxClock
      BY <2>2, NextWatermarkSafe
    <3>2. watermark' = IF w = 0 THEN watermark ELSE [watermark EXCEPT ![Obj(r)] = w]
      BY <1>2 DEF Commit, Advance
    <3>3. watermark \in [Objects -> 0 .. MaxClock] /\ MaxClock \in Nat
      BY CrmAssumption DEF CrmAssumption, TypeInv, TypeOK
    <3> HIDE DEF w
    <3>4. QED  BY <2>2, <3>1, <3>2, <3>3
  <2>8. QED
    BY <1>2, <2>1, <2>4, <2>6, <2>7, NextObjectType DEF Commit, TypeInv, TypeOK, upstream
<1>3. CASE MissingId(r)
  BY <1>3, StopType DEF MissingId, Active, TypeInv, TypeOK
<1>4. CASE Finish(r)
  BY <1>4, StopType DEF Finish, Active, TypeInv, TypeOK
<1>5. CASE Fail(r) \/ Kill(r)
  <2>1. faults' \in 0 .. MaxFaults
    BY <1>5, CrmAssumption DEF Fail, Kill, TypeInv, TypeOK, CrmAssumption
  <2>2. QED
    BY <1>5, <2>1, StopType DEF Fail, Kill, TypeInv, TypeOK
<1>6. QED  BY <1>1, <1>2, <1>3, <1>4, <1>5

LEMMA TypeStep ==
  ASSUME TypeInv, [Next]_vars
  PROVE  TypeInv'
<1>1. CASE Next
  BY <1>1, UpstreamType, ExtractType, LoadType DEF Next, Step
<1>2. CASE UNCHANGED vars
  BY <1>2 DEF vars, TypeInv, TypeOK, FiniteBatches, RunsPlaced, Working
<1>3. QED  BY <1>1, <1>2

LEMMA TypeInit ==
  ASSUME Init
  PROVE  TypeInv
BY CrmAssumption, FS_EmptySet
DEF Init, TypeInv, TypeOK, FiniteBatches, RunsPlaced, Working, CrmAssumption, OrgRecord, NoDrop

(* Every reachable state is well typed: no run is past SF_OBJECTS, no row   *)
(* carries a key or a stamp that was never handed out.                     *)
THEOREM TypeCorrect == Spec => []TypeOK
<1>1. Init => TypeInv
  BY TypeInit
<1>2. TypeInv /\ [Next]_vars => TypeInv'
  BY TypeStep
<1>3. TypeInv => TypeOK
  BY DEF TypeInv
<1>4. QED  BY <1>1, <1>2, <1>3, PTL DEF Spec


(***************************************************************************)
(* The watermark is safe.  The org must stamp what it writes after an      *)
(* extract with a later second, no two runs may start in one second, and   *)
(* every record has a SystemModstamp key whose value, unless it is null,   *)
(* is a date: TLC finds the watermark unsafe when any of the four fails.   *)
(***************************************************************************)
Assumptions ==
  ~LateWrites /\ ~SharedSeconds /\ {"nostamp", "malformed"} \cap Kinds = {}

(* Rows of raw stay, so a record of an unchanged org stays landed. *)
LEMMA StaysLanded ==
  ASSUME org' = org, raw \subseteq raw', NEW o, NEW i, Unlanded(o, i)'
  PROVE  Unlanded(o, i)
BY DEF Unlanded, Present, Landed

(* What a run carries survives the steps of the others. *)
LEMMA CarriedKept ==
  ASSUME TypeInv, ExtractInv, NEW q \in Runs,
         org' = org, raw \subseteq raw', closed' \in Nat, closed <= closed',
         pc'[q] = pc[q], pos'[q] = pos[q], after'[q] = after[q], batch'[q] = batch[q]
  PROVE  ReadSafe(q)' /\ BatchSafe(q)'
<1>1. Obj(q)' = Obj(q)
  BY DEF Obj
<1>2. closed \in Nat /\ after[q] \in Nat /\ batch[q] \in SUBSET Record
  BY CrmAssumption DEF TypeInv, TypeOK, CrmAssumption
<1>3. ReadSafe(q)'
  <2> SUFFICES ASSUME pc[q] = "fetch"
               PROVE  /\ after[q] <= closed'
                      /\ \A i \in Ids : Unlanded(Obj(q), i)' =>
                            org'[Obj(q)][i].stamp > after[q]
    BY <1>1 DEF ReadSafe
  <2>1. after[q] <= closed
    BY DEF ExtractInv, ReadSafe
  <2>2. \A i \in Ids : Unlanded(Obj(q), i) => org[Obj(q)][i].stamp > after[q]
    BY DEF ExtractInv, ReadSafe
  <2>3. after[q] <= closed'
    BY <1>2, <2>1
  <2>4. ASSUME NEW i \in Ids, Unlanded(Obj(q), i)'
        PROVE  org'[Obj(q)][i].stamp > after[q]
    <3>1. Unlanded(Obj(q), i)
      BY <1>1, <2>4, StaysLanded
    <3>2. QED  BY <2>2, <3>1
  <2>5. QED  BY <2>3, <2>4
<1>4. BatchSafe(q)'
  <2>1. ASSUME pc[q] \in {"upload", "load", "commit"}, NEW b \in batch[q]
        PROVE  b.stamp <= closed'
    BY <1>2, <2>1 DEF ExtractInv, BatchSafe, Record
  <2>2. ASSUME pc[q] \in {"upload", "load", "commit"}, NEW i \in Ids, Unlanded(Obj(q), i)'
        PROVE  Covered(batch[q], Obj(q), i)'
    BY <1>1, <2>2, StaysLanded DEF ExtractInv, BatchSafe, Covered
  <2>3. QED  BY <1>1, <2>1, <2>2 DEF BatchSafe
<1>5. QED  BY <1>3, <1>4

LEMMA UpstreamSafe ==
  ASSUME TypeInv, ExtractInv, Assumptions, Upstream
  PROVE  ExtractInv'
<1>1. MaxClock \in Nat /\ clock \in Nat /\ closed \in Nat
  BY CrmAssumption DEF CrmAssumption, TypeInv, TypeOK
<1>2. CASE Tick
  <2>1. SecondsClosed'
    BY <1>1, <1>2 DEF Tick, ExtractInv, SecondsClosed, TypeInv, TypeOK, OrgRecord, Absent, tables
  <2>2. QED
    BY <1>1, <1>2, <2>1, CarriedKept
    DEF Tick, ExtractInv, WatermarkSafe, Present, Landed, KeysDistinct, RawKeyed,
        DropsNothing, tables, locals
<1>3. ASSUME NEW o \in Objects, NEW i \in IdsOf[o], NEW kind \in Kinds, Write(o, i, kind)
      PROVE  ExtractInv'
  <2>1. i \in Ids
    BY DEF Ids
  <2>2. /\ closed < clock
        /\ org'[o][i] = [stamp |-> clock, kind |-> kind]
        /\ \A p \in Objects : \A j \in Ids : <<p, j>> # <<o, i>> => org'[p][j] = org[p][j]
    BY <1>1, <1>3, <2>1 DEF Assumptions, Write, ExtractInv, SecondsClosed, TypeInv, TypeOK
  <2>3. ASSUME NEW p \in Objects, NEW j \in Ids, Unlanded(p, j)'
        PROVE  \/ <<p, j>> = <<o, i>> /\ org'[p][j].stamp = clock
               \/ Unlanded(p, j) /\ org'[p][j] = org[p][j]
    BY <1>3, <2>2, <2>3 DEF Write, Unlanded, Present, Landed, tables
  <2>4. SecondsClosed'
    BY <1>1, <1>3, <2>2 DEF Write, ExtractInv, SecondsClosed, tables
  <2>5. WatermarkSafe'
    <3> SUFFICES ASSUME NEW p \in Objects, NEW j \in Ids, Unlanded(p, j)'
                 PROVE  org'[p][j].stamp > watermark[p]
      BY <1>3 DEF Write, WatermarkSafe, Unlanded, tables
    <3>1. CASE <<p, j>> = <<o, i>> /\ org'[p][j].stamp = clock
      BY <1>1, <2>2, <3>1 DEF ExtractInv, SecondsClosed, TypeInv, TypeOK
    <3>2. CASE Unlanded(p, j) /\ org'[p][j] = org[p][j]
      BY <3>2 DEF ExtractInv, WatermarkSafe, Unlanded
    <3>3. QED  BY <2>3, <3>1, <3>2
  <2>6. ASSUME NEW q \in Runs
        PROVE  ReadSafe(q)' /\ BatchSafe(q)'
    <3>1. /\ pc' = pc /\ after' = after /\ batch' = batch /\ closed' = closed
          /\ Obj(q)' = Obj(q)
      BY <1>3 DEF Write, locals, Obj
    <3>2. ReadSafe(q)'
      <4> SUFFICES ASSUME pc[q] = "fetch", NEW j \in Ids, Unlanded(Obj(q), j)'
                   PROVE  org'[Obj(q)][j].stamp > after[q]
        BY <3>1 DEF ReadSafe, ExtractInv
      <4>1. Obj(q) \in Objects /\ after[q] \in Nat /\ after[q] <= closed
        BY <1>1, ObjType DEF Working, ExtractInv, ReadSafe, TypeInv, TypeOK
      <4>2. QED
        BY <1>1, <2>2, <2>3, <3>1, <4>1 DEF ExtractInv, ReadSafe
    <3>3. BatchSafe(q)'
      <4> SUFFICES ASSUME pc[q] \in {"upload", "load", "commit"},
                          NEW j \in Ids, Unlanded(Obj(q), j)'
                   PROVE  Covered(batch[q], Obj(q), j)'
        BY <3>1 DEF BatchSafe, ExtractInv
      <4>1. Obj(q) \in Objects
        BY ObjType DEF Working
      <4>2. \A b \in batch[q] : b.stamp \in Nat /\ b.stamp <= closed
        BY DEF TypeInv, TypeOK, Record, ExtractInv, BatchSafe
      <4>3. CASE org'[Obj(q)][j].stamp = clock
        BY <1>1, <2>2, <3>1, <4>2, <4>3 DEF Covered
      <4>4. CASE Unlanded(Obj(q), j) /\ org'[Obj(q)][j] = org[Obj(q)][j]
        BY <3>1, <4>4 DEF Covered, ExtractInv, BatchSafe
      <4>5. QED  BY <2>3, <3>1, <4>1, <4>3, <4>4
    <3>4. QED  BY <3>2, <3>3
  <2>7. QED
    BY <1>3, <2>4, <2>5, <2>6
    DEF Write, ExtractInv, KeysDistinct, RawKeyed, DropsNothing, tables, locals
<1>4. ASSUME NEW o \in Objects, NEW i \in IdsOf[o], Correct(o, i)
      PROVE  ExtractInv'
  <2>1. i \in Ids
    BY DEF Ids
  <2>2. /\ \A p \in Objects : \A j \in Ids : org'[p][j].stamp = org[p][j].stamp
        /\ \A p \in Objects : \A j \in Ids : Present(p, j)' => Present(p, j)
    BY <1>4, <2>1 DEF Correct, Present, TypeInv, TypeOK, OrgRecord
  <2>3. \A p \in Objects : \A j \in Ids : Unlanded(p, j)' => Unlanded(p, j)
    BY <1>4, <2>2 DEF Correct, Unlanded, Landed, tables
  <2>4. SecondsClosed'
    BY <1>4, <2>2 DEF Correct, ExtractInv, SecondsClosed, tables
  <2>5. WatermarkSafe'
    BY <1>4, <2>2, <2>3 DEF Correct, ExtractInv, WatermarkSafe, Unlanded, tables
  <2>6. ASSUME NEW q \in Runs
        PROVE  ReadSafe(q)' /\ BatchSafe(q)'
    <3>1. /\ pc' = pc /\ after' = after /\ batch' = batch /\ closed' = closed
          /\ Obj(q)' = Obj(q)
      BY <1>4 DEF Correct, locals, Obj
    <3>2. Working(q) => Obj(q) \in Objects
      BY ObjType
    <3>3. ReadSafe(q)'
      BY <2>2, <2>3, <3>1, <3>2 DEF ExtractInv, ReadSafe, Working
    <3>4. BatchSafe(q)'
      BY <2>2, <2>3, <3>1, <3>2 DEF ExtractInv, BatchSafe, Covered, Working
    <3>5. QED  BY <3>3, <3>4
  <2>7. QED
    BY <1>4, <2>4, <2>5, <2>6
    DEF Correct, ExtractInv, KeysDistinct, RawKeyed, DropsNothing, tables, locals
<1>5. QED  BY <1>2, <1>3, <1>4 DEF Upstream


(* Steps that move no watermark and take nothing out of raw. *)
LEMMA WatermarkKept ==
  ASSUME TypeInv, ExtractInv, org' = org, raw' = raw, watermark' = watermark,
         clock' = clock, closed' \in {closed, clock}
  PROVE  /\ SecondsClosed' /\ WatermarkSafe'
         /\ closed' \in Nat /\ closed <= closed'
<1>1. clock \in Nat /\ closed \in Nat /\ closed <= clock
  BY CrmAssumption DEF CrmAssumption, TypeInv, TypeOK, ExtractInv, SecondsClosed
<1>2. \A o \in Objects : watermark[o] \in Nat /\ watermark[o] <= closed
  BY CrmAssumption DEF CrmAssumption, TypeInv, TypeOK, ExtractInv, SecondsClosed
<1>3. SecondsClosed'
  BY <1>1, <1>2 DEF ExtractInv, SecondsClosed
<1>4. WatermarkSafe'
  BY DEF ExtractInv, WatermarkSafe, Present, Landed
<1>5. QED  BY <1>1, <1>3, <1>4

(* A run that ends carries nothing any more. *)
LEMMA StopSafe ==
  ASSUME TypeInv, ExtractInv, NEW r \in Runs, Active(r), Stop(r)
  PROVE  ExtractInv'
<1>1. SecondsClosed' /\ WatermarkSafe'
  BY WatermarkKept DEF Stop, upstream, tables
<1>2. KeysDistinct' /\ RawKeyed' /\ DropsNothing'
  BY DEF Stop, tables, ExtractInv, KeysDistinct, RawKeyed, DropsNothing, TypeInv, TypeOK
<1>3. ASSUME NEW q \in Runs  PROVE ReadSafe(q)' /\ BatchSafe(q)'
  <2>1. CASE q = r
    BY <2>1 DEF Stop, ReadSafe, BatchSafe, TypeInv, TypeOK
  <2>2. CASE q # r
    BY <2>2, CarriedKept, WatermarkKept DEF Stop, upstream, tables, TypeInv, TypeOK
  <2>3. QED  BY <2>1, <2>2
<1>4. QED  BY <1>1, <1>2, <1>3 DEF ExtractInv

(* The other runs, when run r takes a step. *)
Others(r) == \A q \in Runs \ {r} : ReadSafe(q)' /\ BatchSafe(q)'

LEMMA StartSafe ==
  ASSUME TypeInv, ExtractInv, Assumptions, NEW r \in Runs, NEW f \in BOOLEAN, Start(r, f)
  PROVE  ExtractInv'
<1>1. SecondsClosed' /\ WatermarkSafe'
  BY WatermarkKept DEF Start, upstream, tables
<1>2. KeysDistinct'
  BY DEF Start, Assumptions, ExtractInv, KeysDistinct, TypeInv, TypeOK
<1>3. RawKeyed'
  BY DEF Start, tables, ExtractInv, RawKeyed, TypeInv, TypeOK
<1>4. DropsNothing'
  BY DEF Start, ExtractInv, DropsNothing, TypeInv, TypeOK
<1>5. Others(r)
  BY CarriedKept, WatermarkKept DEF Others, Start, upstream, tables, TypeInv, TypeOK
<1>6. ReadSafe(r)' /\ BatchSafe(r)'
  BY DEF Start, ReadSafe, BatchSafe, TypeInv, TypeOK
<1>7. QED  BY <1>1, <1>2, <1>3, <1>4, <1>5, <1>6 DEF ExtractInv, Others

LEMMA ReadWatermarkSafe ==
  ASSUME TypeInv, ExtractInv, NEW r \in Runs, ReadWatermark(r)
  PROVE  ExtractInv'
<1>1. SecondsClosed' /\ WatermarkSafe'
  BY WatermarkKept DEF ReadWatermark, upstream, tables
<1>2. KeysDistinct' /\ RawKeyed' /\ DropsNothing'
  BY DEF ReadWatermark, tables, ExtractInv, KeysDistinct, RawKeyed, DropsNothing, TypeInv, TypeOK
<1>3. Others(r)
  BY CarriedKept, WatermarkKept DEF Others, ReadWatermark, upstream, tables, TypeInv, TypeOK
<1>4. ReadSafe(r)'
  <2>1. Obj(r) \in Objects /\ Obj(r)' = Obj(r)
    BY ObjType DEF ReadWatermark, Working, Obj
  <2>2. after'[r] = IF full[r] THEN 0 ELSE watermark[Obj(r)]
    BY DEF ReadWatermark, TypeInv, TypeOK
  <2>3. closed \in Nat /\ watermark[Obj(r)] <= closed
    BY <2>1, CrmAssumption DEF CrmAssumption, TypeInv, TypeOK, ExtractInv, SecondsClosed
  <2>4. after'[r] <= closed'
    BY <2>2, <2>3 DEF ReadWatermark
  <2>5. ASSUME NEW i \in Ids, Unlanded(Obj(r), i)'
        PROVE  org'[Obj(r)][i].stamp > after'[r]
    <3>1. Unlanded(Obj(r), i) /\ org' = org
      BY <2>1, <2>5, StaysLanded DEF ReadWatermark, upstream, tables
    <3>2. org[Obj(r)][i].stamp > watermark[Obj(r)]
      BY <2>1, <3>1 DEF ExtractInv, WatermarkSafe, Unlanded
    <3>3. org[Obj(r)][i].stamp > 0
      BY <2>1, <3>1, CrmAssumption
      DEF Unlanded, Present, TypeInv, TypeOK, OrgRecord, CrmAssumption
    <3>4. QED  BY <2>2, <3>1, <3>2, <3>3
  <2>6. QED  BY <2>1, <2>4, <2>5 DEF ReadSafe
<1>5. BatchSafe(r)'
  BY DEF ReadWatermark, BatchSafe, TypeInv, TypeOK
<1>6. QED  BY <1>1, <1>2, <1>3, <1>4, <1>5 DEF ExtractInv, Others

LEMMA FetchNothingSafe ==
  ASSUME TypeInv, ExtractInv, NEW r \in Runs, FetchNothing(r)
  PROVE  ExtractInv'
<1>1. SecondsClosed' /\ WatermarkSafe'
  BY WatermarkKept DEF FetchNothing, upstream, tables
<1>2. pos[r] \in 1 .. 2 /\ pos' = [pos EXCEPT ![r] = @ + 1] /\ key' = key /\ raw' = raw
  BY DEF FetchNothing, NextObject, Working, TypeInv, RunsPlaced, tables
<1>3. /\ pc'[r] \in {"read", "finish"}
      /\ \A q \in Runs \ {r} : /\ pc'[q] = pc[q] /\ pos'[q] = pos[q]
                               /\ after'[q] = after[q] /\ batch'[q] = batch[q]
                               /\ dropped'[q] = dropped[q]
  BY DEF FetchNothing, NextObject, TypeInv, TypeOK
<1>4. KeysDistinct' /\ DropsNothing'
  BY <1>2, <1>3 DEF ExtractInv, KeysDistinct, DropsNothing
<1>5. RawKeyed'
  <2>1. \A q \in Runs : (pc[q] # "idle" => pc'[q] # "idle") /\ pos'[q] >= pos[q]
    BY <1>2, <1>3 DEF TypeInv, TypeOK
  <2>2. \A w \in raw : SfIndex(w.obj) \in Nat
    BY DEF SfIndex
  <2>3. QED
    BY <1>2, <2>1, <2>2 DEF ExtractInv, RawKeyed, TypeInv, TypeOK
<1>6. Others(r)
  BY <1>3, CarriedKept, WatermarkKept DEF Others, FetchNothing, upstream, tables
<1>7. ReadSafe(r)' /\ BatchSafe(r)'
  BY <1>3 DEF ReadSafe, BatchSafe
<1>8. QED  BY <1>1, <1>4, <1>5, <1>6, <1>7 DEF ExtractInv, Others


(* What is not served was already landed: the extract misses nothing. *)
LEMMA FetchRecordsSafe ==
  ASSUME TypeInv, ExtractInv, Assumptions, NEW r \in Runs, FetchRecords(r)
  PROVE  ExtractInv'
<1>1. SecondsClosed' /\ WatermarkSafe'
  BY WatermarkKept DEF FetchRecords, upstream, tables
<1>2. KeysDistinct' /\ RawKeyed' /\ DropsNothing'
  BY DEF FetchRecords, tables, ExtractInv, KeysDistinct, RawKeyed, DropsNothing, TypeInv, TypeOK
<1>3. Others(r)
  BY CarriedKept, WatermarkKept DEF Others, FetchRecords, upstream, tables, TypeInv, TypeOK
<1>4. ReadSafe(r)'
  BY DEF FetchRecords, ReadSafe, TypeInv, TypeOK
<1>5. BatchSafe(r)'
  <2>1. Obj(r) \in Objects /\ Obj(r)' = Obj(r)
    BY ObjType DEF FetchRecords, Working, Obj
  <2>2. batch'[r] = Served(Obj(r), after[r]) /\ closed' = clock /\ org' = org
    BY DEF FetchRecords, upstream, TypeInv, TypeOK
  <2>3. \A b \in batch'[r] : b.stamp <= closed'
    BY <2>1, <2>2 DEF Served, ExtractInv, SecondsClosed
  <2>4. ASSUME NEW i \in Ids, Unlanded(Obj(r), i)'
        PROVE  Covered(batch[r], Obj(r), i)'
    <3>1. Unlanded(Obj(r), i)
      BY <2>1, <2>4, StaysLanded DEF FetchRecords, upstream, tables
    <3>2. org[Obj(r)][i].stamp > after[r]
      BY <3>1 DEF FetchRecords, ExtractInv, ReadSafe
    <3>3. org[Obj(r)][i].kind \in Kinds
      BY <2>1, <3>1 DEF Unlanded, Present, TypeInv, TypeOK, OrgRecord
    <3>4. Serves(org[Obj(r)][i], after[r])
      BY <3>2, <3>3, CrmAssumption DEF Serves, Assumptions, CrmAssumption, AllKinds
    <3>5. [id |-> i, stamp |-> org[Obj(r)][i].stamp, kind |-> org[Obj(r)][i].kind]
            \in batch'[r]
      BY <2>2, <3>4 DEF Served
    <3>6. QED  BY <2>1, <2>2, <3>5 DEF Covered
  <2>5. QED  BY <2>1, <2>3, <2>4 DEF BatchSafe
<1>6. QED  BY <1>1, <1>2, <1>3, <1>4, <1>5 DEF ExtractInv, Others

LEMMA UploadSafe ==
  ASSUME TypeInv, ExtractInv, NEW r \in Runs, Upload(r)
  PROVE  ExtractInv'
<1>1. SecondsClosed' /\ WatermarkSafe'
  BY WatermarkKept DEF Upload, upstream, tables
<1>2. KeysDistinct' /\ RawKeyed' /\ DropsNothing'
  BY DEF Upload, tables, locals, ExtractInv, KeysDistinct, RawKeyed, DropsNothing, TypeInv, TypeOK
<1>3. Others(r)
  BY CarriedKept, WatermarkKept DEF Others, Upload, upstream, tables, locals, TypeInv, TypeOK
<1>4. ReadSafe(r)' /\ BatchSafe(r)'
  BY DEF Upload, upstream, tables, locals, ExtractInv, ReadSafe, BatchSafe, Covered,
         Unlanded, Present, Landed, Obj, TypeInv, TypeOK
<1>5. QED  BY <1>1, <1>2, <1>3, <1>4 DEF ExtractInv, Others

(* The DELETE by source_file finds no row: the key is the run's own. *)
LEMMA LoadSafe ==
  ASSUME TypeInv, ExtractInv, NEW r \in Runs, Load(r)
  PROVE  ExtractInv'
<1>1. SecondsClosed' /\ WatermarkSafe'
  BY WatermarkKept DEF Load, upstream, tables
<1>2. KeysDistinct' /\ RawKeyed'
  BY DEF Load, tables, ExtractInv, KeysDistinct, RawKeyed, TypeInv, TypeOK
<1>3. Others(r)
  BY CarriedKept, WatermarkKept DEF Others, Load, upstream, tables, TypeInv, TypeOK
<1>4. ReadSafe(r)' /\ BatchSafe(r)'
  BY DEF Load, upstream, tables, ExtractInv, ReadSafe, BatchSafe, Covered,
         Unlanded, Present, Landed, Obj, TypeInv, TypeOK
<1>5. Replaced(r) = {}
  <2> SUFFICES ASSUME NEW w \in raw, w.obj = Obj(r), w.key = key[r]  PROVE FALSE
    BY DEF Replaced, RowsOf
  <2>1. pos[r] \in 1 .. 2 /\ key[r] # 0
    BY DEF Load, TypeInv, RunsPlaced, Working
  <2>2. PICK q \in Runs : key[q] = w.key /\ SfIndex(w.obj) < pos[q]
    BY DEF ExtractInv, RawKeyed
  <2>3. q = r
    BY <2>1, <2>2 DEF ExtractInv, KeysDistinct
  <2>4. SfIndex(Obj(r)) = pos[r]
    BY <2>1 DEF SfIndex, Obj, SfObjects
  <2>5. QED  BY <2>1, <2>2, <2>3, <2>4
<1>6. DropsNothing'
  BY <1>5 DEF Load, ExtractInv, DropsNothing, TypeInv, TypeOK
<1>7. QED  BY <1>1, <1>2, <1>3, <1>4, <1>6 DEF ExtractInv, Others

(* The claim: what next_watermark allows is below every record that is     *)
(* neither in raw nor accepted by this very commit.                        *)
LEMMA CommitSafe ==
  ASSUME TypeInv, ExtractInv, Assumptions, NEW r \in Runs, Commit(r)
  PROVE  ExtractInv'
<1> DEFINE w == NextWatermark(batch[r], after[r])
           new == Rows(Obj(r), key[r], Accepted(batch[r]))
<1>1. /\ Obj(r) \in Objects /\ pos[r] \in 1 .. 2 /\ batch[r] \in SUBSET Record
      /\ SfIndex(Obj(r)) = pos[r]
  BY ObjType DEF Commit, Working, TypeInv, TypeOK, RunsPlaced, SfIndex, Obj, SfObjects
<1>2. raw' = raw \cup new /\ org' = org /\ clock' = clock /\ closed' = closed
  BY DEF Commit, upstream, ExtractInv, DropsNothing
<1>3. /\ key' = key /\ pos' = [pos EXCEPT ![r] = @ + 1]
      /\ pc'[r] \in {"read", "finish"}
      /\ \A q \in Runs \ {r} : /\ pc'[q] = pc[q] /\ pos'[q] = pos[q]
                               /\ after'[q] = after[q] /\ batch'[q] = batch[q]
                               /\ dropped'[q] = dropped[q]
  BY DEF Commit, NextObject, TypeInv, TypeOK
<1>4. /\ w = 0 => watermark' = watermark
      /\ w # 0 => watermark' = [watermark EXCEPT ![Obj(r)] = w]
  BY DEF Commit, Advance
<1>5. ASSUME w # 0
      PROVE  /\ w \in Nat /\ w <= closed
             /\ \A b \in batch[r] : b.kind # "ok" => b.kind # "unstamped" /\ w < b.stamp
             /\ \E b \in batch[r] : b.stamp = w
  <2>1. \A b \in batch[r] : b.kind # "malformed"
    BY <1>1 DEF Assumptions, Record
  <2>2. QED
    BY <1>1, <1>5, <2>1, NextWatermarkSafe, CrmAssumption
    DEF Commit, ExtractInv, BatchSafe, CrmAssumption
<1>6. ASSUME w # 0, NEW o \in Objects, o = Obj(r), NEW i \in Ids, Unlanded(o, i)'
      PROVE  org[o][i].stamp > w
  <2>1. Unlanded(o, i)
    BY <1>2, <1>6, StaysLanded
  <2>2. Covered(batch[r], o, i)
    BY <1>6, <2>1 DEF Commit, ExtractInv, BatchSafe
  <2>3. CASE \A b \in batch[r] : b.stamp < org[o][i].stamp
    BY <1>5, <1>6, <2>3
  <2>4. ASSUME NEW b \in batch[r], b.id = i, b.stamp = org[o][i].stamp
        PROVE  org[o][i].stamp > w
    <3>1. CASE b.kind = "ok"
      <4>1. [obj |-> o, key |-> key[r], rec |-> b] \in raw'
        BY <1>2, <1>6, <3>1 DEF Rows, Accepted
      <4>2. org'[o][i] = org[o][i]
        BY <1>2
      <4>3. \E v \in raw' : /\ v.obj = o /\ v.rec.id = i
                            /\ v.rec.stamp = org'[o][i].stamp
        BY <2>4, <4>1, <4>2
      <4>4. ~(\E v \in raw' : /\ v.obj = o /\ v.rec.id = i
                              /\ v.rec.stamp = org'[o][i].stamp)
        BY <1>6 DEF Unlanded, Landed
      <4>5. QED  BY <4>3, <4>4
    <3>2. CASE b.kind # "ok"
      <4>1. w < b.stamp
        BY <1>5, <1>6, <3>2
      <4>2. b.stamp \in Nat
        BY <1>1, CrmAssumption DEF Record, CrmAssumption
      <4>3. QED  BY <1>5, <1>6, <2>4, <4>1, <4>2
    <3>3. QED  BY <3>1, <3>2
  <2>5. QED  BY <2>2, <2>3, <2>4 DEF Covered
<1> HIDE DEF w
<1>7. SecondsClosed'
  BY <1>1, <1>2, <1>4, <1>5 DEF ExtractInv, SecondsClosed, TypeInv, TypeOK
<1>8. WatermarkSafe'
  <2> SUFFICES ASSUME NEW o \in Objects, NEW i \in Ids, Unlanded(o, i)'
               PROVE  org'[o][i].stamp > watermark'[o]
    BY DEF WatermarkSafe, Unlanded
  <2>1. Unlanded(o, i)
    BY <1>2, StaysLanded
  <2>2. CASE w = 0 \/ o # Obj(r)
    <3>1. watermark'[o] = watermark[o]
      BY <1>1, <1>4, <2>2 DEF TypeInv, TypeOK
    <3>2. QED  BY <1>2, <2>1, <3>1 DEF ExtractInv, WatermarkSafe, Unlanded
  <2>3. CASE w # 0 /\ o = Obj(r)
    <3>1. watermark'[o] = w
      BY <1>1, <1>4, <2>3 DEF TypeInv, TypeOK
    <3>2. QED  BY <1>2, <1>6, <2>3, <3>1
  <2>4. QED  BY <2>2, <2>3
<1>9. Others(r)
  <2>1. closed \in Nat
    BY CrmAssumption DEF CrmAssumption, TypeInv, TypeOK
  <2>2. QED  BY <1>2, <1>3, <2>1, CarriedKept DEF Others
<1>10. ReadSafe(r)' /\ BatchSafe(r)'
  BY <1>3 DEF ReadSafe, BatchSafe
<1>11. KeysDistinct' /\ DropsNothing'
  BY <1>3 DEF ExtractInv, KeysDistinct, DropsNothing
<1>12. RawKeyed'
  <2>1. \A q \in Runs : (pc[q] # "idle" => pc'[q] # "idle") /\ pos'[q] >= pos[q]
    BY <1>1, <1>3 DEF TypeInv, TypeOK
  <2>2. \A v \in raw : \E q \in Runs :
          key'[q] = v.key /\ pc'[q] # "idle" /\ SfIndex(v.obj) < pos'[q]
    BY <1>3, <2>1 DEF ExtractInv, RawKeyed, TypeInv, TypeOK, SfIndex
  <2>3. pc'[r] # "idle" /\ pos'[r] = pos[r] + 1
    BY <1>3 DEF TypeInv, TypeOK
  <2>4. \A v \in new : key'[r] = v.key /\ SfIndex(v.obj) < pos'[r]
    BY <1>1, <1>3, <2>3 DEF Rows
  <2>5. QED  BY <1>2, <2>2, <2>3, <2>4 DEF RawKeyed
<1>13. QED
  BY <1>7, <1>8, <1>9, <1>10, <1>11, <1>12 DEF ExtractInv, Others

LEMMA ExtractStep ==
  ASSUME TypeInv, ExtractInv, Assumptions, [Next]_vars
  PROVE  ExtractInv'
<1>1. CASE Upstream
  BY <1>1, UpstreamSafe
<1>2. ASSUME NEW r \in Runs, NEW f \in BOOLEAN, Start(r, f)  PROVE ExtractInv'
  BY <1>2, StartSafe
<1>3. ASSUME NEW r \in Runs, Step(r)  PROVE ExtractInv'
  <2>1. CASE MissingId(r) \/ Finish(r)
    BY <2>1, StopSafe DEF MissingId, Finish, Active
  <2>2. QED
    BY <1>3, <2>1, ReadWatermarkSafe, FetchNothingSafe, FetchRecordsSafe, UploadSafe,
       LoadSafe, CommitSafe DEF Step
<1>4. ASSUME NEW r \in Runs, Fail(r) \/ Kill(r)  PROVE ExtractInv'
  BY <1>4, StopSafe DEF Fail, Kill
<1>5. CASE UNCHANGED vars
  BY <1>5
  DEF vars, ExtractInv, SecondsClosed, WatermarkSafe, KeysDistinct, RawKeyed, DropsNothing,
      ReadSafe, BatchSafe, Covered, Unlanded, Present, Landed, Obj
<1>6. QED  BY <1>1, <1>2, <1>3, <1>4, <1>5 DEF Next

LEMMA ExtractInit ==
  ASSUME Init
  PROVE  ExtractInv
BY CrmAssumption
DEF Init, ExtractInv, SecondsClosed, WatermarkSafe, KeysDistinct, RawKeyed, DropsNothing,
    ReadSafe, BatchSafe, Present, Absent, CrmAssumption

(* The invariant behind the watermark: nothing a fetch has looked at can    *)
(* still be stamped, and the watermark a run has read, then its extract,    *)
(* stay good for an org and a warehouse that change until it commits.       *)
THEOREM ExtractInvariant ==
  ASSUME Assumptions
  PROVE  Spec => []ExtractInv
<1>1. Init => TypeInv /\ ExtractInv
  BY TypeInit, ExtractInit
<1>2. TypeInv /\ ExtractInv /\ [Next]_vars => (TypeInv /\ ExtractInv)'
  BY TypeStep, ExtractStep
<1>3. QED  BY <1>1, <1>2, PTL DEF Spec

(* next_watermark never loses a correction: whatever runs overlap, fail or *)
(* are killed, an upstream record that is not in raw is stamped after the  *)
(* watermark, so the next extract will carry it.                           *)
THEOREM WatermarkIsSafe ==
  ASSUME Assumptions
  PROVE  Spec => []WatermarkSafe
<1>1. ExtractInv => WatermarkSafe
  BY DEF ExtractInv
<1>2. QED  BY <1>1, ExtractInvariant, PTL

(***************************************************************************)
(* The tables and the lake.  All of it rests on one fact: no two runs      *)
(* start in one second, so a run finds nothing under its own key.          *)
(***************************************************************************)

(* A row, or an audit row, names a run that is past the object. *)
Keyed(w) == \E q \in Runs : key[q] = w.key /\ pc[q] # "idle" /\ SfIndex(w.obj) < pos[q]

KeysInv ==
  /\ KeysDistinct /\ DropsNothing
  /\ \A w \in raw \cup quarantine \cup audit : Keyed(w)

(* What a run is about to load is in the lake. *)
LakeInv ==
  /\ LakeBacksWarehouse
  /\ \A r \in Runs : pc[r] \in {"load", "commit"} => Rows(Obj(r), key[r], batch[r]) \subseteq lake

AuditInv == AuditAccountsForRows /\ IsFiniteSet(quarantine)

(* With runs in turn: one is active, its key is the latest, its extract has *)
(* a record once, and its DELETEs saw the quarantine it commits to.         *)
OneActive == \A q, r \in Runs : Active(q) /\ Active(r) => q = r
LatestKey ==
  /\ \A q \in Runs : key[q] <= clock
  /\ \A w \in raw : w.key <= clock
  /\ \A r \in Runs : Active(r) => \A w \in raw : w.key <= key[r]
SingleRecords == \A r \in Runs : \A b, c \in batch[r] : b.id = c.id => b = c
DropsSuperseded ==
  \A r \in Runs : pc[r] = "commit" => Superseded(r) \subseteq dropped[r].quarantine
DropsOwn == \A r \in Runs : pc[r] = "commit" => Replaced(r) \subseteq dropped[r].raw

QuarantineInv == OneActive /\ SingleRecords /\ DropsSuperseded /\ QuarantineNotDuplicated

ClearedInv == LatestKey /\ DropsOwn /\ QuarantineCleared

(* And, without full_refresh, the watermark it has read is the current one. *)
ReadsCurrent ==
  \A r \in Runs :
    /\ ~full[r]
    /\ pc[r] \in {"fetch", "upload", "load", "commit"} => after[r] = watermark[Obj(r)]

(* The watermark a run has read stays safe until its commit. *)
AfterSafe ==
  \A r \in Runs :
    pc[r] \in {"fetch", "upload", "load", "commit"} =>
      /\ after[r] <= closed
      /\ \A i \in Ids : Unlanded(Obj(r), i) => org[Obj(r)][i].stamp > after[r]

RunStep(r) == (\E f \in BOOLEAN : Start(r, f)) \/ Step(r) \/ Fail(r) \/ Kill(r)

RunKept(q) ==
  /\ pc'[q] = pc[q] /\ full'[q] = full[q] /\ key'[q] = key[q] /\ pos'[q] = pos[q]
  /\ after'[q] = after[q] /\ batch'[q] = batch[q] /\ dropped'[q] = dropped[q]

(* A step is the org's, or one run's. *)
LEMMA WhoSteps ==
  ASSUME TypeInv, [Next]_vars
  PROVE  \/ \E r \in Runs : RunStep(r) /\ \A q \in Runs \ {r} : RunKept(q)
         \/ /\ \A q \in Runs : RunKept(q)
            /\ UNCHANGED <<watermark, raw, quarantine, audit, lake>>
            /\ Upstream \/ UNCHANGED vars
<1>1. CASE Upstream \/ UNCHANGED vars
  BY <1>1 DEF Upstream, Tick, Write, Correct, vars, tables, locals, RunKept
<1>2. ASSUME NEW r \in Runs, RunStep(r)  PROVE  \A q \in Runs \ {r} : RunKept(q)
  BY <1>2
  DEF TypeInv, TypeOK, RunStep, Step, Start, ReadWatermark, FetchNothing, FetchRecords, Upload,
      Load, MissingId, Commit, Finish, Fail, Kill, Stop, NextObject, locals, RunKept
<1>3. QED  BY <1>1, <1>2 DEF Next, RunStep

(* Where a run's own step takes it. *)
LEMMA OwnStep ==
  ASSUME TypeInv, NEW r \in Runs, RunStep(r)
  PROVE  /\ pc[r] # "idle" => key'[r] = key[r]
         /\ pc'[r] # "idle" /\ pos'[r] >= pos[r] /\ pos'[r] \in Nat /\ pos[r] \in Nat
         /\ Commit(r) \/ UNCHANGED <<watermark, raw, quarantine, audit>>
         /\ Upload(r) \/ lake' = lake
         /\ pc'[r] = "load" => Upload(r)
         /\ pc'[r] = "commit" => Load(r)
         /\ clock' = clock /\ org' = org
<1>1. MaxClock \in Nat /\ Len(SfObjects) = 2 /\ pos[r] \in Nat
  BY CrmAssumption DEF CrmAssumption, SfObjects, TypeInv, TypeOK
<1>2. ASSUME NEW f \in BOOLEAN, Start(r, f)
      PROVE  /\ pc[r] = "idle" /\ pc'[r] = "read" /\ pos' = pos /\ lake' = lake
             /\ UNCHANGED <<watermark, raw, quarantine, audit, clock, org>>
  BY <1>2 DEF Start, TypeInv, TypeOK, tables, upstream
<1>3. CASE ReadWatermark(r) \/ Upload(r) \/ Load(r) \/ FetchRecords(r)
  BY <1>1, <1>3
  DEF ReadWatermark, Upload, Load, FetchRecords, TypeInv, TypeOK, tables, upstream, locals
<1>4. CASE FetchNothing(r) \/ Commit(r)
  BY <1>1, <1>4 DEF FetchNothing, Commit, NextObject, TypeInv, TypeOK, tables, upstream
<1>5. CASE MissingId(r) \/ Finish(r) \/ Fail(r) \/ Kill(r)
  BY <1>1, <1>5 DEF MissingId, Finish, Fail, Kill, Stop, TypeInv, TypeOK, tables, upstream
<1>6. CASE \E f \in BOOLEAN : Start(r, f)
  BY <1>1, <1>2, <1>6
<1>7. QED  BY <1>3, <1>4, <1>5, <1>6 DEF RunStep, Step

LEMMA SfIndexIs ==
  /\ \A o : SfIndex(o) \in Nat
  /\ \A r \in Runs : pos[r] \in 1 .. 2 => SfIndex(Obj(r)) = pos[r]
BY DEF SfIndex, Obj, SfObjects

(* Under its own key a run finds nothing. *)
LEMMA FreshKey ==
  ASSUME TypeInv, KeysInv, NEW r \in Runs, Working(r),
         NEW w \in raw \cup quarantine \cup audit
  PROVE  ~(w.obj = Obj(r) /\ w.key = key[r])
<1> SUFFICES ASSUME w.obj = Obj(r), w.key = key[r]  PROVE  FALSE
  OBVIOUS
<1>1. pos[r] \in 1 .. 2 /\ key[r] # 0 /\ SfIndex(Obj(r)) = pos[r]
  BY SfIndexIs DEF TypeInv, RunsPlaced, Working
<1>2. PICK q \in Runs : key[q] = w.key /\ SfIndex(w.obj) < pos[q]
  BY DEF KeysInv, Keyed
<1>3. q = r
  BY <1>1, <1>2 DEF KeysInv, KeysDistinct
<1>4. QED  BY <1>1, <1>2, <1>3

(* What a commit makes of the tables. *)
LEMMA CommitWrites ==
  ASSUME TypeInv, KeysInv, NEW r \in Runs, Commit(r)
  PROVE  /\ raw' = raw \cup Rows(Obj(r), key[r], Accepted(batch[r]))
         /\ quarantine' = (quarantine \ dropped[r].quarantine)
                            \cup Rows(Obj(r), key[r], Rejected(batch[r]))
         /\ audit' = audit \cup {AuditRow(r)} /\ lake' = lake
         /\ Working(r) /\ pos'[r] = pos[r] + 1 /\ key' = key /\ pc'[r] # "idle"
         /\ pos[r] \in 1 .. 2 /\ SfIndex(Obj(r)) = pos[r] /\ Obj(r) \in Objects
         /\ key[r] \in 1 .. MaxClock /\ batch[r] \in SUBSET Record
<1>1. Working(r) /\ pos[r] \in 1 .. 2 /\ SfIndex(Obj(r)) = pos[r] /\ Obj(r) \in Objects
  BY SfIndexIs, ObjType DEF Commit, TypeInv, RunsPlaced, Working
<1>2. raw \ dropped[r].raw = raw
  BY DEF Commit, KeysInv, DropsNothing
<1>3. key[r] \in 1 .. MaxClock /\ batch[r] \in SUBSET Record
  BY CrmAssumption DEF CrmAssumption, Commit, TypeInv, TypeOK, RunsPlaced
<1>4. pos'[r] = pos[r] + 1 /\ pc'[r] # "idle"
  BY DEF Commit, NextObject, TypeInv, TypeOK
<1>5. QED  BY <1>1, <1>2, <1>3, <1>4 DEF Commit, NextObject

LEMMA KeysStep ==
  ASSUME TypeInv, KeysInv, ~SharedSeconds, [Next]_vars
  PROVE  KeysInv'
<1>1. CASE \E r \in Runs : RunStep(r) /\ \A q \in Runs \ {r} : RunKept(q)
  <2>1. PICK r \in Runs : RunStep(r) /\ \A q \in Runs \ {r} : RunKept(q)
    BY <1>1
  <2>2. /\ pc[r] # "idle" => key'[r] = key[r]
        /\ pc'[r] # "idle" /\ pos'[r] >= pos[r] /\ pos'[r] \in Nat /\ pos[r] \in Nat
        /\ Commit(r) \/ UNCHANGED <<raw, quarantine, audit>>
        /\ pc'[r] = "commit" => Load(r)
    BY <2>1, OwnStep
  <2>3. KeysDistinct'
    <3>1. ASSUME pc[r] = "idle"  PROVE  \A q \in Runs : key[q] # clock /\ key'[r] = clock
      BY <2>1, <3>1
      DEF RunStep, Step, Start, ReadWatermark, FetchNothing, FetchRecords, Upload, Load, MissingId,
          Commit, Finish, Fail, Kill, Active, TypeInv, TypeOK
    <3>2. QED  BY <2>1, <2>2, <3>1 DEF RunKept, KeysInv, KeysDistinct
  <2>4. DropsNothing'
    <3>1. Load(r) => dropped'[r].raw = {}
      <4> SUFFICES ASSUME Load(r)  PROVE  dropped'[r].raw = {}
        OBVIOUS
      <4>1. Replaced(r) = {}
        BY FreshKey DEF Load, Working, Replaced, RowsOf
      <4>2. dropped'[r].raw = Replaced(r)
        BY DEF Load, TypeInv, TypeOK
      <4>3. QED  BY <4>1, <4>2
    <3>2. QED  BY <2>1, <2>2, <3>1 DEF RunKept, KeysInv, DropsNothing
  <2>5. ASSUME NEW w, Keyed(w)  PROVE  Keyed(w)'
    <3>1. PICK q \in Runs : key[q] = w.key /\ pc[q] # "idle" /\ SfIndex(w.obj) < pos[q]
      BY <2>5 DEF Keyed
    <3>2. key'[q] = w.key /\ pc'[q] # "idle" /\ SfIndex(w.obj) < pos'[q]
      BY <2>1, <2>2, <3>1, SfIndexIs DEF RunKept
    <3>3. QED  BY <3>2 DEF Keyed
  <2>6. ASSUME NEW w \in raw' \cup quarantine' \cup audit'  PROVE  Keyed(w)'
    <3>1. CASE w \in raw \cup quarantine \cup audit
      BY <2>5, <3>1 DEF KeysInv
    <3>2. CASE w \notin raw \cup quarantine \cup audit
      <4>1. Commit(r)
        BY <2>2, <2>6, <3>2
      <4>2. w.obj = Obj(r) /\ w.key = key[r]
        BY <2>6, <3>2, <4>1, CommitWrites DEF Rows, AuditRow
      <4>3. key'[r] = w.key /\ pc'[r] # "idle" /\ SfIndex(w.obj) < pos'[r]
        BY <4>1, <4>2, CommitWrites
      <4>4. QED  BY <4>3 DEF Keyed
    <3>3. QED  BY <3>1, <3>2
  <2>7. QED  BY <2>3, <2>4, <2>6 DEF KeysInv
<1>2. CASE (\A q \in Runs : RunKept(q)) /\ UNCHANGED <<raw, quarantine, audit>>
  BY <1>2 DEF RunKept, KeysInv, KeysDistinct, DropsNothing, Keyed
<1>3. QED  BY <1>1, <1>2, WhoSteps

LEMMA TablesInit ==
  ASSUME Init
  PROVE  KeysInv /\ LakeInv /\ AuditInv
<1>1. KeysInv
  BY DEF Init, KeysInv, KeysDistinct, DropsNothing
<1>2. LakeInv
  BY DEF Init, LakeInv, LakeBacksWarehouse
<1>3. AuditInv
  BY FS_EmptySet DEF Init, AuditInv, AuditAccountsForRows
<1>4. QED  BY <1>1, <1>2, <1>3

(* replace_batch: with no two runs of one second, a run deletes nothing     *)
(* that another one loaded, and what it replaces of its own is nothing.     *)
THEOREM RawGrows ==
  ASSUME ~SharedSeconds
  PROVE  Spec => RawOnlyGrows
<1>1. TypeInv /\ KeysInv /\ [Next]_vars => [raw \subseteq raw']_vars
  <2> SUFFICES ASSUME TypeInv, KeysInv, [Next]_vars
               PROVE  raw \subseteq raw'
    OBVIOUS
  <2>1. ASSUME NEW r \in Runs, Commit(r)  PROVE raw \subseteq raw'
    BY <2>1, CommitWrites
  <2>2. QED
    BY <2>1, WhoSteps, OwnStep
<1>2. Init => TypeInv /\ KeysInv
  BY TypeInit, TablesInit
<1>3. TypeInv /\ KeysInv /\ [Next]_vars => (TypeInv /\ KeysInv)'
  BY TypeStep, KeysStep
<1>4. QED  BY <1>1, <1>2, <1>3, PTL DEF Spec, RawOnlyGrows

LEMMA LakeStep ==
  ASSUME TypeInv, KeysInv, LakeInv, [Next]_vars
  PROVE  LakeInv'
<1> DEFINE Batch(q) == Rows(Obj(q), key[q], batch[q])
<1>1. CASE \E r \in Runs : RunStep(r) /\ \A q \in Runs \ {r} : RunKept(q)
  <2>1. PICK r \in Runs : RunStep(r) /\ \A q \in Runs \ {r} : RunKept(q)
    BY <1>1
  <2>2. /\ Commit(r) \/ UNCHANGED <<raw, quarantine>>
        /\ Upload(r) \/ lake' = lake
        /\ pc'[r] = "load" => Upload(r)
        /\ pc'[r] = "commit" => Load(r)
    BY <2>1, OwnStep
  <2>3. ASSUME NEW q \in Runs \ {r}, pc'[q] \in {"load", "commit"}
        PROVE  Batch(q)' = Batch(q) /\ Batch(q) \subseteq lake /\ Working(q)
    BY <2>1, <2>3 DEF RunKept, Obj, LakeInv, Rows, Working
  <2>4. CASE Upload(r)
    <3>1. /\ Working(r) /\ UNCHANGED <<raw, quarantine, key, pos, batch>>
          /\ lake' = (lake \ RowsOf(lake, Obj(r), key[r])) \cup Batch(r)
      BY <2>4 DEF Upload, Working, tables, locals
    <3>2. raw \cup quarantine \subseteq lake'
      <4>1. raw \cup quarantine \subseteq lake
        BY DEF LakeInv, LakeBacksWarehouse
      <4>2. \A w \in raw \cup quarantine : w \notin RowsOf(lake, Obj(r), key[r])
        BY <3>1, FreshKey DEF RowsOf
      <4>3. QED  BY <3>1, <4>1, <4>2
    <3>3. ASSUME NEW q \in Runs \ {r}, pc'[q] \in {"load", "commit"}  PROVE  Batch(q)' \subseteq lake'
      <4>1. Batch(q)' = Batch(q) /\ Batch(q) \subseteq lake /\ Working(q)
        BY <2>3, <3>3
      <4>2. key[q] # key[r]
        BY <3>1, <4>1 DEF Working, TypeInv, RunsPlaced, KeysInv, KeysDistinct
      <4>3. \A w \in Batch(q) : w \notin RowsOf(lake, Obj(r), key[r])
        BY <4>2 DEF Rows, RowsOf
      <4>4. QED  BY <3>1, <4>1, <4>3
    <3>4. Batch(r)' \subseteq lake'
      BY <3>1 DEF Obj, Rows
    <3>5. QED  BY <3>1, <3>2, <3>3, <3>4 DEF LakeInv, LakeBacksWarehouse
  <2>5. CASE Commit(r)
    <3>1. Batch(r) \subseteq lake /\ raw \cup quarantine \subseteq lake
      BY <2>5 DEF Commit, LakeInv, LakeBacksWarehouse
    <3>2. \A recs : recs \subseteq batch[r] => Rows(Obj(r), key[r], recs) \subseteq Batch(r)
      BY DEF Rows
    <3>3. Accepted(batch[r]) \subseteq batch[r] /\ Rejected(batch[r]) \subseteq batch[r]
      BY DEF Accepted, Rejected
    <3>4. raw' \cup quarantine' \subseteq lake'
      BY <2>5, <3>1, <3>2, <3>3, CommitWrites
    <3>5. pc'[r] \notin {"load", "commit"} /\ lake' = lake
      BY <2>2, <2>5 DEF Commit, Upload, Load
    <3>6. QED  BY <2>3, <3>4, <3>5 DEF LakeInv, LakeBacksWarehouse
  <2>6. CASE ~Upload(r) /\ ~Commit(r)
    <3>1. UNCHANGED <<raw, quarantine, lake>>
      BY <2>2, <2>6
    <3>2. ASSUME pc'[r] \in {"load", "commit"}  PROVE  Batch(r)' \subseteq lake
      <4>1. Load(r)
        BY <2>2, <2>6, <3>2
      <4>2. UNCHANGED <<key, pos, batch>> /\ pc[r] = "load"
        BY <4>1 DEF Load
      <4>3. QED  BY <4>2 DEF LakeInv, Obj, Rows
    <3>3. QED  BY <2>3, <3>1, <3>2 DEF LakeInv, LakeBacksWarehouse
  <2>7. QED  BY <2>4, <2>5, <2>6
<1>2. CASE (\A q \in Runs : RunKept(q)) /\ UNCHANGED <<raw, quarantine, lake>>
  BY <1>2 DEF RunKept, LakeInv, LakeBacksWarehouse, Obj, Rows
<1>3. QED  BY <1>1, <1>2, WhoSteps

(* A row per record. *)
LEMMA RowsCount ==
  ASSUME NEW o, NEW k, NEW recs, IsFiniteSet(recs)
  PROVE  /\ IsFiniteSet(Rows(o, k, recs))
         /\ Cardinality(Rows(o, k, recs)) = Cardinality(recs)
<1> DEFINE f == [b \in recs |-> [obj |-> o, key |-> k, rec |-> b]]
<1>1. f \in Bijection(recs, Rows(o, k, recs))
  <2>1. f \in [recs -> Rows(o, k, recs)]
    BY DEF Rows
  <2>2. ASSUME NEW a \in recs, NEW b \in recs, f[a] = f[b]  PROVE  a = b
    <3>1. f[a].rec = a /\ f[b].rec = b
      OBVIOUS
    <3>2. QED  BY <2>2, <3>1
  <2>3. \A w \in Rows(o, k, recs) : \E b \in recs : f[b] = w
    BY DEF Rows
  <2>4. QED  BY <2>1, <2>2, <2>3 DEF Bijection, Injection, IsInjective, Surjection
<1>2. ExistsBijection(recs, Rows(o, k, recs))
  BY <1>1 DEF ExistsBijection
<1>3. QED  BY <1>2, FS_Bijection

LEMMA AuditStep ==
  ASSUME TypeInv, KeysInv, AuditInv, [Next]_vars
  PROVE  AuditInv'
<1>1. CASE UNCHANGED <<raw, quarantine, audit>>
  BY <1>1 DEF AuditInv, AuditAccountsForRows, RowsOf
<1>2. ASSUME NEW r \in Runs, Commit(r)  PROVE  AuditInv'
  <2> DEFINE accepted == Rows(Obj(r), key[r], Accepted(batch[r]))
             rejected == Rows(Obj(r), key[r], Rejected(batch[r]))
             a0 == AuditRow(r)
  <2>1. /\ raw' = raw \cup accepted
        /\ quarantine' = (quarantine \ dropped[r].quarantine) \cup rejected
        /\ audit' = audit \cup {a0} /\ Working(r)
    BY <1>2, CommitWrites
  <2>2. IsFiniteSet(Accepted(batch[r])) /\ IsFiniteSet(Rejected(batch[r]))
    <3>1. Accepted(batch[r]) \in SUBSET batch[r] /\ Rejected(batch[r]) \in SUBSET batch[r]
      BY DEF Accepted, Rejected
    <3>2. QED  BY <3>1, FS_Subset DEF TypeInv, FiniteBatches
  <2>3. /\ a0.obj = Obj(r) /\ a0.key = key[r]
        /\ a0.loaded = Cardinality(Accepted(batch[r]))
        /\ a0.rejected = Cardinality(Rejected(batch[r]))
    BY DEF AuditRow
  <2>4. /\ \A w \in accepted \cup rejected : w.obj = Obj(r) /\ w.key = key[r]
        /\ Cardinality(accepted) = a0.loaded
        /\ Cardinality(rejected) = a0.rejected /\ IsFiniteSet(rejected)
    <3>1. \A w \in accepted \cup rejected : w.obj = Obj(r) /\ w.key = key[r]
      BY DEF Rows
    <3>2. QED  BY <2>2, <2>3, <3>1, RowsCount
  <2> HIDE DEF accepted, rejected, a0
  <2>5. \A w \in raw \cup quarantine \cup audit : ~(w.obj = Obj(r) /\ w.key = key[r])
    BY <2>1, FreshKey
  <2>6. IsFiniteSet(quarantine')
    <3>1. IsFiniteSet(quarantine \ dropped[r].quarantine)
      BY FS_Difference DEF AuditInv
    <3>2. QED  BY <2>1, <2>4, <3>1, FS_Union
  <2>7. ASSUME NEW a \in audit'
        PROVE  /\ Cardinality(RowsOf(raw', a.obj, a.key)) = a.loaded
               /\ Cardinality(RowsOf(quarantine', a.obj, a.key)) <= a.rejected
    <3>1. CASE a = a0
      <4>1. RowsOf(raw', a.obj, a.key) = accepted
        BY <2>1, <2>3, <2>4, <2>5, <3>1 DEF RowsOf
      <4>2. RowsOf(quarantine', a.obj, a.key) = rejected
        BY <2>1, <2>3, <2>4, <2>5, <3>1 DEF RowsOf
      <4>3. Cardinality(rejected) \in Nat
        BY <2>4, FS_CardinalityType
      <4>4. QED  BY <2>4, <3>1, <4>1, <4>2, <4>3
    <3>2. CASE a \in audit
      <4>1. ~(a.obj = Obj(r) /\ a.key = key[r])
        BY <2>5, <3>2
      <4>2. RowsOf(raw', a.obj, a.key) = RowsOf(raw, a.obj, a.key)
        BY <2>1, <2>4, <4>1 DEF RowsOf
      <4>3. RowsOf(quarantine', a.obj, a.key) \in SUBSET RowsOf(quarantine, a.obj, a.key)
        BY <2>1, <2>4, <4>1 DEF RowsOf
      <4>4. RowsOf(quarantine, a.obj, a.key) \in SUBSET quarantine
        BY DEF RowsOf
      <4>5. /\ IsFiniteSet(RowsOf(quarantine, a.obj, a.key))
            /\ Cardinality(RowsOf(quarantine, a.obj, a.key)) \in Nat
        BY <4>4, FS_Subset, FS_CardinalityType DEF AuditInv
      <4>6. /\ Cardinality(RowsOf(quarantine', a.obj, a.key)) \in Nat
            /\ Cardinality(RowsOf(quarantine', a.obj, a.key))
                 <= Cardinality(RowsOf(quarantine, a.obj, a.key))
        BY <4>3, <4>5, FS_Subset, FS_CardinalityType
      <4>7. /\ Cardinality(RowsOf(raw, a.obj, a.key)) = a.loaded
            /\ Cardinality(RowsOf(quarantine, a.obj, a.key)) <= a.rejected
        BY <3>2 DEF AuditInv, AuditAccountsForRows
      <4>8. a.rejected \in Nat
        BY <3>2 DEF TypeInv, TypeOK
      <4>9. QED  BY <4>2, <4>5, <4>6, <4>7, <4>8
    <3>3. QED  BY <2>1, <3>1, <3>2
  <2>8. ASSUME NEW w \in raw' \cup quarantine'
        PROVE  \E a \in audit' : a.obj = w.obj /\ a.key = w.key
    <3>1. CASE w \in raw \cup quarantine
      BY <2>1, <3>1 DEF AuditInv, AuditAccountsForRows
    <3>2. CASE w \in accepted \cup rejected
      BY <2>1, <2>3, <2>4, <3>2
    <3>3. QED  BY <2>1, <3>1, <3>2
  <2>9. QED  BY <2>6, <2>7, <2>8 DEF AuditInv, AuditAccountsForRows
<1>3. QED  BY <1>1, <1>2, WhoSteps, OwnStep

(* Whatever is in raw or in quarantine can be found again in the lake       *)
(* object it names (ingest_salesforce uploads before it loads), whatever    *)
(* runs overlap, fail or are killed, if no two start in one second.         *)
THEOREM LakeBacks ==
  ASSUME ~SharedSeconds
  PROVE  Spec => []LakeBacksWarehouse
<1>1. Init => TypeInv /\ KeysInv /\ LakeInv
  BY TypeInit, TablesInit
<1>2. TypeInv /\ KeysInv /\ LakeInv /\ [Next]_vars => (TypeInv /\ KeysInv /\ LakeInv)'
  BY TypeStep, KeysStep, LakeStep
<1>3. LakeInv => LakeBacksWarehouse
  BY DEF LakeInv
<1>4. QED  BY <1>1, <1>2, <1>3, PTL DEF Spec

(* The audit row of an extract counts what raw holds of it, for good, and   *)
(* every row of raw and quarantine has one (audit_load is in the            *)
(* transaction of the rows), if no two runs start in one second.            *)
THEOREM AuditAccounts ==
  ASSUME ~SharedSeconds
  PROVE  Spec => []AuditAccountsForRows
<1>1. Init => TypeInv /\ KeysInv /\ AuditInv
  BY TypeInit, TablesInit
<1>2. TypeInv /\ KeysInv /\ AuditInv /\ [Next]_vars => (TypeInv /\ KeysInv /\ AuditInv)'
  BY TypeStep, KeysStep, AuditStep
<1>3. AuditInv => AuditAccountsForRows
  BY DEF AuditInv
<1>4. QED  BY <1>1, <1>2, <1>3, PTL DEF Spec

(***************************************************************************)
(* Runs in turn (MaxActive = 1), as a scheduler that never overlaps them   *)
(* starts them: what the quarantine and the watermark then promise.        *)
(***************************************************************************)
Serial == MaxActive = 1

(* While a run works, none of the others does. *)
LEMMA Alone ==
  ASSUME TypeInv, OneActive, Serial, NEW r \in Runs, RunStep(r)
  PROVE  \A q \in Runs \ {r} : ~Active(q) /\ RunKept(q)
<1>1. CASE \E f \in BOOLEAN : Start(r, f)
  <2> DEFINE A == {q \in Runs : Active(q)}
  <2>1. Cardinality(A) < 1
    BY <1>1 DEF Start, Serial
  <2>2. ASSUME NEW q \in A  PROVE  FALSE
    <3>1. A = {q}
      BY DEF OneActive
    <3>2. Cardinality(A) = 1
      BY <3>1, FS_Singleton
    <3>3. QED  BY <2>1, <3>2
  <2>3. QED  BY <1>1, <2>2 DEF TypeInv, TypeOK, Start, RunKept
<1>2. CASE Step(r) \/ Fail(r) \/ Kill(r)
  <2>1. Active(r)
    BY <1>2
    DEF Step, ReadWatermark, FetchNothing, FetchRecords, Upload, Load, MissingId, Commit, Finish,
        Fail, Kill, Active
  <2>2. \A q \in Runs \ {r} : RunKept(q)
    BY <1>2
    DEF TypeInv, TypeOK, Step, ReadWatermark, FetchNothing, FetchRecords, Upload,
        Load, MissingId, Commit, Finish, Fail, Kill, Stop, NextObject, locals, RunKept
  <2>3. QED  BY <2>1, <2>2 DEF OneActive
<1>3. QED  BY <1>1, <1>2 DEF RunStep

(* Nobody but the run that steps is active, before the step and after. *)
LEMMA OneActiveStep ==
  ASSUME TypeInv, OneActive, Serial, [Next]_vars
  PROVE  OneActive'
<1>1. ASSUME NEW r \in Runs, RunStep(r)  PROVE  OneActive'
  BY <1>1, Alone DEF OneActive, Active, RunKept
<1>2. CASE \A q \in Runs : RunKept(q)
  BY <1>2 DEF OneActive, Active, RunKept
<1>3. QED  BY <1>1, <1>2, WhoSteps

(* What a run's own step makes of its extract. *)
LEMMA BatchStep ==
  ASSUME TypeInv, NEW r \in Runs, RunStep(r)
  PROVE  batch'[r] \in {{}, batch[r], Served(Obj(r), after[r])}
BY DEF TypeInv, TypeOK, RunStep, Step, Start, ReadWatermark, FetchNothing, FetchRecords, Upload,
       Load, MissingId, Commit, Finish, Fail, Kill, Stop, NextObject, locals

LEMMA SingleStep ==
  ASSUME TypeInv, SingleRecords, [Next]_vars
  PROVE  SingleRecords'
<1>1. ASSUME NEW r \in Runs, RunStep(r), \A q \in Runs \ {r} : RunKept(q)
      PROVE  SingleRecords'
  <2>1. \A b, c \in Served(Obj(r), after[r]) : b.id = c.id => b = c
    BY DEF Served
  <2>2. \A b, c \in batch'[r] : b.id = c.id => b = c
    BY <1>1, <2>1, BatchStep DEF SingleRecords
  <2>3. QED  BY <1>1, <2>2 DEF SingleRecords, RunKept
<1>2. CASE \A q \in Runs : RunKept(q)
  BY <1>2 DEF SingleRecords, RunKept
<1>3. QED  BY <1>1, <1>2, WhoSteps

(* The DELETE of a run in turn sees what the run commits to. *)
LEMMA SupersededStep ==
  ASSUME TypeInv, OneActive, Serial, DropsSuperseded, [Next]_vars
  PROVE  DropsSuperseded'
<1>1. ASSUME NEW r \in Runs, RunStep(r)  PROVE  DropsSuperseded'
  <2>1. \A q \in Runs \ {r} : pc'[q] # "commit"
    BY <1>1, Alone DEF RunKept, Active
  <2>2. ASSUME pc'[r] = "commit"  PROVE  Superseded(r)' \subseteq dropped'[r].quarantine
    <3>1. Load(r)
      BY <1>1, <2>2, OwnStep
    <3>2. Superseded(r)' = Superseded(r)
      BY <3>1 DEF Load, tables, Superseded, Obj
    <3>3. dropped'[r].quarantine = Superseded(r) \cup RowsOf(quarantine, Obj(r), key[r])
      BY <3>1 DEF Load, TypeInv, TypeOK
    <3>4. QED  BY <3>2, <3>3
  <2>3. QED  BY <2>1, <2>2 DEF DropsSuperseded
<1>2. CASE (\A q \in Runs : RunKept(q)) /\ quarantine' = quarantine
  BY <1>2 DEF DropsSuperseded, RunKept, Superseded, Obj
<1>3. QED  BY <1>1, <1>2, WhoSteps

(* What a commit in turn leaves of the quarantine of the records it holds. *)
LEMMA CommitSupersedes ==
  ASSUME TypeInv, DropsSuperseded, "nullid" \notin Kinds, NEW r \in Runs, Commit(r),
         NEW q \in quarantine \ dropped[r].quarantine, NEW b \in batch[r], q.obj = Obj(r)
  PROVE  b.id # q.rec.id
<1>1. q \in Row /\ b \in Record
  BY DEF TypeInv, TypeOK
<1>2. q.rec.kind # "nullid" /\ b.kind # "nullid"
  BY <1>1 DEF Row, Record
<1>3. q \notin Superseded(r)
  BY DEF Commit, DropsSuperseded
<1>4. QED  BY <1>2, <1>3 DEF Superseded

LEMMA DuplicateStep ==
  ASSUME TypeInv, QuarantineInv, "nullid" \notin Kinds, [Next]_vars
  PROVE  QuarantineNotDuplicated'
<1>1. CASE quarantine' = quarantine
  BY <1>1 DEF QuarantineInv, QuarantineNotDuplicated
<1>2. ASSUME NEW r \in Runs, Commit(r)  PROVE  QuarantineNotDuplicated'
  <2> DEFINE old == quarantine \ dropped[r].quarantine
             new == Rows(Obj(r), key[r], Rejected(batch[r]))
  <2>1. quarantine' = old \cup new
    BY <1>2 DEF Commit
  <2>2. \A q1, q2 \in old : q1.obj = q2.obj /\ q1.rec.id = q2.rec.id => q1 = q2
    BY DEF QuarantineInv, QuarantineNotDuplicated
  <2>3. \A q1, q2 \in new : q1.rec.id = q2.rec.id => q1 = q2
    BY DEF QuarantineInv, SingleRecords, Rows, Rejected
  <2>4. ASSUME NEW q1 \in old, NEW q2 \in new
        PROVE  ~(q1.obj = q2.obj /\ q1.rec.id = q2.rec.id)
    <3>1. q2.obj = Obj(r) /\ q2.rec \in batch[r]
      BY DEF Rows, Rejected
    <3>2. QED  BY <1>2, <3>1, CommitSupersedes DEF QuarantineInv
  <2> HIDE DEF old, new
  <2>5. QED  BY <2>1, <2>2, <2>3, <2>4 DEF QuarantineNotDuplicated
<1>3. QED  BY <1>1, <1>2, WhoSteps, OwnStep

LEMMA QuarantineInit ==
  ASSUME Init
  PROVE  QuarantineInv
BY DEF Init, QuarantineInv, OneActive, Active, SingleRecords, DropsSuperseded,
       QuarantineNotDuplicated

LEMMA QuarantineStep ==
  ASSUME TypeInv, QuarantineInv, Serial, "nullid" \notin Kinds, [Next]_vars
  PROVE  QuarantineInv'
BY OneActiveStep, SingleStep, SupersededStep, DuplicateStep DEF QuarantineInv

(* supersede_quarantine: a standing reject is not duplicated, however many  *)
(* runs extract it, as long as runs do not overlap and no Id is null.       *)
THEOREM NotDuplicated ==
  ASSUME Serial, "nullid" \notin Kinds
  PROVE  Spec => []QuarantineNotDuplicated
<1>1. Init => TypeInv /\ QuarantineInv
  BY TypeInit, QuarantineInit
<1>2. TypeInv /\ QuarantineInv /\ [Next]_vars => (TypeInv /\ QuarantineInv)'
  BY TypeStep, QuarantineStep
<1>3. QuarantineInv => QuarantineNotDuplicated
  BY DEF QuarantineInv
<1>4. QED  BY <1>1, <1>2, <1>3, PTL DEF Spec

(* What raw holds was loaded under a key no later than the active run's. *)
LEMMA LatestStep ==
  ASSUME TypeInv, OneActive, LatestKey, Serial, [Next]_vars
  PROVE  LatestKey'
<1>1. clock \in Nat /\ (\A q \in Runs : key[q] \in Nat) /\ (\A w \in raw : w.key \in Nat)
  BY CrmAssumption DEF CrmAssumption, TypeInv, TypeOK, Row
<1>2. ASSUME NEW r \in Runs, RunStep(r)  PROVE  LatestKey'
  <2>1. \A q \in Runs \ {r} : ~Active(q)' /\ key'[q] = key[q]
    BY <1>2, Alone DEF RunKept, Active
  <2>2. clock' = clock
    BY <1>2, OwnStep
  <2>3. CASE \E f \in BOOLEAN : Start(r, f)
    <3>1. key'[r] = clock /\ raw' = raw
      BY <2>3 DEF Start, TypeInv, TypeOK, tables
    <3>2. QED  BY <1>1, <2>1, <2>2, <3>1 DEF LatestKey
  <2>4. CASE Step(r) \/ Fail(r) \/ Kill(r)
    <3>1. Active(r)
      BY <2>4
      DEF Step, ReadWatermark, FetchNothing, FetchRecords, Upload, Load, MissingId, Commit,
          Finish, Fail, Kill, Active
    <3>2. key'[r] = key[r]
      BY <1>2, <3>1, OwnStep DEF Active
    <3>3. \A w \in raw' : w \in raw \/ w.key = key[r]
      BY <1>2, OwnStep DEF Commit, Rows
    <3>4. \A w \in raw' : w.key <= key[r] /\ key[r] <= clock
      BY <1>1, <3>1, <3>3 DEF LatestKey
    <3>5. \A w \in raw' : w.key <= clock
      <4> TAKE w \in raw'
      <4>1. w.key \in Nat
        BY <1>1, <3>3
      <4>2. QED  BY <1>1, <3>4, <4>1
    <3>6. QED  BY <2>1, <2>2, <3>1, <3>2, <3>4, <3>5 DEF LatestKey
  <2>5. QED  BY <1>2, <2>3, <2>4 DEF RunStep
<1>3. CASE (\A q \in Runs : RunKept(q)) /\ raw' = raw /\ (Upstream \/ UNCHANGED vars)
  <2>1. clock' >= clock /\ clock' \in Nat
    BY <1>1, <1>3 DEF Upstream, Tick, Write, Correct, vars
  <2>2. QED  BY <1>1, <1>3, <2>1 DEF LatestKey, RunKept, Active
<1>4. QED  BY <1>2, <1>3, WhoSteps, Alone

(* The DELETE of a run in turn sees what raw holds under its key. *)
LEMMA OwnDropStep ==
  ASSUME TypeInv, OneActive, Serial, DropsOwn, [Next]_vars
  PROVE  DropsOwn'
<1>1. ASSUME NEW r \in Runs, RunStep(r)  PROVE  DropsOwn'
  <2>1. \A q \in Runs \ {r} : pc'[q] # "commit"
    BY <1>1, Alone DEF RunKept, Active
  <2>2. ASSUME pc'[r] = "commit"  PROVE  Replaced(r)' \subseteq dropped'[r].raw
    <3>1. Load(r)
      BY <1>1, <2>2, OwnStep
    <3>2. Replaced(r)' = Replaced(r)
      BY <3>1 DEF Load, tables, Replaced, RowsOf, Obj
    <3>3. dropped'[r].raw = Replaced(r)
      BY <3>1 DEF Load, TypeInv, TypeOK
    <3>4. QED  BY <3>2, <3>3
  <2>3. QED  BY <2>1, <2>2 DEF DropsOwn
<1>2. CASE (\A q \in Runs : RunKept(q)) /\ raw' = raw
  BY <1>2 DEF DropsOwn, RunKept, Replaced, RowsOf, Obj
<1>3. QED  BY <1>1, <1>2, WhoSteps

LEMMA ClearedStep ==
  ASSUME TypeInv, QuarantineInv, ClearedInv, Serial, "nullid" \notin Kinds, [Next]_vars
  PROVE  QuarantineCleared'
<1>1. CASE UNCHANGED <<raw, quarantine>>
  BY <1>1 DEF ClearedInv, QuarantineCleared
<1>2. ASSUME NEW r \in Runs, Commit(r)  PROVE  QuarantineCleared'
  <2> DEFINE oldQ == quarantine \ dropped[r].quarantine
             oldR == raw \ dropped[r].raw
             rejected == Rows(Obj(r), key[r], Rejected(batch[r]))
             accepted == Rows(Obj(r), key[r], Accepted(batch[r]))
  <2>1. quarantine' = oldQ \cup rejected /\ raw' = oldR \cup accepted
    BY <1>2 DEF Commit
  <2>2. \A q \in oldQ : \A w \in oldR : q.obj = w.obj /\ q.rec.id = w.rec.id => w.key < q.key
    BY DEF ClearedInv, QuarantineCleared
  <2>3. ASSUME NEW q \in oldQ, NEW w \in accepted
        PROVE  ~(q.obj = w.obj /\ q.rec.id = w.rec.id)
    <3>1. w.obj = Obj(r) /\ w.rec \in batch[r]
      BY DEF Rows, Accepted
    <3>2. QED  BY <1>2, <3>1, CommitSupersedes DEF QuarantineInv
  <2>4. ASSUME NEW q \in rejected, NEW w \in accepted
        PROVE  q.rec.id # w.rec.id
    <3>1. q.rec \in batch[r] /\ w.rec \in batch[r] /\ q.rec # w.rec
      BY DEF Rows, Accepted, Rejected
    <3>2. QED  BY <3>1 DEF QuarantineInv, SingleRecords
  <2>5. ASSUME NEW q \in rejected, NEW w \in oldR, q.obj = w.obj  PROVE  w.key < q.key
    <3>1. q.obj = Obj(r) /\ q.key = key[r] /\ pc[r] = "commit"
      BY <1>2 DEF Rows, Commit
    <3>2. w \notin Replaced(r)
      BY <3>1 DEF ClearedInv, DropsOwn
    <3>3. w.key # key[r]
      BY <2>5, <3>1, <3>2 DEF Replaced, RowsOf
    <3>4. w.key <= key[r]
      BY <3>1 DEF ClearedInv, LatestKey, Active
    <3>5. w.key \in Nat /\ key[r] \in Nat
      BY CrmAssumption DEF CrmAssumption, TypeInv, TypeOK, Row
    <3>6. QED  BY <3>1, <3>3, <3>4, <3>5
  <2> HIDE DEF oldQ, oldR, rejected, accepted
  <2>6. QED  BY <2>1, <2>2, <2>3, <2>4, <2>5 DEF QuarantineCleared
<1>3. QED  BY <1>1, <1>2, WhoSteps, OwnStep

LEMMA ClearedInit ==
  ASSUME Init
  PROVE  ClearedInv
BY DEF Init, ClearedInv, LatestKey, DropsOwn, QuarantineCleared, Active

(* supersede_quarantine: a record that was accepted later than it was       *)
(* quarantined leaves no quarantine row behind, when runs do not overlap    *)
(* and no Id is null.                                                       *)
THEOREM Cleared ==
  ASSUME Serial, "nullid" \notin Kinds
  PROVE  Spec => []QuarantineCleared
<1> DEFINE I == TypeInv /\ QuarantineInv /\ ClearedInv
<1>1. Init => I
  BY TypeInit, QuarantineInit, ClearedInit
<1>2. I /\ [Next]_vars => I'
  <2> SUFFICES ASSUME I, [Next]_vars  PROVE  I'
    OBVIOUS
  <2>1. LatestKey' /\ DropsOwn' /\ QuarantineCleared'
    BY LatestStep, OwnDropStep, ClearedStep DEF ClearedInv, QuarantineInv
  <2>2. QED  BY <2>1, TypeStep, QuarantineStep DEF ClearedInv
<1>3. I => QuarantineCleared
  BY DEF ClearedInv
<1>4. QED  BY <1>1, <1>2, <1>3, PTL DEF Spec

(* A run in turn, without full_refresh, works after the current watermark. *)
LEMMA CurrentStep ==
  ASSUME TypeInv, OneActive, ReadsCurrent, Serial, ~FullRefresh, [Next]_vars
  PROVE  ReadsCurrent'
<1>1. ASSUME NEW r \in Runs, RunStep(r)  PROVE  ReadsCurrent'
  <2>1. \A q \in Runs \ {r} : ~Active(q)' /\ full'[q] = full[q]
    BY <1>1, Alone DEF RunKept, Active
  <2>2. ~full[r]
    BY DEF ReadsCurrent
  <2>3. CASE \E f \in BOOLEAN : Start(r, f)
    <3>1. pc'[r] = "read" /\ ~full'[r]
      BY <2>3 DEF Start, TypeInv, TypeOK
    <3>2. QED  BY <2>1, <3>1 DEF ReadsCurrent, Active
  <2>4. CASE ReadWatermark(r)
    <3>1. ~full'[r] /\ after'[r] = watermark'[Obj(r)']
      BY <2>2, <2>4 DEF ReadWatermark, TypeInv, TypeOK, tables, Obj
    <3>2. QED  BY <2>1, <3>1 DEF ReadsCurrent, Active, Obj
  <2>5. CASE FetchRecords(r) \/ Upload(r) \/ Load(r)
    <3>1. /\ UNCHANGED <<full, after, pos, watermark>>
          /\ pc[r] \in {"fetch", "upload", "load", "commit"}
      BY <2>5 DEF FetchRecords, Upload, Load, tables, locals
    <3>2. QED  BY <2>1, <3>1 DEF ReadsCurrent, Active, Obj
  <2>6. CASE FetchNothing(r) \/ Commit(r) \/ MissingId(r) \/ Finish(r) \/ Fail(r) \/ Kill(r)
    <3>1. ~full'[r] /\ pc'[r] \in {"read", "finish", "ended"}
      BY <2>2, <2>6
      DEF FetchNothing, Commit, MissingId, Finish, Fail, Kill, NextObject, Stop, TypeInv, TypeOK
    <3>2. QED  BY <2>1, <3>1 DEF ReadsCurrent, Active
  <2>7. QED  BY <1>1, <2>3, <2>4, <2>5, <2>6 DEF RunStep, Step
<1>2. CASE (\A q \in Runs : RunKept(q)) /\ watermark' = watermark
  BY <1>2 DEF ReadsCurrent, RunKept, Obj
<1>3. QED  BY <1>1, <1>2, WhoSteps

(* next_watermark: the watermark does not move backwards, when runs do not  *)
(* overlap and none is started with full_refresh.                           *)
THEOREM NeverRegresses ==
  ASSUME Serial, ~FullRefresh
  PROVE  Spec => WatermarkNeverRegresses
<1> DEFINE I == TypeInv /\ OneActive /\ ReadsCurrent
<1>1. Init => I
  BY TypeInit DEF Init, OneActive, Active, ReadsCurrent
<1>2. I /\ [Next]_vars => I'
  BY TypeStep, OneActiveStep, CurrentStep
<1>3. I /\ [Next]_vars => [\A o \in Objects : watermark'[o] >= watermark[o]]_vars
  <2> SUFFICES ASSUME I, [Next]_vars, NEW o \in Objects  PROVE  watermark'[o] >= watermark[o]
    OBVIOUS
  <2>1. watermark \in [Objects -> Nat]
    BY CrmAssumption DEF CrmAssumption, TypeInv, TypeOK
  <2>2. CASE watermark' = watermark
    BY <2>1, <2>2
  <2>3. ASSUME NEW r \in Runs, Commit(r)  PROVE  watermark'[o] >= watermark[o]
    <3> DEFINE w == NextWatermark(batch[r], after[r])
    <3>1. watermark' = IF w = 0 THEN watermark ELSE [watermark EXCEPT ![Obj(r)] = w]
      BY <2>3 DEF Commit, Advance
    <3>2. after[r] = watermark[Obj(r)] /\ Obj(r) \in Objects /\ batch[r] \in SUBSET Record
      BY <2>3, ObjType DEF ReadsCurrent, Commit, Working, TypeInv, TypeOK
    <3>3. ASSUME w # 0  PROVE  w \in Nat /\ ~(w <= after[r])
      <4>1. w \in Nat
        BY <3>2, <3>3, NextWatermarkSafe
      <4>2. ~(w <= after[r])
        BY <3>3 DEF NextWatermark
      <4>3. QED  BY <4>1, <4>2
    <3> HIDE DEF w
    <3>4. QED  BY <2>1, <3>1, <3>2, <3>3
  <2>4. QED  BY <2>2, <2>3, WhoSteps, OwnStep
<1>4. QED  BY <1>1, <1>2, <1>3, PTL DEF Spec, WatermarkNeverRegresses

(***************************************************************************)
(* A commit whose extract is still current catches up with the org.        *)
(***************************************************************************)

LEMMA RawStep ==
  ASSUME TypeInv, ExtractInv, [Next]_vars
  PROVE  raw \subseteq raw'
<1>1. ASSUME NEW r \in Runs, Commit(r)  PROVE  raw \subseteq raw'
  BY <1>1 DEF Commit, ExtractInv, DropsNothing
<1>2. QED  BY <1>1, WhoSteps, OwnStep

(* What is not landed is stamped after the watermark a run has read, until  *)
(* the run commits.                                                         *)
LEMMA AfterStep ==
  ASSUME TypeInv, ExtractInv, AfterSafe, Assumptions, [Next]_vars
  PROVE  AfterSafe'
<1> DEFINE At(q) == pc[q] \in {"fetch", "upload", "load", "commit"}
<1>1. /\ clock \in Nat /\ closed \in Nat /\ closed <= clock
      /\ \A q \in Runs : after[q] \in Nat
      /\ \A o \in Objects : watermark[o] \in Nat /\ watermark[o] <= closed
  BY CrmAssumption DEF CrmAssumption, TypeInv, TypeOK, ExtractInv, SecondsClosed
<1>2. \A q \in Runs : At(q) => Obj(q) \in Objects
  BY ObjType DEF Working
<1>3. ASSUME NEW q \in Runs, At(q), RunKept(q), org' = org, closed' \in {closed, clock}
      PROVE  /\ after'[q] <= closed'
             /\ \A i \in Ids : Unlanded(Obj(q), i)' => org'[Obj(q)'][i].stamp > after'[q]
  <2>1. Obj(q)' = Obj(q) /\ after'[q] = after[q]
    BY <1>3 DEF RunKept, Obj
  <2>2. after[q] <= closed'
    BY <1>1, <1>3 DEF AfterSafe
  <2>3. \A i \in Ids : Unlanded(Obj(q), i)' => Unlanded(Obj(q), i)
    BY <1>3, <2>1, RawStep, StaysLanded
  <2>4. QED  BY <1>3, <2>1, <2>2, <2>3 DEF AfterSafe
<1>4. ASSUME NEW r \in Runs, RunStep(r), \A q \in Runs \ {r} : RunKept(q)
      PROVE  AfterSafe'
  <2>1. org' = org /\ closed' \in {closed, clock}
    BY <1>4
    DEF RunStep, Step, Start, ReadWatermark, FetchNothing, FetchRecords, Upload, Load, MissingId,
        Commit, Finish, Fail, Kill, Stop, upstream
  <2>2. ASSUME NEW q \in Runs \ {r}, At(q)'
        PROVE  /\ after'[q] <= closed'
               /\ \A i \in Ids : Unlanded(Obj(q), i)' => org'[Obj(q)'][i].stamp > after'[q]
    BY <1>3, <1>4, <2>1, <2>2 DEF RunKept
  <2>3. ASSUME At(r)'
        PROVE  /\ after'[r] <= closed'
               /\ \A i \in Ids : Unlanded(Obj(r), i)' => org'[Obj(r)'][i].stamp > after'[r]
    <3>1. Obj(r)' = Obj(r) /\ (ReadWatermark(r) \/ FetchRecords(r) \/ Upload(r) \/ Load(r))
      BY <1>4, <2>3
      DEF RunStep, Step, Start, ReadWatermark, FetchNothing, FetchRecords, Upload, Load, MissingId,
          Commit, Finish, Fail, Kill, Stop, NextObject, locals, Obj, TypeInv, TypeOK
    <3>2. \A i \in Ids : Unlanded(Obj(r), i)' => Unlanded(Obj(r), i)
      BY <2>1, <3>1, RawStep, StaysLanded
    <3>3. Obj(r) \in Objects
      BY <3>1, ObjType DEF ReadWatermark, FetchRecords, Upload, Load, Working
    <3>4. CASE ReadWatermark(r)
      <4>1. after'[r] = (IF full[r] THEN 0 ELSE watermark[Obj(r)]) /\ closed' = closed
        BY <3>4 DEF ReadWatermark, TypeInv, TypeOK
      <4>2. after'[r] <= closed'
        BY <1>1, <3>3, <4>1
      <4>3. ASSUME NEW i \in Ids, Unlanded(Obj(r), i)
            PROVE  org[Obj(r)][i].stamp > after'[r]
        <5>1. org[Obj(r)][i].stamp > watermark[Obj(r)]
          BY <3>3, <4>3 DEF ExtractInv, WatermarkSafe, Unlanded
        <5>2. org[Obj(r)][i].stamp > 0
          BY <3>3, <4>3, CrmAssumption
          DEF Unlanded, Present, TypeInv, TypeOK, OrgRecord, CrmAssumption
        <5>3. QED  BY <4>1, <5>1, <5>2
      <4>4. QED  BY <2>1, <3>1, <3>2, <4>2, <4>3
    <3>5. CASE FetchRecords(r) \/ Upload(r) \/ Load(r)
      <4>1. after' = after /\ At(r)
        BY <3>5 DEF FetchRecords, Upload, Load, locals
      <4>2. after[r] <= closed'
        BY <1>1, <2>1, <4>1 DEF AfterSafe
      <4>3. QED  BY <2>1, <3>1, <3>2, <4>1, <4>2 DEF AfterSafe
    <3>6. QED  BY <3>1, <3>4, <3>5
  <2>4. QED  BY <2>2, <2>3 DEF AfterSafe
<1>5. CASE (\A q \in Runs : RunKept(q)) /\ (Tick \/ UNCHANGED vars)
  <2>1. org' = org /\ closed' = closed
    BY <1>5 DEF Tick, vars
  <2>2. QED  BY <1>3, <1>5, <2>1 DEF AfterSafe, RunKept
<1>6. ASSUME NEW o \in Objects, NEW i \in IdsOf[o],
             (\E kind \in Kinds : Write(o, i, kind)) \/ Correct(o, i)
      PROVE  AfterSafe'
  <2>1. /\ raw' = raw /\ pos' = pos /\ pc' = pc /\ after' = after /\ closed' = closed
        /\ \A q \in Runs : Obj(q)' = Obj(q)
    BY <1>6 DEF Write, Correct, tables, locals, Obj
  <2>2. i \in Ids
    BY DEF Ids
  <2>3. ASSUME NEW p \in Objects, NEW j \in Ids, Unlanded(p, j)'
        PROVE  \/ org'[p][j].stamp = clock /\ closed < clock
               \/ Unlanded(p, j) /\ org'[p][j].stamp = org[p][j].stamp
    <3>1. ASSUME NEW kind \in Kinds, Write(o, i, kind)
          PROVE  /\ closed < clock /\ org'[o][i].stamp = clock
                 /\ <<p, j>> # <<o, i>> => org'[p][j] = org[p][j]
      BY <1>1, <2>2, <3>1 DEF Assumptions, Write, TypeInv, TypeOK
    <3>2. CASE \E kind \in Kinds : Write(o, i, kind)
      BY <2>1, <2>3, <3>1, <3>2 DEF Unlanded, Present, Landed
    <3>3. CASE Correct(o, i)
      <4>1. org'[p][j].stamp = org[p][j].stamp /\ (Present(p, j)' => Present(p, j))
        BY <2>2, <3>3 DEF Correct, Present, TypeInv, TypeOK, OrgRecord
      <4>2. QED  BY <2>1, <2>3, <4>1 DEF Unlanded, Landed
    <3>4. QED  BY <1>6, <3>2, <3>3
  <2>4. ASSUME NEW q \in Runs, At(q)
        PROVE  /\ after[q] <= closed
               /\ \A j \in Ids : Unlanded(Obj(q), j)' => org'[Obj(q)][j].stamp > after[q]
    <3>1. /\ after[q] <= closed /\ Obj(q) \in Objects
          /\ \A j \in Ids : Unlanded(Obj(q), j) => org[Obj(q)][j].stamp > after[q]
      BY <1>2, <2>4 DEF AfterSafe
    <3>2. \A j \in Ids : Unlanded(Obj(q), j)' =>
             \/ org'[Obj(q)][j].stamp = clock /\ closed < clock
             \/ Unlanded(Obj(q), j) /\ org'[Obj(q)][j].stamp = org[Obj(q)][j].stamp
      BY <2>1, <2>3, <3>1
    <3>3. QED  BY <1>1, <3>1, <3>2
  <2>5. QED  BY <2>1, <2>4 DEF AfterSafe
<1>7. QED  BY <1>4, <1>5, <1>6, WhoSteps DEF Upstream

(* A commit whose extract is still what the org serves leaves every         *)
(* acceptable record of the object in raw, those it did not fetch included. *)
THEOREM CommitIsComplete ==
  ASSUME Assumptions
  PROVE  Spec => CommitCatchesUp
<1> DEFINE I == TypeInv /\ ExtractInv /\ AfterSafe
           CatchUp == \A r \in Runs : \A o \in Objects :
             /\ pc[r] = "commit" /\ pc'[r] \in {"read", "finish"}
             /\ o = Obj(r) /\ batch[r] = Served(o, after[r])
             => \A i \in IdsOf[o] : org[o][i].kind = "ok" => Landed(o, i)'
<1>1. Init => I
  BY TypeInit, ExtractInit DEF Init, AfterSafe
<1>2. I /\ [Next]_vars => I'
  BY TypeStep, ExtractStep, AfterStep
<1>3. I /\ [Next]_vars => [CatchUp]_vars
  <2> SUFFICES ASSUME I, [Next]_vars, NEW r \in Runs, NEW o \in Objects, NEW i \in IdsOf[o],
                      pc[r] = "commit", pc'[r] \in {"read", "finish"},
                      o = Obj(r), batch[r] = Served(o, after[r]), org[o][i].kind = "ok"
               PROVE  Landed(o, i)'
    OBVIOUS
  <2>1. Commit(r)
    <3>1. RunStep(r)
      BY WhoSteps DEF RunKept
    <3>2. QED
      BY <3>1
      DEF RunStep, Step, Start, ReadWatermark, FetchNothing, FetchRecords, Upload, Load, MissingId,
          Finish, Fail, Kill, Stop, TypeInv, TypeOK
  <2>2. org' = org /\ i \in Ids /\ Present(o, i)
    BY <2>1 DEF Commit, upstream, Ids, Present, Absent
  <2>3. CASE Unlanded(o, i)
    <3> DEFINE b == [id |-> i, stamp |-> org[o][i].stamp, kind |-> org[o][i].kind]
    <3>1. org[o][i].stamp > after[r]
      BY <2>2, <2>3 DEF AfterSafe
    <3>2. b \in batch[r]
      BY <2>2, <3>1 DEF Served, Serves
    <3>3. [obj |-> o, key |-> key[r], rec |-> b] \in raw'
      BY <2>1, <2>2, <3>2 DEF Commit, Rows, Accepted
    <3>4. QED  BY <2>2, <3>3 DEF Landed
  <2>4. CASE Landed(o, i)
    BY <2>2, <2>4, RawStep DEF Landed
  <2>5. QED  BY <2>2, <2>3, <2>4 DEF Unlanded
<1>4. QED  BY <1>1, <1>2, <1>3, PTL DEF Spec, CommitCatchesUp
=============================================================================
