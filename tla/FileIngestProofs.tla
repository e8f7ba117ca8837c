-------------------------- MODULE FileIngestProofs --------------------------
(* What holds of FileIngest for every listing, set of versions and bound.  *)
EXTENDS FileIngest, FiniteSetTheorems, TLAPS

(* A run that works on a file has read a version of it, and the files it   *)
(* has listed are there: none is ever removed.                             *)
RunsPlaced ==
  \A r \in Runs :
    /\ pc[r] \in {"check", "upload", "load", "commit"} =>
         pos[r] \in 1 .. Len(Listing) /\ body[r] \in Versions
    /\ pc[r] = "idle" => pos[r] = 1
    /\ \A f \in listed[r] : dropzone[f] # None

TypeInv == TypeOK /\ RunsPlaced

LEMMA ListingIsSeq == Len(Listing) \in Nat
BY FileAssumption DEF FileAssumption

LEMMA FileType ==
  ASSUME TypeInv, NEW r \in Runs, pos[r] \in 1 .. Len(Listing)
  PROVE  File(r) \in Files
BY DEF File, Files

LEMMA CountType ==
  ASSUME NEW v \in Versions
  PROVE  Cardinality(GoodRows[v]) \in Nat /\ Cardinality(BadRows[v]) \in Nat
BY FileAssumption, FS_CardinalityType DEF FileAssumption

LEMMA RowsType ==
  ASSUME NEW f \in Files, NEW v \in Versions, NEW r \in Runs
  PROVE  Rows(f, GoodRows[v], r) \subseteq Row /\ Rows(f, BadRows[v], r) \subseteq Row
BY DEF Rows, Row, Payloads

LEMMA NextFileType ==
  ASSUME TypeInv, NEW r \in Runs, NextFile(r), pos[r] \in 1 .. Len(Listing),
         dropzone' = dropzone
  PROVE  /\ pc' \in [Runs -> {"idle", "scan", "check", "upload", "load", "commit"}]
         /\ force' \in [Runs -> BOOLEAN] /\ window' \in [Runs -> SUBSET Files]
         /\ pos' \in [Runs -> 1 .. Len(Listing) + 1]
         /\ source' \in [Runs -> {SourceOf[f] : f \in Files} \cup {None}]
         /\ listed' \in [Runs -> SUBSET Files]
         /\ body' \in [Runs -> Versions \cup {None}]
         /\ dropped' \in [Runs -> [raw : SUBSET Row, quarantine : SUBSET Row]]
         /\ RunsPlaced'
<1>1. pos' \in [Runs -> 1 .. Len(Listing) + 1]
  BY ListingIsSeq DEF NextFile, TypeInv, TypeOK
<1>2. dropped' \in [Runs -> [raw : SUBSET Row, quarantine : SUBSET Row]]
  BY DEF NextFile, NoDrop, TypeInv, TypeOK
<1>3. RunsPlaced'
  BY DEF NextFile, RunsPlaced, TypeInv, TypeOK
<1>4. QED  BY <1>1, <1>2, <1>3 DEF NextFile, TypeInv, TypeOK

LEMMA StopType ==
  ASSUME TypeInv, NEW r \in Runs, Stop(r), faults' \in 0 .. MaxFaults,
         status' \in [Runs -> {"none", "running", "completed", "failed"}]
  PROVE  TypeInv'
<1>1. pos' \in [Runs -> 1 .. Len(Listing) + 1]
  BY ListingIsSeq DEF Stop, TypeInv, TypeOK
<1>2. dropped' \in [Runs -> [raw : SUBSET Row, quarantine : SUBSET Row]]
  BY DEF Stop, NoDrop, TypeInv, TypeOK
<1>3. RunsPlaced'
  BY DEF Stop, RunsPlaced, TypeInv, TypeOK
<1>4. /\ window' \in [Runs -> SUBSET Files] /\ force' \in [Runs -> BOOLEAN]
      /\ source' \in [Runs -> {SourceOf[f] : f \in Files} \cup {None}]
      /\ listed' \in [Runs -> SUBSET Files]
  BY DEF Stop, TypeInv, TypeOK
<1>5. QED  BY <1>1, <1>2, <1>3, <1>4 DEF Stop, TypeInv, TypeOK, tables

(* Every step keeps the types: one case per action. *)
LEMMA TypeStep ==
  ASSUME TypeInv, [Next]_vars
  PROVE  TypeInv'
<1>1. ASSUME NEW f \in Files, NEW v \in Versions, Drop(f, v)  PROVE TypeInv'
  <2>1. drops' \in 0 .. MaxDrops
    BY <1>1, FileAssumption DEF Drop, TypeInv, TypeOK, FileAssumption
  <2>2. RunsPlaced'
    BY <1>1, FileAssumption
    DEF Drop, TypeInv, TypeOK, RunsPlaced, locals, FileAssumption
  <2>3. QED  BY <1>1, <2>1, <2>2 DEF Drop, TypeInv, TypeOK, tables, locals
<1>2. ASSUME NEW r \in Runs, NEW forced \in BOOLEAN, NEW selected \in Windows,
             Start(r, forced, selected)
      PROVE  TypeInv'
  <2>1. selected \in SUBSET Files
    BY FileAssumption DEF FileAssumption
  <2>2. RunsPlaced'
    BY <1>2 DEF Start, TypeInv, TypeOK, RunsPlaced
  <2>3. QED  BY <1>2, <2>1, <2>2 DEF Start, TypeInv, TypeOK, tables
<1>12. ASSUME NEW r \in Runs, ListSource(r)  PROVE TypeInv'
  <2>1. File(r) \in Files
    BY <1>12, FileType, ListingIsSeq DEF ListSource, AtFile, TypeInv, TypeOK
  <2>2. RunsPlaced'
    BY <1>12 DEF ListSource, AtFile, TypeInv, TypeOK, RunsPlaced
  <2>3. listed' \in [Runs -> SUBSET Files]
    BY <1>12 DEF ListSource, TypeInv, TypeOK
  <2>4. source' \in [Runs -> {SourceOf[f] : f \in Files} \cup {None}]
    BY <1>12, <2>1 DEF ListSource, TypeInv, TypeOK
  <2>5. QED  BY <1>12, <2>2, <2>3, <2>4 DEF ListSource, TypeInv, TypeOK, tables
<1>3. ASSUME NEW r \in Runs, PassOver(r)  PROVE TypeInv'
  <2>1. pos' \in [Runs -> 1 .. Len(Listing) + 1]
    BY <1>3, ListingIsSeq DEF PassOver, AtFile, TypeInv, TypeOK
  <2>2. RunsPlaced'
    BY <1>3 DEF PassOver, AtFile, TypeInv, TypeOK, RunsPlaced
  <2>3. QED  BY <1>3, <2>1, <2>2 DEF PassOver, TypeInv, TypeOK, tables
<1>4. ASSUME NEW r \in Runs, ReadBody(r)  PROVE TypeInv'
  <2>1. pos[r] \in 1 .. Len(Listing)
    BY <1>4, ListingIsSeq DEF ReadBody, AtFile, TypeInv, TypeOK
  <2>2. dropzone[File(r)] \in Versions
    BY <1>4, <2>1, FileType DEF ReadBody, TypeInv, TypeOK, RunsPlaced
  <2>3. RunsPlaced'
    BY <1>4, <2>1, <2>2 DEF ReadBody, TypeInv, TypeOK, RunsPlaced
  <2>4. QED  BY <1>4, <2>2, <2>3 DEF ReadBody, TypeInv, TypeOK, tables
<1>5. ASSUME NEW r \in Runs, Skip(r)  PROVE TypeInv'
  BY <1>5, NextFileType DEF Skip, TypeInv, TypeOK, RunsPlaced, tables
<1>6. ASSUME NEW r \in Runs, Take(r)  PROVE TypeInv'
  BY <1>6 DEF Take, TypeInv, TypeOK, RunsPlaced, tables, locals
<1>7. ASSUME NEW r \in Runs, Upload(r)  PROVE TypeInv'
  BY <1>7 DEF Upload, TypeInv, TypeOK, RunsPlaced, tables, locals
<1>8. ASSUME NEW r \in Runs, Load(r)  PROVE TypeInv'
  <2>1. Replaced(r) \in [raw : SUBSET Row, quarantine : SUBSET Row]
    BY DEF Replaced, RowsOf, TypeInv, TypeOK
  <2>2. QED  BY <1>8, <2>1 DEF Load, TypeInv, TypeOK, RunsPlaced, tables
<1>9. ASSUME NEW r \in Runs, Commit(r)  PROVE TypeInv'
  <2>1. pos[r] \in 1 .. Len(Listing) /\ body[r] \in Versions /\ File(r) \in Files
    BY <1>9, FileType DEF Commit, TypeInv, RunsPlaced
  <2>2. raw' \subseteq Row /\ quarantine' \subseteq Row
    BY <1>9, <2>1, RowsType DEF Commit, TypeInv, TypeOK
  <2>3. /\ registry' \in [Files -> [sha : Versions \cup {None}, rows : Nat]]
        /\ audit' \in [Files -> [loaded : Nat, rejected : Nat]]
    BY <1>9, <2>1, CountType DEF Commit, Entry, TypeInv, TypeOK
  <2>4. NextFile(r)
    BY <1>9 DEF Commit
  <2>5. QED  BY <1>9, <2>1, <2>2, <2>3, <2>4, NextFileType DEF Commit, TypeInv, TypeOK
<1>10. ASSUME NEW r \in Runs, ParseError(r) \/ Finish(r) \/ Fail(r) \/ Kill(r)
       PROVE  TypeInv'
  <2>1. faults' \in 0 .. MaxFaults
    BY <1>10, FileAssumption
    DEF ParseError, Finish, Fail, Kill, TypeInv, TypeOK, FileAssumption
  <2>2. QED
    BY <1>10, <2>1, StopType DEF ParseError, Finish, Fail, Kill, TypeInv, TypeOK
<1>11. CASE UNCHANGED vars
  BY <1>11 DEF vars, TypeInv, TypeOK, RunsPlaced
<1>13. QED
  BY <1>1, <1>2, <1>3, <1>4, <1>5, <1>6, <1>7, <1>8, <1>9, <1>10, <1>11, <1>12
  DEF Next, Step

LEMMA TypeInit ==
  ASSUME Init
  PROVE  TypeInv
BY ListingIsSeq, FileAssumption
DEF Init, TypeInv, TypeOK, RunsPlaced, NoDrop, NotIngested, FileAssumption

(* Every reachable state is well typed: no run is past the listing, and    *)
(* whatever is loaded is the version of a file that was read.              *)
THEOREM FileTypeCorrect == Spec => []TypeOK
<1>1. TypeInv => TypeOK
  BY DEF TypeInv
<1>2. QED  BY <1>1, TypeInit, TypeStep, PTL DEF Spec

(***************************************************************************)
(* The rows of the registered version are in raw, however runs overlap:    *)
(* a transaction deletes rows of its own file only, and the commit that    *)
(* deletes the rows of a version registers the one it loads instead.       *)
(***************************************************************************)
DropsOwnFile ==
  \A r \in Runs : \A w \in dropped[r].raw : pc[r] = "commit" /\ w.file = File(r)

LEMMA StopDropsNothing ==
  ASSUME TypeInv, DropsOwnFile, NEW r \in Runs, Stop(r)
  PROVE  DropsOwnFile' /\ raw' = raw /\ registry' = registry
BY DEF Stop, DropsOwnFile, NoDrop, File, TypeInv, TypeOK, tables

LEMMA PresentStep ==
  ASSUME TypeInv, DropsOwnFile, RegisteredRowsPresent, [Next]_vars
  PROVE  (DropsOwnFile /\ RegisteredRowsPresent)'
<1>1. ASSUME NEW r \in Runs, Commit(r)
      PROVE  (DropsOwnFile /\ RegisteredRowsPresent)'
  <2>1. body[r] \in Versions /\ File(r) \in Files
    BY <1>1, FileType DEF Commit, TypeInv, RunsPlaced
  <2>2. DropsOwnFile'
    BY <1>1 DEF Commit, NextFile, NoDrop, DropsOwnFile, File, TypeInv, TypeOK
  <2>3. ASSUME NEW f \in Files, registry'[f].sha # None, NEW p \in GoodRows[registry'[f].sha]
        PROVE  \E w \in raw' : w.file = f /\ w.payload = p
    <3>1. CASE f = File(r)
      <4>1. registry'[f].sha = body[r]
        BY <1>1, <2>1, <3>1 DEF Commit, Entry, TypeInv, TypeOK
      <4>2. [file |-> f, payload |-> p, by |-> r] \in raw'
        BY <1>1, <2>3, <3>1, <4>1 DEF Commit, Rows
      <4>3. QED  BY <4>2
    <3>2. CASE f # File(r)
      <4>1. registry'[f] = registry[f]
        BY <1>1, <2>1, <3>2 DEF Commit, TypeInv, TypeOK
      <4>2. PICK w \in raw : w.file = f /\ w.payload = p
        BY <2>3, <4>1 DEF RegisteredRowsPresent, RowsOf
      <4>3. w \in raw'
        BY <1>1, <3>2, <4>2 DEF Commit, DropsOwnFile
      <4>4. QED  BY <4>2, <4>3
    <3>3. QED  BY <3>1, <3>2
  <2>4. QED  BY <2>2, <2>3 DEF RegisteredRowsPresent, RowsOf
<1>2. ASSUME NEW r \in Runs, Load(r)
      PROVE  DropsOwnFile' /\ raw' = raw /\ registry' = registry
  BY <1>2 DEF Load, Replaced, RowsOf, DropsOwnFile, File, TypeInv, TypeOK, tables
<1>3. ASSUME NEW r \in Runs, NEW forced, NEW selected, Start(r, forced, selected)
      PROVE  DropsOwnFile' /\ raw' = raw /\ registry' = registry
  BY <1>3 DEF Start, DropsOwnFile, File, TypeInv, TypeOK, tables
<1>4. ASSUME NEW r \in Runs,
             ListSource(r) \/ PassOver(r) \/ ReadBody(r) \/ Take(r) \/ Upload(r)
      PROVE  DropsOwnFile' /\ raw' = raw /\ registry' = registry
  BY <1>4
  DEF ListSource, PassOver, ReadBody, AtFile, Take, Upload, DropsOwnFile, File, TypeInv, TypeOK, tables, locals
<1>5. ASSUME NEW r \in Runs, Skip(r)
      PROVE  DropsOwnFile' /\ raw' = raw /\ registry' = registry
  BY <1>5 DEF Skip, NextFile, NoDrop, DropsOwnFile, File, TypeInv, TypeOK, tables
<1>6. ASSUME NEW f, NEW v, Drop(f, v)
      PROVE  DropsOwnFile' /\ raw' = raw /\ registry' = registry
  BY <1>6 DEF Drop, DropsOwnFile, File, tables, locals
<1>7. ASSUME NEW r \in Runs, ParseError(r) \/ Finish(r) \/ Fail(r) \/ Kill(r)
      PROVE  DropsOwnFile' /\ raw' = raw /\ registry' = registry
  BY <1>7, StopDropsNothing DEF ParseError, Finish, Fail, Kill
<1>8. CASE UNCHANGED vars
  BY <1>8 DEF vars, DropsOwnFile, RegisteredRowsPresent, RowsOf, File
<1>9. ASSUME DropsOwnFile', raw' = raw, registry' = registry
      PROVE  (DropsOwnFile /\ RegisteredRowsPresent)'
  BY <1>9 DEF RegisteredRowsPresent, RowsOf
<1>10. CASE Next
  BY <1>1, <1>2, <1>3, <1>4, <1>5, <1>6, <1>7, <1>9, <1>10 DEF Next, Step
<1>11. QED  BY <1>8, <1>10

(* A file is never skipped on the strength of rows that are not there:     *)
(* whatever the runs do, raw has the rows of the registered version.       *)
THEOREM RegisteredRowsArePresent == Spec => []RegisteredRowsPresent
<1>1. Init => TypeInv /\ DropsOwnFile /\ RegisteredRowsPresent
  BY TypeInit DEF Init, DropsOwnFile, RegisteredRowsPresent, NotIngested, NoDrop
<1>2. /\ TypeInv /\ DropsOwnFile /\ RegisteredRowsPresent /\ [Next]_vars
      => (TypeInv /\ DropsOwnFile /\ RegisteredRowsPresent)'
  BY TypeStep, PresentStep
<1>3. QED  BY <1>1, <1>2, PTL DEF Spec

(***************************************************************************)
(* One run at a time: the replace is clean and the lake comes first.       *)
(***************************************************************************)
Alone == \A r, q \in Runs : Active(r) /\ Active(q) => r = q

(* What the open transaction deletes is all that the tables hold of the    *)
(* file, and what it loads is what it has put in the lake.                 *)
DropsAll ==
  \A r \in Runs :
    /\ pc[r] = "commit" => dropped[r] = Replaced(r)
    /\ pc[r] \in {"load", "commit"} => lake[File(r)] = body[r]

SerialInv == Alone /\ DropsAll /\ CleanReplace

LEMMA AloneStep ==
  ASSUME TypeInv, Alone, ~Overlap, [Next]_vars
  PROVE  Alone'
<1>1. ASSUME NEW r \in Runs, NEW forced, NEW selected, Start(r, forced, selected)
      PROVE  Alone'
  BY <1>1 DEF Start, Alone, Active, TypeInv, TypeOK
<1>2. ASSUME NEW r \in Runs, pc[r] # "idle", \A q \in Runs \ {r} : pc'[q] = pc[q]
      PROVE  Alone'
  BY <1>2 DEF Alone, Active
<1>3. ASSUME NEW r \in Runs, Step(r) \/ Fail(r) \/ Kill(r)
      PROVE  Alone'
  <2>1. pc[r] # "idle" /\ \A q \in Runs \ {r} : pc'[q] = pc[q]
    BY <1>3
    DEF Step, ListSource, PassOver, ReadBody, AtFile, Skip, Take, Upload, Load, ParseError,
        Commit, Finish, Fail, Kill, Active, NextFile, Stop, TypeInv, TypeOK
  <2>2. QED  BY <1>2, <2>1
<1>4. ASSUME NEW f, NEW v, Drop(f, v)  PROVE Alone'
  BY <1>4 DEF Drop, Alone, Active
<1>5. CASE UNCHANGED vars
  BY <1>5 DEF vars, Alone, Active
<1>6. QED  BY <1>1, <1>3, <1>4, <1>5 DEF Next


(* The rows that a load makes of some payloads hold them, each once. *)
LEMMA RowsHold ==
  ASSUME NEW table, NEW f, NEW payloads, NEW r,
         RowsOf(table, f) = Rows(f, payloads, r)
  PROVE  Holds(table, f, payloads)
<1>1. \A w \in RowsOf(table, f) :
        \E p \in payloads : w = [file |-> f, payload |-> p, by |-> r]
  BY DEF Rows
<1>2. \A p \in payloads : [file |-> f, payload |-> p, by |-> r] \in RowsOf(table, f)
  BY DEF Rows
<1>3. {w.payload : w \in RowsOf(table, f)} = payloads
  <2>1. {w.payload : w \in RowsOf(table, f)} \subseteq payloads
    BY <1>1
  <2>2. ASSUME NEW p \in payloads  PROVE p \in {w.payload : w \in RowsOf(table, f)}
    <3>1. [file |-> f, payload |-> p, by |-> r].payload = p
      OBVIOUS
    <3>2. QED  BY <1>2, <3>1
  <2>3. QED  BY <2>1, <2>2
<1>4. \A w1, w2 \in RowsOf(table, f) : w1.payload = w2.payload => w1 = w2
  BY <1>1
<1>5. QED  BY <1>3, <1>4 DEF Holds

LEMMA SerialStep ==
  ASSUME TypeInv, SerialInv, ~Overlap, [Next]_vars
  PROVE  SerialInv' /\ [\A f \in Files : registry'[f] # registry[f] =>
                                         lake[f] = registry'[f].sha]_vars
<1> DEFINE Kept == raw' = raw /\ quarantine' = quarantine /\ registry' = registry
                   /\ audit' = audit
<1>1. Alone'
  BY AloneStep DEF SerialInv
<1>2. ASSUME Kept  PROVE CleanReplace'
  BY <1>2 DEF SerialInv, CleanReplace, Clean, Holds, RowsOf
<1>3. ASSUME NEW r \in Runs, pc[r] # "idle",
             Kept, lake' = lake,
             \A q \in Runs \ {r} : pc'[q] = pc[q],
             pc'[r] \notin {"load", "commit"}
      PROVE  DropsAll'
  <2>1. \A q \in Runs : pc'[q] \notin {"load", "commit"}
    BY <1>3 DEF SerialInv, Alone, Active
  <2>2. QED  BY <2>1 DEF DropsAll
<1>4. ASSUME NEW r \in Runs, Commit(r)
      PROVE  /\ DropsAll' /\ CleanReplace'
             /\ \A f \in Files : registry'[f] # registry[f] => lake[f] = registry'[f].sha
  <2>1. body[r] \in Versions /\ File(r) \in Files
    BY <1>4, FileType DEF Commit, TypeInv, RunsPlaced
  <2>2. /\ raw' = (raw \ RowsOf(raw, File(r))) \cup Rows(File(r), GoodRows[body[r]], r)
        /\ quarantine' = (quarantine \ RowsOf(quarantine, File(r)))
                           \cup Rows(File(r), BadRows[body[r]], r)
        /\ lake[File(r)] = body[r]
    <3>1. pc[r] = "commit" /\ dropped[r] = Replaced(r) /\ lake[File(r)] = body[r]
      BY <1>4 DEF Commit, SerialInv, DropsAll
    <3>2. /\ dropped[r].raw = RowsOf(raw, File(r))
          /\ dropped[r].quarantine = RowsOf(quarantine, File(r))
      BY <3>1 DEF Replaced
    <3>3. /\ raw' = (raw \ dropped[r].raw) \cup Rows(File(r), GoodRows[body[r]], r)
          /\ quarantine' = (quarantine \ dropped[r].quarantine)
                             \cup Rows(File(r), BadRows[body[r]], r)
      BY <1>4 DEF Commit
    <3>4. QED  BY <3>1, <3>2, <3>3
  <2>3. /\ registry' = [registry EXCEPT ![File(r)] = Entry(r)]
        /\ audit' = [audit EXCEPT ![File(r)] =
                       [loaded |-> Cardinality(GoodRows[body[r]]),
                        rejected |-> Cardinality(BadRows[body[r]])]]
    BY <1>4 DEF Commit
  <2>4. ASSUME NEW f \in Files, f = File(r)
        PROVE  Clean(f)'
    <3>1. Good(body[r]) = GoodRows[body[r]] /\ Bad(body[r]) = BadRows[body[r]]
      BY <2>1, FileAssumption DEF Good, Bad, FileAssumption
    <3>2. registry'[f].sha = body[r] /\ registry'[f].rows = Cardinality(GoodRows[body[r]])
      BY <2>1, <2>3, <2>4 DEF Entry, TypeInv, TypeOK
    <3>3. audit'[f] = [loaded |-> Cardinality(GoodRows[body[r]]),
                       rejected |-> Cardinality(BadRows[body[r]])]
      BY <2>1, <2>3, <2>4 DEF TypeInv, TypeOK
    <3>4. RowsOf(raw', f) = Rows(f, GoodRows[body[r]], r)
      BY <2>2, <2>4 DEF RowsOf, Rows
    <3>5. RowsOf(quarantine', f) = Rows(f, BadRows[body[r]], r)
      BY <2>2, <2>4 DEF RowsOf, Rows
    <3>6. Holds(raw', f, GoodRows[body[r]])
      BY <3>4, RowsHold
    <3>7. Holds(quarantine', f, BadRows[body[r]])
      BY <3>5, RowsHold
    <3>8. QED  BY <3>1, <3>2, <3>3, <3>6, <3>7 DEF Clean, Good, Bad
  <2>5. ASSUME NEW f \in Files, f # File(r)
        PROVE  Clean(f)'
    <3>1. RowsOf(raw, f)' = RowsOf(raw, f) /\ RowsOf(quarantine, f)' = RowsOf(quarantine, f)
      BY <2>2, <2>5 DEF RowsOf, Rows
    <3>2. registry'[f] = registry[f] /\ audit'[f] = audit[f]
      BY <2>1, <2>3, <2>5 DEF TypeInv, TypeOK
    <3>3. Clean(f)
      BY DEF SerialInv, CleanReplace
    <3>4. QED  BY <3>1, <3>2, <3>3 DEF Clean, Holds, Good, Bad
  <2>6. \A q \in Runs : pc'[q] \notin {"load", "commit"}
    BY <1>4 DEF Commit, NextFile, SerialInv, Alone, Active, TypeInv, TypeOK
  <2>7. DropsAll'
    BY <2>6 DEF DropsAll
  <2>8. \A f \in Files : registry'[f] # registry[f] => lake[f] = registry'[f].sha
    BY <2>1, <2>2, <2>3 DEF Entry, TypeInv, TypeOK
  <2>9. QED  BY <2>4, <2>5, <2>7, <2>8 DEF CleanReplace

<1>5. ASSUME NEW r \in Runs, Load(r)  PROVE Kept /\ DropsAll'
  <2>1. \A q \in Runs \ {r} : pc[q] = "idle"
    BY <1>5 DEF Load, SerialInv, Alone, Active
  <2>2. /\ Kept /\ lake' = lake /\ body' = body /\ pos' = pos
        /\ dropped'[r] = Replaced(r)
        /\ \A q \in Runs \ {r} : pc'[q] = "idle"
    BY <1>5, <2>1 DEF Load, tables, TypeInv, TypeOK
  <2>3. File(r)' = File(r) /\ Replaced(r)' = Replaced(r)
    BY <2>2 DEF File, Replaced, RowsOf
  <2>4. lake[File(r)] = body[r]
    BY <1>5 DEF Load, SerialInv, DropsAll
  <2>5. QED  BY <2>2, <2>3, <2>4 DEF DropsAll
<1>6. ASSUME NEW r \in Runs, Upload(r)  PROVE Kept /\ DropsAll'
  <2>1. File(r) \in Files
    BY <1>6, FileType DEF Upload, TypeInv, RunsPlaced
  <2>2. /\ Kept /\ body' = body /\ pos' = pos /\ lake'[File(r)] = body[r]
        /\ pc'[r] = "load" /\ \A q \in Runs \ {r} : pc'[q] = "idle"
    BY <1>6, <2>1 DEF Upload, SerialInv, Alone, Active, tables, locals, TypeInv, TypeOK
  <2>3. File(r)' = File(r)
    BY <2>2 DEF File
  <2>4. QED  BY <2>2, <2>3 DEF DropsAll
<1>7. ASSUME NEW r \in Runs, Skip(r)  PROVE Kept /\ DropsAll'
  BY <1>3, <1>7 DEF Skip, NextFile, tables, TypeInv, TypeOK
<1>8. ASSUME NEW r \in Runs, ListSource(r) \/ PassOver(r) \/ ReadBody(r) \/ Take(r)
      PROVE  Kept /\ DropsAll'
  BY <1>3, <1>8 DEF ListSource, PassOver, ReadBody, AtFile, Take, tables, TypeInv, TypeOK
<1>9. ASSUME NEW r \in Runs, ParseError(r) \/ Finish(r) \/ Fail(r) \/ Kill(r)
      PROVE  Kept /\ DropsAll'
  <2>1. Stop(r) /\ pc[r] # "idle"
    BY <1>9 DEF ParseError, Finish, Fail, Kill, Active
  <2>2. QED  BY <1>3, <2>1 DEF Stop, tables, TypeInv, TypeOK
<1>10. ASSUME NEW r \in Runs, NEW forced, NEW selected, Start(r, forced, selected)
       PROVE  Kept /\ DropsAll'
  <2>1. \A q \in Runs : pc'[q] \notin {"load", "commit"}
    BY <1>10 DEF Start, Active, TypeInv, TypeOK
  <2>2. QED  BY <1>10, <2>1 DEF Start, DropsAll, tables
<1>11. ASSUME NEW f, NEW v, Drop(f, v)  PROVE Kept /\ DropsAll'
  BY <1>11 DEF Drop, SerialInv, DropsAll, Replaced, RowsOf, File, tables, locals
<1>12. CASE UNCHANGED vars
  <2>1. Kept /\ DropsAll'
    BY <1>12 DEF vars, SerialInv, DropsAll, Replaced, RowsOf, File
  <2>2. QED  BY <1>1, <1>2, <1>12, <2>1 DEF SerialInv
<1>13. CASE Next
  <2>1. CASE \E r \in Runs : Commit(r)
    BY <1>1, <1>4, <2>1 DEF SerialInv
  <2>2. CASE ~\E r \in Runs : Commit(r)
    <3>1. Kept /\ DropsAll'
      BY <1>5, <1>6, <1>7, <1>8, <1>9, <1>10, <1>11, <1>13, <2>2 DEF Next, Step
    <3>2. QED  BY <1>1, <1>2, <3>1 DEF SerialInv
  <2>3. QED  BY <2>1, <2>2
<1>14. QED  BY <1>12, <1>13

LEMMA SerialInit ==
  ASSUME Init
  PROVE  SerialInv
BY FS_EmptySet
DEF Init, SerialInv, Alone, Active, DropsAll, CleanReplace, Clean, Holds, RowsOf, Good, Bad,
    NotIngested

(* load.py: with one run at a time, whatever fails or is killed, the tables *)
(* hold exactly the version that the registry names: nothing twice, and no  *)
(* quarantine row that the version does not have.                           *)
THEOREM ReplaceIsClean ==
  ASSUME ~Overlap
  PROVE  Spec => []CleanReplace
<1>1. SerialInv => CleanReplace
  BY DEF SerialInv
<1>2. TypeInv /\ SerialInv /\ [Next]_vars => (TypeInv /\ SerialInv)'
  BY TypeStep, SerialStep
<1>3. QED  BY <1>1, <1>2, TypeInit, SerialInit, PTL DEF Spec

(* With one run at a time, what is registered was in the lake before. *)
THEOREM LakeIsFirst ==
  ASSUME ~Overlap
  PROVE  Spec => LakeFirst
<1>1. TypeInv /\ SerialInv /\ [Next]_vars => (TypeInv /\ SerialInv)'
  BY TypeStep, SerialStep
<1>2. /\ TypeInv /\ SerialInv /\ [Next]_vars
      => [\A f \in Files : registry'[f] # registry[f] => lake[f] = registry'[f].sha]_vars
  BY SerialStep
<1>3. QED  BY <1>1, <1>2, TypeInit, SerialInit, PTL DEF Spec, LakeFirst

=============================================================================
