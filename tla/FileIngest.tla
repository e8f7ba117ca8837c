----------------------------- MODULE FileIngest -----------------------------
(***************************************************************************)
(* Dropzone files into raw (src/fanuni/pipeline): flows.py                 *)
(* ingest_file_sources with the helpers it calls in db.py, load.py,        *)
(* lake.py and contracts.py.                                               *)
(*                                                                         *)
(* A run walks the sources in order, lists the files of each when it gets  *)
(* to it, and takes them in order.  It reads a file's bytes, skips the     *)
(* file when ops.ingested_files has their sha256, puts them in the lake    *)
(* and, in one transaction, replaces the file's rows in raw and in         *)
(* quarantine, audits the load and records the sha.  Sources may rewrite   *)
(* a file at any moment; runs may overlap, fail or be killed.              *)
(*                                                                         *)
(* A version stands for the bytes of a file, and for their sha256.         *)
(***************************************************************************)
EXTENDS Integers, Sequences, FiniteSets

CONSTANTS
  Listing,    \* the files, in the order FILE_SOURCES and sorted(glob) give
  SourceOf,   \* SourceOf[f]: the source f is a file of
  Versions,   \* the bodies a file can have
  GoodRows,   \* GoodRows[v]: the rows of v that meet the contract
  BadRows,    \* BadRows[v]: those that do not
  Corrupt,    \* the versions that parse_rows raises on
  Runs,       \* slots for processes; a slot is used again
  Windows,    \* the sets of files that sources/start_month/end_month can select
  Overlap,    \* may runs overlap?
  MaxDrops,   \* bound: rewrites of files
  MaxFaults,  \* bound: failures plus kills
  None

Files == {Listing[n] : n \in 1 .. Len(Listing)}
Payloads == UNION {GoodRows[v] \cup BadRows[v] : v \in Versions}

ASSUME FileAssumption ==
  /\ Len(Listing) \in Nat
  /\ \A f \in Files : SourceOf[f] # None
  /\ Corrupt \subseteq Versions /\ None \notin Versions
  /\ \A v \in Versions : GoodRows[v] \cap BadRows[v] = {}
  /\ \A v \in Versions : IsFiniteSet(GoodRows[v]) /\ IsFiniteSet(BadRows[v])
  /\ \A w \in Windows : w \subseteq Files
  /\ Overlap \in BOOLEAN
  /\ MaxDrops \in Nat /\ MaxFaults \in Nat

VARIABLES
  dropzone,   \* dropzone[f]: the version of f, None when there is no file
  lake,       \* lake[f]: the object raw/<source>/<f>
  raw,        \* the rows of the raw tables; by tells two copies of a row apart
  quarantine, \* raw.quarantine
  registry,   \* ops.ingested_files
  audit,      \* audit[f]: the newest row of ops.load_audit for f
  status,     \* ops.pipeline_runs.status of the run in the slot
  drops, faults,
  pc, force, window, pos,
  source,     \* the source the run has listed last
  listed,     \* the selected files that glob found of it then
  body,       \* the bytes the run has read
  dropped     \* the rows the DELETEs of its open transaction have removed

locals == <<force, window, pos, source, listed, body, dropped>>
tables == <<raw, quarantine, registry, audit>>
vars == <<dropzone, lake, raw, quarantine, registry, audit, status, drops, faults,
          pc, force, window, pos, source, listed, body, dropped>>

Row == [file : Files, payload : Payloads, by : Runs]
NoDrop == [raw |-> {}, quarantine |-> {}]
NotIngested == [sha |-> None, rows |-> 0]

RowsOf(table, f) == {w \in table : w.file = f}
Rows(f, payloads, r) == {[file |-> f, payload |-> p, by |-> r] : p \in payloads}

TypeOK ==
  /\ dropzone \in [Files -> Versions \cup {None}]
  /\ lake \in [Files -> Versions \cup {None}]
  /\ raw \subseteq Row /\ quarantine \subseteq Row
  /\ registry \in [Files -> [sha : Versions \cup {None}, rows : Nat]]
  /\ audit \in [Files -> [loaded : Nat, rejected : Nat]]
  /\ status \in [Runs -> {"none", "running", "completed", "failed"}]
  /\ drops \in 0 .. MaxDrops /\ faults \in 0 .. MaxFaults
  /\ pc \in [Runs -> {"idle", "scan", "check", "upload", "load", "commit"}]
  /\ force \in [Runs -> BOOLEAN]
  /\ window \in [Runs -> SUBSET Files]
  /\ pos \in [Runs -> 1 .. Len(Listing) + 1]
  /\ source \in [Runs -> {SourceOf[f] : f \in Files} \cup {None}]
  /\ listed \in [Runs -> SUBSET Files]
  /\ body \in [Runs -> Versions \cup {None}]
  /\ dropped \in [Runs -> [raw : SUBSET Row, quarantine : SUBSET Row]]

Init ==
  /\ dropzone = [f \in Files |-> None]
  /\ lake = [f \in Files |-> None]
  /\ raw = {} /\ quarantine = {}
  /\ registry = [f \in Files |-> NotIngested]
  /\ audit = [f \in Files |-> [loaded |-> 0, rejected |-> 0]]
  /\ status = [r \in Runs |-> "none"]
  /\ drops = 0 /\ faults = 0
  /\ pc = [r \in Runs |-> "idle"]
  /\ force = [r \in Runs |-> FALSE]
  /\ window = [r \in Runs |-> {}]
  /\ pos = [r \in Runs |-> 1]
  /\ source = [r \in Runs |-> None]
  /\ listed = [r \in Runs |-> {}]
  /\ body = [r \in Runs |-> None]
  /\ dropped = [r \in Runs |-> NoDrop]

-----------------------------------------------------------------------------
(* Definitions named Bug... are what a plausible mistake would make of the  *)
(* definition they precede; nothing uses them but the mutation runs.        *)

(* A source writes a file, or writes it anew with other bytes. *)
Drop(f, v) ==
  /\ drops < MaxDrops
  /\ dropzone[f] # v
  /\ dropzone' = [dropzone EXCEPT ![f] = v]
  /\ drops' = drops + 1
  /\ UNCHANGED <<lake, tables, status, faults, pc, locals>>

File(r) == Listing[pos[r]]
Active(r) == pc[r] # "idle"

Start(r, forced, selected) ==
  /\ pc[r] = "idle"
  /\ Overlap \/ \A q \in Runs : ~Active(q)
  /\ status' = [status EXCEPT ![r] = "running"]
  /\ force' = [force EXCEPT ![r] = forced]
  /\ window' = [window EXCEPT ![r] = selected]
  /\ pc' = [pc EXCEPT ![r] = "scan"]
  /\ UNCHANGED <<dropzone, lake, tables, drops, faults, pos, source, listed, body, dropped>>

(* The run is at a file of a source it has, or has not, listed. *)
AtFile(r) == pc[r] = "scan" /\ pos[r] <= Len(Listing)
Listed(r) == source[r] = SourceOf[File(r)]

(* sorted(glob) reads the whole directory before the first file of it is   *)
(* touched: a file that comes later waits for the next run.                *)
ListSource(r) ==
  /\ AtFile(r) /\ ~Listed(r)
  /\ source' = [source EXCEPT ![r] = SourceOf[File(r)]]
  /\ listed' = [listed EXCEPT ![r] =
                  {f \in window[r] : SourceOf[f] = SourceOf[File(r)] /\ dropzone[f] # None}]
  /\ UNCHANGED <<dropzone, lake, tables, status, drops, faults, pc, force, window, pos,
                 body, dropped>>

(* The file is not selected, or glob did not list it. *)
PassOver(r) ==
  /\ AtFile(r) /\ Listed(r)
  /\ File(r) \notin listed[r]
  /\ pos' = [pos EXCEPT ![r] = @ + 1]
  /\ UNCHANGED <<dropzone, lake, tables, status, drops, faults, pc, force, window, source,
                 listed, body, dropped>>

ReadBody(r) ==
  /\ AtFile(r) /\ Listed(r)
  /\ File(r) \in listed[r]
  /\ body' = [body EXCEPT ![r] = dropzone[File(r)]]
  /\ pc' = [pc EXCEPT ![r] = "check"]
  /\ UNCHANGED <<dropzone, lake, tables, status, drops, faults, force, window, pos, source,
                 listed, dropped>>

NextFile(r) ==
  /\ pos' = [pos EXCEPT ![r] = @ + 1]
  /\ pc' = [pc EXCEPT ![r] = "scan"]
  /\ body' = [body EXCEPT ![r] = None]
  /\ dropped' = [dropped EXCEPT ![r] = NoDrop]
  /\ UNCHANGED <<force, window, source, listed>>

(* ops.ingested_files already has this sha for this name. *)
BugSameName(r) == ~force[r] /\ registry[File(r)].sha # None

Unchanged(r) == ~force[r] /\ registry[File(r)].sha = body[r]

Skip(r) ==
  /\ pc[r] = "check"
  /\ Unchanged(r)
  /\ NextFile(r)
  /\ UNCHANGED <<dropzone, lake, tables, status, drops, faults>>

Take(r) ==
  /\ pc[r] = "check"
  /\ ~Unchanged(r)
  /\ pc' = [pc EXCEPT ![r] = "upload"]
  /\ UNCHANGED <<dropzone, lake, tables, status, drops, faults, locals>>

BugNoUpload(r) ==
  /\ pc[r] = "upload"
  /\ pc' = [pc EXCEPT ![r] = "load"]
  /\ UNCHANGED <<dropzone, lake, tables, status, drops, faults, locals>>

Upload(r) ==
  /\ pc[r] = "upload"
  /\ lake' = [lake EXCEPT ![File(r)] = body[r]]
  /\ pc' = [pc EXCEPT ![r] = "load"]
  /\ UNCHANGED <<dropzone, tables, status, drops, faults, locals>>

(* Both helpers delete by source_file, quarantine also when nothing is     *)
(* rejected this time.                                                     *)
BugKeepsQuarantine(r) ==
  [raw |-> RowsOf(raw, File(r)),
   quarantine |-> IF BadRows[body[r]] = {} THEN {} ELSE RowsOf(quarantine, File(r))]

Replaced(r) ==
  [raw |-> RowsOf(raw, File(r)), quarantine |-> RowsOf(quarantine, File(r))]

(* The DELETEs see the rows committed by then.  Row locks make a second    *)
(* transaction wait, but never show it the rows the first one inserts.     *)
Load(r) ==
  /\ pc[r] = "load"
  /\ body[r] \notin Corrupt
  /\ dropped' = [dropped EXCEPT ![r] = Replaced(r)]
  /\ pc' = [pc EXCEPT ![r] = "commit"]
  /\ UNCHANGED <<dropzone, lake, tables, status, drops, faults, force, window, pos, source,
                 listed, body>>

BugEntryRead(r) ==
  [sha |-> dropzone[File(r)], rows |-> Cardinality(GoodRows[body[r]])]

Entry(r) == [sha |-> body[r], rows |-> Cardinality(GoodRows[body[r]])]

Commit(r) ==
  LET f == File(r)  good == GoodRows[body[r]]  bad == BadRows[body[r]]
  IN  /\ pc[r] = "commit"
      /\ raw' = (raw \ dropped[r].raw) \cup Rows(f, good, r)
      /\ quarantine' = (quarantine \ dropped[r].quarantine) \cup Rows(f, bad, r)
      /\ audit' = [audit EXCEPT ![f] = [loaded |-> Cardinality(good),
                                        rejected |-> Cardinality(bad)]]
      /\ registry' = [registry EXCEPT ![f] = Entry(r)]
      /\ NextFile(r)
      /\ UNCHANGED <<dropzone, lake, status, drops, faults>>

(* The run is over and its slot free. *)
Stop(r) ==
  /\ pc' = [pc EXCEPT ![r] = "idle"]
  /\ force' = [force EXCEPT ![r] = FALSE]
  /\ window' = [window EXCEPT ![r] = {}]
  /\ pos' = [pos EXCEPT ![r] = 1]
  /\ source' = [source EXCEPT ![r] = None]
  /\ listed' = [listed EXCEPT ![r] = {}]
  /\ body' = [body EXCEPT ![r] = None]
  /\ dropped' = [dropped EXCEPT ![r] = NoDrop]
  /\ UNCHANGED <<dropzone, lake, tables, drops>>

BugFinishStatus(r) ==
  /\ pc[r] = "scan" /\ pos[r] > Len(Listing)
  /\ status' = [status EXCEPT ![r] = "complete"]
  /\ Stop(r)
  /\ UNCHANGED faults

Finish(r) ==
  /\ pc[r] = "scan" /\ pos[r] > Len(Listing)
  /\ status' = [status EXCEPT ![r] = "completed"]
  /\ Stop(r)
  /\ UNCHANGED faults

(* parse_rows raises: the bytes are in the lake by then, the tables are not *)
(* touched, and the files after this one are not reached.                  *)
ParseError(r) ==
  /\ pc[r] = "load"
  /\ body[r] \in Corrupt
  /\ status' = [status EXCEPT ![r] = "failed"]
  /\ Stop(r)
  /\ UNCHANGED faults

Fail(r) ==
  /\ Active(r)
  /\ faults < MaxFaults
  /\ faults' = faults + 1
  /\ status' = [status EXCEPT ![r] = "failed"]
  /\ Stop(r)

Kill(r) ==
  /\ Active(r)
  /\ faults < MaxFaults
  /\ faults' = faults + 1
  /\ Stop(r)
  /\ UNCHANGED status

Step(r) ==
  \/ ListSource(r) \/ PassOver(r) \/ ReadBody(r) \/ Skip(r) \/ Take(r) \/ Upload(r)
  \/ Load(r) \/ ParseError(r) \/ Commit(r) \/ Finish(r)

Next ==
  \/ \E f \in Files, v \in Versions : Drop(f, v)
  \/ \E r \in Runs :
       \/ \E forced \in BOOLEAN, selected \in Windows : Start(r, forced, selected)
       \/ Step(r)
       \/ Fail(r)
       \/ Kill(r)

Spec == Init /\ [][Next]_vars

(* As long as somebody goes on starting nightly_pipeline (an unforced run  *)
(* over every file); a started process runs on until it ends or is killed. *)
FairSpec ==
  /\ Spec
  /\ \A r \in Runs : WF_vars(Step(r))
  /\ SF_vars(\E r \in Runs : Start(r, FALSE, Files))

-----------------------------------------------------------------------------
(* Correctness. *)

(* load.py: replaying the same object is a clean replace, never a          *)
(* duplication.  raw and quarantine hold exactly the rows of the version   *)
(* that ops.ingested_files names, each once, and the counts of the         *)
(* registry and of the audit are theirs.                                   *)
Holds(table, f, payloads) ==
  /\ {w.payload : w \in RowsOf(table, f)} = payloads
  /\ \A w1, w2 \in RowsOf(table, f) : w1.payload = w2.payload => w1 = w2

Good(v) == IF v = None THEN {} ELSE GoodRows[v]
Bad(v) == IF v = None THEN {} ELSE BadRows[v]

Clean(f) ==
  /\ Holds(raw, f, Good(registry[f].sha))
  /\ Holds(quarantine, f, Bad(registry[f].sha))
  /\ registry[f].rows = Cardinality(Good(registry[f].sha))
  /\ audit[f] = [loaded |-> Cardinality(Good(registry[f].sha)),
                 rejected |-> Cardinality(Bad(registry[f].sha))]

CleanReplace == \A f \in Files : Clean(f)

(* Whatever overlaps, fails or is killed, the rows of the version that the *)
(* registry names are in raw: a file that is skipped is not missing.       *)
RegisteredRowsPresent ==
  \A f \in Files :
    registry[f].sha # None =>
      GoodRows[registry[f].sha] \subseteq {w.payload : w \in RowsOf(raw, f)}

(* how-it-was-built.md: everything is landed in the lake first.  When the   *)
(* registry names a new version, that very version is the lake object.     *)
LakeFirst ==
  [][\A f \in Files : registry'[f] # registry[f] => lake[f] = registry'[f].sha]_vars

(* Once the sources are quiet, the nightly runs bring raw up to the files, *)
(* whatever failed before.  A file that does not parse fails every run     *)
(* where it stands, and keeps the files behind it out for good.            *)
CatchesUp ==
  \A f \in Files :
    <>[]((\A g \in Files : dropzone[g] \notin Corrupt) /\ dropzone[f] # None
           => registry[f].sha = dropzone[f])
=============================================================================
