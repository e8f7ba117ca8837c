# A TLA+ model of the fan unification platform

Specifications, TLC configurations and machine-checked proofs for
`fan-unification-platform`: a nightly pipeline that lands CRM records and
dropzone files in an object lake and in `raw`, stages them, unifies the
records of one person into a fan, builds a warehouse and gates it on SQL
checks. Paths below are those of the repository (`src/fanuni/...`,
`warehouse/...`).

## 1. Inventory

| Component | State | Operations | Talks to |
| --- | --- | --- | --- |
| CRM ingestion (`pipeline/flows.py` `ingest_salesforce`) | `ops.watermarks`, `raw.crm_*`, `raw.quarantine`, `ops.load_audit`, `ops.pipeline_runs`, lake objects `raw/crm/...` | start, read the watermark, fetch, upload, load and quarantine, commit with the new watermark, finish or mark failed | the CRM over HTTP, the lake, Postgres |
| Salesforce client and mock endpoint (`pipeline/salesforce.py`, `salesforce_mock/app.py`) | the org's records; the cursor of a query | token, query, next page | CRM ingestion |
| File ingestion (`flows.py` `ingest_file_sources`) | `ops.ingested_files`, `raw.*`, `raw.quarantine`, `ops.load_audit`, lake objects | list, read and hash, skip or upload, replace, register | the dropzone, the lake, Postgres |
| Union-find (`unification/deterministic.py`) | the parent map | find, union, clusters | the deterministic pass, `combine` |
| Unification (`deterministic.py`, `probabilistic.py`, `golden.py`, `run.py`) | `identity.fan_xref`, `identity.golden_fans` | cluster, combine with scored edges, survivorship, rewrite both tables | staging, Splink |
| Warehouse transform (`flows.py` `transform_warehouse`, `pipeline/sql_runner.py`, `warehouse/models`) | `staging.*`, `core.*`, `marts.*`, `ops.model_runs`, the grants | run the models in order, one commit each | `raw`, the identity tables |
| Quality gates (`pipeline/quality.py`) | `ops.dq_results`, `ops.pipeline_runs` | run the checks, enforce | the warehouse |
| Evaluation harness (`unification/evaluate.py`) | `ops.linkage_eval`, `ops.linkage_eval_tags`, `ops.linkage_cluster_truth`, `review_pairs.csv`, the reports | evaluate, sweep the threshold | staging, Splink, the ground truth |
| Synthetic data generator (`generator/`) | the dropzone, the mock org's files, the ground truth | generate: clear, draw, emit, write | file system only |
| Command line (`cli.py`) | — | the commands that start all of these | — |
| Splink matcher | — | score pairs | external to the repository |
| Site, scripts, containers, CI | — | — | not modelled, see section 8 |

The components share one Postgres database and one bucket, and nothing else:
no process sends another a message. Everything hard comes from that. A flow
reads the database, talks to the network for seconds or minutes, and writes
what it concluded; it can be killed anywhere, raise anywhere, be started a
second time, and the org and the dropzone change all the while. The code takes
no lock of its own; what order there is between two transforms comes from the
table locks that DDL and `TRUNCATE` take. Of the constraints the tables have, only
the keys of `ops.watermarks`, `ops.ingested_files` and `fact_email_engagement`
matter.

What makes each component correct:

- **CRM ingestion.** The watermark is a promise that everything up to it has
  been processed. No upstream record may end up behind it without being in
  `raw`, whatever is rejected, corrected in place (keeping its stamp), fetched
  by overlapping runs, or lost in a crash. Quarantine holds a standing reject
  once and a corrected one not at all; the lake has what the warehouse has;
  the audit counts what is there.
- **Client and endpoint.** A paged fetch is one look at the org.
- **File ingestion.** A file is skipped exactly when its bytes are loaded; a
  load is a replace; everything arrives in the end.
- **Union-find.** Whatever the order of calls, it maintains the partition the
  calls ask for and answers with the least member, because `fan_id` is derived
  from it.
- **Unification.** Clusters are the connected components of the two rules and
  the accepted edges; every record is in one; labels and ids follow.
- **Transform.** One current version per fan, facts that point at existing
  versions, a failed run that leaves readers something consistent.
- **Gates.** No run that failed an error check is reported as completed.
- **Evaluation.** Both variants and all thresholds are measured on the same
  records, the same pairs and the same predictions, and its outputs agree.
- **Generator.** The directories hold one generation, the record map knows
  every record, and tags and stamps say what was done.

`PROJECT.json` lists the hazards behind these at their lines, with the
properties that cover them.

## 2. Modules

| Module | Models | Composition |
| --- | --- | --- |
| `CrmIngest` | `ingest_salesforce`, any number of overlapping runs, and the org | — |
| `SalesforcePaging` | `query_all` against `_query_page`, page by page | justifies the atomic fetch of `CrmIngest` |
| `FileIngest` | `ingest_file_sources`, any number of overlapping runs, and the dropzone | — |
| `Partition` | what union-find promises (abstract) | — |
| `UnionFind` | `UnionFind`, one step per recursive call | implements `Partition` (`IsPartition`) |
| `Unification` | `deterministic_clusters`, `combine`, `materialize`, `write_identity_tables` | uses the operators of `Partition`, which `UnionFind` implements |
| `Evaluation` | `run_eval`, `run_threshold_sweep` | extends `Unification` with what is done to its clusters |
| `History` | what `core.dim_fan` promises (abstract) | — |
| `Warehouse` | transform, `--select`, gates, nightly and `unify` as interleaving jobs | implements `History` (`ImplementsHistory`); its snapshots stand for what ingestion loads and `Unification` makes of it |
| `Generator` | `generate` and its emitters | — |
| `MC...` | the instances TLC checks | |
| `CrmIngestProofs`, `SalesforcePagingProofs`, `FileIngestProofs`, `UnionFindProofs`, `UnificationProofs`, `WarehouseProofs`, `GeneratorProofs` | theorems | extend their module |
| `EvaluationProofs` | theorems | extends `Evaluation` and `UnificationProofs` |

Definitions whose name starts with `Bug` are not part of a model. Each is a
plausible mistake in the definition it precedes; replacing that definition by
it must break the property `PROJECT.json` pairs it with.

### CrmIngest

A run is a process with a program counter: `read` → `fetch` → `upload` →
`load` → `commit` for Contact, then for Opportunity, then `finish`. Each label
is a place where the code has just talked to the database, the API or the
lake, so other processes may act between any two.

| Code | Model |
| --- | --- |
| `start_run`, `stamp = now` | `Start`; `key[r]` is the stamp, hence the lake key and `source_file` |
| `after = None if full_refresh else get_watermark` | `ReadWatermark`; 0 is None |
| `fetch_sobject` | `FetchNothing`, `FetchRecords`; `Served` is `build_soql` and the filter of the endpoint |
| `upload_to_lake` | `Upload` |
| `replace_batch`, `supersede_quarantine`, `quarantine_rows` | `Load` decides what the DELETEs remove from what is committed by then (`dropped`); `Commit` makes deletes and inserts visible |
| `audit_load`, `next_watermark`, `set_watermark`, `commit` | `Commit` |
| `str(r["Id"])` on a record with no `Id` | `MissingId` |
| `except: mark_run_failed` | `Fail`, from any label; a kill without it is `Kill` |

A record is an Id, a stamp in seconds and a kind: what the contract, the
server's filter and `next_watermark` can tell apart. `ok` and `bad` do and do
not meet the contract; `unstamped` has a null stamp (served always, because
`"None"` sorts after every date), `nostamp` no stamp key (served only without
a watermark), `malformed` a string that is no timestamp and sorts after every
date: served always, and no ceiling for the watermark. A malformed string that
sorts before every date is served and holds the watermark exactly as `nostamp`, and
one among the dates as `bad`, so neither has a kind of its own. `nullid` and
`noid` are records without an Id. A contract that misses
a whole column rejects every row; since the rows then all lack it, each is
rejected on its own account too and the model needs no case for it. A
correction keeps its stamp, as the docstring of `next_watermark` says.

DELETE and INSERT are split because READ COMMITTED lets another transaction
commit between the statements. Two transactions that delete the same row wait
for each other, but the one that waited does not see what the first inserted,
which is what `dropped` expresses.

### SalesforcePaging

The cursor holds the query and an offset and the server evaluates the query
again for each page. `Position` is the index in `ORDER BY SystemModstamp, Id`,
so a page is a set of positions. `Retry` is the task's retry: it starts over.

### FileIngest

The same shape: `scan` → `check` → `upload` → `load` → `commit` per file.
`ListSource` takes the listing of a source when the run gets to it, so a file that
comes later is not seen by this run; the bytes are read file by file. A
version stands for the bytes and for their hash. `Windows` are the sets of
files the selection arguments (source, first and last month) can leave.
`by` in a row tells two copies of one row apart, since `raw` has no key.
`ParseError` is a body `parse_rows` raises on, after the upload.

### UnionFind and Partition

`find` is recursive and assigns as it returns, so the model keeps the call
stack: `Register` (`setdefault`), `Descend`, `AtRoot`, then one `Compress` per
returning call; `union` is two finds and `Link`. `class` is an auxiliary
variable that records what the calls so far ask for; `IsPartition` says that
with it the module implements `Partition`. It is updated by `Register` and
`Link` with the operators of `Partition` and read by no action of the code.
Refs are numbers in the order Python compares the strings.

### Unification and Evaluation

A job takes the fetched records one by one (`LinkRecord`: both rules, anchored
in `by_email` and `by_phone_surname`, which are one map `first` from match
keys), then the accepted edges one by one (`Combine`), and writes both tables
in one step (`Write`), since `write_identity_tables` commits once. `uf` is the
partition, changed by unions that name a class by its least member; that the
real parent map does this is what `UnionFind` shows. The order of records and
of edges is open: the database sorts by its collation, Python by code points,
and no property may depend on it.

| Code | Model |
| --- | --- |
| `fetch_identity_records`, `fold` | `UInit`: any assignment of profiles to refs; a name is its folded form, ranked alphabetically, and its spelling |
| `probabilistic_edges` | `Score`: any set of up to `MaxScored` pairs with any scores from the threshold up (Splink is external) |
| `combine`: methods and scores | `Method`, `Raised` |
| `fan_id_for`, `_mode_longest`, `build_golden` | `FanId`, `ModeLongest`, `LatestEmail`, `FirstDob`, `GoldenFan`; phone, city, state and zip survive as the name does |
| `run_eval` | `Evaluate`, then one action per output in the order of the code, two of which are transactions |
| `run_threshold_sweep` | `StartSweep`, then `Combine` and `SweepRow` per threshold, always from the same scores and deterministic classes |

`ClustersAreComponents` holds in every state, so also between two records: the
clusters of what has been processed are the connected components of the
evidence so far. It is stated by cuts (a set of records that no evidence leads
out of is a union of clusters) and so needs no closure operator.

### Warehouse and History

A job is the list of the steps it still has to do (`plan`), so that the nightly
flow is the transform followed by the gates, and `transform --select` a
subsequence. A step ends where the code commits: `run_models` commits after
each model, unification once, `grants.sql` with its own commit. The statements
of `dim_fan` share one transaction but see what others commit in between, so it
is four steps: `LockTable` (`CREATE TABLE` and `CREATE INDEX`), `CloseVersions`
(statements 1 and 2), `OpenVersions` and `CommitVersions` (statement 4 and the
commit).

What the locks of PostgreSQL forbid is a guard. `CREATE INDEX IF NOT EXISTS` locks
the table SHARE even when the index is there, and an `UPDATE` or `INSERT` locks it
ROW EXCLUSIVE; both last until the commit. SHARE goes with SHARE and not with ROW
EXCLUSIVE, so `LockTable` waits for a transaction that has updated, `CloseVersions`
for one that shares the table (`Unshared`), and two that share it wait for each
other until PostgreSQL aborts one (`Deadlocked`, in `Raise`). That is all that keeps
two transforms from opening two current versions of a fan. `TRUNCATE` of the
identity tables waits for a dim_fan transaction, which has read them. Of two
transactions that create the same table, or insert the same events, the second waits
for the first and raises if it commits (`Creating`, `KeyViolation`); the model lets it
raise at any moment while the other is at it.

The nine staging models commit one by one, each of the raw it finds. `StageSources`
is the last of them; when ingestion has committed among them, `staging` is of no
one raw but a mixture (`torn`), for which any snapshot stands, and `StageSome` is what
others see in between.

| Code | Model |
| --- | --- |
| staging models 10 to 50, then `80_identity_records` | `StageSome`, `StageSources`, `StageIdentity`: snapshots of raw |
| `run_unification` | `Unify`: the result `Unification` computes, given by the snapshot per mode |
| `20_dim_fan.sql` | `LockTable`, `CloseVersions`, `OpenVersions`, `CommitVersions` |
| `30_fact_ticket_sales.sql`, and the other rebuilt facts | `LoadTickets` |
| `33_fact_email_engagement.sql` | `LoadEmail`; the primary key is `KeyViolation` |
| `10_fan_360.sql`, `grants.sql` | `BuildMart`, `Grant` |
| `run_checks`, `enforce_gate`, the handler of `run_quality_gates` | `RunCheck`, `FinishRun`, `EnforceGate`, `Raise`, in the order of the code |
| a missing table, a deadlock, a violated key, a closed gate; an error; a kill | `Raise`; `Fail`; `Kill` |
| the runbook's `DROP TABLE` | `Rebuild` |

`History` is the abstract specification: one open version per fan, loads that
close and open in one step, closed versions frozen, keys that only grow. The
refinement mapping takes the current rows of `dim` for `open` and the others
for `closed`; an uncommitted transaction is not yet visible and a stutter.

### Generator

`generate` is sequential but can be killed anywhere and called again. A step
emits the records of one fan in one source (one order, for the sources with
several), or the events of one month, or writes the files of one kind; the
months' order matters to nothing, and a file cut off by a kill is as stale as a
whole one, because the next call clears it. A draw is any value the code can
draw, so the probabilities do not matter. A record keeps the address it shows
(`first`, `new`, the `household`'s), where it has a typo, its days and its
month; `TruthRow` is its row of `record_map.csv`. A typo may be tagged and not
show: `typo` returns a short name as it is and may swap two equal letters. A
timestamp is its day. The time of day is drawn for each on its own, so a contact may
well be stamped hours before its creation on the same day, and no property says
otherwise.

## 3. Runs

| Run | Question | Bounds |
| --- | --- | --- |
| `crm_overlap` | does interleaving strand a record, or make lake, raw and audit disagree? | 2 runs at once, 2 contacts, ok and bad, 3 seconds, full refreshes |
| `crm_serial` | do the watermark and quarantine stay right from run to run, over failures and kills? | 3 runs in turn, 2 contacts, ok, bad and unstamped, 3 seconds, 1 fault |
| `crm_objects` | do two objects in one run keep apart, and do runs settle? | 2 runs at once, 1 contact, 1 opportunity, ok and noid, 1 fault |
| `paging` | are the pages one look at the org? | 4 records, pages of 2, 1 retry, 4 seconds |
| `file_serial` | replace, lake first, catching up | 3 files of 2 sources, 3 versions (a bad row; its correction; unparseable), 4 rewrites, 1 fault, 1 run at a time |
| `file_overlap` | can a skipped file be missing? | 2 runs at once, 1 file, 2 versions, 3 rewrites, 1 fault |
| `unionfind` | is it the partition? | 5 refs, all call sequences |
| `evaluation` | are clusters, labels, golden records and every number of the evaluation right in any order? | 4 refs, 4 profiles, 2 scored pairs, 3 scores, 2 truths, 2 thresholds |
| `warehouse_history` | what do interleaved jobs, new data and rebuilds do to the history, the email fact and the mart? | 2 jobs at once, 3 starts, 2 ingestions, 1 rebuild, 3 refs, 3 snapshots (a fan moves; two merge, or split) |
| `warehouse_faults` | do grants, run status and locks survive failures and kills? | 2 jobs at once, 3 starts, 1 fault anywhere |
| `generator` | do files, truth, tags and stamps agree, over kills and repeated calls? | 2 fans of 4 kinds, 2 days (each a month), 1 match day, 2 calls, typos in the address or none; a duplicate contact, a further order or a second subscription only for the fan whose records come first (`MaxRecords`) |
| `crm_late` | a statement of the repository that the code does not keep | the smallest that shows it |

Why the bounds are enough: the CRM argument needs a record that is behind and
one that is ahead of it (two contacts), an extract before, during and after
(three seconds), and two runs whose steps interleave; each mutant, which is
the mistake the property is about, is caught within them, and the proofs of
section 6 remove the bounds for the properties that matter most. Five refs
give union-find chains of depth three with compression under way. Four records
give a chain by email, phone and edge, two clusters an edge can join, and a
record nothing links; the snapshots of the warehouse contain a change of an
attribute, a merge, the split that undoes it, and a mode that finds another
clustering, and three starts let one job overlap two. A month of one day is the
shortest in which the file of a row, the drift and a late delivery can differ. Symmetry is
used in runs without liveness only, on runs and contacts, which no action
orders.

`CHECK_DEADLOCK FALSE` is in the configurations of CRM, evaluation, warehouse
and generator: a run id is used once, a job or a call ends, and starts are
bounded, so the bounded system ends. (`JobsEnd` says what deadlock checking
would say of the warehouse.) File runs reuse their slots, and
union-find and paging always accept another call; deadlock is checked there.

### What the violation shows

`crm_late`: stamps have one-second resolution and the query is strict, so a
record stamped in the second of the watermark, after that second was extracted,
is stranded. `CrmIngest` with `LateWrites = FALSE`, the assumption of every
passing run and of the proof, is an org that does not do this.

### What else one constant decides

These are not kept as runs; change the constant to see them. Those that
disagree with a statement of the repository are findings in `PROJECT.json`.

- `Kinds = {"ok", "nostamp"}` with two runs in turn: a reject without the
  `SystemModstamp` key does not hold the watermark as `next_watermark` says:
  `WatermarkSafe` fails.
- `Kinds = {"ok", "malformed"}` in `crm_overlap`: a reject whose stamp is a string
  that sorts after every date does not hold the watermark, and its correction can
  lie behind: `WatermarkSafe` fails.
- `Kinds = {"ok", "nullid"}`: a standing reject with a null Id is quarantined
  once per run: `QuarantineNotDuplicated` fails.
- `Kinds = {"ok", "noid"}`: one record without an Id key fails every run that
  fetches it, although no fault is injected (`MissingId`).
- `CleanReplace` in `file_overlap`: overlapping file runs leave the rows of a
  file in `raw` twice.
- `Rebuilds` with `{"dim_fan"}` in `warehouse_history`: the keys start at 1
  again under the events of the old ones: `EmailKeepsItsFan` fails.
- `StuckFiles = TRUE` in `generator`: `rmtree` ignores its errors, and a file it
  could not remove stays beside the new ones: `OneGeneration` and
  `TruthCoversRecords` fail (one fan with tickets on two match days shows it in
  seconds).
- `SharedSeconds = TRUE` in `crm_overlap`: two runs of one second share a
  `source_file`, and the second to commit deletes what the first loaded, under
  a watermark that has moved: `WatermarkSafe` fails.
- `FullRefresh = TRUE` in `crm_serial`: a refresh compares with None, so while
  a reject stands it sets the watermark back: `WatermarkNeverRegresses` fails.
  That costs re-extraction only.
- `MaxActive = 2` in `crm_serial`: overlapping runs quarantine one reject each
  (`QuarantineNotDuplicated` fails), as with files.
- `Reedits = TRUE` in `paging`: a record that is restamped after its page was
  read moves to the end, the next page starts one record too late, and that
  record is skipped although later ones are accepted.
- The other hypotheses of section 6, on instances of two or three runs:
  `QuarantineCleared`, `WatermarkNeverRegresses` and `LakeFirst` fail with
  overlap, `QuarantineCleared` with `nullid` too; `LakeBacksWarehouse`,
  `AuditAccountsForRows` and `RawOnlyGrows` fail with `SharedSeconds`;
  `ExtractInv` and `CommitCatchesUp` with `LateWrites` and with `malformed`,
  `CommitCatchesUp` with `nostamp`; `NoRecordTwice` with `Reedits`.

## 4. Properties

Besides the type invariants of the two ingestion modules (`UTypeOK`, `WTypeOK`
and that of `SalesforcePaging` hold on the same instances and are not run on
their own): `WatermarkSafe` (with `CommitCatchesUp`
for the completeness of a commit), `WatermarkNeverRegresses`,
`QuarantineNotDuplicated`, `QuarantineCleared`, `LakeBacksWarehouse`,
`AuditAccountsForRows`, `RawOnlyGrows`, `RunsSettle`; `FetchIsSnapshot`,
`NoRecordTwice`; `CleanReplace`, `RegisteredRowsPresent`, `LakeFirst`,
`CatchesUp`; `IsPartition`, `UnionFindInv`; `ClustersAreComponents`,
`LabelsAreHonest`, `TablesAgree`, `GoldenSurvives`; `FullFindsNoLess`,
`PurityTellsThePrecision`, `SweepIsComparable`; `OneCurrent`,
`ImplementsHistory`, `EmailKeepsItsFan`, `NightlyDelivers`,
`GrantsAfterTransform`, `GateIsHonest`, `JobsEnd`; `OneGeneration`,
`TruthCoversRecords`, `MessIsTagged`, `UpdatesAreStamped`. Each is stated in words
above its definition.

`ExtractInv` is the strengthening that makes `WatermarkSafe` inductive; it is
checked as an invariant of its own because the promise a run carries from its
reads to its commit is what overlapping runs put at risk.

## 5. Fairness

- `CrmIngest` `FairSpec`: weak fairness on the steps of each run. A process
  that was started goes on; the HTTP client has a timeout and the retries are
  bounded. Failures and kills stay possible and are not fair; starting a run is
  not fair either. `RunsSettle` claims nothing for a run when something failed:
  a killed process does leave `running` behind.
- `FileIngest` `FairSpec`: the same, and strong fairness on starting an unforced run
  over all files: someone goes on starting the nightly flow (its cron was
  removed; it is started by hand). `CatchesUp` holds only under it, and only
  for a dropzone without an unparseable file, because such a file fails each run before the
  files behind it. Rewrites and faults are bounded, so "in the end" means after
  the last of them.
- `Warehouse` `FairSpec`: weak fairness on the steps of each job: a process that
  was started goes on, and PostgreSQL wakes a waiting transaction when the lock
  is free, or aborts one of two that wait for each other. A step that waits is not
  enabled, so `JobsEnd` says that nobody holds a lock for ever and that the two
  transforms which share `dim_fan` are the only ones to wait for each other: without
  the abort it fails. Starts, ingestion, rebuilds, failures and kills are not fair.
- Nothing is assumed of the org or of the sources. `Unification`, `Evaluation`
  and `Generator` are sequential and have no liveness to claim beyond ending.

## 6. Proofs

TLAPS checks these for every value of the constants that the named assumptions
allow. Each invariant that a passing run checks is stated by a theorem, and
so are the action properties and the two refinements; what is left to TLC is
in section 7. An inductive invariant that is no property of a run was checked with
TLC, on the instance of its module's run or a smaller one, before it was proved.

Two kinds of assumption occur. Those of the modules (`CrmAssumption`,
`PagingAssumption`, `RefsAssumption`, ...) say what the constants are: finitely
many records and a clock, page sizes and days that are numbers, snapshots whose
parts have the same records. TLC evaluates them on every run. The hypotheses of
a theorem are named in its `ASSUME`, and section 3 shows for each what happens
without it, except where stated below.

| Theorem | Property | Hypotheses |
| --- | --- | --- |
| `CrmIngestProofs` `TypeCorrect` | `TypeOK` | — |
| `WatermarkIsSafe`, `ExtractInvariant`, `CommitIsComplete` | `WatermarkSafe`, `ExtractInv`, `CommitCatchesUp` | `Assumptions`: `~LateWrites`, `~SharedSeconds`, no `nostamp`, no `malformed` |
| `LakeBacks`, `AuditAccounts`, `RawGrows` | `LakeBacksWarehouse`, `AuditAccountsForRows`, `RawOnlyGrows` | `~SharedSeconds` |
| `NotDuplicated`, `Cleared` | `QuarantineNotDuplicated`, `QuarantineCleared` | `Serial` (one run at a time), no `nullid` |
| `NeverRegresses` | `WatermarkNeverRegresses` | `Serial`, `~FullRefresh` |
| `SalesforcePagingProofs` `NotTwice`, `PagesAreSnapshot` | `NoRecordTwice`, `FetchIsSnapshot` | `~Reedits` |
| `FileIngestProofs` `FileTypeCorrect`, `RegisteredRowsArePresent` | `TypeOK`, `RegisteredRowsPresent` | — |
| `ReplaceIsClean`, `LakeIsFirst` | `CleanReplace`, `LakeFirst` | `~Overlap` |
| `UnionFindProofs` `UnionFindCorrect`, `RecursionEnds`, `UnionFindIsPartition` | `UnionFindInv`, `RecursionDescends`, `IsPartition` | — |
| `UnificationProofs` `ClustersCorrect`, `TablesCorrect`, `LabelsCorrect`, `GoldenCorrect` | `ClustersAreComponents`, `TablesAgree`, `LabelsAreHonest`, `GoldenSurvives` | — |
| `EvaluationProofs` `EvaluationKeepsClusters` | the same four, of `ESpec` | — |
| `FullFindsMore`, `SweepComparable`, `PurityCorrect` | `FullFindsNoLess`, `SweepIsComparable`, `PurityTellsThePrecision` | — |
| `WarehouseProofs` `TypeCorrect`, `OneCurrentCorrect`, `HistoryImplemented` | `WTypeOK`, `OneCurrent`, `ImplementsHistory` | — |
| `GateCorrect`, `GrantsCorrect` | `GateIsHonest`, `GrantsAfterTransform` | — |
| `EmailCorrect`, `NightlyCorrect` | `EmailKeepsItsFan`, `NightlyDelivers` | `DroppedTogether` |
| `GeneratorProofs` `UpdatesStamped`, `MessTagged` | `UpdatesAreStamped`, `MessIsTagged` | — |
| `OneGenerationKept`, `TruthCovers` | `OneGeneration`, `TruthCoversRecords` | `~StuckFiles` |

The arguments, module by module:

`CrmIngestProofs`. For the watermark, no second is stamped after it was
extracted, no two runs share a second, and every stamp is a date or null. Full
refreshes, overlap, failures, kills, every other kind of record and any number of
runs are covered. The inductive invariant is `ExtractInv`:

- `SecondsClosed`: no stamp is in the future, and no watermark is beyond the
  last extracted second, so a new stamp is after every watermark;
- `ReadSafe`: a record that is not in `raw` is stamped after the watermark a
  run has read, even if that watermark is no longer the stored one;
- `BatchSafe`: once the run has fetched, such a record is in its batch or
  stamped after all of the batch. An overlapping run can only land records,
  and a new stamp is in an open second, so the two survive other runs' steps;
- `KeysDistinct`, `RawKeyed`, `DropsNothing`: the DELETE of `replace_batch`
  matches nothing, so what landed stays.

At the commit, `NextWatermark` is an accepted stamp below every reject
(`NextWatermarkSafe`): a record still not in `raw` is a reject of the batch,
above it, or outside the batch, above all of it. `CommitCatchesUp` adds
`AfterSafe`, by which a record the extract did not ask for had landed already.

`LakeBacks`, `AuditAccounts` and `RawGrows` need less: `KeysInv` says that every
row and every audit row names a run that is past its object, so nobody writes
under that key again; `LakeInv` that what a run is about to load has been
uploaded. The quarantine holds under overlap neither way, so `NotDuplicated` and
`Cleared` are about runs in turn: `QuarantineInv` says that an extract has a
record once and that the DELETE of `supersede_quarantine` saw the quarantine its
INSERT adds to, `ClearedInv` that nothing in `raw` has a later key than the
active run and that its DELETE saw what `raw` holds under its own key, so that an
acceptance clears what is older, even if two runs in turn share a second. For `NeverRegresses`, `ReadsCurrent`
says that the watermark a run has read is still the stored one.

`SalesforcePagingProofs`. `PagingInv` says of an attempt in progress that its
pages hold current versions, that their number is the offset, and that what they
do not hold is served after all they hold (`Pages`). A record created meanwhile
is stamped in an open second and so is behind them, which is why the positions
of the next page are of the same order (`Position` counts what is before a
record; two lemmas show that it numbers the order without gaps).

`FileIngestProofs`. `RegisteredRowsArePresent` holds under overlap: a commit
writes the rows and the registry entry together, and any other commit deletes
only rows it saw and adds its own with its own entry. For `ReplaceIsClean` and
`LakeIsFirst` the invariant says that what the open transaction has deleted is
still all there is of the file, and that its body is the lake object.

`UnionFindProofs`. For any set of refs: `parent` links only refs of one class,
never to a greater ref, and the roots are the least members (`Represents`,
`ParentsDescend`); of the calls in progress, every ref on the stack is of the
class of the argument and `found` is its least member (`CallInv`). Compression
then hangs a ref below the root of its own class, and the stack descends
strictly, which is why the recursion ends.

`UnificationProofs`. `ClusterInv`: a class is numbered by its least member, every
key is anchored in the class of all processed records that have it (`Anchored`),
and the classes are the components of the evidence so far (`Components`). A
union of two classes gives the components of the evidence with one pair more,
wherever the pair lies in the two classes: that is the one lemma both passes
rest on. It needs no induction over paths, because components
are stated by cuts. `PassInv` keeps that the deterministic classes are those of
the rules alone, `ScoreInv` that a score is the best of the record's edges;
with them `LabelInv` says the tables are written from one state. That a mode
exists, or a newest address, is the minimality of a well-founded order on a
finite set.

`EvaluationProofs`. `EvaluationInv` adds that whatever has been measured was
measured of the components of the same predictions (`Measured`, `SweepInv`,
`ReportInv`). More evidence only joins, so predicted pairs grow with it:
`FullFindsNoLess` and the comparison of thresholds are inclusions of sets of pairs
and the monotonicity of their cardinalities.

`WarehouseProofs`. A plan is a sequence of which each two neighbours may follow
one another (`Chained`), so the step a job is at says what its flows have done:
`FlowsInv` (`GatesOK`, `TransformOK`). `DimInv` says that a job which writes
`dim_fan` has it alone: no other is past `CREATE INDEX` (`Alone`, which the two locks
keep inductive). So what a transaction has closed is what it would close now, because
`golden_fans` cannot change meanwhile either (`TxnOK`), and its new versions have
fresh keys and fans without a visible version (`OpenedOK`). From it a commit is a
load of `History` (`CommitLoads`), and every other step leaves the recorded versions alone. `EmailCorrect` and
`NightlyCorrect` assume `DroppedTogether`, that a rebuild which drops `dim_fan`
drops the email fact; section 3 says what the runbook's rebuild without it does. `NightInv` says of a job that nothing has disturbed that it is
at the k-th step of a nightly run and has done the k - 1 before it (`Done`), has
given up, or is no nightly run; what the last step leaves is then counted through
bijections between the fans, the current versions and the rows of the mart.

`GeneratorProofs`. `FansInv` types the population and the place in the
loops. `UpdatesAreStamped` is inductive with it; `MessIsTagged` through
`Tagged`, by which a record has a row of the truth that tells what it shows;
`OneGeneration` through `DiskInv`, by which the disk holds files of directories not
yet cleared or of kinds already written, and `ZipsFit`; `TruthCoversRecords`
through `RecordsInv` (ids are 1 to n, and so are those in the truth),
`FansCovered` (a fan the loops have passed has its row) and `Referred`.

## 7. Only model-checked

Liveness under fairness: `RunsSettle` of `CrmIngest`, `CatchesUp` of
`FileIngest`, `JobsEnd` of `Warehouse`. They are out of the prover's reach, which
has no rules for ENABLED. That the recursion of `find` ends is therefore
proved as a descent (`RecursionDescends`), not as a leads-to.

The violation is TLC's as well, and so are the consequences of other constants
listed in section 3: they are counterexamples, not theorems.

What the models take as given the proofs take as given: that a paged fetch is one
step of `CrmIngest` is justified by `PagesAreSnapshot` only for an org that
does not restamp a record between two pages, and that `Unification` may use a
partition for the parent map by `UnionFindIsPartition`. Neither is composed into one
theorem.

## 8. Not modelled

- Splink's scoring: a third-party statistical model trained on the data. What
  `Unification` gets from it is any set of scored pairs; its frame, comparisons
  and blocking rules (`prepare_frame`, `_splink_settings`, `nicknames.py`) only
  decide which.
- The staging queries. Warehouse has snapshots of raw in their place: which of
  two versions of a record staging shows is a window function, the rest
  reformats. The facts and marts beside tickets, email and `fan_360` follow the
  pattern of these.
- Four of the eight error checks (uniqueness and foreign keys of tables the
  model does not have) and the warnings, which stop nothing.
- Of the generator: names, prices and the mess that neither a count nor an
  address depends on; `entities.jsonl`, `campaigns.csv` and the manifest.
- The Markdown of the evaluation, `info`, `init-db` and the settings: wording and
  idempotent DDL.
- The contents of contracts, of lake objects and of SQL expressions that only
  reformat: the models keep what decides control.
- OAuth, `LIMIT`, malformed cursors and Prefect's own persistence.
- The site, its scripts, containers, Terraform and CI: presentation and
  deployment without state of the pipeline.

Three things a reader of the models might miss: the last household drawn may
make the population one larger than `config.fans`; an `open` or `click` may be
dated before its `send`, since each draws its own day; and a fan who is only in
ticketing has no record at all when no match was drawn.

## 9. Plan

1. An abstract specification of ingestion ("`raw` and quarantine follow the
   org") that `CrmIngest` implements, and its proof.
2. The composition of `SalesforcePaging` with `CrmIngest`: a fetch by pages as
   a refinement of the fetch in one step.
