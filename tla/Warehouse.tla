----------------------------- MODULE Warehouse -----------------------------
(***************************************************************************)
(* The transform (src/fanuni/pipeline/flows.py transform_warehouse,        *)
(* sql_runner.py, warehouse/models), the quality gates (quality.py) and    *)
(* the commands that run them (cli.py), as jobs that interleave on one     *)
(* database.                                                               *)
(*                                                                         *)
(* A job is the list of the steps it still has to do; a step ends where    *)
(* the code commits, except in dim_fan, whose statements see each other's  *)
(* commits.  Locks: unification reads staging.identity_records and writes  *)
(* the identity tables in one transaction, so nothing rebuilds the first   *)
(* in between; TRUNCATE waits for a dim_fan transaction, which reads       *)
(* golden_fans.  CREATE INDEX IF NOT EXISTS takes a SHARE lock on dim_fan, *)
(* and an UPDATE or INSERT a ROW EXCLUSIVE one, until the commit: SHARE    *)
(* locks go together, SHARE and ROW EXCLUSIVE do not, so two transactions  *)
(* that both got past the index wait for each other at the first UPDATE,   *)
(* and PostgreSQL aborts one.  A CREATE TABLE or an INSERT of a key waits  *)
(* for the transaction that creates the table or inserts the key, and      *)
(* raises when that one commits.                                           *)
(*                                                                         *)
(* Of a fan there is its id and one type-2 attribute, of the facts one     *)
(* order or one email event per source record.  A snapshot of raw is what  *)
(* unification will make of it (module Unification): the fan of every      *)
(* staged ref under each mode, and its attribute.                          *)
(***************************************************************************)
EXTENDS Integers, Sequences, FiniteSets

CONSTANTS
  Jobs,
  Snapshots,    \* what raw may hold: [fan |-> mode -> ref -> fan, attr |-> ...]
  Orders,       \* the refs that are ticket orders
  Subscribers,  \* the refs that are email subscribers, with one event each
  Selections,   \* the sets of models transform --select is called with
  Rebuilds,     \* the sets of incremental tables an operator drops together
  MaxStarts, MaxIngests, MaxRebuilds, MaxFaults

Modes == {"deterministic", "full"}

ASSUME SnapshotsAssumption ==
  \A s \in Snapshots :
    /\ DOMAIN s.fan = Modes /\ DOMAIN s.attr \subseteq Nat \ {0} /\ IsFiniteSet(DOMAIN s.attr)
    /\ \A m \in Modes :
         /\ DOMAIN s.fan[m] = DOMAIN s.attr
         /\ \A r \in DOMAIN s.attr : s.fan[m][r] \in DOMAIN s.attr

VARIABLES
  raw,      \* the snapshot ingestion has loaded
  stg,      \* the one staging.stg_* were built from
  ident,    \* the one staging.identity_records was built from
  xref,     \* identity.fan_xref: ref -> fan
  golden,   \* identity.golden_fans: fan -> [attr, n]
  dim,      \* core.dim_fan: a set of versions
  next,     \* the next value of its identity column
  tickets,  \* core.fact_ticket_sales: [order, key]
  email,    \* core.fact_email_engagement: event -> key
  mart,     \* marts.fan_360: its rows, and the job that built it
  granted,  \* the analyst role may read the marts
  built,    \* the tables that exist
  plan,     \* the steps a job still has to do
  txn,      \* its open dim_fan transaction
  status,   \* ops.pipeline_runs.status of a job's flows
  failing,  \* the checks of severity error that failed in its quality run
  starts, ingests, rebuilds, faults,
  torn,     \* the jobs among whose staging models ingestion has committed
  alone,    \* auxiliary: nothing else has happened since the job started
  loaded,   \* auxiliary: the fan an event's subscriber had when it was loaded
  ended     \* auxiliary: how a job ended

data == <<stg, ident, xref, golden, dim, next, tickets, email, mart, granted, built>>
counters == <<starts, ingests, rebuilds, faults>>
vars == <<raw, data, plan, txn, status, failing, counters, torn, alone, loaded, ended>>

Flows == {"transform-warehouse", "transform-select", "quality-gates"}
Checks == <<"one_current", "tickets_reconcile", "xref_covers", "xref_targets">>

-----------------------------------------------------------------------------
(* The commands, as lists of steps. *)

Step(kind, name) == [kind |-> kind, name |-> name]

(* discover_models: staging, core and marts, in the order of the prefixes. *)
Staging == <<Step("model", "stg"), Step("model", "ident")>>
DimFan ==
  <<Step("model", "index"), Step("model", "close"), Step("model", "open"),
    Step("model", "commit")>>
Downstream ==
  DimFan \o <<Step("model", "tickets"), Step("model", "email"), Step("model", "mart")>>

BugTransform(mode) ==
  <<Step("start", "transform-warehouse")>> \o Staging \o <<Step("unify", mode)>>
    \o Downstream \o <<Step("finish", "transform-warehouse"), Step("grant", "")>>

Transform(mode) ==
  <<Step("start", "transform-warehouse")>> \o Staging \o <<Step("unify", mode)>>
    \o Downstream \o <<Step("grant", ""), Step("finish", "transform-warehouse")>>

(* transform --select: the chosen models alone. *)
Only(S, name, steps) == IF name \in S THEN steps ELSE <<>>

Select(S) ==
  <<Step("start", "transform-select")>>
    \o Only(S, "stg", <<Step("model", "stg")>>)
    \o Only(S, "ident", <<Step("model", "ident")>>)
    \o Only(S, "dim_fan", DimFan)
    \o Only(S, "tickets", <<Step("model", "tickets")>>)
    \o Only(S, "email", <<Step("model", "email")>>)
    \o Only(S, "mart", <<Step("model", "mart")>>)
    \o <<Step("finish", "transform-select")>>

BugGates ==
  <<Step("start", "quality-gates"), Step("enforce", "")>>
    \o [k \in 1 .. Len(Checks) |-> Step("check", Checks[k])]
    \o <<Step("finish", "quality-gates")>>

Gates ==
  <<Step("start", "quality-gates")>>
    \o [k \in 1 .. Len(Checks) |-> Step("check", Checks[k])]
    \o <<Step("finish", "quality-gates"), Step("enforce", "")>>

(* nightly_pipeline; its ingestion is the raw that changes. *)
Nightly == Transform("full") \o Gates

Commands ==
  {Nightly, Transform("full"), Gates}
    \cup {<<Step("unify", m)>> : m \in Modes} \cup {Select(S) : S \in Selections}

-----------------------------------------------------------------------------
At(j, kind) == plan[j] # <<>> /\ Head(plan[j]).kind = kind
AtModel(j, name) == plan[j] # <<>> /\ Head(plan[j]) = Step("model", name)

Advance(j) == plan' = [plan EXCEPT ![j] = Tail(plan[j])]

(* Whatever j does is seen by the others. *)
Noticed(j) == alone' = [k \in Jobs |-> alone[k] /\ k = j]

NoTxn == [on |-> FALSE, closed |-> {}, opened |-> {}]

(* j has read golden_fans and locks dim_fan ROW EXCLUSIVE; j has it locked  *)
(* at all, SHARE at least.                                                  *)
InDimFan(j) == txn[j].on
Sharing(j) == AtModel(j, "close") \/ InDimFan(j)

(* Without an index to create, nobody would share it. *)
BugUnshared(j) == AtModel(j, "index") \/ AtModel(j, "close")

Unshared(j) == \A k \in Jobs \ {j} : ~Sharing(k)

Staged(s) == DOMAIN s.attr

Init ==
  /\ raw \in Snapshots /\ stg = raw /\ ident = raw
  /\ xref = [r \in {} |-> 0] /\ golden = [f \in {} |-> 0]
  /\ dim = {} /\ next = 1
  /\ tickets = {} /\ email = [e \in {} |-> 0]
  /\ mart = [rows |-> {}, by |-> "none"] /\ granted = FALSE
  /\ built = {}
  /\ plan = [j \in Jobs |-> <<>>] /\ txn = [j \in Jobs |-> NoTxn]
  /\ status = [j \in Jobs |-> [f \in Flows |-> "none"]]
  /\ failing = [j \in Jobs |-> {}]
  /\ starts = 0 /\ ingests = 0 /\ rebuilds = 0 /\ faults = 0
  /\ torn = {} /\ alone = [j \in Jobs |-> FALSE]
  /\ loaded = [e \in {} |-> 0] /\ ended = [j \in Jobs |-> "none"]

(* Ingestion commits, at any moment. *)
Ingest ==
  /\ ingests < MaxIngests
  /\ ingests' = ingests + 1
  /\ raw' \in Snapshots \ {raw}
  /\ alone' = [j \in Jobs |-> FALSE]
  /\ torn' = torn \cup {j \in Jobs : AtModel(j, "stg")}
  /\ UNCHANGED <<data, plan, txn, status, failing, starts, rebuilds, faults,
                 loaded, ended>>

(* The runbook's DROP TABLE of the incremental tables. *)
Rebuild(S) ==
  /\ rebuilds < MaxRebuilds /\ \A j \in Jobs : plan[j] = <<>>
  /\ S \subseteq built
  /\ rebuilds' = rebuilds + 1
  /\ built' = built \ S
  /\ alone' = [j \in Jobs |-> FALSE]
  /\ IF "dim_fan" \in S THEN dim' = {} /\ next' = 1 ELSE UNCHANGED <<dim, next>>
  /\ IF "email" \in S THEN email' = [e \in {} |-> 0] /\ loaded' = email'
     ELSE UNCHANGED <<email, loaded>>
  /\ UNCHANGED <<raw, stg, ident, xref, golden, tickets, mart, granted, plan, txn,
                 status, failing, starts, ingests, faults, torn, ended>>

Start(j) ==
  /\ plan[j] = <<>> /\ starts < MaxStarts
  /\ starts' = starts + 1
  /\ \E c \in Commands : plan' = [plan EXCEPT ![j] = c]
  /\ status' = [status EXCEPT ![j] = [f \in Flows |-> "none"]]
  /\ failing' = [failing EXCEPT ![j] = {}]
  /\ ended' = [ended EXCEPT ![j] = "none"]
  /\ alone' = [k \in Jobs |-> k = j /\ \A i \in Jobs : plan[i] = <<>>]
  /\ torn' = torn \ {j}
  /\ UNCHANGED <<raw, data, txn, ingests, rebuilds, faults, loaded>>

StartRun(j) ==
  /\ At(j, "start")
  /\ Advance(j)
  /\ status' = [status EXCEPT ![j][Head(plan[j]).name] = "running"]
  /\ UNCHANGED <<raw, data, txn, failing, counters, torn, alone, loaded, ended>>

FinishRun(j) ==
  /\ At(j, "finish")
  /\ Advance(j)
  /\ status' = [status EXCEPT ![j][Head(plan[j]).name] = "completed"]
  /\ ended' = [ended EXCEPT ![j] = IF Len(plan[j]) = 1 THEN "ok" ELSE ended[j]]
  /\ UNCHANGED <<raw, data, txn, failing, counters, torn, alone, loaded>>

-----------------------------------------------------------------------------
(* The models. *)

(* The nine models of the sources commit one by one, each of the raw it     *)
(* finds: once ingestion has committed among them, they are of no one raw,  *)
(* but of some snapshot it might have been.                                 *)
StageSome(j) ==
  /\ AtModel(j, "stg") /\ "stg" \in built
  /\ stg # raw \/ j \in torn
  /\ Noticed(j)
  /\ stg' \in Snapshots
  /\ UNCHANGED <<raw, ident, xref, golden, dim, next, tickets, email, mart, granted,
                 built, plan, txn, status, failing, counters, torn, loaded, ended>>

StageSources(j) ==
  /\ AtModel(j, "stg")
  /\ Advance(j) /\ Noticed(j)
  /\ \E s \in Snapshots : (s = raw \/ j \in torn) /\ stg' = s
  /\ built' = built \cup {"stg"}
  /\ torn' = torn \ {j}
  /\ UNCHANGED <<raw, ident, xref, golden, dim, next, tickets, email, mart, granted,
                 txn, status, failing, counters, loaded, ended>>

StageIdentity(j) ==
  /\ AtModel(j, "ident") /\ "stg" \in built
  /\ Advance(j) /\ Noticed(j)
  /\ ident' = stg
  /\ built' = built \cup {"ident"}
  /\ UNCHANGED <<raw, stg, xref, golden, dim, next, tickets, email, mart, granted,
                 txn, status, failing, counters, torn, loaded, ended>>

(* run_unification. *)
Unify(j) ==
  LET fan == ident.fan[Head(plan[j]).name]
  IN /\ At(j, "unify") /\ "ident" \in built
     /\ \A k \in Jobs : ~InDimFan(k)
     /\ Advance(j) /\ Noticed(j)
     /\ xref' = fan
     /\ golden' = [f \in {fan[r] : r \in Staged(ident)} |->
                     [attr |-> ident.attr[f],
                      n |-> Cardinality({r \in Staged(ident) : fan[r] = f})]]
     /\ ended' = [ended EXCEPT ![j] = IF Len(plan[j]) = 1 THEN "ok" ELSE ended[j]]
     /\ UNCHANGED <<raw, stg, ident, dim, next, tickets, email, mart, granted, built,
                    txn, status, failing, counters, torn, loaded>>

Current(versions) == {v \in versions : v.current}

(* CREATE TABLE and CREATE INDEX IF NOT EXISTS. *)
LockTable(j) ==
  /\ AtModel(j, "index")
  /\ \A k \in Jobs \ {j} : ~InDimFan(k)
  /\ "dim_fan" \in built \/ Unshared(j)
  /\ Advance(j)
  /\ UNCHANGED <<raw, data, txn, status, failing, counters, torn, alone, loaded, ended>>

(* Statements 1 and 2: close what changed and what left the golden set. *)
Closable(v) == v.fan \notin DOMAIN golden \/ golden[v.fan].attr # v.attr

CloseVersions(j) ==
  LET keys == {v.key : v \in {w \in Current(dim) : Closable(w)}}
  IN /\ AtModel(j, "close")
     /\ Unshared(j)
     /\ Advance(j)
     /\ txn' = [txn EXCEPT ![j] = [on |-> TRUE, closed |-> keys, opened |-> {}]]
     /\ UNCHANGED <<raw, data, status, failing, counters, torn, alone, loaded, ended>>

(* Statement 3: open versions of the fans without a current one that j can  *)
(* see.                                                                     *)
Visible(j) == {v \in Current(dim) : v.key \notin txn[j].closed}

Missing(j) == DOMAIN golden \ {v.fan : v \in Visible(j)}

KeyOf(f, fans) == next + Cardinality({g \in fans : g < f})

OpenVersions(j) ==
  LET fans == Missing(j)
  IN /\ AtModel(j, "open")
     /\ Advance(j)
     /\ txn' = [txn EXCEPT ![j].opened =
          {[key |-> KeyOf(f, fans), fan |-> f, attr |-> golden[f].attr,
            n |-> golden[f].n, current |-> TRUE] : f \in fans}]
     /\ next' = next + Cardinality(fans)
     /\ UNCHANGED <<raw, stg, ident, xref, golden, dim, tickets, email, mart, granted,
                    built, status, failing, counters, torn, alone, loaded, ended>>

(* Statement 4, and the commit of run_models. *)
BugRefreshed(j, v) == v.fan \in DOMAIN golden

Refreshed(j, v) == v \in Visible(j) /\ v.fan \in DOMAIN golden

BugCommitted(j) ==
  {[v EXCEPT !.n = IF Refreshed(j, v) THEN golden[v.fan].n ELSE v.n]
     : v \in Visible(j)} \cup txn[j].opened

Committed(j) ==
  {[v EXCEPT
      !.current = v.current /\ v.key \notin txn[j].closed,
      !.n = IF Refreshed(j, v) THEN golden[v.fan].n ELSE v.n]
     : v \in dim} \cup txn[j].opened

CommitVersions(j) ==
  /\ AtModel(j, "commit")
  /\ Advance(j) /\ Noticed(j)
  /\ dim' = Committed(j)
  /\ txn' = [txn EXCEPT ![j] = NoTxn]
  /\ built' = built \cup {"dim_fan"}
  /\ UNCHANGED <<raw, stg, ident, xref, golden, next, tickets, email, mart, granted,
                 status, failing, counters, torn, loaded, ended>>

(* The versions a fact joins to. *)
VersionsOf(r) ==
  {v \in Current(dim) : r \in DOMAIN xref /\ v.fan = xref[r]}

LoadTickets(j) ==
  /\ AtModel(j, "tickets") /\ {"stg", "dim_fan"} \subseteq built
  /\ Advance(j) /\ Noticed(j)
  /\ tickets' = UNION {{[order |-> o, key |-> v.key] : v \in VersionsOf(o)}
                         : o \in Orders \cap Staged(stg)}
  /\ built' = built \cup {"tickets"}
  /\ UNCHANGED <<raw, stg, ident, xref, golden, dim, next, email, mart, granted,
                 txn, status, failing, counters, torn, loaded, ended>>

(* Append-only: events that are not there yet.  An event that joins to two  *)
(* versions violates the key.                                               *)
NewEvents ==
  {e \in (Subscribers \cap Staged(stg)) \ DOMAIN email : VersionsOf(e) # {}}

JoinsTwice == \E e \in NewEvents : Cardinality(VersionsOf(e)) > 1

LoadEmail(j) ==
  /\ AtModel(j, "email") /\ {"stg", "dim_fan"} \subseteq built
  /\ ~JoinsTwice
  /\ Advance(j) /\ Noticed(j)
  /\ email' = [e \in DOMAIN email \cup NewEvents |->
                 IF e \in DOMAIN email THEN email[e]
                 ELSE (CHOOSE v \in VersionsOf(e) : TRUE).key]
  /\ loaded' = [e \in DOMAIN email' |->
                  IF e \in DOMAIN email THEN loaded[e] ELSE xref[e]]
  /\ built' = built \cup {"email"}
  /\ UNCHANGED <<raw, stg, ident, xref, golden, dim, next, tickets, mart, granted,
                 txn, status, failing, counters, torn, ended>>

(* The events of a fan, whichever of its versions they were loaded with. *)
BugEmailsOf(v) == {e \in DOMAIN email : email[e] = v.key}
EmailsOf(v) == {e \in DOMAIN email : \E w \in dim : w.key = email[e] /\ w.fan = v.fan}

(* Rebuilding a mart drops its grants. *)
BuildMart(j) ==
  /\ AtModel(j, "mart") /\ {"dim_fan", "tickets", "email"} \subseteq built
  /\ Advance(j) /\ Noticed(j)
  /\ mart' = [rows |->
       {[key |-> v.key, fan |-> v.fan, attr |-> v.attr,
         tickets |-> Cardinality({t \in tickets : t.key = v.key}),
         emails |-> Cardinality(EmailsOf(v))]
          : v \in Current(dim)}, by |-> j]
  /\ granted' = FALSE
  /\ built' = built \cup {"mart"}
  /\ UNCHANGED <<raw, stg, ident, xref, golden, dim, next, tickets, email,
                 txn, status, failing, counters, torn, loaded, ended>>

(* grants.sql. *)
Grant(j) ==
  /\ At(j, "grant")
  /\ Advance(j) /\ Noticed(j)
  /\ granted' = TRUE
  /\ UNCHANGED <<raw, stg, ident, xref, golden, dim, next, tickets, email, mart, built,
                 txn, status, failing, counters, torn, loaded, ended>>

-----------------------------------------------------------------------------
(* The quality gates. *)

Passes(check) ==
  CASE check = "one_current" ->
         \A v, w \in Current(dim) : v.fan = w.fan => v = w
    [] check = "tickets_reconcile" ->
         Cardinality(Orders \cap Staged(stg)) = Cardinality(tickets)
    [] check = "xref_covers" -> Staged(ident) \subseteq DOMAIN xref
    [] check = "xref_targets" ->
         \A r \in DOMAIN xref :
           xref[r] \in DOMAIN golden /\ \E v \in Current(dim) : v.fan = xref[r]

RunCheck(j) ==
  /\ At(j, "check") /\ {"stg", "ident", "dim_fan", "tickets", "email"} \subseteq built
  /\ Advance(j)
  /\ failing' = [failing EXCEPT ![j] =
       IF Passes(Head(plan[j]).name) THEN failing[j]
       ELSE failing[j] \cup {Head(plan[j]).name}]
  /\ UNCHANGED <<raw, data, txn, status, counters, torn, alone, loaded, ended>>

EnforceGate(j) ==
  /\ At(j, "enforce") /\ failing[j] = {}
  /\ Advance(j)
  /\ ended' = [ended EXCEPT ![j] = "ok"]
  /\ UNCHANGED <<raw, data, txn, status, failing, counters, torn, alone, loaded>>

-----------------------------------------------------------------------------
(* Errors.  The process that raises rolls back and marks its run failed,    *)
(* completed or not; unify on its own has no run.  A killed one does not.   *)

OpenFlow(j) ==
  CASE \E k \in 1 .. Len(plan[j]) : plan[j][k].kind \in {"check", "enforce"}
         /\ status[j]["quality-gates"] # "none" -> {"quality-gates"}
    [] OTHER -> {f \in Flows : status[j][f] = "running"}

BugMarkedFailed(j) ==
  /\ plan' = [plan EXCEPT ![j] = <<>>]
  /\ status' = [status EXCEPT ![j] =
       [f \in Flows |-> IF f \in OpenFlow(j) THEN "failed" ELSE status[j][f]]]
  /\ ended' = [ended EXCEPT ![j] = "raised"]
  /\ UNCHANGED <<raw, data, txn, failing, torn, alone, loaded>>

MarkedFailed(j) ==
  /\ plan' = [plan EXCEPT ![j] = <<>>]
  /\ txn' = [txn EXCEPT ![j] = NoTxn]
  /\ status' = [status EXCEPT ![j] =
       [f \in Flows |-> IF f \in OpenFlow(j) THEN "failed" ELSE status[j][f]]]
  /\ ended' = [ended EXCEPT ![j] = "raised"]
  /\ UNCHANGED <<raw, data, failing, torn, alone, loaded>>

(* What the step needs is not there; another transaction creates the same   *)
(* table, or inserts the same events, and commits first; PostgreSQL breaks  *)
(* the tie of two that both share dim_fan and want to update it; or the     *)
(* gate closes.                                                             *)
Needs(name) ==
  CASE name = "ident" -> {"stg"}
    [] name \in {"tickets", "email"} -> {"stg", "dim_fan"}
    [] name = "mart" -> {"dim_fan", "tickets", "email"}
    [] OTHER -> {}

Creating(j) ==
  \/ AtModel(j, "index") /\ "dim_fan" \notin built /\ ~Unshared(j)
  \/ \E name \in {"stg", "ident", "tickets", "email", "mart"} \ built :
       AtModel(j, name) /\ \E k \in Jobs \ {j} : AtModel(k, name)

KeyViolation(j) ==
  /\ AtModel(j, "email") /\ {"stg", "dim_fan"} \subseteq built
  /\ \/ JoinsTwice
     \/ NewEvents # {} /\ \E k \in Jobs \ {j} : AtModel(k, "email")

Deadlocked(j) == AtModel(j, "close") /\ \E k \in Jobs \ {j} : AtModel(k, "close")

Raise(j) ==
  /\ \/ At(j, "model") /\ ~(Needs(Head(plan[j]).name) \subseteq built)
     \/ At(j, "unify") /\ "ident" \notin built
     \/ Creating(j) \/ KeyViolation(j) \/ Deadlocked(j)
     \/ At(j, "check") /\ ~({"stg", "ident", "dim_fan", "tickets", "email"} \subseteq built)
     \/ At(j, "enforce") /\ failing[j] # {}
  /\ MarkedFailed(j)
  /\ UNCHANGED counters

Fail(j) ==
  /\ plan[j] # <<>> /\ faults < MaxFaults
  /\ faults' = faults + 1
  /\ MarkedFailed(j)
  /\ UNCHANGED <<starts, ingests, rebuilds>>

Kill(j) ==
  /\ plan[j] # <<>> /\ faults < MaxFaults
  /\ faults' = faults + 1
  /\ plan' = [plan EXCEPT ![j] = <<>>]
  /\ txn' = [txn EXCEPT ![j] = NoTxn]
  /\ ended' = [ended EXCEPT ![j] = "killed"]
  /\ UNCHANGED <<raw, data, status, failing, starts, ingests, rebuilds, torn, alone, loaded>>

JobStep(j) ==
  \/ StartRun(j) \/ FinishRun(j)
  \/ StageSources(j) \/ StageIdentity(j) \/ Unify(j)
  \/ LockTable(j) \/ CloseVersions(j) \/ OpenVersions(j) \/ CommitVersions(j)
  \/ LoadTickets(j) \/ LoadEmail(j) \/ BuildMart(j) \/ Grant(j)
  \/ RunCheck(j) \/ EnforceGate(j) \/ Raise(j)

Next ==
  \/ Ingest
  \/ \E S \in Rebuilds : Rebuild(S)
  \/ \E j \in Jobs : Start(j) \/ StageSome(j) \/ JobStep(j) \/ Fail(j) \/ Kill(j)

Spec == Init /\ [][Next]_vars
FairSpec == Spec /\ \A j \in Jobs : WF_vars(JobStep(j))

-----------------------------------------------------------------------------
(* Correctness. *)

(* The types, and that the key of dim_fan is one. *)
WTypeOK ==
  /\ raw \in Snapshots /\ stg \in Snapshots /\ ident \in Snapshots
  /\ \A v \in dim :
       /\ v.key \in 1 .. next - 1 /\ v.current \in BOOLEAN
       /\ \A w \in dim : v.key = w.key => v = w
  /\ DOMAIN email = DOMAIN loaded /\ DOMAIN email \subseteq Subscribers
  /\ \A j \in Jobs :
       /\ \A f \in Flows : status[j][f] \in {"none", "running", "completed", "failed"}
       /\ failing[j] \subseteq {Checks[k] : k \in DOMAIN Checks}
       /\ ended[j] \in {"none", "ok", "raised", "killed"}
       /\ txn[j] # NoTxn => AtModel(j, "open") \/ AtModel(j, "commit")
  /\ granted \in BOOLEAN /\ torn \subseteq Jobs

(* A fan has one current version ("exactly one current version per fan_id", *)
(* error__dim_fan_one_current.sql), however transforms, unification and     *)
(* crashes interleave: no unique index forbids a second one, the lock of    *)
(* CREATE INDEX keeps a transform from opening it beside another.           *)
OneCurrent == \A v, w \in Current(dim) : v.fan = w.fan => v = w

Past(versions) == versions \ Current(versions)

Recorded(versions) ==
  {[key |-> v.key, fan |-> v.fan, attr |-> v.attr, n |-> v.n] : v \in versions}

H == INSTANCE History WITH open <- Recorded(Current(dim)), closed <- Recorded(Past(dim))

(* dim_fan keeps the history History promises: its transactions appear as   *)
(* one step, a load that changes nothing opens nothing, the past is never   *)
(* rewritten, and the type-1 refresh is for current versions only.          *)
ImplementsHistory == H!Spec

(* An event keeps its fan ("rows already loaded keep their original         *)
(* fan_key"): the version it was loaded with is there and is still the      *)
(* version of the fan its subscriber had then.                              *)
EmailKeepsItsFan ==
  \A e \in DOMAIN email : \E v \in dim : v.key = email[e] /\ v.fan = loaded[e]

(* The analyst can read the mart once the transform that built it last has  *)
(* completed: building it drops the grants, and only the transform flow     *)
(* gives them back (grants.sql).                                            *)
GrantsAfterTransform ==
  \A j \in Jobs :
    mart.by = j /\ status[j]["transform-warehouse"] = "completed" => granted

(* A job that was not killed leaves a quality run that is completed exactly *)
(* when all its error checks passed, although it is committed as completed  *)
(* before the gate is enforced.                                             *)
GateIsHonest ==
  \A j \in Jobs :
    ended[j] \in {"ok", "raised"} /\ status[j]["quality-gates"] # "none" =>
      /\ status[j]["quality-gates"] \in {"completed", "failed"}
      /\ status[j]["quality-gates"] = "completed" => failing[j] = {} /\ ended[j] = "ok"
      /\ failing[j] # {} => ended[j] = "raised"

(* A nightly run that succeeded undisturbed has delivered raw: the mart has *)
(* one row for every fan, with its attributes, its ticket orders and all    *)
(* events loaded under it, whichever version was current then; and no event *)
(* of a subscriber is missing.                                              *)
NightlyDelivers ==
  \A j \in Jobs :
    LET fan == raw.fan["full"]
        fans == {fan[r] : r \in Staged(raw)}
    IN ended[j] = "ok" /\ alone[j] /\ status[j]["transform-warehouse"] = "completed"
         /\ status[j]["quality-gates"] = "completed" =>
         /\ Cardinality(mart.rows) = Cardinality(fans)
         /\ {row.fan : row \in mart.rows} = fans
         /\ Subscribers \cap Staged(raw) \subseteq DOMAIN email
         /\ \A row \in mart.rows :
              /\ row.attr = raw.attr[row.fan]
              /\ row.tickets = Cardinality({o \in Orders \cap Staged(raw) : fan[o] = row.fan})
              /\ row.emails = Cardinality({e \in DOMAIN email : loaded[e] = row.fan})

(* Every job ends: two transforms that wait for each other at the first     *)
(* UPDATE of dim_fan are the only cycle of waits, one of them is aborted,   *)
(* and whoever holds a lock gives it back, also by failing.                 *)
JobsEnd == \A j \in Jobs : plan[j] # <<>> ~> plan[j] = <<>>
=============================================================================
