---------------------------- MODULE Unification ----------------------------
(***************************************************************************)
(* src/fanuni/unification: from identity records to fans.                  *)
(*                                                                         *)
(* A job fetches the identity records (fetch_identity_records), links them *)
(* one by one by the two exact rules (deterministic_clusters), takes what  *)
(* Splink scored (probabilistic_edges), links along the edges that are     *)
(* good enough (combine), and writes the cross-reference and the golden    *)
(* records in one transaction (materialize, write_identity_tables).        *)
(*                                                                         *)
(* Refs are numbers, in the order Python compares the strings, and fan_id  *)
(* is the ref it is the hash of.  The order in which records and edges are *)
(* taken is left open: the database sorts by its collation, Python by code *)
(* points.  Splink is external: any scores may come back.                  *)
(***************************************************************************)
EXTENDS Integers, FiniteSets

CONSTANTS
  Refs,       \* the refs that may be staged
  Profiles,   \* what a staged record may hold (Profile)
  Scores,     \* the scores Splink may return, from 1 (0.5) up
  AutoMerge,  \* UnifyConfig.auto_merge_threshold
  Review,     \* UnifyConfig.review_threshold
  MaxScored   \* the greatest number of pairs Splink scores

ASSUME RefsAssumption == Refs \subseteq Nat \ {0} /\ IsFiniteSet(Refs)
ASSUME ScoresAssumption ==
  /\ Scores \subseteq Nat \ {0}
  /\ AutoMerge \in Nat /\ Review \in Nat /\ Review <= AutoMerge

VARIABLES
  pc,       \* what the job does next
  records,  \* the fetched records: a profile for each staged ref
  left,     \* the refs deterministic_clusters has not come to
  first,    \* by_email and by_phone_surname: the ref that first had the key
  uf,       \* the union-find, as Partition abstracts it
  det,      \* the classes deterministic_clusters returned
  mode,     \* "deterministic", "full" or "sweep"; "none" before it matters
  scored,   \* Splink's predictions: a score for each pair it returned
  kept,     \* the edges combine is given
  todo,     \* those of them it has not come to
  score,    \* score_by_ref; 0 for a ref without an accepted edge
  xref,     \* identity.fan_xref
  golden    \* identity.golden_fans

passVars == <<left, first, det>>
edgeVars == <<mode, scored, kept, todo, score>>
tables == <<xref, golden>>
uvars == <<pc, records, uf, passVars, edgeVars, tables>>

P == INSTANCE Partition WITH Items <- Refs, class <- uf, answer <- 0

(* A name is its folded form, ranked alphabetically (0 when nothing is     *)
(* left of it), and its spelling, ranked by (length, text).  0 is None.    *)
NoName == [fold |-> 0, text |-> 0]

Profile == [email : Nat, phone : Nat, last : [fold : Nat, text : Nat],
            dob : Nat, observed : Nat]

ASSUME ProfilesAssumption == Profiles \subseteq Profile

Staged == DOMAIN records

-----------------------------------------------------------------------------
(* The deterministic rules. *)

(* fan_id_for; also the first of some records sorted by ref. *)
BugFanId(S) == CHOOSE r \in S : \A x \in S : x <= r

FanId(S) == CHOOSE r \in S : \A x \in S : r <= x

(* The match keys of a record: rule 1 and rule 2. *)
Keys(p) ==
  (IF p.email # 0 THEN {<<"email", p.email, 0>>} ELSE {})
  \cup (IF p.phone # 0 /\ p.last.fold # 0
        THEN {<<"phone", p.phone, p.last.fold>>} ELSE {})

AllKeys == UNION {Keys(p) : p \in Profiles}

KeysOf(r) == Keys(records[r])

(* by_email.setdefault, by_phone_surname.setdefault *)
Setdefault(r) ==
  [k \in AllKeys |-> IF k \in KeysOf(r) /\ first[k] = 0 THEN r ELSE first[k]]

(* union: the classes of the refs in S become one, named by the least ref. *)
BugLinkedRecords(c, S) ==
  [x \in Refs |-> IF x \in S THEN FanId({c[y] : y \in S}) ELSE c[x]]

Linked(c, S) ==
  LET roots == {c[x] : x \in S}
  IN [x \in Refs |-> IF c[x] \in roots THEN FanId(roots) ELSE c[x]]

Classes(c) == {{x \in Refs : c[x] = m} : m \in {c[x] : x \in Refs} \ {0}}

UInit ==
  /\ pc = "link"
  /\ \E S \in SUBSET Refs : records \in [S -> Profiles] /\ left = S
  /\ first = [k \in AllKeys |-> 0]
  /\ uf = [r \in Refs |-> 0]
  /\ det = {} /\ mode = "none"
  /\ scored = [e \in {} |-> 0] /\ kept = {} /\ todo = {}
  /\ score = [r \in Refs |-> 0]
  /\ xref = [r \in {} |-> 0] /\ golden = [r \in {} |-> 0]

(* One turn of the loop of deterministic_clusters. *)
LinkRecord(r) ==
  /\ pc = "link" /\ r \in left
  /\ left' = left \ {r}
  /\ first' = Setdefault(r)
  /\ uf' = Linked(P!Registered(uf, r), {r} \cup {first'[k] : k \in KeysOf(r)})
  /\ UNCHANGED <<pc, records, det, edgeVars, tables>>

PassDone ==
  /\ pc = "link" /\ left = {}
  /\ det' = Classes(uf)
  /\ pc' = "score"
  /\ first' = [k \in AllKeys |-> 0]
  /\ UNCHANGED <<records, left, uf, edgeVars, tables>>

-----------------------------------------------------------------------------
(* The probabilistic pass. *)

Pairs(S) == {e \in SUBSET S : Cardinality(e) = 2}

(* What Splink may return when asked for scores of at least t. *)
Predictions(t) ==
  UNION {[E -> {s \in Scores : s >= t}] :
           E \in {D \in SUBSET Pairs(Staged) : Cardinality(D) <= MaxScored}}

Edges(s, t) == {e \in DOMAIN s : s[e] >= t}

(* run_unification(mode="deterministic") stops after the exact rules. *)
Deterministic ==
  /\ pc = "score"
  /\ mode' = "deterministic"
  /\ pc' = "label"
  /\ UNCHANGED <<records, uf, passVars, scored, kept, todo, score, tables>>

(* Splink returns, and combine starts: uniting the deterministic clusters  *)
(* again gives the classes uf already has.                                 *)
Score ==
  /\ pc = "score"
  /\ scored' \in Predictions(Review)
  /\ mode' = "full"
  /\ kept' = Edges(scored', AutoMerge) /\ todo' = kept'
  /\ pc' = "combine"
  /\ UNCHANGED <<records, uf, passVars, score, tables>>

Raised(e) ==
  [r \in Refs |-> IF r \in e /\ score[r] < scored[e] THEN scored[e] ELSE score[r]]

Combine(e) ==
  /\ pc = "combine" /\ e \in todo
  /\ todo' = todo \ {e}
  /\ uf' = Linked(uf, e)
  /\ score' = Raised(e)
  /\ UNCHANGED <<pc, records, passVars, mode, scored, kept, tables>>

Combined ==
  /\ pc = "combine" /\ mode = "full" /\ todo = {}
  /\ pc' = "label"
  /\ UNCHANGED <<records, uf, passVars, edgeVars, tables>>

-----------------------------------------------------------------------------
(* Labels, fan ids and golden records. *)

Members(r) == {x \in Staged : uf[x] = uf[r]}
Multi(S) == Cardinality(S) > 1
ByRule(r) == \E S \in det : r \in S /\ Multi(S)

BugMethodScore(r) ==
  IF score[r] > 0 THEN "probabilistic"
  ELSE IF Multi(Members(r)) THEN "deterministic" ELSE "singleton"

Method(r) ==
  IF mode = "deterministic"
  THEN IF Multi(Members(r)) THEN "deterministic" ELSE "singleton"
  ELSE CASE ByRule(r) -> "deterministic"
         [] ~ByRule(r) /\ Multi(Members(r)) /\ score[r] > 0 -> "probabilistic"
         [] ~ByRule(r) /\ Multi(Members(r)) /\ score[r] = 0 -> "deterministic"
         [] OTHER -> "singleton"

XrefRow(r) ==
  [fan |-> FanId(Members(r)), method |-> Method(r),
   score |-> IF Method(r) = "probabilistic" THEN score[r] ELSE 0]

(* max(with_email, key=observed_at) over the members in the order of their *)
(* refs: the latest one, and the first of those.                           *)
BugLatestEmail(S) ==
  LET have == {r \in S : records[r].email # 0}
  IN IF have = {} THEN 0
     ELSE records[CHOOSE r \in have : \A x \in have : r >= x].email

LatestEmail(S) ==
  LET have == {r \in S : records[r].email # 0}
      newest == {r \in have : \A x \in have :
                   records[x].observed <= records[r].observed}
  IN IF have = {} THEN 0 ELSE records[FanId(newest)].email

FirstDob(S) ==
  LET have == {r \in S : records[r].dob # 0}
  IN IF have = {} THEN 0 ELSE records[FanId(have)].dob

(* _mode_longest: the folded form most members have, the alphabetically    *)
(* last of equals; then the longest spelling of that form.                 *)
Holders(S, f) == {r \in S : records[r].last # NoName /\ records[r].last.fold = f}

ModeLongest(S) ==
  LET named == {r \in S : records[r].last # NoName}
      Count(r) == Cardinality(Holders(S, records[r].last.fold))
      Wins(r, x) ==
        \/ Count(r) > Count(x)
        \/ Count(r) = Count(x) /\ records[r].last.fold > records[x].last.fold
        \/ /\ records[r].last.fold = records[x].last.fold
           /\ records[r].last.text >= records[x].last.text
  IN IF named = {} THEN NoName
     ELSE records[CHOOSE r \in named : \A x \in named : Wins(r, x)].last

GoldenFan(S) ==
  [last |-> ModeLongest(S), email |-> LatestEmail(S), dob |-> FirstDob(S),
   record_count |-> Cardinality(S)]

(* materialize and write_identity_tables: both tables in one transaction. *)
Write ==
  /\ pc = "label"
  /\ xref' = [r \in Staged |-> XrefRow(r)]
  /\ golden' = [f \in {FanId(S) : S \in Classes(uf)} |-> GoldenFan(Members(f))]
  /\ pc' = "written"
  /\ UNCHANGED <<records, uf, passVars, edgeVars>>

UNext ==
  \/ \E r \in Refs : LinkRecord(r)
  \/ PassDone
  \/ Deterministic
  \/ Score
  \/ \E e \in todo : Combine(e)
  \/ Combined
  \/ Write

USpec == UInit /\ [][UNext]_uvars

-----------------------------------------------------------------------------
(* Correctness. *)

UTypeOK ==
  /\ pc \in {"link", "score", "combine", "label", "written",
            "review", "purity", "report", "rows", "evaluated", "swept"}
  /\ Staged \subseteq Refs /\ \A r \in Staged : records[r] \in Profiles
  /\ left \subseteq Staged
  /\ first \in [AllKeys -> Refs \cup {0}]
  /\ uf \in [Refs -> Refs \cup {0}]
  /\ det \subseteq SUBSET Refs
  /\ mode \in {"none", "deterministic", "full", "sweep"}
  /\ \A e \in DOMAIN scored : e \in SUBSET Staged /\ scored[e] \in Scores
  /\ todo \subseteq kept /\ kept \subseteq DOMAIN scored
  /\ score \in [Refs -> Scores \cup {0}]

(* What speaks for two records being one fan: a shared match key of two    *)
(* records the pass has come to, or an accepted edge combine has come to.  *)
Evidence(x, y) ==
  \/ {x, y} \subseteq Staged \ left /\ KeysOf(x) \cap KeysOf(y) # {}
  \/ {x, y} \in kept \ todo

(* Clusters are the connected components of the evidence, at every moment  *)
(* of both passes and whatever the order of records and edges: the sets of *)
(* records that no evidence leads out of are the unions of clusters.  So   *)
(* no link is lost because a key was anchored before its record was linked *)
(* elsewhere, and none appears (deterministic.py:44, probabilistic.py:149).*)
ClustersAreComponents ==
  \A A \in SUBSET (Staged \ left) :
    LET rest == (Staged \ left) \ A
    IN (\A x \in A, y \in rest : ~Evidence(x, y))
         <=> (\A x \in A, y \in rest : uf[x] # uf[y])

(* A method label says how the record got into its fan (the docstring of   *)
(* combine): "deterministic" when a rule alone links it to another record  *)
(* of the fan, "probabilistic" when only an accepted edge does, which then *)
(* gives the score, and "singleton" when it is alone.                      *)
LabelsAreHonest ==
  pc = "written" => \A r \in Staged :
    LET mine == {e \in DOMAIN scored : r \in e /\ scored[e] >= AutoMerge}
        ruled == \E x \in Staged \ {r} : KeysOf(x) \cap KeysOf(r) # {}
        alone == \A x \in Staged \ {r} : xref[x].fan # xref[r].fan
    IN /\ xref[r].method = "deterministic" <=> ruled
       /\ xref[r].method = "probabilistic" <=> mode = "full" /\ ~ruled /\ mine # {}
       /\ xref[r].method = "singleton" <=> alone
       /\ xref[r].score # 0 =>
            /\ \A e \in mine : scored[e] <= xref[r].score
            /\ \E e \in mine : scored[e] = xref[r].score
       /\ xref[r].method = "probabilistic" => xref[r].score # 0

(* Every staged record is in the cross-reference and its fan in the golden *)
(* table; a fan is named by its least record and counts its records.       *)
TablesAgree ==
  pc = "written" =>
    /\ DOMAIN xref = Staged
    /\ {xref[r].fan : r \in Staged} = DOMAIN golden
    /\ \A f \in DOMAIN golden :
         /\ xref[f].fan = f
         /\ \A r \in Staged : xref[r].fan = f => f <= r
         /\ golden[f].record_count = Cardinality({r \in Staged : xref[r].fan = f})

(* A golden record shows what a record of the fan said: the email of one   *)
(* that no other with an email was observed after, a last name that no     *)
(* other name of the fan outnumbers, and each of them if any record has it *)
(* (golden.py build_golden).                                               *)
GoldenSurvives ==
  pc = "written" => \A f \in DOMAIN golden :
    LET S == {r \in Staged : xref[r].fan = f}
        mailed == {r \in S : records[r].email # 0}
    IN /\ mailed # {} =>
            \E r \in mailed :
              /\ golden[f].email = records[r].email
              /\ \A x \in mailed : records[x].observed <= records[r].observed
       /\ (\E r \in S : records[r].last # NoName) =>
            \E r \in S :
              /\ golden[f].last = records[r].last /\ records[r].last # NoName
              /\ \A x \in S : Cardinality(Holders(S, records[x].last.fold))
                                <= Cardinality(Holders(S, records[r].last.fold))
       /\ (\E r \in S : records[r].dob # 0) => golden[f].dob # 0
=============================================================================
