----------------------------- MODULE Evaluation -----------------------------
(***************************************************************************)
(* src/fanuni/unification/evaluate.py: what the two passes achieve against *)
(* the truth the generator wrote.                                          *)
(*                                                                         *)
(* run_eval and run_threshold_sweep repeat the steps of Unification on the *)
(* records they fetch, and measure the clusters instead of writing them.   *)
(* Ratios are kept as the counts they are computed from.                   *)
(***************************************************************************)
EXTENDS Unification, Sequences

CONSTANTS
  Truths,     \* the files record_map.csv may be: ref -> [entity, tags]
  Half,       \* the score 0.5, from which the sweep takes predictions
  Thresholds  \* the thresholds of the sweep, a sequence of scores

ASSUME ThresholdsAssumption == Thresholds \in Seq(Nat) /\ Thresholds # <<>>

VARIABLES
  truth,   \* load_truth
  review,  \* review_pairs.csv
  report,  \* linkage_eval.json: none or one
  purity,  \* ops.linkage_cluster_truth
  rows,    \* ops.linkage_eval with ops.linkage_eval_tags, the last evaluation's
  sweep    \* the rows of threshold_sweep.md so far

evars == <<truth, review, report, purity, rows, sweep>>

-----------------------------------------------------------------------------
(* Metrics of a clustering, a set of clusters. *)

PairsOf(groups) == UNION {Pairs(S) : S \in groups}

Known(clusters) == (UNION clusters) \cap DOMAIN truth

Entities(known) ==
  {{r \in known : truth[r].entity = e} : e \in {truth[r].entity : r \in known}}

Predicted(clusters) == {e \in PairsOf(clusters) : e \subseteq Known(clusters)}
TruePairs(clusters) == PairsOf(Entities(Known(clusters)))

BugPairMetrics(clusters) ==
  [tp |-> Cardinality(Predicted(clusters) \cap TruePairs(clusters)),
   fp |-> Cardinality(PairsOf(clusters) \ TruePairs(clusters)),
   fn |-> Cardinality(TruePairs(clusters) \ Predicted(clusters)),
   predicted_clusters |-> Cardinality(clusters),
   true_entities |-> Cardinality(Entities(Known(clusters)))]

PairMetrics(clusters) ==
  [tp |-> Cardinality(Predicted(clusters) \cap TruePairs(clusters)),
   fp |-> Cardinality(Predicted(clusters) \ TruePairs(clusters)),
   fn |-> Cardinality(TruePairs(clusters) \ Predicted(clusters)),
   predicted_clusters |-> Cardinality(clusters),
   true_entities |-> Cardinality(Entities(Known(clusters)))]

Tags == UNION {truth[r].tags : r \in DOMAIN truth}

(* The pairs of which a side carries the tag. *)
Tagged(pairs, tag) == {e \in pairs : \E r \in e : tag \in truth[r].tags}

BugTagBreakdown(clusters) ==
  [tag \in Tags |->
     [true_pairs |-> Cardinality(Tagged(Predicted(clusters), tag)),
      found |-> Cardinality(Tagged(TruePairs(clusters) \cap Predicted(clusters), tag)),
      fp_pairs |-> Cardinality(Tagged(Predicted(clusters) \ TruePairs(clusters), tag))]]

TagBreakdown(clusters) ==
  [tag \in Tags |->
     [true_pairs |-> Cardinality(Tagged(TruePairs(clusters), tag)),
      found |-> Cardinality(Tagged(TruePairs(clusters), tag))
                  - Cardinality(Tagged(TruePairs(clusters) \ Predicted(clusters), tag)),
      fp_pairs |-> Cardinality(Tagged(Predicted(clusters) \ TruePairs(clusters), tag))]]

Variant(clusters) ==
  [metrics |-> PairMetrics(clusters), by_tag |-> TagBreakdown(clusters)]

(* A record the truth does not know is an entity of its own. *)
EntityOf(r) == IF r \in DOMAIN truth THEN <<"entity", truth[r].entity>>
               ELSE <<"unknown", r>>

ClusterTruth(S) ==
  [member_count |-> Cardinality(S),
   true_entity_count |-> Cardinality({EntityOf(r) : r \in S}),
   has_probabilistic |-> \E r \in S : Method(r) = "probabilistic"]

-----------------------------------------------------------------------------
(* run_eval: compute, then write the review pairs, the purity of each      *)
(* cluster (a transaction), the reports, and the rows (a transaction).     *)

EInit ==
  /\ UInit
  /\ truth = [r \in {} |-> 0]
  /\ review = {} /\ report = {} /\ purity = [r \in {} |-> 0] /\ rows = {} /\ sweep = <<>>

Evaluate ==
  /\ pc = "label" /\ mode = "full"
  /\ truth' \in Truths
  /\ pc' = "review"
  /\ UNCHANGED <<records, uf, passVars, edgeVars, tables, review, report, purity, rows, sweep>>

WriteReview ==
  /\ pc = "review"
  /\ review' = DOMAIN scored \ kept
  /\ pc' = "purity"
  /\ UNCHANGED <<records, uf, passVars, edgeVars, tables, truth, report, purity, rows, sweep>>

WriteClusterTruth ==
  /\ pc = "purity"
  /\ purity' = [f \in {FanId(S) : S \in Classes(uf)} |-> ClusterTruth(Members(f))]
  /\ pc' = "report"
  /\ UNCHANGED <<records, uf, passVars, edgeVars, tables, truth, review, report, rows, sweep>>

WriteReport ==
  /\ pc = "report"
  /\ report' = {[records_evaluated |-> Cardinality(Staged),
                 review_band |-> Cardinality(DOMAIN scored \ kept),
                 deterministic |-> Variant(det), full |-> Variant(Classes(uf))]}
  /\ pc' = "rows"
  /\ UNCHANGED <<records, uf, passVars, edgeVars, tables, truth, review, purity, rows, sweep>>

InsertRows ==
  /\ pc = "rows"
  /\ rows' = report
  /\ pc' = "evaluated"
  /\ UNCHANGED <<records, uf, passVars, edgeVars, tables, truth, review, report, purity, sweep>>

-----------------------------------------------------------------------------
(* run_threshold_sweep: one pass of Splink, combined anew per threshold.   *)

BugOfClasses(classes) == uf

OfClasses(classes) ==
  [r \in Refs |-> IF \E S \in classes : r \in S
                  THEN FanId(CHOOSE S \in classes : r \in S) ELSE 0]

Slice(s, k) == Edges(s, Thresholds[k])

StartSweep ==
  /\ pc = "score"
  /\ UNCHANGED <<records, uf, passVars, score, tables, review, report, purity, rows>>
  /\ truth' \in Truths
  /\ scored' \in Predictions(Half)
  /\ sweep' = <<[metrics |-> PairMetrics(det)', edges |-> 0, below |-> 0]>>
  /\ kept' = Slice(scored', 1) /\ todo' = kept'
  /\ mode' = "sweep"
  /\ pc' = "combine"

(* The row of one threshold, and the start of the next. *)
SweepRow ==
  /\ pc = "combine" /\ mode = "sweep" /\ todo = {}
  /\ sweep' = Append(sweep,
       [metrics |-> PairMetrics(Classes(uf)), edges |-> Cardinality(kept),
        below |-> Cardinality(DOMAIN scored \ kept)])
  /\ uf' = OfClasses(det)
  /\ score' = [r \in Refs |-> 0]
  /\ IF Len(sweep) < Len(Thresholds)
     THEN /\ kept' = Slice(scored, Len(sweep) + 1) /\ todo' = kept'
          /\ UNCHANGED pc
     ELSE kept' = {} /\ todo' = {} /\ pc' = "swept"
  /\ UNCHANGED <<records, passVars, mode, scored, tables, truth, review, report, purity, rows>>

ENext ==
  \/ UNext /\ UNCHANGED evars
  \/ Evaluate \/ WriteReview \/ WriteClusterTruth \/ WriteReport \/ InsertRows
  \/ StartSweep \/ SweepRow

ESpec == EInit /\ [][ENext]_<<uvars, evars>>

-----------------------------------------------------------------------------
(* Correctness. *)

(* The probabilistic pass loses no link the deterministic pass had: neither *)
(* overall nor under any tag does it find fewer of the true pairs, and both *)
(* variants are measured against the same pairs (test_unification_eval.py). *)
FullFindsNoLess ==
  \A r \in report :
    LET d == r.deterministic
        f == r.full
    IN /\ d.metrics.tp <= f.metrics.tp
       /\ d.metrics.tp + d.metrics.fn = f.metrics.tp + f.metrics.fn
       /\ \A tag \in Tags :
            /\ d.by_tag[tag].found <= f.by_tag[tag].found
            /\ d.by_tag[tag].true_pairs = f.by_tag[tag].true_pairs
            /\ f.by_tag[tag].found <= f.by_tag[tag].true_pairs

(* The purity of the clusters and the metrics tell one story: no pair is    *)
(* wrong exactly when no cluster holds two entities the truth knows, a pure *)
(* cluster never hides a wrong pair, and a cluster counts as probabilistic  *)
(* exactly when an accepted edge brought in a record no rule had linked; the *)
(* pairs for clerical review are none of those that were merged.            *)
PurityTellsThePrecision ==
  \A row \in rows :
    /\ row.review_band = Cardinality(review) /\ review \cap kept = {}
    /\ row.full.metrics.fp = 0 <=>
         \A f \in DOMAIN purity :
           Cardinality({truth[r].entity : r \in Members(f) \cap DOMAIN truth}) <= 1
    /\ (\A f \in DOMAIN purity : purity[f].true_entity_count = 1)
         => row.full.metrics.fp = 0
    /\ (Staged \subseteq DOMAIN truth /\ row.full.metrics.fp = 0)
         => \A f \in DOMAIN purity : purity[f].true_entity_count = 1
    /\ \A f \in DOMAIN purity :
         purity[f].has_probabilistic <=>
           \E e \in kept : e \subseteq Members(f) /\ \E r \in e : ~ByRule(r)

(* The rows of the sweep are comparable ("each threshold then slices the    *)
(* same predictions"): each measures the clusters of the rules and of the   *)
(* edges at its own threshold, so that a higher threshold never adds a      *)
(* pair, right or wrong, and every row has the links of the rules.          *)
SweepIsComparable ==
  \A k \in 2 .. Len(sweep) :
    LET m == sweep[k].metrics
        row == sweep[1].metrics
    IN /\ row.tp <= m.tp /\ row.fp <= m.fp /\ m.tp + m.fn = row.tp + row.fn
       /\ sweep[k].edges + sweep[k].below = Cardinality(DOMAIN scored)
       /\ \A j \in 2 .. k :
            Thresholds[j - 1] <= Thresholds[k - 1] =>
              sweep[j].metrics.tp >= m.tp /\ sweep[j].metrics.fp >= m.fp
       /\ sweep[k].edges = 0 => m = row
=============================================================================
