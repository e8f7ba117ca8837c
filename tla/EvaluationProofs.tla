-------------------------- MODULE EvaluationProofs --------------------------
(***************************************************************************)
(* What the evaluation reports about the two passes follows from the       *)
(* clusters being components: more evidence only ever joins.               *)
(***************************************************************************)
EXTENDS Evaluation, UnificationProofs, SequenceTheorems

-----------------------------------------------------------------------------
(* Metrics of clusterings that are components. *)

LEMMA SamePartition ==
  ASSUME NEW L \in SUBSET Refs, NEW c, NEW d, Numbered(c, L), Numbered(d, L),
         \A x, y \in L : c[x] = c[y] <=> d[x] = d[y]
  PROVE  c = d
<1>1. ASSUME NEW x \in L  PROVE  c[x] = d[x]
  <2>1. /\ c[x] \in L /\ c[c[x]] = c[x] /\ d[x] \in L /\ d[d[x]] = d[x] /\ x \in L
        /\ c[x] \in Nat /\ d[x] \in Nat
    BY Positive DEF Numbered
  <2>2. d[c[x]] = d[x] /\ c[d[x]] = c[x]
    BY <2>1
  <2>3. d[c[x]] <= c[x] /\ c[d[x]] <= d[x]
    BY <2>1 DEF Numbered
  <2>4. QED  BY <2>1, <2>2, <2>3
<1>2. \A x \in Refs : c[x] = d[x]
  BY <1>1 DEF Numbered
<1>3. QED  BY <1>2 DEF Numbered

(* The same evidence makes the same components. *)
LEMMA ComponentsUnique ==
  ASSUME NEW L \in SUBSET Refs, NEW c, NEW d, NEW E,
         Components(c, L, E), Components(d, L, E)
  PROVE  c = d
<1>1. \A x, y \in L : c[x] = c[y] => d[x] = d[y]
  BY ComponentsGrow
<1>2. \A x, y \in L : d[x] = d[y] => c[x] = c[y]
  BY ComponentsGrow
<1>3. Numbered(c, L) /\ Numbered(d, L)
  BY DEF Components
<1>4. QED  BY <1>1, <1>2, <1>3, SamePartition

(* The pairs inside the clusters, and the records they know. *)
LEMMA PairsOfClasses ==
  ASSUME NEW L \in SUBSET Refs, NEW c, Numbered(c, L)
  PROVE  /\ UNION Classes(c) = L
         /\ Known(Classes(c)) = L \cap DOMAIN truth
         /\ PairsOf(Classes(c)) = {e \in Pairs(L) : \A x, y \in e : c[x] = c[y]}
<1>0. Classes(c) = {{x \in Refs : c[x] = c[r]} : r \in L}
  BY ClassesNamed
<1>1. \A S : S \in Classes(c) <=> \E r \in L : S = {x \in Refs : c[x] = c[r]}
  BY <1>0
<1>2. \A r \in L, x \in Refs : c[x] = c[r] => x \in L
  BY DEF Numbered
<1>3. UNION Classes(c) = L
  <2>1. \A S \in Classes(c) : S \subseteq L
    BY <1>1, <1>2
  <2>2. ASSUME NEW r \in L  PROVE  \E S \in Classes(c) : r \in S
    <3>1. r \in {x \in Refs : c[x] = c[r]}
      OBVIOUS
    <3>2. QED  BY <1>1, <3>1
  <2>3. QED  BY <2>1, <2>2
<1>4. ASSUME NEW S \in Classes(c), NEW e \in Pairs(S)
      PROVE  e \in Pairs(L) /\ \A x, y \in e : c[x] = c[y]
  <2>1. PICK r \in L : S = {x \in Refs : c[x] = c[r]}
    BY <1>1
  <2>2. S \subseteq L
    BY <1>2, <2>1
  <2>3. QED  BY <2>1, <2>2 DEF Pairs
<1>5. ASSUME NEW e \in Pairs(L), \A x, y \in e : c[x] = c[y]
      PROVE  \E S \in Classes(c) : e \in Pairs(S)
  <2>1. PICK a \in L, b \in L : a # b /\ e = {a, b}
    BY PairsArePairs
  <2>2. e \in Pairs({x \in Refs : c[x] = c[a]})
    BY <1>5, <2>1 DEF Pairs
  <2>3. QED  BY <1>1, <2>1, <2>2
<1>6. PairsOf(Classes(c)) = {e \in Pairs(L) : \A x, y \in e : c[x] = c[y]}
  BY <1>4, <1>5 DEF PairsOf
<1>7. Known(Classes(c)) = L \cap DOMAIN truth
  BY <1>3 DEF Known
<1>8. QED  BY <1>3, <1>6, <1>7

LEMMA PairsFinite ==
  ASSUME NEW Q \in SUBSET SUBSET Refs
  PROVE  IsFiniteSet(Q) /\ Cardinality(Q) \in Nat
<1>1. IsFiniteSet(SUBSET Refs)
  BY FS_SUBSET, RefsAssumption
<1>2. IsFiniteSet(Q)
  BY <1>1, FS_Subset
<1>3. QED  BY <1>2, FS_CardinalityType

(* Counting found and missed pairs. *)
LEMMA FewerPairs ==
  ASSUME NEW Q \in SUBSET SUBSET Refs, NEW R \in SUBSET Q
  PROVE  Cardinality(R) <= Cardinality(Q)
  BY PairsFinite, FS_Subset

LEMMA FoundAndMissed ==
  ASSUME NEW T \in SUBSET SUBSET Refs, NEW Q \in SUBSET SUBSET Refs
  PROVE  Cardinality(Q \cap T) + Cardinality(T \ Q) = Cardinality(T)
<1>1. IsFiniteSet(T) /\ Cardinality(T) \in Nat
  BY PairsFinite
<1>2. Cardinality(T \ Q) = Cardinality(T) - Cardinality(Q \cap T)
  <2>1. T \cap Q = Q \cap T
    OBVIOUS
  <2>2. Cardinality(T \ Q) = Cardinality(T) - Cardinality(T \cap Q)
    BY <1>1, FS_Difference
  <2>3. QED  BY <2>1, <2>2
<1>3. Q \cap T \in SUBSET SUBSET Refs
  OBVIOUS
<1>4. Cardinality(Q \cap T) \in Nat
  BY <1>3, PairsFinite
<1>5. QED  BY <1>1, <1>2, <1>4

(* A coarser clustering of the same records finds every pair a finer one    *)
(* finds, right or wrong, and is measured against the same pairs.           *)
LEMMA PairsGrow ==
  ASSUME NEW L \in SUBSET Refs, NEW c, NEW d, Numbered(c, L), Numbered(d, L),
         \A x, y \in L : c[x] = c[y] => d[x] = d[y]
  PROVE  /\ Predicted(Classes(c)) \subseteq Predicted(Classes(d))
         /\ Predicted(Classes(d)) \in SUBSET SUBSET Refs
         /\ TruePairs(Classes(c)) = TruePairs(Classes(d))
         /\ TruePairs(Classes(d)) \in SUBSET SUBSET Refs
<1>1. /\ Known(Classes(c)) = L \cap DOMAIN truth /\ Known(Classes(d)) = L \cap DOMAIN truth
      /\ PairsOf(Classes(c)) = {e \in Pairs(L) : \A x, y \in e : c[x] = c[y]}
      /\ PairsOf(Classes(d)) = {e \in Pairs(L) : \A x, y \in e : d[x] = d[y]}
  BY PairsOfClasses
<1>2. PairsOf(Classes(c)) \subseteq PairsOf(Classes(d))
  <2>1. \A e \in Pairs(L) : e \subseteq L
    BY DEF Pairs
  <2>2. QED  BY <1>1, <2>1
<1>3. Pairs(L) \in SUBSET SUBSET Refs
  BY DEF Pairs
<1>4. TruePairs(Classes(d)) \in SUBSET SUBSET Refs
  <2>1. \A S \in Entities(Known(Classes(d))) : S \subseteq L
    BY <1>1 DEF Entities
  <2>2. \A S \in Entities(Known(Classes(d))) : Pairs(S) \subseteq SUBSET Refs
    BY <2>1 DEF Pairs
  <2>3. QED  BY <2>2 DEF TruePairs, PairsOf
<1>5. QED  BY <1>1, <1>2, <1>3, <1>4 DEF Predicted, TruePairs

LEMMA MetricsGrow ==
  ASSUME NEW L \in SUBSET Refs, NEW c, NEW d, Numbered(c, L), Numbered(d, L),
         \A x, y \in L : c[x] = c[y] => d[x] = d[y]
  PROVE  /\ PairMetrics(Classes(c)).tp <= PairMetrics(Classes(d)).tp
         /\ PairMetrics(Classes(c)).fp <= PairMetrics(Classes(d)).fp
         /\ PairMetrics(Classes(c)).tp + PairMetrics(Classes(c)).fn
              = PairMetrics(Classes(d)).tp + PairMetrics(Classes(d)).fn
<1> DEFINE Pc == Predicted(Classes(c))
           Pd == Predicted(Classes(d))
           T == TruePairs(Classes(d))
<1>1. /\ Pc \subseteq Pd /\ Pd \in SUBSET SUBSET Refs
      /\ TruePairs(Classes(c)) = T /\ T \in SUBSET SUBSET Refs
  BY PairsGrow
<1> HIDE DEF Pc, Pd, T
<1>2. Cardinality(Pc \cap T) <= Cardinality(Pd \cap T)
  <2>1. Pd \cap T \in SUBSET SUBSET Refs /\ Pc \cap T \in SUBSET (Pd \cap T)
    BY <1>1
  <2>2. QED  BY <2>1, FewerPairs
<1>3. Cardinality(Pc \ T) <= Cardinality(Pd \ T)
  <2>1. Pd \ T \in SUBSET SUBSET Refs /\ Pc \ T \in SUBSET (Pd \ T)
    BY <1>1
  <2>2. QED  BY <2>1, FewerPairs
<1>4. /\ Cardinality(Pc \cap T) + Cardinality(T \ Pc) = Cardinality(T)
      /\ Cardinality(Pd \cap T) + Cardinality(T \ Pd) = Cardinality(T)
  BY <1>1, FoundAndMissed
<1>5. QED  BY <1>1, <1>2, <1>3, <1>4 DEF PairMetrics, Pc, Pd, T

LEMMA MetricsTyped ==
  ASSUME NEW L \in SUBSET Refs, NEW c, Numbered(c, L)
  PROVE  PairMetrics(Classes(c)).tp \in Nat /\ PairMetrics(Classes(c)).fp \in Nat
<1> DEFINE Q == Predicted(Classes(c))
           T == TruePairs(Classes(c))
<1>1. Q \cap T \in SUBSET SUBSET Refs /\ Q \ T \in SUBSET SUBSET Refs
  BY PairsGrow
<1>2. Cardinality(Q \cap T) \in Nat /\ Cardinality(Q \ T) \in Nat
  BY <1>1, PairsFinite
<1>3. QED  BY <1>2 DEF PairMetrics

LEMMA TagsGrow ==
  ASSUME NEW L \in SUBSET Refs, NEW c, NEW d, Numbered(c, L), Numbered(d, L),
         \A x, y \in L : c[x] = c[y] => d[x] = d[y],
         NEW tag \in Tags
  PROVE  /\ TagBreakdown(Classes(c))[tag].found <= TagBreakdown(Classes(d))[tag].found
         /\ TagBreakdown(Classes(c))[tag].true_pairs = TagBreakdown(Classes(d))[tag].true_pairs
         /\ TagBreakdown(Classes(d))[tag].found <= TagBreakdown(Classes(c))[tag].true_pairs
<1> DEFINE Pc == Predicted(Classes(c))
           Pd == Predicted(Classes(d))
           T == TruePairs(Classes(d))
<1>1. /\ Pc \subseteq Pd /\ Pd \in SUBSET SUBSET Refs
      /\ TruePairs(Classes(c)) = T /\ T \in SUBSET SUBSET Refs
  BY PairsGrow
<1> HIDE DEF Pc, Pd, T
<1> DEFINE tc == Tagged(T \ Pc, tag)
           td == Tagged(T \ Pd, tag)
           tt == Tagged(T, tag)
<1>2. tc \in SUBSET SUBSET Refs /\ td \in SUBSET tc /\ td \in SUBSET SUBSET Refs
      /\ tt \in SUBSET SUBSET Refs
  BY <1>1 DEF Tagged
<1> HIDE DEF tc, td, tt
<1>3. Cardinality(td) <= Cardinality(tc)
  BY <1>2, FewerPairs
<1>4. Cardinality(td) \in Nat /\ Cardinality(tc) \in Nat /\ Cardinality(tt) \in Nat
  BY <1>2, PairsFinite
<1>5. /\ TagBreakdown(Classes(c))[tag].found = Cardinality(tt) - Cardinality(tc)
      /\ TagBreakdown(Classes(d))[tag].found = Cardinality(tt) - Cardinality(td)
      /\ TagBreakdown(Classes(c))[tag].true_pairs = Cardinality(tt)
      /\ TagBreakdown(Classes(d))[tag].true_pairs = Cardinality(tt)
  BY <1>1 DEF TagBreakdown, tc, td, tt, Pc, Pd, T
<1>6. QED  BY <1>3, <1>4, <1>5

-----------------------------------------------------------------------------
(* The inductive invariant. *)

(* What the threshold of row k + 1 lets combine link along. *)
SlicePairs(k) == KeyPairs(Staged) \cup EdgePairs(Staged, Slice(scored, k))

(* Row k measures the components its threshold makes. *)
Measured(k) ==
  \E c \in [Refs -> Refs \cup {0}] :
    /\ Components(c, Staged, SlicePairs(k - 1))
    /\ sweep[k] = [metrics |-> PairMetrics(Classes(c)),
                   edges |-> Cardinality(Slice(scored, k - 1)),
                   below |-> Cardinality(DOMAIN scored \ Slice(scored, k - 1))]

SweepInv ==
  /\ sweep # <<>> => mode = "sweep"
  /\ mode = "sweep" =>
       /\ pc \in {"combine", "swept"}
       /\ sweep \in Seq({sweep[k] : k \in DOMAIN sweep}) /\ sweep # <<>>
       /\ sweep[1] = [metrics |-> PairMetrics(det), edges |-> 0, below |-> 0]
       /\ \A k \in 2 .. Len(sweep) : Measured(k)
       /\ Len(sweep) <= Len(Thresholds) + 1
       /\ pc = "combine" => Len(sweep) <= Len(Thresholds) /\ kept = Slice(scored, Len(sweep))

ReportInv ==
  /\ pc \in {"review", "purity", "report", "rows", "evaluated"} => mode = "full"
  /\ pc \in {"purity", "report", "rows", "evaluated"} => review = DOMAIN scored \ kept
  /\ pc \in {"report", "rows", "evaluated"} =>
       purity = [f \in {FanId(S) : S \in Classes(uf)} |-> ClusterTruth(Members(f))]
  /\ \A r \in report :
       /\ pc \in {"rows", "evaluated"}
       /\ r = [records_evaluated |-> Cardinality(Staged),
               review_band |-> Cardinality(DOMAIN scored \ kept),
               deterministic |-> Variant(det), full |-> Variant(Classes(uf))]
  /\ rows \subseteq report

EvaluationInv == LabelInv /\ SweepInv /\ ReportInv

-----------------------------------------------------------------------------
(* The steps. *)

(* Measures are of what nothing but the steps that take them changes. *)
LEMMA SameMeasures ==
  ASSUME UNCHANGED <<records, scored, truth>>
  PROVE  /\ \A k : SlicePairs(k)' = SlicePairs(k) /\ Slice(scored, k)' = Slice(scored, k)
         /\ \A D : PairMetrics(D)' = PairMetrics(D) /\ Variant(D)' = Variant(D)
<1>1. Staged' = Staged /\ \A k : Slice(scored, k)' = Slice(scored, k)
  BY DEF Staged, Slice, Edges
<1>2. \A k : SlicePairs(k)' = SlicePairs(k)
  BY <1>1 DEF SlicePairs, KeyPairs, EdgePairs, KeysOf
<1>3. \A D : PairMetrics(D)' = PairMetrics(D) /\ Variant(D)' = Variant(D)
  BY DEF PairMetrics, Variant, TagBreakdown, Predicted, TruePairs, Known, Entities, Tagged, Tags
<1>4. QED  BY <1>1, <1>2, <1>3

LEMMA SweepElsewhere ==
  ASSUME SweepInv, UNCHANGED <<records, scored, truth, sweep, kept, mode, det>>,
         mode = "sweep" => pc' = pc
  PROVE  SweepInv'
<1>1. Staged' = Staged
  BY DEF Staged
<1>2. ASSUME NEW k  PROVE  Measured(k)' <=> Measured(k)
  <2>1. /\ SlicePairs(k - 1)' = SlicePairs(k - 1) /\ Slice(scored, k - 1)' = Slice(scored, k - 1)
        /\ \A D : PairMetrics(D)' = PairMetrics(D)
    BY SameMeasures
  <2>2. \A c : /\ Components(c, Staged, SlicePairs(k - 1))' <=> Components(c, Staged, SlicePairs(k - 1))
               /\ PairMetrics(Classes(c))' = PairMetrics(Classes(c))
    BY <1>1, <2>1
  <2>3. QED  BY <2>1, <2>2 DEF Measured
<1>3. QED  BY <1>2, SameMeasures DEF SweepInv

LEMMA ReportElsewhere ==
  ASSUME ReportInv, UNCHANGED <<records, uf, det, mode, scored, kept, score,
                                truth, review, report, purity, rows>>,
         pc' = pc \/ pc' \notin {"review", "purity", "report", "rows", "evaluated"},
         pc' # pc => report = {}
  PROVE  ReportInv'
<1>1. /\ Staged' = Staged /\ Classes(uf)' = Classes(uf)
      /\ Variant(det)' = Variant(det) /\ Variant(Classes(uf))' = Variant(Classes(uf))
  BY SameMeasures DEF Staged, Classes
<1>2. \A f : ClusterTruth(Members(f))' = ClusterTruth(Members(f))
  BY DEF ClusterTruth, EntityOf, Method, ByRule, Members, Staged
<1>3. QED  BY <1>1, <1>2 DEF ReportInv

(* The first rows of an evaluation or of a sweep are not there yet. *)
LEMMA NothingYet ==
  ASSUME EvaluationInv, pc \notin {"review", "purity", "report", "rows", "evaluated"}
  PROVE  report = {} /\ rows = {}
  BY DEF EvaluationInv, ReportInv

(* A step of Unification. *)
LEMMA UnificationStep ==
  ASSUME EvaluationInv, UNext, UNCHANGED evars
  PROVE  EvaluationInv'
<1>1. LabelInv'
  BY LabelStep DEF EvaluationInv
<1>2. /\ pc \in {"link", "score", "combine", "label"} /\ pc' \notin {"review", "purity", "report", "rows", "evaluated"}
      /\ UNCHANGED <<records, truth, review, report, purity, rows, sweep>>
  BY DEF UNext, LinkRecord, PassDone, Deterministic, Score, Combine, Combined, Write, evars
<1>3. ReportInv'
  BY <1>2, NothingYet DEF ReportInv, EvaluationInv
<1>4. SweepInv'
  <2>1. CASE \E e \in todo : Combine(e)
    BY <2>1, SweepElsewhere DEF Combine, passVars, evars, EvaluationInv
  <2>2. CASE \/ \E r \in Refs : LinkRecord(r)
             \/ PassDone \/ Deterministic \/ Score \/ Combined \/ Write
    <3>1. mode # "sweep" /\ mode' # "sweep"
      BY <2>2 DEF LinkRecord, PassDone, Deterministic, Score, Combined, Write, edgeVars,
                  EvaluationInv, LabelInv, ClusterInv, PassInv
    <3>2. QED  BY <1>2, <3>1 DEF SweepInv, EvaluationInv
  <2>3. QED  BY <2>1, <2>2 DEF UNext
<1>5. QED  BY <1>1, <1>3, <1>4 DEF EvaluationInv

(* The steps of run_eval. *)
LEMMA ReportStep ==
  ASSUME EvaluationInv,
         Evaluate \/ WriteReview \/ WriteClusterTruth \/ WriteReport \/ InsertRows
  PROVE  EvaluationInv'
<1>1. /\ UNCHANGED <<records, uf, passVars, edgeVars, tables, sweep>>
      /\ UNCHANGED <<det, mode, scored, kept, score>>
      /\ mode = "full" /\ pc \notin {"link", "score", "combine"}
      /\ pc' \in {"review", "purity", "report", "rows", "evaluated"}
  BY DEF Evaluate, WriteReview, WriteClusterTruth, WriteReport, InsertRows, passVars, edgeVars,
         EvaluationInv, ReportInv
<1>2. LabelInv'
  <2>1. ClusterInv /\ todo = {}
    BY <1>1 DEF EvaluationInv, LabelInv, ClusterInv, PassInv
  <2>2. ClusterInv'
    BY <1>1, <2>1, ElsewhereStep
  <2>3. QED  BY <1>1, <2>2, LabelElsewhere DEF EvaluationInv
<1>3. SweepInv'
  BY <1>1 DEF EvaluationInv, SweepInv
<1>4. /\ Staged' = Staged /\ Classes(uf)' = Classes(uf)
      /\ truth' = truth => /\ Variant(det)' = Variant(det)
                           /\ Variant(Classes(uf))' = Variant(Classes(uf))
  BY <1>1, SameMeasures DEF Staged, Classes
<1>5. truth' = truth => \A f : ClusterTruth(Members(f))' = ClusterTruth(Members(f))
  BY <1>1 DEF ClusterTruth, EntityOf, Method, ByRule, Members, Staged
<1>6. ReportInv'
  <2>1. CASE Evaluate
    BY <1>1, <2>1, NothingYet DEF Evaluate, ReportInv
  <2>2. CASE WriteReview
    BY <1>1, <2>2 DEF WriteReview, ReportInv, EvaluationInv
  <2>3. CASE WriteClusterTruth
    BY <1>1, <1>4, <1>5, <2>3 DEF WriteClusterTruth, ReportInv, EvaluationInv
  <2>4. CASE WriteReport
    BY <1>1, <1>4, <1>5, <2>4 DEF WriteReport, ReportInv, EvaluationInv
  <2>5. CASE InsertRows
    BY <1>1, <1>4, <1>5, <2>5 DEF InsertRows, ReportInv, EvaluationInv
  <2>6. QED  BY <2>1, <2>2, <2>3, <2>4, <2>5
<1>7. QED  BY <1>2, <1>3, <1>6 DEF EvaluationInv

LEMMA StartSweepStep ==
  ASSUME EvaluationInv, StartSweep
  PROVE  EvaluationInv'
<1>1. /\ pc = "score" /\ pc' = "combine" /\ mode' = "sweep"
      /\ UNCHANGED <<records, uf, left, first, det, score, review, report, purity, rows>>
      /\ sweep' = <<[metrics |-> PairMetrics(det)', edges |-> 0, below |-> 0]>>
      /\ scored' \in Predictions(Half) /\ kept' = Slice(scored', 1) /\ todo' = kept'
  BY DEF StartSweep, passVars
<1>2. ClusterInv /\ left = {} /\ kept' \subseteq DOMAIN scored'
  BY <1>1 DEF EvaluationInv, LabelInv, ClusterInv, PassInv, Slice, Edges
<1>3. LabelInv'
  <2>1. ClusterInv'
    BY <1>1, <1>2, TakeUpEdges
  <2>2. QED  BY <1>1, <2>1, LabelElsewhere DEF EvaluationInv
<1>4. ReportInv'
  BY <1>1, NothingYet DEF ReportInv, EvaluationInv
<1>5. SweepInv'
  <2>1. /\ Len(sweep') = 1 /\ sweep' # <<>> /\ sweep' \in Seq({sweep'[k] : k \in DOMAIN sweep'})
        /\ sweep'[1] = [metrics |-> PairMetrics(det)', edges |-> 0, below |-> 0]
    BY <1>1
  <2>2. Len(Thresholds) >= 1
    BY ThresholdsAssumption
  <2>3. QED  BY <1>1, <2>1, <2>2 DEF SweepInv
<1>6. QED  BY <1>3, <1>4, <1>5 DEF EvaluationInv

(* The next threshold starts from what the first pass had. *)
LEMMA OfClassesRestores ==
  ASSUME NEW L \in SUBSET Refs, NEW c, Numbered(c, L)
  PROVE  OfClasses(Classes(c)) = c
<1> DEFINE Class(r) == {x \in Refs : c[x] = c[r]}
<1>1. \A S : S \in Classes(c) <=> \E r \in L : S = Class(r)
  <2>1. Classes(c) = {{x \in Refs : c[x] = c[r]} : r \in L}
    BY ClassesNamed
  <2>2. QED  BY <2>1
<1>2. ASSUME NEW r \in L
      PROVE  (\E S \in Classes(c) : r \in S) /\ FanId(CHOOSE S \in Classes(c) : r \in S) = c[r]
  <2>1. /\ c[r] \in L /\ c[c[r]] = c[r] /\ r \in Class(r) /\ Class(r) \in Classes(c)
    BY <1>1 DEF Numbered
  <2>2. \A S \in Classes(c) : r \in S => S = Class(r)
    BY <1>1
  <2>3. (CHOOSE S \in Classes(c) : r \in S) = Class(r)
    <3> HIDE DEF Class
    <3>1. QED  BY <2>1, <2>2, Zenon
  <2>4. FanId(Class(r)) = c[r]
    BY <2>1, ClassNamed
  <2>5. QED  BY <2>1, <2>3, <2>4
<1>3. ASSUME NEW r \in Refs \ L  PROVE  c[r] = 0 /\ \A S \in Classes(c) : r \notin S
  <2>1. UNION Classes(c) = L
    BY PairsOfClasses
  <2>2. QED  BY <2>1 DEF Numbered
<1>4. \A r \in Refs : OfClasses(Classes(c))[r] = c[r]
  BY <1>2, <1>3 DEF OfClasses
<1>5. DOMAIN OfClasses(Classes(c)) = Refs /\ c \in [Refs -> Refs \cup {0}]
  BY DEF OfClasses, Numbered
<1>6. OfClasses(Classes(c)) = [r \in Refs |-> OfClasses(Classes(c))[r]]
  BY DEF OfClasses
<1>7. QED  BY <1>4, <1>5, <1>6

LEMMA OwnElements ==
  ASSUME NEW T, NEW s \in Seq(T)
  PROVE  s \in Seq({s[k] : k \in DOMAIN s})
  OBVIOUS

LEMMA AppendedRow ==
  ASSUME NEW s, s \in Seq({s[k] : k \in DOMAIN s}), NEW e
  PROVE  /\ Append(s, e) \in Seq({Append(s, e)[k] : k \in DOMAIN Append(s, e)})
         /\ Len(Append(s, e)) = Len(s) + 1 /\ Len(s) \in Nat
         /\ \A k \in 1 .. Len(s) : Append(s, e)[k] = s[k]
         /\ Append(s, e)[Len(s) + 1] = e
<1> DEFINE T == {s[k] : k \in DOMAIN s} \cup {e}
<1>1. s \in Seq(T) /\ e \in T
  BY ElementOfSeq DEF T
<1> HIDE DEF T
<1>2. /\ Append(s, e) \in Seq(T) /\ Len(Append(s, e)) = Len(s) + 1 /\ Len(s) \in Nat
      /\ \A k \in 1 .. Len(s) : Append(s, e)[k] = s[k]
      /\ Append(s, e)[Len(s) + 1] = e
  BY <1>1, AppendProperties
<1>3. QED  BY <1>2, OwnElements

LEMMA SweepRowStep ==
  ASSUME EvaluationInv, SweepRow
  PROVE  EvaluationInv'
<1> DEFINE n == Len(sweep)
           row == [metrics |-> PairMetrics(Classes(uf)), edges |-> Cardinality(kept),
                   below |-> Cardinality(DOMAIN scored \ kept)]
<1>1. /\ pc = "combine" /\ mode = "sweep" /\ todo = {} /\ sweep' = Append(sweep, row)
      /\ uf' = OfClasses(det) /\ score' = [r \in Refs |-> 0]
      /\ UNCHANGED <<records, left, first, det, mode, scored, truth, review, report, purity, rows>>
      /\ todo' = kept' /\ kept' \subseteq DOMAIN scored /\ pc' \in {"combine", "swept"}
      /\ pc' = "combine" => n < Len(Thresholds) /\ kept' = Slice(scored, n + 1)
      /\ pc' = "swept" => kept' = {}
  BY DEF SweepRow, passVars, Slice, Edges
<1>2. /\ ClusterInv /\ left = {} /\ Staged \in SUBSET Refs /\ Seen = Staged
      /\ Staged' = Staged /\ Seen' = Staged
  BY <1>1, AllSeen DEF EvaluationInv, LabelInv, ClusterInv, PassInv, Staged, Seen
<1>3. /\ sweep \in Seq({sweep[k] : k \in DOMAIN sweep}) /\ sweep # <<>>
      /\ sweep[1] = [metrics |-> PairMetrics(det), edges |-> 0, below |-> 0]
      /\ \A k \in 2 .. n : Measured(k)
      /\ kept = Slice(scored, n) /\ n <= Len(Thresholds)
  BY <1>1 DEF EvaluationInv, SweepInv
<1>4. PICK d \in [Refs -> Refs \cup {0}] : det = Classes(d) /\ ByRules(d)
  BY <1>1 DEF EvaluationInv, LabelInv, ClusterInv, PassInv
<1>5. uf' = d
  BY <1>1, <1>2, <1>4, OfClassesRestores DEF ByRules, Components
<1>6. KeyPairs(Staged)' = KeyPairs(Staged)
  BY <1>1, <1>2 DEF KeyPairs, KeysOf
<1>7. ClusterInv'
  <2>1. UTypeOK'
    BY <1>1, <1>2, <1>5 DEF ClusterInv, UTypeOK
  <2>2. Anchored'
    BY <1>1 DEF Anchored
  <2>3. PassInv'
    <3>1. \E c \in [Refs -> Refs \cup {0}] : det' = Classes(c) /\ ByRules(c)'
      BY <1>1, <1>4, SameRules
    <3>2. QED  BY <1>1, <1>2, <3>1 DEF ClusterInv, PassInv, Pairs
  <2>4. (kept \ todo)' = {}
    BY <1>1
  <2>5. ScoreInv'
    BY <1>1, <2>4 DEF ScoreInv
  <2>6. EvidencePairs' = KeyPairs(Staged)
    BY <1>2, <1>6, <2>4 DEF EvidencePairs, EdgePairs
  <2>7. Components(d, Staged, KeyPairs(Staged))
    BY <1>4 DEF ByRules
  <2>8. QED  BY <1>2, <1>5, <2>1, <2>2, <2>3, <2>5, <2>6, <2>7 DEF ClusterInv
<1>8. LabelInv'
  BY <1>1, <1>7, LabelElsewhere DEF EvaluationInv
<1>9. ReportInv'
  BY <1>1, NothingYet DEF ReportInv, EvaluationInv
<1>10. /\ sweep' \in Seq({sweep'[k] : k \in DOMAIN sweep'})
       /\ Len(sweep') = n + 1 /\ n \in Nat /\ n # 0
       /\ \A k \in 1 .. n : sweep'[k] = sweep[k]
       /\ sweep'[n + 1] = row
  <2>1. n \in Nat /\ n # 0
    BY <1>3, EmptySeq
  <2> HIDE DEF row
  <2>2. /\ Append(sweep, row) \in Seq({Append(sweep, row)[k] : k \in DOMAIN Append(sweep, row)})
        /\ Len(Append(sweep, row)) = n + 1
        /\ \A k \in 1 .. n : Append(sweep, row)[k] = sweep[k]
        /\ Append(sweep, row)[n + 1] = row
    BY <1>3, AppendedRow
  <2>3. sweep' = Append(sweep, row)
    BY <1>1 DEF row
  <2>4. QED  BY <2>1, <2>2, <2>3
<1>11. /\ \A k : SlicePairs(k)' = SlicePairs(k) /\ Slice(scored, k)' = Slice(scored, k)
       /\ \A D : PairMetrics(D)' = PairMetrics(D)
  BY <1>1, SameMeasures
<1>12. ASSUME NEW k \in 2 .. n + 1  PROVE  Measured(k)'
  <2>1. ASSUME NEW c \in [Refs -> Refs \cup {0}], Components(c, Staged, SlicePairs(k - 1)),
               sweep'[k] = [metrics |-> PairMetrics(Classes(c)),
                            edges |-> Cardinality(Slice(scored, k - 1)),
                            below |-> Cardinality(DOMAIN scored \ Slice(scored, k - 1))]
        PROVE  Measured(k)'
    <3>1. /\ Components(c, Staged, SlicePairs(k - 1))'
          /\ PairMetrics(Classes(c))' = PairMetrics(Classes(c))
      BY <1>2, <1>11, <2>1
    <3>2. QED  BY <1>1, <1>11, <2>1, <3>1 DEF Measured
  <2>2. CASE k \in 2 .. n
    <3>1. sweep'[k] = sweep[k] /\ Measured(k)
      BY <1>3, <1>10, <2>2
    <3>2. QED  BY <2>1, <3>1 DEF Measured
  <2>3. CASE k = n + 1
    <3>1. PICK c \in [Refs -> Refs \cup {0}] : c = uf
      BY <1>2 DEF ClusterInv, UTypeOK
    <3>2. EvidencePairs = SlicePairs(n)
      BY <1>1, <1>2, <1>3 DEF EvidencePairs, SlicePairs
    <3>3. Components(c, Staged, SlicePairs(n)) /\ k - 1 = n
      BY <1>2, <1>10, <2>3, <3>1, <3>2 DEF ClusterInv
    <3>4. QED  BY <1>3, <1>10, <2>1, <2>3, <3>1, <3>3
  <2>4. QED  BY <1>10, <2>2, <2>3
<1>13. SweepInv'
  <2>1. PairMetrics(det)' = PairMetrics(det)
    BY <1>1, <1>11
  <2>2. sweep' # <<>> /\ sweep'[1] = [metrics |-> PairMetrics(det)', edges |-> 0, below |-> 0]
    BY <1>3, <1>10, <2>1
  <2>3. pc' = "combine" => Len(sweep') <= Len(Thresholds) /\ kept' = Slice(scored, Len(sweep))'
    <3>1. Len(Thresholds) \in Nat
      BY ThresholdsAssumption
    <3>2. QED  BY <1>1, <1>10, <1>11, <3>1
  <2>4. Len(sweep') <= Len(Thresholds) + 1
    BY <1>3, <1>10, ThresholdsAssumption
  <2>5. QED  BY <1>1, <1>10, <1>12, <2>2, <2>3, <2>4 DEF SweepInv
<1>14. QED  BY <1>8, <1>9, <1>13 DEF EvaluationInv

LEMMA EvaluationElsewhere ==
  ASSUME EvaluationInv, UNCHANGED <<uvars, evars>>
  PROVE  EvaluationInv'
<1>1. LabelInv'
  BY LabelStep DEF EvaluationInv
<1>2. SweepInv' /\ ReportInv'
  BY SweepElsewhere, ReportElsewhere DEF EvaluationInv, uvars, evars, passVars, edgeVars
<1>3. QED  BY <1>1, <1>2 DEF EvaluationInv

(* Every row the sweep wrote measures the components its own threshold     *)
(* makes, and what run_eval writes is of one state of the clusters          *)
(* (run_eval, run_threshold_sweep).                                         *)
THEOREM EvaluationInvariant == ESpec => []EvaluationInv
<1>1. EInit => EvaluationInv
  BY InitClusters DEF EInit, EvaluationInv, LabelInv, SweepInv, ReportInv, UInit, Written
<1>2. EvaluationInv /\ [ENext]_<<uvars, evars>> => EvaluationInv'
  BY UnificationStep, ReportStep, StartSweepStep, SweepRowStep, EvaluationElsewhere DEF ENext
<1>3. QED  BY <1>1, <1>2, PTL DEF ESpec

-----------------------------------------------------------------------------
(* What the reports say. *)

(* The clusters of the rules, and those of both passes. *)
LEMMA BothPasses ==
  ASSUME EvaluationInv, pc # "link"
  PROVE  \E d \in [Refs -> Refs \cup {0}] :
           /\ det = Classes(d) /\ Components(d, Staged, KeyPairs(Staged))
           /\ Numbered(d, Staged) /\ Numbered(uf, Staged) /\ Staged \in SUBSET Refs
           /\ \A x, y \in Staged : d[x] = d[y] => uf[x] = uf[y]
<1>1. PICK d \in [Refs -> Refs \cup {0}] : det = Classes(d) /\ ByRules(d)
  BY DEF EvaluationInv, LabelInv, ClusterInv, PassInv
<1>2. /\ Staged \in SUBSET Refs /\ Seen = Staged /\ Numbered(uf, Staged)
      /\ Components(uf, Staged, EvidencePairs) /\ Components(d, Staged, KeyPairs(Staged))
  BY <1>1, AllSeen DEF EvaluationInv, LabelInv, ClusterInv, ByRules
<1>3. KeyPairs(Staged) \subseteq EvidencePairs
  BY <1>2 DEF EvidencePairs
<1>4. \A x, y \in Staged : d[x] = d[y] => uf[x] = uf[y]
  BY <1>2, <1>3, ComponentsGrow
<1>5. QED  BY <1>1, <1>2, <1>4 DEF Components

LEMMA FullHolds == EvaluationInv => FullFindsNoLess
<1> SUFFICES ASSUME EvaluationInv, NEW r \in report
    PROVE  /\ r.deterministic.metrics.tp <= r.full.metrics.tp
           /\ r.deterministic.metrics.tp + r.deterministic.metrics.fn
                = r.full.metrics.tp + r.full.metrics.fn
           /\ \A tag \in Tags :
                /\ r.deterministic.by_tag[tag].found <= r.full.by_tag[tag].found
                /\ r.deterministic.by_tag[tag].true_pairs = r.full.by_tag[tag].true_pairs
                /\ r.full.by_tag[tag].found <= r.full.by_tag[tag].true_pairs
  BY Zenon DEF FullFindsNoLess
<1>1. /\ pc # "link" /\ r.deterministic = Variant(det) /\ r.full = Variant(Classes(uf))
  BY DEF EvaluationInv, ReportInv
<1>2. PICK d \in [Refs -> Refs \cup {0}] :
        /\ det = Classes(d) /\ Numbered(d, Staged) /\ Numbered(uf, Staged)
        /\ Staged \in SUBSET Refs /\ \A x, y \in Staged : d[x] = d[y] => uf[x] = uf[y]
  BY <1>1, BothPasses
<1>3. /\ r.deterministic.metrics = PairMetrics(Classes(d))
      /\ r.full.metrics = PairMetrics(Classes(uf))
      /\ r.deterministic.by_tag = TagBreakdown(Classes(d))
      /\ r.full.by_tag = TagBreakdown(Classes(uf))
  BY <1>1, <1>2 DEF Variant
<1>4. QED  BY <1>2, <1>3, MetricsGrow, TagsGrow

(* The probabilistic pass loses no link of the rules, overall and under     *)
(* every tag (run_eval).                                                    *)
THEOREM FullFindsMore == ESpec => []FullFindsNoLess
  BY EvaluationInvariant, FullHolds, PTL

(* A higher threshold keeps fewer edges. *)
LEMMA SlicesShrink ==
  ASSUME EvaluationInv, NEW j \in 1 .. Len(Thresholds), NEW k \in 1 .. Len(Thresholds),
         Thresholds[j] <= Thresholds[k]
  PROVE  Slice(scored, k) \subseteq Slice(scored, j)
<1>1. \A e \in DOMAIN scored : scored[e] \in Scores
  BY DEF EvaluationInv, LabelInv, ClusterInv, UTypeOK
<1>2. \A e \in DOMAIN scored : scored[e] \in Nat
  BY <1>1, ScoresAssumption
<1>3. Thresholds[j] \in Nat /\ Thresholds[k] \in Nat
  BY ThresholdsAssumption
<1>4. QED  BY <1>2, <1>3 DEF Slice, Edges

LEMMA ScoredArePairs ==
  ASSUME EvaluationInv
  PROVE  DOMAIN scored \in SUBSET SUBSET Refs
  BY DEF EvaluationInv, LabelInv, ClusterInv, PassInv, UTypeOK, Pairs

LEMMA SweepHolds == EvaluationInv => SweepIsComparable
<1> SUFFICES ASSUME EvaluationInv, NEW k \in 2 .. Len(sweep)
    PROVE  /\ sweep[1].metrics.tp <= sweep[k].metrics.tp
           /\ sweep[1].metrics.fp <= sweep[k].metrics.fp
           /\ sweep[k].metrics.tp + sweep[k].metrics.fn
                = sweep[1].metrics.tp + sweep[1].metrics.fn
           /\ sweep[k].edges + sweep[k].below = Cardinality(DOMAIN scored)
           /\ \A j \in 2 .. k :
                Thresholds[j - 1] <= Thresholds[k - 1] =>
                  sweep[j].metrics.tp >= sweep[k].metrics.tp
                  /\ sweep[j].metrics.fp >= sweep[k].metrics.fp
           /\ sweep[k].edges = 0 => sweep[k].metrics = sweep[1].metrics
  BY Zenon DEF SweepIsComparable
<1>1. /\ mode = "sweep" /\ pc # "link" /\ Len(sweep) \in Nat /\ Len(sweep) <= Len(Thresholds) + 1
      /\ sweep[1].metrics = PairMetrics(det)
      /\ \A j \in 2 .. Len(sweep) : Measured(j)
  <2>1. sweep # <<>>
    OBVIOUS
  <2>2. mode = "sweep"
    BY <2>1 DEF EvaluationInv, SweepInv
  <2>3. QED  BY <2>2 DEF EvaluationInv, SweepInv
<1>2. PICK d \in [Refs -> Refs \cup {0}] :
        /\ det = Classes(d) /\ Components(d, Staged, KeyPairs(Staged))
        /\ Numbered(d, Staged) /\ Staged \in SUBSET Refs
  BY <1>1, BothPasses
<1>3. PICK c \in [Refs -> Refs \cup {0}] :
        /\ Components(c, Staged, SlicePairs(k - 1))
        /\ sweep[k] = [metrics |-> PairMetrics(Classes(c)),
                       edges |-> Cardinality(Slice(scored, k - 1)),
                       below |-> Cardinality(DOMAIN scored \ Slice(scored, k - 1))]
  BY <1>1 DEF Measured
<1>4. Numbered(c, Staged) /\ \A x, y \in Staged : d[x] = d[y] => c[x] = c[y]
  <2> DEFINE E == KeyPairs(Staged)
             F == SlicePairs(k - 1)
  <2>1. E \subseteq F /\ Components(d, Staged, E) /\ Components(c, Staged, F)
    BY <1>2, <1>3 DEF SlicePairs
  <2> HIDE DEF E, F
  <2>2. \A x, y \in Staged : d[x] = d[y] => c[x] = c[y]
    BY <1>2, <2>1, ComponentsGrow
  <2>3. QED  BY <2>1, <2>2 DEF Components
<1>5. sweep[k].metrics = PairMetrics(Classes(c)) /\ sweep[1].metrics = PairMetrics(Classes(d))
  BY <1>1, <1>2, <1>3
<1>6. /\ PairMetrics(Classes(d)).tp <= PairMetrics(Classes(c)).tp
      /\ PairMetrics(Classes(d)).fp <= PairMetrics(Classes(c)).fp
      /\ PairMetrics(Classes(d)).tp + PairMetrics(Classes(d)).fn
           = PairMetrics(Classes(c)).tp + PairMetrics(Classes(c)).fn
  BY <1>2, <1>4, MetricsGrow
<1>7. sweep[k].edges + sweep[k].below = Cardinality(DOMAIN scored)
  <2> DEFINE T == DOMAIN scored
             Q == Slice(scored, k - 1)
  <2>1. T \in SUBSET SUBSET Refs /\ Q \subseteq T /\ Q \cap T = Q
    BY ScoredArePairs DEF Slice, Edges
  <2>2. Cardinality(Q \cap T) + Cardinality(T \ Q) = Cardinality(T)
    <3> HIDE DEF T, Q
    <3>1. QED  BY <2>1, FoundAndMissed
  <2>3. Cardinality(Q) + Cardinality(T \ Q) = Cardinality(T)
    BY <2>1, <2>2
  <2>4. sweep[k].edges = Cardinality(Q) /\ sweep[k].below = Cardinality(T \ Q)
    BY <1>3
  <2>5. QED  BY <2>3, <2>4
<1>8. ASSUME NEW j \in 2 .. k, Thresholds[j - 1] <= Thresholds[k - 1]
      PROVE  /\ sweep[j].metrics.tp >= sweep[k].metrics.tp
             /\ sweep[j].metrics.fp >= sweep[k].metrics.fp
  <2>1. PICK b \in [Refs -> Refs \cup {0}] :
          /\ Components(b, Staged, SlicePairs(j - 1)) /\ sweep[j].metrics = PairMetrics(Classes(b))
    <3>1. j \in 2 .. Len(sweep)
      BY <1>1
    <3>2. Measured(j)
      BY <1>1, <3>1
    <3>3. QED  BY <3>2 DEF Measured
  <2>2. j - 1 \in 1 .. Len(Thresholds) /\ k - 1 \in 1 .. Len(Thresholds)
    BY <1>1, ThresholdsAssumption
  <2>3. SlicePairs(k - 1) \subseteq SlicePairs(j - 1)
    <3>1. Slice(scored, k - 1) \subseteq Slice(scored, j - 1)
      BY <1>8, <2>2, SlicesShrink
    <3>2. QED  BY <3>1 DEF SlicePairs, EdgePairs
  <2>4. Numbered(b, Staged) /\ \A x, y \in Staged : c[x] = c[y] => b[x] = b[y]
    <3> DEFINE E == SlicePairs(k - 1)
               F == SlicePairs(j - 1)
    <3>1. E \subseteq F /\ Components(c, Staged, E) /\ Components(b, Staged, F)
      BY <1>3, <2>1, <2>3
    <3> HIDE DEF E, F
    <3>2. \A x, y \in Staged : c[x] = c[y] => b[x] = b[y]
      BY <1>2, <3>1, ComponentsGrow
    <3>3. QED  BY <3>1, <3>2 DEF Components
  <2>5. /\ PairMetrics(Classes(c)).tp <= PairMetrics(Classes(b)).tp
        /\ PairMetrics(Classes(c)).fp <= PairMetrics(Classes(b)).fp
    BY <1>2, <1>4, <2>4, MetricsGrow
  <2>6. /\ PairMetrics(Classes(c)).tp \in Nat /\ PairMetrics(Classes(b)).tp \in Nat
        /\ PairMetrics(Classes(c)).fp \in Nat /\ PairMetrics(Classes(b)).fp \in Nat
    BY <1>2, <1>4, <2>4, MetricsTyped
  <2>7. QED  BY <1>5, <2>1, <2>5, <2>6
<1>9. ASSUME sweep[k].edges = 0  PROVE  sweep[k].metrics = sweep[1].metrics
  <2>1. Cardinality(Slice(scored, k - 1)) = 0
    BY <1>3, <1>9
  <2>2. Slice(scored, k - 1) \in SUBSET SUBSET Refs
    BY ScoredArePairs DEF Slice, Edges
  <2>3. Slice(scored, k - 1) = {}
    BY <2>1, <2>2, PairsFinite, FS_EmptySet
  <2>4. SlicePairs(k - 1) = KeyPairs(Staged)
    BY <2>3 DEF SlicePairs, EdgePairs
  <2>5. c = d
    BY <1>2, <1>3, <2>4, ComponentsUnique
  <2>6. QED  BY <1>5, <2>5
<1>10. QED  BY <1>5, <1>6, <1>7, <1>8, <1>9

(* The rows of the sweep are comparable, whatever order the thresholds come *)
(* in: run_threshold_sweep starts each from the clusters of the rules.      *)
THEOREM SweepComparable == ESpec => []SweepIsComparable
  BY EvaluationInvariant, SweepHolds, PTL
-----------------------------------------------------------------------------
(* Purity and precision. *)

(* Counting how many values a set of records takes. *)
Values(g, S) == {g[x] : x \in S}

LEMMA ValuesCounted ==
  ASSUME NEW S, IsFiniteSet(S), NEW g
  PROVE  /\ Cardinality(Values(g, S)) <= 1 <=> \A x, y \in S : g[x] = g[y]
         /\ Cardinality(Values(g, S)) = 1 <=> S # {} /\ \A x, y \in S : g[x] = g[y]
<1> DEFINE V == Values(g, S)
           h == [x \in S |-> g[x]]
<1>1. IsFiniteSet(V)
  <2>1. h \in Surjection(S, V)
    BY DEF Surjection, Values
  <2> HIDE DEF h, V
  <2>2. QED  BY <2>1, FS_Surjection
<1>2. /\ Cardinality(V) \in Nat
      /\ Cardinality(V) = 0 <=> V = {}
      /\ Cardinality(V) = 1 <=> \E v : V = {v}
  <2> HIDE DEF V
  <2>1. QED  BY <1>1, FS_CardinalityType, FS_EmptySet, FS_Singleton
<1>3. V = {} <=> S = {}
  BY DEF Values
<1>4. (\E v : V = {v}) <=> S # {} /\ \A x, y \in S : g[x] = g[y]
  <2>1. ASSUME NEW v, V = {v}  PROVE  S # {} /\ \A x, y \in S : g[x] = g[y]
    BY <2>1 DEF Values
  <2>2. ASSUME NEW a \in S, \A x, y \in S : g[x] = g[y]  PROVE  V = {g[a]}
    BY <2>2 DEF Values
  <2>3. QED  BY <2>1, <2>2
<1> HIDE DEF V
<1>5. /\ Cardinality(V) <= 1 <=> \A x, y \in S : g[x] = g[y]
      /\ Cardinality(V) = 1 <=> S # {} /\ \A x, y \in S : g[x] = g[y]
  <2>1. Cardinality(V) <= 1 <=> Cardinality(V) = 0 \/ Cardinality(V) = 1
    BY <1>2
  <2>2. QED  BY <1>2, <1>3, <1>4, <2>1
<1>6. QED  BY <1>5 DEF V

LEMMA TwoArePair ==
  ASSUME NEW L, NEW x \in L, NEW y \in L, x # y
  PROVE  {x, y} \in Pairs(L)
<1>1. IsFiniteSet({x}) /\ Cardinality({x}) = 1
  BY FS_Singleton
<1>2. Cardinality({x} \cup {y}) = 2
  BY <1>1, FS_AddElement
<1>3. {x} \cup {y} = {x, y}
  OBVIOUS
<1>4. QED  BY <1>2, <1>3 DEF Pairs

(* The true pairs are of records with one entity. *)
LEMMA TruePairsAre ==
  ASSUME NEW L \in SUBSET Refs, NEW c, Numbered(c, L)
  PROVE  TruePairs(Classes(c)) =
           {e \in Pairs(L \cap DOMAIN truth) : \A x, y \in e : truth[x].entity = truth[y].entity}
<1> DEFINE K == L \cap DOMAIN truth
           Of(v) == {r \in K : truth[r].entity = v}
<1>1. Known(Classes(c)) = K
  BY PairsOfClasses
<1>2. \A e : e \in TruePairs(Classes(c)) <=> \E v \in {truth[r].entity : r \in K} : e \in Pairs(Of(v))
  BY <1>1 DEF TruePairs, PairsOf, Entities
<1>3. ASSUME NEW v, NEW e \in Pairs(Of(v))
      PROVE  e \in Pairs(K) /\ \A x, y \in e : truth[x].entity = truth[y].entity
  BY DEF Pairs
<1>4. ASSUME NEW e \in Pairs(K), \A x, y \in e : truth[x].entity = truth[y].entity
      PROVE  \E v \in {truth[r].entity : r \in K} : e \in Pairs(Of(v))
  <2>1. PICK a \in K, b \in K : a # b /\ e = {a, b}
    <3>1. K \in SUBSET Refs
      OBVIOUS
    <3> HIDE DEF K
    <3>2. QED  BY <3>1, PairsArePairs
  <2>2. e \in Pairs(Of(truth[a].entity))
    BY <1>4, <2>1 DEF Pairs
  <2>3. QED  BY <2>1, <2>2
<1> HIDE DEF K, Of
<1>5. TruePairs(Classes(c)) = {e \in Pairs(K) : \A x, y \in e : truth[x].entity = truth[y].entity}
  BY <1>2, <1>3, <1>4
<1>6. QED  BY <1>5 DEF K

(* No predicted pair is wrong when every cluster is of one known entity. *)
LEMMA NothingWrong ==
  ASSUME NEW L \in SUBSET Refs, NEW c, Numbered(c, L)
  PROVE  PairMetrics(Classes(c)).fp = 0 <=>
           \A x, y \in L \cap DOMAIN truth : c[x] = c[y] => truth[x].entity = truth[y].entity
<1> DEFINE K == L \cap DOMAIN truth
           Q == Predicted(Classes(c))
           T == TruePairs(Classes(c))
<1>1. Q = {e \in Pairs(L) : e \subseteq K /\ \A x, y \in e : c[x] = c[y]}
  BY PairsOfClasses DEF Predicted
<1>2. T = {e \in Pairs(K) : \A x, y \in e : truth[x].entity = truth[y].entity}
  BY TruePairsAre
<1>3. PairMetrics(Classes(c)).fp = 0 <=> Q \ T = {}
  <2>1. Q \ T \in SUBSET SUBSET Refs
    BY PairsGrow
  <2>2. IsFiniteSet(Q \ T)
    BY <2>1, PairsFinite
  <2>3. Cardinality(Q \ T) = 0 <=> Q \ T = {}
    BY <2>2, FS_EmptySet
  <2>4. QED  BY <2>3 DEF PairMetrics
<1> HIDE DEF Q, T
<1>4. ASSUME Q \ T = {}, NEW x \in K, NEW y \in K, c[x] = c[y]
      PROVE  truth[x].entity = truth[y].entity
  <2>1. CASE x # y
    <3>1. {x, y} \in Pairs(L)
      BY <2>1, TwoArePair
    <3>2. {x, y} \in Q
      BY <1>1, <1>4, <3>1
    <3>3. {x, y} \in T
      BY <1>4, <3>2
    <3>4. QED  BY <1>2, <3>3
  <2>2. QED  BY <2>1
<1>5. ASSUME \A x, y \in K : c[x] = c[y] => truth[x].entity = truth[y].entity
      PROVE  Q \ T = {}
  BY <1>1, <1>2, <1>5 DEF Pairs
<1>6. QED  BY <1>3, <1>4, <1>5
(* A cluster counts as probabilistic when an edge brought in a record that   *)
(* no rule had linked.                                                       *)
LEMMA ProbabilisticByEdge ==
  ASSUME ClusterInv, pc # "link", mode = "full", todo = {}, NEW f \in Staged
  PROVE  (\E r \in Members(f) : Method(r) = "probabilistic")
           <=> \E e \in kept : e \subseteq Members(f) /\ \E r \in e : ~ByRule(r)
<1>1. /\ Staged \in SUBSET Refs /\ Seen = Staged /\ kept \ todo = kept
      /\ kept \subseteq Pairs(Staged) /\ Members(f) \subseteq Staged
  BY AllSeen DEF ClusterInv, UTypeOK, PassInv, Members
<1>2. \A r \in Staged : score[r] > 0 <=> \E e \in kept : r \in e
  <2> SUFFICES ASSUME NEW r \in Staged  PROVE  score[r] > 0 <=> \E e \in kept : r \in e
    OBVIOUS
  <2>1. score[r] \in Scores \cup {0} /\ \A e \in kept : scored[e] \in Scores
    BY <1>1 DEF ClusterInv, UTypeOK
  <2>2. score[r] \in Nat /\ \A e \in kept : scored[e] \in Nat /\ scored[e] # 0
    <3>1. Scores \subseteq Nat /\ 0 \notin Scores /\ 0 \in Nat
      BY ScoresAssumption
    <3>2. QED  BY <2>1, <3>1
  <2>3. /\ \A e \in kept : r \in e => scored[e] <= score[r]
        /\ score[r] # 0 => \E e \in kept : r \in e /\ scored[e] = score[r]
    BY <1>1 DEF ClusterInv, ScoreInv
  <2>4. QED  BY <2>2, <2>3
<1>3. ASSUME NEW r \in Staged
      PROVE  Method(r) = "probabilistic" <=> ~ByRule(r) /\ \E e \in kept : r \in e
  <2>1. (\E e \in kept : r \in e) => Multi(Members(r))
    BY <1>3, LinkedByRuleOrEdge
  <2>2. CASE ByRule(r)
    BY <2>2 DEF Method
  <2>3. CASE ~ByRule(r) /\ score[r] > 0
    <3>1. Multi(Members(r))
      BY <1>2, <2>1, <2>3
    <3>2. Method(r) = "probabilistic"
      BY <2>3, <3>1 DEF Method
    <3>3. QED  BY <1>2, <2>3, <3>2
  <2>4. CASE ~ByRule(r) /\ ~(score[r] > 0)
    <3>1. Method(r) # "probabilistic"
      BY <2>4 DEF Method
    <3>2. QED  BY <1>2, <2>4, <3>1
  <2>5. QED  BY <2>2, <2>3, <2>4
<1>4. ASSUME NEW e \in kept, NEW r \in e, r \in Members(f)
      PROVE  e \subseteq Members(f)
  <2>1. PICK a \in Staged, b \in Staged : a # b /\ e = {a, b}
    BY <1>1, PairsArePairs
  <2>2. <<a, b>> \in EvidencePairs
    BY <1>1, <2>1 DEF EvidencePairs, EdgePairs
  <2>3. uf[a] = uf[b]
    BY <1>1, <2>1, <2>2 DEF ClusterInv, Components
  <2>4. QED  BY <1>4, <2>1, <2>3 DEF Members
<1>5. QED  BY <1>1, <1>3, <1>4

LEMMA PurityHolds == EvaluationInv => PurityTellsThePrecision
<1> SUFFICES ASSUME EvaluationInv, NEW row \in rows
    PROVE  /\ row.review_band = Cardinality(review) /\ review \cap kept = {}
           /\ row.full.metrics.fp = 0 <=>
                \A f \in DOMAIN purity :
                  Cardinality({truth[r].entity : r \in Members(f) \cap DOMAIN truth}) <= 1
           /\ (\A f \in DOMAIN purity : purity[f].true_entity_count = 1)
                => row.full.metrics.fp = 0
           /\ (Staged \subseteq DOMAIN truth /\ row.full.metrics.fp = 0)
                => \A f \in DOMAIN purity : purity[f].true_entity_count = 1
           /\ \A f \in DOMAIN purity :
                purity[f].has_probabilistic <=>
                  \E e \in kept : e \subseteq Members(f) /\ \E r \in e : ~ByRule(r)
  BY DEF PurityTellsThePrecision
<1> DEFINE K == Staged \cap DOMAIN truth
           Entity == [r \in Refs |-> truth[r].entity]
           Whose == [r \in Refs |-> EntityOf(r)]
<1>1. /\ row.review_band = Cardinality(DOMAIN scored \ kept)
      /\ row.full.metrics = PairMetrics(Classes(uf))
      /\ review = DOMAIN scored \ kept
      /\ purity = [f \in {FanId(S) : S \in Classes(uf)} |-> ClusterTruth(Members(f))]
      /\ pc \in {"rows", "evaluated"} /\ mode = "full"
  BY DEF EvaluationInv, ReportInv, Variant
<1>2. /\ ClusterInv /\ todo = {} /\ Staged \in SUBSET Refs /\ Numbered(uf, Staged)
  BY <1>1, AllSeen DEF EvaluationInv, LabelInv, ClusterInv, PassInv
<1>3. DOMAIN purity = {uf[r] : r \in Staged}
  <2>1. {FanId(S) : S \in Classes(uf)} = {uf[r] : r \in Staged}
    BY <1>2, ClassesNamed
  <2>2. QED  BY <1>1, <2>1
<1>4. row.full.metrics.fp = 0 <=> \A x, y \in K : uf[x] = uf[y] => truth[x].entity = truth[y].entity
  BY <1>1, <1>2, NothingWrong
<1>5. /\ \A f \in DOMAIN purity : f \in Staged /\ uf[f] = f /\ f \in Members(f)
      /\ \A x \in Staged : uf[x] \in DOMAIN purity /\ x \in Members(uf[x])
      /\ \A f \in DOMAIN purity : \A x \in Members(f) : uf[x] = f /\ x \in Staged
  BY <1>2, <1>3 DEF Numbered, Members
<1>6. ASSUME NEW f \in DOMAIN purity
      PROVE  /\ Cardinality({truth[r].entity : r \in Members(f) \cap DOMAIN truth}) <= 1 <=>
                  \A x, y \in Members(f) \cap DOMAIN truth : truth[x].entity = truth[y].entity
             /\ purity[f].true_entity_count = 1 <=>
                  \A x, y \in Members(f) : EntityOf(x) = EntityOf(y)
  <2> DEFINE S == Members(f) \cap DOMAIN truth
  <2>1. Members(f) \in SUBSET Refs /\ S \in SUBSET Refs /\ Members(f) # {}
    BY <1>2, <1>5
  <2>2. IsFiniteSet(Members(f)) /\ IsFiniteSet(S)
    BY <2>1, FS_Subset, RefsAssumption
  <2>3. {truth[r].entity : r \in S} = Values(Entity, S)
    BY <2>1 DEF Values
  <2>4. {EntityOf(r) : r \in Members(f)} = Values(Whose, Members(f))
    BY <2>1 DEF Values
  <2>5. purity[f].true_entity_count = Cardinality({EntityOf(r) : r \in Members(f)})
    BY <1>1 DEF ClusterTruth
  <2>6. Cardinality(Values(Entity, S)) <= 1 <=> \A x, y \in S : Entity[x] = Entity[y]
    <3> HIDE DEF S, Entity
    <3>1. QED  BY <2>2, ValuesCounted
  <2>7. Cardinality(Values(Whose, Members(f))) = 1 <=> \A x, y \in Members(f) : Whose[x] = Whose[y]
    <3> HIDE DEF Whose
    <3>1. QED  BY <2>1, <2>2, ValuesCounted
  <2>8. /\ \A x \in S : Entity[x] = truth[x].entity
        /\ \A x \in Members(f) : Whose[x] = EntityOf(x)
    BY <2>1
  <2> HIDE DEF Entity, Whose
  <2>9. QED  BY <2>3, <2>4, <2>5, <2>6, <2>7, <2>8
<1>7. \A x, y \in K : EntityOf(x) = EntityOf(y) <=> truth[x].entity = truth[y].entity
  BY DEF EntityOf
<1>8. row.full.metrics.fp = 0 <=>
        \A f \in DOMAIN purity :
          Cardinality({truth[r].entity : r \in Members(f) \cap DOMAIN truth}) <= 1
  <2>1. (\A f \in DOMAIN purity : \A x, y \in Members(f) \cap DOMAIN truth :
           truth[x].entity = truth[y].entity)
          <=> \A x, y \in K : uf[x] = uf[y] => truth[x].entity = truth[y].entity
    BY <1>5
  <2>2. QED  BY <1>4, <1>6, <2>1
<1>9. (\A f \in DOMAIN purity : purity[f].true_entity_count = 1) => row.full.metrics.fp = 0
  <2>1. ASSUME \A f \in DOMAIN purity : purity[f].true_entity_count = 1,
               NEW x \in K, NEW y \in K, uf[x] = uf[y]
        PROVE  truth[x].entity = truth[y].entity
    <3>1. uf[x] \in DOMAIN purity /\ x \in Members(uf[x]) /\ y \in Members(uf[x])
      BY <1>5, <2>1
    <3>2. purity[uf[x]].true_entity_count = 1
      BY <2>1, <3>1
    <3>3. EntityOf(x) = EntityOf(y)
      BY <1>6, <3>1, <3>2
    <3>4. QED  BY <1>7, <3>3
  <2>2. QED  BY <1>4, <2>1
<1>10. (Staged \subseteq DOMAIN truth /\ row.full.metrics.fp = 0)
         => \A f \in DOMAIN purity : purity[f].true_entity_count = 1
  <2>1. ASSUME Staged \subseteq DOMAIN truth, row.full.metrics.fp = 0,
               NEW f \in DOMAIN purity, NEW x \in Members(f), NEW y \in Members(f)
        PROVE  EntityOf(x) = EntityOf(y)
    <3>1. x \in K /\ y \in K /\ uf[x] = uf[y]
      BY <1>5, <2>1
    <3>2. QED  BY <1>4, <1>7, <2>1, <3>1
  <2>2. QED  BY <1>6, <2>1
<1>11. ASSUME NEW f \in DOMAIN purity
       PROVE  purity[f].has_probabilistic <=>
                \E e \in kept : e \subseteq Members(f) /\ \E r \in e : ~ByRule(r)
  <2>1. purity[f].has_probabilistic <=> \E r \in Members(f) : Method(r) = "probabilistic"
    BY <1>1, Zenon DEF ClusterTruth
  <2>2. f \in Staged /\ pc # "link"
    BY <1>1, <1>5
  <2>3. QED  BY <1>1, <1>2, <2>1, <2>2, ProbabilisticByEdge
<1>12. review \cap kept = {} /\ row.review_band = Cardinality(review)
  BY <1>1
<1>13. QED  BY <1>8, <1>9, <1>10, <1>11, <1>12

(* The purity of the clusters and the pair metrics tell one story (run_eval, *)
(* write_cluster_truth).                                                     *)
THEOREM PurityCorrect == ESpec => []PurityTellsThePrecision
  BY EvaluationInvariant, PurityHolds, PTL

(* The evaluation harness works on clusters that are components, and what    *)
(* the pipeline writes beside it is as Unification alone promises.           *)
THEOREM EvaluationKeepsClusters ==
  ESpec => [](ClustersAreComponents /\ LabelsAreHonest /\ TablesAgree /\ GoldenSurvives)
<1>1. EvaluationInv => ClustersAreComponents /\ LabelsAreHonest /\ TablesAgree /\ GoldenSurvives
  BY ClustersFollow, LabelsHold, TablesHold, GoldenHolds DEF EvaluationInv, LabelInv
<1>2. QED  BY <1>1, EvaluationInvariant, PTL
=============================================================================
