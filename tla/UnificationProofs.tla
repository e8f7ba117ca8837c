------------------------- MODULE UnificationProofs -------------------------
(***************************************************************************)
(* The clusters of Unification are the connected components of the         *)
(* evidence, whatever the records, the scores and the order in which they  *)
(* are taken; and the tables materialize writes say what the clusters do.  *)
(***************************************************************************)
EXTENDS Unification, FiniteSetTheorems, TLAPS

-----------------------------------------------------------------------------
(* Least and greatest elements. *)

LessThan == {p \in Nat \X Nat : p[1] < p[2]}

LEMMA LessThanIsWellFounded == IsWellFoundedOn(LessThan, Nat)
  BY NatLessThanWellFounded, Zenon DEF OpToRel, LessThan

LEMMA LeastExists ==
  ASSUME NEW S \in SUBSET Nat, S # {}
  PROVE  \E r \in S : \A x \in S : r <= x
<1>1. \E r \in S : \A x \in S : ~ (<<x, r>> \in LessThan)
  BY LessThanIsWellFounded, WFMin, Zenon
<1>2. \A r, x \in S : <<x, r>> \notin LessThan => r <= x
  BY DEF LessThan
<1>3. QED  BY <1>1, <1>2

(* Whatever a finite set of things is measured by, one measures most. *)
LEMMA GreatestExists ==
  ASSUME NEW S, IsFiniteSet(S), S # {}, NEW f, \A x \in S : f[x] \in Nat
  PROVE  \E r \in S : \A x \in S : f[x] <= f[r]
<1> DEFINE Above(r) == {x \in S : f[x] > f[r]}
           F == {Above(r) : r \in S}
<1>1. F \subseteq FiniteSubsetsOf(S) /\ F # {}
  <2>1. F \subseteq SUBSET S /\ F # {}
    OBVIOUS
  <2>2. FiniteSubsetsOf(S) = SUBSET S
    BY FS_FiniteSubsetsOfFinite
  <2>3. QED  BY <2>1, <2>2
<1>2. \E t \in F : \A u \in F : ~ (<<u, t>> \in StrictSubsetOrdering(S))
  <2> HIDE DEF F
  <2>1. QED  BY <1>1, FS_StrictSubsetOrderingWellFounded, WFMin, Zenon
<1>3. PICK r \in S : \A u \in F : ~ (<<u, Above(r)>> \in StrictSubsetOrdering(S))
  BY <1>2
<1>4. ASSUME NEW x \in S, f[x] > f[r]  PROVE  FALSE
  <2>1. Above(x) \in F
    OBVIOUS
  <2>2. Above(x) \subseteq Above(r)
    BY <1>4
  <2>3. x \in Above(r) /\ x \notin Above(x)
    BY <1>4
  <2>4. <<Above(x), Above(r)>> \in StrictSubsetOrdering(S)
    BY <2>2, <2>3 DEF StrictSubsetOrdering
  <2>5. QED  BY <1>3, <2>1, <2>4
<1>5. QED  BY <1>4

(* fan_id_for: the least ref of a cluster, which every cluster has. *)
LEMMA FanIdIsLeast ==
  ASSUME NEW S \in SUBSET Refs, S # {}
  PROVE  FanId(S) \in S /\ \A x \in S : FanId(S) <= x
<1>1. \E r \in S : \A x \in S : r <= x
  BY LeastExists, RefsAssumption
<1>2. QED  BY <1>1, Zenon DEF FanId

LEMMA FanIdIs ==
  ASSUME NEW S \in SUBSET Refs, NEW m \in S, \A x \in S : m <= x
  PROVE  FanId(S) = m
<1>1. FanId(S) \in S /\ FanId(S) <= m /\ m <= FanId(S)
  BY FanIdIsLeast
<1>2. FanId(S) \in Nat /\ m \in Nat
  BY <1>1, RefsAssumption
<1>3. QED  BY <1>1, <1>2

-----------------------------------------------------------------------------
(* Components. *)

(* c names the class of each ref of L by its least ref; 0 for the others. *)
Numbered(c, L) ==
  /\ c \in [Refs -> Refs \cup {0}]
  /\ \A x \in Refs : c[x] # 0 <=> x \in L
  /\ \A x \in L : c[x] \in L /\ c[c[x]] = c[x] /\ c[x] <= x

(* No pair of E leads out of A, or into it. *)
Cut(A, L, E) == \A x \in A, y \in L \ A : <<x, y>> \notin E /\ <<y, x>> \notin E

(* The classes of c are the connected components of L under E. *)
Components(c, L, E) ==
  /\ Numbered(c, L)
  /\ \A x, y \in L : <<x, y>> \in E => c[x] = c[y]
  /\ \A A \in SUBSET L : Cut(A, L, E) => \A x \in A, y \in L \ A : c[x] # c[y]

(* The class of x is one of the classes of S. *)
Touches(c, S, x) == \E z \in S : c[x] = c[z]

LEMMA Positive ==
  /\ \A x \in Refs : x \in Nat /\ x # 0
  /\ \A x, y, z \in Refs : x <= y /\ y <= z => x <= z
  BY RefsAssumption

(* union joins the classes of S and no others, and keeps the least names. *)
LEMMA LinkedJoins ==
  ASSUME NEW L \in SUBSET Refs, NEW c, Numbered(c, L),
         NEW S \in SUBSET L, S # {}
  PROVE  /\ Numbered(Linked(c, S), L)
         /\ \A x, y \in L : Linked(c, S)[x] = Linked(c, S)[y] <=>
              c[x] = c[y] \/ (Touches(c, S, x) /\ Touches(c, S, y))
<1> DEFINE roots == {c[z] : z \in S}
           m == FanId(roots)
           d == Linked(c, S)
<1>1. \A z \in S : z \in L /\ z \in Refs /\ c[z] \in L /\ c[z] \in Refs /\ c[c[z]] = c[z]
  BY DEF Numbered
<1>2. roots \subseteq L /\ roots \subseteq Refs /\ roots # {}
  BY <1>1
<1>3. m \in roots /\ \A z \in roots : m <= z
  <2> HIDE DEF roots
  <2>1. QED  BY <1>2, FanIdIsLeast
<1>4. m \in L /\ m \in Refs /\ c[m] = m
  BY <1>1, <1>3
<1>5. /\ d \in [Refs -> Refs \cup {0}]
      /\ \A x \in Refs : d[x] = IF c[x] \in roots THEN m ELSE c[x]
  <2>1. d = [x \in Refs |-> IF c[x] \in roots THEN m ELSE c[x]]
    BY DEF Linked
  <2>2. \A x \in Refs : c[x] \in Refs \cup {0}
    BY DEF Numbered
  <2> HIDE DEF d, roots, m
  <2>3. QED  BY <2>1, <2>2, <1>4
<1>6. 0 \notin roots /\ m # 0
  BY <1>2, <1>4, Positive
<1> HIDE DEF d, m, roots
<1>7. \A x \in Refs : d[x] # 0 <=> x \in L
  BY <1>5, <1>6 DEF Numbered
<1>8. ASSUME NEW x \in L  PROVE  d[x] \in L /\ d[d[x]] = d[x] /\ d[x] <= x
  <2>1. x \in Refs /\ c[x] \in L /\ c[x] \in Refs /\ c[c[x]] = c[x] /\ c[x] <= x
    BY DEF Numbered
  <2>2. CASE c[x] \in roots
    BY <1>3, <1>4, <1>5, <2>1, <2>2, Positive
  <2>3. CASE c[x] \notin roots
    BY <1>5, <2>1, <2>3
  <2>4. QED  BY <2>2, <2>3
<1>9. \A x, y \in L :
        d[x] = d[y] <=> c[x] = c[y] \/ (c[x] \in roots /\ c[y] \in roots)
  BY <1>3, <1>5
<1>10. \A x \in L : c[x] \in roots <=> Touches(c, S, x)
  BY DEF roots, Touches
<1>11. QED  BY <1>5, <1>7, <1>8, <1>9, <1>10 DEF Numbered, d

(* When the new evidence is about the classes of S, and no cut is left that *)
(* separates S, union makes the components of the old and new evidence.     *)
LEMMA LinkedComponents ==
  ASSUME NEW L \in SUBSET Refs, NEW c, NEW E, NEW F, Components(c, L, E), E \subseteq F,
         NEW S \in SUBSET L, S # {},
         \A x, y \in L : <<x, y>> \in F /\ <<x, y>> \notin E =>
            Touches(c, S, x) /\ Touches(c, S, y),
         \A A \in SUBSET L : Cut(A, L, F) => S \subseteq A \/ S \cap A = {}
  PROVE  Components(Linked(c, S), L, F)
<1> DEFINE d == Linked(c, S)
<1>0. Numbered(c, L)
  BY DEF Components
<1>1. /\ Numbered(d, L)
      /\ \A x, y \in L :
           d[x] = d[y] <=> c[x] = c[y] \/ (Touches(c, S, x) /\ Touches(c, S, y))
  BY <1>0, LinkedJoins
<1>2. \A x, y \in L : <<x, y>> \in F => d[x] = d[y]
  BY <1>1 DEF Components
<1>3. ASSUME NEW A \in SUBSET L, Cut(A, L, F), NEW x \in A, NEW y \in L \ A
      PROVE  d[x] # d[y]
  <2>1. Cut(A, L, E)
    BY <1>3 DEF Cut
  <2>2. \A u \in A, v \in L \ A : c[u] # c[v]
    BY <2>1 DEF Components
  <2>3. CASE S \subseteq A
    BY <1>1, <2>2, <2>3 DEF Touches
  <2>4. CASE S \cap A = {}
    BY <1>1, <2>2, <2>4 DEF Touches
  <2>5. QED  BY <1>3, <2>3, <2>4
<1> HIDE DEF d
<1>4. QED  BY <1>1, <1>2, <1>3 DEF Components, d

(* More evidence never separates what less of it joined. *)
LEMMA ComponentsGrow ==
  ASSUME NEW L \in SUBSET Refs, NEW c, NEW d, NEW E, NEW F,
         Components(c, L, E), Components(d, L, F), E \subseteq F
  PROVE  \A x, y \in L : c[x] = c[y] => d[x] = d[y]
<1> SUFFICES ASSUME NEW x \in L, NEW y \in L, c[x] = c[y]  PROVE  d[x] = d[y]
  OBVIOUS
<1> DEFINE A == {z \in L : d[z] = d[x]}
<1>1. A \in SUBSET L /\ x \in A
  OBVIOUS
<1>2. Cut(A, L, E)
  BY DEF Components, Cut
<1> HIDE DEF A
<1>3. \A u \in A, v \in L \ A : c[u] # c[v]
  BY <1>1, <1>2 DEF Components
<1>4. y \in A
  BY <1>1, <1>3
<1>5. QED  BY <1>4 DEF A

-----------------------------------------------------------------------------
(* The inductive invariant. *)

Seen == Staged \ left

KeyPairs(L) == {p \in L \X L : KeysOf(p[1]) \cap KeysOf(p[2]) # {}}
EdgePairs(L, S) == {p \in L \X L : {p[1], p[2]} \in S}
EvidencePairs == KeyPairs(Seen) \cup EdgePairs(Seen, kept \ todo)

(* The record that first had a key has been linked to all that have it. *)
Anchored ==
  pc = "link" =>
    /\ \A k \in AllKeys : first[k] # 0 => first[k] \in Seen /\ k \in KeysOf(first[k])
    /\ \A r \in Seen : \A k \in KeysOf(r) : first[k] # 0 /\ uf[first[k]] = uf[r]

(* What the rules alone make of the records. *)
ByRules(c) == Components(c, Staged, KeyPairs(Staged))

(* The passes come one after the other. *)
PassInv ==
  /\ pc \in {"link", "score"} => kept = {} /\ todo = {} /\ mode = "none"
  /\ pc = "combine" => mode \in {"full", "sweep"}
  /\ pc # "link" => left = {} /\ \E c \in [Refs -> Refs \cup {0}] : det = Classes(c) /\ ByRules(c)
  /\ pc # "combine" => todo = {}
  /\ mode = "full" => kept = Edges(scored, AutoMerge)
  /\ mode = "deterministic" => kept = {}
  /\ DOMAIN scored \subseteq Pairs(Staged)

(* score_by_ref is the best of the accepted edges combine has come to. *)
ScoreInv ==
  \A r \in Refs :
    /\ \A e \in kept \ todo : r \in e => scored[e] <= score[r]
    /\ score[r] # 0 => \E e \in kept \ todo : r \in e /\ scored[e] = score[r]

ClusterInv ==
  /\ UTypeOK /\ Anchored /\ PassInv /\ ScoreInv
  /\ Components(uf, Seen, EvidencePairs)

LEMMA KeysTyped ==
  ASSUME UTypeOK, NEW r \in Staged
  PROVE  KeysOf(r) \subseteq AllKeys /\ r \in Refs
  BY DEF UTypeOK, KeysOf, AllKeys

(* An edge is a pair of staged records. *)
LEMMA PairsArePairs ==
  ASSUME NEW S \in SUBSET Refs, NEW e \in Pairs(S)
  PROVE  /\ e \subseteq S
         /\ \E a, b \in S : a # b /\ e = {a, b}
<1>1. e \subseteq S /\ Cardinality(e) = 2
  BY DEF Pairs
<1>2. IsFiniteSet(e)
  BY <1>1, FS_Subset, RefsAssumption
<1>3. PICK a \in e : TRUE
  BY <1>1, <1>2, FS_EmptySet
<1>4. IsFiniteSet(e \ {a}) /\ Cardinality(e \ {a}) = 1
  BY <1>1, <1>2, <1>3, FS_RemoveElement
<1>5. PICK b : e \ {a} = {b}
  BY <1>4, FS_Singleton
<1>6. a # b /\ e = {a, b} /\ a \in S /\ b \in S
  BY <1>1, <1>3, <1>5
<1>7. QED  BY <1>1, <1>6

(* A record of its own is a component, as long as nothing is known of it. *)
LEMMA RegisteredComponents ==
  ASSUME NEW L \in SUBSET Refs, NEW c, NEW E \in SUBSET (L \X L), Components(c, L, E),
         NEW r \in Refs \ L
  PROVE  Components(P!Registered(c, r), L \cup {r}, E)
<1> DEFINE d == P!Registered(c, r)
           M == L \cup {r}
<1>1. c \in [Refs -> Refs \cup {0}] /\ c[r] = 0
  BY DEF Components, Numbered
<1>2. d = [c EXCEPT ![r] = r]
  BY <1>1 DEF P!Registered
<1>3. /\ d \in [Refs -> Refs \cup {0}] /\ d[r] = r
      /\ \A x \in Refs : x # r => d[x] = c[x]
  BY <1>1, <1>2
<1> HIDE DEF d
<1>4. r # 0 /\ \A x \in L : x \in Refs /\ x # r /\ c[x] \in L /\ c[x] # r /\ c[x] # 0
  BY Positive DEF Components, Numbered
<1>5. Numbered(d, M)
  <2>1. \A x \in Refs : d[x] # 0 <=> x \in M
    BY <1>3, <1>4 DEF Components, Numbered
  <2>2. ASSUME NEW x \in M  PROVE  d[x] \in M /\ d[d[x]] = d[x] /\ d[x] <= x
    <3>1. CASE x = r
      BY <1>3, <3>1, Positive
    <3>2. CASE x \in L
      BY <1>3, <1>4, <3>2 DEF Components, Numbered
    <3>3. QED  BY <3>1, <3>2
  <2>3. QED  BY <1>3, <2>1, <2>2 DEF Numbered
<1>6. \A x, y \in M : <<x, y>> \in E => d[x] = d[y]
  BY <1>3, <1>4 DEF Components
<1>7. ASSUME NEW A \in SUBSET M, Cut(A, M, E), NEW x \in A, NEW y \in M \ A
      PROVE  d[x] # d[y]
  <2> DEFINE B == A \cap L
  <2>1. B \in SUBSET L /\ Cut(B, L, E)
    BY <1>7 DEF Cut
  <2>2. \A u \in B, v \in L \ B : c[u] # c[v]
    BY <2>1 DEF Components
  <2>3. CASE x = r
    BY <1>3, <1>4, <2>3
  <2>4. CASE y = r
    BY <1>3, <1>4, <2>4
  <2>5. CASE x \in L /\ y \in L
    BY <1>3, <1>4, <1>7, <2>2, <2>5
  <2>6. QED  BY <2>3, <2>4, <2>5
<1>8. QED  BY <1>5, <1>6, <1>7 DEF Components, d

-----------------------------------------------------------------------------
(* The steps. *)

LEMMA InitClusters == UInit => ClusterInv
<1> SUFFICES ASSUME UInit  PROVE  ClusterInv
  OBVIOUS
<1>1. PICK S \in SUBSET Refs : records \in [S -> Profiles] /\ left = S
  BY DEF UInit
<1>2. Staged = S /\ Seen = {} /\ EvidencePairs = {}
  BY <1>1 DEF Staged, Seen, EvidencePairs, KeyPairs, EdgePairs
<1>3. UTypeOK
  BY <1>1, <1>2 DEF UInit, UTypeOK
<1>4. Anchored /\ ScoreInv /\ PassInv
  BY <1>2 DEF UInit, Anchored, ScoreInv, PassInv
<1>5. Components(uf, Seen, EvidencePairs)
  BY <1>2 DEF UInit, Components, Numbered
<1>6. QED  BY <1>3, <1>4, <1>5 DEF ClusterInv

LEMMA LinkRecordStep ==
  ASSUME ClusterInv, NEW r \in Refs, LinkRecord(r)
  PROVE  ClusterInv'
<1> DEFINE L == Seen
           M == Seen \cup {r}
           c == P!Registered(uf, r)
           S == {r} \cup {first'[k] : k \in KeysOf(r)}
           E == KeyPairs(L)
           F == KeyPairs(M)
<1>1. /\ pc = "link" /\ r \in left /\ left' = left \ {r}
      /\ first' = Setdefault(r) /\ uf' = Linked(c, S)
      /\ UNCHANGED <<pc, records, det, mode, scored, kept, todo, score, tables>>
  BY DEF LinkRecord, edgeVars
<1>2. /\ r \in Staged /\ L \subseteq Refs /\ r \notin L /\ M \subseteq Refs
      /\ Staged' = Staged /\ Seen' = M /\ L \subseteq Staged /\ M \subseteq Staged
  BY <1>1 DEF ClusterInv, UTypeOK, Seen, Staged
<1>3. KeysOf(r) \subseteq AllKeys /\ \A x \in M : KeysOf(x)' = KeysOf(x) /\ KeysOf(x) \subseteq AllKeys
  BY <1>1, <1>2, KeysTyped DEF KeysOf, ClusterInv
<1>4. kept = {} /\ EvidencePairs = E /\ EvidencePairs' = F
  BY <1>1, <1>2, <1>3 DEF ClusterInv, PassInv, EvidencePairs, EdgePairs, KeyPairs
<1>5. \A k \in AllKeys :
        /\ first[k] # 0 => first'[k] = first[k] /\ first[k] \in L /\ k \in KeysOf(first[k])
        /\ first[k] = 0 => first'[k] = IF k \in KeysOf(r) THEN r ELSE 0
  BY <1>1 DEF Setdefault, ClusterInv, Anchored
<1>6. /\ S \subseteq M /\ S # {} /\ r \in S
      /\ \A k \in KeysOf(r) : first'[k] \in S /\ k \in KeysOf(first'[k])
  BY <1>3, <1>5
<1>7. E \subseteq L \X L /\ E \subseteq F /\ F \subseteq M \X M
  BY DEF KeyPairs
<1>8. Components(c, M, E) /\ (\A x \in L : c[x] = uf[x])
  <2>1. Components(uf, L, E)
    BY <1>4 DEF ClusterInv
  <2>2. Components(c, M, E)
    BY <2>1, <1>2, <1>7, RegisteredComponents
  <2>3. \A x \in L : c[x] = uf[x]
    BY <1>2, <2>1 DEF P!Registered, Components, Numbered
  <2>4. QED  BY <2>2, <2>3
<1> HIDE DEF c, S
<1>9. \A x \in M : \A k \in KeysOf(x) : k \in KeysOf(r) => Touches(c, S, x)
  <2> SUFFICES ASSUME NEW x \in M, NEW k \in KeysOf(x), k \in KeysOf(r)
               PROVE  Touches(c, S, x)
    OBVIOUS
  <2>1. CASE x = r
    BY <1>6, <2>1 DEF Touches
  <2>2. CASE x \in L
    <3>1. first[k] # 0 /\ uf[first[k]] = uf[x] /\ first[k] \in L
      BY <1>1, <1>3, <2>2 DEF ClusterInv, Anchored
    <3>2. first'[k] \in S /\ first'[k] = first[k]
      BY <1>3, <1>5, <1>6, <3>1
    <3>3. QED  BY <1>8, <2>2, <3>1, <3>2 DEF Touches
  <2>3. QED  BY <2>1, <2>2
<1>10. \A x, y \in M : <<x, y>> \in F /\ <<x, y>> \notin E => Touches(c, S, x) /\ Touches(c, S, y)
  <2> SUFFICES ASSUME NEW x \in M, NEW y \in M, <<x, y>> \in F, <<x, y>> \notin E
               PROVE  Touches(c, S, x) /\ Touches(c, S, y)
    OBVIOUS
  <2>1. PICK k \in KeysOf(x) : k \in KeysOf(y)
    BY DEF KeyPairs
  <2>2. x = r \/ y = r
    BY <2>1 DEF KeyPairs
  <2>3. QED  BY <1>9, <2>1, <2>2
<1>11. \A A \in SUBSET M : Cut(A, M, F) => S \subseteq A \/ S \cap A = {}
  <2> SUFFICES ASSUME NEW A \in SUBSET M, Cut(A, M, F)
               PROVE  S \subseteq A \/ S \cap A = {}
    OBVIOUS
  <2>1. \A z \in S : z = r \/ (<<r, z>> \in F /\ <<z, r>> \in F)
    BY <1>2, <1>6 DEF KeyPairs, S
  <2>2. CASE r \in A
    BY <1>6, <2>1, <2>2 DEF Cut
  <2>3. CASE r \notin A
    BY <1>2, <2>1, <2>3 DEF Cut
  <2>4. QED  BY <2>2, <2>3
<1>12. Components(uf', M, F)
  BY <1>1, <1>2, <1>6, <1>7, <1>8, <1>10, <1>11, LinkedComponents
<1>13. UTypeOK'
  <2>1. uf' \in [Refs -> Refs \cup {0}]
    BY <1>12 DEF Components, Numbered
  <2>2. first' \in [AllKeys -> Refs \cup {0}]
    BY <1>1 DEF Setdefault, ClusterInv, UTypeOK
  <2>3. QED  BY <1>1, <1>2, <2>1, <2>2 DEF ClusterInv, UTypeOK
<1>14. Anchored'
  <2>1. \A k \in AllKeys : first'[k] # 0 => first'[k] \in M /\ k \in KeysOf(first'[k])
    BY <1>2, <1>5
  <2>2. ASSUME NEW x \in M, NEW k \in KeysOf(x)
        PROVE  first'[k] # 0 /\ uf'[first'[k]] = uf'[x]
    <3>1. first'[k] # 0
      BY <1>1, <1>2, <1>3, <1>5, Positive, <2>2 DEF ClusterInv, Anchored
    <3>2. first'[k] \in M /\ k \in KeysOf(first'[k])
      BY <1>3, <2>1, <2>2, <3>1
    <3>3. <<first'[k], x>> \in F
      BY <2>2, <3>2 DEF KeyPairs
    <3>4. QED  BY <1>12, <2>2, <3>1, <3>2, <3>3 DEF Components
  <2>3. QED
    BY <1>2, <1>3, <2>1, <2>2 DEF Anchored
<1>15. PassInv' /\ ScoreInv'
  BY <1>1, <1>2 DEF ClusterInv, PassInv, ScoreInv, Pairs, Edges
<1>16. QED  BY <1>2, <1>4, <1>12, <1>13, <1>14, <1>15 DEF ClusterInv

(* What nothing but a link changes. *)
LEMMA SameEvidence ==
  ASSUME UNCHANGED <<records, left>>, (kept \ todo)' = kept \ todo
  PROVE  Staged' = Staged /\ Seen' = Seen /\ EvidencePairs' = EvidencePairs
  BY DEF Staged, Seen, EvidencePairs, KeyPairs, EdgePairs, KeysOf

LEMMA SameRules ==
  ASSUME UNCHANGED records, NEW c
  PROVE  ByRules(c)' <=> ByRules(c)
  BY DEF ByRules, Components, Numbered, Cut, KeyPairs, KeysOf, Staged

LEMMA PassDoneStep ==
  ASSUME ClusterInv, PassDone
  PROVE  ClusterInv'
<1>1. /\ pc = "link" /\ left = {} /\ pc' = "score" /\ det' = Classes(uf)
      /\ first' = [k \in AllKeys |-> 0]
      /\ UNCHANGED <<records, left, uf, mode, scored, kept, todo, score, tables>>
  BY DEF PassDone, edgeVars
<1>2. Staged' = Staged /\ Seen' = Seen /\ EvidencePairs' = EvidencePairs /\ Seen = Staged
  BY <1>1, SameEvidence DEF Seen
<1>3. UTypeOK'
  BY <1>1, <1>2 DEF ClusterInv, UTypeOK, Classes
<1>4. ByRules(uf)
  BY <1>1, <1>2 DEF ClusterInv, PassInv, ByRules, EvidencePairs, EdgePairs
<1>5. PassInv'
  <2>1. PICK c \in [Refs -> Refs \cup {0}] : c = uf
    BY DEF ClusterInv, UTypeOK
  <2>2. det' = Classes(c) /\ ByRules(c)'
    BY <1>1, <1>4, <2>1, SameRules
  <2>3. QED
    BY <1>1, <1>2, <2>2 DEF ClusterInv, PassInv, Pairs
<1>6. Anchored' /\ ScoreInv' /\ Components(uf, Seen, EvidencePairs)'
  BY <1>1, <1>2 DEF ClusterInv, Anchored, ScoreInv
<1>7. QED  BY <1>3, <1>5, <1>6 DEF ClusterInv

LEMMA DeterministicStep ==
  ASSUME ClusterInv, Deterministic
  PROVE  ClusterInv'
<1>1. /\ pc = "score" /\ mode' = "deterministic" /\ pc' = "label"
      /\ UNCHANGED <<records, uf, left, first, det, scored, kept, todo, score, tables>>
  BY DEF Deterministic, passVars
<1>2. Staged' = Staged /\ Seen' = Seen /\ EvidencePairs' = EvidencePairs
  BY <1>1, SameEvidence
<1>3. UTypeOK' /\ Anchored' /\ ScoreInv' /\ Components(uf, Seen, EvidencePairs)'
  BY <1>1, <1>2 DEF ClusterInv, UTypeOK, Anchored, ScoreInv
<1>4. PassInv'
  BY <1>1, <1>2, SameRules DEF ClusterInv, PassInv, Pairs
<1>5. QED  BY <1>3, <1>4 DEF ClusterInv

(* Whatever predictions are taken up and whatever edges of them are linked  *)
(* along, nothing is linked yet.                                            *)
LEMMA TakeUpEdges ==
  ASSUME ClusterInv, NEW t,
         pc = "score", left = {}, UNCHANGED <<records, uf, left, first, det, score>>,
         scored' \in Predictions(t), kept' \subseteq DOMAIN scored', todo' = kept',
         pc' = "combine", mode' \in {"full", "sweep"},
         mode' = "full" => kept' = Edges(scored', AutoMerge)
  PROVE  ClusterInv'
<1>1. kept \ todo = {} /\ (kept \ todo)' = {}
  BY DEF ClusterInv, PassInv
<1>2. Staged' = Staged /\ Seen' = Seen /\ EvidencePairs' = EvidencePairs
  BY <1>1, SameEvidence
<1>3. PICK D \in SUBSET Pairs(Staged) : scored' \in [D -> {s \in Scores : s >= t}]
  BY DEF Predictions
<1>4. /\ DOMAIN scored' \subseteq Pairs(Staged)
      /\ \A e \in DOMAIN scored' : e \in SUBSET Staged /\ scored'[e] \in Scores
  BY <1>3 DEF Pairs
<1>5. UTypeOK'
  BY <1>2, <1>4 DEF ClusterInv, UTypeOK
<1>6. PassInv'
  BY <1>2, <1>4, SameRules DEF ClusterInv, PassInv, Pairs
<1>7. ScoreInv'
  BY <1>1 DEF ClusterInv, ScoreInv, PassInv
<1>8. Anchored' /\ Components(uf, Seen, EvidencePairs)'
  BY <1>2 DEF ClusterInv, Anchored
<1>9. QED  BY <1>5, <1>6, <1>7, <1>8 DEF ClusterInv

LEMMA ScoreStep ==
  ASSUME ClusterInv, Score
  PROVE  ClusterInv'
<1>1. left = {}
  BY DEF ClusterInv, PassInv, Score
<1>2. QED  BY <1>1, TakeUpEdges DEF Score, passVars, Edges

LEMMA CombineStep ==
  ASSUME ClusterInv, NEW e \in todo, Combine(e)
  PROVE  ClusterInv'
<1> DEFINE L == Seen
           E == EvidencePairs
           F == EvidencePairs'
<1>1. /\ pc = "combine" /\ todo' = todo \ {e} /\ uf' = Linked(uf, e) /\ score' = Raised(e)
      /\ UNCHANGED <<pc, records, left, first, det, mode, scored, kept, tables>>
  BY DEF Combine, passVars
<1>2. /\ left = {} /\ L = Staged /\ L \subseteq Refs /\ e \in kept /\ e \in Pairs(Staged)
      /\ Staged' = Staged /\ Seen' = Seen
  BY <1>1 DEF ClusterInv, PassInv, UTypeOK, Seen, Staged
<1>3. PICK a \in L, b \in L : a # b /\ e = {a, b}
  BY <1>2, PairsArePairs
<1>4. e \in SUBSET L /\ e # {}
  BY <1>3
<1>5. (kept \ todo)' = (kept \ todo) \cup {e}
  BY <1>1, <1>2
<1>6. E \subseteq F /\ (\A x, y \in L : <<x, y>> \in F /\ <<x, y>> \notin E => {x, y} = e)
  BY <1>1, <1>2, <1>5 DEF EvidencePairs, KeyPairs, EdgePairs, KeysOf
<1>7. <<a, b>> \in F /\ <<b, a>> \in F
  <2>1. {a, b} = e /\ {b, a} = e /\ e \in (kept \ todo)'
    BY <1>3, <1>5
  <2>2. QED  BY <1>2, <1>3, <2>1 DEF EvidencePairs, EdgePairs
<1>8. \A x, y \in L : <<x, y>> \in F /\ <<x, y>> \notin E => Touches(uf, e, x) /\ Touches(uf, e, y)
  BY <1>6 DEF Touches
<1>9. \A A \in SUBSET L : Cut(A, L, F) => e \subseteq A \/ e \cap A = {}
  BY <1>3, <1>7 DEF Cut
<1> HIDE DEF E, F, L
<1>10. Components(uf', L, F)
  BY <1>1, <1>2, <1>4, <1>6, <1>8, <1>9, LinkedComponents DEF ClusterInv, L, E
<1>11. \A x \in e : x \in Refs
  BY <1>2, <1>4 DEF L
<1>12. /\ scored[e] \in Nat /\ scored[e] # 0 /\ scored[e] \in Scores
       /\ \A x \in Refs : score[x] \in Nat
  <2>1. scored[e] \in Scores /\ \A x \in Refs : score[x] \in Scores \cup {0}
    BY <1>2 DEF ClusterInv, UTypeOK
  <2>2. Scores \subseteq Nat /\ 0 \notin Scores /\ 0 \in Nat
    BY ScoresAssumption
  <2>3. QED  BY <2>1, <2>2
<1>13. /\ score' \in [Refs -> Scores \cup {0}]
       /\ \A x \in Refs : score'[x] = IF x \in e /\ score[x] < scored[e] THEN scored[e] ELSE score[x]
  BY <1>1, <1>12 DEF Raised, ClusterInv, UTypeOK
<1>14. UTypeOK'
  <2>1. uf' \in [Refs -> Refs \cup {0}]
    BY <1>10 DEF Components, Numbered
  <2>2. QED  BY <1>1, <1>2, <1>13, <2>1 DEF ClusterInv, UTypeOK
<1>15. ScoreInv'
  <2>1. ASSUME NEW x \in Refs, NEW d \in (kept \ todo)', x \in d
        PROVE  scored'[d] <= score'[x]
    <3>1. scored'[d] = scored[d] /\ d \in kept /\ scored[d] \in Nat
      BY <1>1, <2>1, ScoresAssumption DEF ClusterInv, UTypeOK
    <3>2. CASE d = e
      BY <1>12, <1>13, <2>1, <3>1, <3>2
    <3>3. CASE d \in kept \ todo
      BY <1>12, <1>13, <2>1, <3>1, <3>3 DEF ClusterInv, ScoreInv
    <3>4. QED  BY <1>5, <2>1, <3>2, <3>3
  <2>2. ASSUME NEW x \in Refs, score'[x] # 0
        PROVE  \E d \in (kept \ todo)' : x \in d /\ scored'[d] = score'[x]
    BY <1>1, <1>5, <1>13, <2>2 DEF ClusterInv, ScoreInv
  <2>3. QED  BY <2>1, <2>2 DEF ScoreInv
<1>16. PassInv' /\ Anchored'
  BY <1>1, <1>2, SameRules DEF ClusterInv, PassInv, Anchored, Pairs, Edges
<1>17. QED  BY <1>2, <1>10, <1>14, <1>15, <1>16 DEF ClusterInv, L, F

(* Nothing but pc changes, or what nothing here speaks of. *)
LEMMA ElsewhereStep ==
  ASSUME ClusterInv, UNCHANGED <<records, uf, passVars, edgeVars>>,
         \/ pc' = pc
         \/ /\ todo = {} /\ pc \notin {"link", "score"}
            /\ pc' \in {"label", "written", "review", "purity", "report", "rows", "evaluated"}
  PROVE  ClusterInv'
<1>1. UNCHANGED <<records, uf, left, first, det, mode, scored, kept, todo, score>>
  BY DEF passVars, edgeVars
<1>2. Staged' = Staged /\ Seen' = Seen /\ EvidencePairs' = EvidencePairs
  BY <1>1, SameEvidence
<1>3. UTypeOK'
  BY <1>1, <1>2 DEF ClusterInv, UTypeOK
<1>4. Anchored'
  BY <1>1, <1>2 DEF ClusterInv, Anchored, KeysOf
<1>5. ScoreInv' /\ Components(uf, Seen, EvidencePairs)'
  BY <1>1, <1>2 DEF ClusterInv, ScoreInv
<1>6. PassInv'
  BY <1>1, <1>2, SameRules DEF ClusterInv, PassInv, Pairs, Edges
<1>7. QED  BY <1>3, <1>4, <1>5, <1>6 DEF ClusterInv

LEMMA ClusterStep ==
  ASSUME ClusterInv, [UNext]_uvars
  PROVE  ClusterInv'
<1>1. CASE Combined
  BY <1>1, ElsewhereStep DEF Combined
<1>2. CASE Write
  BY <1>2, ElsewhereStep DEF Write, ClusterInv, PassInv
<1>3. CASE UNCHANGED uvars
  BY <1>3, ElsewhereStep DEF uvars
<1>4. QED
  BY <1>1, <1>2, <1>3, LinkRecordStep, PassDoneStep, DeterministicStep, ScoreStep, CombineStep
  DEF UNext

(* Whatever is staged, scored and in whatever order it is taken, the        *)
(* classes of the union-find are the components of the evidence so far, and *)
(* score_by_ref is the best accepted edge (deterministic_clusters, combine). *)
THEOREM UnificationInvariant == USpec => []ClusterInv
<1>1. UInit => ClusterInv
  BY InitClusters
<1>2. ClusterInv /\ [UNext]_uvars => ClusterInv'
  BY ClusterStep
<1>3. QED  BY <1>1, <1>2, PTL DEF USpec

(* What the clusters say, at every moment, is what the evidence says.       *)
LEMMA EvidenceIsPairs ==
  ASSUME UTypeOK, NEW x \in Seen, NEW y \in Seen
  PROVE  /\ Evidence(x, y) <=> <<x, y>> \in EvidencePairs
         /\ Evidence(x, y) <=> <<y, x>> \in EvidencePairs
<1>1. {x, y} = {y, x} /\ {x, y} \subseteq Staged \ left
  BY DEF Seen
<1>2. QED  BY <1>1 DEF Evidence, EvidencePairs, KeyPairs, EdgePairs

LEMMA ClustersFollow == ClusterInv => ClustersAreComponents
<1> SUFFICES ASSUME ClusterInv, NEW A \in SUBSET Seen
             PROVE  (\A x \in A, y \in Seen \ A : ~Evidence(x, y))
                      <=> (\A x \in A, y \in Seen \ A : uf[x] # uf[y])
  BY DEF ClustersAreComponents, Seen
<1>1. UTypeOK /\ Components(uf, Seen, EvidencePairs)
  BY DEF ClusterInv
<1>2. ASSUME \A x \in A, y \in Seen \ A : ~Evidence(x, y)
      PROVE  \A x \in A, y \in Seen \ A : uf[x] # uf[y]
  BY <1>1, <1>2, EvidenceIsPairs DEF Components, Cut
<1>3. ASSUME \A x \in A, y \in Seen \ A : uf[x] # uf[y]
      PROVE  \A x \in A, y \in Seen \ A : ~Evidence(x, y)
  BY <1>1, <1>3, EvidenceIsPairs DEF Components
<1>4. QED  BY <1>2, <1>3

(* Clusters are the connected components of the evidence: no link is lost   *)
(* because a key was anchored before its record was linked elsewhere, and   *)
(* none appears (deterministic_clusters, combine).                          *)
THEOREM ClustersCorrect == USpec => []ClustersAreComponents
  BY UnificationInvariant, ClustersFollow, PTL

-----------------------------------------------------------------------------
(* Clusters, labels and tables. *)

LEMMA MultiMeansAnother ==
  ASSUME NEW S \in SUBSET Refs, NEW r \in S
  PROVE  /\ IsFiniteSet(S)
         /\ Multi(S) <=> \E x \in S : x # r
<1>1. IsFiniteSet(S)
  BY FS_Subset, RefsAssumption
<1>2. IsFiniteSet(S \ {r}) /\ Cardinality(S \ {r}) = Cardinality(S) - 1
  BY <1>1, FS_RemoveElement
<1>3. Cardinality(S \ {r}) \in Nat /\ Cardinality(S) \in Nat
  BY <1>1, <1>2, FS_CardinalityType
<1>4. Cardinality(S \ {r}) = 0 <=> S \ {r} = {}
  BY <1>2, FS_EmptySet
<1>5. Multi(S) <=> S \ {r} # {}
  BY <1>2, <1>3, <1>4 DEF Multi
<1>6. QED  BY <1>1, <1>5

(* A record is alone in its component exactly when nothing links it. *)
Accompanied(c, L, r) == \E x \in L \ {r} : c[x] = c[r]
SpokenFor(E, L, r) == \E x \in L \ {r} : <<x, r>> \in E \/ <<r, x>> \in E

LEMMA LinkedByEvidence ==
  ASSUME NEW L \in SUBSET Refs, NEW c, NEW E, Components(c, L, E), NEW r \in L
  PROVE  Accompanied(c, L, r) <=> SpokenFor(E, L, r)
<1>1. ASSUME NEW x \in L \ {r}, <<x, r>> \in E \/ <<r, x>> \in E  PROVE  c[x] = c[r]
  BY <1>1 DEF Components
<1>2. ASSUME \A x \in L \ {r} : <<x, r>> \notin E /\ <<r, x>> \notin E
      PROVE  \A x \in L \ {r} : c[x] # c[r]
  <2>1. {r} \in SUBSET L /\ Cut({r}, L, E)
    BY <1>2 DEF Cut
  <2>2. QED  BY <2>1 DEF Components
<1>3. QED  BY <1>1, <1>2 DEF Accompanied, SpokenFor

LEMMA ClassNamed ==
  ASSUME NEW L \in SUBSET Refs, NEW c, Numbered(c, L), NEW m \in L, c[m] = m
  PROVE  /\ {x \in Refs : c[x] = m} \subseteq L
         /\ m \in {x \in Refs : c[x] = m}
         /\ FanId({x \in Refs : c[x] = m}) = m
<1> DEFINE S == {x \in Refs : c[x] = m}
<1>1. m \in Refs /\ m # 0
  BY Positive
<1>2. S \subseteq L /\ S \in SUBSET Refs /\ m \in S /\ \A x \in S : m <= x
  BY <1>1 DEF Numbered
<1> HIDE DEF S
<1>3. FanId(S) = m
  BY <1>2, FanIdIs
<1>4. QED  BY <1>2, <1>3 DEF S

LEMMA ClassesNamed ==
  ASSUME NEW L \in SUBSET Refs, NEW c, Numbered(c, L)
  PROVE  /\ Classes(c) = {{x \in Refs : c[x] = c[r]} : r \in L}
         /\ {FanId(S) : S \in Classes(c)} = {c[r] : r \in L}
<1>1. \A r \in L : c[r] \in L /\ c[c[r]] = c[r] /\ c[r] # 0 /\ r \in Refs
  BY DEF Numbered
<1> DEFINE names == {c[r] : r \in L}
           Class(m) == {x \in Refs : c[x] = m}
<1>2. {c[x] : x \in Refs} \ {0} = names
  BY <1>1 DEF Numbered
<1>3. Classes(c) = {Class(m) : m \in names}
  BY <1>2 DEF Classes
<1>4. \A m \in names : m \in L /\ c[m] = m
  BY <1>1
<1>5. ASSUME NEW m \in names  PROVE  FanId(Class(m)) = m
  BY <1>4, ClassNamed
<1>6. Classes(c) = {Class(c[r]) : r \in L}
  BY <1>3
<1> HIDE DEF names, Class
<1>7. {FanId(S) : S \in Classes(c)} = names
  <2>1. \A S \in Classes(c) : FanId(S) \in names
    BY <1>3, <1>5
  <2>2. \A m \in names : \E S \in Classes(c) : FanId(S) = m
    BY <1>3, <1>5
  <2>3. QED  BY <2>1, <2>2
<1>8. QED  BY <1>6, <1>7 DEF names, Class

(* A rule alone links a record: its cluster of the first pass has another.  *)
LEMMA RuledByKeys ==
  ASSUME ClusterInv, pc # "link", NEW r \in Staged
  PROVE  ByRule(r) <=> \E x \in Staged \ {r} : KeysOf(x) \cap KeysOf(r) # {}
<1>1. PICK c \in [Refs -> Refs \cup {0}] : det = Classes(c) /\ ByRules(c)
  BY DEF ClusterInv, PassInv
<1>2. Staged \in SUBSET Refs /\ r \in Refs
  BY DEF ClusterInv, UTypeOK
<1>3. Components(c, Staged, KeyPairs(Staged)) /\ Numbered(c, Staged)
  BY <1>1 DEF ByRules, Components
<1>4. det = {{x \in Refs : c[x] = c[s]} : s \in Staged}
  BY <1>1, <1>2, <1>3, ClassesNamed
<1> DEFINE S == {x \in Refs : c[x] = c[r]}
<1>5. S \in det /\ r \in S /\ S \in SUBSET Refs /\ \A T \in det : r \in T => T = S
  BY <1>2, <1>4
<1>6. ByRule(r) <=> Multi(S)
  BY <1>5 DEF ByRule
<1>7. Multi(S) <=> \E x \in S : x # r
  BY <1>5, MultiMeansAnother
<1>8. (\E x \in S : x # r) <=> Accompanied(c, Staged, r)
  BY <1>2, <1>3 DEF Numbered, Accompanied
<1>9. Accompanied(c, Staged, r) <=> SpokenFor(KeyPairs(Staged), Staged, r)
  BY <1>2, <1>3, LinkedByEvidence
<1>10. SpokenFor(KeyPairs(Staged), Staged, r)
         <=> \E x \in Staged \ {r} : KeysOf(x) \cap KeysOf(r) # {}
  BY DEF KeyPairs, SpokenFor
<1>11. QED  BY <1>6, <1>7, <1>8, <1>9, <1>10

(* In combine and after it: an accepted edge links what it joins, and a     *)
(* record that nothing speaks for is alone.                                 *)
LEMMA LinkedByRuleOrEdge ==
  ASSUME ClusterInv, pc # "link", todo = {}, NEW r \in Staged
  PROVE  Multi(Members(r)) <=>
           \/ \E x \in Staged \ {r} : KeysOf(x) \cap KeysOf(r) # {}
           \/ \E e \in kept : r \in e
<1>1. /\ Staged \in SUBSET Refs /\ Seen = Staged /\ r \in Refs
      /\ kept \subseteq Pairs(Staged) /\ kept \ todo = kept
  BY DEF ClusterInv, UTypeOK, PassInv, Seen
<1>2. Components(uf, Seen, EvidencePairs)
  BY DEF ClusterInv
<1>3. Members(r) \in SUBSET Refs /\ r \in Members(r)
  BY <1>1 DEF Members
<1>4. Multi(Members(r)) <=> \E x \in Members(r) : x # r
  BY <1>3, MultiMeansAnother
<1>5. (\E x \in Members(r) : x # r) <=> Accompanied(uf, Seen, r)
  BY <1>1 DEF Members, Accompanied
<1>6. Accompanied(uf, Seen, r) <=> SpokenFor(EvidencePairs, Seen, r)
  BY <1>1, <1>2, LinkedByEvidence
<1>7. \A x \in Seen \ {r} :
        (<<x, r>> \in EvidencePairs \/ <<r, x>> \in EvidencePairs)
          <=> KeysOf(x) \cap KeysOf(r) # {} \/ {x, r} \in kept
  <2>1. ASSUME NEW x \in Seen  PROVE  {x, r} = {r, x}
    OBVIOUS
  <2>2. QED  BY <1>1, <2>1 DEF EvidencePairs, KeyPairs, EdgePairs
<1>8. (\E x \in Seen \ {r} : {x, r} \in kept) <=> \E e \in kept : r \in e
  <2>1. ASSUME NEW e \in kept, r \in e  PROVE  \E x \in Seen \ {r} : {x, r} \in kept
    <3>1. PICK a \in Staged, b \in Staged : a # b /\ e = {a, b}
      BY <1>1, PairsArePairs
    <3>2. CASE r = a
      <4>1. e = {b, r}
        BY <3>1, <3>2
      <4>2. QED  BY <1>1, <3>1, <3>2, <4>1
    <3>3. CASE r = b
      BY <1>1, <3>1, <3>3
    <3>4. QED  BY <2>1, <3>1, <3>2, <3>3
  <2>2. QED  BY <2>1
<1>9. QED  BY <1>1, <1>4, <1>5, <1>6, <1>7, <1>8 DEF SpokenFor

(* What materialize writes. *)
Written ==
  pc = "written" =>
    /\ xref = [r \in Staged |-> XrefRow(r)]
    /\ golden = [f \in {FanId(S) : S \in Classes(uf)} |-> GoldenFan(Members(f))]
    /\ mode \in {"deterministic", "full"}

LabelInv == ClusterInv /\ Written /\ (pc = "label" => mode \in {"deterministic", "full"})

LEMMA WrittenStays ==
  ASSUME UNCHANGED <<pc, records, uf, passVars, edgeVars, tables>>
  PROVE  Written' <=> Written
<1>1. UNCHANGED <<pc, records, uf, det, mode, scored, score, xref, golden>>
  BY DEF passVars, edgeVars, tables
<1>2. Staged' = Staged /\ Classes(uf)' = Classes(uf)
  BY <1>1 DEF Staged, Classes
<1>3. \A r : /\ Members(r)' = Members(r) /\ XrefRow(r)' = XrefRow(r)
             /\ GoldenFan(Members(r))' = GoldenFan(Members(r))
  BY <1>1 DEF XrefRow, Method, ByRule, Members, Staged, GoldenFan, ModeLongest, LatestEmail,
              FirstDob, Holders
<1>4. QED  BY <1>1, <1>2, <1>3 DEF Written

LEMMA LabelElsewhere ==
  ASSUME LabelInv, ClusterInv',
         pc' \notin {"label", "written"} \/ UNCHANGED <<pc, records, uf, passVars, edgeVars, tables>>
  PROVE  LabelInv'
<1>1. CASE pc' \notin {"label", "written"}
  BY <1>1 DEF LabelInv, Written
<1>2. CASE UNCHANGED <<pc, records, uf, passVars, edgeVars, tables>>
  BY <1>2, WrittenStays DEF LabelInv, edgeVars
<1>3. QED  BY <1>1, <1>2

LEMMA LabelStep ==
  ASSUME LabelInv, [UNext]_uvars
  PROVE  LabelInv'
<1>1. ClusterInv'
  BY ClusterStep DEF LabelInv
<1>2. CASE Write
  <2>1. UNCHANGED <<records, uf, det, mode, scored, score>> /\ pc' = "written"
    BY <1>2 DEF Write, passVars, edgeVars
  <2>2. Staged' = Staged /\ Classes(uf)' = Classes(uf)
    BY <2>1 DEF Staged, Classes
  <2>3. \A r : /\ Members(r)' = Members(r) /\ XrefRow(r)' = XrefRow(r)
               /\ GoldenFan(Members(r))' = GoldenFan(Members(r))
    BY <2>1 DEF XrefRow, Method, ByRule, Members, Staged, GoldenFan, ModeLongest, LatestEmail,
                FirstDob, Holders
  <2>4. QED  BY <1>1, <1>2, <2>1, <2>2, <2>3 DEF Write, LabelInv, Written
<1>3. CASE UNCHANGED uvars
  BY <1>1, <1>3, LabelElsewhere DEF uvars
<1>4. CASE \/ \E r \in Refs : LinkRecord(r)
           \/ PassDone \/ Deterministic \/ Score
           \/ \E e \in todo : Combine(e)
           \/ Combined
  <2>1. pc' # "written" /\ (pc' = "label" => mode' \in {"deterministic", "full"})
    BY <1>4, Zenon DEF LinkRecord, PassDone, Deterministic, Score, Combine, Combined, edgeVars
  <2>2. QED  BY <1>1, <2>1 DEF LabelInv, Written
<1>5. QED  BY <1>2, <1>3, <1>4 DEF UNext

(* The tables on disk are those that the final clusters make, of a run      *)
(* whose mode writes (materialize, write_identity_tables).                  *)
THEOREM TablesWritten == USpec => []LabelInv
<1>1. UInit => LabelInv
  BY InitClusters DEF UInit, LabelInv, Written
<1>2. LabelInv /\ [UNext]_uvars => LabelInv'
  BY LabelStep
<1>3. QED  BY <1>1, <1>2, PTL DEF USpec

LEMMA AllSeen ==
  ASSUME ClusterInv, pc # "link"
  PROVE  Staged \in SUBSET Refs /\ Seen = Staged /\ Numbered(uf, Staged)
<1>1. Staged \in SUBSET Refs /\ left = {}
  BY DEF ClusterInv, UTypeOK, PassInv
<1>2. Seen = Staged
  BY <1>1 DEF Seen
<1>3. Numbered(uf, Seen)
  BY DEF ClusterInv, Components
<1>4. QED  BY <1>1, <1>2, <1>3

(* A fan is named by its least record. *)
LEMMA FanOfRecord ==
  ASSUME ClusterInv, pc # "link", NEW r \in Staged
  PROVE  /\ uf[r] \in Staged /\ uf[uf[r]] = uf[r] /\ uf[r] # 0 /\ uf[r] <= r
         /\ FanId(Members(r)) = uf[r]
<1>1. Staged \in SUBSET Refs /\ Numbered(uf, Staged)
  BY AllSeen
<1>2. uf[r] \in Staged /\ uf[uf[r]] = uf[r] /\ uf[r] # 0 /\ uf[r] <= r /\ uf[r] \in Refs
  BY <1>1 DEF Numbered
<1>3. Members(r) = {x \in Refs : uf[x] = uf[r]}
  BY <1>1, <1>2 DEF Members, Numbered
<1>4. FanId({x \in Refs : uf[x] = uf[r]}) = uf[r]
  BY <1>1, <1>2, ClassNamed
<1>5. QED  BY <1>2, <1>3, <1>4

LEMMA TablesHold == LabelInv => TablesAgree
<1> SUFFICES ASSUME LabelInv, pc = "written"
             PROVE  /\ DOMAIN xref = Staged
                    /\ {xref[r].fan : r \in Staged} = DOMAIN golden
                    /\ \A f \in DOMAIN golden :
                         /\ xref[f].fan = f
                         /\ \A r \in Staged : xref[r].fan = f => f <= r
                         /\ golden[f].record_count
                              = Cardinality({r \in Staged : xref[r].fan = f})
  BY DEF TablesAgree
<1>1. /\ ClusterInv /\ Staged \in SUBSET Refs /\ Numbered(uf, Staged)
      /\ xref = [r \in Staged |-> XrefRow(r)]
      /\ golden = [f \in {FanId(S) : S \in Classes(uf)} |-> GoldenFan(Members(f))]
  BY AllSeen DEF LabelInv, Written
<1>2. \A r \in Staged : xref[r].fan = uf[r] /\ uf[r] \in Staged /\ uf[uf[r]] = uf[r] /\ uf[r] <= r
  BY <1>1, FanOfRecord DEF XrefRow
<1>3. {FanId(S) : S \in Classes(uf)} = {uf[r] : r \in Staged}
  BY <1>1, ClassesNamed
<1>4. DOMAIN golden = {uf[r] : r \in Staged}
  BY <1>1, <1>3
<1>5. {xref[r].fan : r \in Staged} = {uf[r] : r \in Staged}
  BY <1>2
<1>6. ASSUME NEW f \in DOMAIN golden
      PROVE  /\ xref[f].fan = f
             /\ \A r \in Staged : xref[r].fan = f => f <= r
             /\ golden[f].record_count = Cardinality({r \in Staged : xref[r].fan = f})
  <2>1. f \in Staged /\ uf[f] = f
    BY <1>2, <1>4
  <2>2. golden[f] = GoldenFan(Members(f))
    BY <1>1
  <2>3. Members(f) = {r \in Staged : xref[r].fan = f}
    BY <1>2, <2>1 DEF Members
  <2>4. QED  BY <1>2, <2>1, <2>2, <2>3 DEF GoldenFan
<1>7. QED  BY <1>1, <1>4, <1>5, <1>6

(* The cross-reference and the golden table agree on the fans, their names  *)
(* and their sizes (materialize, write_identity_tables).                    *)
THEOREM TablesCorrect == USpec => []TablesAgree
  BY TablesWritten, TablesHold, PTL

LEMMA LabelsHold == LabelInv => LabelsAreHonest
<1> SUFFICES ASSUME LabelInv, pc = "written", NEW r \in Staged
    PROVE  LET mine == {e \in DOMAIN scored : r \in e /\ scored[e] >= AutoMerge}
               ruled == \E x \in Staged \ {r} : KeysOf(x) \cap KeysOf(r) # {}
               alone == \A x \in Staged \ {r} : xref[x].fan # xref[r].fan
           IN /\ xref[r].method = "deterministic" <=> ruled
              /\ xref[r].method = "probabilistic" <=> mode = "full" /\ ~ruled /\ mine # {}
              /\ xref[r].method = "singleton" <=> alone
              /\ xref[r].score # 0 =>
                   /\ \A e \in mine : scored[e] <= xref[r].score
                   /\ \E e \in mine : scored[e] = xref[r].score
              /\ xref[r].method = "probabilistic" => xref[r].score # 0
  BY DEF LabelsAreHonest
<1> DEFINE mine == {e \in DOMAIN scored : r \in e /\ scored[e] >= AutoMerge}
           ruled == \E x \in Staged \ {r} : KeysOf(x) \cap KeysOf(r) # {}
           alone == \A x \in Staged \ {r} : xref[x].fan # xref[r].fan
           edged == \E e \in kept : r \in e
<1>1. /\ ClusterInv /\ Staged \in SUBSET Refs /\ r \in Refs /\ todo = {}
      /\ mode \in {"deterministic", "full"}
      /\ mode = "full" => kept = Edges(scored, AutoMerge)
      /\ mode = "deterministic" => kept = {}
      /\ xref = [s \in Staged |-> XrefRow(s)]
  BY DEF LabelInv, Written, ClusterInv, UTypeOK, PassInv
<1>2. mode = "full" => mine = {e \in kept : r \in e}
  BY <1>1 DEF Edges
<1>3. ByRule(r) <=> ruled
  BY <1>1, RuledByKeys
<1>4. Multi(Members(r)) <=> ruled \/ edged
  BY <1>1, LinkedByRuleOrEdge
<1>5. score[r] \in Nat /\ \A e \in kept : scored[e] \in Nat /\ scored[e] # 0
  <2>1. score[r] \in Scores \cup {0} /\ \A e \in kept : scored[e] \in Scores
    BY <1>1 DEF ClusterInv, UTypeOK
  <2>2. Scores \subseteq Nat /\ 0 \notin Scores /\ 0 \in Nat
    BY ScoresAssumption
  <2>3. QED  BY <2>1, <2>2
<1>6. /\ \A e \in kept : r \in e => scored[e] <= score[r]
      /\ score[r] # 0 => \E e \in kept : r \in e /\ scored[e] = score[r]
  BY <1>1 DEF ClusterInv, ScoreInv
<1>7. score[r] > 0 <=> edged
  BY <1>5, <1>6
<1>8. Multi(Members(r)) <=> ~alone
  <2>1. r \in Members(r) /\ Members(r) \in SUBSET Refs
    BY <1>1 DEF Members
  <2>2. \A x \in Staged : xref[x].fan = uf[x]
    BY <1>1, FanOfRecord DEF XrefRow
  <2>3. (\E x \in Members(r) : x # r) <=> ~alone
    BY <2>2 DEF Members
  <2>4. QED  BY <2>1, <2>3, MultiMeansAnother
<1>9. /\ xref[r].method = Method(r)
      /\ xref[r].score = IF Method(r) = "probabilistic" THEN score[r] ELSE 0
  BY <1>1 DEF XrefRow
<1> HIDE DEF mine, ruled, alone, edged
<1>10. CASE mode = "deterministic"
  <2>1. ~edged
    BY <1>1, <1>10 DEF edged
  <2>2. Method(r) = IF ruled THEN "deterministic" ELSE "singleton"
    BY <1>4, <1>10, <2>1 DEF Method
  <2>3. QED  BY <1>4, <1>8, <1>9, <1>10, <2>1, <2>2 DEF mine, ruled, alone
<1>11. CASE mode = "full"
  <2>1. Method(r) = IF ruled THEN "deterministic" ELSE IF edged THEN "probabilistic" ELSE "singleton"
    <3>1. CASE ruled
      BY <1>3, <1>11, <3>1 DEF Method
    <3>2. CASE ~ruled /\ edged
      BY <1>3, <1>4, <1>7, <1>11, <3>2 DEF Method
    <3>3. CASE ~ruled /\ ~edged
      BY <1>3, <1>4, <1>11, <3>3 DEF Method
    <3>4. QED  BY <3>1, <3>2, <3>3
  <2>2. edged <=> mine # {}
    BY <1>2, <1>11 DEF edged
  <2>3. edged => /\ \A e \in mine : scored[e] <= score[r]
                 /\ \E e \in mine : scored[e] = score[r]
    BY <1>2, <1>5, <1>6, <1>7, <1>11
  <2>4. QED
    BY <1>4, <1>5, <1>7, <1>8, <1>9, <1>11, <2>1, <2>2, <2>3 DEF mine, ruled, alone
<1>12. QED  BY <1>1, <1>10, <1>11 DEF mine, ruled, alone

(* A method label says how the record got into its fan (combine's           *)
(* docstring, materialize).                                                 *)
THEOREM LabelsCorrect == USpec => []LabelsAreHonest
  BY TablesWritten, LabelsHold, PTL

-----------------------------------------------------------------------------
(* Golden records. *)

LEMMA ProfilesTyped ==
  ASSUME UTypeOK, NEW S \in SUBSET Staged
  PROVE  /\ S \in SUBSET Refs /\ IsFiniteSet(S)
         /\ \A r \in S : /\ records[r].observed \in Nat
                         /\ records[r].last.fold \in Nat /\ records[r].last.text \in Nat
<1>1. S \in SUBSET Refs
  BY DEF UTypeOK
<1>2. \A r \in S : records[r] \in Profile
  BY ProfilesAssumption DEF UTypeOK
<1>3. IsFiniteSet(S)
  BY <1>1, FS_Subset, RefsAssumption
<1>4. QED  BY <1>1, <1>2, <1>3 DEF Profile

LEMMA LatestEmailIsLatest ==
  ASSUME UTypeOK, NEW S \in SUBSET Staged, \E r \in S : records[r].email # 0
  PROVE  \E r \in S :
           /\ LatestEmail(S) = records[r].email /\ records[r].email # 0
           /\ \A x \in S : records[x].email # 0 => records[x].observed <= records[r].observed
<1> DEFINE have == {r \in S : records[r].email # 0}
           newest == {r \in have : \A x \in have : records[x].observed <= records[r].observed}
           f == [x \in have |-> records[x].observed]
<1>1. have \in SUBSET Staged /\ have # {}
  OBVIOUS
<1>2. have \in SUBSET Refs /\ IsFiniteSet(have) /\ \A x \in have : f[x] \in Nat
  BY <1>1, ProfilesTyped
<1>3. \E r \in have : \A x \in have : f[x] <= f[r]
  <2> HIDE DEF have, f
  <2>1. QED  BY <1>1, <1>2, GreatestExists
<1>4. newest # {} /\ newest \in SUBSET Refs
  BY <1>2, <1>3
<1>5. FanId(newest) \in newest
  <2> HIDE DEF newest
  <2>1. QED  BY <1>4, FanIdIsLeast
<1>6. LatestEmail(S) = records[FanId(newest)].email
  BY <1>1 DEF LatestEmail
<1>7. QED  BY <1>5, <1>6

LEMMA FirstDobIsThere ==
  ASSUME UTypeOK, NEW S \in SUBSET Staged, \E r \in S : records[r].dob # 0
  PROVE  FirstDob(S) # 0
<1> DEFINE have == {r \in S : records[r].dob # 0}
<1>1. have # {} /\ have \in SUBSET Refs
  BY ProfilesTyped
<1>2. FanId(have) \in have
  <2> HIDE DEF have
  <2>1. QED  BY <1>1, FanIdIsLeast
<1>3. FirstDob(S) = records[FanId(have)].dob
  BY <1>1 DEF FirstDob
<1>4. QED  BY <1>2, <1>3

(* How many members have the folded form of r's last name. *)
Count(S, r) == Cardinality(Holders(S, records[r].last.fold))

LEMMA CountTyped ==
  ASSUME UTypeOK, NEW S \in SUBSET Staged, NEW g
  PROVE  /\ Cardinality(Holders(S, g)) \in Nat
         /\ Cardinality(Holders(S, g)) = 0 <=> Holders(S, g) = {}
<1>1. IsFiniteSet(S) /\ Holders(S, g) \in SUBSET S
  BY ProfilesTyped DEF Holders
<1>2. IsFiniteSet(Holders(S, g))
  BY <1>1, FS_Subset
<1>3. QED  BY <1>2, FS_CardinalityType, FS_EmptySet

Wins(S, r, x) ==
  \/ Count(S, r) > Count(S, x)
  \/ Count(S, r) = Count(S, x) /\ records[r].last.fold > records[x].last.fold
  \/ /\ records[r].last.fold = records[x].last.fold
     /\ records[r].last.text >= records[x].last.text

LEMMA SomeNameWins ==
  ASSUME UTypeOK, NEW S \in SUBSET Staged, NEW named \in SUBSET S, named # {}
  PROVE  \E r \in named : \A x \in named : Wins(S, r, x)
<1> DEFINE cnt == [x \in named |-> Count(S, x)]
           fold == [x \in named |-> records[x].last.fold]
           text == [x \in named |-> records[x].last.text]
<1>1. IsFiniteSet(named) /\ \A x \in named : fold[x] \in Nat /\ text[x] \in Nat
  BY ProfilesTyped
<1>2. \A x \in named : cnt[x] \in Nat
  BY CountTyped DEF Count
<1>3. PICK a \in named : \A x \in named : cnt[x] <= cnt[a]
  <2> HIDE DEF cnt
  <2>1. QED  BY <1>1, <1>2, GreatestExists
<1> DEFINE A == {x \in named : cnt[x] = cnt[a]}
<1>4. A \in SUBSET named /\ A # {} /\ IsFiniteSet(A) /\ \A x \in A : fold[x] \in Nat
  <2>1. A \in SUBSET named /\ A # {}
    BY <1>3
  <2>2. IsFiniteSet(A)
    BY <1>1, <2>1, FS_Subset
  <2>3. QED  BY <1>1, <2>1, <2>2
<1>5. PICK b \in A : \A x \in A : fold[x] <= fold[b]
  <2> HIDE DEF A, fold
  <2>1. QED  BY <1>4, GreatestExists
<1> DEFINE B == {x \in A : fold[x] = fold[b]}
<1>6. B \in SUBSET A /\ B # {} /\ IsFiniteSet(B) /\ \A x \in B : text[x] \in Nat
  <2>1. B \in SUBSET A /\ B # {}
    BY <1>5
  <2>2. IsFiniteSet(B)
    BY <1>4, <2>1, FS_Subset
  <2>3. QED  BY <1>1, <1>4, <2>1, <2>2
<1>7. PICK r \in B : \A x \in B : text[x] <= text[r]
  <2> HIDE DEF B, text
  <2>1. QED  BY <1>6, GreatestExists
<1>8. r \in named /\ cnt[r] = cnt[a] /\ fold[r] = fold[b]
  BY <1>6, <1>7
<1>9. ASSUME NEW x \in named
      PROVE  \/ cnt[r] > cnt[x]
             \/ cnt[r] = cnt[x] /\ fold[r] > fold[x]
             \/ fold[r] = fold[x] /\ text[r] >= text[x]
  <2> HIDE DEF cnt, fold, text
  <2>1. CASE x \notin A
    BY <1>2, <1>3, <1>8, <2>1
  <2>2. CASE x \in A /\ x \notin B
    BY <1>1, <1>4, <1>5, <1>8, <2>2
  <2>3. CASE x \in B
    BY <1>1, <1>6, <1>7, <1>8, <2>3
  <2>4. QED  BY <2>1, <2>2, <2>3
<1>10. QED  BY <1>8, <1>9 DEF Wins

LEMMA ModeLongestWins ==
  ASSUME UTypeOK, NEW S \in SUBSET Staged, \E r \in S : records[r].last # NoName
  PROVE  \E r \in S :
           /\ ModeLongest(S) = records[r].last /\ records[r].last # NoName
           /\ \A x \in S : Count(S, x) <= Count(S, r)
<1> DEFINE named == {r \in S : records[r].last # NoName}
           r == CHOOSE r \in named : \A x \in named : Wins(S, r, x)
<1>1. named # {} /\ named \in SUBSET S
  OBVIOUS
<1>2. r \in named /\ \A x \in named : Wins(S, r, x)
  <2>1. \E s \in named : \A x \in named : Wins(S, s, x)
    <3> HIDE DEF named
    <3>1. QED  BY <1>1, SomeNameWins
  <2>2. QED  BY <2>1, Zenon
<1>3. ModeLongest(S) = records[r].last
  BY <1>1, Zenon DEF ModeLongest, Wins, Count
<1> HIDE DEF r
<1>4. \A x \in S : Count(S, x) \in Nat
  BY CountTyped DEF Count
<1>5. \A x \in named : Count(S, x) <= Count(S, r)
  BY <1>2, <1>4 DEF Wins, Count
<1>6. ASSUME NEW x \in S, x \notin named  PROVE  Count(S, x) <= Count(S, r)
  <2>1. CASE Holders(S, records[x].last.fold) = {}
    BY <1>2, <1>4, <2>1, CountTyped DEF Count
  <2>2. ASSUME NEW y \in Holders(S, records[x].last.fold)
        PROVE  Count(S, x) <= Count(S, r)
    <3>1. y \in named /\ records[y].last.fold = records[x].last.fold
      BY <2>2 DEF Holders
    <3>2. Count(S, y) = Count(S, x)
      BY <3>1 DEF Count
    <3>3. QED  BY <1>5, <3>1, <3>2
  <2>3. QED  BY <2>1, <2>2
<1>7. QED  BY <1>2, <1>3, <1>5, <1>6

LEMMA GoldenHolds == LabelInv => GoldenSurvives
<1> SUFFICES ASSUME LabelInv, pc = "written", NEW f \in DOMAIN golden
    PROVE  LET S == {r \in Staged : xref[r].fan = f}
               mailed == {r \in S : records[r].email # 0}
           IN /\ mailed # {} =>
                   \E r \in mailed :
                     /\ golden[f].email = records[r].email
                     /\ \A x \in mailed : records[x].observed <= records[r].observed
              /\ (\E r \in S : records[r].last # NoName) =>
                   \E r \in S :
                     /\ golden[f].last = records[r].last /\ records[r].last # NoName
                     /\ \A x \in S : Cardinality(Holders(S, records[x].last.fold))
                                       <= Cardinality(Holders(S, records[r].last.fold))
              /\ (\E r \in S : records[r].dob # 0) => golden[f].dob # 0
  BY DEF GoldenSurvives
<1> DEFINE S == {r \in Staged : xref[r].fan = f}
<1>1. UTypeOK /\ S \in SUBSET Staged
  BY DEF LabelInv, ClusterInv
<1>2. golden[f] = GoldenFan(S)
  <2>1. ClusterInv /\ Staged \in SUBSET Refs /\ Numbered(uf, Staged)
    BY AllSeen DEF LabelInv
  <2>2. xref = [r \in Staged |-> XrefRow(r)] /\ golden[f] = GoldenFan(Members(f))
        /\ f \in {FanId(T) : T \in Classes(uf)}
    BY DEF LabelInv, Written
  <2>3. f \in {uf[r] : r \in Staged}
    BY <2>1, <2>2, ClassesNamed
  <2>4. \A r \in Staged : xref[r].fan = uf[r] /\ uf[uf[r]] = uf[r]
    BY <2>1, <2>2, FanOfRecord DEF XrefRow
  <2>5. Members(f) = S
    BY <2>3, <2>4 DEF Members
  <2>6. QED  BY <2>2, <2>5
<1> HIDE DEF S
<1>3. (\E r \in S : records[r].email # 0) => \E r \in S :
        /\ golden[f].email = records[r].email /\ records[r].email # 0
        /\ \A x \in S : records[x].email # 0 => records[x].observed <= records[r].observed
  BY <1>1, <1>2, LatestEmailIsLatest DEF GoldenFan
<1>4. (\E r \in S : records[r].last # NoName) => \E r \in S :
        /\ golden[f].last = records[r].last /\ records[r].last # NoName
        /\ \A x \in S : Count(S, x) <= Count(S, r)
  BY <1>1, <1>2, ModeLongestWins DEF GoldenFan
<1>5. (\E r \in S : records[r].dob # 0) => golden[f].dob # 0
  BY <1>1, <1>2, FirstDobIsThere DEF GoldenFan
<1>6. QED  BY <1>3, <1>4, <1>5 DEF S, Count

(* A golden record shows what a record of the fan said (build_golden).      *)
THEOREM GoldenCorrect == USpec => []GoldenSurvives
  BY TablesWritten, GoldenHolds, PTL
=============================================================================
