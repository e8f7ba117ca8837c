-------------------------- MODULE WarehouseProofs --------------------------
(***************************************************************************)
(* Whatever jobs interleave, fail or are killed: a quality run tells the   *)
(* truth, the analyst can read a finished mart and dim_fan keeps the       *)
(* history History promises; and, as long as the email fact is dropped     *)
(* with it, that fact keeps its fans and an undisturbed nightly run        *)
(* delivers the mart raw asks for.                                         *)
(***************************************************************************)
EXTENDS Warehouse, FiniteSetTheorems, SequenceTheorems, TLAPS

-----------------------------------------------------------------------------
(* Plans: which step may follow which. *)

Steps ==
  {Step("model", n) : n \in {"stg", "ident", "index", "close", "open", "commit", "tickets",
                             "email", "mart"}}
    \cup {Step("start", f) : f \in Flows} \cup {Step("finish", f) : f \in Flows}
    \cup {Step("unify", m) : m \in Modes} \cup {Step("check", Checks[k]) : k \in 1 .. 4}
    \cup {Step("grant", ""), Step("enforce", "")}

Indexing == Step("model", "index")
Closing == Step("model", "close")
Opening == Step("model", "open")
Committing == Step("model", "commit")
TransformEnds == Step("finish", "transform-warehouse")
GatesStart == Step("start", "quality-gates")
GatesEnd == Step("finish", "quality-gates")

InGates(s) == s.kind = "check" \/ s = GatesEnd

Adjacent(s, t) ==
  /\ s = Indexing <=> t = Closing
  /\ s = Closing <=> t = Opening
  /\ s = Opening <=> t = Committing
  /\ t = TransformEnds => s.kind = "grant"
  /\ s = TransformEnds => t = GatesStart
  /\ s = GatesStart \/ s.kind = "check" <=> InGates(t)
  /\ s = GatesEnd <=> t.kind = "enforce"
  /\ s.kind # "enforce"

Begins(s) == s.kind \in {"start", "unify"}
Ends(s) == s.kind \in {"finish", "unify", "enforce"} /\ s # GatesEnd

Chained(p) == \A k \in 1 .. Len(p) - 1 : Adjacent(p[k], p[k + 1])

(* What is left of a command is a chain of steps that ends as it did. *)
PlanOK(p) == p \in Seq(Steps) /\ Chained(p) /\ (p # <<>> => Ends(p[Len(p)]))

(* A part of a command, with its first and its last step. *)
Part(p, s, t) ==
  p \in Seq(Steps) /\ p # <<>> /\ Chained(p) /\ p[1] = s /\ p[Len(p)] = t

LEMMA PartsJoin ==
  ASSUME NEW p, NEW q, NEW s, NEW t, NEW u, NEW v,
         Part(p, s, t), Part(q, u, v), Adjacent(t, u)
  PROVE  Part(p \o q, s, v)
<1>1. p \in Seq(Steps) /\ q \in Seq(Steps) /\ Len(p) \in Nat \ {0} /\ Len(q) \in Nat \ {0}
  BY EmptySeq DEF Part
<1> DEFINE r == p \o q
<1>2. /\ r \in Seq(Steps) /\ Len(r) = Len(p) + Len(q)
      /\ \A k \in 1 .. Len(p) + Len(q) : r[k] = IF k <= Len(p) THEN p[k] ELSE q[k - Len(p)]
  BY <1>1, ConcatProperties
<1> HIDE DEF r
<1>3. \A k \in 1 .. Len(r) - 1 : Adjacent(r[k], r[k + 1])
  <2> SUFFICES ASSUME NEW k \in 1 .. Len(r) - 1  PROVE  Adjacent(r[k], r[k + 1])
    OBVIOUS
  <2>1. CASE k < Len(p)
    <3>1. r[k] = p[k] /\ r[k + 1] = p[k + 1] /\ k \in 1 .. Len(p) - 1
      BY <1>1, <1>2, <2>1
    <3>2. QED  BY <3>1 DEF Part, Chained
  <2>2. CASE k = Len(p)
    <3>1. r[k] = t /\ r[k + 1] = u
      BY <1>1, <1>2, <2>2 DEF Part
    <3>2. QED  BY <3>1
  <2>3. CASE k > Len(p)
    <3>1. /\ r[k] = q[k - Len(p)] /\ r[k + 1] = q[(k - Len(p)) + 1]
          /\ k - Len(p) \in 1 .. Len(q) - 1
      BY <1>1, <1>2, <2>3
    <3>2. QED  BY <3>1 DEF Part, Chained
  <2>4. QED  BY <1>1, <1>2, <2>1, <2>2, <2>3
<1>4. r # <<>> /\ r[1] = s /\ r[Len(r)] = v
  BY <1>1, <1>2 DEF Part
<1>5. QED  BY <1>2, <1>3, <1>4 DEF Part, Chained, r

(* Steps that may stand beside any other such step. *)
Enters(s) ==
  s \notin {Closing, Opening, Committing, TransformEnds, GatesEnd} /\ s.kind \notin {"check", "enforce"}
Leaves(s) ==
  s \notin {Indexing, Closing, Opening, TransformEnds, GatesStart, GatesEnd} /\ s.kind \notin {"check", "enforce"}

LEMMA FreelyAdjacent == \A s, t : Leaves(s) /\ Enters(t) => Adjacent(s, t)
  BY DEF Leaves, Enters, Adjacent, InGates, Opening, Committing, Indexing, Closing, TransformEnds,
         GatesStart, GatesEnd, Step

LEMMA OneStep ==
  ASSUME NEW s \in Steps
  PROVE  Part(<<s>>, s, s)
  BY DEF Part, Chained

LEMMA FewSteps ==
  ASSUME NEW s \in Steps, NEW t \in Steps, NEW u \in Steps, NEW v \in Steps
  PROVE  /\ Adjacent(s, t) => Part(<<s, t>>, s, t)
         /\ Adjacent(s, t) /\ Adjacent(t, u) => Part(<<s, t, u>>, s, u)
         /\ Adjacent(s, t) /\ Adjacent(t, u) /\ Adjacent(u, v) => Part(<<s, t, u, v>>, s, v)
<1>1. Adjacent(s, t) => Part(<<s, t>>, s, t)
  BY DEF Part, Chained
<1>2. Adjacent(s, t) /\ Adjacent(t, u) => Part(<<s, t, u>>, s, u)
  BY DEF Part, Chained
<1>3. Adjacent(s, t) /\ Adjacent(t, u) /\ Adjacent(u, v) => Part(<<s, t, u, v>>, s, v)
  BY DEF Part, Chained
<1>4. QED  BY <1>1, <1>2, <1>3

LEMMA DimFanPart == Part(DimFan, Indexing, Committing)
<1>1. /\ DimFan = <<Indexing, Closing, Opening, Committing>>
      /\ Indexing \in Steps /\ Closing \in Steps /\ Opening \in Steps /\ Committing \in Steps
  BY DEF DimFan, Indexing, Closing, Opening, Committing, Steps
<1>2. Adjacent(Indexing, Closing) /\ Adjacent(Closing, Opening) /\ Adjacent(Opening, Committing)
  BY DEF Adjacent, InGates, Opening, Committing, Indexing, Closing, TransformEnds, GatesStart, GatesEnd, Step
<1> HIDE DEF Indexing, Closing, Opening, Committing
<1>3. QED  BY <1>1, <1>2, FewSteps

(* A part that may follow and be followed by any other. *)
Free(p) == \E s, t : Part(p, s, t) /\ Enters(s) /\ Leaves(t)

LEMMA FreeModels ==
  /\ \A n \in {"stg", "ident", "tickets", "email", "mart"} : Free(<<Step("model", n)>>)
  /\ Free(DimFan)
<1>1. ASSUME NEW n \in {"stg", "ident", "tickets", "email", "mart"}
      PROVE  Free(<<Step("model", n)>>)
  <2>1. Step("model", n) \in Steps /\ Enters(Step("model", n)) /\ Leaves(Step("model", n))
    BY DEF Steps, Enters, Leaves, Opening, Committing, Indexing, Closing, TransformEnds, GatesStart,
           GatesEnd, Step
  <2>2. QED  BY <2>1, OneStep DEF Free
<1>2. Enters(Indexing) /\ Leaves(Committing)
  BY DEF Enters, Leaves, Opening, Committing, Indexing, Closing, TransformEnds, GatesStart, GatesEnd, Step
<1>3. QED  BY <1>1, <1>2, DimFanPart DEF Free

(* A free part, or none, keeps a part that may be followed. *)
LEMMA FreeFollows ==
  ASSUME NEW p, NEW s, NEW t, Part(p, s, t), Leaves(t), NEW q, q = <<>> \/ Free(q)
  PROVE  \E v : Part(p \o q, s, v) /\ Leaves(v)
<1>1. CASE q = <<>>
  <2>1. p \o q = p
    BY <1>1, ConcatEmptySeq DEF Part
  <2>2. QED  BY <2>1
<1>2. CASE Free(q)
  <2>1. PICK u, v : Part(q, u, v) /\ Enters(u) /\ Leaves(v)
    BY <1>2 DEF Free
  <2>2. Part(p \o q, s, v)
    BY <2>1, FreelyAdjacent, PartsJoin
  <2>3. QED  BY <2>1, <2>2
<1>3. QED  BY <1>1, <1>2

Command(c) == \E s, t : Part(c, s, t) /\ Begins(s) /\ Ends(t)

LEMMA SelectIsCommand ==
  ASSUME NEW S
  PROVE  Command(Select(S))
<1> DEFINE a == Step("start", "transform-select")
           z == Step("finish", "transform-select")
           p0 == <<a>>
           p1 == p0 \o Only(S, "stg", <<Step("model", "stg")>>)
           p2 == p1 \o Only(S, "ident", <<Step("model", "ident")>>)
           p3 == p2 \o Only(S, "dim_fan", DimFan)
           p4 == p3 \o Only(S, "tickets", <<Step("model", "tickets")>>)
           p5 == p4 \o Only(S, "email", <<Step("model", "email")>>)
           p6 == p5 \o Only(S, "mart", <<Step("model", "mart")>>)
           From(p) == \E v : Part(p, a, v) /\ Leaves(v)
<1>1. \A n, q : Free(q) => Only(S, n, q) = <<>> \/ Free(Only(S, n, q))
  BY DEF Only
<1>2. \A p, n, q : From(p) /\ Free(q) => From(p \o Only(S, n, q))
  BY <1>1, FreeFollows
<1>3. /\ a \in Steps /\ Leaves(a) /\ Begins(a)
      /\ z \in Steps /\ Enters(z) /\ Ends(z)
  BY DEF Steps, Flows, Leaves, Enters, Begins, Ends, Indexing, Opening, Committing,
         Closing, TransformEnds, GatesStart, GatesEnd, Step
<1>4. From(p0)
  BY <1>3, OneStep
<1>5. Select(S) = p6 \o <<z>>
  BY DEF Select
<1> HIDE DEF From, a, z
<1>6. From(p1)
  <2> HIDE DEF p0
  <2>1. QED  BY <1>2, <1>4, FreeModels
<1>7. From(p2)
  <2> HIDE DEF p1
  <2>1. QED  BY <1>2, <1>6, FreeModels
<1>8. From(p3)
  <2> HIDE DEF p2
  <2>1. QED  BY <1>2, <1>7, FreeModels
<1>9. From(p4)
  <2> HIDE DEF p3
  <2>1. QED  BY <1>2, <1>8, FreeModels
<1>10. From(p5)
  <2> HIDE DEF p4
  <2>1. QED  BY <1>2, <1>9, FreeModels
<1>11. From(p6)
  <2> HIDE DEF p5
  <2>1. QED  BY <1>2, <1>10, FreeModels
<1> HIDE DEF p6
<1>12. PICK v : Part(p6, a, v) /\ Leaves(v)
  BY <1>11 DEF From
<1>13. Part(p6 \o <<z>>, a, z)
  BY <1>3, <1>12, OneStep, FreelyAdjacent, PartsJoin
<1>14. QED  BY <1>3, <1>5, <1>13 DEF Command

LEMMA GatesPart == Part(Gates, GatesStart, Step("enforce", ""))
<1> DEFINE c(k) == Step("check", Checks[k])
           e == Step("enforce", "")
           checks == [k \in 1 .. Len(Checks) |-> c(k)]
<1>1. Len(Checks) = 4
  BY DEF Checks
<1>2. /\ GatesStart \in Steps /\ GatesEnd \in Steps /\ e \in Steps
      /\ \A k \in 1 .. 4 : c(k) \in Steps
  BY DEF Steps, Flows, GatesStart, GatesEnd
<1>3. /\ \A k \in 1 .. 4 : Adjacent(GatesStart, c(k)) /\ Adjacent(c(k), GatesEnd)
      /\ \A k, l \in 1 .. 4 : Adjacent(c(k), c(l))
      /\ Adjacent(GatesEnd, e)
  BY DEF Adjacent, InGates, Opening, Committing, Indexing, Closing, TransformEnds, GatesStart, GatesEnd, Step
<1>4. Gates = (<<GatesStart>> \o checks) \o <<GatesEnd, e>>
  BY DEF Gates, GatesStart, GatesEnd
<1> HIDE DEF c, e
<1>5. Part(<<GatesStart>>, GatesStart, GatesStart) /\ Part(<<GatesEnd, e>>, GatesEnd, e)
  BY <1>2, <1>3 DEF Part, Chained
<1>6. Part(checks, c(1), c(4))
  <2>1. checks \in [1 .. 4 -> Steps] /\ checks \in Seq(Steps) /\ Len(checks) = 4
    BY <1>1, <1>2
  <2>2. \A k \in 1 .. 4 : checks[k] = c(k)
    BY <1>1
  <2> HIDE DEF checks
  <2>3. QED  BY <1>3, <2>1, <2>2 DEF Part, Chained
<1> HIDE DEF checks
<1>7. Part(<<GatesStart>> \o checks, GatesStart, c(4))
  BY <1>3, <1>5, <1>6, PartsJoin
<1>8. Part((<<GatesStart>> \o checks) \o <<GatesEnd, e>>, GatesStart, e)
  BY <1>3, <1>5, <1>7, PartsJoin
<1>9. QED  BY <1>4, <1>8 DEF e

LEMMA TransformPart ==
  ASSUME NEW m \in Modes
  PROVE  Part(Transform(m), Step("start", "transform-warehouse"), TransformEnds)
<1> DEFINE a == Step("start", "transform-warehouse")
           st == Step("model", "stg")
           id == Step("model", "ident")
           u == Step("unify", m)
           ti == Step("model", "tickets")
           em == Step("model", "email")
           ma == Step("model", "mart")
           g == Step("grant", "")
<1>1. /\ {a, st, id, u} \subseteq Steps /\ {ti, em, ma, g, TransformEnds} \subseteq Steps
  BY DEF Steps, Flows, TransformEnds
<1>2. /\ Adjacent(a, st) /\ Adjacent(st, id) /\ Adjacent(id, u) /\ Adjacent(u, Indexing)
      /\ Adjacent(Committing, ti) /\ Adjacent(ti, em) /\ Adjacent(em, ma)
      /\ Adjacent(ma, g) /\ Adjacent(g, TransformEnds)
  BY DEF Adjacent, InGates, Opening, Committing, Indexing, Closing, TransformEnds, GatesStart, GatesEnd,
         Step, Modes
<1>3. /\ Transform(m) = <<a>> \o <<st, id>> \o <<u>> \o (DimFan \o <<ti, em, ma>>)
                          \o <<g, TransformEnds>>
  BY DEF Transform, Staging, Downstream, TransformEnds
<1> HIDE DEF a, st, id, u, ti, em, ma, g
<1>4. Part(<<a>>, a, a) /\ Part(<<u>>, u, u)
  BY <1>1, OneStep
<1>5. /\ Part(<<st, id>>, st, id) /\ Part(<<ti, em, ma>>, ti, ma)
      /\ Part(<<g, TransformEnds>>, g, TransformEnds)
  BY <1>1, <1>2, FewSteps
<1>6. Part(DimFan \o <<ti, em, ma>>, Indexing, ma)
  BY <1>2, <1>5, DimFanPart, PartsJoin
<1>7. Part(<<a>> \o <<st, id>>, a, id)
  BY <1>2, <1>4, <1>5, PartsJoin
<1>8. Part(<<a>> \o <<st, id>> \o <<u>>, a, u)
  BY <1>2, <1>4, <1>7, PartsJoin
<1>9. Part(<<a>> \o <<st, id>> \o <<u>> \o (DimFan \o <<ti, em, ma>>), a, ma)
  BY <1>2, <1>6, <1>8, PartsJoin
<1>10. Part(<<a>> \o <<st, id>> \o <<u>> \o (DimFan \o <<ti, em, ma>>)
              \o <<g, TransformEnds>>, a, TransformEnds)
  BY <1>2, <1>5, <1>9, PartsJoin
<1>11. QED  BY <1>3, <1>10 DEF a

LEMMA CommandsAre == \A c \in Commands : Command(c)
<1> DEFINE e == Step("enforce", "")
           a == Step("start", "transform-warehouse")
<1>1. /\ Begins(a) /\ Ends(TransformEnds) /\ Begins(GatesStart) /\ Ends(e)
      /\ Adjacent(TransformEnds, GatesStart)
  BY DEF Begins, Ends, Adjacent, InGates, Opening, Committing, Indexing, Closing, TransformEnds,
         GatesStart, GatesEnd, Step
<1> HIDE DEF e, a
<1>2. Part(Gates, GatesStart, e) /\ Part(Transform("full"), a, TransformEnds)
  BY GatesPart, TransformPart DEF e, a, Modes
<1>3. Command(Gates) /\ Command(Transform("full"))
  BY <1>1, <1>2 DEF Command
<1>4. Command(Nightly)
  <2>1. Part(Transform("full") \o Gates, a, e)
    BY <1>1, <1>2, PartsJoin
  <2>2. QED  BY <1>1, <2>1 DEF Command, Nightly
<1>5. ASSUME NEW m \in Modes  PROVE  Command(<<Step("unify", m)>>)
  <2>1. Step("unify", m) \in Steps /\ Begins(Step("unify", m)) /\ Ends(Step("unify", m))
    BY DEF Steps, Begins, Ends, GatesEnd, Step
  <2>2. QED  BY <2>1, OneStep DEF Command
<1>6. QED  BY <1>3, <1>4, <1>5, SelectIsCommand DEF Commands

(* A command that starts, and a step that is done. *)
LEMMA CommandPlan ==
  ASSUME NEW c \in Commands
  PROVE  PlanOK(c) /\ c # <<>> /\ Head(c) \in Steps /\ Begins(Head(c))
<1>1. PICK s, t : Part(c, s, t) /\ Begins(s) /\ Ends(t)
  BY CommandsAre DEF Command
<1>2. c \in Seq(Steps) /\ c # <<>> /\ Head(c) = s /\ Head(c) \in Steps
  BY <1>1 DEF Part
<1>3. QED  BY <1>1, <1>2 DEF Part, PlanOK

LEMMA StepDone ==
  ASSUME NEW p, PlanOK(p), p # <<>>
  PROVE  /\ PlanOK(Tail(p)) /\ Head(p) \in Steps
         /\ Tail(p) # <<>> => Adjacent(Head(p), Head(Tail(p))) /\ Head(Tail(p)) \in Steps
         /\ Tail(p) = <<>> => Ends(Head(p))
         /\ Tail(p) = <<>> <=> Len(p) = 1
<1>1. p \in Seq(Steps) /\ Len(p) \in Nat \ {0}
  BY EmptySeq DEF PlanOK
<1> DEFINE q == Tail(p)
<1>2. /\ q \in Seq(Steps) /\ Len(q) = Len(p) - 1 /\ Head(p) = p[1] /\ Head(p) \in Steps
      /\ \A k \in 1 .. Len(q) : q[k] = p[k + 1]
  BY <1>1, HeadTailProperties
<1>3. q = <<>> <=> Len(p) = 1
  BY <1>1, <1>2, EmptySeq
<1> HIDE DEF q
<1>4. ASSUME NEW k \in 1 .. Len(q) - 1  PROVE  Adjacent(q[k], q[k + 1])
  <2>1. q[k] = p[k + 1] /\ q[k + 1] = p[(k + 1) + 1] /\ k + 1 \in 1 .. Len(p) - 1
    BY <1>1, <1>2
  <2>2. QED  BY <2>1 DEF PlanOK, Chained
<1>5. ASSUME q # <<>>
      PROVE  /\ Ends(q[Len(q)]) /\ Head(q) \in Steps /\ Adjacent(Head(p), Head(q))
  <2>1. Len(q) \in Nat \ {0} /\ Head(q) = q[1] /\ q[1] \in Steps
    BY <1>2, <1>5, EmptySeq
  <2>2. q[Len(q)] = p[Len(p)] /\ q[1] = p[1 + 1] /\ 1 \in 1 .. Len(p) - 1
    BY <1>1, <1>2, <2>1
  <2>3. QED  BY <1>2, <2>1, <2>2 DEF PlanOK, Chained
<1>6. ASSUME q = <<>>  PROVE  Ends(Head(p))
  BY <1>1, <1>2, <1>3, <1>6 DEF PlanOK
<1>7. QED  BY <1>2, <1>3, <1>4, <1>5, <1>6 DEF PlanOK, Chained, q

-----------------------------------------------------------------------------
(* The flows of a job: what its runs say, and what is left of its plan. *)

FlowTypes ==
  /\ plan \in [Jobs -> Seq(Steps)] /\ \A j \in Jobs : PlanOK(plan[j])
  /\ status \in [Jobs -> [Flows -> {"none", "running", "completed", "failed"}]]
  /\ failing \in [Jobs -> SUBSET {Checks[k] : k \in 1 .. 4}]
  /\ ended \in [Jobs -> {"none", "ok", "raised", "killed"}]
  /\ granted \in BOOLEAN

(* The quality run of a job with plan p, whose checks failed and which      *)
(* ended as said.                                                           *)
GatesOK(p, run, fails, end) ==
  /\ p # <<>> => end = "none"
  /\ run = "none" => /\ fails = {}
                     /\ p # <<>> => ~InGates(Head(p)) /\ Head(p).kind # "enforce"
  /\ run = "running" => /\ p # <<>> => InGates(Head(p))
                        /\ p = <<>> => end = "killed"
  /\ run = "completed" => /\ p # <<>> => Head(p).kind = "enforce"
                          /\ p = <<>> => end = "killed" \/ (end = "ok" /\ fails = {})
  /\ run = "failed" => p = <<>> /\ end = "raised"

(* The transform run of a job that has built the mart, or has not. *)
TransformOK(p, run, builder, readable) ==
  /\ run = "completed" /\ p # <<>> =>
       Head(p) = GatesStart \/ InGates(Head(p)) \/ Head(p).kind = "enforce"
  /\ builder /\ (run = "completed" \/ (p # <<>> /\ Head(p) = TransformEnds)) => readable

JobFlows(j) ==
  /\ GatesOK(plan[j], status[j]["quality-gates"], failing[j], ended[j])
  /\ TransformOK(plan[j], status[j]["transform-warehouse"], mart.by = j, granted)

FlowsInv == FlowTypes /\ \A j \in Jobs : JobFlows(j)

LEMMA StepShapes ==
  ASSUME NEW s \in Steps
  PROVE  /\ s.kind = "start" => s.name \in Flows /\ s = Step("start", s.name)
         /\ s.kind = "finish" => s.name \in Flows /\ s = Step("finish", s.name)
         /\ s.kind = "check" => s.name \in {Checks[k] : k \in 1 .. 4}
         /\ s.kind = "unify" => s.name \in Modes
<1>1. \/ \E n : s = Step("model", n)
      \/ \E f \in Flows : s = Step("start", f)
      \/ \E f \in Flows : s = Step("finish", f)
      \/ \E m \in Modes : s = Step("unify", m)
      \/ \E k \in 1 .. 4 : s = Step("check", Checks[k])
      \/ s = Step("grant", "") \/ s = Step("enforce", "")
  BY DEF Steps
<1>2. \A k, n : Step(k, n).kind = k /\ Step(k, n).name = n
  BY DEF Step
<1> DEFINE Goal ==
                  /\ s.kind = "start" => s.name \in Flows /\ s = Step("start", s.name)
                  /\ s.kind = "finish" => s.name \in Flows /\ s = Step("finish", s.name)
                  /\ s.kind = "check" => s.name \in {Checks[k] : k \in 1 .. 4}
                  /\ s.kind = "unify" => s.name \in Modes
<1>3. ASSUME NEW f \in Flows, s = Step("start", f)  PROVE  Goal
  BY <1>2, <1>3
<1>4. ASSUME NEW f \in Flows, s = Step("finish", f)  PROVE  Goal
  BY <1>2, <1>4
<1>5. ASSUME NEW k \in 1 .. 4, s = Step("check", Checks[k])  PROVE  Goal
  BY <1>2, <1>5
<1>6. ASSUME NEW n, NEW k \in {"model", "grant", "enforce"}, s = Step(k, n)  PROVE  Goal
  BY <1>2, <1>6
<1>7. ASSUME NEW m \in Modes, s = Step("unify", m)  PROVE  Goal
  BY <1>2, <1>7
<1> HIDE DEF Goal
<1>8. Goal
  BY <1>1, <1>3, <1>4, <1>5, <1>6, <1>7
<1>9. QED  BY <1>8 DEF Goal

LEMMA JobAdvances ==
  ASSUME FlowTypes, NEW j \in Jobs, plan[j] # <<>>, Advance(j)
  PROVE  /\ plan' \in [Jobs -> Seq(Steps)] /\ \A i \in Jobs : PlanOK(plan'[i])
         /\ plan'[j] = Tail(plan[j]) /\ \A i \in Jobs \ {j} : plan'[i] = plan[i]
         /\ Head(plan[j]) \in Steps
         /\ plan'[j] # <<>> => Adjacent(Head(plan[j]), Head(plan'[j]))
         /\ plan'[j] = <<>> => Ends(Head(plan[j]))
         /\ plan'[j] = <<>> <=> Len(plan[j]) = 1
<1>1. PlanOK(plan[j]) /\ plan \in [Jobs -> Seq(Steps)]
  BY DEF FlowTypes
<1>2. plan'[j] = Tail(plan[j]) /\ \A i \in Jobs \ {j} : plan'[i] = plan[i]
  BY <1>1 DEF Advance
<1>3. PlanOK(plan'[j])
  BY <1>1, <1>2, StepDone
<1>4. plan' \in [Jobs -> Seq(Steps)] /\ \A i \in Jobs : PlanOK(plan'[i])
  <2>1. plan'[j] \in Seq(Steps)
    BY <1>3 DEF PlanOK
  <2>2. plan' \in [Jobs -> Seq(Steps)]
    BY <1>1, <1>2, <2>1 DEF Advance
  <2>3. QED  BY <1>2, <1>3, <2>2 DEF FlowTypes
<1>5. QED  BY <1>1, <1>2, <1>4, StepDone

(* What a step of j leaves to the other jobs. *)
Elsewhere(j) ==
  \A i \in Jobs \ {j} :
    /\ plan'[i] = plan[i] /\ status'[i] = status[i]
    /\ failing'[i] = failing[i] /\ ended'[i] = ended[i]
    /\ mart'.by = i => mart.by = i /\ (granted => granted')

LEMMA OthersKeepFlows ==
  ASSUME FlowsInv, NEW j \in Jobs, Elsewhere(j), NEW i \in Jobs \ {j}
  PROVE  JobFlows(i)'
<1>1. /\ JobFlows(i)
      /\ plan'[i] = plan[i] /\ status'[i] = status[i]
      /\ failing'[i] = failing[i] /\ ended'[i] = ended[i]
      /\ mart'.by = i => mart.by = i /\ (granted => granted')
  BY DEF FlowsInv, Elsewhere
<1>2. GatesOK(plan[i], status[i]["quality-gates"], failing[i], ended[i])'
  BY <1>1 DEF JobFlows
<1>3. TransformOK(plan[i], status[i]["transform-warehouse"], mart.by = i, granted)'
  BY <1>1 DEF JobFlows, TransformOK
<1>4. QED  BY <1>2, <1>3 DEF JobFlows

LEMMA FlowsStart ==
  ASSUME FlowsInv, NEW j \in Jobs, Start(j)
  PROVE  FlowsInv'
<1>1. FlowTypes /\ plan[j] = <<>>
  BY DEF FlowsInv, Start
<1>2. PICK c \in Commands : plan' = [plan EXCEPT ![j] = c]
  BY DEF Start
<1>3. PlanOK(c) /\ c # <<>> /\ Head(c) \in Steps /\ Begins(Head(c)) /\ c \in Seq(Steps)
  BY CommandPlan DEF PlanOK
<1>4. plan'[j] = c /\ \A i \in Jobs \ {j} : plan'[i] = plan[i]
  BY <1>1, <1>2 DEF FlowTypes
<1>5. FlowTypes'
  <2>1. plan' \in [Jobs -> Seq(Steps)] /\ \A i \in Jobs : PlanOK(plan'[i])
    BY <1>1, <1>2, <1>3, <1>4 DEF FlowTypes
  <2>2. /\ status' \in [Jobs -> [Flows -> {"none", "running", "completed", "failed"}]]
        /\ failing' \in [Jobs -> SUBSET {Checks[k] : k \in 1 .. 4}]
        /\ ended' \in [Jobs -> {"none", "ok", "raised", "killed"}]
        /\ granted' \in BOOLEAN
    BY <1>1 DEF FlowTypes, Start, data
  <2>3. QED  BY <2>1, <2>2 DEF FlowTypes
<1>6. Elsewhere(j)
  BY <1>1, <1>4 DEF FlowTypes, Start, Elsewhere, data
<1>7. JobFlows(j)'
  <2>1. /\ status'[j]["quality-gates"] = "none" /\ status'[j]["transform-warehouse"] = "none"
        /\ failing'[j] = {} /\ ended'[j] = "none"
    BY <1>1 DEF FlowTypes, Start, Flows
  <2>2. ~InGates(Head(c)) /\ Head(c).kind # "enforce" /\ Head(c) # TransformEnds
    BY <1>3 DEF Begins, InGates, GatesEnd, TransformEnds, Step
  <2>3. QED  BY <1>3, <1>4, <2>1, <2>2 DEF JobFlows, GatesOK, TransformOK
<1>8. QED  BY <1>5, <1>6, <1>7, OthersKeepFlows DEF FlowsInv

(* A step that belongs to no run. *)
LEMMA FlowsModel ==
  ASSUME FlowsInv, NEW j \in Jobs, plan[j] # <<>>, Advance(j),
         Head(plan[j]).kind \in {"model", "unify", "grant"},
         UNCHANGED <<status, failing>>,
         \/ ended' = ended /\ Head(plan[j]).kind # "unify"
         \/ /\ ended' = [ended EXCEPT ![j] = IF Len(plan[j]) = 1 THEN "ok" ELSE ended[j]]
            /\ Head(plan[j]).kind = "unify",
         \/ mart' = mart /\ granted' = granted
         \/ mart'.by = j /\ granted' = FALSE /\ Head(plan[j]).kind = "model"
         \/ mart' = mart /\ granted' = TRUE /\ Head(plan[j]).kind = "grant",
         Head(plan[j]).kind = "grant" => granted' = TRUE
  PROVE  FlowsInv'
<1>1. FlowTypes /\ JobFlows(j)
  BY DEF FlowsInv
<1> DEFINE h == Head(plan[j])
<1>2. /\ plan' \in [Jobs -> Seq(Steps)] /\ \A i \in Jobs : PlanOK(plan'[i])
      /\ plan'[j] = Tail(plan[j]) /\ \A i \in Jobs \ {j} : plan'[i] = plan[i]
      /\ h \in Steps
      /\ plan'[j] # <<>> => Adjacent(h, Head(plan'[j]))
      /\ plan'[j] = <<>> => Ends(h)
      /\ (plan'[j] = <<>> <=> Len(plan[j]) = 1)
  BY <1>1, JobAdvances
<1>3. /\ ended' \in [Jobs -> {"none", "ok", "raised", "killed"}]
      /\ \A i \in Jobs \ {j} : ended'[i] = ended[i]
      /\ plan'[j] # <<>> => ended'[j] = ended[j]
      /\ plan'[j] = <<>> => ended'[j] = "ok"
  <2>1. plan'[j] = <<>> => h.kind = "unify"
    BY <1>2 DEF Ends
  <2>2. QED  BY <1>1, <1>2, <2>1 DEF FlowTypes
<1>4. FlowTypes'
  BY <1>1, <1>2, <1>3 DEF FlowTypes
<1>5. Elsewhere(j)
  BY <1>2, <1>3 DEF Elsewhere
<1>6. /\ ~InGates(h) /\ h.kind # "enforce" /\ h # GatesStart
      /\ h.kind \notin {"start", "finish", "check"}
  BY DEF InGates, GatesStart, GatesEnd, Step
<1>7. plan'[j] # <<>> =>
        /\ ~InGates(Head(plan'[j])) /\ Head(plan'[j]).kind # "enforce"
        /\ Head(plan'[j]) = TransformEnds => h.kind = "grant"
  <2>1. h # GatesEnd
    BY <1>6 DEF InGates
  <2>2. QED  BY <1>2, <1>6, <2>1 DEF Adjacent
<1>8. status[j]["quality-gates"] = "none" /\ status[j]["transform-warehouse"] # "completed"
  <2>1. status[j]["quality-gates"] \in {"none", "running", "completed", "failed"}
    BY <1>1 DEF FlowTypes, Flows
  <2>2. QED  BY <1>1, <1>6, <2>1 DEF JobFlows, GatesOK, TransformOK
<1>9. GatesOK(plan[j], status[j]["quality-gates"], failing[j], ended[j])'
  BY <1>1, <1>3, <1>7, <1>8 DEF JobFlows, GatesOK
<1>10. TransformOK(plan[j], status[j]["transform-warehouse"], mart.by = j, granted)'
  BY <1>7, <1>8 DEF TransformOK
<1>11. QED  BY <1>4, <1>5, <1>9, <1>10, OthersKeepFlows DEF FlowsInv, JobFlows

(* A step that belongs to a run, or opens, completes or enforces one. *)
LEMMA FlowsRun ==
  ASSUME FlowsInv, NEW j \in Jobs,
         StartRun(j) \/ FinishRun(j) \/ RunCheck(j) \/ EnforceGate(j)
  PROVE  FlowsInv'
<1> DEFINE h == Head(plan[j])
           gate == status[j]["quality-gates"]
           run == status[j]["transform-warehouse"]
<1>1. FlowTypes /\ JobFlows(j) /\ plan[j] # <<>> /\ Advance(j)
  BY DEF FlowsInv, StartRun, FinishRun, RunCheck, EnforceGate, At
<1>2. /\ plan' \in [Jobs -> Seq(Steps)] /\ \A i \in Jobs : PlanOK(plan'[i])
      /\ plan'[j] = Tail(plan[j]) /\ \A i \in Jobs \ {j} : plan'[i] = plan[i]
      /\ h \in Steps
      /\ plan'[j] # <<>> => Adjacent(h, Head(plan'[j]))
      /\ plan'[j] = <<>> => Ends(h)
      /\ (plan'[j] = <<>> <=> Len(plan[j]) = 1)
  BY <1>1, JobAdvances
<1>3. /\ gate \in {"none", "running", "completed", "failed"}
      /\ run \in {"none", "running", "completed", "failed"}
      /\ failing[j] \in SUBSET {Checks[k] : k \in 1 .. 4} /\ ended[j] = "none"
  BY <1>1 DEF FlowTypes, Flows, JobFlows, GatesOK
<1>4. /\ gate # "failed"
      /\ gate = "none" => failing[j] = {} /\ ~InGates(h) /\ h.kind # "enforce"
      /\ gate = "running" => InGates(h)
      /\ gate = "completed" => h.kind = "enforce"
  BY <1>1 DEF JobFlows, GatesOK
<1>5. /\ run = "completed" => h = GatesStart \/ InGates(h) \/ h.kind = "enforce"
      /\ mart.by = j /\ (run = "completed" \/ h = TransformEnds) => granted
  BY <1>1 DEF JobFlows, TransformOK
<1>6. mart' = mart /\ granted' = granted
  BY DEF StartRun, FinishRun, RunCheck, EnforceGate, data
<1>7. CASE StartRun(j)
  <2>1. /\ h.kind = "start" /\ status' = [status EXCEPT ![j][h.name] = "running"]
        /\ failing' = failing /\ ended' = ended
    BY <1>7 DEF StartRun, At
  <2>2. h.name \in Flows /\ h = Step("start", h.name)
    BY <1>2, <2>1, StepShapes
  <2>3. /\ status' \in [Jobs -> [Flows -> {"none", "running", "completed", "failed"}]]
        /\ \A i \in Jobs \ {j} : status'[i] = status[i]
        /\ \A f \in Flows : status'[j][f] = IF f = h.name THEN "running" ELSE status[j][f]
    BY <1>1, <2>1, <2>2 DEF FlowTypes
  <2>4. FlowTypes' /\ Elsewhere(j)
    BY <1>1, <1>2, <1>6, <2>1, <2>3 DEF FlowTypes, Elsewhere
  <2>5. /\ ~InGates(h) /\ h.kind # "enforce" /\ ~Ends(h) /\ h # TransformEnds
        /\ (h.name = "quality-gates" <=> h = GatesStart)
    BY <2>1, <2>2 DEF InGates, Ends, GatesEnd, GatesStart, TransformEnds, Step
  <2>6. plan'[j] # <<>> /\ Adjacent(h, Head(plan'[j]))
    BY <1>2, <2>5
  <2>7. /\ h = GatesStart <=> InGates(Head(plan'[j]))
        /\ Head(plan'[j]).kind # "enforce" /\ Head(plan'[j]) # TransformEnds
    BY <2>1, <2>5, <2>6 DEF Adjacent, GatesEnd, Step
  <2>8. gate = "none"
    BY <1>3, <1>4, <2>5
  <2>9. status'[j]["quality-gates"] = IF h = GatesStart THEN "running" ELSE "none"
    BY <2>3, <2>5, <2>8 DEF Flows
  <2>10. GatesOK(plan[j], status[j]["quality-gates"], failing[j], ended[j])'
    BY <1>3, <1>4, <2>1, <2>6, <2>7, <2>8, <2>9 DEF GatesOK
  <2>11. status'[j]["transform-warehouse"] = "completed" => run = "completed" /\ h = GatesStart
    BY <1>5, <2>3, <2>5 DEF Flows
  <2>12. TransformOK(plan[j], status[j]["transform-warehouse"], mart.by = j, granted)'
    BY <1>5, <1>6, <2>7, <2>11 DEF TransformOK
  <2>13. QED  BY <2>4, <2>10, <2>12, OthersKeepFlows DEF FlowsInv, JobFlows
<1>8. CASE FinishRun(j)
  <2>1. /\ h.kind = "finish" /\ status' = [status EXCEPT ![j][h.name] = "completed"]
        /\ failing' = failing
        /\ ended' = [ended EXCEPT ![j] = IF Len(plan[j]) = 1 THEN "ok" ELSE ended[j]]
    BY <1>8 DEF FinishRun, At
  <2>2. h.name \in Flows /\ h = Step("finish", h.name)
    BY <1>2, <2>1, StepShapes
  <2>3. /\ status' \in [Jobs -> [Flows -> {"none", "running", "completed", "failed"}]]
        /\ \A i \in Jobs \ {j} : status'[i] = status[i] /\ ended'[i] = ended[i]
        /\ \A f \in Flows : status'[j][f] = IF f = h.name THEN "completed" ELSE status[j][f]
        /\ ended' \in [Jobs -> {"none", "ok", "raised", "killed"}]
        /\ ended'[j] = IF plan'[j] = <<>> THEN "ok" ELSE "none"
    BY <1>1, <1>2, <1>3, <2>1, <2>2 DEF FlowTypes
  <2>4. FlowTypes' /\ Elsewhere(j)
    BY <1>1, <1>2, <1>6, <2>1, <2>3 DEF FlowTypes, Elsewhere
  <2>5. /\ h.kind \notin {"check", "enforce", "grant"} /\ h # GatesStart
        /\ (h.name = "quality-gates" <=> h = GatesEnd)
        /\ (h.name = "transform-warehouse" <=> h = TransformEnds)
        /\ (InGates(h) <=> h = GatesEnd)
    BY <2>1, <2>2 DEF InGates, GatesEnd, GatesStart, TransformEnds, Step
  <2>6. /\ h = GatesEnd => plan'[j] # <<>>
        /\ plan'[j] # <<>> => /\ Head(plan'[j]).kind = "enforce" <=> h = GatesEnd
                              /\ ~InGates(Head(plan'[j])) /\ Head(plan'[j]) # TransformEnds
                              /\ h = TransformEnds => Head(plan'[j]) = GatesStart
    BY <1>2, <2>5 DEF Adjacent, Ends
  <2>7. /\ status'[j]["quality-gates"] = IF h = GatesEnd THEN "completed" ELSE "none"
        /\ h # GatesEnd => failing[j] = {}
    BY <1>3, <1>4, <2>3, <2>5 DEF Flows
  <2>8. GatesOK(plan[j], status[j]["quality-gates"], failing[j], ended[j])'
    BY <2>1, <2>3, <2>6, <2>7 DEF GatesOK
  <2>9. status'[j]["transform-warehouse"] = "completed" =>
          h = TransformEnds \/ (run = "completed" /\ h = GatesEnd)
    BY <1>5, <2>3, <2>5 DEF Flows
  <2>10. TransformOK(plan[j], status[j]["transform-warehouse"], mart.by = j, granted)'
    BY <1>5, <1>6, <2>6, <2>9 DEF TransformOK
  <2>11. QED  BY <2>4, <2>8, <2>10, OthersKeepFlows DEF FlowsInv, JobFlows
<1>9. CASE RunCheck(j)
  <2>1. /\ h.kind = "check" /\ status' = status /\ ended' = ended
        /\ failing' = [failing EXCEPT ![j] =
             IF Passes(h.name) THEN failing[j] ELSE failing[j] \cup {h.name}]
    BY <1>9 DEF RunCheck, At
  <2>2. h.name \in {Checks[k] : k \in 1 .. 4}
    BY <1>2, <2>1, StepShapes
  <2>3. /\ failing' \in [Jobs -> SUBSET {Checks[k] : k \in 1 .. 4}]
        /\ \A i \in Jobs \ {j} : failing'[i] = failing[i]
    <3> DEFINE K == {Checks[k] : k \in 1 .. 4}
               now == IF Passes(h.name) THEN failing[j] ELSE failing[j] \cup {h.name}
    <3>1. now \in SUBSET K
      BY <1>3, <2>2
    <3>2. failing \in [Jobs -> SUBSET K] /\ failing' = [failing EXCEPT ![j] = now]
      BY <1>1, <2>1 DEF FlowTypes
    <3> HIDE DEF K, now
    <3>3. failing' \in [Jobs -> SUBSET K] /\ \A i \in Jobs \ {j} : failing'[i] = failing[i]
      BY <3>1, <3>2
    <3>4. QED  BY <3>3 DEF K
  <2>4. FlowTypes' /\ Elsewhere(j)
    BY <1>1, <1>2, <1>6, <2>1, <2>3 DEF FlowTypes, Elsewhere
  <2>5. InGates(h) /\ h.kind # "enforce" /\ ~Ends(h) /\ h.kind # "grant"
    BY <2>1 DEF InGates, Ends
  <2>6. plan'[j] # <<>> /\ InGates(Head(plan'[j])) /\ Head(plan'[j]) # TransformEnds
    BY <1>2, <2>1, <2>5 DEF Adjacent
  <2>7. gate = "running"
    BY <1>3, <1>4, <2>5
  <2>8. GatesOK(plan[j], status[j]["quality-gates"], failing[j], ended[j])'
    BY <1>3, <2>1, <2>6, <2>7 DEF GatesOK
  <2>9. TransformOK(plan[j], status[j]["transform-warehouse"], mart.by = j, granted)'
    BY <1>5, <1>6, <2>1, <2>6 DEF TransformOK
  <2>10. QED  BY <2>4, <2>8, <2>9, OthersKeepFlows DEF FlowsInv, JobFlows
<1>10. CASE EnforceGate(j)
  <2>1. /\ h.kind = "enforce" /\ failing[j] = {} /\ status' = status /\ failing' = failing
        /\ ended' = [ended EXCEPT ![j] = "ok"]
    BY <1>10 DEF EnforceGate, At
  <2>2. plan'[j] = <<>>
    BY <1>2, <2>1 DEF Adjacent
  <2>3. /\ ended' \in [Jobs -> {"none", "ok", "raised", "killed"}] /\ ended'[j] = "ok"
        /\ \A i \in Jobs \ {j} : ended'[i] = ended[i]
    BY <1>1, <2>1 DEF FlowTypes
  <2>4. FlowTypes' /\ Elsewhere(j)
    BY <1>1, <1>2, <1>6, <2>1, <2>3 DEF FlowTypes, Elsewhere
  <2>5. gate = "completed"
    BY <1>3, <1>4, <2>1 DEF InGates, GatesEnd, Step
  <2>6. GatesOK(plan[j], status[j]["quality-gates"], failing[j], ended[j])'
    BY <2>1, <2>2, <2>3, <2>5 DEF GatesOK
  <2>7. TransformOK(plan[j], status[j]["transform-warehouse"], mart.by = j, granted)'
    BY <1>5, <1>6, <2>1, <2>2 DEF TransformOK
  <2>8. QED  BY <2>4, <2>6, <2>7, OthersKeepFlows DEF FlowsInv, JobFlows
<1>11. QED  BY <1>7, <1>8, <1>9, <1>10

LEMMA NoPlan == PlanOK(<<>>)
  BY DEF PlanOK, Chained

(* A job that raises or is killed. *)
LEMMA FlowsBreak ==
  ASSUME FlowsInv, NEW j \in Jobs, Raise(j) \/ Fail(j) \/ Kill(j)
  PROVE  FlowsInv'
<1>1. FlowTypes /\ JobFlows(j) /\ plan[j] # <<>> /\ plan' = [plan EXCEPT ![j] = <<>>]
  BY DEF FlowsInv, Raise, Fail, Kill, MarkedFailed, At, AtModel, Creating, KeyViolation,
         Deadlocked
<1>2. /\ plan' \in [Jobs -> Seq(Steps)] /\ \A i \in Jobs : PlanOK(plan'[i])
      /\ plan'[j] = <<>> /\ \A i \in Jobs \ {j} : plan'[i] = plan[i]
  BY <1>1, NoPlan DEF FlowTypes
<1>3. failing' = failing /\ mart' = mart /\ granted' = granted
  BY DEF Raise, Fail, Kill, MarkedFailed, data
<1> DEFINE gate == status[j]["quality-gates"]
           run == status[j]["transform-warehouse"]
<1>4. /\ gate \in {"none", "running", "completed"} /\ ended[j] = "none"
      /\ gate = "none" => failing[j] = {}
      /\ run = "completed" /\ mart.by = j => granted
  BY <1>1 DEF FlowTypes, Flows, JobFlows, GatesOK, TransformOK
<1>5. CASE Raise(j) \/ Fail(j)
  <2>1. /\ status' = [status EXCEPT ![j] =
             [f \in Flows |-> IF f \in OpenFlow(j) THEN "failed" ELSE status[j][f]]]
        /\ ended' = [ended EXCEPT ![j] = "raised"]
    BY <1>5 DEF Raise, Fail, MarkedFailed
  <2>2. /\ status' \in [Jobs -> [Flows -> {"none", "running", "completed", "failed"}]]
        /\ \A i \in Jobs \ {j} : status'[i] = status[i] /\ ended'[i] = ended[i]
        /\ \A f \in Flows :
             status'[j][f] = IF f \in OpenFlow(j) THEN "failed" ELSE status[j][f]
        /\ ended' \in [Jobs -> {"none", "ok", "raised", "killed"}] /\ ended'[j] = "raised"
    BY <1>1, <2>1 DEF FlowTypes
  <2>3. FlowTypes' /\ Elsewhere(j)
    BY <1>1, <1>2, <1>3, <2>2 DEF FlowTypes, Elsewhere
  <2>4. /\ gate = "none" => "quality-gates" \notin OpenFlow(j)
        /\ gate = "running" => "quality-gates" \in OpenFlow(j)
    BY DEF OpenFlow, Flows
  <2>5. gate = "completed" => "quality-gates" \in OpenFlow(j)
    <3> SUFFICES ASSUME gate = "completed"  PROVE  "quality-gates" \in OpenFlow(j)
      OBVIOUS
    <3>1. Head(plan[j]).kind = "enforce"
      BY <1>1 DEF JobFlows, GatesOK
    <3>2. plan[j] \in Seq(Steps) /\ Len(plan[j]) \in Nat \ {0}
      BY <1>1, EmptySeq DEF FlowTypes
    <3>3. 1 \in 1 .. Len(plan[j]) /\ plan[j][1].kind \in {"check", "enforce"}
      BY <3>1, <3>2, HeadTailProperties
    <3>4. QED  BY <3>3 DEF OpenFlow
  <2>6. status'[j]["quality-gates"] = IF gate = "none" THEN "none" ELSE "failed"
    BY <1>4, <2>2, <2>4, <2>5 DEF Flows
  <2>7. GatesOK(plan[j], status[j]["quality-gates"], failing[j], ended[j])'
    BY <1>2, <1>3, <1>4, <2>2, <2>6 DEF GatesOK
  <2>8. TransformOK(plan[j], status[j]["transform-warehouse"], mart.by = j, granted)'
    <3>1. status'[j]["transform-warehouse"] = "completed" => run = "completed"
      BY <2>2 DEF Flows
    <3>2. QED  BY <1>2, <1>3, <1>4, <3>1 DEF TransformOK
  <2>9. QED  BY <2>3, <2>7, <2>8, OthersKeepFlows DEF FlowsInv, JobFlows
<1>6. CASE Kill(j)
  <2>1. status' = status /\ ended' = [ended EXCEPT ![j] = "killed"]
    BY <1>6 DEF Kill
  <2>2. /\ \A i \in Jobs \ {j} : ended'[i] = ended[i]
        /\ ended' \in [Jobs -> {"none", "ok", "raised", "killed"}] /\ ended'[j] = "killed"
    BY <1>1, <2>1 DEF FlowTypes
  <2>3. FlowTypes' /\ Elsewhere(j)
    BY <1>1, <1>2, <1>3, <2>1, <2>2 DEF FlowTypes, Elsewhere
  <2>4. GatesOK(plan[j], status[j]["quality-gates"], failing[j], ended[j])'
    BY <1>2, <1>3, <1>4, <2>1, <2>2 DEF GatesOK
  <2>5. TransformOK(plan[j], status[j]["transform-warehouse"], mart.by = j, granted)'
    BY <1>2, <1>3, <1>4, <2>1 DEF TransformOK
  <2>6. QED  BY <2>3, <2>4, <2>5, OthersKeepFlows DEF FlowsInv, JobFlows
<1>7. QED  BY <1>5, <1>6

LEMMA FlowsInit == Init => FlowsInv
<1> SUFFICES ASSUME Init  PROVE  FlowsInv
  OBVIOUS
<1>1. FlowTypes
  <2>1. /\ plan = [j \in Jobs |-> <<>>] /\ <<>> \in Seq(Steps)
        /\ status = [j \in Jobs |-> [f \in Flows |-> "none"]]
        /\ failing = [j \in Jobs |-> {}] /\ ended = [j \in Jobs |-> "none"]
        /\ granted = FALSE
    BY DEF Init
  <2>2. QED  BY <2>1, NoPlan DEF FlowTypes
<1>2. ASSUME NEW j \in Jobs  PROVE  JobFlows(j)
  BY DEF Init, JobFlows, GatesOK, TransformOK, Flows
<1>3. QED  BY <1>1, <1>2 DEF FlowsInv

LEMMA FlowsStep == FlowsInv /\ [Next]_vars => FlowsInv'
<1> SUFFICES ASSUME FlowsInv, [Next]_vars  PROVE  FlowsInv'
  OBVIOUS
<1>1. CASE UNCHANGED <<plan, status, failing, ended, mart, granted>>
  BY <1>1 DEF FlowsInv, FlowTypes, JobFlows
<1>2. CASE UNCHANGED vars
  BY <1>1, <1>2 DEF vars, data
<1>3. CASE Ingest
  BY <1>1, <1>3 DEF Ingest, data
<1>4. ASSUME NEW S \in Rebuilds, Rebuild(S)  PROVE  FlowsInv'
  BY <1>1, <1>4 DEF Rebuild
<1>5. ASSUME NEW j \in Jobs, Start(j) \/ StageSome(j) \/ JobStep(j) \/ Fail(j) \/ Kill(j)
      PROVE  FlowsInv'
  <2> DEFINE h == Head(plan[j])
  <2>0. \A n : AtModel(j, n) => plan[j] # <<>> /\ h.kind = "model"
    BY DEF AtModel, Step
  <2>1. CASE StageSources(j) \/ StageIdentity(j) \/ LoadTickets(j) \/ LoadEmail(j)
    <3>1. /\ plan[j] # <<>> /\ h.kind = "model" /\ Advance(j)
          /\ UNCHANGED <<status, failing, ended, mart, granted>>
      BY <2>0, <2>1 DEF StageSources, StageIdentity, LoadTickets, LoadEmail
    <3>2. QED  BY <3>1, FlowsModel
  <2>2. CASE LockTable(j) \/ CloseVersions(j) \/ OpenVersions(j) \/ CommitVersions(j)
    <3>1. /\ plan[j] # <<>> /\ h.kind = "model" /\ Advance(j)
          /\ UNCHANGED <<status, failing, ended, mart, granted>>
      BY <2>0, <2>2 DEF LockTable, CloseVersions, OpenVersions, CommitVersions, data
    <3>2. QED  BY <3>1, FlowsModel
  <2>3. CASE Unify(j)
    BY <2>3, FlowsModel DEF Unify, At
  <2>4. CASE BuildMart(j)
    <3>1. /\ plan[j] # <<>> /\ h.kind = "model" /\ Advance(j)
          /\ UNCHANGED <<status, failing, ended>>
          /\ mart'.by = j /\ granted' = FALSE
      BY <2>0, <2>4 DEF BuildMart
    <3>2. QED  BY <3>1, FlowsModel
  <2>5. CASE Grant(j)
    BY <2>5, FlowsModel DEF Grant, At
  <2>6. CASE StartRun(j) \/ FinishRun(j) \/ RunCheck(j) \/ EnforceGate(j)
    BY <2>6, FlowsRun
  <2>7. CASE Raise(j) \/ Fail(j) \/ Kill(j)
    BY <2>7, FlowsBreak
  <2>8. CASE Start(j)
    BY <2>8, FlowsStart
  <2>10. CASE StageSome(j)
    BY <1>1, <2>10 DEF StageSome
  <2>9. QED  BY <1>5, <2>10, <2>1, <2>2, <2>3, <2>4, <2>5, <2>6, <2>7, <2>8 DEF JobStep
<1>6. QED  BY <1>2, <1>3, <1>4, <1>5 DEF Next

(* The invariant: a quality run is running exactly while its job stands in  *)
(* the checks, completed when the gate is to be enforced or was, failed     *)
(* when the job raised (flows.py run_quality_gates, db.py), and from        *)
(* the grants to the end of the transform nobody has rebuilt the mart of    *)
(* the job without a grant (flows.py transform_warehouse).                  *)
THEOREM FlowsInvariant == Spec => []FlowsInv
BY FlowsInit, FlowsStep, PTL DEF Spec

(* A job that was not killed leaves a quality run that is completed exactly *)
(* when all its error checks passed, although flows.py run_quality_gates    *)
(* commits it as completed before enforce_gate raises: the handler marks it *)
(* failed afterwards.                                                       *)
THEOREM GateCorrect == Spec => []GateIsHonest
<1>1. FlowsInv => GateIsHonest
  <2> SUFFICES ASSUME FlowsInv, NEW j \in Jobs,
                      ended[j] \in {"ok", "raised"}, status[j]["quality-gates"] # "none"
               PROVE  /\ status[j]["quality-gates"] \in {"completed", "failed"}
                      /\ status[j]["quality-gates"] = "completed" => failing[j] = {} /\ ended[j] = "ok"
                      /\ failing[j] # {} => ended[j] = "raised"
    BY DEF GateIsHonest
  <2>1. /\ status[j]["quality-gates"] \in {"none", "running", "completed", "failed"}
        /\ GatesOK(plan[j], status[j]["quality-gates"], failing[j], ended[j])
    BY DEF FlowsInv, FlowTypes, JobFlows, Flows
  <2>2. QED  BY <2>1 DEF GatesOK
<1>2. QED  BY <1>1, FlowsInvariant, PTL

(* The analyst can read the mart once the transform that built it last has  *)
(* completed, although building it drops the grants and other jobs build it *)
(* too (grants.sql runs after the marts and before the run is completed).   *)
THEOREM GrantsCorrect == Spec => []GrantsAfterTransform
<1>1. FlowsInv => GrantsAfterTransform
  BY DEF FlowsInv, JobFlows, TransformOK, GrantsAfterTransform
<1>2. QED  BY <1>1, FlowsInvariant, PTL

-----------------------------------------------------------------------------
(* dim_fan: its versions, and the transactions that are about to write it.  *)

Attrs == UNION {{s.attr[f] : f \in DOMAIN s.attr} : s \in Snapshots}
Version == [key : Nat, fan : Nat, attr : Attrs, n : Nat, current : BOOLEAN]

DimTypes ==
  /\ raw \in Snapshots /\ stg \in Snapshots /\ ident \in Snapshots
  /\ next \in Nat \ {0} /\ torn \subseteq Jobs
  /\ DOMAIN golden \subseteq Nat /\ IsFiniteSet(DOMAIN golden)
  /\ \A f \in DOMAIN golden : golden[f].attr \in Attrs /\ golden[f].n \in Nat
  /\ dim \subseteq Version
  /\ txn \in [Jobs -> [on : BOOLEAN, closed : SUBSET Nat, opened : SUBSET Version]]

KeysOK ==
  \A v \in dim : v.key \in 1 .. next - 1 /\ \A w \in dim : v.key = w.key => v = w

(* Where a job with plan p is in its dim_fan transaction. *)
Phase(p) ==
  IF p = <<>> THEN "outside"
  ELSE IF Head(p) = Closing THEN "sharing"
  ELSE IF Head(p) = Opening THEN "opening"
  ELSE IF Head(p) = Committing THEN "committing"
  ELSE "outside"

Writing(p) == Phase(p) \in {"opening", "committing"}

ToClose == {v.key : v \in {w \in Current(dim) : Closable(w)}}

(* What j wrote is still what it would write now: golden_fans and dim_fan   *)
(* cannot change meanwhile.                                                 *)
TxnOK(j) ==
  /\ txn[j].on <=> Writing(plan[j])
  /\ ~Writing(plan[j]) => txn[j] = NoTxn
  /\ Phase(plan[j]) = "opening" => txn[j].opened = {}
  /\ Writing(plan[j]) => txn[j].closed = ToClose
  /\ Phase(plan[j]) = "committing" =>
       \A f \in DOMAIN golden : \E v \in Visible(j) \cup txn[j].opened : v.fan = f

OpenedOK(j) ==
  \A o \in txn[j].opened :
    /\ o.current /\ o.key \in 1 .. next - 1 /\ \A v \in dim : v.key # o.key
    /\ o.fan \in DOMAIN golden /\ o.attr = golden[o.fan].attr
    /\ \A p \in txn[j].opened : o.key = p.key \/ o.fan = p.fan => o = p
    /\ \A v \in dim : v.key < o.key
    /\ \A v \in Visible(j) : v.fan # o.fan

(* Who writes dim_fan has it alone. *)
Alone(j) == Writing(plan[j]) => \A k \in Jobs \ {j} : Phase(plan[k]) = "outside"

DimInv ==
  /\ DimTypes /\ KeysOK /\ OneCurrent
  /\ \A j \in Jobs : TxnOK(j) /\ OpenedOK(j) /\ Alone(j)

LEMMA Phases ==
  /\ Opening # Committing /\ Closing # Opening /\ Closing # Committing
  /\ Indexing \notin {Closing, Opening, Committing}
  BY DEF Opening, Committing, Closing, Indexing, Step

LEMMA PhaseAdvances ==
  ASSUME FlowTypes, NEW j \in Jobs, plan[j] # <<>>, Advance(j)
  PROVE  /\ Head(plan[j]) = Indexing =>
              Phase(plan[j]) = "outside" /\ Phase(plan'[j]) = "sharing"
         /\ Head(plan[j]) = Closing =>
              Phase(plan[j]) = "sharing" /\ Phase(plan'[j]) = "opening"
         /\ Head(plan[j]) = Opening =>
              Phase(plan[j]) = "opening" /\ Phase(plan'[j]) = "committing"
         /\ Head(plan[j]) = Committing =>
              Phase(plan[j]) = "committing" /\ Phase(plan'[j]) = "outside"
         /\ Head(plan[j]) \notin {Indexing, Closing, Opening, Committing} =>
              Phase(plan[j]) = "outside" /\ Phase(plan'[j]) = "outside"
         /\ \A i \in Jobs \ {j} : Phase(plan'[i]) = Phase(plan[i])
<1> DEFINE h == Head(plan[j])
<1>1. /\ \A i \in Jobs \ {j} : plan'[i] = plan[i]
      /\ plan'[j] # <<>> => Adjacent(h, Head(plan'[j]))
      /\ plan'[j] = <<>> => Ends(h)
  BY JobAdvances
<1>2. Ends(h) => h \notin {Indexing, Closing, Opening}
  BY DEF Ends, Indexing, Closing, Opening, Step
<1>3. /\ plan'[j] # <<>> => /\ h = Indexing <=> Head(plan'[j]) = Closing
                            /\ h = Closing <=> Head(plan'[j]) = Opening
                            /\ h = Opening <=> Head(plan'[j]) = Committing
      /\ h \in {Indexing, Closing, Opening} => plan'[j] # <<>>
  BY <1>1, <1>2 DEF Adjacent
<1>4. QED  BY <1>1, <1>3, Phases DEF Phase

(* The keys an identity column gives to the rows of one INSERT. *)
LEMMA KeysDiffer ==
  ASSUME NEW F, F \subseteq Nat, IsFiniteSet(F), next \in Nat
  PROVE  /\ Cardinality(F) \in Nat
         /\ \A f \in F : KeyOf(f, F) \in next .. next + Cardinality(F) - 1
         /\ \A f, g \in F : KeyOf(f, F) = KeyOf(g, F) => f = g
<1> DEFINE Below(f) == {g \in F : g < f}
<1>1. Cardinality(F) \in Nat
  BY FS_CardinalityType
<1>2. \A f \in F : Below(f) \subseteq F /\ IsFiniteSet(Below(f)) /\ Cardinality(Below(f)) \in Nat
  BY FS_Subset, FS_CardinalityType
<1>3. ASSUME NEW f \in F  PROVE  Cardinality(Below(f)) < Cardinality(F)
  <2>1. f \notin Below(f) /\ f \in F
    OBVIOUS
  <2>2. Cardinality(Below(f)) <= Cardinality(F) /\ Cardinality(Below(f)) # Cardinality(F)
    BY <1>2, <2>1, FS_Subset
  <2>3. QED  BY <1>1, <1>2, <2>2
<1>4. ASSUME NEW f \in F, NEW g \in F, f < g
      PROVE  Cardinality(Below(f)) < Cardinality(Below(g))
  <2>1. Below(f) \in SUBSET Below(g)
    <3> SUFFICES ASSUME NEW h \in F, h < f  PROVE  h < g
      OBVIOUS
    <3>1. f \in Nat /\ g \in Nat /\ h \in Nat
      OBVIOUS
    <3>2. QED  BY <1>4, <3>1
  <2>2. f \notin Below(f) /\ f \in Below(g)
    BY <1>4
  <2> HIDE DEF Below
  <2>3. Cardinality(Below(f)) <= Cardinality(Below(g)) /\ Cardinality(Below(f)) # Cardinality(Below(g))
    BY <1>2, <2>1, <2>2, FS_Subset
  <2>4. QED  BY <1>2, <2>3
<1>5. \A f \in F : KeyOf(f, F) = next + Cardinality(Below(f))
  BY DEF KeyOf
<1> HIDE DEF Below
<1>6. \A f \in F : KeyOf(f, F) \in next .. next + Cardinality(F) - 1
  BY <1>1, <1>2, <1>3, <1>5
<1>7. ASSUME NEW f \in F, NEW g \in F, KeyOf(f, F) = KeyOf(g, F)  PROVE  f = g
  <2>1. ~(f < g) /\ ~(g < f)
    BY <1>2, <1>4, <1>5, <1>7
  <2>2. QED  BY <2>1
<1>8. QED  BY <1>1, <1>6, <1>7

(* Steps that write nothing of dim_fan; one job may come to share it when   *)
(* nobody writes it.                                                        *)
LEMMA DimQuiet ==
  ASSUME DimInv, UNCHANGED <<golden, dim, next, txn>>,
         raw' \in Snapshots, stg' \in Snapshots, ident' \in Snapshots, torn' \subseteq Jobs,
         \A i \in Jobs : \/ Phase(plan'[i]) = Phase(plan[i])
                        \/ /\ Phase(plan[i]) = "outside" /\ Phase(plan'[i]) = "sharing"
                           /\ \A k \in Jobs \ {i} : ~txn[k].on
  PROVE  DimInv'
<1>1. DimTypes' /\ KeysOK' /\ OneCurrent'
  BY DEF DimInv, DimTypes, KeysOK, OneCurrent, Current
<1>2. ToClose' = ToClose /\ \A j \in Jobs : Visible(j)' = Visible(j)
  BY DEF ToClose, Visible, Current, Closable
<1>3. \A i \in Jobs : /\ Writing(plan'[i]) <=> Writing(plan[i])
                      /\ Writing(plan[i]) => Phase(plan'[i]) = Phase(plan[i])
                      /\ Phase(plan'[i]) = "opening" <=> Phase(plan[i]) = "opening"
                      /\ Phase(plan'[i]) = "committing" <=> Phase(plan[i]) = "committing"
  BY DEF Writing
<1>4. ASSUME NEW j \in Jobs  PROVE  TxnOK(j)' /\ OpenedOK(j)'
  <2>1. TxnOK(j) /\ OpenedOK(j)
    BY DEF DimInv
  <2>2. TxnOK(j)'
    BY <1>2, <1>3, <2>1 DEF TxnOK
  <2>3. OpenedOK(j)'
    BY <1>2, <2>1 DEF OpenedOK
  <2>4. QED  BY <2>2, <2>3
<1>5. ASSUME NEW j \in Jobs, Writing(plan'[j]), NEW k \in Jobs \ {j}
      PROVE  Phase(plan'[k]) = "outside"
  <2>1. Writing(plan[j]) /\ TxnOK(j) /\ Alone(j)
    BY <1>3, <1>5 DEF DimInv
  <2>2. txn[j].on /\ Phase(plan[k]) = "outside"
    BY <2>1 DEF TxnOK, Alone
  <2>3. QED  BY <2>2
<1>6. QED  BY <1>1, <1>4, <1>5 DEF DimInv, Alone

(* Afterwards nobody is in a dim_fan transaction. *)
LEMMA DimOutside ==
  ASSUME DimTypes', KeysOK', OneCurrent',
         \A j \in Jobs : ~Writing(plan'[j]) /\ txn'[j] = NoTxn
  PROVE  DimInv'
<1>1. ASSUME NEW j \in Jobs
      PROVE  /\ ~Writing(plan'[j]) /\ txn'[j] = NoTxn
             /\ ~txn'[j].on /\ txn'[j].opened = {}
  BY DEF NoTxn
<1>2. ASSUME NEW j \in Jobs  PROVE  TxnOK(j)' /\ OpenedOK(j)' /\ Alone(j)'
  BY <1>1 DEF TxnOK, OpenedOK, Alone, Writing
<1>3. QED  BY <1>2 DEF DimInv

(* Afterwards nobody but j is. *)
LEMMA DimOnly ==
  ASSUME DimTypes', KeysOK', OneCurrent', NEW j \in Jobs, TxnOK(j)', OpenedOK(j)',
         \A i \in Jobs \ {j} : Phase(plan'[i]) = "outside" /\ txn'[i] = NoTxn
  PROVE  DimInv'
<1>1. ASSUME NEW i \in Jobs \ {j}
      PROVE  /\ ~Writing(plan'[i]) /\ Phase(plan'[i]) = "outside" /\ txn'[i] = NoTxn
             /\ ~txn'[i].on /\ txn'[i].opened = {}
  BY DEF NoTxn, Writing
<1>2. ASSUME NEW i \in Jobs  PROVE  TxnOK(i)' /\ OpenedOK(i)' /\ Alone(i)'
  BY <1>1 DEF TxnOK, OpenedOK, Alone, Writing
<1>3. QED  BY <1>2 DEF DimInv

(* While j writes dim_fan. *)
LEMMA Exclusive ==
  ASSUME DimInv, NEW j \in Jobs, Writing(plan[j]), NEW i \in Jobs \ {j}
  PROVE  Phase(plan[i]) = "outside" /\ txn[i] = NoTxn
  BY DEF DimInv, Alone, TxnOK, Writing

LEMMA DimInit == Init => DimInv
<1> SUFFICES ASSUME Init  PROVE  DimInv
  OBVIOUS
<1>1. DimTypes /\ KeysOK /\ OneCurrent
  <2>1. /\ raw \in Snapshots /\ stg = raw /\ ident = raw /\ next = 1 /\ torn = {}
        /\ golden = [f \in {} |-> 0] /\ dim = {} /\ txn = [j \in Jobs |-> NoTxn]
    BY DEF Init
  <2>2. DOMAIN golden = {} /\ IsFiniteSet(DOMAIN golden)
    BY <2>1, FS_EmptySet
  <2>3. NoTxn \in [on : BOOLEAN, closed : SUBSET Nat, opened : SUBSET Version]
    BY DEF NoTxn
  <2>4. txn \in [Jobs -> [on : BOOLEAN, closed : SUBSET Nat, opened : SUBSET Version]]
    BY <2>1, <2>3
  <2>5. DOMAIN golden \subseteq Nat /\ dim \subseteq Version /\ next \in Nat \ {0}
    BY <2>1, <2>2
  <2>6. \A f \in DOMAIN golden : golden[f].attr \in Attrs /\ golden[f].n \in Nat
    BY <2>2
  <2>7. DimTypes
    BY <2>1, <2>2, <2>4, <2>5, <2>6 DEF DimTypes
  <2>8. QED  BY <2>1, <2>7 DEF KeysOK, OneCurrent, Current
<1>2. ASSUME NEW j \in Jobs
      PROVE  /\ ~Writing(plan[j]) /\ Phase(plan[j]) = "outside" /\ txn[j] = NoTxn
             /\ ~txn[j].on /\ txn[j].opened = {}
  BY DEF Init, Phase, Writing, NoTxn
<1>3. ASSUME NEW j \in Jobs  PROVE  TxnOK(j) /\ OpenedOK(j) /\ Alone(j)
  BY <1>2 DEF TxnOK, OpenedOK, Alone
<1>4. QED  BY <1>1, <1>3 DEF DimInv

LEMMA DimRebuild ==
  ASSUME DimInv, NEW S, Rebuild(S)
  PROVE  DimInv'
<1>1. DimTypes' /\ KeysOK' /\ OneCurrent'
  <2>1. UNCHANGED <<raw, stg, ident, golden, txn, torn>>
        /\ ((dim' = {} /\ next' = 1) \/ UNCHANGED <<dim, next>>)
    BY DEF Rebuild
  <2>2. QED  BY <2>1 DEF DimInv, DimTypes, KeysOK, OneCurrent, Current
<1>2. \A j \in Jobs : plan[j] = <<>> /\ plan' = plan /\ txn' = txn
  BY DEF Rebuild
<1>3. \A j \in Jobs : ~Writing(plan'[j]) /\ txn'[j] = NoTxn
  BY <1>2 DEF DimInv, TxnOK, Phase, Writing
<1>4. QED  BY <1>1, <1>3, DimOutside

LEMMA DimUnify ==
  ASSUME FlowTypes, DimInv, NEW j \in Jobs, Unify(j)
  PROVE  DimInv'
<1> DEFINE m == Head(plan[j]).name
           fan == ident.fan[m]
<1>1. /\ plan[j] # <<>> /\ Head(plan[j]).kind = "unify" /\ Advance(j)
      /\ \A k \in Jobs : ~txn[k].on
      /\ golden' = [f \in {fan[r] : r \in Staged(ident)} |->
                      [attr |-> ident.attr[f],
                       n |-> Cardinality({r \in Staged(ident) : fan[r] = f})]]
      /\ UNCHANGED <<raw, stg, ident, dim, next, txn, torn>>
  BY DEF Unify, At, InDimFan
<1>2. m \in Modes
  BY <1>1, JobAdvances, StepShapes
<1>3. /\ ident \in Snapshots /\ Staged(ident) \subseteq Nat /\ IsFiniteSet(Staged(ident))
      /\ \A r \in Staged(ident) : fan[r] \in Staged(ident)
  BY <1>2, SnapshotsAssumption DEF DimInv, DimTypes, Staged
<1>4. /\ DOMAIN golden' \subseteq Staged(ident)
      /\ \A f \in DOMAIN golden' :
           /\ golden'[f].attr = ident.attr[f]
           /\ golden'[f].n = Cardinality({r \in Staged(ident) : fan[r] = f})
  BY <1>1, <1>3
<1>5. DOMAIN golden' \subseteq Nat /\ IsFiniteSet(DOMAIN golden')
  BY <1>3, <1>4, FS_Subset
<1>6. ASSUME NEW f \in DOMAIN golden'  PROVE  golden'[f].attr \in Attrs /\ golden'[f].n \in Nat
  <2>1. ident.attr[f] \in Attrs
    BY <1>3, <1>4 DEF Attrs, Staged
  <2> DEFINE R == {r \in Staged(ident) : fan[r] = f}
  <2>2. R \in SUBSET Staged(ident)
    OBVIOUS
  <2> HIDE DEF R
  <2>3. Cardinality(R) \in Nat
    BY <1>3, <2>2, FS_Subset, FS_CardinalityType
  <2>4. QED  BY <1>4, <2>1, <2>3 DEF R
<1>7. DimTypes' /\ KeysOK' /\ OneCurrent'
  BY <1>1, <1>5, <1>6 DEF DimInv, DimTypes, KeysOK, OneCurrent, Current
<1>8. \A i \in Jobs : ~Writing(plan[i]) /\ txn[i] = NoTxn
  BY <1>1 DEF DimInv, TxnOK
<1>9. Head(plan[j]) \notin {Indexing, Closing, Opening, Committing}
  BY <1>1 DEF Indexing, Closing, Opening, Committing, Step
<1>10. \A i \in Jobs : ~Writing(plan'[i]) /\ txn'[i] = NoTxn
  BY <1>1, <1>8, <1>9, PhaseAdvances DEF Writing
<1>11. QED  BY <1>7, <1>10, DimOutside

(* The transaction of a job that raises or is killed is rolled back. *)
LEMMA DimBreak ==
  ASSUME FlowTypes, DimInv, NEW j \in Jobs, Raise(j) \/ Fail(j) \/ Kill(j)
  PROVE  DimInv'
<1>1. /\ plan' = [plan EXCEPT ![j] = <<>>] /\ txn' = [txn EXCEPT ![j] = NoTxn]
      /\ UNCHANGED <<raw, stg, ident, golden, dim, next, torn>>
  BY DEF Raise, Fail, Kill, MarkedFailed, data
<1>2. /\ Phase(plan'[j]) = "outside" /\ txn'[j] = NoTxn
      /\ \A i \in Jobs \ {j} : plan'[i] = plan[i] /\ txn'[i] = txn[i]
      /\ NoTxn.on = FALSE /\ NoTxn.opened = {} /\ NoTxn.closed = {}
      /\ NoTxn \in [on : BOOLEAN, closed : SUBSET Nat, opened : SUBSET Version]
  BY <1>1 DEF FlowTypes, DimInv, DimTypes, Phase, NoTxn
<1>3. DimTypes' /\ KeysOK' /\ OneCurrent'
  BY <1>1, <1>2 DEF DimInv, DimTypes, KeysOK, OneCurrent, Current
<1>4. ToClose' = ToClose /\ \A i \in Jobs \ {j} : Visible(i)' = Visible(i)
  BY <1>1, <1>2 DEF ToClose, Visible, Current, Closable
<1>5. ASSUME NEW i \in Jobs  PROVE  TxnOK(i)' /\ OpenedOK(i)' /\ Alone(i)'
  <2>1. CASE i = j
    BY <1>2, <2>1 DEF TxnOK, OpenedOK, Alone, Writing
  <2>2. CASE i # j
    BY <1>1, <1>2, <1>4, <2>2 DEF DimInv, TxnOK, OpenedOK, Alone, Writing
  <2>3. QED  BY <2>1, <2>2
<1>6. QED  BY <1>3, <1>5 DEF DimInv

(* CREATE INDEX shares dim_fan when nobody writes it. *)
LEMMA DimShare ==
  ASSUME FlowTypes, DimInv, NEW j \in Jobs, LockTable(j)
  PROVE  DimInv'
<1>1. /\ plan[j] # <<>> /\ Head(plan[j]) = Indexing /\ Advance(j)
      /\ \A k \in Jobs \ {j} : ~txn[k].on
      /\ UNCHANGED <<raw, stg, ident, golden, dim, next, txn, torn>>
  BY DEF LockTable, AtModel, Indexing, InDimFan, data
<1>2. /\ Phase(plan[j]) = "outside" /\ Phase(plan'[j]) = "sharing"
      /\ \A i \in Jobs \ {j} : Phase(plan'[i]) = Phase(plan[i])
  BY <1>1, PhaseAdvances
<1>3. raw' \in Snapshots /\ stg' \in Snapshots /\ ident' \in Snapshots /\ torn' \subseteq Jobs
  BY <1>1 DEF DimInv, DimTypes
<1>4. QED  BY <1>1, <1>2, <1>3, DimQuiet

LEMMA DimClose ==
  ASSUME FlowTypes, DimInv, NEW j \in Jobs, CloseVersions(j)
  PROVE  DimInv'
<1>1. /\ plan[j] # <<>> /\ Head(plan[j]) = Closing /\ Advance(j)
      /\ \A k \in Jobs \ {j} : ~Sharing(k)
      /\ txn' = [txn EXCEPT ![j] = [on |-> TRUE, closed |-> ToClose, opened |-> {}]]
      /\ UNCHANGED <<raw, stg, ident, golden, dim, next, torn>>
  BY DEF CloseVersions, Unshared, AtModel, Closing, ToClose, data
<1>2. /\ Phase(plan'[j]) = "opening"
      /\ \A i \in Jobs \ {j} : Phase(plan'[i]) = Phase(plan[i])
  BY <1>1, PhaseAdvances
<1>3. ToClose \in SUBSET Nat
  BY DEF DimInv, DimTypes, Version, ToClose, Current
<1>4. /\ txn'[j].on = TRUE /\ txn'[j].closed = ToClose /\ txn'[j].opened = {}
      /\ \A i \in Jobs \ {j} : txn'[i] = txn[i]
      /\ txn' \in [Jobs -> [on : BOOLEAN, closed : SUBSET Nat, opened : SUBSET Version]]
  BY <1>1, <1>3 DEF DimInv, DimTypes
<1>5. DimTypes' /\ KeysOK' /\ OneCurrent'
  BY <1>1, <1>4 DEF DimInv, DimTypes, KeysOK, OneCurrent, Current
<1>6. ToClose' = ToClose
  BY <1>1 DEF ToClose, Current, Closable
<1>7. TxnOK(j)' /\ OpenedOK(j)'
  BY <1>2, <1>4, <1>6 DEF TxnOK, OpenedOK, Writing
<1>8. ASSUME NEW i \in Jobs \ {j}  PROVE  Phase(plan'[i]) = "outside" /\ txn'[i] = NoTxn
  <2>1. ~AtModel(i, "close") /\ ~txn[i].on
    BY <1>1 DEF Sharing, InDimFan
  <2>2. Phase(plan[i]) # "sharing"
    BY <2>1 DEF Phase, AtModel, Closing
  <2>3. ~Writing(plan[i]) /\ txn[i] = NoTxn
    BY <2>1 DEF DimInv, TxnOK
  <2>4. Phase(plan[i]) = "outside"
    BY <2>2, <2>3 DEF Phase, Writing
  <2>5. QED  BY <1>2, <1>4, <2>3, <2>4
<1>9. QED  BY <1>5, <1>7, <1>8, DimOnly

(* What is inserted, and that nothing in dim_fan has its keys. *)
LEMMA DimOpen ==
  ASSUME FlowTypes, DimInv, NEW j \in Jobs, OpenVersions(j)
  PROVE  DimInv'
<1> DEFINE fans == Missing(j)
           Row(f) == [key |-> KeyOf(f, fans), fan |-> f, attr |-> golden[f].attr,
                      n |-> golden[f].n, current |-> TRUE]
           rows == {Row(f) : f \in fans}
<1>1. /\ plan[j] # <<>> /\ Head(plan[j]) = Opening /\ Advance(j)
      /\ txn' = [txn EXCEPT ![j].opened = rows]
      /\ next' = next + Cardinality(fans)
      /\ UNCHANGED <<raw, stg, ident, golden, dim, torn>>
  BY DEF OpenVersions, AtModel, Opening
<1>2. DimTypes /\ KeysOK /\ OneCurrent /\ TxnOK(j)
  BY DEF DimInv
<1>3. /\ Phase(plan[j]) = "opening" /\ Phase(plan'[j]) = "committing"
      /\ Writing(plan[j]) /\ Writing(plan'[j])
      /\ \A i \in Jobs \ {j} : Phase(plan'[i]) = Phase(plan[i])
  BY <1>1, PhaseAdvances, Phases DEF Writing
<1>4. fans \in SUBSET DOMAIN golden /\ fans \subseteq Nat /\ IsFiniteSet(fans) /\ next \in Nat \ {0}
  <2>1. fans \in SUBSET DOMAIN golden
    BY DEF Missing
  <2>2. IsFiniteSet(DOMAIN golden) /\ DOMAIN golden \subseteq Nat /\ next \in Nat \ {0}
    BY <1>2 DEF DimTypes
  <2> HIDE DEF fans
  <2>3. QED  BY <2>1, <2>2, FS_Subset
<1>5. /\ Cardinality(fans) \in Nat
      /\ \A f \in fans : KeyOf(f, fans) \in next .. next + Cardinality(fans) - 1
      /\ \A f, g \in fans : KeyOf(f, fans) = KeyOf(g, fans) => f = g
  <2> HIDE DEF fans
  <2>1. QED  BY <1>4, KeysDiffer
<1>6. /\ next' \in Nat \ {0} /\ next' >= next
      /\ \A o \in rows : /\ o \in Version /\ o.current /\ o.fan \in fans
                         /\ o.key \in next .. next' - 1
                         /\ o.attr = golden[o.fan].attr
                         /\ \A p \in rows : o.key = p.key \/ o.fan = p.fan => o = p
      /\ \A f \in fans : \E o \in rows : o.fan = f
  <2> HIDE DEF fans
  <2>1. next' \in Nat \ {0} /\ next' >= next
    BY <1>1, <1>4, <1>5
  <2>2. ASSUME NEW f \in fans
        PROVE  /\ Row(f) \in Version /\ Row(f).current /\ Row(f).fan = f
               /\ Row(f).key = KeyOf(f, fans) /\ Row(f).key \in next .. next' - 1
               /\ Row(f).attr = golden[f].attr
    <3>1. golden[f].attr \in Attrs /\ golden[f].n \in Nat /\ f \in Nat
      BY <1>2, <1>4 DEF DimTypes
    <3>2. KeyOf(f, fans) \in next .. next' - 1 /\ KeyOf(f, fans) \in Nat
      BY <1>1, <1>4, <1>5
    <3>3. QED  BY <3>1, <3>2 DEF Version
  <2> HIDE DEF Row
  <2>3. QED  BY <1>5, <2>1, <2>2
<1> HIDE DEF rows, Row
<1>7. /\ txn'[j].on = txn[j].on /\ txn'[j].closed = txn[j].closed /\ txn'[j].opened = rows
      /\ \A i \in Jobs \ {j} : txn'[i] = txn[i]
      /\ txn' \in [Jobs -> [on : BOOLEAN, closed : SUBSET Nat, opened : SUBSET Version]]
  <2>1. rows \in SUBSET Version
    BY <1>6
  <2>2. txn \in [Jobs -> [on : BOOLEAN, closed : SUBSET Nat, opened : SUBSET Version]]
    BY <1>2 DEF DimTypes
  <2>3. QED  BY <1>1, <2>1, <2>2
<1>8. DimTypes' /\ KeysOK' /\ OneCurrent'
  <2>1. DimTypes'
    BY <1>1, <1>2, <1>6, <1>7 DEF DimTypes
  <2>2. KeysOK'
    BY <1>1, <1>2, <1>4, <1>6 DEF KeysOK
  <2>3. OneCurrent'
    BY <1>1, <1>2 DEF OneCurrent, Current
  <2>4. QED  BY <2>1, <2>2, <2>3
<1>9. ToClose' = ToClose /\ Visible(j)' = Visible(j)
  BY <1>1, <1>7 DEF ToClose, Visible, Current, Closable
<1>10. TxnOK(j)'
  <2>1. \A f \in DOMAIN golden : f \in fans \/ \E v \in Visible(j) : v.fan = f
    BY DEF Missing
  <2>2. \A f \in DOMAIN golden : \E v \in Visible(j) \cup rows : v.fan = f
    BY <1>6, <2>1
  <2> HIDE DEF fans
  <2>3. QED  BY <1>1, <1>2, <1>3, <1>7, <1>9, <2>2 DEF TxnOK
<1>11. OpenedOK(j)'
  <2>1. \A o \in rows : \A v \in dim : v.key < o.key
    <3> SUFFICES ASSUME NEW o \in rows, NEW v \in dim  PROVE  v.key < o.key
      OBVIOUS
    <3>1. v.key \in 1 .. next - 1 /\ o.key \in next .. next' - 1 /\ next \in Nat /\ next' \in Nat
      BY <1>2, <1>4, <1>6 DEF KeysOK
    <3>2. QED  BY <3>1
  <2>2. \A o \in rows, v \in dim : v.key # o.key
    <3> SUFFICES ASSUME NEW o \in rows, NEW v \in dim, v.key = o.key  PROVE  FALSE
      OBVIOUS
    <3>1. v.key \in Nat /\ v.key < v.key
      BY <1>2, <2>1 DEF DimTypes, Version
    <3>2. QED  BY <3>1
  <2>3. \A o \in rows : \A v \in Visible(j) : v.fan # o.fan
    BY <1>6 DEF Missing
  <2>4. \A o \in rows : o.key \in 1 .. next' - 1 /\ o.fan \in DOMAIN golden
    BY <1>4, <1>6
  <2> HIDE DEF fans
  <2>5. QED  BY <1>1, <1>6, <1>7, <1>9, <2>1, <2>2, <2>3, <2>4 DEF OpenedOK
<1>12. \A i \in Jobs \ {j} : Phase(plan'[i]) = "outside" /\ txn'[i] = NoTxn
  BY <1>3, <1>7, Exclusive
<1>13. QED  BY <1>8, <1>10, <1>11, <1>12, DimOnly

(* What a commit makes of a version that is there. *)
After(j, v) ==
  [v EXCEPT
     !.current = v.current /\ v.key \notin txn[j].closed,
     !.n = IF Refreshed(j, v) THEN golden[v.fan].n ELSE v.n]

LEMMA AfterIs ==
  ASSUME DimTypes, NEW j \in Jobs, NEW v \in dim
  PROVE  /\ After(j, v) \in Version
         /\ After(j, v).key = v.key /\ After(j, v).fan = v.fan /\ After(j, v).attr = v.attr
         /\ After(j, v).current <=> v \in Visible(j)
         /\ v \notin Visible(j) => After(j, v).n = v.n
<1>1. v \in Version
  BY DEF DimTypes
<1>2. (v.current /\ v.key \notin txn[j].closed) <=> v \in Visible(j)
  BY DEF Visible, Current
<1>3. (IF Refreshed(j, v) THEN golden[v.fan].n ELSE v.n) \in Nat
  BY <1>1 DEF DimTypes, Refreshed, Version
<1>4. v \notin Visible(j) => ~Refreshed(j, v)
  BY DEF Refreshed
<1> DEFINE c == v.current /\ v.key \notin txn[j].closed
           m == IF Refreshed(j, v) THEN golden[v.fan].n ELSE v.n
<1>5. After(j, v) = [v EXCEPT !.current = c, !.n = m]
  BY DEF After
<1>6. c \in BOOLEAN /\ (c <=> v \in Visible(j)) /\ m \in Nat /\ (v \notin Visible(j) => m = v.n)
  BY <1>1, <1>2, <1>3, <1>4 DEF Version
<1> HIDE DEF c, m
<1>7. QED  BY <1>1, <1>5, <1>6 DEF Version

(* A commit, row by row. *)
LEMMA Commits ==
  ASSUME FlowTypes, DimInv, NEW j \in Jobs, CommitVersions(j)
  PROVE  /\ \A x \in dim' : x \in txn[j].opened \/ \E v \in dim : x = After(j, v)
         /\ \A v \in dim : After(j, v) \in dim'
         /\ txn[j].opened \subseteq dim'
         /\ Phase(plan[j]) = "committing"
         /\ \A i \in Jobs : Phase(plan'[i]) = "outside" /\ txn'[i] = NoTxn
         /\ UNCHANGED <<raw, stg, ident, golden, next, torn>>
<1>1. /\ plan[j] # <<>> /\ Head(plan[j]) = Committing /\ Advance(j)
      /\ dim' = {After(j, v) : v \in dim} \cup txn[j].opened
      /\ txn' = [txn EXCEPT ![j] = NoTxn]
      /\ UNCHANGED <<raw, stg, ident, golden, next, torn>>
  BY DEF CommitVersions, AtModel, Committing, Committed, After
<1>2. /\ txn'[j] = NoTxn /\ \A i \in Jobs \ {j} : txn'[i] = txn[i]
  BY <1>1 DEF DimInv, DimTypes
<1>3. /\ Phase(plan[j]) = "committing" /\ Phase(plan'[j]) = "outside" /\ Writing(plan[j])
      /\ \A i \in Jobs \ {j} : Phase(plan'[i]) = Phase(plan[i])
  BY <1>1, PhaseAdvances, Phases DEF Writing
<1>4. \A i \in Jobs : Phase(plan'[i]) = "outside" /\ txn'[i] = NoTxn
  BY <1>2, <1>3, Exclusive
<1>5. QED  BY <1>1, <1>3, <1>4

LEMMA DimCommit ==
  ASSUME FlowTypes, DimInv, NEW j \in Jobs, CommitVersions(j)
  PROVE  DimInv'
<1> DEFINE opened == txn[j].opened
<1>1. /\ \A x \in dim' : x \in opened \/ \E v \in dim : x = After(j, v)
      /\ \A v \in dim : After(j, v) \in dim'
      /\ opened \subseteq dim'
      /\ \A i \in Jobs : ~Writing(plan'[i]) /\ txn'[i] = NoTxn
      /\ UNCHANGED <<raw, stg, ident, golden, next, torn>>
  BY Commits DEF Writing
<1>2. DimTypes /\ KeysOK /\ OneCurrent /\ TxnOK(j) /\ OpenedOK(j)
  BY DEF DimInv
<1>3. \A v \in dim :
        /\ After(j, v) \in Version
        /\ After(j, v).key = v.key /\ After(j, v).fan = v.fan /\ After(j, v).attr = v.attr
        /\ (After(j, v).current <=> v \in Visible(j))
  BY <1>2, AfterIs
<1>4. /\ NoTxn.on = FALSE /\ NoTxn.opened = {}
      /\ NoTxn \in [on : BOOLEAN, closed : SUBSET Nat, opened : SUBSET Version]
  BY DEF NoTxn
<1>5. DimTypes'
  <2>1. dim' \subseteq Version
    BY <1>1, <1>2, <1>3 DEF DimTypes
  <2>2. txn' \in [Jobs -> [on : BOOLEAN, closed : SUBSET Nat, opened : SUBSET Version]]
    BY <1>2, <1>4 DEF CommitVersions, DimTypes
  <2>3. QED  BY <1>1, <1>2, <2>1, <2>2 DEF DimTypes
<1>6. KeysOK'
  <2>1. \A o \in opened : o.key \in 1 .. next - 1 /\ \A v \in dim : v.key # o.key
    BY <1>2 DEF OpenedOK
  <2>2. \A o, p \in opened : o.key = p.key => o = p
    BY <1>2 DEF OpenedOK
  <2>3. ASSUME NEW x \in dim', NEW y \in dim', x.key = y.key  PROVE  x = y
    <3>1. CASE x \in opened /\ y \in opened
      BY <2>2, <2>3, <3>1
    <3>2. ASSUME NEW v \in dim, NEW w \in dim, x = After(j, v), y = After(j, w)  PROVE  x = y
      <4>1. v.key = w.key
        BY <1>3, <2>3, <3>2
      <4>2. QED  BY <1>2, <3>2, <4>1 DEF KeysOK
    <3>3. ASSUME NEW v \in dim, x = After(j, v), y \in opened  PROVE  FALSE
      BY <1>3, <2>1, <2>3, <3>3
    <3>4. ASSUME NEW v \in dim, y = After(j, v), x \in opened  PROVE  FALSE
      BY <1>3, <2>1, <2>3, <3>4
    <3>5. QED  BY <1>1, <3>1, <3>2, <3>3, <3>4
  <2>4. ASSUME NEW x \in dim'  PROVE  x.key \in 1 .. next' - 1
    <3>1. CASE x \in opened
      BY <1>1, <2>1, <3>1
    <3>2. ASSUME NEW v \in dim, x = After(j, v)  PROVE  x.key \in 1 .. next' - 1
      BY <1>1, <1>2, <1>3, <3>2 DEF KeysOK
    <3>3. QED  BY <1>1, <3>1, <3>2
  <2>5. QED  BY <2>3, <2>4 DEF KeysOK
<1>7. OneCurrent'
  <2> SUFFICES ASSUME NEW x \in dim', NEW y \in dim', x.current, y.current, x.fan = y.fan
               PROVE  x = y
    BY <1>1 DEF OneCurrent, Current
  <2>1. \A o \in opened : \A v \in Visible(j) : v.fan # o.fan
    BY <1>2 DEF OpenedOK
  <2>2. CASE x \in opened /\ y \in opened
    BY <1>2, <2>2 DEF OpenedOK
  <2>3. ASSUME NEW v \in dim, NEW w \in dim, x = After(j, v), y = After(j, w)  PROVE  x = y
    <3>1. v \in Visible(j) /\ w \in Visible(j) /\ v.fan = w.fan
      BY <1>3, <2>3
    <3>2. QED  BY <1>2, <2>3, <3>1 DEF OneCurrent, Visible
  <2>4. ASSUME NEW v \in dim, x = After(j, v), y \in opened  PROVE  FALSE
    <3>1. v \in Visible(j) /\ v.fan = y.fan
      BY <1>3, <2>4
    <3>2. QED  BY <2>1, <2>4, <3>1
  <2>5. ASSUME NEW v \in dim, y = After(j, v), x \in opened  PROVE  FALSE
    <3>1. v \in Visible(j) /\ v.fan = x.fan
      BY <1>3, <2>5
    <3>2. QED  BY <2>1, <2>5, <3>1
  <2>6. QED  BY <1>1, <2>2, <2>3, <2>4, <2>5
<1>8. QED  BY <1>1, <1>5, <1>6, <1>7, DimOutside

LEMMA DimStep == FlowsInv /\ DimInv /\ [Next]_vars => DimInv'
<1> SUFFICES ASSUME FlowsInv, DimInv, [Next]_vars  PROVE  DimInv'
  OBVIOUS
<1>1. /\ FlowTypes /\ raw \in Snapshots /\ stg \in Snapshots /\ ident \in Snapshots
      /\ torn \subseteq Jobs
  BY DEF FlowsInv, DimInv, DimTypes
<1>2. CASE UNCHANGED vars
  BY <1>1, <1>2, DimQuiet DEF vars, data
<1>3. CASE Ingest
  BY <1>1, <1>3, DimQuiet DEF Ingest, data
<1>4. ASSUME NEW S \in Rebuilds, Rebuild(S)  PROVE  DimInv'
  BY <1>4, DimRebuild
<1>5. ASSUME NEW j \in Jobs, Start(j) \/ StageSome(j) \/ JobStep(j) \/ Fail(j) \/ Kill(j)
      PROVE  DimInv'
  <2> DEFINE h == Head(plan[j])
  <2>1. CASE Start(j)
    <3>1. PICK c \in Commands : plan' = [plan EXCEPT ![j] = c]
      BY <2>1 DEF Start
    <3>2. c # <<>> /\ Head(c) \notin {Closing, Opening, Committing}
      <4>1. c # <<>> /\ Begins(Head(c))
        BY CommandPlan
      <4>2. QED  BY <4>1 DEF Begins, Closing, Opening, Committing, Step
    <3>3. \A i \in Jobs : Phase(plan'[i]) = Phase(plan[i])
      BY <1>1, <2>1, <3>1, <3>2 DEF FlowTypes, Start, Phase
    <3>4. QED  BY <1>1, <2>1, <3>3, DimQuiet DEF Start, data
  <2>2. ASSUME plan[j] # <<>>, Advance(j), h \notin {Indexing, Closing, Opening, Committing},
               UNCHANGED <<golden, dim, next, txn>>, torn' \in {torn, torn \ {j}},
               raw' = raw, stg' \in Snapshots, ident' \in {ident, stg}
        PROVE  DimInv'
    <3>1. \A i \in Jobs : Phase(plan'[i]) = Phase(plan[i])
      BY <1>1, <2>2, PhaseAdvances
    <3>2. QED  BY <1>1, <2>2, <3>1, DimQuiet
  <2>3. \A n \in {"stg", "ident", "tickets", "email", "mart"} :
          AtModel(j, n) => plan[j] # <<>> /\ h \notin {Indexing, Closing, Opening, Committing}
    BY DEF AtModel, Indexing, Closing, Opening, Committing, Step
  <2>4. \A k \in {"start", "finish", "grant", "check", "enforce"} :
          At(j, k) => plan[j] # <<>> /\ h \notin {Indexing, Closing, Opening, Committing}
    BY DEF At, Indexing, Closing, Opening, Committing, Step
  <2>5. CASE StartRun(j) \/ FinishRun(j) \/ RunCheck(j) \/ EnforceGate(j) \/ Grant(j)
    BY <1>1, <2>2, <2>4, <2>5 DEF StartRun, FinishRun, RunCheck, EnforceGate, Grant, data
  <2>6. CASE StageSources(j) \/ StageIdentity(j) \/ LoadTickets(j) \/ LoadEmail(j) \/ BuildMart(j)
    BY <1>1, <2>2, <2>3, <2>6 DEF StageSources, StageIdentity, LoadTickets, LoadEmail, BuildMart
  <2>7. CASE Raise(j) \/ Fail(j) \/ Kill(j)
    BY <1>1, <2>7, DimBreak
  <2>8. CASE Unify(j)
    BY <1>1, <2>8, DimUnify
  <2>9. CASE CloseVersions(j)
    BY <1>1, <2>9, DimClose
  <2>10. CASE OpenVersions(j)
    BY <1>1, <2>10, DimOpen
  <2>11. CASE CommitVersions(j)
    BY <1>1, <2>11, DimCommit
  <2>12. CASE LockTable(j)
    BY <1>1, <2>12, DimShare
  <2>13. CASE StageSome(j)
    BY <1>1, <2>13, DimQuiet DEF StageSome
  <2>14. QED  BY <1>5, <2>1, <2>5, <2>6, <2>7, <2>8, <2>9, <2>10, <2>11, <2>12, <2>13 DEF JobStep
<1>6. QED  BY <1>2, <1>3, <1>4, <1>5 DEF Next

(* The invariant of dim_fan (20_dim_fan.sql): a transaction between its     *)
(* statements has closed exactly what golden_fans asks for, and what it     *)
(* inserts completes the current versions, with keys nobody has.            *)
THEOREM DimInvariant == Spec => []DimInv
BY FlowsInit, DimInit, FlowsStep, DimStep, PTL DEF Spec

(* A fan has one current version, however the transforms, unification and   *)
(* crashes interleave: the SHARE lock of CREATE INDEX (20_dim_fan.sql) lets *)
(* no transaction insert beside another (error__dim_fan_one_current.sql     *)
(* checks it after the fact).                                               *)
THEOREM OneCurrentCorrect == Spec => []OneCurrent
<1>1. DimInv => OneCurrent
  BY DEF DimInv
<1>2. QED  BY <1>1, DimInvariant, PTL

-----------------------------------------------------------------------------
(* dim_fan implements History. *)

LEMMA CommitLoads ==
  ASSUME FlowTypes, DimInv, DimInv', NEW j \in Jobs, CommitVersions(j)
  PROVE  H!Load
<1> DEFINE opened == txn[j].opened
           Open == Recorded(Current(dim))
           Closed == Recorded(Past(dim))
           Rec(v) == [key |-> v.key, fan |-> v.fan, attr |-> v.attr, n |-> v.n]
<1>1. /\ \A x \in dim' : x \in opened \/ \E v \in dim : x = After(j, v)
      /\ \A v \in dim : After(j, v) \in dim'
      /\ opened \subseteq dim'
      /\ Phase(plan[j]) = "committing"
      /\ UNCHANGED golden
  BY Commits
<1>2. /\ DimTypes /\ KeysOK /\ TxnOK(j) /\ OpenedOK(j)
      /\ txn[j].closed = ToClose
      /\ \A v, w \in dim : v.key = w.key => v = w
      /\ \A v, w \in dim' : v.key = w.key => v = w
      /\ \A v, w \in dim' : v.current /\ w.current /\ v.fan = w.fan => v = w
  BY <1>1 DEF DimInv, TxnOK, Writing, KeysOK, OneCurrent, Current
<1>3. \A v \in dim :
        /\ After(j, v).key = v.key /\ After(j, v).fan = v.fan /\ After(j, v).attr = v.attr
        /\ After(j, v).current <=> v \in Visible(j)
        /\ v \notin Visible(j) => After(j, v).n = v.n
  BY <1>2, AfterIs
<1>4. /\ Open = {Rec(v) : v \in {w \in dim : w.current}}
      /\ Closed = {Rec(v) : v \in {w \in dim : ~w.current}}
      /\ Open' = {Rec(v) : v \in {w \in dim' : w.current}}
      /\ Closed' = {Rec(v) : v \in {w \in dim' : ~w.current}}
  BY DEF Recorded, Current, Past
<1>5. \A v : Rec(v).key = v.key /\ Rec(v).fan = v.fan /\ Rec(v).attr = v.attr
  OBVIOUS
<1>6. \A v \in Visible(j) : v \in dim /\ v.current /\ v.key \notin txn[j].closed
  BY DEF Visible, Current
<1>7. \A v \in dim : v.current /\ v \notin Visible(j) => v.key \in txn[j].closed /\ Closable(v)
  <2> SUFFICES ASSUME NEW v \in dim, v.current, v \notin Visible(j)
               PROVE  v.key \in txn[j].closed /\ Closable(v)
    OBVIOUS
  <2>1. v.key \in txn[j].closed
    BY DEF Visible, Current
  <2>2. PICK w \in dim : w.key = v.key /\ Closable(w)
    BY <1>2, <2>1 DEF ToClose, Current
  <2>3. QED  BY <1>2, <2>1, <2>2
<1> HIDE DEF Rec, opened
<1> DEFINE Ending == {v \in Open : v.key \notin H!KeysIn(Open')}
<1>8. /\ \A o \in opened : o.current /\ o.fan \in DOMAIN golden /\ o.attr = golden[o.fan].attr
      /\ \A o \in opened, v \in dim : v.key # o.key /\ v.key < o.key
  BY <1>2 DEF OpenedOK, opened
<1>9. ASSUME NEW v \in dim, v \notin Visible(j)  PROVE  Rec(After(j, v)) = Rec(v)
  BY <1>3, <1>9 DEF Rec
<1>10. \A u : u \in Ending <=> \E v \in dim : v.current /\ v \notin Visible(j) /\ u = Rec(v)
  <2>1. ASSUME NEW v \in dim, v.current, v \notin Visible(j)  PROVE  Rec(v) \in Ending
    <3>1. ASSUME NEW x \in dim', x.current, x.key = v.key  PROVE  FALSE
      <4>1. PICK w \in dim : x = After(j, w)
        BY <1>1, <1>8, <3>1
      <4>2. w = v
        BY <1>2, <1>3, <3>1, <4>1
      <4>3. QED  BY <1>3, <2>1, <3>1, <4>1, <4>2
    <3>2. v.key \notin {u.key : u \in Open'}
      BY <1>4, <1>5, <3>1
    <3>3. QED  BY <1>4, <1>5, <2>1, <3>2 DEF H!KeysIn
  <2>2. ASSUME NEW u \in Ending
        PROVE  \E v \in dim : v.current /\ v \notin Visible(j) /\ u = Rec(v)
    <3>1. PICK v \in dim : v.current /\ u = Rec(v)
      BY <1>4
    <3>2. ASSUME v \in Visible(j)  PROVE  FALSE
      <4>1. Rec(After(j, v)) \in Open' /\ Rec(After(j, v)).key = u.key
        BY <1>1, <1>3, <1>4, <1>5, <3>1, <3>2
      <4>2. QED  BY <4>1 DEF H!KeysIn
    <3>3. QED  BY <3>1, <3>2
  <2>3. QED  BY <2>1, <2>2
<1>11. H!OnePerFan(Open')
  <2> SUFFICES ASSUME NEW v \in dim', NEW w \in dim', v.current, w.current, v.fan = w.fan
               PROVE  Rec(v) = Rec(w)
    BY <1>4, <1>5 DEF H!OnePerFan
  <2>1. QED  BY <1>2
<1>12. Closed' = Closed \cup Ending
  <2>1. ASSUME NEW x \in dim', ~x.current  PROVE  Rec(x) \in Closed \cup Ending
    <3>1. PICK v \in dim : x = After(j, v)
      BY <1>1, <1>8, <2>1
    <3>2. v \notin Visible(j) /\ Rec(x) = Rec(v)
      BY <1>3, <1>9, <2>1, <3>1
    <3> HIDE DEF Ending
    <3>3. QED  BY <1>4, <1>10, <3>1, <3>2
  <2>2. ASSUME NEW v \in dim, v \notin Visible(j)  PROVE  Rec(v) \in Closed'
    <3>1. After(j, v) \in dim' /\ ~After(j, v).current /\ Rec(After(j, v)) = Rec(v)
      BY <1>1, <1>3, <1>9, <2>2
    <3>2. QED  BY <1>4, <3>1
  <2>3. Closed' \subseteq Closed \cup Ending
    BY <1>4, <2>1
  <2>4. Closed \subseteq Closed'
    BY <1>4, <1>6, <2>2
  <2>5. Ending \subseteq Closed'
    <3> HIDE DEF Ending
    <3>1. QED  BY <1>10, <2>2
  <2>6. QED  BY <2>3, <2>4, <2>5
<1>13. ASSUME NEW x \in dim', x.current, NEW v \in dim, v.current
       PROVE  H!SameVersion(Rec(v), Rec(x))
  <2> SUFFICES ASSUME v.key = x.key  PROVE  v.fan = x.fan /\ v.attr = x.attr
    BY <1>5 DEF H!SameVersion
  <2>1. PICK w \in dim : x = After(j, w)
    BY <1>1, <1>8
  <2>2. w = v
    BY <1>2, <1>3, <2>1
  <2>3. QED  BY <1>3, <2>1, <2>2
<1>14. ASSUME NEW x \in dim', x.current, Rec(x).key \notin H!KeysIn(Open)  PROVE  x \in opened
  <2>1. ASSUME NEW v \in dim, x = After(j, v)  PROVE  FALSE
    <3>1. v.current /\ v.key = x.key
      BY <1>3, <1>6, <1>14, <2>1
    <3>2. Rec(v) \in Open /\ Rec(v).key = Rec(x).key
      BY <1>4, <1>5, <3>1
    <3>3. QED  BY <1>14, <3>2 DEF H!KeysIn
  <2>2. QED  BY <1>1, <2>1
<1>15. ASSUME NEW x \in opened
       PROVE  /\ \A v \in Ending : v.fan = Rec(x).fan => v.attr # Rec(x).attr
              /\ \A v \in Open \cup Closed : v.key < Rec(x).key
  <2>1. ASSUME NEW u \in Ending, u.fan = x.fan  PROVE  u.attr # x.attr
    <3>1. PICK v \in dim : v.current /\ v \notin Visible(j) /\ u = Rec(v)
      BY <1>10
    <3>2. Closable(v) /\ v.fan = x.fan /\ u.attr = v.attr
      BY <1>5, <1>7, <2>1, <3>1
    <3>3. QED  BY <1>8, <3>2 DEF Closable
  <2>2. \A u \in Open \cup Closed : u.key < x.key
    BY <1>4, <1>5, <1>8
  <2>3. QED  BY <1>5, <2>1, <2>2
<1>16. ASSUME NEW w \in Open'
       PROVE  /\ \A v \in Open : H!SameVersion(v, w)
              /\ w.key \notin H!KeysIn(Open) =>
                   /\ \A v \in Ending : v.fan = w.fan => v.attr # w.attr
                   /\ \A v \in Open \cup Closed : v.key < w.key
  <2>1. PICK x \in dim' : x.current /\ w = Rec(x)
    BY <1>4
  <2>2. \A v \in Open : H!SameVersion(v, w)
    BY <1>4, <1>13, <2>1
  <2> HIDE DEF Ending, Open, Closed
  <2>3. QED  BY <1>14, <1>15, <2>1, <2>2
<1>17. QED  BY <1>11, <1>12, <1>16 DEF H!Load

LEMMA HistoryStep ==
  FlowsInv /\ DimInv /\ DimInv' /\ [Next]_vars => [H!Next]_(H!versions)
<1> SUFFICES ASSUME FlowsInv, DimInv, DimInv', [Next]_vars
             PROVE  H!Next \/ UNCHANGED H!versions
  OBVIOUS
<1>1. CASE UNCHANGED dim
  BY <1>1 DEF H!versions, Recorded, Current, Past
<1>2. CASE UNCHANGED vars
  BY <1>1, <1>2 DEF vars, data
<1>3. CASE Ingest
  BY <1>1, <1>3 DEF Ingest, data
<1>4. ASSUME NEW S \in Rebuilds, Rebuild(S)
      PROVE  H!Next \/ UNCHANGED H!versions
  <2>1. CASE dim' = {}
    BY <2>1 DEF H!Next, H!Discard, Recorded, Current, Past
  <2>2. QED  BY <1>1, <1>4, <2>1 DEF Rebuild
<1>5. ASSUME NEW j \in Jobs, Start(j) \/ StageSome(j) \/ JobStep(j) \/ Fail(j) \/ Kill(j)
      PROVE  H!Next \/ UNCHANGED H!versions
  <2>1. CASE CommitVersions(j)
    BY <2>1, CommitLoads DEF FlowsInv, H!Next
  <2>2. CASE Start(j) \/ StartRun(j) \/ FinishRun(j) \/ RunCheck(j) \/ EnforceGate(j)
             \/ LockTable(j) \/ CloseVersions(j)
    BY <1>1, <2>2
    DEF Start, StartRun, FinishRun, RunCheck, EnforceGate, LockTable, CloseVersions, data
  <2>3. CASE StageSome(j) \/ StageSources(j) \/ StageIdentity(j) \/ Unify(j) \/ OpenVersions(j)
             \/ LoadTickets(j) \/ LoadEmail(j) \/ BuildMart(j) \/ Grant(j)
    BY <1>1, <2>3
    DEF StageSome, StageSources, StageIdentity, Unify, OpenVersions, LoadTickets, LoadEmail,
        BuildMart, Grant
  <2>4. CASE Raise(j) \/ Fail(j) \/ Kill(j)
    BY <1>1, <2>4 DEF Raise, Fail, Kill, MarkedFailed, data
  <2>5. QED  BY <1>5, <2>1, <2>2, <2>3, <2>4 DEF JobStep
<1>6. QED  BY <1>2, <1>3, <1>4, <1>5 DEF Next

(* dim_fan implements History (30_core/20_dim_fan.sql): its transactions    *)
(* appear as one step, a load that changes nothing opens nothing, the past  *)
(* is never rewritten, and a new version has a key above all earlier ones.  *)
THEOREM HistoryImplemented == Spec => ImplementsHistory
<1>1. Init => H!Init
  BY DEF Init, H!Init, Recorded, Current, Past
<1>2. QED
  BY <1>1, DimInvariant, FlowsInvariant, HistoryStep, PTL DEF Spec, ImplementsHistory, H!Spec

-----------------------------------------------------------------------------
(* The email fact, which joins to a version once and never again.           *)

(* Whoever drops dim_fan drops the fact that refers to it: the identity     *)
(* column starts over, and old keys would get new versions.                 *)
DroppedTogether == \A S \in Rebuilds : "dim_fan" \in S => "email" \in S

EmailInv == DOMAIN email = DOMAIN loaded /\ DOMAIN email \subseteq Subscribers /\ EmailKeepsItsFan

(* The facts stay, and so does the fan of every key. *)
LEMMA EmailQuiet ==
  ASSUME EmailInv, UNCHANGED <<email, loaded>>,
         \A v \in dim : \E w \in dim' : w.key = v.key /\ w.fan = v.fan
  PROVE  EmailInv'
<1>1. ASSUME NEW e \in DOMAIN email
      PROVE  \E w \in dim' : w.key = email[e] /\ w.fan = loaded[e]
  <2>1. PICK v \in dim : v.key = email[e] /\ v.fan = loaded[e]
    BY DEF EmailInv, EmailKeepsItsFan
  <2>2. QED  BY <2>1
<1>2. QED  BY <1>1 DEF EmailInv, EmailKeepsItsFan

LEMMA EmailLoad ==
  ASSUME EmailInv, NEW j \in Jobs, LoadEmail(j)
  PROVE  EmailInv'
<1> DEFINE Events == DOMAIN email \cup NewEvents
           KeyOfEvent(e) == IF e \in DOMAIN email THEN email[e]
                            ELSE (CHOOSE v \in VersionsOf(e) : TRUE).key
           FanOfEvent(e) == IF e \in DOMAIN email THEN loaded[e] ELSE xref[e]
<1>1. /\ email' = [e \in Events |-> KeyOfEvent(e)]
      /\ loaded' = [e \in DOMAIN email' |-> FanOfEvent(e)]
      /\ dim' = dim
  BY DEF LoadEmail
<1>2. NewEvents \subseteq Subscribers /\ \A e \in NewEvents : VersionsOf(e) # {}
  BY DEF NewEvents
<1>3. ASSUME NEW e \in Events
      PROVE  \E v \in dim : v.key = KeyOfEvent(e) /\ v.fan = FanOfEvent(e)
  <2>1. CASE e \in DOMAIN email
    BY <2>1 DEF EmailInv, EmailKeepsItsFan
  <2>2. CASE e \notin DOMAIN email
    <3> DEFINE v == CHOOSE u \in VersionsOf(e) : TRUE
    <3>1. v \in VersionsOf(e)
      BY <1>2, <2>2
    <3> HIDE DEF v
    <3>2. v \in dim /\ v.fan = xref[e]
      BY <3>1 DEF VersionsOf, Current
    <3>3. KeyOfEvent(e) = v.key /\ FanOfEvent(e) = xref[e]
      BY <2>2 DEF v
    <3>4. QED  BY <3>2, <3>3
  <2>3. QED  BY <2>1, <2>2
<1> HIDE DEF KeyOfEvent, FanOfEvent
<1>4. /\ DOMAIN email' = Events /\ DOMAIN loaded' = Events
      /\ \A e \in Events : email'[e] = KeyOfEvent(e) /\ loaded'[e] = FanOfEvent(e)
  BY <1>1
<1>5. Events \subseteq Subscribers
  BY <1>2 DEF EmailInv
<1> HIDE DEF Events
<1>6. QED  BY <1>1, <1>3, <1>4, <1>5 DEF EmailInv, EmailKeepsItsFan

LEMMA EmailStep ==
  ASSUME DroppedTogether, FlowsInv, DimInv, EmailInv, [Next]_vars
  PROVE  EmailInv'
<1>1. CASE UNCHANGED <<dim, email, loaded>>
  BY <1>1, EmailQuiet
<1>2. CASE UNCHANGED vars
  BY <1>1, <1>2 DEF vars, data
<1>3. CASE Ingest
  BY <1>1, <1>3 DEF Ingest, data
<1>4. ASSUME NEW S \in Rebuilds, Rebuild(S)  PROVE  EmailInv'
  <2>1. CASE "email" \in S
    <3>1. email' = [e \in {} |-> 0] /\ loaded' = email'
      BY <1>4, <2>1 DEF Rebuild
    <3>2. DOMAIN email' = {} /\ DOMAIN loaded' = {}
      BY <3>1
    <3>3. QED  BY <3>2 DEF EmailInv, EmailKeepsItsFan
  <2>2. CASE "email" \notin S
    <3>1. "dim_fan" \notin S
      BY <2>2 DEF DroppedTogether
    <3>2. QED  BY <1>1, <1>4, <2>2, <3>1 DEF Rebuild
  <2>3. QED  BY <2>1, <2>2
<1>5. ASSUME NEW j \in Jobs, Start(j) \/ StageSome(j) \/ JobStep(j) \/ Fail(j) \/ Kill(j)
      PROVE  EmailInv'
  <2>1. CASE CommitVersions(j)
    <3>1. \A v \in dim : After(j, v) \in dim' /\ After(j, v).key = v.key /\ After(j, v).fan = v.fan
      BY <2>1, Commits, AfterIs DEF FlowsInv, DimInv
    <3>2. UNCHANGED <<email, loaded>>
      BY <2>1 DEF CommitVersions
    <3>3. QED  BY <3>1, <3>2, EmailQuiet
  <2>2. CASE LoadEmail(j)
    BY <2>2, EmailLoad
  <2>3. CASE Start(j) \/ StartRun(j) \/ FinishRun(j) \/ RunCheck(j) \/ EnforceGate(j)
             \/ LockTable(j) \/ CloseVersions(j)
    BY <1>1, <2>3
    DEF Start, StartRun, FinishRun, RunCheck, EnforceGate, LockTable, CloseVersions, data
  <2>4. CASE StageSome(j) \/ StageSources(j) \/ StageIdentity(j) \/ Unify(j)
             \/ OpenVersions(j) \/ LoadTickets(j) \/ BuildMart(j) \/ Grant(j)
    BY <1>1, <2>4
    DEF StageSome, StageSources, StageIdentity, Unify, OpenVersions, LoadTickets, BuildMart, Grant
  <2>5. CASE Raise(j) \/ Fail(j) \/ Kill(j)
    BY <1>1, <2>5 DEF Raise, Fail, Kill, MarkedFailed, data
  <2>6. QED  BY <1>5, <2>1, <2>2, <2>3, <2>4, <2>5 DEF JobStep
<1>6. QED  BY <1>2, <1>3, <1>4, <1>5 DEF Next

(* An event keeps its fan ("rows already loaded keep their original         *)
(* fan_key", 33_fact_email_engagement.sql): the version it was loaded with  *)
(* is there and is the version of the fan its subscriber had then, whatever *)
(* transforms overlap, if dim_fan is never dropped without the fact.        *)
THEOREM EmailCorrect ==
  ASSUME DroppedTogether
  PROVE  Spec => []EmailKeepsItsFan
<1>1. Init => EmailInv
  BY DEF Init, EmailInv, EmailKeepsItsFan
<1>2. FlowsInv /\ DimInv /\ EmailInv /\ [Next]_vars => EmailInv'
  BY EmailStep
<1>3. EmailInv => EmailKeepsItsFan
  BY DEF EmailInv
<1>4. QED  BY <1>1, <1>2, <1>3, FlowsInvariant, DimInvariant, PTL DEF Spec

-----------------------------------------------------------------------------
(* The types. *)

EmailDomains == DOMAIN email = DOMAIN loaded /\ DOMAIN email \subseteq Subscribers

LEMMA DomainsStep == EmailDomains /\ [Next]_vars => EmailDomains'
<1> SUFFICES ASSUME EmailDomains, [Next]_vars  PROVE  EmailDomains'
  OBVIOUS
<1>1. CASE UNCHANGED <<email, loaded>>
  BY <1>1 DEF EmailDomains
<1>2. ASSUME NEW S \in Rebuilds, Rebuild(S)  PROVE  EmailDomains'
  <2>1. CASE "email" \in S
    <3>1. email' = [e \in {} |-> 0] /\ loaded' = email'
      BY <1>2, <2>1 DEF Rebuild
    <3>2. DOMAIN email' = {} /\ DOMAIN loaded' = {}
      BY <3>1
    <3>3. QED  BY <3>2 DEF EmailDomains
  <2>2. CASE "email" \notin S
    BY <1>1, <1>2, <2>2 DEF Rebuild
  <2>3. QED  BY <2>1, <2>2
<1>3. ASSUME NEW j \in Jobs, LoadEmail(j)  PROVE  EmailDomains'
  <2>1. DOMAIN email' = DOMAIN email \cup NewEvents /\ DOMAIN loaded' = DOMAIN email'
    BY <1>3 DEF LoadEmail
  <2>2. QED  BY <2>1 DEF EmailDomains, NewEvents
<1>4. QED
  BY <1>1, <1>2, <1>3
  DEF Next, vars, data, Ingest, Start, JobStep, StartRun, FinishRun, StageSome, StageSources,
      StageIdentity, Unify, LockTable, CloseVersions, OpenVersions, CommitVersions, LoadTickets, BuildMart, Grant,
      RunCheck, EnforceGate, Raise, Fail, Kill, MarkedFailed

(* Every reachable state is well typed, whatever is dropped: in particular  *)
(* the key of dim_fan is one, although the identity column starts over when *)
(* the table is created again, and only a job between the statements of     *)
(* dim_fan holds a transaction.                                             *)
THEOREM TypeCorrect == Spec => []WTypeOK
<1>1. Init => EmailDomains
  BY DEF Init, EmailDomains
<1>2. FlowsInv /\ DimInv /\ EmailDomains => WTypeOK
  <2> SUFFICES ASSUME FlowsInv, DimInv, EmailDomains  PROVE  WTypeOK
    OBVIOUS
  <2>1. \A v \in dim : v.key \in 1 .. next - 1 /\ v.current \in BOOLEAN
                       /\ \A w \in dim : v.key = w.key => v = w
    BY DEF DimInv, DimTypes, KeysOK, Version
  <2>2. ASSUME NEW j \in Jobs
        PROVE  /\ \A f \in Flows : status[j][f] \in {"none", "running", "completed", "failed"}
               /\ failing[j] \subseteq {Checks[k] : k \in DOMAIN Checks}
               /\ ended[j] \in {"none", "ok", "raised", "killed"}
    <3>1. DOMAIN Checks = 1 .. 4
      BY DEF Checks
    <3>2. QED  BY <3>1 DEF FlowsInv, FlowTypes
  <2>3. ASSUME NEW j \in Jobs, txn[j] # NoTxn  PROVE  AtModel(j, "open") \/ AtModel(j, "commit")
    <3>1. Writing(plan[j])
      BY <2>3 DEF DimInv, TxnOK
    <3>2. QED  BY <3>1 DEF Writing, Phase, AtModel, Opening, Committing
  <2>4. QED  BY <2>1, <2>2, <2>3 DEF FlowsInv, FlowTypes, DimInv, DimTypes, EmailDomains, WTypeOK
<1>3. QED  BY <1>1, <1>2, DomainsStep, FlowsInvariant, DimInvariant, PTL DEF Spec

-----------------------------------------------------------------------------
(* The nightly run: what its steps have done when nothing disturbs it.      *)

(* The k-th step of a nightly run is the next one; after the last, k is     *)
(* Finished.                                                                *)
Finished == Len(Nightly) + 1
Remaining(k) == SubSeq(Nightly, k, Len(Nightly))

TicketsLoaded ==
  UNION {{[order |-> o, key |-> v.key] : v \in VersionsOf(o)} : o \in Orders \cap Staged(stg)}

MartRows ==
  {[key |-> v.key, fan |-> v.fan, attr |-> v.attr,
    tickets |-> Cardinality({t \in tickets : t.key = v.key}),
    emails |-> Cardinality(EmailsOf(v))] : v \in Current(dim)}

(* What the steps before the k-th of a nightly run have done. *)
Unified ==
  /\ xref = raw.fan["full"]
  /\ DOMAIN golden = {xref[r] : r \in Staged(raw)}
  /\ \A f \in DOMAIN golden : golden[f].attr = raw.attr[f]

DimFresh ==
  /\ {v.fan : v \in Current(dim)} = DOMAIN golden
  /\ \A v \in Current(dim) : v.attr = golden[v.fan].attr

OneEach == \A v, w \in Current(dim) : v.fan = w.fan => v = w

Done(j, k) ==
  /\ k > 2 => stg = raw
  /\ k > 3 => ident = raw
  /\ k > 4 => Unified
  /\ k > 8 => DimFresh
  /\ k > 9 => tickets = TicketsLoaded
  /\ k > 10 => Subscribers \cap Staged(raw) \subseteq DOMAIN email
  /\ k > 11 => mart.rows = MartRows
  /\ k > 15 => OneEach \/ "one_current" \in failing[j]
  /\ k = Finished => failing[j] = {}

(* A nightly run in progress, or at its end.                                *)
OnNightly(j) == \E k \in 1 .. Finished : plan[j] = Remaining(k) /\ Done(j, k)

(* A run that gave up, and one that is not a nightly run.                   *)
Broken(j) == plan[j] = <<>> /\ ended[j] \in {"raised", "killed"}
Lacks(p, flow) == \A i \in 1 .. Len(p) : p[i].name # flow
Other(j) ==
  \E flow \in {"transform-warehouse", "quality-gates"} :
    status[j][flow] = "none" /\ Lacks(plan[j], flow)

NightInv ==
  \A j \in Jobs : alone[j] =>
    /\ \A i \in Jobs \ {j} : plan[i] = <<>>
    /\ OnNightly(j) \/ Broken(j) \/ Other(j)
    /\ j \notin torn

(* The steps of a nightly run, one by one. *)
NightlyLength == Nightly \in Seq(Steps) /\ Len(Nightly) = 20
Nth(k) == Nightly[k]
NightlyIs ==
  /\ Nth(1) = Step("start", "transform-warehouse")
  /\ Nth(2) = Step("model", "stg") /\ Nth(3) = Step("model", "ident")
  /\ Nth(4) = Step("unify", "full")
  /\ Nth(5) = Indexing /\ Nth(6) = Closing /\ Nth(7) = Opening /\ Nth(8) = Committing
  /\ Nth(9) = Step("model", "tickets") /\ Nth(10) = Step("model", "email")
  /\ Nth(11) = Step("model", "mart") /\ Nth(12) = Step("grant", "")
  /\ Nth(13) = TransformEnds /\ Nth(14) = GatesStart
  /\ Nth(19) = GatesEnd /\ Nth(20) = Step("enforce", "")
NightlyChecks == \A k \in 15 .. 18 : Nth(k) = Step("check", Checks[k - 14])

LEMMA NightlySteps == NightlyLength /\ NightlyIs /\ NightlyChecks
<1> DEFINE a == Step("start", "transform-warehouse")
           st == Step("model", "stg")
           id == Step("model", "ident")
           u == Step("unify", "full")
           ti == Step("model", "tickets")
           em == Step("model", "email")
           ma == Step("model", "mart")
           g == Step("grant", "")
           e == Step("enforce", "")
           c(k) == Step("check", Checks[k])
           checks == [k \in 1 .. Len(Checks) |-> c(k)]
<1>1. Transform("full") = <<a>> \o <<st, id>> \o <<u>> \o
        (<<Indexing, Closing, Opening, Committing>> \o <<ti, em, ma>>) \o <<g, TransformEnds>>
  BY DEF Transform, Staging, Downstream, DimFan, Indexing, Closing, Opening, Committing, TransformEnds
<1>2. Gates = (<<GatesStart>> \o checks) \o <<GatesEnd, e>>
  BY DEF Gates, GatesStart, GatesEnd
<1>3. Len(Checks) = 4
  BY DEF Checks
<1>4. /\ checks \in Seq(Steps) /\ Len(checks) = 4 /\ \A k \in 1 .. 4 : checks[k] = c(k)
      /\ <<GatesStart>> \in Seq(Steps) /\ <<GatesEnd, e>> \in Seq(Steps)
  BY <1>3 DEF Steps, Flows, GatesStart, GatesEnd
<1> HIDE DEF a, st, id, u, ti, em, ma, g, e, c, checks
<1>5. Transform("full") =
        <<a, st, id, u, Indexing, Closing, Opening, Committing, ti, em, ma, g, TransformEnds>>
  BY <1>1
<1> DEFINE p == <<GatesStart>> \o checks
<1>6. p \in Seq(Steps) /\ Len(p) = 5 /\ p[1] = GatesStart /\ \A k \in 2 .. 5 : p[k] = c(k - 1)
  <2>1. /\ p \in Seq(Steps) /\ Len(p) = 1 + 4
        /\ \A k \in 1 .. 1 + 4 : p[k] = IF k <= 1 THEN <<GatesStart>>[k] ELSE checks[k - 1]
    <3> DEFINE h == <<GatesStart>>
    <3>1. h \in Seq(Steps) /\ Len(h) = 1
      BY <1>4
    <3> HIDE DEF h
    <3>2. /\ h \o checks \in Seq(Steps) /\ Len(h \o checks) = 1 + 4
          /\ \A k \in 1 .. 1 + 4 : (h \o checks)[k] = IF k <= 1 THEN h[k] ELSE checks[k - 1]
      <4>1. /\ h \o checks \in Seq(Steps) /\ Len(h \o checks) = Len(h) + Len(checks)
            /\ \A k \in 1 .. Len(h) + Len(checks) :
                 (h \o checks)[k] = IF k <= Len(h) THEN h[k] ELSE checks[k - Len(h)]
        BY <1>4, <3>1, ConcatProperties
      <4> QED
        BY <1>4, <3>1, <4>1
    <3> QED
      BY <3>2 DEF h
  <2> HIDE DEF p
  <2>2. \A k \in 2 .. 5 : k \in 1 .. 1 + 4 /\ ~(k <= 1) /\ k - 1 \in 1 .. 4
    OBVIOUS
  <2>3. \A k \in 2 .. 5 : p[k] = c(k - 1)
    BY <1>4, <2>1, <2>2
  <2> QED
    BY <2>1, <2>3
<1> HIDE DEF p
<1>7. /\ Gates \in Seq(Steps) /\ Len(Gates) = 7
      /\ Gates[1] = GatesStart /\ \A k \in 2 .. 5 : Gates[k] = c(k - 1)
      /\ Gates[6] = GatesEnd /\ Gates[7] = e
  <2>1. /\ Gates \in Seq(Steps) /\ Len(Gates) = 5 + 2
        /\ \A k \in 1 .. 5 + 2 : Gates[k] = IF k <= 5 THEN p[k] ELSE <<GatesEnd, e>>[k - 5]
    BY <1>2, <1>4, <1>6, ConcatProperties DEF p
  <2> QED
    BY <1>6, <2>1
<1> DEFINE T == Transform("full")
<1>8. /\ T \in Seq(Steps) /\ Len(T) = 13
      /\ T[1] = a /\ T[2] = st /\ T[3] = id /\ T[4] = u
      /\ T[5] = Indexing /\ T[6] = Closing /\ T[7] = Opening /\ T[8] = Committing
      /\ T[9] = ti /\ T[10] = em /\ T[11] = ma /\ T[12] = g /\ T[13] = TransformEnds
  <2>1. T \in Seq(Steps)
    BY TransformPart DEF Part, Modes
  <2> QED
    BY <1>5, <2>1
<1> HIDE DEF T
<1>9. /\ Nightly \in Seq(Steps) /\ Len(Nightly) = 13 + 7
      /\ \A k \in 1 .. 13 + 7 : Nightly[k] = IF k <= 13 THEN T[k] ELSE Gates[k - 13]
  <2>1. Nightly = T \o Gates
    BY DEF Nightly, T
  <2>2. T \in Seq(Steps) /\ Gates \in Seq(Steps) /\ Len(T) = 13 /\ Len(Gates) = 7
    BY <1>7, <1>8
  <2> QED
    <3>1. /\ T \o Gates \in Seq(Steps) /\ Len(T \o Gates) = Len(T) + Len(Gates)
          /\ \A k \in 1 .. Len(T) + Len(Gates) :
               (T \o Gates)[k] = IF k <= Len(T) THEN T[k] ELSE Gates[k - Len(T)]
      BY <2>2, ConcatProperties
    <3> QED
      BY <2>1, <2>2, <3>1
<1>10. \A k \in 1 .. 13 : Nightly[k] = T[k]
  BY <1>9
<1>11. \A k \in 1 .. 7 : Nightly[k + 13] = Gates[k]
  <2>1. \A k \in 1 .. 7 : k + 13 \in 1 .. 13 + 7 /\ ~(k + 13 <= 13) /\ (k + 13) - 13 = k
    OBVIOUS
  <2> QED
    BY <1>9, <2>1
<1>12. \A k \in 15 .. 18 : Nightly[k] = c(k - 14)
  <2>1. \A k \in 15 .. 18 : k - 13 \in 2 .. 5 /\ (k - 13) + 13 = k /\ (k - 13) - 1 = k - 14
    OBVIOUS
  <2>2. \A k \in 15 .. 18 : Nightly[k] = Gates[k - 13]
    BY <1>11, <2>1
  <2> QED
    BY <1>7, <2>1, <2>2
<1>13. Nightly[14] = Gates[1] /\ Nightly[19] = Gates[6] /\ Nightly[20] = Gates[7]
  <2>1. Nightly[1 + 13] = Gates[1] /\ Nightly[6 + 13] = Gates[6] /\ Nightly[7 + 13] = Gates[7]
    BY <1>11
  <2> QED
    BY <2>1
<1>14. /\ Nightly[1] = a /\ Nightly[2] = st /\ Nightly[3] = id /\ Nightly[4] = u
       /\ Nightly[5] = Indexing /\ Nightly[6] = Closing /\ Nightly[7] = Opening
       /\ Nightly[8] = Committing /\ Nightly[9] = ti /\ Nightly[10] = em
       /\ Nightly[11] = ma /\ Nightly[12] = g /\ Nightly[13] = TransformEnds
  BY <1>8, <1>10
<1>15. Nightly[14] = GatesStart /\ Nightly[19] = GatesEnd /\ Nightly[20] = e
  BY <1>7, <1>13
<1>16. \A k \in 15 .. 18 : Nightly[k] = Step("check", Checks[k - 14])
  BY <1>12 DEF c
<1>17. Nightly \in Seq(Steps) /\ Len(Nightly) = 20
  BY <1>9
<1> QED
  BY <1>14, <1>15, <1>16, <1>17 DEF NightlyLength, NightlyIs, NightlyChecks, Nth, a, st, id, u, ti, em, ma, g, e

(* Which step it is says where the run is. *)
Places(k, kind, name) ==
  /\ kind = "start" => k \in {1, 14}
  /\ kind = "model" =>
       /\ name = "stg" => k = 2
       /\ name = "ident" => k = 3
       /\ name = "index" => k = 5
       /\ name = "close" => k = 6
       /\ name = "open" => k = 7
       /\ name = "commit" => k = 8
       /\ name = "tickets" => k = 9
       /\ name = "email" => k = 10
       /\ name = "mart" => k = 11
  /\ kind = "unify" => k = 4 /\ name = "full"
  /\ kind = "grant" => k = 12
  /\ kind = "finish" => k \in {13, 19}
  /\ kind = "check" => k \in 15 .. 18
  /\ k = 15 => name = "one_current"
  /\ kind = "enforce" => k = 20

LEMMA NightlyPlaces == \A k \in 1 .. 20 : Places(k, Nth(k).kind, Nth(k).name)
<1> DEFINE Is(k, kind, name) == Nth(k).kind = kind /\ Nth(k).name = name
<1>1. \A k, kind, name : Nth(k) = Step(kind, name) => Is(k, kind, name)
  BY DEF Step
<1>2. \A k, kind, name : Is(k, kind, name) /\ Places(k, kind, name)
                           => Places(k, Nth(k).kind, Nth(k).name)
  OBVIOUS
<1> HIDE DEF Is
<1>3. /\ Is(1, "start", "transform-warehouse") /\ Is(2, "model", "stg")
      /\ Is(3, "model", "ident") /\ Is(4, "unify", "full")
      /\ Is(9, "model", "tickets") /\ Is(10, "model", "email")
      /\ Is(11, "model", "mart") /\ Is(12, "grant", "") /\ Is(20, "enforce", "")
  BY <1>1, NightlySteps, Zenon DEF NightlyIs
<1>4. /\ Is(5, "model", "index") /\ Is(6, "model", "close") /\ Is(7, "model", "open")
      /\ Is(8, "model", "commit")
      /\ Is(13, "finish", "transform-warehouse") /\ Is(14, "start", "quality-gates")
      /\ Is(19, "finish", "quality-gates")
  BY <1>1, NightlySteps, Zenon
  DEF NightlyIs, Indexing, Closing, Opening, Committing, TransformEnds, GatesStart, GatesEnd
<1>5. /\ Places(1, "start", "transform-warehouse") /\ Places(2, "model", "stg")
      /\ Places(3, "model", "ident") /\ Places(4, "unify", "full")
      /\ Places(9, "model", "tickets") /\ Places(10, "model", "email")
      /\ Places(11, "model", "mart") /\ Places(12, "grant", "") /\ Places(20, "enforce", "")
  BY DEF Places
<1>6. /\ Places(5, "model", "index") /\ Places(6, "model", "close")
      /\ Places(7, "model", "open") /\ Places(8, "model", "commit")
      /\ Places(13, "finish", "transform-warehouse")
      /\ Places(14, "start", "quality-gates") /\ Places(19, "finish", "quality-gates")
  BY DEF Places
<1>7. \A k \in {1, 2, 3, 4, 9, 10, 11, 12, 20} : Places(k, Nth(k).kind, Nth(k).name)
  BY <1>2, <1>3, <1>5, Zenon
<1>8. \A k \in {5, 6, 7, 8, 13, 14, 19} : Places(k, Nth(k).kind, Nth(k).name)
  BY <1>2, <1>4, <1>6, Zenon
<1>9. Checks[1] = "one_current"
  BY DEF Checks
<1>10. \A k \in 15 .. 18 : Nth(k).kind = "check" /\ Nth(k).name = Checks[k - 14]
  BY NightlySteps DEF NightlyChecks, Step
<1>11. \A k \in 15 .. 18 : Places(k, Nth(k).kind, Nth(k).name)
  BY <1>9, <1>10 DEF Places
<1> QED
  BY <1>7, <1>8, <1>11

LEMMA NightlyRest ==
  /\ Finished = 21 /\ Remaining(21) = <<>> /\ Remaining(1) = Nightly
  /\ \A k \in 1 .. 20 : /\ Remaining(k) # <<>> /\ Head(Remaining(k)) = Nth(k)
                        /\ Tail(Remaining(k)) = Remaining(k + 1)
<1>1. Nightly \in Seq(Steps) /\ Len(Nightly) = 20
  BY NightlySteps DEF NightlyLength
<1>2. Remaining(21) = <<>> /\ Remaining(1) = Nightly
  BY <1>1, SubSeqEmpty, SubSeqFull DEF Remaining
<1>3. ASSUME NEW k \in 1 .. 20
      PROVE  /\ Remaining(k) # <<>> /\ Head(Remaining(k)) = Nth(k)
             /\ Tail(Remaining(k)) = Remaining(k + 1)
  <2>1. Len(Remaining(k)) > 0
    <3>1. Len(Remaining(k)) = IF k <= 20 THEN 20 - k + 1 ELSE 0
      <4>1. \A i \in k .. 20 : Nightly[i] \in Steps
        <5>1. \A i \in k .. 20 : i \in 1 .. Len(Nightly)
          BY <1>1
        <5> QED
          BY <1>1, <5>1, ElementOfSeq
      <4> QED
        BY <1>1, <4>1, SubSeqProperties DEF Remaining
    <3> QED
      BY <3>1
  <2>2. Remaining(k) # <<>>
    BY <2>1
  <2>3. k \in 1 .. Len(Nightly) /\ Len(Nightly) \in k .. Len(Nightly)
    BY <1>1
  <2>4. /\ Head(Remaining(k)) = Nth(k)
        /\ Tail(Remaining(k)) = SubSeq(Nightly, k + 1, Len(Nightly))
    BY <1>1, <2>3, HeadTailOfSubSeq DEF Remaining, Nth
  <2> QED
    BY <2>2, <2>4 DEF Remaining
<1>4. Finished = 21
  BY <1>1 DEF Finished
<1> QED
  BY <1>2, <1>3, <1>4

LEMMA LacksJoin ==
  ASSUME NEW p \in Seq(Steps), NEW q \in Seq(Steps), NEW flow, Lacks(p, flow), Lacks(q, flow)
  PROVE  p \o q \in Seq(Steps) /\ Lacks(p \o q, flow)
<1>1. /\ p \o q \in Seq(Steps) /\ Len(p \o q) = Len(p) + Len(q)
      /\ \A i \in 1 .. Len(p) + Len(q) :
           (p \o q)[i] = IF i <= Len(p) THEN p[i] ELSE q[i - Len(p)]
  BY ConcatProperties
<1>2. Len(p) \in Nat /\ Len(q) \in Nat
  BY LenProperties
<1> QED
  BY <1>1, <1>2 DEF Lacks

LEMMA LacksTail ==
  ASSUME NEW p \in Seq(Steps), p # <<>>, NEW flow, Lacks(p, flow)
  PROVE  Lacks(Tail(p), flow) /\ Head(p).name # flow
<1>1. /\ Len(Tail(p)) = Len(p) - 1 /\ Head(p) = p[1] /\ Len(p) \in Nat \ {0}
      /\ \A i \in 1 .. Len(Tail(p)) : Tail(p)[i] = p[i + 1]
  BY HeadTailProperties, EmptySeq
<1> QED
  BY <1>1 DEF Lacks

(* Where a nightly run is that has not ended, and where its next step       *)
(* takes it.                                                                *)
LEMMA NightAt ==
  ASSUME NEW p, NEW k \in 1 .. Finished, p = Remaining(k), p # <<>>
  PROVE  /\ k \in 1 .. 20 /\ k + 1 \in 1 .. Finished
         /\ Head(p) = Nth(k) /\ Places(k, Head(p).kind, Head(p).name)
         /\ Tail(p) = Remaining(k + 1)
<1>1. Finished = 21 /\ Remaining(21) = <<>>
  BY NightlyRest
<1>2. k \in 1 .. 20
  BY <1>1
<1>3. Head(p) = Nth(k) /\ Tail(p) = Remaining(k + 1)
  BY <1>2, NightlyRest
<1>4. Places(k, Nth(k).kind, Nth(k).name)
  BY <1>2, NightlyPlaces
<1> QED
  BY <1>1, <1>2, <1>3, <1>4

LEMMA Onward ==
  ASSUME FlowTypes, NEW j \in Jobs, NEW k \in 1 .. Finished, plan[j] = Remaining(k),
         plan[j] # <<>>, Advance(j), Done(j, k + 1)'
  PROVE  OnNightly(j)'
<1>1. plan'[j] = Remaining(k + 1) /\ k + 1 \in 1 .. Finished
  BY NightAt DEF FlowTypes, Advance
<1> QED
  BY <1>1 DEF OnNightly, Finished

(* What a step leaves of what the earlier ones have done. *)
LEMMA NightKept ==
  /\ UNCHANGED <<raw, xref, golden>> /\ Unified => Unified'
  /\ UNCHANGED <<dim, golden>> /\ DimFresh => DimFresh'
  /\ UNCHANGED <<dim, xref, stg>> => TicketsLoaded' = TicketsLoaded
  /\ UNCHANGED <<dim, tickets, email>> => MartRows' = MartRows
  /\ UNCHANGED dim /\ OneEach => OneEach'
<1>1. UNCHANGED <<raw, xref, golden>> /\ Unified => Unified'
  BY DEF Unified, Staged
<1>2. UNCHANGED <<dim, golden>> /\ DimFresh => DimFresh'
  BY DEF DimFresh, Current
<1>3. UNCHANGED <<dim, xref, stg>> => TicketsLoaded' = TicketsLoaded
  BY DEF TicketsLoaded, VersionsOf, Current, Staged
<1>4. UNCHANGED <<dim, tickets, email>> => MartRows' = MartRows
  BY DEF MartRows, EmailsOf, Current
<1>5. UNCHANGED dim /\ OneEach => OneEach'
  BY DEF OneEach, Current
<1> QED
  BY <1>1, <1>2, <1>3, <1>4, <1>5

(* A commit of dim_fan brings it up to date with golden_fans. *)
LEMMA CommitIsFresh ==
  ASSUME FlowTypes, DimInv, NEW j \in Jobs, CommitVersions(j)
  PROVE  DimFresh'
<1> DEFINE opened == txn[j].opened
<1>1. /\ \A x \in dim' : x \in opened \/ \E v \in dim : x = After(j, v)
      /\ \A v \in dim : After(j, v) \in dim'
      /\ opened \subseteq dim'
      /\ Phase(plan[j]) = "committing" /\ golden' = golden
  BY Commits
<1>2. DimTypes /\ TxnOK(j) /\ OpenedOK(j)
  BY DEF DimInv
<1>3. \A v \in dim :
        /\ After(j, v).fan = v.fan /\ After(j, v).attr = v.attr
        /\ (After(j, v).current <=> v \in Visible(j))
  BY <1>2, AfterIs
<1>4. \A v \in Visible(j) : v \in dim /\ v.fan \in DOMAIN golden /\ v.attr = golden[v.fan].attr
  <2>1. txn[j].closed = ToClose
    BY <1>1, <1>2 DEF TxnOK, Writing
  <2> QED
    BY <2>1 DEF Visible, Current, ToClose, Closable
<1>5. \A o \in opened : o.current /\ o.fan \in DOMAIN golden /\ o.attr = golden[o.fan].attr
  BY <1>2 DEF OpenedOK
<1>6. ASSUME NEW x \in dim', x.current
      PROVE  x.fan \in DOMAIN golden /\ x.attr = golden[x.fan].attr
  BY <1>1, <1>3, <1>4, <1>5, <1>6
<1>7. ASSUME NEW f \in DOMAIN golden
      PROVE  \E x \in dim' : x.current /\ x.fan = f
  <2>1. PICK v \in Visible(j) \cup opened : v.fan = f
    BY <1>1, <1>2 DEF TxnOK
  <2>2. CASE v \in opened
    BY <1>1, <1>5, <2>1, <2>2
  <2>3. CASE v \in Visible(j)
    BY <1>1, <1>3, <1>4, <2>1, <2>3
  <2> QED
    BY <2>1, <2>2, <2>3
<1> QED
  BY <1>1, <1>6, <1>7 DEF DimFresh, Current

(* The steps that write no table of the warehouse, then the others in turn. *)
Quiet == UNCHANGED <<raw, stg, ident, xref, golden, dim, tickets, email, mart>>

LEMMA DoneQuiet ==
  ASSUME NEW j \in Jobs, NEW k \in 1 .. 20, Done(j, k), Quiet, UNCHANGED failing,
         k \notin {2, 3, 4, 8, 9, 10, 11, 15, 20}
  PROVE  Done(j, k + 1)'
<1>0. Finished = 21
  BY NightlyRest
<1>1. /\ Unified => Unified'
      /\ DimFresh => DimFresh'
      /\ TicketsLoaded' = TicketsLoaded
      /\ MartRows' = MartRows
      /\ OneEach => OneEach'
  BY NightKept DEF Quiet
<1>2. Staged(raw)' = Staged(raw)
  BY DEF Staged, Quiet
<1> QED
  BY <1>1, <1>2, <1>0 DEF Done, Quiet

LEMMA DoneStaged ==
  ASSUME NEW j \in Jobs, NEW k \in 1 .. 20, Done(j, k),
         \/ k = 2 /\ stg' = raw /\ UNCHANGED raw
         \/ k = 3 /\ ident' = stg /\ UNCHANGED <<raw, stg>>
  PROVE  Done(j, k + 1)'
<1>0. Finished = 21
  BY NightlyRest
<1> QED
  BY <1>0 DEF Done

LEMMA DoneUnified ==
  ASSUME NEW j \in Jobs, Done(j, 4), Unify(j), Head(plan[j]).name = "full", raw \in Snapshots
  PROVE  Done(j, 5)'
<1>0. Finished = 21
  BY NightlyRest
<1>1. stg = raw /\ ident = raw
  BY DEF Done
<1>2. UNCHANGED <<raw, stg, ident>>
  BY DEF Unify
<1> DEFINE fan == raw.fan["full"]
<1>3. /\ xref' = fan
      /\ golden' = [f \in {fan[r] : r \in Staged(raw)} |->
                     [attr |-> raw.attr[f],
                      n |-> Cardinality({r \in Staged(raw) : fan[r] = f})]]
  BY <1>1 DEF Unify
<1>4. Unified'
  BY <1>2, <1>3 DEF Unified, Staged
<1> QED
  BY <1>1, <1>2, <1>4, <1>0 DEF Done

LEMMA DoneDim ==
  ASSUME FlowTypes, DimInv, NEW j \in Jobs, Done(j, 8), CommitVersions(j)
  PROVE  Done(j, 9)'
<1>0. Finished = 21
  BY NightlyRest
<1>1. DimFresh'
  BY CommitIsFresh
<1>2. UNCHANGED <<raw, stg, ident, xref, golden>>
  BY DEF CommitVersions
<1>3. Unified'
  BY <1>2, NightKept DEF Done
<1> QED
  BY <1>1, <1>2, <1>3, <1>0 DEF Done

LEMMA DoneTickets ==
  ASSUME NEW j \in Jobs, Done(j, 9), LoadTickets(j)
  PROVE  Done(j, 10)'
<1>0. Finished = 21
  BY NightlyRest
<1>1. UNCHANGED <<raw, stg, ident, xref, golden, dim>> /\ tickets' = TicketsLoaded
  BY DEF LoadTickets, TicketsLoaded
<1>2. Unified' /\ DimFresh' /\ TicketsLoaded' = TicketsLoaded
  BY <1>1, NightKept DEF Done
<1> QED
  BY <1>1, <1>2, <1>0 DEF Done

LEMMA DoneEmail ==
  ASSUME NEW j \in Jobs, Done(j, 10), LoadEmail(j), raw \in Snapshots
  PROVE  Done(j, 11)'
<1>0. Finished = 21
  BY NightlyRest
<1>1. /\ UNCHANGED <<raw, stg, ident, xref, golden, dim, tickets>>
      /\ DOMAIN email' = DOMAIN email \cup NewEvents
  BY DEF LoadEmail
<1>2. Unified /\ DimFresh /\ tickets = TicketsLoaded /\ stg = raw /\ ident = raw
  BY DEF Done
<1>3. Unified' /\ DimFresh' /\ TicketsLoaded' = TicketsLoaded
  BY <1>1, <1>2, NightKept
<1>4. DOMAIN xref = Staged(raw)
  BY <1>2, SnapshotsAssumption DEF Unified, Staged, Modes
<1>5. ASSUME NEW e \in Subscribers \cap Staged(raw), e \notin DOMAIN email
      PROVE  e \in NewEvents
  <2>1. xref[e] \in {v.fan : v \in Current(dim)}
    BY <1>2, <1>5 DEF Unified, DimFresh
  <2>2. VersionsOf(e) # {}
    BY <1>4, <2>1 DEF VersionsOf
  <2> QED
    BY <1>2, <1>5, <2>2 DEF NewEvents
<1>6. Subscribers \cap Staged(raw) \subseteq DOMAIN email'
  BY <1>1, <1>5
<1>7. Staged(raw)' = Staged(raw)
  BY <1>1 DEF Staged
<1> QED
  BY <1>1, <1>2, <1>3, <1>6, <1>7, <1>0 DEF Done

LEMMA DoneMart ==
  ASSUME NEW j \in Jobs, Done(j, 11), BuildMart(j)
  PROVE  Done(j, 12)'
<1>0. Finished = 21
  BY NightlyRest
<1>1. /\ UNCHANGED <<raw, stg, ident, xref, golden, dim, tickets, email>>
      /\ mart'.rows = MartRows
  BY DEF BuildMart, MartRows
<1>2. Unified' /\ DimFresh' /\ TicketsLoaded' = TicketsLoaded /\ MartRows' = MartRows
  BY <1>1, NightKept DEF Done
<1>3. Staged(raw)' = Staged(raw)
  BY <1>1 DEF Staged
<1> QED
  BY <1>1, <1>2, <1>3, <1>0 DEF Done

LEMMA DoneChecks ==
  ASSUME FlowTypes, NEW j \in Jobs, NEW k \in 15 .. 18, Done(j, k), RunCheck(j),
         k = 15 => Head(plan[j]).name = "one_current"
  PROVE  Done(j, k + 1)'
<1>0. Finished = 21
  BY NightlyRest
<1>1. Quiet
  BY DEF RunCheck, data, Quiet
<1>2. failing'[j] = IF Passes(Head(plan[j]).name) THEN failing[j]
                    ELSE failing[j] \cup {Head(plan[j]).name}
  BY DEF RunCheck, FlowTypes
<1>3. Passes("one_current") <=> OneEach
  BY DEF Passes, OneEach
<1>4. OneEach \/ "one_current" \in failing'[j]
  BY <1>2, <1>3 DEF Done
<1>5. /\ Unified => Unified'
      /\ DimFresh => DimFresh'
      /\ TicketsLoaded' = TicketsLoaded
      /\ MartRows' = MartRows
      /\ OneEach => OneEach'
  BY <1>1, NightKept DEF Quiet
<1>6. Staged(raw)' = Staged(raw)
  BY <1>1 DEF Staged, Quiet
<1> QED
  BY <1>1, <1>4, <1>5, <1>6, <1>0 DEF Done, Quiet

LEMMA DoneGate ==
  ASSUME NEW j \in Jobs, NEW k \in {19, 20}, Done(j, k), Quiet, UNCHANGED failing,
         k = 20 => failing[j] = {}
  PROVE  Done(j, k + 1)'
<1>0. Finished = 21
  BY NightlyRest
<1>1. /\ Unified => Unified'
      /\ DimFresh => DimFresh'
      /\ TicketsLoaded' = TicketsLoaded
      /\ MartRows' = MartRows
      /\ OneEach => OneEach'
  BY NightKept DEF Quiet
<1>2. Staged(raw)' = Staged(raw)
  BY DEF Staged, Quiet
<1> QED
  BY <1>1, <1>2, <1>0 DEF Done, Quiet

LEMMA Breaks ==
  ASSUME FlowTypes, NEW j \in Jobs, Raise(j) \/ Fail(j) \/ Kill(j)
  PROVE  Broken(j)'
BY DEF FlowTypes, Raise, Fail, Kill, MarkedFailed, Broken

LEMMA NightGoesOn ==
  ASSUME FlowsInv, DimInv, NEW j \in Jobs, OnNightly(j), plan[j] # <<>>, j \notin torn,
         JobStep(j) \/ Fail(j) \/ Kill(j)
  PROVE  OnNightly(j)' \/ Broken(j)'
<1>1. FlowTypes /\ raw \in Snapshots
  BY DEF FlowsInv, DimInv, DimTypes
<1>2. PICK k \in 1 .. Finished : plan[j] = Remaining(k) /\ Done(j, k)
  BY DEF OnNightly
<1>3. k \in 1 .. 20 /\ Places(k, Head(plan[j]).kind, Head(plan[j]).name)
  BY <1>2, NightAt
<1>4. ASSUME Advance(j), Done(j, k + 1)'  PROVE  OnNightly(j)'
  BY <1>1, <1>2, <1>4, Onward
<1>5. CASE StartRun(j)
  <2>1. k \in {1, 14}
    BY <1>3, <1>5 DEF StartRun, At, Places
  <2>2. Quiet /\ UNCHANGED failing /\ Advance(j)
    BY <1>5 DEF StartRun, data, Quiet
  <2> QED
    BY <1>2, <1>3, <1>4, <2>1, <2>2, DoneQuiet
<1>6. CASE FinishRun(j)
  <2>1. k \in {13, 19}
    BY <1>3, <1>6 DEF FinishRun, At, Places
  <2>2. Quiet /\ UNCHANGED failing /\ Advance(j)
    BY <1>6 DEF FinishRun, data, Quiet
  <2> QED
    BY <1>2, <1>3, <1>4, <2>1, <2>2, DoneQuiet
<1>7. CASE StageSources(j)
  <2>1. k = 2
    BY <1>3, <1>7 DEF StageSources, AtModel, Places, Step
  <2>2. stg' = raw /\ UNCHANGED raw /\ Advance(j)
    BY <1>7 DEF StageSources
  <2> QED
    BY <1>2, <1>3, <1>4, <2>1, <2>2, DoneStaged
<1>8. CASE StageIdentity(j)
  <2>1. k = 3
    BY <1>3, <1>8 DEF StageIdentity, AtModel, Places, Step
  <2>2. ident' = stg /\ UNCHANGED <<raw, stg>> /\ Advance(j)
    BY <1>8 DEF StageIdentity
  <2> QED
    BY <1>2, <1>3, <1>4, <2>1, <2>2, DoneStaged
<1>9. CASE Unify(j)
  <2>1. k = 4 /\ Head(plan[j]).name = "full"
    BY <1>3, <1>9 DEF Unify, At, Places
  <2>2. Advance(j)
    BY <1>9 DEF Unify
  <2>3. Done(j, 5)'
    BY <1>1, <1>2, <1>9, <2>1, DoneUnified
  <2> QED
    BY <1>4, <2>1, <2>2, <2>3
<1>10. CASE LockTable(j)
  <2>1. k = 5
    BY <1>3, <1>10 DEF LockTable, AtModel, Places, Step
  <2>2. Quiet /\ UNCHANGED failing /\ Advance(j)
    BY <1>10 DEF LockTable, data, Quiet
  <2> QED
    BY <1>2, <1>3, <1>4, <2>1, <2>2, DoneQuiet
<1>11. CASE CloseVersions(j)
  <2>1. k = 6
    BY <1>3, <1>11 DEF CloseVersions, AtModel, Places, Step
  <2>2. Quiet /\ UNCHANGED failing /\ Advance(j)
    BY <1>11 DEF CloseVersions, data, Quiet
  <2> QED
    BY <1>2, <1>3, <1>4, <2>1, <2>2, DoneQuiet
<1>12. CASE OpenVersions(j)
  <2>1. k = 7
    BY <1>3, <1>12 DEF OpenVersions, AtModel, Places, Step
  <2>2. Quiet /\ UNCHANGED failing /\ Advance(j)
    BY <1>12 DEF OpenVersions, Quiet
  <2> QED
    BY <1>2, <1>3, <1>4, <2>1, <2>2, DoneQuiet
<1>13. CASE CommitVersions(j)
  <2>1. k = 8
    BY <1>3, <1>13 DEF CommitVersions, AtModel, Places, Step
  <2>2. Advance(j)
    BY <1>13 DEF CommitVersions
  <2>3. Done(j, 9)'
    BY <1>1, <1>2, <1>13, <2>1, DoneDim
  <2> QED
    BY <1>4, <2>1, <2>2, <2>3
<1>14. CASE LoadTickets(j)
  <2>1. k = 9
    BY <1>3, <1>14 DEF LoadTickets, AtModel, Places, Step
  <2>2. Advance(j)
    BY <1>14 DEF LoadTickets
  <2>3. Done(j, 10)'
    BY <1>2, <1>14, <2>1, DoneTickets
  <2> QED
    BY <1>4, <2>1, <2>2, <2>3
<1>15. CASE LoadEmail(j)
  <2>1. k = 10
    BY <1>3, <1>15 DEF LoadEmail, AtModel, Places, Step
  <2>2. Advance(j)
    BY <1>15 DEF LoadEmail
  <2>3. Done(j, 11)'
    BY <1>1, <1>2, <1>15, <2>1, DoneEmail
  <2> QED
    BY <1>4, <2>1, <2>2, <2>3
<1>16. CASE BuildMart(j)
  <2>1. k = 11
    BY <1>3, <1>16 DEF BuildMart, AtModel, Places, Step
  <2>2. Advance(j)
    BY <1>16 DEF BuildMart
  <2>3. Done(j, 12)'
    BY <1>2, <1>16, <2>1, DoneMart
  <2> QED
    BY <1>4, <2>1, <2>2, <2>3
<1>17. CASE Grant(j)
  <2>1. k = 12
    BY <1>3, <1>17 DEF Grant, At, Places
  <2>2. Quiet /\ UNCHANGED failing /\ Advance(j)
    BY <1>17 DEF Grant, Quiet
  <2> QED
    BY <1>2, <1>3, <1>4, <2>1, <2>2, DoneQuiet
<1>18. CASE RunCheck(j)
  <2>1. k \in 15 .. 18 /\ (k = 15 => Head(plan[j]).name = "one_current")
    BY <1>3, <1>18 DEF RunCheck, At, Places
  <2>2. Advance(j)
    BY <1>18 DEF RunCheck
  <2> QED
    BY <1>1, <1>2, <1>4, <1>18, <2>1, <2>2, DoneChecks
<1>19. CASE EnforceGate(j)
  <2>1. k = 20
    BY <1>3, <1>19 DEF EnforceGate, At, Places
  <2>2. Quiet /\ UNCHANGED failing /\ Advance(j) /\ failing[j] = {}
    BY <1>19 DEF EnforceGate, data, Quiet
  <2> QED
    BY <1>2, <1>4, <2>1, <2>2, DoneGate
<1>20. CASE Raise(j) \/ Fail(j) \/ Kill(j)
  BY <1>1, <1>20, Breaks
<1> QED
  BY <1>5, <1>6, <1>7, <1>8, <1>9, <1>10, <1>11, <1>12, <1>13, <1>14, <1>15, <1>16, <1>17,
     <1>18, <1>19, <1>20 DEF JobStep

(* A run without one of the two flows does not get it. *)
LEMMA OtherGoesOn ==
  ASSUME FlowTypes, NEW j \in Jobs, Other(j), plan[j] # <<>>,
         JobStep(j) \/ Fail(j) \/ Kill(j)
  PROVE  Other(j)' \/ Broken(j)'
<1>1. PICK flow \in {"transform-warehouse", "quality-gates"} :
        status[j][flow] = "none" /\ Lacks(plan[j], flow)
  BY DEF Other
<1>2. CASE Raise(j) \/ Fail(j) \/ Kill(j)
  BY <1>2, Breaks
<1>3. CASE JobStep(j) /\ ~Raise(j)
  <2>1. Advance(j)
    BY <1>3 DEF JobStep, StartRun, FinishRun, StageSources, StageIdentity, Unify, LockTable,
                CloseVersions, OpenVersions, CommitVersions, LoadTickets, LoadEmail, BuildMart, Grant, RunCheck,
                EnforceGate
  <2>2. \/ status' = status
        \/ \E s : status' = [status EXCEPT ![j][Head(plan[j]).name] = s]
    BY <1>3 DEF JobStep, StartRun, FinishRun, StageSources, StageIdentity, Unify, LockTable,
                CloseVersions, OpenVersions, CommitVersions, LoadTickets, LoadEmail, BuildMart, Grant, RunCheck,
                EnforceGate
  <2>3. plan[j] \in Seq(Steps) /\ plan'[j] = Tail(plan[j])
    BY <2>1 DEF FlowTypes, Advance
  <2>4. Lacks(plan'[j], flow) /\ Head(plan[j]).name # flow
    BY <1>1, <2>3, LacksTail
  <2>5. status'[j][flow] = "none"
    BY <1>1, <2>2, <2>4 DEF FlowTypes, Flows
  <2> QED
    BY <2>4, <2>5 DEF Other, Lacks
<1> QED
  BY <1>2, <1>3

Without(p, flow) == p \in Seq(Steps) /\ Lacks(p, flow)

LEMMA WithoutJoin ==
  ASSUME NEW p, NEW q, NEW flow, Without(p, flow), Without(q, flow)
  PROVE  Without(p \o q, flow)
BY LacksJoin DEF Without

(* A step that is no step of the flow. *)
Foreign(s, flow) == s \in Steps /\ s.name # flow

LEMMA WithoutSteps ==
  /\ \A s, flow : Foreign(s, flow) => Without(<<s>>, flow)
  /\ \A s, t, flow : Foreign(s, flow) /\ Foreign(t, flow) => Without(<<s, t>>, flow)
  /\ \A s, t, u, flow :
       Foreign(s, flow) /\ Foreign(t, flow) /\ Foreign(u, flow) => Without(<<s, t, u>>, flow)
  /\ \A s, t, u, v, flow :
       Foreign(s, flow) /\ Foreign(t, flow) /\ Foreign(u, flow) /\ Foreign(v, flow)
         => Without(<<s, t, u, v>>, flow)
<1>1. \A s, flow : Foreign(s, flow) => Without(<<s>>, flow)
  BY DEF Foreign, Without, Lacks
<1>2. \A s, t, flow : Foreign(s, flow) /\ Foreign(t, flow) => Without(<<s, t>>, flow)
  BY DEF Foreign, Without, Lacks
<1>3. \A s, t, u, flow :
       Foreign(s, flow) /\ Foreign(t, flow) /\ Foreign(u, flow) => Without(<<s, t, u>>, flow)
  BY DEF Foreign, Without, Lacks
<1>4. \A s, t, u, v, flow :
       Foreign(s, flow) /\ Foreign(t, flow) /\ Foreign(u, flow) /\ Foreign(v, flow)
         => Without(<<s, t, u, v>>, flow)
  BY DEF Foreign, Without, Lacks
<1> QED
  BY <1>1, <1>2, <1>3, <1>4

LEMMA ModelsLack ==
  ASSUME NEW flow \in {"transform-warehouse", "quality-gates"}
  PROVE  /\ \A n \in {"stg", "ident", "tickets", "email", "mart"} :
              Without(<<Step("model", n)>>, flow)
         /\ Without(Staging, flow) /\ Without(DimFan, flow) /\ Without(Downstream, flow)
         /\ Without(<<>>, flow)
<1> DEFINE Models == {"stg", "ident", "index", "close", "open", "commit", "tickets", "email", "mart"}
<1>1. \A n \in Models : Foreign(Step("model", n), flow)
  BY DEF Foreign, Steps, Step
<1>2. \A n \in Models : Without(<<Step("model", n)>>, flow)
  BY <1>1, WithoutSteps
<1>3. Without(Staging, flow) /\ Without(DimFan, flow) /\ Without(<<>>, flow)
  <2>1. Without(<<>>, flow)
    BY DEF Without, Lacks
  <2> QED
    BY <1>1, <2>1, WithoutSteps DEF Staging, DimFan
<1>4. Without(<<Step("model", "tickets"), Step("model", "email"), Step("model", "mart")>>, flow)
  BY <1>1, WithoutSteps
<1>5. Without(Downstream, flow)
  BY <1>3, <1>4, WithoutJoin DEF Downstream
<1> QED
  BY <1>2, <1>3, <1>5

LEMMA TransformLacks == Without(Transform("full"), "quality-gates")
<1> DEFINE flow == "quality-gates"
           s == Step("start", "transform-warehouse")
           u == Step("unify", "full")
           g == Step("grant", "")
           e == Step("finish", "transform-warehouse")
<1>1. Foreign(s, flow) /\ Foreign(u, flow) /\ Foreign(g, flow) /\ Foreign(e, flow)
  BY DEF Foreign, Steps, Flows, Modes, Step
<1> HIDE DEF s, u, g, e, flow
<1>2. Without(<<s>>, flow) /\ Without(<<u>>, flow) /\ Without(<<g, e>>, flow)
  BY <1>1, WithoutSteps
<1>3. Without(Staging, flow) /\ Without(Downstream, flow)
  BY ModelsLack DEF flow
<1>4. Without(<<s>> \o Staging \o <<u>> \o Downstream \o <<g, e>>, flow)
  BY <1>2, <1>3, WithoutJoin
<1> QED
  BY <1>4 DEF Transform, s, u, g, e, flow

LEMMA GatesLack == Without(Gates, "transform-warehouse")
<1> DEFINE flow == "transform-warehouse"
           c == [k \in 1 .. Len(Checks) |-> Step("check", Checks[k])]
           f == Step("enforce", "")
<1>1. Len(Checks) = 4 /\ \A k \in 1 .. 4 : Checks[k] # flow
  BY DEF Checks
<1>2. GatesStart \in Steps /\ GatesEnd \in Steps /\ f \in Steps
  BY DEF Steps, Flows, GatesStart, GatesEnd
<1>3. Foreign(GatesStart, flow) /\ Foreign(GatesEnd, flow) /\ Foreign(f, flow)
  BY <1>2 DEF Foreign, GatesStart, GatesEnd, Step
<1>4. Without(c, flow)
  <2>1. \A k \in 1 .. 4 : Step("check", Checks[k]) \in Steps /\ Step("check", Checks[k]).name # flow
    BY <1>1 DEF Steps, Step
  <2>2. c \in Seq(Steps) /\ Len(c) = 4 /\ \A k \in 1 .. 4 : c[k].name # flow
    BY <1>1, <2>1
  <2> QED
    BY <2>2 DEF Without, Lacks
<1> HIDE DEF c, f, flow
<1>5. Without(<<GatesStart>>, flow) /\ Without(<<GatesEnd, f>>, flow)
  BY <1>3, WithoutSteps
<1>6. Without(<<GatesStart>> \o c \o <<GatesEnd, f>>, flow)
  BY <1>4, <1>5, WithoutJoin
<1> QED
  BY <1>6 DEF Gates, GatesStart, GatesEnd, c, f, flow

LEMMA SelectLacks ==
  ASSUME NEW S
  PROVE  Without(Select(S), "quality-gates")
<1> DEFINE flow == "quality-gates"
           s == Step("start", "transform-select")
           e == Step("finish", "transform-select")
<1>1. Foreign(s, flow) /\ Foreign(e, flow)
  BY DEF Foreign, Steps, Flows, Step
<1>2. \A n, p : Without(p, flow) => Without(Only(S, n, p), flow)
  BY ModelsLack DEF Only
<1>3. /\ \A n \in {"stg", "ident", "tickets", "email", "mart"} :
           Without(Only(S, n, <<Step("model", n)>>), flow)
      /\ Without(Only(S, "dim_fan", DimFan), flow)
  BY <1>2, ModelsLack
<1> HIDE DEF s, e, flow
<1>4. Without(<<s>>, flow) /\ Without(<<e>>, flow)
  BY <1>1, WithoutSteps
<1>5. Without(<<s>>
                \o Only(S, "stg", <<Step("model", "stg")>>)
                \o Only(S, "ident", <<Step("model", "ident")>>)
                \o Only(S, "dim_fan", DimFan)
                \o Only(S, "tickets", <<Step("model", "tickets")>>)
                \o Only(S, "email", <<Step("model", "email")>>)
                \o Only(S, "mart", <<Step("model", "mart")>>)
                \o <<e>>, flow)
  BY <1>3, <1>4, WithoutJoin
<1> QED
  BY <1>5 DEF Select, s, e, flow

(* Commands that are no nightly run lack one of its two flows.              *)
LEMMA CommandsLack ==
  ASSUME NEW c \in Commands
  PROVE  c = Nightly \/ Lacks(c, "quality-gates") \/ Lacks(c, "transform-warehouse")
<1>1. CASE c = Transform("full")
  BY <1>1, TransformLacks DEF Without
<1>2. CASE c = Gates
  BY <1>2, GatesLack DEF Without
<1>3. ASSUME NEW m \in Modes, c = <<Step("unify", m)>>
      PROVE  Lacks(c, "quality-gates")
  BY <1>3 DEF Lacks, Step, Modes
<1>4. ASSUME NEW S \in Selections, c = Select(S)
      PROVE  Lacks(c, "quality-gates")
  BY <1>4, SelectLacks DEF Without
<1> QED
  BY <1>1, <1>2, <1>3, <1>4 DEF Commands

LEMMA NightStart ==
  ASSUME FlowsInv, NightInv, NEW j \in Jobs, Start(j)
  PROVE  NightInv'
<1>1. plan \in [Jobs -> Seq(Steps)] /\ status \in [Jobs -> [Flows -> {"none", "running", "completed", "failed"}]]
  BY DEF FlowsInv, FlowTypes
<1>2. PICK c \in Commands : plan' = [plan EXCEPT ![j] = c]
  BY DEF Start
<1>3. \A i \in Jobs : alone'[i] => i = j /\ \A k \in Jobs : plan[k] = <<>>
  BY DEF Start
<1>4. plan'[j] = c /\ \A i \in Jobs \ {j} : plan'[i] = plan[i]
  BY <1>1, <1>2
<1>5. \A flow \in {"transform-warehouse", "quality-gates"} : status'[j][flow] = "none"
  BY <1>1 DEF Start, Flows
<1>6. OnNightly(j)' \/ Other(j)'
  <2>1. CASE c = Nightly
    <3>1. Finished = 21 /\ Remaining(1) = Nightly
      BY NightlyRest
    <3>2. Done(j, 1)'
      BY <3>1 DEF Done
    <3>3. plan'[j] = Remaining(1) /\ 1 \in 1 .. Finished
      BY <1>4, <2>1, <3>1
    <3> QED
      BY <3>2, <3>3 DEF OnNightly
  <2>2. ASSUME NEW flow \in {"transform-warehouse", "quality-gates"}, Lacks(c, flow)
        PROVE  Other(j)'
    <3>1. status'[j][flow] = "none" /\ Lacks(plan'[j], flow)
      BY <1>4, <1>5, <2>2
    <3> QED
      BY <3>1 DEF Other, Lacks
  <2> QED
    BY <2>1, <2>2, CommandsLack
<1>7. ASSUME NEW i \in Jobs, alone'[i]
      PROVE  /\ \A k \in Jobs \ {i} : plan'[k] = <<>>
             /\ OnNightly(i)' \/ Broken(i)' \/ Other(i)'
             /\ i \notin torn'
  BY <1>3, <1>4, <1>6, <1>7 DEF Start
<1> QED
  BY <1>7 DEF NightInv

LEMMA NightJob ==
  ASSUME FlowsInv, DimInv, NightInv, NEW j \in Jobs, JobStep(j) \/ Fail(j) \/ Kill(j)
  PROVE  NightInv'
<1>1. FlowTypes /\ plan \in [Jobs -> Seq(Steps)]
  BY DEF FlowsInv, FlowTypes
<1>2. /\ plan[j] # <<>>
      /\ alone' = alone \/ Noticed(j)
      /\ \E p : plan' = [plan EXCEPT ![j] = p]
      /\ torn' \subseteq torn
  BY DEF JobStep, StartRun, FinishRun, StageSources, StageIdentity, Unify, LockTable,
         CloseVersions, OpenVersions, CommitVersions, LoadTickets, LoadEmail, BuildMart, Grant,
         RunCheck, EnforceGate, Raise, Fail, Kill, MarkedFailed, At, AtModel, Advance, Creating,
         KeyViolation, Deadlocked
<1>3. \A i \in Jobs \ {j} : plan'[i] = plan[i]
  BY <1>1, <1>2
<1>4. \A i \in Jobs : alone'[i] => alone[i]
  BY <1>2 DEF Noticed
<1>5. ASSUME NEW i \in Jobs, alone'[i]
      PROVE  /\ \A k \in Jobs \ {i} : plan'[k] = <<>>
             /\ OnNightly(i)' \/ Broken(i)' \/ Other(i)'
             /\ i \notin torn'
  <2>1. /\ \A k \in Jobs \ {i} : plan[k] = <<>>
        /\ OnNightly(i) \/ Broken(i) \/ Other(i)
        /\ i \notin torn
    BY <1>4, <1>5 DEF NightInv
  <2>2. i = j
    BY <1>2, <2>1
  <2>3. OnNightly(j) => OnNightly(j)' \/ Broken(j)'
    BY <1>2, <2>1, <2>2, NightGoesOn
  <2>4. Other(j) => Other(j)' \/ Broken(j)'
    BY <1>1, <1>2, OtherGoesOn
  <2>5. ~Broken(j)
    BY <1>2 DEF Broken
  <2> QED
    BY <1>2, <1>3, <2>1, <2>2, <2>3, <2>4, <2>5
<1> QED
  BY <1>5 DEF NightInv

(* A staging model more: only the run itself may go on.                     *)
LEMMA NightStage ==
  ASSUME FlowTypes, NightInv, NEW j \in Jobs, StageSome(j)
  PROVE  NightInv'
<1>1. /\ plan[j] # <<>> /\ Head(plan[j]).kind = "model" /\ Head(plan[j]).name = "stg"
      /\ UNCHANGED <<plan, status, failing, ended, torn>> /\ Noticed(j)
  BY DEF StageSome, AtModel, Step
<1>2. ASSUME OnNightly(j)  PROVE  OnNightly(j)'
  <2>1. PICK k \in 1 .. Finished : plan[j] = Remaining(k) /\ Done(j, k)
    BY <1>2 DEF OnNightly
  <2>2. k = 2
    BY <1>1, <2>1, NightAt DEF Places
  <2>3. Done(j, 2)'
    BY NightlyRest DEF Done
  <2> QED
    BY <1>1, <2>1, <2>2, <2>3 DEF OnNightly, Finished
<1>3. ASSUME NEW i \in Jobs, alone'[i]
      PROVE  /\ \A k \in Jobs \ {i} : plan'[k] = <<>>
             /\ OnNightly(i)' \/ Broken(i)' \/ Other(i)'
             /\ i \notin torn'
  <2>1. alone[i] /\ i = j
    BY <1>1, <1>3 DEF Noticed
  <2>2. (Broken(j) => Broken(j)') /\ (Other(j) => Other(j)')
    BY <1>1 DEF Broken, Other
  <2> QED
    BY <1>1, <1>2, <2>1, <2>2 DEF NightInv
<1> QED
  BY <1>3 DEF NightInv

LEMMA NightStep == FlowsInv /\ DimInv /\ NightInv /\ [Next]_vars => NightInv'
<1> SUFFICES ASSUME FlowsInv, DimInv, NightInv, [Next]_vars
             PROVE  NightInv'
  OBVIOUS
<1>1. CASE Ingest
  BY <1>1 DEF Ingest, NightInv
<1>2. ASSUME NEW S \in Rebuilds, Rebuild(S)  PROVE  NightInv'
  BY <1>2 DEF Rebuild, NightInv
<1>3. ASSUME NEW j \in Jobs, Start(j)  PROVE  NightInv'
  BY <1>3, NightStart
<1>4. ASSUME NEW j \in Jobs, JobStep(j) \/ Fail(j) \/ Kill(j)  PROVE  NightInv'
  BY <1>4, NightJob
<1>5. ASSUME NEW j \in Jobs, StageSome(j)  PROVE  NightInv'
  BY <1>5, NightStage DEF FlowsInv
<1>6. CASE UNCHANGED vars
  <2>1. Quiet /\ UNCHANGED <<plan, status, failing, ended, alone, torn>>
    BY <1>6 DEF vars, data, Quiet
  <2>2. ASSUME NEW j \in Jobs, NEW k, Done(j, k)  PROVE  Done(j, k)'
    <3>1. /\ Unified => Unified'
          /\ DimFresh => DimFresh'
          /\ TicketsLoaded' = TicketsLoaded
          /\ MartRows' = MartRows
          /\ OneEach => OneEach'
          /\ Staged(raw)' = Staged(raw)
      BY <2>1, NightKept DEF Quiet, Staged
    <3> QED
      BY <2>1, <2>2, <3>1 DEF Quiet, Done, Finished
  <2>3. \A j \in Jobs : OnNightly(j) => OnNightly(j)'
    BY <2>1, <2>2 DEF OnNightly
  <2>4. \A j \in Jobs : (Broken(j) => Broken(j)') /\ (Other(j) => Other(j)')
    BY <2>1 DEF Broken, Other
  <2> QED
    BY <2>1, <2>3, <2>4 DEF NightInv
<1> QED
  BY <1>1, <1>2, <1>3, <1>4, <1>5, <1>6 DEF Next

LEMMA NightInit == Init => NightInv
  BY DEF Init, NightInv

LEMMA CountedAlike ==
  ASSUME NEW S, IsFiniteSet(S), NEW T, NEW f \in [S -> T],
         \A x, y \in S : f[x] = f[y] => x = y, \A t \in T : \E x \in S : f[x] = t
  PROVE  Cardinality(T) = Cardinality(S)
<1>1. f \in Bijection(S, T)
  BY DEF Bijection, Injection, Surjection, IsInjective
<1> QED
  BY <1>1, FS_Bijection DEF ExistsBijection

(* What a run that came to its end, with its checks passed, has delivered. *)
LEMMA Delivered ==
  ASSUME FlowsInv, DimInv, EmailInv, NightInv, NEW j \in Jobs,
         ended[j] = "ok", alone[j], status[j]["transform-warehouse"] = "completed",
         status[j]["quality-gates"] = "completed"
  PROVE  /\ stg = raw /\ Unified /\ DimFresh /\ tickets = TicketsLoaded
         /\ Subscribers \cap Staged(raw) \subseteq DOMAIN email
         /\ mart.rows = MartRows /\ OneEach
<1>1. plan[j] = <<>> /\ failing[j] = {}
  BY DEF FlowsInv, JobFlows, GatesOK
<1>2. OnNightly(j)
  BY DEF NightInv, Broken, Other
<1>3. PICK k \in 1 .. Finished : plan[j] = Remaining(k) /\ Done(j, k)
  BY <1>2 DEF OnNightly
<1>4. Finished = 21 /\ \A n \in 1 .. 20 : Remaining(n) # <<>>
  BY NightlyRest
<1>5. k = 21
  BY <1>1, <1>3, <1>4
<1> QED
  BY <1>1, <1>3, <1>4, <1>5 DEF Done

LEMMA TicketsOf ==
  ASSUME DimInv, Unified, DimFresh, OneEach, tickets = TicketsLoaded, stg = raw,
         NEW v \in Current(dim)
  PROVE  Cardinality({t \in tickets : t.key = v.key})
           = Cardinality({o \in Orders \cap Staged(raw) : raw.fan["full"][o] = v.fan})
<1> DEFINE S == {o \in Orders \cap Staged(raw) : raw.fan["full"][o] = v.fan}
           T == {t \in tickets : t.key = v.key}
           row(o, key) == [order |-> o, key |-> key]
           f == [o \in S |-> row(o, v.key)]
<1>1. \A o, key : row(o, key).order = o /\ row(o, key).key = key
  OBVIOUS
<1>2. KeysOK /\ raw \in Snapshots
  BY DEF DimInv, DimTypes
<1>3. DOMAIN xref = Staged(raw) /\ IsFiniteSet(Staged(raw))
  BY <1>2, SnapshotsAssumption DEF Unified, Staged, Modes
<1> HIDE DEF row
<1>4. tickets = UNION {{row(o, w.key) : w \in VersionsOf(o)} : o \in Orders \cap Staged(raw)}
  BY DEF TicketsLoaded, row
<1>5. IsFiniteSet(S)
  BY <1>3, FS_Subset
<1>6. ASSUME NEW o \in S
      PROVE  row(o, v.key) \in T
  <2>1. v \in VersionsOf(o)
    BY <1>3, <1>6 DEF VersionsOf, Unified
  <2> QED
    BY <1>1, <1>4, <1>6, <2>1
<1>7. ASSUME NEW t \in T
      PROVE  \E o \in S : row(o, v.key) = t
  <2>1. PICK o \in Orders \cap Staged(raw) : t \in {row(o, w.key) : w \in VersionsOf(o)}
    BY <1>4
  <2>2. PICK w \in VersionsOf(o) : t = row(o, w.key)
    BY <2>1
  <2>3. w = v
    BY <1>1, <1>2, <2>2 DEF VersionsOf, Current, KeysOK
  <2>4. o \in S
    BY <2>1, <2>2, <2>3 DEF VersionsOf, Unified
  <2> QED
    BY <2>2, <2>3, <2>4
<1>8. f \in [S -> T] /\ (\A x, y \in S : f[x] = f[y] => x = y) /\ \A t \in T : \E x \in S : f[x] = t
  <2>1. f \in [S -> T] /\ \A x \in S : f[x] = row(x, v.key)
    BY <1>6
  <2>2. \A x, y \in S : f[x] = f[y] => x = y
    BY <1>1, <2>1
  <2> HIDE DEF f, S, T
  <2> QED
    BY <1>7, <2>1, <2>2
<1> HIDE DEF S, T, f
<1>9. Cardinality(T) = Cardinality(S)
  BY <1>5, <1>8, CountedAlike
<1> QED
  BY <1>9 DEF S, T

LEMMA EmailsFollow ==
  ASSUME DimInv, EmailInv, NEW v \in Current(dim)
  PROVE  EmailsOf(v) = {e \in DOMAIN email : loaded[e] = v.fan}
<1>1. KeysOK
  BY DEF DimInv
<1>2. \A e \in DOMAIN email : \E w \in dim : w.key = email[e] /\ w.fan = loaded[e]
  BY DEF EmailInv, EmailKeepsItsFan
<1>3. ASSUME NEW e \in DOMAIN email
      PROVE  (\E w \in dim : w.key = email[e] /\ w.fan = v.fan) <=> loaded[e] = v.fan
  <2>1. PICK u \in dim : u.key = email[e] /\ u.fan = loaded[e]
    BY <1>2
  <2>2. \A w \in dim : w.key = email[e] => w = u
    BY <1>1, <2>1 DEF KeysOK
  <2> QED
    BY <2>1, <2>2
<1> QED
  BY <1>3 DEF EmailsOf

LEMMA NightHolds == FlowsInv /\ DimInv /\ EmailInv /\ NightInv => NightlyDelivers
<1> SUFFICES ASSUME FlowsInv, DimInv, EmailInv, NightInv, NEW j \in Jobs,
                    ended[j] = "ok", alone[j], status[j]["transform-warehouse"] = "completed",
                    status[j]["quality-gates"] = "completed"
             PROVE  LET fan == raw.fan["full"]
                        fans == {fan[r] : r \in Staged(raw)}
                    IN /\ Cardinality(mart.rows) = Cardinality(fans)
                       /\ {row.fan : row \in mart.rows} = fans
                       /\ Subscribers \cap Staged(raw) \subseteq DOMAIN email
                       /\ \A row \in mart.rows :
                            /\ row.attr = raw.attr[row.fan]
                            /\ row.tickets = Cardinality({o \in Orders \cap Staged(raw) : fan[o] = row.fan})
                            /\ row.emails = Cardinality({e \in DOMAIN email : loaded[e] = row.fan})
  BY DEF NightlyDelivers
<1> DEFINE fan == raw.fan["full"]
           fans == {fan[r] : r \in Staged(raw)}
           C == Current(dim)
           ofTickets(v) == Cardinality({t \in tickets : t.key = v.key})
           ofEmails(v) == Cardinality(EmailsOf(v))
           row(v) == [key |-> v.key, fan |-> v.fan, attr |-> v.attr,
                      tickets |-> ofTickets(v), emails |-> ofEmails(v)]
<1>1. /\ stg = raw /\ Unified /\ DimFresh /\ tickets = TicketsLoaded
      /\ Subscribers \cap Staged(raw) \subseteq DOMAIN email
      /\ mart.rows = MartRows /\ OneEach
  BY Delivered
<1>2. raw \in Snapshots
  BY DEF DimInv, DimTypes
<1>3. mart.rows = {row(v) : v \in C}
  BY <1>1 DEF MartRows
<1>4. \A v : /\ row(v).fan = v.fan /\ row(v).attr = v.attr
             /\ row(v).tickets = ofTickets(v) /\ row(v).emails = ofEmails(v)
  OBVIOUS
<1>5. \A v \in C : /\ ofTickets(v) = Cardinality({o \in Orders \cap Staged(raw) : fan[o] = v.fan})
                   /\ ofEmails(v) = Cardinality({e \in DOMAIN email : loaded[e] = v.fan})
  BY <1>1, TicketsOf, EmailsFollow
<1>6. {v.fan : v \in C} = fans /\ \A v \in C : v.attr = raw.attr[v.fan]
  <2>1. DOMAIN golden = fans /\ \A f \in fans : golden[f].attr = raw.attr[f]
    BY <1>1 DEF Unified
  <2>2. {v.fan : v \in C} = DOMAIN golden /\ \A v \in C : v.attr = golden[v.fan].attr
    BY <1>1 DEF DimFresh
  <2> HIDE DEF fans, C
  <2> QED
    BY <2>1, <2>2
<1>7. \A v, w \in C : v.fan = w.fan => v = w
  BY <1>1 DEF OneEach
<1>8. IsFiniteSet(fans)
  <2>1. fans \subseteq Staged(raw) /\ IsFiniteSet(Staged(raw))
    BY <1>2, SnapshotsAssumption DEF Staged, Modes
  <2> QED
    BY <2>1, FS_Subset
<1> DEFINE rows == {row(v) : v \in C}
           of(f) == CHOOSE v \in C : v.fan = f
           g == [f \in fans |-> row(of(f))]
<1> HIDE DEF row, ofTickets, ofEmails, fans, C
<1>9. \A f \in fans : of(f) \in C /\ of(f).fan = f
  BY <1>6
<1>10. \A v \in C : v.fan \in fans /\ of(v.fan) = v
  BY <1>6, <1>7, <1>9
<1> HIDE DEF of
<1>11. /\ g \in [fans -> rows]
       /\ \A f, h \in fans : g[f] = g[h] => f = h
       /\ \A r \in rows : \E f \in fans : g[f] = r
  <2>1. g \in [fans -> rows] /\ \A f \in fans : g[f] = row(of(f))
    BY <1>9
  <2>2. \A f \in fans : g[f].fan = f
    BY <1>4, <1>9, <2>1
  <2>3. ASSUME NEW v \in C  PROVE  \E f \in fans : g[f] = row(v)
    BY <1>10, <2>1
  <2> HIDE DEF g
  <2> QED
    BY <2>1, <2>2, <2>3
<1>12. Cardinality(rows) = Cardinality(fans)
  <2> HIDE DEF g, rows
  <2> QED
    BY <1>8, <1>11, CountedAlike
<1>13. {r.fan : r \in rows} = fans
  BY <1>4, <1>6
<1>14. ASSUME NEW r \in rows
       PROVE  /\ r.attr = raw.attr[r.fan]
              /\ r.tickets = Cardinality({o \in Orders \cap Staged(raw) : fan[o] = r.fan})
              /\ r.emails = Cardinality({e \in DOMAIN email : loaded[e] = r.fan})
  <2>1. PICK v \in C : r = row(v)
    OBVIOUS
  <2>2. r.fan = v.fan /\ r.attr = v.attr /\ r.tickets = ofTickets(v) /\ r.emails = ofEmails(v)
    BY <1>4, <2>1
  <2> QED
    BY <1>5, <1>6, <2>2
<1> QED
  BY <1>1, <1>3, <1>12, <1>13, <1>14 DEF fans

(* A nightly run that succeeded undisturbed has delivered raw, whatever the *)
(* sources hold: one row of the mart for every fan, with its attributes,    *)
(* orders and events (cli.py nightly; flows.py nightly_pipeline).           *)
THEOREM NightlyCorrect ==
  ASSUME DroppedTogether
  PROVE  Spec => []NightlyDelivers
<1>1. Init => EmailInv
  BY DEF Init, EmailInv, EmailKeepsItsFan
<1> QED
  BY <1>1, FlowsInit, DimInit, NightInit, FlowsStep, DimStep, NightStep, EmailStep, NightHolds, PTL
  DEF Spec
=============================================================================
