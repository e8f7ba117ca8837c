---------------------------- MODULE MCFileIngest ----------------------------
(* Instances of FileIngest for TLC. *)
EXTENDS FileIngest, TLC

CONSTANTS r1, r2, f1, f2, f3, v1, v2, vx, a, b

OneFile == <<f1>>
TwoFiles == <<f1, f2>>
ThreeFiles == <<f1, f2, f3>>

(* f1 and f2 are months of one source, f3 is of another. *)
TwoSources == [f \in {f1, f2, f3} |-> IF f = f3 THEN "merch" ELSE "ticketing"]

(* v1 holds a bad row; v2 corrects it; vx does not parse. *)
GoodIn == [v \in {v1, v2, vx} |-> CASE v = v1 -> {a} [] v = v2 -> {a, b} [] OTHER -> {}]
BadIn == [v \in {v1, v2, vx} |-> IF v = v1 THEN {b} ELSE {}]

(* Everything, or a backfill of one month. *)
AllOrOne == {Files, {f1}}
OnlyAll == {Files}

RunSymmetry == Permutations(Runs)
=============================================================================
