---------------------------- MODULE MCWarehouse ----------------------------
(* An instance of Warehouse for TLC. *)
EXTENDS Warehouse, TLC

Snap(det, full, attr) ==
  [fan |-> [m \in Modes |-> IF m = "full" THEN full ELSE det], attr |-> attr]

Apart == 1 :> 1 @@ 2 :> 2 @@ 3 :> 3
Two   == 1 :> 1 @@ 2 :> 2 @@ 3 :> 2
One   == 1 :> 1 @@ 2 :> 1 @@ 3 :> 1

(* Two fans; the same but one has moved; all merged into one that has      *)
(* moved, where the exact rules find three.                                *)
MCSnapshots ==
  {Snap(Two, Two, 1 :> 1 @@ 2 :> 1 @@ 3 :> 1),
   Snap(Two, Two, 1 :> 1 @@ 2 :> 2 @@ 3 :> 1),
   Snap(Apart, One, 1 :> 2 @@ 2 :> 2 @@ 3 :> 1)}

MCSelections == {{"mart"}, {"dim_fan", "email"}}
MCRebuilds == {{"email"}, {"email", "dim_fan"}}

JobSymmetry == Permutations(Jobs)
=============================================================================
