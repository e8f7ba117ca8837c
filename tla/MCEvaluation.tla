---------------------------- MODULE MCEvaluation ----------------------------
(* An instance of Evaluation, and with it of Unification, for TLC. *)
EXTENDS Evaluation, TLC

MCRefs == 1 .. 4

(* Two spellings of one name, another name, and one that folds to nothing. *)
ann == [fold |-> 1, text |-> 1]
bo  == [fold |-> 2, text |-> 1]
Bo  == [fold |-> 2, text |-> 2]
li  == [fold |-> 0, text |-> 1]

Prof(e, p, l, d, o) ==
  [email |-> e, phone |-> p, last |-> l, dob |-> d, observed |-> o]

MCProfiles ==
  {Prof(0, 0, ann, 0, 1), Prof(2, 1, bo, 1, 1), Prof(1, 1, Bo, 2, 2),
   Prof(2, 1, li, 0, 2)}

Truth(e, t) == [entity |-> e, tags |-> t]

(* Ref 4 is unknown to the truth, and ref 9 to the pipeline. *)
MCTruths ==
  {(1 :> Truth("a", {"nick"}) @@ 2 :> Truth("a", {}) @@ 3 :> Truth("b", {"typo"})
      @@ 4 :> Truth("b", {"nick", "typo"})),
   (1 :> Truth("a", {"nick"}) @@ 2 :> Truth("b", {}) @@ 3 :> Truth("a", {})
      @@ 9 :> Truth("a", {"typo"}))}

MCThresholds == <<2, 3>>
=============================================================================
