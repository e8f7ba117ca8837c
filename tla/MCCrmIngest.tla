---------------------------- MODULE MCCrmIngest ----------------------------
(* Instances of CrmIngest for TLC. *)
EXTENDS CrmIngest, TLC

CONSTANTS r1, r2, r3, c1, c2, p1

OneContact == [o \in Objects |-> IF o = "Contact" THEN {c1} ELSE {}]
TwoContacts == [o \in Objects |-> IF o = "Contact" THEN {c1, c2} ELSE {}]
BothObjects == [o \in Objects |-> IF o = "Contact" THEN {c1} ELSE {p1}]

ContactAndRunSymmetry == Permutations({c1, c2}) \cup Permutations(Runs)
=============================================================================
