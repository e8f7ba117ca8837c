----------------------------- MODULE Partition -----------------------------
(***************************************************************************)
(* What src/fanuni/unification/deterministic.py UnionFind promises: a      *)
(* partition of the refs it has seen, each class answered for by its least *)
(* member, so that the fan_id derived from it does not depend on the order *)
(* in which the links were found.                                          *)
(*                                                                         *)
(* Refs are numbers, in the order Python compares the strings.             *)
(***************************************************************************)
EXTENDS Integers

CONSTANT Items  \* a set of positive numbers

VARIABLES
  class,  \* class[x]: the least ref known to be the same fan; 0 when x is unseen
  answer  \* what the last find returned

Least(m, n) == IF m < n THEN m ELSE n
Greatest(m, n) == IF m < n THEN n ELSE m

Registered(c, x) == IF c[x] = 0 THEN [c EXCEPT ![x] = x] ELSE c

(* The classes of m and n, named by their least members, become one. *)
Merged(c, m, n) ==
  [x \in Items |-> IF c[x] \in {m, n} THEN Least(m, n) ELSE c[x]]

Init == class = [x \in Items |-> 0] /\ answer = 0

Register(x) ==
  /\ class[x] = 0
  /\ class' = Registered(class, x)
  /\ UNCHANGED answer

Find(x) ==
  /\ class[x] # 0
  /\ answer' = class[x]
  /\ UNCHANGED class

Union(a, b) ==
  /\ class[a] # 0 /\ class[b] # 0
  /\ class' = Merged(class, class[a], class[b])
  /\ UNCHANGED answer

Next ==
  \/ \E x \in Items : Register(x) \/ Find(x)
  \/ \E a, b \in Items : Union(a, b)

Spec == Init /\ [][Next]_<<class, answer>>
=============================================================================
