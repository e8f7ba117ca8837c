------------------------------ MODULE History ------------------------------
(***************************************************************************)
(* What core.dim_fan promises (warehouse/models/30_core/20_dim_fan.sql,    *)
(* docs/decisions/0005): the history of every fan's attributes.            *)
(*                                                                         *)
(* A fan has one open version at most.  A load, in one step, closes the    *)
(* versions of the fans that changed or left and opens new ones; those it  *)
(* keeps may get another record count.  No version follows an equal one    *)
(* that the same load closed, a closed version ends with the record count  *)
(* it had, and what is closed is never rewritten.                          *)
(***************************************************************************)
EXTENDS Integers

VARIABLES
  open,   \* the current versions: [key, fan, attr, n]
  closed  \* the past ones

KeysIn(S) == {v.key : v \in S}

OnePerFan(S) == \A v, w \in S : v.fan = w.fan => v = w

(* A version that keeps its key keeps its fan and its attributes. *)
SameVersion(v, w) == v.key = w.key => v.fan = w.fan /\ v.attr = w.attr

Init == open = {} /\ closed = {}

Load ==
  LET ending == {v \in open : v.key \notin KeysIn(open')}
  IN /\ OnePerFan(open')
     /\ closed' = closed \cup ending
     /\ \A w \in open' :
          /\ \A v \in open : SameVersion(v, w)
          /\ w.key \notin KeysIn(open) =>
               /\ \A v \in ending : v.fan = w.fan => v.attr # w.attr
               /\ \A v \in open \cup closed : v.key < w.key

(* The table is dropped. *)
Discard == open' = {} /\ closed' = {}

Next == Load \/ Discard

versions == <<open, closed>>

Spec == Init /\ [][Next]_versions
=============================================================================
