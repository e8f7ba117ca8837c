---------------------------- MODULE MCUnionFind ----------------------------
(* An instance of UnionFind for TLC. *)
EXTENDS UnionFind

MCItems == 1 .. 5
=============================================================================
