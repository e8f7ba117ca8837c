---------------------------- MODULE MCGenerator ----------------------------
(* An instance of Generator for TLC: days 1 and 2, each a month. *)
EXTENDS Generator

Person(since, change, systems) == [since |-> since, change |-> change, systems |-> systems]

MCPeople ==
  {Person(0, 2, {"crm"}), Person(1, 0, {"ticketing"}), Person(1, 2, {"email"}),
   Person(2, 2, {"merch"})}
=============================================================================
