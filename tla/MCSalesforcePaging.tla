------------------------ MODULE MCSalesforcePaging ------------------------
(* An instance of SalesforcePaging for TLC. *)
EXTENDS SalesforcePaging

MCIds == 1 .. 4
=============================================================================
