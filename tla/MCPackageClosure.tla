------------------------- MODULE MCPackageClosure -------------------------
(***************************************************************************)
(* PackageClosure for TLC: every request over three packages.  One         *)
(* supplied digest and one other are enough, since a record either matches *)
(* the supplied artifact or it does not.                                   *)
(***************************************************************************)
EXTENDS PackageClosure

MCPinOf == [p \in Package |-> "supplied"]
=============================================================================
