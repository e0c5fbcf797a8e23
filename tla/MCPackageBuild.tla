--------------------------- MODULE MCPackageBuild ---------------------------
(***************************************************************************)
(* PackageBuild for TLC: an application that uses a library.               *)
(***************************************************************************)
EXTENDS PackageBuild, TLC

TwoPackages == {"lib", "app"}
TwoDirect == [p \in TwoPackages |-> IF p = "app" THEN {"lib"} ELSE {}]

ProcSymmetry == Permutations(Proc)
=============================================================================
