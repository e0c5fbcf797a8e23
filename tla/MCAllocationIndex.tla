------------------------- MODULE MCAllocationIndex -------------------------
(***************************************************************************)
(* AllocationIndex for TLC: an initial table of two slots so that both     *)
(* growth and long collision chains happen with few objects.               *)
(***************************************************************************)
EXTENDS AllocationIndex, TLC

\* The next hash values collide at every capacity up to eight, and chains
\* that start at the last slot wrap around to the first.
MCHashValues == {0, 6, 7}

\* Objects differ only in their hash, which permutes with them.
ObjectSymmetry == Permutations(Object)
=============================================================================
