---------------------------- MODULE MCPhiEdges -----------------------------
(***************************************************************************)
(* PhiEdges for TLC: every body of four blocks whose first block jumps,    *)
(* branches or switches, with grouped labels, shared defaults and invalid  *)
(* targets, and every placement of scalar and aggregate phis and of split  *)
(* instructions.                                                           *)
(***************************************************************************)
EXTENDS PhiEdges

Term(term, targets, default, invalid) ==
  [term |-> term, targets |-> targets, default |-> default, invalid |-> invalid]
Leave == Term("leave", << >>, None, None)
Jump(b) == Term("jump", <<b>>, None, None)
BranchTo(b, c) == Term("branch", <<b, c>>, None, None)

FirstTerms ==
  {Jump(4), BranchTo(2, 3), BranchTo(2, 4), BranchTo(3, 4)} \cup
  {Term("switch", cases, default, invalid) :
     cases \in {<< >>, <<2, 2>>, <<2, 3>>, <<3, 4>>, <<4, 4>>},
     default \in 2..4, invalid \in {2, 3, 4, None}}

WithPhi(term, phi, split) ==
  [term |-> term.term, targets |-> term.targets, default |-> term.default,
   invalid |-> term.invalid, phi |-> phi, split |-> split]

\* A phi needs a predecessor.
Placed(blocks) ==
  \A b \in 1..4 : blocks[b].phi # "none" =>
    \E p \in 1..4 :
      b \in Range(blocks[p].targets) \cup {blocks[p].default, blocks[p].invalid}

MCBodies ==
  {blocks \in
     {<<WithPhi(first, "none", s1), WithPhi(second, "none", s2),
        WithPhi(third, phi3, FALSE), WithPhi(Leave, phi4, FALSE)>> :
        first \in FirstTerms, second \in {Jump(4), BranchTo(3, 4), Leave},
        third \in {Jump(4), Leave},
        phi3 \in {"none", "scalar", "both"},
        phi4 \in {"none", "scalar", "aggregate", "both"},
        s1 \in BOOLEAN, s2 \in BOOLEAN} : Placed(blocks)}
=============================================================================
