------------------------------ MODULE PhiEdges ------------------------------
(***************************************************************************)
(* The LLVM control-flow graph the back end writes for a MIR body          *)
(* (src/backend/llvm_ir.cc, BodyEmitter::emit): one LLVM block per MIR     *)
(* block, bridge blocks on edges into aggregate phis and from switches     *)
(* into phis, a guard block for enum defaults, and the labels a scalar phi *)
(* names.  Some instructions (lifted nullable conversions, console, file   *)
(* and parse intrinsics) are themselves written as several LLVM blocks, so *)
(* that the terminator ends up in another block than the label bbN.        *)
(***************************************************************************)
EXTENDS Integers, Sequences, FiniteSets, SequencesExt

CONSTANTS
  None,    \* "no block"
  Bodies   \* the MIR bodies under study

(* A body is a sequence of blocks, each a record
     term    : "jump", "branch", "switch" or "leave"
     targets : the jump's, branch's or switch cases' targets
     default, invalid : of a switch, or None
     phi     : "none", "scalar", "aggregate" or "both"
     split   : an instruction of the block is written as several blocks. *)

\* What lowering and the MIR verifier guarantee of a block: targets are blocks,
\* a branch has two different ones (mir.cc creates both for it), and only a
\* switch has a default.
WellFormedBlock(b, blocks) ==
  /\ b.targets \in Seq(blocks)
  /\ b.term \in {"jump", "branch", "switch", "leave"}
  /\ b.term # "switch" => IsInjective(b.targets) /\ b.default = None /\ b.invalid = None
  /\ b.term = "switch" => b.default \in blocks /\ b.invalid \in blocks \cup {None}

ASSUME BodiesAssumption ==
  /\ None \notin Nat
  /\ \A b \in Bodies :
       /\ Len(b) \in Nat /\ DOMAIN b = 1..Len(b)
       /\ \A k \in DOMAIN b : WellFormedBlock(b[k], DOMAIN b)

VARIABLES
  body,
  at,         \* next MIR block to write; past the last, the bridges
  labels,     \* labels written so far, in order
  edges,      \* branches written so far, <<label, label>>
  incoming    \* for each block, the labels its scalar phis name

vars == <<body, at, labels, edges, incoming>>

Block == DOMAIN body
IsLeave(b) == body[b].term = "leave"
Successors(b) ==
  Range(body[b].targets) \cup ({body[b].default, body[b].invalid} \ {None})
Predecessors(b) == {p \in Block : b \in Successors(p)}

HasPhi(b) == body[b].phi # "none"
HasAggregatePhi(b) == body[b].phi \in {"aggregate", "both"}
HasScalarPhi(b) == body[b].phi \in {"scalar", "both"}

\* Mutant: switches branch straight to blocks with scalar phis.
NeedsEdgeForAggregates(p, s) == HasAggregatePhi(s)

\* needs_edge_block.
NeedsEdge(p, s) ==
  HasAggregatePhi(s) \/ (body[p].term = "switch" /\ HasPhi(s))

\* The names of LLVM blocks: of a MIR block, of the block its code ends in when
\* an instruction splits it, of the guard of a default and of a bridge.
BlockLabel(b) == <<"bb", b>>
JoinLabel(b) == <<"join", b>>
GuardLabel(b) == <<"guard", b>>
BridgeLabel(p, s) == <<"edge", p, s>>

\* edge_label: where p branches to for successor s.
EdgeLabel(p, s) == IF NeedsEdge(p, s) THEN BridgeLabel(p, s) ELSE BlockLabel(s)

\* emit_phi: the label a scalar phi of s names for predecessor p.
PhiLabel(p, s) == IF NeedsEdge(p, s) THEN BridgeLabel(p, s) ELSE BlockLabel(p)

\* The LLVM block that holds the terminator of b.
EndLabel(b) == IF body[b].split THEN JoinLabel(b) ELSE BlockLabel(b)

\* Mutant: invalid enum tags take the default without a check.
GuardsDefaultNever(b) == FALSE

GuardsDefault(b) ==
  body[b].invalid # None /\ body[b].invalid # body[b].default

\* emit_terminator: the branches it writes and, for a guarded default, the
\* guard block.
Branches(b) ==
  LET from == EndLabel(b)
      to(target) == <<from, EdgeLabel(b, target)>>
      direct == [k \in 1..Len(body[b].targets) |-> to(body[b].targets[k])]
      guard == GuardLabel(b)
  IN  IF body[b].term # "switch" THEN direct
      ELSE IF GuardsDefault(b)
      THEN direct \o << <<from, guard>>,
                        <<guard, EdgeLabel(b, body[b].default)>>,
                        <<guard, EdgeLabel(b, body[b].invalid)>> >>
      ELSE Append(direct, to(body[b].default))

BlockLabels(b) ==
  << BlockLabel(b) >>
  \o (IF body[b].split THEN << JoinLabel(b) >> ELSE << >>)
  \o (IF body[b].term = "switch" /\ GuardsDefault(b)
      THEN << GuardLabel(b) >> ELSE << >>)

\* The branches of a block: into the block an instruction splits off, and
\* those of its terminator.
BlockEdges(b) ==
  (IF body[b].split THEN << <<BlockLabel(b), JoinLabel(b)>> >> ELSE << >>)
  \o Branches(b)

\* One MIR block: its label, its scalar phis, its code and its terminator.
EmitBlock ==
  /\ at \in Block
  /\ labels' = labels \o BlockLabels(at)
  /\ edges' = edges \o BlockEdges(at)
  /\ incoming' = [incoming EXCEPT ![at] =
       IF HasScalarPhi(at)
       THEN SetToSeq({PhiLabel(p, at) : p \in Predecessors(at)})
       ELSE << >>]
  /\ at' = at + 1
  /\ UNCHANGED body

\* The bridges of predecessor p, one per unique successor.
Bridges(p) == SetToSeq({s \in Successors(p) : NeedsEdge(p, s)})

\* emit_phi_edges, for the predecessor whose turn it is.
EmitEdges ==
  LET p == at - Len(body)
      bridges == Bridges(p)
  IN  /\ at > Len(body) /\ p \in Block
      /\ labels' = labels \o [k \in 1..Len(bridges) |-> BridgeLabel(p, bridges[k])]
      /\ edges' = edges \o [k \in 1..Len(bridges) |->
                    <<BridgeLabel(p, bridges[k]), BlockLabel(bridges[k])>>]
      /\ at' = at + 1
      /\ UNCHANGED <<body, incoming>>

Done == at > 2 * Len(body)

Init ==
  /\ body \in Bodies
  /\ at = 1 /\ labels = << >> /\ edges = << >>
  /\ incoming = [b \in Block |-> << >>]

Next == EmitBlock \/ EmitEdges \/ (Done /\ UNCHANGED vars)

Spec == Init /\ [][Next]_vars

-----------------------------------------------------------------------------
\* How often label occurs as the origin of a branch to block b.
BranchesFrom(label, b) ==
  Cardinality({k \in DOMAIN edges : edges[k] = <<label, BlockLabel(b)>>})

\* LLVM's rule for a phi: one entry for every branch into the block, by the
\* label of the block the branch is in.
PhiMatches(b) ==
  /\ \A label \in Range(incoming[b]) : BranchesFrom(label, b) = 1
  /\ \A k \in DOMAIN edges :
       edges[k][2] = BlockLabel(b) => edges[k][1] \in Range(incoming[b])

\* The scalar phis of every block name each LLVM block that branches to it
\* exactly once: grouped labels, guarded defaults and aggregate phis included.
\* Excepted are the blocks an instruction splits in two and that branch to
\* the phi directly: emit_phi names them by their first label (README,
\* disagreements).
PhiNamesPredecessors ==
  Done => \A b \in Block :
    /\ HasScalarPhi(b)
    /\ \A p \in Predecessors(b) : body[p].split => NeedsEdge(p, b)
    => PhiMatches(b)

\* Each label is written once and each branch goes to a written one, the MIR
\* successors of a block are exactly the blocks its LLVM terminator reaches
\* through guard and bridge, and an invalid enum tag never enters the default:
\* with a guard, the switch itself does not branch to it unless a case does.
ReachesSuccessors ==
  Done =>
    /\ IsInjective(labels)
    /\ \A k \in DOMAIN edges : edges[k][2] \in Range(labels)
    /\ \A b \in Block :
        LET inner == {EndLabel(b), GuardLabel(b)}
                     \cup {BridgeLabel(b, s) : s \in Successors(b)}
            reached == {edges[k][2] : k \in {j \in DOMAIN edges :
                                               edges[j][1] \in inner}}
        IN  /\ {s \in Block : BlockLabel(s) \in reached} = Successors(b)
            /\ body[b].invalid # None /\ body[b].default # body[b].invalid
               /\ body[b].default \notin Range(body[b].targets)
               => \A k \in DOMAIN edges :
                    edges[k] # <<EndLabel(b), EdgeLabel(b, body[b].default)>>
=============================================================================
