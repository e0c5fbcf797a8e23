----------------------------- MODULE MCGcRoots -----------------------------
(***************************************************************************)
(* GcRoots for TLC: families of bodies shaped like the lowering of if,     *)
(* ??, loops and throwing calls, in which the placement of the uses,       *)
(* stores, loads and safepoints varies independently.                      *)
(***************************************************************************)
EXTENDS GcRoots, TLC

NoPhis == [r \in {} |-> Null]

Instruction(op, use, def, from, to) ==
  [op |-> op, use |-> use, def |-> def, from |-> from, to |-> to]
NewValue(v, operands) == Instruction("new", operands, {v}, None, None)
Copy(v, source) == Instruction("copy", {source}, {v}, source, None)
Patch(symbol, v) == Instruction("patch", {symbol, v}, {}, v, symbol)
Declare(symbol) == Instruction("declare", {}, {symbol}, None, None)
ReadOf(v) == Instruction("read", {v}, {}, None, None)
Safepoint == Instruction("call", {}, {}, None, None)
TryCall(error, storage) == Instruction("try", {}, {error}, None, storage)

Opt(bit, instruction) == IF bit THEN <<instruction>> ELSE << >>
BlockOf(phis, code, uses, next) ==
  [phis |-> phis, code |-> code, uses |-> uses, next |-> next]
BodyOf(blocks, params, memory) ==
  [blocks |-> blocks, params |-> params, storage |-> {"result"},
   memory |-> memory \cup {"param", "local", "result"},
   symbols |-> {"param", "local"}]

MCRoot == {"a", "b", "p", "q", "x", "e", "param", "local", "result"}

\* if/else joined by a phi: the phi's operands, the local and the parameter
\* are used on one side only, on both, after the join or not at all.
Diamonds ==
  {BodyOf(<<
     BlockOf(NoPhis, <<NewValue("a", {}), Copy("local", "a")>>
                     \o Opt(f[1], ReadOf("param")), {}, {2, 3}),
     BlockOf(NoPhis, <<NewValue("b", {"a"})>> \o Opt(f[2], Copy("local", "b")),
             {}, {4}),
     BlockOf(NoPhis, <<Safepoint>> \o Opt(f[3], ReadOf("param"))
                     \o Opt(f[4], Patch("local", "a")), {}, {4}),
     BlockOf([r \in {"p"} |-> (2 :> "b") @@ (3 :> "a")],
             <<Safepoint>> \o Opt(f[5], ReadOf("p"))
             \o Opt(f[6], Copy("x", "local")) \o <<Safepoint>>,
             IF f[6] THEN {"x"} ELSE {}, {}) >>,
     {"param"}, m) :
   f \in [1..6 -> BOOLEAN], m \in {{}, {"p", "a", "b"}}}

\* A loop whose header swaps two phis and whose body declares a local without
\* initializer, may assign it, and may read it.
Loops ==
  {BodyOf(<<
     BlockOf(NoPhis, <<NewValue("a", {})>> \o <<NewValue("b", {})>>, {}, {2}),
     BlockOf(("p" :> ((1 :> "a") @@ (4 :> IF f[1] THEN "q" ELSE "x"))) @@
             ("q" :> ((1 :> "b") @@ (4 :> "p"))),
             Opt(f[2], Safepoint), {}, {3, 5}),
     BlockOf(NoPhis, <<Declare("local"), NewValue("x", {"p"})>>
                     \o Opt(f[3], Copy("local", "x")), {}, {4}),
     BlockOf(NoPhis, Opt(f[4], ReadOf("local")) \o <<Safepoint>>
                     \o Opt(f[5], ReadOf("param")), {}, {2}),
     BlockOf(NoPhis, <<Safepoint>> \o Opt(f[6], ReadOf("q")), {"p"}, {}) >>,
     {"param"}, m) :
   f \in [1..6 -> BOOLEAN], m \in {{}, {"p", "q", "x"}}}

\* A throwing call in a loop: the error path returns the error, the success
\* path loads the result.
Calls ==
  {BodyOf(<<
     BlockOf(NoPhis, <<NewValue("a", {})>>, {}, {2}),
     BlockOf(NoPhis, <<TryCall("e", "result"), ReadOf("e")>>, {}, {3, 4}),
     BlockOf(NoPhis, <<Copy("b", "e")>>, {"b"}, {}),
     BlockOf(NoPhis, <<Copy("x", "result")>> \o Opt(f[1], Safepoint)
                     \o Opt(f[2], ReadOf("x"))
                     \o Opt(f[3], Copy("local", "x"))
                     \o Opt(f[4], ReadOf("a")) \o <<Safepoint>>, {},
             IF f[5] THEN {2, 5} ELSE {5}),
     BlockOf(NoPhis, <<Safepoint>> \o Opt(f[3], ReadOf("local")), {}, {}) >>,
     {}, m) :
   f \in [1..5 -> BOOLEAN], m \in {{}, {"x"}}}

MCBodies == Diamonds \cup Loops \cup Calls

-----------------------------------------------------------------------------
\* Reference liveness, by paths: a root is live at a point when some path from
\* it reaches a use before a definition.
Points == {<<b, k>> \in Block \X (1..7) : k <= Len(Code(b)) + 1}

UsedAt(r, point) ==
  LET b == point[1] k == point[2]
  IN  IF k <= Len(Code(b)) THEN r \in Code(b)[k].use
      ELSE \/ r \in body.blocks[b].uses
           \/ \E s \in Successors(b) : \E p \in PhiResults(s) : Phis(s)[p][b] = r

\* Points that follow without a definition of r in between.
Follows(r, point) ==
  LET b == point[1] k == point[2]
  IN  IF k <= Len(Code(b))
      THEN IF r \in Code(b)[k].def THEN {} ELSE {<<b, k + 1>>}
      ELSE {<<s, 1>> : s \in {t \in Successors(b) : r \notin PhiResults(t)}}

RECURSIVE Backwards(_, _)
Backwards(r, points) ==
  LET more == points \cup {q \in Points : Follows(r, q) \cap points # {}}
  IN  IF more = points THEN points ELSE Backwards(r, more)

LivePoints(r) == Backwards(r, {q \in Points : UsedAt(r, q)})

\* The sets of analyze_gc_liveness are exactly the roots with a path to a use:
\* nothing missing (a slot would be cleared early), nothing extra (garbage
\* would be kept).
AnalysisExact ==
  phase = "run" /\ at = 1 /\ pc = 1 =>
    \A r \in Tracked :
      LET points == LivePoints(r)
      IN  \A b \in Block :
            /\ r \in afterPhis[b] <=> <<b, 1>> \in points
            /\ \A k \in DOMAIN Code(b) :
                 r \in after[b][k] <=> <<b, k + 1>> \in points
=============================================================================
