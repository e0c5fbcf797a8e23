-------------------------- MODULE ConstantVerifier --------------------------
(***************************************************************************)
(* hir_verifier.cc's own check of static constants: limits, the structure  *)
(* of each initializer, an independent walk for cycles, and a second       *)
(* evaluation whose result must be the claimed one.  The expression is the *)
(* one HIR lowering makes of the typed tree: a literal has lost its suffix *)
(* and kept its type, an enum case has become a literal.                   *)
(***************************************************************************)
EXTENDS ConstantExpressions

HasOperands == {"unary", "binary", "conv", "mode", "group"}

\* constant_literal: a numeric literal under signs and groups of its type.
RECURSIVE IsConstantLiteral(_)
IsConstantLiteral(e) ==
  CASE e.k = "literal" -> e.text.kind \in {"int", "float"}
    [] e.k = "group" -> e.t = e.l.t /\ IsConstantLiteral(e.l)
    [] e.k = "unary" -> e.op \in Signs /\ e.t = e.l.t /\ IsConstantLiteral(e.l)
    [] OTHER -> FALSE
LiteralFits(s, t) ==
  ScalarLiteral(s.literal.text, t, s.signs # <<>> /\ s.signs[Len(s.signs)] = "-").ok

BitsOfOne(t) == IF Floating(t) THEN Bias(t) * 2 ^ Fraction(t) ELSE 1
BinarySound(e, a, b) ==
  LET shift == e.op \in {"<<", ">>"}
      common == IF ~ shift /\ CanWidenNumeric(a, b) THEN b ELSE a
      boolean == e.op \in Comparisons \cup {"&&", "||"}
  IN /\ shift \/ a = b \/ CanWidenNumeric(a, b) \/ CanWidenNumeric(b, a)
     /\ e.t = IF boolean THEN "bool" ELSE common
     /\ BinaryScalar(e.op, common, BitsOfOne(common), BitsOfOne(common),
                     IF shift THEN b ELSE common).ok

\* The walk of verify_constants over one initializer.
RECURSIVE Sound(_)
Sound(e) ==
  IF IsConstantLiteral(e) THEN LiteralFits(SignedLiteral(e, <<>>), e.t)
  ELSE /\ IsScalarConstantType(e.t)
       /\ CASE e.k \in {"name", "member"} ->
                 e.sym.kind \in {"own", "import", "enum"} /\ e.sym.type = e.t
            [] e.k = "group" -> e.t = e.l.t /\ Sound(e.l)
            [] e.k = "unary" -> e.t = e.l.t /\ UnaryScalar(e.op, e.t, 0).ok /\ Sound(e.l)
            [] e.k = "binary" -> BinarySound(e, e.l.t, e.r.t) /\ Sound(e.l) /\ Sound(e.r)
            [] e.k = "conv" ->
                 IF IsConstantLiteral(e.l) THEN LiteralFits(SignedLiteral(e.l, <<>>), e.t)
                 ELSE Sound(e.l)
            [] e.k = "mode" -> Integral(e.t) /\ Integral(e.l.t) /\ Sound(e.l)
            [] e.k = "literal" -> ScalarLiteral(e.text, e.t, FALSE).ok
            [] OTHER -> FALSE

\* verify_expressions: a literal has a value of its type; an integer literal
\* that has none may have one under the signs above it, taken together.
LiteralCanonicalUnsigned(text, t, negated) == Numeric(t) /\ ScalarLiteral(text, t, FALSE).ok
LiteralCanonical(text, t, negated) ==
  /\ Numeric(t)
  /\ \/ ScalarLiteral(text, t, FALSE).ok
     \/ text.kind = "int" /\ negated /\ ScalarLiteral(text, t, TRUE).ok
RECURSIVE LiteralsCanonical(_, _)
LiteralsCanonical(e, negated) ==
  CASE e.k = "literal" /\ e.text.kind \in {"int", "float"} ->
         LiteralCanonical(e.text, e.t, negated)
    [] e.k = "group" -> LiteralsCanonical(e.l, negated)
    [] e.k = "unary" /\ e.op \in Signs -> LiteralsCanonical(e.l, negated # (e.op = "-"))
    [] e.k \in HasOperands ->
         /\ LiteralsCanonical(e.l, FALSE)
         /\ e.k = "binary" => LiteralsCanonical(e.r, FALSE)
    [] OTHER -> TRUE

\* constant_expression: the suffix of a converted literal is no longer there.
RECURSIVE ConstantExpression(_, _)
VerifierRight(e, left, constants) ==
  IF ~ left.ok THEN left
  ELSE IF ShortCircuits(e.op, left)
  THEN IF e.t = "bool" THEN Value(e.t, Ok(left.bits)) ELSE Failed("kInvalidOperation")
  ELSE CheckedBinary(e.op, e.t, left, ConstantExpression(e.r, constants))
ConstantExpression(e, constants) ==
  CASE IsConstantLiteral(e) -> EvaluateLiteral(SignedLiteral(e, <<>>), e.t)
    [] e.k = "literal" -> Value(e.t, ScalarLiteral(e.text, e.t, FALSE))
    [] e.k = "group" -> ConstantExpression(e.l, constants)
    [] e.k \in {"name", "member"} -> SymbolConstant(e.sym, constants)
    [] e.k = "conv" ->
         IF IsConstantLiteral(e.l) THEN EvaluateLiteral(SignedLiteral(e.l, <<>>), e.t)
         ELSE Converted(ConstantExpression(e.l, constants), e.t)
    [] e.k = "mode" -> ConvertedByMode(ConstantExpression(e.l, constants), e.t, e.op)
    [] e.k = "unary" ->
         AppliedUnary(e.op, e.t, SameType(ConstantExpression(e.l, constants), e.t))
    [] e.k = "binary" -> VerifierRight(e, ConstantExpression(e.l, constants), constants)
    [] OTHER -> Failed("kInvalidOperation")

\* The value of one field, the claim it is compared with.
AgreesWith(v, claim) ==
  /\ v.ok
  /\ v.type = claim.type \/ CanWidenNumeric(v.type, claim.type)
  /\ ConvertScalar(v.bits, v.type, claim.type) = Ok(claim.bits)
ClaimHolds(e, claim, constants) ==
  /\ claim.ok /\ IsValidScalarBits(claim.type, claim.bits)
  /\ AgreesWith(ConstantExpression(e, constants), claim)

\* The references of an expression, those of branches never taken included.
RECURSIVE References(_)
References(e) ==
  CASE e.k \in {"name", "member"} -> IF e.sym.kind = "own" THEN <<e.sym.id>> ELSE <<>>
    [] e.k = "binary" -> References(e.l) \o References(e.r)
    [] e.k \in HasOperands -> References(e.l)
    [] OTHER -> <<>>

\* The walk for cycles: `state` is 1 for a field on the stack, 2 once it is done.
RECURSIVE WalkFrom(_, _, _)
WalkFrom(edges, stack, state) ==
  LET top == stack[Len(stack)] next == top.next
  IN IF stack = <<>> THEN [cyclic |-> FALSE, state |-> state]
     ELSE IF next > Len(edges[top.node])
     THEN WalkFrom(edges, SubSeq(stack, 1, Len(stack) - 1), [state EXCEPT ![top.node] = 2])
     ELSE LET target == edges[top.node][next]
              moved == [stack EXCEPT ![Len(stack)].next = next + 1]
          IN CASE state[target] = 1 -> [cyclic |-> TRUE, state |-> state]
               [] state[target] = 2 -> WalkFrom(edges, moved, state)
               [] OTHER -> WalkFrom(edges, Append(moved, [node |-> target, next |-> 1]),
                                    [state EXCEPT ![target] = 1])
RECURSIVE WalkRoots(_, _, _)
WalkRoots(edges, root, walk) ==
  IF walk.cyclic \/ root > Len(edges) THEN walk
  ELSE IF walk.state[root] = 2 THEN WalkRoots(edges, root + 1, walk)
  ELSE WalkRoots(edges, root + 1,
                 WalkFrom(edges, <<[node |-> root, next |-> 1]>>, [walk.state EXCEPT ![root] = 1]))
HasCycle(edges) ==
  WalkRoots(edges, 1, [cyclic |-> FALSE, state |-> [i \in DOMAIN edges |-> 0]]).cyclic
=============================================================================
