------------------------- MODULE ConstantExpressions -------------------------
(***************************************************************************)
(* Scalar expressions: how semantic_analyzer.cc types them and the three   *)
(* evaluators that compute them at compile time (constant_evaluator.cc for *)
(* static fields, the analyzer's own for array lengths, hir_verifier.cc's  *)
(* for what the evaluator claims).                                         *)
(*                                                                         *)
(* An expression is a tree of records: k its kind, op its operator or      *)
(* mode, to the target of a conversion, text of a literal, sym of a name,  *)
(* l and r its operands, t the type the analyzer gives it ("error" for the *)
(* error type).  A symbol is a static field of the program (its index), a  *)
(* constant of an imported package or an enum case (with its bits), or     *)
(* something else ("instance").                                            *)
(***************************************************************************)
EXTENDS ScalarConstants

CONSTANTS MaxConstantNodes, MaxConstantDepth

NoText == [kind |-> "none", num |-> 0, frac |-> 0, exp |-> 0, suffix |-> "none", long |-> FALSE]
NoSymbol == [kind |-> "none", id |-> 0, type |-> "none", bits |-> 0]
Nil == [k |-> "nil"]
Node(k) == [k |-> k, op |-> "none", to |-> "none", text |-> NoText, sym |-> NoSymbol,
            l |-> Nil, r |-> Nil, t |-> "none"]

Signs == {"+", "-"}
Operands(e) == SelectSeq(<<e.l, e.r>>, LAMBDA o : o.k # "nil")    \* children
RECURSIVE Ungroup(_), NodeCount(_), Depth(_), EligibleSyntax(_)
Ungroup(e) == IF e.k = "group" THEN Ungroup(e.l) ELSE e

-----------------------------------------------------------------------------
(* preflight_constant_expression: what may be analyzed as a constant at all. *)

NodeCount(e) == 1 + (IF e.l.k = "nil" THEN 0 ELSE NodeCount(e.l))
                  + (IF e.r.k = "nil" THEN 0 ELSE NodeCount(e.r))
Depth(e) == 1 + Max({0} \cup {Depth(Operands(e)[i]) : i \in DOMAIN Operands(e)})
EligibleSyntax(e) ==
  /\ e.k \in {"literal", "name", "member", "unary", "binary", "conv", "mode", "group"}
  /\ e.k = "member" => Ungroup(e.l).k = "name"
  /\ ~ e.text.long
  /\ \A i \in DOMAIN Operands(e) : EligibleSyntax(Operands(e)[i])
PreflightConstantExpression(e) ==
  /\ EligibleSyntax(e)
  /\ NodeCount(e) <= MaxConstantNodes
  /\ Depth(e) <= MaxConstantDepth

-----------------------------------------------------------------------------
(* Numeric literal expressions: a literal under signs and parentheses. *)

RECURSIVE IsNumericLiteral(_), IsContextual(_), SignedLiteral(_, _)
IsNumericLiteral(e) ==
  CASE e.k = "literal" -> e.text.kind \in {"int", "float"}
    [] e.k = "unary" -> e.op \in Signs /\ IsNumericLiteral(e.l)
    [] e.k = "group" -> IsNumericLiteral(e.l)
    [] OTHER -> FALSE
IsContextual(e) ==
  CASE e.k = "literal" -> e.text.kind \in {"int", "float"} /\ e.text.suffix = "none"
    [] e.k = "unary" -> e.op \in Signs /\ IsContextual(e.l)
    [] e.k = "group" -> IsContextual(e.l)
    [] OTHER -> FALSE
\* numeric_literal: the literal below, its signs from the outermost one on.
SignedLiteral(e, signs) ==
  CASE e.k = "group" -> SignedLiteral(e.l, signs)
    [] e.k = "unary" -> SignedLiteral(e.l, Append(signs, e.op))
    [] OTHER -> [literal |-> e, signs |-> signs]

IntegerLiteralFits(text, t, negated) ==
  /\ Integral(t)
  /\ ~ (negated /\ ~ Signed(t))
  /\ text.num <= HostMax
  /\ text.num <= MaximumMagnitude(negated, t)

\* numeric_literal_expression_fits and numeric_literal_conversion_fits: signs
\* cancel, whatever the operations between them would do.
RECURSIVE ExpressionFits(_, _, _), ConversionFits(_, _, _)
ExpressionFits(e, t, negated) ==
  CASE e.k = "literal" ->
         IF e.text.kind = "int" THEN IntegerLiteralFits(e.text, t, negated)
         ELSE e.text.kind = "float" /\ Floating(t) /\ ScalarLiteral(e.text, t, FALSE).ok
    [] e.k = "unary" /\ e.op \in Signs -> ExpressionFits(e.l, t, negated # (e.op = "-"))
    [] e.k = "group" -> ExpressionFits(e.l, t, negated)
    [] OTHER -> FALSE
ConversionFits(e, t, negated) ==
  CASE e.k = "literal" -> ScalarLiteral(e.text, t, negated).ok
    [] e.k = "unary" /\ e.op \in Signs -> ConversionFits(e.l, t, negated # (e.op = "-"))
    [] e.k = "group" -> ConversionFits(e.l, t, negated)
    [] OTHER -> FALSE

\* The literal expression e, every part of it of type t.
RECURSIVE Retype(_, _)
Retype(e, t) ==
  IF e.k = "literal" THEN [e EXCEPT !.t = t] ELSE [e EXCEPT !.t = t, !.l = Retype(e.l, t)]

Contextualizes(e, t) == IsContextual(e) /\ ExpressionFits(e, t, FALSE)
ContextualizeNumericExpression(e, t) == IF Contextualizes(e, t) THEN Retype(e, t) ELSE e

\* numeric_literal_expression_constant, of a typed expression.
LiteralConstant(s) == ScalarSignedLiteral(s.literal.text, s.literal.t, s.signs)

-----------------------------------------------------------------------------
(* Typing. *)

CommonNumericType(a, b) ==
  CASE ~ Numeric(a) \/ ~ Numeric(b) -> "none"
    [] a = b -> a
    [] CanWidenNumeric(a, b) -> b
    [] CanWidenNumeric(b, a) -> a
    [] OTHER -> "none"
IsAssignable(t, s) == t = s \/ CanWidenNumeric(s, t)

AnalyzeLiteral(e, expected, negated, defer) ==
  LET suffix == e.text.suffix
      t == CASE e.text.kind = "int" ->
                  IF suffix # "none" THEN suffix
                  ELSE IF Integral(expected) THEN expected ELSE "int32"
             [] e.text.kind = "float" ->
                  IF suffix # "none" THEN suffix
                  ELSE IF Floating(expected) THEN expected ELSE "float64"
             [] OTHER -> e.text.kind
      fits == CASE e.text.kind = "int" -> IntegerLiteralFits(e.text, t, negated)
                [] e.text.kind = "float" -> ScalarLiteral(e.text, t, FALSE).ok
                [] OTHER -> TRUE
  IN [e EXCEPT !.t = IF (~ defer \/ expected # "none") /\ ~ fits THEN "error" ELSE t]

UnaryType(op, t) ==
  CASE op = "!" /\ t = "bool" -> "bool"
    [] op \in Signs /\ Numeric(t) -> t
    [] op = "~" /\ Integral(t) -> t
    [] OTHER -> "error"

\* common_binary_numeric_type: the common type, the operands as it types them.
WithCommonType(l, r, common) ==
  CASE common # "none" ->
         [t |-> common, l |-> ContextualizeNumericExpression(l, common),
          r |-> ContextualizeNumericExpression(r, common)]
    [] Numeric(r.t) /\ Contextualizes(l, r.t) -> [t |-> r.t, l |-> Retype(l, r.t), r |-> r]
    [] Numeric(l.t) /\ Contextualizes(r, l.t) -> [t |-> l.t, l |-> l, r |-> Retype(r, l.t)]
    [] OTHER -> [t |-> "none", l |-> l, r |-> r]

\* check_shift_literal: a literal count is checked against the value's width.
ShiftLiteralFits(count, t) ==
  LET s == SignedLiteral(count, <<>>)
      negative == /\ s.literal.text.num # 0
                  /\ Cardinality({i \in DOMAIN s.signs : s.signs[i] = "-"}) % 2 = 1
  IN IsNumericLiteral(count) /\ s.literal.text.kind = "int" /\ s.literal.text.num <= HostMax
       => ~ negative /\ s.literal.text.num < BitWidth(t)

FinishBinary(e, l, r, c) ==
  LET common == [e EXCEPT !.l = c.l, !.r = c.r, !.t = c.t]
      boolean == [e EXCEPT !.l = c.l, !.r = c.r, !.t = "bool"]
      error == [e EXCEPT !.l = c.l, !.r = c.r, !.t = "error"]
  IN CASE l.t = "error" \/ r.t = "error" -> [error EXCEPT !.l = l, !.r = r]
       [] e.op \in {"+", "-", "*", "/"} -> IF c.t # "none" THEN common ELSE error
       [] e.op \in {"%", "&", "|", "^"} -> IF Integral(c.t) THEN common ELSE error
       [] e.op \in {"<<", ">>"} ->
            [e EXCEPT !.l = l, !.r = r,
                      !.t = IF Integral(l.t) /\ Integral(r.t) /\ ShiftLiteralFits(r, l.t)
                            THEN l.t ELSE "error"]
       [] e.op \in {"==", "!="} ->
            IF c.t # "none" \/ IsAssignable(l.t, r.t) \/ IsAssignable(r.t, l.t)
            THEN boolean ELSE error
       [] e.op \in Comparisons -> IF c.t # "none" THEN boolean ELSE error
       [] OTHER -> [e EXCEPT !.l = l, !.r = r,
                             !.t = IF l.t = "bool" /\ r.t = "bool" THEN "bool" ELSE "error"]

FinishNumericConversion(e, v) ==
  LET fits == IF IsContextual(e.l) THEN ConversionFits(e.l, e.to, FALSE)
              ELSE LET s == SignedLiteral(v, <<>>) c == LiteralConstant(s)
                   IN c.ok /\ ConvertScalar(c.bits, s.literal.t, e.to).ok
  IN IF v.t = "error" \/ ~ Numeric(v.t) \/ ~ Numeric(e.to)
        \/ (IsNumericLiteral(e.l) /\ ~ fits)
     THEN [e EXCEPT !.l = v, !.t = "error"]
     ELSE [e EXCEPT !.l = IF IsContextual(e.l) THEN Retype(v, e.to) ELSE v, !.t = e.to]

\* analyze_expression: `expected` the type the context supplies, `negated` whether
\* a minus stands directly before, `defer` whether the range of a literal is
\* checked later.
RECURSIVE Analyze(_, _, _, _)
AnalyzeRight(e, l, context, defer) ==
  LET r == Analyze(e.r,
                   CASE e.op \in {"<<", ">>"} -> "none"
                     [] context # "none" -> context
                     [] Numeric(l.t) -> l.t
                     [] OTHER -> "none", FALSE, defer)
  IN FinishBinary(e, l, r, WithCommonType(l, r, CommonNumericType(l.t, r.t)))
AnalyzeUnary(e, v) == [e EXCEPT !.l = v, !.t = UnaryType(e.op, v.t)]
AnalyzeIntegerConversion(e, v) ==
  [e EXCEPT !.l = v, !.t = IF Integral(e.to) /\ Integral(v.t) THEN e.to ELSE "error"]
AnalyzeGroup(e, v) == [e EXCEPT !.l = v, !.t = v.t]
Analyze(e, expected, negated, defer) ==
  CASE e.k = "literal" -> AnalyzeLiteral(e, expected, negated, defer)
    [] e.k \in {"name", "member"} ->
         [e EXCEPT !.t = IF e.sym.kind = "none" THEN "error" ELSE e.sym.type]
    [] e.k = "unary" ->
         AnalyzeUnary(e, Analyze(e.l, IF e.op \in Signs THEN expected ELSE "none",
                                 e.op = "-", defer))
    [] e.k = "binary" ->
         LET context == IF Numeric(expected) THEN expected ELSE "none"
         IN AnalyzeRight(e, Analyze(e.l, context, FALSE, defer), context, defer)
    [] e.k = "conv" ->
         FinishNumericConversion(e, Analyze(e.l, "none", FALSE, defer \/ IsContextual(e.l)))
    [] e.k = "mode" ->
         AnalyzeIntegerConversion(e, Analyze(e.l, "none", FALSE, defer))
    [] e.k = "group" -> AnalyzeGroup(e, Analyze(e.l, expected, negated, defer))
    [] OTHER -> [e EXCEPT !.t = "error"]

\* Every expression of a typed tree has a type.
RECURSIVE WellTyped(_)
WellTyped(e) ==
  /\ e.t # "error"
  /\ e.k \in {"unary", "binary", "conv", "mode", "group"} => WellTyped(e.l)
  /\ e.k = "binary" => WellTyped(e.r)

-----------------------------------------------------------------------------
(* The evaluators: a value of a type, or the error.  `constants` are the   *)
(* static_constant of the program's static fields.                         *)

Value(t, c) == [ok |-> c.ok, bits |-> c.bits, error |-> c.error, type |-> t]
Failed(e) == Value("error", Error(e))
SymbolConstant(sym, constants) ==
  IF sym.kind = "own" THEN constants[sym.id] ELSE Value(sym.type, Ok(sym.bits))

ShortCircuits(op, left) == (op = "&&" /\ left.bits = 0) \/ (op = "||" /\ left.bits # 0)

Converted(v, t) ==
  IF v.ok THEN Value(t, ConvertScalar(v.bits, v.type, t)) ELSE v
ConvertedByMode(v, t, mode) ==
  IF v.ok THEN Value(t, ConvertIntegerMode(v.bits, v.type, t, mode)) ELSE v
AppliedUnary(op, t, v) == IF v.ok THEN Value(t, UnaryScalar(op, t, v.bits)) ELSE v
CombineCommon(op, t, l, r, common) ==
  IF ~ l.ok \/ ~ r.ok THEN Failed("kInvalidOperation")
  ELSE Value(t, BinaryScalar(op, common, l.bits, r.bits, common))
AppliedBinary(op, t, l, r) ==
  LET common == IF CanWidenNumeric(l.type, r.type) THEN r.type ELSE l.type
  IN IF ~ r.ok THEN r
     ELSE IF op \in {"<<", ">>"}
     THEN Value(t, BinaryScalar(op, l.type, l.bits, r.bits, r.type))
     ELSE CombineCommon(op, t, ConvertScalar(l.bits, l.type, common),
                        ConvertScalar(r.bits, r.type, common), common)

\* ConstantEvaluator::expression
RECURSIVE Evaluate(_, _), EvaluateRight(_, _, _)
EvaluateRight(e, left, constants) ==
  IF ~ left.ok THEN left
  ELSE IF ShortCircuits(e.op, left) THEN Value(e.t, Ok(IF left.bits # 0 THEN 1 ELSE 0))
  ELSE AppliedBinary(e.op, e.t, left, Evaluate(e.r, constants))
EvaluateLiteral(s, t) == Value(t, ScalarSignedLiteral(s.literal.text, t, s.signs))
Evaluate(e, constants) ==
  CASE IsNumericLiteral(e) -> EvaluateLiteral(SignedLiteral(e, <<>>), e.t)
    [] e.k = "literal" -> Value(e.t, ScalarLiteral(e.text, e.t, FALSE))
    [] e.k = "group" -> Evaluate(e.l, constants)
    [] e.k \in {"name", "member"} -> SymbolConstant(e.sym, constants)
    [] e.k = "conv" ->
         IF IsNumericLiteral(e.l) /\ SignedLiteral(e.l, <<>>).literal.text.suffix = "none"
         THEN EvaluateLiteral(SignedLiteral(e.l, <<>>), e.t)
         ELSE Converted(Evaluate(e.l, constants), e.t)
    [] e.k = "mode" -> ConvertedByMode(Evaluate(e.l, constants), e.t, e.op)
    [] e.k = "unary" -> AppliedUnary(e.op, e.t, Evaluate(e.l, constants))
    [] OTHER -> EvaluateRight(e, Evaluate(e.l, constants), constants)

\* SemanticAnalyzer::scalar_constant_expression
RECURSIVE ScalarConstantExpression(_, _)
SameType(v, t) == IF v.ok /\ v.type # t THEN Failed("kInvalidOperation") ELSE v
Combinable(op, t, l, r) ==
  IF op \in {"<<", ">>"} THEN l.type = t
  ELSE l.type = r.type \/ CanWidenNumeric(l.type, r.type) \/ CanWidenNumeric(r.type, l.type)
CheckedBinary(op, t, l, r) ==
  IF r.ok /\ ~ Combinable(op, t, l, r) THEN Failed("kInvalidOperation")
  ELSE AppliedBinary(op, t, l, r)
AnalyzerRight(e, left, constants) ==
  IF ~ left.ok THEN left
  ELSE IF ShortCircuits(e.op, left)
  THEN IF e.t = "bool" THEN Value(e.t, Ok(left.bits)) ELSE Failed("kInvalidOperation")
  ELSE CheckedBinary(e.op, e.t, left, ScalarConstantExpression(e.r, constants))
ScalarConstantExpression(e, constants) ==
  CASE e.t = "error" -> Failed("kInvalidOperation")
    [] IsNumericLiteral(e) ->
         LET s == SignedLiteral(e, <<>>) IN Value(s.literal.t, LiteralConstant(s))
    [] e.k = "literal" -> Value(e.t, ScalarLiteral(e.text, e.t, FALSE))
    [] e.k = "group" -> ScalarConstantExpression(e.l, constants)
    [] e.k \in {"name", "member"} -> SymbolConstant(e.sym, constants)
    [] e.k = "conv" -> Converted(ScalarConstantExpression(e.l, constants), e.t)
    [] e.k = "mode" -> ConvertedByMode(ScalarConstantExpression(e.l, constants), e.t, e.op)
    [] e.k = "unary" ->
         AppliedUnary(e.op, e.t, SameType(ScalarConstantExpression(e.l, constants), e.t))
    [] OTHER -> AnalyzerRight(e, ScalarConstantExpression(e.l, constants), constants)
=============================================================================
