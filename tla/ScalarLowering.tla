--------------------------- MODULE ScalarLowering ---------------------------
(***************************************************************************)
(* What a scalar expression computes when it is compiled into a function   *)
(* body: mir.cc's lowering of it, the instructions llvm_ir.cc emits, the   *)
(* guards runtime.cc ends the program with.  An integer instruction is     *)
(* modelled by its meaning on two's complement bits, a floating one by the *)
(* nearest value of the format, ties to even.                              *)
(***************************************************************************)
EXTENDS ConstantExpressions

\* What execution yields: a value; a guard that failed or an error thrown; an
\* infinity or NaN on the way; or a refusal of the back end.
Yield(status, t, bits) == [status |-> status, type |-> t, bits |-> bits]
Computed(t, bits) == Yield("value", t, bits)
Trap == Yield("trap", "none", 0)
NonFinite == Yield("nonfinite", "none", 0)
Refused == Yield("refused", "none", 0)

Number(bits, t) ==
  IF Signed(t) /\ bits >= 2 ^ (BitWidth(t) - 1) THEN bits - 2 ^ BitWidth(t) ELSE bits
Numbers(t) ==
  IF Signed(t) THEN -(2 ^ (BitWidth(t) - 1)) .. 2 ^ (BitWidth(t) - 1) - 1
  ELSE 0 .. 2 ^ BitWidth(t) - 1
Bits(n, t) == n % 2 ^ BitWidth(t)
Abs(n) == IF n < 0 THEN -n ELSE n

\* cloth_rt_require_integer_arithmetic, _numeric_conversion and _shift_count.
Guarded(valid, v) == IF valid THEN v ELSE Trap

-----------------------------------------------------------------------------
(* Floating instructions. *)

Significand(bits, t) ==
  (bits % 2 ^ Fraction(t)) + (IF ExponentField(bits, t) = 0 THEN 0 ELSE 2 ^ Fraction(t))
Scale(bits, t) == Max({1, ExponentField(bits, t)}) - Bias(t) - Fraction(t)
Negative(bits, t) == bits >= SignBit(t)
Key(bits, t) == IF Negative(bits, t) THEN SignBit(t) - bits ELSE bits
Infinity(t) == ExponentMask(t) * 2 ^ Fraction(t)
Pos(n) == IF n > 0 THEN n ELSE 0

\* The order of m * 2^s and n / d * 2^e.
Order(m, s, n, d, e) == m * d * 2 ^ Pos(s - e) - n * 2 ^ Pos(e - s)

\* The bits nearest to n / d * 2^e: of the values of the format around it the
\* closer one, of two as close the even one.  The infinity stands for the value
\* after the largest.
Rounded(low, n, d, e, t) ==
  LET half == Order(2 * Significand(low, t) + 1, Scale(low, t) - 1, n, d, e)
  IN IF half < 0 \/ (half = 0 /\ low % 2 = 1) THEN low + 1 ELSE low
Nearest(n, d, e, t) ==
  IF n = 0 THEN 0
  ELSE LET below == {b \in 0 .. Infinity(t) - 1 :
                       Order(Significand(b, t), Scale(b, t), n, d, e) <= 0}
       IN Rounded(Cardinality(below) - 1, n, d, e, t)
WithSign(negative, bits, t) ==
  IF bits = Infinity(t) THEN NonFinite
  ELSE Computed(t, bits + (IF negative THEN SignBit(t) ELSE 0))
RoundTo(negative, n, d, e, t) == WithSign(negative, Nearest(n, d, e, t), t)

Aligned(bits, t, e) ==
  (IF Negative(bits, t) THEN -1 ELSE 1) * Significand(bits, t) * 2 ^ (Scale(bits, t) - e)
FSum(t, n, e, negativeZero) == RoundTo(n < 0 \/ (n = 0 /\ negativeZero), Abs(n), 1, e, t)
FAdd(t, l, r) ==
  LET e == Min({Scale(l, t), Scale(r, t)})
  IN FSum(t, Aligned(l, t, e) + Aligned(r, t, e), e, Negative(l, t) /\ Negative(r, t))
FNeg(bits, t) == (bits + SignBit(t)) % 2 ^ BitWidth(t)
FMul(t, l, r) ==
  RoundTo(Negative(l, t) # Negative(r, t), Significand(l, t) * Significand(r, t), 1,
          Scale(l, t) + Scale(r, t), t)
FDiv(t, l, r) ==
  IF Significand(r, t) = 0 THEN NonFinite
  ELSE RoundTo(Negative(l, t) # Negative(r, t), Significand(l, t), Significand(r, t),
               Scale(l, t) - Scale(r, t), t)
Truncated(bits, t) ==                                          \* llvm.trunc
  LET m == Significand(bits, t) s == Scale(bits, t)
      n == IF s >= 0 THEN m * 2 ^ s ELSE m \div 2 ^ (-s)
  IN IF Negative(bits, t) THEN -n ELSE n
FResize(bits, s, t) ==                                         \* fpext, fptrunc
  RoundTo(Negative(bits, s), Significand(bits, s), 1, Scale(bits, s), t)

-----------------------------------------------------------------------------
(* Conversions. *)

\* trunc, sext, zext
Resized(bits, s, t) ==
  IF BitWidth(s) >= BitWidth(t) THEN bits % 2 ^ BitWidth(t) ELSE Bits(Number(bits, s), t)

\* emit_convert of kWidenNumeric
Widened(v, t) ==
  IF v.status # "value" \/ v.type = t THEN v
  ELSE IF Floating(v.type) THEN FResize(v.bits, v.type, t)
  ELSE Computed(t, Resized(v.bits, v.type, t))

\* The values emit_checked_numeric_conversion lets through, n the operand.
ConvertsInRange(n, s, t) ==
  CASE Signed(s) /\ ~ Signed(t) ->
         n >= 0 /\ (BitWidth(t) < BitWidth(s) => n <= 2 ^ BitWidth(t) - 1)
    [] ~ Signed(s) /\ Signed(t) ->
         BitWidth(t) <= BitWidth(s) => n <= 2 ^ (BitWidth(t) - 1) - 1
    [] BitWidth(t) < BitWidth(s) /\ Signed(s) ->
         -(2 ^ (BitWidth(t) - 1)) <= n /\ n <= 2 ^ (BitWidth(t) - 1) - 1
    [] BitWidth(t) < BitWidth(s) /\ ~ Signed(s) -> n <= 2 ^ BitWidth(t) - 1
    [] OTHER -> TRUE
TruncatesInRange(n, t) ==
  /\ (IF Signed(t) THEN -(2 ^ (BitWidth(t) - 1)) ELSE 0) <= n
  /\ n < (IF Signed(t) THEN 2 ^ (BitWidth(t) - 1) ELSE 2 ^ BitWidth(t))
CheckedConversion(bits, s, t) ==
  CASE Integral(s) /\ Integral(t) ->
         Guarded(ConvertsInRange(Number(bits, s), s, t), Computed(t, Resized(bits, s, t)))
    [] Integral(s) ->
         RoundTo(Number(bits, s) < 0, Abs(Number(bits, s)), 1, 0, t)  \* sitofp, uitofp
    [] Integral(t) ->
         Guarded(TruncatesInRange(Truncated(bits, s), t),
                 Computed(t, Bits(Truncated(bits, s), t)))
    [] BitWidth(s) < BitWidth(t) -> FResize(bits, s, t)
    [] OTHER ->
         Guarded(Order(Significand(bits, s), Scale(bits, s),
                       2 ^ (Fraction(t) + 1) - 1, 1, Bias(t) - Fraction(t)) <= 0,
                 FResize(bits, s, t))

\* emit_integer_conversion: the operand is clamped in the source type.
Clamped(n, s, t) ==
  LET narrower == BitWidth(t) < BitWidth(s)
      signedMax == 2 ^ (BitWidth(t) - 1) - 1
      unsignedMax == 2 ^ BitWidth(t) - 1
  IN CASE Signed(s) /\ Signed(t) ->
            IF narrower THEN Max({-signedMax - 1, Min({n, signedMax})}) ELSE n
       [] ~ Signed(s) /\ ~ Signed(t) -> IF narrower THEN Min({n, unsignedMax}) ELSE n
       [] Signed(s) -> IF n < 0 THEN 0 ELSE IF narrower THEN Min({n, unsignedMax}) ELSE n
       [] OTHER -> IF BitWidth(t) <= BitWidth(s) THEN Min({n, signedMax}) ELSE n
IntegerConversion(bits, s, t, mode) ==
  IF mode = "wrap" THEN Computed(t, Resized(bits, s, t))
  ELSE Computed(t, Bits(Clamped(Number(bits, s), s, t), t))

-----------------------------------------------------------------------------
(* Operators. *)

EmitUnary(op, v) ==
  CASE op = "+" -> v
    [] op = "-" /\ Integral(v.type) ->                         \* {u,s}sub.with.overflow
         Guarded(-Number(v.bits, v.type) \in Numbers(v.type),
                 Computed(v.type, Bits(-Number(v.bits, v.type), v.type)))
    [] op = "!" -> Computed(v.type, 1 - v.bits)
    [] op = "~" -> Computed(v.type, 2 ^ BitWidth(v.type) - 1 - v.bits)
    [] OTHER -> Computed(v.type, FNeg(v.bits, v.type))

Overflowing(n, t) == Guarded(n \in Numbers(t), Computed(t, Bits(n, t)))
EmitArithmetic(op, t, a, b) ==                                 \* {u,s}{add,sub,mul}.with.overflow
  Overflowing(CASE op = "+" -> a + b [] op = "-" -> a - b [] op = "*" -> a * b, t)

\* {u,s}{div,rem} truncate towards zero; their guards come before them.
EmitDivision(op, t, a, b) ==
  LET quotient == IF (a < 0) = (b < 0) THEN Abs(a) \div Abs(b) ELSE -(Abs(a) \div Abs(b))
  IN IF b = 0 \/ (Signed(t) /\ a = -(2 ^ (BitWidth(t) - 1)) /\ b = -1) THEN Trap
     ELSE Computed(t, Bits(IF op = "/" THEN quotient ELSE a - quotient * b, t))

\* The count is compared as an unsigned number with the width of the value.
EmitShift(op, t, bits, count) ==
  Guarded(count < BitWidth(t),
          Computed(t, IF op = "<<" THEN Bits(bits * 2 ^ count, t)
                      ELSE Bits(Number(bits, t) \div 2 ^ count, t)))

Holds(op, a, b) ==
  CASE op = "==" -> a = b [] op = "!=" -> a # b [] op = "<" -> a < b
    [] op = "<=" -> a <= b [] op = ">" -> a > b [] op = ">=" -> a >= b
EmitComparison(op, a, b) == Computed("bool", IF Holds(op, a, b) THEN 1 ELSE 0)

EmitBinary(op, t, l, r) ==
  CASE op \in {"<<", ">>"} -> EmitShift(op, t, l, r)
    [] op \in Comparisons ->
         IF Floating(t) THEN EmitComparison(op, Key(l, t), Key(r, t))
         ELSE EmitComparison(op, Number(l, t), Number(r, t))
    [] Integral(t) /\ op \in {"+", "-", "*"} -> EmitArithmetic(op, t, Number(l, t), Number(r, t))
    [] Integral(t) /\ op \in {"/", "%"} -> EmitDivision(op, t, Number(l, t), Number(r, t))
    [] op = "&" -> Computed(t, l & r)
    [] op = "|" -> Computed(t, l | r)
    [] op = "^" -> Computed(t, l ^^ r)
    [] op = "+" -> FAdd(t, l, r)
    [] op = "-" -> FAdd(t, l, FNeg(r, t))
    [] op = "*" -> FMul(t, l, r)
    [] OTHER -> FDiv(t, l, r)

\* lower_scalar_literal: std::from_chars refuses what overflows or vanishes.
FromChars(text, t) ==
  LET shift == text.exp - text.frac
      bits == IF shift >= 0 THEN Nearest(text.num * 10 ^ shift, 1, 0, t)
              ELSE Nearest(text.num, 10 ^ (-shift), 0, t)
  IN IF bits = Infinity(t) \/ (bits = 0 /\ text.num # 0) THEN Refused ELSE Computed(t, bits)
TruncatedLiteral(v, t) ==
  IF v.status # "value" \/ Truncated(v.bits, "float64") > HostMax THEN Refused
  ELSE Computed(t, Bits(Truncated(v.bits, "float64"), t))
LowerScalarLiteral(text, negative, t) ==
  CASE text.kind = "int" /\ Floating(t) ->
         IF negative \/ text.num > HostMax THEN Refused ELSE RoundTo(FALSE, text.num, 1, 0, t)
    [] text.kind = "int" ->
         IF (negative /\ ~ Signed(t)) \/ text.num > HostMax
            \/ text.num > MaximumMagnitude(negative, t)
         THEN Refused
         ELSE Computed(t, Bits(IF negative THEN -text.num ELSE text.num, t))
    [] text.kind = "float" /\ Integral(t) -> TruncatedLiteral(FromChars(text, "float64"), t)
    [] text.kind = "float" -> FromChars(text, t)
    [] OTHER -> Computed(t, text.num)

-----------------------------------------------------------------------------
(* lower_expression_value, and the function it compiles executed.          *)

Then(v, w) == IF v.status # "value" THEN v ELSE w
ExecuteOperands(e, l, r, common) ==
  IF l.status # "value" THEN l
  ELSE IF r.status # "value" THEN r
  ELSE IF e.op \in {"<<", ">>"} \/ common = "none" THEN EmitBinary(e.op, l.type, l.bits, r.bits)
  ELSE EmitBinary(e.op, common, Widened(l, common).bits, Widened(r, common).bits)
RECURSIVE Execute(_, _)
ExecuteShortCircuit(e, left, constants) ==
  IF left.status # "value" THEN left
  ELSE IF ShortCircuits(e.op, left) THEN left ELSE Execute(e.r, constants)
ExecuteConversion(v, t) ==
  IF v.status # "value" \/ v.type = t THEN v ELSE CheckedConversion(v.bits, v.type, t)
Execute(e, constants) ==
  CASE e.k = "literal" -> LowerScalarLiteral(e.text, FALSE, e.t)
    [] e.k \in {"name", "member"} ->                           \* emit_scalar_constant
         LET c == SymbolConstant(e.sym, constants) IN Computed(c.type, c.bits)
    [] e.k = "group" -> Execute(e.l, constants)
    [] e.k = "unary" ->
         LET v == Ungroup(e.l)
         IN IF e.op = "-" /\ Signed(e.t) /\ v.k = "literal" /\ v.text.kind = "int"
            THEN LowerScalarLiteral(v.text, TRUE, e.t)
            ELSE LET w == Execute(e.l, constants) IN Then(w, EmitUnary(e.op, w))
    [] e.k = "conv" -> ExecuteConversion(Execute(e.l, constants), e.t)
    [] e.k = "mode" ->
         LET w == Execute(e.l, constants)
         IN Then(w, IntegerConversion(w.bits, w.type, e.t, e.op))
    [] e.op \in {"&&", "||"} -> ExecuteShortCircuit(e, Execute(e.l, constants), constants)
    [] OTHER -> ExecuteOperands(e, Execute(e.l, constants), Execute(e.r, constants),
                                CommonNumericType(e.l.t, e.r.t))
=============================================================================
