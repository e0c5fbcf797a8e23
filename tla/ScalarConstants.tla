--------------------------- MODULE ScalarConstants ---------------------------
(***************************************************************************)
(* scalar_constants.cc and numeric_types.cc: the arithmetic of compile-    *)
(* time scalar values.  A value is its type and its bits.  The widths of   *)
(* the integer types, the two floating formats, the width of a word of     *)
(* Natural and the decimal order limit are parameters: the code has one    *)
(* choice of them (8..64 bits, 23/8 and 52/11, 32-bit words, 400), and     *)
(* nothing it does depends on more than the assumptions below.             *)
(***************************************************************************)
EXTENDS Integers, Sequences, FiniteSets, FiniteSetsExt, Bitwise

CONSTANTS
  IntegerTypes,    \* integer type kind -> [signed, width]
  FloatFormats,    \* "float32", "float64" -> [fraction, exponent]
  UnicodeScalars,  \* the bits of a char
  EnumTags,        \* the bits of an enum
  WordBits,        \* bits of a word of Natural
  DecimalLimit     \* decimal orders beyond which a literal is not converted

Integral(t) == t \in DOMAIN IntegerTypes                       \* is_integer_type
Floating(t) == t \in DOMAIN FloatFormats
Numeric(t) == Integral(t) \/ Floating(t)                       \* is_numeric_type
BitWidth(t) ==
  IF Integral(t) THEN IntegerTypes[t].width
  ELSE 1 + FloatFormats[t].fraction + FloatFormats[t].exponent
Signed(t) == Integral(t) /\ IntegerTypes[t].signed
Fraction(t) == FloatFormats[t].fraction
Bias(t) == 2 ^ (FloatFormats[t].exponent - 1) - 1
\* The host's uint64_t, as wide as the widest integer type.
HostBits == Max({IntegerTypes[t].width : t \in DOMAIN IntegerTypes})
HostMax == 2 ^ HostBits - 1

\* 64-bit integers lie within the range of float32 and carry more digits than
\* its significand, 53 digits fit in 64, float64 extends float32, and every
\* width is a positive number of every integer type.
ASSUME FormatsAssumption ==
  /\ DOMAIN FloatFormats = {"float32", "float64"}
  /\ Fraction("float32") + 1 < HostBits /\ HostBits < Bias("float32")
  /\ Fraction("float32") < Fraction("float64") /\ Fraction("float64") + 1 <= HostBits
  /\ Bias("float32") < Bias("float64")
  /\ \A t \in DOMAIN IntegerTypes : HostBits <= 2 ^ (IntegerTypes[t].width - 1)

Ok(bits) == [ok |-> TRUE, bits |-> bits, error |-> "none"]
Error(e) == [ok |-> FALSE, bits |-> 0, error |-> e]            \* std::unexpected

CanWidenNumeric(s, t) ==
  /\ s # t /\ Numeric(s) /\ Numeric(t)
  /\ Floating(s) = Floating(t)
  /\ ~ (Signed(s) /\ Integral(t) /\ ~ Signed(t))
  /\ BitWidth(s) < BitWidth(t)

-----------------------------------------------------------------------------
(* Natural: a little-endian sequence of words, the last of them not zero.  *)

Base == 2 ^ WordBits
Word(a, i) == IF i <= Len(a) THEN a[i] ELSE 0
RECURSIVE Words(_), Trim(_), BitLength(_), Low(_), CarryUp(_, _, _)
RECURSIVE AddFrom(_, _, _, _), SubtractFrom(_, _, _, _), AddProduct(_, _, _, _, _)
RECURSIVE MultiplyFrom(_, _, _, _)

Words(n) == IF n = 0 THEN <<>> ELSE <<n % Base>> \o Words(n \div Base)
Trim(a) ==
  IF a # <<>> /\ a[Len(a)] = 0 THEN Trim(SubSeq(a, 1, Len(a) - 1)) ELSE a
BitLength(n) == IF n = 0 THEN 0 ELSE 1 + BitLength(n \div 2)
\* width(): the bits of the value.
NaturalWidth(a) ==
  IF a = <<>> THEN 0 ELSE (Len(a) - 1) * WordBits + BitLength(a[Len(a)])
\* low(): the value, of which callers know that it fits in the host's word.
Low(a) == IF a = <<>> THEN 0 ELSE Head(a) + Base * Low(Tail(a))

Compare(a, b) ==
  IF Len(a) # Len(b) THEN (IF Len(a) < Len(b) THEN -1 ELSE 1)
  ELSE LET D == {i \in DOMAIN a : a[i] # b[i]}
       IN IF D = {} THEN 0 ELSE IF a[Max(D)] < b[Max(D)] THEN -1 ELSE 1

CarryUp(a, part, carry) ==
  IF a = <<>> THEN (IF carry = 0 THEN <<>> ELSE <<carry>>)
  ELSE <<(Head(a) * 2 ^ part + carry) % Base>>
         \o CarryUp(Tail(a), part, (Head(a) * 2 ^ part + carry) \div Base)
Shift(a, bits) ==
  IF a = <<>> \/ bits = 0 THEN a
  ELSE [i \in 1 .. bits \div WordBits |-> 0] \o CarryUp(a, bits % WordBits, 0)

AddFrom(a, b, i, carry) ==
  IF i > Len(a) /\ i > Len(b) THEN (IF carry = 0 THEN <<>> ELSE <<carry>>)
  ELSE LET value == Word(a, i) + carry + Word(b, i)
       IN <<value % Base>> \o AddFrom(a, b, i + 1, value \div Base)
Add(a, b) == AddFrom(a, b, 1, 0)

SubtractFrom(a, b, i, borrow) ==
  IF i > Len(a) THEN <<>>
  ELSE LET sub == borrow + Word(b, i)
       IN <<(a[i] - sub) % Base>>
            \o SubtractFrom(a, b, i + 1, IF a[i] < sub THEN 1 ELSE 0)
Subtract(a, b) == Trim(SubtractFrom(a, b, 1, 0))

\* One row of the product: result + a[i] * b * Base ^ (i - 1).
AddProduct(result, word, b, at, carry) ==
  IF b = <<>> THEN [result EXCEPT ![at] = carry]
  ELSE LET value == word * Head(b) + result[at] + carry
       IN AddProduct([result EXCEPT ![at] = value % Base], word, Tail(b),
                     at + 1, value \div Base)
MultiplyFrom(result, a, b, i) ==
  IF i > Len(a) THEN result
  ELSE MultiplyFrom(AddProduct(result, a[i], b, i, 0), a, b, i + 1)
Multiply(a, b) ==
  IF a = <<>> \/ b = <<>> THEN <<>>
  ELSE Trim(MultiplyFrom([i \in 1 .. Len(a) + Len(b) |-> 0], a, b, 1))

-----------------------------------------------------------------------------
(* Floating formats: a finite value is (-1)^negative * magnitude * 2^scale. *)

SignBit(t) == 2 ^ (BitWidth(t) - 1)
ExponentMask(t) == 2 ^ FloatFormats[t].exponent - 1
ExponentField(bits, t) == (bits \div 2 ^ Fraction(t)) % 2 ^ FloatFormats[t].exponent

Unpack(bits, t) ==
  LET e == ExponentField(bits, t)
  IN [negative |-> bits >= SignBit(t),
      magnitude |-> Words((bits % 2 ^ Fraction(t)) + (IF e # 0 THEN 2 ^ Fraction(t) ELSE 0)),
      scale |-> (IF e # 0 THEN e ELSE 1) - Bias(t) - Fraction(t)]

ScaledCompare(a, b, difference) ==
  Compare(Shift(a, Max({0, difference})), Shift(b, Max({0, -difference})))

\* The quotient of numerator by denominator, bit by bit, and what is left.
RECURSIVE Divide(_, _, _, _)
Divide(numerator, denominator, bit, quotient) ==
  IF bit < 0 THEN [quotient |-> quotient, rest |-> numerator]
  ELSE LET divisor == Shift(denominator, bit)
       IN IF Compare(numerator, divisor) >= 0
          THEN Divide(Subtract(numerator, divisor), denominator, bit - 1,
                      quotient + 2 ^ bit)
          ELSE Divide(numerator, denominator, bit - 1, quotient)

RoundUpAway(rest, denominator, quotient) ==
  IF Compare(Shift(rest, 1), denominator) >= 0 THEN quotient + 1 ELSE quotient
RoundUp(rest, denominator, quotient) ==
  LET halfway == Compare(Shift(rest, 1), denominator)
  IN IF halfway > 0 \/ (halfway = 0 /\ quotient % 2 = 1) THEN quotient + 1 ELSE quotient

Underflow(sign, literal) == IF literal THEN Error("kOutOfRange") ELSE Ok(sign)

\* The stored form of a rounded quotient of the quantum of its exponent.
Encode(sign, quotient, exponent, t, literal) ==
  LET carried == quotient = 2 ^ (Fraction(t) + 1)
      q == IF carried THEN quotient \div 2 ELSE quotient
      e == IF carried THEN exponent + 1 ELSE exponent
      normal == q >= 2 ^ Fraction(t)
  IN IF quotient = 0 THEN Underflow(sign, literal)
     ELSE IF e > Bias(t) THEN Error("kNonFinite")
     ELSE Ok(sign + (IF normal THEN Max({e, 1 - Bias(t)}) + Bias(t) ELSE 0) * 2 ^ Fraction(t)
                  + (q % 2 ^ Fraction(t)))

PackQuotient(division, denominator, sign, exponent, t, literal) ==
  Encode(sign, RoundUp(division.rest, denominator, division.quotient), exponent, t, literal)

PackShifted(numerator, denominator, sign, exponent, t, literal) ==
  PackQuotient(Divide(numerator, denominator,
                      NaturalWidth(numerator) - NaturalWidth(denominator), 0),
               denominator, sign, exponent, t, literal)

PackAt(sign, numerator, denominator, scale, exponent, t, literal) ==
  LET shift == scale - (Max({exponent, 1 - Bias(t)}) - Fraction(t))
  IN IF exponent > Bias(t) THEN Error("kNonFinite")
     ELSE IF exponent < 1 - Bias(t) - Fraction(t) - 1 THEN Underflow(sign, literal)
     ELSE PackShifted(Shift(numerator, Max({0, shift})), Shift(denominator, Max({0, -shift})),
                      sign, exponent, t, literal)

\* numerator / denominator * 2^scale, rounded once to the format of t.
Pack(negative, numerator, denominator, scale, t, literal) ==
  LET sign == IF negative THEN SignBit(t) ELSE 0
      estimate == NaturalWidth(numerator) - NaturalWidth(denominator) + scale
      above == ScaledCompare(numerator, denominator, scale - estimate) < 0
  IN IF numerator = <<>> THEN Ok(sign)
     ELSE PackAt(sign, numerator, denominator, scale,
                 IF above THEN estimate - 1 ELSE estimate, t, literal)

One == Words(1)

\* A decimal literal is its digits, how many of them are fractional, and its
\* exponent; its spelling has been read by the lexer.
RECURSIVE DigitCount(_), PowerOfTen(_)
DigitCount(n) == IF n = 0 THEN 0 ELSE 1 + DigitCount(n \div 10)
PowerOfTen(n) == IF n = 0 THEN One ELSE Multiply(PowerOfTen(n - 1), Words(10))

DecimalFloat(text, negative, t) ==
  LET decimalExponent == text.exp - text.frac
      order == DigitCount(text.num) + decimalExponent
  IN IF text.num # 0 /\ order > DecimalLimit THEN Error("kNonFinite")
     ELSE IF text.num # 0 /\ order < -DecimalLimit THEN Error("kOutOfRange")
     ELSE Pack(negative, Multiply(Words(text.num), PowerOfTen(Max({0, decimalExponent}))),
               PowerOfTen(Max({0, -decimalExponent})), 0, t, TRUE)

-----------------------------------------------------------------------------
(* Integers as sign and magnitude. *)

Integer(bits, t) ==
  LET negative == Signed(t) /\ bits >= 2 ^ (BitWidth(t) - 1)
  IN [negative |-> negative,
      magnitude |-> IF negative THEN (-bits) % 2 ^ BitWidth(t) ELSE bits]
SignMagnitude(negative, magnitude) == [negative |-> negative, magnitude |-> magnitude]

MaximumMagnitude(negative, t) ==
  IF ~ Signed(t) THEN 2 ^ BitWidth(t) - 1
  ELSE IF negative THEN 2 ^ (BitWidth(t) - 1) ELSE 2 ^ (BitWidth(t) - 1) - 1

IntegerBits(value, t) ==
  IF (~ Signed(t) /\ value.negative /\ value.magnitude # 0)
     \/ value.magnitude > MaximumMagnitude(value.negative, t)
  THEN Error("kOutOfRange")
  ELSE Ok((IF value.negative THEN -value.magnitude ELSE value.magnitude) % 2 ^ BitWidth(t))

Comparisons == {"==", "!=", "<", "<=", ">", ">="}
Comparison(op, order) ==
  LET holds == CASE op = "==" -> order = 0 [] op = "!=" -> order # 0
                 [] op = "<" -> order < 0 [] op = "<=" -> order <= 0
                 [] op = ">" -> order > 0 [] op = ">=" -> order >= 0
  IN Ok(IF holds THEN 1 ELSE 0)

IsScalarConstantType(t) == Numeric(t) \/ t \in {"bool", "char", "enum"}

IsValidScalarBits(t, bits) ==
  CASE Integral(t) -> bits \in 0 .. 2 ^ BitWidth(t) - 1
    [] t = "bool" -> bits \in {0, 1}
    [] t = "char" -> bits \in UnicodeScalars
    [] t = "enum" -> bits \in EnumTags
    [] Floating(t) -> /\ bits \in 0 .. 2 ^ BitWidth(t) - 1
                      /\ ExponentField(bits, t) # ExponentMask(t)
    [] OTHER -> FALSE

-----------------------------------------------------------------------------
(* Conversions. *)

FloatToInteger(value, t) ==
  LET width == NaturalWidth(value.magnitude) + value.scale
      magnitude == IF value.scale >= 0 THEN Low(value.magnitude) * 2 ^ value.scale
                   ELSE Low(value.magnitude) \div 2 ^ (-value.scale)
  IN IF value.magnitude = <<>> \/ width <= 0 THEN Ok(0)
     ELSE IF width > HostBits THEN Error("kOutOfRange")
     ELSE IntegerBits(SignMagnitude(value.negative, magnitude), t)

\* float64 -> float32 refuses what exceeds the largest finite float32, before
\* it is rounded.
ExceedsFloat32(value) ==
  ScaledCompare(value.magnitude, Words(2 ^ (Fraction("float32") + 1) - 1),
                value.scale - (Bias("float32") - Fraction("float32"))) > 0

ToFloat(value, s, t) ==
  IF s = "float64" /\ t = "float32" /\ ExceedsFloat32(value) THEN Error("kOutOfRange")
  ELSE Pack(value.negative, value.magnitude, One, value.scale, t, FALSE)

\* A number as sign, magnitude and scale, whichever format it is in.
Scaled(bits, s) ==
  IF Floating(s) THEN Unpack(bits, s)
  ELSE [negative |-> Integer(bits, s).negative,
        magnitude |-> Words(Integer(bits, s).magnitude), scale |-> 0]

ConvertScalar(bits, s, t) ==
  CASE ~ IsValidScalarBits(s, bits) -> Error("kOutOfRange")
    [] s = t -> Ok(bits)
    [] ~ Numeric(s) \/ ~ Numeric(t) -> Error("kInvalidOperation")
    [] Floating(t) -> ToFloat(Scaled(bits, s), s, t)
    [] Integral(s) -> IntegerBits(Integer(bits, s), t)
    [] OTHER -> FloatToInteger(Unpack(bits, s), t)

Saturated(value, t) ==
  IF ~ Signed(t)
  THEN IF value.negative /\ value.magnitude # 0 THEN 0
       ELSE Min({value.magnitude, 2 ^ BitWidth(t) - 1})
  ELSE IF ~ value.negative THEN Min({value.magnitude, 2 ^ (BitWidth(t) - 1) - 1})
  ELSE IF value.magnitude >= 2 ^ (BitWidth(t) - 1) THEN 2 ^ (BitWidth(t) - 1)
  ELSE (-value.magnitude) % 2 ^ BitWidth(t)

ConvertIntegerMode(bits, s, t, mode) ==
  LET value == Integer(bits, s)
  IN IF ~ Integral(s) \/ ~ IsValidScalarBits(s, bits) \/ ~ Integral(t)
     THEN Error("kInvalidOperation")
     ELSE IF mode = "wrap"
     THEN Ok((IF value.negative THEN -value.magnitude ELSE value.magnitude) % 2 ^ BitWidth(t))
     ELSE Ok(Saturated(value, t))

-----------------------------------------------------------------------------
(* Literals and operators. *)

\* A floating literal of an integer type is a float64 that is converted.
ConvertLiteral(value, t) ==
  IF value.ok /\ Integral(t) THEN FloatToInteger(Unpack(value.bits, "float64"), t) ELSE value

\* scalar_literal: the literal of `text`, of the type t it has been given.
ScalarLiteral(text, t, negative) ==
  CASE text.kind = "bool" /\ t = "bool" -> Ok(text.num)
    [] text.kind = "char" /\ t = "char" -> Ok(text.num)
    [] text.kind = "float" /\ Numeric(t) ->
         ConvertLiteral(DecimalFloat(text, negative, IF Floating(t) THEN t ELSE "float64"), t)
    [] text.kind = "int" /\ Numeric(t) ->
         IF text.num > HostMax THEN Error("kOutOfRange")
         ELSE IF Floating(t) THEN Pack(negative, Words(text.num), One, 0, t, FALSE)
         ELSE IntegerBits(SignMagnitude(negative, text.num), t)
    [] OTHER -> Error("kInvalidLiteral")

UnaryScalar(op, t, bits) ==
  CASE ~ IsValidScalarBits(t, bits) -> Error("kOutOfRange")
    [] op = "!" /\ t = "bool" -> Ok(1 - bits)
    [] op = "+" /\ Numeric(t) -> Ok(bits)
    [] op = "~" /\ Integral(t) -> Ok(2 ^ BitWidth(t) - 1 - bits)
    [] op = "-" /\ Floating(t) -> Ok((bits + SignBit(t)) % 2 ^ BitWidth(t))
    [] op = "-" /\ Integral(t) ->
         LET value == Integer(bits, t)
             result == IntegerBits(SignMagnitude(~ value.negative, value.magnitude), t)
         IN IF result.ok THEN result ELSE Error("kOverflow")
    [] OTHER -> Error("kInvalidOperation")

\* The innermost sign belongs to the literal, every outer one is an operation.
RECURSIVE ApplySigns(_, _, _)
ApplySigns(value, t, signs) ==
  IF signs = <<>> \/ ~ value.ok THEN value
  ELSE ApplySigns(UnaryScalar(signs[Len(signs)], t, value.bits), t,
                  SubSeq(signs, 1, Len(signs) - 1))
ScalarSignedLiteral(text, t, signs) ==
  IF signs = <<>> THEN ScalarLiteral(text, t, FALSE)
  ELSE ApplySigns(ScalarLiteral(text, t, signs[Len(signs)] = "-"), t,
                  SubSeq(signs, 1, Len(signs) - 1))

FloatOrder(a, b) ==
  LET order == ScaledCompare(a.magnitude, b.magnitude, a.scale - b.scale)
  IN IF a.magnitude = <<>> /\ b.magnitude = <<>> THEN 0
     ELSE IF a.negative # b.negative THEN (IF a.negative THEN -1 ELSE 1)
     ELSE IF a.negative THEN -order ELSE order

\* The exact result of an operation, as a quotient to be packed.
Exact(negative, numerator, denominator, scale) ==
  [negative |-> negative, numerator |-> numerator, denominator |-> denominator, scale |-> scale]

\* The sum of aligned magnitudes; an exact zero of two signs is positive.
FloatSum(an, a, bn, b, scale, order) ==
  IF an = bn THEN Exact(an, Add(a, b), One, scale)
  ELSE IF order = 0 THEN Exact(FALSE, <<>>, One, scale)
  ELSE IF order < 0 THEN Exact(bn, Subtract(b, a), One, scale)
  ELSE Exact(an, Subtract(a, b), One, scale)
AlignedSum(an, a, bn, b, scale) == FloatSum(an, a, bn, b, scale, Compare(a, b))

FloatResult(op, a, b, scale) ==
  CASE op = "*" -> Exact(a.negative # b.negative, Multiply(a.magnitude, b.magnitude), One,
                         a.scale + b.scale)
    [] op = "/" -> Exact(a.negative # b.negative, a.magnitude, b.magnitude, a.scale - b.scale)
    [] OTHER -> AlignedSum(a.negative, Shift(a.magnitude, a.scale - scale),
                           (op = "-") # b.negative, Shift(b.magnitude, b.scale - scale), scale)
PackExact(x, t) == Pack(x.negative, x.numerator, x.denominator, x.scale, t, FALSE)

FloatOperands(op, t, a, b) ==
  CASE op \in Comparisons -> Comparison(op, FloatOrder(a, b))
    [] op = "/" /\ b.magnitude = <<>> -> Error("kZeroDivisor")
    [] op \in {"+", "-", "*", "/"} ->
         PackExact(FloatResult(op, a, b, Min({a.scale, b.scale})), t)
    [] OTHER -> Error("kInvalidOperation")
FloatBinary(op, t, left, right) == FloatOperands(op, t, Unpack(left, t), Unpack(right, t))

\* The sign and magnitude of a op b, computed in the host's words.
IntegerSum(a, b) ==
  IF a.negative = b.negative
  THEN IF a.magnitude > HostMax - b.magnitude THEN Error("kOverflow")
       ELSE [ok |-> TRUE, value |-> SignMagnitude(a.negative, a.magnitude + b.magnitude)]
  ELSE [ok |-> TRUE,
        value |-> IF a.magnitude < b.magnitude
                  THEN SignMagnitude(b.negative, b.magnitude - a.magnitude)
                  ELSE SignMagnitude(a.negative, a.magnitude - b.magnitude)]
IntegerProduct(a, b) ==
  IF b.magnitude # 0 /\ a.magnitude > HostMax \div b.magnitude THEN Error("kOverflow")
  ELSE [ok |-> TRUE, value |-> SignMagnitude(a.negative # b.negative, a.magnitude * b.magnitude)]
IntegerQuotient(op, a, b, t) ==
  IF b.magnitude = 0 THEN Error("kZeroDivisor")
  ELSE IF a.negative /\ a.magnitude = 2 ^ (BitWidth(t) - 1) /\ b.negative /\ b.magnitude = 1
  THEN Error("kOverflow")
  ELSE [ok |-> TRUE,
        value |-> IF op = "/" THEN SignMagnitude(a.negative # b.negative, a.magnitude \div b.magnitude)
                  ELSE SignMagnitude(a.negative, a.magnitude % b.magnitude)]

IntegerArithmetic(op, t, a, b) ==
  LET minus == SignMagnitude(~ b.negative, b.magnitude)
      result == CASE op = "+" -> IntegerSum(a, b)
                  [] op = "-" -> IntegerSum(a, minus)
                  [] op = "*" -> IntegerProduct(a, b)
                  [] op \in {"/", "%"} -> IntegerQuotient(op, a, b, t)
                  [] OTHER -> Error("kInvalidOperation")
      encoded == IntegerBits(result.value, t)
  IN IF ~ result.ok THEN Error(result.error)
     ELSE IF encoded.ok THEN encoded ELSE Error("kOverflow")

ShiftScalar(op, t, left, count) ==
  LET width == BitWidth(t)
      moved == left \div 2 ^ count.magnitude
  IN IF count.negative \/ count.magnitude >= width THEN Error("kInvalidShift")
     ELSE IF op = "<<" THEN Ok((left * 2 ^ count.magnitude) % 2 ^ width)
     ELSE IF count.magnitude # 0 /\ Integer(left, t).negative
     THEN Ok(moved + (2 ^ width - 2 ^ (width - count.magnitude)))
     ELSE Ok(moved)

IntegerOrder(t, left, right) ==
  LET a == Integer(left, t).negative
  IN IF Integral(t) /\ a # Integer(right, t).negative THEN (IF a THEN -1 ELSE 1)
     ELSE IF left < right THEN -1 ELSE IF left > right THEN 1 ELSE 0

BinaryScalar(op, t, left, right, rightType) ==
  CASE ~ IsValidScalarBits(t, left) \/ ~ IsValidScalarBits(rightType, right) ->
         Error("kOutOfRange")
    [] op \in {"<<", ">>"} ->
         IF ~ Integral(t) \/ ~ Integral(rightType) THEN Error("kInvalidOperation")
         ELSE ShiftScalar(op, t, left, Integer(right, rightType))
    [] t # rightType -> Error("kInvalidOperation")
    [] Floating(t) -> FloatBinary(op, t, left, right)
    [] t = "bool" /\ op = "&&" -> Ok(left * right)
    [] t = "bool" /\ op = "||" -> Ok(Max({left, right}))
    [] op \in Comparisons ->
         IF ~ Numeric(t) /\ op \notin {"==", "!="} THEN Error("kInvalidOperation")
         ELSE Comparison(op, IntegerOrder(t, left, right))
    [] ~ Integral(t) -> Error("kInvalidOperation")
    [] op = "&" -> Ok(left & right)
    [] op = "|" -> Ok(left | right)
    [] op = "^" -> Ok(left ^^ right)
    [] OTHER -> IntegerArithmetic(op, t, Integer(left, t), Integer(right, t))
=============================================================================
