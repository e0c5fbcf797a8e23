----------------------------- MODULE MCConstants -----------------------------
(***************************************************************************)
(* Scaled formats (the 8, 32 and 64-bit types have 4, 5 and 6 bits, the    *)
(* floating ones 2 and 3 bits of fraction) and the programs of the runs:   *)
(* single fields whose operands are constants of an imported package, so   *)
(* of every bit pattern; literals, with and without signs and suffixes, as *)
(* initializers, under conversions and as operands; and three fields that  *)
(* refer to each other, in several orders of their identities.             *)
(***************************************************************************)
EXTENDS ConstantEvaluator

Integers4 == {"int8", "uint8"}
Integers6 == {"int64", "uint64"}
MCIntegerTypes ==
  [t \in Integers4 \cup {"int32"} \cup Integers6 |->
     [signed |-> t \in {"int8", "int32", "int64"},
      width |-> IF t \in Integers4 THEN 4 ELSE IF t = "int32" THEN 5 ELSE 6]]
MCFloatFormats ==
  [t \in {"float32", "float64"} |->
     IF t = "float32" THEN [fraction |-> 2, exponent |-> 4] ELSE [fraction |-> 3, exponent |-> 5]]
MCNumeric == DOMAIN MCIntegerTypes \cup DOMAIN MCFloatFormats

Imported(t, bits) ==
  [Node("name") EXCEPT !.sym = [kind |-> "import", id |-> 0, type |-> t, bits |-> bits]]
EnumCase(tag) ==
  [Node("member") EXCEPT !.sym = [kind |-> "enum", id |-> 0, type |-> "enum", bits |-> tag],
                         !.l = Node("name")]
Own(i, t) == [Node("name") EXCEPT !.sym = [kind |-> "own", id |-> i, type |-> t, bits |-> 0]]
Instance(t) == [Node("name") EXCEPT !.sym = [kind |-> "instance", id |-> 0, type |-> t, bits |-> 0]]
Binary(op, a, b) == [Node("binary") EXCEPT !.op = op, !.l = a, !.r = b]
Unary(op, a) == [Node("unary") EXCEPT !.op = op, !.l = a]
Conv(t, a) == [Node("conv") EXCEPT !.to = t, !.l = a]
Mode(m, t, a) == [Node("mode") EXCEPT !.op = m, !.to = t, !.l = a]
Group(a) == [Node("group") EXCEPT !.l = a]
Literal(text) == [Node("literal") EXCEPT !.text = text]
IntText(n, suffix) == [NoText EXCEPT !.kind = "int", !.num = n, !.suffix = suffix]
FloatText(n, frac, exp, suffix) ==
  [NoText EXCEPT !.kind = "float", !.num = n, !.frac = frac, !.exp = exp, !.suffix = suffix]
Truth(b) == Literal([NoText EXCEPT !.kind = "bool", !.num = b])

Field(t, e, package) == [type |-> t, init |-> e, final |-> TRUE, package |-> package]
Single(t, e) == [fields |-> <<Field(t, e, "p")>>, rank |-> <<1>>]

Arithmetic == {"+", "-", "*", "/"}
Integer4 == {"%", "&", "|", "^", "<<", ">>"}
Result(op, t) == IF op \in Comparisons THEN "bool" ELSE t
Edges6 == {0, 1, 2, 5, 31, 32, 33, 62, 63}
Edges5 == {0, 1, 3, 15, 16, 31}
\* Zeros, subnormals, values around one, the largest, and their negatives.
Floats32 == {0, 1, 3, 4, 7, 24, 27, 28, 29, 31, 35, 40, 55, 59, 64, 65, 92, 93, 99, 123}
Floats64 == {0, 1, 7, 8, 65, 70, 79, 100, 112, 120, 124, 130, 140, 150, 175, 183, 184, 240, 247,
             256, 257, 300, 376, 380, 439, 503}
BitsOf(t) ==
  CASE t \in Integers4 -> 0 .. 15 [] t = "int32" -> 0 .. 31 [] t \in Integers6 -> 0 .. 63
    [] t = "float32" -> (0 .. 59) \cup (64 .. 123)
    [] OTHER -> Floats64

IntegerProbe(p) ==
  \/ \E op \in Arithmetic \cup Integer4 \cup Comparisons, t \in Integers4, a, b \in 0 .. 15 :
       p = Single(Result(op, t), Binary(op, Imported(t, a), Imported(t, b)))
  \/ \E op \in Arithmetic \cup Integer4 \cup {"<", "=="}, t \in Integers6, a, b \in Edges6 :
       p = Single(Result(op, t), Binary(op, Imported(t, a), Imported(t, b)))
  \/ \E op \in {"+", "-", "*", "%", "^", "<", "<<", ">>"}, t \in {"int32", "int8"}, s \in Integers4,
        a \in {0, 1, 7, 8, 15}, b \in Edges5 :
       p = Single(Result(op, t), Binary(op, Imported(s, a), Imported("int32", b)))
FloatProbe(p) ==
  \/ \E op \in Arithmetic \cup {"==", "<", ">="}, a, b \in Floats32 :
       p = Single(Result(op, "float32"), Binary(op, Imported("float32", a), Imported("float32", b)))
  \/ \E op \in {"+", "*", "<"}, a \in {24, 28, 92}, b \in {112, 120, 124, 376, 380} :
       p = Single(Result(op, "float64"), Binary(op, Imported("float32", a), Imported("float64", b)))
UnaryProbe(p) ==
  \/ \E op \in {"+", "-", "~"}, t \in MCNumeric \ {"float64"} : \E b \in BitsOf(t) :
       p = Single(t, Unary(op, Group(Imported(t, b))))
  \/ \E b \in {0, 1} : p = Single("bool", Unary("!", Imported("bool", b)))
ConversionProbe(p) ==
  \/ \E s, t \in MCNumeric : \E b \in BitsOf(s) : p = Single(t, Conv(t, Imported(s, b)))
  \/ \E s, t \in DOMAIN MCIntegerTypes, m \in {"wrap", "sat"} : \E b \in BitsOf(s) :
       p = Single(t, Mode(m, t, Imported(s, b)))
  \/ \E s \in Integers4 \cup {"float32"}, t \in MCNumeric, b \in {0, 1, 7, 8, 15} :
       p = Single(t, Imported(s, b))

WithSigns(e) == {e, Unary("-", e), Unary("-", Group(Unary("-", e))), Unary("-", Unary("+", e))}
IntTexts == {IntText(n, s) : n \in {0, 1, 7, 8, 15, 16, 31, 32, 63, 64}, s \in {"none", "int8", "uint64"}}
FloatTexts ==
  {FloatText(n, f, 0, "none") : n \in {0, 1, 5, 15, 78, 79, 999}, f \in {0, 1, 3}}
  \cup {FloatText(1, 0, x, "none") : x \in {-9, -4, 2, 4, 7}}
SuffixedFloats ==
  {FloatText(n, 1, 0, x) : n \in {1, 2, 18, 19, 155, 317}, x \in {"float32", "float64"}}
  \cup {FloatText(n, 0, 0, "float32") : n \in {1, 8, 9, 16}}
Texts == IntTexts \cup FloatTexts \cup SuffixedFloats
\* A few of each kind, for literals as operands.
OperandTexts ==
  {IntText(n, x) : n \in {3, 9, 40}, x \in {"none", "int8", "uint64"}}
  \cup {FloatText(n, 1, 0, x) : n \in {15, 18, 90}, x \in {"none", "float32", "float64"}}
\* An operand beside a literal: 5, or a number near one.
Beside(t) ==
  Imported(t, IF t = "float64" THEN 124 ELSE IF t = "float32" THEN 29 ELSE 5)
LiteralProbe(p) ==
  \/ \E x \in Texts, t \in MCNumeric : \E e \in WithSigns(Literal(x)) :
       p \in {Single(t, e), Single(t, Conv(t, e))}
  \/ \E x \in SuffixedFloats, s \in {"int8", "float32", "float64"}, t \in MCNumeric :
       p \in {Single(t, Conv(t, Group(Conv(s, Literal(x))))),
              Single(t, Conv(t, Binary("+", Conv(s, Literal(x)), Beside(s))))}
  \/ \E x \in OperandTexts, t \in MCNumeric, op \in {"+", "<<", "<"} :
       \E e \in {Literal(x), Unary("-", Literal(x)), Conv(t, Unary("-", Literal(x)))} :
         p \in {Single(Result(op, t), Binary(op, e, Beside(t))),
                Single(Result(op, t), Binary(op, Beside(t), e))}
  \/ \E x \in IntTexts, t \in DOMAIN MCIntegerTypes, m \in {"wrap", "sat"} :
       \E e \in WithSigns(Literal(x)) : p = Single(t, Mode(m, t, e))
  \/ \E n \in {0, 3, 4, 40}, t \in DOMAIN MCIntegerTypes, op \in {"<<", ">>"} :
       \E e \in WithSigns(Literal(IntText(n, "none"))) :
         p = Single(t, Binary(op, Imported(t, 9), e))
  \/ \E op \in {"==", "!=", "<"}, a, b \in {0, 1} :
       p = Single("bool", Binary(op, EnumCase(a), EnumCase(b)))
  \/ \E e \in {Instance("int8"), Node("call"), Literal([IntText(1, "none") EXCEPT !.long = TRUE]),
               Group(Group(Group(Group(Group(Literal(IntText(1, "none")))))))} :
       p = Single("int8", e)

-----------------------------------------------------------------------------
(* Boolean fields that refer to each other, and the limits of a package:   *)
(* fields without initializer or final, too many fields, too many nodes.   *)

Failing == Binary("==", Binary("/", Imported("int8", 1), Imported("int8", 0)), Imported("int8", 1))
Forms ==
  {Truth(1), Failing, Own(1, "bool"), Own(2, "bool"), Own(3, "bool"),
   Binary("&&", Own(1, "bool"), Own(2, "bool")), Binary("||", Own(2, "bool"), Own(3, "bool")),
   Binary("&&", Truth(0), Own(3, "bool")), Unary("!", Own(1, "bool"))}
GraphProbe(p) ==
  \E a, b, c \in Forms, rank \in {<<1, 2, 3>>, <<3, 2, 1>>, <<2, 3, 1>>} :
    p = [fields |-> <<Field("bool", a, "p"), Field("bool", b, "p"), Field("bool", c, "q")>>,
         rank |-> rank]
Big == Binary("&&", Binary("&&", Truth(1), Truth(1)), Truth(1))
LimitProbe(p) ==
  \E a, b \in {Nil, Big, Truth(1)}, c \in {Nil, Big}, package \in {"p", "q"}, final \in BOOLEAN :
    p = [fields |-> <<Field("bool", a, package), Field("bool", b, "p"), Field("bool", c, "p"),
                      [Field("bool", Own(1, "bool"), "p") EXCEPT !.final = final],
                      Field("bool", Own(4, "bool"), "p")>>,
         rank |-> <<5, 4, 3, 2, 1>>]

Probe(p) ==
  \/ IntegerProbe(p) \/ FloatProbe(p) \/ UnaryProbe(p) \/ ConversionProbe(p)
  \/ LiteralProbe(p) \/ GraphProbe(p) \/ LimitProbe(p)
=============================================================================
