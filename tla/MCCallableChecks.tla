------------------------- MODULE MCCallableChecks -------------------------
(***************************************************************************)
(* Small callables for TLC: every body of a few statements over the        *)
(* operations that the analysis under test tells apart.                    *)
(***************************************************************************)
EXTENDS CallableChecks

Do(op, on) == [k |-> "do", a |-> Operation(op, on)]
Mark(k) == [k |-> k]
If(c, t, e) == [k |-> "if", c |-> c, t |-> t, e |-> e]
While(c, b) == [k |-> "while", c |-> c, b |-> b]
For(i, c, u, b) == [k |-> "for", i |-> i, c |-> c, u |-> u, b |-> b]
Each(str, b) == [k |-> "each", str |-> str, b |-> b]
Switch(enum, full, dflt, arms) ==
    [k |-> "switch", enum |-> enum, full |-> full, dflt |-> dflt, arms |-> arms]
Nest(b) == [k |-> "block", b |-> b]

\* Blocks of at most n statements.
Blocks(S, n) == UNION {[1 .. i -> S] : i \in 0 .. n}

\* The conditional, looping and selecting statements around given blocks.
Around(B, C, a) ==
    {If(c, t, e) : c \in C \cup {"throw"}, t \in B, e \in B}
        \cup {While(c, b) : c \in C \cup {"true", "throw"}, b \in B}
        \cup {For(i, c, u, b) : i \in {<<>>, <<a>>}, u \in {<<>>, <<a>>},
                  c \in {"none", "true"} \cup C, b \in B}
        \cup {Each(str, b) : str \in BOOLEAN, b \in B}
        \cup {Switch(enum, TRUE, dflt, <<x, y>>) :
                  enum \in BOOLEAN, dflt \in BOOLEAN, x \in B, y \in B}
        \cup {Nest(b) : b \in B}

Transfers == {Mark("return"), Mark("break"), Mark("continue")}

-----------------------------------------------------------------------------
\* Functions that return a value: nested transfers.
FlowLeaf == Transfers \cup {Do("throw", "-"), Do("call", "-")}
FlowOps == Transfers \cup {Do("throw", "-")}
FlowInner == Around(Blocks(FlowOps, 1), {"any"}, Operation("throw", "-"))
FlowBodies ==
    {<<s>> : s \in FlowInner}
        \cup {<<s, t>> : s \in FlowInner, t \in FlowLeaf}
        \cup {<<w, Mark("return")>> :
                w \in {While(c, <<s>>) : c \in {"any", "true"}, s \in FlowInner}
                      \cup {For(<<>>, "none", <<>>, <<s, t>>) :
                                s \in FlowInner, t \in FlowOps}
                      \cup {Switch(TRUE, TRUE, FALSE, <<<<s>>>>) : s \in FlowInner}}

Function(b, throws) ==
    [file |-> "class", ctor |-> FALSE, throws |-> throws, base |-> "none",
     final |-> {}, kind |-> [f \in Field |-> "string"], init |-> {},
     risky |-> {}, body |-> b]

-----------------------------------------------------------------------------
\* Constructors: assignments and reads of the fields under every statement.
StoreX == Do("store", "x")
InitOps == {StoreX, Do("load", "x"), Do("self", "-"), Mark("return"), Mark("break")}
InitInner ==
    Around(Blocks(InitOps, 1) \cup {<<StoreX, Mark("break")>>}, {"any"},
           Operation("store", "x"))
InitBodies ==
    Blocks(InitOps, 2)
        \cup {<<s>> : s \in InitInner}
        \cup {<<s, t>> : s \in InitInner, t \in {StoreX, Do("load", "x")}}
        \cup {<<StoreX, s>> : s \in InitInner}
        \cup {<<While("any", <<s>>), StoreX>> : s \in InitInner}

Constructor(file, throws, base, final, kind, init, risky, b) ==
    [file |-> file, ctor |-> TRUE, throws |-> throws, base |-> base,
     final |-> final, kind |-> [f \in Field |-> kind], init |-> init,
     risky |-> risky, body |-> b]

\* In every constructor a field of a type without a default value, and in a
\* class also one of an interface type; every kind of type in short bodies.
Fields == SUBSET Field
FieldKinds ==
    {"primitive", "nullable", "struct", "enum", "string", "Object", "class",
     "array", "interface", "error"}
ShortBodies ==
    Blocks({StoreX, Do("load", "x"), Do("self", "-")}, 2)
        \cup {<<If("any", <<StoreX>>, <<>>)>>, <<While("any", <<StoreX>>)>>}
Constructors ==
    {Constructor("struct", FALSE, "none", final, "primitive", {}, {}, b) :
        final \in Fields, b \in InitBodies}
        \cup {Constructor("class", FALSE, "none", final, kind, {}, {}, b) :
                final \in Fields, kind \in {"string", "interface"}, b \in InitBodies}
        \cup {Constructor("class", FALSE, "none", final, kind, init, {}, b) :
                final \in Fields, kind \in FieldKinds, init \in Fields,
                b \in ShortBodies}
        \cup {Constructor("class", throws, base, final, "string", init, risky, b) :
                throws \in BOOLEAN, base \in {"none", "plain", "throws"},
                final \in Fields, init \in Fields, risky \in Fields,
                b \in {<<>>, <<StoreX>>, <<Do("trycall", "-")>>,
                       <<Mark("return"), Do("throw", "-")>>}}
        \cup {Constructor("struct", throws, "none", final, "primitive", init, risky, b) :
                throws \in BOOLEAN, final \in Fields, init \in Fields,
                risky \in Fields,
                b \in {<<>>, <<StoreX>>, <<Do("throw", "-")>>,
                       <<While("true", <<StoreX, Mark("break")>>)>>}}

-----------------------------------------------------------------------------
\* Functions that narrow, use and assign the nullable local.
NullOps ==
    {Do("use", "-"), Do("clear", "-"), Do("fill", "-"), Do("assert", "-")}
        \cup Transfers
NullInner == Around(Blocks(NullOps, 1) \cup
                    {<<Do("use", "-"), Do("clear", "-")>>,
                     <<Do("assert", "-"), Mark("break")>>},
                    {"any", "present", "absent"}, Operation("clear", "-"))
NullBodies ==
    {<<s, t, Mark("return")>> : s \in NullInner,
                t \in {Do("use", "-"), Do("assert", "-")}}
        \cup {<<If("present", <<s, Do("use", "-")>>, <<>>), Mark("return")>> :
                s \in NullInner}
        \cup {<<Do("assert", "-"), While("any", b), Mark("return")>> :
                b \in {<<s>> : s \in NullInner}
                      \cup {<<s, Do("use", "-")>> : s \in NullInner}}

MCCallables ==
    {Function(b, t) : b \in FlowBodies, t \in {TRUE}}
        \cup {Function(<<Mark("return"), s>>, FALSE) : s \in FlowOps}
        \cup {c \in Constructors : c.risky \subseteq c.init}
        \cup {Function(b, FALSE) : b \in NullBodies}
=============================================================================
