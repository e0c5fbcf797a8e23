-------------------------- MODULE MCPackageExchange --------------------------
(* Programs of three packages: the standard library, a library and a        *)
(* program that uses it; and the ways in which an artifact may differ.      *)
EXTENDS PackageExchange, Declarations

MCRuntimeSymbols == <<1, 2>>
MCNames == <<"new", "Main", "f", "g", "h">>
MCParametersOf(n) == IF n = "g" THEN <<Nullable(String), Type("byte")>> ELSE <<>>
In(p, d) == [d EXCEPT !.package = p]
Static(t, bits) == [Field(t) EXCEPT !.static = TRUE, !.bits = bits]
Main(t, ts) == [Fn("Main") EXCEPT !.static = TRUE, !.ret = t, !.throws = ts]

\* 2 an interface, 3 a class that implements it, 4 a struct, 5 an enum,
\* 6 an error, 7 a class derived from 3 with Main.
Libraries(s) ==
  \E rf \in {Void, Type("int16"), File(4), Nullable(File(5))}, tf \in {<<>>, <<File(6)>>},
     more \in {<<Field(Type("byte")), Static(Type("int16"), 40000), Field(Nullable(File(4)))>>,
               <<Static(File(5), 1), Static(Type("bool"), 1)>>},
     how \in {<<TRUE, TRUE>>, <<FALSE, TRUE>>, <<FALSE, FALSE>>},
     main \in {Main(Void, <<>>), Main(Type("int32"), <<File(6)>>)} :
    LET f == [Fn("f") EXCEPT !.ret = rf, !.throws = tf] IN
    s = <<In(1, Object),
          In(2, Iface(7, <<>>, <<f>>)),
          In(2, [Decl("class") EXCEPT !.abstract = how[1], !.interfaces = <<2>>, !.fields = more,
             !.functions = <<Fn("g"), [Over(f) EXCEPT !.abstract = how[1]]>>,
             !.constructors = <<Ctor(NoType, <<>>)>>]),
          In(2, [Decl("struct") EXCEPT !.fields = <<Field(Type("byte")), Field(String)>>]),
          In(2, Decl("enum")),
          In(2, [Decl("error") EXCEPT !.constructors = <<Ctor(RootError, <<>>)>>]),
          In(3, [Decl("class") EXCEPT !.base = File(3), !.fields = <<Field(String)>>,
             !.functions = (IF how[2] THEN <<Over(f)>> ELSE <<>>) \o <<main>>,
             !.constructors = <<Ctor(File(3), <<>>)>>])>>

\* A library of one error or value and a class, whose constructor may fail.
Failing(s) ==
  \E k \in {"error", "enum", "struct"}, ts \in {<<>>, <<File(2)>>} :
    s = <<In(1, Object),
          In(2, [Decl(k) EXCEPT !.fields = IF k = "struct" THEN <<Field(String)>> ELSE <<>>]),
          In(3, [Decl("class") EXCEPT !.functions = <<Main(Void, <<>>)>>,
                   !.constructors = <<[Ctor(NoType, <<>>) EXCEPT !.throws = ts]>>])>>

\* One small program for the replaced artifacts.
Small(s) ==
  s = <<In(1, Object),
        In(2, [Decl("class") EXCEPT !.functions = <<Fn("f"), [Fn("g") EXCEPT !.throws = <<RootError>>]>>,
                 !.fields = <<Static(File(3), 1)>>, !.interfaces = <<4>>,
                 !.constructors = <<Ctor(NoType, <<>>)>>]),
        In(2, Decl("enum")),
        In(2, Iface(7, <<>>, <<>>)),
        In(3, [Decl("class") EXCEPT !.base = File(2),
                 !.functions = <<Over(Fn("f")), Main(Void, <<>>)>>,
                 !.constructors = <<Ctor(File(2), <<>>)>>])>>

MCPrograms(s) == Libraries(s) \/ Failing(s) \/ Small(s)
MCDamageable(s) == Small(s)

\* Where a tree may differ: one value, element or key.
Swapped == [public |-> "private", private |-> "public", external |-> "internal",
            class |-> "struct", enum |-> "class", function |-> "constructor",
            field |-> "function", definition |-> "requirement", void |-> "direct",
            direct |-> "indirect", object |-> "class", nullable |-> "string"]
Drop(s, n) == SubSeq(s, 1, n - 1) \o SubSeq(s, n + 1, Len(s))
Twice(s, n) == SubSeq(s, 1, n) \o SubSeq(s, n, Len(s))
Flipped(s, n) == [s EXCEPT ![n] = s[n + 1], ![n + 1] = s[n]]
RECURSIVE Edits(_)
Edits(v) ==
  CASE v[1] = "null" -> {JsonIdentity(<<99>>), JsonInteger(1)}
    [] v[1] = "bool" -> {JsonBool(~v[2])}
    [] v[1] = "int" -> {JsonInteger(v[2] + 1)}
    [] v[1] = "text" -> {JsonString(IF v[2] \in DOMAIN Swapped THEN Swapped[v[2]] ELSE "other")}
    [] v[1] = "name" -> {JsonName(<<99>>)}
    [] v[1] = "id" -> {JsonIdentity(<<99>>), JsonNull}
    [] v[1] = "list" ->
         {JsonArray(Drop(v[2], n)) : n \in DOMAIN v[2]}
         \cup {JsonArray(Twice(v[2], n)) : n \in DOMAIN v[2]}
         \cup {JsonArray(Flipped(v[2], n)) : n \in 1 .. Len(v[2]) - 1}
         \cup UNION {{JsonArray([v[2] EXCEPT ![n] = e]) : e \in Edits(v[2][n])} : n \in DOMAIN v[2]}
    [] v[1] = "object" ->
         {JsonObject([k \in DOMAIN v[2] \ {CHOOSE k \in DOMAIN v[2] : TRUE} |-> v[2][k]])}
         \cup UNION {{JsonObject([v[2] EXCEPT ![k] = e]) : e \in Edits(v[2][k])} : k \in DOMAIN v[2]}

MCEnvelopeDamages(f) ==
  {Sealed([f EXCEPT !.magic = FALSE]), Sealed([f EXCEPT !.version = @ + 1]),
   Sealed([f EXCEPT !.flags = 1]), Sealed([f EXCEPT !.metadata_size = 2]),
   Sealed([f EXCEPT !.payload_size = 0]), Sealed([f EXCEPT !.payload_size = 0, !.metadata_size = 2]),
   Sealed([f EXCEPT !.trailing = 1]), Sealed([f EXCEPT !.payload = <<"coff">>]),
   Sealed([f EXCEPT !.metadata.spelling = FALSE]),
   [f EXCEPT !.payload = <<"coff">>], [f EXCEPT !.digest = None]}
=============================================================================
