--------------------------- MODULE MCObjectRuntime ---------------------------
(* Families of small programs, one per question the tables raise. *)
EXTENDS ObjectRuntime, Declarations

\* Bases and interfaces that may not be: 2 and 3 classes or errors, 4 an interface.
Hierarchies(s) ==
  \E k \in {"class", "error"}, sealed \in BOOLEAN,
     b2 \in {NoType, File(2), File(3), RootError, DivisionByZero},
     b3 \in {NoType, File(2), File(4)}, is \in {<<>>, <<4>>, <<4, 4>>, <<2>>},
     is4 \in {<<>>, <<5>>}, is5 \in {<<>>, <<4>>}, id \in {3, 7} :
    s = <<Object,
     [Decl(k) EXCEPT !.base = b2, !.sealed = sealed],
     [Decl(k) EXCEPT !.base = b3, !.interfaces = is],
     Iface(7, is4, <<>>), Iface(id, is5, <<>>)>>

\* Who declares f, and how: I and J interfaces, A a class, B derived from it.
PlainF == Fn("f")
Contracts(s) ==
  \E ij \in {<<>>, <<2>>}, fj \in Opt({Fn("g")}), ab \in BOOLEAN,
     ia \in {<<>>, <<2>>},
     fa \in Opt({PlainF, Over(PlainF), [PlainF EXCEPT !.abstract = TRUE],
                 [PlainF EXCEPT !.private = TRUE], [PlainF EXCEPT !.static = TRUE]}),
     ib \in {<<>>, <<2>>, <<3, 2>>},
     fb \in {<<>>, <<PlainF>>, <<Over(PlainF)>>, <<Fn("g"), Over(PlainF)>>,
             <<[Over(PlainF) EXCEPT !.final = TRUE]>>, <<[PlainF EXCEPT !.private = TRUE]>>,
             <<Over(PlainF), Over(Fn("g"))>>} :
    s = <<Object, Iface(7, <<>>, <<[PlainF EXCEPT !.abstract = TRUE]>>),
     Iface(3, ij, fj),
     [Decl("class") EXCEPT !.abstract = ab, !.interfaces = ia, !.functions = fa],
     [Decl("class") EXCEPT !.base = File(4), !.interfaces = ib, !.functions = fb]>>

\* Covariant returns: the class K and K2 derived from it, I, J, A and B return
\* one of them; K2 implements J.
Covariant(s) ==
  LET Rets == {File(2), File(3), Nullable(File(2)), String, Void}
      F(t) == [PlainF EXCEPT !.ret = t]
  IN \E ri \in Rets \cup {File(5)}, ra \in Rets, rb \in Rets :
       s = <<Object, Decl("class"),
        [Decl("class") EXCEPT !.base = File(2), !.interfaces = <<5>>],
        Iface(7, <<>>, <<F(ri)>>), Iface(3, <<>>, <<>>),
        [Decl("class") EXCEPT !.functions = <<F(ra)>>],
        [Decl("class") EXCEPT !.base = File(6), !.interfaces = <<4>>,
                              !.functions = <<Over(F(rb))>>]>>

\* Errors E and E2 derived from it; contracts with throws clauses, inferred
\* private functions p and q that call each other.
Effects(s) ==
  LET E == File(2)  E2 == File(3)
      Clause == {<<>>, <<E>>, <<E2>>}
      F(ts, b) == [PlainF EXCEPT !.throws = ts, !.body = b]
      P(n, b) == [Fn(n) EXCEPT !.private = TRUE, !.body = b]
  IN \E ti \in Clause, tj \in Clause, ta \in Clause, tb \in {<<>>, <<E2>>},
        ta2 \in {<<>>, <<Throw(E)>>}, q \in {<<>>, <<Throw(E2)>>, <<Throw(String)>>},
        tu \in {<<>>, <<E2>>}, ub \in {<<Super("f")>>, <<Call(File(5), "f")>>, <<Self("f")>>} :
       s = <<Object, Decl("error"), [Decl("error") EXCEPT !.base = E],
        Iface(7, <<>>, <<F(ti, <<>>)>>), Iface(3, <<4>>, <<F(tj, <<>>)>>),
        [Decl("class") EXCEPT !.functions =
           <<F(ta, <<Self("p")>>), P("p", <<Self("q")>> \o ta2), P("q", <<Self("p")>> \o q)>>],
        [Decl("class") EXCEPT !.base = File(6), !.interfaces = <<5>>,
            !.functions = <<Over(F(tb, <<>>)), [Fn("u") EXCEPT !.throws = tu, !.body = ub]>>]>>

\* Throws clauses that are refused, and a constructor that lets an error of
\* its base, of a field initializer or of its body escape.
Clauses(s) ==
  LET E == File(2)  E2 == File(3)
      Cs == {<<>>, <<E>>, <<E, E2>>, <<E, E>>, <<String>>, <<RootError, E>>}
      C(i, b, t) == [Ctor(i, b) EXCEPT !.throws = t]
  IN \E pr \in BOOLEAN, a \in {<<>>, <<Throw(E2)>>}, ta \in Cs, tb \in {<<>>, <<E>>},
        i \in {NoType, File(4), File(1)}, fi \in {<<>>, <<Throw(E)>>} :
       s = <<Object, [Decl("error") EXCEPT !.private = pr, !.constructors = <<Ctor(RootError, <<>>)>>],
        [Decl("error") EXCEPT !.base = E, !.constructors = <<Ctor(E, <<>>)>>],
        [Decl("class") EXCEPT !.constructors = <<C(NoType, a, ta)>>],
        [Decl("class") EXCEPT !.base = File(4), !.constructors = <<C(i, <<>>, tb)>>,
             !.fields = <<[Field(String) EXCEPT !.init = fi]>>]>>

\* Structs that embed structs and references; a class and its base with fields.
Layouts(s) ==
  LET Ts == {Type("byte"), Type("int64"), String, File(2), Nullable(File(2)), File(5)}
      Fs == {<<>>} \cup {<<Field(t)>> : t \in Ts}
              \cup {<<Field(t), Field(u)>> : t \in {Type("byte"), String}, u \in Ts}
  IN \E t2 \in {Type("byte"), Type("int16"), String, File(2), Nullable(File(2)), File(5)},
        f3 \in Fs, t4 \in Ts :
       s = <<Object, [Decl("struct") EXCEPT !.fields = <<Field(Type("byte")), Field(t2)>>],
             [Decl("class") EXCEPT !.fields = f3],
             [Decl("class") EXCEPT !.base = File(3), !.fields = <<Field(t4)>>],
             Decl("enum"), [Decl("error") EXCEPT !.fields = <<Field(File(2))>>]>>

\* A chain of structs, at and past the limits.
Nested(s) ==
  \E k \in 0 .. 4, t3 \in {Type("byte"), File(2), File(4)},
     t4 \in {Type("byte"), File(3), Nullable(File(3))} :
    s = <<Object, [Decl("struct") EXCEPT !.fields = [n \in 1 .. k |-> Field(String)]],
     [Decl("struct") EXCEPT !.fields = <<Field(File(2)), Field(t3)>>],
     [Decl("struct") EXCEPT !.fields = <<Field(t4)>>]>>

\* Constructors and field initializers that call functions of self.
Construction(s) ==
  LET Calls1 == {<<>>, <<Self("f")>>, <<Self("g")>>}
      FG(b) == <<[PlainF EXCEPT !.body = b], Fn("g")>>
  IN \E fb \in {<<>>, <<Self("g")>>}, ca \in Calls1, ia \in Calls1,
        cb \in {<<>>, <<Super("f")>>, <<Self("g")>>}, cc \in {<<>>, <<Self("f")>>},
        fc \in {<<>>, <<[Over(PlainF) EXCEPT !.body = <<Super("f")>>]>>}, pc \in BOOLEAN :
       s = <<Object,
        [Decl("class") EXCEPT !.functions = FG(fb), !.constructors = <<Ctor(NoType, ca)>>,
            !.fields = <<[Field(String) EXCEPT !.init = ia]>>],
        [Decl("class") EXCEPT !.base = File(2), !.functions = <<Over(PlainF), Over(Fn("g"))>>,
            !.constructors = <<Ctor(File(2), cb)>>, !.fields = <<Field(String)>>],
        [Decl("class") EXCEPT !.base = File(3), !.functions = fc,
            !.constructors = <<[Ctor(File(3), cc) EXCEPT !.private = pc]>>,
            !.fields = <<Field(String)>>]>>

AllPrograms(s) ==
  \/ Hierarchies(s) \/ Contracts(s) \/ Covariant(s) \/ Effects(s) \/ Clauses(s)
  \/ Layouts(s) \/ Nested(s) \/ Construction(s)
=============================================================================
