---------------------------- MODULE Declarations ----------------------------
(* The declarations small programs are written with. *)
EXTENDS ClassHierarchy

Fn(n) == [name |-> n, ret |-> Void, throws |-> <<>>, static |-> FALSE,
          private |-> FALSE, override |-> FALSE, abstract |-> FALSE,
          final |-> FALSE, body |-> <<>>]
Over(f) == [f EXCEPT !.override = TRUE]
Ctor(init, body) ==
  [name |-> "new", ret |-> Void, throws |-> <<>>, static |-> FALSE, private |-> FALSE,
   override |-> FALSE, abstract |-> FALSE, final |-> FALSE, body |-> body, init |-> init]
Decl(kind) == [kind |-> kind, abstract |-> FALSE, sealed |-> FALSE, private |-> FALSE,
               base |-> NoType, interfaces |-> <<>>, functions |-> <<>>,
               constructors |-> <<>>, fields |-> <<>>, id |-> 0, package |-> 1, cases |-> 2]
Field(t) == [type |-> t, static |-> FALSE, init |-> <<>>, bits |-> 0]
Iface(id, is, fs) ==
  [Decl("interface") EXCEPT !.id = id, !.interfaces = is,
     !.functions = [n \in DOMAIN fs |-> [fs[n] EXCEPT !.abstract = TRUE]]]
Object == [Decl("class") EXCEPT !.functions = <<Fn("h")>>, !.constructors = <<Ctor(NoType, <<>>)>>]
Throw(t) == [op |-> "throw", t |-> t, name |-> ""]
Call(t, n) == [op |-> "call", t |-> t, name |-> n]
Self(n) == [op |-> "self", t |-> NoType, name |-> n]
Super(n) == [op |-> "super", t |-> NoType, name |-> n]
Opt(S) == {<<>>} \cup {<<x>> : x \in S}

=============================================================================
