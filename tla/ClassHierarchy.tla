--------------------------- MODULE ClassHierarchy ---------------------------
(***************************************************************************)
(* How semantic_analyzer.cc turns the declarations of a program into       *)
(* virtual tables, interface tables and error contracts.                   *)
(*                                                                         *)
(* A program is a sequence of files; file 1 is the standard library's      *)
(* Object.  A function's name stands for its name and parameter types.     *)
(* A body is a sequence of the statements that matter to dispatch and to   *)
(* error effects: throw an error, call a function of a receiver of some    *)
(* static type, of self, of super.                                         *)
(*                                                                         *)
(* SemanticAnalyzer::run calls its passes one after the other; each pass   *)
(* is an action.  `files` and `symbols` are the SemanticModel, `errors`    *)
(* the diagnostics: a program with one is rejected after the last pass     *)
(* (FileSemantics::is_valid, which only repeats that, is left out).        *)
(***************************************************************************)
EXTENDS Integers, Sequences, FiniteSets, SequencesExt

CONSTANT IsProgram(_)        \* the programs compiled

VARIABLES
  syntax,    \* the files of the program under compilation
  phase,     \* the next pass
  files,     \* FileSemantics of every file
  symbols,   \* SemanticModel::symbols(), functions and constructors
  errors,    \* the diagnostics, as <<rule, file>> pairs
  pass       \* the loop of the current pass: the files it completed, the
             \* index it has reached, whether this round completed a file

semaVars == <<syntax, phase, files, symbols, errors, pass>>

Obj == 1
FileIds == 1 .. Len(syntax)
OneOf(S) == CHOOSE x \in S : TRUE
IsIn(x, s) == \E i \in DOMAIN s : s[i] = x
\* n rounds of a loop.
Rounds(Op(_), start, n) == FoldLeft(LAMBDA acc, k : Op(acc), start, [k \in 1 .. n |-> k])
IndexOf(x, s) == CHOOSE i \in DOMAIN s : s[i] = x /\ \A j \in 1 .. i - 1 : s[j] # x

-----------------------------------------------------------------------------
(* Types: k is the kind, f the file of a nominal type, n nullability. *)

Type(k) == [k |-> k, f |-> 0, n |-> FALSE]
NoType == Type("none")
Void == Type("void")
String == Type("string")
RootError == Type("Error")
DivisionByZero == Type("DivisionByZero")
File(i) == [k |-> "file", f |-> i, n |-> FALSE]
Nullable(t) == [t EXCEPT !.n = TRUE]
Element(t) == [t EXCEPT !.n = FALSE]

TypeKind(t) ==
  IF t.n THEN "nullable"
  ELSE IF t.k = "file" THEN IF t.f = Obj THEN "object" ELSE syntax[t.f].kind
  ELSE IF t \in {RootError, DivisionByZero} THEN "error"
  ELSE t.k

\* is_file_class_subtype and implements_interface, against the bases bs and
\* the interface closures is computed so far.
\* Chain(next, i)[k] is the file k steps above i, 0 past the end.
Chain(next, i) ==
  LET at[k \in Nat] ==
        IF k = 0 THEN i ELSE IF at[k - 1] = 0 THEN 0 ELSE next[at[k - 1]]
  IN  at
Ancestors(bs, i) ==
  LET chain == Chain(bs, i) IN {chain[k] : k \in 1 .. Len(bs)} \ {0}

IsFileClassSubtype(bs, sub, super) ==
  \/ sub = super
  \/ TypeKind(sub) = "error" /\ super = RootError
  \/ /\ sub.k = "file" /\ super.k = "file"
     /\ {TypeKind(sub), TypeKind(super)} \subseteq {"class", "error"}
     /\ super.f \in Ancestors(bs, sub.f)

IsReference(t) ==
  TypeKind(Element(t)) \in {"string", "object", "class", "error", "interface"}

\* Enums and structs; the scalars' wrapper classes are not declared here.
IsBoxable(t) == TypeKind(t) \in {"enum", "struct"}

IsAssignableNonNull(bs, is, expected, actual) ==
  \/ expected = actual
  \/ /\ TypeKind(expected) \in {"class", "error"}
     /\ TypeKind(actual) \in {"class", "error"}
     /\ IsFileClassSubtype(bs, actual, expected)
  \/ /\ TypeKind(expected) = "interface"
     /\ TypeKind(actual) \in {"class", "error", "interface"}
     /\ actual.k = "file" /\ IsIn(expected.f, is[actual.f])
  \/ /\ TypeKind(expected) = "object"
     /\ \/ TypeKind(actual) \in {"string", "class", "error", "interface"}
        \/ IsBoxable(actual)

IsAssignable(bs, is, expected, actual) ==
  /\ expected # Void /\ actual # Void
  /\ \/ expected = actual
     \/ ~expected.n /\ ~actual.n /\ IsAssignableNonNull(bs, is, expected, actual)
     \/ expected.n /\ IsAssignableNonNull(bs, is, Element(expected), Element(actual))

IsOverrideReturnCompatible(bs, is, inherited, overriding) ==
  \/ inherited = overriding
  \/ /\ IsReference(inherited) /\ IsReference(overriding)
     /\ IsAssignable(bs, is, inherited, overriding)

IsErrorSubtype(bs, sub, super) ==
  /\ TypeKind(sub) = "error" /\ TypeKind(super) = "error"
  /\ IsFileClassSubtype(bs, sub, super)

ThrowsSetCovers(bs, allowed, actual) ==
  \A t \in actual : \E p \in allowed : IsErrorSubtype(bs, t, p)

NormalizeErrorSet(bs, ts) ==
  {t \in ts : ~\E o \in ts : o # t /\ IsErrorSubtype(bs, t, o)}

IntersectErrorSets(bs, left, right) ==
  NormalizeErrorSet(bs,
    {t \in left : ThrowsSetCovers(bs, right, {t})}
      \cup {t \in right : ThrowsSetCovers(bs, left, {t})})

-----------------------------------------------------------------------------
(* register_type_relationships *)

\* The base the syntax names, if it may be one.
BaseIsAllowed(i) ==
  LET b == syntax[i].base IN
  IF syntax[i].kind = "error"
  THEN /\ TypeKind(b) = "error" /\ b # DivisionByZero
       /\ b.k = "file" => b.f # i /\ ~syntax[b.f].sealed
  ELSE /\ syntax[i].kind = "class" /\ TypeKind(b) = "class"
       /\ b.f # i /\ ~syntax[b.f].sealed

DeclaredBase(i) ==
  IF syntax[i].base # NoType THEN IF BaseIsAllowed(i) THEN syntax[i].base.f ELSE 0
  ELSE IF syntax[i].kind = "class" /\ i # Obj THEN Obj ELSE 0

\* The interfaces kept of the ones a file names, and whether all were.
InterfaceIsAllowed(i, n) ==
  LET named == syntax[i].interfaces IN
  /\ syntax[i].kind # "struct" /\ TypeKind(File(named[n])) = "interface" /\ named[n] # i
  /\ \A m \in 1 .. n - 1 : named[m] # named[n]
DirectInterfaces(i) ==
  LET named == syntax[i].interfaces
      direct[n \in 0 .. Len(named)] ==
        IF n = 0 THEN <<>>
        ELSE IF InterfaceIsAllowed(i, n) THEN Append(direct[n - 1], named[n]) ELSE direct[n - 1]
  IN  direct[Len(named)]

\* validate_inheritance_cycles: the files whose chain of bases never ends.
HierarchyInvalid(bs) ==
  {i \in DOMAIN bs : \E a \in Ancestors(bs, i) \cup {i} : a \in Ancestors(bs, a)}

RegisterTypeRelationships ==
  /\ phase = "relationships"
  /\ LET declared == [i \in FileIds |-> DeclaredBase(i)]
         cyclic == HierarchyInvalid(declared)
         direct == [i \in FileIds |-> DirectInterfaces(i)]
     IN /\ files' = [i \in FileIds |->
             [base |-> IF i \in cyclic THEN 0 ELSE declared[i],
              implicit |-> syntax[i].base = NoType /\ declared[i] = Obj,
              direct |-> direct[i], interfaces |-> <<>>, contract |-> <<>>,
              functions |-> <<>>, constructor |-> 0, virtuals |-> <<>>,
              implementations |-> <<>>]]
        /\ errors' = {<<"cycle", i>> : i \in cyclic}
             \cup {<<"base", i>> : i \in {j \in FileIds :
                    syntax[j].base # NoType /\ ~BaseIsAllowed(j)}}
             \cup {<<"interface", i>> : i \in {j \in FileIds :
                    direct[j] # syntax[j].interfaces}}
             \cup {<<"identity", i>> : i \in {j \in FileIds :
                    /\ syntax[j].kind = "interface"
                    /\ \E k \in FileIds : k # j /\ syntax[k].kind = "interface"
                                          /\ syntax[k].id = syntax[j].id}}
  /\ phase' = "members"
  /\ UNCHANGED <<syntax, symbols, pass>>

Bases == [i \in FileIds |-> files[i].base]
Interfaces == [i \in FileIds |-> files[i].interfaces]

-----------------------------------------------------------------------------
(* register_members, validate_struct_layout_cycles *)

\* resolve_throws_types: what stays of a throws clause, and whether it is
\* well formed: errors only, none private in a public clause, none repeated,
\* none covered by another.
Exposes(t, m) == ~m.private /\ t.k = "file" /\ syntax[t.f].private
ResolvedThrows(m) ==
  {t \in ToSet(m.throws) : TypeKind(t) = "error" /\ ~Exposes(t, m)}
ThrowsWellFormed(m) ==
  /\ \A i \in DOMAIN m.throws :
       TypeKind(m.throws[i]) = "error" /\ ~Exposes(m.throws[i], m)
  /\ \A i, j \in DOMAIN m.throws : i # j =>
       /\ m.throws[i] # m.throws[j]
       /\ ~IsErrorSubtype(Bases, m.throws[i], m.throws[j])

\* The modifier rules of register_function.
ModifiersAllowed(i, m) ==
  /\ syntax[i].kind = "struct" => ~m.abstract /\ ~m.override /\ ~m.final
  /\ m.final => m.override /\ ~m.abstract
  /\ m.abstract =>
       /\ syntax[i].kind \in {"class", "error"} => syntax[i].abstract
       /\ ~m.static /\ ~m.private

MemberSymbol(i, m, kind) ==
  [kind |-> kind, file |-> i, name |-> m.name, type |-> m.ret,
   throws |-> ResolvedThrows(m), explicit |-> m.throws # <<>>,
   static |-> m.static, private |-> m.private, override |-> m.override,
   abstract |-> m.abstract, final |-> m.final, body |-> m.body,
   valid |-> ThrowsWellFormed(m) /\ (kind = "function" => ModifiersAllowed(i, m)),
   slot |-> 0, overridden |-> 0, baseConstructor |-> 0, declared |-> TRUE]

MembersOf(i) ==
  [n \in DOMAIN syntax[i].functions |->
     MemberSymbol(i, syntax[i].functions[n], "function")]
  \o [n \in DOMAIN syntax[i].constructors |->
     MemberSymbol(i, syntax[i].constructors[n], "constructor")]

\* The symbols of the files up to i, in the order of their registration.
SymbolsUpTo(i) ==
  LET registered[k \in 0 .. Len(syntax)] ==
        IF k = 0 THEN <<>> ELSE registered[k - 1] \o MembersOf(k)
  IN  registered[i]

\* The structs a struct embeds, and the ones that embed themselves.
Embeds(i) == {syntax[i].fields[n].type.f : n \in
  {m \in DOMAIN syntax[i].fields : ~syntax[i].fields[m].static
      /\ TypeKind(syntax[i].fields[m].type) = "struct"}}
StructCycle(i) ==
  LET reach[k \in 0 .. Len(syntax)] ==
        IF k = 0 THEN Embeds(i)
        ELSE reach[k - 1] \cup UNION {Embeds(j) : j \in reach[k - 1]}
  IN  syntax[i].kind = "struct" /\ i \in reach[Len(syntax)]

RegisterMembers ==
  /\ phase = "members"
  /\ LET first(i) == Len(SymbolsUpTo(i - 1))
         count(i) == Len(syntax[i].functions)
     IN /\ symbols' = SymbolsUpTo(Len(syntax))
        /\ files' = [i \in FileIds |-> [files[i] EXCEPT
             !.functions = [n \in DOMAIN syntax[i].functions |-> first(i) + n],
             !.constructor = IF syntax[i].constructors = <<>> THEN 0
                             ELSE first(i) + count(i) + 1]]
  /\ errors' = errors \cup {<<"member", symbols'[s].file>> :
                              s \in {n \in DOMAIN symbols' : ~symbols'[n].valid}}
                      \cup {<<"layout cycle", i>> : i \in {j \in FileIds : StructCycle(j)}}
  /\ phase' = "contracts"
  /\ UNCHANGED <<syntax, pass>>
-----------------------------------------------------------------------------
(* validate_interface_contracts *)

NewPass == [complete |-> {}, at |-> 1, progress |-> FALSE]
AppendNew(seq, more) ==
  LET joined[n \in 0 .. Len(more)] ==
        IF n = 0 THEN seq
        ELSE IF IsIn(more[n], joined[n - 1]) THEN joined[n - 1]
        ELSE Append(joined[n - 1], more[n])
  IN  joined[Len(more)]

\* The entry of a table with the name of symbol c, or 0.
Matching(sy, table, c) ==
  IF \E n \in DOMAIN table : sy[table[n]].name = sy[c].name
  THEN CHOOSE n \in DOMAIN table :
         /\ sy[table[n]].name = sy[c].name
         /\ \A m \in 1 .. n - 1 : sy[table[m]].name # sy[c].name
  ELSE 0

\* merge_function: candidate c joins the contract of interface i; is are the
\* interface closures known at that moment.  acc holds the contract, the
\* symbols (a merged contract is a symbol of its own) and the verdict.
MergeFunction(i, is, acc, c) ==
  LET at == Matching(acc.sy, acc.contract, c)
      old == acc.contract[at]
      selected ==
        IF IsOverrideReturnCompatible(Bases, is, acc.sy[old].type, acc.sy[c].type)
        THEN c ELSE old
      permitted == IntersectErrorSets(Bases, acc.sy[old].throws, acc.sy[c].throws)
  IN IF ~acc.sy[c].valid THEN acc
     ELSE IF at = 0 THEN [acc EXCEPT !.contract = Append(@, c)]
     ELSE IF /\ selected = old
             /\ ~IsOverrideReturnCompatible(Bases, is, acc.sy[c].type, acc.sy[old].type)
     THEN [acc EXCEPT !.ok = FALSE]
     ELSE IF acc.sy[selected].throws = permitted THEN [acc EXCEPT !.contract[at] = selected]
     ELSE [acc EXCEPT !.contract[at] = Len(acc.sy) + 1,
                      !.sy = Append(@, [acc.sy[selected] EXCEPT
                        !.file = i, !.throws = permitted, !.explicit = TRUE,
                        !.slot = 0, !.overridden = 0, !.declared = FALSE])]

IsInterface(i) == syntax[i].kind = "interface"
ContractPending(i) == IsInterface(i) /\ i \notin pass.complete
ContractReady(i) ==
  ContractPending(i) /\ \A n \in DOMAIN files[i].direct : ~ContractPending(files[i].direct[n])

\* The closures of the interfaces a file names, one after the other.
DirectClosures(i) ==
  FlattenSeq([n \in DOMAIN files[i].direct |-> files[files[i].direct[n]].interfaces])

\* The functions interface i inherits, then its own, joined one by one.
MergedContract(i, is) ==
  LET direct == files[i].direct
      inherited == FlattenSeq([n \in DOMAIN direct |-> files[direct[n]].contract])
      joining == inherited \o files[i].functions
      merged[n \in 0 .. Len(joining)] ==
        IF n = 0 THEN [contract |-> <<>>, sy |-> symbols, ok |-> TRUE]
        ELSE MergeFunction(i, is, merged[n - 1], joining[n])
  IN  merged[Len(joining)]

\* One interface whose parents are complete, in the order of the loop.
CompleteContract(i) ==
  LET closure == Append(AppendNew(<<>>, DirectClosures(i)), i)
      merged == MergedContract(i, [Interfaces EXCEPT ![i] = closure])
  IN /\ files' = [files EXCEPT ![i].interfaces = closure, ![i].contract = merged.contract]
     /\ symbols' = merged.sy
     /\ errors' = errors \cup (IF merged.ok THEN {} ELSE {<<"contract", i>>})
     /\ pass' = [complete |-> pass.complete \cup {i}, at |-> i + 1, progress |-> TRUE]

ValidateInterfaceContract ==
  /\ phase = "contracts"
  /\ \E i \in pass.at .. Len(syntax) :
       /\ ContractReady(i) /\ \A j \in pass.at .. i - 1 : ~ContractReady(j)
       /\ CompleteContract(i)
  /\ UNCHANGED <<syntax, phase>>

NextContractRound ==
  /\ phase = "contracts"
  /\ \A i \in pass.at .. Len(syntax) : ~ContractReady(i)
  /\ \E i \in FileIds : ContractPending(i)
  /\ pass.progress
  /\ pass' = [pass EXCEPT !.at = 1, !.progress = FALSE]
  /\ UNCHANGED <<syntax, phase, files, symbols, errors>>

\* No interface is left, or the ones left inherit in a cycle.
EndContracts ==
  /\ phase = "contracts"
  /\ \A i \in pass.at .. Len(syntax) : ~ContractReady(i)
  /\ pass.progress => \A i \in FileIds : ~ContractPending(i)
  /\ files' = [i \in FileIds |-> IF ContractPending(i)
        THEN [files[i] EXCEPT !.direct = <<>>, !.interfaces = <<i>>,
                              !.contract = files[i].functions]
        ELSE files[i]]
  /\ errors' = errors \cup {<<"interface cycle", i>> : i \in {j \in FileIds : ContractPending(j)}}
  /\ phase' = "closures"
  /\ pass' = NewPass
  /\ UNCHANGED <<syntax, symbols>>

-----------------------------------------------------------------------------
(* validate_overrides, validate_file_overrides *)

IsClass(i) == syntax[i].kind \in {"class", "error"}

\* The closures of the classes, base first: as many rounds as there are files
\* reach the end of every chain of bases.
ClassClosures ==
  LET closed[k \in 0 .. Len(syntax)] ==
        IF k = 0 THEN Interfaces
        ELSE [i \in FileIds |->
                IF ~IsClass(i) THEN files[i].interfaces
                ELSE AppendNew(IF files[i].base = 0 THEN <<>>
                               ELSE closed[k - 1][files[i].base], DirectClosures(i))]
  IN  closed[Len(syntax)]

CloseClassInterfaces ==
  /\ phase = "closures"
  /\ files' = [i \in FileIds |-> [files[i] EXCEPT !.interfaces = ClassClosures[i]]]
  /\ phase' = "overrides"
  /\ UNCHANGED <<syntax, symbols, errors, pass>>

\* Mutant: an override takes its slot but leaves the inherited entry in place.
PlaceFunctionKeepsEntry(i, acc, f) ==
  LET at == Matching(acc.sy, acc.table, f)
  IN IF acc.sy[f].static \/ acc.sy[f].private THEN acc
     ELSE IF at = 0
     THEN [acc EXCEPT !.sy[f].slot = Len(acc.table) + 1, !.table = Append(@, f)]
     ELSE [acc EXCEPT !.sy[f].slot = at, !.sy[f].overridden = acc.table[at]]

\* One function of class i: acc is the table so far, the symbols, the verdict.
PlaceFunction(i, acc, f) ==
  LET me == acc.sy[f]
      at == Matching(acc.sy, acc.table, f)
      old == acc.sy[acc.table[at]]
      required == \E n \in DOMAIN files[i].interfaces :
                    Matching(acc.sy, files[files[i].interfaces[n]].contract, f) # 0
      Invalid == [acc EXCEPT !.sy[f].valid = FALSE, !.ok = FALSE]
      Mark(a, good) == IF good THEN a
                       ELSE [a EXCEPT !.sy[f].valid = FALSE, !.ok = FALSE]
  IN IF me.static \/ me.private THEN Mark(acc, ~me.override)
     ELSE IF at = 0
     THEN Mark([acc EXCEPT !.sy[f].slot = Len(acc.table) + 1, !.table = Append(@, f)],
               me.override = required)
     ELSE IF \/ old.final
             \/ ~IsOverrideReturnCompatible(Bases, Interfaces, old.type, me.type)
             \/ ~ThrowsSetCovers(Bases, old.throws, me.throws)
     THEN Invalid
     ELSE Mark([acc EXCEPT !.sy[f].slot = at, !.sy[f].overridden = acc.table[at],
                           !.table[at] = f], me.override)

\* The class whose table a class starts from, Object for an error without base.
Parents == [i \in FileIds |-> IF files[i].base # 0 THEN files[i].base
                            ELSE IF syntax[i].kind = "error" THEN Obj ELSE 0]
InheritedTable(i) == IF Parents[i] = 0 THEN <<>> ELSE files[Parents[i]].virtuals

\* All of them, one after the other.
Placed(i) ==
  LET functions == files[i].functions
      placed[n \in 0 .. Len(functions)] ==
        IF n = 0 THEN [table |-> InheritedTable(i), sy |-> symbols, ok |-> TRUE]
        ELSE PlaceFunction(i, placed[n - 1], functions[n])
  IN  placed[Len(functions)]

\* Object has no base, so it is placed first; errors without a base read its
\* table, which is complete because file 1 comes first.
OverridesReady(i) ==
  /\ IsClass(i) /\ i \notin pass.complete
  /\ files[i].base # 0 => files[i].base \in pass.complete

ValidateFileOverrides ==
  /\ phase = "overrides"
  /\ \E i \in FileIds :
       /\ OverridesReady(i) /\ \A j \in 1 .. i - 1 : ~OverridesReady(j)
       /\ LET placed == Placed(i)
              unimplemented == \E n \in DOMAIN placed.table :
                 placed.sy[placed.table[n]].abstract /\ placed.sy[placed.table[n]].valid
          IN /\ files' = [files EXCEPT ![i].virtuals = placed.table]
             /\ symbols' = placed.sy
             /\ errors' = errors
                  \cup (IF placed.ok THEN {} ELSE {<<"override", i>>})
                  \cup (IF unimplemented /\ ~syntax[i].abstract
                        THEN {<<"abstract", i>>} ELSE {})
       /\ pass' = [pass EXCEPT !.complete = @ \cup {i}]
  /\ UNCHANGED <<syntax, phase>>

EndOverrides ==
  /\ phase = "overrides"
  /\ \A i \in FileIds : ~OverridesReady(i)
  /\ phase' = "conformance"
  /\ UNCHANGED <<syntax, files, symbols, errors, pass>>

-----------------------------------------------------------------------------
(* validate_interface_conformance *)

\* How class i meets requirement r: the table entry, or why it does not.
Implementation(i, r) == Matching(symbols, files[i].virtuals, r)
Conforms(i, r) ==
  LET at == Implementation(i, r)
      f == symbols[files[i].virtuals[at]]
  IN IF at = 0 THEN "missing"
     ELSE IF ~IsOverrideReturnCompatible(Bases, Interfaces, symbols[r].type, f.type)
     THEN "return"
     ELSE IF ~ThrowsSetCovers(Bases, symbols[r].throws, f.throws) THEN "throws"
     ELSE "ok"

Requirements(i, n) == files[files[i].interfaces[n]].contract
CompleteContractOf(i, n) ==
  \A r \in ToSet(Requirements(i, n)) : Conforms(i, r) = "ok"

\* The table of class i for the n-th interface of its closure, and the tables
\* it gets: one for every contract it meets in full.
InterfaceTable(i, n) ==
  [interface |-> files[i].interfaces[n],
   functions |-> [m \in DOMAIN Requirements(i, n) |->
                    files[i].virtuals[Implementation(i, Requirements(i, n)[m])]]]
ImplementationsOf(i) ==
  LET tables[n \in 0 .. Len(files[i].interfaces)] ==
        IF n = 0 THEN <<>>
        ELSE IF CompleteContractOf(i, n) THEN Append(tables[n - 1], InterfaceTable(i, n))
        ELSE tables[n - 1]
  IN  tables[Len(files[i].interfaces)]

ValidateInterfaceConformance ==
  /\ phase = "conformance"
  /\ files' = [i \in FileIds |-> IF ~IsClass(i) THEN files[i] ELSE
       [files[i] EXCEPT !.implementations = ImplementationsOf(i)]]
  /\ errors' = errors \cup {<<"conformance", i>> : i \in {j \in FileIds : IsClass(j) /\
       \E n \in DOMAIN files[j].interfaces : \E r \in ToSet(Requirements(j, n)) :
          Conforms(j, r) \notin {"ok"} \cup (IF syntax[j].abstract THEN {"missing"} ELSE {})}}
  /\ phase' = "definitions"
  /\ UNCHANGED <<syntax, symbols, pass>>

-----------------------------------------------------------------------------
(* analyze_definitions: which symbol each call names *)

\* find_members: the nearest class of the chain that declares the name, unless
\* that declaration is private to another file.
MemberNamed(i, name) ==
  {f \in ToSet(files[i].functions) : symbols[f].name = name}
FindMember(i, name, from) ==
  LET chain == Chain(Bases, i)
      owners == {k \in 0 .. Len(syntax) : chain[k] # 0 /\ MemberNamed(chain[k], name) # {}}
      owner == chain[Min(owners)]
      found == OneOf(MemberNamed(owner, name))
  IN IF owners = {} \/ (symbols[found].private /\ owner # from) THEN 0 ELSE found

\* analyze_member_access: an interface offers its contract, every reference
\* the public functions of Object; a value that may be null and one of a type
\* without members offer none.
ContractNamed(i, name) == {c \in ToSet(files[i].contract) : symbols[c].name = name}
HasMembers(t) ==
  TypeKind(t) \in {"string", "object", "class", "error", "interface", "struct"}
MemberOf(t, name, from) ==
  LET own == IF TypeKind(t) = "interface"
             THEN IF ContractNamed(t.f, name) # {} THEN OneOf(ContractNamed(t.f, name)) ELSE 0
             ELSE IF t.k = "file" THEN FindMember(t.f, name, from) ELSE 0
  IN IF ~HasMembers(t) THEN 0
     ELSE IF own = 0 /\ TypeKind(t) # "struct" THEN FindMember(Obj, name, 0) ELSE own

\* The symbol a statement of file i calls; 0 when the call is refused.
Callee(i, st) ==
  IF st.op = "call" THEN MemberOf(st.t, st.name, i)
  ELSE IF st.op = "self" THEN FindMember(i, st.name, i)
  ELSE IF st.op = "super" /\ files[i].base # 0
  THEN LET f == FindMember(files[i].base, st.name, i) IN
       IF f # 0 /\ (symbols[f].abstract \/ symbols[f].static) THEN 0 ELSE f
  ELSE 0

\* analyze_constructor_initializer and analyze_error_root_initializer: the base
\* constructor a constructor of file i runs first, and whether it may.
BaseConstructor(i, init) ==
  LET base == files[i].base
      ctor == IF base = 0 THEN 0 ELSE files[base].constructor
      usable == ctor # 0 /\ symbols[ctor].valid /\ ~symbols[ctor].private
  IN IF base = 0
     THEN [target |-> 0, ok |-> init \in (IF syntax[i].kind = "error"
                                         THEN {NoType, RootError} ELSE {NoType})]
     ELSE LET may == usable /\ (IF init = NoType THEN files[i].implicit ELSE init = File(base))
          IN  [target |-> IF may THEN ctor ELSE 0, ok |-> may]

InitializerOf(s) == syntax[symbols[s].file].constructors[1].init

\* The initializers of the fields of a file, in order.
FieldStatements(i) ==
  FlattenSeq([n \in DOMAIN syntax[i].fields |-> syntax[i].fields[n].init])

\* analyze_throw and validate_call_access: a statement of file i that throws
\* throws an error, and one that calls names a symbol.
StatementAllowed(i, st) ==
  IF st.op = "throw" THEN TypeKind(st.t) = "error" ELSE Callee(i, st) # 0

AnalyzeDefinitions ==
  /\ phase = "definitions"
  /\ symbols' = [s \in DOMAIN symbols |-> IF symbols[s].kind # "constructor" THEN symbols[s]
        ELSE [symbols[s] EXCEPT !.baseConstructor =
                BaseConstructor(symbols[s].file, InitializerOf(s)).target]]
  /\ errors' = errors
       \cup {<<"initializer", symbols[s].file>> : s \in {c \in DOMAIN symbols :
               /\ symbols[c].kind = "constructor"
               /\ ~BaseConstructor(symbols[c].file, InitializerOf(c)).ok}}
       \cup {<<"statement", symbols[s].file>> : s \in {c \in DOMAIN symbols :
               /\ symbols[c].declared
               /\ \E n \in DOMAIN symbols[c].body :
                    ~StatementAllowed(symbols[c].file, symbols[c].body[n])}}
       \cup {<<"statement", i>> : i \in {j \in FileIds :
               \E st \in ToSet(FieldStatements(j)) : ~StatementAllowed(j, st)}}
  /\ phase' = "effects"
  /\ UNCHANGED <<syntax, files, pass>>

-----------------------------------------------------------------------------
(* analyze_error_effects *)

\* callable_effects_: what a callable may let escape.  A constructor also runs
\* its base constructor and the initializers of its fields.
Statements(s) ==
  symbols[s].body \o (IF symbols[s].kind = "constructor"
                      THEN FieldStatements(symbols[s].file) ELSE <<>>)
DirectErrors(s) ==
  {st.t : st \in {x \in ToSet(Statements(s)) : x.op = "throw"}}
CalledSymbols(s) ==
  ({Callee(symbols[s].file, st) : st \in {x \in ToSet(Statements(s)) : x.op # "throw"}}
     \cup {symbols[s].baseConstructor}) \ {0}

InfersThrows(s) == symbols[s].private /\ ~symbols[s].explicit
InferredIds == {s \in DOMAIN symbols : InfersThrows(s) /\ symbols[s].declared}

\* source_effects, with the sets inferred so far.
SourceEffects(inferred, s) ==
  NormalizeErrorSet(Bases, DirectErrors(s) \cup UNION {
    IF c \in DOMAIN inferred THEN inferred[c] ELSE symbols[c].throws :
      c \in CalledSymbols(s)})

\* A round of the fixpoint updates the sets in symbol order.
EffectsRound(inferred) ==
  LET upto[s \in Nat] ==
        IF s = 0 THEN inferred
        ELSE IF s \in InferredIds
        THEN [upto[s - 1] EXCEPT ![s] = SourceEffects(upto[s - 1], s)]
        ELSE upto[s - 1]
  IN  upto[Len(symbols)]
NoEffects == [s \in InferredIds |-> {}]

\* Mutant: a single round.
InferredEffectsOnce == EffectsRound(NoEffects)

\* There is one round more than there are sets to infer.
InferredEffects ==
  LET round[k \in Nat] == IF k = 0 THEN NoEffects ELSE EffectsRound(round[k - 1])
  IN  round[Cardinality(InferredIds) + 1]

Uncovered(inferred, s) ==
  ~ThrowsSetCovers(Bases, symbols[s].throws, SourceEffects(inferred, s))

AnalyzeErrorEffects ==
  /\ phase = "effects"
  /\ LET inferred == InferredEffects IN
     /\ symbols' = [s \in DOMAIN symbols |-> IF s \in InferredIds
                      THEN [symbols[s] EXCEPT !.throws = inferred[s]] ELSE symbols[s]]
     /\ errors' = errors \cup {<<"throws", symbols[s].file>> : s \in {c \in DOMAIN symbols :
                      symbols[c].declared /\ ~InfersThrows(c) /\ Uncovered(inferred, c)}}
  /\ phase' = IF errors' = {} THEN "abi" ELSE "rejected"
  /\ UNCHANGED <<syntax, files, pass>>

-----------------------------------------------------------------------------
(* What the parser hands over (declaration_pass.cc): functions of a file    *)
(* differ in name and parameters (the model's name stands for both), those  *)
(* of an interface are abstract, abstract ones have no body, an interface   *)
(* has neither constructors nor fields.  Object is the paired standard      *)
(* library's: a class that names neither a base nor an interface, has no    *)
(* field and no more functions than the three of its surface (register_     *)
(* standard_library_bridges).  A file has at most one constructor: a bound  *)
(* of the model, the language has overloads.                                *)

ScalarNames == {"bool", "byte", "int16", "int32", "int64"}
TypesOf(s) ==
  [k : {"none", "void", "string", "Error", "DivisionByZero"} \cup ScalarNames,
   f : {0}, n : BOOLEAN]
  \cup [k : {"file"}, f : 1 .. Len(s), n : BOOLEAN]
StatementsOf(s) == [op : {"throw", "call", "self", "super"}, t : TypesOf(s), name : STRING]
FunctionsOf(s) ==
  [name : STRING, ret : TypesOf(s), throws : Seq(TypesOf(s)), static : BOOLEAN,
   private : BOOLEAN, override : BOOLEAN, abstract : BOOLEAN, final : BOOLEAN,
   body : Seq(StatementsOf(s))]
ConstructorsOf(s) ==
  [name : STRING, ret : TypesOf(s), throws : Seq(TypesOf(s)), static : {FALSE},
   private : BOOLEAN, override : {FALSE}, abstract : {FALSE}, final : {FALSE},
   body : Seq(StatementsOf(s)), init : TypesOf(s)]
FieldsOf(s) ==
  [type : TypesOf(s), static : BOOLEAN, init : Seq(StatementsOf(s)), bits : Nat]
DeclarationsOf(s) ==
  [kind : {"class", "error", "interface", "struct", "enum"}, abstract : BOOLEAN,
   sealed : BOOLEAN, private : BOOLEAN, base : TypesOf(s), interfaces : Seq(1 .. Len(s)),
   functions : Seq(FunctionsOf(s)), constructors : Seq(ConstructorsOf(s)),
   fields : Seq(FieldsOf(s)), id : Nat, package : Nat, cases : Nat]

WellFormedProgram(s) ==
  /\ s \in Seq(DeclarationsOf(s)) /\ Obj \in DOMAIN s
  /\ s[Obj].kind = "class" /\ s[Obj].base = NoType /\ s[Obj].interfaces = <<>>
  /\ s[Obj].fields = <<>> /\ Len(s[Obj].functions) <= 3
  /\ \A i \in DOMAIN s :
       /\ Len(s[i].constructors) <= 1
       /\ \A m, n \in DOMAIN s[i].functions :
            s[i].functions[m].name = s[i].functions[n].name => m = n
       /\ \A n \in DOMAIN s[i].functions :
            s[i].functions[n].abstract => s[i].functions[n].body = <<>>
       /\ s[i].kind = "interface" =>
            /\ s[i].constructors = <<>> /\ s[i].fields = <<>>
            /\ \A n \in DOMAIN s[i].functions : s[i].functions[n].abstract

SemaInit ==
  /\ IsProgram(syntax) /\ WellFormedProgram(syntax)
  /\ phase = "relationships"
  /\ files = <<>> /\ symbols = <<>> /\ errors = {} /\ pass = NewPass

SemaNext ==
  \/ RegisterTypeRelationships \/ RegisterMembers
  \/ ValidateInterfaceContract \/ NextContractRound \/ EndContracts
  \/ CloseClassInterfaces \/ ValidateFileOverrides \/ EndOverrides
  \/ ValidateInterfaceConformance \/ AnalyzeDefinitions \/ AnalyzeErrorEffects

=============================================================================
