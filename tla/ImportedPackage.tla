--------------------------- MODULE ImportedPackage ---------------------------
(***************************************************************************)
(* imported_package.cc: the view of a package that its artifact carries.   *)
(* build_imported_package_view translates the tables of the compiled       *)
(* program, in which files and symbols are indices, into records that name *)
(* each other by canonical identity; verify_imported_package_view and      *)
(* verify_imported_package_closure decide whether such records may be      *)
(* compiled against; register_imported_packages turns them into tables     *)
(* again.                                                                  *)
(*                                                                         *)
(* Records keep the field names of the metadata.  Identities are sequences *)
(* of numbers; their order, like that of the identity strings, has nothing *)
(* to do with the order of declarations.  An absent identity is None, an   *)
(* absent slot or interface identity 0 (slots count from 1).  Spelling     *)
(* (display names, source paths, lines and columns) is left out.           *)
(* There are no arrays and no reflected wrapper classes in these programs. *)
(***************************************************************************)
EXTENDS ObjectAbi

CONSTANTS
  ParametersOf(_),   \* the parameter types a function's name stands for
  Names,             \* function names, in the order of their spelling
  MaxEnumCases, MaxConstants      \* kMaxEnumCases, kMaxStaticConstants

PackageOf(i) == syntax[i].package     \* NominalIdentity::package

None == <<>>
Less(a, b) ==
  \/ Len(a) < Len(b) /\ IsPrefix(a, b)
  \/ \E n \in 1 .. Len(a) : /\ n <= Len(b) /\ a[n] < b[n]
                            /\ \A m \in 1 .. n - 1 : a[m] = b[m]
SortBy(key, s) == SortSeq(s, LAMBDA a, b : Less(a[key], b[key]))
AscendBy(key, s) == \A n \in 1 .. Len(s) - 1 : Less(s[n][key], s[n + 1][key])
Unique(s) == FoldLeft(LAMBDA acc, x : IF IsIn(x, acc) THEN acc ELSE Append(acc, x), <<>>, s)
\* The concatenation and the combination make TLC compute a function once.
Eager(f) == <<>> @@ f
Map(Op(_), s) == <<>> \o [n \in DOMAIN s |-> Op(s[n])]

-----------------------------------------------------------------------------
(* canonical_identity.cc *)

Code(x, order) == IF IsIn(x, order) THEN IndexOf(x, order) ELSE 0
NominalKind(k) == IF k = "error" THEN "class" ELSE k
CanonicalNominal(nm) ==
  <<1, nm.package, 20 - nm.name, Code(nm.kind, <<"class", "enum", "interface", "struct">>)>>
CanonicalPrimitive(k) ==
  <<2, Code(k, <<"DivisionByZero", "Error", "Error.Message", "bool", "byte", "int16",
                 "int32", "int64", "string", "void">>)>>
CanonicalNullable(id) == <<3>> \o id
CanonicalMember(nm, kind, name, parameters) ==
  <<3 + Code(kind, <<"constructor", "initializer", "descriptor", "enum case",
                     "function", "field", "static">>)>>
    \o CanonicalNominal(nm) \o <<name, Len(parameters)>> \o FlattenSeq(parameters)
Mangle(id) == <<0>> \o id

\* infer_visibility: a name is a number, odd when its spelling is private.
Name(code, private) == 2 * code + (IF private THEN 1 ELSE 0)
InferVisibility(name) == IF name % 2 = 1 THEN "private" ELSE "public"

Nominal(i) == [package |-> PackageOf(i), name |-> Name(i, syntax[i].private),
               kind |-> NominalKind(syntax[i].kind)]
CanonicalInterfaceId(nm) ==
  IF nm.name \div 2 \in FileIds THEN syntax[nm.name \div 2].id ELSE 0
FileIdentity(i) == IF i = 0 THEN None ELSE CanonicalNominal(Nominal(i))
TypeIdentity(t) ==
  LET element == IF t.k = "file" THEN FileIdentity(t.f) ELSE CanonicalPrimitive(t.k)
  IN  IF t.n THEN CanonicalNullable(element) ELSE element

\* canonical_symbol_identity; parameters count without their nullability.
FunctionName(s) == Name(Code(symbols[s].name, Names), symbols[s].private)
OverloadIdentities(name) == Map(LAMBDA t : TypeIdentity(Element(t)), ParametersOf(name))
SymbolIdentity(s, kind) ==
  CanonicalMember(Nominal(symbols[s].file), kind, FunctionName(s),
                  OverloadIdentities(symbols[s].name))
MemberIdentity(s) == IF s = 0 THEN None ELSE SymbolIdentity(s, symbols[s].kind)
MemberIdentities(ss) == Map(MemberIdentity, ss)
FileIdentities(fs) == Map(FileIdentity, fs)

FieldName(n) == Name(25 + n, FALSE)
FieldIdentity(i, n) ==
  IF i = 0 THEN CanonicalPrimitive("Error.Message")
  ELSE CanonicalMember(Nominal(i), IF syntax[i].fields[n].static THEN "static" ELSE "field",
                       FieldName(n), <<>>)

-----------------------------------------------------------------------------
(* import_type, import_member *)

AbiKind(t) ==
  CASE IsReference(t) -> "reference" [] IsAggregate(t) -> "aggregate"
    [] TypeKind(t) = "void" -> "void" [] OTHER -> "integer"
BitWidth(kind, abi, size) ==
  CASE abi \in {"aggregate", "void"} -> 0 [] kind = "bool" -> 1 [] OTHER -> 8 * size

ImportType(t) ==
  LET l == TypeLayout(t) IN
  [id |-> TypeIdentity(t), kind |-> TypeKind(t),
   element |-> IF t.n THEN TypeIdentity(Element(t)) ELSE None,
   nominal |-> IF t.k = "file" /\ ~t.n THEN Nominal(t.f) ELSE None,
   abi_kind |-> AbiKind(t), bit_width |-> BitWidth(TypeKind(t), AbiKind(t), l.size),
   storage |-> [size |-> l.size, alignment |-> l.align], reference_offsets |-> l.refs]

Visibility(private) == IF private THEN "private" ELSE "public"
Linkage(visibility) == IF visibility = "public" THEN "external" ELSE "internal"
ImportParameters(name) ==
  Map(LAMBDA t : [final |-> FALSE, type |-> TypeIdentity(t)], ParametersOf(name))
SortedThrows(ts) ==
  LET ids == {TypeIdentity(t) : t \in ts}
      rank(x) == 1 + Cardinality({y \in ids : Less(y, x)})
  IN  [n \in 1 .. Cardinality(ids) |-> CHOOSE x \in ids : rank(x) = n]

ImportField(i, n) ==
  LET f == syntax[i].fields[n] IN
  [id |-> FieldIdentity(i, n), owner |-> FileIdentity(i), name |-> FieldName(n),
   kind |-> "field", visibility |-> "public", type |-> TypeIdentity(f.type),
   parameters |-> <<>>, throws |-> <<>>, final |-> f.static, static |-> f.static,
   override |-> FALSE, abstract |-> FALSE, slot |-> 0, overridden |-> None,
   base_constructor |-> None,
   static_value |-> IF f.static THEN [kind |-> TypeKind(f.type), bits |-> f.bits] ELSE None]

\* import_member.  The base constructor of an error whose base is the builtin
\* Error has no file and is exported as absent.
ImportCallableMember(s) ==
  LET c == symbols[s] IN
  [id |-> MemberIdentity(s), owner |-> FileIdentity(c.file), name |-> FunctionName(s),
   kind |-> c.kind, visibility |-> Visibility(c.private), type |-> TypeIdentity(c.type),
   parameters |-> ImportParameters(c.name), throws |-> SortedThrows(c.throws),
   final |-> c.final, static |-> c.static, override |-> c.override,
   abstract |-> c.abstract, slot |-> c.slot, overridden |-> MemberIdentity(c.overridden),
   base_constructor |-> MemberIdentity(c.baseConstructor), static_value |-> None]

Constructors(i) == IF files[i].constructor = 0 THEN <<>> ELSE <<files[i].constructor>>
CallablesOf(i) == files[i].functions \o Constructors(i)
DeclarationOrder(i) ==
  [n \in DOMAIN syntax[i].fields |-> FieldIdentity(i, n)] \o MemberIdentities(CallablesOf(i))
ImportMembers(i) ==
  SortBy("id", [n \in DOMAIN syntax[i].fields |-> ImportField(i, n)]
                 \o Map(ImportCallableMember, CallablesOf(i)))

-----------------------------------------------------------------------------
(* import_callable, import_class_abi *)

AbiParameter(kind, type, passing) == [kind |-> kind, passing |-> passing, type |-> type]
Passing(aggregate) == IF aggregate THEN "value_pointer" ELSE "direct"
ExplicitParameters(name) ==
  Map(LAMBDA t : AbiParameter("explicit", TypeIdentity(t), Passing(IsAggregate(t))),
      ParametersOf(name))

ImportInitializer(c, id, owner, parameters) ==
  IF c.kind = "constructor" /\ syntax[c.file].kind # "struct"
  THEN [id |-> id, linkage |-> Linkage(Visibility(c.private)),
        mangled_name |-> Mangle(id), return_type |-> CanonicalPrimitive("void"),
        parameters |-> <<AbiParameter("receiver", owner, "direct")>> \o parameters,
        receiver_mode |-> "reference", return_mode |-> "void"]
  ELSE None
ImportAbiParameters(c, mode, owner, result) ==
  (IF mode = "indirect" THEN <<AbiParameter("result", result, "result_pointer")>> ELSE <<>>)
  \o (IF c.kind = "function" /\ ~c.static
      THEN <<AbiParameter("receiver", owner, Passing(syntax[c.file].kind = "struct"))>> ELSE <<>>)
  \o ExplicitParameters(c.name)
CallableRecord(s, shape, id, owner, result, parameters) ==
  [member |-> id, kind |-> symbols[s].kind, mangled_name |-> Mangle(id),
   linkage |-> Linkage(Visibility(symbols[s].private)), return_type |-> result,
   parameters |-> parameters, return_mode |-> shape.result,
   receiver_mode |-> shape.receiver, error_abi |-> shape.error,
   initializer |-> ImportInitializer(symbols[s], SymbolIdentity(s, "initializer"), owner,
                                     parameters)]
ImportCallableOf(s, shape, owner, result) ==
  CallableRecord(s, shape, MemberIdentity(s), owner, result,
                 ImportAbiParameters(symbols[s], shape.result, owner, result))
ImportCallable(s) ==
  ImportCallableOf(s, CallableShape(s), FileIdentity(symbols[s].file),
    TypeIdentity(IF symbols[s].kind = "constructor" THEN File(symbols[s].file)
                 ELSE symbols[s].type))

HeapKind(i) == CASE syntax[i].kind = "error" -> "error"
                 [] syntax[i].kind \in {"enum", "struct"} -> "value_box"
                 [] OTHER -> "file_class"
InterfaceOfId(id) == CHOOSE c \in FileIds : IsInterface(c) /\ syntax[c].id = id
DescriptorRecord(i, d, id) ==
  LET box == HeapKind(i) = "value_box"
  IN [id |-> id, kind |-> HeapKind(i), parent |-> FileIdentity(d.parent), size |-> d.size,
      alignment |-> d.align, reference_offsets |-> d.refs,
      virtual_functions |-> IF box THEN <<>> ELSE MemberIdentities(d.virtuals),
      value_box_virtuals |-> box, parent_is_error_root |-> d.errorRoot,
      mangled_name |-> IF IsInterface(i) THEN None ELSE Mangle(id),
      boxed_value_type |-> IF box THEN FileIdentity(i) ELSE None,
      boxed_value_offset |-> d.box,
      interfaces |-> Map(LAMBDA t : [id |-> t.id, functions |-> MemberIdentities(t.functions),
                                     interface |-> FileIdentity(InterfaceOfId(t.id))],
                         d.interfaces)]
ImportDescriptor(i) ==
  DescriptorRecord(i, IF HeapKind(i) = "value_box" THEN BoxDescriptor(i) ELSE ClassDescriptor(i),
                   CanonicalMember(Nominal(i), "descriptor", 0, <<>>))

ImportClassAbi(i) ==
  LET l == layouts[i]
      statics == SelectSeq([n \in DOMAIN syntax[i].fields |-> n],
                           LAMBDA n : syntax[i].fields[n].static)
  IN [header_size |-> l.header, size |-> l.size, alignment |-> l.align,
      fields |-> Map(LAMBDA f : [field |-> FieldIdentity(f.owner, f.index),
                                 offset |-> f.offset, type |-> TypeIdentity(f.type)], l.fields),
      descriptor |-> ImportDescriptor(i),
      static_fields |-> SortBy("member", Map(
        LAMBDA n : [member |-> FieldIdentity(i, n), linkage |-> "external",
                    mangled_name |-> Mangle(FieldIdentity(i, n)),
                    type |-> TypeIdentity(syntax[i].fields[n].type)], statics)),
      callables |-> SortBy("member", Map(ImportCallable, CallablesOf(i)))]

-----------------------------------------------------------------------------
(* build_imported_package_view *)

OwnedFiles(p) == SelectSeq([i \in FileIds |-> i], LAMBDA i : PackageOf(i) = p)

\* The types of one file's declarations and of its layout.
CallableTypes(s) ==
  <<symbols[s].type>> \o ParametersOf(symbols[s].name)
    \o (IF symbols[s].kind = "constructor" THEN <<File(symbols[s].file)>> ELSE <<>>)
ThrownTypes(s) ==
  SelectSeq(<<RootError, DivisionByZero>> \o [i \in FileIds |-> File(i)],
            LAMBDA t : t \in symbols[s].throws)
DeclaredTypes(i) ==
  <<File(i)>>
  \o (IF files[i].base = 0 THEN <<>> ELSE <<File(files[i].base)>>)
  \o Map(File, files[i].interfaces)
  \o [n \in DOMAIN syntax[i].fields |-> syntax[i].fields[n].type]
  \o FlattenSeq(Map(CallableTypes, CallablesOf(i)))
  \o FlattenSeq(Map(ThrownTypes, CallablesOf(i)))
  \o (IF Constructors(i) = <<>> THEN <<>> ELSE <<Void>>)
  \o [n \in DOMAIN layouts[i].fields |-> layouts[i].fields[n].type]
WithElements(ts) == Unique(FlattenSeq(Map(LAMBDA t : <<t, Element(t)>>, ts)))
ReferencedTypes(p) == WithElements(FlattenSeq(Map(DeclaredTypes, OwnedFiles(p))))

AbstractFunctions(i) == SelectSeq(files[i].virtuals, LAMBDA s : symbols[s].abstract)
EnumCases(i) ==
  IF syntax[i].kind # "enum" THEN <<>>
  ELSE [n \in 1 .. syntax[i].cases |->
          [id |-> CanonicalMember(Nominal(i), "enum case", Name(35 + n, FALSE), <<>>),
           name |-> Name(35 + n, FALSE), tag |-> n - 1]]

ImportFile(i) ==
  [id |-> FileIdentity(i), nominal |-> Nominal(i), kind |-> syntax[i].kind,
   visibility |-> Visibility(syntax[i].private), abstract |-> syntax[i].abstract,
   sealed |-> syntax[i].sealed, base |-> FileIdentity(files[i].base),
   direct_interfaces |-> FileIdentities(files[i].direct),
   interfaces |-> FileIdentities(files[i].interfaces),
   interface_id |-> IF IsInterface(i) THEN syntax[i].id ELSE 0,
   members |-> ImportMembers(i), member_order |-> DeclarationOrder(i),
   virtual_functions |-> MemberIdentities(files[i].virtuals),
   abstract_functions |-> MemberIdentities(AbstractFunctions(i)),
   interface_functions |-> MemberIdentities(files[i].contract),
   conformance |->
     SortBy("interface", Map(LAMBDA m : [interface |-> FileIdentity(m.interface),
                                         functions |-> MemberIdentities(m.functions)],
                             files[i].implementations)),
   abi |-> ImportClassAbi(i), enum_cases |-> EnumCases(i)]

BuildImportedPackageView(p) ==
  [package |-> p, target |-> Pointer,
   types |-> SortBy("id", Map(ImportType, ReferencedTypes(p))),
   files |-> SortBy("id", Map(ImportFile, OwnedFiles(p)))]

=============================================================================
