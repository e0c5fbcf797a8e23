----------------------- MODULE ImportedPackageVerifier -----------------------
(***************************************************************************)
(* verify_imported_package_view and verify_imported_package_closure: what  *)
(* the compiler checks of the declarations an artifact carries, alone and  *)
(* together with the packages it depends on.  Every check is a predicate;  *)
(* the diagnostics are left out.  A view that is checked came out of       *)
(* MetadataDecoder or of build_imported_package_view, and may be wrong in  *)
(* any way that keeps its records well formed.                             *)
(***************************************************************************)
EXTENDS ImportedPackage

KeyedBy(key, s) ==
  Eager([x \in {s[n][key] : n \in DOMAIN s} |->
           s[CHOOSE n \in DOMAIN s : s[n][key] = x /\ \A m \in 1 .. n - 1 : s[m][key] # x]])
NoDuplicates(s) == \A m, n \in DOMAIN s : s[m] = s[n] => m = n
SortedIds(s) == \A n \in 1 .. Len(s) - 1 : Less(s[n], s[n + 1])

NominalKinds == {"class", "error", "interface", "enum", "struct"}
IsAggregateValue(t) == t.abi_kind = "aggregate"
AggregateId(id, types) == id \in DOMAIN types /\ IsAggregateValue(types[id])
StandardPackage == 1
ObjectNominal == [package |-> StandardPackage, name |-> Name(Obj, FALSE), kind |-> "class"]
IsCanonicalObject(t) == t.kind = "object" /\ t.nominal = ObjectNominal

-----------------------------------------------------------------------------
(* verify_type *)

Shape(abi, bits, size, align, refs) ==
  [abi |-> abi, bits |-> bits, storage |-> [size |-> size, alignment |-> align], refs |-> refs]
Invalid == Shape("invalid", 0, 0, 1, <<>>)
ReferenceShape == Shape("reference", 8 * Pointer, Pointer, Pointer, <<0>>)

\* expected_type_layout
ExpectedTypeLayout(t, types) ==
  LET n == ScalarSize(t.kind) IN
  CASE t.kind = "struct" ->
         Shape("aggregate", 0, t.storage.size, t.storage.alignment, t.reference_offsets)
    [] t.kind = "void" -> Shape("void", 0, 0, 1, <<>>)
    [] t.kind \in {"string", "object", "error", "class", "interface"} -> ReferenceShape
    [] t.kind = "nullable" ->
         IF t.element \notin DOMAIN types THEN Invalid
         ELSE LET e == types[t.element]
                  l == NullableValueLayout(Storage(e.storage.size, e.storage.alignment,
                                                   e.reference_offsets))
              IN CASE e.abi_kind = "reference" -> ReferenceShape
                   [] \/ e.abi_kind \notin {"integer", "aggregate"}
                      \/ e.storage.size = 0 \/ ~Pow2(e.storage.alignment) -> Invalid
                   [] OTHER -> Shape("aggregate", 0, l.size, l.align, l.refs)
    [] t.kind = "bool" -> Shape("integer", 1, 1, 1, <<>>)
    [] n # 0 -> Shape("integer", 8 * n, n, n, <<>>)
    [] OTHER -> Invalid

\* The identity a type's record must carry, None when the record is malformed.
ExpectedIdentities(t, types) ==
  CASE t.kind = "error" /\ t.nominal = None ->
         IF t.element # None THEN {}
         ELSE {CanonicalPrimitive("Error"), CanonicalPrimitive("DivisionByZero")}
    [] t.kind \in NominalKinds \/ (t.kind = "object" /\ t.nominal # None) ->
         IF t.nominal = None \/ t.element # None THEN {}
         ELSE IF \/ t.nominal.kind # (IF t.kind = "object" THEN "class" ELSE NominalKind(t.kind))
                 \/ t.kind = "object" /\ t.nominal # ObjectNominal
         THEN {} ELSE {CanonicalNominal(t.nominal)}
    [] t.kind = "nullable" ->
         IF t.nominal # None \/ t.element \notin DOMAIN types THEN {}
         ELSE {CanonicalNullable(t.element)}
    [] OTHER -> IF t.element # None \/ t.nominal # None THEN {} ELSE {CanonicalPrimitive(t.kind)}

VerifyType(t, types) ==
  LET expected == ExpectedTypeLayout(t, types) IN
  /\ t.id \in ExpectedIdentities(t, types)
  /\ t.kind = "struct" => t.storage.size <= MaxStructSize
  /\ Len(t.reference_offsets) <= MaxLayoutReferences
  /\ t.kind = "struct" => /\ t.storage.size # 0 /\ Pow2(t.storage.alignment)
                          /\ t.storage.size % t.storage.alignment = 0
  /\ t.reference_offsets = expected.refs
  /\ Ascending(t.reference_offsets)
  /\ \A n \in DOMAIN t.reference_offsets :
       /\ t.reference_offsets[n] % Pointer = 0 /\ t.storage.alignment >= Pointer
       /\ t.reference_offsets[n] + Pointer <= t.storage.size
  /\ t.abi_kind = expected.abi /\ t.bit_width = expected.bits /\ t.storage = expected.storage

-----------------------------------------------------------------------------
(* verify_member *)

\* overload_type_identity, parameter_type_identities: None when a type is absent.
OverloadTypeIdentity(id, types) ==
  IF id \notin DOMAIN types THEN None
  ELSE IF types[id].kind = "nullable" THEN types[id].element ELSE id
ParameterTypeIdentities(m, types) ==
  Map(LAMBDA p : OverloadTypeIdentity(p.type, types), m.parameters)
CanonicalMemberKind(m) == IF m.kind = "field" /\ m.static THEN "static" ELSE m.kind

\* is_valid_scalar_bits: the bits that stand for a value of the kind.
IsValidScalarBits(c) ==
  CASE c.kind = "bool" -> c.bits \in {0, 1}
    [] c.kind = "enum" -> c.bits < MaxEnumCases
    [] c.kind = "byte" -> c.bits < 2 ^ 8
    [] c.kind = "int16" -> c.bits < 2 ^ 16
    [] OTHER -> FALSE

\* Mutant: the order of the errors is checked, not that their types are known.
VerifyThrowsSorted(m, types) == SortedIds(m.throws) /\ (m.kind = "field" => m.throws = <<>>)
VerifyThrows(m, types) ==
  /\ \A n \in DOMAIN m.throws :
       m.throws[n] \in DOMAIN types /\ types[m.throws[n]].kind = "error"
  /\ SortedIds(m.throws) /\ (m.kind = "field" => m.throws = <<>>)
VerifyMember(file, m, types) ==
  LET function == m.kind = "function"  constructor == m.kind = "constructor"
      field == m.kind = "field"
      parameters == ParameterTypeIdentities(m, types)
  IN
  /\ m.owner = file.id /\ m.visibility = InferVisibility(m.name) /\ m.type \in DOMAIN types
  /\ \A n \in DOMAIN m.parameters : m.parameters[n].type \in DOMAIN types
  /\ VerifyThrows(m, types)
  /\ ~IsIn(None, parameters)
  /\ m.id = CanonicalMember(file.nominal, CanonicalMemberKind(m), m.name, parameters)
  /\ ~function => m.slot = 0 /\ m.overridden = None /\ ~m.override /\ ~m.abstract
  /\ function /\ m.override =>
       file.kind \in {"class", "error"} /\ ~m.static /\ m.visibility = "public"
  /\ function /\ m.overridden # None => m.override
  /\ function /\ m.final => m.override /\ ~m.abstract
  /\ constructor => ~m.static
  /\ ~constructor => m.base_constructor = None
  /\ ~field => m.static_value = None
  /\ field /\ m.static => m.final /\ m.static_value # None
  /\ field /\ ~m.static => m.static_value = None
  /\ m.static_value # None => IsValidScalarBits(m.static_value)

-----------------------------------------------------------------------------
(* verify_class_abi *)

ObjectIds(types) == {id \in DOMAIN types : types[id].kind = "object"}
IsValueFile(file) == file.kind \in {"enum", "struct"}
NominalValueBox(file, types) == ObjectIds(types) # {} /\ IsValueFile(file)

VerifyDescriptor(file, types) ==
  LET abi == file.abi  d == abi.descriptor
      id == CanonicalMember(file.nominal, "descriptor", 0, <<>>)
      box == d.kind = "value_box"
  IN
  /\ d.kind = CASE file.kind = "error" -> "error"
                [] NominalValueBox(file, types) -> "value_box" [] OTHER -> "file_class"
  /\ d.id = id
  /\ IF box
     THEN /\ d.boxed_value_type = file.id
          /\ IF ObjectIds(types) = {} THEN d.parent = None ELSE d.parent \in ObjectIds(types)
          /\ d.boxed_value_offset + abi.size <= d.size
          /\ IsValueFile(file) /\ d.value_box_virtuals
          /\ d.virtual_functions = <<>> /\ d.interfaces = <<>>
     ELSE /\ d.size = abi.size /\ d.alignment = abi.alignment /\ d.parent = file.base
          /\ ~d.value_box_virtuals
          /\ IF d.boxed_value_type = None THEN d.boxed_value_offset = 0
             ELSE \E n \in DOMAIN abi.fields :
                    /\ abi.fields[n].type = d.boxed_value_type
                    /\ abi.fields[n].offset = d.boxed_value_offset
  /\ d.parent_is_error_root <=> (file.kind = "error" /\ file.base = None)
  /\ d.mangled_name =
       IF file.kind \in {"class", "error"} \/ box THEN Mangle(id) ELSE None

FieldReferences(fields, types) ==
  FlattenSeq(Map(LAMBDA f : IF f.type \in DOMAIN types
                            THEN Shift(types[f.type].reference_offsets, f.offset) ELSE <<>>,
                 fields))
VerifyFieldLayouts(file, members, types) ==
  LET abi == file.abi  d == abi.descriptor
      references == FieldReferences(abi.fields, types)
  IN
  /\ \A n \in DOMAIN abi.fields :
       LET f == abi.fields[n] IN
       /\ f.type \in DOMAIN types
       /\ f.offset >= abi.header_size /\ types[f.type].storage.alignment # 0
       /\ f.offset % types[f.type].storage.alignment = 0
       /\ f.offset < abi.size /\ f.offset + types[f.type].storage.size <= abi.size
       /\ \A m \in 1 .. n - 1 : abi.fields[m].offset # f.offset
       /\ f.field \in DOMAIN members =>
            /\ members[f.field].kind = "field" /\ ~members[f.field].static
            /\ members[f.field].type = f.type
  /\ Len(references) <= MaxLayoutReferences
  /\ d # None => d.reference_offsets =
       IF d.kind = "value_box" THEN Shift(references, d.boxed_value_offset) ELSE references
  /\ file.kind = "struct" =>
       /\ file.id \in DOMAIN types
       /\ types[file.id].reference_offsets = references
       /\ types[file.id].storage = [size |-> abi.size, alignment |-> abi.alignment]

VerifyStaticFields(file, members) ==
  /\ AscendBy("member", file.abi.static_fields)
  /\ \A n \in DOMAIN file.abi.static_fields :
       LET f == file.abi.static_fields[n] IN
       /\ f.member \in DOMAIN members
       /\ LET m == members[f.member] IN
          /\ m.static /\ m.kind = "field" /\ m.type = f.type
          /\ f.linkage = Linkage(m.visibility) /\ f.mangled_name = Mangle(f.member)
  /\ Len(file.abi.static_fields) =
       Len(SelectSeq(file.members, LAMBDA m : m.kind = "field" /\ m.static))

ExpectedExplicit(m, types) ==
  Map(LAMBDA p : AbiParameter("explicit", p.type, Passing(AggregateId(p.type, types))),
      m.parameters)
VerifyInitializer(file, c, m, types) ==
  IF m.kind = "constructor" /\ file.kind # "struct"
  THEN LET parameters == ParameterTypeIdentities(m, types)
           id == CanonicalMember(file.nominal, "initializer", m.name, parameters)
           i == c.initializer
       IN /\ i # None
          /\ ~IsIn(None, parameters) /\ i.id = id /\ i.mangled_name = Mangle(id)
          /\ i.linkage = Linkage(m.visibility)
          /\ i.return_type = CanonicalPrimitive("void") /\ i.return_type \in DOMAIN types
          /\ i.return_mode = "void" /\ i.receiver_mode = "reference"
          /\ i.parameters = <<AbiParameter("receiver", file.id, "direct")>>
                              \o ExpectedExplicit(m, types)
  ELSE c.initializer = None

VerifyCallable(file, c, m, types) ==
  LET constructor == m.kind = "constructor"  aggregate == file.kind = "struct"
      result == IF constructor THEN file.id ELSE m.type
      receiver == ~constructor /\ ~m.static
  IN
  /\ m.kind # "field" /\ c.kind = m.kind
  /\ c.linkage = Linkage(m.visibility) /\ c.mangled_name = Mangle(c.member)
  /\ VerifyInitializer(file, c, m, types)
  /\ result \in DOMAIN types /\ c.return_type = result
  /\ c.return_mode = CASE types[result].kind = "void" -> "void"
                       [] c.error_abi \/ IsAggregateValue(types[result]) -> "indirect"
                       [] OTHER -> "direct"
  /\ c.receiver_mode = CASE constructor /\ aggregate -> "construction"
                         [] ~receiver -> "none"
                         [] OTHER -> IF aggregate THEN "readonly_value" ELSE "reference"
  /\ c.parameters =
       (IF c.return_mode = "indirect" THEN <<AbiParameter("result", result, "result_pointer")>>
        ELSE <<>>)
       \o (IF receiver THEN <<AbiParameter("receiver", file.id, Passing(aggregate))>> ELSE <<>>)
       \o ExpectedExplicit(m, types)
  /\ m.throws # <<>> => c.error_abi

VerifyCallables(file, members, types) ==
  /\ AscendBy("member", file.abi.callables)
  /\ \A n \in DOMAIN file.abi.callables :
       LET c == file.abi.callables[n] IN
       c.member \in DOMAIN members /\ VerifyCallable(file, c, members[c.member], types)
  /\ Len(file.abi.callables) = Len(SelectSeq(file.members, LAMBDA m : m.kind # "field"))

VerifyDispatches(file, types) ==
  LET d == file.abi.descriptor
      conforms == KeyedBy("interface", file.conformance)
  IN
  /\ d.virtual_functions = file.virtual_functions
  /\ Ascending(Map(LAMBDA t : t.id, d.interfaces))
  /\ \A n \in DOMAIN d.interfaces :
       LET t == d.interfaces[n] IN
       /\ t.interface \in DOMAIN types
       /\ types[t.interface].kind = "interface" /\ types[t.interface].nominal # None
       /\ t.id = CanonicalInterfaceId(types[t.interface].nominal)
       /\ t.interface \in DOMAIN conforms
       /\ conforms[t.interface].functions = t.functions
  /\ Len(d.interfaces) = Len(file.conformance)

VerifyClassAbi(file, members, types) ==
  LET abi == file.abi IN
  /\ Pow2(abi.alignment) /\ abi.header_size <= abi.size /\ abi.size % abi.alignment = 0
  /\ file.kind = "struct" => Len(abi.fields) <= MaxStructFields
  /\ abi.descriptor # None => Len(abi.descriptor.reference_offsets) <= MaxLayoutReferences
  /\ file.kind # "struct" \/ NominalValueBox(file, types) => abi.descriptor # None
  /\ abi.descriptor # None => VerifyDescriptor(file, types)
  /\ VerifyFieldLayouts(file, members, types)
  /\ VerifyStaticFields(file, members)
  /\ VerifyCallables(file, members, types)
  /\ file.kind = "interface" => abi.fields = <<>> /\ abi.static_fields = <<>>
  /\ abi.descriptor # None => VerifyDispatches(file, types)

-----------------------------------------------------------------------------
(* verify_override_contracts *)

Files(views) == FlattenSeq(Map(LAMBDA v : v.files, views))
IsInstanceFunction(m) == m.kind = "function" /\ ~m.static /\ m.visibility = "public"
ParameterTypes(m) == Map(LAMBDA p : p.type, m.parameters)
Matches(candidate, m) ==
  /\ IsInstanceFunction(candidate) /\ candidate.name = m.name
  /\ ParameterTypes(candidate) = ParameterTypes(m)

\* The bases that are known, nearest first; `complete` when the chain ends, not
\* in an unknown base and not in a cycle.
BaseChain(file, all) ==
  LET next(c) == IF c.at = None THEN c
                 ELSE IF c.at \notin DOMAIN all \/ c.at \in c.seen
                 THEN [c EXCEPT !.at = None, !.complete = FALSE, !.cycle = c.at \in c.seen]
                 ELSE [c EXCEPT !.at = all[c.at].base, !.seen = @ \cup {c.at},
                                !.bases = Append(@, all[c.at])]
      start == [at |-> file.base, seen |-> {file.id}, bases |-> <<>>,
                complete |-> TRUE, cycle |-> FALSE]
  IN  Rounds(next, start, Cardinality(DOMAIN all) + 1)
InterfaceClosure(start, all) ==
  LET reach(found) == found \cup UNION {ToSet(all[x].direct_interfaces) :
                                          x \in found \cap DOMAIN all}
  IN  Rounds(reach, start, Cardinality(DOMAIN all))

VerifyOverridesOf(file, all, requireOwners) ==
  LET chain == BaseChain(file, all)
      reached == InterfaceClosure(ToSet(file.direct_interfaces)
                   \cup UNION {ToSet(b.direct_interfaces) : b \in ToSet(chain.bases)}, all)
      interfacesComplete == chain.complete /\ reached \subseteq DOMAIN all
      candidates(f, m) == SelectSeq(f.members, LAMBDA c : Matches(c, m))
  IN
  /\ ~chain.cycle
  /\ requireOwners => interfacesComplete
  /\ \A m \in ToSet(SelectSeq(file.members, IsInstanceFunction)) :
       LET found == SelectSeq(chain.bases, LAMBDA b : candidates(b, m) # <<>>)
           replaced == IF found = <<>> THEN <<>> ELSE <<Head(candidates(Head(found), m))>>
           implements == \E x \in reached \cap DOMAIN all : candidates(all[x], m) # <<>>
       IN /\ replaced # <<>> \/ implements => m.override
          /\ replaced = <<>> /\ ~implements /\ interfacesComplete => ~m.override
          /\ replaced # <<>> => ~replaced[1].final
          /\ replaced # <<>> \/ chain.complete =>
               m.overridden = IF replaced = <<>> THEN None ELSE replaced[1].id

VerifyOverrideContracts(views, requireOwners) ==
  LET all == KeyedBy("id", Files(views)) IN
  \A id \in DOMAIN all : all[id].kind \in {"class", "error"} =>
                           VerifyOverridesOf(all[id], all, requireOwners)

-----------------------------------------------------------------------------
(* verify_layout_graph *)

InlineStructOf(id, types) ==
  CASE id \notin DOMAIN types -> None
    [] types[id].kind = "struct" -> id
    [] types[id].kind = "nullable" ->
         LET e == types[id].element IN
         IF e \in DOMAIN types /\ types[e].kind = "struct" THEN e ELSE None
    [] OTHER -> None
InstanceFieldsOf(file) == SelectSeq(file.members, LAMBDA m : m.kind = "field" /\ ~m.static)
StorageDependencies(file, all, types) ==
  ({file.base} \cup {InlineStructOf(m.type, types) : m \in ToSet(InstanceFieldsOf(file))})
    \cap DOMAIN all

\* The layout the declarations imply, `ok` FALSE when they imply none.
ReconstructField(acc, m, types) ==
  IF ~acc.ok \/ m.type \notin DOMAIN types THEN [acc EXCEPT !.ok = FALSE]
  ELSE LET l == types[m.type].storage
           at == AlignUp(acc.size, l.alignment)
       IN IF l.size = 0 \/ ~Pow2(l.alignment) THEN [acc EXCEPT !.ok = FALSE]
          ELSE [acc EXCEPT !.size = at + l.size, !.alignment = Larger(@, l.alignment),
                  !.fields = Append(@, [field |-> m.id, offset |-> at, type |-> m.type])]
StartOf(file, all, types) ==
  LET struct == file.kind = "struct"
      header == IF struct THEN 0 ELSE Header
      start == [ok |-> TRUE, size |-> header, alignment |-> IF struct THEN 1 ELSE Pointer,
                fields |-> <<>>]
  IN CASE file.base \in DOMAIN all ->
            LET b == all[file.base].abi IN
            [start EXCEPT !.size = b.size, !.alignment = Larger(@, b.alignment),
                          !.fields = b.fields]
       [] file.base = None /\ file.kind = "error" ->
            [start EXCEPT !.ok = CanonicalPrimitive("string") \in DOMAIN types,
               !.size = header + Pointer,
               !.fields = <<[field |-> CanonicalPrimitive("Error.Message"), offset |-> header,
                             type |-> CanonicalPrimitive("string")]>>]
       [] OTHER -> start
ReconstructLayout(file, all, types) ==
  LET members == KeyedBy("id", file.members)
      known == SelectSeq(file.member_order, LAMBDA id : id \in DOMAIN members)
      order == SelectSeq(Map(LAMBDA id : members[id], known),
                         LAMBDA m : m.kind = "field" /\ ~m.static)
      laid == FoldLeft(LAMBDA acc, m : ReconstructField(acc, m, types),
                       StartOf(file, all, types), order)
  IN [laid EXCEPT !.ok = @ /\ Len(known) = Len(file.member_order),
        !.size = AlignUp(IF file.kind = "struct" THEN Larger(@, 1) ELSE @, laid.alignment)]

VerifyLayoutOf(file, all, types) ==
  LET laid == ReconstructLayout(file, all, types)  abi == file.abi
  IN
  /\ file.kind = "struct" => Len(abi.fields) <= MaxStructFields
  /\ file.kind # "enum" =>
       /\ laid.ok
       /\ file.kind = "struct" => laid.size <= MaxStructSize
       /\ file.base = None \/ file.base \in DOMAIN all =>
            /\ abi.header_size = IF file.kind = "struct" THEN 0 ELSE Header
            /\ abi.size = laid.size /\ abi.alignment = laid.alignment
            /\ abi.fields = laid.fields
  /\ file.id \in DOMAIN types

\* Kahn's traversal: the depth of every file whose storage is not part of itself.
StorageDepths(all, types) ==
  LET round(known) ==
        LET ready == {id \in DOMAIN all \ DOMAIN known :
                        StorageDependencies(all[id], all, types) \subseteq DOMAIN known}
            deps(id) == {known[x] : x \in StorageDependencies(all[id], all, types) \ {all[id].base}}
            depth(id) == IF all[id].kind # "struct" THEN 0
                         ELSE 1 + (CHOOSE d \in deps(id) \cup {0} : \A e \in deps(id) : e <= d)
        IN Eager([id \in DOMAIN known \cup ready |->
                    IF id \in ready THEN depth(id) ELSE known[id]])
  IN  Rounds(round, <<>>, Cardinality(DOMAIN all))
ReferenceCount(file, types) ==
  CASE file.kind = "struct" -> Len(types[file.id].reference_offsets)
    [] file.abi.descriptor # None -> Len(file.abi.descriptor.reference_offsets)
    [] OTHER -> 0

VerifyLayoutGraph(views, requireOwners) ==
  LET allTypes == FlattenSeq(Map(LAMBDA v : v.types, views))
      types == KeyedBy("id", allTypes)
      all == KeyedBy("id", Files(views))
  IN
  /\ \A n \in DOMAIN views : views[n].target = views[1].target
  /\ \A t \in ToSet(allTypes) : types[t.id] = t
  /\ NoDuplicates(Map(LAMBDA f : f.id, Files(views)))
  /\ \A id \in DOMAIN types :
       /\ requireOwners /\ types[id].nominal # None => id \in DOMAIN all
       /\ IsAggregateValue(types[id]) =>
            /\ types[id].storage.size <= MaxStructSize
            /\ Len(types[id].reference_offsets) <= MaxLayoutReferences
  /\ DOMAIN StorageDepths(all, types) = DOMAIN all
  /\ \A id \in DOMAIN all :
       /\ VerifyLayoutOf(all[id], all, types)
       /\ StorageDepths(all, types)[id] <= MaxStructDepth
  /\ FoldLeft(+, 0, Map(LAMBDA f : ReferenceCount(f, types), Files(views))) <= MaxMapEntries

-----------------------------------------------------------------------------
(* verify_imported_package_view, verify_imported_package_closure *)

VerifyStaticValue(m, types, all) ==
  m.static_value # None =>
    /\ m.type \in DOMAIN types
    /\ ~IsAggregateValue(types[m.type]) /\ m.static_value.kind = types[m.type].kind
    /\ types[m.type].kind = "enum" =>
         /\ m.static_value.bits < MaxEnumCases
         /\ m.type \in DOMAIN all => m.static_value.bits < Len(all[m.type].enum_cases)

HasNoHierarchy(file) ==
  /\ ~file.abstract /\ ~file.sealed /\ file.base = None /\ file.abi.header_size = 0
  /\ <<>> = file.direct_interfaces \o file.interfaces \o file.virtual_functions
              \o file.abstract_functions \o file.interface_functions
              \o Map(LAMBDA t : t.interface, file.conformance)

VerifyKind(file) ==
  CASE file.kind = "struct" ->
         /\ HasNoHierarchy(file) /\ file.enum_cases = <<>>
         /\ \A m \in ToSet(file.members) :
              /\ ~m.abstract /\ ~m.override /\ m.slot = 0
              /\ m.overridden = None /\ m.base_constructor = None
    [] file.kind = "enum" ->
         /\ HasNoHierarchy(file) /\ file.abi.descriptor # None
         /\ Len(file.enum_cases) \in 1 .. MaxEnumCases /\ file.members = <<>>
         /\ file.abi.size = 0 /\ file.abi.alignment = 1 /\ file.abi.fields = <<>>
         /\ file.abi.static_fields = <<>> /\ file.abi.callables = <<>>
         /\ \A n \in DOMAIN file.enum_cases :
              LET c == file.enum_cases[n] IN
              /\ c.tag = n - 1
              /\ c.id = CanonicalMember(file.nominal, "enum case", c.name, <<>>)
              /\ \A m \in 1 .. n - 1 : file.enum_cases[m].name # c.name
    [] OTHER -> file.enum_cases = <<>>

VerifyImportedFile(v, file, types) ==
  LET members == KeyedBy("id", file.members)
      isInterface(id) == id \in DOMAIN types /\ types[id].kind = "interface"
  IN
  /\ file.nominal.package = v.package /\ file.nominal.kind = NominalKind(file.kind)
  /\ file.id = CanonicalNominal(file.nominal)
  /\ file.visibility = InferVisibility(file.nominal.name)
  /\ file.id \in DOMAIN types
  /\ \/ types[file.id].kind = file.kind
     \/ file.nominal = ObjectNominal /\ types[file.id].kind = "object"
  /\ IF file.kind = "interface"
     THEN /\ file.interface_id = CanonicalInterfaceId(file.nominal)
          /\ file.base = None /\ ~file.sealed
     ELSE file.interface_id = 0
  /\ AscendBy("id", file.members) /\ AscendBy("interface", file.conformance)
  /\ \A m \in ToSet(file.members) :
       VerifyMember(file, m, types) /\ VerifyStaticValue(m, types, KeyedBy("id", v.files))
  /\ NoDuplicates(file.member_order) /\ ToSet(file.member_order) = DOMAIN members
  /\ file.base # None =>
       /\ file.base \in DOMAIN types
       /\ \/ types[file.base].kind = IF file.kind = "error" THEN "error" ELSE "class"
          \/ file.kind = "class" /\ IsCanonicalObject(types[file.base])
  /\ \A id \in ToSet(file.direct_interfaces \o file.interfaces) : isInterface(id)
  /\ VerifyKind(file)
  /\ VerifyClassAbi(file, members, types)

VerifyImportedPackageView(v) ==
  LET types == KeyedBy("id", v.types) IN
  /\ AscendBy("id", v.types) /\ AscendBy("id", v.files) /\ v.files # <<>>
  /\ FoldLeft(+, 0, Map(LAMBDA f : Len(SelectSeq(f.members,
                          LAMBDA m : m.kind = "field" /\ m.static)), v.files)) <= MaxConstants
  /\ \A t \in ToSet(v.types) : VerifyType(t, types)
  /\ \A f \in ToSet(v.files) : VerifyImportedFile(v, f, types)
  /\ VerifyLayoutGraph(<<v>>, FALSE) /\ VerifyOverrideContracts(<<v>>, FALSE)

VerifyImportedPackageClosure(views) ==
  LET owners == KeyedBy("id", Files(views)) IN
  /\ \A n \in DOMAIN views : VerifyImportedPackageView(views[n])
  /\ \A f \in ToSet(Files(views)) : \A m \in ToSet(f.members) :
       m.static_value # None /\ m.static_value.kind = "enum" =>
         /\ m.type \in DOMAIN owners /\ owners[m.type].kind = "enum"
         /\ m.static_value.bits < Len(owners[m.type].enum_cases)
  /\ VerifyLayoutGraph(views, TRUE) /\ VerifyOverrideContracts(views, TRUE)

\* imported_callable_signature: the text the linker-level inventory compares.
CallableSignature(c, errorAbi) ==
  <<"callable", errorAbi, c.return_mode, c.return_type, c.parameters, c.receiver_mode>>

=============================================================================
