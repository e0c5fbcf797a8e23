--------------------------- MODULE PackageArtifact ---------------------------
(***************************************************************************)
(* package_artifact.cc: the metadata of an artifact as a JSON tree, the    *)
(* envelope around it, and the checks of a reader.                         *)
(*                                                                         *)
(* A tree is <<tag, value>>.  JsonParser accepts one spelling of a tree    *)
(* only (keys strictly ascending, no white space, one escape per           *)
(* character, a bounded depth), so the text is its tree.  Numbers and hex  *)
(* identities are JSON strings; their tags stand for their spellings.  No  *)
(* identity is empty.  Every encoder names the fields it writes; the       *)
(* decoder is driven by the schemas that follow them.                      *)
(***************************************************************************)
EXTENDS ImportedPackageVerifier, TLC

CONSTANTS CompilerAbiVersion, RuntimeAbiVersion, FormatVersion

JsonNull == <<"null">>
JsonBool(b) == <<"bool", b>>
JsonInteger(n) == <<"int", n>>
JsonString(w) == <<"text", w>>
JsonName(x) == <<"name", x>>            \* a link name or a signature
JsonIdentity(x) == <<"id", x>>
JsonArray(s) == <<"list", s>>
JsonObject(r) == <<"object", r>>
JsonOptionalIdentity(x) == IF x = None THEN JsonNull ELSE JsonIdentity(x)
JsonOptionalInteger(n) == IF n = 0 THEN JsonNull ELSE JsonInteger(n)
JsonIdentities(s) == JsonArray(Map(JsonIdentity, s))
JsonIntegers(s) == JsonArray(Map(JsonInteger, s))

-----------------------------------------------------------------------------
(* Encoders *)

EncodeNominal(nm) ==
  IF nm = None THEN JsonNull
  ELSE JsonObject([kind |-> JsonString(nm.kind), name |-> JsonInteger(nm.name),
                   package |-> JsonInteger(nm.package)])

EncodeType(t) ==
  JsonObject([abi_kind |-> JsonString(t.abi_kind), bit_width |-> JsonInteger(t.bit_width),
    element |-> JsonOptionalIdentity(t.element), id |-> JsonIdentity(t.id),
    kind |-> JsonString(t.kind), nominal |-> EncodeNominal(t.nominal),
    reference_offsets |-> JsonIntegers(t.reference_offsets),
    storage |-> JsonObject([alignment |-> JsonInteger(t.storage.alignment),
                            size |-> JsonInteger(t.storage.size)])])

EncodeFileDeclaration(f) ==
  JsonObject([abstract |-> JsonBool(f.abstract),
    abstract_functions |-> JsonIdentities(f.abstract_functions),
    base |-> JsonOptionalIdentity(f.base),
    conformance |-> JsonArray(Map(
      LAMBDA m : JsonObject([functions |-> JsonIdentities(m.functions),
                             interface |-> JsonIdentity(m.interface)]), f.conformance)),
    direct_interfaces |-> JsonIdentities(f.direct_interfaces),
    enum_cases |-> JsonArray(Map(
      LAMBDA c : JsonObject([id |-> JsonIdentity(c.id), name |-> JsonInteger(c.name),
                             tag |-> JsonInteger(c.tag)]), f.enum_cases)),
    id |-> JsonIdentity(f.id), interface_functions |-> JsonIdentities(f.interface_functions),
    interface_id |-> JsonOptionalInteger(f.interface_id),
    interfaces |-> JsonIdentities(f.interfaces), kind |-> JsonString(f.kind),
    member_order |-> JsonIdentities(f.member_order), name |-> JsonInteger(f.nominal.name),
    record |-> JsonString("file"), sealed |-> JsonBool(f.sealed),
    virtual_functions |-> JsonIdentities(f.virtual_functions),
    visibility |-> JsonString(f.visibility)])

\* encode_static_constant: integers are written in signed decimal.
Width(kind) == 8 * ScalarSize(kind)
IsSigned(kind) == kind \in {"int16", "int32", "int64"}
IntegerKinds == {"byte", "int16"}
\* Mutant: the bits are written as they are, without their sign.
ScalarIntegerDecimalUnsigned(kind, bits) == bits
ScalarIntegerDecimal(kind, bits) ==
  IF IsSigned(kind) /\ bits >= 2 ^ (Width(kind) - 1) THEN bits - 2 ^ Width(kind) ELSE bits
EncodeStaticConstant(c, kind) ==
  LET value(name, v) == JsonObject([kind |-> JsonString(name), value |-> v]) IN
  CASE c = None -> JsonNull
    [] c # None /\ (c.kind # kind \/ ~IsValidScalarBits(c)) -> None
    [] kind = "bool" -> value("boolean", JsonBool(c.bits # 0))
    [] kind = "enum" -> value("enum", JsonInteger(c.bits))
    [] kind \in IntegerKinds -> value("integer", JsonInteger(ScalarIntegerDecimal(kind, c.bits)))
    [] OTHER -> None

\* encode_member_declaration; `kinds` are the kinds of the types of the view.
EncodeMemberDeclaration(m, kinds) ==
  LET constant == IF m.static_value = None THEN JsonNull
                  ELSE IF m.type \notin DOMAIN kinds THEN None
                  ELSE EncodeStaticConstant(m.static_value, kinds[m.type])
  IN IF constant = None THEN None ELSE
  JsonObject([abstract |-> JsonBool(m.abstract),
    base_constructor |-> JsonOptionalIdentity(m.base_constructor),
    final |-> JsonBool(m.final), id |-> JsonIdentity(m.id), kind |-> JsonString(m.kind),
    name |-> JsonInteger(m.name), override |-> JsonBool(m.override),
    overridden |-> JsonOptionalIdentity(m.overridden), owner |-> JsonIdentity(m.owner),
    parameters |-> JsonArray(Map(LAMBDA p : JsonObject([final |-> JsonBool(p.final),
                                                       type |-> JsonIdentity(p.type)]),
                                 m.parameters)),
    record |-> JsonString("member"), slot |-> JsonOptionalInteger(m.slot),
    static |-> JsonBool(m.static), static_value |-> constant,
    throws |-> JsonIdentities(m.throws), type |-> JsonIdentity(m.type),
    visibility |-> JsonString(m.visibility)])

EncodeDescriptor(d) ==
  IF d = None THEN JsonNull ELSE
  JsonObject([alignment |-> JsonInteger(d.alignment),
    boxed_value_offset |-> JsonInteger(d.boxed_value_offset),
    boxed_value_type |-> JsonOptionalIdentity(d.boxed_value_type), id |-> JsonIdentity(d.id),
    interfaces |-> JsonArray(Map(
      LAMBDA t : JsonObject([functions |-> JsonIdentities(t.functions),
                             id |-> JsonInteger(t.id),
                             interface |-> JsonIdentity(t.interface)]), d.interfaces)),
    kind |-> JsonString(d.kind), mangled_name |-> JsonName(d.mangled_name),
    parent |-> JsonOptionalIdentity(d.parent),
    parent_is_error_root |-> JsonBool(d.parent_is_error_root),
    reference_offsets |-> JsonIntegers(d.reference_offsets), size |-> JsonInteger(d.size),
    virtual_functions |-> JsonIdentities(d.virtual_functions),
    value_box_virtuals |-> JsonBool(d.value_box_virtuals)])

EncodeAbiParameters(ps) ==
  JsonArray(Map(LAMBDA p : JsonObject([kind |-> JsonString(p.kind),
                                       passing |-> JsonString(p.passing),
                                       type |-> JsonIdentity(p.type)]), ps))
EncodeCallableAbi(c) ==
  LET i == c.initializer
      initializer ==
        IF i = None THEN JsonNull ELSE
        JsonObject([id |-> JsonIdentity(i.id), linkage |-> JsonString(i.linkage),
          mangled_name |-> JsonName(i.mangled_name),
          parameters |-> EncodeAbiParameters(i.parameters),
          receiver_mode |-> JsonString(i.receiver_mode),
          return_mode |-> JsonString(i.return_mode),
          return_type |-> JsonOptionalIdentity(i.return_type)])
  IN
  JsonObject([calling_convention |-> JsonString("c"), error_abi |-> JsonBool(c.error_abi),
    initializer |-> initializer, kind |-> JsonString(c.kind),
    linkage |-> JsonString(c.linkage), mangled_name |-> JsonName(c.mangled_name),
    member |-> JsonIdentity(c.member), parameters |-> EncodeAbiParameters(c.parameters),
    receiver_mode |-> JsonString(c.receiver_mode), return_mode |-> JsonString(c.return_mode),
    return_type |-> JsonIdentity(c.return_type)])

EncodeFieldLayout(f) ==
  JsonObject([field |-> JsonIdentity(f.field), offset |-> JsonInteger(f.offset),
              type |-> JsonIdentity(f.type)])
EncodeStaticFieldAbi(f) ==
  JsonObject([linkage |-> JsonString(f.linkage), mangled_name |-> JsonName(f.mangled_name),
              member |-> JsonIdentity(f.member), type |-> JsonIdentity(f.type)])
EncodeLayout(f) ==
  JsonObject([alignment |-> JsonInteger(f.abi.alignment),
    callables |-> JsonArray(Map(EncodeCallableAbi, f.abi.callables)),
    descriptor |-> EncodeDescriptor(f.abi.descriptor),
    fields |-> JsonArray(Map(EncodeFieldLayout, f.abi.fields)),
    header_size |-> JsonInteger(f.abi.header_size), owner |-> JsonIdentity(f.id),
    size |-> JsonInteger(f.abi.size),
    static_fields |-> JsonArray(Map(EncodeStaticFieldAbi, f.abi.static_fields))])

EncodeCompatibility(c) ==
  JsonObject([compiler_abi |-> JsonInteger(c.compiler_abi),
    runtime_abi |-> JsonInteger(c.runtime_abi),
    target |-> JsonObject([pointer_size |-> JsonInteger(c.target)]),
    native |-> IF c.native = None THEN JsonNull
               ELSE JsonObject([object_format |-> JsonString(c.native.object_format),
                                features |-> JsonIntegers(c.native.features),
                                tools |-> JsonIntegers(c.native.tools)])])
EncodeSource(s) == JsonObject([digest |-> JsonInteger(s.digest), path |-> JsonInteger(s.path)])
EncodeDependency(d) ==
  JsonObject([alias |-> JsonInteger(d.alias), digest |-> JsonInteger(d.digest),
              name |-> JsonInteger(d.name)])
EncodeSymbol(s) ==
  JsonObject([abi_signature |-> JsonName(s.abi_signature),
    identity |-> JsonOptionalIdentity(s.identity), kind |-> JsonString(s.kind),
    link_name |-> JsonName(s.link_name), role |-> JsonString(s.role)])

TypeKinds(types) == LET t == KeyedBy("id", types) IN Eager([id \in DOMAIN t |-> t[id].kind])

\* encode_metadata: declarations are files and members together, by identity.
EncodeMetadata(a) ==
  LET v == a.imported  kinds == TypeKinds(v.types)
      refs == FlattenSeq(Map(LAMBDA f :
        <<[id |-> f.id, json |-> EncodeFileDeclaration(f)]>>
          \o Map(LAMBDA m : [id |-> m.id, json |-> EncodeMemberDeclaration(m, kinds)], f.members),
        v.files))
      declarations == Map(LAMBDA r : r.json, SortBy("id", refs))
  IN IF IsIn(None, declarations) THEN None ELSE
  JsonObject([compatibility |-> EncodeCompatibility(a.compatibility),
    declarations |-> JsonArray(declarations),
    dependencies |-> JsonArray(Map(EncodeDependency, a.dependencies)),
    kind |-> JsonString(a.kind), layouts |-> JsonArray(Map(EncodeLayout, v.files)),
    package |-> JsonInteger(v.package), sources |-> JsonArray(Map(EncodeSource, a.sources)),
    symbols |-> JsonArray(Map(EncodeSymbol, a.symbols)),
    types |-> JsonArray(Map(EncodeType, v.types))])

-----------------------------------------------------------------------------
(* MetadataDecoder: the helpers `object`, `array`, `text`, `boolean`,      *)
(* `integer`, `identity` as a schema, <<kind>> or <<kind, detail>>; a ?    *)
(* allows null.                                                            *)

SchemaAt(s, k) == IF s[1] = "list" THEN s[2] ELSE s[2][k]
HasShape(v, s) ==
  CASE s[1] \in {"bool", "int", "id", "name", "list"} -> v[1] = s[1]
    [] s[1] = "int?" -> v[1] \in {"int", "null"}
    [] s[1] = "id?" -> v[1] \in {"id", "null"}
    [] s[1] = "word" -> v[1] = "text" /\ v[2] \in s[2]
    [] s[1] = "object" -> v[1] = "object" /\ DOMAIN v[2] = DOMAIN s[2]
    [] s[1] = "object?" -> v[1] = "null" \/ (v[1] = "object" /\ DOMAIN v[2] = DOMAIN s[2])
    [] s[1] = "any" -> TRUE
IsNested(v, s) == v[1] \in {"list", "object"} /\ s[1] # "any"
RECURSIVE WellFormed(_, _)
WellFormed(v, s) ==
  /\ HasShape(v, s)
  /\ IsNested(v, s) => \A k \in DOMAIN v[2] : WellFormed(v[2][k], SchemaAt(s, k))
RECURSIVE Decode(_, _)
Decode(v, s) ==
  CASE s[1] = "any" -> v
    [] v[1] = "null" -> IF s[1] = "int?" THEN 0 ELSE None
    [] IsNested(v, s) -> Eager([k \in DOMAIN v[2] |-> Decode(v[2][k], SchemaAt(s, k))])
    [] OTHER -> v[2]

Word(ws) == <<"word", ws>>
List(s) == <<"list", s>>
Record(r) == <<"object", r>>
ABool == <<"bool">>
AnInt == <<"int">>
AnId == <<"id">>
AName == <<"name">>
OptInt == <<"int?">>
OptId == <<"id?">>
Ids == List(AnId)
Ints == List(AnInt)
Visible == Word({"public", "private"})
Linked == Word({"external", "internal"})

TypeSchema == Record(
  [abi_kind |-> Word({"invalid", "void", "integer", "float", "reference", "aggregate"}),
   bit_width |-> AnInt, element |-> OptId, id |-> AnId,
   kind |-> Word({"void", "bool", "byte", "int16", "int32", "int64", "string", "object",
                  "error", "class", "interface", "enum", "nullable", "struct"}),
   nominal |-> <<"object?", [kind |-> Word({"class", "interface", "enum", "struct"}),
                             name |-> AnInt, package |-> AnInt]>>,
   reference_offsets |-> Ints, storage |-> Record([alignment |-> AnInt, size |-> AnInt])])
FileSchema == Record(
  [abstract |-> ABool, abstract_functions |-> Ids, base |-> OptId,
   conformance |-> List(Record([functions |-> Ids, interface |-> AnId])),
   direct_interfaces |-> Ids,
   enum_cases |-> List(Record([id |-> AnId, name |-> AnInt, tag |-> AnInt])),
   id |-> AnId, interface_functions |-> Ids, interface_id |-> OptInt, interfaces |-> Ids,
   kind |-> Word({"class", "interface", "enum", "struct", "error"}),
   member_order |-> Ids, name |-> AnInt, record |-> Word({"file"}), sealed |-> ABool,
   virtual_functions |-> Ids, visibility |-> Visible])
MemberSchema == Record(
  [abstract |-> ABool, base_constructor |-> OptId, final |-> ABool, id |-> AnId,
   kind |-> Word({"field", "function", "constructor"}), name |-> AnInt, override |-> ABool,
   overridden |-> OptId, owner |-> AnId,
   parameters |-> List(Record([final |-> ABool, type |-> AnId])),
   record |-> Word({"member"}), slot |-> OptInt, static |-> ABool, static_value |-> <<"any">>,
   throws |-> Ids, type |-> AnId, visibility |-> Visible])
ParametersSchema == List(Record(
  [kind |-> Word({"receiver", "result", "explicit"}),
   passing |-> Word({"direct", "value_pointer", "result_pointer"}), type |-> AnId]))
ReturnMode == Word({"void", "direct", "indirect"})
ReceiverMode == Word({"none", "reference", "readonly_value", "construction"})
CallableSchema == Record(
  [calling_convention |-> Word({"c"}), error_abi |-> ABool,
   initializer |-> <<"object?",
     [id |-> AnId, linkage |-> Linked, mangled_name |-> AName,
      parameters |-> ParametersSchema, receiver_mode |-> ReceiverMode,
      return_mode |-> ReturnMode, return_type |-> OptId]>>,
   kind |-> Word({"function", "constructor"}), linkage |-> Linked, mangled_name |-> AName,
   member |-> AnId, parameters |-> ParametersSchema, receiver_mode |-> ReceiverMode,
   return_mode |-> ReturnMode, return_type |-> AnId])
DescriptorSchema == <<"object?",
  [alignment |-> AnInt, boxed_value_offset |-> AnInt, boxed_value_type |-> OptId, id |-> AnId,
   interfaces |-> List(Record([functions |-> Ids, id |-> AnInt, interface |-> AnId])),
   kind |-> Word({"file_class", "error", "value_box"}), mangled_name |-> AName,
   parent |-> OptId, parent_is_error_root |-> ABool, reference_offsets |-> Ints,
   size |-> AnInt, value_box_virtuals |-> ABool, virtual_functions |-> Ids]>>
LayoutSchema == Record(
  [alignment |-> AnInt, callables |-> List(CallableSchema), descriptor |-> DescriptorSchema,
   fields |-> List(Record([field |-> AnId, offset |-> AnInt, type |-> AnId])),
   header_size |-> AnInt, owner |-> AnId, size |-> AnInt,
   static_fields |-> List(Record([linkage |-> Linked, mangled_name |-> AName,
                                  member |-> AnId, type |-> AnId]))])
CompatibilitySchema == Record(
  [compiler_abi |-> AnInt, runtime_abi |-> AnInt, target |-> Record([pointer_size |-> AnInt]),
   native |-> <<"object?", [object_format |-> Word({"elf", "coff", "mach_o"}),
                            features |-> Ints, tools |-> Ints]>>])
SymbolSchema == Record(
  [abi_signature |-> AName, identity |-> OptId,
   kind |-> Word({"callable", "constructor_initializer", "static_field", "descriptor",
                  "runtime"}),
   link_name |-> AName, role |-> Word({"definition", "requirement"})])
MetadataSchema == Record(
  [compatibility |-> CompatibilitySchema, declarations |-> List(<<"any">>),
   dependencies |-> List(Record([alias |-> AnInt, digest |-> AnInt, name |-> AnInt])),
   kind |-> Word({"interface", "object"}), layouts |-> List(LayoutSchema),
   package |-> AnInt, sources |-> List(Record([digest |-> AnInt, path |-> AnInt])),
   symbols |-> List(SymbolSchema), types |-> List(TypeSchema)])

-----------------------------------------------------------------------------
(* MetadataDecoder: the records.  None is a record that is refused. *)

With(r, keys, more) == [k \in keys |-> r[k]] @@ more
Rename(r, more, dropped) == With(r, DOMAIN r \ dropped, more)

\* decode_static_constant, with integer_constant_bits.
DecodeStaticConstant(v, kind) ==
  LET shape == Record([kind |-> Word({"boolean", "enum", "integer"}), value |-> <<"any">>])
      as(name, tag) == v[2].kind[2] = name /\ v[2].value[1] = tag
      n == v[2].value[2]
      least == IF IsSigned(kind) THEN -(2 ^ (Width(kind) - 1)) ELSE 0
      most == IF IsSigned(kind) THEN 2 ^ (Width(kind) - 1) - 1 ELSE 2 ^ Width(kind) - 1
      constant(bits) == IF IsValidScalarBits([kind |-> kind, bits |-> bits])
                        THEN [kind |-> kind, bits |-> bits] ELSE None
  IN CASE ~WellFormed(v, shape) -> None
       [] kind = "bool" /\ as("boolean", "bool") -> constant(IF n THEN 1 ELSE 0)
       [] kind = "enum" /\ as("enum", "int") -> IF n >= 0 THEN constant(n) ELSE None
       [] kind \in IntegerKinds /\ as("integer", "int") ->
            IF n \in least .. most THEN constant(n % 2 ^ Width(kind)) ELSE None
       [] OTHER -> None

DecodeMemberDeclaration(v, kinds) ==
  IF ~WellFormed(v, MemberSchema) THEN None
  ELSE LET m == Decode(v, MemberSchema)
           constant == IF m.static_value = JsonNull \/ m.type \notin DOMAIN kinds THEN None
                       ELSE DecodeStaticConstant(m.static_value, kinds[m.type])
       IN IF m.static_value # JsonNull /\ constant = None THEN None
          ELSE Rename(m, [static_value |-> constant], {"record", "static_value"})

DecodeFileDeclaration(v, package) ==
  IF ~WellFormed(v, FileSchema) THEN None
  ELSE LET f == Decode(v, FileSchema) IN
       IF \/ Len(f.enum_cases) > MaxEnumCases
          \/ \E n \in DOMAIN f.enum_cases : f.enum_cases[n].tag >= MaxEnumCases
       THEN None
       ELSE Rename(f, [nominal |-> [package |-> package, name |-> f.name,
                                    kind |-> NominalKind(f.kind)]], {"record", "name"})

\* decode_declarations: the files with their members, None if refused.
DecodeDeclaration(v, package, kinds) ==
  LET record == IF v[1] = "object" /\ "record" \in DOMAIN v[2] THEN v[2].record ELSE JsonNull
  IN CASE record = JsonString("file") -> DecodeFileDeclaration(v, package)
       [] record = JsonString("member") -> DecodeMemberDeclaration(v, kinds)
       [] OTHER -> None
FilesWithMembers(all, fs, ms) ==
  IF \/ IsIn(None, all) \/ ~AscendBy("id", all)
     \/ \E n \in DOMAIN ms : \A m \in DOMAIN fs : fs[m].id # ms[n].owner
  THEN None
  ELSE SortBy("id", Map(LAMBDA f : f @@ [members |->
         SortBy("id", SelectSeq(ms, LAMBDA m : m.owner = f.id))], fs))
GroupDeclarations(all) ==
  FilesWithMembers(all, SelectSeq(all, LAMBDA d : "nominal" \in DOMAIN d),
                   SelectSeq(all, LAMBDA d : "nominal" \notin DOMAIN d))
DecodeDeclarations(list, package, kinds) ==
  GroupDeclarations(Map(LAMBDA v : DecodeDeclaration(v, package, kinds), list))

\* decode_layouts: every file gets the one layout that names it.
DecodeLayouts(ls, fs) ==
  LET layoutOf == KeyedBy("owner", ls) IN
  IF \/ fs = None \/ ~AscendBy("owner", ls)
     \/ DOMAIN layoutOf # {fs[n].id : n \in DOMAIN fs}
     \/ \E n \in DOMAIN ls : /\ ls[n].descriptor # None
                             /\ Len(ls[n].descriptor.reference_offsets) > MaxLayoutReferences
  THEN None
  ELSE Map(LAMBDA f : f @@ [abi |-> Rename(
             [layoutOf[f.id] EXCEPT !.callables =
                Map(LAMBDA c : Rename(c, <<>>, {"calling_convention"}), @)],
             <<>>, {"owner"})], fs)

\* MetadataDecoder::decode
Assemble(a, laid) ==
  IF \/ laid = None
     \/ \E n \in DOMAIN a.types : Len(a.types[n].reference_offsets) > MaxLayoutReferences
  THEN None
  ELSE With(a, {"kind", "sources", "dependencies", "symbols"},
            [compatibility |-> [a.compatibility EXCEPT !.target = @.pointer_size],
             imported |-> [package |-> a.package, target |-> a.compatibility.target.pointer_size,
                           types |-> a.types, files |-> laid]])
DecodeRecords(a) ==
  Assemble(a, DecodeLayouts(a.layouts,
                DecodeDeclarations(a.declarations, a.package, TypeKinds(a.types))))
DecodeMetadata(v) ==
  IF ~WellFormed(v, MetadataSchema) THEN None ELSE DecodeRecords(Decode(v, MetadataSchema))

=============================================================================
