--------------------------- MODULE PackageExchange ---------------------------
(***************************************************************************)
(* A program of several packages is compiled, every package is written as  *)
(* an artifact, the artifacts are read back, checked together, registered  *)
(* with a semantic model and linked (package_artifact.cc, register_        *)
(* imported_packages of semantic_analyzer.cc, and the compile and link     *)
(* requests of package_pipeline.cc).                                       *)
(*                                                                         *)
(* Between the writing and the reading one artifact may be replaced by one *)
(* that differs in a place, as if an other compiler had written it.        *)
(* Package 1 is the standard library; a package depends on those before    *)
(* it.  The digest of a file is its contents: SHA-256 has no collisions.   *)
(***************************************************************************)
EXTENDS PackageArtifact

CONSTANTS
  Damageable(_),    \* the programs whose artifacts may be replaced
  Damages(_),       \* the trees a reader may find in place of a tree
  EnvelopeDamages(_),    \* and the files in place of a file
  RuntimeSymbols    \* the runtime entry points of artifact_symbols, in order

VARIABLES
  artifacts,        \* the files written so far, one per package
  damaged,          \* the package whose artifact was replaced, 0 for none
  loaded,           \* what the reader made of every file
  registry,         \* the semantic model the imported packages were entered in
  entry             \* the function the executable starts with

exchangeVars == <<artifacts, damaged, loaded, registry, entry>>
vars == <<syntax, phase, files, symbols, errors, pass, layouts, descriptors, exchangeVars>>
compilerVars == <<syntax, files, symbols, errors, pass, layouts, descriptors>>

Packages == {PackageOf(i) : i \in FileIds}
RootFile == Len(syntax)          \* ShuttleV2LinkRequest::entry

-----------------------------------------------------------------------------
(* artifact_symbols *)

Symbol(link, identity, role, kind, signature) ==
  [abi_signature |-> signature, identity |-> identity, kind |-> kind,
   link_name |-> link, role |-> role]
Definition(identity, kind, signature) ==
  Symbol(Mangle(identity), identity, "definition", kind, signature)

\* The definitions of one file: a descriptor with a name, the external statics,
\* and the external callables that are not abstract, with their initializers.
OwnedSymbols(file) ==
  LET d == file.abi.descriptor
      abstract == {m.id : m \in {x \in ToSet(file.members) : x.abstract}}
      external == SelectSeq(file.abi.static_fields, LAMBDA f : f.linkage = "external")
      concrete == SelectSeq(file.abi.callables, LAMBDA c :
                    c.linkage = "external" /\ c.member \notin abstract)
      initialized == SelectSeq(file.abi.callables, LAMBDA c :
                       c.initializer # None /\ c.initializer.linkage = "external")
  IN (IF d = None \/ d.mangled_name = None THEN <<>>
      ELSE <<Definition(d.id, "descriptor", <<"descriptor", d.kind>>)>>)
     \o Map(LAMBDA f : Definition(f.member, "static_field", <<"global", Mangle(f.type)>>),
            external)
     \o Map(LAMBDA c : Definition(c.member, "callable", CallableSignature(c, c.error_abi)),
            concrete)
     \o Map(LAMBDA c : Definition(c.initializer.id, "constructor_initializer",
                                  CallableSignature(c.initializer, c.error_abi)), initialized)
AddOwnedSymbols(view) == FlattenSeq(Map(OwnedSymbols, view.files))

\* try_emplace: the first symbol of a name stays.
FirstByName(s) ==
  FoldLeft(LAMBDA acc, x : IF \E n \in DOMAIN acc : acc[n].link_name = x.link_name
                           THEN acc ELSE Append(acc, x), <<>>, s)
ArtifactSymbols(view, dependencies, kind) ==
  LET defined(a) == SelectSeq(a.symbols, LAMBDA s : s.role = "definition")
      required == Map(LAMBDA s : [s EXCEPT !.role = "requirement"],
                      FlattenSeq(Map(defined, dependencies)))
      runtime == IF kind # "object" THEN <<>>
                 ELSE Map(LAMBDA n : Symbol(<<9, n>>, None, "requirement", "runtime", <<"c", n>>),
                          RuntimeSymbols)
  IN SortBy("link_name", FirstByName(AddOwnedSymbols(view) \o required \o runtime))

-----------------------------------------------------------------------------
(* verify_package_artifact *)

NativeConfiguration == [object_format |-> "elf", features |-> <<1>>, tools |-> <<1, 2>>]
BuildCompatibility(kind) ==
  [compiler_abi |-> CompilerAbiVersion, runtime_abi |-> RuntimeAbiVersion, target |-> Pointer,
   native |-> IF kind = "object" THEN NativeConfiguration ELSE None]

\* valid_native_object: the payload's own header names its format and machine.
ValidNativeObject(payload, native) == payload = <<native.object_format>>

VerifySources(a) ==
  /\ \A n \in 1 .. Len(a.sources) - 1 : a.sources[n].path < a.sources[n + 1].path
  /\ {s.path : s \in ToSet(a.sources)} = {f.nominal.name : f \in ToSet(a.imported.files)}
VerifyDependencies(a) ==
  /\ \A n \in 1 .. Len(a.dependencies) - 1 : a.dependencies[n].alias < a.dependencies[n + 1].alias
  /\ NoDuplicates(Map(LAMBDA d : d.name, a.dependencies))
  /\ \A d \in ToSet(a.dependencies) : d.name # a.imported.package

\* Mutant: a definition's signature is not compared with the ABI records.
OwnsDefinitionAnySignature(expected, s) ==
  \E x \in expected : x.identity = s.identity /\ x.kind = s.kind
OwnsDefinition(expected, s) ==
  \E x \in expected :
    x.identity = s.identity /\ x.kind = s.kind /\ x.abi_signature = s.abi_signature
VerifySymbols(a) ==
  LET expected == ToSet(AddOwnedSymbols(a.imported))
      owned == {x.identity : x \in expected}
      definitions == SelectSeq(a.symbols, LAMBDA s : s.role = "definition")
  IN
  /\ AscendBy("link_name", a.symbols)
  /\ \A s \in ToSet(a.symbols) :
       /\ (s.kind = "runtime") <=> (s.identity = None)
       /\ s.kind # "runtime" => s.link_name = Mangle(s.identity)
       /\ s.kind = "runtime" => s.role = "requirement"
       /\ s.role = "definition" => OwnsDefinition(expected, s)
       /\ s.role = "requirement" => s.identity \notin owned
  /\ NoDuplicates(Map(LAMBDA s : s.identity, definitions))
  /\ Len(definitions) = Cardinality(owned)

VerifyPackageArtifact(a) ==
  /\ a.compatibility.compiler_abi = CompilerAbiVersion
  /\ a.compatibility.runtime_abi = RuntimeAbiVersion
  /\ a.compatibility.target = a.imported.target
  /\ IF a.kind = "interface" THEN a.compatibility.native = None /\ a.payload = None
     ELSE /\ a.compatibility.native # None /\ a.payload # None
          /\ ValidNativeObject(a.payload, a.compatibility.native)
  /\ VerifyImportedPackageView(a.imported)
  /\ VerifySources(a) /\ VerifyDependencies(a)
  /\ a.compatibility.native # None =>
       Ascending(a.compatibility.native.tools) /\ Ascending(a.compatibility.native.features)
  /\ VerifySymbols(a)
  /\ EncodeMetadata(a) # None

-----------------------------------------------------------------------------
(* write_package_artifact, read_package_artifact.  A section of the file   *)
(* counts as one unit of its size; `spelling` is FALSE for a text that is  *)
(* not the one spelling of its tree.                                       *)

CanonicalJson(tree) == [spelling |-> TRUE, tree |-> tree]
JsonParse(text) == IF text.spelling THEN text.tree ELSE None

ArtifactFileDigest(file) == [file EXCEPT !.digest = None]
Sealed(file) == [file EXCEPT !.digest = ArtifactFileDigest(file)]

\* None when the artifact is refused.
WritePackageArtifact(a) ==
  IF ~VerifyPackageArtifact(a) THEN None
  ELSE Sealed([magic |-> TRUE, version |-> FormatVersion, flags |-> 0, metadata_size |-> 1,
               payload_size |-> Len(a.payload), metadata |-> CanonicalJson(EncodeMetadata(a)),
               payload |-> a.payload, trailing |-> 0, digest |-> None])

\* The checks of the envelope, in their order.
EnvelopeFault(file) ==
  CASE ~file.magic -> "envelope"
    [] file.version # FormatVersion -> "incompatible"
    [] file.flags # 0 -> "envelope"
    [] file.metadata_size + file.payload_size # 1 + Len(file.payload) + file.trailing -> "envelope"
    [] file.digest # ArtifactFileDigest(file) -> "integrity"
    [] file.metadata_size # 1 -> "metadata"
    [] OTHER -> "none"

\* The artifact and why it was refused; `decoded` is what the decoder returned.
Refused(why) == [artifact |-> None, why |-> why]
CheckDecoded(decoded, tree, payload, expected) ==
  IF decoded = None THEN Refused("metadata")
  ELSE LET a == decoded @@ [payload |-> payload] IN
       CASE ~VerifyPackageArtifact(a) -> Refused("model")
         [] EncodeMetadata(a) # tree -> Refused("noncanonical")
         [] a.compatibility # expected -> Refused("incompatible")
         [] OTHER -> [artifact |-> a, why |-> "none"]
ReadPackageArtifact(file, expected) ==
  CASE EnvelopeFault(file) # "none" -> Refused(EnvelopeFault(file))
    [] JsonParse(file.metadata) = None -> Refused("metadata")
    [] OTHER -> CheckDecoded(DecodeMetadata(file.metadata.tree), file.metadata.tree,
                             file.payload, expected)

-----------------------------------------------------------------------------
(* register_imported_packages.  The tables of the model are keyed by the   *)
(* identities that imported_file_ids_, imported_type_ids_ and              *)
(* imported_member_ids_ look up.                                           *)

BuiltinTypes ==
  {CanonicalPrimitive(k) : k \in {"DivisionByZero", "Error", "bool", "byte", "int16",
                                  "int32", "int64", "string", "void"}}
RegisteredTypes(views) ==
  LET all == ToSet(FlattenSeq(Map(LAMBDA v : v.types, views)))
      round(known) ==
        known \cup {t.id : t \in {x \in all : x.kind = "nullable" /\ x.element \in known}}
  IN Rounds(round, BuiltinTypes \cup {f.id : f \in ToSet(Files(views))}, Cardinality(all))

\* Mutant: the virtual slot is not restored.
RegisterMemberNoSlot(m) ==
  [kind |-> m.kind, owner |-> m.owner, name |-> m.name, type |-> m.type,
   parameters |-> m.parameters, visibility |-> m.visibility, final |-> m.final,
   static |-> m.static, override |-> m.override, abstract |-> m.abstract, slot |-> 0,
   throws |-> m.throws, explicit |-> m.kind # "field",
   constant |-> IF m.static /\ m.final THEN m.static_value ELSE None]
RegisterMember(m) ==
  [kind |-> m.kind, owner |-> m.owner, name |-> m.name, type |-> m.type,
   parameters |-> m.parameters, visibility |-> m.visibility, final |-> m.final,
   static |-> m.static, override |-> m.override, abstract |-> m.abstract, slot |-> m.slot,
   throws |-> m.throws, explicit |-> m.kind # "field",
   constant |-> IF m.static /\ m.final THEN m.static_value ELSE None]

\* What a member needs to become a symbol.
MemberRegisters(m, types, kinds) ==
  /\ {m.type} \cup {p.type : p \in ToSet(m.parameters)} \cup ToSet(m.throws) \subseteq types
  /\ m.static_value # None => /\ m.static_value.kind = kinds[m.type]
                              /\ IsValidScalarBits(m.static_value)

Lookup(id, ids) == IF id \in ids THEN id ELSE None
Known(s, ids) == SelectSeq(s, LAMBDA id : id \in ids)
OfKind(order, members, kind) == SelectSeq(order, LAMBDA id : members[id].kind = kind)
RegisterFile(f, fileIds, memberIds) ==
  LET own == KeyedBy("id", f.members)
      order == Known(f.member_order, DOMAIN own \cap memberIds)
      conformance == SelectSeq(f.conformance, LAMBDA c : c.interface \in fileIds)
  IN [kind |-> f.kind, abstract |-> f.abstract, sealed |-> f.sealed,
      visibility |-> f.visibility, interface_id |-> f.interface_id,
      cases |-> Map(LAMBDA c : c.name, f.enum_cases), base |-> Lookup(f.base, fileIds),
      direct_interfaces |-> Known(f.direct_interfaces, fileIds),
      interfaces |-> Known(f.interfaces, fileIds),
      fields |-> OfKind(order, own, "field"), functions |-> OfKind(order, own, "function"),
      constructors |-> OfKind(order, own, "constructor"),
      virtual_functions |-> Known(f.virtual_functions, memberIds),
      abstract_functions |-> Known(f.abstract_functions, memberIds),
      interface_functions |-> Known(f.interface_functions, memberIds),
      implementations |-> Map(LAMBDA c : [interface |-> c.interface,
                                functions |-> Known(c.functions, memberIds)], conformance)]

\* `invalid` is whether a declaration was reported as impossible to register.
RegisterImportedPackages(views) ==
  LET fs == Files(views)
      ms == FlattenSeq(Map(LAMBDA f : f.members, fs))
      types == RegisteredTypes(views)
      kinds == TypeKinds(FlattenSeq(Map(LAMBDA v : v.types, views)))
      fileIds == {f.id : f \in ToSet(fs)}
      entered == SelectSeq(ms, LAMBDA m : MemberRegisters(m, types, kinds))
      memberIds == {m.id : m \in ToSet(entered)}
      members == KeyedBy("id", entered)
      byId == KeyedBy("id", fs)
  IN [invalid |->
        \/ ~NoDuplicates(Map(LAMBDA f : f.id, fs)) \/ ~NoDuplicates(Map(LAMBDA m : m.id, ms))
        \/ \E f \in ToSet(fs) : /\ f.nominal.package = StandardPackage
                                /\ f.nominal.name = Name(Obj, FALSE) /\ f.kind # "class"
        \/ ~(DOMAIN kinds \subseteq types) \/ Len(entered) # Len(ms)
        \/ \E f \in ToSet(fs) :
             \/ ~(ToSet(f.member_order) \subseteq {m.id : m \in ToSet(f.members)})
             \/ \E c \in ToSet(f.conformance) : c.interface \notin fileIds,
      files |-> [id \in fileIds |-> RegisterFile(byId[id], fileIds, memberIds)],
      members |-> [id \in memberIds |->
        RegisterMember(members[id])
          @@ [overridden |-> Lookup(members[id].overridden, memberIds),
              base_constructor |-> Lookup(members[id].base_constructor, memberIds)]]]

-----------------------------------------------------------------------------
(* validate_link_symbols, select_entry *)

SymbolsOf(as) == FlattenSeq(Map(LAMBDA a : a.symbols, as))
ValidateLinkSymbols(as) ==
  LET definitions == SelectSeq(SymbolsOf(as), LAMBDA s : s.role = "definition")
      byName == KeyedBy("link_name", definitions)
      required == {s \in ToSet(SymbolsOf(as)) : s.role = "requirement" /\ s.kind # "runtime"}
  IN /\ NoDuplicates(Map(LAMBDA s : s.link_name, definitions))
     /\ \A s \in required : /\ s.link_name \in DOMAIN byName
                            /\ [byName[s.link_name] EXCEPT !.role = s.role] = s

\* The one eligible Main of the entry file: <<>> if there is none or several.
MainName == Name(Code("Main", Names), FALSE)
EligibleMain(m, c) ==
  LET exits == m.type = CanonicalPrimitive("int32")  result == c.error_abi /\ exits IN
  /\ m.visibility = "public" /\ m.static /\ m.parameters = <<>>
  /\ m.type \in {CanonicalPrimitive("void"), CanonicalPrimitive("int32")}
  /\ c.linkage = "external" /\ c.kind = "function" /\ c.receiver_mode = "none"
  /\ c.return_type = m.type
  /\ c.return_mode = CASE result -> "indirect" [] exits -> "direct" [] OTHER -> "void"
  /\ c.parameters =
       IF result THEN <<AbiParameter("result", m.type, "result_pointer")>> ELSE <<>>
SelectEntry(a, file) ==
  LET f == KeyedBy("id", a.imported.files)[file]
      abis == KeyedBy("member", f.abi.callables)
      mains == SelectSeq(f.members, LAMBDA m :
                 /\ m.name = MainName /\ m.kind = "function" /\ m.id \in DOMAIN abis
                 /\ EligibleMain(m, abis[m.id]))
  IN Map(LAMBDA m : [symbol |-> abis[m.id].mangled_name, error_abi |-> abis[m.id].error_abi,
                     returns_int32 |-> m.type = CanonicalPrimitive("int32")], mains)

\* entry_wrapper: how the wrapper calls Main.
EntryWrapperCall(e) ==
  [error |-> e.error_abi,
   result |-> CASE e.error_abi /\ e.returns_int32 -> "indirect"
                [] e.returns_int32 -> "direct" [] OTHER -> "void"]

-----------------------------------------------------------------------------
(* The requests *)

\* The end of execute_compile: the package's view with its symbols is written.
MakeArtifact(p, view, dependencies) ==
  [kind |-> "object", compatibility |-> BuildCompatibility("object"),
   sources |-> Map(LAMBDA i : [digest |-> i, path |-> Nominal(i).name], OwnedFiles(p)),
   dependencies |-> [d \in 1 .. p - 1 |-> [alias |-> d, digest |-> d, name |-> d]],
   imported |-> view, symbols |-> ArtifactSymbols(view, dependencies, "object"),
   payload |-> <<"elf">>]
ReadAll == Map(LAMBDA f : ReadPackageArtifact(f, BuildCompatibility("object")), artifacts)
Dependencies(p) == Map(LAMBDA r : r.artifact, SubSeq(ReadAll, 1, p - 1))
Compiled(p, dependencies) ==
  IF IsIn(None, dependencies) THEN None
  ELSE WritePackageArtifact(MakeArtifact(p, BuildImportedPackageView(p), dependencies))
StoreArtifact(p, file) ==
  IF file = None THEN phase' = "export failed" /\ UNCHANGED artifacts
  ELSE /\ artifacts' = Append(artifacts, file)
       /\ phase' = IF p + 1 \in Packages THEN "run" ELSE "exported"
ExportPackage ==
  /\ phase = "run"
  /\ StoreArtifact(Len(artifacts) + 1,
                   Compiled(Len(artifacts) + 1, Dependencies(Len(artifacts) + 1)))
  /\ UNCHANGED <<compilerVars, damaged, loaded, registry, entry>>

\* An artifact is replaced, by one that was sealed or one that was not.
Replaceable == phase = "exported" /\ damaged = 0 /\ Damageable(syntax)
Replace(p, file) ==
  /\ file # None
  /\ artifacts' = [artifacts EXCEPT ![p] = file]
  /\ damaged' = p
  /\ UNCHANGED <<compilerVars, phase, loaded, registry, entry>>
DamageMetadata ==
  /\ Replaceable
  /\ \E p \in DOMAIN artifacts : \E t \in Damages(artifacts[p].metadata.tree) :
       Replace(p, Sealed([artifacts[p] EXCEPT !.metadata.tree = t]))
DamageEnvelope ==
  /\ Replaceable
  /\ \E p \in DOMAIN artifacts : \E f \in EnvelopeDamages(artifacts[p]) : Replace(p, f)

\* A package is compiled once more, from declarations that differ in a place.
Recompiled(a, p) ==
  IF a = None THEN None
  ELSE WritePackageArtifact([a EXCEPT !.symbols =
         ArtifactSymbols(a.imported, Dependencies(p), "object")] @@ [payload |-> artifacts[p].payload])
RecompilePackage ==
  /\ Replaceable
  /\ \E p \in DOMAIN artifacts : \E t \in Damages(artifacts[p].metadata.tree) :
       Replace(p, Recompiled(DecodeMetadata(t), p))

\* load_artifacts, validate_closure
LoadArtifacts ==
  /\ phase = "exported"
  /\ loaded' = ReadAll
  /\ phase' = IF \E n \in DOMAIN loaded' : loaded'[n].artifact = None
              THEN "refused" ELSE "loaded"
  /\ UNCHANGED <<compilerVars, artifacts, damaged, registry, entry>>
LoadedViews == Map(LAMBDA r : r.artifact.imported, loaded)
ValidateClosure ==
  /\ phase = "loaded"
  /\ phase' = IF VerifyImportedPackageClosure(LoadedViews) THEN "closed" ELSE "refused"
  /\ UNCHANGED <<compilerVars, exchangeVars>>

\* A compilation against the loaded packages enters them in its model.
RegisterPackages ==
  /\ phase = "closed" /\ registry = None
  /\ registry' = RegisterImportedPackages(LoadedViews)
  /\ UNCHANGED <<compilerVars, phase, artifacts, damaged, loaded, entry>>

\* execute_link
LinkPackages ==
  LET as == Map(LAMBDA r : r.artifact, loaded)
      root == PackageOf(RootFile)
      mains == SelectEntry(as[root], FileIdentity(RootFile))
  IN
  /\ phase = "closed" /\ registry # None
  /\ IF ValidateLinkSymbols(as) /\ Len(mains) = 1
     THEN entry' = mains[1] /\ phase' = "linked"
     ELSE phase' = "refused" /\ UNCHANGED entry
  /\ UNCHANGED <<compilerVars, artifacts, damaged, loaded, registry>>

Init ==
  /\ SemaInit /\ layouts = <<>> /\ descriptors = <<>>
  /\ artifacts = <<>> /\ damaged = 0 /\ loaded = <<>> /\ registry = None /\ entry = None
Next ==
  \/ (SemaNext /\ UNCHANGED <<layouts, descriptors, exchangeVars>>)
  \/ (AbiNext /\ UNCHANGED exchangeVars)
  \/ ExportPackage \/ DamageMetadata \/ DamageEnvelope \/ RecompilePackage
  \/ LoadArtifacts \/ ValidateClosure
  \/ RegisterPackages \/ LinkPackages
Spec == Init /\ [][Next]_vars

-----------------------------------------------------------------------------
(* Properties *)

\* A constructor that may fail, and a package of enums and structs that never
\* names Object, are compiled and cannot be exported (see the README).
FailingConstructor ==
  \E s \in DOMAIN symbols : /\ symbols[s].kind = "constructor" /\ CallableShape(s).error
                            /\ syntax[symbols[s].file].kind # "struct"
LostBox ==
  \E i \in FileIds : /\ syntax[i].kind \in {"enum", "struct"}
                     /\ ~IsIn(File(Obj), ReferencedTypes(PackageOf(i)))

\* Every package of an accepted program can be written, and what is read back
\* is what was written (write_package_artifact, read_package_artifact).
ExportsRoundTrip ==
  /\ phase = "export failed" => FailingConstructor \/ LostBox
  /\ damaged = 0 /\ loaded # <<>> => \A p \in DOMAIN loaded :
       loaded[p].artifact = MakeArtifact(p, BuildImportedPackageView(p),
                              [q \in 1 .. p - 1 |-> loaded[q].artifact])

\* The semantic model of the compilation that wrote the packages, by identity.
ExportedFile(i) ==
  [kind |-> syntax[i].kind, abstract |-> syntax[i].abstract, sealed |-> syntax[i].sealed,
   visibility |-> Visibility(syntax[i].private),
   interface_id |-> IF IsInterface(i) THEN syntax[i].id ELSE 0,
   cases |-> Map(LAMBDA c : c.name, EnumCases(i)), base |-> FileIdentity(files[i].base),
   direct_interfaces |-> FileIdentities(files[i].direct),
   interfaces |-> FileIdentities(files[i].interfaces),
   fields |-> [n \in DOMAIN syntax[i].fields |-> FieldIdentity(i, n)],
   functions |-> MemberIdentities(files[i].functions),
   constructors |-> MemberIdentities(Constructors(i)),
   virtual_functions |-> MemberIdentities(files[i].virtuals),
   abstract_functions |-> MemberIdentities(AbstractFunctions(i)),
   interface_functions |-> MemberIdentities(files[i].contract),
   implementations |-> {[interface |-> FileIdentity(m.interface),
                         functions |-> MemberIdentities(m.functions)] :
                           m \in ToSet(files[i].implementations)}]
ExportedSymbol(s) ==
  LET c == symbols[s] IN
  [type |-> TypeIdentity(c.type), static |-> c.static, override |-> c.override,
   abstract |-> c.abstract, slot |-> c.slot, visibility |-> Visibility(c.private),
   throws |-> {TypeIdentity(t) : t \in c.throws},
   overridden |-> MemberIdentity(c.overridden),
   base_constructor |-> MemberIdentity(c.baseConstructor)]

\* A compilation against artifacts starts from the tables the packages were
\* compiled with: bases, closures, slots, contracts, effects and constants
\* (build_imported_package_view, register_imported_packages).  A contract
\* merged from two interfaces is left out: it is lost (see the README).
ImportFaithful ==
  registry # None /\ damaged = 0
  /\ (\A i \in FileIds : \A s \in ToSet(files[i].contract) : symbols[s].declared)
  => /\ \A i \in FileIds :
          [registry.files[FileIdentity(i)] EXCEPT !.implementations = ToSet(@)] = ExportedFile(i)
     /\ \A i \in FileIds : \A n \in DOMAIN syntax[i].fields : syntax[i].fields[n].static =>
          registry.members[FieldIdentity(i, n)].constant =
            [kind |-> TypeKind(syntax[i].fields[n].type), bits |-> syntax[i].fields[n].bits]
     /\ \A s \in DOMAIN symbols : symbols[s].declared =>
          LET m == [registry.members[MemberIdentity(s)] EXCEPT !.throws = ToSet(@)] IN
          [k \in DOMAIN ExportedSymbol(s) |-> m[k]] = ExportedSymbol(s)

\* What the closure check accepts can be registered, whoever wrote it: no
\* compilation reports that a verified declaration could not be registered.
AcceptedRegisters == registry # None => ~registry.invalid

\* Functions another package may call by name.
Linkable(s) ==
  /\ symbols[s].declared /\ ~symbols[s].private /\ ~symbols[s].abstract
  /\ ~IsInterface(symbols[s].file)

\* The functions of an executable are called the way they were compiled: the
\* packages that passed the link checks claim for every function another
\* package needs the shape it was compiled with, and the entry wrapper calls
\* Main with the shape of Main (validate_link_symbols, entry_wrapper).
LinkAgrees ==
  phase = "linked" =>
    /\ \A s \in DOMAIN symbols : Linkable(s) /\ PackageOf(symbols[s].file) < Len(loaded) =>
         LET f == KeyedBy("id", LoadedViews[PackageOf(symbols[s].file)].files)
                    [FileIdentity(symbols[s].file)]
             c == KeyedBy("member", f.abi.callables)[MemberIdentity(s)]
         IN [result |-> c.return_mode, receiver |-> c.receiver_mode, error |-> c.error_abi]
              = CallableShape(s)
    /\ damaged = 0 => \E s \in DOMAIN symbols :
         /\ entry.symbol = Mangle(MemberIdentity(s))
         /\ EntryWrapperCall(entry).error = CallableShape(s).error
         /\ EntryWrapperCall(entry).result = CallableShape(s).result

=============================================================================
