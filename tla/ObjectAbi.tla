------------------------------ MODULE ObjectAbi ------------------------------
(***************************************************************************)
(* abi.cc, abi_verifier.cc and the descriptors of llvm_ir.cc: the storage  *)
(* of structs, classes and value boxes, the descriptor of every type, the  *)
(* physical shape of every callable, and the verifiers run over them.      *)
(*                                                                         *)
(* The target is the 64-bit one of data_layout.cc.  Sizes stay far below   *)
(* 2^64 because of the limits below, so checked_add and checked_align      *)
(* never fail here and are plain sums.                                     *)
(***************************************************************************)
EXTENDS ClassHierarchy

CONSTANTS MaxStructFields, MaxStructDepth, MaxStructSize,
          MaxLayoutReferences, MaxMapEntries   \* aggregate_limits.h

VARIABLES
  layouts,      \* the FileLayouts computed so far, by file
  descriptors   \* the type descriptors emitted, by file

abiVars == <<layouts, descriptors>>

Pointer == 8
HeaderWords == 2
Header == Pointer * HeaderWords

AlignUp(v, a) == ((v + a - 1) \div a) * a
Pow2(n) == n \in {2 ^ k : k \in 0 .. 20}
Larger(a, b) == IF a > b THEN a ELSE b
Shift(refs, by) == [n \in DOMAIN refs |-> refs[n] + by]

-----------------------------------------------------------------------------
(* Type layouts *)

Storage(size, align, refs) == [size |-> size, align |-> align, refs |-> refs]

\* Mutant: the references of the payload keep their offsets in the element.
NullableValueLayoutUnshifted(e) ==
  Storage(AlignUp(AlignUp(1, e.align) + e.size, e.align), e.align, e.refs)

NullableValueLayout(e) ==
  LET payload == AlignUp(1, e.align)
  IN  Storage(AlignUp(payload + e.size, e.align), e.align, Shift(e.refs, payload))

ScalarSize(kind) ==
  CASE kind \in {"bool", "byte"} -> 1 [] kind = "int16" -> 2
    [] kind \in {"int32", "enum"} -> 4 [] kind = "int64" -> 8 [] OTHER -> 0

IsNullableValue(t) == t.n /\ ~IsReference(Element(t))
IsAggregate(t) == TypeKind(t) = "struct" \/ IsNullableValue(t)

\* lower_type, with the struct layouts known so far filled in by lower_to_abi.
ValueLayout(t) ==
  IF TypeKind(t) = "struct" /\ t.f \in DOMAIN layouts
  THEN Storage(layouts[t.f].size, layouts[t.f].align, layouts[t.f].refs)
  ELSE LET n == ScalarSize(TypeKind(t)) IN Storage(n, Larger(n, 1), <<>>)
TypeLayout(t) ==
  CASE IsReference(t) -> Storage(Pointer, Pointer, <<0>>)
    [] IsNullableValue(t) -> NullableValueLayout(ValueLayout(Element(t)))
    [] OTHER -> ValueLayout(t)

-----------------------------------------------------------------------------
(* lower_file_layout *)

InlineStruct(t) == IF TypeKind(Element(t)) = "struct" THEN t.f ELSE 0

\* Where the fields of the file itself begin.
StartLayout(i) ==
  LET base == files[i].base
      empty == [header |-> IF syntax[i].kind = "struct" THEN 0 ELSE Header,
                size |-> IF syntax[i].kind = "struct" THEN 0 ELSE Header,
                align |-> IF syntax[i].kind = "struct" THEN 1 ELSE Pointer,
                fields |-> <<>>, refs |-> <<>>, ok |-> TRUE,
                depth |-> IF syntax[i].kind = "struct" THEN 1 ELSE 0]
  IN CASE base # 0 -> [layouts[base] EXCEPT !.depth = 0]
       [] base = 0 /\ syntax[i].kind = "error" ->   \* Error.Message
            [empty EXCEPT !.size = Header + Pointer, !.refs = <<Header>>,
                          !.fields = <<[owner |-> 0, index |-> 1, type |-> String,
                                        offset |-> Header]>>]
       [] OTHER -> empty

PlaceField(i, acc, n) ==
  LET type == syntax[i].fields[n].type
      t == TypeLayout(type)
      at == AlignUp(acc.size, t.align)
      nested == InlineStruct(type)
      struct == syntax[i].kind = "struct"
      depth == IF struct /\ nested # 0 THEN Larger(acc.depth, layouts[nested].depth + 1)
               ELSE acc.depth
  IN IF \/ ~acc.ok
        \/ t.size = 0
        \/ struct /\ Len(acc.fields) >= MaxStructFields
        \/ Len(acc.refs) + Len(t.refs) > MaxLayoutReferences
        \/ struct /\ depth > MaxStructDepth
     THEN [acc EXCEPT !.ok = FALSE]
     ELSE [acc EXCEPT !.size = at + t.size, !.align = Larger(@, t.align),
                      !.fields = Append(@, [owner |-> i, index |-> n,
                                            type |-> type, offset |-> at]),
                      !.refs = @ \o Shift(t.refs, at), !.depth = depth]

\* The instance fields, in the order they are declared.
PlacedFields(i) ==
  LET fields == syntax[i].fields
      placed[n \in 0 .. Len(fields)] ==
        IF n = 0 THEN StartLayout(i)
        ELSE IF fields[n].static THEN placed[n - 1] ELSE PlaceField(i, placed[n - 1], n)
  IN  placed[Len(fields)]

FileLayout(i) ==
  IF syntax[i].kind = "enum"
  THEN [header |-> 0, size |-> 0, align |-> 1, fields |-> <<>>, refs |-> <<>>,
        ok |-> TRUE, depth |-> 0]
  ELSE LET placed == PlacedFields(i)
           size == AlignUp(IF syntax[i].kind = "struct" THEN Larger(placed.size, 1)
                           ELSE placed.size, placed.align)
       IN  [placed EXCEPT !.size = size,
              !.ok = @ /\ (syntax[i].kind = "struct" => size <= MaxStructSize)]

-----------------------------------------------------------------------------
(* lower_to_abi: Kahn's traversal of the layout dependencies *)

LayoutDependencies(i) ==
  ({files[i].base} \cup
   {InlineStruct(f.type) : f \in {g \in ToSet(syntax[i].fields) : ~g.static}}) \ {0}
LayoutReady(i) == i \notin DOMAIN layouts /\ LayoutDependencies(i) \subseteq DOMAIN layouts
MapEntries == FoldLeft(+, 0, [i \in FileIds |->
                IF i \in DOMAIN layouts THEN Len(layouts[i].refs) ELSE 0])

LowerFileLayout ==
  /\ phase = "abi"
  /\ \E i \in FileIds :
       /\ LayoutReady(i) /\ \A j \in 1 .. i - 1 : ~LayoutReady(j)
       /\ LET l == FileLayout(i) IN
          IF l.ok /\ Len(l.refs) <= MaxMapEntries - MapEntries
          THEN /\ layouts' = [j \in DOMAIN layouts \cup {i} |-> IF j = i THEN l ELSE layouts[j]]
               /\ UNCHANGED <<phase, errors>>
          ELSE /\ phase' = "rejected" /\ errors' = {<<"layout", i>>}
               /\ UNCHANGED layouts
  /\ UNCHANGED <<syntax, files, symbols, pass, descriptors>>

\* Files are left that embed each other through nullable structs.
LayoutCycle ==
  /\ phase = "abi" /\ DOMAIN layouts # FileIds
  /\ \A i \in FileIds : ~LayoutReady(i)
  /\ phase' = "rejected" /\ errors' = {<<"inline layout cycle", 0>>}
  /\ UNCHANGED <<syntax, files, symbols, pass, layouts, descriptors>>

-----------------------------------------------------------------------------
(* The physical shape of a callable *)

\* callable_uses_error_abi: follow the overridden functions and the interface
\* requirements the owner's tables give the function.
SlotContracts(s) ==
  (IF symbols[s].overridden = 0 THEN {} ELSE {symbols[s].overridden})
  \cup UNION {{files[m.interface].contract[n] :
                 n \in {k \in DOMAIN m.functions : m.functions[k] = s}} :
                m \in ToSet(files[symbols[s].file].implementations)}
UsesErrorAbi(s) ==
  LET reach(found) == found \cup UNION {SlotContracts(c) : c \in found}
  IN  \E c \in Rounds(reach, {s}, Len(symbols)) : symbols[c].throws # {}

\* lower_callable
CallableShape(s) ==
  LET type == IF symbols[s].kind = "constructor" THEN File(symbols[s].file) ELSE symbols[s].type
      throwing == UsesErrorAbi(s)
      struct == syntax[symbols[s].file].kind = "struct"
  IN [error |-> throwing,
      result |-> CASE type = Void -> "void"
                   [] type # Void /\ (throwing \/ IsAggregate(type)) -> "indirect"
                   [] OTHER -> "direct",
      receiver |-> CASE symbols[s].kind = "constructor" ->
                          IF struct THEN "construction" ELSE "none"
                     [] symbols[s].static -> "none"
                     [] OTHER -> IF struct THEN "readonly_value" ELSE "reference"]

-----------------------------------------------------------------------------
(* Descriptors *)

\* Mutant: the interface tables in declaration order.
ClassDescriptorUnsorted(i) ==
  [kind |-> syntax[i].kind, parent |-> files[i].base,
   errorRoot |-> syntax[i].kind = "error" /\ files[i].base = 0,
   size |-> layouts[i].size, align |-> layouts[i].align, refs |-> layouts[i].refs,
   virtuals |-> files[i].virtuals, box |-> 0,
   interfaces |-> [n \in DOMAIN files[i].implementations |->
     [id |-> syntax[files[i].implementations[n].interface].id,
      functions |-> files[i].implementations[n].functions]]]

\* lower_type_descriptor; the interface tables are sorted by identity.
ClassDescriptor(i) ==
  LET tables == ToSet(files[i].implementations)
      before(m) == {x \in tables : syntax[x.interface].id < syntax[m.interface].id}
      sorted(n) == CHOOSE m \in tables : Cardinality(before(m)) = n - 1
  IN [kind |-> syntax[i].kind, parent |-> files[i].base,
      errorRoot |-> syntax[i].kind = "error" /\ files[i].base = 0,
      size |-> layouts[i].size, align |-> layouts[i].align, refs |-> layouts[i].refs,
      virtuals |-> files[i].virtuals, box |-> 0,
      interfaces |-> [n \in DOMAIN files[i].implementations |->
        [id |-> syntax[sorted(n).interface].id, functions |-> sorted(n).functions]]]

\* lower_value_box_descriptor; add_type_descriptor gives every box the three
\* runtime functions, written -1 .. -3.
BoxDescriptor(i) ==
  LET value == TypeLayout(File(i))
      payload == AlignUp(Header, value.align)
      align == Larger(Pointer, value.align)
  IN [kind |-> "box", parent |-> Obj, errorRoot |-> FALSE,
      size |-> AlignUp(payload + value.size, align), align |-> align,
      refs |-> Shift(value.refs, payload), virtuals |-> <<-1, -2, -3>>,
      box |-> payload, interfaces |-> <<>>]

EmitDescriptors ==
  /\ phase = "abi" /\ DOMAIN layouts = FileIds
  /\ descriptors' = [i \in {j \in FileIds : ~IsInterface(j)} |->
       IF syntax[i].kind \in {"enum", "struct"} THEN BoxDescriptor(i) ELSE ClassDescriptor(i)]
  /\ phase' = "verify"
  /\ UNCHANGED <<syntax, files, symbols, errors, pass, layouts>>

-----------------------------------------------------------------------------
(* abi_verifier.cc and the call checks of mir_verifier.cc *)

Ascending(s) == \A n \in 1 .. Len(s) - 1 : s[n] < s[n + 1]

VerifyClassLayout(l) ==
  /\ Pow2(l.align) /\ l.header <= l.size /\ l.size % l.align = 0
  /\ \A n \in DOMAIN l.fields :
       LET t == TypeLayout(l.fields[n].type)
           before == IF n = 1 THEN l.header
                     ELSE l.fields[n-1].offset + TypeLayout(l.fields[n-1].type).size
       IN /\ l.fields[n].offset >= before /\ l.fields[n].offset % t.align = 0
          /\ l.fields[n].offset + t.size <= l.size

VerifyTypeDescriptor(i) ==
  LET d == descriptors[i] IN
  /\ d.size = layouts[i].size /\ d.align = layouts[i].align
  /\ Ascending(d.refs)
  /\ \A n \in DOMAIN d.refs : /\ d.refs[n] >= layouts[i].header /\ d.refs[n] % Pointer = 0
                              /\ d.refs[n] + Pointer <= layouts[i].size
  /\ \A n \in DOMAIN d.virtuals :
       LET f == symbols[d.virtuals[n]] IN
       f.kind = "function" /\ ~f.static /\ ~f.private /\ f.slot = n

VerifyInterfaceDispatches(i) ==
  LET d == descriptors[i] IN
  /\ Ascending([n \in DOMAIN d.interfaces |-> d.interfaces[n].id])
  /\ \A n \in DOMAIN d.interfaces :
       /\ \E c \in FileIds : /\ IsInterface(c) /\ syntax[c].id = d.interfaces[n].id
                             /\ Len(files[c].contract) = Len(d.interfaces[n].functions)
       /\ \A f \in ToSet(d.interfaces[n].functions) :
            symbols[f].kind = "function" /\ ~symbols[f].static /\ ~symbols[f].private

VerifyInheritance(i) ==
  LET d == descriptors[i]  b == files[i].base IN
  IF b = 0 THEN d.parent = 0 /\ (d.errorRoot <=> syntax[i].kind = "error")
  ELSE /\ d.parent = b /\ ~d.errorRoot
       /\ layouts[i].header = layouts[b].header /\ layouts[i].size >= layouts[b].size
       /\ layouts[i].align >= layouts[b].align
       /\ IsPrefix(layouts[b].fields, layouts[i].fields)

VerifyValueBox(i) ==
  LET d == descriptors[i]  value == TypeLayout(File(i)) IN
  /\ d.kind = "box" /\ d.parent = Obj /\ d.interfaces = <<>> /\ ~d.errorRoot
  /\ d.box >= Header /\ d.box + value.size <= d.size /\ d.box % value.align = 0
  /\ d.refs = Shift(value.refs, d.box)

VerifyFile(i) ==
  CASE syntax[i].kind = "struct" -> VerifyValueBox(i) /\ VerifyClassLayout(layouts[i])
    [] syntax[i].kind = "enum" -> VerifyValueBox(i) /\ layouts[i].size = 0
    [] IsInterface(i) -> files[i].base = 0 /\ layouts[i].fields = <<>>
    [] OTHER -> /\ VerifyClassLayout(layouts[i]) /\ VerifyTypeDescriptor(i)
                /\ VerifyInterfaceDispatches(i) /\ VerifyInheritance(i)

\* Calls of MIR: the statements of a callable with the symbol each names.
CallsOf(s) ==
  LET calls == {st \in ToSet(Statements(s)) : st.op # "throw"}
  IN  {[by |-> s, st |-> st, callee |-> Callee(symbols[s].file, st)] : st \in calls}
Calls == UNION {CallsOf(s) : s \in {c \in DOMAIN symbols : symbols[c].declared}}

\* lower_call and lower_constructor: how a call is dispatched.  Constructors
\* and field initializers suppress virtual dispatch on self.
\* Mutant: dispatch on self is never suppressed.
SuppressSelfNever(c) == FALSE
SuppressSelf(c) == symbols[c.by].kind = "constructor"
ThroughInterface(c) ==
  /\ c.st.op = "call" /\ TypeKind(c.st.t) = "interface"
  /\ ContractNamed(c.st.t.f, c.st.name) # {}
DispatchKind(c) ==
  IF ThroughInterface(c) THEN "interface"
  ELSE IF /\ symbols[c.callee].slot # 0 /\ c.st.op # "super"
          /\ ~(SuppressSelf(c) /\ c.st.op = "self")
  THEN "virtual"
  ELSE "direct"
InterfaceSlot(c) == IndexOf(c.callee, files[c.st.t.f].contract)

\* mir_verifier.cc, verify_instruction of a call.
VerifyMirCall(c) ==
  LET f == symbols[c.callee]
      virtual == f.slot # 0 /\ c.st.op # "super" /\ ~(SuppressSelf(c) /\ c.st.op = "self")
  IN CASE DispatchKind(c) = "interface" ->
            /\ c.st.op = "call" /\ IsInterface(c.st.t.f)
            /\ files[c.st.t.f].contract[InterfaceSlot(c)] = c.callee
       [] DispatchKind(c) = "virtual" -> virtual /\ ~f.static
       [] OTHER -> ~virtual

\* abi_verifier.cc, verify_body_calls: every callee has an ABI declaration.
VerifyAbiCall(c) == symbols[c.callee].declared

VerifyAbi ==
  /\ phase = "verify"
  /\ phase' = IF /\ \A i \in FileIds : VerifyFile(i)
                 /\ \A c \in Calls : VerifyMirCall(c) /\ VerifyAbiCall(c)
              THEN "run" ELSE "internal error"
  /\ UNCHANGED <<syntax, files, symbols, errors, pass, layouts, descriptors>>

AbiNext == LowerFileLayout \/ LayoutCycle \/ EmitDescriptors \/ VerifyAbi

=============================================================================
