---------------------------- MODULE ObjectRuntime ----------------------------
(***************************************************************************)
(* What the generated program does with the descriptors: runtime.cc checks *)
(* them, type tests walk them, calls are dispatched through them, and an   *)
(* object is constructed base first while its most-derived descriptor is   *)
(* already installed.                                                      *)
(***************************************************************************)
EXTENDS ObjectAbi

CONSTANT MaxFrames         \* bound on the depth of the call stack

VARIABLES
  object,    \* the class of the object under construction, 0 before
  frames,    \* its call stack: [s, at] with at the next statement; a
             \* constructor is at -1 before its base, at 0 before its fields
  begun      \* the classes whose field initializers have begun

runVars == <<object, frames, begun>>
vars == <<semaVars, abiVars, runVars>>

-----------------------------------------------------------------------------
(* runtime.cc *)

\* find_interface_dispatch: binary search for the lower bound; as many rounds
\* as there are interfaces empty the range.
Halved(d, id, range) ==
  LET middle == range.begin + ((range.end - range.begin) \div 2)
  IN IF range.begin >= range.end THEN range
     ELSE IF d.interfaces[middle + 1].id < id THEN [range EXCEPT !.begin = middle + 1]
     ELSE [range EXCEPT !.end = middle]
FindInterfaceDispatch(d, id) ==
  LET n == Len(d.interfaces)
      range[k \in 0 .. n] ==
        IF k = 0 THEN [begin |-> 0, end |-> n] ELSE Halved(d, id, range[k - 1])
      at == range[n].begin
  IN IF at = n \/ d.interfaces[at + 1].id # id THEN 0 ELSE at + 1

\* validate_value_layout for the payload of a box: value_layout_global writes
\* the fields of a struct, a nullable field as one payload after its flag.
ValidateValueLayout(i) ==
  LET l == TypeLayout(File(i)) IN
  /\ l.size # 0 /\ Pow2(l.align) /\ l.size % l.align = 0
  /\ syntax[i].kind = "struct" => VerifyClassLayout(layouts[i])
  /\ syntax[i].kind = "enum" => l.size = 4

ValidateTypeDescriptor(i) ==
  LET d == descriptors[i]
      p == descriptors[d.parent]
  IN /\ d.parent # 0 =>
          /\ d.parent # i /\ (p.kind = d.kind \/ d.parent = Obj)
          /\ p.size <= d.size /\ p.align <= d.align
          /\ Len(p.virtuals) <= Len(d.virtuals)
          /\ \A n \in DOMAIN p.interfaces :
               LET at == FindInterfaceDispatch(d, p.interfaces[n].id)
               IN  at # 0 /\ Len(d.interfaces[at].functions) = Len(p.interfaces[n].functions)
     /\ d.size >= Header + (IF d.errorRoot THEN Pointer ELSE 0) /\ Pow2(d.align) /\ d.align >= Pointer
     /\ d.kind = "box" <=> d.box # 0
     /\ d.box # 0 => /\ ValidateValueLayout(i) /\ d.box >= Header
                     /\ d.box % TypeLayout(File(i)).align = 0
                     /\ d.box + TypeLayout(File(i)).size <= d.size
     /\ Ascending([n \in DOMAIN d.interfaces |-> d.interfaces[n].id])
     /\ Ascending(d.refs)
     /\ \A n \in DOMAIN d.refs : /\ d.refs[n] >= Header /\ d.refs[n] % Pointer = 0
                                 /\ d.refs[n] + Pointer <= d.size

\* Mutant: only the object's own descriptor and its parent are compared.
ObjectIsTypeNear(d, t) ==
  IF t = RootError THEN descriptors[d].kind = "error"
  ELSE t.f = d \/ t.f = descriptors[d].parent

\* cloth_rt_object_is_type and cloth_rt_object_is_interface on an object of
\* descriptor d; RootError is the runtime's own descriptor.
ObjectIsType(d, t) ==
  IF t = RootError THEN descriptors[d].kind = "error"
  ELSE t.f = d \/ t.f \in Ancestors([i \in FileIds |->
                     IF i \in DOMAIN descriptors THEN descriptors[i].parent ELSE 0], d)
ObjectIsInterface(d, i) ==
  /\ descriptors[d].kind = "class"
  /\ FindInterfaceDispatch(descriptors[d], syntax[i].id) # 0

\* emit_type_condition
TypeCondition(d, t) ==
  IF TypeKind(t) = "object" THEN TRUE
  ELSE IF TypeKind(t) = "interface" THEN ObjectIsInterface(d, t.f)
  ELSE IF TypeKind(t) = "string" THEN FALSE
  ELSE ObjectIsType(d, t)

\* check_runtime_type_operation: the tests the analyzer lets through.
RuntimeTypeOperationAllowed(source, target) ==
  LET s == TypeKind(Element(source))  t == TypeKind(target)
      related == \/ IsFileClassSubtype(Bases, Element(source), target)
                 \/ IsFileClassSubtype(Bases, target, Element(source))
      implements(a, b) == a.k = "file" /\ IsIn(b.f, files[a.f].interfaces)
      open(a) == a.k = "file" /\ ~syntax[a.f].sealed
  IN /\ IsReference(source)
     /\ \/ IsBoxable(target)
        \/ t \in {"object", "string", "class", "error", "interface"}
     /\ \/ s = "object" \/ t = "object" \/ Element(source) = target
        \/ {s, t} \subseteq {"class", "error"} /\ related
        \/ s = "interface" /\ t = "interface"
        \/ s \in {"class", "error"} /\ t = "interface" /\
             (implements(Element(source), target) \/ open(Element(source)))
        \/ s = "interface" /\ t \in {"class", "error"} /\
             (implements(target, Element(source)) \/ open(target))

\* emit_call: the function an object of descriptor d runs for call c.
CallTarget(d, c) ==
  IF DispatchKind(c) = "virtual" THEN descriptors[d].virtuals[symbols[c.callee].slot]
  ELSE IF DispatchKind(c) = "interface"
  THEN LET at == FindInterfaceDispatch(descriptors[d], syntax[c.st.t.f].id)
       IN  IF at = 0 THEN 0 ELSE descriptors[d].interfaces[at].functions[InterfaceSlot(c)]
  ELSE c.callee

-----------------------------------------------------------------------------
(* Construction: emit_constructor_initializer and lower_constructor *)

IsConstructor(s) == symbols[s].kind = "constructor"
Top == Last(frames)
OwnerOf(s) == symbols[s].file
SetTop(at) == [frames EXCEPT ![Len(frames)] = [@ EXCEPT !.at = at]]
Push(fs, s) == Append(fs, [s |-> s, at |-> IF IsConstructor(s) THEN -1 ELSE 1])

\* The statements a frame runs: field initializers, then the body.
RunStatements(s) ==
  (IF IsConstructor(s) THEN FieldStatements(OwnerOf(s)) ELSE <<>>) \o symbols[s].body

\* A concrete class is instantiated through its constructor.
New ==
  /\ phase = "run" /\ frames = <<>>
  /\ \E i \in FileIds :
       /\ IsClass(i) /\ ~syntax[i].abstract /\ files[i].constructor # 0
       /\ object' = i
       /\ frames' = Push(<<>>, files[i].constructor)
       /\ begun' = {}
  /\ UNCHANGED <<semaVars, abiVars>>

RunBaseConstructor ==
  /\ frames # <<>> /\ Top.at = -1
  /\ frames' = IF symbols[Top.s].baseConstructor = 0 THEN SetTop(0)
               ELSE Push(SetTop(0), symbols[Top.s].baseConstructor)
  /\ UNCHANGED <<semaVars, abiVars, object, begun>>

InitializeFields ==
  /\ frames # <<>> /\ Top.at = 0
  /\ begun' = begun \cup {OwnerOf(Top.s)}
  /\ frames' = SetTop(1)
  /\ UNCHANGED <<semaVars, abiVars, object>>

\* A call on self runs its target on this object; a call on another receiver
\* leaves this object alone; an error ends the construction.
CurrentStatement == RunStatements(Top.s)[Top.at]
CurrentCall == [by |-> Top.s, st |-> CurrentStatement,
                callee |-> Callee(OwnerOf(Top.s), CurrentStatement)]

RunStatement ==
  /\ frames # <<>> /\ Top.at \in DOMAIN RunStatements(Top.s)
  /\ frames' = IF CurrentStatement.op = "throw" THEN <<>>
               ELSE IF CurrentStatement.op = "call" \/ Len(frames) = MaxFrames
               THEN SetTop(Top.at + 1)
               ELSE Push(SetTop(Top.at + 1), CallTarget(object, CurrentCall))
  /\ UNCHANGED <<semaVars, abiVars, object, begun>>

Return ==
  /\ frames # <<>> /\ Top.at = Len(RunStatements(Top.s)) + 1
  /\ frames' = Front(frames)
  /\ UNCHANGED <<semaVars, abiVars, object, begun>>

-----------------------------------------------------------------------------
Init ==
  /\ SemaInit
  /\ layouts = <<>> /\ descriptors = <<>>
  /\ object = 0 /\ frames = <<>> /\ begun = {}

Next ==
  \/ SemaNext /\ UNCHANGED <<abiVars, runVars>>
  \/ AbiNext /\ UNCHANGED runVars
  \/ New \/ RunBaseConstructor \/ InitializeFields \/ RunStatement \/ Return

Spec == Init /\ [][Next]_vars

-----------------------------------------------------------------------------
(* What the tables promise.  The properties look at a program once it is    *)
(* linked, before it constructs an object.                                  *)

Linked == phase = "run" /\ object = 0
Concrete == {i \in FileIds : IsClass(i) /\ ~syntax[i].abstract}
Names == {symbols[s].name : s \in {c \in DOMAIN symbols : symbols[c].kind = "function"}}

\* The calls a third file could write: any name on any nominal reference.
PossibleCalls ==
  {c \in {[by |-> 1, st |-> [op |-> "call", t |-> File(i), name |-> n],
           callee |-> MemberOf(File(i), n, 0)] :
             i \in {j \in FileIds : IsClass(j) \/ IsInterface(j)}, n \in Names} :
     c.callee # 0}
Receivers(t) == {d \in Concrete : IsAssignable(Bases, Interfaces, t, File(d))}

\* The declaration the language promises: the nearest public instance function
\* of the name on the way from the object's class to Object.
MostDerived(d, name) ==
  LET chain == Chain(Parents, d)
      own(i) == {f \in ToSet(files[i].functions) : symbols[f].name = name
                   /\ ~symbols[f].private /\ ~symbols[f].static}
      at == {k \in 0 .. Len(syntax) : chain[k] # 0 /\ own(chain[k]) # {}}
  IN  OneOf(own(chain[Min(at)]))

\* A call through a class or an interface reaches the most-derived override of
\* the object's class, which has a body, returns what the declaration called
\* returns and throws nothing that declaration does not.
DispatchExact ==
  Linked => \A c \in PossibleCalls : ~symbols[c.callee].static =>
    \A d \in Receivers(c.st.t) :
      LET target == CallTarget(d, c) IN
      /\ target = MostDerived(d, c.st.name)
      /\ ~symbols[target].abstract
      /\ IsOverrideReturnCompatible(Bases, Interfaces, symbols[c.callee].type,
                                    symbols[target].type)
      /\ ThrowsSetCovers(Bases, symbols[c.callee].throws, symbols[target].throws)

\* Every function a call, or a callable, may run, over all objects of the program.
RunByCall(c) ==
  LET receivers == IF c.st.op = "call" THEN Receivers(c.st.t)
                   ELSE Receivers(File(symbols[c.by].file))
  IN  IF DispatchKind(c) = "direct" THEN {c.callee}
      ELSE {CallTarget(d, c) : d \in receivers}
MayRun(s) ==
  (UNION {RunByCall(c) : c \in CallsOf(s)}) \cup ({symbols[s].baseConstructor} \ {0})

\* Errors are checked statically, yet no error escapes a callable at run time,
\* through overrides, interfaces, base constructors, field initializers or
\* recursion between inferred functions, that its contract does not cover.
EffectsSound ==
  Linked =>
    LET All == {s \in DOMAIN symbols : symbols[s].declared}
        escaping[k \in Nat] ==
          [s \in All |-> IF k = 0 THEN DirectErrors(s)
             ELSE escaping[k - 1][s] \cup UNION {escaping[k - 1][f] : f \in MayRun(s)}]
        last == escaping[Len(symbols)]
    IN \A s \in All : ThrowsSetCovers(Bases, symbols[s].throws, last[s])

\* The words of a value that hold references, from its declaration; words are
\* those of the structs found so far.
FieldWords(words, f) ==
  LET e == InlineStruct(f.type) IN
  CASE IsReference(f.type) -> {f.offset}
    [] e # 0 -> {f.offset + (IF f.type.n THEN layouts[e].align ELSE 0) + w : w \in words[e]}
    [] OTHER -> {}
ReferenceWords ==
  LET words[k \in 0 .. Len(syntax)] ==
        [i \in DOMAIN layouts |-> IF k = 0 THEN {} ELSE
           UNION {FieldWords(words[k - 1], layouts[i].fields[n]) : n \in DOMAIN layouts[i].fields}]
  IN  words[Len(syntax)]

\* The collector scans exactly the references of every object, fields never
\* overlap, a derived object is laid out as its base is, and the runtime
\* accepts every descriptor the compiler emits.
LayoutSound ==
  Linked =>
    LET words == ReferenceWords IN
    /\ \A i \in FileIds : LET l == layouts[i] IN
         /\ ToSet(l.refs) = words[i]
         /\ \A m, n \in DOMAIN l.fields : m < n =>
              l.fields[m].offset + TypeLayout(l.fields[m].type).size <= l.fields[n].offset
         /\ \A m \in DOMAIN l.fields :
              /\ l.fields[m].offset >= l.header
              /\ l.fields[m].offset + TypeLayout(l.fields[m].type).size <= l.size
              /\ l.fields[m].offset % TypeLayout(l.fields[m].type).align = 0
         /\ files[i].base # 0 => \A f \in ToSet(layouts[files[i].base].fields) :
              f \in ToSet(l.fields)
    /\ \A i \in DOMAIN descriptors : ValidateTypeDescriptor(i)

\* A type test answers what assignability promises.  (An error tested for an
\* interface it implements is left out: cloth_rt_object_is_interface answers
\* no for every object that is not a class, see the README.)
TypeTestsAgree ==
  Linked => \A d \in DOMAIN descriptors : \A t \in {File(i) : i \in FileIds} \cup {RootError} :
    /\ ~(IsClass(d) /\ syntax[d].abstract)
    /\ RuntimeTypeOperationAllowed(File(Obj), t)
    /\ ~(syntax[d].kind = "error" /\ TypeKind(t) = "interface")
    => (TypeCondition(d, t) <=> IsAssignable(Bases, Interfaces, t, File(d)))

\* An accepted program passes the MIR and ABI verifiers, unless it calls a
\* function through a contract merged from two interfaces.
LoweringVerifies ==
  phase = "internal error" => \E c \in Calls : ~symbols[c.callee].declared

\* Objects are initialized base first, and a call a constructor or a field
\* initializer makes on self runs code of a class whose turn has come.
ConstructionOrder ==
  /\ \A i \in begun : Ancestors(Bases, i) \subseteq begun
  /\ \A n \in 2 .. Len(frames) :
       IsConstructor(frames[n - 1].s) /\ ~IsConstructor(frames[n].s)
         => OwnerOf(frames[n].s) \in begun

\* docs/semantic_analysis.md:266: "partially initialized derived state cannot
\* be reached": no function runs before the fields of its class.
PartialStateUnreachable ==
  \A n \in 1 .. Len(frames) :
    ~IsConstructor(frames[n].s) => OwnerOf(frames[n].s) \in begun

=============================================================================
