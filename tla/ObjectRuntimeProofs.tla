------------------------ MODULE ObjectRuntimeProofs ------------------------
(***************************************************************************)
(* Proofs about ObjectRuntime, for every program the analyzer accepts:     *)
(*   - the invariant of the analysis holds throughout (SemaInv);           *)
(*   - calls reach the most-derived override, through slots and through    *)
(*     the searched interface tables (DispatchExact);                      *)
(*   - no error escapes its contract (EffectsSound);                       *)
(*   - type tests agree with assignability (TypeTestsAgree);               *)
(*   - construction runs base first (ConstructionOrder);                   *)
(*   - every object is laid out as its fields, its base and the collector  *)
(*     need it (LayoutSound), and the verifiers accept what was lowered    *)
(*     (LoweringVerifies).                                                 *)
(* ClassHierarchyProofs holds the proofs about the passes of the analysis. *)
(***************************************************************************)
EXTENDS ObjectRuntime, ClassHierarchyProofs, FunctionTheorems

-----------------------------------------------------------------------------
(* The tables after the analysis *)

\* Nothing is claimed of a program before its first pass.
LEMMA SemaStarts ==
  ASSUME SemaInit
  PROVE  SemaInv
<1>1. WellFormedProgram(syntax) /\ phase = "relationships" /\ errors = {} /\ pass = NewPass
  BY DEF SemaInit
<1>2. DOMAIN pass = {"complete", "at", "progress"} /\ pass.at \in Nat \ {0} /\ pass.complete = {}
  BY <1>1 DEF NewPass
<1>3. PassFacts
  BY <1>1, <1>2 DEF PassFacts, AfterRelationships, AfterMembers, AfterContracts, AfterClosures,
                    AfterOverrides, AfterConformance, AfterDefinitions, AfterEffects
<1> QED BY <1>1, <1>2, <1>3 DEF SemaInv

\* Layouts, verification and execution leave what the analysis found.
LEMMA SemaPersists ==
  ASSUME SemaInv, [Next]_vars
  PROVE  SemaInv'
<1>1. CASE SemaNext
  BY <1>1, SemaStep
<1>2. CASE AbiNext
  <2>1. UNCHANGED <<syntax, files, symbols, pass>> 
    BY <1>2 DEF AbiNext, LowerFileLayout, LayoutCycle, EmitDescriptors, VerifyAbi
  <2>2. \/ errors' = errors /\ Advances
        \/ errors' # {} /\ phase' = "rejected"
    <3>1. CASE LowerFileLayout
      BY <2>1, <3>1 DEF LowerFileLayout, Advances
    <3>2. CASE LayoutCycle
      BY <3>2 DEF LayoutCycle
    <3>3. CASE EmitDescriptors
      BY <2>1, <3>3 DEF EmitDescriptors, Advances
    <3>4. CASE VerifyAbi
      BY <2>1, <3>4 DEF VerifyAbi, Advances
    <3> QED BY <1>2, <3>1, <3>2, <3>3, <3>4 DEF AbiNext
  <2>3. CASE errors' = errors /\ Advances
    BY <2>1, <2>3, SemaInvStable
  <2>4. CASE errors' # {} /\ phase' = "rejected"
    <3>1. WellFormedProgram(syntax)'
      BY <2>1 DEF SemaInv, WellFormedProgram, DeclarationsOf, FieldsOf, ConstructorsOf, FunctionsOf,
                  StatementsOf, TypesOf
    <3> QED BY <2>1, <2>4, <3>1 DEF SemaInv
  <2> QED BY <2>2, <2>3, <2>4
<1>3. CASE UNCHANGED semaVars
  <2>1. UNCHANGED <<syntax, files, symbols, errors>> /\ Advances
    BY <1>3 DEF semaVars, Advances
  <2> QED BY <2>1, SemaInvStable
<1>4. (New \/ RunBaseConstructor \/ InitializeFields \/ RunStatement \/ Return) => UNCHANGED semaVars
  BY DEF New, RunBaseConstructor, InitializeFields, RunStatement, Return
<1> QED BY <1>1, <1>2, <1>3, <1>4 DEF Next, vars

\* A program without an error has the hierarchy, tables, contracts and callees
\* its declarations promise, from the pass that establishes each of them on.
THEOREM SemanticsEstablished == Spec => []SemaInv
<1>1. Init => SemaInv
  BY SemaStarts DEF Init
<1>2. SemaInv /\ [Next]_vars => SemaInv'
  BY SemaPersists
<1> QED BY <1>1, <1>2, PTL DEF Spec

-----------------------------------------------------------------------------
(* Accepted programs: types that stand for each other *)

\* What the passes established once the analysis has accepted a program.
Accepted ==
  /\ WellFormedProgram(syntax) /\ HierarchyFacts /\ SymbolFacts
  /\ \A i \in InterfaceIds : ContractFacts(i, InterfaceIds)
  /\ \A i \in ClassIds : ClassFacts(i)
  /\ \A i \in ClassIds : TableFacts(i)
  /\ \A i \in ClassIds : ImplementationFacts(i)
  /\ DefinitionFacts
  /\ EffectFacts

\* A program that is laid out, verified or run was accepted.
LEMMA AcceptedPrograms ==
  ASSUME SemaInv, phase \in {"abi", "verify", "run"}
  PROVE  Accepted
BY DEF SemaInv, PassFacts, Accepted, AfterRelationships, AfterMembers, AfterContracts, AfterClosures,
       AfterOverrides, AfterConformance, AfterDefinitions, AfterEffects

\* The classes above a class are classes of its kind, up to Object, and
\* implement nothing that it does not.
LEMMA AncestorsAgree ==
  ASSUME Accepted, NEW i \in ClassIds, NEW a \in Ancestors(Bases, i)
  PROVE  /\ a \in ClassIds /\ Closure(a) \subseteq Closure(i)
         /\ a # Obj => syntax[a].kind = syntax[i].kind
<1> DEFINE chain == Chain(Bases, i)
           Fine(x) == x # 0 => /\ x \in ClassIds /\ Closure(x) \subseteq Closure(i)
                               /\ x # Obj => syntax[x].kind = syntax[i].kind
           S == {k \in Nat : ~Fine(chain[k])}
<1>1. chain[0] = i /\ \A k \in Nat : chain[k + 1] = IF chain[k] = 0 THEN 0 ELSE Bases[chain[k]]
  BY ChainValues
<1>2. WellFormedProgram(syntax) /\ HierarchyFacts
  BY DEF Accepted
<1>3. /\ \A j \in FileIds : Bases[j] = files[j].base /\ files[j].base \in 0..Len(syntax)
      /\ Len(Bases) = Len(syntax) /\ Len(syntax) \in Nat /\ FileIds = 1..Len(syntax)
  BY <1>2, BasesLink, ProgramTyped DEF HierarchyFacts, FileTyped
<1> HIDE DEF chain
<1>4. 0 \notin S
  BY <1>1
<1>5. ASSUME NEW k \in Nat, k + 1 \in S PROVE k \in S
  <2> SUFFICES ASSUME Fine(chain[k]), chain[k + 1] # 0 PROVE Fine(chain[k + 1])
    BY <1>5
  <2> DEFINE x == chain[k]
  <2>1. x # 0 /\ chain[k + 1] = Bases[x]
    BY <1>1
  <2> HIDE DEF x
  <2>2. x \in ClassIds /\ Closure(x) \subseteq Closure(i) /\ (x # Obj => syntax[x].kind = syntax[i].kind)
    BY <2>1 DEF x
  <2>3. x \in FileIds /\ files[x].base # 0 /\ chain[k + 1] = files[x].base
    BY <1>3, <2>1, <2>2 DEF ClassIds
  <2>4. files[x].base \in FileIds
    BY <1>3, <2>3
  <2>5. IsClass(files[x].base) /\ (files[x].base # Obj => syntax[files[x].base].kind = syntax[x].kind)
    BY <1>2, <2>3 DEF HierarchyFacts, BaseFits
  <2>6. Closure(files[x].base) \subseteq Closure(x)
    BY <2>2, <2>3 DEF Accepted, ClassFacts
  <2>7. x # Obj
    BY <1>2, <2>3 DEF HierarchyFacts
  <2> QED BY <2>2, <2>3, <2>4, <2>5, <2>6, <2>7 DEF ClassIds
<1>6. S = {}
  <2>1. S \in SUBSET Nat
    OBVIOUS
  <2> HIDE DEF S
  <2> QED BY <1>4, <1>5, <2>1, NoException
<1>7. PICK k \in 1..Len(syntax) : a = chain[k]
  BY <1>3 DEF Ancestors, chain
<1>8. a # 0
  BY DEF Ancestors
<1> QED BY <1>3, <1>6, <1>7, <1>8

\* A class that derives from a derived class derives from its base.
LEMMA SubtypeTransitive ==
  ASSUME Accepted, NEW z \in TypesOf(syntax), NEW y \in TypesOf(syntax), NEW x \in TypesOf(syntax),
         TypeKind(z) \in {"class", "error"}, TypeKind(y) \in {"class", "error"},
         TypeKind(x) \in {"class", "error"},
         IsFileClassSubtype(Bases, z, y), IsFileClassSubtype(Bases, y, x)
  PROVE  IsFileClassSubtype(Bases, z, x)
<1>1. WellFormedProgram(syntax) /\ HierarchyFacts
  BY DEF Accepted
<1>2. \A t \in TypesOf(syntax) : t.k = "file" => t.f \in FileIds
  BY DEF TypesOf, ScalarNames, FileIds
<1>3. \A t \in {x, y, z} : t.k = "file" => TypeKind(t) = syntax[t.f].kind /\ t.f # Obj /\ IsClass(t.f)
  BY DEF TypeKind, IsClass
<1>4. CASE z = y \/ y = x \/ (TypeKind(z) = "error" /\ x = RootError)
  BY <1>4 DEF IsFileClassSubtype
<1>5. CASE z # y /\ y # x /\ ~(TypeKind(z) = "error" /\ x = RootError)
  <2>1. RootError.k # "file"
    BY DEF RootError, Type
  <2>2. CASE TypeKind(y) = "error" /\ x = RootError
    <3>1. z.k = "file" /\ y.k = "file" /\ y.f \in Ancestors(Bases, z.f)
      BY <1>5, <2>2 DEF IsFileClassSubtype
    <3>2. z.f \in ClassIds /\ y.f # Obj
      BY <1>2, <1>3, <3>1 DEF ClassIds
    <3>3. syntax[y.f].kind = syntax[z.f].kind
      BY <3>1, <3>2, AncestorsAgree
    <3> QED BY <1>3, <1>5, <2>2, <3>1, <3>3
  <2>3. CASE ~(TypeKind(y) = "error" /\ x = RootError)
    <3>1. y.k = "file" /\ x.k = "file" /\ x.f \in Ancestors(Bases, y.f)
      BY <1>5, <2>3 DEF IsFileClassSubtype
    <3>2. z.k = "file" /\ y.f \in Ancestors(Bases, z.f)
      BY <1>5, <2>1, <3>1 DEF IsFileClassSubtype
    <3>3. z.f \in FileIds
      BY <1>2, <3>2
    <3>4. x.f \in Ancestors(Bases, z.f)
      <4>1. /\ LinkTable(Bases) /\ Grounded(Bases) /\ z.f \in 1..Len(Bases)
        BY <1>1, <3>3, BasesLink DEF HierarchyFacts, FileIds
      <4> QED BY <3>1, <3>2, <4>1, AncestorsTransitive
    <3> QED BY <3>1, <3>2, <3>4 DEF IsFileClassSubtype
  <2> QED BY <2>2, <2>3
<1> QED BY <1>4, <1>5

\* So an error that a covered error covers is covered.
LEMMA ThrowsTransitive ==
  ASSUME Accepted, NEW A, NEW B, NEW C, \A t \in A \cup B \cup C : IsError(t),
         ThrowsSetCovers(Bases, A, B), ThrowsSetCovers(Bases, B, C)
  PROVE  ThrowsSetCovers(Bases, A, C)
<1> SUFFICES ASSUME NEW c \in C PROVE \E a \in A : IsErrorSubtype(Bases, c, a)
  BY DEF ThrowsSetCovers
<1>1. PICK b \in B : IsErrorSubtype(Bases, c, b)
  BY DEF ThrowsSetCovers
<1>2. PICK a \in A : IsErrorSubtype(Bases, b, a)
  BY DEF ThrowsSetCovers
<1>3. IsFileClassSubtype(Bases, c, a)
  BY <1>1, <1>2, SubtypeTransitive DEF IsErrorSubtype, IsError
<1> QED BY <1>1, <1>2, <1>3 DEF IsErrorSubtype

\* The interfaces of an interface that a type implements are its own.
LEMMA ClosureClosed ==
  ASSUME Accepted, NEW i \in FileIds, IsClass(i) \/ IsInterface(i), NEW x \in Closure(i)
  PROVE  IsInterface(x) /\ Closure(x) \subseteq Closure(i)
<1>1. CASE IsClass(i)
  BY <1>1 DEF Accepted, ClassIds, ClassFacts
<1>2. CASE IsInterface(i)
  BY <1>2 DEF Accepted, InterfaceIds, ContractFacts
<1> QED BY <1>1, <1>2

\* What stands for y stands for whatever y stands for: types without null.
LEMMA AssignableNonNullTransitive ==
  ASSUME Accepted, NEW z \in TypesOf(syntax), NEW y \in TypesOf(syntax), NEW x \in TypesOf(syntax),
         IsAssignableNonNull(Bases, Interfaces, x, y), IsAssignableNonNull(Bases, Interfaces, y, z)
  PROVE  IsAssignableNonNull(Bases, Interfaces, x, z)
<1>1. \A t \in TypesOf(syntax) : t.k = "file" => t.f \in FileIds
  BY DEF TypesOf, ScalarNames, FileIds
<1>2. \A j \in FileIds : Interfaces[j] = files[j].interfaces
  BY DEF Interfaces
<1>3. \A j \in FileIds : \A e : IsIn(e, Interfaces[j]) <=> e \in Closure(j)
  BY <1>2 DEF IsIn, Closure, ToSet
<1>4. \A t \in {x, y, z} : t.k = "file" /\ TypeKind(t) \in {"class", "error", "interface"} =>
        TypeKind(t) = syntax[t.f].kind /\ t.f \in FileIds
  BY <1>1 DEF TypeKind
<1>5. SUFFICES ASSUME x # y, y # z
               PROVE  IsAssignableNonNull(Bases, Interfaces, x, z)
  OBVIOUS
<1>6. CASE TypeKind(x) \in {"class", "error"}
  <2>1. TypeKind(y) \in {"class", "error"} /\ IsFileClassSubtype(Bases, y, x)
    BY <1>5, <1>6 DEF IsAssignableNonNull
  <2>2. TypeKind(z) \in {"class", "error"} /\ IsFileClassSubtype(Bases, z, y)
    BY <1>5, <2>1 DEF IsAssignableNonNull
  <2>3. IsFileClassSubtype(Bases, z, x)
    BY <1>6, <2>1, <2>2, SubtypeTransitive
  <2> QED BY <1>6, <2>2, <2>3 DEF IsAssignableNonNull
<1>7. CASE TypeKind(x) = "interface"
  <2>1. TypeKind(y) \in {"class", "error", "interface"} /\ y.k = "file" /\ IsIn(x.f, Interfaces[y.f])
    BY <1>5, <1>7 DEF IsAssignableNonNull
  <2>2. y.f \in FileIds /\ x.f \in Closure(y.f)
    BY <1>3, <1>4, <2>1
  <2>3. z.k = "file" /\ TypeKind(z) \in {"class", "error", "interface"} /\ z.f \in FileIds
        /\ Closure(y.f) \subseteq Closure(z.f)
    <3>1. CASE TypeKind(y) \in {"class", "error"}
      <4>1. TypeKind(z) \in {"class", "error"} /\ IsFileClassSubtype(Bases, z, y)
        BY <1>5, <3>1 DEF IsAssignableNonNull
      <4>2. z.k = "file" /\ y.f \in Ancestors(Bases, z.f)
        BY <1>5, <2>1, <4>1 DEF IsFileClassSubtype, RootError, Type
      <4>3. z.f \in ClassIds
        BY <1>4, <4>1, <4>2 DEF ClassIds, IsClass
      <4>4. Closure(y.f) \subseteq Closure(z.f)
        BY <4>2, <4>3, AncestorsAgree
      <4> QED BY <4>1, <4>2, <4>3, <4>4 DEF ClassIds
    <3>2. CASE TypeKind(y) = "interface"
      <4>1. TypeKind(z) \in {"class", "error", "interface"} /\ z.k = "file" /\ IsIn(y.f, Interfaces[z.f])
        BY <1>5, <3>2 DEF IsAssignableNonNull
      <4>2. z.f \in FileIds /\ (IsClass(z.f) \/ IsInterface(z.f))
        BY <1>4, <4>1 DEF IsClass, IsInterface
      <4> QED BY <1>3, <4>1, <4>2, ClosureClosed
    <3> QED BY <2>1, <3>1, <3>2
  <2>4. IsIn(x.f, Interfaces[z.f])
    BY <1>3, <2>2, <2>3
  <2> QED BY <1>7, <2>3, <2>4 DEF IsAssignableNonNull
<1>8. CASE TypeKind(x) = "object"
  <2>1. TypeKind(y) \in {"string", "class", "error", "interface", "enum", "struct"}
    BY <1>5, <1>8 DEF IsAssignableNonNull, IsBoxable
  <2>2. TypeKind(z) \in {"class", "error", "interface"}
    BY <1>5, <2>1 DEF IsAssignableNonNull
  <2> QED BY <1>8, <2>2 DEF IsAssignableNonNull
<1> QED BY <1>5, <1>6, <1>7, <1>8 DEF IsAssignableNonNull

\* And of an override of an override: return types.
LEMMA ReturnTransitive ==
  ASSUME Accepted, NEW a \in TypesOf(syntax), NEW b \in TypesOf(syntax), NEW c \in TypesOf(syntax),
         IsOverrideReturnCompatible(Bases, Interfaces, a, b),
         IsOverrideReturnCompatible(Bases, Interfaces, b, c)
  PROVE  IsOverrideReturnCompatible(Bases, Interfaces, a, c)
<1>1. SUFFICES ASSUME a # b, b # c, a # c
               PROVE  IsOverrideReturnCompatible(Bases, Interfaces, a, c)
  BY DEF IsOverrideReturnCompatible
<1>2. /\ IsReference(a) /\ IsReference(c)
      /\ IsAssignable(Bases, Interfaces, a, b) /\ IsAssignable(Bases, Interfaces, b, c)
  BY <1>1 DEF IsOverrideReturnCompatible
<1>3. \A t \in TypesOf(syntax) : Element(t) \in TypesOf(syntax) /\ (~t.n => Element(t) = t) /\ t.n \in BOOLEAN
  BY DEF TypesOf, Element
<1>4. \A x, y, z \in TypesOf(syntax) :
        IsAssignableNonNull(Bases, Interfaces, x, y) /\ IsAssignableNonNull(Bases, Interfaces, y, z)
          => IsAssignableNonNull(Bases, Interfaces, x, z)
  BY AssignableNonNullTransitive
<1>5. IsAssignable(Bases, Interfaces, a, c)
  <2>1. a # Void /\ c # Void
    BY <1>2 DEF IsAssignable
  <2>2. CASE ~a.n
    <3>1. ~b.n /\ ~c.n /\ IsAssignableNonNull(Bases, Interfaces, a, b)
          /\ IsAssignableNonNull(Bases, Interfaces, b, c)
      BY <1>1, <1>2, <2>2 DEF IsAssignable
    <3> QED BY <1>4, <2>1, <2>2, <3>1 DEF IsAssignable
  <2>3. CASE a.n
    <3>1. IsAssignableNonNull(Bases, Interfaces, Element(a), Element(b))
      BY <1>1, <1>2, <2>3 DEF IsAssignable
    <3>2. IsAssignableNonNull(Bases, Interfaces, Element(b), Element(c))
      <4>1. CASE b.n
        BY <1>1, <1>2, <4>1 DEF IsAssignable
      <4>2. CASE ~b.n
        <5>1. ~c.n /\ IsAssignableNonNull(Bases, Interfaces, b, c)
          BY <1>1, <1>2, <4>2 DEF IsAssignable
        <5> QED BY <1>3, <4>2, <5>1
      <4> QED BY <4>1, <4>2
    <3>3. IsAssignableNonNull(Bases, Interfaces, Element(a), Element(c))
      BY <1>3, <1>4, <3>1, <3>2
    <3> QED BY <2>1, <2>3, <3>3 DEF IsAssignable
  <2> QED BY <2>2, <2>3
<1> QED BY <1>2, <1>5 DEF IsOverrideReturnCompatible

\* A function may stand where one stands that may stand for a third.
LEMMA ReplacesTransitive ==
  ASSUME Accepted, NEW f \in PublicInstance, NEW g \in PublicInstance, NEW h \in PublicInstance,
         Replaces(f, g), Replaces(g, h)
  PROVE  Replaces(f, h)
<1>1. \A s \in {f, g, h} : symbols[s].type \in TypesOf(syntax) /\ \A t \in symbols[s].throws : IsError(t)
  BY DEF Accepted, SymbolFacts, WellTyped, PublicInstance
<1>2. IsOverrideReturnCompatible(Bases, Interfaces, symbols[h].type, symbols[f].type)
  BY <1>1, ReturnTransitive DEF Replaces
<1>3. ThrowsSetCovers(Bases, symbols[h].throws, symbols[f].throws)
  BY <1>1, ThrowsTransitive DEF Replaces
<1> QED BY <1>2, <1>3 DEF Replaces

-----------------------------------------------------------------------------
(* The slots of a class *)

\* What the table of class d says of function f, declared k classes above.
Below(d, k, f) ==
  \E j \in 0..(k - 1) : \E g \in Own(Chain(Parents, d)[j]) \cap PublicInstance :
    symbols[g].name = symbols[f].name
SlotKept(d, k, f) ==
  /\ symbols[f].slot \in DOMAIN files[d].virtuals
  /\ Replaces(files[d].virtuals[symbols[f].slot], f)
  /\ ~Below(d, k, f) => files[d].virtuals[symbols[f].slot] = f

\* A function keeps its slot in every class below its own; only functions that
\* may stand for it take it, and only those declared below it.
LEMMA SlotsKept ==
  ASSUME Accepted
  PROVE  \A k \in Nat : \A d \in ClassIds : \A f \in PublicInstance :
           Chain(Parents, d)[k] # 0 /\ f \in Own(Chain(Parents, d)[k]) => SlotKept(d, k, f)
<1> DEFINE Fine(k) == \A d \in ClassIds : \A f \in PublicInstance :
             Chain(Parents, d)[k] # 0 /\ f \in Own(Chain(Parents, d)[k]) => SlotKept(d, k, f)
           S == {k \in Nat : ~Fine(k)}
<1>1. WellFormedProgram(syntax) /\ HierarchyFacts /\ SymbolFacts /\ \A d \in ClassIds : TableFacts(d)
  BY DEF Accepted
<1>2. \A d \in ClassIds : /\ Chain(Parents, d)[0] = d /\ d \in FileIds /\ d # 0
                          /\ Chain(Parents, d)[1] = Parents[d]
  <2> SUFFICES ASSUME NEW d \in ClassIds
               PROVE  /\ Chain(Parents, d)[0] = d /\ d \in FileIds /\ d # 0
                      /\ Chain(Parents, d)[1] = Parents[d]
    OBVIOUS
  <2>1. d \in FileIds /\ d # 0
    BY <1>1, ProgramTyped DEF ClassIds
  <2>2. Chain(Parents, d)[0] = d /\ Chain(Parents, d)[0 + 1] = Parents[d]
    BY <2>1, ChainValues
  <2> QED BY <2>1, <2>2
<1>3. \A d \in ClassIds : files[d].virtuals \in Seq(Nat)
  BY <1>1 DEF HierarchyFacts, FileTyped, ClassIds
<1>4. 0 \notin S
  <2> SUFFICES ASSUME NEW d \in ClassIds, NEW f \in PublicInstance, f \in Own(d)
               PROVE  SlotKept(d, 0, f)
    BY <1>2
  <2>1. /\ symbols[f].slot \in DOMAIN files[d].virtuals
        /\ files[d].virtuals[symbols[f].slot] = f
    BY <1>1 DEF TableFacts
  <2> QED BY <1>1, <2>1, ReplacesItself DEF SlotKept
<1>5. ASSUME NEW k \in Nat, k + 1 \in S PROVE k \in S
  <2> SUFFICES ASSUME Fine(k), NEW d \in ClassIds, NEW f \in PublicInstance,
                      Chain(Parents, d)[k + 1] # 0, f \in Own(Chain(Parents, d)[k + 1])
               PROVE  SlotKept(d, k + 1, f)
    BY <1>5
  <2> DEFINE p == Parents[d]
             n == symbols[f].slot
             table == files[d].virtuals
  <2>1. Chain(Parents, d)[1] = p /\ \A j \in Nat : Chain(Parents, d)[1 + j] = Chain(Parents, p)[j]
    <3>1. Chain(Parents, d)[1] = p
      BY <1>2
    <3>2. \A j \in Nat : Chain(Parents, d)[1 + j] = Chain(Parents, Chain(Parents, d)[1])[j]
      BY ChainShift
    <3> QED BY <3>1, <3>2
  <2>2. p # 0
    <3>1. p = 0 => Chain(Parents, d)[1 + k] = 0
      BY <2>1, ChainStaysEnded
    <3> QED BY <3>1
  <2>3. p \in ClassIds
    BY <1>1, <1>2, <2>2, ParentsLink
  <2>4. Chain(Parents, p)[k] # 0 /\ f \in Own(Chain(Parents, p)[k])
    BY <2>1
  <2>5. SlotKept(p, k, f)
    BY <2>3, <2>4
  <2>6. InheritedTable(d) = files[p].virtuals
    BY <2>2 DEF InheritedTable
  <2>7. n \in DOMAIN files[p].virtuals /\ Replaces(files[p].virtuals[n], f)
    BY <2>5 DEF SlotKept
  <2>8. n \in DOMAIN table /\ EntryFits(d, n)
    <3>1. Len(files[p].virtuals) <= Len(table)
      BY <1>1, <2>6 DEF TableFacts
    <3>2. n \in DOMAIN table
      BY <1>3, <2>3, <2>7, <3>1
    <3> QED BY <1>1, <3>2 DEF TableFacts
  <2> PICK g : g = files[p].virtuals[n]
    OBVIOUS
  <2> PICK h : h = table[n]
    OBVIOUS
  <2>9. h \in PublicInstance /\ Replaces(h, g) /\ (h = g \/ h \in Own(d))
    BY <2>6, <2>7, <2>8 DEF EntryFits
  <2>10. g \in PublicInstance
    BY <1>1, <2>3, <2>7 DEF TableFacts, EntryFits
  <2>11. Replaces(h, f)
    BY <2>7, <2>9, <2>10, ReplacesTransitive
  <2>12. ASSUME ~Below(d, k + 1, f) PROVE h = f
    <3>1. ~Below(p, k, f)
      <4> SUFFICES ASSUME NEW j \in 0..(k - 1), NEW e \in Own(Chain(Parents, p)[j]) \cap PublicInstance,
                          symbols[e].name = symbols[f].name
                   PROVE  FALSE
        BY DEF Below
      <4>1. Chain(Parents, d)[1 + j] = Chain(Parents, p)[j] /\ 1 + j \in 0..(k + 1 - 1)
        BY <2>1
      <4> QED BY <2>12, <4>1 DEF Below
    <3>2. g = f
      BY <2>5, <3>1 DEF SlotKept
    <3>3. h \notin Own(d)
      <4> SUFFICES ASSUME h \in Own(d) PROVE FALSE
        OBVIOUS
      <4>1. symbols[h].name = symbols[f].name
        BY <2>11 DEF Replaces
      <4>2. h \in Own(Chain(Parents, d)[0]) \cap PublicInstance /\ 0 \in 0..(k + 1 - 1)
        BY <1>2, <2>9
      <4> QED BY <2>12, <4>1, <4>2 DEF Below
    <3> QED BY <2>9, <3>2, <3>3
  <2> QED BY <2>8, <2>11, <2>12 DEF SlotKept
<1>6. S = {}
  <2>1. S \in SUBSET Nat
    OBVIOUS
  <2> HIDE DEF S
  <2> QED BY <1>4, <1>5, <2>1, NoException
<1> QED BY <1>6

\* Object is above every class.
LEMMA ObjectAbove ==
  ASSUME Accepted, NEW d \in ClassIds
  PROVE  Obj \in Lineage(d)
<1> DEFINE Bad == {i \in ClassIds : Obj \notin Lineage(i)}
<1>1. WellFormedProgram(syntax) /\ HierarchyFacts
  BY DEF Accepted
<1>2. ASSUME NEW i \in Bad PROVE Parents[i] \in Bad
  <2>1. i \in FileIds /\ i # Obj
    BY DEF ClassIds, Lineage
  <2>2. Parents[i] # 0
    <3>1. syntax[i].kind = "class" => files[i].base # 0
      BY <1>1, <2>1 DEF HierarchyFacts, BaseFits
    <3> QED BY <1>1, <2>1, <3>1, ParentsLink DEF ClassIds, IsClass, Obj
  <2>3. Parents[i] \in ClassIds
    BY <1>1, <2>1, <2>2, ParentsLink
  <2>4. Lineage(i) = {i} \cup Lineage(Parents[i])
    BY <1>1, <2>1, <2>2, LineageStep
  <2> QED BY <2>3, <2>4
<1>3. Bad = {}
  <2>1. Grounded(Parents) /\ Bad \in SUBSET (1..Len(Parents))
    BY <1>1, ParentsLink DEF ClassIds, FileIds
  <2> HIDE DEF Bad
  <2> QED BY <1>2, <2>1 DEF Grounded
<1> QED BY <1>3

\* The bases of a class are above it.
LEMMA BasesAbove ==
  ASSUME Accepted, NEW d \in ClassIds
  PROVE  {d} \cup Ancestors(Bases, d) \subseteq Lineage(d)
<1>1. WellFormedProgram(syntax) /\ HierarchyFacts
  BY DEF Accepted
<1>2. /\ LinkTable(Bases) /\ Len(Bases) = Len(syntax)
      /\ \A i \in FileIds : Bases[i] = files[i].base
  BY <1>1, BasesLink
<1>3. /\ LinkTable(Parents) /\ Grounded(Parents) /\ Len(Parents) = Len(syntax)
      /\ \A i \in FileIds : Bases[i] # 0 => Parents[i] = Bases[i]
  BY <1>1, <1>2, ParentsLink
<1>4. Grounded(Bases) /\ FileIds = 1..Len(Bases) /\ d \in FileIds
  BY <1>1, <1>2 DEF HierarchyFacts, FileIds, ClassIds
<1>5. Ancestors(Bases, d) \subseteq Ancestors(Parents, d)
  BY <1>2, <1>3, <1>4, AncestorsExtend
<1> QED BY <1>5 DEF Lineage

\* The classes above a class are classes, and so are theirs.
LEMMA LineageOfClasses ==
  ASSUME Accepted, NEW d \in ClassIds, NEW i \in Lineage(d)
  PROVE  /\ i \in ClassIds /\ i \in FileIds
         /\ {i} \cup Ancestors(Bases, i) \subseteq Lineage(d)
         /\ Ancestors(Bases, i) =
              IF files[i].base = 0 THEN {} ELSE {files[i].base} \cup Ancestors(Bases, files[i].base)
         /\ files[i].base # 0 => files[i].base \in ClassIds
<1>1. WellFormedProgram(syntax) /\ HierarchyFacts /\ ClassIds \subseteq FileIds
  BY DEF Accepted, ClassIds
<1>2. i \in ClassIds
  BY <1>1, ParentsLink, LineageWithin
<1>3. {i} \cup Ancestors(Bases, i) \subseteq Lineage(d)
  <2>1. {i} \cup Ancestors(Bases, i) \subseteq Lineage(i)
    BY <1>2, BasesAbove
  <2>2. Lineage(i) \subseteq Lineage(d)
    <3>1. LinkTable(Parents) /\ Grounded(Parents) /\ d \in 1..Len(Parents)
      BY <1>1, ParentsLink, ProgramTyped
    <3>2. i # d => Ancestors(Parents, i) \subseteq Ancestors(Parents, d)
      BY <3>1, AncestorsTransitive DEF Lineage
    <3> QED BY <3>2 DEF Lineage
  <2> QED BY <2>1, <2>2
<1>4. /\ LinkTable(Bases) /\ Grounded(Bases) /\ i \in 1..Len(Bases) /\ Bases[i] = files[i].base
      /\ files[i].base \in 0..Len(syntax)
  BY <1>1, <1>2, BasesLink, ProgramTyped DEF HierarchyFacts, FileTyped
<1>5. Ancestors(Bases, i) =
        IF Bases[i] = 0 THEN {} ELSE {Bases[i]} \cup Ancestors(Bases, Bases[i])
  BY <1>4, AncestorsStep
<1>6. files[i].base # 0 => files[i].base \in ClassIds
  BY <1>1, <1>2, <1>4, ProgramTyped DEF HierarchyFacts, BaseFits, ClassIds
<1> QED BY <1>1, <1>2, <1>3, <1>4, <1>5, <1>6

\* The function of a name that class d offers: the entry of its table with the
\* name is the nearest declaration above d.
LEMMA MostDerivedEntry ==
  ASSUME Accepted, NEW d \in ClassIds, NEW n \in DOMAIN files[d].virtuals
  PROVE  MostDerived(d, symbols[files[d].virtuals[n]].name) = files[d].virtuals[n]
<1> PICK chain : chain = Chain(Parents, d)
  OBVIOUS
<1> DEFINE g == files[d].virtuals[n]
           name == symbols[g].name
           own(i) == {f \in ToSet(files[i].functions) : symbols[f].name = name
                        /\ ~symbols[f].private /\ ~symbols[f].static}
           at == {k \in 0 .. Len(syntax) : chain[k] # 0 /\ own(chain[k]) # {}}
<1>1. WellFormedProgram(syntax) /\ HierarchyFacts /\ SymbolFacts /\ TableFacts(d) /\ d \in FileIds
  BY DEF Accepted, ClassIds
<1>2. Len(syntax) \in Nat /\ FileIds = 1..Len(syntax) /\ LinkTable(Parents) /\ Len(Parents) = Len(syntax)
  BY <1>1, ProgramTyped, ParentsLink
<1>3. \A k \in Nat : chain[k] \in 0..Len(syntax)
  BY <1>1, <1>2, ChainInRange
<1>4. ASSUME NEW i \in FileIds
      PROVE  own(i) = {f \in Own(i) \cap PublicInstance : symbols[f].name = name}
  <2>1. \A f \in ToSet(files[i].functions) : f \in DOMAIN symbols /\ symbols[f].kind = "function"
    BY <1>1 DEF SymbolFacts, FunctionRegistered, ToSet
  <2> QED BY <2>1 DEF Own, PublicInstance
<1>5. g \in PublicInstance /\ symbols[g].file \in Lineage(d) /\ g \in Own(symbols[g].file)
      /\ \A m \in DOMAIN files[d].virtuals : symbols[files[d].virtuals[m]].name = name => m = n
  BY <1>1 DEF TableFacts, EntryFits
<1> HIDE DEF g
<1>6. PICK k \in 0..Len(syntax) : chain[k] = symbols[g].file /\ chain[k] # 0
  <2>1. symbols[g].file = d \/ symbols[g].file \in Ancestors(Parents, d)
    BY <1>5 DEF Lineage
  <2>2. Chain(Parents, d)[0] = d
    BY ONLY ChainValues
  <2>3. chain[0] = d /\ d # 0
    BY <1>1, <1>2, <2>2
  <2>4. CASE symbols[g].file \in Ancestors(Parents, d)
    BY <1>2, <2>4 DEF Ancestors
  <2> QED BY <1>2, <2>1, <2>3, <2>4
<1>7. k \in at
  <2>1. g \in own(chain[k])
    BY <1>3, <1>4, <1>5, <1>6, <1>2
  <2> QED BY <1>6, <2>1
<1> HIDE DEF own
<1>8. PICK l \in at : \A m \in at : l <= m
  <2>1. at \subseteq Nat
    BY <1>2
  <2>2. at # {}
    <3> HIDE DEF at
    <3> QED BY <1>7
  <2> HIDE DEF at
  <2> QED BY <2>1, <2>2, LeastNumber
<1>9. Min(at) = l
  <2>1. at \subseteq Nat
    BY <1>2
  <2> PICK T : T = at
    OBVIOUS
  <2> HIDE DEF at
  <2>2. l \in T /\ \A m \in T : l <= m /\ m \in Nat
    BY <1>8, <2>1
  <2> QED BY <2>2 DEF Min
<1>10. PICK f : f = OneOf(own(chain[l]))
  OBVIOUS
<1>11. f \in own(chain[l]) /\ chain[l] # 0 /\ l \in Nat /\ chain[l] \in FileIds
  BY <1>2, <1>3, <1>8, <1>10 DEF OneOf
<1>12. f \in Own(chain[l]) /\ f \in PublicInstance /\ symbols[f].name = name
  BY <1>4, <1>11
<1>13. SlotKept(d, l, f)
  BY <1>11, <1>12, SlotsKept
<1>14. ~Below(d, l, f)
  <2> SUFFICES ASSUME NEW j \in 0..(l - 1), NEW e \in Own(chain[j]) \cap PublicInstance,
                      symbols[e].name = name
               PROVE  FALSE
    BY <1>12 DEF Below
  <2>0. l \in 0..Len(syntax)
    BY <1>8
  <2>1. j \in Nat /\ j \in 0..Len(syntax) /\ j < l
    BY <1>2, <1>11, <2>0
  <2>2. chain[j] # 0
    <3>1. chain[j] = 0 => \A m \in Nat : chain[j + m] = 0
      BY <2>1, ChainStaysEnded
    <3>2. l - j \in Nat /\ j + (l - j) = l
      BY <1>11, <2>1
    <3> QED BY <1>11, <3>1, <3>2
  <2>3. e \in own(chain[j])
    BY <1>2, <1>3, <1>4, <2>1, <2>2
  <2>4. j \in at
    BY <2>1, <2>2, <2>3
  <2>5. l <= j
    <3> HIDE DEF at
    <3> QED BY <1>8, <2>4
  <2> QED BY <1>11, <2>1, <2>5
<1>15. files[d].virtuals[symbols[f].slot] = f /\ symbols[f].slot \in DOMAIN files[d].virtuals
  BY <1>13, <1>14 DEF SlotKept
<1>16. symbols[f].slot = n
  BY <1>5, <1>12, <1>15
<1>17. f = g
  BY <1>15, <1>16 DEF g
<1>18. MostDerived(d, name) = OneOf(own(chain[Min(at)]))
  BY DEF MostDerived, own
<1> QED BY <1>9, <1>10, <1>17, <1>18 DEF g

-----------------------------------------------------------------------------
(* Interface tables *)

\* What the search answers when it ends at place at.
Found(d, id, at) ==
  FindInterfaceDispatch(d, id) =
    IF at = Len(d.interfaces) \/ d.interfaces[at + 1].id # id THEN 0 ELSE at + 1

\* range[k] is what is left of the table after k rounds of the search.
SearchSteps(d, id, f, n) ==
  f = [k \in 0..n |-> IF k = 0 THEN [begin |-> 0, end |-> Len(d.interfaces)]
                      ELSE Halved(d, id, f[k - 1])]

\* The search is its last round.
LEMMA SearchUnfolds ==
  ASSUME NEW d, NEW id, Len(d.interfaces) \in Nat
  PROVE  \E f : SearchSteps(d, id, f, Len(d.interfaces)) /\ Found(d, id, f[Len(d.interfaces)].begin)
<1> DEFINE S == {n \in Nat : ~\E f : SearchSteps(d, id, f, n)}
<1>1. 0 \notin S
  <2>1. SearchSteps(d, id, [k \in 0..0 |-> [begin |-> 0, end |-> Len(d.interfaces)]], 0)
    BY DEF SearchSteps
  <2> QED BY <2>1
<1>2. ASSUME NEW n \in Nat, n \notin S PROVE n + 1 \notin S
  <2>1. PICK g : SearchSteps(d, id, g, n)
    BY <1>2
  <2> DEFINE f == [k \in 0..(n + 1) |-> IF k = n + 1 THEN Halved(d, id, g[n]) ELSE g[k]]
  <2>2. \A k \in 0..n : g[k] = IF k = 0 THEN [begin |-> 0, end |-> Len(d.interfaces)] ELSE Halved(d, id, g[k - 1])
    BY <2>1 DEF SearchSteps
  <2>3. \A k \in 0..(n + 1) : f[k] = IF k = 0 THEN [begin |-> 0, end |-> Len(d.interfaces)] ELSE Halved(d, id, f[k - 1])
    <3>1. f[n + 1] = Halved(d, id, f[n])
      <4>1. n \in 0..(n + 1) /\ n # n + 1 /\ n + 1 \in 0..(n + 1)
        OBVIOUS
      <4>2. f[n] = g[n] /\ f[n + 1] = Halved(d, id, g[n])
        BY <4>1
      <4> HIDE DEF f
      <4> QED BY <4>2
    <3>2. \A k \in 0..n : f[k] = g[k] /\ (k # 0 => f[k - 1] = g[k - 1])
      OBVIOUS
    <3> HIDE DEF f
    <3>3. (n + 1) - 1 = n /\ n + 1 # 0
      OBVIOUS
    <3> SUFFICES ASSUME NEW k \in 0..(n + 1)
                 PROVE  f[k] = IF k = 0 THEN [begin |-> 0, end |-> Len(d.interfaces)] ELSE Halved(d, id, f[k - 1])
      OBVIOUS
    <3>4. CASE k = n + 1
      BY <3>1, <3>3, <3>4
    <3>5. CASE k \in 0..n
      BY <2>2, <3>2, <3>5
    <3> QED BY <3>4, <3>5
  <2>4. SearchSteps(d, id, f, n + 1)
    BY <2>3 DEF SearchSteps
  <2> QED BY <2>4
<1>3. S = {}
  <2>1. S \in SUBSET Nat
    OBVIOUS
  <2> HIDE DEF S
  <2> QED BY <1>1, <1>2, <2>1, NoException
<1> DEFINE made == CHOOSE f : SearchSteps(d, id, f, Len(d.interfaces))
<1>4. SearchSteps(d, id, made, Len(d.interfaces))
  BY <1>3
<1>5. Found(d, id, made[Len(d.interfaces)].begin)
  BY DEF Found, FindInterfaceDispatch, SearchSteps
<1> QED BY <1>4, <1>5

\* The middle of a range lies in it.
LEMMA MiddleWithin ==
  ASSUME NEW b \in Nat, NEW e \in Nat, b < e
  PROVE  /\ b + ((e - b) \div 2) \in Nat
         /\ b <= b + ((e - b) \div 2) /\ b + ((e - b) \div 2) < e
<1>1. e - b \in Nat /\ e - b >= 1
  OBVIOUS
<1>2. (e - b) \div 2 \in Nat /\ (e - b) \div 2 < e - b
  BY <1>1
<1> QED BY <1>2

\* A range of the search: identities before it are less, after it are not.
Between(ids, n, id, range) ==
  /\ DOMAIN range = {"begin", "end"}
  /\ range.begin \in Nat /\ range.end \in Nat
  /\ range.begin <= range.end /\ range.end <= n
  /\ \A k \in 1..range.begin : ids[k] < id
  /\ \A k \in (range.end + 1)..n : ids[k] >= id

\* A round of the search halves the range.
LEMMA RangeHalves ==
  ASSUME NEW d, NEW id \in Nat, NEW n \in Nat, NEW ids \in [1..n -> Nat], Len(d.interfaces) = n,
         \A k \in 1..n : d.interfaces[k].id = ids[k],
         \A j, k \in 1..n : j < k => ids[j] < ids[k],
         NEW range, Between(ids, n, id, range)
  PROVE  LET next == Halved(d, id, range) IN
         /\ Between(ids, n, id, next)
         /\ range.begin < range.end => next.end - next.begin < range.end - range.begin
         /\ ~(range.begin < range.end) => next = range
<1>1. PICK b \in Nat, e \in Nat :
        /\ b = range.begin /\ e = range.end /\ b <= e /\ e <= n
        /\ \A k \in 1..b : ids[k] < id
        /\ \A k \in (e + 1)..n : ids[k] >= id
  BY DEF Between
<1>2. b \in Nat /\ e \in Nat /\ b <= e /\ e <= n
  BY <1>1
<1>3. CASE b >= e
  <2>1. Halved(d, id, range) = range
    BY <1>1, <1>3 DEF Halved
  <2> QED BY <1>1, <1>3, <2>1
<1>4. CASE b < e
  <2>1. PICK middle \in Nat : middle = b + ((e - b) \div 2)
    BY <1>4, MiddleWithin
  <2>2. b <= middle /\ middle < e
    BY <1>4, <2>1, MiddleWithin
  <2>3. middle + 1 \in 1..n
    BY <1>2, <2>2
  <2>4. Halved(d, id, range) = IF ids[middle + 1] < id THEN [range EXCEPT !.begin = middle + 1]
                               ELSE [range EXCEPT !.end = middle]
    <3>1. Halved(d, id, range) = IF d.interfaces[middle + 1].id < id THEN [range EXCEPT !.begin = middle + 1]
                                 ELSE [range EXCEPT !.end = middle]
      BY <1>1, <1>4, <2>1 DEF Halved
    <3> QED BY <2>3, <3>1
  <2>5. CASE ids[middle + 1] < id
    <3> PICK next : next = [range EXCEPT !.begin = middle + 1]
      OBVIOUS
    <3>2. DOMAIN next = {"begin", "end"} /\ next.begin = middle + 1 /\ next.end = e
      BY <1>1 DEF Between
    <3>3. \A k \in 1..(middle + 1) : ids[k] < id
      <4> SUFFICES ASSUME NEW k \in 1..(middle + 1), k # middle + 1 PROVE ids[k] < id
        BY <2>5
      <4>1. k \in 1..n /\ k < middle + 1
        BY ONLY k \in 1..(middle + 1), k # middle + 1, middle \in Nat, n \in Nat, <2>3
      <4>2. ids[k] < ids[middle + 1]
        BY <2>3, <4>1
      <4>3. ids[k] \in Nat /\ ids[middle + 1] \in Nat
        BY <2>3, <4>1
      <4> QED BY <2>5, <4>2, <4>3
    <3>4. Between(ids, n, id, next)
      BY <1>1, <2>2, <3>2, <3>3 DEF Between
    <3>5. e - (middle + 1) < e - b
      BY ONLY middle \in Nat, <1>2, <2>2
    <3> QED BY <1>1, <1>4, <2>4, <2>5, <3>2, <3>4, <3>5
  <2>6. CASE ~(ids[middle + 1] < id)
    <3> PICK next : next = [range EXCEPT !.end = middle]
      OBVIOUS
    <3>2. DOMAIN next = {"begin", "end"} /\ next.begin = b /\ next.end = middle
      BY <1>1 DEF Between
    <3>3. \A k \in (middle + 1)..n : ids[k] >= id
      <4> SUFFICES ASSUME NEW k \in (middle + 1)..n PROVE ids[k] >= id
        OBVIOUS
      <4>1. k \in 1..n /\ (k = middle + 1 \/ middle + 1 < k)
        BY ONLY k \in (middle + 1)..n, middle \in Nat, n \in Nat, <2>3
      <4>2. middle + 1 < k => ids[middle + 1] < ids[k]
        BY <2>3, <4>1
      <4>3. ids[k] \in Nat /\ ids[middle + 1] \in Nat
        BY <2>3, <4>1
      <4>4. \A x, y \in Nat : ~(x < id) /\ (x = y \/ x < y) => y >= id
        OBVIOUS
      <4> QED BY ONLY <2>6, <4>1, <4>2, <4>3, <4>4
    <3>4. Between(ids, n, id, next)
      BY <1>1, <2>2, <2>3, <3>2, <3>3 DEF Between
    <3>5. middle - b < e - b
      BY ONLY middle \in Nat, <1>2, <2>2
    <3> QED BY <1>1, <1>4, <2>4, <2>6, <3>2, <3>4, <3>5
  <2> QED BY <2>5, <2>6
<1> QED BY <1>2, <1>3, <1>4

\* Identities in ascending order: the search finds the place of one that is
\* there and no other.
SortedTable(d, ids, n) ==
  /\ ids \in [1..n -> Nat] /\ Len(d.interfaces) = n
  /\ \A k \in 1..n : d.interfaces[k].id = ids[k]
  /\ \A j, k \in 1..n : j < k => ids[j] < ids[k]
SearchExact(d, id, ids, n) ==
  /\ \A k \in 1..n : ids[k] = id => FindInterfaceDispatch(d, id) = k
  /\ (\A k \in 1..n : ids[k] # id) => FindInterfaceDispatch(d, id) = 0

\* The search over identities in order is exact.
LEMMA SearchFinds ==
  ASSUME NEW d, NEW id \in Nat, NEW n \in Nat, NEW ids, SortedTable(d, ids, n)
  PROVE  SearchExact(d, id, ids, n)
<1>0. /\ ids \in [1..n -> Nat] /\ Len(d.interfaces) = n
      /\ \A k \in 1..n : d.interfaces[k].id = ids[k]
      /\ \A j, k \in 1..n : j < k => ids[j] < ids[k]
  BY DEF SortedTable
<1>1. Len(d.interfaces) = n /\ \A k \in 1..n : ids[k] \in Nat
  BY <1>0
<1>2. PICK f : SearchSteps(d, id, f, n) /\ Found(d, id, f[n].begin)
  BY <1>1, SearchUnfolds
<1>3. \A k \in 0..n : f[k] = IF k = 0 THEN [begin |-> 0, end |-> n] ELSE Halved(d, id, f[k - 1])
  BY <1>1, <1>2 DEF SearchSteps
<1> DEFINE Fine(k) == k \in 0..n => /\ Between(ids, n, id, f[k])
                                    /\ f[k].end - f[k].begin <= n - k
           S == {k \in Nat : ~Fine(k)}
<1>4. 0 \notin S
  <2>1. 0 \in 0..n /\ f[0] = [begin |-> 0, end |-> n]
    BY <1>1, <1>3
  <2>2. DOMAIN f[0] = {"begin", "end"} /\ f[0].begin = 0 /\ f[0].end = n
    BY <2>1
  <2>3. Between(ids, n, id, f[0])
    BY <1>1, <2>2 DEF Between
  <2> QED BY <1>1, <2>2, <2>3
<1>5. ASSUME NEW k \in Nat, k + 1 \in S PROVE k \in S
  <2> SUFFICES ASSUME Fine(k), k + 1 \in 0..n
               PROVE  Between(ids, n, id, f[k + 1]) /\ f[k + 1].end - f[k + 1].begin <= n - (k + 1)
    BY <1>5
  <2>1. k \in 0..n /\ k + 1 # 0 /\ (k + 1) - 1 = k /\ n - (k + 1) = (n - k) - 1
    OBVIOUS
  <2> PICK range : range = f[k]
    OBVIOUS
  <2> PICK next : next = f[k + 1]
    OBVIOUS
  <2>2. next = Halved(d, id, range)
    BY <1>3, <2>1, k + 1 \in 0..n
  <2>3. Between(ids, n, id, range) /\ range.end - range.begin <= n - k
    BY <2>1
  <2>4. /\ Between(ids, n, id, next)
        /\ range.begin < range.end => next.end - next.begin < range.end - range.begin
        /\ ~(range.begin < range.end) => next = range
    <3> HIDE DEF Fine, S
    <3>1. Between(ids, n, id, range)
      BY <2>3
    <3> QED BY ONLY n \in Nat, id \in Nat, <1>0, <2>2, <3>1, RangeHalves
  <2>5. next.begin \in Nat /\ next.end \in Nat /\ range.begin \in Nat /\ range.end \in Nat
    BY <2>3, <2>4 DEF Between
  <2>6. range.begin <= range.end /\ next.begin <= next.end
    BY <2>3, <2>4 DEF Between
  <2>7. \A b, e, c, f2 \in Nat : /\ b <= e /\ e - b <= n - k
                                 /\ b < e => f2 - c < e - b
                                 /\ ~(b < e) => f2 = e /\ c = b
                                 => f2 - c <= n - (k + 1)
    BY ONLY k \in Nat, n \in Nat, k + 1 \in 0..n
  <2>8. next.end - next.begin <= n - (k + 1)
    BY ONLY <2>3, <2>4, <2>5, <2>6, <2>7
  <2> QED BY <2>4, <2>8
<1>6. S = {}
  <2>1. S \in SUBSET Nat
    OBVIOUS
  <2> HIDE DEF S
  <2> QED BY <1>4, <1>5, <2>1, NoException
<1>7. Between(ids, n, id, f[n]) /\ f[n].end - f[n].begin <= 0
  <2>1. n \in 0..n /\ n - n = 0
    BY <1>1
  <2>2. Fine(n)
    BY <1>1, <1>6
  <2> QED BY <2>1, <2>2
<1> PICK at : at = f[n].begin
  OBVIOUS
<1>8. /\ at \in Nat /\ at <= n /\ \A k \in 1..at : ids[k] < id
      /\ \A k \in (at + 1)..n : ids[k] >= id
  <2>1. f[n].end = at
    BY <1>7 DEF Between
  <2> QED BY <1>7, <2>1 DEF Between
<1>9. FindInterfaceDispatch(d, id) = IF at = n \/ d.interfaces[at + 1].id # id THEN 0 ELSE at + 1
  BY <1>1, <1>2 DEF Found
<1> HIDE DEF S, Fine
<1>10. ASSUME NEW k \in 1..n, ids[k] = id PROVE FindInterfaceDispatch(d, id) = k
  <2>1. ids[k] \in Nat /\ ~(ids[k] < id)
    BY <1>1, <1>10
  <2>2. ~(k <= at)
    BY <1>8, <2>1
  <2>3. at # n /\ at + 1 \in 1..n /\ at + 1 <= k
    <3>1. k \in Nat /\ k <= n
      OBVIOUS
    <3>2. at \in Nat /\ ~(k <= at)
      BY <1>8, <2>2
    <3> QED BY ONLY <3>1, <3>2, n \in Nat
  <2>4. ~(at + 1 < k)
    <3> SUFFICES ASSUME at + 1 < k PROVE FALSE
      OBVIOUS
    <3>1. ids[at + 1] < ids[k]
      BY <1>0, <2>3
    <3>2. ids[at + 1] >= id
      BY <1>8, <2>3
    <3> QED BY <1>1, <1>10, <2>3, <3>1, <3>2
  <2>5. k = at + 1
    BY <1>1, <1>8, <2>3, <2>4
  <2>6. d.interfaces[k].id = id
    BY <1>0, <1>10
  <2> QED BY <1>9, <2>3, <2>5, <2>6
<1>11. ASSUME \A k \in 1..n : ids[k] # id PROVE FindInterfaceDispatch(d, id) = 0
  <2>1. at # n => at + 1 \in 1..n
    BY <1>1, <1>8
  <2>2. at # n => d.interfaces[at + 1].id = ids[at + 1]
    BY <1>0, <2>1
  <2> QED BY <1>9, <1>11, <2>1, <2>2
<1> QED BY <1>10, <1>11 DEF SearchExact

\* Numbers that differ are told apart by how many are less: the ranks of the
\* members of a set run from 0 without a gap, in the order of the numbers.
LEMMA RanksCover ==
  ASSUME NEW T, IsFiniteSet(T), NEW key \in [T -> Nat], \A x, y \in T : key[x] = key[y] => x = y
  PROVE  /\ \A n \in 1..Cardinality(T) : \E m \in T : Cardinality({x \in T : key[x] < key[m]}) = n - 1
         /\ \A x, y \in T : key[x] < key[y] =>
              Cardinality({z \in T : key[z] < key[x]}) < Cardinality({z \in T : key[z] < key[y]})
<1> DEFINE before(m) == {x \in T : key[x] < key[m]}
           rank == [m \in T |-> Cardinality(before(m))]
           N == Cardinality(T)
<1>1. N \in Nat /\ IsFiniteSet(0..(N - 1)) /\ Cardinality(0..(N - 1)) = N
  <2>1. N \in Nat
    BY FS_CardinalityType
  <2> HIDE DEF N
  <2>2. 0 \in Int /\ N - 1 \in Int
    BY <2>1
  <2>3. IsFiniteSet(0..(N - 1)) /\ Cardinality(0..(N - 1)) = IF 0 > N - 1 THEN 0 ELSE (N - 1) - 0 + 1
    BY <2>2, FS_Interval
  <2> QED BY <2>1, <2>3
<1>2. ASSUME NEW m \in T
      PROVE  IsFiniteSet(before(m)) /\ Cardinality(before(m)) \in 0..(N - 1)
  <2>1. before(m) \in SUBSET T /\ m \notin before(m)
    BY m \in T
  <2> HIDE DEF before
  <2>2. IsFiniteSet(before(m)) /\ Cardinality(before(m)) <= N /\ (N = Cardinality(before(m)) => T = before(m))
    BY <2>1, FS_Subset
  <2>3. Cardinality(before(m)) \in Nat
    BY <2>2, FS_CardinalityType
  <2>4. Cardinality(before(m)) # N
    BY <2>1, <2>2
  <2> HIDE DEF N
  <2> QED BY <1>1, <2>2, <2>3, <2>4
<1>3. ASSUME NEW x \in T, NEW y \in T, key[x] < key[y]
      PROVE  Cardinality(before(x)) < Cardinality(before(y))
  <2>0. key[x] \in Nat /\ key[y] \in Nat /\ \A z \in T : key[z] \in Nat
    OBVIOUS
  <2>1. before(x) \subseteq before(y)
    <3> SUFFICES ASSUME NEW z \in T, key[z] < key[x] PROVE key[z] < key[y]
      OBVIOUS
    <3>1. key[z] \in Nat
      OBVIOUS
    <3>2. \A a, b, c \in Nat : a < b /\ b < c => a < c
      OBVIOUS
    <3> QED BY <1>3, <2>0, <3>1, <3>2
  <2>2. x \in before(y) /\ x \notin before(x)
    BY <1>3, <2>0
  <2> HIDE DEF before
  <2>3. before(x) \in SUBSET before(y) /\ before(x) # before(y)
    BY <2>1, <2>2
  <2>4. IsFiniteSet(before(y)) /\ IsFiniteSet(before(x))
    BY <1>2
  <2>5. Cardinality(before(x)) <= Cardinality(before(y)) /\ Cardinality(before(x)) # Cardinality(before(y))
    BY <2>3, <2>4, FS_Subset
  <2>6. Cardinality(before(x)) \in Nat /\ Cardinality(before(y)) \in Nat
    BY <2>4, FS_CardinalityType
  <2> QED BY <2>5, <2>6
<1>4. rank \in [T -> 0..(N - 1)] /\ \A m \in T : rank[m] = Cardinality(before(m))
  BY <1>2
<1>5. \A x, y \in T : rank[x] = rank[y] => x = y
  <2> SUFFICES ASSUME NEW x \in T, NEW y \in T, rank[x] = rank[y] PROVE x = y
    OBVIOUS
  <2>1. key[x] \in Nat /\ key[y] \in Nat
    OBVIOUS
  <2>2. rank[x] = Cardinality(before(x)) /\ rank[y] = Cardinality(before(y))
    BY <1>4
  <2>3. Cardinality(before(x)) \in Nat /\ Cardinality(before(y)) \in Nat
    BY <1>2, FS_CardinalityType
  <2> HIDE DEF rank, before
  <2>4. Cardinality(before(x)) = Cardinality(before(y))
    BY <2>2
  <2>6. \A a, b \in Nat : a = b => ~(a < b) /\ ~(b < a)
    OBVIOUS
  <2>7. ~(Cardinality(before(x)) < Cardinality(before(y))) /\ ~(Cardinality(before(y)) < Cardinality(before(x)))
    BY <2>3, <2>4, <2>6
  <2>8. ~(key[x] < key[y]) /\ ~(key[y] < key[x])
    BY <1>3, <2>7
  <2>5. key[x] = key[y]
    BY <2>1, <2>8
  <2> QED BY <2>5
<1> HIDE DEF rank, before, N
<1>6. rank \in Injection(T, 0..(N - 1))
  BY <1>4, <1>5, Fun_IsInj
<1>7. rank \in Surjection(T, 0..(N - 1))
  <2>1. Cardinality(T) = Cardinality(0..(N - 1))
    BY <1>1 DEF N
  <2> QED BY <1>1, <1>6, <2>1, FS_Injection
<1>8. \A n \in 0..(N - 1) : \E m \in T : rank[m] = n
  BY ZenonT(60), <1>7, Fun_SurjectionProperties
<1>9. \A n \in 1..N : \E m \in T : Cardinality(before(m)) = n - 1
  <2> SUFFICES ASSUME NEW n \in 1..N PROVE \E m \in T : Cardinality(before(m)) = n - 1
    OBVIOUS
  <2>1. n - 1 \in 0..(N - 1)
    BY <1>1
  <2> QED BY <1>4, <1>8, <2>1
<1> QED BY <1>3, <1>9 DEF before, N

\* A sequence without repetition has as many values as places.
LEMMA ValuesOfDistinct ==
  ASSUME NEW s, NEW n \in Nat, DOMAIN s = 1..n, Distinct(s)
  PROVE  IsFiniteSet(ToSet(s)) /\ Cardinality(ToSet(s)) = n
<1>1. ToSet(s) = {s[k] : k \in 1..n}
  BY DEF ToSet
<1> DEFINE f == [k \in 1..n |-> s[k]]
<1>2. f \in [1..n -> ToSet(s)] /\ \A k \in 1..n : f[k] = s[k]
  BY <1>1
<1>3. \A a, b \in 1..n : f[a] = f[b] => a = b
  BY <1>2 DEF Distinct
<1>4. \A t \in ToSet(s) : \E k \in 1..n : f[k] = t
  BY <1>1, <1>2
<1> HIDE DEF f
<1>5. f \in Injection(1..n, ToSet(s)) /\ f \in Surjection(1..n, ToSet(s))
  BY <1>2, <1>3, <1>4, Fun_IsInj, Fun_IsSurj
<1>6. IsFiniteSet(1..n) /\ Cardinality(1..n) = n
  <2>1. IsFiniteSet(1..n) /\ Cardinality(1..n) = IF 1 > n THEN 0 ELSE n - 1 + 1
    <3>1. 1 \in Int /\ n \in Int
      OBVIOUS
    <3> QED BY <3>1, FS_Interval
  <2> QED BY <2>1
<1> QED BY <1>5, <1>6, FS_Surjection

\* The tables of a descriptor are the ones of its class in the order of the
\* interfaces' identities, none twice and none left out.
OrderedTables(i, d, ids, at) ==
  LET s == files[i].implementations  n == Len(s) IN
  /\ n \in Nat /\ DOMAIN s = 1..n /\ SortedTable(d, ids, n)
  /\ at \in [1..n -> 1..n] /\ \A m \in 1..n : \E k \in 1..n : at[k] = m
  /\ \A m \in 1..n : s[m].interface \in InterfaceIds
  /\ \A m, k \in 1..n : s[m].interface = s[k].interface => m = k
  /\ \A k \in 1..n : /\ ids[k] = syntax[s[at[k]].interface].id
                      /\ d.interfaces[k].functions = s[at[k]].functions

\* Sorting by identity leaves such an order.
LEMMA TablesOrdered ==
  ASSUME Accepted, NEW i \in ClassIds, NEW d, d = ClassDescriptor(i)
  PROVE  \E ids, at : OrderedTables(i, d, ids, at)
<1> PICK s : s = files[i].implementations
  OBVIOUS
<1> PICK n : n = Len(s)
  OBVIOUS
<1> DEFINE T == ToSet(s)
           key == [m \in T |-> syntax[m.interface].id]
           before(m) == {y \in T : syntax[y.interface].id < syntax[m.interface].id}
           sorted(k) == CHOOSE m \in T : Cardinality(before(m)) = k - 1
           ids == [k \in 1..n |-> syntax[sorted(k).interface].id]
<1>1. /\ WellFormedProgram(syntax) /\ HierarchyFacts /\ ImplementationFacts(i) /\ ClassFacts(i)
      /\ \A j \in FileIds : syntax[j].id \in Nat
  BY ProgramTyped DEF Accepted
<1>2. n \in Nat /\ DOMAIN s = 1..n
  BY <1>1 DEF ImplementationFacts
<1>3. \A m \in 1..n : s[m].interface \in InterfaceIds
  <2> SUFFICES ASSUME NEW m \in 1..n PROVE s[m].interface \in InterfaceIds
    OBVIOUS
  <2>1. s[m].interface \in Closure(i)
    BY <1>1, <1>2 DEF ImplementationFacts, TableOfInterface
  <2>2. Closure(i) \subseteq FileIds
    BY <1>1 DEF HierarchyFacts, FileTyped, Closure, ToSet, ClassIds
  <2> QED BY <1>1, <2>1, <2>2 DEF ClassFacts, InterfaceIds
<1>4. \A m, k \in 1..n : s[m].interface = s[k].interface => m = k
  BY <1>1, <1>2 DEF ImplementationFacts
<1>5. T = {s[k] : k \in 1..n}
  BY <1>2 DEF ToSet
<1>6. \A m \in T : m.interface \in InterfaceIds /\ syntax[m.interface].id \in Nat
  BY <1>1, <1>3, <1>5 DEF InterfaceIds
<1>7. IsFiniteSet(T) /\ Cardinality(T) = n
  <2>1. Distinct(s)
    BY <1>2, <1>4 DEF Distinct
  <2> QED BY <1>2, <2>1, ValuesOfDistinct
<1>8. \A y, z \in InterfaceIds : syntax[y].id = syntax[z].id => y = z
  BY <1>1 DEF HierarchyFacts, InterfaceIds
<1>9. \A y, z \in T : y.interface = z.interface => y = z
  BY <1>4, <1>5
<1>10. key \in [T -> Nat] /\ \A m \in T : key[m] = syntax[m.interface].id
  BY <1>6
<1>11. \A y, z \in T : key[y] = key[z] => y = z
  BY <1>6, <1>8, <1>9, <1>10
<1> HIDE DEF T, key
<1>12. /\ \A k \in 1..n : \E m \in T : Cardinality({y \in T : key[y] < key[m]}) = k - 1
       /\ \A y, z \in T : key[y] < key[z] =>
            Cardinality({w \in T : key[w] < key[y]}) < Cardinality({w \in T : key[w] < key[z]})
  <2>1. IsFiniteSet(T) /\ key \in [T -> Nat] /\ \A y, z \in T : key[y] = key[z] => y = z
    BY <1>7, <1>10, <1>11
  <2>2. \A k \in 1..Cardinality(T) : \E m \in T : Cardinality({y \in T : key[y] < key[m]}) = k - 1
    BY ONLY <2>1, RanksCover
  <2>3. \A y, z \in T : key[y] < key[z] =>
          Cardinality({w \in T : key[w] < key[y]}) < Cardinality({w \in T : key[w] < key[z]})
    BY ONLY <2>1, RanksCover
  <2> QED BY <1>7, <2>2, <2>3
<1>13. \A m \in T : before(m) = {y \in T : key[y] < key[m]}
  BY <1>10
<1>14. ASSUME NEW k \in 1..n PROVE sorted(k) \in T /\ Cardinality(before(sorted(k))) = k - 1
  <2>1. \E m \in T : Cardinality(before(m)) = k - 1
    BY <1>12, <1>13
  <2> HIDE DEF before
  <2> QED BY <2>1
<1>15. \A y, z \in T : key[y] < key[z] => Cardinality(before(y)) < Cardinality(before(z))
  BY <1>12, <1>13
<1>16. ASSUME NEW m \in T PROVE \E k \in 1..n : sorted(k) = m
  <2>1. before(m) \in SUBSET T /\ m \notin before(m)
    BY <1>6
  <2>2. PICK r : r = Cardinality(before(m))
    OBVIOUS
  <2> HIDE DEF before
  <2>3. IsFiniteSet(before(m)) /\ r <= n /\ (n = r => T = before(m))
    BY <1>7, <2>1, <2>2, FS_Subset
  <2>4. r \in Nat /\ r # n
    BY <2>1, <2>2, <2>3, FS_CardinalityType
  <2>5. r + 1 \in 1..n /\ (r + 1) - 1 = r
    BY ONLY <1>2, <2>3, <2>4
  <2>6. sorted(r + 1) \in T /\ Cardinality(before(sorted(r + 1))) = r
    BY <1>14, <2>5
  <2> PICK y : y = sorted(r + 1)
    OBVIOUS
  <2>7. ~(key[y] < key[m]) /\ ~(key[m] < key[y])
    BY <1>15, <2>2, <2>4, <2>6
  <2>8. key[y] = key[m]
    BY <1>10, <2>6, <2>7
  <2> QED BY <1>11, <2>5, <2>6, <2>8
<1> HIDE DEF before, sorted
<1>17. ids \in [1..n -> Nat]
  BY <1>6, <1>14
<1>18. \A k \in 1..n : ids[k] = key[sorted(k)]
  BY <1>10, <1>14
<1> HIDE DEF ids
<1>19. ASSUME NEW j \in 1..n, NEW k \in 1..n, j < k PROVE ids[j] < ids[k]
  <2>1. ids[j] \in Nat /\ ids[k] \in Nat
    BY <1>17
  <2>2. ~(ids[k] < ids[j])
    <3> SUFFICES ASSUME ids[k] < ids[j] PROVE FALSE
      OBVIOUS
    <3>1. Cardinality(before(sorted(k))) < Cardinality(before(sorted(j)))
      BY <1>14, <1>15, <1>18
    <3>2. k - 1 < j - 1
      BY <1>14, <3>1
    <3> QED BY ONLY <3>2, j < k, j \in 1..n, k \in 1..n, <1>2
  <2>3. ids[k] # ids[j]
    <3> SUFFICES ASSUME ids[k] = ids[j] PROVE FALSE
      OBVIOUS
    <3>1. sorted(k) = sorted(j)
      BY <1>11, <1>14, <1>18
    <3>2. k - 1 = j - 1
      BY <1>14, <3>1
    <3> QED BY ONLY <3>2, j < k, j \in 1..n, k \in 1..n, <1>2
  <2> QED BY <2>1, <2>2, <2>3
<1>20. d.interfaces = [k \in 1..n |-> [id |-> syntax[sorted(k).interface].id,
                                       functions |-> sorted(k).functions]]
  BY <1>2 DEF ClassDescriptor, T, before, sorted
<1>21. /\ Len(d.interfaces) = n
       /\ \A k \in 1..n : d.interfaces[k].id = ids[k] /\ d.interfaces[k].functions = sorted(k).functions
  <2>1. \A k \in 1..n : ids[k] = syntax[sorted(k).interface].id
    BY <1>10, <1>14, <1>18
  <2>2. Len(d.interfaces) = n
    BY <1>2, <1>20
  <2> QED BY <1>20, <2>1, <2>2
<1> PICK at : at = [k \in 1..n |-> CHOOSE m \in 1..n : s[m] = sorted(k)]
  OBVIOUS
<1>22. ASSUME NEW k \in 1..n PROVE at[k] \in 1..n /\ s[at[k]] = sorted(k)
  <2>1. \E m \in 1..n : s[m] = sorted(k)
    BY <1>5, <1>14
  <2> QED BY <2>1
<1>23. at \in [1..n -> 1..n]
  BY <1>22
<1>24. ASSUME NEW m \in 1..n PROVE \E k \in 1..n : at[k] = m
  <2>1. s[m] \in T
    BY <1>5
  <2>2. PICK k \in 1..n : sorted(k) = s[m]
    BY <1>16, <2>1
  <2>3. s[at[k]].interface = s[m].interface /\ at[k] \in 1..n
    BY <1>22, <2>2
  <2> QED BY <1>4, <2>3
<1>25. \A k \in 1..n : /\ ids[k] = syntax[s[at[k]].interface].id
                        /\ d.interfaces[k].functions = s[at[k]].functions
  <2> SUFFICES ASSUME NEW k \in 1..n
               PROVE  /\ ids[k] = syntax[s[at[k]].interface].id
                      /\ d.interfaces[k].functions = s[at[k]].functions
    OBVIOUS
  <2>1. s[at[k]] = sorted(k) /\ sorted(k) \in T
    BY <1>14, <1>22
  <2>2. ids[k] = key[sorted(k)] /\ key[sorted(k)] = syntax[sorted(k).interface].id
    BY <1>10, <1>18, <2>1
  <2>3. d.interfaces[k].functions = sorted(k).functions
    BY <1>21
  <2> QED BY ONLY <2>1, <2>2, <2>3
<1>26. SortedTable(d, ids, n)
  BY <1>2, <1>17, <1>19, <1>21 DEF SortedTable
<1>27. OrderedTables(i, d, ids, at)
  BY <1>2, <1>3, <1>4, <1>23, <1>24, <1>25, <1>26 DEF OrderedTables
<1> QED BY <1>27

\* The tables of a class's descriptor come in the order of their identities,
\* so that the search finds the table of an interface if the class has one.
LEMMA TableFound ==
  ASSUME Accepted, NEW i \in ClassIds, NEW d, d = ClassDescriptor(i), NEW x \in InterfaceIds
  PROVE  /\ \A m \in DOMAIN files[i].implementations :
              files[i].implementations[m].interface = x =>
                /\ FindInterfaceDispatch(d, syntax[x].id) # 0
                /\ d.interfaces[FindInterfaceDispatch(d, syntax[x].id)].functions =
                     files[i].implementations[m].functions
         /\ (\A m \in DOMAIN files[i].implementations : files[i].implementations[m].interface # x)
              => FindInterfaceDispatch(d, syntax[x].id) = 0
<1> PICK s : s = files[i].implementations
  OBVIOUS
<1> PICK n : n = Len(s)
  OBVIOUS
<1> PICK id : id = syntax[x].id
  OBVIOUS
<1>1. PICK ids, at : OrderedTables(i, d, ids, at)
  BY TablesOrdered
<1>2. /\ n \in Nat /\ DOMAIN s = 1..n /\ SortedTable(d, ids, n)
      /\ at \in [1..n -> 1..n] /\ \A m \in 1..n : \E k \in 1..n : at[k] = m
      /\ \A m \in 1..n : s[m].interface \in InterfaceIds
      /\ \A m, k \in 1..n : s[m].interface = s[k].interface => m = k
      /\ \A k \in 1..n : /\ ids[k] = syntax[s[at[k]].interface].id
                          /\ d.interfaces[k].functions = s[at[k]].functions
  BY <1>1 DEF OrderedTables
<1>3. id \in Nat /\ \A y, z \in InterfaceIds : syntax[y].id = syntax[z].id => y = z
  BY ProgramTyped DEF Accepted, HierarchyFacts, InterfaceIds
<1>4. Len(d.interfaces) = n
  BY <1>2 DEF SortedTable
<1>5. /\ \A k \in 1..n : ids[k] = id => FindInterfaceDispatch(d, id) = k
      /\ (\A k \in 1..n : ids[k] # id) => FindInterfaceDispatch(d, id) = 0
  <2>1. SearchExact(d, id, ids, n)
    BY <1>2, <1>3, SearchFinds
  <2> QED BY <2>1 DEF SearchExact
<1>6. \A k \in 1..n : ids[k] = id <=> s[at[k]].interface = x
  <2> SUFFICES ASSUME NEW k \in 1..n PROVE ids[k] = id <=> s[at[k]].interface = x
    OBVIOUS
  <2>1. at[k] \in 1..n
    BY <1>2
  <2>2. s[at[k]].interface \in InterfaceIds
    BY <1>2, <2>1
  <2>3. ids[k] = syntax[s[at[k]].interface].id
    BY <1>2
  <2> QED BY <1>3, <2>2, <2>3
<1>7. ASSUME NEW m \in 1..n, s[m].interface = x
      PROVE  /\ FindInterfaceDispatch(d, id) # 0
             /\ d.interfaces[FindInterfaceDispatch(d, id)].functions = s[m].functions
  <2>1. PICK k \in 1..n : at[k] = m
    BY <1>2
  <2>2. FindInterfaceDispatch(d, id) = k
    BY <1>5, <1>6, <1>7, <2>1
  <2>3. d.interfaces[k].functions = s[at[k]].functions
    BY <1>2
  <2>4. k # 0
    BY <1>2
  <2> QED BY ONLY <2>1, <2>2, <2>3, <2>4
<1>8. ASSUME \A m \in 1..n : s[m].interface # x PROVE FindInterfaceDispatch(d, id) = 0
  <2>1. \A k \in 1..n : s[at[k]].interface # x
    BY <1>2, <1>8
  <2> QED BY <1>5, <1>6, <2>1
<1> QED BY <1>2, <1>7, <1>8

-----------------------------------------------------------------------------
(* Calls *)

\* The phases of the analysis.
Analysing == {"relationships", "members", "contracts", "closures", "overrides", "conformance",
              "definitions", "effects"}

\* A pass of the analysis is followed by another one, or by the layouts.
LEMMA AnalysisPhases ==
  ASSUME SemaNext
  PROVE  phase \in Analysing /\ phase' \in Analysing \cup {"abi", "rejected"}
<1>1. ASSUME RegisterTypeRelationships PROVE phase = "relationships" /\ phase' = "members"
  BY ONLY <1>1, Zenon DEF RegisterTypeRelationships
<1>2. ASSUME RegisterMembers PROVE phase = "members" /\ phase' = "contracts"
  BY ONLY <1>2, Zenon DEF RegisterMembers
<1>3. ASSUME ValidateInterfaceContract PROVE phase = "contracts" /\ phase' = phase
  BY ONLY <1>3 DEF ValidateInterfaceContract
<1>4. ASSUME NextContractRound PROVE phase = "contracts" /\ phase' = phase
  BY ONLY <1>4 DEF NextContractRound
<1>5. ASSUME EndContracts PROVE phase = "contracts" /\ phase' = "closures"
  BY ONLY <1>5, Zenon DEF EndContracts
<1>6. ASSUME CloseClassInterfaces PROVE phase = "closures" /\ phase' = "overrides"
  BY ONLY <1>6 DEF CloseClassInterfaces
<1>7. ASSUME ValidateFileOverrides PROVE phase = "overrides" /\ phase' = phase
  BY ONLY <1>7 DEF ValidateFileOverrides
<1>8. ASSUME EndOverrides PROVE phase = "overrides" /\ phase' = "conformance"
  BY ONLY <1>8 DEF EndOverrides
<1>9. ASSUME ValidateInterfaceConformance PROVE phase = "conformance" /\ phase' = "definitions"
  BY ONLY <1>9, Zenon DEF ValidateInterfaceConformance
<1>10. ASSUME AnalyzeDefinitions PROVE phase = "definitions" /\ phase' = "effects"
  BY ONLY <1>10, Zenon DEF AnalyzeDefinitions
<1>11. ASSUME AnalyzeErrorEffects PROVE phase = "effects" /\ phase' \in {"abi", "rejected"}
  <2>1. phase = "effects" /\ phase' = IF errors' = {} THEN "abi" ELSE "rejected"
    BY ONLY <1>11, Zenon DEF AnalyzeErrorEffects
  <2> QED BY <2>1
<1> QED BY <1>1, <1>2, <1>3, <1>4, <1>5, <1>6, <1>7, <1>8, <1>9, <1>10, <1>11 DEF SemaNext, Analysing

\* What the descriptors of a linked program hold.
DescriptorFacts ==
  phase \in {"verify", "run"} =>
    /\ DOMAIN descriptors = {i \in FileIds : ~IsInterface(i)}
    /\ \A i \in ClassIds : descriptors[i] = ClassDescriptor(i)
    /\ \A i \in FileIds : ~IsClass(i) /\ ~IsInterface(i) => descriptors[i] = BoxDescriptor(i)

\* The box of a value is fixed by its declaration and its layout.
LEMMA BoxesStay ==
  ASSUME UNCHANGED <<syntax, layouts>>, NEW i
  PROVE  BoxDescriptor(i)' = BoxDescriptor(i)
<1> PICK t : t = File(i)
  OBVIOUS
<1>1. \A u : /\ TypeKind(u)' = TypeKind(u) /\ Element(u)' = Element(u)
  BY DEF TypeKind, Element
<1> PICK e : e = Element(t)
  OBVIOUS
<1>2. (IsReference(t)' <=> IsReference(t)) /\ (IsReference(e)' <=> IsReference(e))
  <2>1. Element(t)' = e /\ TypeKind(e)' = TypeKind(e) /\ Element(e)' = Element(e)
    BY <1>1
  <2> PICK g : g = Element(e)
    OBVIOUS
  <2>2. TypeKind(g)' = TypeKind(g) /\ Element(e)' = g
    BY <1>1
  <2> QED BY <2>1, <2>2 DEF IsReference
<1>3. ValueLayout(t)' = ValueLayout(t) /\ ValueLayout(e)' = ValueLayout(e)
  BY <1>1 DEF ValueLayout, Storage, ScalarSize, Larger
<1>4. IsNullableValue(t)' <=> IsNullableValue(t)
  BY <1>1, <1>2 DEF IsNullableValue
<1>5. TypeLayout(t)' = TypeLayout(t)
  <2>1. NullableValueLayout(ValueLayout(Element(t)))' = NullableValueLayout(ValueLayout(e))
    BY <1>1, <1>3 DEF NullableValueLayout, Storage, AlignUp, Shift
  <2> QED BY <1>2, <1>3, <1>4, <2>1 DEF TypeLayout, Storage, Pointer
<1>6. TypeLayout(File(i))' = TypeLayout(t)'
  BY DEF File
<1>7. TypeLayout(File(i))' = TypeLayout(File(i))
  BY <1>5, <1>6
<1> QED BY <1>7 DEF BoxDescriptor, AlignUp, Shift, Header, HeaderWords, Pointer, Larger, Obj

\* The descriptors are emitted once and stay.
LEMMA DescriptorsStay ==
  ASSUME SemaInv, DescriptorFacts, [Next]_vars
  PROVE  DescriptorFacts'
<1>1. ASSUME UNCHANGED <<syntax, files, layouts, descriptors>>, phase' \in {"verify", "run"} => phase \in {"verify", "run"}
      PROVE  DescriptorFacts'
  <2>1. /\ FileIds' = FileIds /\ ClassIds' = ClassIds
        /\ \A i : (IsClass(i)' <=> IsClass(i)) /\ (IsInterface(i)' <=> IsInterface(i))
        /\ \A i : ClassDescriptor(i)' = ClassDescriptor(i)
    BY <1>1 DEF FileIds, ClassIds, IsClass, IsInterface, ClassDescriptor
  <2>2. {i \in FileIds : ~IsInterface(i)}' = {i \in FileIds : ~IsInterface(i)}
    BY <1>1 DEF FileIds, IsInterface
  <2>3. \A i : BoxDescriptor(i)' = BoxDescriptor(i)
    BY <1>1, BoxesStay
  <2> QED BY <1>1, <2>1, <2>2, <2>3 DEF DescriptorFacts
<1>2. CASE SemaNext /\ UNCHANGED <<abiVars, runVars>>
  <2>1. phase' \notin {"verify", "run"}
    BY <1>2, AnalysisPhases DEF Analysing
  <2> QED BY <2>1 DEF DescriptorFacts
<1>3. CASE AbiNext /\ UNCHANGED runVars
  <2>1. CASE LowerFileLayout \/ LayoutCycle
    <3>1. LowerFileLayout => phase = "abi" /\ (phase' = phase \/ phase' = "rejected")
      BY DEF LowerFileLayout
    <3>2. ASSUME LayoutCycle PROVE phase' = "rejected"
      BY ONLY <3>2, Zenon DEF LayoutCycle
    <3> QED BY <2>1, <3>1, <3>2 DEF DescriptorFacts
  <2>2. CASE EmitDescriptors
    <3>1. UNCHANGED <<syntax, files, symbols, errors, pass, layouts>>
          /\ descriptors' = [i \in {j \in FileIds : ~IsInterface(j)} |->
               IF syntax[i].kind \in {"enum", "struct"} THEN BoxDescriptor(i) ELSE ClassDescriptor(i)]
      BY <2>2 DEF EmitDescriptors
    <3>2. /\ FileIds' = FileIds /\ ClassIds' = ClassIds
          /\ \A i : (IsClass(i)' <=> IsClass(i)) /\ (IsInterface(i)' <=> IsInterface(i))
          /\ \A i : ClassDescriptor(i)' = ClassDescriptor(i)
      BY <3>1 DEF FileIds, ClassIds, IsClass, IsInterface, ClassDescriptor
    <3>3. \A i \in FileIds : syntax[i].kind \in {"class", "error", "interface", "struct", "enum"}
      BY ProgramTyped DEF SemaInv
    <3>4. \A i : BoxDescriptor(i)' = BoxDescriptor(i)
      BY <3>1, BoxesStay
    <3>5. \A i \in ClassIds : descriptors'[i] = ClassDescriptor(i)
      BY <3>1 DEF ClassIds, IsClass, IsInterface
    <3>6. \A i \in FileIds : ~IsClass(i) /\ ~IsInterface(i) => descriptors'[i] = BoxDescriptor(i)
      BY <3>1, <3>3 DEF IsClass, IsInterface
    <3>7. DOMAIN descriptors' = {i \in FileIds : ~IsInterface(i)}
      BY <3>1
    <3>8. {i \in FileIds : ~IsInterface(i)}' = {i \in FileIds : ~IsInterface(i)}
      BY <3>1 DEF FileIds, IsInterface
    <3>9. (DOMAIN descriptors = {i \in FileIds : ~IsInterface(i)})'
      BY <3>7, <3>8
    <3>10. (\A i \in ClassIds : descriptors[i] = ClassDescriptor(i))'
      BY <3>2, <3>5
    <3>11. (\A i \in FileIds : ~IsClass(i) /\ ~IsInterface(i) => descriptors[i] = BoxDescriptor(i))'
      BY <3>2, <3>4, <3>6
    <3> QED BY ONLY <3>9, <3>10, <3>11, Zenon DEF DescriptorFacts
  <2>3. CASE VerifyAbi
    BY <1>1, <2>3 DEF VerifyAbi
  <2> QED BY <1>3, <2>1, <2>2, <2>3 DEF AbiNext
<1>4. CASE New \/ RunBaseConstructor \/ InitializeFields \/ RunStatement \/ Return \/ UNCHANGED vars
  <2>1. UNCHANGED <<semaVars, abiVars>>
    BY <1>4 DEF New, RunBaseConstructor, InitializeFields, RunStatement, Return, vars
  <2>2. UNCHANGED <<syntax, files, layouts, descriptors, phase>>
    BY <2>1 DEF semaVars, abiVars
  <2> QED BY <1>1, <2>2
<1> QED BY <1>2, <1>3, <1>4 DEF Next

\* What the descriptor of a class takes from its tables, and that of a box.
LEMMA DescriptorFields ==
  ASSUME NEW i
  PROVE  /\ ClassDescriptor(i).virtuals = files[i].virtuals
         /\ ClassDescriptor(i).kind = syntax[i].kind
         /\ ClassDescriptor(i).parent = files[i].base
         /\ BoxDescriptor(i).kind = "box" /\ BoxDescriptor(i).parent = Obj
BY DEF ClassDescriptor, BoxDescriptor

\* A function that stands for f in the program the caller sees: the one the
\* object's class means by its name, declared, with a body, fit for f's promises.
Reaches(d, f, target) ==
  /\ target = MostDerived(d, symbols[f].name)
  /\ target \in Callables
  /\ ~symbols[target].abstract
  /\ Replaces(target, f)

\* Tables hold what was declared.
LEMMA TableDeclared ==
  ASSUME Accepted, NEW d \in ClassIds, NEW n \in DOMAIN files[d].virtuals
  PROVE  files[d].virtuals[n] \in Callables
<1> PICK f : f = files[d].virtuals[n]
  OBVIOUS
<1>1. TableFacts(d) /\ SymbolFacts
  BY DEF Accepted
<1>2. f \in PublicInstance /\ f \in Own(symbols[f].file)
  BY <1>1 DEF TableFacts, EntryFits
<1>3. f \in DOMAIN symbols /\ symbols[f].file \in FileIds
  BY <1>1, <1>2 DEF PublicInstance, SymbolFacts, WellTyped
<1>4. symbols[f].declared
  BY <1>1, <1>2, <1>3 DEF SymbolFacts, FunctionRegistered, Own, ToSet
<1> QED BY <1>3, <1>4 DEF Callables

\* A class stands for another one only if it derives from it.
LEMMA ReceiverAbove ==
  ASSUME Accepted, NEW d \in ClassIds, NEW i \in ClassIds,
         IsAssignable(Bases, Interfaces, File(i), File(d))
  PROVE  {i} \cup Ancestors(Bases, i) \subseteq Lineage(d)
<1>1. WellFormedProgram(syntax) /\ HierarchyFacts /\ d \in FileIds /\ i \in FileIds
  BY DEF Accepted, ClassIds
<1>2. i \in Lineage(d)
  <2>1. CASE i = Obj
    BY <2>1, ObjectAbove
  <2>2. CASE i = d
    BY <2>2 DEF Lineage
  <2>3. CASE i # Obj /\ i # d
    <3>1. TypeKind(File(i)) \in {"class", "error"}
      BY <2>3, FileTypeKind DEF ClassIds, IsClass
    <3>2. File(i) # File(d) /\ ~File(i).n /\ File(i).f = i /\ File(d).f = d
      BY <2>3 DEF File
    <3>3. IsAssignableNonNull(Bases, Interfaces, File(i), File(d))
      BY <3>2 DEF IsAssignable
    <3>4. IsFileClassSubtype(Bases, File(d), File(i))
      BY <3>1, <3>2, <3>3 DEF IsAssignableNonNull
    <3>5. File(i) # RootError
      BY DEF File, RootError, Type
    <3>6. i \in Ancestors(Bases, d)
      BY <3>2, <3>4, <3>5 DEF IsFileClassSubtype
    <3> QED BY <3>6, BasesAbove
  <2> QED BY <2>1, <2>2, <2>3
<1>3. {i} \cup Ancestors(Bases, i) \subseteq Lineage(i)
  BY BasesAbove
<1>4. Lineage(i) \subseteq Lineage(d)
  <2>1. LinkTable(Parents) /\ Grounded(Parents) /\ d \in 1..Len(Parents)
    BY <1>1, ParentsLink, ProgramTyped
  <2>2. CASE i = d
    BY <2>2
  <2>3. CASE i # d
    <3>1. i \in Ancestors(Parents, d)
      BY <1>2, <2>3 DEF Lineage
    <3>2. Ancestors(Parents, i) \subseteq Ancestors(Parents, d)
      BY <2>1, <3>1, AncestorsTransitive
    <3> QED BY <3>1, <3>2 DEF Lineage
  <2> QED BY <2>2, <2>3
<1> QED BY <1>3, <1>4

\* The slot of a function of a class above leads to the function that stands
\* for it.
LEMMA SlotReaches ==
  ASSUME Accepted, NEW d \in ClassIds, ~syntax[d].abstract,
         NEW o \in Lineage(d), NEW f \in PublicInstance, f \in Own(o)
  PROVE  /\ symbols[f].slot # 0
         /\ symbols[f].slot \in DOMAIN files[d].virtuals
         /\ Reaches(d, f, files[d].virtuals[symbols[f].slot])
<1>1. WellFormedProgram(syntax) /\ HierarchyFacts /\ TableFacts(d) /\ d \in FileIds
  BY DEF Accepted, ClassIds
<1>2. PICK k \in Nat : Chain(Parents, d)[k] = o /\ o # 0
  <2>1. CASE o = d
    <3>1. d # 0
      BY <1>1, ProgramTyped
    <3>2. Chain(Parents, d)[0] = d
      BY ChainValues
    <3>3. 0 \in Nat
      OBVIOUS
    <3> QED BY <2>1, <3>1, <3>2, <3>3
  <2>2. CASE o \in Ancestors(Parents, d)
    <3>1. PICK m \in 1..Len(Parents) : o = Chain(Parents, d)[m]
      BY <2>2 DEF Ancestors
    <3>2. m \in Nat
      BY <1>1, ParentsLink DEF LinkTable
    <3>3. o # 0
      BY <2>2 DEF Ancestors
    <3> QED BY <3>1, <3>2, <3>3
  <2> QED BY <2>1, <2>2 DEF Lineage
<1>3. SlotKept(d, k, f)
  BY <1>2, SlotsKept
<1> PICK n : n = symbols[f].slot
  OBVIOUS
<1> PICK g : g = files[d].virtuals[n]
  OBVIOUS
<1>4. n \in DOMAIN files[d].virtuals
  BY <1>3 DEF SlotKept
<1>9. Replaces(g, f)
  BY <1>3 DEF SlotKept
<1>5. n # 0
  BY <1>1, <1>4 DEF HierarchyFacts, FileTyped
<1>6. MostDerived(d, symbols[g].name) = g
  BY <1>4, MostDerivedEntry
<1>7. symbols[g].name = symbols[f].name
  BY ONLY <1>9 DEF Replaces
<1>8. ~symbols[g].abstract
  BY <1>1, <1>4 DEF TableFacts
<1>10. g \in Callables
  BY <1>4, TableDeclared
<1> QED BY <1>4, <1>5, <1>6, <1>7, <1>8, <1>9, <1>10 DEF Reaches

\* A call through a class is a call through the slot of the function.
LEMMA ClassCall ==
  ASSUME Accepted, NEW d \in ClassIds, ~syntax[d].abstract, descriptors[d] = ClassDescriptor(d),
         NEW i \in ClassIds, {i} \cup Ancestors(Bases, i) \subseteq Lineage(d),
         NEW c, c.st.op = "call", ~ThroughInterface(c), NEW name,
         c.callee = FindMember(i, name, 0), c.callee # 0, ~symbols[c.callee].static
  PROVE  symbols[c.callee].name = name /\ Reaches(d, c.callee, CallTarget(d, c))
<1> PICK f : f = c.callee
  OBVIOUS
<1>1. /\ WellFormedProgram(syntax) /\ HierarchyFacts /\ SymbolFacts /\ i \in FileIds
      /\ f = FindMember(i, name, 0) /\ f # 0 /\ ~symbols[f].static
  BY DEF Accepted, ClassIds
<1>2. PICK a \in {i} \cup Ancestors(Bases, i) :
        a \in FileIds /\ f \in MemberNamed(a, name) /\ (symbols[f].private => a = 0)
  BY <1>1, MemberFound
<1>3. f \in Own(a) /\ symbols[f].name = name
  BY <1>2 DEF MemberNamed, Own
<1>4. f \in DOMAIN symbols /\ symbols[f].kind = "function"
  BY <1>1, <1>2, <1>3 DEF SymbolFacts, FunctionRegistered, Own, ToSet
<1>5. f \in PublicInstance
  <2>1. a # 0
    BY <1>1, <1>2, ProgramTyped
  <2> QED BY <1>1, <1>2, <1>4, <2>1 DEF PublicInstance
<1>6. /\ symbols[f].slot # 0 /\ Reaches(d, f, files[d].virtuals[symbols[f].slot])
  <2>1. a \in Lineage(d)
    BY <1>2
  <2> QED BY <1>3, <1>5, <2>1, SlotReaches
<1>7. DispatchKind(c) = "virtual"
  BY <1>6 DEF DispatchKind
<1>8. descriptors[d].virtuals = files[d].virtuals
  BY DescriptorFields
<1>9. CallTarget(d, c) = files[d].virtuals[symbols[f].slot]
  BY <1>7, <1>8 DEF CallTarget
<1> QED BY <1>3, <1>6, <1>9

\* The index of a member of a sequence is a place that holds it.
LEMMA IndexOfMember ==
  ASSUME NEW s, Len(s) \in Nat, DOMAIN s = 1..Len(s), NEW x \in ToSet(s)
  PROVE  IndexOf(x, s) \in DOMAIN s /\ s[IndexOf(x, s)] = x
<1> DEFINE At == {j \in DOMAIN s : s[j] = x}
<1>1. At \in SUBSET Nat /\ At # {}
  BY DEF ToSet
<1>2. PICK least \in At : \A j \in At : least <= j
  <2> HIDE DEF At
  <2> QED BY <1>1, LeastNumber
<1>3. \A j \in 1..(least - 1) : s[j] # x
  <2>1. \A j \in 1..(least - 1) : j \in DOMAIN s /\ ~(least <= j)
    OBVIOUS
  <2> QED BY <1>2, <2>1
<1>4. \E j \in DOMAIN s : s[j] = x /\ \A m \in 1..(j - 1) : s[m] # x
  BY <1>2, <1>3
<1> HIDE DEF At
<1> QED BY <1>4 DEF IndexOf

\* A call through an interface is a call through the class's table for it.
LEMMA InterfaceCall ==
  ASSUME Accepted, NEW d \in ClassIds, ~syntax[d].abstract, descriptors[d] = ClassDescriptor(d),
         NEW x \in InterfaceIds, x \in Closure(d),
         NEW c, ThroughInterface(c), c.st.t.f = x, c.callee \in ToSet(files[x].contract)
  PROVE  Reaches(d, c.callee, CallTarget(d, c))
<1> PICK f : f = c.callee
  OBVIOUS
<1> PICK contract : contract = files[x].contract
  OBVIOUS
<1>1. /\ WellFormedProgram(syntax) /\ HierarchyFacts /\ d \in FileIds /\ x \in FileIds
      /\ TableFacts(d) /\ ImplementationFacts(d) /\ f \in ToSet(contract)
  BY DEF Accepted, ClassIds, InterfaceIds
<1>2. Len(contract) \in Nat /\ DOMAIN contract = 1..Len(contract)
  BY <1>1 DEF HierarchyFacts, FileTyped
<1>3. PICK k : k = IndexOf(f, contract)
  OBVIOUS
<1>4. k \in DOMAIN contract /\ contract[k] = f
  BY <1>1, <1>2, <1>3, IndexOfMember
<1>5. PICK m \in DOMAIN files[d].implementations : files[d].implementations[m].interface = x
  BY <1>1 DEF ImplementationFacts
<1>6. Meets(d, f)
  BY <1>1 DEF ImplementationFacts
<1> PICK table : table = files[d].implementations[m]
  OBVIOUS
<1> PICK at : at = FindInterfaceDispatch(descriptors[d], syntax[x].id)
  OBVIOUS
<1>7. at # 0 /\ descriptors[d].interfaces[at].functions = table.functions
  BY <1>5, TableFound
<1>8. table.interface = x /\ TableOfInterface(d, table)
  BY <1>1, <1>5 DEF ImplementationFacts
<1> PICK n : n = Matching(symbols, files[d].virtuals, f)
  OBVIOUS
<1> PICK g : g = files[d].virtuals[n]
  OBVIOUS
<1>9. table.functions[k] = g
  BY <1>4, <1>8 DEF TableOfInterface
<1>10. n # 0 /\ Replaces(g, f)
  BY <1>6 DEF Meets
<1>11. n \in DOMAIN files[d].virtuals
  <2>1. Len(files[d].virtuals) \in Nat /\ DOMAIN files[d].virtuals = 1..Len(files[d].virtuals)
    BY <1>1 DEF HierarchyFacts, FileTyped
  <2> QED BY <1>10, <2>1, MatchingEntry
<1>12. MostDerived(d, symbols[g].name) = g
  BY <1>11, MostDerivedEntry
<1>13. symbols[g].name = symbols[f].name
  BY <1>10 DEF Replaces
<1>14. ~symbols[g].abstract
  BY <1>1, <1>11 DEF TableFacts
<1>15. CallTarget(d, c) = g
  <2>1. DispatchKind(c) = "interface" /\ InterfaceSlot(c) = k
    BY <1>3 DEF DispatchKind, InterfaceSlot
  <2> QED BY <1>7, <1>9, <2>1 DEF CallTarget
<1>16. g \in Callables
  BY <1>11, TableDeclared
<1> QED BY <1>10, <1>12, <1>13, <1>14, <1>15, <1>16 DEF Reaches

\* A class stands for an interface only if its closure names the interface.
LEMMA ReceiverImplements ==
  ASSUME Accepted, NEW d \in ClassIds, NEW x \in InterfaceIds,
         IsAssignable(Bases, Interfaces, File(x), File(d))
  PROVE  x \in Closure(d)
<1>1. WellFormedProgram(syntax) /\ d \in FileIds /\ x \in FileIds /\ IsClass(d) /\ IsInterface(x)
  BY DEF Accepted, ClassIds, InterfaceIds
<1>2. x # d /\ x # Obj
  BY <1>1, ProgramTyped DEF IsClass, IsInterface
<1>3. TypeKind(File(x)) = "interface"
  BY <1>1, <1>2, FileTypeKind DEF IsInterface
<1>4. File(x) # File(d) /\ ~File(x).n /\ File(x).f = x /\ File(d).f = d
  BY <1>2 DEF File
<1>5. IsAssignableNonNull(Bases, Interfaces, File(x), File(d))
  BY <1>4 DEF IsAssignable
<1>6. IsIn(x, Interfaces[d])
  BY <1>3, <1>4, <1>5 DEF IsAssignableNonNull
<1> QED BY <1>1, <1>6 DEF IsIn, Interfaces, Closure, ToSet

\* A call on a class or interface reaches, for every object that may stand
\* there, the function that the object's class means by the name.
LEMMA CallReaches ==
  ASSUME Accepted, DescriptorFacts, phase = "run",
         NEW i \in FileIds, IsClass(i) \/ IsInterface(i), NEW name, NEW c,
         c = [by |-> 1, st |-> [op |-> "call", t |-> File(i), name |-> name],
              callee |-> MemberOf(File(i), name, 0)],
         c.callee # 0, ~symbols[c.callee].static,
         NEW d \in Receivers(File(i))
  PROVE  symbols[c.callee].name = name /\ Reaches(d, c.callee, CallTarget(d, c))
<1>1. /\ WellFormedProgram(syntax) /\ HierarchyFacts
      /\ d \in ClassIds /\ ~syntax[d].abstract /\ descriptors[d] = ClassDescriptor(d)
      /\ IsAssignable(Bases, Interfaces, File(i), File(d))
  BY DEF Accepted, DescriptorFacts, Receivers, Concrete, ClassIds
<1>2. /\ c.st.op = "call" /\ c.st.t = File(i) /\ c.st.t.f = i /\ c.st.name = name
      /\ c.callee = MemberOf(File(i), name, 0) /\ File(i).k = "file" /\ File(i).f = i
  BY DEF File
<1>3. Obj \in ClassIds /\ {Obj} \cup Ancestors(Bases, Obj) \subseteq Lineage(d)
  <2>1. Obj \in ClassIds
    BY <1>1, ProgramTyped DEF ClassIds, IsClass
  <2>2. IsAssignable(Bases, Interfaces, File(Obj), File(d))
    <3>1. CASE d = Obj
      BY <3>1 DEF IsAssignable, File, Void, Type
    <3>2. CASE d # Obj
      <4>1. TypeKind(File(Obj)) = "object" /\ TypeKind(File(d)) \in {"class", "error"}
        BY <1>1, <3>2, FileTypeKind DEF ClassIds, IsClass
      <4>2. IsAssignableNonNull(Bases, Interfaces, File(Obj), File(d))
        BY <4>1 DEF IsAssignableNonNull
      <4> QED BY <4>2 DEF IsAssignable, File, Void, Type
    <3> QED BY <3>1, <3>2
  <2> QED BY <1>1, <2>1, <2>2, ReceiverAbove
<1>4. ASSUME ~ThroughInterface(c), c.callee = FindMember(Obj, name, 0)
      PROVE  symbols[c.callee].name = name /\ Reaches(d, c.callee, CallTarget(d, c))
  BY <1>1, <1>2, <1>3, <1>4, ClassCall
<1>5. CASE IsClass(i)
  <2>1. TypeKind(File(i)) # "interface" /\ TypeKind(File(i)) # "struct"
    BY <1>5, FileTypeKind DEF IsClass
  <2>2. ~ThroughInterface(c)
    BY <1>2, <2>1 DEF ThroughInterface
  <2>3. c.callee = FindMember(i, name, 0) \/ c.callee = FindMember(Obj, name, 0)
    BY <1>2, <2>1 DEF MemberOf
  <2>4. i \in ClassIds /\ {i} \cup Ancestors(Bases, i) \subseteq Lineage(d)
    <3>1. i \in ClassIds
      BY <1>5 DEF ClassIds
    <3> QED BY <1>1, <3>1, ReceiverAbove
  <2>5. CASE c.callee = FindMember(i, name, 0)
    BY <1>1, <1>2, <2>2, <2>4, <2>5, ClassCall
  <2> QED BY <1>4, <2>2, <2>3, <2>5
<1>6. CASE IsInterface(i)
  <2>1. i # Obj
    BY <1>1, <1>6, ProgramTyped DEF IsInterface
  <2>2. TypeKind(File(i)) = "interface"
    BY <1>6, <2>1, FileTypeKind DEF IsInterface
  <2>3. CASE ContractNamed(i, name) = {}
    <3>1. ~ThroughInterface(c)
      BY <1>2, <2>3 DEF ThroughInterface
    <3>2. c.callee = FindMember(Obj, name, 0)
      BY <1>2, <2>2, <2>3 DEF MemberOf
    <3> QED BY <1>4, <3>1, <3>2
  <2>4. CASE ContractNamed(i, name) # {}
    <3>1. ThroughInterface(c)
      BY <1>2, <2>2, <2>4 DEF ThroughInterface
    <3>2. OneOf(ContractNamed(i, name)) \in ContractNamed(i, name)
      BY <2>4 DEF OneOf
    <3>3. c.callee = OneOf(ContractNamed(i, name))
      <4>1. OneOf(ContractNamed(i, name)) # 0
        <5>1. ContractFacts(i, InterfaceIds)
          BY <1>6 DEF Accepted, InterfaceIds
        <5>2. OneOf(ContractNamed(i, name)) \in DOMAIN symbols
          BY <3>2, <5>1 DEF ContractFacts, ContractNamed, PublicInstance
        <5> QED BY <5>2 DEF Accepted, SymbolFacts
      <4> QED BY <1>2, <2>2, <2>4, <4>1 DEF MemberOf
    <3>4. c.callee \in ToSet(files[i].contract) /\ symbols[c.callee].name = name
      BY <3>2, <3>3 DEF ContractNamed
    <3>5. i \in InterfaceIds /\ i \in Closure(d)
      <4>1. i \in InterfaceIds
        BY <1>6 DEF InterfaceIds
      <4> QED BY <1>1, <4>1, ReceiverImplements
    <3> QED BY <1>1, <1>2, <3>1, <3>4, <3>5, InterfaceCall
  <2> QED BY <2>3, <2>4
<1> QED BY <1>5, <1>6

\* Every call through a class or an interface runs the most-derived override
\* of the object's class, through the slot number and through the table that
\* the binary search of find_interface_dispatch finds alike; the override has
\* a body, returns what the declaration called returns and throws nothing that
\* the declaration does not.
LEMMA CallsExact ==
  ASSUME SemaInv, DescriptorFacts
  PROVE  DispatchExact
<1> SUFFICES ASSUME Linked, NEW c \in PossibleCalls, ~symbols[c.callee].static,
                    NEW d \in Receivers(c.st.t)
             PROVE  LET target == CallTarget(d, c) IN
                    /\ target = MostDerived(d, c.st.name)
                    /\ ~symbols[target].abstract
                    /\ IsOverrideReturnCompatible(Bases, Interfaces, symbols[c.callee].type,
                                                  symbols[target].type)
                    /\ ThrowsSetCovers(Bases, symbols[c.callee].throws, symbols[target].throws)
  BY DEF DispatchExact
<1>1. phase = "run" /\ Accepted
  BY AcceptedPrograms DEF Linked
<1>2. PICK i \in FileIds, name \in Names :
        /\ IsClass(i) \/ IsInterface(i)
        /\ c = [by |-> 1, st |-> [op |-> "call", t |-> File(i), name |-> name],
                callee |-> MemberOf(File(i), name, 0)]
        /\ c.callee # 0
  BY DEF PossibleCalls
<1>3. c.st.t = File(i) /\ c.st.name = name
  BY <1>2
<1>4. symbols[c.callee].name = name /\ Reaches(d, c.callee, CallTarget(d, c))
  BY <1>1, <1>2, <1>3, CallReaches
<1> QED BY <1>3, <1>4 DEF Reaches, Replaces

\* Dispatch is exact in every program the compiler accepts.
THEOREM DispatchIsExact == Spec => []DispatchExact
<1>1. Init => SemaInv /\ DescriptorFacts
  BY SemaStarts DEF Init, SemaInit, DescriptorFacts
<1>2. SemaInv /\ DescriptorFacts /\ [Next]_vars => (SemaInv /\ DescriptorFacts)'
  BY SemaPersists, DescriptorsStay
<1>3. SemaInv /\ DescriptorFacts => DispatchExact
  BY CallsExact
<1> QED BY <1>1, <1>2, <1>3, PTL DEF Spec

-----------------------------------------------------------------------------
(* Errors *)

\* A file whose reference an object may stand for is a class above the object's.
LEMMA ReceiverClass ==
  ASSUME Accepted, NEW i \in FileIds, ~IsInterface(i), NEW d \in Receivers(File(i))
  PROVE  d \in ClassIds /\ i \in ClassIds /\ {i} \cup Ancestors(Bases, i) \subseteq Lineage(d)
<1>1. /\ WellFormedProgram(syntax) /\ d \in ClassIds
      /\ IsAssignable(Bases, Interfaces, File(i), File(d))
  BY DEF Accepted, Receivers, Concrete, ClassIds
<1>2. i \in ClassIds
  <2> SUFFICES ASSUME ~IsClass(i) PROVE FALSE
    BY DEF ClassIds
  <2>1. i # d /\ i # Obj /\ TypeKind(File(i)) = syntax[i].kind /\ syntax[i].kind \in {"struct", "enum"}
    BY <1>1, ProgramTyped, FileTypeKind DEF IsClass, IsInterface, ClassIds
  <2>2. File(i) # File(d) /\ ~File(i).n
    BY <2>1 DEF File
  <2>3. IsAssignableNonNull(Bases, Interfaces, File(i), File(d))
    BY <1>1, <2>2 DEF IsAssignable
  <2> QED BY <2>1, <2>2, <2>3 DEF IsAssignableNonNull
<1> QED BY <1>1, <1>2, ReceiverAbove

\* Where the function a statement names is declared: in the contract of an
\* interface, or in a class above every object that may stand there.
LEMMA CalleeOrigin ==
  ASSUME Accepted, NEW s \in Callables, NEW st \in ToSet(Statements(s)), st.op # "throw",
         NEW c, c = [by |-> s, st |-> st, callee |-> Callee(symbols[s].file, st)],
         NEW receivers, receivers = IF st.op = "call" THEN Receivers(st.t)
                                    ELSE Receivers(File(symbols[s].file))
  PROVE  /\ c.callee \in CalledSymbols(s)
         /\ ThroughInterface(c) =>
              /\ st.t.f \in InterfaceIds /\ st.t = File(st.t.f)
              /\ c.callee \in ToSet(files[st.t.f].contract)
         /\ ~ThroughInterface(c) =>
              \E a \in FileIds :
                /\ c.callee \in Own(a)
                /\ st.op # "super" => \A d \in receivers : d \in ClassIds /\ a \in Lineage(d)
<1> PICK owner : owner = symbols[s].file
  OBVIOUS
<1> PICK f : f = c.callee
  OBVIOUS
<1>1. /\ WellFormedProgram(syntax) /\ HierarchyFacts /\ SymbolFacts /\ Resolved
      /\ \A x \in InterfaceIds : ContractFacts(x, InterfaceIds)
      /\ Obj \in ClassIds /\ Obj \in FileIds
  BY ProgramTyped DEF Accepted, Resolved, ClassIds, IsClass
<1>2. owner \in FileIds /\ st \in StatementsOf(syntax) /\ f = Callee(owner, st) /\ f # 0
  BY <1>1, StatementsOfCallable DEF StatementAllowed
<1>3. /\ c.by = s /\ c.st = st /\ c.callee = f /\ st.t \in TypesOf(syntax)
      /\ st.op \in {"call", "self", "super"}
  BY <1>2 DEF StatementsOf
<1>4. f \in CalledSymbols(s)
  BY <1>2 DEF CalledSymbols
<1>5. ThroughInterface(c) =>
        /\ st.t.f \in InterfaceIds /\ st.t = File(st.t.f)
        /\ f \in ToSet(files[st.t.f].contract)
  <2> SUFFICES ASSUME ThroughInterface(c)
               PROVE  /\ st.t.f \in InterfaceIds /\ st.t = File(st.t.f)
                      /\ f \in ToSet(files[st.t.f].contract)
    OBVIOUS
  <2>1. st.op = "call" /\ TypeKind(st.t) = "interface" /\ ContractNamed(st.t.f, st.name) # {}
    BY <1>3 DEF ThroughInterface
  <2>2. st.t.f \in InterfaceIds /\ st.t = File(st.t.f)
    BY <1>1, <1>3, <2>1, NominalTypes DEF InterfaceIds, IsInterface
  <2>3. OneOf(ContractNamed(st.t.f, st.name)) \in ContractNamed(st.t.f, st.name)
    BY <2>1 DEF OneOf
  <2>4. OneOf(ContractNamed(st.t.f, st.name)) # 0
    <3>1. OneOf(ContractNamed(st.t.f, st.name)) \in DOMAIN symbols
      BY <1>1, <2>2, <2>3 DEF ContractFacts, ContractNamed, PublicInstance
    <3> QED BY <1>1, <3>1 DEF SymbolFacts
  <2>5. f = OneOf(ContractNamed(st.t.f, st.name))
    BY <1>2, <2>1, <2>4 DEF Callee, MemberOf, HasMembers
  <2> QED BY <2>2, <2>3, <2>5 DEF ContractNamed
\* A member found from file i is declared by i or a class above it.
<1>6. ASSUME NEW i \in FileIds, NEW name, NEW from, f = FindMember(i, name, from)
      PROVE  \E a \in FileIds : f \in Own(a) /\ a \in {i} \cup Ancestors(Bases, i)
  BY <1>1, <1>2, <1>6, MemberFound DEF MemberNamed, Own
<1>7. ASSUME NEW d \in ClassIds PROVE {Obj} \cup Ancestors(Bases, Obj) \subseteq Lineage(d)
  BY <1>7, ObjectAbove, LineageOfClasses
<1>8. ASSUME ~ThroughInterface(c), st.op = "call"
      PROVE  \E a \in FileIds : f \in Own(a) /\ \A d \in receivers : d \in ClassIds /\ a \in Lineage(d)
  <2>1. receivers = Receivers(st.t) /\ \A d \in receivers : d \in ClassIds
    BY <1>8 DEF Receivers, Concrete, ClassIds
  <2>2. CASE f = FindMember(Obj, st.name, 0)
    <3>1. PICK a \in FileIds : f \in Own(a) /\ a \in {Obj} \cup Ancestors(Bases, Obj)
      BY <1>1, <1>6, <2>2
    <3> QED BY <1>7, <2>1, <3>1
  <2>3. CASE f # FindMember(Obj, st.name, 0)
    <3>1. f = MemberOf(st.t, st.name, owner)
      BY <1>2, <1>8 DEF Callee
    <3>2. TypeKind(st.t) = "interface" => ContractNamed(st.t.f, st.name) = {}
      BY <1>3, <1>8 DEF ThroughInterface
    <3>3. /\ HasMembers(st.t) /\ st.t.k = "file" /\ TypeKind(st.t) # "interface"
          /\ f = FindMember(st.t.f, st.name, owner)
      BY <1>2, <2>3, <3>1, <3>2 DEF MemberOf
    <3> PICK i : i = st.t.f
      OBVIOUS
    <3>4. i \in FileIds /\ st.t = File(i)
      <4>1. st.t.n = FALSE
        <5>1. ~st.t.n
          BY <3>3 DEF HasMembers, TypeKind
        <5>2. st.t.n \in BOOLEAN
          BY <1>3 DEF TypesOf
        <5> QED BY <5>1, <5>2
      <4>2. st.t.f \in FileIds
        BY <1>3, <3>3 DEF TypesOf, FileIds, ScalarNames
      <4>3. st.t = [k |-> st.t.k, f |-> st.t.f, n |-> st.t.n]
        BY <1>3 DEF TypesOf
      <4> QED BY <3>3, <4>1, <4>2, <4>3 DEF File
    <3>5. ~IsInterface(i)
      BY <1>1, <3>3, <3>4, FileTypeKind, ProgramTyped DEF IsInterface
    <3>6. PICK a \in FileIds : f \in Own(a) /\ a \in {i} \cup Ancestors(Bases, i)
      BY <1>6, <3>3, <3>4
    <3>7. \A d \in receivers : d \in ClassIds /\ {i} \cup Ancestors(Bases, i) \subseteq Lineage(d)
      BY <2>1, <3>4, <3>5, ReceiverClass
    <3> QED BY <3>6, <3>7
  <2> QED BY <2>2, <2>3
<1>9. ASSUME st.op = "self"
      PROVE  \E a \in FileIds : f \in Own(a) /\ \A d \in receivers : d \in ClassIds /\ a \in Lineage(d)
  <2>1. receivers = Receivers(File(owner)) /\ f = FindMember(owner, st.name, owner)
    BY <1>2, <1>9 DEF Callee
  <2>2. PICK a \in FileIds : f \in Own(a) /\ a \in {owner} \cup Ancestors(Bases, owner)
    BY <1>2, <1>6, <2>1
  <2>3. ~IsInterface(owner)
    <3> SUFFICES ASSUME IsInterface(owner) PROVE FALSE
      OBVIOUS
    <3>1. symbols[s].kind = "function" /\ symbols[s].body = <<>>
      BY <1>1 DEF SymbolFacts, WellTyped, Callables
    <3>2. Statements(s) = <<>>
      BY <3>1 DEF Statements
    <3> QED BY <3>2 DEF ToSet
  <2>4. \A d \in receivers : d \in ClassIds /\ {owner} \cup Ancestors(Bases, owner) \subseteq Lineage(d)
    BY <1>2, <2>1, <2>3, ReceiverClass
  <2> QED BY <2>2, <2>4
<1>10. ASSUME st.op = "super" PROVE \E a \in FileIds : f \in Own(a)
  <2>1. files[owner].base # 0 /\ f = FindMember(files[owner].base, st.name, owner)
    BY <1>2, <1>10 DEF Callee
  <2>2. files[owner].base \in FileIds
    BY <1>1, <1>2, <2>1, ProgramTyped DEF HierarchyFacts, FileTyped
  <2> QED BY <1>6, <2>1, <2>2
<1> QED BY <1>3, <1>4, <1>5, <1>8, <1>9, <1>10

\* What runs is declared, and throws nothing that the callable called, or the
\* base constructor, does not declare.
LEMMA RunsCovered ==
  ASSUME Accepted, DescriptorFacts, phase = "run", NEW s \in Callables, NEW f \in MayRun(s)
  PROVE  /\ f \in Callables
         /\ ThrowsSetCovers(Bases, symbols[s].throws, symbols[f].throws)
<1>1. /\ WellFormedProgram(syntax) /\ HierarchyFacts /\ SymbolFacts /\ Resolved /\ EffectFacts
      /\ \A i \in ClassIds : ~syntax[i].abstract => i \in Concrete
  BY DEF Accepted, Resolved, Concrete, ClassIds
<1>2. \A g \in DOMAIN symbols : symbols[g].throws \in SUBSET Errors
  BY <1>1 DEF SymbolFacts, WellTyped, IsError, Errors
<1>3. \E g \in CalledSymbols(s) : /\ f \in Callables
                                  /\ ThrowsSetCovers(Bases, symbols[g].throws, symbols[f].throws)
  <2>1. CASE f = symbols[s].baseConstructor /\ f # 0
    <3>1. f \in CalledSymbols(s)
      BY <2>1 DEF CalledSymbols
    <3>2. f \in Callables
      BY <1>1, <2>1 DEF Resolved, DefinitionFacts, BaseConstructorDeclared, Callables
    <3>3. symbols[f].throws \in SUBSET Errors
      BY <1>2, <3>2 DEF Callables
    <3> QED BY <3>1, <3>2, <3>3, CoversSubset
  <2>2. CASE ~(f = symbols[s].baseConstructor /\ f # 0)
    <3>1. PICK c \in CallsOf(s) : f \in RunByCall(c)
      BY <2>2 DEF MayRun
    <3>2. PICK st \in ToSet(Statements(s)) :
            st.op # "throw" /\ c = [by |-> s, st |-> st, callee |-> Callee(symbols[s].file, st)]
      BY DEF CallsOf
    <3> PICK receivers : receivers = IF st.op = "call" THEN Receivers(st.t)
                                     ELSE Receivers(File(symbols[s].file))
      OBVIOUS
    <3> PICK g : g = c.callee
      OBVIOUS
    <3>3. c.st = st /\ c.by = s
      BY <3>2
    <3>4. f \in IF DispatchKind(c) = "direct" THEN {g} ELSE {CallTarget(d, c) : d \in receivers}
      BY <3>1, <3>3 DEF RunByCall
    <3>5. /\ g \in CalledSymbols(s)
          /\ ThroughInterface(c) => /\ st.t.f \in InterfaceIds /\ st.t = File(st.t.f)
                                    /\ g \in ToSet(files[st.t.f].contract)
          /\ ~ThroughInterface(c) =>
               \E a \in FileIds :
                 /\ g \in Own(a)
                 /\ st.op # "super" => \A d \in receivers : d \in ClassIds /\ a \in Lineage(d)
      BY <3>2, CalleeOrigin
    <3>6. \A d \in receivers : /\ d \in ClassIds /\ ~syntax[d].abstract
                               /\ descriptors[d] = ClassDescriptor(d)
      <4>1. \A d \in receivers : d \in Concrete
        BY DEF Receivers
      <4> QED BY <4>1 DEF Concrete, ClassIds, DescriptorFacts
    <3>7. ASSUME NEW d \in receivers, Reaches(d, g, f)
          PROVE  f \in Callables /\ ThrowsSetCovers(Bases, symbols[g].throws, symbols[f].throws)
      BY <3>7 DEF Reaches, Replaces
    <3>8. CASE ThroughInterface(c)
      <4>1. DispatchKind(c) = "interface"
        BY <3>8 DEF DispatchKind
      <4>2. PICK d \in receivers : f = CallTarget(d, c)
        BY <3>4, <4>1
      <4> PICK x : x = st.t.f
        OBVIOUS
      <4>3. x \in InterfaceIds /\ st.t = File(x) /\ st.op = "call"
        BY <3>3, <3>5, <3>8 DEF ThroughInterface
      <4>4. IsAssignable(Bases, Interfaces, File(x), File(d))
        BY <4>3 DEF Receivers
      <4>5. x \in Closure(d)
        BY <3>6, <4>3, <4>4, ReceiverImplements
      <4>6. c.st.t.f = x /\ c.callee \in ToSet(files[x].contract)
        BY <3>3, <3>5, <3>8
      <4>7. Reaches(d, g, f)
        BY <3>6, <3>8, <4>2, <4>3, <4>5, <4>6, InterfaceCall
      <4> QED BY <3>5, <3>7, <4>7
    <3>9. CASE ~ThroughInterface(c)
      <4>1. PICK a \in FileIds :
              /\ g \in Own(a)
              /\ st.op # "super" => \A d \in receivers : d \in ClassIds /\ a \in Lineage(d)
        BY <3>5, <3>9
      <4>2. g \in DOMAIN symbols /\ symbols[g].declared
        BY <1>1, <4>1 DEF SymbolFacts, FunctionRegistered, Own, ToSet
      <4>3. CASE DispatchKind(c) = "direct"
        <5>1. f = g
          BY <3>4, <4>3
        <5>2. symbols[g].throws \in SUBSET Errors
          BY <1>2, <4>2
        <5> QED BY <3>5, <4>2, <5>1, <5>2, CoversSubset DEF Callables
      <4>4. CASE DispatchKind(c) # "direct"
        <5>1. DispatchKind(c) = "virtual" /\ symbols[g].slot # 0 /\ st.op # "super"
          BY <3>3, <3>9, <4>4 DEF DispatchKind
        <5>2. PICK d \in receivers : f = CallTarget(d, c)
          BY <3>4, <4>4
        <5>3. g \in PublicInstance
          BY <1>1, <4>2, <5>1 DEF SymbolFacts, WellTyped, PublicInstance
        <5>4. d \in ClassIds /\ a \in Lineage(d)
          BY <4>1, <5>1
        <5>5. Reaches(d, g, files[d].virtuals[symbols[g].slot])
          BY <3>6, <4>1, <5>3, <5>4, SlotReaches
        <5>6. f = files[d].virtuals[symbols[g].slot]
          BY <3>6, <5>1, <5>2, DescriptorFields DEF CallTarget
        <5> QED BY <3>5, <3>7, <5>5, <5>6
      <4> QED BY <4>3, <4>4
    <3> QED BY <3>8, <3>9
  <2> QED BY <2>1, <2>2
<1>4. PICK g \in CalledSymbols(s) : /\ f \in Callables
                                    /\ ThrowsSetCovers(Bases, symbols[g].throws, symbols[f].throws)
  BY <1>3
<1>5. ThrowsSetCovers(Bases, symbols[s].throws, symbols[g].throws)
  BY <1>1, <1>4 DEF EffectFacts, Escaping, ThrowsSetCovers
<1>6. symbols[f].throws \in SUBSET Errors
  BY <1>2, <1>4 DEF Callables
<1> QED BY <1>1, <1>4, <1>5, <1>6, CoversTransitive

\* What escapes after as many calls as k, of callables that declare it.
LEMMA EscapesCovered ==
  ASSUME SemaInv, DescriptorFacts
  PROVE  EffectsSound
<1> SUFFICES ASSUME Linked PROVE EffectsSound
  BY DEF EffectsSound
<1>1. Accepted /\ phase = "run"
  BY AcceptedPrograms DEF Linked
<1>2. /\ WellFormedProgram(syntax) /\ HierarchyFacts /\ SymbolFacts /\ Resolved /\ EffectFacts
      /\ Len(symbols) \in Nat
  BY <1>1 DEF Accepted, Resolved, SymbolFacts
<1>3. \A s \in Callables : MayRun(s) \subseteq Callables
  BY <1>1, RunsCovered
<1> DEFINE V == [Callables -> SUBSET Errors]
           More(v) == [s \in Callables |-> v[s] \cup UNION {v[f] : f \in MayRun(s)}]
           direct == [s \in Callables |-> DirectErrors(s)]
           step == [x \in Nat \X V |-> More(x[2])]
           at(u, k) == [s \in Callables |->
                          IF k = 0 THEN DirectErrors(s)
                          ELSE u[k - 1][s] \cup UNION {u[k - 1][f] : f \in MayRun(s)}]
           Loop(u) == u = [k \in Nat |-> at(u, k)]
           loop == CHOOSE u : Loop(u)
<1>4. direct \in V
  BY <1>2, EffectsTyped
<1>5. ASSUME NEW v \in V PROVE More(v) \in V
  <2>1. ASSUME NEW s \in Callables PROVE v[s] \cup UNION {v[f] : f \in MayRun(s)} \in SUBSET Errors
    BY <1>3
  <2> QED BY <2>1
<1>6. step \in [Nat \X V -> V]
  <2> HIDE DEF V, More
  <2> QED BY <1>5
<1>7. PICK f \in [Nat -> V] : f[0] = direct /\ \A k \in Nat : f[k + 1] = step[<<k + 1, f[k]>>]
  <2> HIDE DEF step, V, direct
  <2>1. \E f : LoopOf(f, V, direct, step)
    BY ONLY <1>4, <1>6, LoopExists
  <2> QED BY <2>1 DEF LoopOf
<1>8. \A k \in Nat : f[k] \in V /\ f[k + 1] = More(f[k])
  <2> HIDE DEF V, More
  <2> SUFFICES ASSUME NEW k \in Nat PROVE f[k] \in V /\ f[k + 1] = More(f[k])
    OBVIOUS
  <2>1. f[k] \in V /\ k + 1 \in Nat
    OBVIOUS
  <2>2. <<k + 1, f[k]>> \in Nat \X V
    BY <2>1
  <2>3. step[<<k + 1, f[k]>>] = More(f[k])
    BY <2>2
  <2>4. f[k + 1] = step[<<k + 1, f[k]>>]
    BY <1>7
  <2> QED BY <2>1, <2>3, <2>4
<1>9. Loop(f)
  <2>1. \A k \in Nat : f[k] = at(f, k)
    <3> SUFFICES ASSUME NEW k \in Nat PROVE f[k] = at(f, k)
      OBVIOUS
    <3>1. CASE k = 0
      BY <1>7, <3>1
    <3>2. CASE k # 0
      <4>1. k - 1 \in Nat /\ (k - 1) + 1 = k
        BY <3>2
      <4>2. f[k] = More(f[k - 1])
        <5> HIDE DEF More
        <5> QED BY <1>8, <4>1
      <4> QED BY <3>2, <4>2
    <3> QED BY <3>1, <3>2
  <2> HIDE DEF V, at
  <2> QED BY <2>1
<1>10. Loop(loop)
  <2> HIDE DEF Loop
  <2> QED BY <1>9
<1>11. \A k \in Nat : loop[k] = f[k]
  <2> DEFINE S == {k \in Nat : loop[k] # f[k]}
  <2>1. loop[0] = direct /\ \A k \in Nat : loop[k + 1] = More(loop[k])
    <3> PICK u : u = loop
      OBVIOUS
    <3>1. u = [k \in Nat |-> at(u, k)]
      <4>1. Loop(u)
        <5> HIDE DEF Loop
        <5> QED BY <1>10
      <4> QED BY <4>1
    <3> HIDE DEF loop, Loop
    <3>2. ASSUME NEW k \in Nat PROVE u[k + 1] = More(u[k])
      <4>1. k + 1 \in Nat /\ k + 1 # 0 /\ (k + 1) - 1 = k
        OBVIOUS
      <4>2. u[k + 1] = at(u, k + 1)
        <5> HIDE DEF at
        <5> QED BY <3>1, <4>1
      <4>3. at(u, k + 1) = More(u[k])
        BY <4>1
      <4> HIDE DEF at, More
      <4> QED BY <4>2, <4>3
    <3>3. u[0] = direct
      <4>1. u[0] = at(u, 0)
        <5> HIDE DEF at
        <5> QED BY <3>1
      <4> QED BY <4>1
    <3> HIDE DEF More, direct, at
    <3> QED BY <3>2, <3>3
  <2> HIDE DEF loop, More, direct, V
  <2>2. 0 \notin S
    BY <1>7, <2>1
  <2>3. ASSUME NEW k \in Nat, k + 1 \in S PROVE k \in S
    BY <1>8, <2>1, <2>3
  <2>4. S = {}
    <3>1. S \in SUBSET Nat
      OBVIOUS
    <3> HIDE DEF S
    <3> QED BY <2>2, <2>3, <3>1, NoException
  <2> QED BY <2>4
<1> DEFINE Bound(v) == \A s \in Callables : ThrowsSetCovers(Bases, symbols[s].throws, v[s])
<1>12. Bound(direct)
  BY <1>2 DEF EffectFacts, Escaping, ThrowsSetCovers
<1>13. ASSUME NEW v \in V, Bound(v) PROVE Bound(More(v))
  <2> SUFFICES ASSUME NEW s \in Callables, NEW t \in More(v)[s]
               PROVE  ThrowsSetCovers(Bases, symbols[s].throws, {t})
    BY DEF ThrowsSetCovers
  <2>1. CASE t \in v[s]
    BY <1>13, <2>1 DEF ThrowsSetCovers
  <2>2. CASE \E g \in MayRun(s) : t \in v[g]
    <3>1. PICK g \in MayRun(s) : t \in v[g]
      BY <2>2
    <3>2. g \in Callables /\ ThrowsSetCovers(Bases, symbols[s].throws, symbols[g].throws)
      BY <1>1, RunsCovered
    <3>3. {t} \in SUBSET Errors
      BY <3>1, <3>2
    <3>4. ThrowsSetCovers(Bases, symbols[g].throws, {t})
      BY <1>13, <3>1, <3>2 DEF ThrowsSetCovers
    <3> QED BY <1>2, <3>2, <3>3, <3>4, CoversTransitive
  <2> QED BY <2>1, <2>2
<1>14. \A k \in Nat : Bound(f[k])
  <2> DEFINE S == {k \in Nat : ~Bound(f[k])}
  <2> HIDE DEF Bound, More, V, direct
  <2>1. 0 \notin S
    BY <1>7, <1>12
  <2>2. \A k \in Nat : k + 1 \in S => k \in S
    BY <1>8, <1>13
  <2>3. S = {}
    <3>1. S \in SUBSET Nat
      OBVIOUS
    <3> HIDE DEF S
    <3> QED BY <2>1, <2>2, <3>1, NoException
  <2> QED BY <2>3
<1>15. Bound(loop[Len(symbols)])
  <2> HIDE DEF loop, Bound
  <2> QED BY <1>2, <1>11, <1>14
<1>16. Callables = {s \in DOMAIN symbols : symbols[s].declared}
  BY DEF Callables
<1> QED BY <1>15, <1>16 DEF EffectsSound

\* No error escapes a callable of an accepted program that its declaration, or
\* what is inferred for it, does not cover: not through an override, a contract,
\* a base constructor, a field initializer or recursion.
THEOREM ErrorsStayChecked == Spec => []EffectsSound
<1>1. Init => SemaInv /\ DescriptorFacts
  BY SemaStarts DEF Init, SemaInit, DescriptorFacts
<1>2. SemaInv /\ DescriptorFacts /\ [Next]_vars => (SemaInv /\ DescriptorFacts)'
  BY SemaPersists, DescriptorsStay
<1>3. SemaInv /\ DescriptorFacts => EffectsSound
  BY EscapesCovered
<1> QED BY <1>1, <1>2, <1>3, PTL DEF Spec

-----------------------------------------------------------------------------
(* Type tests *)

\* Object implements no interface: it names none and has no base.
ObjectPlain ==
  errors = {} =>
    /\ phase \in AfterRelationships => ToSet(files[Obj].direct) = {}
    /\ phase \in AfterClosures => Closure(Obj) = {}

\* Every pass leaves Object without an interface.
LEMMA ObjectStaysPlain ==
  ASSUME SemaInv, ObjectPlain, [Next]_vars
  PROVE  ObjectPlain'
<1> USE DEF AfterRelationships, AfterMembers, AfterContracts, AfterClosures, AfterOverrides,
            AfterConformance, AfterDefinitions, AfterEffects
<1> SUFFICES ASSUME errors' = {}
             PROVE  /\ phase' \in AfterRelationships => ToSet(files'[Obj].direct) = {}
                    /\ phase' \in AfterClosures => ToSet(files'[Obj].interfaces) = {}
  BY DEF ObjectPlain, Closure
<1>1. WellFormedProgram(syntax) /\ Obj \in FileIds /\ IsClass(Obj) /\ ~IsInterface(Obj)
  BY ProgramTyped DEF SemaInv, IsClass, IsInterface
<1>2. ASSUME errors = {}, phase \in AfterRelationships,
             files'[Obj].direct = files[Obj].direct, files'[Obj].interfaces = files[Obj].interfaces,
             phase' \in AfterClosures => phase \in AfterClosures
      PROVE  /\ phase' \in AfterRelationships => ToSet(files'[Obj].direct) = {}
             /\ phase' \in AfterClosures => ToSet(files'[Obj].interfaces) = {}
  BY <1>2 DEF ObjectPlain, Closure
<1>3. CASE SemaNext
  <2>1. errors = {} /\ PassFacts
    BY <1>3, ErrorsStay DEF SemaInv
  <2>2. phase \in AfterRelationships => HierarchyFacts
    BY <2>1 DEF PassFacts
  <2>3. phase \in AfterRelationships => DOMAIN files = FileIds /\ DOMAIN files[Obj] = FileFields
    BY <1>1, <2>2 DEF HierarchyFacts, FileTyped
  <2>4. CASE RegisterTypeRelationships
    <3>1. phase' = "members" /\ files'[Obj].direct = DirectInterfaces(Obj)
      BY <1>1, <2>4 DEF RegisterTypeRelationships
    <3>2. DirectInterfaces(Obj) = <<>>
      <4>1. syntax[Obj].interfaces = <<>>
        BY <1>1 DEF WellFormedProgram
      <4>2. PICK f : DirectSteps(Obj, f, 0) /\ DirectInterfaces(Obj) = f[0]
        BY <4>1, DirectInterfacesUnfolds
      <4> QED BY <4>2 DEF DirectSteps
    <3> QED BY <3>1, <3>2 DEF ToSet
  <2>5. CASE RegisterMembers
    <3>1. phase = "members" /\ phase' = "contracts"
      BY ONLY <2>5, Zenon DEF RegisterMembers
    <3> DEFINE first(i) == Len(SymbolsUpTo(i - 1))
               count(i) == Len(syntax[i].functions)
               numbered(i) == [n \in DOMAIN syntax[i].functions |-> first(i) + n]
               ctor(i) == IF syntax[i].constructors = <<>> THEN 0 ELSE first(i) + count(i) + 1
    <3>4. files' = [i \in FileIds |->
                     [files[i] EXCEPT !.functions = numbered(i), !.constructor = ctor(i)]]
      BY ONLY <2>5, Zenon DEF RegisterMembers
    <3> HIDE DEF numbered, ctor
    <3>2. files'[Obj] = [files[Obj] EXCEPT !.functions = numbered(Obj), !.constructor = ctor(Obj)]
      BY <1>1, <3>4
    <3>3. files'[Obj].direct = files[Obj].direct /\ files'[Obj].interfaces = files[Obj].interfaces
      BY <2>3, <3>1, <3>2 DEF FileFields
    <3> QED BY <1>2, <2>1, <3>1, <3>3
  <2>6. CASE ValidateInterfaceContract
    <3>1. phase = "contracts" /\ phase' = "contracts"
      BY <2>6 DEF ValidateInterfaceContract
    <3>2. PICK i \in pass.at .. Len(syntax) : ContractReady(i) /\ CompleteContract(i)
      BY <2>6 DEF ValidateInterfaceContract
    <3>3. i # Obj
      BY <1>1, <3>2 DEF ContractReady, ContractPending
    <3>4. \E x, y : files' = [files EXCEPT ![i].interfaces = x, ![i].contract = y]
      BY <3>2 DEF CompleteContract
    <3>5. files'[Obj] = files[Obj]
      BY <1>1, <2>3, <3>1, <3>3, <3>4
    <3> QED BY <1>2, <2>1, <3>1, <3>5
  <2>7. CASE NextContractRound
    <3>1. phase = "contracts" /\ phase' = "contracts" /\ files' = files
      BY <2>7 DEF NextContractRound
    <3> QED BY <1>2, <2>1, <3>1
  <2>8. CASE EndContracts
    <3>1. phase = "contracts" /\ phase' = "closures"
      BY ONLY <2>8, Zenon DEF EndContracts
    <3>2. ~ContractPending(Obj)
      BY <1>1 DEF ContractPending
    <3>4. files' = [i \in FileIds |-> IF ContractPending(i)
             THEN [files[i] EXCEPT !.direct = <<>>, !.interfaces = <<i>>,
                                   !.contract = files[i].functions]
             ELSE files[i]]
      BY ONLY <2>8, Zenon DEF EndContracts
    <3>3. files'[Obj] = files[Obj]
      BY <1>1, <3>2, <3>4
    <3> QED BY <1>2, <2>1, <3>1, <3>3
  <2>9. CASE CloseClassInterfaces
    <3>1. phase = "closures" /\ phase' = "overrides"
      BY <2>9 DEF CloseClassInterfaces
    <3>2. files'[Obj] = [files[Obj] EXCEPT !.interfaces = ClassClosures[Obj]]
      BY <1>1, <2>9 DEF CloseClassInterfaces
    <3>3. files'[Obj].direct = files[Obj].direct /\ files'[Obj].interfaces = ClassClosures[Obj]
      BY <2>3, <3>1, <3>2 DEF FileFields
    <3>4. ToSet(files[Obj].direct) = {} /\ HierarchyFacts
      BY <2>1, <2>2, <3>1 DEF ObjectPlain
    <3>5. ClassClosures[Obj] = AppendNew(<<>>, DirectClosures(Obj))
      <4>1. Len(syntax) \in Nat /\ Len(syntax) # 0
        BY <1>1, ProgramTyped
      <4>2. PICK f : ClosureSteps(f, Len(syntax)) /\ ClassClosures = f[Len(syntax)]
        BY <4>1, ClosuresUnfold
      <4>3. ClassClosures = ClosedOnce(f[Len(syntax) - 1])
        BY <4>1, <4>2 DEF ClosureSteps
      <4>4. files[Obj].base = 0
        BY <3>4 DEF HierarchyFacts
      <4> QED BY <1>1, <4>3, <4>4 DEF ClosedOnce
    <3>6. DirectClosures(Obj) \in Seq(FileIds) /\ ToSet(DirectClosures(Obj)) = {}
      BY <1>1, <3>4, DirectClosuresElements
    <3>7. ToSet(AppendNew(<<>>, DirectClosures(Obj))) = ToSet(<<>>) \cup ToSet(DirectClosures(Obj))
      <4>1. <<>> \in Seq(FileIds)
        OBVIOUS
      <4> QED BY ZenonT(60), <3>6, <4>1, AppendNewElements
    <3>8. ToSet(<<>>) = {}
      BY DEF ToSet
    <3> QED BY <3>3, <3>4, <3>5, <3>6, <3>7, <3>8
  <2>10. CASE ValidateFileOverrides
    <3>1. phase = "overrides" /\ phase' = "overrides"
      BY <2>10 DEF ValidateFileOverrides
    <3>2. \E i, table : i \in FileIds /\ files' = [files EXCEPT ![i].virtuals = table]
      BY <2>10 DEF ValidateFileOverrides
    <3>3. files'[Obj].direct = files[Obj].direct /\ files'[Obj].interfaces = files[Obj].interfaces
      BY <1>1, <2>3, <3>1, <3>2 DEF FileFields
    <3> QED BY <1>2, <2>1, <3>1, <3>3
  <2>11. CASE EndOverrides
    <3>1. phase = "overrides" /\ phase' = "conformance" /\ files' = files
      BY <2>11 DEF EndOverrides
    <3> QED BY <1>2, <2>1, <3>1
  <2>12. CASE ValidateInterfaceConformance
    <3>1. phase = "conformance" /\ phase' = "definitions"
      BY <2>12 DEF ValidateInterfaceConformance
    <3>2. files'[Obj] = [files[Obj] EXCEPT !.implementations = ImplementationsOf(Obj)]
      BY <1>1, <2>12 DEF ValidateInterfaceConformance
    <3>3. files'[Obj].direct = files[Obj].direct /\ files'[Obj].interfaces = files[Obj].interfaces
      BY <2>3, <3>1, <3>2 DEF FileFields
    <3> QED BY <1>2, <2>1, <3>1, <3>3
  <2>13. CASE AnalyzeDefinitions
    <3>1. phase = "definitions" /\ phase' = "effects" /\ files' = files
      BY ONLY <2>13, Zenon DEF AnalyzeDefinitions
    <3> QED BY <1>2, <2>1, <3>1
  <2>14. CASE AnalyzeErrorEffects
    <3>1. phase = "effects" /\ files' = files
      BY ONLY <2>14, Zenon DEF AnalyzeErrorEffects
    <3> QED BY <1>2, <2>1, <3>1
  <2> QED BY <1>3, <2>4, <2>5, <2>6, <2>7, <2>8, <2>9, <2>10, <2>11, <2>12, <2>13, <2>14 DEF SemaNext
<1>4. CASE AbiNext
  <2>1. files' = files /\ phase \in {"abi", "verify"}
    <3>1. CASE LowerFileLayout
      BY <3>1 DEF LowerFileLayout
    <3>2. CASE LayoutCycle
      BY ONLY <3>2, Zenon DEF LayoutCycle
    <3>3. CASE EmitDescriptors
      BY <3>3 DEF EmitDescriptors
    <3>4. CASE VerifyAbi
      BY <3>4 DEF VerifyAbi
    <3> QED BY <1>4, <3>1, <3>2, <3>3, <3>4 DEF AbiNext
  <2>2. errors = {}
    BY <2>1 DEF SemaInv
  <2> QED BY <1>2, <2>1, <2>2
<1>5. CASE New \/ RunBaseConstructor \/ InitializeFields \/ RunStatement \/ Return \/ UNCHANGED vars
  <2>1. UNCHANGED semaVars
    BY <1>5 DEF New, RunBaseConstructor, InitializeFields, RunStatement, Return, vars
  <2>2. UNCHANGED <<files, phase, errors>>
    BY <2>1 DEF semaVars
  <2> QED BY <2>2 DEF ObjectPlain, Closure
<1> QED BY <1>3, <1>4, <1>5 DEF Next

\* The descriptors link every class to its base, every box to Object.
DescriptorParents == [i \in FileIds |-> IF i \in DOMAIN descriptors THEN descriptors[i].parent ELSE 0]

\* Above a class the descriptors have its bases, above a box only Object.
LEMMA DescriptorAncestors ==
  ASSUME Accepted, DescriptorFacts, phase = "run"
  PROVE  /\ \A d \in ClassIds : Ancestors(DescriptorParents, d) = Ancestors(Bases, d)
         /\ \A d \in FileIds : ~IsClass(d) /\ ~IsInterface(d) => Ancestors(DescriptorParents, d) = {Obj}
<1> PICK p : p = DescriptorParents
  OBVIOUS
<1> PICK N : N = Len(syntax)
  OBVIOUS
<1>1. /\ WellFormedProgram(syntax) /\ HierarchyFacts /\ N \in Nat /\ FileIds = 1..N
      /\ Obj \in ClassIds /\ files[Obj].base = 0
  BY ProgramTyped DEF Accepted, HierarchyFacts, ClassIds, IsClass
<1>2. /\ LinkTable(Bases) /\ Grounded(Bases) /\ Len(Bases) = N
      /\ \A i \in FileIds : Bases[i] = files[i].base /\ files[i].base \in 0..N
  BY <1>1, BasesLink DEF HierarchyFacts, FileTyped
<1>3. \A i \in ClassIds : /\ i \in FileIds /\ p[i] = Bases[i]
                          /\ Bases[i] # 0 => Bases[i] \in ClassIds
  <2> SUFFICES ASSUME NEW i \in ClassIds
               PROVE  /\ i \in FileIds /\ p[i] = Bases[i]
                      /\ Bases[i] # 0 => Bases[i] \in ClassIds
    OBVIOUS
  <2>1. i \in FileIds /\ ~IsInterface(i)
    BY DEF ClassIds, IsClass, IsInterface
  <2>2. i \in DOMAIN descriptors /\ descriptors[i].parent = files[i].base
    BY <2>1, DescriptorFields DEF DescriptorFacts
  <2>3. p[i] = Bases[i]
    BY <1>2, <2>1, <2>2 DEF DescriptorParents
  <2>4. Bases[i] # 0 => Bases[i] \in ClassIds
    BY <1>1, <1>2, <2>1 DEF HierarchyFacts, BaseFits, ClassIds
  <2> QED BY <2>1, <2>3, <2>4
<1>4. \A i \in FileIds : IsInterface(i) => p[i] = 0
  BY DEF DescriptorFacts, DescriptorParents
<1>5. \A i \in FileIds : ~IsClass(i) /\ ~IsInterface(i) => p[i] = Obj
  BY DescriptorFields DEF DescriptorFacts, DescriptorParents
<1>6. LinkTable(p) /\ Len(p) = N
  <2>1. \A i \in FileIds : p[i] \in 0..N
    <3>1. Obj \in 0..N
      BY <1>1 DEF ClassIds
    <3> QED BY <1>2, <1>3, <1>4, <1>5, <3>1, <1>1 DEF ClassIds
  <2>2. p \in [1..N -> 0..N]
    BY <1>1, <2>1 DEF DescriptorParents
  <2>3. Len(p) = N
    BY <1>1, <2>2, FunctionIsSeq
  <2> QED BY <1>1, <2>2, <2>3 DEF LinkTable
<1>7. Grounded(p)
  <2> SUFFICES ASSUME NEW Closed \in SUBSET (1..N), \A b \in Closed : p[b] \in Closed
               PROVE  Closed = {}
    BY <1>6 DEF Grounded
  <2>1. Closed \cap ClassIds = {}
    <3>1. \A b \in Closed \cap ClassIds : Bases[b] \in Closed \cap ClassIds
      BY <1>3
    <3>2. Closed \cap ClassIds \in SUBSET (1..Len(Bases))
      BY <1>2
    <3> QED BY <1>2, <3>1, <3>2 DEF Grounded
  <2>2. \A b \in Closed : FALSE
    <3> SUFFICES ASSUME NEW b \in Closed PROVE FALSE
      OBVIOUS
    <3>1. b \in FileIds /\ ~IsClass(b)
      BY <1>1, <2>1 DEF ClassIds
    <3>2. p[b] = 0 \/ p[b] = Obj
      BY <1>4, <1>5, <3>1
    <3>3. p[b] # 0
      OBVIOUS
    <3> QED BY <1>1, <2>1, <3>2, <3>3
  <2> QED BY <2>2
<1>8. \A d \in ClassIds : Ancestors(p, d) = Ancestors(Bases, d)
  <2> DEFINE Bad == {d \in ClassIds : Ancestors(p, d) # Ancestors(Bases, d)}
  <2>1. ASSUME NEW d \in Bad PROVE Bases[d] \in Bad
    <3>1. d \in 1..N /\ p[d] = Bases[d]
      BY <1>1, <1>3
    <3>2. Ancestors(p, d) = IF p[d] = 0 THEN {} ELSE {p[d]} \cup Ancestors(p, p[d])
      BY <1>6, <1>7, <3>1, AncestorsStep
    <3>3. Ancestors(Bases, d) = IF Bases[d] = 0 THEN {} ELSE {Bases[d]} \cup Ancestors(Bases, Bases[d])
      BY <1>2, <3>1, AncestorsStep
    <3> QED BY <1>3, <3>1, <3>2, <3>3
  <2>2. Bad \in SUBSET (1..Len(Bases))
    BY <1>1, <1>2 DEF ClassIds
  <2>3. Bad = {}
    <3> HIDE DEF Bad
    <3> QED BY <1>2, <2>1, <2>2 DEF Grounded
  <2> QED BY <2>3
<1>9. \A d \in FileIds : ~IsClass(d) /\ ~IsInterface(d) => Ancestors(p, d) = {Obj}
  <2> SUFFICES ASSUME NEW d \in FileIds, ~IsClass(d), ~IsInterface(d)
               PROVE  Ancestors(p, d) = {Obj}
    OBVIOUS
  <2>1. p[d] = Obj /\ p[Obj] = 0 /\ d \in 1..N /\ Obj \in 1..N /\ Obj # 0
    BY <1>1, <1>2, <1>3, <1>5
  <2>2. Ancestors(p, d) = {Obj} \cup Ancestors(p, Obj)
    BY <1>6, <1>7, <2>1, AncestorsStep
  <2>3. Ancestors(p, Obj) = {}
    BY <1>6, <1>7, <2>1, AncestorsStep
  <2> QED BY <2>2, <2>3
<1> QED BY <1>8, <1>9

\* A type test answers what assignability promises: the chain of descriptors
\* that object_is_type walks holds the classes above the object's class, and
\* the search of object_is_interface finds a table for what it implements.
LEMMA TestsExact ==
  ASSUME SemaInv, DescriptorFacts, ObjectPlain
  PROVE  TypeTestsAgree
<1> SUFFICES ASSUME Linked, NEW d \in DOMAIN descriptors,
                    NEW t \in {File(i) : i \in FileIds} \cup {RootError},
                    ~(IsClass(d) /\ syntax[d].abstract),
                    ~(syntax[d].kind = "error" /\ TypeKind(t) = "interface")
             PROVE  TypeCondition(d, t) <=> IsAssignable(Bases, Interfaces, t, File(d))
  BY DEF TypeTestsAgree
<1>1. phase = "run" /\ Accepted /\ errors = {}
  BY AcceptedPrograms DEF Linked, SemaInv
<1>2. WellFormedProgram(syntax) /\ HierarchyFacts
  BY <1>1 DEF Accepted
<1>3. /\ d \in FileIds /\ Obj \in FileIds /\ syntax[Obj].kind = "class"
      /\ syntax[d].kind \in {"class", "error", "struct", "enum"}
      /\ IsClass(d) <=> syntax[d].kind \in {"class", "error"}
  BY <1>1, <1>2, ProgramTyped DEF DescriptorFacts, IsInterface, IsClass
<1>4. descriptors[d].kind = IF IsClass(d) THEN syntax[d].kind ELSE "box"
  <2>1. CASE IsClass(d)
    BY <1>1, <1>3, <2>1, DescriptorFields DEF DescriptorFacts, ClassIds
  <2>2. CASE ~IsClass(d)
    BY <1>1, <1>3, <2>2, DescriptorFields DEF DescriptorFacts, IsInterface
  <2> QED BY <2>1, <2>2
<1>5. Ancestors(DescriptorParents, d) = IF IsClass(d) THEN Ancestors(Bases, d) ELSE {Obj}
  BY <1>1, <1>3, DescriptorAncestors DEF ClassIds, IsInterface
<1>6. TypeKind(File(d)) = IF d = Obj THEN "object" ELSE syntax[d].kind
  BY FileTypeKind
<1>7. /\ File(d) # Void /\ ~File(d).n /\ File(d).k = "file" /\ File(d).f = d /\ File(d) # RootError
      /\ RootError # Void /\ ~RootError.n /\ RootError.k = "Error"
      /\ \A i : File(i) # Void /\ ~File(i).n /\ File(i).k = "file" /\ File(i).f = i /\ File(i) # RootError
  BY DEF File, Void, RootError, Type
<1>8. IsAssignable(Bases, Interfaces, t, File(d)) <=>
        t = File(d) \/ IsAssignableNonNull(Bases, Interfaces, t, File(d))
  BY <1>7 DEF IsAssignable
<1>9. CASE t = RootError
  <2>1. TypeKind(t) = "error"
    BY <1>9 DEF TypeKind, RootError, Type
  <2>2. TypeCondition(d, t) <=> descriptors[d].kind = "error"
    BY <1>9, <2>1 DEF TypeCondition, ObjectIsType
  <2>3. IsFileClassSubtype(Bases, File(d), t) <=> TypeKind(File(d)) = "error"
    BY <1>7, <1>9 DEF IsFileClassSubtype
  <2>4. IsAssignableNonNull(Bases, Interfaces, t, File(d)) <=> TypeKind(File(d)) = "error"
    BY <1>7, <1>9, <2>1, <2>3 DEF IsAssignableNonNull
  <2> QED BY <1>3, <1>4, <1>6, <1>7, <1>8, <1>9, <2>2, <2>4
<1>10. CASE t # RootError
  <2>1. PICK i \in FileIds : t = File(i)
    BY <1>10
  <2>2. TypeKind(t) = IF i = Obj THEN "object" ELSE syntax[i].kind
    BY <2>1, FileTypeKind
  <2>3. /\ t.f = i /\ t.k = "file"
        /\ syntax[i].kind \in {"class", "error", "interface", "struct", "enum"}
        /\ t = File(d) <=> i = d
    BY <1>2, <1>7, <2>1, ProgramTyped
  <2>4. IsFileClassSubtype(Bases, File(d), t) <=>
          \/ i = d
          \/ /\ TypeKind(File(d)) \in {"class", "error"} /\ TypeKind(t) \in {"class", "error"}
             /\ i \in Ancestors(Bases, d)
    BY <1>7, <1>10, <2>3 DEF IsFileClassSubtype
  <2>5. ObjectIsType(d, t) <=> i = d \/ i \in Ancestors(DescriptorParents, d)
    BY <1>10, <2>3 DEF ObjectIsType, DescriptorParents
  <2>6. CASE i = Obj
    <3>1. TypeKind(t) = "object"
      BY <2>2, <2>6
    <3>2. TypeCondition(d, t)
      BY <3>1 DEF TypeCondition
    <3>3. d # Obj => TypeKind(File(d)) \in {"string", "class", "error", "interface"} \/ IsBoxable(File(d))
      BY <1>3, <1>6 DEF IsBoxable
    <3>4. d # Obj => IsAssignableNonNull(Bases, Interfaces, t, File(d))
      BY <3>1, <3>3 DEF IsAssignableNonNull
    <3> QED BY <1>8, <2>3, <2>6, <3>2, <3>4
  <2>7. CASE i # Obj /\ syntax[i].kind \in {"class", "error"}
    <3>1. TypeKind(t) \in {"class", "error"}
      BY <2>2, <2>7
    <3>2. TypeCondition(d, t) <=> ObjectIsType(d, t)
      BY <3>1 DEF TypeCondition
    <3>3. IsAssignableNonNull(Bases, Interfaces, t, File(d)) <=>
            i = d \/ (TypeKind(File(d)) \in {"class", "error"} /\ i \in Ancestors(Bases, d))
      BY <2>3, <2>4, <3>1 DEF IsAssignableNonNull
    <3>4. d = Obj => Ancestors(Bases, d) = {}
      <4>1. /\ LinkTable(Bases) /\ Grounded(Bases) /\ Obj \in 1..Len(Bases) /\ Bases[Obj] = 0
        BY <1>2, <1>3, BasesLink, ProgramTyped DEF HierarchyFacts
      <4> QED BY <4>1, AncestorsStep
    <3> QED BY <1>3, <1>5, <1>6, <1>8, <2>3, <2>5, <2>7, <3>2, <3>3, <3>4
  <2>8. CASE syntax[i].kind = "interface"
    <3>1. i # Obj /\ TypeKind(t) = "interface" /\ i # d /\ i \in InterfaceIds
      BY <1>3, <2>2, <2>8 DEF InterfaceIds, IsInterface
    <3>2. TypeCondition(d, t) <=> ObjectIsInterface(d, i)
      BY <2>3, <3>1 DEF TypeCondition
    <3>3. syntax[d].kind # "error"
      BY <3>1
    <3>4. IsAssignableNonNull(Bases, Interfaces, t, File(d)) <=>
            TypeKind(File(d)) \in {"class", "error", "interface"} /\ IsIn(i, Interfaces[d])
      BY <1>7, <2>3, <3>1 DEF IsAssignableNonNull
    <3>5. IsIn(i, Interfaces[d]) <=> i \in Closure(d)
      BY <1>3 DEF IsIn, Interfaces, Closure, ToSet
    <3>6. CASE ~IsClass(d)
      <4>1. ~ObjectIsInterface(d, i)
        BY <1>4, <3>6 DEF ObjectIsInterface
      <4>2. TypeKind(File(d)) \notin {"class", "error", "interface"}
        BY <1>3, <1>6, <3>6
      <4> QED BY <1>8, <2>3, <3>1, <3>2, <3>4, <4>1, <4>2
    <3>7. CASE IsClass(d)
      <4>1. d \in ClassIds /\ syntax[d].kind = "class" /\ descriptors[d].kind = "class" /\ ~syntax[d].abstract
        BY <1>3, <1>4, <3>3, <3>7 DEF ClassIds
      <4>2. descriptors[d] = ClassDescriptor(d) /\ ImplementationFacts(d)
        BY <1>1, <4>1 DEF DescriptorFacts, Accepted
      <4>3. FindInterfaceDispatch(descriptors[d], syntax[i].id) # 0 <=> i \in Closure(d)
        <5>1. CASE i \in Closure(d)
          <6>1. PICK m \in DOMAIN files[d].implementations : files[d].implementations[m].interface = i
            BY <4>1, <4>2, <5>1 DEF ImplementationFacts
          <6> QED BY <1>1, <3>1, <4>1, <4>2, <5>1, <6>1, TableFound
        <5>2. CASE i \notin Closure(d)
          <6>1. \A m \in DOMAIN files[d].implementations : files[d].implementations[m].interface # i
            BY <4>2, <5>2 DEF ImplementationFacts, TableOfInterface
          <6> QED BY <1>1, <3>1, <4>1, <4>2, <5>2, <6>1, TableFound
        <5> QED BY <5>1, <5>2
      <4>4. ObjectIsInterface(d, i) <=> i \in Closure(d)
        BY <4>1, <4>3 DEF ObjectIsInterface
      <4>5. d = Obj => i \notin Closure(d)
        BY <1>1 DEF ObjectPlain, AfterClosures, AfterOverrides, AfterConformance, AfterDefinitions, AfterEffects
      <4>6. TypeKind(File(d)) = IF d = Obj THEN "object" ELSE "class"
        BY <1>6, <4>1
      <4> QED BY <1>8, <2>3, <3>1, <3>2, <3>4, <3>5, <4>4, <4>5, <4>6
    <3> QED BY <3>6, <3>7
  <2>9. CASE syntax[i].kind \in {"struct", "enum"}
    <3>1. i # Obj /\ TypeKind(t) \in {"struct", "enum"}
      BY <1>3, <2>2, <2>9
    <3>2. TypeCondition(d, t) <=> ObjectIsType(d, t)
      BY <3>1 DEF TypeCondition
    <3>3. IsAssignableNonNull(Bases, Interfaces, t, File(d)) <=> i = d
      BY <2>3, <3>1 DEF IsAssignableNonNull
    <3>4. i \notin Ancestors(DescriptorParents, d)
      <4>1. CASE IsClass(d)
        <5>1. d \in ClassIds
          BY <1>3, <4>1 DEF ClassIds
        <5>2. \A a \in Ancestors(Bases, d) : a \in ClassIds
          BY <1>1, <5>1, AncestorsAgree
        <5>3. i \notin ClassIds
          BY <2>9 DEF ClassIds, IsClass
        <5> QED BY <1>5, <4>1, <5>2, <5>3
      <4>2. CASE ~IsClass(d)
        BY <1>5, <3>1, <4>2
      <4> QED BY <4>1, <4>2
    <3> QED BY <1>8, <2>3, <2>5, <3>2, <3>3, <3>4
  <2> QED BY <2>3, <2>6, <2>7, <2>8, <2>9
<1> QED BY <1>9, <1>10

\* Type tests agree with assignability in every program the compiler accepts.
THEOREM TypeTestsAreExact == Spec => []TypeTestsAgree
<1>1. Init => SemaInv /\ DescriptorFacts /\ ObjectPlain
  BY SemaStarts DEF Init, SemaInit, DescriptorFacts, ObjectPlain, AfterRelationships, AfterMembers,
     AfterContracts, AfterClosures, AfterOverrides, AfterConformance, AfterDefinitions, AfterEffects
<1>2. SemaInv /\ DescriptorFacts /\ ObjectPlain /\ [Next]_vars
        => (SemaInv /\ DescriptorFacts /\ ObjectPlain)'
  BY SemaPersists, DescriptorsStay, ObjectStaysPlain
<1>3. SemaInv /\ DescriptorFacts /\ ObjectPlain => TypeTestsAgree
  BY TestsExact
<1> QED BY <1>1, <1>2, <1>3, PTL DEF Spec

-----------------------------------------------------------------------------
(* Construction *)

\* What a frame stands for: a constructor before its base, before its fields
\* or in its statements, or a function a constructor may have called.
FrameFits(n) ==
  LET s == frames[n].s
      at == frames[n].at
      owner == symbols[s].file
  IN /\ s \in DOMAIN symbols /\ symbols[s].declared /\ owner \in Lineage(object)
     /\ IsConstructor(s) =>
          /\ s = files[owner].constructor /\ at >= -1
          /\ at = 0 => IF n = Len(frames) THEN Ancestors(Bases, owner) \subseteq begun
                       ELSE /\ files[owner].base # 0
                            /\ frames[n + 1].s = files[files[owner].base].constructor
          /\ at >= 1 => owner \in begun
     /\ ~IsConstructor(s) =>
          /\ at >= 1
          /\ n > 1 /\ IsConstructor(frames[n - 1].s) => owner \in begun

\* The call stack of the object under construction.
FrameInv ==
  /\ frames \in Seq([s : Nat, at : Int])
  /\ phase # "run" => frames = <<>> /\ begun = {}
  /\ begun \subseteq FileIds /\ \A i \in begun : Ancestors(Bases, i) \subseteq begun
  /\ frames # <<>> => object \in Concrete
  /\ \A n \in 1..Len(frames) : FrameFits(n)

\* A call on self or super runs a function of a class of the object; made by a
\* constructor, one of a class its own derives from.
LEMMA SelfCall ==
  ASSUME Accepted, DescriptorFacts, phase = "run", object \in Concrete,
         NEW s, NEW owner, owner = symbols[s].file, owner \in Lineage(object),
         NEW st, st.op \in {"self", "super"}, Callee(owner, st) # 0,
         NEW t, t = CallTarget(object, [by |-> s, st |-> st, callee |-> Callee(owner, st)])
  PROVE  /\ t \in DOMAIN symbols /\ symbols[t].declared /\ ~IsConstructor(t)
         /\ symbols[t].file \in Lineage(object)
         /\ IsConstructor(s) => symbols[t].file \in {owner} \cup Ancestors(Bases, owner)
<1> PICK f : f = Callee(owner, st)
  OBVIOUS
<1> PICK c : c = [by |-> s, st |-> st, callee |-> f]
  OBVIOUS
<1> PICK d : d = object
  OBVIOUS
<1>1. /\ WellFormedProgram(syntax) /\ HierarchyFacts /\ SymbolFacts
      /\ d \in ClassIds /\ ~syntax[d].abstract /\ TableFacts(d)
      /\ descriptors[d] = ClassDescriptor(d)
  BY DEF Accepted, DescriptorFacts, Concrete, ClassIds
<1>2. c.by = s /\ c.st = st /\ c.callee = f /\ f # 0 /\ t = CallTarget(d, c)
  OBVIOUS
<1>3. /\ owner \in ClassIds /\ owner \in FileIds
      /\ {owner} \cup Ancestors(Bases, owner) \subseteq Lineage(d)
      /\ Ancestors(Bases, owner) =
           IF files[owner].base = 0 THEN {} ELSE {files[owner].base} \cup Ancestors(Bases, files[owner].base)
      /\ files[owner].base # 0 => files[owner].base \in ClassIds
  BY <1>1, LineageOfClasses
<1>4. PICK i \in FileIds : /\ {i} \cup Ancestors(Bases, i) \subseteq {owner} \cup Ancestors(Bases, owner)
                           /\ f = FindMember(i, st.name, owner)
  <2>1. CASE st.op = "self"
    <3>1. f = FindMember(owner, st.name, owner)
      BY <2>1 DEF Callee
    <3> QED BY <1>3, <3>1
  <2>2. CASE st.op = "super"
    <3>1. files[owner].base # 0 /\ f = FindMember(files[owner].base, st.name, owner)
      BY <1>2, <2>2 DEF Callee
    <3>2. files[owner].base \in FileIds
      BY <1>3, <3>1 DEF ClassIds
    <3> QED BY <1>3, <3>1, <3>2
  <2> QED BY <2>1, <2>2
<1>5. PICK a \in {i} \cup Ancestors(Bases, i) : a \in FileIds /\ f \in MemberNamed(a, st.name)
  BY <1>1, <1>2, <1>4, MemberFound
<1>6. f \in Own(a) /\ a \in Lineage(d) /\ a \in {owner} \cup Ancestors(Bases, owner)
  BY <1>3, <1>4, <1>5 DEF MemberNamed, Own
<1>7. /\ f \in DOMAIN symbols /\ symbols[f].kind = "function" /\ symbols[f].file = a /\ symbols[f].declared
  BY <1>1, <1>5, <1>6 DEF SymbolFacts, FunctionRegistered, Own, ToSet
<1>8. ~ThroughInterface(c)
  BY <1>2 DEF ThroughInterface
<1>9. CASE t = f
  BY <1>6, <1>7, <1>9 DEF IsConstructor
<1>10. CASE t # f
  <2>1. DispatchKind(c) \notin {"interface", "direct"}
    BY <1>2, <1>8, <1>10 DEF CallTarget, DispatchKind
  <2>2. /\ symbols[f].slot # 0 /\ DispatchKind(c) = "virtual"
        /\ st.op # "super" /\ ~(SuppressSelf(c) /\ st.op = "self")
    BY <1>2, <1>8, <2>1 DEF DispatchKind
  <2>3. ~IsConstructor(s)
    BY <1>2, <2>2 DEF SuppressSelf, IsConstructor
  <2>4. t = files[d].virtuals[symbols[f].slot]
    BY <1>1, <1>2, <2>2, DescriptorFields DEF CallTarget
  <2>5. f \in PublicInstance
    BY <1>1, <1>7, <2>2 DEF SymbolFacts, WellTyped, PublicInstance
  <2>6. symbols[f].slot \in DOMAIN files[d].virtuals
    BY <1>1, <1>6, <2>5, SlotReaches
  <2>7. /\ t \in PublicInstance /\ symbols[t].file \in Lineage(d) /\ t \in Own(symbols[t].file)
    BY <1>1, <2>4, <2>6 DEF TableFacts, EntryFits
  <2>8. symbols[t].declared
    <3>1. symbols[t].file \in FileIds
      BY <1>1, <2>7, LineageOfClasses
    <3> QED BY <1>1, <2>7, <3>1 DEF SymbolFacts, FunctionRegistered, Own, ToSet
  <2> QED BY <2>3, <2>7, <2>8 DEF PublicInstance, IsConstructor
<1> QED BY <1>9, <1>10

\* Every statement of a declared callable that is neither a throw nor a call
\* on another receiver names a function on self or super.
LEMMA SelfStatements ==
  ASSUME Accepted, NEW s \in DOMAIN symbols, symbols[s].declared,
         NEW n \in DOMAIN RunStatements(s), NEW st, st = RunStatements(s)[n]
  PROVE  st.op \notin {"throw", "call"} =>
           st.op \in {"self", "super"} /\ Callee(symbols[s].file, st) # 0
<1> PICK owner : owner = symbols[s].file
  OBVIOUS
<1>1. /\ WellFormedProgram(syntax) /\ SymbolFacts /\ DefinitionFacts
      /\ owner \in FileIds /\ symbols[s].body \in Seq(StatementsOf(syntax))
  BY DEF Accepted, SymbolFacts, WellTyped
<1>2. /\ StatementsAllowed(owner, FieldStatements(owner)) /\ StatementsAllowed(owner, symbols[s].body)
      /\ FieldStatements(owner) \in Seq(StatementsOf(syntax))
  BY <1>1, StatementsTyped DEF DefinitionFacts
<1> PICK first : first = IF IsConstructor(s) THEN FieldStatements(owner) ELSE <<>>
  OBVIOUS
<1> PICK rest : rest = symbols[s].body
  OBVIOUS
<1>3. first \in Seq(StatementsOf(syntax)) /\ rest \in Seq(StatementsOf(syntax))
      /\ StatementsAllowed(owner, first) /\ StatementsAllowed(owner, rest)
  <2>1. <<>> \in Seq(StatementsOf(syntax)) /\ StatementsAllowed(owner, <<>>)
    BY DEF StatementsAllowed
  <2> QED BY <1>1, <1>2, <2>1
<1>4. RunStatements(s) = first \o rest
  BY DEF RunStatements, OwnerOf
<1>5. (\E m \in DOMAIN first : st = first[m]) \/ (\E m \in DOMAIN rest : st = rest[m])
  <2> PICK T : T = StatementsOf(syntax)
    OBVIOUS
  <2>1. first \in Seq(T) /\ rest \in Seq(T) /\ n \in DOMAIN (first \o rest) /\ st = (first \o rest)[n]
    BY <1>3, <1>4
  <2> QED BY ONLY <2>1
<1>6. st.op # "throw" => Callee(owner, st) # 0
  BY <1>3, <1>5 DEF StatementsAllowed, StatementAllowed
<1> QED BY <1>6 DEF Callee

\* The stack with its top frame moved on, another frame pushed, or the top
\* frame gone.
LEMMA StackFacts ==
  ASSUME frames \in Seq([s : Nat, at : Int]), frames # <<>>, NEW a \in Int, NEW t \in Nat
  PROVE  /\ Len(frames) \in Nat \ {0} /\ Top = frames[Len(frames)]
         /\ \A n \in 1..Len(frames) : frames[n].s \in Nat /\ frames[n].at \in Int
         /\ SetTop(a) \in Seq([s : Nat, at : Int]) /\ Len(SetTop(a)) = Len(frames)
         /\ \A n \in 1..Len(frames) :
              SetTop(a)[n] = IF n = Len(frames) THEN [s |-> Top.s, at |-> a] ELSE frames[n]
         /\ Push(SetTop(a), t) \in Seq([s : Nat, at : Int])
         /\ Len(Push(SetTop(a), t)) = Len(frames) + 1
         /\ \A n \in 1..Len(frames) : Push(SetTop(a), t)[n] = SetTop(a)[n]
         /\ Push(SetTop(a), t)[Len(frames) + 1] = [s |-> t, at |-> IF IsConstructor(t) THEN -1 ELSE 1]
         /\ Front(frames) \in Seq([s : Nat, at : Int]) /\ Len(Front(frames)) = Len(frames) - 1
         /\ \A n \in 1..(Len(frames) - 1) : Front(frames)[n] = frames[n]
<1> DEFINE F == [s : Nat, at : Int]
<1> PICK L : L = Len(frames)
  OBVIOUS
<1>0. frames \in Seq(F) /\ frames # <<>>
  OBVIOUS
<1>1. L \in Nat \ {0} /\ DOMAIN frames = 1..L /\ \A n \in 1..L : frames[n] \in F
  <2> HIDE DEF F
  <2>1. L \in Nat /\ DOMAIN frames = 1..L /\ \A n \in 1..L : frames[n] \in F
    BY <1>0, SeqFacts
  <2>2. L # 0
    BY ONLY <1>0, L = Len(frames)
  <2> QED BY <2>1, <2>2
<1>2. Top = frames[L]
  BY DEF Top, Last
<1> PICK top : top = frames[L]
  OBVIOUS
<1>3. top \in F /\ top.s \in Nat /\ top.at \in Int
  BY <1>1
<1> PICK moved : moved = [s |-> top.s, at |-> a]
  OBVIOUS
<1>4. moved \in F /\ [top EXCEPT !.at = a] = moved
  BY <1>3
<1>5. SetTop(a) = [frames EXCEPT ![L] = moved]
  BY <1>4 DEF SetTop
<1> PICK fs : fs = SetTop(a)
  OBVIOUS
<1>6. fs \in Seq(F) /\ Len(fs) = L /\ \A n \in 1..L : fs[n] = IF n = L THEN moved ELSE frames[n]
  <2>1. fs = [n \in 1..L |-> IF n = L THEN moved ELSE frames[n]]
    BY <1>1, <1>5
  <2>2. fs \in [1..L -> F]
    BY <1>1, <1>4, <2>1
  <2>3. fs \in Seq(F) /\ Len(fs) = L
    BY <1>1, <2>2, FunctionIsSeq
  <2> QED BY <2>1, <2>3
<1> PICK new : new = [s |-> t, at |-> IF IsConstructor(t) THEN -1 ELSE 1]
  OBVIOUS
<1>7. new \in F
  OBVIOUS
<1>8. Push(fs, t) = Append(fs, new)
  BY DEF Push
<1>9. /\ Append(fs, new) \in Seq(F) /\ Len(Append(fs, new)) = L + 1
      /\ \A n \in 1..L : Append(fs, new)[n] = fs[n]
      /\ Append(fs, new)[L + 1] = new
  <2> HIDE DEF F
  <2> QED BY <1>6, <1>7
<1>10. /\ Front(frames) \in Seq(F) /\ Len(Front(frames)) = L - 1
       /\ \A n \in 1..(L - 1) : Front(frames)[n] = frames[n]
  <2>1. Front(frames) = SubSeq(frames, 1, L - 1)
    BY DEF Front
  <2>2. SubSeq(frames, 1, L - 1) = [n \in 1..(L - 1) |-> frames[n]]
    BY <1>1
  <2> HIDE DEF F
  <2>3. SubSeq(frames, 1, L - 1) \in [1..(L - 1) -> F]
    <3>1. \A n \in 1..(L - 1) : frames[n] \in F
      BY <1>1
    <3> QED BY <2>2, <3>1
  <2>4. SubSeq(frames, 1, L - 1) \in Seq(F) /\ Len(SubSeq(frames, 1, L - 1)) = L - 1
    <3>1. L - 1 \in Nat
      BY <1>1
    <3> QED BY <2>3, <3>1, FunctionIsSeq
  <2> QED BY <2>1, <2>2, <2>4
<1>11. \A n \in 1..L : frames[n].s \in Nat /\ frames[n].at \in Int
  BY <1>1
<1>12. Top.s = top.s
  BY <1>2
<1>13. \A n \in 1..L : fs[n] = IF n = L THEN [s |-> Top.s, at |-> a] ELSE frames[n]
  BY <1>6, <1>12
<1> HIDE DEF F
<1>14. /\ Push(fs, t) \in Seq(F) /\ Len(Push(fs, t)) = L + 1
       /\ \A n \in 1..L : Push(fs, t)[n] = fs[n]
       /\ Push(fs, t)[L + 1] = [s |-> t, at |-> IF IsConstructor(t) THEN -1 ELSE 1]
  BY <1>8, <1>9
<1> USE DEF F
<1> QED BY ONLY <1>1, <1>2, <1>6, <1>10, <1>11, <1>13, <1>14, L = Len(frames), fs = SetTop(a), Zenon DEF F

\* A frame below the ones a step changes still fits.
LEMMA FrameStays ==
  ASSUME NEW n \in Nat, FrameFits(n), UNCHANGED <<syntax, files, symbols, object>>, begun \subseteq begun',
         frames'[n] = frames[n], n > 1 => frames'[n - 1].s = frames[n - 1].s,
         n # Len(frames), n # Len(frames'), frames'[n + 1].s = frames[n + 1].s
  PROVE  FrameFits(n)'
<1>1. /\ \A s : IsConstructor(s)' <=> IsConstructor(s)
      /\ Lineage(object)' = Lineage(object)
      /\ \A i : Ancestors(Bases, i)' = Ancestors(Bases, i)
  BY DEF IsConstructor, Lineage, Bases, Parents, FileIds, Ancestors
<1>2. frames'[n].s = frames[n].s /\ frames'[n].at = frames[n].at
  OBVIOUS
<1> QED BY <1>1, <1>2 DEF FrameFits

\* What a frame needs to fit once it has moved.
LEMMA FrameMoved ==
  ASSUME NEW n, NEW s, NEW at, NEW owner, UNCHANGED <<syntax, files, symbols, object>>,
         frames'[n].s = s, frames'[n].at = at, owner = symbols[s].file,
         s \in DOMAIN symbols, symbols[s].declared, owner \in Lineage(object),
         IsConstructor(s) =>
           /\ s = files[owner].constructor /\ at >= -1
           /\ at = 0 => IF n = Len(frames') THEN Ancestors(Bases, owner) \subseteq begun'
                        ELSE /\ files[owner].base # 0
                             /\ frames'[n + 1].s = files[files[owner].base].constructor
           /\ at >= 1 => owner \in begun',
         ~IsConstructor(s) =>
           /\ at >= 1
           /\ n > 1 /\ IsConstructor(frames'[n - 1].s) => owner \in begun'
  PROVE  FrameFits(n)'
<1>1. /\ \A c : IsConstructor(c)' <=> IsConstructor(c)
      /\ Lineage(object)' = Lineage(object)
      /\ \A i : Ancestors(Bases, i)' = Ancestors(Bases, i)
  BY DEF IsConstructor, Lineage, Bases, Parents, FileIds, Ancestors
<1>2. /\ symbols'[frames'[n].s].file = owner /\ symbols'[frames'[n].s].declared
      /\ frames'[n].s \in DOMAIN symbols' /\ files' = files
  OBVIOUS
<1>3. symbols' = symbols
  OBVIOUS
<1> QED BY <1>1, <1>2, <1>3 DEF FrameFits, IsConstructor

\* The stack is kept when nothing a frame speaks of changes.
LEMMA FramesUntouched ==
  ASSUME FrameInv, UNCHANGED <<syntax, phase, files, symbols, object, frames, begun>>
  PROVE  FrameInv'
<1>1. /\ \A s : IsConstructor(s)' <=> IsConstructor(s)
      /\ Lineage(object)' = Lineage(object) /\ FileIds' = FileIds /\ Concrete' = Concrete
      /\ \A i : Ancestors(Bases, i)' = Ancestors(Bases, i)
  BY DEF IsConstructor, Lineage, Bases, Parents, FileIds, Ancestors, Concrete, IsClass
<1>2. \A n \in 1..Len(frames) : FrameFits(n)'
  BY <1>1 DEF FrameInv, FrameFits
<1> QED BY <1>1, <1>2 DEF FrameInv

\* A step whose new stack is fs, when the frames of fs fit.
LEMMA StackReplaced ==
  ASSUME FrameInv, UNCHANGED semaVars, phase = "run", object' \in Concrete,
         frames' \in Seq([s : Nat, at : Int]), begun' \subseteq FileIds,
         \A i \in begun' : Ancestors(Bases, i) \subseteq begun',
         \A n \in 1..Len(frames') : FrameFits(n)'
  PROVE  FrameInv'
<1>1. UNCHANGED <<syntax, phase, files, symbols>>
  BY DEF semaVars
<1>2. /\ FileIds' = FileIds /\ Concrete' = Concrete /\ \A i : Ancestors(Bases, i)' = Ancestors(Bases, i)
  BY <1>1 DEF Bases, FileIds, Ancestors, Concrete, IsClass
<1> QED BY <1>1, <1>2 DEF FrameInv

\* What a declared callable runs is a sequence of its program's statements.
LEMMA StatementsRun ==
  ASSUME Accepted, NEW s \in DOMAIN symbols, symbols[s].declared
  PROVE  RunStatements(s) \in Seq(StatementsOf(syntax))
<1> PICK owner : owner = symbols[s].file
  OBVIOUS
<1> PICK T : T = StatementsOf(syntax)
  OBVIOUS
<1>1. /\ WellFormedProgram(syntax) /\ SymbolFacts /\ owner \in FileIds /\ symbols[s].body \in Seq(T)
  BY DEF Accepted, SymbolFacts, WellTyped
<1>2. FieldStatements(owner) \in Seq(T)
  BY <1>1, StatementsTyped
<1> PICK first : first = IF IsConstructor(s) THEN FieldStatements(owner) ELSE <<>>
  OBVIOUS
<1>3. first \in Seq(T)
  BY <1>2
<1>4. RunStatements(s) = first \o symbols[s].body
  BY DEF RunStatements, OwnerOf
<1>5. first \o symbols[s].body \in Seq(T)
  BY ONLY <1>1, <1>3
<1> QED BY <1>4, <1>5

\* Construction runs base first, and calls of constructors stay in what has
\* been initialized.
LEMMA FramesStep ==
  ASSUME SemaInv, DescriptorFacts, FrameInv, [Next]_vars
  PROVE  FrameInv'
<1>1. CASE SemaNext /\ UNCHANGED <<abiVars, runVars>>
  <2>1. phase # "run"
    BY <1>1 DEF SemaNext, RegisterTypeRelationships, RegisterMembers, ValidateInterfaceContract,
         NextContractRound, EndContracts, CloseClassInterfaces, ValidateFileOverrides, EndOverrides,
         ValidateInterfaceConformance, AnalyzeDefinitions, AnalyzeErrorEffects
  <2>2. frames = <<>> /\ begun = {} /\ frames' = <<>> /\ begun' = {}
    BY <1>1, <2>1 DEF FrameInv, runVars
  <2>3. <<>> \in Seq([s : Nat, at : Int])
    OBVIOUS
  <2> QED BY <2>2, <2>3 DEF FrameInv
<1>2. CASE AbiNext /\ UNCHANGED runVars
  <2>1. phase # "run"
    BY <1>2 DEF AbiNext, LowerFileLayout, LayoutCycle, EmitDescriptors, VerifyAbi
  <2>2. frames = <<>> /\ begun = {} /\ frames' = <<>> /\ begun' = {}
    BY <1>2, <2>1 DEF FrameInv, runVars
  <2>3. <<>> \in Seq([s : Nat, at : Int])
    OBVIOUS
  <2> QED BY <2>2, <2>3 DEF FrameInv
<1>3. CASE UNCHANGED vars
  <2>1. UNCHANGED <<syntax, phase, files, symbols, object, frames, begun>>
    BY <1>3 DEF vars, semaVars, runVars
  <2> QED BY <2>1, FramesUntouched
<1>4. ASSUME New \/ frames # <<>>, UNCHANGED semaVars
      PROVE  /\ phase = "run" /\ Accepted /\ UNCHANGED <<syntax, files, symbols, phase>>
             /\ \A s : IsConstructor(s)' <=> IsConstructor(s)
             /\ \A i : Ancestors(Bases, i)' = Ancestors(Bases, i)
             /\ object' = object => Lineage(object)' = Lineage(object)
             /\ Lineage(object)' = Lineage(object')
             /\ WellFormedProgram(syntax) /\ HierarchyFacts /\ SymbolFacts /\ DefinitionFacts
  <2>1. phase = "run"
    BY <1>4 DEF New, FrameInv
  <2>2. Accepted
    BY <2>1, AcceptedPrograms
  <2>3. UNCHANGED <<syntax, files, symbols, phase>>
    BY <1>4 DEF semaVars
  <2>4. /\ \A s : IsConstructor(s)' <=> IsConstructor(s)
        /\ \A i : Ancestors(Bases, i)' = Ancestors(Bases, i)
        /\ object' = object => Lineage(object)' = Lineage(object)
        /\ Lineage(object)' = Lineage(object')
    BY <2>3 DEF IsConstructor, Lineage, Bases, Parents, FileIds, Ancestors
  <2> QED BY <2>1, <2>2, <2>3, <2>4 DEF Accepted
<1>5. CASE New
  <2>1. PICK i \in FileIds : /\ IsClass(i) /\ ~syntax[i].abstract /\ files[i].constructor # 0
                             /\ object' = i /\ frames' = Push(<<>>, files[i].constructor)
                             /\ begun' = {} /\ UNCHANGED semaVars
    BY <1>5 DEF New
  <2> PICK s : s = files[i].constructor
    OBVIOUS
  <2>2. s \in DOMAIN symbols /\ IsConstructor(s) /\ symbols[s].file = i /\ symbols[s].declared
    BY <1>4, <1>5, <2>1 DEF SymbolFacts, ConstructorRegistered, IsConstructor
  <2>3. s \in Nat
    BY <1>4, <1>5, <2>1, <2>2 DEF SymbolFacts
  <2>4. frames' = <<[s |-> s, at |-> -1]>>
    BY <2>1, <2>2 DEF Push
  <2>5. frames' \in Seq([s : Nat, at : Int]) /\ Len(frames') = 1 /\ frames'[1].s = s /\ frames'[1].at = -1
    BY <2>3, <2>4
  <2>6. i \in Lineage(object')
    BY <2>1 DEF Lineage
  <2>7. FrameFits(1)'
    <3>1. symbols' = symbols /\ files' = files /\ Lineage(object)' = Lineage(object')
          /\ (IsConstructor(s)' <=> IsConstructor(s))
      BY <1>4, <1>5, <2>1 DEF semaVars
    <3>2. frames'[1].s = s /\ frames'[1].at = -1 /\ ~(-1 = 0) /\ ~(-1 >= 1) /\ -1 >= -1
      BY <2>5
    <3>3. s = files[symbols[s].file].constructor /\ symbols[s].file \in Lineage(object')
      BY <2>2, <2>6
    <3> QED BY ONLY <2>2, <3>1, <3>2, <3>3 DEF FrameFits
  <2>8. \A n \in 1..Len(frames') : n = 1
    BY <2>5
  <2>9. object' \in Concrete
    BY <2>1 DEF Concrete
  <2> QED BY <1>4, <1>5, <2>1, <2>5, <2>7, <2>8, <2>9, StackReplaced
<1>6. ASSUME frames # <<>>, UNCHANGED semaVars, object' = object, begun \subseteq begun',
             begun' \subseteq FileIds, \A i \in begun' : Ancestors(Bases, i) \subseteq begun',
             NEW a \in Int, NEW t \in Nat, NEW L, L = Len(frames),
             frames' = SetTop(a) \/ frames' = Push(SetTop(a), t),
             FrameFits(L)', frames' = Push(SetTop(a), t) => FrameFits(L + 1)'
      PROVE  FrameInv'
  <2>1. frames \in Seq([s : Nat, at : Int]) /\ object \in Concrete /\ \A n \in 1..L : FrameFits(n)
    BY <1>6 DEF FrameInv
  <2>2. /\ L \in Nat \ {0} /\ frames' \in Seq([s : Nat, at : Int])
        /\ Len(frames') = L \/ (frames' = Push(SetTop(a), t) /\ Len(frames') = L + 1)
        /\ \A n \in 1..L : frames'[n].s = frames[n].s
        /\ \A n \in 1..(L - 1) : frames'[n] = frames[n]
    <3>1. /\ L \in Nat \ {0} /\ Top = frames[L]
          /\ SetTop(a) \in Seq([s : Nat, at : Int]) /\ Len(SetTop(a)) = L
          /\ \A n \in 1..L : SetTop(a)[n] = IF n = L THEN [s |-> Top.s, at |-> a] ELSE frames[n]
          /\ Push(SetTop(a), t) \in Seq([s : Nat, at : Int]) /\ Len(Push(SetTop(a), t)) = L + 1
          /\ \A n \in 1..L : Push(SetTop(a), t)[n] = SetTop(a)[n]
      BY <1>6, <2>1, StackFacts
    <3>2. \A n \in 1..L : frames'[n] = SetTop(a)[n]
      BY <1>6, <3>1
    <3>3. \A n \in 1..(L - 1) : n \in 1..L /\ n # L
      <4>1. L \in Nat \ {0}
        BY <3>1
      <4> QED BY ONLY <4>1
    <3>4. \A n \in 1..L : frames'[n].s = frames[n].s
      <4> SUFFICES ASSUME NEW n \in 1..L PROVE frames'[n].s = frames[n].s
        OBVIOUS
      <4>1. frames'[n] = IF n = L THEN [s |-> Top.s, at |-> a] ELSE frames[n]
        BY <3>1, <3>2
      <4>2. CASE n = L
        <5>1. frames'[n].s = Top.s
          BY <4>1, <4>2
        <5> QED BY <3>1, <4>2, <5>1
      <4> QED BY <4>1, <4>2
    <3>5. \A n \in 1..(L - 1) : frames'[n] = frames[n]
      BY <3>1, <3>2, <3>3
    <3> QED BY <1>6, <3>1, <3>4, <3>5
  <2>3. ASSUME NEW n \in 1..(L - 1) PROVE FrameFits(n)'
    <3>1. /\ n \in Nat /\ n \in 1..L /\ n + 1 \in 1..L /\ n # L /\ n # Len(frames')
          /\ n > 1 => n - 1 \in 1..L
      BY <2>2
    <3>2. UNCHANGED <<syntax, files, symbols, object>>
      BY <1>6 DEF semaVars
    <3>3. /\ FrameFits(n) /\ frames'[n] = frames[n] /\ (n > 1 => frames'[n - 1].s = frames[n - 1].s)
          /\ frames'[n + 1].s = frames[n + 1].s
      BY <2>1, <2>2, <3>1
    <3>4. n # Len(frames) /\ n # Len(frames') /\ begun \subseteq begun'
      BY <1>6, <3>1
    <3> QED BY <3>1, <3>2, <3>3, <3>4, FrameStays
  <2>4. \A n \in 1..Len(frames') : FrameFits(n)'
    <3> SUFFICES ASSUME NEW n \in 1..Len(frames') PROVE FrameFits(n)'
      OBVIOUS
    <3>1. n \in 1..(L - 1) \/ n = L \/ (n = L + 1 /\ frames' = Push(SetTop(a), t))
      BY <2>2
    <3> QED BY <1>6, <2>3, <3>1
  <2>5. phase = "run"
    BY <1>6 DEF FrameInv
  <2> QED BY <1>6, <2>1, <2>2, <2>4, <2>5, StackReplaced
<1>7. CASE RunBaseConstructor \/ InitializeFields \/ RunStatement \/ Return
  <2>1. UNCHANGED semaVars /\ object' = object /\ frames # <<>>
    BY <1>7 DEF RunBaseConstructor, InitializeFields, RunStatement, Return
  <2> PICK L : L = Len(frames)
    OBVIOUS
  <2> PICK s : s = frames[L].s
    OBVIOUS
  <2> PICK at : at = frames[L].at
    OBVIOUS
  <2> PICK owner : owner = symbols[s].file
    OBVIOUS
  <2>2. /\ frames \in Seq([s : Nat, at : Int]) /\ FrameFits(L) /\ object \in Concrete
        /\ begun \subseteq FileIds /\ \A i \in begun : Ancestors(Bases, i) \subseteq begun
        /\ L \in Nat \ {0} /\ Top = frames[L] /\ s \in Nat /\ at \in Int
    <3>1. /\ frames \in Seq([s : Nat, at : Int]) /\ object \in Concrete
          /\ begun \subseteq FileIds /\ \A i \in begun : Ancestors(Bases, i) \subseteq begun
          /\ \A n \in 1..L : FrameFits(n)
      BY <2>1 DEF FrameInv
    <3>2. 0 \in Int /\ 0 \in Nat
      OBVIOUS
    <3>3. L \in Nat \ {0} /\ Top = frames[L] /\ \A n \in 1..L : frames[n].s \in Nat /\ frames[n].at \in Int
      BY <2>1, <3>1, <3>2, StackFacts
    <3>4. L \in 1..L
      BY <3>3
    <3> QED BY <3>1, <3>3, <3>4
  <2>3. /\ s \in DOMAIN symbols /\ symbols[s].declared /\ owner \in Lineage(object)
        /\ IsConstructor(s) =>
             /\ s = files[owner].constructor /\ at >= -1
             /\ at = 0 => Ancestors(Bases, owner) \subseteq begun
             /\ at >= 1 => owner \in begun
        /\ ~IsConstructor(s) =>
             /\ at >= 1
             /\ L > 1 /\ IsConstructor(frames[L - 1].s) => owner \in begun
    BY <2>2 DEF FrameFits
  <2>4. object \in ClassIds /\ object \in FileIds
    BY <2>2 DEF Concrete, ClassIds
  <2>5. /\ owner \in ClassIds /\ owner \in FileIds
        /\ {owner} \cup Ancestors(Bases, owner) \subseteq Lineage(object)
        /\ Ancestors(Bases, owner) =
             IF files[owner].base = 0 THEN {} ELSE {files[owner].base} \cup Ancestors(Bases, files[owner].base)
        /\ files[owner].base # 0 => files[owner].base \in ClassIds
    BY <1>4, <2>1, <2>3, <2>4, LineageOfClasses
  <2>6. /\ phase = "run" /\ Accepted /\ UNCHANGED <<syntax, files, symbols, phase>>
        /\ \A c : IsConstructor(c)' <=> IsConstructor(c)
        /\ \A i : Ancestors(Bases, i)' = Ancestors(Bases, i)
        /\ Lineage(object)' = Lineage(object)
        /\ SymbolFacts /\ DefinitionFacts
    BY <1>4, <2>1
  <2>11. \A c \in DOMAIN symbols : c \in Nat /\ c # 0
    <3>1. DOMAIN symbols = 1..Len(symbols)
      BY <2>6 DEF SymbolFacts
    <3> QED BY ONLY <3>1
  \* The top frame where SetTop moves it.
  <2>7. ASSUME NEW a \in Int, NEW t \in Nat
        PROVE  /\ Len(SetTop(a)) = L
               /\ SetTop(a)[L].s = s /\ SetTop(a)[L].at = a
               /\ L > 1 => SetTop(a)[L - 1].s = frames[L - 1].s
               /\ Len(Push(SetTop(a), t)) = L + 1
               /\ Push(SetTop(a), t)[L].s = s /\ Push(SetTop(a), t)[L].at = a
               /\ L > 1 => Push(SetTop(a), t)[L - 1].s = frames[L - 1].s
               /\ Push(SetTop(a), t)[L + 1].s = t
               /\ Push(SetTop(a), t)[L + 1].at = IF IsConstructor(t) THEN -1 ELSE 1
    <3>1. /\ Len(SetTop(a)) = L
          /\ \A n \in 1..L : SetTop(a)[n] = IF n = L THEN [s |-> Top.s, at |-> a] ELSE frames[n]
          /\ Len(Push(SetTop(a), t)) = L + 1
          /\ \A n \in 1..L : Push(SetTop(a), t)[n] = SetTop(a)[n]
          /\ Push(SetTop(a), t)[L + 1] = [s |-> t, at |-> IF IsConstructor(t) THEN -1 ELSE 1]
      BY ZenonT(60), <2>1, <2>2, StackFacts
    <3>2. L \in 1..L /\ (L > 1 => L - 1 \in 1..L /\ L - 1 # L)
      BY <2>2
    <3>3. Top.s = s
      BY <2>2
    <3>4. SetTop(a)[L] = [s |-> s, at |-> a] /\ (L > 1 => SetTop(a)[L - 1] = frames[L - 1])
      BY <3>1, <3>2, <3>3
    <3> PICK fs : fs = SetTop(a)
      OBVIOUS
    <3> PICK gs : gs = Push(SetTop(a), t)
      OBVIOUS
    <3>5. gs[L] = fs[L] /\ (L > 1 => gs[L - 1] = fs[L - 1])
      BY <3>1, <3>2
    <3> QED BY <3>1, <3>4, <3>5
  \* The top frame, moved on within its statements.
  <2>8. ASSUME begun' = begun, NEW a \in Int, a >= 1, at >= 1, frames'[L].s = s, frames'[L].at = a,
               L > 1 => frames'[L - 1].s = frames[L - 1].s
        PROVE  FrameFits(L)'
    <3>1. a # 0 /\ a >= -1
      BY <2>8
    <3> QED BY <2>1, <2>3, <2>6, <2>8, <3>1, FrameMoved
  <2>9. CASE RunBaseConstructor
    <3>1. /\ at = -1 /\ begun' = begun
          /\ frames' = IF symbols[s].baseConstructor = 0 THEN SetTop(0)
                       ELSE Push(SetTop(0), symbols[s].baseConstructor)
      BY <2>2, <2>9 DEF RunBaseConstructor
    <3>2. IsConstructor(s) /\ s = files[owner].constructor
      BY <2>3, <3>1
    <3>3. s # 0 /\ ConstructorChained(owner)
      BY <2>3, <2>5, <2>6, <2>11 DEF DefinitionFacts
    <3> PICK base : base = files[owner].base
      OBVIOUS
    <3>4. /\ symbols[s].baseConstructor = IF base = 0 THEN 0 ELSE files[base].constructor
          /\ base # 0 => files[base].constructor # 0
      BY <3>2, <3>3 DEF ConstructorChained
    <3>5. CASE base = 0
      <4>1. frames' = SetTop(0)
        BY <3>1, <3>4, <3>5
      <4>2. 0 \in Int /\ 0 \in Nat
        OBVIOUS
      <4>3. Len(frames') = L /\ frames'[L].s = s /\ frames'[L].at = 0
        BY <2>7, <4>1, <4>2
      <4>4. Ancestors(Bases, owner) \subseteq begun
        BY <2>5, <3>5
      <4>5. FrameFits(L)'
        <5>1. 0 >= -1 /\ ~(0 >= 1) /\ L = Len(frames')
          BY <4>3
        <5>2. UNCHANGED <<syntax, files, symbols, object>> /\ begun' = begun
          BY <2>1, <2>6, <3>1
        <5>3. s \in DOMAIN symbols /\ symbols[s].declared /\ owner \in Lineage(object)
          BY <2>3
        <5> QED BY ONLY owner = symbols[s].file, <3>2, <4>3, <4>4, <5>1, <5>2, <5>3, FrameMoved
      <4>6. frames' # Push(SetTop(0), 0)
        BY <2>2, <2>7, <4>1, <4>2
      <4> QED BY <1>6, <2>1, <2>2, <3>1, <4>1, <4>2, <4>5, <4>6
    <3>6. CASE base # 0
      <4> PICK t : t = files[base].constructor
        OBVIOUS
      <4>1. frames' = Push(SetTop(0), t)
        BY <3>1, <3>4, <3>6
      <4>2. base \in FileIds /\ base \in Lineage(object)
        BY <2>5, <3>6 DEF ClassIds
      <4>3. t \in DOMAIN symbols /\ IsConstructor(t) /\ symbols[t].file = base /\ symbols[t].declared
        BY <2>6, <3>4, <3>6, <4>2 DEF SymbolFacts, ConstructorRegistered, IsConstructor
      <4>4. t \in Nat /\ 0 \in Int
        BY ONLY <2>11, <4>3
      <4>5. /\ Len(frames') = L + 1 /\ frames'[L].s = s /\ frames'[L].at = 0
            /\ frames'[L + 1].s = t /\ frames'[L + 1].at = -1
        <5>1. /\ Len(Push(SetTop(0), t)) = L + 1
              /\ Push(SetTop(0), t)[L].s = s /\ Push(SetTop(0), t)[L].at = 0
              /\ Push(SetTop(0), t)[L + 1].s = t
              /\ Push(SetTop(0), t)[L + 1].at = IF IsConstructor(t) THEN -1 ELSE 1
          BY ZenonT(60), <2>7, <4>4
        <5> QED BY ONLY <4>1, <4>3, <5>1
      <4>6. L # L + 1
        BY <2>2
      <4>7. FrameFits(L)'
        <5>1. 0 >= -1 /\ ~(0 >= 1) /\ L # Len(frames')
          BY <4>5, <4>6
        <5>2. UNCHANGED <<syntax, files, symbols, object>>
          BY <2>1, <2>6
        <5>3. s \in DOMAIN symbols /\ symbols[s].declared /\ owner \in Lineage(object)
          BY <2>3
        <5>4. files[owner].base # 0 /\ frames'[L + 1].s = files[files[owner].base].constructor
          BY ONLY <3>6, <4>5, base = files[owner].base, t = files[base].constructor
        <5> QED BY ONLY owner = symbols[s].file, <3>2, <4>5, <5>1, <5>2, <5>3, <5>4, FrameMoved
      <4>8. FrameFits(L + 1)'
        <5>1. -1 >= -1 /\ ~(-1 >= 1) /\ -1 # 0
          OBVIOUS
        <5>2. UNCHANGED <<syntax, files, symbols, object>>
          BY <2>1, <2>6
        <5> QED BY ONLY t = files[base].constructor, <4>2, <4>3, <4>5, <5>1, <5>2, FrameMoved
      <4> QED BY <1>6, <2>1, <2>2, <3>1, <4>1, <4>4, <4>7, <4>8
    <3> QED BY <3>5, <3>6
  <2>10. CASE InitializeFields
    <3>1. at = 0 /\ begun' = begun \cup {owner} /\ frames' = SetTop(1)
      BY <2>2, <2>10 DEF InitializeFields, OwnerOf
    <3>2. IsConstructor(s) /\ Ancestors(Bases, owner) \subseteq begun
      BY <2>3, <3>1
    <3>3. 1 \in Int /\ 0 \in Nat
      OBVIOUS
    <3>4. Len(frames') = L /\ frames'[L].s = s /\ frames'[L].at = 1
      BY <2>7, <3>1, <3>3
    <3>5. FrameFits(L)'
      BY <2>1, <2>3, <2>6, <3>1, <3>2, <3>4, FrameMoved
    <3>6. /\ begun \subseteq begun' /\ begun' \subseteq FileIds
          /\ \A i \in begun' : Ancestors(Bases, i) \subseteq begun'
      BY <2>2, <2>5, <3>1, <3>2
    <3>7. frames' # Push(SetTop(1), 0)
      BY <2>2, <2>7, <3>1, <3>3
    <3> QED BY <1>6, <2>1, <2>2, <3>1, <3>3, <3>5, <3>6, <3>7
  <2>12. CASE RunStatement
    <3> PICK st : st = RunStatements(s)[at]
      OBVIOUS
    <3> PICK t : t = CallTarget(object, [by |-> s, st |-> st, callee |-> Callee(owner, st)])
      OBVIOUS
    <3>1. /\ at \in DOMAIN RunStatements(s) /\ begun' = begun
          /\ frames' = IF st.op = "throw" THEN <<>>
                       ELSE IF st.op = "call" \/ Len(frames) = MaxFrames THEN SetTop(at + 1)
                       ELSE Push(SetTop(at + 1), t)
      <4>1. Top.s = s /\ Top.at = at
        BY <2>2
      <4>2. /\ Top.at \in DOMAIN RunStatements(Top.s) /\ begun' = begun
            /\ frames' = IF CurrentStatement.op = "throw" THEN <<>>
                         ELSE IF CurrentStatement.op = "call" \/ Len(frames) = MaxFrames
                         THEN SetTop(Top.at + 1)
                         ELSE Push(SetTop(Top.at + 1), CallTarget(object, CurrentCall))
        BY <2>12 DEF RunStatement
      <4>3. CurrentStatement = st /\ CallTarget(object, CurrentCall) = t
        BY <4>1 DEF CurrentStatement, CurrentCall, OwnerOf
      <4> QED BY ONLY <4>1, <4>2, <4>3
    <3>2. at >= 1 /\ at + 1 >= 1 /\ at + 1 \in Int
      <4>1. RunStatements(s) \in Seq(StatementsOf(syntax))
        BY <2>3, <2>6, StatementsRun
      <4>2. at \in 1..Len(RunStatements(s))
        BY ONLY <3>1, <4>1
      <4> QED BY <2>2, <4>2
    <3>3. CASE frames' = <<>>
      <4>1. <<>> \in Seq([s : Nat, at : Int]) /\ \A n \in 1..Len(<<>>) : n \notin 1..0
        OBVIOUS
      <4>2. \A n \in 1..Len(frames') : FrameFits(n)'
        BY <3>3
      <4> QED BY <2>1, <2>2, <2>6, <3>1, <3>3, <4>1, <4>2, StackReplaced
    <3>4. CASE frames' = SetTop(at + 1)
      <4> PICK a : a = at + 1
        OBVIOUS
      <4>1. a \in Int /\ a >= 1 /\ 0 \in Nat
        BY <3>2
      <4>2. Len(frames') = L /\ frames'[L].s = s /\ frames'[L].at = a
            /\ (L > 1 => frames'[L - 1].s = frames[L - 1].s)
        BY <2>7, <3>4, <4>1
      <4>3. FrameFits(L)'
        BY <2>8, <3>1, <3>2, <4>1, <4>2
      <4>4. frames' # Push(SetTop(a), 0)
        BY <2>2, <2>7, <4>1, <4>2
      <4> QED BY <1>6, <2>1, <2>2, <3>1, <3>4, <4>1, <4>3, <4>4
    <3>5. CASE frames' = Push(SetTop(at + 1), t) /\ st.op \notin {"throw", "call"}
      <4> PICK a : a = at + 1
        OBVIOUS
      <4>1. st.op \in {"self", "super"} /\ Callee(owner, st) # 0
        BY <2>3, <2>6, <3>1, <3>5, SelfStatements
      <4>2. /\ t \in DOMAIN symbols /\ symbols[t].declared /\ ~IsConstructor(t)
            /\ symbols[t].file \in Lineage(object)
            /\ IsConstructor(s) => symbols[t].file \in {owner} \cup Ancestors(Bases, owner)
        <5>1. Accepted /\ DescriptorFacts /\ phase = "run" /\ object \in Concrete
          BY <2>2, <2>6
        <5>2. owner \in Lineage(object)
          BY <2>3
        <5> QED BY ONLY <4>1, <5>1, <5>2, owner = symbols[s].file, SelfCall,
                        t = CallTarget(object, [by |-> s, st |-> st, callee |-> Callee(owner, st)])
      <4>3. a \in Int /\ a >= 1 /\ t \in Nat
        BY <2>11, <3>2, <4>2
      <4>4. /\ Len(frames') = L + 1 /\ frames'[L].s = s /\ frames'[L].at = a
            /\ L > 1 => frames'[L - 1].s = frames[L - 1].s
            /\ frames'[L + 1].s = t /\ frames'[L + 1].at = 1
        <5>1. /\ Len(Push(SetTop(a), t)) = L + 1
              /\ Push(SetTop(a), t)[L].s = s /\ Push(SetTop(a), t)[L].at = a
              /\ L > 1 => Push(SetTop(a), t)[L - 1].s = frames[L - 1].s
              /\ Push(SetTop(a), t)[L + 1].s = t
              /\ Push(SetTop(a), t)[L + 1].at = IF IsConstructor(t) THEN -1 ELSE 1
          BY ONLY <2>7, <4>3
        <5>2. frames' = Push(SetTop(a), t)
          BY <3>5
        <5> QED BY ONLY <4>2, <5>1, <5>2
      <4>5. FrameFits(L)'
        BY <2>8, <3>1, <3>2, <4>3, <4>4
      <4>6. IsConstructor(s) => symbols[t].file \in begun
        BY <2>2, <2>3, <3>2, <4>2
      <4>7. FrameFits(L + 1)'
        <5>1. L + 1 - 1 = L /\ 1 >= 1
          BY <2>2
        <5> PICK n : n = L + 1
          OBVIOUS
        <5> PICK file : file = symbols[t].file
          OBVIOUS
        <5>2. /\ frames'[n].s = t /\ frames'[n].at = 1
              /\ IsConstructor(frames'[n - 1].s) => file \in begun'
          <6>1. n - 1 = L /\ frames'[n] = frames'[L + 1] /\ frames'[n - 1] = frames'[L]
            BY <5>1
          <6>2. IsConstructor(frames'[n - 1].s) => IsConstructor(s)
            BY ONLY <4>4, <6>1
          <6>3. IsConstructor(s) => file \in begun'
            BY <3>1, <4>6
          <6> QED BY ONLY <4>4, <6>1, <6>2, <6>3
        <5>3. UNCHANGED <<syntax, files, symbols, object>>
          BY <2>1, <2>6
        <5>4. FrameFits(n)'
          BY ONLY file = symbols[t].file, <4>2, <5>1, <5>2, <5>3, FrameMoved
        <5> QED BY <5>4
      <4> QED BY <1>6, <2>1, <2>2, <3>1, <3>5, <4>3, <4>5, <4>7
    <3> QED BY <3>1, <3>3, <3>4, <3>5
  <2>13. CASE Return
    <3>1. at = Len(RunStatements(s)) + 1 /\ begun' = begun /\ frames' = Front(frames)
      BY <2>2, <2>13 DEF Return
    <3>2. at >= 1
      <4>1. RunStatements(s) \in Seq(StatementsOf(syntax))
        BY <2>3, <2>6, StatementsRun
      <4>2. Len(RunStatements(s)) \in Nat
        BY ONLY <4>1
      <4> QED BY <3>1, <4>2
    <3> PICK K : K = L - 1
      OBVIOUS
    <3>3. /\ frames' \in Seq([s : Nat, at : Int]) /\ Len(frames') = K /\ K \in Nat /\ L = K + 1
          /\ \A n \in 1..K : frames'[n] = frames[n] /\ n \in 1..L
      <4>1. 0 \in Int /\ 0 \in Nat
        OBVIOUS
      <4>2. /\ Front(frames) \in Seq([s : Nat, at : Int]) /\ Len(Front(frames)) = L - 1
            /\ \A n \in 1..(L - 1) : Front(frames)[n] = frames[n]
        BY <2>1, <2>2, <4>1, StackFacts
      <4>3. K \in Nat /\ L = K + 1 /\ \A n \in 1..K : n \in 1..L
        BY <2>2
      <4> QED BY ONLY <3>1, <4>2, <4>3, K = L - 1
    <3>4. \A n \in 1..L : FrameFits(n)
      BY DEF FrameInv
    <3>5. UNCHANGED <<syntax, files, symbols, object>>
      BY <2>1, <2>6
    <3>6. ASSUME NEW n \in 1..K, n # K PROVE FrameFits(n)'
      <4>1. /\ n \in Nat /\ n \in 1..L /\ n + 1 \in 1..K /\ n # L
            /\ n > 1 => n - 1 \in 1..K
        BY <3>3, <3>6
      <4>2. /\ FrameFits(n) /\ frames'[n] = frames[n] /\ (n > 1 => frames'[n - 1].s = frames[n - 1].s)
            /\ frames'[n + 1].s = frames[n + 1].s /\ n # Len(frames) /\ n # Len(frames')
            /\ begun \subseteq begun'
        BY <3>1, <3>3, <3>4, <3>6, <4>1
      <4> QED BY <3>5, <4>1, <4>2, FrameStays
    <3>7. ASSUME K # 0 PROVE FrameFits(K)'
      <4> PICK c : c = frames[K].s
        OBVIOUS
      <4> PICK where : where = frames[K].at
        OBVIOUS
      <4> PICK file : file = symbols[c].file
        OBVIOUS
      <4>1. /\ K \in 1..K /\ K \in 1..L /\ K # L /\ L > 1 /\ (K > 1 => K - 1 \in 1..K)
            /\ K + 1 = L /\ K = Len(frames')
        BY <3>3, <3>7
      <4>2. /\ c \in DOMAIN symbols /\ symbols[c].declared /\ file \in Lineage(object)
            /\ IsConstructor(c) =>
                 /\ c = files[file].constructor /\ where >= -1
                 /\ where = 0 => /\ files[file].base # 0
                                 /\ s = files[files[file].base].constructor
                 /\ where >= 1 => file \in begun
            /\ ~IsConstructor(c) =>
                 /\ where >= 1
                 /\ K > 1 /\ IsConstructor(frames[K - 1].s) => file \in begun
        BY <3>4, <4>1 DEF FrameFits
      <4>3. IsConstructor(c) /\ where = 0 => Ancestors(Bases, file) \subseteq begun
        <5> SUFFICES ASSUME IsConstructor(c), where = 0
                     PROVE  Ancestors(Bases, file) \subseteq begun
          OBVIOUS
        <5> PICK base : base = files[file].base
          OBVIOUS
        <5>1. base # 0 /\ s = files[base].constructor
          BY <4>2
        <5>2. base \in ClassIds /\ Ancestors(Bases, file) = {base} \cup Ancestors(Bases, base)
          BY <2>4, <2>6, <4>2, <5>1, LineageOfClasses
        <5>3. IsConstructor(s) /\ owner = base
          <6>1. s # 0 /\ base \in FileIds
            BY <2>3, <2>11, <5>2 DEF ClassIds
          <6>2. ConstructorRegistered(base)
            BY <2>6, <6>1 DEF SymbolFacts
          <6> QED BY <5>1, <6>1, <6>2 DEF ConstructorRegistered, IsConstructor
        <5>4. base \in begun
          BY <2>3, <3>2, <5>3
        <5> QED BY <2>2, <5>2, <5>4
      <4>4. /\ frames'[K].s = c /\ frames'[K].at = where
            /\ K > 1 => frames'[K - 1].s = frames[K - 1].s
        BY <3>3, <4>1
      <4>5. \A x \in begun : x \in begun'
        BY <3>1
      <4>6. \A x : IsConstructor(x)' <=> IsConstructor(x)
        BY <2>6
      <4>7. /\ ~IsConstructor(c) => where >= 1
            /\ K > 1 /\ IsConstructor(frames'[K - 1].s) /\ ~IsConstructor(c) => file \in begun'
        BY <4>2, <4>4, <4>5
      <4>8. IsConstructor(c) => /\ c = files[file].constructor /\ where >= -1
                                /\ where = 0 => Ancestors(Bases, file) \subseteq begun'
                                /\ where >= 1 => file \in begun'
        BY <4>2, <4>3, <4>5
      <4> QED BY ONLY file = symbols[c].file, <3>5, <4>1, <4>2, <4>4, <4>7, <4>8, FrameMoved
    <3>8. \A n \in 1..Len(frames') : FrameFits(n)'
      BY <3>3, <3>6, <3>7
    <3> QED BY <2>1, <2>2, <2>6, <3>1, <3>3, <3>8, StackReplaced
  <2> QED BY <1>7, <2>9, <2>10, <2>12, <2>13
<1> QED BY <1>1, <1>2, <1>3, <1>5, <1>7 DEF Next

\* The frames of a construction keep the order it promises.
LEMMA FramesOrdered ==
  ASSUME FrameInv
  PROVE  ConstructionOrder
<1>1. ASSUME NEW n \in 2..Len(frames), IsConstructor(frames[n - 1].s), ~IsConstructor(frames[n].s)
      PROVE  OwnerOf(frames[n].s) \in begun
  <2>1. Len(frames) \in Nat
    BY DEF FrameInv
  <2>2. n \in 1..Len(frames) /\ n > 1
    BY <2>1
  <2> QED BY <1>1, <2>2 DEF FrameInv, FrameFits, OwnerOf
<1> QED BY <1>1 DEF ConstructionOrder, FrameInv

\* A derived class is initialized after its base, and a function that a
\* constructor or a field initializer runs on self belongs to a class whose
\* fields come no later: InitializeFields follows RunBaseConstructor, and
\* DispatchKind keeps such a call from the overrides of derived classes.
THEOREM ConstructionIsOrdered == Spec => []ConstructionOrder
<1>1. Init => SemaInv /\ DescriptorFacts /\ FrameInv
  <2>1. <<>> \in Seq([s : Nat, at : Int]) /\ \A n \in 1..Len(<<>>) : FALSE
    OBVIOUS
  <2> SUFFICES ASSUME Init PROVE SemaInv /\ DescriptorFacts /\ FrameInv
    OBVIOUS
  <2>2. SemaInv /\ DescriptorFacts
    BY SemaStarts DEF Init, SemaInit, DescriptorFacts
  <2>3. frames = <<>> /\ begun = {}
    BY DEF Init
  <2> QED BY <2>1, <2>2, <2>3 DEF FrameInv
<1>2. SemaInv /\ DescriptorFacts /\ FrameInv /\ [Next]_vars
        => (SemaInv /\ DescriptorFacts /\ FrameInv)'
  BY SemaPersists, DescriptorsStay, FramesStep
<1>3. FrameInv => ConstructionOrder
  BY FramesOrdered
<1> QED BY <1>1, <1>2, <1>3, PTL DEF Spec

-----------------------------------------------------------------------------
(* Layouts *)

Alignments == {1, 2, 4, 8}
FieldEntries == [owner : 0..Len(syntax), index : Nat, type : TypesOf(syntax), offset : Nat]
Shapes == [header : {0, Header}, size : Nat, align : Alignments, fields : Seq(FieldEntries),
           refs : Seq(Nat), ok : BOOLEAN, depth : Nat]

\* References are words of their own, in the order they lie from a place on.
RefsFit(refs, from, size, align) ==
  /\ refs \in Seq(Nat) /\ Ascending(refs)
  /\ \A n \in DOMAIN refs : refs[n] >= from /\ refs[n] % Pointer = 0 /\ refs[n] + Pointer <= size
  /\ refs # <<>> => align = Pointer

\* A value of a type laid out so far.
StorageFits(v) ==
  /\ v.size \in Nat /\ v.align \in Alignments /\ v.size % v.align = 0
  /\ RefsFit(v.refs, 0, v.size, v.align)

\* Fields lie in the object, each where its type may, none over another.
LaidOut(t) == InlineStruct(t) \in DOMAIN layouts \cup {0}
FieldFits(l, n) ==
  LET f == l.fields[n]  t == TypeLayout(f.type) IN
  /\ LaidOut(f.type) /\ t.align <= l.align
  /\ f.offset >= l.header /\ f.offset % t.align = 0 /\ f.offset + t.size <= l.size
FieldsApart(l) ==
  \A m, n \in DOMAIN l.fields : m < n =>
    l.fields[m].offset + TypeLayout(l.fields[m].type).size <= l.fields[n].offset

\* The references of an object are those of its fields.
FieldRefs(f) == {f.offset + r : r \in ToSet(TypeLayout(f.type).refs)}
RefsExact(l) == ToSet(l.refs) = UNION {FieldRefs(l.fields[n]) : n \in DOMAIN l.fields}

ShapeFits(l) ==
  /\ l \in Shapes /\ l.header <= l.size
  /\ RefsFit(l.refs, l.header, l.size, l.align)
  /\ \A n \in DOMAIN l.fields : FieldFits(l, n)
  /\ FieldsApart(l) /\ RefsExact(l)

\* A class starts as its base does.
StartsAs(l, b) ==
  /\ l.header = b.header /\ l.size >= b.size /\ l.align >= b.align
  /\ IsPrefix(b.fields, l.fields)

FitsFile(i, l) ==
  /\ ShapeFits(l) /\ l.ok /\ l.size % l.align = 0
  /\ syntax[i].kind = "enum" => l.size = 0
  /\ syntax[i].kind = "struct" => l.header = 0 /\ l.size # 0
  /\ syntax[i].kind \in {"class", "error", "interface"} => l.header = Header /\ l.align = Pointer
  /\ IsInterface(i) => l.fields = <<>>
  /\ syntax[i].kind = "error" => l.size >= Header + Pointer
  /\ i = Obj => l.size = Header
  /\ files[i].base # 0 => files[i].base \in DOMAIN layouts /\ StartsAs(l, layouts[files[i].base])
LayoutFits(i) == FitsFile(i, layouts[i])

\* Files are laid out one after the other, each after the structs it embeds.
LaidOutInTurn(rank, done) ==
  \A i \in done :
    /\ rank[i] \in 1..Cardinality(done)
    /\ \A n \in DOMAIN layouts[i].fields :
         LET e == InlineStruct(layouts[i].fields[n].type)
         IN  e # 0 => e \in done /\ rank[e] < rank[i]

LayoutFacts ==
  /\ DOMAIN layouts \subseteq FileIds
  /\ \A i \in DOMAIN layouts : LayoutFits(i)
  /\ \E rank \in [DOMAIN layouts -> 1..Cardinality(DOMAIN layouts)] :
       LaidOutInTurn(rank, DOMAIN layouts)
LayoutInv ==
  /\ phase \in Analysing => layouts = <<>>
  /\ phase \in {"abi", "verify", "run"} => LayoutFacts
  /\ phase \in {"verify", "run"} => DOMAIN layouts = FileIds

\* What aligning a size to a power of two gives.
LEMMA Aligned ==
  ASSUME NEW v \in Nat, NEW a \in Alignments
  PROVE  /\ AlignUp(v, a) \in Nat /\ AlignUp(v, a) >= v /\ AlignUp(v, a) < v + a
         /\ AlignUp(v, a) % a = 0
         /\ v % a = 0 => AlignUp(v, a) = v
BY DEF AlignUp, Alignments

\* Alignments are powers of two, and a place fit for the larger fits the smaller.
LEMMA AlignmentsNest ==
  /\ \A a \in Alignments : a \in Nat \ {0} /\ Pow2(a)
  /\ \A a, b \in Alignments : \A v \in Nat : a <= b /\ v % b = 0 => v % a = 0
  /\ \A a, b \in Alignments :
       /\ Larger(a, b) \in Alignments /\ a <= Larger(a, b) /\ b <= Larger(a, b)
       /\ a = Pointer \/ b = Pointer => Larger(a, b) = Pointer
  /\ Pointer = 8 /\ Header = 16 /\ Pointer \in Alignments
<1>1. 1 = 2^0 /\ 2 = 2^1 /\ 4 = 2^2 /\ 8 = 2^3
  OBVIOUS
<1>2. \A a \in Alignments : a \in Nat \ {0} /\ Pow2(a)
  BY <1>1 DEF Alignments, Pow2
<1>3. \A a, b \in Alignments : \A v \in Nat : a <= b /\ v % b = 0 => v % a = 0
  BY DEF Alignments
<1> QED BY <1>2, <1>3 DEF Alignments, Larger, Pointer, Header, HeaderWords

\* Moving references moves each of them.
LEMMA ShiftedRefs ==
  ASSUME NEW refs, NEW by \in Nat, NEW from \in Nat, NEW size \in Nat, NEW align,
         RefsFit(refs, from, size, align), refs # <<>> => by % Pointer = 0
  PROVE  /\ RefsFit(Shift(refs, by), by + from, by + size, align)
         /\ Len(Shift(refs, by)) = Len(refs)
         /\ ToSet(Shift(refs, by)) = {by + r : r \in ToSet(refs)}
<1> PICK n : n = Len(refs)
  OBVIOUS
<1> PICK moved : moved = Shift(refs, by)
  OBVIOUS
<1>1. n \in Nat /\ DOMAIN refs = 1..n /\ \A k \in 1..n : refs[k] \in Nat
  BY DEF RefsFit
<1>2. moved = [k \in 1..n |-> refs[k] + by]
  BY <1>1 DEF Shift
<1>3. [k \in 1..n |-> refs[k] + by] \in [1..n -> Nat]
  BY <1>1
<1>4. moved \in Seq(Nat) /\ Len(moved) = n /\ DOMAIN moved = 1..n /\ \A k \in 1..n : moved[k] = refs[k] + by
  BY <1>1, <1>2, <1>3, FunctionIsSeq
<1>5. Ascending(moved)
  BY <1>1, <1>4 DEF RefsFit, Ascending
<1>6. \A k \in DOMAIN moved : /\ moved[k] >= by + from /\ moved[k] % Pointer = 0
                              /\ moved[k] + Pointer <= by + size
  <2> SUFFICES ASSUME NEW k \in 1..n
               PROVE  /\ refs[k] + by >= by + from /\ (refs[k] + by) % Pointer = 0
                      /\ refs[k] + by + Pointer <= by + size
    BY <1>4
  <2>1. refs[k] >= from /\ refs[k] % Pointer = 0 /\ refs[k] + Pointer <= size /\ refs # <<>>
    BY <1>1 DEF RefsFit
  <2>2. \A x, y \in Nat : x % 8 = 0 /\ y % 8 = 0 => (x + y) % 8 = 0
    OBVIOUS
  <2>3. refs[k] \in Nat /\ by % Pointer = 0
    BY <1>1, <2>1
  <2>4. (refs[k] + by) % Pointer = 0
    BY <2>1, <2>2, <2>3 DEF Pointer
  <2> QED BY <2>1, <2>3, <2>4 DEF Pointer
<1>7. moved # <<>> => align = Pointer
  BY <1>1, <1>4 DEF RefsFit
<1>8. ToSet(moved) = {moved[k] : k \in 1..n} /\ ToSet(refs) = {refs[k] : k \in 1..n}
  BY <1>1, <1>4 DEF ToSet
<1>9. \A k \in 1..n : moved[k] = by + refs[k]
  BY <1>1, <1>4
<1>10. {moved[k] : k \in 1..n} = {by + r : r \in {refs[k] : k \in 1..n}}
  BY <1>9
<1> QED BY <1>4, <1>5, <1>6, <1>7, <1>8, <1>10 DEF RefsFit

\* A nullable value carries the value behind its flag.
LEMMA NullableStorage ==
  ASSUME NEW e, StorageFits(e)
  PROVE  LET v == NullableValueLayout(e) IN
         /\ StorageFits(v) /\ v.size = e.align + e.size /\ v.size # 0
         /\ v.refs = Shift(e.refs, e.align)
<1>1. /\ e.size \in Nat /\ e.align \in Alignments /\ e.size % e.align = 0
      /\ RefsFit(e.refs, 0, e.size, e.align)
  BY DEF StorageFits
<1>2. AlignUp(1, e.align) = e.align
  BY <1>1 DEF AlignUp, Alignments
<1>3. e.align + e.size \in Nat /\ (e.align + e.size) % e.align = 0 /\ e.align + e.size # 0 /\ e.align \in Nat
  BY <1>1 DEF Alignments
<1>4. AlignUp(e.align + e.size, e.align) = e.align + e.size
  BY <1>1, <1>3, Aligned
<1>5. NullableValueLayout(e) = Storage(e.align + e.size, e.align, Shift(e.refs, e.align))
  BY <1>2, <1>4 DEF NullableValueLayout
<1>6. e.refs # <<>> => e.align % Pointer = 0
  BY <1>1 DEF RefsFit, Pointer
<1>7. RefsFit(Shift(e.refs, e.align), e.align + 0, e.align + e.size, e.align)
  BY <1>1, <1>3, <1>6, ShiftedRefs
<1>8. RefsFit(Shift(e.refs, e.align), 0, e.align + e.size, e.align)
  BY <1>1, <1>7 DEF RefsFit
<1> QED BY <1>1, <1>3, <1>5, <1>8 DEF StorageFits, Storage

\* A layout is the storage of the type it is of.
LEMMA LayoutStorage ==
  ASSUME NEW i \in DOMAIN layouts, LayoutFits(i)
  PROVE  StorageFits(Storage(layouts[i].size, layouts[i].align, layouts[i].refs))
<1>1. layouts[i] \in Shapes /\ layouts[i].size % layouts[i].align = 0
      /\ RefsFit(layouts[i].refs, layouts[i].header, layouts[i].size, layouts[i].align)
  BY DEF LayoutFits, FitsFile, ShapeFits
<1>2. layouts[i].header \in Nat /\ layouts[i].size \in Nat /\ layouts[i].align \in Alignments
  BY <1>1, AlignmentsNest DEF Shapes
<1>3. RefsFit(layouts[i].refs, 0, layouts[i].size, layouts[i].align)
  BY <1>1, <1>2 DEF RefsFit
<1> QED BY <1>1, <1>2, <1>3 DEF StorageFits, Storage

\* The struct a value holds in place, if it holds one.
LEMMA StructTypes ==
  ASSUME WellFormedProgram(syntax), NEW t \in TypesOf(syntax)
  PROVE  /\ Element(t) \in TypesOf(syntax) /\ ~Element(t).n /\ Element(t).f = t.f
         /\ Element(Element(t)) = Element(t)
         /\ ~t.n => Element(t) = t
         /\ t.n => TypeKind(t) = "nullable"
         /\ IsReference(Element(t)) <=> IsReference(t)
         /\ InlineStruct(t) # 0 => /\ TypeKind(Element(t)) = "struct" /\ InlineStruct(t) = t.f
                                   /\ t.f \in FileIds /\ syntax[t.f].kind = "struct"
         /\ InlineStruct(t) = 0 => TypeKind(Element(t)) # "struct"
         /\ InlineStruct(Element(t)) = InlineStruct(t)
<1> PICK e : e = Element(t)
  OBVIOUS
<1>1. DOMAIN t = {"k", "f", "n"} /\ t.n \in BOOLEAN
  BY DEF TypesOf
<1>2. e \in TypesOf(syntax) /\ ~e.n /\ e.f = t.f /\ e.k = t.k /\ (~t.n => e = t)
  BY <1>1 DEF Element, TypesOf
<1>3. Element(e) = e
  BY <1>2 DEF Element, TypesOf
<1>4. t.n => TypeKind(t) = "nullable"
  BY DEF TypeKind
<1>5. IsReference(e) <=> IsReference(t)
  BY <1>3 DEF IsReference
<1>6. TypeKind(e) = "struct" => e.f \in FileIds /\ syntax[e.f].kind = "struct"
  <2>1. CASE e.k = "file"
    <3>1. e.f \in FileIds
      BY <1>2, <2>1 DEF TypesOf, FileIds, ScalarNames
    <3> QED BY <1>2, <2>1, <3>1 DEF TypeKind
  <2>2. CASE e.k # "file"
    BY <1>2, <2>2 DEF TypesOf, TypeKind, ScalarNames
  <2> QED BY <2>1, <2>2
<1>7. 0 \notin FileIds
  BY ProgramTyped
<1> QED BY <1>2, <1>3, <1>4, <1>5, <1>6, <1>7 DEF InlineStruct

\* A value that is no reference is laid out as its struct or its scalar is.
LEMMA ValueStorage ==
  ASSUME WellFormedProgram(syntax), \A i \in DOMAIN layouts : LayoutFits(i),
         NEW t \in TypesOf(syntax), ~t.n, LaidOut(t)
  PROVE  /\ StorageFits(ValueLayout(t))
         /\ InlineStruct(t) # 0 =>
              ValueLayout(t) = Storage(layouts[t.f].size, layouts[t.f].align, layouts[t.f].refs)
         /\ InlineStruct(t) = 0 => ValueLayout(t).refs = <<>>
<1>1. Element(t) = t
  BY StructTypes
<1>2. CASE InlineStruct(t) # 0
  <2>1. TypeKind(t) = "struct" /\ InlineStruct(t) = t.f
    BY <1>1, <1>2, StructTypes
  <2>2. t.f \in DOMAIN layouts
    BY <1>2, <2>1 DEF LaidOut
  <2>3. ValueLayout(t) = Storage(layouts[t.f].size, layouts[t.f].align, layouts[t.f].refs)
    BY <2>1, <2>2 DEF ValueLayout
  <2> QED BY <1>2, <2>2, <2>3, LayoutStorage
<1>3. CASE InlineStruct(t) = 0
  <2> PICK n : n = ScalarSize(TypeKind(t))
    OBVIOUS
  <2>1. TypeKind(t) # "struct"
    BY <1>1, <1>3, StructTypes
  <2>2. n \in {0, 1, 2, 4, 8}
    BY DEF ScalarSize
  <2>3. ValueLayout(t) = Storage(n, Larger(n, 1), <<>>)
    BY <2>1 DEF ValueLayout
  <2>4. Larger(n, 1) \in Alignments /\ n % Larger(n, 1) = 0 /\ n \in Nat
    BY <2>2 DEF Larger, Alignments
  <2>5. RefsFit(<<>>, 0, n, Larger(n, 1))
    BY DEF RefsFit, Ascending
  <2> QED BY <1>3, <2>3, <2>4, <2>5 DEF StorageFits, Storage
<1> QED BY <1>2, <1>3

\* Every type whose struct is laid out has a layout that fits.
LEMMA TypeStorage ==
  ASSUME WellFormedProgram(syntax), \A i \in DOMAIN layouts : LayoutFits(i),
         NEW t \in TypesOf(syntax), LaidOut(t)
  PROVE  /\ StorageFits(TypeLayout(t))
         /\ IsReference(t) => TypeLayout(t) = Storage(Pointer, Pointer, <<0>>)
         /\ ~IsReference(t) /\ InlineStruct(t) = 0 => TypeLayout(t).refs = <<>>
         /\ ~IsReference(t) /\ InlineStruct(t) # 0 =>
              ToSet(TypeLayout(t).refs) =
                {(IF t.n THEN layouts[t.f].align ELSE 0) + w : w \in ToSet(layouts[t.f].refs)}
         /\ TypeKind(t) = "struct" =>
              TypeLayout(t) = Storage(layouts[t.f].size, layouts[t.f].align, layouts[t.f].refs)
<1> PICK e : e = Element(t)
  OBVIOUS
<1>1. /\ e \in TypesOf(syntax) /\ ~e.n /\ e.f = t.f /\ Element(e) = e /\ (~t.n => e = t)
      /\ (IsReference(e) <=> IsReference(t)) /\ InlineStruct(e) = InlineStruct(t)
  BY StructTypes
<1>2. LaidOut(e)
  BY <1>1 DEF LaidOut
<1>3. /\ StorageFits(ValueLayout(e))
      /\ InlineStruct(t) # 0 =>
           ValueLayout(e) = Storage(layouts[t.f].size, layouts[t.f].align, layouts[t.f].refs)
      /\ InlineStruct(t) = 0 => ValueLayout(e).refs = <<>>
  BY <1>1, <1>2, ValueStorage
<1>4. CASE IsReference(t)
  <2>1. TypeLayout(t) = Storage(Pointer, Pointer, <<0>>)
    <3>1. ~IsNullableValue(t)
      BY <1>1, <1>4 DEF IsNullableValue
    <3> QED BY <1>4, <3>1 DEF TypeLayout
  <2>2. RefsFit(<<0>>, 0, Pointer, Pointer)
    BY DEF RefsFit, Ascending, Pointer
  <2>3. StorageFits(Storage(Pointer, Pointer, <<0>>))
    BY <2>2, AlignmentsNest DEF StorageFits, Storage
  <2>4. TypeKind(t) # "struct"
    BY <1>1, <1>4, StructTypes DEF IsReference
  <2> QED BY <1>4, <2>1, <2>3, <2>4
<1>5. CASE ~IsReference(t) /\ t.n
  <2>1. IsNullableValue(t)
    BY <1>1, <1>5 DEF IsNullableValue
  <2>2. TypeLayout(t) = NullableValueLayout(ValueLayout(e))
    BY <1>5, <2>1 DEF TypeLayout
  <2> PICK v : v = ValueLayout(e)
    OBVIOUS
  <2>3. StorageFits(TypeLayout(t)) /\ TypeLayout(t).refs = Shift(v.refs, v.align)
    BY <1>3, <2>2, NullableStorage
  <2>4. TypeKind(t) = "nullable"
    BY <1>5, StructTypes
  <2>5. v.refs = <<>> => TypeLayout(t).refs = <<>>
    BY <2>3 DEF Shift
  <2>6. v.size \in Nat /\ v.align \in Alignments /\ v.align \in Nat /\ RefsFit(v.refs, 0, v.size, v.align)
    BY <1>3, AlignmentsNest DEF StorageFits
  <2>7. v.refs # <<>> => v.align % Pointer = 0
    BY <2>6, AlignmentsNest DEF RefsFit
  <2>8. ToSet(TypeLayout(t).refs) = {v.align + w : w \in ToSet(v.refs)}
    BY <2>3, <2>6, <2>7, ShiftedRefs
  <2>9. InlineStruct(t) # 0 => v.align = layouts[t.f].align /\ v.refs = layouts[t.f].refs
    BY <1>3 DEF Storage
  <2> QED BY <1>3, <1>5, <2>3, <2>4, <2>5, <2>8, <2>9
<1>6. CASE ~IsReference(t) /\ ~t.n
  <2>1. TypeLayout(t) = ValueLayout(e)
    BY <1>1, <1>6 DEF TypeLayout, IsNullableValue
  <2>2. InlineStruct(t) # 0 => TypeLayout(t).refs = layouts[t.f].refs
    BY <1>3, <2>1 DEF Storage
  <2>3. InlineStruct(t) # 0 => \A w \in ToSet(layouts[t.f].refs) : 0 + w = w
    <3>1. RefsFit(ValueLayout(e).refs, 0, ValueLayout(e).size, ValueLayout(e).align)
      BY <1>3 DEF StorageFits
    <3>2. ValueLayout(e).refs \in Seq(Nat)
      BY <3>1 DEF RefsFit
    <3>3. ToSet(ValueLayout(e).refs) \subseteq Nat
      BY <3>2 DEF ToSet
    <3> QED BY <2>1, <2>2, <3>3
  <2>4. InlineStruct(t) # 0 => ToSet(layouts[t.f].refs) = {0 + w : w \in ToSet(layouts[t.f].refs)}
    BY <2>3
  <2>5. TypeKind(t) = "struct" => InlineStruct(t) # 0
    BY <1>1, <1>6, StructTypes
  <2> QED BY <1>3, <1>6, <2>1, <2>2, <2>4, <2>5
<1> QED BY <1>1, <1>4, <1>5, <1>6 DEF TypesOf

\* A prefix, by its elements.
LEMMA PrefixFacts ==
  ASSUME NEW T, NEW s \in Seq(T), NEW t \in Seq(T)
  PROVE  IsPrefix(s, t) <=> Len(s) <= Len(t) /\ \A n \in 1..Len(s) : t[n] = s[n]
<1> PICK a : a = SubSeq(s, 1, Len(s))
  OBVIOUS
<1> PICK b : b = SubSeq(t, 1, Len(s))
  OBVIOUS
<1>1. Len(s) \in Nat /\ Len(t) \in Nat
  OBVIOUS
<1>2. a \in Seq(T) /\ Len(a) = Len(s) /\ \A n \in 1..Len(s) : a[n] = s[n]
  OBVIOUS
<1>3. Len(s) <= Len(t) => b \in Seq(T) /\ Len(b) = Len(s) /\ \A n \in 1..Len(s) : b[n] = t[n]
  OBVIOUS
<1>4. Len(s) <= Len(t) => (a = b <=> \A n \in 1..Len(s) : a[n] = b[n])
  BY <1>1, <1>2, <1>3
<1> QED BY <1>1, <1>2, <1>3, <1>4 DEF IsPrefix

\* Appending an element keeps the others.
LEMMA AppendedFacts ==
  ASSUME NEW T, NEW s \in Seq(T), NEW x \in T
  PROVE  /\ Append(s, x) \in Seq(T) /\ Len(Append(s, x)) = Len(s) + 1
         /\ \A n \in 1..Len(s) : Append(s, x)[n] = s[n]
         /\ Append(s, x)[Len(s) + 1] = x
         /\ IsPrefix(s, Append(s, x))
<1>1. /\ Append(s, x) \in Seq(T) /\ Len(Append(s, x)) = Len(s) + 1 /\ Len(s) \in Nat
      /\ \A n \in 1..Len(s) : Append(s, x)[n] = s[n]
      /\ Append(s, x)[Len(s) + 1] = x
  OBVIOUS
<1>2. IsPrefix(s, Append(s, x)) <=>
        Len(s) <= Len(Append(s, x)) /\ \A n \in 1..Len(s) : Append(s, x)[n] = s[n]
  BY <1>1, PrefixFacts
<1>3. IsPrefix(s, Append(s, x))
  BY <1>1, <1>2
<1> QED BY <1>1, <1>3

\* References behind others follow them.
LEMMA RefsAppended ==
  ASSUME NEW a, NEW b, NEW from \in Nat, NEW mid \in Nat, NEW size \in Nat, NEW align, NEW larger,
         RefsFit(a, from, mid, align), RefsFit(b, mid, size, larger), from <= mid, mid <= size,
         a # <<>> => larger = Pointer
  PROVE  RefsFit(a \o b, from, size, larger) /\ ToSet(a \o b) = ToSet(a) \cup ToSet(b)
<1> PICK c : c = a \o b
  OBVIOUS
<1>1. a \in Seq(Nat) /\ b \in Seq(Nat)
  BY DEF RefsFit
<1>2. /\ Len(a) \in Nat /\ DOMAIN a = 1..Len(a) /\ \A n \in 1..Len(a) : a[n] \in Nat
      /\ Len(b) \in Nat /\ DOMAIN b = 1..Len(b) /\ \A n \in 1..Len(b) : b[n] \in Nat
  BY <1>1, SeqFacts
<1>3. /\ c \in Seq(Nat) /\ Len(c) = Len(a) + Len(b) /\ DOMAIN c = 1..(Len(a) + Len(b))
      /\ \A n \in 1..Len(a) : c[n] = a[n]
      /\ \A n \in 1..Len(b) : c[Len(a) + n] = b[n]
  BY <1>1
<1>4. \A n \in 1..Len(c) : n \in 1..Len(a) \/ (n - Len(a) \in 1..Len(b) /\ c[n] = b[n - Len(a)])
  <2> SUFFICES ASSUME NEW n \in 1..Len(c), n \notin 1..Len(a)
               PROVE  n - Len(a) \in 1..Len(b) /\ c[n] = b[n - Len(a)]
    OBVIOUS
  <2>1. n - Len(a) \in 1..Len(b) /\ Len(a) + (n - Len(a)) = n
    BY <1>2, <1>3
  <2> QED BY <1>3, <2>1
<1>5. /\ \A n \in 1..Len(a) : a[n] >= from /\ a[n] % Pointer = 0 /\ a[n] + Pointer <= mid
      /\ \A n \in 1..Len(b) : b[n] >= mid /\ b[n] % Pointer = 0 /\ b[n] + Pointer <= size
  BY <1>2 DEF RefsFit
<1>6. \A n \in DOMAIN c : c[n] >= from /\ c[n] % Pointer = 0 /\ c[n] + Pointer <= size
  <2> SUFFICES ASSUME NEW n \in 1..Len(c)
               PROVE  c[n] >= from /\ c[n] % Pointer = 0 /\ c[n] + Pointer <= size
    BY <1>2, <1>3
  <2>1. CASE n \in 1..Len(a)
    BY <1>2, <1>3, <1>5, <2>1 DEF Pointer
  <2>2. CASE n - Len(a) \in 1..Len(b) /\ c[n] = b[n - Len(a)]
    BY <1>2, <1>5, <2>2 DEF Pointer
  <2> QED BY <1>4, <2>1, <2>2
<1>7. Ascending(c)
  <2> SUFFICES ASSUME NEW n \in 1..Len(c) - 1 PROVE c[n] < c[n + 1]
    BY DEF Ascending
  <2>1. n \in 1..Len(c) /\ n + 1 \in 1..Len(c)
    BY <1>2, <1>3
  <2>2. CASE n + 1 \in 1..Len(a)
    <3>1. n \in 1..Len(a) - 1
      BY <1>2, <2>2
    <3> QED BY <1>3, <2>1, <2>2, <3>1 DEF RefsFit, Ascending
  <2>3. CASE n \in 1..Len(a) /\ n + 1 \notin 1..Len(a)
    <3>1. n + 1 - Len(a) \in 1..Len(b) /\ c[n + 1] = b[n + 1 - Len(a)]
      BY <1>4, <2>1, <2>3
    <3>2. b[n + 1 - Len(a)] >= mid /\ a[n] + Pointer <= mid /\ a[n] \in Nat /\ b[n + 1 - Len(a)] \in Nat
      BY <1>2, <1>5, <2>3, <3>1
    <3> QED BY <1>3, <2>3, <3>1, <3>2 DEF Pointer
  <2>4. CASE n \notin 1..Len(a)
    <3>1. n - Len(a) \in 1..Len(b) /\ c[n] = b[n - Len(a)]
      BY <1>4, <2>1, <2>4
    <3>2. n + 1 - Len(a) \in 1..Len(b) /\ c[n + 1] = b[n + 1 - Len(a)]
      <4>1. n + 1 \notin 1..Len(a)
        BY <1>2, <2>4
      <4> QED BY <1>4, <2>1, <4>1
    <3>3. n - Len(a) \in 1..Len(b) - 1 /\ (n - Len(a)) + 1 = n + 1 - Len(a)
      BY <1>2, <3>1, <3>2
    <3>4. b[n - Len(a)] < b[(n - Len(a)) + 1]
      BY <3>3 DEF RefsFit, Ascending
    <3> QED BY <3>1, <3>2, <3>3, <3>4
  <2> QED BY <2>2, <2>3, <2>4
<1>8. c # <<>> => larger = Pointer
  <2>1. CASE Len(b) # 0
    BY <2>1 DEF RefsFit
  <2>2. CASE Len(a) # 0
    BY <2>2
  <2>3. CASE Len(a) = 0 /\ Len(b) = 0
    BY <1>3, <2>3
  <2> QED BY <2>1, <2>2, <2>3
<1>9. ToSet(c) = ToSet(a) \cup ToSet(b)
  <2>1. ToSet(c) = {c[n] : n \in 1..Len(c)} /\ ToSet(a) = {a[n] : n \in 1..Len(a)}
        /\ ToSet(b) = {b[n] : n \in 1..Len(b)}
    BY <1>2, <1>3 DEF ToSet
  <2>2. \A n \in 1..Len(b) : Len(a) + n \in 1..Len(c)
    BY <1>2, <1>3
  <2>3. \A n \in 1..Len(a) : n \in 1..Len(c)
    BY <1>2, <1>3
  <2>4. ToSet(c) \subseteq ToSet(a) \cup ToSet(b)
    BY SMTT(40), <1>3, <1>4, <2>1
  <2>5. ToSet(a) \subseteq ToSet(c)
    BY <1>3, <2>1, <2>3
  <2>6. ToSet(b) \subseteq ToSet(c)
    BY <1>3, <2>1, <2>2
  <2> QED BY <2>4, <2>5, <2>6
<1> QED BY <1>3, <1>6, <1>7, <1>8, <1>9 DEF RefsFit

\* What a shape holds.
LEMMA ShapeTyped ==
  ASSUME NEW l \in Shapes
  PROVE  /\ DOMAIN l = {"header", "size", "align", "fields", "refs", "ok", "depth"}
         /\ l.header \in Nat /\ l.size \in Nat /\ l.align \in Alignments /\ l.align \in Nat
         /\ l.fields \in Seq(FieldEntries) /\ l.refs \in Seq(Nat) /\ l.ok \in BOOLEAN /\ l.depth \in Nat
         /\ Len(l.fields) \in Nat /\ DOMAIN l.fields = 1..Len(l.fields)
         /\ \A n \in 1..Len(l.fields) : /\ l.fields[n] \in FieldEntries
                                        /\ l.fields[n].type \in TypesOf(syntax)
                                        /\ l.fields[n].offset \in Nat
<1>1. /\ DOMAIN l = {"header", "size", "align", "fields", "refs", "ok", "depth"}
      /\ l.header \in {0, Header} /\ l.size \in Nat /\ l.align \in Alignments
      /\ l.fields \in Seq(FieldEntries) /\ l.refs \in Seq(Nat) /\ l.ok \in BOOLEAN /\ l.depth \in Nat
  BY DEF Shapes
<1>2. Len(l.fields) \in Nat /\ DOMAIN l.fields = 1..Len(l.fields)
      /\ \A n \in 1..Len(l.fields) : l.fields[n] \in FieldEntries
  BY <1>1, SeqFacts
<1>3. \A e \in FieldEntries : e.type \in TypesOf(syntax) /\ e.offset \in Nat
  BY DEF FieldEntries
<1>4. l.header \in Nat /\ l.align \in Nat
  BY ONLY <1>1 DEF Alignments, Header, HeaderWords, Pointer
<1> QED BY ONLY <1>1, <1>2, <1>3, <1>4

\* Placing a field keeps what is placed, and puts it behind.
LEMMA FieldPlaced ==
  ASSUME WellFormedProgram(syntax), \A j \in DOMAIN layouts : LayoutFits(j),
         NEW i \in FileIds, NEW n \in DOMAIN syntax[i].fields, LaidOut(syntax[i].fields[n].type),
         NEW acc, ShapeFits(acc), PlaceField(i, acc, n).ok
  PROVE  LET l == PlaceField(i, acc, n) IN
         /\ acc.ok /\ ShapeFits(l) /\ StartsAs(l, acc)
         /\ l.align = Larger(acc.align, TypeLayout(syntax[i].fields[n].type).align)
<1> PICK ty : ty = syntax[i].fields[n].type
  OBVIOUS
<1> PICK t : t = TypeLayout(ty)
  OBVIOUS
<1> PICK at : at = AlignUp(acc.size, t.align)
  OBVIOUS
<1> PICK entry : entry = [owner |-> i, index |-> n, type |-> ty, offset |-> at]
  OBVIOUS
<1> PICK l : l = PlaceField(i, acc, n)
  OBVIOUS
<1> DEFINE nested == InlineStruct(ty)
           depth == IF syntax[i].kind = "struct" /\ nested # 0 THEN Larger(acc.depth, layouts[nested].depth + 1)
                    ELSE acc.depth
<1>1. ty \in TypesOf(syntax) /\ LaidOut(ty)
  <2>1. syntax[i].fields \in Seq(FieldsOf(syntax))
    BY ProgramTyped
  <2>2. syntax[i].fields[n] \in FieldsOf(syntax)
    BY <2>1
  <2> QED BY <2>2 DEF FieldsOf
<1>2. /\ t.size \in Nat /\ t.align \in Alignments /\ t.size % t.align = 0 /\ t.align \in Nat
      /\ RefsFit(t.refs, 0, t.size, t.align)
  BY <1>1, TypeStorage, AlignmentsNest DEF StorageFits
<1>3. /\ acc \in Shapes /\ acc.header <= acc.size
      /\ RefsFit(acc.refs, acc.header, acc.size, acc.align)
      /\ \A m \in DOMAIN acc.fields : FieldFits(acc, m)
      /\ FieldsApart(acc) /\ RefsExact(acc)
  BY DEF ShapeFits
<1>4. /\ DOMAIN acc = {"header", "size", "align", "fields", "refs", "ok", "depth"}
      /\ acc.header \in Nat /\ acc.size \in Nat /\ acc.align \in Alignments /\ acc.align \in Nat
      /\ acc.fields \in Seq(FieldEntries) /\ acc.refs \in Seq(Nat) /\ acc.ok \in BOOLEAN /\ acc.depth \in Nat
      /\ Len(acc.fields) \in Nat /\ DOMAIN acc.fields = 1..Len(acc.fields)
      /\ \A m \in 1..Len(acc.fields) : /\ acc.fields[m] \in FieldEntries
                                       /\ acc.fields[m].type \in TypesOf(syntax)
                                       /\ acc.fields[m].offset \in Nat
  BY <1>3, ShapeTyped
<1>5. /\ acc.ok
      /\ l = [acc EXCEPT !.size = at + t.size, !.align = Larger(@, t.align),
                         !.fields = Append(@, entry), !.refs = @ \o Shift(t.refs, at), !.depth = depth]
  <2> DEFINE bad == \/ ~acc.ok
                    \/ t.size = 0
                    \/ syntax[i].kind = "struct" /\ Len(acc.fields) >= MaxStructFields
                    \/ Len(acc.refs) + Len(t.refs) > MaxLayoutReferences
                    \/ syntax[i].kind = "struct" /\ depth > MaxStructDepth
  <2>1. l = IF bad THEN [acc EXCEPT !.ok = FALSE]
            ELSE [acc EXCEPT !.size = at + t.size, !.align = Larger(@, t.align),
                         !.fields = Append(@, entry), !.refs = @ \o Shift(t.refs, at), !.depth = depth]
    BY DEF PlaceField
  <2>2. bad => ~acc.ok \/ [acc EXCEPT !.ok = FALSE].ok = FALSE
    BY <1>4
  <2>3. ~acc.ok => bad
    OBVIOUS
  <2> HIDE DEF bad
  <2>4. bad => l.ok = FALSE
    BY <1>4, <2>1
  <2> QED BY <2>1, <2>3, <2>4
<1> HIDE DEF depth
<1>6. /\ l.size = at + t.size /\ l.align = Larger(acc.align, t.align)
      /\ l.fields = Append(acc.fields, entry) /\ l.refs = acc.refs \o Shift(t.refs, at)
      /\ l.depth = depth /\ l.header = acc.header /\ l.ok = acc.ok
      /\ DOMAIN l = DOMAIN acc
  BY ZenonT(60), <1>4, <1>5
<1>7. at \in Nat /\ at >= acc.size /\ at % t.align = 0
  BY <1>2, <1>4, Aligned
<1>8. depth \in Nat
  <2>1. nested # 0 => layouts[nested] \in Shapes
    BY <1>1 DEF LaidOut, LayoutFits, FitsFile, ShapeFits
  <2>2. nested # 0 => layouts[nested].depth \in Nat
    BY <2>1, ShapeTyped
  <2> QED BY <1>4, <2>2 DEF depth, Larger
<1>9. l.align \in Alignments /\ l.align \in Nat /\ acc.align <= l.align /\ t.align <= l.align
      /\ (acc.align = Pointer => l.align = Pointer) /\ (t.align = Pointer => l.align = Pointer)
  <2>1. l.align = Larger(acc.align, t.align)
    BY <1>6
  <2> QED BY ONLY <1>2, <1>4, <2>1 DEF Larger, Alignments, Pointer
<1>10. entry \in FieldEntries
  <2>1. i \in 0..Len(syntax) /\ n \in Nat
    BY ProgramTyped, SeqFacts
  <2> QED BY <1>1, <1>7, <2>1 DEF FieldEntries
<1>11. /\ l.fields \in Seq(FieldEntries) /\ Len(l.fields) = Len(acc.fields) + 1
       /\ \A m \in 1..Len(acc.fields) : l.fields[m] = acc.fields[m]
       /\ l.fields[Len(acc.fields) + 1] = entry
       /\ IsPrefix(acc.fields, l.fields)
       /\ DOMAIN l.fields = 1..(Len(acc.fields) + 1)
  <2>1. /\ l.fields \in Seq(FieldEntries) /\ Len(l.fields) = Len(acc.fields) + 1
        /\ \A m \in 1..Len(acc.fields) : l.fields[m] = acc.fields[m]
        /\ l.fields[Len(acc.fields) + 1] = entry
        /\ IsPrefix(acc.fields, l.fields)
    <3>1. l.fields = Append(acc.fields, entry) /\ acc.fields \in Seq(FieldEntries)
      BY <1>4, <1>6
    <3> QED BY ONLY <1>10, <3>1, AppendedFacts
  <2> QED BY <2>1, SeqFacts
<1>12. t.refs # <<>> => at % Pointer = 0
  BY <1>2, <1>7 DEF RefsFit
<1>13. /\ RefsFit(Shift(t.refs, at), at + 0, at + t.size, t.align)
       /\ ToSet(Shift(t.refs, at)) = {at + r : r \in ToSet(t.refs)}
       /\ Len(Shift(t.refs, at)) = Len(t.refs)
  <2>1. 0 \in Nat
    OBVIOUS
  <2> QED BY ONLY <1>2, <1>7, <1>12, <2>1, ShiftedRefs
<1>14. RefsFit(Shift(t.refs, at), acc.size, l.size, l.align)
  <2>1. Shift(t.refs, at) # <<>> => l.align = Pointer
    BY ONLY <1>9, <1>13 DEF RefsFit
  <2>2. l.size = at + t.size
    BY <1>6
  <2> QED BY ONLY <1>2, <1>4, <1>7, <1>13, <2>1, <2>2 DEF RefsFit
<1>15. acc.refs # <<>> => l.align = Pointer
  BY <1>3, <1>9 DEF RefsFit
<1>16. l.size \in Nat /\ acc.size <= l.size
  <2>1. l.size = at + t.size
    BY <1>6
  <2> QED BY ONLY <1>2, <1>4, <1>7, <2>1
<1>17. RefsFit(l.refs, l.header, l.size, l.align) /\ ToSet(l.refs) = ToSet(acc.refs) \cup ToSet(Shift(t.refs, at))
  <2>1. l.refs = acc.refs \o Shift(t.refs, at) /\ l.header = acc.header
    BY <1>6
  <2>2. RefsFit(acc.refs, acc.header, acc.size, acc.align) /\ acc.header <= acc.size
    BY <1>3
  <2> QED BY ONLY <1>4, <1>14, <1>15, <1>16, <2>1, <2>2, RefsAppended
<1>18. l \in Shapes
  <2>1. l.refs \in Seq(Nat)
    BY <1>17 DEF RefsFit
  <2>2. l.header \in {0, Header}
    BY <1>3, <1>6 DEF Shapes
  <2>3. l = [header |-> l.header, size |-> l.size, align |-> l.align, fields |-> l.fields,
             refs |-> l.refs, ok |-> l.ok, depth |-> l.depth]
    BY <1>4, <1>5
  <2> QED BY <1>4, <1>6, <1>8, <1>9, <1>11, <1>16, <2>1, <2>2, <2>3 DEF Shapes
<1>19. FieldFits(l, Len(acc.fields) + 1)
  <2>1. l.fields[Len(acc.fields) + 1] = entry /\ entry.type = ty /\ entry.offset = at
    BY <1>11
  <2>2. at >= l.header /\ at + t.size <= l.size
    <3>1. l.header = acc.header /\ l.size = at + t.size /\ acc.header <= acc.size
      BY <1>3, <1>6
    <3> QED BY ONLY <1>2, <1>4, <1>7, <3>1
  <2> QED BY <1>1, <1>7, <1>9, <2>1, <2>2 DEF FieldFits
<1>20. \A m \in 1..Len(acc.fields) : FieldFits(l, m)
  <2> SUFFICES ASSUME NEW m \in 1..Len(acc.fields) PROVE FieldFits(l, m)
    OBVIOUS
  <2> PICK u : u = TypeLayout(acc.fields[m].type)
    OBVIOUS
  <2>1. LaidOut(acc.fields[m].type) /\ u.align <= acc.align /\ acc.fields[m].offset >= acc.header
        /\ acc.fields[m].offset % u.align = 0 /\ acc.fields[m].offset + u.size <= acc.size
    BY <1>3, <1>4 DEF FieldFits
  <2>2. u.align \in Nat /\ u.size \in Nat
    BY <1>4, <2>1, TypeStorage, AlignmentsNest DEF StorageFits
  <2>3. acc.fields[m].offset \in Nat
    BY <1>4
  <2>4. u.align <= l.align /\ acc.fields[m].offset + u.size <= l.size
    BY ONLY SMTT(40), <1>4, <1>9, <1>16, <2>1, <2>2, <2>3
  <2> QED BY <1>6, <1>11, <2>1, <2>4 DEF FieldFits
<1>21. FieldsApart(l)
  <2> SUFFICES ASSUME NEW m \in DOMAIN l.fields, NEW k \in DOMAIN l.fields, m < k
               PROVE  l.fields[m].offset + TypeLayout(l.fields[m].type).size <= l.fields[k].offset
    BY DEF FieldsApart
  <2>1. CASE k \in 1..Len(acc.fields)
    <3>1. m \in 1..Len(acc.fields)
      BY <1>4, <1>11, <2>1
    <3>2. FieldsApart(acc) /\ DOMAIN acc.fields = 1..Len(acc.fields) /\ m < k
      BY <1>3, <1>4
    <3>3. l.fields[m] = acc.fields[m] /\ l.fields[k] = acc.fields[k]
      BY <1>11, <2>1, <3>1
    <3> QED BY ONLY <2>1, <3>1, <3>2, <3>3 DEF FieldsApart
  <2>2. CASE k = Len(acc.fields) + 1
    <3>1. m \in 1..Len(acc.fields)
      BY <1>4, <1>11, <2>2
    <3>2. FieldFits(acc, m) /\ l.fields[m] = acc.fields[m] /\ l.fields[k] = entry
      BY <1>3, <1>4, <1>11, <2>2, <3>1
    <3>3. acc.fields[m].offset + TypeLayout(acc.fields[m].type).size <= acc.size
      BY <3>2 DEF FieldFits
    <3>4. TypeLayout(acc.fields[m].type).size \in Nat /\ acc.fields[m].offset \in Nat
      BY <1>4, <3>1, <3>2, TypeStorage DEF FieldFits, StorageFits
    <3>5. entry.offset = at
      OBVIOUS
    <3> QED BY ONLY <1>4, <1>7, <3>2, <3>3, <3>4, <3>5
  <2> QED BY <1>4, <1>11, <2>1, <2>2
<1>22. RefsExact(l)
  <2>1. FieldRefs(entry) = {at + r : r \in ToSet(t.refs)}
    BY DEF FieldRefs
  <2> PICK before : before = UNION {FieldRefs(acc.fields[m]) : m \in 1..Len(acc.fields)}
    OBVIOUS
  <2>2. ToSet(acc.refs) = before
    BY <1>3, <1>4 DEF RefsExact
  <2> PICK all : all = UNION {FieldRefs(l.fields[m]) : m \in DOMAIN l.fields}
    OBVIOUS
  <2>3. all = before \cup FieldRefs(entry)
    <3>1. DOMAIN l.fields = 1..Len(acc.fields) \cup {Len(acc.fields) + 1}
      BY <1>4, <1>11
    <3>2. \A m \in 1..Len(acc.fields) : FieldRefs(l.fields[m]) = FieldRefs(acc.fields[m])
      BY <1>11
    <3>3. FieldRefs(l.fields[Len(acc.fields) + 1]) = FieldRefs(entry)
      BY <1>11
    <3>4. \A r : r \in all <=> \E m \in DOMAIN l.fields : r \in FieldRefs(l.fields[m])
      OBVIOUS
    <3>5. \A r : r \in before <=> \E m \in 1..Len(acc.fields) : r \in FieldRefs(acc.fields[m])
      OBVIOUS
    <3>6. \A r : r \in all <=> r \in before \/ r \in FieldRefs(entry)
      BY ONLY <3>1, <3>2, <3>3, <3>4, <3>5
    <3> QED BY ONLY <3>6
  <2>4. ToSet(l.refs) = all
    <3>1. ToSet(Shift(t.refs, at)) = FieldRefs(entry)
      BY ONLY <1>13, <2>1
    <3>2. ToSet(l.refs) = ToSet(acc.refs) \cup ToSet(Shift(t.refs, at))
      BY ONLY <1>17
    <3> QED BY ONLY <2>2, <2>3, <3>1, <3>2
  <2> QED BY <2>4, Zenon DEF RefsExact
<1>23. StartsAs(l, acc)
  BY <1>6, <1>9, <1>11, <1>16 DEF StartsAs
<1>24. l.header <= l.size
  <2>1. l.header = acc.header /\ acc.header <= acc.size
    BY <1>3, <1>6
  <2> QED BY ONLY <1>4, <1>16, <2>1
<1>25. \A m \in DOMAIN l.fields : FieldFits(l, m)
  <2>1. \A m \in DOMAIN l.fields : m \in 1..Len(acc.fields) \/ m = Len(acc.fields) + 1
    BY <1>4, <1>11
  <2> QED BY <1>19, <1>20, <2>1
<1>26. ShapeFits(l)
  BY ONLY <1>17, <1>18, <1>21, <1>22, <1>24, <1>25 DEF ShapeFits
<1>27. l.align = Larger(acc.align, TypeLayout(syntax[i].fields[n].type).align)
  BY <1>6
<1> QED BY <1>5, <1>23, <1>26, <1>27

\* A shape keeps fitting when it only grows.
LEMMA ShapeGrown ==
  ASSUME WellFormedProgram(syntax), \A j \in DOMAIN layouts : LayoutFits(j),
         NEW acc, ShapeFits(acc), NEW l \in Shapes,
         l.header = acc.header, l.align = acc.align, l.fields = acc.fields, l.refs = acc.refs,
         l.size >= acc.size
  PROVE  ShapeFits(l)
<1>1. /\ acc \in Shapes /\ acc.header <= acc.size
      /\ RefsFit(acc.refs, acc.header, acc.size, acc.align)
      /\ \A m \in DOMAIN acc.fields : FieldFits(acc, m)
      /\ FieldsApart(acc) /\ RefsExact(acc)
  BY DEF ShapeFits
<1>2. /\ acc.size \in Nat /\ l.size \in Nat /\ acc.header \in Nat
      /\ DOMAIN acc.fields = 1..Len(acc.fields)
      /\ \A m \in 1..Len(acc.fields) : acc.fields[m].type \in TypesOf(syntax) /\ acc.fields[m].offset \in Nat
  BY <1>1, ShapeTyped
<1>3. \A n \in DOMAIN acc.refs : acc.refs[n] \in Nat
  BY <1>1, SeqFacts DEF RefsFit
<1>4. RefsFit(l.refs, l.header, l.size, l.align)
  BY <1>1, <1>2, <1>3 DEF RefsFit, Pointer
<1>5. ASSUME NEW m \in DOMAIN l.fields PROVE FieldFits(l, m)
  <2> PICK u : u = TypeLayout(acc.fields[m].type)
    OBVIOUS
  <2>1. FieldFits(acc, m) /\ acc.fields[m].type \in TypesOf(syntax) /\ acc.fields[m].offset \in Nat
    BY <1>1, <1>2, <1>5
  <2>2. LaidOut(acc.fields[m].type) /\ u.align <= acc.align /\ acc.fields[m].offset >= acc.header
        /\ acc.fields[m].offset % u.align = 0 /\ acc.fields[m].offset + u.size <= acc.size
    BY <2>1 DEF FieldFits
  <2>3. u.size \in Nat
    BY <2>1, <2>2, TypeStorage DEF StorageFits
  <2>4. acc.fields[m].offset + u.size <= l.size
    BY ONLY <1>2, <2>1, <2>2, <2>3, l.size >= acc.size
  <2> QED BY <2>2, <2>4 DEF FieldFits
<1>6. FieldsApart(l)
  BY <1>1 DEF FieldsApart
<1>7. RefsExact(l)
  BY <1>1 DEF RefsExact
<1>8. l.header <= l.size
  BY <1>1, <1>2
<1> QED BY <1>4, <1>5, <1>6, <1>7, <1>8 DEF ShapeFits

\* The loop over the fields a file declares.
PlacedSteps(i, f, n) ==
  f = [k \in 0..n |-> IF k = 0 THEN StartLayout(i)
                      ELSE IF syntax[i].fields[k].static THEN f[k - 1] ELSE PlaceField(i, f[k - 1], k)]

\* The layout of a file is the last step of the loop.
LEMMA PlacedFieldsUnfold ==
  ASSUME NEW i, Len(syntax[i].fields) \in Nat
  PROVE  \E f : PlacedSteps(i, f, Len(syntax[i].fields)) /\ PlacedFields(i) = f[Len(syntax[i].fields)]
<1> DEFINE S == {n \in Nat : ~\E f : PlacedSteps(i, f, n)}
<1>1. 0 \notin S
  <2>1. PlacedSteps(i, [k \in 0..0 |-> StartLayout(i)], 0)
    BY DEF PlacedSteps
  <2> QED BY <2>1
<1>2. ASSUME NEW n \in Nat, n \notin S PROVE n + 1 \notin S
  <2>1. PICK g : PlacedSteps(i, g, n)
    BY <1>2
  <2> DEFINE next == IF syntax[i].fields[n + 1].static THEN g[n] ELSE PlaceField(i, g[n], n + 1)
             f == [k \in 0..(n + 1) |-> IF k = n + 1 THEN next ELSE g[k]]
  <2>2. \A k \in 0..n : g[k] = IF k = 0 THEN StartLayout(i)
                               ELSE IF syntax[i].fields[k].static THEN g[k - 1] ELSE PlaceField(i, g[k - 1], k)
    BY <2>1 DEF PlacedSteps
  <2>3. \A k \in 0..(n + 1) : f[k] = IF k = 0 THEN StartLayout(i)
                               ELSE IF syntax[i].fields[k].static THEN f[k - 1] ELSE PlaceField(i, f[k - 1], k)
    <3>1. f[n + 1] = IF syntax[i].fields[n + 1].static THEN f[n] ELSE PlaceField(i, f[n], n + 1)
      <4>1. n \in 0..(n + 1) /\ n # n + 1 /\ n + 1 \in 0..(n + 1)
        OBVIOUS
      <4>2. f[n] = g[n] /\ f[n + 1] = next
        BY <4>1
      <4> HIDE DEF f
      <4> QED BY <4>2
    <3>2. \A k \in 0..n : f[k] = g[k] /\ (k # 0 => f[k - 1] = g[k - 1])
      OBVIOUS
    <3> HIDE DEF f, next
    <3>3. (n + 1) - 1 = n /\ n + 1 # 0
      OBVIOUS
    <3> SUFFICES ASSUME NEW k \in 0..(n + 1)
                 PROVE  f[k] = IF k = 0 THEN StartLayout(i)
                               ELSE IF syntax[i].fields[k].static THEN f[k - 1] ELSE PlaceField(i, f[k - 1], k)
      OBVIOUS
    <3>4. CASE k = n + 1
      BY <3>1, <3>3, <3>4
    <3>5. CASE k \in 0..n
      BY <2>2, <3>2, <3>5
    <3> QED BY <3>4, <3>5
  <2>4. PlacedSteps(i, f, n + 1)
    BY <2>3 DEF PlacedSteps
  <2> QED BY <2>4
<1>3. S = {}
  <2>1. S \in SUBSET Nat
    OBVIOUS
  <2> HIDE DEF S
  <2> QED BY <1>1, <1>2, <2>1, NoException
<1> DEFINE made == CHOOSE f : PlacedSteps(i, f, Len(syntax[i].fields))
<1>4. PlacedSteps(i, made, Len(syntax[i].fields))
  BY <1>3
<1>5. PlacedFields(i) = made[Len(syntax[i].fields)]
  BY DEF PlacedFields, PlacedSteps
<1> QED BY <1>4, <1>5

\* A class starts with what its base has, an error with its message.
LEMMA StartFits ==
  ASSUME WellFormedProgram(syntax), HierarchyFacts, \A j \in DOMAIN layouts : LayoutFits(j),
         NEW i \in FileIds, syntax[i].kind # "enum", LayoutDependencies(i) \subseteq DOMAIN layouts
  PROVE  LET l == StartLayout(i) IN
         /\ ShapeFits(l) /\ l.ok
         /\ syntax[i].kind = "struct" => l.header = 0
         /\ syntax[i].kind # "struct" => l.header = Header /\ l.align = Pointer
         /\ syntax[i].kind = "error" => l.size >= Header + Pointer
         /\ files[i].base # 0 => files[i].base \in DOMAIN layouts /\ StartsAs(l, layouts[files[i].base])
         /\ files[i].base = 0 /\ syntax[i].kind # "error" => l.fields = <<>>
         /\ files[i].base = 0 /\ syntax[i].kind = "class" => l.size = Header
<1> PICK l : l = StartLayout(i)
  OBVIOUS
<1> PICK b : b = files[i].base
  OBVIOUS
<1>1. /\ b \in 0..Len(syntax)
      /\ b # 0 => /\ IsClass(i) /\ IsClass(b)
                  /\ b # Obj => syntax[b].kind = syntax[i].kind
                  /\ b = Obj => syntax[i].kind = "class"
  BY DEF HierarchyFacts, FileTyped, BaseFits
<1>2. CASE b # 0
  <2> PICK base : base = layouts[b]
    OBVIOUS
  <2>1. b \in DOMAIN layouts
    BY <1>2 DEF LayoutDependencies
  <2>2. LayoutFits(b) /\ ShapeFits(base) /\ base.ok
    BY <2>1 DEF LayoutFits, FitsFile
  <2>3. l = [base EXCEPT !.depth = 0]
    BY <1>2 DEF StartLayout
  <2>4. base \in Shapes
    BY <2>2 DEF ShapeFits
  <2>5. /\ DOMAIN base = {"header", "size", "align", "fields", "refs", "ok", "depth"}
        /\ base.size \in Nat /\ base.align \in Nat /\ base.fields \in Seq(FieldEntries)
    BY <2>4, ShapeTyped
  <2>6. /\ l.header = base.header /\ l.size = base.size /\ l.align = base.align /\ l.fields = base.fields
        /\ l.refs = base.refs /\ l.ok = base.ok /\ l.depth = 0 
    BY <2>3, <2>5
  <2>7. l \in Shapes
    <3>1. /\ base.header \in {0, Header} /\ base.align \in Alignments /\ base.refs \in Seq(Nat)
          /\ base.ok \in BOOLEAN
      BY <2>4 DEF Shapes
    <3>2. l = [header |-> base.header, size |-> base.size, align |-> base.align, fields |-> base.fields,
               refs |-> base.refs, ok |-> base.ok, depth |-> 0]
      BY <2>3, <2>5
    <3> QED BY ONLY <2>5, <3>1, <3>2 DEF Shapes
  <2>8. ShapeFits(l)
    BY <2>2, <2>5, <2>6, <2>7, ShapeGrown
  <2>9. IsPrefix(base.fields, l.fields)
    BY <2>5, <2>6, PrefixFacts
  <2>10. StartsAs(l, base)
    BY <2>5, <2>6, <2>9 DEF StartsAs
  <2>11. syntax[b].kind \in {"class", "error"} /\ syntax[i].kind \in {"class", "error"}
    BY <1>1, <1>2 DEF IsClass
  <2>12. base.header = Header /\ base.align = Pointer
    BY <2>2, <2>11 DEF LayoutFits, FitsFile
  <2>13. syntax[i].kind = "error" => base.size >= Header + Pointer
    BY <1>1, <1>2, <2>2 DEF LayoutFits, FitsFile
  <2> QED BY <1>2, <2>1, <2>2, <2>6, <2>8, <2>10, <2>11, <2>12, <2>13
<1> DEFINE struct == syntax[i].kind = "struct"
           empty == [header |-> IF struct THEN 0 ELSE Header, size |-> IF struct THEN 0 ELSE Header,
                     align |-> IF struct THEN 1 ELSE Pointer, fields |-> <<>>, refs |-> <<>>, ok |-> TRUE,
                     depth |-> IF struct THEN 1 ELSE 0]
<1>3. empty \in Shapes
  <2>1. <<>> \in Seq(FieldEntries) /\ <<>> \in Seq(Nat)
    OBVIOUS
  <2> QED BY <2>1 DEF Shapes, Alignments, Header, HeaderWords, Pointer
<1>4. CASE b = 0 /\ syntax[i].kind = "error"
  <2> PICK entry : entry = [owner |-> 0, index |-> 1, type |-> String, offset |-> Header]
    OBVIOUS
  <2>1. l = [empty EXCEPT !.size = Header + Pointer, !.refs = <<Header>>, !.fields = <<entry>>]
    BY <1>4 DEF StartLayout
  <2>2. /\ l.header = Header /\ l.size = Header + Pointer /\ l.align = Pointer /\ l.ok = TRUE
        /\ l.fields = <<entry>> /\ l.refs = <<Header>>
    BY <1>4, <2>1
  <2>3. String \in TypesOf(syntax)
    BY DEF String, Type, TypesOf
  <2>4. entry \in FieldEntries
    BY <2>3, ProgramTyped DEF FieldEntries, Header, HeaderWords, Pointer
  <2>5. l \in Shapes
    <3>1. <<entry>> \in Seq(FieldEntries)
      BY <2>4
    <3>2. Header \in Nat /\ <<Header>> \in Seq(Nat) /\ Header + Pointer \in Nat
      BY DEF Header, HeaderWords, Pointer
    <3> QED BY <1>3, <2>1, <3>1, <3>2 DEF Shapes
  <2>6. Element(String) = String /\ TypeKind(String) = "string"
    <3>1. String.k = "string" /\ ~String.n /\ String \notin {RootError, DivisionByZero}
      BY DEF String, Type, RootError, DivisionByZero
    <3>2. TypeKind(String) = "string"
      BY <3>1 DEF TypeKind
    <3> QED BY <2>3, <3>1, <3>2, StructTypes
  <2>7. IsReference(String) /\ InlineStruct(String) = 0 /\ LaidOut(String)
    BY <2>6 DEF IsReference, InlineStruct, LaidOut
  <2>8. TypeLayout(String) = Storage(Pointer, Pointer, <<0>>)
    BY <2>3, <2>7, TypeStorage
  <2>9. FieldFits(l, 1) /\ DOMAIN l.fields = {1}
    BY <2>2, <2>7, <2>8 DEF FieldFits, Storage, Header, HeaderWords, Pointer
  <2>10. FieldsApart(l)
    BY <2>9 DEF FieldsApart
  <2>11. RefsFit(l.refs, l.header, l.size, l.align)
    BY <2>2 DEF RefsFit, Ascending, Header, HeaderWords, Pointer
  <2>12. RefsExact(l)
    <3>1. ToSet(<<0>>) = {0} /\ ToSet(<<Header>>) = {Header}
      BY DEF ToSet
    <3>2. FieldRefs(entry) = {Header}
      BY <2>8, <3>1 DEF FieldRefs, Storage, Header, HeaderWords, Pointer
    <3>3. l.fields[1] = entry
      BY <2>2
    <3> QED BY <2>2, <2>9, <3>1, <3>2, <3>3 DEF RefsExact
  <2>13. l.header <= l.size
    BY <2>2 DEF Header, HeaderWords, Pointer
  <2>14. ShapeFits(l)
    BY <2>5, <2>9, <2>10, <2>11, <2>12, <2>13 DEF ShapeFits
  <2> QED BY <1>4, <2>2, <2>14 DEF Header, HeaderWords, Pointer
<1>5. CASE b = 0 /\ syntax[i].kind # "error"
  <2>1. l = empty
    BY <1>5 DEF StartLayout
  <2>2. /\ l.header = (IF struct THEN 0 ELSE Header) /\ l.size = l.header
        /\ l.align = (IF struct THEN 1 ELSE Pointer) /\ l.fields = <<>> /\ l.refs = <<>> /\ l.ok = TRUE
    BY <2>1
  <2> HIDE DEF empty
  <2>3. l.header \in Nat
    BY <1>3, <2>1, ShapeTyped
  <2>4. RefsFit(l.refs, l.header, l.size, l.align)
    BY <2>2 DEF RefsFit, Ascending
  <2>5. FieldsApart(l) /\ \A m \in DOMAIN l.fields : FieldFits(l, m)
    BY <2>2 DEF FieldsApart
  <2>6. RefsExact(l)
    BY <2>2 DEF RefsExact, ToSet
  <2>7. ShapeFits(l)
    BY <1>3, <2>1, <2>2, <2>3, <2>4, <2>5, <2>6 DEF ShapeFits
  <2> QED BY <1>5, <2>2, <2>7
<1> QED BY <1>2, <1>4, <1>5

\* A shape that starts as one that starts as a third starts as the third.
LEMMA StartsTransitive ==
  ASSUME NEW v \in Shapes, NEW acc \in Shapes, NEW start \in Shapes,
         StartsAs(v, acc), StartsAs(acc, start)
  PROVE  StartsAs(v, start)
<1>1. /\ v.size \in Nat /\ v.align \in Nat /\ v.fields \in Seq(FieldEntries) /\ Len(v.fields) \in Nat
      /\ acc.size \in Nat /\ acc.align \in Nat /\ acc.fields \in Seq(FieldEntries) /\ Len(acc.fields) \in Nat
      /\ start.size \in Nat /\ start.align \in Nat /\ start.fields \in Seq(FieldEntries)
      /\ Len(start.fields) \in Nat
  BY ShapeTyped
<1>2. IsPrefix(start.fields, acc.fields) /\ IsPrefix(acc.fields, v.fields)
  BY DEF StartsAs
<1>3. Len(start.fields) <= Len(acc.fields) /\ \A m \in 1..Len(start.fields) : acc.fields[m] = start.fields[m]
  BY ONLY <1>1, <1>2, PrefixFacts
<1>4. Len(acc.fields) <= Len(v.fields) /\ \A m \in 1..Len(acc.fields) : v.fields[m] = acc.fields[m]
  BY ONLY <1>1, <1>2, PrefixFacts
<1>5. Len(start.fields) <= Len(v.fields) /\ \A m \in 1..Len(start.fields) : v.fields[m] = start.fields[m]
  BY ONLY <1>1, <1>3, <1>4
<1>6. IsPrefix(start.fields, v.fields)
  BY ONLY <1>1, <1>5, PrefixFacts
<1> QED BY <1>1, <1>6 DEF StartsAs

\* A file whose dependencies are laid out gets a layout that fits.
LEMMA FileFits ==
  ASSUME WellFormedProgram(syntax), HierarchyFacts, \A j \in DOMAIN layouts : LayoutFits(j),
         NEW i \in FileIds, LayoutDependencies(i) \subseteq DOMAIN layouts, FileLayout(i).ok
  PROVE  FitsFile(i, FileLayout(i))
<1> PICK l : l = FileLayout(i)
  OBVIOUS
<1>1. /\ syntax[i].kind \in {"class", "error", "interface", "struct", "enum"}
      /\ syntax[i].fields \in Seq(FieldsOf(syntax)) /\ Len(syntax[i].fields) \in Nat
      /\ DOMAIN syntax[i].fields = 1..Len(syntax[i].fields)
  BY ProgramTyped, SeqFacts
<1>2. files[i].base # 0 => IsClass(i)
  BY DEF HierarchyFacts, BaseFits
<1>3. IsInterface(i) => syntax[i].fields = <<>>
  BY DEF WellFormedProgram, IsInterface, FileIds
<1>4. i = Obj => syntax[i].kind = "class" /\ files[i].base = 0 /\ syntax[i].fields = <<>>
  BY DEF WellFormedProgram, HierarchyFacts
<1>5. CASE syntax[i].kind = "enum"
  <2>1. l = [header |-> 0, size |-> 0, align |-> 1, fields |-> <<>>, refs |-> <<>>, ok |-> TRUE, depth |-> 0]
    BY <1>5 DEF FileLayout
  <2>2. l \in Shapes
    <3>1. <<>> \in Seq(FieldEntries) /\ <<>> \in Seq(Nat)
      OBVIOUS
    <3> QED BY <2>1, <3>1 DEF Shapes, Alignments
  <2>3. l.header = 0 /\ l.size = 0 /\ l.align = 1 /\ l.fields = <<>> /\ l.refs = <<>> /\ l.ok
    BY <2>1
  <2>4. RefsFit(l.refs, l.header, l.size, l.align)
    BY <2>3 DEF RefsFit, Ascending
  <2>5. FieldsApart(l) /\ \A m \in DOMAIN l.fields : FieldFits(l, m)
    BY <2>3 DEF FieldsApart
  <2>6. RefsExact(l)
    BY <2>3 DEF RefsExact, ToSet
  <2>7. ShapeFits(l)
    BY <2>2, <2>3, <2>4, <2>5, <2>6 DEF ShapeFits
  <2>8. files[i].base = 0 /\ i # Obj /\ ~IsInterface(i)
    BY <1>2, <1>4, <1>5 DEF IsClass, IsInterface
  <2> QED BY <1>5, <2>3, <2>7, <2>8 DEF FitsFile
<1>6. CASE syntax[i].kind # "enum"
  <2> PICK last : last = Len(syntax[i].fields)
    OBVIOUS
  <2> PICK start : start = StartLayout(i)
    OBVIOUS
  <2> PICK placed : placed = PlacedFields(i)
    OBVIOUS
  <2> PICK size : size = AlignUp(IF syntax[i].kind = "struct" THEN Larger(placed.size, 1) ELSE placed.size, placed.align)
    OBVIOUS
  <2>1. l = [placed EXCEPT !.size = size, !.ok = @ /\ (syntax[i].kind = "struct" => size <= MaxStructSize)]
    BY <1>6 DEF FileLayout
  <2>2. PICK f : PlacedSteps(i, f, last) /\ placed = f[last]
    BY <1>1, PlacedFieldsUnfold
  <2>3. \A k \in 0..last : f[k] = IF k = 0 THEN start
          ELSE IF syntax[i].fields[k].static THEN f[k - 1] ELSE PlaceField(i, f[k - 1], k)
    BY <2>2 DEF PlacedSteps
  <2>4. /\ ShapeFits(start) /\ start.ok
        /\ syntax[i].kind = "struct" => start.header = 0
        /\ syntax[i].kind # "struct" => start.header = Header /\ start.align = Pointer
        /\ syntax[i].kind = "error" => start.size >= Header + Pointer
        /\ files[i].base # 0 => files[i].base \in DOMAIN layouts /\ StartsAs(start, layouts[files[i].base])
        /\ files[i].base = 0 /\ syntax[i].kind # "error" => start.fields = <<>>
        /\ files[i].base = 0 /\ syntax[i].kind = "class" => start.size = Header
    BY <1>6, StartFits
  <2>5. start \in Shapes
    BY <2>4 DEF ShapeFits
  <2>6. start.size \in Nat /\ start.align \in Alignments /\ start.align \in Nat /\ start.fields \in Seq(FieldEntries)
    BY <2>5, ShapeTyped
  <2> DEFINE Record(v) == DOMAIN v = DOMAIN start /\ v.ok \in BOOLEAN
             Good(v) == /\ ShapeFits(v) /\ StartsAs(v, start)
                        /\ start.align = Pointer => v.align = Pointer
             Fine(v) == Record(v) /\ (v.ok => Good(v))
             S == {k \in Nat : k <= last /\ ~Fine(f[k])}
  <2>7. 0 \notin S
    <3>1. f[0] = start
      BY <1>1, <2>3
    <3>2. StartsAs(start, start)
      BY <2>6, PrefixFacts DEF StartsAs
    <3> QED BY <2>4, <3>1, <3>2
  <2>8. ASSUME NEW k \in Nat, k + 1 \in S PROVE k \in S
    <3>1. k + 1 \in 1..last /\ k + 1 # 0 /\ (k + 1) - 1 = k /\ k + 1 \in 0..last /\ k <= last
      BY <1>1, <2>8
    <3> PICK n : n = k + 1
      OBVIOUS
    <3> PICK acc : acc = f[k]
      OBVIOUS
    <3> PICK v : v = f[n]
      OBVIOUS
    <3>2. v = IF syntax[i].fields[n].static THEN acc ELSE PlaceField(i, acc, n)
      BY <2>3, <3>1
    <3>3. CASE syntax[i].fields[n].static
      BY <2>8, <3>1, <3>2, <3>3
    <3>4. CASE ~syntax[i].fields[n].static
      <4> SUFFICES ASSUME Fine(acc) PROVE Fine(v)
        BY <2>8, <3>1
      <4>1. v = PlaceField(i, acc, n) /\ n \in DOMAIN syntax[i].fields
        BY <1>1, <3>1, <3>2, <3>4
      <4>0. Record(v)
        <5>1. DOMAIN acc = DOMAIN start /\ acc.ok \in BOOLEAN /\ "ok" \in DOMAIN acc
          BY <2>5, ShapeTyped
        <5>2. /\ DOMAIN PlaceField(i, acc, n) = DOMAIN acc
              /\ PlaceField(i, acc, n).ok \in {FALSE, acc.ok}
          BY <5>1 DEF PlaceField
        <5> QED BY <4>1, <5>1, <5>2
      <4> SUFFICES ASSUME v.ok PROVE Good(v)
        BY <4>0
      <4>2. LaidOut(syntax[i].fields[n].type)
        <5>1. syntax[i].fields[n] \in {g \in ToSet(syntax[i].fields) : ~g.static}
          BY <3>4, <4>1 DEF ToSet
        <5>2. InlineStruct(syntax[i].fields[n].type) \in {InlineStruct(g.type) : g \in {h \in ToSet(syntax[i].fields) : ~h.static}}
          BY <5>1
        <5> QED BY <5>2 DEF LaidOut, LayoutDependencies
      <4>4. acc.ok
        <5>1. PlaceField(i, acc, n).ok
          BY <4>1
        <5>2. ~acc.ok => PlaceField(i, acc, n) = [acc EXCEPT !.ok = FALSE]
          BY DEF PlaceField
        <5>3. "ok" \in DOMAIN acc
          BY <2>5, ShapeTyped
        <5> QED BY <5>1, <5>2, <5>3
      <4>5. ShapeFits(acc) /\ StartsAs(acc, start) /\ (start.align = Pointer => acc.align = Pointer)
        BY <4>4
      <4>6. /\ ShapeFits(v) /\ StartsAs(v, acc)
            /\ v.align = Larger(acc.align, TypeLayout(syntax[i].fields[n].type).align)
        BY <4>1, <4>2, <4>5, FieldPlaced
      <4>7. StartsAs(v, start)
        <5>1. v \in Shapes /\ acc \in Shapes
          BY <4>5, <4>6 DEF ShapeFits
        <5> QED BY ONLY <2>5, <4>5, <4>6, <5>1, StartsTransitive
      <4>8. start.align = Pointer => v.align = Pointer
        <5>1. acc \in Shapes
          BY <4>5 DEF ShapeFits
        <5>2. acc.align \in Alignments
          BY <5>1, ShapeTyped
        <5>3. TypeLayout(syntax[i].fields[n].type).align \in Alignments
          <6>1. syntax[i].fields[n] \in FieldsOf(syntax)
            BY <1>1, <4>1
          <6>2. syntax[i].fields[n].type \in TypesOf(syntax)
            BY <6>1 DEF FieldsOf
          <6> QED BY <4>2, <6>2, TypeStorage DEF StorageFits
        <5> QED BY <4>5, <4>6, <5>2, <5>3, AlignmentsNest
      <4> QED BY <4>6, <4>7, <4>8
    <3> QED BY <3>3, <3>4
  <2>9. S = {}
    <3>1. S \in SUBSET Nat
      OBVIOUS
    <3> HIDE DEF S
    <3> QED BY <2>7, <2>8, <3>1, NoException
  <2>10. Fine(placed)
    BY <1>1, <2>2, <2>9
  <2>11. "ok" \in DOMAIN placed /\ "size" \in DOMAIN placed /\ placed.ok \in BOOLEAN
    BY <2>5, <2>10, ShapeTyped
  <2>12. placed.ok /\ l.ok /\ (syntax[i].kind = "struct" => size <= MaxStructSize)
    <3>1. l.ok = (placed.ok /\ (syntax[i].kind = "struct" => size <= MaxStructSize))
      BY ONLY <2>1, <2>11
    <3> QED BY <3>1
  <2>13. ShapeFits(placed) /\ StartsAs(placed, start) /\ (start.align = Pointer => placed.align = Pointer)
    BY <2>10, <2>12
  <2> HIDE DEF S, Fine, Good, Record
  <2>14. placed \in Shapes
    BY <2>13 DEF ShapeFits
  <2>15. /\ DOMAIN placed = {"header", "size", "align", "fields", "refs", "ok", "depth"}
         /\ placed.size \in Nat /\ placed.align \in Alignments /\ placed.align \in Nat
         /\ placed.fields \in Seq(FieldEntries) /\ placed.refs \in Seq(Nat) /\ placed.depth \in Nat
    BY <2>14, ShapeTyped
  <2>16. /\ l.header = placed.header /\ l.size = size /\ l.align = placed.align /\ l.fields = placed.fields
         /\ l.refs = placed.refs /\ l.depth = placed.depth
    BY <2>1, <2>15
  <2>17. /\ size \in Nat /\ size >= placed.size /\ size % placed.align = 0
         /\ syntax[i].kind = "struct" => size # 0
    <3> PICK v : v = IF syntax[i].kind = "struct" THEN Larger(placed.size, 1) ELSE placed.size
      OBVIOUS
    <3>1. v \in Nat /\ v >= placed.size /\ (syntax[i].kind = "struct" => v # 0)
      BY <2>15 DEF Larger
    <3>2. size \in Nat /\ size >= v /\ size % placed.align = 0
      BY <2>15, <3>1, Aligned
    <3> QED BY ONLY <2>15, <3>1, <3>2
  <2>18. l \in Shapes
    <3>1. l.header \in {0, Header}
      BY <2>14, <2>16 DEF Shapes
    <3>2. l = [header |-> l.header, size |-> l.size, align |-> l.align, fields |-> l.fields,
               refs |-> l.refs, ok |-> l.ok, depth |-> l.depth]
      BY <2>1, <2>15
    <3>3. l.ok \in BOOLEAN
      BY <2>12
    <3> QED BY ONLY <2>15, <2>16, <2>17, <3>1, <3>2, <3>3 DEF Shapes
  <2>19. ShapeFits(l)
    BY <2>13, <2>15, <2>16, <2>17, <2>18, ShapeGrown
  <2>20. StartsAs(l, start)
    <3>1. IsPrefix(start.fields, l.fields) /\ l.header = start.header /\ l.align >= start.align
          /\ placed.size >= start.size
      BY <2>13, <2>16 DEF StartsAs
    <3>2. l.size >= start.size
      BY ONLY <2>6, <2>15, <2>16, <2>17, <3>1
    <3> QED BY <3>1, <3>2 DEF StartsAs
  <2>21. l.size % l.align = 0
    BY <2>16, <2>17
  <2>22. l.header = start.header /\ (start.align = Pointer => l.align = Pointer)
    BY <2>13, <2>16, <2>20 DEF StartsAs
  <2>23. syntax[i].kind = "error" => l.size >= Header + Pointer
    BY <2>4, <2>6, <2>16, <2>17, <2>20 DEF StartsAs, Header, HeaderWords, Pointer
  <2>24. syntax[i].fields = <<>> => placed = start
    <3>1. syntax[i].fields = <<>> => last = 0
      OBVIOUS
    <3> QED BY <2>2, <2>3, <3>1
  <2>25. IsInterface(i) => l.fields = <<>>
    BY <1>2, <1>3, <2>4, <2>16, <2>24 DEF IsInterface, IsClass
  <2>26. i = Obj => l.size = Header
    <3> SUFFICES ASSUME i = Obj PROVE l.size = Header
      OBVIOUS
    <3>1. placed = start /\ start.size = Header /\ start.align = Pointer
      BY <1>4, <2>4, <2>24
    <3>2. size = AlignUp(Header, Pointer)
      BY <1>4, <3>1
    <3> QED BY <2>16, <3>2 DEF AlignUp, Header, HeaderWords, Pointer
  <2>27. files[i].base # 0 => files[i].base \in DOMAIN layouts /\ StartsAs(l, layouts[files[i].base])
    <3> SUFFICES ASSUME files[i].base # 0 PROVE files[i].base \in DOMAIN layouts /\ StartsAs(l, layouts[files[i].base])
      OBVIOUS
    <3> PICK base : base = layouts[files[i].base]
      OBVIOUS
    <3>1. files[i].base \in DOMAIN layouts /\ StartsAs(start, base)
      BY <2>4
    <3>2. base \in Shapes
      BY <3>1 DEF LayoutFits, FitsFile, ShapeFits
    <3>3. StartsAs(l, base)
      BY ONLY <2>5, <2>18, <2>20, <3>1, <3>2, StartsTransitive
    <3> QED BY <3>1, <3>3
  <2> QED BY <1>1, <1>6, <2>4, <2>12, <2>17, <2>16, <2>19, <2>21, <2>22, <2>23, <2>25, <2>26, <2>27 DEF FitsFile
<1> QED BY <1>5, <1>6

\* A type is laid out as before while the struct it holds is.
LEMMA TypesStay ==
  ASSUME WellFormedProgram(syntax), syntax' = syntax,
         DOMAIN layouts \subseteq DOMAIN layouts', \A j \in DOMAIN layouts : layouts'[j] = layouts[j],
         NEW t \in TypesOf(syntax), LaidOut(t)
  PROVE  /\ TypeLayout(t)' = TypeLayout(t) /\ LaidOut(t)' /\ InlineStruct(t)' = InlineStruct(t)
         /\ (IsReference(t)' <=> IsReference(t))
<1> PICK e : e = Element(t)
  OBVIOUS
<1>1. /\ e \in TypesOf(syntax) /\ ~e.n /\ e.f = t.f /\ Element(e) = e
      /\ (IsReference(e) <=> IsReference(t)) /\ InlineStruct(e) = InlineStruct(t)
  BY StructTypes
<1>2. TypeKind(t)' = TypeKind(t) /\ TypeKind(e)' = TypeKind(e)
  BY DEF TypeKind
<1>3. Element(t)' = e /\ Element(e)' = e
  BY <1>1 DEF Element
<1>4. (IsReference(t)' <=> IsReference(t)) /\ (IsReference(e)' <=> IsReference(e))
  BY <1>1, <1>2, <1>3 DEF IsReference
<1>5. InlineStruct(t)' = InlineStruct(t)
  BY <1>2, <1>3 DEF InlineStruct
<1>6. ValueLayout(e)' = ValueLayout(e)
  <2>1. TypeKind(e) = "struct" => e.f \in DOMAIN layouts /\ e.f \in DOMAIN layouts'
    <3> SUFFICES ASSUME TypeKind(e) = "struct" PROVE e.f \in DOMAIN layouts
      OBVIOUS
    <3>1. InlineStruct(t) # 0
      BY StructTypes
    <3>2. InlineStruct(t) = e.f
      BY <1>1, <3>1, StructTypes
    <3>3. InlineStruct(t) \in DOMAIN layouts \cup {0}
      BY ONLY LaidOut(t) DEF LaidOut
    <3> QED BY ONLY <3>1, <3>2, <3>3
  <2> QED BY <1>2, <2>1 DEF ValueLayout
<1>7. IsNullableValue(t)' <=> IsNullableValue(t)
  BY <1>3, <1>4 DEF IsNullableValue
<1>8. ~t.n => ValueLayout(t)' = ValueLayout(t)
  BY <1>6, StructTypes
<1>9. t.n => IsNullableValue(t) \/ IsReference(t)
  BY <1>1 DEF IsNullableValue
<1>10. ~(IsNullableValue(t) /\ IsReference(t))
  BY <1>1 DEF IsNullableValue
<1>11. TypeLayout(t)' = TypeLayout(t)
  <2>1. CASE IsReference(t)
    <3>1. TypeLayout(t) = Storage(Pointer, Pointer, <<0>>)
      BY <1>10, <2>1 DEF TypeLayout
    <3>2. TypeLayout(t)' = Storage(Pointer, Pointer, <<0>>)
      BY <1>4, <1>7, <1>10, <2>1 DEF TypeLayout, Storage, Pointer
    <3> QED BY <3>1, <3>2
  <2>2. CASE IsNullableValue(t)
    <3>1. TypeLayout(t) = NullableValueLayout(ValueLayout(e))
      BY <1>10, <2>2 DEF TypeLayout
    <3>2. TypeLayout(t)' = NullableValueLayout(ValueLayout(e)')
      BY <1>3, <1>4, <1>7, <1>10, <2>2 DEF TypeLayout, NullableValueLayout, Storage, AlignUp, Shift
    <3> QED BY <1>6, <3>1, <3>2
  <2>3. CASE ~IsReference(t) /\ ~IsNullableValue(t)
    <3>1. TypeLayout(t) = ValueLayout(t)
      BY <2>3 DEF TypeLayout
    <3>2. TypeLayout(t)' = ValueLayout(t)'
      BY <1>4, <1>7, <2>3 DEF TypeLayout
    <3> QED BY <1>8, <1>9, <2>3, <3>1, <3>2
  <2> QED BY <2>1, <2>2, <2>3
<1>12. LaidOut(t)'
  BY <1>5 DEF LaidOut
<1> QED BY <1>4, <1>5, <1>11, <1>12

\* Which struct a value holds does not depend on the layouts.
LEMMA StructsStay ==
  ASSUME syntax' = syntax, NEW t
  PROVE  InlineStruct(t)' = InlineStruct(t)
<1> PICK e : e = Element(t)
  OBVIOUS
<1>1. Element(t)' = e
  BY DEF Element
<1>2. TypeKind(e)' = TypeKind(e)
  BY DEF TypeKind
<1> QED BY <1>1, <1>2 DEF InlineStruct

\* What fits a file keeps fitting it while more files are laid out.
LEMMA FitsStays ==
  ASSUME WellFormedProgram(syntax), UNCHANGED <<syntax, files>>,
         DOMAIN layouts \subseteq DOMAIN layouts', \A j \in DOMAIN layouts : layouts'[j] = layouts[j],
         NEW i \in FileIds, NEW l, FitsFile(i, l)
  PROVE  FitsFile(i, l)'
<1>1. syntax' = syntax /\ files' = files
  OBVIOUS
<1>2. /\ l \in Shapes /\ l.header <= l.size
      /\ RefsFit(l.refs, l.header, l.size, l.align)
      /\ \A m \in DOMAIN l.fields : FieldFits(l, m)
      /\ FieldsApart(l) /\ RefsExact(l)
  BY DEF FitsFile, ShapeFits
<1>3. DOMAIN l.fields = 1..Len(l.fields) /\ \A m \in 1..Len(l.fields) : l.fields[m].type \in TypesOf(syntax)
  BY <1>2, ShapeTyped
<1>4. \A m \in DOMAIN l.fields : LaidOut(l.fields[m].type) /\ l.fields[m].type \in TypesOf(syntax)
  BY <1>2, <1>3 DEF FieldFits
<1>5. ASSUME NEW m \in DOMAIN l.fields
      PROVE  TypeLayout(l.fields[m].type)' = TypeLayout(l.fields[m].type) /\ LaidOut(l.fields[m].type)'
  <2> PICK t : t = l.fields[m].type
    OBVIOUS
  <2>1. t \in TypesOf(syntax) /\ LaidOut(t)
    BY <1>4, <1>5
  <2>2. TypeLayout(t)' = TypeLayout(t) /\ LaidOut(t)'
    BY <1>1, <2>1, TypesStay
  <2>3. TypeLayout(l.fields[m].type)' = TypeLayout(t)' /\ (LaidOut(l.fields[m].type)' <=> LaidOut(t)')
    OBVIOUS
  <2> QED BY <2>2, <2>3
<1>6. Shapes' = Shapes
  BY <1>1 DEF Shapes, FieldEntries, Alignments, Header, HeaderWords, Pointer
<1>7. \A m \in DOMAIN l.fields : FieldFits(l, m)'
  BY <1>2, <1>5 DEF FieldFits
<1>8. FieldsApart(l)'
  BY <1>2, <1>5 DEF FieldsApart
<1>9. RefsExact(l)'
  <2>1. \A m \in DOMAIN l.fields : FieldRefs(l.fields[m])' = FieldRefs(l.fields[m])
    BY <1>5 DEF FieldRefs
  <2>2. UNION {FieldRefs(l.fields[m])' : m \in DOMAIN l.fields} = UNION {FieldRefs(l.fields[m]) : m \in DOMAIN l.fields}
    BY <2>1
  <2> QED BY <1>2, <2>2 DEF RefsExact
<1>10. RefsFit(l.refs, l.header, l.size, l.align)'
  BY <1>2 DEF RefsFit, Ascending, Pointer
<1>11. ShapeFits(l)'
  BY <1>2, <1>6, <1>7, <1>8, <1>9, <1>10 DEF ShapeFits
<1>12. files[i].base # 0 => files[i].base \in DOMAIN layouts' /\ StartsAs(l, layouts'[files[i].base])
  BY DEF FitsFile
<1>13. IsInterface(i)' <=> IsInterface(i)
  BY <1>1 DEF IsInterface
<1>14. (files[i].base # 0 => files[i].base \in DOMAIN layouts /\ StartsAs(l, layouts[files[i].base]))'
  BY <1>1, <1>12 DEF StartsAs
<1>15. /\ l.ok /\ l.size % l.align = 0
       /\ syntax[i].kind = "enum" => l.size = 0
       /\ syntax[i].kind = "struct" => l.header = 0 /\ l.size # 0
       /\ syntax[i].kind \in {"class", "error", "interface"} => l.header = Header /\ l.align = Pointer
       /\ IsInterface(i) => l.fields = <<>>
       /\ syntax[i].kind = "error" => l.size >= Header + Pointer
       /\ i = Obj => l.size = Header
  BY DEF FitsFile
<1> QED BY <1>1, <1>11, <1>13, <1>14, <1>15 DEF FitsFile, Header, HeaderWords, Pointer, Obj

\* Laying out one more file keeps the order.
LEMMA LayoutAdded ==
  ASSUME WellFormedProgram(syntax), LayoutFacts, UNCHANGED <<syntax, files>>,
         NEW i \in FileIds, i \notin DOMAIN layouts, NEW l, FitsFile(i, l),
         layouts' = [j \in DOMAIN layouts \cup {i} |-> IF j = i THEN l ELSE layouts[j]]
  PROVE  LayoutFacts'
<1>1. DOMAIN layouts' = DOMAIN layouts \cup {i} /\ layouts'[i] = l /\ \A j \in DOMAIN layouts : layouts'[j] = layouts[j]
  OBVIOUS
<1>2. FileIds' = FileIds
  BY DEF FileIds
<1>3. DOMAIN layouts \subseteq FileIds /\ \A j \in DOMAIN layouts : FitsFile(j, layouts[j])
  BY DEF LayoutFacts, LayoutFits
<1>4. FitsFile(i, l)'
  BY <1>1, FitsStays
<1>5. ASSUME NEW j \in DOMAIN layouts PROVE LayoutFits(j)'
  <2> PICK k : k = layouts[j]
    OBVIOUS
  <2>1. FitsFile(j, k) /\ j \in FileIds
    BY <1>3
  <2>2. FitsFile(j, k)'
    BY <1>1, <2>1, FitsStays
  <2>3. layouts'[j] = k
    BY <1>1
  <2> QED BY <2>2, <2>3 DEF LayoutFits, FitsFile
<1>6. LayoutFits(i)'
  <2>1. layouts'[i] = l
    BY <1>1
  <2> QED BY <1>4, <2>1 DEF LayoutFits, FitsFile
<1> PICK done : done = DOMAIN layouts
  OBVIOUS
<1>7. PICK rank \in [done -> 1..Cardinality(done)] : LaidOutInTurn(rank, done)
  BY DEF LayoutFacts
<1>8. IsFiniteSet(done) /\ Cardinality(done) \in Nat /\ Cardinality(done \cup {i}) = Cardinality(done) + 1
  <2>1. IsFiniteSet(FileIds)
    BY ProgramTyped, FS_Interval DEF FileIds
  <2>2. IsFiniteSet(done)
    BY <1>3, <2>1, FS_Subset
  <2> QED BY <2>2, FS_CardinalityType, FS_AddElement
<1> PICK card : card = Cardinality(done)
  OBVIOUS
<1> PICK more : more = [j \in done \cup {i} |-> IF j = i THEN card + 1 ELSE rank[j]]
  OBVIOUS
<1>9. more \in [done \cup {i} -> 1..(card + 1)] /\ more[i] = card + 1 /\ \A j \in done : more[j] = rank[j] /\ rank[j] \in 1..card
  BY <1>7, <1>8
<1>10. ASSUME NEW j \in done \cup {i}
       PROVE  \A n \in DOMAIN layouts'[j].fields :
                LET e == InlineStruct(layouts'[j].fields[n].type)
                IN  e # 0 => e \in done /\ more[e] < more[j]
  <2> SUFFICES ASSUME NEW n \in DOMAIN layouts'[j].fields, NEW e, e = InlineStruct(layouts'[j].fields[n].type), e # 0
               PROVE  e \in done /\ more[e] < more[j]
    OBVIOUS
  <2> PICK t : t = layouts'[j].fields[n].type
    OBVIOUS
  <2>1. e = InlineStruct(t)
    OBVIOUS
  <2>2. CASE j = i
    <3>1. layouts'[j] = l
      BY <1>1, <2>2
    <3>2. FieldFits(l, n) /\ t = l.fields[n].type
      BY <3>1 DEF FitsFile, ShapeFits
    <3>3. LaidOut(t)
      BY <3>2 DEF FieldFits
    <3>4. e \in done
      BY <2>1, <3>3 DEF LaidOut
    <3> QED BY <1>8, <1>9, <2>2, <3>4
  <2>3. CASE j \in done
    <3>1. layouts'[j] = layouts[j] /\ n \in DOMAIN layouts[j].fields
      BY <1>1, <2>3
    <3>2. e \in done /\ rank[e] < rank[j]
      BY <1>7, <2>1, <2>3, <3>1 DEF LaidOutInTurn
    <3> QED BY <1>9, <2>3, <3>2
  <2> QED BY <1>10, <2>2, <2>3
<1>11. LaidOutInTurn(more, done \cup {i})'
  <2>1. \A j \in done \cup {i} : more[j] \in 1..Cardinality(done \cup {i})
    BY <1>8, <1>9
  <2>2. \A j \in done \cup {i} : \A n \in DOMAIN layouts'[j].fields :
          InlineStruct(layouts[j].fields[n].type)' = InlineStruct(layouts'[j].fields[n].type)
    <3> SUFFICES ASSUME NEW j \in done \cup {i}, NEW n \in DOMAIN layouts'[j].fields
                 PROVE  InlineStruct(layouts[j].fields[n].type)' = InlineStruct(layouts'[j].fields[n].type)
      OBVIOUS
    <3> PICK t : t = layouts'[j].fields[n].type
      OBVIOUS
    <3>1. InlineStruct(layouts[j].fields[n].type)' = InlineStruct(t)'
      OBVIOUS
    <3> QED BY <3>1, StructsStay
  <2>3. \A j \in done \cup {i} : \A n \in DOMAIN layouts'[j].fields :
          LET e == InlineStruct(layouts[j].fields[n].type)'
          IN  e # 0 => e \in done \cup {i} /\ more[e] < more[j]
    BY ONLY <1>10, <2>2
  <2> QED BY ONLY <2>1, <2>3 DEF LaidOutInTurn
<1>12. more \in [DOMAIN layouts' -> 1..Cardinality(DOMAIN layouts')]
  BY <1>1, <1>8, <1>9
<1>13. LaidOutInTurn(more, DOMAIN layouts)'
  BY <1>1, <1>11
<1>14. (\E r \in [DOMAIN layouts -> 1..Cardinality(DOMAIN layouts)] : LaidOutInTurn(r, DOMAIN layouts))'
  BY <1>12, <1>13
<1>15. \A j \in DOMAIN layouts' : LayoutFits(j)'
  BY <1>1, <1>5, <1>6
<1>16. DOMAIN layouts' \subseteq FileIds'
  BY <1>1, <1>2, <1>3
<1> QED BY <1>14, <1>15, <1>16 DEF LayoutFacts

\* Layouts that stay keep fitting.
LEMMA LayoutsKept ==
  ASSUME WellFormedProgram(syntax), LayoutFacts, UNCHANGED <<syntax, files, layouts>>
  PROVE  LayoutFacts'
<1>1. FileIds' = FileIds
  BY DEF FileIds
<1>2. DOMAIN layouts \subseteq FileIds /\ \A j \in DOMAIN layouts : FitsFile(j, layouts[j])
  BY DEF LayoutFacts, LayoutFits
<1>3. ASSUME NEW j \in DOMAIN layouts PROVE LayoutFits(j)'
  <2> PICK k : k = layouts[j]
    OBVIOUS
  <2>1. FitsFile(j, k) /\ j \in FileIds
    BY <1>2, <1>3
  <2>2. FitsFile(j, k)'
    BY <2>1, FitsStays
  <2>3. layouts'[j] = k
    OBVIOUS
  <2> QED BY <2>2, <2>3 DEF LayoutFits, FitsFile
<1>4. PICK rank \in [DOMAIN layouts -> 1..Cardinality(DOMAIN layouts)] : LaidOutInTurn(rank, DOMAIN layouts)
  BY DEF LayoutFacts
<1>5. LaidOutInTurn(rank, DOMAIN layouts)'
  <2> PICK done : done = DOMAIN layouts
    OBVIOUS
  <2>1. \A j \in done : \A n \in DOMAIN layouts[j].fields :
          InlineStruct(layouts[j].fields[n].type)' = InlineStruct(layouts[j].fields[n].type)
    <3> SUFFICES ASSUME NEW j \in done, NEW n \in DOMAIN layouts[j].fields
                 PROVE  InlineStruct(layouts[j].fields[n].type)' = InlineStruct(layouts[j].fields[n].type)
      OBVIOUS
    <3> PICK t : t = layouts[j].fields[n].type
      OBVIOUS
    <3>1. InlineStruct(layouts[j].fields[n].type)' = InlineStruct(t)'
      OBVIOUS
    <3> QED BY <3>1, StructsStay
  <2>2. LaidOutInTurn(rank, done)'
    BY <1>4, <2>1 DEF LaidOutInTurn
  <2> QED BY <2>2
<1> QED BY <1>1, <1>2, <1>3, <1>4, <1>5 DEF LayoutFacts

\* Every layout computed fits its file, in every reachable state.
LEMMA LayoutsStay ==
  ASSUME SemaInv, LayoutInv, [Next]_vars
  PROVE  LayoutInv'
<1>1. WellFormedProgram(syntax)
  BY DEF SemaInv
<1>2. ASSUME UNCHANGED <<syntax, files, layouts>>, phase' \in {"verify", "run"} => phase \in {"verify", "run"},
             phase' \notin Analysing, phase' = "abi" => phase = "abi"
      PROVE  LayoutInv'
  <2>1. ASSUME phase' \in {"abi", "verify", "run"} PROVE LayoutFacts'
    <3>1. LayoutFacts
      BY <1>2, <2>1 DEF LayoutInv
    <3> QED BY <1>1, <1>2, <3>1, LayoutsKept
  <2>2. ASSUME phase' \in {"verify", "run"} PROVE DOMAIN layouts' = FileIds'
    BY <1>2, <2>2 DEF LayoutInv, FileIds
  <2> QED BY <1>2, <2>1, <2>2 DEF LayoutInv
<1>3. CASE SemaNext /\ UNCHANGED <<abiVars, runVars>>
  <2>1. phase \in Analysing /\ phase' \in Analysing \cup {"abi", "rejected"}
    BY <1>3, AnalysisPhases
  <2>2. layouts' = <<>>
    BY <1>3, <2>1 DEF LayoutInv, abiVars
  <2>3. layouts' = <<>> => LayoutFacts'
    <3>1. ASSUME layouts' = <<>> PROVE DOMAIN layouts' = {}
      BY <3>1
    <3> PICK rank : rank = [j \in {} |-> 1]
      OBVIOUS
    <3>2. rank \in [{} -> 1..Cardinality({})]
      OBVIOUS
    <3>3. LaidOutInTurn(rank, {})'
      BY DEF LaidOutInTurn
    <3> QED BY <3>1, <3>2, <3>3 DEF LayoutFacts
  <2> QED BY <2>1, <2>2, <2>3 DEF LayoutInv, Analysing
<1>4. CASE LowerFileLayout
  <2>1. phase = "abi" /\ UNCHANGED <<syntax, files>>
    BY <1>4 DEF LowerFileLayout
  <2>2. PICK i \in FileIds :
          /\ LayoutReady(i)
          /\ LET l == FileLayout(i) IN
             IF l.ok /\ Len(l.refs) <= MaxMapEntries - MapEntries
             THEN /\ layouts' = [j \in DOMAIN layouts \cup {i} |-> IF j = i THEN l ELSE layouts[j]]
                  /\ UNCHANGED <<phase, errors>>
             ELSE /\ phase' = "rejected" /\ errors' = {<<"layout", i>>}
                  /\ UNCHANGED layouts
    BY <1>4, Zenon DEF LowerFileLayout
  <2>3. CASE phase' = "rejected"
    BY <2>3 DEF LayoutInv, Analysing
  <2>4. CASE phase' # "rejected"
    <3> PICK l : l = FileLayout(i)
      OBVIOUS
    <3>1. /\ l.ok /\ phase' = "abi"
          /\ layouts' = [j \in DOMAIN layouts \cup {i} |-> IF j = i THEN l ELSE layouts[j]]
      BY <2>1, <2>2, <2>4
    <3>2. LayoutFacts
      BY <2>1 DEF LayoutInv
    <3>3. HierarchyFacts
      BY <2>1, AcceptedPrograms DEF Accepted
    <3>4. i \notin DOMAIN layouts /\ LayoutDependencies(i) \subseteq DOMAIN layouts
      BY <2>2 DEF LayoutReady
    <3>5. FitsFile(i, l)
      BY <1>1, <3>1, <3>2, <3>3, <3>4, FileFits DEF LayoutFacts
    <3>6. LayoutFacts'
      BY <1>1, <2>1, <3>1, <3>2, <3>4, <3>5, LayoutAdded
    <3> QED BY <3>1, <3>6 DEF LayoutInv, Analysing
  <2> QED BY <2>3, <2>4
<1>5. CASE LayoutCycle
  <2>1. phase' = "rejected"
    BY ONLY <1>5, Zenon DEF LayoutCycle
  <2> QED BY <2>1 DEF LayoutInv, Analysing
<1>6. CASE EmitDescriptors
  <2>1. phase = "abi" /\ phase' = "verify" /\ DOMAIN layouts = FileIds /\ UNCHANGED <<syntax, files, layouts>>
    BY <1>6 DEF EmitDescriptors
  <2>2. LayoutFacts
    BY <2>1 DEF LayoutInv
  <2>3. LayoutFacts'
    BY <1>1, <2>1, <2>2, LayoutsKept
  <2>4. DOMAIN layouts' = FileIds'
    BY <2>1 DEF FileIds
  <2> QED BY <2>1, <2>3, <2>4 DEF LayoutInv, Analysing
<1>7. CASE VerifyAbi
  <2>1. phase = "verify" /\ (phase' = "run" \/ phase' = "internal error") /\ UNCHANGED <<syntax, files, layouts>>
    BY ONLY <1>7, Zenon DEF VerifyAbi
  <2>2. UNCHANGED <<syntax, files, layouts>> /\ phase = "verify" /\ phase' \notin Analysing /\ phase' # "abi"
    <3>1. phase' = "run" => phase' \notin Analysing /\ phase' # "abi"
      BY Zenon DEF Analysing
    <3>2. phase' = "internal error" => phase' \notin Analysing /\ phase' # "abi"
      BY Zenon DEF Analysing
    <3> QED BY ONLY <2>1, <3>1, <3>2, Zenon
  <2> QED BY <1>2, <2>2
<1>8. CASE New \/ RunBaseConstructor \/ InitializeFields \/ RunStatement \/ Return \/ UNCHANGED vars
  <2>1. UNCHANGED <<semaVars, abiVars>>
    BY <1>8 DEF New, RunBaseConstructor, InitializeFields, RunStatement, Return, vars
  <2>2. UNCHANGED <<syntax, files, layouts, phase>>
    BY <2>1 DEF semaVars, abiVars
  <2>3. CASE phase \notin Analysing
    BY <1>2, <2>2, <2>3
  <2>4. CASE phase \in Analysing
    BY <2>2, <2>4 DEF LayoutInv, Analysing
  <2> QED BY <2>3, <2>4
<1> QED BY <1>3, <1>4, <1>5, <1>6, <1>7, <1>8 DEF Next, AbiNext

\* The references of a field, once those of the struct it holds are known.
LEMMA FieldWordsExact ==
  ASSUME WellFormedProgram(syntax), \A j \in DOMAIN layouts : LayoutFits(j),
         NEW f \in FieldEntries, LaidOut(f.type), NEW words,
         InlineStruct(f.type) # 0 => words[InlineStruct(f.type)] = ToSet(layouts[InlineStruct(f.type)].refs)
  PROVE  FieldWords(words, f) = FieldRefs(f)
<1> PICK t : t = f.type
  OBVIOUS
<1> PICK at : at = f.offset
  OBVIOUS
<1> PICK e : e = InlineStruct(t)
  OBVIOUS
<1>1. t \in TypesOf(syntax) /\ at \in Nat /\ LaidOut(t)
  BY DEF FieldEntries
<1>2. FieldRefs(f) = {at + r : r \in ToSet(TypeLayout(t).refs)}
  BY DEF FieldRefs
<1>3. FieldWords(words, f) = CASE IsReference(t) -> {at}
         [] e # 0 -> {at + (IF t.n THEN layouts[e].align ELSE 0) + w : w \in words[e]}
         [] OTHER -> {}
  BY DEF FieldWords
<1>4. /\ IsReference(t) => TypeLayout(t) = Storage(Pointer, Pointer, <<0>>)
      /\ ~IsReference(t) /\ e = 0 => TypeLayout(t).refs = <<>>
      /\ ~IsReference(t) /\ e # 0 =>
           ToSet(TypeLayout(t).refs) =
             {(IF t.n THEN layouts[t.f].align ELSE 0) + w : w \in ToSet(layouts[t.f].refs)}
  BY <1>1, TypeStorage
<1>5. e # 0 => e = t.f /\ TypeKind(Element(t)) = "struct" /\ e \in DOMAIN layouts
  BY <1>1, StructTypes DEF LaidOut
<1>6. CASE IsReference(t)
  <2>1. e = 0
    BY <1>5, <1>6 DEF IsReference
  <2>2. FieldWords(words, f) = {at}
    BY <1>3, <1>6, <2>1
  <2>3. TypeLayout(t).refs = <<0>>
    BY <1>4, <1>6 DEF Storage
  <2>4. ToSet(<<0>>) = {0}
    BY DEF ToSet
  <2>5. FieldRefs(f) = {at + 0}
    BY <1>2, <2>3, <2>4
  <2>6. at + 0 = at
    BY <1>1
  <2> QED BY <2>2, <2>5, <2>6
<1>7. CASE ~IsReference(t) /\ e = 0
  <2>1. FieldWords(words, f) = {}
    BY <1>3, <1>7
  <2>2. ToSet(<<>>) = {}
    BY DEF ToSet
  <2>3. TypeLayout(t).refs = <<>>
    BY <1>4, <1>7
  <2> QED BY <1>2, <2>1, <2>2, <2>3
<1>8. CASE ~IsReference(t) /\ e # 0
  <2> PICK off : off = IF t.n THEN layouts[e].align ELSE 0
    OBVIOUS
  <2> PICK R : R = ToSet(layouts[e].refs)
    OBVIOUS
  <2>1. off \in Nat /\ R \subseteq Nat
    <3>1. e \in DOMAIN layouts
      BY <1>5, <1>8
    <3>2. layouts[e] \in Shapes
      BY <3>1 DEF LayoutFits, FitsFile, ShapeFits
    <3>3. layouts[e].align \in Nat /\ layouts[e].refs \in Seq(Nat)
      BY <3>2, ShapeTyped
    <3>4. ToSet(layouts[e].refs) \subseteq Nat
      BY <3>3 DEF ToSet
    <3> QED BY <3>3, <3>4
  <2>2. FieldWords(words, f) = {at + off + w : w \in R}
    BY <1>3, <1>8
  <2>3. ToSet(TypeLayout(t).refs) = {off + w : w \in R}
    BY <1>4, <1>5, <1>8
  <2>4. FieldRefs(f) = {at + r : r \in {off + w : w \in R}}
    BY <1>2, <2>3
  <2>5. \A w \in R : at + (off + w) = at + off + w
    BY ONLY <1>1, <2>1
  <2> QED BY ONLY <2>2, <2>4, <2>5
<1> QED BY <1>6, <1>7, <1>8

\* The rounds over the layouts.
WordSteps(f, n) ==
  f = [k \in 0..n |->
        [i \in DOMAIN layouts |-> IF k = 0 THEN {} ELSE
           UNION {FieldWords(f[k - 1], layouts[i].fields[m]) : m \in DOMAIN layouts[i].fields}]]

\* The words found are those of the last round.
LEMMA WordsUnfold ==
  ASSUME Len(syntax) \in Nat
  PROVE  \E f : WordSteps(f, Len(syntax)) /\ ReferenceWords = f[Len(syntax)]
<1> DEFINE S == {n \in Nat : ~\E f : WordSteps(f, n)}
           start == [i \in DOMAIN layouts |-> {}]
           round(words) == [i \in DOMAIN layouts |->
              UNION {FieldWords(words, layouts[i].fields[m]) : m \in DOMAIN layouts[i].fields}]
<1>0. ASSUME NEW f, NEW n \in Nat
      PROVE  WordSteps(f, n) <=> f = [k \in 0..n |-> IF k = 0 THEN start ELSE round(f[k - 1])]
  <2>1. \A k \in 0..n : [i \in DOMAIN layouts |-> IF k = 0 THEN {} ELSE
           UNION {FieldWords(f[k - 1], layouts[i].fields[m]) : m \in DOMAIN layouts[i].fields}]
          = IF k = 0 THEN start ELSE round(f[k - 1])
    OBVIOUS
  <2> HIDE DEF start, round
  <2> QED BY <2>1 DEF WordSteps
<1> HIDE DEF start, round
<1>1. 0 \notin S
  <2>1. \E f : f = [k \in 0..0 |-> IF k = 0 THEN start ELSE round(f[k - 1])]
    <3>1. [k \in 0..0 |-> start] = [k \in 0..0 |-> IF k = 0 THEN start ELSE round([j \in 0..0 |-> start][k - 1])]
      OBVIOUS
    <3> QED BY <3>1
  <2> QED BY <1>0, <2>1
<1>2. ASSUME NEW n \in Nat, n \notin S PROVE n + 1 \notin S
  <2>1. PICK g : g = [k \in 0..n |-> IF k = 0 THEN start ELSE round(g[k - 1])]
    BY <1>0, <1>2
  <2> DEFINE next == round(g[n])
             f == [k \in 0..(n + 1) |-> IF k = n + 1 THEN next ELSE g[k]]
  <2>2. \A k \in 0..n : g[k] = IF k = 0 THEN start ELSE round(g[k - 1])
    BY <2>1
  <2>3. \A k \in 0..(n + 1) : f[k] = IF k = 0 THEN start ELSE round(f[k - 1])
    <3>1. f[n + 1] = round(f[n])
      <4>1. n \in 0..(n + 1) /\ n # n + 1 /\ n + 1 \in 0..(n + 1)
        OBVIOUS
      <4>2. f[n] = g[n] /\ f[n + 1] = next
        BY <4>1
      <4> HIDE DEF f
      <4> QED BY <4>2
    <3>2. \A k \in 0..n : f[k] = g[k] /\ (k # 0 => f[k - 1] = g[k - 1])
      OBVIOUS
    <3> HIDE DEF f, next
    <3>3. (n + 1) - 1 = n /\ n + 1 # 0
      OBVIOUS
    <3> SUFFICES ASSUME NEW k \in 0..(n + 1) PROVE f[k] = IF k = 0 THEN start ELSE round(f[k - 1])
      OBVIOUS
    <3>4. CASE k = n + 1
      BY <3>1, <3>3, <3>4
    <3>5. CASE k \in 0..n
      BY <2>2, <3>2, <3>5
    <3> QED BY <3>4, <3>5
  <2>4. WordSteps(f, n + 1)
    <3>1. f = [k \in 0..(n + 1) |-> IF k = 0 THEN start ELSE round(f[k - 1])]
      BY <2>3
    <3> HIDE DEF f
    <3> QED BY <1>0, <3>1
  <2> QED BY <2>4
<1>3. S = {}
  <2>1. S \in SUBSET Nat
    OBVIOUS
  <2> HIDE DEF S
  <2> QED BY <1>1, <1>2, <2>1, NoException
<1> DEFINE made == CHOOSE f : WordSteps(f, Len(syntax))
<1>4. WordSteps(made, Len(syntax))
  BY <1>3
<1>5. ReferenceWords = made[Len(syntax)]
  BY DEF ReferenceWords, WordSteps
<1> QED BY <1>4, <1>5

\* The rounds reach every struct, however deep it is embedded: the collector
\* finds the references of a type, no others.
LEMMA WordsExact ==
  ASSUME WellFormedProgram(syntax), LayoutFacts, NEW i \in DOMAIN layouts
  PROVE  ToSet(layouts[i].refs) = ReferenceWords[i]
<1> PICK N : N = Len(syntax)
  OBVIOUS
<1> PICK D : D = DOMAIN layouts
  OBVIOUS
<1>1. N \in Nat /\ FileIds = 1..N /\ D \subseteq FileIds /\ \A j \in D : LayoutFits(j)
  BY ProgramTyped DEF LayoutFacts
<1>2. PICK rank \in [D -> 1..Cardinality(D)] : LaidOutInTurn(rank, D)
  BY DEF LayoutFacts
<1>3. Cardinality(D) \in Nat /\ Cardinality(D) <= N
  <2>1. IsFiniteSet(FileIds) /\ Cardinality(FileIds) = N
    <3>1. 1 \in Int /\ N \in Int
      BY <1>1
    <3>2. IsFiniteSet(1..N) /\ Cardinality(1..N) = IF 1 > N THEN 0 ELSE N - 1 + 1
      BY ONLY <3>1, FS_Interval
    <3> QED BY <1>1, <3>2
  <2>2. IsFiniteSet(D) /\ Cardinality(D) <= Cardinality(FileIds)
    BY <1>1, <2>1, FS_Subset
  <2> QED BY <2>1, <2>2, FS_CardinalityType
<1>4. PICK f : WordSteps(f, N) /\ ReferenceWords = f[N]
  BY <1>1, WordsUnfold
<1>5. /\ \A k \in 1..N : \A j \in D :
           f[k][j] = UNION {FieldWords(f[k - 1], layouts[j].fields[m]) : m \in DOMAIN layouts[j].fields}
  <2> SUFFICES ASSUME NEW k \in 1..N, NEW j \in D
               PROVE  f[k][j] = UNION {FieldWords(f[k - 1], layouts[j].fields[m]) : m \in DOMAIN layouts[j].fields}
    OBVIOUS
  <2>1. \A m \in 0..N : f[m] = [h \in DOMAIN layouts |-> IF m = 0 THEN {} ELSE
           UNION {FieldWords(f[m - 1], layouts[h].fields[p]) : p \in DOMAIN layouts[h].fields}]
    BY ONLY <1>1, <1>4, Zenon DEF WordSteps
  <2>2. k \in 0..N /\ k # 0
    BY <1>1
  <2>3. f[k] = [h \in DOMAIN layouts |-> IF k = 0 THEN {} ELSE
           UNION {FieldWords(f[k - 1], layouts[h].fields[p]) : p \in DOMAIN layouts[h].fields}]
    BY <2>1, <2>2
  <2> QED BY ONLY <2>2, <2>3, j \in D, D = DOMAIN layouts
<1>6. \A j \in D : rank[j] \in Nat /\ rank[j] >= 1 /\ rank[j] <= N
  BY <1>2, <1>3
<1> DEFINE Exact(k) == \A j \in D : rank[j] <= k => f[k][j] = ToSet(layouts[j].refs)
           S == {k \in Nat : k <= N /\ ~Exact(k)}
<1>7. 0 \notin S
  BY <1>6
<1>8. ASSUME NEW k \in Nat, k \notin S PROVE k + 1 \notin S
  <2> SUFFICES ASSUME k + 1 <= N, NEW j \in D, rank[j] <= k + 1
               PROVE  f[k + 1][j] = ToSet(layouts[j].refs)
    OBVIOUS
  <2>1. Exact(k) /\ k + 1 \in 1..N /\ (k + 1) - 1 = k
    BY <1>1, <1>8
  <2>2. f[k + 1][j] = UNION {FieldWords(f[k], layouts[j].fields[m]) : m \in DOMAIN layouts[j].fields}
    BY <1>5, <2>1
  <2>3. ShapeFits(layouts[j])
    BY <1>1 DEF LayoutFits, FitsFile
  <2>4. \A m \in DOMAIN layouts[j].fields : FieldWords(f[k], layouts[j].fields[m]) = FieldRefs(layouts[j].fields[m])
    <3> SUFFICES ASSUME NEW m \in DOMAIN layouts[j].fields
                 PROVE  FieldWords(f[k], layouts[j].fields[m]) = FieldRefs(layouts[j].fields[m])
      OBVIOUS
    <3> PICK g : g = layouts[j].fields[m]
      OBVIOUS
    <3> PICK e : e = InlineStruct(g.type)
      OBVIOUS
    <3>1. g \in FieldEntries /\ LaidOut(g.type)
      BY <2>3, ShapeTyped DEF ShapeFits, FieldFits
    <3>2. e # 0 => e \in D /\ rank[e] < rank[j]
      BY <1>2 DEF LaidOutInTurn
    <3>3. e # 0 => rank[e] <= k
      BY <1>6, <3>2
    <3>4. e # 0 => f[k][e] = ToSet(layouts[e].refs)
      BY <2>1, <3>2, <3>3
    <3>5. FieldWords(f[k], g) = FieldRefs(g)
      BY <1>1, <3>1, <3>4, FieldWordsExact
    <3> QED BY <3>5
  <2>5. f[k + 1][j] = UNION {FieldRefs(layouts[j].fields[m]) : m \in DOMAIN layouts[j].fields}
    BY <2>2, <2>4
  <2> QED BY <2>3, <2>5 DEF ShapeFits, RefsExact
<1>9. S = {}
  <2>1. S \in SUBSET Nat
    OBVIOUS
  <2> HIDE DEF S
  <2> QED BY <1>7, <1>8, <2>1, NoException
<1>10. Exact(N)
  BY <1>1, <1>9
<1> QED BY <1>4, <1>6, <1>10

\* What fits a file is what the ABI verifier asks of its layout.
LEMMA LayoutVerified ==
  ASSUME NEW i \in FileIds, LayoutFacts, WellFormedProgram(syntax), i \in DOMAIN layouts
  PROVE  /\ VerifyClassLayout(layouts[i])
         /\ Ascending(layouts[i].refs)
         /\ \A n \in DOMAIN layouts[i].refs : /\ layouts[i].refs[n] >= layouts[i].header
                                              /\ layouts[i].refs[n] % Pointer = 0
                                              /\ layouts[i].refs[n] + Pointer <= layouts[i].size
<1> PICK l : l = layouts[i]
  OBVIOUS
<1>1. /\ l \in Shapes /\ l.header <= l.size /\ l.size % l.align = 0
      /\ RefsFit(l.refs, l.header, l.size, l.align)
      /\ \A n \in DOMAIN l.fields : FieldFits(l, n)
      /\ FieldsApart(l)
  BY DEF LayoutFacts, LayoutFits, FitsFile, ShapeFits
<1>2. l.align \in Alignments /\ Len(l.fields) \in Nat /\ DOMAIN l.fields = 1..Len(l.fields)
  BY <1>1, ShapeTyped
<1>3. Pow2(l.align)
  BY <1>2, AlignmentsNest
<1>4. ASSUME NEW n \in DOMAIN l.fields
      PROVE  LET t == TypeLayout(l.fields[n].type)
                 before == IF n = 1 THEN l.header
                           ELSE l.fields[n-1].offset + TypeLayout(l.fields[n-1].type).size
             IN /\ l.fields[n].offset >= before /\ l.fields[n].offset % t.align = 0
                /\ l.fields[n].offset + t.size <= l.size
  <2>1. FieldFits(l, n)
    BY <1>1, <1>4
  <2>2. /\ l.fields[n].offset >= l.header /\ l.fields[n].offset % TypeLayout(l.fields[n].type).align = 0
        /\ l.fields[n].offset + TypeLayout(l.fields[n].type).size <= l.size
    BY <2>1 DEF FieldFits
  <2>3. n # 1 => n - 1 \in DOMAIN l.fields /\ n - 1 < n
    BY <1>2, <1>4
  <2>4. n # 1 => l.fields[n - 1].offset + TypeLayout(l.fields[n - 1].type).size <= l.fields[n].offset
    BY <1>1, <1>4, <2>3 DEF FieldsApart
  <2>5. /\ l.fields[n].offset \in Nat
        /\ n # 1 => l.fields[n - 1].offset + TypeLayout(l.fields[n - 1].type).size \in Nat
    <3>1. \A m \in DOMAIN l.fields : l.fields[m].offset \in Nat /\ TypeLayout(l.fields[m].type).size \in Nat
      <4> SUFFICES ASSUME NEW m \in DOMAIN l.fields
                   PROVE  l.fields[m].offset \in Nat /\ TypeLayout(l.fields[m].type).size \in Nat
        OBVIOUS
      <4>1. l.fields[m].offset \in Nat /\ l.fields[m].type \in TypesOf(syntax)
        BY <1>1, <1>2, ShapeTyped
      <4>2. LaidOut(l.fields[m].type)
        BY <1>1 DEF FieldFits
      <4>3. StorageFits(TypeLayout(l.fields[m].type))
        BY <4>1, <4>2, TypeStorage DEF LayoutFacts
      <4> QED BY <4>1, <4>3 DEF StorageFits
    <3> QED BY <1>4, <2>3, <3>1
  <2>6. l.header \in Nat
    BY <1>1, ShapeTyped
  <2> QED BY <2>2, <2>4, <2>5, <2>6
<1>5. VerifyClassLayout(l)
  BY <1>1, <1>3, <1>4 DEF VerifyClassLayout
<1> QED BY <1>1, <1>5 DEF RefsFit

\* The descriptor of a class takes its storage from the layout.
LEMMA ClassStorage ==
  ASSUME NEW i
  PROVE  LET d == ClassDescriptor(i) IN
         /\ d.kind = syntax[i].kind /\ d.parent = files[i].base
         /\ d.errorRoot = (syntax[i].kind = "error" /\ files[i].base = 0)
         /\ d.size = layouts[i].size /\ d.align = layouts[i].align /\ d.refs = layouts[i].refs
         /\ d.virtuals = files[i].virtuals /\ d.box = 0
BY DEF ClassDescriptor

\* A class meets what its base meets, so it has the tables its base has.
LEMMA TablesInherited ==
  ASSUME Accepted, NEW i \in ClassIds, NEW b \in ClassIds, b = files[i].base,
         NEW m \in DOMAIN files[b].implementations
  PROVE  \E k \in DOMAIN files[i].implementations :
           files[i].implementations[k].interface = files[b].implementations[m].interface
<1> PICK x : x = files[b].implementations[m].interface
  OBVIOUS
<1> PICK inherited : inherited = files[b].virtuals
  OBVIOUS
<1> PICK virtuals : virtuals = files[i].virtuals
  OBVIOUS
<1>1. /\ WellFormedProgram(syntax) /\ HierarchyFacts /\ SymbolFacts /\ TableFacts(i) /\ TableFacts(b)
      /\ ImplementationFacts(i) /\ ImplementationFacts(b) /\ ClassFacts(i) /\ ClassFacts(b)
      /\ i \in FileIds /\ b \in FileIds /\ b # 0
  BY ProgramTyped DEF Accepted, ClassIds
<1>2. x \in Closure(b) /\ \A c \in ToSet(files[x].contract) : Meets(b, c)
  BY <1>1 DEF ImplementationFacts, TableOfInterface
<1>3. x \in Closure(i)
  BY <1>1, <1>2 DEF ClassFacts
<1>4. InheritedTable(i) = inherited
  BY <1>1 DEF InheritedTable, Parents
<1>5. /\ Len(inherited) \in Nat /\ DOMAIN inherited = 1..Len(inherited)
      /\ \A n \in DOMAIN inherited : inherited[n] \in PublicInstance
  BY <1>1, TableNames
<1>6. /\ Len(virtuals) \in Nat /\ DOMAIN virtuals = 1..Len(virtuals)
      /\ \A n \in DOMAIN virtuals : virtuals[n] \in PublicInstance
      /\ \A j, n \in DOMAIN virtuals : symbols[virtuals[j]].name = symbols[virtuals[n]].name => j = n
  BY <1>1, TableNames
<1>7. \A n \in DOMAIN inherited : n \in DOMAIN virtuals /\ Replaces(virtuals[n], inherited[n])
  <2>1. Len(inherited) <= Len(virtuals)
    BY <1>1, <1>4 DEF TableFacts
  <2>2. \A n \in DOMAIN virtuals : n \in DOMAIN inherited => Replaces(virtuals[n], inherited[n])
    BY <1>1, <1>4 DEF TableFacts, EntryFits
  <2>3. \A n \in DOMAIN inherited : n \in DOMAIN virtuals
    BY ONLY <1>5, <1>6, <2>1
  <2> QED BY ONLY <2>2, <2>3
<1>8. x \in InterfaceIds /\ ToSet(files[x].contract) \subseteq PublicInstance
  <2>1. x \in InterfaceIds
    <3>1. IsInterface(x)
      BY <1>1, <1>2 DEF ClassFacts
    <3>2. files[b].interfaces \in Seq(FileIds)
      BY <1>1 DEF HierarchyFacts, FileTyped
    <3>3. x \in FileIds
      <4> PICK interfaces : interfaces = files[b].interfaces
        OBVIOUS
      <4>1. interfaces \in Seq(FileIds) /\ x \in ToSet(interfaces)
        BY <1>2, <3>2 DEF Closure
      <4> QED BY ONLY <4>1 DEF ToSet
    <3> QED BY <3>1, <3>3 DEF InterfaceIds
  <2> QED BY <2>1 DEF Accepted, ContractFacts
<1>9. ASSUME NEW c \in ToSet(files[x].contract) PROVE Meets(i, c)
  <2> PICK n : n = Matching(symbols, inherited, c)
    OBVIOUS
  <2> PICK at : at = Matching(symbols, virtuals, c)
    OBVIOUS
  <2>1. n # 0 /\ Replaces(inherited[n], c)
    BY <1>2 DEF Meets
  <2>2. n \in DOMAIN inherited
    BY <1>5, <2>1, MatchingEntry
  <2>3. n \in DOMAIN virtuals /\ Replaces(virtuals[n], inherited[n])
    BY <1>7, <2>2
  <2>4. Replaces(virtuals[n], c)
    BY <1>5, <1>6, <1>8, <2>1, <2>2, <2>3, ReplacesTransitive
  <2>5. symbols[virtuals[n]].name = symbols[c].name
    BY <2>4 DEF Replaces
  <2>6. /\ at # 0 => at \in DOMAIN virtuals /\ symbols[virtuals[at]].name = symbols[c].name
        /\ at = 0 => \A j \in DOMAIN virtuals : symbols[virtuals[j]].name # symbols[c].name
    BY ONLY <1>6, at = Matching(symbols, virtuals, c), MatchingEntry
  <2>7. at = n
    BY <1>6, <2>3, <2>5, <2>6
  <2> QED BY <2>1, <2>4, <2>7 DEF Meets
<1> QED BY <1>1, <1>3, <1>9 DEF ImplementationFacts

\* The search finds each of them in the descriptor of the class, with the same
\* number of functions.
LEMMA InheritedTablesFound ==
  ASSUME Accepted, NEW i \in ClassIds, NEW b \in ClassIds, b = files[i].base,
         NEW d, d = ClassDescriptor(i), NEW p, p = ClassDescriptor(b), NEW n \in DOMAIN p.interfaces
  PROVE  LET at == FindInterfaceDispatch(d, p.interfaces[n].id) IN
         at # 0 /\ Len(d.interfaces[at].functions) = Len(p.interfaces[n].functions)
<1> PICK s : s = files[i].implementations
  OBVIOUS
<1> PICK r : r = files[b].implementations
  OBVIOUS
<1>1. ImplementationFacts(i) /\ ImplementationFacts(b)
  BY DEF Accepted
<1>2. PICK ids, places : OrderedTables(b, p, ids, places)
  BY TablesOrdered
<1>3. DOMAIN p.interfaces = DOMAIN r
  BY DEF ClassDescriptor
<1>4. /\ Len(r) \in Nat /\ DOMAIN r = 1..Len(r) /\ n \in 1..Len(r)
      /\ \A m \in 1..Len(r) : p.interfaces[m].id = ids[m]
      /\ places \in [1..Len(r) -> 1..Len(r)]
      /\ \A m \in 1..Len(r) : r[m].interface \in InterfaceIds
      /\ \A k \in 1..Len(r) : /\ ids[k] = syntax[r[places[k]].interface].id
                              /\ p.interfaces[k].functions = r[places[k]].functions
  BY <1>2, <1>3 DEF OrderedTables, SortedTable
<1>5. PICK m \in DOMAIN r : m = places[n]
  BY <1>4
<1> PICK x : x = r[m].interface
  OBVIOUS
<1>6. p.interfaces[n].id = syntax[x].id /\ p.interfaces[n].functions = r[m].functions /\ x \in InterfaceIds
  BY ZenonT(60), <1>4, <1>5
<1>7. PICK k \in DOMAIN s : s[k].interface = x
  BY <1>5, TablesInherited
<1> PICK at : at = FindInterfaceDispatch(d, syntax[x].id)
  OBVIOUS
<1>8. at # 0 /\ d.interfaces[at].functions = s[k].functions
  <2>1. k \in DOMAIN files[i].implementations /\ files[i].implementations[k].interface = x
    BY <1>7
  <2>2. /\ FindInterfaceDispatch(d, syntax[x].id) # 0
        /\ d.interfaces[FindInterfaceDispatch(d, syntax[x].id)].functions = files[i].implementations[k].functions
    <3>1. x \in InterfaceIds
      BY <1>6
    <3>2. \A j \in DOMAIN files[i].implementations :
            files[i].implementations[j].interface = x =>
              /\ FindInterfaceDispatch(d, syntax[x].id) # 0
              /\ d.interfaces[FindInterfaceDispatch(d, syntax[x].id)].functions = files[i].implementations[j].functions
      BY ONLY Accepted, i \in ClassIds, d = ClassDescriptor(i), <3>1, TableFound
    <3> QED BY ONLY <2>1, <3>2
  <2> QED BY ONLY <2>2, at = FindInterfaceDispatch(d, syntax[x].id), s = files[i].implementations
<1>9. TableOfInterface(i, s[k]) /\ TableOfInterface(b, r[m])
  BY <1>1, <1>7 DEF ImplementationFacts
<1>10. DOMAIN s[k].functions = DOMAIN files[x].contract /\ DOMAIN r[m].functions = DOMAIN files[x].contract
  BY <1>7, <1>9 DEF TableOfInterface
<1>11. Len(s[k].functions) = Len(r[m].functions)
  <2> PICK contract : contract = files[x].contract
    OBVIOUS
  <2>1. x \in FileIds /\ HierarchyFacts
    BY <1>6 DEF InterfaceIds, Accepted
  <2>2. contract \in Seq(Nat)
    BY <2>1 DEF HierarchyFacts, FileTyped
  <2>3. Len(contract) \in Nat /\ DOMAIN contract = 1..Len(contract)
    BY ONLY <2>2
  <2> PICK v : v = s[k].functions
    OBVIOUS
  <2> PICK w : w = r[m].functions
    OBVIOUS
  <2>4. DOMAIN v = 1..Len(contract) /\ DOMAIN w = 1..Len(contract)
    BY <1>10, <2>3
  <2>5. Len(v) = Len(contract) /\ Len(w) = Len(contract)
    BY ONLY <2>3, <2>4
  <2> QED BY ONLY <2>5, v = s[k].functions, w = r[m].functions
<1> QED BY <1>6, <1>8, <1>11

\* A program whose layouts and descriptors are complete.
Lowered ==
  /\ Accepted /\ DescriptorFacts /\ LayoutFacts /\ phase \in {"verify", "run"}
  /\ DOMAIN layouts = FileIds

\* What a descriptor's class was laid out as.
LEMMA ClassLaidOut ==
  ASSUME Lowered, NEW i \in ClassIds
  PROVE  /\ i \in FileIds /\ i \in DOMAIN layouts /\ i \in DOMAIN descriptors
         /\ descriptors[i] = ClassDescriptor(i)
         /\ FitsFile(i, layouts[i]) /\ layouts[i].header = Header /\ layouts[i].align = Pointer
         /\ layouts[i].size \in Nat /\ layouts[i].size >= Header
         /\ syntax[i].kind \in {"class", "error"}
         /\ files[i].base # 0 =>
              /\ files[i].base \in ClassIds /\ files[i].base # i
              /\ syntax[files[i].base].kind = syntax[i].kind \/ files[i].base = Obj
              /\ StartsAs(layouts[i], layouts[files[i].base])
              /\ Len(files[files[i].base].virtuals) <= Len(files[i].virtuals)
<1>1. WellFormedProgram(syntax) /\ HierarchyFacts /\ TableFacts(i) /\ i \in FileIds /\ IsClass(i)
  BY DEF Lowered, Accepted, ClassIds
<1>2. syntax[i].kind \in {"class", "error"} /\ ~IsInterface(i)
  BY <1>1 DEF IsClass, IsInterface
<1>3. i \in DOMAIN layouts /\ i \in DOMAIN descriptors /\ descriptors[i] = ClassDescriptor(i)
  BY <1>1, <1>2 DEF Lowered, DescriptorFacts
<1>4. FitsFile(i, layouts[i])
  BY <1>3 DEF Lowered, LayoutFacts, LayoutFits
<1>5. layouts[i].header = Header /\ layouts[i].align = Pointer
  BY <1>2, <1>4 DEF FitsFile
<1>6. layouts[i].size \in Nat /\ layouts[i].size >= Header
  <2>1. layouts[i] \in Shapes /\ layouts[i].header <= layouts[i].size
    BY <1>4 DEF FitsFile, ShapeFits
  <2>2. layouts[i].size \in Nat
    BY <2>1, ShapeTyped
  <2> QED BY <1>5, <2>1, <2>2 DEF Header, HeaderWords, Pointer
<1>7. ASSUME files[i].base # 0
      PROVE  /\ files[i].base \in ClassIds /\ files[i].base # i
             /\ syntax[files[i].base].kind = syntax[i].kind \/ files[i].base = Obj
             /\ StartsAs(layouts[i], layouts[files[i].base])
             /\ Len(files[files[i].base].virtuals) <= Len(files[i].virtuals)
  <2> PICK b : b = files[i].base
    OBVIOUS
  <2>1. b \in FileIds /\ IsClass(b) /\ (syntax[b].kind = syntax[i].kind \/ b = Obj)
    <3>1. b \in 0..Len(syntax) /\ b # 0
      BY <1>1, <1>7 DEF HierarchyFacts, FileTyped
    <3>2. b \in FileIds
      BY <1>1, <3>1, ProgramTyped
    <3> QED BY <1>1, <1>7, <3>2 DEF HierarchyFacts, BaseFits
  <2>2. b # i
    <3> SUFFICES ASSUME b = i PROVE FALSE
      OBVIOUS
    <3>1. Len(Bases) = Len(syntax) /\ Bases[i] = i /\ i \in 1..Len(syntax)
      BY <1>1, BasesLink, ProgramTyped
    <3>2. {i} \in SUBSET (1..Len(Bases)) /\ \A x \in {i} : Bases[x] \in {i}
      BY <3>1
    <3>3. Grounded(Bases)
      BY <1>1 DEF HierarchyFacts
    <3> QED BY <3>2, <3>3 DEF Grounded
  <2>3. StartsAs(layouts[i], layouts[b])
    BY <1>4, <1>7 DEF FitsFile
  <2>4. InheritedTable(i) = files[b].virtuals
    <3>1. Parents[i] = b
      BY <1>1, <1>7 DEF Parents
    <3> QED BY <1>7, <3>1 DEF InheritedTable
  <2>5. Len(files[b].virtuals) <= Len(files[i].virtuals)
    BY <1>1, <2>4 DEF TableFacts
  <2> QED BY <2>1, <2>2, <2>3, <2>5 DEF ClassIds
<1> QED BY <1>1, <1>2, <1>3, <1>4, <1>5, <1>6, <1>7

\* The identities of a descriptor's tables come in ascending order.
LEMMA TablesAscend ==
  ASSUME Accepted, NEW i \in ClassIds, NEW d, d = ClassDescriptor(i)
  PROVE  Ascending([n \in DOMAIN d.interfaces |-> d.interfaces[n].id])
<1>1. PICK ids, at : OrderedTables(i, d, ids, at)
  BY TablesOrdered
<1> PICK n : n = Len(files[i].implementations)
  OBVIOUS
<1>2. /\ n \in Nat /\ DOMAIN files[i].implementations = 1..n /\ ids \in [1..n -> Nat]
      /\ \A k \in 1..n : d.interfaces[k].id = ids[k]
      /\ \A j, k \in 1..n : j < k => ids[j] < ids[k]
  BY <1>1 DEF OrderedTables, SortedTable
<1>3. DOMAIN d.interfaces = 1..n
  <2>1. DOMAIN d.interfaces = DOMAIN files[i].implementations
    BY DEF ClassDescriptor
  <2> QED BY <1>2, <2>1
<1>4. [k \in DOMAIN d.interfaces |-> d.interfaces[k].id] = ids
  BY ONLY <1>2, <1>3
<1>5. Len(ids) = n
  BY ONLY <1>2
<1>6. \A k \in 1..(n - 1) : k \in 1..n /\ k + 1 \in 1..n /\ k < k + 1
  BY <1>2
<1>7. Ascending(ids)
  BY <1>2, <1>5, <1>6 DEF Ascending
<1> QED BY <1>4, <1>7

\* The runtime accepts the descriptor of every class.
LEMMA ClassesAccepted ==
  ASSUME Lowered, NEW i \in ClassIds
  PROVE  ValidateTypeDescriptor(i)
<1> PICK d : d = ClassDescriptor(i)
  OBVIOUS
<1> PICK p : p = descriptors[d.parent]
  OBVIOUS
<1>1. /\ Accepted /\ LayoutFacts /\ WellFormedProgram(syntax)
      /\ i \in FileIds /\ i \in DOMAIN layouts /\ descriptors[i] = d
      /\ layouts[i].header = Header /\ layouts[i].align = Pointer
      /\ layouts[i].size \in Nat /\ layouts[i].size >= Header /\ syntax[i].kind \in {"class", "error"}
  BY ClassLaidOut DEF Lowered, Accepted
<1>2. /\ d.kind = syntax[i].kind /\ d.parent = files[i].base
      /\ d.errorRoot = (syntax[i].kind = "error" /\ files[i].base = 0)
      /\ d.size = layouts[i].size /\ d.align = layouts[i].align /\ d.refs = layouts[i].refs
      /\ d.virtuals = files[i].virtuals /\ d.box = 0
  BY ClassStorage
<1>3. ASSUME d.parent # 0
      PROVE  /\ d.parent # i /\ (p.kind = d.kind \/ d.parent = Obj)
             /\ p.size <= d.size /\ p.align <= d.align
             /\ Len(p.virtuals) <= Len(d.virtuals)
             /\ \A n \in DOMAIN p.interfaces :
                  LET at == FindInterfaceDispatch(d, p.interfaces[n].id)
                  IN  at # 0 /\ Len(d.interfaces[at].functions) = Len(p.interfaces[n].functions)
  <2> PICK b \in ClassIds : b = files[i].base
    BY <1>2, <1>3, ClassLaidOut
  <2>1. /\ b # i /\ (syntax[b].kind = syntax[i].kind \/ b = Obj)
        /\ StartsAs(layouts[i], layouts[b]) /\ Len(files[b].virtuals) <= Len(files[i].virtuals)
    BY <1>2, <1>3, ClassLaidOut
  <2>2. p = ClassDescriptor(b) /\ layouts[b].align = Pointer
    BY <1>2, ClassLaidOut
  <2>3. p.kind = syntax[b].kind /\ p.size = layouts[b].size /\ p.align = layouts[b].align
        /\ p.virtuals = files[b].virtuals
    BY <2>2, ClassStorage
  <2>4. layouts[b].size \in Nat /\ layouts[b].size <= layouts[i].size
    BY <1>1, <2>1, ClassLaidOut DEF StartsAs
  <2>5. p.align <= d.align
    BY <1>1, <1>2, <2>2, <2>3 DEF Pointer
  <2>6. \A n \in DOMAIN p.interfaces :
                  LET at == FindInterfaceDispatch(d, p.interfaces[n].id)
                  IN  at # 0 /\ Len(d.interfaces[at].functions) = Len(p.interfaces[n].functions)
    <3>1. /\ Accepted /\ i \in ClassIds /\ b \in ClassIds /\ b = files[i].base
          /\ d = ClassDescriptor(i) /\ p = ClassDescriptor(b)
      BY <1>1, <2>2
    <3> SUFFICES ASSUME NEW n \in DOMAIN p.interfaces
                 PROVE  LET at == FindInterfaceDispatch(d, p.interfaces[n].id)
                        IN  at # 0 /\ Len(d.interfaces[at].functions) = Len(p.interfaces[n].functions)
      OBVIOUS
    <3> QED BY ONLY <3>1, n \in DOMAIN p.interfaces, InheritedTablesFound
  <2> QED BY ONLY <1>2, <2>1, <2>3, <2>4, <2>5, <2>6, b = files[i].base
<1>4. d.size >= Header + (IF d.errorRoot THEN Pointer ELSE 0)
  <2>1. syntax[i].kind = "error" => layouts[i].size >= Header + Pointer
    <3>1. FitsFile(i, layouts[i])
      BY ClassLaidOut
    <3> QED BY ONLY <3>1 DEF FitsFile
  <2>2. d.errorRoot => d.size >= Header + Pointer
    BY <1>2, <2>1
  <2>3. d.size >= Header + 0
    BY <1>1, <1>2 DEF Header, HeaderWords, Pointer
  <2> QED BY <2>2, <2>3
<1>5. Pow2(d.align) /\ d.align >= Pointer
  <2>1. Pointer \in Alignments /\ Pow2(Pointer)
    BY AlignmentsNest
  <2> QED BY <1>1, <1>2, <2>1 DEF Pointer
<1>6. /\ Ascending(d.refs)
      /\ \A n \in DOMAIN d.refs : /\ d.refs[n] >= Header /\ d.refs[n] % Pointer = 0
                                  /\ d.refs[n] + Pointer <= d.size
  BY <1>1, <1>2, LayoutVerified
<1>7. Ascending([n \in DOMAIN d.interfaces |-> d.interfaces[n].id])
  BY <1>1, TablesAscend
<1>8. d.kind = "box" <=> d.box # 0
  BY <1>1, <1>2
<1> QED BY <1>1, <1>2, <1>3, <1>4, <1>5, <1>6, <1>7, <1>8 DEF ValidateTypeDescriptor

\* The table of Object has a slot for each of its functions at most.
LEMMA ObjectTable ==
  ASSUME Accepted
  PROVE  Len(files[Obj].virtuals) \in Nat /\ Len(files[Obj].virtuals) <= 3
<1> PICK table : table = files[Obj].virtuals
  OBVIOUS
<1> PICK functions : functions = files[Obj].functions
  OBVIOUS
<1>1. /\ WellFormedProgram(syntax) /\ HierarchyFacts /\ SymbolFacts
      /\ Obj \in FileIds /\ syntax[Obj].kind = "class"
  BY ProgramTyped DEF Accepted
<1>2. Obj \in ClassIds /\ TableFacts(Obj)
  BY <1>1 DEF Accepted, ClassIds, IsClass
<1>3. table \in Seq(Nat) /\ functions \in Seq(Nat)
  BY <1>1 DEF HierarchyFacts, FileTyped
<1>4. /\ Len(table) \in Nat /\ DOMAIN table = 1..Len(table)
      /\ Len(functions) \in Nat /\ DOMAIN functions = 1..Len(functions)
  BY <1>3
<1>5. Len(functions) <= 3
  <2>1. DOMAIN functions = DOMAIN syntax[Obj].functions
    BY <1>1 DEF SymbolFacts
  <2>2. /\ syntax[Obj].functions \in Seq(FunctionsOf(syntax)) /\ Len(syntax[Obj].functions) <= 3
    BY <1>1, ProgramTyped DEF WellFormedProgram
  <2>3. Len(syntax[Obj].functions) \in Nat /\ DOMAIN syntax[Obj].functions = 1..Len(syntax[Obj].functions)
    BY <2>2
  <2> QED BY <1>4, <2>1, <2>2, <2>3
<1>6. InheritedTable(Obj) = <<>>
  BY <1>1 DEF InheritedTable, Parents, HierarchyFacts
<1>7. /\ \A n \in 1..Len(table) : \E k \in 1..Len(functions) : functions[k] = table[n]
      /\ \A n \in 1..Len(table) : symbols[table[n]].slot = n
  <2>1. \A n \in 1..Len(table) : EntryFits(Obj, n)
    BY <1>2, <1>4 DEF TableFacts
  <2>2. \A n \in 1..Len(table) : symbols[table[n]].slot = n /\ table[n] \in Own(Obj)
    BY <1>6, <2>1 DEF EntryFits
  <2>3. Own(Obj) = {functions[k] : k \in 1..Len(functions)}
    BY <1>4 DEF Own, ToSet
  <2> QED BY <2>2, <2>3
<1> SUFFICES ASSUME Len(table) > Len(functions) PROVE FALSE
  BY <1>4, <1>5
<1> DEFINE place == [n \in 1..Len(table) |-> CHOOSE k \in 1..Len(functions) : functions[k] = table[n]]
<1>8. \A n \in 1..Len(table) : place[n] \in 1..Len(functions) /\ functions[place[n]] = table[n]
  BY <1>7
<1>9. place \in [1..Len(table) -> 1..Len(functions)]
  BY <1>8
<1> HIDE DEF place
<1>10. /\ IsFiniteSet(1..Len(table)) /\ Cardinality(1..Len(table)) = Len(table)
       /\ IsFiniteSet(1..Len(functions)) /\ Cardinality(1..Len(functions)) = Len(functions)
  <2>1. ASSUME NEW N \in Nat
        PROVE  IsFiniteSet(1..N) /\ Cardinality(1..N) = N
    <3>1. 1 \in Int /\ N \in Int
      OBVIOUS
    <3>2. IsFiniteSet(1..N) /\ Cardinality(1..N) = IF 1 > N THEN 0 ELSE N - 1 + 1
      BY ONLY <3>1, FS_Interval
    <3> QED BY <3>2
  <2> QED BY <1>4, <2>1
<1>11. \E m, n \in 1..Len(table) : m # n /\ place[m] = place[n]
  <2>1. Cardinality(1..Len(functions)) < Cardinality(1..Len(table))
    BY <1>4, <1>10
  <2> QED BY ONLY <1>9, <1>10, <2>1, FS_PigeonHole
<1>12. PICK m, n \in 1..Len(table) : m # n /\ place[m] = place[n]
  BY <1>11
<1>13. table[m] = table[n]
  BY ONLY <1>8, <1>12
<1> QED BY ONLY <1>7, <1>12, <1>13

\* Object has no table for an interface.
LEMMA ObjectImplementsNothing ==
  ASSUME Accepted, Closure(Obj) = {}
  PROVE  ClassDescriptor(Obj).interfaces = <<>>
<1>1. /\ Obj \in ClassIds
  BY ProgramTyped DEF Accepted, ClassIds, IsClass
<1>2. ImplementationFacts(Obj)
  BY <1>1 DEF Accepted
<1>3. files[Obj].implementations = <<>> \/ 1 \in DOMAIN files[Obj].implementations
  BY <1>2 DEF ImplementationFacts
<1>4. DOMAIN files[Obj].implementations = {}
  BY <1>2 DEF ImplementationFacts, TableOfInterface
<1>5. DOMAIN ClassDescriptor(Obj).interfaces = {}
  BY <1>4 DEF ClassDescriptor
<1>6. ClassDescriptor(Obj).interfaces = [n \in {} |-> 0]
  BY <1>5 DEF ClassDescriptor
<1> QED BY <1>6

\* The box of a value: its payload behind the header, with its references.
LEMMA BoxStorage ==
  ASSUME Lowered, NEW i \in FileIds, ~IsClass(i), ~IsInterface(i), NEW value, value = TypeLayout(File(i)),
         NEW d, d = BoxDescriptor(i)
  PROVE  /\ syntax[i].kind \in {"struct", "enum"} /\ i # Obj
         /\ StorageFits(value) /\ value.size # 0
         /\ syntax[i].kind = "enum" => value.size = 4
         /\ d.kind = "box" /\ d.parent = Obj /\ ~d.errorRoot /\ Len(d.virtuals) = 3
         /\ d.interfaces = <<>> /\ d.align = Pointer /\ d.box = Header
         /\ d.size \in Nat /\ Header + value.size <= d.size /\ Header % value.align = 0
         /\ d.refs = Shift(value.refs, Header) /\ RefsFit(d.refs, Header, d.size, Pointer)
<1> PICK t : t = File(i)
  OBVIOUS
<1>1. /\ WellFormedProgram(syntax) /\ LayoutFacts /\ DOMAIN layouts = FileIds
      /\ \A j \in DOMAIN layouts : LayoutFits(j)
  BY DEF Lowered, Accepted, LayoutFacts
<1>2. syntax[i].kind \in {"struct", "enum"} /\ i # Obj
  BY <1>1, ProgramTyped DEF IsClass, IsInterface
<1>3. t \in TypesOf(syntax) /\ TypeKind(t) = syntax[i].kind /\ t.f = i /\ ~t.n /\ Element(t) = t
  <2>1. t \in TypesOf(syntax)
    BY <1>1, ProgramTyped DEF TypesOf, File
  <2>2. TypeKind(t) = syntax[i].kind
    BY <1>2, FileTypeKind
  <2>3. t.f = i /\ ~t.n
    BY DEF File
  <2> QED BY <1>1, <2>1, <2>2, <2>3, StructTypes
<1>4. ~IsReference(t) /\ ~IsNullableValue(t)
  BY <1>2, <1>3 DEF IsReference, IsNullableValue
<1>5. LaidOut(t)
  BY <1>1, <1>3 DEF LaidOut, InlineStruct
<1>6. StorageFits(value)
  BY <1>1, <1>3, <1>5, TypeStorage
<1>7. value.size # 0 /\ (syntax[i].kind = "enum" => value.size = 4)
  <2>1. CASE syntax[i].kind = "struct"
    <3>1. value = Storage(layouts[i].size, layouts[i].align, layouts[i].refs)
      BY <1>1, <1>3, <1>5, <2>1, TypeStorage
    <3>2. FitsFile(i, layouts[i])
      BY <1>1 DEF LayoutFits
    <3>3. layouts[i].size # 0
      BY ONLY <2>1, <3>2 DEF FitsFile
    <3> QED BY <2>1, <3>1, <3>3 DEF Storage
  <2>2. CASE syntax[i].kind = "enum"
    <3>1. value = ValueLayout(t)
      BY <1>4 DEF TypeLayout
    <3>2. value = Storage(ScalarSize("enum"), Larger(ScalarSize("enum"), 1), <<>>)
      BY <1>3, <2>2, <3>1 DEF ValueLayout
    <3>3. ScalarSize("enum") = 4
      BY DEF ScalarSize
    <3> QED BY <3>2, <3>3 DEF Storage
  <2> QED BY <1>2, <2>1, <2>2
<1>8. /\ value.size \in Nat /\ value.align \in Alignments /\ RefsFit(value.refs, 0, value.size, value.align)
  BY <1>6 DEF StorageFits
<1>9. AlignUp(Header, value.align) = Header /\ Header % value.align = 0 /\ Larger(Pointer, value.align) = Pointer
  <2>1. Header = 16 /\ Pointer \in Alignments /\ Larger(Pointer, value.align) = Pointer
    BY <1>8, AlignmentsNest
  <2>2. Header \in Nat /\ Header % value.align = 0
    BY <1>8, <2>1 DEF Alignments
  <2> QED BY <1>8, <2>1, <2>2, Aligned
<1> PICK total : total = AlignUp(Header + value.size, Pointer)
  OBVIOUS
<1>10. total \in Nat /\ Header + value.size <= total
  <2>1. Header + value.size \in Nat /\ Pointer \in Alignments
    BY <1>8, AlignmentsNest
  <2> QED BY <2>1, Aligned
<1>11. d = [kind |-> "box", parent |-> Obj, errorRoot |-> FALSE, size |-> total, align |-> Pointer,
            refs |-> Shift(value.refs, Header), virtuals |-> <<-1, -2, -3>>, box |-> Header,
            interfaces |-> <<>>]
  BY <1>9 DEF BoxDescriptor
<1>12. RefsFit(d.refs, Header, d.size, Pointer)
  <2>1. Header \in Nat /\ 0 \in Nat /\ Header % Pointer = 0 /\ Header + 0 = Header
    BY AlignmentsNest
  <2>2. RefsFit(Shift(value.refs, Header), Header, Header + value.size, value.align)
    BY <1>8, <2>1, ShiftedRefs
  <2>3. /\ Shift(value.refs, Header) \in Seq(Nat) /\ Ascending(Shift(value.refs, Header))
        /\ \A n \in DOMAIN Shift(value.refs, Header) :
             /\ Shift(value.refs, Header)[n] >= Header /\ Shift(value.refs, Header)[n] % Pointer = 0
             /\ Shift(value.refs, Header)[n] + Pointer <= Header + value.size
    BY <2>2 DEF RefsFit
  <2> PICK refs : refs = Shift(value.refs, Header)
    OBVIOUS
  <2>4. \A n \in DOMAIN refs : refs[n] \in Nat
    BY <2>3
  <2>5. \A n \in DOMAIN refs : refs[n] + Pointer <= total
    BY <1>8, <1>10, <2>1, <2>3, <2>4 DEF Pointer, Header, HeaderWords
  <2>6. RefsFit(refs, Header, total, Pointer)
    BY <2>3, <2>5 DEF RefsFit
  <2> QED BY <1>11, <2>6
<1>13. Len(d.virtuals) = 3
  BY <1>11
<1> QED BY <1>2, <1>6, <1>7, <1>9, <1>10, <1>11, <1>12, <1>13

\* The runtime accepts the box of every value, as the ABI verifier does.
LEMMA BoxesAccepted ==
  ASSUME Lowered, Closure(Obj) = {}, NEW i \in FileIds, ~IsClass(i), ~IsInterface(i)
  PROVE  ValidateTypeDescriptor(i) /\ VerifyValueBox(i)
<1> PICK d : d = BoxDescriptor(i)
  OBVIOUS
<1> PICK value : value = TypeLayout(File(i))
  OBVIOUS
<1> PICK p : p = ClassDescriptor(Obj)
  OBVIOUS
<1>1. /\ Accepted /\ WellFormedProgram(syntax) /\ LayoutFacts /\ DOMAIN layouts = FileIds
      /\ Obj \in ClassIds /\ descriptors[i] = d
      /\ descriptors[Obj] = p
  <2>1. Accepted /\ WellFormedProgram(syntax) /\ LayoutFacts /\ DOMAIN layouts = FileIds /\ descriptors[i] = d
    BY DEF Lowered, Accepted, DescriptorFacts
  <2>2. Obj \in ClassIds
    BY <2>1, ProgramTyped DEF ClassIds, IsClass
  <2> QED BY <2>1, <2>2 DEF Lowered, DescriptorFacts
<1>2. /\ syntax[i].kind \in {"struct", "enum"} /\ i # Obj
      /\ StorageFits(value) /\ value.size # 0
      /\ syntax[i].kind = "enum" => value.size = 4
      /\ d.kind = "box" /\ d.parent = Obj /\ ~d.errorRoot /\ Len(d.virtuals) = 3
      /\ d.interfaces = <<>> /\ d.align = Pointer /\ d.box = Header
      /\ d.size \in Nat /\ Header + value.size <= d.size /\ Header % value.align = 0
      /\ d.refs = Shift(value.refs, Header) /\ RefsFit(d.refs, Header, d.size, Pointer)
  BY ONLY Lowered, i \in FileIds, ~IsClass(i), ~IsInterface(i), value = TypeLayout(File(i)),
          d = BoxDescriptor(i), BoxStorage
<1>3. Header = 16 /\ Pointer = 8 /\ Pow2(Pointer) /\ Pointer \in Alignments
  BY AlignmentsNest
<1>4. value.size \in Nat /\ value.align \in Alignments /\ value.size % value.align = 0
  BY <1>2 DEF StorageFits
<1>5. /\ p.size = Header /\ p.align = Pointer /\ p.interfaces = <<>>
      /\ Len(p.virtuals) \in Nat /\ Len(p.virtuals) <= 3
  <2>1. FitsFile(Obj, layouts[Obj]) /\ layouts[Obj].align = Pointer
    BY <1>1, ClassLaidOut
  <2>2. layouts[Obj].size = Header
    BY ONLY <2>1 DEF FitsFile
  <2>3. p.size = layouts[Obj].size /\ p.align = layouts[Obj].align /\ p.virtuals = files[Obj].virtuals
    BY ClassStorage
  <2> QED BY <1>1, <2>1, <2>2, <2>3, ObjectTable, ObjectImplementsNothing
<1>6. ValidateValueLayout(i)
  <2>1. Pow2(value.align)
    BY <1>4, AlignmentsNest
  <2>2. VerifyClassLayout(layouts[i])
    BY <1>1, LayoutVerified
  <2> QED BY <1>2, <1>4, <2>1, <2>2 DEF ValidateValueLayout
<1>7. /\ Ascending(d.refs)
      /\ \A n \in DOMAIN d.refs : d.refs[n] >= Header /\ d.refs[n] % Pointer = 0 /\ d.refs[n] + Pointer <= d.size
  BY <1>2 DEF RefsFit
<1>8. Ascending([n \in DOMAIN d.interfaces |-> d.interfaces[n].id])
  <2>1. DOMAIN d.interfaces = {}
    BY <1>2
  <2>2. [n \in DOMAIN d.interfaces |-> d.interfaces[n].id] = <<>>
    BY <2>1
  <2> QED BY <2>2 DEF Ascending
<1>9. \A n \in DOMAIN p.interfaces : FALSE
  BY <1>5
<1>10. d.size >= Header + 0
  BY <1>2, <1>3, <1>4
<1>11. VerifyValueBox(i)
  <2>1. d.box >= Header
    BY <1>2, <1>3
  <2> QED BY <1>1, <1>2, <2>1 DEF VerifyValueBox
<1>12. ValidateTypeDescriptor(i)
  <2>1. /\ d.parent # i /\ d.parent = Obj /\ p.size <= d.size /\ p.align <= d.align
        /\ Len(p.virtuals) <= Len(d.virtuals)
    BY <1>2, <1>3, <1>4, <1>5
  <2>2. d.size >= Header + (IF d.errorRoot THEN Pointer ELSE 0) /\ Pow2(d.align) /\ d.align >= Pointer
    BY <1>2, <1>3, <1>10
  <2>3. (d.kind = "box" <=> d.box # 0) /\ d.box >= Header
        /\ d.box % value.align = 0 /\ d.box + value.size <= d.size
    BY <1>2, <1>3
  <2> QED BY ONLY <1>1, <1>2, <1>6, <1>7, <1>8, <1>9, <2>1, <2>2, <2>3, d = d, value = TypeLayout(File(i))
       DEF ValidateTypeDescriptor
<1> QED BY <1>11, <1>12

\* What the analysis and the layouts establish, step by step.
LoweredInv == SemaInv /\ DescriptorFacts /\ ObjectPlain /\ LayoutInv

\* It holds of every program before anything is computed.
LEMMA LoweringStarts ==
  ASSUME Init
  PROVE  LoweredInv
<1>1. SemaInv /\ phase = "relationships" /\ layouts = <<>>
  BY SemaStarts DEF Init, SemaInit
<1>2. DescriptorFacts
  BY <1>1 DEF DescriptorFacts
<1>3. ObjectPlain
  BY <1>1 DEF ObjectPlain, AfterRelationships, AfterMembers, AfterContracts, AfterClosures,
              AfterOverrides, AfterConformance, AfterDefinitions, AfterEffects
<1>4. LayoutInv
  BY <1>1 DEF LayoutInv
<1> QED BY <1>1, <1>2, <1>3, <1>4 DEF LoweredInv

\* And after every step.
LEMMA LoweringStays ==
  ASSUME LoweredInv, [Next]_vars
  PROVE  LoweredInv'
BY SemaPersists, DescriptorsStay, ObjectStaysPlain, LayoutsStay DEF LoweredInv

\* A program past its layouts has all of them, and Object implements nothing.
LEMMA LoweredPrograms ==
  ASSUME LoweredInv, phase \in {"verify", "run"}
  PROVE  Lowered /\ Closure(Obj) = {}
<1>1. Accepted /\ LayoutFacts /\ DOMAIN layouts = FileIds
  BY AcceptedPrograms DEF LoweredInv, LayoutInv
<1>2. errors = {}
  BY DEF LoweredInv, SemaInv
<1>3. phase \in AfterClosures
  BY DEF AfterClosures, AfterOverrides, AfterConformance, AfterDefinitions, AfterEffects
<1> QED BY <1>1, <1>2, <1>3 DEF LoweredInv, Lowered, ObjectPlain

\* The storage of every object, as its layout and its descriptor say.
LEMMA LayoutsSound ==
  ASSUME LoweredInv
  PROVE  LayoutSound
<1> SUFFICES ASSUME phase = "run"
             PROVE  /\ \A i \in FileIds : LET l == layouts[i] IN
                         /\ ToSet(l.refs) = ReferenceWords[i]
                         /\ \A m, n \in DOMAIN l.fields : m < n =>
                              l.fields[m].offset + TypeLayout(l.fields[m].type).size <= l.fields[n].offset
                         /\ \A m \in DOMAIN l.fields :
                              /\ l.fields[m].offset >= l.header
                              /\ l.fields[m].offset + TypeLayout(l.fields[m].type).size <= l.size
                              /\ l.fields[m].offset % TypeLayout(l.fields[m].type).align = 0
                         /\ files[i].base # 0 => \A f \in ToSet(layouts[files[i].base].fields) :
                              f \in ToSet(l.fields)
                    /\ \A i \in DOMAIN descriptors : ValidateTypeDescriptor(i)
  BY DEF LayoutSound, Linked
<1>1. Lowered /\ Closure(Obj) = {}
  BY LoweredPrograms
<1>2. /\ WellFormedProgram(syntax) /\ LayoutFacts /\ DOMAIN layouts = FileIds
      /\ DOMAIN descriptors = {i \in FileIds : ~IsInterface(i)}
  BY <1>1 DEF Lowered, Accepted, DescriptorFacts
<1>3. ASSUME NEW i \in FileIds, NEW l, l = layouts[i]
      PROVE  /\ ToSet(l.refs) = ReferenceWords[i]
             /\ \A m, n \in DOMAIN l.fields : m < n =>
                  l.fields[m].offset + TypeLayout(l.fields[m].type).size <= l.fields[n].offset
             /\ \A m \in DOMAIN l.fields :
                  /\ l.fields[m].offset >= l.header
                  /\ l.fields[m].offset + TypeLayout(l.fields[m].type).size <= l.size
                  /\ l.fields[m].offset % TypeLayout(l.fields[m].type).align = 0
             /\ files[i].base # 0 => \A f \in ToSet(layouts[files[i].base].fields) :
                  f \in ToSet(l.fields)
  <2>1. FitsFile(i, l) /\ \A j \in FileIds : FitsFile(j, layouts[j])
    BY <1>2, <1>3 DEF LayoutFacts, LayoutFits
  <2>2. \A j \in FileIds : ShapeFits(layouts[j])
    BY <2>1 DEF FitsFile
  <2>3. ToSet(l.refs) = ReferenceWords[i]
    BY <1>2, <1>3, WordsExact
  <2>4. FieldsApart(l) /\ \A m \in DOMAIN l.fields : FieldFits(l, m)
    BY <1>3, <2>2 DEF ShapeFits
  <2>5. \A m, n \in DOMAIN l.fields : m < n =>
          l.fields[m].offset + TypeLayout(l.fields[m].type).size <= l.fields[n].offset
    BY <2>4 DEF FieldsApart
  <2>6. \A m \in DOMAIN l.fields :
                  /\ l.fields[m].offset >= l.header
                  /\ l.fields[m].offset + TypeLayout(l.fields[m].type).size <= l.size
                  /\ l.fields[m].offset % TypeLayout(l.fields[m].type).align = 0
    BY <2>4 DEF FieldFits
  <2>7. ASSUME files[i].base # 0
        PROVE  \A f \in ToSet(layouts[files[i].base].fields) : f \in ToSet(l.fields)
    <3> PICK b : b = files[i].base
      OBVIOUS
    <3> PICK base : base = layouts[b].fields
      OBVIOUS
    <3>1. b \in DOMAIN layouts /\ StartsAs(l, layouts[b])
      BY <2>1, <2>7 DEF FitsFile
    <3>2. layouts[b] \in Shapes /\ l \in Shapes
      BY <1>2, <1>3, <2>2, <3>1 DEF ShapeFits
    <3>3. base \in Seq(FieldEntries) /\ l.fields \in Seq(FieldEntries)
      BY <3>2, ShapeTyped
    <3>4. IsPrefix(base, l.fields)
      BY <3>1 DEF StartsAs
    <3>5. Len(base) <= Len(l.fields) /\ \A n \in 1..Len(base) : l.fields[n] = base[n]
      BY ONLY <3>3, <3>4, PrefixFacts
    <3>6. /\ DOMAIN base = 1..Len(base) /\ DOMAIN l.fields = 1..Len(l.fields)
          /\ Len(base) \in Nat /\ Len(l.fields) \in Nat
      BY <3>3
    <3>7. ToSet(base) \subseteq ToSet(l.fields)
      BY ONLY <3>5, <3>6 DEF ToSet
    <3> QED BY <3>7
  <2> QED BY <2>3, <2>5, <2>6, <2>7
<1>4. ASSUME NEW i \in DOMAIN descriptors
      PROVE  ValidateTypeDescriptor(i)
  <2>1. i \in FileIds /\ ~IsInterface(i)
    BY <1>2
  <2>2. IsClass(i) => i \in ClassIds
    BY <2>1 DEF ClassIds
  <2> QED BY <1>1, <2>1, <2>2, ClassesAccepted, BoxesAccepted
<1> QED BY <1>3, <1>4

\* The collector scans exactly the references of every object, fields never
\* overlap, a derived object starts as its base does, and the runtime accepts
\* every descriptor: lower_to_abi lays a file out after the files it embeds,
\* and lower_file_layout puts each field behind the others.
THEOREM LayoutsAreSound == Spec => []LayoutSound
<1>1. Init => LoweredInv
  BY LoweringStarts
<1>2. LoweredInv /\ [Next]_vars => LoweredInv'
  BY LoweringStays
<1>3. LoweredInv => LayoutSound
  BY LayoutsSound
<1> QED BY <1>1, <1>2, <1>3, PTL DEF Spec

-----------------------------------------------------------------------------
(* The verifiers *)

\* Every table of a class's descriptor is one of an interface, with a public
\* function for each of its contract.
LEMMA DispatchesVerified ==
  ASSUME Accepted, NEW i \in ClassIds, descriptors[i] = ClassDescriptor(i)
  PROVE  VerifyInterfaceDispatches(i)
<1> PICK d : d = ClassDescriptor(i)
  OBVIOUS
<1> PICK s : s = files[i].implementations
  OBVIOUS
<1> PICK virtuals : virtuals = files[i].virtuals
  OBVIOUS
<1>1. /\ WellFormedProgram(syntax) /\ HierarchyFacts /\ TableFacts(i) /\ ImplementationFacts(i)
      /\ i \in FileIds
  BY DEF Accepted, ClassIds
<1>2. Ascending([n \in DOMAIN d.interfaces |-> d.interfaces[n].id])
  BY TablesAscend
<1>3. PICK ids, at : OrderedTables(i, d, ids, at)
  BY TablesOrdered
<1>4. DOMAIN d.interfaces = DOMAIN s
  BY DEF ClassDescriptor
<1>5. /\ \A n \in DOMAIN s : at[n] \in DOMAIN s /\ s[n].interface \in InterfaceIds
      /\ \A n \in DOMAIN s : d.interfaces[n].id = syntax[s[at[n]].interface].id
                             /\ d.interfaces[n].functions = s[at[n]].functions
  BY <1>3 DEF OrderedTables, SortedTable
<1>6. /\ Len(virtuals) \in Nat /\ DOMAIN virtuals = 1..Len(virtuals)
      /\ \A n \in DOMAIN virtuals : virtuals[n] \in PublicInstance
  BY <1>1, TableNames
<1>7. ASSUME NEW n \in DOMAIN d.interfaces
      PROVE  /\ \E c \in FileIds : /\ IsInterface(c) /\ syntax[c].id = d.interfaces[n].id
                                   /\ Len(files[c].contract) = Len(d.interfaces[n].functions)
             /\ \A f \in ToSet(d.interfaces[n].functions) :
                  symbols[f].kind = "function" /\ ~symbols[f].static /\ ~symbols[f].private
  <2> PICK m \in DOMAIN s : m = at[n]
    BY <1>4, <1>5, <1>7
  <2> PICK x : x = s[m].interface
    OBVIOUS
  <2> PICK contract : contract = files[x].contract
    OBVIOUS
  <2> PICK functions : functions = s[m].functions
    OBVIOUS
  <2>1. x \in FileIds /\ IsInterface(x) /\ syntax[x].id = d.interfaces[n].id /\ d.interfaces[n].functions = functions
    BY <1>4, <1>5, <1>7 DEF InterfaceIds
  <2>2. TableOfInterface(i, s[m]) /\ \A c \in ToSet(contract) : Meets(i, c)
    BY <1>1 DEF ImplementationFacts
  <2>3. /\ DOMAIN functions = DOMAIN contract
        /\ \A k \in DOMAIN functions : functions[k] = virtuals[Matching(symbols, virtuals, contract[k])]
    BY <2>2 DEF TableOfInterface
  <2>4. Len(functions) = Len(contract)
    <3>1. contract \in Seq(Nat)
      BY <1>1, <2>1 DEF HierarchyFacts, FileTyped
    <3>2. Len(contract) \in Nat /\ DOMAIN contract = 1..Len(contract)
      BY ONLY <3>1
    <3> QED BY ONLY <2>3, <3>2
  <2>5. \A f \in ToSet(functions) : f \in PublicInstance
    <3> SUFFICES ASSUME NEW k \in DOMAIN functions PROVE functions[k] \in PublicInstance
      BY DEF ToSet
    <3> PICK c : c = contract[k]
      OBVIOUS
    <3>1. Meets(i, c)
      BY <2>2, <2>3 DEF ToSet
    <3>2. Matching(symbols, virtuals, c) \in DOMAIN virtuals
      BY <1>6, <3>1, MatchingEntry DEF Meets
    <3> QED BY <1>6, <2>3, <3>2
  <2> QED BY <2>1, <2>4, <2>5 DEF PublicInstance
<1> QED BY <1>2, <1>7 DEF VerifyInterfaceDispatches

\* What lower_to_abi emits for a file is what verify_abi asks of it.
LEMMA FilesVerified ==
  ASSUME Lowered, Closure(Obj) = {}, NEW i \in FileIds
  PROVE  VerifyFile(i)
<1> PICK b : b = files[i].base
  OBVIOUS
<1>1. /\ Accepted /\ WellFormedProgram(syntax) /\ HierarchyFacts /\ LayoutFacts
      /\ i \in DOMAIN layouts
  BY DEF Lowered, Accepted
<1>2. FitsFile(i, layouts[i])
  BY <1>1 DEF LayoutFacts, LayoutFits
<1>3. VerifyClassLayout(layouts[i])
  BY <1>1, LayoutVerified
<1>4. CASE syntax[i].kind \in {"struct", "enum"}
  <2>1. ~IsClass(i) /\ ~IsInterface(i)
    BY <1>4 DEF IsClass, IsInterface
  <2>2. VerifyValueBox(i)
    BY <2>1, BoxesAccepted
  <2>3. syntax[i].kind = "enum" => layouts[i].size = 0
    BY <1>2 DEF FitsFile
  <2> QED BY <1>3, <1>4, <2>2, <2>3 DEF VerifyFile, IsInterface
<1>5. CASE IsInterface(i)
  <2>1. files[i].base = 0
    BY <1>1, <1>5 DEF HierarchyFacts, BaseFits, IsClass, IsInterface
  <2>2. layouts[i].fields = <<>>
    BY <1>2, <1>5 DEF FitsFile
  <2> QED BY <1>5, <2>1, <2>2 DEF VerifyFile, IsInterface
<1>6. CASE i \in ClassIds
  <2> PICK d : d = ClassDescriptor(i)
    OBVIOUS
  <2>1. /\ descriptors[i] = d /\ syntax[i].kind \in {"class", "error"}
        /\ layouts[i].header = Header /\ layouts[i].align = Pointer /\ layouts[i].size \in Nat
        /\ files[i].base # 0 =>
              /\ files[i].base \in ClassIds /\ files[i].base # i
              /\ syntax[files[i].base].kind = syntax[i].kind \/ files[i].base = Obj
              /\ StartsAs(layouts[i], layouts[files[i].base])
    BY <1>6, ClassLaidOut
  <2>2. /\ d.parent = b /\ d.errorRoot = (syntax[i].kind = "error" /\ b = 0)
        /\ d.size = layouts[i].size /\ d.align = layouts[i].align /\ d.refs = layouts[i].refs
        /\ d.virtuals = files[i].virtuals
    BY ClassStorage
  <2>3. VerifyTypeDescriptor(i)
    <3>1. /\ Ascending(d.refs)
          /\ \A n \in DOMAIN d.refs : /\ d.refs[n] >= layouts[i].header /\ d.refs[n] % Pointer = 0
                                      /\ d.refs[n] + Pointer <= layouts[i].size
      BY <1>1, <2>2, LayoutVerified
    <3>2. \A n \in DOMAIN d.virtuals : d.virtuals[n] \in PublicInstance /\ symbols[d.virtuals[n]].slot = n
      <4>1. TableFacts(i)
        BY <1>1, <1>6 DEF Accepted
      <4> QED BY <2>2, <4>1 DEF TableFacts, EntryFits
    <3> QED BY <2>1, <2>2, <3>1, <3>2 DEF VerifyTypeDescriptor, PublicInstance
  <2>4. VerifyInterfaceDispatches(i)
    BY <1>1, <1>6, <2>1, DispatchesVerified
  <2>5. VerifyInheritance(i)
    <3>1. CASE b = 0
      BY <2>1, <2>2, <3>1 DEF VerifyInheritance
    <3>2. CASE b # 0
      <4>1. ~d.errorRoot
        BY <2>2, <3>2
      <4>2. StartsAs(layouts[i], layouts[b])
        BY <2>1, <3>2
      <4> QED BY <2>1, <2>2, <3>2, <4>1, <4>2 DEF VerifyInheritance, StartsAs
    <3> QED BY <3>1, <3>2
  <2> QED BY <1>3, <2>1, <2>3, <2>4, <2>5 DEF VerifyFile, IsInterface
<1>7. syntax[i].kind \in {"struct", "enum"} \/ IsInterface(i) \/ i \in ClassIds
  BY <1>1, ProgramTyped DEF ClassIds, IsClass, IsInterface
<1> QED BY <1>4, <1>5, <1>6, <1>7

\* The function a call of MIR names is a symbol, and the dispatch lower_call
\* chose is the one verify_instruction expects of it.
LEMMA CallsVerified ==
  ASSUME Accepted, NEW c \in Calls
  PROVE  VerifyMirCall(c)
<1>1. PICK s \in Callables : c \in CallsOf(s)
  BY DEF Calls, Callables
<1>2. PICK st \in ToSet(Statements(s)) :
        st.op # "throw" /\ c = [by |-> s, st |-> st, callee |-> Callee(symbols[s].file, st)]
  BY <1>1 DEF CallsOf
<1>3. SymbolFacts /\ HierarchyFacts /\ \A x \in InterfaceIds : ContractFacts(x, InterfaceIds)
  BY DEF Accepted
<1> PICK f : f = c.callee
  OBVIOUS
<1> PICK receivers : receivers = IF st.op = "call" THEN Receivers(st.t)
                                 ELSE Receivers(File(symbols[s].file))
  OBVIOUS
<1>4. /\ ThroughInterface(c) =>
              /\ st.t.f \in InterfaceIds /\ st.t = File(st.t.f)
              /\ f \in ToSet(files[st.t.f].contract)
      /\ ~ThroughInterface(c) => \E a \in FileIds : f \in Own(a)
  BY <1>2, CalleeOrigin
<1>5. c.st = st
  BY <1>2
<1>6. CASE ThroughInterface(c)
  <2> PICK x : x = st.t.f
    OBVIOUS
  <2> PICK contract : contract = files[x].contract
    OBVIOUS
  <2>1. x \in FileIds /\ IsInterface(x) /\ f \in ToSet(contract)
    BY <1>4, <1>6 DEF InterfaceIds
  <2>2. contract \in Seq(Nat)
    BY <1>3, <2>1 DEF HierarchyFacts, FileTyped
  <2>3. Len(contract) \in Nat /\ DOMAIN contract = 1..Len(contract)
    BY ONLY <2>2
  <2>4. contract[IndexOf(f, contract)] = f
    BY <2>1, <2>3, IndexOfMember
  <2>5. c.st.op = "call" /\ DispatchKind(c) = "interface"
    BY <1>6 DEF ThroughInterface, DispatchKind
  <2> QED BY <1>5, <2>1, <2>4, <2>5 DEF VerifyMirCall, InterfaceSlot
<1>7. CASE ~ThroughInterface(c)
  <2>1. f \in DOMAIN symbols
    BY <1>3, <1>4, <1>7 DEF Own, SymbolFacts, FunctionRegistered, ToSet
  <2>2. symbols[f].slot # 0 => ~symbols[f].static
    BY <1>3, <2>1 DEF SymbolFacts, WellTyped
  <2>3. CASE symbols[f].slot # 0 /\ c.st.op # "super" /\ ~(SuppressSelf(c) /\ c.st.op = "self")
    <3>1. DispatchKind(c) = "virtual"
      BY <1>7, <2>3 DEF DispatchKind
    <3> QED BY <2>2, <2>3, <3>1 DEF VerifyMirCall
  <2>4. CASE ~(symbols[f].slot # 0 /\ c.st.op # "super" /\ ~(SuppressSelf(c) /\ c.st.op = "self"))
    <3>1. DispatchKind(c) = "direct"
      BY <1>7, <2>4 DEF DispatchKind
    <3> QED BY <2>4, <3>1 DEF VerifyMirCall
  <2> QED BY <2>3, <2>4
<1> QED BY <1>6, <1>7

\* The calls of a program are those of its text.
LEMMA CallsKept ==
  ASSUME UNCHANGED <<syntax, files, symbols>>
  PROVE  Calls' = Calls
BY DEF Calls, CallsOf, Callee, MemberOf, FindMember, Chain, Bases, MemberNamed, OneOf, ContractNamed,
       HasMembers, TypeKind, Statements, FieldStatements, FileIds

\* The verifiers stop a program that was accepted and laid out only over a
\* call of a merged contract, which has no declaration of its own.
LEMMA VerifiersAgree ==
  ASSUME LoweredInv, LoweringVerifies, [Next]_vars
  PROVE  LoweringVerifies'
<1> DEFINE Undeclared == \E c \in Calls : ~symbols[c.callee].declared
           Failed == phase = "internal error"
<1>0. LoweringVerifies <=> (Failed => Undeclared)
  BY DEF LoweringVerifies
<1>1. ASSUME UNCHANGED <<syntax, files, symbols>>, Failed' => Failed \/ Undeclared
      PROVE  LoweringVerifies'
  <2>1. Calls' = Calls
    BY <1>1, CallsKept
  <2>2. Undeclared' <=> Undeclared
    BY ONLY <1>1, <2>1
  <2>3. Failed' => Undeclared'
    BY <1>0, <1>1, <2>2
  <2> QED BY ONLY <2>3, Zenon DEF LoweringVerifies, Failed, Undeclared
<1>2. CASE SemaNext /\ UNCHANGED <<abiVars, runVars>>
  <2>1. phase' \in Analysing \cup {"abi", "rejected"}
    BY <1>2, AnalysisPhases
  <2>2. ~Failed'
    BY ONLY <2>1, Zenon DEF Failed, Analysing
  <2> QED BY ONLY <2>2, Zenon DEF LoweringVerifies, Failed
<1>3. CASE AbiNext /\ UNCHANGED runVars
  <2>1. CASE LowerFileLayout
    <3>1. UNCHANGED <<syntax, files, symbols>> /\ (phase' = phase \/ phase' = "rejected")
      BY <2>1 DEF LowerFileLayout
    <3>2. Failed' => Failed
      BY ONLY <3>1, Zenon DEF Failed
    <3> QED BY <1>1, <3>1, <3>2
  <2>2. CASE LayoutCycle
    <3>1. UNCHANGED <<syntax, files, symbols>> /\ phase' = "rejected"
      BY ONLY <2>2, Zenon DEF LayoutCycle
    <3>2. ~Failed'
      BY ONLY <3>1, Zenon DEF Failed
    <3> QED BY <1>1, <3>1, <3>2
  <2>3. CASE EmitDescriptors
    <3>1. UNCHANGED <<syntax, files, symbols>> /\ phase' = "verify"
      BY ONLY <2>3, Zenon DEF EmitDescriptors
    <3>2. ~Failed'
      BY ONLY <3>1, Zenon DEF Failed
    <3> QED BY <1>1, <3>1, <3>2
  <2>4. CASE VerifyAbi
    <3>1. phase = "verify" /\ UNCHANGED <<syntax, files, symbols>>
      BY ONLY <2>4, Zenon DEF VerifyAbi
    <3>2. Lowered /\ Closure(Obj) = {}
      BY <3>1, LoweredPrograms
    <3>3. Accepted
      BY <3>2 DEF Lowered
    <3>4. \A i \in FileIds : VerifyFile(i)
      BY <3>2, FilesVerified
    <3>5. \A c \in Calls : VerifyMirCall(c)
      BY <3>3, CallsVerified
    <3>6. Undeclared \/ \A c \in Calls : VerifyMirCall(c) /\ VerifyAbiCall(c)
      BY <3>5 DEF VerifyAbiCall
    <3>7. ASSUME ~Undeclared PROVE phase' = "run"
      <4>1. (\A i \in FileIds : VerifyFile(i)) /\ \A c \in Calls : VerifyMirCall(c) /\ VerifyAbiCall(c)
        BY <3>4, <3>6, <3>7
      <4> QED BY ONLY <2>4, <4>1, Zenon DEF VerifyAbi
    <3>8. Failed' => Undeclared
      <4>1. phase' = "run" => ~Failed'
        BY ONLY Zenon DEF Failed
      <4> QED BY <3>7, <4>1
    <3> QED BY <1>1, <3>1, <3>8
  <2> QED BY <1>3, <2>1, <2>2, <2>3, <2>4 DEF AbiNext
<1>4. CASE New \/ RunBaseConstructor \/ InitializeFields \/ RunStatement \/ Return \/ UNCHANGED vars
  <2>1. UNCHANGED semaVars
    BY <1>4 DEF New, RunBaseConstructor, InitializeFields, RunStatement, Return, vars
  <2>2. UNCHANGED <<syntax, files, symbols>> /\ phase' = phase
    BY <2>1 DEF semaVars
  <2>3. Failed' => Failed
    BY <2>2 DEF Failed
  <2> QED BY <1>1, <2>2, <2>3
<1> QED BY <1>2, <1>3, <1>4 DEF Next

\* A program the analyzer and the layouts accept passes the MIR and the ABI
\* verifier, unless it calls a function through a contract merged from two
\* interfaces: every file's layout and descriptor is what verify_abi expects,
\* and every call's dispatch what verify_instruction expects.
THEOREM LoweringIsVerified == Spec => []LoweringVerifies
<1>1. Init => LoweredInv /\ LoweringVerifies
  <2> SUFFICES ASSUME Init PROVE LoweredInv /\ LoweringVerifies
    OBVIOUS
  <2>1. phase = "relationships"
    BY DEF Init, SemaInit
  <2>2. LoweringVerifies
    BY ONLY <2>1, Zenon DEF LoweringVerifies
  <2> QED BY <2>2, LoweringStarts
<1>2. LoweredInv /\ LoweringVerifies /\ [Next]_vars => (LoweredInv /\ LoweringVerifies)'
  BY LoweringStays, VerifiersAgree
<1> QED BY <1>1, <1>2, PTL DEF Spec

=============================================================================
