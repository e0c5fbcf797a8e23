------------------------ MODULE PackageClosureProofs ------------------------
(***************************************************************************)
(* Proof that validate_closure accepts exactly the valid closures, for     *)
(* every finite set of packages and every request over it.                 *)
(***************************************************************************)
EXTENDS PackageClosure, FiniteSetTheorems, TLAPS

-----------------------------------------------------------------------------
(* The inductive invariant.                                                *)

\* The request, which no step changes.
RequestOk ==
    /\ supplied \subseteq Package
    /\ \A p \in supplied : DependenciesOf(p) \subseteq Package
    /\ roots \subseteq Package

\* The first loop: what is taken or waiting is reachable, and what is taken
\* is supplied, has its pins satisfied and its dependencies on the way.
WalkOk ==
    /\ roots \subseteq reachable \cup pending
    /\ reachable \cup pending \subseteq Reachable
    /\ reachable \subseteq supplied
    /\ \A p \in reachable : \A d \in DependenciesOf(p) :
           EdgeSatisfied(p, d) /\ d \in reachable \cup pending

\* Between the loops: the supplied packages are the closure, with their pins.
ClosureOk == Reachable = supplied /\ PinsSatisfied

\* Packages among which each depends on another one of them.
Circle(S) == \A p \in S : DependenciesOf(p) \cap S # {}

\* The second loop, when the packages of T have been taken: they are in no
\* circle, and a package is taken or ready when its dependencies are taken.
TakenOk(T) ==
    /\ visited = Cardinality(T)
    /\ ready \subseteq supplied \ T
    /\ DOMAIN indegree = supplied
    /\ \A q \in supplied : indegree[q] = Cardinality(DependenciesOf(q) \ T)
    /\ \A q \in supplied : q \in T \cup ready <=> DependenciesOf(q) \subseteq T
    /\ \A S \in SUBSET supplied : Circle(S) => S \cap T = {}

ClosureInv ==
    /\ RequestOk
    /\ phase \in {"walk", "degrees", "sort", "done"}
    /\ phase \in {"walk", "degrees"} => visited = 0
    /\ phase = "walk" => WalkOk
    /\ phase \in {"degrees", "sort"} => ClosureOk
    /\ phase = "sort" => \E T \in SUBSET supplied : TakenOk(T)
    /\ VerdictExact

-----------------------------------------------------------------------------
(* Facts about the request.                                                *)

LEMMA FiniteParts ==
  ASSUME RequestOk
  PROVE  /\ IsFiniteSet(supplied)
         /\ \A p \in supplied : IsFiniteSet(DependenciesOf(p))
BY PackageAssumption, FS_Subset DEF RequestOk

\* The reachable packages are closed.
LEMMA ReachableClosed ==
  ASSUME RequestOk, NEW p \in Reachable, p \in supplied, NEW d \in DependenciesOf(p)
  PROVE  d \in Reachable
<1>1. d \in Package
  BY DEF RequestOk
<1>2. ASSUME NEW S \in SUBSET Package, roots \subseteq S, ClosedUnderDependency(S)
      PROVE  d \in S
  BY <1>2 DEF Reachable, ClosedUnderDependency
<1> QED BY <1>1, <1>2 DEF Reachable

LEMMA RootsReachable ==
  ASSUME RequestOk
  PROVE  roots \subseteq Reachable
BY DEF RequestOk, Reachable

\* A step keeps what is said of the request.
LEMMA SameRequest ==
  ASSUME UNCHANGED inputs
  PROVE  /\ RequestOk => RequestOk'
         /\ Reachable' = Reachable
         /\ PinsSatisfied' <=> PinsSatisfied
         /\ Circular' <=> Circular
         /\ ClosureValid' <=> ClosureValid
         /\ ClosureOk' <=> ClosureOk
BY DEF inputs, RequestOk, Reachable, ClosedUnderDependency, PinsSatisfied, EdgeSatisfied,
       Circular, ClosureValid, ClosureOk, DependenciesOf

-----------------------------------------------------------------------------
(* The first loop.                                                         *)

LEMMA InitInv == Init => ClosureInv
<1> SUFFICES ASSUME Init PROVE ClosureInv
  OBVIOUS
<1>1. RequestOk
  BY DEF Init, RequestOk, DependenciesOf, DependencyRecords
<1>2. WalkOk
  BY <1>1, RootsReachable DEF Init, WalkOk
<1> QED BY <1>1, <1>2 DEF Init, ClosureInv, VerdictExact

LEMMA WalkInv ==
  ASSUME ClosureInv, NEW p \in Package, Walk(p)
  PROVE  ClosureInv'
<1>1. /\ RequestOk /\ WalkOk /\ phase = "walk" /\ p \in pending /\ p \in Reachable
      /\ visited' = 0 /\ UNCHANGED <<supplied, depends, roots, viewsAgree>>
  BY DEF ClosureInv, Walk, WalkOk, inputs
<1>2. UNCHANGED inputs
  BY <1>1 DEF inputs
<1>3. CASE p \in reachable /\ pending' = pending \ {p} /\ UNCHANGED <<reachable, phase, verdict>>
  <2>1. WalkOk'
    BY <1>1, <1>2, <1>3, SameRequest DEF WalkOk, EdgeSatisfied, DependenciesOf
  <2> QED BY <1>1, <1>2, <1>3, <2>1, SameRequest DEF ClosureInv, VerdictExact
<1>4. CASE p \notin supplied /\ Finish("missing")
  <2>1. ~ClosureValid
    BY <1>1, <1>4 DEF ClosureValid
  <2> QED BY <1>1, <1>2, <1>4, <2>1, SameRequest DEF ClosureInv, VerdictExact, Finish
<1>5. CASE /\ p \in supplied /\ Finish("edge")
           /\ \E d \in DependenciesOf(p) : ~EdgeSatisfied(p, d)
  <2>1. PICK d \in DependenciesOf(p) : ~EdgeSatisfied(p, d)
    BY <1>5
  <2>2. d \in Reachable
    BY <1>1, <1>5, ReachableClosed
  <2>3. ~ClosureValid
    BY <1>5, <2>1, <2>2 DEF ClosureValid, EdgeSatisfied
  <2> QED BY <1>1, <1>2, <1>5, <2>3, SameRequest DEF ClosureInv, VerdictExact, Finish
<1>6. CASE /\ p \in supplied /\ \A d \in DependenciesOf(p) : EdgeSatisfied(p, d)
           /\ reachable' = reachable \cup {p}
           /\ pending' = (pending \ {p}) \cup DependenciesOf(p)
           /\ UNCHANGED <<phase, verdict>>
  <2>1. DependenciesOf(p) \subseteq Reachable
    BY <1>1, <1>6, ReachableClosed
  <2>2. reachable' \cup pending' = reachable \cup pending \cup DependenciesOf(p)
    BY <1>1, <1>6
  <2>3. \A q, d : EdgeSatisfied(q, d)' <=> EdgeSatisfied(q, d)
    BY <1>1 DEF EdgeSatisfied
  <2>4. \A q : DependenciesOf(q)' = DependenciesOf(q)
    BY <1>1 DEF DependenciesOf
  <2>5. WalkOk'
    BY <1>1, <1>2, <1>6, <2>1, <2>2, <2>3, <2>4, SameRequest DEF WalkOk
  <2> QED BY <1>1, <1>2, <1>6, <2>5, SameRequest DEF ClosureInv, VerdictExact
<1> QED BY <1>3, <1>4, <1>5, <1>6 DEF Walk

\* When the worklist is empty the walk has found exactly the closure.
LEMMA WalkedInv ==
  ASSUME ClosureInv, Walked
  PROVE  ClosureInv'
<1>1. /\ RequestOk /\ WalkOk /\ phase = "walk" /\ pending = {} /\ visited' = 0
      /\ UNCHANGED inputs
  BY DEF ClosureInv, Walked
<1>2. Reachable = reachable
  <2>1. reachable \in SUBSET Package /\ roots \subseteq reachable
    BY <1>1 DEF WalkOk, RequestOk
  <2>2. ClosedUnderDependency(reachable)
    BY <1>1 DEF WalkOk, ClosedUnderDependency
  <2>3. Reachable \subseteq reachable
    BY <2>1, <2>2 DEF Reachable
  <2> QED BY <1>1, <2>3 DEF WalkOk
<1>3. reachable \subseteq supplied /\ IsFiniteSet(supplied)
  BY <1>1, FiniteParts DEF WalkOk
<1>4. CASE Cardinality(reachable) # Cardinality(supplied) /\ Finish("unreachable")
  <2>1. ~ClosureValid
    BY <1>2, <1>4 DEF ClosureValid
  <2> QED BY <1>1, <1>4, <2>1, SameRequest DEF ClosureInv, VerdictExact, Finish
<1>5. CASE /\ Cardinality(reachable) = Cardinality(supplied)
           /\ phase' = "degrees" /\ UNCHANGED verdict
  <2>1. reachable = supplied
    BY <1>3, <1>5, FS_Subset
  <2>2. ClosureOk
    BY <1>1, <1>2, <2>1 DEF ClosureOk, WalkOk, PinsSatisfied
  <2> QED BY <1>1, <1>5, <2>2, SameRequest DEF ClosureInv, VerdictExact
<1> QED BY <1>4, <1>5 DEF Walked

-----------------------------------------------------------------------------
(* The second loop.                                                        *)

LEMMA CountDegreesInv ==
  ASSUME ClosureInv, CountDegrees
  PROVE  ClosureInv'
<1>1. /\ RequestOk /\ ClosureOk /\ phase = "degrees" /\ visited' = 0 /\ phase' = "sort"
      /\ UNCHANGED inputs
      /\ indegree' = [p \in supplied |-> Cardinality(DependenciesOf(p))]
      /\ ready' = {p \in supplied : DependenciesOf(p) = {}}
  BY DEF ClosureInv, CountDegrees
<1>2. supplied' = supplied /\ \A q : DependenciesOf(q)' = DependenciesOf(q)
  BY <1>1 DEF inputs, DependenciesOf
<1>3. TakenOk({})'
  BY <1>1, <1>2, FS_EmptySet DEF TakenOk
<1>4. \E T \in SUBSET supplied' : TakenOk(T)'
  BY <1>3
<1> QED BY <1>1, <1>4, SameRequest DEF ClosureInv, VerdictExact

LEMMA TakeInv ==
  ASSUME ClosureInv, NEW p \in Package, Take(p)
  PROVE  ClosureInv'
<1>1. /\ RequestOk /\ ClosureOk /\ phase = "sort" /\ phase' = "sort" /\ UNCHANGED inputs
      /\ p \in ready /\ visited' = visited + 1
  BY DEF ClosureInv, Take
<1>2. supplied' = supplied /\ \A q : DependenciesOf(q)' = DependenciesOf(q)
  BY <1>1 DEF inputs, DependenciesOf
<1>3. PICK T \in SUBSET supplied : TakenOk(T)
  BY <1>1 DEF ClosureInv
<1> DEFINE U == T \cup {p}
<1>4. /\ p \in supplied /\ p \notin T /\ DependenciesOf(p) \subseteq T
      /\ IsFiniteSet(T)
  BY <1>1, <1>3, FiniteParts, FS_Subset DEF TakenOk
<1>5. visited' = Cardinality(U)
  BY <1>1, <1>3, <1>4, FS_AddElement DEF TakenOk
<1>6. /\ DOMAIN indegree' = supplied
      /\ \A q \in supplied : indegree'[q] = Cardinality(DependenciesOf(q) \ U)
  <2>1. DOMAIN indegree' = supplied
    BY DEF Take
  <2>2. ASSUME NEW q \in supplied
        PROVE  indegree'[q] = Cardinality(DependenciesOf(q) \ U)
    <3>1. IsFiniteSet(DependenciesOf(q) \ T)
      BY <1>1, FiniteParts, FS_Subset
    <3>2. indegree[q] = Cardinality(DependenciesOf(q) \ T)
      BY <1>3 DEF TakenOk
    <3>3. CASE p \in DependenciesOf(q)
      <4>1. indegree'[q] = indegree[q] - 1
        BY <3>3 DEF Take, Dependents
      <4>2. DependenciesOf(q) \ U = (DependenciesOf(q) \ T) \ {p}
        OBVIOUS
      <4>3. p \in DependenciesOf(q) \ T
        BY <1>4, <3>3
      <4>4. Cardinality(DependenciesOf(q) \ U) = Cardinality(DependenciesOf(q) \ T) - 1
        BY <3>1, <4>2, <4>3, FS_RemoveElement
      <4> HIDE DEF U
      <4> QED BY <3>2, <4>1, <4>4
    <3>4. CASE p \notin DependenciesOf(q)
      <4>1. indegree'[q] = indegree[q]
        BY <3>4 DEF Take, Dependents
      <4>2. DependenciesOf(q) \ U = DependenciesOf(q) \ T
        BY <3>4
      <4> QED BY <3>2, <4>1, <4>2
    <3> QED BY <3>3, <3>4
  <2> QED BY <2>1, <2>2
<1>7. \A q \in supplied : indegree'[q] = 0 <=> DependenciesOf(q) \subseteq U
  <2> SUFFICES ASSUME NEW q \in supplied
               PROVE  indegree'[q] = 0 <=> DependenciesOf(q) \ U = {}
    OBVIOUS
  <2>1. IsFiniteSet(DependenciesOf(q) \ U)
    BY <1>1, FiniteParts, FS_Subset
  <2> QED BY <1>6, <2>1, FS_EmptySet
<1>8. ready' = (ready \ {p}) \cup {q \in supplied :
                  p \in DependenciesOf(q) /\ DependenciesOf(q) \subseteq U}
  BY <1>7 DEF Take, Dependents
<1>9. ready' \subseteq supplied \ U
  BY <1>3, <1>4, <1>8 DEF TakenOk
<1>10. \A q \in supplied : q \in U \cup ready' <=> DependenciesOf(q) \subseteq U
  BY <1>3, <1>4, <1>8 DEF TakenOk
<1>11. \A S \in SUBSET supplied : Circle(S) => S \cap U = {}
  BY <1>3, <1>4 DEF TakenOk, Circle
<1>12. \A S : Circle(S)' <=> Circle(S)
  BY <1>2 DEF Circle
<1>13. U \in SUBSET supplied' /\ TakenOk(U)'
  BY <1>2, <1>3, <1>4, <1>5, <1>6, <1>9, <1>10, <1>11, <1>12 DEF TakenOk
<1>14. \E V \in SUBSET supplied' : TakenOk(V)'
  BY <1>13
<1> QED BY <1>1, <1>14, SameRequest DEF ClosureInv, VerdictExact

\* Nothing is ready: what was not taken is a circle.
LEMMA SortedInv ==
  ASSUME ClosureInv, Sorted
  PROVE  ClosureInv'
<1>1. /\ RequestOk /\ ClosureOk /\ phase = "sort" /\ phase' = "done" /\ UNCHANGED inputs
      /\ ready = {}
      /\ verdict' = IF visited # Cardinality(supplied) THEN "cycle"
                    ELSE IF viewsAgree THEN "ok" ELSE "views"
  BY DEF ClosureInv, Sorted, Finish
<1>2. PICK T \in SUBSET supplied : TakenOk(T)
  BY <1>1 DEF ClosureInv
<1>3. IsFiniteSet(supplied)
  BY <1>1, FiniteParts
<1>4. Circular <=> T # supplied
  <2>1. ASSUME T = supplied PROVE ~Circular
    BY <1>2, <2>1 DEF TakenOk, Circle, Circular
  <2>2. ASSUME T # supplied PROVE Circular
    <3> DEFINE S == supplied \ T
    <3>1. S \in SUBSET supplied /\ S # {}
      BY <2>2
    <3>2. ASSUME NEW q \in S PROVE DependenciesOf(q) \cap S # {}
      <4>1. ~(DependenciesOf(q) \subseteq T)
        BY <1>1, <1>2 DEF TakenOk
      <4>2. DependenciesOf(q) \subseteq supplied
        BY <1>1 DEF ClosureOk, PinsSatisfied, EdgeSatisfied
      <4> QED BY <4>1, <4>2
    <3> QED BY <3>1, <3>2 DEF Circular
  <2> QED BY <2>1, <2>2
<1>5. visited = Cardinality(supplied) <=> T = supplied
  BY <1>2, <1>3, FS_Subset DEF TakenOk
<1>6. \A p \in supplied : \A d \in DependenciesOf(p) : PinOf[d] = depends[p][d]
  BY <1>1 DEF ClosureOk, PinsSatisfied, EdgeSatisfied
<1>7. verdict' = "ok" <=> ClosureValid
  BY <1>1, <1>4, <1>5, <1>6 DEF ClosureValid, ClosureOk
<1> QED BY <1>1, <1>7, SameRequest DEF ClosureInv, VerdictExact

-----------------------------------------------------------------------------

LEMMA NextInv == ClosureInv /\ [Next]_vars => ClosureInv'
<1> SUFFICES ASSUME ClosureInv, [Next]_vars PROVE ClosureInv'
  OBVIOUS
<1>1. CASE UNCHANGED vars
  <2>1. /\ UNCHANGED <<phase, pending, reachable, indegree, ready, visited, verdict>>
        /\ UNCHANGED inputs
    BY <1>1 DEF vars
  <2>2. WalkOk' <=> WalkOk
    BY <2>1, SameRequest DEF inputs, WalkOk, EdgeSatisfied, DependenciesOf
  <2>3. \A T : TakenOk(T)' <=> TakenOk(T)
    BY <2>1 DEF inputs, TakenOk, Circle, DependenciesOf
  <2>4. supplied' = supplied
    BY <2>1 DEF inputs
  <2> QED BY <2>1, <2>2, <2>3, <2>4, SameRequest DEF ClosureInv, VerdictExact
<1> QED BY <1>1, WalkInv, WalkedInv, CountDegreesInv, TakeInv, SortedInv DEF Next

\* The verdict of the package check is right for every finite set of packages
\* and every request: "ok" exactly for the valid closures (validate_closure).
THEOREM VerdictIsExact == Spec => []VerdictExact
<1>1. Init => ClosureInv
  BY InitInv
<1>2. ClosureInv /\ [Next]_vars => ClosureInv'
  BY NextInv
<1>3. ClosureInv => VerdictExact
  BY DEF ClosureInv
<1> QED BY <1>1, <1>2, <1>3, PTL DEF Spec
=============================================================================
