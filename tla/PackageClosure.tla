--------------------------- MODULE PackageClosure ---------------------------
(***************************************************************************)
(* validate_closure of src/compiler/package_pipeline.cc: before a package  *)
(* is compiled against, reused with or linked from artifacts, the supplied *)
(* artifacts must be exactly the dependency closure of the requested roots *)
(* with every recorded pin (package identity and artifact digest)          *)
(* satisfied, and must not depend on each other in a circle.  The first    *)
(* loop is a worklist over the packages, the second one Kahn's algorithm,  *)
(* which validate_acyclic of shuttle_protocol.cc repeats on the dependency *)
(* records of a protocol 1 request.                                        *)
(*                                                                         *)
(* The worklist is a set here: the order in which the code takes packages  *)
(* from its stack, and the name order of its ready set, are arbitrary.     *)
(* Circles are among the inputs although artifact digests cannot form one: *)
(* the dependency records of a protocol 1 request can.                     *)
(***************************************************************************)
EXTENDS Integers, FiniteSets

CONSTANTS
    Package,    \* package names
    Pin,        \* package identity and digest, as one value
    PinOf       \* the pin of the artifact supplied for a package

ASSUME PackageAssumption == IsFiniteSet(Package)
ASSUME PinAssumption == PinOf \in [Package -> Pin]

VARIABLES
    supplied,   \* packages with an artifact in the request
    depends,    \* the dependency records of every artifact: package |-> pin
    roots,      \* closure_roots of the request
    viewsAgree, \* what verify_imported_package_closure says of the closure
    phase,      \* "walk", "degrees", "sort" or "done"
    pending, reachable,                 \* first loop
    indegree, ready, visited,           \* second loop
    verdict     \* the result, "none" while the check runs

inputs == <<supplied, depends, roots, viewsAgree>>
vars == <<inputs, phase, pending, reachable, indegree, ready, visited, verdict>>

Verdict == {"none", "missing", "edge", "unreachable", "cycle", "views", "ok"}

\* The dependency records of one artifact: the reader of artifacts accepts
\* one record for each package and none for the package itself.
DependencyRecords(p) == UNION {[D -> Pin] : D \in SUBSET (Package \ {p})}

DependenciesOf(p) == DOMAIN depends[p]

TypeOK ==
    /\ supplied \subseteq Package
    /\ DOMAIN depends = supplied
    /\ \A p \in supplied : depends[p] \in DependencyRecords(p)
    /\ roots \subseteq Package
    /\ viewsAgree \in BOOLEAN
    /\ phase \in {"walk", "degrees", "sort", "done"}
    /\ pending \subseteq Package
    /\ reachable \subseteq Package
    /\ indegree \in [supplied -> Nat]
    /\ ready \subseteq supplied
    /\ visited \in Nat
    /\ verdict \in Verdict
    /\ (verdict = "none") <=> (phase # "done")

Init ==
    /\ supplied \in SUBSET Package
    /\ depends \in [supplied -> UNION {DependencyRecords(p) : p \in supplied}]
    /\ \A p \in supplied : depends[p] \in DependencyRecords(p)
    /\ roots \in SUBSET Package
    /\ viewsAgree \in BOOLEAN
    /\ phase = "walk"
    /\ pending = roots
    /\ reachable = {}
    /\ indegree = [p \in supplied |-> 0]
    /\ ready = {}
    /\ visited = 0
    /\ verdict = "none"

Finish(result) ==
    /\ verdict' = result
    /\ phase' = "done"

\* Any artifact with the right name will do: a plausible slip.
EdgePresent(p, d) == d \in supplied

\* target->second->input.package and .digest are those of the record.
EdgeSatisfied(p, d) == d \in supplied /\ PinOf[d] = depends[p][d]

\* The first loop without its test for packages it has seen.
WalkAgain(p) ==
    /\ phase = "walk"
    /\ p \in pending
    /\ p \in supplied
    /\ \A d \in DependenciesOf(p) : EdgeSatisfied(p, d)
    /\ reachable' = reachable \cup {p}
    /\ pending' = (pending \ {p}) \cup DependenciesOf(p)
    /\ UNCHANGED <<inputs, phase, indegree, ready, visited, verdict>>

\* One turn of the first loop.
Walk(p) ==
    /\ phase = "walk"
    /\ p \in pending
    /\ UNCHANGED <<inputs, indegree, ready, visited>>
    /\ \/ /\ p \in reachable
          /\ pending' = pending \ {p}
          /\ UNCHANGED <<reachable, phase, verdict>>
       \/ /\ p \notin reachable
          /\ reachable' = reachable \cup {p}
          /\ \/ /\ p \notin supplied
                /\ Finish("missing")
                /\ UNCHANGED pending
             \/ /\ p \in supplied
                /\ \E d \in DependenciesOf(p) : ~EdgeSatisfied(p, d)
                /\ Finish("edge")
                /\ UNCHANGED pending
             \/ /\ p \in supplied
                /\ \A d \in DependenciesOf(p) : EdgeSatisfied(p, d)
                /\ pending' = (pending \ {p}) \cup DependenciesOf(p)
                /\ UNCHANGED <<phase, verdict>>

\* The worklist is empty: every supplied package must have been reached.
Walked ==
    /\ phase = "walk"
    /\ pending = {}
    /\ \/ /\ Cardinality(reachable) # Cardinality(supplied)
          /\ Finish("unreachable")
       \/ /\ Cardinality(reachable) = Cardinality(supplied)
          /\ phase' = "degrees"
          /\ UNCHANGED verdict
    /\ UNCHANGED <<inputs, pending, reachable, indegree, ready, visited>>

\* indegrees, dependents and the packages that depend on nothing.
CountDegrees ==
    /\ phase = "degrees"
    /\ indegree' = [p \in supplied |-> Cardinality(DependenciesOf(p))]
    /\ ready' = {p \in supplied : DependenciesOf(p) = {}}
    /\ phase' = "sort"
    /\ UNCHANGED <<inputs, pending, reachable, visited, verdict>>

Dependents(p) == {q \in supplied : p \in DependenciesOf(q)}

\* One turn of Kahn's loop: a dependent is ready when its last dependency is
\* taken.
Take(p) ==
    /\ phase = "sort"
    /\ p \in ready
    /\ visited' = visited + 1
    /\ indegree' = [q \in supplied |->
                       IF q \in Dependents(p) THEN indegree[q] - 1 ELSE indegree[q]]
    /\ ready' = (ready \ {p}) \cup {q \in Dependents(p) : indegree'[q] = 0}
    /\ UNCHANGED <<inputs, phase, pending, reachable, verdict>>

Sorted ==
    /\ phase = "sort"
    /\ ready = {}
    /\ Finish(IF visited # Cardinality(supplied) THEN "cycle"
              ELSE IF viewsAgree THEN "ok" ELSE "views")
    /\ UNCHANGED <<inputs, pending, reachable, indegree, ready, visited>>

Next ==
    \/ \E p \in Package : Walk(p) \/ Take(p)
    \/ Walked \/ CountDegrees \/ Sorted

Spec == Init /\ [][Next]_vars

\* The loops are ordinary code of one thread: they run until they return.
FairSpec == Spec /\ WF_vars(Next)

-----------------------------------------------------------------------------
(***************************************************************************)
(* What a correct closure is, without an algorithm.                        *)
(***************************************************************************)

\* S contains what its members depend on.
ClosedUnderDependency(S) ==
    \A p \in S \cap supplied : DependenciesOf(p) \subseteq S

\* The packages the roots reach: the least closed set around them.
Reachable ==
    {p \in Package : \A S \in SUBSET Package :
        (roots \subseteq S /\ ClosedUnderDependency(S)) => p \in S}

PinsSatisfied ==
    \A p \in supplied : \A d \in DependenciesOf(p) : EdgeSatisfied(p, d)

\* Some packages depend on each other in a circle.
Circular ==
    \E S \in SUBSET supplied :
        S # {} /\ \A p \in S : DependenciesOf(p) \cap S # {}

ClosureValid ==
    /\ Reachable = supplied
    /\ \A p \in supplied : \A d \in DependenciesOf(p) : PinOf[d] = depends[p][d]
    /\ ~Circular
    /\ viewsAgree

\* The check accepts exactly the valid closures: no missing or extra package,
\* no unsatisfied pin and no circle passes, and nothing valid is refused
\* (validate_closure's returns).
VerdictExact ==
    phase = "done" => (verdict = "ok" <=> ClosureValid)

\* Both loops end, on circles too (the while loops of validate_closure).
CheckEnds == <>(phase = "done")
=============================================================================
