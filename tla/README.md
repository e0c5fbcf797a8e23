# TLA+ verification of clothc and its runtime

`clothc` compiles Cloth packages to LLVM IR and native code, and links them
with a native runtime that has a precise, non-moving, stop-the-world garbage
collector. The compiler and the runtime are single-threaded. What is hard about
them is not parallel code but

* the order of steps inside one runtime call (a collection may run between two
  of them, at any allocation);
* the agreement between two programs that never run together: the compiler
  decides which slots hold live references, the collector believes it;
* several compiler *processes* that read and replace files in one directory
  while sources are edited and processes are killed;
* one question answered several times: whether a statement can be reached, a
  field is assigned or a local is non-null is decided on the syntax tree, and
  again on the control-flow graph that is verified and run;
* the same question answered by two pieces of code far apart: what a type test
  answers at run time and what assignability promised, what an expression folds
  to and what it computes, what an artifact says and what the importing
  compilation believes;
* graph algorithms over data that is not under the program's control
  (dependency records, control-flow graphs, constants that refer to each other).

The modules here follow that list. Paths below are relative to the repository;
`PROJECT.json` maps every definition to the lines it models.

## 1. Inventory

| Component | State | Operations | What makes it correct |
|---|---|---|---|
| Managed heap and collector (`runtime/runtime.cc`) | allocation registry, mark bits, worklist, root frame chain, statistics, threshold, identity counter | allocation of objects, boxes, strings, arrays, errors; `cloth_gc_collect`; frame push/pop; native helpers that allocate several objects | nothing reachable is freed, everything unreachable is; statistics agree with the registry; operands survive the safepoint inside a call |
| Allocation index (`runtime/runtime.cc`) | open-addressing table over the registry | register, find, rebuild after a sweep | find is exact; probes end |
| Runtime descriptors, strings, parsing, console and file input | descriptors written by the compiler; buffers | validation, concatenation, cursor traversal, parsing, line and file reading | descriptors that validate cannot make the collector read outside an object |
| LLVM back end: GC roots (`src/backend/llvm_ir.cc`) | liveness sets, root slot numbering | liveness analysis, emission of slot stores and clears | a live reference is in a slot at every safepoint; a dead one is not |
| LLVM back end: instruction selection | LLVM blocks, labels, phi entries | one case per MIR instruction and terminator | the written graph is the MIR graph; every phi names its predecessors |
| Native toolchain driver (`src/backend/native_toolchain.cc`) | temporary files | find tools, run llc and the linker, publish | a failed build leaves the old output |
| Compilation pipeline, `main.cc` | sources, diagnostics, models of each stage | stages in order, stop at the first with errors | no later stage sees a program an earlier one rejected |
| Package pipeline (`src/compiler/package_pipeline.cc`), Shuttle protocol | requests, loaded artifacts, staging directories, output files, receipts | compile, reuse, inspect, link | outputs are whole; a hit equals a rebuild; an executable is consistent |
| Package artifacts (`src/artifact/`) | binary artifact, SHA-256 | write, read with limits, import | read(write(x)) = x; damaged input is refused |
| Lexer, parser, AST | tokens, tree | scanning, recursive descent, recovery | every input ends with a tree or a diagnostic |
| Semantic analysis (`src/sema/`) | symbols, types, inheritance, slots, contracts, effects | declaration collection, resolution, checking, registration of imported packages | calls reach the override they should; no error escapes a contract; imported tables equal exported ones |
| Field initialization, control flow (`src/sema`, `src/flow`) | flow state: per field the least and most assignments | abstract interpretation of constructor bodies | every accepted constructor assigns every required field, and a final field once |
| Constant evaluation (`src/sema/constant_evaluator.cc`, `scalar_constants.cc`) | state of each constant field | typing within budgets, depth-first evaluation with cycle detection, exact scalar arithmetic | value or diagnostic for each field, in any order; folding equals executing |
| HIR, MIR: lowering, verifiers, optimizer | trees and graphs | lowering, checks, passes | a pass preserves meaning and verifier acceptance |
| ABI, identities (`src/abi/`, `src/identity/`) | layouts, reference maps, tables, descriptors, callable shapes | computation and checking | compiler, runtime and separately compiled packages agree |

Interactions. Stages call each other in sequence. The back end and the runtime
meet in the root frames and descriptors. The package pipeline calls the whole
compiler and meets other processes, and Shuttle (the build tool, not part of
this repository), through files and receipts.

`PROJECT.json` lists every component with its status, and under `hazards` each
place where a test would hardly reach what can go wrong.

## 2. Modules

| Module | Models | Role |
|---|---|---|
| `ManagedHeap` | heap, collector, native helpers | component |
| `GcContract` | what the heap promises to the program | abstract specification, implemented by `ManagedHeap` |
| `ManagedHeapProofs` | | theorems about `ManagedHeap`: memory safety and statistics; what a collection keeps, and the contract |
| `AllocationIndex` | the hash table behind `find_allocation` | component |
| `RegistrySet` | a set with add, remove, member | abstract specification, implemented by `AllocationIndex` |
| `AllocationIndexProofs` | | theorems about `AllocationIndex` |
| `GcRoots` | liveness analysis, slot stores and clears, and their execution | component |
| `GcRootsProofs` | | theorems about `GcRoots` |
| `PhiEdges` | labels, bridge blocks and phi entries of the written graph | component |
| `PhiEdgesProofs` | | theorems about `PhiEdges` |
| `StatementFlow` | statement trees, `control_flow.cc`, the blocks `mir.cc` makes of them | operators |
| `CallableChecks` | one callable through semantic analysis, field initialization, lowering and MIR verifier, and its run | component, over `StatementFlow` |
| `ClassHierarchy` | the passes of `semantic_analyzer.cc` over declarations: bases, interfaces, overrides, slots, throws clauses, inferred effects | component |
| `ObjectAbi` | `abi.cc`, `abi_verifier.cc`, descriptors, call lowering | component, over `ClassHierarchy` |
| `ObjectRuntime` | descriptor validation, type tests, dispatch and construction at run time | composition over `ObjectAbi` |
| `ClassHierarchyProofs` | | lemmas about the passes: what each one establishes and the later ones keep |
| `ObjectRuntimeProofs` | | theorems about `ObjectRuntime` and the two modules below it |
| `Declarations` | constructors of small programs | operators for the MC modules |
| `ScalarConstants` | `scalar_constants.cc`, `numeric_types.cc` | operators |
| `ConstantExpressions` | typing of scalar expressions and the three compile-time evaluators | operators |
| `ScalarLowering` | what the same expressions compute when they are compiled and run | operators |
| `ConstantVerifier` | `hir_verifier.cc`'s check of constants and literals | operators |
| `ConstantEvaluator` | the static fields of a compilation: analysis, binding, evaluation, verification | component over the four |
| `ImportedPackage` | the view of a package an artifact carries | component, over `ObjectAbi` |
| `ImportedPackageVerifier` | the checks of such views, alone and as a closure | operators |
| `PackageArtifact` | metadata trees, decoders, schema checks, envelope | operators |
| `PackageExchange` | export, write, damage, read, check, register, link | composition over the three |
| `PackageClosure` | `validate_closure`, `validate_acyclic` | algorithm, step by step |
| `PackageBuild` | compile, reuse, inspect, link by several processes | component |
| `PackageClosureProofs`, `PackageBuildProofs` | | theorems about the two |
| `MC*` | constants for TLC | instances |

### ManagedHeap

`heap` is the registry (`ObjectHeader` list and the objects' references),
`frames` the chain behind `current_root_frame`, `marked`/`worklist`/`unswept`
the progress of `mark_reachable_objects` and `sweep_unreachable_objects`,
`pending` the allocation call in progress, `native` and `argsLeft` the two
helpers that allocate more than one object (`cloth_rt_division_by_zero`,
`cloth_rt_program_arguments`). An allocation call is split where the code can
do something in between: the request with the threshold test
(`CollectBeforeAllocation`), the collection (`MarkStep`, `StartSweep`,
`SweepStep`, `FinishCollection`), and reservation with delivery of the result
(`DeliverToSlot`, `DeliverToPrint`, `DeliverBox`, `ReserveFails`, ...). The generated program is
`Mutator`: any sequence of allocations, loads, stores, calls and returns on its
root slots. Counters saturate or abort at `MaxBytes`, `MaxCount` and
`MaxCollections`, which stand for UINT64_MAX. An address is storage of the host
allocator: it may be handed out again, and having none left is the
"allocation failed" abort. `Storage` is the set of occupied bytes, so that the
byte counter is compared with its cardinality.

Not in the module: byte layout, contents of strings and scalars, the hash table
(`AllocationIndex`), descriptor validation (emitted descriptors are valid), the
order of the mark worklist (any order here).

### AllocationIndex

`index` is the table, `allocations` the registry list, `hash` an arbitrary hash
function chosen in the initial state, so every pattern of collisions occurs.
`Register` is `reserve_allocation_index` followed by the insertion, `Sweep` is
a collection that frees any subset and rebuilds the table. The loops over the
registry list (`Rebuilt`, `Unlinked`) are functions of the number of objects
visited; `Capacities` are the capacities at which the doubling loop may stop, and
none is the "index is too large" abort.

### GcRoots

The analysis runs block by block as in `analyze_gc_liveness` (`Fixpoint`, then
`WalkInstruction`/`WalkBlock` for the per-instruction sets); then the emitted
code runs (`Execute`, `Branch`, `Leave`) with a collector that turns every
reference that no slot holds into `Dangling`. The bodies are given by the MC
module. `AnalysisExact` compares the sets with liveness defined by paths.
`BodiesAssumption` says what lowering and the MIR verifier guarantee of a body
(`WellFormedBody`): an instruction names what it reads, terminators with
successors use no managed value, a phi has a value for each predecessor, and
result storage is written by throwing calls and read by its load only.

### PhiEdges

The writer goes through the MIR blocks, then through the bridge blocks. A body
says only what the graph depends on: terminators, which blocks have scalar or
aggregate phis, and which contain an instruction that is written as several LLVM
blocks (`split`). `BodiesAssumption` is what lowering and the MIR verifier
guarantee (`WellFormedBlock`): targets are blocks of the body, a default belongs
to a switch, and a branch has two different targets, since lowering makes both
for it and the optimizer only renumbers blocks.

### StatementFlow and CallableChecks

A callable is a small statement tree (if, while, for, for each, switch, nested
block, return, break, continue) whose leaves are operations on one field or one
nullable local, calls and throws. The analyses are recursive operators over the
tree, named after the functions they model; `sema_*` is the statement analysis
of `semantic_analyzer.cc` and `init_*` that of
`field_initialization_analysis.cc`, both of which call theirs `analyze_*`.
Lowering threads a record with the blocks, the current block and the stack of
transfer targets, as `BodyBuilder` does. The state machine is the compiler's
phases (`Analyze`, `Lower`, `Verify`) followed by the execution of the body,
where a condition takes either way unless it is a literal or a test of the local.
A `throws` callable initializes its fields inline, as the error ABI demands.

Left out: conditions with `&&` and `||`, expressions that open blocks of their
own, field initializers that never complete, two or more nullable locals (facts
of different locals do not interact), and the optimizer with the second
verification.

### ClassHierarchy, ObjectAbi and ObjectRuntime

One behaviour is one program: a sequence of file declarations (classes,
interfaces, errors, structs, enums; file 1 is `Object`) goes through the passes
of `SemanticAnalyzer::run` that build tables, one action per pass, then through
ABI lowering, the ABI and MIR verifiers and the runtime's validation of the
descriptors. `files` and `symbols` are the semantic model, `layouts` and
`descriptors` what the back end emits. When all of it was accepted an object of
any class is constructed and every call of the bodies may be made: `frames` is
the call stack, `begun` the classes whose field initialization has begun. Bodies
are the statements that matter to dispatch and effects: throw, call a
function of some static receiver type, of self, of super. A function's name
stands for its name and parameter types.

`WellFormedProgram` says what the parser and the passes before these guarantee
of a program: names refer to files that exist, a file has at most one constructor
and no two functions of one name, the functions of an interface and only they,
or those declared abstract, have no body. File 1 is the built-in Object: a class
without a base, fields or interfaces, with at most the three functions the
runtime implements. `Chain(next, i)` follows a table of links from file `i`
(bases, or `Parents`, where an error's chain goes on to Object); `Ancestors` are
what it meets.

A call that throws in a field initializer counts as a call of the constructor
(`Statements`), abstract interface functions are contracts without a body, and a
statement that throws must throw an error (`StatementAllowed`). The effects pass
is a round over all inferred callables at a time (`EffectsRound`), for at most
one round more than there are such callables, as in `analyze_error_effects`.

The layout limits (fields, depth and size of a struct, references of a layout,
entries of an interface map) are constants; the target is the 64-bit one.

### Constants

`ConstantEvaluator` is one compilation: `AnalyzeField` types a static field
within the budget of its package, `BindField` enters the eligible ones,
`VisitRoot`, `FollowFresh`, `FollowCycle`, `FollowDone` and `Finish` are the steps
of the depth-first visit, in the order of canonical identities (`rank`), and
`VerifyConstants` is the second opinion of the HIR verifier. The operands of an
expression may be constants of an imported package, so every bit pattern of
every type occurs. Widths, floating formats, the word width of the arbitrary
precision naturals and the decimal limit are constants whose relations
(`ASSUME`s of `ScalarConstants`) are those of the real ones: the arithmetic is the code's,
digit by digit and shift by shift, at widths TLC can enumerate.
`ScalarLowering` is the independent side: what LLVM's instructions and the
runtime's guards make of the same expression, on two's complement bits and with
correct rounding by definition.

### Artifacts

`PackageExchange` compiles a program of three packages with the modules above,
translates its tables to views (`BuildImportedPackageView`), writes and reads
artifacts, lets one field of one file differ on the way (an artifact another
compiler wrote, or a damaged envelope), and then does what an importing
compilation and a link do. Records keep the field names of the metadata;
identities are tuples whose order is unrelated to declaration order. A text is
the canonical spelling of its tree or it is not, a digest is the content it
digests, and a mangled name is its identity.

### PackageClosure and PackageBuild

`PackageClosure` is one call of `validate_closure` on arbitrary artifacts. Its
worklist and ready set are sets: the order is arbitrary. `PackageBuild` has the
files (`source`, `disk`, `exe`, `staging`) and the processes; a process takes one
step per file it reads or writes, because another process, an edit or a kill may
come in between. There the check of the closure is one step (`ValidateClosure`)
on artifacts already in memory. The digest of an artifact is the artifact
itself (no collisions). A toolchain is one number and is not replaced while an
operation runs, which the artifact contract
(docs/proposals/stage_23_artifacts.md) demands. Shuttle is external: it may ask
for any package with any artifacts whose digests receipts have reported.

## 3. Runs

| Run | Configuration | Checks |
|---|---|---|
| `heap` | 3 addresses, 1 slot, 2 frames and a native one, arrays and arguments up to 2, no symmetry | `HeapInv`, `NoDangling`, `OperandsLive`, `Accounting`, `ThresholdBound`, `ArgumentsBuilt`, `PreciseCollection`, `ImplementsContract`, `RequestSettles` |
| `allocation_index` | 5 objects, capacities 2, 4, 8, hash values 0, 6, 7 | `ProbesEnd`, `ImplementsRegistry` |
| `gc_roots` | 320 bodies: joins, loops with swapped phis, throwing calls | `ReadsExact`, `SlotsPrecise`, `AnalysisExact` |
| `phi_edges` | all bodies of four blocks of the families in `MCPhiEdges` | `PhiNamesPredecessors`, `ReachesSuccessors` |
| `callable_checks` | about 22 000 callables, both values of the local | `FlowExact`, `ConstructionSound`, `NarrowingSound`, `VerifierAgrees` |
| `narrowing_in_loops` | the same callables | violation: `EveryNarrowedUsePresent` |
| `dispatch` | eight families of programs of up to four files | `DispatchExact`, `EffectsSound`, `LayoutSound`, `TypeTestsAgree`, `LoweringVerifies`, `ConstructionOrder` |
| `partial_state` | the family of constructors | violation: `PartialStateUnreachable` |
| `constants` | programs of up to three fields, types of 4, 5 and 6 bits, fractions of 2 and 3 bits | `ConstantsExact`, `FoldAgrees`, `ConstantsVerify` |
| `artifacts` | programs of three packages, one difference in one artifact | `ExportsRoundTrip`, `ImportFaithful`, `AcceptedRegisters`, `LinkAgrees` |
| `package_closure` | every request over 3 packages | `VerdictExact`, `CheckEnds` |
| `package_build` | 2 processes, 2 packages, object artifacts, 4 requests, equal clock values, 2 staging names; one edit, damaged file or new toolchain | `OutputsWhole`, `ArtifactsTruthful`, `ExecutableConsistent`, `FailurePreserves`, `HitIsRebuild` |

Why the bounds are enough to be interesting:

* Heap: the threshold floor holds one object and a string, so a second object
  collects; three addresses allow a box around an object, an error with its
  message and an argument array with both strings. The array of two arguments
  and its first string just fit under the floor, so the second string collects
  while the array is half filled, and is then stored: the first one lives only
  through the array. An address freed by one collection is reused; `MaxBytes`,
  `MaxCount` and `MaxCollections` are small enough for each saturation and abort
  to happen. With one root slot the program makes references from a box to its
  payload, from an array to its elements and from an object to itself; larger
  heaps are the proofs' part: they hold for every number of addresses and slots.
* Index: five objects force two growths and tables that are half full;
  one bucket for all objects is among the hash functions.
* Roots: each family switches every optional use, definition and safepoint on
  and off; memory and register values both occur.
* Callables: every statement kind around every block of at most one operation
  (and the two-operation blocks that assign and break, or use and clear), alone,
  followed by another statement, and nested in a loop or switch; so a transfer
  meets every pair of enclosing statements. One field is enough because counts
  of fields are independent; its type has a default value or none, and short
  bodies go through every kind of type. A count of assignments saturates at 2,
  as in the code.
* Dispatch: each family varies one question and holds the rest still: chains of
  three classes with overrides, overloads, private and static functions;
  interfaces that extend each other, merged and covariant contracts; call cycles
  between inferred functions; throws clauses of overrides; structs and nullable
  structs in structs, classes and errors; constructors that call self, super and
  each other's overrides.
* Constants: 4, 5 and 6 bit integers have every pair of operands; the two floating formats
  have subnormals, half-way cases and overflow to infinity. Three fields make
  every reference graph, cycles of one, two and three included, in several
  orders of identity. Literals of every kind, with and without suffixes and
  signs, are initializers, are converted, and are operands; where the code
  disagrees with itself about them the property names the case (section 5).
* Artifacts: a library with a base class, an interface, an error, a struct, an
  enum or constants, and a program that derives from it. The differences are
  one field changed, one element dropped, doubled or moved, in any record of the
  metadata, or one damage of the envelope.
* Closure: three packages allow a diamond's two ways to a package, a circle of
  two or three, missing and surplus artifacts, and wrong pins, in all
  combinations.
* Build: four requests are compile library, compile application, compile the
  library again, link or reuse. Two processes with one clock value collide on the
  staging name; a kill leaves a name behind that the next process meets. Interface
  artifacts are in the module and not in this run.

Fairness. `WF_vars(Runtime)` in `ManagedHeap`: inside a runtime call the thread
runs until the call returns or aborts; nothing is assumed of the program. In
`PackageClosure` weak fairness of the algorithm's own steps: a loop in a single
thread goes on. `PackageBuild` assumes none; a process may
stop anywhere. Deadlock is checked except where the modelled work simply ends
(the package runs, and the end of a callable, a program or a compilation).

Every property of a passing run has a mutant in `PROJECT.json`: a small,
plausible change of one definition under which TLC finds the property violated.

## 4. Proofs

The provers check eight modules, one of them of lemmas only. Each theorem states
what a run checks on a small instance for every value of the constants.

| Module | Theorem | States |
|---|---|---|
| `ManagedHeapProofs` | `HeapInvariant`, `TypeCorrect`, `MemorySafety`, `OperandsSurvive` | `HeapInv`, `TypeOK`, `NoDangling`, `OperandsLive` |
| `ManagedHeapProofs` | `AccountsExact`, `ThresholdKept` | `Accounting`, `ThresholdBound` |
| `ManagedHeapProofs` | `CollectionPrecise`, `HeapKeepsContract`, `ArgumentsSurvive` | `PreciseCollection`, `ImplementsContract`, `ArgumentsBuilt` |
| `AllocationIndexProofs` | `IndexInvariant`, `ProbesAlwaysEnd`, `IndexImplementsRegistry` | `IndexInv`, `ProbesEnd`, `ImplementsRegistry` |
| `GcRootsProofs` | `FrameInvariant`, `ReadsStayExact`, `SlotsStayPrecise` | `FrameInv`, `ReadsExact`, `SlotsPrecise` |
| `PhiEdgesProofs` | `EmissionInvariant`, `PhisNamePredecessors`, `SuccessorsReached` | `EmitInv`, `PhiNamesPredecessors`, `ReachesSuccessors` |
| `PackageClosureProofs` | `VerdictIsExact` | `VerdictExact` |
| `PackageBuildProofs` | `BuildInvariant`, `OutputsStayWhole`, `ArtifactsStayTruthful`, `ExecutableStaysConsistent`, `FailuresPreserve`, `HitsAreRebuilds` | `BuildInv`, `OutputsWhole`, `ArtifactsTruthful`, `ExecutableConsistent`, `FailurePreserves`, `HitIsRebuild` |
| `ObjectRuntimeProofs` | `SemanticsEstablished`, `DispatchIsExact`, `ErrorsStayChecked`, `TypeTestsAreExact`, `ConstructionIsOrdered`, `LayoutsAreSound`, `LoweringIsVerified` | `SemaInv`, `DispatchExact`, `EffectsSound`, `TypeTestsAgree`, `ConstructionOrder`, `LayoutSound`, `LoweringVerifies` |

### The heap

From `HeapConstants` only: addresses are a finite set without the null
reference, sizes are positive, and the threshold floor does not exceed the byte
limit.

`NoDangling` is not inductive. A sweep frees everything outside the marked set,
so one must know that marking was complete when the sweep began, and during the
sweep that survivors refer to survivors. `MarkDiscipline` says so: while marking,
roots and the fields of scanned objects are marked; while sweeping, the set
`Kept` (still marked, or already swept and kept) contains the roots and is
closed under references. Delivery of a new object must not store a reference
that the collection between request and delivery has freed; `CallDiscipline` says
that the operands of a call in progress are in root slots, which is the
obligation the back end discharges (`ReadsExact` in `GcRoots`). `HeapInv` is the
conjunction of the four; `StepInv` has one lemma per action. TLC checks `HeapInv`
as an invariant of `heap`.

`CountInv` adds the two statements about counters and that the storage is
finite; a sweep step removes the bytes of one object, a delivery adds them.

The opposite of safety is `ExactMarks`: whatever is marked, and whatever the
sweep keeps, was reachable when the collection began. Reachability is the least
set that holds the roots and follows references, so marking is complete and exact
together, and with `HeapInv` the registry at the end of a collection is the
reachable set. `HeapKeepsContract` is the refinement: through the object graph
each action is a step of `GcContract`, a program step that uses reachable and new
objects only, or a step that removes unreachable ones; marking is a stutter.
`ArgumentsInv` adds to `ArgumentsBuilt` that the array has room for the arguments
left and that a native helper is interrupted by its own requests only.

### The index

From `IndexConstants`: finitely many objects without null, an initial capacity of
at least two, hash values that are numbers. `IndexInv` says that the table holds
exactly the registry list, in at most half of its slots, and that the probe for
each object meets it before an empty slot. An insertion fills the first empty
slot of its own probe and so shortens no other; there is no deletion, which
`SweepInPlace`, the mutant, shows to be essential. That a probe visits every slot
is arithmetic on remainders; with half of the slots empty it ends. The loops over
the list are proved by the least length at which a claim would fail
(`NoException`); that there is a least one follows from the well-foundedness of
strict inclusion between finite sets.

### Roots and edges

`FrameInv` follows the phases of the back end. While the tables grow they stay
below their equations' values; when the walk starts they solve them (`Stable`);
the walk agrees with the definition by paths inside a block (`PathLive`); and
while the code runs, a live root's value is not dangling, its slot holds it, and
a slot that is not null belongs to a live root or to a phi without uses.

`EmitInv` says that the labels and branches written when it is the turn of a
block, or of the bridges of a predecessor, are exactly those that the ones before
call for; labels are unique, and so are the branches of bridges and of
terminators other than switches (`Singles`), the only ones a scalar phi names.

Both theorems hold for all bodies that satisfy the module's `BodiesAssumption`.

### Packages

`ClosureInv`: the first loop has taken only reachable, supplied packages with
satisfied pins; in the second there is a set `T` of packages taken so far, such
that every count of missing dependencies is a cardinality relative to `T`, and no
circle meets `T`. At the end `T` is everything or the rest contains a circle. The
assumption is that packages are finite and each has a pin.

`BuildInv` describes each process alone, by where it is (`ControlOk`, `InputsOk`,
`CandidateOk`, `OutputOk`), and the files (`FilesOk`: every artifact on disk or
behind a receipt is sound, the executable is of objects that fit together). What
makes it hold for any number of processes is `StagingOk`: a staging directory
belongs to one process, because it is made with an exclusive create, so what is
published is what that process wrote. Sources, damage, kills and new toolchains
may come between any two steps.

### Declarations, layouts and execution

All seven theorems of `ObjectRuntimeProofs` hold for every well-formed program,
however many files it has and however deep they inherit, embed or call each
other, and for every value of the layout limits. There is no assumption besides
`WellFormedProgram`, which `Init` demands.

*The passes.* `SemaInv` says, for each pass of the analyzer, what is known of the
tables from that pass on unless an error was reported: the hierarchy is acyclic
and errors derive from errors (`HierarchyFacts`), each member has a symbol
(`SymbolFacts`), closures of interfaces and classes are closed (`ContractFacts`,
`ClassFacts`), a class's table keeps its base's slots, each with a function that
may stand where the inherited one stood (`TableFacts`), a class has one table for
each contract it meets in full and for no other, and a concrete class meets every
contract (`ImplementationFacts`), constructors are chained and calls resolved
(`DefinitionFacts`), and throws sets cover what is thrown and called
(`EffectFacts`). `ClassHierarchyProofs` has a lemma per pass that it establishes
its part, and lemmas that it keeps the others. The passes are loops; each is
unrolled (`...Unfolds`) and proved by the least number of steps at which a claim
would fail, as for the index.

The effects pass stops after a bounded number of rounds, so one must show that
this many reach a fixpoint: rounds only grow, and an inferred callable's set is
empty until the round in which an error first reaches it; a round in which
nothing is uncovered that was covered before ends the growth; each round before
that adds a callable, so there are at most `Cardinality(InferredIds)` of them.

*Dispatch.* `DescriptorFacts`: descriptors are emitted once and hold what
`ClassDescriptor` and `BoxDescriptor` say. Sorting by identity leaves the tables
in strictly ascending order (`TablesOrdered`, by the ranks of distinct
numbers), and the binary search, whose range halves while the identities before
it are less and those after it are not (`RangeHalves`), is exact (`SearchFinds`).
A function keeps its slot in every class below its own, and the entry of a class
is the nearest declaration on the way to Object (`SlotsKept`,
`MostDerivedEntry`). `ErrorsStayChecked` composes that with `EffectFacts`: what
may run for a call throws no more than the callable called declares.
`TypeTestsAreExact` needs `ObjectPlain` (no pass gives Object an interface),
because a box's parent is Object.

*Construction.* `FrameInv` describes the call stack: a constructor that has not
reached its fields has only ancestors' constructors above it, and a function that
a constructor called belongs to a class whose fields have begun. Every call on
self from a constructor is direct, so it stays in what was initialized.

*Layouts.* `LayoutInv`: every layout computed so far fits its file (`FitsFile`):
fields are aligned, inside the object, each behind the one before, the reference
words are those of the fields and lie in ascending order on words of their own,
and a class starts as its base does. `FieldPlaced` is the step of
`lower_file_layout`, with the arithmetic of `AlignUp` on powers of two; a
nullable value's payload starts at its alignment because its flag is one byte.
`LaidOutInTurn` carries a rank, the turn in which Kahn's traversal laid a file
out: a struct embedded in place has a smaller one, so the rounds of
`ReferenceWords`, as many as there are files, reach the innermost struct and the
words the collector scans are those the declarations have. With
`ObjectTable` (Object's slots are its own functions, so at most three) the
runtime accepts every box, and with `TablesInherited` (a class meets what its
base meets) every class. The same facts are what `VerifyFile` and
`VerifyMirCall` ask: `LoweringIsVerified` says that an accepted program is never
stopped as an internal error, the merged contracts of section 5 excepted.

### What is only model-checked

* Liveness: `RequestSettles`, `CheckEnds`. The prover does not reason about
  fairness.
* `AnalysisExact` of `gc_roots`: its reference is a recursive operator. What the
  program needs of it is in `FrameInv`.
* Statements (`FlowExact`, `ConstructionSound`, `NarrowingSound`,
  `VerifierAgrees`), constants (`ConstantsExact`, `FoldAgrees`,
  `ConstantsVerify`) and artifacts (`ExportsRoundTrip`, `ImportFaithful`,
  `AcceptedRegisters`, `LinkAgrees`): their operators recurse over trees, the
  prover loses its arithmetic in modules with recursive operators, and what a
  recursion computes for every input needs an induction over data it cannot
  instantiate. Where loops run over sequences (the index, the analyzer's passes,
  the layouts) the recursion is a function of the number of steps, and is proved.

## 5. Disagreements met while modelling

Shown by a run:

* `narrowing_in_loops`: a loop body is analyzed once, from what is known before
  the loop. In `s!; while (c) { use(s); s = null; }` the use is accepted as
  non-null and reads null in the second iteration. `NarrowingSound` shows that
  the narrowing is sound in every body whose loops do not assign the local.
* `partial_state`: virtual dispatch on self is suppressed in the body of a
  constructor and in field initializers, not in the functions they call. A base
  constructor that calls `f`, whose body calls `g`, runs the override of `g` of
  a class whose fields are not initialized. docs/semantic_analysis.md:266-268 and
  docs/inheritance.md:211-214 exclude that. `ConstructionOrder` is what holds:
  classes are initialized base first, and the calls of the constructor itself are
  direct.

Met in a passing run, which names them as its exceptions:

* `PhiNamesPredecessors`: a scalar phi whose predecessor block contains a
  lifted nullable conversion (`flag && accept(x)` with `x` widened from `int32?`
  to `int64?`) names the block's first label, but the branch comes from the
  join label that the conversion opened; LLVM refuses the module
  (llvm_ir.cc:4645).
* `VerifierAgrees` lists the ways in which a callable the front end accepts is
  refused by the MIR verifier as an internal error, and shows that there is no
  other among the callables checked: a base constructor that throws (its call
  ends the block the verifier wants the field initialization in), a field
  initializer that throws (its own body may not contain an error terminator), an
  unreachable throw in a callable without a throws clause, and in a struct a
  loop with a literal true condition or a final field with an initializer in a
  throwing constructor.
* `LoweringVerifies`: a call through a contract merged from two interfaces has
  no ABI declaration (abi_verifier.cc:447); docs/proposals/stage_34_typed_errors.md:223-225
  allows it. The same contract is lost on import (`ImportFaithful`): the
  artifact names an identity that is no member, and
  `register_imported_packages` drops it.
* `TypeTestsAgree`: `cloth_rt_object_is_interface` (runtime.cc:2876) answers no
  for every error, though errors may implement interfaces (stage_34:77).
* `ConstructionSound`: `requires_initialization`
  (field_initialization_analysis.cc:670-676) lists the kinds of types a field of
  which has to be assigned, and interfaces and error classes are not in the
  list. A class with a mutable field `Named n` or `Failure f` and a constructor
  that never assigns it is accepted, also one that reads it or hands out `self`
  before, and the field holds null although its type has none.
  docs/nullability.md:132-134 ("Every non-static field of non-null reference type
  must be initialized by its declaration or definitely assigned on every
  constructor exit") and docs/semantic_analysis.md:207-213 exclude that. The
  property excepts these fields by name (`Overlooked`) and no others: it states
  what a field needs from its type (`NeedsValue`), not from the code's list.
* `ConstantsVerify` names the two forms of an accepted constant that the HIR
  verifier refuses as an internal error, and shows that there is no other among
  the programs checked. `static final float64 X = float64(0.1f32)`: the evaluator
  converts the `float32` value, the verifier reads the digits as `float64`
  because the suffix is gone (hir_verifier.cc:516-519; `SuffixDecides`).
  `int8(-128.0)`: the evaluator takes the literal with its sign, the literal check
  tries the sign for integer literals only, and `128.0` is no `int8`
  (hir_verifier.cc:1299-1325; `SignDecides`). `FoldAgrees` says nothing of a
  program stopped that way, of which nothing is executed.
* `ExportsRoundTrip`: a class constructor that may fail cannot be exported: its
  initializer has a result pointer that `verify_class_abi` (imported_package.cc:1050)
  does not count; nor can a package of only enums or structs of which nothing
  refers to `Object`, because no box descriptor is exported for them.

Met while writing the models, excluded from the programs of the runs:

* `callable_uses_error_abi` (semantic_model.cc:365) is not uniform over a slot: an
  inherited function that a class uses to implement an interface whose
  declaration throws keeps the plain ABI, while calls through the interface use
  the error ABI (docs/proposals/stage_34_typed_errors.md:291-295).
* `validate_interface_contracts` runs before class closures exist, so whether a
  covariant refinement by an interface is accepted depends on the order of files
  (docs/interfaces.md:81-82).
* A struct that contains its own nullable passes
  `validate_struct_layout_cycles`; only ABI lowering refuses it.
* Outside constants, `int8 x = - -128;` passes the analyzer, which looks at the last sign, and not
  the literal check of the HIR verifier, which takes the parity of all;
  `int8(-(+128))` passes both and is refused when the literal is lowered.
* docs/proposals/stage_28_scalar_constants.md describes run-time integer arithmetic without guards;
  the code guards every operation.

Two statements of the documentation that the model of the code contradicts,
noted here without a run:

* docs/garbage_collection.md:156 says that printing does not collect; the
  default representation of an object is an allocated string (`DeliverToPrint`
  in `ManagedHeap`), so it may. The generated code treats it as a safepoint.
* docs/garbage_collection.md:139 says that a slot is cleared immediately after
  its final use; the result storage of a throwing call (`storage` in `GcRoots`)
  is a root outside the liveness analysis and keeps its object until the
  function returns or the call runs again.

## 6. Not modelled, and why

* Byte-level formats (LLVM text, the JSON spelling and section layout of an
  artifact, SHA-256, the spelling of mangled names, number formatting): data
  conversions without state; property-based tests fit better. Where a property
  depends on one, it is modelled by what it does (decimal text of constants, digests).
* Lexer and parser: a transcription character by character would not be a
  model. The modelled stages start from trees.
* Overload resolution, import lookup, arrays as types, meta expressions and
  patterns in semantic analysis: they choose names and types and leave the
  tables of `ClassHierarchy` alone.
* MIR optimizer: local rewrites of expressions, planned.
* Runtime strings, parsing, console and file input: functions of one call; their
  allocations are in `ManagedHeap`.
* What the recursive operators compute is checked by TLC only (section 4).
* `build_native_executable` of the direct mode: listed as a hazard (temporary
  names without exclusive creation).
* Durability: there is no fsync before a rename, so a power failure can leave a
  damaged file. It is modelled by its effect only (`Damage`).
* Stack use of generated code: `emit_box` and some intrinsics place an `alloca`
  in the middle of a block; whether a loop grows the stack depends on LLVM.

## 7. Plan

Done: the heap, the index, GC roots, phi edges, the statements of a callable,
declarations, ABI and descriptors with dispatch and construction, static
constants, artifacts and imports, the package closure and the package
operations; theorems for all of these but statements, constants and artifacts.

Left, in this order:

1. *Imports*: `ExportsRoundTrip` and `ImportFaithful` for every program, on the
   invariant of `ObjectRuntimeProofs`; the trees of `PackageArtifact` have to be
   stated without recursive operators first.
2. *MIR optimizer*: the passes keep what a body reads, returns and traps on, and
   the verifier's acceptance.
3. *Direct mode*: source graph, early stops, temporary files of
   `build_native_executable`.
