---------------------------- MODULE PackageBuild ----------------------------
(***************************************************************************)
(* The package operations of clothc (execute_compile, execute_reuse,       *)
(* execute_inspect and execute_link of src/compiler/package_pipeline.cc)   *)
(* run by several processes on one directory of sources, artifacts and     *)
(* outputs.  Every process reads its inputs file by file, works in a       *)
(* private staging directory beside its output and replaces the output by  *)
(* one rename; meanwhile other processes do the same, sources are edited,  *)
(* artifacts are damaged, and any process may fail or be killed between    *)
(* two steps.                                                              *)
(*                                                                         *)
(* The digest of an artifact is the artifact: a hash without collisions.   *)
(* Source contents are versions, and a toolchain (compiler executable,     *)
(* llc, linker and runtime archive) is one number; the artifact contract   *)
(* excludes replacing it while an operation runs.  The requests come from  *)
(* Shuttle, which is not part of the repository: it asks for any package   *)
(* of its manifest with any digests that receipts have reported.           *)
(***************************************************************************)
EXTENDS Integers, FiniteSets, Functions

CONSTANTS
    Package,        \* packages of the workspace
    Direct,         \* the manifest: direct dependencies of every package
    Root,           \* the package whose executable is linked
    Kind,           \* artifact kinds built: "interface", "object"
    File,           \* source files of every package
    Proc,           \* processes that may run at the same time
    Tick,           \* steady clock values seen by the processes
    Attempts,       \* staging names tried (16 in the code)
    MaxEvent,       \* bound: edits, damaged artifacts and toolchain installations
    MaxRequest,     \* bound: requests
    None,           \* no file, no value
    Damaged         \* a file the artifact reader refuses

ASSUME GraphAssumption == Direct \in [Package -> SUBSET Package] /\ Root \in Package
ASSUME KindAssumption == Kind \subseteq {"interface", "object"}
ASSUME BoundAssumption ==
    /\ {Attempts, MaxEvent, MaxRequest} \subseteq Nat
    /\ Attempts > 0

\* A file that is open for writing.
Partial == [partial |-> TRUE]

\* None is no staging name, no operation, no outcome and no file.
ASSUME NoneAssumption ==
    /\ None \notin Tick \X (0..(Attempts - 1))
    /\ None \notin {"compile", "reuse", "link", "receipt", "miss", "failed"}
    /\ None # Partial

VARIABLES
    source,     \* contents of the source files
    disk,       \* the artifact file of every package
    exe,        \* the executable file
    staging,    \* staging directories: name |-> [object, completed]
    tool,       \* the installed toolchain
    proc,       \* the processes
    receipts,   \* artifacts whose digest some receipt reported
    edits, damages, requests    \* counters for the bounds

files == <<source, disk, exe>>
bounds == <<edits, damages, requests>>
vars == <<files, staging, tool, proc, receipts, bounds>>

\* The packages that S depends on, directly or not.
DependencyClosure(S) ==
    CHOOSE C \in SUBSET Package :
        /\ \A p \in S \cup C : Direct[p] \subseteq C
        /\ \A D \in SUBSET Package :
               (\A p \in S \cup D : Direct[p] \subseteq D) => C \subseteq D

IsArtifact(f) == f # None /\ f # Damaged /\ f # Partial

EmptyDirectory == [object |-> None, completed |-> None]

Idle == [pc |-> "idle", op |-> None, package |-> None, kind |-> None, inputs |-> << >>,
         expected |-> 0, toLoad |-> {}, toRead |-> {}, read |-> << >>,
         candidate |-> None, attempt |-> <<None, 0>>, stage |-> None,
         payload |-> None, made |-> None, published |-> FALSE,
         outcome |-> None]

Init ==
    /\ source = [p \in Package |-> [f \in File |-> 0]]
    /\ disk = [p \in Package |-> None]
    /\ exe = None
    /\ staging = << >>
    /\ tool = 0
    /\ proc = [i \in Proc |-> Idle]
    /\ receipts = {}
    /\ edits = 0 /\ damages = 0 /\ requests = 0

-----------------------------------------------------------------------------
(***************************************************************************)
(* What happens around the compiler.                                       *)
(***************************************************************************)

\* The bound on what the environment does.
Eventful == edits + damages + tool < MaxEvent

Edit(p, f) ==
    /\ Eventful
    /\ edits' = edits + 1
    /\ source' = [source EXCEPT ![p][f] = edits + 1]
    /\ UNCHANGED <<disk, exe, staging, tool, proc, receipts, damages, requests>>

\* A file lost, or cut short by a power failure after its rename.
Damage(p) ==
    /\ Eventful
    /\ IsArtifact(disk[p])
    /\ damages' = damages + 1
    /\ \E f \in {None, Damaged} : disk' = [disk EXCEPT ![p] = f]
    /\ UNCHANGED <<source, exe, staging, tool, proc, receipts, edits, requests>>

InstallTools ==
    /\ Eventful
    /\ \A i \in Proc : proc[i].pc = "idle"
    /\ tool' = tool + 1
    /\ UNCHANGED <<files, staging, proc, receipts, bounds>>

\* A process killed between two steps: no destructor runs.
Kill(i) ==
    /\ proc[i].pc # "idle"
    /\ proc' = [proc EXCEPT ![i] = Idle]
    /\ UNCHANGED <<files, staging, tool, receipts, bounds>>

-----------------------------------------------------------------------------
(***************************************************************************)
(* The request and its inputs.                                             *)
(***************************************************************************)

\* An operation with the artifacts it is given.  compatibility() digests the
\* compiler and its tools first; a reuse loads its candidate before the rest.
Request(i, op, p, k, in) ==
    /\ proc[i].pc = "idle"
    /\ requests < MaxRequest
    /\ requests' = requests + 1
    /\ proc' = [proc EXCEPT ![i] =
           [Idle EXCEPT !.pc = IF op = "reuse" THEN "candidate" ELSE "load",
                        !.op = op, !.package = p, !.kind = k, !.inputs = in,
                        !.expected = tool, !.toLoad = DOMAIN in,
                        !.toRead = IF op = "link" THEN {} ELSE File]]
    /\ UNCHANGED <<files, staging, tool, receipts, edits, damages>>

\* Shuttle names the artifacts of the closure by digests from receipts.
Given(S) == {in \in [S -> receipts] : \A q \in S : in[q].package = q}

RequestAny(i) ==
    \/ \E p \in Package, k \in Kind, op \in {"compile", "reuse"} :
           \E in \in Given(DependencyClosure({p})) : Request(i, op, p, k, in)
    \/ \E in \in Given({Root} \cup DependencyClosure({Root})) :
           Request(i, "link", Root, "object", in)

\* Every return of an operation passes by the destructor of its staging.
Return(i, outcome) ==
    [proc EXCEPT ![i].pc = "return", ![i].outcome = outcome]

\* A candidate of another toolchain is as good as one of this.
LoadCandidateOfAnyTool(i) ==
    /\ proc[i].pc = "candidate"
    /\ LET c == disk[proc[i].package] IN
       proc' = IF IsArtifact(c) /\ c.kind = proc[i].kind
               THEN [proc EXCEPT ![i].pc = "load", ![i].candidate = c]
               ELSE Return(i, "miss")
    /\ UNCHANGED <<files, staging, tool, receipts, bounds>>

\* load_candidate: an unreadable, invalid or incompatible candidate is a miss.
LoadCandidate(i) ==
    /\ proc[i].pc = "candidate"
    /\ LET c == disk[proc[i].package] IN
       proc' = IF IsArtifact(c) /\ c.compatibility = proc[i].expected
                                /\ c.kind = proc[i].kind
               THEN [proc EXCEPT ![i].pc = "load", ![i].candidate = c]
               ELSE Return(i, "miss")
    /\ UNCHANGED <<files, staging, tool, receipts, bounds>>

\* load_artifacts: the artifact at the path is intact, of this toolchain and
\* exactly the one the request names.
Accept(i, q) ==
    /\ IsArtifact(disk[q])
    /\ disk[q].compatibility = proc[i].expected
    /\ disk[q] = proc[i].inputs[q]
    /\ disk[q].kind = proc[i].kind

\* One turn of load_artifacts; what is used later are the bytes read here.
LoadArtifact(i, q) ==
    /\ proc[i].pc = "load"
    /\ q \in proc[i].toLoad
    /\ proc' = IF Accept(i, q)
               THEN [proc EXCEPT ![i].toLoad = @ \ {q}, ![i].inputs[q] = disk[q]]
               ELSE Return(i, "failed")
    /\ UNCHANGED <<files, staging, tool, receipts, bounds>>

\* No test of the dependency records of the artifacts themselves.
PinsIgnored(in) == TRUE

\* validate_closure (module PackageClosure) on a request whose packages are
\* the manifest's closure: every record names the artifact supplied for it.
PinsSatisfied(in) ==
    \A q \in DOMAIN in : \A d \in DOMAIN in[q].dependencies :
        d \in DOMAIN in /\ in[d] = in[q].dependencies[d]

\* dependency_inventory: the direct dependencies with the digests loaded.
DependencyInventory(i) ==
    Restrict(proc[i].inputs, Direct[proc[i].package])

\* All artifacts are loaded.  A reuse also compares the dependencies of its
\* candidate; a link goes on to its output, the others read their sources.
ValidateClosure(i) ==
    /\ proc[i].pc = "load"
    /\ proc[i].toLoad = {}
    /\ proc' = IF ~PinsSatisfied(proc[i].inputs) THEN Return(i, "failed")
               ELSE IF /\ proc[i].op = "reuse"
                       /\ proc[i].candidate.dependencies # DependencyInventory(i)
                    THEN Return(i, "miss")
               ELSE [proc EXCEPT ![i].pc = IF proc[i].op = "link" THEN "stage" ELSE "read"]
    /\ UNCHANGED <<files, staging, tool, receipts, bounds>>

\* SourceFile::load for one file of the package.
ReadSource(i, f) ==
    /\ proc[i].pc = "read"
    /\ f \in proc[i].toRead
    /\ proc' = [proc EXCEPT
           ![i].toRead = @ \ {f},
           ![i].read = [g \in DOMAIN @ \cup {f} |->
                            IF g = f THEN source[proc[i].package][f] ELSE @[g]]]
    /\ UNCHANGED <<files, staging, tool, receipts, bounds>>

\* source_inventory: the digests of the contents in memory.
SourceInventory(i) == proc[i].read

-----------------------------------------------------------------------------
(***************************************************************************)
(* Compiling, linking and publishing.                                      *)
(***************************************************************************)

\* What the code of a package depends on: the sources compiled, the
\* artifacts it was compiled against and the toolchain.
Unit(i) == [package |-> proc[i].package, sources |-> proc[i].read,
            dependencies |-> DependencyInventory(i), tool |-> proc[i].expected]

\* The candidate taken to be up to date.
SourcesAssumed(i) == TRUE

\* candidate->artifact.sources == *current_sources.
SameSources(i) == proc[i].candidate.sources = SourceInventory(i)

\* The end of execute_reuse.  The candidate may lack the entry asked for.
DecideReuse(i) ==
    /\ proc[i].pc = "read" /\ proc[i].toRead = {} /\ proc[i].op = "reuse"
    /\ \E hasEntry \in BOOLEAN :
           proc' = IF SameSources(i) /\ hasEntry
                   THEN [Return(i, "receipt") EXCEPT ![i].made = proc[i].candidate]
                   ELSE Return(i, "miss")
    /\ UNCHANGED <<files, staging, tool, receipts, bounds>>

\* The sources are analysed in memory and the staging directory comes next.
Analyze(i) ==
    /\ proc[i].pc = "read" /\ proc[i].toRead = {} /\ proc[i].op = "compile"
    /\ proc' = [proc EXCEPT ![i].pc = "stage"]
    /\ UNCHANGED <<files, staging, tool, receipts, bounds>>

AfterStaging(i) ==
    IF proc[i].op = "link" THEN "objects"
    ELSE IF proc[i].kind = "object" THEN "emit" ELSE "encode"

\* A directory that is already there is used as it is.
CreateOrUse(i, name) ==
    /\ proc' = [proc EXCEPT ![i].stage = name, ![i].pc = AfterStaging(i)]
    /\ staging' = [n \in DOMAIN staging \cup {name} |->
                      IF n \in DOMAIN staging THEN staging[n] ELSE EmptyDirectory]

\* create_directory: only the process that creates the directory owns it.
CreateDirectory(i, name) ==
    \/ /\ name \notin DOMAIN staging
       /\ proc' = [proc EXCEPT ![i].stage = name, ![i].pc = AfterStaging(i)]
       /\ staging' = [n \in DOMAIN staging \cup {name} |->
                         IF n = name THEN EmptyDirectory ELSE staging[n]]
    \/ /\ name \in DOMAIN staging
       /\ proc' = IF name[2] + 1 < Attempts
                  THEN [proc EXCEPT ![i].attempt = <<name[1], name[2] + 1>>]
                  ELSE Return(i, "failed")
       /\ UNCHANGED staging

\* One attempt of PrivateOutputDirectory: the clock is read once, the
\* number of the attempt makes the next name.
MakeStaging(i) ==
    /\ proc[i].pc = "stage"
    /\ \E tick \in Tick :
           /\ proc[i].attempt[1] \in {None, tick}
           /\ CreateDirectory(i, <<tick, proc[i].attempt[2]>>)
    /\ UNCHANGED <<files, tool, receipts, bounds>>

\* The directory is still there; otherwise opening a file in it fails (Fail).
Staged(i) == proc[i].stage \in DOMAIN staging

Put(i, file, content) ==
    /\ Staged(i)
    /\ staging' = [staging EXCEPT ![proc[i].stage][file] = content]

\* build_native_object: llc leaves the object in the staging directory.
EmitObject(i) ==
    /\ proc[i].pc = "emit"
    /\ Put(i, "object", Unit(i))
    /\ proc' = [proc EXCEPT ![i].pc = "readback"]
    /\ UNCHANGED <<files, tool, receipts, bounds>>

\* The payload is read back from there.
ReadObject(i) ==
    /\ proc[i].pc = "readback" /\ Staged(i)
    /\ proc' = [proc EXCEPT ![i].payload = staging[proc[i].stage].object,
                            ![i].pc = "encode"]
    /\ UNCHANGED <<files, staging, tool, receipts, bounds>>

\* The artifact and its encoding; write_file then opens completed.cpa.
EncodeArtifact(i) ==
    /\ proc[i].pc = "encode"
    /\ proc' = [proc EXCEPT ![i].pc = "write", ![i].made =
           [package |-> proc[i].package, kind |-> proc[i].kind,
            compatibility |-> proc[i].expected, sources |-> SourceInventory(i),
            dependencies |-> DependencyInventory(i), imported |-> Unit(i),
            payload |-> proc[i].payload]]
    /\ Put(i, "completed", Partial)
    /\ UNCHANGED <<files, tool, receipts, bounds>>

\* The objects of the closure written for the linker, and its output opened.
WriteObjects(i) ==
    /\ proc[i].pc = "objects" /\ Staged(i)
    /\ proc' = [proc EXCEPT ![i].pc = "write", ![i].made =
           [objects |-> [q \in DOMAIN proc[i].inputs |-> proc[i].inputs[q].payload]]]
    /\ staging' = [staging EXCEPT ![proc[i].stage] =
           [object |-> proc'[i].made, completed |-> Partial]]
    /\ UNCHANGED <<files, tool, receipts, bounds>>

\* The contents are complete: the artifact written, or the objects found in
\* the directory linked and the result renamed to "completed".
Complete(i) ==
    /\ proc[i].pc = "write" /\ Staged(i)
    /\ Put(i, "completed", IF proc[i].op = "link"
                           THEN staging[proc[i].stage].object ELSE proc[i].made)
    /\ proc' = [proc EXCEPT ![i].pc = "publish"]
    /\ UNCHANGED <<files, tool, receipts, bounds>>

\* The output opened and rewritten in place, published before it is complete.
PublishEarly(i) ==
    /\ proc[i].pc \in {"write", "publish"} /\ Staged(i)
    /\ LET file == staging[proc[i].stage].completed IN
       IF proc[i].op = "link"
       THEN exe' = file /\ UNCHANGED disk
       ELSE disk' = [disk EXCEPT ![proc[i].package] = file] /\ UNCHANGED exe
    /\ proc' = [Return(i, "receipt") EXCEPT ![i].published = TRUE]
    /\ UNCHANGED <<source, staging, tool, receipts, bounds>>

\* publish_output: one rename.
Publish(i) ==
    /\ proc[i].pc = "publish" /\ Staged(i)
    /\ LET file == staging[proc[i].stage].completed IN
       IF proc[i].op = "link"
       THEN exe' = file /\ UNCHANGED disk
       ELSE disk' = [disk EXCEPT ![proc[i].package] = file] /\ UNCHANGED exe
    /\ Put(i, "completed", None)
    /\ proc' = [Return(i, "receipt") EXCEPT ![i].published = TRUE]
    /\ UNCHANGED <<source, tool, receipts, bounds>>

\* An error found after the output has been replaced as well.
FallibleAfterRename == {"candidate", "load", "read", "stage", "emit", "readback", "encode",
                        "objects", "write", "publish", "return"}

\* The steps that have an error return: invalid inputs or sources, no entry
\* point, staging, tools, writing, and the rename itself.
Fallible == {"candidate", "load", "read", "stage", "emit", "readback", "encode",
             "objects", "write", "publish"}

Fail(i) ==
    /\ proc[i].pc \in Fallible
    /\ proc' = Return(i, "failed")
    /\ UNCHANGED <<files, staging, tool, receipts, bounds>>

\* The process returns: ~PrivateOutputDirectory removes its directory, on
\* every path and unless the removal fails, and a successful compile or reuse prints its receipt.
Exit(i) ==
    /\ proc[i].pc = "return"
    /\ \/ staging' = Restrict(staging, DOMAIN staging \ {proc[i].stage})
       \/ proc[i].stage # None /\ UNCHANGED staging
    /\ receipts' = IF proc[i].outcome = "receipt" /\ proc[i].op # "link"
                   THEN receipts \cup {proc[i].made} ELSE receipts
    /\ proc' = [proc EXCEPT ![i] = Idle]
    /\ UNCHANGED <<files, tool, bounds>>

\* execute_inspect: a receipt for whatever intact artifact a path holds.
Inspect(p) ==
    /\ IsArtifact(disk[p])
    /\ receipts' = receipts \cup {disk[p]}
    /\ UNCHANGED <<files, staging, tool, proc, bounds>>

Step(i) ==
    \/ LoadCandidate(i) \/ ValidateClosure(i) \/ DecideReuse(i) \/ Analyze(i)
    \/ \E q \in Package : LoadArtifact(i, q)
    \/ \E f \in File : ReadSource(i, f)
    \/ MakeStaging(i) \/ EmitObject(i) \/ ReadObject(i) \/ EncodeArtifact(i)
    \/ WriteObjects(i) \/ Complete(i) \/ Publish(i) \/ Fail(i) \/ Exit(i)

Next ==
    \/ \E i \in Proc : RequestAny(i) \/ Step(i) \/ Kill(i)
    \/ \E p \in Package : Damage(p) \/ Inspect(p) \/ \E f \in File : Edit(p, f)
    \/ InstallTools

Spec == Init /\ [][Next]_vars

-----------------------------------------------------------------------------
(***************************************************************************)
(* Properties.                                                             *)
(***************************************************************************)

\* At every moment each output path holds nothing or one complete file of its
\* own package, whatever process was killed or failed in between: an output
\* changes only by the rename of a finished file (publish_output).
OutputsWhole ==
    /\ \A p \in Package : disk[p] \in {None, Damaged} \/ (disk[p] # Partial /\ disk[p].package = p)
    /\ exe # Partial

\* An artifact tells the truth about itself: the sources, dependency digests
\* and toolchain it records are those its declarations and its object were
\* compiled from, also when sources changed during the compilation or two
\* processes picked the same staging name (execute_compile).
Truthful(a) ==
    /\ a.imported = [package |-> a.package, sources |-> a.sources,
                     dependencies |-> a.dependencies, tool |-> a.compatibility]
    /\ a.payload = IF a.kind = "object" THEN a.imported ELSE None

\* Every artifact on disk or behind a receipt is truthful.
ArtifactsTruthful ==
    /\ \A a \in receipts : Truthful(a)
    /\ \A p \in Package : IsArtifact(disk[p]) => Truthful(disk[p])

\* A reuse hit is as good as a compilation: the artifact it reports is the
\* one a compilation from the sources just read and the artifacts just loaded
\* would have made (execute_reuse).
HitIsRebuild ==
    \A i \in Proc :
        proc[i].op = "reuse" /\ proc[i].outcome = "receipt" =>
            /\ proc[i].made.imported = Unit(i)
            /\ proc[i].made.kind = proc[i].kind

\* An executable never mixes code that was compiled against different
\* versions of a package: every object in it was made by one toolchain,
\* against exactly the dependency objects that are linked with it
\* (execute_link).
ExecutableConsistent ==
    exe # None =>
        LET linked == exe.objects IN
        /\ DOMAIN linked = {Root} \cup DependencyClosure({Root})
        /\ \A q \in DOMAIN linked :
               /\ linked[q].package = q
               /\ linked[q].tool = linked[Root].tool
               /\ \A d \in Direct[q] : linked[q].dependencies[d].payload = linked[d]

\* A failed operation has left the previous output in place: nothing can go
\* wrong after the rename (the last statements of execute_compile and
\* execute_link).
FailurePreserves ==
    \A i \in Proc : proc[i].outcome = "failed" => ~proc[i].published
=============================================================================
