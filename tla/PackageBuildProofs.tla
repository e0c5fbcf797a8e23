------------------------ MODULE PackageBuildProofs ------------------------
(***************************************************************************)
(* Proofs about PackageBuild: its five safety properties for every number  *)
(* of processes, packages, source files and requests, however their steps  *)
(* interleave and wherever a process fails or is killed.                   *)
(***************************************************************************)
EXTENDS PackageBuild, TLAPS

-----------------------------------------------------------------------------
(* The inductive invariant.                                                *)

\* What an artifact records is what it was made from, and its dependency
\* records are those of its package's direct dependencies.
Sound(a) ==
    /\ a # Partial
    /\ Truthful(a)
    /\ DOMAIN a.dependencies = Direct[a.package]

\* An executable of objects that fit together.
Linked(x) ==
    /\ x # Partial
    /\ DOMAIN x.objects = {Root} \cup DependencyClosure({Root})
    /\ \A q \in DOMAIN x.objects :
           /\ x.objects[q].package = q
           /\ x.objects[q].tool = x.objects[Root].tool
           /\ \A d \in Direct[q] : x.objects[q].dependencies[d].payload = x.objects[d]

Fields == {"pc", "op", "package", "kind", "inputs", "expected", "toLoad", "toRead",
           "read", "candidate", "attempt", "stage", "payload", "made", "published",
           "outcome"}

Inventory(r) == Restrict(r.inputs, Direct[r.package])
UnitOf(r) == [package |-> r.package, sources |-> r.read,
              dependencies |-> Inventory(r), tool |-> r.expected]

Working == {"stage", "emit", "readback", "encode", "objects", "write", "publish"}

\* The control state: when an outcome is set, which operation is where.
ControlOk(r) ==
    /\ r.pc \in Fallible \cup {"idle", "return"}
    /\ r.pc # "idle" =>
           r.package \in Package /\ r.op \in {"compile", "reuse", "link"}
    /\ r.pc # "return" => r.outcome = None
    /\ r.published => r.pc = "return" /\ r.outcome = "receipt"
    /\ r.pc \in {"emit", "readback", "encode"} => r.op = "compile"
    /\ r.pc = "objects" => r.op = "link"
    /\ r.pc \in Working => r.op \in {"compile", "link"}
    /\ r.attempt[2] \in 0..(Attempts - 1)

\* The inputs: sound artifacts of their packages, and after the load exactly
\* the ones the records of each other name.
InputsOk(r) ==
    /\ \A q \in DOMAIN r.inputs : Sound(r.inputs[q]) /\ r.inputs[q].package = q
    /\ r.op = "link" => /\ DOMAIN r.inputs = {Root} \cup DependencyClosure({Root})
                        /\ r.kind = "object"
    /\ \A q \in DOMAIN r.inputs \ r.toLoad :
           /\ r.inputs[q].compatibility = r.expected
           /\ r.inputs[q].kind = r.kind
    /\ r.pc \in Working \cup {"read"} => r.toLoad = {} /\ PinsSatisfied(r.inputs)

\* The candidate of a reuse, and the artifact a hit reports.
CandidateOk(r) ==
    r.op = "reuse" =>
        /\ r.pc \in {"load", "read"} =>
               /\ Sound(r.candidate)
               /\ r.candidate.package = r.package
               /\ r.candidate.compatibility = r.expected
               /\ r.candidate.kind = r.kind
        /\ r.pc = "read" => r.candidate.dependencies = Inventory(r)
        /\ r.outcome = "receipt" =>
               /\ Sound(r.made)
               /\ r.made.imported = UnitOf(r)
               /\ r.made.kind = r.kind

\* What is made: the payload, the artifact or executable, and the contents of
\* the process's directory dir (if it has one).
OutputOk(r, dirs) ==
    /\ r.pc \in {"candidate", "load", "read", "stage"} => r.payload = None
    /\ r.pc = "emit" => r.kind = "object"
    /\ r.pc = "readback" =>
           /\ r.kind = "object"
           /\ r.stage \in DOMAIN dirs => dirs[r.stage].object = UnitOf(r)
    /\ r.pc = "encode" => r.payload = IF r.kind = "object" THEN UnitOf(r) ELSE None
    /\ r.op = "compile" /\ (r.pc \in {"write", "publish"} \/ r.outcome = "receipt") =>
           Sound(r.made) /\ r.made.package = r.package
    /\ r.op = "link" /\ r.pc \in {"write", "publish"} => Linked(r.made)
    /\ r.op = "link" /\ r.pc = "write" /\ r.stage \in DOMAIN dirs =>
           dirs[r.stage].object = r.made
    /\ r.pc = "publish" /\ r.stage \in DOMAIN dirs => dirs[r.stage].completed = r.made

ProcOk(r, dirs) ==
    DOMAIN r = Fields /\ ControlOk(r) /\ InputsOk(r) /\ CandidateOk(r) /\ OutputOk(r, dirs)

\* A staging directory belongs to one process.
StagingOk ==
    /\ DOMAIN staging \subseteq Tick \X (0..(Attempts - 1))
    /\ \A n \in DOMAIN staging : DOMAIN staging[n] = {"object", "completed"}
    /\ \A i \in Proc : proc[i].stage \in DOMAIN staging \cup {None}
    /\ \A i, j \in Proc : proc[i].stage = proc[j].stage => i = j \/ proc[i].stage = None

FilesOk ==
    /\ DOMAIN disk = Package
    /\ \A p \in Package : \/ disk[p] \in {None, Damaged}
                          \/ Sound(disk[p]) /\ disk[p].package = p
    /\ exe = None \/ Linked(exe)
    /\ \A a \in receipts : Sound(a)

BuildInv ==
    /\ DOMAIN proc = Proc
    /\ \A i \in Proc : ProcOk(proc[i], staging)
    /\ StagingOk
    /\ FilesOk

-----------------------------------------------------------------------------
(* One process at a time.                                                  *)

\* A record r of a process that differs from s in the fields of a set only.
Differs(r, s, fields) ==
    /\ DOMAIN r = Fields
    /\ \A f \in Fields \ fields : r[f] = s[f]

\* A step that changes nothing of the request, the inputs or what is still to
\* load keeps what is known of the inputs, unless it enters the phases that
\* need all of them loaded.
LEMMA InputsKept ==
  ASSUME NEW r, NEW s, NEW fields, Differs(r, s, fields), InputsOk(s),
         fields \cap {"op", "kind", "inputs", "toLoad", "expected"} = {},
         r.pc \in Working \cup {"read"} => s.pc \in Working \cup {"read"}
  PROVE  InputsOk(r)
<1>1. /\ r.op = s.op /\ r.kind = s.kind /\ r.inputs = s.inputs
      /\ r.toLoad = s.toLoad /\ r.expected = s.expected
  BY DEF Differs, Fields
<1> QED BY <1>1 DEF InputsOk

\* A step of process i to the record r that touches no other directory than
\* its own keeps the invariant of the other processes.
LEMMA ProcessStep ==
  ASSUME BuildInv, NEW i \in Proc, NEW r,
         proc' = [proc EXCEPT ![i] = r],
         \A n \in DOMAIN staging' :
           n # proc[i].stage /\ n # r.stage =>
             n \in DOMAIN staging /\ staging'[n] = staging[n],
         ProcOk(r, staging'), StagingOk', FilesOk'
  PROVE  BuildInv'
<1>1. /\ DOMAIN proc' = Proc /\ proc'[i] = r
      /\ \A j \in Proc : j # i => proc'[j] = proc[j]
  BY DEF BuildInv
<1>2. ASSUME NEW j \in Proc, j # i
      PROVE  ProcOk(proc'[j], staging')
  <2>1. proc'[j] = proc[j] /\ ProcOk(proc[j], staging)
    BY <1>1, <1>2 DEF BuildInv
  <2>2. None \notin DOMAIN staging'
    BY NoneAssumption DEF StagingOk
  <2>3. ASSUME proc[j].stage \in DOMAIN staging'
        PROVE  /\ proc[j].stage \in DOMAIN staging
               /\ staging'[proc[j].stage] = staging[proc[j].stage]
    <3>1. proc[j].stage # None
      BY <2>2, <2>3
    <3>2. proc[j].stage # proc[i].stage
      BY <1>2, <3>1 DEF BuildInv, StagingOk
    <3>3. proc[j].stage # r.stage
      BY <1>1, <1>2, <2>1, <3>1 DEF StagingOk
    <3> QED BY <2>3, <3>2, <3>3
  <2>4. OutputOk(proc[j], staging')
    BY <2>1, <2>3 DEF ProcOk, OutputOk
  <2> QED BY <2>1, <2>4 DEF ProcOk
<1> QED BY <1>1, <1>2 DEF BuildInv

\* The same for a step that leaves the staging directories and the files.
LEMMA PrivateStep ==
  ASSUME BuildInv, NEW i \in Proc, NEW r,
         proc' = [proc EXCEPT ![i] = r], r.stage \in {proc[i].stage, None},
         UNCHANGED <<staging, disk, exe, receipts>>,
         ProcOk(r, staging)
  PROVE  BuildInv'
<1>1. /\ DOMAIN proc' = Proc /\ proc'[i] = r
      /\ \A j \in Proc : j # i => proc'[j] = proc[j]
  BY DEF BuildInv
<1>2. StagingOk'
  BY <1>1 DEF BuildInv, StagingOk
<1>3. FilesOk'
  BY DEF BuildInv, FilesOk
<1> QED BY <1>2, <1>3, ProcessStep

\* Every return that reports no artifact.
LEMMA ReturnOk ==
  ASSUME NEW s, NEW dirs, ProcOk(s, dirs), s.pc \in Fallible,
         NEW outcome \in {"failed", "miss"}
  PROVE  LET r == [s EXCEPT !.pc = "return", !.outcome = outcome]
         IN  ProcOk(r, dirs) /\ r.stage = s.stage
<1> DEFINE r == [s EXCEPT !.pc = "return", !.outcome = outcome]
<1>1. /\ Differs(r, s, {"pc", "outcome"}) /\ r.pc = "return" /\ r.outcome = outcome
      /\ r.stage = s.stage
  BY DEF ProcOk, Differs, Fields
<1> HIDE DEF r
<1>2. ControlOk(r)
  BY <1>1 DEF Differs, Fields, ProcOk, ControlOk, Fallible, Working
<1>3. InputsOk(r)
  BY <1>1, InputsKept DEF ProcOk, Working
<1>4. CandidateOk(r)
  BY <1>1 DEF Differs, Fields, ProcOk, CandidateOk
<1>5. OutputOk(r, dirs)
  BY <1>1 DEF Differs, Fields, ProcOk, OutputOk
<1>6. ProcOk(r, dirs)
  BY <1>1, <1>2, <1>3, <1>4, <1>5 DEF ProcOk, Differs
<1> QED BY <1>1, <1>6 DEF r

LEMMA ReturnStep ==
  ASSUME BuildInv, NEW i \in Proc, proc[i].pc \in Fallible,
         NEW outcome \in {"failed", "miss"}, proc' = Return(i, outcome),
         UNCHANGED <<staging, disk, exe, receipts>>
  PROVE  BuildInv'
<1> DEFINE r == [proc[i] EXCEPT !.pc = "return", !.outcome = outcome]
<1>1. proc' = [proc EXCEPT ![i] = r]
  BY DEF Return, BuildInv
<1>2. ProcOk(r, staging) /\ r.stage = proc[i].stage
  BY ReturnOk DEF BuildInv
<1> HIDE DEF r
<1> QED BY <1>1, <1>2, PrivateStep

LEMMA FailInv ==
  ASSUME BuildInv, NEW i \in Proc, Fail(i)
  PROVE  BuildInv'
BY ReturnStep DEF Fail, files

LEMMA LoadCandidateInv ==
  ASSUME BuildInv, NEW i \in Proc, LoadCandidate(i)
  PROVE  BuildInv'
<1> DEFINE s == proc[i]
           c == disk[s.package]
           r == [s EXCEPT !.pc = "load", !.candidate = c]
<1>1. s.pc = "candidate" /\ UNCHANGED <<staging, disk, exe, receipts>>
  BY DEF LoadCandidate, files
<1>2. CASE proc' = Return(i, "miss")
  BY <1>1, <1>2, ReturnStep DEF Fallible
<1>3. CASE /\ IsArtifact(c) /\ c.compatibility = s.expected /\ c.kind = s.kind
           /\ proc' = [proc EXCEPT ![i].pc = "load", ![i].candidate = c]
  <2>1. proc' = [proc EXCEPT ![i] = r]
    BY <1>3 DEF BuildInv
  <2>2. ProcOk(s, staging)
    BY DEF BuildInv
  <2>3. Differs(r, s, {"pc", "candidate"}) /\ r.pc = "load" /\ r.candidate = c
    BY <2>2 DEF ProcOk, Differs, Fields
  <2>4. s.package \in Package
    BY <1>1, <2>2 DEF ProcOk, ControlOk
  <2>5. Sound(c) /\ c.package = s.package
    BY <1>3, <2>4 DEF IsArtifact, BuildInv, FilesOk
  <2> HIDE DEF r, s, c
  <2>6. ControlOk(r)
    BY <1>1, <2>2, <2>3 DEF Differs, Fields, ProcOk, ControlOk, Fallible, Working
  <2>7. InputsOk(r)
    BY <1>1, <2>2, <2>3, InputsKept DEF ProcOk, Working
  <2>8. CandidateOk(r)
    BY <1>1, <1>3, <2>2, <2>3, <2>5, NoneAssumption
    DEF Differs, Fields, ProcOk, CandidateOk, ControlOk
  <2>9. OutputOk(r, staging)
    BY <1>1, <2>2, <2>3, NoneAssumption DEF Differs, Fields, ProcOk, OutputOk, ControlOk
  <2> QED BY <1>1, <2>1, <2>3, <2>6, <2>7, <2>8, <2>9, PrivateStep DEF ProcOk, Differs, Fields, s
<1> QED BY <1>2, <1>3 DEF LoadCandidate

LEMMA LoadArtifactInv ==
  ASSUME BuildInv, NEW i \in Proc, NEW q, LoadArtifact(i, q)
  PROVE  BuildInv'
<1> DEFINE s == proc[i]
           r == [s EXCEPT !.toLoad = @ \ {q}, !.inputs = [@ EXCEPT ![q] = disk[q]]]
<1>1. s.pc = "load" /\ UNCHANGED <<staging, disk, exe, receipts>>
  BY DEF LoadArtifact, files
<1>2. CASE proc' = Return(i, "failed")
  BY <1>1, <1>2, ReturnStep DEF Fallible
<1>3. CASE /\ Accept(i, q)
           /\ proc' = [proc EXCEPT ![i].toLoad = @ \ {q}, ![i].inputs[q] = disk[q]]
  <2>1. proc' = [proc EXCEPT ![i] = r]
    BY <1>3 DEF BuildInv
  <2>2. ProcOk(s, staging)
    BY DEF BuildInv
  <2>3. /\ Differs(r, s, {"toLoad", "inputs"}) /\ r.pc = "load"
        /\ r.toLoad = s.toLoad \ {q} /\ r.inputs = [s.inputs EXCEPT ![q] = disk[q]]
    BY <1>1, <2>2 DEF ProcOk, Differs, Fields
  <2>4. /\ disk[q] = s.inputs[q] /\ disk[q].compatibility = s.expected
        /\ disk[q].kind = s.kind
    BY <1>3 DEF Accept
  <2> HIDE DEF r, s
  <2>5. /\ DOMAIN r.inputs = DOMAIN s.inputs
        /\ \A d \in DOMAIN s.inputs : r.inputs[d] = s.inputs[d]
    BY <2>3, <2>4
  <2>6. ControlOk(r)
    BY <1>1, <2>2, <2>3 DEF Differs, Fields, ProcOk, ControlOk, Fallible, Working
  <2>7. InputsOk(r)
    <3>1. r.op = s.op /\ r.kind = s.kind /\ r.expected = s.expected
      BY <2>3 DEF Differs, Fields
    <3>2. r.pc \notin Working \cup {"read"}
      BY <2>3 DEF Working
    <3>3. \A d \in DOMAIN r.inputs \ r.toLoad : d = q \/ d \in DOMAIN s.inputs \ s.toLoad
      BY <2>3, <2>5
    <3> QED BY <2>2, <2>4, <2>5, <3>1, <3>2, <3>3 DEF ProcOk, InputsOk
  <2>8. CandidateOk(r)
    BY <1>1, <2>2, <2>3, NoneAssumption
    DEF Differs, Fields, ProcOk, CandidateOk, ControlOk
  <2>9. OutputOk(r, staging)
    BY <1>1, <2>2, <2>3, NoneAssumption DEF Differs, Fields, ProcOk, OutputOk, ControlOk
  <2> QED BY <1>1, <2>1, <2>3, <2>6, <2>7, <2>8, <2>9, PrivateStep DEF ProcOk, Differs, Fields, s
<1> QED BY <1>2, <1>3 DEF LoadArtifact

LEMMA ValidateClosureInv ==
  ASSUME BuildInv, NEW i \in Proc, ValidateClosure(i)
  PROVE  BuildInv'
<1> DEFINE s == proc[i]
           next == IF s.op = "link" THEN "stage" ELSE "read"
           r == [s EXCEPT !.pc = next]
<1>1. s.pc = "load" /\ s.toLoad = {} /\ UNCHANGED <<staging, disk, exe, receipts>>
  BY DEF ValidateClosure, files
<1>2. CASE proc' = Return(i, "failed") \/ proc' = Return(i, "miss")
  BY <1>1, <1>2, ReturnStep DEF Fallible
<1>3. CASE /\ PinsSatisfied(s.inputs)
           /\ s.op = "reuse" => s.candidate.dependencies = DependencyInventory(i)
           /\ proc' = [proc EXCEPT ![i].pc = next]
  <2>1. proc' = [proc EXCEPT ![i] = r]
    BY <1>3 DEF BuildInv
  <2>2. ProcOk(s, staging)
    BY DEF BuildInv
  <2>3. Differs(r, s, {"pc"}) /\ r.pc = next
    BY <2>2 DEF ProcOk, Differs, Fields
  <2>4. DependencyInventory(i) = Inventory(s)
    BY DEF DependencyInventory, Inventory
  <2>5. s.op \in {"compile", "reuse", "link"}
    BY <1>1, <2>2 DEF ProcOk, ControlOk
  <2>a. Inventory(r) = Inventory(s)
    BY <2>3 DEF Differs, Fields, Inventory
  <2> HIDE DEF r, s
  <2>6. ControlOk(r)
    BY <1>1, <2>2, <2>3, <2>5 DEF Differs, Fields, ProcOk, ControlOk, Fallible, Working
  <2>7. InputsOk(r)
    BY <1>1, <1>3, <2>2, <2>3 DEF Differs, Fields, ProcOk, InputsOk, Working
  <2>8. CandidateOk(r)
    BY <1>1, <1>3, <2>2, <2>3, <2>4, <2>a, NoneAssumption
    DEF Differs, Fields, ProcOk, CandidateOk, ControlOk
  <2>9. OutputOk(r, staging)
    BY <1>1, <2>2, <2>3, NoneAssumption DEF Differs, Fields, ProcOk, OutputOk, ControlOk
  <2> QED BY <1>1, <2>1, <2>3, <2>6, <2>7, <2>8, <2>9, PrivateStep DEF ProcOk, Differs, Fields, s
<1> QED BY <1>2, <1>3 DEF ValidateClosure

LEMMA ReadSourceInv ==
  ASSUME BuildInv, NEW i \in Proc, NEW f, ReadSource(i, f)
  PROVE  BuildInv'
<1> DEFINE s == proc[i]
           text == [g \in DOMAIN s.read \cup {f} |->
                      IF g = f THEN source[s.package][f] ELSE s.read[g]]
           r == [s EXCEPT !.toRead = @ \ {f}, !.read = text]
<1>1. /\ s.pc = "read" /\ UNCHANGED <<staging, disk, exe, receipts>>
      /\ proc' = [proc EXCEPT ![i] = r]
  BY DEF ReadSource, files, BuildInv
<1>2. ProcOk(s, staging)
  BY DEF BuildInv
<1>3. Differs(r, s, {"toRead", "read"}) /\ r.pc = "read"
  BY <1>1, <1>2 DEF ProcOk, Differs, Fields
<1>4. Inventory(r) = Inventory(s)
  BY <1>3 DEF Differs, Fields, Inventory
<1> HIDE DEF r, s
<1>6. ControlOk(r)
  BY <1>1, <1>2, <1>3 DEF Differs, Fields, ProcOk, ControlOk
<1>7. InputsOk(r)
  BY <1>1, <1>2, <1>3, InputsKept DEF ProcOk, Working
<1>8. CandidateOk(r)
  BY <1>1, <1>2, <1>3, <1>4, NoneAssumption
  DEF Differs, Fields, ProcOk, CandidateOk, ControlOk
<1>9. OutputOk(r, staging)
  BY <1>1, <1>2, <1>3, NoneAssumption
  DEF Differs, Fields, ProcOk, OutputOk, ControlOk
<1> QED
  BY <1>1, <1>3, <1>6, <1>7, <1>8, <1>9, PrivateStep DEF ProcOk, Differs, Fields, s

\* A hit: the candidate's records are those of the sources just read and of
\* the artifacts just loaded, so it is what a compilation would make.
LEMMA DecideReuseInv ==
  ASSUME BuildInv, NEW i \in Proc, DecideReuse(i)
  PROVE  BuildInv'
<1> DEFINE s == proc[i]
           r == [s EXCEPT !.pc = "return", !.outcome = "receipt", !.made = s.candidate]
<1>1. s.pc = "read" /\ s.op = "reuse" /\ UNCHANGED <<staging, disk, exe, receipts>>
  BY DEF DecideReuse, files
<1>2. CASE proc' = Return(i, "miss")
  BY <1>1, <1>2, ReturnStep DEF Fallible
<1>3. CASE /\ SameSources(i)
           /\ proc' = [Return(i, "receipt") EXCEPT ![i].made = s.candidate]
  <2>1. proc' = [proc EXCEPT ![i] = r]
    BY <1>3 DEF BuildInv, Return
  <2>2. ProcOk(s, staging)
    BY DEF BuildInv
  <2>3. /\ Differs(r, s, {"pc", "outcome", "made"})
        /\ r.pc = "return" /\ r.outcome = "receipt" /\ r.made = s.candidate
    BY <2>2 DEF ProcOk, Differs, Fields
  <2>4. s.candidate.sources = s.read
    BY <1>3 DEF SameSources, SourceInventory
  <2>5. UnitOf(r) = UnitOf(s) /\ r.kind = s.kind /\ r.stage = s.stage
    BY <2>3 DEF Differs, Fields, UnitOf, Inventory
  <2> HIDE DEF r, s
  <2>6. ControlOk(r)
    BY <1>1, <2>2, <2>3 DEF Differs, Fields, ProcOk, ControlOk, Fallible, Working
  <2>7. InputsOk(r)
    BY <1>1, <2>2, <2>3, InputsKept DEF ProcOk, Working
  <2>8. CandidateOk(r)
    <3>1. /\ Sound(s.candidate) /\ s.candidate.package = s.package
          /\ s.candidate.compatibility = s.expected /\ s.candidate.kind = s.kind
          /\ s.candidate.dependencies = Inventory(s)
      BY <1>1, <2>2 DEF ProcOk, CandidateOk
    <3>2. s.candidate.imported = UnitOf(s)
      BY <2>4, <3>1 DEF Sound, Truthful, UnitOf
    <3> QED BY <2>3, <2>5, <3>1, <3>2 DEF CandidateOk
  <2>9. OutputOk(r, staging)
    BY <1>1, <2>3 DEF Differs, Fields, OutputOk
  <2> QED BY <1>1, <2>1, <2>3, <2>5, <2>6, <2>7, <2>8, <2>9, PrivateStep
          DEF ProcOk, Differs, s
<1> QED BY <1>2, <1>3 DEF DecideReuse

LEMMA AnalyzeInv ==
  ASSUME BuildInv, NEW i \in Proc, Analyze(i)
  PROVE  BuildInv'
<1> DEFINE s == proc[i]
           r == [s EXCEPT !.pc = "stage"]
<1>1. /\ proc' = [proc EXCEPT ![i] = r]
      /\ s.pc = "read" /\ s.op = "compile"
      /\ UNCHANGED <<staging, disk, exe, receipts>>
  BY DEF Analyze, files, BuildInv
<1>2. ProcOk(s, staging)
  BY DEF BuildInv
<1>3. Differs(r, s, {"pc"}) /\ r.pc = "stage"
  BY <1>2 DEF ProcOk, Differs, Fields
<1> HIDE DEF r, s
<1>4. ControlOk(r)
  BY <1>1, <1>2, <1>3 DEF Differs, Fields, ProcOk, ControlOk, Fallible, Working
<1>5. InputsOk(r)
  BY <1>1, <1>2, <1>3, InputsKept DEF ProcOk, Working
<1>6. CandidateOk(r)
  BY <1>1, <1>3 DEF Differs, Fields, CandidateOk
<1>7. OutputOk(r, staging)
  BY <1>1, <1>2, <1>3, NoneAssumption
  DEF Differs, Fields, ProcOk, OutputOk, ControlOk
<1> QED
  BY <1>1, <1>3, <1>4, <1>5, <1>6, <1>7, PrivateStep DEF ProcOk, Differs, Fields, s

-----------------------------------------------------------------------------
(* The staging directory.                                                  *)

\* A new directory is nobody else's.
LEMMA MakeStagingInv ==
  ASSUME BuildInv, NEW i \in Proc, MakeStaging(i)
  PROVE  BuildInv'
<1> DEFINE s == proc[i]
<1>1. s.pc = "stage" /\ UNCHANGED <<disk, exe, receipts>>
  BY DEF MakeStaging, files
<1>2. PICK tick \in Tick : CreateDirectory(i, <<tick, s.attempt[2]>>)
  BY DEF MakeStaging
<1> DEFINE name == <<tick, s.attempt[2]>>
<1>3. ProcOk(s, staging)
  BY DEF BuildInv
<1>4. name \in Tick \X (0..(Attempts - 1)) /\ name # None
  BY <1>3, NoneAssumption DEF ProcOk, ControlOk
<1>5. CASE name \in DOMAIN staging
  <2>1. UNCHANGED staging
    BY <1>2, <1>5 DEF CreateDirectory
  <2>2. CASE proc' = Return(i, "failed")
    BY <1>1, <2>1, <2>2, ReturnStep DEF Fallible
  <2>3. CASE /\ name[2] + 1 < Attempts
             /\ proc' = [proc EXCEPT ![i].attempt = <<name[1], name[2] + 1>>]
    <3> DEFINE r == [s EXCEPT !.attempt = <<name[1], name[2] + 1>>]
    <3>1. proc' = [proc EXCEPT ![i] = r]
      BY <2>3 DEF BuildInv
    <3>2. Differs(r, s, {"attempt"}) /\ r.attempt[2] = name[2] + 1
      BY <1>3 DEF ProcOk, Differs, Fields
    <3>3. r.attempt[2] \in 0..(Attempts - 1)
      BY <1>4, <2>3, <3>2, BoundAssumption
    <3> HIDE DEF r, s, name
    <3>4. ControlOk(r)
      BY <1>1, <1>3, <3>2, <3>3 DEF Differs, Fields, ProcOk, ControlOk
    <3>5. InputsOk(r)
      BY <1>1, <1>3, <3>2, InputsKept DEF ProcOk, Working
    <3>6. CandidateOk(r)
      BY <1>1, <1>3, <3>2 DEF Differs, Fields, ProcOk, CandidateOk, UnitOf, Inventory
    <3>7. OutputOk(r, staging)
      BY <1>1, <1>3, <3>2 DEF Differs, Fields, ProcOk, OutputOk
    <3> QED
      BY <1>1, <2>1, <3>1, <3>2, <3>4, <3>5, <3>6, <3>7, PrivateStep
      DEF ProcOk, Differs, Fields, s
  <2> QED BY <1>2, <1>5, <2>2, <2>3 DEF CreateDirectory
<1>6. CASE name \notin DOMAIN staging
  <2> DEFINE r == [s EXCEPT !.stage = name, !.pc = AfterStaging(i)]
  <2>1. /\ proc' = [proc EXCEPT ![i] = r]
        /\ staging' = [n \in DOMAIN staging \cup {name} |->
                          IF n = name THEN EmptyDirectory ELSE staging[n]]
    BY <1>2, <1>6 DEF CreateDirectory, BuildInv
  <2>2. /\ Differs(r, s, {"stage", "pc"})
        /\ r.stage = name /\ r.pc = AfterStaging(i)
    BY <1>3 DEF ProcOk, Differs, Fields
  <2>3. s.op \in {"compile", "link"}
    BY <1>1, <1>3 DEF ProcOk, ControlOk, Working
  <2>4. /\ r.pc \in {"emit", "encode", "objects"}
        /\ r.pc = "objects" <=> s.op = "link"
        /\ r.pc = "emit" => s.kind = "object"
        /\ r.pc = "encode" => s.kind # "object"
    BY <2>2, <2>3 DEF AfterStaging
  <2> HIDE DEF r, name
  <2>5. StagingOk'
    <3>1. /\ DOMAIN staging' = DOMAIN staging \cup {name}
          /\ staging'[name] = EmptyDirectory
          /\ \A n \in DOMAIN staging : staging'[n] = staging[n]
      BY <1>6, <2>1
    <3>2. DOMAIN EmptyDirectory = {"object", "completed"}
      BY DEF EmptyDirectory
    <3>3. /\ proc'[i].stage = name
          /\ \A j \in Proc : j # i => proc'[j] = proc[j]
      BY <2>1, <2>2 DEF BuildInv
    <3>4. \A j \in Proc : proc[j].stage # name
      BY <1>4, <1>6 DEF BuildInv, StagingOk
    <3> QED BY <1>4, <3>1, <3>2, <3>3, <3>4 DEF BuildInv, StagingOk
  <2> HIDE DEF s
  <2>6. ControlOk(r)
    BY <1>1, <1>3, <2>2, <2>3, <2>4 DEF Differs, Fields, ProcOk, ControlOk, Fallible, Working
  <2>7. InputsOk(r)
    BY <1>1, <1>3, <2>2, <2>4, InputsKept DEF ProcOk, Working
  <2>8. CandidateOk(r)
    BY <2>2, <2>3 DEF Differs, Fields, CandidateOk
  <2>9. OutputOk(r, staging')
    BY <1>1, <1>3, <2>2, <2>3, <2>4, NoneAssumption
    DEF Differs, Fields, ProcOk, OutputOk, ControlOk
  <2>10. ProcOk(r, staging')
    BY <2>2, <2>6, <2>7, <2>8, <2>9 DEF ProcOk, Differs
  <2>11. FilesOk'
    BY <1>1 DEF BuildInv, FilesOk
  <2>12. \A n \in DOMAIN staging' : n # r.stage =>
           n \in DOMAIN staging /\ staging'[n] = staging[n]
    BY <2>1, <2>2
  <2> QED BY <2>1, <2>5, <2>10, <2>11, <2>12, ProcessStep
<1> QED BY <1>5, <1>6

\* A step of process i that rewrites its own directory.
LEMMA DirectoryStep ==
  ASSUME BuildInv, NEW i \in Proc, NEW r, NEW content,
         proc' = [proc EXCEPT ![i] = r], r.stage = proc[i].stage,
         Staged(i), staging' = [staging EXCEPT ![proc[i].stage] = content],
         DOMAIN content = {"object", "completed"},
         ProcOk(r, staging'), FilesOk'
  PROVE  BuildInv'
<1>1. /\ DOMAIN staging' = DOMAIN staging
      /\ \A n \in DOMAIN staging : n # proc[i].stage => staging'[n] = staging[n]
      /\ staging'[proc[i].stage] = content
  BY DEF Staged
<1>2. \A j \in Proc : proc'[j].stage = proc[j].stage
  BY DEF BuildInv
<1>3. StagingOk'
  BY <1>1, <1>2 DEF BuildInv, StagingOk
<1> QED BY <1>1, <1>3, ProcessStep

LEMMA PutContent ==
  ASSUME BuildInv, NEW i \in Proc, NEW file \in {"object", "completed"}, NEW content,
         Put(i, file, content)
  PROVE  LET new == [staging[proc[i].stage] EXCEPT ![file] = content]
         IN  /\ Staged(i)
             /\ staging' = [staging EXCEPT ![proc[i].stage] = new]
             /\ DOMAIN new = {"object", "completed"}
             /\ staging'[proc[i].stage] = new
             /\ new[file] = content
             /\ \A f \in {"object", "completed"} :
                  f # file => new[f] = staging[proc[i].stage][f]
BY DEF Put, Staged, BuildInv, StagingOk

LEMMA EmitObjectInv ==
  ASSUME BuildInv, NEW i \in Proc, EmitObject(i)
  PROVE  BuildInv'
<1> DEFINE s == proc[i]
           r == [s EXCEPT !.pc = "readback"]
           new == [staging[s.stage] EXCEPT !["object"] = Unit(i)]
<1>1. /\ s.pc = "emit" /\ Put(i, "object", Unit(i)) /\ UNCHANGED <<disk, exe, receipts>>
      /\ proc' = [proc EXCEPT ![i] = r]
  BY DEF EmitObject, files, BuildInv
<1>2. ProcOk(s, staging) /\ s.op = "compile" /\ s.kind = "object"
  BY <1>1 DEF BuildInv, ProcOk, ControlOk, OutputOk
<1>3. Differs(r, s, {"pc"}) /\ r.pc = "readback"
  BY <1>2 DEF ProcOk, Differs, Fields
<1>4. Unit(i) = UnitOf(r)
  BY <1>3 DEF Unit, UnitOf, DependencyInventory, Inventory, Differs, Fields
<1>5. /\ Staged(i) /\ staging' = [staging EXCEPT ![s.stage] = new]
      /\ DOMAIN new = {"object", "completed"}
      /\ staging'[s.stage].object = UnitOf(r)
  BY <1>1, <1>4, PutContent
<1> HIDE DEF r, s, new
<1>6. ControlOk(r)
  BY <1>1, <1>2, <1>3 DEF Differs, Fields, ProcOk, ControlOk, Fallible, Working
<1>7. InputsOk(r)
  BY <1>1, <1>2, <1>3, InputsKept DEF ProcOk, Working
<1>8. CandidateOk(r)
  BY <1>2, <1>3 DEF Differs, Fields, CandidateOk
<1>9. OutputOk(r, staging')
  BY <1>1, <1>2, <1>3, <1>5, NoneAssumption
  DEF Differs, Fields, ProcOk, OutputOk, ControlOk
<1>10. ProcOk(r, staging') /\ r.stage = s.stage
  BY <1>3, <1>6, <1>7, <1>8, <1>9 DEF ProcOk, Differs, Fields
<1>11. FilesOk'
  BY <1>1 DEF BuildInv, FilesOk
<1> QED BY <1>1, <1>5, <1>10, <1>11, DirectoryStep DEF s

LEMMA ReadObjectInv ==
  ASSUME BuildInv, NEW i \in Proc, ReadObject(i)
  PROVE  BuildInv'
<1> DEFINE s == proc[i]
           r == [s EXCEPT !.payload = staging[s.stage].object, !.pc = "encode"]
<1>1. /\ s.pc = "readback" /\ s.stage \in DOMAIN staging
      /\ UNCHANGED <<staging, disk, exe, receipts>>
      /\ proc' = [proc EXCEPT ![i] = r]
  BY DEF ReadObject, Staged, files, BuildInv
<1>2. /\ ProcOk(s, staging) /\ s.op = "compile" /\ s.kind = "object"
      /\ staging[s.stage].object = UnitOf(s)
  BY <1>1 DEF BuildInv, ProcOk, ControlOk, OutputOk
<1>3. Differs(r, s, {"pc", "payload"}) /\ r.pc = "encode" /\ r.payload = UnitOf(s)
  BY <1>2 DEF ProcOk, Differs, Fields
<1>4. UnitOf(r) = UnitOf(s)
  BY <1>3 DEF UnitOf, Inventory, Differs, Fields
<1> HIDE DEF r, s
<1>6. ControlOk(r)
  BY <1>1, <1>2, <1>3 DEF Differs, Fields, ProcOk, ControlOk, Fallible, Working
<1>7. InputsOk(r)
  BY <1>1, <1>2, <1>3, InputsKept DEF ProcOk, Working
<1>8. CandidateOk(r)
  BY <1>2, <1>3 DEF Differs, Fields, CandidateOk
<1>9. OutputOk(r, staging)
  BY <1>1, <1>2, <1>3, <1>4, NoneAssumption
  DEF Differs, Fields, ProcOk, OutputOk, ControlOk
<1> QED
  BY <1>1, <1>3, <1>6, <1>7, <1>8, <1>9, PrivateStep DEF ProcOk, Differs, Fields, s

\* The artifact records what its unit was compiled from.
LEMMA EncodeArtifactInv ==
  ASSUME BuildInv, NEW i \in Proc, EncodeArtifact(i)
  PROVE  BuildInv'
<1> DEFINE s == proc[i]
           artifact == [package |-> s.package, kind |-> s.kind,
                        compatibility |-> s.expected, sources |-> SourceInventory(i),
                        dependencies |-> DependencyInventory(i), imported |-> Unit(i),
                        payload |-> s.payload]
           r == [s EXCEPT !.pc = "write", !.made = artifact]
           new == [staging[s.stage] EXCEPT !["completed"] = Partial]
<1>1. /\ s.pc = "encode" /\ Put(i, "completed", Partial)
      /\ UNCHANGED <<disk, exe, receipts>>
      /\ proc' = [proc EXCEPT ![i] = r]
  BY DEF EncodeArtifact, files, BuildInv
<1>2. /\ ProcOk(s, staging) /\ s.op = "compile"
      /\ s.payload = IF s.kind = "object" THEN UnitOf(s) ELSE None
  BY <1>1 DEF BuildInv, ProcOk, ControlOk, OutputOk
<1>3. Differs(r, s, {"pc", "made"}) /\ r.pc = "write" /\ r.made = artifact
  BY <1>2 DEF ProcOk, Differs, Fields
<1>4. Unit(i) = UnitOf(s)
  BY DEF Unit, UnitOf, DependencyInventory, Inventory
<1>5. /\ Staged(i) /\ staging' = [staging EXCEPT ![s.stage] = new]
      /\ DOMAIN new = {"object", "completed"}
  BY <1>1, PutContent
<1>6. Sound(artifact) /\ artifact.package = s.package
  <2>1. artifact # Partial
    <3>1. "package" \in DOMAIN artifact /\ "package" \notin DOMAIN Partial
      BY DEF Partial
    <3> QED BY <3>1
  <2>2. Truthful(artifact)
    <3>1. /\ artifact.imported = UnitOf(s) /\ artifact.payload = s.payload
          /\ artifact.kind = s.kind
      BY <1>4
    <3>2. UnitOf(s) = [package |-> artifact.package, sources |-> artifact.sources,
                       dependencies |-> artifact.dependencies,
                       tool |-> artifact.compatibility]
      BY DEF UnitOf, Inventory, DependencyInventory, SourceInventory
    <3> QED BY <1>2, <3>1, <3>2 DEF Truthful
  <2>3. DOMAIN artifact.dependencies = Direct[artifact.package]
    BY DEF DependencyInventory, Restrict
  <2> QED BY <2>1, <2>2, <2>3 DEF Sound
<1> HIDE DEF r, s, new, artifact
<1>7. ControlOk(r)
  BY <1>1, <1>2, <1>3 DEF Differs, Fields, ProcOk, ControlOk, Fallible, Working
<1>8. InputsOk(r)
  BY <1>1, <1>2, <1>3, InputsKept DEF ProcOk, Working
<1>9. CandidateOk(r)
  BY <1>2, <1>3 DEF Differs, Fields, CandidateOk
<1>10. OutputOk(r, staging')
  BY <1>2, <1>3, <1>6 DEF Differs, Fields, OutputOk
<1>11. ProcOk(r, staging') /\ r.stage = s.stage
  BY <1>3, <1>7, <1>8, <1>9, <1>10 DEF ProcOk, Differs, Fields
<1>12. FilesOk'
  BY <1>1 DEF BuildInv, FilesOk
<1> QED BY <1>1, <1>5, <1>11, <1>12, DirectoryStep DEF s

\* Objects whose dependency records name each other link consistently.
LEMMA LinkedObjects ==
  ASSUME NEW s, InputsOk(s), s.op = "link", s.toLoad = {}, PinsSatisfied(s.inputs)
  PROVE  Linked([objects |-> [q \in DOMAIN s.inputs |-> s.inputs[q].payload]])
<1> DEFINE x == [objects |-> [q \in DOMAIN s.inputs |-> s.inputs[q].payload]]
<1>1. x # Partial
  <2>1. "objects" \in DOMAIN x /\ "objects" \notin DOMAIN Partial
    BY DEF Partial
  <2> QED BY <2>1
<1>2. /\ DOMAIN x.objects = DOMAIN s.inputs
      /\ \A q \in DOMAIN s.inputs : x.objects[q] = s.inputs[q].payload
  OBVIOUS
<1>3. DOMAIN s.inputs = {Root} \cup DependencyClosure({Root}) /\ s.kind = "object"
  BY DEF InputsOk
<1>4. \A q \in DOMAIN s.inputs :
        /\ s.inputs[q].payload = [package |-> q, sources |-> s.inputs[q].sources,
                                  dependencies |-> s.inputs[q].dependencies,
                                  tool |-> s.expected]
        /\ DOMAIN s.inputs[q].dependencies = Direct[q]
  BY <1>3 DEF InputsOk, Sound, Truthful
<1>5. \A q \in DOMAIN s.inputs : /\ s.inputs[q].payload.package = q
                                 /\ s.inputs[q].payload.tool = s.expected
                                 /\ s.inputs[q].payload.dependencies =
                                      s.inputs[q].dependencies
  <2> SUFFICES ASSUME NEW q \in DOMAIN s.inputs
               PROVE  /\ s.inputs[q].payload.package = q
                      /\ s.inputs[q].payload.tool = s.expected
                      /\ s.inputs[q].payload.dependencies = s.inputs[q].dependencies
    OBVIOUS
  <2> DEFINE unit == [package |-> q, sources |-> s.inputs[q].sources,
                      dependencies |-> s.inputs[q].dependencies, tool |-> s.expected]
  <2>1. s.inputs[q].payload = unit
    BY <1>4
  <2>2. /\ unit.package = q /\ unit.tool = s.expected
        /\ unit.dependencies = s.inputs[q].dependencies
    OBVIOUS
  <2> HIDE DEF unit
  <2> QED BY <2>1, <2>2
<1>6. \A q \in DOMAIN s.inputs : \A d \in Direct[q] :
        d \in DOMAIN s.inputs /\ s.inputs[q].dependencies[d] = s.inputs[d]
  BY <1>4 DEF PinsSatisfied
<1> HIDE DEF x
<1>7. ASSUME NEW q \in DOMAIN x.objects
      PROVE  /\ x.objects[q].package = q
             /\ x.objects[q].tool = s.expected
             /\ \A d \in Direct[q] : x.objects[q].dependencies[d].payload = x.objects[d]
  <2>1. q \in DOMAIN s.inputs /\ x.objects[q] = s.inputs[q].payload
    BY <1>2
  <2>2. x.objects[q].dependencies = s.inputs[q].dependencies
    BY <1>5, <2>1
  <2>3. ASSUME NEW d \in Direct[q]
        PROVE  x.objects[q].dependencies[d].payload = x.objects[d]
    <3>1. d \in DOMAIN s.inputs /\ s.inputs[q].dependencies[d] = s.inputs[d]
      BY <1>6, <2>1
    <3> QED BY <1>2, <2>2, <3>1
  <2> QED BY <1>5, <2>1, <2>3
<1>8. Root \in DOMAIN x.objects
  BY <1>2, <1>3
<1>9. x.objects[Root].tool = s.expected
  BY <1>7, <1>8
<1>10. Linked(x)
  BY <1>1, <1>2, <1>3, <1>7, <1>9 DEF Linked
<1> QED BY <1>10 DEF x

LEMMA WriteObjectsInv ==
  ASSUME BuildInv, NEW i \in Proc, WriteObjects(i)
  PROVE  BuildInv'
<1> DEFINE s == proc[i]
           program == [objects |-> [q \in DOMAIN s.inputs |-> s.inputs[q].payload]]
           r == [s EXCEPT !.pc = "write", !.made = program]
           new == [object |-> program, completed |-> Partial]
<1>1. /\ s.pc = "objects" /\ Staged(i) /\ UNCHANGED <<disk, exe, receipts>>
      /\ proc' = [proc EXCEPT ![i] = r]
      /\ staging' = [staging EXCEPT ![s.stage] =
                       [object |-> proc'[i].made, completed |-> Partial]]
  BY DEF WriteObjects, files, BuildInv
<1>2. /\ ProcOk(s, staging) /\ s.op = "link" /\ s.toLoad = {} /\ InputsOk(s)
      /\ PinsSatisfied(s.inputs)
  BY <1>1 DEF BuildInv, ProcOk, ControlOk, InputsOk, Working
<1>3. Linked(program)
  BY <1>2, LinkedObjects
<1>4. Differs(r, s, {"pc", "made"}) /\ r.pc = "write" /\ r.made = program
  BY <1>2 DEF ProcOk, Differs, Fields
<1>5. /\ staging' = [staging EXCEPT ![s.stage] = new]
      /\ DOMAIN new = {"object", "completed"}
      /\ staging'[s.stage].object = program
  <2>1. proc'[i] = r
    BY <1>1 DEF BuildInv
  <2> HIDE DEF r, program
  <2> QED BY <1>1, <1>4, <2>1 DEF Staged
<1> HIDE DEF r, s, new, program
<1>6. ControlOk(r)
  BY <1>1, <1>2, <1>4 DEF Differs, Fields, ProcOk, ControlOk, Fallible, Working
<1>7. InputsOk(r)
  BY <1>1, <1>2, <1>4, InputsKept DEF Working
<1>8. CandidateOk(r)
  BY <1>2, <1>4 DEF Differs, Fields, CandidateOk
<1>9. OutputOk(r, staging')
  BY <1>2, <1>3, <1>4, <1>5 DEF Differs, Fields, OutputOk
<1>10. ProcOk(r, staging') /\ r.stage = s.stage
  BY <1>4, <1>6, <1>7, <1>8, <1>9 DEF ProcOk, Differs, Fields
<1>11. FilesOk'
  BY <1>1 DEF BuildInv, FilesOk
<1> QED BY <1>1, <1>5, <1>10, <1>11, DirectoryStep DEF s

LEMMA CompleteInv ==
  ASSUME BuildInv, NEW i \in Proc, Complete(i)
  PROVE  BuildInv'
<1> DEFINE s == proc[i]
           r == [s EXCEPT !.pc = "publish"]
           file == IF s.op = "link" THEN staging[s.stage].object ELSE s.made
           new == [staging[s.stage] EXCEPT !["completed"] = s.made]
<1>1. /\ s.pc = "write" /\ s.stage \in DOMAIN staging
      /\ Put(i, "completed", file) /\ UNCHANGED <<disk, exe, receipts>>
      /\ proc' = [proc EXCEPT ![i] = r]
  BY DEF Complete, Staged, files, BuildInv
<1>2. /\ ProcOk(s, staging) /\ s.op \in {"compile", "link"} /\ file = s.made
  BY <1>1 DEF BuildInv, ProcOk, ControlOk, OutputOk, Working
<1>3. Differs(r, s, {"pc"}) /\ r.pc = "publish"
  BY <1>2 DEF ProcOk, Differs, Fields
<1>4. Put(i, "completed", s.made)
  BY <1>1, <1>2
<1>5. /\ Staged(i) /\ staging' = [staging EXCEPT ![s.stage] = new]
      /\ DOMAIN new = {"object", "completed"}
      /\ staging'[s.stage].completed = s.made
  BY <1>4, PutContent
<1> HIDE DEF r, s, new, file
<1>6. ControlOk(r)
  BY <1>1, <1>2, <1>3 DEF Differs, Fields, ProcOk, ControlOk, Fallible, Working
<1>7. InputsOk(r)
  BY <1>1, <1>2, <1>3, InputsKept DEF ProcOk, Working
<1>8. CandidateOk(r)
  BY <1>2, <1>3 DEF Differs, Fields, CandidateOk
<1>9. OutputOk(r, staging')
  BY <1>1, <1>2, <1>3, <1>5 DEF Differs, Fields, ProcOk, OutputOk
<1>10. ProcOk(r, staging') /\ r.stage = s.stage
  BY <1>3, <1>6, <1>7, <1>8, <1>9 DEF ProcOk, Differs, Fields
<1>11. FilesOk'
  BY <1>1 DEF BuildInv, FilesOk
<1> QED BY <1>1, <1>5, <1>10, <1>11, DirectoryStep DEF s

\* The rename puts a finished file in place.
LEMMA PublishInv ==
  ASSUME BuildInv, NEW i \in Proc, Publish(i)
  PROVE  BuildInv'
<1> DEFINE s == proc[i]
           r == [s EXCEPT !.pc = "return", !.outcome = "receipt", !.published = TRUE]
           file == staging[s.stage].completed
           new == [staging[s.stage] EXCEPT !["completed"] = None]
<1>1. /\ s.pc = "publish" /\ s.stage \in DOMAIN staging
      /\ Put(i, "completed", None) /\ UNCHANGED receipts
      /\ proc' = [proc EXCEPT ![i] = r]
      /\ IF s.op = "link" THEN exe' = file /\ UNCHANGED disk
         ELSE disk' = [disk EXCEPT ![s.package] = file] /\ UNCHANGED exe
  BY DEF Publish, Return, Staged, BuildInv
<1>2. /\ ProcOk(s, staging) /\ s.op \in {"compile", "link"} /\ file = s.made
      /\ s.package \in Package
      /\ s.op = "compile" => Sound(s.made) /\ s.made.package = s.package
      /\ s.op = "link" => Linked(s.made)
  BY <1>1 DEF BuildInv, ProcOk, ControlOk, OutputOk, Working
<1>3. /\ Differs(r, s, {"pc", "outcome", "published"})
      /\ r.pc = "return" /\ r.outcome = "receipt"
  BY <1>2 DEF ProcOk, Differs, Fields
<1>4. /\ Staged(i) /\ staging' = [staging EXCEPT ![s.stage] = new]
      /\ DOMAIN new = {"object", "completed"}
  BY <1>1, PutContent
<1> HIDE DEF r, s, new, file
<1>5. FilesOk'
  <2>1. CASE s.op = "link"
    BY <1>1, <1>2, <2>1 DEF BuildInv, FilesOk
  <2>2. CASE s.op # "link"
    <3>1. /\ DOMAIN disk' = Package /\ disk'[s.package] = s.made
          /\ \A p \in Package : p # s.package => disk'[p] = disk[p]
      BY <1>1, <1>2, <2>2 DEF BuildInv, FilesOk
    <3> QED BY <1>1, <1>2, <2>2, <3>1 DEF BuildInv, FilesOk
  <2> QED BY <2>1, <2>2
<1>6. ControlOk(r)
  BY <1>1, <1>2, <1>3 DEF Differs, Fields, ProcOk, ControlOk, Fallible, Working
<1>7. InputsOk(r)
  BY <1>1, <1>2, <1>3, InputsKept DEF ProcOk, Working
<1>8. CandidateOk(r)
  BY <1>2, <1>3 DEF Differs, Fields, CandidateOk
<1>9. OutputOk(r, staging')
  BY <1>2, <1>3 DEF Differs, Fields, OutputOk
<1>10. ProcOk(r, staging') /\ r.stage = s.stage
  BY <1>3, <1>6, <1>7, <1>8, <1>9 DEF ProcOk, Differs, Fields
<1> QED BY <1>1, <1>4, <1>5, <1>10, DirectoryStep DEF s

-----------------------------------------------------------------------------
(* Requests, ends and what happens around the compiler.                    *)

LEMMA IdleOk ==
  ASSUME NEW dirs
  PROVE  ProcOk(Idle, dirs) /\ Idle.stage = None
<1>1. /\ DOMAIN Idle = Fields /\ Idle.pc = "idle" /\ Idle.op = None /\ Idle.stage = None
      /\ Idle.outcome = None /\ Idle.published = FALSE /\ Idle.toLoad = {}
      /\ Idle.attempt[2] = 0 /\ DOMAIN Idle.inputs = {}
  BY DEF Idle, Fields
<1>2. ControlOk(Idle)
  BY <1>1, BoundAssumption DEF ControlOk, Fallible, Working
<1>3. InputsOk(Idle)
  BY <1>1, NoneAssumption DEF InputsOk, Working
<1>4. CandidateOk(Idle)
  BY <1>1, NoneAssumption DEF CandidateOk
<1>5. OutputOk(Idle, dirs)
  BY <1>1, NoneAssumption DEF OutputOk
<1> QED BY <1>1, <1>2, <1>3, <1>4, <1>5 DEF ProcOk

LEMMA KillInv ==
  ASSUME BuildInv, NEW i \in Proc, Kill(i)
  PROVE  BuildInv'
BY IdleOk, PrivateStep DEF Kill, files

\* The artifacts a request is given come from receipts.
LEMMA RequestInv ==
  ASSUME BuildInv, NEW i \in Proc, NEW p \in Package, NEW op \in {"compile", "reuse", "link"},
         NEW k, NEW S, NEW in \in Given(S), Request(i, op, p, k, in),
         op = "link" => S = {Root} \cup DependencyClosure({Root}) /\ k = "object"
  PROVE  BuildInv'
<1> DEFINE first == IF op = "reuse" THEN "candidate" ELSE "load"
           todo == IF op = "link" THEN {} ELSE File
           r == [Idle EXCEPT !.pc = first, !.op = op, !.package = p, !.kind = k,
                             !.inputs = in, !.expected = tool, !.toLoad = DOMAIN in,
                             !.toRead = todo]
<1>1. proc' = [proc EXCEPT ![i] = r] /\ UNCHANGED <<staging, disk, exe, receipts>>
  BY DEF Request, files
<1>2. /\ DOMAIN r = Fields /\ r.pc = first /\ r.op = op /\ r.package = p /\ r.kind = k
      /\ r.inputs = in /\ r.toLoad = DOMAIN in /\ r.attempt = <<None, 0>>
      /\ r.stage = None /\ r.payload = None /\ r.published = FALSE /\ r.outcome = None
  BY DEF Idle, Fields
<1>3. DOMAIN in = S /\ \A q \in S : Sound(in[q]) /\ in[q].package = q
  BY DEF Given, BuildInv, FilesOk
<1> HIDE DEF r
<1>4. ControlOk(r)
  BY <1>2, BoundAssumption DEF ControlOk, Fallible, Working
<1>5. InputsOk(r)
  BY <1>2, <1>3 DEF InputsOk, Working
<1>6. CandidateOk(r)
  BY <1>2, NoneAssumption DEF CandidateOk
<1>7. OutputOk(r, staging)
  BY <1>2, NoneAssumption DEF OutputOk
<1> QED BY <1>1, <1>2, <1>4, <1>5, <1>6, <1>7, PrivateStep DEF ProcOk

LEMMA RequestAnyInv ==
  ASSUME BuildInv, NEW i \in Proc, RequestAny(i)
  PROVE  BuildInv'
<1>1. CASE \E p \in Package, k \in Kind, op \in {"compile", "reuse"} :
             \E in \in Given(DependencyClosure({p})) : Request(i, op, p, k, in)
  BY <1>1, RequestInv
<1>2. CASE \E in \in Given({Root} \cup DependencyClosure({Root})) :
             Request(i, "link", Root, "object", in)
  BY <1>2, RequestInv, GraphAssumption
<1> QED BY <1>1, <1>2 DEF RequestAny

\* The directory removed is the process's own, and a receipt names what it made.
LEMMA ExitInv ==
  ASSUME BuildInv, NEW i \in Proc, Exit(i)
  PROVE  BuildInv'
<1> DEFINE s == proc[i]
<1>1. /\ s.pc = "return" /\ UNCHANGED <<disk, exe>>
      /\ proc' = [proc EXCEPT ![i] = Idle]
      /\ receipts' = IF s.outcome = "receipt" /\ s.op # "link"
                     THEN receipts \cup {s.made} ELSE receipts
  BY DEF Exit, files
<1>2. ProcOk(s, staging) /\ s.op \in {"compile", "reuse", "link"}
  BY <1>1 DEF BuildInv, ProcOk, ControlOk
<1>3. /\ DOMAIN staging' \subseteq DOMAIN staging
      /\ \A n \in DOMAIN staging' : staging'[n] = staging[n]
      /\ \A n \in DOMAIN staging : n # s.stage => n \in DOMAIN staging'
  BY DEF Exit, Restrict
<1>4. FilesOk'
  <2>1. s.outcome = "receipt" /\ s.op # "link" => Sound(s.made)
    BY <1>2 DEF ProcOk, CandidateOk, OutputOk
  <2> QED BY <1>1, <2>1 DEF BuildInv, FilesOk
<1>5. /\ DOMAIN proc' = Proc /\ proc'[i].stage = None
      /\ \A j \in Proc : j # i => proc'[j].stage = proc[j].stage
  BY <1>1, IdleOk DEF BuildInv
<1>6. StagingOk'
  <2>1. \A j \in Proc : proc'[j].stage \in DOMAIN staging' \cup {None}
    BY <1>3, <1>5 DEF BuildInv, StagingOk
  <2>2. \A j, k \in Proc : proc'[j].stage = proc'[k].stage => j = k \/ proc'[j].stage = None
    BY <1>5 DEF BuildInv, StagingOk
  <2> QED BY <1>3, <2>1, <2>2 DEF BuildInv, StagingOk
<1> QED BY <1>1, <1>3, <1>4, <1>6, IdleOk, ProcessStep

LEMMA AroundInv ==
  ASSUME BuildInv, NEW p \in Package,
         Damage(p) \/ Inspect(p) \/ (\E f \in File : Edit(p, f)) \/ InstallTools
  PROVE  BuildInv'
<1>1. UNCHANGED <<proc, staging, exe>>
  BY DEF Damage, Inspect, Edit, InstallTools, files
<1>2. FilesOk'
  <2>1. CASE Damage(p)
    BY <1>1, <2>1 DEF Damage, BuildInv, FilesOk
  <2>2. CASE Inspect(p)
    BY <1>1, <2>2 DEF Inspect, IsArtifact, files, BuildInv, FilesOk
  <2>3. CASE (\E f \in File : Edit(p, f)) \/ InstallTools
    BY <1>1, <2>3 DEF Edit, InstallTools, files, BuildInv, FilesOk
  <2> QED BY <2>1, <2>2, <2>3
<1>3. StagingOk'
  BY <1>1 DEF BuildInv, StagingOk
<1> QED BY <1>1, <1>2, <1>3 DEF BuildInv

LEMMA InitInv == Init => BuildInv
<1> SUFFICES ASSUME Init PROVE BuildInv
  OBVIOUS
<1>1. DOMAIN proc = Proc /\ \A i \in Proc : proc[i] = Idle
  BY DEF Init
<1>2. \A i \in Proc : ProcOk(proc[i], staging) /\ proc[i].stage = None
  BY <1>1, IdleOk
<1>3. StagingOk
  BY <1>2 DEF Init, StagingOk
<1>4. FilesOk
  BY DEF Init, FilesOk
<1> QED BY <1>1, <1>2, <1>3, <1>4 DEF BuildInv

LEMMA StepInv ==
  ASSUME BuildInv, NEW i \in Proc, Step(i)
  PROVE  BuildInv'
BY LoadCandidateInv, ValidateClosureInv, DecideReuseInv, AnalyzeInv, LoadArtifactInv,
   ReadSourceInv, MakeStagingInv, EmitObjectInv, ReadObjectInv, EncodeArtifactInv,
   WriteObjectsInv, CompleteInv, PublishInv, FailInv, ExitInv
DEF Step

LEMMA NextInv == BuildInv /\ [Next]_vars => BuildInv'
<1> SUFFICES ASSUME BuildInv, [Next]_vars PROVE BuildInv'
  OBVIOUS
<1>1. CASE UNCHANGED vars
  BY <1>1 DEF vars, files, BuildInv, StagingOk, FilesOk
<1>2. CASE \E i \in Proc : RequestAny(i) \/ Step(i) \/ Kill(i)
  BY <1>2, RequestAnyInv, StepInv, KillInv
<1>3. CASE \E p \in Package : Damage(p) \/ Inspect(p) \/ \E f \in File : Edit(p, f)
  BY <1>3, AroundInv
<1>4. CASE InstallTools
  BY <1>4, AroundInv, GraphAssumption
<1> QED BY <1>1, <1>2, <1>3, <1>4 DEF Next

\* BuildInv holds in every reachable state of any number of processes: control,
\* inputs, candidates, directories and files of the package operations stay
\* consistent with each other (execute_compile, execute_reuse, execute_link).
THEOREM BuildInvariant == Spec => []BuildInv
<1>1. Init => BuildInv
  BY InitInv
<1>2. BuildInv /\ [Next]_vars => BuildInv'
  BY NextInv
<1> QED BY <1>1, <1>2, PTL DEF Spec

\* Whatever process is killed or fails, an output path holds nothing or one
\* complete file of its own package (publish_output).
THEOREM OutputsStayWhole == Spec => []OutputsWhole
<1>1. BuildInv => OutputsWhole
  BY NoneAssumption DEF BuildInv, FilesOk, Sound, Linked, OutputsWhole
<1> QED BY <1>1, BuildInvariant, PTL

\* Every artifact on disk or behind a receipt records the sources, dependencies
\* and toolchain it was compiled from, for any interleaving of compilations,
\* edits and kills (execute_compile).
THEOREM ArtifactsStayTruthful == Spec => []ArtifactsTruthful
<1>1. BuildInv => ArtifactsTruthful
  BY DEF BuildInv, FilesOk, Sound, IsArtifact, ArtifactsTruthful
<1> QED BY <1>1, BuildInvariant, PTL

\* A linked executable never mixes objects compiled against different versions
\* of a package (execute_link).
THEOREM ExecutableStaysConsistent == Spec => []ExecutableConsistent
<1>1. BuildInv => ExecutableConsistent
  BY DEF BuildInv, FilesOk, Linked, ExecutableConsistent
<1> QED BY <1>1, BuildInvariant, PTL

\* An operation that reports a failure has not replaced its output
\* (the ends of execute_compile and execute_link).
THEOREM FailuresPreserve == Spec => []FailurePreserves
<1>1. BuildInv => FailurePreserves
  BY DEF BuildInv, ProcOk, ControlOk, FailurePreserves
<1> QED BY <1>1, BuildInvariant, PTL

\* A reuse hit reports the artifact that compiling the sources just read
\* against the artifacts just loaded would make (execute_reuse).
THEOREM HitsAreRebuilds == Spec => []HitIsRebuild
<1>1. ASSUME NEW i \in Proc PROVE Unit(i) = UnitOf(proc[i])
  BY DEF Unit, UnitOf, DependencyInventory, Inventory
<1>2. BuildInv => HitIsRebuild
  BY <1>1 DEF BuildInv, ProcOk, CandidateOk, HitIsRebuild
<1> QED BY <1>2, BuildInvariant, PTL
=============================================================================
