---------------------------- MODULE ManagedHeap ----------------------------
(***************************************************************************)
(* The managed heap of the native runtime (runtime/runtime.cc): the        *)
(* allocation registry, the precise root frames, the mark-and-sweep        *)
(* collector that runs at allocation safepoints, and the native helpers    *)
(* that hold references of their own across a safepoint.                   *)
(*                                                                         *)
(* One mutator, stop the world: while `phase' is not "run" only the        *)
(* collector steps.  An allocation is three steps: the request with its    *)
(* threshold test, the collection if the test asks for one, and the        *)
(* reservation of storage.  Addresses are the storage the host allocator   *)
(* can return, so a freed address may come back and running out of them    *)
(* is the "allocation failed" abort.                                       *)
(*                                                                         *)
(* Abstracted: byte offsets of references (an object is the sequence of    *)
(* the references its descriptor or its element layout lists), string and  *)
(* scalar contents, the hash table that finds registry entries (module     *)
(* AllocationIndex), and the LIFO order of the mark worklist (any order).  *)
(* Descriptor validation (module TypeDescriptors of the plan) is passed:   *)
(* emitted descriptors are valid.                                          *)
(***************************************************************************)
EXTENDS Integers, Sequences, FiniteSets

CONSTANTS
  Address,          \* storage the host allocator can hand out
  Null,             \* the null reference
  None,             \* no pending allocation
  ObjectShapes,     \* descriptors of classes and value boxes: [kind, size, refs, owns]
  StringSize,       \* sizeof(ClothString)
  ArraySize,        \* sizeof(ClothArray)
  PointerSize,      \* sizeof(void*)
  ErrorSize,        \* sizeof(ClothError)
  Floor,            \* kInitialCollectionThreshold
  MaxBytes,         \* UINT64_MAX as the limit of byte counts
  MaxCount,         \* UINT64_MAX as the limit of object counts and identities
  MaxCollections,   \* UINT64_MAX as the limit of collection_count
  SlotCount,        \* root slots of a generated frame
  MaxDepth,         \* bound on nested root frames
  MaxLength         \* bound on array lengths, string bytes and arguments

Kinds == {"class", "string", "array", "error", "box"}

Shape == [kind : Kinds, size : Nat, refs : Nat, owns : BOOLEAN]

ASSUME HeapConstants ==
  /\ Null \notin Address
  /\ IsFiniteSet(Address)
  /\ ObjectShapes \subseteq Shape
  /\ \A s \in ObjectShapes : /\ s.kind \in {"class", "error", "box"}
                             /\ ~s.owns
                             /\ s.size > 0
  /\ StringSize \in Nat \ {0} /\ ArraySize \in Nat \ {0}
  /\ PointerSize \in Nat \ {0} /\ ErrorSize \in Nat \ {0}
  /\ Floor \in Nat /\ MaxBytes \in Nat /\ MaxCount \in Nat \ {0}
  /\ MaxCollections \in Nat /\ Floor <= MaxBytes
  /\ SlotCount \in Nat \ {0} /\ MaxDepth \in Nat \ {0} /\ MaxLength \in Nat

Ref == Address \cup {Null}
Slot == 1..SlotCount

VARIABLES
  heap,          \* registry: address -> object (header, references, identity)
  payloads,      \* addresses whose string bytes or array data are allocated
  frames,        \* root frame stack, last is current_root_frame
  phase,         \* "run", "mark" or "sweep"
  marked,        \* allocations with the mark bit set
  worklist,      \* marked allocations not yet scanned
  unswept,       \* registry entries the sweep has not reached
  pending,       \* the allocation in progress, or None
  native,        \* progress of a native helper: "none", "divzero", "args"
  argsLeft,      \* arguments cloth_rt_program_arguments still has to copy
  started,       \* the entry point has run cloth_rt_program_arguments
  liveObjects, liveBytes, peakBytes, collections, threshold, nextIdentity,
  outcome        \* "running", "aborted" by runtime_failure, or "exited"

gcVars == <<phase, marked, worklist, unswept>>
counterVars == <<liveObjects, liveBytes, peakBytes, collections, threshold,
                 nextIdentity>>
nativeVars == <<native, argsLeft, started>>
vars == <<heap, payloads, frames, gcVars, pending, nativeVars, counterVars,
          outcome>>

-----------------------------------------------------------------------------
(* Shapes: what an allocation call asks for.                               *)

\* A string literal or type name borrows its bytes; a computed string owns them.
StringShape(bytes, owned) ==
  [kind |-> "string", size |-> StringSize + (IF owned THEN bytes ELSE 0),
   refs |-> 0, owns |-> owned]

ArrayShape(length, references) ==
  [kind |-> "array", size |-> ArraySize + length * PointerSize,
   refs |-> IF references THEN length ELSE 0, owns |-> TRUE]

ErrorShape == [kind |-> "error", size |-> ErrorSize, refs |-> 1, owns |-> FALSE]

EmptyFrame == [s \in Slot |-> Null]

\* allocate_aligned zero-fills, so every reference starts null.
NewObject(shape) ==
  [kind |-> shape.kind, size |-> shape.size, owns |-> shape.owns,
   fields |-> [i \in 1..shape.refs |-> Null], identity |-> nextIdentity]

Top == frames[Len(frames)]
FieldRefs(a) == {heap[a].fields[i] : i \in DOMAIN heap[a].fields}

\* Mutants: the walk starts one frame too low, or stops after one frame.
RootsBelowTop ==
  {frames[d][s] : d \in DOMAIN frames \ {Len(frames)}, s \in Slot} \ {Null}
RootsTopOnly == {Top[s] : s \in Slot} \ {Null}

\* The root loop over the frame chain, from current_root_frame outwards.
Roots == {frames[d][s] : d \in DOMAIN frames, s \in Slot} \ {Null}

\* Mutant: no test for null or unregistered references.
FindAllocationUnchecked(refs) == refs

\* find_allocation: a reference that is not in the registry is ignored.
FindAllocation(refs) == refs \cap DOMAIN heap

SaturatingDouble(n) == IF n > MaxBytes \div 2 THEN MaxBytes ELSE 2 * n
Maximum(m, n) == IF m >= n THEN m ELSE n

Running == outcome = "running"
Idle == Running /\ phase = "run" /\ pending = None /\ native = "none"

\* runtime_failure: the process aborts, nothing else happens.
RuntimeFailure ==
  /\ outcome' = "aborted"
  /\ UNCHANGED <<heap, payloads, frames, gcVars, pending, nativeVars,
                 counterVars>>

-----------------------------------------------------------------------------
(* The collector.                                                          *)

\* collect_heap up to the end of mark_reachable_objects' root loop.
StartCollection ==
  /\ phase' = "mark"
  /\ marked' = marked \cup FindAllocation(Roots)
  /\ worklist' = FindAllocation(Roots) \ marked
  /\ UNCHANGED unswept

\* Mutant: references of the object are not followed.
ScanObjectShallow(a) ==
  /\ worklist' = worklist \ {a}
  /\ UNCHANGED marked

\* enqueue_reference on every reference of one object taken off the worklist.
ScanObject(a) ==
  LET fresh == FindAllocation(FieldRefs(a)) \ marked
  IN  /\ marked' = marked \cup fresh
      /\ worklist' = (worklist \ {a}) \cup fresh

MarkStep ==
  /\ Running /\ phase = "mark"
  /\ \E a \in worklist : ScanObject(a)
  /\ UNCHANGED <<heap, payloads, frames, phase, unswept, pending, nativeVars,
                 counterVars, outcome>>

StartSweep ==
  /\ Running /\ phase = "mark" /\ worklist = {}
  /\ phase' = "sweep"
  /\ unswept' = DOMAIN heap
  /\ UNCHANGED <<heap, payloads, frames, marked, worklist, pending, nativeVars,
                 counterVars, outcome>>

\* Mutant: the mark stays set.
SurviveMarked(a) ==
  /\ a \in marked
  /\ UNCHANGED <<marked, heap, payloads, liveObjects, liveBytes>>

\* A marked entry survives and its mark is cleared for the next collection.
Survive(a) ==
  /\ a \in marked
  /\ marked' = marked \ {a}
  /\ UNCHANGED <<heap, payloads, liveObjects, liveBytes>>

\* What destroy_managed_object frees besides the object, by its kind.
OwnedPayload(a) == IF heap[a].owns THEN {a} ELSE {}

\* Mutant: live_byte_count is not reduced.
ReclaimUncounted(a) ==
  /\ a \notin marked
  /\ heap' = [b \in DOMAIN heap \ {a} |-> heap[b]]
  /\ payloads' = payloads \ OwnedPayload(a)
  /\ liveObjects' = liveObjects - 1
  /\ UNCHANGED <<marked, liveBytes>>

\* destroy_managed_object: the payload is freed by kind, then the object.
Reclaim(a) ==
  /\ a \notin marked
  /\ heap' = [b \in DOMAIN heap \ {a} |-> heap[b]]
  /\ payloads' = payloads \ OwnedPayload(a)
  /\ liveObjects' = liveObjects - 1
  /\ liveBytes' = liveBytes - heap[a].size
  /\ UNCHANGED marked

\* The registry is a list with the youngest allocation in front.
Front(a) == \A b \in unswept : heap[b].identity <= heap[a].identity

SweepStep ==
  /\ Running /\ phase = "sweep"
  /\ \E a \in unswept :
       /\ Front(a)
       /\ Survive(a) \/ Reclaim(a)
       /\ unswept' = unswept \ {a}
  /\ UNCHANGED <<frames, phase, worklist, pending, nativeVars, peakBytes,
                 collections, threshold, nextIdentity, outcome>>

\* Mutant: the threshold is not raised for the pending request.
ThresholdUnraised(base, projected) == base

\* The end of collect_before_allocation.
ThresholdFor(base, projected) ==
  IF projected > base THEN Maximum(Floor, SaturatingDouble(projected)) ELSE base

\* The rest of collect_heap, then the rest of collect_before_allocation when
\* an allocation asked for the collection.
FinishCollection ==
  LET base == Maximum(Floor, SaturatingDouble(liveBytes))
  IN  /\ Running /\ phase = "sweep" /\ unswept = {}
      /\ phase' = "run"
      /\ collections' = IF collections # MaxCollections
                        THEN collections + 1 ELSE collections
      /\ IF pending = None
         THEN threshold' = base /\ UNCHANGED outcome
         ELSE LET projected == liveBytes + pending.shape.size
              IN  IF projected > MaxBytes
                  THEN threshold' = base /\ outcome' = "aborted"
                  ELSE /\ threshold' = ThresholdFor(base, projected)
                       /\ UNCHANGED outcome
      /\ UNCHANGED <<heap, payloads, frames, marked, worklist, unswept,
                     pending, nativeVars, liveObjects, liveBytes, peakBytes,
                     nextIdentity>>

\* cloth_rt_gc_collect, the explicit safepoint of embedders and tests.
GcCollect ==
  /\ Idle
  /\ StartCollection
  /\ UNCHANGED <<heap, payloads, frames, pending, nativeVars, counterVars,
                 outcome>>

-----------------------------------------------------------------------------
(* Allocation.                                                             *)

\* An allocation call: what is allocated, what its caller does with the
\* result, and the references the call reads after the safepoint.
Request(shape, then, operands) ==
  [shape |-> shape, then |-> then, operands |-> operands]

\* collect_before_allocation up to its call of collect_heap.
CollectBeforeAllocation(request) ==
  LET projected == liveBytes + request.shape.size
  IN  /\ IF projected > MaxBytes
         THEN outcome' = "aborted" /\ UNCHANGED <<pending, gcVars>>
         ELSE IF projected <= threshold
         THEN pending' = request /\ UNCHANGED <<gcVars, outcome>>
         ELSE StartCollection /\ pending' = request /\ UNCHANGED outcome
      /\ UNCHANGED <<heap, payloads, frames, nativeVars, counterVars>>

\* register_allocation for the storage at a, and the caller's use of it.
RegisterAllocation(a, object, newHeap, newFrames) ==
  /\ heap' = newHeap
  /\ payloads' = IF object.owns THEN payloads \cup {a} ELSE payloads
  /\ frames' = newFrames
  /\ nextIdentity' = nextIdentity + 1
  /\ liveObjects' = liveObjects + 1
  /\ liveBytes' = liveBytes + object.size
  /\ peakBytes' = Maximum(peakBytes, liveBytes + object.size)
  /\ pending' = None
  /\ UNCHANGED <<gcVars, collections, threshold, outcome>>

WithObject(a, object) ==
  [b \in DOMAIN heap \cup {a} |-> IF b = a THEN object ELSE heap[b]]

WithRoot(s, ref) ==
  [frames EXCEPT ![Len(frames)] = [Top EXCEPT ![s] = ref]]

\* The frame stack after cloth_rt_gc_pop_frame, with the result of the call
\* in slot s of the frame below.
Popped(s, ref) ==
  [d \in 1..(Len(frames) - 1) |->
     IF d = Len(frames) - 1 THEN [frames[d] EXCEPT ![s] = ref] ELSE frames[d]]

AtReserve == Running /\ phase = "run" /\ pending # None

\* Mutant: the failure is returned and the request tried again.
ReserveRetries ==
  /\ AtReserve
  /\ nextIdentity = MaxCount \/ DOMAIN heap = Address
  /\ UNCHANGED vars

\* allocate_aligned found no storage, or a registry counter is exhausted.
ReserveFails ==
  /\ AtReserve
  /\ \/ DOMAIN heap = Address
     \/ liveObjects = MaxCount
     \/ nextIdentity = MaxCount
  /\ RuntimeFailure

CanReserve(a) ==
  /\ AtReserve
  /\ a \in Address \ DOMAIN heap
  /\ liveObjects # MaxCount
  /\ nextIdentity # MaxCount

\* Generated code stores the result in the root slot of the MIR value.
DeliverToSlot(a, s) ==
  LET object == NewObject(pending.shape)
  IN  /\ CanReserve(a) /\ pending.then = "slot"
      /\ RegisterAllocation(a, object, WithObject(a, object), WithRoot(s, a))
      /\ UNCHANGED nativeVars

\* A printed representation is written out and dropped.
DeliverToPrint(a) ==
  LET object == NewObject(pending.shape)
  IN  /\ CanReserve(a) /\ pending.then = "print"
      /\ RegisterAllocation(a, object, WithObject(a, object), frames)
      /\ UNCHANGED nativeVars

\* cloth_rt_box_value: the payload, with its reference, is copied from the
\* caller's storage after the allocation.
DeliverBox(a, s) ==
  /\ CanReserve(a) /\ pending.then = "box"
  /\ \E ref \in pending.operands :
       LET object == [NewObject(pending.shape) EXCEPT !.fields =
                        [i \in 1..pending.shape.refs |-> ref]]
       IN  RegisterAllocation(a, object, WithObject(a, object), WithRoot(s, a))
  /\ UNCHANGED nativeVars

-----------------------------------------------------------------------------
(* Generated code.                                                         *)

\* cloth_rt_alloc, cloth_rt_array_alloc (also for file bytes), string
\* literals, type names and formatted representations.
Allocate(shape) ==
  /\ Idle /\ started
  /\ shape.kind # "box"
  /\ CollectBeforeAllocation(Request(shape, "slot", {}))

\* cloth_rt_string_concat and cloth_rt_string_slice copy bytes out of their
\* operands after the safepoint.
AllocateFrom(shape, sources) ==
  /\ Idle /\ started
  /\ \A t \in sources : Top[t] \in DOMAIN heap /\ heap[Top[t]].kind = "string"
  /\ CollectBeforeAllocation(
       Request(shape, "slot", {Top[t] : t \in sources}))

BoxValue(shape, s) ==
  /\ Idle /\ started
  /\ shape.kind = "box"
  /\ CollectBeforeAllocation(Request(shape, "box", {Top[s]}))

\* cloth_rt_print_object of an object without an override: the default
\* representation is an owned string.
PrintObject(s, bytes) ==
  /\ Idle /\ started
  /\ Top[s] \in DOMAIN heap
  /\ heap[Top[s]].kind \in {"class", "array", "error"}
  /\ CollectBeforeAllocation(
       Request(StringShape(bytes, TRUE), "print", {Top[s]}))

LoadReference(s, t) ==
  /\ Idle /\ started
  /\ Top[s] \in DOMAIN heap
  /\ \E i \in DOMAIN heap[Top[s]].fields :
       frames' = WithRoot(t, heap[Top[s]].fields[i])
  /\ UNCHANGED <<heap, payloads, gcVars, pending, nativeVars, counterVars,
                 outcome>>

StoreReference(s, t) ==
  /\ Idle /\ started
  /\ Top[s] \in DOMAIN heap
  /\ \E i \in DOMAIN heap[Top[s]].fields :
       heap' = [heap EXCEPT ![Top[s]].fields[i] = Top[t]]
  /\ UNCHANGED <<payloads, frames, gcVars, pending, nativeVars, counterVars,
                 outcome>>

\* zero_root after the last use of a value.
ClearRoot(s) ==
  /\ Idle /\ started
  /\ frames' = WithRoot(s, Null)
  /\ UNCHANGED <<heap, payloads, gcVars, pending, nativeVars, counterVars,
                 outcome>>

\* A call: cloth_rt_gc_push_frame with the argument stored in a fresh frame.
PushFrame(s) ==
  /\ Idle /\ started /\ Len(frames) < MaxDepth
  /\ frames' = Append(frames, [EmptyFrame EXCEPT ![1] = Top[s]])
  /\ UNCHANGED <<heap, payloads, gcVars, pending, nativeVars, counterVars,
                 outcome>>

\* A return: cloth_rt_gc_pop_frame, then the caller roots the result.
PopFrame(r, s) ==
  /\ Idle /\ started /\ Len(frames) > 1
  /\ frames' = Popped(s, Top[r])
  /\ UNCHANGED <<heap, payloads, gcVars, pending, nativeVars, counterVars,
                 outcome>>

\* The entry point returns: its frame is popped, then an error result is
\* reported, without a safepoint in between.
Exit ==
  /\ Idle /\ started /\ Len(frames) = 1
  /\ frames' = << >>
  /\ outcome' = "exited"
  /\ UNCHANGED <<heap, payloads, gcVars, pending, nativeVars, counterVars>>

-----------------------------------------------------------------------------
(* cloth_rt_make_division_by_zero: two allocations, the first result held   *)
(* in a C++ local that a native frame roots during the second.             *)

DivisionByZero ==
  /\ Idle /\ started
  /\ CollectBeforeAllocation(Request(StringShape(0, FALSE), "message", {}))

PushMessageFrame(a) ==
  LET object == NewObject(pending.shape)
  IN  /\ CanReserve(a) /\ pending.then = "message"
      /\ RegisterAllocation(a, object, WithObject(a, object),
           Append(frames, [EmptyFrame EXCEPT ![1] = a]))
      /\ native' = "divzero"
      /\ UNCHANGED <<argsLeft, started>>

AllocateError ==
  /\ Running /\ phase = "run" /\ pending = None /\ native = "divzero"
  /\ CollectBeforeAllocation(Request(ErrorShape, "error", {Top[1]}))

\* error->message = message, then the pop, then the caller roots the error.
ReturnError(a, s) ==
  /\ CanReserve(a) /\ pending.then = "error"
  /\ \E message \in pending.operands :
       LET object == [NewObject(pending.shape) EXCEPT !.fields =
                        [i \in 1..pending.shape.refs |-> message]]
       IN  RegisterAllocation(a, object, WithObject(a, object), Popped(s, a))
  /\ native' = "none"
  /\ UNCHANGED <<argsLeft, started>>

-----------------------------------------------------------------------------
(* The entry point: its frame is pushed with a null slot, and              *)
(* cloth_rt_program_arguments builds the argument array in a native frame. *)

ProgramArguments(count) ==
  /\ Idle /\ ~started
  /\ CollectBeforeAllocation(Request(ArrayShape(count, TRUE), "arguments", {}))

PushArgumentsFrame(a) ==
  LET object == NewObject(pending.shape)
  IN  /\ CanReserve(a) /\ pending.then = "arguments"
      /\ RegisterAllocation(a, object, WithObject(a, object),
           Append(frames, [EmptyFrame EXCEPT ![1] = a]))
      /\ native' = "args"
      /\ argsLeft' = pending.shape.refs
      /\ UNCHANGED started

AllocateArgument(bytes) ==
  /\ Running /\ phase = "run" /\ pending = None
  /\ native = "args" /\ argsLeft > 0
  /\ CollectBeforeAllocation(
       Request(StringShape(bytes, TRUE), "argument", {Top[1]}))

ArgumentIndex == Len(heap[Top[1]].fields) - argsLeft + 1

\* The string becomes an element of the array at once: it is never rooted
\* by itself, only through the array.
StoreArgument(a) ==
  LET object == NewObject(pending.shape)
      array == Top[1]
      filled == [heap[array] EXCEPT !.fields[ArgumentIndex] = a]
  IN  /\ CanReserve(a) /\ pending.then = "argument"
      /\ RegisterAllocation(a, object,
           [WithObject(a, object) EXCEPT ![array] = filled], frames)
      /\ argsLeft' = argsLeft - 1
      /\ UNCHANGED <<native, started>>

ReturnArguments ==
  /\ Running /\ phase = "run" /\ pending = None
  /\ native = "args" /\ argsLeft = 0
  /\ frames' = Popped(1, Top[1])
  /\ native' = "none"
  /\ started' = TRUE
  /\ UNCHANGED <<heap, payloads, gcVars, pending, argsLeft, counterVars,
                 outcome>>

-----------------------------------------------------------------------------
Init ==
  /\ heap = [a \in {} |-> Null]
  /\ payloads = {}
  /\ frames = <<EmptyFrame>>
  /\ phase = "run"
  /\ marked = {} /\ worklist = {} /\ unswept = {}
  /\ pending = None
  /\ native = "none" /\ argsLeft = 0 /\ started = FALSE
  /\ liveObjects = 0 /\ liveBytes = 0 /\ peakBytes = 0 /\ collections = 0
  /\ threshold = Floor
  /\ nextIdentity = 1
  /\ outcome = "running"

AllocationShapes ==
  ObjectShapes
    \cup {StringShape(n, b) : n \in 0..MaxLength, b \in BOOLEAN}
    \cup {ArrayShape(n, b) : n \in 0..MaxLength, b \in BOOLEAN}

Mutator ==
  \/ \E shape \in AllocationShapes : Allocate(shape)
  \/ \E n \in 0..MaxLength, sources \in (SUBSET Slot) \ {{}} :
       AllocateFrom(StringShape(n, TRUE), sources)
  \/ \E shape \in ObjectShapes, s \in Slot : BoxValue(shape, s)
  \/ \E s \in Slot, bytes \in 1..MaxLength : PrintObject(s, bytes)
  \/ \E s, t \in Slot : LoadReference(s, t)
  \/ \E s, t \in Slot : StoreReference(s, t)
  \/ \E s \in Slot : ClearRoot(s)
  \/ \E s \in Slot : PushFrame(s)
  \/ \E r, s \in Slot : PopFrame(r, s)
  \/ DivisionByZero
  \/ \E count \in 0..MaxLength : ProgramArguments(count)
  \/ GcCollect
  \/ Exit

\* Everything the runtime does by itself once it has been called.
Runtime ==
  \/ MarkStep \/ StartSweep \/ SweepStep \/ FinishCollection
  \/ ReserveFails
  \/ \E a \in Address, s \in Slot : DeliverToSlot(a, s)
  \/ \E a \in Address : DeliverToPrint(a)
  \/ \E a \in Address, s \in Slot : DeliverBox(a, s)
  \/ \E a \in Address : PushMessageFrame(a)
  \/ AllocateError
  \/ \E a \in Address, s \in Slot : ReturnError(a, s)
  \/ \E a \in Address : PushArgumentsFrame(a)
  \/ \E bytes \in 0..MaxLength : AllocateArgument(bytes)
  \/ \E a \in Address : StoreArgument(a)
  \/ ReturnArguments

Terminated == ~Running /\ UNCHANGED vars

Next == Mutator \/ Runtime \/ Terminated

\* The runtime is sequential code: once called it runs to its return.
Spec == Init /\ [][Next]_vars /\ WF_vars(Runtime)

-----------------------------------------------------------------------------
(* Properties.                                                             *)

Object == [kind : Kinds, size : Nat, owns : BOOLEAN, fields : Seq(Ref),
           identity : Nat]

RequestType == [shape : Shape,
                then : {"slot", "print", "box", "message", "error",
                        "arguments", "argument"},
                operands : SUBSET Ref]

\* Types of the registry, the root frames, the collector's sets and the
\* statistics of runtime.cc.
TypeOK ==
  /\ DOMAIN heap \subseteq Address
  /\ heap = [a \in DOMAIN heap |-> heap[a]]
  /\ \A a \in DOMAIN heap : heap[a] \in Object
  /\ payloads \subseteq Address
  /\ frames \in Seq([Slot -> Ref])
  /\ phase \in {"run", "mark", "sweep"}
  /\ marked \subseteq Address /\ worklist \subseteq Address
  /\ unswept \subseteq Address
  /\ pending = None \/ pending \in RequestType
  /\ native \in {"none", "divzero", "args"}
  /\ argsLeft \in Nat /\ started \in BOOLEAN
  /\ liveObjects \in Int /\ liveBytes \in Int /\ peakBytes \in Int
  /\ collections \in Nat /\ threshold \in Nat /\ nextIdentity \in Nat
  /\ outcome \in {"running", "aborted", "exited"}

\* No reference the program can still follow names freed storage: every root
\* slot of every frame holds null or a registered object at every moment,
\* also between two steps of the sweep, and outside a sweep so does every
\* field and element of every registered object, garbage included.
NoDangling ==
  /\ \A d \in DOMAIN frames, s \in Slot :
       frames[d][s] \in DOMAIN heap \cup {Null}
  /\ phase # "sweep" =>
       \A a \in DOMAIN heap : \A i \in DOMAIN heap[a].fields :
         heap[a].fields[i] \in DOMAIN heap \cup {Null}

\* What a runtime call reads after its safepoint (concatenation operands, the
\* printed or boxed value, the message of the error under construction, the
\* argument array) is registered for as long as the call is in progress.
OperandsLive ==
  pending # None => pending.operands \subseteq DOMAIN heap \cup {Null}

\* The marking discipline behind the two properties above.  While marking,
\* the roots are marked and only worklist objects may refer to unmarked ones;
\* while sweeping, what is kept (marked, or already passed by the sweep)
\* holds the roots and refers to kept objects only; no mark is left between
\* collections.
Kept == marked \cup (DOMAIN heap \ unswept)

MarkDiscipline ==
  /\ marked \subseteq DOMAIN heap /\ worklist \subseteq marked
  /\ phase = "run" => marked = {}
  /\ phase # "mark" => worklist = {}
  /\ phase # "sweep" => unswept = {}
  /\ phase = "mark" =>
       /\ Roots \subseteq marked
       /\ \A a \in marked \ worklist : \A i \in DOMAIN heap[a].fields :
            heap[a].fields[i] \in marked \cup {Null}
  /\ phase = "sweep" =>
       /\ marked \subseteq unswept /\ unswept \subseteq DOMAIN heap
       /\ Roots \subseteq Kept
       /\ \A a \in Kept : \A i \in DOMAIN heap[a].fields :
            heap[a].fields[i] \in Kept \cup {Null}

\* Why the operands of a call in progress are live: each is held in a root
\* slot, and the native helpers run on a frame of their own.
CallDiscipline ==
  /\ pending # None => pending.operands \subseteq Roots \cup {Null}
  /\ Running => Len(frames) >= 1
  /\ native # "none" => Len(frames) >= 2
  /\ pending # None /\ pending.then = "error" => native = "divzero"
  /\ pending # None /\ pending.then = "argument" => native = "args" /\ argsLeft > 0

\* The inductive invariant.
HeapInv ==
  TypeOK /\ NoDangling /\ MarkDiscipline /\ CallDiscipline

\* Objects a chain of references from the root frames leads to.
Reachable ==
  LET Closed(S) == /\ FindAllocation(Roots) \subseteq S
                   /\ \A a \in S \cap DOMAIN heap :
                        FieldRefs(a) \cap DOMAIN heap \subseteq S
  IN  {a \in DOMAIN heap : \A S \in SUBSET DOMAIN heap : Closed(S) => a \in S}

\* When sweep_unreachable_objects ends the registry is exactly the reachable
\* objects: cycles of garbage are gone, nothing reachable is, and no mark
\* survives into the next collection.
PreciseCollection ==
  phase = "sweep" /\ unswept = {} => DOMAIN heap = Reachable /\ marked = {}

\* The storage of the registered objects, one pair for each byte.
Storage(registry) ==
  UNION {{a} \X (1..registry[a].size) : a \in DOMAIN registry}

\* live_object_count and live_byte_count agree with the registry at every
\* step of a sweep too, the byte count never wraps, the peak bounds it, and
\* string bytes and array data exist exactly for the objects that own them:
\* destroy_managed_object neither leaks a payload nor frees a borrowed one.
\* Live objects have different identities, all handed out before.
Accounting ==
  /\ liveObjects = Cardinality(DOMAIN heap)
  /\ liveBytes = Cardinality(Storage(heap))
  /\ liveBytes \in 0..MaxBytes
  /\ liveBytes <= peakBytes
  /\ payloads = {a \in DOMAIN heap : heap[a].owns}
  /\ \A a \in DOMAIN heap : heap[a].identity < nextIdentity
  /\ \A a, b \in DOMAIN heap : heap[a].identity = heap[b].identity => a = b

\* Between collections the live bytes stay within collection_threshold, an
\* admitted request included, however large the request was and whatever the
\* collection it forced gave back.
ThresholdBound ==
  /\ threshold \in Floor..MaxBytes
  /\ Running /\ phase = "run" => liveBytes <= threshold
  /\ AtReserve => liveBytes + pending.shape.size <= threshold

\* While cloth_rt_program_arguments runs, the array's leading elements are
\* distinct live strings and the rest are null, at every step of a collection
\* that a later argument forces too: the earlier ones, which no root slot
\* names, survive through the half-filled array.
ArgumentsBuilt ==
  native = "args" =>
    LET elements == heap[Top[1]].fields
        done == Len(elements) - argsLeft
    IN  /\ Top[1] \in DOMAIN heap
        /\ \A i \in 1..done : /\ elements[i] \in DOMAIN heap
                              /\ heap[elements[i]].kind = "string"
        /\ \A i \in (done + 1)..Len(elements) : elements[i] = Null
        /\ \A i, j \in 1..done : elements[i] = elements[j] => i = j

\* An allocation call returns: the request is delivered or the process
\* aborts.
RequestSettles == (pending # None) ~> (pending = None \/ outcome = "aborted")

\* The heap keeps the contract of module GcContract: seen through the object
\* graph and the roots, a collection in progress frees unreachable objects
\* only and changes nothing else, and every runtime call is one program step.
Contract == INSTANCE GcContract WITH
              store <- [a \in DOMAIN heap |-> heap[a].fields],
              roots <- Roots
ImplementsContract == Contract!ContractSpec

=============================================================================
