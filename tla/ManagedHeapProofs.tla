------------------------- MODULE ManagedHeapProofs -------------------------
(***************************************************************************)
(* Proofs about ManagedHeap: the inductive invariant HeapInv, and from it  *)
(* type correctness, NoDangling, OperandsLive; then the statistics, which  *)
(* agree with the registry (Accounting) and keep the live bytes within the *)
(* collection threshold (ThresholdBound); last, what a collection keeps    *)
(* and frees: at its end the registry is exactly the reachable objects     *)
(* (PreciseCollection), seen through the object graph every step is a step *)
(* of GcContract (ImplementsContract), and the argument array of           *)
(* cloth_rt_program_arguments survives the collections its own elements    *)
(* force (ArgumentsBuilt): for every heap, every number of addresses,      *)
(* slots and frames, every floor and every limit.                          *)
(***************************************************************************)
EXTENDS ManagedHeap, FunctionTheorems, FiniteSetTheorems, TLAPS

\* A registered object refers to null or registered objects outside a sweep,
\* and roots always do: the form of NoDangling the steps below use.
LEMMA RootsRegistered ==
  ASSUME HeapInv
  PROVE  Roots \subseteq DOMAIN heap
BY DEF HeapInv, NoDangling, Roots

\* The current frame is a frame.
LEMMA TopFrame ==
  ASSUME HeapInv, Running
  PROVE  /\ Len(frames) \in DOMAIN frames
         /\ Top \in [Slot -> Ref]
         /\ \A s \in Slot : Top[s] \in DOMAIN heap \cup {Null}
BY DEF HeapInv, TypeOK, CallDiscipline, NoDangling, Top

-----------------------------------------------------------------------------
(* The collector.                                                          *)

LEMMA MarkStepInv == HeapInv /\ MarkStep => HeapInv'
<1> SUFFICES ASSUME HeapInv, MarkStep PROVE HeapInv'
  OBVIOUS
<1> PICK x \in worklist : ScanObject(x)
  BY DEF MarkStep
<1> DEFINE fresh == FindAllocation(FieldRefs(x)) \ marked
<1>u. /\ UNCHANGED <<heap, payloads, frames, phase, unswept, pending, native,
                     argsLeft, started, liveObjects, liveBytes, peakBytes,
                     collections, threshold, nextIdentity, outcome>>
      /\ phase = "mark"
      /\ marked' = marked \cup fresh
      /\ worklist' = (worklist \ {x}) \cup fresh
      /\ fresh \subseteq DOMAIN heap
  BY DEF MarkStep, ScanObject, nativeVars, counterVars, FindAllocation
<1>t. TypeOK'
  BY <1>u DEF HeapInv, TypeOK
<1>d. NoDangling'
  BY <1>u DEF HeapInv, NoDangling
<1>c. CallDiscipline'
  BY <1>u DEF HeapInv, CallDiscipline, Roots, Running
<1>m. MarkDiscipline'
  <2>1. marked' \subseteq DOMAIN heap' /\ worklist' \subseteq marked'
    BY <1>u DEF HeapInv, MarkDiscipline
  <2>2. Roots' \subseteq marked'
    BY <1>u DEF HeapInv, MarkDiscipline, Roots
  <2>3. ASSUME NEW b \in marked' \ worklist', NEW i \in DOMAIN heap[b].fields
        PROVE  heap[b].fields[i] \in marked' \cup {Null}
    <3>1. CASE b = x
      BY <1>u, <3>1 DEF HeapInv, NoDangling, MarkDiscipline, FindAllocation, FieldRefs
    <3>2. CASE b # x
      BY <1>u, <3>2 DEF HeapInv, MarkDiscipline
    <3> QED BY <3>1, <3>2
  <2> QED
    BY <1>u, <2>1, <2>2, <2>3 DEF HeapInv, MarkDiscipline
<1> QED BY <1>t, <1>d, <1>c, <1>m DEF HeapInv

LEMMA StartSweepInv == HeapInv /\ StartSweep => HeapInv'
<1> SUFFICES ASSUME HeapInv, StartSweep PROVE HeapInv'
  OBVIOUS
<1>u. /\ UNCHANGED <<heap, payloads, frames, marked, worklist, pending, native,
                     argsLeft, started, liveObjects, liveBytes, peakBytes,
                     collections, threshold, nextIdentity, outcome>>
      /\ phase = "mark" /\ phase' = "sweep" /\ worklist = {}
      /\ unswept' = DOMAIN heap
  BY DEF StartSweep, nativeVars, counterVars
<1>t. TypeOK'
  BY <1>u DEF HeapInv, TypeOK
<1>d. NoDangling'
  BY <1>u DEF HeapInv, NoDangling
<1>c. CallDiscipline'
  BY <1>u DEF HeapInv, CallDiscipline, Roots, Running
<1>m. MarkDiscipline'
  BY <1>u DEF HeapInv, MarkDiscipline, Kept, Roots
<1> QED BY <1>t, <1>d, <1>c, <1>m DEF HeapInv

LEMMA SweepStepInv == HeapInv /\ SweepStep => HeapInv'
<1> SUFFICES ASSUME HeapInv, SweepStep PROVE HeapInv'
  OBVIOUS
<1> PICK x \in unswept : (Survive(x) \/ Reclaim(x)) /\ unswept' = unswept \ {x}
  BY DEF SweepStep
<1>u. /\ UNCHANGED <<frames, phase, worklist, pending, native, argsLeft, started,
                     peakBytes, collections, threshold, nextIdentity, outcome>>
      /\ phase = "sweep"
  BY DEF SweepStep, nativeVars
<1>k. Kept' = Kept
  BY DEF HeapInv, MarkDiscipline, SweepStep, Survive, Reclaim, Kept
<1>h. /\ DOMAIN heap' \subseteq DOMAIN heap
      /\ heap' = [a \in DOMAIN heap' |-> heap'[a]]
      /\ \A a \in DOMAIN heap' : heap'[a] = heap[a]
      /\ Kept \subseteq DOMAIN heap'
      /\ payloads' \subseteq payloads
      /\ marked' \subseteq marked
      /\ marked' \subseteq unswept' /\ unswept' \subseteq DOMAIN heap'
  BY <1>u DEF HeapInv, TypeOK, MarkDiscipline, SweepStep, Survive, Reclaim, Kept
<1>n. liveObjects' \in Int /\ liveBytes' \in Int
  BY <1>u DEF HeapInv, TypeOK, MarkDiscipline, Survive, Reclaim, Object
<1>t. TypeOK'
  BY <1>u, <1>h, <1>n DEF HeapInv, TypeOK
<1>d. NoDangling'
  <2> SUFFICES ASSUME NEW d \in DOMAIN frames, NEW s \in Slot
               PROVE  frames[d][s] \in DOMAIN heap' \cup {Null}
    BY <1>u DEF NoDangling
  <2>1. frames[d][s] \in Roots \cup {Null}
    BY DEF Roots
  <2> QED BY <1>u, <1>h, <2>1 DEF HeapInv, MarkDiscipline
<1>c. CallDiscipline'
  BY <1>u DEF HeapInv, CallDiscipline, Roots, Running
<1>m. MarkDiscipline'
  <2>1. Roots' \subseteq Kept'
    BY <1>u, <1>k DEF HeapInv, MarkDiscipline, Roots
  <2>2. \A a \in Kept' : \A i \in DOMAIN heap'[a].fields :
          heap'[a].fields[i] \in Kept' \cup {Null}
    BY <1>u, <1>k, <1>h DEF HeapInv, MarkDiscipline
  <2>3. marked' \subseteq DOMAIN heap' /\ worklist' \subseteq marked'
    BY <1>u, <1>h DEF HeapInv, MarkDiscipline
  <2> QED BY <1>u, <1>h, <2>1, <2>2, <2>3 DEF HeapInv, MarkDiscipline
<1> QED BY <1>t, <1>d, <1>c, <1>m DEF HeapInv

LEMMA ThresholdTypes ==
  ASSUME NEW n \in Int
  PROVE  /\ SaturatingDouble(n) \in Int
         /\ Maximum(Floor, SaturatingDouble(n)) \in Nat
BY HeapConstants DEF SaturatingDouble, Maximum

LEMMA FinishCollectionInv == HeapInv /\ FinishCollection => HeapInv'
<1> SUFFICES ASSUME HeapInv, FinishCollection PROVE HeapInv'
  OBVIOUS
<1>u. /\ UNCHANGED <<heap, payloads, frames, marked, worklist, unswept, pending,
                     native, argsLeft, started, liveObjects, liveBytes,
                     peakBytes, nextIdentity>>
      /\ phase = "sweep" /\ unswept = {} /\ phase' = "run" /\ Running
  BY DEF FinishCollection, nativeVars
<1>n. threshold' \in Nat /\ collections' \in Nat
      /\ outcome' \in {"running", "aborted"}
  <2>1. \A n \in Int : Maximum(Floor, SaturatingDouble(n)) \in Nat
    BY ThresholdTypes
  <2>2. pending # None => liveBytes + pending.shape.size \in Int
    BY DEF HeapInv, TypeOK, RequestType, Shape
  <2>3. collections' \in Nat
    BY DEF FinishCollection, HeapInv, TypeOK
  <2>4. threshold' \in Nat /\ outcome' \in {"running", "aborted"}
    BY <2>1, <2>2 DEF FinishCollection, ThresholdFor, HeapInv, TypeOK, Running
  <2> QED BY <2>3, <2>4
<1>t. TypeOK'
  BY <1>u, <1>n DEF HeapInv, TypeOK
<1>k. Kept = DOMAIN heap
  BY <1>u DEF HeapInv, MarkDiscipline, Kept
<1>d. NoDangling'
  BY <1>u, <1>k DEF HeapInv, NoDangling, MarkDiscipline
<1>c. CallDiscipline'
  BY <1>u DEF HeapInv, CallDiscipline, Roots, Running
<1>m. MarkDiscipline'
  BY <1>u DEF HeapInv, MarkDiscipline
<1> QED BY <1>t, <1>d, <1>c, <1>m DEF HeapInv

-----------------------------------------------------------------------------
(* The start of a collection and of an allocation.                         *)

LEMMA StartCollectionMarks ==
  ASSUME HeapInv, phase = "run", StartCollection, UNCHANGED <<heap, frames>>
  PROVE  /\ MarkDiscipline'
         /\ phase' = "mark"
         /\ marked' \subseteq Address
         /\ worklist' \subseteq Address
         /\ unswept' = unswept
<1>1. marked = {} /\ unswept = {}
  BY DEF HeapInv, MarkDiscipline
<1>2. marked' = Roots /\ worklist' = Roots /\ Roots' = Roots
  BY <1>1, RootsRegistered DEF StartCollection, FindAllocation, Roots
<1> QED
  BY <1>1, <1>2, RootsRegistered
  DEF StartCollection, HeapInv, TypeOK, MarkDiscipline

LEMMA GcCollectInv == HeapInv /\ GcCollect => HeapInv'
<1> SUFFICES ASSUME HeapInv, GcCollect PROVE HeapInv'
  OBVIOUS
<1>u. /\ UNCHANGED <<heap, payloads, frames, pending, native, argsLeft, started,
                     liveObjects, liveBytes, peakBytes, collections, threshold,
                     nextIdentity, outcome>>
      /\ phase = "run" /\ StartCollection
  BY DEF GcCollect, Idle, nativeVars, counterVars
<1>m. /\ MarkDiscipline' /\ phase' = "mark" /\ marked' \subseteq Address
      /\ worklist' \subseteq Address /\ unswept' = unswept
  BY <1>u, StartCollectionMarks
<1>t. TypeOK'
  BY <1>u, <1>m DEF HeapInv, TypeOK
<1>d. NoDangling'
  BY <1>u, <1>m DEF HeapInv, NoDangling
<1>c. CallDiscipline'
  BY <1>u DEF HeapInv, CallDiscipline, Roots, Running
<1> QED BY <1>t, <1>d, <1>c, <1>m DEF HeapInv

\* collect_before_allocation keeps the invariant when its caller holds the
\* operands in roots and a native helper calls it on its own frame.
LEMMA CollectBeforeAllocationInv ==
  ASSUME HeapInv, Running, phase = "run",
         NEW request \in RequestType,
         request.operands \subseteq Roots \cup {Null},
         request.then = "error" => native = "divzero",
         request.then = "argument" => native = "args" /\ argsLeft > 0,
         pending = None,
         CollectBeforeAllocation(request)
  PROVE  HeapInv'
<1>u. UNCHANGED <<heap, payloads, frames, native, argsLeft, started, liveObjects,
                  liveBytes, peakBytes, collections, threshold, nextIdentity>>
  BY DEF CollectBeforeAllocation, nativeVars, counterVars
<1>p. /\ pending' = pending \/ pending' = request
      /\ outcome' \in {"running", "aborted"}
      /\ StartCollection \/ UNCHANGED <<phase, marked, worklist, unswept>>
  BY DEF CollectBeforeAllocation, gcVars, Running
<1>m. /\ MarkDiscipline' /\ phase' \in {"run", "mark"} /\ marked' \subseteq Address
      /\ worklist' \subseteq Address /\ unswept' \subseteq Address
  <2>1. CASE StartCollection
    BY <1>u, <2>1, StartCollectionMarks DEF HeapInv, TypeOK
  <2>2. CASE UNCHANGED <<phase, marked, worklist, unswept>>
    BY <1>u, <2>2 DEF HeapInv, TypeOK, MarkDiscipline, Roots, Kept
  <2> QED BY <1>p, <2>1, <2>2
<1>t. TypeOK'
  BY <1>u, <1>p, <1>m DEF HeapInv, TypeOK
<1>d. NoDangling'
  BY <1>u, <1>m DEF HeapInv, NoDangling
<1>c. CallDiscipline'
  BY <1>u, <1>p DEF HeapInv, CallDiscipline, Roots, Running
<1> QED BY <1>t, <1>d, <1>c, <1>m DEF HeapInv

-----------------------------------------------------------------------------
(* Delivery of an allocation.                                              *)

\* A registry of objects that refer to registered objects, and frames whose
\* roots are among the objects of a set.
WellFormedHeap(h) ==
  /\ DOMAIN h \subseteq Address
  /\ h = [b \in DOMAIN h |-> h[b]]
  /\ \A b \in DOMAIN h : h[b] \in Object
  /\ \A b \in DOMAIN h : \A i \in DOMAIN h[b].fields :
       h[b].fields[i] \in DOMAIN h \cup {Null}

WellFormedFrames(f, live) ==
  /\ f \in Seq([Slot -> Ref])
  /\ Len(f) >= 1
  /\ \A d \in DOMAIN f, s \in Slot : f[d][s] \in live \cup {Null}

\* The progress of a native helper agrees with the frames it pushed.
WellFormedNative(helper, left, begun, f) ==
  /\ helper \in {"none", "divzero", "args"}
  /\ left \in Nat /\ begun \in BOOLEAN
  /\ helper # "none" => Len(f) >= 2

LEMMA CurrentlyWellFormed ==
  ASSUME HeapInv, Running, phase = "run"
  PROVE  /\ WellFormedHeap(heap)
         /\ WellFormedFrames(frames, DOMAIN heap)
         /\ WellFormedNative(native, argsLeft, started, frames)
BY DEF HeapInv, TypeOK, NoDangling, CallDiscipline, WellFormedHeap,
       WellFormedFrames, WellFormedNative

\* register_allocation keeps the invariant for any well-formed new heap and
\* frames.
LEMMA RegisterAllocationInv ==
  ASSUME HeapInv, NEW a, CanReserve(a), NEW object \in Object,
         NEW newHeap, NEW newFrames,
         WellFormedHeap(newHeap),
         WellFormedFrames(newFrames, DOMAIN newHeap),
         WellFormedNative(native', argsLeft', started', newFrames),
         RegisterAllocation(a, object, newHeap, newFrames)
  PROVE  HeapInv'
<1>u. /\ UNCHANGED <<phase, marked, worklist, unswept, collections, threshold,
                     outcome>>
      /\ heap' = newHeap /\ frames' = newFrames /\ pending' = None
      /\ phase = "run" /\ outcome = "running"
      /\ a \in Address
  BY DEF RegisterAllocation, gcVars, CanReserve, AtReserve, Running
<1>n. /\ payloads' \subseteq Address
      /\ liveObjects' \in Int /\ liveBytes' \in Int /\ peakBytes' \in Int
      /\ nextIdentity' \in Nat
  BY <1>u DEF RegisterAllocation, HeapInv, TypeOK, Object, Maximum
<1>t. TypeOK'
  BY <1>u, <1>n DEF HeapInv, TypeOK, WellFormedHeap, WellFormedFrames, WellFormedNative
<1>d. NoDangling'
  BY <1>u DEF NoDangling, WellFormedHeap, WellFormedFrames
<1>c. CallDiscipline'
  BY <1>u DEF CallDiscipline, WellFormedFrames, WellFormedNative
<1>m. MarkDiscipline'
  BY <1>u DEF HeapInv, MarkDiscipline
<1> QED BY <1>t, <1>d, <1>c, <1>m DEF HeapInv

\* The new object has null references, or copies of one live reference.
LEMMA NewObjectType ==
  ASSUME HeapInv, AtReserve, NEW ref \in Ref
  PROVE  LET object == [NewObject(pending.shape) EXCEPT !.fields =
                          [i \in 1..pending.shape.refs |-> ref]]
         IN  /\ pending \in RequestType
             /\ NewObject(pending.shape) \in Object
             /\ \A i \in DOMAIN NewObject(pending.shape).fields :
                  NewObject(pending.shape).fields[i] = Null
             /\ object \in Object
             /\ \A i \in DOMAIN object.fields : object.fields[i] = ref
<1>1. pending \in RequestType /\ nextIdentity \in Nat
  BY DEF AtReserve, HeapInv, TypeOK
<1>2. /\ pending.shape.kind \in Kinds /\ pending.shape.size \in Nat
      /\ pending.shape.owns \in BOOLEAN /\ pending.shape.refs \in Nat
  BY <1>1 DEF RequestType, Shape
<1>3. \A r \in Ref : [i \in 1..pending.shape.refs |-> r] \in Seq(Ref)
  BY <1>2
<1>4. Null \in Ref
  BY DEF Ref
<1>5. NewObject(pending.shape) \in Object
  BY <1>1, <1>2, <1>3, <1>4 DEF NewObject, Object
<1> QED BY <1>1, <1>2, <1>3, <1>4, <1>5 DEF NewObject, Object

\* Adding one well-formed object leaves a well-formed heap.
LEMMA WithObjectClosed ==
  ASSUME HeapInv, NEW a, CanReserve(a), NEW object \in Object,
         \A i \in DOMAIN object.fields :
           object.fields[i] \in DOMAIN heap \cup {Null}
  PROVE  /\ WellFormedHeap(WithObject(a, object))
         /\ DOMAIN WithObject(a, object) = DOMAIN heap \cup {a}
BY DEF HeapInv, TypeOK, NoDangling, WithObject, CanReserve, AtReserve,
       WellFormedHeap

\* Storing a registered reference or null in the current frame.
LEMMA WithRootClosed ==
  ASSUME HeapInv, Running, NEW live, DOMAIN heap \subseteq live,
         live \subseteq Address, NEW s \in Slot, NEW ref \in live \cup {Null}
  PROVE  /\ WellFormedFrames(WithRoot(s, ref), live)
         /\ Len(WithRoot(s, ref)) = Len(frames)
<1>1. Len(frames) \in DOMAIN frames /\ Top \in [Slot -> Ref]
  BY TopFrame
<1>2. [Top EXCEPT ![s] = ref] \in [Slot -> Ref]
  BY <1>1 DEF Ref
<1>3. \A d \in DOMAIN frames, t \in Slot : frames[d][t] \in live \cup {Null}
  BY DEF HeapInv, NoDangling
<1>4. \A t \in Slot : [Top EXCEPT ![s] = ref][t] \in live \cup {Null}
  BY <1>1, <1>3 DEF Top
<1>5. frames \in Seq([Slot -> Ref]) /\ Len(frames) >= 1
  BY DEF HeapInv, TypeOK, CallDiscipline
<1> QED BY <1>1, <1>2, <1>3, <1>4, <1>5 DEF WithRoot, WellFormedFrames

\* Popping the current frame with a registered result.
LEMMA PoppedClosed ==
  ASSUME HeapInv, Len(frames) >= 2, NEW live, DOMAIN heap \subseteq live,
         live \subseteq Address, NEW s \in Slot, NEW ref \in live \cup {Null}
  PROVE  /\ WellFormedFrames(Popped(s, ref), live)
         /\ Len(Popped(s, ref)) = Len(frames) - 1
<1>1. frames \in Seq([Slot -> Ref]) /\ Len(frames) \in Nat
  BY DEF HeapInv, TypeOK
<1>2. \A d \in 1..Len(frames) : frames[d] \in [Slot -> Ref]
  BY <1>1
<1>3. \A d \in 1..Len(frames) : [frames[d] EXCEPT ![s] = ref] \in [Slot -> Ref]
  BY <1>2 DEF Ref
<1>4. \A d \in 1..Len(frames), t \in Slot : frames[d][t] \in live \cup {Null}
  BY <1>1 DEF HeapInv, NoDangling
<1>5. \A d \in 1..(Len(frames) - 1) : Popped(s, ref)[d] \in [Slot -> Ref]
  BY <1>1, <1>2, <1>3 DEF Popped
<1>6. Popped(s, ref) \in Seq([Slot -> Ref]) /\ Len(Popped(s, ref)) = Len(frames) - 1
  <2>1. PICK n \in Nat : n = Len(frames) - 1
    BY <1>1
  <2>2. Popped(s, ref) \in [1..n -> [Slot -> Ref]]
    BY <1>5, <2>1 DEF Popped
  <2>3. \A f \in [1..n -> [Slot -> Ref]] :
          f \in Seq([Slot -> Ref]) /\ Len(f) = n
    BY <2>1
  <2> QED BY <2>1, <2>2, <2>3
<1>7. \A d \in 1..(Len(frames) - 1), t \in Slot :
        Popped(s, ref)[d][t] \in live \cup {Null}
  BY <1>1, <1>2, <1>4 DEF Popped
<1> QED BY <1>1, <1>6, <1>7 DEF WellFormedFrames

\* A frame whose first slot holds a registered reference or null.
Pushed(ref) == Append(frames, [EmptyFrame EXCEPT ![1] = ref])

LEMMA PushedClosed ==
  ASSUME HeapInv, NEW live, DOMAIN heap \subseteq live,
         live \subseteq Address, NEW ref \in live \cup {Null}
  PROVE  /\ WellFormedFrames(Pushed(ref), live)
         /\ Len(Pushed(ref)) = Len(frames) + 1
<1> DEFINE frame == [EmptyFrame EXCEPT ![1] = ref]
<1>1. frame \in [Slot -> Ref] /\ \A t \in Slot : frame[t] \in live \cup {Null}
  BY DEF EmptyFrame, Ref
<1>2. frames \in Seq([Slot -> Ref])
  BY DEF HeapInv, TypeOK
<1>3. \A d \in DOMAIN frames, t \in Slot : frames[d][t] \in live \cup {Null}
  BY DEF HeapInv, NoDangling
<1>4. Pushed(ref) = Append(frames, frame)
  BY DEF Pushed
<1> HIDE DEF frame
<1> QED BY <1>1, <1>2, <1>3, <1>4 DEF WellFormedFrames

\* The objects after an allocation at a.
LEMMA LiveAfter ==
  ASSUME HeapInv, NEW a, CanReserve(a)
  PROVE  /\ Running /\ phase = "run" /\ AtReserve
         /\ DOMAIN heap \subseteq DOMAIN heap \cup {a}
         /\ DOMAIN heap \cup {a} \subseteq Address
         /\ a \in DOMAIN heap \cup {a} \cup {Null}
BY DEF HeapInv, TypeOK, CanReserve, AtReserve

LEMMA DeliverToSlotInv ==
  ASSUME HeapInv, NEW a \in Address, NEW s \in Slot, DeliverToSlot(a, s)
  PROVE  HeapInv'
<1> DEFINE object == NewObject(pending.shape)
<1>1. /\ CanReserve(a)
      /\ RegisterAllocation(a, object, WithObject(a, object), WithRoot(s, a))
      /\ UNCHANGED <<native, argsLeft, started>>
  BY DEF DeliverToSlot, nativeVars
<1>2. /\ Running /\ phase = "run" /\ AtReserve
  BY <1>1, LiveAfter
<1>3. object \in Object /\ \A i \in DOMAIN object.fields : object.fields[i] = Null
  BY <1>2, NewObjectType DEF Ref
<1> HIDE DEF object
<1>4. WellFormedHeap(WithObject(a, object))
      /\ DOMAIN WithObject(a, object) = DOMAIN heap \cup {a}
  BY <1>1, <1>3, WithObjectClosed
<1>5. WellFormedFrames(WithRoot(s, a), DOMAIN heap \cup {a})
      /\ Len(WithRoot(s, a)) = Len(frames)
  BY <1>1, <1>2, LiveAfter, WithRootClosed
<1>6. WellFormedNative(native', argsLeft', started', WithRoot(s, a))
  BY <1>1, <1>2, <1>5, CurrentlyWellFormed DEF WellFormedNative
<1> QED
  BY <1>1, <1>3, <1>4, <1>5, <1>6, RegisterAllocationInv

LEMMA DeliverToPrintInv ==
  ASSUME HeapInv, NEW a \in Address, DeliverToPrint(a)
  PROVE  HeapInv'
<1> DEFINE object == NewObject(pending.shape)
<1>1. /\ CanReserve(a)
      /\ RegisterAllocation(a, object, WithObject(a, object), frames)
      /\ UNCHANGED <<native, argsLeft, started>>
  BY DEF DeliverToPrint, nativeVars
<1>2. /\ Running /\ phase = "run" /\ AtReserve
  BY <1>1, LiveAfter
<1>3. object \in Object /\ \A i \in DOMAIN object.fields : object.fields[i] = Null
  BY <1>2, NewObjectType DEF Ref
<1> HIDE DEF object
<1>4. WellFormedHeap(WithObject(a, object))
      /\ DOMAIN WithObject(a, object) = DOMAIN heap \cup {a}
  BY <1>1, <1>3, WithObjectClosed
<1>5. WellFormedFrames(frames, DOMAIN heap \cup {a})
  BY <1>2, CurrentlyWellFormed DEF WellFormedFrames
<1>6. WellFormedNative(native', argsLeft', started', frames)
  BY <1>1, <1>2, CurrentlyWellFormed
<1> QED
  BY <1>1, <1>3, <1>4, <1>5, <1>6, RegisterAllocationInv

\* A box copies a reference that a root still holds.
LEMMA DeliverBoxInv ==
  ASSUME HeapInv, NEW a \in Address, NEW s \in Slot, DeliverBox(a, s)
  PROVE  HeapInv'
<1>1. CanReserve(a) /\ UNCHANGED <<native, argsLeft, started>>
  BY DEF DeliverBox, nativeVars
<1>2. PICK ref \in pending.operands :
        LET object == [NewObject(pending.shape) EXCEPT !.fields =
                         [i \in 1..pending.shape.refs |-> ref]]
        IN  RegisterAllocation(a, object, WithObject(a, object), WithRoot(s, a))
  BY DEF DeliverBox
<1> DEFINE object == [NewObject(pending.shape) EXCEPT !.fields =
                        [i \in 1..pending.shape.refs |-> ref]]
<1>3. RegisterAllocation(a, object, WithObject(a, object), WithRoot(s, a))
  BY <1>2
<1>4. Running /\ phase = "run" /\ AtReserve
  BY <1>1, LiveAfter
<1>5. ref \in DOMAIN heap \cup {Null} /\ ref \in Ref
  BY <1>4, RootsRegistered DEF AtReserve, HeapInv, CallDiscipline, TypeOK, Ref
<1>6. object \in Object /\ \A i \in DOMAIN object.fields : object.fields[i] = ref
  BY <1>4, <1>5, NewObjectType
<1> HIDE DEF object
<1>7. WellFormedHeap(WithObject(a, object))
      /\ DOMAIN WithObject(a, object) = DOMAIN heap \cup {a}
  BY <1>1, <1>5, <1>6, WithObjectClosed
<1>8. WellFormedFrames(WithRoot(s, a), DOMAIN heap \cup {a})
      /\ Len(WithRoot(s, a)) = Len(frames)
  BY <1>1, <1>4, LiveAfter, WithRootClosed
<1>9. WellFormedNative(native', argsLeft', started', WithRoot(s, a))
  BY <1>1, <1>4, <1>8, CurrentlyWellFormed DEF WellFormedNative
<1> QED
  BY <1>1, <1>3, <1>6, <1>7, <1>8, <1>9, RegisterAllocationInv

\* The two helpers that push a frame of their own around the next allocation.
LEMMA PushNativeFrameInv ==
  ASSUME HeapInv, NEW a \in Address, PushMessageFrame(a) \/ PushArgumentsFrame(a)
  PROVE  HeapInv'
<1> DEFINE object == NewObject(pending.shape)
<1>1. /\ CanReserve(a)
      /\ RegisterAllocation(a, object, WithObject(a, object), Pushed(a))
      /\ native' \in {"divzero", "args"}
      /\ argsLeft' \in {argsLeft, pending.shape.refs} /\ started' = started
  BY DEF PushMessageFrame, PushArgumentsFrame, Pushed
<1>2. Running /\ phase = "run" /\ AtReserve
  BY <1>1, LiveAfter
<1>3. /\ object \in Object /\ \A i \in DOMAIN object.fields : object.fields[i] = Null
      /\ pending.shape.refs \in Nat
  BY <1>2, NewObjectType DEF Ref, RequestType, Shape
<1> HIDE DEF object
<1>4. WellFormedHeap(WithObject(a, object))
      /\ DOMAIN WithObject(a, object) = DOMAIN heap \cup {a}
  BY <1>1, <1>3, WithObjectClosed
<1>5. WellFormedFrames(Pushed(a), DOMAIN heap \cup {a})
      /\ Len(Pushed(a)) = Len(frames) + 1
  BY <1>1, LiveAfter, PushedClosed
<1>6. WellFormedNative(native', argsLeft', started', Pushed(a))
  BY <1>1, <1>2, <1>3, <1>5, CurrentlyWellFormed
  DEF WellFormedNative, WellFormedFrames
<1> QED
  BY <1>1, <1>3, <1>4, <1>5, <1>6, RegisterAllocationInv

LEMMA ReturnErrorInv ==
  ASSUME HeapInv, NEW a \in Address, NEW s \in Slot, ReturnError(a, s)
  PROVE  HeapInv'
<1>1. /\ CanReserve(a) /\ pending.then = "error"
      /\ native' = "none" /\ UNCHANGED <<argsLeft, started>>
  BY DEF ReturnError
<1>2. PICK ref \in pending.operands :
        LET object == [NewObject(pending.shape) EXCEPT !.fields =
                         [i \in 1..pending.shape.refs |-> ref]]
        IN  RegisterAllocation(a, object, WithObject(a, object), Popped(s, a))
  BY DEF ReturnError
<1> DEFINE object == [NewObject(pending.shape) EXCEPT !.fields =
                        [i \in 1..pending.shape.refs |-> ref]]
<1>3. RegisterAllocation(a, object, WithObject(a, object), Popped(s, a))
  BY <1>2
<1>4. Running /\ phase = "run" /\ AtReserve
  BY <1>1, LiveAfter
<1>5. ref \in DOMAIN heap \cup {Null} /\ ref \in Ref
  BY <1>4, RootsRegistered DEF AtReserve, HeapInv, CallDiscipline, TypeOK, Ref
<1>6. object \in Object /\ \A i \in DOMAIN object.fields : object.fields[i] = ref
  BY <1>4, <1>5, NewObjectType
<1> HIDE DEF object
<1>7. WellFormedHeap(WithObject(a, object))
      /\ DOMAIN WithObject(a, object) = DOMAIN heap \cup {a}
  BY <1>1, <1>5, <1>6, WithObjectClosed
<1>8. Len(frames) >= 2
  BY <1>1, <1>4 DEF HeapInv, CallDiscipline, AtReserve
<1>9. WellFormedFrames(Popped(s, a), DOMAIN heap \cup {a})
  BY <1>1, <1>8, LiveAfter, PoppedClosed
<1>10. WellFormedNative(native', argsLeft', started', Popped(s, a))
  BY <1>1, <1>4, CurrentlyWellFormed DEF WellFormedNative
<1> QED
  BY <1>1, <1>3, <1>6, <1>7, <1>9, <1>10, RegisterAllocationInv

\* The argument string is reachable through the array the native frame roots.
LEMMA StoreArgumentInv ==
  ASSUME HeapInv, NEW a \in Address, StoreArgument(a)
  PROVE  HeapInv'
<1> DEFINE object == NewObject(pending.shape)
           array == Top[1]
           filled == [heap[array] EXCEPT !.fields[ArgumentIndex] = a]
           newHeap == [WithObject(a, object) EXCEPT ![array] = filled]
<1>1. /\ CanReserve(a) /\ pending.then = "argument"
      /\ RegisterAllocation(a, object, newHeap, frames)
      /\ argsLeft' = argsLeft - 1 /\ UNCHANGED <<native, started>>
  BY DEF StoreArgument
<1>2. Running /\ phase = "run" /\ AtReserve
  BY <1>1, LiveAfter
<1>3. object \in Object /\ \A i \in DOMAIN object.fields : object.fields[i] = Null
  BY <1>2, NewObjectType DEF Ref
<1> HIDE DEF object
<1>4. WellFormedHeap(WithObject(a, object))
      /\ DOMAIN WithObject(a, object) = DOMAIN heap \cup {a}
  BY <1>1, <1>3, WithObjectClosed
<1>5. array \in DOMAIN heap \cup {Null}
  BY <1>2, TopFrame, HeapConstants DEF Slot
<1>6. array \in DOMAIN heap =>
        /\ filled \in Object
        /\ \A i \in DOMAIN filled.fields :
             filled.fields[i] \in DOMAIN heap \cup {a, Null}
  <2> SUFFICES ASSUME array \in DOMAIN heap
               PROVE  /\ filled \in Object
                      /\ \A i \in DOMAIN filled.fields :
                           filled.fields[i] \in DOMAIN heap \cup {a, Null}
    OBVIOUS
  <2>1. heap[array] \in Object /\ heap[array].fields \in Seq(Ref) /\ a \in Ref
    BY DEF HeapInv, TypeOK, Object, Ref
  <2>2. \A i \in DOMAIN heap[array].fields :
          heap[array].fields[i] \in DOMAIN heap \cup {Null}
    BY <1>2 DEF HeapInv, NoDangling
  <2>3. ASSUME NEW f \in Seq(Ref), NEW k
        PROVE  [f EXCEPT ![k] = a] \in Seq(Ref)
    <3>1. PICK n \in Nat : f \in [1..n -> Ref]
      OBVIOUS
    <3>2. [f EXCEPT ![k] = a] \in [1..n -> Ref]
      BY <3>1, <2>1
    <3> QED BY <3>1, <3>2
  <2>4. filled.fields = [heap[array].fields EXCEPT ![ArgumentIndex] = a]
    BY <2>1 DEF Object
  <2>5. filled \in Object
    BY <2>1, <2>3, <2>4 DEF Object
  <2> QED BY <2>1, <2>2, <2>4, <2>5
<1> HIDE DEF filled, array
<1>7. /\ DOMAIN newHeap = DOMAIN heap \cup {a}
      /\ newHeap = [b \in DOMAIN newHeap |-> newHeap[b]]
      /\ DOMAIN newHeap \subseteq Address
  BY <1>4 DEF WellFormedHeap
<1>8. \A b \in DOMAIN newHeap :
        \/ newHeap[b] = WithObject(a, object)[b]
        \/ newHeap[b] = filled /\ array \in DOMAIN heap
  <2>1. Null \notin DOMAIN newHeap
    BY <1>7, HeapConstants
  <2> QED BY <1>4, <1>5, <1>7, <2>1
<1>9. WellFormedHeap(newHeap)
  <2>1. \A b \in DOMAIN newHeap : newHeap[b] \in Object
    BY <1>4, <1>6, <1>7, <1>8 DEF WellFormedHeap
  <2>2. \A b \in DOMAIN newHeap : \A i \in DOMAIN newHeap[b].fields :
          newHeap[b].fields[i] \in DOMAIN newHeap \cup {Null}
    BY <1>4, <1>6, <1>7, <1>8 DEF WellFormedHeap
  <2> QED BY <1>7, <2>1, <2>2 DEF WellFormedHeap
<1>10. WellFormedFrames(frames, DOMAIN newHeap)
  BY <1>2, <1>7, CurrentlyWellFormed DEF WellFormedFrames
<1>11. WellFormedNative(native', argsLeft', started', frames)
  <2>1. argsLeft > 0
    BY <1>1, <1>2 DEF HeapInv, CallDiscipline, AtReserve
  <2> QED BY <1>1, <1>2, <2>1, CurrentlyWellFormed DEF WellFormedNative
<1> HIDE DEF newHeap
<1> QED
  BY <1>1, <1>3, <1>9, <1>10, <1>11, RegisterAllocationInv

-----------------------------------------------------------------------------
(* Generated code.                                                         *)

\* A step that changes the frames only, to well-formed ones, between
\* collections and with no call in progress.
LEMMA FramesStepInv ==
  ASSUME HeapInv, phase = "run", pending = None,
         UNCHANGED <<heap, payloads, phase, marked, worklist, unswept, pending,
                     liveObjects, liveBytes, peakBytes, collections, threshold,
                     nextIdentity>>,
         outcome' = outcome,
         WellFormedFrames(frames', DOMAIN heap),
         WellFormedNative(native', argsLeft', started', frames')
  PROVE  HeapInv'
<1>t. TypeOK'
  BY DEF HeapInv, TypeOK, WellFormedFrames, WellFormedNative
<1>d. NoDangling'
  BY DEF HeapInv, NoDangling, WellFormedFrames
<1>c. CallDiscipline'
  BY DEF CallDiscipline, WellFormedFrames, WellFormedNative
<1>m. MarkDiscipline'
  BY DEF HeapInv, MarkDiscipline
<1> QED BY <1>t, <1>d, <1>c, <1>m DEF HeapInv

\* Live references are the ones a frame may be given.
LEMMA LiveNow ==
  ASSUME HeapInv, Running
  PROVE  /\ DOMAIN heap \subseteq DOMAIN heap
         /\ DOMAIN heap \subseteq Address
         /\ \A s \in Slot : Top[s] \in DOMAIN heap \cup {Null}
         /\ \A s \in Slot : Top[s] \in Roots \cup {Null}
BY TopFrame DEF HeapInv, TypeOK, Roots, Top

LEMMA LoadReferenceInv ==
  ASSUME HeapInv, NEW s \in Slot, NEW t \in Slot, LoadReference(s, t)
  PROVE  HeapInv'
<1>1. /\ Running /\ phase = "run" /\ pending = None /\ Top[s] \in DOMAIN heap
      /\ UNCHANGED <<heap, payloads, phase, marked, worklist, unswept, pending,
                     liveObjects, liveBytes, peakBytes, collections, threshold,
                     nextIdentity, outcome, native, argsLeft, started>>
  BY DEF LoadReference, Idle, gcVars, nativeVars, counterVars
<1>2. PICK ref : ref \in DOMAIN heap \cup {Null} /\ frames' = WithRoot(t, ref)
  BY <1>1 DEF LoadReference, HeapInv, NoDangling
<1>3. WellFormedFrames(WithRoot(t, ref), DOMAIN heap)
      /\ Len(WithRoot(t, ref)) = Len(frames)
  BY <1>1, <1>2, LiveNow, WithRootClosed
<1>4. WellFormedNative(native', argsLeft', started', frames')
  BY <1>1, <1>2, <1>3, CurrentlyWellFormed DEF WellFormedNative
<1> QED BY <1>1, <1>2, <1>3, <1>4, FramesStepInv

LEMMA ClearRootInv ==
  ASSUME HeapInv, NEW s \in Slot, ClearRoot(s)
  PROVE  HeapInv'
<1>1. /\ Running /\ phase = "run" /\ pending = None
      /\ UNCHANGED <<heap, payloads, phase, marked, worklist, unswept, pending,
                     liveObjects, liveBytes, peakBytes, collections, threshold,
                     nextIdentity, outcome, native, argsLeft, started>>
      /\ frames' = WithRoot(s, Null)
  BY DEF ClearRoot, Idle, gcVars, nativeVars, counterVars
<1>2. WellFormedFrames(WithRoot(s, Null), DOMAIN heap)
      /\ Len(WithRoot(s, Null)) = Len(frames)
  BY <1>1, LiveNow, WithRootClosed
<1>3. WellFormedNative(native', argsLeft', started', frames')
  BY <1>1, <1>2, CurrentlyWellFormed DEF WellFormedNative
<1> QED BY <1>1, <1>2, <1>3, FramesStepInv

LEMMA PushFrameInv ==
  ASSUME HeapInv, NEW s \in Slot, PushFrame(s)
  PROVE  HeapInv'
<1>1. /\ Running /\ phase = "run" /\ pending = None
      /\ UNCHANGED <<heap, payloads, phase, marked, worklist, unswept, pending,
                     liveObjects, liveBytes, peakBytes, collections, threshold,
                     nextIdentity, outcome, native, argsLeft, started>>
      /\ frames' = Pushed(Top[s])
  BY DEF PushFrame, Pushed, Idle, gcVars, nativeVars, counterVars
<1>2. WellFormedFrames(Pushed(Top[s]), DOMAIN heap)
      /\ Len(Pushed(Top[s])) = Len(frames) + 1
  BY <1>1, LiveNow, PushedClosed
<1>3. WellFormedNative(native', argsLeft', started', frames')
  BY <1>1, <1>2, CurrentlyWellFormed DEF WellFormedNative, WellFormedFrames
<1> QED BY <1>1, <1>2, <1>3, FramesStepInv

LEMMA PopFrameInv ==
  ASSUME HeapInv, NEW r \in Slot, NEW s \in Slot, PopFrame(r, s)
  PROVE  HeapInv'
<1>1. /\ Running /\ phase = "run" /\ pending = None /\ Len(frames) > 1
      /\ UNCHANGED <<heap, payloads, phase, marked, worklist, unswept, pending,
                     liveObjects, liveBytes, peakBytes, collections, threshold,
                     nextIdentity, outcome, native, argsLeft, started>>
      /\ frames' = Popped(s, Top[r]) /\ native = "none"
  BY DEF PopFrame, Idle, gcVars, nativeVars, counterVars
<1>2. Len(frames) >= 2
  BY <1>1 DEF HeapInv, TypeOK
<1>3. WellFormedFrames(Popped(s, Top[r]), DOMAIN heap)
  BY <1>1, <1>2, LiveNow, PoppedClosed
<1>4. WellFormedNative(native', argsLeft', started', frames')
  BY <1>1, CurrentlyWellFormed DEF WellFormedNative
<1> QED BY <1>1, <1>3, <1>4, FramesStepInv

LEMMA ReturnArgumentsInv == HeapInv /\ ReturnArguments => HeapInv'
<1> SUFFICES ASSUME HeapInv, ReturnArguments PROVE HeapInv'
  OBVIOUS
<1>1. /\ Running /\ phase = "run" /\ pending = None
      /\ UNCHANGED <<heap, payloads, phase, marked, worklist, unswept, pending,
                     liveObjects, liveBytes, peakBytes, collections, threshold,
                     nextIdentity, outcome, argsLeft>>
      /\ frames' = Popped(1, Top[1])
      /\ native = "args" /\ native' = "none" /\ started' = TRUE
  BY DEF ReturnArguments, gcVars, counterVars
<1>2. Len(frames) >= 2 /\ 1 \in Slot
  BY <1>1, HeapConstants DEF HeapInv, CallDiscipline, Slot
<1>3. WellFormedFrames(Popped(1, Top[1]), DOMAIN heap)
  BY <1>1, <1>2, LiveNow, PoppedClosed
<1>4. WellFormedNative(native', argsLeft', started', frames')
  BY <1>1, CurrentlyWellFormed DEF WellFormedNative
<1> QED BY <1>1, <1>3, <1>4, FramesStepInv

LEMMA StoreReferenceInv ==
  ASSUME HeapInv, NEW s \in Slot, NEW t \in Slot, StoreReference(s, t)
  PROVE  HeapInv'
<1> DEFINE target == Top[s]
           value == Top[t]
<1>1. /\ Running /\ phase = "run" /\ pending = None
      /\ UNCHANGED <<payloads, frames, phase, marked, worklist, unswept, pending,
                     liveObjects, liveBytes, peakBytes, collections, threshold,
                     nextIdentity, outcome, native, argsLeft, started>>
      /\ target \in DOMAIN heap
  BY DEF StoreReference, Idle, gcVars, nativeVars, counterVars
<1>2. PICK k \in DOMAIN heap[target].fields :
        heap' = [heap EXCEPT ![target].fields[k] = value]
  BY DEF StoreReference
<1>3. value \in DOMAIN heap \cup {Null} /\ value \in Ref
  BY <1>1, LiveNow DEF Ref
<1> HIDE DEF target, value
<1>4. /\ WellFormedHeap(heap) /\ WellFormedFrames(frames, DOMAIN heap)
      /\ WellFormedNative(native, argsLeft, started, frames)
  BY <1>1, CurrentlyWellFormed
<1>5. heap[target] \in Object /\ heap[target].fields \in Seq(Ref)
  BY <1>1, <1>4 DEF WellFormedHeap, Object
<1>6. [heap[target].fields EXCEPT ![k] = value] \in Seq(Ref)
  <2>1. PICK n \in Nat : heap[target].fields \in [1..n -> Ref]
    BY <1>5
  <2>2. [heap[target].fields EXCEPT ![k] = value] \in [1..n -> Ref]
    BY <2>1, <1>3
  <2> QED BY <2>1, <2>2
<1> DEFINE stored == [heap[target] EXCEPT !.fields = [@ EXCEPT ![k] = value]]
<1>7. /\ stored \in Object
      /\ stored.fields = [heap[target].fields EXCEPT ![k] = value]
  BY <1>5, <1>6 DEF Object
<1>8. heap' = [heap EXCEPT ![target] = stored]
  BY <1>2
<1>9. \A i \in DOMAIN stored.fields : stored.fields[i] \in DOMAIN heap \cup {Null}
  BY <1>1, <1>3, <1>4, <1>5, <1>7 DEF WellFormedHeap
<1> HIDE DEF stored
<1>10. /\ DOMAIN heap' = DOMAIN heap
       /\ heap' = [b \in DOMAIN heap' |-> heap'[b]]
       /\ \A b \in DOMAIN heap : b # target => heap'[b] = heap[b]
       /\ heap'[target] = stored
  BY <1>1, <1>4, <1>8 DEF WellFormedHeap
<1>11. WellFormedHeap(heap')
  BY <1>4, <1>7, <1>9, <1>10 DEF WellFormedHeap
<1>t. TypeOK'
  BY <1>1, <1>11 DEF HeapInv, TypeOK, WellFormedHeap
<1>d. NoDangling'
  BY <1>1, <1>4, <1>10, <1>11 DEF NoDangling, WellFormedHeap, WellFormedFrames
<1>c. CallDiscipline'
  BY <1>1 DEF HeapInv, CallDiscipline, Running
<1>m. MarkDiscipline'
  BY <1>1 DEF HeapInv, MarkDiscipline
<1> QED BY <1>t, <1>d, <1>c, <1>m DEF HeapInv

-----------------------------------------------------------------------------
(* Calls that may collect.                                                 *)

LEMMA ShapeTypes ==
  /\ \A n \in Nat, b \in BOOLEAN : StringShape(n, b) \in Shape
  /\ \A n \in Nat, b \in BOOLEAN : ArrayShape(n, b) \in Shape
  /\ ErrorShape \in Shape
  /\ ObjectShapes \subseteq Shape
  /\ AllocationShapes \subseteq Shape
<1>1. \A n \in Nat, b \in BOOLEAN : StringShape(n, b) \in Shape
  BY HeapConstants DEF StringShape, Shape, Kinds
<1>2. \A n \in Nat, b \in BOOLEAN : ArrayShape(n, b) \in Shape
  <2>1. \A n \in Nat : n * PointerSize \in Nat
    BY HeapConstants
  <2> QED BY <2>1, HeapConstants DEF ArrayShape, Shape, Kinds
<1>3. ErrorShape \in Shape
  BY HeapConstants DEF ErrorShape, Shape, Kinds
<1>4. 0..MaxLength \subseteq Nat
  BY HeapConstants
<1>5. AllocationShapes \subseteq Shape
  BY <1>1, <1>2, <1>4, HeapConstants DEF AllocationShapes
<1> QED BY <1>1, <1>2, <1>3, <1>5, HeapConstants

\* A call made by generated code or by a native helper, whose operands are
\* root slots of the current frame.
LEMMA RequestInv ==
  ASSUME HeapInv, Running, phase = "run", pending = None,
         NEW shape \in Shape,
         NEW then \in {"slot", "print", "box", "message", "error", "arguments",
                       "argument"},
         NEW operands \in SUBSET (Roots \cup {Null}),
         then = "error" => native = "divzero",
         then = "argument" => native = "args" /\ argsLeft > 0,
         CollectBeforeAllocation(Request(shape, then, operands))
  PROVE  HeapInv'
<1> DEFINE request == Request(shape, then, operands)
<1>1. operands \subseteq Ref
  BY RootsRegistered DEF HeapInv, TypeOK, Ref
<1>2. /\ request \in RequestType /\ request.operands = operands
      /\ request.then = then
  BY <1>1 DEF Request, RequestType
<1> HIDE DEF request
<1>3. CollectBeforeAllocation(request)
  BY DEF request
<1> QED BY <1>2, <1>3, CollectBeforeAllocationInv

LEMMA MutatorCallInv ==
  ASSUME HeapInv,
         \/ \E shape \in AllocationShapes : Allocate(shape)
         \/ \E n \in 0..MaxLength, sources \in (SUBSET Slot) \ {{}} :
              AllocateFrom(StringShape(n, TRUE), sources)
         \/ \E shape \in ObjectShapes, s \in Slot : BoxValue(shape, s)
         \/ \E s \in Slot, bytes \in 1..MaxLength : PrintObject(s, bytes)
         \/ DivisionByZero
         \/ \E count \in 0..MaxLength : ProgramArguments(count)
  PROVE  HeapInv'
<1>1. /\ Running /\ phase = "run" /\ pending = None
  BY DEF Allocate, AllocateFrom, BoxValue, PrintObject, DivisionByZero,
         ProgramArguments, Idle
<1>2. 0..MaxLength \subseteq Nat /\ 1..MaxLength \subseteq Nat /\ 0 \in Nat
  BY HeapConstants
<1>3. \A s \in Slot : Top[s] \in Roots \cup {Null}
  BY <1>1, LiveNow
<1>4. CASE \E shape \in AllocationShapes : Allocate(shape)
  BY <1>1, <1>4, ShapeTypes, RequestInv DEF Allocate
<1>5. CASE \E n \in 0..MaxLength, sources \in (SUBSET Slot) \ {{}} :
             AllocateFrom(StringShape(n, TRUE), sources)
  <2>1. PICK n \in 0..MaxLength, sources \in SUBSET Slot :
          AllocateFrom(StringShape(n, TRUE), sources)
    BY <1>5
  <2>2. {Top[t] : t \in sources} \in SUBSET (Roots \cup {Null})
    BY <1>3
  <2>3. StringShape(n, TRUE) \in Shape
    BY <1>2, ShapeTypes
  <2> QED BY <1>1, <2>1, <2>2, <2>3, RequestInv DEF AllocateFrom
<1>6. CASE \E shape \in ObjectShapes, s \in Slot : BoxValue(shape, s)
  <2>1. PICK shape \in ObjectShapes, s \in Slot : BoxValue(shape, s)
    BY <1>6
  <2>2. {Top[s]} \in SUBSET (Roots \cup {Null}) /\ shape \in Shape
    BY <1>3, ShapeTypes
  <2> QED BY <1>1, <2>1, <2>2, RequestInv DEF BoxValue
<1>7. CASE \E s \in Slot, bytes \in 1..MaxLength : PrintObject(s, bytes)
  <2>1. PICK s \in Slot, bytes \in 1..MaxLength : PrintObject(s, bytes)
    BY <1>7
  <2>2. {Top[s]} \in SUBSET (Roots \cup {Null}) /\ StringShape(bytes, TRUE) \in Shape
    BY <1>2, <1>3, ShapeTypes
  <2> QED BY <1>1, <2>1, <2>2, RequestInv DEF PrintObject
<1>8. CASE DivisionByZero
  <2>1. StringShape(0, FALSE) \in Shape /\ {} \in SUBSET (Roots \cup {Null})
    BY <1>2, ShapeTypes
  <2> QED BY <1>1, <1>8, <2>1, RequestInv DEF DivisionByZero
<1>9. CASE \E count \in 0..MaxLength : ProgramArguments(count)
  <2>1. PICK count \in 0..MaxLength : ProgramArguments(count)
    BY <1>9
  <2>2. ArrayShape(count, TRUE) \in Shape /\ {} \in SUBSET (Roots \cup {Null})
    BY <1>2, ShapeTypes
  <2> QED BY <1>1, <2>1, <2>2, RequestInv DEF ProgramArguments
<1> QED BY <1>4, <1>5, <1>6, <1>7, <1>8, <1>9

LEMMA NativeCallInv ==
  ASSUME HeapInv,
         \/ AllocateError
         \/ \E bytes \in 0..MaxLength : AllocateArgument(bytes)
  PROVE  HeapInv'
<1>1. /\ Running /\ phase = "run" /\ pending = None
  BY DEF AllocateError, AllocateArgument
<1>2. {Top[1]} \in SUBSET (Roots \cup {Null})
  BY <1>1, LiveNow, HeapConstants DEF Slot
<1>3. CASE AllocateError
  BY <1>1, <1>2, <1>3, ShapeTypes, RequestInv DEF AllocateError
<1>4. CASE \E bytes \in 0..MaxLength : AllocateArgument(bytes)
  <2>1. PICK bytes \in 0..MaxLength : AllocateArgument(bytes)
    BY <1>4
  <2>2. bytes \in Nat
    BY HeapConstants
  <2>3. StringShape(bytes, TRUE) \in Shape
    BY <2>2, ShapeTypes
  <2> QED BY <1>1, <1>2, <2>1, <2>3, RequestInv DEF AllocateArgument
<1> QED BY <1>3, <1>4

\* The process stops: by an abort or by the return of the entry point.
LEMMA StopInv == HeapInv /\ (ReserveFails \/ Exit) => HeapInv'
<1> SUFFICES ASSUME HeapInv, ReserveFails \/ Exit PROVE HeapInv'
  OBVIOUS
<1>1. CASE ReserveFails
  <2>1. /\ UNCHANGED <<heap, payloads, frames, phase, marked, worklist, unswept,
                       pending, native, argsLeft, started, liveObjects,
                       liveBytes, peakBytes, collections, threshold,
                       nextIdentity>>
        /\ outcome' = "aborted"
    BY <1>1 DEF ReserveFails, RuntimeFailure, gcVars, nativeVars, counterVars
  <2> QED
    BY <2>1 DEF HeapInv, TypeOK, NoDangling, MarkDiscipline, CallDiscipline,
                Roots, Kept, Running
<1>2. CASE Exit
  <2>1. /\ UNCHANGED <<heap, payloads, phase, marked, worklist, unswept,
                       pending, native, argsLeft, started, liveObjects,
                       liveBytes, peakBytes, collections, threshold,
                       nextIdentity>>
        /\ outcome' = "exited" /\ frames' = << >>
        /\ phase = "run" /\ pending = None /\ native = "none"
    BY <1>2 DEF Exit, Idle, gcVars, nativeVars, counterVars
  <2>2. TypeOK'
    BY <2>1 DEF HeapInv, TypeOK
  <2>3. NoDangling'
    BY <2>1 DEF HeapInv, NoDangling
  <2>4. MarkDiscipline'
    BY <2>1 DEF HeapInv, MarkDiscipline
  <2>5. CallDiscipline'
    BY <2>1 DEF CallDiscipline, Running
  <2> QED BY <2>2, <2>3, <2>4, <2>5 DEF HeapInv
<1> QED BY <1>1, <1>2

-----------------------------------------------------------------------------
(* The theorems.                                                           *)

LEMMA InitInv == Init => HeapInv
<1> SUFFICES ASSUME Init PROVE HeapInv
  OBVIOUS
<1>1. EmptyFrame \in [Slot -> Ref] /\ \A s \in Slot : EmptyFrame[s] = Null
  BY DEF EmptyFrame, Ref
<1>2. TypeOK
  <2>1. DOMAIN heap = {} /\ heap = [a \in DOMAIN heap |-> heap[a]]
    BY DEF Init
  <2>2. frames \in Seq([Slot -> Ref])
    BY <1>1 DEF Init
  <2>3. /\ argsLeft \in Nat /\ liveObjects \in Int /\ liveBytes \in Int
        /\ peakBytes \in Int /\ collections \in Nat /\ threshold \in Nat
        /\ nextIdentity \in Nat
    BY HeapConstants DEF Init
  <2>4. /\ payloads \subseteq Address /\ marked \subseteq Address
        /\ worklist \subseteq Address /\ unswept \subseteq Address
        /\ phase \in {"run", "mark", "sweep"} /\ pending = None
        /\ native \in {"none", "divzero", "args"}
        /\ outcome \in {"running", "aborted", "exited"}
    BY DEF Init
  <2>5. started \in BOOLEAN
    BY DEF Init
  <2>6. DOMAIN heap \subseteq Address /\ \A a \in DOMAIN heap : heap[a] \in Object
    BY <2>1
  <2> QED BY <2>1, <2>2, <2>3, <2>4, <2>5, <2>6, Zenon DEF TypeOK
<1>3. NoDangling
  BY <1>1 DEF Init, NoDangling
<1>4. MarkDiscipline
  BY DEF Init, MarkDiscipline
<1>5. CallDiscipline
  BY DEF Init, CallDiscipline
<1> QED BY <1>2, <1>3, <1>4, <1>5 DEF HeapInv

LEMMA StepInv == HeapInv /\ [Next]_vars => HeapInv'
<1> SUFFICES ASSUME HeapInv, [Next]_vars PROVE HeapInv'
  OBVIOUS
<1>1. CASE Mutator
  BY <1>1, MutatorCallInv, LoadReferenceInv, StoreReferenceInv, ClearRootInv,
     PushFrameInv, PopFrameInv, GcCollectInv, StopInv DEF Mutator
<1>2. CASE Runtime
  BY <1>2, MarkStepInv, StartSweepInv, SweepStepInv, FinishCollectionInv,
     StopInv, DeliverToSlotInv, DeliverToPrintInv, DeliverBoxInv,
     PushNativeFrameInv, NativeCallInv, ReturnErrorInv, StoreArgumentInv,
     ReturnArgumentsInv DEF Runtime
<1>3. CASE UNCHANGED vars
  BY <1>3 DEF HeapInv, TypeOK, NoDangling, MarkDiscipline, CallDiscipline,
              Roots, Kept, Running, vars, gcVars, nativeVars, counterVars
<1> QED BY <1>1, <1>2, <1>3 DEF Next, Terminated

\* The inductive invariant holds in every reachable state: the registry, the
\* roots and the marks agree at every step of a collection and of a call.
THEOREM HeapInvariant == Spec => []HeapInv
BY InitInv, StepInv, PTL DEF Spec

\* Every variable of the runtime keeps its type.
THEOREM TypeCorrect == Spec => []TypeOK
<1>1. HeapInv => TypeOK
  BY DEF HeapInv
<1> QED BY <1>1, HeapInvariant, PTL

\* A root slot never holds a freed object, and outside a sweep no registered
\* object refers to one: the collector frees nothing the program can reach.
THEOREM MemorySafety == Spec => []NoDangling
<1>1. HeapInv => NoDangling
  BY DEF HeapInv
<1> QED BY <1>1, HeapInvariant, PTL

\* What a runtime call reads after its safepoint is still registered, during
\* the collection it caused and after it.
THEOREM OperandsSurvive == Spec => []OperandsLive
<1>1. HeapInv => OperandsLive
  BY RootsRegistered DEF HeapInv, CallDiscipline, OperandsLive
<1> QED BY <1>1, HeapInvariant, PTL

-----------------------------------------------------------------------------
(* The storage of a registry.                                              *)

\* One object occupies as many bytes as its header says.
LEMMA ObjectStorage ==
  ASSUME NEW a, NEW n \in Nat
  PROVE  /\ IsFiniteSet({a} \X (1..n))
         /\ Cardinality({a} \X (1..n)) = n
<1> DEFINE byte == [i \in 1..n |-> <<a, i>>]
<1>1. byte \in Bijection(1..n, {a} \X (1..n))
  <2>1. byte \in [1..n -> {a} \X (1..n)]
    OBVIOUS
  <2>2. \A i, j \in 1..n : byte[i] = byte[j] => i = j
    OBVIOUS
  <2>3. \A t \in {a} \X (1..n) : \E i \in 1..n : byte[i] = t
    OBVIOUS
  <2> QED
    BY <2>1, <2>2, <2>3, Fun_IsBij
<1>2. ExistsBijection(1..n, {a} \X (1..n))
  BY <1>1 DEF ExistsBijection
<1>3. IsFiniteSet(1..n) /\ Cardinality(1..n) = n
  BY FS_Interval
<1> QED BY <1>2, <1>3, FS_Bijection

\* Registries with the same objects of the same sizes occupy the same bytes.
LEMMA SameStorage ==
  ASSUME NEW h, NEW g, DOMAIN g = DOMAIN h,
         \A b \in DOMAIN h : g[b].size = h[b].size
  PROVE  Storage(g) = Storage(h)
BY DEF Storage

\* An object more is its size more.
LEMMA AddedStorage ==
  ASSUME NEW h, NEW g, NEW a, a \notin DOMAIN h, DOMAIN g = DOMAIN h \cup {a},
         \A b \in DOMAIN h : g[b].size = h[b].size,
         g[a].size \in Nat
  PROVE  /\ IsFiniteSet(Storage(h)) =>
              /\ IsFiniteSet(Storage(g))
              /\ Cardinality(Storage(g)) = Cardinality(Storage(h)) + g[a].size
         /\ Storage(h) \subseteq Storage(g)
<1> DEFINE own == {a} \X (1..g[a].size)
<1>1. IsFiniteSet(own) /\ Cardinality(own) = g[a].size
  BY ObjectStorage
<1>2. Storage(g) = Storage(h) \cup own
  BY DEF Storage
<1>3. Storage(h) \cap own = {}
  BY DEF Storage
<1> HIDE DEF own
<1>4. IsFiniteSet(Storage(h)) => Cardinality(Storage(h)) \in Nat
  BY FS_CardinalityType
<1>5. ASSUME IsFiniteSet(Storage(h))
      PROVE  /\ IsFiniteSet(Storage(h) \cup own)
             /\ Cardinality(Storage(h) \cup own) =
                  Cardinality(Storage(h)) + Cardinality(own) - Cardinality({})
  BY <1>1, <1>3, <1>5, FS_Union
<1> QED BY <1>1, <1>2, <1>4, <1>5, FS_EmptySet

-----------------------------------------------------------------------------
(* The counters.                                                           *)

\* The invariant of the statistics.
CountInv ==
  /\ Accounting
  /\ ThresholdBound
  /\ IsFiniteSet(Storage(heap))

\* The objects of a set keep the header fields the statistics depend on.
KeepsHeaders(h, g, objects) ==
  \A b \in objects : /\ g[b].size = h[b].size
                     /\ g[b].owns = h[b].owns
                     /\ g[b].identity = h[b].identity

\* A step that neither allocates nor frees.
KeepsAccounts ==
  /\ UNCHANGED <<payloads, liveObjects, liveBytes, peakBytes, nextIdentity>>
  /\ DOMAIN heap' = DOMAIN heap
  /\ KeepsHeaders(heap, heap', DOMAIN heap)

LEMMA KeptAccounts ==
  ASSUME CountInv, KeepsAccounts
  PROVE  Accounting' /\ IsFiniteSet(Storage(heap'))
<1>1. Storage(heap') = Storage(heap)
  BY SameStorage DEF KeepsAccounts, KeepsHeaders
<1>2. {a \in DOMAIN heap' : heap'[a].owns} = {a \in DOMAIN heap : heap[a].owns}
  BY DEF KeepsAccounts, KeepsHeaders
<1>3. Accounting'
  BY <1>1, <1>2 DEF CountInv, Accounting, KeepsAccounts, KeepsHeaders
<1> QED BY <1>1, <1>3 DEF CountInv

\* A step that, besides, admits no request and ends no collection.
KeepsBounds ==
  /\ KeepsAccounts
  /\ UNCHANGED <<threshold, pending>>
  /\ phase' = "run" => phase = "run"
  /\ Running' => Running

LEMMA KeptBounds ==
  ASSUME CountInv, KeepsBounds
  PROVE  CountInv'
<1>1. ThresholdBound'
  BY DEF CountInv, ThresholdBound, KeepsBounds, KeepsAccounts, AtReserve
<1> QED BY <1>1, KeptAccounts DEF CountInv, KeepsBounds

LEMMA CollectorSteps ==
  ASSUME HeapInv, MarkStep \/ StartSweep \/ GcCollect \/ ReserveFails \/ Exit
                    \/ ReturnArguments \/ UNCHANGED vars
  PROVE  KeepsBounds
BY DEF MarkStep, StartSweep, GcCollect, StartCollection, ReserveFails,
       RuntimeFailure, Exit, ReturnArguments, Idle, Running, KeepsBounds,
       KeepsAccounts, KeepsHeaders, vars, counterVars, gcVars

LEMMA FrameSteps ==
  ASSUME HeapInv,
         \/ \E s, t \in Slot : LoadReference(s, t)
         \/ \E s \in Slot : ClearRoot(s) \/ PushFrame(s)
         \/ \E r, s \in Slot : PopFrame(r, s)
  PROVE  KeepsBounds
BY DEF LoadReference, ClearRoot, PushFrame, PopFrame, Idle, KeepsBounds,
       Running, KeepsAccounts, KeepsHeaders, counterVars, gcVars

\* A field of an object is no part of its header.
LEMMA StoredHeaders ==
  ASSUME NEW h, NEW a, NEW k, NEW ref,
         \A b \in DOMAIN h : h[b] \in Object
  PROVE  LET g == [h EXCEPT ![a].fields[k] = ref]
         IN  DOMAIN g = DOMAIN h /\ KeepsHeaders(h, g, DOMAIN h)
<1> DEFINE g == [h EXCEPT ![a].fields[k] = ref]
<1>1. \A b \in DOMAIN h : b # a => g[b] = h[b]
  OBVIOUS
<1>2. a \in DOMAIN h => g[a] = [h[a] EXCEPT !.fields = [@ EXCEPT ![k] = ref]]
  OBVIOUS
<1>3. a \in DOMAIN h => /\ g[a].size = h[a].size
                        /\ g[a].owns = h[a].owns
                        /\ g[a].identity = h[a].identity
  BY <1>2 DEF Object
<1>4. DOMAIN g = DOMAIN h
  OBVIOUS
<1> HIDE DEF g
<1>5. KeepsHeaders(h, g, DOMAIN h)
  BY <1>1, <1>3 DEF KeepsHeaders
<1> QED BY <1>4, <1>5 DEF g

LEMMA StoreSteps ==
  ASSUME HeapInv, NEW s \in Slot, NEW t \in Slot, StoreReference(s, t)
  PROVE  KeepsBounds
<1>1. PICK k : heap' = [heap EXCEPT ![Top[s]].fields[k] = Top[t]]
  BY DEF StoreReference
<1>2. DOMAIN heap' = DOMAIN heap /\ KeepsHeaders(heap, heap', DOMAIN heap)
  BY <1>1, StoredHeaders DEF HeapInv, TypeOK
<1> QED
  BY <1>2 DEF StoreReference, Idle, KeepsBounds, KeepsAccounts, Running,
              counterVars, gcVars

-----------------------------------------------------------------------------
(* The threshold.                                                          *)

\* Doubling saturates at MaxBytes and never goes below its argument.
LEMMA DoubledBound ==
  ASSUME NEW n \in 0..MaxBytes
  PROVE  /\ Maximum(Floor, SaturatingDouble(n)) \in Floor..MaxBytes
         /\ n <= Maximum(Floor, SaturatingDouble(n))
<1>1. MaxBytes \in Nat /\ Floor \in Nat /\ Floor <= MaxBytes
  BY HeapConstants
<1>2. n \in Nat /\ n <= MaxBytes
  BY <1>1
<1>3. SaturatingDouble(n) \in Nat /\ SaturatingDouble(n) <= MaxBytes
      /\ n <= SaturatingDouble(n)
  BY <1>1, <1>2 DEF SaturatingDouble
<1> QED BY <1>1, <1>2, <1>3 DEF Maximum

\* Outside a collection the request in progress has been admitted.
LEMMA RequestSize ==
  ASSUME HeapInv, pending # None
  PROVE  pending.shape.size \in Nat
BY DEF HeapInv, TypeOK, RequestType, Shape

LEMMA FinishBounds ==
  ASSUME HeapInv, CountInv, FinishCollection
  PROVE  CountInv'
<1> DEFINE base == Maximum(Floor, SaturatingDouble(liveBytes))
           projected == liveBytes + pending.shape.size
<1>1. /\ KeepsAccounts /\ UNCHANGED <<pending, liveBytes>>
  BY DEF FinishCollection, KeepsAccounts, KeepsHeaders
<1>2. /\ base \in Floor..MaxBytes /\ liveBytes <= base
      /\ liveBytes \in 0..MaxBytes
  BY DoubledBound DEF CountInv, Accounting
<1>3. CASE pending = None
  <2>1. threshold' = base
    BY <1>3 DEF FinishCollection
  <2>2. ThresholdBound'
    BY <1>1, <1>2, <1>3, <2>1 DEF ThresholdBound, AtReserve
  <2> QED BY <1>1, <2>2, KeptAccounts DEF CountInv
<1>4. CASE pending # None /\ projected > MaxBytes
  <2>1. threshold' = base /\ outcome' = "aborted"
    BY <1>4 DEF FinishCollection
  <2>2. ThresholdBound'
    BY <1>1, <1>2, <2>1 DEF ThresholdBound, AtReserve, Running
  <2> QED BY <1>1, <2>2, KeptAccounts DEF CountInv
<1>5. CASE pending # None /\ ~(projected > MaxBytes)
  <2>1. threshold' = ThresholdFor(base, projected)
    BY <1>5 DEF FinishCollection
  <2>2. pending.shape.size \in Nat
    BY <1>5, RequestSize
  <2>3. projected \in 0..MaxBytes
    BY <1>2, <1>5, <2>2, HeapConstants
  <2>4. /\ Maximum(Floor, SaturatingDouble(projected)) \in Floor..MaxBytes
        /\ projected <= Maximum(Floor, SaturatingDouble(projected))
    BY <2>3, DoubledBound
  <2>5. threshold' \in Floor..MaxBytes /\ projected <= threshold'
    <3> HIDE DEF base, projected
    <3> QED BY <1>2, <2>1, <2>3, <2>4, HeapConstants DEF ThresholdFor
  <2>6. liveBytes <= threshold'
    BY <1>2, <2>2, <2>5, HeapConstants
  <2>7. ThresholdBound'
    BY <1>1, <2>5, <2>6 DEF ThresholdBound, AtReserve
  <2> QED BY <1>1, <2>7, KeptAccounts DEF CountInv
<1> QED BY <1>3, <1>4, <1>5

\* A request is admitted within the threshold, or collects first.
LEMMA AdmittedBounds ==
  ASSUME HeapInv, CountInv, Running, phase = "run", NEW request,
         CollectBeforeAllocation(request)
  PROVE  CountInv'
<1>1. KeepsAccounts /\ UNCHANGED <<threshold, liveBytes>>
  BY DEF CollectBeforeAllocation, KeepsAccounts, KeepsHeaders, counterVars
<1>2. ThresholdBound'
  BY <1>1 DEF CollectBeforeAllocation, StartCollection, CountInv, Accounting,
              ThresholdBound, AtReserve, Running, gcVars
<1> QED BY <1>1, <1>2, KeptAccounts DEF CountInv

LEMMA CallBounds ==
  ASSUME HeapInv, CountInv,
         \/ \E shape \in AllocationShapes : Allocate(shape)
         \/ \E n \in 0..MaxLength, sources \in (SUBSET Slot) \ {{}} :
              AllocateFrom(StringShape(n, TRUE), sources)
         \/ \E shape \in ObjectShapes, s \in Slot : BoxValue(shape, s)
         \/ \E s \in Slot, bytes \in 1..MaxLength : PrintObject(s, bytes)
         \/ DivisionByZero
         \/ \E count \in 0..MaxLength : ProgramArguments(count)
         \/ AllocateError
         \/ \E bytes \in 0..MaxLength : AllocateArgument(bytes)
  PROVE  CountInv'
<1>1. /\ Running /\ phase = "run"
      /\ \E request : CollectBeforeAllocation(request)
  BY DEF Allocate, AllocateFrom, BoxValue, PrintObject, DivisionByZero,
         ProgramArguments, AllocateError, AllocateArgument, Idle
<1> QED BY <1>1, AdmittedBounds

-----------------------------------------------------------------------------
(* Reclaiming and allocating.                                              *)

LEMMA FiniteRegistry ==
  ASSUME HeapInv
  PROVE  IsFiniteSet(DOMAIN heap) /\ Cardinality(DOMAIN heap) \in Nat
<1>1. DOMAIN heap \in SUBSET Address /\ IsFiniteSet(Address)
  BY HeapConstants DEF HeapInv, TypeOK
<1>2. IsFiniteSet(DOMAIN heap)
  BY <1>1, FS_Subset
<1> QED BY <1>2, FS_CardinalityType

LEMMA SweepBounds ==
  ASSUME HeapInv, CountInv, SweepStep
  PROVE  CountInv'
<1>1. PICK x \in unswept : Survive(x) \/ Reclaim(x)
  BY DEF SweepStep
<1>2. /\ UNCHANGED <<pending, peakBytes, threshold, nextIdentity, outcome>>
      /\ phase = "sweep" /\ phase' = "sweep" /\ x \in DOMAIN heap
  BY DEF SweepStep, HeapInv, MarkDiscipline
<1>3. CASE Survive(x)
  <2>1. KeepsBounds
    BY <1>2, <1>3 DEF Survive, KeepsBounds, KeepsAccounts, KeepsHeaders, Running
  <2> QED BY <2>1, KeptBounds
<1>4. CASE Reclaim(x)
  <2>1. /\ DOMAIN heap' = DOMAIN heap \ {x}
        /\ \A b \in DOMAIN heap' : heap'[b] = heap[b]
        /\ payloads' = payloads \ OwnedPayload(x)
        /\ liveObjects' = liveObjects - 1
        /\ liveBytes' = liveBytes - heap[x].size
    BY <1>4 DEF Reclaim
  <2>2. heap[x].size \in Nat
    BY <1>2 DEF HeapInv, TypeOK, Object
  <2>3. Cardinality(DOMAIN heap') = Cardinality(DOMAIN heap) - 1
    BY <1>2, <2>1, FiniteRegistry, FS_RemoveElement
  <2>4. /\ IsFiniteSet(Storage(heap'))
        /\ Cardinality(Storage(heap)) = Cardinality(Storage(heap')) + heap[x].size
        /\ Cardinality(Storage(heap')) \in Nat
    <3>1. /\ x \notin DOMAIN heap' /\ DOMAIN heap = DOMAIN heap' \cup {x}
          /\ \A b \in DOMAIN heap' : heap[b].size = heap'[b].size
      BY <1>2, <2>1
    <3>2. Storage(heap') \subseteq Storage(heap)
      BY <2>2, <3>1, AddedStorage
    <3>3. IsFiniteSet(Storage(heap'))
      BY <3>2, FS_Subset DEF CountInv
    <3> QED BY <2>2, <3>1, <3>3, AddedStorage, FS_CardinalityType
  <2>5. liveBytes' = Cardinality(Storage(heap')) /\ liveBytes' \in 0..MaxBytes
        /\ liveBytes' <= peakBytes
    <3>1. /\ liveBytes = Cardinality(Storage(heap)) /\ liveBytes \in 0..MaxBytes
          /\ liveBytes <= peakBytes /\ peakBytes \in Int /\ MaxBytes \in Nat
      BY HeapConstants DEF CountInv, Accounting, HeapInv, TypeOK
    <3> QED BY <2>1, <2>2, <2>4, <3>1
  <2>6. payloads' = {a \in DOMAIN heap' : heap'[a].owns}
    BY <2>1 DEF CountInv, Accounting, OwnedPayload
  <2>7. Accounting'
    BY <1>2, <2>1, <2>3, <2>5, <2>6 DEF CountInv, Accounting
  <2>8. ThresholdBound'
    BY <1>2 DEF CountInv, ThresholdBound, AtReserve
  <2> QED BY <2>4, <2>7, <2>8 DEF CountInv
<1> QED BY <1>1, <1>3, <1>4

\* register_allocation of an object with the next identity and the size the
\* threshold test admitted, whatever it refers to.
LEMMA RegisteredBounds ==
  ASSUME HeapInv, CountInv, NEW a, CanReserve(a),
         NEW object, NEW newHeap, NEW newFrames,
         object.size = pending.shape.size,
         object.owns \in BOOLEAN, object.identity = nextIdentity,
         DOMAIN newHeap = DOMAIN heap \cup {a},
         KeepsHeaders(WithObject(a, object), newHeap, DOMAIN newHeap),
         RegisterAllocation(a, object, newHeap, newFrames)
  PROVE  CountInv'
<1>1. /\ heap' = newHeap
      /\ payloads' = IF object.owns THEN payloads \cup {a} ELSE payloads
      /\ nextIdentity' = nextIdentity + 1
      /\ liveObjects' = liveObjects + 1
      /\ liveBytes' = liveBytes + object.size
      /\ peakBytes' = Maximum(peakBytes, liveBytes + object.size)
      /\ pending' = None /\ threshold' = threshold
  BY DEF RegisterAllocation
<1>2. /\ AtReserve /\ pending # None /\ a \notin DOMAIN heap
      /\ nextIdentity \in Nat /\ peakBytes \in Int
  BY DEF CanReserve, AtReserve, HeapInv, TypeOK
<1>3. /\ newHeap[a].size = object.size /\ newHeap[a].owns = object.owns
      /\ newHeap[a].identity = nextIdentity
      /\ KeepsHeaders(heap, newHeap, DOMAIN heap)
  BY <1>2 DEF KeepsHeaders, WithObject
<1>4. object.size \in Nat
  BY <1>2, RequestSize
<1>5. Cardinality(DOMAIN newHeap) = Cardinality(DOMAIN heap) + 1
  BY <1>2, FiniteRegistry, FS_AddElement
<1>6. /\ IsFiniteSet(Storage(newHeap))
      /\ Cardinality(Storage(newHeap)) = Cardinality(Storage(heap)) + object.size
  BY <1>2, <1>3, <1>4, AddedStorage DEF CountInv, KeepsHeaders
<1>7. /\ liveBytes + object.size <= threshold /\ threshold <= MaxBytes
      /\ threshold \in Nat /\ liveBytes \in 0..MaxBytes
  BY <1>2, HeapConstants DEF CountInv, ThresholdBound, Accounting, HeapInv, TypeOK
<1>8. /\ liveBytes' = Cardinality(Storage(heap')) /\ liveBytes' \in 0..MaxBytes
      /\ liveBytes' <= peakBytes' /\ liveBytes' <= threshold'
  BY <1>1, <1>2, <1>4, <1>6, <1>7, HeapConstants DEF CountInv, Accounting, Maximum
<1>9. payloads' = {b \in DOMAIN heap' : heap'[b].owns}
  BY <1>1, <1>2, <1>3 DEF CountInv, Accounting, KeepsHeaders
<1>10. \A b \in DOMAIN heap : heap[b].identity \in Nat /\ heap[b].identity < nextIdentity
  BY DEF CountInv, Accounting, HeapInv, TypeOK, Object
<1>11. /\ \A b \in DOMAIN heap' : heap'[b].identity < nextIdentity'
       /\ \A b, c \in DOMAIN heap' : heap'[b].identity = heap'[c].identity => b = c
  BY <1>1, <1>2, <1>3, <1>10 DEF CountInv, Accounting, KeepsHeaders
<1>12. Accounting'
  BY <1>1, <1>5, <1>8, <1>9, <1>11 DEF CountInv, Accounting
<1>13. ThresholdBound'
  BY <1>1, <1>8 DEF CountInv, ThresholdBound, AtReserve
<1> QED BY <1>1, <1>6, <1>12, <1>13 DEF CountInv

\* The new object, with null references or copies of one, keeps its header.
LEMMA NewHeader ==
  ASSUME HeapInv, AtReserve, NEW ref
  PROVE  LET object == NewObject(pending.shape)
             copy == [object EXCEPT !.fields =
                        [i \in 1..pending.shape.refs |-> ref]]
         IN  /\ object.size = pending.shape.size /\ object.owns \in BOOLEAN
             /\ object.identity = nextIdentity
             /\ copy.size = pending.shape.size /\ copy.owns \in BOOLEAN
             /\ copy.identity = nextIdentity
BY DEF NewObject, AtReserve, HeapInv, TypeOK, RequestType, Shape

LEMMA RegisteredObject ==
  ASSUME HeapInv, CountInv, NEW a, CanReserve(a), NEW object, NEW newFrames,
         object.size = pending.shape.size,
         object.owns \in BOOLEAN, object.identity = nextIdentity,
         RegisterAllocation(a, object, WithObject(a, object), newFrames)
  PROVE  CountInv'
<1>1. DOMAIN WithObject(a, object) = DOMAIN heap \cup {a}
  BY DEF WithObject
<1>2. KeepsHeaders(WithObject(a, object), WithObject(a, object),
                   DOMAIN WithObject(a, object))
  BY DEF KeepsHeaders
<1> QED BY <1>1, <1>2, RegisteredBounds

LEMMA DeliveryBounds ==
  ASSUME HeapInv, CountInv, NEW a \in Address,
         \/ \E s \in Slot : DeliverToSlot(a, s)
         \/ DeliverToPrint(a)
         \/ \E s \in Slot : DeliverBox(a, s)
         \/ PushMessageFrame(a)
         \/ \E s \in Slot : ReturnError(a, s)
         \/ PushArgumentsFrame(a)
  PROVE  CountInv'
<1> DEFINE object == NewObject(pending.shape)
           copy(ref) == [object EXCEPT !.fields =
                           [i \in 1..pending.shape.refs |-> ref]]
<1>1. CanReserve(a) /\ AtReserve
  BY DEF DeliverToSlot, DeliverToPrint, DeliverBox, PushMessageFrame, ReturnError,
         PushArgumentsFrame, CanReserve
<1>2. \E new, newFrames :
        /\ new = object \/ \E ref : new = copy(ref)
        /\ RegisterAllocation(a, new, WithObject(a, new), newFrames)
  BY DEF DeliverToSlot, DeliverToPrint, DeliverBox, PushMessageFrame, ReturnError,
         PushArgumentsFrame
<1>3. PICK new, newFrames :
        /\ new = object \/ \E ref : new = copy(ref)
        /\ RegisterAllocation(a, new, WithObject(a, new), newFrames)
  BY <1>2
<1>4. /\ new.size = pending.shape.size /\ new.owns \in BOOLEAN
      /\ new.identity = nextIdentity
  BY <1>1, <1>3, NewHeader
<1> QED BY <1>1, <1>3, <1>4, RegisteredObject

LEMMA ArgumentBounds ==
  ASSUME HeapInv, CountInv, NEW a \in Address, StoreArgument(a)
  PROVE  CountInv'
<1> DEFINE object == NewObject(pending.shape)
           array == Top[1]
           filled == [heap[array] EXCEPT !.fields[ArgumentIndex] = a]
           newHeap == [WithObject(a, object) EXCEPT ![array] = filled]
<1>1. /\ CanReserve(a) /\ AtReserve
      /\ RegisterAllocation(a, object, newHeap, frames)
  BY DEF StoreArgument, CanReserve
<1>2. /\ object.size = pending.shape.size /\ object.owns \in BOOLEAN
      /\ object.identity = nextIdentity
  BY <1>1, NewHeader
<1>3. DOMAIN newHeap = DOMAIN heap \cup {a}
  BY DEF WithObject
<1>4. array \in DOMAIN heap \cup {Null}
  BY <1>1, TopFrame, HeapConstants DEF Slot, AtReserve
<1>5. array \in DOMAIN heap => /\ filled.size = heap[array].size
                              /\ filled.owns = heap[array].owns
                              /\ filled.identity = heap[array].identity
  BY DEF HeapInv, TypeOK, Object
<1>6. Null # a /\ a \notin DOMAIN heap /\ Null \notin DOMAIN heap
  BY <1>1, HeapConstants DEF CanReserve, HeapInv, TypeOK
<1> HIDE DEF filled, array, object
<1>7. KeepsHeaders(WithObject(a, object), newHeap, DOMAIN newHeap)
  BY <1>3, <1>4, <1>5, <1>6 DEF KeepsHeaders, WithObject
<1> HIDE DEF newHeap
<1> QED BY <1>1, <1>2, <1>3, <1>7, RegisteredBounds

-----------------------------------------------------------------------------
(* The theorems.                                                           *)

LEMMA InitCounts == Init => CountInv
<1> SUFFICES ASSUME Init PROVE CountInv
  OBVIOUS
<1>1. DOMAIN heap = {}
  BY DEF Init
<1>2. Storage(heap) = {}
  BY <1>1 DEF Storage
<1>3. Accounting
  <2>1. /\ liveObjects = Cardinality(DOMAIN heap)
        /\ liveBytes = Cardinality(Storage(heap))
    BY <1>1, <1>2, FS_EmptySet DEF Init
  <2>2. liveBytes \in 0..MaxBytes /\ liveBytes <= peakBytes
    BY HeapConstants DEF Init
  <2>3. payloads = {a \in DOMAIN heap : heap[a].owns}
    BY <1>1 DEF Init
  <2> QED BY <1>1, <2>1, <2>2, <2>3 DEF Accounting
<1>4. ThresholdBound
  BY HeapConstants DEF Init, ThresholdBound, AtReserve
<1> QED BY <1>2, <1>3, <1>4, FS_EmptySet DEF CountInv

LEMMA StepCounts == HeapInv /\ CountInv /\ [Next]_vars => CountInv'
<1> SUFFICES ASSUME HeapInv, CountInv, [Next]_vars PROVE CountInv'
  OBVIOUS
<1>1. CASE Mutator
  BY <1>1, CallBounds, FrameSteps, StoreSteps, CollectorSteps, KeptBounds
  DEF Mutator
<1>2. CASE Runtime
  BY <1>2, CollectorSteps, KeptBounds, SweepBounds, FinishBounds, DeliveryBounds,
     ArgumentBounds, CallBounds DEF Runtime
<1>3. CASE UNCHANGED vars
  BY <1>3, CollectorSteps, KeptBounds
<1> QED BY <1>1, <1>2, <1>3 DEF Next, Terminated

\* The statistics agree with the registry at every step of an allocation and
\* of a sweep, and each live object has an identity of its own.
THEOREM AccountsExact == Spec => []Accounting
<1>1. CountInv => Accounting
  BY DEF CountInv
<1> QED BY <1>1, InitCounts, StepCounts, HeapInvariant, PTL DEF Spec

\* Between collections the live bytes, an admitted request included, never
\* exceed collection_threshold, and the threshold stays between its floor and
\* UINT64_MAX.
THEOREM ThresholdKept == Spec => []ThresholdBound
<1>1. CountInv => ThresholdBound
  BY DEF CountInv
<1> QED BY <1>1, InitCounts, StepCounts, HeapInvariant, PTL DEF Spec


-----------------------------------------------------------------------------
(* Exactness: nothing unreachable is marked, and what the sweep keeps is    *)
(* what was reachable when it began.                                       *)

ExactMarks ==
  /\ phase = "mark" => marked \subseteq Reachable
  /\ phase = "sweep" => Kept \subseteq Reachable

\* A set of registered objects that holds the roots and follows references
\* holds every reachable object.
LEMMA ReachableLeast ==
  ASSUME NEW S \in SUBSET DOMAIN heap, FindAllocation(Roots) \subseteq S,
         \A a \in S : FieldRefs(a) \cap DOMAIN heap \subseteq S
  PROVE  Reachable \subseteq S
BY DEF Reachable

\* The roots are reachable, and so is what a reachable object refers to.
LEMMA ReachableClosed ==
  /\ Reachable \subseteq DOMAIN heap
  /\ FindAllocation(Roots) \subseteq Reachable
  /\ \A a \in Reachable : FieldRefs(a) \cap DOMAIN heap \subseteq Reachable
BY DEF Reachable, FindAllocation

\* While sweeping, what is kept contains the roots and follows references.
LEMMA KeptClosed ==
  ASSUME HeapInv, phase = "sweep"
  PROVE  /\ Kept \subseteq DOMAIN heap
         /\ FindAllocation(Roots) \subseteq Kept
         /\ \A a \in Kept : FieldRefs(a) \cap DOMAIN heap \subseteq Kept
         /\ Reachable \subseteq Kept
<1>1. Kept \subseteq DOMAIN heap
  BY DEF HeapInv, MarkDiscipline, Kept
<1>2. FindAllocation(Roots) \subseteq Kept
  BY DEF HeapInv, MarkDiscipline, FindAllocation
<1>3. Null \notin DOMAIN heap
  BY HeapConstants DEF HeapInv, TypeOK
<1>4. \A a \in Kept : FieldRefs(a) \cap DOMAIN heap \subseteq Kept
  BY <1>3 DEF HeapInv, MarkDiscipline, FieldRefs
<1> QED BY <1>1, <1>2, <1>4, ReachableLeast

LEMMA MarkExact ==
  ASSUME HeapInv, ExactMarks, MarkStep
  PROVE  ExactMarks'
<1>1. PICK x \in worklist : ScanObject(x)
  BY DEF MarkStep
<1>2. /\ phase = "mark" /\ phase' = "mark" /\ UNCHANGED <<heap, frames>>
      /\ marked' \subseteq marked \cup (FieldRefs(x) \cap DOMAIN heap)
      /\ x \in marked
  BY <1>1 DEF MarkStep, ScanObject, FindAllocation, HeapInv, MarkDiscipline
<1>3. Reachable' = Reachable
  BY <1>2 DEF Reachable, FindAllocation, FieldRefs, Roots
<1>4. marked' \subseteq Reachable
  BY <1>2, ReachableClosed DEF ExactMarks
<1> QED BY <1>2, <1>3, <1>4 DEF ExactMarks

LEMMA StartSweepExact ==
  ASSUME HeapInv, ExactMarks, StartSweep
  PROVE  ExactMarks'
<1>1. /\ phase = "mark" /\ phase' = "sweep" /\ UNCHANGED <<heap, frames, marked>>
      /\ unswept' = DOMAIN heap
  BY DEF StartSweep
<1>2. Reachable' = Reachable
  BY <1>1 DEF Reachable, FindAllocation, FieldRefs, Roots
<1>3. Kept' = marked
  BY <1>1 DEF Kept
<1> QED BY <1>1, <1>2, <1>3 DEF ExactMarks

\* Freeing garbage changes neither what is kept nor what is reachable.
LEMMA SweepExact ==
  ASSUME HeapInv, ExactMarks, SweepStep
  PROVE  ExactMarks'
<1>1. PICK x \in unswept : (Survive(x) \/ Reclaim(x)) /\ unswept' = unswept \ {x}
  BY DEF SweepStep
<1>2. phase = "sweep" /\ phase' = "sweep" /\ UNCHANGED frames
  BY DEF SweepStep
<1>3. Kept' = Kept
  BY <1>1, <1>2 DEF HeapInv, MarkDiscipline, SweepStep, Survive, Reclaim, Kept
<1>4. /\ DOMAIN heap' \subseteq DOMAIN heap /\ Kept \subseteq DOMAIN heap'
      /\ \A a \in DOMAIN heap' : heap'[a] = heap[a]
  BY <1>1, <1>2 DEF HeapInv, MarkDiscipline, Survive, Reclaim, Kept
<1>5. Roots' = Roots /\ \A a \in DOMAIN heap' : FieldRefs(a)' = FieldRefs(a)
  BY <1>2, <1>4 DEF Roots, FieldRefs
<1>6. Reachable \subseteq Reachable'
  <2> SUFFICES ASSUME NEW r \in Reachable, NEW S \in SUBSET DOMAIN heap',
                      FindAllocation(Roots)' \subseteq S,
                      \A a \in S \cap DOMAIN heap' :
                        FieldRefs(a)' \cap DOMAIN heap' \subseteq S
               PROVE  r \in S
    BY <1>2, <1>4, KeptClosed DEF Reachable
  <2>1. S \cap Kept \in SUBSET DOMAIN heap
    BY <1>4
  <2>2. FindAllocation(Roots) \subseteq S \cap Kept
    BY <1>2, <1>4, <1>5, KeptClosed DEF FindAllocation
  <2>3. \A a \in S \cap Kept : FieldRefs(a) \cap DOMAIN heap \subseteq S \cap Kept
    BY <1>2, <1>4, <1>5, KeptClosed
  <2> QED BY <2>1, <2>2, <2>3, ReachableLeast
<1> QED BY <1>2, <1>3, <1>6 DEF ExactMarks

LEMMA StartExact ==
  ASSUME HeapInv, phase = "run", StartCollection, UNCHANGED <<heap, frames>>
  PROVE  ExactMarks'
<1>1. /\ phase' = "mark" /\ marked' = FindAllocation(Roots)
  BY DEF StartCollection, HeapInv, MarkDiscipline
<1>2. FindAllocation(Roots)' = FindAllocation(Roots) /\ Reachable' = Reachable
  BY DEF Reachable, FindAllocation, FieldRefs, Roots
<1> QED BY <1>1, <1>2, ReachableClosed DEF ExactMarks

\* A call that may collect: it changes the collector's state only, from
\* between two collections to the start of one.
CallStep ==
  /\ Running /\ phase = "run" /\ pending = None
  /\ UNCHANGED <<heap, frames, nativeVars>>
  /\ StartCollection \/ UNCHANGED gcVars
  /\ pending' # None =>
       /\ native # "none" => pending'.then \in {"error", "argument"}
       /\ pending'.then = "argument" => pending'.shape.kind = "string"

\* The delivery of an allocation at a.
DeliveryStep(a) ==
  /\ AtReserve /\ CanReserve(a) /\ UNCHANGED gcVars
  /\ pending' = None
  /\ \/ \E s \in Slot : DeliverToSlot(a, s)
     \/ DeliverToPrint(a)
     \/ \E s \in Slot : DeliverBox(a, s)
     \/ PushMessageFrame(a)
     \/ \E s \in Slot : ReturnError(a, s)
     \/ PushArgumentsFrame(a)
     \/ StoreArgument(a)

\* A step of generated code, of a returning helper or of the end of the
\* process between two collections.
ProgramStep ==
  /\ Running /\ phase = "run" /\ UNCHANGED gcVars
  /\ UNCHANGED pending
  /\ \/ \E s, t \in Slot : LoadReference(s, t)
     \/ \E s, t \in Slot : StoreReference(s, t)
     \/ \E s \in Slot : ClearRoot(s)
     \/ \E s \in Slot : PushFrame(s)
     \/ \E r, s \in Slot : PopFrame(r, s)
     \/ Exit
     \/ ReserveFails
     \/ ReturnArguments

LEMMA RequestStep ==
  ASSUME Running, phase = "run", pending = None,
         NEW shape, NEW then, NEW operands,
         \/ native = "none" /\ then # "argument"
         \/ then = "error"
         \/ then = "argument" /\ shape.kind = "string",
         CollectBeforeAllocation(Request(shape, then, operands))
  PROVE  CallStep
<1> DEFINE request == Request(shape, then, operands)
<1>1. request.then = then /\ request.shape = shape
  BY DEF Request
<1>2. CollectBeforeAllocation(request)
  OBVIOUS
<1> HIDE DEF request
<1> QED BY <1>1, <1>2 DEF CollectBeforeAllocation, CallStep

\* The steps of the system, sorted by what they may do to the heap.
LEMMA StepKinds ==
  ASSUME Next
  PROVE  \/ CallStep
         \/ \E a \in Address : DeliveryStep(a)
         \/ ProgramStep
         \/ MarkStep
         \/ StartSweep
         \/ SweepStep
         \/ FinishCollection
         \/ UNCHANGED vars
<1>1. CASE Mutator
  <2>1. CASE \/ \E shape \in AllocationShapes : Allocate(shape)
             \/ \E n \in 0..MaxLength, sources \in (SUBSET Slot) \ {{}} :
                  AllocateFrom(StringShape(n, TRUE), sources)
             \/ \E shape \in ObjectShapes, s \in Slot : BoxValue(shape, s)
             \/ \E s \in Slot, bytes \in 1..MaxLength : PrintObject(s, bytes)
             \/ DivisionByZero
             \/ \E count \in 0..MaxLength : ProgramArguments(count)
    <3>1. Running /\ phase = "run" /\ pending = None /\ native = "none"
      BY <2>1 DEF Allocate, AllocateFrom, BoxValue, PrintObject, DivisionByZero,
                  ProgramArguments, Idle
    <3>2. CASE \E shape \in AllocationShapes : Allocate(shape)
      BY <3>1, <3>2, RequestStep DEF Allocate
    <3>3. CASE \E n \in 0..MaxLength, sources \in (SUBSET Slot) \ {{}} :
                 AllocateFrom(StringShape(n, TRUE), sources)
      BY <3>1, <3>3, RequestStep DEF AllocateFrom
    <3>4. CASE \E shape \in ObjectShapes, s \in Slot : BoxValue(shape, s)
      BY <3>1, <3>4, RequestStep DEF BoxValue
    <3>5. CASE \E s \in Slot, bytes \in 1..MaxLength : PrintObject(s, bytes)
      BY <3>1, <3>5, RequestStep DEF PrintObject
    <3>6. CASE DivisionByZero
      BY <3>1, <3>6, RequestStep DEF DivisionByZero
    <3>7. CASE \E count \in 0..MaxLength : ProgramArguments(count)
      BY <3>1, <3>7, RequestStep DEF ProgramArguments
    <3> QED BY <2>1, <3>2, <3>3, <3>4, <3>5, <3>6, <3>7
  <2>2. CASE GcCollect
    BY <2>2 DEF GcCollect, Idle, CallStep
  <2>3. CASE \/ \E s, t \in Slot : LoadReference(s, t)
             \/ \E s, t \in Slot : StoreReference(s, t)
             \/ \E s \in Slot : ClearRoot(s)
             \/ \E s \in Slot : PushFrame(s)
             \/ \E r, s \in Slot : PopFrame(r, s)
             \/ Exit
    <3>1. Running /\ phase = "run" /\ UNCHANGED gcVars /\ UNCHANGED pending
      BY <2>3 DEF LoadReference, StoreReference, ClearRoot, PushFrame, PopFrame,
                  Exit, Idle
    <3> QED BY <2>3, <3>1 DEF ProgramStep
  <2> QED BY <1>1, <2>1, <2>2, <2>3 DEF Mutator
<1>2. CASE Runtime
  <2>1. CASE AllocateError \/ \E bytes \in 0..MaxLength : AllocateArgument(bytes)
    <3>1. \A bytes : StringShape(bytes, TRUE).kind = "string"
      BY DEF StringShape
    <3>2. CASE AllocateError
      BY <3>2, RequestStep DEF AllocateError
    <3>3. CASE \E bytes \in 0..MaxLength : AllocateArgument(bytes)
      BY <3>1, <3>3, RequestStep DEF AllocateArgument
    <3> QED BY <2>1, <3>2, <3>3
  <2>2. CASE ReserveFails \/ ReturnArguments
    BY <2>2 DEF ReserveFails, AtReserve, RuntimeFailure, ReturnArguments, ProgramStep
  <2>3. ASSUME NEW a \in Address,
               \/ \E s \in Slot : DeliverToSlot(a, s)
               \/ DeliverToPrint(a)
               \/ \E s \in Slot : DeliverBox(a, s)
               \/ PushMessageFrame(a)
               \/ \E s \in Slot : ReturnError(a, s)
               \/ PushArgumentsFrame(a)
               \/ StoreArgument(a)
        PROVE  DeliveryStep(a)
    <3>1. CanReserve(a) /\ UNCHANGED gcVars /\ pending' = None
      BY <2>3 DEF DeliverToSlot, DeliverToPrint, DeliverBox, PushMessageFrame,
                  ReturnError, PushArgumentsFrame, StoreArgument, RegisterAllocation
    <3> QED BY <2>3, <3>1 DEF DeliveryStep, CanReserve
  <2> QED BY <1>2, <2>1, <2>2, <2>3 DEF Runtime
<1> QED BY <1>1, <1>2 DEF Next, Terminated

LEMMA StepExact == HeapInv /\ ExactMarks /\ [Next]_vars => ExactMarks'
<1> SUFFICES ASSUME HeapInv, ExactMarks, [Next]_vars PROVE ExactMarks'
  OBVIOUS
<1>1. CASE CallStep
  <2>1. CASE StartCollection
    BY <1>1, <2>1, StartExact DEF CallStep
  <2>2. CASE UNCHANGED gcVars
    BY <1>1, <2>2 DEF CallStep, ExactMarks, gcVars
  <2> QED BY <1>1, <2>1, <2>2 DEF CallStep
<1>2. CASE \E a \in Address : DeliveryStep(a)
  BY <1>2 DEF DeliveryStep, AtReserve, ExactMarks, gcVars
<1>3. CASE ProgramStep
  BY <1>3 DEF ProgramStep, ExactMarks, gcVars
<1>4. CASE FinishCollection
  BY <1>4 DEF FinishCollection, ExactMarks
<1>5. CASE UNCHANGED vars
  <2>1. UNCHANGED <<heap, frames, phase, marked, unswept>>
    BY <1>5 DEF vars, gcVars
  <2>2. Reachable' = Reachable /\ Kept' = Kept
    BY <2>1 DEF Reachable, FindAllocation, FieldRefs, Roots, Kept
  <2> QED BY <2>1, <2>2 DEF ExactMarks
<1> QED
  BY <1>1, <1>2, <1>3, <1>4, <1>5, StepKinds, MarkExact, StartSweepExact, SweepExact

\* When sweep_unreachable_objects ends, the registry is exactly what a chain
\* of references from the root frames leads to: no garbage survives a
\* collection, cycles included, and no mark does.
THEOREM CollectionPrecise == Spec => []PreciseCollection
<1>1. Init => ExactMarks
  BY DEF Init, ExactMarks
<1>2. HeapInv /\ ExactMarks => PreciseCollection
  <2> SUFFICES ASSUME HeapInv, ExactMarks, phase = "sweep", unswept = {}
               PROVE  DOMAIN heap = Reachable /\ marked = {}
    BY DEF PreciseCollection
  <2>1. marked = {} /\ Kept = DOMAIN heap
    BY DEF HeapInv, MarkDiscipline, Kept
  <2> QED BY <2>1, KeptClosed DEF ExactMarks
<1> QED BY <1>1, <1>2, StepExact, HeapInvariant, PTL DEF Spec

-----------------------------------------------------------------------------
(* The contract: every step is a program step on reachable or new objects,  *)
(* the freeing of an unreachable object, or invisible.                     *)

\* The roots are reachable, and so is what a reachable object refers to.
LEMMA ContractClosed ==
  ASSUME HeapInv
  PROVE  /\ Roots \subseteq Contract!ReachableObjects
         /\ \A a \in DOMAIN heap \cap Contract!ReachableObjects :
              \A i \in DOMAIN heap[a].fields :
                heap[a].fields[i] \in Contract!ReachableObjects \cup {Null}
<1>1. Roots \subseteq Address
  BY RootsRegistered DEF HeapInv, TypeOK
<1>2. Roots \subseteq Contract!ReachableObjects
  BY <1>1 DEF Contract!ReachableObjects, Contract!Closed
<1>3. ASSUME NEW a \in DOMAIN heap \cap Contract!ReachableObjects,
             NEW i \in DOMAIN heap[a].fields, heap[a].fields[i] # Null
      PROVE  heap[a].fields[i] \in Contract!ReachableObjects
  <2>1. heap[a].fields[i] \in Address
    BY <1>3 DEF HeapInv, TypeOK, Object, Ref
  <2>2. ASSUME NEW S \in SUBSET Address, Contract!Closed(S)
        PROVE  heap[a].fields[i] \in S
    <3>1. a \in S
      BY <2>2 DEF Contract!ReachableObjects
    <3>2. heap[a].fields[i] \in Contract!Refs(a)
      BY <1>3 DEF Contract!Refs
    <3> QED BY <2>2, <3>1, <3>2 DEF Contract!Closed
  <2> QED BY <2>1, <2>2 DEF Contract!ReachableObjects
<1> QED BY <1>2, <1>3

\* What the program could have written: null, a reachable object, or a new one.
Usable(fresh) == Contract!ReachableObjects \cup fresh

LEMMA ContractProgram ==
  ASSUME HeapInv,
         NEW fresh \in SUBSET (Address \ DOMAIN heap),
         \A a, b \in fresh : a = b,
         DOMAIN heap' = DOMAIN heap \cup fresh,
         Roots' \subseteq Usable(fresh),
         \A a \in DOMAIN heap : a \notin Contract!ReachableObjects =>
           heap'[a].fields = heap[a].fields,
         \A a \in DOMAIN heap' : a \in Usable(fresh) =>
           \A i \in DOMAIN heap'[a].fields :
             heap'[a].fields[i] \in Usable(fresh) \cup {Null}
  PROVE  Contract!Program
<1> SUFFICES
      \E new \in SUBSET (Address \ DOMAIN heap) :
        LET usable == Contract!ReachableObjects \cup new
            graph == [a \in DOMAIN heap' |-> heap'[a].fields]
        IN  /\ \A a, b \in new : a = b
            /\ DOMAIN graph = DOMAIN heap \cup new
            /\ Roots' \subseteq usable
            /\ \A a \in DOMAIN heap \ Contract!ReachableObjects :
                 graph[a] = heap[a].fields
            /\ \A a \in DOMAIN graph \cap usable : \A i \in DOMAIN graph[a] :
                 graph[a][i] \in usable \cup {Null}
  BY DEF Contract!Program
<1> WITNESS fresh \in SUBSET (Address \ DOMAIN heap)
<1> QED BY DEF Usable

\* Frames whose slots hold what the program may use have usable roots.
LEMMA UsableRoots ==
  ASSUME NEW usable,
         \A d \in DOMAIN frames', s \in Slot : frames'[d][s] \in usable \cup {Null}
  PROVE  Roots' \subseteq usable
BY DEF Roots

LEMMA SlotsUsable ==
  ASSUME HeapInv
  PROVE  \A d \in DOMAIN frames, s \in Slot :
           frames[d][s] \in Contract!ReachableObjects \cup {Null}
BY ContractClosed DEF Roots

\* A frame operation with a usable reference leaves usable slots.
LEMMA UsableFrames ==
  ASSUME HeapInv, Running, NEW usable, Contract!ReachableObjects \subseteq usable,
         NEW ref \in usable \cup {Null}, NEW s \in Slot,
         \/ frames' = WithRoot(s, ref)
         \/ frames' = Pushed(ref)
         \/ frames' = Popped(s, ref) /\ Len(frames) >= 2
         \/ frames' = frames
         \/ frames' = << >>
  PROVE  Roots' \subseteq usable
<1>1. /\ frames \in Seq([Slot -> Ref]) /\ Len(frames) \in DOMAIN frames
      /\ \A d \in DOMAIN frames, t \in Slot : frames[d][t] \in usable \cup {Null}
      /\ Len(frames) \in Nat
  BY SlotsUsable, TopFrame DEF HeapInv, TypeOK
<1>2. CASE frames' = WithRoot(s, ref)
  <2>1. \A t \in Slot : [Top EXCEPT ![s] = ref][t] \in usable \cup {Null}
    BY <1>1, TopFrame DEF Top
  <2>2. \A d \in DOMAIN frames', t \in Slot : frames'[d][t] \in usable \cup {Null}
    BY <1>1, <1>2, <2>1 DEF WithRoot
  <2> QED BY <2>2, UsableRoots
<1>3. CASE frames' = Pushed(ref)
  <2> DEFINE frame == [EmptyFrame EXCEPT ![1] = ref]
  <2>1. \A t \in Slot : frame[t] \in usable \cup {Null}
    BY DEF EmptyFrame
  <2>2. frames' = Append(frames, frame)
    BY <1>3 DEF Pushed
  <2> HIDE DEF frame
  <2>3. \A d \in DOMAIN frames', t \in Slot : frames'[d][t] \in usable \cup {Null}
    BY <1>1, <2>1, <2>2
  <2> QED BY <2>3, UsableRoots
<1>4. CASE frames' = Popped(s, ref) /\ Len(frames) >= 2
  <2>1. \A d \in 1..Len(frames) : frames[d] \in [Slot -> Ref]
    BY <1>1
  <2>2. \A d \in 1..Len(frames), t \in Slot :
          [frames[d] EXCEPT ![s] = ref][t] \in usable \cup {Null}
    BY <1>1, <2>1
  <2>3. \A d \in DOMAIN frames', t \in Slot : frames'[d][t] \in usable \cup {Null}
    BY <1>1, <1>4, <2>2 DEF Popped
  <2> QED BY <2>3, UsableRoots
<1>5. CASE frames' = frames
  BY <1>1, <1>5, UsableRoots
<1>6. CASE frames' = << >>
  BY <1>6, UsableRoots
<1> QED BY <1>2, <1>3, <1>4, <1>5, <1>6

LEMMA FramesContract ==
  ASSUME HeapInv, UNCHANGED heap, Roots' \subseteq Contract!ReachableObjects
  PROVE  Contract!Program
<1>1. /\ {} \in SUBSET (Address \ DOMAIN heap)
      /\ \A a, b \in {} : a = b
      /\ DOMAIN heap' = DOMAIN heap \cup {}
      /\ Roots' \subseteq Usable({})
      /\ \A a \in DOMAIN heap : a \notin Contract!ReachableObjects =>
           heap'[a].fields = heap[a].fields
  BY DEF Usable
<1>2. \A a \in DOMAIN heap' : a \in Usable({}) =>
        \A i \in DOMAIN heap'[a].fields :
          heap'[a].fields[i] \in Usable({}) \cup {Null}
  BY ContractClosed DEF Usable
<1> QED BY <1>1, <1>2, ContractProgram

\* Storing a reference in a reachable object.
LEMMA StoreContract ==
  ASSUME HeapInv, NEW s \in Slot, NEW t \in Slot, StoreReference(s, t)
  PROVE  Contract!Program
<1>1. /\ Running /\ UNCHANGED frames /\ Top[s] \in DOMAIN heap
  BY DEF StoreReference, Idle
<1>2. PICK k \in DOMAIN heap[Top[s]].fields :
        heap' = [heap EXCEPT ![Top[s]].fields[k] = Top[t]]
  BY DEF StoreReference
<1>3. /\ Top[s] \in Contract!ReachableObjects
      /\ Top[t] \in Contract!ReachableObjects \cup {Null}
  BY <1>1, HeapConstants, TopFrame, SlotsUsable DEF Top, HeapInv, TypeOK
<1>4. heap[Top[s]] \in Object
  BY <1>1 DEF HeapInv, TypeOK
<1>5. /\ DOMAIN heap' = DOMAIN heap
      /\ \A a \in DOMAIN heap : a # Top[s] => heap'[a] = heap[a]
      /\ heap'[Top[s]] = [heap[Top[s]] EXCEPT !.fields = [@ EXCEPT ![k] = Top[t]]]
  BY <1>1, <1>2
<1>6. heap'[Top[s]].fields = [heap[Top[s]].fields EXCEPT ![k] = Top[t]]
  BY <1>4, <1>5 DEF Object
<1>7. \A i \in DOMAIN heap'[Top[s]].fields :
        heap'[Top[s]].fields[i] \in Contract!ReachableObjects \cup {Null}
  BY <1>1, <1>3, <1>6, ContractClosed
<1>8. \A a \in DOMAIN heap' : a \in Contract!ReachableObjects =>
        \A i \in DOMAIN heap'[a].fields :
          heap'[a].fields[i] \in Contract!ReachableObjects \cup {Null}
  BY <1>5, <1>7, ContractClosed
<1>9. Roots' \subseteq Contract!ReachableObjects
  BY <1>1, ContractClosed DEF Roots
<1>10. \A a \in DOMAIN heap : a \notin Contract!ReachableObjects =>
         heap'[a].fields = heap[a].fields
  BY <1>3, <1>5
<1>11. Usable({}) = Contract!ReachableObjects /\ {} \in SUBSET (Address \ DOMAIN heap)
       /\ DOMAIN heap' = DOMAIN heap \cup {} /\ \A a, b \in {} : a = b
  BY <1>5 DEF Usable
<1> QED BY <1>8, <1>9, <1>10, <1>11, ContractProgram

LEMMA ProgramContract ==
  ASSUME HeapInv, ProgramStep
  PROVE  Contract!Program
<1>1. Running
  BY DEF ProgramStep
<1>2. /\ 1 \in Slot
      /\ \A s \in Slot : Top[s] \in Contract!ReachableObjects \cup {Null}
  BY <1>1, TopFrame, SlotsUsable, HeapConstants DEF Top, Slot
<1>3. CASE \E s, t \in Slot : LoadReference(s, t)
  <2>1. PICK s \in Slot, t \in Slot : LoadReference(s, t)
    BY <1>3
  <2>2. Top[s] \in DOMAIN heap /\ Top[s] # Null
    BY <2>1, HeapConstants DEF LoadReference, HeapInv, TypeOK
  <2>3. PICK i \in DOMAIN heap[Top[s]].fields :
          frames' = WithRoot(t, heap[Top[s]].fields[i])
    BY <2>1 DEF LoadReference
  <2>4. heap[Top[s]].fields[i] \in Contract!ReachableObjects \cup {Null}
    BY <1>2, <2>2, ContractClosed
  <2>5. Roots' \subseteq Contract!ReachableObjects
    BY <1>1, <2>3, <2>4, UsableFrames
  <2> QED BY <2>1, <2>5, FramesContract DEF LoadReference
<1>4. CASE \E s \in Slot : ClearRoot(s)
  BY <1>1, <1>4, UsableFrames, FramesContract DEF ClearRoot
<1>5. CASE \E s \in Slot : PushFrame(s)
  BY <1>1, <1>2, <1>5, UsableFrames, FramesContract DEF PushFrame, Pushed
<1>6. CASE \E r, s \in Slot : PopFrame(r, s)
  <2>1. PICK r \in Slot, s \in Slot : PopFrame(r, s)
    BY <1>6
  <2>2. Len(frames) >= 2
    BY <2>1 DEF PopFrame, HeapInv, TypeOK
  <2> QED BY <1>1, <1>2, <2>1, <2>2, UsableFrames, FramesContract DEF PopFrame
<1>7. CASE Exit
  BY <1>1, <1>2, <1>7, UsableFrames, FramesContract DEF Exit
<1>8. CASE ReserveFails
  BY <1>1, <1>2, <1>8, UsableFrames, FramesContract DEF ReserveFails, RuntimeFailure
<1>9. CASE ReturnArguments
  <2>1. Len(frames) >= 2
    BY <1>9 DEF ReturnArguments, HeapInv, CallDiscipline
  <2> QED BY <1>1, <1>2, <1>9, <2>1, UsableFrames, FramesContract DEF ReturnArguments
<1> QED
  BY <1>3, <1>4, <1>5, <1>6, <1>7, <1>8, <1>9, StoreContract DEF ProgramStep

\* A new object with usable fields, rooted or stored where the program can
\* reach it.
LEMMA RegisteredContract ==
  ASSUME HeapInv, NEW a, CanReserve(a),
         NEW object, NEW ref \in Contract!ReachableObjects \cup {Null},
         \A i \in DOMAIN object.fields : object.fields[i] = ref,
         heap' = WithObject(a, object),
         NEW s \in Slot,
         \/ frames' = WithRoot(s, a)
         \/ frames' = Pushed(a)
         \/ frames' = Popped(s, a) /\ Len(frames) >= 2
         \/ frames' = frames
  PROVE  Contract!Program
<1>1. /\ a \in Address /\ a \notin DOMAIN heap /\ Running
  BY DEF CanReserve, AtReserve
<1>2. /\ {a} \in SUBSET (Address \ DOMAIN heap)
      /\ \A b, c \in {a} : b = c
      /\ DOMAIN heap' = DOMAIN heap \cup {a}
      /\ heap'[a] = object
      /\ \A b \in DOMAIN heap : heap'[b] = heap[b]
  BY <1>1 DEF WithObject
<1>3. Roots' \subseteq Usable({a})
  BY <1>1, UsableFrames DEF Usable
<1>4. \A b \in DOMAIN heap' : b \in Usable({a}) =>
        \A i \in DOMAIN heap'[b].fields :
          heap'[b].fields[i] \in Usable({a}) \cup {Null}
  BY <1>2, ContractClosed DEF Usable
<1> QED BY <1>2, <1>3, <1>4, ContractProgram

LEMMA OperandsUsable ==
  ASSUME HeapInv, AtReserve
  PROVE  /\ pending.operands \subseteq Contract!ReachableObjects \cup {Null}
         /\ pending.operands \subseteq Ref
BY ContractClosed DEF HeapInv, CallDiscipline, AtReserve, TypeOK, RequestType

LEMMA DeliveryContract ==
  ASSUME HeapInv, NEW a \in Address, DeliveryStep(a), ~StoreArgument(a)
  PROVE  Contract!Program
<1> DEFINE object == NewObject(pending.shape)
           copy(ref) == [object EXCEPT !.fields =
                           [i \in 1..pending.shape.refs |-> ref]]
<1>1. CanReserve(a) /\ AtReserve
  BY DEF DeliveryStep
<1>2. 1 \in Slot
  BY HeapConstants DEF Slot
<1>3. CASE \/ \E s \in Slot : DeliverToSlot(a, s)
           \/ DeliverToPrint(a)
           \/ PushMessageFrame(a)
           \/ PushArgumentsFrame(a)
  <2>1. /\ heap' = WithObject(a, object)
        /\ \/ \E s \in Slot : frames' = WithRoot(s, a)
           \/ frames' = Pushed(a)
           \/ frames' = frames
    BY <1>3 DEF DeliverToSlot, DeliverToPrint, PushMessageFrame,
                PushArgumentsFrame, RegisterAllocation, Pushed
  <2>2. \A i \in DOMAIN object.fields : object.fields[i] = Null
    BY <1>1, NewObjectType DEF Ref
  <2> HIDE DEF object
  <2> QED BY <1>1, <1>2, <2>1, <2>2, RegisteredContract
<1>4. CASE \E s \in Slot : DeliverBox(a, s)
  <2>1. PICK s \in Slot, ref \in pending.operands :
          heap' = WithObject(a, copy(ref)) /\ frames' = WithRoot(s, a)
    BY <1>4 DEF DeliverBox, RegisterAllocation
  <2>2. ref \in Contract!ReachableObjects \cup {Null} /\ ref \in Ref
    BY <1>1, <2>1, OperandsUsable
  <2>3. \A i \in DOMAIN copy(ref).fields : copy(ref).fields[i] = ref
    BY <1>1, <2>2, NewObjectType
  <2> HIDE DEF copy
  <2> QED BY <1>1, <2>1, <2>2, <2>3, RegisteredContract
<1>5. CASE \E s \in Slot : ReturnError(a, s)
  <2>1. PICK s \in Slot, ref \in pending.operands :
          heap' = WithObject(a, copy(ref)) /\ frames' = Popped(s, a)
    BY <1>5 DEF ReturnError, RegisterAllocation
  <2>2. ref \in Contract!ReachableObjects \cup {Null} /\ ref \in Ref
    BY <1>1, <2>1, OperandsUsable
  <2>3. \A i \in DOMAIN copy(ref).fields : copy(ref).fields[i] = ref
    BY <1>1, <2>2, NewObjectType
  <2>4. Len(frames) >= 2
    BY <1>1, <1>5 DEF ReturnError, AtReserve, HeapInv, CallDiscipline
  <2> HIDE DEF copy
  <2> QED BY <1>1, <2>1, <2>2, <2>3, <2>4, RegisteredContract
<1> QED BY <1>3, <1>4, <1>5 DEF DeliveryStep

\* The new argument becomes an element of the array the native frame roots.
LEMMA ArgumentContract ==
  ASSUME HeapInv, NEW a \in Address, StoreArgument(a)
  PROVE  Contract!Program
<1> DEFINE object == NewObject(pending.shape)
           array == Top[1]
           filled == [heap[array] EXCEPT !.fields[ArgumentIndex] = a]
<1>1. /\ CanReserve(a) /\ AtReserve /\ Running /\ frames' = frames
      /\ heap' = [WithObject(a, object) EXCEPT ![array] = filled]
      /\ a \notin DOMAIN heap
  BY DEF StoreArgument, RegisterAllocation, CanReserve, AtReserve
<1>2. array \in Contract!ReachableObjects \cup {Null} /\ array \in DOMAIN heap \cup {Null}
  BY <1>1, TopFrame, SlotsUsable, HeapConstants DEF Top, Slot
<1>3. \A i \in DOMAIN object.fields : object.fields[i] = Null
  BY <1>1, NewObjectType DEF Ref
<1>4. array \in DOMAIN heap =>
        filled.fields = [heap[array].fields EXCEPT ![ArgumentIndex] = a]
  BY DEF HeapInv, TypeOK, Object
<1>5. Null # a /\ Null \notin DOMAIN heap
  BY HeapConstants DEF HeapInv, TypeOK
<1> HIDE DEF object, array, filled
<1>6. /\ DOMAIN heap' = DOMAIN heap \cup {a}
      /\ heap'[a] = object
      /\ \A b \in DOMAIN heap : b # array => heap'[b] = heap[b]
      /\ array \in DOMAIN heap => heap'[array] = filled
  BY <1>1, <1>2, <1>5 DEF WithObject
<1>7. array \in DOMAIN heap => \A i \in DOMAIN filled.fields :
        filled.fields[i] \in Usable({a}) \cup {Null}
  BY <1>2, <1>4, <1>5, ContractClosed DEF Usable
<1>8. \A b \in DOMAIN heap' : b \in Usable({a}) =>
        \A i \in DOMAIN heap'[b].fields :
          heap'[b].fields[i] \in Usable({a}) \cup {Null}
  <2>1. \A b \in DOMAIN heap : b # array /\ b \in Usable({a}) =>
          \A i \in DOMAIN heap[b].fields :
            heap[b].fields[i] \in Usable({a}) \cup {Null}
    BY <1>1, ContractClosed DEF Usable
  <2> QED BY <1>3, <1>6, <1>7, <2>1
<1>9. \A b \in DOMAIN heap : b \notin Contract!ReachableObjects =>
        heap'[b].fields = heap[b].fields
  BY <1>2, <1>5, <1>6
<1>10. Roots' \subseteq Usable({a})
  BY <1>1, ContractClosed DEF Roots, Usable
<1>11. {a} \in SUBSET (Address \ DOMAIN heap) /\ \A b, c \in {a} : b = c
  BY <1>1
<1> QED BY <1>6, <1>8, <1>9, <1>10, <1>11, ContractProgram

\* What the sweep frees is outside the kept objects, which hold the roots and
\* follow references.
LEMMA SweepContract ==
  ASSUME HeapInv, SweepStep
  PROVE  \/ \E a \in Address : Contract!Free(a)
         \/ UNCHANGED <<heap, frames>>
<1>1. PICK x \in unswept : Survive(x) \/ Reclaim(x)
  BY DEF SweepStep
<1>2. phase = "sweep" /\ UNCHANGED frames
  BY DEF SweepStep
<1>3. CASE Survive(x)
  BY <1>2, <1>3 DEF Survive
<1>4. CASE Reclaim(x)
  <2>1. /\ x \in DOMAIN heap /\ x \notin Kept /\ x \in Address
        /\ heap' = [b \in DOMAIN heap \ {x} |-> heap[b]]
    BY <1>2, <1>4 DEF Reclaim, HeapInv, TypeOK, MarkDiscipline, Kept
  <2>2. Kept \in SUBSET Address
    BY <1>2, KeptClosed DEF HeapInv, TypeOK
  <2>3. Contract!Closed(Kept)
    <3>1. Roots \subseteq Kept
      BY <1>2 DEF HeapInv, MarkDiscipline
    <3>2. \A a \in Kept \cap DOMAIN heap : Contract!Refs(a) \subseteq Kept
      BY <1>2 DEF HeapInv, MarkDiscipline, Contract!Refs
    <3> QED BY <3>1, <3>2 DEF Contract!Closed
  <2>4. x \notin Contract!ReachableObjects
    BY <2>1, <2>2, <2>3 DEF Contract!ReachableObjects
  <2>5. [b \in DOMAIN heap' |-> heap'[b].fields] =
          [b \in DOMAIN heap \ {x} |-> [c \in DOMAIN heap |-> heap[c].fields][b]]
    BY <2>1
  <2>6. Roots' = Roots
    BY <1>2 DEF Roots
  <2>7. Contract!Free(x)
    BY <2>1, <2>4, <2>5, <2>6 DEF Contract!Free
  <2> QED BY <2>1, <2>7
<1> QED BY <1>1, <1>3, <1>4

LEMMA InvisibleStep ==
  ASSUME UNCHANGED <<heap, frames>>
  PROVE  UNCHANGED Contract!contractVars
BY DEF Contract!contractVars, Roots

LEMMA InitContract == Init => Contract!ContractInit
<1> SUFFICES ASSUME Init PROVE Contract!ContractInit
  OBVIOUS
<1>1. Roots = {}
  BY DEF Init, Roots, EmptyFrame
<1>2. [a \in DOMAIN heap |-> heap[a].fields] = [a \in {} |-> << >>]
  BY DEF Init
<1> QED BY <1>1, <1>2 DEF Contract!ContractInit

LEMMA StepContract ==
  HeapInv /\ [Next]_vars => [Contract!ContractNext]_(Contract!contractVars)
<1> SUFFICES ASSUME HeapInv, [Next]_vars
             PROVE  Contract!ContractNext \/ UNCHANGED Contract!contractVars
  OBVIOUS
<1>1. CASE CallStep \/ MarkStep \/ StartSweep \/ FinishCollection \/ UNCHANGED vars
  <2>1. UNCHANGED <<heap, frames>>
    BY <1>1 DEF CallStep, MarkStep, StartSweep, FinishCollection, vars
  <2> QED BY <2>1, InvisibleStep
<1>2. CASE \E a \in Address : DeliveryStep(a)
  BY <1>2, DeliveryContract, ArgumentContract DEF Contract!ContractNext
<1>3. CASE ProgramStep
  BY <1>3, ProgramContract DEF Contract!ContractNext
<1>4. CASE SweepStep
  BY <1>4, SweepContract, InvisibleStep DEF Contract!ContractNext
<1> QED BY <1>1, <1>2, <1>3, <1>4, StepKinds

\* The managed heap implements the contract of GcContract: whatever the
\* program does, an object is freed only when no chain of references from a
\* root leads to it, and the collector does nothing else the program can see.
THEOREM HeapKeepsContract == Spec => ImplementsContract
<1>1. Init => Contract!ContractInit
  BY InitContract
<1>2. HeapInv /\ [Next]_vars => [Contract!ContractNext]_(Contract!contractVars)
  BY StepContract
<1> QED
  BY <1>1, <1>2, HeapInvariant, PTL
  DEF Spec, ImplementsContract, Contract!ContractSpec

-----------------------------------------------------------------------------
(* The argument array.                                                     *)

\* ArgumentsBuilt with what makes it inductive: the array has room for the
\* arguments left, they are strings, and a native helper is interrupted by
\* its own requests only.
ArgumentsInv ==
  /\ ArgumentsBuilt
  /\ native = "args" => argsLeft <= Len(heap[Top[1]].fields)
  /\ pending # None =>
       /\ native # "none" => pending.then \in {"error", "argument"}
       /\ pending.then = "argument" => pending.shape.kind = "string"

\* The array is a registered object rooted by the native frame.
LEMMA ArrayRooted ==
  ASSUME HeapInv, native = "args"
  PROVE  /\ Top[1] \in DOMAIN heap \cup {Null}
         /\ Top[1] \in Roots \cup {Null}
         /\ 1 \in Slot
<1>1. 1 \in Slot
  BY HeapConstants DEF Slot
<1>2. Len(frames) \in DOMAIN frames
  BY DEF HeapInv, TypeOK, CallDiscipline
<1> QED BY <1>1, <1>2 DEF HeapInv, NoDangling, Top, Roots

\* A step that leaves the array, its elements and the frames alone.
LEMMA ArgumentsKept ==
  ASSUME HeapInv, ArgumentsInv, UNCHANGED <<frames, native, argsLeft>>,
         native = "args" =>
           /\ Top[1] \in DOMAIN heap' /\ heap'[Top[1]].fields = heap[Top[1]].fields
           /\ \A i \in DOMAIN heap[Top[1]].fields :
                heap[Top[1]].fields[i] # Null =>
                  /\ heap[Top[1]].fields[i] \in DOMAIN heap'
                  /\ heap'[heap[Top[1]].fields[i]].kind =
                       heap[heap[Top[1]].fields[i]].kind,
         pending' \in {pending, None} \/ CallStep
  PROVE  ArgumentsInv'
<1>1. /\ pending' # None =>
           /\ native # "none" => pending'.then \in {"error", "argument"}
           /\ pending'.then = "argument" => pending'.shape.kind = "string"
  BY DEF ArgumentsInv, CallStep
<1>2. Top' = Top
  BY DEF Top
<1>3. CASE native # "args"
  BY <1>1, <1>3 DEF ArgumentsInv, ArgumentsBuilt
<1>4. CASE native = "args"
  <2> DEFINE elements == heap[Top[1]].fields
             done == Len(elements) - argsLeft
  <2>1. /\ elements \in Seq(Ref) /\ argsLeft \in Nat /\ argsLeft <= Len(elements)
        /\ Top[1] \in DOMAIN heap
    BY <1>4 DEF ArgumentsInv, ArgumentsBuilt, HeapInv, TypeOK, Object
  <2>2. 1..done \subseteq DOMAIN elements
    BY <2>1
  <2>3. \A i \in 1..done : /\ elements[i] \in DOMAIN heap
                            /\ heap[elements[i]].kind = "string"
    BY <1>4 DEF ArgumentsInv, ArgumentsBuilt
  <2>4. Null \notin DOMAIN heap
    BY HeapConstants DEF HeapInv, TypeOK
  <2>5. \A i \in 1..done : /\ elements[i] \in DOMAIN heap'
                            /\ heap'[elements[i]].kind = "string"
    BY <1>4, <2>2, <2>3, <2>4
  <2>6. ArgumentsBuilt'
    BY <1>2, <1>4, <2>5 DEF ArgumentsInv, ArgumentsBuilt
  <2> QED BY <1>1, <1>2, <1>4, <2>1, <2>6 DEF ArgumentsInv
<1> QED BY <1>3, <1>4

\* The sweep frees neither the array nor its elements.
LEMMA SweepArguments ==
  ASSUME HeapInv, ArgumentsInv, SweepStep
  PROVE  ArgumentsInv'
<1>1. PICK x \in unswept : Survive(x) \/ Reclaim(x)
  BY DEF SweepStep
<1>2. /\ phase = "sweep" /\ UNCHANGED <<frames, native, argsLeft, pending>>
      /\ Kept \subseteq DOMAIN heap' /\ \A a \in DOMAIN heap' : heap'[a] = heap[a]
  BY <1>1 DEF SweepStep, Survive, Reclaim, HeapInv, MarkDiscipline, Kept, nativeVars
<1>3. native = "args" => Top[1] \in Kept
  BY <1>2, ArrayRooted, HeapConstants
  DEF ArgumentsInv, ArgumentsBuilt, HeapInv, TypeOK, MarkDiscipline
<1>4. native = "args" =>
        \A i \in DOMAIN heap[Top[1]].fields :
          heap[Top[1]].fields[i] # Null => heap[Top[1]].fields[i] \in Kept
  BY <1>2, <1>3 DEF HeapInv, MarkDiscipline
<1> QED BY <1>2, <1>3, <1>4, ArgumentsKept

LEMMA PushedArray ==
  ASSUME HeapInv, ArgumentsInv, NEW a \in Address, PushArgumentsFrame(a)
  PROVE  ArgumentsInv'
<1> DEFINE object == NewObject(pending.shape)
<1>1. /\ CanReserve(a) /\ AtReserve /\ pending' = None
      /\ heap' = WithObject(a, object) /\ frames' = Pushed(a)
      /\ argsLeft' = pending.shape.refs
  BY DEF PushArgumentsFrame, RegisterAllocation, Pushed, CanReserve
<1>2. pending.shape.refs \in Nat
  BY <1>1 DEF AtReserve, HeapInv, TypeOK, RequestType, Shape
<1>3. object.fields = [i \in 1..pending.shape.refs |-> Null]
  BY DEF NewObject
<1>4. Len(object.fields) = pending.shape.refs
  BY <1>2, <1>3
<1>5. \A i \in 1..pending.shape.refs : object.fields[i] = Null
  BY <1>3
<1> HIDE DEF object
<1>6. a \in DOMAIN heap' /\ heap'[a] = object
  BY <1>1 DEF WithObject
<1>7. Top'[1] = a
  <2> DEFINE frame == [EmptyFrame EXCEPT ![1] = a]
  <2>1. frame[1] = a
    BY HeapConstants DEF EmptyFrame, Slot
  <2>2. frames' = Append(frames, frame) /\ frames \in Seq([Slot -> Ref])
    BY <1>1 DEF Pushed, HeapInv, TypeOK
  <2> HIDE DEF frame
  <2>3. frames'[Len(frames')] = frame
    BY <2>2
  <2> QED BY <2>1, <2>3 DEF Top
<1>8. ArgumentsBuilt' /\ argsLeft' <= Len(heap'[Top'[1]].fields)
  BY <1>1, <1>2, <1>4, <1>5, <1>6, <1>7 DEF ArgumentsBuilt
<1> QED BY <1>1, <1>8 DEF ArgumentsInv

LEMMA StoredArgument ==
  ASSUME HeapInv, ArgumentsInv, NEW a \in Address, StoreArgument(a)
  PROVE  ArgumentsInv'
<1> DEFINE object == NewObject(pending.shape)
           array == Top[1]
           elements == heap[array].fields
           filled == [heap[array] EXCEPT !.fields[ArgumentIndex] = a]
           done == Len(elements) - argsLeft
<1>1. /\ CanReserve(a) /\ AtReserve /\ frames' = frames /\ pending' = None
      /\ heap' = [WithObject(a, object) EXCEPT ![array] = filled]
      /\ pending.then = "argument" /\ argsLeft' = argsLeft - 1 /\ native' = native
  BY DEF StoreArgument, RegisterAllocation, CanReserve
<1>2. native = "args" /\ argsLeft > 0 /\ object.kind = "string"
  BY <1>1 DEF AtReserve, HeapInv, CallDiscipline, ArgumentsInv, NewObject
<1>3. /\ array \in DOMAIN heap /\ elements \in Seq(Ref) /\ argsLeft \in Nat
      /\ argsLeft <= Len(elements) /\ a \notin DOMAIN heap
  BY <1>1, <1>2 DEF ArgumentsInv, ArgumentsBuilt, HeapInv, TypeOK, Object, CanReserve
<1>4. ArgumentIndex = done + 1
  BY DEF ArgumentIndex
<1>5. /\ filled.fields = [elements EXCEPT ![done + 1] = a]
      /\ filled.kind = heap[array].kind
  BY <1>3, <1>4 DEF HeapInv, TypeOK, Object
<1>6. /\ \A i \in 1..done : /\ elements[i] \in DOMAIN heap
                             /\ heap[elements[i]].kind = "string"
      /\ \A i \in (done + 1)..Len(elements) : elements[i] = Null
      /\ \A i, j \in 1..done : elements[i] = elements[j] => i = j
  BY <1>2 DEF ArgumentsInv, ArgumentsBuilt
<1>7. Top' = Top
  BY <1>1 DEF Top
<1> HIDE DEF object, array, filled
<1>8. /\ DOMAIN heap' = DOMAIN heap \cup {a}
      /\ heap'[a] = object /\ heap'[array] = filled
      /\ \A b \in DOMAIN heap : b # array => heap'[b] = heap[b]
  BY <1>1, <1>3 DEF WithObject
<1>9. \A b \in DOMAIN heap : heap'[b].kind = heap[b].kind
  BY <1>5, <1>8
<1> DEFINE stored == filled.fields
<1>10. /\ Len(stored) = Len(elements) /\ DOMAIN stored = 1..Len(elements)
       /\ stored[done + 1] = a
       /\ \A i \in 1..Len(elements) : i # done + 1 => stored[i] = elements[i]
  <2>1. DOMAIN elements = 1..Len(elements) /\ Len(elements) \in Nat
    BY <1>3
  <2>2. done + 1 \in 1..Len(elements)
    BY <1>2, <1>3, <2>1
  <2>3. stored \in [1..Len(elements) -> Ref \cup {a}]
    <3>1. elements \in [1..Len(elements) -> Ref]
      BY <1>3
    <3> HIDE DEF elements, done
    <3> QED BY <1>5, <3>1
  <2>4. Len(stored) = Len(elements)
    BY <2>1, <2>3
  <2> QED BY <1>5, <2>1, <2>2, <2>3, <2>4
<1> HIDE DEF stored, elements
<1>11. /\ Len(stored) - argsLeft' = done + 1 /\ done \in Nat /\ Len(elements) \in Nat
       /\ done + 1 <= Len(elements)
  BY <1>1, <1>2, <1>3, <1>10
<1>12. \A i \in 1..(done + 1) : /\ stored[i] \in DOMAIN heap'
                                 /\ heap'[stored[i]].kind = "string"
  <2> SUFFICES ASSUME NEW i \in 1..(done + 1)
               PROVE  stored[i] \in DOMAIN heap' /\ heap'[stored[i]].kind = "string"
    OBVIOUS
  <2>1. CASE i = done + 1
    BY <1>2, <1>8, <1>10, <2>1
  <2>2. CASE i \in 1..done
    BY <1>6, <1>8, <1>9, <1>10, <1>11, <2>2
  <2> HIDE DEF done
  <2> QED BY <1>11, <2>1, <2>2
<1>13. \A i \in (done + 2)..Len(stored) : stored[i] = Null
  BY <1>6, <1>10, <1>11
<1>14. \A i, j \in 1..(done + 1) : stored[i] = stored[j] => i = j
  <2>1. \A i \in 1..(done + 1) : i = done + 1 \/ i \in 1..done
    BY <1>11
  <2>2. \A i \in 1..done : stored[i] = elements[i] /\ stored[i] # a /\ i # done + 1
    BY <1>3, <1>6, <1>10, <1>11
  <2> HIDE DEF done
  <2> QED BY <1>6, <1>10, <2>1, <2>2
<1>15. ArgumentsBuilt'
  <2>1. heap'[Top'[1]].fields = stored /\ Top'[1] \in DOMAIN heap'
    BY <1>3, <1>7, <1>8 DEF array, stored
  <2>2. Len(stored) - argsLeft' + 1 = done + 2
    BY <1>11
  <2> HIDE DEF done
  <2> QED BY <1>11, <1>12, <1>13, <1>14, <2>1, <2>2 DEF ArgumentsBuilt
<1>16. argsLeft' <= Len(heap'[Top'[1]].fields)
  BY <1>1, <1>3, <1>7, <1>8, <1>10 DEF array, stored, elements
<1> QED BY <1>1, <1>15, <1>16 DEF ArgumentsInv

LEMMA StepArguments == HeapInv /\ ArgumentsInv /\ [Next]_vars => ArgumentsInv'
<1> SUFFICES ASSUME HeapInv, ArgumentsInv, [Next]_vars PROVE ArgumentsInv'
  OBVIOUS
<1>0. native = "args" =>
        /\ Top[1] \in DOMAIN heap
        /\ \A i \in DOMAIN heap[Top[1]].fields :
             heap[Top[1]].fields[i] # Null => heap[Top[1]].fields[i] \in Address
  BY DEF ArgumentsInv, ArgumentsBuilt, HeapInv, TypeOK, Object, Ref
<1>1. CASE CallStep \/ MarkStep \/ StartSweep \/ FinishCollection \/ UNCHANGED vars
           \/ ReserveFails
  <2>1. /\ UNCHANGED <<heap, frames, native, argsLeft>>
        /\ pending' = pending \/ CallStep
    BY <1>1 DEF CallStep, MarkStep, StartSweep, FinishCollection, ReserveFails,
                RuntimeFailure, vars, nativeVars
  <2>2. Top' = Top
    BY <2>1 DEF Top
  <2> QED BY <2>1, <2>2 DEF ArgumentsInv, ArgumentsBuilt, CallStep
<1>2. CASE ProgramStep /\ ~ReserveFails
  <2>1. native' = "none" /\ pending' = None
    BY <1>2 DEF ProgramStep, LoadReference, StoreReference, ClearRoot, PushFrame,
                PopFrame, Exit, ReturnArguments, Idle, nativeVars
  <2> QED BY <2>1 DEF ArgumentsInv, ArgumentsBuilt
<1>3. ASSUME NEW a \in Address, DeliveryStep(a), ~StoreArgument(a),
             ~PushArgumentsFrame(a)
      PROVE  ArgumentsInv'
  <2>1. pending' = None /\ native' # "args"
    BY <1>3 DEF DeliveryStep, AtReserve, DeliverToSlot, DeliverToPrint, DeliverBox,
                PushMessageFrame, ReturnError, ArgumentsInv, nativeVars
  <2> QED BY <2>1 DEF ArgumentsInv, ArgumentsBuilt
<1> QED
  BY <1>1, <1>2, <1>3, StepKinds, SweepArguments, PushedArray, StoredArgument

\* However many collections the argument strings force, the array that
\* cloth_rt_program_arguments fills holds each of them, once, in order.
THEOREM ArgumentsSurvive == Spec => []ArgumentsBuilt
<1>1. Init => ArgumentsInv
  BY DEF Init, ArgumentsInv, ArgumentsBuilt
<1>2. ArgumentsInv => ArgumentsBuilt
  BY DEF ArgumentsInv
<1> QED BY <1>1, <1>2, StepArguments, HeapInvariant, PTL DEF Spec

=============================================================================
