-------------------------- MODULE AllocationIndex --------------------------
(***************************************************************************)
(* The open-addressing table behind find_allocation (runtime/runtime.cc):  *)
(* linear probing from hash_object modulo a power-of-two capacity, growth  *)
(* before the table is more than half full, and a rebuild from the         *)
(* registry list after every sweep.  There is no deletion of one entry.    *)
(*                                                                         *)
(* hash_object is an arbitrary function of the address, chosen with the    *)
(* initial state: every pattern of collisions is a pattern some layout of  *)
(* the host allocator produces.  Running out of native memory for the      *)
(* table is the abort of ManagedHeap's ReserveFails and not repeated here. *)
(***************************************************************************)
EXTENDS Integers, Sequences, FiniteSets, Functions

CONSTANTS
  Object,            \* managed addresses
  Null,              \* an empty slot
  InitialCapacity,   \* kInitialAllocationIndexCapacity, a power of two
  MaxCapacity,       \* largest capacity calloc can be asked for
  HashValues         \* the hash values an address can have

ASSUME IndexConstants ==
  /\ Null \notin Object /\ IsFiniteSet(Object)
  /\ InitialCapacity \in Nat \ {0, 1}
  /\ MaxCapacity \in Nat /\ MaxCapacity >= InitialCapacity
  /\ HashValues \subseteq Nat

VARIABLES
  hash,          \* hash_object
  allocations,   \* the registry list, youngest first
  index,         \* allocation_index: << >> until the first registration
  outcome        \* "running" or "aborted"

indexVars == <<hash, allocations, index, outcome>>

\* Slots are numbered from 1; the table of capacity c is a sequence of length c.
Capacity == Len(index)

EmptyTable(capacity) == [slot \in 1..capacity |-> Null]

\* The slot `step' places after the home slot of o.
Home(table, o) == hash[o] % Len(table)

SlotAt(table, o, step) == 1 + ((Home(table, o) + step) % Len(table))

\* Steps from the home slot to the first slot that holds o or is empty; -1
\* when there is none, where the loop of the code would not end.
ProbeLength(table, o) ==
  LET stops == {step \in 0..(Len(table) - 1) :
                  table[SlotAt(table, o, step)] \in {o, Null}}
  IN  IF stops = {} THEN -1
      ELSE CHOOSE step \in stops : \A other \in stops : step <= other

\* insert_allocation_index.
Insert(table, o) ==
  LET step == ProbeLength(table, o)
  IN  IF step = -1 THEN table
      ELSE [table EXCEPT ![SlotAt(table, o, step)] = o]

\* The loop over the registry list in reserve_allocation_index and
\* rebuild_allocation_index, into an empty table.
Rebuilt(capacity, list) ==
  LET table[k \in 0..Len(list)] ==
        IF k = 0 THEN EmptyTable(capacity) ELSE Insert(table[k - 1], list[k])
  IN  table[Len(list)]

\* Mutant: growth waits until the table is full.
FitsWhenFull(required, capacity) == required <= capacity

Fits(required, capacity) == required <= capacity \div 2

\* Capacities at which the doubling loop may stop: large enough, and reached
\* without passing the largest capacity.
Doubled(capacity) == {capacity * 2^k : k \in 0..MaxCapacity}

Capacities(required) ==
  LET start == IF Capacity > InitialCapacity THEN Capacity ELSE InitialCapacity
  IN  {c \in start..MaxCapacity : c \in Doubled(start) /\ Fits(required, c)}

GrownCapacity(required) ==
  CHOOSE c \in Capacities(required) : \A d \in Capacities(required) : c <= d

\* find_allocation.
Find(o) ==
  /\ Capacity # 0
  /\ LET step == ProbeLength(index, o)
     IN  step # -1 /\ index[SlotAt(index, o, step)] = o

-----------------------------------------------------------------------------
\* register_allocation: reserve_allocation_index for one more object, then
\* the registry list, then insert_allocation_index.
Register(o) ==
  LET required == Len(allocations) + 1
  IN  /\ outcome = "running" /\ o \notin Range(allocations)
      /\ IF Fits(required, Capacity)
         THEN index' = Insert(index, o) /\ UNCHANGED outcome
         ELSE IF Capacities(required) = {}
         THEN outcome' = "aborted" /\ UNCHANGED index
         ELSE /\ index' = Insert(Rebuilt(GrownCapacity(required), allocations), o)
              /\ UNCHANGED outcome
      /\ allocations' = IF outcome' = "aborted" THEN allocations
                        ELSE <<o>> \o allocations
      /\ UNCHANGED hash

\* The registry list after the sweep has unlinked the freed objects.
Unlinked(list, freed) ==
  LET kept[k \in 0..Len(list)] ==
        IF k = 0 THEN << >>
        ELSE IF list[k] \in freed THEN kept[k - 1]
        ELSE Append(kept[k - 1], list[k])
  IN  kept[Len(list)]

\* Mutant: the slots of the freed objects are emptied in place.
SweepInPlace(freed) ==
  /\ outcome = "running"
  /\ allocations' = Unlinked(allocations, freed)
  /\ index' = [slot \in 1..Capacity |->
                 IF index[slot] \in freed THEN Null ELSE index[slot]]
  /\ UNCHANGED <<hash, outcome>>

\* sweep_unreachable_objects unlinks what is not marked, then
\* rebuild_allocation_index clears the table and inserts the rest.
Sweep(freed) ==
  /\ outcome = "running"
  /\ allocations' = Unlinked(allocations, freed)
  /\ index' = IF Capacity = 0 THEN index ELSE Rebuilt(Capacity, allocations')
  /\ UNCHANGED <<hash, outcome>>

IndexInit ==
  /\ hash \in [Object -> HashValues]
  /\ allocations = << >>
  /\ index = << >>
  /\ outcome = "running"

IndexNext ==
  \/ \E o \in Object : Register(o)
  \/ \E freed \in SUBSET Range(allocations) : Sweep(freed)
  \/ outcome = "aborted" /\ UNCHANGED indexVars

IndexSpec == IndexInit /\ [][IndexNext]_indexVars

-----------------------------------------------------------------------------
\* The list holds each object once and every slot an object or null.
IndexTypeOK ==
  /\ hash \in [Object -> HashValues]
  /\ allocations \in Seq(Object) /\ IsInjective(allocations)
  /\ index \in Seq(Object \cup {Null})
  /\ outcome \in {"running", "aborted"}

\* Every probe ends: a table with an object to look for always keeps an
\* empty slot, in fact at least half of them.
ProbesEnd ==
  Capacity # 0 =>
    /\ 2 * Cardinality({slot \in 1..Capacity : index[slot] # Null}) <= Capacity
    /\ \A o \in Object : ProbeLength(index, o) # -1

\* The registry as the collector sees it: a set of objects with a lookup.
Registry == INSTANCE RegistrySet WITH
              registered <- Range(allocations),
              found <- {o \in Object : Find(o)}
ImplementsRegistry == Registry!RegistrySpec
=============================================================================
