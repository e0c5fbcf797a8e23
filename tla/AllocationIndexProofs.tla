----------------------- MODULE AllocationIndexProofs -----------------------
(***************************************************************************)
(* Proofs about AllocationIndex, for any number of objects, any hash and   *)
(* any pair of initial and largest capacity: a probe always meets the      *)
(* object or an empty slot, and lookups find exactly the registered        *)
(* objects at all times.                                                   *)
(*                                                                         *)
(* The loops over the registry list are recursive functions of the length  *)
(* already visited.  What they compute is proved by looking at the least   *)
(* length at which a claim would fail; that there is a least one follows   *)
(* from the well-foundedness of strict inclusion between finite sets.      *)
(***************************************************************************)
EXTENDS AllocationIndex, FiniteSetTheorems, WellFoundedInduction, TLAPS

-----------------------------------------------------------------------------
(* Least elements and remainders. *)

\* A set of numbers up to n that is not empty has a least element.
LEMMA LeastElement ==
  ASSUME NEW n \in Nat, NEW S \in SUBSET (0..n), S # {}
  PROVE  \E least \in S : \A other \in S : least <= other
<1> DEFINE R == StrictSubsetOrdering(0..n)
           T == {0..k : k \in S}
<1>1. IsFiniteSet(0..n)
  BY FS_Interval
<1>2. FiniteSubsetsOf(0..n) = SUBSET (0..n)
  BY <1>1, FS_FiniteSubsetsOfFinite
<1>3. IsWellFoundedOn(R, SUBSET (0..n))
  BY <1>2, FS_StrictSubsetOrderingWellFounded
<1>4. T \in SUBSET (SUBSET (0..n)) /\ T # {}
  <2>1. \A k \in S : 0..k \subseteq 0..n
    OBVIOUS
  <2>2. PICK k \in S : TRUE
    OBVIOUS
  <2>3. 0..k \in T
    OBVIOUS
  <2> QED BY <2>1, <2>3
<1>5. \E x \in T : \A y \in T : <<y, x>> \notin R
  <2> HIDE DEF R, T
  <2> QED BY <1>3, <1>4, WFMin
<1>6. PICK least \in S : \A k \in S : <<0..k, 0..least>> \notin R
  BY <1>5
<1>7. \A k \in S : least <= k
  <2> SUFFICES ASSUME NEW k \in S, ~(least <= k)
               PROVE  FALSE
    OBVIOUS
  <2>1. 0..k \subseteq 0..least /\ 0..k \subseteq 0..n /\ 0..least \subseteq 0..n
    OBVIOUS
  <2>2. least \in 0..least /\ least \notin 0..k
    OBVIOUS
  <2>3. <<0..k, 0..least>> \in R
    BY <2>1, <2>2 DEF StrictSubsetOrdering
  <2> QED BY <2>3, <1>6
<1> QED BY <1>7

\* A claim that holds at 0 and passes from k to k + 1 leaves no set of
\* exceptions among the numbers up to n.
LEMMA NoException ==
  ASSUME NEW n \in Nat, NEW S \in SUBSET (0..n), 0 \notin S,
         \A k \in 1..n : k \in S => k - 1 \in S
  PROVE  S = {}
<1> SUFFICES ASSUME S # {} PROVE FALSE
  OBVIOUS
<1>1. PICK least \in S : \A other \in S : least <= other
  BY LeastElement
<1> QED BY <1>1

LEMMA RemainderRange ==
  ASSUME NEW c \in Nat \ {0}, NEW x \in Nat
  PROVE  x % c \in 0..(c - 1)
  OBVIOUS

LEMMA RemainderBelow ==
  ASSUME NEW c \in Nat \ {0}, NEW x \in 0..(c - 1)
  PROVE  x % c = x
  OBVIOUS

LEMMA RemainderWrapped ==
  ASSUME NEW c \in Nat \ {0}, NEW x \in c..(2 * c - 1)
  PROVE  x % c = x - c
  OBVIOUS

-----------------------------------------------------------------------------
(* The recursive functions of the two loops. *)

\* table[k] is the table after the first k objects of the list.
BuildSteps(table, capacity, list, n) ==
  table = [k \in 0..n |-> IF k = 0 THEN EmptyTable(capacity)
                          ELSE Insert(table[k - 1], list[k])]

\* The loop of rebuild_allocation_index gives one table per object visited.
LEMMA RebuildUnfolds ==
  ASSUME NEW capacity, NEW list, Len(list) \in Nat
  PROVE  \E table : /\ BuildSteps(table, capacity, list, Len(list))
                    /\ Rebuilt(capacity, list) = table[Len(list)]
<1> DEFINE S == {n \in 0..Len(list) : ~(\E f : BuildSteps(f, capacity, list, n))}
<1>1. 0 \notin S
  <2>1. BuildSteps([k \in 0..0 |-> EmptyTable(capacity)], capacity, list, 0)
    BY DEF BuildSteps
  <2> QED BY <2>1
<1>2. ASSUME NEW n \in 1..Len(list), n - 1 \notin S
      PROVE  n \notin S
  <2>1. n - 1 \in 0..Len(list)
    OBVIOUS
  <2>2. PICK g : BuildSteps(g, capacity, list, n - 1)
    BY <1>2, <2>1
  <2> DEFINE f == [k \in 0..n |-> IF k = n THEN Insert(g[n - 1], list[n]) ELSE g[k]]
  <2>3. BuildSteps(f, capacity, list, n)
    BY <2>2 DEF BuildSteps
  <2> QED BY <2>3
<1>3. S = {}
  <2>1. S \in SUBSET (0..Len(list))
    OBVIOUS
  <2> HIDE DEF S
  <2> QED BY <1>1, <1>2, <2>1, NoException
<1>4. \E f : BuildSteps(f, capacity, list, Len(list))
  BY <1>3
<1> DEFINE built == CHOOSE f : BuildSteps(f, capacity, list, Len(list))
<1>5. BuildSteps(built, capacity, list, Len(list))
  BY <1>4
<1>6. Rebuilt(capacity, list) = built[Len(list)]
  BY DEF Rebuilt, BuildSteps
<1> QED BY <1>5, <1>6

\* One turn of the sweep's loop: the object is unlinked or stays.
UnlinkOne(kept, o, freed) == IF o \in freed THEN kept ELSE Append(kept, o)

\* kept[k] is what the sweep keeps of the first k objects of the list.
UnlinkSteps(kept, list, freed, n) ==
  kept = [k \in 0..n |-> IF k = 0 THEN << >>
                         ELSE UnlinkOne(kept[k - 1], list[k], freed)]

\* The loop of sweep_unreachable_objects gives one list per object visited.
LEMMA UnlinkUnfolds ==
  ASSUME NEW list, NEW freed, Len(list) \in Nat
  PROVE  \E kept : /\ UnlinkSteps(kept, list, freed, Len(list))
                   /\ Unlinked(list, freed) = kept[Len(list)]
<1> DEFINE S == {n \in 0..Len(list) : ~(\E f : UnlinkSteps(f, list, freed, n))}
<1>1. 0 \notin S
  <2>1. UnlinkSteps([k \in 0..0 |-> << >>], list, freed, 0)
    BY DEF UnlinkSteps
  <2> QED BY <2>1
<1>2. ASSUME NEW n \in 1..Len(list), n - 1 \notin S
      PROVE  n \notin S
  <2>1. n - 1 \in 0..Len(list)
    OBVIOUS
  <2>2. PICK g : UnlinkSteps(g, list, freed, n - 1)
    BY <1>2, <2>1
  <2> DEFINE f == [k \in 0..n |-> IF k = n THEN UnlinkOne(g[n - 1], list[n], freed)
                                  ELSE g[k]]
  <2>3. UnlinkSteps(f, list, freed, n)
    BY <2>2 DEF UnlinkSteps
  <2> QED BY <2>3
<1>3. S = {}
  <2>1. S \in SUBSET (0..Len(list))
    OBVIOUS
  <2> HIDE DEF S
  <2> QED BY <1>1, <1>2, <2>1, NoException
<1>4. \E f : UnlinkSteps(f, list, freed, Len(list))
  BY <1>3
<1> DEFINE kept == CHOOSE f : UnlinkSteps(f, list, freed, Len(list))
<1>5. UnlinkSteps(kept, list, freed, Len(list))
  BY <1>4
<1>6. Unlinked(list, freed) = kept[Len(list)]
  BY DEF Unlinked, UnlinkSteps, UnlinkOne
<1> QED BY <1>5, <1>6

-----------------------------------------------------------------------------
(* Probing. *)

\* Slots of a table that hold an object.
Filled(table) == {slot \in 1..Len(table) : table[slot] # Null}

IsTable(table) ==
  /\ Len(table) \in Nat \ {0}
  /\ table \in [1..Len(table) -> Object \cup {Null}]

\* The probe for o meets o before it meets an empty slot.
Findable(table, o) ==
  \E step \in 0..(Len(table) - 1) :
    /\ table[SlotAt(table, o, step)] = o
    /\ \A earlier \in 0..(step - 1) :
         table[SlotAt(table, o, earlier)] \notin {o, Null}

\* The table holds the objects of S in n slots, all of them to be found.
TableOk(table, S, n) ==
  /\ IsTable(table)
  /\ \A slot \in 1..Len(table) : table[slot] \in S \cup {Null}
  /\ \A o \in S : Findable(table, o)
  /\ IsFiniteSet(Filled(table)) /\ Cardinality(Filled(table)) = n

HashOk == hash \in [Object -> Nat]

\* Every step of a probe looks at a slot of the table.
LEMMA SlotInTable ==
  ASSUME HashOk, NEW table, IsTable(table), NEW o \in Object, NEW step \in Nat
  PROVE  SlotAt(table, o, step) \in 1..Len(table)
<1> DEFINE c == Len(table)
           x == Home(table, o) + step
<1>1. c \in Nat \ {0} /\ hash[o] \in Nat
  BY DEF HashOk, IsTable
<1>2. hash[o] % c \in 0..(c - 1)
  BY <1>1, RemainderRange
<1>3. x \in Nat
  BY <1>1, <1>2 DEF Home
<1>4. x % c \in 0..(c - 1)
  <2> HIDE DEF x, c
  <2> QED BY <1>1, <1>3, RemainderRange
<1> QED BY <1>1, <1>4 DEF SlotAt

\* A probe of Len(table) steps wraps around and looks at every slot.
LEMMA SlotReached ==
  ASSUME HashOk, NEW table, IsTable(table), NEW o \in Object,
         NEW slot \in 1..Len(table)
  PROVE  \E step \in 0..(Len(table) - 1) : SlotAt(table, o, step) = slot
<1> DEFINE c == Len(table)
           home == Home(table, o)
<1>1. c \in Nat \ {0} /\ home \in 0..(c - 1)
  BY RemainderRange DEF HashOk, IsTable, Home
<1>2. CASE slot - 1 >= home
  <2>1. (slot - 1 - home) \in 0..(c - 1)
    BY <1>1, <1>2
  <2>2. (home + (slot - 1 - home)) % c = slot - 1
    <3>1. home + (slot - 1 - home) = slot - 1 /\ slot - 1 \in 0..(c - 1)
      BY <1>1
    <3> QED BY <1>1, <3>1, RemainderBelow
  <2>3. SlotAt(table, o, slot - 1 - home) = slot
    BY <2>2 DEF SlotAt
  <2> QED BY <2>1, <2>3
<1>3. CASE slot - 1 < home
  <2>1. (slot - 1 - home + c) \in 0..(c - 1)
    BY <1>1, <1>3
  <2>2. (home + (slot - 1 - home + c)) % c = slot - 1
    <3>1. /\ home + (slot - 1 - home + c) = slot - 1 + c
          /\ slot - 1 + c \in c..(2 * c - 1)
      BY <1>1
    <3>2. (slot - 1 + c) % c = slot - 1 + c - c
      BY <1>1, <3>1, RemainderWrapped
    <3> QED BY <1>1, <3>1, <3>2
  <2>3. SlotAt(table, o, slot - 1 - home + c) = slot
    BY <2>2 DEF SlotAt
  <2> QED BY <2>1, <2>3
<1> QED BY <1>1, <1>2, <1>3

\* A table with fewer objects than slots has an empty slot.
LEMMA EmptySlot ==
  ASSUME NEW table, IsTable(table), IsFiniteSet(Filled(table)),
         Cardinality(Filled(table)) < Len(table)
  PROVE  \E slot \in 1..Len(table) : table[slot] = Null
<1> SUFFICES ASSUME \A slot \in 1..Len(table) : table[slot] # Null
             PROVE  FALSE
  OBVIOUS
<1>1. Filled(table) = 1..Len(table)
  BY DEF Filled
<1>2. Cardinality(1..Len(table)) = Len(table)
  BY FS_Interval DEF IsTable
<1> QED BY <1>1, <1>2 DEF IsTable

\* A probe of such a table ends, at the first slot with the object or none.
LEMMA ProbeStops ==
  ASSUME HashOk, NEW table, IsTable(table), NEW o \in Object,
         \E slot \in 1..Len(table) : table[slot] = Null
  PROVE  LET step == ProbeLength(table, o)
         IN  /\ step \in 0..(Len(table) - 1)
             /\ table[SlotAt(table, o, step)] \in {o, Null}
             /\ \A earlier \in 0..(step - 1) :
                  table[SlotAt(table, o, earlier)] \notin {o, Null}
<1> DEFINE stops == {step \in 0..(Len(table) - 1) :
                       table[SlotAt(table, o, step)] \in {o, Null}}
<1>1. Len(table) - 1 \in Nat
  BY DEF IsTable
<1>2. stops # {}
  <2>1. PICK slot \in 1..Len(table) : table[slot] = Null
    OBVIOUS
  <2>2. PICK step \in 0..(Len(table) - 1) : SlotAt(table, o, step) = slot
    BY SlotReached
  <2> QED BY <2>1, <2>2
<1>3. \E step \in stops : \A other \in stops : step <= other
  <2>1. stops \in SUBSET (0..(Len(table) - 1))
    OBVIOUS
  <2> HIDE DEF stops
  <2> QED BY <1>1, <1>2, <2>1, LeastElement
<1>4. ProbeLength(table, o) = CHOOSE step \in stops : \A other \in stops : step <= other
  BY <1>2 DEF ProbeLength
<1> DEFINE first == ProbeLength(table, o)
<1>5. first \in stops /\ \A other \in stops : first <= other
  <2> HIDE DEF stops
  <2> QED BY <1>3, <1>4
<1>6. \A earlier \in 0..(first - 1) : table[SlotAt(table, o, earlier)] \notin {o, Null}
  <2> SUFFICES ASSUME NEW earlier \in 0..(first - 1),
                      table[SlotAt(table, o, earlier)] \in {o, Null}
               PROVE  FALSE
    OBVIOUS
  <2>1. first \in 0..(Len(table) - 1)
    BY <1>5
  <2>2. earlier \in stops
    BY <1>1, <2>1
  <2>3. first <= earlier
    BY <1>5, <2>2
  <2> HIDE DEF first, stops
  <2> QED BY <1>1, <2>1, <2>3
<1> QED BY <1>5, <1>6

-----------------------------------------------------------------------------
(* The operations on tables. *)

\* A new table is empty.
LEMMA EmptyTableOk ==
  ASSUME NEW capacity \in Nat \ {0}
  PROVE  TableOk(EmptyTable(capacity), {}, 0) /\ Len(EmptyTable(capacity)) = capacity
<1> DEFINE table == EmptyTable(capacity)
<1>1. table \in Seq({Null}) /\ Len(table) = capacity
  BY DEF EmptyTable
<1>2. \A slot \in 1..capacity : table[slot] = Null
  BY DEF EmptyTable
<1>3. IsTable(table)
  BY <1>1 DEF IsTable, EmptyTable
<1>4. Filled(table) = {}
  BY <1>1, <1>2 DEF Filled
<1> HIDE DEF table
<1>5. IsFiniteSet(Filled(table)) /\ Cardinality(Filled(table)) = 0
  BY <1>4, FS_EmptySet
<1>6. TableOk(table, {}, 0)
  BY <1>1, <1>2, <1>3, <1>5 DEF TableOk
<1> QED BY <1>1, <1>6 DEF table

\* insert_allocation_index: the object is to be found afterwards, and so is
\* everything that was.
LEMMA InsertOk ==
  ASSUME HashOk, NEW table, NEW S, NEW n \in Nat, NEW o \in Object,
         Null \notin Object, S \subseteq Object, o \notin S,
         TableOk(table, S, n), n < Len(table)
  PROVE  /\ TableOk(Insert(table, o), S \cup {o}, n + 1)
         /\ Len(Insert(table, o)) = Len(table)
<1> DEFINE step == ProbeLength(table, o)
           slot == SlotAt(table, o, step)
           new == Insert(table, o)
           c == Len(table)
<1>1. IsTable(table) /\ c \in Nat \ {0}
  BY DEF TableOk, IsTable
<1>2. \E free \in 1..c : table[free] = Null
  BY EmptySlot DEF TableOk
<1>3. /\ step \in 0..(c - 1)
      /\ table[slot] \in {o, Null}
      /\ \A earlier \in 0..(step - 1) : table[SlotAt(table, o, earlier)] \notin {o, Null}
  BY <1>1, <1>2, ProbeStops
<1>4. slot \in 1..c
  <2>1. step \in Nat
    BY <1>1, <1>3
  <2> QED BY <1>1, <2>1, SlotInTable
<1>5. table[slot] = Null
  BY <1>3, <1>4 DEF TableOk
<1>6. new = [table EXCEPT ![slot] = o]
  BY <1>1, <1>3 DEF Insert
<1>7. /\ new \in [1..c -> Object \cup {Null}] /\ Len(new) = c
      /\ new[slot] = o
      /\ \A other \in 1..c : other # slot => new[other] = table[other]
  BY <1>1, <1>4, <1>6 DEF IsTable
<1>8. \A p, k : SlotAt(new, p, k) = SlotAt(table, p, k)
  BY <1>7 DEF SlotAt, Home
<1>16. \A p \in Object : \A k \in Nat : SlotAt(table, p, k) \in 1..c
  BY <1>1, SlotInTable
<1> HIDE DEF step, slot, new
<1>9. Findable(new, o)
  <2>1. ASSUME NEW earlier \in 0..(step - 1)
        PROVE  /\ SlotAt(table, o, earlier) \in 1..c
               /\ SlotAt(table, o, earlier) # slot
    <3>1. earlier \in Nat
      BY <1>1, <1>3
    <3>2. SlotAt(table, o, earlier) \in 1..c
      BY <1>16, <3>1
    <3>3. table[SlotAt(table, o, earlier)] # Null
      BY <1>3
    <3> QED BY <1>5, <3>2, <3>3
  <2>2. SlotAt(new, o, step) = slot
    BY <1>8 DEF slot
  <2>3. \A earlier \in 0..(step - 1) : new[SlotAt(new, o, earlier)] \notin {o, Null}
    BY <1>3, <1>7, <1>8, <2>1
  <2> QED BY <1>3, <1>7, <2>2, <2>3 DEF Findable
<1>10. ASSUME NEW p \in S
       PROVE  Findable(new, p)
  <2>1. PICK k \in 0..(c - 1) :
          /\ table[SlotAt(table, p, k)] = p
          /\ \A earlier \in 0..(k - 1) : table[SlotAt(table, p, earlier)] \notin {p, Null}
    BY DEF TableOk, Findable
  <2>2. p \in Object /\ p # Null
    OBVIOUS
  <2>3. SlotAt(table, p, k) \in 1..c /\ SlotAt(table, p, k) # slot
    <3>1. k \in Nat
      BY <1>1, <2>1
    <3>2. SlotAt(table, p, k) \in 1..c
      BY <1>16, <2>2, <3>1
    <3> QED BY <1>5, <2>1, <2>2, <3>2
  <2>4. new[SlotAt(new, p, k)] = p
    BY <1>7, <1>8, <2>1, <2>3
  <2>5. ASSUME NEW earlier \in 0..(k - 1)
        PROVE  SlotAt(table, p, earlier) \in 1..c /\ SlotAt(table, p, earlier) # slot
    <3>1. earlier \in Nat
      BY <1>1, <2>1
    <3>2. SlotAt(table, p, earlier) \in 1..c
      BY <1>16, <2>2, <3>1
    <3>3. table[SlotAt(table, p, earlier)] # Null
      BY <2>1
    <3> QED BY <1>5, <3>2, <3>3
  <2>6. \A earlier \in 0..(k - 1) : new[SlotAt(new, p, earlier)] \notin {p, Null}
    BY <1>7, <1>8, <2>1, <2>5
  <2> QED BY <1>7, <2>1, <2>4, <2>6 DEF Findable
<1>11. Filled(new) = Filled(table) \cup {slot} /\ slot \notin Filled(table)
  BY <1>4, <1>5, <1>7 DEF Filled
<1>12. IsFiniteSet(Filled(new)) /\ Cardinality(Filled(new)) = n + 1
  BY <1>11, FS_AddElement DEF TableOk
<1>13. \A other \in 1..Len(new) : new[other] \in (S \cup {o}) \cup {Null}
  BY <1>4, <1>7 DEF TableOk
<1>14. IsTable(new)
  BY <1>1, <1>7 DEF IsTable
<1>15. TableOk(new, S \cup {o}, n + 1)
  BY <1>9, <1>10, <1>12, <1>13, <1>14 DEF TableOk
<1> QED BY <1>7, <1>15 DEF new

\* The objects of the first k places of a list.
Front(list, k) == {list[j] : j \in 1..k}

\* rebuild_allocation_index: the new table holds exactly the listed objects.
LEMMA RebuiltOk ==
  ASSUME HashOk, Null \notin Object, NEW capacity \in Nat \ {0},
         NEW list \in Seq(Object), IsInjective(list), Len(list) < capacity
  PROVE  /\ TableOk(Rebuilt(capacity, list), Range(list), Len(list))
         /\ Len(Rebuilt(capacity, list)) = capacity
<1> DEFINE last == Len(list)
<1>1. last \in Nat /\ DOMAIN list = 1..last /\ \A k \in 1..last : list[k] \in Object
  OBVIOUS
<1>2. PICK table : /\ BuildSteps(table, capacity, list, last)
                   /\ Rebuilt(capacity, list) = table[last]
  BY <1>1, RebuildUnfolds
<1>3. /\ table[0] = EmptyTable(capacity)
      /\ \A k \in 1..last : table[k] = Insert(table[k - 1], list[k])
  BY <1>1, <1>2 DEF BuildSteps
<1> DEFINE Good(k) == /\ TableOk(table[k], Front(list, k), k)
                      /\ Len(table[k]) = capacity
           S == {k \in 0..last : ~Good(k)}
<1>4. 0 \notin S
  <2>1. Front(list, 0) = {}
    BY DEF Front
  <2> QED BY <1>3, <2>1, EmptyTableOk
<1>5. ASSUME NEW k \in 1..last, k - 1 \notin S
      PROVE  k \notin S
  <2>1. k - 1 \in 0..last /\ k - 1 \in Nat /\ k - 1 < capacity
    BY <1>1
  <2>2. TableOk(table[k - 1], Front(list, k - 1), k - 1) /\ Len(table[k - 1]) = capacity
    BY <1>5, <2>1
  <2>3. Front(list, k - 1) \subseteq Object /\ list[k] \in Object
    BY <1>1 DEF Front
  <2>4. list[k] \notin Front(list, k - 1)
    BY <1>1 DEF Front, IsInjective
  <2>5. Front(list, k) = Front(list, k - 1) \cup {list[k]}
    BY <1>1 DEF Front
  <2>6. /\ TableOk(Insert(table[k - 1], list[k]), Front(list, k - 1) \cup {list[k]}, k - 1 + 1)
        /\ Len(Insert(table[k - 1], list[k])) = capacity
    BY <2>1, <2>2, <2>3, <2>4, InsertOk
  <2>7. k - 1 + 1 = k
    OBVIOUS
  <2> QED BY <1>3, <2>5, <2>6, <2>7
<1>6. S = {}
  <2>1. S \in SUBSET (0..last)
    OBVIOUS
  <2> HIDE DEF S
  <2> QED BY <1>1, <1>4, <1>5, <2>1, NoException
<1>7. Good(last)
  BY <1>1, <1>6
<1>8. Front(list, last) = Range(list)
  BY <1>1 DEF Front, Range
<1> QED BY <1>2, <1>7, <1>8

\* sweep_unreachable_objects: the list loses the freed objects and no other,
\* and still has each object once.
LEMMA UnlinkedOk ==
  ASSUME NEW list \in Seq(Object), IsInjective(list), NEW freed
  PROVE  LET left == Unlinked(list, freed)
         IN  /\ left \in Seq(Object) /\ IsInjective(left)
             /\ Len(left) <= Len(list)
             /\ Range(left) = Range(list) \ freed
<1> DEFINE last == Len(list)
<1>1. last \in Nat /\ DOMAIN list = 1..last /\ \A k \in 1..last : list[k] \in Object
  OBVIOUS
<1>2. PICK kept : /\ UnlinkSteps(kept, list, freed, last)
                  /\ Unlinked(list, freed) = kept[last]
  BY <1>1, UnlinkUnfolds
<1>3. /\ kept[0] = << >>
      /\ \A k \in 1..last : kept[k] = UnlinkOne(kept[k - 1], list[k], freed)
  BY <1>1, <1>2 DEF UnlinkSteps
<1> DEFINE Good(k) == /\ kept[k] \in Seq(Object) /\ IsInjective(kept[k])
                      /\ Len(kept[k]) <= k
                      /\ Range(kept[k]) = Front(list, k) \ freed
           S == {k \in 0..last : ~Good(k)}
<1>4. 0 \notin S
  <2>1. << >> \in Seq(Object) /\ Len(<< >>) = 0 /\ DOMAIN << >> = {}
    OBVIOUS
  <2>2. IsInjective(<< >>) /\ Range(<< >>) = {}
    BY <2>1 DEF IsInjective, Range
  <2>3. Front(list, 0) = {}
    BY DEF Front
  <2>4. Len(<< >>) <= 0 /\ Range(<< >>) = Front(list, 0) \ freed
    BY <2>1, <2>2, <2>3
  <2>5. Good(0)
    BY <1>3, <2>1, <2>2, <2>4, Zenon
  <2> QED BY <2>5
<1>5. ASSUME NEW k \in 1..last, k - 1 \notin S
      PROVE  k \notin S
  <2>1. k - 1 \in 0..last /\ list[k] \in Object
    BY <1>1
  <2> DEFINE old == kept[k - 1]
             o == list[k]
  <2>2. /\ old \in Seq(Object) /\ IsInjective(old) /\ Len(old) <= k - 1
        /\ Range(old) = Front(list, k - 1) \ freed
    BY <1>5, <2>1
  <2>3. Front(list, k) = Front(list, k - 1) \cup {o}
    BY <1>1 DEF Front
  <2>4. o \notin Front(list, k - 1)
    BY <1>1 DEF Front, IsInjective
  <2>5. CASE o \in freed
    <3>1. kept[k] = old
      BY <1>3, <2>5 DEF UnlinkOne
    <3> QED BY <2>2, <2>3, <2>5, <3>1
  <2>6. CASE o \notin freed
    <3>1. kept[k] = Append(old, o)
      BY <1>3, <2>6 DEF UnlinkOne
    <3> HIDE DEF old, o
    <3>2. /\ Append(old, o) \in Seq(Object) /\ Len(Append(old, o)) = Len(old) + 1
          /\ DOMAIN Append(old, o) = 1..(Len(old) + 1)
          /\ \A j \in 1..Len(old) : Append(old, o)[j] = old[j]
          /\ Append(old, o)[Len(old) + 1] = o
      BY <2>1, <2>2 DEF o
    <3>3. DOMAIN old = 1..Len(old) /\ Len(old) \in Nat
      BY <2>2
    <3>4. Range(Append(old, o)) = Range(old) \cup {o}
      BY <3>2, <3>3 DEF Range
    <3>5. \A j \in 1..Len(old) : old[j] # o
      BY <2>2, <2>4, <3>3 DEF Range
    <3>6. IsInjective(Append(old, o))
      BY <2>2, <3>2, <3>3, <3>5 DEF IsInjective
    <3>7. Len(Append(old, o)) <= k
      BY <2>2, <3>2, <3>3
    <3> QED BY <2>2, <2>3, <2>6, <3>1, <3>2, <3>4, <3>6, <3>7
  <2> QED BY <2>5, <2>6
<1>6. S = {}
  <2>1. S \in SUBSET (0..last)
    OBVIOUS
  <2> HIDE DEF S
  <2> QED BY <1>1, <1>4, <1>5, <2>1, NoException
<1>7. Good(last)
  BY <1>1, <1>6
<1>8. Front(list, last) = Range(list)
  BY <1>1 DEF Front, Range
<1> QED BY <1>2, <1>7, <1>8

\* The registry list with one more object in front.
LEMMA LinkedOk ==
  ASSUME NEW list \in Seq(Object), IsInjective(list), NEW o \in Object, o \notin Range(list)
  PROVE  LET longer == <<o>> \o list
         IN  /\ longer \in Seq(Object) /\ IsInjective(longer)
             /\ Len(longer) = Len(list) + 1
             /\ Range(longer) = Range(list) \cup {o}
<1> DEFINE longer == <<o>> \o list
<1>1. /\ longer \in Seq(Object) /\ Len(longer) = Len(list) + 1 /\ Len(list) \in Nat
      /\ DOMAIN longer = 1..(Len(list) + 1) /\ DOMAIN list = 1..Len(list)
      /\ longer[1] = o
      /\ \A j \in 2..(Len(list) + 1) : longer[j] = list[j - 1]
  OBVIOUS
<1> HIDE DEF longer
<1>2. \A j \in 1..Len(list) : longer[j + 1] = list[j] /\ list[j] # o
  BY <1>1 DEF Range
<1>3. Range(longer) = Range(list) \cup {o}
  <2>1. ASSUME NEW j \in DOMAIN longer
        PROVE  longer[j] \in Range(list) \cup {o}
    <3>1. CASE j = 1
      BY <1>1, <3>1
    <3>2. CASE j # 1
      <4>1. j - 1 \in DOMAIN list /\ longer[j] = list[j - 1]
        BY <1>1, <3>2
      <4> QED BY <4>1 DEF Range
    <3> QED BY <3>1, <3>2
  <2>2. \A j \in 1..Len(list) : list[j] \in Range(longer)
    BY <1>1, <1>2 DEF Range
  <2>3. o \in Range(longer)
    BY <1>1 DEF Range
  <2> QED BY <1>1, <2>1, <2>2, <2>3 DEF Range
<1>4. IsInjective(longer)
  <2> SUFFICES ASSUME NEW j \in DOMAIN longer, NEW k \in DOMAIN longer, longer[j] = longer[k]
               PROVE  j = k
    BY DEF IsInjective
  <2>1. CASE j # 1 /\ k # 1
    <3>1. j - 1 \in DOMAIN list /\ k - 1 \in DOMAIN list /\ list[j - 1] = list[k - 1]
      BY <1>1, <2>1
    <3>2. j - 1 = k - 1
      BY <3>1 DEF IsInjective
    <3> QED BY <1>1, <3>2
  <2>2. CASE j = 1 \/ k = 1
    <3>1. \A i \in DOMAIN longer : i # 1 => longer[i] # o
      <4> SUFFICES ASSUME NEW i \in DOMAIN longer, i # 1 PROVE longer[i] # o
        OBVIOUS
      <4>1. i - 1 \in 1..Len(list) /\ longer[i] = list[i - 1]
        BY <1>1
      <4> QED BY <1>2, <4>1
    <3> QED BY <1>1, <2>2, <3>1
  <2> QED BY <2>1, <2>2
<1> QED BY <1>1, <1>3, <1>4 DEF longer

\* At most half of the slots leaves room for one more.
LEMMA FitsRoom ==
  ASSUME NEW n \in Nat, NEW capacity \in Nat, Fits(n, capacity)
  PROVE  2 * n <= capacity /\ (capacity # 0 => n < capacity)
BY DEF Fits

\* The doubling loop stops at a capacity that fits, if it does not abort.
LEMMA GrownOk ==
  ASSUME IndexConstants, Capacity \in Nat, NEW required \in Nat, Capacities(required) # {}
  PROVE  /\ GrownCapacity(required) \in Nat \ {0}
         /\ Fits(required, GrownCapacity(required))
<1> DEFINE enough == Capacities(required)
<1>1. enough \in SUBSET (0..MaxCapacity) /\ MaxCapacity \in Nat
  BY DEF Capacities, IndexConstants
<1>2. \E c \in enough : \A d \in enough : c <= d
  BY <1>1, LeastElement
<1>3. GrownCapacity(required) \in enough
  BY <1>2 DEF GrownCapacity
<1>4. \A c \in enough : c \in Nat \ {0} /\ Fits(required, c)
  BY DEF Capacities, IndexConstants
<1> QED BY <1>3, <1>4

-----------------------------------------------------------------------------
(* The invariant. *)

\* The table, once there is one, holds exactly the objects of the registry
\* list, each to be found, in at most half of its slots.
IndexInv ==
  /\ IndexTypeOK
  /\ IF Capacity = 0 THEN allocations = << >>
     ELSE /\ TableOk(index, Range(allocations), Len(allocations))
          /\ Fits(Len(allocations), Capacity)

LEMMA HashIsNumber == IndexTypeOK => HashOk
BY IndexConstants DEF IndexTypeOK, HashOk, IndexConstants

\* A table that holds n objects is a sequence of slots.
LEMMA TableIsSequence ==
  ASSUME NEW table, IsTable(table)
  PROVE  table \in Seq(Object \cup {Null})
BY DEF IsTable

\* What a step has to establish when it changes list and table and not the hash.
LEMMA TablesKeepInv ==
  ASSUME IndexTypeOK, hash' = hash, outcome' = outcome, Len(index') # 0,
         allocations' \in Seq(Object), IsInjective(allocations'),
         TableOk(index', Range(allocations'), Len(allocations')),
         Fits(Len(allocations'), Len(index'))
  PROVE  IndexInv'
<1>1. IsTable(index')
  BY DEF TableOk
<1>2. index' \in Seq(Object \cup {Null})
  BY <1>1, TableIsSequence
<1>3. IndexTypeOK'
  BY <1>2 DEF IndexTypeOK
<1>4. TableOk(index, Range(allocations), Len(allocations))'
  BY DEF TableOk, IsTable, Filled, Findable, SlotAt, Home
<1> QED BY <1>3, <1>4 DEF IndexInv, Capacity

LEMMA InitIndexInv == IndexInit => IndexInv
<1> SUFFICES ASSUME IndexInit PROVE IndexInv
  OBVIOUS
<1>1. << >> \in Seq(Object) /\ << >> \in Seq(Object \cup {Null}) /\ Len(<< >>) = 0
  OBVIOUS
<1>2. IsInjective(<< >>)
  BY DEF IsInjective
<1> QED BY <1>1, <1>2 DEF IndexInit, IndexInv, IndexTypeOK, Capacity

\* register_allocation keeps the invariant, whether or not the table grows.
LEMMA RegisterInv ==
  ASSUME IndexInv, NEW o \in Object, Register(o)
  PROVE  IndexInv'
<1> DEFINE n == Len(allocations)
           S == Range(allocations)
<1> USE IndexConstants
<1>1. /\ HashOk /\ Null \notin Object /\ o \notin S
      /\ allocations \in Seq(Object) /\ IsInjective(allocations)
      /\ n \in Nat /\ n + 1 \in Nat /\ S \subseteq Object /\ Capacity \in Nat
  <2>1. allocations \in Seq(Object) /\ index \in Seq(Object \cup {Null})
    BY DEF IndexInv, IndexTypeOK
  <2>2. S \subseteq Object
    BY <2>1 DEF Range
  <2>3. n \in Nat /\ n + 1 \in Nat /\ Capacity \in Nat
    BY <2>1 DEF Capacity
  <2> QED BY <2>1, <2>2, <2>3, HashIsNumber DEF IndexInv, IndexTypeOK, Register, IndexConstants
<1>2. /\ <<o>> \o allocations \in Seq(Object) /\ IsInjective(<<o>> \o allocations)
      /\ Len(<<o>> \o allocations) = n + 1
      /\ Range(<<o>> \o allocations) = S \cup {o}
  BY <1>1, LinkedOk
<1>3. ASSUME NEW table, TableOk(table, S, n), Fits(n + 1, Len(table)),
             index' = Insert(table, o), outcome' = outcome
      PROVE  IndexInv'
  <2>1. Len(table) \in Nat \ {0} /\ n < Len(table)
    BY <1>1, <1>3, FitsRoom DEF TableOk, IsTable
  <2>2. TableOk(index', S \cup {o}, n + 1) /\ Len(index') = Len(table)
    BY <1>1, <1>3, <2>1, InsertOk
  <2>3. allocations' = <<o>> \o allocations /\ hash' = hash
    BY <1>3 DEF Register
  <2> QED BY <1>2, <1>3, <2>1, <2>2, <2>3, TablesKeepInv DEF IndexInv
<1>4. CASE Fits(n + 1, Capacity)
  <2>1. Capacity # 0
    BY <1>1, <1>4 DEF Fits
  <2>2. TableOk(index, S, n)
    BY <2>1 DEF IndexInv
  <2>3. index' = Insert(index, o) /\ outcome' = outcome
    BY <1>4 DEF Register
  <2> QED BY <1>3, <1>4, <2>2, <2>3 DEF Capacity
<1>5. CASE ~Fits(n + 1, Capacity) /\ Capacities(n + 1) = {}
  <2>1. /\ allocations' = allocations /\ index' = index /\ hash' = hash
        /\ outcome' = "aborted"
    BY <1>5 DEF Register
  <2> QED BY <2>1 DEF IndexInv, IndexTypeOK, TableOk, IsTable, Filled, Findable, SlotAt, Home, Capacity
<1>6. CASE ~Fits(n + 1, Capacity) /\ Capacities(n + 1) # {}
  <2> DEFINE grown == GrownCapacity(n + 1)
             table == Rebuilt(grown, allocations)
  <2>1. grown \in Nat \ {0} /\ Fits(n + 1, grown)
    BY <1>1, <1>6, GrownOk
  <2>2. n < grown
    BY <1>1, <2>1, FitsRoom
  <2>3. TableOk(table, S, n) /\ Len(table) = grown
    BY <1>1, <2>1, <2>2, RebuiltOk
  <2>4. index' = Insert(table, o) /\ outcome' = outcome
    BY <1>6 DEF Register
  <2> HIDE DEF table
  <2> QED BY <1>3, <2>1, <2>3, <2>4
<1> QED BY <1>4, <1>5, <1>6

\* So does a sweep, whatever it frees.
LEMMA SweepInv ==
  ASSUME IndexInv, NEW freed, Sweep(freed)
  PROVE  IndexInv'
<1> DEFINE left == Unlinked(allocations, freed)
<1> USE IndexConstants
<1>1. /\ HashOk /\ Null \notin Object
      /\ allocations \in Seq(Object) /\ IsInjective(allocations)
      /\ index \in Seq(Object \cup {Null}) /\ Capacity \in Nat
      /\ allocations' = left /\ hash' = hash /\ outcome' = outcome
  <2>1. index \in Seq(Object \cup {Null})
    BY DEF IndexInv, IndexTypeOK
  <2>2. Capacity \in Nat
    BY <2>1 DEF Capacity
  <2> QED BY <2>1, <2>2, HashIsNumber DEF IndexInv, IndexTypeOK, Sweep, IndexConstants
<1>2. /\ left \in Seq(Object) /\ IsInjective(left)
      /\ Len(left) \in Nat /\ Len(allocations) \in Nat /\ Len(left) <= Len(allocations)
  BY <1>1, UnlinkedOk
<1> HIDE DEF left
<1>3. CASE Capacity = 0
  <2>1. allocations = << >> /\ index' = index
    BY <1>3 DEF IndexInv, Sweep
  <2>2. left = << >>
    BY <1>2, <2>1
  <2>3. allocations' = allocations
    BY <1>1, <2>1, <2>2
  <2> QED BY <1>1, <1>3, <2>1, <2>3 DEF IndexInv, IndexTypeOK, Capacity
<1>4. CASE Capacity # 0
  <2>1. Len(left) < Capacity /\ Fits(Len(left), Capacity)
    BY <1>1, <1>2, <1>4, FitsRoom DEF IndexInv, Fits
  <2>2. index' = Rebuilt(Capacity, left)
    BY <1>1, <1>4 DEF Sweep
  <2>3. TableOk(index', Range(left), Len(left)) /\ Len(index') = Capacity
    BY <1>1, <1>2, <1>4, <2>1, <2>2, RebuiltOk
  <2> QED BY <1>1, <1>2, <1>4, <2>1, <2>3, TablesKeepInv DEF IndexInv
<1> QED BY <1>3, <1>4

LEMMA NextIndexInv == IndexInv /\ [IndexNext]_indexVars => IndexInv'
<1> SUFFICES ASSUME IndexInv, [IndexNext]_indexVars PROVE IndexInv'
  OBVIOUS
<1>1. CASE UNCHANGED indexVars
  BY <1>1 DEF indexVars, IndexInv, IndexTypeOK, TableOk, IsTable, Filled, Findable, SlotAt, Home, Capacity
<1>2. CASE IndexNext
  BY <1>1, <1>2, RegisterInv, SweepInv DEF IndexNext
<1> QED BY <1>1, <1>2

-----------------------------------------------------------------------------
(* What follows from the invariant. *)

\* At all times the table, whatever grew, collided or was swept before, holds
\* exactly the registry list in at most half of its slots, every object within
\* reach of its probe (register_allocation, rebuild_allocation_index).
THEOREM IndexInvariant == IndexSpec => []IndexInv
<1> QED BY InitIndexInv, NextIndexInv, PTL DEF IndexSpec

\* No probe of find_allocation or insert_allocation_index goes round for ever,
\* for any hash and any number of objects: at least half of the slots are empty.
THEOREM ProbesAlwaysEnd == IndexSpec => []ProbesEnd
<1>1. IndexInv => ProbesEnd
  <2> SUFFICES ASSUME IndexInv, Capacity # 0
               PROVE  /\ 2 * Cardinality(Filled(index)) <= Capacity
                      /\ \A o \in Object : ProbeLength(index, o) # -1
    BY DEF ProbesEnd, Filled, Capacity
  <2>1. /\ TableOk(index, Range(allocations), Len(allocations)) /\ IsTable(index)
        /\ Fits(Len(allocations), Capacity) /\ HashOk
    BY HashIsNumber DEF IndexInv, TableOk
  <2>2. Capacity \in Nat /\ Len(allocations) \in Nat
    BY <2>1 DEF IndexInv, IndexTypeOK, Capacity, IsTable
  <2>3. 2 * Len(allocations) <= Capacity /\ Len(allocations) < Capacity
    BY <2>1, <2>2, FitsRoom
  <2>4. \E slot \in 1..Len(index) : index[slot] = Null
    BY <2>1, <2>3, EmptySlot DEF TableOk, Capacity
  <2>5. \A o \in Object : ProbeLength(index, o) \in 0..(Len(index) - 1)
    BY <2>1, <2>4, ProbeStops
  <2>6. \A o \in Object : ProbeLength(index, o) # -1
    BY <2>2, <2>5 DEF Capacity
  <2> QED BY <2>1, <2>3, <2>6 DEF TableOk
<1> QED BY <1>1, IndexInvariant, PTL

\* find_allocation answers for exactly the objects of the registry list.
LEMMA FindExact == IndexInv => {o \in Object : Find(o)} = Range(allocations)
<1> SUFFICES ASSUME IndexInv PROVE {o \in Object : Find(o)} = Range(allocations)
  OBVIOUS
<1>1. allocations \in Seq(Object) /\ Range(allocations) \subseteq Object /\ Null \notin Object
  <2>1. allocations \in Seq(Object)
    BY DEF IndexInv, IndexTypeOK
  <2> QED BY <2>1, IndexConstants DEF Range, IndexConstants
<1>2. CASE Capacity = 0
  <2>1. Range(allocations) = {}
    BY <1>2 DEF IndexInv, Range
  <2> QED BY <1>2, <2>1 DEF Find
<1>3. CASE Capacity # 0
  <2>1. /\ TableOk(index, Range(allocations), Len(allocations)) /\ IsTable(index)
        /\ Fits(Len(allocations), Capacity) /\ HashOk
    BY <1>3, HashIsNumber DEF IndexInv, TableOk
  <2>2. Len(index) \in Nat /\ Len(allocations) \in Nat
    BY <1>1, <2>1 DEF IsTable
  <2>3. Len(allocations) < Len(index)
    BY <1>3, <2>1, <2>2, FitsRoom DEF Capacity
  <2>4. \E slot \in 1..Len(index) : index[slot] = Null
    BY <2>1, <2>3, EmptySlot DEF TableOk
  <2>5. ASSUME NEW o \in Object
        PROVE  Find(o) <=> o \in Range(allocations)
    <3> DEFINE step == ProbeLength(index, o)
    <3>1. /\ step \in 0..(Len(index) - 1)
          /\ index[SlotAt(index, o, step)] \in {o, Null}
          /\ \A earlier \in 0..(step - 1) : index[SlotAt(index, o, earlier)] \notin {o, Null}
      BY <2>1, <2>4, ProbeStops
    <3>2. step \in Nat /\ step # -1
      BY <2>2, <3>1
    <3>3. Find(o) <=> index[SlotAt(index, o, step)] = o
      BY <1>3, <3>2 DEF Find
    <3>4. SlotAt(index, o, step) \in 1..Len(index)
      BY <2>1, <3>2, SlotInTable
    <3>5. ASSUME index[SlotAt(index, o, step)] = o PROVE o \in Range(allocations)
      BY <1>1, <2>1, <3>4, <3>5 DEF TableOk
    <3>6. ASSUME o \in Range(allocations) PROVE index[SlotAt(index, o, step)] = o
      <4>1. PICK k \in 0..(Len(index) - 1) :
              /\ index[SlotAt(index, o, k)] = o
              /\ \A earlier \in 0..(k - 1) : index[SlotAt(index, o, earlier)] \notin {o, Null}
        BY <2>1, <3>6 DEF TableOk, Findable
      <4>2. ~(k < step)
        <5> SUFFICES ASSUME k < step PROVE FALSE
          OBVIOUS
        <5>1. k \in 0..(step - 1)
          BY <2>2, <3>2, <4>1
        <5> QED BY <3>1, <4>1, <5>1
      <4>3. ~(step < k)
        <5> SUFFICES ASSUME step < k PROVE FALSE
          OBVIOUS
        <5>1. step \in 0..(k - 1)
          BY <2>2, <3>2, <4>1
        <5> QED BY <3>1, <4>1, <5>1
      <4>4. step = k
        <5> HIDE DEF step
        <5> QED BY <2>2, <3>2, <4>1, <4>2, <4>3
      <4> QED BY <4>1, <4>4
    <3> QED BY <3>3, <3>5, <3>6
  <2> QED BY <1>1, <2>5
<1> QED BY <1>2, <1>3

\* The table behaves as a set with an exact lookup: registration adds one
\* object to what find_allocation answers for, a sweep removes what it freed,
\* and nothing else ever changes an answer.
THEOREM IndexImplementsRegistry == IndexSpec => ImplementsRegistry
<1>1. IndexInit => Registry!RegistryInit
  <2> SUFFICES ASSUME IndexInit PROVE Registry!RegistryInit
    OBVIOUS
  <2>1. IndexInv
    BY InitIndexInv
  <2>2. Range(allocations) = {}
    BY DEF IndexInit, Range
  <2> QED BY <2>1, <2>2, FindExact DEF Registry!RegistryInit
<1>2. (IndexInv => {o \in Object : Find(o)} = Range(allocations))'
  BY FindExact, PTL
<1>3. IndexInv /\ IndexInv' /\ [IndexNext]_indexVars => [Registry!RegistryNext]_(Registry!registryVars)
  <2> SUFFICES ASSUME IndexInv, IndexInv', [IndexNext]_indexVars
               PROVE  [Registry!RegistryNext]_(Registry!registryVars)
    OBVIOUS
  <2> DEFINE S == Range(allocations)
             F == {o \in Object : Find(o)}
  <2>1. F = S /\ F' = S'
    BY <1>2, FindExact
  <2> HIDE DEF F
  <2>2. allocations \in Seq(Object) /\ IsInjective(allocations)
    BY DEF IndexInv, IndexTypeOK
  <2>3. ASSUME S' = S
        PROVE  [Registry!RegistryNext]_(Registry!registryVars)
    <3>1. UNCHANGED Registry!registryVars
      BY <2>1, <2>3 DEF Registry!registryVars, F
    <3> QED BY <3>1
  <2>4. ASSUME NEW o \in Object, Register(o)
        PROVE  [Registry!RegistryNext]_(Registry!registryVars)
    <3>1. CASE allocations' = allocations
      BY <2>3, <3>1
    <3>2. CASE allocations' = <<o>> \o allocations
      <4>1. o \notin S
        BY <2>4 DEF Register
      <4>2. S' = S \cup {o}
        BY <2>2, <3>2, <4>1, LinkedOk
      <4>3. Registry!Add(o)
        BY <2>1, <4>1, <4>2 DEF Registry!Add, F
      <4> QED BY <4>3 DEF Registry!RegistryNext
    <3> QED BY <2>4, <3>1, <3>2 DEF Register
  <2>5. ASSUME NEW freed \in SUBSET S, Sweep(freed)
        PROVE  [Registry!RegistryNext]_(Registry!registryVars)
    <3>1. S' = S \ freed
      BY <2>2, <2>5, UnlinkedOk DEF Sweep
    <3>2. Registry!Remove(freed)
      BY <2>1, <2>5, <3>1 DEF Registry!Remove, F
    <3> QED BY <2>5, <3>2 DEF Registry!RegistryNext
  <2>6. ASSUME UNCHANGED indexVars
        PROVE  [Registry!RegistryNext]_(Registry!registryVars)
    BY <2>3, <2>6 DEF indexVars
  <2> QED BY <2>4, <2>5, <2>6 DEF IndexNext
<1> QED BY <1>1, <1>3, IndexInvariant, PTL DEF IndexSpec, ImplementsRegistry, Registry!RegistrySpec
=============================================================================
