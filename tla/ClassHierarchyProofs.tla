------------------------ MODULE ClassHierarchyProofs ------------------------
(***************************************************************************)
(* Proofs about ClassHierarchy, for every well-formed program: chains of   *)
(* bases end, closures of interfaces are closed, and the tables of an      *)
(* accepted program have in every slot the override nearest to the class.  *)
(***************************************************************************)
EXTENDS ClassHierarchy, FiniteSetTheorems, WellFoundedInduction, TLAPS

-----------------------------------------------------------------------------
(* Numbers and loops. *)

\* A set of numbers that is not empty has a least element.
LEMMA LeastNumber ==
  ASSUME NEW S \in SUBSET Nat, S # {}
  PROVE  \E least \in S : \A other \in S : least <= other
<1>1. PICK n \in S : TRUE
  OBVIOUS
<1> DEFINE R == StrictSubsetOrdering(0..n)
           T == {0..k : k \in S \cap 0..n}
<1>2. IsFiniteSet(0..n) /\ n \in Nat
  BY FS_Interval
<1>3. FiniteSubsetsOf(0..n) = SUBSET (0..n)
  BY <1>2, FS_FiniteSubsetsOfFinite
<1>4. IsWellFoundedOn(R, SUBSET (0..n))
  BY <1>2, <1>3, FS_StrictSubsetOrderingWellFounded
<1>5. T \in SUBSET (SUBSET (0..n)) /\ T # {}
  <2>1. \A k \in S \cap 0..n : 0..k \subseteq 0..n
    OBVIOUS
  <2>2. 0..n \in T
    BY <1>2
  <2> QED BY <2>1, <2>2
<1>6. \E x \in T : \A y \in T : <<y, x>> \notin R
  <2> HIDE DEF R, T
  <2> QED BY <1>4, <1>5, WFMin
<1>7. PICK least \in S \cap 0..n : \A k \in S \cap 0..n : <<0..k, 0..least>> \notin R
  BY <1>6
<1>8. \A k \in S \cap 0..n : least <= k
  <2> SUFFICES ASSUME NEW k \in S \cap 0..n, ~(least <= k)
               PROVE  FALSE
    OBVIOUS
  <2>1. 0..k \subseteq 0..least /\ 0..k \subseteq 0..n /\ 0..least \subseteq 0..n
    OBVIOUS
  <2>2. least \in 0..least /\ least \notin 0..k
    OBVIOUS
  <2>3. <<0..k, 0..least>> \in R
    BY <2>1, <2>2 DEF StrictSubsetOrdering
  <2> QED BY <2>3, <1>7
<1> QED BY <1>2, <1>7, <1>8

\* A claim that holds at 0 and passes from k to k + 1 has no exception.
LEMMA NoException ==
  ASSUME NEW S \in SUBSET Nat, 0 \notin S, \A k \in Nat : k + 1 \in S => k \in S
  PROVE  S = {}
<1> SUFFICES ASSUME S # {} PROVE FALSE
  OBVIOUS
<1>1. PICK least \in S : \A other \in S : least <= other
  BY LeastNumber
<1> QED BY <1>1

\* The values f of a loop that starts with a and whose round k is step[<<k, _>>].
LoopOf(f, V, a, step) ==
  f \in [Nat -> V] /\ f[0] = a /\ \A k \in Nat : f[k + 1] = step[<<k + 1, f[k]>>]

\* A loop whose rounds stay within V has values for every round.
LEMMA LoopExists ==
  ASSUME NEW V, NEW a \in V, NEW step \in [Nat \X V -> V]
  PROVE  \E f : LoopOf(f, V, a, step)
<1> DEFINE Fine(f, n) == /\ f \in [0..n -> V] /\ f[0] = a
                         /\ \A k \in 0..n : k # n => f[k + 1] = step[<<k + 1, f[k]>>]
           S == {m \in Nat : ~\E f : Fine(f, m)}
<1>1. 0 \notin S
  <2>1. Fine([k \in 0..0 |-> a], 0)
    OBVIOUS
  <2> HIDE DEF Fine
  <2> QED BY <2>1
<1>2. ASSUME NEW m \in Nat, m \notin S PROVE m + 1 \notin S
  <2>1. PICK g : Fine(g, m)
    BY <1>2
  <2> DEFINE f == [k \in 0..(m + 1) |-> IF k = m + 1 THEN step[<<m + 1, g[m]>>] ELSE g[k]]
  <2>2. g \in [0..m -> V] /\ g[0] = a /\ \A k \in 0..m : k # m => g[k + 1] = step[<<k + 1, g[k]>>]
    BY <2>1
  <2>3. \A k \in 0..m : f[k] = g[k] /\ g[k] \in V
    BY <2>2
  <2>4. f[m + 1] = step[<<m + 1, g[m]>>] /\ f[m + 1] \in V
    <3>1. m + 1 \in Nat /\ g[m] \in V
      <4>1. m \in 0..m /\ g \in [0..m -> V]
        BY <2>2
      <4> HIDE DEF f
      <4> QED BY <4>1
    <3>2. <<m + 1, g[m]>> \in Nat \X V
      BY <3>1
    <3>3. f[m + 1] = step[<<m + 1, g[m]>>]
      OBVIOUS
    <3> HIDE DEF f
    <3> QED BY <3>2, <3>3
  <2>5. f \in [0..(m + 1) -> V]
    <3>1. \A k \in 0..(m + 1) : k = m + 1 \/ k \in 0..m
      OBVIOUS
    <3>2. \A k \in 0..(m + 1) : f[k] \in V
      <4> HIDE DEF f
      <4> QED BY <2>3, <2>4, <3>1
    <3> QED BY <3>2
  <2>6. \A k \in 0..(m + 1) : k # m + 1 => f[k + 1] = step[<<k + 1, f[k]>>]
    <3>1. ASSUME NEW k \in 0..m PROVE f[k + 1] = step[<<k + 1, f[k]>>]
      <4>1. CASE k = m
        <5> HIDE DEF f
        <5> QED BY <2>3, <2>4, <4>1
      <4>2. CASE k # m
        <5>1. k + 1 \in 0..m
          BY <4>2
        <5> HIDE DEF f
        <5> QED BY <2>2, <2>3, <4>2, <5>1
      <4> QED BY <4>1, <4>2
    <3>2. \A k \in 0..(m + 1) : k # m + 1 => k \in 0..m
      OBVIOUS
    <3> HIDE DEF f
    <3> QED BY <3>1, <3>2
  <2>7. f[0] = a
    BY <2>2
  <2>8. Fine(f, m + 1)
    <3> HIDE DEF f
    <3> QED BY <2>5, <2>6, <2>7
  <2> HIDE DEF Fine, f
  <2> QED BY <2>8
<1>3. S = {}
  <2>1. S \in SUBSET Nat
    OBVIOUS
  <2> HIDE DEF S
  <2> QED BY <1>1, <1>2, <2>1, NoException
<1> DEFINE upTo(n) == CHOOSE f : Fine(f, n)
<1>4. \A n \in Nat : Fine(upTo(n), n)
  <2> HIDE DEF Fine
  <2> QED BY <1>3
<1>5. ASSUME NEW m \in Nat, NEW n \in Nat, NEW f, NEW g, Fine(f, m), Fine(g, n)
      PROVE  \A k \in Nat : k <= m /\ k <= n => f[k] = g[k]
  <2> DEFINE D == {k \in Nat : k <= m /\ k <= n /\ f[k] # g[k]}
  <2>1. 0 \notin D
    BY <1>5
  <2>2. ASSUME NEW k \in Nat, k + 1 \in D PROVE k \in D
    <3> SUFFICES ASSUME k \notin D PROVE FALSE
      OBVIOUS
    <3>1. k \in 0..m /\ k \in 0..n /\ k # m /\ k # n /\ f[k] = g[k] /\ f[k + 1] # g[k + 1]
      BY <2>2
    <3>2. f[k + 1] = step[<<k + 1, f[k]>>] /\ g[k + 1] = step[<<k + 1, g[k]>>]
      BY <1>5, <3>1
    <3> QED BY <3>1, <3>2
  <2>3. D = {}
    <3>1. D \in SUBSET Nat
      OBVIOUS
    <3> HIDE DEF D
    <3> QED BY <2>1, <2>2, <3>1, NoException
  <2> QED BY <2>3
<1> DEFINE h == [k \in Nat |-> upTo(k)[k]]
<1>6. h \in [Nat -> V] /\ h[0] = a
  <2>1. \A k \in Nat : upTo(k)[k] \in V
    <3> SUFFICES ASSUME NEW k \in Nat PROVE upTo(k)[k] \in V
      OBVIOUS
    <3> HIDE DEF upTo
    <3>1. upTo(k) \in [0..k -> V] /\ k \in 0..k
      BY <1>4
    <3> QED BY <3>1
  <2>2. upTo(0)[0] = a
    BY <1>4
  <2> HIDE DEF upTo
  <2> QED BY <2>1, <2>2
<1>7. \A k \in Nat : h[k + 1] = step[<<k + 1, h[k]>>]
  <2> SUFFICES ASSUME NEW k \in Nat PROVE h[k + 1] = step[<<k + 1, h[k]>>]
    OBVIOUS
  <2> HIDE DEF upTo
  <2>0. k + 1 \in Nat /\ k <= k + 1
    OBVIOUS
  <2>1. Fine(upTo(k + 1), k + 1) /\ Fine(upTo(k), k) /\ k + 1 \in Nat /\ k <= k + 1
    <3> HIDE DEF Fine
    <3> QED BY <1>4, <2>0
  <2>2. upTo(k + 1)[k + 1] = step[<<k + 1, upTo(k + 1)[k]>>]
    BY <2>1
  <2>3. upTo(k + 1)[k] = upTo(k)[k]
    <3> HIDE DEF Fine
    <3> QED BY <1>5, <2>1
  <2> QED BY <2>1, <2>2, <2>3
<1> HIDE DEF h
<1> QED BY <1>6, <1>7 DEF LoopOf

\* Sets that only grow within a finite one stop growing within as many rounds
\* as it has elements.
LEMMA GrowthEnds ==
  ASSUME NEW I, IsFiniteSet(I), NEW C, \A k \in Nat : C[k] \subseteq I /\ C[k] \subseteq C[k + 1]
  PROVE  \E k \in 0..Cardinality(I) : C[k] = C[k + 1]
<1> SUFFICES ASSUME \A k \in 0..Cardinality(I) : C[k] # C[k + 1] PROVE FALSE
  OBVIOUS
<1> DEFINE n == Cardinality(I)
           Large(k) == IsFiniteSet(C[k]) /\ Cardinality(C[k]) \in Nat /\ k <= Cardinality(C[k])
           S == {k \in Nat : k <= n + 1 /\ ~Large(k)}
<1>1. n \in Nat
  BY FS_CardinalityType
<1> HIDE DEF n
<1>2. \A k \in Nat : IsFiniteSet(C[k]) /\ Cardinality(C[k]) \in Nat /\ Cardinality(C[k]) <= n
  BY FS_Subset, FS_CardinalityType DEF n
<1>3. 0 \notin S
  BY <1>2
<1>4. ASSUME NEW k \in Nat, k + 1 \in S PROVE k \in S
  <2> SUFFICES ASSUME Large(k) PROVE Large(k + 1)
    <3>1. k <= n + 1
      BY <1>1, <1>4
    <3> HIDE DEF Large
    <3> QED BY <1>4, <3>1
  <2>1. k + 1 <= n + 1 /\ C[k] # C[k + 1]
    BY <1>1, <1>4 DEF n
  <2>2. Cardinality(C[k]) <= Cardinality(C[k + 1]) /\ Cardinality(C[k]) # Cardinality(C[k + 1])
    <3>1. IsFiniteSet(C[k + 1]) /\ C[k] \in SUBSET C[k + 1]
      BY <1>2
    <3> QED BY <2>1, <3>1, FS_Subset
  <2>3. Cardinality(C[k + 1]) \in Nat /\ Cardinality(C[k]) \in Nat /\ IsFiniteSet(C[k + 1])
    BY <1>2
  <2> QED BY <2>2, <2>3
<1>5. S = {}
  <2>1. S \in SUBSET Nat
    OBVIOUS
  <2> HIDE DEF S
  <2> QED BY <1>3, <1>4, <2>1, NoException
<1>6. n + 1 \in Nat /\ n + 1 <= n + 1
  BY <1>1
<1>7. Large(n + 1)
  <2> HIDE DEF Large
  <2> QED BY <1>5, <1>6
<1> QED BY <1>1, <1>2, <1>6, <1>7

-----------------------------------------------------------------------------
(* Chains. *)

\* The first n steps of a chain.
ChainSteps(next, i, f, n) ==
  f = [k \in 0..n |-> IF k = 0 THEN i
                      ELSE IF f[k - 1] = 0 THEN 0 ELSE next[f[k - 1]]]

\* A chain can be followed as far as asked.
LEMMA ChainStepsExist ==
  ASSUME NEW next, NEW i, NEW n \in Nat
  PROVE  \E f : ChainSteps(next, i, f, n)
<1> DEFINE S == {m \in Nat : ~\E f : ChainSteps(next, i, f, m)}
<1>1. 0 \notin S
  <2>1. ChainSteps(next, i, [k \in 0..0 |-> i], 0)
    BY DEF ChainSteps
  <2> QED BY <2>1
<1>2. ASSUME NEW m \in Nat, m \notin S
      PROVE  m + 1 \notin S
  <2>1. PICK g : ChainSteps(next, i, g, m)
    BY <1>2
  <2> DEFINE f == [k \in 0..(m + 1) |->
                     IF k = m + 1 THEN IF g[m] = 0 THEN 0 ELSE next[g[m]] ELSE g[k]]
  <2>2. \A k \in 0..m : g[k] = IF k = 0 THEN i ELSE IF g[k - 1] = 0 THEN 0 ELSE next[g[k - 1]]
    BY <2>1 DEF ChainSteps
  <2>3. \A k \in 0..(m + 1) :
          f[k] = IF k = 0 THEN i ELSE IF f[k - 1] = 0 THEN 0 ELSE next[f[k - 1]]
    <3>1. f[m + 1] = IF f[m] = 0 THEN 0 ELSE next[f[m]]
      OBVIOUS
    <3>2. \A k \in 0..m : f[k] = g[k] /\ (k # 0 => f[k - 1] = g[k - 1])
      OBVIOUS
    <3> QED BY <2>2, <3>1, <3>2
  <2>4. ChainSteps(next, i, f, m + 1)
    BY <2>3 DEF ChainSteps
  <2> QED BY <2>4
<1>3. S = {}
  <2> HIDE DEF S
  <2>1. S \in SUBSET Nat
    BY DEF S
  <2> QED BY <1>1, <1>2, <2>1, NoException
<1> QED BY <1>3

\* Two such chains agree as far as both go.
LEMMA ChainStepsAgree ==
  ASSUME NEW next, NEW i, NEW m \in Nat, NEW n \in Nat, NEW f, NEW g,
         ChainSteps(next, i, f, m), ChainSteps(next, i, g, n)
  PROVE  \A k \in Nat : k <= m /\ k <= n => f[k] = g[k]
<1> DEFINE S == {k \in Nat : k <= m /\ k <= n /\ f[k] # g[k]}
<1>1. 0 \notin S
  BY DEF ChainSteps
<1>2. \A k \in Nat : k + 1 \in S => k \in S
  <2> SUFFICES ASSUME NEW k \in Nat, k + 1 \in S, k \notin S PROVE FALSE
    OBVIOUS
  <2>1. k + 1 \in 0..m /\ k + 1 \in 0..n /\ k + 1 # 0 /\ (k + 1) - 1 = k /\ f[k] = g[k]
    OBVIOUS
  <2>2. f[k + 1] = IF f[k] = 0 THEN 0 ELSE next[f[k]]
    BY <2>1 DEF ChainSteps
  <2>3. g[k + 1] = IF g[k] = 0 THEN 0 ELSE next[g[k]]
    BY <2>1 DEF ChainSteps
  <2> QED BY <2>1, <2>2, <2>3
<1>3. S = {}
  <2>1. S \in SUBSET Nat
    OBVIOUS
  <2> HIDE DEF S
  <2> QED BY <1>1, <1>2, <2>1, NoException
<1> QED BY <1>3

\* A chain starts with the file and goes on with the step.
LEMMA ChainValues ==
  ASSUME NEW next, NEW i
  PROVE  /\ Chain(next, i)[0] = i
         /\ \A k \in Nat : Chain(next, i)[k + 1] =
              IF Chain(next, i)[k] = 0 THEN 0 ELSE next[Chain(next, i)[k]]
<1> DEFINE upTo(n) == CHOOSE f : ChainSteps(next, i, f, n)
           h == [k \in Nat |-> upTo(k)[k]]
           Infinite(f) == f = [k \in Nat |-> IF k = 0 THEN i
                                 ELSE IF f[k - 1] = 0 THEN 0 ELSE next[f[k - 1]]]
<1>1. \A n \in Nat : ChainSteps(next, i, upTo(n), n)
  BY ChainStepsExist
<1> HIDE DEF upTo
<1>2. \A k \in Nat : h[k] = IF k = 0 THEN i
                            ELSE IF h[k - 1] = 0 THEN 0 ELSE next[h[k - 1]]
  <2> SUFFICES ASSUME NEW k \in Nat
               PROVE  h[k] = IF k = 0 THEN i
                             ELSE IF h[k - 1] = 0 THEN 0 ELSE next[h[k - 1]]
    OBVIOUS
  <2>1. upTo(k)[k] = IF k = 0 THEN i ELSE IF upTo(k)[k - 1] = 0 THEN 0
                                          ELSE next[upTo(k)[k - 1]]
    BY <1>1 DEF ChainSteps
  <2>2. k # 0 => upTo(k)[k - 1] = upTo(k - 1)[k - 1]
    <3> SUFFICES ASSUME k # 0 PROVE upTo(k)[k - 1] = upTo(k - 1)[k - 1]
      OBVIOUS
    <3>1. k - 1 \in Nat /\ k - 1 <= k
      OBVIOUS
    <3> QED BY <1>1, <3>1, ChainStepsAgree
  <2> QED BY <2>1, <2>2
<1>3. Infinite(h)
  BY <1>2
<1>4. Chain(next, i) = CHOOSE f : Infinite(f)
  BY DEF Chain
<1>5. Infinite(Chain(next, i))
  <2> HIDE DEF h, Infinite
  <2> QED BY <1>3, <1>4
<1> QED BY <1>5

\* A table of links between n files: every file has a next one or none.
LinkTable(next) ==
  /\ Len(next) \in Nat
  /\ next \in [1..Len(next) -> 0..Len(next)]

\* A chain of links names files, and 0 once it has ended.
LEMMA ChainInRange ==
  ASSUME NEW next, LinkTable(next), NEW i \in 0..Len(next)
  PROVE  \A k \in Nat : Chain(next, i)[k] \in 0..Len(next)
<1> DEFINE c == Chain(next, i)
           S == {k \in Nat : c[k] \notin 0..Len(next)}
<1>1. c[0] = i /\ \A k \in Nat : c[k + 1] = IF c[k] = 0 THEN 0 ELSE next[c[k]]
  BY ChainValues
<1> HIDE DEF c
<1>2. 0 \notin S
  BY <1>1
<1>3. ASSUME NEW k \in Nat, k + 1 \in S PROVE k \in S
  <2> SUFFICES ASSUME c[k] \in 0..Len(next) PROVE FALSE
    OBVIOUS
  <2>1. c[k + 1] \notin 0..Len(next)
    BY <1>3
  <2>2. CASE c[k] = 0
    BY <1>1, <2>1, <2>2 DEF LinkTable
  <2>3. CASE c[k] # 0
    <3>1. c[k] \in 1..Len(next)
      BY <2>3 DEF LinkTable
    <3>2. c[k + 1] = next[c[k]]
      BY <1>1, <2>3
    <3> QED BY <2>1, <3>1, <3>2 DEF LinkTable
  <2> QED BY <2>2, <2>3
<1>4. S = {}
  <2>1. S \in SUBSET Nat
    OBVIOUS
  <2> HIDE DEF S
  <2> QED BY <1>2, <1>3, <2>1, NoException
<1> QED BY <1>4 DEF c

\* Going j steps and then k more.
LEMMA ChainShift ==
  ASSUME NEW next, NEW i, NEW j \in Nat
  PROVE  \A k \in Nat : Chain(next, i)[j + k] = Chain(next, Chain(next, i)[j])[k]
<1> DEFINE c == Chain(next, i)
           d == Chain(next, c[j])
           S == {k \in Nat : c[j + k] # d[k]}
<1>1. /\ \A k \in Nat : c[k + 1] = IF c[k] = 0 THEN 0 ELSE next[c[k]]
      /\ d[0] = c[j] /\ \A k \in Nat : d[k + 1] = IF d[k] = 0 THEN 0 ELSE next[d[k]]
  BY ChainValues
<1> HIDE DEF c, d
<1>2. 0 \notin S
  BY <1>1
<1>3. ASSUME NEW k \in Nat, k + 1 \in S PROVE k \in S
  <2>1. c[j + (k + 1)] = IF c[j + k] = 0 THEN 0 ELSE next[c[j + k]]
    <3>1. j + k \in Nat /\ j + (k + 1) = (j + k) + 1
      OBVIOUS
    <3> QED BY <1>1, <3>1
  <2> QED BY <1>1, <1>3, <2>1
<1>4. S = {}
  <2>1. S \in SUBSET Nat
    OBVIOUS
  <2> HIDE DEF S
  <2> QED BY <1>2, <1>3, <2>1, NoException
<1> QED BY <1>4 DEF c, d

\* Past its end a chain stays at 0.
LEMMA ChainStaysEnded ==
  ASSUME NEW next, NEW i, NEW j \in Nat, Chain(next, i)[j] = 0
  PROVE  \A k \in Nat : Chain(next, i)[j + k] = 0
<1> DEFINE S == {k \in Nat : Chain(next, i)[j + k] # 0}
<1>1. 0 \notin S
  OBVIOUS
<1>2. ASSUME NEW k \in Nat, k + 1 \in S PROVE k \in S
  <2>1. j + k \in Nat /\ j + (k + 1) = (j + k) + 1
    OBVIOUS
  <2>2. Chain(next, i)[j + k] = 0 => Chain(next, i)[j + (k + 1)] = 0
    BY <2>1, ChainValues
  <2> QED BY <1>2, <2>2
<1>3. S = {}
  <2>1. S \in SUBSET Nat
    OBVIOUS
  <2> HIDE DEF S
  <2> QED BY <1>1, <1>2, <2>1, NoException
<1> QED BY <1>3

\* No set of files is closed under the links: every way up ends.
Grounded(next) ==
  \A Closed \in SUBSET (1..Len(next)) : (\A b \in Closed : next[b] \in Closed) => Closed = {}

\* A chain that has not ended after as many steps as there are files has met
\* a file twice.
LEMMA ChainRepeats ==
  ASSUME NEW next, LinkTable(next), NEW i \in 1..Len(next),
         Chain(next, i)[Len(next)] # 0
  PROVE  \E j \in Nat, k \in Nat : /\ j < k /\ k <= Len(next)
                                   /\ Chain(next, i)[j] = Chain(next, i)[k]
                                   /\ \A x \in 0..k : Chain(next, i)[x] \in 1..Len(next)
<1> DEFINE c == Chain(next, i)
           n == Len(next)
           f == [x \in 0..n |-> c[x]]
<1>1. n \in Nat
  BY DEF LinkTable
<1>2. \A x \in 0..n : c[x] \in 1..n
  <2> SUFFICES ASSUME NEW x \in 0..n PROVE c[x] \in 1..n
    OBVIOUS
  <2>1. c[x] \in 0..n
    BY <1>1, ChainInRange
  <2>2. c[x] # 0
    <3> SUFFICES ASSUME c[x] = 0 PROVE FALSE
      OBVIOUS
    <3>1. x \in Nat /\ n - x \in Nat /\ x + (n - x) = n
      BY <1>1
    <3>2. c[x + (n - x)] = 0
      BY <3>1, ChainStaysEnded
    <3> QED BY <3>1, <3>2
  <2> QED BY <1>1, <2>1, <2>2
<1>3. f \in [0..n -> 1..n]
  BY <1>2
<1>4. /\ IsFiniteSet(0..n) /\ Cardinality(0..n) = n + 1
      /\ IsFiniteSet(1..n) /\ Cardinality(1..n) = n
  <2>1. IsFiniteSet(0..n) /\ Cardinality(0..n) = n - 0 + 1
    BY <1>1, FS_Interval
  <2>2. IsFiniteSet(1..n) /\ Cardinality(1..n) = IF 1 > n THEN 0 ELSE n - 1 + 1
    <3>1. n \in Int /\ 1 \in Int
      BY <1>1
    <3> HIDE DEF n
    <3> QED BY <3>1, FS_Interval
  <2> HIDE DEF n
  <2> QED BY <1>1, <2>1, <2>2
<1>5. PICK x, y \in 0..n : x # y /\ f[x] = f[y]
  <2> HIDE DEF f, n
  <2>1. Cardinality(1..n) < Cardinality(0..n)
    BY <1>1, <1>4
  <2> QED BY <1>3, <1>4, <2>1, FS_PigeonHole
<1>6. c[x] = c[y] /\ x \in Nat /\ y \in Nat /\ x <= n /\ y <= n
  BY <1>1, <1>5
<1> HIDE DEF f, c, n
<1>7. \A k \in 0..n : \A z \in 0..k : c[z] \in 1..n
  BY <1>1, <1>2
<1>8. CASE x < y
  BY <1>1, <1>5, <1>6, <1>7, <1>8 DEF c, n
<1>9. CASE y < x
  BY <1>1, <1>5, <1>6, <1>7, <1>9 DEF c, n
<1> QED BY <1>5, <1>6, <1>8, <1>9

\* The files between the two meetings are closed under the links.
LEMMA GroundedEnds ==
  ASSUME NEW next, LinkTable(next), Grounded(next), NEW i \in 1..Len(next)
  PROVE  Chain(next, i)[Len(next)] = 0
<1> SUFFICES ASSUME Chain(next, i)[Len(next)] # 0 PROVE FALSE
  OBVIOUS
<1> DEFINE c == Chain(next, i)
<1>1. PICK j \in Nat, k \in Nat : /\ j < k /\ k <= Len(next) /\ c[j] = c[k]
                                  /\ \A x \in 0..k : c[x] \in 1..Len(next)
  BY ChainRepeats
<1> DEFINE C == {c[x] : x \in j..(k - 1)}
<1>2. \A x \in Nat : c[x + 1] = IF c[x] = 0 THEN 0 ELSE next[c[x]]
  BY ChainValues
<1> HIDE DEF c
<1>3. C \in SUBSET (1..Len(next)) /\ c[j] \in C
  BY <1>1
<1>4. \A b \in C : next[b] \in C
  <2> SUFFICES ASSUME NEW x \in j..(k - 1) PROVE next[c[x]] \in C
    OBVIOUS
  <2>1. c[x] \in 1..Len(next) /\ x \in Nat /\ Len(next) \in Nat
    BY <1>1 DEF LinkTable
  <2>2. c[x + 1] = next[c[x]]
    <3>1. c[x] # 0
      BY <2>1
    <3> QED BY <1>2, <2>1, <3>1
  <2>3. CASE x + 1 = k
    BY SMTT(40), <1>1, <2>2, <2>3
  <2>4. CASE x + 1 # k
    <3>1. x + 1 \in j..(k - 1)
      BY <2>4
    <3> QED BY <2>2, <3>1
  <2> QED BY <2>3, <2>4
<1> QED
  <2> HIDE DEF C
  <2> QED BY <1>3, <1>4 DEF Grounded

\* If no file is its own ancestor, every way up ends.
LEMMA AcyclicGrounded ==
  ASSUME NEW next, LinkTable(next), \A i \in 1..Len(next) : i \notin Ancestors(next, i)
  PROVE  Grounded(next)
<1> SUFFICES ASSUME NEW C \in SUBSET (1..Len(next)), \A b \in C : next[b] \in C, C # {}
             PROVE  FALSE
  BY DEF Grounded
<1>1. PICK i \in C : TRUE
  OBVIOUS
<1> DEFINE c == Chain(next, i)
           S == {k \in Nat : c[k] \notin C}
<1>2. c[0] = i /\ \A k \in Nat : c[k + 1] = IF c[k] = 0 THEN 0 ELSE next[c[k]]
  BY ChainValues
<1> HIDE DEF c
<1>3. S = {}
  <2>1. 0 \notin S
    BY <1>2
  <2>2. ASSUME NEW k \in Nat, k + 1 \in S PROVE k \in S
    <3> SUFFICES ASSUME c[k] \in C PROVE FALSE
      OBVIOUS
    <3>1. c[k] # 0
      OBVIOUS
    <3> QED BY <1>2, <2>2, <3>1
  <2>3. S \in SUBSET Nat
    OBVIOUS
  <2> HIDE DEF S
  <2> QED BY <2>1, <2>2, <2>3, NoException
<1>4. Len(next) \in Nat /\ c[Len(next)] # 0
  BY <1>3 DEF LinkTable
<1>5. PICK j \in Nat, k \in Nat : /\ j < k /\ k <= Len(next) /\ c[j] = c[k]
                                  /\ \A x \in 0..k : c[x] \in 1..Len(next)
  BY <1>4, ChainRepeats DEF c
<1>6. Chain(next, c[j])[k - j] = c[j]
  <2>1. k - j \in Nat /\ j + (k - j) = k
    BY <1>5
  <2>2. c[j + (k - j)] = Chain(next, c[j])[k - j]
    BY <2>1, ChainShift DEF c
  <2> QED BY <1>5, <2>1, <2>2
<1>7. k - j \in 1..Len(next) /\ c[j] \in 1..Len(next)
  BY <1>4, <1>5
<1>8. c[j] \in Ancestors(next, c[j])
  BY <1>6, <1>7 DEF Ancestors
<1> QED BY <1>7, <1>8

\* What lies above a file are files.
LEMMA AncestorsAreFiles ==
  ASSUME NEW next, LinkTable(next), NEW i \in 1..Len(next)
  PROVE  Ancestors(next, i) \subseteq 1..Len(next)
<1>1. \A k \in 1..Len(next) : Chain(next, i)[k] \in 0..Len(next)
  BY ChainInRange DEF LinkTable
<1> QED BY <1>1 DEF Ancestors, LinkTable

\* The ancestors of a file are its next one and the ancestors of that one.
LEMMA AncestorsStep ==
  ASSUME NEW next, LinkTable(next), Grounded(next), NEW i \in 1..Len(next)
  PROVE  Ancestors(next, i) =
           IF next[i] = 0 THEN {} ELSE {next[i]} \cup Ancestors(next, next[i])
<1> DEFINE c == Chain(next, i)
           d == Chain(next, next[i])
           last == Len(next)
<1>1. last \in Nat /\ next[i] \in 0..last /\ i # 0
  BY DEF LinkTable
<1>2. c[0] = i /\ \A k \in Nat : c[k + 1] = IF c[k] = 0 THEN 0 ELSE next[c[k]]
  BY ChainValues
<1>3. c[1] = next[i]
  <2>1. 0 \in Nat /\ 0 + 1 = 1
    OBVIOUS
  <2> HIDE DEF c
  <2> QED BY <1>1, <1>2, <2>1
<1>4. \A k \in Nat : c[1 + k] = d[k]
  <2>1. 1 \in Nat /\ \A k \in Nat : c[1 + k] = Chain(next, c[1])[k]
    BY ChainShift
  <2> HIDE DEF c
  <2> QED BY <1>3, <2>1
<1>5. Ancestors(next, i) = {c[k] : k \in 1..last} \ {0}
  BY DEF Ancestors
<1>6. CASE next[i] = 0
  <2>1. \A k \in Nat : c[1 + k] = 0
    BY <1>3, <1>6, ChainStaysEnded
  <2>2. \A k \in 1..last : c[k] = 0
    <3> SUFFICES ASSUME NEW k \in 1..last PROVE c[k] = 0
      OBVIOUS
    <3>1. k - 1 \in Nat /\ 1 + (k - 1) = k
      BY <1>1
    <3> HIDE DEF c
    <3> QED BY <2>1, <3>1
  <2> HIDE DEF c
  <2> QED BY <1>5, <1>6, <2>2
<1>7. CASE next[i] # 0
  <2>1. d[last] = 0 /\ d[0] = next[i]
    <3>1. next[i] \in 1..Len(next)
      BY <1>1, <1>7
    <3> QED BY <3>1, GroundedEnds, ChainValues
  <2>2. Ancestors(next, next[i]) = {d[k] : k \in 1..last} \ {0}
    BY DEF Ancestors
  <2> HIDE DEF c, d
  <2>3. \A k \in 1..last : c[k] = next[i] \/ c[k] \in {d[m] : m \in 1..last}
    <3> SUFFICES ASSUME NEW k \in 1..last, k # 1 PROVE c[k] \in {d[m] : m \in 1..last}
      BY <1>3
    <3>1. k - 1 \in Nat /\ 1 + (k - 1) = k /\ k - 1 \in 1..last
      BY <1>1
    <3> QED BY <1>4, <3>1
  <2>4. \A k \in 1..last : d[k] = 0 \/ d[k] \in {c[m] : m \in 1..last}
    <3> SUFFICES ASSUME NEW k \in 1..last, k # last PROVE d[k] \in {c[m] : m \in 1..last}
      BY <2>1
    <3>1. k \in Nat /\ 1 + k \in 1..last
      BY <1>1
    <3> QED BY <1>4, <3>1
  <2>5. next[i] \in {c[m] : m \in 1..last}
    <3>1. 1 \in 1..last
      BY <1>1
    <3> QED BY <1>3, <3>1
  <2> QED BY <1>5, <1>7, <2>2, <2>3, <2>4, <2>5
<1> QED BY <1>6, <1>7

\* What lies above an ancestor lies above the file.
LEMMA AncestorsTransitive ==
  ASSUME NEW next, LinkTable(next), Grounded(next), NEW i \in 1..Len(next),
         NEW a \in Ancestors(next, i)
  PROVE  Ancestors(next, a) \subseteq Ancestors(next, i)
<1> DEFINE Bad == {j \in 1..Len(next) :
                     \E b \in Ancestors(next, j) : ~(Ancestors(next, b) \subseteq Ancestors(next, j))}
<1>1. ASSUME NEW j \in Bad PROVE next[j] \in Bad
  <2>1. PICK b \in Ancestors(next, j) : ~(Ancestors(next, b) \subseteq Ancestors(next, j))
    BY <1>1
  <2>2. Ancestors(next, j) =
          IF next[j] = 0 THEN {} ELSE {next[j]} \cup Ancestors(next, next[j])
    BY AncestorsStep
  <2>3. next[j] # 0 /\ next[j] \in 1..Len(next)
    BY <2>1, <2>2 DEF LinkTable
  <2> QED BY <2>1, <2>2, <2>3
<1>2. Bad = {}
  <2>1. Bad \in SUBSET (1..Len(next))
    OBVIOUS
  <2> HIDE DEF Bad
  <2> QED BY <1>1, <2>1 DEF Grounded
<1> QED BY <1>2

\* More links do not lose ancestors.
LEMMA AncestorsExtend ==
  ASSUME NEW next, NEW more, LinkTable(next), Grounded(next),
         LinkTable(more), Grounded(more), Len(more) = Len(next),
         \A b \in 1..Len(next) : next[b] # 0 => more[b] = next[b],
         NEW i \in 1..Len(next)
  PROVE  Ancestors(next, i) \subseteq Ancestors(more, i)
<1> DEFINE Bad == {j \in 1..Len(next) : ~(Ancestors(next, j) \subseteq Ancestors(more, j))}
<1>1. ASSUME NEW j \in Bad PROVE next[j] \in Bad
  <2>1. Ancestors(next, j) =
          IF next[j] = 0 THEN {} ELSE {next[j]} \cup Ancestors(next, next[j])
    BY AncestorsStep
  <2>2. Ancestors(more, j) =
          IF more[j] = 0 THEN {} ELSE {more[j]} \cup Ancestors(more, more[j])
    BY AncestorsStep
  <2>3. next[j] # 0 /\ next[j] \in 1..Len(next)
    BY <1>1, <2>1 DEF LinkTable
  <2> QED BY <1>1, <2>1, <2>2, <2>3
<1>2. Bad = {}
  <2>1. Bad \in SUBSET (1..Len(next))
    OBVIOUS
  <2> HIDE DEF Bad
  <2> QED BY <1>1, <2>1 DEF Grounded
<1> QED BY <1>2

-----------------------------------------------------------------------------
(* Sequences. *)

Distinct(s) == \A m, n \in DOMAIN s : s[m] = s[n] => m = n

\* joined[k] is seq with the first k of more joined.
AppendSteps(seq, more, f, n) ==
  f = [k \in 0..n |-> IF k = 0 THEN seq
                      ELSE IF IsIn(more[k], f[k - 1]) THEN f[k - 1] ELSE Append(f[k - 1], more[k])]

\* AppendNew adds the elements one after the other.
LEMMA AppendNewUnfolds ==
  ASSUME NEW seq, NEW more, Len(more) \in Nat
  PROVE  \E f : AppendSteps(seq, more, f, Len(more)) /\ AppendNew(seq, more) = f[Len(more)]
<1> DEFINE S == {n \in Nat : ~\E f : AppendSteps(seq, more, f, n)}
<1>1. 0 \notin S
  <2>1. AppendSteps(seq, more, [k \in 0..0 |-> seq], 0)
    BY DEF AppendSteps
  <2> QED BY <2>1
<1>2. ASSUME NEW n \in Nat, n \notin S PROVE n + 1 \notin S
  <2>1. PICK g : AppendSteps(seq, more, g, n)
    BY <1>2
  <2> DEFINE f == [k \in 0..(n + 1) |-> IF k = n + 1 THEN IF IsIn(more[n + 1], g[n]) THEN g[n] ELSE Append(g[n], more[n + 1]) ELSE g[k]]
  <2>2. \A k \in 0..n : g[k] = IF k = 0 THEN seq ELSE IF IsIn(more[k], g[k - 1]) THEN g[k - 1] ELSE Append(g[k - 1], more[k])
    BY <2>1 DEF AppendSteps
  <2>3. \A k \in 0..(n + 1) : f[k] = IF k = 0 THEN seq ELSE IF IsIn(more[k], f[k - 1]) THEN f[k - 1] ELSE Append(f[k - 1], more[k])
    <3>1. f[n + 1] = IF IsIn(more[n + 1], f[n]) THEN f[n] ELSE Append(f[n], more[n + 1])
      OBVIOUS
    <3>2. \A k \in 0..n : f[k] = g[k] /\ (k # 0 => f[k - 1] = g[k - 1])
      OBVIOUS
    <3> QED BY <2>2, <3>1, <3>2
  <2>4. AppendSteps(seq, more, f, n + 1)
    BY <2>3 DEF AppendSteps
  <2> QED BY <2>4
<1>3. S = {}
  <2>1. S \in SUBSET Nat
    OBVIOUS
  <2> HIDE DEF S
  <2> QED BY <1>1, <1>2, <2>1, NoException
<1> DEFINE made == CHOOSE f : AppendSteps(seq, more, f, Len(more))
<1>4. AppendSteps(seq, more, made, Len(more))
  BY <1>3
<1>5. AppendNew(seq, more) = made[Len(more)]
  BY DEF AppendNew, AppendSteps
<1> QED BY <1>4, <1>5

\* Joining adds the new elements and no duplicates.
LEMMA AppendNewElements ==
  ASSUME NEW T, NEW seq \in Seq(T), NEW more \in Seq(T)
  PROVE  /\ AppendNew(seq, more) \in Seq(T)
         /\ ToSet(AppendNew(seq, more)) = ToSet(seq) \cup ToSet(more)
         /\ Distinct(seq) => Distinct(AppendNew(seq, more))
<1>1. PICK f : AppendSteps(seq, more, f, Len(more)) /\ AppendNew(seq, more) = f[Len(more)]
  BY AppendNewUnfolds
<1> DEFINE last == Len(more)
           Good(k) == /\ f[k] \in Seq(T)
                      /\ ToSet(f[k]) = ToSet(seq) \cup {more[m] : m \in 1..k}
                      /\ Distinct(seq) => Distinct(f[k])
           S == {k \in Nat : k <= last /\ ~Good(k)}
<1>2. last \in Nat /\ DOMAIN more = 1..last /\ \A k \in 1..last : more[k] \in T
  OBVIOUS
<1>3. f[0] = seq /\ \A k \in 1..last : f[k] = IF IsIn(more[k], f[k - 1]) THEN f[k - 1]
                                               ELSE Append(f[k - 1], more[k])
  <2>1. \A k \in 0..last : f[k] = IF k = 0 THEN seq ELSE IF IsIn(more[k], f[k - 1])
                                  THEN f[k - 1] ELSE Append(f[k - 1], more[k])
    BY <1>1 DEF AppendSteps
  <2> HIDE DEF last
  <2> QED BY <1>2, <2>1
<1>4. 0 \notin S
  BY <1>3
<1>5. ASSUME NEW k \in Nat, k + 1 \in S PROVE k \in S
  <2> SUFFICES ASSUME Good(k), k + 1 \in 1..last PROVE Good(k + 1)
    BY <1>5
  <2> DEFINE prev == f[k]
             x == more[k + 1]
  <2>1. f[k + 1] = IF IsIn(x, prev) THEN prev ELSE Append(prev, x)
    BY <1>3
  <2>2. {more[m] : m \in 1..(k + 1)} = {more[m] : m \in 1..k} \cup {x}
    OBVIOUS
  <2>3. prev \in Seq(T) /\ x \in T
    BY <1>2
  <2>4. CASE IsIn(x, prev)
    <3>1. x \in ToSet(prev)
      BY <2>4 DEF IsIn, ToSet
    <3> HIDE DEF x, prev
    <3> QED BY <2>1, <2>2, <2>4, <3>1 DEF prev
  <2>5. CASE ~IsIn(x, prev)
    <3> HIDE DEF x, prev
    <3>1. f[k + 1] = Append(prev, x)
      BY <2>1, <2>5
    <3>2. /\ Append(prev, x) \in Seq(T)
          /\ DOMAIN Append(prev, x) = 1..(Len(prev) + 1)
          /\ DOMAIN prev = 1..Len(prev) /\ Len(prev) \in Nat
          /\ \A n \in 1..Len(prev) : Append(prev, x)[n] = prev[n]
          /\ Append(prev, x)[Len(prev) + 1] = x
      BY <2>3
    <3>3. ToSet(Append(prev, x)) = ToSet(prev) \cup {x}
      <4>1. \A n \in 1..(Len(prev) + 1) : n = Len(prev) + 1 \/ n \in 1..Len(prev)
        BY <3>2
      <4> HIDE DEF last
      <4> QED BY <3>2, <4>1 DEF ToSet
    <3>4. Distinct(prev) => Distinct(Append(prev, x))
      <4> SUFFICES ASSUME Distinct(prev), NEW m \in 1..(Len(prev) + 1), NEW n \in 1..(Len(prev) + 1),
                          Append(prev, x)[m] = Append(prev, x)[n]
                   PROVE  m = n
        BY <3>2 DEF Distinct
      <4>1. CASE m \in 1..Len(prev) /\ n \in 1..Len(prev)
        BY <3>2, <4>1 DEF Distinct
      <4>2. CASE m \in 1..Len(prev) /\ n = Len(prev) + 1
        BY <2>5, <3>2, <4>2 DEF IsIn
      <4>3. CASE m = Len(prev) + 1 /\ n \in 1..Len(prev)
        BY <2>5, <3>2, <4>3 DEF IsIn
      <4> QED BY <3>2, <4>1, <4>2, <4>3
    <3> QED BY <2>2, <3>1, <3>2, <3>3, <3>4 DEF prev
  <2> QED BY <2>4, <2>5
<1>6. S = {}
  <2>1. S \in SUBSET Nat
    OBVIOUS
  <2> HIDE DEF S
  <2> QED BY <1>4, <1>5, <2>1, NoException
<1>7. Good(last)
  BY <1>2, <1>6
<1>8. ToSet(more) = {more[m] : m \in 1..last}
  BY <1>2 DEF ToSet
<1> QED BY <1>1, <1>7, <1>8

-----------------------------------------------------------------------------
(* What the passes establish for a program without an error so far. *)

SymbolFields == {"kind", "file", "name", "type", "throws", "explicit", "static", "private",
                 "override", "abstract", "final", "body", "valid", "slot", "overridden",
                 "baseConstructor", "declared"}
FileFields == {"base", "implicit", "direct", "interfaces", "contract", "functions",
               "constructor", "virtuals", "implementations"}

Own(i) == ToSet(files[i].functions)
Closure(i) == ToSet(files[i].interfaces)
PublicInstance == {s \in DOMAIN symbols : /\ symbols[s].kind = "function"
                                          /\ ~symbols[s].static /\ ~symbols[s].private}
Lineage(i) == {i} \cup Ancestors(Parents, i)

\* register_type_relationships: every class derives from Object in the end,
\* errors derive from errors, and only interfaces are implemented.
FileTyped(i) ==
  /\ DOMAIN files[i] = FileFields
  /\ files[i].base \in 0..Len(syntax)
  /\ files[i].direct \in Seq(FileIds) /\ files[i].interfaces \in Seq(FileIds)
  /\ files[i].contract \in Seq(Nat) /\ files[i].functions \in Seq(Nat)
  /\ files[i].virtuals \in Seq(Nat)
BaseFits(i) ==
  /\ files[i].base # 0 => /\ IsClass(i) /\ IsClass(files[i].base)
                          /\ files[i].base # Obj => syntax[files[i].base].kind = syntax[i].kind
                          /\ files[i].base = Obj => syntax[i].kind = "class"
  /\ syntax[i].kind = "class" /\ i # Obj => files[i].base # 0
HierarchyFacts ==
  /\ DOMAIN files = FileIds /\ \A i \in FileIds : FileTyped(i) /\ BaseFits(i)
  /\ files[Obj].base = 0
  /\ Grounded(Bases)
  /\ \A i \in FileIds : \A x \in ToSet(files[i].direct) : IsInterface(x)
  /\ \A i, j \in FileIds : IsInterface(i) /\ IsInterface(j) /\ syntax[i].id = syntax[j].id => i = j

\* register_members: every member of a file has a symbol of its own.
IsError(t) == t \in TypesOf(syntax) /\ TypeKind(t) = "error"
WellTyped(v) ==
  /\ DOMAIN v = SymbolFields
  /\ v.file \in FileIds /\ v.type \in TypesOf(syntax)
  /\ v.body \in Seq(StatementsOf(syntax))
  /\ v.valid
  /\ \A t \in v.throws : IsError(t)
  /\ v.kind # "constructor" => v.baseConstructor = 0
  /\ v.declared /\ IsInterface(v.file) => v.kind = "function" /\ v.body = <<>>
  /\ v.slot # 0 => v.kind = "function" /\ ~v.static /\ ~v.private
FunctionRegistered(i, n) ==
  LET s == files[i].functions[n]
      m == syntax[i].functions[n]
  IN /\ s \in DOMAIN symbols
     /\ symbols[s].kind = "function" /\ symbols[s].file = i /\ symbols[s].declared
     /\ symbols[s].name = m.name /\ symbols[s].abstract = m.abstract
     /\ symbols[s].static = m.static /\ symbols[s].private = m.private
     /\ IsInterface(i) => ~symbols[s].static /\ ~symbols[s].private
ConstructorRegistered(i) ==
  files[i].constructor # 0 =>
    /\ files[i].constructor \in DOMAIN symbols
    /\ symbols[files[i].constructor].kind = "constructor"
    /\ symbols[files[i].constructor].file = i /\ symbols[files[i].constructor].declared
SymbolFacts ==
  /\ Len(symbols) \in Nat /\ DOMAIN symbols = 1..Len(symbols)
  /\ symbols \in Seq({symbols[s] : s \in DOMAIN symbols})
  /\ \A s \in DOMAIN symbols : WellTyped(symbols[s])
  /\ \A i \in FileIds : /\ DOMAIN files[i].functions = DOMAIN syntax[i].functions
                        /\ \A n \in DOMAIN files[i].functions : FunctionRegistered(i, n)
                        /\ ConstructorRegistered(i)

\* validate_interface_contracts: a closure is closed, a contract has functions.
ContractFacts(i, complete) ==
  /\ ToSet(files[i].contract) \subseteq PublicInstance
  /\ i \in Closure(i)
  /\ \A x \in Closure(i) : IsInterface(x) /\ x \in complete /\ Closure(x) \subseteq Closure(i)

\* validate_overrides: a class implements what its base and interfaces do.
ClassFacts(i) ==
  /\ Distinct(files[i].interfaces)
  /\ \A x \in Closure(i) : IsInterface(x) /\ Closure(x) \subseteq Closure(i)
  /\ files[i].base # 0 => Closure(files[i].base) \subseteq Closure(i)

\* An entry of a table may stand where the inherited one stood.
Replaces(f, old) ==
  /\ symbols[f].name = symbols[old].name
  /\ IsOverrideReturnCompatible(Bases, Interfaces, symbols[old].type, symbols[f].type)
  /\ ThrowsSetCovers(Bases, symbols[old].throws, symbols[f].throws)

\* validate_file_overrides: the table of a class has the slots of its parent's
\* table first; what is not inherited as it is are its own functions.
EntryFits(i, n) ==
  LET f == files[i].virtuals[n]
      inherited == InheritedTable(i)
  IN /\ f \in PublicInstance /\ symbols[f].slot = n
     /\ symbols[f].file \in Lineage(i) /\ f \in Own(symbols[f].file)
     /\ \A m \in DOMAIN files[i].virtuals :
          symbols[files[i].virtuals[m]].name = symbols[f].name => m = n
     /\ n \in DOMAIN inherited => Replaces(f, inherited[n]) /\ (f = inherited[n] \/ f \in Own(i))
     /\ n \notin DOMAIN inherited => f \in Own(i)
TableFacts(i) ==
  /\ Len(InheritedTable(i)) <= Len(files[i].virtuals)
  /\ \A n \in DOMAIN files[i].virtuals : EntryFits(i, n)
  /\ \A f \in Own(i) \cap PublicInstance :
       /\ symbols[f].slot \in DOMAIN files[i].virtuals
       /\ files[i].virtuals[symbols[f].slot] = f
  /\ ~syntax[i].abstract => \A n \in DOMAIN files[i].virtuals :
                              ~symbols[files[i].virtuals[n]].abstract

\* validate_interface_conformance: a class has a table for each contract it
\* meets in full, and a concrete one meets every contract.
Meets(i, c) ==
  LET at == Matching(symbols, files[i].virtuals, c)
  IN at # 0 /\ Replaces(files[i].virtuals[at], c)
TableOfInterface(i, table) ==
  /\ table.interface \in Closure(i)
  /\ DOMAIN table.functions = DOMAIN files[table.interface].contract
  /\ \A k \in DOMAIN table.functions :
       table.functions[k] =
         files[i].virtuals[Matching(symbols, files[i].virtuals, files[table.interface].contract[k])]
ImplementationFacts(i) ==
  LET tables == files[i].implementations IN
  /\ Len(tables) \in Nat /\ DOMAIN tables = 1..Len(tables)
  /\ \A m \in DOMAIN tables : TableOfInterface(i, tables[m])
  /\ \A m, n \in DOMAIN tables : tables[m].interface = tables[n].interface => m = n
  /\ \A m \in DOMAIN tables : \A c \in ToSet(files[tables[m].interface].contract) : Meets(i, c)
  /\ \A x \in Closure(i) : (\A c \in ToSet(files[x].contract) : Meets(i, c)) =>
       \E m \in DOMAIN tables : tables[m].interface = x
  /\ ~syntax[i].abstract => \A x \in Closure(i) :
       /\ \E m \in DOMAIN tables : tables[m].interface = x
       /\ \A c \in ToSet(files[x].contract) : Meets(i, c)

\* analyze_definitions: a constructor runs the one of the base, every call
\* names a symbol, and what is thrown is an error.
StatementsAllowed(i, body) == \A n \in DOMAIN body : StatementAllowed(i, body[n])
ConstructorChained(i) ==
  files[i].constructor # 0 =>
    /\ symbols[files[i].constructor].baseConstructor =
         IF files[i].base = 0 THEN 0 ELSE files[files[i].base].constructor
    /\ files[i].base # 0 => files[files[i].base].constructor # 0
BaseConstructorDeclared(s) ==
  symbols[s].baseConstructor # 0 => /\ symbols[s].baseConstructor \in DOMAIN symbols
                                    /\ symbols[symbols[s].baseConstructor].declared
DefinitionFacts ==
  /\ \A i \in FileIds : ConstructorChained(i) /\ StatementsAllowed(i, FieldStatements(i))
  /\ \A s \in DOMAIN symbols :
       /\ symbols[s].declared => StatementsAllowed(symbols[s].file, symbols[s].body)
       /\ BaseConstructorDeclared(s)

InterfaceIds == {i \in FileIds : IsInterface(i)}
ClassIds == {i \in FileIds : IsClass(i)}

\* What the passes before the effects establish of the callables.
Resolved ==
  /\ WellFormedProgram(syntax) /\ HierarchyFacts /\ SymbolFacts
  /\ \A i \in InterfaceIds : ContractFacts(i, InterfaceIds)
  /\ DefinitionFacts

\* analyze_error_effects: a callable declares, or is inferred to declare, errors
\* that cover those it throws and those the callables it calls declare.
Errors == {t \in TypesOf(syntax) : TypeKind(t) = "error"}
Callables == {s \in DOMAIN symbols : symbols[s].declared}
Escaping(s) == DirectErrors(s) \cup UNION {symbols[c].throws : c \in CalledSymbols(s)}
EffectFacts == \A s \in Callables : ThrowsSetCovers(Bases, symbols[s].throws, Escaping(s))

\* The phases after each pass.
AfterEffects == {"abi", "verify", "run"}
AfterDefinitions == {"effects"} \cup AfterEffects
AfterConformance == {"definitions"} \cup AfterDefinitions
AfterOverrides == {"conformance"} \cup AfterConformance
AfterClosures == {"overrides"} \cup AfterOverrides
AfterContracts == {"closures"} \cup AfterClosures
AfterMembers == {"contracts"} \cup AfterContracts
AfterRelationships == {"members"} \cup AfterMembers

PassFacts ==
  /\ phase \in AfterRelationships => HierarchyFacts
  /\ phase \in AfterMembers => SymbolFacts
  /\ phase \in {"relationships", "members"} => pass.complete = {}
  /\ phase = "contracts" => /\ pass.complete \subseteq InterfaceIds
                            /\ \A i \in pass.complete : ContractFacts(i, pass.complete)
  /\ phase \in AfterContracts => \A i \in InterfaceIds : ContractFacts(i, InterfaceIds)
  /\ phase = "closures" => pass.complete = {}
  /\ phase \in AfterClosures => \A i \in ClassIds : ClassFacts(i)
  /\ phase = "overrides" => /\ pass.complete \subseteq ClassIds
                            /\ \A i \in pass.complete : TableFacts(i)
                            /\ \A i \in pass.complete : Parents[i] # 0 => Parents[i] \in pass.complete
  /\ phase \in AfterOverrides => \A i \in ClassIds : TableFacts(i)
  /\ phase \in AfterConformance => \A i \in ClassIds : ImplementationFacts(i)
  /\ phase \in AfterDefinitions => DefinitionFacts
  /\ phase \in AfterEffects => EffectFacts

SemaInv ==
  /\ WellFormedProgram(syntax)
  /\ DOMAIN pass = {"complete", "at", "progress"} /\ pass.at \in Nat \ {0}
  /\ phase \in {"relationships", "abi", "verify", "run"} => errors = {}
  /\ errors = {} => PassFacts

-----------------------------------------------------------------------------
(* Programs and types. *)

\* What a well-formed program declares, by its parts.
LEMMA ProgramTyped ==
  ASSUME WellFormedProgram(syntax)
  PROVE  /\ Len(syntax) \in Nat /\ FileIds = 1..Len(syntax) /\ DOMAIN syntax = FileIds
         /\ Obj \in FileIds /\ syntax[Obj].kind = "class" /\ syntax[Obj].base = NoType
         /\ \A i \in FileIds :
              /\ syntax[i].kind \in {"class", "error", "interface", "struct", "enum"}
              /\ syntax[i].base \in TypesOf(syntax)
              /\ syntax[i].interfaces \in Seq(FileIds)
              /\ syntax[i].functions \in Seq(FunctionsOf(syntax))
              /\ syntax[i].constructors \in Seq(ConstructorsOf(syntax))
              /\ syntax[i].fields \in Seq(FieldsOf(syntax))
              /\ syntax[i].id \in Nat
<1>1. /\ syntax \in Seq(DeclarationsOf(syntax)) /\ Obj \in DOMAIN syntax
      /\ syntax[Obj].kind = "class" /\ syntax[Obj].base = NoType
  BY DEF WellFormedProgram
<1>2. Len(syntax) \in Nat /\ DOMAIN syntax = 1..Len(syntax)
  BY <1>1
<1>3. \A i \in FileIds : syntax[i] \in DeclarationsOf(syntax)
  BY <1>1, <1>2 DEF FileIds
<1> QED BY <1>1, <1>2, <1>3 DEF DeclarationsOf, FileIds

\* The kind of a type that names a file.
LEMMA FileTypeKind ==
  ASSUME NEW i
  PROVE  TypeKind(File(i)) = IF i = Obj THEN "object" ELSE syntax[i].kind
<1>1. File(i) \notin {RootError, DivisionByZero}
  BY DEF File, RootError, DivisionByZero, Type
<1> QED BY <1>1 DEF TypeKind, File

\* Which types are classes, interfaces, errors, or Object.
LEMMA NominalTypes ==
  ASSUME WellFormedProgram(syntax), NEW t \in TypesOf(syntax)
  PROVE  /\ TypeKind(t) \in {"class", "interface"} =>
              /\ t = File(t.f) /\ t.k = "file" /\ t.f \in FileIds /\ t.f # Obj
              /\ syntax[t.f].kind = TypeKind(t)
         /\ TypeKind(t) = "error" =>
              \/ t \in {RootError, DivisionByZero}
              \/ /\ t = File(t.f) /\ t.k = "file" /\ t.f \in FileIds /\ t.f # Obj
                 /\ syntax[t.f].kind = "error"
         /\ TypeKind(t) = "object" => t = File(Obj)
<1>0. t.n => t \notin {RootError, DivisionByZero}
  BY DEF RootError, DivisionByZero, Type
<1>1. CASE t.n
  <2>1. TypeKind(t) = "nullable"
    BY <1>0, <1>1 DEF TypeKind
  <2> QED BY <2>1
<1>2. CASE ~t.n /\ t.k = "file"
  <2>1. t \in [k : {"file"}, f : FileIds, n : BOOLEAN]
    BY <1>2 DEF TypesOf, ScalarNames, FileIds
  <2>2. t = File(t.f) /\ t.f \in FileIds
    BY <1>2, <2>1 DEF File
  <2>3. TypeKind(t) = IF t.f = Obj THEN "object" ELSE syntax[t.f].kind
    BY <2>2, FileTypeKind
  <2>4. syntax[t.f].kind \in {"class", "error", "interface", "struct", "enum"}
    BY <2>2, ProgramTyped
  <2> QED BY <1>2, <2>2, <2>3, <2>4
<1>3. CASE ~t.n /\ t.k # "file"
  <2>1. TypeKind(t) = IF t \in {RootError, DivisionByZero} THEN "error" ELSE t.k
    BY <1>3 DEF TypeKind
  <2>2. t.k \in {"none", "void", "string", "Error", "DivisionByZero"} \cup ScalarNames
    BY <1>3 DEF TypesOf
  <2> QED BY <1>3, <2>1, <2>2 DEF ScalarNames
<1> QED BY <1>1, <1>2, <1>3 DEF TypesOf

-----------------------------------------------------------------------------
(* register_type_relationships *)

\* direct[k] is what stays of the first k interfaces named.
DirectSteps(i, f, n) ==
  f = [k \in 0..n |-> IF k = 0 THEN <<>>
                      ELSE IF InterfaceIsAllowed(i, k) THEN Append(f[k - 1], syntax[i].interfaces[k]) ELSE f[k - 1]]

\* The loop over the interfaces a file names.
LEMMA DirectInterfacesUnfolds ==
  ASSUME NEW i, Len(syntax[i].interfaces) \in Nat
  PROVE  \E f : DirectSteps(i, f, Len(syntax[i].interfaces)) /\ DirectInterfaces(i) = f[Len(syntax[i].interfaces)]
<1> DEFINE S == {n \in Nat : ~\E f : DirectSteps(i, f, n)}
<1>1. 0 \notin S
  <2>1. DirectSteps(i, [k \in 0..0 |-> <<>>], 0)
    BY DEF DirectSteps
  <2> QED BY <2>1
<1>2. ASSUME NEW n \in Nat, n \notin S PROVE n + 1 \notin S
  <2>1. PICK g : DirectSteps(i, g, n)
    BY <1>2
  <2> DEFINE f == [k \in 0..(n + 1) |-> IF k = n + 1 THEN IF InterfaceIsAllowed(i, n + 1) THEN Append(g[n], syntax[i].interfaces[n + 1]) ELSE g[n] ELSE g[k]]
  <2>2. \A k \in 0..n : g[k] = IF k = 0 THEN <<>> ELSE IF InterfaceIsAllowed(i, k) THEN Append(g[k - 1], syntax[i].interfaces[k]) ELSE g[k - 1]
    BY <2>1 DEF DirectSteps
  <2>3. \A k \in 0..(n + 1) : f[k] = IF k = 0 THEN <<>> ELSE IF InterfaceIsAllowed(i, k) THEN Append(f[k - 1], syntax[i].interfaces[k]) ELSE f[k - 1]
    <3>1. f[n + 1] = IF InterfaceIsAllowed(i, n + 1) THEN Append(f[n], syntax[i].interfaces[n + 1]) ELSE f[n]
      OBVIOUS
    <3>2. \A k \in 0..n : f[k] = g[k] /\ (k # 0 => f[k - 1] = g[k - 1])
      OBVIOUS
    <3> QED BY <2>2, <3>1, <3>2
  <2>4. DirectSteps(i, f, n + 1)
    BY <2>3 DEF DirectSteps
  <2> QED BY <2>4
<1>3. S = {}
  <2>1. S \in SUBSET Nat
    OBVIOUS
  <2> HIDE DEF S
  <2> QED BY <1>1, <1>2, <2>1, NoException
<1> DEFINE made == CHOOSE f : DirectSteps(i, f, Len(syntax[i].interfaces))
<1>4. DirectSteps(i, made, Len(syntax[i].interfaces))
  BY <1>3
<1>5. DirectInterfaces(i) = made[Len(syntax[i].interfaces)]
  BY DEF DirectInterfaces, DirectSteps
<1> QED BY <1>4, <1>5

\* Only interfaces stay.
LEMMA DirectInterfacesAreInterfaces ==
  ASSUME WellFormedProgram(syntax), NEW i \in FileIds
  PROVE  DirectInterfaces(i) \in Seq(InterfaceIds)
<1> DEFINE named == syntax[i].interfaces
           last == Len(named)
<1>1. named \in Seq(FileIds) /\ last \in Nat
  BY ProgramTyped
<1>2. PICK f : DirectSteps(i, f, last) /\ DirectInterfaces(i) = f[last]
  BY <1>1, DirectInterfacesUnfolds
<1>3. \A k \in 0..last : f[k] = IF k = 0 THEN <<>>
          ELSE IF InterfaceIsAllowed(i, k) THEN Append(f[k - 1], named[k]) ELSE f[k - 1]
  BY <1>2 DEF DirectSteps
<1> DEFINE S == {k \in Nat : k <= last /\ f[k] \notin Seq(InterfaceIds)}
<1>4. 0 \notin S
  <2>1. 0 \in 0..last
    BY <1>1
  <2>2. f[0] = <<>>
    BY <1>3, <2>1
  <2>3. <<>> \in Seq(InterfaceIds)
    OBVIOUS
  <2> QED BY <2>2, <2>3
<1>5. ASSUME NEW k \in Nat, k + 1 \in S PROVE k \in S
  <2>1. k + 1 \in 1..last /\ k + 1 # 0 /\ (k + 1) - 1 = k /\ k + 1 \in 0..last
    BY <1>1, <1>5
  <2> HIDE DEF named, last
  <2>2. f[k + 1] = IF InterfaceIsAllowed(i, k + 1) THEN Append(f[k], named[k + 1]) ELSE f[k]
    BY <1>3, <2>1
  <2>3. InterfaceIsAllowed(i, k + 1) => named[k + 1] \in InterfaceIds
    <3> SUFFICES ASSUME InterfaceIsAllowed(i, k + 1) PROVE named[k + 1] \in InterfaceIds
      OBVIOUS
    <3>1. named[k + 1] \in FileIds
      BY <1>1, <2>1 DEF last
    <3>2. TypeKind(File(named[k + 1])) = "interface"
      BY DEF InterfaceIsAllowed, named
    <3> QED BY <3>1, <3>2, FileTypeKind DEF InterfaceIds, IsInterface
  <2>4. f[k] \in Seq(InterfaceIds) => f[k + 1] \in Seq(InterfaceIds)
    <3> SUFFICES ASSUME f[k] \in Seq(InterfaceIds) PROVE f[k + 1] \in Seq(InterfaceIds)
      OBVIOUS
    <3> DEFINE x == named[k + 1]
               s == f[k]
    <3>1. x \in InterfaceIds => Append(s, x) \in Seq(InterfaceIds)
      <4> HIDE DEF x
      <4> QED OBVIOUS
    <3> QED BY <2>2, <2>3, <3>1
  <2>5. k <= last
    BY <1>1, <2>1 DEF last
  <2> QED BY <1>5, <2>4, <2>5
<1>6. S = {}
  <2>1. S \in SUBSET Nat
    OBVIOUS
  <2> HIDE DEF S
  <2> QED BY <1>4, <1>5, <2>1, NoException
<1> QED BY <1>1, <1>2, <1>6

\* The base that is kept is a class for a class and an error for an error.
LEMMA DeclaredBaseFits ==
  ASSUME WellFormedProgram(syntax), NEW i \in FileIds,
         syntax[i].base # NoType => BaseIsAllowed(i)
  PROVE  LET b == DeclaredBase(i) IN
         /\ b \in 0..Len(syntax)
         /\ b # 0 => /\ IsClass(i) /\ IsClass(b)
                     /\ b # Obj => syntax[b].kind = syntax[i].kind
                     /\ b = Obj => syntax[i].kind = "class"
         /\ syntax[i].kind = "class" /\ i # Obj => b # 0
         /\ i = Obj => b = 0
<1>1. Len(syntax) \in Nat /\ FileIds = 1..Len(syntax) /\ syntax[Obj].base = NoType
  /\ syntax[i].base \in TypesOf(syntax) /\ Obj \in FileIds /\ syntax[Obj].kind = "class"
  BY ProgramTyped
<1>2. CASE syntax[i].base = NoType /\ syntax[i].kind = "class" /\ i # Obj
  <2>1. DeclaredBase(i) = Obj
    BY <1>2 DEF DeclaredBase
  <2> QED BY <1>1, <1>2, <2>1 DEF IsClass
<1>3. CASE syntax[i].base = NoType /\ ~(syntax[i].kind = "class" /\ i # Obj)
  <2>1. DeclaredBase(i) = 0
    BY <1>3 DEF DeclaredBase
  <2> QED BY <1>1, <1>3, <2>1
<1>4. CASE syntax[i].base # NoType /\ syntax[i].kind = "error"
  <2> DEFINE b == syntax[i].base
  <2>1. DeclaredBase(i) = b.f /\ TypeKind(b) = "error" /\ b # DivisionByZero
    BY <1>4 DEF DeclaredBase, BaseIsAllowed
  <2>2. \/ b = RootError
        \/ b.f \in FileIds /\ b.f # Obj /\ syntax[b.f].kind = "error"
    BY <1>1, <2>1, NominalTypes
  <2>3. b = RootError => b.f = 0
    BY DEF RootError, Type
  <2>4. i # Obj
    BY <1>1, <1>4
  <2> HIDE DEF b
  <2> QED BY <1>1, <1>4, <2>1, <2>2, <2>3, <2>4 DEF IsClass
<1>5. CASE syntax[i].base # NoType /\ syntax[i].kind # "error"
  <2> DEFINE b == syntax[i].base
  <2>1. DeclaredBase(i) = b.f /\ TypeKind(b) = "class" /\ syntax[i].kind = "class"
    BY <1>5 DEF DeclaredBase, BaseIsAllowed
  <2>2. b.f \in FileIds /\ b.f # Obj /\ syntax[b.f].kind = "class"
    BY <1>1, <2>1, NominalTypes
  <2>3. i # Obj
    BY <1>1, <1>5
  <2> HIDE DEF b
  <2> QED BY <1>1, <1>5, <2>1, <2>2, <2>3 DEF IsClass
<1> QED BY <1>2, <1>3, <1>4, <1>5

\* The pass over bases and interfaces leaves a hierarchy, or an error.
LEMMA RelationshipsEstablish ==
  ASSUME WellFormedProgram(syntax), RegisterTypeRelationships, errors' = {}
  PROVE  HierarchyFacts'
<1> DEFINE declared == [i \in FileIds |-> DeclaredBase(i)]
           cyclic == HierarchyInvalid(declared)
           direct == [i \in FileIds |-> DirectInterfaces(i)]
<1>1. /\ files' = [i \in FileIds |->
             [base |-> IF i \in cyclic THEN 0 ELSE declared[i],
              implicit |-> syntax[i].base = NoType /\ declared[i] = Obj,
              direct |-> direct[i], interfaces |-> <<>>, contract |-> <<>>,
              functions |-> <<>>, constructor |-> 0, virtuals |-> <<>>,
              implementations |-> <<>>]]
      /\ syntax' = syntax
      /\ {<<"cycle", i>> : i \in cyclic} \subseteq errors'
      /\ {<<"base", i>> : i \in {j \in FileIds :
                    syntax[j].base # NoType /\ ~BaseIsAllowed(j)}} \subseteq errors'
      /\ {<<"identity", i>> : i \in {j \in FileIds :
                    /\ syntax[j].kind = "interface"
                    /\ \E k \in FileIds : k # j /\ syntax[k].kind = "interface"
                                          /\ syntax[k].id = syntax[j].id}} \subseteq errors'
  BY DEF RegisterTypeRelationships
<1>2. FileIds' = FileIds /\ Len(syntax)' = Len(syntax)
      /\ \A i : (IsClass(i))' = IsClass(i) /\ (IsInterface(i))' = IsInterface(i)
  BY <1>1 DEF FileIds, IsClass, IsInterface
<1>3. Len(syntax) \in Nat /\ FileIds = 1..Len(syntax) /\ Obj \in FileIds
  BY ProgramTyped
<1>4. cyclic = {}
  <2> HIDE DEF cyclic
  <2> QED BY <1>1
<1>5. \A i \in FileIds : syntax[i].base # NoType => BaseIsAllowed(i)
  BY <1>1
<1>6. \A i \in FileIds : files'[i].base = DeclaredBase(i)
  <2> HIDE DEF cyclic
  <2> QED BY <1>1, <1>4
<1>7. \A i \in FileIds :
        LET b == DeclaredBase(i) IN
        /\ b \in 0..Len(syntax)
        /\ b # 0 => /\ IsClass(i) /\ IsClass(b)
                    /\ b # Obj => syntax[b].kind = syntax[i].kind
                    /\ b = Obj => syntax[i].kind = "class"
        /\ syntax[i].kind = "class" /\ i # Obj => b # 0
        /\ i = Obj => b = 0
  BY <1>5, DeclaredBaseFits
<1>8. \A i \in FileIds : files'[i].direct \in Seq(InterfaceIds)
  BY <1>1, DirectInterfacesAreInterfaces
<1>9. DOMAIN files' = FileIds /\ \A i \in FileIds : FileTyped(i)'
  <2>1. Seq(InterfaceIds) \subseteq Seq(FileIds)
    BY DEF InterfaceIds
  <2>2. \A i \in FileIds : DOMAIN files'[i] = FileFields
    BY <1>1 DEF FileFields
  <2>3. \A i \in FileIds : /\ files'[i].interfaces = <<>> /\ files'[i].contract = <<>>
                           /\ files'[i].functions = <<>> /\ files'[i].virtuals = <<>>
    BY <1>1
  <2>4. DOMAIN files' = FileIds
    BY <1>1
  <2> HIDE DEF declared, cyclic, direct
  <2>5. \A i \in FileIds : files'[i].direct \in Seq(FileIds)
    BY <1>8, <2>1
  <2>6. \A i \in FileIds : files'[i].base \in 0..Len(syntax)
    BY <1>6, <1>7
  <2>7. \A T : <<>> \in Seq(T)
    OBVIOUS
  <2>8. ASSUME NEW i \in FileIds PROVE FileTyped(i)'
    BY <1>2, <2>2, <2>3, <2>5, <2>6, <2>7 DEF FileTyped
  <2> QED BY <2>4, <2>8
<1>10. \A i \in FileIds : BaseFits(i)'
  <2> SUFFICES ASSUME NEW i \in FileIds PROVE BaseFits(i)'
    OBVIOUS
  <2> QED BY <1>1, <1>2, <1>6, <1>7 DEF BaseFits, IsClass
<1>11. files'[Obj].base = 0
  BY <1>3, <1>6, <1>7
<1>12. Grounded(Bases')
  <2>1. Bases' = declared
    BY <1>2, <1>6 DEF Bases
  <2>2. Len(declared) = Len(syntax) /\ LinkTable(declared)
    <3>1. declared \in [1..Len(syntax) -> 0..Len(syntax)]
      BY <1>3, <1>7
    <3> HIDE DEF declared
    <3> QED BY <1>3, <3>1 DEF LinkTable
  <2>3. \A i \in 1..Len(declared) : i \notin Ancestors(declared, i)
    <3>1. DOMAIN declared = 1..Len(declared)
      BY <1>3, <2>2
    <3> HIDE DEF declared
    <3> QED BY <1>4, <3>1 DEF HierarchyInvalid
  <2> HIDE DEF declared
  <2> QED BY <2>1, <2>2, <2>3, AcyclicGrounded
<1>13. \A i \in FileIds : \A x \in ToSet(files'[i].direct) : IsInterface(x)
  <2> SUFFICES ASSUME NEW i \in FileIds, NEW n \in DOMAIN files'[i].direct
               PROVE  IsInterface(files'[i].direct[n])
    BY DEF ToSet
  <2>1. files'[i].direct \in Seq(InterfaceIds)
    BY <1>8
  <2>2. files'[i].direct[n] \in InterfaceIds
    BY <2>1
  <2> QED BY <2>2 DEF InterfaceIds
<1>14. \A i, j \in FileIds : IsInterface(i) /\ IsInterface(j) /\ syntax[i].id = syntax[j].id => i = j
  BY <1>1 DEF IsInterface
<1> QED
  <2> HIDE DEF declared, cyclic, direct
  <2> QED BY <1>1, <1>2, <1>9, <1>10, <1>11, <1>12, <1>13, <1>14 DEF HierarchyFacts

\* What no later pass touches keeps the hierarchy.
LEMMA HierarchyStable ==
  ASSUME HierarchyFacts, Obj \in FileIds, syntax' = syntax, DOMAIN files' = FileIds,
         \A i \in FileIds : /\ FileTyped(i)' /\ files'[i].base = files[i].base
                            /\ files'[i].direct = files[i].direct
  PROVE  HierarchyFacts'
<1>1. FileIds' = FileIds
  BY DEF FileIds
<1>2. Bases' = Bases
  BY <1>1 DEF Bases
<1>3. \A i \in FileIds : BaseFits(i)' /\ FileTyped(i)'
  BY DEF HierarchyFacts, BaseFits, IsClass
<1>4. files'[Obj].base = 0 /\ Grounded(Bases')
  BY <1>2 DEF HierarchyFacts
<1>5. \A i \in FileIds : \A x \in ToSet(files'[i].direct) : (IsInterface(x))'
  BY DEF HierarchyFacts, IsInterface
<1>6. \A i, j \in FileIds :
        (IsInterface(i) /\ IsInterface(j))' /\ syntax'[i].id = syntax'[j].id => i = j
  BY DEF HierarchyFacts, IsInterface
<1> QED BY <1>1, <1>3, <1>4, <1>5, <1>6 DEF HierarchyFacts

-----------------------------------------------------------------------------
(* register_members *)

\* The length, the domain and the elements of a sequence.
LEMMA SeqFacts ==
  ASSUME NEW T, NEW s \in Seq(T)
  PROVE  /\ Len(s) \in Nat /\ DOMAIN s = 1..Len(s)
         /\ \A n \in 1..Len(s) : s[n] \in T
OBVIOUS

\* The elements of two sequences one after the other.
LEMMA ConcatFacts ==
  ASSUME NEW T, NEW s \in Seq(T), NEW t \in Seq(T)
  PROVE  /\ s \o t \in Seq(T) /\ Len(s \o t) = Len(s) + Len(t)
         /\ \A n \in 1..Len(s) : (s \o t)[n] = s[n]
         /\ \A n \in 1..Len(t) : (s \o t)[Len(s) + n] = t[n]
OBVIOUS

\* A function on 1..n is a sequence of length n.
LEMMA FunctionIsSeq ==
  ASSUME NEW T, NEW n \in Nat, NEW f \in [1..n -> T]
  PROVE  f \in Seq(T) /\ Len(f) = n
OBVIOUS

\* A sequence is one of its own elements.
LEMMA SeqOfValues ==
  ASSUME NEW T, NEW s \in Seq(T)
  PROVE  s \in Seq({s[n] : n \in DOMAIN s})
OBVIOUS

\* registered[k] is symbols() once the first k files are registered.
RegisterSteps(f, n) ==
  f = [k \in 0..n |-> IF k = 0 THEN <<>>
                      ELSE f[k - 1] \o MembersOf(k)]

\* The symbols of the files up to every file are those of one loop.
LEMMA SymbolsUnfold ==
  ASSUME Len(syntax) \in Nat
  PROVE  \E f : RegisterSteps(f, Len(syntax)) /\ \A i \in 0..Len(syntax) : SymbolsUpTo(i) = f[i]
<1> DEFINE S == {n \in Nat : ~\E f : RegisterSteps(f, n)}
<1>1. 0 \notin S
  <2>1. RegisterSteps([k \in 0..0 |-> <<>>], 0)
    BY DEF RegisterSteps
  <2> QED BY <2>1
<1>2. ASSUME NEW n \in Nat, n \notin S PROVE n + 1 \notin S
  <2>1. PICK g : RegisterSteps(g, n)
    BY <1>2
  <2> DEFINE f == [k \in 0..(n + 1) |-> IF k = n + 1 THEN g[n] \o MembersOf(n + 1) ELSE g[k]]
  <2>2. \A k \in 0..n : g[k] = IF k = 0 THEN <<>> ELSE g[k - 1] \o MembersOf(k)
    BY <2>1 DEF RegisterSteps
  <2>3. \A k \in 0..(n + 1) : f[k] = IF k = 0 THEN <<>> ELSE f[k - 1] \o MembersOf(k)
    <3>1. f[n + 1] = f[n] \o MembersOf(n + 1)
      <4>1. n \in 0..(n + 1) /\ n # n + 1 /\ n + 1 \in 0..(n + 1)
        OBVIOUS
      <4>2. f[n] = g[n] /\ f[n + 1] = g[n] \o MembersOf(n + 1)
        BY <4>1
      <4> HIDE DEF f
      <4> QED BY <4>2
    <3>2. \A k \in 0..n : f[k] = g[k] /\ (k # 0 => f[k - 1] = g[k - 1])
      OBVIOUS
    <3> QED BY <2>2, <3>1, <3>2
  <2>4. RegisterSteps(f, n + 1)
    BY <2>3 DEF RegisterSteps
  <2> QED BY <2>4
<1>3. S = {}
  <2>1. S \in SUBSET Nat
    OBVIOUS
  <2> HIDE DEF S
  <2> QED BY <1>1, <1>2, <2>1, NoException
<1> DEFINE made == CHOOSE f : RegisterSteps(f, Len(syntax))
<1>4. RegisterSteps(made, Len(syntax))
  BY <1>3
<1>5. \A i \in 0..Len(syntax) : SymbolsUpTo(i) = made[i]
  BY DEF SymbolsUpTo, RegisterSteps
<1> QED BY <1>4, <1>5

\* The members of a file are its functions and then its constructor.
LEMMA MembersOfFile ==
  ASSUME WellFormedProgram(syntax), NEW i \in FileIds
  PROVE  LET count == Len(syntax[i].functions)
             more == Len(syntax[i].constructors) IN
         /\ count \in Nat /\ more \in 0..1
         /\ DOMAIN syntax[i].functions = 1..count /\ DOMAIN syntax[i].constructors = 1..more
         /\ MembersOf(i) \in Seq({MembersOf(i)[n] : n \in 1..(count + more)})
         /\ Len(MembersOf(i)) = count + more
         /\ \A n \in 1..count :
              MembersOf(i)[n] = MemberSymbol(i, syntax[i].functions[n], "function")
         /\ more = 1 => MembersOf(i)[count + 1] = MemberSymbol(i, syntax[i].constructors[1], "constructor")
<1> DEFINE fs == syntax[i].functions
           cs == syntax[i].constructors
           F == [n \in DOMAIN fs |-> MemberSymbol(i, fs[n], "function")]
           C == [n \in DOMAIN cs |-> MemberSymbol(i, cs[n], "constructor")]
           T == {F[n] : n \in DOMAIN fs} \cup {C[n] : n \in DOMAIN cs}
<1>1. fs \in Seq(FunctionsOf(syntax)) /\ cs \in Seq(ConstructorsOf(syntax)) /\ Len(cs) <= 1
  <2>1. DOMAIN syntax = FileIds
    BY ProgramTyped
  <2>2. Len(cs) <= 1
    BY <2>1 DEF WellFormedProgram
  <2> QED BY <2>2, ProgramTyped
<1>2. /\ Len(fs) \in Nat /\ DOMAIN fs = 1..Len(fs)
      /\ Len(cs) \in 0..1 /\ DOMAIN cs = 1..Len(cs)
  <2>1. Len(fs) \in Nat /\ DOMAIN fs = 1..Len(fs)
    BY <1>1, SeqFacts
  <2>2. Len(cs) \in Nat /\ DOMAIN cs = 1..Len(cs)
    BY <1>1, SeqFacts
  <2> HIDE DEF fs, cs
  <2> QED BY <1>1, <2>1, <2>2
<1>3. F \in Seq(T) /\ Len(F) = Len(fs) /\ C \in Seq(T) /\ Len(C) = Len(cs)
  <2>1. F \in [1..Len(fs) -> T] /\ C \in [1..Len(cs) -> T]
    BY <1>2
  <2>2. Len(fs) \in Nat /\ Len(cs) \in Nat
    BY <1>2
  <2> HIDE DEF F, C, T, fs, cs
  <2>3. F \in Seq(T) /\ Len(F) = Len(fs)
    BY <2>1, <2>2, FunctionIsSeq
  <2>4. C \in Seq(T) /\ Len(C) = Len(cs)
    BY <2>1, <2>2, FunctionIsSeq
  <2> QED BY <2>3, <2>4
<1>4. MembersOf(i) = F \o C
  BY DEF MembersOf
<1>5. /\ MembersOf(i) \in Seq(T) /\ Len(MembersOf(i)) = Len(fs) + Len(cs)
      /\ \A n \in 1..Len(fs) : MembersOf(i)[n] = F[n]
      /\ \A n \in 1..Len(cs) : MembersOf(i)[Len(fs) + n] = C[n]
  <2> HIDE DEF F, C, T, fs, cs
  <2>1. /\ F \o C \in Seq(T) /\ Len(F \o C) = Len(F) + Len(C)
        /\ \A n \in 1..Len(F) : (F \o C)[n] = F[n]
        /\ \A n \in 1..Len(C) : (F \o C)[Len(F) + n] = C[n]
    BY <1>3, ConcatFacts
  <2> QED BY <1>3, <1>4, <2>1
<1>6. MembersOf(i) \in Seq({MembersOf(i)[n] : n \in 1..(Len(fs) + Len(cs))})
  <2> HIDE DEF F, C, T, fs, cs
  <2> QED BY <1>2, <1>5
<1>7. Len(cs) = 1 => MembersOf(i)[Len(fs) + 1] = C[1]
  <2> HIDE DEF F, C, T, fs, cs
  <2> QED BY <1>5
<1>8. \A n \in 1..Len(fs) : MembersOf(i)[n] = MemberSymbol(i, fs[n], "function")
  <2>1. \A n \in 1..Len(fs) : F[n] = MemberSymbol(i, fs[n], "function")
    BY <1>2
  <2> HIDE DEF F, C, T, fs, cs
  <2> QED BY <1>5, <2>1
<1>9. Len(cs) = 1 => MembersOf(i)[Len(fs) + 1] = MemberSymbol(i, cs[1], "constructor")
  <2>1. Len(cs) = 1 => C[1] = MemberSymbol(i, cs[1], "constructor")
    BY <1>2
  <2> QED BY <1>7, <2>1
<1> HIDE DEF F, C, T
<1> QED BY <1>2, <1>5, <1>6, <1>8, <1>9

\* The symbols of a file follow those of the files before it.
LEMMA SymbolsOfFiles ==
  ASSUME WellFormedProgram(syntax)
  PROVE  LET last == Len(syntax) IN
         /\ \A k \in 0..last :
              /\ Len(SymbolsUpTo(k)) \in Nat /\ DOMAIN SymbolsUpTo(k) = 1..Len(SymbolsUpTo(k))
              /\ SymbolsUpTo(k) \in Seq({SymbolsUpTo(k)[s] : s \in DOMAIN SymbolsUpTo(k)})
         /\ \A i \in FileIds : \A n \in 1..Len(MembersOf(i)) :
              /\ Len(SymbolsUpTo(i - 1)) + n \in DOMAIN SymbolsUpTo(last)
              /\ SymbolsUpTo(last)[Len(SymbolsUpTo(i - 1)) + n] = MembersOf(i)[n]
         /\ \A s \in DOMAIN SymbolsUpTo(last) :
              \E i \in FileIds : \E n \in 1..Len(MembersOf(i)) :
                SymbolsUpTo(last)[s] = MembersOf(i)[n]
<1> DEFINE last == Len(syntax)
           T == UNION {{MembersOf(i)[n] : n \in 1..Len(MembersOf(i))} : i \in FileIds}
           U(k) == SymbolsUpTo(k)
<1>1. last \in Nat /\ FileIds = 1..last
  BY ProgramTyped
<1>2. U(0) = <<>> /\ \A k \in 1..last : U(k) = U(k - 1) \o MembersOf(k)
  <2>1. PICK f : RegisterSteps(f, last) /\ \A i \in 0..last : U(i) = f[i]
    BY <1>1, SymbolsUnfold
  <2>2. \A k \in 0..last : f[k] = IF k = 0 THEN <<>> ELSE f[k - 1] \o MembersOf(k)
    BY <2>1 DEF RegisterSteps
  <2>3. 0 \in 0..last /\ \A k \in 1..last : k \in 0..last /\ k - 1 \in 0..last /\ k # 0
    BY <1>1
  <2> HIDE DEF U, last
  <2>4. U(0) = <<>>
    BY <2>1, <2>2, <2>3
  <2>5. ASSUME NEW k \in 1..last PROVE U(k) = U(k - 1) \o MembersOf(k)
    <3>1. U(k) = f[k] /\ U(k - 1) = f[k - 1]
      BY <2>1, <2>3
    <3>2. f[k] = f[k - 1] \o MembersOf(k)
      BY <2>2, <2>3
    <3> QED BY <3>1, <3>2
  <2> QED BY <2>4, <2>5
<1>3. \A i \in FileIds : MembersOf(i) \in Seq(T) /\ Len(MembersOf(i)) \in Nat
  <2> SUFFICES ASSUME NEW i \in FileIds
               PROVE  MembersOf(i) \in Seq(T) /\ Len(MembersOf(i)) \in Nat
    OBVIOUS
  <2>1. MembersOf(i) \in Seq({MembersOf(i)[n] : n \in 1..Len(MembersOf(i))})
        /\ Len(MembersOf(i)) \in Nat
    <3> DEFINE count == Len(syntax[i].functions)
               more == Len(syntax[i].constructors)
    <3>1. /\ count \in Nat /\ more \in 0..1
          /\ MembersOf(i) \in Seq({MembersOf(i)[n] : n \in 1..(count + more)})
          /\ Len(MembersOf(i)) = count + more
      BY MembersOfFile
    <3> HIDE DEF count, more
    <3>2. Len(MembersOf(i)) \in Nat
      BY <3>1
    <3> QED BY <3>1, <3>2
  <2>2. {MembersOf(i)[n] : n \in 1..Len(MembersOf(i))} \subseteq T
    OBVIOUS
  <2> HIDE DEF T
  <2> QED BY <2>1, <2>2
<1> HIDE DEF T, U, last
<1>4. \A k \in 0..last : U(k) \in Seq(T)
  <2> DEFINE S == {k \in Nat : k <= last /\ U(k) \notin Seq(T)}
  <2>1. 0 \notin S
    <3>1. U(0) = <<>> /\ <<>> \in Seq(T)
      BY <1>2
    <3> QED BY <3>1
  <2>2. ASSUME NEW k \in Nat, k + 1 \in S PROVE k \in S
    <3>1. k + 1 \in 1..last /\ (k + 1) - 1 = k /\ k + 1 \in FileIds /\ k <= last
      BY <1>1, <2>2
    <3>2. U(k + 1) = U(k) \o MembersOf(k + 1)
      BY <1>2, <3>1
    <3>3. MembersOf(k + 1) \in Seq(T)
      BY <1>3, <3>1
    <3> DEFINE u == U(k)
               more == MembersOf(k + 1)
    <3>4. u \in Seq(T) => u \o more \in Seq(T)
      <4> HIDE DEF u, more
      <4> QED BY <3>3 DEF more
    <3> QED BY <2>2, <3>1, <3>2, <3>4
  <2>3. S = {}
    <3>1. S \in SUBSET Nat
      OBVIOUS
    <3> HIDE DEF S
    <3> QED BY <2>1, <2>2, <3>1, NoException
  <2> QED BY <1>1, <2>3
<1>5. \A k \in 0..last : /\ Len(U(k)) \in Nat /\ DOMAIN U(k) = 1..Len(U(k))
                        /\ U(k) \in Seq({U(k)[s] : s \in DOMAIN U(k)})
  <2> SUFFICES ASSUME NEW k \in 0..last
               PROVE  /\ Len(U(k)) \in Nat /\ DOMAIN U(k) = 1..Len(U(k))
                      /\ U(k) \in Seq({U(k)[s] : s \in DOMAIN U(k)})
    OBVIOUS
  <2>1. U(k) \in Seq(T)
    BY <1>4
  <2> QED BY <2>1, SeqFacts, SeqOfValues
<1> DEFINE Follows(k, i) ==
             /\ Len(U(i - 1)) + Len(MembersOf(i)) <= Len(U(k))
             /\ \A n \in 1..Len(MembersOf(i)) : U(k)[Len(U(i - 1)) + n] = MembersOf(i)[n]
           From(k, s) == \E i \in FileIds : \E n \in 1..Len(MembersOf(i)) : U(k)[s] = MembersOf(i)[n]
           Good(k) == /\ \A i \in 1..k : Follows(k, i)
                      /\ \A s \in 1..Len(U(k)) : From(k, s)
           S == {k \in Nat : k <= last /\ ~Good(k)}
<1>6. 0 \notin S
  <2>1. Len(U(0)) = 0
    BY <1>2
  <2> QED BY <2>1
<1>7. ASSUME NEW k \in Nat, k + 1 \in S PROVE k \in S
  <2> SUFFICES ASSUME Good(k), k + 1 \in 1..last PROVE Good(k + 1)
    BY <1>1, <1>7
  <2> DEFINE more == MembersOf(k + 1)
             before == U(k)
             after == U(k + 1)
  <2>1. after = before \o more /\ k + 1 \in FileIds /\ k \in 0..last
    <3>1. (k + 1) - 1 = k
      OBVIOUS
    <3> QED BY <1>1, <1>2, <3>1
  <2>2. before \in Seq(T) /\ more \in Seq(T) /\ Len(more) \in Nat /\ Len(before) \in Nat
    BY <1>3, <1>4, <1>5, <2>1
  <2>3. /\ Len(after) = Len(before) + Len(more)
        /\ \A n \in 1..Len(before) : after[n] = before[n]
        /\ \A n \in 1..Len(more) : after[Len(before) + n] = more[n]
    <3> HIDE DEF before, more, after
    <3> QED BY <2>1, <2>2
  <2>4. ASSUME NEW i \in 1..(k + 1) PROVE Follows(k + 1, i)
    <3>1. CASE i = k + 1
      <4>1. U(i - 1) = before /\ MembersOf(i) = more
        BY <3>1
      <4> QED BY <2>2, <2>3, <4>1
    <3>2. CASE i # k + 1
      <4>1. i \in 1..k /\ i - 1 \in 0..last /\ i \in FileIds
        BY <1>1, <2>1, <3>2
      <4>2. Follows(k, i) /\ Len(MembersOf(i)) \in Nat /\ Len(U(i - 1)) \in Nat
        BY <1>3, <1>5, <4>1
      <4> DEFINE start == Len(U(i - 1))
                 mine == MembersOf(i)
      <4>3. Len(mine) \in Nat /\ start \in Nat
        BY <4>2
      <4>4. /\ start + Len(mine) <= Len(before)
            /\ \A n \in 1..Len(mine) : before[start + n] = mine[n]
        BY <4>2
      <4> HIDE DEF before, more, after, start, mine
      <4>5. start + Len(mine) <= Len(after)
        BY <2>2, <2>3, <4>3, <4>4
      <4>6. ASSUME NEW n \in 1..Len(mine) PROVE after[start + n] = mine[n]
        <5>1. start + n \in 1..Len(before)
          BY <2>2, <4>3, <4>4
        <5> QED BY <2>3, <4>4, <5>1
      <4> QED BY <4>5, <4>6 DEF start, mine, after
    <3> QED BY <3>1, <3>2
  <2>5. ASSUME NEW s \in 1..Len(after) PROVE From(k + 1, s)
    <3>1. CASE s \in 1..Len(before)
      <4>1. From(k, s) /\ after[s] = before[s]
        BY <2>3, <3>1
      <4> QED BY <4>1
    <3>2. CASE s \notin 1..Len(before)
      <4>1. s - Len(before) \in 1..Len(more) /\ s = Len(before) + (s - Len(before))
        <5> HIDE DEF before, more, after
        <5> QED BY <2>2, <2>3, <3>2
      <4>2. after[s] = more[s - Len(before)]
        <5> HIDE DEF before, more, after
        <5> QED BY <2>3, <4>1
      <4> QED BY <2>1, <4>1, <4>2
    <3> QED BY <3>1, <3>2
  <2> QED BY <2>4, <2>5
<1>8. S = {}
  <2>1. S \in SUBSET Nat
    OBVIOUS
  <2> HIDE DEF S
  <2> QED BY <1>6, <1>7, <2>1, NoException
<1>9. Good(last)
  <2> HIDE DEF Good
  <2> QED BY <1>1, <1>8
<1>10. \A i \in FileIds : \A n \in 1..Len(MembersOf(i)) :
         /\ Len(U(i - 1)) + n \in DOMAIN U(last)
         /\ U(last)[Len(U(i - 1)) + n] = MembersOf(i)[n]
  <2> SUFFICES ASSUME NEW i \in FileIds, NEW n \in 1..Len(MembersOf(i))
               PROVE  /\ Len(U(i - 1)) + n \in DOMAIN U(last)
                      /\ U(last)[Len(U(i - 1)) + n] = MembersOf(i)[n]
    OBVIOUS
  <2>1. i - 1 \in 0..last /\ i \in 1..last /\ last \in 0..last
    BY <1>1
  <2>2. Follows(last, i)
    BY <1>9, <2>1
  <2>3. Len(U(i - 1)) \in Nat /\ DOMAIN U(last) = 1..Len(U(last)) /\ Len(MembersOf(i)) \in Nat
    BY <1>3, <1>5, <2>1
  <2> QED BY <2>2, <2>3
<1>11. \A s \in DOMAIN U(last) :
         \E i \in FileIds : \E n \in 1..Len(MembersOf(i)) : U(last)[s] = MembersOf(i)[n]
  <2>1. DOMAIN U(last) = 1..Len(U(last))
    BY <1>1, <1>5
  <2> QED BY <1>9, <2>1
<1> QED BY <1>5, <1>10, <1>11 DEF U, last

Members == FunctionsOf(syntax) \cup ConstructorsOf(syntax)

\* What a member's declaration says of its symbol.
LEMMA MemberSymbolTyped ==
  ASSUME NEW i, NEW m \in Members, NEW kind
  PROVE  /\ DOMAIN MemberSymbol(i, m, kind) = SymbolFields
         /\ MemberSymbol(i, m, kind).file = i
         /\ MemberSymbol(i, m, kind).type \in TypesOf(syntax)
         /\ MemberSymbol(i, m, kind).body \in Seq(StatementsOf(syntax))
         /\ \A t \in MemberSymbol(i, m, kind).throws : IsError(t)
         /\ MemberSymbol(i, m, kind).kind = kind
         /\ MemberSymbol(i, m, kind).name = m.name
         /\ MemberSymbol(i, m, kind).abstract = m.abstract
         /\ MemberSymbol(i, m, kind).static = m.static
         /\ MemberSymbol(i, m, kind).private = m.private
         /\ MemberSymbol(i, m, kind).declared
         /\ MemberSymbol(i, m, kind).valid => (kind = "function" => ModifiersAllowed(i, m))
<1>1. m.ret \in TypesOf(syntax) /\ m.body \in Seq(StatementsOf(syntax))
  BY DEF Members, FunctionsOf, ConstructorsOf
<1>2. \A t \in ResolvedThrows(m) : IsError(t)
  <2>1. m.throws \in Seq(TypesOf(syntax))
    BY DEF Members, FunctionsOf, ConstructorsOf
  <2> QED BY <2>1 DEF ResolvedThrows, IsError, ToSet
<1> QED BY <1>1, <1>2 DEF MemberSymbol, SymbolFields

\* The pass over members gives each one a symbol of its own, or leaves an error.
LEMMA MembersEstablish ==
  ASSUME WellFormedProgram(syntax), HierarchyFacts, RegisterMembers, errors' = {}
  PROVE  HierarchyFacts' /\ SymbolFacts'
<1> DEFINE last == Len(syntax)
           first(i) == Len(SymbolsUpTo(i - 1))
           count(i) == Len(syntax[i].functions)
<1>1. /\ syntax' = syntax /\ symbols' = SymbolsUpTo(last)
      /\ files' = [i \in FileIds |-> [files[i] EXCEPT
             !.functions = [n \in DOMAIN syntax[i].functions |-> first(i) + n],
             !.constructor = IF syntax[i].constructors = <<>> THEN 0
                             ELSE first(i) + count(i) + 1]]
      /\ {<<"member", symbols'[s].file>> : s \in {n \in DOMAIN symbols' : ~symbols'[n].valid}}
           \subseteq errors'
  BY DEF RegisterMembers
<1>2. last \in Nat /\ FileIds = 1..last /\ Obj \in FileIds /\ FileIds' = FileIds
      /\ DOMAIN syntax = FileIds
  BY <1>1, ProgramTyped DEF FileIds
<1>3. \A s \in DOMAIN symbols' : symbols'[s].valid
  BY <1>1
<1>4. \A i \in FileIds : DOMAIN files[i] = FileFields
  BY DEF HierarchyFacts, FileTyped
<1>5. \A i \in FileIds : first(i) \in Nat
  <2>1. \A i \in FileIds : i - 1 \in 0..last
    BY <1>2
  <2> QED BY <2>1, SymbolsOfFiles
<1>6. \A i \in FileIds :
        /\ count(i) \in Nat /\ DOMAIN syntax[i].functions = 1..count(i)
        /\ \A n \in 1..count(i) : syntax[i].functions[n] \in FunctionsOf(syntax)
        /\ \A n \in 1..count(i) :
             /\ first(i) + n \in DOMAIN symbols'
             /\ symbols'[first(i) + n] = MemberSymbol(i, syntax[i].functions[n], "function")
        /\ syntax[i].constructors # <<>> =>
             /\ first(i) + count(i) + 1 \in DOMAIN symbols'
             /\ symbols'[first(i) + count(i) + 1]
                  = MemberSymbol(i, syntax[i].constructors[1], "constructor")
  <2> SUFFICES ASSUME NEW i \in FileIds
               PROVE  /\ count(i) \in Nat /\ DOMAIN syntax[i].functions = 1..count(i)
                      /\ \A n \in 1..count(i) : syntax[i].functions[n] \in FunctionsOf(syntax)
                      /\ \A n \in 1..count(i) :
                           /\ first(i) + n \in DOMAIN symbols'
                           /\ symbols'[first(i) + n] = MemberSymbol(i, syntax[i].functions[n], "function")
                      /\ syntax[i].constructors # <<>> =>
                           /\ first(i) + count(i) + 1 \in DOMAIN symbols'
                           /\ symbols'[first(i) + count(i) + 1]
                                = MemberSymbol(i, syntax[i].constructors[1], "constructor")
    OBVIOUS
  <2> DEFINE more == Len(syntax[i].constructors)
  <2>1. /\ count(i) \in Nat /\ more \in 0..1 /\ DOMAIN syntax[i].functions = 1..count(i)
        /\ Len(MembersOf(i)) = count(i) + more
        /\ \A n \in 1..count(i) :
             MembersOf(i)[n] = MemberSymbol(i, syntax[i].functions[n], "function")
        /\ more = 1 => MembersOf(i)[count(i) + 1]
                          = MemberSymbol(i, syntax[i].constructors[1], "constructor")
    BY MembersOfFile
  <2>2. \A n \in 1..count(i) : syntax[i].functions[n] \in FunctionsOf(syntax)
    <3>1. syntax[i].functions \in Seq(FunctionsOf(syntax))
      BY ProgramTyped
    <3> QED BY <3>1, SeqFacts
  <2>3. \A n \in 1..Len(MembersOf(i)) :
          /\ first(i) + n \in DOMAIN symbols'
          /\ symbols'[first(i) + n] = MembersOf(i)[n]
    BY <1>1, SymbolsOfFiles
  <2>4. syntax[i].constructors # <<>> => more = 1
    <3>1. syntax[i].constructors \in Seq(ConstructorsOf(syntax))
      BY ProgramTyped
    <3>2. Len(syntax[i].constructors) = 0 => syntax[i].constructors = <<>>
      BY <3>1
    <3> QED BY <2>1, <3>2
  <2> HIDE DEF first, count, more
  <2>5. first(i) + count(i) + 1 = first(i) + (count(i) + 1) /\ first(i) \in Nat
    BY <1>5, <2>1
  <2>6. \A n \in 1..count(i) : n \in 1..Len(MembersOf(i))
    BY <2>1
  <2>7. more = 1 => count(i) + 1 \in 1..Len(MembersOf(i))
    BY <2>1
  <2> QED BY <2>1, <2>2, <2>3, <2>4, <2>5, <2>6, <2>7
<1> HIDE DEF first, count
<1>7. \A i \in FileIds :
        /\ files'[i].functions = [n \in DOMAIN syntax[i].functions |-> first(i) + n]
        /\ files'[i].constructor = IF syntax[i].constructors = <<>> THEN 0
                                   ELSE first(i) + count(i) + 1
        /\ DOMAIN files'[i] = FileFields
        /\ files'[i].base = files[i].base /\ files'[i].direct = files[i].direct
        /\ files'[i].interfaces = files[i].interfaces /\ files'[i].contract = files[i].contract
        /\ files'[i].virtuals = files[i].virtuals
  BY <1>1, <1>4 DEF FileFields
<1>8. \A i \in FileIds : FileTyped(i)'
  <2> SUFFICES ASSUME NEW i \in FileIds PROVE FileTyped(i)'
    OBVIOUS
  <2>1. files'[i].functions \in [1..count(i) -> Nat]
    <3>1. first(i) \in Nat /\ count(i) \in Nat
      BY <1>5, <1>6
    <3>2. files'[i].functions = [n \in 1..count(i) |-> first(i) + n]
      BY <1>6, <1>7
    <3> QED BY <3>1, <3>2
  <2>2. files'[i].functions \in Seq(Nat)
    BY <1>6, <2>1, FunctionIsSeq
  <2>3. FileTyped(i)
    BY DEF HierarchyFacts
  <2> QED BY <1>1, <1>2, <1>7, <2>2, <2>3 DEF FileTyped
<1>9. HierarchyFacts'
  <2>1. DOMAIN files' = FileIds
    BY <1>1
  <2> QED BY <1>1, <1>2, <1>7, <1>8, <2>1, HierarchyStable
<1>10. /\ Len(symbols') \in Nat /\ DOMAIN symbols' = 1..Len(symbols')
       /\ symbols' \in Seq({symbols'[s] : s \in DOMAIN symbols'})
  <2>1. last \in 0..last
    BY <1>2
  <2> QED BY ZenonT(60), <1>1, <2>1, SymbolsOfFiles
<1>11. \A s \in DOMAIN symbols' : WellTyped(symbols[s])'
  <2> SUFFICES ASSUME NEW s \in DOMAIN symbols' PROVE WellTyped(symbols[s])'
    OBVIOUS
  <2>0. PICK i \in FileIds : \E n \in 1..Len(MembersOf(i)) : symbols'[s] = MembersOf(i)[n]
    BY <1>1, SymbolsOfFiles
  <2>1. PICK n \in 1..Len(MembersOf(i)) : symbols'[s] = MembersOf(i)[n]
    BY <2>0
  <2>2. \E m \in Members, kind \in {"function", "constructor"} :
          /\ symbols'[s] = MemberSymbol(i, m, kind)
          /\ syntax[i].kind = "interface" => kind = "function" /\ m.body = <<>>
    <3> DEFINE more == Len(syntax[i].constructors)
    <3>1. /\ count(i) \in Nat /\ more \in 0..1
          /\ Len(MembersOf(i)) = count(i) + more
          /\ \A k \in 1..count(i) :
               MembersOf(i)[k] = MemberSymbol(i, syntax[i].functions[k], "function")
          /\ more = 1 => MembersOf(i)[count(i) + 1]
                            = MemberSymbol(i, syntax[i].constructors[1], "constructor")
      BY MembersOfFile DEF count
    <3>2. more = 1 => syntax[i].constructors[1] \in ConstructorsOf(syntax)
      <4>1. syntax[i].constructors \in Seq(ConstructorsOf(syntax))
        BY ProgramTyped
      <4> QED BY <4>1, SeqFacts
    <3> HIDE DEF more
    <3>3. CASE n \in 1..count(i)
      <4>1. /\ syntax[i].functions[n] \in Members
            /\ symbols'[s] = MemberSymbol(i, syntax[i].functions[n], "function")
        BY <1>6, <2>1, <3>1, <3>3 DEF Members
      <4>2. syntax[i].kind = "interface" => syntax[i].functions[n].body = <<>>
        <5>1. n \in DOMAIN syntax[i].functions
          BY <1>6, <3>3
        <5> QED BY <1>2, <5>1 DEF WellFormedProgram
      <4> QED BY <4>1, <4>2
    <3>4. CASE n \notin 1..count(i)
      <4>1. more = 1 /\ n = count(i) + 1
        BY <2>1, <3>1, <3>4
      <4>2. syntax[i].kind # "interface"
        <5>1. syntax[i].kind = "interface" => syntax[i].constructors = <<>>
          BY <1>2 DEF WellFormedProgram
        <5> QED BY <4>1, <5>1 DEF more
      <4> QED BY <2>1, <3>1, <3>2, <4>1, <4>2 DEF Members
    <3> QED BY <3>3, <3>4
  <2>3. PICK m \in Members, kind \in {"function", "constructor"} :
          /\ symbols'[s] = MemberSymbol(i, m, kind)
          /\ syntax[i].kind = "interface" => kind = "function" /\ m.body = <<>>
    BY <2>2
  <2>4. /\ DOMAIN symbols'[s] = SymbolFields /\ symbols'[s].file = i
        /\ symbols'[s].type \in TypesOf(syntax)
        /\ symbols'[s].body \in Seq(StatementsOf(syntax))
        /\ \A t \in symbols'[s].throws : IsError(t)
        /\ symbols'[s].slot = 0 /\ symbols'[s].baseConstructor = 0
        /\ symbols'[s].kind = kind /\ symbols'[s].body = m.body
    <3>1. /\ DOMAIN MemberSymbol(i, m, kind) = SymbolFields
          /\ MemberSymbol(i, m, kind).file = i
          /\ MemberSymbol(i, m, kind).type \in TypesOf(syntax)
          /\ MemberSymbol(i, m, kind).body \in Seq(StatementsOf(syntax))
          /\ \A t \in MemberSymbol(i, m, kind).throws : IsError(t)
          /\ MemberSymbol(i, m, kind).slot = 0 /\ MemberSymbol(i, m, kind).baseConstructor = 0
          /\ MemberSymbol(i, m, kind).kind = kind /\ MemberSymbol(i, m, kind).body = m.body
      <4>1. m.ret \in TypesOf(syntax) /\ m.body \in Seq(StatementsOf(syntax))
        BY DEF Members, FunctionsOf, ConstructorsOf
      <4>2. \A t \in ResolvedThrows(m) : IsError(t)
        <5>1. m.throws \in Seq(TypesOf(syntax))
          BY DEF Members, FunctionsOf, ConstructorsOf
        <5> QED BY <5>1 DEF ResolvedThrows, IsError, ToSet
      <4> QED BY <4>1, <4>2 DEF MemberSymbol, SymbolFields
    <3> QED BY <2>3, <3>1
  <2>5. \A t : TypeKind(t)' = TypeKind(t)
    BY <1>1 DEF TypeKind
  <2> QED BY <1>1, <1>2, <1>3, <2>3, <2>4, <2>5 DEF WellTyped, IsError, IsInterface
<1>12. ASSUME NEW i \in FileIds
       PROVE  /\ DOMAIN files'[i].functions = DOMAIN syntax'[i].functions
              /\ \A n \in DOMAIN files'[i].functions : FunctionRegistered(i, n)'
              /\ ConstructorRegistered(i)'
  <2>1. DOMAIN files'[i].functions = DOMAIN syntax'[i].functions
    BY <1>1, <1>7
  <2>2. ASSUME NEW n \in DOMAIN files'[i].functions PROVE FunctionRegistered(i, n)'
    <3> DEFINE s == first(i) + n
               m == syntax[i].functions[n]
    <3>1. n \in 1..count(i) /\ files'[i].functions[n] = s
      BY <1>6, <1>7
    <3>2. s \in DOMAIN symbols' /\ symbols'[s] = MemberSymbol(i, m, "function")
          /\ m \in FunctionsOf(syntax)
      BY <1>6, <3>1
    <3> HIDE DEF s
    <3>3. /\ symbols'[s].kind = "function" /\ symbols'[s].file = i /\ symbols'[s].declared
          /\ symbols'[s].name = m.name /\ symbols'[s].abstract = m.abstract
          /\ symbols'[s].static = m.static /\ symbols'[s].private = m.private
      BY <3>2, MemberSymbolTyped DEF Members
    <3>4. ModifiersAllowed(i, m)
      BY <1>3, <3>2, MemberSymbolTyped DEF Members
    <3>5. syntax[i].kind = "interface" => ~m.static /\ ~m.private
      <4> SUFFICES ASSUME syntax[i].kind = "interface" PROVE ~m.static /\ ~m.private
        OBVIOUS
      <4>1. m.abstract
        BY <1>2, <1>6, <3>1 DEF WellFormedProgram
      <4> QED BY <3>4, <4>1 DEF ModifiersAllowed
    <3> QED BY <1>1, <3>1, <3>2, <3>3, <3>5 DEF FunctionRegistered, IsInterface
  <2>3. ConstructorRegistered(i)'
    <3> SUFFICES ASSUME files'[i].constructor # 0
                 PROVE  /\ files'[i].constructor \in DOMAIN symbols'
                        /\ symbols'[files'[i].constructor].kind = "constructor"
                        /\ symbols'[files'[i].constructor].file = i
                        /\ symbols'[files'[i].constructor].declared
      BY DEF ConstructorRegistered
    <3>1. syntax[i].constructors # <<>> /\ files'[i].constructor = first(i) + count(i) + 1
      BY <1>7
    <3> DEFINE s == first(i) + count(i) + 1
    <3>2. s \in DOMAIN symbols' /\ symbols'[s] = MemberSymbol(i, syntax[i].constructors[1], "constructor")
      BY <1>6, <3>1
    <3> HIDE DEF s
    <3>4. symbols'[s].kind = "constructor" /\ symbols'[s].file = i /\ symbols'[s].declared
      BY <3>2 DEF MemberSymbol
    <3> QED BY <3>1, <3>2, <3>4 DEF s
  <2> QED BY <2>1, <2>2, <2>3
<1> QED BY <1>2, <1>9, <1>10, <1>11, <1>12 DEF SymbolFacts

-----------------------------------------------------------------------------
(* Joining sequences. *)

\* flatten[k] is the concatenation of the first k sequences.
FlattenSteps(seqs, f, n) ==
  f = [k \in 1..n |-> IF k = 1 THEN seqs[k] ELSE f[k - 1] \o seqs[k]]

\* FlattenSeq is the end of its loop.
LEMMA FlattenUnfolds ==
  ASSUME NEW seqs, Len(seqs) \in Nat, Len(seqs) # 0
  PROVE  \E f : FlattenSteps(seqs, f, Len(seqs)) /\ FlattenSeq(seqs) = f[Len(seqs)]
<1> DEFINE S == {n \in Nat : ~\E f : FlattenSteps(seqs, f, n)}
<1>1. 0 \notin S
  <2>1. FlattenSteps(seqs, [k \in 1..0 |-> <<>>], 0)
    BY DEF FlattenSteps
  <2> QED BY <2>1
<1>2. ASSUME NEW n \in Nat, n \notin S PROVE n + 1 \notin S
  <2>1. PICK g : FlattenSteps(seqs, g, n)
    BY <1>2
  <2> DEFINE f == [k \in 1..(n + 1) |-> IF k = n + 1
                     THEN IF k = 1 THEN seqs[k] ELSE g[n] \o seqs[k] ELSE g[k]]
  <2>2. \A k \in 1..n : g[k] = IF k = 1 THEN seqs[k] ELSE g[k - 1] \o seqs[k]
    BY <2>1 DEF FlattenSteps
  <2>3. \A k \in 1..(n + 1) : f[k] = IF k = 1 THEN seqs[k] ELSE f[k - 1] \o seqs[k]
    <3>1. f[n + 1] = IF n + 1 = 1 THEN seqs[n + 1] ELSE f[n] \o seqs[n + 1]
      <4>1. n + 1 # 1 => n \in 1..(n + 1) /\ n # n + 1
        OBVIOUS
      <4>2. n + 1 # 1 => f[n] = g[n]
        BY <4>1
      <4>3. f[n + 1] = IF n + 1 = 1 THEN seqs[n + 1] ELSE g[n] \o seqs[n + 1]
        OBVIOUS
      <4> HIDE DEF f
      <4> QED BY <4>2, <4>3
    <3>2. \A k \in 1..n : f[k] = g[k] /\ (k # 1 => f[k - 1] = g[k - 1])
      OBVIOUS
    <3>3. (n + 1) - 1 = n
      OBVIOUS
    <3> HIDE DEF f
    <3> SUFFICES ASSUME NEW k \in 1..(n + 1)
                 PROVE  f[k] = IF k = 1 THEN seqs[k] ELSE f[k - 1] \o seqs[k]
      OBVIOUS
    <3>4. CASE k = n + 1
      BY <3>1, <3>3, <3>4
    <3>5. CASE k \in 1..n
      BY <2>2, <3>2, <3>5
    <3> QED BY <3>4, <3>5
  <2>4. FlattenSteps(seqs, f, n + 1)
    BY <2>3 DEF FlattenSteps
  <2> QED BY <2>4
<1>3. S = {}
  <2>1. S \in SUBSET Nat
    OBVIOUS
  <2> HIDE DEF S
  <2> QED BY <1>1, <1>2, <2>1, NoException
<1> DEFINE made == CHOOSE f : FlattenSteps(seqs, f, Len(seqs))
<1>4. FlattenSteps(seqs, made, Len(seqs))
  BY <1>3
<1>5. FlattenSeq(seqs) = made[Len(seqs)]
  BY DEF FlattenSeq, FlattenSteps
<1> QED BY <1>4, <1>5

\* The elements of a concatenation.
LEMMA ConcatElements ==
  ASSUME NEW T, NEW s \in Seq(T), NEW t \in Seq(T)
  PROVE  ToSet(s \o t) = ToSet(s) \cup ToSet(t)
<1>1. /\ Len(s) \in Nat /\ DOMAIN s = 1..Len(s) /\ Len(t) \in Nat /\ DOMAIN t = 1..Len(t)
      /\ s \o t \in Seq(T) /\ Len(s \o t) = Len(s) + Len(t)
      /\ \A n \in 1..Len(s) : (s \o t)[n] = s[n]
      /\ \A n \in 1..Len(t) : (s \o t)[Len(s) + n] = t[n]
  OBVIOUS
<1> DEFINE u == s \o t
<1>2. DOMAIN u = 1..(Len(s) + Len(t))
  BY <1>1
<1> HIDE DEF u
<1>3. \A n \in 1..Len(s) : n \in DOMAIN u /\ u[n] = s[n]
  BY <1>1, <1>2 DEF u
<1>4. \A n \in 1..Len(t) : Len(s) + n \in DOMAIN u /\ u[Len(s) + n] = t[n]
  BY <1>1, <1>2 DEF u
<1>5. \A n \in DOMAIN u : n \in 1..Len(s) \/ (n - Len(s) \in 1..Len(t) /\ n = Len(s) + (n - Len(s)))
  BY <1>1, <1>2
<1>6. ToSet(u) \subseteq ToSet(s) \cup ToSet(t)
  BY <1>1, <1>3, <1>4, <1>5 DEF ToSet
<1>7. ToSet(s) \cup ToSet(t) \subseteq ToSet(u)
  BY <1>1, <1>3, <1>4 DEF ToSet
<1> QED BY <1>6, <1>7 DEF u

\* The elements of sequences one after the other.
LEMMA FlattenElements ==
  ASSUME NEW T, NEW seqs, Len(seqs) \in Nat, DOMAIN seqs = 1..Len(seqs),
         \A n \in 1..Len(seqs) : seqs[n] \in Seq(T), seqs \in Seq(Seq(T))
  PROVE  /\ FlattenSeq(seqs) \in Seq(T)
         /\ ToSet(FlattenSeq(seqs)) = UNION {ToSet(seqs[n]) : n \in 1..Len(seqs)}
<1> DEFINE last == Len(seqs)
<1>1. CASE last = 0
  <2>1. FlattenSeq(seqs) = seqs /\ seqs = <<>>
    BY <1>1 DEF FlattenSeq
  <2>2. <<>> \in Seq(T) /\ ToSet(<<>>) = {} /\ 1..last = {}
    BY <1>1 DEF ToSet
  <2>3. UNION {ToSet(seqs[n]) : n \in 1..last} = {}
    BY <2>2
  <2> QED BY <2>1, <2>2, <2>3
<1>2. CASE last # 0
  <2>1. PICK f : FlattenSteps(seqs, f, last) /\ FlattenSeq(seqs) = f[last]
    BY <1>2, FlattenUnfolds
  <2> DEFINE Good(k) == /\ f[k] \in Seq(T)
                        /\ ToSet(f[k]) = UNION {ToSet(seqs[n]) : n \in 1..k}
             S == {k \in Nat : k + 1 <= last /\ ~Good(k + 1)}
  <2> HIDE DEF last
  <2>2. \A k \in 1..last : f[k] = IF k = 1 THEN seqs[k] ELSE f[k - 1] \o seqs[k]
    BY <2>1 DEF FlattenSteps
  <2>3. last \in Nat /\ 1 \in 1..last /\ \A n \in 1..last : seqs[n] \in Seq(T)
    BY <1>2 DEF last
  <2>4. Good(1)
    <3>1. f[1] = seqs[1]
      BY <2>2, <2>3
    <3>2. {ToSet(seqs[n]) : n \in 1..1} = {ToSet(seqs[1])}
      OBVIOUS
    <3> QED BY <2>3, <3>1, <3>2
  <2>5. 0 \notin S
    BY <2>4
  <2>6. ASSUME NEW k \in Nat, k + 1 \in S PROVE k \in S
    <3>0. (k + 1) + 1 = k + 2 /\ (k + 2 <= last => k + 2 \in 1..last)
      BY <2>3
    <3> HIDE DEF Good
    <3>a. (k + 1) + 1 <= last /\ ~Good((k + 1) + 1)
      BY <2>6
    <3>b. k + 2 \in 1..last /\ k + 1 <= last /\ ~Good(k + 2)
      BY <2>3, <3>0, <3>a
    <3> SUFFICES ASSUME Good(k + 1) PROVE Good(k + 2)
      BY <3>b
    <3> USE DEF Good
    <3> DEFINE before == f[k + 1]
               more == seqs[k + 2]
    <3>1. f[k + 2] = before \o more
      <4>1. k + 2 # 1 /\ (k + 2) - 1 = k + 1
        OBVIOUS
      <4> QED BY <2>2, <3>b, <4>1
    <3>2. before \in Seq(T) /\ more \in Seq(T)
      BY <2>3, <3>b
    <3>3. before \o more \in Seq(T) /\ ToSet(before \o more) = ToSet(before) \cup ToSet(more)
      <4> HIDE DEF before, more
      <4> QED BY <3>2, ConcatElements, ConcatFacts
    <3>4. 1..(k + 2) = 1..(k + 1) \cup {k + 2}
      OBVIOUS
    <3>5. UNION {ToSet(seqs[n]) : n \in 1..(k + 2)}
            = (UNION {ToSet(seqs[n]) : n \in 1..(k + 1)}) \cup ToSet(more)
      BY <3>4
    <3> HIDE DEF before, more
    <3> QED BY <3>1, <3>3, <3>5 DEF before
  <2>7. S = {}
    <3>1. S \in SUBSET Nat
      OBVIOUS
    <3> HIDE DEF S
    <3> QED BY <2>5, <2>6, <3>1, NoException
  <2>8. Good(last)
    <3>1. last - 1 \in Nat /\ (last - 1) + 1 = last /\ last <= last
      BY <2>3
    <3>2. last - 1 \notin S
      BY <2>7
    <3> HIDE DEF Good
    <3> QED BY <3>1, <3>2
  <2> QED BY <2>1, <2>8 DEF last
<1> QED BY <1>1, <1>2

-----------------------------------------------------------------------------
(* validate_interface_contracts *)

\* Matching finds the first entry of a name, or there is none.
LEMMA MatchingEntry ==
  ASSUME NEW sy, NEW table, NEW c, Len(table) \in Nat, DOMAIN table = 1..Len(table)
  PROVE  /\ Matching(sy, table, c) # 0 =>
              /\ Matching(sy, table, c) \in DOMAIN table
              /\ sy[table[Matching(sy, table, c)]].name = sy[c].name
         /\ Matching(sy, table, c) = 0 =>
              \A n \in DOMAIN table : sy[table[n]].name # sy[c].name
<1> DEFINE Named == {n \in DOMAIN table : sy[table[n]].name = sy[c].name}
<1>1. CASE Named = {}
  <2>1. ~\E n \in DOMAIN table : sy[table[n]].name = sy[c].name
    BY <1>1
  <2> QED BY <2>1 DEF Matching
<1>2. CASE Named # {}
  <2>1. PICK least \in Named : \A other \in Named : least <= other
    <3>1. Named \in SUBSET Nat
      OBVIOUS
    <3> HIDE DEF Named
    <3> QED BY <1>2, <3>1, LeastNumber
  <2>2. \E n \in DOMAIN table : sy[table[n]].name = sy[c].name
    BY <1>2
  <2>3. /\ sy[table[least]].name = sy[c].name
        /\ \A m \in 1..(least - 1) : sy[table[m]].name # sy[c].name
    <3>1. \A m \in 1..(least - 1) : m \in DOMAIN table /\ ~(least <= m)
      OBVIOUS
    <3> QED BY <2>1, <3>1
  <2>4. /\ Matching(sy, table, c) \in DOMAIN table
        /\ sy[table[Matching(sy, table, c)]].name = sy[c].name
    BY <2>1, <2>2, <2>3 DEF Matching
  <2> QED BY <2>4
<1> QED BY <1>1, <1>2

Dispatchable(v) == v.kind = "function" /\ ~v.static /\ ~v.private

\* The symbols sy extend symbols() by the contracts of a merge.
Grown(sy) ==
  /\ Len(sy) \in Nat /\ DOMAIN sy = 1..Len(sy) /\ Len(symbols) <= Len(sy)
  /\ sy \in Seq({sy[s] : s \in DOMAIN sy})
  /\ \A s \in DOMAIN symbols : s \in DOMAIN sy /\ sy[s] = symbols[s]
  /\ \A s \in DOMAIN sy : WellTyped(sy[s]) /\ (s \notin DOMAIN symbols => ~sy[s].declared)
\* A contract under construction: public instance functions among sy.
Merging(acc) ==
  /\ DOMAIN acc = {"contract", "sy", "ok"}
  /\ Grown(acc.sy)
  /\ acc.contract \in Seq(Nat)
  /\ \A n \in DOMAIN acc.contract :
       acc.contract[n] \in DOMAIN acc.sy /\ Dispatchable(acc.sy[acc.contract[n]])

\* The copy of a selected function with the permitted errors.
MergedSymbol(v, i, permitted) ==
  [v EXCEPT !.file = i, !.throws = permitted, !.explicit = TRUE,
            !.slot = 0, !.overridden = 0, !.declared = FALSE]

\* A merged contract is a function that is not declared.
LEMMA MergedSymbolTyped ==
  ASSUME NEW v, WellTyped(v), Dispatchable(v), NEW i \in FileIds, NEW permitted,
         \A t \in permitted : IsError(t)
  PROVE  /\ WellTyped(MergedSymbol(v, i, permitted))
         /\ Dispatchable(MergedSymbol(v, i, permitted))
         /\ ~MergedSymbol(v, i, permitted).declared
BY DEF WellTyped, Dispatchable, MergedSymbol, SymbolFields

\* A sequence with one more element.
LEMMA AppendFacts ==
  ASSUME NEW T, NEW s \in Seq(T), NEW x
  PROVE  /\ Len(Append(s, x)) = Len(s) + 1 /\ Len(s) \in Nat
         /\ DOMAIN Append(s, x) = 1..(Len(s) + 1) /\ DOMAIN s = 1..Len(s)
         /\ \A n \in 1..Len(s) : Append(s, x)[n] = s[n]
         /\ Append(s, x)[Len(s) + 1] = x
         /\ Append(s, x) \in Seq(T \cup {x})
<1>1. s \in Seq(T \cup {x}) /\ x \in T \cup {x}
  OBVIOUS
<1> QED BY <1>1

\* A sequence with one element replaced.
LEMMA ReplaceFacts ==
  ASSUME NEW T, NEW s \in Seq(T), NEW n, NEW x \in T
  PROVE  [s EXCEPT ![n] = x] \in Seq(T) /\ DOMAIN [s EXCEPT ![n] = x] = DOMAIN s
<1>1. s \in [1..Len(s) -> T] /\ Len(s) \in Nat
  OBVIOUS
<1>2. [s EXCEPT ![n] = x] \in [1..Len(s) -> T]
  BY <1>1
<1> QED BY <1>1, <1>2, FunctionIsSeq

\* One more symbol keeps the ones before it.
LEMMA GrownByOne ==
  ASSUME NEW sy, Grown(sy), NEW v, WellTyped(v), ~v.declared
  PROVE  /\ Grown(Append(sy, v)) /\ Len(sy) + 1 \in DOMAIN Append(sy, v)
         /\ Append(sy, v)[Len(sy) + 1] = v
         /\ \A s \in DOMAIN sy : s \in DOMAIN Append(sy, v) /\ Append(sy, v)[s] = sy[s]
<1> DEFINE more == Append(sy, v)
<1>0. sy \in Seq({sy[s] : s \in DOMAIN sy})
  BY DEF Grown
<1>1. /\ Len(more) = Len(sy) + 1 /\ Len(sy) \in Nat
      /\ DOMAIN more = 1..(Len(sy) + 1) /\ DOMAIN sy = 1..Len(sy)
      /\ \A n \in 1..Len(sy) : more[n] = sy[n]
      /\ more[Len(sy) + 1] = v
      /\ more \in Seq({sy[s] : s \in DOMAIN sy} \cup {v})
  BY <1>0, AppendFacts
<1> HIDE DEF more
<1>2. more \in Seq({more[s] : s \in DOMAIN more})
  BY <1>1, SeqOfValues
<1>3. \A s \in DOMAIN more : s = Len(sy) + 1 \/ s \in DOMAIN sy
  BY <1>1
<1>4. Len(sy) + 1 \in DOMAIN more /\ \A s \in DOMAIN sy : s \in DOMAIN more
  BY <1>1
<1>5. Len(symbols) <= Len(more) /\ Len(more) \in Nat /\ DOMAIN more = 1..Len(more)
  <2>1. Len(symbols) <= Len(sy) /\ Len(sy) \in Nat
    BY DEF Grown
  <2> QED BY <1>1, <2>1 
<1>6. Len(sy) + 1 \notin DOMAIN symbols
  <2>1. Len(sy) + 1 \notin DOMAIN sy
    BY <1>1
  <2> QED BY <2>1 DEF Grown
<1> QED BY <1>1, <1>2, <1>3, <1>4, <1>5, <1>6 DEF Grown, more

\* An error both sides permit is one of the errors of either.
LEMMA PermittedErrors ==
  ASSUME NEW bs, NEW left, NEW right, \A t \in left \cup right : IsError(t)
  PROVE  \A t \in IntersectErrorSets(bs, left, right) : IsError(t)
BY DEF IntersectErrorSets, NormalizeErrorSet

\* One function joins a contract.
LEMMA MergeStep ==
  ASSUME NEW i \in FileIds, NEW is, NEW acc, Merging(acc),
         NEW c \in DOMAIN acc.sy, Dispatchable(acc.sy[c])
  PROVE  /\ Merging(MergeFunction(i, is, acc, c))
         /\ \A s \in DOMAIN acc.sy :
              /\ s \in DOMAIN MergeFunction(i, is, acc, c).sy
              /\ MergeFunction(i, is, acc, c).sy[s] = acc.sy[s]
<1> DEFINE at == Matching(acc.sy, acc.contract, c)
           old == acc.contract[at]
           fits == IsOverrideReturnCompatible(Bases, is, acc.sy[old].type, acc.sy[c].type)
           back == IsOverrideReturnCompatible(Bases, is, acc.sy[c].type, acc.sy[old].type)
           selected == IF fits THEN c ELSE old
           permitted == IntersectErrorSets(Bases, acc.sy[old].throws, acc.sy[c].throws)
           made == MergeFunction(i, is, acc, c)
           copy == MergedSymbol(acc.sy[selected], i, permitted)
<1>1. /\ DOMAIN acc = {"contract", "sy", "ok"}
      /\ Grown(acc.sy) /\ acc.contract \in Seq(Nat)
      /\ \A n \in DOMAIN acc.contract :
           acc.contract[n] \in DOMAIN acc.sy /\ Dispatchable(acc.sy[acc.contract[n]])
  BY DEF Merging
<1>2. made = IF ~acc.sy[c].valid THEN acc
             ELSE IF at = 0 THEN [acc EXCEPT !.contract = Append(@, c)]
             ELSE IF selected = old /\ ~back THEN [acc EXCEPT !.ok = FALSE]
             ELSE IF acc.sy[selected].throws = permitted
             THEN [acc EXCEPT !.contract[at] = selected]
             ELSE [acc EXCEPT !.contract[at] = Len(acc.sy) + 1, !.sy = Append(@, copy)]
  BY DEF MergeFunction, MergedSymbol
<1>3. /\ Len(acc.contract) \in Nat /\ DOMAIN acc.contract = 1..Len(acc.contract)
      /\ \A s \in DOMAIN acc.sy : s \in Nat
  BY <1>1 DEF Grown
<1>4. at # 0 => at \in DOMAIN acc.contract
  BY <1>3, MatchingEntry
<1>5. at # 0 => /\ selected \in DOMAIN acc.sy /\ Dispatchable(acc.sy[selected])
                /\ old \in DOMAIN acc.sy /\ Dispatchable(acc.sy[old])
  BY <1>1, <1>4
<1>6. at # 0 => \A t \in permitted : IsError(t)
  <2> SUFFICES ASSUME at # 0 PROVE \A t \in permitted : IsError(t)
    OBVIOUS
  <2>1. WellTyped(acc.sy[c]) /\ WellTyped(acc.sy[old])
    BY <1>1, <1>5 DEF Grown
  <2>2. \A t \in acc.sy[old].throws \cup acc.sy[c].throws : IsError(t)
    BY <1>5, <2>1 DEF WellTyped, Dispatchable
  <2> QED BY <2>2, PermittedErrors
<1>7. at # 0 => WellTyped(copy) /\ Dispatchable(copy) /\ ~copy.declared
  <2> SUFFICES ASSUME at # 0 PROVE WellTyped(copy) /\ Dispatchable(copy) /\ ~copy.declared
    OBVIOUS
  <2>1. WellTyped(acc.sy[selected]) /\ Dispatchable(acc.sy[selected])
    BY <1>1, <1>5 DEF Grown
  <2> HIDE DEF selected, permitted
  <2> QED BY <1>6, <2>1, MergedSymbolTyped
<1> HIDE DEF selected, permitted, copy, made, at, fits, back, old
<1>8. CASE ~acc.sy[c].valid
  BY <1>2, <1>8 DEF made
<1>9. CASE acc.sy[c].valid /\ at = 0
  <2>1. made = [acc EXCEPT !.contract = Append(@, c)]
    BY <1>2, <1>9
  <2>2. made.contract = Append(acc.contract, c) /\ made.sy = acc.sy
        /\ DOMAIN made = {"contract", "sy", "ok"}
    BY <1>1, <2>1
  <2> DEFINE old0 == acc.contract
             new0 == Append(old0, c)
  <2>3. c \in Nat
    BY <1>3
  <2>4. /\ DOMAIN new0 = 1..(Len(old0) + 1) /\ DOMAIN old0 = 1..Len(old0) /\ Len(old0) \in Nat
        /\ \A n \in 1..Len(old0) : new0[n] = old0[n]
        /\ new0[Len(old0) + 1] = c
        /\ new0 \in Seq(Nat)
    <3>1. old0 \in Seq(Nat)
      BY <1>1
    <3> HIDE DEF old0
    <3> QED BY <2>3, <3>1, AppendFacts
  <2> HIDE DEF old0, new0
  <2>5. \A n \in DOMAIN new0 : n = Len(old0) + 1 \/ n \in DOMAIN old0
    BY <2>4
  <2>6. \A n \in DOMAIN new0 : new0[n] \in DOMAIN acc.sy /\ Dispatchable(acc.sy[new0[n]])
    BY <1>1, <2>4, <2>5 DEF old0
  <2>7. made.contract = new0
    BY <2>2 DEF new0, old0
  <2>8. Merging(made)
    BY <1>1, <2>2, <2>4, <2>6, <2>7 DEF Merging
  <2> QED BY <2>2, <2>8 DEF made
<1>10. CASE acc.sy[c].valid /\ at # 0 /\ selected = old /\ ~back
  <2>1. made = [acc EXCEPT !.ok = FALSE]
    BY <1>2, <1>10
  <2>2. made.contract = acc.contract /\ made.sy = acc.sy /\ DOMAIN made = {"contract", "sy", "ok"}
    BY <1>1, <2>1
  <2>3. Merging(made)
    BY <1>1, <2>2 DEF Merging
  <2> QED BY <2>2, <2>3 DEF made
<1>11. CASE acc.sy[c].valid /\ at # 0 /\ ~(selected = old /\ ~back)
            /\ acc.sy[selected].throws = permitted
  <2>1. made = [acc EXCEPT !.contract[at] = selected]
    BY <1>2, <1>11
  <2>2. made.contract = [acc.contract EXCEPT ![at] = selected] /\ made.sy = acc.sy
        /\ DOMAIN made = {"contract", "sy", "ok"}
    BY <1>1, <2>1
  <2>3. selected \in Nat
    BY <1>3, <1>5, <1>11
  <2>4. made.contract \in Seq(Nat) /\ DOMAIN made.contract = DOMAIN acc.contract
    <3> DEFINE con == acc.contract
    <3>1. con \in Seq(Nat) /\ selected \in Nat
      BY <1>1, <2>3
    <3>2. made.contract = [con EXCEPT ![at] = selected]
      BY <2>2
    <3> HIDE DEF con
    <3>3. [con EXCEPT ![at] = selected] \in Seq(Nat) /\ DOMAIN [con EXCEPT ![at] = selected] = DOMAIN con
      BY <3>1, ReplaceFacts
    <3> QED BY <3>2, <3>3 DEF con
  <2>5. \A n \in DOMAIN made.contract :
          made.contract[n] = IF n = at THEN selected ELSE acc.contract[n]
    BY <2>2, <2>4
  <2>6. Merging(made)
    BY <1>1, <1>5, <1>11, <2>2, <2>4, <2>5 DEF Merging
  <2> QED BY <2>2, <2>6 DEF made
<1>12. CASE acc.sy[c].valid /\ at # 0 /\ ~(selected = old /\ ~back)
            /\ acc.sy[selected].throws # permitted
  <2> DEFINE sy == acc.sy
             new == Len(sy) + 1
             more == Append(sy, copy)
  <2>1. made = [acc EXCEPT !.contract[at] = Len(acc.sy) + 1, !.sy = Append(@, copy)]
    BY <1>2, <1>12
  <2>2. made.contract = [acc.contract EXCEPT ![at] = new] /\ made.sy = more
        /\ DOMAIN made = {"contract", "sy", "ok"}
    BY <1>1, <2>1
  <2>3. /\ Grown(more) /\ new \in DOMAIN more /\ more[new] = copy
        /\ \A s \in DOMAIN sy : s \in DOMAIN more /\ more[s] = sy[s]
    <3>1. Grown(sy) /\ WellTyped(copy) /\ ~copy.declared
      BY <1>1, <1>7, <1>12
    <3> HIDE DEF sy
    <3> QED BY <3>1, GrownByOne
  <2>4. new \in Nat
    BY <1>1 DEF Grown
  <2> HIDE DEF new, more
  <2>5. made.contract \in Seq(Nat) /\ DOMAIN made.contract = DOMAIN acc.contract
    <3> DEFINE con == acc.contract
    <3>1. con \in Seq(Nat) /\ new \in Nat
      BY <1>1, <2>4
    <3>2. made.contract = [con EXCEPT ![at] = new]
      BY <2>2
    <3> HIDE DEF con
    <3>3. [con EXCEPT ![at] = new] \in Seq(Nat) /\ DOMAIN [con EXCEPT ![at] = new] = DOMAIN con
      BY <3>1, ReplaceFacts
    <3> QED BY <3>2, <3>3 DEF con
  <2>6. \A n \in DOMAIN made.contract :
          made.contract[n] = IF n = at THEN new ELSE acc.contract[n]
    BY <2>2, <2>5
  <2>7. Dispatchable(copy)
    BY <1>7, <1>12
  <2>8. Merging(made)
    BY <1>1, <2>2, <2>3, <2>5, <2>6, <2>7 DEF Merging
  <2> QED BY <2>2, <2>3, <2>8 DEF made
<1> QED BY <1>8, <1>9, <1>10, <1>11, <1>12

\* The functions a contract is merged from.
Joining(i) ==
  FlattenSeq([n \in DOMAIN files[i].direct |-> files[files[i].direct[n]].contract])
    \o files[i].functions

\* merged[k] is the contract of the first k functions.
MergeSteps(i, is, f, n) ==
  f = [k \in 0..n |-> IF k = 0 THEN [contract |-> <<>>, sy |-> symbols, ok |-> TRUE]
                      ELSE MergeFunction(i, is, f[k - 1], Joining(i)[k])]

\* A merged contract is the end of its loop.
LEMMA MergedUnfolds ==
  ASSUME NEW i, NEW is, Len(Joining(i)) \in Nat
  PROVE  \E f : MergeSteps(i, is, f, Len(Joining(i))) /\ MergedContract(i, is) = f[Len(Joining(i))]
<1> DEFINE S == {n \in Nat : ~\E f : MergeSteps(i, is, f, n)}
<1>1. 0 \notin S
  <2>1. MergeSteps(i, is, [k \in 0..0 |-> [contract |-> <<>>, sy |-> symbols, ok |-> TRUE]], 0)
    BY DEF MergeSteps
  <2> QED BY <2>1
<1>2. ASSUME NEW n \in Nat, n \notin S PROVE n + 1 \notin S
  <2>1. PICK g : MergeSteps(i, is, g, n)
    BY <1>2
  <2> DEFINE f == [k \in 0..(n + 1) |-> IF k = n + 1 THEN MergeFunction(i, is, g[n], Joining(i)[n + 1]) ELSE g[k]]
  <2>2. \A k \in 0..n : g[k] = IF k = 0 THEN [contract |-> <<>>, sy |-> symbols, ok |-> TRUE] ELSE MergeFunction(i, is, g[k - 1], Joining(i)[k])
    BY <2>1 DEF MergeSteps
  <2>3. \A k \in 0..(n + 1) : f[k] = IF k = 0 THEN [contract |-> <<>>, sy |-> symbols, ok |-> TRUE] ELSE MergeFunction(i, is, f[k - 1], Joining(i)[k])
    <3>1. f[n + 1] = MergeFunction(i, is, f[n], Joining(i)[n + 1])
      <4>1. n \in 0..(n + 1) /\ n # n + 1 /\ n + 1 \in 0..(n + 1)
        OBVIOUS
      <4>2. f[n] = g[n] /\ f[n + 1] = MergeFunction(i, is, g[n], Joining(i)[n + 1])
        BY <4>1
      <4> HIDE DEF f
      <4> QED BY <4>2
    <3>2. \A k \in 0..n : f[k] = g[k] /\ (k # 0 => f[k - 1] = g[k - 1])
      OBVIOUS
    <3> HIDE DEF f
    <3>3. (n + 1) - 1 = n /\ n + 1 # 0
      OBVIOUS
    <3> SUFFICES ASSUME NEW k \in 0..(n + 1)
                 PROVE  f[k] = IF k = 0 THEN [contract |-> <<>>, sy |-> symbols, ok |-> TRUE] ELSE MergeFunction(i, is, f[k - 1], Joining(i)[k])
      OBVIOUS
    <3>4. CASE k = n + 1
      BY <3>1, <3>3, <3>4
    <3>5. CASE k \in 0..n
      BY <2>2, <3>2, <3>5
    <3> QED BY <3>4, <3>5
  <2>4. MergeSteps(i, is, f, n + 1)
    BY <2>3 DEF MergeSteps
  <2> QED BY <2>4
<1>3. S = {}
  <2>1. S \in SUBSET Nat
    OBVIOUS
  <2> HIDE DEF S
  <2> QED BY <1>1, <1>2, <2>1, NoException
<1> DEFINE made == CHOOSE f : MergeSteps(i, is, f, Len(Joining(i)))
<1>4. MergeSteps(i, is, made, Len(Joining(i)))
  BY <1>3
<1>5. MergedContract(i, is) = made[Len(Joining(i))]
  BY DEF MergedContract, Joining, MergeSteps
<1> QED BY <1>4, <1>5

\* The functions an interface inherits and its own are public instance functions.
LEMMA JoiningDispatchable ==
  ASSUME WellFormedProgram(syntax), HierarchyFacts, SymbolFacts,
         NEW i \in FileIds, IsInterface(i),
         \A n \in DOMAIN files[i].direct :
           ToSet(files[files[i].direct[n]].contract) \subseteq PublicInstance
  PROVE  /\ Len(Joining(i)) \in Nat
         /\ \A n \in 1..Len(Joining(i)) : Joining(i)[n] \in PublicInstance
<1> DEFINE direct == files[i].direct
           seqs == [n \in DOMAIN direct |-> files[direct[n]].contract]
           own == files[i].functions
<1>1. direct \in Seq(FileIds) /\ own \in Seq(Nat) /\ \A j \in FileIds : files[j].contract \in Seq(Nat)
  BY DEF HierarchyFacts, FileTyped
<1>2. Len(direct) \in Nat /\ DOMAIN direct = 1..Len(direct)
      /\ \A n \in 1..Len(direct) : direct[n] \in FileIds
  <2> HIDE DEF direct
  <2> QED BY <1>1
<1>3. /\ Len(seqs) = Len(direct) /\ DOMAIN seqs = 1..Len(seqs)
      /\ \A n \in 1..Len(seqs) : seqs[n] = files[direct[n]].contract
      /\ seqs \in Seq(Seq(Nat))
  <2>1. seqs \in [1..Len(direct) -> Seq(Nat)]
    BY <1>1, <1>2
  <2>2. \A n \in 1..Len(direct) : seqs[n] = files[direct[n]].contract
    BY <1>2
  <2> HIDE DEF seqs
  <2>3. seqs \in Seq(Seq(Nat)) /\ Len(seqs) = Len(direct)
    BY <1>2, <2>1, FunctionIsSeq
  <2> QED BY <2>1, <2>2, <2>3
<1>4. ToSet(own) \subseteq PublicInstance
  <2>1. \A n \in DOMAIN own : own[n] \in PublicInstance
    BY DEF SymbolFacts, FunctionRegistered, PublicInstance
  <2> QED BY <2>1 DEF ToSet
<1> HIDE DEF seqs, own
<1>5. /\ FlattenSeq(seqs) \in Seq(Nat)
      /\ ToSet(FlattenSeq(seqs)) = UNION {ToSet(seqs[n]) : n \in 1..Len(seqs)}
  <2>1. \A n \in 1..Len(seqs) : seqs[n] \in Seq(Nat)
    BY <1>3, SeqFacts
  <2> QED BY <1>2, <1>3, <2>1, FlattenElements
<1>6. ToSet(FlattenSeq(seqs)) \subseteq PublicInstance
  BY <1>2, <1>3, <1>5
<1>7. Joining(i) = FlattenSeq(seqs) \o own
  BY DEF Joining, seqs, own
<1>8. Joining(i) \in Seq(Nat) /\ ToSet(Joining(i)) = ToSet(FlattenSeq(seqs)) \cup ToSet(own)
  <2> DEFINE u == FlattenSeq(seqs)
  <2>1. u \in Seq(Nat) /\ own \in Seq(Nat)
    BY <1>1, <1>5 DEF own
  <2> HIDE DEF u
  <2>2. u \o own \in Seq(Nat) /\ ToSet(u \o own) = ToSet(u) \cup ToSet(own)
    BY <2>1, ConcatElements, ConcatFacts
  <2> QED BY <1>7, <2>2 DEF u
<1> DEFINE j == Joining(i)
<1>9. j \in Seq(Nat) /\ ToSet(j) \subseteq PublicInstance
  BY <1>4, <1>6, <1>8
<1> HIDE DEF j
<1>10. Len(j) \in Nat /\ \A n \in 1..Len(j) : j[n] \in PublicInstance
  BY <1>9 DEF ToSet
<1> QED BY <1>10 DEF j

\* The symbols as they are extend themselves.
LEMMA GrownAtFirst ==
  ASSUME SymbolFacts
  PROVE  Grown(symbols)
BY DEF SymbolFacts, Grown

\* The contract of an interface has public instance functions, those of
\* merged contracts among them.
LEMMA ContractMerged ==
  ASSUME WellFormedProgram(syntax), HierarchyFacts, SymbolFacts,
         NEW i \in FileIds, IsInterface(i), NEW is,
         \A n \in DOMAIN files[i].direct :
           ToSet(files[files[i].direct[n]].contract) \subseteq PublicInstance
  PROVE  Merging(MergedContract(i, is))
<1> DEFINE last == Len(Joining(i))
<1>1. last \in Nat /\ \A n \in 1..last : Joining(i)[n] \in PublicInstance
  BY JoiningDispatchable
<1>2. PICK f : MergeSteps(i, is, f, last) /\ MergedContract(i, is) = f[last]
  BY <1>1, MergedUnfolds
<1> HIDE DEF last
<1>3. \A k \in 0..last : f[k] = IF k = 0 THEN [contract |-> <<>>, sy |-> symbols, ok |-> TRUE]
                                ELSE MergeFunction(i, is, f[k - 1], Joining(i)[k])
  BY <1>2 DEF MergeSteps
<1> DEFINE Good(k) == Merging(f[k])
           S == {k \in Nat : k <= last /\ ~Good(k)}
<1>4. 0 \notin S
  <2> DEFINE none == [contract |-> <<>>, sy |-> symbols, ok |-> TRUE]
  <2>1. 0 \in 0..last
    BY <1>1
  <2>2. f[0] = none
    BY <1>3, <2>1
  <2>3. <<>> \in Seq(Nat) /\ DOMAIN <<>> = {}
    OBVIOUS
  <2>4. Merging(none)
    BY <2>3, GrownAtFirst DEF Merging
  <2> HIDE DEF none
  <2> QED BY <2>2, <2>4
<1>5. ASSUME NEW k \in Nat, k + 1 \in S PROVE k \in S
  <2>1. k + 1 <= last /\ ~Good(k + 1)
    BY <1>5
  <2>2. k + 1 \in 1..last /\ k + 1 \in 0..last /\ (k + 1) - 1 = k /\ k <= last /\ k + 1 # 0
    BY <1>1, <2>1
  <2> SUFFICES ASSUME Good(k) PROVE Good(k + 1)
    BY <2>1, <2>2
  <2> DEFINE acc == f[k]
             c == Joining(i)[k + 1]
  <2>3. f[k + 1] = MergeFunction(i, is, acc, c)
    BY <1>3, <2>2
  <2>4. c \in PublicInstance
    BY <1>1, <2>2
  <2>5. c \in DOMAIN acc.sy /\ Dispatchable(acc.sy[c]) /\ Merging(acc)
    <3>1. Merging(acc)
      OBVIOUS
    <3> HIDE DEF acc, c
    <3> QED BY <2>4, <3>1 DEF Merging, Grown, PublicInstance, Dispatchable
  <2>6. Merging(MergeFunction(i, is, acc, c))
    <3> HIDE DEF acc, c
    <3> QED BY <2>5, MergeStep
  <2> QED BY <2>3, <2>6
<1>6. S = {}
  <2>1. S \in SUBSET Nat
    OBVIOUS
  <2> HIDE DEF S
  <2> QED BY <1>4, <1>5, <2>1, NoException
<1> QED BY <1>1, <1>2, <1>6

\* More symbols keep what is known of the ones before them.
LEMMA SymbolsKept ==
  ASSUME SymbolFacts, Grown(symbols'), syntax' = syntax,
         \A i \in FileIds : /\ files'[i].functions = files[i].functions
                            /\ files'[i].constructor = files[i].constructor
  PROVE  SymbolFacts' /\ PublicInstance \subseteq PublicInstance'
<1>1. FileIds' = FileIds
  BY DEF FileIds
<1>2. /\ Len(symbols') \in Nat /\ DOMAIN symbols' = 1..Len(symbols')
      /\ symbols' \in Seq({symbols'[s] : s \in DOMAIN symbols'})
      /\ \A s \in DOMAIN symbols : s \in DOMAIN symbols' /\ symbols'[s] = symbols[s]
      /\ \A s \in DOMAIN symbols' : WellTyped(symbols'[s])
  BY DEF Grown
<1>3. \A v : WellTyped(v)' = WellTyped(v)
  <2>1. \A t : TypeKind(t)' = TypeKind(t)
    BY DEF TypeKind
  <2> QED BY <1>1, <2>1 DEF WellTyped, IsError, IsInterface
<1>4. \A s \in DOMAIN symbols' : WellTyped(symbols[s])'
  BY <1>2, <1>3
<1>5. ASSUME NEW i \in FileIds
      PROVE  /\ DOMAIN files'[i].functions = DOMAIN syntax'[i].functions
             /\ \A n \in DOMAIN files'[i].functions : FunctionRegistered(i, n)'
             /\ ConstructorRegistered(i)'
  <2>1. /\ DOMAIN files[i].functions = DOMAIN syntax[i].functions
        /\ \A n \in DOMAIN files[i].functions : FunctionRegistered(i, n)
        /\ ConstructorRegistered(i)
    BY DEF SymbolFacts
  <2>2. \A n \in DOMAIN files[i].functions : FunctionRegistered(i, n)'
    BY <1>2, <2>1 DEF FunctionRegistered, IsInterface
  <2>3. ConstructorRegistered(i)'
    BY <1>2, <2>1 DEF ConstructorRegistered
  <2> QED BY <2>1, <2>2, <2>3
<1>6. SymbolFacts'
  BY <1>1, <1>2, <1>4, <1>5 DEF SymbolFacts
<1>7. PublicInstance \subseteq PublicInstance'
  BY <1>2 DEF PublicInstance
<1> QED BY <1>6, <1>7

\* The closures of the interfaces a file names.
LEMMA DirectClosuresElements ==
  ASSUME HierarchyFacts, NEW i \in FileIds
  PROVE  /\ DirectClosures(i) \in Seq(FileIds)
         /\ ToSet(DirectClosures(i)) = UNION {Closure(x) : x \in ToSet(files[i].direct)}
<1> DEFINE direct == files[i].direct
           seqs == [n \in DOMAIN direct |-> files[direct[n]].interfaces]
<1>1. direct \in Seq(FileIds) /\ \A j \in FileIds : files[j].interfaces \in Seq(FileIds)
  BY DEF HierarchyFacts, FileTyped
<1>2. Len(direct) \in Nat /\ DOMAIN direct = 1..Len(direct)
      /\ \A n \in 1..Len(direct) : direct[n] \in FileIds
  <2> HIDE DEF direct
  <2> QED BY <1>1
<1>3. /\ Len(seqs) = Len(direct) /\ DOMAIN seqs = 1..Len(seqs)
      /\ \A n \in 1..Len(seqs) : seqs[n] = files[direct[n]].interfaces
      /\ seqs \in Seq(Seq(FileIds))
  <2>1. seqs \in [1..Len(direct) -> Seq(FileIds)]
    BY <1>1, <1>2
  <2>2. \A n \in 1..Len(direct) : seqs[n] = files[direct[n]].interfaces
    BY <1>2
  <2> HIDE DEF seqs
  <2>3. seqs \in Seq(Seq(FileIds)) /\ Len(seqs) = Len(direct)
    BY <1>2, <2>1, FunctionIsSeq
  <2> QED BY <2>1, <2>2, <2>3
<1> HIDE DEF seqs
<1>4. /\ FlattenSeq(seqs) \in Seq(FileIds)
      /\ ToSet(FlattenSeq(seqs)) = UNION {ToSet(seqs[n]) : n \in 1..Len(seqs)}
  <2>1. \A n \in 1..Len(seqs) : seqs[n] \in Seq(FileIds)
    BY <1>3, SeqFacts
  <2> QED BY <1>2, <1>3, <2>1, FlattenElements
<1>5. DirectClosures(i) = FlattenSeq(seqs)
  BY DEF DirectClosures, seqs
<1>6. UNION {ToSet(seqs[n]) : n \in 1..Len(seqs)} = UNION {Closure(x) : x \in ToSet(direct)}
  <2>1. ToSet(direct) = {direct[n] : n \in 1..Len(direct)}
    BY <1>2 DEF ToSet
  <2>2. \A n \in 1..Len(seqs) : ToSet(seqs[n]) = Closure(direct[n])
    BY <1>3 DEF Closure
  <2> HIDE DEF direct
  <2>3. ASSUME NEW x \in ToSet(direct)
        PROVE  Closure(x) \subseteq UNION {ToSet(seqs[n]) : n \in 1..Len(seqs)}
    <3>1. PICK n \in 1..Len(direct) : x = direct[n]
      BY <2>1
    <3>2. Closure(x) = ToSet(seqs[n]) /\ n \in 1..Len(seqs)
      BY <1>3, <2>2, <3>1
    <3> QED BY <3>2
  <2>4. ASSUME NEW n \in 1..Len(seqs)
        PROVE  ToSet(seqs[n]) \subseteq UNION {Closure(x) : x \in ToSet(direct)}
    <3>1. direct[n] \in ToSet(direct) /\ ToSet(seqs[n]) = Closure(direct[n])
      BY <1>3, <2>1, <2>2
    <3> QED BY <3>1
  <2> QED BY <2>3, <2>4
<1> QED BY <1>4, <1>5, <1>6

\* One interface completes after the ones it inherits from.
LEMMA ContractCompletes ==
  ASSUME WellFormedProgram(syntax), HierarchyFacts, SymbolFacts,
         pass.complete \subseteq InterfaceIds,
         \A j \in pass.complete : ContractFacts(j, pass.complete),
         NEW i \in FileIds, ContractReady(i), CompleteContract(i), syntax' = syntax
  PROVE  /\ HierarchyFacts' /\ SymbolFacts' /\ pass'.complete \subseteq InterfaceIds'
         /\ \A j \in pass'.complete : ContractFacts(j, pass.complete)'
<1> DEFINE joined == AppendNew(<<>>, DirectClosures(i))
           closure == Append(joined, i)
           merged == MergedContract(i, [Interfaces EXCEPT ![i] = closure])
<1>1. /\ files' = [files EXCEPT ![i].interfaces = closure, ![i].contract = merged.contract]
      /\ symbols' = merged.sy
      /\ pass'.complete = pass.complete \cup {i}
  BY DEF CompleteContract
<1>2. IsInterface(i) /\ i \notin pass.complete
      /\ \A x \in ToSet(files[i].direct) : x \in pass.complete
  <2>1. \A n \in DOMAIN files[i].direct : IsInterface(files[i].direct[n])
    BY DEF HierarchyFacts, ToSet
  <2> QED BY <2>1 DEF ContractReady, ContractPending, ToSet
<1>3. Merging(merged)
  <2>1. \A n \in DOMAIN files[i].direct :
          ToSet(files[files[i].direct[n]].contract) \subseteq PublicInstance
    BY <1>2 DEF ContractFacts, ToSet
  <2> HIDE DEF closure
  <2> QED BY <1>2, <2>1, ContractMerged
<1>4. /\ closure \in Seq(FileIds)
      /\ ToSet(closure) = {i} \cup UNION {Closure(x) : x \in ToSet(files[i].direct)}
  <2> DEFINE dc == DirectClosures(i)
  <2>1. /\ dc \in Seq(FileIds)
        /\ ToSet(dc) = UNION {Closure(x) : x \in ToSet(files[i].direct)}
    BY DirectClosuresElements
  <2> HIDE DEF dc
  <2>2. joined \in Seq(FileIds) /\ ToSet(joined) = ToSet(dc)
    <3> DEFINE none == <<>>
    <3>1. none \in Seq(FileIds) /\ ToSet(none) = {}
      BY DEF ToSet
    <3>2. joined = AppendNew(none, dc)
      BY DEF dc
    <3> HIDE DEF none, joined
    <3>3. /\ AppendNew(none, dc) \in Seq(FileIds)
          /\ ToSet(AppendNew(none, dc)) = ToSet(none) \cup ToSet(dc)
      BY <2>1, <3>1, AppendNewElements
    <3> QED BY <3>1, <3>2, <3>3
  <2> HIDE DEF joined
  <2>3. Append(joined, i) \in Seq(FileIds) /\ ToSet(Append(joined, i)) = ToSet(joined) \cup {i}
    <3>1. /\ Len(Append(joined, i)) = Len(joined) + 1 /\ Len(joined) \in Nat
          /\ DOMAIN Append(joined, i) = 1..(Len(joined) + 1) /\ DOMAIN joined = 1..Len(joined)
          /\ \A n \in 1..Len(joined) : Append(joined, i)[n] = joined[n]
          /\ Append(joined, i)[Len(joined) + 1] = i
      BY <2>2, AppendFacts
    <3>2. Append(joined, i) \in Seq(FileIds)
      BY <2>2
    <3>3. \A n \in 1..(Len(joined) + 1) : n = Len(joined) + 1 \/ n \in 1..Len(joined)
      BY <3>1
    <3>4. ToSet(Append(joined, i)) = ToSet(joined) \cup {i}
      BY <3>1, <3>3 DEF ToSet
    <3> QED BY <3>2, <3>4
  <2> QED BY <2>1, <2>2, <2>3
<1> HIDE DEF closure, merged
<1>5. FileIds' = FileIds /\ InterfaceIds' = InterfaceIds /\ Obj \in FileIds
  BY ProgramTyped DEF FileIds, InterfaceIds, IsInterface
<1>6. /\ DOMAIN merged = {"contract", "sy", "ok"} /\ Grown(merged.sy)
      /\ merged.contract \in Seq(Nat)
      /\ \A n \in DOMAIN merged.contract :
           merged.contract[n] \in DOMAIN merged.sy /\ Dispatchable(merged.sy[merged.contract[n]])
  BY <1>3 DEF Merging
<1>7. \A j \in FileIds :
        /\ DOMAIN files'[j] = FileFields
        /\ files'[j].base = files[j].base /\ files'[j].direct = files[j].direct
        /\ files'[j].functions = files[j].functions
        /\ files'[j].constructor = files[j].constructor
        /\ files'[j].virtuals = files[j].virtuals
        /\ files'[j].interfaces = IF j = i THEN closure ELSE files[j].interfaces
        /\ files'[j].contract = IF j = i THEN merged.contract ELSE files[j].contract
  <2>1. DOMAIN files = FileIds /\ \A j \in FileIds : DOMAIN files[j] = FileFields
    BY DEF HierarchyFacts, FileTyped
  <2>2. DOMAIN files' = FileIds
    BY <1>1, <2>1
  <2> SUFFICES ASSUME NEW j \in FileIds
               PROVE  /\ DOMAIN files'[j] = FileFields
                      /\ files'[j].base = files[j].base /\ files'[j].direct = files[j].direct
                      /\ files'[j].functions = files[j].functions
                      /\ files'[j].constructor = files[j].constructor
                      /\ files'[j].virtuals = files[j].virtuals
                      /\ files'[j].interfaces = IF j = i THEN closure ELSE files[j].interfaces
                      /\ files'[j].contract = IF j = i THEN merged.contract ELSE files[j].contract
    OBVIOUS
  <2>3. CASE j # i
    BY <1>1, <2>1, <2>3
  <2>4. CASE j = i
    <3>1. files'[i] = [files[i] EXCEPT !.interfaces = closure, !.contract = merged.contract]
      BY <1>1, <2>1
    <3> QED BY <2>1, <2>4, <3>1 DEF FileFields
  <2> QED BY <2>3, <2>4
<1>8. DOMAIN files' = FileIds
  BY <1>1 DEF HierarchyFacts
<1>9. HierarchyFacts'
  <2>1. \A j \in FileIds : FileTyped(j)'
    BY ZenonT(60), <1>4, <1>5, <1>6, <1>7 DEF HierarchyFacts, FileTyped
  <2> QED BY <1>5, <1>7, <1>8, <2>1, HierarchyStable
<1>10. SymbolFacts' /\ PublicInstance \subseteq PublicInstance'
  BY <1>1, <1>6, <1>7, SymbolsKept
<1>11. pass'.complete \subseteq InterfaceIds'
  BY <1>1, <1>2, <1>5 DEF InterfaceIds
<1>12. \A j \in FileIds : Closure(j)' = IF j = i THEN ToSet(closure) ELSE Closure(j)
  BY <1>7 DEF Closure
<1>13. ASSUME NEW j \in pass'.complete PROVE ContractFacts(j, pass.complete)'
  <2>1. j \in FileIds /\ pass.complete \subseteq FileIds
    BY <1>1 DEF InterfaceIds
  <2>2. CASE j # i
    <3>1. ContractFacts(j, pass.complete) /\ j \in pass.complete
      BY <1>1, <2>2
    <3>2. ToSet(files'[j].contract) \subseteq PublicInstance'
      BY <1>7, <1>10, <2>1, <2>2, <3>1 DEF ContractFacts
    <3>3. j \in Closure(j)'
      BY <1>12, <2>1, <2>2, <3>1 DEF ContractFacts
    <3>4. ASSUME NEW x \in Closure(j)'
          PROVE  IsInterface(x)' /\ x \in pass'.complete /\ Closure(x)' \subseteq Closure(j)'
      <4>1. x \in Closure(j) /\ Closure(j)' = Closure(j)
        BY <1>12, <2>1, <2>2
      <4>2. IsInterface(x) /\ x \in pass.complete /\ Closure(x) \subseteq Closure(j)
        BY <3>1, <4>1 DEF ContractFacts
      <4>3. x # i /\ x \in FileIds
        BY <1>2, <2>1, <4>2
      <4> QED BY <1>1, <1>12, <4>1, <4>2, <4>3 DEF IsInterface
    <3> QED BY <3>2, <3>3, <3>4 DEF ContractFacts
  <2>3. CASE j = i
    <3>1. ToSet(files'[j].contract) \subseteq PublicInstance'
      <4>1. \A n \in DOMAIN merged.contract : merged.contract[n] \in PublicInstance'
        BY <1>1, <1>6 DEF PublicInstance, Dispatchable
      <4> QED BY <1>7, <2>1, <2>3, <4>1 DEF ToSet
    <3>2. Closure(j)' = ToSet(closure)
      BY <1>12, <2>3
    <3>3. ASSUME NEW x \in Closure(j)'
          PROVE  IsInterface(x)' /\ x \in pass'.complete /\ Closure(x)' \subseteq Closure(j)'
      <4>1. CASE x = i
        BY <1>1, <1>2, <2>3, <4>1 DEF IsInterface
      <4>2. CASE x # i
        <5>1. PICK y \in ToSet(files[i].direct) : x \in Closure(y)
          BY <1>4, <3>2, <4>2
        <5>2. y \in pass.complete
          BY <1>2
        <5>3. IsInterface(x) /\ x \in pass.complete /\ Closure(x) \subseteq Closure(y)
          BY <5>1, <5>2 DEF ContractFacts
        <5>4. Closure(y) \subseteq Closure(j)'
          BY <1>4, <3>2
        <5>5. Closure(x)' = Closure(x)
          BY <1>12, <2>1, <4>2, <5>3
        <5> QED BY <1>1, <5>3, <5>4, <5>5 DEF IsInterface
      <4> QED BY <4>1, <4>2
    <3> QED BY <1>4, <2>3, <3>1, <3>2, <3>3 DEF ContractFacts
  <2> QED BY <2>2, <2>3
<1> QED BY <1>9, <1>10, <1>11, <1>13

-----------------------------------------------------------------------------
(* validate_overrides: the closures of the classes *)

\* One round of the closures of the classes.
ClosedOnce(before) ==
  [i \in FileIds |->
     IF ~IsClass(i) THEN files[i].interfaces
     ELSE AppendNew(IF files[i].base = 0 THEN <<>> ELSE before[files[i].base], DirectClosures(i))]

\* closed[k] is the closures after k rounds.
ClosureSteps(f, n) ==
  f = [k \in 0..n |-> IF k = 0 THEN Interfaces
                      ELSE ClosedOnce(f[k - 1])]

\* The closures of the classes are the end of their rounds.
LEMMA ClosuresUnfold ==
  ASSUME Len(syntax) \in Nat
  PROVE  \E f : ClosureSteps(f, Len(syntax)) /\ ClassClosures = f[Len(syntax)]
<1> DEFINE S == {n \in Nat : ~\E f : ClosureSteps(f, n)}
<1>1. 0 \notin S
  <2>1. ClosureSteps([k \in 0..0 |-> Interfaces], 0)
    BY DEF ClosureSteps
  <2> QED BY <2>1
<1>2. ASSUME NEW n \in Nat, n \notin S PROVE n + 1 \notin S
  <2>1. PICK g : ClosureSteps(g, n)
    BY <1>2
  <2> DEFINE f == [k \in 0..(n + 1) |-> IF k = n + 1 THEN ClosedOnce(g[n]) ELSE g[k]]
  <2>2. \A k \in 0..n : g[k] = IF k = 0 THEN Interfaces ELSE ClosedOnce(g[k - 1])
    BY <2>1 DEF ClosureSteps
  <2>3. \A k \in 0..(n + 1) : f[k] = IF k = 0 THEN Interfaces ELSE ClosedOnce(f[k - 1])
    <3>1. f[n + 1] = ClosedOnce(f[n])
      <4>1. n \in 0..(n + 1) /\ n # n + 1 /\ n + 1 \in 0..(n + 1)
        OBVIOUS
      <4>2. f[n] = g[n] /\ f[n + 1] = ClosedOnce(g[n])
        BY <4>1
      <4> HIDE DEF f
      <4> QED BY <4>2
    <3>2. \A k \in 0..n : f[k] = g[k] /\ (k # 0 => f[k - 1] = g[k - 1])
      OBVIOUS
    <3> HIDE DEF f
    <3>3. (n + 1) - 1 = n /\ n + 1 # 0
      OBVIOUS
    <3> SUFFICES ASSUME NEW k \in 0..(n + 1)
                 PROVE  f[k] = IF k = 0 THEN Interfaces ELSE ClosedOnce(f[k - 1])
      OBVIOUS
    <3>4. CASE k = n + 1
      BY <3>1, <3>3, <3>4
    <3>5. CASE k \in 0..n
      BY <2>2, <3>2, <3>5
    <3> QED BY <3>4, <3>5
  <2>4. ClosureSteps(f, n + 1)
    BY <2>3 DEF ClosureSteps
  <2> QED BY <2>4
<1>3. S = {}
  <2>1. S \in SUBSET Nat
    OBVIOUS
  <2> HIDE DEF S
  <2> QED BY <1>1, <1>2, <2>1, NoException
<1> DEFINE made == CHOOSE f : ClosureSteps(f, Len(syntax))
<1>4. ClosureSteps(made, Len(syntax))
  BY <1>3
<1>5. ClassClosures = made[Len(syntax)]
  BY DEF ClassClosures, ClosedOnce, ClosureSteps
<1> QED BY <1>4, <1>5

\* The links of a hierarchy.
LEMMA BasesLink ==
  ASSUME WellFormedProgram(syntax), HierarchyFacts
  PROVE  /\ LinkTable(Bases) /\ Len(Bases) = Len(syntax) /\ DOMAIN Bases = FileIds
         /\ \A i \in FileIds : Bases[i] = files[i].base
<1>1. Len(syntax) \in Nat /\ FileIds = 1..Len(syntax)
  BY ProgramTyped
<1>2. Bases \in [1..Len(syntax) -> 0..Len(syntax)]
  BY <1>1 DEF Bases, HierarchyFacts, FileTyped
<1>3. Len(Bases) = Len(syntax)
  BY <1>1, <1>2, FunctionIsSeq
<1> QED BY <1>1, <1>2, <1>3 DEF LinkTable, Bases

\* A closure of a class: interfaces, each once, with all they inherit.
ClosureGood(closure) ==
  /\ closure \in Seq(FileIds) /\ Distinct(closure)
  /\ \A x \in ToSet(closure) : IsInterface(x) /\ Closure(x) \subseteq ToSet(closure)

\* Joining the closures of the interfaces a file names keeps what is closed closed.
LEMMA ClosureJoins ==
  ASSUME WellFormedProgram(syntax), HierarchyFacts,
         \A i \in InterfaceIds : ContractFacts(i, InterfaceIds),
         NEW i \in FileIds, NEW inherited, ClosureGood(inherited)
  PROVE  /\ ClosureGood(AppendNew(inherited, DirectClosures(i)))
         /\ ToSet(inherited) \subseteq ToSet(AppendNew(inherited, DirectClosures(i)))
<1> DEFINE dc == DirectClosures(i)
<1>1. dc \in Seq(FileIds) /\ ToSet(dc) = UNION {Closure(x) : x \in ToSet(files[i].direct)}
  BY DirectClosuresElements
<1>2. \A x \in ToSet(dc) : IsInterface(x) /\ Closure(x) \subseteq ToSet(dc)
  <2> SUFFICES ASSUME NEW x \in ToSet(dc) PROVE IsInterface(x) /\ Closure(x) \subseteq ToSet(dc)
    OBVIOUS
  <2>1. PICK y \in ToSet(files[i].direct) : x \in Closure(y)
    BY <1>1
  <2>2. y \in InterfaceIds
    <3>1. IsInterface(y)
      BY <2>1 DEF HierarchyFacts
    <3>2. files[i].direct \in Seq(FileIds)
      BY DEF HierarchyFacts, FileTyped
    <3>3. y \in FileIds
      BY <2>1, <3>2 DEF ToSet
    <3> QED BY <3>1, <3>3 DEF InterfaceIds
  <2>3. IsInterface(x) /\ Closure(x) \subseteq Closure(y)
    BY <2>1, <2>2 DEF ContractFacts
  <2> QED BY <1>1, <2>1, <2>3
<1> HIDE DEF dc
<1>3. /\ AppendNew(inherited, dc) \in Seq(FileIds)
      /\ ToSet(AppendNew(inherited, dc)) = ToSet(inherited) \cup ToSet(dc)
      /\ Distinct(AppendNew(inherited, dc))
  BY <1>1, AppendNewElements DEF ClosureGood
<1> QED BY <1>2, <1>3 DEF ClosureGood, dc

\* As many rounds as there are files close every class.
LEMMA ClassesClosed ==
  ASSUME WellFormedProgram(syntax), HierarchyFacts,
         \A i \in InterfaceIds : ContractFacts(i, InterfaceIds)
  PROVE  /\ \A i \in ClassIds :
              /\ ClosureGood(ClassClosures[i])
              /\ files[i].base # 0 =>
                   ToSet(ClassClosures[files[i].base]) \subseteq ToSet(ClassClosures[i])
         /\ \A i \in FileIds \ ClassIds : ClassClosures[i] = files[i].interfaces
<1> DEFINE last == Len(syntax)
           base(i) == files[i].base
           chain(i) == Chain(Bases, i)
<1>1. last \in Nat /\ FileIds = 1..last /\ last # 0
  BY ProgramTyped
<1>2. LinkTable(Bases) /\ Len(Bases) = last /\ Grounded(Bases)
      /\ \A i \in FileIds : Bases[i] = base(i)
  BY BasesLink DEF HierarchyFacts
<1>3. \A i \in ClassIds : i \in FileIds /\ IsClass(i) /\ i # 0
                          /\ (base(i) # 0 => base(i) \in ClassIds)
  BY <1>1 DEF ClassIds, HierarchyFacts, FileTyped, BaseFits
<1>4. PICK f : ClosureSteps(f, last) /\ ClassClosures = f[last]
  BY <1>1, ClosuresUnfold
<1>5. \A k \in 0..last : f[k] = IF k = 0 THEN Interfaces ELSE ClosedOnce(f[k - 1])
  BY <1>4 DEF ClosureSteps
<1> HIDE DEF last
<1>6. \A k \in 0..last : \A i \in FileIds \ ClassIds : f[k][i] = files[i].interfaces
  <2> SUFFICES ASSUME NEW k \in 0..last, NEW i \in FileIds \ ClassIds
               PROVE  f[k][i] = files[i].interfaces
    OBVIOUS
  <2>1. ~IsClass(i) /\ i \in FileIds
    BY DEF ClassIds
  <2>2. CASE k = 0
    BY <1>5, <2>1, <2>2 DEF Interfaces
  <2>3. CASE k # 0
    BY <1>5, <2>1, <2>3 DEF ClosedOnce
  <2> QED BY <2>2, <2>3
<1>7. \A k \in Nat : k + 1 <= last => \A i \in ClassIds :
        f[k + 1][i] = AppendNew(IF base(i) = 0 THEN <<>> ELSE f[k][base(i)], DirectClosures(i))
  <2> SUFFICES ASSUME NEW k \in Nat, k + 1 <= last, NEW i \in ClassIds
               PROVE  f[k + 1][i] = AppendNew(IF base(i) = 0 THEN <<>> ELSE f[k][base(i)],
                                              DirectClosures(i))
    OBVIOUS
  <2>1. k + 1 \in 0..last /\ k + 1 # 0 /\ (k + 1) - 1 = k
    BY <1>1
  <2>2. f[k + 1] = ClosedOnce(f[k])
    BY <1>5, <2>1
  <2> QED BY <1>3, <2>2 DEF ClosedOnce
<1>8. \A i \in ClassIds : \A k \in Nat :
        base(i) # 0 => chain(i)[k + 1] = chain(base(i))[k]
  <2> SUFFICES ASSUME NEW i \in ClassIds, NEW k \in Nat, base(i) # 0
               PROVE  chain(i)[k + 1] = chain(base(i))[k]
    OBVIOUS
  <2>1. chain(i)[1] = base(i)
    <3>1. chain(i)[0 + 1] = IF chain(i)[0] = 0 THEN 0 ELSE Bases[chain(i)[0]]
      BY ChainValues
    <3>2. chain(i)[0] = i
      BY ChainValues
    <3> HIDE DEF chain
    <3> QED BY <1>2, <1>3, <3>1, <3>2
  <2>2. chain(i)[1 + k] = Chain(Bases, chain(i)[1])[k]
    BY ChainShift
  <2>3. 1 + k = k + 1
    OBVIOUS
  <2> HIDE DEF chain
  <2> QED BY <2>1, <2>2, <2>3 DEF chain
<1> DEFINE Good(k) == \A i \in ClassIds : chain(i)[k] = 0 =>
                        /\ ClosureGood(f[k][i])
                        /\ k + 1 <= last => f[k + 1][i] = f[k][i]
           S == {k \in Nat : k <= last /\ ~Good(k)}
<1>9. 0 \notin S
  <2>1. \A i \in ClassIds : chain(i)[0] = i
    BY ChainValues
  <2> HIDE DEF chain
  <2> QED BY <1>3, <2>1
<1> HIDE DEF chain
<1>10. ASSUME NEW k \in Nat, k + 1 \in S PROVE k \in S
  <2>1. k + 1 <= last /\ ~Good(k + 1) /\ k <= last
    BY <1>1, <1>10
  <2> SUFFICES ASSUME Good(k) PROVE Good(k + 1)
    BY <2>1
  <2> SUFFICES ASSUME NEW i \in ClassIds, chain(i)[k + 1] = 0
               PROVE  /\ ClosureGood(f[k + 1][i])
                      /\ (k + 1) + 1 <= last => f[(k + 1) + 1][i] = f[k + 1][i]
    OBVIOUS
  <2>2. f[k + 1][i] = AppendNew(IF base(i) = 0 THEN <<>> ELSE f[k][base(i)], DirectClosures(i))
    BY <1>7, <2>1
  <2>3. (k + 1) + 1 <= last => f[(k + 1) + 1][i]
          = AppendNew(IF base(i) = 0 THEN <<>> ELSE f[k + 1][base(i)], DirectClosures(i))
    BY <1>7, <2>1
  <2>4. CASE base(i) = 0
    <3> DEFINE none == <<>>
    <3>1. ClosureGood(none)
      <4>1. none \in Seq(FileIds) /\ Distinct(none) /\ ToSet(none) = {}
        BY DEF Distinct, ToSet
      <4> QED BY <4>1 DEF ClosureGood
    <3>2. f[k + 1][i] = AppendNew(none, DirectClosures(i))
      BY <2>2, <2>4
    <3> HIDE DEF none
    <3>3. ClosureGood(AppendNew(none, DirectClosures(i)))
      BY <1>3, <3>1, ClosureJoins
    <3> QED BY <2>2, <2>3, <2>4, <3>2, <3>3
  <2>5. CASE base(i) # 0
    <3>1. base(i) \in ClassIds /\ chain(base(i))[k] = 0
      BY <1>3, <1>8, <2>5
    <3>2. ClosureGood(f[k][base(i)]) /\ f[k + 1][base(i)] = f[k][base(i)]
      BY <2>1, <3>1
    <3>3. ClosureGood(AppendNew(f[k][base(i)], DirectClosures(i)))
      BY <1>3, <3>2, ClosureJoins
    <3> QED BY <2>2, <2>3, <2>5, <3>2, <3>3
  <2> QED BY <2>4, <2>5
<1>11. S = {}
  <2>1. S \in SUBSET Nat
    OBVIOUS
  <2> HIDE DEF S
  <2> QED BY <1>9, <1>10, <2>1, NoException
<1>12. \A k \in 0..last : Good(k)
  <2> HIDE DEF Good
  <2> QED BY <1>1, <1>11
<1>13. \A i \in FileIds : chain(i)[last] = 0
  BY <1>1, <1>2, GroundedEnds DEF chain
<1>14. ASSUME NEW i \in ClassIds
       PROVE  /\ ClosureGood(ClassClosures[i])
              /\ base(i) # 0 => ToSet(ClassClosures[base(i)]) \subseteq ToSet(ClassClosures[i])
  <2>1. last \in 0..last /\ i \in FileIds
    BY <1>1, <1>3
  <2>2. ClosureGood(f[last][i])
    BY <1>12, <1>13, <2>1
  <2>3. ASSUME base(i) # 0
        PROVE  ToSet(f[last][base(i)]) \subseteq ToSet(f[last][i])
    <3> DEFINE k == last - 1
    <3>1. k \in Nat /\ k + 1 = last /\ k \in 0..last /\ k + 1 <= last
      BY <1>1
    <3> HIDE DEF k
    <3>2. base(i) \in ClassIds /\ base(i) \in FileIds
      BY <1>3, <2>3
    <3>3. chain(i)[k + 1] = 0
      BY <1>13, <2>1, <3>1
    <3>4. chain(base(i))[k] = 0
      BY <1>8, <2>3, <3>1, <3>3
    <3>5. ClosureGood(f[k][base(i)]) /\ f[k + 1][base(i)] = f[k][base(i)]
      BY <1>12, <3>1, <3>2, <3>4
    <3>6. f[k + 1][i] = AppendNew(f[k][base(i)], DirectClosures(i))
      BY <1>7, <2>3, <3>1
    <3>7. ToSet(f[k][base(i)]) \subseteq ToSet(AppendNew(f[k][base(i)], DirectClosures(i)))
      BY <2>1, <3>5, ClosureJoins
    <3> QED BY <3>1, <3>5, <3>6, <3>7
  <2> QED BY <1>4, <2>2, <2>3
<1>15. \A i \in FileIds \ ClassIds : ClassClosures[i] = files[i].interfaces
  <2>1. last \in 0..last
    BY <1>1
  <2> QED BY <1>4, <1>6, <2>1
<1> QED BY <1>14, <1>15

\* The closures of the classes are kept, those of the interfaces stay.
LEMMA ClosuresEstablish ==
  ASSUME WellFormedProgram(syntax), HierarchyFacts, SymbolFacts,
         \A i \in InterfaceIds : ContractFacts(i, InterfaceIds), CloseClassInterfaces
  PROVE  /\ HierarchyFacts' /\ SymbolFacts'
         /\ \A i \in InterfaceIds' : ContractFacts(i, InterfaceIds)'
         /\ \A i \in ClassIds' : ClassFacts(i)'
<1>1. /\ files' = [i \in FileIds |-> [files[i] EXCEPT !.interfaces = ClassClosures[i]]]
      /\ syntax' = syntax /\ symbols' = symbols
  BY DEF CloseClassInterfaces
<1>2. FileIds' = FileIds /\ InterfaceIds' = InterfaceIds /\ ClassIds' = ClassIds /\ Obj \in FileIds
  BY <1>1, ProgramTyped DEF FileIds, InterfaceIds, ClassIds, IsInterface, IsClass
<1>3. \A i \in FileIds :
        /\ DOMAIN files'[i] = FileFields
        /\ files'[i].base = files[i].base /\ files'[i].direct = files[i].direct
        /\ files'[i].functions = files[i].functions
        /\ files'[i].constructor = files[i].constructor
        /\ files'[i].virtuals = files[i].virtuals
        /\ files'[i].contract = files[i].contract
        /\ files'[i].interfaces = ClassClosures[i]
  <2>1. \A i \in FileIds : DOMAIN files[i] = FileFields
    BY DEF HierarchyFacts, FileTyped
  <2> QED BY <1>1, <2>1 DEF FileFields
<1>4. /\ \A i \in ClassIds :
           /\ ClosureGood(ClassClosures[i])
           /\ files[i].base # 0 =>
                ToSet(ClassClosures[files[i].base]) \subseteq ToSet(ClassClosures[i])
      /\ \A i \in FileIds \ ClassIds : ClassClosures[i] = files[i].interfaces
  BY ClassesClosed
<1>5. \A i \in FileIds : ClassClosures[i] \in Seq(FileIds)
  BY <1>4 DEF ClosureGood, HierarchyFacts, FileTyped
<1>6. HierarchyFacts'
  <2>1. ASSUME NEW i \in FileIds PROVE FileTyped(i)'
    <3>1. FileTyped(i)
      BY DEF HierarchyFacts
    <3> QED BY <1>1, <1>2, <1>3, <1>5, <3>1 DEF FileTyped
  <2>2. DOMAIN files' = FileIds
    BY <1>1
  <2> QED BY <1>1, <1>2, <1>3, <2>1, <2>2, HierarchyStable
<1>7. SymbolFacts' /\ PublicInstance' = PublicInstance
  <2>1. Grown(symbols')
    BY <1>1, GrownAtFirst
  <2> QED BY <1>1, <1>3, <2>1, SymbolsKept DEF PublicInstance
<1>8. \A i \in FileIds : Closure(i)' = ToSet(ClassClosures[i])
  BY <1>3 DEF Closure
<1>9. \A i \in InterfaceIds : Closure(i)' = Closure(i) /\ i \in FileIds
  <2>1. \A i \in InterfaceIds : i \in FileIds \ ClassIds
    BY DEF InterfaceIds, ClassIds, IsInterface, IsClass
  <2> QED BY <1>4, <1>8, <2>1 DEF Closure
<1>10. ASSUME NEW i \in InterfaceIds PROVE ContractFacts(i, InterfaceIds)'
  <2>1. ContractFacts(i, InterfaceIds)
    OBVIOUS
  <2>2. \A x \in Closure(i) : x \in InterfaceIds
    BY <2>1 DEF ContractFacts
  <2> QED BY <1>1, <1>2, <1>3, <1>7, <1>9, <2>1, <2>2 DEF ContractFacts, IsInterface
<1>11. ASSUME NEW i \in ClassIds PROVE ClassFacts(i)'
  <2>1. i \in FileIds /\ (files[i].base # 0 => files[i].base \in FileIds)
    BY ProgramTyped DEF ClassIds, HierarchyFacts, FileTyped
  <2>2. Distinct(files'[i].interfaces) /\ Closure(i)' = ToSet(ClassClosures[i])
    BY <1>3, <1>4, <1>8, <2>1 DEF ClosureGood
  <2>3. ASSUME NEW x \in Closure(i)' PROVE IsInterface(x)' /\ Closure(x)' \subseteq Closure(i)'
    <3>1. x \in FileIds
      BY <1>5, <2>1, <2>2 DEF ToSet
    <3>2. IsInterface(x) /\ Closure(x) \subseteq ToSet(ClassClosures[i])
      BY <1>4, <2>2 DEF ClosureGood
    <3>3. x \in InterfaceIds
      BY <3>1, <3>2 DEF InterfaceIds
    <3> QED BY <1>1, <1>9, <2>2, <3>2, <3>3 DEF IsInterface
  <2>4. files'[i].base # 0 => ToSet(files'[files'[i].base].interfaces) \subseteq Closure(i)'
    BY <1>3, <1>4, <1>8, <2>1
  <2>5. files'[i].base # 0 => (files[i].base # 0 => Closure(files[i].base) \subseteq Closure(i))'
    BY <2>4 DEF Closure
  <2> QED BY <2>2, <2>3, <2>5 DEF ClassFacts
<1> QED BY <1>2, <1>6, <1>7, <1>10, <1>11

\* With no interface left, nothing changes.
LEMMA ContractsEnd ==
  ASSUME WellFormedProgram(syntax), HierarchyFacts, SymbolFacts,
         pass.complete \subseteq InterfaceIds,
         \A i \in pass.complete : ContractFacts(i, pass.complete),
         EndContracts, errors' = {}
  PROVE  /\ HierarchyFacts' /\ SymbolFacts'
         /\ \A i \in InterfaceIds' : ContractFacts(i, InterfaceIds)'
<1>1. \A i \in FileIds : ~ContractPending(i)
  BY DEF EndContracts
<1>2. /\ files' = [i \in FileIds |-> IF ContractPending(i)
             THEN [files[i] EXCEPT !.direct = <<>>, !.interfaces = <<i>>,
                                   !.contract = files[i].functions]
             ELSE files[i]]
      /\ syntax' = syntax /\ symbols' = symbols
  BY DEF EndContracts
<1>3. DOMAIN files' = FileIds /\ \A i \in FileIds : files'[i] = files[i]
  BY <1>1, <1>2
<1>4. FileIds' = FileIds /\ InterfaceIds' = InterfaceIds /\ Obj \in FileIds
  BY <1>2, ProgramTyped DEF FileIds, InterfaceIds, IsInterface
<1>5. HierarchyFacts'
  <2>1. \A i \in FileIds : FileTyped(i)'
    BY <1>2, <1>3, <1>4 DEF HierarchyFacts, FileTyped
  <2> QED BY <1>2, <1>3, <1>4, <2>1, HierarchyStable
<1>6. SymbolFacts' /\ PublicInstance' = PublicInstance
  <2>1. Grown(symbols')
    BY <1>2, GrownAtFirst
  <2> QED BY <1>2, <1>3, <2>1, SymbolsKept DEF PublicInstance
<1>7. pass.complete = InterfaceIds
  BY <1>1 DEF ContractPending, InterfaceIds
<1>8. ASSUME NEW i \in InterfaceIds PROVE ContractFacts(i, InterfaceIds)'
  <2>1. ContractFacts(i, InterfaceIds) /\ i \in FileIds
    BY <1>7 DEF InterfaceIds
  <2>2. \A x \in Closure(i) : x \in FileIds
    BY <2>1 DEF ContractFacts, InterfaceIds
  <2>3. \A x \in FileIds : Closure(x)' = Closure(x)
    BY <1>3 DEF Closure
  <2>4. i \in Closure(i)' /\ Closure(i)' = Closure(i)
    BY <2>1, <2>3 DEF ContractFacts
  <2>5. ToSet(files'[i].contract) \subseteq PublicInstance'
    BY <1>3, <1>6, <2>1 DEF ContractFacts
  <2>6. ASSUME NEW x \in Closure(i)'
        PROVE  IsInterface(x)' /\ x \in InterfaceIds' /\ Closure(x)' \subseteq Closure(i)'
    <3>1. x \in Closure(i)
      BY <2>4
    <3>2. IsInterface(x) /\ x \in InterfaceIds /\ Closure(x) \subseteq Closure(i)
      BY <2>1, <3>1 DEF ContractFacts
    <3>3. Closure(x)' = Closure(x)
      BY <2>2, <2>3, <3>1
    <3> QED BY <1>2, <1>4, <2>4, <3>2, <3>3 DEF IsInterface
  <2> QED BY <2>4, <2>5, <2>6 DEF ContractFacts
<1> QED BY <1>4, <1>5, <1>6, <1>8

-----------------------------------------------------------------------------
(* validate_overrides: the tables of the classes *)

\* The chain of parents of a class: classes only, ending at Object.
LEMMA ParentsLink ==
  ASSUME WellFormedProgram(syntax), HierarchyFacts
  PROVE  /\ LinkTable(Parents) /\ Len(Parents) = Len(syntax) /\ Grounded(Parents)
         /\ Parents[Obj] = 0
         /\ \A i \in FileIds :
              /\ Parents[i] = IF files[i].base # 0 THEN files[i].base
                              ELSE IF syntax[i].kind = "error" THEN Obj ELSE 0
              /\ Parents[i] # 0 => IsClass(i) /\ Parents[i] \in ClassIds
<1>1. /\ Len(syntax) \in Nat /\ FileIds = 1..Len(syntax) /\ Obj \in FileIds
      /\ syntax[Obj].kind = "class"
  BY ProgramTyped
<1>2. \A i \in FileIds : Parents[i] = IF files[i].base # 0 THEN files[i].base
                                      ELSE IF syntax[i].kind = "error" THEN Obj ELSE 0
  BY DEF Parents
<1>3. \A i \in FileIds : files[i].base \in 0..Len(syntax)
  BY DEF HierarchyFacts, FileTyped
<1>4. Parents \in [1..Len(syntax) -> 0..Len(syntax)]
  <2>1. \A i \in FileIds : Parents[i] \in 0..Len(syntax)
    BY <1>1, <1>2, <1>3
  <2>2. Parents = [i \in FileIds |-> Parents[i]]
    BY DEF Parents
  <2> QED BY <1>1, <2>1, <2>2
<1>5. Len(Parents) = Len(syntax) /\ LinkTable(Parents)
  BY <1>1, <1>4, FunctionIsSeq DEF LinkTable
<1>6. Parents[Obj] = 0
  BY <1>1, <1>2 DEF HierarchyFacts
<1>7. \A i \in FileIds : Parents[i] # 0 => IsClass(i) /\ Parents[i] \in ClassIds
  BY <1>1, <1>2, <1>3 DEF HierarchyFacts, BaseFits, IsClass, ClassIds
<1>8. Grounded(Parents)
  <2> SUFFICES ASSUME NEW C \in SUBSET (1..Len(Parents)), \A b \in C : Parents[b] \in C
               PROVE  C = {}
    BY DEF Grounded
  <2>1. C \subseteq FileIds /\ 0 \notin C
    BY <1>1, <1>5
  <2>2. Obj \notin C
    BY <1>6, <2>1
  <2>3. \A b \in C : Bases[b] \in C
    BY <1>2, <2>1, <2>2, BasesLink
  <2>4. Grounded(Bases) /\ Len(Bases) = Len(Parents)
    BY <1>5, BasesLink DEF HierarchyFacts
  <2> QED BY <2>3, <2>4 DEF Grounded
<1> QED BY <1>2, <1>5, <1>6, <1>7, <1>8

\* The lineage of a class is the class and the lineage of its parent.
LEMMA LineageStep ==
  ASSUME WellFormedProgram(syntax), HierarchyFacts, NEW i \in FileIds
  PROVE  Lineage(i) = IF Parents[i] = 0 THEN {i} ELSE {i} \cup Lineage(Parents[i])
<1>1. i \in 1..Len(Parents)
  BY ParentsLink, ProgramTyped
<1> QED BY <1>1, ParentsLink, AncestorsStep DEF Lineage

\* Sets of classes closed under parents have whole lineages.
LEMMA LineageWithin ==
  ASSUME WellFormedProgram(syntax), HierarchyFacts, NEW C \in SUBSET FileIds,
         \A i \in C : Parents[i] # 0 => Parents[i] \in C, NEW i \in C
  PROVE  Lineage(i) \subseteq C
<1> DEFINE Bad == {j \in C : ~(Lineage(j) \subseteq C)}
<1>1. ASSUME NEW j \in Bad PROVE Parents[j] \in Bad
  <2>1. Lineage(j) = IF Parents[j] = 0 THEN {j} ELSE {j} \cup Lineage(Parents[j])
    BY LineageStep
  <2> QED BY <1>1, <2>1
<1>2. Bad = {}
  <2>1. Bad \in SUBSET (1..Len(Parents)) /\ Grounded(Parents)
    BY ParentsLink, ProgramTyped
  <2> HIDE DEF Bad
  <2> QED BY <1>1, <2>1 DEF Grounded
<1> QED BY <1>2

\* A symbol as another one, but for the slot it takes.
SameButSlot(v, w) ==
  /\ DOMAIN v = SymbolFields
  /\ v.kind = w.kind /\ v.file = w.file /\ v.name = w.name /\ v.type = w.type
  /\ v.throws = w.throws /\ v.explicit = w.explicit /\ v.static = w.static
  /\ v.private = w.private /\ v.override = w.override /\ v.abstract = w.abstract
  /\ v.final = w.final /\ v.body = w.body /\ v.valid = w.valid
  /\ v.baseConstructor = w.baseConstructor /\ v.declared = w.declared
  /\ v.slot # w.slot => w.kind = "function" /\ ~w.static /\ ~w.private

\* An entry of the table of class i once its first k functions are placed.
EntryPlaced(i, k, acc, n) ==
  LET f == acc.table[n]
      own == files[i].functions
      inherited == InheritedTable(i)
  IN /\ f \in PublicInstance /\ acc.sy[f].slot = n
     /\ \A m \in DOMAIN acc.table : symbols[acc.table[m]].name = symbols[f].name => m = n
     /\ \/ n \in DOMAIN inherited /\ f = inherited[n]
        \/ \E m \in 1..k : f = own[m] /\ (n \in DOMAIN inherited => Replaces(f, inherited[n]))
Placing(i, k, acc) ==
  /\ DOMAIN acc = {"table", "sy", "ok"}
  /\ acc.table \in Seq(Nat) /\ Len(InheritedTable(i)) <= Len(acc.table)
  /\ DOMAIN acc.sy = DOMAIN symbols /\ acc.sy \in Seq({acc.sy[s] : s \in DOMAIN acc.sy})
  /\ \A s \in DOMAIN symbols : /\ SameButSlot(acc.sy[s], symbols[s])
                               /\ s \notin Own(i) => acc.sy[s] = symbols[s]
  /\ \A n \in DOMAIN acc.table : EntryPlaced(i, k, acc, n)
  /\ \A m \in 1..k : files[i].functions[m] \in PublicInstance =>
       \E n \in DOMAIN acc.table : acc.table[n] = files[i].functions[m]

\* Functions of a file differ in name.
LEMMA OwnNamesDiffer ==
  ASSUME WellFormedProgram(syntax), SymbolFacts, NEW i \in FileIds,
         NEW m \in DOMAIN files[i].functions, NEW n \in DOMAIN files[i].functions,
         symbols[files[i].functions[m]].name = symbols[files[i].functions[n]].name
  PROVE  m = n
<1>1. /\ DOMAIN files[i].functions = DOMAIN syntax[i].functions
      /\ symbols[files[i].functions[m]].name = syntax[i].functions[m].name
      /\ symbols[files[i].functions[n]].name = syntax[i].functions[n].name
  BY DEF SymbolFacts, FunctionRegistered
<1>2. i \in DOMAIN syntax
  BY ProgramTyped
<1> QED BY ZenonT(60), <1>1, <1>2 DEF WellFormedProgram

\* A function takes a slot that no entry of its name holds: a new one.
LEMMA PlaceNew ==
  ASSUME WellFormedProgram(syntax), HierarchyFacts, SymbolFacts, NEW i \in FileIds,
         NEW k \in Nat, k + 1 \in DOMAIN files[i].functions, NEW acc, Placing(i, k, acc),
         files[i].functions[k + 1] \in PublicInstance,
         Matching(acc.sy, acc.table, files[i].functions[k + 1]) = 0,
         InheritedTable(i) \in Seq(Nat)
  PROVE  Placing(i, k + 1, [acc EXCEPT !.sy[files[i].functions[k + 1]].slot = Len(acc.table) + 1,
                                       !.table = Append(@, files[i].functions[k + 1])])
<1> DEFINE own == files[i].functions
           f == own[k + 1]
           table == acc.table
           sy == acc.sy
           inherited == InheritedTable(i)
           slot == Len(table) + 1
           more == Append(table, f)
           made == [acc EXCEPT !.sy[f].slot = Len(acc.table) + 1, !.table = Append(@, f)]
<1>1. /\ DOMAIN acc = {"table", "sy", "ok"}
      /\ table \in Seq(Nat) /\ Len(inherited) <= Len(table)
      /\ DOMAIN sy = DOMAIN symbols /\ sy \in Seq({sy[s] : s \in DOMAIN sy})
      /\ \A s \in DOMAIN symbols : /\ SameButSlot(sy[s], symbols[s])
                                   /\ s \notin Own(i) => sy[s] = symbols[s]
      /\ \A n \in DOMAIN table : EntryPlaced(i, k, acc, n)
      /\ \A m \in 1..k : own[m] \in PublicInstance => \E n \in DOMAIN table : table[n] = own[m]
  BY DEF Placing
<1>2. f \in DOMAIN symbols /\ f \in PublicInstance /\ f \in Own(i) /\ f \in Nat
      /\ k + 1 \in DOMAIN own
  BY DEF PublicInstance, Own, ToSet, SymbolFacts
<1>3. /\ made.table = more /\ made.sy = [sy EXCEPT ![f].slot = slot]
      /\ DOMAIN made = {"table", "sy", "ok"}
  BY <1>1
<1> HIDE DEF f, sy, made
<1>4. /\ DOMAIN made.sy = DOMAIN symbols
      /\ \A s \in DOMAIN symbols : s # f => made.sy[s] = sy[s]
      /\ made.sy[f] = [sy[f] EXCEPT !.slot = slot]
  BY <1>1, <1>2, <1>3
<1>5. SameButSlot(made.sy[f], symbols[f]) /\ made.sy[f].slot = slot
  <2>1. SameButSlot(sy[f], symbols[f])
    BY <1>1, <1>2
  <2> HIDE DEF slot
  <2> QED BY <1>2, <1>4, <2>1 DEF SameButSlot, SymbolFields, PublicInstance
<1>6. made.sy \in Seq({made.sy[s] : s \in DOMAIN made.sy})
  <2> DEFINE v == [sy[f] EXCEPT !.slot = slot]
             T == {sy[s] : s \in DOMAIN sy} \cup {v}
  <2>1. sy \in Seq(T) /\ v \in T
    BY <1>1
  <2>2. made.sy = [sy EXCEPT ![f] = v]
    BY <1>3
  <2> HIDE DEF v, T
  <2>3. made.sy \in Seq(T)
    <3>1. [sy EXCEPT ![f] = v] \in Seq(T)
      BY <2>1, ReplaceFacts
    <3> QED BY <2>2, <3>1
  <2> DEFINE u == made.sy
  <2> HIDE DEF u
  <2>4. u \in Seq({u[s] : s \in DOMAIN u})
    BY <2>3, SeqOfValues DEF u
  <2> QED BY <2>4 DEF u
<1>7. /\ DOMAIN more = 1..slot /\ DOMAIN table = 1..Len(table) /\ Len(table) \in Nat
      /\ \A n \in 1..Len(table) : more[n] = table[n]
      /\ more[slot] = f /\ more \in Seq(Nat) /\ Len(more) = slot
  <2> HIDE DEF table
  <2> QED BY <1>1, <1>2, AppendFacts
<1>8. \A n \in DOMAIN table : /\ table[n] \in PublicInstance /\ table[n] \in DOMAIN symbols
                              /\ symbols[table[n]].name # symbols[f].name /\ table[n] # f
  <2> SUFFICES ASSUME NEW n \in DOMAIN table
               PROVE  /\ table[n] \in PublicInstance /\ table[n] \in DOMAIN symbols
                      /\ symbols[table[n]].name # symbols[f].name /\ table[n] # f
    OBVIOUS
  <2>1. table[n] \in PublicInstance /\ table[n] \in DOMAIN symbols
    BY <1>1 DEF EntryPlaced, PublicInstance
  <2>2. sy[table[n]].name # sy[f].name
    <3>1. Matching(sy, table, f) = 0
      BY DEF sy, f
    <3> HIDE DEF table
    <3> QED BY <1>7, <3>1, MatchingEntry
  <2>3. SameButSlot(sy[table[n]], symbols[table[n]]) /\ SameButSlot(sy[f], symbols[f])
    BY <1>1, <1>2, <2>1
  <2>4. sy[table[n]].name = symbols[table[n]].name /\ sy[f].name = symbols[f].name
    BY <2>3 DEF SameButSlot
  <2> QED BY <2>1, <2>2, <2>4
<1>9. DOMAIN inherited = 1..Len(inherited) /\ Len(inherited) \in Nat
  <2>1. inherited \in Seq(Nat)
    OBVIOUS
  <2> HIDE DEF inherited
  <2> QED BY <2>1
<1> HIDE DEF table, more, inherited, slot
<1>10. slot \in Nat /\ slot \notin DOMAIN inherited /\ slot \in DOMAIN more /\ slot \notin DOMAIN table
       /\ \A n \in DOMAIN more : n = slot \/ n \in DOMAIN table
  <2>1. slot = Len(table) + 1 /\ Len(table) \in Nat /\ Len(inherited) <= Len(table)
    BY <1>1, <1>7 DEF slot
  <2>2. slot \in Nat /\ slot \notin 1..Len(inherited) /\ slot \in 1..slot /\ slot \notin 1..Len(table)
        /\ \A n \in 1..slot : n = slot \/ n \in 1..Len(table)
    BY <1>9, <2>1
  <2> QED BY <1>7, <1>9, <2>2
<1>11. \A n \in DOMAIN table : n \in DOMAIN more /\ more[n] = table[n]
  BY <1>7 DEF slot
<1>12. ASSUME NEW n \in DOMAIN more PROVE EntryPlaced(i, k + 1, made, n)
  <2>1. CASE n = slot
    <3>1. \A m \in DOMAIN more : symbols[more[m]].name = symbols[f].name => m = n
      BY <1>8, <1>10, <1>11, <2>1
    <3>2. k + 1 \in 1..(k + 1)
      OBVIOUS
    <3> QED BY <1>2, <1>3, <1>5, <1>7, <1>10, <2>1, <3>1, <3>2 DEF EntryPlaced, inherited, f
  <2>2. CASE n # slot
    <3>1. n \in DOMAIN table /\ more[n] = table[n]
      BY <1>10, <1>11, <2>2
    <3>2. /\ sy[table[n]].slot = n
          /\ \A m \in DOMAIN table : symbols[table[m]].name = symbols[table[n]].name => m = n
          /\ \/ n \in DOMAIN inherited /\ table[n] = inherited[n]
             \/ \E m \in 1..k : /\ table[n] = own[m]
                                /\ n \in DOMAIN inherited => Replaces(table[n], inherited[n])
      BY <1>1, <3>1 DEF EntryPlaced, table, sy, inherited
    <3>3. made.sy[table[n]].slot = n
      BY <1>4, <1>8, <3>1, <3>2
    <3>4. \A m \in DOMAIN more : symbols[more[m]].name = symbols[more[n]].name => m = n
      BY <1>7, <1>8, <1>10, <1>11, <3>1, <3>2
    <3>5. \A m \in 1..k : m \in 1..(k + 1)
      OBVIOUS
    <3>6. \/ n \in DOMAIN inherited /\ more[n] = inherited[n]
          \/ \E m \in 1..(k + 1) : /\ more[n] = own[m]
                                   /\ n \in DOMAIN inherited => Replaces(more[n], inherited[n])
      BY <3>1, <3>2, <3>5
    <3> QED BY <1>3, <1>8, <3>1, <3>3, <3>4, <3>6 DEF EntryPlaced, inherited
  <2> QED BY <2>1, <2>2
<1>13. \A m \in 1..(k + 1) : own[m] \in PublicInstance =>
         \E n \in DOMAIN more : more[n] = own[m]
  <2> SUFFICES ASSUME NEW m \in 1..(k + 1), own[m] \in PublicInstance
               PROVE  \E n \in DOMAIN more : more[n] = own[m]
    OBVIOUS
  <2>1. CASE m = k + 1
    BY <1>7, <1>10, <2>1 DEF f
  <2>2. CASE m # k + 1
    <3>1. m \in 1..k
      BY <2>2
    <3>2. PICK n \in DOMAIN table : table[n] = own[m]
      BY <1>1, <3>1 DEF table
    <3> QED BY <1>11, <3>2
  <2> QED BY <2>1, <2>2
<1>14. \A s \in DOMAIN symbols : /\ SameButSlot(made.sy[s], symbols[s])
                                 /\ s \notin Own(i) => made.sy[s] = symbols[s]
  BY <1>1, <1>2, <1>4, <1>5 DEF sy
<1>15. Len(inherited) <= Len(more)
  BY <1>1, <1>7, <1>9 DEF slot
<1>16. Placing(i, k + 1, made)
  BY ZenonT(60), <1>3, <1>4, <1>6, <1>7, <1>12, <1>13, <1>14, <1>15 DEF Placing, inherited
<1> QED BY <1>16 DEF made, f

\* The entry of its name is one function f may override.
Overriding(acc, f) ==
  LET at == Matching(acc.sy, acc.table, f)
      old == acc.sy[acc.table[at]]
  IN /\ at # 0
     /\ IsOverrideReturnCompatible(Bases, Interfaces, old.type, acc.sy[f].type)
     /\ ThrowsSetCovers(Bases, old.throws, acc.sy[f].throws)
\* It takes the slot of that entry.
Override(acc, f) ==
  LET at == Matching(acc.sy, acc.table, f)
  IN  [acc EXCEPT !.sy[f].slot = at, !.sy[f].overridden = acc.table[at], !.table[at] = f]

\* A function takes the slot of the inherited entry of its name.
LEMMA PlaceOverride ==
  ASSUME WellFormedProgram(syntax), HierarchyFacts, SymbolFacts, NEW i \in FileIds,
         NEW k \in Nat, k + 1 \in DOMAIN files[i].functions, NEW acc, Placing(i, k, acc),
         files[i].functions[k + 1] \in PublicInstance, Overriding(acc, files[i].functions[k + 1]),
         InheritedTable(i) \in Seq(Nat)
  PROVE  Placing(i, k + 1, Override(acc, files[i].functions[k + 1]))
<1> DEFINE own == files[i].functions
           f == own[k + 1]
           at == Matching(acc.sy, acc.table, f)
           table == acc.table
           sy == acc.sy
           inherited == InheritedTable(i)
           more == [table EXCEPT ![at] = f]
           made == Override(acc, f)
<1>1. /\ DOMAIN acc = {"table", "sy", "ok"}
      /\ table \in Seq(Nat) /\ Len(inherited) <= Len(table)
      /\ DOMAIN sy = DOMAIN symbols /\ sy \in Seq({sy[s] : s \in DOMAIN sy})
      /\ \A s \in DOMAIN symbols : /\ SameButSlot(sy[s], symbols[s])
                                   /\ s \notin Own(i) => sy[s] = symbols[s]
      /\ \A n \in DOMAIN table : EntryPlaced(i, k, acc, n)
      /\ \A m \in 1..k : own[m] \in PublicInstance => \E n \in DOMAIN table : table[n] = own[m]
  BY DEF Placing
<1>2. f \in DOMAIN symbols /\ f \in PublicInstance /\ f \in Own(i) /\ f \in Nat
      /\ k + 1 \in DOMAIN own /\ f = own[k + 1]
  BY DEF PublicInstance, Own, ToSet, SymbolFacts
<1> DEFINE marked == [[sy EXCEPT ![f].slot = at] EXCEPT ![f].overridden = table[at]]
<1>3. /\ made.table = more /\ made.sy = marked
      /\ DOMAIN made = {"table", "sy", "ok"}
  BY <1>1 DEF Override
<1>a. /\ at # 0
      /\ IsOverrideReturnCompatible(Bases, Interfaces, sy[table[at]].type, sy[f].type)
      /\ ThrowsSetCovers(Bases, sy[table[at]].throws, sy[f].throws)
  BY DEF Overriding
<1>b. at = Matching(sy, table, f)
  OBVIOUS
<1> HIDE DEF f, at, sy, made, more, table
<1>4. /\ DOMAIN made.sy = DOMAIN symbols
      /\ \A s \in DOMAIN symbols : s # f => made.sy[s] = sy[s]
      /\ made.sy[f] = [[sy[f] EXCEPT !.slot = at] EXCEPT !.overridden = table[at]]
  BY <1>1, <1>2, <1>3
<1>5. SameButSlot(made.sy[f], symbols[f]) /\ made.sy[f].slot = at
  <2>1. SameButSlot(sy[f], symbols[f])
    BY <1>1, <1>2
  <2> QED BY ZenonT(60), <1>2, <1>4, <2>1 DEF SameButSlot, SymbolFields, PublicInstance
<1>6. made.sy \in Seq({made.sy[s] : s \in DOMAIN made.sy})
  <2> DEFINE v == [[sy[f] EXCEPT !.slot = at] EXCEPT !.overridden = table[at]]
             T == {sy[s] : s \in DOMAIN sy} \cup {v}
  <2>1. sy \in Seq(T) /\ v \in T
    BY <1>1
  <2>2. made.sy = [sy EXCEPT ![f] = v]
    BY <1>1, <1>2, <1>3
  <2> HIDE DEF v, T
  <2>3. made.sy \in Seq(T)
    <3>1. [sy EXCEPT ![f] = v] \in Seq(T)
      BY <2>1, ReplaceFacts
    <3> QED BY <2>2, <3>1
  <2> DEFINE u == made.sy
  <2> HIDE DEF u
  <2>4. u \in Seq({u[s] : s \in DOMAIN u})
    BY <2>3, SeqOfValues DEF u
  <2> QED BY <2>4 DEF u
<1>7. /\ DOMAIN table = 1..Len(table) /\ Len(table) \in Nat
      /\ more \in Seq(Nat) /\ DOMAIN more = DOMAIN table
      /\ \A n \in DOMAIN table : more[n] = IF n = at THEN f ELSE table[n]
  <2>1. more \in Seq(Nat) /\ DOMAIN more = DOMAIN table
    BY <1>1, <1>2, ReplaceFacts DEF more
  <2>2. DOMAIN table = 1..Len(table) /\ Len(table) \in Nat
    BY <1>1
  <2> QED BY <2>1, <2>2 DEF more
<1>8. at \in DOMAIN table /\ sy[table[at]].name = sy[f].name
  BY <1>7, <1>a, <1>b, MatchingEntry
<1>9. \A n \in DOMAIN table :
        /\ table[n] \in PublicInstance /\ table[n] \in DOMAIN symbols
        /\ sy[table[n]].slot = n
        /\ \A m \in DOMAIN table : symbols[table[m]].name = symbols[table[n]].name => m = n
        /\ \/ n \in DOMAIN inherited /\ table[n] = inherited[n]
           \/ \E m \in 1..k : /\ table[n] = own[m]
                              /\ n \in DOMAIN inherited => Replaces(table[n], inherited[n])
  BY <1>1 DEF EntryPlaced, table, sy, PublicInstance
<1>10. \A s \in DOMAIN symbols : /\ sy[s].name = symbols[s].name /\ sy[s].type = symbols[s].type
                                 /\ sy[s].throws = symbols[s].throws
  BY <1>1 DEF SameButSlot
<1>11. symbols[table[at]].name = symbols[f].name
  BY <1>2, <1>8, <1>9, <1>10
<1>12. \A m \in 1..k : own[m] # table[at]
  <2> SUFFICES ASSUME NEW m \in 1..k, own[m] = table[at] PROVE FALSE
    OBVIOUS
  <2>1. own \in Seq(Nat)
    BY DEF HierarchyFacts, FileTyped
  <2>2. m \in DOMAIN own /\ k + 1 \in DOMAIN own /\ m # k + 1
    <3> HIDE DEF own
    <3> QED BY <1>2, <2>1
  <2>3. symbols[own[m]].name = symbols[own[k + 1]].name
    BY <1>2, <1>11
  <2> QED BY <2>2, <2>3, OwnNamesDiffer
<1>13. at \in DOMAIN inherited => Replaces(f, inherited[at])
  <2> SUFFICES ASSUME at \in DOMAIN inherited PROVE Replaces(f, inherited[at])
    OBVIOUS
  <2>1. table[at] = inherited[at]
    BY <1>8, <1>9, <1>12
  <2>2. sy[table[at]].type = symbols[table[at]].type /\ sy[f].type = symbols[f].type
        /\ sy[table[at]].throws = symbols[table[at]].throws /\ sy[f].throws = symbols[f].throws
    BY <1>2, <1>8, <1>9, <1>10
  <2>3. /\ IsOverrideReturnCompatible(Bases, Interfaces, sy[table[at]].type, sy[f].type)
        /\ ThrowsSetCovers(Bases, sy[table[at]].throws, sy[f].throws)
    BY <1>a
  <2> HIDE DEF inherited
  <2> QED BY <1>11, <2>1, <2>2, <2>3 DEF Replaces
<1> HIDE DEF inherited
<1>14. ASSUME NEW n \in DOMAIN more PROVE EntryPlaced(i, k + 1, made, n)
  <2>1. \A m \in DOMAIN more : symbols[more[m]].name = symbols[more[n]].name => m = n
    <3>1. \A m \in DOMAIN table : symbols[more[m]].name = symbols[table[m]].name
      BY <1>7, <1>11
    <3> QED BY <1>7, <1>9, <3>1
  <2>2. CASE n = at
    <3>1. k + 1 \in 1..(k + 1)
      OBVIOUS
    <3>2. more[n] = f
      BY <1>7, <1>8, <2>2
    <3> QED BY <1>2, <1>3, <1>5, <1>13, <2>1, <2>2, <3>1, <3>2 DEF EntryPlaced, inherited
  <2>3. CASE n # at
    <3>1. n \in DOMAIN table /\ more[n] = table[n]
      BY <1>7, <2>3
    <3>2. table[n] # f
      BY <1>8, <1>9, <1>11, <2>3, <3>1
    <3>3. made.sy[more[n]].slot = n
      BY <1>4, <1>9, <3>1, <3>2
    <3>4. \A m \in 1..k : m \in 1..(k + 1)
      OBVIOUS
    <3>5. \/ n \in DOMAIN inherited /\ more[n] = inherited[n]
          \/ \E m \in 1..(k + 1) : /\ more[n] = own[m]
                                   /\ n \in DOMAIN inherited => Replaces(more[n], inherited[n])
      BY <1>9, <3>1, <3>4
    <3> QED BY <1>3, <1>9, <2>1, <3>1, <3>3, <3>5 DEF EntryPlaced, inherited
  <2> QED BY <2>2, <2>3
<1>15. \A m \in 1..(k + 1) : own[m] \in PublicInstance =>
         \E n \in DOMAIN more : more[n] = own[m]
  <2> SUFFICES ASSUME NEW m \in 1..(k + 1), own[m] \in PublicInstance
               PROVE  \E n \in DOMAIN more : more[n] = own[m]
    OBVIOUS
  <2>1. CASE m = k + 1
    BY <1>2, <1>7, <1>8, <2>1
  <2>2. CASE m # k + 1
    <3>1. m \in 1..k
      BY <2>2
    <3>2. PICK n \in DOMAIN table : table[n] = own[m]
      BY <1>1, <3>1 DEF table
    <3>3. n # at
      BY <1>12, <3>1, <3>2
    <3> QED BY <1>7, <3>2, <3>3
  <2> QED BY <2>1, <2>2
<1>16. \A s \in DOMAIN symbols : /\ SameButSlot(made.sy[s], symbols[s])
                                 /\ s \notin Own(i) => made.sy[s] = symbols[s]
  BY <1>1, <1>2, <1>4, <1>5 DEF sy
<1>17. Len(inherited) <= Len(more)
  <2>1. Len(more) = Len(table)
    <3>1. Len(more) \in Nat /\ DOMAIN more = 1..Len(more)
      BY <1>7
    <3> QED BY <1>7, <3>1
  <2> QED BY <1>1, <2>1 DEF inherited, table
<1>18. Placing(i, k + 1, made)
  BY <1>3, <1>4, <1>6, <1>7, <1>14, <1>15, <1>16, <1>17 DEF Placing, inherited
<1> QED BY <1>18 DEF made, f

\* One function of a class is placed, if no rule refuses it.
LEMMA PlaceStep ==
  ASSUME WellFormedProgram(syntax), HierarchyFacts, SymbolFacts, NEW i \in FileIds,
         NEW k \in Nat, k + 1 \in DOMAIN files[i].functions, NEW acc, Placing(i, k, acc),
         PlaceFunction(i, acc, files[i].functions[k + 1]).ok,
         InheritedTable(i) \in Seq(Nat)
  PROVE  acc.ok /\ Placing(i, k + 1, PlaceFunction(i, acc, files[i].functions[k + 1]))
<1> DEFINE own == files[i].functions
           f == own[k + 1]
           me == acc.sy[f]
           at == Matching(acc.sy, acc.table, f)
           old == acc.sy[acc.table[at]]
           required == \E n \in DOMAIN files[i].interfaces :
                         Matching(acc.sy, files[files[i].interfaces[n]].contract, f) # 0
           refused(a) == [a EXCEPT !.sy[f].valid = FALSE, !.ok = FALSE]
           new == [acc EXCEPT !.sy[f].slot = Len(acc.table) + 1, !.table = Append(@, f)]
           bad == \/ old.final
                  \/ ~IsOverrideReturnCompatible(Bases, Interfaces, old.type, me.type)
                  \/ ~ThrowsSetCovers(Bases, old.throws, me.throws)
           made == PlaceFunction(i, acc, f)
<1>1. /\ DOMAIN acc = {"table", "sy", "ok"} /\ DOMAIN acc.sy = DOMAIN symbols
      /\ \A s \in DOMAIN symbols : SameButSlot(acc.sy[s], symbols[s])
  BY DEF Placing
<1>2. made = IF me.static \/ me.private THEN IF ~me.override THEN acc ELSE refused(acc)
             ELSE IF at = 0 THEN IF me.override = required THEN new ELSE refused(new)
             ELSE IF bad THEN refused(acc)
             ELSE IF me.override THEN Override(acc, f) ELSE refused(Override(acc, f))
  BY DEF PlaceFunction, Override
<1>3. f \in DOMAIN symbols /\ symbols[f].kind = "function"
  BY DEF SymbolFacts, FunctionRegistered
<1>4. /\ me.static = symbols[f].static /\ me.private = symbols[f].private
  BY <1>1, <1>3 DEF SameButSlot
<1>5. DOMAIN new = {"table", "sy", "ok"} /\ new.ok = acc.ok
  BY <1>1
<1>6. DOMAIN Override(acc, f) = {"table", "sy", "ok"} /\ Override(acc, f).ok = acc.ok
  BY <1>1 DEF Override
<1>7. ASSUME NEW a, DOMAIN a = {"table", "sy", "ok"} PROVE ~refused(a).ok
  BY <1>7
<1>8. made.ok
  OBVIOUS
<1> HIDE DEF new, refused, made, bad, required, at
<1>9. CASE me.static \/ me.private
  <2>1. made = acc
    BY <1>1, <1>2, <1>7, <1>8, <1>9
  <2>2. f \notin PublicInstance
    BY <1>4, <1>9 DEF PublicInstance
  <2>3. \A n \in DOMAIN acc.table : EntryPlaced(i, k + 1, acc, n)
    <3> SUFFICES ASSUME NEW n \in DOMAIN acc.table PROVE EntryPlaced(i, k + 1, acc, n)
      OBVIOUS
    <3>1. EntryPlaced(i, k, acc, n)
      BY DEF Placing
    <3>2. \A m \in 1..k : m \in 1..(k + 1)
      OBVIOUS
    <3> QED BY <3>1, <3>2 DEF EntryPlaced
  <2>4. \A m \in 1..(k + 1) : own[m] \in PublicInstance => m \in 1..k
    <3>1. \A m \in 1..(k + 1) : m = k + 1 \/ m \in 1..k
      OBVIOUS
    <3> QED BY <2>2, <3>1
  <2>5. Placing(i, k + 1, acc)
    BY <2>3, <2>4 DEF Placing
  <2> QED BY <1>8, <2>1, <2>5 DEF made
<1>10. CASE ~(me.static \/ me.private) /\ at = 0
  <2>1. made = new
    BY <1>2, <1>5, <1>7, <1>8, <1>10
  <2>2. f \in PublicInstance
    BY <1>3, <1>4, <1>10 DEF PublicInstance
  <2>3. Placing(i, k + 1, new)
    BY <1>10, <2>2, PlaceNew DEF at, new
  <2> QED BY <1>5, <1>8, <2>1, <2>3 DEF made
<1>11. CASE ~(me.static \/ me.private) /\ at # 0
  <2>1. ~bad /\ made = Override(acc, f)
    BY <1>1, <1>2, <1>6, <1>7, <1>8, <1>11
  <2>2. f \in PublicInstance
    BY <1>3, <1>4, <1>11 DEF PublicInstance
  <2>3. Overriding(acc, f)
    BY <1>11, <2>1 DEF Overriding, bad, at
  <2>4. Placing(i, k + 1, Override(acc, f))
    BY <2>2, <2>3, PlaceOverride
  <2> QED BY <1>6, <1>8, <2>1, <2>4 DEF made
<1> QED BY <1>9, <1>10, <1>11

\* A refused function refuses the class: the verdict is never taken back.
LEMMA VerdictStays ==
  ASSUME NEW i, NEW acc, NEW f, DOMAIN acc = {"table", "sy", "ok"}
  PROVE  /\ DOMAIN PlaceFunction(i, acc, f) = {"table", "sy", "ok"}
         /\ PlaceFunction(i, acc, f).ok => acc.ok
<1> DEFINE me == acc.sy[f]
           at == Matching(acc.sy, acc.table, f)
           old == acc.sy[acc.table[at]]
           required == \E n \in DOMAIN files[i].interfaces :
                         Matching(acc.sy, files[files[i].interfaces[n]].contract, f) # 0
           refused(a) == [a EXCEPT !.sy[f].valid = FALSE, !.ok = FALSE]
           new == [acc EXCEPT !.sy[f].slot = Len(acc.table) + 1, !.table = Append(@, f)]
           bad == \/ old.final
                  \/ ~IsOverrideReturnCompatible(Bases, Interfaces, old.type, me.type)
                  \/ ~ThrowsSetCovers(Bases, old.throws, me.throws)
           made == PlaceFunction(i, acc, f)
<1>2. made = IF me.static \/ me.private THEN IF ~me.override THEN acc ELSE refused(acc)
             ELSE IF at = 0 THEN IF me.override = required THEN new ELSE refused(new)
             ELSE IF bad THEN refused(acc)
             ELSE IF me.override THEN Override(acc, f) ELSE refused(Override(acc, f))
  BY DEF PlaceFunction, Override
<1>5. DOMAIN new = {"table", "sy", "ok"} /\ new.ok = acc.ok
  OBVIOUS
<1>6. DOMAIN Override(acc, f) = {"table", "sy", "ok"} /\ Override(acc, f).ok = acc.ok
  BY DEF Override
<1>7. ASSUME NEW a, DOMAIN a = {"table", "sy", "ok"}
      PROVE  ~refused(a).ok /\ DOMAIN refused(a) = {"table", "sy", "ok"}
  BY <1>7
<1> HIDE DEF new, refused, made, bad, required, at, me
<1>8. /\ DOMAIN made = {"table", "sy", "ok"}
      /\ made.ok => acc.ok
  BY <1>2, <1>5, <1>6, <1>7
<1> QED BY <1>8 DEF made

\* placed[k] is the table with the first k functions.
PlaceSteps(i, f, n) ==
  f = [k \in 0..n |-> IF k = 0 THEN [table |-> InheritedTable(i), sy |-> symbols, ok |-> TRUE]
                      ELSE PlaceFunction(i, f[k - 1], files[i].functions[k])]

\* The table of a class is the end of the loop over its functions.
LEMMA PlacedUnfolds ==
  ASSUME NEW i, Len(files[i].functions) \in Nat
  PROVE  \E f : PlaceSteps(i, f, Len(files[i].functions)) /\ Placed(i) = f[Len(files[i].functions)]
<1> DEFINE S == {n \in Nat : ~\E f : PlaceSteps(i, f, n)}
<1>1. 0 \notin S
  <2>1. PlaceSteps(i, [k \in 0..0 |-> [table |-> InheritedTable(i), sy |-> symbols, ok |-> TRUE]], 0)
    BY DEF PlaceSteps
  <2> QED BY <2>1
<1>2. ASSUME NEW n \in Nat, n \notin S PROVE n + 1 \notin S
  <2>1. PICK g : PlaceSteps(i, g, n)
    BY <1>2
  <2> DEFINE f == [k \in 0..(n + 1) |-> IF k = n + 1 THEN PlaceFunction(i, g[n], files[i].functions[n + 1]) ELSE g[k]]
  <2>2. \A k \in 0..n : g[k] = IF k = 0 THEN [table |-> InheritedTable(i), sy |-> symbols, ok |-> TRUE] ELSE PlaceFunction(i, g[k - 1], files[i].functions[k])
    BY <2>1 DEF PlaceSteps
  <2>3. \A k \in 0..(n + 1) : f[k] = IF k = 0 THEN [table |-> InheritedTable(i), sy |-> symbols, ok |-> TRUE] ELSE PlaceFunction(i, f[k - 1], files[i].functions[k])
    <3>1. f[n + 1] = PlaceFunction(i, f[n], files[i].functions[n + 1])
      <4>1. n \in 0..(n + 1) /\ n # n + 1 /\ n + 1 \in 0..(n + 1)
        OBVIOUS
      <4>2. f[n] = g[n] /\ f[n + 1] = PlaceFunction(i, g[n], files[i].functions[n + 1])
        BY <4>1
      <4> HIDE DEF f
      <4> QED BY <4>2
    <3>2. \A k \in 0..n : f[k] = g[k] /\ (k # 0 => f[k - 1] = g[k - 1])
      OBVIOUS
    <3> HIDE DEF f
    <3>3. (n + 1) - 1 = n /\ n + 1 # 0
      OBVIOUS
    <3> SUFFICES ASSUME NEW k \in 0..(n + 1)
                 PROVE  f[k] = IF k = 0 THEN [table |-> InheritedTable(i), sy |-> symbols, ok |-> TRUE] ELSE PlaceFunction(i, f[k - 1], files[i].functions[k])
      OBVIOUS
    <3>4. CASE k = n + 1
      BY <3>1, <3>3, <3>4
    <3>5. CASE k \in 0..n
      BY <2>2, <3>2, <3>5
    <3> QED BY <3>4, <3>5
  <2>4. PlaceSteps(i, f, n + 1)
    BY <2>3 DEF PlaceSteps
  <2> QED BY <2>4
<1>3. S = {}
  <2>1. S \in SUBSET Nat
    OBVIOUS
  <2> HIDE DEF S
  <2> QED BY <1>1, <1>2, <2>1, NoException
<1> DEFINE made == CHOOSE f : PlaceSteps(i, f, Len(files[i].functions))
<1>4. PlaceSteps(i, made, Len(files[i].functions))
  BY <1>3
<1>5. Placed(i) = made[Len(files[i].functions)]
  BY DEF Placed, PlaceSteps
<1> QED BY <1>4, <1>5

\* A class whose functions are all accepted has them placed.
LEMMA AllPlaced ==
  ASSUME WellFormedProgram(syntax), HierarchyFacts, SymbolFacts, NEW i \in FileIds,
         Parents[i] # 0 => TableFacts(Parents[i]),
         Placed(i).ok
  PROVE  Placing(i, Len(files[i].functions), Placed(i))
<1> DEFINE own == files[i].functions
           last == Len(own)
           inherited == InheritedTable(i)
           none == [table |-> inherited, sy |-> symbols, ok |-> TRUE]
<1>1. last \in Nat /\ DOMAIN own = 1..last
  <2>1. own \in Seq(Nat)
    BY DEF HierarchyFacts, FileTyped
  <2> HIDE DEF own
  <2> QED BY <2>1
<1>2. PICK f : PlaceSteps(i, f, last) /\ Placed(i) = f[last]
  BY <1>1, PlacedUnfolds
<1> HIDE DEF last
<1>3. \A k \in 0..last : f[k] = IF k = 0 THEN none ELSE PlaceFunction(i, f[k - 1], own[k])
  BY <1>2 DEF PlaceSteps, last
<1>4. inherited \in Seq(Nat)
  <2>1. Parents[i] # 0 => Parents[i] \in FileIds
    BY ParentsLink DEF ClassIds
  <2> QED BY <2>1 DEF InheritedTable, HierarchyFacts, FileTyped
<1> DEFINE Good(k) == DOMAIN f[k] = {"table", "sy", "ok"} /\ (f[k].ok => Placing(i, k, f[k]))
           S == {k \in Nat : k <= last /\ ~Good(k)}
<1>5. Placing(i, 0, none)
  <2>1. /\ none.table = inherited /\ none.sy = symbols /\ DOMAIN none = {"table", "sy", "ok"}
    OBVIOUS
  <2> HIDE DEF none
  <2>2. Len(inherited) <= Len(none.table)
    <3>1. Len(inherited) \in Nat
      <4> HIDE DEF inherited
      <4> QED BY <1>4
    <3> QED BY <2>1, <3>1
  <2>3. \A s \in DOMAIN symbols : SameButSlot(symbols[s], symbols[s])
    BY DEF SymbolFacts, WellTyped, SameButSlot
  <2>4. ASSUME NEW n \in DOMAIN none.table PROVE EntryPlaced(i, 0, none, n)
    <3>1. Parents[i] # 0 /\ inherited = files[Parents[i]].virtuals
      BY <2>1, <2>4 DEF InheritedTable
    <3>2. EntryFits(Parents[i], n)
      BY <2>1, <3>1 DEF TableFacts
    <3> QED BY <2>1, <3>1, <3>2 DEF EntryFits, EntryPlaced
  <2>5. 1..0 = {}
    OBVIOUS
  <2> QED BY <1>4, <2>1, <2>2, <2>3, <2>4, <2>5 DEF Placing, SymbolFacts
<1> HIDE DEF none
<1>6. 0 \notin S
  <2>1. f[0] = none
    BY <1>1, <1>3
  <2> QED BY <1>5, <2>1 DEF Placing
<1>7. ASSUME NEW k \in Nat, k + 1 \in S PROVE k \in S
  <2>1. k + 1 <= last /\ ~Good(k + 1) /\ k <= last
    BY <1>1, <1>7
  <2>2. k + 1 \in 0..last /\ k + 1 # 0 /\ (k + 1) - 1 = k /\ k + 1 \in DOMAIN own
    BY <1>1, <2>1
  <2>3. f[k + 1] = PlaceFunction(i, f[k], own[k + 1])
    BY <1>3, <2>2
  <2> SUFFICES ASSUME Good(k) PROVE Good(k + 1)
    BY <2>1
  <2> DEFINE acc == f[k]
             made == PlaceFunction(i, acc, own[k + 1])
  <2>4. DOMAIN acc = {"table", "sy", "ok"} /\ (acc.ok => Placing(i, k, acc))
    OBVIOUS
  <2>5. DOMAIN made = {"table", "sy", "ok"} /\ (made.ok => acc.ok)
    BY <2>4, VerdictStays
  <2>6. made.ok => Placing(i, k + 1, made)
    <3> SUFFICES ASSUME made.ok PROVE Placing(i, k + 1, made)
      OBVIOUS
    <3>1. Placing(i, k, acc)
      BY <2>4, <2>5
    <3> QED BY <1>4, <2>2, <3>1, PlaceStep
  <2> QED BY <2>3, <2>5, <2>6
<1>8. S = {}
  <2>1. S \in SUBSET Nat
    OBVIOUS
  <2> HIDE DEF S
  <2> QED BY <1>6, <1>7, <2>1, NoException
<1>9. Good(last)
  <2> HIDE DEF Good
  <2> QED BY <1>1, <1>8
<1> QED BY <1>2, <1>9 DEF last

\* What a step that places the functions of one class leaves as it is.
Places(i) ==
  /\ syntax' = syntax /\ DOMAIN files' = DOMAIN files /\ files'[i].virtuals \in Seq(Nat)
  /\ files' = [files EXCEPT ![i].virtuals = Placed(i).table] /\ symbols' = Placed(i).sy
  /\ Placing(i, Len(files[i].functions), Placed(i))

\* Return types and errors are compared by declarations no step changes.
LEMMA ReplacesStable ==
  ASSUME NEW f, NEW old, syntax' = syntax, Bases' = Bases, Interfaces' = Interfaces,
         symbols'[f].name = symbols[f].name, symbols'[f].type = symbols[f].type,
         symbols'[f].throws = symbols[f].throws, symbols'[old].name = symbols[old].name,
         symbols'[old].type = symbols[old].type, symbols'[old].throws = symbols[old].throws
  PROVE  Replaces(f, old)' <=> Replaces(f, old)
BY DEF Replaces, IsOverrideReturnCompatible, IsReference, IsAssignable, IsAssignableNonNull,
       TypeKind, IsFileClassSubtype, IsBoxable, ThrowsSetCovers, IsErrorSubtype

\* A public function may stand for itself.
LEMMA ReplacesItself ==
  ASSUME SymbolFacts, NEW f \in PublicInstance
  PROVE  Replaces(f, f)
<1>1. \A t \in symbols[f].throws : IsError(t)
  BY DEF SymbolFacts, WellTyped, PublicInstance
<1> QED BY <1>1 DEF IsError, Replaces, IsOverrideReturnCompatible, ThrowsSetCovers, IsErrorSubtype, IsFileClassSubtype

\* Placing functions changes their slots and one table, nothing else.
LEMMA PlacementStable ==
  ASSUME WellFormedProgram(syntax), HierarchyFacts, SymbolFacts, NEW i \in FileIds, Places(i)
  PROVE  /\ FileIds' = FileIds /\ HierarchyFacts' /\ SymbolFacts'
         /\ Bases' = Bases /\ Interfaces' = Interfaces /\ Parents' = Parents
         /\ PublicInstance' = PublicInstance
         /\ \A j \in FileIds : Own(j)' = Own(j) /\ Closure(j)' = Closure(j)
         /\ \A j : IsClass(j)' = IsClass(j) /\ IsInterface(j)' = IsInterface(j)
         /\ \A j \in FileIds : files'[j].contract = files[j].contract /\ files'[j].base = files[j].base
         /\ \A j \in FileIds : j # i => files'[j] = files[j]
         /\ DOMAIN symbols' = DOMAIN symbols
         /\ \A s \in DOMAIN symbols : /\ SameButSlot(symbols'[s], symbols[s])
                                      /\ s \notin Own(i) => symbols'[s] = symbols[s]
         /\ \A f, old \in DOMAIN symbols : Replaces(f, old)' <=> Replaces(f, old)
<1> DEFINE table == Placed(i).table
           sy == Placed(i).sy
<1>1. FileIds' = FileIds /\ Obj \in FileIds
  BY ProgramTyped DEF Places, FileIds
<1>2. DOMAIN files = FileIds /\ \A j \in FileIds : FileTyped(j)
  BY DEF HierarchyFacts
<1>3. files' = [files EXCEPT ![i].virtuals = table] /\ table \in Seq(Nat) /\ symbols' = sy /\ syntax' = syntax
  BY DEF Places, Placing
<1>4. /\ DOMAIN sy = DOMAIN symbols /\ sy \in Seq({sy[s] : s \in DOMAIN sy})
      /\ \A s \in DOMAIN symbols : /\ SameButSlot(sy[s], symbols[s])
                                   /\ s \notin Own(i) => sy[s] = symbols[s]
  BY DEF Places, Placing
<1> HIDE DEF table, sy
<1>5. /\ DOMAIN files' = FileIds /\ \A j \in FileIds : j # i => files'[j] = files[j]
      /\ DOMAIN files'[i] = FileFields /\ files'[i].virtuals = table
      /\ \A x \in FileFields : x # "virtuals" => files'[i][x] = files[i][x]
  BY <1>2, <1>3 DEF FileTyped, FileFields
<1>6. ASSUME NEW j \in FileIds
      PROVE  /\ FileTyped(j)' /\ files'[j].base = files[j].base /\ files'[j].direct = files[j].direct
             /\ files'[j].interfaces = files[j].interfaces /\ files'[j].contract = files[j].contract
             /\ files'[j].functions = files[j].functions /\ files'[j].constructor = files[j].constructor
  <2>0. FileTyped(j)
    BY <1>2
  <2>1. /\ files'[j].base = files[j].base /\ files'[j].direct = files[j].direct
        /\ files'[j].interfaces = files[j].interfaces /\ files'[j].contract = files[j].contract
        /\ files'[j].functions = files[j].functions /\ files'[j].constructor = files[j].constructor
        /\ DOMAIN files'[j] = FileFields
    <3>1. CASE j = i
      BY <1>5, <3>1 DEF FileFields
    <3>2. CASE j # i
      BY <1>5, <2>0, <3>2 DEF FileTyped
    <3> QED BY <3>1, <3>2
  <2>2. files'[j].virtuals \in Seq(Nat)
    <3>1. CASE j = i
      BY <1>3, <1>5, <3>1
    <3>2. CASE j # i
      BY <1>5, <2>0, <3>2 DEF FileTyped
    <3> QED BY <3>1, <3>2
  <2> QED BY <1>1, <1>3, <2>0, <2>1, <2>2 DEF FileTyped
<1>7. HierarchyFacts'
  BY <1>1, <1>3, <1>5, <1>6, HierarchyStable
<1>8. Bases' = Bases /\ Interfaces' = Interfaces /\ Parents' = Parents
  <2>1. /\ Bases' = [j \in FileIds |-> files'[j].base]
        /\ Interfaces' = [j \in FileIds |-> files'[j].interfaces]
        /\ Parents' = [j \in FileIds |-> IF files'[j].base # 0 THEN files'[j].base
                                      ELSE IF syntax[j].kind = "error" THEN Obj ELSE 0]
    BY <1>1, <1>3 DEF Bases, Interfaces, Parents, Obj
  <2>2. \A j \in FileIds : files'[j].base = files[j].base /\ files'[j].interfaces = files[j].interfaces
    BY <1>6
  <2> QED BY <2>1, <2>2 DEF Bases, Interfaces, Parents
<1>9. \A j \in FileIds : Own(j)' = Own(j) /\ Closure(j)' = Closure(j)
  <2>1. \A j \in FileIds : files'[j].functions = files[j].functions /\ files'[j].interfaces = files[j].interfaces
    BY <1>6
  <2> QED BY <2>1 DEF Own, Closure
<1>10. PublicInstance' = PublicInstance
  <2>1. PublicInstance' = {s \in DOMAIN sy : sy[s].kind = "function" /\ ~sy[s].static /\ ~sy[s].private}
    BY <1>3 DEF PublicInstance
  <2> QED BY <1>4, <2>1 DEF PublicInstance, SameButSlot
<1>11. \A s \in DOMAIN symbols' : WellTyped(symbols[s])'
  <2>1. \A v : WellTyped(v)' = WellTyped(v)
    <3>1. \A t : TypeKind(t)' = TypeKind(t)
      BY <1>3 DEF TypeKind
    <3> QED BY <1>1, <1>3, <3>1 DEF WellTyped, IsError, IsInterface
  <2>2. ASSUME NEW s \in DOMAIN symbols PROVE WellTyped(symbols'[s])
    <3>1. WellTyped(symbols[s]) /\ SameButSlot(symbols'[s], symbols[s])
      BY <1>3, <1>4 DEF SymbolFacts
    <3> QED BY <3>1 DEF WellTyped, SameButSlot
  <2> QED BY <1>3, <1>4, <2>1, <2>2
<1>12. SymbolFacts'
  <2>1. Len(symbols') \in Nat /\ DOMAIN symbols' = 1..Len(symbols')
    <3> DEFINE T == {sy[s] : s \in DOMAIN sy}
    <3> HIDE DEF T
    <3>1. sy \in Seq(T)
      BY <1>4 DEF T
    <3> QED BY <1>3, <3>1
  <2>2. symbols' \in Seq({symbols'[s] : s \in DOMAIN symbols'})
    BY <1>3, <1>4
  <2>3. ASSUME NEW j \in FileIds
        PROVE  /\ DOMAIN files'[j].functions = DOMAIN syntax'[j].functions
               /\ \A n \in DOMAIN files'[j].functions : FunctionRegistered(j, n)'
               /\ ConstructorRegistered(j)'
    <3>1. /\ DOMAIN files[j].functions = DOMAIN syntax[j].functions
          /\ \A n \in DOMAIN files[j].functions : FunctionRegistered(j, n)
          /\ ConstructorRegistered(j)
      BY DEF SymbolFacts
    <3>2. /\ files'[j].functions = files[j].functions /\ files'[j].constructor = files[j].constructor
      BY <1>6
    <3>3. \A n \in DOMAIN files[j].functions : FunctionRegistered(j, n)'
      <4> SUFFICES ASSUME NEW n \in DOMAIN files[j].functions PROVE FunctionRegistered(j, n)'
        OBVIOUS
      <4> DEFINE s == files[j].functions[n]
      <4>1. /\ s \in DOMAIN symbols
            /\ symbols[s].kind = "function" /\ symbols[s].file = j /\ symbols[s].declared
            /\ symbols[s].name = syntax[j].functions[n].name
            /\ symbols[s].abstract = syntax[j].functions[n].abstract
            /\ symbols[s].static = syntax[j].functions[n].static
            /\ symbols[s].private = syntax[j].functions[n].private
            /\ IsInterface(j) => ~symbols[s].static /\ ~symbols[s].private
        BY <3>1 DEF FunctionRegistered
      <4>2. SameButSlot(symbols'[s], symbols[s])
        BY <1>3, <1>4, <4>1
      <4>3. /\ files'[j].functions[n] = s /\ s \in DOMAIN symbols'
            /\ symbols'[s].kind = "function" /\ symbols'[s].file = j /\ symbols'[s].declared
            /\ symbols'[s].name = syntax[j].functions[n].name
            /\ symbols'[s].abstract = syntax[j].functions[n].abstract
            /\ symbols'[s].static = syntax[j].functions[n].static
            /\ symbols'[s].private = syntax[j].functions[n].private
            /\ IsInterface(j) => ~symbols'[s].static /\ ~symbols'[s].private
        BY <1>3, <1>4, <3>2, <4>1, <4>2 DEF SameButSlot
      <4> HIDE DEF s
      <4> QED BY <1>3, <4>3 DEF FunctionRegistered, IsInterface
    <3>4. ConstructorRegistered(j)'
      BY <1>3, <1>4, <3>1, <3>2 DEF ConstructorRegistered, SameButSlot
    <3> QED BY <1>3, <3>1, <3>2, <3>3, <3>4
  <2> QED BY <1>1, <1>11, <2>1, <2>2, <2>3 DEF SymbolFacts
<1>13. \A f, old \in DOMAIN symbols : Replaces(f, old)' <=> Replaces(f, old)
  <2> SUFFICES ASSUME NEW f \in DOMAIN symbols, NEW old \in DOMAIN symbols
               PROVE  Replaces(f, old)' <=> Replaces(f, old)
    OBVIOUS
  <2>1. SameButSlot(symbols'[f], symbols[f]) /\ SameButSlot(symbols'[old], symbols[old])
    BY <1>3, <1>4
  <2> QED BY <1>3, <1>8, <2>1, ReplacesStable DEF SameButSlot
<1>14. \A j : IsClass(j)' = IsClass(j) /\ IsInterface(j)' = IsInterface(j)
  BY <1>3 DEF IsClass, IsInterface
<1> QED BY <1>1, <1>3, <1>4, <1>5, <1>6, <1>7, <1>8, <1>9, <1>10, <1>12, <1>13, <1>14

\* The table a class inherits is complete before its own is begun.
LEMMA ParentComplete ==
  ASSUME WellFormedProgram(syntax), HierarchyFacts, NEW i \in FileIds, OverridesReady(i),
         \A j \in 1..(i - 1) : ~OverridesReady(j), Parents[i] # 0
  PROVE  Parents[i] \in pass.complete
<1>1. CASE files[i].base # 0
  BY <1>1 DEF Parents, OverridesReady
<1>2. CASE files[i].base = 0
  <2>1. syntax[i].kind = "error" /\ Parents[i] = Obj
    BY <1>2 DEF Parents
  <2>2. syntax[Obj].kind = "class" /\ files[Obj].base = 0 /\ FileIds = 1..Len(syntax) /\ Len(syntax) \in Nat
    BY ProgramTyped DEF HierarchyFacts
  <2>3. i # Obj /\ Obj \in 1..(i - 1)
    BY <2>1, <2>2 DEF Obj
  <2>4. IsClass(Obj) /\ (files[Obj].base # 0 => files[Obj].base \in pass.complete)
    BY <2>2 DEF IsClass
  <2>5. ~OverridesReady(Obj)
    BY <2>3
  <2> QED BY <2>1, <2>4, <2>5 DEF OverridesReady
<1> QED BY <1>1, <1>2

\* A table that is complete stays as it is while others are placed.
LEMMA TableStays ==
  ASSUME WellFormedProgram(syntax), HierarchyFacts, SymbolFacts, NEW i \in FileIds, Places(i),
         NEW C \in SUBSET FileIds, i \notin C,
         \A j \in C : TableFacts(j) /\ (Parents[j] # 0 => Parents[j] \in C),
         NEW j \in C
  PROVE  TableFacts(j)'
<1>1. /\ FileIds' = FileIds /\ Parents' = Parents /\ PublicInstance' = PublicInstance
      /\ \A k \in FileIds : Own(k)' = Own(k)
      /\ \A k \in FileIds : k # i => files'[k] = files[k]
      /\ DOMAIN symbols' = DOMAIN symbols /\ syntax' = syntax
      /\ \A s \in DOMAIN symbols : s \notin Own(i) => symbols'[s] = symbols[s]
      /\ \A f, old \in DOMAIN symbols : Replaces(f, old)' <=> Replaces(f, old)
  BY PlacementStable DEF Places
<1> DEFINE table == files[j].virtuals
           inherited == InheritedTable(j)
<1>2. files'[j].virtuals = table /\ j \in FileIds
  BY <1>1
<1>3. InheritedTable(j)' = inherited
  <2>1. Parents[j] # 0 => Parents[j] \in C
    OBVIOUS
  <2> QED BY <1>1, <2>1 DEF InheritedTable
<1>4. \A s \in DOMAIN symbols : s \in Own(i) => symbols[s].file = i
  BY DEF Own, ToSet, SymbolFacts, FunctionRegistered
<1>5. ASSUME NEW n \in DOMAIN table
      PROVE  /\ table[n] \in DOMAIN symbols /\ table[n] \in PublicInstance
             /\ symbols'[table[n]] = symbols[table[n]]
             /\ symbols[table[n]].file \in FileIds
  <2>1. EntryFits(j, n)
    BY DEF TableFacts
  <2>2. /\ table[n] \in PublicInstance /\ symbols[table[n]].file \in Lineage(j)
        /\ table[n] \in DOMAIN symbols
    BY <2>1 DEF EntryFits, PublicInstance
  <2>3. Lineage(j) \subseteq C
    BY LineageWithin
  <2> QED BY <1>1, <1>4, <2>2, <2>3
<1>6. Lineage(j)' = Lineage(j)
  BY <1>1 DEF Lineage, Ancestors, Chain
<1>7. \A n \in DOMAIN inherited : inherited[n] \in DOMAIN symbols
  <2> SUFFICES ASSUME NEW n \in DOMAIN inherited PROVE inherited[n] \in DOMAIN symbols
    OBVIOUS
  <2>1. Parents[j] # 0 /\ inherited = files[Parents[j]].virtuals
    BY DEF InheritedTable
  <2>2. EntryFits(Parents[j], n)
    BY <2>1 DEF TableFacts
  <2> QED BY <2>1, <2>2 DEF EntryFits, PublicInstance
<1>8. ASSUME NEW n \in DOMAIN table PROVE EntryFits(j, n)'
  <2> PICK f : f = table[n]
    OBVIOUS
  <2> PICK old : old = inherited[n]
    OBVIOUS
  <2>1. /\ f \in PublicInstance /\ symbols[f].slot = n
        /\ symbols[f].file \in Lineage(j) /\ f \in Own(symbols[f].file)
        /\ \A m \in DOMAIN table : symbols[table[m]].name = symbols[f].name => m = n
        /\ n \in DOMAIN inherited => Replaces(f, old) /\ (f = old \/ f \in Own(j))
        /\ n \notin DOMAIN inherited => f \in Own(j)
    BY DEF TableFacts, EntryFits
  <2>2. /\ f \in DOMAIN symbols /\ symbols'[f] = symbols[f] /\ symbols[f].file \in FileIds
    BY <1>5
  <2>3. \A m \in DOMAIN table : symbols'[table[m]].name = symbols'[f].name => m = n
    BY <1>5, <2>1, <2>2
  <2>4. \A k \in FileIds : ToSet(files'[k].functions) = Own(k)
    BY <1>1 DEF Own
  <2>5. n \in DOMAIN inherited => Replaces(f, old)'
    BY <1>1, <1>7, <2>1, <2>2
  <2>6. /\ f \in PublicInstance' /\ symbols'[f].slot = n
        /\ symbols'[f].file \in Lineage(j)' /\ f \in ToSet(files'[symbols'[f].file].functions)
        /\ n \in DOMAIN inherited => f = old \/ f \in Own(j)'
        /\ n \notin DOMAIN inherited => f \in Own(j)'
    BY <1>1, <1>2, <1>6, <2>1, <2>2, <2>4
  <2>7. files'[j].virtuals[n] = f /\ old = InheritedTable(j)'[n]
    BY <1>2, <1>3
  <2> HIDE DEF table, inherited
  <2>8. n \in DOMAIN inherited => Replaces(files[j].virtuals[n], InheritedTable(j)[n])'
    BY <2>5, <2>7 DEF Replaces
  <2> QED BY <1>2, <1>3, <2>3, <2>6, <2>7, <2>8 DEF EntryFits, Own
<1> QED BY <1>1, <1>2, <1>3, <1>5, <1>8 DEF TableFacts, Own

\* Once its functions are placed, the table of a class is complete.
LEMMA TablePlaced ==
  ASSUME WellFormedProgram(syntax), HierarchyFacts, SymbolFacts, NEW i \in FileIds, Places(i),
         Parents[i] # 0 => Parents[i] # i /\ TableFacts(Parents[i]),
         syntax[i].abstract \/ \A n \in DOMAIN Placed(i).table :
                                 ~Placed(i).sy[Placed(i).table[n]].abstract
  PROVE  TableFacts(i)'
<1>1. /\ FileIds' = FileIds /\ Parents' = Parents /\ PublicInstance' = PublicInstance
      /\ \A k \in FileIds : Own(k)' = Own(k)
      /\ \A k \in FileIds : k # i => files'[k] = files[k]
      /\ DOMAIN symbols' = DOMAIN symbols /\ syntax' = syntax
      /\ \A s \in DOMAIN symbols : SameButSlot(symbols'[s], symbols[s])
      /\ \A f, old \in DOMAIN symbols : Replaces(f, old)' <=> Replaces(f, old)
      /\ symbols' = Placed(i).sy
  BY PlacementStable DEF Places
<1> DEFINE table == Placed(i).table
           inherited == InheritedTable(i)
           own == files[i].functions
           last == Len(own)
<1>2. files'[i].virtuals = table
  BY DEF Places, HierarchyFacts, FileTyped, FileFields
<1>3. InheritedTable(i)' = inherited /\ (Parents[i] # 0 => Parents[i] \in FileIds)
  <2>1. Parents[i] # 0 => Parents[i] \in FileIds /\ Parents[i] # i
    BY ParentsLink DEF ClassIds
  <2> QED BY <1>1, <2>1 DEF InheritedTable
<1>4. /\ Len(inherited) <= Len(table)
      /\ \A n \in DOMAIN table : EntryPlaced(i, last, Placed(i), n)
      /\ \A m \in 1..last : own[m] \in PublicInstance => \E n \in DOMAIN table : table[n] = own[m]
  BY DEF Places, Placing
<1>5. /\ DOMAIN own = 1..last
      /\ \A m \in 1..last : own[m] \in DOMAIN symbols /\ symbols[own[m]].file = i /\ own[m] \in Own(i)
  <2>1. own \in Seq(Nat)
    BY DEF HierarchyFacts, FileTyped
  <2>2. DOMAIN own = 1..last
    <3> HIDE DEF own
    <3> QED BY <2>1
  <2> QED BY <2>2 DEF Own, ToSet, SymbolFacts, FunctionRegistered
<1>6. Lineage(i)' = Lineage(i) /\ i \in Lineage(i)
  BY <1>1 DEF Lineage, Ancestors, Chain
<1>7. ASSUME NEW n \in DOMAIN inherited
      PROVE  /\ inherited[n] \in PublicInstance /\ inherited[n] \in DOMAIN symbols
             /\ symbols[inherited[n]].file \in Lineage(i) /\ symbols[inherited[n]].file \in FileIds
             /\ inherited[n] \in Own(symbols[inherited[n]].file)
  <2>1. Parents[i] # 0 /\ inherited = files[Parents[i]].virtuals
    BY DEF InheritedTable
  <2>2. EntryFits(Parents[i], n)
    BY <2>1 DEF TableFacts
  <2>3. Lineage(Parents[i]) \subseteq Lineage(i)
    BY <2>1, LineageStep
  <2>4. inherited[n] \in DOMAIN symbols
    BY <2>1, <2>2 DEF EntryFits, PublicInstance
  <2>5. symbols[inherited[n]].file \in FileIds
    BY <2>4 DEF SymbolFacts, WellTyped
  <2> QED BY <2>1, <2>2, <2>3, <2>4, <2>5 DEF EntryFits
<1>8. \A n \in DOMAIN table : table[n] \in PublicInstance /\ table[n] \in DOMAIN symbols
  BY <1>4 DEF EntryPlaced, PublicInstance
<1>9. ASSUME NEW n \in DOMAIN table PROVE EntryFits(i, n)'
  <2> PICK f : f = table[n]
    OBVIOUS
  <2> PICK old : old = inherited[n]
    OBVIOUS
  <2>1. /\ f \in PublicInstance /\ symbols'[f].slot = n /\ f \in DOMAIN symbols
        /\ \A m \in DOMAIN table : symbols[table[m]].name = symbols[f].name => m = n
        /\ \/ n \in DOMAIN inherited /\ f = old
           \/ \E m \in 1..last : f = own[m] /\ (n \in DOMAIN inherited => Replaces(f, old))
    BY <1>1, <1>4, <1>8 DEF EntryPlaced
  <2>2. SameButSlot(symbols'[f], symbols[f])
    BY <1>1, <2>1
  <2>3. \A m \in DOMAIN table : symbols'[table[m]].name = symbols[table[m]].name
    BY <1>1, <1>8 DEF SameButSlot
  <2> HIDE DEF table, inherited, last, own
  <2>4. n \in DOMAIN inherited => old \in DOMAIN symbols
    BY <1>7
  <2>5. CASE n \in DOMAIN inherited /\ f = old
    <3>1. Replaces(f, old)
      BY <2>1, <2>5, ReplacesItself
    <3>2. f \in Own(symbols[f].file) /\ symbols[f].file \in Lineage(i) /\ symbols[f].file \in FileIds
      BY <1>7, <2>5
    <3> QED
      <4>1. /\ f \in PublicInstance' /\ symbols'[f].slot = n
            /\ symbols'[f].file \in Lineage(i)' /\ f \in ToSet(files'[symbols'[f].file].functions)
            /\ f = old /\ Replaces(f, old)'
        <5>1. ToSet(files'[symbols[f].file].functions) = Own(symbols[f].file)
          BY <1>1, <3>2 DEF Own
        <5> QED BY <1>1, <1>6, <2>1, <2>2, <2>4, <2>5, <3>1, <3>2, <5>1 DEF SameButSlot
      <4>2. files'[i].virtuals[n] = f /\ old = InheritedTable(i)'[n]
        BY <1>2, <1>3
      <4>3. Replaces(files[i].virtuals[n], InheritedTable(i)[n])'
        BY <4>1, <4>2 DEF Replaces
      <4> QED BY <1>2, <1>3, <2>1, <2>2, <2>3, <2>5, <4>1, <4>2, <4>3 DEF EntryFits, Own, SameButSlot
  <2>6. CASE \E m \in 1..last : f = own[m] /\ (n \in DOMAIN inherited => Replaces(f, old))
    <3>1. f \in Own(i) /\ symbols[f].file = i /\ (n \in DOMAIN inherited => Replaces(f, old)')
      BY <1>1, <1>5, <2>1, <2>4, <2>6
    <3>2. /\ f \in PublicInstance' /\ symbols'[f].slot = n
          /\ symbols'[f].file \in Lineage(i)' /\ f \in ToSet(files'[symbols'[f].file].functions)
          /\ f \in Own(i)'
      <4>1. ToSet(files'[i].functions) = Own(i)
        BY <1>1 DEF Own
      <4> QED BY <1>1, <1>6, <2>1, <2>2, <3>1, <4>1 DEF SameButSlot
    <3>3. files'[i].virtuals[n] = f /\ old = InheritedTable(i)'[n]
      BY <1>2, <1>3
    <3>4. n \in DOMAIN inherited => Replaces(files[i].virtuals[n], InheritedTable(i)[n])'
      BY <3>1, <3>3 DEF Replaces
    <3> QED BY <1>2, <1>3, <2>1, <2>2, <2>3, <3>1, <3>2, <3>3, <3>4 DEF EntryFits, Own, SameButSlot
  <2> QED BY <2>1, <2>5, <2>6
<1>10. ASSUME NEW f \in Own(i) \cap PublicInstance
       PROVE  symbols'[f].slot \in DOMAIN table /\ table[symbols'[f].slot] = f
  <2>1. PICK m \in 1..last : f = own[m]
    BY <1>5 DEF Own, ToSet
  <2>2. PICK n \in DOMAIN table : table[n] = f
    BY <1>4, <2>1
  <2>3. symbols'[f].slot = n
    BY <1>1, <1>4, <2>2 DEF EntryPlaced
  <2> QED BY <2>2, <2>3
<1>11. syntax[i].abstract \/ \A n \in DOMAIN table : ~symbols'[table[n]].abstract
  BY <1>1
<1> HIDE DEF table, inherited
<1> QED BY <1>1, <1>2, <1>3, <1>4, <1>9, <1>10, <1>11 DEF TableFacts, Own, table, inherited

\* Placing the functions of a class keeps what is known and completes its table.
LEMMA OverridesEstablish ==
  ASSUME WellFormedProgram(syntax), HierarchyFacts, SymbolFacts, ValidateFileOverrides,
         \A i \in InterfaceIds : ContractFacts(i, InterfaceIds),
         \A i \in ClassIds : ClassFacts(i), pass.complete \subseteq ClassIds,
         \A i \in pass.complete : TableFacts(i) /\ (Parents[i] # 0 => Parents[i] \in pass.complete),
         DOMAIN pass = {"complete", "at", "progress"}, errors' = {}
  PROVE  /\ HierarchyFacts' /\ SymbolFacts'
         /\ \A i \in InterfaceIds' : ContractFacts(i, InterfaceIds)'
         /\ \A i \in ClassIds' : ClassFacts(i)'
         /\ pass'.complete \subseteq ClassIds'
         /\ \A i \in pass'.complete : /\ TableFacts(i)'
                                      /\ Parents'[i] # 0 => Parents'[i] \in pass'.complete
<1>1. PICK i \in FileIds :
        /\ OverridesReady(i) /\ \A j \in 1 .. i - 1 : ~OverridesReady(j)
        /\ LET placed == Placed(i)
               unimplemented == \E n \in DOMAIN placed.table :
                  placed.sy[placed.table[n]].abstract /\ placed.sy[placed.table[n]].valid
           IN /\ files' = [files EXCEPT ![i].virtuals = placed.table]
              /\ symbols' = placed.sy
              /\ errors' = errors
                   \cup (IF placed.ok THEN {} ELSE {<<"override", i>>})
                   \cup (IF unimplemented /\ ~syntax[i].abstract
                         THEN {<<"abstract", i>>} ELSE {})
        /\ pass' = [pass EXCEPT !.complete = @ \cup {i}]
  BY DEF ValidateFileOverrides

<1>2. /\ i \in ClassIds /\ i \notin pass.complete /\ syntax' = syntax
      /\ pass'.complete = pass.complete \cup {i} /\ pass.complete \subseteq FileIds
  BY <1>1 DEF OverridesReady, ValidateFileOverrides, ClassIds
<1>3. Placed(i).ok
  <2>1. ~Placed(i).ok => <<"override", i>> \in errors'
    BY <1>1
  <2> QED BY <2>1
<1>4. Parents[i] # 0 => Parents[i] \in pass.complete
  BY <1>1, ParentComplete
<1>5. Placing(i, Len(files[i].functions), Placed(i))
  BY <1>3, <1>4, AllPlaced
<1>6. Places(i)
  <2>1. Placed(i).table \in Seq(Nat)
    BY <1>5 DEF Placing
  <2>2. /\ files' = [files EXCEPT ![i].virtuals = Placed(i).table] /\ symbols' = Placed(i).sy
    BY <1>1
  <2>3. DOMAIN files = FileIds /\ DOMAIN files[i] = FileFields
    BY DEF HierarchyFacts, FileTyped
  <2> QED BY <1>2, <1>5, <2>1, <2>2, <2>3 DEF Places, FileFields
<1>7. /\ FileIds' = FileIds /\ HierarchyFacts' /\ SymbolFacts'
      /\ Parents' = Parents /\ PublicInstance' = PublicInstance
      /\ \A j \in FileIds : Own(j)' = Own(j) /\ Closure(j)' = Closure(j)
      /\ \A j : IsClass(j)' = IsClass(j) /\ IsInterface(j)' = IsInterface(j)
      /\ \A j \in FileIds : files'[j].contract = files[j].contract /\ files'[j].base = files[j].base
      /\ \A j \in FileIds : files'[j].interfaces = files[j].interfaces
      /\ \A s \in DOMAIN symbols : SameButSlot(symbols'[s], symbols[s])
  <2>1. \A j \in FileIds : Interfaces'[j] = files'[j].interfaces /\ Interfaces[j] = files[j].interfaces
    <3>1. FileIds' = FileIds
      BY <1>6, PlacementStable
    <3> QED BY <3>1 DEF Interfaces
  <2> QED BY <1>6, <2>1, PlacementStable
<1>8. InterfaceIds' = InterfaceIds /\ ClassIds' = ClassIds
  BY <1>2, <1>7 DEF InterfaceIds, ClassIds, IsClass, IsInterface
<1>9. ASSUME NEW j \in InterfaceIds PROVE ContractFacts(j, InterfaceIds)'
  <2>1. ContractFacts(j, InterfaceIds) /\ j \in FileIds
    BY DEF InterfaceIds
  <2>2. \A x \in Closure(j) : x \in InterfaceIds /\ x \in FileIds
    BY <2>1 DEF ContractFacts, InterfaceIds
  <2> QED BY <1>2, <1>7, <1>8, <2>1, <2>2 DEF ContractFacts, IsInterface
<1>10. ASSUME NEW j \in ClassIds PROVE ClassFacts(j)'
  <2>1. ClassFacts(j) /\ j \in FileIds
    BY DEF ClassIds
  <2>2. files[j].base # 0 => files[j].base \in FileIds
    BY <2>1, ProgramTyped DEF HierarchyFacts, FileTyped
  <2>3. \A x \in Closure(j) : x \in FileIds
    BY <2>1 DEF HierarchyFacts, FileTyped, Closure, ToSet
  <2>4. files[j].base # 0 => ToSet(files'[files[j].base].interfaces) \subseteq Closure(j)'
    BY <1>7, <2>1, <2>2 DEF ClassFacts, Closure
  <2>5. files'[j].base # 0 => (Closure(files[j].base) \subseteq Closure(j))'
    BY <1>7, <2>1, <2>4 DEF Closure
  <2> QED BY <1>2, <1>7, <2>1, <2>3, <2>5 DEF ClassFacts, IsInterface
<1>11. ASSUME NEW j \in pass.complete PROVE TableFacts(j)'
  BY <1>2, <1>6, TableStays
<1>12. TableFacts(i)'
  <2>1. Parents[i] # 0 => Parents[i] # i /\ TableFacts(Parents[i])
    BY <1>2, <1>4
  <2>2. syntax[i].abstract \/ \A n \in DOMAIN Placed(i).table :
          ~(Placed(i).sy[Placed(i).table[n]].abstract /\ Placed(i).sy[Placed(i).table[n]].valid)
    BY <1>1
  <2>3. \A n \in DOMAIN Placed(i).table : Placed(i).sy[Placed(i).table[n]].valid
    <3> SUFFICES ASSUME NEW n \in DOMAIN Placed(i).table PROVE Placed(i).sy[Placed(i).table[n]].valid
      OBVIOUS
    <3>1. Placed(i).table[n] \in DOMAIN symbols
      BY <1>5 DEF Placing, EntryPlaced, PublicInstance
    <3>2. SameButSlot(Placed(i).sy[Placed(i).table[n]], symbols[Placed(i).table[n]])
      BY <1>5, <3>1 DEF Placing
    <3> QED BY <3>1, <3>2 DEF SameButSlot, SymbolFacts, WellTyped
  <2> QED BY <1>6, <2>1, <2>2, <2>3, TablePlaced
<1>13. \A j \in pass'.complete : Parents'[j] # 0 => Parents'[j] \in pass'.complete
  BY <1>2, <1>4, <1>7
<1> QED BY <1>2, <1>7, <1>8, <1>9, <1>10, <1>11, <1>12, <1>13

\* Placement ends when every class has its table: the chains of bases end.
LEMMA OverridesEnd ==
  ASSUME WellFormedProgram(syntax), HierarchyFacts, EndOverrides
  PROVE  ClassIds \subseteq pass.complete
<1> DEFINE Bad == ClassIds \ pass.complete
<1>1. ASSUME NEW i \in Bad PROVE Bases[i] \in Bad
  <2>1. i \in FileIds /\ IsClass(i) /\ ~OverridesReady(i) /\ Bases[i] = files[i].base
    BY DEF EndOverrides, ClassIds, Bases
  <2>2. files[i].base # 0 /\ files[i].base \notin pass.complete
    BY <1>1, <2>1 DEF OverridesReady
  <2>3. IsClass(files[i].base) /\ files[i].base \in FileIds
    BY <2>1, <2>2, ProgramTyped DEF HierarchyFacts, BaseFits, FileTyped
  <2> QED BY <2>1, <2>2, <2>3 DEF ClassIds
<1>2. Bad = {}
  <2>1. Bad \in SUBSET (1..Len(Bases)) /\ Grounded(Bases)
    BY BasesLink, ProgramTyped DEF HierarchyFacts, ClassIds
  <2> HIDE DEF Bad
  <2> QED BY <1>1, <2>1 DEF Grounded
<1> QED BY <1>2

\* A symbol whose declaration is the same: what a public function throws is
\* declared, which errors a private one throws may be inferred later.
SameDeclaration(v, w) ==
  /\ DOMAIN v = SymbolFields
  /\ v.kind = w.kind /\ v.file = w.file /\ v.name = w.name /\ v.type = w.type
  /\ v.private = w.private /\ v.abstract = w.abstract
  /\ v.body = w.body /\ v.valid = w.valid /\ v.slot = w.slot /\ v.declared = w.declared
  /\ v.static = w.static /\ (w.kind # "constructor" => v.baseConstructor = w.baseConstructor)
  /\ \A t \in v.throws : IsError(t)
  /\ ~w.private => v.throws = w.throws
FileKept(i) ==
  /\ DOMAIN files'[i] = FileFields
  /\ files'[i].base = files[i].base /\ files'[i].direct = files[i].direct
  /\ files'[i].interfaces = files[i].interfaces /\ files'[i].contract = files[i].contract
  /\ files'[i].functions = files[i].functions /\ files'[i].constructor = files[i].constructor
  /\ files'[i].virtuals = files[i].virtuals
Kept ==
  /\ syntax' = syntax
  /\ DOMAIN files' = FileIds /\ \A i \in FileIds : FileKept(i)
  /\ DOMAIN symbols' = DOMAIN symbols /\ Len(symbols') = Len(symbols)
  /\ symbols' \in Seq({symbols'[s] : s \in DOMAIN symbols'})
  /\ \A s \in DOMAIN symbols : SameDeclaration(symbols'[s], symbols[s])

\* The passes after the overrides keep every declaration: first the names.
LEMMA DeclarationsKept ==
  ASSUME WellFormedProgram(syntax), HierarchyFacts, SymbolFacts, Kept
  PROVE  /\ FileIds' = FileIds /\ HierarchyFacts' /\ SymbolFacts'
         /\ Bases' = Bases /\ Interfaces' = Interfaces /\ Parents' = Parents
         /\ PublicInstance' = PublicInstance
         /\ ClassIds' = ClassIds /\ InterfaceIds' = InterfaceIds
         /\ \A j \in FileIds : Own(j)' = Own(j) /\ Closure(j)' = Closure(j)
         /\ \A j : IsClass(j)' = IsClass(j) /\ IsInterface(j)' = IsInterface(j)
         /\ \A f, old \in PublicInstance : Replaces(f, old)' <=> Replaces(f, old)
<1>1. FileIds' = FileIds /\ Obj \in FileIds /\ syntax' = syntax
  BY ProgramTyped DEF Kept, FileIds
<1>2. \A j \in FileIds : FileKept(j) /\ FileTyped(j)
  BY DEF Kept, HierarchyFacts
<1>3. HierarchyFacts'
  <2>1. \A j \in FileIds : FileTyped(j)' /\ files'[j].base = files[j].base /\ files'[j].direct = files[j].direct
    BY <1>1, <1>2 DEF FileTyped, FileKept
  <2> QED BY <1>1, <2>1, HierarchyStable DEF Kept
<1>4. Bases' = Bases /\ Interfaces' = Interfaces /\ Parents' = Parents
  <2>1. /\ Bases' = [j \in FileIds |-> files'[j].base]
        /\ Interfaces' = [j \in FileIds |-> files'[j].interfaces]
        /\ Parents' = [j \in FileIds |-> IF files'[j].base # 0 THEN files'[j].base
                                      ELSE IF syntax[j].kind = "error" THEN Obj ELSE 0]
    BY <1>1 DEF Bases, Interfaces, Parents, Obj
  <2>2. \A j \in FileIds : files'[j].base = files[j].base /\ files'[j].interfaces = files[j].interfaces
    BY <1>2 DEF FileKept
  <2> QED BY <2>1, <2>2 DEF Bases, Interfaces, Parents
<1>5. \A j \in FileIds : Own(j)' = Own(j) /\ Closure(j)' = Closure(j)
  BY <1>2 DEF Own, Closure, FileKept
<1>6. PublicInstance' = PublicInstance
  BY DEF PublicInstance, Kept, SameDeclaration
<1>7. \A s \in DOMAIN symbols' : WellTyped(symbols[s])'
  <2>1. \A v : WellTyped(v)' = WellTyped(v)
    <3>1. \A t : TypeKind(t)' = TypeKind(t)
      BY <1>1 DEF TypeKind
    <3> QED BY <1>1, <3>1 DEF WellTyped, IsError, IsInterface
  <2>2. ASSUME NEW s \in DOMAIN symbols PROVE WellTyped(symbols'[s])
    <3>1. WellTyped(symbols[s]) /\ SameDeclaration(symbols'[s], symbols[s])
      BY DEF SymbolFacts, Kept
    <3> QED BY <3>1 DEF WellTyped, SameDeclaration
  <2> QED BY <2>1, <2>2 DEF Kept
<1>8. SymbolFacts'
  <2>1. Len(symbols') \in Nat /\ DOMAIN symbols' = 1..Len(symbols')
    BY DEF Kept, SymbolFacts
  <2>2. symbols' \in Seq({symbols'[s] : s \in DOMAIN symbols'})
    BY DEF Kept
  <2>3. ASSUME NEW j \in FileIds
        PROVE  /\ DOMAIN files'[j].functions = DOMAIN syntax'[j].functions
               /\ \A n \in DOMAIN files'[j].functions : FunctionRegistered(j, n)'
               /\ ConstructorRegistered(j)'
    <3>1. /\ DOMAIN files[j].functions = DOMAIN syntax[j].functions
          /\ \A n \in DOMAIN files[j].functions : FunctionRegistered(j, n)
          /\ ConstructorRegistered(j)
      BY DEF SymbolFacts
    <3>2. /\ files'[j].functions = files[j].functions /\ files'[j].constructor = files[j].constructor
      BY <1>2 DEF FileKept
    <3>3. \A n \in DOMAIN files[j].functions : FunctionRegistered(j, n)'
      <4> SUFFICES ASSUME NEW n \in DOMAIN files[j].functions PROVE FunctionRegistered(j, n)'
        OBVIOUS
      <4> DEFINE s == files[j].functions[n]
      <4>1. /\ s \in DOMAIN symbols
            /\ symbols[s].kind = "function" /\ symbols[s].file = j /\ symbols[s].declared
            /\ symbols[s].name = syntax[j].functions[n].name
            /\ symbols[s].abstract = syntax[j].functions[n].abstract
            /\ symbols[s].static = syntax[j].functions[n].static
            /\ symbols[s].private = syntax[j].functions[n].private
            /\ IsInterface(j) => ~symbols[s].static /\ ~symbols[s].private
        BY <3>1 DEF FunctionRegistered
      <4>2. SameDeclaration(symbols'[s], symbols[s]) /\ DOMAIN symbols' = DOMAIN symbols
        BY <4>1 DEF Kept
      <4>3. /\ files'[j].functions[n] = s /\ s \in DOMAIN symbols'
            /\ symbols'[s].kind = "function" /\ symbols'[s].file = j /\ symbols'[s].declared
            /\ symbols'[s].name = syntax[j].functions[n].name
            /\ symbols'[s].abstract = syntax[j].functions[n].abstract
            /\ symbols'[s].static = syntax[j].functions[n].static
            /\ symbols'[s].private = syntax[j].functions[n].private
            /\ IsInterface(j) => ~symbols'[s].static /\ ~symbols'[s].private
        BY <3>2, <4>1, <4>2 DEF SameDeclaration
      <4> HIDE DEF s
      <4> QED BY <1>1, <4>3 DEF FunctionRegistered, IsInterface
    <3>4. ConstructorRegistered(j)'
      BY <3>1, <3>2 DEF ConstructorRegistered, SameDeclaration, Kept
    <3> QED BY <1>1, <3>1, <3>2, <3>3, <3>4
  <2> QED BY <1>1, <1>7, <2>1, <2>2, <2>3 DEF SymbolFacts
<1>9. \A f, old \in PublicInstance : Replaces(f, old)' <=> Replaces(f, old)
  <2> SUFFICES ASSUME NEW f \in PublicInstance, NEW old \in PublicInstance
               PROVE  Replaces(f, old)' <=> Replaces(f, old)
    OBVIOUS
  <2>1. SameDeclaration(symbols'[f], symbols[f]) /\ SameDeclaration(symbols'[old], symbols[old])
        /\ ~symbols[f].private /\ ~symbols[old].private
    BY DEF Kept, PublicInstance
  <2> QED BY <1>1, <1>4, <2>1, ReplacesStable DEF SameDeclaration
<1>10. \A j : IsClass(j)' = IsClass(j) /\ IsInterface(j)' = IsInterface(j)
  BY <1>1 DEF IsClass, IsInterface
<1>11. ClassIds' = ClassIds /\ InterfaceIds' = InterfaceIds
  BY <1>1, <1>10 DEF ClassIds, InterfaceIds
<1> QED BY <1>1, <1>3, <1>4, <1>5, <1>6, <1>8, <1>9, <1>10, <1>11

\* With them, what is known of contracts and closures.
LEMMA ContractsKept ==
  ASSUME WellFormedProgram(syntax), HierarchyFacts, SymbolFacts, Kept,
         \A i \in InterfaceIds : ContractFacts(i, InterfaceIds),
         \A i \in ClassIds : ClassFacts(i)
  PROVE  /\ \A i \in InterfaceIds' : ContractFacts(i, InterfaceIds)'
         /\ \A i \in ClassIds' : ClassFacts(i)'
<1>1. /\ FileIds' = FileIds /\ PublicInstance' = PublicInstance
      /\ ClassIds' = ClassIds /\ InterfaceIds' = InterfaceIds /\ syntax' = syntax
      /\ \A j \in FileIds : Own(j)' = Own(j) /\ Closure(j)' = Closure(j)
      /\ \A j \in FileIds : FileKept(j)
  BY DeclarationsKept DEF Kept
<1>2. ASSUME NEW j \in InterfaceIds PROVE ContractFacts(j, InterfaceIds)'
  <2>1. ContractFacts(j, InterfaceIds) /\ j \in FileIds
    BY DEF InterfaceIds
  <2>2. \A x \in Closure(j) : x \in InterfaceIds /\ x \in FileIds
    BY <2>1 DEF ContractFacts, InterfaceIds
  <2>3. files'[j].contract = files[j].contract
    BY <1>1, <2>1 DEF FileKept
  <2> QED BY <1>1, <2>1, <2>2, <2>3 DEF ContractFacts, IsInterface
<1>3. ASSUME NEW j \in ClassIds PROVE ClassFacts(j)'
  <2>1. ClassFacts(j) /\ j \in FileIds
    BY DEF ClassIds
  <2>2. files[j].base # 0 => files[j].base \in FileIds
    BY <2>1, ProgramTyped DEF HierarchyFacts, FileTyped
  <2>3. \A x \in Closure(j) : x \in FileIds
    BY <2>1 DEF HierarchyFacts, FileTyped, Closure, ToSet
  <2>4. files[j].base # 0 => ToSet(files'[files[j].base].interfaces) \subseteq Closure(j)'
    BY <1>1, <2>1, <2>2 DEF ClassFacts, Closure, FileKept
  <2>5. files'[j].base # 0 => (Closure(files[j].base) \subseteq Closure(j))'
    BY <1>1, <2>1, <2>4 DEF Closure, FileKept
  <2>6. files'[j].interfaces = files[j].interfaces
    BY <1>1, <2>1 DEF FileKept
  <2> QED BY <1>1, <2>1, <2>3, <2>5, <2>6 DEF ClassFacts, IsInterface
<1> QED BY <1>1, <1>2, <1>3

\* And the tables of classes that come with those of their parents.
LEMMA SomeTablesKept ==
  ASSUME WellFormedProgram(syntax), HierarchyFacts, SymbolFacts, Kept, NEW C \in SUBSET ClassIds,
         \A i \in C : TableFacts(i) /\ (Parents[i] # 0 => Parents[i] \in C)
  PROVE  \A i \in C : TableFacts(i)'
<1>1. /\ FileIds' = FileIds /\ Parents' = Parents /\ PublicInstance' = PublicInstance
      /\ ClassIds' = ClassIds /\ syntax' = syntax
      /\ \A j \in FileIds : Own(j)' = Own(j) /\ Closure(j)' = Closure(j)
      /\ \A f, old \in PublicInstance : Replaces(f, old)' <=> Replaces(f, old)
      /\ \A j \in FileIds : files'[j].virtuals = files[j].virtuals
      /\ \A s \in DOMAIN symbols : SameDeclaration(symbols'[s], symbols[s])
  BY DeclarationsKept DEF Kept, FileKept
<1> SUFFICES ASSUME NEW j \in C PROVE TableFacts(j)'
  BY <1>1
<1> DEFINE table == files[j].virtuals
           inherited == InheritedTable(j)
<1>2. files'[j].virtuals = table /\ j \in FileIds /\ TableFacts(j)
  BY <1>1 DEF ClassIds
<1>3. InheritedTable(j)' = inherited /\ (Parents[j] # 0 => Parents[j] \in C)
  <2>1. Parents[j] # 0 => Parents[j] \in FileIds /\ Parents[j] \in C
    BY <1>2, ParentsLink DEF ClassIds
  <2> QED BY <1>1, <2>1 DEF InheritedTable
<1>4. \A n \in DOMAIN table : table[n] \in PublicInstance
  BY <1>2 DEF TableFacts, EntryFits
<1>5. \A n \in DOMAIN inherited : inherited[n] \in PublicInstance
  <2>1. Parents[j] # 0 => TableFacts(Parents[j])
    BY <1>3
  <2> QED BY <2>1 DEF TableFacts, EntryFits, InheritedTable
<1>6. Lineage(j)' = Lineage(j)
  BY <1>1 DEF Lineage, Ancestors, Chain
<1>7. \A s \in PublicInstance : /\ symbols'[s].name = symbols[s].name /\ symbols'[s].file = symbols[s].file
                                /\ symbols'[s].slot = symbols[s].slot /\ symbols[s].file \in FileIds
                                /\ symbols'[s].abstract = symbols[s].abstract
  BY <1>1 DEF PublicInstance, SameDeclaration, SymbolFacts, WellTyped
<1>8. ASSUME NEW n \in DOMAIN table PROVE EntryFits(j, n)'
  <2> PICK f : f = table[n]
    OBVIOUS
  <2> PICK old : old = inherited[n]
    OBVIOUS
  <2>1. /\ f \in PublicInstance /\ symbols[f].slot = n
        /\ symbols[f].file \in Lineage(j) /\ f \in Own(symbols[f].file)
        /\ \A m \in DOMAIN table : symbols[table[m]].name = symbols[f].name => m = n
        /\ n \in DOMAIN inherited => Replaces(f, old) /\ (f = old \/ f \in Own(j))
        /\ n \notin DOMAIN inherited => f \in Own(j)
    BY <1>2 DEF TableFacts, EntryFits
  <2>3. \A m \in DOMAIN table : symbols'[table[m]].name = symbols'[f].name => m = n
    BY <1>4, <1>7, <2>1
  <2>4. \A k \in FileIds : ToSet(files'[k].functions) = Own(k)
    BY <1>1 DEF Own
  <2>5. n \in DOMAIN inherited => Replaces(f, old)'
    BY <1>1, <1>5, <2>1
  <2>6. /\ f \in PublicInstance' /\ symbols'[f].slot = n
        /\ symbols'[f].file \in Lineage(j)' /\ f \in ToSet(files'[symbols'[f].file].functions)
        /\ n \in DOMAIN inherited => f = old \/ f \in Own(j)'
        /\ n \notin DOMAIN inherited => f \in Own(j)'
    BY <1>1, <1>2, <1>6, <1>7, <2>1, <2>4
  <2>7. files'[j].virtuals[n] = f /\ old = InheritedTable(j)'[n]
    BY <1>2, <1>3
  <2> HIDE DEF table, inherited
  <2>8. n \in DOMAIN inherited => Replaces(files[j].virtuals[n], InheritedTable(j)[n])'
    BY <2>5, <2>7 DEF Replaces
  <2> QED BY <1>2, <1>3, <2>3, <2>6, <2>7, <2>8 DEF EntryFits, Own
<1>9. /\ Len(inherited) <= Len(table)
      /\ \A f \in Own(j) \cap PublicInstance :
           /\ symbols'[f].slot \in DOMAIN table
           /\ table[symbols'[f].slot] = f
      /\ ~syntax[j].abstract => \A n \in DOMAIN table : ~symbols'[table[n]].abstract
  BY <1>2, <1>4, <1>7 DEF TableFacts
<1> HIDE DEF table, inherited
<1> QED BY <1>1, <1>2, <1>3, <1>8, <1>9 DEF TableFacts, Own, table, inherited

\* So all the tables are kept.
LEMMA TablesKept ==
  ASSUME WellFormedProgram(syntax), HierarchyFacts, SymbolFacts, Kept,
         \A i \in ClassIds : TableFacts(i)
  PROVE  \A i \in ClassIds' : TableFacts(i)'
<1>1. \A i \in ClassIds : Parents[i] # 0 => Parents[i] \in ClassIds
  BY ParentsLink DEF ClassIds
<1>2. \A i \in ClassIds : TableFacts(i)'
  BY <1>1, SomeTablesKept
<1> QED BY <1>2, DeclarationsKept

-----------------------------------------------------------------------------
(* validate_interface_conformance, and the passes over the bodies *)

\* tables[k] is what the first k interfaces of the closure give.
ImplementationSteps(i, f, n) ==
  f = [k \in 0..n |-> IF k = 0 THEN <<>>
                      ELSE IF CompleteContractOf(i, k) THEN Append(f[k - 1], InterfaceTable(i, k)) ELSE f[k - 1]]

\* The tables of a class are the end of the loop over its interfaces.
LEMMA ImplementationsUnfold ==
  ASSUME NEW i, Len(files[i].interfaces) \in Nat
  PROVE  \E f : ImplementationSteps(i, f, Len(files[i].interfaces)) /\ ImplementationsOf(i) = f[Len(files[i].interfaces)]
<1> DEFINE S == {n \in Nat : ~\E f : ImplementationSteps(i, f, n)}
<1>1. 0 \notin S
  <2>1. ImplementationSteps(i, [k \in 0..0 |-> <<>>], 0)
    BY DEF ImplementationSteps
  <2> QED BY <2>1
<1>2. ASSUME NEW n \in Nat, n \notin S PROVE n + 1 \notin S
  <2>1. PICK g : ImplementationSteps(i, g, n)
    BY <1>2
  <2> DEFINE f == [k \in 0..(n + 1) |-> IF k = n + 1 THEN IF CompleteContractOf(i, n + 1) THEN Append(g[n], InterfaceTable(i, n + 1)) ELSE g[n] ELSE g[k]]
  <2>2. \A k \in 0..n : g[k] = IF k = 0 THEN <<>> ELSE IF CompleteContractOf(i, k) THEN Append(g[k - 1], InterfaceTable(i, k)) ELSE g[k - 1]
    BY <2>1 DEF ImplementationSteps
  <2>3. \A k \in 0..(n + 1) : f[k] = IF k = 0 THEN <<>> ELSE IF CompleteContractOf(i, k) THEN Append(f[k - 1], InterfaceTable(i, k)) ELSE f[k - 1]
    <3>1. f[n + 1] = IF CompleteContractOf(i, n + 1) THEN Append(f[n], InterfaceTable(i, n + 1)) ELSE f[n]
      <4>1. n \in 0..(n + 1) /\ n # n + 1 /\ n + 1 \in 0..(n + 1)
        OBVIOUS
      <4>2. f[n] = g[n] /\ f[n + 1] = IF CompleteContractOf(i, n + 1) THEN Append(g[n], InterfaceTable(i, n + 1)) ELSE g[n]
        BY <4>1
      <4> HIDE DEF f
      <4> QED BY <4>2
    <3>2. \A k \in 0..n : f[k] = g[k] /\ (k # 0 => f[k - 1] = g[k - 1])
      OBVIOUS
    <3> HIDE DEF f
    <3>3. (n + 1) - 1 = n /\ n + 1 # 0
      OBVIOUS
    <3> SUFFICES ASSUME NEW k \in 0..(n + 1)
                 PROVE  f[k] = IF k = 0 THEN <<>> ELSE IF CompleteContractOf(i, k) THEN Append(f[k - 1], InterfaceTable(i, k)) ELSE f[k - 1]
      OBVIOUS
    <3>4. CASE k = n + 1
      BY <3>1, <3>3, <3>4
    <3>5. CASE k \in 0..n
      BY <2>2, <3>2, <3>5
    <3> QED BY <3>4, <3>5
  <2>4. ImplementationSteps(i, f, n + 1)
    BY <2>3 DEF ImplementationSteps
  <2> QED BY <2>4
<1>3. S = {}
  <2>1. S \in SUBSET Nat
    OBVIOUS
  <2> HIDE DEF S
  <2> QED BY <1>1, <1>2, <2>1, NoException
<1> DEFINE made == CHOOSE f : ImplementationSteps(i, f, Len(files[i].interfaces))
<1>4. ImplementationSteps(i, made, Len(files[i].interfaces))
  BY <1>3
<1>5. ImplementationsOf(i) = made[Len(files[i].interfaces)]
  BY DEF ImplementationsOf, ImplementationSteps
<1> QED BY <1>4, <1>5

\* The first k interfaces of a class have a table each where their contract is met.
CompleteOnes(i, k) == {n \in 1..k : CompleteContractOf(i, n)}
Implementing(i, k, tables) ==
  /\ tables \in Seq({InterfaceTable(i, n) : n \in CompleteOnes(i, k)}) /\ Len(tables) \in Nat /\ DOMAIN tables = 1..Len(tables)
  /\ \A m, n \in DOMAIN tables : tables[m].interface = tables[n].interface => m = n
  /\ \A n \in 1..k : CompleteContractOf(i, n) => \E m \in DOMAIN tables : tables[m] = InterfaceTable(i, n)

\* One more interface.
LEMMA ImplementMore ==
  ASSUME NEW i, NEW k \in Nat, NEW tables, Implementing(i, k, tables),
         k + 1 \in DOMAIN files[i].interfaces, 1..k \subseteq DOMAIN files[i].interfaces,
         Distinct(files[i].interfaces)
  PROVE  /\ CompleteContractOf(i, k + 1) => Implementing(i, k + 1, Append(tables, InterfaceTable(i, k + 1)))
         /\ ~CompleteContractOf(i, k + 1) => Implementing(i, k + 1, tables)
<1> DEFINE T == {InterfaceTable(i, n) : n \in CompleteOnes(i, k)}
           U == {InterfaceTable(i, n) : n \in CompleteOnes(i, k + 1)}
           new == InterfaceTable(i, k + 1)
           more == Append(tables, new)
<1>0. 1..k \subseteq 1..(k + 1) /\ k + 1 \in 1..(k + 1) /\ k + 1 \notin 1..k
      /\ \A n \in 1..(k + 1) : n = k + 1 \/ n \in 1..k
  OBVIOUS
<1>1. T \subseteq U /\ (CompleteContractOf(i, k + 1) => new \in U)
  BY <1>0 DEF CompleteOnes
<1>2. tables \in Seq(T)
  BY DEF Implementing
<1>3. \A n \in DOMAIN files[i].interfaces : InterfaceTable(i, n).interface = files[i].interfaces[n]
  BY DEF InterfaceTable
<1>4. \A t \in T : t.interface # new.interface
  BY <1>0, <1>3 DEF Distinct, CompleteOnes
<1> HIDE DEF T, U, new
<1>5. tables \in Seq(U) /\ \A m \in DOMAIN tables : tables[m] \in T
  BY <1>1, <1>2
<1>6. /\ DOMAIN more = 1..(Len(tables) + 1) /\ DOMAIN tables = 1..Len(tables) /\ Len(tables) \in Nat
      /\ \A n \in 1..Len(tables) : more[n] = tables[n]
      /\ more[Len(tables) + 1] = new /\ Len(more) = Len(tables) + 1
      /\ CompleteContractOf(i, k + 1) => more \in Seq(U)
  <2>1. tables \in Seq(U \cup {new}) /\ new \in U \cup {new}
    BY <1>1, <1>5
  <2>2. /\ DOMAIN more = 1..(Len(tables) + 1) /\ DOMAIN tables = 1..Len(tables) /\ Len(tables) \in Nat
        /\ \A n \in 1..Len(tables) : more[n] = tables[n]
        /\ more[Len(tables) + 1] = new /\ more \in Seq(U \cup {new}) /\ Len(more) = Len(tables) + 1
    BY <2>1, AppendFacts
  <2>3. CompleteContractOf(i, k + 1) => U \cup {new} = U
    BY <1>1
  <2> QED BY <2>2, <2>3
<1>7. \A m, n \in DOMAIN tables : tables[m].interface = tables[n].interface => m = n
  BY DEF Implementing
<1>8. \A n \in 1..k : CompleteContractOf(i, n) => \E m \in DOMAIN tables : tables[m] = InterfaceTable(i, n)
  BY DEF Implementing
<1> HIDE DEF more
<1>9. \A m \in DOMAIN more : (m \in DOMAIN tables /\ more[m] = tables[m]) \/ (m = Len(tables) + 1 /\ more[m] = new)
  BY <1>6
<1>10. \A m, n \in DOMAIN more : more[m].interface = more[n].interface => m = n
  BY <1>4, <1>5, <1>7, <1>9
<1>11. \A n \in 1..(k + 1) : CompleteContractOf(i, n) => \E m \in DOMAIN more : more[m] = InterfaceTable(i, n)
  <2>1. \A m \in DOMAIN tables : m \in DOMAIN more /\ more[m] = tables[m]
    BY <1>6
  <2>2. Len(tables) + 1 \in DOMAIN more
    BY <1>6
  <2> QED BY <1>0, <1>6, <1>8, <2>1, <2>2 DEF new
<1>12. CompleteContractOf(i, k + 1) => Implementing(i, k + 1, more)
  <2>1. Len(more) \in Nat /\ DOMAIN more = 1..Len(more)
    BY <1>6
  <2> QED BY <1>6, <1>10, <1>11, <2>1 DEF Implementing, U
<1>13. ~CompleteContractOf(i, k + 1) => Implementing(i, k + 1, tables)
  <2> SUFFICES ASSUME ~CompleteContractOf(i, k + 1) PROVE Implementing(i, k + 1, tables)
    OBVIOUS
  <2>1. \A n \in 1..(k + 1) : CompleteContractOf(i, n) => \E m \in DOMAIN tables : tables[m] = InterfaceTable(i, n)
    BY <1>0, <1>8
  <2> QED BY <1>5, <1>6, <1>7, <2>1 DEF Implementing, U
<1> QED BY <1>12, <1>13 DEF more, new

\* All of them.
LEMMA ImplementationsFound ==
  ASSUME NEW i, files[i].interfaces \in Seq(FileIds), Distinct(files[i].interfaces)
  PROVE  Implementing(i, Len(files[i].interfaces), ImplementationsOf(i))
<1> DEFINE last == Len(files[i].interfaces)
<1>1. last \in Nat /\ DOMAIN files[i].interfaces = 1..last
  OBVIOUS
<1>2. PICK f : ImplementationSteps(i, f, last) /\ ImplementationsOf(i) = f[last]
  BY <1>1, ImplementationsUnfold
<1> HIDE DEF last
<1>3. \A k \in 0..last : f[k] = IF k = 0 THEN <<>>
        ELSE IF CompleteContractOf(i, k) THEN Append(f[k - 1], InterfaceTable(i, k)) ELSE f[k - 1]
  BY <1>2 DEF ImplementationSteps
<1> DEFINE S == {k \in Nat : k <= last /\ ~Implementing(i, k, f[k])}
<1>4. 0 \notin S
  <2>1. f[0] = <<>>
    BY <1>1, <1>3
  <2> DEFINE none == <<>>
  <2>2. Len(none) = 0 /\ DOMAIN none = {} /\ 1..0 = {} /\ none \in Seq({})
    OBVIOUS
  <2>3. {InterfaceTable(i, n) : n \in CompleteOnes(i, 0)} = {}
    BY <2>2 DEF CompleteOnes
  <2> HIDE DEF none
  <2>4. Implementing(i, 0, none)
    BY <2>2, <2>3 DEF Implementing
  <2> QED BY <2>1, <2>4 DEF none
<1>5. ASSUME NEW k \in Nat, k + 1 \in S PROVE k \in S
  <2>1. k + 1 <= last /\ ~Implementing(i, k + 1, f[k + 1]) /\ k <= last
    BY <1>1, <1>5
  <2>2. k + 1 \in 0..last /\ k + 1 # 0 /\ (k + 1) - 1 = k /\ k + 1 \in DOMAIN files[i].interfaces
        /\ 1..k \subseteq DOMAIN files[i].interfaces
    BY <1>1, <2>1
  <2>3. f[k + 1] = IF CompleteContractOf(i, k + 1) THEN Append(f[k], InterfaceTable(i, k + 1)) ELSE f[k]
    BY <1>3, <2>2
  <2> SUFFICES ASSUME Implementing(i, k, f[k]) PROVE Implementing(i, k + 1, f[k + 1])
    BY <2>1
  <2> QED BY <2>2, <2>3, ImplementMore
<1>6. S = {}
  <2>1. S \in SUBSET Nat
    OBVIOUS
  <2> HIDE DEF S
  <2> QED BY <1>4, <1>5, <2>1, NoException
<1>7. Implementing(i, last, f[last])
  BY <1>1, <1>6
<1> QED BY <1>2, <1>7 DEF last

\* The pass over the interfaces establishes the tables of the classes.
LEMMA ConformanceEstablish ==
  ASSUME WellFormedProgram(syntax), HierarchyFacts, SymbolFacts, ValidateInterfaceConformance,
         \A i \in InterfaceIds : ContractFacts(i, InterfaceIds),
         \A i \in ClassIds : ClassFacts(i), \A i \in ClassIds : TableFacts(i), errors' = {}
  PROVE  Kept /\ \A i \in ClassIds' : ImplementationFacts(i)'
<1>1. /\ files' = [i \in FileIds |-> IF ~IsClass(i) THEN files[i] ELSE
                    [files[i] EXCEPT !.implementations = ImplementationsOf(i)]]
      /\ syntax' = syntax /\ symbols' = symbols
  BY DEF ValidateInterfaceConformance
<1>2. \A i \in FileIds : DOMAIN files[i] = FileFields
  BY DEF HierarchyFacts, FileTyped
<1>3. \A i \in FileIds : FileKept(i) /\ (IsClass(i) => files'[i].implementations = ImplementationsOf(i))
  BY <1>1, <1>2 DEF FileKept, FileFields
<1>4. Kept
  <2>1. DOMAIN files' = FileIds
    BY <1>1
  <2> QED BY <1>1, <1>3, <2>1 DEF Kept, SymbolFacts, WellTyped, SameDeclaration
<1>5. /\ ClassIds' = ClassIds /\ FileIds' = FileIds
      /\ \A j \in FileIds : Closure(j)' = Closure(j)
      /\ \A f, old \in PublicInstance : Replaces(f, old)' <=> Replaces(f, old)
  BY <1>4, DeclarationsKept
<1> SUFFICES ASSUME NEW i \in ClassIds PROVE ImplementationFacts(i)'
  BY <1>4, <1>5
<1> DEFINE tables == ImplementationsOf(i)
           closure == files[i].interfaces
           last == Len(closure)
<1>6. i \in FileIds /\ IsClass(i) /\ closure \in Seq(FileIds) /\ Distinct(closure)
      /\ files[i].virtuals \in Seq(Nat)
  BY DEF ClassIds, ClassFacts, HierarchyFacts, FileTyped
<1>7. Implementing(i, last, tables)
  BY <1>6, ImplementationsFound
<1>8. last \in Nat /\ DOMAIN closure = 1..last /\ Closure(i) = {closure[n] : n \in 1..last}
  BY <1>6 DEF Closure, ToSet
<1>9. files'[i].implementations = tables /\ files'[i].virtuals = files[i].virtuals
  BY <1>3, <1>6 DEF FileKept
<1>10. \A n \in 1..last : closure[n] \in FileIds /\ files'[closure[n]].contract = files[closure[n]].contract
  BY <1>3, <1>6, <1>8 DEF FileKept
<1>11. \A m \in DOMAIN tables : \E n \in 1..last : tables[m] = InterfaceTable(i, n) /\ CompleteContractOf(i, n)
  <2> DEFINE T == {InterfaceTable(i, n) : n \in CompleteOnes(i, last)}
  <2>1. tables \in Seq(T)
    BY <1>7 DEF Implementing
  <2>2. \A m \in DOMAIN tables : tables[m] \in T
    <3> HIDE DEF T, tables
    <3> QED BY <2>1
  <2> QED BY <2>2 DEF CompleteOnes
<1>12. ASSUME NEW m \in DOMAIN tables PROVE TableOfInterface(i, files[i].implementations[m])'
  <2> PICK t : t = tables[m]
    OBVIOUS
  <2>1. PICK n \in 1..last : t = InterfaceTable(i, n)
    BY <1>11
  <2>2. /\ t.interface = closure[n] /\ t.interface \in Closure(i)'
        /\ t.functions = [k \in DOMAIN files[closure[n]].contract |->
             files[i].virtuals[Matching(symbols, files[i].virtuals, files[closure[n]].contract[k])]]
    <3>1. closure[n] \in Closure(i)'
      BY <1>5, <1>6, <1>8
    <3>2. InterfaceTable(i, n) = [interface |-> closure[n],
             functions |-> [k \in DOMAIN files[closure[n]].contract |->
               files[i].virtuals[Matching(symbols, files[i].virtuals, files[closure[n]].contract[k])]]]
      BY DEF InterfaceTable, Requirements, Implementation
    <3> HIDE DEF tables, last, closure
    <3> QED BY <2>1, <3>1, <3>2
  <2>3. files'[t.interface].contract = files[closure[n]].contract
    BY <1>10, <2>2
  <2> PICK functions : functions = t.functions
    OBVIOUS
  <2>4. /\ DOMAIN functions = DOMAIN files'[t.interface].contract
        /\ \A k \in DOMAIN functions :
             functions[k] =
               files'[i].virtuals[Matching(symbols', files'[i].virtuals, files'[t.interface].contract[k])]
    <3> PICK contract : contract = files[closure[n]].contract
      OBVIOUS
    <3> PICK virtuals : virtuals = files[i].virtuals
      OBVIOUS
    <3> HIDE DEF tables, last, closure
    <3>1. functions = [k \in DOMAIN contract |-> virtuals[Matching(symbols, virtuals, contract[k])]]
      BY <2>2
    <3>2. files'[t.interface].contract = contract /\ files'[i].virtuals = virtuals /\ symbols' = symbols
      BY <1>1, <1>9, <2>3
    <3>3. \A k \in DOMAIN functions : functions[k] = virtuals[Matching(symbols', virtuals, contract[k])]
      BY <3>1, <3>2
    <3> QED BY <3>1, <3>2, <3>3
  <2>5. t = files'[i].implementations[m]
    BY <1>9
  <2> HIDE DEF tables, last, closure
  <2> QED BY <2>2, <2>4, <2>5 DEF TableOfInterface
<1>13. ASSUME ~syntax[i].abstract, NEW n \in 1..last, NEW c \in ToSet(files[closure[n]].contract)
       PROVE  Conforms(i, c) = "ok"
  <2>1. ~\E m \in DOMAIN files[i].interfaces : \E r \in ToSet(Requirements(i, m)) :
          Conforms(i, r) \notin {"ok"} \cup (IF syntax[i].abstract THEN {"missing"} ELSE {})
    <3>1. <<"conformance", i>> \notin errors'
      OBVIOUS
    <3> QED BY <1>6, <3>1 DEF ValidateInterfaceConformance
  <2>2. n \in DOMAIN files[i].interfaces /\ Requirements(i, n) = files[closure[n]].contract
    BY <1>8 DEF Requirements
  <2> HIDE DEF last
  <2> QED BY <1>13, <2>1, <2>2
<1>14. ASSUME ~syntax[i].abstract, NEW n \in 1..last
       PROVE  \E m \in DOMAIN tables : tables[m].interface = closure[n]
  <2>1. CompleteContractOf(i, n)
    BY <1>13, <1>14 DEF CompleteContractOf, Requirements
  <2>2. PICK m \in DOMAIN tables : tables[m] = InterfaceTable(i, n)
    BY <1>7, <2>1 DEF Implementing
  <2> QED BY <2>2 DEF InterfaceTable
<1>15. ASSUME NEW n \in 1..last, NEW c \in ToSet(files[closure[n]].contract)
       PROVE  Meets(i, c)' <=> Conforms(i, c) = "ok"
  <2> PICK at : at = Matching(symbols, files[i].virtuals, c)
    OBVIOUS
  <2> PICK f : f = files[i].virtuals[at]
    OBVIOUS
  <2> DEFINE fits == at # 0 /\ Replaces(f, c)
  <2>1. Conforms(i, c) = "ok" <=>
          /\ at # 0
          /\ IsOverrideReturnCompatible(Bases, Interfaces, symbols[c].type, symbols[f].type)
          /\ ThrowsSetCovers(Bases, symbols[c].throws, symbols[f].throws)
    BY DEF Conforms, Implementation
  <2>2. at # 0 => at \in DOMAIN files[i].virtuals /\ symbols[f].name = symbols[c].name
    <3>1. Len(files[i].virtuals) \in Nat /\ DOMAIN files[i].virtuals = 1..Len(files[i].virtuals)
      <4> PICK virtuals : virtuals = files[i].virtuals
        OBVIOUS
      <4>1. virtuals \in Seq(Nat)
        BY <1>6
      <4>2. Len(virtuals) \in Nat /\ DOMAIN virtuals = 1..Len(virtuals)
        BY <4>1
      <4> QED BY <4>2
    <3> QED BY <3>1, MatchingEntry
  <2>3. Conforms(i, c) = "ok" <=> fits
    BY <2>1, <2>2 DEF Replaces
  <2>4. at # 0 => f \in PublicInstance
    BY <2>2 DEF TableFacts, EntryFits
  <2>5. c \in PublicInstance
    <3>1. closure[n] \in InterfaceIds
      <4>1. closure[n] \in Closure(i)
        BY <1>8
      <4> QED BY <1>10, <4>1 DEF ClassFacts, InterfaceIds
    <3> QED BY <3>1 DEF ContractFacts
  <2> HIDE DEF tables, last, closure
  <2> PICK old : old = c
    OBVIOUS
  <2>6. at # 0 => (Replaces(f, old)' <=> Replaces(f, old))
    BY <1>5, <2>4, <2>5
  <2>7. at = Matching(symbols', files'[i].virtuals, old) /\ f = files'[i].virtuals[at]
    BY <1>1, <1>9
  <2>8. Meets(i, old)' <=> at # 0 /\ Replaces(f, old)'
    BY <2>7 DEF Meets, Replaces
  <2>9. Meets(i, c)' <=> Meets(i, old)'
    BY DEF Meets, Replaces
  <2> QED BY <2>3, <2>6, <2>8, <2>9
<1>16. Len(tables) \in Nat /\ DOMAIN tables = 1..Len(tables)
       /\ \A m, n \in DOMAIN tables : tables[m].interface = tables[n].interface => m = n
  BY <1>7 DEF Implementing
<1>17. ASSUME ~syntax[i].abstract, NEW x \in Closure(i)
       PROVE  /\ \E m \in DOMAIN tables : tables[m].interface = x
              /\ \A c \in ToSet(files'[x].contract) : Meets(i, c)'
  <2>1. PICK n \in 1..last : x = closure[n]
    BY <1>8
  <2>2. files'[x].contract = files[x].contract
    BY <1>10, <2>1
  <2>3. \A c \in ToSet(files[closure[n]].contract) : Conforms(i, c) = "ok"
    BY <1>13, <1>17
  <2> HIDE DEF tables, last, closure
  <2> QED BY <1>14, <1>15, <1>17, <2>1, <2>2, <2>3
<1>18. Closure(i)' = Closure(i)
  BY <1>5, <1>6
<1> HIDE DEF tables, last, closure
<1>19. \A m \in DOMAIN files'[i].implementations : TableOfInterface(i, files[i].implementations[m])'
  BY <1>9, <1>12
<1>20. ~syntax'[i].abstract => \A x \in Closure(i)' :
            /\ \E m \in DOMAIN files'[i].implementations : files'[i].implementations[m].interface = x
            /\ \A c \in ToSet(files'[x].contract) : Meets(i, c)'
  BY <1>1, <1>9, <1>17, <1>18
<1>21. /\ Len(files'[i].implementations) \in Nat
       /\ DOMAIN files'[i].implementations = 1..Len(files'[i].implementations)
       /\ \A m, n \in DOMAIN files'[i].implementations :
            files'[i].implementations[m].interface = files'[i].implementations[n].interface => m = n
  BY <1>9, <1>16
<1>22. ASSUME NEW m \in DOMAIN tables, NEW c \in ToSet(files'[tables[m].interface].contract)
       PROVE  Meets(i, c)'
  <2>1. PICK n \in 1..last : tables[m] = InterfaceTable(i, n) /\ CompleteContractOf(i, n)
    BY <1>11
  <2>2. tables[m].interface = closure[n]
    BY <2>1 DEF InterfaceTable, closure
  <2>3. c \in ToSet(files[closure[n]].contract)
    BY <1>10, <1>22, <2>2
  <2>4. Conforms(i, c) = "ok"
    BY <2>1, <2>3 DEF CompleteContractOf, Requirements, closure
  <2> QED BY <1>15, <2>3, <2>4
<1>23. ASSUME NEW x \in Closure(i), \A c \in ToSet(files'[x].contract) : Meets(i, c)'
       PROVE  \E m \in DOMAIN tables : tables[m].interface = x
  <2>1. PICK n \in 1..last : x = closure[n]
    BY <1>8
  <2>2. \A c \in ToSet(files[closure[n]].contract) : Conforms(i, c) = "ok"
    BY <1>10, <1>15, <1>23, <2>1
  <2>3. CompleteContractOf(i, n)
    BY <2>2 DEF CompleteContractOf, Requirements, closure
  <2>4. PICK m \in DOMAIN tables : tables[m] = InterfaceTable(i, n)
    BY <1>7, <2>3 DEF Implementing
  <2>5. tables[m].interface = x
    BY <2>1, <2>4 DEF InterfaceTable, closure
  <2> QED BY <2>5
<1>24. \A m \in DOMAIN files'[i].implementations :
         \A c \in ToSet(files'[files'[i].implementations[m].interface].contract) : Meets(i, c)'
  BY <1>9, <1>22
<1>25. \A x \in Closure(i)' : (\A c \in ToSet(files'[x].contract) : Meets(i, c)') =>
         \E m \in DOMAIN files'[i].implementations : files'[i].implementations[m].interface = x
  BY <1>9, <1>18, <1>23
<1> QED BY <1>19, <1>20, <1>21, <1>24, <1>25 DEF ImplementationFacts

\* A table of distinct names is searched by name alone.
LEMMA MatchingKept ==
  ASSUME NEW sy, NEW sz, NEW table, NEW c, Len(table) \in Nat, DOMAIN table = 1..Len(table),
         \A n \in DOMAIN table : sy[table[n]].name = sz[table[n]].name, sy[c].name = sz[c].name,
         \A m, n \in DOMAIN table : sy[table[m]].name = sy[table[n]].name => m = n
  PROVE  Matching(sz, table, c) = Matching(sy, table, c)
<1> DEFINE a == Matching(sy, table, c)
           b == Matching(sz, table, c)
<1>1. /\ a # 0 => a \in DOMAIN table /\ sy[table[a]].name = sy[c].name
      /\ a = 0 => \A n \in DOMAIN table : sy[table[n]].name # sy[c].name
  BY MatchingEntry
<1>2. /\ b # 0 => b \in DOMAIN table /\ sz[table[b]].name = sz[c].name
      /\ b = 0 => \A n \in DOMAIN table : sz[table[n]].name # sz[c].name
  BY MatchingEntry
<1> SUFFICES a = b
  OBVIOUS
<1> HIDE DEF a, b
<1>3. CASE a # 0 /\ b # 0
  BY <1>1, <1>2, <1>3
<1>4. CASE a = 0 \/ b = 0
  BY <1>1, <1>2, <1>4
<1> QED BY <1>3, <1>4

\* Names of a complete table are distinct.
LEMMA TableNames ==
  ASSUME HierarchyFacts, NEW i \in FileIds, TableFacts(i)
  PROVE  /\ Len(files[i].virtuals) \in Nat /\ DOMAIN files[i].virtuals = 1..Len(files[i].virtuals)
         /\ \A n \in DOMAIN files[i].virtuals : files[i].virtuals[n] \in PublicInstance
         /\ \A m, n \in DOMAIN files[i].virtuals :
              symbols[files[i].virtuals[m]].name = symbols[files[i].virtuals[n]].name => m = n
<1>1. files[i].virtuals \in Seq(Nat)
  BY DEF HierarchyFacts, FileTyped
<1> PICK virtuals : virtuals = files[i].virtuals
  OBVIOUS
<1>2. Len(virtuals) \in Nat /\ DOMAIN virtuals = 1..Len(virtuals)
  BY <1>1
<1> QED BY <1>2 DEF TableFacts, EntryFits

\* The interface tables stay too.
LEMMA ImplementationsKept ==
  ASSUME WellFormedProgram(syntax), HierarchyFacts, SymbolFacts, Kept,
         \A i \in InterfaceIds : ContractFacts(i, InterfaceIds),
         \A i \in ClassIds : ClassFacts(i) /\ TableFacts(i) /\ ImplementationFacts(i),
         \A i \in FileIds : files'[i].implementations = files[i].implementations
  PROVE  \A i \in ClassIds' : ImplementationFacts(i)'
<1>1. /\ FileIds' = FileIds /\ PublicInstance' = PublicInstance
      /\ ClassIds' = ClassIds /\ syntax' = syntax
      /\ \A j \in FileIds : Closure(j)' = Closure(j)
      /\ \A f, old \in PublicInstance : Replaces(f, old)' <=> Replaces(f, old)
      /\ \A j \in FileIds : /\ files'[j].virtuals = files[j].virtuals
                            /\ files'[j].contract = files[j].contract
      /\ \A s \in PublicInstance : symbols'[s].name = symbols[s].name
  BY DeclarationsKept DEF Kept, FileKept, PublicInstance, SameDeclaration
<1> SUFFICES ASSUME NEW i \in ClassIds PROVE ImplementationFacts(i)'
  BY <1>1
<1> PICK virtuals : virtuals = files[i].virtuals
  OBVIOUS
<1> PICK tables : tables = files[i].implementations
  OBVIOUS
<1>2. i \in FileIds /\ files'[i].virtuals = virtuals /\ files'[i].implementations = tables
      /\ Closure(i)' = Closure(i)
  BY <1>1 DEF ClassIds
<1>3. \A x \in Closure(i) : x \in InterfaceIds /\ x \in FileIds /\ files'[x].contract = files[x].contract
      /\ \A c \in ToSet(files[x].contract) : c \in PublicInstance
  <2>1. ASSUME NEW x \in Closure(i) PROVE x \in InterfaceIds /\ x \in FileIds
    <3>1. IsInterface(x)
      BY DEF ClassFacts
    <3>2. x \in FileIds
      BY <1>2 DEF Closure, ToSet, HierarchyFacts, FileTyped
    <3> QED BY <3>1, <3>2 DEF InterfaceIds
  <2> QED BY <1>1, <2>1 DEF ContractFacts
<1>4. \A c \in PublicInstance : Matching(symbols', virtuals, c) = Matching(symbols, virtuals, c)
  <2> SUFFICES ASSUME NEW c \in PublicInstance
               PROVE  Matching(symbols', virtuals, c) = Matching(symbols, virtuals, c)
    OBVIOUS
  <2>1. /\ Len(virtuals) \in Nat /\ DOMAIN virtuals = 1..Len(virtuals)
        /\ \A n \in DOMAIN virtuals : virtuals[n] \in PublicInstance
        /\ \A m, n \in DOMAIN virtuals : symbols[virtuals[m]].name = symbols[virtuals[n]].name => m = n
    BY <1>2, TableNames
  <2>2. \A n \in DOMAIN virtuals : symbols[virtuals[n]].name = symbols'[virtuals[n]].name
    BY <1>1, <2>1
  <2> PICK sy : sy = symbols
    OBVIOUS
  <2> PICK sz : sz = symbols'
    OBVIOUS
  <2>3. Matching(sz, virtuals, c) = Matching(sy, virtuals, c)
    BY <1>1, <2>1, <2>2, MatchingKept
  <2> QED BY <2>3
<1>5. /\ Len(tables) \in Nat /\ DOMAIN tables = 1..Len(tables)
      /\ \A m \in DOMAIN tables : TableOfInterface(i, tables[m])
      /\ \A m, n \in DOMAIN tables : tables[m].interface = tables[n].interface => m = n
      /\ \A m \in DOMAIN tables : \A c \in ToSet(files[tables[m].interface].contract) : Meets(i, c)
      /\ \A x \in Closure(i) : (\A c \in ToSet(files[x].contract) : Meets(i, c)) =>
           \E m \in DOMAIN tables : tables[m].interface = x
      /\ ~syntax[i].abstract => \A x \in Closure(i) :
           /\ \E m \in DOMAIN tables : tables[m].interface = x
           /\ \A c \in ToSet(files[x].contract) : Meets(i, c)
  BY DEF ImplementationFacts
<1>6. ASSUME NEW m \in DOMAIN tables PROVE TableOfInterface(i, files[i].implementations[m])'
  <2> PICK t : t = tables[m]
    OBVIOUS
  <2>1. TableOfInterface(i, t)
    BY <1>5
  <2> PICK contract : contract = files[t.interface].contract
    OBVIOUS
  <2>2. /\ t.interface \in Closure(i) /\ DOMAIN t.functions = DOMAIN contract
        /\ \A k \in DOMAIN contract :
             t.functions[k] = virtuals[Matching(symbols, virtuals, contract[k])]
    BY <2>1 DEF TableOfInterface
  <2>3. files'[t.interface].contract = contract /\ \A k \in DOMAIN contract : contract[k] \in PublicInstance
    BY ZenonT(60), <1>3, <2>2 DEF ToSet
  <2>4. \A k \in DOMAIN contract : t.functions[k] = virtuals[Matching(symbols', virtuals, contract[k])]
    BY <1>4, <2>2, <2>3
  <2>5. t = files'[i].implementations[m]
    BY <1>2
  <2> QED BY <1>2, <2>2, <2>3, <2>4, <2>5 DEF TableOfInterface
<1>7. ASSUME NEW c \in PublicInstance PROVE Meets(i, c)' <=> Meets(i, c)
  <2> PICK at : at = Matching(symbols, virtuals, c)
    OBVIOUS
  <2> PICK f : f = virtuals[at]
    OBVIOUS
  <2> PICK old : old = c
    OBVIOUS
  <2>1. Meets(i, old) <=> at # 0 /\ Replaces(f, old)
    BY DEF Meets
  <2>2. at # 0 => f \in PublicInstance
    BY <1>2, TableNames, MatchingEntry
  <2>3. at # 0 => (Replaces(f, old)' <=> Replaces(f, old))
    BY <1>1, <2>2
  <2>4. at = Matching(symbols', files'[i].virtuals, old) /\ f = files'[i].virtuals[at]
    BY <1>2, <1>4
  <2>5. Meets(i, old)' <=> at # 0 /\ Replaces(f, old)'
    BY <2>4 DEF Meets, Replaces
  <2>6. Meets(i, c)' <=> Meets(i, old)'
    BY DEF Meets, Replaces
  <2> QED BY <2>1, <2>3, <2>5, <2>6
<1>8. \A m \in DOMAIN files'[i].implementations : TableOfInterface(i, files[i].implementations[m])'
  BY <1>2, <1>6
<1>9. ~syntax'[i].abstract => \A x \in Closure(i)' :
            /\ \E m \in DOMAIN files'[i].implementations : files'[i].implementations[m].interface = x
            /\ \A c \in ToSet(files'[x].contract) : Meets(i, c)'
  BY <1>1, <1>2, <1>3, <1>5, <1>7
<1>10. /\ Len(files'[i].implementations) \in Nat
       /\ DOMAIN files'[i].implementations = 1..Len(files'[i].implementations)
       /\ \A m, n \in DOMAIN files'[i].implementations :
            files'[i].implementations[m].interface = files'[i].implementations[n].interface => m = n
  BY <1>2, <1>5
<1>11. \A m \in DOMAIN tables : tables[m].interface \in Closure(i)
  BY <1>5 DEF TableOfInterface
<1>12. \A m \in DOMAIN files'[i].implementations :
         \A c \in ToSet(files'[files'[i].implementations[m].interface].contract) : Meets(i, c)'
  BY <1>2, <1>3, <1>5, <1>7, <1>11
<1>13. \A x \in Closure(i)' : (\A c \in ToSet(files'[x].contract) : Meets(i, c)') =>
         \E m \in DOMAIN files'[i].implementations : files'[i].implementations[m].interface = x
  BY <1>2, <1>3, <1>5, <1>7
<1> QED BY <1>8, <1>9, <1>10, <1>12, <1>13 DEF ImplementationFacts

\* find_members finds a member of the file or of one of its bases, a private
\* one only of the file that asks.
LEMMA MemberFound ==
  ASSUME WellFormedProgram(syntax), HierarchyFacts, SymbolFacts, NEW i \in FileIds, NEW name, NEW from
  PROVE  /\ \A k \in 0..Len(syntax) : Chain(Bases, i)[k] \in 0..Len(syntax)
         /\ \A j \in FileIds : MemberNamed(j, name) \subseteq DOMAIN symbols
         /\ FindMember(i, name, from) # 0 =>
              \E a \in {i} \cup Ancestors(Bases, i) :
                /\ a \in FileIds /\ FindMember(i, name, from) \in MemberNamed(a, name)
                /\ symbols[FindMember(i, name, from)].private => a = from
<1> PICK chain : chain = Chain(Bases, i)
  OBVIOUS
<1>1. \A k \in Nat : chain[k] \in 0..Len(syntax)
  <2>1. i \in 1..Len(Bases) /\ Len(Bases) = Len(syntax)
    BY BasesLink, ProgramTyped
  <2> QED BY <2>1, BasesLink, ChainInRange
<1>2. \A j \in FileIds : MemberNamed(j, name) \subseteq DOMAIN symbols
  BY DEF MemberNamed, ToSet, SymbolFacts, FunctionRegistered
<1> DEFINE owners == {k \in 0..Len(syntax) : chain[k] # 0 /\ MemberNamed(chain[k], name) # {}}
           at == Min(owners)
           owner == chain[at]
           found == OneOf(MemberNamed(owner, name))
<1>3. FindMember(i, name, from) = IF owners = {} \/ (symbols[found].private /\ owner # from) THEN 0 ELSE found
  BY DEF FindMember
<1>4. ASSUME owners # {}
      PROVE  at \in owners /\ found \in MemberNamed(owner, name)
  <2>1. owners \in SUBSET Nat
    BY ProgramTyped
  <2> HIDE DEF owners
  <2>2. at \in owners
    BY <1>4, <2>1, LeastNumber DEF Min
  <2>3. MemberNamed(owner, name) # {}
    BY <2>2 DEF owners
  <2> QED BY <2>2, <2>3 DEF OneOf
<1>5. ASSUME owners # {} PROVE owner \in {i} \cup Ancestors(Bases, i) /\ owner \in FileIds
  <2>1. at \in 0..Len(syntax) /\ owner # 0
    BY <1>4, <1>5
  <2>0. owner = chain[at]
    OBVIOUS
  <2> HIDE DEF owner, at, owners
  <2>2. owner \in FileIds
    BY <1>1, <2>0, <2>1, ProgramTyped
  <2>3. CASE at = 0
    BY <2>0, <2>2, <2>3, ChainValues
  <2>4. CASE at # 0
    <3>1. at \in 1..Len(Bases)
      BY <2>1, <2>4, BasesLink, ProgramTyped
    <3> QED BY <2>0, <2>1, <2>2, <3>1 DEF Ancestors
  <2> QED BY <2>2, <2>3, <2>4
<1> HIDE DEF owners, owner, found
<1>6. FindMember(i, name, from) # 0 => /\ FindMember(i, name, from) = found /\ owners # {}
                                       /\ symbols[found].private => owner = from
  BY <1>3
<1> QED BY <1>1, <1>2, <1>4, <1>5, <1>6, ProgramTyped

\* What a name finds depends on declarations alone.
LEMMA MemberKept ==
  ASSUME WellFormedProgram(syntax), HierarchyFacts, SymbolFacts, Kept,
         NEW i \in FileIds, NEW name, NEW from
  PROVE  FindMember(i, name, from)' = FindMember(i, name, from)
<1>1. /\ FileIds' = FileIds /\ syntax' = syntax /\ Bases' = Bases
      /\ \A j \in FileIds : files'[j].functions = files[j].functions
      /\ \A s \in DOMAIN symbols : symbols'[s].name = symbols[s].name /\ symbols'[s].private = symbols[s].private
  BY DeclarationsKept DEF Kept, FileKept, SameDeclaration
<1>2. \A j \in FileIds : \A f \in ToSet(files[j].functions) : f \in DOMAIN symbols
  BY DEF ToSet, SymbolFacts, FunctionRegistered
<1>3. \A j \in FileIds : MemberNamed(j, name)' = MemberNamed(j, name)
  BY <1>1, <1>2 DEF MemberNamed
<1> PICK chain : chain = Chain(Bases, i)
  OBVIOUS
<1> DEFINE owners == {k \in 0..Len(syntax) : chain[k] # 0 /\ MemberNamed(chain[k], name) # {}}
           named(x) == {f \in ToSet(files'[x].functions) : symbols'[f].name = name}
           owners2 == {k \in 0..Len(syntax) : chain[k] # 0 /\ named(chain[k]) # {}}
<1>4. \A j \in FileIds : named(j) = MemberNamed(j, name)
  BY <1>3 DEF MemberNamed
<1>5. \A k \in 0..Len(syntax) : chain[k] # 0 => chain[k] \in FileIds
  <2>1. \A k \in 0..Len(syntax) : chain[k] \in 0..Len(syntax)
    BY MemberFound
  <2>2. \A x \in 0..Len(syntax) : x # 0 => x \in FileIds
    BY ProgramTyped
  <2> QED BY <2>1, <2>2
<1>6. owners2 = owners
  BY <1>4, <1>5
<1> DEFINE owner == chain[Min(owners)]
           found == OneOf(MemberNamed(owner, name))
<1>7. FindMember(i, name, from) = IF owners = {} \/ (symbols[found].private /\ owner # from) THEN 0 ELSE found
  BY DEF FindMember
<1> DEFINE owner2 == chain[Min(owners2)]
           found2 == OneOf(named(owner2))
<1>8. FindMember(i, name, from)' = IF owners2 = {} \/ (symbols'[found2].private /\ owner2 # from) THEN 0 ELSE found2
  BY <1>1 DEF FindMember, MemberNamed
<1>9. ASSUME owners # {} PROVE owner \in FileIds /\ found \in DOMAIN symbols
  <2>1. owners \in SUBSET Nat
    BY ProgramTyped
  <2>2. Min(owners) \in owners
    <3> HIDE DEF owners
    <3> QED BY <1>9, <2>1, LeastNumber DEF Min
  <2>3. owner \in FileIds /\ MemberNamed(owner, name) # {}
    BY <1>5, <2>2
  <2>4. MemberNamed(owner, name) \subseteq DOMAIN symbols
    BY <2>3, MemberFound
  <2> HIDE DEF owner
  <2> QED BY <2>3, <2>4 DEF OneOf
<1>10. owner2 = owner
  BY <1>6
<1>11. owners # {} => named(owner2) = MemberNamed(owner, name)
  <2> HIDE DEF owners, owners2, owner, owner2, named
  <2> QED BY <1>4, <1>9, <1>10
<1>12. owners # {} => found2 = found
  <2> HIDE DEF owners, owners2, owner, owner2, named
  <2> QED BY <1>11
<1> HIDE DEF owners, owners2, owner, owner2, found, found2
<1>13. owners # {} => symbols'[found2].private = symbols[found].private
  BY <1>1, <1>9, <1>12
<1> QED BY <1>6, <1>7, <1>8, <1>10, <1>12, <1>13

\* The symbol a statement calls, likewise.
LEMMA CalleeKept ==
  ASSUME WellFormedProgram(syntax), HierarchyFacts, SymbolFacts, Kept,
         \A j \in InterfaceIds : ContractFacts(j, InterfaceIds),
         NEW i \in FileIds, NEW st \in StatementsOf(syntax)
  PROVE  Callee(i, st)' = Callee(i, st)
<1>1. /\ FileIds' = FileIds /\ syntax' = syntax /\ Bases' = Bases /\ Obj \in FileIds
      /\ \A j \in FileIds : files'[j].contract = files[j].contract /\ files'[j].base = files[j].base
      /\ \A s \in DOMAIN symbols : symbols'[s].name = symbols[s].name
                                   /\ symbols'[s].abstract = symbols[s].abstract
                                   /\ symbols'[s].static = symbols[s].static
  BY DeclarationsKept, ProgramTyped DEF Kept, FileKept, SameDeclaration
<1>3. st.t \in TypesOf(syntax)
  BY DEF StatementsOf
<1>4. TypeKind(st.t)' = TypeKind(st.t)
  BY <1>1 DEF TypeKind
<1>5. st.t.k = "file" => st.t.f \in FileIds
  BY <1>3 DEF TypesOf, FileIds, ScalarNames
<1>6. TypeKind(st.t) = "interface" => st.t.f \in InterfaceIds
  BY <1>3, NominalTypes DEF InterfaceIds, IsInterface
<1>7. TypeKind(st.t) = "interface" => ContractNamed(st.t.f, st.name)' = ContractNamed(st.t.f, st.name)
  <2> SUFFICES ASSUME TypeKind(st.t) = "interface"
               PROVE  ContractNamed(st.t.f, st.name)' = ContractNamed(st.t.f, st.name)
    OBVIOUS
  <2>1. ToSet(files[st.t.f].contract) \subseteq DOMAIN symbols /\ st.t.f \in FileIds
    BY <1>6 DEF ContractFacts, PublicInstance, InterfaceIds
  <2> QED BY <1>1, <2>1 DEF ContractNamed
<1>8. MemberOf(st.t, st.name, i)' = MemberOf(st.t, st.name, i)
  <2> PICK t : t = st.t
    OBVIOUS
  <2> PICK name : name = st.name
    OBVIOUS
  <2> PICK contract : contract = IF TypeKind(t) = "interface" THEN ContractNamed(t.f, name) ELSE {}
    OBVIOUS
  <2> PICK member : member = IF t.k = "file" THEN FindMember(t.f, name, i) ELSE 0
    OBVIOUS
  <2> PICK object : object = FindMember(Obj, name, 0)
    OBVIOUS
  <2> PICK kind : kind = TypeKind(t)
    OBVIOUS
  <2> DEFINE own == IF kind = "interface" /\ contract # {} THEN OneOf(contract)
                    ELSE IF t.k = "file" /\ kind # "interface" THEN member ELSE 0
             offers == kind \in {"string", "object", "class", "error", "interface", "struct"}
             result == IF ~offers THEN 0
                       ELSE IF own = 0 /\ kind # "struct" THEN object ELSE own
  <2>1. MemberOf(t, name, i) = result
    BY DEF MemberOf, HasMembers
  <2>2. /\ TypeKind(t)' = kind
        /\ kind = "interface" => ContractNamed(t.f, name)' = contract
        /\ t.k = "file" => FindMember(t.f, name, i)' = member
        /\ FindMember(Obj, name, 0)' = object
    <3>1. FindMember(Obj, name, 0)' = FindMember(Obj, name, 0)
      BY <1>1, MemberKept
    <3>2. t.k = "file" => FindMember(t.f, name, i)' = FindMember(t.f, name, i)
      BY <1>5, MemberKept
    <3>3. kind = "interface" => ContractNamed(t.f, name)' = ContractNamed(t.f, name)
      BY <1>7 DEF ContractNamed
    <3>4. TypeKind(t)' = TypeKind(t)
      BY <1>1 DEF TypeKind
    <3> QED BY <3>1, <3>2, <3>3, <3>4
  <2>3. MemberOf(t, name, i)' = result
    BY <2>2 DEF MemberOf, HasMembers
  <2> QED BY <2>1, <2>3
<1>9. files[i].base # 0 => files[i].base \in FileIds
  BY ProgramTyped DEF HierarchyFacts, FileTyped
<1> PICK base : base = files[i].base
  OBVIOUS
<1> PICK f : f = IF base # 0 THEN FindMember(base, st.name, i) ELSE 0
  OBVIOUS
<1>10. f # 0 => f \in DOMAIN symbols
  BY <1>9, MemberFound
<1>11. Callee(i, st) = IF st.op = "call" THEN MemberOf(st.t, st.name, i)
                       ELSE IF st.op = "self" THEN FindMember(i, st.name, i)
                       ELSE IF st.op = "super" /\ base # 0 
                       THEN IF f # 0 /\ (symbols[f].abstract \/ symbols[f].static) THEN 0 ELSE f
                       ELSE 0
  BY DEF Callee
<1>12. base # 0 => FindMember(base, st.name, i)' = f
  <2>1. base # 0 => FindMember(base, st.name, i)' = FindMember(base, st.name, i)
    BY <1>9, MemberKept
  <2> QED BY <2>1
<1>13. FindMember(i, st.name, i)' = FindMember(i, st.name, i)
  BY MemberKept
<1>14. base = files'[i].base
  BY <1>1
<1>15. Callee(i, st)' = IF st.op = "call" THEN MemberOf(st.t, st.name, i)
                       ELSE IF st.op = "self" THEN FindMember(i, st.name, i)
                       ELSE IF st.op = "super" /\ base # 0 
                       THEN IF f # 0 /\ (symbols'[f].abstract \/ symbols'[f].static) THEN 0 ELSE f
                       ELSE 0
  BY <1>8, <1>12, <1>13, <1>14 DEF Callee
<1> QED BY <1>1, <1>10, <1>11, <1>15

\* And whether it is allowed.
LEMMA StatementKept ==
  ASSUME WellFormedProgram(syntax), HierarchyFacts, SymbolFacts, Kept,
         \A j \in InterfaceIds : ContractFacts(j, InterfaceIds),
         NEW i \in FileIds, NEW st \in StatementsOf(syntax)
  PROVE  StatementAllowed(i, st)' = StatementAllowed(i, st)
<1>1. Callee(i, st)' = Callee(i, st)
  BY CalleeKept
<1>2. TypeKind(st.t)' = TypeKind(st.t)
  BY DEF Kept, TypeKind
<1> QED BY <1>1, <1>2 DEF StatementAllowed

\* The statements a file runs are statements of the program.
LEMMA StatementsTyped ==
  ASSUME WellFormedProgram(syntax)
  PROVE  \A i \in FileIds : /\ FieldStatements(i) \in Seq(StatementsOf(syntax))
                            /\ Len(FieldStatements(i)) \in Nat
                            /\ DOMAIN FieldStatements(i) = 1..Len(FieldStatements(i))
                            /\ \A n \in DOMAIN FieldStatements(i) :
                                 FieldStatements(i)[n] \in StatementsOf(syntax)
<1> SUFFICES ASSUME NEW i \in FileIds
             PROVE  /\ FieldStatements(i) \in Seq(StatementsOf(syntax))
                    /\ Len(FieldStatements(i)) \in Nat
                    /\ DOMAIN FieldStatements(i) = 1..Len(FieldStatements(i))
                    /\ \A n \in DOMAIN FieldStatements(i) : FieldStatements(i)[n] \in StatementsOf(syntax)
  OBVIOUS
<1> DEFINE T == StatementsOf(syntax)
           fields == syntax[i].fields
           inits == [n \in DOMAIN fields |-> fields[n].init]
<1>1. fields \in Seq(FieldsOf(syntax))
  <2>1. syntax[i] \in DeclarationsOf(syntax)
    BY ProgramTyped DEF WellFormedProgram
  <2> QED BY <2>1 DEF DeclarationsOf
<1>2. Len(fields) \in Nat /\ DOMAIN fields = 1..Len(fields) /\ \A n \in DOMAIN fields : fields[n].init \in Seq(T)
  <2>1. Len(fields) \in Nat /\ DOMAIN fields = 1..Len(fields) /\ \A n \in DOMAIN fields : fields[n] \in FieldsOf(syntax)
    <3> HIDE DEF fields
    <3> QED BY <1>1
  <2> QED BY <2>1 DEF FieldsOf
<1> HIDE DEF T, fields
<1>3. inits \in Seq(Seq(T))
  BY <1>2, FunctionIsSeq
<1>4. FieldStatements(i) = FlattenSeq(inits)
  BY DEF FieldStatements, fields
<1> HIDE DEF inits
<1>5. FlattenSeq(inits) \in Seq(T)
  BY <1>3, FlattenElements
<1> PICK statements : statements = FieldStatements(i)
  OBVIOUS
<1>6. statements \in Seq(T)
  BY <1>4, <1>5
<1>7. Len(statements) \in Nat /\ DOMAIN statements = 1..Len(statements)
      /\ \A n \in DOMAIN statements : statements[n] \in T
  BY <1>6
<1> QED BY <1>6, <1>7 DEF T

\* The pass over the bodies chains the constructors and resolves every call.
LEMMA DefinitionsEstablish ==
  ASSUME WellFormedProgram(syntax), HierarchyFacts, SymbolFacts, AnalyzeDefinitions, errors' = {},
         \A j \in InterfaceIds : ContractFacts(j, InterfaceIds)
  PROVE  Kept /\ DefinitionFacts' /\ files' = files
<1> DEFINE analyzed(s) == IF symbols[s].kind # "constructor" THEN symbols[s]
        ELSE [symbols[s] EXCEPT !.baseConstructor =
                BaseConstructor(symbols[s].file, InitializerOf(s)).target]
<1>1. /\ syntax' = syntax /\ files' = files
      /\ symbols' = [s \in DOMAIN symbols |-> analyzed(s)]
  BY DEF AnalyzeDefinitions
<1>2. /\ Len(symbols) \in Nat /\ DOMAIN symbols = 1..Len(symbols)
      /\ \A s \in DOMAIN symbols : WellTyped(symbols[s])
  BY DEF SymbolFacts
<1>3. \A s \in DOMAIN symbols : SameDeclaration(analyzed(s), symbols[s])
  BY <1>2 DEF WellTyped, SameDeclaration, SymbolFields
<1>4. Kept
  <2> DEFINE T == {analyzed(s) : s \in DOMAIN symbols}
  <2>1. symbols' \in [1..Len(symbols) -> T]
    BY <1>1, <1>2
  <2>2. DOMAIN symbols' = DOMAIN symbols /\ \A s \in DOMAIN symbols : symbols'[s] = analyzed(s)
    BY <1>1
  <2> HIDE DEF T, analyzed
  <2>3. symbols' \in Seq(T) /\ Len(symbols') = Len(symbols)
    BY <1>2, <2>1, FunctionIsSeq
  <2> PICK sy : sy = symbols'
    OBVIOUS
  <2>4. sy \in Seq({sy[n] : n \in DOMAIN sy})
    BY <2>3, SeqOfValues
  <2>5. \A i \in FileIds : FileKept(i)
    BY <1>1 DEF FileKept, HierarchyFacts, FileTyped
  <2>6. \A s \in DOMAIN symbols : SameDeclaration(symbols'[s], symbols[s])
    BY <1>3, <2>2
  <2>7. DOMAIN files' = FileIds
    BY <1>1 DEF HierarchyFacts
  <2>8. symbols' \in Seq({symbols'[s] : s \in DOMAIN symbols'})
    BY <2>4
  <2> QED BY <1>1, <2>2, <2>3, <2>5, <2>6, <2>7, <2>8 DEF Kept
<1>5. FileIds' = FileIds
  BY <1>4, DeclarationsKept
<1>6. ASSUME NEW s \in DOMAIN symbols, symbols[s].declared
      PROVE  (StatementsAllowed(symbols[s].file, symbols[s].body))'
  <2>1. symbols'[s].file = symbols[s].file /\ symbols'[s].body = symbols[s].body
    BY <1>4 DEF Kept, SameDeclaration
  <2> PICK i : i = symbols[s].file
    OBVIOUS
  <2> PICK body : body = symbols[s].body
    OBVIOUS
  <2>2. i \in FileIds /\ body \in Seq(StatementsOf(syntax))
    BY <1>2 DEF WellTyped
  <2>3. <<"statement", i>> \notin errors'
    OBVIOUS
  <2>4. ASSUME NEW n \in DOMAIN body PROVE StatementAllowed(i, body[n])'
    <3> PICK st : st = body[n]
      OBVIOUS
    <3>1. st \in StatementsOf(syntax)
      BY <2>2
    <3>2. StatementAllowed(i, st)
      <4>1. ~\E m \in DOMAIN symbols[s].body :
               ~StatementAllowed(symbols[s].file, symbols[s].body[m])
        BY <1>6, <2>3 DEF AnalyzeDefinitions
      <4> QED BY <2>4, <4>1
    <3>3. StatementAllowed(i, st)' = StatementAllowed(i, st)
      BY <1>4, <2>2, <3>1, StatementKept
    <3> QED BY <3>2, <3>3
  <2>5. i = symbols'[s].file /\ body = symbols'[s].body
    BY <2>1
  <2> QED BY <2>4, <2>5 DEF StatementsAllowed
<1>7. ASSUME NEW i \in FileIds PROVE StatementsAllowed(i, FieldStatements(i))'
  <2> PICK body : body = FieldStatements(i)
    OBVIOUS
  <2>1. \A n \in DOMAIN body : body[n] \in StatementsOf(syntax)
    BY StatementsTyped
  <2>2. <<"statement", i>> \notin errors'
    OBVIOUS
  <2>3. \A st \in ToSet(body) : StatementAllowed(i, st)
    BY <2>2 DEF AnalyzeDefinitions
  <2>4. ASSUME NEW n \in DOMAIN body PROVE StatementAllowed(i, body[n])'
    <3> PICK st : st = body[n]
      OBVIOUS
    <3>1. StatementAllowed(i, st)
      BY <2>3, <2>4 DEF ToSet
    <3>2. StatementAllowed(i, st)' = StatementAllowed(i, st)
      BY <1>4, <2>1, StatementKept
    <3> QED BY <3>1, <3>2
  <2>5. body = FieldStatements(i)'
    BY <1>1 DEF FieldStatements
  <2> QED BY <2>4, <2>5 DEF StatementsAllowed
<1>8. ASSUME NEW i \in FileIds PROVE ConstructorChained(i)'
  <2> SUFFICES ASSUME files[i].constructor # 0 PROVE ConstructorChained(i)'
    BY <1>1 DEF ConstructorChained
  <2> PICK c : c = files[i].constructor
    OBVIOUS
  <2> PICK init : init = InitializerOf(c)
    OBVIOUS
  <2>1. c \in DOMAIN symbols /\ symbols[c].kind = "constructor" /\ symbols[c].file = i
    BY DEF SymbolFacts, ConstructorRegistered
  <2>2. symbols'[c].baseConstructor = BaseConstructor(i, init).target
    <3>1. symbols'[c] = [symbols[c] EXCEPT !.baseConstructor = BaseConstructor(symbols[c].file, init).target]
      BY <1>1, <2>1
    <3>2. DOMAIN symbols[c] = SymbolFields
      BY <1>2, <2>1 DEF WellTyped
    <3> QED BY <2>1, <3>1, <3>2 DEF SymbolFields
  <2>3. BaseConstructor(i, init).ok
    <3>1. <<"initializer", i>> \notin errors'
      OBVIOUS
    <3> QED BY <2>1, <3>1 DEF AnalyzeDefinitions
  <2>4. BaseConstructor(i, init).target = IF files[i].base = 0 THEN 0 ELSE files[files[i].base].constructor
    BY <2>3 DEF BaseConstructor
  <2>5. files[i].base # 0 => files[files[i].base].constructor # 0
    BY <2>3 DEF BaseConstructor
  <2> QED BY <1>1, <2>2, <2>4, <2>5 DEF ConstructorChained
<1>9. DefinitionFacts'
  <2>1. DOMAIN symbols' = DOMAIN symbols /\ \A s \in DOMAIN symbols : symbols'[s].declared = symbols[s].declared
    BY <1>4 DEF Kept, SameDeclaration
  <2>2. ASSUME NEW s \in DOMAIN symbols PROVE BaseConstructorDeclared(s)'
    <3> PICK b : b = files[symbols[s].file].base
      OBVIOUS
    <3> PICK target : target = symbols'[s].baseConstructor
      OBVIOUS
    <3>1. DOMAIN symbols[s] = SymbolFields /\ symbols[s].file \in FileIds
          /\ (symbols[s].kind # "constructor" => symbols[s].baseConstructor = 0)
      BY <1>2 DEF WellTyped
    <3>2. target # 0 => b # 0 /\ target = files[b].constructor
      <4>1. CASE symbols[s].kind # "constructor"
        BY <1>1, <3>1, <4>1
      <4>2. CASE symbols[s].kind = "constructor"
        <5>1. target = BaseConstructor(symbols[s].file, InitializerOf(s)).target
          BY <1>1, <3>1, <4>2 DEF SymbolFields
        <5> QED BY <5>1 DEF BaseConstructor
      <4> QED BY <4>1, <4>2
    <3>3. b # 0 => b \in FileIds
      BY <3>1, ProgramTyped DEF HierarchyFacts, FileTyped
    <3>4. target # 0 => target \in DOMAIN symbols /\ symbols[target].declared
      BY <3>2, <3>3 DEF SymbolFacts, ConstructorRegistered
    <3> QED BY <2>1, <3>4 DEF BaseConstructorDeclared
  <2> QED BY <1>5, <1>6, <1>7, <1>8, <2>1, <2>2 DEF DefinitionFacts
<1> QED BY <1>1, <1>4, <1>9

\* Later passes leave what the bodies call.
LEMMA DefinitionsKept ==
  ASSUME WellFormedProgram(syntax), HierarchyFacts, SymbolFacts, Kept, DefinitionFacts,
         \A j \in InterfaceIds : ContractFacts(j, InterfaceIds),
         \A s \in DOMAIN symbols : symbols'[s].baseConstructor = symbols[s].baseConstructor
  PROVE  DefinitionFacts'
<1>1. FileIds' = FileIds /\ syntax' = syntax
  BY DeclarationsKept DEF Kept
<1>2. ASSUME NEW s \in DOMAIN symbols, symbols[s].declared
      PROVE  (StatementsAllowed(symbols[s].file, symbols[s].body))'
  <2> PICK i : i = symbols[s].file
    OBVIOUS
  <2> PICK body : body = symbols[s].body
    OBVIOUS
  <2>1. i \in FileIds /\ body \in Seq(StatementsOf(syntax))
    BY DEF SymbolFacts, WellTyped
  <2>2. ASSUME NEW n \in DOMAIN body PROVE StatementAllowed(i, body[n])'
    <3> PICK st : st = body[n]
      OBVIOUS
    <3>1. StatementAllowed(i, st)
      BY <1>2, <2>2 DEF DefinitionFacts, StatementsAllowed
    <3>2. st \in StatementsOf(syntax)
      BY <2>1
    <3>3. StatementAllowed(i, st)' = StatementAllowed(i, st)
      BY <2>1, <3>2, StatementKept
    <3> QED BY <3>1, <3>3
  <2>3. i = symbols'[s].file /\ body = symbols'[s].body
    BY DEF Kept, SameDeclaration
  <2> QED BY <2>2, <2>3 DEF StatementsAllowed
<1>3. ASSUME NEW i \in FileIds PROVE StatementsAllowed(i, FieldStatements(i))'
  <2> PICK body : body = FieldStatements(i)
    OBVIOUS
  <2>1. \A n \in DOMAIN body : body[n] \in StatementsOf(syntax)
    BY StatementsTyped
  <2>2. ASSUME NEW n \in DOMAIN body PROVE StatementAllowed(i, body[n])'
    <3> PICK st : st = body[n]
      OBVIOUS
    <3>1. StatementAllowed(i, st)
      BY <2>2 DEF DefinitionFacts, StatementsAllowed
    <3>2. StatementAllowed(i, st)' = StatementAllowed(i, st)
      BY <2>1, StatementKept
    <3> QED BY <3>1, <3>2
  <2>3. body = FieldStatements(i)'
    BY <1>1 DEF FieldStatements
  <2> QED BY <2>2, <2>3 DEF StatementsAllowed
<1>4. ASSUME NEW i \in FileIds PROVE ConstructorChained(i)'
  <2>1. files'[i].constructor = files[i].constructor /\ files'[i].base = files[i].base
        /\ (files[i].base # 0 => files'[files[i].base].constructor = files[files[i].base].constructor)
    <3>1. files[i].base # 0 => files[i].base \in FileIds
      BY ProgramTyped DEF HierarchyFacts, FileTyped
    <3> QED BY <3>1 DEF Kept, FileKept
  <2>2. files[i].constructor # 0 => files[i].constructor \in DOMAIN symbols
    BY DEF SymbolFacts, ConstructorRegistered
  <2>3. ConstructorChained(i)
    BY DEF DefinitionFacts
  <2> QED BY <2>1, <2>2, <2>3 DEF ConstructorChained
<1>5. DOMAIN symbols' = DOMAIN symbols /\ \A s \in DOMAIN symbols : symbols'[s].declared = symbols[s].declared
  BY DEF Kept, SameDeclaration
<1>6. \A s \in DOMAIN symbols : BaseConstructorDeclared(s)'
  BY <1>5 DEF DefinitionFacts, BaseConstructorDeclared
<1> QED BY <1>1, <1>2, <1>3, <1>4, <1>5, <1>6 DEF DefinitionFacts

-----------------------------------------------------------------------------
(* analyze_error_effects *)

\* Coverage is transitive.
LEMMA CoversTransitive ==
  ASSUME WellFormedProgram(syntax), HierarchyFacts, NEW A, NEW B, NEW C \in SUBSET Errors,
         ThrowsSetCovers(Bases, A, B), ThrowsSetCovers(Bases, B, C)
  PROVE  ThrowsSetCovers(Bases, A, C)
<1> SUFFICES ASSUME NEW z \in C PROVE \E x \in A : IsErrorSubtype(Bases, z, x)
  BY DEF ThrowsSetCovers
<1>1. PICK y \in B : IsErrorSubtype(Bases, z, y)
  BY DEF ThrowsSetCovers
<1>2. PICK x \in A : IsErrorSubtype(Bases, y, x)
  BY <1>1 DEF ThrowsSetCovers
<1>3. /\ TypeKind(z) = "error" /\ TypeKind(y) = "error" /\ TypeKind(x) = "error"
      /\ IsFileClassSubtype(Bases, z, y) /\ IsFileClassSubtype(Bases, y, x)
  BY <1>1, <1>2 DEF IsErrorSubtype
<1>4. IsFileClassSubtype(Bases, z, x)
  <2>1. CASE z = y \/ y = x \/ x = RootError
    BY <1>3, <2>1 DEF IsFileClassSubtype
  <2>2. CASE z # y /\ y # x /\ x # RootError
    <3>1. y.k = "file" /\ x.k = "file" /\ x.f \in Ancestors(Bases, y.f)
      BY <1>3, <2>2 DEF IsFileClassSubtype
    <3>2. z.k = "file" /\ y.f \in Ancestors(Bases, z.f)
      <4>1. RootError.k # "file"
        BY DEF RootError, Type
      <4> QED BY <1>3, <2>2, <3>1, <4>1 DEF IsFileClassSubtype
    <3>3. z.f \in 1..Len(Bases)
      <4>1. z.f \in FileIds
        BY <3>2 DEF Errors, TypesOf, ScalarNames, FileIds
      <4> QED BY <4>1, BasesLink DEF FileIds
    <3>4. x.f \in Ancestors(Bases, z.f)
      <4>1. LinkTable(Bases) /\ Grounded(Bases)
        BY BasesLink DEF HierarchyFacts
      <4> QED BY <3>1, <3>2, <3>3, <4>1, AncestorsTransitive
    <3>5. {TypeKind(z), TypeKind(x)} \subseteq {"class", "error"}
      BY <1>3
    <3> QED BY <3>1, <3>2, <3>4, <3>5 DEF IsFileClassSubtype
  <2> QED BY <2>1, <2>2
<1> QED BY <1>3, <1>4 DEF IsErrorSubtype

\* A set of errors covers its subsets.
LEMMA CoversSubset ==
  ASSUME NEW A, NEW B \in SUBSET A, B \in SUBSET Errors
  PROVE  ThrowsSetCovers(Bases, A, B)
BY DEF ThrowsSetCovers, IsErrorSubtype, IsFileClassSubtype, Errors

\* What normalize_error_set drops, what it keeps covers.
LEMMA NormalizedCovers ==
  ASSUME WellFormedProgram(syntax), HierarchyFacts, NEW S \in SUBSET Errors
  PROVE  /\ NormalizeErrorSet(Bases, S) \subseteq S
         /\ ThrowsSetCovers(Bases, NormalizeErrorSet(Bases, S), S)
<1> DEFINE kept == NormalizeErrorSet(Bases, S)
           Covered(t) == \E p \in kept : IsErrorSubtype(Bases, t, p)
           Lost == {i \in FileIds : File(i) \in S /\ ~Covered(File(i))}
           Bad == {i \in FileIds : Ancestors(Bases, i) \cap Lost # {}}
<1>1. kept = {t \in S : ~\E o \in S : o # t /\ IsErrorSubtype(Bases, t, o)}
  BY DEF NormalizeErrorSet
<1>2. \A t \in S : IsErrorSubtype(Bases, t, t)
  BY DEF IsErrorSubtype, IsFileClassSubtype, Errors
<1>3. \A t \in kept : Covered(t)
  BY <1>1, <1>2
<1>4. \A t \in S : \/ t \in {RootError, DivisionByZero}
                   \/ t = File(t.f) /\ t.k = "file" /\ t.f \in FileIds /\ t.f # Obj
  BY NominalTypes DEF Errors
<1>5. RootError.k # "file" /\ DivisionByZero.k # "file" /\ \A i : File(i).k = "file" /\ File(i).f = i
  BY DEF RootError, DivisionByZero, File, Type
<1>6. \A t \in S, o \in S : o # t /\ IsErrorSubtype(Bases, t, o) =>
        o = RootError \/ (t.k = "file" /\ o.k = "file" /\ o.f \in Ancestors(Bases, t.f))
  BY DEF IsErrorSubtype, IsFileClassSubtype
<1>7. ASSUME RootError \in S PROVE \A t \in S : Covered(t)
  <2>1. RootError \in kept
    BY <1>1, <1>5, <1>6, <1>7
  <2>2. \A t \in S : IsErrorSubtype(Bases, t, RootError)
    BY <1>7 DEF IsErrorSubtype, IsFileClassSubtype, Errors
  <2> HIDE DEF kept
  <2> QED BY <2>1, <2>2
<1>8. ASSUME RootError \notin S PROVE \A t \in S : Covered(t)
  <2>1. DivisionByZero \in S => Covered(DivisionByZero)
    <3> SUFFICES ASSUME DivisionByZero \in S PROVE DivisionByZero \in kept
      BY <1>3
    <3> QED BY <1>1, <1>5, <1>6, <1>8
  <2>2. LinkTable(Bases) /\ Grounded(Bases) /\ FileIds = 1..Len(Bases)
    BY BasesLink DEF HierarchyFacts, FileIds
  <2>3. ASSUME NEW i \in Lost PROVE \E j \in Lost : j \in Ancestors(Bases, i)
    <3>1. File(i) \in S /\ ~Covered(File(i)) /\ i \in FileIds
      OBVIOUS
    <3> HIDE DEF Lost
    <3>2. PICK o \in S : o # File(i) /\ IsErrorSubtype(Bases, File(i), o)
      BY <1>1, <1>3, <3>1
    <3>3. o.k = "file" /\ o.f \in Ancestors(Bases, i)
      BY <1>5, <1>6, <1>8, <3>1, <3>2
    <3>4. o = File(o.f) /\ o.f \in FileIds
      BY <1>4, <1>5, <3>3
    <3>5. ~Covered(o)
      <4> SUFFICES ASSUME NEW p \in kept, IsErrorSubtype(Bases, o, p) PROVE FALSE
        OBVIOUS
      <4>1. ThrowsSetCovers(Bases, {o}, {File(i)}) /\ ThrowsSetCovers(Bases, {p}, {o})
        BY <3>2 DEF ThrowsSetCovers
      <4>2. {File(i)} \in SUBSET Errors
        BY <3>1
      <4>3. ThrowsSetCovers(Bases, {p}, {File(i)})
        BY <4>1, <4>2, CoversTransitive
      <4>4. IsErrorSubtype(Bases, File(i), p)
        BY <4>3 DEF ThrowsSetCovers
      <4> HIDE DEF kept
      <4> QED BY <3>1, <4>4
    <3>6. o.f \in Lost
      BY <3>4, <3>5 DEF Lost
    <3> QED BY <3>3, <3>6
  <2>4. ASSUME NEW i \in Bad PROVE Bases[i] \in Bad
    <3> HIDE DEF Lost
    <3>1. PICK j \in Lost : j \in Ancestors(Bases, i)
      OBVIOUS
    <3>2. i \in 1..Len(Bases)
      BY <2>2
    <3>3. Ancestors(Bases, i) = IF Bases[i] = 0 THEN {} ELSE {Bases[i]} \cup Ancestors(Bases, Bases[i])
      BY <2>2, <3>2, AncestorsStep
    <3>4. Bases[i] # 0 /\ Bases[i] \in FileIds
      BY <2>2, <3>1, <3>2, <3>3 DEF LinkTable
    <3>5. j = Bases[i] => Ancestors(Bases, Bases[i]) \cap Lost # {}
      BY <2>3, <3>1
    <3>6. j \in Ancestors(Bases, Bases[i]) => Ancestors(Bases, Bases[i]) \cap Lost # {}
      BY <3>1
    <3> QED BY <3>1, <3>3, <3>4, <3>5, <3>6
  <2>5. Bad = {}
    <3>1. Bad \in SUBSET (1..Len(Bases))
      BY <2>2
    <3> HIDE DEF Bad
    <3> QED BY <2>2, <2>4, <3>1 DEF Grounded
  <2>6. Lost = {}
    <3> SUFFICES ASSUME NEW i \in Lost PROVE FALSE
      OBVIOUS
    <3>1. i \in FileIds
      OBVIOUS
    <3> HIDE DEF Lost
    <3>2. i \in Bad
      BY <2>3, <3>1
    <3> HIDE DEF Bad
    <3> QED BY <2>5, <3>2
  <2>7. ASSUME NEW t \in S, t = File(t.f), t.f \in FileIds PROVE Covered(t)
    <3>1. t.f \notin Lost
      <4> HIDE DEF Lost
      <4> QED BY <2>6
    <3> HIDE DEF kept
    <3> QED BY <2>7, <3>1
  <2> HIDE DEF kept
  <2> QED BY <1>4, <1>8, <2>1, <2>7
<1>9. \A t \in S : Covered(t)
  BY <1>7, <1>8
<1> HIDE DEF kept
<1> QED BY <1>1, <1>9 DEF ThrowsSetCovers, kept

\* A call that is not refused names a symbol.
LEMMA CalleeIsSymbol ==
  ASSUME WellFormedProgram(syntax), HierarchyFacts, SymbolFacts,
         \A j \in InterfaceIds : ContractFacts(j, InterfaceIds),
         NEW i \in FileIds, NEW st \in StatementsOf(syntax), Callee(i, st) # 0
  PROVE  Callee(i, st) \in DOMAIN symbols
<1>1. \A j \in FileIds : \A from : FindMember(j, st.name, from) # 0 => FindMember(j, st.name, from) \in DOMAIN symbols
  BY MemberFound
<1>2. Obj \in FileIds /\ files[i].base \in 0..Len(syntax) /\ FileIds = 1..Len(syntax)
  BY ProgramTyped DEF HierarchyFacts, FileTyped
<1>3. CASE st.op = "call"
  <2> PICK t : t = st.t
    OBVIOUS
  <2>1. t \in TypesOf(syntax)
    BY DEF StatementsOf
  <2>2. t.k = "file" => t.f \in FileIds
    BY <2>1 DEF TypesOf, FileIds, ScalarNames
  <2>3. TypeKind(t) = "interface" /\ ContractNamed(t.f, st.name) # {} =>
          OneOf(ContractNamed(t.f, st.name)) \in DOMAIN symbols
    <3> SUFFICES ASSUME TypeKind(t) = "interface", ContractNamed(t.f, st.name) # {}
                 PROVE  OneOf(ContractNamed(t.f, st.name)) \in DOMAIN symbols
      OBVIOUS
    <3>1. t.f \in InterfaceIds
      BY <2>1, NominalTypes DEF InterfaceIds, IsInterface
    <3>2. ContractNamed(t.f, st.name) \subseteq DOMAIN symbols
      BY <3>1 DEF ContractFacts, PublicInstance, ContractNamed
    <3> QED BY <3>2 DEF OneOf
  <2>4. Callee(i, st) = MemberOf(t, st.name, i)
    BY <1>3 DEF Callee
  <2>5. \/ TypeKind(t) = "interface" /\ ContractNamed(t.f, st.name) # {}
           /\ Callee(i, st) = OneOf(ContractNamed(t.f, st.name))
        \/ t.k = "file" /\ Callee(i, st) = FindMember(t.f, st.name, i)
        \/ Callee(i, st) = FindMember(Obj, st.name, 0)
    BY <2>4 DEF MemberOf
  <2> QED BY <1>1, <1>2, <2>2, <2>3, <2>5
<1>4. CASE st.op = "self"
  BY <1>1, <1>4 DEF Callee
<1>5. CASE st.op \notin {"call", "self"}
  <2>1. files[i].base # 0 /\ Callee(i, st) = FindMember(files[i].base, st.name, i)
    BY <1>5 DEF Callee
  <2> QED BY <1>1, <1>2, <2>1
<1> QED BY <1>3, <1>4, <1>5

\* The statements of a callable are allowed.
LEMMA StatementsOfCallable ==
  ASSUME Resolved, NEW s \in Callables
  PROVE  /\ symbols[s].file \in FileIds
         /\ \A st \in ToSet(Statements(s)) :
              st \in StatementsOf(syntax) /\ StatementAllowed(symbols[s].file, st)
<1> PICK owner : owner = symbols[s].file
  OBVIOUS
<1>1. /\ WellFormedProgram(syntax) /\ SymbolFacts /\ DefinitionFacts
      /\ owner \in FileIds /\ symbols[s].body \in Seq(StatementsOf(syntax))
  BY DEF Resolved, SymbolFacts, WellTyped, Callables
<1>2. /\ StatementsAllowed(owner, FieldStatements(owner)) /\ StatementsAllowed(owner, symbols[s].body)
      /\ FieldStatements(owner) \in Seq(StatementsOf(syntax))
  BY <1>1, StatementsTyped DEF DefinitionFacts, Callables
<1> PICK rest : rest = IF symbols[s].kind = "constructor" THEN FieldStatements(owner) ELSE <<>>
  OBVIOUS
<1> PICK first : first = symbols[s].body
  OBVIOUS
<1>3. first \in Seq(StatementsOf(syntax)) /\ rest \in Seq(StatementsOf(syntax))
      /\ StatementsAllowed(owner, first) /\ StatementsAllowed(owner, rest)
  <2>1. <<>> \in Seq(StatementsOf(syntax)) /\ StatementsAllowed(owner, <<>>)
    BY DEF StatementsAllowed
  <2> QED BY <1>1, <1>2, <2>1
<1>4. Statements(s) = first \o rest
  BY DEF Statements
<1> SUFFICES ASSUME NEW st \in ToSet(Statements(s))
             PROVE  st \in StatementsOf(syntax) /\ StatementAllowed(owner, st)
  BY <1>1
<1>5. (\E m \in DOMAIN first : st = first[m]) \/ (\E m \in DOMAIN rest : st = rest[m])
  <2> PICK T : T = StatementsOf(syntax)
    OBVIOUS
  <2>1. PICK n \in DOMAIN (first \o rest) : st = (first \o rest)[n]
    BY <1>4 DEF ToSet
  <2>2. first \in Seq(T) /\ rest \in Seq(T)
    BY <1>3
  <2> QED BY ONLY <2>1, <2>2
<1>6. StatementAllowed(owner, st)
  BY <1>3, <1>5 DEF StatementsAllowed
<1>7. st \in StatementsOf(syntax)
  <2> PICK T : T = StatementsOf(syntax)
    OBVIOUS
  <2>1. first \in Seq(T) /\ rest \in Seq(T)
    BY <1>3
  <2>2. (\A m \in DOMAIN first : first[m] \in T) /\ (\A m \in DOMAIN rest : rest[m] \in T)
    BY ONLY <2>1
  <2> QED BY <1>5, <2>2
<1> QED BY <1>6, <1>7

\* So what it throws are errors and what it calls are symbols.
LEMMA EffectsTyped ==
  ASSUME Resolved, NEW s \in Callables
  PROVE  /\ DirectErrors(s) \subseteq Errors
         /\ CalledSymbols(s) \subseteq DOMAIN symbols
         /\ \A c \in CalledSymbols(s) : symbols[c].throws \subseteq Errors
<1>1. /\ WellFormedProgram(syntax) /\ HierarchyFacts /\ SymbolFacts /\ DefinitionFacts
      /\ \A i \in InterfaceIds : ContractFacts(i, InterfaceIds) 
  BY DEF Resolved
<1>2. DirectErrors(s) \subseteq Errors
  <2> SUFFICES ASSUME NEW st \in ToSet(Statements(s)), st.op = "throw" PROVE st.t \in Errors
    BY DEF DirectErrors
  <2>1. st \in StatementsOf(syntax) /\ StatementAllowed(symbols[s].file, st)
    BY StatementsOfCallable
  <2> QED BY <2>1 DEF StatementAllowed, Errors, StatementsOf
<1>3. CalledSymbols(s) \subseteq DOMAIN symbols
  <2>1. ASSUME NEW st \in ToSet(Statements(s)), Callee(symbols[s].file, st) # 0
        PROVE  Callee(symbols[s].file, st) \in DOMAIN symbols
    <3>1. st \in StatementsOf(syntax) /\ symbols[s].file \in FileIds
      BY StatementsOfCallable
    <3> QED BY <1>1, <2>1, <3>1, CalleeIsSymbol
  <2>2. symbols[s].baseConstructor # 0 => symbols[s].baseConstructor \in DOMAIN symbols
    BY <1>1 DEF DefinitionFacts, BaseConstructorDeclared, Callables
  <2> QED BY <2>1, <2>2 DEF CalledSymbols
<1>4. \A c \in DOMAIN symbols : symbols[c].throws \subseteq Errors
  BY <1>1 DEF SymbolFacts, WellTyped, IsError, Errors
<1> QED BY <1>2, <1>3, <1>4

-----------------------------------------------------------------------------
(* The fixpoint of the inferred sets. *)

\* What a callable lets escape whatever is inferred, and with what inf says of
\* the inferred callables it calls.
BaseEffects(s) ==
  DirectErrors(s) \cup UNION {symbols[c].throws : c \in CalledSymbols(s) \ InferredIds}
RawEffects(inf, s) ==
  BaseEffects(s) \cup UNION {inf[c] : c \in CalledSymbols(s) \cap InferredIds}
Inferring == [InferredIds -> SUBSET Errors]

\* Sets that claim no more than the callables let escape.
Grows(inf) == \A s \in InferredIds : ThrowsSetCovers(Bases, RawEffects(inf, s), inf[s])
\* more covers what inf does.
Extends(more, inf) == \A s \in InferredIds : ThrowsSetCovers(Bases, more[s], inf[s])
\* Callables that an error t spreads to from no other.
ClosedFor(t, K) ==
  \A s \in InferredIds :
    t \in BaseEffects(s) \/ (\E c \in CalledSymbols(s) \cap InferredIds : c \in K) => s \in K
Within(inf, t, K) == \A s \in InferredIds : t \in inf[s] => s \in K

\* source_effects covers what it normalizes.
LEMMA SourceEffectsCover ==
  ASSUME Resolved, NEW inf \in Inferring, NEW s \in Callables
  PROVE  /\ RawEffects(inf, s) \subseteq Errors
         /\ SourceEffects(inf, s) = NormalizeErrorSet(Bases, RawEffects(inf, s))
         /\ SourceEffects(inf, s) \subseteq RawEffects(inf, s)
         /\ ThrowsSetCovers(Bases, SourceEffects(inf, s), RawEffects(inf, s))
<1>1. RawEffects(inf, s) \subseteq Errors
  BY EffectsTyped DEF RawEffects, BaseEffects, Inferring
<1>2. DOMAIN inf = InferredIds
  BY DEF Inferring
<1> DEFINE all == {IF c \in DOMAIN inf THEN inf[c] ELSE symbols[c].throws : c \in CalledSymbols(s)}
<1>3. DirectErrors(s) \cup UNION all = RawEffects(inf, s)
  <2>1. UNION all = (UNION {symbols[c].throws : c \in CalledSymbols(s) \ InferredIds})
                      \cup UNION {inf[c] : c \in CalledSymbols(s) \cap InferredIds}
    BY <1>2
  <2> QED BY <2>1 DEF RawEffects, BaseEffects
<1>4. SourceEffects(inf, s) = NormalizeErrorSet(Bases, RawEffects(inf, s))
  BY <1>3 DEF SourceEffects
<1> QED BY <1>1, <1>4, NormalizedCovers DEF Resolved

\* More is raw where more is inferred.
LEMMA RawGrows ==
  ASSUME Resolved, NEW inf \in Inferring, NEW more \in Inferring, Extends(more, inf),
         NEW s \in Callables
  PROVE  ThrowsSetCovers(Bases, RawEffects(more, s), RawEffects(inf, s))
<1> SUFFICES ASSUME NEW t \in RawEffects(inf, s)
             PROVE  \E p \in RawEffects(more, s) : IsErrorSubtype(Bases, t, p)
  BY DEF ThrowsSetCovers
<1>1. t \in Errors
  BY SourceEffectsCover
<1>2. CASE t \in BaseEffects(s)
  BY <1>1, <1>2 DEF RawEffects, IsErrorSubtype, IsFileClassSubtype, Errors
<1>3. CASE \E c \in CalledSymbols(s) \cap InferredIds : t \in inf[c]
  <2>1. PICK c \in CalledSymbols(s) \cap InferredIds : t \in inf[c]
    BY <1>3
  <2>2. PICK p \in more[c] : IsErrorSubtype(Bases, t, p)
    BY <2>1 DEF Extends, ThrowsSetCovers
  <2> QED BY <2>1, <2>2 DEF RawEffects
<1> QED BY <1>2, <1>3 DEF RawEffects

\* One set of a round.
LEMMA UpdateGrows ==
  ASSUME Resolved, NEW inf \in Inferring, Grows(inf), NEW s \in InferredIds,
         NEW more, more = [inf EXCEPT ![s] = SourceEffects(inf, s)]
  PROVE  /\ more \in Inferring /\ Grows(more) /\ Extends(more, inf)
         /\ ThrowsSetCovers(Bases, more[s], RawEffects(inf, s))
         /\ \A t, K : ClosedFor(t, K) /\ Within(inf, t, K) => Within(more, t, K)
<1>1. WellFormedProgram(syntax) /\ HierarchyFacts /\ \A u \in InferredIds : u \in Callables
  BY DEF Resolved, InferredIds, Callables
<1>2. /\ RawEffects(inf, s) \subseteq Errors
      /\ SourceEffects(inf, s) \subseteq RawEffects(inf, s)
      /\ ThrowsSetCovers(Bases, SourceEffects(inf, s), RawEffects(inf, s))
  BY <1>1, SourceEffectsCover
<1>3. /\ more \in Inferring /\ more[s] = SourceEffects(inf, s)
      /\ \A u \in InferredIds : u # s => more[u] = inf[u]
  BY <1>2 DEF Inferring
<1>4. \A u \in InferredIds : inf[u] \in SUBSET Errors /\ more[u] \in SUBSET Errors
  BY <1>3 DEF Inferring
<1>5. Extends(more, inf)
  <2>1. ThrowsSetCovers(Bases, more[s], inf[s])
    <3>1. ThrowsSetCovers(Bases, RawEffects(inf, s), inf[s])
      BY DEF Grows
    <3> QED BY <1>1, <1>2, <1>3, <1>4, <3>1, CoversTransitive
  <2>2. \A u \in InferredIds : u # s => ThrowsSetCovers(Bases, more[u], inf[u])
    BY <1>3, <1>4, CoversSubset
  <2> QED BY <2>1, <2>2 DEF Extends
<1>6. ASSUME NEW u \in InferredIds PROVE ThrowsSetCovers(Bases, RawEffects(more, u), more[u])
  <2>1. ThrowsSetCovers(Bases, RawEffects(more, u), RawEffects(inf, u))
    BY <1>1, <1>3, <1>5, RawGrows
  <2>2. ThrowsSetCovers(Bases, RawEffects(inf, u), more[u])
    <3>1. CASE u = s
      <4>1. more[s] \in SUBSET RawEffects(inf, s)
        BY <1>2, <1>3
      <4> QED BY <1>4, <3>1, <4>1, CoversSubset
    <3>2. CASE u # s
      BY <1>3, <3>2 DEF Grows
    <3> QED BY <3>1, <3>2
  <2>3. more[u] \in SUBSET Errors
    BY <1>4
  <2> QED BY <1>1, <2>1, <2>2, <2>3, CoversTransitive
<1>7. ASSUME NEW t, NEW K, ClosedFor(t, K), Within(inf, t, K) PROVE Within(more, t, K)
  <2> SUFFICES ASSUME NEW u \in InferredIds, t \in more[u] PROVE u \in K
    BY DEF Within
  <2>1. CASE u # s
    BY <1>3, <1>7, <2>1 DEF Within
  <2>2. CASE u = s
    <3>1. t \in RawEffects(inf, s)
      BY <1>2, <1>3, <2>2
    <3> QED BY <1>7, <2>2, <3>1 DEF RawEffects, ClosedFor, Within
  <2> QED BY <2>1, <2>2
<1> QED BY <1>2, <1>3, <1>5, <1>6, <1>7 DEF Grows

\* A round is a loop over the symbols.
LEMMA RoundUnfolds ==
  ASSUME Resolved, NEW inf \in Inferring
  PROVE  \E upto \in [Nat -> Inferring] :
           /\ upto[0] = inf
           /\ \A k \in Nat : upto[k + 1] =
                IF k + 1 \in InferredIds
                THEN [upto[k] EXCEPT ![k + 1] = SourceEffects(upto[k], k + 1)] ELSE upto[k]
           /\ EffectsRound(inf) = upto[Len(symbols)]
<1> DEFINE Update(v, s) == IF s \in InferredIds THEN [v EXCEPT ![s] = SourceEffects(v, s)] ELSE v
           step == [x \in Nat \X Inferring |-> Update(x[2], x[1])]
           Loop(u) == u = [s \in Nat |-> IF s = 0 THEN inf ELSE Update(u[s - 1], s)]
           loop == CHOOSE u : Loop(u)
<1>1. ASSUME NEW v \in Inferring, NEW s \in Nat PROVE Update(v, s) \in Inferring
  <2>1. CASE s \in InferredIds
    <3>1. s \in Callables
      BY <2>1 DEF InferredIds, Callables
    <3>2. SourceEffects(v, s) \in SUBSET Errors
      BY <3>1, SourceEffectsCover
    <3> QED BY <2>1, <3>2 DEF Inferring
  <2> QED BY <2>1
<1>2. step \in [Nat \X Inferring -> Inferring]
  <2> HIDE DEF Update
  <2> QED BY <1>1
<1> HIDE DEF Update
<1>3. PICK f \in [Nat -> Inferring] : f[0] = inf /\ \A k \in Nat : f[k + 1] = step[<<k + 1, f[k]>>]
  <2>1. inf \in Inferring
    OBVIOUS
  <2> HIDE DEF step
  <2>2. \E f : LoopOf(f, Inferring, inf, step)
    BY ONLY <1>2, <2>1, LoopExists
  <2> QED BY <2>2 DEF LoopOf
<1>4. \A k \in Nat : f[k + 1] = Update(f[k], k + 1)
  <2> SUFFICES ASSUME NEW k \in Nat PROVE f[k + 1] = Update(f[k], k + 1)
    OBVIOUS
  <2>1. f[k] \in Inferring /\ k + 1 \in Nat
    OBVIOUS
  <2>2. <<k + 1, f[k]>> \in Nat \X Inferring
    BY <2>1
  <2>3. step[<<k + 1, f[k]>>] = Update(f[k], k + 1)
    BY <2>2
  <2>4. f[k + 1] = step[<<k + 1, f[k]>>]
    BY <1>3
  <2> QED BY <2>3, <2>4
<1>5. Loop(f)
  <2>1. \A s \in Nat : f[s] = IF s = 0 THEN inf ELSE Update(f[s - 1], s)
    <3> SUFFICES ASSUME NEW s \in Nat, s # 0 PROVE f[s] = Update(f[s - 1], s)
      BY <1>3
    <3>1. s - 1 \in Nat /\ (s - 1) + 1 = s
      OBVIOUS
    <3> QED BY <1>4, <3>1
  <2> QED BY <2>1
<1>6. Loop(loop)
  <2> HIDE DEF Loop
  <2> QED BY <1>5
<1>7. \A k \in Nat : loop[k] = f[k]
  <2> DEFINE S == {k \in Nat : loop[k] # f[k]}
  <2>1. loop[0] = inf /\ \A k \in Nat : loop[k + 1] = Update(loop[k], k + 1)
    <3> PICK u : u = loop
      OBVIOUS
    <3>1. u = [s \in Nat |-> IF s = 0 THEN inf ELSE Update(u[s - 1], s)]
      BY <1>6
    <3>2. ASSUME NEW k \in Nat PROVE u[k + 1] = Update(u[k], k + 1)
      <4>1. k + 1 \in Nat /\ k + 1 # 0 /\ (k + 1) - 1 = k
        OBVIOUS
      <4> QED BY <3>1, <4>1
    <3>3. u[0] = inf
      BY <3>1
    <3> HIDE DEF loop
    <3> QED BY <3>2, <3>3
  <2> HIDE DEF loop
  <2>2. 0 \notin S
    BY <1>3, <2>1
  <2>3. ASSUME NEW k \in Nat, k + 1 \in S PROVE k \in S
    BY <1>4, <2>1, <2>3
  <2>4. S = {}
    <3>1. S \in SUBSET Nat
      OBVIOUS
    <3> HIDE DEF S
    <3> QED BY <2>2, <2>3, <3>1, NoException
  <2> QED BY <2>4
<1>8. EffectsRound(inf) = loop[Len(symbols)]
  BY DEF EffectsRound, Update
<1>9. Len(symbols) \in Nat
  BY DEF Resolved, SymbolFacts
<1> HIDE DEF loop
<1> QED BY <1>3, <1>4, <1>7, <1>8, <1>9 DEF Update

\* A round covers what it started from, and what that lets escape.
LEMMA RoundGrows ==
  ASSUME Resolved, NEW inf \in Inferring, Grows(inf)
  PROVE  /\ EffectsRound(inf) \in Inferring /\ Grows(EffectsRound(inf))
         /\ Extends(EffectsRound(inf), inf)
         /\ \A s \in InferredIds : ThrowsSetCovers(Bases, EffectsRound(inf)[s], RawEffects(inf, s))
         /\ \A t, K : ClosedFor(t, K) /\ Within(inf, t, K) => Within(EffectsRound(inf), t, K)
<1>1. PICK upto \in [Nat -> Inferring] :
        /\ upto[0] = inf
        /\ \A k \in Nat : upto[k + 1] =
             IF k + 1 \in InferredIds
             THEN [upto[k] EXCEPT ![k + 1] = SourceEffects(upto[k], k + 1)] ELSE upto[k]
        /\ EffectsRound(inf) = upto[Len(symbols)]
  BY RoundUnfolds
<1>2. /\ WellFormedProgram(syntax) /\ HierarchyFacts
      /\ Len(symbols) \in Nat /\ \A u \in InferredIds : u \in Callables /\ u \in 1..Len(symbols)
  BY DEF Resolved, SymbolFacts, InferredIds, Callables
<1> DEFINE Good(v, k) ==
             /\ v \in Inferring /\ Grows(v) /\ Extends(v, inf)
             /\ \A s \in InferredIds : s <= k => ThrowsSetCovers(Bases, v[s], RawEffects(inf, s))
             /\ \A t, K : ClosedFor(t, K) /\ Within(inf, t, K) => Within(v, t, K)
           S == {k \in Nat : ~Good(upto[k], k)}
<1>3. \A v \in Inferring : \A u \in InferredIds : v[u] \in SUBSET Errors
  BY DEF Inferring
<1>4. 0 \notin S
  <2>1. Extends(inf, inf)
    BY <1>3, CoversSubset DEF Extends
  <2> QED BY <1>1, <1>2, <2>1
<1>5. ASSUME NEW k \in Nat, Good(upto[k], k) PROVE Good(upto[k + 1], k + 1)
  <2> PICK v : v = upto[k]
    OBVIOUS
  <2> PICK w : w = upto[k + 1]
    OBVIOUS
  <2>1. v \in Inferring /\ Grows(v) /\ Extends(v, inf)
    BY <1>5
  <2>2. \A s \in InferredIds : s <= k => ThrowsSetCovers(Bases, v[s], RawEffects(inf, s))
    BY <1>5
  <2>3. \A t, K : ClosedFor(t, K) /\ Within(inf, t, K) => Within(v, t, K)
    BY <1>5
  <2> HIDE DEF Good
  <2> SUFFICES Good(w, k + 1)
    OBVIOUS
  <2>4. CASE k + 1 \notin InferredIds
    <3>1. w = v
      BY <1>1, <2>4
    <3>2. \A s \in InferredIds : s <= k + 1 => s <= k
      BY <1>2, <2>4
    <3>3. \A s \in InferredIds : s <= k + 1 => ThrowsSetCovers(Bases, v[s], RawEffects(inf, s))
      BY <2>2, <3>2
    <3> QED BY <2>1, <2>3, <3>1, <3>3 DEF Good
  <2>5. CASE k + 1 \in InferredIds
    <3> PICK u : u = k + 1
      OBVIOUS
    <3>1. w = [v EXCEPT ![u] = SourceEffects(v, u)] /\ u \in InferredIds
      BY <1>1, <2>5
    <3>2. /\ w \in Inferring /\ Grows(w) /\ Extends(w, v)
          /\ ThrowsSetCovers(Bases, w[u], RawEffects(v, u))
          /\ \A t, K : ClosedFor(t, K) /\ Within(v, t, K) => Within(w, t, K)
      BY <2>1, <3>1, UpdateGrows
    <3>3. ASSUME NEW s \in InferredIds PROVE ThrowsSetCovers(Bases, w[s], inf[s])
      <4>1. ThrowsSetCovers(Bases, w[s], v[s]) /\ ThrowsSetCovers(Bases, v[s], inf[s])
        BY <2>1, <3>2 DEF Extends
      <4> QED BY <1>2, <1>3, <4>1, CoversTransitive
    <3>4. ASSUME NEW s \in InferredIds, s <= k + 1
          PROVE  ThrowsSetCovers(Bases, w[s], RawEffects(inf, s))
      <4>0. RawEffects(inf, s) \in SUBSET Errors /\ s \in Callables
        BY <1>2, SourceEffectsCover
      <4>1. CASE s = u
        <5>1. ThrowsSetCovers(Bases, RawEffects(v, s), RawEffects(inf, s))
          BY <2>1, <4>0, RawGrows
        <5> QED BY <1>2, <3>2, <4>0, <4>1, <5>1, CoversTransitive
      <4>2. CASE s # u
        <5>1. s <= k
          BY <1>2, <3>4, <4>2
        <5>2. ThrowsSetCovers(Bases, w[s], v[s]) /\ ThrowsSetCovers(Bases, v[s], RawEffects(inf, s))
          BY <2>2, <3>2, <5>1 DEF Extends
        <5> QED BY <1>2, <4>0, <5>2, CoversTransitive
      <4> QED BY <4>1, <4>2
    <3>5. Extends(w, inf)
      BY <3>3 DEF Extends
    <3>6. \A t, K : ClosedFor(t, K) /\ Within(inf, t, K) => Within(w, t, K)
      BY <2>3, <3>2
    <3> QED BY <3>2, <3>4, <3>5, <3>6 DEF Good
  <2> QED BY <2>4, <2>5
<1>6. S = {}
  <2>1. S \in SUBSET Nat
    OBVIOUS
  <2>2. \A k \in Nat : k + 1 \in S => k \in S
    <3> HIDE DEF Good
    <3> QED BY <1>5
  <2> HIDE DEF S
  <2> QED BY <1>4, <2>1, <2>2, NoException
<1> PICK made : made = upto[Len(symbols)]
  OBVIOUS
<1> PICK last : last = Len(symbols)
  OBVIOUS
<1>7. Good(made, last)
  <2> HIDE DEF Good
  <2> QED BY <1>2, <1>6
<1>8. \A s \in InferredIds : s <= last
  BY <1>2
<1>9. \A s \in InferredIds : ThrowsSetCovers(Bases, made[s], RawEffects(inf, s))
  BY <1>7, <1>8
<1>10. EffectsRound(inf) = made
  BY <1>1
<1> QED BY <1>7, <1>9, <1>10

\* The rounds are a loop, too.
LEMMA RoundsUnfold ==
  ASSUME Resolved
  PROVE  \E round \in [Nat -> Inferring] :
           /\ round[0] = NoEffects
           /\ \A k \in Nat : round[k + 1] = EffectsRound(round[k])
           /\ InferredEffects = round[Cardinality(InferredIds) + 1]
           /\ \A k \in Nat : Grows(round[k])
<1> DEFINE V == {inf \in Inferring : Grows(inf)}
           step == [x \in Nat \X V |-> EffectsRound(x[2])]
           Loop(u) == u = [k \in Nat |-> IF k = 0 THEN NoEffects ELSE EffectsRound(u[k - 1])]
           loop == CHOOSE u : Loop(u)
<1>1. NoEffects \in V
  BY DEF NoEffects, Inferring, Grows, ThrowsSetCovers
<1>2. step \in [Nat \X V -> V]
  <2>1. \A inf \in V : EffectsRound(inf) \in V
    BY RoundGrows
  <2> HIDE DEF V
  <2> QED BY <2>1
<1>3. PICK f \in [Nat -> V] : f[0] = NoEffects /\ \A k \in Nat : f[k + 1] = step[<<k + 1, f[k]>>]
  <2> HIDE DEF step, V
  <2>1. \E f : LoopOf(f, V, NoEffects, step)
    BY ONLY <1>1, <1>2, LoopExists
  <2> QED BY <2>1 DEF LoopOf
<1>4. \A k \in Nat : f[k + 1] = EffectsRound(f[k])
  <2> HIDE DEF V
  <2> SUFFICES ASSUME NEW k \in Nat PROVE f[k + 1] = EffectsRound(f[k])
    OBVIOUS
  <2>1. f[k] \in V /\ k + 1 \in Nat
    OBVIOUS
  <2>2. <<k + 1, f[k]>> \in Nat \X V
    BY <2>1
  <2>3. step[<<k + 1, f[k]>>] = EffectsRound(f[k])
    BY <2>2
  <2>4. f[k + 1] = step[<<k + 1, f[k]>>]
    BY <1>3
  <2> QED BY <2>3, <2>4
<1>5. Loop(f)
  <2>1. \A s \in Nat : f[s] = IF s = 0 THEN NoEffects ELSE EffectsRound(f[s - 1])
    <3> SUFFICES ASSUME NEW s \in Nat, s # 0 PROVE f[s] = EffectsRound(f[s - 1])
      BY <1>3
    <3>1. s - 1 \in Nat /\ (s - 1) + 1 = s
      OBVIOUS
    <3> QED BY <1>4, <3>1
  <2> HIDE DEF V
  <2> QED BY <2>1
<1>6. Loop(loop)
  <2> HIDE DEF Loop
  <2> QED BY <1>5
<1>7. \A k \in Nat : loop[k] = f[k]
  <2> DEFINE S == {k \in Nat : loop[k] # f[k]}
  <2>1. loop[0] = NoEffects /\ \A k \in Nat : loop[k + 1] = EffectsRound(loop[k])
    <3> PICK u : u = loop
      OBVIOUS
    <3>1. u = [k \in Nat |-> IF k = 0 THEN NoEffects ELSE EffectsRound(u[k - 1])]
      BY <1>6
    <3>2. ASSUME NEW k \in Nat PROVE u[k + 1] = EffectsRound(u[k])
      <4>1. k + 1 \in Nat /\ k + 1 # 0 /\ (k + 1) - 1 = k
        OBVIOUS
      <4> QED BY <3>1, <4>1
    <3>3. u[0] = NoEffects
      BY <3>1
    <3> HIDE DEF loop
    <3> QED BY <3>2, <3>3
  <2> HIDE DEF loop
  <2>2. 0 \notin S
    BY <1>3, <2>1
  <2>3. ASSUME NEW k \in Nat, k + 1 \in S PROVE k \in S
    BY <1>4, <2>1, <2>3
  <2>4. S = {}
    <3>1. S \in SUBSET Nat
      OBVIOUS
    <3> HIDE DEF S
    <3> QED BY <2>2, <2>3, <3>1, NoException
  <2> QED BY <2>4
<1>8. InferredEffects = loop[Cardinality(InferredIds) + 1]
  BY DEF InferredEffects
<1>9. Cardinality(InferredIds) + 1 \in Nat
  <2>1. IsFiniteSet(1..Len(symbols)) /\ InferredIds \in SUBSET (1..Len(symbols))
    BY FS_Interval DEF Resolved, SymbolFacts, InferredIds
  <2>2. IsFiniteSet(InferredIds)
    BY <2>1, FS_Subset
  <2> QED BY <2>2, FS_CardinalityType
<1>10. f \in [Nat -> Inferring] /\ \A k \in Nat : Grows(f[k])
  <2>1. \A k \in Nat : f[k] \in V
    <3> HIDE DEF V
    <3> QED BY <1>3
  <2> QED BY <1>3, <2>1
<1> HIDE DEF loop, V
<1> QED BY <1>3, <1>4, <1>7, <1>8, <1>9, <1>10

\* The inferred sets cover what their callables let escape, with what is inferred
\* of the callables they call: the rounds are enough to reach a fixpoint.
LEMMA EffectsFixpoint ==
  ASSUME Resolved
  PROVE  /\ InferredEffects \in Inferring
         /\ \A s \in InferredIds :
              ThrowsSetCovers(Bases, InferredEffects[s], RawEffects(InferredEffects, s))
<1>1. PICK round \in [Nat -> Inferring] :
        /\ round[0] = NoEffects
        /\ \A k \in Nat : round[k + 1] = EffectsRound(round[k])
        /\ InferredEffects = round[Cardinality(InferredIds) + 1]
        /\ \A k \in Nat : Grows(round[k])
  BY RoundsUnfold
<1> PICK I : I = InferredIds
  OBVIOUS
<1> PICK n : n = Cardinality(InferredIds)
  OBVIOUS
<1>2. /\ WellFormedProgram(syntax) /\ HierarchyFacts
      /\ \A u \in InferredIds : u \in Callables
  BY DEF Resolved, InferredIds, Callables
<1>3. IsFiniteSet(InferredIds) /\ n \in Nat
  <2>1. IsFiniteSet(1..Len(symbols)) /\ InferredIds \in SUBSET (1..Len(symbols))
    BY FS_Interval DEF Resolved, SymbolFacts, InferredIds
  <2>2. IsFiniteSet(InferredIds)
    BY <2>1, FS_Subset
  <2> QED BY <2>2, FS_CardinalityType
<1>4. ASSUME NEW k \in Nat
      PROVE  /\ round[k] \in Inferring /\ round[k + 1] \in Inferring
             /\ Extends(round[k + 1], round[k])
             /\ \A s \in InferredIds :
                  ThrowsSetCovers(Bases, round[k + 1][s], RawEffects(round[k], s))
             /\ \A t, K : ClosedFor(t, K) /\ Within(round[k], t, K) => Within(round[k + 1], t, K)
  <2>1. round[k] \in Inferring /\ Grows(round[k]) /\ round[k + 1] = EffectsRound(round[k])
    BY <1>1
  <2> PICK inf : inf = round[k]
    OBVIOUS
  <2>2. /\ EffectsRound(inf) \in Inferring
        /\ Extends(EffectsRound(inf), inf)
        /\ \A s \in InferredIds : ThrowsSetCovers(Bases, EffectsRound(inf)[s], RawEffects(inf, s))
        /\ \A t, K : ClosedFor(t, K) /\ Within(inf, t, K) => Within(EffectsRound(inf), t, K)
    BY <2>1, RoundGrows
  <2> QED BY <2>1, <2>2
<1>5. \A k \in Nat : \A u \in InferredIds : round[k][u] \in SUBSET Errors
  BY <1>1 DEF Inferring
\* What covers t goes on covering it.
<1> DEFINE Covering(t, k) == {u \in InferredIds : ThrowsSetCovers(Bases, round[k][u], {t})}
<1>6. ASSUME NEW t \in Errors, NEW k \in Nat PROVE Covering(t, k) \subseteq Covering(t, k + 1)
  <2> SUFFICES ASSUME NEW u \in InferredIds, ThrowsSetCovers(Bases, round[k][u], {t})
               PROVE  ThrowsSetCovers(Bases, round[k + 1][u], {t})
    OBVIOUS
  <2>1. ThrowsSetCovers(Bases, round[k + 1][u], round[k][u])
    BY <1>4 DEF Extends
  <2>2. {t} \in SUBSET Errors
    OBVIOUS
  <2> QED BY <1>2, <2>1, <2>2, CoversTransitive
<1>7. ASSUME NEW t \in Errors
      PROVE  \E k \in 0..n : Covering(t, k) = Covering(t, k + 1)
  <2> PICK C : C = [k \in Nat |-> Covering(t, k)]
    OBVIOUS
  <2>1. \A k \in Nat : C[k] = Covering(t, k) /\ C[k + 1] = Covering(t, k + 1)
    OBVIOUS
  <2>2. \A k \in Nat : C[k] \subseteq I
    BY <2>1
  <2> HIDE DEF Covering
  <2>3. \A k \in Nat : C[k] \subseteq I /\ C[k] \subseteq C[k + 1]
    BY <1>6, <2>1, <2>2
  <2>4. \E k \in 0..Cardinality(I) : C[k] = C[k + 1]
    BY <1>3, <2>3, GrowthEnds
  <2> QED BY <1>3, <2>1, <2>4
\* An error is only ever inferred where it is covered.
<1>8. ASSUME NEW t \in Errors, NEW k \in Nat, Covering(t, k) = Covering(t, k + 1)
      PROVE  ClosedFor(t, Covering(t, k))
  <2> PICK K : K = Covering(t, k)
    OBVIOUS
  <2> SUFFICES ASSUME NEW s \in InferredIds,
                      t \in BaseEffects(s) \/ \E c \in CalledSymbols(s) \cap InferredIds : c \in K
               PROVE  ThrowsSetCovers(Bases, round[k + 1][s], {t})
    BY <1>8 DEF ClosedFor
  <2>1. RawEffects(round[k], s) \subseteq Errors
    BY <1>2, <1>4, SourceEffectsCover DEF Resolved
  <2>2. ThrowsSetCovers(Bases, RawEffects(round[k], s), {t})
    <3>1. CASE t \in BaseEffects(s)
      BY <2>1, <3>1 DEF RawEffects, ThrowsSetCovers, IsErrorSubtype, IsFileClassSubtype, Errors
    <3>2. CASE \E c \in CalledSymbols(s) \cap InferredIds : c \in K
      <4>1. PICK c \in CalledSymbols(s) \cap InferredIds : ThrowsSetCovers(Bases, round[k][c], {t})
        BY <3>2
      <4> QED BY <4>1 DEF RawEffects, ThrowsSetCovers
    <3> QED BY <3>1, <3>2
  <2>3. {t} \in SUBSET Errors
    OBVIOUS
  <2> QED BY <1>2, <1>4, <2>2, <2>3, CoversTransitive
<1>9. ASSUME NEW t, NEW K, ClosedFor(t, K), NEW j \in Nat PROVE Within(round[j], t, K)
  <2> DEFINE S == {k \in Nat : ~Within(round[k], t, K)}
  <2>1. 0 \notin S
    BY <1>1 DEF Within, NoEffects
  <2>2. \A k \in Nat : k + 1 \in S => k \in S
    BY <1>4, <1>9
  <2>3. S = {}
    <3>1. S \in SUBSET Nat
      OBVIOUS
    <3> HIDE DEF S
    <3> QED BY <2>1, <2>2, <3>1, NoException
  <2> QED BY <2>3
\* What is covered after some round is covered in the end.
<1>10. ASSUME NEW t \in Errors, NEW k \in Nat, NEW j \in Nat, k <= j
       PROVE  Covering(t, k) \subseteq Covering(t, j)
  <2> DEFINE S == {i \in Nat : k <= i /\ ~(Covering(t, k) \subseteq Covering(t, i))}
  <2> HIDE DEF Covering
  <2>1. \A i \in Nat : i + 1 \in S => i \in S
    <3> SUFFICES ASSUME NEW i \in Nat, i + 1 \in S, i \notin S PROVE FALSE
      OBVIOUS
    <3>1. k = i + 1 \/ k <= i
      OBVIOUS
    <3>2. k # i + 1
      OBVIOUS
    <3>3. Covering(t, i) \subseteq Covering(t, i + 1)
      BY <1>6
    <3> QED BY <3>1, <3>2, <3>3
  <2>2. 0 \notin S
    <3>1. 0 \in S => k = 0
      OBVIOUS
    <3> QED BY <3>1
  <2>3. S = {}
    <3>1. S \in SUBSET Nat
      OBVIOUS
    <3> HIDE DEF S
    <3> QED BY <2>1, <2>2, <3>1, NoException
  <2> QED BY <1>10, <2>3
<1> PICK F : F = round[n + 1]
  OBVIOUS
<1>11. ASSUME NEW s \in InferredIds, NEW t \in RawEffects(F, s)
       PROVE  ThrowsSetCovers(Bases, F[s], {t})
  <2>1. F \in Inferring /\ s \in Callables
    BY <1>1, <1>2, <1>3
  <2>2. t \in Errors
    BY <2>1, SourceEffectsCover
  <2>3. CASE t \in BaseEffects(s)
    <3>1. t \in RawEffects(round[n], s)
      BY <2>3 DEF RawEffects
    <3>2. ThrowsSetCovers(Bases, F[s], RawEffects(round[n], s))
      BY <1>3, <1>4
    <3> QED BY <3>1, <3>2 DEF ThrowsSetCovers
  <2>4. CASE \E c \in CalledSymbols(s) \cap InferredIds : t \in F[c]
    <3>1. PICK c \in CalledSymbols(s) \cap InferredIds : t \in F[c]
      BY <2>4
    <3>2. PICK k \in 0..n : Covering(t, k) = Covering(t, k + 1)
      BY <1>7, <2>2
    <3> PICK K : K = Covering(t, k)
      OBVIOUS
    <3>3. k \in Nat /\ n + 1 \in Nat /\ k <= n + 1
      BY <1>3
    <3> HIDE DEF Covering
    <3>4. ClosedFor(t, K)
      BY <1>8, <2>2, <3>2, <3>3
    <3>5. c \in K
      BY <1>9, <3>1, <3>3, <3>4 DEF Within
    <3>6. s \in K
      BY <3>1, <3>4, <3>5 DEF ClosedFor
    <3>7. s \in Covering(t, n + 1)
      BY <1>10, <2>2, <3>3, <3>6
    <3> QED BY <3>7 DEF Covering
  <2> QED BY <2>3, <2>4 DEF RawEffects
<1>12. \A s \in InferredIds : ThrowsSetCovers(Bases, F[s], RawEffects(F, s))
  BY <1>11 DEF ThrowsSetCovers
<1> QED BY <1>1, <1>3, <1>12

\* Inference changes what private callables throw, no declaration.
LEMMA EffectsKeep ==
  ASSUME Resolved, AnalyzeErrorEffects
  PROVE  /\ Kept /\ files' = files
         /\ \A s \in DOMAIN symbols : symbols'[s].baseConstructor = symbols[s].baseConstructor
<1> DEFINE inferred == InferredEffects
           analyzed(s) == IF s \in InferredIds THEN [symbols[s] EXCEPT !.throws = inferred[s]] ELSE symbols[s]
<1>1. /\ syntax' = syntax /\ files' = files
      /\ symbols' = [s \in DOMAIN symbols |-> analyzed(s)]
  BY DEF AnalyzeErrorEffects
<1>2. /\ Len(symbols) \in Nat /\ DOMAIN symbols = 1..Len(symbols)
      /\ \A s \in DOMAIN symbols : WellTyped(symbols[s])
      /\ HierarchyFacts
      /\ \A s \in InferredIds : \A t \in inferred[s] : IsError(t)
  <2>1. InferredEffects \in Inferring
    BY EffectsFixpoint
  <2>2. \A s \in InferredIds : inferred[s] \in SUBSET Errors
    BY <2>1 DEF Inferring
  <2>3. \A s \in InferredIds : \A t \in inferred[s] : IsError(t)
    BY <2>2 DEF Errors, IsError
  <2> QED BY <2>3 DEF Resolved, SymbolFacts
<1> HIDE DEF inferred
<1>3. \A s \in DOMAIN symbols : /\ SameDeclaration(analyzed(s), symbols[s])
                                /\ analyzed(s).baseConstructor = symbols[s].baseConstructor
  BY <1>2 DEF WellTyped, SameDeclaration, SymbolFields, InferredIds, InfersThrows
<1> DEFINE T == {analyzed(s) : s \in DOMAIN symbols}
<1>4. symbols' \in [1..Len(symbols) -> T]
  BY <1>1, <1>2
<1>5. DOMAIN symbols' = DOMAIN symbols /\ \A s \in DOMAIN symbols : symbols'[s] = analyzed(s)
  BY <1>1
<1> HIDE DEF T, analyzed
<1>6. symbols' \in Seq(T) /\ Len(symbols') = Len(symbols)
  BY <1>2, <1>4, FunctionIsSeq
<1> PICK sy : sy = symbols'
  OBVIOUS
<1>7. sy \in Seq({sy[n] : n \in DOMAIN sy})
  BY <1>6, SeqOfValues
<1>8. \A i \in FileIds : FileKept(i)
  BY <1>1, <1>2 DEF FileKept, HierarchyFacts, FileTyped
<1>9. \A s \in DOMAIN symbols : SameDeclaration(symbols'[s], symbols[s])
  BY <1>3, <1>5
<1>10. DOMAIN files' = FileIds
  BY <1>1, <1>2 DEF HierarchyFacts
<1>11. symbols' \in Seq({symbols'[s] : s \in DOMAIN symbols'})
  BY <1>7
<1>12. Kept
  BY <1>1, <1>5, <1>6, <1>8, <1>9, <1>10, <1>11 DEF Kept
<1> QED BY <1>1, <1>3, <1>5, <1>12

\* What is inferred and declared then covers what the callables let escape.
LEMMA EffectsEstablish ==
  ASSUME Resolved, Kept, files' = files, AnalyzeErrorEffects, errors' = {},
         \A s \in DOMAIN symbols : symbols'[s].baseConstructor = symbols[s].baseConstructor
  PROVE  EffectFacts'
<1> PICK F : F = InferredEffects
  OBVIOUS
<1> DEFINE made(s) == IF s \in InferredIds THEN F[s] ELSE symbols[s].throws
<1>1. /\ WellFormedProgram(syntax) /\ HierarchyFacts /\ SymbolFacts /\ DefinitionFacts
      /\ \A i \in InterfaceIds : ContractFacts(i, InterfaceIds)
      /\ syntax' = syntax
  BY DEF Resolved, Kept
<1>2. /\ F \in Inferring
      /\ \A s \in InferredIds : ThrowsSetCovers(Bases, F[s], RawEffects(F, s))
  BY EffectsFixpoint
<1>3. \A s \in DOMAIN symbols : symbols'[s].throws = made(s)
  <2>1. symbols' = [s \in DOMAIN symbols |-> IF s \in InferredIds
                      THEN [symbols[s] EXCEPT !.throws = F[s]] ELSE symbols[s]]
    BY DEF AnalyzeErrorEffects
  <2>2. \A s \in DOMAIN symbols : "throws" \in DOMAIN symbols[s]
    BY <1>1 DEF SymbolFacts, WellTyped, SymbolFields
  <2> QED BY <2>1, <2>2
<1>4. ASSUME NEW s \in Callables, s \notin InferredIds
      PROVE  ThrowsSetCovers(Bases, symbols[s].throws, SourceEffects(F, s))
  <2> DEFINE refused == {c \in DOMAIN symbols :
                           symbols[c].declared /\ ~InfersThrows(c) /\ Uncovered(F, c)}
  <2>1. {<<"throws", symbols[c].file>> : c \in refused} \subseteq {}
    BY DEF AnalyzeErrorEffects
  <2>2. refused = {}
    <3> HIDE DEF refused
    <3> QED BY <2>1
  <2>3. ~Uncovered(F, s)
    BY <1>4, <2>2 DEF Callables, InferredIds
  <2> QED BY <2>3 DEF Uncovered
<1>5. /\ DOMAIN symbols' = DOMAIN symbols /\ Callables' = Callables
      /\ \A s \in DOMAIN symbols : /\ symbols'[s].declared = symbols[s].declared
                                   /\ symbols'[s].file = symbols[s].file
                                   /\ symbols'[s].kind = symbols[s].kind
                                   /\ symbols'[s].body = symbols[s].body
  BY DEF Kept, SameDeclaration, Callables
<1> SUFFICES ASSUME NEW s \in Callables
             PROVE  ThrowsSetCovers(Bases, symbols[s].throws, Escaping(s))'
  BY <1>5 DEF EffectFacts
<1>6. s \in DOMAIN symbols /\ symbols[s].file \in FileIds
  BY StatementsOfCallable DEF Callables
<1>7. Statements(s)' = Statements(s)
  <2>1. FieldStatements(symbols[s].file)' = FieldStatements(symbols[s].file)
    BY <1>1, <1>5, <1>6 DEF FieldStatements
  <2> QED BY <1>5, <1>6, <2>1 DEF Statements
<1>8. DirectErrors(s)' = DirectErrors(s)
  BY <1>7 DEF DirectErrors
<1>9. CalledSymbols(s)' = CalledSymbols(s)
  <2> PICK own : own = ToSet(Statements(s))
    OBVIOUS
  <2> PICK owner : owner = symbols[s].file
    OBVIOUS
  <2>1. \A st \in own : Callee(owner, st)' = Callee(owner, st)
    <3> SUFFICES ASSUME NEW st \in own PROVE Callee(owner, st)' = Callee(owner, st)
      OBVIOUS
    <3>1. st \in StatementsOf(syntax)
      BY StatementsOfCallable
    <3> QED BY <1>1, <1>6, <3>1, CalleeKept
  <2> PICK called : called = {Callee(owner, st) : st \in {x \in own : x.op # "throw"}}
    OBVIOUS
  <2>2. called = {Callee(owner, st)' : st \in {x \in own : x.op # "throw"}}
    BY <2>1
  <2>3. own = ToSet(Statements(s))' /\ owner = symbols'[s].file
    BY <1>5, <1>6, <1>7
  <2>4. {Callee(owner, st)' : st \in {x \in own : x.op # "throw"}}
          = {Callee(symbols[s].file, st) : st \in {x \in ToSet(Statements(s)) : x.op # "throw"}}'
    BY <2>3
  <2>5. CalledSymbols(s) = (called \cup {symbols[s].baseConstructor}) \ {0}
    BY DEF CalledSymbols
  <2>6. CalledSymbols(s)' = (called \cup {symbols'[s].baseConstructor}) \ {0}
    BY <2>2, <2>4 DEF CalledSymbols
  <2> QED BY <1>6, <2>5, <2>6
<1>10. CalledSymbols(s) \subseteq DOMAIN symbols
  BY EffectsTyped
<1>11. Escaping(s)' = RawEffects(F, s)
  <2>1. Escaping(s)' = DirectErrors(s) \cup UNION {symbols'[c].throws : c \in CalledSymbols(s)}
    BY <1>8, <1>9 DEF Escaping
  <2>2. UNION {symbols'[c].throws : c \in CalledSymbols(s)}
          = (UNION {symbols[c].throws : c \in CalledSymbols(s) \ InferredIds})
              \cup UNION {F[c] : c \in CalledSymbols(s) \cap InferredIds}
    <3> PICK called : called = CalledSymbols(s)
      OBVIOUS
    <3>1. \A c \in called : symbols'[c].throws = made(c)
      BY <1>3, <1>10
    <3> QED BY <3>1
  <2> QED BY <2>1, <2>2 DEF RawEffects, BaseEffects
<1>12. ThrowsSetCovers(Bases, made(s), RawEffects(F, s))
  <2>1. CASE s \in InferredIds
    BY <1>2, <2>1
  <2>2. CASE s \notin InferredIds
    <3>1. RawEffects(F, s) \subseteq Errors
          /\ ThrowsSetCovers(Bases, SourceEffects(F, s), RawEffects(F, s))
      BY <1>2, SourceEffectsCover
    <3> QED BY <1>1, <1>4, <2>2, <3>1, CoversTransitive
  <2> QED BY <2>1, <2>2
<1>13. Bases' = Bases
  BY <1>1 DEF Bases, FileIds
<1>14. symbols'[s].throws = made(s)
  BY <1>3, <1>6
<1> PICK escaping : escaping = RawEffects(F, s)
  OBVIOUS
<1> PICK throws : throws = made(s)
  OBVIOUS
<1>15. ThrowsSetCovers(Bases, throws, escaping)'
  BY <1>1, <1>12, <1>13
  DEF ThrowsSetCovers, IsErrorSubtype, IsFileClassSubtype, TypeKind, Ancestors, Chain
<1> HIDE DEF made
<1>16. throws = symbols'[s].throws /\ escaping = Escaping(s)'
  BY <1>11, <1>14
<1> QED BY <1>15, <1>16

\* What escapes depends on nothing but the model.
LEMMA EffectsStable ==
  ASSUME EffectFacts, UNCHANGED <<syntax, files, symbols>>
  PROVE  EffectFacts'
<1>1. Bases' = Bases /\ Callables' = Callables /\ \A t : TypeKind(t)' = TypeKind(t)
  BY DEF Bases, FileIds, Callables, TypeKind
<1>2. \A i, name : MemberNamed(i, name)' = MemberNamed(i, name)
                  /\ ContractNamed(i, name)' = ContractNamed(i, name)
  BY DEF MemberNamed, ContractNamed
<1>3. \A i, name, from : FindMember(i, name, from)' = FindMember(i, name, from)
  BY ZenonT(60), <1>1, <1>2 DEF FindMember
<1>4. \A t, name, from : MemberOf(t, name, from)' = MemberOf(t, name, from)
  BY <1>1, <1>2, <1>3 DEF MemberOf, HasMembers
<1>5. \A i, st : Callee(i, st)' = Callee(i, st)
  BY <1>3, <1>4 DEF Callee
<1>6. \A s : Statements(s)' = Statements(s)
  BY DEF Statements, FieldStatements
<1>7. \A s : DirectErrors(s)' = DirectErrors(s) /\ CalledSymbols(s)' = CalledSymbols(s)
  BY <1>5, <1>6 DEF DirectErrors, CalledSymbols
<1>8. \A s : Escaping(s)' = Escaping(s)
  BY <1>7 DEF Escaping
<1> SUFFICES ASSUME NEW s \in Callables
             PROVE  ThrowsSetCovers(Bases, symbols[s].throws, Escaping(s))'
  BY <1>1 DEF EffectFacts
<1>9. ThrowsSetCovers(Bases, symbols[s].throws, Escaping(s))
  BY DEF EffectFacts
<1> QED BY <1>1, <1>8, <1>9 DEF ThrowsSetCovers, IsErrorSubtype, IsFileClassSubtype

\* A step that leaves the model alone keeps it.
LEMMA NothingChanges ==
  ASSUME HierarchyFacts, SymbolFacts, UNCHANGED <<syntax, files, symbols>>
  PROVE  /\ Kept
         /\ \A s \in DOMAIN symbols : symbols'[s].baseConstructor = symbols[s].baseConstructor
<1>1. \A i \in FileIds : FileKept(i)
  BY DEF FileKept, HierarchyFacts, FileTyped
<1>2. \A s \in DOMAIN symbols : SameDeclaration(symbols'[s], symbols[s])
  BY DEF SymbolFacts, WellTyped, SameDeclaration
<1>3. symbols' \in Seq({symbols'[s] : s \in DOMAIN symbols'})
  <2> PICK sy : sy = symbols
    OBVIOUS
  <2>1. sy \in Seq({sy[s] : s \in DOMAIN sy})
    BY DEF SymbolFacts
  <2> QED BY <2>1
<1> QED BY <1>1, <1>2, <1>3 DEF Kept, HierarchyFacts

-----------------------------------------------------------------------------
(* The invariant. *)

\* A step that changes neither the program nor the model, and moves on only to
\* a phase for which the same is known, keeps the invariant.
Advances ==
  \/ phase' = phase /\ pass' = pass
  \/ phase = "abi" /\ phase' \in {"abi", "verify", "internal error"} /\ pass' = pass
  \/ phase = "verify" /\ phase' \in {"run", "internal error"} /\ pass' = pass

\* What the passes established stays when only the phase moves on.
LEMMA SemaInvStable ==
  ASSUME SemaInv, UNCHANGED <<syntax, files, symbols, errors>>, Advances
  PROVE  SemaInv'
<1>1. /\ WellFormedProgram(syntax)' /\ (DOMAIN pass = {"complete", "at", "progress"})'
      /\ pass'.at \in Nat \ {0}
  BY DEF SemaInv, Advances
<1>2. (phase' \in {"relationships", "abi", "verify", "run"}) => errors' = {}
  BY DEF SemaInv, Advances
<1>3. ASSUME errors' = {} PROVE PassFacts'
  <2>1. PassFacts /\ WellFormedProgram(syntax)
    BY <1>3 DEF SemaInv
  <2>2. FileIds' = FileIds
    BY DEF FileIds
  <2>3. phase' \in AfterRelationships => HierarchyFacts'
    <3> SUFFICES ASSUME phase' \in AfterRelationships PROVE HierarchyFacts'
      OBVIOUS
    <3>1. HierarchyFacts
      BY <2>1 DEF PassFacts, Advances, AfterRelationships, AfterMembers, AfterContracts, AfterClosures,
                  AfterOverrides, AfterConformance, AfterDefinitions, AfterEffects
    <3>2. \A i \in FileIds : FileTyped(i)' /\ files'[i].base = files[i].base /\ files'[i].direct = files[i].direct
      BY <2>2, <3>1 DEF HierarchyFacts, FileTyped
    <3>3. DOMAIN files' = FileIds /\ Obj \in FileIds
      BY <2>1, <3>1, ProgramTyped DEF HierarchyFacts
    <3> QED BY <3>1, <3>2, <3>3, HierarchyStable
  <2>4. CASE phase' \notin AfterMembers
    <3>1. phase' \in {"relationships", "members"} => phase = phase' /\ pass' = pass
      BY DEF Advances
    <3> QED BY <2>1, <2>3, <2>4, <3>1 DEF PassFacts, AfterMembers, AfterContracts, AfterClosures,
                 AfterOverrides, AfterConformance, AfterDefinitions, AfterEffects
  <2>5. CASE phase' \in AfterMembers
    <3>1. /\ phase \in AfterMembers
          /\ phase' \in AfterContracts => phase \in AfterContracts
          /\ phase' \in AfterClosures => phase \in AfterClosures
          /\ phase' \in AfterOverrides => phase \in AfterOverrides
          /\ phase' \in AfterConformance => phase \in AfterConformance
          /\ phase' \in AfterDefinitions => phase \in AfterDefinitions
          /\ phase' \in AfterEffects => phase \in AfterEffects
          /\ phase' \in {"contracts", "closures", "overrides"} => phase' = phase
          /\ pass' = pass
      BY <2>5 DEF Advances, AfterMembers, AfterContracts, AfterClosures,
                 AfterOverrides, AfterConformance, AfterDefinitions, AfterEffects
    <3>2. HierarchyFacts /\ SymbolFacts
      BY <2>1, <3>1 DEF PassFacts, AfterRelationships
    <3>3. Kept /\ \A s \in DOMAIN symbols : symbols'[s].baseConstructor = symbols[s].baseConstructor
      BY <3>2, NothingChanges
    <3>4. HierarchyFacts' /\ SymbolFacts' /\ ClassIds' = ClassIds /\ InterfaceIds' = InterfaceIds
          /\ Parents' = Parents
      BY <2>1, <3>2, <3>3, DeclarationsKept
    <3>5. ASSUME phase' = "contracts" PROVE \A i \in pass'.complete : ContractFacts(i, pass.complete)'
      <4>1. \A i \in pass.complete : ContractFacts(i, pass.complete)
        BY <2>1, <3>1, <3>5 DEF PassFacts
      <4>2. PublicInstance' = PublicInstance /\ \A j : Closure(j)' = Closure(j) /\ IsInterface(j)' = IsInterface(j)
        BY DEF PublicInstance, Closure, IsInterface
      <4> QED BY <3>1, <4>1, <4>2 DEF ContractFacts, Closure, IsInterface, PublicInstance
    <3>6. phase' \in AfterContracts => \A i \in InterfaceIds' : ContractFacts(i, InterfaceIds)'
      <4>1. phase' \in AfterContracts => \A i \in InterfaceIds : ContractFacts(i, InterfaceIds)
        BY <2>1, <3>1 DEF PassFacts
      <4>2. PublicInstance' = PublicInstance /\ \A j : Closure(j)' = Closure(j) /\ IsInterface(j)' = IsInterface(j)
        BY DEF PublicInstance, Closure, IsInterface
      <4> QED BY <3>4, <4>1, <4>2 DEF ContractFacts, Closure, IsInterface, PublicInstance
    <3>7. phase' \in AfterClosures => \A i \in ClassIds' : ClassFacts(i)'
      <4>1. phase' \in AfterClosures => \A i \in InterfaceIds : ContractFacts(i, InterfaceIds)
        BY <2>1, <3>1 DEF PassFacts, AfterContracts
      <4>2. phase' \in AfterClosures => \A i \in ClassIds : ClassFacts(i)
        BY <2>1, <3>1 DEF PassFacts
      <4> QED BY <2>1, <3>2, <3>3, <4>1, <4>2, ContractsKept
    <3>8. phase' \in AfterOverrides => \A i \in ClassIds' : TableFacts(i)'
      <4>1. phase' \in AfterOverrides => \A i \in ClassIds : TableFacts(i)
        BY <2>1, <3>1 DEF PassFacts
      <4> QED BY <2>1, <3>2, <3>3, <4>1, TablesKept
    <3>9. phase' \in AfterConformance => \A i \in ClassIds' : ImplementationFacts(i)'
      <4>1. phase' \in AfterConformance =>
              /\ \A i \in InterfaceIds : ContractFacts(i, InterfaceIds)
              /\ \A i \in ClassIds : ClassFacts(i) /\ TableFacts(i) /\ ImplementationFacts(i)
        BY <2>1, <3>1 DEF PassFacts, AfterContracts, AfterClosures, AfterOverrides
      <4> QED BY <2>1, <3>2, <3>3, <4>1, ImplementationsKept
    <3>10. phase' \in AfterDefinitions => DefinitionFacts'
      <4>1. phase' \in AfterDefinitions =>
              /\ \A i \in InterfaceIds : ContractFacts(i, InterfaceIds)
              /\ DefinitionFacts
        BY <2>1, <3>1 DEF PassFacts, AfterContracts, AfterClosures, AfterOverrides, AfterConformance
      <4> QED BY <2>1, <3>2, <3>3, <4>1, DefinitionsKept
    <3>11. ASSUME phase' = "overrides"
           PROVE  /\ pass'.complete \subseteq ClassIds'
                  /\ \A i \in pass'.complete : TableFacts(i)'
                  /\ \A i \in pass'.complete : Parents'[i] # 0 => Parents'[i] \in pass'.complete
      <4> PICK C : C = pass.complete
        OBVIOUS
      <4>1. /\ C \subseteq ClassIds
            /\ \A i \in C : TableFacts(i)
            /\ \A i \in C : Parents[i] # 0 => Parents[i] \in C
        BY <2>1, <3>1, <3>11 DEF PassFacts
      <4>2. \A i \in C : TableFacts(i)'
        BY <2>1, <3>2, <3>3, <4>1, SomeTablesKept
      <4>3. pass'.complete = C
        BY <3>1
      <4> QED BY <3>4, <4>1, <4>2, <4>3
    <3>12. phase' = "contracts" => pass'.complete \subseteq InterfaceIds'
      BY <2>1, <3>1, <3>4 DEF PassFacts
    <3>13. phase' = "closures" => pass'.complete = {}
      BY <2>1, <3>1 DEF PassFacts
    <3>14. phase' \notin {"relationships", "members"}
      BY <2>5 DEF AfterMembers, AfterContracts, AfterClosures,
                  AfterOverrides, AfterConformance, AfterDefinitions, AfterEffects
    <3>15. phase' = "contracts" => \A i \in pass'.complete : ContractFacts(i, pass.complete)'
      BY <3>5, <3>1
    <3>16. phase' \in AfterEffects => EffectFacts'
      <4>1. phase' \in AfterEffects => EffectFacts
        BY <2>1, <3>1 DEF PassFacts
      <4> QED BY <4>1, EffectsStable
    <3> QED BY <3>4, <3>6, <3>7, <3>8, <3>9, <3>10, <3>11, <3>12, <3>13, <3>14, <3>15, <3>16 DEF PassFacts
  <2> QED BY <2>4, <2>5
<1> QED BY <1>1, <1>2, <1>3 DEF SemaInv

\* An error is never taken back, and what follows the analysis has none.
LEMMA ErrorsStay ==
  ASSUME SemaInv, SemaNext, errors' = {}
  PROVE  errors = {}
<1>1. errors \subseteq errors' \/ phase = "relationships"
  BY DEF SemaNext, RegisterTypeRelationships, RegisterMembers, ValidateInterfaceContract, CompleteContract,
         NextContractRound, EndContracts, CloseClassInterfaces, ValidateFileOverrides, EndOverrides,
         ValidateInterfaceConformance, AnalyzeDefinitions, AnalyzeErrorEffects
<1> QED BY <1>1 DEF SemaInv

\* What a pass over the bodies keeps, and the phase it leads to.
LEMMA BodiesPassed ==
  ASSUME WellFormedProgram(syntax), HierarchyFacts, SymbolFacts, Kept,
         \A i \in InterfaceIds : ContractFacts(i, InterfaceIds),
         \A i \in ClassIds : ClassFacts(i), \A i \in ClassIds : TableFacts(i)
  PROVE  /\ HierarchyFacts' /\ SymbolFacts'
         /\ \A i \in InterfaceIds' : ContractFacts(i, InterfaceIds)'
         /\ \A i \in ClassIds' : ClassFacts(i)'
         /\ \A i \in ClassIds' : TableFacts(i)'
<1>1. HierarchyFacts' /\ SymbolFacts'
  BY DeclarationsKept
<1>2. /\ \A i \in InterfaceIds' : ContractFacts(i, InterfaceIds)'
      /\ \A i \in ClassIds' : ClassFacts(i)'
  BY ContractsKept
<1>3. \A i \in ClassIds' : TableFacts(i)'
  BY TablesKept
<1> QED BY <1>1, <1>2, <1>3

\* The invariant of the analysis is inductive.
LEMMA SemaStep ==
  ASSUME SemaInv, SemaNext
  PROVE  SemaInv'
<1> USE DEF AfterRelationships, AfterMembers, AfterContracts, AfterClosures, AfterOverrides,
            AfterConformance, AfterDefinitions, AfterEffects
<1>1. syntax' = syntax /\ WellFormedProgram(syntax)
  BY DEF SemaInv, SemaNext, RegisterTypeRelationships, RegisterMembers, ValidateInterfaceContract,
         NextContractRound, EndContracts, CloseClassInterfaces, ValidateFileOverrides, EndOverrides,
         ValidateInterfaceConformance, AnalyzeDefinitions, AnalyzeErrorEffects
<1>2. DOMAIN pass' = {"complete", "at", "progress"} /\ pass'.at \in Nat \ {0}
  <2>1. DOMAIN pass = {"complete", "at", "progress"} /\ pass.at \in Nat \ {0}
    BY DEF SemaInv
  <2>2. CASE ValidateInterfaceContract
    <3>1. PICK i \in pass.at .. Len(syntax) : CompleteContract(i)
      BY <2>2 DEF ValidateInterfaceContract
    <3>2. i \in Nat /\ pass' = [complete |-> pass.complete \cup {i}, at |-> i + 1, progress |-> TRUE]
      BY <1>1, <2>1, <3>1, ProgramTyped DEF CompleteContract
    <3> QED BY <3>2
  <2>3. CASE NextContractRound
    <3>1. pass' = [pass EXCEPT !.at = 1, !.progress = FALSE]
      BY <2>3 DEF NextContractRound
    <3> QED BY <2>1, <3>1
  <2>4. CASE EndContracts
    <3>1. pass' = NewPass
      BY <2>4 DEF EndContracts
    <3> QED BY <3>1 DEF NewPass
  <2>6. CASE ValidateFileOverrides
    <3>1. PICK i \in FileIds : pass' = [pass EXCEPT !.complete = @ \cup {i}]
      BY <2>6 DEF ValidateFileOverrides
    <3> QED BY <2>1, <3>1
  <2>5. CASE pass' = pass
    BY <2>1, <2>5
  <2> QED BY <2>2, <2>3, <2>4, <2>5, <2>6 DEF SemaNext, RegisterTypeRelationships, RegisterMembers,
         CloseClassInterfaces, EndOverrides,
         ValidateInterfaceConformance, AnalyzeDefinitions, AnalyzeErrorEffects
<1>3. /\ phase' \in {"abi", "verify", "run"} => errors' = {}
      /\ phase' # "relationships"
  BY DEF SemaNext, RegisterTypeRelationships, RegisterMembers, ValidateInterfaceContract,
         NextContractRound, EndContracts, CloseClassInterfaces, ValidateFileOverrides, EndOverrides,
         ValidateInterfaceConformance, AnalyzeDefinitions, AnalyzeErrorEffects
<1>4. ASSUME errors' = {} PROVE PassFacts'
  <2>1. errors = {} /\ PassFacts
    BY <1>4, ErrorsStay DEF SemaInv
  <2>2. CASE RegisterTypeRelationships
    <3>1. phase' = "members" /\ pass' = pass /\ phase = "relationships"
      BY <2>2 DEF RegisterTypeRelationships
    <3>2. HierarchyFacts'
      BY <1>1, <1>4, <2>2, RelationshipsEstablish
    <3>3. pass'.complete = {}
      BY <2>1, <3>1 DEF PassFacts
    <3> QED BY <3>1, <3>2, <3>3 DEF PassFacts
  <2>3. CASE RegisterMembers
    <3>1. phase = "members" /\ phase' = "contracts" /\ pass' = pass
      BY <2>3 DEF RegisterMembers
    <3>2. HierarchyFacts /\ pass'.complete = {}
      BY <2>1, <3>1 DEF PassFacts
    <3>3. HierarchyFacts' /\ SymbolFacts'
      BY <1>1, <1>4, <2>3, <3>2, MembersEstablish
    <3> QED BY <3>1, <3>2, <3>3 DEF PassFacts
  <2>4. CASE ValidateInterfaceContract
    <3>1. phase = "contracts" /\ phase' = "contracts"
      BY <2>4 DEF ValidateInterfaceContract
    <3>2. PICK i \in pass.at .. Len(syntax) : ContractReady(i) /\ CompleteContract(i)
      BY <2>4 DEF ValidateInterfaceContract
    <3>3. /\ HierarchyFacts /\ SymbolFacts /\ pass.complete \subseteq InterfaceIds
          /\ \A j \in pass.complete : ContractFacts(j, pass.complete)
      BY <2>1, <3>1 DEF PassFacts
    <3>4. i \in FileIds
      BY <1>1, <3>2, ProgramTyped DEF SemaInv
    <3>5. /\ HierarchyFacts' /\ SymbolFacts' /\ pass'.complete \subseteq InterfaceIds'
          /\ \A j \in pass'.complete : ContractFacts(j, pass.complete)'
      BY <1>1, <3>2, <3>3, <3>4, ContractCompletes
    <3> QED BY <3>1, <3>5 DEF PassFacts
  <2>5. CASE NextContractRound
    <3>1. /\ phase = "contracts" /\ phase' = "contracts" /\ pass'.complete = pass.complete
          /\ UNCHANGED <<syntax, files, symbols>>
      BY <2>5 DEF NextContractRound, SemaInv
    <3>2. /\ HierarchyFacts /\ SymbolFacts /\ pass.complete \subseteq InterfaceIds
          /\ \A j \in pass.complete : ContractFacts(j, pass.complete)
      BY <2>1, <3>1 DEF PassFacts
    <3>3. HierarchyFacts' /\ SymbolFacts' /\ InterfaceIds' = InterfaceIds
      BY <1>1, <3>1, <3>2, NothingChanges, DeclarationsKept
    <3>4. PublicInstance' = PublicInstance /\ \A j : Closure(j)' = Closure(j) /\ IsInterface(j)' = IsInterface(j)
      BY <3>1 DEF PublicInstance, Closure, IsInterface
    <3>5. \A j \in pass'.complete : ContractFacts(j, pass.complete)'
      BY <3>1, <3>2, <3>4 DEF ContractFacts, Closure, IsInterface, PublicInstance
    <3> QED BY <3>1, <3>2, <3>3, <3>5 DEF PassFacts
  <2>6. CASE EndContracts
    <3>1. phase = "contracts" /\ phase' = "closures" /\ pass'.complete = {}
      BY <2>6 DEF EndContracts, NewPass
    <3>2. /\ HierarchyFacts /\ SymbolFacts /\ pass.complete \subseteq InterfaceIds
          /\ \A j \in pass.complete : ContractFacts(j, pass.complete)
      BY <2>1, <3>1 DEF PassFacts
    <3>3. /\ HierarchyFacts' /\ SymbolFacts'
          /\ \A i \in InterfaceIds' : ContractFacts(i, InterfaceIds)'
      BY <1>1, <1>4, <2>6, <3>2, ContractsEnd
    <3> QED BY <3>1, <3>3 DEF PassFacts
  <2>7. CASE CloseClassInterfaces
    <3>1. phase = "closures" /\ phase' = "overrides" /\ pass' = pass
      BY <2>7 DEF CloseClassInterfaces
    <3>2. /\ HierarchyFacts /\ SymbolFacts /\ pass.complete = {}
          /\ \A i \in InterfaceIds : ContractFacts(i, InterfaceIds)
      BY <2>1, <3>1 DEF PassFacts
    <3>3. /\ HierarchyFacts' /\ SymbolFacts'
          /\ \A i \in InterfaceIds' : ContractFacts(i, InterfaceIds)'
          /\ \A i \in ClassIds' : ClassFacts(i)'
      BY <1>1, <2>7, <3>2, ClosuresEstablish
    <3>4. pass'.complete = {}
      BY <3>1, <3>2
    <3> QED BY <3>1, <3>3, <3>4 DEF PassFacts
  <2>8. CASE ValidateFileOverrides
    <3>1. phase = "overrides" /\ phase' = "overrides"
      BY <2>8 DEF ValidateFileOverrides
    <3>2. /\ HierarchyFacts /\ SymbolFacts /\ pass.complete \subseteq ClassIds
          /\ \A i \in pass.complete : TableFacts(i) /\ (Parents[i] # 0 => Parents[i] \in pass.complete)
          /\ \A i \in InterfaceIds : ContractFacts(i, InterfaceIds)
          /\ \A i \in ClassIds : ClassFacts(i)
      BY <2>1, <3>1 DEF PassFacts
    <3>3. /\ HierarchyFacts' /\ SymbolFacts'
          /\ \A i \in InterfaceIds' : ContractFacts(i, InterfaceIds)'
          /\ \A i \in ClassIds' : ClassFacts(i)'
          /\ pass'.complete \subseteq ClassIds'
          /\ \A i \in pass'.complete : /\ TableFacts(i)'
                                       /\ Parents'[i] # 0 => Parents'[i] \in pass'.complete
      BY <1>1, <1>4, <2>8, <3>2, OverridesEstablish DEF SemaInv
    <3> QED BY <3>1, <3>3 DEF PassFacts
  <2>9. CASE EndOverrides
    <3>1. phase = "overrides" /\ phase' = "conformance" /\ UNCHANGED <<syntax, files, symbols>>
      BY <2>9 DEF EndOverrides
    <3>2. /\ HierarchyFacts /\ SymbolFacts
          /\ \A i \in pass.complete : TableFacts(i)
          /\ \A i \in InterfaceIds : ContractFacts(i, InterfaceIds)
          /\ \A i \in ClassIds : ClassFacts(i)
      BY <2>1, <3>1 DEF PassFacts
    <3>3. \A i \in ClassIds : TableFacts(i)
      BY <1>1, <2>9, <3>2, OverridesEnd
    <3>4. Kept
      BY <3>1, <3>2, NothingChanges
    <3>5. /\ HierarchyFacts' /\ SymbolFacts'
          /\ \A i \in InterfaceIds' : ContractFacts(i, InterfaceIds)'
          /\ \A i \in ClassIds' : ClassFacts(i)'
          /\ \A i \in ClassIds' : TableFacts(i)'
      BY <1>1, <3>2, <3>3, <3>4, BodiesPassed
    <3> QED BY <3>1, <3>5 DEF PassFacts
  <2>10. CASE ValidateInterfaceConformance
    <3>1. phase = "conformance" /\ phase' = "definitions"
      BY <2>10 DEF ValidateInterfaceConformance
    <3>2. /\ HierarchyFacts /\ SymbolFacts
          /\ \A i \in InterfaceIds : ContractFacts(i, InterfaceIds)
          /\ \A i \in ClassIds : ClassFacts(i)
          /\ \A i \in ClassIds : TableFacts(i)
      BY <2>1, <3>1 DEF PassFacts
    <3>3. Kept /\ \A i \in ClassIds' : ImplementationFacts(i)'
      BY <1>1, <1>4, <2>10, <3>2, ConformanceEstablish
    <3>4. /\ HierarchyFacts' /\ SymbolFacts'
          /\ \A i \in InterfaceIds' : ContractFacts(i, InterfaceIds)'
          /\ \A i \in ClassIds' : ClassFacts(i)'
          /\ \A i \in ClassIds' : TableFacts(i)'
      BY <1>1, <3>2, <3>3, BodiesPassed
    <3> QED BY <3>1, <3>3, <3>4 DEF PassFacts
  <2>11. CASE AnalyzeDefinitions
    <3>1. phase = "definitions" /\ phase' = "effects"
      BY <2>11 DEF AnalyzeDefinitions
    <3>2. /\ HierarchyFacts /\ SymbolFacts
          /\ \A i \in InterfaceIds : ContractFacts(i, InterfaceIds)
          /\ \A i \in ClassIds : ClassFacts(i)
          /\ \A i \in ClassIds : TableFacts(i)
          /\ \A i \in ClassIds : ImplementationFacts(i)
      BY <2>1, <3>1 DEF PassFacts
    <3>3. Kept /\ DefinitionFacts' /\ files' = files
      BY <1>1, <1>4, <2>11, <3>2, DefinitionsEstablish
    <3>4. /\ HierarchyFacts' /\ SymbolFacts'
          /\ \A i \in InterfaceIds' : ContractFacts(i, InterfaceIds)'
          /\ \A i \in ClassIds' : ClassFacts(i)'
          /\ \A i \in ClassIds' : TableFacts(i)'
      BY <1>1, <3>2, <3>3, BodiesPassed
    <3>5. \A i \in FileIds : files'[i].implementations = files[i].implementations
      BY <3>3
    <3>6. \A i \in ClassIds' : ImplementationFacts(i)'
      BY <1>1, <3>2, <3>3, <3>5, ImplementationsKept
    <3> QED BY <3>1, <3>3, <3>4, <3>6 DEF PassFacts
  <2>12. CASE AnalyzeErrorEffects
    <3>1. phase = "effects" /\ phase' = "abi"
      BY <1>4, <2>12 DEF AnalyzeErrorEffects
    <3>2. /\ HierarchyFacts /\ SymbolFacts
          /\ \A i \in InterfaceIds : ContractFacts(i, InterfaceIds)
          /\ \A i \in ClassIds : ClassFacts(i)
          /\ \A i \in ClassIds : TableFacts(i)
          /\ \A i \in ClassIds : ImplementationFacts(i)
          /\ DefinitionFacts
      BY <2>1, <3>1 DEF PassFacts
    <3>3. /\ Kept /\ files' = files
          /\ \A s \in DOMAIN symbols : symbols'[s].baseConstructor = symbols[s].baseConstructor
      BY <1>1, <2>12, <3>2, EffectsKeep DEF Resolved
    <3>4. /\ HierarchyFacts' /\ SymbolFacts'
          /\ \A i \in InterfaceIds' : ContractFacts(i, InterfaceIds)'
          /\ \A i \in ClassIds' : ClassFacts(i)'
          /\ \A i \in ClassIds' : TableFacts(i)'
      BY <1>1, <3>2, <3>3, BodiesPassed
    <3>5. \A i \in FileIds : files'[i].implementations = files[i].implementations
      BY <3>3
    <3>6. \A i \in ClassIds' : ImplementationFacts(i)'
      BY <1>1, <3>2, <3>3, <3>5, ImplementationsKept
    <3>7. DefinitionFacts'
      BY <1>1, <3>2, <3>3, DefinitionsKept
    <3>8. EffectFacts'
      BY <1>1, <1>4, <2>12, <3>2, <3>3, EffectsEstablish DEF Resolved
    <3> QED BY <3>1, <3>4, <3>6, <3>7, <3>8 DEF PassFacts
  <2> QED BY <2>2, <2>3, <2>4, <2>5, <2>6, <2>7, <2>8, <2>9, <2>10, <2>11, <2>12 DEF SemaNext
<1>5. WellFormedProgram(syntax)'
  BY <1>1 DEF WellFormedProgram, DeclarationsOf, FieldsOf, ConstructorsOf, FunctionsOf, StatementsOf, TypesOf
<1> QED BY <1>2, <1>3, <1>4, <1>5 DEF SemaInv
=============================================================================
