--------------------------- MODULE GcRootsProofs ---------------------------
(***************************************************************************)
(* Proofs about GcRoots: for every well formed body, of any number of      *)
(* blocks and roots, the code emitted from analyze_gc_liveness reads what  *)
(* the MIR says at every safepoint, and its slots hold no garbage.         *)
(***************************************************************************)
EXTENDS GcRoots, TLAPS

-----------------------------------------------------------------------------
(* The inductive invariant.                                                *)

\* The roots live before instruction k of block b, by the tables.
LiveAt(b, k) ==
  IF k <= Len(Code(b)) THEN Before(Code(b)[k], after[b][k])
  ELSE liveOut[b] \cup body.blocks[b].uses

\* The roots of block b that are used at or after k before their definition.
PathLive(b, k, r) ==
  \/ \E j \in k..Len(Code(b)) :
       /\ r \in Uses(Code(b)[j])
       /\ \A m \in k..(j - 1) : r \notin Defines(Code(b)[m])
  \/ /\ r \in liveOut[b] \cup body.blocks[b].uses
     /\ \A m \in k..Len(Code(b)) : r \notin Defines(Code(b)[m])

\* The tables of a block solve the equations.
Stable(b) == liveOut[b] = NextOut(b) /\ liveIn[b] = NextIn(b)

\* The second walk has passed block b.
Walked(b) ==
  /\ \A k \in DOMAIN Code(b) : after[b][k] = LiveAt(b, k + 1)
  /\ afterPhis[b] = LiveAt(b, 1)
  /\ liveIn[b] = LiveAt(b, 1) \ PhiResults(b)

TablesOk ==
  /\ body \in Bodies /\ at \in Block
  /\ phase \in {"fixpoint", "walk", "run", "done"}
  /\ DOMAIN liveIn = Block /\ DOMAIN liveOut = Block
  /\ DOMAIN after = Block /\ DOMAIN afterPhis = Block
  /\ \A b \in Block : /\ liveIn[b] \subseteq Tracked /\ liveOut[b] \subseteq Tracked
                      /\ DOMAIN after[b] = DOMAIN Code(b)
                      /\ \A k \in DOMAIN Code(b) : after[b][k] \subseteq Tracked

\* While a pass has changed nothing, the blocks it has passed are stable.
FixpointOk ==
  /\ changed \in BOOLEAN
  /\ ~changed => \A b \in Block : b > at => Stable(b)

WalkOk ==
  /\ \A b \in Block : Stable(b)
  /\ \A b \in Block : b > at => Walked(b)
  /\ pc \in 0..Len(Code(at))
  /\ \A k \in DOMAIN Code(at) : k > pc => after[at][k] = LiveAt(at, k + 1)
  /\ live = LiveAt(at, pc + 1)
  /\ \A r : r \in live <=> PathLive(at, pc + 1, r)

AnalysisOk == \A b \in Block : Stable(b) /\ Walked(b)

\* The running code: the slots of the live roots and of the result storages
\* hold what the roots hold, and no other slot holds an object.
SlotsOk(roots) ==
  \A r \in roots \cup body.storage : slot[r] = value[r] /\ value[r] # Dangling

NoGarbage(roots) ==
  \A r \in Tracked : slot[r] # Null => r \in roots \cup UnusedPhis

RunOk ==
  /\ pc \in 1..(Len(Code(at)) + 1)
  /\ SlotsOk(LiveNow) /\ NoGarbage(LiveNow)

FrameInv ==
  /\ TablesOk
  /\ phase = "fixpoint" => FixpointOk
  /\ phase = "walk" => WalkOk
  /\ phase = "run" => AnalysisOk /\ RunOk

-----------------------------------------------------------------------------
(* Facts about bodies.                                                     *)

LEMMA BodyFacts ==
  ASSUME TablesOk
  PROVE  /\ Len(body.blocks) \in Nat \ {0} /\ Block = 1..Len(body.blocks)
         /\ body.storage \subseteq Root
         /\ body.symbols \subseteq Tracked /\ body.params \subseteq body.symbols
         /\ \A b \in Block :
              /\ Len(Code(b)) \in Nat /\ DOMAIN Code(b) = 1..Len(Code(b))
              /\ Successors(b) \subseteq Block
              /\ body.blocks[b].uses \subseteq Tracked
              /\ body.blocks[b].uses # {} => Successors(b) = {}
              /\ PhiResults(b) \subseteq Tracked \ body.symbols
              /\ \A s \in Successors(b) : \A p \in PhiResults(s) :
                   Phis(s)[p][b] \in Tracked
BY BodiesAssumption
DEF TablesOk, WellFormedBody, Block, Code, Successors, PhiResults, Phis, Tracked

LEMMA InstructionFacts ==
  ASSUME TablesOk, NEW b \in Block, NEW k \in DOMAIN Code(b)
  PROVE  WellFormedInstruction(body, Code(b)[k])
BY BodiesAssumption DEF TablesOk, WellFormedBody, Block, Code

\* A step that keeps the body and the tables keeps what is said of them.
LEMMA SameAnalysis ==
  ASSUME UNCHANGED <<body, analysis>>
  PROVE  /\ \A b : Code(b)' = Code(b) /\ Phis(b)' = Phis(b) /\ PhiResults(b)' = PhiResults(b)
                   /\ Successors(b)' = Successors(b)
         /\ Block' = Block /\ Tracked' = Tracked /\ UnusedPhis' = UnusedPhis
         /\ \A b, k : LiveAt(b, k)' = LiveAt(b, k)
         /\ AnalysisOk' <=> AnalysisOk
BY DEF analysis, Code, Phis, PhiResults, Successors, Block, Tracked, UnusedPhis, LiveAt,
       Before, Defines, Uses, AnalysisOk, Stable, Walked, NextIn, NextOut, BlockUses,
       BlockDefinitions

LEMMA SameTables ==
  ASSUME TablesOk, UNCHANGED <<body, analysis>>, at' \in Block,
         phase' \in {"fixpoint", "walk", "run", "done"}
  PROVE  TablesOk'
BY SameAnalysis DEF TablesOk, analysis

-----------------------------------------------------------------------------
(* The analysis.                                                           *)

LEMMA InitInv == Init => FrameInv
<1> SUFFICES ASSUME Init PROVE FrameInv
  OBVIOUS
<1>1. WellFormedBody(body)
  BY BodiesAssumption DEF Init
<1>2. Len(body.blocks) \in Nat \ {0} /\ Block = 1..Len(body.blocks)
  BY <1>1 DEF WellFormedBody, Block
<1>3. TablesOk
  BY <1>2 DEF Init, TablesOk
<1>4. FixpointOk
  <2>1. changed = FALSE
    BY DEF Init
  <2>2. \A b \in Block : ~(b > at)
    BY <1>2 DEF Init
  <2> QED BY <2>1, <2>2, Zenon DEF FixpointOk
<1> QED BY <1>3, <1>4 DEF Init, FrameInv

\* Upward exposed uses, one by one.
LEMMA ExposedUses ==
  ASSUME NEW b, NEW r
  PROVE  r \in BlockUses(b) <=>
           \/ \E k \in DOMAIN Code(b) :
                /\ r \in Uses(Code(b)[k]) /\ r \notin PhiResults(b)
                /\ \A m \in 1..(k - 1) : r \notin Defines(Code(b)[m])
           \/ r \in body.blocks[b].uses /\ r \notin BlockDefinitions(b)
<1> DEFINE before(k) == PhiResults(b) \cup UNION {Defines(Code(b)[j]) : j \in 1..(k - 1)}
           exposed == UNION {Uses(Code(b)[k]) \ before(k) : k \in DOMAIN Code(b)}
<1>1. BlockUses(b) = exposed \cup (body.blocks[b].uses \ BlockDefinitions(b))
  BY DEF BlockUses
<1>2. ASSUME NEW k
      PROVE  r \in before(k) <=> \/ r \in PhiResults(b)
                                 \/ \E m \in 1..(k - 1) : r \in Defines(Code(b)[m])
  OBVIOUS
<1> HIDE DEF before
<1>3. r \in exposed <=> \E k \in DOMAIN Code(b) : r \in Uses(Code(b)[k]) /\ r \notin before(k)
  OBVIOUS
<1> HIDE DEF exposed
<1> QED BY <1>1, <1>2, <1>3

LEMMA NextTyped ==
  ASSUME TablesOk, NEW b \in Block
  PROVE  NextOut(b) \subseteq Tracked /\ NextIn(b) \subseteq Tracked
<1>1. NextOut(b) \subseteq Tracked
  BY BodyFacts DEF TablesOk, NextOut
<1>2. BlockUses(b) \subseteq Tracked
  BY BodyFacts, ExposedUses DEF Uses
<1> QED BY <1>1, <1>2 DEF NextIn

\* One turn of the fixpoint keeps the types.
LEMMA FixpointTyped ==
  ASSUME TablesOk, Fixpoint
  PROVE  /\ Block' = Block /\ at' \in Block /\ UNCHANGED <<body, after, afterPhis>>
         /\ DOMAIN liveIn' = Block /\ DOMAIN liveOut' = Block
         /\ \A b \in Block : liveIn'[b] \subseteq Tracked /\ liveOut'[b] \subseteq Tracked
         /\ TablesOk'
<1>1. /\ UNCHANGED <<body, after, afterPhis>>
      /\ liveOut' = [liveOut EXCEPT ![at] = NextOut(at)]
      /\ liveIn' = [liveIn EXCEPT ![at] = NextIn(at)]
  BY DEF Fixpoint
<1>2. at' \in Block /\ phase' \in {"fixpoint", "walk", "run", "done"}
  BY BodyFacts DEF Fixpoint, TablesOk
<1>3. /\ DOMAIN liveIn' = Block /\ DOMAIN liveOut' = Block
      /\ \A b \in Block : liveIn'[b] \subseteq Tracked /\ liveOut'[b] \subseteq Tracked
  BY <1>1, NextTyped DEF TablesOk
<1>4. Block' = Block /\ Tracked' = Tracked /\ \A b : Code(b)' = Code(b)
  BY <1>1 DEF Block, Tracked, Code
<1> QED BY <1>1, <1>2, <1>3, <1>4 DEF TablesOk

\* Live at the end of a block's code.
LEMMA PathEnd ==
  ASSUME TablesOk, NEW b \in Block, NEW r
  PROVE  PathLive(b, Len(Code(b)) + 1, r) <=> r \in liveOut[b] \cup body.blocks[b].uses
<1>1. Len(Code(b)) \in Nat
  BY BodyFacts
<1> DEFINE n == Len(Code(b))
<1>2. (n + 1)..n = {}
  BY <1>1
<1> QED BY <1>2 DEF PathLive

\* Live before an instruction: used by it, or live after and not defined by it.
LEMMA PathStep ==
  ASSUME TablesOk, NEW b \in Block, NEW k \in 1..Len(Code(b)), NEW r
  PROVE  PathLive(b, k, r) <=> \/ r \in Uses(Code(b)[k])
                               \/ r \notin Defines(Code(b)[k]) /\ PathLive(b, k + 1, r)
<1> DEFINE n == Len(Code(b))
           U(j) == r \in Uses(Code(b)[j])
           D(j) == r \in Defines(Code(b)[j])
           E == r \in liveOut[b] \cup body.blocks[b].uses
<1>1. n \in Nat
  BY BodyFacts
<1>2. PathLive(b, k, r) <=> \/ \E j \in k..n : U(j) /\ \A m \in k..(j - 1) : ~D(m)
                            \/ E /\ \A m \in k..n : ~D(m)
  BY DEF PathLive
<1>3. PathLive(b, k + 1, r) <=> \/ \E j \in (k + 1)..n : U(j) /\ \A m \in (k + 1)..(j - 1) : ~D(m)
                                \/ E /\ \A m \in (k + 1)..n : ~D(m)
  BY DEF PathLive
<1> HIDE DEF n, U, D, E
<1>4. ASSUME PathLive(b, k, r) PROVE U(k) \/ (~D(k) /\ PathLive(b, k + 1, r))
  <2>1. CASE E /\ \A m \in k..n : ~D(m)
    BY <1>1, <1>3, <2>1 DEF n
  <2>2. CASE \E j \in k..n : U(j) /\ \A m \in k..(j - 1) : ~D(m)
    <3>1. PICK j \in k..n : U(j) /\ \A m \in k..(j - 1) : ~D(m)
      BY <2>2
    <3>2. CASE j = k
      BY <3>1, <3>2
    <3>3. CASE j # k
      <4>1. j \in (k + 1)..n /\ k \in k..(j - 1)
        BY <1>1, <3>3 DEF n
      <4>2. \A m \in (k + 1)..(j - 1) : m \in k..(j - 1)
        OBVIOUS
      <4> QED BY <1>3, <3>1, <4>1, <4>2
    <3> QED BY <3>2, <3>3
  <2> QED BY <1>2, <1>4, <2>1, <2>2
<1>5. ASSUME U(k) PROVE PathLive(b, k, r)
  <2>1. k \in k..n /\ k..(k - 1) = {}
    BY <1>1 DEF n
  <2> QED BY <1>2, <1>5, <2>1
<1>6. ASSUME ~D(k), PathLive(b, k + 1, r) PROVE PathLive(b, k, r)
  <2>1. CASE E /\ \A m \in (k + 1)..n : ~D(m)
    <3>1. \A m \in k..n : m = k \/ m \in (k + 1)..n
      BY <1>1 DEF n
    <3> QED BY <1>2, <1>6, <2>1, <3>1
  <2>2. CASE \E j \in (k + 1)..n : U(j) /\ \A m \in (k + 1)..(j - 1) : ~D(m)
    <3>1. PICK j \in (k + 1)..n : U(j) /\ \A m \in (k + 1)..(j - 1) : ~D(m)
      BY <2>2
    <3>2. j \in k..n /\ \A m \in k..(j - 1) : m = k \/ m \in (k + 1)..(j - 1)
      BY <1>1 DEF n
    <3> QED BY <1>2, <1>6, <3>1, <3>2
  <2> QED BY <1>3, <1>6, <2>1, <2>2
<1> QED BY <1>4, <1>5, <1>6 DEF U, D

\* What is live on entry to a block by its uses and definitions is what is
\* live before its first instruction, without the results of its phis.
LEMMA EntryLive ==
  ASSUME TablesOk, NEW b \in Block, Stable(b), NEW r
  PROVE  r \in liveIn[b] <=> PathLive(b, 1, r) /\ r \notin PhiResults(b)
<1> DEFINE n == Len(Code(b))
           U(j) == r \in Uses(Code(b)[j])
           D(j) == r \in Defines(Code(b)[j])
<1>1. n \in Nat /\ DOMAIN Code(b) = 1..n
  BY BodyFacts
<1>2. r \in BlockDefinitions(b) <=> r \in PhiResults(b) \/ \E m \in 1..n : D(m)
  BY <1>1 DEF BlockDefinitions
<1>3. r \in BlockUses(b) <=>
        \/ \E k \in 1..n : U(k) /\ r \notin PhiResults(b) /\ \A m \in 1..(k - 1) : ~D(m)
        \/ r \in body.blocks[b].uses /\ r \notin BlockDefinitions(b)
  BY <1>1, ExposedUses
<1>4. r \in liveIn[b] <=> \/ r \in BlockUses(b)
                          \/ r \in liveOut[b] /\ r \notin BlockDefinitions(b)
  BY DEF Stable, NextIn
<1>5. PathLive(b, 1, r) <=>
        \/ \E j \in 1..n : U(j) /\ \A m \in 1..(j - 1) : ~D(m)
        \/ r \in liveOut[b] \cup body.blocks[b].uses /\ \A m \in 1..n : ~D(m)
  BY DEF PathLive
<1> HIDE DEF n, U, D
<1> QED BY <1>2, <1>3, <1>4, <1>5

\* The live sets are sets of tracked roots.
LEMMA LiveTyped ==
  ASSUME TablesOk, NEW b \in Block, NEW k \in 1..(Len(Code(b)) + 1)
  PROVE  LiveAt(b, k) \subseteq Tracked
<1>1. CASE k <= Len(Code(b))
  <2>1. k \in DOMAIN Code(b)
    BY <1>1, BodyFacts
  <2> QED BY <1>1, <2>1 DEF LiveAt, Before, Uses, TablesOk
<1>2. CASE ~(k <= Len(Code(b)))
  BY <1>2, BodyFacts DEF LiveAt, TablesOk
<1> QED BY <1>1, <1>2

\* The second walk enters a block at the end of its code.
LEMMA WalkStart ==
  ASSUME TablesOk, body' = body, at' \in Block, pc' = Len(Code(at')),
         live' = liveOut'[at'] \cup body.blocks[at'].uses
  PROVE  /\ pc' \in 0..Len(Code(at)') /\ LiveAt(at, pc + 1)' = live'
         /\ \A r : r \in live' <=> PathLive(at, pc + 1, r)'
         /\ \A k \in DOMAIN Code(at)' : ~(k > pc')
<1>1. Code(at)' = Code(at')
  BY DEF Code
<1>2. Len(Code(at')) \in Nat /\ DOMAIN Code(at') = 1..Len(Code(at'))
  BY BodyFacts
<1>3. LiveAt(at, pc + 1)' = live'
  BY <1>1, <1>2 DEF LiveAt
<1>4. ASSUME NEW r PROVE r \in live' <=> PathLive(at, pc + 1, r)'
  <2>1. (pc' + 1)..Len(Code(at)') = {}
    BY <1>1, <1>2
  <2>2. PathLive(at, pc + 1, r)' <=> r \in liveOut'[at'] \cup body'.blocks[at'].uses
    BY <2>1 DEF PathLive
  <2> QED BY <2>2
<1> QED BY <1>1, <1>2, <1>3, <1>4

\* A pass that changes nothing ends the loop with every block stable.
LEMMA FixpointInv ==
  ASSUME FrameInv, Fixpoint
  PROVE  FrameInv'
<1> DEFINE differs == NextOut(at) # liveOut[at] \/ NextIn(at) # liveIn[at]
           n == Len(body.blocks)
<1>1. /\ TablesOk /\ FixpointOk /\ phase = "fixpoint"
      /\ n \in Nat \ {0} /\ Block = 1..n /\ at \in 1..n
  BY BodyFacts DEF FrameInv, Fixpoint, TablesOk
<1>2. TablesOk' /\ Block' = Block /\ UNCHANGED body
  BY <1>1, FixpointTyped
<1>3. ASSUME ~differs
      PROVE  /\ \A b \in Block : liveIn'[b] = liveIn[b] /\ liveOut'[b] = liveOut[b]
             /\ \A b \in Block : Stable(b)' <=> Stable(b)
             /\ Stable(at)
  <2>1. \A b \in Block : liveIn'[b] = liveIn[b] /\ liveOut'[b] = liveOut[b]
    BY <1>1, <1>3 DEF Fixpoint, TablesOk
  <2>2. ASSUME NEW b \in Block
        PROVE  /\ NextOut(b)' = NextOut(b) /\ BlockUses(b)' = BlockUses(b)
               /\ BlockDefinitions(b)' = BlockDefinitions(b)
    <3>1. \A s \in Successors(b) : liveIn'[s] = liveIn[s]
      BY <1>1, <2>1, BodyFacts
    <3>2. NextOut(b)' = NextOut(b)
      BY <1>2, <3>1 DEF NextOut, Successors, Phis, PhiResults
    <3>3. BlockUses(b)' = BlockUses(b) /\ BlockDefinitions(b)' = BlockDefinitions(b)
      BY <1>2 DEF BlockUses, BlockDefinitions, PhiResults, Phis, Code, Uses, Defines, Tracked
    <3> QED BY <3>2, <3>3
  <2>3. \A b \in Block : Stable(b)' <=> Stable(b)
    BY <2>1, <2>2 DEF Stable, NextIn
  <2> QED BY <1>3, <2>1, <2>3 DEF Stable
<1>4. CASE at > 1
  <2>1. at' = at - 1 /\ changed' = (changed \/ differs) /\ phase' = "fixpoint"
    BY <1>1, <1>4 DEF Fixpoint
  <2>2. ASSUME ~changed' PROVE \A b \in Block' : b > at' => Stable(b)'
    <3>1. ~changed /\ ~differs
      BY <2>1, <2>2
    <3>2. \A b \in Block : b > at' => b = at \/ b > at
      BY <1>1, <2>1
    <3> QED BY <1>1, <1>2, <1>3, <3>1, <3>2 DEF FixpointOk
  <2>3. changed' \in BOOLEAN
    BY <2>1, Zenon
  <2>4. FixpointOk'
    BY <2>2, <2>3 DEF FixpointOk
  <2> QED BY <1>2, <2>1, <2>4 DEF FrameInv
<1>5. CASE at = 1 /\ (changed \/ differs)
  <2>1. at' = n /\ changed' = FALSE /\ phase' = "fixpoint"
    BY <1>1, <1>5 DEF Fixpoint
  <2>2. \A b \in Block' : ~(b > at')
    BY <1>1, <1>2, <2>1
  <2>3. FixpointOk'
    BY <2>1, <2>2, Zenon DEF FixpointOk
  <2> QED BY <1>2, <2>1, <2>3 DEF FrameInv
<1>6. CASE at = 1 /\ ~changed /\ ~differs
  <2>1. /\ at' = n /\ phase' = "walk" /\ pc' = Len(Code(at'))
        /\ live' = liveOut'[at'] \cup body.blocks[at'].uses
    BY <1>1, <1>6 DEF Fixpoint
  <2>2. \A b \in Block' : Stable(b)'
    <3>1. \A b \in Block : b = at \/ b > at
      BY <1>1, <1>6
    <3> QED BY <1>1, <1>2, <1>3, <1>6, <3>1 DEF FixpointOk
  <2>3. \A b \in Block' : ~(b > at')
    BY <1>1, <1>2, <2>1
  <2>4. /\ pc' \in 0..Len(Code(at)') /\ LiveAt(at, pc + 1)' = live'
        /\ \A r : r \in live' <=> PathLive(at, pc + 1, r)'
        /\ \A k \in DOMAIN Code(at)' : ~(k > pc')
    BY <1>1, <1>2, <2>1, WalkStart
  <2>5. WalkOk'
    BY <2>2, <2>3, <2>4 DEF WalkOk
  <2> QED BY <1>2, <2>1, <2>5 DEF FrameInv
<1>7. at > 1 \/ at = 1
  BY <1>1
<1> QED BY <1>4, <1>5, <1>6, <1>7

LEMMA WalkInstructionInv ==
  ASSUME FrameInv, WalkInstruction
  PROVE  FrameInv'
<1> DEFINE n == Len(Code(at))
<1>1. /\ TablesOk /\ WalkOk /\ phase = "walk" /\ phase' = "walk" /\ at \in Block
      /\ UNCHANGED <<body, at, liveIn, liveOut, afterPhis>>
      /\ n \in Nat /\ DOMAIN Code(at) = 1..n
      /\ pc \in 1..n /\ pc' = pc - 1
      /\ after' = [after EXCEPT ![at][pc] = live]
      /\ live' = Before(Code(at)[pc], live)
  BY BodyFacts DEF FrameInv, WalkInstruction, TablesOk, WalkOk
<1>2. /\ Block' = Block /\ Tracked' = Tracked
      /\ \A b : Code(b)' = Code(b) /\ PhiResults(b)' = PhiResults(b) /\ Stable(b)' = Stable(b)
      /\ \A i : Uses(i)' = Uses(i) /\ Defines(i)' = Defines(i)
      /\ \A i, s : Before(i, s)' = Before(i, s)
  BY <1>1 DEF Block, Code, PhiResults, Phis, Stable, NextOut, NextIn, BlockUses, Tracked,
              BlockDefinitions, Uses, Defines, Successors, Before
<1>3. /\ DOMAIN after' = Block /\ after'[at][pc] = live
      /\ \A b \in Block : DOMAIN after'[b] = DOMAIN Code(b)
      /\ \A b \in Block : b # at => after'[b] = after[b]
      /\ \A k \in DOMAIN Code(at) : k # pc => after'[at][k] = after[at][k]
  BY <1>1 DEF TablesOk
<1>4. TablesOk'
  <2>1. live \subseteq Tracked
    BY <1>1, LiveTyped DEF WalkOk
  <2>2. ASSUME NEW b \in Block, NEW k \in DOMAIN Code(b) PROVE after'[b][k] \subseteq Tracked
    BY <1>1, <1>3, <2>1 DEF TablesOk
  <2> QED BY <1>1, <1>2, <1>3, <2>2 DEF TablesOk
<1>5. \A b \in Block : b # at => \A k : LiveAt(b, k)' = LiveAt(b, k)
  BY <1>1, <1>2, <1>3 DEF LiveAt
<1>6. ASSUME NEW k \in 1..(n + 1), k # pc
      PROVE  LiveAt(at, k)' = LiveAt(at, k)
  BY <1>1, <1>2, <1>3, <1>6 DEF LiveAt
<1>7. \A b \in Block' : Stable(b)'
  BY <1>1, <1>2 DEF WalkOk
<1>8. ASSUME NEW b \in Block', b > at' PROVE Walked(b)'
  <2>1. b \in Block /\ b # at /\ Walked(b)
    BY <1>1, <1>2, <1>8, BodyFacts DEF WalkOk
  <2> QED BY <1>1, <1>2, <1>3, <1>5, <2>1 DEF Walked
<1>9. ASSUME NEW k \in DOMAIN Code(at)', k > pc'
      PROVE  after'[at'][k] = LiveAt(at, k + 1)'
  <2>1. k \in 1..n /\ k + 1 \in 1..(n + 1) /\ k + 1 # pc /\ (k = pc \/ k > pc)
    BY <1>1, <1>2, <1>9
  <2>2. LiveAt(at, k + 1)' = LiveAt(at, k + 1)
    BY <1>6, <2>1
  <2>3. CASE k = pc
    BY <1>1, <1>3, <2>2, <2>3 DEF WalkOk
  <2>4. CASE k > pc
    BY <1>1, <1>3, <2>1, <2>2, <2>4 DEF WalkOk
  <2> QED BY <2>1, <2>3, <2>4
<1>10. live' = LiveAt(at, pc + 1)'
  <2>1. pc' + 1 = pc /\ pc <= n
    BY <1>1
  <2> QED BY <1>1, <1>2, <1>3, <2>1 DEF LiveAt
<1>11. ASSUME NEW r PROVE r \in live' <=> PathLive(at, pc + 1, r)'
  <2>1. pc' + 1 = pc
    BY <1>1
  <2>2. PathLive(at, pc + 1, r)' <=> PathLive(at, pc, r)
    BY <1>1, <1>2, <2>1 DEF PathLive
  <2>3. r \in live <=> PathLive(at, pc + 1, r)
    BY <1>1 DEF WalkOk
  <2> QED BY <1>1, <2>2, <2>3, PathStep DEF Before
<1>12. pc' \in 0..Len(Code(at)')
  BY <1>1, <1>2
<1>13. WalkOk'
  BY <1>7, <1>8, <1>9, <1>10, <1>11, <1>12 DEF WalkOk
<1> QED BY <1>1, <1>4, <1>13 DEF FrameInv

\* At the head of a block the tables and the walk agree.
LEMMA WalkEnd ==
  ASSUME TablesOk, WalkOk, pc = 0
  PROVE  /\ \A k \in DOMAIN Code(at) : after[at][k] = LiveAt(at, k + 1)
         /\ AfterPhisOf(at) = LiveAt(at, 1)
         /\ liveIn[at] = LiveAt(at, 1) \ PhiResults(at)
<1>1. at \in Block /\ Stable(at) /\ DOMAIN Code(at) = 1..Len(Code(at))
  BY BodyFacts DEF TablesOk, WalkOk
<1>2. live = LiveAt(at, 1) /\ \A r : r \in live <=> PathLive(at, 1, r)
  BY DEF WalkOk
<1>3. liveIn[at] = live \ PhiResults(at)
  BY <1>1, <1>2, EntryLive
<1>4. AfterPhisOf(at) = live
  BY <1>3 DEF AfterPhisOf
<1> QED BY <1>1, <1>2, <1>3, <1>4 DEF WalkOk

LEMMA WalkBlockInv ==
  ASSUME FrameInv, WalkBlock
  PROVE  FrameInv'
<1>1. /\ TablesOk /\ WalkOk /\ phase = "walk" /\ pc = 0 /\ at \in Block
      /\ UNCHANGED <<body, liveIn, liveOut, after>>
      /\ afterPhis' = [afterPhis EXCEPT ![at] = AfterPhisOf(at)]
      /\ Len(body.blocks) \in Nat \ {0} /\ Block = 1..Len(body.blocks)
  BY BodyFacts DEF FrameInv, WalkBlock, TablesOk
<1>2. /\ Block' = Block /\ Tracked' = Tracked
      /\ \A b : Code(b)' = Code(b) /\ PhiResults(b)' = PhiResults(b) /\ Stable(b)' = Stable(b)
      /\ \A b, k : LiveAt(b, k)' = LiveAt(b, k)
  BY <1>1 DEF Block, Code, PhiResults, Phis, Stable, NextOut, NextIn, BlockUses, Tracked,
              BlockDefinitions, Uses, Defines, Successors, Before, LiveAt
<1>3. /\ DOMAIN afterPhis' = Block /\ afterPhis'[at] = LiveAt(at, 1)
      /\ \A b \in Block : b # at => afterPhis'[b] = afterPhis[b]
  BY <1>1, WalkEnd DEF TablesOk
<1>4. ASSUME NEW b \in Block, b >= at PROVE Walked(b)'
  <2>1. CASE b = at
    <3>1. /\ \A k \in DOMAIN Code(b) : after[b][k] = LiveAt(b, k + 1)
          /\ afterPhis'[b] = LiveAt(b, 1)
          /\ liveIn[b] = LiveAt(b, 1) \ PhiResults(b)
      BY <1>1, <1>3, <2>1, WalkEnd
    <3> QED BY <1>1, <1>2, <3>1 DEF Walked
  <2>2. CASE b # at
    <3>1. Walked(b)
      BY <1>1, <1>4, <2>2 DEF WalkOk
    <3> QED BY <1>1, <1>2, <1>3, <2>2, <3>1 DEF Walked
  <2> QED BY <2>1, <2>2
<1>5. \A b \in Block : Stable(b)'
  BY <1>1, <1>2 DEF WalkOk
<1>6. at' \in Block /\ phase' \in {"walk", "run"} => TablesOk'
  BY <1>1, <1>2, <1>3 DEF TablesOk
<1>7. CASE at > 1
  <2>1. /\ at' = at - 1 /\ pc' = Len(Code(at')) /\ phase' = "walk"
        /\ live' = liveOut[at'] \cup body.blocks[at'].uses
    BY <1>1, <1>7 DEF WalkBlock
  <2>2. at' \in Block
    BY <1>1, <1>7, <2>1
  <2>3. /\ pc' \in 0..Len(Code(at)') /\ LiveAt(at, pc + 1)' = live'
        /\ \A r : r \in live' <=> PathLive(at, pc + 1, r)'
        /\ \A k \in DOMAIN Code(at)' : ~(k > pc')
    BY <1>1, <2>1, <2>2, WalkStart
  <2>4. \A b \in Block' : b > at' => Walked(b)'
    <3>1. \A b \in Block : b > at' => b >= at
      BY <1>1, <2>1
    <3> QED BY <1>2, <1>4, <3>1
  <2>5. WalkOk'
    BY <1>2, <1>5, <2>3, <2>4 DEF WalkOk
  <2> QED BY <1>6, <2>1, <2>2, <2>5 DEF FrameInv
<1>8. CASE ~(at > 1)
  <2> DEFINE argument == [r \in Root |-> IF r \in body.params THEN 0 ELSE Null]
             candidates == body.params \cup UNION {liveOut[p] : p \in Predecessors(1)}
             clears == candidates \ LiveAt(1, 1)
  <2>1. at = 1 /\ 1 \in Block
    BY <1>1, <1>8
  <2>2. /\ at' = 1 /\ pc' = 1 /\ phase' = "run" /\ value' = argument
        /\ slot' = Zeroed(argument, BlockEntryClears(1)')
    BY <1>1, <1>8 DEF WalkBlock
  <2>3. BlockEntryClears(1)' = clears
    BY <1>1, <1>2, <1>3, <2>1 DEF BlockEntryClears, Predecessors, Successors
  <2>4. \A r \in Root : slot'[r] = IF r \in clears THEN Null ELSE value'[r]
    BY <2>2, <2>3 DEF Zeroed
  <2>5. LiveNow' = LiveAt(1, 1)
    <3>1. LiveNow' = LiveAt(at, pc)'
      BY DEF LiveNow, LiveAt
    <3>2. LiveAt(at, pc)' = LiveAt(1, 1)'
      BY <2>2 DEF LiveAt
    <3> QED BY <1>2, <3>1, <3>2
  <2> HIDE DEF argument, clears, candidates
  <2>6. LiveAt(1, 1) \subseteq Tracked
    BY <1>1, <2>1, LiveTyped, BodyFacts
  <2>7. \A r \in LiveAt(1, 1) : r \in Root /\ r \notin clears
    BY <2>6 DEF clears, Tracked
  <2>8. \A r \in body.storage : r \in Root /\ r \notin clears
    <3>1. candidates \subseteq Tracked
      BY <1>1, BodyFacts DEF candidates, Predecessors, TablesOk
    <3> QED BY <1>1, <3>1, BodyFacts DEF clears, Tracked
  <2>9. \A r \in Root : value'[r] # Dangling
    BY <2>2, RootConstants DEF argument
  <2>10. SlotsOk(LiveNow)'
    BY <1>1, <2>4, <2>5, <2>7, <2>8, <2>9 DEF SlotsOk
  <2>11. ASSUME NEW r \in Tracked, slot'[r] # Null PROVE r \in LiveAt(1, 1)
    <3>1. r \in Root /\ r \notin clears /\ value'[r] # Null
      BY <2>4, <2>11 DEF Tracked
    <3>2. r \in body.params
      BY <2>2, <3>1 DEF argument
    <3> QED BY <3>1, <3>2 DEF clears, candidates
  <2>12. NoGarbage(LiveNow)'
    BY <1>2, <2>5, <2>11 DEF NoGarbage
  <2>13. Len(Code(1)) \in Nat /\ Code(at)' = Code(1)
    BY <1>1, <2>1, <2>2, BodyFacts DEF Code
  <2>14. RunOk'
    BY <2>2, <2>10, <2>12, <2>13 DEF RunOk
  <2>15. AnalysisOk'
    <3>1. \A b \in Block : b >= at
      BY <1>1, <2>1
    <3> QED BY <1>2, <1>4, <1>5, <3>1 DEF AnalysisOk
  <2> QED BY <1>6, <2>1, <2>2, <2>14, <2>15 DEF FrameInv
<1> QED BY <1>7, <1>8

-----------------------------------------------------------------------------
(* The emitted code.                                                       *)

\* What survives a collection: the roots whose slots hold them.
LEMMA CollectedLive ==
  ASSUME TablesOk, NEW roots \in SUBSET Root, SlotsOk(roots),
         NEW r \in roots \cup body.storage
  PROVE  Collected(value)[r] = value[r]
BY BodyFacts DEF SlotsOk, Collected, Survives

\* The roots of target and their slots get the same content, and the roots an
\* instruction touched last are zeroed.
Assigned(i, later, held, target, content) ==
  /\ value' = [r \in Root |-> IF r \in target THEN content[r] ELSE held[r]]
  /\ slot' = Zeroed([r \in Root |-> IF r \in target THEN content[r] ELSE slot[r]],
                    DeadRoots(i, later))

\* The slots are right when the roots of later are live.
SlotsRight(later) ==
  /\ \A r \in later \cup body.storage : slot'[r] = value'[r] /\ value'[r] # Dangling
  /\ \A r \in Tracked : slot'[r] # Null => r \in later \cup UnusedPhis

\* An instruction that writes the same content to a set of roots and to their
\* slots, and zeroes the roots it touched last, keeps the slots right.
LEMMA Assign ==
  ASSUME TablesOk, NEW i, NEW later, later \subseteq Tracked, NEW held,
         NEW target, target \subseteq Root, NEW content,
         SlotsOk(Before(i, later)), NoGarbage(Before(i, later)),
         \A r \in Before(i, later) \cup body.storage : held[r] = value[r],
         Defines(i) \subseteq target, target \cap Tracked \subseteq Uses(i) \cup Defines(i),
         \A r \in target : content[r] # Dangling,
         Assigned(i, later, held, target, content)
  PROVE  SlotsRight(later)
<1>1. /\ later \subseteq Root /\ body.storage \subseteq Root
      /\ body.storage \cap Tracked = {}
  BY BodyFacts DEF Tracked
<1>2. \A r \in Root :
        /\ value'[r] = IF r \in target THEN content[r] ELSE held[r]
        /\ slot'[r] = IF r \in DeadRoots(i, later) THEN Null
                      ELSE IF r \in target THEN content[r] ELSE slot[r]
  BY DEF Zeroed, Assigned
<1>3. ASSUME NEW r \in later \cup body.storage
      PROVE  slot'[r] = value'[r] /\ value'[r] # Dangling
  <2>1. r \in Root /\ r \notin DeadRoots(i, later)
    BY <1>1 DEF DeadRoots, Uses, Defines
  <2>2. CASE r \in target
    BY <1>2, <2>1, <2>2
  <2>3. CASE r \notin target
    <3>1. r \in Before(i, later) \cup body.storage
      BY <2>3 DEF Before
    <3> QED BY <1>2, <2>1, <2>3, <3>1 DEF SlotsOk
  <2> QED BY <2>2, <2>3
<1>4. ASSUME NEW r \in Tracked, slot'[r] # Null, r \notin later
      PROVE  r \in UnusedPhis
  <2>1. r \in Root
    BY DEF Tracked
  <2>2. r \notin Uses(i) \cup Defines(i)
    BY <1>2, <1>4, <2>1 DEF DeadRoots
  <2>3. r \notin target /\ slot'[r] = slot[r]
    BY <1>2, <1>4, <2>1, <2>2
  <2>4. r \notin Before(i, later)
    BY <1>4, <2>2 DEF Before
  <2> QED BY <1>4, <2>3, <2>4 DEF NoGarbage
<1> QED BY <1>3, <1>4 DEF SlotsRight

LEMMA EffectSlots ==
  ASSUME TablesOk, NEW i, WellFormedInstruction(body, i), NEW held,
         NEW later, later = after[at][pc], later \subseteq Tracked,
         SlotsOk(Before(i, later)), NoGarbage(Before(i, later)),
         \A r \in Before(i, later) \cup body.storage : held[r] = value[r],
         Effect(i, held, slot)
  PROVE  SlotsRight(later)
<1> DEFINE L == Before(i, later)
<1>1. i.use \subseteq Root /\ i.def \subseteq Root /\ Uses(i) \subseteq L
  BY DEF WellFormedInstruction, Before
<1>2. Defines(i) \subseteq i.def /\ i.def \cap Tracked \subseteq Uses(i) \cup Defines(i)
  BY DEF Defines
<1>3. \A r \in i.use : r \in L \cup body.storage
  BY <1>1 DEF Uses, Tracked
<1>4. \A o \in Object : o # Dangling
  BY RootConstants
<1>5. CASE i.op = "new"
  <2>1. PICK o \in Object : /\ value' = Written(held, i.def, o)
                            /\ slot' = Zeroed(Written(slot, i.def, o), DeadRoots(i, later))
    BY <1>5 DEF Effect
  <2> DEFINE content == [r \in Root |-> o]
  <2>2. Assigned(i, later, held, i.def, content)
    BY <2>1 DEF Written, Assigned
  <2>3. \A r \in i.def : content[r] # Dangling
    BY <1>1, <1>4
  <2> HIDE DEF content
  <2> QED BY <1>1, <1>2, <2>2, <2>3, Assign
<1>6. CASE i.op = "try"
  <2>1. PICK o \in Object, failed \in BOOLEAN :
          LET target == IF failed THEN i.def ELSE {i.to}
              null == IF failed THEN {} ELSE i.def
          IN  /\ value' = Written(Written(held, target, o), null, Null)
              /\ slot' = Zeroed(Written(Written(slot, target, o), null, Null),
                                DeadRoots(i, later))
    BY <1>6 DEF Effect
  <2> DEFINE T == IF failed THEN i.def ELSE i.def \cup {i.to}
             content == [r \in Root |-> IF failed THEN o ELSE IF r \in i.def THEN Null ELSE o]
  <2>2. Assigned(i, later, held, T, content)
    <3>1. CASE failed
      BY <2>1, <3>1 DEF Written, Assigned
    <3>2. CASE ~failed
      BY <2>1, <3>2 DEF Written, Assigned
    <3> QED BY <3>1, <3>2
  <2>3. i.to \in body.storage /\ body.storage \subseteq Root /\ Null # Dangling
    BY <1>6, BodyFacts, RootConstants DEF WellFormedInstruction
  <2>4. T \in SUBSET Root /\ Defines(i) \subseteq T /\ T \cap Tracked \subseteq Uses(i) \cup Defines(i)
    BY <1>1, <1>2, <2>3 DEF Tracked
  <2>5. \A r \in T : content[r] # Dangling
    BY <1>4, <2>3, <2>4
  <2> HIDE DEF content, T
  <2> QED BY <2>2, <2>4, <2>5, Assign
<1>7. CASE i.op \in {"copy", "patch"}
  <2> DEFINE T == IF i.op = "copy" THEN i.def ELSE {i.to}
             content == [r \in Root |-> value[i.from]]
  <2>1. i.from \in L \cup body.storage
    BY <1>3, <1>7 DEF WellFormedInstruction
  <2>2. held[i.from] = value[i.from] /\ Read(i.from) = value[i.from] /\ value[i.from] # Dangling
    BY <2>1 DEF SlotsOk, Read
  <2>3. /\ value' = Written(held, T, held[i.from])
        /\ slot' = Zeroed(Written(slot, T, Read(i.from)), DeadRoots(i, later))
    BY <1>7 DEF Effect
  <2>4. Assigned(i, later, held, T, content)
    BY <2>2, <2>3 DEF Written, Assigned
  <2>5. T \in SUBSET Root /\ Defines(i) \subseteq T /\ T \cap Tracked \subseteq Uses(i) \cup Defines(i)
    BY <1>1, <1>2, <1>7 DEF WellFormedInstruction, Uses, Defines
  <2>6. \A r \in T : content[r] # Dangling
    BY <2>2, <2>5
  <2> HIDE DEF content, T
  <2> QED BY <2>4, <2>5, <2>6, Assign
<1>8. CASE i.op \in {"read", "call"}
  <2>1. value' = held /\ slot' = Zeroed(slot, DeadRoots(i, later)) /\ i.def = {}
    BY <1>8 DEF Effect, WellFormedInstruction
  <2>2. ASSUME NEW r \in later \cup body.storage
        PROVE  slot'[r] = value'[r] /\ value'[r] # Dangling
    <3>1. r \in Root /\ r \in L \cup body.storage /\ r \notin DeadRoots(i, later)
      BY <2>1, BodyFacts DEF Before, Defines, DeadRoots, Uses, Tracked
    <3> QED BY <2>1, <3>1 DEF SlotsOk, Zeroed
  <2>3. ASSUME NEW r \in Tracked, slot'[r] # Null PROVE r \in later \cup UnusedPhis
    <3>1. r \in Root /\ r \notin DeadRoots(i, later) /\ slot[r] # Null
      BY <2>1, <2>3 DEF Zeroed, Tracked
    <3> QED BY <3>1 DEF NoGarbage, Before, DeadRoots
  <2> QED BY <2>2, <2>3 DEF SlotsRight
<1>9. CASE i.op = "declare"
  <2> DEFINE content == [r \in Root |-> Null]
  <2>1. /\ value' = Written(held, i.def, Null)
        /\ slot' = Zeroed(slot, DeadRoots(i, later))
    BY <1>9 DEF Effect
  <2>2. i.use = {} /\ i.def \subseteq body.symbols /\ body.symbols \subseteq Tracked
    BY <1>9, BodyFacts DEF WellFormedInstruction
  <2>3. ASSUME NEW r \in i.def PROVE slot[r] = Null
    <3>1. r \in Tracked /\ r \notin L
      BY <2>2 DEF Before, Defines, Uses
    <3>2. r \notin UnusedPhis
      BY <2>2, BodyFacts DEF UnusedPhis
    <3> QED BY <3>1, <3>2 DEF NoGarbage
  <2>4. Assigned(i, later, held, i.def, content)
    BY <2>1, <2>3 DEF Written, Zeroed, Assigned
  <2>5. \A r \in i.def : content[r] # Dangling
    BY <1>1, RootConstants
  <2> HIDE DEF content
  <2> QED BY <1>1, <1>2, <2>4, <2>5, Assign
<1> QED BY <1>5, <1>6, <1>7, <1>8, <1>9 DEF Effect

LEMMA ExecuteInv ==
  ASSUME FrameInv, Execute
  PROVE  FrameInv'
<1> DEFINE i == Code(at)[pc]
           later == after[at][pc]
           n == Len(Code(at))
<1>1. /\ TablesOk /\ AnalysisOk /\ RunOk /\ phase = "run" /\ at \in Block
      /\ n \in Nat /\ DOMAIN Code(at) = 1..n /\ pc \in 1..n
      /\ UNCHANGED <<body, phase, at, analysis>> /\ pc' = pc + 1
  BY BodyFacts DEF FrameInv, Execute, TablesOk, RunOk
<1>2. LiveNow = Before(i, later) /\ later = LiveAt(at, pc + 1) /\ later \subseteq Tracked
  BY <1>1 DEF LiveNow, AnalysisOk, Walked, TablesOk
<1>3. WellFormedInstruction(body, i)
  BY <1>1, InstructionFacts
<1>4. SlotsOk(Before(i, later)) /\ NoGarbage(Before(i, later))
  BY <1>1, <1>2 DEF RunOk
<1>5. Before(i, later) \subseteq Root
  BY <1>2 DEF Before, Uses, Tracked
<1> HIDE DEF i, later
<1>6. SlotsRight(later)
  <2>1. CASE Effect(i, value, slot)
    BY <1>1, <1>2, <1>3, <1>4, <2>1, EffectSlots DEF later
  <2>2. CASE Effect(i, Collected(value), slot)
    <3>1. \A r \in Before(i, later) \cup body.storage : Collected(value)[r] = value[r]
      BY <1>1, <1>4, <1>5, CollectedLive
    <3> QED BY <1>1, <1>2, <1>3, <1>4, <2>2, <3>1, EffectSlots DEF later
  <2> QED BY <2>1, <2>2 DEF Execute, i
<1>7. LiveNow' = later
  <2>1. \A b, k : LiveAt(b, k)' = LiveAt(b, k)
    BY <1>1, SameAnalysis
  <2>2. ASSUME NEW b, b = at, NEW k, k = pc + 1 PROVE LiveNow' = LiveAt(b, k)
    <3>1. LiveNow' = LiveAt(b, k)'
      BY <1>1, <2>2 DEF LiveNow, LiveAt
    <3> QED BY <2>1, <3>1
  <2> QED BY <1>2, <2>2
<1>8. RunOk'
  <2>1. SlotsOk(LiveNow)' /\ NoGarbage(LiveNow)'
    BY <1>1, <1>6, <1>7, SameAnalysis DEF SlotsRight, SlotsOk, NoGarbage
  <2>2. pc' \in 1..(Len(Code(at)') + 1)
    BY <1>1 DEF Code
  <2> QED BY <2>1, <2>2 DEF RunOk
<1> QED BY <1>1, <1>8, SameAnalysis, SameTables DEF FrameInv

\* Across an edge: phi results take their operands, the rest stays, and what
\* is no longer live is zeroed.
LEMMA BranchInv ==
  ASSUME FrameInv, NEW s \in Block, Branch(s)
  PROVE  FrameInv'
<1> DEFINE head == LiveAt(s, 1)
           clears == BlockEntryClears(s)
<1>1. /\ TablesOk /\ AnalysisOk /\ RunOk /\ phase = "run" /\ at \in Block
      /\ s \in Successors(at) /\ ~(pc <= Len(Code(at)))
      /\ UNCHANGED <<body, phase, analysis>> /\ at' = s /\ pc' = 1
  BY BodyFacts DEF FrameInv, Branch, TablesOk, RunOk
<1>2. LiveNow = liveOut[at] /\ liveOut[at] = NextOut(at)
  <2>1. body.blocks[at].uses = {}
    BY <1>1, BodyFacts
  <2> QED BY <1>1, <2>1 DEF LiveNow, AnalysisOk, Stable
<1>3. afterPhis[s] = head /\ liveIn[s] = head \ PhiResults(s) /\ head \subseteq Tracked
  BY <1>1, LiveTyped, BodyFacts DEF AnalysisOk, Walked
<1>4. \A r \in Root :
        /\ value'[r] = IF r \in PhiResults(s) THEN value[Phis(s)[r][at]] ELSE value[r]
        /\ slot'[r] = IF r \in clears THEN Null
                      ELSE IF r \in PhiResults(s) THEN Read(Phis(s)[r][at]) ELSE slot[r]
  BY DEF Branch, Zeroed, PhiRead
<1>5. \A p \in PhiResults(s) : Phis(s)[p][at] \in LiveNow
  BY <1>1, <1>2 DEF NextOut
<1>6. liveIn[s] \subseteq LiveNow
  BY <1>1, <1>2 DEF NextOut
<1>7. clears \cap head = {} /\ clears \subseteq Tracked
  BY <1>1, <1>3, BodyFacts DEF BlockEntryClears, Predecessors, TablesOk
<1>8. liveOut[at] \ head \subseteq clears
  BY <1>1, <1>3 DEF BlockEntryClears, Predecessors
<1>9. \A r \in LiveNow \cup body.storage :
        slot[r] = value[r] /\ value[r] # Dangling /\ Read(r) = value[r]
  BY <1>1 DEF RunOk, SlotsOk, Read
<1> HIDE DEF head, clears
<1>10. ASSUME NEW r \in head \cup body.storage
       PROVE  slot'[r] = value'[r] /\ value'[r] # Dangling
  <2>1. r \in Root /\ r \notin clears
    BY <1>1, <1>3, <1>7, BodyFacts DEF Tracked
  <2>2. CASE r \in PhiResults(s)
    BY <1>4, <1>5, <1>9, <2>1, <2>2
  <2>3. CASE r \notin PhiResults(s)
    <3>1. r \in LiveNow \cup body.storage
      BY <1>3, <1>6, <2>3
    <3> QED BY <1>4, <1>9, <2>1, <2>3, <3>1
  <2> QED BY <2>2, <2>3
<1>11. ASSUME NEW r \in Tracked, slot'[r] # Null, r \notin head
       PROVE  r \in UnusedPhis
  <2>1. r \in Root /\ r \notin clears
    BY <1>4, <1>11 DEF Tracked
  <2>2. CASE r \in PhiResults(s)
    BY <1>3, <1>11, <2>2 DEF UnusedPhis
  <2>3. CASE r \notin PhiResults(s)
    <3>1. slot[r] # Null
      BY <1>4, <1>11, <2>1, <2>3
    <3> QED BY <1>1, <1>2, <1>8, <1>11, <2>1, <3>1 DEF RunOk, NoGarbage
  <2> QED BY <2>2, <2>3
<1>12. LiveNow' = head
  <2>1. \A b, k : LiveAt(b, k)' = LiveAt(b, k)
    BY <1>1, SameAnalysis
  <2>2. LiveNow' = LiveAt(s, 1)'
    BY <1>1 DEF LiveNow, LiveAt
  <2> QED BY <2>1, <2>2 DEF head
<1>13. RunOk'
  <2>1. SlotsOk(LiveNow)' /\ NoGarbage(LiveNow)'
    BY <1>1, <1>10, <1>11, <1>12, SameAnalysis DEF SlotsOk, NoGarbage
  <2>2. Len(Code(s)) \in Nat /\ Code(at)' = Code(s)
    BY <1>1, BodyFacts DEF Code
  <2> QED BY <1>1, <2>1, <2>2 DEF RunOk
<1> QED BY <1>1, <1>13, SameAnalysis, SameTables DEF FrameInv

LEMMA NextInv == FrameInv /\ [Next]_vars => FrameInv'
<1> SUFFICES ASSUME FrameInv, [Next]_vars PROVE FrameInv'
  OBVIOUS
<1>1. CASE UNCHANGED vars
  <2>1. UNCHANGED <<body, analysis>> /\ UNCHANGED <<phase, at, pc, changed, live, value, slot>>
    BY <1>1 DEF vars, analysis
  <2>2. TablesOk'
    BY <2>1, SameTables DEF FrameInv, TablesOk
  <2>3. /\ \A b : Stable(b)' <=> Stable(b)
        /\ \A b : Walked(b)' <=> Walked(b)
    BY <2>1, SameAnalysis DEF analysis, Stable, Walked, NextOut, NextIn, BlockUses,
       BlockDefinitions, Uses, Defines
  <2>4. FixpointOk' <=> FixpointOk
    BY <2>1, <2>3, SameAnalysis DEF FixpointOk
  <2>5. \A r : PathLive(at, pc + 1, r)' <=> PathLive(at, pc + 1, r)
    BY <2>1 DEF analysis, PathLive, Code, Uses, Defines, Tracked
  <2>6. LiveNow' = LiveNow /\ LiveAt(at, pc + 1)' = LiveAt(at, pc + 1)
    BY <2>1 DEF analysis, LiveNow, LiveAt, Before, Code, Uses, Defines, Tracked
  <2>7. (\A k \in DOMAIN Code(at) : k > pc => after[at][k] = LiveAt(at, k + 1)) =>
          \A k \in DOMAIN Code(at)' : k > pc' => after'[at'][k] = LiveAt(at, k + 1)'
    BY <2>1 DEF analysis, LiveAt, Before, Code, Uses, Defines, Tracked
  <2>8. WalkOk => WalkOk'
    BY <2>1, <2>3, <2>5, <2>6, <2>7, SameAnalysis DEF WalkOk
  <2>9. RunOk => RunOk'
    BY <2>1, <2>6, SameAnalysis DEF RunOk, SlotsOk, NoGarbage
  <2> QED BY <2>1, <2>2, <2>4, <2>8, <2>9, SameAnalysis DEF FrameInv
<1>2. CASE Leave
  <2>1. UNCHANGED <<body, at, analysis>> /\ phase' = "done" /\ TablesOk
    BY <1>2 DEF Leave, FrameInv
  <2> QED BY <2>1, SameTables DEF FrameInv, TablesOk
<1> QED BY <1>1, <1>2, FixpointInv, WalkInstructionInv, WalkBlockInv, ExecuteInv, BranchInv
        DEF Next

-----------------------------------------------------------------------------
\* FrameInv holds for every well formed body and every run of its code: the
\* tables solve the liveness equations when the walk starts, agree with the
\* walk when the code is written, and describe the slots while it runs
\* (analyze_gc_liveness and the emit_gc_ functions).
THEOREM FrameInvariant == Spec => []FrameInv
<1>1. Init => FrameInv
  BY InitInv
<1>2. FrameInv /\ [Next]_vars => FrameInv'
  BY NextInv
<1> QED BY <1>1, <1>2, PTL DEF Spec

\* Whatever the body, no operand the emitted code reads was freed or zeroed
\* (emit_gc_dead_roots, emit_gc_block_entry_clears, emit_gc_value_root).
THEOREM ReadsStayExact == Spec => []ReadsExact
<1>1. FrameInv => ReadsExact
  <2> SUFFICES ASSUME FrameInv, phase = "run", NEW r \in Operands
               PROVE  r \in LiveNow \cup body.storage
    BY DEF ReadsExact, FrameInv, RunOk, SlotsOk
  <2>1. TablesOk /\ AnalysisOk /\ RunOk /\ at \in Block
    BY DEF FrameInv, TablesOk
  <2>2. CASE pc <= Len(Code(at))
    <3>1. pc \in DOMAIN Code(at)
      BY <2>1, <2>2, BodyFacts DEF RunOk
    <3>2. r \in Root /\ r \in Code(at)[pc].use
      BY <2>1, <2>2, <3>1, InstructionFacts DEF Operands, WellFormedInstruction
    <3> QED BY <2>2, <3>2 DEF LiveNow, Before, Uses, Tracked
  <2>3. CASE ~(pc <= Len(Code(at)))
    <3>1. liveOut[at] = NextOut(at)
      BY <2>1 DEF AnalysisOk, Stable
    <3> QED BY <2>3, <3>1 DEF Operands, LiveNow, NextOut
  <2> QED BY <2>2, <2>3
<1> QED BY <1>1, FrameInvariant, PTL

\* Whatever the body, a slot holds an object only while its root is live or it
\* is the root of a phi that nothing uses: the frame keeps no garbage.
THEOREM SlotsStayPrecise == Spec => []SlotsPrecise
<1>1. FrameInv => SlotsPrecise
  BY DEF FrameInv, RunOk, NoGarbage, SlotsPrecise
<1> QED BY <1>1, FrameInvariant, PTL
=============================================================================
