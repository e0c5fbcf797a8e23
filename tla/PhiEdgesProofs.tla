--------------------------- MODULE PhiEdgesProofs ---------------------------
(***************************************************************************)
(* Proofs about PhiEdges for every well formed body: any number of blocks, *)
(* any switch, any placement of phis and split instructions.               *)
(***************************************************************************)
EXTENDS PhiEdges, FiniteSetTheorems, TLAPS

-----------------------------------------------------------------------------
(* Labels. *)

\* Labels of different kinds differ, and a label determines its blocks.
LEMMA LabelsDiffer ==
  /\ \A a, b : BlockLabel(a) = BlockLabel(b) => a = b
  /\ \A a, b : JoinLabel(a) = JoinLabel(b) => a = b
  /\ \A a, b : GuardLabel(a) = GuardLabel(b) => a = b
  /\ \A a, b, c, d : BridgeLabel(a, b) = BridgeLabel(c, d) => a = c /\ b = d
  /\ \A a, b : /\ BlockLabel(a) # JoinLabel(b) /\ BlockLabel(a) # GuardLabel(b)
               /\ JoinLabel(a) # GuardLabel(b)
  /\ \A a, b, c : /\ BlockLabel(a) # BridgeLabel(b, c)
                  /\ JoinLabel(a) # BridgeLabel(b, c)
                  /\ GuardLabel(a) # BridgeLabel(b, c)
<1>1. /\ \A a, b : BlockLabel(a) = BlockLabel(b) => a = b
      /\ \A a, b : JoinLabel(a) = JoinLabel(b) => a = b
      /\ \A a, b : GuardLabel(a) = GuardLabel(b) => a = b
      /\ \A a, b, c, d : BridgeLabel(a, b) = BridgeLabel(c, d) => a = c /\ b = d
  BY DEF BlockLabel, JoinLabel, GuardLabel, BridgeLabel
<1>2. /\ \A a : BlockLabel(a)[1] = "bb" /\ JoinLabel(a)[1] = "join" /\ GuardLabel(a)[1] = "guard"
      /\ \A a, b : BridgeLabel(a, b)[1] = "edge"
  BY DEF BlockLabel, JoinLabel, GuardLabel, BridgeLabel
<1> QED BY <1>1, <1>2

-----------------------------------------------------------------------------
(* Sequences. *)

IsList(s) == Len(s) \in Nat /\ DOMAIN s = 1..Len(s) /\ s \in Seq(Range(s))

\* No element of X occurs twice in s.
Once(s, X) == \A j, k \in DOMAIN s : s[j] = s[k] /\ s[j] \in X => j = k

LEMMA Concatenated ==
  ASSUME NEW s, NEW t, IsList(s), IsList(t)
  PROVE  IsList(s \o t) /\ Range(s \o t) = Range(s) \cup Range(t)
<1> DEFINE u == s \o t
           T == Range(s) \cup Range(t)
<1>1. s \in Seq(T) /\ t \in Seq(T)
  BY DEF IsList
<1>2. /\ u \in Seq(T) /\ Len(u) = Len(s) + Len(t) /\ DOMAIN u = 1..(Len(s) + Len(t))
      /\ \A k \in 1..Len(s) : u[k] = s[k]
      /\ \A k \in 1..Len(t) : u[Len(s) + k] = t[k]
  BY <1>1 DEF IsList
<1> HIDE DEF u
<1>3. Range(u) \subseteq T
  BY <1>2 DEF Range
<1>4. \A k \in 1..Len(s) : k \in DOMAIN u /\ u[k] = s[k]
  BY <1>2 DEF IsList
<1>5. \A k \in 1..Len(t) : Len(s) + k \in DOMAIN u /\ u[Len(s) + k] = t[k]
  BY <1>2 DEF IsList
<1>6. T \subseteq Range(u)
  BY <1>4, <1>5 DEF Range, IsList
<1>7. Len(u) \in Nat
  BY <1>2
<1> QED BY <1>2, <1>3, <1>6, <1>7 DEF IsList, u

LEMMA ConcatenatedOnce ==
  ASSUME NEW s, NEW t, NEW X, IsList(s), IsList(t), Once(s, X), Once(t, X),
         \A x \in X : ~(x \in Range(s) /\ x \in Range(t))
  PROVE  Once(s \o t, X)
<1> DEFINE u == s \o t
           T == Range(s) \cup Range(t)
<1>1. s \in Seq(T) /\ t \in Seq(T) /\ Len(s) \in Nat /\ Len(t) \in Nat
  BY DEF IsList
<1>2. /\ DOMAIN u = 1..(Len(s) + Len(t))
      /\ \A k \in 1..Len(s) : u[k] = s[k]
      /\ \A k \in (Len(s) + 1)..(Len(s) + Len(t)) : u[k] = t[k - Len(s)]
  BY <1>1
<1> HIDE DEF u
<1> SUFFICES ASSUME NEW j \in DOMAIN u, NEW k \in DOMAIN u, u[j] = u[k], u[j] \in X
             PROVE  j = k
  BY DEF Once, u
<1>3. \A i \in DOMAIN u : \/ i \in DOMAIN s /\ u[i] = s[i] /\ u[i] \in Range(s)
                          \/ /\ i \notin DOMAIN s /\ i - Len(s) \in DOMAIN t
                             /\ u[i] = t[i - Len(s)] /\ u[i] \in Range(t)
  <2> SUFFICES ASSUME NEW i \in DOMAIN u
               PROVE  \/ i \in DOMAIN s /\ u[i] = s[i] /\ u[i] \in Range(s)
                      \/ /\ i \notin DOMAIN s /\ i - Len(s) \in DOMAIN t
                         /\ u[i] = t[i - Len(s)] /\ u[i] \in Range(t)
    OBVIOUS
  <2>1. CASE i <= Len(s)
    <3>1. i \in DOMAIN s /\ u[i] = s[i]
      BY <1>1, <1>2, <2>1 DEF IsList
    <3> QED BY <3>1 DEF Range
  <2>2. CASE i > Len(s)
    <3>1. i \notin DOMAIN s /\ i - Len(s) \in DOMAIN t /\ u[i] = t[i - Len(s)]
      BY <1>1, <1>2, <2>2 DEF IsList
    <3> QED BY <3>1 DEF Range
  <2> QED BY <1>1, <1>2, <2>1, <2>2
<1>4. CASE j \in DOMAIN s /\ k \in DOMAIN s
  BY <1>3, <1>4 DEF Once
<1>5. CASE j \notin DOMAIN s /\ k \notin DOMAIN s
  <2>1. j - Len(s) = k - Len(s)
    BY <1>3, <1>5 DEF Once
  <2> QED BY <1>1, <1>2, <2>1
<1>6. CASE j \in DOMAIN s /\ k \notin DOMAIN s
  BY <1>3, <1>6
<1>7. CASE j \notin DOMAIN s /\ k \in DOMAIN s
  BY <1>3, <1>7
<1> QED BY <1>4, <1>5, <1>6, <1>7

\* An enumeration of a finite set.
LEMMA Enumerated ==
  ASSUME NEW S, IsFiniteSet(S)
  PROVE  /\ IsList(SetToSeq(S)) /\ IsInjective(SetToSeq(S))
         /\ Range(SetToSeq(S)) = S
<1> DEFINE n == Cardinality(S)
<1>1. n \in Nat /\ ExistsBijection(1..n, S)
  BY FS_CardinalityType
<1>2. PICK f : f \in Bijection(1..n, S)
  BY <1>1 DEF ExistsBijection
<1>3. f \in [1..n -> S] /\ IsInjective(f)
  BY <1>2 DEF Bijection, Injection, IsInjective
<1>4. SetToSeq(S) \in [1..n -> S] /\ IsInjective(SetToSeq(S))
  BY <1>3 DEF SetToSeq
<1> DEFINE g == SetToSeq(S)
<1> HIDE DEF g
<1>5. g \in [1..n -> S] /\ IsInjective(g)
  BY <1>4 DEF g
<1>6. Len(g) = n /\ DOMAIN g = 1..n /\ g \in Seq(Range(g))
  BY <1>1, <1>5 DEF Range
<1>7. g \in Bijection(1..n, Range(g))
  BY <1>5, <1>6 DEF Bijection, Injection, Surjection, IsInjective, Range
<1>8. IsFiniteSet(1..n) /\ Cardinality(1..n) = n
  BY <1>1, FS_Interval
<1>9. Cardinality(Range(g)) = n
  BY <1>7, <1>8, FS_Bijection DEF ExistsBijection
<1>10. Range(g) \subseteq S
  BY <1>5 DEF Range
<1>11. Range(g) = S
  BY <1>1, <1>9, <1>10, FS_Subset
<1> QED BY <1>1, <1>5, <1>6, <1>11 DEF IsList, g

-----------------------------------------------------------------------------
(* What one block writes. *)

\* The labels of block b.
LabelsOf(b) ==
  {BlockLabel(b)}
  \cup (IF body[b].split THEN {JoinLabel(b)} ELSE {})
  \cup (IF body[b].term = "switch" /\ GuardsDefault(b) THEN {GuardLabel(b)} ELSE {})

\* The branches of block b, with the one into the block split off.
EdgesOf(b) ==
  (IF body[b].split THEN {<<BlockLabel(b), JoinLabel(b)>>} ELSE {})
  \cup {<<EndLabel(b), EdgeLabel(b, t)>> : t \in Range(body[b].targets)}
  \cup (IF body[b].term # "switch" THEN {}
        ELSE IF GuardsDefault(b)
        THEN {<<EndLabel(b), GuardLabel(b)>>,
              <<GuardLabel(b), EdgeLabel(b, body[b].default)>>,
              <<GuardLabel(b), EdgeLabel(b, body[b].invalid)>>}
        ELSE {<<EndLabel(b), EdgeLabel(b, body[b].default)>>})

\* Branches between blocks that must be unique for a phi: those of bridges and
\* those of terminators other than switches.
Singles ==
  {<<BlockLabel(p), BlockLabel(s)>> : p \in {q \in Block : body[q].term # "switch"}, s \in Block}
  \cup {<<BridgeLabel(p, s), BlockLabel(s)>> : p \in Block, s \in Block}

LEMMA BlockFacts ==
  ASSUME body \in Bodies, NEW b \in Block
  PROVE  /\ Len(body) \in Nat /\ Block = 1..Len(body) /\ IsFiniteSet(Block)
         /\ WellFormedBlock(body[b], Block)
         /\ None \notin Block
         /\ body[b].targets \in Seq(Block) /\ Range(body[b].targets) \subseteq Block
         /\ Successors(b) \subseteq Block
<1>1. Len(body) \in Nat /\ Block = 1..Len(body) /\ WellFormedBlock(body[b], Block) /\ None \notin Nat
  BY BodiesAssumption DEF BodiesAssumption, Block
<1>2. IsFiniteSet(Block)
  BY <1>1, FS_Interval
<1>3. body[b].targets \in Seq(Block)
  BY <1>1 DEF WellFormedBlock
<1>4. Range(body[b].targets) \subseteq Block
  BY <1>3 DEF Range
<1>5. Successors(b) \subseteq Block
  BY <1>1, <1>4 DEF Successors, WellFormedBlock
<1> QED BY <1>1, <1>2, <1>3, <1>4, <1>5

LEMMA SingleList ==
  ASSUME NEW x
  PROVE  /\ IsList(<<x>>) /\ Range(<<x>>) = {x} /\ IsInjective(<<x>>)
         /\ IsList(<< >>) /\ Range(<< >>) = {} /\ IsInjective(<< >>)
<1>1. /\ Len(<<x>>) = 1 /\ DOMAIN <<x>> = 1..1 /\ <<x>>[1] = x /\ <<x>> \in Seq({x})
      /\ Len(<< >>) = 0 /\ DOMAIN << >> = {} /\ << >> \in Seq({}) /\ 1..0 = {}
  OBVIOUS
<1>2. Range(<<x>>) = {x} /\ Range(<< >>) = {}
  BY <1>1 DEF Range
<1> QED BY <1>1, <1>2 DEF IsList, IsInjective

\* An injective list has everything once, and a list without elements of X
\* has each of them once.
LEMMA OnceFacts ==
  ASSUME NEW s, NEW X
  PROVE  /\ IsInjective(s) => Once(s, X)
         /\ (\A x \in X : x \notin Range(s)) => Once(s, X)
         /\ Once(s, Range(s)) => IsInjective(s)
BY DEF Once, IsInjective, Range

LEMMA ConcatenatedInjective ==
  ASSUME NEW s, NEW t, IsList(s), IsList(t), IsInjective(s), IsInjective(t),
         Range(s) \cap Range(t) = {}
  PROVE  IsInjective(s \o t)
<1> DEFINE X == Range(s \o t)
<1>1. Once(s, X) /\ Once(t, X)
  BY OnceFacts
<1>2. Once(s \o t, X)
  BY <1>1, ConcatenatedOnce
<1> QED BY <1>2, OnceFacts

LEMMA BlockLabelsFacts ==
  ASSUME NEW b
  PROVE  /\ IsList(BlockLabels(b)) /\ IsInjective(BlockLabels(b))
         /\ Range(BlockLabels(b)) = LabelsOf(b)
<1> DEFINE one == << BlockLabel(b) >>
           two == IF body[b].split THEN << JoinLabel(b) >> ELSE << >>
           three == IF body[b].term = "switch" /\ GuardsDefault(b)
                    THEN << GuardLabel(b) >> ELSE << >>
           S2 == IF body[b].split THEN {JoinLabel(b)} ELSE {}
           S3 == IF body[b].term = "switch" /\ GuardsDefault(b) THEN {GuardLabel(b)} ELSE {}
<1>1. IsList(one) /\ IsInjective(one) /\ Range(one) = {BlockLabel(b)}
  BY SingleList
<1>2. IsList(two) /\ IsInjective(two) /\ Range(two) = S2
  BY SingleList
<1>3. IsList(three) /\ IsInjective(three) /\ Range(three) = S3
  BY SingleList
<1>4. {BlockLabel(b)} \cap S2 = {} /\ ({BlockLabel(b)} \cup S2) \cap S3 = {}
  BY LabelsDiffer
<1> HIDE DEF one, two, three, S2, S3
<1>5. /\ IsList(one \o two) /\ IsInjective(one \o two)
      /\ Range(one \o two) = {BlockLabel(b)} \cup S2
  BY <1>1, <1>2, <1>4, Concatenated, ConcatenatedInjective
<1>6. /\ IsList((one \o two) \o three) /\ IsInjective((one \o two) \o three)
      /\ Range((one \o two) \o three) = ({BlockLabel(b)} \cup S2) \cup S3
  BY <1>3, <1>4, <1>5, Concatenated, ConcatenatedInjective
<1>7. BlockLabels(b) = (one \o two) \o three
  BY DEF BlockLabels, one, two, three
<1> QED BY <1>6, <1>7 DEF LabelsOf, S2, S3

\* The branches of the terminator to the targets, in order.
Direct(b) == [k \in 1..Len(body[b].targets) |-> <<EndLabel(b), EdgeLabel(b, body[b].targets[k])>>]

LEMMA DirectFacts ==
  ASSUME body \in Bodies, NEW b \in Block
  PROVE  /\ IsList(Direct(b))
         /\ Range(Direct(b)) = {<<EndLabel(b), EdgeLabel(b, t)>> : t \in Range(body[b].targets)}
         /\ body[b].term # "switch" => IsInjective(Direct(b))
<1> DEFINE targets == body[b].targets
           to(t) == <<EndLabel(b), EdgeLabel(b, t)>>
<1>1. targets \in Seq(Block) /\ Len(targets) \in Nat /\ DOMAIN targets = 1..Len(targets)
  BY BlockFacts
<1>2. /\ Direct(b) = [k \in 1..Len(targets) |-> to(targets[k])]
      /\ DOMAIN Direct(b) = 1..Len(targets)
      /\ \A k \in 1..Len(targets) : Direct(b)[k] = to(targets[k])
  BY DEF Direct
<1>3. \A s, t : to(s) = to(t) => s = t
  BY LabelsDiffer DEF EdgeLabel
<1> HIDE DEF to, targets
<1>4. Range(Direct(b)) = {to(t) : t \in Range(targets)}
  BY <1>1, <1>2 DEF Range
<1>5. Direct(b) \in Seq(Range(Direct(b))) /\ Len(Direct(b)) = Len(targets)
  BY <1>1, <1>2 DEF Range
<1>6. IsList(Direct(b))
  BY <1>1, <1>2, <1>5 DEF IsList
<1>7. ASSUME body[b].term # "switch" PROVE IsInjective(Direct(b))
  <2>1. IsInjective(targets)
    BY <1>7, BlockFacts DEF WellFormedBlock, targets
  <2> QED BY <1>1, <1>2, <1>3, <2>1 DEF IsInjective
<1> QED BY <1>4, <1>6, <1>7 DEF to, targets

LEMMA EdgesOfOrigin ==
  ASSUME NEW b, NEW e \in EdgesOf(b)
  PROVE  e[1] \in {BlockLabel(b), JoinLabel(b), GuardLabel(b)}
BY DEF EdgesOf, EndLabel

LEMMA BlockEdgesFacts ==
  ASSUME body \in Bodies, NEW b \in Block
  PROVE  /\ IsList(BlockEdges(b)) /\ Range(BlockEdges(b)) = EdgesOf(b)
         /\ Once(BlockEdges(b), Singles)
<1> DEFINE from == EndLabel(b)
           first == IF body[b].split THEN << <<BlockLabel(b), JoinLabel(b)>> >> ELSE << >>
           S1 == IF body[b].split THEN {<<BlockLabel(b), JoinLabel(b)>>} ELSE {}
           S2 == Range(Direct(b))
           S3 == IF body[b].term # "switch" THEN {}
                 ELSE IF GuardsDefault(b)
                 THEN {<<from, GuardLabel(b)>>,
                       <<GuardLabel(b), EdgeLabel(b, body[b].default)>>,
                       <<GuardLabel(b), EdgeLabel(b, body[b].invalid)>>}
                 ELSE {<<from, EdgeLabel(b, body[b].default)>>}
<1>1. IsList(first) /\ IsInjective(first) /\ Range(first) = S1
  BY SingleList
<1>2. \A e \in S1 : e \notin Singles
  BY LabelsDiffer DEF Singles
<1>3. IsList(Branches(b)) /\ Range(Branches(b)) = S2 \cup S3
  <2>1. IsList(Direct(b))
    BY DirectFacts
  <2>2. CASE body[b].term # "switch"
    <3>1. Branches(b) = Direct(b)
      BY <2>2 DEF Branches, Direct
    <3> QED BY <2>1, <2>2, <3>1
  <2>3. CASE body[b].term = "switch" /\ GuardsDefault(b)
    <3> DEFINE x == <<from, GuardLabel(b)>>
               y == <<GuardLabel(b), EdgeLabel(b, body[b].default)>>
               z == <<GuardLabel(b), EdgeLabel(b, body[b].invalid)>>
    <3>1. Branches(b) = Direct(b) \o <<x, y, z>>
      BY <2>3 DEF Branches, Direct
    <3>2. S3 = {x, y, z}
      BY <2>3
    <3> HIDE DEF x, y, z
    <3>3. /\ Len(<<x, y, z>>) = 3 /\ DOMAIN <<x, y, z>> = 1..3
          /\ <<x, y, z>>[1] = x /\ <<x, y, z>>[2] = y /\ <<x, y, z>>[3] = z
          /\ <<x, y, z>> \in Seq({x, y, z})
      OBVIOUS
    <3>4. Range(<<x, y, z>>) = {x, y, z}
      <4>1. 1..3 = {1, 2, 3}
        OBVIOUS
      <4> QED BY <3>3, <4>1 DEF Range
    <3>5. IsList(<<x, y, z>>)
      BY <3>3, <3>4 DEF IsList
    <3> HIDE DEF S3, S2
    <3> QED BY <2>1, <3>1, <3>2, <3>4, <3>5, Concatenated DEF S2
  <2>4. CASE body[b].term = "switch" /\ ~GuardsDefault(b)
    <3> DEFINE x == <<from, EdgeLabel(b, body[b].default)>>
    <3>1. Branches(b) = Append(Direct(b), x)
      BY <2>4 DEF Branches, Direct
    <3>2. S3 = {x}
      BY <2>4
    <3> HIDE DEF x
    <3>3. Append(Direct(b), x) = Direct(b) \o <<x>>
      BY <2>1 DEF IsList
    <3>4. IsList(<<x>>) /\ Range(<<x>>) = {x}
      BY SingleList
    <3> HIDE DEF S3, S2
    <3> QED BY <2>1, <3>1, <3>2, <3>3, <3>4, Concatenated DEF S2
  <2> QED BY <2>2, <2>3, <2>4
<1>4. BlockEdges(b) = first \o Branches(b)
  BY DEF BlockEdges
<1>5. IsList(BlockEdges(b)) /\ Range(BlockEdges(b)) = S1 \cup (S2 \cup S3)
  <2> HIDE DEF first, S1, S2, S3
  <2> QED BY <1>1, <1>3, <1>4, Concatenated
<1>6. S2 = {<<EndLabel(b), EdgeLabel(b, t)>> : t \in Range(body[b].targets)}
  BY DirectFacts
<1>7. S1 \cup (S2 \cup S3) = EdgesOf(b)
  BY <1>6 DEF EdgesOf
<1>8. Once(Branches(b), Singles)
  <2>1. CASE body[b].term # "switch"
    <3>1. Branches(b) = Direct(b)
      BY <2>1 DEF Branches, Direct
    <3> QED BY <2>1, <3>1, DirectFacts, OnceFacts
  <2>2. CASE body[b].term = "switch"
    <3>1. \A e \in S2 \cup S3 : e[1] \in {BlockLabel(b), JoinLabel(b), GuardLabel(b)}
      BY <1>7, EdgesOfOrigin
    <3>2. \A e \in Singles : e[1] \notin {BlockLabel(b), JoinLabel(b), GuardLabel(b)}
      <4>1. \A p \in {q \in Block : body[q].term # "switch"} :
              BlockLabel(p) \notin {BlockLabel(b), JoinLabel(b), GuardLabel(b)}
        BY <2>2, LabelsDiffer
      <4>2. \A p, s \in Block : BridgeLabel(p, s) \notin {BlockLabel(b), JoinLabel(b), GuardLabel(b)}
        BY LabelsDiffer
      <4> QED BY <4>1, <4>2 DEF Singles
    <3>3. \A e \in Singles : e \notin Range(Branches(b))
      BY <1>3, <3>1, <3>2
    <3> QED BY <3>3, OnceFacts
  <2> QED BY <2>1, <2>2
<1>9. Once(BlockEdges(b), Singles)
  <2>1. Once(first, Singles)
    BY <1>1, OnceFacts
  <2> HIDE DEF first, S1, S2, S3
  <2> QED BY <1>1, <1>2, <1>3, <1>4, <1>8, <2>1, ConcatenatedOnce
<1> QED BY <1>5, <1>7, <1>9

-----------------------------------------------------------------------------
(* The invariant: what has been written when it is the turn of `at'. *)

Bridged(p) == {s \in Successors(p) : NeedsEdge(p, s)}
BridgeLabels(p) == {BridgeLabel(p, s) : s \in Bridged(p)}
BridgeEdges(p) == {<<BridgeLabel(p, s), BlockLabel(s)>> : s \in Bridged(p)}

BlocksBefore(a) == {b \in Block : b < a}
BridgesBefore(a) == {p \in Block : p + Len(body) < a}

LabelsBefore(a) ==
  (UNION {LabelsOf(b) : b \in BlocksBefore(a)})
  \cup (UNION {BridgeLabels(p) : p \in BridgesBefore(a)})

EdgesBefore(a) ==
  (UNION {EdgesOf(b) : b \in BlocksBefore(a)})
  \cup (UNION {BridgeEdges(p) : p \in BridgesBefore(a)})

PhiLabels(b) == {PhiLabel(p, b) : p \in Predecessors(b)}

IncomingOk(a) ==
  /\ DOMAIN incoming = Block
  /\ \A b \in BlocksBefore(a) : HasScalarPhi(b) => Range(incoming[b]) = PhiLabels(b)

EmitInv ==
  /\ body \in Bodies /\ at \in Nat
  /\ IsList(labels) /\ IsInjective(labels) /\ Range(labels) = LabelsBefore(at)
  /\ IsList(edges) /\ Once(edges, Singles) /\ Range(edges) = EdgesBefore(at)
  /\ IncomingOk(at)

\* What is to be written depends on the body only.
LEMMA SameBody ==
  ASSUME body' = body, NEW a
  PROVE  /\ LabelsBefore(a)' = LabelsBefore(a) /\ EdgesBefore(a)' = EdgesBefore(a)
         /\ Singles' = Singles /\ BlocksBefore(a)' = BlocksBefore(a) /\ Block' = Block
         /\ \A b : PhiLabels(b)' = PhiLabels(b) /\ (HasScalarPhi(b)' <=> HasScalarPhi(b))
<1>1. Block' = Block /\ BlocksBefore(a)' = BlocksBefore(a) /\ BridgesBefore(a)' = BridgesBefore(a)
  BY DEF Block, BlocksBefore, BridgesBefore
<1>2. \A b : Successors(b)' = Successors(b)
  BY DEF Successors
<1>3. \A p, s : NeedsEdge(p, s)' = NeedsEdge(p, s)
  BY DEF NeedsEdge, HasAggregatePhi, HasPhi
<1>4. \A p, s : EdgeLabel(p, s)' = EdgeLabel(p, s) /\ PhiLabel(p, s)' = PhiLabel(p, s)
  BY <1>3 DEF EdgeLabel, PhiLabel
<1>5. \A b : EndLabel(b)' = EndLabel(b) /\ GuardsDefault(b)' = GuardsDefault(b)
  BY DEF EndLabel, GuardsDefault
<1>6. \A b : LabelsOf(b)' = LabelsOf(b)
  BY <1>5 DEF LabelsOf
<1>7. \A b : EdgesOf(b)' = EdgesOf(b)
  BY <1>4, <1>5 DEF EdgesOf
<1>8. \A p : Bridged(p)' = Bridged(p)
  BY <1>2, <1>3 DEF Bridged
<1>9. \A p : BridgeLabels(p)' = BridgeLabels(p) /\ BridgeEdges(p)' = BridgeEdges(p)
  BY <1>8 DEF BridgeLabels, BridgeEdges
<1>10. LabelsBefore(a)' = LabelsBefore(a)
  BY <1>1, <1>6, <1>9 DEF LabelsBefore
<1>11. EdgesBefore(a)' = EdgesBefore(a)
  BY <1>1, <1>7, <1>9 DEF EdgesBefore
<1>12. \A b : Predecessors(b)' = Predecessors(b)
  BY <1>1, <1>2 DEF Predecessors
<1>13. \A b : PhiLabels(b)' = PhiLabels(b)
  BY <1>4, <1>12 DEF PhiLabels
<1>14. \A b : HasScalarPhi(b)' <=> HasScalarPhi(b)
  BY DEF HasScalarPhi
<1>15. Singles' = Singles
  BY <1>1 DEF Singles
<1> QED BY <1>1, <1>10, <1>11, <1>13, <1>14, <1>15

\* What a step has to establish.
LEMMA KeepsInv ==
  ASSUME EmitInv, body' = body, NEW a \in Nat, at' = a,
         IsList(labels'), IsInjective(labels'), Range(labels') = LabelsBefore(a),
         IsList(edges'), Once(edges', Singles), Range(edges') = EdgesBefore(a),
         DOMAIN incoming' = Block,
         \A b \in BlocksBefore(a) : HasScalarPhi(b) => Range(incoming'[b]) = PhiLabels(b)
  PROVE  EmitInv'
<1>1. /\ LabelsBefore(a)' = LabelsBefore(a) /\ EdgesBefore(a)' = EdgesBefore(a)
      /\ Singles' = Singles /\ BlocksBefore(a)' = BlocksBefore(a) /\ Block' = Block
      /\ \A b : PhiLabels(b)' = PhiLabels(b) /\ (HasScalarPhi(b)' <=> HasScalarPhi(b))
  BY SameBody
<1>2. IncomingOk(a)'
  BY <1>1 DEF IncomingOk
<1>3. IncomingOk(at)'
  BY <1>2
<1>4. LabelsBefore(at)' = LabelsBefore(a) /\ EdgesBefore(at)' = EdgesBefore(a)
  BY <1>1
<1>5. IsList(labels)' /\ IsInjective(labels)' /\ IsList(edges)' /\ Once(edges, Singles)'
  BY <1>1
<1> QED BY <1>3, <1>4, <1>5 DEF EmitInv

\* The turn of a block and the turn of the bridges of a predecessor.
LEMMA BlockTurn ==
  ASSUME body \in Bodies, NEW a \in Block
  PROVE  /\ BlocksBefore(a + 1) = BlocksBefore(a) \cup {a} /\ a \notin BlocksBefore(a)
         /\ BridgesBefore(a + 1) = {} /\ BridgesBefore(a) = {}
         /\ LabelsBefore(a + 1) = LabelsBefore(a) \cup LabelsOf(a)
         /\ EdgesBefore(a + 1) = EdgesBefore(a) \cup EdgesOf(a)
<1>1. Len(body) \in Nat /\ Block = 1..Len(body)
  BY BlockFacts
<1>2. BlocksBefore(a + 1) = BlocksBefore(a) \cup {a} /\ a \notin BlocksBefore(a)
  BY <1>1 DEF BlocksBefore
<1>3. BridgesBefore(a + 1) = {} /\ BridgesBefore(a) = {}
  BY <1>1 DEF BridgesBefore
<1> QED BY <1>2, <1>3 DEF LabelsBefore, EdgesBefore

LEMMA BridgeTurn ==
  ASSUME body \in Bodies, NEW p \in Block, NEW a, a = p + Len(body)
  PROVE  /\ BlocksBefore(a + 1) = BlocksBefore(a)
         /\ BridgesBefore(a + 1) = BridgesBefore(a) \cup {p} /\ p \notin BridgesBefore(a)
         /\ LabelsBefore(a + 1) = LabelsBefore(a) \cup BridgeLabels(p)
         /\ EdgesBefore(a + 1) = EdgesBefore(a) \cup BridgeEdges(p)
<1>1. Len(body) \in Nat /\ Block = 1..Len(body)
  BY BlockFacts
<1>2. BlocksBefore(a + 1) = BlocksBefore(a)
  BY <1>1 DEF BlocksBefore
<1>3. BridgesBefore(a + 1) = BridgesBefore(a) \cup {p} /\ p \notin BridgesBefore(a)
  BY <1>1 DEF BridgesBefore
<1> QED BY <1>2, <1>3 DEF LabelsBefore, EdgesBefore

-----------------------------------------------------------------------------
(* Every step keeps the invariant. *)

LEMMA InitEmitInv == Init => EmitInv
<1> SUFFICES ASSUME Init PROVE EmitInv
  OBVIOUS
<1>1. IsList(<< >>) /\ Range(<< >>) = {} /\ IsInjective(<< >>)
  BY SingleList
<1>2. Once(<< >>, Singles)
  BY <1>1, OnceFacts
<1>3. body \in Bodies /\ Len(body) \in Nat /\ Block = 1..Len(body)
  BY BodiesAssumption DEF Init, BodiesAssumption, Block
<1>4. BlocksBefore(1) = {} /\ BridgesBefore(1) = {}
  BY <1>3 DEF BlocksBefore, BridgesBefore
<1>5. LabelsBefore(1) = {} /\ EdgesBefore(1) = {}
  BY <1>4 DEF LabelsBefore, EdgesBefore
<1>6. DOMAIN incoming = Block /\ at = 1 /\ labels = << >> /\ edges = << >>
  BY DEF Init
<1> QED BY <1>1, <1>2, <1>3, <1>4, <1>5, <1>6 DEF EmitInv, IncomingOk

\* A label belongs to one block.
LEMMA LabelsOfOwner ==
  ASSUME NEW b, NEW l \in LabelsOf(b)
  PROVE  l \in {BlockLabel(b), JoinLabel(b), GuardLabel(b)}
BY DEF LabelsOf

LEMMA OwnersDiffer ==
  ASSUME NEW a, NEW b, a # b
  PROVE  /\ {BlockLabel(a), JoinLabel(a), GuardLabel(a)} \cap {BlockLabel(b), JoinLabel(b), GuardLabel(b)} = {}
         /\ LabelsOf(a) \cap LabelsOf(b) = {} /\ EdgesOf(a) \cap EdgesOf(b) = {}
<1>1. {BlockLabel(a), JoinLabel(a), GuardLabel(a)} \cap {BlockLabel(b), JoinLabel(b), GuardLabel(b)} = {}
  BY LabelsDiffer
<1>2. LabelsOf(a) \cap LabelsOf(b) = {}
  BY <1>1, LabelsOfOwner
<1>3. EdgesOf(a) \cap EdgesOf(b) = {}
  BY <1>1, EdgesOfOrigin
<1> QED BY <1>1, <1>2, <1>3

LEMMA PhiLabelsFinite ==
  ASSUME body \in Bodies, NEW b \in Block
  PROVE  IsFiniteSet(PhiLabels(b))
<1> DEFINE P == Predecessors(b)
           f == [p \in P |-> PhiLabel(p, b)]
<1>1. IsFiniteSet(Block)
  BY BlockFacts
<1>2. IsFiniteSet(P)
  BY <1>1, FS_Subset DEF Predecessors
<1>3. f \in Surjection(P, PhiLabels(b))
  BY DEF Surjection, PhiLabels
<1> QED BY <1>2, <1>3, FS_Surjection

LEMMA EmitBlockInv == EmitInv /\ EmitBlock => EmitInv'
<1> SUFFICES ASSUME EmitInv, EmitBlock PROVE EmitInv'
  OBVIOUS
<1>1. /\ body \in Bodies /\ at \in Block /\ body' = body /\ at' = at + 1 /\ at + 1 \in Nat
      /\ labels' = labels \o BlockLabels(at) /\ edges' = edges \o BlockEdges(at)
      /\ IsList(labels) /\ IsInjective(labels) /\ Range(labels) = LabelsBefore(at)
      /\ IsList(edges) /\ Once(edges, Singles) /\ Range(edges) = EdgesBefore(at)
  BY DEF EmitInv, EmitBlock
<1>2. /\ IsList(BlockLabels(at)) /\ IsInjective(BlockLabels(at)) /\ Range(BlockLabels(at)) = LabelsOf(at)
  BY BlockLabelsFacts
<1>3. IsList(BlockEdges(at)) /\ Range(BlockEdges(at)) = EdgesOf(at) /\ Once(BlockEdges(at), Singles)
  BY <1>1, BlockEdgesFacts
<1>4. /\ BlocksBefore(at + 1) = BlocksBefore(at) \cup {at} /\ at \notin BlocksBefore(at)
      /\ BridgesBefore(at) = {}
      /\ LabelsBefore(at + 1) = LabelsBefore(at) \cup LabelsOf(at)
      /\ EdgesBefore(at + 1) = EdgesBefore(at) \cup EdgesOf(at)
  BY <1>1, BlockTurn
<1>5. LabelsBefore(at) \cap LabelsOf(at) = {} /\ EdgesBefore(at) \cap EdgesOf(at) = {}
  BY <1>4, OwnersDiffer DEF LabelsBefore, EdgesBefore
<1>6. IsList(labels') /\ IsInjective(labels') /\ Range(labels') = LabelsBefore(at + 1)
  <2> DEFINE s == labels
             t == BlockLabels(at)
  <2>1. IsList(s) /\ IsList(t) /\ IsInjective(s) /\ IsInjective(t) /\ Range(s) \cap Range(t) = {}
    BY <1>1, <1>2, <1>5
  <2>2. Range(s) \cup Range(t) = LabelsBefore(at + 1)
    BY <1>1, <1>2, <1>4
  <2> HIDE DEF s, t
  <2>3. IsList(s \o t) /\ Range(s \o t) = Range(s) \cup Range(t) /\ IsInjective(s \o t)
    BY <2>1, Concatenated, ConcatenatedInjective
  <2> QED BY <1>1, <2>2, <2>3 DEF s, t
<1>7. IsList(edges') /\ Range(edges') = EdgesBefore(at + 1)
  <2>1. IsList(edges \o BlockEdges(at)) /\ Range(edges \o BlockEdges(at)) = Range(edges) \cup Range(BlockEdges(at))
    BY <1>1, <1>3, Concatenated
  <2> QED BY <1>1, <1>3, <1>4, <2>1
<1>8. Once(edges', Singles)
  <2>1. \A x \in Singles : ~(x \in Range(edges) /\ x \in Range(BlockEdges(at)))
    BY <1>1, <1>3, <1>5
  <2> QED BY <1>1, <1>3, <2>1, ConcatenatedOnce
<1>9. /\ DOMAIN incoming' = Block
      /\ \A b \in BlocksBefore(at + 1) : HasScalarPhi(b) => Range(incoming'[b]) = PhiLabels(b)
  <2>1. DOMAIN incoming = Block /\ \A b \in BlocksBefore(at) : HasScalarPhi(b) => Range(incoming[b]) = PhiLabels(b)
    BY DEF EmitInv, IncomingOk
  <2>2. incoming' = [incoming EXCEPT ![at] = IF HasScalarPhi(at) THEN SetToSeq(PhiLabels(at)) ELSE << >>]
    BY DEF EmitBlock, PhiLabels
  <2>3. Range(SetToSeq(PhiLabels(at))) = PhiLabels(at)
    BY <1>1, PhiLabelsFinite, Enumerated
  <2>4. DOMAIN incoming' = Block /\ incoming'[at] = IF HasScalarPhi(at) THEN SetToSeq(PhiLabels(at)) ELSE << >>
    BY <1>1, <2>1, <2>2
  <2>5. \A b \in BlocksBefore(at) : incoming'[b] = incoming[b]
    BY <1>4, <2>1, <2>2 DEF BlocksBefore
  <2> QED BY <1>4, <2>1, <2>3, <2>4, <2>5
<1>10. ASSUME NEW a, a = at + 1 PROVE EmitInv'
  BY <1>1, <1>6, <1>7, <1>8, <1>9, <1>10, KeepsInv
<1> QED BY <1>10

LEMMA BridgeLists ==
  ASSUME body \in Bodies, NEW p \in Block
  PROVE  LET bridges == Bridges(p)
             names == [k \in 1..Len(bridges) |-> BridgeLabel(p, bridges[k])]
             jumps == [k \in 1..Len(bridges) |-> <<BridgeLabel(p, bridges[k]), BlockLabel(bridges[k])>>]
         IN  /\ IsList(names) /\ IsInjective(names) /\ Range(names) = BridgeLabels(p)
             /\ IsList(jumps) /\ IsInjective(jumps) /\ Range(jumps) = BridgeEdges(p)
<1> DEFINE bridges == Bridges(p)
           names == [k \in 1..Len(bridges) |-> BridgeLabel(p, bridges[k])]
           jumps == [k \in 1..Len(bridges) |-> <<BridgeLabel(p, bridges[k]), BlockLabel(bridges[k])>>]
<1>1. IsFiniteSet(Bridged(p))
  <2>1. Bridged(p) \subseteq Block /\ IsFiniteSet(Block)
    BY BlockFacts DEF Bridged
  <2> QED BY <2>1, FS_Subset
<1>2. IsList(bridges) /\ IsInjective(bridges) /\ Range(bridges) = Bridged(p)
  <2>1. bridges = SetToSeq(Bridged(p))
    BY DEF Bridges, Bridged
  <2> QED BY <1>1, <2>1, Enumerated
<1> HIDE DEF bridges
<1>3. Len(bridges) \in Nat /\ DOMAIN bridges = 1..Len(bridges)
  BY <1>2 DEF IsList
<1>4. /\ DOMAIN names = 1..Len(bridges) /\ DOMAIN jumps = 1..Len(bridges)
      /\ \A k \in 1..Len(bridges) : /\ names[k] = BridgeLabel(p, bridges[k])
                                    /\ jumps[k] = <<BridgeLabel(p, bridges[k]), BlockLabel(bridges[k])>>
  OBVIOUS
<1>5. names \in Seq(Range(names)) /\ Len(names) = Len(bridges)
  BY <1>3, <1>4 DEF Range
<1>6. jumps \in Seq(Range(jumps)) /\ Len(jumps) = Len(bridges)
  BY <1>3, <1>4 DEF Range
<1> HIDE DEF names, jumps
<1>7. IsList(names) /\ IsList(jumps)
  BY <1>3, <1>4, <1>5, <1>6 DEF IsList
<1>8. IsInjective(names) /\ IsInjective(jumps)
  BY <1>2, <1>3, <1>4, LabelsDiffer DEF IsInjective
<1>9. Range(names) = BridgeLabels(p)
  BY <1>2, <1>3, <1>4 DEF Range, BridgeLabels
<1>10. Range(jumps) = BridgeEdges(p)
  <2> DEFINE jump(s) == <<BridgeLabel(p, s), BlockLabel(s)>>
  <2>1. \A k \in DOMAIN jumps : jumps[k] = jump(bridges[k])
    BY <1>4
  <2>2. BridgeEdges(p) = {jump(s) : s \in Range(bridges)}
    BY <1>2 DEF BridgeEdges
  <2> HIDE DEF jump
  <2> QED BY <1>3, <1>4, <2>1, <2>2 DEF Range
<1> QED BY <1>7, <1>8, <1>9, <1>10 DEF names, jumps, bridges

LEMMA EmitEdgesInv == EmitInv /\ EmitEdges => EmitInv'
<1> SUFFICES ASSUME EmitInv, EmitEdges PROVE EmitInv'
  OBVIOUS
<1> DEFINE p == at - Len(body)
           bridges == Bridges(p)
           names == [k \in 1..Len(bridges) |-> BridgeLabel(p, bridges[k])]
           jumps == [k \in 1..Len(bridges) |-> <<BridgeLabel(p, bridges[k]), BlockLabel(bridges[k])>>]
<1>1. /\ body \in Bodies /\ p \in Block /\ body' = body /\ at' = at + 1 /\ at + 1 \in Nat
      /\ labels' = labels \o names /\ edges' = edges \o jumps /\ incoming' = incoming
      /\ IsList(labels) /\ IsInjective(labels) /\ Range(labels) = LabelsBefore(at)
      /\ IsList(edges) /\ Once(edges, Singles) /\ Range(edges) = EdgesBefore(at)
  BY DEF EmitInv, EmitEdges
<1>2. at = p + Len(body)
  BY <1>1, BlockFacts DEF EmitInv
<1>3. /\ IsList(names) /\ IsInjective(names) /\ Range(names) = BridgeLabels(p)
      /\ IsList(jumps) /\ IsInjective(jumps) /\ Range(jumps) = BridgeEdges(p)
  BY <1>1, BridgeLists
<1> HIDE DEF names, jumps, bridges, p
<1>4. /\ BlocksBefore(at + 1) = BlocksBefore(at)
      /\ p \notin BridgesBefore(at)
      /\ LabelsBefore(at + 1) = LabelsBefore(at) \cup BridgeLabels(p)
      /\ EdgesBefore(at + 1) = EdgesBefore(at) \cup BridgeEdges(p)
  BY <1>1, <1>2, BridgeTurn
<1>5. LabelsBefore(at) \cap BridgeLabels(p) = {}
  <2>1. \A b : LabelsOf(b) \cap BridgeLabels(p) = {}
    BY LabelsOfOwner, LabelsDiffer DEF BridgeLabels
  <2>2. \A q : q # p => BridgeLabels(q) \cap BridgeLabels(p) = {}
    BY LabelsDiffer DEF BridgeLabels
  <2> QED BY <1>4, <2>1, <2>2 DEF LabelsBefore
<1>6. EdgesBefore(at) \cap BridgeEdges(p) = {}
  <2>1. \A b : EdgesOf(b) \cap BridgeEdges(p) = {}
    BY EdgesOfOrigin, LabelsDiffer DEF BridgeEdges
  <2>2. \A q : q # p => BridgeEdges(q) \cap BridgeEdges(p) = {}
    BY LabelsDiffer DEF BridgeEdges
  <2> QED BY <1>4, <2>1, <2>2 DEF EdgesBefore
<1>7. IsList(labels') /\ IsInjective(labels') /\ Range(labels') = LabelsBefore(at + 1)
  <2>1. Range(labels) \cap Range(names) = {}
    BY <1>1, <1>3, <1>5
  <2>2. /\ IsList(labels \o names) /\ Range(labels \o names) = Range(labels) \cup Range(names)
        /\ IsInjective(labels \o names)
    BY <1>1, <1>3, <2>1, Concatenated, ConcatenatedInjective
  <2> QED BY <1>1, <1>3, <1>4, <2>2
<1>8. IsList(edges') /\ Range(edges') = EdgesBefore(at + 1)
  <2>1. IsList(edges \o jumps) /\ Range(edges \o jumps) = Range(edges) \cup Range(jumps)
    BY <1>1, <1>3, Concatenated
  <2> QED BY <1>1, <1>3, <1>4, <2>1
<1>9. Once(edges', Singles)
  <2>1. Once(jumps, Singles)
    BY <1>3, OnceFacts
  <2>2. \A x \in Singles : ~(x \in Range(edges) /\ x \in Range(jumps))
    BY <1>1, <1>3, <1>6
  <2> QED BY <1>1, <1>3, <2>1, <2>2, ConcatenatedOnce
<1>10. /\ DOMAIN incoming' = Block
       /\ \A b \in BlocksBefore(at + 1) : HasScalarPhi(b) => Range(incoming'[b]) = PhiLabels(b)
  BY <1>1, <1>4 DEF EmitInv, IncomingOk
<1>11. ASSUME NEW a, a = at + 1 PROVE EmitInv'
  BY <1>1, <1>7, <1>8, <1>9, <1>10, <1>11, KeepsInv
<1> QED BY <1>11

LEMMA NextEmitInv == EmitInv /\ [Next]_vars => EmitInv'
<1> SUFFICES ASSUME EmitInv, [Next]_vars PROVE EmitInv'
  OBVIOUS
<1>1. ASSUME UNCHANGED vars PROVE EmitInv'
  <2>1. /\ body' = body /\ at' = at /\ labels' = labels /\ edges' = edges /\ incoming' = incoming
    BY <1>1 DEF vars
  <2>2. ASSUME NEW a, a = at PROVE EmitInv'
    BY <2>1, <2>2, KeepsInv DEF EmitInv, IncomingOk
  <2> QED BY <2>2
<1> QED BY <1>1, EmitBlockInv, EmitEdgesInv DEF Next

-----------------------------------------------------------------------------
\* Whatever the body, what has been written at any moment is exactly what the
\* blocks and bridges so far call for, each label once and each branch that a
\* phi relies on once (BodyEmitter::emit and emit_phi_edges).
THEOREM EmissionInvariant == Spec => []EmitInv
<1> QED BY InitEmitInv, NextEmitInv, PTL DEF Spec

\* At the end every block and every bridge has been written.
LEMMA AllWritten ==
  ASSUME EmitInv, Done, NEW b \in Block
  PROVE  BlocksBefore(at) = Block /\ BridgesBefore(at) = Block
<1>1. Len(body) \in Nat /\ Block = 1..Len(body) /\ at \in Nat
  BY BlockFacts DEF EmitInv
<1> QED BY <1>1 DEF Done, BlocksBefore, BridgesBefore

LEMMA WrittenEdges ==
  ASSUME EmitInv, Done, NEW b \in Block
  PROVE  /\ EdgesOf(b) \subseteq Range(edges) /\ BridgeEdges(b) \subseteq Range(edges)
         /\ \A e \in Range(edges) : \E p \in Block : e \in EdgesOf(p) \cup BridgeEdges(p)
BY AllWritten DEF EmitInv, EdgesBefore

\* An element of Singles that has been written is at one place.
LEMMA WrittenOnce ==
  ASSUME EmitInv, NEW e \in Singles, e \in Range(edges)
  PROVE  Cardinality({k \in DOMAIN edges : edges[k] = e}) = 1
<1>1. PICK k \in DOMAIN edges : edges[k] = e
  BY DEF Range
<1>2. {j \in DOMAIN edges : edges[j] = e} = {k}
  BY <1>1 DEF EmitInv, Once
<1> QED BY <1>2, FS_Singleton

\* Whatever the body, the scalar phis of a block name each LLVM block that
\* branches to it exactly once, with the one exception the property states
\* (emit_phi, needs_edge_block, emit_phi_edges).
THEOREM PhisNamePredecessors == Spec => []PhiNamesPredecessors
<1>1. EmitInv => PhiNamesPredecessors
  <2> SUFFICES ASSUME EmitInv, Done, NEW b \in Block, HasScalarPhi(b),
                      \A p \in Predecessors(b) : body[p].split => NeedsEdge(p, b)
               PROVE  PhiMatches(b)
    BY DEF PhiNamesPredecessors
  <2>1. body \in Bodies /\ HasPhi(b)
    BY DEF EmitInv, HasScalarPhi, HasPhi
  <2>2. Range(incoming[b]) = PhiLabels(b)
    BY AllWritten DEF EmitInv, IncomingOk
  <2>3. ASSUME NEW p \in Predecessors(b)
        PROVE  BranchesFrom(PhiLabel(p, b), b) = 1
    <3> DEFINE e == <<PhiLabel(p, b), BlockLabel(b)>>
    <3>1. p \in Block /\ b \in Successors(p)
      BY DEF Predecessors
    <3>2. e \in Singles /\ e \in Range(edges)
      <4>1. CASE NeedsEdge(p, b)
        <5>1. e = <<BridgeLabel(p, b), BlockLabel(b)>>
          BY <4>1 DEF PhiLabel
        <5>2. e \in BridgeEdges(p)
          BY <3>1, <4>1, <5>1 DEF BridgeEdges, Bridged
        <5> QED BY <3>1, <5>1, <5>2, WrittenEdges DEF Singles
      <4>2. CASE ~NeedsEdge(p, b)
        <5>1. ~body[p].split /\ body[p].term # "switch"
          BY <2>1, <4>2 DEF NeedsEdge
        <5>2. e = <<EndLabel(p), EdgeLabel(p, b)>> /\ e = <<BlockLabel(p), BlockLabel(b)>>
          BY <4>2, <5>1 DEF PhiLabel, EdgeLabel, EndLabel
        <5>3. b \in Range(body[p].targets)
          BY <2>1, <3>1, <5>1, BlockFacts DEF Successors, WellFormedBlock
        <5>4. e \in EdgesOf(p)
          BY <5>2, <5>3 DEF EdgesOf
        <5> QED BY <3>1, <5>1, <5>2, <5>4, WrittenEdges DEF Singles
      <4> QED BY <4>1, <4>2
    <3> QED BY <3>2, WrittenOnce DEF BranchesFrom
  <2>4. ASSUME NEW e \in Range(edges), e[2] = BlockLabel(b)
        PROVE  e[1] \in PhiLabels(b)
    <3>1. PICK p \in Block : e \in EdgesOf(p) \cup BridgeEdges(p)
      BY WrittenEdges
    <3>2. CASE e \in BridgeEdges(p)
      <4>1. PICK s \in Bridged(p) : e = <<BridgeLabel(p, s), BlockLabel(s)>>
        BY <3>2 DEF BridgeEdges
      <4>2. s = b
        BY <2>4, <4>1, LabelsDiffer
      <4>3. NeedsEdge(p, b) /\ p \in Predecessors(b)
        BY <4>2 DEF Bridged, Predecessors
      <4> QED BY <4>1, <4>2, <4>3 DEF PhiLabels, PhiLabel
    <3>3. CASE e \in EdgesOf(p)
      <4>1. \A t : EdgeLabel(p, t) = BlockLabel(b) => t = b /\ ~NeedsEdge(p, b)
        BY LabelsDiffer DEF EdgeLabel
      <4>2. /\ e # <<BlockLabel(p), JoinLabel(p)>>
            /\ e # <<EndLabel(p), GuardLabel(p)>>
        BY <2>4, LabelsDiffer
      <4>3. ~NeedsEdge(p, b) /\ b \in Successors(p) /\ e[1] = EndLabel(p)
        <5>1. CASE body[p].term = "switch"
          <6>1. NeedsEdge(p, b)
            BY <2>1, <5>1 DEF NeedsEdge
          <6> QED BY <2>4, <3>3, <4>1, <4>2, <6>1 DEF EdgesOf
        <5>2. CASE body[p].term # "switch"
          <6>1. PICK t \in Range(body[p].targets) : e = <<EndLabel(p), EdgeLabel(p, t)>>
            BY <3>3, <4>2, <5>2 DEF EdgesOf
          <6> QED BY <2>4, <4>1, <6>1 DEF Successors
        <5> QED BY <5>1, <5>2
      <4>4. p \in Predecessors(b) /\ EndLabel(p) = BlockLabel(p)
        BY <4>3 DEF Predecessors, EndLabel
      <4> QED BY <4>3, <4>4 DEF PhiLabels, PhiLabel
    <3> QED BY <3>1, <3>2, <3>3
  <2>5. \A label \in Range(incoming[b]) : BranchesFrom(label, b) = 1
    BY <2>2, <2>3 DEF PhiLabels
  <2>6. \A k \in DOMAIN edges : edges[k] \in Range(edges)
    BY DEF Range
  <2> QED BY <2>2, <2>4, <2>5, <2>6 DEF PhiMatches
<1> QED BY <1>1, EmissionInvariant, PTL

\* Where the branches of a block lead.
LEMMA EdgeTargets ==
  ASSUME body \in Bodies, NEW p \in Block, NEW e \in EdgesOf(p)
  PROVE  \/ e = <<BlockLabel(p), JoinLabel(p)>> /\ body[p].split
         \/ /\ e = <<EndLabel(p), GuardLabel(p)>>
            /\ body[p].term = "switch" /\ GuardsDefault(p)
         \/ \E t \in Successors(p) : e = <<EndLabel(p), EdgeLabel(p, t)>>
         \/ /\ body[p].term = "switch" /\ GuardsDefault(p)
            /\ \E t \in Successors(p) : e = <<GuardLabel(p), EdgeLabel(p, t)>>
<1>1. WellFormedBlock(body[p], Block) /\ None \notin Block
  BY BlockFacts
<1>2. body[p].term = "switch" => body[p].default \in Successors(p)
  BY <1>1 DEF WellFormedBlock, Successors
<1>3. body[p].term = "switch" /\ GuardsDefault(p) => body[p].invalid \in Successors(p)
  BY DEF GuardsDefault, Successors
<1>4. Range(body[p].targets) \subseteq Successors(p)
  BY DEF Successors
<1> QED BY <1>2, <1>3, <1>4 DEF EdgesOf

\* Whatever the body, every successor of a block is reached from its
\* terminator through guard and bridge and nothing else is, labels are written
\* once and branches lead to written ones, and an invalid enum tag never enters
\* the default (emit_terminator, edge_label, emit_phi_edges).
THEOREM SuccessorsReached == Spec => []ReachesSuccessors
<1>1. EmitInv => ReachesSuccessors
  <2> SUFFICES ASSUME EmitInv, Done PROVE ReachesSuccessors
    BY DEF ReachesSuccessors
  <2>1. body \in Bodies /\ IsInjective(labels)
    BY DEF EmitInv
  <2>2. \A e \in Range(edges) : \E p \in Block : e \in EdgesOf(p) \cup BridgeEdges(p)
    BY DEF EmitInv, EdgesBefore, BlocksBefore, BridgesBefore
  <2>3. ASSUME NEW b \in Block
        PROVE  LabelsOf(b) \subseteq Range(labels) /\ BridgeLabels(b) \subseteq Range(labels)
    BY AllWritten DEF EmitInv, LabelsBefore
  <2>4. ASSUME NEW e \in Range(edges)
        PROVE  e[2] \in Range(labels)
    <3>1. PICK p \in Block : e \in EdgesOf(p) \cup BridgeEdges(p)
      BY <2>2
    <3>2. \A s \in Successors(p) : BlockLabel(s) \in Range(labels)
      BY <2>1, <2>3, BlockFacts DEF LabelsOf
    <3>3. \A s \in Successors(p) : EdgeLabel(p, s) \in Range(labels)
      BY <2>3, <3>2 DEF EdgeLabel, BridgeLabels, Bridged
    <3>4. CASE e \in BridgeEdges(p)
      BY <3>2, <3>4 DEF BridgeEdges, Bridged
    <3>5. CASE e \in EdgesOf(p)
      <4>1. body[p].split => JoinLabel(p) \in Range(labels)
        BY <2>3 DEF LabelsOf
      <4>2. body[p].term = "switch" /\ GuardsDefault(p) => GuardLabel(p) \in Range(labels)
        BY <2>3 DEF LabelsOf
      <4> QED BY <2>1, <3>3, <3>5, <4>1, <4>2, EdgeTargets
    <3> QED BY <3>1, <3>4, <3>5
  <2>5. ASSUME NEW b \in Block
        PROVE  LET inner == {EndLabel(b), GuardLabel(b)}
                            \cup {BridgeLabel(b, s) : s \in Successors(b)}
                   reached == {edges[k][2] : k \in {j \in DOMAIN edges :
                                                      edges[j][1] \in inner}}
               IN  {s \in Block : BlockLabel(s) \in reached} = Successors(b)
    <3> DEFINE inner == {EndLabel(b), GuardLabel(b)}
                        \cup {BridgeLabel(b, s) : s \in Successors(b)}
               reached == {edges[k][2] : k \in {j \in DOMAIN edges : edges[j][1] \in inner}}
    <3>1. \A e \in Range(edges) : e[1] \in inner => e[2] \in reached
      BY DEF Range
    <3>2. \A l \in reached : \E e \in Range(edges) : e[1] \in inner /\ e[2] = l
      BY DEF Range
    <3>3. EdgesOf(b) \subseteq Range(edges) /\ BridgeEdges(b) \subseteq Range(edges)
      BY WrittenEdges
    <3>4. ASSUME NEW s \in Successors(b)
          PROVE  BlockLabel(s) \in reached
      <4>1. CASE NeedsEdge(b, s)
        <5>1. <<BridgeLabel(b, s), BlockLabel(s)>> \in BridgeEdges(b)
          BY <4>1 DEF BridgeEdges, Bridged
        <5> QED BY <3>1, <3>3, <5>1
      <4>2. CASE ~NeedsEdge(b, s)
        <5>1. EdgeLabel(b, s) = BlockLabel(s)
          BY <4>2 DEF EdgeLabel
        <5>2. \/ <<EndLabel(b), EdgeLabel(b, s)>> \in EdgesOf(b)
              \/ <<GuardLabel(b), EdgeLabel(b, s)>> \in EdgesOf(b)
          <6>1. CASE s \in Range(body[b].targets)
            BY <6>1 DEF EdgesOf
          <6>2. CASE s \notin Range(body[b].targets)
            <7>1. s \in {body[b].default, body[b].invalid} /\ s # None
              BY <6>2 DEF Successors
            <7>2. body[b].term = "switch"
              BY <2>1, <7>1, BlockFacts DEF WellFormedBlock
            <7>3. ~GuardsDefault(b) => s = body[b].default
              BY <7>1 DEF GuardsDefault
            <7> QED BY <7>1, <7>2, <7>3 DEF EdgesOf
          <6> QED BY <6>1, <6>2
        <5> HIDE DEF reached
        <5> QED BY <3>1, <3>3, <5>1, <5>2
      <4> QED BY <4>1, <4>2
    <3>5. ASSUME NEW s \in Block, BlockLabel(s) \in reached
          PROVE  s \in Successors(b)
      <4>1. PICK e \in Range(edges) : e[1] \in inner /\ e[2] = BlockLabel(s)
        BY <3>2, <3>5
      <4>2. PICK p \in Block : e \in EdgesOf(p) \cup BridgeEdges(p)
        BY <2>2
      <4>3. CASE e \in BridgeEdges(p)
        <5>1. PICK t \in Bridged(p) : e = <<BridgeLabel(p, t), BlockLabel(t)>>
          BY <4>3 DEF BridgeEdges
        <5>2. t = s
          BY <4>1, <5>1, LabelsDiffer
        <5>3. p = b
          BY <4>1, <5>1, LabelsDiffer DEF EndLabel
        <5> QED BY <5>1, <5>2, <5>3 DEF Bridged
      <4>4. CASE e \in EdgesOf(p)
        <5>1. e[1] \in {BlockLabel(p), JoinLabel(p), GuardLabel(p)}
          BY <4>4, EdgesOfOrigin
        <5>2. p = b
          BY <4>1, <5>1, LabelsDiffer DEF EndLabel
        <5>3. BlockLabel(s) # JoinLabel(p) /\ BlockLabel(s) # GuardLabel(p)
          BY LabelsDiffer
        <5>4. \E t \in Successors(p) : e[2] = EdgeLabel(p, t)
          BY <2>1, <4>1, <4>4, <5>3, EdgeTargets
        <5>5. \A t : EdgeLabel(p, t) = BlockLabel(s) => t = s
          BY LabelsDiffer DEF EdgeLabel
        <5> QED BY <4>1, <5>2, <5>4, <5>5
      <4> QED BY <4>2, <4>3, <4>4
    <3>6. Successors(b) \subseteq Block
      BY <2>1, BlockFacts
    <3> QED BY <3>4, <3>5, <3>6
  <2>6. ASSUME NEW b \in Block, body[b].invalid # None, body[b].default # body[b].invalid,
               body[b].default \notin Range(body[b].targets),
               NEW e \in Range(edges), e = <<EndLabel(b), EdgeLabel(b, body[b].default)>>
        PROVE  FALSE
    <3>1. PICK p \in Block : e \in EdgesOf(p) \cup BridgeEdges(p)
      BY <2>2
    <3>2. e \in EdgesOf(p) /\ p = b
      <4>1. e \notin BridgeEdges(p)
        BY <2>6, LabelsDiffer DEF BridgeEdges, EndLabel
      <4>2. e \in EdgesOf(p)
        BY <3>1, <4>1
      <4>3. e[1] \in {BlockLabel(p), JoinLabel(p), GuardLabel(p)}
        BY <4>2, EdgesOfOrigin
      <4>4. e[1] = EndLabel(b)
        BY <2>6
      <4>5. p = b
        BY <4>3, <4>4, LabelsDiffer DEF EndLabel
      <4> QED BY <4>2, <4>5
    <3>3. GuardsDefault(b)
      BY <2>6 DEF GuardsDefault
    <3>4. \A s, t : EdgeLabel(b, s) = EdgeLabel(b, t) => s = t
      BY LabelsDiffer DEF EdgeLabel
    <3>5. \A t \in Range(body[b].targets) : e # <<EndLabel(b), EdgeLabel(b, t)>>
      BY <2>6, <3>4
    <3>6. EdgeLabel(b, body[b].default) # GuardLabel(b) /\ EdgeLabel(b, body[b].default) # JoinLabel(b)
      BY LabelsDiffer DEF EdgeLabel
    <3>7. EndLabel(b) # GuardLabel(b)
      BY LabelsDiffer DEF EndLabel
    <3>8. /\ e # <<BlockLabel(b), JoinLabel(b)>> /\ e # <<EndLabel(b), GuardLabel(b)>>
          /\ \A l : e # <<GuardLabel(b), l>>
      BY <2>6, <3>6, <3>7
    <3> QED BY <3>2, <3>3, <3>5, <3>8 DEF EdgesOf
  <2>7. \A k \in DOMAIN edges : edges[k] \in Range(edges)
    BY DEF Range
  <2> QED BY <2>1, <2>4, <2>5, <2>6, <2>7 DEF ReachesSuccessors
<1> QED BY <1>1, EmissionInvariant, PTL
=============================================================================
