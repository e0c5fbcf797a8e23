------------------------------ MODULE GcRoots ------------------------------
(***************************************************************************)
(* How the LLVM back end keeps the managed values of one function body     *)
(* reachable (src/backend/llvm_ir.cc, BodyEmitter): the backward liveness  *)
(* analysis over the MIR blocks, and the code emitted from it, which       *)
(* stores every managed value to its root slot and zeroes slots that are   *)
(* dead.  The analysis runs step by step, then the emitted code is run     *)
(* against a collector that frees whatever no slot holds.                  *)
(*                                                                         *)
(* A root is an SSA value, a parameter or local, or the result storage of  *)
(* a throwing call, of managed type; values without references are left    *)
(* out, as collect_gc_roots leaves them out.  An object is its identity:   *)
(* what it refers to in turn is ManagedHeap's matter.  Receivers and       *)
(* constructor self have roots of their own for the whole call and play no *)
(* part in the analysis.                                                   *)
(***************************************************************************)
EXTENDS Integers, Sequences, FiniteSets

CONSTANTS
  Root,      \* names of values, symbols and result storages
  Object,    \* object identities, a set of numbers
  Null,      \* the null reference
  Dangling,  \* a reference to an object the collector has freed
  None,      \* "no root"
  Bodies     \* the MIR bodies under study

ASSUME RootConstants ==
  /\ Object \subseteq Nat /\ 0 \in Object   \* 0 is passed as the argument
  /\ Null \notin Object /\ Dangling \notin Object /\ Null # Dangling
  /\ None \notin Root

(* A body is a record
     blocks  : sequence of blocks, the first is the entry
     params  : parameters
     memory  : values that live in memory (aggregates); the others are LLVM
               registers and their slot is a copy
     symbols : parameters and locals
     storage : result storages of throwing calls.
   Blocks that cannot be reached are skipped by the analysis and never run;
   a body here holds the others.
   A block is a record
     phis  : for every phi result, the incoming value of each predecessor
     code  : sequence of the other instructions
     uses  : values its terminator uses
     next  : its successors.
   An instruction is a record
     op   : "new"      def is a new object; a safepoint
            "call"     no managed result; a safepoint
            "try"      throwing call: to becomes a new object, or def does
            "copy"     def (a value or a symbol) becomes a copy of from
            "patch"    part of the memory of symbol to becomes from
            "declare"  local def, without initializer
            "read"     only uses its operands
     use, def : roots it uses and defines
     from, to : source and destination of a copy, or None. *)

\* What lowering and the MIR verifier guarantee of an instruction: what it
\* reads it names as an operand, only throwing calls write result storage, and
\* a declaration without initializer has no operands.
WellFormedInstruction(b, i) ==
  /\ i.use \subseteq Root /\ i.def \subseteq Root
  /\ i.op \in {"read", "call", "patch"} => i.def = {}
  /\ i.op \in {"copy", "patch"} => i.from \in i.use
  /\ i.op = "patch" => i.to \in i.use
  /\ i.op = "try" => i.to \in b.storage
  /\ i.op = "declare" => i.use = {} /\ i.def \subseteq b.symbols

\* And of a body: terminators with successors use no managed value (conditions
\* are bool, selectors integers or enums), a phi has a value for every
\* predecessor, and result storage is read by its load only.
WellFormedBody(b) ==
  /\ Len(b.blocks) \in Nat \ {0} /\ DOMAIN b.blocks = 1..Len(b.blocks)
  /\ b.storage \subseteq Root
  /\ b.symbols \subseteq Root \ b.storage /\ b.params \subseteq b.symbols
  /\ \A n \in DOMAIN b.blocks :
       LET block == b.blocks[n]
       IN  /\ Len(block.code) \in Nat /\ DOMAIN block.code = 1..Len(block.code)
           /\ \A k \in DOMAIN block.code : WellFormedInstruction(b, block.code[k])
           /\ block.next \subseteq DOMAIN b.blocks
           /\ block.uses \subseteq Root \ b.storage
           /\ block.uses # {} => block.next = {}
           /\ DOMAIN block.phis \subseteq Root \ (b.storage \cup b.symbols)
           /\ \A s \in block.next : \A p \in DOMAIN b.blocks[s].phis :
                b.blocks[s].phis[p][n] \in Root \ b.storage

ASSUME BodiesAssumption == \A b \in Bodies : WellFormedBody(b)

VARIABLES
  body,        \* the body being emitted
  phase,       \* "fixpoint", "walk", "run", "done"
  at,          \* current block
  pc,          \* current instruction of the block
  changed,     \* the loop flag of the fixpoint
  liveIn,      \* gc_live_in_
  liveOut,     \* gc_live_out_
  live,        \* the running set of the second walk
  after,       \* gc_live_after_instructions_
  afterPhis,   \* gc_live_after_phis_
  value,       \* what each root holds by the meaning of the MIR
  slot         \* what the memory of its root slot holds

vars == <<body, phase, at, pc, changed, liveIn, liveOut, live, after,
          afterPhis, value, slot>>
analysis == <<liveIn, liveOut, after, afterPhis>>

-----------------------------------------------------------------------------
Block == DOMAIN body.blocks
Code(b) == body.blocks[b].code
Phis(b) == body.blocks[b].phis
PhiResults(b) == DOMAIN Phis(b)
Successors(b) == body.blocks[b].next
Predecessors(b) == {p \in Block : b \in Successors(p)}

\* Roots the analysis follows: gc_value_roots_ and gc_symbol_roots_.  Result
\* storages are roots of the frame but no part of the live sets.
Tracked == Root \ body.storage

Uses(i) == i.use \cap Tracked
Defines(i) == i.def \cap Tracked

BlockDefinitions(b) ==
  PhiResults(b) \cup UNION {Defines(Code(b)[k]) : k \in DOMAIN Code(b)}

\* Upward exposed uses: phi operands count for the predecessor instead.
BlockUses(b) ==
  LET definedBefore(k) ==
        PhiResults(b) \cup UNION {Defines(Code(b)[j]) : j \in 1..(k - 1)}
  IN  (UNION {Uses(Code(b)[k]) \ definedBefore(k) : k \in DOMAIN Code(b)})
      \cup (body.blocks[b].uses \ BlockDefinitions(b))

\* Mutant: phi operands are forgotten.
NextOutWithoutPhis(b) == UNION {liveIn[s] : s \in Successors(b)}

NextOut(b) ==
  UNION {liveIn[s] \cup {Phis(s)[p][b] : p \in PhiResults(s)} :
           s \in Successors(b)}

NextIn(b) == BlockUses(b) \cup (NextOut(b) \ BlockDefinitions(b))

\* One block of the loop over the blocks in reverse order; the loop repeats
\* until a whole pass changes nothing.
Fixpoint ==
  LET differs == NextOut(at) # liveOut[at] \/ NextIn(at) # liveIn[at]
      again == changed \/ differs
  IN  /\ phase = "fixpoint"
      /\ liveOut' = [liveOut EXCEPT ![at] = NextOut(at)]
      /\ liveIn' = [liveIn EXCEPT ![at] = NextIn(at)]
      /\ IF at > 1
         THEN /\ at' = at - 1 /\ changed' = again
              /\ UNCHANGED <<phase, pc, live>>
         ELSE /\ at' = Len(body.blocks) /\ changed' = FALSE
              /\ IF again THEN UNCHANGED <<phase, pc, live>>
                 ELSE /\ phase' = "walk"
                      /\ pc' = Len(Code(at'))
                      /\ live' = liveOut'[at'] \cup body.blocks[at'].uses
      /\ UNCHANGED <<body, after, afterPhis, value, slot>>

\* Mutant: a definition does not end the life of the older content.
BeforeWithoutKill(i, liveAfter) == liveAfter \cup Uses(i)

Before(i, liveAfter) == (liveAfter \ Defines(i)) \cup Uses(i)

\* The second walk: the live set after every instruction, last to first.
WalkInstruction ==
  /\ phase = "walk" /\ pc > 0
  /\ after' = [after EXCEPT ![at][pc] = live]
  /\ live' = Before(Code(at)[pc], live)
  /\ pc' = pc - 1
  /\ UNCHANGED <<body, phase, at, changed, liveIn, liveOut, afterPhis, value,
                 slot>>

-----------------------------------------------------------------------------
\* Code emission and its effect.  Cleared roots are zeroed in memory.
Zeroed(memory, roots) ==
  [r \in Root |-> IF r \in roots THEN Null ELSE memory[r]]

\* Mutant: a block only clears what its own instructions touch.
BlockEntryClearsNothing(b) == {}

\* emit_gc_block_entry_clears.
BlockEntryClears(b) ==
  LET parameters == IF b = 1 THEN body.params ELSE {}
      candidates == parameters \cup UNION {liveOut[p] : p \in Predecessors(b)}
  IN  candidates \ afterPhis[b]

\* What the code reads when it names a root.
Read(r) == IF r \in body.memory THEN slot[r] ELSE value[r]

\* The state after the last phi, or the state at block entry without phis.
AfterPhisOf(b) == IF PhiResults(b) = {} THEN liveIn[b] ELSE live

\* End of a block's walk; after the first block the emitted code starts:
\* emit_prologue zeroes every slot and stores the parameters.
WalkBlock ==
  /\ phase = "walk" /\ pc = 0
  /\ UNCHANGED <<body, changed, liveIn, liveOut, after>>
  /\ afterPhis' = [afterPhis EXCEPT ![at] = AfterPhisOf(at)]
  /\ IF at > 1
     THEN /\ at' = at - 1 /\ pc' = Len(Code(at'))
          /\ live' = liveOut[at'] \cup body.blocks[at'].uses
          /\ UNCHANGED <<phase, value, slot>>
     ELSE LET argument == [r \in Root |-> IF r \in body.params
                                          THEN 0 ELSE Null]
          IN  /\ phase' = "run" /\ pc' = 1 /\ at' = 1
              /\ live' = {}
              /\ value' = argument
              /\ slot' = Zeroed(argument, BlockEntryClears(1)')

\* Objects some root refers to.
Held == {value[r] : r \in Root} \cup {slot[r] : r \in Root}

IsNew(o) ==
  /\ o \in Object \ Held
  /\ \A other \in Object \ Held : o <= other

\* What the program can still name once the collector has freed every object
\* that no slot of the frame holds.
Survives == {slot[r] : r \in Root}
Collected(held) ==
  [r \in Root |-> IF held[r] \in Object \ Survives THEN Dangling ELSE held[r]]

\* emit_gc_dead_roots: operands, results and the touched symbol.
DeadRoots(i, liveAfter) == (Uses(i) \cup Defines(i)) \ liveAfter

\* The roots written by an instruction and what is written, as functions over
\* the roots: SSA registers and symbols are written by the instruction, the
\* slot of a register by emit_gc_value_root.
Written(function, roots, content) ==
  [r \in Root |-> IF r \in roots THEN content ELSE function[r]]

Effect(i, held, memory) ==
  \/ /\ i.op = "new"
     /\ \E o \in Object : /\ IsNew(o)
                          /\ value' = Written(held, i.def, o)
                          /\ slot' = Zeroed(Written(memory, i.def, o),
                                            DeadRoots(i, after[at][pc]))
  \/ /\ i.op = "try"
     /\ \E o \in Object, failed \in BOOLEAN :
          LET target == IF failed THEN i.def ELSE {i.to}
              null == IF failed THEN {} ELSE i.def
          IN  /\ IsNew(o)
              /\ value' = Written(Written(held, target, o), null, Null)
              /\ slot' = Zeroed(Written(Written(memory, target, o), null, Null),
                                DeadRoots(i, after[at][pc]))
  \/ /\ i.op \in {"copy", "patch"}
     /\ LET target == IF i.op = "copy" THEN i.def ELSE {i.to}
        IN  /\ value' = Written(held, target, held[i.from])
            /\ slot' = Zeroed(Written(memory, target, Read(i.from)),
                              DeadRoots(i, after[at][pc]))
  \/ /\ i.op \in {"read", "call"}
     /\ value' = held
     /\ slot' = Zeroed(memory, DeadRoots(i, after[at][pc]))
  \/ /\ i.op = "declare"
     /\ value' = Written(held, i.def, Null)
     /\ slot' = Zeroed(memory, DeadRoots(i, after[at][pc]))

\* One instruction with emit_gc_value_root and emit_gc_dead_roots.
Execute ==
  /\ phase = "run" /\ pc <= Len(Code(at))
  /\ LET i == Code(at)[pc]
     IN  \/ Effect(i, value, slot)
         \/ /\ i.op \in {"new", "call", "try"}
            /\ Effect(i, Collected(value), slot)
  /\ pc' = pc + 1
  /\ UNCHANGED <<body, phase, at, changed, live, analysis>>

\* Mutant: aggregate phis are assigned one after the other.
PhiReadSequential(b, s, p) ==
  LET source == Phis(s)[p][b]
  IN  IF source \in PhiResults(s) \cap body.memory /\ source # p
      THEN Read(Phis(s)[source][b]) ELSE Read(source)

\* Every phi reads its operand before any phi is assigned.
PhiRead(b, s, p) == Read(Phis(s)[p][b])

\* The edge to a successor: phis, their roots, and the block entry clears.
Branch(s) ==
  /\ phase = "run" /\ pc > Len(Code(at)) /\ s \in Successors(at)
  /\ value' = [r \in Root |-> IF r \in PhiResults(s)
                              THEN value[Phis(s)[r][at]] ELSE value[r]]
  /\ slot' = Zeroed([r \in Root |-> IF r \in PhiResults(s)
                                    THEN PhiRead(at, s, r) ELSE slot[r]],
                    BlockEntryClears(s))
  /\ at' = s /\ pc' = 1
  /\ UNCHANGED <<body, phase, changed, live, analysis>>

\* A return or error terminator pops the frame.
Leave ==
  /\ phase = "run" /\ pc > Len(Code(at)) /\ Successors(at) = {}
  /\ phase' = "done"
  /\ UNCHANGED <<body, at, pc, changed, live, analysis, value, slot>>

Init ==
  /\ body \in Bodies
  /\ phase = "fixpoint" /\ at = Len(body.blocks) /\ pc = 0 /\ changed = FALSE
  /\ liveIn = [b \in Block |-> {}] /\ liveOut = [b \in Block |-> {}]
  /\ live = {}
  /\ after = [b \in Block |-> [k \in DOMAIN Code(b) |-> {}]]
  /\ afterPhis = [b \in Block |-> {}]
  /\ value = [r \in Root |-> Null] /\ slot = [r \in Root |-> Null]

Next ==
  \/ Fixpoint
  \/ WalkInstruction
  \/ WalkBlock
  \/ Execute
  \/ \E s \in Block : Branch(s)
  \/ Leave
  \/ phase = "done" /\ UNCHANGED vars

Spec == Init /\ [][Next]_vars
-----------------------------------------------------------------------------
\* What is live before the next step of the running code.
LiveNow ==
  IF pc <= Len(Code(at)) THEN Before(Code(at)[pc], after[at][pc])
  ELSE liveOut[at] \cup body.blocks[at].uses

\* Roots the next step reads: operands, or the operands of the terminator and
\* of the phis on its edges.
Operands ==
  IF pc <= Len(Code(at)) THEN Code(at)[pc].use
  ELSE body.blocks[at].uses \cup
       UNION {{Phis(s)[p][at] : p \in PhiResults(s)} : s \in Successors(at)}

\* Phis whose result nothing uses.
UnusedPhis == UNION {PhiResults(b) \ afterPhis[b] : b \in Block}

\* The variables have their types.
TypeOK ==
  /\ body \in Bodies
  /\ phase \in {"fixpoint", "walk", "run", "done"}
  /\ at \in Block /\ pc \in 0..(Len(Code(at)) + 1) /\ changed \in BOOLEAN
  /\ liveIn \in [Block -> SUBSET Tracked] /\ liveOut \in [Block -> SUBSET Tracked]
  /\ afterPhis \in [Block -> SUBSET Tracked] /\ live \in SUBSET Tracked
  /\ \A b \in Block : after[b] \in [DOMAIN Code(b) -> SUBSET Tracked]
  /\ value \in [Root -> Object \cup {Null, Dangling}]
  /\ slot \in [Root -> Object \cup {Null, Dangling}]

\* Every read of the emitted code, after any number of collections, gives what
\* the MIR says: no operand was freed, no slot was zeroed while its content was
\* still wanted, and a local declared again in a loop without initializer reads
\* null rather than what the last iteration left (emit_gc_dead_roots,
\* emit_gc_block_entry_clears, emit_gc_value_root).
ReadsExact ==
  phase = "run" =>
    \A r \in Operands : /\ value[r] # Dangling
                        /\ r \in body.memory => slot[r] = value[r]

\* A slot holds an object only while its root is live, so the frame keeps no
\* garbage; a phi that nothing uses is the one exception.
SlotsPrecise ==
  phase = "run" =>
    \A r \in Tracked : slot[r] # Null => r \in LiveNow \cup UnusedPhis

=============================================================================
