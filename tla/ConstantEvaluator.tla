-------------------------- MODULE ConstantEvaluator --------------------------
(***************************************************************************)
(* The static constants of a compilation: the analyzer types each static   *)
(* field within the limits of its package, constant_evaluator.cc binds the *)
(* fields in the order of their identities, visits the graph of their      *)
(* references depth first and evaluates a field when those it refers to    *)
(* are done, and hir_verifier.cc checks what it claims.                    *)
(*                                                                         *)
(* A program is a sequence of static fields (type, initializer or Nil,     *)
(* final, package) and `rank`, the place of each in the order of canonical *)
(* identities, which has nothing to do with the order of declaration.      *)
(***************************************************************************)
EXTENDS SequencesExt, ScalarLowering, ConstantVerifier

CONSTANTS IsProgram(_), MaxStaticConstants, MaxPackageConstantNodes

VARIABLES
  program,
  phase,        \* "analyze", "bind", "visit", "verify", "done"
  cursor,       \* the field, or the place in the order of identities, that is next
  budgets,      \* constant_budgets_: package -> static constants, their nodes
  fields,       \* the symbols: valid, the typed initializer, static_constant
  states,       \* Node::state
  edges,        \* Node::edges
  stack,        \* visit's frames
  diagnostics,
  verdict       \* what verify_constants says

vars == <<program, phase, cursor, budgets, fields, states, edges, stack, diagnostics, verdict>>

Fields == DOMAIN program.fields
Package(i) == program.fields[i].package
NoConstant == Failed("kInvalidOperation")
Constants == [i \in Fields |-> fields[i].constant]
At(rank) == CHOOSE i \in Fields : program.rank[i] = rank
Report(i, what) == diagnostics' = diagnostics \cup {[field |-> i, what |-> what]}

Init ==
  /\ IsProgram(program)
  /\ phase = "analyze" /\ cursor = 1
  /\ budgets = [p \in {Package(i) : i \in Fields} |-> [count |-> 0, nodes |-> 0]]
  /\ fields = [i \in Fields |-> [valid |-> TRUE, init |-> Nil, constant |-> NoConstant]]
  /\ states = [i \in Fields |-> "unevaluated"]
  /\ edges = [i \in Fields |-> <<>>]
  /\ stack = <<>>
  /\ diagnostics = {}
  /\ verdict = "none"

-----------------------------------------------------------------------------
(* analyze_field, of a static field. *)

Advance(next) ==
  IF cursor = Len(program.fields) THEN phase' = next /\ cursor' = 1
  ELSE phase' = phase /\ cursor' = cursor + 1
AnalyzeUnchanged == UNCHANGED <<program, states, edges, stack, verdict>>
Counted(b) == [b EXCEPT !.count = @ + 1]

ExceedsCount(i) == budgets[Package(i)].count + 1 > MaxStaticConstants
\* Only the first field over the limit is reported.
FieldOverCount(i) ==
  /\ ExceedsCount(i)
  /\ budgets' = [budgets EXCEPT ![Package(i)] = Counted(@)]
  /\ fields' = [fields EXCEPT ![i].valid = FALSE]
  /\ IF budgets[Package(i)].count = MaxStaticConstants THEN Report(i, "count")
     ELSE UNCHANGED diagnostics

FitsBudget(e, b) ==
  PreflightConstantExpression(e) /\ NodeCount(e) <= MaxPackageConstantNodes - b.nodes
FieldRefused(i) ==
  /\ ~ ExceedsCount(i)
  /\ program.fields[i].init # Nil
  /\ ~ FitsBudget(program.fields[i].init, budgets[Package(i)])
  /\ budgets' = [budgets EXCEPT ![Package(i)] = Counted(@)]
  /\ fields' = [fields EXCEPT ![i].valid = FALSE]
  /\ Report(i, "preflight")

FieldWithoutInitializer(i) ==
  /\ ~ ExceedsCount(i)
  /\ program.fields[i].init = Nil
  /\ budgets' = [budgets EXCEPT ![Package(i)] = Counted(@)]
  /\ fields' = [fields EXCEPT ![i].valid = FALSE]
  /\ Report(i, "initializer")

Accepts(f, e) ==
  f.final /\ WellTyped(e) /\ IsAssignable(f.type, e.t) /\ IsScalarConstantType(f.type)
TypedField(i, e, ok) ==
  /\ fields' = [fields EXCEPT ![i].init = e, ![i].valid = ok]
  /\ IF ok THEN UNCHANGED diagnostics ELSE Report(i, "type")
FieldAnalyzed(i) ==
  LET f == program.fields[i]
      e == Analyze(f.init, f.type, FALSE, FALSE)
  IN /\ ~ ExceedsCount(i)
     /\ f.init # Nil
     /\ FitsBudget(f.init, budgets[Package(i)])
     /\ budgets' = [budgets EXCEPT ![Package(i)] =
                      [Counted(@) EXCEPT !.nodes = @ + NodeCount(f.init)]]
     /\ TypedField(i, e, Accepts(f, e))

AnalyzeField ==
  /\ phase = "analyze"
  /\ \/ FieldOverCount(cursor)
     \/ FieldRefused(cursor)
     \/ FieldWithoutInitializer(cursor)
     \/ FieldAnalyzed(cursor)
  /\ Advance("bind") /\ AnalyzeUnchanged

-----------------------------------------------------------------------------
(* ConstantEvaluator::bind: in the order of identities. *)

RECURSIVE Eligible(_)
Eligible(e) ==
  IF e.k \in {"name", "member"}
  THEN e.sym.kind \in {"enum", "import"} \/ (e.sym.kind = "own" /\ program.fields[e.sym.id].final)
  ELSE /\ IsScalarConstantType(e.t)
       /\ e.k \in HasOperands => Eligible(e.l)
       /\ e.k = "binary" => Eligible(e.r)

ReferencesOf(i) == {References(fields[i].init)[k] : k \in DOMAIN References(fields[i].init)}
SortedByRank(S) == SetToSortSeq(S, LAMBDA a, b : program.rank[a] < program.rank[b])

Binds(i) == fields[i].valid /\ program.fields[i].final
Bind(i) ==
  \/ /\ ~ Binds(i)
     /\ states' = [states EXCEPT ![i] = "failed"]
     /\ fields' = [fields EXCEPT ![i].valid = FALSE]
     /\ UNCHANGED <<edges, diagnostics>>
  \/ /\ Binds(i) /\ ~ Eligible(fields[i].init)
     /\ states' = [states EXCEPT ![i] = "failed"]
     /\ fields' = [fields EXCEPT ![i].valid = FALSE]
     /\ Report(i, "not constant")
     /\ UNCHANGED edges
  \/ /\ Binds(i) /\ Eligible(fields[i].init)
     /\ edges' = [edges EXCEPT ![i] = SortedByRank(ReferencesOf(i))]
     /\ UNCHANGED <<states, fields, diagnostics>>
BindField ==
  /\ phase = "bind"
  /\ Bind(At(cursor))
  /\ Advance("visit")
  /\ UNCHANGED <<program, budgets, stack, verdict>>

-----------------------------------------------------------------------------
(* ConstantEvaluator::visit: an explicit stack of frames. *)

Top == stack[Len(stack)]
Frame(i) == [node |-> i, edge |-> 0]
VisitUnchanged == UNCHANGED <<program, budgets, edges, verdict>>

VisitRoot ==
  /\ phase = "visit" /\ stack = <<>>
  /\ LET i == At(cursor)
     IN IF states[i] = "unevaluated"
        THEN /\ states' = [states EXCEPT ![i] = "evaluating"]
             /\ stack' = <<Frame(i)>>
             /\ UNCHANGED <<phase, cursor>>
        ELSE Advance("verify") /\ UNCHANGED <<states, stack>>
  /\ UNCHANGED <<fields, diagnostics>> /\ VisitUnchanged

HasEdge == stack # <<>> /\ Top.edge < Len(edges[Top.node])
Target == edges[Top.node][Top.edge + 1]
Followed == [stack EXCEPT ![Len(stack)].edge = @ + 1]

FollowFresh ==
  /\ phase = "visit" /\ HasEdge /\ states[Target] = "unevaluated"
  /\ states' = [states EXCEPT ![Target] = "evaluating"]
  /\ stack' = Append(Followed, Frame(Target))
  /\ UNCHANGED <<phase, cursor, fields, diagnostics>> /\ VisitUnchanged

\* Everything on the stack from the target on is on the cycle.
OnCycle == {stack[k].node : k \in {k \in DOMAIN stack :
              \E j \in 1 .. k : stack[j].node = Target}}
FollowCycle ==
  /\ phase = "visit" /\ HasEdge /\ states[Target] = "evaluating"
  /\ Report(Top.node, "cycle")
  /\ states' = [i \in Fields |-> IF i \in OnCycle THEN "failed" ELSE states[i]]
  /\ fields' = [i \in Fields |-> IF i \in OnCycle THEN [fields[i] EXCEPT !.valid = FALSE]
                                 ELSE fields[i]]
  /\ stack' = Followed
  /\ UNCHANGED <<phase, cursor>> /\ VisitUnchanged

FollowDone ==
  /\ phase = "visit" /\ HasEdge /\ states[Target] \in {"valid", "failed"}
  /\ stack' = Followed
  /\ UNCHANGED <<phase, cursor, states, fields, diagnostics>> /\ VisitUnchanged

\* Whether a node may be evaluated: it and all it refers to have succeeded.
ReadyAnyFailure(i) == states[i] # "failed"
Ready(i) ==
  /\ states[i] # "failed"
  /\ \A k \in DOMAIN edges[i] : states[edges[i][k]] = "valid"
FieldValue(i, constants) ==
  Converted(Evaluate(fields[i].init, constants), program.fields[i].type)
Finished(i, ready, value) ==
  IF ready /\ value.ok
  THEN /\ states' = [states EXCEPT ![i] = "valid"]
       /\ fields' = [fields EXCEPT ![i].constant = value]
       /\ UNCHANGED diagnostics
  ELSE /\ states' = [states EXCEPT ![i] = "failed"]
       /\ fields' = [fields EXCEPT ![i].valid = FALSE]
       /\ IF ready THEN Report(i, "value") ELSE UNCHANGED diagnostics
Finish ==
  /\ phase = "visit" /\ stack # <<>> /\ ~ HasEdge
  /\ Finished(Top.node, Ready(Top.node),
              IF Ready(Top.node) THEN FieldValue(Top.node, Constants) ELSE NoConstant)
  /\ stack' = SubSeq(stack, 1, Len(stack) - 1)
  /\ UNCHANGED <<phase, cursor>> /\ VisitUnchanged

-----------------------------------------------------------------------------
(* verify_constant_limits and verify_constants, which run on a program     *)
(* without diagnostics.                                                    *)

NodesOf(p) == FoldSet(LAMBDA i, n : n + NodeCount(fields[i].init), 0,
                      {i \in Fields : Package(i) = p})
WithinLimits ==
  /\ \A i \in Fields : /\ NodeCount(fields[i].init) <= MaxConstantNodes
                       /\ Depth(fields[i].init) <= MaxConstantDepth
  /\ \A p \in DOMAIN budgets :
       /\ Cardinality({i \in Fields : Package(i) = p}) <= MaxStaticConstants
       /\ NodesOf(p) <= MaxPackageConstantNodes
VerifierAccepts(constants) ==
  /\ WithinLimits
  /\ \A i \in Fields : /\ program.fields[i].final
                       /\ Sound(fields[i].init)
                       /\ LiteralsCanonical(fields[i].init, FALSE)
  /\ ~ HasCycle([i \in Fields |-> References(fields[i].init)])
  /\ \A i \in Fields : ClaimHolds(fields[i].init, fields[i].constant, constants)
VerifyConstants ==
  /\ phase = "verify"
  /\ verdict' = IF diagnostics # {} THEN "diagnosed"
                ELSE IF VerifierAccepts(Constants) THEN "accepted" ELSE "internal error"
  /\ phase' = "done"
  /\ UNCHANGED <<program, cursor, budgets, fields, states, edges, stack, diagnostics>>

Next ==
  \/ AnalyzeField
  \/ BindField
  \/ VisitRoot
  \/ FollowFresh
  \/ FollowCycle
  \/ FollowDone
  \/ Finish
  \/ VerifyConstants

Spec == Init /\ [][Next]_vars

-----------------------------------------------------------------------------
(* Properties. *)

\* What every field is worth whatever the order of the visit: a field has a
\* value when all those it refers to have one and its own evaluation succeeds,
\* so the fields of a cycle and all that lead to them have none.
RECURSIVE Settle(_, _, _)
Settle(known, bound, rounds) ==
  IF rounds = 0 THEN known
  ELSE Settle([i \in Fields |->
                 IF i \in bound /\ \A j \in ReferencesOf(i) : known[j].ok
                 THEN FieldValue(i, known) ELSE NoConstant],
              bound, rounds - 1)
RECURSIVE Reach(_)
Reach(S) ==
  LET R == S \cup UNION {IF fields[i].init = Nil THEN {} ELSE ReferencesOf(i) : i \in S}
  IN IF R = S THEN S ELSE Reach(R)
\* A field without a value is explained by a diagnostic of a field it leads to,
\* or by the one its package had for the number of its constants.
Explained(i) ==
  \E d \in diagnostics : \E j \in Reach({i}) :
    d.field = j \/ (d.what = "count" /\ Package(d.field) = Package(j))

\* The fields the analyzer and bind let through.
Evaluable == {i \in Fields : /\ program.fields[i].final /\ fields[i].init # Nil
                             /\ [field |-> i, what |-> "type"] \notin diagnostics
                             /\ Eligible(fields[i].init)}

\* ConstantsExact (ConstantEvaluator::visit): when the evaluator has finished,
\* each static field holds exactly the value the definition above gives it and
\* is failed exactly when it has none, whatever the order of the identities
\* made the visit meet first; and no field fails without a diagnostic that
\* explains it.
ConstantsExact ==
  phase = "done" =>
    LET expected == Settle([i \in Fields |-> NoConstant], Evaluable, Len(program.fields))
    IN \A i \in Fields :
         /\ states[i] = IF expected[i].ok THEN "valid" ELSE "failed"
         /\ expected[i].ok => fields[i].constant = expected[i]
         /\ states[i] = "failed" => ~ fields[i].valid /\ Explained(i)

\* What running the initializer of field i yields.
Outcome(i) ==
  Widened(Execute(fields[i].init, Constants), program.fields[i].type)

\* FoldAgrees (scalar_constants.cc against mir.cc, llvm_ir.cc and runtime.cc):
\* in every program that is not stopped by an internal error (ConstantsVerify
\* says when one is, and nothing of it is ever executed) an expression that may
\* be evaluated at compile time has a value exactly when
\* executing it would produce one without a failed guard or a value that is not
\* finite on the way, and the two are equal bit for bit; the evaluator the
\* analyzer uses for array lengths agrees with the one for static fields.
FoldAgrees ==
  phase = "done" /\ verdict # "internal error" =>
    \A i \in Evaluable :
      (\A j \in ReferencesOf(i) : states[j] = "valid") =>
        /\ IF states[i] = "valid"
           THEN Outcome(i) = Computed(program.fields[i].type, fields[i].constant.bits)
           ELSE Outcome(i).status # "value"
        /\ states[i] = "valid" =>
             Converted(ScalarConstantExpression(fields[i].init, Constants),
                       program.fields[i].type) = fields[i].constant

\* Every expression of a tree.
RECURSIVE Parts(_)
Parts(e) == {e} \cup UNION {Parts(Operands(e)[i]) : i \in DOMAIN Operands(e)}

\* A conversion of a literal whose suffix decides its value: float64(0.1f32)
\* is the float32 value, its digits read as a float64 are another one.  The
\* verifier has lost the suffix (hir_verifier.cc:516-519).
SuffixDecides(e) ==
  /\ e.k = "conv" /\ IsNumericLiteral(e.l)
  /\ LET s == SignedLiteral(e.l, <<>>)
         suffix == s.literal.text.suffix
     IN /\ suffix # "none"
        /\ Converted(EvaluateLiteral(s, suffix), e.to) # EvaluateLiteral(s, e.to)
\* A floating literal that is an integer of the target under its sign only:
\* int8(-128.0).  The verifier tries the sign for integer literals only
\* (hir_verifier.cc:1299-1325).
SignDecides(e) ==
  /\ e.k = "conv" /\ IsNumericLiteral(e.l) /\ Integral(e.to)
  /\ LET text == SignedLiteral(e.l, <<>>).literal.text
     IN text.kind = "float" /\ text.suffix = "none" /\ ~ ScalarLiteral(text, e.to, FALSE).ok

\* ConstantsVerify (hir_verifier.cc verify_constants and verify_expressions):
\* a program the analyzer and the evaluator accept is refused by the check of
\* what they claim, an internal error of the compiler, only when it converts a
\* literal whose value hangs on its suffix, or on its sign as the smallest
\* integer of its type does.
ConstantsVerify ==
  verdict = "internal error" =>
    \E i \in Fields : \E e \in Parts(program.fields[i].init) :
      SuffixDecides(e) \/ SignDecides(e)
=============================================================================
