--------------------------- MODULE CallableChecks ---------------------------
(***************************************************************************)
(* One callable on its way through the compiler, and its execution: the    *)
(* semantic analysis of its statements (nullability, effects), the         *)
(* initialization analysis of its fields, the control-flow analysis, the   *)
(* lowering to MIR, the MIR verifier, and the run of the verified body.    *)
(*                                                                         *)
(* A callable is a record:                                                 *)
(*   file     "class" or "struct", the kind of the file that declares it   *)
(*   ctor     a constructor, or else a function that returns a value       *)
(*   throws   it has the error ABI (a throws clause)                       *)
(*   base     the base constructor: "none", "plain" or "throws"            *)
(*   final    the final fields                                             *)
(*   kind     the kind of each field's type (TypeKind): "primitive",       *)
(*            "nullable", "struct", "enum", "string", "Object", "class",   *)
(*            "array", "interface" or "error"                              *)
(*   init     the fields with a declaration initializer, risky the ones    *)
(*            whose initializer calls a function that throws               *)
(*   body     its statements (StatementFlow)                               *)
(* The operations of the statements, on a field f or the nullable local:   *)
(*   store f, load f       self.f = value, a read of f                     *)
(*   self, call, trycall   self as a value, calls of an instance function  *)
(*   use                   a read of the local as a non-null value         *)
(*   clear, fill           local = null, local = value                     *)
(*   assert                local!                                          *)
(*   throw                                                                 *)
(***************************************************************************)
EXTENDS StatementFlow

CONSTANTS
    Field,          \* the instance fields of the file
    Callables       \* the callables a source file may declare

VARIABLES
    callable,       \* the callable being compiled
    stage,          \* how far the compiler got, then "run" and "done"
    body,           \* its MIR body
    block, next,    \* the block that runs and the position in it
    assigned,       \* how often each field has been assigned, up to 2
    local           \* whether the nullable local holds a value

vars == <<callable, stage, body, block, next, assigned, local>>

-----------------------------------------------------------------------------
(***************************************************************************)
(* sema/semantic_analyzer.cc, analyze_statement.  The result of a          *)
(* statement: nn, the local is known to be non-null after it; ret, control *)
(* does not reach its end; brk and cont, what is known of the local where  *)
(* a break or a continue leaves it; eff, it may throw; err, diagnostics.   *)
(* env has flow_reachable_, effects_reachable_ and whether a break or a    *)
(* continue has a target.                                                  *)
(***************************************************************************)

RECURSIVE sema_block(_, _, _)
RECURSIVE sema_statement(_, _, _)

Known(nn, ret) ==
    [nn |-> nn, ret |-> ret, brk |-> {}, cont |-> {}, eff |-> FALSE, err |-> {}]

\* record_direct_error, record_call_effect.
Recorded(env) == env.live /\ env.eff

\* Assigning the local drops what is known of it; an assertion proves it.
sema_expression(a, nn, env) ==
    [Known(CASE a[1] \in {"clear", "fill"} -> FALSE
             [] a[1] = "assert" -> TRUE
             [] OTHER -> nn,
           never_completes(a))
        EXCEPT !.eff = IsThrowing(a) /\ Recorded(env),
               !.err = IF a[1] = "use" /\ ~nn THEN {"nullable use"}
                       ELSE IF a[1] = "assert" /\ nn THEN {"needless assertion"}
                       ELSE {}]

\* Operations in sequence: the initializer or the updates of a for loop.
sema_expressions(as, nn, env) ==
    LET Step(x, a) ==
            LET r == sema_expression(a, x.nn, [env EXCEPT !.eff = @ /\ ~x.ret])
            IN  [r EXCEPT !.ret = @ \/ x.ret, !.eff = @ \/ x.eff,
                          !.err = @ \cup x.err]
    IN  FoldLeft(Step, Known(nn, FALSE), as)

\* What the conditions prove: facts.when_true and facts.when_false.
WhenTrue(c, nn) == nn \/ c = "present"
WhenFalse(c, nn) == nn \/ c = "absent"

\* The same statement with what two of its parts report.
Together(x, r, s) ==
    [x EXCEPT !.brk = r.brk \cup s.brk, !.cont = r.cont \cup s.cont,
              !.eff = r.eff \/ s.eff, !.err = r.err \cup s.err]

\* Mutant: the state after the then branch is kept at the join.
IfJoinKeepsThen(s, nn, t, e) ==
    Together(Known(t.nn, s.c = "throw" \/ (t.ret /\ e.ret)), t, e)

\* The paths that end normally meet; a path that returns proves nothing.
IfJoin(s, nn, t, e) ==
    LET after == CASE t.ret /\ e.ret -> nn
                   [] t.ret /\ ~e.ret -> e.nn
                   [] ~t.ret /\ e.ret -> t.nn
                   [] OTHER -> t.nn /\ e.nn
    IN  Together(Known(after, s.c = "throw" \/ (t.ret /\ e.ret)), t, e)

\* A condition that throws is the last effect of the statement.
WithEffect(r, thrown) == [r EXCEPT !.eff = @ \/ thrown]

sema_if(s, nn, env) ==
    LET in == [env EXCEPT !.eff = @ /\ s.c # "throw"]
    IN  WithEffect(IfJoin(s, nn, sema_block(s.t, WhenTrue(s.c, nn), in),
                                 sema_block(s.e, WhenFalse(s.c, nn), in)),
                   s.c = "throw" /\ Recorded(env))

\* finish_loop: what is known before the loop meets every path that leaves or
\* repeats the body b; the updates of a for loop run where it repeats.
finish_loop(s, c, env, pre, b) ==
    LET again == b.cont \cup (IF b.ret THEN {} ELSE {b.nn})
        u == sema_expressions(IF s.k = "for" THEN s.u ELSE <<>>,
                 IF again = {} THEN pre.nn ELSE FALSE \notin again,
                 [env EXCEPT !.eff = @ /\ again # {}])
        repeats == IF s.k # "for" \/ again = {} THEN again ELSE {u.nn}
        ends == pre.ret \/ c = "throw" \/ (c \in {"true", "none"} /\ b.brk = {})
    IN  [Known(pre.nn /\ FALSE \notin b.brk \cup repeats, ends) EXCEPT
            !.eff = pre.eff \/ b.eff \/ u.eff,
            !.err = pre.err \cup b.err \cup u.err]

\* The body is analyzed once, from what is known before the loop.
LoopFrom(s, c, env, pre) ==
    LET in == [env EXCEPT !.eff = @ /\ ~pre.ret /\ c # "throw"]
        inner == [in EXCEPT !.brk = TRUE, !.cont = TRUE]
    IN  WithEffect(finish_loop(s, c, in, pre,
                               sema_block(s.b, WhenTrue(c, pre.nn), inner)),
                   c = "throw" /\ Recorded(env) /\ ~pre.ret)

sema_loop(s, nn, env) ==
    LoopFrom(s, IF s.k = "each" THEN "any" ELSE s.c, env,
             sema_expressions(IF s.k = "for" THEN s.i ELSE <<>>, nn, env))

\* An arm ends at the switch, also by a break; continue belongs to a loop.
SwitchJoin(s, nn, arms) ==
    LET join == (IF exhaustive(s) THEN {} ELSE {nn}) \cup
                UNION {a.brk \cup (IF a.ret THEN {} ELSE {a.nn}) : a \in arms}
        bad == IF s.enum /\ ~exhaustive(s) THEN {"non-exhaustive"} ELSE {}
    IN  [Known(IF join = {} THEN nn ELSE FALSE \notin join, join = {}) EXCEPT
            !.cont = UNION {a.cont : a \in arms},
            !.eff = \E a \in arms : a.eff,
            !.err = bad \cup UNION {a.err : a \in arms}]

sema_switch(s, nn, env) ==
    SwitchJoin(s, nn, {sema_block(s.arms[j], nn, [env EXCEPT !.brk = TRUE]) :
                         j \in DOMAIN s.arms})

sema_statement(s, nn, env) ==
    CASE s.k = "do" -> sema_expression(s.a, nn, env)
      [] s.k = "return" -> Known(nn, TRUE)
      [] s.k = "break" ->
            [Known(nn, TRUE) EXCEPT
                !.brk = IF env.live THEN {nn} ELSE {},
                !.err = IF env.brk THEN {} ELSE {"misplaced break"}]
      [] s.k = "continue" ->
            [Known(nn, TRUE) EXCEPT
                !.cont = IF env.live THEN {nn} ELSE {},
                !.err = IF env.cont THEN {} ELSE {"misplaced continue"}]
      [] s.k = "if" -> sema_if(s, nn, env)
      [] s.k \in {"while", "for", "each"} -> sema_loop(s, nn, env)
      [] s.k = "switch" -> sema_switch(s, nn, env)
      [] s.k = "block" -> sema_block(s.b, nn, env)

\* What a statement that control does not reach proves is dropped.
Followed(x, r) ==
    Together([r EXCEPT !.nn = IF x.ret THEN x.nn ELSE @, !.ret = @ \/ x.ret],
             x, r)

sema_block(b, nn, env) ==
    LET Step(x, i) ==
            Followed(x, sema_statement(b[i], x.nn,
                                       [env EXCEPT !.live = @ /\ ~x.ret]))
    IN  FoldLeft(Step, Known(nn, FALSE), [i \in DOMAIN b |-> i])

-----------------------------------------------------------------------------
(***************************************************************************)
(* sema/field_initialization_analysis.cc.  A FlowState counts the fewest   *)
(* and the most assignments of each field on the paths that reach a point. *)
(***************************************************************************)

\* Fields of a struct, and fields of the types the code lists: interfaces and
\* error classes, which have no default value either, are not among them.
requires_initialization(c) ==
    {f \in Field : \/ c.file = "struct"
                   \/ c.kind[f] \in {"struct", "enum", "string", "Object",
                                     "class", "array"}}

tracked_fields(c) == c.final \cup requires_initialization(c)

RECURSIVE init_block(_, _, _, _)
RECURSIVE init_statement(_, _, _, _)

Unreached == [min |-> [f \in Field |-> 0], max |-> [f \in Field |-> 0],
              fall |-> FALSE]

begin_analysis(c) ==
    LET count == [f \in Field |-> IF f \in c.init THEN 1 ELSE 0]
    IN  [min |-> count, max |-> count, fall |-> TRUE]

Lesser(i, j) == IF i <= j THEN i ELSE j
Greater(i, j) == IF i <= j THEN j ELSE i

\* Mutant: a field assigned on one of two paths counts as assigned.
merge_flows_any(r, s) ==
    IF ~r.fall THEN s
    ELSE IF ~s.fall THEN r
    ELSE [min |-> [f \in Field |-> Greater(r.min[f], s.min[f])],
          max |-> [f \in Field |-> Greater(r.max[f], s.max[f])],
          fall |-> TRUE]

merge_flows(r, s) ==
    IF ~r.fall THEN s
    ELSE IF ~s.fall THEN r
    ELSE [min |-> [f \in Field |-> Lesser(r.min[f], s.min[f])],
          max |-> [f \in Field |-> Greater(r.max[f], s.max[f])],
          fall |-> TRUE]

Missing(fields, flow) == {f \in fields : flow.min[f] = 0}

\* The flow after a statement, the flow its breaks carry, and diagnostics.
Flows(flow, breaks, err) == [flow |-> flow, breaks |-> breaks, err |-> err]
Stopped(flow) == [flow EXCEPT !.fall = FALSE]

require_initialized(c, flow) ==
    IF Missing(tracked_fields(c), flow) = {} THEN {} ELSE {"incomplete exit"}

check_read(c, f, flow) ==
    IF f \in Missing(tracked_fields(c), flow) THEN {"early read"} ELSE {}

\* check_instance_call does the same for a call on self.
check_self_use(c, flow) ==
    IF Missing(requires_initialization(c), flow) = {} THEN {}
    ELSE {"early use of self"}

\* An assignment inside an expression initializes nothing.
init_expression(c, a, flow) ==
    CASE a[1] = "load" -> check_read(c, a[2], flow)
      [] a[1] \in {"self", "call", "trycall"} -> check_self_use(c, flow)
      [] a[1] = "store" ->
            IF a[2] \in c.final \cup Missing(tracked_fields(c), flow)
            THEN {"indirect initialization"} ELSE {}
      [] OTHER -> {}

init_expressions(c, as, flow) ==
    UNION {init_expression(c, as[x], flow) : x \in DOMAIN as}

\* A direct assignment statement.
assign_field(c, f, flow, loop) ==
    IF f \notin c.final THEN
        Flows([flow EXCEPT !.min[f] = 1, !.max[f] = 1], Unreached, {})
    ELSE IF loop THEN Flows(flow, Unreached, {"final in a loop"})
    ELSE Flows([flow EXCEPT !.min[f] = Lesser(2, @ + 1),
                            !.max[f] = Lesser(2, @ + 1)],
               Unreached,
               IF flow.max[f] # 0 THEN {"final assigned twice"} ELSE {})

\* Assignments of a loop's body b count only where a break leaves it.
LoopExit(c, s, flow, b) ==
    LET cond == IF s.k = "each" THEN "any" ELSE s.c
        as == IF s.k = "for" THEN s.i \o s.u ELSE <<>>
        out == IF cond \in {"true", "none"} THEN Stopped(flow) ELSE flow
    IN  Flows(merge_flows(out, b.breaks), Unreached,
              b.err \cup init_expressions(c, as, flow))

init_loop(c, s, flow) == LoopExit(c, s, flow, init_block(c, s.b, flow, TRUE))

\* Two paths of one statement.
JoinFlows(x, y) ==
    Flows(merge_flows(x.flow, y.flow), merge_flows(x.breaks, y.breaks),
          x.err \cup y.err)

\* The breaks of the arms leave the switch.
SwitchExit(x) == Flows(merge_flows(x.flow, x.breaks), Unreached, x.err)

init_switch(c, s, flow, loop) ==
    LET start == IF exhaustive(s) THEN Stopped(flow) ELSE flow
        Join(x, arm) == JoinFlows(x, init_block(c, arm, flow, loop))
    IN  SwitchExit(FoldLeft(Join, Flows(start, Unreached, {}), s.arms))

init_statement(c, s, flow, loop) ==
    CASE s.k = "do" ->
            IF s.a[1] = "store" THEN assign_field(c, s.a[2], flow, loop)
            ELSE Flows([flow EXCEPT !.fall = ~never_completes(s.a)], Unreached,
                       init_expression(c, s.a, flow))
      [] s.k = "return" ->
            Flows(Stopped(flow), Unreached, require_initialized(c, flow))
      [] s.k = "break" -> Flows(Stopped(flow), flow, {})
      [] s.k = "continue" -> Flows(Stopped(flow), Unreached, {})
      [] s.k = "if" /\ ~NeverEntered(s) ->
            JoinFlows(init_block(c, s.t, flow, loop), init_block(c, s.e, flow, loop))
      [] s.k \in {"while", "for", "each"} /\ ~NeverEntered(s) ->
            init_loop(c, s, flow)
      [] NeverEntered(s) ->
            Flows(Stopped(flow), Unreached,
                  IF s.k = "for" THEN init_expressions(c, s.i, flow) ELSE {})
      [] s.k = "switch" -> init_switch(c, s, flow, loop)
      [] s.k = "block" -> init_block(c, s.b, flow, loop)

\* The statements after one that cannot fall through are not looked at.
init_block(c, b, flow, loop) ==
    LET After(x, r) ==
            Flows(r.flow, merge_flows(x.breaks, r.breaks), x.err \cup r.err)
        Step(x, s) ==
            IF x.flow.fall THEN After(x, init_statement(c, s, x.flow, loop)) ELSE x
    IN  FoldLeft(Step, Flows(flow, Unreached, {}), b)

\* Field initializers and base arguments run before the body.
validate_constructor(c) ==
    LET r == init_block(c, c.body, begin_analysis(c), FALSE)
    IN  r.err \cup (IF r.flow.fall THEN require_initialized(c, r.flow) ELSE {})

-----------------------------------------------------------------------------
(***************************************************************************)
(* The front end of compiler/compilation.cc: every diagnostic of one       *)
(* callable.  Effects that no throws clause covers are diagnosed last.     *)
(***************************************************************************)

FlowOf(c) == analyze_block(c.body, <<>>, TRUE)

Diagnostics(c) ==
    LET s == sema_block(c.body, FALSE,
                 [live |-> TRUE, eff |-> TRUE, brk |-> FALSE, cont |-> FALSE])
        thrown == s.eff \/ (c.ctor /\ (c.base = "throws" \/ c.risky # {}))
    IN  s.err
        \cup (IF thrown /\ ~c.throws THEN {"uncovered effect"} ELSE {})
        \cup (IF c.ctor THEN validate_constructor(c) ELSE {})
        \cup (IF ~c.ctor /\ FlowOf(c).fall THEN {"missing return"} ELSE {})

-----------------------------------------------------------------------------
(***************************************************************************)
(* Lowering of a constructor: base call, field initialization, body.  With *)
(* the error ABI the declaration initializers are lowered inline.          *)
(***************************************************************************)

lower_field_initializers(c, m) ==
    LET Store(n, f) ==
            emit(IF f \in c.risky
                 THEN emit_call_instruction(n, Operation("value", "-")) ELSE n,
                 Operation("store", f))
    IN  FoldLeft(Store, m, SetToSeq(c.init))

\* Mutant: the declaration initializers run before the base constructor.
lower_constructor_fields_first(c) ==
    LET x == emit(BodyBuilder, Operation("initialize", "-"))
        y == IF c.throws THEN lower_field_initializers(c, x) ELSE x
        z == IF c.base = "none" THEN y ELSE emit(y, Operation("base", "-"))
    IN  lower_callable(c.body, z, TRUE)

lower_constructor(c) ==
    LET base == Operation("base", "-")
        x == CASE c.base = "none" -> BodyBuilder
               [] c.base = "plain" -> emit(BodyBuilder, base)
               [] c.base = "throws" -> emit_call_instruction(BodyBuilder, base)
        y == emit(x, Operation("initialize", "-"))
        z == IF c.throws THEN lower_field_initializers(c, y) ELSE y
    IN  lower_callable(c.body, z, TRUE)

lower_to_mir(c) ==
    IF c.ctor THEN lower_constructor(c)
    ELSE lower_callable(c.body, BodyBuilder, FALSE)

\* The initializer of a field also has a body of its own.
lower_initializer(c, f) ==
    terminate(IF f \in c.risky
              THEN emit_call_instruction(BodyBuilder, Operation("value", "-"))
              ELSE emit(BodyBuilder, Operation("value", "-")),
              Leave("return"))

-----------------------------------------------------------------------------
(***************************************************************************)
(* mir/mir_verifier.cc: what it reports of a constructor or a function.    *)
(***************************************************************************)

\* Where an instruction occurs: <<block, position>>.
Positions(m, a) ==
    UNION {{<<b, i>> : i \in {x \in DOMAIN m.blocks[b].ins :
                                m.blocks[b].ins[x] = a}} : b \in DOMAIN m.blocks}

\* One field initialization, after the base call and in its block.
verify_constructor_initialization(c, m) ==
    LET base == Positions(m, Operation("base", "-"))
        init == Positions(m, Operation("initialize", "-"))
    IN  IF /\ Cardinality(init) = 1
           /\ Cardinality(base) = (IF c.base = "none" THEN 0 ELSE 1)
           /\ \A p \in base, q \in init : p[1] = q[1] /\ p[2] < q[2]
        THEN {} ELSE {"base before fields"}

\* An error terminator needs the error ABI, reachable or not.
verify_terminators(throws, m) ==
    IF ~throws /\ \E b \in DOMAIN m.blocks : m.blocks[b].term.k = "error"
    THEN {"nonthrowing body"} ELSE {}

\* Fields definitely and possibly assigned, and what the block reports.
StructState(def, pos) == [def |-> def, pos |-> pos, err |-> {}]

transfer(c, x, st) ==
    LET Read(t, fields) ==
            IF fields \subseteq t.def THEN t
            ELSE [t EXCEPT !.err = @ \cup {"struct read"}]
        Write(t, fields) ==
            [def |-> t.def \cup fields, pos |-> t.pos \cup fields,
             err |-> t.err \cup (IF fields \cap c.final \cap t.pos = {} THEN {}
                                 ELSE {"final twice"})]
        Step(t, a) ==
            CASE a[1] = "initialize" -> Write(t, c.init)
              [] a[1] = "store" -> Write(t, {a[2]})
              [] a[1] = "load" -> Read(t, {a[2]})
              [] a[1] \in {"self", "call", "trycall"} -> Read(t, Field)
              [] OTHER -> t
        out == FoldLeft(Step, st, x.ins)
    IN  IF x.term.k = "return" THEN Read(out, Field) ELSE out

\* The fixed point of the worklist: in has the state at entry of the blocks
\* that some path reaches along every edge of the graph.
RECURSIVE propagate(_, _, _)
propagate(c, m, in) ==
    LET Out(b) == transfer(c, m.blocks[b], in[b])
        Pred(b) == {a \in DOMAIN in : b \in mir_successors(m.blocks[a].term)}
        reached == DOMAIN in \cup
                   UNION {mir_successors(m.blocks[a].term) : a \in DOMAIN in}
        meets == [b \in reached |->
            StructState(
                {f \in Field : /\ \A a \in Pred(b) : f \in Out(a).def
                               /\ b # 1},
                {f \in Field : \E a \in Pred(b) : f \in Out(a).pos})]
    IN  IF meets = in THEN in ELSE propagate(c, m, meets)

verify_struct_initialization(c, m) ==
    LET in == propagate(c, m, [b \in {1} |-> StructState({}, {})])
    IN  IF c.file # "struct" THEN {}
        ELSE UNION {transfer(c, m.blocks[b], in[b]).err : b \in DOMAIN in}

verify_mir(c, m) ==
    verify_terminators(c.throws, m)
    \cup (IF c.ctor
          THEN verify_constructor_initialization(c, m)
               \cup verify_struct_initialization(c, m)
               \cup UNION {verify_terminators(FALSE, lower_initializer(c, f)) :
                             f \in c.init}
          ELSE {})

-----------------------------------------------------------------------------
(***************************************************************************)
(* The compiler, one phase per step, then the execution of the body.       *)
(***************************************************************************)

NoBody == [BodyBuilder EXCEPT !.cur = 0]

Init ==
    /\ callable \in Callables
    /\ stage = "source"
    /\ body = NoBody
    /\ block = 1
    /\ next = 1
    /\ assigned = [f \in Field |-> 0]
    /\ local \in BOOLEAN

\* analyze_frontend: an invalid callable is rejected with diagnostics.
Analyze ==
    /\ stage = "source"
    /\ stage' = IF Diagnostics(callable) = {} THEN "accepted" ELSE "rejected"
    /\ UNCHANGED <<callable, body, block, next, assigned, local>>

Lower ==
    /\ stage = "accepted"
    /\ stage' = "lowered"
    /\ body' = lower_to_mir(callable)
    /\ UNCHANGED <<callable, block, next, assigned, local>>

\* A report of the verifier is an internal compiler error.
Verify ==
    /\ stage = "lowered"
    /\ stage' = IF verify_mir(callable, body) = {} THEN "run" ELSE "internal"
    /\ UNCHANGED <<callable, body, block, next, assigned, local>>

Instructions == body.blocks[block].ins
Current == body.blocks[block].term
AtInstruction == stage = "run" /\ next <= Len(Instructions)
AtTerminator == stage = "run" /\ next > Len(Instructions)
Running(op) == AtInstruction /\ Instructions[next][1] = op
Operand == Instructions[next][2]

Assign(fields) ==
    assigned' = [f \in Field |->
        IF f \in fields THEN Lesser(2, assigned[f] + 1) ELSE assigned[f]]

Advance == next' = next + 1 /\ UNCHANGED <<callable, stage, body, block>>

RunStore ==
    /\ Running("store")
    /\ Assign({Operand})
    /\ Advance
    /\ UNCHANGED local

\* The declaration initializers, unless they are lowered inline.
RunInitialize ==
    /\ Running("initialize")
    /\ Assign(IF callable.throws THEN {} ELSE callable.init)
    /\ Advance
    /\ UNCHANGED local

RunLocal ==
    /\ Running("clear") \/ Running("fill")
    /\ local' = Running("fill")
    /\ Advance
    /\ UNCHANGED assigned

\* local! traps on null.
RunAssert ==
    /\ Running("assert")
    /\ stage' = IF local THEN "run" ELSE "done"
    /\ next' = next + 1
    /\ UNCHANGED <<callable, body, block, assigned, local>>

RunOther ==
    /\ \E op \in {"load", "self", "call", "trycall", "use", "base", "value"} :
           Running(op)
    /\ Advance
    /\ UNCHANGED <<assigned, local>>

\* The outcome of a condition; "any" takes either way.
Taken(t) ==
    CASE t.c = "true" -> {t.to[1]}
      [] t.c = "present" -> {t.to[IF local THEN 1 ELSE 2]}
      [] t.c = "absent" -> {t.to[IF local THEN 2 ELSE 1]}
      [] OTHER -> mir_successors(t)

RunTransfer ==
    /\ AtTerminator
    /\ Current.to # <<>>
    /\ block' \in Taken(Current)
    /\ next' = 1
    /\ UNCHANGED <<callable, stage, body, assigned, local>>

RunExit ==
    /\ AtTerminator
    /\ Current.to = <<>>
    /\ stage' = "done"
    /\ UNCHANGED <<callable, body, block, next, assigned, local>>

Next ==
    \/ Analyze \/ Lower \/ Verify
    \/ RunStore \/ RunInitialize \/ RunLocal \/ RunAssert \/ RunOther
    \/ RunTransfer \/ RunExit

Spec == Init /\ [][Next]_vars

-----------------------------------------------------------------------------

\* The body has been lowered.
HasBody == stage \in {"lowered", "internal", "run", "done"}

\* Every statement the control-flow analysis visits can be executed and every
\* statement it diagnoses as unreachable cannot, along the graph lowering
\* builds when a literal true never fails; likewise the end of the body.  The
\* analysis of the tree (flow/control_flow.cc) and the stack of transfer
\* targets (mir/mir.cc) are two accounts of the same jumps.
FlowExact ==
    stage = "lowered" =>
        LET flow == FlowOf(callable)
            live == LiveBlocks(body, {1})
        IN  \A s \in body.starts :
                /\ s[1] \in flow.seen => s[2] \in live
                /\ s[1] \in flow.warned => s[2] \notin live
                /\ s[1] = <<0>> => (flow.fall <=> s[2] \in live)

\* The fields whose type has no default value (docs/nullability.md:130-134):
\* all but the primitive and the nullable ones.  In a struct every field has
\* to be given its value.
NeedsValue(c) ==
    {f \in Field : c.file = "struct" \/ c.kind[f] \notin {"primitive", "nullable"}}

\* The exception the code makes without a word of the docs: no constructor has
\* to assign a mutable field of a class whose type is an interface or an error.
Overlooked(c) ==
    {f \in Field : c.file = "class" /\ c.kind[f] \in {"interface", "error"}}

\* An accepted constructor reads no final field and no field without a default
\* value before its first assignment, hands out self only when every field
\* that needs a value has one, assigns a final field once, and returns with
\* all of them assigned, whatever the loops, switches and early returns on the
\* way, except for the mutable interface and error fields that
\* requires_initialization leaves out
\* (sema/field_initialization_analysis.cc against the run of the lowered body).
ConstructionSound ==
    LET needed == NeedsValue(callable) \ Overlooked(callable)
    IN  callable.ctor =>
            /\ Running("load") /\ Operand \in callable.final \cup needed =>
                   assigned[Operand] > 0
            /\ Running("store") /\ Operand \in callable.final =>
                   assigned[Operand] = 0
            /\ Running("self") \/ Running("call") \/ Running("trycall") =>
                   \A f \in needed : assigned[f] > 0
            /\ AtTerminator /\ Current.k = "return" =>
                   \A f \in callable.final \cup needed : assigned[f] > 0

\* A loop of the block assigns the local.
RECURSIVE AssignsLocal(_, _)
AssignsLocal(b, inLoop) ==
    \E i \in DOMAIN b :
        LET s == b[i]
            Assigns(a) == a[1] \in {"clear", "fill"}
        IN  CASE s.k = "do" -> inLoop /\ Assigns(s.a)
              [] s.k = "if" -> AssignsLocal(s.t, inLoop) \/ AssignsLocal(s.e, inLoop)
              [] s.k = "switch" -> \E j \in DOMAIN s.arms :
                                       AssignsLocal(s.arms[j], inLoop)
              [] s.k \in {"while", "each"} -> AssignsLocal(s.b, TRUE)
              [] s.k = "for" -> \/ AssignsLocal(s.b, TRUE)
                                \/ \E x \in DOMAIN s.u : Assigns(s.u[x])
              [] s.k = "block" -> AssignsLocal(s.b, inLoop)
              [] OTHER -> FALSE

\* A use the analysis proved non-null sees a value, in a body whose loops do
\* not assign the local (narrowed_type in sema/semantic_analyzer.cc).
NarrowingSound ==
    Running("use") => local \/ AssignsLocal(callable.body, FALSE)

\* docs/semantic_analysis.md:330-335: assignments invalidate a fact, and joins
\* retain it only when every path does: no use of a narrowed local sees null.
EveryNarrowedUsePresent == Running("use") => local

\* The verifier rejects an accepted callable only where it is stricter than
\* the front end: a base constructor or a field initializer that throws, a
\* statement that throws where nothing reaches it, and in a struct a loop with
\* a literal true condition or a final field initialized inline.
VerifierAgrees ==
    stage = "internal" =>
        \/ callable.base = "throws"
        \/ callable.risky # {}
        \/ ~callable.throws /\ FlowOf(callable).warned # {}
        \/ /\ callable.file = "struct"
           /\ \/ callable.throws /\ callable.final \cap callable.init # {}
              \/ \E b \in DOMAIN body.blocks : body.blocks[b].term.c = "true"

=============================================================================
