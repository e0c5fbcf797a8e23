--------------------------- MODULE StatementFlow ---------------------------
(***************************************************************************)
(* The statements of one callable, what analyze_control_flow says of them  *)
(* and the control-flow graph lower_to_mir gives them.                     *)
(*                                                                         *)
(* A statement is a record with a kind k:                                  *)
(*   do        an expression statement or a local initializer; a is the    *)
(*             operation <<op, on>> it evaluates                           *)
(*   return, break, continue                                               *)
(*   if        condition c, blocks t and e (no else: e is empty)           *)
(*   while     condition c, block b                                        *)
(*   for       initializers i (at most one), condition c ("none" when      *)
(*             absent), updates u, block b                                 *)
(*   each      block b; str tells a string from an array                   *)
(*   switch    enum tells an enum selector from an integer, arms the       *)
(*             blocks, full that the labels cover the enum, dflt that the  *)
(*             last arm is the default                                     *)
(*   block     block b                                                     *)
(* A block is a sequence of statements.  A condition is "any" (either      *)
(* outcome), "true" (the literal), "throw" (its type is the bottom type),  *)
(* "present" or "absent" (the nullable local compared with null).          *)
(*                                                                         *)
(* A place is the path of a statement in its body.                         *)
(***************************************************************************)
EXTENDS Integers, Sequences, FiniteSets, SequencesExt

Operation(op, on) == <<op, on>>

\* The type of a throw expression is the bottom type.
never_completes(a) == a[1] = "throw"

\* A call of a function with the error ABI, and the calls that have none.
IsThrowing(a) == a[1] \in {"throw", "trycall"}

exhaustive(s) == s.dflt \/ (s.enum /\ s.full)

Places(b, p) == {Append(p, i) : i \in DOMAIN b}

-----------------------------------------------------------------------------
(***************************************************************************)
(* flow/control_flow.cc.  A result says whether control can fall through,  *)
(* whether a break leaves the enclosing loop or switch, and which          *)
(* statements were analyzed and which diagnosed as unreachable.            *)
(***************************************************************************)

RECURSIVE analyze_block(_, _, _)
RECURSIVE analyze_statement(_, _)

Flow(fall, brk) == [fall |-> fall, brk |-> brk, seen |-> {}, warned |-> {}]

\* What two nested blocks report together.
Reports(f, r, s) ==
    [f EXCEPT !.seen = r.seen \cup s.seen, !.warned = r.warned \cup s.warned]

\* A break of an arm belongs to the switch.
SwitchFlow(s, arms) ==
    LET Join(f, a) == Reports(Flow(f.fall \/ a.fall \/ a.brk, FALSE), f, a)
    IN  FoldLeft(Join, Flow(~exhaustive(s), FALSE), arms)

\* Mutant: any loop may be left at its condition.
LoopFlowAlwaysExits(c, body) == Reports(Flow(TRUE, FALSE), body, body)

\* A loop whose condition cannot fail is left by a break only.
LoopFlow(c, body) ==
    Reports(Flow(c \notin {"true", "none"} \/ body.brk, FALSE), body, body)

IfFlow(t, e) == Reports(Flow(t.fall \/ e.fall, t.brk \/ e.brk), t, e)

\* The statement's condition or its initializer never completes.
NeverEntered(s) ==
    \/ s.k \in {"if", "while", "for"} /\ s.c = "throw"
    \/ s.k = "for" /\ \E x \in DOMAIN s.i : never_completes(s.i[x])

analyze_statement(s, p) ==
    LET Part(b, n) == analyze_block(b, Append(p, n), TRUE)
    IN  CASE s.k \in {"return", "continue"} -> Flow(FALSE, FALSE)
          [] s.k = "break" -> Flow(FALSE, TRUE)
          [] s.k = "do" -> Flow(~never_completes(s.a), FALSE)
          [] NeverEntered(s) -> Flow(FALSE, FALSE)
          [] s.k = "if" /\ ~NeverEntered(s) -> IfFlow(Part(s.t, 1), Part(s.e, 2))
          [] s.k \in {"while", "for"} /\ ~NeverEntered(s) ->
                LoopFlow(s.c, Part(s.b, 1))
          [] s.k = "each" -> LoopFlow("any", Part(s.b, 1))
          [] s.k = "switch" ->
                SwitchFlow(s, [j \in DOMAIN s.arms |-> Part(s.arms[j], j)])
          [] s.k = "block" -> Part(s.b, 1)

\* Statements after one that cannot fall through are skipped with a warning.
Skipped(f, place) == [f EXCEPT !.warned = @ \cup {place}]

Visited(f, place, r) ==
    [fall |-> r.fall, brk |-> f.brk \/ r.brk,
     seen |-> f.seen \cup r.seen \cup {place},
     warned |-> f.warned \cup r.warned]

analyze_block(b, p, reachable) ==
    LET Step(f, i) ==
            IF ~f.fall THEN Skipped(f, Append(p, i))
            ELSE Visited(f, Append(p, i), analyze_statement(b[i], Append(p, i)))
    IN  FoldLeft(Step, Flow(reachable, FALSE), [i \in DOMAIN b |-> i])

-----------------------------------------------------------------------------
(***************************************************************************)
(* mir/mir.cc.  A body under construction has its blocks, the block that   *)
(* receives instructions (0 for none), the stack of transfer targets and   *)
(* the block each statement starts in.  A block has instructions and a     *)
(* terminator; to lists the successors of a terminator.                    *)
(***************************************************************************)

RECURSIVE lower_block(_, _, _)
RECURSIVE lower_statement(_, _, _)

Terminator(k, c, to) == [k |-> k, c |-> c, to |-> to]
Jump(to) == Terminator("jump", "any", <<to>>)
Branch(c, t, e) == Terminator("branch", c, <<t, e>>)
Leave(k) == Terminator(k, "any", <<>>)

\* Blocks without a terminator end in MirUnreachable.
Blank == [ins |-> <<>>, term |-> Leave("unreachable")]

add_block(m) == [m EXCEPT !.blocks = Append(@, Blank)]

add_blocks(m, n) == [m EXCEPT !.blocks = @ \o [i \in 1 .. n |-> Blank]]

Size(m) == Len(m.blocks)

At(m, b) == [m EXCEPT !.cur = b]

ensure_current(m) ==
    IF m.cur # 0 THEN m ELSE At(add_block(m), Size(m) + 1)

Appended(m, a) == [m EXCEPT !.blocks[m.cur].ins = Append(@, a)]

emit(m, a) == Appended(ensure_current(m), a)

terminate(m, t) ==
    IF m.cur = 0 THEN m
    ELSE [m EXCEPT !.blocks[m.cur].term = t, !.cur = 0]

jump_to(m, b) == terminate(m, Jump(b))

\* A throw ends the block; its poison value opens another.
lower_throw(m) == ensure_current(terminate(ensure_current(m), Leave("error")))

\* A call with the error ABI: the error block leaves, the success block goes on.
AfterCall(m) ==
    LET error == Size(m) + 1
        x == terminate(add_blocks(m, 2), Branch("any", error, error + 1))
    IN  At(terminate(At(x, error), Leave("error")), error + 1)

emit_call_instruction(m, a) == AfterCall(emit(m, a))

lower_expression(m, a) ==
    CASE a[1] = "throw" -> lower_throw(m)
      [] a[1] = "trycall" -> emit_call_instruction(m, a)
      [] OTHER -> emit(m, a)

lower_condition(m, c) ==
    IF c = "throw" THEN lower_throw(m) ELSE ensure_current(m)

\* Enter a loop or a switch: continue goes to c (0: to an outer loop), break to b.
Push(m, c, b) == [m EXCEPT !.targets = Append(@, [cont |-> c, brk |-> b])]

Pop(m) == [m EXCEPT !.targets = SubSeq(@, 1, Len(@) - 1)]

\* break jumps to the innermost target, if there is one.
lower_break(m) ==
    IF m.targets = <<>> THEN m ELSE jump_to(m, m.targets[Len(m.targets)].brk)

\* continue skips the switches.
lower_continue(m) ==
    LET loops == SelectSeq(m.targets, LAMBDA t : t.cont # 0)
    IN  IF loops = <<>> THEN m ELSE jump_to(m, loops[Len(loops)].cont)

\* The ends of the two branches that are open meet in a block of their own.
JoinBranches(t, e) ==
    LET join == Size(e) + 1
        j == jump_to(At(jump_to(At(add_block(e), t.cur), join), e.cur), join)
    IN  IF t.cur = 0 /\ e.cur = 0 THEN e ELSE At(j, join)

ElseBranch(s, p, else, t) ==
    JoinBranches(t, lower_block(s.e, Append(p, 2), At(t, else)))

\* The two branches after the condition.
Branches(s, p, m) ==
    LET then == Size(m) + 1
        else == Size(m) + 2
        x == terminate(add_blocks(m, 2), Branch(s.c, then, else))
    IN  ElseBranch(s, p, else, lower_block(s.t, Append(p, 1), At(x, then)))

lower_if(s, p, m) == Branches(s, p, lower_condition(m, s.c))

\* Condition, body and exit blocks; step is where continue goes.
LoopBody(s, p, m, step, body, exit) ==
    Pop(jump_to(lower_block(s.b, Append(p, 1), Push(At(m, body), step, exit)),
                step))

lower_while(s, p, m) ==
    LET cond == Size(m) + 1
        x == lower_condition(At(jump_to(add_blocks(m, 3), cond), cond), s.c)
        y == terminate(x, Branch(s.c, cond + 1, cond + 2))
    IN  At(LoopBody(s, p, y, cond, cond + 1, cond + 2), cond + 2)

\* The loop of a for statement, after its initializer.
ForLoop(s, p, m) ==
    LET cond == Size(m) + 1
        x == At(jump_to(add_blocks(m, 4), cond), cond)
        y == IF s.c = "none" THEN jump_to(x, cond + 1)
             ELSE terminate(lower_condition(x, s.c),
                            Branch(s.c, cond + 1, cond + 3))
        b == LoopBody(s, p, y, cond + 2, cond + 1, cond + 3)
        u == jump_to(FoldLeft(lower_expression, At(b, cond + 2), s.u), cond)
    IN  At(u, cond + 3)

lower_for(s, p, m) == ForLoop(s, p, FoldLeft(lower_expression, m, s.i))

\* A string loop has no latch: its cursor moves in the condition.
lower_for_each(s, p, m) ==
    LET cond == Size(m) + 1
        x == At(jump_to(add_blocks(m, IF s.str THEN 3 ELSE 4), cond), cond)
        latch == IF s.str THEN cond ELSE cond + 2
        exit == IF s.str THEN cond + 2 ELSE cond + 3
        y == terminate(x, Branch("any", cond + 1, exit))
        Close(b) == IF s.str THEN b ELSE jump_to(At(b, latch), cond)
    IN  At(Close(LoopBody(s, p, y, latch, cond + 1, exit)), exit)

\* An enum switch traps on a tag that no case names, unless it has a default.
lower_switch(s, p, m) ==
    LET n == Len(s.arms)
        join == Size(m) + 1
        first == Size(m) + (IF s.enum THEN 3 ELSE 2)
        fallback == IF s.dflt THEN first + n - 1 ELSE first - 1
        targets == [j \in 1 .. n |-> first + j - 1] \o
                   (IF s.enum THEN <<fallback, join + 1>> ELSE <<fallback>>)
        x == add_block(m)
        y == IF s.enum
             THEN At(terminate(At(add_block(x), join + 1), Leave("trap")), m.cur)
             ELSE x
        z == terminate(add_blocks(y, n), Terminator("switch", "any", targets))
        Arm(a, j) ==
            jump_to(lower_block(s.arms[j], Append(p, j), At(a, first + j - 1)),
                    join)
    IN  At(Pop(FoldLeft(Arm, Push(z, 0, join), [j \in 1 .. n |-> j])), join)

lower_statement(s, p, m) ==
    CASE s.k = "do" -> lower_expression(m, s.a)
      [] s.k = "return" -> terminate(m, Leave("return"))
      [] s.k = "break" -> lower_break(m)
      [] s.k = "continue" -> lower_continue(m)
      [] s.k = "if" -> lower_if(s, p, m)
      [] s.k = "while" -> lower_while(s, p, m)
      [] s.k = "for" -> lower_for(s, p, m)
      [] s.k = "each" -> lower_for_each(s, p, m)
      [] s.k = "switch" -> lower_switch(s, p, m)
      [] s.k = "block" -> lower_block(s.b, Append(p, 1), m)

\* Statements that nothing reaches are lowered too, into blocks of their own.
lower_block(b, p, m) ==
    LET Starting(n, place) == [n EXCEPT !.starts = @ \cup {<<place, n.cur>>}]
        Step(n, i) ==
            lower_statement(b[i], Append(p, i),
                            Starting(ensure_current(n), Append(p, i)))
    IN  FoldLeft(Step, m, [i \in DOMAIN b |-> i])

\* The body of a BodyBuilder: block 1 is the entry.
BodyBuilder ==
    [blocks |-> <<Blank>>, cur |-> 1, targets |-> <<>>, starts |-> {}]

\* The end of the body returns, or is unreachable in a function with a value.
\* Place <<0>> stands for that end.
lower_callable(b, m, void) ==
    LET Ending(n) == [n EXCEPT !.starts = @ \cup {<<<<0>>, n.cur>>}]
    IN  terminate(Ending(lower_block(b, <<>>, m)),
                  Leave(IF void THEN "return" ELSE "unreachable"))

-----------------------------------------------------------------------------

mir_successors(t) == {t.to[i] : i \in DOMAIN t.to}

\* The successors control can take: a literal true never fails.
LiveSuccessors(t) ==
    IF t.k = "branch" /\ t.c = "true" THEN {t.to[1]} ELSE mir_successors(t)

\* update_reachability: the blocks reachable along every edge.
RECURSIVE update_reachability(_, _)
update_reachability(m, found) ==
    LET more == found \cup UNION {mir_successors(m.blocks[b].term) : b \in found}
    IN  IF more = found THEN found ELSE update_reachability(m, more)

\* The blocks an execution can enter.
RECURSIVE LiveBlocks(_, _)
LiveBlocks(m, found) ==
    LET more == found \cup UNION {LiveSuccessors(m.blocks[b].term) : b \in found}
    IN  IF more = found THEN found ELSE LiveBlocks(m, more)
=============================================================================
