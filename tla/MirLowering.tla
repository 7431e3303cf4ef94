----------------------------- MODULE MirLowering -----------------------------
(***************************************************************************)
(* The canonical lowering of a checked function to MIR basic blocks.       *)
(*                                                                         *)
(* The lowerer is a record: the blocks built so far (1 is the entry), the  *)
(* block it emits into, the next value and binding numbers, the scopes     *)
(* that rename source names, the names in use and the targets (break,      *)
(* continue) of the enclosing loops. Lowering an expression yields the     *)
(* lowerer after it and the number of its value; 0 stands for no value.    *)
(* Syntax trees are those of KsInterpreter.                                *)
(***************************************************************************)
EXTENDS Integers, Sequences, FiniteSets, TLC

Open == <<"open">>
NewBlock == [ins |-> <<>>, term |-> Open]

(* A binding is <<source name, number>>, -1 for the first of its name.     *)
Plain(x) == <<x, -1>>

Lowerer(params) ==
    [blocks |-> <<NewBlock>>, cur |-> 1, value |-> 1, binding |-> 0,
     scopes |-> << [x \in {p[1] : p \in {params[i] : i \in DOMAIN params}} |-> Plain(x)] >>,
     used |-> {Plain(params[i][1]) : i \in DOMAIN params},
     loops |-> <<>>, ok |-> TRUE]

R(l, v) == [l |-> l, v |-> v]
At(l, b) == [l EXCEPT !.cur = b]
Terminated(l) == l.blocks[l.cur].term # Open

(* _emit and _terminate refuse a block that has its terminator.            *)
Emit(l, i) ==
    [l EXCEPT !.blocks[l.cur].ins = Append(@, i), !.ok = @ /\ ~Terminated(l)]
Terminate(l, t) ==
    [l EXCEPT !.blocks[l.cur].term = t, !.ok = @ /\ ~Terminated(l)]

(* A refused instruction or terminator raises: nothing more is lowered. Op *)
(* goes on from the result r, to a result or to a lowerer.                 *)
Then(r, Op(_)) == IF r.l.ok THEN Op(r) ELSE r
ThenEnd(r, Op(_)) == IF r.l.ok THEN Op(r) ELSE r.l

(* The instruction <<op, target, operands ...>>, defining the next value.  *)
Val(l, op, operands) ==
    R([Emit(l, <<op, l.value>> \o operands) EXCEPT !.value = @ + 1], l.value)

(* n new blocks; they are numbered from Len(l.blocks) + 1 on.              *)
NewBlocks(l, n) == [l EXCEPT !.blocks = @ \o [i \in 1 .. n |-> NewBlock]]

PushScope(l) == [l EXCEPT !.scopes = Append(@, <<>>)]
PopScope(l) == [l EXCEPT !.scopes = SubSeq(@, 1, Len(@) - 1)]
PushLoop(l, break, continue) == [l EXCEPT !.loops = Append(@, <<break, continue>>)]
PopLoop(l) == [l EXCEPT !.loops = SubSeq(@, 1, Len(@) - 1)]

(* The name that a let or a loop variable gets: its own the first time,    *)
(* a numbered one when the name is taken anywhere in the function.         *)
BindName(l, x, mutable, v) ==
    LET fresh == Plain(x) \notin l.used
        name == IF fresh THEN Plain(x) ELSE <<x, l.binding>>
    IN Emit([l EXCEPT !.binding = IF fresh THEN @ ELSE @ + 1,
                      !.used = @ \cup {name},
                      !.scopes[Len(l.scopes)] = (x :> name) @@ @],
            <<"bind", name, v, mutable>>)

(* A name no source program can contain, for a result that joins paths.    *)
Internal(l, purpose) == <<purpose, l.binding>>
WithInternal(l, purpose) ==
    [l EXCEPT !.binding = @ + 1, !.used = @ \cup {Internal(l, purpose)}]

Resolve(l, x) ==
    LET has == {i \in DOMAIN l.scopes : x \in DOMAIN l.scopes[i]}
    IN IF has = {} THEN Plain(x)
       ELSE l.scopes[CHOOSE i \in has : \A j \in has : j <= i][x]

Bind(l, name, v) == Emit(l, <<"bind", name, v, FALSE>>)
Jump(l, b) == Terminate(l, <<"jump", b>>)
LoadResult(l, name) == Val(l, "load", <<name>>)

(* Ends the current block by a branch on a test of v and goes on in b1.    *)
Branch(l, v, b1, b2) == At(Terminate(l, <<"branch", v, b1, b2>>), b1)
BranchResult(r, b1, b2) == Branch(r.l, r.v, b1, b2)
BranchOn(l, test, v, b1, b2) == BranchResult(Val(l, test, <<v>>), b1, b2)

(* What becomes of the result r of an expression: stored or bound under a  *)
(* name before the jump to the join, returned, or kept across the jump.    *)
StoreAndJump(r, name, join) == Jump(Emit(r.l, <<"store", name, r.v>>), join)
BindAndJump(r, name, join) == Jump(Bind(r.l, name, r.v), join)
ReturnResult(r) == Terminate(r.l, <<"return", r.v>>)
JumpWith(r, join) == R(At(Jump(r.l, join), join), r.v)
JoinValue(r, name, join) ==
    IF r.v # 0 /\ ~Terminated(r.l) THEN BindAndJump(r, name, join) ELSE r.l
BindResult(r, x, mutable) == BindName(r.l, x, mutable, r.v)
BindInternal(r, purpose) ==
    Emit(WithInternal(r.l, purpose), <<"bind", Internal(r.l, purpose), r.v, TRUE>>)

(* An Error value goes to the join as the result; anything else continues. *)
StoreErrorOrContinue(l, v, name, join) ==
    LET b == Len(l.blocks)
        err == BranchOn(NewBlocks(l, 2), "isError", v, b + 1, b + 2)
    IN IF err.ok THEN At(Jump(Emit(err, <<"store", name, v>>), join), b + 2) ELSE err

-----------------------------------------------------------------------------
RECURSIVE LowerNode(_, _, _)
LowerExpression(e, l) == LowerNode("expression", e, l)
LowerValueBlock(b, l) == LowerNode("value", b, l)
LowerStatements(b, l) == LowerNode("statements", b, l)

(* Operands from left to right; the values are a sequence.                 *)
RECURSIVE LowerMore(_, _)
LowerMore(es, r) ==
    IF ~r.l.ok \/ es = <<>> THEN r
    ELSE LET a == LowerExpression(Head(es), r.l)
         IN IF a.l.ok THEN LowerMore(Tail(es), R(a.l, Append(r.v, a.v))) ELSE a
LowerAll(es, l) == LowerMore(es, R(l, <<>>))

(* && and ||: the left value a is the result unless the right is needed;   *)
(* an Error on the left is the result.                                     *)
ShortCircuit(e, a) ==
    LET name == Internal(a.l, "shortcircuit")
        b == Len(a.l.blocks)                \* decision, rhs, skip, join
        test == BranchOn(NewBlocks(BindInternal(a, "shortcircuit"), 4), "isError", a.v, b + 4, b + 1)
        dec == Branch(At(test, b + 1), a.v, IF e[2] = "&&" THEN b + 2 ELSE b + 3,
                                            IF e[2] = "&&" THEN b + 3 ELSE b + 2)
        Joined(r) == Jump(At(StoreAndJump(r, name, b + 4), b + 3), b + 4)
    IN Then(IF test.ok /\ dec.ok THEN LowerExpression(e[4], At(dec, b + 2)) ELSE R(dec, 0),
            LAMBDA r : LoadResult(At(Joined(r), b + 4), name))
LowerShortCircuit(e, l) == Then(LowerExpression(e[3], l), LAMBDA a : ShortCircuit(e, a))

(* A Map or Struct literal: staged in a builder, left at the first Error.  *)
RECURSIVE LowerPack(_, _, _, _, _)
StageItem(a, builder, name, join) ==
    IF ~a.l.ok THEN a.l ELSE Emit(StoreErrorOrContinue(a.l, a.v, name, join), <<"packSet", builder, a.v>>)
LowerPack(es, l, builder, name, join) ==
    IF ~l.ok THEN R(l, 0)
    ELSE IF es = <<>> THEN
        LoadResult(At(StoreAndJump(Val(l, "packFinish", <<builder>>), name, join), join), name)
    ELSE LowerPack(Tail(es), StageItem(LowerExpression(Head(es), l), builder, name, join),
                   builder, name, join)

PackInto(es, new) ==
    LowerPack(es, NewBlocks(BindInternal(new, "pack"), 1), new.v,
              Internal(new.l, "pack"), Len(new.l.blocks) + 1)
StartPack(es, l) == PackInto(es, Val(l, "packNew", <<>>))

(* e or ...: the test and the success path are common to the three forms.  *)
OrReturn(e, a) ==
    LET b == Len(a.l.blocks)                \* success, failure, join
        test == BranchOn(NewBlocks(a.l, 3), "isSuccess", a.v, b + 1, b + 2)
        failure == At(test, b + 2)
    IN Then(IF ~failure.ok \/ e[1] = "orReturn" THEN R(failure, a.v)
            ELSE LowerExpression(e[3], failure),
            LAMBDA r : JumpWith(Val(At(ReturnResult(r), b + 1), "payload", <<a.v>>), b + 3))
LowerOrReturn(e, l) == Then(LowerExpression(e[2], l), LAMBDA a : OrReturn(e, a))

OrWith(e, a, block) ==
    LET b == Len(a.l.blocks)
        name == Internal(a.l, "or")
        test == BranchOn(NewBlocks(WithInternal(a.l, "or"), 3), "isSuccess", a.v, b + 1, b + 2)
        good == At(BindAndJump(Val(test, "payload", <<a.v>>), name, b + 3), b + 2)
    IN Then(IF ~(test.ok /\ good.ok) THEN R(good, 0)
            ELSE IF block THEN LowerValueBlock(e[3], good) ELSE LowerExpression(e[3], good),
            LAMBDA r : LoadResult(At(JoinValue(r, name, b + 3), b + 3), name))

LowerOrElse(e, l) == Then(LowerExpression(e[2], l), LAMBDA a : OrWith(e, a, FALSE))
LowerOrBlock(e, l) == Then(LowerExpression(e[2], l), LAMBDA a : OrWith(e, a, TRUE))

(* One arm after another on the same scrutinee; the last miss is           *)
(* unreachable because the checker proved the match exhaustive.            *)
BindPayload(l, arm, v) ==
    IF arm[2] = "" THEN l
    ELSE BindResult(Val(l, "variantPayload", <<v, arm[1]>>), arm[2], FALSE)
LowerArm(arm, l) ==
    IF arm[3] = "block" THEN LowerValueBlock(arm[4], l) ELSE LowerExpression(arm[4], l)
EndArm(r, name, join) ==
    PopScope(IF Terminated(r.l) THEN r.l ELSE BindAndJump(r, name, join))

RECURSIVE LowerArms(_, _, _, _, _)
LowerArms(arms, l, v, name, join) ==
    IF ~l.ok THEN R(l, 0)
    ELSE IF arms = <<>> THEN LoadResult(At(Terminate(l, <<"unreachable">>), join), name)
    ELSE LET arm == Head(arms)
             b == Len(l.blocks)             \* arm, miss
             test == BranchResult(Val(NewBlocks(l, 2), "variantIs", <<v, arm[1]>>), b + 1, b + 2)
             start == BindPayload(PushScope(test), arm, v)
             out == ThenEnd(IF test.ok /\ start.ok THEN LowerArm(arm, start) ELSE R(start, 0),
                            LAMBDA r : EndArm(r, name, join))
         IN LowerArms(Tail(arms), At(out, b + 2), v, name, join)

MatchOn(e, a) ==
    LowerArms(e[3], NewBlocks(WithInternal(a.l, "match"), 1), a.v,
              Internal(a.l, "match"), Len(a.l.blocks) + 1)
LowerMatch(e, l) == Then(LowerExpression(e[2], l), LAMBDA a : MatchOn(e, a))

(* The strict binary operators lower both operands before the instruction. *)
UnaryOf(a) == Val(a.l, "unary", <<a.v>>)
BinaryOf(op, a) == Val(a.l, "binary", <<op, a.v[1], a.v[2]>>)
ListOf(a) == Val(a.l, "list", <<a.v>>)
ConstructOf(a) == Val(a.l, "construct", <<a.v>>)
StoreIn(x, a) == R(Emit(a.l, <<"store", Resolve(a.l, x), a.v>>), a.v)
CallOf(f, a) == Val(a.l, "call", <<f, a.v>>)
ApplyTo(es, f) == Then(LowerAll(es, f.l), LAMBDA a : CallOf(f.v, a))
LoadOf(x, l) == Val(l, "load", <<Resolve(l, x)>>)

LowerOneExpression(e, l) ==
    CASE e[1] = "lit" -> Val(l, "const", <<e[2]>>)
      [] e[1] = "var" -> LoadOf(e[2], l)
      [] e[1] = "not" -> Then(LowerExpression(e[2], l), UnaryOf)
      [] e[1] = "bin" -> Then(LowerAll(<<e[3], e[4]>>, l), LAMBDA a : BinaryOf(e[2], a))
      [] e[1] = "list" -> Then(LowerAll(e[2], l), ListOf)
      [] e[1] = "assign" -> Then(LowerExpression(e[3], l), LAMBDA a : StoreIn(e[2], a))
      [] e[1] = "call" /\ e[2] = "Some" -> Then(LowerExpression(e[3][1], l), ConstructOf)
      [] e[1] = "call" /\ e[2] # "Some" -> Then(LoadOf(e[2], l), LAMBDA f : ApplyTo(e[3], f))
      [] e[1] = "logic" -> LowerShortCircuit(e, l)
      [] e[1] = "pack" -> StartPack(e[2], l)
      [] e[1] = "match" -> LowerMatch(e, l)
      [] e[1] \in {"orReturn", "orReturnWith"} -> LowerOrReturn(e, l)
      [] e[1] = "orElse" -> LowerOrElse(e, l)
      [] OTHER -> LowerOrBlock(e, l)

-----------------------------------------------------------------------------
LowerBlock(b, l) ==
    LET inside == LowerStatements(b, PushScope(l))
    IN IF inside.ok THEN PopScope(inside) ELSE inside

JumpUnlessTerminated(l, b) == IF ~l.ok \/ Terminated(l) THEN l ELSE Jump(l, b)

(* Mutant: no test for an Error condition. *)
IfUnguarded(st, c) ==
    LET b == Len(c.l.blocks)
        dec == Branch(NewBlocks(c.l, 3), c.v, b + 1, b + 2)
        then == JumpUnlessTerminated(LowerBlock(st[3], dec), b + 3)
        else == JumpUnlessTerminated(LowerBlock(st[4], At(then, b + 2)), b + 3)
    IN At(else, b + 3)

(* An Error condition c skips both branches and is dropped.                *)
IfOn(st, c) ==
    LET b == Len(c.l.blocks)                \* error, decision, then, else, join
        err == BranchOn(NewBlocks(c.l, 5), "isError", c.v, b + 1, b + 2)
        dec == Branch(At(Jump(err, b + 5), b + 2), c.v, b + 3, b + 4)
        then == JumpUnlessTerminated(LowerBlock(st[3], dec), b + 5)
        else == JumpUnlessTerminated(LowerBlock(st[4], At(then, b + 4)), b + 5)
    IN IF err.ok /\ dec.ok /\ then.ok /\ else.ok THEN At(else, b + 5) ELSE else
LowerIf(st, l) == ThenEnd(LowerExpression(st[2], l), LAMBDA c : IfOn(st, c))

(* The same in value position: the Error or the taken branch's value is    *)
(* the result.                                                             *)
ValueIfOn(st, c) ==
    LET b == Len(c.l.blocks)
        err == BranchOn(NewBlocks(WithInternal(c.l, "if"), 5), "isError", c.v, b + 1, b + 2)
        name == Internal(c.l, "if")
        bound == BindAndJump(R(err, c.v), name, b + 5)
        dec == Branch(At(bound, b + 2), c.v, b + 3, b + 4)
        Joined(r) == JoinValue(r, name, b + 5)
        then == ThenEnd(LowerValueBlock(st[3], dec), Joined)
        else == ThenEnd(LowerValueBlock(st[4], At(then, b + 4)), Joined)
    IN IF err.ok /\ dec.ok /\ then.ok /\ else.ok THEN LoadResult(At(else, b + 5), name) ELSE R(else, 0)
LowerValueIf(st, l) == Then(LowerExpression(st[2], l), LAMBDA c : ValueIfOn(st, c))

(* The end of an iteration: the body's value becomes the loop's result if  *)
(* that is kept, and an Error among the body's values leaves the loop.     *)
Keep(l, keep, name, v) == IF keep THEN Emit(l, <<"store", name, v>>) ELSE l
(* Mutant: the loop goes on after an Error. *)
EndIterationIgnoringError(r, keep, name, again, exit) ==
    IF r.v = 0 \/ Terminated(r.l) THEN r.l ELSE Jump(Keep(r.l, keep, name, r.v), again)
LeaveOnError(l, v, again, exit) ==
    LET b == Len(l.blocks)                  \* body error, continue
        err == BranchOn(NewBlocks(l, 2), "isError", v, b + 1, b + 2)
    IN IF err.ok THEN Jump(At(Jump(err, exit), b + 2), again) ELSE err
EndIteration(r, keep, name, again, exit) ==
    IF r.v = 0 \/ Terminated(r.l) THEN r.l
    ELSE LeaveOnError(Keep(r.l, keep, name, r.v), r.v, again, exit)

(* The result binding of a loop in value position starts as Unit.          *)
StartLoop(l, keep) == IF keep THEN BindInternal(Val(l, "unit", <<>>), "loop") ELSE l
EndLoop(l, keep, name, exit) ==
    IF keep THEN LoadResult(At(l, exit), name) ELSE R(At(l, exit), 0)
OutOfLoop(r) == R(PopLoop(r.l), r.v)
OutOfScope(r) == R(PopScope(r.l), r.v)

(* c is the condition; blocks b + 1 ..: condition, error, decision, body,  *)
(* exit.                                                                   *)
WhileOn(st, c, keep, name, b) ==
    LET err == BranchOn(c.l, "isError", c.v, b + 2, b + 3)
        dec == Branch(At(Jump(Keep(err, keep, name, c.v), b + 5), b + 3), c.v, b + 4, b + 5)
        start == PushLoop(dec, b + 5, b + 1)
    IN Then(IF err.ok /\ start.ok THEN LowerValueBlock(st[3], start) ELSE R(start, 0), LAMBDA r :
            EndLoop(EndIteration(OutOfLoop(r), keep, name, b + 1, b + 5), keep, name, b + 5))
WhileFrom(st, l, keep, name) ==
    LET b == Len(l.blocks)
    IN Then(LowerExpression(st[2], At(Jump(NewBlocks(l, 5), b + 1), b + 1)),
            LAMBDA c : WhileOn(st, c, keep, name, b))
LowerWhile(st, l, keep) == WhileFrom(st, StartLoop(l, keep), keep, Internal(l, "loop"))

(* it is the iterator; blocks b + 1 ..: error, init, condition, body, exit.*)
ForEach(st, it, keep, name, b) ==
    LET body == BranchOn(At(Jump(it.l, b + 3), b + 3), "iterHasNext", it.v, b + 4, b + 5)
        item == Val(PushLoop(PushScope(body), b + 5, b + 3), "iterNext", <<it.v>>)
        start == BindResult(item, st[2], FALSE)
    IN Then(IF body.ok /\ start.ok THEN LowerValueBlock(st[4], start) ELSE R(start, 0), LAMBDA r :
            EndLoop(EndIteration(OutOfScope(OutOfLoop(r)), keep, name, b + 3, b + 5),
                    keep, name, b + 5))
ForOn(st, c, keep, name) ==
    LET b == Len(c.l.blocks)
        err == BranchOn(NewBlocks(c.l, 5), "isError", c.v, b + 1, b + 2)
        init == At(Jump(Keep(err, keep, name, c.v), b + 5), b + 2)
    IN Then(IF err.ok THEN Val(init, "iterInit", <<c.v>>) ELSE R(err, 0), LAMBDA it : ForEach(st, it, keep, name, b))
LowerFor(st, l, keep) ==
    Then(LowerExpression(st[3], StartLoop(l, keep)),
         LAMBDA c : ForOn(st, c, keep, Internal(l, "loop")))

(* In statement position the loop's result is not kept.                    *)
LowerWhileStatement(st, l) == LowerWhile(st, l, FALSE).l
LowerForStatement(st, l) == LowerFor(st, l, FALSE).l

LowerStatement(st, l) ==
    CASE st[1] = "let" -> ThenEnd(LowerExpression(st[4], l), LAMBDA r : BindResult(r, st[2], st[3]))
      [] st[1] = "expr" -> LowerExpression(st[2], l).l
      [] st[1] = "return" -> ThenEnd(LowerExpression(st[2], l), ReturnResult)
      [] st[1] = "if" -> LowerIf(st, l)
      [] st[1] = "while" -> LowerWhileStatement(st, l)
      [] st[1] = "for" -> LowerForStatement(st, l)
      [] st[1] = "break" -> Jump(l, l.loops[Len(l.loops)][1])
      [] OTHER -> Jump(l, l.loops[Len(l.loops)][2])

(* A block in statement position: nothing is lowered after a terminator.   *)
RECURSIVE LowerEach(_, _)
LowerEach(b, l) ==
    IF ~l.ok \/ b = <<>> \/ Terminated(l) THEN l
    ELSE LowerEach(Tail(b), LowerStatement(Head(b), l))

(* A block in value position: its value is that of its last statement.     *)
LowerTail(st, l) ==
    CASE st[1] = "expr" -> LowerExpression(st[2], l)
      [] st[1] = "let" -> Then(R(LowerStatement(st, l), 0), LAMBDA r : Val(r.l, "unit", <<>>))
      [] st[1] = "if" -> LowerValueIf(st, l)
      [] st[1] = "while" -> LowerWhile(st, l, TRUE)
      [] st[1] = "for" -> LowerFor(st, l, TRUE)
      [] OTHER -> R(LowerStatement(st, l), 0)
TailAfter(b, l) == IF ~l.ok \/ Terminated(l) THEN R(l, 0) ELSE LowerTail(b[Len(b)], l)

LowerAsValue(b, l) ==
    Then(IF b = <<>> THEN Val(PushScope(l), "unit", <<>>)
         ELSE TailAfter(b, LowerEach(SubSeq(b, 1, Len(b) - 1), PushScope(l))),
         OutOfScope)

LowerNode(what, x, l) ==
    CASE what = "expression" -> LowerOneExpression(x, l)
      [] what = "value" -> LowerAsValue(x, l)
      [] OTHER -> LowerEach(x, l)

(* _FunctionLowerer.lower: a function that runs to its end returns Unit,   *)
(* and a block that nothing terminated is unreachable.                     *)
Sealed(b) == IF b.term = Open THEN [b EXCEPT !.term = <<"unreachable">>] ELSE b
Seal(l) == [ok |-> l.ok, blocks |-> [i \in DOMAIN l.blocks |-> Sealed(l.blocks[i])]]
ReturnUnit(l) == IF ~l.ok \/ Terminated(l) THEN l ELSE Terminate(l, <<"return", 0>>)
Lower(f) == Seal(ReturnUnit(LowerStatements(f.body, Lowerer(f.params))))

-----------------------------------------------------------------------------
(* validate_blocks: every value is defined once, every used value is       *)
(* defined somewhere, every target exists.                                 *)
Instructions(blocks) == UNION {{blocks[b].ins[i] : i \in DOMAIN blocks[b].ins} : b \in DOMAIN blocks}
Positions(blocks) == UNION {{<<b, i>> : i \in DOMAIN blocks[b].ins} : b \in DOMAIN blocks}
HasTarget(i) == i[1] \notin {"bind", "store", "packSet"}
Operands(i) ==
    CASE i[1] \in {"const", "unit", "load", "packNew"} -> {}
      [] i[1] = "binary" -> {i[4], i[5]}
      [] i[1] = "list" -> {i[3][k] : k \in DOMAIN i[3]}
      [] i[1] = "call" -> {i[3]} \cup {i[4][k] : k \in DOMAIN i[4]}
      [] i[1] = "packSet" -> {i[2], i[3]}
      [] OTHER -> {i[3]}
Targets(t) ==
    CASE t[1] = "jump" -> {t[2]} [] t[1] = "branch" -> {t[3], t[4]} [] OTHER -> {}
Tested(t) ==
    IF t[1] = "branch" \/ (t[1] = "return" /\ t[2] # 0) THEN {t[2]} ELSE {}

ValidateBlocks(blocks) ==
    LET all == Instructions(blocks)
        defined == {i[2] : i \in {j \in all : HasTarget(j)}}
    IN /\ \A p, q \in {r \in Positions(blocks) : HasTarget(blocks[r[1]].ins[r[2]])} :
            blocks[p[1]].ins[p[2]][2] = blocks[q[1]].ins[q[2]][2] => p = q
       /\ UNION {Operands(i) : i \in all} \subseteq defined
       /\ \A b \in DOMAIN blocks : /\ Targets(blocks[b].term) \subseteq DOMAIN blocks
                                   /\ Tested(blocks[b].term) \subseteq defined
=============================================================================
