---------------------------- MODULE KsInterpreter ----------------------------
(***************************************************************************)
(* The tree-walking interpreter: what a checked program means.             *)
(*                                                                         *)
(* A node of the syntax tree is a tuple whose head names its class:        *)
(*   <<"lit", v>>  <<"var", x>>  <<"assign", x, e>>  <<"not", e>>          *)
(*   <<"bin", op, a, b>>  (strict + and <)   <<"logic", op, a, b>>         *)
(*   <<"list", es>>   <<"pack", es>>  (a Map or Struct literal)            *)
(*   <<"call", f, es>>   <<"match", e, arms>>, an arm being                *)
(*        <<variant, binding, "expr" or "block", body>>                    *)
(*   <<"orReturn", e>> <<"orReturnWith", e, r>> <<"orElse", e, d>>         *)
(*   <<"orBlock", e, b>>                                                   *)
(*   <<"let", x, mutable, e>>  <<"expr", e>>  <<"return", e>>              *)
(*   <<"if", c, b1, b2>>  <<"while", c, b>>  <<"for", x, e, b>>            *)
(*   <<"break">>  <<"continue">>;  a block is a sequence of statements.    *)
(* A value is a tuple too: an Int, a Bool, an Error (a value, not an       *)
(* exception: overflow makes one), Unit, a List, a packed literal, a       *)
(* function, or a variant of Option.                                       *)
(***************************************************************************)
EXTENDS Integers, Sequences, TLC

CONSTANTS
    Functions,      \* the program: name -> [params, ret, body]
    IntMin, IntMax, \* the range of Int (64 bits in the code)
    MaxSteps,       \* RuntimeBudget.max_steps
    MaxCallDepth    \* RuntimeBudget.max_call_depth

Unit == <<"unit">>
None == <<"none">>
Int_(n) == <<"int", n>>
Bool(b) == <<"bool", b>>
Err(kind) == <<"err", kind>>
IsError(v) == v[1] = "err"
Truthy(v) == v = Bool(TRUE)

(* _unwrap_fallible: an Error and None are failures, Some(v) yields v, and *)
(* anything else is its own payload.                                       *)
Succeeds(v) == v[1] \notin {"err", "none"}
Payload(v) == IF v[1] = "some" THEN v[2] ELSE v

(* The strict operators on two operands that are no Errors.                *)
Arithmetic(op, a, b) ==
    LET n == a[2] + b[2]
    IN CASE op = "<" -> Bool(a[2] < b[2])
         [] OTHER -> IF n \in IntMin .. IntMax THEN Int_(n) ELSE Err("overflow")

(* A type is the set of value classes it admits. A function without a      *)
(* return type has {} and its result is not checked.                       *)
MatchesType(v, type) == type # {} => v[1] \in type

-----------------------------------------------------------------------------
(* The interpreter's state: the scopes of the running call, what was       *)
(* printed, the steps charged and the calls active. A result adds how the  *)
(* evaluation ended: normally, or by a signal that unwinds.                *)
Start == [scopes |-> << <<>> >>, out |-> <<>>, steps |-> 0, depth |-> 0]

Done(s, v) == [s |-> s, sig |-> "ok", v |-> v]
Signal(s, sig, v) == [s |-> s, sig |-> sig, v |-> v]
Raise(s) == Signal(s, "raise", Unit)
Exhausted(s) == Signal(s, "budget", Unit)

Cell(v, mutable) == [v |-> v, mutable |-> mutable]
Push(s) == [s EXCEPT !.scopes = Append(@, <<>>)]
Pop(s) == [s EXCEPT !.scopes = SubSeq(@, 1, Len(@) - 1)]
PopResult(r) == [r EXCEPT !.s = Pop(@)]

Define(s, x, v, mutable) ==
    [s EXCEPT !.scopes[Len(s.scopes)] = (x :> Cell(v, mutable)) @@ @]

(* The innermost scope that defines x; 0 when none does.                   *)
ScopeOf(s, x) ==
    LET has == {i \in DOMAIN s.scopes : x \in DOMAIN s.scopes[i]}
    IN IF has = {} THEN 0 ELSE CHOOSE i \in has : \A j \in has : j <= i

(* Environment.assign: the cell must exist and be mutable.                 *)
Assign(s, x, v) ==
    LET i == ScopeOf(s, x)
    IN IF i = 0 THEN Raise(s)
       ELSE IF ~s.scopes[i][x].mutable THEN Raise(s)
       ELSE Done([s EXCEPT !.scopes[i][x] = Cell(v, TRUE)], v)

Builtins == {"println", "Error", "Some"}

(* An identifier is a function first and a variable second.                *)
Lookup(s, x) ==
    IF x \in DOMAIN Functions \cup Builtins THEN Done(s, <<"fn", x>>)
    ELSE LET i == ScopeOf(s, x)
         IN IF i = 0 THEN Raise(s) ELSE Done(s, s.scopes[i][x].v)

Bindings(params, args) ==
    [x \in {params[i][1] : i \in DOMAIN params} |->
        Cell(args[CHOOSE i \in DOMAIN params : params[i][1] = x], FALSE)]

Accepts(f, args) ==
    /\ Len(args) = Len(f.params)
    /\ \A i \in DOMAIN args : MatchesType(args[i], f.params[i][2])

(* A return signal ends the call; a body that runs to its end has the      *)
(* value of its last statement.                                            *)
CallResult(f, caller, r) ==
    LET s == [r.s EXCEPT !.scopes = caller.scopes, !.depth = @ - 1]
    IN IF r.sig \in {"raise", "budget"} THEN Signal(s, r.sig, r.v)
       ELSE IF MatchesType(r.v, f.ret) THEN Done(s, r.v) ELSE Raise(s)

-----------------------------------------------------------------------------
RECURSIVE Run(_, _, _)
Evaluate(e, s) == Run("expression", e, s)
ExecuteBlock(b, s) == Run("block", b, s)

(* The values of es from left to right. When stop holds the first Error    *)
(* among them ends the evaluation.                                         *)
RECURSIVE EvaluateAll(_, _, _)
EvaluateAll(es, s, stop) ==
    IF es = <<>> THEN Done(s, <<>>)
    ELSE LET r == Evaluate(Head(es), s)
         IN IF r.sig # "ok" THEN r
            ELSE IF stop /\ IsError(r.v) THEN Signal(r.s, "error item", r.v)
            ELSE LET rest == EvaluateAll(Tail(es), r.s, stop)
                 IN IF rest.sig # "ok" THEN rest
                    ELSE Done(rest.s, <<r.v>> \o rest.v)

ScopedBlock(b, s) == PopResult(ExecuteBlock(b, Push(s)))

CallFunction(name, args, s) ==
    LET f == Functions[name]
        callee == [s EXCEPT !.scopes = << Bindings(f.params, args) >>, !.depth = @ + 1]
    IN IF s.depth >= MaxCallDepth THEN Exhausted(s)
       ELSE IF ~Accepts(f, args) THEN Raise(s)
       ELSE CallResult(f, s, ExecuteBlock(f.body, callee))

Invoke(f, args, s) ==
    CASE f = "println" -> Done([s EXCEPT !.out = Append(@, args[1])], Unit)
      [] f = "Error" -> Done(s, Err("user"))
      [] f = "Some" -> Done(s, <<"some", args[1]>>)
      [] OTHER -> CallFunction(f, args, s)

MatchArm(v, arms, s) ==
    IF v[1] \notin {"some", "none"} THEN Raise(s)
    ELSE LET arm == arms[CHOOSE i \in DOMAIN arms : arms[i][1] = v[1]]
             in == IF v[1] = "some" THEN Define(Push(s), arm[2], v[2], FALSE)
                                    ELSE Push(s)
         IN PopResult(IF arm[3] = "block" THEN ScopedBlock(arm[4], in)
                                          ELSE Evaluate(arm[4], in))

(* What follows the evaluation of the first operand, whose result is r.    *)
EvaluateRest(e, r) ==
    CASE e[1] = "assign" -> Assign(r.s, e[2], r.v)
      [] e[1] = "not" -> IF IsError(r.v) THEN r ELSE Done(r.s, Bool(~Truthy(r.v)))
      [] e[1] = "bin" ->
            IF IsError(r.v) THEN r
            ELSE LET q == Evaluate(e[4], r.s)
                 IN IF q.sig # "ok" \/ IsError(q.v) THEN q
                    ELSE Done(q.s, Arithmetic(e[2], r.v, q.v))
      [] e[1] = "logic" ->
            IF IsError(r.v) \/ (Truthy(r.v) <=> e[2] = "||") THEN r
            ELSE Evaluate(e[4], r.s)
      [] e[1] = "match" -> MatchArm(r.v, e[3], r.s)
      [] Succeeds(r.v) -> Done(r.s, Payload(r.v))
      [] e[1] = "orReturn" -> Signal(r.s, "return", r.v)
      [] e[1] = "orReturnWith" ->
            LET q == Evaluate(e[3], r.s)
            IN IF q.sig = "ok" THEN Signal(q.s, "return", q.v) ELSE q
      [] e[1] = "orElse" -> Evaluate(e[3], r.s)
      [] OTHER -> ScopedBlock(e[3], r.s)

FirstOperand(e) == IF e[1] \in {"bin", "logic", "assign"} THEN e[3] ELSE e[2]

(* BudgetedInterpreter: every expression and every statement is a step.    *)
Charge(s) == [s EXCEPT !.steps = @ + 1]

EvaluateNode(e, s0) ==
    LET s == Charge(s0) IN
    IF s.steps > MaxSteps THEN Exhausted(s)
    ELSE CASE e[1] = "lit" -> Done(s, e[2])
           [] e[1] = "var" -> Lookup(s, e[2])
           [] e[1] \in {"list", "pack"} ->
                LET r == EvaluateAll(e[2], s, TRUE)
                IN IF r.sig = "error item" THEN Done(r.s, r.v)
                   ELSE IF r.sig # "ok" THEN r ELSE Done(r.s, <<e[1], r.v>>)
           [] e[1] = "call" ->
                LET f == Evaluate(<<"var", e[2]>>, s)
                    r == EvaluateAll(e[3], f.s, FALSE)
                IN IF f.sig # "ok" THEN f
                   ELSE IF r.sig # "ok" THEN r ELSE Invoke(e[2], r.v, r.s)
           [] OTHER ->
                LET r == Evaluate(FirstOperand(e), s)
                IN IF r.sig # "ok" THEN r ELSE EvaluateRest(e, r)

-----------------------------------------------------------------------------
(* A break or continue signal belongs to the innermost loop, which keeps   *)
(* the result of the last completed iteration; an Error result ends it.    *)
RECURSIVE RunWhile(_, _, _)
RunWhile(st, result, s) ==
    LET c == Evaluate(st[2], s)
        r == ScopedBlock(st[3], c.s)
    IN IF c.sig # "ok" \/ IsError(c.v) THEN c
       ELSE IF ~Truthy(c.v) \/ r.sig = "break"
            THEN Done(IF Truthy(c.v) THEN r.s ELSE c.s, result)
       ELSE IF r.sig = "continue" THEN RunWhile(st, result, r.s)
       ELSE IF r.sig # "ok" \/ IsError(r.v) THEN r
       ELSE RunWhile(st, r.v, r.s)

RECURSIVE RunFor(_, _, _, _)
RunFor(st, items, result, s) ==
    IF items = <<>> THEN Done(s, result)
    ELSE LET r == PopResult(ExecuteBlock(st[4], Define(Push(s), st[2], Head(items), FALSE)))
         IN CASE r.sig = "break" -> Done(r.s, result)
              [] r.sig = "continue" -> RunFor(st, Tail(items), result, r.s)
              [] r.sig = "ok" /\ ~IsError(r.v) -> RunFor(st, Tail(items), r.v, r.s)
              [] OTHER -> r

(* What follows the evaluation of a statement's expression.                *)
ExecuteRest(st, r) ==
    CASE st[1] = "let" -> Done(Define(r.s, st[2], r.v, st[3]), Unit)
      [] st[1] = "return" -> Signal(r.s, "return", r.v)
      [] st[1] = "expr" \/ IsError(r.v) -> r
      [] st[1] = "if" -> ScopedBlock(IF Truthy(r.v) THEN st[3] ELSE st[4], r.s)
      [] r.v[1] = "list" -> RunFor(st, r.v[2], Unit, r.s)
      [] OTHER -> Raise(r.s)

ExpressionOf(st) == IF st[1] = "let" THEN st[4] ELSE IF st[1] = "for" THEN st[3] ELSE st[2]

ExecuteStatement(st, s0) ==
    LET s == Charge(s0) IN
    IF s.steps > MaxSteps THEN Exhausted(s)
    ELSE CASE st[1] \in {"break", "continue"} -> Signal(s, st[1], Unit)
           [] st[1] = "while" -> RunWhile(st, Unit, s)
           [] OTHER -> LET r == Evaluate(ExpressionOf(st), s)
                       IN IF r.sig # "ok" THEN r ELSE ExecuteRest(st, r)

(* The value of a block is the value of its last statement.                *)
RECURSIVE RunBlock(_, _, _)
RunBlock(b, result, s) ==
    IF b = <<>> THEN Done(s, result)
    ELSE LET r == ExecuteStatement(Head(b), s)
         IN IF r.sig # "ok" THEN r ELSE RunBlock(Tail(b), r.v, r.s)

Run(what, x, s) ==
    IF what = "block" THEN RunBlock(x, Unit, s) ELSE EvaluateNode(x, s)

(* Interpreter.execute_main, seen from outside.                            *)
Observed(r) == [end |-> r.sig, v |-> r.v, out |-> r.s.out]
Meaning(main) ==
    Observed(CallResult(main, Start, ExecuteBlock(main.body, [Start EXCEPT !.depth = 1])))
=============================================================================
