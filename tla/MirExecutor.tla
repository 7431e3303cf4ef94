----------------------------- MODULE MirExecutor -----------------------------
(***************************************************************************)
(* The budgeted canonical MIR executor. One step of the machine is one     *)
(* instruction or one terminator of the active call, each charged to the   *)
(* budget before it runs. Functions and main are lowered by MirLowering;   *)
(* KsInterpreter says what they mean.                                      *)
(***************************************************************************)
EXTENDS KsInterpreter, MirLowering

CONSTANTS
    Programs    \* the main functions to run, each under a name

VARIABLES
    main,       \* the name of the main function
    code,       \* the lowered functions, main among them
    frames,     \* active calls, innermost last
    out,        \* what was printed
    steps,      \* RuntimeBudget.steps
    end,        \* "running", "ok", "raise" or "budget"
    result      \* the value main returned

vars == <<main, code, frames, out, steps, end, result>>

LoweredFunctions == [f \in DOMAIN Functions |-> Lower(Functions[f]).blocks]
Lowered(p) == "main" :> Lower(p).blocks @@ LoweredFunctions

(* A call: its position, its SSA values and its bindings.                  *)
Frame(f, args, decl) ==
    [fn |-> f, block |-> 1, ip |-> 1, values |-> <<>>,
     binds |-> [x \in {Plain(decl.params[i][1]) : i \in DOMAIN decl.params} |->
                  Cell(args[CHOOSE i \in DOMAIN decl.params :
                            Plain(decl.params[i][1]) = x], FALSE)]]

Init ==
    /\ main \in DOMAIN Programs
    /\ code = Lowered(Programs[main])
    /\ frames = << Frame("main", <<>>, Programs[main]) >>
    /\ out = <<>>
    /\ steps = 0
    /\ end = "running"
    /\ result = Unit

Top == frames[Len(frames)]
Declaration(f) == IF f = "main" THEN Programs[main] ELSE Functions[f]
BlockOf(fr) == code[fr.fn][fr.block]
Ins == BlockOf(Top).ins[Top.ip]
AtInstruction == Top.ip <= Len(BlockOf(Top).ins)
V(i) == Top.values[i]

SetTop(fr) == [frames EXCEPT ![Len(frames)] = fr]
Pops == SubSeq(frames, 1, Len(frames) - 1)

Stop(how) ==
    /\ end' = how
    /\ UNCHANGED <<main, code, frames, out, result>>

(* consume_step, then the instruction or the terminator.                   *)
CanStep == end = "running" /\ steps < MaxSteps
(* Mutant: nothing is charged. *)
ChargeNothing == steps' = steps
ChargeStep == steps' = steps + 1

OutOfSteps ==
    /\ end = "running" /\ steps >= MaxSteps
    /\ steps' = steps + 1
    /\ Stop("budget")

-----------------------------------------------------------------------------
(* What a name denotes: a binding first, a function or builtin second.     *)
Named(name) == name \in DOMAIN Top.binds \/ name[1] \in DOMAIN Functions \cup Builtins
LoadName(name) ==
    IF name \in DOMAIN Top.binds THEN Top.binds[name].v ELSE <<"fn", name[1]>>

Strict(op, a, b) ==
    IF IsError(a) THEN a ELSE IF IsError(b) THEN b ELSE Arithmetic(op, a, b)

IsVariant(v) == v[1] \in {"some", "none"}

(* An instruction the executor refuses to run on these values.             *)
Refused ==
    \/ Ins[1] = "load" /\ ~Named(Ins[3])
    \/ Ins[1] = "store" /\ \/ Ins[2] \notin DOMAIN Top.binds
                           \/ ~Top.binds[Ins[2]].mutable
    \/ Ins[1] = "variantIs" /\ ~IsVariant(V(Ins[3]))
    \/ Ins[1] = "variantPayload" /\ V(Ins[3])[1] # "some"
    \/ Ins[1] = "iterInit" /\ V(Ins[3])[1] # "list"
    \/ Ins[1] = "iterNext" /\ V(Ins[3])[2] = <<>>
    \/ Ins[1] = "payload" /\ ~Succeeds(V(Ins[3]))

(* The value an instruction with a target defines.                         *)
ValueOf ==
    CASE Ins[1] = "const" -> Ins[3]
      [] Ins[1] = "unit" -> Unit
      [] Ins[1] = "load" -> LoadName(Ins[3])
      [] Ins[1] = "unary" -> IF IsError(V(Ins[3])) THEN V(Ins[3]) ELSE Bool(~Truthy(V(Ins[3])))
      [] Ins[1] = "binary" -> Strict(Ins[3], V(Ins[4]), V(Ins[5]))
      [] Ins[1] = "list" -> <<"list", [i \in DOMAIN Ins[3] |-> V(Ins[3][i])]>>
      [] Ins[1] = "isError" -> Bool(IsError(V(Ins[3])))
      [] Ins[1] = "isSuccess" -> Bool(Succeeds(V(Ins[3])))
      [] Ins[1] = "payload" -> Payload(V(Ins[3]))
      [] Ins[1] = "construct" -> <<"some", V(Ins[3])>>
      [] Ins[1] = "variantIs" -> Bool(V(Ins[3])[1] = Ins[4])
      [] Ins[1] = "variantPayload" -> V(Ins[3])[2]
      [] Ins[1] = "packNew" -> <<"builder", <<>>>>
      [] Ins[1] = "packFinish" -> <<"pack", V(Ins[3])[2]>>
      [] Ins[1] = "iterInit" -> <<"iter", V(Ins[3])[2]>>
      [] Ins[1] = "iterHasNext" -> Bool(V(Ins[3])[2] # <<>>)
      [] Ins[1] = "iterNext" -> Head(V(Ins[3])[2])

(* The call's frame after an instruction other than a call: iterators and  *)
(* builders are updated in place, bindings hold cells.                     *)
After ==
    LET fr == [Top EXCEPT !.ip = @ + 1] IN
    CASE Ins[1] = "bind" ->
            [fr EXCEPT !.binds = (Ins[2] :> Cell(V(Ins[3]), Ins[4])) @@ @]
      [] Ins[1] = "store" ->
            [fr EXCEPT !.binds = (Ins[2] :> Cell(V(Ins[3]), TRUE)) @@ @]
      [] Ins[1] = "packSet" ->
            [fr EXCEPT !.values[Ins[2]] = <<"builder", Append(@[2], V(Ins[3]))>>]
      [] Ins[1] = "iterNext" ->
            [fr EXCEPT !.values = (Ins[2] :> ValueOf) @@
                                  (Ins[3] :> <<"iter", Tail(V(Ins[3])[2])>>) @@ @]
      [] OTHER -> [fr EXCEPT !.values = (Ins[2] :> ValueOf) @@ @]

ExecuteInstruction ==
    /\ CanStep /\ AtInstruction /\ Ins[1] # "call"
    /\ ChargeStep
    /\ IF Refused THEN Stop("raise")
       ELSE /\ frames' = SetTop(After)
            /\ UNCHANGED <<main, code, out, end, result>>

-----------------------------------------------------------------------------
Callee == V(Ins[3])[2]
Arguments == [i \in DOMAIN Ins[4] |-> V(Ins[4][i])]
AtCall == CanStep /\ AtInstruction /\ Ins[1] = "call"

(* The result of a call becomes the value of the waiting instruction.      *)
Give(fr, t, v) == [fr EXCEPT !.values = (t :> v) @@ @, !.ip = @ + 1]

CallPrimitive ==
    /\ AtCall
    /\ Callee \in Builtins
    /\ ChargeStep
    /\ out' = IF Callee = "println" THEN Append(out, Arguments[1]) ELSE out
    /\ frames' = SetTop(Give(Top, Ins[2], IF Callee = "println" THEN Unit
                                          ELSE Err("user")))
    /\ UNCHANGED <<main, code, end, result>>

(* _call: the argument types, then the depth, then a new frame.            *)
Call ==
    /\ AtCall
    /\ Callee \notin Builtins
    /\ ChargeStep
    /\ LET f == Functions[Callee]
       IN IF ~Accepts(f, Arguments) THEN Stop("raise")
          ELSE IF Len(frames) >= MaxCallDepth THEN Stop("budget")
          ELSE /\ frames' = Append(frames, Frame(Callee, Arguments, f))
               /\ UNCHANGED <<main, code, out, end, result>>

Term == BlockOf(Top).term
AtTerminator(kinds) == CanStep /\ ~AtInstruction /\ Term[1] \in kinds
GoTo(b) ==
    /\ frames' = SetTop([Top EXCEPT !.block = b, !.ip = 1])
    /\ UNCHANGED <<main, code, out, end, result>>

(* An unreachable block fails closed.                                      *)
TakeJump ==
    /\ AtTerminator({"jump", "unreachable"})
    /\ ChargeStep
    /\ IF Term[1] = "unreachable" THEN Stop("raise") ELSE GoTo(Term[2])

(* A branch on an Error is refused: lowering must test for it first.       *)
TakeBranch ==
    /\ AtTerminator({"branch"})
    /\ ChargeStep
    /\ IF IsError(V(Term[2])) THEN Stop("raise")
       ELSE GoTo(IF Truthy(V(Term[2])) THEN Term[3] ELSE Term[4])

(* A Void function must return Unit.                                       *)
ReturnMatches(v, type) == v[1] \in (IF type = {} THEN {"unit"} ELSE type)

Return ==
    /\ AtTerminator({"return"})
    /\ ChargeStep
    /\ LET v == IF Term[2] = 0 THEN Unit ELSE V(Term[2])
           caller == frames[Len(frames) - 1]
       IN IF ~ReturnMatches(v, Declaration(Top.fn).ret) THEN Stop("raise")
          ELSE IF Len(frames) = 1
          THEN /\ frames' = <<>>
               /\ end' = "ok"
               /\ result' = v
               /\ UNCHANGED <<main, code, out>>
          ELSE /\ frames' = [Pops EXCEPT ![Len(Pops)] =
                               Give(caller, BlockOf(caller).ins[caller.ip][2], v)]
               /\ UNCHANGED <<main, code, out, end, result>>

Next ==
    \/ OutOfSteps \/ ExecuteInstruction \/ CallPrimitive \/ Call
    \/ TakeJump \/ TakeBranch \/ Return

Spec == Init /\ [][Next]_vars /\ WF_vars(Next)

-----------------------------------------------------------------------------
(* Type invariant: the budget bounds the calls and the steps, and main's   *)
(* frame is the outermost while main runs.                                 *)
TypeOK ==
    /\ steps \in 0 .. MaxSteps + 1
    /\ Len(frames) <= MaxCallDepth
    /\ end = "running" => frames # <<>> /\ frames[1].fn = "main"
    /\ end \in {"running", "ok", "raise", "budget"}

(* The lowering of a checked program is a valid MIR function: every value  *)
(* is defined once, every operand somewhere, and every branch goes to a    *)
(* block of the function (validate_blocks).  The paths the lowering        *)
(* declares impossible are never taken: no branch on an Error, no payload  *)
(* of a failure, no unreachable block, no name used before it is bound     *)
(* (the KS5002 exits of the executor).                                     *)
LoweringIsExhaustive ==
    /\ steps = 0 => /\ Lower(Programs[main]).ok
                    /\ \A f \in DOMAIN code : ValidateBlocks(code[f])
    /\ end = "running" =>
        IF AtInstruction THEN ~Refused
        ELSE /\ Term[1] # "unreachable"
             /\ Term[1] = "branch" => ~IsError(V(Term[2]))

(* Running the lowered blocks gives the result, the output and the failure *)
(* that interpreting the source gives, unless a budget ended one of them   *)
(* (MirExecutorV1 against Interpreter).                                    *)
Agrees(m) ==
    m.end # "budget" => /\ m.end = end
                        /\ m.out = out
                        /\ end = "ok" => m.v = result
MirMeansSource == end \in {"ok", "raise"} => Agrees(Meaning(Programs[main]))

(* "runtime error values propagate exactly as source semantics define":    *)
(* an Error met while operands are evaluated has the effects it has in the *)
(* source, no more and no fewer. The strict operators and the list literal *)
(* evaluate all operands in MIR and stop at the first Error in the source. *)
ErrorsPropagateAsInSource ==
    end = "ok" => out = Meaning(Programs[main]).out

(* The budget ends every run, a loop with an empty body included           *)
(* (consume_step on every instruction and every terminator).               *)
BudgetEndsEveryRun == <>(end # "running")
=============================================================================
