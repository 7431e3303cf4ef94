--------------------------- MODULE AffineResources ---------------------------
(***************************************************************************)
(* AffineResourceChecker (affine_resources_v1.py): the ownership pass over *)
(* a function body, and the runs of the body it judges.  A program is the  *)
(* body of a function with one affine parameter, edited one statement at a *)
(* time.  Expressions and statements are tuples tagged by their AST node:  *)
(*   <<"id", x>>, <<"new">>, <<"plain">>, <<"read", x>> (a plain field),   *)
(*   <<"field", x>> (an affine field), <<"eat", e>>, <<"pass", e>>,        *)
(*   <<"try", e>> (a call that may fail), <<"pair", e, f>> (an aggregate), *)
(*   <<"both", e, f>> (an operator), <<"assign", x, e>>, <<"orret", e, f>>, *)
(*   <<"else", e, f>>, <<"or", e, block>>, <<"match", e, arm, arm>>;       *)
(*   <<"let", x, e>>, <<"ret", e>>, <<"do", e>>, <<"if", e, block, block>>, *)
(*   <<"while", e, block>>, <<"for", x, e, block>>, <<"break">>,           *)
(*   <<"continue">>.                                                       *)
(* An arm is <<"arm", x, e>> or <<"block", x, block>>; x is "" when it     *)
(* binds nothing.  "mut" is a "let mut".                                   *)
(* Earlier passes refuse capabilities in generic arguments and in enum     *)
(* variants (KS2401, KS2402), so the binding of an arm and the variable of *)
(* a for hold plain values.  An orret without an error has <<"plain">>.    *)
(* Left out: locations and messages, and the projection of SystemCaps,     *)
(* which never moves its root.                                             *)
(***************************************************************************)
EXTENDS Integers, Sequences, FiniteSetsExt, TLC

LOCAL INSTANCE SequencesExt

CONSTANTS
  Simple, Compound,   \* the statements an edit may append
  MaxStatements, MaxIterations   \* bounds on the body and on a loop's rounds

VARIABLE body
bodyVars == body

Nothing == [x \in {} |-> x]

\* The innermost scope that has the name; 0 when none has.
ScopeWith(scopes, x) ==
  Max({0} \cup {i \in DOMAIN scopes : x \in DOMAIN scopes[i]})

WithTop(scopes, x, b) ==
  [scopes EXCEPT ![Len(scopes)] = (x :> b) @@ @]

-----------------------------------------------------------------------------
(* The checker.  Its state: the scopes with their bindings, the ids of the *)
(* moved bindings, the next id and the first error.                        *)

Failed(st, code) == [st EXCEPT !.err = code]
Sound(st) == st.err = "ok"

BindingOf(st, x) ==
  LET i == ScopeWith(st.scopes, x)
  IN IF i = 0 THEN [id |-> 0, affine |-> FALSE] ELSE st.scopes[i][x]

OuterIds(st) == {st.scopes[i][x].id : <<i, x>> \in
                   {<<j, y>> \in (DOMAIN st.scopes) \X UNION {DOMAIN st.scopes[j] : j \in DOMAIN st.scopes}
                      : y \in DOMAIN st.scopes[j]}}

Declare(st, x, affine) ==
  [st EXCEPT !.scopes = WithTop(@, x, [id |-> st.next, affine |-> affine]),
             !.next = @ + 1]

EnterScope(st) == [st EXCEPT !.scopes = Append(@, Nothing)]

\* A scope with the variable of a for or the binding of an arm.
EnterWith(st, x) ==
  IF x = "" THEN EnterScope(st) ELSE Declare(EnterScope(st), x, FALSE)

\* The bindings of a scope that ends are forgotten.
LeaveScope(st) ==
  LET top == st.scopes[Len(st.scopes)]
  IN [st EXCEPT !.scopes = Front(@), !.moved = @ \ {top[x].id : x \in DOMAIN top}]

\* Mutant of Use: a borrow moves too.
UseConsuming(st, x, moves) ==
  LET b == BindingOf(st, x)
  IN CASE ~b.affine -> st
       [] b.affine /\ b.id \in st.moved -> Failed(st, "KS3931")
       [] b.affine /\ b.id \notin st.moved -> [st EXCEPT !.moved = @ \cup {b.id}]

Use(st, x, moves) ==
  LET b == BindingOf(st, x)
  IN CASE ~b.affine -> st
       [] b.affine /\ b.id \in st.moved -> Failed(st, "KS3931")
       [] b.affine /\ b.id \notin st.moved ->
            IF moves THEN [st EXCEPT !.moved = @ \cup {b.id}] ELSE st

\* _type_of and _is_affine: what Typed HIR says of an expression
RECURSIVE IsAffine(_, _)
IsAffine(st, e) ==
  CASE e[1] = "id" -> BindingOf(st, e[2]).affine
    [] e[1] = "new" -> TRUE
    [] e[1] = "field" -> BindingOf(st, e[2]).affine
    [] e[1] \in {"pass", "try"} -> IsAffine(st, e[2])
    [] e[1] = "pair" -> IsAffine(st, e[2]) \/ IsAffine(st, e[3])
    [] e[1] \in {"plain", "read", "eat", "both", "assign"} -> FALSE
    [] e[1] \in {"else", "or", "orret"} -> IsAffine(st, e[2])
    [] e[1] = "match" ->
         LET inside == EnterWith(st, e[3][2])
             block == e[3][3]
         IN IF e[3][1] = "arm" THEN IsAffine(inside, e[3][3])
            ELSE block # <<>> /\ Last(block)[1] = "do" /\ IsAffine(inside, Last(block)[2])

\* A move in either branch holds after both.
Join(before, first, second) ==
  [before EXCEPT !.moved = @ \cup ((first.moved \cup second.moved) \cap OuterIds(before)),
                 !.next = second.next,
                 !.err = IF Sound(first) THEN second.err ELSE first.err]

\* Mutant of AfterLoop: a move inside a loop is taken as a move before it.
AfterLoopOnce(before, inside) ==
  [before EXCEPT !.moved = @ \cup (inside.moved \cap OuterIds(before)),
                 !.next = inside.next, !.err = inside.err]

\* A repeating body may not move a binding from outside it.
AfterLoop(before, inside) ==
  [before EXCEPT !.next = inside.next,
                 !.err = IF Sound(inside) /\ (inside.moved \ before.moved) \cap OuterIds(before) # {}
                         THEN "KS3932" ELSE inside.err]

RECURSIVE CheckExpression(_, _, _), CheckStatements(_, _), CheckStatement(_, _)

\* An expression in a place that takes ownership of an affine value.
CheckOwned(st, e) == CheckExpression(st, e, IsAffine(st, e))

CheckBlock(st, x, block) == LeaveScope(CheckStatements(EnterWith(st, x), block))

CheckArm(st, arm, moves) ==
  LET inside == EnterWith(st, arm[2])
  IN IF arm[1] = "block" THEN CheckBlock(st, arm[2], arm[3])
     ELSE LeaveScope(CheckExpression(inside, arm[3], moves /\ IsAffine(inside, arm[3])))

\* Taking an affine field out moves the whole owner.
CheckField(st, x, moves) ==
  LET st1 == Use(st, x, FALSE) IN IF Sound(st1) THEN Use(st1, x, moves) ELSE st1

CheckExpression(st, e, moves) ==
  IF ~Sound(st) THEN st ELSE
  CASE e[1] \in {"new", "plain"} -> st
    [] e[1] = "id" -> Use(st, e[2], moves)
    [] e[1] = "read" -> Use(st, e[2], FALSE)
    [] e[1] = "field" -> CheckField(st, e[2], moves)
    [] e[1] \in {"eat", "pass", "try"} -> CheckOwned(st, e[2])
    [] e[1] = "pair" -> CheckOwned(CheckOwned(st, e[2]), e[3])
    [] e[1] = "else" -> CheckExpression(CheckExpression(st, e[2], moves /\ IsAffine(st, e[2])),
                                        e[3], moves /\ IsAffine(st, e[3]))
    [] e[1] = "both" -> CheckExpression(CheckExpression(st, e[2], FALSE), e[3], FALSE)
    [] e[1] = "assign" -> CheckExpression(CheckOwned(st, e[3]), <<"id", e[2]>>, FALSE)
    [] e[1] = "orret" -> CheckOwned(CheckExpression(st, e[2], moves /\ IsAffine(st, e[2])), e[3])
    [] e[1] = "or" -> CheckBlock(CheckExpression(st, e[2], moves /\ IsAffine(st, e[2])), "", e[3])
    [] e[1] = "match" ->
         LET st1 == CheckExpression(st, e[2], FALSE)
             first == CheckArm(st1, e[3], moves)
         IN IF Sound(st1) THEN Join(st1, first, CheckArm([st1 EXCEPT !.next = first.next], e[4], moves))
            ELSE st1

CheckStatements(st, block) ==
  IF block = <<>> \/ ~Sound(st) THEN st
  ELSE CheckStatements(CheckStatement(st, Head(block)), Tail(block))

CheckStatement(st, s) ==
  CASE s[1] \in {"let", "mut"} ->
         LET st1 == CheckOwned(st, s[3])
         IN IF Sound(st1) /\ s[1] = "mut" /\ IsAffine(st, s[3]) THEN Failed(st1, "KS3930")
            ELSE IF Sound(st1) THEN Declare(st1, s[2], IsAffine(st, s[3])) ELSE st1
    [] s[1] = "ret" -> CheckOwned(st, s[2])
    [] s[1] = "do" -> CheckExpression(st, s[2], FALSE)
    [] s[1] = "if" ->
         LET st1 == CheckExpression(st, s[2], FALSE)
             first == CheckBlock(st1, "", s[3])
         IN IF Sound(st1) THEN Join(st1, first, CheckBlock([st1 EXCEPT !.next = first.next], "", s[4]))
            ELSE st1
    [] s[1] = "while" ->
         LET st1 == CheckExpression(st, s[2], FALSE)
         IN IF Sound(st1) THEN AfterLoop(st1, CheckBlock(st1, "", s[3])) ELSE st1
    [] s[1] = "for" ->
         LET st1 == CheckExpression(st, s[3], FALSE)
         IN IF Sound(st1) THEN AfterLoop(st1, CheckBlock(st1, s[2], s[4])) ELSE st1
    [] s[1] \in {"break", "continue"} -> st

Verdict(b) ==
  CheckStatements(Declare([scopes |-> <<Nothing>>, moved |-> {}, next |-> 1, err |-> "ok"],
                          "a", TRUE), b).err

-----------------------------------------------------------------------------
(* The runs.  A binding holds the tokens of the resources its value owns.  *)
(* Storing a value in a binding or handing it to a call takes its tokens:  *)
(* every other binding that holds one is stale from then on.  An outcome   *)
(* is the store, the value and how the piece of code ended; "bad" is the   *)
(* use of a stale binding.                                                 *)

Slot(store, x) == store.scopes[ScopeWith(store.scopes, x)][x]

Take(store, tokens) ==
  [store EXCEPT !.scopes =
     [i \in DOMAIN @ |-> [x \in DOMAIN @[i] |->
        [@[i][x] EXCEPT !.stale = @ \/ store.scopes[i][x].tokens \cap tokens # {}]]]]

Outcome(store, value, ended) == [store |-> store, value |-> value, ended |-> ended]

\* Continue after the outcomes that ended normally.
AndThen(outcomes, F(_)) ==
  UNION {IF o.ended = "ok" THEN F(o) ELSE {o} : o \in outcomes}

Pushed(store, x) ==
  [store EXCEPT !.scopes =
     Append(@, IF x = "" THEN Nothing ELSE x :> [tokens |-> {}, stale |-> FALSE])]
Popped(outcomes) == {[o EXCEPT !.store.scopes = Front(@)] : o \in outcomes}

\* A failure that nothing handles is an Error value, which owns nothing.
Handled(outcomes) == {[o EXCEPT !.ended = IF @ = "failed" THEN "ok" ELSE @] : o \in outcomes}

RECURSIVE Eval(_, _), Exec(_, _), ExecBlock(_, _, _), RunLoop(_, _, _)

\* Names that are not in scope, or declared twice in one, are refused before.
Load(store, x, value) ==
  IF ScopeWith(store.scopes, x) = 0 THEN {Outcome(store, {}, "unscoped")}
  ELSE {Outcome(store, value, IF Slot(store, x).stale THEN "bad" ELSE "ok")}

Taken(o) == Take(o.store, o.value)

EvalArm(store, arm) ==
  IF arm[1] = "block" THEN ExecBlock(store, arm[2], arm[3])
  ELSE Popped(Eval(Pushed(store, arm[2]), arm[3]))

Eval(store, e) ==
  CASE e[1] = "new" -> {Outcome([store EXCEPT !.fresh = @ + 1], {store.fresh}, "ok")}
    [] e[1] = "plain" -> {Outcome(store, {}, "ok")}
    [] e[1] \in {"id", "field"} ->
         Load(store, e[2], IF ScopeWith(store.scopes, e[2]) = 0 THEN {} ELSE Slot(store, e[2]).tokens)
    [] e[1] = "read" -> Load(store, e[2], {})
    [] e[1] = "eat" -> AndThen(Eval(store, e[2]), LAMBDA o : {Outcome(Taken(o), {}, "ok")})
    [] e[1] = "pass" -> AndThen(Eval(store, e[2]), LAMBDA o : {Outcome(Taken(o), o.value, "ok")})
    [] e[1] = "try" ->
         AndThen(Eval(store, e[2]),
              LAMBDA o : {Outcome(Taken(o), o.value, "ok"), Outcome(Taken(o), {}, "failed")})
    [] e[1] = "pair" ->
         AndThen(Eval(store, e[2]),
              LAMBDA o : AndThen(Eval(Taken(o), e[3]),
                              LAMBDA p : {Outcome(Taken(p), o.value \cup p.value, "ok")}))
    [] e[1] = "else" ->
         UNION {IF o.ended = "failed" THEN Eval(o.store, e[3]) ELSE {o} : o \in Eval(store, e[2])}
    [] e[1] = "or" ->
         UNION {IF o.ended = "failed" THEN ExecBlock(o.store, "", e[3]) ELSE {o} : o \in Eval(store, e[2])}
    [] e[1] = "both" ->
         AndThen(Handled(Eval(store, e[2])),
                 LAMBDA o : AndThen(Handled(Eval(o.store, e[3])), LAMBDA p : {Outcome(p.store, {}, "ok")}))
    [] e[1] = "assign" ->
         AndThen(Handled(Eval(store, e[3])), LAMBDA o : Load(o.store, e[2], {}))
    [] e[1] = "orret" ->
         UNION {IF o.ended = "failed"
                THEN AndThen(Handled(Eval(o.store, e[3])), LAMBDA p : {Outcome(p.store, {}, "return")})
                ELSE {o} : o \in Eval(store, e[2])}
    [] e[1] = "match" ->
         AndThen(Handled(Eval(store, e[2])),
                 LAMBDA o : EvalArm(o.store, e[3]) \cup EvalArm(o.store, e[4]))

\* The value of a block is the value of its last expression statement.
RECURSIVE RunStatements(_, _, _)
RunStatements(store, block, value) ==
  IF block = <<>> THEN {Outcome(store, value, "ok")}
  ELSE AndThen(Exec(store, Head(block)), LAMBDA o : RunStatements(o.store, Tail(block), o.value))

ExecBlock(store, x, block) == Popped(RunStatements(Pushed(store, x), block, {}))

Exec(store, s) ==
  CASE s[1] \in {"let", "mut"} ->
         IF s[2] \in DOMAIN store.scopes[Len(store.scopes)] THEN {Outcome(store, {}, "unscoped")}
         ELSE AndThen(Handled(Eval(store, s[3])),
                   LAMBDA o : {Outcome([Taken(o) EXCEPT !.scopes =
                                          WithTop(@, s[2], [tokens |-> o.value, stale |-> FALSE])],
                                       {}, "ok")})
    [] s[1] = "ret" -> AndThen(Handled(Eval(store, s[2])), LAMBDA o : {Outcome(o.store, {}, "return")})
    [] s[1] = "do" -> Handled(Eval(store, s[2]))
    [] s[1] = "if" -> AndThen(Handled(Eval(store, s[2])),
                           LAMBDA o : ExecBlock(o.store, "", s[3]) \cup ExecBlock(o.store, "", s[4]))
    [] s[1] = "while" -> RunLoop(store, [again |-> s[2], x |-> "", block |-> s[3]], MaxIterations)
    [] s[1] = "for" ->
         AndThen(Handled(Eval(store, s[3])),
                 LAMBDA o : RunLoop(o.store, [again |-> <<"plain">>, x |-> s[2], block |-> s[4]],
                                    MaxIterations))
    [] s[1] \in {"break", "continue"} -> {Outcome(store, {}, s[1])}

RunLoop(store, loop, rounds) ==
  AndThen(Handled(Eval(store, loop.again)),
       LAMBDA o :
         {Outcome(o.store, {}, "ok")} \cup
         (IF rounds = 0 THEN {}
          ELSE UNION {CASE p.ended \in {"ok", "continue"} ->
                             RunLoop(p.store, loop, rounds - 1)
                        [] p.ended = "break" -> {Outcome(p.store, {}, "ok")}
                        [] p.ended \in {"return", "bad", "unscoped"} -> {p}
                      : p \in ExecBlock(o.store, loop.x, loop.block)}))

Runs(b) ==
  RunStatements([scopes |-> <<"a" :> [tokens |-> {0}, stale |-> FALSE]>>, fresh |-> 1], b, {})

Scoped(runs) == \A o \in runs : o.ended # "unscoped"
Misuse(runs) == \E o \in runs : o.ended = "bad"

-----------------------------------------------------------------------------

BodyInit == body = <<>>

\* An edit appends a statement; one compound statement is enough to surround
\* with simple ones.
Edit ==
  /\ Len(body) < MaxStatements
  /\ \/ \E s \in Simple : body' = Append(body, s)
     \/ /\ \A i \in DOMAIN body : body[i] \notin Compound
        /\ \E s \in Compound : body' = Append(body, s)

BodySpec == BodyInit /\ [][Edit]_bodyVars

\* "After a move the old binding cannot be referenced again": no run of an
\* accepted body uses a binding whose resource has gone to another owner,
\* through branches, loops, handlers and early exits.  It does not hold of
\* bodies with a while condition that moves, nor of those where a handler or a
\* block arm ends in an affine value, which is borrowed and not moved.
AcceptedIsAffine ==
  Verdict(body) = "ok" => LET runs == Runs(body) IN Scoped(runs) => ~Misuse(runs)

\* How far the conservative joins go (the repository promises soundness only):
\* where every path can be taken, without early exits, the checker refuses only
\* bodies that some run misuses.
RECURSIVE HasExit(_)
HasExit(b) ==
  \E i \in DOMAIN b :
    \/ b[i][1] \in {"ret", "break", "continue"}
    \/ b[i][1] = "if" /\ (HasExit(b[i][3]) \/ HasExit(b[i][4]))
    \/ b[i][1] = "while" /\ HasExit(b[i][3])
    \/ b[i][1] = "for" /\ HasExit(b[i][4])
    \/ b[i][1] = "let" /\ b[i][3][1] = "orret"
    \/ b[i][1] = "let" /\ b[i][3][1] = "or" /\ HasExit(b[i][3][3])
    \/ b[i][1] = "let" /\ b[i][3][1] = "match"
       /\ \E j \in {3, 4} : b[i][3][j][1] = "block" /\ HasExit(b[i][3][j][3])

RefusedIsMisused ==
  ~HasExit(body) /\ Verdict(body) \in {"KS3931", "KS3932"} =>
    LET runs == Runs(body) IN Scoped(runs) => Misuse(runs)

=============================================================================
