----------------------------- MODULE MCLanguage -----------------------------
(***************************************************************************)
(* The two models of the language, checked side by side: a behaviour runs  *)
(* one program on the MIR executor, or edits one body for the affine       *)
(* checker.                                                                *)
(* MIR: every program `let mut n = 1; S; T; return n` and every loop over  *)
(* two statements, for statements that use each construct, with effects    *)
(* (println) in the places where their order can be seen.  Affine: bodies  *)
(* of up to three statements, loops run up to twice.                       *)
(***************************************************************************)
EXTENDS MirExecutor, AffineResources

CONSTANTS
  ConditionsMove,  \* whether a while condition may hand a binding over
  BlocksYield      \* whether a block may end in an affine value

VARIABLE part  \* the model that this behaviour exercises

MCIntMin == -3
Lit(n) == <<"lit", Int_(n)>>
N == <<"var", "n">>
Less(a, b) == <<"bin", "<", a, b>>
SetN(e) == <<"expr", <<"assign", "n", e>>>>
F(f, e) == <<"call", f, <<e>>>>
Say(e) == <<"expr", F("println", e)>>
P(x, type) == << <<x, type>> >>

(* tap prints its argument; pos and chk fail on 2; opt is None on 2; down  *)
(* calls itself until the depth budget ends it; say and hush are Void and  *)
(* fall off their end.                                                     *)
MCFunctions ==
    "tap" :> [params |-> P("a", {"int"}), ret |-> {"int"},
              body |-> << Say(<<"var", "a">>), <<"return", <<"var", "a">>>> >>]
    @@ "pos" :> [params |-> P("a", {"int"}), ret |-> {"int", "err"},
              body |-> << <<"if", Less(Lit(1), <<"var", "a">>),
                            << <<"return", F("Error", Lit(0))>> >>, <<>>>>,
                          <<"return", F("tap", <<"var", "a">>)>> >>]
    @@ "chk" :> [params |-> P("a", {"int"}), ret |-> {"bool", "err"},
              body |-> << <<"if", Less(<<"var", "a">>, Lit(2)),
                            << <<"return", <<"lit", Bool(TRUE)>>>> >>, <<>>>>,
                          <<"return", F("Error", Lit(0))>> >>]
    @@ "opt" :> [params |-> P("a", {"int"}), ret |-> {"some", "none"},
              body |-> << <<"if", Less(<<"var", "a">>, Lit(2)),
                            << <<"return", F("Some", F("tap", <<"var", "a">>))>> >>, <<>>>>,
                          <<"return", <<"lit", None>>>> >>]
    @@ "down" :> [params |-> P("a", {"int"}), ret |-> {"int"},
              body |-> << <<"return", F("down", <<"var", "a">>)>> >>]
    @@ "say" :> [params |-> P("a", {"int"}), ret |-> {}, body |-> << Say(<<"var", "a">>) >>]
    @@ "hush" :> [params |-> P("a", {"int"}), ret |-> {},
              body |-> << <<"if", Less(<<"var", "a">>, Lit(2)),
                            << <<"expr", F("say", <<"var", "a">>)>> >>, <<>>>> >>]

Step == SetN(<<"bin", "+", N, Lit(1)>>)
Failures ==
    << SetN(<<"orElse", F("pos", N), Lit(2)>>),
      SetN(<<"orReturn", F("pos", N)>>),
      SetN(<<"orReturnWith", F("pos", N), F("Error", F("tap", Lit(3)))>>),
      SetN(<<"orBlock", F("pos", N), << Say(N), <<"expr", Lit(1)>> >>>>),
      SetN(<<"orBlock", F("pos", N), << <<"return", Lit(0)>> >>>>),
      SetN(<<"orBlock", F("pos", N),
             << <<"if", F("chk", N), << <<"expr", Lit(0)>> >>, << <<"expr", Lit(1)>> >>>> >>>>) >>
Variants ==
    << <<"expr", <<"match", F("opt", N),
             << <<"some", "v", "expr", F("println", <<"bin", "+", <<"var", "v">>, Lit(1)>>)>>,
                <<"none", "", "block", << Say(N), <<"return", Lit(0)>> >>>> >>>>>>,
      SetN(<<"match", F("opt", N),
             << <<"none", "", "expr", Lit(0)>>,
                <<"some", "n", "block", << Say(N), <<"expr", <<"orElse", F("pos", N), N>>>> >>>> >>>>) >>
Logic ==
    << <<"if", <<"logic", "&&", Less(N, Lit(3)), Less(F("tap", N), Lit(2))>>, << Step >>, << Say(Lit(0)) >>>>,
      <<"if", <<"logic", "||", Less(<<"bin", "+", N, Lit(1)>>, Lit(3)), Less(F("tap", N), Lit(2))>>, << Say(N) >>, << Step >>>> >>
Others ==
    << Step, Say(N), <<"if", Less(N, Lit(3)), <<>>, << <<"return", Lit(0)>> >>>>,
      <<"if", Less(N, Lit(2)), << <<"let", "m", FALSE, N>>, Step >>, <<>>>>,
      <<"if", <<"lit", Bool(TRUE)>>,
        << <<"let", "n", TRUE, F("tap", Lit(3))>>, Step, Say(Lit(1)) >>, <<>>>>,
      <<"expr", <<"pack", <<F("tap", Lit(1)), F("pos", N), F("tap", Lit(3))>>>>>>,
      <<"for", "x", <<"list", <<Lit(1), F("tap", Lit(2))>>>>,
        << <<"expr", F("pos", <<"var", "x">>)>> >>>>,
      <<"while", <<"not", Less(Lit(2), N)>>, << Step >>>> >>
Control == << <<"if", Less(N, Lit(2)), << Step, <<"continue">> >>, << <<"break">> >>>>,
             <<"if", F("chk", N), << <<"break">> >>, << Step, <<"continue">> >>>> >>

Statements == Failures \o Variants \o Logic \o Others
Main(b) ==
    [params |-> <<>>, ret |-> {"int", "err"},
     body |-> << <<"let", "n", TRUE, Lit(1)>> >> \o b \o << <<"return", N>> >>]

(* A Void main whose statements leave Unit: what a Void function leaves    *)
(* otherwise is dropped in MIR and is its result in the source.            *)
VoidStatements ==
    << <<"expr", F("say", N)>>, <<"expr", F("hush", N)>>, Say(F("hush", N)),
       <<"for", "x", <<"list", <<Lit(1), N>>>>, << <<"expr", F("hush", <<"var", "x">>)>> >>>>,
       <<"let", "m", FALSE, F("say", N)>> >>
VoidMain(b) ==
    [params |-> <<>>, ret |-> {}, body |-> << <<"let", "n", TRUE, Lit(1)>> >> \o b]

Twice == <<"list", <<Lit(1), Lit(2)>>>>
Loop(kind, b) ==
    CASE kind = "while" -> <<"while", Less(N, Lit(3)), b>>
      [] kind = "while chk" -> <<"while", F("chk", N), b>>
      [] kind = "for" -> <<"for", "x", Twice, b>>
      [] kind = "value for" ->
            SetN(<<"orBlock", F("pos", Lit(2)),
                   << <<"for", "x", Twice, << <<"let", "n", TRUE, <<"var", "x">>>> >> \o b>> >>>>)

(* A program is named by its shape and the statements it is made of.       *)
Shapes ==
    {<<"pair", i, j>> : i \in DOMAIN Statements, j \in DOMAIN Statements}
    \cup {<<k, i, j>> : k \in {"while", "while chk", "for", "value for"},
                       i \in DOMAIN Statements, j \in {-2, -1} \cup DOMAIN Failures}
    \cup {<<k, i, j>> : k \in {"while", "for"}, i \in {-2, -1}, j \in DOMAIN Statements}
Statement(i) == IF i < 0 THEN Control[-i] ELSE Statements[i]
MCPrograms ==
    [p \in Shapes |->
        LET b == <<Statement(p[2]), Statement(p[3])>>
        IN Main(IF p[1] = "pair" THEN b ELSE << Loop(p[1], b) >>)]
    @@ [p \in {<<"void", i, j>> : i \in DOMAIN VoidStatements, j \in DOMAIN VoidStatements} |->
        VoidMain(<<VoidStatements[p[2]], Step, VoidStatements[p[3]]>>)]
    @@ <<"idle", 0, 0>> :> Main(<< <<"while", <<"lit", Bool(TRUE)>>, <<>>>> >>)
    @@ <<"deep", 0, 0>> :> Main(<< SetN(F("down", N)) >>)
    @@ <<"type", 0, 0>> :> Main(<< SetN(<<"bin", "+", Lit(3), N>>), SetN(F("tap", N)) >>)

(* Operands after one that is an Error: 3 + 1 overflows.                   *)
Overflow == SetN(<<"bin", "+", Lit(3), N>>)
EagerPrograms ==
    "strict" :> Main(<< Overflow, SetN(<<"bin", "+", N, F("tap", Lit(1))>>) >>)
    @@ "list" :> Main(<< Overflow, <<"for", "x", <<"list", <<N, F("tap", Lit(1))>>>>, << Say(Lit(2)) >>>> >>)

-----------------------------------------------------------------------------
(* Bodies over the parameter a and the names b and c.                      *)

Id(x) == <<"id", x>>
Eat(x) == <<"do", <<"eat", Id(x)>>>>

\* Statements inside a block.
Inner ==
  {Eat("a"), Eat("b"), <<"do", <<"read", "a">>>>, <<"let", "b", Id("a")>>,
   <<"let", "a", <<"new">>>>, <<"ret", Id("a")>>, <<"if", <<"plain">>, <<Eat("a")>>, <<>>>>}
   \cup IF BlocksYield THEN {<<"do", Id("a")>>} ELSE {}
Short == {<<>>} \cup {<<s>> : s \in Inner}
Long == {<<s, t>> : s \in Inner \ {<<"ret", Id("a")>>}, t \in Inner}
Blocks == Short \cup Long
LoopBlocks == Blocks \cup {<<s, t>> : s \in Inner, t \in {<<"break">>, <<"continue">>}}
Names == {"", "b"}  \* what an arm or a for may bind; b may be shadowed
Scrutinees == {<<"plain">>, <<"read", "a">>, <<"eat", Id("a")>>}
AffineArms == {<<"arm", x, e>> : x \in Names, e \in {Id("a"), <<"new">>}}
PlainArms == {<<"arm", x, e>> : x \in Names, e \in {<<"plain">>, <<"eat", Id("a")>>, <<"eat", Id("b")>>}}
BlockArms == {<<"block", x, b>> : x \in Names, b \in Short}
Yields(arm) == arm[3] = <<<<"do", Id("a")>>>>
Matches ==
  {<<"match", e, p[1], p[2]>> :
     e \in Scrutinees,
     p \in {q \in (AffineArms \X AffineArms) \cup (PlainArms \X PlainArms) : q[2][2] = ""}}
  \cup {<<"match", <<"plain">>, p[1], p[2]>> :
          p \in {q \in BlockArms \X BlockArms : Yields(q[1]) = Yields(q[2]) /\ q[2][2] = ""}}

MCSimple ==
  {Eat("a"), Eat("b"), <<"do", <<"read", "a">>>>,
   <<"let", "b", Id("a")>>, <<"let", "b", <<"new">>>>, <<"let", "c", <<"pass", Id("b")>>>>}

\* One of these in a body, between simple statements.
MCCompound ==
  {<<"if", c, s, t>> : c \in {<<"plain">>, <<"eat", Id("a")>>}, s \in Short, t \in Short}
  \cup {<<"if", c, s, <<>>>> : c \in {<<"plain">>, <<"eat", Id("a")>>}, s \in Long}
  \cup {<<"while", c, s>> : c \in {<<"plain">>, <<"read", "a">>}
                                   \cup IF ConditionsMove THEN {<<"eat", Id("a")>>} ELSE {},
                            s \in LoopBlocks}
  \cup {<<"for", "x", <<"plain">>, s>> : s \in LoopBlocks}
  \cup {<<"for", x, e, s>> : x \in {"x", "b"}, e \in Scrutinees, s \in Short}
  \cup {<<"let", "c", <<"or", <<"try", v>>, s>>>> : v \in {Id("a"), <<"new">>}, s \in Blocks}
  \cup {<<"let", "c", m>> : m \in Matches}
  \cup {<<"mut", "b", <<"new">>>>, <<"let", "c", <<"pair", Id("a"), Id("b")>>>>,
        <<"let", "b", <<"else", <<"try", <<"new">>>>, Id("a")>>>>, <<"let", "c", <<"field", "a">>>>}
  \cup {<<"let", "c", <<"orret", <<"try", v>>, f>>>> :
          v \in {Id("a"), Id("b"), <<"new">>}, f \in {<<"plain">>, <<"read", "a">>, <<"eat", Id("a")>>}}
  \cup {<<"do", <<"both", e, f>>>> : e \in Scrutinees, f \in Scrutinees}
  \cup {<<"if", <<"plain">>, <<<<"mut", "x", <<"plain">>>>, <<"do", <<"assign", "x", e>>>>>>, <<>>>> :
          e \in Scrutinees}

-----------------------------------------------------------------------------

suiteVars == <<part, vars, bodyVars>>

\* No program: the machine is at rest.
NoProgram ==
    /\ main = CHOOSE p \in DOMAIN Programs : TRUE
    /\ code = <<>>
    /\ frames = <<>>
    /\ out = <<>>
    /\ steps = MaxSteps
    /\ end = "budget"
    /\ result = Unit

SuiteInit ==
    /\ BodyInit
    /\ \/ part = "mir" /\ Init
       \/ part = "affine" /\ NoProgram

MirPart == part = "mir" /\ Next /\ UNCHANGED <<part, bodyVars>>

\* A program that has ended and a body that has reached its bound stay.
AffinePart == part = "affine" /\ Edit /\ UNCHANGED <<part, vars>>

SuiteNext == MirPart \/ AffinePart

\* The executor's loop keeps taking steps; nothing obliges anyone to edit.
SuiteSpec == SuiteInit /\ [][SuiteNext]_suiteVars /\ WF_suiteVars(MirPart)

=============================================================================
