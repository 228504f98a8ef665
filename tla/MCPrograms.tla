----------------------------- MODULE MCPrograms -----------------------------
(***************************************************************************)
(* Programs to compile and run: chosen to put the code generator in the    *)
(* situations it treats apart, and all small boolean expressions in all    *)
(* the places of an expression, for several values of two locals.          *)
(***************************************************************************)
EXTENDS LuaVM

C(v)     == [k |-> "const", v |-> v]
N(n)     == C(IntV(n))
S(s)     == C(StrV(s))
Nil      == C(NilV)
True     == C(BoolV(TRUE))
False    == C(BoolV(FALSE))
Var(x)   == [k |-> "var", name |-> x]
a == Var("a")  b == Var("b")  c == Var("c")  f == Var("f")  i == Var("i")  t == Var("t")  x == Var("x")
Dots     == [k |-> "vararg"]
Paren(e) == [k |-> "paren", e |-> e]
Un(op, e)     == [k |-> "un", op |-> op, e |-> e]
Bin(l, op, r) == [k |-> "bin", op |-> op, l |-> l, r |-> r]
Ix(o, key)    == [k |-> "index", o |-> o, key |-> key]
Dot(o, name)  == Ix(o, S(name))
CallE(g, args)        == [k |-> "call", o |-> g, args |-> args]
Method(o, name, args) == [k |-> "method", o |-> o, name |-> name, args |-> args]
Fn(params, stats)     == [k |-> "function", params |-> params, vararg |-> FALSE, body |-> stats]
VFn(params, stats)    == [k |-> "function", params |-> params, vararg |-> TRUE, body |-> stats]
Item(e)      == [key |-> <<>>, v |-> e]
Keyed(key, e) == [key |-> <<key>>, v |-> e]
Tab(items)   == [k |-> "table", items |-> items]
List(es)     == Tab([j \in DOMAIN es |-> Item(es[j])])

Local(names, exps) == [k |-> "local", names |-> names, exps |-> exps]
Let(name, e)       == Local(<<name>>, <<e>>)
LocalFn(name, g)   == [k |-> "localfunc", name |-> name, f |-> g]
FnStat(var, g)     == [k |-> "funcstat", var |-> var, f |-> g]
Sets(vs, exps)     == [k |-> "assign", vars |-> vs, exps |-> exps]
Set(v, e)          == Sets(<<v>>, <<e>>)
Do(stats)          == [k |-> "do", body |-> stats]
WhileS(e, stats)   == [k |-> "while", c |-> e, body |-> stats]
RepeatS(stats, e)  == [k |-> "repeat", c |-> e, body |-> stats]
For(n, lo, hi, stats)        == [k |-> "fornum", name |-> n, a |-> lo, b |-> hi, step |-> <<>>, body |-> stats]
ForStep(n, lo, hi, st, stats) == [k |-> "fornum", name |-> n, a |-> lo, b |-> hi, step |-> <<st>>, body |-> stats]
ForIn(names, exps, stats)    == [k |-> "forlist", names |-> names, exps |-> exps, body |-> stats]
Clause(e, stats)   == [c |-> e, body |-> stats]
IfS(e, stats)      == [k |-> "if", clauses |-> <<Clause(e, stats)>>, orelse |-> <<>>]
IfElse(e, s1, s2)  == [k |-> "if", clauses |-> <<Clause(e, s1)>>, orelse |-> <<s2>>]
Ifs(clauses, s2)   == [k |-> "if", clauses |-> clauses, orelse |-> <<s2>>]
Return(es)         == [k |-> "return", exps |-> es]
Do1(e)             == [k |-> "callstat", e |-> e]
Emit(es)           == Do1(CallE(Var("emit"), es))
Goto(l)            == [k |-> "goto", name |-> l]
Break              == [k |-> "break", name |-> "break"]
Label(l)           == [k |-> "label", name |-> l]

Inc(v) == Set(v, Bin(v, "ADD", N(1)))

-----------------------------------------------------------------------------
(* Closures and the scopes they outlive.                                   *)
Counter == Fn(<<>>, <<Inc(x), Return(<<x>>)>>)
CallTwice == << Emit(<<CallE(Ix(t, N(1)), <<>>), CallE(Ix(t, N(1)), <<>>)>>),
                Emit(<<CallE(Ix(t, N(2)), <<>>)>>) >>

Closures == <<
  << Let("t", Tab(<<>>)),                                        \* one variable per iteration
     For("i", N(1), N(2), << Let("x", i), Set(Ix(t, i), Counter) >>) >> \o CallTwice,
  << Let("t", Tab(<<>>)), Let("i", N(0)),                        \* break and repeat-until out of a scope
     WhileS(True, << Inc(i), Let("x", i), Set(Ix(t, i), Counter), IfS(Bin(i, "EQ", N(2)), <<Break>>) >>)
  >> \o CallTwice,
  << Let("t", Tab(<<>>)), Let("i", N(0)),
     RepeatS(<< Inc(i), Let("x", i), Set(Ix(t, i), Counter) >>, Bin(x, "GE", N(2))) >> \o CallTwice,
  << Let("t", Tab(<<>>)), Let("i", N(0)),                        \* a goto backwards out of a scope
     Label("top"), Do(<< Inc(i), Let("x", i), Set(Ix(t, i), Counter),
                         IfS(Bin(i, "LT", N(2)), <<Goto("top")>>) >>) >> \o CallTwice,
  << Let("t", Tab(<<>>)), Let("i", N(0)),                        \* the same in one block
     Label("top"), Inc(i), Let("x", i), Set(Ix(t, i), Counter),
     IfS(Bin(i, "LT", N(2)), <<Goto("top")>>) >> \o CallTwice,
  << Let("t", Tab(<<>>)),                                        \* 'continue'
     For("i", N(1), N(2), << Let("x", i), IfS(Bin(i, "EQ", N(3)), <<Goto("cont")>>),
                             Set(Ix(t, i), Counter), Label("cont") >>) >> \o CallTwice,
  << Local(<<"f", "c">>, <<>>),                                  \* two closures share a variable
     Do(<< Let("x", N(1)), Set(f, Counter), Set(c, Fn(<<>>, <<Return(<<x>>)>>)) >>),
     Do1(CallE(f, <<>>)), Emit(<<CallE(c, <<>>)>>) >>,
  << LocalFn("h", Fn(<<"c", "x">>, <<Return(<<CallE(c, <<>>), x>>)>>)),    \* a tail call closes
     LocalFn("g", Fn(<<"x">>, << Let("c", Counter), Return(<<CallE(Var("h"), <<c, N(7)>>)>>) >>)),
     Emit(<<CallE(Var("g"), <<N(4)>>)>>) >>,
  << Let("t", Tab(<<>>)), Let("x", N(5)),                        \* an upvalue of an upvalue; a cached closure
     LocalFn("g", Fn(<<"n">>, << Return(<<Fn(<<>>, << Set(x, Bin(x, "ADD", Var("n"))), Return(<<x>>) >>)>>) >>)),
     Set(Ix(t, N(1)), CallE(Var("g"), <<N(1)>>)), Set(Ix(t, N(2)), CallE(Var("g"), <<N(10)>>)) >> \o CallTwice,
  << Let("t", Tab(<<>>)),
     For("i", N(1), N(2), << Set(Ix(t, i), Fn(<<>>, <<Return(<<N(3)>>)>>)) >>) >> \o CallTwice,
  << Let("t", Tab(<<>>)), Let("x", N(0)),                        \* the same upvalue: the same closure
     For("i", N(1), N(2), << Set(Ix(t, i), Counter) >>) >> \o CallTwice,
  << LocalFn("f", Fn(<<"n">>, << IfElse(Bin(Var("n"), "EQ", N(0)), <<Return(<<N(0)>>)>>,
                                 <<Return(<<Bin(Var("n"), "ADD", CallE(f, <<Bin(Var("n"), "SUB", N(1))>>))>>)>>) >>)),
     LocalFn("g", Fn(<<"n">>, << IfS(Bin(Var("n"), "LE", N(0)), <<Return(<<S("end")>>)>>),
                                 Return(<<CallE(Var("g"), <<Bin(Var("n"), "SUB", N(1))>>)>>) >>)),
     Return(<<CallE(f, <<N(3)>>), CallE(Var("g"), <<N(3)>>)>>) >>,
  << Let("x", N(1)),                                             \* parameters of a vararg function as upvalues
     LocalFn("g", VFn(<<"x">>, << Let("h", Counter), Do1(CallE(Var("h"), <<>>)), Return(<<x, Dots>>) >>)),
     Return(<<CallE(Var("g"), <<N(1), N(8), N(9)>>)>>) >>
>>

(* Lists of values, assignments and constructors.                          *)
Two == LocalFn("f", VFn(<<>>, <<Return(<<N(1), N(2), Dots>>)>>))
Lists == <<
  << Two, Emit(<<CallE(f, <<>>), CallE(f, <<>>)>>), Emit(<<Paren(CallE(f, <<>>))>>),
     Local(<<"a", "b", "c">>, <<N(9), CallE(f, <<>>)>>), Emit(<<a, b, c>>),
     Local(<<"a", "b", "c">>, <<CallE(f, <<>>), N(9)>>), Emit(<<a, b, c>>),
     Local(<<"a">>, <<N(5), CallE(f, <<>>), N(6)>>), Emit(<<a>>),
     Local(<<"a", "b", "c">>, <<N(7)>>), Emit(<<a, b, c>>) >>,
  << Two, Let("t", List(<<N(5), CallE(f, <<>>), CallE(f, <<Dots>>)>>)),          \* flushes, then an open list
     Emit(<<Un("LEN", t), Ix(t, N(2)), Ix(t, N(3)), Ix(t, N(4)), Ix(t, N(5))>>),
     Set(t, List(<<N(1), N(2), N(3), N(4), N(5)>>)), Emit(<<Un("LEN", t), Ix(t, N(5))>>),
     Set(t, Tab(<<Item(N(1)), Keyed(S("x"), N(2)), Item(N(3)), Keyed(N(9), Dots), Item(CallE(f, <<>>))>>)),
     Emit(<<Un("LEN", t), Dot(t, "x"), Ix(t, N(9)), Ix(t, N(4))>>) >>,
  << Local(<<"a", "i">>, <<List(<<N(1), N(2), N(3)>>), N(1)>>),                   \* i, a[i] = i+1, 20
     Sets(<<i, Ix(a, i)>>, <<Bin(i, "ADD", N(1)), N(20)>>), Emit(<<i, Ix(a, N(1)), Ix(a, N(2))>>),
     Sets(<<Ix(a, i), i>>, <<N(30), N(7)>>), Emit(<<i, Ix(a, N(2))>>),
     Let("t", a), Sets(<<Dot(a, "x"), a>>, <<N(4), N(6)>>), Emit(<<a, Dot(t, "x")>>),
     LocalFn("f", Fn(<<>>, << Let("c", t), Sets(<<Dot(t, "x"), t>>, <<N(5), N(0)>>), Emit(<<Dot(c, "x"), t>>) >>)),
     Do1(CallE(f, <<>>)), Sets(<<a, b, c>>, <<N(1), Dots>>), Emit(<<a, b, c>>),
     Sets(<<a, b>>, <<b, a>>), Emit(<<a, b>>) >>,
  << LocalFn("f", VFn(<<"a">>, << Local(<<"b", "c">>, <<Dots>>), Emit(<<a, b, c, Dots>>), Return(<<Dots>>) >>)),
     Emit(<<CallE(f, <<>>)>>), Emit(<<CallE(f, <<N(1)>>)>>), Emit(<<CallE(f, <<N(1), Dots>>), N(3)>>),
     Return(<<CallE(f, <<N(1), N(2), N(3)>>)>>) >>,
  << Let("t", Tab(<<Keyed(S("x"), N(3))>>)),                                     \* methods; more constants than fit
     FnStat(Dot(t, "get"), Fn(<<"self", "n">>, <<Return(<<Bin(Dot(Var("self"), "x"), "ADD", Var("n"))>>)>>)),
     Emit(<<Method(t, "get", <<N(4)>>), N(10), N(11), N(12)>>),
     Set(Dot(t, "y"), N(13)), Set(Dot(t, "y"), Bin(Dot(t, "y"), "ADD", N(14))), Emit(<<Dot(t, "y"), Bin(N(15), "LT", Dot(t, "y"))>>),
     Return(<<Method(t, "get", <<N(1)>>)>>) >>,
  << Let("a", S("x")), Emit(<<Bin(a, "CONCAT", Bin(S("y"), "CONCAT", Bin(N(1), "CONCAT", a)))>>),
     Emit(<<Bin(Paren(Bin(a, "CONCAT", S("z"))), "CONCAT", Bin(a, "CONCAT", a)), Un("LEN", a)>>),
     Emit(<<Bin(Bin(N(7), "IDIV", N(2)), "SUB", Un("UNM", N(3))), Un("UNM", Un("LEN", a))>>),
     Set(Var("g"), N(2)), Emit(<<Var("g"), Var("nothing")>>) >>,
  << Let("f", Fn(<<"n", "j">>, << IfS(Bin(Var("j"), "LT", Var("n")), <<Return(<<Bin(Var("j"), "ADD", N(1)), N(8)>>)>>) >>)),
     ForIn(<<"i", "x">>, <<f, N(2), N(0)>>, << Emit(<<i, x>>) >>),
     ForIn(<<"i">>, <<Var("next"), N(3), N(0)>>, << IfS(Bin(i, "EQ", N(2)), <<Break>>), Emit(<<i>>) >>),
     ForStep("i", N(3), N(1), N(-1), << Emit(<<i>>) >>), For("i", N(2), N(1), << Emit(<<i>>) >>),
     ForStep("i", N(1), N(4), N(2), << Inc(i), Emit(<<i>>) >>) >>,
  << Let("_ENV", Tab(<<Keyed(S("emit"), Var("emit")), Keyed(S("y"), N(6))>>)),     \* _ENV is a local
     LocalFn("f", Fn(<<>>, << Inc(Var("y")), Return(<<Var("y")>>) >>)), Emit(<<CallE(f, <<>>), Var("next")>>) >>,
  << Emit(<<N(1)>>), Let("a", Bin(N(1), "IDIV", N(0))), Emit(<<a>>) >>,               \* errors
  << Emit(<<N(1)>>), Do1(CallE(Var("nothing"), <<>>)) >>,
  << Let("a", Nil), Emit(<<N(1)>>), Set(Dot(a, "x"), N(1)) >>,
  << Let("a", Nil), Return(<<CallE(Fn(<<"x">>, <<Return(<<Bin(x, "LT", N(1))>>)>>), <<a>>)>>) >>,
  << For("i", N(1), Nil, << Emit(<<i>>) >>) >>,
  << Local(<<"a", "b">>, <<N(1)>>), Local(<<"x">>, <<>>), Do(<< Local(<<"c">>, <<>>), Emit(<<a, b, c, x>>) >>), Emit(<<a>>) >>
>>

(* Gotos: legal and not.                                                   *)
Gotos == <<
  << Goto("l"), Emit(<<N(1)>>), Label("l"), Emit(<<N(2)>>) >>,
  << Goto("l"), Let("a", N(1)), Label("l"), Emit(<<N(2)>>) >>,
  << Goto("l"), Let("a", N(1)), Label("l") >>,
  << Goto("l"), Let("a", N(1)), Label("l"), Label("m") >>,
  << Do(<< Goto("l") >>), Let("a", N(1)), Label("l"), Emit(<<a>>) >>,
  << RepeatS(<< IfS(Bin(N(1), "EQ", N(1)), <<Goto("l")>>), Let("a", N(1)), Label("l") >>, True) >>,
  << RepeatS(<< IfS(Bin(N(1), "EQ", N(1)), <<Goto("l")>>), Emit(<<N(3)>>), Label("l") >>, True) >>,
  << Break >>, << Goto("l"), Do(<<Label("l")>>) >>, << Label("l"), Label("l") >>,
  << Label("l"), Do(<< Label("l"), Emit(<<N(1)>>) >>) >>,
  << WhileS(True, << LocalFn("f", Fn(<<>>, <<Break>>)), Break >>) >>,
  << Let("a", N(0)), Label("l"), Do(<< Inc(a), IfS(Bin(a, "LT", N(3)), << Goto("l"), Label("m") >>), Goto("e"), Label("l") >>),
     Emit(<<S("no")>>), Label("e"), Emit(<<a>>) >>,
  << Let("a", N(1)), IfS(Bin(a, "EQ", N(1)), <<Goto("l"), Label("k")>>), Emit(<<N(0)>>), Label("l"), Emit(<<a>>) >>,
  << Let("a", N(0)), WhileS(Bin(a, "LT", N(4)), << Inc(a), IfS(Bin(a, "EQ", N(2)), <<Goto("cont")>>), Emit(<<a>>),
                                                 IfElse(Bin(a, "EQ", N(3)), <<Break>>, <<Emit(<<S("x")>>)>>), Label("cont") >>),
     Ifs(<<Clause(Bin(a, "EQ", N(0)), <<Emit(<<N(0)>>)>>), Clause(Bin(a, "EQ", N(3)), <<Emit(<<N(33)>>)>>)>>, <<Emit(<<N(5)>>)>>) >>,
  << For("i", N(1), N(2), << For("x", N(1), N(2), << Let("a", Fn(<<>>, <<Return(<<Bin(i, "ADD", x)>>)>>)),
       IfS(Bin(x, "EQ", N(2)), <<Goto("out")>>), Emit(<<CallE(a, <<>>)>>) >>), Label("out") >>) >>
>>

-----------------------------------------------------------------------------
(* Boolean expressions in the places of a value, an argument, a condition  *)
(* and a loop, with 'a' and 'b' given by the arguments.                    *)
Small == {a, Nil, N(1), Un("NOT", b), Bin(a, "AND", b), Bin(b, "OR", N(2)), Bin(a, "EQ", b)}
Medium == {Bin(l, op, r) : l \in Small, op \in {"AND", "OR", "EQ"}, r \in Small}
Expressions == Medium \cup {Un("NOT", e) : e \in Medium}
Places(e) == << Local(<<"a", "b">>, <<Dots>>), Let("x", e), IfElse(e, <<Emit(<<x, e>>)>>, <<Emit(<<e, x>>)>>),
                Let("f", Fn(<<>>, <<RepeatS(<<Set(a, N(5))>>, Bin(e, "OR", True)), Return(<<e>>)>>)),
                WhileS(e, <<Set(x, e), Break>>), Return(<<x, CallE(f, <<>>)>>) >>
Inputs == {<<NilV, IntV(1)>>, <<IntV(1), BoolV(FALSE)>>, <<IntV(1), IntV(1)>>}
MCJobs ==
  LET fixed == {Job(p, <<IntV(20), NilV>>) : p \in ToSet(Closures) \cup ToSet(Lists) \cup ToSet(Gotos)}
      booleans == {Job(Places(e), vs) : e \in Expressions, vs \in Inputs}
  IN fixed \cup booleans
=============================================================================
