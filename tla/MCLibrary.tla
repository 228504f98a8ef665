----------------------------- MODULE MCLibrary ------------------------------
EXTENDS LuaLibrary

Ints == {IntN(n) : n \in LUA_MININTEGER..LUA_MAXINTEGER}
Floats == {Flt(Round(h)) : h \in -(2 ^ (W + 1))..2 ^ (W + 1)} \union {Flt(HUGE_VAL), Flt(-HUGE_VAL), NaN}
Calc(op, x, y, z) == [op |-> op, x |-> x, y |-> y, z |-> z]
MCSums ==
  LET ops == {"add", "sub", "mul", "mod", "idiv", "shl", "shr"}
      some == {IntN(7), Flt(3), Flt(4), Flt(-8), Flt(HUGE_VAL), NaN}
      starts == {IntN(n) : n \in {-8, -7, -1, 0, 3, 6, 7}}
      steps == {IntN(n) : n \in {-8, -3, -1, 0, 1, 2, 7}}
  IN {Calc(op, x, y, NaN) : op \in {"lt", "le", "eq"}, x \in Ints \union Floats, y \in Ints \union Floats}
     \union {Calc(op, x, y, NaN) : op \in ops, x \in Ints, y \in Ints}
     \union {Calc(op, x, y, NaN) : op \in {"add", "sub", "shl", "shr"}, x \in some, y \in some}
     \union {Calc("for", x, y, z) : x \in starts, y \in Ints \union Floats, z \in steps}
     \union {Calc("for", x, y, z) : x \in {IntN(0), Flt(2)}, y \in some, z \in {Flt(2), Flt(1), Flt(-2)}}

Sort(ks, v) == [keys |-> ks, valid |-> v]
MCSorts ==
  {Sort(ks, TRUE) : ks \in UNION {[1..n -> 1..3] : n \in 0..5}
                     \union {<<3, 1, 4, 1, 5, 9, 2, 6>>, <<8, 7, 6, 5, 4, 3, 2, 1>>, [n \in 1..8 |-> n]}}
  \union {Sort([k \in 1..n |-> k], FALSE) : n \in 1..6}

TCall(fn, f, e, t, same, len) == [fn |-> fn, f |-> f, e |-> e, t |-> t, same |-> same, len |-> len]
MCTabCalls ==
  LET args == {n \in Index : n \in {-8, -7, -2, 0, 1, 2, 3, 4, 6, 7}}
      opt == args \union {NoArg}
  IN {TCall("move", f, e, t, same, 0) : f \in args, e \in args, t \in args, same \in BOOLEAN}
     \union {TCall(fn, f, NoArg, 0, TRUE, len) : fn \in {"insert", "remove"}, f \in opt, len \in args}
     \union {TCall(fn, f, e, 0, TRUE, 2) : fn \in {"concat", "unpack"}, f \in opt, e \in opt}
     \union {TCall("pack", 0, 0, 0, TRUE, n) : n \in 0..3}

Proto(source, k, ups, ps, lines, locvars) ==
  [source |-> source, lines |-> <<0, 9>>, header |-> <<0, 1, 2>>, code |-> <<"GETTABUP", "RETURN">>, k |-> k,
   upvalues |-> ups, p |-> ps, lineinfo |-> lines, locvars |-> locvars]
Up(n, name) == [instack |-> 1, idx |-> n, name |-> name]
Local(name) == [name |-> name, range |-> <<1, 2>>]
Inner(source) == Proto(source, <<<<"integer", 7>>, <<"string", <<"a", "b", "c">>>>>>, <<Up(0, <<"b">>)>>, <<>>, <<4, 5>>, <<Local(<<"a">>)>>)
Main == Proto(<<"@", "f">>, <<<<"nil">>, <<"boolean", 1>>, <<"number", "1.5">>, <<"string", <<>>>>, <<"string", <<"a">>>>>>,
  <<Up(0, <<"E", "N">>)>>, <<Inner(<<"@", "f">>)>>, <<1>>, <<>>)
Nested == Proto(<<"@", "f">>, <<>>, <<>>, <<[Main EXCEPT !.k = <<>>], Inner(<<"=", "g">>)>>, <<>>, <<>>)
Dump(f, strip, mode, reader) == [f |-> f, strip |-> strip, mode |-> mode, reader |-> reader]
MCDumps == {Dump(f, strip, "bt", "buffer") : f \in {Main, Inner(<<"@", "f">>), Nested}, strip \in BOOLEAN}
  \union {Dump(f, FALSE, mode, "function") : f \in {Main, Inner(<<"@", "f">>)}, mode \in {"b", "t"}}
FunctionDumps == {d \in MCDumps : d.reader = "function"}

MCChars == <<"%", "0", "1", "2", "a", "b", "c">>
One(chars, set, suffix) == Item("one", chars, set, suffix, 0)
All == {"%", "0", "1", "2", "a", "b", "c"}
MCItems == {One(<<"a">>, {"a"}, ""), One(<<"b">>, {"b"}, ""), One(<<"a", "*">>, {"a"}, "*"), One(<<".", "-">>, All, "-"),
  One(<<"b", "?">>, {"b"}, "?"), One(<<"[", "^", "b", "]", "+">>, All \ {"b"}, "+"),
  Item("open", <<"(">>, {}, "", 0), Item("close", <<")">>, {}, "", 0), Item("pos", <<"(", ")">>, {}, "", 0),
  Item("back", <<"%", "1">>, {}, "", 1), Item("bal", <<"%", "b", "a", "b">>, <<"a", "b">>, "", 0),
  Item("front", <<"%", "f", "[", "a", "-", "b", "]">>, {"a", "b"}, "", 0)}
Finals == {Item("end", <<"$">>, {}, "", 0), Item("bad", <<"[", "a">>, {}, "", 0), Item("bad", <<"%">>, {}, "", 0),
           Item("bad", <<"%", "b", "a">>, {}, "", 0), Item("bad", <<"%", "f", "a">>, {}, "", 0),
           Item("bad", <<"%", "f", "[", "a">>, {}, "", 0)}
Classes == {One(<<"%", "a">>, Letters, ""), One(<<"%", "D", "*">>, All \ Digits, "*"),
            One(<<"[", "%", "d", "a", "-", "b", "]", "+">>, Digits \union {"a", "b"}, "+")}
It(c) == CHOOSE x \in MCItems : x.text = <<c>>
Upto(n) == {it \in UNION {[1..k -> MCItems] : k \in 0..n} : \A m \in 1..Len(it) - 1 : ~(it[m].k = "open" /\ it[m+1].k = "close")}
Subs == {<<>>, <<"a","a","b">>, <<"a","b","a","b">>, <<"b","a","a","c">>}
Repls == {NilRepl, <<"%", "0">>, <<"%", "1">>, <<"c">>, <<"%", "%">>, <<"%", "b">>}
MCCalls ==
  LET small == Upto(2)
      wrapped == {<<It("(")>> \o it \o <<It(")")>> : it \in {x \in small : x /= <<>> /\ x[1].k /= "close" /\ Last(x).k /= "open"}}
      ended == {Append(it, x) : it \in Upto(1), x \in Finals}
      two == {<<"a","a","b">>, <<"b","a","a","c">>}
      matches == {Job("match", subj, it, FALSE, 1, NilRepl, 0) : subj \in Subs, it \in Upto(3) \union wrapped \union ended}
      finds == {Job("find", subj, it, anch, init, NilRepl, 0) : subj \in two, it \in Upto(1), anch \in BOOLEAN, init \in {1, 3, -2, 5}}
      gmatches == {Job("gmatch", subj, it, FALSE, 1, NilRepl, 0) : subj \in Subs, it \in small \union ended}
      gsubs == {Job("gsub", subj, it, FALSE, 1, NilRepl, 5) : subj \in two, it \in small \union ended}
      texts == {Job("gsub", subj, it, anch, 1, r, n) : subj \in two, it \in Upto(1) \union {<<It("("), It("a"), It(")")>>}, anch \in BOOLEAN, r \in Repls, n \in {1, 5}}
      classes == {Job("gmatch", <<"1", "a", "2", "c">>, it, FALSE, 1, NilRepl, 0) :
                    it \in UNION {[1..k -> Classes] : k \in 1..2}}
      undone == {<<It("("), x, It(")"), y>> : x \in {it \in MCItems : it.suffix # ""}, y \in {it \in MCItems : it.k = "one"}}
      undos == {Job("match", subj, it, FALSE, 1, NilRepl, 0) : subj \in Subs, it \in undone}
  IN undos \union classes \union matches \union finds \union gmatches \union gsubs \union texts

(* Contents of strings: a and the fixed one share a chain in all small     *)
(* tables, b and c in the first.                                           *)
MCHash == [n \in {"mem", "a", "b", "c", "d"} |->
             CASE n = "mem" -> 0 [] n = "a" -> 8 [] n = "b" -> 1 [] n = "c" -> 5 [] n = "d" -> 3]
MCPieces == {<<"a">>, <<"b", "c">>}
MCObjects == {<<"object", n>> : n \in 1..3}
=============================================================================
