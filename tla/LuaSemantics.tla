---------------------------- MODULE LuaSemantics ----------------------------
(***************************************************************************)
(* What a program means: an evaluator of syntax trees that knows nothing   *)
(* of registers, instructions, jump lists or shared upvalues, to compare   *)
(* the compiler and the virtual machine with.  Every 'local' makes a new   *)
(* cell; a closure keeps the cells of its environment; a goto unwinds to   *)
(* the block of its label.  Its first section, the values and what can be  *)
(* done with them, is what it shares with the machine.                     *)
(***************************************************************************)
EXTENDS LuaParser

EmptyTable == <<>>
Lookup(ts, t, k) == IF k \in DOMAIN ts[t[2]] THEN ts[t[2]][k] ELSE NilV
Store(ts, t, k, v) ==
  [ts EXCEPT ![t[2]] = IF v = NilV THEN [j \in DOMAIN @ \ {k} |-> @[j]] ELSE (k :> v) @@ @]

IsString(v)      == TypeOf(v) \in {"string", "integer"}
AsString(v)      == IF TypeOf(v) = "integer" THEN ToString(v[2]) ELSE v[2]
Concat(v, w)     == StrV(AsString(v) \o AsString(w))
HasLength(v)     == TypeOf(v) \in {"table", "string"}
Length(ts, v) ==
  IntV(IF TypeOf(v) = "string" THEN Len(v[2])
       ELSE CHOOSE n \in 0..Cardinality(DOMAIN ts[v[2]]) :
              Lookup(ts, v, IntV(n + 1)) = NilV /\ \A j \in 1..n : Lookup(ts, v, IntV(j)) /= NilV)
CanCompare(v, w) == TypeOf(v) = "integer" /\ TypeOf(w) = "integer"
CanArith(op, v, w) == CanCompare(v, w) /\ (op = "IDIV" => w[2] /= 0)

IsClosure(v) == TypeOf(v) = "function"
IsBuiltin(v) == TypeOf(v) = "builtin"
Builtin(f, args) ==
  CASE f = "emit" -> args
    [] f = "next" -> IF args[2][2] < args[1][2] THEN <<IntV(args[2][2] + 1)>> ELSE <<NilV>>
Globals == (StrV("emit") :> Val("builtin", "emit")) @@ (StrV("next") :> Val("builtin", "next"))

-----------------------------------------------------------------------------
(* Which gotos are legal.  Free: the labels that a block jumps to and does *)
(* not declare; Legal: no jump into the scope of a local, no label twice.  *)

Labels(stats)   == {i \in DOMAIN stats : stats[i].k = "label"}
Declares(x)     == x.k \in {"local", "localfunc"}
BlocksOf(x) ==
  CASE x.k = "if" -> [i \in DOMAIN x.clauses |-> x.clauses[i].body] \o x.orelse
    [] x.k \in {"do", "while", "repeat", "fornum", "forlist"} -> <<x.body>>
    [] OTHER -> <<>>
IsLoop(x) == x.k \in {"while", "repeat", "fornum", "forlist"}

RECURSIVE Free(_)
JumpsOf(x) ==
  IF x.k \in {"goto", "break"} THEN {x.name}
  ELSE (UNION {Free(BlocksOf(x)[i]) : i \in DOMAIN BlocksOf(x)}) \ (IF IsLoop(x) THEN {"break"} ELSE {})
Free(stats) ==
  (UNION {JumpsOf(stats[i]) : i \in DOMAIN stats}) \ {stats[i].name : i \in Labels(stats)}

RECURSIVE Legal(_, _)
Legal(stats, until) ==
  /\ \A i, j \in Labels(stats) : stats[i].name = stats[j].name => i = j
  /\ \A i \in DOMAIN stats, j \in Labels(stats) :
       i < j /\ stats[j].name \in JumpsOf(stats[i]) =>
         \/ \A m \in i + 1 .. j : ~Declares(stats[m])
         \/ ~until /\ \A m \in j..Len(stats) : stats[m].k = "label"
  /\ \A i \in DOMAIN stats :
       LET x == stats[i]
           bs == BlocksOf(x)
       IN /\ \A b \in DOMAIN bs : Legal(bs[b], x.k = "repeat")
          /\ x.k \in {"localfunc", "funcstat"} => Legal(x.f.body, FALSE) /\ Free(x.f.body) = {}
          /\ x.k \in {"local", "assign", "return"} =>
               \A e \in DOMAIN x.exps :
                 x.exps[e].k = "function" => Legal(x.exps[e].body, FALSE) /\ Free(x.exps[e].body) = {}

-----------------------------------------------------------------------------
(* Expressions.  A state s has the cells of variables, the tables, the     *)
(* functions, the output, and whether there was an error.                  *)

V(s, vs)  == [s |-> s, vs |-> vs]
Err(s)    == V([s EXCEPT !.err = TRUE], <<NilV>>)
One(r)    == IF r.vs = <<>> THEN NilV ELSE r.vs[1]
Adjusted(vs, n) == [i \in 1..n |-> IF i <= Len(vs) THEN vs[i] ELSE NilV]
Check(s, holds, v) == IF holds THEN V(s, <<v>>) ELSE Err(s)

Bind(s, env, names, vs) ==
  LET n == Len(s.cells)
      slot(x) == Max({i \in DOMAIN names : names[i] = x})
  IN [s |-> [s EXCEPT !.cells = @ \o Adjusted(vs, Len(names))],
      env |-> [env EXCEPT !.v = [x \in ToSet(names) |-> n + slot(x)] @@ @]]

Index(s, o, k) == IF TypeOf(o) = "table" THEN V(s, <<Lookup(s.tables, o, k)>>) ELSE Err(s)

Closed(s, env, f) ==
  V([s EXCEPT !.funs = Append(@, [f |-> f, env |-> env])], <<Val("function", Len(s.funs) + 1)>>)

RECURSIVE Eval(_, _, _), EvalAll(_, _, _), Run(_, _, _, _, _)

Call(s, fv, args) ==
  LET c == s.funs[fv[2]]
      b == Bind(s, c.env, c.f.params, args)
      n == Len(c.f.params)
      r == Run(b.s, [b.env EXCEPT !.va = IF c.f.vararg THEN SubSeq(args, n + 1, Len(args)) ELSE <<>>],
               c.f.body, 1, <<>>)
  IN CASE s.err -> Err(s)
       [] ~s.err /\ IsBuiltin(fv) ->
            V([s EXCEPT !.out = IF fv[2] = "emit" THEN Append(@, args) ELSE @], Builtin(fv[2], args))
       [] ~s.err /\ IsClosure(fv) -> V(r.s, r.vs)
       [] OTHER -> Err(s)

Binary(s, env, x) ==
  LET a == Eval(s, env, x.l)
      b == Eval(a.s, env, x.r)
      v == One(a)
      w == One(b)
  IN CASE x.op = "AND" -> IF IsFalse(v) \/ a.s.err THEN V(a.s, <<v>>) ELSE V(b.s, <<w>>)
       [] x.op = "OR" -> IF ~IsFalse(v) \/ a.s.err THEN V(a.s, <<v>>) ELSE V(b.s, <<w>>)
       [] x.op = "EQ" -> V(b.s, <<BoolV(v = w)>>)
       [] x.op = "NE" -> V(b.s, <<BoolV(v /= w)>>)
       [] x.op = "LT" -> Check(b.s, CanCompare(v, w), BoolV(v[2] < w[2]))
       [] x.op = "LE" -> Check(b.s, CanCompare(v, w), BoolV(v[2] <= w[2]))
       [] x.op = "GT" -> Check(b.s, CanCompare(v, w), BoolV(v[2] > w[2]))
       [] x.op = "GE" -> Check(b.s, CanCompare(v, w), BoolV(v[2] >= w[2]))
       [] x.op = "CONCAT" -> Check(b.s, IsString(v) /\ IsString(w), Concat(v, w))
       [] OTHER -> Check(b.s, CanArith(x.op, v, w), IntV(Arith(x.op, v[2], w[2])))

Unary(s, env, x) ==
  LET a == Eval(s, env, x.e)
      v == One(a)
  IN CASE x.op = "NOT" -> V(a.s, <<BoolV(IsFalse(v))>>)
       [] x.op = "UNM" -> Check(a.s, TypeOf(v) = "integer", IntV(-v[2]))
       [] x.op = "LEN" -> Check(a.s, HasLength(v), Length(a.s.tables, v))

(* Items without a key count from 1; the last one gives all its values.    *)
Constructed(s, env, items) ==
  LET t == Val("table", Len(s.tables) + 1)
      item(st, i) ==
        LET x == items[i]
            k == Eval(st.s, env, x.key[1])
            r == Eval(IF x.key = <<>> THEN st.s ELSE k.s, env, x.v)
            vs == IF i = Len(items) THEN r.vs ELSE <<One(r)>>
            put(ts, j) == Store(ts, t, IntV(st.n + j), vs[j])
        IN IF x.key /= <<>>
           THEN [st EXCEPT !.s = [r.s EXCEPT !.tables = Store(@, t, One(k), One(r))]]
           ELSE [n |-> st.n + Len(vs),
                 s |-> [r.s EXCEPT !.tables = FoldLeft(put, @, [j \in DOMAIN vs |-> j])]]
      end == FoldLeft(item, [s |-> [s EXCEPT !.tables = Append(@, EmptyTable)], n |-> 0],
                      [i \in DOMAIN items |-> i])
  IN V(end.s, <<t>>)

Variable(s, env, n) ==
  IF n \in DOMAIN env.v THEN V(s, <<s.cells[env.v[n]]>>) ELSE Index(s, s.cells[env.v["_ENV"]], StrV(n))

Eval(s, env, x) ==
  IF s.err THEN Err(s) ELSE
  CASE x.k = "const" -> V(s, <<x.v>>)
    [] x.k = "var" -> Variable(s, env, x.name)
    [] x.k = "vararg" -> V(s, env.va)
    [] x.k = "paren" -> LET r == Eval(s, env, x.e) IN V(r.s, <<One(r)>>)
    [] x.k = "function" -> Closed(s, env, x)
    [] x.k = "table" -> Constructed(s, env, x.items)
    [] x.k = "bin" -> Binary(s, env, x)
    [] x.k = "un" -> Unary(s, env, x)
    [] x.k = "index" ->
         LET o == Eval(s, env, x.o) k == Eval(o.s, env, x.key) IN Index(k.s, One(o), One(k))
    [] x.k = "call" ->
         LET f == Eval(s, env, x.o) a == EvalAll(f.s, env, x.args) IN Call(a.s, One(f), a.vs)
    [] x.k = "method" ->
         LET o == Eval(s, env, x.o)
             f == Index(o.s, One(o), StrV(x.name))
             a == EvalAll(f.s, env, x.args)
         IN Call(a.s, One(f), <<One(o)>> \o a.vs)

EvalAll(s, env, xs) ==
  LET first(st, e) == LET r == Eval(st.s, env, e) IN V(r.s, Append(st.vs, One(r)))
      front == FoldLeft(first, V(s, <<>>), Front(xs))
      last == Eval(front.s, env, Last(xs))
  IN IF xs = <<>> THEN V(s, <<>>) ELSE V(last.s, front.vs \o last.vs)

-----------------------------------------------------------------------------
(* Statements: the state, the environment after it, and where to go on:    *)
(* "next", "return" with values, "goto" with a label, or "error".          *)

To(s, env, ctl)    == [s |-> s, env |-> env, ctl |-> IF s.err THEN "error" ELSE ctl, vs |-> <<>>, label |-> ""]
Inside(r, env)     == [r EXCEPT !.env = env]
IsBreak(r)         == r.ctl = "goto" /\ r.label = "break"

(* The object and the key of a target; a variable has none.                *)
Target(st, x) ==
  LET o == Eval(st.s, st.env, x.o)
      k == Eval(o.s, st.env, x.key)
  IN IF x.k = "index" THEN [st EXCEPT !.s = k.s, !.ts = Append(@, [x |-> x, o |-> One(o), k |-> One(k)])]
     ELSE [st EXCEPT !.ts = Append(@, [x |-> x, o |-> NilV, k |-> NilV])]

SetIndex(s, o, k, v) ==
  IF TypeOf(o) = "table" /\ k /= NilV THEN [s EXCEPT !.tables = Store(@, o, k, v)]
  ELSE [s EXCEPT !.err = TRUE]

Assign(s, env, t, v) ==
  CASE s.err -> s
    [] ~s.err /\ t.x.k = "index" -> SetIndex(s, t.o, t.k, v)
    [] ~s.err /\ t.x.k = "var" /\ t.x.name \in DOMAIN env.v -> [s EXCEPT !.cells[env.v[t.x.name]] = v]
    [] OTHER -> SetIndex(s, s.cells[env.v["_ENV"]], StrV(t.x.name), v)

(* Targets and values are evaluated first; the last target is set first.   *)
Assignment(s, env, vars, exps) ==
  LET t == FoldLeft(Target, [s |-> s, env |-> env, ts |-> <<>>], vars)
      r == EvalAll(t.s, env, exps)
      vs == Adjusted(r.vs, Len(vars))
  IN FoldRight(LAMBDA i, st : Assign(st, env, t.ts[i], vs[i]), [i \in DOMAIN vars |-> i], r.s)

Body(s, env, stats) == Inside(Run(s, env, stats, 1, <<>>), env)

RECURSIVE While(_, _, _), Repeat(_, _, _), ForNum(_, _, _, _, _, _), ForList(_, _, _, _), If(_, _, _, _)

While(s, env, x) ==
  LET c == Eval(s, env, x.c)
      b == Body(c.s, env, x.body)
  IN CASE c.s.err \/ IsFalse(One(c)) -> To(c.s, env, "next")
       [] IsBreak(b) -> To(b.s, env, "next")
       [] b.ctl /= "next" -> b
       [] OTHER -> While(b.s, env, x)

(* The condition sees the locals of the body.                              *)
Repeat(s, env, x) ==
  LET b == Run(s, env, x.body, 1, <<>>)
      c == Eval(b.s, b.env, x.c)
  IN CASE IsBreak(b) -> To(b.s, env, "next")
       [] b.ctl /= "next" /\ ~IsBreak(b) -> Inside(b, env)
       [] b.ctl = "next" /\ (c.s.err \/ ~IsFalse(One(c))) -> To(c.s, env, "next")
       [] OTHER -> Repeat(c.s, env, x)

ForNum(s, env, x, i, limit, step) ==
  LET v == Bind(s, env, <<x.name>>, <<IntV(i)>>)
      b == Inside(Run(v.s, v.env, x.body, 1, <<>>), env)
  IN CASE IF step > 0 THEN i > limit ELSE i < limit -> To(s, env, "next")
       [] IsBreak(b) -> To(b.s, env, "next")
       [] b.ctl /= "next" /\ ~IsBreak(b) -> b
       [] OTHER -> ForNum(b.s, env, x, i + step, limit, step)

ForList(s, env, x, vs) ==
  LET r == Call(s, vs[1], <<vs[2], vs[3]>>)
      v == Bind(r.s, env, x.names, r.vs)
      b == Inside(Run(v.s, v.env, x.body, 1, <<>>), env)
  IN CASE r.s.err \/ One(r) = NilV -> To(r.s, env, "next")
       [] IsBreak(b) -> To(b.s, env, "next")
       [] b.ctl /= "next" /\ ~IsBreak(b) -> b
       [] OTHER -> ForList(b.s, env, x, <<vs[1], vs[2], One(r)>>)

If(s, env, x, i) ==
  LET c == Eval(s, env, x.clauses[i].c)
  IN CASE i > Len(x.clauses) -> IF x.orelse = <<>> THEN To(s, env, "next") ELSE Body(s, env, x.orelse[1])
       [] i <= Len(x.clauses) /\ (c.s.err \/ ~IsFalse(One(c))) -> Body(c.s, env, x.clauses[i].body)
       [] OTHER -> If(c.s, env, x, i + 1)

FornumStat(s, env, x) ==
  LET r == EvalAll(s, env, <<x.a, x.b>> \o x.step)
      vs == IF x.step = <<>> THEN Append(Adjusted(r.vs, 2), IntV(1)) ELSE Adjusted(r.vs, 3)
  IN IF r.s.err \/ \E j \in 1..3 : TypeOf(vs[j]) /= "integer" THEN To([r.s EXCEPT !.err = TRUE], env, "error")
     ELSE ForNum(r.s, env, x, vs[1][2], vs[2][2], vs[3][2])

Stat(s, env, x) ==
  CASE x.k = "local" ->
         LET r == EvalAll(s, env, x.exps) b == Bind(r.s, env, x.names, r.vs) IN To(b.s, b.env, "next")
    [] x.k = "localfunc" ->
         LET b == Bind(s, env, <<x.name>>, <<>>) c == Closed(b.s, b.env, x.f)
         IN To([c.s EXCEPT !.cells[b.env.v[x.name]] = One(c)], b.env, "next")
    [] x.k = "assign" -> To(Assignment(s, env, x.vars, x.exps), env, "next")
    [] x.k = "funcstat" -> To(Assignment(s, env, <<x.var>>, <<x.f>>), env, "next")
    [] x.k = "callstat" -> To(Eval(s, env, x.e).s, env, "next")
    [] x.k = "return" ->
         LET r == EvalAll(s, env, x.exps) IN [To(r.s, env, "return") EXCEPT !.vs = r.vs]
    [] x.k \in {"goto", "break"} -> [To(s, env, "goto") EXCEPT !.label = x.name]
    [] x.k = "label" -> To(s, env, "next")
    [] x.k = "do" -> Body(s, env, x.body)
    [] x.k = "if" -> If(s, env, x, 1)
    [] x.k = "while" -> While(s, env, x)
    [] x.k = "repeat" -> Repeat(s, env, x)
    [] x.k = "fornum" -> FornumStat(s, env, x)
    [] x.k = "forlist" ->
         LET r == EvalAll(s, env, x.exps) IN ForList(r.s, env, x, Adjusted(r.vs, 3))

(* The statements of a block from the i-th on; 'seen' are the environments *)
(* where those before it started, which a jump backwards finds again.      *)
Run(s, env, stats, i, seen) ==
  LET r == Stat(s, env, stats[i])
      now == Append(SubSeq(seen, 1, i - 1), env)
      here == {j \in Labels(stats) : stats[j].name = r.label}
      j == Min(here)
  IN CASE s.err -> To(s, env, "error")
       [] ~s.err /\ i > Len(stats) -> To(s, env, "next")
       [] r.ctl = "next" -> Run(r.s, r.env, stats, i + 1, now)
       [] r.ctl = "goto" /\ here /= {} ->
            Run(r.s, IF j <= i THEN now[j] ELSE env, stats, j, IF j <= i THEN now
                ELSE now \o [m \in 1..j - i - 1 |-> env])
       [] OTHER -> r

(* Whether a program is accepted, its output with the results of its main  *)
(* function last, and whether it ends in an error.                         *)
Meaning(stats, args) ==
  LET legal == Legal(stats, FALSE) /\ Free(stats) = {}
      s == [cells |-> <<Val("table", 1)>>, tables |-> <<Globals>>, funs |-> <<>>, out |-> <<>>, err |-> FALSE]
      r == Run(s, [v |-> [n \in {"_ENV"} |-> 1], va |-> args], stats, 1, <<>>)
  IN IF ~legal THEN [legal |-> FALSE, out |-> <<>>, err |-> FALSE]
     ELSE [legal |-> TRUE, err |-> r.s.err, out |-> IF r.s.err THEN r.s.out ELSE Append(r.s.out, r.vs)]
=============================================================================
