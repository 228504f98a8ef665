------------------------------- MODULE LuaVM -------------------------------
(***************************************************************************)
(* The virtual machine (luaV_execute in lvm.c, with luaD_precall and       *)
(* luaD_poscall in ldo.c and the open upvalues of lfunc.c) running what    *)
(* the compiler made of a program: one action per instruction.             *)
(*                                                                         *)
(* A table is a function from its keys; a value of a function type names a *)
(* closure or a function in C.  The functions in C are 'emit', which adds  *)
(* its arguments to the output and returns them, and 'next', an iterator   *)
(* over 1..n.  Left out: floats, coercions, metamethods and overflow of    *)
(* the stack (calls are LuaCall's, numbers at their limits LuaNumbers').   *)
(***************************************************************************)
EXTENDS LuaSemantics

CONSTANTS Jobs,     (* compiled programs, see Job                            *)
          STACKSIZE (* slots of the stack: more than any program needs       *)

ASSUME VMAssumption == STACKSIZE \in Nat

(* What the compiler makes of a program, and what the program means.       *)
Compiled(fs, stats, args) ==
  [main |-> Proto(fs), ok |-> fs.ok, err |-> fs.err, args |-> args, expected |-> Meaning(stats, args)]
Job(stats, args) == Compiled(mainfunc(stats), stats, args)

VARIABLES
  job,      (* the program that runs                                         *)
  stack,    (* the stack of values; slots are numbered from 0                *)
  top,      (* L->top, where an open list of values ends                     *)
  ci,       (* the frames of Lua functions                                   *)
  upvals,   (* upvalues: open at a slot of the stack, or closed with a value *)
  closures, (* prototype (a path from the main one) and upvalues             *)
  cache,    (* the last closure of a prototype                               *)
  tables,
  out,      (* the arguments of 'emit'                                       *)
  status    (* "run", "done" or "error"                                      *)

vars == <<job, stack, top, ci, upvals, closures, cache, tables, out, status>>

ProtoAt(path) == FoldLeft(LAMBDA p, i : p.p[i], job.main, path)

Frame(cl, func, base, nresults) ==
  [cl |-> cl, func |-> func, base |-> base, pc |-> 0, nresults |-> nresults]

Current == Last(ci)
Closure == closures[Current.cl]
P       == ProtoAt(Closure.path)
I       == P.code[Current.pc + 1]
base    == Current.base
ra      == base + I.A
R(x)    == stack[base + x]
K(x)    == P.k[x + 1]
RKv(x)  == IF ISK(x) THEN K(x - BITRK) ELSE R(x)
Up(x)   == Closure.ups[x + 1]
UpvalV(u) == IF upvals[u].open THEN stack[upvals[u].idx] ELSE upvals[u].v

Op(op)     == status = "run" /\ I.op = op
Jump(n)    == ci' = [ci EXCEPT ![Len(ci)].pc = @ + n]
Advance    == Jump(1)
Throw      == status' = "error" /\ UNCHANGED <<job, stack, top, ci, upvals, closures, cache, tables, out>>
Same       == UNCHANGED <<job, status>>
Objects    == <<upvals, closures, cache, tables, out>>

(* The values from a slot on.                                              *)
Move(st, at, vs) ==
  [j \in DOMAIN st |-> IF j >= at /\ j < at + Len(vs) THEN vs[j - at + 1] ELSE st[j]]
Slots(st, from, n) == [j \in 1..n |-> st[from + j - 1]]

SetA(v) == /\ Advance /\ Same
           /\ stack' = [stack EXCEPT ![ra] = v]
           /\ UNCHANGED <<top, Objects>>

(* A result, or an error if the operands do not fit.                       *)
Try(fits, v) == IF fits THEN SetA(v) ELSE Throw

-----------------------------------------------------------------------------
(* Upvalues (lfunc.c)                                                      *)

OpenAt(level) == {u \in DOMAIN upvals : upvals[u].open /\ upvals[u].idx = level}

luaF_close(ups, st, level) ==
  [u \in DOMAIN ups |->
     IF ups[u].open /\ ups[u].idx >= level
     THEN [open |-> FALSE, idx |-> 0, v |-> st[ups[u].idx]] ELSE ups[u]]

(* An upvalue's place: an open one lives in a slot, a closed one in itself.*)
Place(u) == IF upvals[u].open THEN <<"slot", upvals[u].idx>> ELSE <<"upval", u>>

(* Fault: a cached closure is used whatever its upvalues are.              *)
getcachedAny(path, p) == path \in DOMAIN cache

getcached(path, p) ==
  /\ path \in DOMAIN cache
  /\ \A j \in DOMAIN p.ups :
       Place(closures[cache[path]].ups[j]) =
         IF p.ups[j].instack THEN <<"slot", base + p.ups[j].idx>> ELSE Place(Up(p.ups[j].idx))

(* The captured locals that have no open upvalue yet, in order.            *)
luaF_findupval(p) ==
  SelectSeq(p.ups, LAMBDA u : u.instack /\ OpenAt(base + u.idx) = {})

OP_CLOSURE ==
  LET path == Append(Closure.path, I.B + 1)
      p == P.p[I.B + 1]
      fresh == luaF_findupval(p)
      new == upvals \o [j \in DOMAIN fresh |-> [open |-> TRUE, idx |-> base + fresh[j].idx, v |-> NilV]]
      find(u) == IF ~u.instack THEN Up(u.idx)
                 ELSE CHOOSE j \in DOMAIN new : new[j].open /\ new[j].idx = base + u.idx
      c == Len(closures) + 1
  IN /\ Op("CLOSURE") /\ Advance /\ Same
     /\ UNCHANGED <<top, tables, out>>
     /\ IF getcached(path, p)
        THEN /\ stack' = [stack EXCEPT ![ra] = Val("function", cache[path])]
             /\ UNCHANGED <<upvals, closures, cache>>
        ELSE /\ stack' = [stack EXCEPT ![ra] = Val("function", c)]
             /\ upvals' = new
             /\ closures' = Append(closures, [path |-> path, ups |-> [j \in DOMAIN p.ups |-> find(p.ups[j])]])
             /\ cache' = (path :> c) @@ cache

OP_GETUPVAL == Op("GETUPVAL") /\ SetA(UpvalV(Up(I.B)))

OP_SETUPVAL ==
  LET u == Up(I.B)
  IN /\ Op("SETUPVAL") /\ Advance /\ Same
     /\ IF upvals[u].open
        THEN stack' = [stack EXCEPT ![upvals[u].idx] = R(I.A)] /\ UNCHANGED upvals
        ELSE upvals' = [upvals EXCEPT ![u].v = R(I.A)] /\ UNCHANGED stack
     /\ UNCHANGED <<top, closures, cache, tables, out>>

-----------------------------------------------------------------------------
(* Loads, tables and operators                                             *)

OP_MOVE  == Op("MOVE") /\ SetA(R(I.B))
OP_LOADK == Op("LOADK") /\ SetA(K(I.B))

OP_LOADBOOL ==
  /\ Op("LOADBOOL") /\ Same
  /\ Jump(IF I.C = 0 THEN 1 ELSE 2)
  /\ stack' = [stack EXCEPT ![ra] = BoolV(I.B = 1)]
  /\ UNCHANGED <<top, Objects>>

OP_LOADNIL ==
  /\ Op("LOADNIL") /\ Advance /\ Same
  /\ stack' = Move(stack, ra, [j \in 1..I.B + 1 |-> NilV])
  /\ UNCHANGED <<top, Objects>>

IsTable(v) == TypeOf(v) = "table"

OP_GETTABUP ==
  LET t == UpvalV(Up(I.B)) IN Op("GETTABUP") /\ Try(IsTable(t), Lookup(tables, t, RKv(I.C)))
OP_GETTABLE ==
  Op("GETTABLE") /\ Try(IsTable(R(I.B)), Lookup(tables, R(I.B), RKv(I.C)))

SetTable(t, k, v) ==
  IF IsTable(t) /\ k /= NilV
  THEN /\ Advance /\ Same
       /\ tables' = Store(tables, t, k, v)
       /\ UNCHANGED <<stack, top, upvals, closures, cache, out>>
  ELSE Throw

OP_SETTABUP == Op("SETTABUP") /\ SetTable(UpvalV(Up(I.A)), RKv(I.B), RKv(I.C))
OP_SETTABLE == Op("SETTABLE") /\ SetTable(R(I.A), RKv(I.B), RKv(I.C))

OP_NEWTABLE ==
  /\ Op("NEWTABLE") /\ Advance /\ Same
  /\ tables' = Append(tables, EmptyTable)
  /\ stack' = [stack EXCEPT ![ra] = Val("table", Len(tables'))]
  /\ UNCHANGED <<top, upvals, closures, cache, out>>

OP_SELF ==
  /\ Op("SELF")
  /\ IF IsTable(R(I.B))
     THEN /\ Advance /\ Same
          /\ stack' = Move(stack, ra, <<Lookup(tables, R(I.B), RKv(I.C)), R(I.B)>>)
          /\ UNCHANGED <<top, Objects>>
     ELSE Throw

OP_ARITH ==
  /\ status = "run" /\ I.op \in ArithOps
  /\ LET b == RKv(I.B) c == RKv(I.C)
     IN Try(CanArith(I.op, b, c), IntV(Arith(I.op, b[2], c[2])))
OP_UNM == Op("UNM") /\ Try(TypeOf(R(I.B)) = "integer", IntV(-R(I.B)[2]))
OP_NOT == Op("NOT") /\ SetA(BoolV(IsFalse(R(I.B))))
OP_LEN == Op("LEN") /\ Try(HasLength(R(I.B)), Length(tables, R(I.B)))

(* From right to left, in place: registers B to C.                         *)
OP_CONCAT ==
  LET vs == Slots(stack, base + I.B, I.C - I.B + 1)
  IN Op("CONCAT") /\ Try(\A j \in DOMAIN vs : IsString(vs[j]),
                         FoldRight(LAMBDA v, acc : Concat(v, acc), Front(vs), Last(vs)))

OP_SETLIST ==
  LET n == IF I.B = 0 THEN top - ra - 1 ELSE I.B
      first == (I.C - 1) * LFIELDS_PER_FLUSH
  IN /\ Op("SETLIST") /\ Advance /\ Same
     /\ tables' = FoldLeft(LAMBDA ts, j : Store(ts, R(I.A), IntV(first + j), R(I.A + j)),
                           tables, [j \in 1..n |-> j])
     /\ UNCHANGED <<stack, top, upvals, closures, cache, out>>

-----------------------------------------------------------------------------
(* Jumps                                                                   *)

(* dojump: the jump at distance e closes upvalues if its A says so.        *)
dojump(e) ==
  LET j == P.code[Current.pc + 1 + e]
  IN /\ Jump(j.B + 1 + e)
     /\ upvals' = IF j.A = 0 THEN upvals ELSE luaF_close(upvals, stack, base + j.A - 1)

OP_JMP == Op("JMP") /\ dojump(0) /\ Same /\ UNCHANGED <<stack, top, closures, cache, tables, out>>

(* A condition that holds executes the jump that follows.                  *)
Test(holds) ==
  /\ IF holds THEN dojump(1) ELSE Jump(2) /\ UNCHANGED upvals
  /\ Same /\ UNCHANGED <<top, closures, cache, tables, out>>

OP_EQ ==
  Op("EQ") /\ Test((RKv(I.B) = RKv(I.C)) = (I.A = 1)) /\ UNCHANGED stack

OP_LTLE ==
  LET b == RKv(I.B) c == RKv(I.C)
  IN /\ Op("LT") \/ Op("LE")
     /\ IF CanCompare(b, c)
        THEN Test((IF I.op = "LT" THEN b[2] < c[2] ELSE b[2] <= c[2]) = (I.A = 1)) /\ UNCHANGED stack
        ELSE Throw

OP_TEST == Op("TEST") /\ Test(IsFalse(R(I.A)) = (I.C = 0)) /\ UNCHANGED stack

OP_TESTSET ==
  LET holds == IsFalse(R(I.B)) = (I.C = 0)
  IN /\ Op("TESTSET") /\ Test(holds)
     /\ stack' = IF holds THEN [stack EXCEPT ![ra] = R(I.B)] ELSE stack

OP_FORPREP ==
  /\ Op("FORPREP")
  /\ IF \A j \in 0..2 : TypeOf(R(I.A + j)) = "integer"
     THEN /\ Jump(I.B + 1) /\ Same
          /\ stack' = [stack EXCEPT ![ra] = IntV(@[2] - R(I.A + 2)[2])]
          /\ UNCHANGED <<top, Objects>>
     ELSE Throw

OP_FORLOOP ==
  LET step == R(I.A + 2)[2]
      idx == R(I.A)[2] + step
      limit == R(I.A + 1)[2]
      goes == IF 0 < step THEN idx <= limit ELSE limit <= idx
  IN /\ Op("FORLOOP") /\ Same
     /\ Jump(IF goes THEN I.B + 1 ELSE 1)
     /\ stack' = IF goes THEN [stack EXCEPT ![ra] = IntV(idx), ![ra + 3] = IntV(idx)] ELSE stack
     /\ UNCHANGED <<top, Objects>>

OP_TFORLOOP ==
  LET goes == R(I.A + 1) /= NilV
  IN /\ Op("TFORLOOP") /\ Same
     /\ Jump(IF goes THEN I.B + 1 ELSE 1)
     /\ stack' = IF goes THEN [stack EXCEPT ![ra] = R(I.A + 1)] ELSE stack
     /\ UNCHANGED <<top, Objects>>

-----------------------------------------------------------------------------
(* Calls                                                                   *)

(* The values that moveresults leaves from 'res' on.                       *)
Results(vs, wanted) ==
  IF wanted = MULTRET THEN vs
  ELSE [j \in 1..wanted |-> IF j <= Len(vs) THEN vs[j] ELSE NilV]

(* A vararg function gets its parameters above its arguments.              *)
adjust_varargs(st, p, func, actual) ==
  LET b == func + 1 + actual
      param(j) == IF j <= actual THEN st[func + j] ELSE NilV
      erased == [j \in DOMAIN st |->
                   IF j > func /\ j <= func + actual /\ j <= func + p.numparams THEN NilV ELSE st[j]]
  IN Move(erased, b, [j \in 1..p.numparams |-> param(j)])

Entered(st, p, func, actual) ==
  IF p.vararg THEN adjust_varargs(st, p, func, actual)
  ELSE Move(st, func + 1 + actual, [j \in 1..p.numparams - actual |-> NilV])

EntryBase(p, func, actual) == IF p.vararg THEN func + 1 + actual ELSE func + 1

(* luaD_precall for a function in C: it runs to its end at once.           *)
CallC(func, nargs, wanted) ==
  LET f == stack[func][2]
      args == Slots(stack, func + 1, nargs)
      vs == Results(Builtin(f, args), wanted)
  IN /\ stack' = Move(stack, func, vs)
     /\ top' = func + Len(vs)
     /\ out' = IF f = "emit" THEN Append(out, args) ELSE out
     /\ Advance /\ Same /\ UNCHANGED <<upvals, closures, cache, tables>>

(* luaD_precall for a Lua function: a new frame.                           *)
CallLua(st, func, nargs, wanted) ==
  LET p == ProtoAt(closures[st[func][2]].path)
      f == Frame(st[func][2], func, EntryBase(p, func, nargs), wanted)
  IN /\ stack' = Entered(st, p, func, nargs)
     /\ ci' = Append([ci EXCEPT ![Len(ci)].pc = @ + 1], f)
     /\ top' = f.base + p.maxstack
     /\ Same /\ UNCHANGED Objects

OP_CALL ==
  LET nargs == IF I.B /= 0 THEN I.B - 1 ELSE top - ra - 1
  IN /\ Op("CALL")
     /\ CASE IsBuiltin(R(I.A)) -> CallC(ra, nargs, I.C - 1)
          [] IsClosure(R(I.A)) -> CallLua(stack, ra, nargs, I.C - 1)
          [] OTHER -> Throw

(* The frame of the called function replaces the one of its caller, whose  *)
(* upvalues are closed.                                                    *)
OP_TAILCALL ==
  LET nargs == IF I.B /= 0 THEN I.B - 1 ELSE top - ra - 1
      f == R(I.A)[2]
      p == ProtoAt(closures[f].path)
      in == Entered(stack, p, ra, nargs)
      ofunc == Current.func
      nbase == EntryBase(p, ra, nargs)
      ups == IF P.p = <<>> THEN upvals ELSE luaF_close(upvals, in, base)
      moved == Move(in, ofunc, Slots(in, ra, nbase + p.numparams - ra))
  IN /\ Op("TAILCALL")
     /\ CASE IsBuiltin(R(I.A)) -> CallC(ra, nargs, MULTRET)
          [] IsClosure(R(I.A)) ->
               /\ stack' = moved /\ upvals' = ups
               /\ ci' = [ci EXCEPT ![Len(ci)] = Frame(f, ofunc, ofunc + (nbase - ra), Current.nresults)]
               /\ top' = ofunc + (nbase - ra) + p.maxstack
               /\ Same /\ UNCHANGED <<closures, cache, tables, out>>
          [] OTHER -> Throw

(* Fault: the upvalues of the function stay open.                          *)
OP_RETURNOpen ==
  LET n == IF I.B /= 0 THEN I.B - 1 ELSE top - ra
      vs == Results(Slots(stack, ra, n), Current.nresults)
      last == Len(ci) = 1
  IN /\ Op("RETURN")
     /\ stack' = Move(stack, Current.func, vs)
     /\ top' = Current.func + Len(vs)
     /\ ci' = IF last THEN ci ELSE Front(ci)
     /\ out' = IF last THEN Append(out, vs) ELSE out
     /\ status' = IF last THEN "done" ELSE "run"
     /\ UNCHANGED <<job, upvals, closures, cache, tables>>

(* luaD_poscall; the results of the main function are the last output.     *)
OP_RETURN ==
  LET n == IF I.B /= 0 THEN I.B - 1 ELSE top - ra
      ups == IF P.p = <<>> THEN upvals ELSE luaF_close(upvals, stack, base)
      vs == Results(Slots(stack, ra, n), Current.nresults)
      last == Len(ci) = 1
  IN /\ Op("RETURN")
     /\ upvals' = ups
     /\ stack' = Move(stack, Current.func, vs)
     /\ top' = Current.func + Len(vs)
     /\ ci' = IF last THEN ci ELSE Front(ci)
     /\ out' = IF last THEN Append(out, vs) ELSE out
     /\ status' = IF last THEN "done" ELSE "run"
     /\ UNCHANGED <<job, closures, cache, tables>>

(* The iterator is called on copies of the three control values.           *)
OP_TFORCALL ==
  LET cb == ra + 3
      st == Move(stack, cb, Slots(stack, ra, 3))
      vs == Results(Builtin(R(I.A)[2], Slots(stack, ra + 1, 2)), I.C)
  IN /\ Op("TFORCALL")
     /\ CASE IsBuiltin(R(I.A)) ->
               /\ stack' = Move(st, cb, vs) /\ Advance /\ Same
               /\ out' = IF R(I.A)[2] = "emit" THEN Append(out, Slots(stack, ra + 1, 2)) ELSE out
               /\ UNCHANGED <<top, upvals, closures, cache, tables>>
          [] IsClosure(R(I.A)) -> CallLua(st, cb, 2, I.C)
          [] OTHER -> Throw

OP_VARARG ==
  LET fix == P.numparams
      all == base - Current.func - 1 - fix
      n == IF all < 0 THEN 0 ELSE all
      b == IF I.B = 0 THEN n ELSE I.B - 1
  IN /\ Op("VARARG") /\ Advance /\ Same
     /\ top' = IF I.B = 0 THEN ra + n ELSE top
     /\ stack' = Move(stack, ra, Results(Slots(stack, base - n, n), b))
     /\ UNCHANGED Objects

-----------------------------------------------------------------------------
(* The main function of a program is called with its arguments.            *)

Init ==
  /\ job \in Jobs
  /\ status = IF job.err = "" THEN "run" ELSE "rejected"
  /\ LET n == Len(job.args)
     IN /\ stack = Move([j \in 0..STACKSIZE - 1 |-> NilV], 0, <<Val("function", 1)>> \o job.args)
        /\ ci = <<Frame(1, 0, n + 1, MULTRET)>>
        /\ top = n + 1 + job.main.maxstack
  /\ upvals = <<[open |-> FALSE, idx |-> 0, v |-> Val("table", 1)]>>
  /\ closures = <<[path |-> <<>>, ups |-> <<1>>]>>
  /\ cache = <<>>
  /\ tables = <<Globals>>
  /\ out = <<>>

Next ==
  \/ OP_MOVE \/ OP_LOADK \/ OP_LOADBOOL \/ OP_LOADNIL \/ OP_GETUPVAL \/ OP_GETTABUP
  \/ OP_GETTABLE \/ OP_SETTABUP \/ OP_SETUPVAL \/ OP_SETTABLE \/ OP_NEWTABLE \/ OP_SELF
  \/ OP_ARITH \/ OP_UNM \/ OP_NOT \/ OP_LEN \/ OP_CONCAT \/ OP_JMP \/ OP_EQ \/ OP_LTLE
  \/ OP_TEST \/ OP_TESTSET \/ OP_CALL \/ OP_TAILCALL \/ OP_RETURN \/ OP_FORLOOP
  \/ OP_FORPREP \/ OP_TFORCALL \/ OP_TFORLOOP \/ OP_SETLIST \/ OP_CLOSURE \/ OP_VARARG

(* The interpreter's loop fetches the next instruction at once.            *)
Spec == Init /\ [][Next]_vars /\ WF_vars(Next)

-----------------------------------------------------------------------------
(* Properties                                                              *)

(* The machine never prints anything but what the program means, prints    *)
(* all of it, and raises an error exactly where the program does.  A       *)
(* program is rejected exactly if a goto or a break has no visible label   *)
(* or would enter the scope of a local.                                    *)
OutputAgrees ==
  /\ (status = "rejected") = ~job.expected.legal
  /\ job.expected.legal =>
       /\ IsPrefix(out, job.expected.out)
       /\ status = "done" => out = job.expected.out /\ ~job.expected.err
       /\ status = "error" => out = job.expected.out /\ job.expected.err

(* The assertions of the parser and of the code generator hold: registers  *)
(* are freed in the order of the stack, blocks start with no temporaries,  *)
(* a jump is patched to a place, and so on.                                *)
CompilerAssertions == job.ok

(* What the machine relies on without checking: operands within the frame, *)
(* the constants and the upvalues; jumps within the function; a test       *)
(* before a jump; a call of an iterator before its loop; a return last.    *)
RECURSIVE WellFormed(_)
WellFormed(p) ==
  LET reg(r) == r >= 0 /\ r < p.maxstack
      rk(r) == IF ISK(r) THEN r - BITRK < Len(p.k) ELSE reg(r)
      goes(j) == j >= 1 /\ j <= Len(p.code)
      good(j) ==
        LET w == p.code[j]
        IN CASE w.op \in {"MOVE", "NOT", "UNM", "LEN"} -> reg(w.A) /\ reg(w.B)
             [] w.op = "LOADK" -> reg(w.A) /\ w.B < Len(p.k)
             [] w.op = "LOADBOOL" -> reg(w.A) /\ goes(j + 1 + w.C)
             [] w.op = "LOADNIL" -> reg(w.A) /\ reg(w.A + w.B)
             [] w.op \in {"GETUPVAL", "SETUPVAL"} -> reg(w.A) /\ w.B < Len(p.ups)
             [] w.op = "GETTABUP" -> reg(w.A) /\ w.B < Len(p.ups) /\ rk(w.C)
             [] w.op = "SETTABUP" -> w.A < Len(p.ups) /\ rk(w.B) /\ rk(w.C)
             [] w.op = "GETTABLE" -> reg(w.A) /\ reg(w.B) /\ rk(w.C)
             [] w.op = "SETTABLE" -> reg(w.A) /\ rk(w.B) /\ rk(w.C)
             [] w.op = "SELF" -> reg(w.A + 1) /\ reg(w.B) /\ rk(w.C)
             [] w.op \in ArithOps -> reg(w.A) /\ rk(w.B) /\ rk(w.C)
             [] w.op = "CONCAT" -> reg(w.A) /\ reg(w.B) /\ reg(w.C) /\ w.B < w.C
             [] w.op = "JMP" -> goes(j + 1 + w.B) /\ w.A <= p.maxstack
             [] w.op \in {"EQ", "LT", "LE"} -> rk(w.B) /\ rk(w.C) /\ p.code[j + 1].op = "JMP"
             [] w.op = "TEST" -> reg(w.A) /\ p.code[j + 1].op = "JMP"
             [] w.op = "TESTSET" -> reg(w.A) /\ reg(w.B) /\ p.code[j + 1].op = "JMP"
             [] w.op = "FORPREP" -> reg(w.A + 3) /\ p.code[j + 1 + w.B].op = "FORLOOP"
             [] w.op = "FORLOOP" -> reg(w.A + 3) /\ p.code[j + w.B].op = "FORPREP"
             [] w.op = "TFORCALL" -> reg(w.A + 2 + w.C) /\ reg(w.A + 5) /\ p.code[j + 1].op = "TFORLOOP"
             [] w.op = "TFORLOOP" -> reg(w.A + 1) /\ goes(j + 1 + w.B)
             [] w.op \in {"CALL", "TAILCALL"} ->
                  /\ reg(w.A) /\ (w.B > 0 => reg(w.A + w.B - 1)) /\ (w.C > 1 => reg(w.A + w.C - 2))
                  /\ w.op = "TAILCALL" => p.code[j + 1].op = "RETURN" /\ p.code[j + 1].B = 0
             [] w.op = "RETURN" -> w.B > 1 => reg(w.A + w.B - 2)
             [] w.op = "CLOSURE" -> reg(w.A) /\ w.B < Len(p.p)
             [] w.op = "VARARG" -> reg(w.A) /\ (w.B > 1 => reg(w.A + w.B - 2)) /\ p.vararg
             [] w.op \in {"NEWTABLE", "SETLIST"} -> reg(w.A)
  IN /\ Last(p.code).op = "RETURN"
     /\ \A j \in DOMAIN p.code : good(j)
     /\ \A j \in DOMAIN p.p :
          /\ WellFormed(p.p[j])
          /\ \A u \in DOMAIN p.p[j].ups :
               IF p.p[j].ups[u].instack THEN reg(p.p[j].ups[u].idx) ELSE p.p[j].ups[u].idx < Len(p.ups)

CodeWellFormed == (out = <<>> /\ job.err = "") => WellFormed(job.main)

(* The code generator breaks none of its own assertions and emits only     *)
(* code that the machine can run unchecked (lcode.c, lparser.c).           *)
CompilerSound == CompilerAssertions /\ CodeWellFormed

(* A function that returns, or that a tail call replaces, leaves none of   *)
(* its variables open; and a variable never has two open upvalues.         *)
Leaves == Len(ci') < Len(ci) \/ status' = "done" \/ (Len(ci') = Len(ci) /\ Last(ci').pc = 0)
FunctionsCloseUpvalues ==
  [][LET open == {u \in DOMAIN upvals' : upvals'[u].open}
     IN /\ \A u, w \in open : upvals'[u].idx = upvals'[w].idx => u = w
        /\ Leaves => \A u \in open : upvals'[u].idx < base]_vars

(* Every program ends: these do, by what they mean.                        *)
Terminates == <>(status /= "run")
=============================================================================
