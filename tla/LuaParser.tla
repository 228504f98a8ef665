----------------------------- MODULE LuaParser -----------------------------
(***************************************************************************)
(* The parser (lparser.c): scopes, upvalues, labels and gotos, and the     *)
(* code of statements and expressions.                                     *)
(*                                                                         *)
(* The tokens are abstracted to the syntax tree they form: a statement or  *)
(* an expression is a record whose field k names its rule.  A FuncState    *)
(* holds its enclosing function in fs.prev, a sequence of at most one; the *)
(* lists of Dyndata are split by function (fs.vars, fs.gt, fs.label): each *)
(* function uses the segment above its firstlocal, firstgoto, firstlabel.  *)
(* fs.err is the error, which ends the compilation.  Left out: the limits  *)
(* on variables, upvalues and C levels, and debug information.             *)
(***************************************************************************)
EXTENDS LuaCode

Fail(fs, msg) == [fs EXCEPT !.err = IF @ = "" THEN msg ELSE @]

-----------------------------------------------------------------------------
(* Variables and upvalues                                                  *)

new_localvars(fs, names)   == [fs EXCEPT !.vars = @ \o names]
adjustlocalvars(fs, nvars) == [fs EXCEPT !.nactvar = @ + nvars]
removevars(fs, tolevel) ==
  [fs EXCEPT !.vars = SubSeq(@, 1, Len(@) - (fs.nactvar - tolevel)), !.nactvar = tolevel]

(* The last active variable with the name.                                 *)
searchvar(fs, n) ==
  LET found == {i \in 1..fs.nactvar : fs.vars[i] = n}
  IN IF found = {} THEN -1 ELSE Max(found) - 1

searchupvalue(fs, n) ==
  LET found == {i \in DOMAIN fs.ups : fs.ups[i].name = n}
  IN IF found = {} THEN -1 ELSE Min(found) - 1

newupvalue(fs, n, v) ==
  [fs EXCEPT !.ups = Append(@, [name |-> n, instack |-> v.k = "VLOCAL", idx |-> v.info])]

(* The block that declares the variable will close upvalues.               *)
markupval(fs, level) ==
  [fs EXCEPT !.bl[Max({i \in DOMAIN fs.bl : fs.bl[i].nactvar <= level})].upval = TRUE]

RECURSIVE singlevaraux(_, _, _)
singlevaraux(fs, n, base) ==
  LET v == searchvar(fs, n)
      u == searchupvalue(fs, n)
      outer == singlevaraux(fs.prev[1], n, FALSE)
  IN CASE v >= 0 -> Res(IF base THEN fs ELSE markupval(fs, v), Exp("VLOCAL", v))
       [] v < 0 /\ u >= 0 -> Res(fs, Exp("VUPVAL", u))
       [] v < 0 /\ u < 0 /\ fs.prev = <<>> -> Res(fs, Exp("VVOID", 0))
       [] OTHER ->
            IF outer.e.k = "VVOID" THEN Res(fs, outer.e)
            ELSE Res(newupvalue([fs EXCEPT !.prev = <<outer.fs>>], n, outer.e),
                     Exp("VUPVAL", Len(fs.ups)))

codestring(fs, s) == LET k == addk(fs, StrV(s)) IN Res(k.fs, Exp("VK", k.i))

(* A name that is no variable is a field of _ENV.                          *)
singlevar(fs, n) ==
  LET r == singlevaraux(fs, n, TRUE)
      env == singlevaraux(r.fs, "_ENV", TRUE)
      key == codestring(Assert_(env.fs, env.e.k /= "VVOID"), n)
  IN IF r.e.k = "VVOID" THEN luaK_indexed(key.fs, env.e, key.e) ELSE r

adjust_assign(fs, nvars, nexps, e) ==
  LET extra == IF nvars - nexps + 1 < 0 THEN 0 ELSE nvars - nexps + 1
      s == luaK_setreturns(fs, e, extra)
      x == IF e.k = "VVOID" THEN fs ELSE luaK_exp2nextreg(fs, e).fs
      r == CASE hasmultret(e.k) -> IF extra > 1 THEN luaK_reserveregs(s, extra - 1) ELSE s
             [] ~hasmultret(e.k) /\ nvars > nexps ->
                  luaK_nil(luaK_reserveregs(x, nvars - nexps), x.freereg, nvars - nexps)
             [] OTHER -> x
  IN IF nexps > nvars THEN [r EXCEPT !.freereg = @ - (nexps - nvars)] ELSE r

-----------------------------------------------------------------------------
(* Labels, gotos and blocks                                                *)

Block(fs) == Last(fs.bl)

newlabelentry(fs, name, list) == [name |-> name, pc |-> list, nactvar |-> fs.nactvar]

closegoto(fs, g, lb) ==
  LET gt == fs.gt[g]
      s == IF gt.nactvar < lb.nactvar THEN Fail(fs, "jumps into the scope of a local") ELSE fs
  IN [luaK_patchlist(s, gt.pc, lb.pc) EXCEPT !.gt = RemoveAt(@, g)]

(* Backward jumps: the labels of the current block.                        *)
Visible(fs, name) == {i \in Block(fs).firstlabel + 1 .. Len(fs.label) : fs.label[i].name = name}

findlabel(fs, g) ==
  LET gt == fs.gt[g]
      lb == fs.label[Min(Visible(fs, gt.name))]
      closes == gt.nactvar > lb.nactvar /\ (Block(fs).upval \/ Len(fs.label) > Block(fs).firstlabel)
      s == IF closes THEN luaK_patchclose(fs, gt.pc, lb.nactvar) ELSE fs
  IN IF Visible(fs, gt.name) = {} THEN fs ELSE closegoto(s, g, lb)

(* Forward jumps: the pending gotos of the current block.                  *)
RECURSIVE findgotosfrom(_, _, _)
findgotosfrom(fs, lb, i) ==
  CASE i > Len(fs.gt) -> fs
    [] i <= Len(fs.gt) /\ fs.gt[i].name = lb.name -> findgotosfrom(closegoto(fs, i, lb), lb, i)
    [] OTHER -> findgotosfrom(fs, lb, i + 1)
findgotos(fs, lb) == findgotosfrom(fs, lb, Block(fs).firstgoto + 1)

(* Pending gotos leave the block bl: those that leave the scope of one of  *)
(* its variables close it, and an outer label may be visible already.      *)
RECURSIVE movegotosfrom(_, _, _)
movegotosfrom(fs, bl, i) ==
  LET gt == fs.gt[i]
      exits == gt.nactvar > bl.nactvar
      c == IF exits /\ bl.upval THEN luaK_patchclose(fs, gt.pc, bl.nactvar) ELSE fs
      s == findlabel(IF exits THEN [c EXCEPT !.gt[i].nactvar = bl.nactvar] ELSE c, i)
  IN IF i > Len(fs.gt) THEN fs
     ELSE movegotosfrom(s, bl, IF Len(s.gt) < Len(fs.gt) THEN i ELSE i + 1)
movegotosout(fs, bl) == movegotosfrom(fs, bl, bl.firstgoto + 1)

enterblock(fs, isloop) ==
  [Assert_(fs, fs.freereg = fs.nactvar) EXCEPT
     !.bl = Append(@, [isloop |-> isloop, nactvar |-> fs.nactvar, upval |-> FALSE,
                       firstlabel |-> Len(fs.label), firstgoto |-> Len(fs.gt)])]

breaklabel(fs) ==
  LET lb == newlabelentry(fs, "break", pc(fs))
  IN findgotos([fs EXCEPT !.label = Append(@, lb)], lb)

undefgoto(fs) == Fail(fs, "no visible label")

leaveblock(fs) ==
  LET bl == Block(fs)
      inner == Len(fs.bl) > 1
      j == luaK_jump(fs)
      c == IF inner /\ bl.upval
           THEN luaK_patchtohere(luaK_patchclose(j.fs, j.l, bl.nactvar), j.l) ELSE fs
      b == IF bl.isloop THEN breaklabel(c) ELSE c
      s == [removevars(b, bl.nactvar) EXCEPT
              !.bl = Front(@), !.freereg = bl.nactvar, !.label = SubSeq(@, 1, bl.firstlabel)]
  IN CASE inner -> movegotosout(s, bl)
       [] ~inner /\ bl.firstgoto < Len(s.gt) -> undefgoto(s)
       [] OTHER -> s

-----------------------------------------------------------------------------
(* Functions                                                               *)

open_func(prev) ==
  enterblock([code |-> <<>>, k |-> <<>>, p |-> <<>>, ups |-> <<>>, numparams |-> 0,
              vararg |-> FALSE, maxstack |-> 2, jpc |-> NO_JUMP, lasttarget |-> 0,
              freereg |-> 0, nactvar |-> 0, vars |-> <<>>, bl |-> <<>>, gt |-> <<>>,
              label |-> <<>>, ok |-> TRUE, err |-> "", prev |-> prev], FALSE)

Proto(fs) == [code |-> fs.code, k |-> fs.k, p |-> fs.p, ups |-> fs.ups, numparams |-> fs.numparams,
              vararg |-> fs.vararg, maxstack |-> fs.maxstack]

close_func(fs) ==
  LET s == leaveblock(luaK_ret(fs, 0, 0)) IN Assert_(s, s.bl = <<>> /\ s.vars = <<>>)

(* OP_CLOSURE uses the last register.                                      *)
codeclosure(fs) ==
  luaK_exp2nextreg(luaK_codeABC(fs, "CLOSURE", 0, Len(fs.p) - 1, 0), Exp("VRELOCABLE", pc(fs)))

parlist(fs, params, vararg) ==
  LET s == adjustlocalvars(new_localvars([fs EXCEPT !.vararg = vararg], params), Len(params))
  IN luaK_reserveregs([s EXCEPT !.numparams = s.nactvar], s.nactvar)

RECURSIVE expr(_, _), statlist(_, _, _)

body(fs, x) ==
  LET f == close_func(statlist(parlist(open_func(<<fs>>), x.params, x.vararg), x.body, FALSE))
      outer == Assert_(IF f.err = "" THEN f.prev[1] ELSE Fail(f.prev[1], f.err), f.ok)
  IN codeclosure([outer EXCEPT !.p = Append(@, Proto(f))])

-----------------------------------------------------------------------------
(* Expressions                                                             *)

(* All but the last go to registers.                                       *)
RECURSIVE explist(_, _)
explist(fs, xs) ==
  LET r == explist(fs, Front(xs))
  IN CASE xs = <<>> -> Res(fs, Exp("VVOID", 0))
       [] Len(xs) = 1 -> expr(fs, xs[1])
       [] OTHER -> expr(luaK_exp2nextreg(r.fs, r.e).fs, Last(xs))

setmultret(r) == IF hasmultret(r.e.k) THEN luaK_setreturns(r.fs, r.e, MULTRET) ELSE r.fs

funcargs(fs, f, args) ==
  LET r == explist(fs, args)
      open == hasmultret(r.e.k)
      s == CASE open -> setmultret(r)
             [] r.e.k = "VVOID" -> r.fs
             [] OTHER -> luaK_exp2nextreg(r.fs, r.e).fs
      base == f.info
      nparams == IF open THEN MULTRET ELSE s.freereg - (base + 1)
      c == luaK_codeABC(Assert_(s, f.k = "VNONRELOC"), "CALL", base, nparams + 1, 2)
  IN Res([c EXCEPT !.freereg = base + 1], Exp("VCALL", pc(s)))

(* A constructor: cc holds the last list item read, and the numbers of     *)
(* items read and of items that wait in registers.                         *)
recfield(cc, key, x, t) ==
  LET kr == expr(cc.fs, key)
      ke == luaK_exp2val(kr.fs, kr.e)
      k == luaK_exp2RK(ke.fs, ke.e)
      vr == expr(k.fs, x)
      v == luaK_exp2RK(vr.fs, vr.e)
  IN [cc EXCEPT !.nh = @ + 1,
                !.fs = [luaK_codeABC(v.fs, "SETTABLE", t, RK(k.e), RK(v.e))
                          EXCEPT !.freereg = cc.fs.freereg]]

closelistfield(cc, t) ==
  LET s == luaK_exp2nextreg(cc.fs, cc.v).fs
      full == cc.tostore = LFIELDS_PER_FLUSH
  IN IF cc.v.k = "VVOID" THEN cc
     ELSE [cc EXCEPT !.v.k = "VVOID", !.tostore = IF full THEN 0 ELSE @,
                     !.fs = IF full THEN luaK_setlist(s, t, cc.na, cc.tostore) ELSE s]

lastlistfield(cc, t) ==
  LET s == IF cc.v.k = "VVOID" THEN cc.fs ELSE luaK_exp2nextreg(cc.fs, cc.v).fs
  IN CASE cc.tostore = 0 -> cc
       [] cc.tostore > 0 /\ hasmultret(cc.v.k) ->
            [cc EXCEPT !.na = @ - 1,
                       !.fs = luaK_setlist(setmultret(Res(cc.fs, cc.v)), t, cc.na, MULTRET)]
       [] OTHER -> [cc EXCEPT !.fs = luaK_setlist(s, t, cc.na, cc.tostore)]

listfield(cc, x) ==
  LET r == expr(cc.fs, x)
  IN [cc EXCEPT !.fs = r.fs, !.v = r.e, !.na = @ + 1, !.tostore = @ + 1]

constructor(fs, items) ==
  LET n == luaK_exp2nextreg(luaK_codeABC(fs, "NEWTABLE", 0, 0, 0), Exp("VRELOCABLE", pc(fs)))
      t == n.e.info
      field(cc, x) == IF x.key = <<>> THEN listfield(closelistfield(cc, t), x.v)
                      ELSE recfield(closelistfield(cc, t), x.key[1], x.v, t)
      cc == lastlistfield(FoldLeft(field, [fs |-> n.fs, v |-> Exp("VVOID", 0), na |-> 0, nh |-> 0,
                                           tostore |-> 0], items), t)
  IN Res([cc.fs EXCEPT !.code[pc(fs) + 1].B = cc.na, !.code[pc(fs) + 1].C = cc.nh], n.e)

primaryexp(fs, x) ==
  LET r == expr(fs, x.e)
  IN IF x.k = "paren" THEN luaK_dischargevars(r.fs, r.e) ELSE singlevar(fs, x.name)

(* v[key], v(args) and v:name(args).                                       *)
suffixedexp(fs, x) ==
  LET o == expr(fs, x.o)
      up == luaK_exp2anyregup(o.fs, o.e)
      kr == expr(up.fs, x.key)
      k == luaK_exp2val(kr.fs, kr.e)
      f == luaK_exp2nextreg(o.fs, o.e)
      name == codestring(o.fs, x.name)
      m == luaK_self(name.fs, o.e, name.e)
  IN CASE x.k = "index" -> luaK_indexed(k.fs, up.e, k.e)
       [] x.k = "call" -> funcargs(f.fs, f.e, x.args)
       [] x.k = "method" -> funcargs(m.fs, m.e, x.args)

simpleexp(fs, x) ==
  CASE x = NilV -> Res(fs, Exp("VNIL", 0))
    [] x = BoolV(TRUE) -> Res(fs, Exp("VTRUE", 0))
    [] x = BoolV(FALSE) -> Res(fs, Exp("VFALSE", 0))
    [] TypeOf(x) = "integer" -> Res(fs, Exp("VKINT", x[2]))
    [] TypeOf(x) = "string" -> codestring(fs, x[2])

vararg(fs) ==
  Res(luaK_codeABC(IF fs.vararg THEN fs ELSE Fail(fs, "'...' outside a vararg function"),
                   "VARARG", 0, 1, 0), Exp("VVARARG", pc(fs)))

(* The two operands of an operator and what lies between them.             *)
subexpr(fs, x) ==
  LET u == expr(fs, x.e)
      a == expr(fs, x.l)
      i == luaK_infix(a.fs, x.op, a.e)
      b == expr(i.fs, x.r)
  IN IF x.k = "un" THEN luaK_prefix(u.fs, x.op, u.e) ELSE luaK_posfix(b.fs, x.op, i.e, b.e)

expr(fs, x) ==
  CASE fs.err /= "" -> Res(fs, Exp("VVOID", 0))
    [] x.k = "const" -> simpleexp(fs, x.v)
    [] x.k = "vararg" -> vararg(fs)
    [] x.k = "table" -> constructor(fs, x.items)
    [] x.k = "function" -> body(fs, x)
    [] x.k \in {"var", "paren"} -> primaryexp(fs, x)
    [] x.k \in {"index", "call", "method"} -> suffixedexp(fs, x)
    [] x.k \in {"un", "bin"} -> subexpr(fs, x)

-----------------------------------------------------------------------------
(* Statements                                                              *)

block(fs, stats) == leaveblock(statlist(enterblock(fs, FALSE), stats, FALSE))

(* Assigning to a local or an upvalue that an earlier target of the same   *)
(* assignment indexes: the earlier target gets a copy.                     *)
check_conflict(fs, lhs, v) ==
  LET extra == fs.freereg
      tabs == {i \in DOMAIN lhs : lhs[i].k = "VINDEXED" /\ lhs[i].vt = v.k /\ lhs[i].tab = v.info}
      idxs == {i \in DOMAIN lhs : lhs[i].k = "VINDEXED" /\ v.k = "VLOCAL" /\ lhs[i].idx = v.info}
      safe == [i \in DOMAIN lhs |->
                 LET t == IF i \in tabs THEN [lhs[i] EXCEPT !.vt = "VLOCAL", !.tab = extra] ELSE lhs[i]
                 IN IF i \in idxs THEN [t EXCEPT !.idx = extra] ELSE t]
      copy == luaK_codeABC(fs, IF v.k = "VLOCAL" THEN "MOVE" ELSE "GETUPVAL", extra, v.info, 0)
  IN [fs |-> IF tabs \cup idxs = {} THEN fs ELSE luaK_reserveregs(copy, 1), lhs |-> safe]

(* The targets in their order, with what they have been made to.           *)
targets(fs, vars) ==
  LET add(st, x) ==
        LET r == expr(st.fs, x)
            c == IF r.e.k = "VINDEXED" THEN [fs |-> r.fs, lhs |-> st.lhs]
                 ELSE check_conflict(r.fs, st.lhs, r.e)
        IN [fs |-> c.fs, lhs |-> Append(c.lhs, r.e)]
  IN FoldLeft(add, [fs |-> fs, lhs |-> <<>>], vars)

(* The last target takes the last value; the others theirs from the stack, *)
(* backwards.                                                              *)
assignment(fs, vars, exps) ==
  LET t == targets(fs, vars)
      r == explist(t.fs, exps)
      same == Len(vars) = Len(exps)
      one == luaK_setoneret(r.fs, r.e)
      first == IF same THEN luaK_storevar(one.fs, Last(t.lhs), one.e)
               ELSE adjust_assign(r.fs, Len(vars), Len(exps), r.e)
      default(s, v) == luaK_storevar(s, v, Exp("VNONRELOC", s.freereg - 1))
  IN FoldLeft(default, first, Reverse(IF same THEN Front(t.lhs) ELSE t.lhs))

cond(fs, x) ==
  LET r == expr(fs, x)
      e == IF r.e.k = "VNIL" THEN [r.e EXCEPT !.k = "VFALSE"] ELSE r.e
  IN luaK_goiftrue(r.fs, e)

gotostat(fs, label, list) ==
  findlabel([fs EXCEPT !.gt = Append(@, newlabelentry(fs, label, list))], Len(fs.gt) + 1)

checkrepeated(fs, label) ==
  IF Visible(fs, label) /= {} THEN Fail(fs, "label already defined") ELSE fs

(* A run of labels; one at the end of its block is outside the scope of    *)
(* the locals of the block.                                                *)
RECURSIVE labelstat(_, _, _)
labelstat(fs, names, atend) ==
  LET l == newlabelentry(fs, names[1], pc(fs))
      s == luaK_getlabel([checkrepeated(fs, names[1]) EXCEPT !.label = Append(@, l)])
      rest == labelstat(s, Tail(names), atend)
      lb == IF atend THEN [l EXCEPT !.nactvar = Block(fs).nactvar] ELSE l
  IN IF names = <<>> THEN fs
     ELSE findgotos([rest EXCEPT !.label[Len(fs.label) + 1] = lb], lb)

luaK_jumpto(fs, t) == LET j == luaK_jump(fs) IN luaK_patchlist(j.fs, j.l, t)

whilestat(fs, x) ==
  LET init == luaK_getlabel(fs)
      c == cond(init, x.c)
      b == block(enterblock(c.fs, TRUE), x.body)
  IN luaK_patchtohere(leaveblock(luaK_jumpto(b, pc(fs))), c.e.f)

repeatstat(fs, x) ==
  LET s == statlist(enterblock(enterblock(luaK_getlabel(fs), TRUE), FALSE), x.body, TRUE)
      c == cond(s, x.c)
      bl2 == Block(c.fs)
      p == IF bl2.upval THEN luaK_patchclose(c.fs, c.e.f, bl2.nactvar) ELSE c.fs
  IN leaveblock(luaK_patchlist(leaveblock(p), c.e.f, pc(fs)))

exp1(fs, x) == LET r == expr(fs, x) IN luaK_exp2nextreg(r.fs, r.e).fs

forbody(fs, base, nvars, isnum, stats) ==
  LET a == adjustlocalvars(fs, 3)
      prep == IF isnum THEN [fs |-> luaK_codeABC(a, "FORPREP", base, NO_JUMP, 0), l |-> pc(a)]
              ELSE luaK_jump(a)
      vars == luaK_reserveregs(adjustlocalvars(enterblock(prep.fs, FALSE), nvars), nvars)
      b == luaK_patchtohere(leaveblock(block(vars, stats)), prep.l)
      call == IF isnum THEN b ELSE luaK_codeABC(b, "TFORCALL", base, 0, nvars)
      end == IF isnum THEN luaK_codeABC(call, "FORLOOP", base, NO_JUMP, 0)
             ELSE luaK_codeABC(call, "TFORLOOP", base + 2, NO_JUMP, 0)
  IN luaK_patchlist(end, pc(call), prep.l + 1)

fornum(fs, x) ==
  LET v == new_localvars(fs, <<"(for index)", "(for limit)", "(for step)", x.name>>)
      ab == exp1(exp1(v, x.a), x.b)
      one == addk(ab, IntV(1))
      s == IF x.step = <<>>
           THEN luaK_reserveregs(luaK_codeABC(one.fs, "LOADK", ab.freereg, one.i, 0), 1)
           ELSE exp1(ab, x.step[1])
  IN forbody(s, fs.freereg, 1, TRUE, x.body)

forlist(fs, x) ==
  LET v == new_localvars(fs, <<"(for generator)", "(for state)", "(for control)">> \o x.names)
      r == explist(v, x.exps)
      s == luaK_checkstack(adjust_assign(r.fs, 3, Len(x.exps), r.e), 3)
  IN forbody(s, fs.freereg, Len(x.names), FALSE, x.body)

forstat(fs, x) ==
  LET s == enterblock(fs, TRUE)
  IN leaveblock(IF x.k = "fornum" THEN fornum(s, x) ELSE forlist(s, x))

(* 'if c then goto l' jumps on the condition itself.                       *)
test_then_block(fs, x, islast, escapelist) ==
  LET r == expr(fs, x.c)
      jumps == x.body /= <<>> /\ x.body[1].k \in {"goto", "break"}
      gf == luaK_goiffalse(r.fs, r.e)
      g == gotostat(enterblock(gf.fs, FALSE), x.body[1].name, gf.e.t)
      only == jumps /\ Len(x.body) = 1
      j == luaK_jump(g)
      gt == luaK_goiftrue(r.fs, r.e)
      jf == IF jumps THEN j.l ELSE gt.e.f
      s == leaveblock(IF jumps THEN statlist(j.fs, Tail(x.body), FALSE)
                      ELSE statlist(enterblock(gt.fs, FALSE), x.body, FALSE))
      e == luaK_jump(s)
      c == luaK_concat(e.fs, escapelist, e.l)
  IN CASE only -> [fs |-> leaveblock(g), l |-> escapelist]
       [] ~only /\ islast -> [fs |-> luaK_patchtohere(s, jf), l |-> escapelist]
       [] OTHER -> [fs |-> luaK_patchtohere(c.fs, jf), l |-> c.l]

ifstat(fs, x) ==
  LET step(st, i) == test_then_block(st.fs, x.clauses[i], i = Len(x.clauses) /\ x.orelse = <<>>, st.l)
      t == FoldLeft(step, [fs |-> fs, l |-> NO_JUMP], [i \in DOMAIN x.clauses |-> i])
      e == IF x.orelse = <<>> THEN t.fs ELSE block(t.fs, x.orelse[1])
  IN luaK_patchtohere(e, t.l)

localfunc(fs, x) == body(adjustlocalvars(new_localvars(fs, <<x.name>>), 1), x.f).fs

localstat(fs, x) ==
  LET r == explist(new_localvars(fs, x.names), x.exps)
  IN adjustlocalvars(adjust_assign(r.fs, Len(x.names), Len(x.exps), r.e), Len(x.names))

funcstat(fs, x) ==
  LET v == expr(fs, x.var)
      b == body(v.fs, x.f)
  IN luaK_storevar(b.fs, v.e, b.e)

(* A call as a statement uses no results.                                  *)
exprstat(fs, x) ==
  LET r == expr(fs, x.e) IN [r.fs EXCEPT !.code[r.e.info + 1].C = 1]

retstat(fs, x) ==
  LET r == explist(fs, x.exps)
      s == setmultret(r)
      tail == r.e.k = "VCALL" /\ Len(x.exps) = 1
      t == Assert_([s EXCEPT !.code[r.e.info + 1].op = "TAILCALL"],
                   At(s, r.e.info).A = fs.nactvar)
      any == luaK_exp2anyreg(r.fs, r.e)
      next == luaK_exp2nextreg(r.fs, r.e).fs
  IN CASE x.exps = <<>> -> luaK_ret(fs, 0, 0)
       [] hasmultret(r.e.k) -> luaK_ret(IF tail THEN t ELSE s, fs.nactvar, MULTRET)
       [] ~hasmultret(r.e.k) /\ Len(x.exps) = 1 -> luaK_ret(any.fs, any.e.info, 1)
       [] OTHER -> luaK_ret(Assert_(next, Len(x.exps) = next.freereg - fs.nactvar),
                            fs.nactvar, Len(x.exps))

statement(fs, x) ==
  LET j == luaK_jump(fs)
      s == CASE x.k = "if" -> ifstat(fs, x)
             [] x.k = "while" -> whilestat(fs, x)
             [] x.k = "do" -> block(fs, x.body)
             [] x.k \in {"fornum", "forlist"} -> forstat(fs, x)
             [] x.k = "repeat" -> repeatstat(fs, x)
             [] x.k = "funcstat" -> funcstat(fs, x)
             [] x.k = "localfunc" -> localfunc(fs, x)
             [] x.k = "local" -> localstat(fs, x)
             [] x.k = "return" -> retstat(fs, x)
             [] x.k \in {"goto", "break"} -> gotostat(j.fs, x.name, j.l)
             [] x.k = "assign" -> assignment(fs, x.vars, x.exps)
             [] x.k = "callstat" -> exprstat(fs, x)
  IN [Assert_(s, s.maxstack >= s.freereg /\ s.freereg >= s.nactvar) EXCEPT !.freereg = s.nactvar]

(* The statements of a block; 'until' closes it but not its scope.         *)
statlist(fs, stats, until) ==
  LET run == SelectInSeq(stats, LAMBDA x : x.k /= "label")
      nlabels == IF run = 0 THEN Len(stats) ELSE run - 1
      names == [i \in 1..nlabels |-> stats[i].name]
  IN CASE stats = <<>> \/ fs.err /= "" -> fs
       [] stats /= <<>> /\ nlabels > 0 ->
            statlist(labelstat(fs, names, run = 0 /\ ~until), SubSeq(stats, nlabels + 1, Len(stats)), until)
       [] OTHER -> statlist(statement(fs, stats[1]), Tail(stats), until)

-----------------------------------------------------------------------------
(* The main function: vararg, with the upvalue _ENV.                       *)
mainfunc(stats) ==
  LET main == [newupvalue(open_func(<<>>), "_ENV", Exp("VLOCAL", 0)) EXCEPT !.vararg = TRUE]
      fs == close_func(statlist(main, stats, FALSE))
  IN Assert_(fs, Len(fs.ups) = 1)
=============================================================================
