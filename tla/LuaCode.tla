------------------------------ MODULE LuaCode ------------------------------
(***************************************************************************)
(* The code generator (lcode.c): instructions, lists of jumps threaded     *)
(* through the instructions they will patch, the stack of registers, and   *)
(* expressions that are not evaluated yet.                                 *)
(*                                                                         *)
(* A FuncState is a record 'fs'; every function of lcode.c is an operator  *)
(* that returns the new one, with the expression it changed if any (Res).  *)
(* fs.code holds the instructions, the program counter 'pc' their number;  *)
(* an instruction has the fields op, A, B and C, B for Bx and sBx too.     *)
(* fs.ok says that the assertions of the code have held, fs.err is the     *)
(* error that ended the compilation.                                       *)
(* Left out: floating-point constants, line numbers, LOADKX and EXTRAARG.  *)
(***************************************************************************)
EXTENDS Integers, Sequences, SequencesExt

CONSTANTS
  MAXINDEXRK,       (* largest constant that fits in an operand             *)
  LFIELDS_PER_FLUSH (* list items a constructor keeps in registers         *)

ASSUME CodeAssumption == MAXINDEXRK \in Nat /\ LFIELDS_PER_FLUSH \in Nat \ {0}

NO_JUMP == -1
NO_REG  == 255
BITRK   == 256
MULTRET == -1

ISK(x)   == x >= BITRK
RKASK(x) == x + BITRK

(* Values of constants and of the machine: type and content.               *)
Val(t, v) == <<t, v>>
TypeOf(v) == v[1]
NilV      == Val("nil", 0)
BoolV(b)  == Val("boolean", IF b THEN 1 ELSE 0)
IntV(n)   == Val("integer", n)
StrV(s)   == Val("string", s)
IsFalse(v) == v = NilV \/ v = BoolV(FALSE)

Instr(op, a, b, c) == [op |-> op, A |-> a, B |-> b, C |-> c]

(* testTMode: the instruction is followed by a jump.                       *)
TMode(op) == op \in {"EQ", "LT", "LE", "TEST", "TESTSET"}

Exp(k, i) == [k |-> k, info |-> i, t |-> NO_JUMP, f |-> NO_JUMP,
              tab |-> 0, idx |-> 0, vt |-> "VVOID"]
hasjumps(e)   == e.t /= e.f
hasmultret(k) == k \in {"VCALL", "VVARARG"}
IsNumeral(e)  == e.k = "VKINT" /\ ~hasjumps(e)

Res(fs, e) == [fs |-> fs, e |-> e]
Assert_(fs, cond) == [fs EXCEPT !.ok = @ /\ (fs.err = "" => cond)]

pc(fs)      == Len(fs.code)
At(fs, i)   == fs.code[i + 1]
Put(fs, i, instr)  == [fs EXCEPT !.code[i + 1] = instr]
PrevIs(fs, op) == pc(fs) > 0 /\ At(fs, pc(fs) - 1).op = op

-----------------------------------------------------------------------------
(* Lists of jumps: the offset of each leads to the next.                   *)

getjump(fs, i) == IF At(fs, i).B = NO_JUMP THEN NO_JUMP ELSE i + 1 + At(fs, i).B

(* The positions of a list, in its order.                                  *)
RECURSIVE JumpList(_, _)
JumpList(fs, list) ==
  IF list = NO_JUMP THEN <<>> ELSE <<list>> \o JumpList(fs, getjump(fs, list))

fixjump(fs, i, dest) ==
  Assert_([fs EXCEPT !.code[i + 1].B = dest - (i + 1)], dest /= NO_JUMP)

(* luaK_concat: the new list, and the state where its end is linked.       *)
luaK_concat(fs, l1, l2) ==
  CASE l2 = NO_JUMP -> [fs |-> fs, l |-> l1]
    [] l2 /= NO_JUMP /\ l1 = NO_JUMP -> [fs |-> fs, l |-> l2]
    [] OTHER -> [fs |-> fixjump(fs, Last(JumpList(fs, l1)), l2), l |-> l1]

getjumpcontrol(fs, i) == IF i >= 1 /\ TMode(At(fs, i - 1).op) THEN i - 1 ELSE i

IsTestSet(fs, node) == At(fs, getjumpcontrol(fs, node)).op = "TESTSET"

(* A TESTSET gets its register, or becomes a TEST that produces no value.  *)
patchtestreg(fs, node, reg) ==
  LET i == getjumpcontrol(fs, node)
      ins == At(fs, i)
  IN CASE ins.op /= "TESTSET" -> fs
       [] ins.op = "TESTSET" /\ reg /= NO_REG /\ reg /= ins.B -> Put(fs, i, [ins EXCEPT !.A = reg])
       [] OTHER -> Put(fs, i, Instr("TEST", ins.B, 0, ins.C))

removevalues(fs, list) ==
  FoldLeft(LAMBDA s, node : patchtestreg(s, node, NO_REG), fs, JumpList(fs, list))

need_value(fs, list) == \E node \in ToSet(JumpList(fs, list)) : ~IsTestSet(fs, node)

(* Tests that produce values jump to vtarget, the others to dtarget.       *)
patchlistaux(fs, list, vtarget, reg, dtarget) ==
  FoldLeft(LAMBDA s, node :
             fixjump(patchtestreg(s, node, reg), node,
                     IF IsTestSet(s, node) THEN vtarget ELSE dtarget),
           fs, JumpList(fs, list))

dischargejpc(fs) == [patchlistaux(fs, fs.jpc, pc(fs), NO_REG, pc(fs)) EXCEPT !.jpc = NO_JUMP]

luaK_getlabel(fs) == [fs EXCEPT !.lasttarget = pc(fs)]

luaK_patchtohere(fs, list) ==
  LET r == luaK_concat(luaK_getlabel(fs), fs.jpc, list) IN [r.fs EXCEPT !.jpc = r.l]

luaK_patchlist(fs, list, target) ==
  IF target = pc(fs) THEN luaK_patchtohere(fs, list)
  ELSE patchlistaux(Assert_(fs, target < pc(fs)), list, target, NO_REG, target)

(* The jumps of a list close upvalues from 'level' on.                     *)
luaK_patchclose(fs, list, level) ==
  FoldLeft(LAMBDA s, node :
             [Assert_(s, At(s, node).op = "JMP" /\ (At(s, node).A = 0 \/ At(s, node).A >= level + 1))
                EXCEPT !.code[node + 1].A = level + 1],
           fs, JumpList(fs, list))

-----------------------------------------------------------------------------
(* Instructions and registers                                              *)

(* Every new instruction is the target of the jumps that wait in jpc.      *)
luaK_codeABC(fs, op, a, b, c) ==
  LET s == dischargejpc(fs) IN [s EXCEPT !.code = Append(@, Instr(op, a, b, c))]

(* The jump created is the last instruction; the jumps to here are put on  *)
(* hold with it.                                                           *)
luaK_jump(fs) ==
  LET s == luaK_codeABC([fs EXCEPT !.jpc = NO_JUMP], "JMP", 0, NO_JUMP, 0)
      r == luaK_concat(s, pc(fs), fs.jpc)
  IN r

condjump(fs, op, a, b, c) == luaK_jump(luaK_codeABC(fs, op, a, b, c))
luaK_ret(fs, first, nret) == luaK_codeABC(fs, "RETURN", first, nret + 1, 0)

(* Consecutive LOADNILs with no jump between them are joined.              *)
luaK_nil(fs, from, n) ==
  LET prev == At(fs, pc(fs) - 1)
      l == from + n - 1
      pl == prev.A + prev.B
      first == IF prev.A < from THEN prev.A ELSE from
      last == IF pl > l THEN pl ELSE l
  IN IF pc(fs) > fs.lasttarget /\ PrevIs(fs, "LOADNIL")
          /\ ((prev.A <= from /\ from <= pl + 1) \/ (from <= prev.A /\ prev.A <= l + 1))
     THEN Put(fs, pc(fs) - 1, Instr("LOADNIL", first, last - first, 0))
     ELSE luaK_codeABC(fs, "LOADNIL", from, n - 1, 0)

luaK_checkstack(fs, n) == [fs EXCEPT !.maxstack = IF fs.freereg + n > @ THEN fs.freereg + n ELSE @]
luaK_reserveregs(fs, n) == [luaK_checkstack(fs, n) EXCEPT !.freereg = @ + n]

freereg(fs, reg) ==
  IF ISK(reg) \/ reg < fs.nactvar THEN fs
  ELSE Assert_([fs EXCEPT !.freereg = @ - 1], reg = fs.freereg - 1)

freeexp(fs, e) == IF e.k = "VNONRELOC" THEN freereg(fs, e.info) ELSE fs

(* Fault: the lower register first.                                        *)
freeexpsInOrder(fs, e1, e2) == freeexp(freeexp(fs, e1), e2)

(* In stack order: the higher register first.                              *)
freeexps(fs, e1, e2) ==
  IF e1.k = "VNONRELOC" /\ (e2.k = "VNONRELOC" => e1.info > e2.info)
  THEN freeexp(freeexp(fs, e1), e2) ELSE freeexp(freeexp(fs, e2), e1)

(* The index of a constant, which is added if it is new.                   *)
addk(fs, v) ==
  IF \E i \in DOMAIN fs.k : fs.k[i] = v
  THEN [fs |-> fs, i |-> (CHOOSE i \in DOMAIN fs.k : fs.k[i] = v) - 1]
  ELSE [fs |-> [fs EXCEPT !.k = Append(@, v)], i |-> Len(fs.k)]

ConstantOf(e) ==
  CASE e.k = "VTRUE" -> BoolV(TRUE) [] e.k = "VFALSE" -> BoolV(FALSE)
    [] e.k = "VNIL" -> NilV [] e.k = "VKINT" -> IntV(e.info)

-----------------------------------------------------------------------------
(* From expressions to registers                                           *)

luaK_setreturns(fs, e, nresults) ==
  CASE e.k = "VCALL" -> [fs EXCEPT !.code[e.info + 1].C = nresults + 1]
    [] e.k = "VVARARG" ->
         luaK_reserveregs([fs EXCEPT !.code[e.info + 1].B = nresults + 1,
                                     !.code[e.info + 1].A = fs.freereg], 1)
    [] OTHER -> Assert_(fs, nresults = MULTRET)

luaK_setoneret(fs, e) ==
  CASE e.k = "VCALL" ->
         Res(Assert_(fs, At(fs, e.info).C = 2),
             [e EXCEPT !.k = "VNONRELOC", !.info = At(fs, e.info).A])
    [] e.k = "VVARARG" ->
         Res([fs EXCEPT !.code[e.info + 1].B = 2], [e EXCEPT !.k = "VRELOCABLE"])
    [] OTHER -> Res(fs, e)

luaK_dischargevars(fs, e) ==
  CASE e.k = "VLOCAL" -> Res(fs, [e EXCEPT !.k = "VNONRELOC"])
    [] e.k = "VUPVAL" ->
         Res(luaK_codeABC(fs, "GETUPVAL", 0, e.info, 0),
             [e EXCEPT !.k = "VRELOCABLE", !.info = pc(fs)])
    [] e.k = "VINDEXED" ->
         LET s == freereg(fs, e.idx)
             s2 == IF e.vt = "VLOCAL" THEN freereg(s, e.tab) ELSE Assert_(s, e.vt = "VUPVAL")
         IN Res(luaK_codeABC(s2, IF e.vt = "VLOCAL" THEN "GETTABLE" ELSE "GETTABUP", 0, e.tab, e.idx),
                [e EXCEPT !.k = "VRELOCABLE", !.info = pc(fs)])
    [] hasmultret(e.k) -> luaK_setoneret(fs, e)
    [] OTHER -> Res(fs, e)

discharge2reg(fs0, e0, reg) ==
  LET d == luaK_dischargevars(fs0, e0)
      fs == d.fs
      e == d.e
      k == addk(fs, ConstantOf(e))
      done(s) == Res(s, [e EXCEPT !.k = "VNONRELOC", !.info = reg])
  IN CASE e.k = "VNIL" -> done(luaK_nil(fs, reg, 1))
       [] e.k \in {"VFALSE", "VTRUE"} ->
            done(luaK_codeABC(fs, "LOADBOOL", reg, IF e.k = "VTRUE" THEN 1 ELSE 0, 0))
       [] e.k = "VK" -> done(luaK_codeABC(fs, "LOADK", reg, e.info, 0))
       [] e.k = "VKINT" -> done(luaK_codeABC(k.fs, "LOADK", reg, k.i, 0))
       [] e.k = "VRELOCABLE" -> done([fs EXCEPT !.code[e.info + 1].A = reg])
       [] e.k = "VNONRELOC" ->
            done(IF reg = e.info THEN fs ELSE luaK_codeABC(fs, "MOVE", reg, e.info, 0))
       [] OTHER -> Res(Assert_(fs, e.k = "VJMP"), e)

discharge2anyreg(fs, e) ==
  IF e.k = "VNONRELOC" THEN Res(fs, e)
  ELSE LET s == luaK_reserveregs(fs, 1) IN discharge2reg(s, e, s.freereg - 1)

(* The jumps of the expression go to its end, or, for tests that produce   *)
(* no value, to one of two instructions that load it.                      *)
exp2reg(fs0, e0, reg) ==
  LET d == discharge2reg(fs0, e0, reg)
      cat == luaK_concat(d.fs, d.e.t, d.e.info)
      fs == IF d.e.k = "VJMP" THEN cat.fs ELSE d.fs
      e == IF d.e.k = "VJMP" THEN [d.e EXCEPT !.t = cat.l] ELSE d.e
      loads == need_value(fs, e.t) \/ need_value(fs, e.f)
      j == IF e.k = "VJMP" THEN [fs |-> fs, l |-> NO_JUMP] ELSE luaK_jump(fs)
      pf == pc(j.fs)
      sf == luaK_codeABC(luaK_getlabel(j.fs), "LOADBOOL", reg, 0, 1)
      st == luaK_codeABC(luaK_getlabel(sf), "LOADBOOL", reg, 1, 0)
      s == luaK_getlabel(IF loads THEN luaK_patchtohere(st, j.l) ELSE fs)
      final == pc(s)
      s1 == patchlistaux(s, e.f, final, reg, IF loads THEN pf ELSE NO_JUMP)
      s2 == patchlistaux(s1, e.t, final, reg, IF loads THEN pf + 1 ELSE NO_JUMP)
  IN Res(IF hasjumps(e) THEN s2 ELSE fs, Exp("VNONRELOC", reg))

luaK_exp2nextreg(fs, e) ==
  LET d == luaK_dischargevars(fs, e)
      s == luaK_reserveregs(freeexp(d.fs, d.e), 1)
  IN exp2reg(s, d.e, s.freereg - 1)

luaK_exp2anyreg(fs, e) ==
  LET d == luaK_dischargevars(fs, e)
  IN CASE d.e.k = "VNONRELOC" /\ ~hasjumps(d.e) -> d
       [] d.e.k = "VNONRELOC" /\ hasjumps(d.e) /\ d.e.info >= fs.nactvar ->
            exp2reg(d.fs, d.e, d.e.info)
       [] OTHER -> luaK_exp2nextreg(d.fs, d.e)

luaK_exp2anyregup(fs, e) ==
  IF e.k /= "VUPVAL" \/ hasjumps(e) THEN luaK_exp2anyreg(fs, e) ELSE Res(fs, e)

luaK_exp2val(fs, e) ==
  IF hasjumps(e) THEN luaK_exp2anyreg(fs, e) ELSE luaK_dischargevars(fs, e)

(* A register or the index of a constant, if it fits: in e.info, e.k tells *)
(* which; RK gives the operand.                                            *)
luaK_exp2RK(fs, e) ==
  LET d == luaK_exp2val(fs, e)
      isconst == d.e.k \in {"VTRUE", "VFALSE", "VNIL", "VKINT"}
      k == addk(d.fs, ConstantOf(d.e))
      c == IF isconst THEN Res(k.fs, [d.e EXCEPT !.k = "VK", !.info = k.i]) ELSE d
  IN IF c.e.k = "VK" /\ c.e.info <= MAXINDEXRK THEN c ELSE luaK_exp2anyreg(c.fs, c.e)

RK(e) == IF e.k = "VK" THEN RKASK(e.info) ELSE e.info

luaK_storevar(fs, var, ex) ==
  CASE var.k = "VLOCAL" -> exp2reg(freeexp(fs, ex), ex, var.info).fs
    [] var.k = "VUPVAL" ->
         LET r == luaK_exp2anyreg(fs, ex)
         IN freeexp(luaK_codeABC(r.fs, "SETUPVAL", r.e.info, var.info, 0), r.e)
    [] var.k = "VINDEXED" ->
         LET r == luaK_exp2RK(fs, ex)
         IN freeexp(luaK_codeABC(r.fs, IF var.vt = "VLOCAL" THEN "SETTABLE" ELSE "SETTABUP",
                                 var.tab, var.idx, RK(r.e)), r.e)

luaK_indexed(fs, t, key) ==
  LET r == luaK_exp2RK(fs, key)
  IN Res(Assert_(r.fs, ~hasjumps(t) /\ t.k \in {"VNONRELOC", "VLOCAL", "VUPVAL"}),
         [t EXCEPT !.k = "VINDEXED", !.tab = t.info, !.idx = RK(r.e),
                   !.vt = IF t.k = "VUPVAL" THEN "VUPVAL" ELSE "VLOCAL"])

(* A method call: the function and the object in two new registers.        *)
luaK_self(fs, e, key) ==
  LET o == luaK_exp2anyreg(fs, e)
      f == freeexp(o.fs, o.e)
      base == f.freereg
      k == luaK_exp2RK(luaK_reserveregs(f, 2), key)
  IN Res(freeexp(luaK_codeABC(k.fs, "SELF", base, o.e.info, RK(k.e)), k.e), Exp("VNONRELOC", base))

-----------------------------------------------------------------------------
(* Conditions                                                              *)

negatecondition(fs, e) ==
  LET i == getjumpcontrol(fs, e.info)
  IN Assert_([fs EXCEPT !.code[i + 1].A = 1 - @], At(fs, i).op \in {"EQ", "LT", "LE"})

(* Jumps if e is 'cond'; a NOT just generated is removed.                  *)
jumponcond(fs, e, cond) ==
  IF e.k = "VRELOCABLE" /\ At(fs, e.info).op = "NOT"
  THEN condjump([fs EXCEPT !.code = Front(@)], "TEST", At(fs, e.info).B, 0, 1 - cond)
  ELSE LET d == discharge2anyreg(fs, e)
       IN condjump(freeexp(d.fs, d.e), "TESTSET", NO_REG, d.e.info, cond)

(* Fault: a condition that is always true jumps as well.                   *)
luaK_goiftrueJumps(fs, e) ==
  LET d == luaK_dischargevars(fs, e)
      j == CASE d.e.k = "VJMP" -> [fs |-> negatecondition(d.fs, d.e), l |-> d.e.info]
             [] d.e.k \in {"VK", "VKINT", "VTRUE"} -> luaK_jump(d.fs)
             [] OTHER -> jumponcond(d.fs, d.e, 0)
      c == luaK_concat(j.fs, d.e.f, j.l)
  IN Res(luaK_patchtohere(c.fs, d.e.t), [d.e EXCEPT !.f = c.l, !.t = NO_JUMP])

luaK_goiftrue(fs, e) ==
  LET d == luaK_dischargevars(fs, e)
      j == CASE d.e.k = "VJMP" -> [fs |-> negatecondition(d.fs, d.e), l |-> d.e.info]
             [] d.e.k \in {"VK", "VKINT", "VTRUE"} -> [fs |-> d.fs, l |-> NO_JUMP]
             [] OTHER -> jumponcond(d.fs, d.e, 0)
      c == luaK_concat(j.fs, d.e.f, j.l)
  IN Res(luaK_patchtohere(c.fs, d.e.t), [d.e EXCEPT !.f = c.l, !.t = NO_JUMP])

luaK_goiffalse(fs, e) ==
  LET d == luaK_dischargevars(fs, e)
      j == CASE d.e.k = "VJMP" -> [fs |-> d.fs, l |-> d.e.info]
             [] d.e.k \in {"VNIL", "VFALSE"} -> [fs |-> d.fs, l |-> NO_JUMP]
             [] OTHER -> jumponcond(d.fs, d.e, 1)
      c == luaK_concat(j.fs, d.e.t, j.l)
  IN Res(luaK_patchtohere(c.fs, d.e.f), [d.e EXCEPT !.t = c.l, !.f = NO_JUMP])

codenot(fs, e0) ==
  LET d == luaK_dischargevars(fs, e0)
      a == discharge2anyreg(d.fs, d.e)
      n == CASE d.e.k \in {"VNIL", "VFALSE"} -> Res(d.fs, [d.e EXCEPT !.k = "VTRUE"])
             [] d.e.k \in {"VK", "VKINT", "VTRUE"} -> Res(d.fs, [d.e EXCEPT !.k = "VFALSE"])
             [] d.e.k = "VJMP" -> Res(negatecondition(d.fs, d.e), d.e)
             [] OTHER ->
                  LET s == freeexp(a.fs, a.e)
                  IN Res(luaK_codeABC(s, "NOT", 0, a.e.info, 0),
                         [a.e EXCEPT !.k = "VRELOCABLE", !.info = pc(s)])
      e == [n.e EXCEPT !.t = n.e.f, !.f = n.e.t]
  IN Res(removevalues(removevalues(n.fs, e.f), e.t), e)

-----------------------------------------------------------------------------
(* Operators.  Arithmetic is abstracted to '+', '-' and '//': one that     *)
(* always folds and one that must not fold a division by zero.             *)

Arith(op, m, n) == CASE op = "ADD" -> m + n [] op = "SUB" -> m - n [] op = "IDIV" -> m \div n
ArithOps   == {"ADD", "SUB", "IDIV"}
Compares   == {"EQ", "NE", "LT", "LE", "GT", "GE"}

validop(op, n) == op /= "IDIV" \/ n /= 0

codeunexpval(fs, op, e) ==
  LET r == luaK_exp2anyreg(fs, e)
      s == freeexp(r.fs, r.e)
  IN Res(luaK_codeABC(s, op, 0, r.e.info, 0), [r.e EXCEPT !.k = "VRELOCABLE", !.info = pc(s)])

codebinexpval(fs, op, e1, e2) ==
  LET r2 == luaK_exp2RK(fs, e2)
      r1 == luaK_exp2RK(r2.fs, e1)
      s == freeexps(r1.fs, r1.e, r2.e)
  IN Res(luaK_codeABC(s, op, 0, RK(r1.e), RK(r2.e)), [r1.e EXCEPT !.k = "VRELOCABLE", !.info = pc(s)])

codecomp(fs, op, e1, e2) ==
  LET r == luaK_exp2RK(fs, e2)
      s == Assert_(freeexps(r.fs, e1, r.e), e1.k \in {"VK", "VNONRELOC"})
      j == CASE op = "NE" -> condjump(s, "EQ", 0, RK(e1), RK(r.e))
             [] op = "GT" -> condjump(s, "LT", 1, RK(r.e), RK(e1))
             [] op = "GE" -> condjump(s, "LE", 1, RK(r.e), RK(e1))
             [] OTHER -> condjump(s, op, 1, RK(e1), RK(r.e))
  IN Res(j.fs, [e1 EXCEPT !.k = "VJMP", !.info = j.l])

luaK_prefix(fs, op, e) ==
  CASE op = "NOT" -> codenot(fs, e)
    [] op = "UNM" /\ IsNumeral(e) -> Res(fs, [e EXCEPT !.info = -@])
    [] OTHER -> codeunexpval(fs, op, e)

luaK_infix(fs, op, v) ==
  CASE op = "AND" -> luaK_goiftrue(fs, v)
    [] op = "OR" -> luaK_goiffalse(fs, v)
    [] op = "CONCAT" -> luaK_exp2nextreg(fs, v)
    [] op \in ArithOps /\ IsNumeral(v) -> Res(fs, v)
    [] OTHER -> luaK_exp2RK(fs, v)

luaK_posfix(fs, op, e1, e2) ==
  CASE op = "AND" ->
         LET d == luaK_dischargevars(Assert_(fs, e1.t = NO_JUMP), e2)
             c == luaK_concat(d.fs, d.e.f, e1.f)
         IN Res(c.fs, [d.e EXCEPT !.f = c.l])
    [] op = "OR" ->
         LET d == luaK_dischargevars(Assert_(fs, e1.f = NO_JUMP), e2)
             c == luaK_concat(d.fs, d.e.t, e1.t)
         IN Res(c.fs, [d.e EXCEPT !.t = c.l])
    [] op = "CONCAT" ->
         LET d == luaK_exp2val(fs, e2)
             n == luaK_exp2nextreg(d.fs, d.e)
         IN IF d.e.k = "VRELOCABLE" /\ At(d.fs, d.e.info).op = "CONCAT"
            THEN Res([freeexp(Assert_(d.fs, e1.info = At(d.fs, d.e.info).B - 1), e1)
                        EXCEPT !.code[d.e.info + 1].B = e1.info],
                     [e1 EXCEPT !.k = "VRELOCABLE", !.info = d.e.info])
            ELSE codebinexpval(n.fs, "CONCAT", e1, n.e)
    [] op \in ArithOps ->
         IF IsNumeral(e1) /\ IsNumeral(e2) /\ validop(op, e2.info)
         THEN Res(fs, [e1 EXCEPT !.info = Arith(op, @, e2.info)])
         ELSE codebinexpval(fs, op, e1, e2)
    [] op \in Compares -> codecomp(fs, op, e1, e2)

(* A list of a constructor: 'tostore' values in the registers after base.  *)
luaK_setlist(fs, base, nelems, tostore) ==
  [luaK_codeABC(Assert_(fs, tostore /= 0 /\ tostore <= LFIELDS_PER_FLUSH), "SETLIST", base,
                IF tostore = MULTRET THEN 0 ELSE tostore, (nelems - 1) \div LFIELDS_PER_FLUSH + 1)
     EXCEPT !.freereg = base + 1]
=============================================================================
