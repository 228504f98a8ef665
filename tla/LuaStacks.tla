----------------------------- MODULE LuaStacks -----------------------------
(***************************************************************************)
(* How the C stack, the frames of the threads and the counters fit         *)
(* together: the inductive invariants behind the properties of LuaCall.    *)
(* They are in layers, each proved with the help of those before it.       *)
(***************************************************************************)
EXTENDS LuaCall

(***************************************************************************)
(* What the theorems assume of the program: in a coroutine no hook uses an *)
(* operator with a metamethod.  Section 7 of the README tells what happens *)
(* otherwise.                                                              *)
(***************************************************************************)
HooksAvoidMetamethods ==
  \A p \in Programs : \A L \in Coroutines : "hookmetamethod" \notin p[L]

Bodies == {"cfun", "exec"}
Kinds  == Bodies \union {"host", "call", "pcall", "hook", "gctm", "load", "parser", "level",
                         "errormsg", "resume"}

(***************************************************************************)
(* Types.                                                                  *)
(***************************************************************************)
ThreadState ==
  [status: ErrorStatus \union {"OK", "YIELD"}, ci: Seq(Frame), nny: Int, nCcalls: Int, errfunc: Nat,
   allowhook: BOOLEAN, hook: Hooks, big: BOOLEAN, body: BOOLEAN, ops: SUBSET Operations,
   armed: BOOLEAN]

Activation ==
  [kind: {"host", "cfun", "exec", "load", "parser", "level", "errormsg"}, th: Threads, ci: Nat]
    \union [kind: {"call"}, th: Threads, ci: Nat, noyield: BOOLEAN, yp: BOOLEAN]
    \union [kind: {"pcall"}, th: Threads, ci: Nat, oah: BOOLEAN, nny: Int, oerr: Nat, ncc: Int]
    \union [kind: {"hook"}, th: Threads, ci: Nat, ev: {"call", "ret", "count"}, fn: Hooks]
    \union [kind: {"gctm"}, th: Threads, ci: Nat, oah: BOOLEAN]
    \union [kind: {"resume"}, th: Threads, ci: Nat, oldnny: Int, ncc: Int]

TypeOK ==
  /\ state \in [Threads -> ThreadState]
  /\ cstack \in Seq(Activation)
  /\ mode \in Phases \union ErrorStatus \union {"YIELD"}

(***************************************************************************)
(* First layer: the C stack and the counters.                              *)
(***************************************************************************)
(* The activations that the counters count, up to the i-th one.            *)
CCalls(cs, i) == {j \in 1 .. i : cs[j].kind \in {"call", "resume", "level"}}
NoYields(cs, i) ==
  {j \in 1 .. i : cs[j].th = cs[i].th /\ (cs[j].kind = "load" \/ (cs[j].kind = "call" /\ cs[j].noyield))}
NC(cs, i) == Cardinality(CCalls(cs, i))
NY(cs, i) == (IF cs[i].th = Main THEN 1 ELSE 0) + Cardinality(NoYields(cs, i))
HooksOn(cs, i) == \A j \in 1 .. i : cs[j].th = cs[i].th => cs[j].kind \notin {"hook", "gctm"}

(* What an activation saves: the counters as they were.                    *)
Saved(cs, i) ==
  LET a == cs[i]
  IN /\ a.kind = "pcall"  => a.ncc = NC(cs, i) /\ a.nny = NY(cs, i) /\ a.oah = HooksOn(cs, i)
     /\ a.kind = "resume" => a.ncc = NC(cs, i) /\ a.oldnny = 1 /\ a.th /= Main
     /\ a.kind = "gctm"   => a.oah = HooksOn(cs, i - 1)
     /\ a.kind = "hook"   => HooksOn(cs, i - 1)

(* The kinds of activations that make one of a kind.                       *)
Callers(kind) ==
  CASE kind \in Bodies   -> {"call", "resume", "exec"}
    [] kind = "call"     -> Bodies \union {"hook", "pcall", "errormsg", "parser", "level"}
    [] kind = "pcall"    -> {"host", "cfun", "hook", "gctm", "load"}
    [] kind = "hook"     -> Bodies \union {"resume"}
    [] kind = "gctm"     -> Bodies \union {"hook", "parser", "level"}
    [] kind = "load"     -> {"cfun"}
    [] kind = "parser"   -> {"pcall"}
    [] kind = "level"    -> {"parser", "level"}
    [] kind = "errormsg" -> Bodies \union {"call", "hook", "resume"}
    [] kind = "resume"   -> {"cfun"}
    [] OTHER             -> {}

(* The activation b was made by a.                                         *)
Made(a, b) ==
  /\ a.kind \in Callers(b.kind)
  /\ b.kind /= "resume" => b.th = a.th
  /\ a.kind \in {"host", "gctm", "load"} => b.kind = "pcall"
  /\ a.kind = "pcall" => b.kind \in {"call", "parser"}
  /\ b.kind = "exec" => a.kind /= "exec"
  /\ b.kind = "hook" => (a.kind = "resume" => b.ev = "ret") /\ (b.ev = "count" => a.kind = "exec")
  /\ b.kind = "call" /\ ~b.noyield => a.kind \in Bodies \/ (a.kind = "hook" /\ a.th = Main)

(* A thread has its activations together, from its resume on.              *)
Together(cs, i) ==
  \E r \in 1 .. i : /\ \A j \in r .. i : cs[j].th = cs[i].th
                    /\ \A j \in 1 .. r - 1 : cs[j].th /= cs[i].th
                    /\ \A j \in r + 1 .. i : cs[j].kind \notin {"host", "resume"}
                    /\ cs[r].kind = (IF cs[i].th = Main THEN "host" ELSE "resume")

(* Where nny is 0, nothing but calls that may yield is above the resume.   *)
Yieldable(cs, i) ==
  NY(cs, i) = 0 /\ cs[i].kind \in Bodies \union {"call", "resume"} =>
    \A j \in 1 .. i : cs[j].th = cs[i].th => cs[j].kind \in Bodies \union {"call", "resume"}

StackOK(cs) ==
  /\ cs \in Seq(Activation) /\ Len(cs) > 0 /\ cs[1] = Host
  /\ \A i \in 1 .. Len(cs) : Saved(cs, i) /\ Together(cs, i) /\ Yieldable(cs, i)
  /\ \A i \in 2 .. Len(cs) : Made(cs[i - 1], cs[i])

Runs(cs, L) == \E i \in 1 .. Len(cs) : cs[i].th = L

(* A thread whose last activation is the i-th one.                         *)
Counted(s, cs, i) ==
  s.nCcalls = NC(cs, i) /\ s.nny = NY(cs, i) /\ s.allowhook = HooksOn(cs, i) /\ ~s.body

(* A thread that is not active: new, suspended, finished or dead.          *)
Idle(s) ==
  /\ s.nny = 1
  /\ s.body => s.status = "OK"
  /\ s.status = "YIELD" \/ s.body => s.allowhook

(* The threads that do not run.                                            *)
OthersOK(st, cs) ==
  /\ \A i \in 1 .. Len(cs) - 1 : cs[i + 1].kind = "resume" =>
       Counted(st[cs[i].th], cs, i) /\ st[cs[i].th].status = "OK"
  /\ \A L \in Coroutines : ~Runs(cs, L) => Idle(st[L])

Last(cs) == cs[Len(cs)]

(* The state of a thread: a suspended lua_pcallk was made with hooks       *)
(* allowed.                                                                *)
ThreadOK(s) == s \in ThreadState /\ \A d \in DOMAIN s.ci : s.ci[d].yp => s.ci[d].oah

(* The thread that runs, and where in a call it is.                        *)
InMode(s, a, n, m) ==
  /\ s.status = (IF m = "YIELD" THEN "YIELD" ELSE "OK")
  /\ n = 1 => m = "run"
  /\ m = "precall" => a.kind \in {"call", "exec", "resume"}
  /\ m \in {"ret", "poscall"} => a.kind \in Bodies \union {"resume"}
  /\ m = "errormsg" => a.kind \in Bodies \union {"call", "hook", "resume"}
  /\ m = "YIELD" => a.kind \in Bodies /\ s.nny = 0

Modes == Phases \union ErrorStatus \union {"YIELD"}

CountOK(st, cs, m) ==
  /\ st \in [Threads -> ThreadState] /\ \A L \in Threads : ThreadOK(st[L])
  /\ \A L \in Coroutines : "hookmetamethod" \notin st[L].ops
  /\ StackOK(cs) /\ OthersOK(st, cs)
  /\ Counted(st[Last(cs).th], cs, Len(cs))
  /\ m \in Modes /\ InMode(st[Last(cs).th], Last(cs), Len(cs), m)

CountInv == CountOK(state, cstack, mode)

(***************************************************************************)
(* Second layer: the frames.                                               *)
(***************************************************************************)
(* Of the frames 'ci' of a thread: the Lua functions, the ones that        *)
(* luaV_execute was entered with, and the suspended calls of lua_pcallk.   *)
LuaFrames(ci)   == {d \in DOMAIN ci : ci[d].lua}
FreshFrames(ci) == {d \in DOMAIN ci : ci[d].fresh}
Suspended(ci)   == {d \in DOMAIN ci : ci[d].yp}

Ci(st, cs, i) == st[cs[i].th].ci
LastOne(cs, i) == i = Len(cs) \/ cs[i + 1].kind = "resume"

(* The number of frames when the i-th activation goes on.                  *)
Extent(st, cs, i) ==
  IF LastOne(cs, i) THEN Len(Ci(st, cs, i))
  ELSE IF cs[i + 1].kind \in Bodies THEN cs[i + 1].ci - 1 ELSE cs[i + 1].ci

(* The activations of a thread have their frames in order, ...             *)
InOrder(cs, i) ==
  /\ \A j \in 1 .. i - 1 : cs[j].th = cs[i].th =>
       cs[j].ci <= cs[i].ci /\ (cs[i].kind \in Bodies => cs[j].ci < cs[i].ci)
  /\ cs[i].kind \in {"host", "resume"} => cs[i].ci = 1
  /\ cs[i].kind \in Bodies \union {"hook"} => cs[i].ci > 1

(* ... and each is where it was when it goes on.  One of luaV_execute runs *)
(* its own frame and those that OP_CALL pushed.                            *)
AtFrame(st, cs, i) ==
  LET a   == cs[i]
      ci  == Ci(st, cs, i)
      own == a.ci .. Extent(st, cs, i)
  IN /\ a.kind \notin {"exec", "resume"} => Extent(st, cs, i) = a.ci
     /\ a.kind = "cfun" => a.ci \notin LuaFrames(ci)
     /\ a.kind = "exec" => own \subseteq LuaFrames(ci) /\ own \intersect FreshFrames(ci) = {a.ci}

(* A suspended call was made by a C function.                              *)
FrameOK(ci) == Len(ci) > 0 /\ \A d \in Suspended(ci) : d > 1 /\ d \notin LuaFrames(ci)

(* The frames of the activations exist.                                    *)
FramesExist(st, cs) == \A i \in 1 .. Len(cs) : cs[i].ci \in 1 .. Len(st[cs[i].th].ci)

FramesOK(st, cs) ==
  /\ \A L \in Threads : FrameOK(st[L].ci)
  /\ \A L \in Coroutines : ~Runs(cs, L) /\ st[L].status = "YIELD" => Len(st[L].ci) > 1
  /\ \A i \in 1 .. Len(cs) : InOrder(cs, i) /\ AtFrame(st, cs, i)
  /\ FramesExist(st, cs)

FrameInv == FramesOK(state, cstack) /\ (mode \in {"ret", "poscall"} => Len(S.ci) > 1)

(***************************************************************************)
(* Third layer: the protected calls of a thread, on the C stack or         *)
(* suspended, the functions that wait in them, and the extra stack.        *)
(***************************************************************************)
(* The frames of the protected calls of L in luaD_pcall, of the first n    *)
(* activations; the frames that an errfunc may be in.                      *)
PcallFrames(cs, L, n) == {cs[j].ci : j \in {k \in 1 .. n : cs[k].kind = "pcall" /\ cs[k].th = L}}
HandlerFrames(ci, cs, L, n) == {0} \union Suspended(ci) \union PcallFrames(cs, L, n)

(* The suspended calls are older than those on the C stack, and what is    *)
(* saved as errfunc is older too.                                          *)
Older(ci, cs, i) ==
  /\ cs[i].kind = "pcall" => /\ \A d \in Suspended(ci) : d <= cs[i].ci
                             /\ cs[i].oerr \in HandlerFrames(ci, cs, cs[i].th, i - 1)
  /\ cs[i].kind = "call" /\ cs[i].yp => NY(cs, i) = 0

(* a, then b on the C stack: the C function that made a suspended call     *)
(* waits for it, or has been left by a yield, as has a function without a  *)
(* continuation that lua_resume lets return.                               *)
Waits(ci, a, b) ==
  /\ a.kind = "cfun" /\ a.ci \in Suspended(ci) => b.kind = "call" /\ b.yp
  /\ b.kind = "call" /\ b.yp => a.kind = "cfun" /\ a.ci \in Suspended(ci)
  /\ a.kind = "resume" /\ b.kind = "hook" => b.ci \notin Suspended(ci)

Returning(a, m) == a.kind = "resume" /\ m \in {"ret", "poscall"}
LastNot(s) == Len(s.ci) \notin Suspended(s.ci)
Rests(s, a, m) ==
  /\ a.kind = "cfun" => a.ci \notin Suspended(s.ci)
  /\ Returning(a, m) => LastNot(s)

(* A thread that is not dead: the frames of its errfunc and of those that  *)
(* its suspended calls saved.                                              *)
Live(s) == s.status \in {"OK", "YIELD"}
ErrfuncOK(s, cs, L) ==
  /\ s.errfunc \in HandlerFrames(s.ci, cs, L, Len(cs))
  /\ \A d \in Suspended(s.ci) : s.ci[d].oerr \in {0} \union {e \in Suspended(s.ci) : e < d}
  /\ s.status = "YIELD" /\ ~Runs(cs, L) => LastNot(s)

HandlersOK(st, cs, m) ==
  /\ \A i \in 1 .. Len(cs) : Older(Ci(st, cs, i), cs, i)
  /\ \A i \in 2 .. Len(cs) : Waits(Ci(st, cs, i - 1), cs[i - 1], cs[i])
  /\ \A L \in Threads : Live(st[L]) => ErrfuncOK(st[L], cs, L)
  /\ Rests(st[Last(cs).th], Last(cs), m)

HandlersInv == HandlersOK(state, cstack, mode)

(* A C function that calls so that the callee may yield has a              *)
(* continuation, as have all below a suspended call.  The others are       *)
(* active, or return when lua_resume gets to them.                         *)
MayContinue(ci, a, b) == a.kind = "cfun" /\ b.kind = "call" /\ ~b.noyield => ci[a.ci].k
InUse(cs, L, d) ==
  \E j \in 2 .. Len(cs) : /\ cs[j].th = L /\ cs[j].ci = d
                          /\ cs[j].kind = "cfun" \/ (cs[j].kind = "hook" /\ cs[j - 1].kind = "resume")
CFrames(ci, n) == {d \in 2 .. n : d \notin LuaFrames(ci)}
LeftOK(s, cs, L, m) ==
  /\ \A d \in CFrames(s.ci, Len(s.ci)) :
       \/ s.ci[d].k \/ InUse(cs, L, d)
       \/ d = Len(s.ci) /\ (s.status = "YIELD" \/ (L = Last(cs).th /\ Returning(Last(cs), m)))
  /\ \A e \in Suspended(s.ci) : \A d \in CFrames(s.ci, e - 1) : s.ci[d].k

ReadyOK(st, cs, m) ==
  /\ \A i \in 2 .. Len(cs) : MayContinue(Ci(st, cs, i - 1), cs[i - 1], cs[i])
  /\ \A L \in Threads : Live(st[L]) => LeftOK(st[L], cs, L, m)

ReadyInv == ReadyOK(state, cstack, mode)

(* Only a handler that was called when the stack was full uses the extra   *)
(* frames.                                                                 *)
Overflow(cs, L, n) ==
  \E e \in 1 .. n : cs[e].kind = "errormsg" /\ cs[e].th = L /\ cs[e].ci >= MAXFRAMES
Handling(m) == m \in ErrorStatus \union {"errormsg"}
SizeOK(s, cs, L, m) ==
  /\ s.big => Overflow(cs, L, Len(cs)) \/ (L = Last(cs).th /\ Handling(m))
  /\ Len(s.ci) > MAXFRAMES => Overflow(cs, L, Len(cs))
  /\ \A d \in Suspended(s.ci) : d <= MAXFRAMES

RoomOK(st, cs, m) ==
  /\ \A i \in 1 .. Len(cs) : cs[i].ci > MAXFRAMES => Overflow(cs, cs[i].th, i - 1)
  /\ \A L \in Threads : /\ st[L].big => Len(st[L].ci) >= MAXFRAMES
                        /\ Live(st[L]) => SizeOK(st[L], cs, L, m)

RoomInv == RoomOK(state, cstack, mode)

(* The limit of C calls: only an error that is thrown reaches it.          *)
CLimit == LUAI_MAXCCALLS + EXTRACCALLS
LimitInv ==
  /\ \/ S.nCcalls < CLimit
     \/ S.nCcalls = CLimit /\ Top.kind \in {"call", "level"} /\ mode \in ErrorStatus
  /\ \A L \in Threads : state[L].nCcalls <= CLimit

=============================================================================
