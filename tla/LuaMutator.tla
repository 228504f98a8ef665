----------------------------- MODULE LuaMutator -----------------------------
(***************************************************************************)
(* What the running program does to the heap: the operations of the API    *)
(* and of the virtual machine that create objects, move references and     *)
(* call the write barriers.  Each operation is one action; between two of  *)
(* them the collector may run.                                             *)
(***************************************************************************)
EXTENDS LuaHeap

CONSTANTS
  (* What the program does with the objects it holds: the assignments      *)
  (* t[k] = v, as <<t, k, v>>; the metatables it sets, as <<o, m>>; the    *)
  (* user values and C upvalues, as <<o, v>>; the metatables of the basic  *)
  (* type; the values that a local variable holds when it is captured, and  *)
  (* those assigned to captured variables later.                           *)
  Writes, Metas, Vals, BaseMetas, Locals, Assigned,
  Joins,       (* the upvaluejoins it asks for, as <<c1, c2>>              *)
  Exposed,     (* bound: the objects followed in the slot above a top      *)
  MaxStack     (* bound: objects in the live slots of each thread's stack  *)

ASSUME MutatorAssumption ==
  /\ Writes \subseteq Tables \X (Obj \union {Num}) \X (Obj \union {Num})
  /\ Metas \subseteq (Tables \union Udatas) \X (Tables \union {Nil})
  /\ Vals \subseteq (Udatas \union CClosures) \X (Obj \union {Num, Nil})
  /\ BaseMetas \subseteq Tables \union {Nil}
  /\ Locals \union Assigned \subseteq Obj \union {Num, Nil}
  /\ Joins \subseteq LClosures \X LClosures
  /\ Exposed \subseteq Obj
  /\ MaxStack \in [Threads -> Nat]

L   == running
Top == cstack[Len(cstack)]

(* The program runs unless a C function of the collector does.             *)
MutatorOn == cstack # <<>> => Top.kind = "fin"

(* The slots and upvalues of thread th below the finalizers that run in it *)
(* belong to their callers.                                                *)
FinFrames(th) == {f \in RangeOf(cstack) : f.kind = "fin" /\ f.th = th}
Poppable(th)  == stk[th] \ UNION {f.base : f \in FinFrames(th)}
Closable(th)  == OpenUpvals(th) \ UNION {f.open : f \in FinFrames(th)}

(***************************************************************************)
(* The stack.  A push overwrites the slot above top, a pop leaves its      *)
(* value there.                                                            *)
(***************************************************************************)
FitsIn(th, o) == Cardinality(stk[th] \union {o}) <= MaxStack[th]
Fits(o)       == FitsIn(L, o)

Left(x) == IF x \in Exposed THEN x ELSE Nil

Push(o) ==
  /\ stk' = [stk EXCEPT ![L] = @ \union {o}]
  /\ stale' = [stale EXCEPT ![L] = Nil]

(* What it can index: its stack, and through pseudo-indices and upvalues    *)
(* the registry and the globals, which the registry holds.                 *)
Held    == stk[L] \union {Registry} \union (Values(Registry) \intersect Tables)
Operand == stk[L] \union {Num, Nil}

Pop(o) ==
  /\ MutatorOn
  /\ o \in Poppable(L)
  /\ stk' = [stk EXCEPT ![L] = @ \ {o}]
  /\ stale' = [stale EXCEPT ![L] = Left(o)]
  /\ UNCHANGED <<color, listVars, phaseVars, sweepVars, grayVars, refVars, funcVars,
                 running, resumer, twups, strcache, cstack>>

(* A Lua function raises top over registers it has not written yet         *)
(* (L->top = ci->top).                                                     *)
Expose ==
  /\ MutatorOn
  /\ stale[L] # Nil
  /\ Fits(stale[L])
  /\ Push(stale[L])
  /\ UNCHANGED <<color, listVars, phaseVars, sweepVars, grayVars, refVars, funcVars,
                 running, resumer, twups, strcache, cstack>>

(* What the program can read from o.  A weak table gives what it holds.    *)
Readable(o) ==
  CASE o \in LClosures -> Objs({UpvalueOf(o)})
    [] o \in Protos \union Threads -> {}
    [] OTHER -> Refs(o)

Get(o, x) ==
  /\ MutatorOn
  /\ o \in Held
  /\ x \in Readable(o) \union Objs({basemt})
  /\ Fits(x)
  /\ Push(x)
  /\ UNCHANGED <<color, listVars, phaseVars, sweepVars, grayVars, refVars, funcVars,
                 running, resumer, twups, strcache, cstack>>

(***************************************************************************)
(* Creation: luaC_newobj links the object, in the current white, at the    *)
(* head of allgc; the caller anchors it in the stack.                      *)
(***************************************************************************)
Create(K) ==
  /\ \A o \in K : color[o] = "free"
  /\ color' = [o \in Obj |-> IF o \in K THEN currentwhite ELSE color[o]]
  /\ allgc' = allgc \union K
  /\ UNCHANGED <<finbit, finobj, tobefnz, phaseVars, sweepVars, grayVars, cstack>>

NewObject(o) ==
  /\ MutatorOn
  /\ Create({o})
  /\ Fits(o)
  /\ Push(o)
  /\ UNCHANGED <<refVars, funcVars, running, resumer, twups, strcache>>

(* lua_pushcclosure: "does not need barrier because closure is white".     *)
NewCClosure(c, v) ==
  /\ MutatorOn
  /\ v \in Operand
  /\ Create({c})
  /\ Fits(c)
  /\ Push(c)
  /\ val' = [val EXCEPT ![c] = v]
  /\ UNCHANGED <<entries, mt, basemt, funcVars, running, resumer, twups, strcache>>

(* internshrstr: an existing string is reused, even if it is dead.         *)
Intern(s) ==
  /\ color' = [color EXCEPT ![s] = IF @ \in {"free", otherwhite} THEN currentwhite ELSE @]
  /\ allgc' = allgc \union {s}
  /\ UNCHANGED <<finbit, finobj, tobefnz>>

(* luaS_new: looks in the API cache first, and writes a miss into it.      *)
NewString(s) ==
  /\ MutatorOn
  /\ Fits(s)
  /\ Push(s)
  /\ \/ /\ s \in strcache
        /\ UNCHANGED <<color, listVars, strcache>>
     \/ /\ s \notin strcache
        /\ Intern(s)
        /\ strcache' \in {strcache \union {s}, {s}}
  /\ UNCHANGED <<phaseVars, sweepVars, grayVars, refVars, funcVars,
                 running, resumer, twups, cstack>>

(* luaS_newlstr: no cache.                                                 *)
NewLString(s) ==
  /\ MutatorOn
  /\ Fits(s)
  /\ Push(s)
  /\ Intern(s)
  /\ UNCHANGED <<phaseVars, sweepVars, grayVars, refVars, funcVars,
                 running, resumer, twups, strcache, cstack>>

(***************************************************************************)
(* Write barriers.                                                         *)
(***************************************************************************)
(* Faulty variants of the three barriers: nothing is marked.               *)
BarrierSkipped(o, v)       == UNCHANGED <<color, gray>>
BarrierBackSkipped(t, V)   == UNCHANGED <<color, grayagain>>
UpvalBarrierSkipped(V)     == UNCHANGED <<color, gray>>

(* luaC_barrier and luaC_objbarrier: o now refers to v.                    *)
Barrier(o, v) ==
  IF color[o] = "black" /\ v \in Obj /\ IsWhite(v)
  THEN IF keepinvariant
       THEN Mark({v}, color, gray)
       ELSE color' = [color EXCEPT ![o] = currentwhite] /\ UNCHANGED gray
  ELSE UNCHANGED <<color, gray>>

(* luaC_barrierback: table t now refers to the objects of V.               *)
BarrierBack(t, V) ==
  IF color[t] = "black" /\ \E v \in Objs(V) : IsWhite(v)
  THEN color' = [color EXCEPT ![t] = "gray"] /\ grayagain' = grayagain \union {t}
  ELSE UNCHANGED <<color, grayagain>>

(* luaC_upvalbarrier: closed upvalues now hold the values of V.            *)
UpvalBarrier(V) ==
  IF keepinvariant THEN Mark(V, color, gray) ELSE UNCHANGED <<color, gray>>

(***************************************************************************)
(* Tables, userdata and C closures.                                        *)
(***************************************************************************)
(* luaV_finishset and luaH_newkey, or luaV_fastset for a key in use.       *)
SetTable(t, k, v) ==
  /\ MutatorOn
  /\ t \in Held /\ k \in Operand /\ v \in Operand
  /\ entries' = [entries EXCEPT ![t] = {e \in @ : e[1] # k} \union {<<k, v>>}]
  /\ BarrierBack(t, IF k \in Keys(t) THEN {v} ELSE {k, v})
  /\ UNCHANGED <<listVars, phaseVars, sweepVars, gray, weak, ephemeron, allweak,
                 mt, val, basemt, funcVars, stackVars, cstack>>

(* Assigning nil leaves a node that no operation sees.                     *)
ClearEntry(t, e) ==
  /\ MutatorOn
  /\ t \in Held /\ e \in entries[t]
  /\ entries' = [entries EXCEPT ![t] = @ \ {e}]
  /\ UNCHANGED <<color, listVars, phaseVars, sweepVars, grayVars,
                 mt, val, basemt, funcVars, stackVars, cstack>>

(* lua_setuservalue, and lua_setupvalue of a C closure.                    *)
SetVal(o, v) ==
  /\ MutatorOn
  /\ o \in stk[L] /\ v \in Operand
  /\ val' = [val EXCEPT ![o] = v]
  /\ Barrier(o, v)
  /\ UNCHANGED <<listVars, phaseVars, sweepVars, grayagain, weak, ephemeron, allweak,
                 entries, mt, basemt, funcVars, stackVars, cstack>>

(* lua_setmetatable of a value that is neither a table nor a userdata.     *)
SetBaseMt(m) ==
  /\ MutatorOn
  /\ m \in stk[L] \union {Nil}
  /\ basemt' = m
  /\ UNCHANGED <<color, listVars, phaseVars, sweepVars, grayVars,
                 entries, mt, val, funcVars, stackVars, cstack>>

NeedsFinobj(o, m) == m # Nil /\ o \notin finbit /\ m \in HasGC

(* lua_setmetatable, when luaC_checkfinalizer has nothing to do.           *)
SetMetatable(o, m) ==
  /\ MutatorOn
  /\ o \in stk[L]
  /\ m \in stk[L] \union {Nil}
  /\ ~NeedsFinobj(o, m)
  /\ mt' = [mt EXCEPT ![o] = m]
  /\ Barrier(o, m)
  /\ UNCHANGED <<listVars, phaseVars, sweepVars, grayagain, weak, ephemeron, allweak,
                 entries, val, basemt, funcVars, stackVars, cstack>>

(* lua_setmetatable with luaC_checkfinalizer moving o to finobj, outside   *)
(* the sweep phase.                                                        *)
SetFinalizer(o, m) ==
  /\ MutatorOn
  /\ o \in stk[L] /\ m \in stk[L]
  /\ NeedsFinobj(o, m)
  /\ ~issweepphase
  /\ mt' = [mt EXCEPT ![o] = m]
  /\ Barrier(o, m)
  /\ allgc' = allgc \ {o}
  /\ finobj' = finobj \union {o}
  /\ finbit' = finbit \union {o}
  /\ UNCHANGED <<tobefnz, phaseVars, sweepVars, grayagain, weak, ephemeron, allweak,
                 entries, val, basemt, funcVars, stackVars, cstack>>

(* sweeptolive, with sweepgc = &o->next: frees what is dead up to the next *)
(* live object.                                                            *)
ToLive(C) ==
  /\ C \subseteq ToSweep
  /\ \/ C = Dead(C) /\ C = ToSweep
     \/ Cardinality(C \ Dead(C)) = 1

(* The same in the sweep phase: o is swept, and sweepgc moved off it.      *)
SetFinalizerInSweep(o, m) ==
  /\ MutatorOn
  /\ o \in stk[L] /\ m \in stk[L]
  /\ NeedsFinobj(o, m)
  /\ issweepphase
  /\ \E C \in SUBSET ToSweep :
       /\ IF sweepgc = o
          THEN ToLive(C) /\ Advance(C, ToSweep, sweepgc)
          ELSE C = {} /\ sweepgc' = sweepgc /\ unswept' = unswept \ {o}
       /\ color' = [Swept(C, color) EXCEPT ![o] = currentwhite]
       /\ mt' = [Erase(Dead(C), mt, Nil) EXCEPT ![o] = m]
       /\ allgc' = (allgc \ Dead(C)) \ {o}
       /\ finobj' = (finobj \ Dead(C)) \union {o}
       /\ tobefnz' = tobefnz \ Dead(C)
       /\ finbit' = (finbit \ Dead(C)) \union {o}
       /\ Free(Dead(C))
  /\ UNCHANGED <<phaseVars, grayVars, basemt, running, resumer, twups, strcache, cstack>>

(***************************************************************************)
(* Lua closures and their upvalues.                                        *)
(***************************************************************************)
(* lua_load and luaY_parser: a main function with a new prototype and one  *)
(* closed upvalue, the globals, which are in the registry.                 *)
Load(c, p, u, v) ==
  /\ MutatorOn
  /\ uv[u] = FreeCell
  /\ v \in Values(Registry) \union {Nil}
  /\ color[c] = "free" /\ color[p] = "free"
  /\ LET c0 == [color EXCEPT ![c] = currentwhite, ![p] = currentwhite]
     IN  IF keepinvariant THEN Mark({v}, c0, gray) ELSE color' = c0 /\ UNCHANGED gray
  /\ allgc' = allgc \union {c, p}
  /\ clp' = [clp EXCEPT ![c] = p]
  /\ upv' = [upv EXCEPT ![c] = u]
  /\ uv' = [uv EXCEPT ![u] = [th |-> "closed", v |-> v, touched |-> FALSE, refcount |-> 1]]
  /\ Fits(c)
  /\ Push(c)
  /\ UNCHANGED <<finbit, finobj, tobefnz, phaseVars, sweepVars, grayagain, weak, ephemeron,
                 allweak, refVars, cache, running, resumer, twups, strcache, cstack>>

(* The upvalues that a closure created by function f can ask for without   *)
(* a new cell: that of f itself, and those of captured locals.             *)
Askable(f) == {upv[f]} \union OpenUpvals(L)

(* getcached: the cached closure has the upvalue that is asked for.        *)
Hit(f, u) == cache[clp[f]] # Nil /\ upv[cache[clp[f]]] = u

ReuseClosure(f, n, u) ==
  /\ MutatorOn
  /\ f \in stk[L] /\ u \in Askable(f)
  /\ n = cache[clp[f]] /\ upv[n] = u
  /\ Fits(n)
  /\ Push(n)
  /\ UNCHANGED <<color, listVars, phaseVars, sweepVars, grayVars, refVars, funcVars,
                 running, resumer, twups, strcache, cstack>>

(* pushclosure: the closure is white and needs no barrier; it is cached    *)
(* unless the prototype is black.                                          *)
Closure(f, n, u) ==
  /\ Create({n})
  /\ Fits(n)
  /\ Push(n)
  /\ clp' = [clp EXCEPT ![n] = clp[f]]
  /\ upv' = [upv EXCEPT ![n] = u]
  /\ cache' = IF color[clp[f]] = "black" THEN cache ELSE [cache EXCEPT ![clp[f]] = n]

NewClosure(f, n, u) ==
  /\ MutatorOn
  /\ f \in stk[L] /\ u \in Askable(f) /\ ~Hit(f, u)
  /\ Closure(f, n, u)
  /\ uv' = [uv EXCEPT ![u].refcount = @ + 1]
  /\ UNCHANGED <<refVars, running, resumer, twups, strcache>>

(* luaF_findupval, when the local variable is not captured yet: v is what  *)
(* its slot holds.                                                         *)
CaptureLocal(f, n, u, v) ==
  /\ MutatorOn
  /\ f \in stk[L] /\ v \in Operand
  /\ uv[u] = FreeCell
  /\ Closure(f, n, u)
  /\ uv' = [uv EXCEPT ![u] = [th |-> L, v |-> v, touched |-> TRUE, refcount |-> 1]]
  /\ twups' = twups \union {L}
  /\ UNCHANGED <<refVars, running, resumer, strcache>>

(* OP_SETUPVAL, and lua_setupvalue of a Lua closure.                       *)
SetUpval(c, v) ==
  /\ MutatorOn
  /\ c \in stk[L] /\ v \in Operand
  /\ uv' = [uv EXCEPT ![upv[c]].v = v]
  /\ IF IsOpen(upv[c]) THEN UNCHANGED <<color, gray>> ELSE UpvalBarrier({v})
  /\ UNCHANGED <<listVars, phaseVars, sweepVars, grayagain, weak, ephemeron, allweak,
                 refVars, clp, upv, cache, stackVars, cstack>>

(* An assignment to a captured local variable of the running function.     *)
SetLocal(u, v) ==
  /\ MutatorOn
  /\ u \in OpenUpvals(L) /\ v \in Operand
  /\ uv' = [uv EXCEPT ![u].v = v]
  /\ UNCHANGED <<color, listVars, phaseVars, sweepVars, grayVars,
                 refVars, clp, upv, cache, stackVars, cstack>>

(* luaF_close for the cells U of one thread.                               *)
Closed(U) ==
  [u \in UpVals |->
     IF u \notin U THEN uv[u]
     ELSE IF uv[u].refcount = 0 THEN FreeCell
     ELSE [uv[u] EXCEPT !.th = "closed", !.touched = FALSE]]

ClosedValues(U) == {uv[u].v : u \in {w \in U : uv[w].refcount # 0}}

CloseUpvals(U) ==
  /\ MutatorOn
  /\ U # {} /\ U \subseteq Closable(L)
  /\ uv' = Closed(U)
  /\ UpvalBarrier(ClosedValues(U))
  /\ \E x \in {stale[L]} \union {uv[u].v : u \in U} : stale' = [stale EXCEPT ![L] = Left(x)]
  /\ UNCHANGED <<listVars, phaseVars, sweepVars, grayagain, weak, ephemeron, allweak,
                 refVars, clp, upv, cache, stk, running, resumer, twups, strcache, cstack>>

(* Faulty variant of Decremented: the last reference does not free the cell. *)
DecrementedOnly(u) == [uv EXCEPT ![u].refcount = @ - 1]

(* lua_upvaluejoin: luaC_upvdeccount of the old cell of c1, then c1 takes  *)
(* the cell of c2.                                                         *)
Decremented(u) ==
  [uv EXCEPT ![u] = IF uv[u].refcount = 1 /\ ~IsOpen(u)
                    THEN FreeCell
                    ELSE [uv[u] EXCEPT !.refcount = @ - 1]]

UpvalueJoin(c1, c2) ==
  /\ MutatorOn
  /\ {c1, c2} \subseteq stk[L]
  /\ {upv[c1], upv[c2]} \subseteq UpVals
  /\ uv' = [Decremented(upv[c1]) EXCEPT ![upv[c2]].refcount = @ + 1,
                                        ![upv[c2]].touched = @ \/ IsOpen(upv[c2])]
  /\ upv' = [upv EXCEPT ![c1] = upv[c2]]
  /\ IF IsOpen(upv[c2]) THEN UNCHANGED <<color, gray>> ELSE UpvalBarrier({uv[upv[c2]].v})
  /\ UNCHANGED <<listVars, phaseVars, sweepVars, grayagain, weak, ephemeron, allweak,
                 refVars, clp, cache, stackVars, cstack>>

(***************************************************************************)
(* Coroutines.                                                             *)
(***************************************************************************)
Suspended(th) == th \in Coroutines /\ th # L /\ resumer[th] = Nil

(* lua_xmove between the running thread and a coroutine it holds.          *)
Xmove(from, to, o) ==
  /\ MutatorOn
  /\ from # to
  /\ \/ from = L /\ to \in stk[L] /\ Suspended(to)
     \/ to = L /\ from \in stk[L] /\ Suspended(from)
  /\ o \in Poppable(from)
  /\ FitsIn(to, o)
  /\ stk' = [stk EXCEPT ![from] = @ \ {o}, ![to] = @ \union {o}]
  /\ stale' = [stale EXCEPT ![from] = Left(o), ![to] = Nil]
  /\ UNCHANGED <<color, listVars, phaseVars, sweepVars, grayVars, refVars, funcVars,
                 running, resumer, twups, strcache, cstack>>

Resume(co) ==
  /\ MutatorOn
  /\ co \in stk[L] /\ Suspended(co)
  /\ running' = co
  /\ resumer' = [resumer EXCEPT ![co] = L]
  /\ UNCHANGED <<color, listVars, phaseVars, sweepVars, grayVars, refVars, funcVars,
                 stk, stale, twups, strcache, cstack>>

(* lua_yield, the end of the coroutine, or an error in it: luaD_callnoyield *)
(* keeps a finalizer from doing so.                                        *)
Yield ==
  /\ MutatorOn
  /\ resumer[L] # Nil
  /\ FinFrames(L) = {}
  /\ running' = resumer[L]
  /\ resumer' = [resumer EXCEPT ![L] = Nil]
  /\ UNCHANGED <<color, listVars, phaseVars, sweepVars, grayVars, refVars, funcVars,
                 stk, stale, twups, strcache, cstack>>

Mutate ==
  \/ \E o \in Obj : Pop(o)
  \/ Expose
  \/ \E o, x \in Obj : Get(o, x)
  \/ \E o \in Tables \union Udatas \union Coroutines : NewObject(o)
  \/ \E w \in Vals : w[1] \in CClosures /\ NewCClosure(w[1], w[2])
  \/ \E s \in Strings : NewString(s)
  \/ \E s \in Strings : NewLString(s)
  \/ \E w \in Writes : SetTable(w[1], w[2], w[3])
  \/ \E t \in Tables : \E e \in entries[t] : ClearEntry(t, e)
  \/ \E w \in Vals : SetVal(w[1], w[2])
  \/ \E m \in BaseMetas : SetBaseMt(m)
  \/ \E w \in Metas : \/ SetMetatable(w[1], w[2])
                      \/ SetFinalizer(w[1], w[2])
                      \/ SetFinalizerInSweep(w[1], w[2])
  \/ \E c \in LClosures, p \in Protos, u \in UpVals :
       \E v \in Values(Registry) \union {Nil} : Load(c, p, u, v)
  \/ \E f, n \in LClosures, u \in UpVals : ReuseClosure(f, n, u) \/ NewClosure(f, n, u)
  \/ \E f, n \in LClosures, u \in UpVals : \E v \in Locals : CaptureLocal(f, n, u, v)
  \/ \E c \in LClosures : \E v \in Assigned : SetUpval(c, v)
  \/ \E u \in UpVals : \E v \in Assigned : SetLocal(u, v)
  \/ \E U \in SUBSET UpVals : CloseUpvals(U)
  \/ \E j \in Joins : UpvalueJoin(j[1], j[2])
  \/ \E from, to \in Threads, o \in Obj : Xmove(from, to, o)
  \/ \E co \in Coroutines : Resume(co)
  \/ Yield
=============================================================================
