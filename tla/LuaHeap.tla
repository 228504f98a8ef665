------------------------------- MODULE LuaHeap -------------------------------
(***************************************************************************)
(* The state that the Lua program (the mutator) and the garbage collector  *)
(* share: the collectable objects with their colours, the lists that link  *)
(* them, every reference one object can hold to another, and the C stack   *)
(* as far as it decides who runs: a luaC_step, a full collection, a        *)
(* finalizer.                                                              *)
(*                                                                         *)
(* An object is a model value; its kind is given by the constant sets      *)
(* below.  A block that malloc has not handed out has colour "free".  The  *)
(* payload of an object (characters of a string, bytes of a userdata,      *)
(* instructions and constants of a prototype) is left out, and a prototype *)
(* stands for itself and the prototypes nested in it.                      *)
(***************************************************************************)
EXTENDS Integers, Sequences, FiniteSets

CONSTANTS
  Tables,      (* LUA_TTABLE objects                                       *)
  Udatas,      (* LUA_TUSERDATA objects                                    *)
  Strings,     (* LUA_TSHRSTR objects, one per content (they are interned) *)
  Protos,      (* LUA_TPROTO objects                                       *)
  CClosures,   (* LUA_TCCL objects, with one upvalue                       *)
  LClosures,   (* LUA_TLCL objects, with one upvalue                       *)
  Coroutines,  (* LUA_TTHREAD objects other than the main thread           *)
  MainThread,  (* g->mainthread, which is in no list                       *)
  Registry,    (* g->l_registry, a table                                   *)
  UpVals,      (* UpVal cells: reference counted, not collectable          *)
  Num,         (* a value that is not collectable                          *)
  Nil,
  WeakMode,    (* WeakMode[m]: the __mode field of m, used as a metatable  *)
  HasGC,       (* the tables with a __gc field, a C function               *)
  GCSWEEPMAX   (* elements swept in one single step                        *)

Threads == Coroutines \union {MainThread}

Obj == Tables \union Udatas \union Strings \union Protos \union CClosures
         \union LClosures \union Threads

(* The kinds of object that reallymarkobject turns black at once.          *)
Leaves == Udatas \union Strings

ASSUME ObjFinite == IsFiniteSet(Obj) /\ IsFiniteSet(UpVals)

ASSUME KindsDisjoint ==
  /\ \A K \in {Udatas, Strings, Protos, CClosures, LClosures, Threads} : Tables \cap K = {}
  /\ \A K \in {Strings, Protos, CClosures, LClosures, Threads} : Udatas \cap K = {}
  /\ \A K \in {Protos, CClosures, LClosures, Threads} : Strings \cap K = {}
  /\ \A K \in {CClosures, LClosures, Threads} : Protos \cap K = {}
  /\ \A K \in {LClosures, Threads} : CClosures \cap K = {}
  /\ LClosures \cap Threads = {}
  /\ MainThread \notin Coroutines /\ Registry \in Tables

ASSUME NoClash ==
  /\ Nil \notin Obj \union UpVals \union {Num}
  /\ Num \notin Obj \union UpVals
  /\ \A s \in {"allgc", "finobj", "tobefnz", "NULL", "closed", "free"} : s \notin Obj

ASSUME ParametersAssumption ==
  /\ WeakMode \in [Tables -> {"", "k", "v", "kv"}]
  /\ HasGC \subseteq Tables
  /\ GCSWEEPMAX \in Nat \ {0}

VARIABLES
  color,         (* the colour bits of 'marked', or "free"                 *)
  finbit,        (* the objects whose FINALIZEDBIT is set                  *)
  allgc, finobj, tobefnz,  (* the lists of objects, as sets                *)
  currentwhite,  (* g->currentwhite                                        *)
  gcstate,       (* g->gcstate                                             *)
  sweepgc,       (* g->sweepgc: an object stands for &object->next, the    *)
                 (* name of a list for its head                            *)
  unswept,       (* what follows sweepgc in its list, if it is an object   *)
  gcfinnum,      (* whether g->gcfinnum > 0                                *)
  gray, grayagain, weak, ephemeron, allweak,  (* the gray lists, as sets   *)
  atom,          (* where atomic() is, and its local variables             *)
  entries,       (* entries[t]: the non-nil entries <<key, value>> of t    *)
  mt,            (* metatable of a table or userdata                       *)
  val,           (* user value of a userdata, upvalue of a C closure       *)
  basemt,        (* g->mt[i] for one basic type                            *)
  clp,           (* clp[c]: prototype of Lua closure c                     *)
  upv,           (* upv[c]: upvalue cell of Lua closure c                  *)
  cache,         (* cache[p]: last closure created with prototype p        *)
  uv,            (* the upvalue cells                                      *)
  stk,           (* stk[th]: what the live slots of th's stack hold        *)
  stale,         (* stale[th]: what the slot just above th's top holds     *)
  running,       (* L: the thread that executes                            *)
  resumer,       (* resumer[th]: the thread that resumed th                *)
  twups,         (* g->twups: threads with open upvalues                   *)
  strcache,      (* g->strcache                                            *)
  cstack         (* the C calls that decide who runs, innermost last       *)

listVars  == <<finbit, allgc, finobj, tobefnz>>
phaseVars == <<currentwhite, gcstate, gcfinnum, atom>>
sweepVars == <<sweepgc, unswept>>
grayVars  == <<gray, grayagain, weak, ephemeron, allweak>>
refVars   == <<entries, mt, val, basemt>>
funcVars  == <<clp, upv, cache, uv>>
stackVars == <<stk, stale, running, resumer, twups, strcache>>

vars == <<color, listVars, phaseVars, sweepVars, grayVars, refVars, funcVars, stackVars, cstack>>

(***************************************************************************)
(* Colours and phases (lgc.h).                                             *)
(***************************************************************************)
Whites == {"white0", "white1"}
Colors == Whites \union {"gray", "black", "free"}

otherwhite == IF currentwhite = "white0" THEN "white1" ELSE "white0"

IsWhite(o) == color[o] \in Whites
IsDead(o)  == color[o] = otherwhite

SweepStates   == {"swpallgc", "swpfinobj", "swptobefnz", "swpend"}
keepinvariant == gcstate \in {"propagate", "atomic"}
issweepphase  == gcstate \in SweepStates

RangeOf(s) == {s[i] : i \in DOMAIN s}

Alloc   == {o \in Obj : color[o] # "free"}
Objs(S) == S \intersect Obj

(***************************************************************************)
(* References.  uv[u].th is the thread in whose stack an open upvalue      *)
(* lives, "closed" for a closed one, "free" for a cell that is not         *)
(* allocated.  'touched' has no meaning once the cell is closed.           *)
(***************************************************************************)
FreeCell == [th |-> "free", v |-> Nil, touched |-> FALSE, refcount |-> 0]

IsOpen(u)      == uv[u].th \in Threads
OpenUpvals(th) == {u \in UpVals : uv[u].th = th}

Mode(t)   == IF mt[t] = Nil THEN "" ELSE WeakMode[mt[t]]
Keys(t)   == {e[1] : e \in entries[t]}
Values(t) == {e[2] : e \in entries[t]}

UpvalueOf(c) == IF upv[c] = Nil THEN Nil ELSE uv[upv[c]].v

(* What the slots of a thread's stack hold, captured variables included.   *)
StackRefs(th) == stk[th] \union {uv[u].v : u \in OpenUpvals(th)}

(* Every collectable object that o refers to, weakly or strongly.          *)
Refs(o) ==
  Objs(CASE o \in Tables    -> {mt[o]} \union Keys(o) \union Values(o)
         [] o \in Udatas    -> {mt[o], val[o]}
         [] o \in CClosures -> {val[o]}
         [] o \in LClosures -> {clp[o], UpvalueOf(o)}
         [] o \in Protos    -> {cache[o]}
         [] o \in Threads   -> StackRefs(o) \union {stale[o]}
         [] OTHER           -> {})

(* Strings and numbers are 'values': weak tables never lose them.          *)
Weakable(x) == x \in Obj \ Strings

(* The references of o that keep their target alive, given that the        *)
(* objects of S live: an ephemeron keeps a value while its key lives.      *)
StrongRefs(o, S) ==
  Objs(CASE o \in Tables ->
              {mt[o]} \union
              (CASE Mode(o) = ""   -> Keys(o) \union Values(o)
                 [] Mode(o) = "v"  -> Keys(o) \union {x \in Values(o) : ~Weakable(x)}
                 [] Mode(o) = "k"  -> {e[2] : e \in {d \in entries[o] : Weakable(d[1]) => d[1] \in S}}
                                        \union {x \in Keys(o) : ~Weakable(x)}
                 [] OTHER          -> {x \in Keys(o) \union Values(o) : ~Weakable(x)})
         [] o \in Protos  -> {}
         [] o \in Threads -> StackRefs(o)
         [] OTHER         -> Refs(o))

(* What the program holds: the main and the running thread, the registry,  *)
(* the metatables of the basic types, and the objects whose finalizer is   *)
(* still to be called.                                                     *)
Roots == Objs({MainThread, running, Registry, basemt}) \union tobefnz

(***************************************************************************)
(* reallymarkobject: marks the white objects of W under the colours c.  It *)
(* recurs through userdata only: a userdata is black at once and its       *)
(* metatable and user value are marked; the other kinds turn gray and wait *)
(* in the gray list.                                                       *)
(***************************************************************************)
White(c, K) == {o \in K : c[o] \in Whites}

MarkedUdatas(W, c) ==
  {u \in White(c, Udatas) :
     \A S \in SUBSET White(c, Udatas) :
       (/\ W \intersect White(c, Udatas) \subseteq S
        /\ \A x \in S : val[x] \in White(c, Udatas) => val[x] \in S) => u \in S}

MarkSet(W, c) ==
  LET U == MarkedUdatas(W, c)
  IN  White(c, Objs(W \union {mt[u] : u \in U} \union {val[u] : u \in U}))

Marked(W, c) ==
  [o \in Obj |-> IF o \in MarkSet(W, c)
                 THEN IF o \in Leaves THEN "black" ELSE "gray"
                 ELSE c[o]]

(* Faulty variant of Mark: strings and userdata enter the gray list too.    *)
MarkLinksLeaves(W, c, g) ==
  /\ color' = Marked(W, c)
  /\ gray' = g \union MarkSet(W, c)

Mark(W, c, g) ==
  /\ color' = Marked(W, c)
  /\ gray' = g \union (MarkSet(W, c) \ Leaves)

(***************************************************************************)
(* Freeing.  Erase puts a field of the freed objects D back to what a new  *)
(* object has.  A cell loses one reference per freed closure, is closed    *)
(* when its thread is freed (luaE_freethread calls luaF_close), and is     *)
(* freed itself when it is closed with no reference left.                  *)
(***************************************************************************)
Erase(D, f, empty) == [o \in DOMAIN f |-> IF o \in D THEN empty ELSE f[o]]

Released(u, D) ==
  LET n  == uv[u].refcount - Cardinality({c \in D \intersect LClosures : upv[c] = u})
      th == IF uv[u].th \in D THEN "closed" ELSE uv[u].th
  IN  IF th = "closed" /\ n = 0
      THEN FreeCell
      ELSE [th |-> th, v |-> uv[u].v, refcount |-> n,
            touched |-> th # "closed" /\ uv[u].touched]

(* freeobj for every object of D, save the colour and the metatable.       *)
Free(D) ==
  /\ entries' = Erase(D, entries, {})
  /\ val' = Erase(D, val, Nil)
  /\ clp' = Erase(D, clp, Nil)
  /\ upv' = Erase(D, upv, Nil)
  /\ cache' = Erase(D, cache, Nil)
  /\ uv' = [u \in UpVals |-> Released(u, D)]
  /\ stk' = Erase(D, stk, {})
  /\ stale' = Erase(D, stale, Nil)

(***************************************************************************)
(* sweeplist(L, p, count), p being sweepgc.  C is the next count elements  *)
(* of the list (fewer when the list ends): the dead ones are freed, the    *)
(* others turn white.  The order of the elements in the list is left open. *)
(* sweepgc becomes &x->next for the last live x of C, NULL at the end of   *)
(* the list.                                                               *)
(***************************************************************************)
ToSweep ==
  CASE sweepgc = "allgc"   -> allgc
    [] sweepgc = "finobj"  -> finobj
    [] sweepgc = "tobefnz" -> tobefnz
    [] OTHER               -> unswept

Dead(C) == {o \in C : IsDead(o)}

Swept(C, c) ==
  [o \in Obj |-> IF o \in Dead(C) THEN "free" ELSE IF o \in C THEN currentwhite ELSE c[o]]

(* Where sweepgc may point after C was swept from the list S, at p before. *)
AfterSweep(C, S, p) ==
  IF C = S THEN {"NULL"} ELSE IF C = Dead(C) THEN {p} ELSE C \ Dead(C)

(* Moves sweepgc over C, the next elements of the list S.                  *)
Advance(C, S, p) ==
  /\ sweepgc' \in AfterSweep(C, S, p)
  /\ unswept' = IF sweepgc' \in Obj THEN S \ C ELSE {}

(* Takes the dead objects of C out of memory; the colours are the caller's. *)
Collect(C) ==
  /\ allgc' = allgc \ Dead(C)
  /\ finobj' = finobj \ Dead(C)
  /\ tobefnz' = tobefnz \ Dead(C)
  /\ finbit' = finbit \ Dead(C)
  /\ Free(Dead(C))

(***************************************************************************)
(* Initial state: lua_newstate and init_registry, the collector stopped.   *)
(***************************************************************************)
Idle == [pc |-> "idle", again |-> {}, eph |-> {}, changed |-> FALSE,
         origweak |-> {}, origall |-> {}]

HeapInit ==
  /\ color = [o \in Obj |-> IF o \in {MainThread, Registry} THEN "white0" ELSE "free"]
  /\ finbit = {} /\ allgc = {Registry} /\ finobj = {} /\ tobefnz = {}
  /\ currentwhite = "white0"
  /\ gcstate = "pause"
  /\ sweepgc = "NULL" /\ unswept = {}
  /\ gcfinnum = FALSE
  /\ gray = {} /\ grayagain = {} /\ weak = {} /\ ephemeron = {} /\ allweak = {}
  /\ atom = Idle
  /\ entries = [t \in Tables |-> {}]
  /\ mt = [o \in Tables \union Udatas |-> Nil]
  /\ val = [o \in Udatas \union CClosures |-> Nil]
  /\ basemt = Nil
  /\ clp = [c \in LClosures |-> Nil]
  /\ upv = [c \in LClosures |-> Nil]
  /\ cache = [p \in Protos |-> Nil]
  /\ uv = [u \in UpVals |-> FreeCell]
  /\ stk = [th \in Threads |-> {}]
  /\ stale = [th \in Threads |-> Nil]
  /\ running = MainThread
  /\ resumer = [th \in Threads |-> Nil]
  /\ twups = {}
  /\ strcache = {}
  /\ cstack = <<>>

(***************************************************************************)
(* Types.                                                                  *)
(***************************************************************************)
Cell == [th : Threads \union {"closed", "free"}, v : Obj \union {Num, Nil},
         touched : BOOLEAN, refcount : Int]

AtomPCs == {"idle", "pre", "remark", "prop1", "again", "eph1", "prop2", "eph2", "enter"}

Frame == [kind : {"step", "few"}]
         \union [kind : {"fin"}, th : Threads, base : SUBSET Obj, open : SUBSET UpVals]
         \union [kind : {"full"}, emergency : BOOLEAN, begun : BOOLEAN]

ListsOK ==
  /\ color \in [Obj -> Colors]
  /\ finbit \subseteq Obj /\ allgc \subseteq Obj /\ finobj \subseteq Obj /\ tobefnz \subseteq Obj

PhaseOK ==
  /\ currentwhite \in Whites
  /\ gcstate \in {"propagate", "atomic", "insideatomic", "callfin", "pause"} \union SweepStates
  /\ gcfinnum \in BOOLEAN
  /\ atom \in [pc : AtomPCs, again : SUBSET (Obj \ Leaves), eph : SUBSET Tables,
               changed : BOOLEAN, origweak : SUBSET Tables, origall : SUBSET Tables]

SweepOK ==
  /\ sweepgc \in Obj \union {"allgc", "finobj", "tobefnz", "NULL"}
  /\ unswept \subseteq Obj

GrayOK ==
  /\ gray \subseteq Obj \ Leaves /\ grayagain \subseteq Obj \ Leaves
  /\ weak \subseteq Tables /\ ephemeron \subseteq Tables /\ allweak \subseteq Tables

RefsOK ==
  /\ entries \in [Tables -> SUBSET ((Obj \union {Num}) \X (Obj \union {Num}))]
  /\ mt \in [Tables \union Udatas -> Tables \union {Nil}]
  /\ val \in [Udatas \union CClosures -> Obj \union {Num, Nil}]
  /\ basemt \in Tables \union {Nil}

FuncsOK ==
  /\ clp \in [LClosures -> Protos \union {Nil}]
  /\ upv \in [LClosures -> UpVals \union {Nil}]
  /\ cache \in [Protos -> LClosures \union {Nil}]
  /\ uv \in [UpVals -> Cell]

StackOK ==
  /\ stk \in [Threads -> SUBSET Obj]
  /\ stale \in [Threads -> Obj \union {Nil}]
  /\ running \in Threads
  /\ resumer \in [Threads -> Threads \union {Nil}]
  /\ twups \subseteq Threads
  /\ strcache \subseteq Strings
  /\ cstack \in Seq(Frame)

TypeOK == ListsOK /\ PhaseOK /\ SweepOK /\ GrayOK /\ RefsOK /\ FuncsOK /\ StackOK
=============================================================================
