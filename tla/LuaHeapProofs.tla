------------------------- MODULE LuaHeapProofs -----------------------------
(***************************************************************************)
(* The heap, the program and the collector, for every set of objects and   *)
(* every program: TypeOK is an inductive invariant of Spec; the reference  *)
(* counts of the upvalue cells are exact; two assertions of lgc.c about    *)
(* the phases of a collection hold.                                        *)
(***************************************************************************)
EXTENDS LuaGC, FiniteSetTheorems, TLAPS

(***************************************************************************)
(* What the helpers of the collector return.                               *)
(***************************************************************************)
(* reallymarkobject only turns objects gray or black, and links no string  *)
(* and no userdata in the gray list.                                       *)
LEMMA MarkedType ==
  ASSUME NEW W, NEW c \in [Obj -> Colors]
  PROVE  Marked(W, c) \in [Obj -> Colors]
  BY DEF Marked, Colors, Whites

(* Mark colours objects and links those that are not leaves.               *)
LEMMA MarkType ==
  ASSUME NEW W, NEW c \in [Obj -> Colors], NEW g \in SUBSET (Obj \ Leaves), Mark(W, c, g)
  PROVE  color' \in [Obj -> Colors] /\ gray' \in SUBSET (Obj \ Leaves)
<1>1. color' \in [Obj -> Colors]
  BY MarkedType DEF Mark
<1>2. MarkSet(W, c) \subseteq Obj
  BY DEF MarkSet, White, Objs
<1>. QED  BY <1>1, <1>2 DEF Mark

(* Freeing objects erases their fields and leaves everything typed.        *)
FreedOK ==
  /\ entries \in [Tables -> SUBSET ((Obj \union {Num}) \X (Obj \union {Num}))]
  /\ val \in [Udatas \union CClosures -> Obj \union {Num, Nil}]
  /\ FuncsOK
  /\ stk \in [Threads -> SUBSET Obj]
  /\ stale \in [Threads -> Obj \union {Nil}]

(* Erased fields and released cells are those of a new block.              *)
LEMMA FreeType ==
  ASSUME FreedOK, NEW D \in SUBSET Obj, Free(D)
  PROVE  FreedOK'
<1>1. entries' \in [Tables -> SUBSET ((Obj \union {Num}) \X (Obj \union {Num}))]
  BY DEF FreedOK, Free, Erase
<1>2. val' \in [Udatas \union CClosures -> Obj \union {Num, Nil}]
  BY DEF FreedOK, Free, Erase
<1>3. clp' \in [LClosures -> Protos \union {Nil}]
  BY DEF FreedOK, FuncsOK, Free, Erase
<1>4. upv' \in [LClosures -> UpVals \union {Nil}]
  BY DEF FreedOK, FuncsOK, Free, Erase
<1>5. cache' \in [Protos -> LClosures \union {Nil}]
  BY DEF FreedOK, FuncsOK, Free, Erase
<1>6. uv' \in [UpVals -> Cell]
  <2>. SUFFICES ASSUME NEW u \in UpVals PROVE Released(u, D) \in Cell
    BY DEF Free
  <2>. DEFINE F == {c \in D \intersect LClosures : upv[c] = u}
  <2>1. IsFiniteSet(F)
    BY FS_Subset, ObjFinite
  <2>2. Cardinality(F) \in Int
    BY <2>1, FS_CardinalityType
  <2>3. uv[u] \in Cell
    BY DEF FreedOK, FuncsOK
  <2>4. uv[u].refcount - Cardinality(F) \in Int
    BY <2>2, <2>3 DEF Cell
  <2>. HIDE DEF F
  <2>5. FreeCell \in Cell
    BY DEF FreeCell, Cell
  <2>. QED
    BY <2>3, <2>4, <2>5 DEF Released, Cell, F
<1>7. stk' \in [Threads -> SUBSET Obj]
  BY DEF FreedOK, Free, Erase
<1>8. stale' \in [Threads -> Obj \union {Nil}]
  BY DEF FreedOK, Free, Erase
<1>. QED  BY <1>1, <1>2, <1>3, <1>4, <1>5, <1>6, <1>7, <1>8 DEF FreedOK, FuncsOK

(***************************************************************************)
(* The program's operations.                                               *)
(***************************************************************************)
(* The stack operations, and lua_xmove, lua_resume, lua_yield.             *)
LEMMA StackOpsType ==
  ASSUME TypeOK
  PROVE  /\ \A o \in Obj : Pop(o) => TypeOK'
         /\ Expose => TypeOK'
         /\ \A o, x \in Obj : Get(o, x) => TypeOK'
         /\ \A from, to \in Threads, o \in Obj : Xmove(from, to, o) => TypeOK'
         /\ \A co \in Coroutines : Resume(co) => TypeOK'
         /\ Yield => TypeOK'
<1>. USE DEF TypeOK, ListsOK, PhaseOK, SweepOK, GrayOK, RefsOK, FuncsOK, StackOK,
             listVars, phaseVars, sweepVars, grayVars, refVars, funcVars
<1>0. Threads \subseteq Obj /\ Coroutines \subseteq Threads
  BY DEF Obj, Threads
<1>1. ASSUME NEW o \in Obj, Pop(o) PROVE TypeOK'
  BY <1>1, MutatorAssumption DEF Pop, Left, L
<1>2. ASSUME Expose PROVE TypeOK'
  BY <1>2 DEF Expose, Push, L
<1>3. ASSUME NEW o \in Obj, NEW x \in Obj, Get(o, x) PROVE TypeOK'
  BY <1>3 DEF Get, Push, L
<1>4. ASSUME NEW from \in Threads, NEW to \in Threads, NEW o \in Obj, Xmove(from, to, o)
      PROVE TypeOK'
  BY <1>4, MutatorAssumption, ZenonT(30) DEF Xmove, Left, L
<1>5. ASSUME NEW co \in Coroutines, Resume(co) PROVE TypeOK'
  BY <1>0, <1>5 DEF Resume, L
<1>6. ASSUME Yield PROVE TypeOK'
  BY <1>6 DEF Yield, L
<1>. QED  BY <1>1, <1>2, <1>3, <1>4, <1>5, <1>6

(* Creation of objects: luaC_newobj and the interning of strings.          *)
LEMMA CreationType ==
  ASSUME TypeOK
  PROVE  /\ \A o \in Tables \union Udatas \union Coroutines : NewObject(o) => TypeOK'
         /\ \A c \in CClosures, v \in Obj \union {Num, Nil} : NewCClosure(c, v) => TypeOK'
         /\ \A s \in Strings : NewString(s) \/ NewLString(s) => TypeOK'
<1>. USE DEF TypeOK, ListsOK, PhaseOK, SweepOK, GrayOK, RefsOK, FuncsOK, StackOK,
             listVars, phaseVars, sweepVars, grayVars, refVars, funcVars
<1>0. /\ Tables \union Udatas \union Coroutines \union CClosures \union Strings \subseteq Obj
      /\ Whites \subseteq Colors
  BY DEF Obj, Threads, Colors
<1>1. ASSUME NEW o \in Tables \union Udatas \union Coroutines, NewObject(o) PROVE TypeOK'
  BY <1>0, <1>1 DEF NewObject, Create, Push, L
<1>2. ASSUME NEW c \in CClosures, NEW v \in Obj \union {Num, Nil}, NewCClosure(c, v)
      PROVE TypeOK'
  BY <1>0, <1>2 DEF NewCClosure, Create, Push, L
<1>3. ASSUME NEW s \in Strings, NewString(s) PROVE TypeOK'
  BY <1>0, <1>3 DEF NewString, Intern, Push, L
<1>4. ASSUME NEW s \in Strings, NewLString(s) PROVE TypeOK'
  BY <1>0, <1>4 DEF NewLString, Intern, Push, L
<1>. QED  BY <1>1, <1>2, <1>3, <1>4

(* The three barriers turn a black object back, or mark what it refers to. *)
LEMMA BarrierType ==
  ASSUME ListsOK, PhaseOK, GrayOK
  PROVE  /\ \A o \in Obj : \A v : Barrier(o, v) =>
              color' \in [Obj -> Colors] /\ gray' \in SUBSET (Obj \ Leaves)
         /\ \A t \in Tables : \A V : BarrierBack(t, V) =>
              color' \in [Obj -> Colors] /\ grayagain' \in SUBSET (Obj \ Leaves)
         /\ \A V : UpvalBarrier(V) =>
              color' \in [Obj -> Colors] /\ gray' \in SUBSET (Obj \ Leaves)
<1>. USE DEF ListsOK, PhaseOK, GrayOK
<1>0. Whites \subseteq Colors /\ Tables \subseteq Obj \ Leaves
  BY KindsDisjoint DEF Colors, Obj, Leaves
<1>1. ASSUME NEW o \in Obj, NEW v, Barrier(o, v)
      PROVE color' \in [Obj -> Colors] /\ gray' \in SUBSET (Obj \ Leaves)
  BY <1>0, <1>1, MarkType DEF Barrier
<1>2. ASSUME NEW t \in Tables, NEW V, BarrierBack(t, V)
      PROVE color' \in [Obj -> Colors] /\ grayagain' \in SUBSET (Obj \ Leaves)
  BY <1>0, <1>2 DEF BarrierBack, Colors
<1>3. ASSUME NEW V, UpvalBarrier(V)
      PROVE color' \in [Obj -> Colors] /\ gray' \in SUBSET (Obj \ Leaves)
  BY <1>3, MarkType DEF UpvalBarrier
<1>. QED  BY <1>1, <1>2, <1>3

(* Stores into tables, userdata and C closures.                            *)
LEMMA StoreType ==
  ASSUME TypeOK
  PROVE  /\ \A w \in Writes : SetTable(w[1], w[2], w[3]) => TypeOK'
         /\ \A t \in Tables : \A e : ClearEntry(t, e) => TypeOK'
         /\ \A w \in Vals : SetVal(w[1], w[2]) => TypeOK'
         /\ \A m \in BaseMetas : SetBaseMt(m) => TypeOK'
         /\ \A w \in Metas : SetMetatable(w[1], w[2]) \/ SetFinalizer(w[1], w[2]) => TypeOK'
<1>. USE DEF TypeOK, ListsOK, PhaseOK, SweepOK, GrayOK, RefsOK, FuncsOK, StackOK,
             listVars, phaseVars, sweepVars, grayVars, refVars, funcVars, stackVars
<1>0. Tables \union Udatas \union CClosures \subseteq Obj
  BY DEF Obj
<1>1. ASSUME NEW w \in Writes, SetTable(w[1], w[2], w[3]) PROVE TypeOK'
  <2>1. w[1] \in Tables /\ w[2] \in Obj \union {Num} /\ w[3] \in Obj \union {Num}
    BY MutatorAssumption
  <2>2. color' \in [Obj -> Colors] /\ grayagain' \in SUBSET (Obj \ Leaves)
    BY <1>1, <2>1, BarrierType DEF SetTable
  <2>3. entries' \in [Tables -> SUBSET ((Obj \union {Num}) \X (Obj \union {Num}))]
    BY <1>1, <2>1 DEF SetTable
  <2>. QED  BY <1>1, <2>2, <2>3 DEF SetTable
<1>2. ASSUME NEW t \in Tables, NEW e, ClearEntry(t, e) PROVE TypeOK'
  BY <1>2 DEF ClearEntry
<1>3. ASSUME NEW w \in Vals, SetVal(w[1], w[2]) PROVE TypeOK'
  <2>1. w[1] \in Udatas \union CClosures /\ w[2] \in Obj \union {Num, Nil}
    BY MutatorAssumption
  <2>2. color' \in [Obj -> Colors] /\ gray' \in SUBSET (Obj \ Leaves)
    BY <1>0, <1>3, <2>1, BarrierType DEF SetVal
  <2>. QED  BY <1>3, <2>1, <2>2 DEF SetVal
<1>4. ASSUME NEW m \in BaseMetas, SetBaseMt(m) PROVE TypeOK'
  BY <1>4, MutatorAssumption DEF SetBaseMt
<1>5. ASSUME NEW w \in Metas PROVE w[1] \in Tables \union Udatas /\ w[2] \in Tables \union {Nil}
  BY MutatorAssumption
<1>6. ASSUME NEW w \in Metas, SetMetatable(w[1], w[2]) PROVE TypeOK'
  <2>1. color' \in [Obj -> Colors] /\ gray' \in SUBSET (Obj \ Leaves)
    BY <1>0, <1>5, <1>6, BarrierType DEF SetMetatable
  <2>. QED  BY <1>5, <1>6, <2>1 DEF SetMetatable
<1>7. ASSUME NEW w \in Metas, SetFinalizer(w[1], w[2]) PROVE TypeOK'
  <2>1. color' \in [Obj -> Colors] /\ gray' \in SUBSET (Obj \ Leaves)
    BY <1>0, <1>5, <1>7, BarrierType DEF SetFinalizer
  <2>. QED  BY <1>0, <1>5, <1>7, <2>1 DEF SetFinalizer
<1>. QED  BY <1>1, <1>2, <1>3, <1>4, <1>6, <1>7

(* The sweep helpers: what is swept is a set of objects, and sweepgc is    *)
(* NULL, where it was, or one of them.                                     *)
LEMMA SweepType ==
  ASSUME TypeOK
  PROVE  /\ ToSweep \subseteq Obj
         /\ \A C : Swept(C, color) \in [Obj -> Colors]
         /\ \A C \in SUBSET Obj : \A S, p : \A q \in AfterSweep(C, S, p) : q \in Obj \union {p, "NULL"}
         /\ \A C \in SUBSET Obj, S \in SUBSET Obj :
              Advance(C, S, sweepgc) \/ Advance(C, S, "allgc") => SweepOK'
<1>. USE DEF TypeOK, ListsOK, PhaseOK, SweepOK
<1>1. ToSweep \subseteq Obj
  BY DEF ToSweep
<1>2. ASSUME NEW C PROVE Swept(C, color) \in [Obj -> Colors]
  BY DEF Swept, Colors
<1>3. ASSUME NEW C \in SUBSET Obj, NEW S, NEW p, NEW q \in AfterSweep(C, S, p)
      PROVE q \in Obj \union {p, "NULL"}
  BY DEF AfterSweep
<1>4. ASSUME NEW C \in SUBSET Obj, NEW S \in SUBSET Obj,
             Advance(C, S, sweepgc) \/ Advance(C, S, "allgc")
      PROVE  SweepOK'
  <2>1. sweepgc' \in Obj \union {sweepgc, "allgc", "NULL"}
    BY <1>3, <1>4 DEF Advance
  <2>. QED  BY <1>4, <2>1 DEF Advance
<1>. QED  BY <1>1, <1>2, <1>3, <1>4

(* luaC_checkfinalizer in the sweep phase frees and paints objects only.   *)
LEMMA SetFinalizerInSweepType ==
  ASSUME TypeOK, NEW w \in Metas, SetFinalizerInSweep(w[1], w[2])
  PROVE  TypeOK'
<1>1. /\ w[1] \in Tables \union Udatas /\ w[2] \in Tables \union {Nil}
      /\ Tables \union Udatas \subseteq Obj
  BY MutatorAssumption DEF Obj
<1>2. PICK C \in SUBSET ToSweep :
         /\ IF sweepgc = w[1]
            THEN ToLive(C) /\ Advance(C, ToSweep, sweepgc)
            ELSE C = {} /\ sweepgc' = sweepgc /\ unswept' = unswept \ {w[1]}
         /\ color' = [Swept(C, color) EXCEPT ![w[1]] = currentwhite]
         /\ mt' = [Erase(Dead(C), mt, Nil) EXCEPT ![w[1]] = w[2]]
         /\ allgc' = (allgc \ Dead(C)) \ {w[1]}
         /\ finobj' = (finobj \ Dead(C)) \union {w[1]}
         /\ tobefnz' = tobefnz \ Dead(C)
         /\ finbit' = (finbit \ Dead(C)) \union {w[1]}
         /\ Free(Dead(C))
  BY DEF SetFinalizerInSweep
<1>3. C \in SUBSET Obj /\ Dead(C) \in SUBSET Obj
  BY SweepType DEF Dead
<1>4. ListsOK'
  BY <1>1, <1>2, SweepType DEF TypeOK, ListsOK, PhaseOK, Colors
<1>5. SweepOK'
  BY <1>2, <1>3, SweepType DEF TypeOK, SweepOK
<1>6. FreedOK'
  BY <1>2, <1>3, FreeType DEF TypeOK, FreedOK, RefsOK, StackOK
<1>7. mt' \in [Tables \union Udatas -> Tables \union {Nil}]
  BY <1>1, <1>2 DEF TypeOK, RefsOK, Erase
<1>. QED
  BY <1>4, <1>5, <1>6, <1>7 DEF SetFinalizerInSweep, TypeOK, PhaseOK, GrayOK, RefsOK, FuncsOK,
     StackOK, FreedOK, phaseVars, grayVars

(* Functions and their upvalues.                                           *)
LEMMA CellType ==
  /\ FreeCell \in Cell
  /\ \A th \in Threads \union {"closed", "free"}, v \in Obj \union {Num, Nil},
        b \in BOOLEAN, n \in Int :
       [th |-> th, v |-> v, touched |-> b, refcount |-> n] \in Cell
  BY DEF FreeCell, Cell

(* The updates of a cell: its value, its count, its 'touched' flag.        *)
LEMMA CellUpdate ==
  ASSUME NEW x \in Cell
  PROVE  /\ x.refcount \in Int /\ x.touched \in BOOLEAN
         /\ x.v \in Obj \union {Num, Nil}
         /\ \A v \in Obj \union {Num, Nil} : [x EXCEPT !.v = v] \in Cell
         /\ [x EXCEPT !.refcount = x.refcount + 1] \in Cell
         /\ [x EXCEPT !.refcount = x.refcount - 1] \in Cell
         /\ \A b \in BOOLEAN : [x EXCEPT !.refcount = x.refcount + 1, !.touched = b] \in Cell
<1>1. x.refcount \in Int /\ x.touched \in BOOLEAN /\ x.v \in Obj \union {Num, Nil}
  BY DEF Cell
<1>2. ASSUME NEW n \in Int
      PROVE  /\ [x EXCEPT !.refcount = n] \in Cell
             /\ \A b \in BOOLEAN : [x EXCEPT !.refcount = n, !.touched = b] \in Cell
  BY DEF Cell
<1>3. x.refcount + 1 \in Int /\ x.refcount - 1 \in Int
  BY <1>1
<1>4. \A v \in Obj \union {Num, Nil} : [x EXCEPT !.v = v] \in Cell
  BY DEF Cell
<1>. QED  BY <1>1, <1>2, <1>3, <1>4

(* luaF_close frees or closes cells.                                       *)
LEMMA ClosedType ==
  ASSUME FuncsOK, NEW U
  PROVE  Closed(U) \in [UpVals -> Cell]
<1>1. ASSUME NEW u \in UpVals PROVE [uv[u] EXCEPT !.th = "closed", !.touched = FALSE] \in Cell
  BY DEF FuncsOK, Cell
<1>. QED  BY <1>1, CellType DEF Closed, FuncsOK

(* Creating and reusing Lua closures.                                      *)
LEMMA ClosuresType ==
  ASSUME TypeOK, NEW f \in LClosures, NEW n \in LClosures, NEW u \in UpVals
  PROVE  /\ \A p \in Protos, v \in Obj \union {Nil, Num} : Load(f, p, u, v) => TypeOK'
         /\ ReuseClosure(f, n, u) => TypeOK'
         /\ NewClosure(f, n, u) => TypeOK'
         /\ \A v \in Locals : CaptureLocal(f, n, u, v) => TypeOK'
<1>. USE DEF TypeOK, ListsOK, PhaseOK, SweepOK, GrayOK, RefsOK, FuncsOK, StackOK,
             listVars, phaseVars, sweepVars, grayVars, refVars, funcVars
<1>0. LClosures \union Protos \subseteq Obj /\ Whites \subseteq Colors
  BY DEF Obj, Colors
<1>1. ASSUME NEW p \in Protos, NEW v \in Obj \union {Nil, Num}, Load(f, p, u, v) PROVE TypeOK'
  <2>. DEFINE c0 == [color EXCEPT ![f] = currentwhite, ![p] = currentwhite]
  <2>1. c0 \in [Obj -> Colors]
    BY <1>0
  <2>2. color' \in [Obj -> Colors] /\ gray' \in SUBSET (Obj \ Leaves)
    <3>1. IF keepinvariant THEN Mark({v}, c0, gray) ELSE color' = c0 /\ UNCHANGED gray
      BY <1>1 DEF Load
    <3>. HIDE DEF c0
    <3>. QED  BY <2>1, <3>1, MarkType
  <2>3. [th |-> "closed", v |-> v, touched |-> FALSE, refcount |-> 1] \in Cell
    BY DEF Cell
  <2>4. uv' \in [UpVals -> Cell]
    BY <1>1, <2>3 DEF Load
  <2>. QED  BY <1>0, <1>1, <2>2, <2>4 DEF Load, Push, L
<1>2. ASSUME ReuseClosure(f, n, u) PROVE TypeOK'
  BY <1>0, <1>2 DEF ReuseClosure, Push, L
<1>3. ASSUME Closure(f, n, u)
      PROVE  /\ color' \in [Obj -> Colors] /\ allgc' \subseteq Obj
             /\ clp' \in [LClosures -> Protos \union {Nil}]
             /\ upv' \in [LClosures -> UpVals \union {Nil}]
             /\ cache' \in [Protos -> LClosures \union {Nil}]
             /\ stk' \in [Threads -> SUBSET Obj]
             /\ stale' \in [Threads -> Obj \union {Nil}]
  BY <1>0, <1>3 DEF Closure, Create, Push, L
<1>4. ASSUME NewClosure(f, n, u) PROVE TypeOK'
  <2>0. uv[u] \in Cell
    OBVIOUS
  <2>1. [uv[u] EXCEPT !.refcount = uv[u].refcount + 1] \in Cell
    BY <2>0, CellUpdate
  <2>2. uv' \in [UpVals -> Cell]
    BY <1>4, <2>1 DEF NewClosure
  <2>. QED  BY <1>3, <1>4, <2>2 DEF NewClosure, Closure, Create
<1>5. ASSUME NEW v \in Locals, CaptureLocal(f, n, u, v) PROVE TypeOK'
  <2>1. [th |-> running, v |-> v, touched |-> TRUE, refcount |-> 1] \in Cell
    BY MutatorAssumption DEF Cell
  <2>2. uv' \in [UpVals -> Cell]
    BY <1>5, <2>1 DEF CaptureLocal, L
  <2>. QED  BY <1>3, <1>5, <2>2 DEF CaptureLocal, Closure, Create, L
<1>. QED  BY <1>1, <1>2, <1>4, <1>5

(* Assigning, closing and joining upvalues.                                *)
LEMMA UpvaluesType ==
  ASSUME TypeOK
  PROVE  /\ \A c \in LClosures, v \in Assigned : SetUpval(c, v) => TypeOK'
         /\ \A u \in UpVals, v \in Assigned : SetLocal(u, v) => TypeOK'
         /\ \A U \in SUBSET UpVals : CloseUpvals(U) => TypeOK'
         /\ \A j \in Joins : UpvalueJoin(j[1], j[2]) => TypeOK'
<1>a. ASSUME NEW a, NEW b PROVE (a \/ b) \in BOOLEAN
  OBVIOUS
<1>. USE DEF TypeOK, ListsOK, PhaseOK, SweepOK, GrayOK, RefsOK, FuncsOK, StackOK,
             listVars, phaseVars, sweepVars, grayVars, refVars, funcVars, stackVars
<1>0. ASSUME NEW u \in UpVals, NEW v \in Assigned
      PROVE  [uv EXCEPT ![u].v = v] \in [UpVals -> Cell]
  BY CellUpdate, MutatorAssumption
<1>1. ASSUME NEW c \in LClosures, NEW v \in Assigned, SetUpval(c, v) PROVE TypeOK'
  <2>1. uv' \in [UpVals -> Cell]
    <3>1. CASE upv[c] \in UpVals
      BY <1>0, <1>1, <3>1 DEF SetUpval
    <3>2. CASE upv[c] \notin UpVals
      BY <1>1, <3>2 DEF SetUpval
    <3>. QED  BY <3>1, <3>2
  <2>2. color' \in [Obj -> Colors] /\ gray' \in SUBSET (Obj \ Leaves)
    BY <1>1, BarrierType DEF SetUpval
  <2>. QED  BY <1>1, <2>1, <2>2 DEF SetUpval
<1>2. ASSUME NEW u \in UpVals, NEW v \in Assigned, SetLocal(u, v) PROVE TypeOK'
  BY <1>0, <1>2 DEF SetLocal
<1>3. ASSUME NEW U \in SUBSET UpVals, CloseUpvals(U) PROVE TypeOK'
  <2>1. uv' \in [UpVals -> Cell]
    BY <1>3, ClosedType DEF CloseUpvals
  <2>2. color' \in [Obj -> Colors] /\ gray' \in SUBSET (Obj \ Leaves)
    BY <1>3, BarrierType DEF CloseUpvals
  <2>3. \E x : stale' = [stale EXCEPT ![L] = Left(x)]
    BY <1>3 DEF CloseUpvals
  <2>4. stale' \in [Threads -> Obj \union {Nil}]
    BY <2>3, MutatorAssumption, ZenonT(30) DEF Left
  <2>. QED  BY <1>3, <2>1, <2>2, <2>4 DEF CloseUpvals
<1>4. ASSUME NEW j \in Joins, UpvalueJoin(j[1], j[2]) PROVE TypeOK'
  <2>1. j[1] \in LClosures /\ j[2] \in LClosures /\ upv[j[1]] \in UpVals /\ upv[j[2]] \in UpVals
    BY <1>4, MutatorAssumption DEF UpvalueJoin
  <2>2. Decremented(upv[j[1]]) \in [UpVals -> Cell]
    <3>1. [uv[upv[j[1]]] EXCEPT !.refcount = uv[upv[j[1]]].refcount - 1] \in Cell
      <4>1. uv[upv[j[1]]] \in Cell
        BY <2>1
      <4>. QED  BY <4>1, CellUpdate
    <3>. QED  BY <2>1, <3>1, CellType DEF Decremented
  <2>3. uv' \in [UpVals -> Cell]
    <3>. DEFINE d == Decremented(upv[j[1]])
                u == upv[j[2]]
    <3>. HIDE DEF d
    <3>1. [d[u] EXCEPT !.refcount = d[u].refcount + 1, !.touched = d[u].touched \/ IsOpen(u)]
             \in Cell
      <4>1. d[u] \in Cell
        BY <2>1, <2>2 DEF d
      <4>2. (d[u].touched \/ IsOpen(u)) \in BOOLEAN
        BY <1>a, ZenonT(30)
      <4>. QED  BY <4>1, <4>2, CellUpdate
    <3>2. uv' = [d EXCEPT ![u] = [d[u] EXCEPT !.refcount = d[u].refcount + 1,
                                              !.touched = d[u].touched \/ IsOpen(u)]]
      BY <1>4, <2>1, <2>2 DEF UpvalueJoin, d
    <3>. QED  BY <2>1, <2>2, <3>1, <3>2 DEF d
  <2>4. color' \in [Obj -> Colors] /\ gray' \in SUBSET (Obj \ Leaves)
    BY <1>4, BarrierType DEF UpvalueJoin
  <2>. QED  BY <1>4, <2>1, <2>3, <2>4 DEF UpvalueJoin
<1>. QED  BY <1>1, <1>2, <1>3, <1>4

(***************************************************************************)
(* The C stack.                                                            *)
(***************************************************************************)
LEMMA FrameType ==
  /\ StepFrame \in Frame /\ FewFrame \in Frame
  /\ \A em \in BOOLEAN : FullFrame(em) \in Frame
  /\ \A th \in Threads, b \in SUBSET Obj, o \in SUBSET UpVals :
       [kind |-> "fin", th |-> th, base |-> b, open |-> o] \in Frame
  BY DEF StepFrame, FewFrame, FullFrame, Frame

(* A C function of the collector returns or changes its own frame.         *)
LEMMA TopType ==
  ASSUME cstack \in Seq(Frame), NEW k, TopIs(k)
  PROVE  /\ Len(cstack) \in Nat \ {0}
         /\ Top \in Frame
         /\ Dropped \in Seq(Frame)
         /\ \A f \in Frame : Replaced(f) \in Seq(Frame)
         /\ \A j \in 0..(Len(cstack) - 1) : SubSeq(cstack, 1, j) \in Seq(Frame)
<1>1. Len(cstack) \in Nat \ {0}
  BY DEF TopIs
<1>2. Top \in Frame
  BY <1>1 DEF Top
<1>3. ASSUME NEW j \in 0..(Len(cstack) - 1) PROVE SubSeq(cstack, 1, j) \in Seq(Frame)
  BY <1>1
<1>4. Dropped \in Seq(Frame)
  BY <1>1, <1>3 DEF Dropped
<1>5. ASSUME NEW f \in Frame PROVE Replaced(f) \in Seq(Frame)
  BY <1>1 DEF Replaced
<1>. QED  BY <1>1, <1>2, <1>3, <1>4, <1>5

(* A call of luaC_step or luaC_fullgc pushes a frame.                      *)
LEMMA PushedType ==
  ASSUME cstack \in Seq(Frame)
  PROVE  /\ \A f \in Frame : Pushed(f) \in Seq(Frame)
         /\ \A cs : SingleStep(cs) => cs \in Seq(Frame)
<1>1. ASSUME NEW f \in Frame PROVE Pushed(f) \in Seq(Frame)
  BY DEF Pushed
<1>. QED  BY <1>1, FrameType DEF SingleStep

(* A full frame is a frame with a flag 'begun'; a finalizer's has the slots *)
(* and upvalues of its caller.                                             *)
LEMMA FullFinType ==
  ASSUME cstack \in Seq(Frame)
  PROVE  /\ TopIs("full") => [Top EXCEPT !.begun = TRUE] \in Frame
         /\ TopIs("fin") => Top.base \in SUBSET Obj /\ Top.th \in Threads
<1>1. ASSUME TopIs("full") PROVE [Top EXCEPT !.begun = TRUE] \in Frame
  <2>1. Top \in Frame /\ Top.kind = "full"
    BY <1>1, TopType DEF TopIs
  <2>2. Top \in [kind : {"full"}, emergency : BOOLEAN, begun : BOOLEAN]
    BY <2>1 DEF Frame
  <2>3. [Top EXCEPT !.begun = TRUE] \in [kind : {"full"}, emergency : BOOLEAN, begun : BOOLEAN]
    BY <2>2
  <2>. QED  BY <2>3 DEF Frame
<1>2. ASSUME TopIs("fin") PROVE Top.base \in SUBSET Obj /\ Top.th \in Threads
  <2>1. Top \in Frame /\ Top.kind = "fin"
    BY <1>2, TopType DEF TopIs
  <2>. QED  BY <2>1 DEF Frame
<1>. QED  BY <1>1, <1>2

(***************************************************************************)
(* The mark phase.                                                         *)
(***************************************************************************)
(* A visit to an ephemeron table marks, and links it in at most one list.  *)
LEMMA VisitType ==
  ASSUME GrayOK, NEW h \in Tables, NEW c \in [Obj -> Colors],
         NEW g \in SUBSET (Obj \ Leaves), NEW eph \in SUBSET Tables, NEW early,
         VisitEphemeron(h, c, g, eph, early)
  PROVE  /\ color' \in [Obj -> Colors] /\ gray' \in SUBSET (Obj \ Leaves)
         /\ grayagain' \subseteq Obj \ Leaves
         /\ ephemeron' \subseteq Tables /\ allweak' \subseteq Tables
<1>1. Tables \subseteq Obj \ Leaves
  BY KindsDisjoint DEF Leaves, Obj
<1>2. color' \in [Obj -> Colors] /\ gray' \in SUBSET (Obj \ Leaves)
  BY MarkType DEF VisitEphemeron
<1>3. grayagain' \in {grayagain, grayagain \union {h}}
  BY DEF VisitEphemeron
<1>4. ephemeron' \in {eph, eph \union {h}}
  BY DEF VisitEphemeron
<1>5. allweak' \in {allweak, allweak \union {h}}
  BY DEF VisitEphemeron
<1>. QED  BY <1>1, <1>2, <1>3, <1>4, <1>5 DEF GrayOK

(* propagatemark: everything that a traversal can change keeps its type.   *)
LEMMA PropagateType ==
  ASSUME TypeOK, NEW o \in gray, Propagate(o)
  PROVE  ListsOK' /\ GrayOK' /\ SweepOK' /\ RefsOK' /\ FuncsOK'
         /\ stale' \in [Threads -> Obj \union {Nil}] /\ twups' \subseteq Threads
<1>. USE DEF TypeOK, ListsOK, PhaseOK, SweepOK, GrayOK, RefsOK, FuncsOK, StackOK,
             listVars, sweepVars, refVars
<1>0. /\ Tables \subseteq Obj \ Leaves /\ Threads \subseteq Obj \ Leaves
      /\ \A c : c \in [Obj -> Colors] => [c EXCEPT ![o] = "black"] \in [Obj -> Colors]
      /\ gray \ {o} \in SUBSET (Obj \ Leaves)
  BY KindsDisjoint DEF Leaves, Obj, Colors
<1>. DEFINE Marks == color' \in [Obj -> Colors] /\ gray' \in SUBSET (Obj \ Leaves)
            black == [color EXCEPT ![o] = "black"]
<1>1. ASSUME o \in Tables, TraverseStrong(o) PROVE Marks /\ GrayOK' /\ UNCHANGED <<uv, cache, stale, twups>>
  <2>1. black \in [Obj -> Colors]
    BY <1>0
  <2>2. Mark({mt[o]} \union Keys(o) \union Values(o), black, gray \ {o})
    BY <1>1 DEF TraverseStrong
  <2>. HIDE DEF black
  <2>3. Marks
    BY <1>0, <2>1, <2>2, MarkType
  <2>. QED  BY <1>1, <2>3 DEF TraverseStrong
<1>2. ASSUME o \in Tables, TraverseWeakValue(o) PROVE Marks /\ GrayOK' /\ UNCHANGED <<uv, cache, stale, twups>>
  <2>1. Marks
    BY <1>0, <1>2, MarkType DEF TraverseWeakValue
  <2>. QED  BY <1>0, <1>2, <2>1 DEF TraverseWeakValue
<1>3. ASSUME o \in Tables, TraverseAllWeak(o) PROVE Marks /\ GrayOK' /\ UNCHANGED <<uv, cache, stale, twups>>
  <2>1. Marks
    BY <1>0, <1>3, MarkType DEF TraverseAllWeak
  <2>. QED  BY <1>3, <2>1 DEF TraverseAllWeak
<1>4. ASSUME o \in Tables, TraverseEphemeron(o) PROVE Marks /\ GrayOK' /\ UNCHANGED <<uv, cache, stale, twups>>
  <2>. DEFINE c == Marked({mt[o]}, color)
              g == (gray \ {o}) \union MarkSet({mt[o]}, color)
  <2>1. c \in [Obj -> Colors]
    BY MarkedType
  <2>2. g \in SUBSET (Obj \ Leaves)
    <3>1. mt[o] \notin Leaves
      BY <1>4, NoClash, KindsDisjoint DEF Leaves, Obj
    <3>2. MarkSet({mt[o]}, color) \subseteq Obj \ Leaves
      <4>. DEFINE U == MarkedUdatas({mt[o]}, color)
      <4>1. {mt[o]} \intersect White(color, Udatas) \subseteq {}
        BY <3>1 DEF White, Leaves
      <4>2. U = {}
        BY <4>1 DEF MarkedUdatas
      <4>3. MarkSet({mt[o]}, color) \subseteq Obj \intersect {mt[o]}
        BY <4>2 DEF MarkSet, White, Objs
      <4>. QED  BY <3>1, <4>3
    <3>. QED  BY <1>0, <3>2
  <2>. HIDE DEF c, g
  <2>3. PICK early : VisitEphemeron(o, c, g, ephemeron, early)
    BY <1>4 DEF TraverseEphemeron, c, g
  <2>. QED  BY <1>4, <2>1, <2>2, <2>3, VisitType DEF TraverseEphemeron
<1>5. ASSUME o \in Protos, TraverseProto(o)
      PROVE Marks /\ GrayOK' /\ FuncsOK' /\ UNCHANGED <<stale, twups>>
  <2>1. Marks
    BY <1>0, <1>5 DEF TraverseProto
  <2>2. cache' \in [Protos -> LClosures \union {Nil}]
    BY <1>5 DEF TraverseProto
  <2>3. UNCHANGED <<grayagain, weak, ephemeron, allweak, uv, stale, twups>>
    BY <1>5 DEF TraverseProto
  <2>4. UNCHANGED <<clp, upv>>
    BY DEF Propagate
  <2>. QED  BY <2>1, <2>2, <2>3, <2>4
<1>6. ASSUME o \in CClosures, TraverseCClosure(o)
      PROVE Marks /\ GrayOK' /\ UNCHANGED <<uv, cache, stale, twups>>
  <2>1. black \in [Obj -> Colors]
    BY <1>0
  <2>2. Mark({val[o]}, black, gray \ {o})
    BY <1>6 DEF TraverseCClosure
  <2>. HIDE DEF black
  <2>3. Marks
    BY <1>0, <2>1, <2>2, MarkType
  <2>. QED  BY <1>6, <2>3 DEF TraverseCClosure
<1>7. ASSUME o \in LClosures, TraverseLClosure(o)
      PROVE Marks /\ GrayOK' /\ uv' \in [UpVals -> Cell] /\ UNCHANGED <<cache, stale, twups>>
  <2>1. black \in [Obj -> Colors]
    BY <1>0
  <2>2. \E W : Mark(W, black, gray \ {o})
    BY <1>7 DEF TraverseLClosure
  <2>. HIDE DEF black
  <2>3. Marks
    BY <1>0, <2>1, <2>2, MarkType
  <2>4. uv' = [uv EXCEPT ![upv[o]].touched = TRUE] \/ uv' = uv
    BY <1>7 DEF TraverseLClosure
  <2>5. ASSUME NEW x \in Cell PROVE [x EXCEPT !.touched = TRUE] \in Cell
    BY DEF Cell
  <2>6. uv \in [UpVals -> Cell]
    BY DEF TypeOK, FuncsOK
  <2>7. [uv EXCEPT ![upv[o]].touched = TRUE] \in [UpVals -> Cell]
    BY <2>5, <2>6
  <2>8. uv' \in [UpVals -> Cell]
    BY <2>4, <2>6, <2>7
  <2>. QED  BY <1>7, <2>3, <2>8 DEF TraverseLClosure
<1>8. ASSUME o \in Threads, TraverseThread(o)
      PROVE /\ Marks /\ GrayOK' /\ UNCHANGED <<uv, cache>>
            /\ stale' \in [Threads -> Obj \union {Nil}] /\ twups' \subseteq Threads
  <2>1. Marks
    BY <1>0, <1>8, MarkType DEF TraverseThread
  <2>2. stale' \in [Threads -> Obj \union {Nil}] /\ twups' \subseteq Threads
    BY <1>8 DEF TraverseThread, Relinked
  <2>. QED  BY <1>0, <1>8, <2>1, <2>2 DEF TraverseThread
<1>9. UNCHANGED <<listVars, sweepVars, refVars, clp, upv>>
  BY DEF Propagate
<1>10. Marks /\ GrayOK' /\ FuncsOK' /\ stale' \in [Threads -> Obj \union {Nil}] /\ twups' \subseteq Threads
  <2>1. CASE o \in Tables /\ (\/ TraverseStrong(o) \/ TraverseWeakValue(o)
                              \/ TraverseEphemeron(o) \/ TraverseAllWeak(o))
    BY <1>1, <1>2, <1>3, <1>4, <1>9, <2>1
  <2>2. CASE o \in Protos /\ TraverseProto(o)
    BY <1>5, <2>2
  <2>3. CASE o \in CClosures /\ TraverseCClosure(o)
    BY <1>6, <1>9, <2>3
  <2>4. CASE o \in LClosures /\ TraverseLClosure(o)
    BY <1>7, <1>9, <2>4
  <2>5. CASE o \in Threads /\ TraverseThread(o)
    BY <1>8, <1>9, <2>5
  <2>. QED  BY <2>1, <2>2, <2>3, <2>4, <2>5 DEF Propagate
<1>. QED  BY <1>9, <1>10

(* From the start of a cycle to the second traversal of grayagain.         *)
LEMMA MarkPhaseType ==
  ASSUME TypeOK
  PROVE  /\ Restart => TypeOK'
         /\ PropagateStep => TypeOK'
         /\ AtomicEnter => TypeOK'
         /\ PropagateAll => TypeOK'
         /\ AtomicStart => TypeOK'
         /\ \A th \in twups : RemarkUpvals(th) => TypeOK'
         /\ RemarkDone => TypeOK'
         /\ GrayAgain => TypeOK'
<1>. USE DEF TypeOK, ListsOK, PhaseOK, SweepOK, GrayOK, RefsOK, FuncsOK, StackOK, AtomPCs,
             listVars, sweepVars, refVars, funcVars, stackVars, grayVars
<1>1. ASSUME Restart PROVE TypeOK'
  <2>1. color' \in [Obj -> Colors] /\ gray' \in SUBSET (Obj \ Leaves)
    <3>1. {} \in SUBSET (Obj \ Leaves)
      OBVIOUS
    <3>2. \E W : Mark(W, color, {})
      BY <1>1 DEF Restart
    <3>. QED  BY <3>1, <3>2, MarkType
  <2>2. cstack' \in Seq(Frame)
    BY <1>1, FrameType, PushedType, TopType, FullFinType DEF Restart
  <2>. QED  BY <1>1, <2>1, <2>2 DEF Restart
<1>2. ASSUME PropagateStep PROVE TypeOK'
  <2>1. PICK o \in gray : Propagate(o)
    BY <1>2 DEF PropagateStep
  <2>2. cstack' \in Seq(Frame)
    BY <1>2, PushedType DEF PropagateStep
  <2>3. gcstate' \in {"propagate", "atomic"}
    BY <1>2 DEF PropagateStep
  <2>4. UNCHANGED <<currentwhite, gcfinnum, atom, stk, running, resumer, strcache>>
    BY <2>1 DEF Propagate
  <2>. QED  BY <2>1, <2>2, <2>3, <2>4, PropagateType
<1>3. ASSUME AtomicEnter PROVE TypeOK'
  <2>1. cstack' \in Seq(Frame)
    BY <1>3, PushedType DEF AtomicEnter
  <2>. QED  BY <1>3, <2>1 DEF AtomicEnter, At
<1>4. ASSUME PropagateAll PROVE TypeOK'
  <2>1. PICK o \in gray : Propagate(o)
    BY <1>4 DEF PropagateAll
  <2>2. UNCHANGED <<currentwhite, gcfinnum, atom, stk, running, resumer, strcache>>
    BY <2>1 DEF Propagate
  <2>3. UNCHANGED <<gcstate, cstack>>
    BY <1>4 DEF PropagateAll
  <2>. QED  BY <2>1, <2>2, <2>3, PropagateType, SMTT(30)
<1>5. ASSUME AtomicStart PROVE TypeOK'
  <2>0. Obj \ Leaves \subseteq Obj
    OBVIOUS
  <2>1. color' \in [Obj -> Colors] /\ gray' \in SUBSET (Obj \ Leaves)
    BY <1>5, MarkType DEF AtomicStart
  <2>2. atom' \in [pc : AtomPCs, again : SUBSET (Obj \ Leaves), eph : SUBSET Tables,
                   changed : BOOLEAN, origweak : SUBSET Tables, origall : SUBSET Tables]
    BY <1>5 DEF AtomicStart, At
  <2>. QED  BY <1>5, <2>1, <2>2 DEF AtomicStart, quietVars
<1>6. ASSUME NEW th \in twups, RemarkUpvals(th) PROVE TypeOK'
  <2>1. color' \in [Obj -> Colors] /\ gray' \in SUBSET (Obj \ Leaves)
    BY <1>6, MarkType DEF RemarkUpvals
  <2>2. ASSUME NEW x \in Cell PROVE [x EXCEPT !.touched = FALSE] \in Cell
    BY DEF Cell
  <2>3. uv' \in [UpVals -> Cell]
    BY <1>6, <2>2 DEF RemarkUpvals
  <2>. QED  BY <1>6, <2>1, <2>3 DEF RemarkUpvals, quietVars, phaseVars
<1>7. ASSUME RemarkDone PROVE TypeOK'
  BY <1>7 DEF RemarkDone, At
<1>8. ASSUME GrayAgain PROVE TypeOK'
  BY <1>8 DEF GrayAgain, At
<1>. QED  BY <1>1, <1>2, <1>3, <1>4, <1>5, <1>6, <1>7, <1>8

(* Ephemerons and the end of the atomic phase.                             *)
LEMMA ConvergeType ==
  ASSUME TypeOK
  PROVE  /\ ConvergeRound => TypeOK'
         /\ \A w \in Tables : ConvergeVisit(w) => TypeOK'
         /\ Separate => TypeOK'
         /\ AtomicFinish => TypeOK'
<1>. USE DEF TypeOK, ListsOK, PhaseOK, SweepOK, GrayOK, RefsOK, FuncsOK, StackOK, AtomPCs,
             listVars, sweepVars, refVars, funcVars, stackVars, grayVars
<1>. DEFINE Atoms == [pc : AtomPCs, again : SUBSET (Obj \ Leaves), eph : SUBSET Tables,
                      changed : BOOLEAN, origweak : SUBSET Tables, origall : SUBSET Tables]
<1>1. ASSUME ConvergeRound PROVE TypeOK'
  <2>1. atom' \in Atoms
    BY <1>1, ZenonT(60) DEF ConvergeRound, At
  <2>. QED  BY <1>1, <2>1 DEF ConvergeRound
<1>2. ASSUME NEW w \in Tables, ConvergeVisit(w) PROVE TypeOK'
  <2>1. PICK early \in SUBSET entries[w] :
           /\ VisitEphemeron(w, color, gray, ephemeron, early)
           /\ atom' = [atom EXCEPT !.eph = @ \ {w},
                               !.changed = \/ @
                                           \/ MarksValue(early, color)
                                           \/ MarksValue(entries[w] \ early,
                                                Marked(VisitMarks(early, color), color))]
    BY <1>2 DEF ConvergeVisit
  <2>2. atom' \in Atoms
    <3>1. \A b \in BOOLEAN : [atom EXCEPT !.eph = @ \ {w}, !.changed = b] \in Atoms
      OBVIOUS
    <3>. DEFINE b == \/ atom.changed
                     \/ MarksValue(early, color)
                     \/ MarksValue(entries[w] \ early, Marked(VisitMarks(early, color), color))
    <3>2. b \in BOOLEAN
      BY Zenon
    <3>3. atom' = [atom EXCEPT !.eph = @ \ {w}, !.changed = b]
      BY <2>1
    <3>. HIDE DEF b, Atoms
    <3>. QED  BY <3>1, <3>2, <3>3
  <2>3. /\ color' \in [Obj -> Colors] /\ gray' \in SUBSET (Obj \ Leaves)
        /\ grayagain' \subseteq Obj \ Leaves
        /\ ephemeron' \subseteq Tables /\ allweak' \subseteq Tables
    BY <2>1, VisitType
  <2>. QED  BY <1>2, <2>2, <2>3 DEF ConvergeVisit
<1>3. ASSUME Separate PROVE TypeOK'
  <2>. DEFINE S  == {o \in finobj : IsWhite(o)}
              c1 == Marked(UNION {Values(t) \intersect Strings : t \in weak \union allweak}, color)
  <2>1. c1 \in [Obj -> Colors]
    BY MarkedType
  <2>2. /\ finobj' = finobj \ S /\ tobefnz' = tobefnz \union S
        /\ Mark(tobefnz \union S, c1, gray)
    BY <1>3 DEF Separate
  <2>. HIDE DEF c1
  <2>3. color' \in [Obj -> Colors] /\ gray' \in SUBSET (Obj \ Leaves)
    BY <2>1, <2>2, MarkType
  <2>4. atom' \in Atoms
    BY <1>3 DEF Separate, At
  <2>5. entries' \in [Tables -> SUBSET ((Obj \union {Num}) \X (Obj \union {Num}))]
    BY <1>3 DEF Separate
  <2>. QED  BY <1>3, <2>2, <2>3, <2>4, <2>5 DEF Separate, quietVars
<1>4. ASSUME AtomicFinish PROVE TypeOK'
  <2>1. color' \in [Obj -> Colors]
    BY <1>4, MarkedType DEF AtomicFinish
  <2>2. entries' \in [Tables -> SUBSET ((Obj \union {Num}) \X (Obj \union {Num}))]
    BY <1>4 DEF AtomicFinish
  <2>3. atom' \in Atoms /\ currentwhite' \in Whites
    BY <1>4 DEF AtomicFinish, Idle, otherwhite, Whites
  <2>. QED  BY <1>4, <2>1, <2>2, <2>3 DEF AtomicFinish, quietVars
<1>. QED  BY <1>1, <1>2, <1>3, <1>4

(***************************************************************************)
(* The sweep phase and the finalizers.                                     *)
(***************************************************************************)
LEMMA CollectType ==
  ASSUME TypeOK, NEW C \in SUBSET Obj, Collect(C), color' = Swept(C, color),
         mt' = Erase(Dead(C), mt, Nil), UNCHANGED <<basemt>>
  PROVE  ListsOK' /\ RefsOK' /\ FuncsOK'
         /\ stk' \in [Threads -> SUBSET Obj] /\ stale' \in [Threads -> Obj \union {Nil}]
<1>1. Dead(C) \in SUBSET Obj
  BY DEF Dead
<1>2. FreedOK'
  BY <1>1, FreeType DEF TypeOK, FreedOK, RefsOK, StackOK, Collect
<1>3. mt' \in [Tables \union Udatas -> Tables \union {Nil}]
  BY DEF TypeOK, RefsOK, Erase
<1>4. ListsOK'
  BY SweepType DEF TypeOK, ListsOK, Collect
<1>. QED  BY <1>2, <1>3, <1>4 DEF FreedOK, TypeOK, RefsOK

(* Sweeping frees whole objects.                                           *)
LEMMA SweepPhaseType ==
  ASSUME TypeOK
  PROVE  /\ EnterSweep => TypeOK'
         /\ SweepStep => TypeOK'
         /\ SweepEnd => TypeOK'
<1>. USE DEF TypeOK, PhaseOK, GrayOK, StackOK, AtomPCs, grayVars
<1>1. ASSUME EnterSweep PROVE TypeOK'
  <2>1. PICK C \in Batch(allgc, 1) :
           /\ Advance(C, allgc, "allgc")
           /\ color' = Swept(C, color)
           /\ mt' = Erase(Dead(C), mt, Nil)
           /\ Collect(C)
    BY <1>1 DEF EnterSweep
  <2>2. C \in SUBSET Obj /\ allgc \in SUBSET Obj
    BY DEF Batch, ListsOK
  <2>3. SweepOK'
    BY <2>1, <2>2, SweepType
  <2>4. ListsOK' /\ RefsOK' /\ FuncsOK'
         /\ stk' \in [Threads -> SUBSET Obj] /\ stale' \in [Threads -> Obj \union {Nil}]
    BY <1>1, <2>1, <2>2, CollectType DEF EnterSweep
  <2>5. PhaseOK'
    BY <1>1 DEF EnterSweep, Idle, SweepStates
  <2>. QED  BY <1>1, <2>3, <2>4, <2>5 DEF EnterSweep
<1>2. ASSUME SweepStep PROVE TypeOK'
  <2>1. PICK C \in Batch(ToSweep, GCSWEEPMAX) :
           /\ \E p \in IF sweepgc = "NULL" THEN {"NULL"} ELSE AfterSweep(C, ToSweep, sweepgc) :
                /\ gcstate' = IF p = "NULL" THEN NextSweep(gcstate)[1] ELSE gcstate
                /\ sweepgc' = IF p = "NULL" THEN NextSweep(gcstate)[2] ELSE p
           /\ unswept' = IF sweepgc' \in Obj THEN ToSweep \ C ELSE {}
           /\ color' = Swept(C, color)
           /\ mt' = Erase(Dead(C), mt, Nil)
           /\ Collect(C)
    BY <1>2 DEF SweepStep
  <2>2. C \in SUBSET Obj
    BY SweepType DEF Batch
  <2>3. /\ gcstate \in {"swpallgc", "swpfinobj", "swptobefnz"}
        /\ NextSweep(gcstate)[1] \in SweepStates
        /\ NextSweep(gcstate)[2] \in {"finobj", "tobefnz", "NULL"}
    BY <1>2 DEF SweepStep, NextSweep, SweepStates
  <2>4. PICK p \in IF sweepgc = "NULL" THEN {"NULL"} ELSE AfterSweep(C, ToSweep, sweepgc) :
           /\ gcstate' = IF p = "NULL" THEN NextSweep(gcstate)[1] ELSE gcstate
           /\ sweepgc' = IF p = "NULL" THEN NextSweep(gcstate)[2] ELSE p
    BY <2>1
  <2>5. p \in Obj \union {sweepgc, "NULL"}
    BY <2>2, SweepType
  <2>6. SweepOK'
    BY <2>1, <2>3, <2>4, <2>5, SweepType DEF SweepOK
  <2>7. gcstate' \in SweepStates
    BY <2>3, <2>4 DEF SweepStates
  <2>8. ListsOK' /\ RefsOK' /\ FuncsOK'
         /\ stk' \in [Threads -> SUBSET Obj] /\ stale' \in [Threads -> Obj \union {Nil}]
    BY <1>2, <2>1, <2>2, CollectType DEF SweepStep
  <2>9. cstack' \in Seq(Frame)
    BY <1>2, PushedType DEF SweepStep
  <2>. QED  BY <1>2, <2>6, <2>7, <2>8, <2>9 DEF SweepStep
<1>3. ASSUME SweepEnd PROVE TypeOK'
  <2>1. cstack' \in Seq(Frame)
    BY <1>3, PushedType DEF SweepEnd
  <2>2. color' \in [Obj -> Colors]
    BY <1>3 DEF SweepEnd, ListsOK, Colors
  <2>. QED  BY <1>3, <2>1, <2>2
       DEF SweepEnd, ListsOK, SweepOK, RefsOK, FuncsOK, listVars, sweepVars, refVars, funcVars,
           stackVars
<1>. QED  BY <1>1, <1>2, <1>3

(* GCTM pushes the object, and a frame for its finalizer.                  *)
LEMMA GCTMType ==
  ASSUME TypeOK, NEW o, NEW cs \in Seq(Frame), GCTM(o, cs)
  PROVE  TypeOK'
<1>. USE DEF TypeOK, ListsOK, PhaseOK, SweepOK, GrayOK, RefsOK, FuncsOK, StackOK,
             refVars, funcVars, grayVars
<1>1. o \in Obj /\ Whites \subseteq Colors
  BY DEF GCTM, Colors
<1>2. ListsOK'
  BY <1>1 DEF GCTM
<1>3. SweepOK'
  BY <1>1 DEF GCTM
<1>4. cstack' \in Seq(Frame)
  <2>1. OpenUpvals(L) \in SUBSET UpVals
    BY DEF OpenUpvals
  <2>2. [kind |-> "fin", th |-> L, base |-> stk[L], open |-> OpenUpvals(L)] \in Frame
    BY <2>1, FrameType DEF L
  <2>3. \A f \in Frame : Append(cs, f) \in Seq(Frame)
    OBVIOUS
  <2>. QED  BY <2>2, <2>3 DEF GCTM
<1>5. stk' \in [Threads -> SUBSET Obj] /\ stale' \in [Threads -> Obj \union {Nil}]
  <2>1. Push(o) \/ UNCHANGED <<stk, stale>>
    BY DEF GCTM
  <2>2. CASE Push(o)
    BY <1>1, <2>2 DEF Push, L
  <2>. QED  BY <2>1, <2>2
<1>. QED  BY <1>2, <1>3, <1>4, <1>5 DEF GCTM

(* Calls and returns of finalizers, and the ends of the C functions.       *)
LEMMA FinalizersType ==
  ASSUME TypeOK
  PROVE  /\ \A o \in tobefnz : CallFin(o) \/ FewMore(o) \/ StepFinalizers(o) => TypeOK'
         /\ FewEnd \/ Pause \/ StepEnd \/ FullEnd => TypeOK'
         /\ FinalizerEnd => TypeOK'
         /\ \A em \in BOOLEAN : FullGC(em) => TypeOK'
<1>0. cstack \in Seq(Frame) /\ \A cs \in Seq(Frame), f \in Frame : Append(cs, f) \in Seq(Frame)
  BY DEF TypeOK, StackOK
<1>1. ASSUME NEW o \in tobefnz, CallFin(o) PROVE TypeOK'
  <2>1. PICK cs : SingleStep(cs) /\ GCTM(o, Append(cs, FewFrame))
    BY <1>1 DEF CallFin
  <2>. QED  BY <1>0, <2>1, PushedType, FrameType, GCTMType
<1>2. ASSUME NEW o \in tobefnz, FewMore(o) PROVE TypeOK'
  BY <1>0, <1>2, GCTMType DEF FewMore
<1>3. ASSUME NEW o \in tobefnz, StepFinalizers(o) PROVE TypeOK'
  BY <1>0, <1>3, FrameType, TopType, GCTMType DEF StepFinalizers
<1>. USE DEF TypeOK, ListsOK, PhaseOK, SweepOK, GrayOK, RefsOK, FuncsOK, StackOK, AtomPCs,
             listVars, phaseVars, sweepVars, refVars, funcVars, stackVars, grayVars
<1>4. ASSUME FewEnd \/ StepEnd \/ FullEnd PROVE TypeOK'
  <2>1. cstack' \in Seq(Frame)
    BY <1>0, <1>4, TopType DEF FewEnd, StepEnd, FullEnd
  <2>2. gcfinnum' \in BOOLEAN
    BY <1>4 DEF FewEnd, StepEnd, FullEnd
  <2>. QED  BY <1>4, <2>1, <2>2 DEF FewEnd, StepEnd, FullEnd
<1>5. ASSUME Pause PROVE TypeOK'
  <2>1. cstack' \in Seq(Frame)
    BY <1>0, <1>5, PushedType DEF Pause
  <2>. QED  BY <1>5, <2>1 DEF Pause
<1>6. ASSUME FinalizerEnd PROVE TypeOK'
  <2>1. PICK U : /\ U = OpenUpvals(L) \ Top.open
                 /\ uv' = Closed(U)
                 /\ UpvalBarrier(ClosedValues(U))
                 /\ stk' = [stk EXCEPT ![L] = Top.base]
                 /\ \E x : stale' = [stale EXCEPT ![L] = Left(x)]
    BY <1>6 DEF FinalizerEnd
  <2>2. uv' \in [UpVals -> Cell]
    BY <2>1, ClosedType
  <2>3. color' \in [Obj -> Colors] /\ gray' \in SUBSET (Obj \ Leaves)
    BY <2>1, BarrierType
  <2>4. stk' \in [Threads -> SUBSET Obj]
    BY <1>0, <1>6, <2>1, FullFinType DEF FinalizerEnd
  <2>5. stale' \in [Threads -> Obj \union {Nil}]
    BY <2>1, MutatorAssumption DEF Left
  <2>6. cstack' \in Seq(Frame)
    <3>1. /\ TopIs("fin")
          /\ \/ cstack' = Dropped
             \/ \E j \in 0..(Len(cstack) - 1) : cstack' = SubSeq(cstack, 1, j)
      BY <1>6, ZenonT(60) DEF FinalizerEnd
    <3>. QED  BY <1>0, <3>1, TopType, ZenonT(30)
  <2>7. UNCHANGED <<listVars, phaseVars, sweepVars, grayagain, weak, ephemeron, allweak, refVars,
                    clp, upv, cache, running, resumer, twups, strcache>>
    BY <1>6 DEF FinalizerEnd
  <2>8. ListsOK' /\ PhaseOK' /\ SweepOK' /\ GrayOK' /\ RefsOK'
    BY <2>3, <2>7
  <2>9. FuncsOK'
    BY <2>2, <2>7, SMTT(30)
  <2>10. StackOK'
    BY <2>4, <2>5, <2>6, <2>7, SMTT(30)
  <2>. QED  BY <2>8, <2>9, <2>10
<1>7. ASSUME NEW em \in BOOLEAN, FullGC(em) PROVE TypeOK'
  <2>1. cstack' \in Seq(Frame)
    BY <1>0, <1>7, PushedType, FrameType DEF FullGC
  <2>. QED  BY <1>7, <2>1 DEF FullGC, At
<1>. QED  BY <1>1, <1>2, <1>3, <1>4, <1>5, <1>6, <1>7

(***************************************************************************)
(* The theorem.                                                            *)
(***************************************************************************)
LEMMA TypeInit == HeapInit => TypeOK
<1>. SUFFICES ASSUME HeapInit PROVE TypeOK
  OBVIOUS
<1>. USE DEF HeapInit
<1>1. MainThread \in Threads /\ Registry \in Tables /\ Threads \union Tables \subseteq Obj
  BY KindsDisjoint DEF Threads, Obj
<1>2. ListsOK /\ PhaseOK /\ SweepOK /\ GrayOK
  BY <1>1 DEF ListsOK, PhaseOK, SweepOK, GrayOK, Colors, Whites, Idle, AtomPCs
<1>3. RefsOK /\ FuncsOK
  BY CellType DEF RefsOK, FuncsOK
<1>4. StackOK
  BY <1>1 DEF StackOK
<1>. QED  BY <1>2, <1>3, <1>4 DEF TypeOK

(* The program's operations, one case per kind.                            *)
LEMMA MutateType == TypeOK /\ Mutate => TypeOK'
<1>. SUFFICES ASSUME TypeOK, Mutate PROVE TypeOK'
  OBVIOUS
<1>1. \A t \in Tables : Values(t) \subseteq Obj \union {Num}
  BY DEF TypeOK, RefsOK, Values
<1>2. CASE \/ \E o \in Obj : Pop(o)
           \/ Expose
           \/ \E o, x \in Obj : Get(o, x)
           \/ \E from, to \in Threads, o \in Obj : Xmove(from, to, o)
           \/ \E co \in Coroutines : Resume(co)
           \/ Yield
  BY <1>2, StackOpsType
<1>3. CASE \/ \E o \in Tables \union Udatas \union Coroutines : NewObject(o)
           \/ \E s \in Strings : NewString(s)
           \/ \E s \in Strings : NewLString(s)
  BY <1>3, CreationType
<1>4. CASE \E w \in Vals : w[1] \in CClosures /\ NewCClosure(w[1], w[2])
  BY <1>4, CreationType, MutatorAssumption
<1>5. CASE \/ \E w \in Writes : SetTable(w[1], w[2], w[3])
           \/ \E t \in Tables : \E e \in entries[t] : ClearEntry(t, e)
           \/ \E w \in Vals : SetVal(w[1], w[2])
           \/ \E m \in BaseMetas : SetBaseMt(m)
  BY <1>5, StoreType
<1>6. CASE \E w \in Metas : \/ SetMetatable(w[1], w[2])
                            \/ SetFinalizer(w[1], w[2])
                            \/ SetFinalizerInSweep(w[1], w[2])
  BY <1>6, StoreType, SetFinalizerInSweepType
<1>7. CASE \/ \E c \in LClosures, p \in Protos, u \in UpVals :
                \E v \in Values(Registry) \union {Nil} : Load(c, p, u, v)
           \/ \E f, n \in LClosures, u \in UpVals : ReuseClosure(f, n, u) \/ NewClosure(f, n, u)
           \/ \E f, n \in LClosures, u \in UpVals : \E v \in Locals : CaptureLocal(f, n, u, v)
  <2>1. Values(Registry) \union {Nil} \subseteq Obj \union {Nil, Num}
    BY <1>1, KindsDisjoint
  <2>. QED  BY <1>7, <2>1, ClosuresType
<1>8. CASE \/ \E c \in LClosures : \E v \in Assigned : SetUpval(c, v)
           \/ \E u \in UpVals : \E v \in Assigned : SetLocal(u, v)
           \/ \E U \in SUBSET UpVals : CloseUpvals(U)
           \/ \E j \in Joins : UpvalueJoin(j[1], j[2])
  BY <1>8, UpvaluesType
<1>. QED  BY <1>2, <1>3, <1>4, <1>5, <1>6, <1>7, <1>8 DEF Mutate

(* Every step preserves the types.                                         *)
LEMMA TypeNext == TypeOK /\ [Next]_vars => TypeOK'
<1>. SUFFICES ASSUME TypeOK, [Next]_vars PROVE TypeOK'
  OBVIOUS
<1>1. CASE Mutate
  BY <1>1, MutateType
<1>2. CASE Restart \/ PropagateStep
  BY <1>2, MarkPhaseType
<1>3. CASE Atomic
  BY <1>3, MarkPhaseType, ConvergeType DEF Atomic
<1>4. CASE Sweeping
  BY <1>4, SweepPhaseType DEF Sweeping
<1>5. CASE Finalizing \/ StepEnd \/ FullEnd
  BY <1>5, FinalizersType DEF Finalizing
<1>6. CASE FinalizerEnd \/ \E emergency \in FullKinds : FullGC(emergency)
  BY <1>6, FinalizersType, CollectorAssumption
<1>7. CASE UNCHANGED vars
  BY <1>7 DEF vars, TypeOK, ListsOK, PhaseOK, SweepOK, GrayOK, RefsOK, FuncsOK, StackOK,
     listVars, phaseVars, sweepVars, grayVars, refVars, funcVars, stackVars
<1>. QED  BY <1>1, <1>2, <1>3, <1>4, <1>5, <1>6, <1>7 DEF Next, CollectorStep

(* Every variable keeps its type whatever the program does and whenever the *)
(* collector runs: every colour is one that lgc.h defines, the gray lists  *)
(* hold no string and no userdata, every stack frame is one of luaC_step,  *)
(* luaC_fullgc, runafewfinalizers or a finalizer.                          *)
THEOREM TypeCorrect == Spec => []TypeOK
<1>. QED  BY TypeInit, TypeNext, PTL DEF Spec

-----------------------------------------------------------------------------
(***************************************************************************)
(* Reference counts of upvalue cells: RefcountExact holds of every program *)
(* that never joins an upvalue with itself.  The inductive invariant adds  *)
(* that a closure that is not allocated holds no cell.                     *)
(***************************************************************************)

NoSelfJoin == \A j \in Joins : j[1] # j[2]

FreeHoldNothing == \A c \in LClosures : color[c] = "free" => upv[c] = Nil

RefInv == TypeOK /\ RefcountExact /\ FreeHoldNothing

(* One conjunct of RefcountExact.                                          *)
CellExact(u) ==
  /\ uv[u].refcount = Cardinality(Holders(u))
  /\ uv[u].th = "closed" => uv[u].refcount > 0
  /\ uv[u].th = "free" => uv[u].refcount = 0

(* The closures that hold a cell can be counted.                           *)
LEMMA HoldersFinite ==
  \A u : IsFiniteSet(Holders(u)) /\ Cardinality(Holders(u)) \in Nat
<1>1. LClosures \subseteq Obj
  BY DEF Obj
<1>. SUFFICES ASSUME NEW u PROVE IsFiniteSet(Holders(u)) /\ Cardinality(Holders(u)) \in Nat
  OBVIOUS
<1>2. Holders(u) \in SUBSET Obj
  BY <1>1 DEF Holders
<1>3. IsFiniteSet(Holders(u))
  BY <1>2, FS_Subset, ObjFinite
<1>. QED  BY <1>3, FS_CardinalityType

(* A cell that no closure holds is not in use, and the other way round.    *)
LEMMA FreeUnheld ==
  ASSUME TypeOK, RefcountExact, NEW u \in UpVals, NEW c \in LClosures,
         uv[u].th = "free" \/ uv[u].refcount = 0
  PROVE  upv[c] # u
<1>1. uv[u].refcount = 0 /\ Cardinality(Holders(u)) = 0
  BY DEF RefcountExact
<1>2. Holders(u) = {}
  BY <1>1, HoldersFinite, FS_EmptySet
<1>. QED  BY <1>2 DEF Holders

(***************************************************************************)
(* Steps that leave the counts alone.                                      *)
(***************************************************************************)
SameCounts ==
  /\ upv' = upv
  /\ \A u \in UpVals : uv'[u].refcount = uv[u].refcount /\ uv'[u].th = uv[u].th

NoNewFree == \A c \in Obj : color'[c] = "free" => color[c] = "free"

(* A step that changes no count and frees nothing preserves the rest.      *)
LEMMA QuietStep ==
  ASSUME RefInv, SameCounts, NoNewFree
  PROVE  RefcountExact' /\ FreeHoldNothing'
<1>1. \A u \in UpVals : Holders(u)' = Holders(u)
  BY DEF SameCounts, Holders
<1>2. RefcountExact'
  BY <1>1 DEF RefInv, SameCounts, RefcountExact
<1>3. LClosures \subseteq Obj
  BY DEF Obj
<1>. QED  BY <1>2, <1>3 DEF RefInv, SameCounts, NoNewFree, FreeHoldNothing

(* Marking never hands out or takes back a block.                          *)
LEMMA MarkKeepsFree ==
  ASSUME NEW W, NEW c, NEW g, NEW o \in Obj, Mark(W, c, g), color'[o] = "free"
  PROVE  c[o] = "free"
  BY DEF Mark, Marked

(* Nor does a write barrier.                                               *)
LEMMA BarrierKeepsFree ==
  ASSUME TypeOK
  PROVE  /\ \A o, v : Barrier(o, v) => NoNewFree
         /\ \A t, V : BarrierBack(t, V) => NoNewFree
         /\ \A V : UpvalBarrier(V) => NoNewFree
<1>. USE DEF TypeOK, ListsOK, PhaseOK, NoNewFree
<1>1. ASSUME NEW o, NEW v, Barrier(o, v) PROVE NoNewFree
  BY <1>1, MarkKeepsFree DEF Barrier, Whites
<1>2. ASSUME NEW t, NEW V, BarrierBack(t, V) PROVE NoNewFree
  BY <1>2 DEF BarrierBack
<1>3. ASSUME NEW V, UpvalBarrier(V) PROVE NoNewFree
  BY <1>3, MarkKeepsFree DEF UpvalBarrier
<1>. QED  BY <1>1, <1>2, <1>3

(* The program's operations on stacks, strings, tables and userdata.       *)
LEMMA QuietMutator ==
  ASSUME TypeOK
  PROVE  /\ \A o \in Obj : Pop(o) => SameCounts /\ NoNewFree
         /\ Expose \/ Yield => SameCounts /\ NoNewFree
         /\ \A o, x \in Obj : Get(o, x) => SameCounts /\ NoNewFree
         /\ \A from, to, o : Xmove(from, to, o) => SameCounts /\ NoNewFree
         /\ \A co : Resume(co) => SameCounts /\ NoNewFree
         /\ \A o : NewObject(o) => SameCounts /\ NoNewFree
         /\ \A c, v : NewCClosure(c, v) => SameCounts /\ NoNewFree
         /\ \A s : NewString(s) \/ NewLString(s) => SameCounts /\ NoNewFree
         /\ \A t, k, v : SetTable(t, k, v) => SameCounts /\ NoNewFree
         /\ \A t, e : ClearEntry(t, e) => SameCounts /\ NoNewFree
         /\ \A o, v : SetVal(o, v) => SameCounts /\ NoNewFree
         /\ \A m : SetBaseMt(m) => SameCounts /\ NoNewFree
         /\ \A o, m : SetMetatable(o, m) \/ SetFinalizer(o, m) => SameCounts /\ NoNewFree
         /\ \A f, n, u : ReuseClosure(f, n, u) => SameCounts /\ NoNewFree
<1>. USE DEF funcVars, SameCounts
<1>1. ASSUME NEW o \in Obj, Pop(o) PROVE SameCounts /\ NoNewFree
  BY <1>1 DEF Pop, NoNewFree
<1>2. ASSUME Expose \/ Yield PROVE SameCounts /\ NoNewFree
  BY <1>2 DEF Expose, Yield, NoNewFree
<1>3. ASSUME NEW o \in Obj, NEW x \in Obj, Get(o, x) PROVE SameCounts /\ NoNewFree
  BY <1>3 DEF Get, NoNewFree
<1>4. ASSUME NEW from, NEW to, NEW o, Xmove(from, to, o) PROVE SameCounts /\ NoNewFree
  BY <1>4 DEF Xmove, NoNewFree
<1>5. ASSUME NEW co, Resume(co) PROVE SameCounts /\ NoNewFree
  BY <1>5 DEF Resume, NoNewFree
<1>6. "white0" # "free" /\ "white1" # "free" /\ currentwhite \in Whites
  BY DEF TypeOK, PhaseOK
<1>7. ASSUME NEW K, Create(K) PROVE NoNewFree
  BY <1>6, <1>7 DEF Create, NoNewFree, Whites
<1>8. ASSUME NEW o, NewObject(o) PROVE SameCounts /\ NoNewFree
  BY <1>7, <1>8 DEF NewObject
<1>9. ASSUME NEW c, NEW v, NewCClosure(c, v) PROVE SameCounts /\ NoNewFree
  BY <1>7, <1>9 DEF NewCClosure
<1>10. ASSUME NEW s, NewString(s) \/ NewLString(s) PROVE SameCounts /\ NoNewFree
  <2>1. ASSUME Intern(s) PROVE NoNewFree
    BY <1>6, <2>1 DEF Intern, NoNewFree, Whites, TypeOK, ListsOK
  <2>2. Intern(s) \/ UNCHANGED color
    BY <1>10 DEF NewString, NewLString
  <2>3. NoNewFree
    BY <2>1, <2>2 DEF NoNewFree
  <2>. QED  BY <1>10, <2>3 DEF NewString, NewLString
<1>11. ASSUME NEW t, NEW k, NEW v, SetTable(t, k, v) PROVE SameCounts /\ NoNewFree
  BY <1>11, BarrierKeepsFree DEF SetTable
<1>12. ASSUME NEW t, NEW e, ClearEntry(t, e) PROVE SameCounts /\ NoNewFree
  BY <1>12 DEF ClearEntry, NoNewFree
<1>13. ASSUME NEW o, NEW v, SetVal(o, v) PROVE SameCounts /\ NoNewFree
  BY <1>13, BarrierKeepsFree DEF SetVal
<1>14. ASSUME NEW m, SetBaseMt(m) PROVE SameCounts /\ NoNewFree
  BY <1>14 DEF SetBaseMt, NoNewFree
<1>15. ASSUME NEW o, NEW m, SetMetatable(o, m) \/ SetFinalizer(o, m) PROVE SameCounts /\ NoNewFree
  BY <1>15, BarrierKeepsFree DEF SetMetatable, SetFinalizer
<1>16. ASSUME NEW f, NEW n, NEW u, ReuseClosure(f, n, u) PROVE SameCounts /\ NoNewFree
  BY <1>16 DEF ReuseClosure, NoNewFree
<1>. QED  BY <1>1, <1>2, <1>3, <1>4, <1>5, <1>8, <1>9, <1>10, <1>11, <1>12, <1>13, <1>14,
             <1>15, <1>16

(* Assignments to upvalues change no count.                                *)
LEMMA QuietAssign ==
  ASSUME TypeOK
  PROVE  /\ \A c, v : SetUpval(c, v) => SameCounts /\ NoNewFree
         /\ \A u, v : SetLocal(u, v) => SameCounts /\ NoNewFree
<1>1. ASSUME NEW u, NEW v, uv' = [uv EXCEPT ![u].v = v]
      PROVE  \A w \in UpVals : uv'[w].refcount = uv[w].refcount /\ uv'[w].th = uv[w].th
  <2>1. \A w \in UpVals : uv'[w] = IF w = u THEN [uv[w] EXCEPT !.v = v] ELSE uv[w]
    BY <1>1 DEF TypeOK, FuncsOK
  <2>2. ASSUME NEW x \in Cell PROVE [x EXCEPT !.v = v].refcount = x.refcount /\ [x EXCEPT !.v = v].th = x.th
    BY DEF Cell
  <2>. QED  BY <2>1, <2>2 DEF TypeOK, FuncsOK
<1>2. ASSUME NEW c, NEW v, SetUpval(c, v) PROVE SameCounts /\ NoNewFree
  <2>1. NoNewFree
    <3>1. UpvalBarrier({v}) \/ UNCHANGED color
      BY <1>2 DEF SetUpval
    <3>. QED  BY <3>1, BarrierKeepsFree DEF NoNewFree
  <2>2. upv' = upv /\ uv' = [uv EXCEPT ![upv[c]].v = v]
    BY <1>2 DEF SetUpval
  <2>. QED  BY <1>1, <2>1, <2>2 DEF SameCounts
<1>3. ASSUME NEW u, NEW v, SetLocal(u, v) PROVE SameCounts /\ NoNewFree
  BY <1>1, <1>3 DEF SetLocal, SameCounts, NoNewFree
<1>. QED  BY <1>2, <1>3

(* Traversing a gray object only touches upvalues and marks what it finds. *)
LEMMA QuietPropagate ==
  ASSUME TypeOK, NEW o \in gray, Propagate(o)
  PROVE  SameCounts /\ NoNewFree
<1>. USE DEF TypeOK, ListsOK, FuncsOK, NoNewFree
<1>0. \A W, c, g : Mark(W, c, g) /\ c \in {color, [color EXCEPT ![o] = "black"]} => NoNewFree
  BY MarkKeepsFree
<1>1. ASSUME NEW early, NEW g, VisitEphemeron(o, Marked({mt[o]}, color), g, ephemeron, early)
      PROVE  NoNewFree
  <2>1. \A x \in Obj : Marked({mt[o]}, color)[x] = "free" => color[x] = "free"
    BY DEF Marked
  <2>2. \E W : Mark(W, Marked({mt[o]}, color), g)
    BY <1>1 DEF VisitEphemeron
  <2>. QED  BY <2>1, <2>2, MarkKeepsFree
<1>2. NoNewFree
  <2>1. CASE TraverseStrong(o) \/ TraverseWeakValue(o) \/ TraverseAllWeak(o)
    BY <1>0, <2>1 DEF TraverseStrong, TraverseWeakValue, TraverseAllWeak
  <2>2. CASE TraverseEphemeron(o)
    BY <1>1, <2>2 DEF TraverseEphemeron
  <2>3. CASE TraverseProto(o)
    BY <2>3 DEF TraverseProto
  <2>4. CASE TraverseCClosure(o) \/ TraverseThread(o)
    BY <1>0, <2>4 DEF TraverseCClosure, TraverseThread
  <2>5. CASE TraverseLClosure(o)
    BY <1>0, <2>5 DEF TraverseLClosure
  <2>. QED  BY <2>1, <2>2, <2>3, <2>4, <2>5 DEF Propagate
<1>3. upv' = upv
  BY DEF Propagate
<1>4. UNCHANGED uv \/ uv' = [uv EXCEPT ![upv[o]].touched = TRUE]
  BY DEF Propagate, TraverseStrong, TraverseWeakValue, TraverseEphemeron, TraverseAllWeak,
         TraverseProto, TraverseCClosure, TraverseLClosure, TraverseThread
<1>5. ASSUME NEW x \in Cell
      PROVE  [x EXCEPT !.touched = TRUE].refcount = x.refcount /\ [x EXCEPT !.touched = TRUE].th = x.th
  BY DEF Cell
<1>6. \A w \in UpVals : uv'[w] = uv[w] \/ uv'[w] = [uv[w] EXCEPT !.touched = TRUE]
  BY <1>4
<1>. QED  BY <1>2, <1>3, <1>5, <1>6 DEF SameCounts

(* The mark phase, and every other step of the collector that frees        *)
(* nothing.                                                                *)
LEMMA QuietCollector ==
  ASSUME TypeOK
  PROVE  /\ Restart \/ PropagateStep \/ Atomic \/ SweepEnd => SameCounts /\ NoNewFree
         /\ Finalizing \/ StepEnd \/ FullEnd => SameCounts /\ NoNewFree
         /\ \A em : FullGC(em) => SameCounts /\ NoNewFree
<1>. USE DEF funcVars, SameCounts
<1>0. /\ color \in [Obj -> Colors]
      /\ currentwhite # "free"
      /\ \A W, g : Mark(W, color, g) => NoNewFree
      /\ UNCHANGED color => NoNewFree
  BY MarkKeepsFree DEF TypeOK, ListsOK, PhaseOK, Whites, NoNewFree
<1>1. ASSUME Restart PROVE SameCounts /\ NoNewFree
  BY <1>0, <1>1 DEF Restart
<1>2. ASSUME PropagateStep \/ PropagateAll PROVE SameCounts /\ NoNewFree
  BY <1>2, QuietPropagate DEF PropagateStep, PropagateAll
<1>3. ASSUME AtomicEnter \/ RemarkDone \/ GrayAgain \/ ConvergeRound PROVE SameCounts /\ NoNewFree
  BY <1>0, <1>3 DEF AtomicEnter, RemarkDone, GrayAgain, ConvergeRound
<1>4. ASSUME AtomicStart PROVE SameCounts /\ NoNewFree
  BY <1>0, <1>4 DEF AtomicStart, quietVars
<1>5. ASSUME NEW th, RemarkUpvals(th) PROVE SameCounts /\ NoNewFree
  <2>1. ASSUME NEW x \in Cell
        PROVE  /\ [x EXCEPT !.touched = FALSE].refcount = x.refcount
               /\ [x EXCEPT !.touched = FALSE].th = x.th
    BY DEF Cell
  <2>2. \A w \in UpVals : uv'[w] = uv[w] \/ uv'[w] = [uv[w] EXCEPT !.touched = FALSE]
    BY <1>5 DEF RemarkUpvals
  <2>3. NoNewFree
    BY <1>0, <1>5 DEF RemarkUpvals
  <2>4. upv' = upv
    BY <1>5 DEF RemarkUpvals, quietVars
  <2>. QED  BY <2>1, <2>2, <2>3, <2>4 DEF TypeOK, FuncsOK
<1>6. ASSUME NEW w, ConvergeVisit(w) PROVE SameCounts /\ NoNewFree
  <2>1. \E W : Mark(W, color, gray)
    BY <1>6 DEF ConvergeVisit, VisitEphemeron
  <2>. QED  BY <1>0, <1>6, <2>1 DEF ConvergeVisit
<1>7. ASSUME Separate PROVE SameCounts /\ NoNewFree
  <2>. DEFINE W0 == UNION {Values(t) \intersect Strings : t \in weak \union allweak}
  <2>1. \A x \in Obj : Marked(W0, color)[x] = "free" => color[x] = "free"
    BY DEF Marked
  <2>2. \E W : Mark(W, Marked(W0, color), gray)
    BY <1>7 DEF Separate
  <2>. HIDE DEF W0
  <2>3. NoNewFree
    BY <2>1, <2>2, MarkKeepsFree DEF NoNewFree
  <2>. QED  BY <1>7, <2>3 DEF Separate, quietVars
<1>8. ASSUME AtomicFinish PROVE SameCounts /\ NoNewFree
  <2>1. \E S : color' = Marked(S, color)
    BY <1>8 DEF AtomicFinish
  <2>2. NoNewFree
    BY <2>1 DEF NoNewFree, Marked
  <2>. QED  BY <1>8, <2>2 DEF AtomicFinish, quietVars
<1>9. ASSUME SweepEnd PROVE SameCounts /\ NoNewFree
  BY <1>0, <1>9 DEF SweepEnd, NoNewFree
<1>10. ASSUME NEW o, NEW cs, GCTM(o, cs) PROVE SameCounts /\ NoNewFree
  BY <1>0, <1>10 DEF GCTM, NoNewFree
<1>11. ASSUME Finalizing \/ StepEnd \/ FullEnd PROVE SameCounts /\ NoNewFree
  BY <1>0, <1>10, <1>11 DEF Finalizing, CallFin, FewMore, StepFinalizers, FewEnd, Pause, StepEnd, FullEnd
<1>12. ASSUME NEW em, FullGC(em) PROVE SameCounts /\ NoNewFree
  BY <1>0, <1>12 DEF FullGC
<1>. QED  BY <1>1, <1>2, <1>3, <1>4, <1>5, <1>6, <1>7, <1>8, <1>9, <1>11, <1>12 DEF Atomic

(***************************************************************************)
(* Steps that change the counts.                                           *)
(***************************************************************************)
(* The cell u is the only one that changes, or gains or loses a holder.    *)
LEMMA OneCell ==
  ASSUME RefInv, NEW u \in UpVals,
         \A w \in UpVals \ {u} : uv'[w] = uv[w] /\ Holders(w)' = Holders(w),
         CellExact(u)'
  PROVE  RefcountExact'
  BY DEF RefInv, RefcountExact, CellExact

(* lua_load and luaF_findupval: a cell that was not in use has one holder, *)
(* the new closure.                                                        *)
LEMMA FreshCell ==
  ASSUME RefInv, NEW u \in UpVals, NEW n \in LClosures,
         uv[u] = FreeCell, color[n] = "free",
         upv' = [upv EXCEPT ![n] = u],
         NEW cell, uv' = [uv EXCEPT ![u] = cell],
         cell.refcount = 1, cell.th # "free",
         \A c \in LClosures \ {n} : color'[c] = "free" => color[c] = "free",
         color'[n] # "free"
  PROVE  RefcountExact' /\ FreeHoldNothing'
<1>1. uv[u].th = "free"
  BY DEF FreeCell
<1>2. \A c \in LClosures : upv[c] # u
  BY <1>1, FreeUnheld DEF RefInv
<1>3. upv \in [LClosures -> UpVals \union {Nil}] /\ uv \in [UpVals -> Cell]
  BY DEF RefInv, TypeOK, FuncsOK
<1>4. upv[n] = Nil /\ Nil \notin UpVals
  BY NoClash DEF RefInv, FreeHoldNothing
<1>5. Holders(u)' = {n}
  BY <1>2, <1>3 DEF Holders
<1>6. \A w \in UpVals \ {u} : uv'[w] = uv[w] /\ Holders(w)' = Holders(w)
  BY <1>3, <1>4 DEF Holders
<1>7. CellExact(u)'
  <2>1. Cardinality({n}) = 1
    BY FS_Singleton
  <2>2. uv'[u] = cell
    BY <1>3
  <2>. QED  BY <1>5, <2>1, <2>2 DEF CellExact
<1>8. FreeHoldNothing'
  BY <1>3 DEF FreeHoldNothing, RefInv
<1>. QED  BY <1>6, <1>7, <1>8, OneCell

(* lua_load creates the cell of the globals with one reference.            *)
LEMMA RefLoad ==
  ASSUME RefInv, NEW c \in LClosures, NEW p \in Protos, NEW u \in UpVals, NEW v, Load(c, p, u, v)
  PROVE  RefcountExact' /\ FreeHoldNothing'
<1>. DEFINE c0 == [color EXCEPT ![c] = currentwhite, ![p] = currentwhite]
            cell == [th |-> "closed", v |-> v, touched |-> FALSE, refcount |-> 1]
<1>1. color \in [Obj -> Colors] /\ currentwhite # "free" /\ LClosures \subseteq Obj
  BY DEF RefInv, TypeOK, ListsOK, PhaseOK, Whites, Obj
<1>2. (\E W : Mark(W, c0, gray)) \/ color' = c0
  BY DEF Load
<1>3. \A x \in Obj : c0[x] = "free" => color[x] = "free" /\ x # c
  BY <1>1
<1>. HIDE DEF c0
<1>4. \A x \in Obj : color'[x] = "free" => color[x] = "free" /\ x # c
  BY <1>2, <1>3, MarkKeepsFree
<1>5. uv[u] = FreeCell /\ color[c] = "free" /\ upv' = [upv EXCEPT ![c] = u]
      /\ uv' = [uv EXCEPT ![u] = cell]
  BY DEF Load
<1>6. cell.refcount = 1 /\ cell.th # "free"
  OBVIOUS
<1>. HIDE DEF cell
<1>. QED  BY <1>1, <1>4, <1>5, <1>6, FreshCell

(* luaF_findupval creates a cell for the closure that asks for it.         *)
LEMMA RefCapture ==
  ASSUME RefInv, NEW f, NEW n \in LClosures, NEW u \in UpVals, NEW v, CaptureLocal(f, n, u, v)
  PROVE  RefcountExact' /\ FreeHoldNothing'
<1>. DEFINE cell == [th |-> L, v |-> v, touched |-> TRUE, refcount |-> 1]
<1>1. currentwhite # "free" /\ LClosures \subseteq Obj /\ "free" \notin Threads
  BY NoClash DEF RefInv, TypeOK, PhaseOK, Whites, Obj
<1>2. Closure(f, n, u) /\ uv[u] = FreeCell /\ uv' = [uv EXCEPT ![u] = cell]
  BY DEF CaptureLocal
<1>3. color[n] = "free" /\ upv' = [upv EXCEPT ![n] = u]
      /\ color' = [o \in Obj |-> IF o = n THEN currentwhite ELSE color[o]]
  BY <1>2 DEF Closure, Create
<1>4. cell.refcount = 1 /\ cell.th # "free"
  BY <1>1 DEF RefInv, TypeOK, StackOK, L
<1>. HIDE DEF cell
<1>. QED  BY <1>1, <1>2, <1>3, <1>4, FreshCell

(* pushclosure takes one more reference to a cell that is in use.          *)
LEMMA RefNewClosure ==
  ASSUME RefInv, NEW f \in LClosures, NEW n \in LClosures, NEW u \in UpVals, NewClosure(f, n, u)
  PROVE  RefcountExact' /\ FreeHoldNothing'
<1>1. /\ upv \in [LClosures -> UpVals \union {Nil}] /\ uv \in [UpVals -> Cell]
      /\ currentwhite # "free" /\ LClosures \subseteq Obj
  BY DEF RefInv, TypeOK, FuncsOK, PhaseOK, Whites, Obj
<1>2. /\ color[n] = "free" /\ upv' = [upv EXCEPT ![n] = u]
      /\ color' = [o \in Obj |-> IF o = n THEN currentwhite ELSE color[o]]
      /\ uv' = [uv EXCEPT ![u].refcount = uv[u].refcount + 1]
      /\ u \in {upv[f]} \union OpenUpvals(L)
  BY DEF NewClosure, Closure, Create, Askable
<1>3. upv[n] = Nil /\ Nil \notin UpVals
  BY <1>2, NoClash DEF RefInv, FreeHoldNothing
<1>4. uv[u].th # "free"
  <2>1. CASE u = upv[f]
    BY <2>1, FreeUnheld DEF RefInv
  <2>2. CASE u \in OpenUpvals(L)
    BY <2>2, NoClash DEF OpenUpvals, L, RefInv, TypeOK, StackOK, Obj
  <2>. QED  BY <1>2, <2>1, <2>2
<1>5. Holders(u)' = Holders(u) \union {n} /\ n \notin Holders(u)
  BY <1>1, <1>2, <1>3 DEF Holders
<1>6. Cardinality(Holders(u)') = Cardinality(Holders(u)) + 1
  BY <1>5, HoldersFinite, FS_AddElement
<1>7. uv'[u].refcount = uv[u].refcount + 1 /\ uv'[u].th = uv[u].th
  <2>1. uv'[u] = [uv[u] EXCEPT !.refcount = uv[u].refcount + 1] /\ uv[u] \in Cell
    BY <1>1, <1>2
  <2>2. \A x \in Cell : \A i : [x EXCEPT !.refcount = i].refcount = i /\ [x EXCEPT !.refcount = i].th = x.th
    BY DEF Cell
  <2>. QED  BY <2>1, <2>2
<1>8. uv[u].refcount = Cardinality(Holders(u)) /\ Cardinality(Holders(u)) \in Nat
  BY HoldersFinite DEF RefInv, RefcountExact
<1>9. CellExact(u)'
  BY <1>4, <1>6, <1>7, <1>8 DEF CellExact
<1>10. \A w \in UpVals \ {u} : uv'[w] = uv[w] /\ Holders(w)' = Holders(w)
  BY <1>1, <1>2, <1>3 DEF Holders
<1>11. FreeHoldNothing'
  BY <1>1, <1>2 DEF FreeHoldNothing, RefInv
<1>. QED  BY <1>9, <1>10, <1>11, OneCell

(* luaF_close frees the cells that nobody holds and closes the others.     *)
LEMMA RefClosed ==
  ASSUME RefInv, NEW U \in SUBSET UpVals, uv' = Closed(U), upv' = upv, NoNewFree
  PROVE  RefcountExact' /\ FreeHoldNothing'
<1>1. ASSUME NEW u \in UpVals
      PROVE  CellExact(u)'
  <2>1. uv[u] \in Cell /\ CellExact(u) /\ Cardinality(Holders(u)) \in Nat
    BY HoldersFinite DEF RefInv, TypeOK, FuncsOK, RefcountExact, CellExact
  <2>2. Holders(u)' = Holders(u)
    BY DEF Holders
  <2>3. \A x \in Cell : LET y == [x EXCEPT !.th = "closed", !.touched = FALSE]
                        IN  y.refcount = x.refcount /\ y.th = "closed"
    BY DEF Cell
  <2>4. uv'[u] = IF u \notin U THEN uv[u]
                 ELSE IF uv[u].refcount = 0 THEN FreeCell
                 ELSE [uv[u] EXCEPT !.th = "closed", !.touched = FALSE]
    BY DEF Closed
  <2>5. CASE u \notin U
    BY <2>1, <2>2, <2>4, <2>5 DEF CellExact
  <2>6. CASE u \in U /\ uv[u].refcount = 0
    BY <2>1, <2>2, <2>4, <2>6 DEF CellExact, FreeCell
  <2>7. CASE u \in U /\ uv[u].refcount # 0
    BY <2>1, <2>2, <2>3, <2>4, <2>7 DEF CellExact
  <2>. QED  BY <2>5, <2>6, <2>7
<1>2. LClosures \subseteq Obj
  BY DEF Obj
<1>. QED  BY <1>1, <1>2 DEF RefcountExact, CellExact, FreeHoldNothing, NoNewFree, RefInv

(* lua_upvaluejoin between two closures: one cell loses a holder, the      *)
(* other gains it, or they are the same cell and nothing changes.  With    *)
(* the same closure twice the old cell would be freed and then counted up: *)
(* this is where NoSelfJoin is needed.                                     *)
LEMMA RefJoin ==
  ASSUME RefInv, NEW c1 \in LClosures, NEW c2 \in LClosures, c1 # c2, UpvalueJoin(c1, c2),
         NEW a \in UpVals, NEW b \in UpVals, upv[c1] = a, upv[c2] = b
  PROVE  RefcountExact' /\ FreeHoldNothing'
<1>. DEFINE open == IsOpen(b)
            gain(x) == [x EXCEPT !.refcount = @ + 1, !.touched = @ \/ open]
            lose(x) == [x EXCEPT !.refcount = @ - 1]
            last    == uv[a].refcount = 1 /\ ~IsOpen(a)
            dec     == [uv EXCEPT ![a] = IF last THEN FreeCell ELSE lose(uv[a])]
<1>1. /\ upv \in [LClosures -> UpVals \union {Nil}] /\ uv \in [UpVals -> Cell]
      /\ upv' = [upv EXCEPT ![c1] = b]
  BY DEF UpvalueJoin, RefInv, TypeOK, FuncsOK
<1>2. \A w \in UpVals : uv'[w] = IF w = b THEN gain(dec[b]) ELSE dec[w]
  BY <1>1 DEF Decremented, UpvalueJoin
<1>3. \A x \in Cell : /\ gain(x).refcount = x.refcount + 1 /\ gain(x).th = x.th
                      /\ lose(x).refcount = x.refcount - 1 /\ lose(x).th = x.th
                      /\ lose(x) \in Cell /\ x.refcount \in Int
  BY CellUpdate DEF Cell
<1>. HIDE DEF gain, lose
<1>4. \A w \in UpVals : /\ CellExact(w)
                        /\ Cardinality(Holders(w)) \in Nat /\ IsFiniteSet(Holders(w))
  BY HoldersFinite DEF RefInv, RefcountExact, CellExact
<1>5. c1 \in Holders(a) /\ c2 \in Holders(b)
  BY DEF Holders
<1>6. FreeHoldNothing'
  <2>1. NoNewFree
    <3>1. (\E V : UpvalBarrier(V)) \/ UNCHANGED color
      BY DEF UpvalueJoin
    <3>. QED  BY <3>1, BarrierKeepsFree DEF RefInv, NoNewFree
  <2>2. color[c1] # "free" /\ LClosures \subseteq Obj
    BY NoClash DEF RefInv, FreeHoldNothing, Obj
  <2>. QED  BY <1>1, <2>1, <2>2 DEF FreeHoldNothing, NoNewFree, RefInv
<1>7. uv[a].th # "free" /\ uv[b].th # "free"
  BY <1>1, FreeUnheld DEF RefInv
<1>8. CASE a = b
  <2>1. \A w : Holders(w)' = Holders(w)
    BY <1>1, <1>8 DEF Holders
  <2>2. uv[a].refcount # 1
    <3>1. {c1, c2} \in SUBSET Holders(a)
      BY <1>5, <1>8
    <3>2. Cardinality({c1} \union {c2}) = 2
      <4>1. IsFiniteSet({c1}) /\ Cardinality({c1}) = 1 /\ c2 \notin {c1}
        BY FS_Singleton
      <4>2. Cardinality({c1} \union {c2}) =
              IF c2 \in {c1} THEN Cardinality({c1}) ELSE Cardinality({c1}) + 1
        BY <4>1, FS_AddElement, Zenon
      <4>. QED  BY <4>1, <4>2
    <3>3. {c1} \union {c2} = {c1, c2}
      OBVIOUS
    <3>. QED  BY <1>1, <1>4, <3>1, <3>2, <3>3, FS_Subset DEF CellExact
  <2>3. uv'[a].refcount = uv[a].refcount /\ uv'[a].th = uv[a].th
    <3>1. uv'[a] = gain(lose(uv[a]))
      BY <1>1, <1>2, <1>8, <2>2
    <3>. QED  BY <1>1, <1>3, <3>1
  <2>4. \A w \in UpVals \ {a} : uv'[w] = uv[w]
    BY <1>1, <1>2, <1>8
  <2>5. CellExact(a)'
    BY <1>1, <1>4, <2>1, <2>3 DEF CellExact
  <2>. QED  BY <1>1, <1>6, <2>1, <2>4, <2>5, OneCell
<1>9. CASE a # b
  <2>1. /\ Holders(a)' = Holders(a) \ {c1}
        /\ Holders(b)' = Holders(b) \union {c1} /\ c1 \notin Holders(b)
        /\ \A w \in UpVals \ {a, b} : Holders(w)' = Holders(w)
    BY <1>1, <1>9 DEF Holders
  <2>2. /\ Cardinality(Holders(a)') = Cardinality(Holders(a)) - 1
        /\ Cardinality(Holders(b)') = Cardinality(Holders(b)) + 1
    <3>1. Cardinality(Holders(a) \ {c1}) = Cardinality(Holders(a)) - 1
      BY <1>4, <1>5, FS_RemoveElement
    <3>2. Cardinality(Holders(b) \union {c1}) = Cardinality(Holders(b)) + 1
      BY <1>4, <2>1, FS_AddElement
    <3>. QED  BY <2>1, <3>1, <3>2
  <2>3. uv'[a] = IF last THEN FreeCell ELSE lose(uv[a])
    BY <1>1, <1>2, <1>9
  <2>4. uv'[b] = gain(uv[b])
    BY <1>1, <1>2, <1>9
  <2>5. CellExact(a)'
    <3>1. CASE last
      BY <1>1, <1>4, <2>2, <2>3, <3>1 DEF CellExact, FreeCell
    <3>2. CASE ~last
      <4>1. uv'[a].refcount = uv[a].refcount - 1 /\ uv'[a].th = uv[a].th
        BY <1>1, <1>3, <2>3, <3>2
      <4>2. uv[a].th = "closed" => uv[a].refcount # 1
        BY <3>2, NoClash DEF IsOpen, Obj
      <4>. QED  BY <1>1, <1>4, <1>7, <2>2, <4>1, <4>2 DEF CellExact
    <3>. QED  BY <3>1, <3>2
  <2>6. CellExact(b)'
    BY <1>1, <1>3, <1>4, <1>7, <2>2, <2>4 DEF CellExact
  <2>7. \A w \in UpVals \ {a, b} : CellExact(w)'
    BY <1>1, <1>2, <1>4, <2>1 DEF CellExact
  <2>8. \A w \in UpVals : CellExact(w)'
    BY <2>5, <2>6, <2>7 DEF CellExact
  <2>. QED  BY <1>6, <2>8 DEF RefcountExact, CellExact
<1>. QED  BY <1>8, <1>9

(* freeobj: each freed closure gives its cell up, and the   *)
(* cells of a freed thread are closed.                                     *)
LEMMA RefFreed ==
  ASSUME RefInv, NEW D \in SUBSET Obj, Free(D),
         \A c \in LClosures : color'[c] = "free" => color[c] = "free" \/ c \in D
  PROVE  RefcountExact' /\ FreeHoldNothing'
<1>1. /\ upv \in [LClosures -> UpVals \union {Nil}] /\ uv \in [UpVals -> Cell]
      /\ Nil \notin UpVals /\ "free" \notin D
  BY NoClash DEF RefInv, TypeOK, FuncsOK
<1>2. upv' = Erase(D, upv, Nil) /\ uv' = [u \in UpVals |-> Released(u, D)]
  BY DEF Free
<1>3. ASSUME NEW u \in UpVals PROVE CellExact(u)'
  <2>1. uv[u] \in Cell /\ CellExact(u) /\ IsFiniteSet(Holders(u))
    BY <1>1, HoldersFinite DEF RefInv, RefcountExact, CellExact
  <2>2. Holders(u)' = Holders(u) \ D
    BY <1>1, <1>2 DEF Holders, Erase
  <2>3. {c \in D \intersect LClosures : upv[c] = u} = Holders(u) \intersect D
    BY DEF Holders
  <2>. DEFINE n == uv[u].refcount - Cardinality(Holders(u) \intersect D)
              th == IF uv[u].th \in D THEN "closed" ELSE uv[u].th
              cell == [th |-> th, v |-> uv[u].v, refcount |-> n,
                       touched |-> th # "closed" /\ uv[u].touched]
  <2>4. Cardinality(Holders(u) \ D) = n /\ n \in Nat
    <3>1. /\ IsFiniteSet(Holders(u) \ D)
          /\ Cardinality(Holders(u) \ D) =
               Cardinality(Holders(u)) - Cardinality(Holders(u) \cap D)
      BY <2>1, FS_Difference
    <3>. QED  BY <2>1, <3>1, FS_CardinalityType DEF CellExact
  <2>5. uv'[u] = IF th = "closed" /\ n = 0 THEN FreeCell ELSE cell
    BY <1>2, <2>3 DEF Released
  <2>6. cell.refcount = n /\ cell.th = th
    OBVIOUS
  <2>7. uv[u].th = "free" => n = 0 /\ th = "free"
    <3>. SUFFICES ASSUME uv[u].th = "free" PROVE n = 0 /\ th = "free"
      OBVIOUS
    <3>1. Holders(u) = {}
      BY FreeUnheld DEF Holders, RefInv
    <3>. QED  BY <1>1, <2>1, <2>4, <3>1, FS_EmptySet
  <2>8. th = "free" => uv[u].th = "free"
    OBVIOUS
  <2>. HIDE DEF n, th, cell
  <2>9. CASE th = "closed" /\ n = 0
    BY <2>2, <2>4, <2>5, <2>9 DEF CellExact, FreeCell
  <2>10. CASE ~(th = "closed" /\ n = 0)
    BY <2>2, <2>4, <2>5, <2>6, <2>7, <2>8, <2>10 DEF CellExact
  <2>. QED  BY <2>9, <2>10
<1>4. FreeHoldNothing'
  BY <1>1, <1>2 DEF FreeHoldNothing, Erase, RefInv
<1>. QED  BY <1>3, <1>4 DEF RefcountExact, CellExact

(* The three steps that sweep.                                             *)
LEMMA RefSwept ==
  ASSUME RefInv
  PROVE  /\ EnterSweep \/ SweepStep => RefcountExact' /\ FreeHoldNothing'
         /\ \A w \in Metas : SetFinalizerInSweep(w[1], w[2]) => RefcountExact' /\ FreeHoldNothing'
<1>1. /\ \A C : Dead(C) \subseteq C
      /\ LClosures \subseteq Obj /\ currentwhite # "free" /\ color \in [Obj -> Colors]
      /\ ToSweep \subseteq Obj /\ allgc \subseteq Obj
  BY SweepType DEF Dead, Obj, RefInv, TypeOK, ListsOK, PhaseOK, Whites
<1>2. \A C : \A o \in Obj : Swept(C, color)[o] = "free" => color[o] = "free" \/ o \in Dead(C)
  BY <1>1 DEF Swept
<1>3. ASSUME EnterSweep PROVE RefcountExact' /\ FreeHoldNothing'
  <2>1. PICK C \in SUBSET allgc : color' = Swept(C, color) /\ Free(Dead(C))
    BY <1>3 DEF EnterSweep, Collect, Batch
  <2>2. Dead(C) \in SUBSET Obj
    BY <1>1
  <2>. QED  BY <1>1, <1>2, <2>1, <2>2, RefFreed
<1>4. ASSUME SweepStep PROVE RefcountExact' /\ FreeHoldNothing'
  <2>1. PICK C \in SUBSET ToSweep : color' = Swept(C, color) /\ Free(Dead(C))
    BY <1>4 DEF SweepStep, Collect, Batch
  <2>2. Dead(C) \in SUBSET Obj
    BY <1>1
  <2>. QED  BY <1>1, <1>2, <2>1, <2>2, RefFreed
<1>5. ASSUME NEW w \in Metas, SetFinalizerInSweep(w[1], w[2])
      PROVE  RefcountExact' /\ FreeHoldNothing'
  <2>1. PICK C \in SUBSET ToSweep : /\ color' = [Swept(C, color) EXCEPT ![w[1]] = currentwhite]
                                    /\ Free(Dead(C))
    BY <1>5 DEF SetFinalizerInSweep
  <2>2. Dead(C) \in SUBSET Obj
    BY <1>1
  <2>3. \A o \in Obj : color'[o] = "free" => color[o] = "free" \/ o \in Dead(C)
    BY <1>1, <1>2, <2>1 DEF Swept
  <2>. QED  BY <1>1, <2>1, <2>2, <2>3, RefFreed
<1>. QED  BY <1>3, <1>4, <1>5

(* No closure and no cell exists at first.                                 *)
LEMMA RefInit == HeapInit => RefInv
<1>. SUFFICES ASSUME HeapInit PROVE RefInv
  OBVIOUS
<1>1. TypeOK
  BY TypeInit
<1>2. \A u \in UpVals : Holders(u) = {} /\ uv[u] = FreeCell
  BY NoClash DEF HeapInit, Holders
<1>3. RefcountExact
  BY <1>2, FS_EmptySet DEF RefcountExact, FreeCell
<1>4. FreeHoldNothing
  BY DEF HeapInit, FreeHoldNothing
<1>. QED  BY <1>1, <1>3, <1>4 DEF RefInv

(* One step of the program.                                                *)
LEMMA RefMutate ==
  ASSUME NoSelfJoin, RefInv, Mutate
  PROVE  RefcountExact' /\ FreeHoldNothing'
<1>0. TypeOK
  BY DEF RefInv
<1>1. CASE \/ \E o \in Obj : Pop(o)
           \/ Expose
           \/ \E o, x \in Obj : Get(o, x)
           \/ \E from, to \in Threads, o \in Obj : Xmove(from, to, o)
           \/ \E co \in Coroutines : Resume(co)
           \/ Yield
  BY <1>0, <1>1, QuietMutator, QuietStep
<1>2. CASE \/ \E o \in Tables \union Udatas \union Coroutines : NewObject(o)
           \/ \E w \in Vals : w[1] \in CClosures /\ NewCClosure(w[1], w[2])
           \/ \E s \in Strings : NewString(s)
           \/ \E s \in Strings : NewLString(s)
  BY <1>0, <1>2, QuietMutator, QuietStep
<1>3. CASE \/ \E w \in Writes : SetTable(w[1], w[2], w[3])
           \/ \E t \in Tables : \E e \in entries[t] : ClearEntry(t, e)
           \/ \E w \in Vals : SetVal(w[1], w[2])
           \/ \E m \in BaseMetas : SetBaseMt(m)
  BY <1>0, <1>3, QuietMutator, QuietStep
<1>4. CASE \E w \in Metas : \/ SetMetatable(w[1], w[2])
                            \/ SetFinalizer(w[1], w[2])
                            \/ SetFinalizerInSweep(w[1], w[2])
  BY <1>0, <1>4, QuietMutator, QuietStep, RefSwept
<1>5. CASE \E c \in LClosures, p \in Protos, u \in UpVals :
             \E v \in Values(Registry) \union {Nil} : Load(c, p, u, v)
  BY <1>5, RefLoad
<1>6. CASE \E f, n \in LClosures, u \in UpVals : ReuseClosure(f, n, u) \/ NewClosure(f, n, u)
  BY <1>0, <1>6, QuietMutator, QuietStep, RefNewClosure
<1>7. CASE \E f, n \in LClosures, u \in UpVals : \E v \in Locals : CaptureLocal(f, n, u, v)
  BY <1>7, RefCapture
<1>8. CASE \/ \E c \in LClosures : \E v \in Assigned : SetUpval(c, v)
           \/ \E u \in UpVals : \E v \in Assigned : SetLocal(u, v)
  BY <1>0, <1>8, QuietAssign, QuietStep
<1>9. CASE \E U \in SUBSET UpVals : CloseUpvals(U)
  <2>1. PICK U \in SUBSET UpVals : CloseUpvals(U)
    BY <1>9
  <2>2. uv' = Closed(U) /\ upv' = upv /\ NoNewFree
    BY <1>0, <2>1, BarrierKeepsFree DEF CloseUpvals
  <2>. QED  BY <2>2, RefClosed
<1>10. CASE \E j \in Joins : UpvalueJoin(j[1], j[2])
  <2>1. PICK j \in Joins : UpvalueJoin(j[1], j[2])
    BY <1>10
  <2>2. j[1] \in LClosures /\ j[2] \in LClosures /\ j[1] # j[2]
    BY MutatorAssumption DEF NoSelfJoin
  <2>3. upv[j[1]] \in UpVals /\ upv[j[2]] \in UpVals
    BY <2>1 DEF UpvalueJoin
  <2>. QED  BY <2>1, <2>2, <2>3, RefJoin
<1>. QED  BY <1>1, <1>2, <1>3, <1>4, <1>5, <1>6, <1>7, <1>8, <1>9, <1>10 DEF Mutate

(* RefInv is inductive when no program joins an upvalue with itself.       *)
LEMMA RefNext == NoSelfJoin /\ RefInv /\ [Next]_vars => RefInv'
<1>. SUFFICES ASSUME NoSelfJoin, RefInv, [Next]_vars PROVE RefInv'
  OBVIOUS
<1>0. TypeOK /\ TypeOK'
  BY TypeNext DEF RefInv
<1>1. CASE Mutate
  BY <1>0, <1>1, RefMutate DEF RefInv
<1>2. CASE Restart \/ PropagateStep \/ Atomic \/ SweepEnd \/ Finalizing \/ StepEnd \/ FullEnd
           \/ \E emergency \in FullKinds : FullGC(emergency)
  BY <1>0, <1>2, QuietCollector, QuietStep DEF RefInv
<1>3. CASE EnterSweep \/ SweepStep
  BY <1>0, <1>3, RefSwept DEF RefInv
<1>4. CASE FinalizerEnd
  <2>. DEFINE U == OpenUpvals(L) \ Top.open
  <2>1. uv' = Closed(U) /\ upv' = upv /\ UpvalBarrier(ClosedValues(U))
    BY <1>4 DEF FinalizerEnd
  <2>2. U \in SUBSET UpVals
    BY DEF OpenUpvals
  <2>3. NoNewFree
    BY <1>0, <2>1, BarrierKeepsFree
  <2>4. \E V \in SUBSET UpVals : uv' = Closed(V)
    BY <2>1, <2>2
  <2>. QED  BY <1>0, <2>1, <2>3, <2>4, RefClosed DEF RefInv
<1>5. CASE UNCHANGED vars
  BY <1>0, <1>5, QuietStep DEF vars, funcVars, SameCounts, NoNewFree, RefInv
<1>. QED  BY <1>1, <1>2, <1>3, <1>4, <1>5 DEF Next, CollectorStep, Sweeping

(* In a program that never joins an upvalue with itself, a cell counts     *)
(* exactly the closures that hold it, however closures are created, cached *)
(* and freed and upvalues captured, joined and closed: luaC_upvdeccount    *)
(* frees a cell with its last closure and never before.                    *)
THEOREM RefcountCorrect == ASSUME NoSelfJoin PROVE Spec => []RefcountExact
<1>1. RefInv /\ [Next]_vars => RefInv'
  BY RefNext
<1>2. RefInv => RefcountExact
  BY DEF RefInv
<1>. QED  BY RefInit, <1>1, <1>2, PTL DEF Spec

(* The collector never frees a block that the program still holds on to:   *)
(* where RefcountExact holds, the cell of an allocated closure is in use.  *)
THEOREM HeldCellInUse ==
  ASSUME TypeOK, RefcountExact, NEW c \in LClosures, upv[c] # Nil
  PROVE  uv[upv[c]].th # "free" /\ uv[upv[c]].refcount > 0
<1>1. upv[c] \in UpVals
  BY DEF TypeOK, FuncsOK
<1>2. uv[upv[c]].th # "free" /\ uv[upv[c]].refcount # 0
  BY <1>1, FreeUnheld
<1>3. uv[upv[c]].refcount \in Nat
  BY <1>1, HoldersFinite DEF RefcountExact
<1>. QED  BY <1>2, <1>3

-----------------------------------------------------------------------------
(***************************************************************************)
(* Two assertions of lgc.c about the phases of a collection hold in every  *)
(* program: singlestep never propagates with an empty gray list, and an    *)
(* object that waits for its finalizer is never forgotten by gcfinnum.     *)
(* Also: what NoDanglingRef means for the program.                         *)
(***************************************************************************)

AtRest == gcstate \in {"callfin", "pause"}

(* The main thread is white between two cycles, so that restartcollection  *)
(* finds at least one object to turn gray; a step of the atomic phase is   *)
(* under way only where luaC_step or luaC_fullgc could enter it.           *)
PhaseInv ==
  /\ tobefnz # {} => gcfinnum
  /\ AtRest => color[MainThread] = currentwhite
  /\ ~Idling => gcstate \in {"propagate", "atomic", "insideatomic"}
  /\ PropagateHasGray

(***************************************************************************)
(* Steps that leave the phase alone.                                       *)
(***************************************************************************)
StaysWhite ==
  AtRest /\ color[MainThread] = currentwhite => color'[MainThread] = currentwhite

SamePhase ==
  /\ UNCHANGED <<gcstate, currentwhite, gcfinnum, atom>>
  /\ tobefnz' \subseteq tobefnz
  /\ gray \subseteq gray'
  /\ StaysWhite

(* Such a step preserves the invariant.                                    *)
LEMMA SamePhaseKeeps ==
  ASSUME PhaseInv, SamePhase PROVE PhaseInv'
  BY DEF PhaseInv, SamePhase, StaysWhite, AtRest, PropagateHasGray, Idling

(* The barriers mark only while a mark phase is under way.                 *)
LEMMA BarrierPhase ==
  ASSUME TypeOK
  PROVE  /\ \A o, v : Barrier(o, v) => StaysWhite /\ gray \subseteq gray'
         /\ \A t, V : BarrierBack(t, V) => StaysWhite
         /\ \A V : UpvalBarrier(V) => StaysWhite /\ gray \subseteq gray'
<1>1. MainThread \in Obj /\ color \in [Obj -> Colors] /\ currentwhite # "black"
  BY DEF TypeOK, ListsOK, PhaseOK, Whites, Obj, Threads
<1>2. AtRest => ~keepinvariant
  BY DEF AtRest, keepinvariant
<1>. QED  BY <1>1, <1>2 DEF StaysWhite, Barrier, BarrierBack, UpvalBarrier, Mark

(* No operation of the program changes the phase.                          *)
LEMMA MutatePhase == ASSUME TypeOK, Mutate PROVE SamePhase
<1>. USE DEF phaseVars, listVars, grayVars
<1>0. /\ MainThread \in Obj /\ color \in [Obj -> Colors]
      /\ UNCHANGED color => StaysWhite
  BY DEF TypeOK, ListsOK, StaysWhite, Obj, Threads
<1>1. CASE \/ \E o \in Obj : Pop(o)
           \/ Expose
           \/ \E o, x \in Obj : Get(o, x)
           \/ \E from, to \in Threads, o \in Obj : Xmove(from, to, o)
           \/ \E co \in Coroutines : Resume(co)
           \/ Yield
  BY <1>0, <1>1 DEF Pop, Expose, Get, Xmove, Resume, Yield, SamePhase
<1>2. ASSUME NEW K, Create(K) PROVE SamePhase
  BY <1>0, <1>2 DEF Create, SamePhase, StaysWhite
<1>3. CASE \/ \E o \in Tables \union Udatas \union Coroutines : NewObject(o)
           \/ \E w \in Vals : w[1] \in CClosures /\ NewCClosure(w[1], w[2])
           \/ \E f, n \in LClosures, u \in UpVals : NewClosure(f, n, u)
           \/ \E f, n \in LClosures, u \in UpVals : \E v \in Locals : CaptureLocal(f, n, u, v)
  BY <1>2, <1>3 DEF NewObject, NewCClosure, NewClosure, CaptureLocal, Closure
<1>4. CASE \E s \in Strings : NewString(s) \/ NewLString(s)
  <2>1. PICK s \in Strings : NewString(s) \/ NewLString(s)
    BY <1>4
  <2>2. Intern(s) => StaysWhite /\ UNCHANGED tobefnz
    BY <1>0 DEF Intern, StaysWhite
  <2>. QED  BY <1>0, <2>1, <2>2 DEF NewString, NewLString, SamePhase
<1>5. CASE \/ \E w \in Writes : SetTable(w[1], w[2], w[3])
           \/ \E t \in Tables : \E e \in entries[t] : ClearEntry(t, e)
           \/ \E w \in Vals : SetVal(w[1], w[2])
           \/ \E m \in BaseMetas : SetBaseMt(m)
           \/ \E w \in Metas : SetMetatable(w[1], w[2]) \/ SetFinalizer(w[1], w[2])
  BY <1>0, <1>5, BarrierPhase
     DEF SetTable, ClearEntry, SetVal, SetBaseMt, SetMetatable, SetFinalizer, SamePhase
<1>6. CASE \E w \in Metas : SetFinalizerInSweep(w[1], w[2])
  <2>1. ~AtRest
    BY <1>6 DEF SetFinalizerInSweep, issweepphase, SweepStates, AtRest
  <2>2. tobefnz' \subseteq tobefnz
    BY <1>6 DEF SetFinalizerInSweep
  <2>3. UNCHANGED <<gcstate, currentwhite, gcfinnum, atom, gray>>
    BY <1>6 DEF SetFinalizerInSweep
  <2>. QED  BY <2>1, <2>2, <2>3 DEF SamePhase, StaysWhite
<1>7. CASE \E c \in LClosures, p \in Protos, u \in UpVals :
             \E v \in Values(Registry) \union {Nil} : Load(c, p, u, v)
  <2>1. PICK c \in LClosures, p \in Protos, u \in UpVals, v \in Values(Registry) \union {Nil} : Load(c, p, u, v)
    BY <1>7
  <2>. DEFINE c0 == [color EXCEPT ![c] = currentwhite, ![p] = currentwhite]
  <2>2. /\ IF keepinvariant THEN Mark({v}, c0, gray) ELSE color' = c0 /\ UNCHANGED gray
        /\ UNCHANGED <<tobefnz, phaseVars>>
    BY <2>1 DEF Load
  <2>3. AtRest => ~keepinvariant
    BY DEF AtRest, keepinvariant
  <2>4. AtRest => color' = c0 /\ UNCHANGED currentwhite
    BY <2>2, <2>3 DEF phaseVars
  <2>5. c0[MainThread] \in {color[MainThread], currentwhite}
    BY <1>0
  <2>6. StaysWhite
    BY <2>4, <2>5, Zenon DEF StaysWhite
  <2>7. gray \subseteq gray'
    BY <2>2 DEF Mark
  <2>. QED  BY <2>2, <2>6, <2>7 DEF SamePhase
<1>8. CASE \/ \E f, n \in LClosures, u \in UpVals : ReuseClosure(f, n, u)
           \/ \E c \in LClosures : \E v \in Assigned : SetUpval(c, v)
           \/ \E u \in UpVals : \E v \in Assigned : SetLocal(u, v)
           \/ \E U \in SUBSET UpVals : CloseUpvals(U)
           \/ \E j \in Joins : UpvalueJoin(j[1], j[2])
  BY <1>0, <1>8, BarrierPhase, Zenon
     DEF ReuseClosure, SetUpval, SetLocal, CloseUpvals, UpvalueJoin, SamePhase
<1>. QED  BY <1>1, <1>3, <1>4, <1>5, <1>6, <1>7, <1>8 DEF Mutate

(***************************************************************************)
(* The collector.                                                          *)
(***************************************************************************)
(* restartcollection finds the main thread white and links it.             *)
LEMMA RestartPhase == ASSUME TypeOK, PhaseInv, Restart PROVE PhaseInv'
<1>1. color[MainThread] \in Whites /\ MainThread \in Obj \ Leaves
  BY KindsDisjoint DEF PhaseInv, AtRest, Restart, TypeOK, PhaseOK, Obj, Threads, Leaves
<1>2. MainThread \in gray'
  BY <1>1 DEF Restart, Mark, MarkSet, White, Objs
<1>3. gcstate' = "propagate" /\ UNCHANGED <<tobefnz, gcfinnum>>
  BY DEF Restart, listVars
<1>. QED  BY <1>2, <1>3 DEF PhaseInv, AtRest, PropagateHasGray

(* Propagation stops at the empty gray list.                               *)
LEMMA PropagatePhase == ASSUME PhaseInv, PropagateStep PROVE PhaseInv'
<1>1. \E o \in gray : Propagate(o)
  BY DEF PropagateStep
<1>2. UNCHANGED <<tobefnz, gcfinnum, atom>>
  BY <1>1 DEF Propagate, listVars
<1>3. gcstate' = IF gray' = {} THEN "atomic" ELSE "propagate"
  BY DEF PropagateStep
<1>. QED  BY <1>2, <1>3 DEF PhaseInv, AtRest, PropagateHasGray, PropagateStep

(* The atomic phase leaves no pending object uncounted: separatetobefnz    *)
(* sets gcfinnum with the list.                                            *)
LEMMA AtomicPhase == ASSUME TypeOK, PhaseInv, Atomic PROVE PhaseInv'
<1>. USE DEF PhaseInv, AtRest, PropagateHasGray, Idling, listVars, phaseVars, quietVars, At
<1>0. atom \in [pc : AtomPCs, again : SUBSET (Obj \ Leaves), eph : SUBSET Tables,
               changed : BOOLEAN, origweak : SUBSET Tables, origall : SUBSET Tables]
  BY DEF TypeOK, PhaseOK
<1>1. CASE AtomicEnter
  BY <1>0, <1>1 DEF AtomicEnter
<1>2. CASE PropagateAll
  <2>1. UNCHANGED <<tobefnz, gcfinnum, atom>>
    BY <1>2 DEF PropagateAll, Propagate
  <2>. QED  BY <1>2, <2>1 DEF PropagateAll
<1>3. CASE AtomicStart
  BY <1>0, <1>3 DEF AtomicStart
<1>4. CASE \E th \in twups : RemarkUpvals(th)
  BY <1>4 DEF RemarkUpvals
<1>5. CASE RemarkDone \/ GrayAgain
  BY <1>0, <1>5 DEF RemarkDone, GrayAgain
<1>6. CASE ConvergeRound
  BY <1>0, <1>6 DEF ConvergeRound
<1>7. CASE \E w \in Tables : ConvergeVisit(w)
  <2>1. atom'.pc = atom.pc
    BY <1>0, <1>7 DEF ConvergeVisit
  <2>. QED  BY <1>7, <2>1 DEF ConvergeVisit
<1>8. CASE Separate
  BY <1>0, <1>8 DEF Separate, Converged
<1>9. CASE AtomicFinish
  BY <1>0, <1>9 DEF AtomicFinish, Converged, Idle
<1>. QED  BY <1>1, <1>2, <1>3, <1>4, <1>5, <1>6, <1>7, <1>8, <1>9 DEF Atomic

(* The sweep frees pending objects at most, and whitens the main thread    *)
(* at its end.                                                             *)
LEMMA SweepPhase == ASSUME TypeOK, PhaseInv, Sweeping PROVE PhaseInv'
<1>. USE DEF PhaseInv, AtRest, PropagateHasGray, Idling
<1>1. CASE EnterSweep
  BY <1>1 DEF EnterSweep, Idle, Collect
<1>2. CASE SweepStep
  <2>1. gcstate' \in SweepStates
    BY <1>2 DEF SweepStep, NextSweep, SweepStates
  <2>2. tobefnz' \subseteq tobefnz /\ UNCHANGED <<gcfinnum, atom>>
    BY <1>2 DEF SweepStep, Collect
  <2>3. Idling
    BY <1>2 DEF SweepStep, SingleStep
  <2>. QED  BY <2>1, <2>2, <2>3 DEF SweepStates
<1>3. CASE SweepEnd
  <2>1. MainThread \in Obj /\ color \in [Obj -> Colors]
    BY DEF TypeOK, ListsOK, Obj, Threads
  <2>. QED  BY <1>3, <2>1 DEF SweepEnd, SingleStep, listVars
<1>. QED  BY <1>1, <1>2, <1>3 DEF Sweeping

(* runafewfinalizers and the end of luaC_step clear gcfinnum only when     *)
(* nothing is pending.                                                     *)
LEMMA FinalizingPhase ==
  ASSUME TypeOK, PhaseInv, Finalizing \/ StepEnd \/ FullEnd \/ FinalizerEnd
  PROVE  PhaseInv'
<1>. USE DEF listVars, phaseVars, grayVars
<1>1. ASSUME NEW o, NEW cs, GCTM(o, cs) PROVE PhaseInv'
  <2>1. AtRest => ~issweepphase
    BY DEF AtRest, issweepphase, SweepStates
  <2>2. SamePhase
    BY <1>1, <2>1 DEF GCTM, SamePhase, StaysWhite
  <2>. QED  BY <2>2, SamePhaseKeeps
<1>2. CASE \E o \in tobefnz : CallFin(o) \/ FewMore(o) \/ StepFinalizers(o)
  BY <1>1, <1>2 DEF CallFin, FewMore, StepFinalizers
<1>3. CASE FewEnd \/ StepEnd \/ FullEnd \/ Pause
  BY <1>3 DEF FewEnd, StepEnd, FullEnd, Pause, PhaseInv, AtRest, PropagateHasGray, Idling
<1>4. CASE FinalizerEnd
  BY <1>4, BarrierPhase, SamePhaseKeeps DEF FinalizerEnd, SamePhase
<1>. QED  BY <1>2, <1>3, <1>4 DEF Finalizing

(* Initially the collector rests, and the main thread is white.            *)
LEMMA PhaseInit == HeapInit => PhaseInv
<1>1. MainThread \in Obj
  BY DEF Obj, Threads
<1>. QED  BY <1>1 DEF HeapInit, PhaseInv, AtRest, PropagateHasGray, Idling, Idle

(* PhaseInv is inductive.                                                  *)
LEMMA PhaseNext == TypeOK /\ PhaseInv /\ [Next]_vars => PhaseInv'
<1>. SUFFICES ASSUME TypeOK, PhaseInv, [Next]_vars PROVE PhaseInv'
  OBVIOUS
<1>1. CASE Mutate
  BY <1>1, MutatePhase, SamePhaseKeeps
<1>2. CASE Restart \/ PropagateStep \/ Atomic \/ Sweeping
  BY <1>2, RestartPhase, PropagatePhase, AtomicPhase, SweepPhase
<1>3. CASE Finalizing \/ StepEnd \/ FullEnd \/ FinalizerEnd
  BY <1>3, FinalizingPhase
<1>4. CASE \E emergency \in FullKinds : FullGC(emergency)
  BY <1>4 DEF FullGC, At, keepinvariant, TypeOK, PhaseOK, PhaseInv, AtRest, PropagateHasGray,
              Idling, listVars, grayVars
<1>5. CASE UNCHANGED vars
  BY <1>5 DEF vars, listVars, phaseVars, grayVars, PhaseInv, AtRest, PropagateHasGray, Idling
<1>. QED  BY <1>1, <1>2, <1>3, <1>4, <1>5 DEF Next, CollectorStep

(* The assertion of singlestep: in GCSpropagate there is a gray object,    *)
(* whatever the program and its finalizers do between two single steps.    *)
THEOREM PropagateCorrect == Spec => []PropagateHasGray
<1>1. PhaseInv => PropagateHasGray
  BY DEF PhaseInv
<1>. QED  BY TypeCorrect, PhaseInit, PhaseNext, <1>1, PTL DEF Spec

(* The assertion of runafewfinalizers: as long as an object waits for its  *)
(* finalizer, gcfinnum lets a step call it; it is never left behind.       *)
THEOREM PendingCorrect == Spec => []PendingFinalizersCounted
<1>1. PhaseInv => PendingFinalizersCounted
  BY DEF PhaseInv, PendingFinalizersCounted
<1>. QED  BY TypeCorrect, PhaseInit, PhaseNext, <1>1, PTL DEF Spec

(* NoDanglingRef, which the runs check, is stronger than what the program  *)
(* needs: the objects it can reach, through strong references from the     *)
(* roots, are allocated.                                                   *)
THEOREM NoDanglingReachable == NoDanglingRef => ReachableAllocated
<1>. SUFFICES ASSUME NoDanglingRef PROVE ReachableAllocated
  OBVIOUS
<1>1. ASSUME NEW o, NEW S PROVE StrongRefs(o, S) \subseteq Refs(o)
  BY DEF StrongRefs, Refs, Objs, Keys, Values
<1>. QED  BY <1>1 DEF NoDanglingRef, ReachableAllocated, NotDead
=============================================================================
