-------------------------- MODULE LuaThreadsProofs --------------------------
(***************************************************************************)
(* More proofs about LuaCall, from the invariants of LuaCallProofs:        *)
(* handlers, continuations, overflows, and the refinement of LuaThreads.   *)
(***************************************************************************)
EXTENDS LuaCallProofs

-----------------------------------------------------------------------------
(* What a step keeps of the third layer.                                   *)

(* The part of the C stack that belongs to L stays as it is.               *)
Unmoved(cs, ds, n, L) ==
  /\ Len(cs) \in Nat /\ Len(ds) \in Nat /\ n \in Nat /\ n <= Len(cs) /\ n <= Len(ds)
  /\ \A j \in 1 .. n : ds[j] = cs[j]
  /\ \A j \in n + 1 .. Len(cs) : cs[j].th /= L
  /\ \A j \in n + 1 .. Len(ds) : ds[j].th /= L

(* L's activations are at the same places.                                 *)
LEMMA UnmovedPlaces ==
  ASSUME NEW cs, NEW ds, NEW n, NEW L, Unmoved(cs, ds, n, L)
  PROVE  /\ \A j \in 1 .. Len(cs) : cs[j].th = L => j \in 1 .. Len(ds) /\ ds[j] = cs[j]
         /\ \A j \in 1 .. Len(ds) : ds[j].th = L => j \in 1 .. Len(cs) /\ ds[j] = cs[j]
         /\ \A j \in 2 .. Len(cs) : cs[j].th = L => j \in 2 .. Len(ds) /\ ds[j] = cs[j] /\ ds[j - 1] = cs[j - 1]
         /\ \A j \in 2 .. Len(ds) : ds[j].th = L => j \in 2 .. Len(cs) /\ ds[j] = cs[j] /\ ds[j - 1] = cs[j - 1]
<1>. USE DEF Unmoved
<1>1. ASSUME NEW j \in 1 .. Len(cs), cs[j].th = L PROVE j \in 1 .. n /\ ds[j] = cs[j]
  BY <1>1
<1>2. ASSUME NEW j \in 1 .. Len(ds), ds[j].th = L PROVE j \in 1 .. n /\ ds[j] = cs[j]
  BY <1>2
<1>3. ASSUME NEW j \in 2 .. n PROVE j - 1 \in 1 .. n /\ ds[j - 1] = cs[j - 1]
  <2>1. j - 1 \in 1 .. n
    BY <1>3
  <2>. QED  BY <2>1
<1>4. ASSUME NEW j \in 2 .. Len(cs), cs[j].th = L
      PROVE  j \in 2 .. Len(ds) /\ ds[j] = cs[j] /\ ds[j - 1] = cs[j - 1]
  <2>1. j \in 1 .. n /\ ds[j] = cs[j]
    BY <1>1, <1>4
  <2>2. j \in 2 .. n
    BY <2>1
  <2>. QED  BY <1>3, <2>1, <2>2
<1>5. ASSUME NEW j \in 2 .. Len(ds), ds[j].th = L
      PROVE  j \in 2 .. Len(cs) /\ ds[j] = cs[j] /\ ds[j - 1] = cs[j - 1]
  <2>1. j \in 1 .. n /\ ds[j] = cs[j]
    BY <1>2, <1>5
  <2>2. j \in 2 .. n
    BY <2>1
  <2>. QED  BY <1>3, <2>1, <2>2
<1>. QED  BY <1>1, <1>2, <1>4, <1>5

LEMMA UnmovedFacts ==
  ASSUME NEW cs, NEW ds, NEW n, NEW L, Unmoved(cs, ds, n, L)
  PROVE  /\ PcallFrames(ds, L, Len(ds)) = PcallFrames(cs, L, Len(cs))
         /\ \A d : InUse(ds, L, d) <=> InUse(cs, L, d)
         /\ Overflow(ds, L, Len(ds)) <=> Overflow(cs, L, Len(cs))
         /\ Runs(ds, L) <=> Runs(cs, L)
<1>1. /\ \A j \in 1 .. Len(cs) : cs[j].th = L => j \in 1 .. Len(ds) /\ ds[j] = cs[j]
      /\ \A j \in 1 .. Len(ds) : ds[j].th = L => j \in 1 .. Len(cs) /\ ds[j] = cs[j]
  BY UnmovedPlaces
<1>2. {k \in 1 .. Len(ds) : ds[k].kind = "pcall" /\ ds[k].th = L}
      = {k \in 1 .. Len(cs) : cs[k].kind = "pcall" /\ cs[k].th = L}
  BY <1>1
<1>3. PcallFrames(ds, L, Len(ds)) = PcallFrames(cs, L, Len(cs))
  <2>. DEFINE K == {k \in 1 .. Len(cs) : cs[k].kind = "pcall" /\ cs[k].th = L}
  <2>1. \A j \in K : ds[j] = cs[j]
    BY <1>1
  <2>2. PcallFrames(ds, L, Len(ds)) = {ds[j].ci : j \in K}
    BY <1>2 DEF PcallFrames
  <2>3. PcallFrames(cs, L, Len(cs)) = {cs[j].ci : j \in K}
    BY DEF PcallFrames
  <2>. QED  BY <2>1, <2>2, <2>3
<1>4. \A d : InUse(ds, L, d) <=> InUse(cs, L, d)
  BY UnmovedPlaces DEF InUse
<1>5. Overflow(ds, L, Len(ds)) <=> Overflow(cs, L, Len(cs))
  BY <1>1 DEF Overflow
<1>6. Runs(ds, L) <=> Runs(cs, L)
  BY <1>1 DEF Runs
<1>. QED  BY <1>3, <1>4, <1>5, <1>6

(* Below the n-th activation nothing depends on those above.               *)
LEMMA PrefixFacts ==
  ASSUME NEW cs, NEW ds, NEW i \in Nat, \A j \in 1 .. i : ds[j] = cs[j], NEW L
  PROVE  /\ PcallFrames(ds, L, i) = PcallFrames(cs, L, i)
         /\ Overflow(ds, L, i) <=> Overflow(cs, L, i)
<1>. DEFINE K == {k \in 1 .. i : cs[k].kind = "pcall" /\ cs[k].th = L}
<1>1. K = {k \in 1 .. i : ds[k].kind = "pcall" /\ ds[k].th = L}
  OBVIOUS
<1>2. \A j \in K : ds[j] = cs[j]
  OBVIOUS
<1>3. PcallFrames(ds, L, i) = {ds[j].ci : j \in K}
  BY <1>1 DEF PcallFrames
<1>4. PcallFrames(cs, L, i) = {cs[j].ci : j \in K}
  BY DEF PcallFrames
<1>5. PcallFrames(ds, L, i) = PcallFrames(cs, L, i)
  BY <1>2, <1>3, <1>4
<1>. QED  BY <1>5 DEF Overflow

LEMMA OlderPrefix ==
  ASSUME NEW cs, NEW ds, NEW i \in Nat \ {0}, \A j \in 1 .. i : ds[j] = cs[j], NEW ci, Older(ci, cs, i)
  PROVE  Older(ci, ds, i)
<1>1. ds[i] = cs[i] /\ i - 1 \in Nat /\ \A j \in 1 .. i - 1 : ds[j] = cs[j]
  OBVIOUS
<1>2. NY(cs, i) = NY(ds, i)
  BY SamePrefix
<1>3. PcallFrames(ds, cs[i].th, i - 1) = PcallFrames(cs, cs[i].th, i - 1)
  BY <1>1, PrefixFacts
<1>. QED  BY <1>1, <1>2, <1>3 DEF Older, HandlerFrames

(* A step that changes one thread, L, and the C stack above its n-th       *)
(* activation.                                                             *)
Moves(n, L) ==
  /\ L \in Threads /\ n \in 1 .. Len(cstack) /\ n \in 1 .. Len(cstack')
  /\ \A j \in 1 .. n : cstack'[j] = cstack[j]
  /\ \A j \in n + 1 .. Len(cstack) : cstack[j].th = L
  /\ \A j \in n + 1 .. Len(cstack') : cstack'[j].th = L
  /\ \A M \in Threads : M /= L => state'[M] = state[M]
  /\ L = Running \/ mode = "run"

StackFacts ==
  /\ cstack \in Seq(Activation) /\ Len(cstack) \in Nat \ {0} /\ StackOK(cstack)
  /\ Last(cstack) = Top /\ Top = cstack[Len(cstack)] /\ Running = cstack[Len(cstack)].th
  /\ state \in [Threads -> ThreadState] /\ \A j \in 1 .. Len(cstack) : cstack[j].th \in Threads
  /\ Running \in Threads

LEMMA StackPrimed ==
  /\ CountInv => StackFacts
  /\ CountInv' => StackFacts'
<1>1. CountInv => StackFacts
  <2>. SUFFICES ASSUME CountInv PROVE StackFacts
    OBVIOUS
  <2>1. \A j \in 1 .. Len(cstack) : cstack[j].th \in Threads
    <3>1. \A j \in 1 .. Len(cstack) : cstack[j] \in Activation
      BY RunningFacts
    <3>. QED  BY <3>1, ActivationKind
  <2>. QED  BY <2>1, RunningFacts DEF StackFacts
<1>. QED  BY <1>1, PTL

LEMMA MovesFacts ==
  ASSUME CountInv, CountInv', NEW n, NEW L, Moves(n, L)
  PROVE  /\ n \in Nat \ {0} /\ n <= Len(cstack) /\ n <= Len(cstack')
         /\ Len(cstack) \in Nat /\ Len(cstack') \in Nat
         /\ \A M \in Threads : M /= L => Unmoved(cstack, cstack', n, M)
         /\ \A i \in 1 .. Len(cstack') : cstack'[i].th \in Threads
         /\ \A i \in 1 .. Len(cstack') : cstack'[i].th /= L =>
              i <= n /\ Ci(state', cstack', i) = Ci(state, cstack, i) /\ cstack'[i] = cstack[i]
<1>1. /\ n \in Nat \ {0} /\ n <= Len(cstack) /\ n <= Len(cstack')
      /\ Len(cstack) \in Nat /\ Len(cstack') \in Nat
  BY StackPrimed DEF Moves, StackFacts
<1>2. ASSUME NEW M \in Threads, M /= L PROVE Unmoved(cstack, cstack', n, M)
  BY <1>1, <1>2 DEF Moves, Unmoved
<1>3. \A i \in 1 .. Len(cstack') : cstack'[i].th \in Threads
  BY StackPrimed DEF StackFacts
<1>4. ASSUME NEW i \in 1 .. Len(cstack'), cstack'[i].th /= L
      PROVE  i <= n /\ Ci(state', cstack', i) = Ci(state, cstack, i) /\ cstack'[i] = cstack[i]
  <2>1. i <= n /\ cstack'[i] = cstack[i]
    BY <1>1, <1>4 DEF Moves
  <2>2. state'[cstack'[i].th] = state[cstack[i].th]
    BY <1>3, <1>4, <2>1 DEF Moves
  <2>. QED  BY <2>1, <2>2 DEF Ci
<1>. QED  BY <1>1, <1>2, <1>3, <1>4

(* It is enough to look at L and what is above the n-th activation.        *)
LEMMA MovesHandlers ==
  ASSUME CountInv, CountInv', HandlersInv, NEW n, NEW L, Moves(n, L),
         \A i \in 1 .. Len(cstack') : cstack'[i].th = L => Older(state'[L].ci, cstack', i),
         \A i \in 2 .. Len(cstack') : i > n \/ cstack'[i - 1].th = L =>
           Waits(Ci(state', cstack', i - 1), cstack'[i - 1], cstack'[i]),
         Live(state'[L]) => ErrfuncOK(state'[L], cstack', L),
         Rests(S', Top', mode')
  PROVE  HandlersInv'
<1>. USE MovesFacts
<1>0. HandlersOK(state, cstack, mode)
  BY DEF HandlersInv
<1>1. ASSUME NEW i \in 1 .. Len(cstack') PROVE Older(Ci(state', cstack', i), cstack', i)
  <2>1. CASE cstack'[i].th = L
    BY <2>1 DEF Ci
  <2>2. CASE cstack'[i].th /= L
    <3>1. i <= n /\ Ci(state', cstack', i) = Ci(state, cstack, i)
      BY <2>2
    <3>2. i \in 1 .. Len(cstack) /\ i \in Nat \ {0} /\ \A j \in 1 .. i : cstack'[j] = cstack[j]
      BY <3>1 DEF Moves
    <3>3. Older(Ci(state, cstack, i), cstack, i)
      BY <1>0, <3>2 DEF HandlersOK
    <3>4. Older(Ci(state, cstack, i), cstack', i)
      BY <3>2, <3>3, OlderPrefix
    <3>. QED  BY <3>1, <3>4
  <2>. QED  BY <2>1, <2>2
<1>2. ASSUME NEW i \in 2 .. Len(cstack')
      PROVE  Waits(Ci(state', cstack', i - 1), cstack'[i - 1], cstack'[i])
  <2>1. CASE i > n \/ cstack'[i - 1].th = L
    BY <2>1
  <2>2. CASE i <= n /\ cstack'[i - 1].th /= L
    <3>1. i - 1 \in 1 .. Len(cstack') /\ i - 1 \in 1 .. n /\ i \in 1 .. n /\ i \in 2 .. Len(cstack)
      BY <2>2
    <3>4. Ci(state', cstack', i - 1) = Ci(state, cstack, i - 1) /\ cstack'[i - 1] = cstack[i - 1]
      BY <2>2, <3>1
    <3>2. Ci(state', cstack', i - 1) = Ci(state, cstack, i - 1) /\ cstack'[i - 1] = cstack[i - 1]
          /\ cstack'[i] = cstack[i]
      BY <3>1, <3>4 DEF Moves
    <3>3. Waits(Ci(state, cstack, i - 1), cstack[i - 1], cstack[i])
      BY <1>0, <3>1 DEF HandlersOK
    <3>. QED  BY <3>2, <3>3
  <2>. QED  BY <2>1, <2>2
<1>3. ASSUME NEW M \in Threads, Live(state'[M]) PROVE ErrfuncOK(state'[M], cstack', M)
  <2>1. CASE M = L
    BY <1>3, <2>1
  <2>2. CASE M /= L
    <3>1. state'[M] = state[M] /\ ErrfuncOK(state[M], cstack, M)
      BY <1>0, <1>3, <2>2 DEF Moves, HandlersOK
    <3>2. Unmoved(cstack, cstack', n, M)
      BY <2>2
    <3>. QED  BY <3>1, <3>2, UnmovedFacts DEF ErrfuncOK, HandlerFrames
  <2>. QED  BY <2>1, <2>2
<1>4. Rests(state'[Last(cstack').th], Last(cstack'), mode')
  BY StackPrimed DEF StackFacts, S
<1>. QED  BY <1>1, <1>2, <1>3, <1>4 DEF HandlersInv, HandlersOK

LEMMA MovesReady ==
  ASSUME CountInv, CountInv', ReadyInv, NEW n, NEW L, Moves(n, L),
         \A i \in 2 .. Len(cstack') : i > n \/ cstack'[i - 1].th = L =>
           MayContinue(Ci(state', cstack', i - 1), cstack'[i - 1], cstack'[i]),
         Live(state'[L]) => LeftOK(state'[L], cstack', L, mode')
  PROVE  ReadyInv'
<1>. USE MovesFacts
<1>0. ReadyOK(state, cstack, mode)
  BY DEF ReadyInv
<1>2. ASSUME NEW i \in 2 .. Len(cstack')
      PROVE  MayContinue(Ci(state', cstack', i - 1), cstack'[i - 1], cstack'[i])
  <2>1. CASE i > n \/ cstack'[i - 1].th = L
    BY <2>1
  <2>2. CASE i <= n /\ cstack'[i - 1].th /= L
    <3>1. i - 1 \in 1 .. Len(cstack') /\ i - 1 \in 1 .. n /\ i \in 1 .. n /\ i \in 2 .. Len(cstack)
      BY <2>2
    <3>4. Ci(state', cstack', i - 1) = Ci(state, cstack, i - 1) /\ cstack'[i - 1] = cstack[i - 1]
      BY <2>2, <3>1
    <3>2. Ci(state', cstack', i - 1) = Ci(state, cstack, i - 1) /\ cstack'[i - 1] = cstack[i - 1]
          /\ cstack'[i] = cstack[i]
      BY <3>1, <3>4 DEF Moves
    <3>3. MayContinue(Ci(state, cstack, i - 1), cstack[i - 1], cstack[i])
      BY <1>0, <3>1 DEF ReadyOK
    <3>. QED  BY <3>2, <3>3
  <2>. QED  BY <2>1, <2>2
<1>3. ASSUME NEW M \in Threads, Live(state'[M]) PROVE LeftOK(state'[M], cstack', M, mode')
  <2>1. CASE M = L
    BY <1>3, <2>1
  <2>2. CASE M /= L
    <3>1. state'[M] = state[M] /\ LeftOK(state[M], cstack, M, mode)
      BY <1>0, <1>3, <2>2 DEF Moves, ReadyOK
    <3>2. Unmoved(cstack, cstack', n, M)
      BY <2>2
    <3>3. ~(M = Last(cstack).th /\ Returning(Last(cstack), mode))
      BY <2>2, StackPrimed DEF StackFacts, Moves, Returning
    <3>. QED  BY <3>1, <3>2, <3>3, UnmovedFacts DEF LeftOK
  <2>. QED  BY <2>1, <2>2
<1>. QED  BY <1>2, <1>3 DEF ReadyInv, ReadyOK

LEMMA MovesRoom ==
  ASSUME CountInv, CountInv', RoomInv, NEW n, NEW L, Moves(n, L),
         \A i \in 1 .. Len(cstack') : i > n /\ cstack'[i].ci > MAXFRAMES => Overflow(cstack', L, i - 1),
         state'[L].big => Len(state'[L].ci) >= MAXFRAMES,
         Live(state'[L]) => SizeOK(state'[L], cstack', L, mode')
  PROVE  RoomInv'
<1>. USE MovesFacts
<1>0. RoomOK(state, cstack, mode)
  BY DEF RoomInv
<1>1. ASSUME NEW i \in 1 .. Len(cstack'), cstack'[i].ci > MAXFRAMES
      PROVE  Overflow(cstack', cstack'[i].th, i - 1)
  <2>1. CASE i > n
    BY <1>1, <2>1 DEF Moves
  <2>2. CASE i <= n
    <3>1. i \in 1 .. Len(cstack) /\ i - 1 \in Nat /\ cstack'[i] = cstack[i]
          /\ \A j \in 1 .. i - 1 : cstack'[j] = cstack[j]
      BY <2>2 DEF Moves
    <3>2. Overflow(cstack, cstack[i].th, i - 1)
      BY <1>0, <1>1, <3>1 DEF RoomOK
    <3>. QED  BY <3>1, <3>2, PrefixFacts
  <2>. QED  BY <2>1, <2>2
<1>2. ASSUME NEW M \in Threads, state'[M].big PROVE Len(state'[M].ci) >= MAXFRAMES
  BY <1>0, <1>2 DEF Moves, RoomOK
<1>3. ASSUME NEW M \in Threads, Live(state'[M]) PROVE SizeOK(state'[M], cstack', M, mode')
  <2>1. CASE M = L
    BY <1>3, <2>1
  <2>2. CASE M /= L
    <3>1. state'[M] = state[M] /\ SizeOK(state[M], cstack, M, mode)
      BY <1>0, <1>3, <2>2 DEF Moves, RoomOK
    <3>2. Unmoved(cstack, cstack', n, M)
      BY <2>2
    <3>3. ~(M = Last(cstack).th /\ Handling(mode))
      BY <2>2, StackPrimed DEF StackFacts, Moves, Handling, ErrorStatus
    <3>. QED  BY <3>1, <3>2, <3>3, UnmovedFacts DEF SizeOK
  <2>. QED  BY <2>1, <2>2
<1>. QED  BY <1>1, <1>2, <1>3 DEF RoomInv, RoomOK

-----------------------------------------------------------------------------
(* The steps of the thread that runs.                                      *)
T == state'[Running]
Own(n) == Moves(n, Running) /\ cstack[n].th = Running

LEMMA OwnFacts ==
  ASSUME CountInv, CountInv', NEW n, Own(n)
  PROVE  /\ n \in Nat \ {0} /\ Running' = Running /\ S' = T /\ T \in ThreadState /\ S \in ThreadState
         /\ \A j \in n .. Len(cstack) : cstack[j].th = Running
         /\ \A j \in n .. Len(cstack') : cstack'[j].th = Running
         /\ Runs(cstack', Running) /\ Running \in Threads
<1>1. n \in Nat \ {0} /\ n <= Len(cstack) /\ n <= Len(cstack') /\ Len(cstack) \in Nat /\ Len(cstack') \in Nat
      /\ Running \in Threads
  BY StackPrimed DEF Own, Moves, StackFacts
<1>2. \A j \in n .. Len(cstack') : cstack'[j].th = Running
  BY <1>1 DEF Own, Moves
<1>3. \A j \in n .. Len(cstack) : cstack[j].th = Running
  BY <1>1 DEF Own, Moves
<1>4. Running' = Running
  BY <1>1, <1>2, StackPrimed DEF StackFacts
<1>5. S' = T /\ T \in ThreadState /\ S \in ThreadState
  BY <1>4, StackPrimed, RunningFacts DEF S, T, StackFacts
<1>6. Runs(cstack', Running)
  BY <1>1, <1>2 DEF Runs
<1>. QED  BY <1>1, <1>2, <1>3, <1>4, <1>5, <1>6

(* Of two threads: the same functions, with the same suspended calls.      *)
SameCalls(t, s) ==
  /\ Len(t.ci) = Len(s.ci)
  /\ \A d \in 1 .. Len(s.ci) : /\ t.ci[d].lua = s.ci[d].lua /\ t.ci[d].yp = s.ci[d].yp
                               /\ t.ci[d].oerr = s.ci[d].oerr
                               /\ s.ci[d].k => t.ci[d].k

LEMMA SameCallsFacts ==
  ASSUME NEW t, NEW s, t \in ThreadState, s \in ThreadState, SameCalls(t, s)
  PROVE  /\ Suspended(t.ci) = Suspended(s.ci) /\ LuaFrames(t.ci) = LuaFrames(s.ci)
         /\ Len(t.ci) = Len(s.ci) /\ Len(s.ci) \in Nat
         /\ Suspended(s.ci) \subseteq 1 .. Len(s.ci)
         /\ \A d \in Suspended(s.ci) : t.ci[d].oerr = s.ci[d].oerr
         /\ \A d \in 1 .. Len(s.ci) : s.ci[d].k => t.ci[d].k
<1>1. t.ci \in Seq(Frame) /\ s.ci \in Seq(Frame)
  BY DEF ThreadState
<1>2. DOMAIN t.ci = 1 .. Len(s.ci) /\ DOMAIN s.ci = 1 .. Len(s.ci) /\ Len(s.ci) \in Nat
  BY <1>1 DEF SameCalls
<1>. QED  BY <1>2 DEF SameCalls, Suspended, LuaFrames

(* A step that leaves the functions and the protected calls of the thread  *)
(* as they are.                                                            *)
Popped(a) == a.kind \in {"hook", "gctm", "level", "parser", "load"} \/ (a.kind = "call" /\ ~a.yp)
Put(a) ==
  /\ a.kind \in {"hook", "errormsg", "level"} \/ (a.kind = "call" /\ ~a.yp)
  /\ a.ci = Depth
Quiet(n) ==
  /\ Own(n) /\ SameCalls(T, S) /\ T.errfunc = S.errfunc
  /\ T.status = S.status \/ T.status = "YIELD"
  /\ \A i \in n + 1 .. Len(cstack) : Popped(cstack[i])
  /\ \A i \in n + 1 .. Len(cstack') : Put(cstack'[i])
  /\ Len(cstack') > n => /\ n = Len(cstack) /\ MayContinue(T.ci, Top, cstack'[n + 1])
                         /\ cstack'[n + 1].kind = "hook" /\ Top.kind = "resume" => Returning(Top, mode)
  /\ Returning(Top', mode') => \/ Returning(Top, mode)
                               \/ n + 1 = Len(cstack) /\ Top.kind = "hook"
  /\ Returning(Top, mode) => Returning(Top', mode') \/ (Len(cstack') > n /\ cstack'[n + 1].kind = "hook")
  /\ \A i \in n + 1 .. Len(cstack) : cstack[i].kind = "hook" /\ cstack[i - 1].kind = "resume" =>
       i = n + 1 /\ i = Len(cstack) /\ Returning(Top', mode')
  /\ T.big => S.big \/ (Depth >= MAXFRAMES /\ Handling(mode'))
  /\ Handling(mode) /\ S.big => Handling(mode') \/ (Len(cstack') > n /\ cstack'[n + 1].kind = "errormsg")

(* The frames of the protected calls on the C stack.                       *)
LEMMA PcallFramesKept ==
  ASSUME NEW cs, NEW ds, NEW n \in Nat, NEW L, \A j \in 1 .. n : ds[j] = cs[j], Len(cs) \in Nat, Len(ds) \in Nat,
         n <= Len(cs), n <= Len(ds), \A j \in n + 1 .. Len(cs) : cs[j].kind = "pcall" => cs[j].th /= L
  PROVE  PcallFrames(cs, L, Len(cs)) \subseteq PcallFrames(ds, L, Len(ds))
<1>. SUFFICES ASSUME NEW j \in 1 .. Len(cs), cs[j].kind = "pcall", cs[j].th = L
              PROVE  cs[j].ci \in PcallFrames(ds, L, Len(ds))
  BY DEF PcallFrames
<1>1. j \in 1 .. n
  OBVIOUS
<1>2. j \in {k \in 1 .. Len(ds) : ds[k].kind = "pcall" /\ ds[k].th = L} /\ ds[j].ci = cs[j].ci
  BY <1>1
<1>. QED  BY <1>2 DEF PcallFrames

LEMMA OwnCi ==
  ASSUME CountInv, CountInv', NEW n, Own(n)
  PROVE  /\ \A i : cstack[i].th = Running => Ci(state, cstack, i) = S.ci
         /\ \A i : cstack'[i].th = Running => Ci(state', cstack', i) = T.ci
         /\ \A i \in 2 .. Len(cstack') : i > n \/ cstack'[i - 1].th = Running =>
              cstack'[i - 1].th = Running /\ i - 1 \in 1 .. Len(cstack')
         /\ \A i \in 1 .. n : i \in 1 .. Len(cstack) /\ i \in 1 .. Len(cstack') /\ cstack'[i] = cstack[i]
         /\ \A i \in 2 .. n : /\ i \in 2 .. Len(cstack) /\ i - 1 \in 1 .. n
                              /\ cstack'[i] = cstack[i] /\ cstack'[i - 1] = cstack[i - 1]
<1>1. \A i : cstack[i].th = Running => Ci(state, cstack, i) = S.ci
  BY DEF Ci, S
<1>2. \A i : cstack'[i].th = Running => Ci(state', cstack', i) = T.ci
  BY DEF Ci, T
<1>3. ASSUME NEW i \in 2 .. Len(cstack'), i > n \/ cstack'[i - 1].th = Running
      PROVE  cstack'[i - 1].th = Running /\ i - 1 \in 1 .. Len(cstack')
  <2>1. i - 1 \in 1 .. Len(cstack') /\ n \in Nat
    BY <1>3, OwnFacts, MovesFacts DEF Own
  <2>2. CASE i > n
    <3>1. i - 1 \in n .. Len(cstack')
      BY <2>1, <2>2
    <3>. QED  BY <2>1, <3>1, OwnFacts
  <2>. QED  BY <1>3, <2>1, <2>2
<1>4. ASSUME NEW i \in 1 .. n
      PROVE  i \in 1 .. Len(cstack) /\ i \in 1 .. Len(cstack') /\ cstack'[i] = cstack[i]
  BY MovesFacts DEF Own, Moves
<1>5. ASSUME NEW i \in 2 .. n
      PROVE  /\ i \in 2 .. Len(cstack) /\ i - 1 \in 1 .. n
             /\ cstack'[i] = cstack[i] /\ cstack'[i - 1] = cstack[i - 1]
  <2>1. i \in 1 .. n /\ i - 1 \in 1 .. n /\ i \in 2 .. Len(cstack)
    BY MovesFacts DEF Own
  <2>. QED  BY <1>4, <2>1
<1>. QED  BY <1>1, <1>2, <1>3, <1>4, <1>5

(* Where the suspended calls stay, the first n activations are all right.  *)
LEMMA KeptHandlers ==
  ASSUME CountInv, CountInv', HandlersInv, NEW n, Own(n), Suspended(T.ci) = Suspended(S.ci)
  PROVE  /\ \A i \in 1 .. n : cstack'[i].th = Running => Older(T.ci, cstack', i)
         /\ \A i \in 2 .. n : cstack'[i - 1].th = Running => Waits(T.ci, cstack'[i - 1], cstack'[i])
<1>0. HandlersOK(state, cstack, mode) /\ n \in Nat
  BY OwnFacts DEF HandlersInv
<1>1. ASSUME NEW i \in 1 .. n, cstack'[i].th = Running PROVE Older(T.ci, cstack', i)
  <2>1. i \in 1 .. Len(cstack) /\ cstack[i].th = Running /\ \A j \in 1 .. i : cstack'[j] = cstack[j]
    BY <1>0, <1>1, OwnCi
  <2>2. Older(S.ci, cstack, i)
    <3>1. Older(Ci(state, cstack, i), cstack, i)
      BY <1>0, <2>1 DEF HandlersOK
    <3>. QED  BY <2>1, <3>1, OwnCi
  <2>3. Older(T.ci, cstack, i)
    BY <2>2 DEF Older, HandlerFrames
  <2>. QED  BY <1>0, <2>1, <2>3, OlderPrefix
<1>2. ASSUME NEW i \in 2 .. n, cstack'[i - 1].th = Running PROVE Waits(T.ci, cstack'[i - 1], cstack'[i])
  <2>1. i \in 2 .. Len(cstack) /\ cstack[i - 1].th = Running
        /\ cstack'[i] = cstack[i] /\ cstack'[i - 1] = cstack[i - 1]
    BY <1>2, OwnCi
  <2>2. Waits(S.ci, cstack[i - 1], cstack[i])
    <3>1. Waits(Ci(state, cstack, i - 1), cstack[i - 1], cstack[i])
      BY <1>0, <2>1 DEF HandlersOK
    <3>. QED  BY <2>1, <3>1, OwnCi
  <2>. QED  BY <2>1, <2>2 DEF Waits
<1>. QED  BY <1>1, <1>2

LEMMA OwnHandlers ==
  ASSUME CountInv, CountInv', HandlersInv, NEW n, Own(n),
         \A i \in 1 .. Len(cstack') : cstack'[i].th = Running => Older(T.ci, cstack', i),
         \A i \in 2 .. Len(cstack') : cstack'[i - 1].th = Running =>
           Waits(T.ci, cstack'[i - 1], cstack'[i]),
         Live(T) => ErrfuncOK(T, cstack', Running),
         Rests(T, Top', mode')
  PROVE  HandlersInv'
<1>1. \A i \in 2 .. Len(cstack') : i > n \/ cstack'[i - 1].th = Running =>
           Waits(Ci(state', cstack', i - 1), cstack'[i - 1], cstack'[i])
  BY OwnCi
<1>2. \A i \in 1 .. Len(cstack') : cstack'[i].th = Running => Older(state'[Running].ci, cstack', i)
  BY DEF T
<1>3. Live(state'[Running]) => ErrfuncOK(state'[Running], cstack', Running)
  BY DEF T
<1>4. Rests(S', Top', mode') /\ Moves(n, Running)
  BY OwnFacts DEF Own
<1>. QED  BY <1>1, <1>2, <1>3, <1>4, MovesHandlers

LEMMA OwnReady ==
  ASSUME CountInv, CountInv', ReadyInv, NEW n, Own(n),
         \A i \in 2 .. Len(cstack') : cstack'[i - 1].th = Running =>
           MayContinue(T.ci, cstack'[i - 1], cstack'[i]),
         Live(T) => LeftOK(T, cstack', Running, mode')
  PROVE  ReadyInv'
<1>1. \A i \in 2 .. Len(cstack') : i > n \/ cstack'[i - 1].th = Running =>
           MayContinue(Ci(state', cstack', i - 1), cstack'[i - 1], cstack'[i])
  BY OwnCi
<1>2. Live(state'[Running]) => LeftOK(state'[Running], cstack', Running, mode')
  BY DEF T
<1>. QED  BY <1>1, <1>2, MovesReady DEF Own

LEMMA OwnRoom ==
  ASSUME CountInv, CountInv', RoomInv, NEW n, Own(n),
         \A i \in 1 .. Len(cstack') : i > n /\ cstack'[i].ci > MAXFRAMES => Overflow(cstack', Running, i - 1),
         T.big => Len(T.ci) >= MAXFRAMES,
         Live(T) => SizeOK(T, cstack', Running, mode')
  PROVE  RoomInv'
<1>1. /\ state'[Running].big => Len(state'[Running].ci) >= MAXFRAMES
      /\ Live(state'[Running]) => SizeOK(state'[Running], cstack', Running, mode')
  BY DEF T
<1>. QED  BY <1>1, MovesRoom DEF Own

(* What the invariants say of the thread that runs.                        *)
LEMMA RunningHandlers ==
  ASSUME CountInv, HandlersInv
  PROVE  /\ \A i \in 1 .. Len(cstack) : cstack[i].th = Running => Older(S.ci, cstack, i)
         /\ \A i \in 2 .. Len(cstack) : cstack[i - 1].th = Running => Waits(S.ci, cstack[i - 1], cstack[i])
         /\ Live(S) /\ ErrfuncOK(S, cstack, Running) /\ Rests(S, Top, mode) /\ Runs(cstack, Running)
<1>0. HandlersOK(state, cstack, mode) /\ StackFacts
  BY StackPrimed DEF HandlersInv
<1>1. ASSUME NEW i \in 1 .. Len(cstack), cstack[i].th = Running PROVE Older(S.ci, cstack, i)
  BY <1>0, <1>1 DEF HandlersOK, Ci, S
<1>2. ASSUME NEW i \in 2 .. Len(cstack), cstack[i - 1].th = Running PROVE Waits(S.ci, cstack[i - 1], cstack[i])
  BY <1>0, <1>2 DEF HandlersOK, Ci, S
<1>3. Live(S)
  BY RunningFacts DEF InMode, Live
<1>4. ErrfuncOK(S, cstack, Running)
  BY <1>0, <1>3 DEF HandlersOK, S, StackFacts
<1>5. Rests(S, Top, mode)
  BY <1>0 DEF HandlersOK, S, StackFacts
<1>6. Runs(cstack, Running)
  BY <1>0 DEF Runs, StackFacts
<1>. QED  BY <1>1, <1>2, <1>3, <1>4, <1>5, <1>6

LEMMA RunningReady ==
  ASSUME CountInv, ReadyInv
  PROVE  /\ \A i \in 2 .. Len(cstack) : cstack[i - 1].th = Running => MayContinue(S.ci, cstack[i - 1], cstack[i])
         /\ LeftOK(S, cstack, Running, mode)
<1>0. ReadyOK(state, cstack, mode) /\ StackFacts
  BY StackPrimed DEF ReadyInv
<1>2. ASSUME NEW i \in 2 .. Len(cstack), cstack[i - 1].th = Running
      PROVE  MayContinue(S.ci, cstack[i - 1], cstack[i])
  BY <1>0, <1>2 DEF ReadyOK, Ci, S
<1>3. Live(S)
  BY RunningFacts DEF InMode, Live
<1>4. LeftOK(S, cstack, Running, mode)
  BY <1>0, <1>3 DEF ReadyOK, S, StackFacts
<1>. QED  BY <1>2, <1>4

LEMMA RunningRoom ==
  ASSUME CountInv, RoomInv
  PROVE  /\ \A i \in 1 .. Len(cstack) : cstack[i].ci > MAXFRAMES => Overflow(cstack, cstack[i].th, i - 1)
         /\ S.big => Len(S.ci) >= MAXFRAMES
         /\ SizeOK(S, cstack, Running, mode)
<1>0. RoomOK(state, cstack, mode) /\ StackFacts
  BY StackPrimed DEF RoomInv
<1>3. Live(S)
  BY RunningFacts DEF InMode, Live
<1>4. SizeOK(S, cstack, Running, mode) /\ (S.big => Len(S.ci) >= MAXFRAMES)
  BY <1>0, <1>3 DEF RoomOK, S, StackFacts
<1>. QED  BY <1>0, <1>4 DEF RoomOK

LEMMA OverflowKept ==
  ASSUME NEW cs, NEW ds, NEW n \in Nat, NEW L, \A j \in 1 .. n : ds[j] = cs[j], Len(cs) \in Nat, Len(ds) \in Nat,
         n <= Len(cs), n <= Len(ds), \A j \in n + 1 .. Len(cs) : cs[j].kind /= "errormsg",
         Overflow(cs, L, Len(cs))
  PROVE  Overflow(ds, L, Len(ds))
<1>1. PICK e \in 1 .. Len(cs) : cs[e].kind = "errormsg" /\ cs[e].th = L /\ cs[e].ci >= MAXFRAMES
  BY DEF Overflow
<1>2. e \in 1 .. n
  BY <1>1
<1>. QED  BY <1>1, <1>2 DEF Overflow

(* The last activation and its frame.                                      *)
LEMMA TopFrame ==
  ASSUME CountInv, FrameInv
  PROVE  /\ Top.kind \notin {"exec", "resume"} => Top.ci = Depth
         /\ \A i \in 1 .. Len(cstack) : cstack[i].th = Running => cstack[i].ci \in 1 .. Depth
<1>1. Place(Top, S.ci, Depth) /\ Depth = Len(S.ci)
  BY FrameInvFacts
<1>2. \A i \in 1 .. Len(cstack) : cstack[i].ci \in 1 .. Len(state[cstack[i].th].ci)
  BY DEF FrameInv, FramesOK, FramesExist
<1>. QED  BY <1>1, <1>2 DEF Place, S

LEMMA QuietFacts ==
  ASSUME CountInv, CountInv', NEW n, Quiet(n)
  PROVE  /\ Own(n) /\ n \in Nat \ {0} /\ n \in 1 .. Len(cstack) /\ Len(cstack') \in Nat /\ Len(cstack) \in Nat
         /\ Len(cstack') = n \/ Len(cstack') > n
         /\ Len(cstack') > n => n + 1 \in n + 1 .. Len(cstack') /\ n + 1 \in 2 .. Len(cstack') /\ (n + 1) - 1 = n
         /\ Len(cstack') > n => Put(Top')
         /\ n <= Len(cstack) /\ n <= Len(cstack') /\ Len(cstack) >= n
         /\ \A j \in 1 .. n : cstack'[j] = cstack[j]
         /\ Top = cstack[Len(cstack)] /\ Top' = cstack'[Len(cstack')]
         /\ Suspended(T.ci) = Suspended(S.ci) /\ LuaFrames(T.ci) = LuaFrames(S.ci)
         /\ Len(T.ci) = Len(S.ci) /\ Len(S.ci) \in Nat /\ Depth = Len(S.ci)
<1>1. Own(n) /\ SameCalls(T, S)
  BY DEF Quiet
<1>2. T \in ThreadState /\ S \in ThreadState /\ n \in Nat \ {0}
  BY <1>1, OwnFacts
<1>3. Top = cstack[Len(cstack)] /\ Top' = cstack'[Len(cstack')]
  BY StackPrimed DEF StackFacts
<1>4. /\ Len(cstack) \in Nat /\ Len(cstack') \in Nat /\ n <= Len(cstack) /\ n <= Len(cstack')
      /\ \A j \in 1 .. n : cstack'[j] = cstack[j]
  BY <1>1, MovesFacts DEF Own, Moves
<1>5. Len(cstack') > n => Put(Top')
  <2>1. Len(cstack') > n => Len(cstack') \in n + 1 .. Len(cstack')
    BY <1>2, <1>4
  <2>. QED  BY <1>3, <2>1 DEF Quiet
<1>. QED  BY <1>1, <1>2, <1>3, <1>4, <1>5, SameCallsFacts DEF Quiet, Depth

LEMMA QuietHandlers ==
  ASSUME CountInv, CountInv', FrameInv, HandlersInv, NEW n, Quiet(n)
  PROVE  HandlersInv'
<1>0. Own(n) /\ n \in Nat \ {0} /\ n \in 1 .. Len(cstack) /\ n <= Len(cstack') /\ Len(cstack) \in Nat
      /\ Len(cstack') \in Nat /\ (Len(cstack') = n \/ Len(cstack') > n)
  BY QuietFacts
<1>s. Suspended(T.ci) = Suspended(S.ci) /\ Len(T.ci) = Len(S.ci) /\ Depth = Len(S.ci)
  BY QuietFacts
<1>1. ASSUME NEW i \in 1 .. Len(cstack'), cstack'[i].th = Running PROVE Older(T.ci, cstack', i)
  <2>1. CASE i <= n
    BY <1>0, <1>1, <1>s, <2>1, KeptHandlers
  <2>2. CASE i > n
    <3>1. Put(cstack'[i])
      BY <1>0, <2>2 DEF Quiet
    <3>. QED  BY <3>1 DEF Put, Older
  <2>. QED  BY <1>0, <2>1, <2>2
<1>2. ASSUME NEW i \in 2 .. Len(cstack'), cstack'[i - 1].th = Running
      PROVE  Waits(T.ci, cstack'[i - 1], cstack'[i])
  <2>1. CASE i <= n
    BY <1>0, <1>2, <1>s, <2>1, KeptHandlers
  <2>3. CASE i > n + 1
    <3>1. Put(cstack'[i]) /\ Put(cstack'[i - 1])
      <4>1. i \in n + 1 .. Len(cstack') /\ i - 1 \in n + 1 .. Len(cstack')
        BY <1>0, <2>3
      <4>. QED  BY <4>1 DEF Quiet
    <3>. QED  BY <3>1 DEF Put, Waits
  <2>2. CASE i = n + 1
    <3>1. i - 1 = n /\ Len(cstack') > n /\ i \in n + 1 .. Len(cstack')
      BY <1>0, <2>2
    <3>2. Put(cstack'[i]) /\ cstack'[i - 1] = Top /\ n = Len(cstack)
      BY <1>0, <3>1, QuietFacts DEF Quiet
    <3>3. Rests(S, Top, mode)
      BY RunningHandlers
    <3>4. Top.kind = "cfun" => Top.ci \notin Suspended(S.ci)
      BY <3>3 DEF Rests
    <3>5. Top.kind = "resume" /\ cstack'[i].kind = "hook" => cstack'[i].ci \notin Suspended(S.ci)
      BY <1>s, <2>2, <3>1, <3>2, <3>3 DEF Quiet, Rests, LastNot, Put
    <3>. QED  BY <1>s, <3>2, <3>4, <3>5 DEF Waits, Put
  <2>. QED  BY <1>0, <2>1, <2>2, <2>3
<1>3. ErrfuncOK(T, cstack', Running)
  <2>1. ErrfuncOK(S, cstack, Running)
    BY RunningHandlers
  <2>2. PcallFrames(cstack, Running, Len(cstack)) \subseteq PcallFrames(cstack', Running, Len(cstack'))
    <3>1. \A j \in n + 1 .. Len(cstack) : cstack[j].kind /= "pcall"
      BY DEF Quiet, Popped
    <3>. QED  BY <1>0, <3>1, PcallFramesKept, QuietFacts
  <2>3. T.errfunc \in HandlerFrames(T.ci, cstack', Running, Len(cstack'))
    BY <1>s, <2>1, <2>2 DEF ErrfuncOK, HandlerFrames, Quiet
  <2>4. \A d \in Suspended(T.ci) : T.ci[d].oerr \in {0} \union {e \in Suspended(T.ci) : e < d}
    <3>1. \A d \in Suspended(S.ci) : T.ci[d].oerr = S.ci[d].oerr
      BY <1>0, OwnFacts, SameCallsFacts DEF Quiet
    <3>. QED  BY <1>s, <2>1, <3>1 DEF ErrfuncOK
  <2>. QED  BY <1>0, <2>3, <2>4, OwnFacts DEF ErrfuncOK
<1>4. Rests(T, Top', mode')
  <2>1. ASSUME Top'.kind = "cfun" PROVE Top'.ci \notin Suspended(T.ci)
    <3>1. Len(cstack') = n /\ Top' = cstack[n]
      BY <1>0, <2>1, QuietFacts DEF Quiet, Put
    <3>2. CASE n = Len(cstack)
      BY <1>s, <2>1, <3>1, <3>2, RunningHandlers, QuietFacts DEF Rests
    <3>3. CASE n /= Len(cstack)
      <4>1. n + 1 \in 2 .. Len(cstack) /\ n + 1 \in n + 1 .. Len(cstack) /\ (n + 1) - 1 = n
        BY <1>0, <3>3
      <4>2. Popped(cstack[n + 1]) /\ cstack[n].th = Running
        BY <4>1 DEF Quiet, Own
      <4>3. Waits(S.ci, cstack[n], cstack[n + 1])
        BY <4>1, <4>2, RunningHandlers
      <4>. QED  BY <1>s, <2>1, <3>1, <4>2, <4>3 DEF Waits, Popped
    <3>. QED  BY <3>2, <3>3
  <2>2. ASSUME Returning(Top', mode') PROVE LastNot(T)
    <3>1. CASE Returning(Top, mode)
      BY <1>s, <3>1, RunningHandlers DEF Rests, LastNot
    <3>2. CASE n + 1 = Len(cstack) /\ Top.kind = "hook"
      <4>1. Len(cstack') = n /\ Top' = cstack[n]
        BY <1>0, <2>2, QuietFacts DEF Quiet, Put, Returning
      <4>2. n + 1 \in 2 .. Len(cstack) /\ (n + 1) - 1 = n /\ cstack[n + 1] = Top /\ cstack[n].th = Running
        BY <1>0, <3>2, QuietFacts DEF Own
      <4>3. Waits(S.ci, cstack[n], Top)
        BY <4>2, RunningHandlers
      <4>4. Top.ci = Len(S.ci)
        BY <1>s, <3>2, TopFrame
      <4>. QED  BY <1>s, <2>2, <3>2, <4>1, <4>3, <4>4 DEF Waits, LastNot, Returning
    <3>. QED  BY <2>2, <3>1, <3>2 DEF Quiet
  <2>. QED  BY <2>1, <2>2 DEF Rests
<1>. QED  BY <1>0, <1>1, <1>2, <1>3, <1>4, OwnHandlers

LEMMA QuietReady ==
  ASSUME CountInv, CountInv', FrameInv, ReadyInv, NEW n, Quiet(n)
  PROVE  ReadyInv'
<1>0. Own(n) /\ n \in Nat \ {0} /\ n \in 1 .. Len(cstack) /\ n <= Len(cstack') /\ Len(cstack) \in Nat
      /\ Len(cstack') \in Nat /\ (Len(cstack') = n \/ Len(cstack') > n)
  BY QuietFacts
<1>s. /\ Suspended(T.ci) = Suspended(S.ci) /\ Len(T.ci) = Len(S.ci) /\ Depth = Len(S.ci)
      /\ LuaFrames(T.ci) = LuaFrames(S.ci) /\ Len(S.ci) \in Nat
  BY QuietFacts
<1>k. \A d \in 1 .. Len(S.ci) : S.ci[d].k => T.ci[d].k
  BY DEF Quiet, SameCalls
<1>1. ASSUME NEW i \in 2 .. Len(cstack'), cstack'[i - 1].th = Running
      PROVE  MayContinue(T.ci, cstack'[i - 1], cstack'[i])
  <2>1. CASE i <= n
    <3>1. i \in 2 .. Len(cstack) /\ cstack'[i] = cstack[i] /\ cstack'[i - 1] = cstack[i - 1]
          /\ i - 1 \in 1 .. Len(cstack)
      BY <1>0, <2>1, OwnCi
    <3>2. MayContinue(S.ci, cstack[i - 1], cstack[i])
      BY <1>1, <3>1, RunningReady
    <3>3. cstack[i - 1].ci \in 1 .. Len(S.ci)
      BY <1>1, <1>s, <3>1, TopFrame
    <3>. QED  BY <1>k, <3>1, <3>2, <3>3 DEF MayContinue
  <2>2. CASE i = n + 1
    <3>1. i - 1 = n /\ Len(cstack') > n
      BY <1>0, <2>2
    <3>2. cstack'[i - 1] = Top
      BY <1>0, <3>1, QuietFacts DEF Quiet
    <3>. QED  BY <2>2, <3>1, <3>2 DEF Quiet
  <2>3. CASE i > n + 1
    <3>1. Put(cstack'[i - 1])
      <4>1. i - 1 \in n + 1 .. Len(cstack')
        BY <1>0, <2>3
      <4>. QED  BY <4>1 DEF Quiet
    <3>. QED  BY <3>1 DEF Put, MayContinue
  <2>. QED  BY <1>0, <2>1, <2>2, <2>3
<1>2. LeftOK(T, cstack', Running, mode')
  <2>0. LeftOK(S, cstack, Running, mode) /\ Last(cstack') = Top' /\ Last(cstack) = Top
    BY RunningReady, StackPrimed DEF StackFacts
  <2>1. ASSUME NEW d \in CFrames(T.ci, Len(T.ci))
        PROVE  \/ T.ci[d].k \/ InUse(cstack', Running, d)
               \/ d = Len(T.ci) /\ (T.status = "YIELD" \/ (Running = Top'.th /\ Returning(Top', mode')))
    <3>1. d \in CFrames(S.ci, Len(S.ci)) /\ d \in 1 .. Len(S.ci)
      BY <1>s DEF CFrames
    <3>2. CASE S.ci[d].k
      BY <1>k, <3>1, <3>2
    <3>3. CASE InUse(cstack, Running, d)
      <4>1. PICK j \in 2 .. Len(cstack) :
              /\ cstack[j].th = Running /\ cstack[j].ci = d
              /\ cstack[j].kind = "cfun" \/ (cstack[j].kind = "hook" /\ cstack[j - 1].kind = "resume")
        BY <3>3 DEF InUse
      <4>2. CASE j <= n
        <5>1. j \in 2 .. Len(cstack') /\ cstack'[j] = cstack[j] /\ cstack'[j - 1] = cstack[j - 1]
          BY <1>0, <4>2, OwnCi
        <5>. QED  BY <4>1, <5>1 DEF InUse
      <4>3. CASE j > n
        <5>1. Popped(cstack[j]) /\ j \in n + 1 .. Len(cstack)
          BY <1>0, <4>3 DEF Quiet
        <5>2. cstack[j].kind = "hook" /\ cstack[j - 1].kind = "resume"
          BY <4>1, <5>1 DEF Popped
        <5>3. j = Len(cstack) /\ Returning(Top', mode')
          BY <5>1, <5>2 DEF Quiet
        <5>4. d = Len(S.ci)
          BY <1>s, <4>1, <5>2, <5>3, TopFrame, QuietFacts
        <5>5. Running = Top'.th
          BY <1>0, OwnFacts DEF Running
        <5>. QED  BY <1>s, <5>3, <5>4, <5>5
      <4>. QED  BY <1>0, <4>2, <4>3
    <3>4. CASE d = Len(S.ci) /\ S.status = "YIELD"
      BY <1>s, <3>4 DEF Quiet
    <3>5. CASE d = Len(S.ci) /\ Returning(Top, mode)
      <4>1. CASE Returning(Top', mode')
        <5>1. Running = Top'.th
          BY <1>0, OwnFacts DEF Running
        <5>. QED  BY <1>s, <3>5, <4>1, <5>1
      <4>2. CASE Len(cstack') > n /\ cstack'[n + 1].kind = "hook"
        <5>1. n + 1 \in 2 .. Len(cstack') /\ (n + 1) - 1 = n /\ cstack'[n] = Top
              /\ Put(cstack'[n + 1]) /\ n + 1 \in n .. Len(cstack')
          BY <1>0, <4>2, QuietFacts DEF Quiet
        <5>2. cstack'[n + 1].th = Running
          BY <1>0, <5>1, OwnFacts
        <5>. QED  BY <1>s, <3>5, <4>2, <5>1, <5>2 DEF InUse, Put, Returning
      <4>. QED  BY <3>5, <4>1, <4>2 DEF Quiet
    <3>. QED  BY <2>0, <3>1, <3>2, <3>3, <3>4, <3>5 DEF LeftOK
  <2>2. ASSUME NEW e \in Suspended(T.ci), NEW d \in CFrames(T.ci, e - 1) PROVE T.ci[d].k
    <3>1. e \in Suspended(S.ci) /\ d \in CFrames(S.ci, e - 1) /\ e \in 1 .. Len(S.ci)
      BY <1>0, <1>s, OwnFacts, SameCallsFacts DEF CFrames, Quiet
    <3>2. S.ci[d].k /\ d \in 1 .. Len(S.ci)
      BY <2>0, <3>1 DEF LeftOK, CFrames
    <3>. QED  BY <1>k, <3>2
  <2>. QED  BY <2>0, <2>1, <2>2 DEF LeftOK
<1>. QED  BY <1>0, <1>1, <1>2, OwnReady

LEMMA QuietRoom ==
  ASSUME CountInv, CountInv', FrameInv, RoomInv, NEW n, Quiet(n)
  PROVE  RoomInv'
<1>0. Own(n) /\ n \in Nat \ {0} /\ n \in 1 .. Len(cstack) /\ n <= Len(cstack') /\ Len(cstack) \in Nat
      /\ Len(cstack') \in Nat /\ (Len(cstack') = n \/ Len(cstack') > n)
  BY QuietFacts
<1>s. /\ Suspended(T.ci) = Suspended(S.ci) /\ Len(T.ci) = Len(S.ci) /\ Depth = Len(S.ci) /\ Len(S.ci) \in Nat
  BY QuietFacts
<1>r. SizeOK(S, cstack, Running, mode) /\ (S.big => Len(S.ci) >= MAXFRAMES)
  BY RunningRoom
<1>1. ASSUME NEW i \in 1 .. Len(cstack'), i > n, cstack'[i].ci > MAXFRAMES
      PROVE  Overflow(cstack', Running, i - 1)
  <2>1. i - 1 \in Nat /\ i - 1 >= n /\ Put(cstack'[i]) /\ n = Len(cstack)
    BY <1>0, <1>1 DEF Quiet
  <2>2. Overflow(cstack, Running, n)
    BY <1>1, <1>r, <1>s, <2>1 DEF SizeOK, Put
  <2>3. Overflow(cstack', Running, n)
    BY <1>0, <2>2, PrefixFacts, QuietFacts
  <2>. QED  BY <1>0, <2>1, <2>3 DEF Overflow
<1>2. T.big => Len(T.ci) >= MAXFRAMES
  BY <1>r, <1>s DEF Quiet
<1>3. Overflow(cstack, Running, Len(cstack)) => Overflow(cstack', Running, Len(cstack'))
  <2>1. \A j \in n + 1 .. Len(cstack) : cstack[j].kind /= "errormsg"
    BY DEF Quiet, Popped
  <2>. QED  BY <1>0, <2>1, OverflowKept, QuietFacts
<1>4. SizeOK(T, cstack', Running, mode')
  <2>0. Last(cstack').th = Running /\ Last(cstack) = Top
    BY <1>0, OwnFacts, StackPrimed DEF Running, StackFacts
  <2>1. ASSUME T.big PROVE Overflow(cstack', Running, Len(cstack')) \/ Handling(mode')
    <3>1. CASE S.big /\ Handling(mode)
      <4>1. CASE Handling(mode')
        BY <4>1
      <4>2. CASE Len(cstack') > n /\ cstack'[n + 1].kind = "errormsg"
        <5>1. n + 1 \in 1 .. Len(cstack') /\ n + 1 \in n .. Len(cstack') /\ Put(cstack'[n + 1])
          BY <1>0, <4>2 DEF Quiet
        <5>2. cstack'[n + 1].th = Running /\ cstack'[n + 1].ci >= MAXFRAMES
          BY <1>0, <1>r, <1>s, <3>1, <5>1, OwnFacts DEF Put
        <5>. QED  BY <4>2, <5>1, <5>2 DEF Overflow
      <4>. QED  BY <3>1, <4>1, <4>2 DEF Quiet
    <3>2. CASE S.big /\ ~Handling(mode)
      BY <1>3, <1>r, <3>2 DEF SizeOK
    <3>3. CASE ~S.big
      BY <2>1, <3>3 DEF Quiet
    <3>. QED  BY <3>1, <3>2, <3>3
  <2>. QED  BY <1>3, <1>r, <1>s, <2>0, <2>1 DEF SizeOK
<1>. QED  BY <1>0, <1>1, <1>2, <1>4, OwnRoom

(* The third layer of the invariant.                                       *)
ThirdInv == HandlersInv /\ ReadyInv /\ RoomInv

LEMMA QuietStep ==
  ASSUME CountInv, FrameInv, ThirdInv, CountInv', NEW n, Quiet(n)
  PROVE  ThirdInv'
BY QuietHandlers, QuietReady, QuietRoom DEF ThirdInv

-----------------------------------------------------------------------------
(* The shapes of the steps.                                                *)
LEMMA OwnStay ==
  ASSUME CountInv, NEW t, Update(t), cstack' = cstack
  PROVE  Own(Len(cstack)) /\ T = t
<1>1. StackFacts
  BY StackPrimed
<1>. QED  BY <1>1 DEF Own, Moves, T, Update, StackFacts

LEMMA OwnPush ==
  ASSUME CountInv, NEW t, Update(t), NEW b \in Activation, b.th = Running, cstack' = Append(cstack, b)
  PROVE  /\ Own(Len(cstack)) /\ T = t /\ Len(cstack') = Len(cstack) + 1
         /\ cstack'[Len(cstack) + 1] = b /\ Top' = b
<1>1. StackFacts
  BY StackPrimed
<1>2. /\ Len(cstack') = Len(cstack) + 1 /\ cstack'[Len(cstack) + 1] = b
      /\ \A j \in 1 .. Len(cstack) : cstack'[j] = cstack[j]
  BY <1>1, Pushed DEF StackFacts
<1>3. Own(Len(cstack)) /\ T = t
  BY <1>1, <1>2 DEF Own, Moves, T, Update, StackFacts
<1>4. Top' = b
  BY <1>2 DEF Top
<1>. QED  BY <1>2, <1>3, <1>4

LEMMA OwnPush2 ==
  ASSUME CountInv, NEW t, Update(t), NEW b \in Activation, b.th = Running,
         NEW c \in Activation, c.th = Running, cstack' = Append(Append(cstack, b), c)
  PROVE  /\ Own(Len(cstack)) /\ T = t /\ Len(cstack') = Len(cstack) + 2
         /\ cstack'[Len(cstack) + 1] = b /\ cstack'[Len(cstack) + 2] = c /\ Top' = c
<1>1. StackFacts
  BY StackPrimed
<1>. DEFINE ds == Append(cstack, b)
<1>2. /\ ds \in Seq(Activation) /\ Len(ds) = Len(cstack) + 1 /\ ds[Len(cstack) + 1] = b
      /\ \A j \in 1 .. Len(cstack) : ds[j] = cstack[j]
  BY <1>1, Pushed DEF StackFacts
<1>. HIDE DEF ds
<1>3. /\ Len(cstack') = Len(ds) + 1 /\ cstack'[Len(ds) + 1] = c
      /\ \A j \in 1 .. Len(ds) : cstack'[j] = ds[j]
  BY <1>2, Pushed DEF ds
<1>4. /\ Len(cstack') = Len(cstack) + 2 /\ cstack'[Len(cstack) + 1] = b /\ cstack'[Len(cstack) + 2] = c
      /\ \A j \in 1 .. Len(cstack) : cstack'[j] = cstack[j]
  BY <1>1, <1>2, <1>3 DEF StackFacts
<1>5. Own(Len(cstack)) /\ T = t
  <2>1. \A j \in Len(cstack) + 1 .. Len(cstack') : cstack'[j].th = Running
    <3>1. \A j \in Len(cstack) + 1 .. Len(cstack') : j = Len(cstack) + 1 \/ j = Len(cstack) + 2
      BY <1>1, <1>4 DEF StackFacts
    <3>. QED  BY <1>4, <3>1
  <2>. QED  BY <1>1, <1>4, <2>1 DEF Own, Moves, T, Update, StackFacts
<1>6. Top' = c
  BY <1>4 DEF Top
<1>. QED  BY <1>4, <1>5, <1>6

LEMMA OwnCut ==
  ASSUME CountInv, NEW t, Update(t), NEW n \in 1 .. Len(cstack), cstack[n].th = Running,
         cstack' = SubSeq(cstack, 1, n)
  PROVE  Own(n) /\ T = t /\ Len(cstack') = n /\ Top' = cstack[n]
<1>1. StackFacts
  BY StackPrimed
<1>2. Len(cstack') = n /\ \A j \in 1 .. n : cstack'[j] = cstack[j]
  BY <1>1, Cut DEF StackFacts
<1>3. \A j \in n + 1 .. Len(cstack) : cstack[j].th = Running
  <2>1. \A j \in n .. Len(cstack) : cstack[j].th = cstack[Len(cstack)].th
    BY <1>1, Segment DEF StackFacts
  <2>. QED  BY <1>1, <2>1 DEF StackFacts
<1>4. Own(n) /\ T = t
  BY <1>1, <1>2, <1>3 DEF Own, Moves, T, Update, StackFacts
<1>5. Top' = cstack[n]
  BY <1>2 DEF Top
<1>. QED  BY <1>2, <1>4, <1>5

(* The thread that runs, with the same functions and the same handler.     *)
Calm(t) ==
  /\ t \in ThreadState /\ SameCalls(t, S) /\ t.errfunc = S.errfunc /\ t.big = S.big
  /\ t.status = S.status \/ t.status = "YIELD"

LEMMA QuietStay ==
  ASSUME CountInv, NEW t, Calm(t), Update(t), cstack' = cstack,
         ~Returning(Top, mode), ~Returning(Top, mode'), Handling(mode) => Handling(mode')
  PROVE  \E n : Quiet(n)
<1>1. Own(Len(cstack)) /\ T = t /\ StackFacts
  BY OwnStay, StackPrimed
<1>2. Top' = Top
  BY DEF Top
<1>. QED  BY <1>1, <1>2 DEF Quiet, Calm, StackFacts

LEMMA QuietPush ==
  ASSUME CountInv, NEW t, Calm(t), Update(t), NEW b \in Activation, b.th = Running, cstack' = Append(cstack, b),
         Put(b), MayContinue(t.ci, Top, b), b.kind = "hook" /\ Top.kind = "resume" => Returning(Top, mode),
         Returning(Top, mode) => b.kind = "hook", Handling(mode) => Handling(mode')
  PROVE  \E n : Quiet(n)
<1>1. /\ Own(Len(cstack)) /\ T = t /\ Len(cstack') = Len(cstack) + 1
      /\ cstack'[Len(cstack) + 1] = b /\ Top' = b /\ StackFacts
  BY OwnPush, StackPrimed
<1>2. ~Returning(Top', mode')
  BY <1>1 DEF Returning, Put
<1>. QED  BY <1>1, <1>2 DEF Quiet, Calm, StackFacts

LEMMA QuietPop ==
  ASSUME CountInv, NEW t, Calm(t), Update(t), cstack' = Pop, Popped(Top), ~Handling(mode),
         Top.kind = "hook" /\ Below.kind = "resume" => Returning(Below, mode'),
         Returning(Below, mode') => Top.kind = "hook"
  PROVE  \E n : Quiet(n)
<1>1. StackFacts
  BY StackPrimed
<1>. DEFINE n == Len(cstack) - 1
<1>2. n \in 1 .. Len(cstack) /\ Below = cstack[n] /\ Below.th = Running /\ Pop = SubSeq(cstack, 1, n)
  BY PopFacts DEF Popped
<1>3. Own(n) /\ T = t /\ Len(cstack') = n /\ Top' = cstack[n]
  BY <1>2, OwnCut
<1>4. n + 1 = Len(cstack) /\ n \in Nat /\ \A i \in n + 1 .. Len(cstack) : i = Len(cstack) /\ i - 1 = n
  BY <1>1, <1>2 DEF StackFacts
<1>5. ~Returning(Top, mode)
  BY DEF Popped, Returning
<1>. HIDE DEF n
<1>. QED  BY <1>1, <1>2, <1>3, <1>4, <1>5 DEF Quiet, Calm, StackFacts

Like(u, t) == u.ci = t.ci /\ u.errfunc = t.errfunc /\ u.big = t.big /\ u.status = t.status

LEMMA CalmSelf ==
  ASSUME CountInv
  PROVE  Calm(S) /\ S \in ThreadState
BY RunningFacts DEF Calm, SameCalls

LEMMA CalmMore ==
  ASSUME NEW t, Calm(t), NEW u \in ThreadState, Like(u, t)
  PROVE  Calm(u)
BY DEF Calm, SameCalls, Like

LEMMA SetFrameIs ==
  ASSUME CountInv, FrameInv, NEW f \in Frame
  PROVE  LET t == SetFrame(S, f)
         IN /\ t \in ThreadState /\ t.errfunc = S.errfunc /\ t.big = S.big /\ t.status = S.status
            /\ Len(t.ci) = Depth /\ t.ci[Depth] = f /\ S.ci[Depth] = CurrentCI
            /\ \A x \in 1 .. Depth : x /= Depth => t.ci[x] = S.ci[x]
            /\ Depth \in Nat \ {0} /\ Depth = Len(S.ci) /\ CurrentCI \in Frame
            /\ t.nCcalls = S.nCcalls
<1>. DEFINE t == SetFrame(S, f)
<1>1. S \in ThreadState /\ S.ci \in Seq(Frame) /\ Len(S.ci) \in Nat \ {0} /\ Depth = Len(S.ci)
  BY RunningFacts, FrameInvFacts
<1>2. /\ [S.ci EXCEPT ![Len(S.ci)] = f] \in Seq(Frame)
      /\ DOMAIN [S.ci EXCEPT ![Len(S.ci)] = f] = DOMAIN S.ci
      /\ Len([S.ci EXCEPT ![Len(S.ci)] = f]) = Len(S.ci)
  BY <1>1
<1>3. t \in ThreadState /\ t.ci = [S.ci EXCEPT ![Depth] = f]
  BY <1>1, <1>2 DEF SetFrame, ThreadState
<1>4. t.errfunc = S.errfunc /\ t.big = S.big /\ t.status = S.status /\ t.nCcalls = S.nCcalls
  BY <1>1 DEF SetFrame, ThreadState
<1>. HIDE DEF t
<1>5. /\ DOMAIN t.ci = 1 .. Depth /\ Len(t.ci) = Depth /\ t.ci[Depth] = f
      /\ S.ci[Depth] = CurrentCI /\ CurrentCI \in Frame
      /\ \A x \in 1 .. Depth : x /= Depth => t.ci[x] = S.ci[x]
  BY <1>1, <1>3 DEF CurrentCI
<1>. QED  BY <1>1, <1>3, <1>4, <1>5 DEF t

LEMMA CalmFrame ==
  ASSUME CountInv, FrameInv, NEW f \in Frame, f.lua = CurrentCI.lua, f.yp = CurrentCI.yp,
         f.oerr = CurrentCI.oerr, CurrentCI.k => f.k
  PROVE  Calm(SetFrame(S, f))
<1>. DEFINE t == SetFrame(S, f)
<1>1. /\ t \in ThreadState /\ t.errfunc = S.errfunc /\ t.big = S.big /\ t.status = S.status
      /\ Len(t.ci) = Depth /\ t.ci[Depth] = f /\ S.ci[Depth] = CurrentCI
      /\ \A x \in 1 .. Depth : x /= Depth => t.ci[x] = S.ci[x]
      /\ Depth = Len(S.ci)
  BY SetFrameIs
<1>. HIDE DEF t
<1>2. SameCalls(t, S)
  BY <1>1 DEF SameCalls
<1>. QED  BY <1>1, <1>2 DEF Calm, t

(* What luaD_call does.                                                    *)
Called(s, stack, noyield, yp, t, b) ==
  /\ t \in ThreadState /\ Update(t) /\ Like(t, s) /\ t.nCcalls = s.nCcalls + 1
  /\ b \in Activation /\ cstack' = Append(stack, b)
  /\ b.kind = "call" /\ b.th = Running /\ b.ci = Len(s.ci) /\ b.noyield = noyield /\ b.yp = yp
  /\ mode' \in {"errormsg", "ERRERR", "precall"}

LEMMA DCallOwn ==
  ASSUME CountInv, NEW s \in ThreadState, NEW stack, NEW noyield \in BOOLEAN, NEW yp \in BOOLEAN,
         DCall(s, stack, noyield, yp)
  PROVE  \E t, b : Called(s, stack, noyield, yp, t, b)
<1>. DEFINE b == [kind |-> "call", th |-> Running, ci |-> Len(s.ci), noyield |-> noyield, yp |-> yp]
            t == [s EXCEPT !.nCcalls = s.nCcalls + 1, !.nny = IF noyield THEN @ + 1 ELSE @]
<1>1. s.ci \in Seq(Frame) /\ Len(s.ci) \in Nat /\ s.nny \in Int /\ s.nCcalls \in Int
  BY DEF ThreadState
<1>2. b \in Activation /\ b.kind = "call" /\ b.th = Running /\ b.ci = Len(s.ci) /\ b.noyield = noyield
      /\ b.yp = yp
  BY <1>1, RunningFacts DEF Activation
<1>3. (IF noyield THEN s.nny + 1 ELSE s.nny) \in Int /\ s.nCcalls + 1 \in Int
  BY <1>1
<1>4. t \in ThreadState
  BY <1>3 DEF ThreadState
<1>5. Like(t, s) /\ t.nCcalls = s.nCcalls + 1
  BY DEF ThreadState, Like
<1>6. Update(t) /\ cstack' = Append(stack, b) /\ mode' \in {"errormsg", "ERRERR", "precall"}
  BY DEF DCall
<1>. HIDE DEF t, b
<1>. QED  BY <1>2, <1>4, <1>5, <1>6 DEF Called

LEMMA QuietCall ==
  ASSUME CountInv, FrameInv, NEW s, Calm(s), NEW noyield \in BOOLEAN, DCall(s, cstack, noyield, FALSE),
         mode = "run", ~noyield /\ Top.kind = "cfun" => s.ci[Top.ci].k
  PROVE  \E n : Quiet(n)
<1>1. s \in ThreadState /\ Len(s.ci) = Depth
  BY FrameInvFacts DEF Calm, SameCalls
<1>2. PICK t, b : Called(s, cstack, noyield, FALSE, t, b)
  BY <1>1, DCallOwn
<1>3. Calm(t)
  BY <1>2, CalmMore DEF Called
<1>4. Put(b)
  BY <1>1, <1>2 DEF Put, Called
<1>5. MayContinue(t.ci, Top, b)
  BY <1>2 DEF MayContinue, Called, Like
<1>6. ~Returning(Top, mode) /\ ~Handling(mode)
  BY DEF Returning, Handling, ErrorStatus
<1>7. Update(t) /\ b \in Activation /\ b.th = Running /\ cstack' = Append(cstack, b) /\ b.kind = "call"
  BY <1>2 DEF Called
<1>. QED  BY <1>3, <1>4, <1>5, <1>6, <1>7, QuietPush

-----------------------------------------------------------------------------
(* The quiet steps.                                                        *)
LEMMA CallKQuiet ==
  ASSUME CountInv, FrameInv, NEW k \in BOOLEAN, CallK(k)
  PROVE  \E n : Quiet(n)
<1>1. Top.kind \in {"cfun", "hook"} /\ mode = "run" /\ (k => Top.kind = "cfun")
  BY DEF CallK, InC, UserHook, Body
<1>2. CASE k /\ S.nny = 0
  <2>. DEFINE f == [CurrentCI EXCEPT !.k = TRUE]
  <2>1. DCall(SetFrame(S, f), cstack, FALSE, FALSE)
    BY <1>2 DEF CallK
  <2>2. CurrentCI \in Frame /\ Depth = Len(S.ci)
    BY RunningFrames, FrameInvFacts
  <2>3. f \in Frame /\ f.lua = CurrentCI.lua /\ f.yp = CurrentCI.yp /\ f.oerr = CurrentCI.oerr /\ f.k
    BY <2>2 DEF Frame
  <2>. HIDE DEF f
  <2>4. Calm(SetFrame(S, f))
    BY <2>3, CalmFrame
  <2>5. SetFrame(S, f).ci[Top.ci].k
    BY <1>1, <1>2, <2>3, SetFrameIs, TopFrame
  <2>. QED  BY <1>1, <2>1, <2>4, <2>5, QuietCall
<1>3. CASE ~(k /\ S.nny = 0)
  <2>1. DCall(S, cstack, TRUE, FALSE)
    BY <1>3 DEF CallK
  <2>. QED  BY <1>1, <2>1, CalmSelf, QuietCall
<1>. QED  BY <1>2, <1>3

LEMMA MetamethodsQuiet ==
  ASSUME CountInv, FrameInv, Metamethod \/ ApiMetamethod \/ Reader
  PROVE  \E n : Quiet(n)
<1>1. PICK noyield \in BOOLEAN : DCall(S, cstack, noyield, FALSE)
  BY DEF Metamethod, ApiMetamethod, Reader
<1>2. mode = "run" /\ Top.kind /= "cfun"
  BY DEF Metamethod, ApiMetamethod, Reader, InLua, UserHook, InParser, Body
<1>. QED  BY <1>1, <1>2, CalmSelf, QuietCall

LEMMA SameUpdate ==
  ASSUME CountInv, state' = state
  PROVE  Update(S) /\ Calm(S)
BY CalmSelf, SameState

LEMMA ModesQuiet ==
  ASSUME CountInv, OpCall \/ Return \/ Error \/ HandlerDone
  PROVE  \E n : Quiet(n)
<1>1. cstack' = cstack /\ state' = state /\ mode = "run" /\ mode' \in {"precall", "ret", "errormsg", "ERRRUN"}
  BY DEF OpCall, Return, Error, HandlerDone, InCode, InC, UserHook, InLua, Body
<1>2. ~Returning(Top, mode) /\ ~Handling(mode)
  BY <1>1 DEF Returning, Handling, ErrorStatus
<1>3. ~Returning(Top, mode')
  BY DEF Returning, OpCall, Return, Error, HandlerDone, InCode, InC, UserHook, InLua, Body
<1>. QED  BY <1>1, <1>2, <1>3, SameUpdate, QuietStay

LEMMA PrecallFailsQuiet ==
  ASSUME CountInv, FrameInv, PrecallFails
  PROVE  \E n : Quiet(n)
<1>1. mode = "precall" /\ cstack' = cstack /\ mode' \in {"errormsg", "ERRERR"}
  BY DEF PrecallFails
<1>2. ~Returning(Top, mode) /\ ~Returning(Top, mode') /\ ~Handling(mode) /\ Handling(mode')
  BY <1>1 DEF Returning, Handling, ErrorStatus
<1>3. CASE state' = state
  BY <1>1, <1>2, <1>3, SameUpdate, QuietStay
<1>4. CASE state' /= state
  <2>. DEFINE t == [S EXCEPT !.big = TRUE]
  <2>1. Update(t) /\ Depth >= MAXFRAMES
    BY <1>4 DEF PrecallFails
  <2>2. t.ci = S.ci /\ t.errfunc = S.errfunc /\ t.status = S.status
    BY RunningFacts DEF ThreadState
  <2>. HIDE DEF t
  <2>3. Own(Len(cstack)) /\ T = t /\ StackFacts /\ Top' = Top
    BY <1>1, <2>1, OwnStay, StackPrimed DEF Top
  <2>4. SameCalls(T, S)
    BY <2>2, <2>3 DEF SameCalls
  <2>. QED  BY <1>1, <1>2, <2>1, <2>2, <2>3, <2>4 DEF Quiet, StackFacts
<1>. QED  BY <1>3, <1>4

LEMMA HooksSetQuiet ==
  ASSUME CountInv, (\E h \in {"none", "user"} : SetHook(h)) \/ Lstop
  PROVE  \E n : Quiet(n)
<1>1. PICK h \in {"none", "user"} : Update([S EXCEPT !.hook = h])
  BY DEF SetHook, Lstop
<1>. DEFINE t == [S EXCEPT !.hook = h]
<1>2. t \in ThreadState /\ Like(t, S)
  BY RunningFacts DEF ThreadState, Like, Hooks
<1>3. mode = "run" /\ cstack' = cstack /\ Top.kind /= "resume"
  BY DEF SetHook, Lstop, Body
<1>4. ~Returning(Top, mode) /\ ~Returning(Top, mode') /\ ~Handling(mode)
  BY <1>3 DEF Returning, Handling, ErrorStatus
<1>. HIDE DEF t
<1>5. Update(t) /\ Calm(t)
  BY <1>1, <1>2, CalmSelf, CalmMore DEF t
<1>. QED  BY <1>3, <1>4, <1>5, QuietStay

(* A hook starts.                                                          *)
LEMMA HookQuiet ==
  ASSUME CountInv, FrameInv, Update([S EXCEPT !.allowhook = FALSE]), NEW ev \in {"call", "ret", "count"},
         cstack' = Append(cstack, HookAct(Depth, ev)), ~Handling(mode), Top.kind = "resume" => Returning(Top, mode)
  PROVE  \E n : Quiet(n)
<1>. DEFINE t == [S EXCEPT !.allowhook = FALSE]  b == HookAct(Depth, ev)
<1>1. t \in ThreadState /\ Like(t, S)
  BY RunningFacts DEF ThreadState, Like
<1>2. Depth \in Nat
  BY FrameInvFacts
<1>3. b \in Activation /\ b.kind = "hook" /\ b.th = Running /\ b.ci = Depth
  BY <1>2, HookActOK
<1>. HIDE DEF t, b
<1>4. Update(t) /\ Calm(t)
  BY <1>1, CalmSelf, CalmMore DEF t
<1>5. Put(b) /\ MayContinue(t.ci, Top, b) /\ cstack' = Append(cstack, b)
  BY <1>3 DEF Put, MayContinue, b
<1>. QED  BY <1>3, <1>4, <1>5, QuietPush

LEMMA ReturnHookQuiet ==
  ASSUME CountInv, FrameInv, ReturnHook
  PROVE  \E n : Quiet(n)
<1>1. mode = "ret" /\ ~Handling(mode) /\ cstack' = Append(cstack, HookAct(Depth, "ret"))
      /\ Update([S EXCEPT !.allowhook = FALSE])
  BY DEF ReturnHook, Handling, ErrorStatus
<1>. QED  BY <1>1, HookQuiet DEF Returning

LEMMA CountHookQuiet ==
  ASSUME CountInv, FrameInv, CountHook
  PROVE  \E n : Quiet(n)
<1>1. mode = "run" /\ mode' = "run" /\ Top.kind = "exec" /\ ~Handling(mode)
  BY DEF CountHook, Body, Handling, ErrorStatus
<1>2. CASE CurrentCI.hookyield
  <2>. DEFINE f == [CurrentCI EXCEPT !.hookyield = FALSE]
  <2>1. Update(SetFrame(S, f)) /\ cstack' = cstack
    BY <1>2 DEF CountHook
  <2>2. CurrentCI \in Frame
    BY RunningFrames, FrameInvFacts
  <2>3. f \in Frame /\ f.lua = CurrentCI.lua /\ f.yp = CurrentCI.yp /\ f.oerr = CurrentCI.oerr /\ f.k = CurrentCI.k
    BY <2>2 DEF Frame
  <2>. HIDE DEF f
  <2>4. Calm(SetFrame(S, f))
    BY <2>3, CalmFrame
  <2>. QED  BY <1>1, <2>1, <2>4, QuietStay DEF Returning
<1>3. CASE ~CurrentCI.hookyield
  <2>1. cstack' = Append(cstack, HookAct(Depth, "count")) /\ Update([S EXCEPT !.allowhook = FALSE])
    BY <1>3 DEF CountHook
  <2>. QED  BY <1>1, <2>1, HookQuiet
<1>. QED  BY <1>2, <1>3

LEMMA EnterLevelQuiet ==
  ASSUME CountInv, FrameInv, EnterLevel
  PROVE  \E n : Quiet(n)
<1>. DEFINE t == [S EXCEPT !.nCcalls = S.nCcalls + 1]  b == Kind("level", Depth)
<1>1. Update(t) /\ cstack' = Append(cstack, b) /\ mode = "run" /\ Top.kind \in {"parser", "level"}
  BY DEF EnterLevel, InParser, Body
<1>2. t \in ThreadState /\ Like(t, S)
  <2>1. S.nCcalls + 1 \in Int
    BY RunningFacts DEF ThreadState
  <2>. QED  BY <2>1, RunningFacts DEF ThreadState, Like
<1>3. b \in Activation /\ b.kind = "level" /\ b.th = Running /\ b.ci = Depth
  BY FrameInvFacts, BodyAct
<1>. HIDE DEF t, b
<1>4. Calm(t)
  BY <1>2, CalmSelf, CalmMore
<1>5. Put(b) /\ MayContinue(t.ci, Top, b)
  BY <1>3 DEF Put, MayContinue
<1>6. ~Returning(Top, mode) /\ ~Handling(mode)
  BY <1>1 DEF Returning, Handling, ErrorStatus
<1>. QED  BY <1>1, <1>3, <1>4, <1>5, <1>6, QuietPush

LEMMA ErrorMsgQuiet ==
  ASSUME CountInv, FrameInv, ErrorMsg
  PROVE  \E n : Quiet(n)
<1>1. mode = "errormsg" /\ ~Returning(Top, mode)
  BY DEF ErrorMsg, Returning
<1>2. CASE S.errfunc = 0
  <2>1. mode' = "ERRRUN" /\ state' = state /\ cstack' = cstack
    BY <1>2 DEF ErrorMsg
  <2>2. ~Returning(Top, mode') /\ Handling(mode')
    BY <2>1 DEF Returning, Handling, ErrorStatus
  <2>. QED  BY <1>1, <2>1, <2>2, SameUpdate, QuietStay
<1>3. CASE S.errfunc /= 0
  <2>. DEFINE b == Kind("errormsg", Depth)
  <2>1. DCall(S, Append(cstack, b), TRUE, FALSE)
    BY <1>3 DEF ErrorMsg
  <2>2. b \in Activation /\ b.kind = "errormsg" /\ b.th = Running /\ b.ci = Depth
    BY FrameInvFacts, RunningFacts DEF Kind, Activation
  <2>. HIDE DEF b
  <2>3. PICK t, c : Called(S, Append(cstack, b), TRUE, FALSE, t, c)
    BY <2>1, CalmSelf, DCallOwn
  <2>4. /\ c \in Activation /\ c.th = Running /\ c.kind = "call" /\ ~c.yp /\ c.ci = Depth /\ Update(t)
        /\ cstack' = Append(Append(cstack, b), c)
    BY <2>3, FrameInvFacts DEF Called
  <2>5. /\ Own(Len(cstack)) /\ T = t /\ Len(cstack') = Len(cstack) + 2
        /\ cstack'[Len(cstack) + 1] = b /\ cstack'[Len(cstack) + 2] = c /\ Top' = c
    BY <2>2, <2>4, OwnPush2
  <2>6. Calm(t)
    BY <2>3, CalmSelf, CalmMore DEF Called
  <2>7. \A i \in Len(cstack) + 1 .. Len(cstack') : Put(cstack'[i])
    <3>1. \A i \in Len(cstack) + 1 .. Len(cstack') : i = Len(cstack) + 1 \/ i = Len(cstack) + 2
      BY <2>5, StackPrimed DEF StackFacts
    <3>. QED  BY <2>2, <2>4, <2>5, <3>1 DEF Put
  <2>8. MayContinue(T.ci, Top, b) /\ ~Returning(Top', mode')
    BY <2>2, <2>4, <2>5 DEF MayContinue, Returning
  <2>9. Len(cstack) \in Nat
    BY StackPrimed DEF StackFacts
  <2>. QED  BY <1>1, <2>2, <2>5, <2>6, <2>7, <2>8, <2>9 DEF Quiet, Calm
<1>. QED  BY <1>2, <1>3

(* An activation other than a hook ends.                                   *)
LEMMA PopQuiet ==
  ASSUME CountInv, NEW t \in ThreadState, Like(t, S), Update(t), cstack' = Pop, Popped(Top), mode = "run",
         mode' = "run", Top.kind /= "hook"
  PROVE  \E n : Quiet(n)
<1>1. Calm(t)
  BY CalmSelf, CalmMore
<1>2. ~Handling(mode) /\ ~Returning(Below, mode')
  BY DEF Handling, ErrorStatus, Returning
<1>. QED  BY <1>1, <1>2, QuietPop

LEMMA CallDoneQuiet ==
  ASSUME CountInv, CallDone, ~Top.yp
  PROVE  \E n : Quiet(n)
<1>. DEFINE s == [S EXCEPT !.nCcalls = @ - 1, !.nny = IF Top.noyield THEN @ - 1 ELSE @]
<1>1. Top.kind = "call" /\ mode = "run" /\ cstack' = Pop /\ mode' = mode
  BY DEF CallDone, Body
<1>2. Update(s)
  BY DEF CallDone
<1>3. S.nCcalls - 1 \in Int /\ (IF Top.noyield THEN S.nny - 1 ELSE S.nny) \in Int
  BY RunningFacts DEF ThreadState
<1>4. s \in ThreadState /\ Like(s, S)
  BY <1>3, RunningFacts DEF ThreadState, Like
<1>. HIDE DEF s
<1>. QED  BY <1>1, <1>2, <1>4, PopQuiet DEF Popped

LEMMA DonesQuiet ==
  ASSUME CountInv, FinalizerDone \/ LeaveLevel \/ LoadDone
  PROVE  \E n : Quiet(n)
<1>1. /\ Top.kind \in {"gctm", "level", "load"} /\ mode = "run" /\ cstack' = Pop /\ mode' = mode
  BY DEF FinalizerDone, LeaveLevel, LoadDone, Body
<1>2. CASE FinalizerDone
  <2>. DEFINE t == [S EXCEPT !.allowhook = Top.oah]
  <2>1. Top.oah \in BOOLEAN
    BY <1>2, SavedFacts DEF FinalizerDone, Body, HooksOn
  <2>2. t \in ThreadState /\ Like(t, S) /\ Update(t)
    BY <1>2, <2>1, RunningFacts DEF FinalizerDone, ThreadState, Like
  <2>. HIDE DEF t
  <2>. QED  BY <1>1, <2>2, PopQuiet DEF Popped
<1>3. CASE LeaveLevel
  <2>. DEFINE t == [S EXCEPT !.nCcalls = S.nCcalls - 1]
  <2>1. S.nCcalls - 1 \in Int /\ Update(t)
    BY <1>3, RunningFacts DEF LeaveLevel
  <2>2. t \in ThreadState /\ Like(t, S)
    BY <2>1, RunningFacts DEF ThreadState, Like
  <2>. HIDE DEF t
  <2>. QED  BY <1>1, <2>1, <2>2, PopQuiet DEF Popped
<1>4. CASE LoadDone
  <2>. DEFINE t == [S EXCEPT !.nny = S.nny - 1]
  <2>1. S.nny - 1 \in Int /\ Update(t)
    BY <1>4, RunningFacts DEF LoadDone
  <2>2. t \in ThreadState /\ Like(t, S)
    BY <2>1, RunningFacts DEF ThreadState, Like
  <2>. HIDE DEF t
  <2>. QED  BY <1>1, <2>1, <2>2, PopQuiet DEF Popped
<1>. QED  BY <1>2, <1>3, <1>4

LEMMA ParserEndsQuiet ==
  ASSUME CountInv, ParserEnds
  PROVE  \E n : Quiet(n)
<1>1. Top.kind \in {"parser", "level"} /\ mode = "run" /\ state' = state
  BY DEF ParserEnds, InParser, Body
<1>2. S \in ThreadState /\ Like(S, S) /\ Update(S) /\ Calm(S)
  BY <1>1, SameUpdate DEF Like, Calm
<1>3. CASE Top.kind = "parser" /\ cstack' = Pop /\ mode' = mode
  BY <1>1, <1>2, <1>3, PopQuiet DEF Popped
<1>4. CASE mode' = "ERRSYNTAX" /\ cstack' = cstack
  <2>1. ~Returning(Top, mode) /\ ~Returning(Top, mode') /\ Handling(mode')
    BY <1>1, <1>4 DEF Returning, Handling, ErrorStatus
  <2>. QED  BY <1>2, <1>4, <2>1, QuietStay
<1>. QED  BY <1>3, <1>4 DEF ParserEnds, Body

LEMMA HookDoneQuiet ==
  ASSUME CountInv, HookDone
  PROVE  \E n : Quiet(n)
<1>. DEFINE s == [S EXCEPT !.allowhook = TRUE]
<1>1. /\ Top.kind = "hook" /\ mode = "run" /\ Update(s) /\ cstack' = Pop
      /\ mode' = (IF Top.ev = "ret" THEN "poscall" ELSE "run")
  BY DEF HookDone, UserHook, Body
<1>2. s \in ThreadState /\ Like(s, S)
  BY RunningFacts DEF ThreadState, Like
<1>. HIDE DEF s
<1>3. Calm(s)
  BY <1>2, CalmSelf, CalmMore
<1>4. Below.kind = "resume" => Returning(Below, mode')
  <2>1. Made(Below, Top)
    BY <1>1, PopFacts
  <2>. QED  BY <1>1, <2>1 DEF Made, Returning
<1>. QED  BY <1>1, <1>3, <1>4, QuietPop DEF Popped, Handling, ErrorStatus

LEMMA YieldInHookQuiet ==
  ASSUME CountInv, FrameInv, YieldInHook
  PROVE  \E n : Quiet(n)
<1>. DEFINE f == [CurrentCI EXCEPT !.hookyield = TRUE]
            t == [SetFrame(S, f) EXCEPT !.status = "YIELD", !.allowhook = TRUE]
<1>1. /\ mode = "run" /\ mode' = "YIELD" /\ Top.kind = "hook" /\ Top.ev = "count" /\ cstack' = Pop
      /\ Update(t)
  BY DEF YieldInHook, UserHook, Body
<1>2. CurrentCI \in Frame
  BY RunningFrames, FrameInvFacts
<1>3. f \in Frame /\ f.lua = CurrentCI.lua /\ f.yp = CurrentCI.yp /\ f.oerr = CurrentCI.oerr /\ f.k = CurrentCI.k
  BY <1>2 DEF Frame
<1>. HIDE DEF f
<1>4. Calm(SetFrame(S, f))
  BY <1>3, CalmFrame
<1>5. /\ t \in ThreadState /\ t.ci = SetFrame(S, f).ci /\ t.errfunc = SetFrame(S, f).errfunc
      /\ t.big = SetFrame(S, f).big /\ t.status = "YIELD"
  BY <1>4 DEF Calm, ThreadState
<1>. HIDE DEF t
<1>6. Calm(t)
  BY <1>4, <1>5 DEF Calm, SameCalls
<1>7. Made(Below, Top)
  BY <1>1, PopFacts
<1>8. Below.kind /= "resume" /\ ~Returning(Below, mode')
  BY <1>1, <1>7 DEF Made, Returning
<1>. QED  BY <1>1, <1>6, <1>8, QuietPop DEF Popped, Handling, ErrorStatus

-----------------------------------------------------------------------------
(* The steps that change the functions or the protected calls.             *)
NewCi == Len(T.ci)

LEMMA NewFrames ==
  ASSUME CountInv, CountInv', FrameInv', NEW n, Own(n)
  PROVE  /\ \A i \in 1 .. Len(cstack') : cstack'[i].th = Running => cstack'[i].ci \in 1 .. NewCi
         /\ NewCi \in Nat
         /\ \A i \in n .. Len(cstack') : cstack'[i].ci \in 1 .. NewCi
         /\ Suspended(T.ci) \subseteq 1 .. NewCi
         /\ \A d \in Suspended(T.ci) : d > 1 /\ d \notin LuaFrames(T.ci)
<1>1. \A i \in 1 .. Len(cstack') : cstack'[i].ci \in 1 .. Len(state'[cstack'[i].th].ci)
  BY DEF FrameInv, FramesOK, FramesExist
<1>2. \A i \in 1 .. Len(cstack') : cstack'[i].th = Running => cstack'[i].ci \in 1 .. NewCi
  BY <1>1 DEF NewCi, T
<1>3. T \in ThreadState /\ T.ci \in Seq(Frame)
  BY OwnFacts DEF ThreadState
<1>4. \A i \in n .. Len(cstack') : i \in 1 .. Len(cstack') /\ cstack'[i].th = Running
  BY OwnFacts, MovesFacts DEF Own
<1>5. FrameOK(T.ci)
  <2>1. Running \in Threads
    BY OwnFacts
  <2>. QED  BY <2>1 DEF FrameInv, FramesOK, T
<1>. QED  BY <1>2, <1>3, <1>4, <1>5 DEF NewCi, Suspended, FrameOK

(* The suspended calls stay as they are.                                   *)
LEMMA HandlersKept ==
  ASSUME CountInv, CountInv', HandlersInv, NEW n, Own(n), Suspended(T.ci) = Suspended(S.ci),
         \A d \in Suspended(S.ci) : T.ci[d].oerr = S.ci[d].oerr,
         T.errfunc \in HandlerFrames(T.ci, cstack', Running, Len(cstack')),
         \A i \in n + 1 .. Len(cstack') : Older(T.ci, cstack', i),
         \A i \in n + 1 .. Len(cstack') : Waits(T.ci, cstack'[i - 1], cstack'[i]),
         Rests(T, Top', mode')
  PROVE  HandlersInv'
<1>0. n \in Nat \ {0}
  BY OwnFacts
<1>1. ASSUME NEW i \in 1 .. Len(cstack'), cstack'[i].th = Running PROVE Older(T.ci, cstack', i)
  BY <1>0, <1>1, KeptHandlers
<1>2. ASSUME NEW i \in 2 .. Len(cstack'), cstack'[i - 1].th = Running
      PROVE  Waits(T.ci, cstack'[i - 1], cstack'[i])
  BY <1>0, <1>2, KeptHandlers
<1>3. ErrfuncOK(T, cstack', Running)
  <2>1. ErrfuncOK(S, cstack, Running)
    BY RunningHandlers
  <2>. QED  BY <2>1, OwnFacts DEF ErrfuncOK
<1>. QED  BY <1>1, <1>2, <1>3, OwnHandlers

(* A suspended call is made or ends: no other is on the C stack.           *)
LEMMA HandlersMoved ==
  ASSUME CountInv, CountInv', HandlersInv, NEW n, Own(n),
         \A j \in 1 .. n : cstack[j].th = Running => cstack[j].kind \in Bodies \union {"call", "resume"},
         \A j \in 1 .. n - 1 : cstack[j].th = Running /\ cstack[j].kind = "cfun" =>
           (cstack[j].ci \in Suspended(T.ci) <=> cstack[j].ci \in Suspended(S.ci)),
         T.errfunc \in {0} \union Suspended(T.ci),
         \A d \in Suspended(T.ci) : T.ci[d].oerr \in {0} \union {e \in Suspended(T.ci) : e < d},
         \A i \in n + 1 .. Len(cstack') : Older(T.ci, cstack', i),
         \A i \in n + 1 .. Len(cstack') : Waits(T.ci, cstack'[i - 1], cstack'[i]),
         Rests(T, Top', mode')
  PROVE  HandlersInv'
<1>0. n \in Nat \ {0}
  BY OwnFacts
<1>1. ASSUME NEW i \in 1 .. Len(cstack'), cstack'[i].th = Running PROVE Older(T.ci, cstack', i)
  <2>1. CASE i <= n
    <3>1. i \in 1 .. Len(cstack) /\ cstack'[i] = cstack[i] /\ \A j \in 1 .. i : cstack'[j] = cstack[j]
      BY <1>0, <2>1, OwnCi
    <3>2. Older(S.ci, cstack, i) /\ cstack[i].kind /= "pcall"
      BY <1>0, <1>1, <2>1, <3>1, RunningHandlers DEF Bodies
    <3>3. Older(T.ci, cstack, i)
      BY <3>2 DEF Older
    <3>. QED  BY <3>1, <3>3, OlderPrefix
  <2>2. CASE i > n
    BY <1>0, <2>2
  <2>. QED  BY <1>0, <2>1, <2>2
<1>2. ASSUME NEW i \in 2 .. Len(cstack'), cstack'[i - 1].th = Running
      PROVE  Waits(T.ci, cstack'[i - 1], cstack'[i])
  <2>1. CASE i <= n
    <3>1. i \in 2 .. Len(cstack) /\ cstack'[i] = cstack[i] /\ cstack'[i - 1] = cstack[i - 1]
          /\ i - 1 \in 1 .. n - 1
      BY <1>0, <2>1, OwnCi
    <3>2. Waits(S.ci, cstack[i - 1], cstack[i])
      BY <1>2, <3>1, RunningHandlers
    <3>3. cstack[i].kind /= "hook" \/ cstack[i - 1].kind /= "resume"
      <4>1. CASE cstack[i].th = Running
        BY <1>0, <2>1, <4>1 DEF Bodies
      <4>2. CASE cstack[i].th /= Running
        <5>1. Made(cstack[i - 1], cstack[i])
          BY <3>1, StackPrimed DEF StackFacts, StackOK
        <5>. QED  BY <1>2, <3>1, <4>2, <5>1 DEF Made
      <4>. QED  BY <4>1, <4>2
    <3>. QED  BY <1>2, <3>1, <3>2, <3>3 DEF Waits
  <2>2. CASE i > n
    BY <1>0, <2>2
  <2>. QED  BY <1>0, <2>1, <2>2
<1>3. ErrfuncOK(T, cstack', Running)
  BY OwnFacts DEF ErrfuncOK, HandlerFrames
<1>. QED  BY <1>1, <1>2, <1>3, OwnHandlers

(* The functions that are left have their continuations.                   *)
LEMMA ReadyKept ==
  ASSUME CountInv, CountInv', FrameInv, FrameInv', ReadyInv, NEW n, Own(n),
         \A d \in 1 .. NewCi : d <= Depth => /\ d \in LuaFrames(T.ci) <=> d \in LuaFrames(S.ci)
                                             /\ S.ci[d].k => T.ci[d].k,
         \A j \in n + 1 .. Len(cstack) : cstack[j].kind = "cfun" =>
           cstack[j].ci > NewCi \/ T.ci[cstack[j].ci].k \/ InUse(cstack', Running, cstack[j].ci),
         \A j \in n + 1 .. Len(cstack) : cstack[j].kind = "hook" => cstack[j - 1].kind /= "resume",
         \A i \in n + 1 .. Len(cstack') : MayContinue(T.ci, cstack'[i - 1], cstack'[i]),
         \A d \in 1 .. NewCi : d > Depth => d \in LuaFrames(T.ci) \/ InUse(cstack', Running, d),
         \A e \in Suspended(T.ci) : e \in Suspended(S.ci) \/ \A d \in CFrames(T.ci, e - 1) : T.ci[d].k,
         S.status = "YIELD" \/ Returning(Top, mode) => NewCi < Depth
  PROVE  ReadyInv'
<1>0. n \in Nat \ {0} /\ NewCi \in Nat /\ Depth \in Nat /\ Depth = Len(S.ci)
  BY OwnFacts, NewFrames, FrameInvFacts
<1>1. ASSUME NEW i \in 2 .. Len(cstack'), cstack'[i - 1].th = Running
      PROVE  MayContinue(T.ci, cstack'[i - 1], cstack'[i])
  <2>1. CASE i <= n
    <3>1. i \in 2 .. Len(cstack) /\ cstack'[i] = cstack[i] /\ cstack'[i - 1] = cstack[i - 1]
          /\ i - 1 \in 1 .. Len(cstack) /\ i - 1 \in 1 .. Len(cstack')
      BY <1>0, <2>1, OwnCi
    <3>2. MayContinue(S.ci, cstack[i - 1], cstack[i])
      BY <1>1, <3>1, RunningReady
    <3>3. cstack[i - 1].ci \in 1 .. NewCi /\ cstack[i - 1].ci <= Depth
      BY <1>0, <1>1, <3>1, NewFrames, TopFrame
    <3>. QED  BY <3>1, <3>2, <3>3 DEF MayContinue
  <2>2. CASE i > n
    BY <1>0, <2>2
  <2>. QED  BY <1>0, <2>1, <2>2
<1>2. LeftOK(T, cstack', Running, mode')
  <2>0. LeftOK(S, cstack, Running, mode) /\ Last(cstack) = Top
    BY RunningReady, StackPrimed DEF StackFacts
  <2>1. ASSUME NEW d \in CFrames(T.ci, NewCi) PROVE T.ci[d].k \/ InUse(cstack', Running, d)
    <3>1. d \in 1 .. NewCi /\ d \in 2 .. NewCi /\ d \notin LuaFrames(T.ci)
      BY <1>0 DEF CFrames
    <3>2. CASE d > Depth
      BY <3>1, <3>2
    <3>3. CASE d <= Depth
      <4>1. d \in CFrames(S.ci, Len(S.ci))
        BY <1>0, <3>1, <3>3 DEF CFrames
      <4>2. CASE S.ci[d].k
        BY <3>1, <3>3, <4>2
      <4>3. CASE InUse(cstack, Running, d)
        <5>1. PICK j \in 2 .. Len(cstack) :
                /\ cstack[j].th = Running /\ cstack[j].ci = d
                /\ cstack[j].kind = "cfun" \/ (cstack[j].kind = "hook" /\ cstack[j - 1].kind = "resume")
          BY <4>3 DEF InUse
        <5>2. CASE j <= n
          <6>1. j \in 2 .. Len(cstack') /\ cstack'[j] = cstack[j] /\ cstack'[j - 1] = cstack[j - 1]
            <7>1. j \in 1 .. n /\ j \in 2 .. n
              BY <1>0, <5>2
            <7>. QED  BY <7>1, OwnCi
          <6>. QED  BY <5>1, <6>1 DEF InUse
        <5>3. CASE j > n
          <6>1. cstack[j].kind = "cfun" /\ j \in n + 1 .. Len(cstack)
            BY <1>0, <5>1, <5>3
          <6>. QED  BY <1>0, <3>1, <5>1, <6>1
        <5>. QED  BY <1>0, <5>2, <5>3
      <4>4. CASE d = Len(S.ci) /\ (S.status = "YIELD" \/ Returning(Top, mode))
        BY <1>0, <3>1, <4>4
      <4>. QED  BY <2>0, <4>1, <4>2, <4>3, <4>4 DEF LeftOK
    <3>. QED  BY <1>0, <3>1, <3>2, <3>3
  <2>2. ASSUME NEW e \in Suspended(T.ci), NEW d \in CFrames(T.ci, e - 1) PROVE T.ci[d].k
    <3>1. CASE e \in Suspended(S.ci)
      <4>1. e \in 1 .. NewCi /\ e \in 1 .. Depth
        <5>1. S.ci \in Seq(Frame)
          BY OwnFacts DEF ThreadState
        <5>. QED  BY <1>0, <3>1, <5>1, NewFrames DEF Suspended
      <4>2. d \in CFrames(S.ci, e - 1) /\ d \in 1 .. NewCi /\ d <= Depth
        BY <1>0, <4>1 DEF CFrames
      <4>. QED  BY <2>0, <3>1, <4>2 DEF LeftOK
    <3>. QED  BY <3>1
  <2>. QED  BY <2>1, <2>2 DEF LeftOK, NewCi
<1>. QED  BY <1>1, <1>2, OwnReady

(* The extra frames.                                                       *)
LEMMA EnoughFrames ==
  ASSUME CountInv, CountInv', FrameInv', NEW n, Own(n), Overflow(cstack', Running, Len(cstack'))
  PROVE  NewCi >= MAXFRAMES
<1>1. PICK e \in 1 .. Len(cstack') : cstack'[e].th = Running /\ cstack'[e].ci >= MAXFRAMES
  BY DEF Overflow
<1>2. cstack'[e].ci \in 1 .. NewCi /\ NewCi \in Nat
  BY <1>1, NewFrames
<1>. QED  BY <1>1, <1>2, LimitsAssumption

LEMMA RoomKept ==
  ASSUME CountInv, CountInv', FrameInv, FrameInv', RoomInv, NEW n, Own(n),
         \A j \in n + 1 .. Len(cstack) : cstack[j].kind /= "errormsg",
         ~Handling(mode), T.big => S.big, NewCi > MAXFRAMES => S.big \/ Depth > MAXFRAMES,
         \A d \in Suspended(T.ci) : d <= MAXFRAMES
  PROVE  RoomInv'
<1>0. n \in Nat \ {0} /\ n <= Len(cstack) /\ n <= Len(cstack') /\ Len(cstack) \in Nat /\ Len(cstack') \in Nat
      /\ Depth = Len(S.ci) /\ \A j \in 1 .. n : cstack'[j] = cstack[j]
  BY MovesFacts, FrameInvFacts DEF Own, Moves
<1>r. SizeOK(S, cstack, Running, mode)
  BY RunningRoom
<1>1. S.big \/ Depth > MAXFRAMES => Overflow(cstack, Running, Len(cstack))
  BY <1>0, <1>r DEF SizeOK
<1>2. Overflow(cstack, Running, Len(cstack)) => \A m \in Nat : m >= n => Overflow(cstack', Running, m)
  <2>. SUFFICES ASSUME Overflow(cstack, Running, Len(cstack)), NEW m \in Nat, m >= n
                PROVE  Overflow(cstack', Running, m)
    OBVIOUS
  <2>1. PICK e \in 1 .. Len(cstack) : cstack[e].kind = "errormsg" /\ cstack[e].th = Running /\ cstack[e].ci >= MAXFRAMES
    BY DEF Overflow
  <2>2. e \in 1 .. n /\ e \in 1 .. m
    BY <1>0, <2>1
  <2>. QED  BY <1>0, <2>1, <2>2 DEF Overflow
<1>3. ASSUME NEW i \in 1 .. Len(cstack'), i > n, cstack'[i].ci > MAXFRAMES
      PROVE  Overflow(cstack', Running, i - 1)
  <2>1. cstack'[i].ci \in 1 .. NewCi /\ NewCi \in Nat /\ i - 1 \in Nat /\ i - 1 >= n
    BY <1>0, <1>3, NewFrames
  <2>2. NewCi > MAXFRAMES
    BY <1>3, <2>1, LimitsAssumption
  <2>. QED  BY <1>1, <1>2, <2>1, <2>2
<1>4. T.big \/ NewCi > MAXFRAMES => Overflow(cstack', Running, Len(cstack'))
  BY <1>0, <1>1, <1>2
<1>5. T.big => Len(T.ci) >= MAXFRAMES
  BY <1>4, EnoughFrames DEF NewCi
<1>6. SizeOK(T, cstack', Running, mode')
  BY <1>4 DEF SizeOK, NewCi
<1>. QED  BY <1>3, <1>5, <1>6, OwnRoom


(* What is known of an own step.                                           *)
LEMMA OwnPlaces ==
  ASSUME CountInv, FrameInv, CountInv', NEW n, Own(n)
  PROVE  /\ n \in Nat \ {0} /\ n <= Len(cstack) /\ n <= Len(cstack') /\ Len(cstack) \in Nat /\ Len(cstack') \in Nat
         /\ n \in 1 .. Len(cstack) /\ n \in 1 .. Len(cstack')
         /\ \A j \in 1 .. n : cstack'[j] = cstack[j]
         /\ Top = cstack[Len(cstack)] /\ Top' = cstack'[Len(cstack')]
         /\ T.ci \in Seq(Frame) /\ S.ci \in Seq(Frame) /\ Depth = Len(S.ci) /\ NewCi = Len(T.ci)
         /\ Depth \in Nat \ {0} /\ NewCi \in Nat /\ DOMAIN T.ci = 1 .. NewCi /\ DOMAIN S.ci = 1 .. Depth
<1>1. /\ n \in Nat \ {0} /\ n <= Len(cstack) /\ n <= Len(cstack') /\ Len(cstack) \in Nat /\ Len(cstack') \in Nat
      /\ \A j \in 1 .. n : cstack'[j] = cstack[j]
  BY MovesFacts DEF Own, Moves
<1>2. Top = cstack[Len(cstack)] /\ Top' = cstack'[Len(cstack')]
  BY StackPrimed DEF StackFacts
<1>3. T \in ThreadState /\ S \in ThreadState
  BY OwnFacts
<1>4. T.ci \in Seq(Frame) /\ S.ci \in Seq(Frame)
  BY <1>3 DEF ThreadState
<1>5. Depth = Len(S.ci) /\ Depth \in Nat \ {0} /\ NewCi = Len(T.ci)
  BY FrameInvFacts DEF NewCi
<1>. QED  BY <1>1, <1>2, <1>4, <1>5

(* The function that is called gets its frame.                             *)
LEMMA PrecallShape ==
  ASSUME CountInv, FrameInv, Precall
  PROVE  \E lua \in BOOLEAN :
           /\ Own(Len(cstack)) /\ Len(T.ci) = Depth + 1 /\ \A d \in 1 .. Depth : T.ci[d] = S.ci[d]
           /\ T.ci[Depth + 1].lua = lua /\ ~T.ci[Depth + 1].yp
           /\ T.errfunc = S.errfunc /\ T.big = S.big
           /\ \A i \in Len(cstack) + 1 .. Len(cstack') :
                cstack'[i].ci = Depth + 1 /\ cstack'[i].kind \in Bodies \union {"hook"}
           /\ ~lua => Len(cstack') > Len(cstack) /\ cstack'[Len(cstack) + 1].kind = "cfun"
           /\ Top'.kind /= "cfun" \/ Top'.ci = Depth + 1
<1>1. mode = "precall" /\ mode' = "run" /\ Top.kind \in {"call", "exec", "resume"}
  BY RunningFacts DEF Precall, InMode
<1>2. PICK lua \in BOOLEAN :
        LET reentry == lua /\ Top.kind = "exec"
            acts == IF reentry THEN cstack ELSE Append(cstack, Kind(IF lua THEN "exec" ELSE "cfun", Depth + 1))
            s == [S EXCEPT !.ci = Append(@, NewFrame(lua, lua /\ ~reentry))]
        IN IF HookSet THEN /\ cstack' = Append(acts, HookAct(Depth + 1, "call"))
                           /\ Update([s EXCEPT !.allowhook = FALSE])
           ELSE cstack' = acts /\ Update(s)
  BY DEF Precall
<1>. DEFINE reentry == lua /\ Top.kind = "exec"
            fresh == lua /\ ~reentry
            b == Kind(IF lua THEN "exec" ELSE "cfun", Depth + 1)
            h == HookAct(Depth + 1, "call")
            s == [S EXCEPT !.ci = Append(@, NewFrame(lua, fresh))]
            t == [s EXCEPT !.allowhook = FALSE]
            acts == IF reentry THEN cstack ELSE Append(cstack, b)
<1>3. (cstack' = Append(acts, h) /\ Update(t)) \/ (cstack' = acts /\ Update(s))
  BY <1>2
<1>4. Depth + 1 \in Nat /\ Depth \in Nat \ {0} /\ Depth = Len(S.ci) /\ S.ci \in Seq(Frame)
  BY FrameInvFacts, RunningFacts
<1>5. b \in Activation /\ b.kind = (IF lua THEN "exec" ELSE "cfun") /\ b.th = Running /\ b.ci = Depth + 1
  BY <1>4, BodyAct DEF Bodies
<1>6. h \in Activation /\ h.kind = "hook" /\ h.th = Running /\ h.ci = Depth + 1
  BY <1>4, HookActOK
<1>7. fresh \in BOOLEAN
  OBVIOUS
<1>8. s \in ThreadState /\ s.ci = Append(S.ci, NewFrame(lua, fresh)) /\ s.errfunc = S.errfunc /\ s.big = S.big
  <2>1. s \in ThreadState /\ s.ci = Append(S.ci, NewFrame(lua, fresh))
    BY <1>7, NewFrameOK, RunningFacts DEF ThreadOK
  <2>2. s.errfunc = S.errfunc /\ s.big = S.big
    BY RunningFacts DEF ThreadState
  <2>. QED  BY <2>1, <2>2
<1>. HIDE DEF s
<1>9. t \in ThreadState /\ t.ci = s.ci /\ t.errfunc = s.errfunc /\ t.big = s.big
  BY <1>8 DEF ThreadState
<1>. HIDE DEF t
<1>10. ASSUME NEW u, u.ci = s.ci
       PROVE  /\ Len(u.ci) = Depth + 1 /\ \A d \in 1 .. Depth : u.ci[d] = S.ci[d]
              /\ u.ci[Depth + 1].lua = lua /\ ~u.ci[Depth + 1].yp
  <2>1. NewFrame(lua, fresh) \in Frame /\ NewFrame(lua, fresh).lua = lua /\ ~NewFrame(lua, fresh).yp
    BY <1>7 DEF NewFrame, Frame
  <2>. DEFINE f == NewFrame(lua, fresh)
  <2>. HIDE DEF f
  <2>2. u.ci = Append(S.ci, f) /\ f \in Frame /\ f.lua = lua /\ ~f.yp
    BY <1>8, <1>10, <2>1 DEF f
  <2>3. Len(Append(S.ci, f)) = Depth + 1 /\ Append(S.ci, f)[Depth + 1] = f
        /\ \A d \in 1 .. Depth : Append(S.ci, f)[d] = S.ci[d]
    BY <1>4, <2>2
  <2>. QED  BY <2>2, <2>3
<1>. HIDE DEF b, h, fresh
<1>11. CASE reentry
  <2>1. acts = cstack /\ lua /\ Top.kind = "exec"
    BY <1>11
  <2>2. CASE cstack' = Append(acts, h) /\ Update(t)
    <3>1. /\ Own(Len(cstack)) /\ T = t /\ Len(cstack') = Len(cstack) + 1
          /\ cstack'[Len(cstack) + 1] = h /\ Top' = h
      BY <1>6, <2>1, <2>2, OwnPush
    <3>2. \A i \in Len(cstack) + 1 .. Len(cstack') : i = Len(cstack) + 1
      BY <3>1, StackPrimed DEF StackFacts
    <3>3. WITNESS lua \in BOOLEAN
    <3>. QED  BY <1>6, <1>8, <1>9, <1>10, <2>1, <3>1, <3>2
  <2>3. CASE cstack' = acts /\ Update(s)
    <3>1. Own(Len(cstack)) /\ T = s /\ cstack' = cstack /\ Top' = Top
      BY <2>1, <2>3, OwnStay DEF Top
    <3>2. \A i \in Len(cstack) + 1 .. Len(cstack') : FALSE
      BY <3>1, StackPrimed DEF StackFacts
    <3>3. WITNESS lua \in BOOLEAN
    <3>. QED  BY <1>8, <1>10, <2>1, <3>1, <3>2
  <2>. QED  BY <1>3, <2>2, <2>3
<1>12. CASE ~reentry
  <2>1. acts = Append(cstack, b) /\ b.kind \in Bodies
    BY <1>5, <1>12 DEF Bodies
  <2>2. CASE cstack' = Append(acts, h) /\ Update(t)
    <3>1. /\ Own(Len(cstack)) /\ T = t /\ Len(cstack') = Len(cstack) + 2
          /\ cstack'[Len(cstack) + 1] = b /\ cstack'[Len(cstack) + 2] = h /\ Top' = h
      BY <1>5, <1>6, <2>1, <2>2, OwnPush2
    <3>2. \A i \in Len(cstack) + 1 .. Len(cstack') : i = Len(cstack) + 1 \/ i = Len(cstack) + 2
      BY <3>1, StackPrimed DEF StackFacts
    <3>3. Len(cstack') > Len(cstack)
      BY <3>1, StackPrimed DEF StackFacts
    <3>4. WITNESS lua \in BOOLEAN
    <3>. QED  BY <1>5, <1>6, <1>8, <1>9, <1>10, <2>1, <3>1, <3>2, <3>3
  <2>3. CASE cstack' = acts /\ Update(s)
    <3>1. /\ Own(Len(cstack)) /\ T = s /\ Len(cstack') = Len(cstack) + 1
          /\ cstack'[Len(cstack) + 1] = b /\ Top' = b
      BY <1>5, <2>1, <2>3, OwnPush
    <3>2. \A i \in Len(cstack) + 1 .. Len(cstack') : i = Len(cstack) + 1
      BY <3>1, StackPrimed DEF StackFacts
    <3>3. Len(cstack') > Len(cstack)
      BY <3>1, StackPrimed DEF StackFacts
    <3>4. WITNESS lua \in BOOLEAN
    <3>. QED  BY <1>5, <1>8, <1>10, <2>1, <3>1, <3>2, <3>3
  <2>. QED  BY <1>3, <2>2, <2>3
<1>. QED  BY <1>11, <1>12

LEMMA PrecallThird ==
  ASSUME CountInv, FrameInv, ThirdInv, CountInv', FrameInv', Precall
  PROVE  ThirdInv'
<1>. DEFINE n == Len(cstack)
<1>1. PICK lua \in BOOLEAN :
           /\ Own(n) /\ Len(T.ci) = Depth + 1 /\ \A d \in 1 .. Depth : T.ci[d] = S.ci[d]
           /\ T.ci[Depth + 1].lua = lua /\ ~T.ci[Depth + 1].yp
           /\ T.errfunc = S.errfunc /\ T.big = S.big
           /\ \A i \in n + 1 .. Len(cstack') :
                cstack'[i].ci = Depth + 1 /\ cstack'[i].kind \in Bodies \union {"hook"}
           /\ ~lua => Len(cstack') > n /\ cstack'[n + 1].kind = "cfun"
           /\ Top'.kind /= "cfun" \/ Top'.ci = Depth + 1
  BY PrecallShape
<1>2. mode = "precall" /\ mode' = "run" /\ Top.kind \in {"call", "exec", "resume"}
      /\ Depth < MAXFRAMES + (IF S.big THEN EXTRAFRAMES ELSE 0)
  BY RunningFacts DEF Precall, InMode
<1>3. /\ n \in Nat \ {0} /\ Len(cstack') \in Nat /\ n <= Len(cstack') /\ Top = cstack[n] /\ Depth \in Nat
      /\ \A j \in 1 .. n : cstack'[j] = cstack[j]
      /\ T.ci \in Seq(Frame) /\ S.ci \in Seq(Frame) /\ Depth = Len(S.ci) /\ NewCi = Depth + 1
  BY <1>1, OwnPlaces
<1>. HIDE DEF n
<1>4. DOMAIN T.ci = 1 .. Depth + 1 /\ DOMAIN S.ci = 1 .. Depth
  BY <1>1, <1>3
<1>5. /\ Suspended(T.ci) = Suspended(S.ci) /\ Depth + 1 \notin Suspended(T.ci)
      /\ \A d \in Suspended(S.ci) : T.ci[d].oerr = S.ci[d].oerr
  BY <1>1, <1>3, <1>4 DEF Suspended
<1>6. HandlersInv'
  <2>1. T.errfunc \in HandlerFrames(T.ci, cstack', Running, Len(cstack'))
    <3>1. S.errfunc \in HandlerFrames(S.ci, cstack, Running, n)
      BY RunningHandlers DEF ThirdInv, ErrfuncOK, n
    <3>2. PcallFrames(cstack, Running, Len(cstack)) \subseteq PcallFrames(cstack', Running, Len(cstack'))
      <4>1. \A j \in n + 1 .. Len(cstack) : cstack[j].kind = "pcall" => cstack[j].th /= Running
        BY <1>3 DEF n
      <4>. QED  BY <1>3, <4>1, PcallFramesKept DEF n
    <3>. QED  BY <1>1, <1>5, <3>1, <3>2 DEF HandlerFrames, n
  <2>2. \A i \in n + 1 .. Len(cstack') : Older(T.ci, cstack', i)
    BY <1>1 DEF Older, Bodies
  <2>3. ASSUME NEW i \in n + 1 .. Len(cstack') PROVE Waits(T.ci, cstack'[i - 1], cstack'[i])
    <3>1. cstack'[i].kind /= "call" /\ cstack'[i].ci = Depth + 1
      BY <1>1 DEF Bodies
    <3>2. CASE i = n + 1
      <4>1. cstack'[i - 1] = Top
        BY <1>3, <3>2
      <4>. QED  BY <1>2, <1>5, <3>1, <4>1 DEF Waits
    <3>3. CASE i /= n + 1
      <4>1. i - 1 \in n + 1 .. Len(cstack')
        BY <1>3, <3>3
      <4>2. cstack'[i - 1].ci = Depth + 1 /\ cstack'[i - 1].kind \in Bodies \union {"hook"}
        BY <1>1, <4>1
      <4>. QED  BY <1>5, <3>1, <4>2 DEF Waits, Bodies
    <3>. QED  BY <3>2, <3>3
  <2>4. Rests(T, Top', mode')
    BY <1>1, <1>2, <1>5 DEF Rests, Returning
  <2>. QED  BY <1>1, <1>5, <2>1, <2>2, <2>3, <2>4, HandlersKept DEF ThirdInv
<1>7. ReadyInv'
  <2>1. \A d \in 1 .. NewCi : d <= Depth => /\ d \in LuaFrames(T.ci) <=> d \in LuaFrames(S.ci)
                                            /\ S.ci[d].k => T.ci[d].k
    <3>1. ASSUME NEW d \in 1 .. NewCi, d <= Depth
          PROVE  (d \in LuaFrames(T.ci) <=> d \in LuaFrames(S.ci)) /\ T.ci[d] = S.ci[d]
      <4>1. d \in 1 .. Depth /\ d \in 1 .. Depth + 1
        BY <1>3, <3>1
      <4>. QED  BY <1>1, <1>4, <4>1 DEF LuaFrames
    <3>. QED  BY <3>1
  <2>2. \A j \in n + 1 .. Len(cstack) : FALSE
    BY <1>3 DEF n
  <2>3. \A i \in n + 1 .. Len(cstack') : MayContinue(T.ci, cstack'[i - 1], cstack'[i])
    BY <1>1 DEF MayContinue, Bodies
  <2>4. ASSUME NEW d \in 1 .. NewCi, d > Depth PROVE d \in LuaFrames(T.ci) \/ InUse(cstack', Running, d)
    <3>1. d = Depth + 1
      BY <1>3, <2>4
    <3>2. CASE lua
      BY <1>1, <1>4, <2>4, <1>3, <3>1, <3>2 DEF LuaFrames
    <3>3. CASE ~lua
      <4>1. n + 1 \in 2 .. Len(cstack') /\ n + 1 \in n + 1 .. Len(cstack') /\ n + 1 \in n .. Len(cstack')
        BY <1>1, <1>3, <3>3
      <4>2. cstack'[n + 1].kind = "cfun" /\ cstack'[n + 1].ci = d /\ cstack'[n + 1].th = Running
        BY <1>1, <3>1, <3>3, <4>1, OwnFacts
      <4>. QED  BY <4>1, <4>2 DEF InUse
    <3>. QED  BY <3>2, <3>3
  <2>5. S.status /= "YIELD" /\ ~Returning(Top, mode)
    BY <1>2, RunningFacts DEF Returning, InMode
  <2>6. /\ \A j \in n + 1 .. Len(cstack) : cstack[j].kind = "cfun" =>
             cstack[j].ci > NewCi \/ T.ci[cstack[j].ci].k \/ InUse(cstack', Running, cstack[j].ci)
        /\ \A j \in n + 1 .. Len(cstack) : cstack[j].kind = "hook" => cstack[j - 1].kind /= "resume"
    BY <2>2
  <2>7. /\ \A e \in Suspended(T.ci) : e \in Suspended(S.ci) \/ \A d \in CFrames(T.ci, e - 1) : T.ci[d].k
        /\ S.status = "YIELD" \/ Returning(Top, mode) => NewCi < Depth
    BY <1>5, <2>5
  <2>. QED  BY <1>1, <2>1, <2>3, <2>4, <2>6, <2>7, ReadyKept DEF ThirdInv
<1>8. RoomInv'
  <2>1. \A j \in n + 1 .. Len(cstack) : cstack[j].kind /= "errormsg"
    BY <1>3 DEF n
  <2>2. ~Handling(mode)
    BY <1>2 DEF Handling, ErrorStatus
  <2>3. NewCi > MAXFRAMES => S.big \/ Depth > MAXFRAMES
    BY <1>2, <1>3, LimitsAssumption
  <2>4. \A d \in Suspended(T.ci) : d <= MAXFRAMES
    BY <1>5, RunningRoom DEF ThirdInv, SizeOK
  <2>. QED  BY <1>1, <2>1, <2>2, <2>3, <2>4, RoomKept DEF ThirdInv
<1>. QED  BY <1>6, <1>7, <1>8 DEF ThirdInv


(* Frames are cut off.                                                     *)
LEMMA CutIs ==
  ASSUME CountInv, FrameInv, NEW n \in 1 .. Depth
  PROVE  LET t == CutFrames(S, n)
         IN /\ t \in ThreadState /\ ThreadOK(t) /\ Len(t.ci) = n /\ \A d \in 1 .. n : t.ci[d] = S.ci[d]
            /\ t.ci = SubSeq(S.ci, 1, n)
            /\ t.errfunc = S.errfunc /\ t.big = S.big /\ t.status = S.status
<1>. DEFINE t == CutFrames(S, n)
<1>1. n \in 0 .. Len(S.ci)
  BY FrameInvFacts
<1>2. ThreadOK(t) /\ Counters(t, S) /\ t.ci = SubSeq(S.ci, 1, n)
  BY <1>1, CutFramesOK, RunningFacts
<1>3. t.errfunc = S.errfunc /\ t.big = S.big
  BY RunningFacts DEF CutFrames, ThreadState
<1>. HIDE DEF t
<1>4. Len(t.ci) = n /\ \A d \in 1 .. n : t.ci[d] = S.ci[d]
  BY <1>2, CutFramesFacts
<1>. QED  BY <1>2, <1>3, <1>4 DEF ThreadOK, Counters, t

(* Which frames are suspended when the last ones are cut off.              *)
LEMMA CutSuspended ==
  ASSUME CountInv, FrameInv, CountInv', NEW n, Own(n), NewCi <= Depth,
         \A d \in 1 .. NewCi : T.ci[d] = S.ci[d]
  PROVE  /\ \A d : d \in Suspended(T.ci) <=> d \in Suspended(S.ci) /\ d <= NewCi
         /\ \A d \in 1 .. NewCi : d <= Depth => /\ d \in LuaFrames(T.ci) <=> d \in LuaFrames(S.ci)
                                                /\ S.ci[d].k => T.ci[d].k
<1>1. DOMAIN T.ci = 1 .. NewCi /\ DOMAIN S.ci = 1 .. Depth /\ NewCi \in Nat /\ Depth \in Nat
  BY OwnPlaces
<1>2. \A d : d \in 1 .. NewCi <=> d \in 1 .. Depth /\ d <= NewCi
  BY <1>1
<1>3. \A d : d \in Suspended(T.ci) <=> d \in Suspended(S.ci) /\ d <= NewCi
  BY <1>1, <1>2 DEF Suspended
<1>4. \A d \in 1 .. NewCi : (d \in LuaFrames(T.ci) <=> d \in LuaFrames(S.ci)) /\ T.ci[d] = S.ci[d]
  BY <1>1, <1>2 DEF LuaFrames
<1>. QED  BY <1>3, <1>4

(* The function that returns loses its frame.                              *)
PoscallMoves(n) ==
  /\ Own(n) /\ Len(cstack') = n /\ NewCi = Depth - 1 /\ Depth > 1 /\ \A d \in 1 .. NewCi : T.ci[d] = S.ci[d]
  /\ T.errfunc = S.errfunc /\ T.big = S.big /\ Top' = cstack[n] /\ cstack[n].kind /= "cfun"
  /\ Top.kind \in Bodies \union {"resume"}
  /\ \A j \in n + 1 .. Len(cstack) : j = Len(cstack) /\ cstack[j] = Top /\ Top.kind \in Bodies
  /\ Depth \notin Suspended(S.ci)
  /\ Suspended(T.ci) = Suspended(S.ci) /\ Suspended(S.ci) \subseteq 1 .. NewCi
  /\ \A d \in 1 .. NewCi : d <= Depth => (d \in LuaFrames(T.ci) <=> d \in LuaFrames(S.ci)) /\ (S.ci[d].k => T.ci[d].k)

LEMMA PoscallShape ==
  ASSUME CountInv, FrameInv, ThirdInv, CountInv', Poscall
  PROVE  \E n : PoscallMoves(n)
<1>. DEFINE t == CutFrames(S, Depth - 1)
            out == Top.kind = "cfun" \/ (Top.kind = "exec" /\ CurrentCI.fresh)
            n == IF out THEN Len(cstack) - 1 ELSE Len(cstack)
<1>1. mode \in {"ret", "poscall"} /\ mode' = "run" /\ Update(t) /\ cstack' = (IF out THEN Pop ELSE cstack)
  BY DEF Poscall
<1>2. Depth > 1 /\ Depth - 1 \in 1 .. Depth /\ Depth \in Nat /\ Depth = Len(S.ci)
  BY <1>1, FrameInvFacts DEF FrameInv
<1>3. Top.kind \in Bodies \union {"resume"}
  BY <1>1, RunningFacts DEF InMode
<1>4. /\ t \in ThreadState /\ Len(t.ci) = Depth - 1 /\ \A d \in 1 .. Depth - 1 : t.ci[d] = S.ci[d]
      /\ t.errfunc = S.errfunc /\ t.big = S.big
  BY <1>2, CutIs
<1>. HIDE DEF t
<1>5. /\ n \in 1 .. Len(cstack) /\ cstack[n].th = Running /\ cstack' = SubSeq(cstack, 1, n)
      /\ \A j \in n + 1 .. Len(cstack) : out /\ j = Len(cstack) /\ cstack[j] = Top
      /\ cstack[n].kind /= "cfun"
  <2>0. cstack \in Seq(Activation) /\ Len(cstack) \in Nat \ {0} /\ Top = cstack[Len(cstack)] /\ Top.th = Running
    BY RunningFacts DEF Running
  <2>1. CASE out
    <3>1. Len(cstack) - 1 \in 1 .. Len(cstack) /\ Below = cstack[Len(cstack) - 1] /\ Below.th = Running
          /\ Pop = SubSeq(cstack, 1, Len(cstack) - 1) /\ Made(Below, Top)
      BY <1>3, <2>1, PopFacts DEF Bodies
    <3>2. Below.kind /= "cfun"
      BY <1>3, <2>1, <3>1 DEF Made, Callers, Bodies
    <3>. QED  BY <1>1, <2>0, <2>1, <3>1, <3>2
  <2>2. CASE ~out
    <3>1. SubSeq(cstack, 1, Len(cstack)) = cstack
      BY <2>0
    <3>2. n = Len(cstack) /\ cstack' = cstack /\ Top.kind /= "cfun"
      BY <1>1, <2>2
    <3>3. cstack' = SubSeq(cstack, 1, n)
      BY <3>1, <3>2
    <3>4. cstack[n].kind /= "cfun" /\ cstack[n].th = Running
      BY <2>0, <3>2
    <3>. HIDE DEF n, out
    <3>. QED  BY <2>0, <3>2, <3>3, <3>4
  <2>. QED  BY <2>1, <2>2
<1>. HIDE DEF n
<1>6. Own(n) /\ T = t /\ Len(cstack') = n /\ Top' = cstack[n]
  BY <1>1, <1>5, OwnCut
<1>7. /\ n \in Nat \ {0} /\ Len(cstack) \in Nat /\ Top = cstack[Len(cstack)]
      /\ NewCi = Depth - 1 /\ NewCi < Depth /\ NewCi <= Depth /\ \A d \in 1 .. NewCi : T.ci[d] = S.ci[d]
      /\ \A j \in 1 .. n : cstack'[j] = cstack[j]
  BY <1>2, <1>4, <1>6, OwnPlaces
<1>8. /\ \A d : d \in Suspended(T.ci) <=> d \in Suspended(S.ci) /\ d <= NewCi
      /\ \A d \in 1 .. NewCi : d <= Depth => /\ d \in LuaFrames(T.ci) <=> d \in LuaFrames(S.ci)
                                             /\ S.ci[d].k => T.ci[d].k
  BY <1>6, <1>7, CutSuspended
<1>9. Depth \notin Suspended(S.ci)
  <2>0. Rests(S, Top, mode) /\ Place(Top, S.ci, Depth)
    BY RunningHandlers, FrameInvFacts DEF ThirdInv
  <2>1. CASE Top.kind = "cfun"
    BY <2>0, <2>1 DEF Rests, Place
  <2>2. CASE Top.kind = "exec"
    <3>1. Depth \in Top.ci .. Depth
      BY FrameInvFacts
    <3>2. Depth \in LuaFrames(S.ci)
      BY <2>0, <2>2, <3>1 DEF Place
    <3>. QED  BY <3>2, FrameInvFacts DEF FrameOK
  <2>3. CASE Top.kind = "resume"
    BY <1>1, <1>2, <2>0, <2>3 DEF Rests, Returning, LastNot
  <2>. QED  BY <1>3, <2>1, <2>2, <2>3 DEF Bodies
<1>10. Suspended(T.ci) = Suspended(S.ci) /\ Suspended(S.ci) \subseteq 1 .. NewCi
  <2>1. \A d \in Suspended(S.ci) : d \in 1 .. Depth /\ d /= Depth
    BY <1>6, <1>9, OwnPlaces DEF Suspended
  <2>2. \A d \in Suspended(S.ci) : d <= NewCi /\ d \in 1 .. NewCi
    BY <1>2, <1>7, <2>1
  <2>. QED  BY <1>8, <2>2
<1>11. \A j \in n + 1 .. Len(cstack) : Top.kind \in Bodies
  BY <1>5 DEF out, Bodies
<1>. QED  BY <1>2, <1>3, <1>4, <1>5, <1>6, <1>7, <1>8, <1>9, <1>10, <1>11 DEF PoscallMoves

LEMMA PoscallThird ==
  ASSUME CountInv, FrameInv, ThirdInv, CountInv', FrameInv', Poscall
  PROVE  ThirdInv'
<1>0. PICK n : PoscallMoves(n)
  BY PoscallShape
<1>1. mode \in {"ret", "poscall"} /\ mode' = "run"
  BY DEF Poscall
<1>2. Depth > 1 /\ Depth \in Nat /\ Depth = Len(S.ci)
  BY <1>0, FrameInvFacts DEF PoscallMoves
<1>4. T.errfunc = S.errfunc /\ T.big = S.big
  BY <1>0 DEF PoscallMoves
<1>5. \A j \in n + 1 .. Len(cstack) : j = Len(cstack) /\ cstack[j] = Top /\ Top.kind \in {"cfun", "exec"}
  BY <1>0 DEF PoscallMoves, Bodies
<1>6. Own(n) /\ Len(cstack') = n /\ Top' = cstack[n] /\ cstack[n].kind /= "cfun"
  BY <1>0 DEF PoscallMoves
<1>7. /\ n \in Nat \ {0} /\ Len(cstack) \in Nat
      /\ NewCi = Depth - 1 /\ NewCi < Depth /\ NewCi <= Depth /\ \A d \in 1 .. NewCi : T.ci[d] = S.ci[d]
      /\ \A j \in 1 .. n : cstack'[j] = cstack[j]
  BY <1>0, <1>2, <1>6, OwnPlaces DEF PoscallMoves
<1>8. \A d \in 1 .. NewCi : d <= Depth => /\ d \in LuaFrames(T.ci) <=> d \in LuaFrames(S.ci)
                                          /\ S.ci[d].k => T.ci[d].k
  BY <1>0 DEF PoscallMoves
<1>10. Suspended(T.ci) = Suspended(S.ci) /\ Suspended(S.ci) \subseteq 1 .. NewCi
  BY <1>0 DEF PoscallMoves
<1>11. HandlersInv'
  <2>1. T.errfunc \in HandlerFrames(T.ci, cstack', Running, Len(cstack'))
    <3>1. S.errfunc \in HandlerFrames(S.ci, cstack, Running, Len(cstack))
      BY RunningHandlers DEF ThirdInv, ErrfuncOK
    <3>2. PcallFrames(cstack, Running, Len(cstack)) \subseteq PcallFrames(cstack', Running, Len(cstack'))
      <4>1. \A j \in n + 1 .. Len(cstack) : cstack[j].kind = "pcall" => cstack[j].th /= Running
        BY <1>5
      <4>. QED  BY <1>6, <1>7, <4>1, PcallFramesKept, OwnPlaces
    <3>. QED  BY <1>4, <1>6, <1>10, <3>1, <3>2 DEF HandlerFrames
  <2>2. \A i \in n + 1 .. Len(cstack') : FALSE
    BY <1>6, <1>7
  <2>3. Rests(T, Top', mode')
    BY <1>1, <1>5, <1>6 DEF Rests, Returning
  <2>4. \A d \in Suspended(S.ci) : T.ci[d].oerr = S.ci[d].oerr
    BY <1>7, <1>10
  <2>. QED  BY <1>6, <1>10, <2>1, <2>2, <2>3, <2>4, HandlersKept DEF ThirdInv
<1>12. ReadyInv'
  <2>1. \A j \in n + 1 .. Len(cstack) : cstack[j].kind = "cfun" => cstack[j].ci > NewCi
    <3>1. Top.kind = "cfun" => Top.ci = Depth
      BY TopFrame
    <3>. QED  BY <1>5, <1>7, <3>1
  <2>2. \A j \in n + 1 .. Len(cstack) : cstack[j].kind = "hook" => cstack[j - 1].kind /= "resume"
    BY <1>5
  <2>3. /\ \A i \in n + 1 .. Len(cstack') : MayContinue(T.ci, cstack'[i - 1], cstack'[i])
        /\ \A d \in 1 .. NewCi : d > Depth => d \in LuaFrames(T.ci) \/ InUse(cstack', Running, d)
    BY <1>2, <1>6, <1>7
  <2>. QED  BY <1>6, <1>7, <1>8, <1>10, <2>1, <2>2, <2>3, ReadyKept DEF ThirdInv
<1>13. RoomInv'
  <2>1. \A j \in n + 1 .. Len(cstack) : cstack[j].kind /= "errormsg"
    BY <1>5
  <2>2. ~Handling(mode) /\ (T.big => S.big)
    BY <1>1, <1>4, <1>6 DEF Handling, ErrorStatus
  <2>3. NewCi > MAXFRAMES => S.big \/ Depth > MAXFRAMES
    BY <1>2, <1>7, LimitsAssumption
  <2>4. \A d \in Suspended(T.ci) : d <= MAXFRAMES
    BY <1>10, RunningRoom DEF ThirdInv, SizeOK
  <2>. QED  BY <1>6, <2>1, <2>2, <2>3, <2>4, RoomKept DEF ThirdInv
<1>. QED  BY <1>11, <1>12, <1>13 DEF ThirdInv


(* A protected call begins, on the C stack.                                *)
LEMMA PcallFramesMore ==
  ASSUME NEW cs, NEW ds, NEW n \in Nat, NEW m \in Nat, n <= m, \A j \in 1 .. n : ds[j] = cs[j], NEW L
  PROVE  PcallFrames(cs, L, n) \subseteq PcallFrames(ds, L, m)
<1>. SUFFICES ASSUME NEW j \in 1 .. n, cs[j].kind = "pcall", cs[j].th = L
              PROVE  cs[j].ci \in PcallFrames(ds, L, m)
  BY DEF PcallFrames
<1>1. j \in {k \in 1 .. m : ds[k].kind = "pcall" /\ ds[k].th = L} /\ ds[j].ci = cs[j].ci
  OBVIOUS
<1>. QED  BY <1>1 DEF PcallFrames

Protects(a) ==
  /\ a.kind \in {"pcall", "gctm", "load", "parser"} \/ (a.kind = "call" /\ a.noyield /\ ~a.yp)
  /\ a.ci = Depth /\ (a.kind = "pcall" => a.oerr = S.errfunc)

Protecting ==
  /\ Own(Len(cstack)) /\ mode = "run" /\ Len(cstack') > Len(cstack)
  /\ \A i \in Len(cstack) + 1 .. Len(cstack') : Protects(cstack'[i])
  /\ \E p \in Len(cstack) + 1 .. Len(cstack') :
       /\ cstack'[p].kind = "pcall"
       /\ \A i \in Len(cstack) + 1 .. Len(cstack') : i /= p => cstack'[i].kind /= "pcall"
  /\ T.ci = S.ci /\ T.big = S.big
  /\ T.errfunc \in {0, S.errfunc} \union PcallFrames(cstack', Running, Len(cstack'))

LEMMA ProtectThird ==
  ASSUME CountInv, FrameInv, ThirdInv, CountInv', FrameInv', Protecting
  PROVE  ThirdInv'
<1>0. /\ Own(Len(cstack)) /\ mode = "run" /\ Len(cstack') > Len(cstack)
      /\ \A i \in Len(cstack) + 1 .. Len(cstack') : Protects(cstack'[i])
      /\ T.ci = S.ci /\ T.big = S.big
      /\ T.errfunc \in {0, S.errfunc} \union PcallFrames(cstack', Running, Len(cstack'))
  BY DEF Protecting
<1>. USE <1>0
<1>. DEFINE n == Len(cstack)
<1>1. /\ n \in Nat \ {0} /\ Len(cstack') \in Nat /\ n <= Len(cstack') /\ Top = cstack[n]
      /\ \A j \in 1 .. n : cstack'[j] = cstack[j] /\ Top' = cstack'[Len(cstack')]
      /\ NewCi = Depth /\ Depth = Len(S.ci) /\ Depth \in Nat /\ DOMAIN S.ci = 1 .. Depth
  <2>1. /\ n \in Nat \ {0} /\ Len(cstack') \in Nat /\ n <= Len(cstack') /\ Top = cstack[n]
        /\ \A j \in 1 .. n : cstack'[j] = cstack[j]
        /\ Top' = cstack'[Len(cstack')]
        /\ NewCi = Len(T.ci) /\ Depth = Len(S.ci) /\ Depth \in Nat /\ DOMAIN S.ci = 1 .. Depth
    BY OwnPlaces
  <2>. QED  BY <2>1
<1>2. \A j \in n + 1 .. Len(cstack) : FALSE
  BY <1>1
<1>. HIDE DEF n
<1>3. PcallFrames(cstack, Running, n) \subseteq PcallFrames(cstack', Running, Len(cstack'))
      /\ \A i \in n + 1 .. Len(cstack') : PcallFrames(cstack, Running, n) \subseteq PcallFrames(cstack', Running, i - 1)
  <2>1. \A i \in n + 1 .. Len(cstack') : i - 1 \in Nat /\ n <= i - 1
    BY <1>1
  <2>. QED  BY <1>1, <2>1, PcallFramesMore
<1>4. ErrfuncOK(S, cstack, Running) /\ Rests(S, Top, mode)
  BY RunningHandlers DEF ThirdInv
<1>5. S.errfunc \in HandlerFrames(S.ci, cstack, Running, n)
  BY <1>4 DEF ErrfuncOK, n
<1>6. HandlersInv'
  <2>1. T.errfunc \in HandlerFrames(T.ci, cstack', Running, Len(cstack'))
    BY <1>3, <1>5 DEF HandlerFrames
  <2>2. ASSUME NEW i \in n + 1 .. Len(cstack') PROVE Older(T.ci, cstack', i)
    <3>1. Protects(cstack'[i]) /\ cstack'[i].th = Running
      <4>1. i \in Len(cstack) .. Len(cstack')
        BY <1>1 DEF n
      <4>. QED  BY <4>1, OwnFacts DEF n
    <3>2. \A d \in Suspended(T.ci) : d <= Depth
      BY <1>1 DEF Suspended
    <3>3. S.errfunc \in HandlerFrames(T.ci, cstack', Running, i - 1)
      BY <1>3, <1>5 DEF HandlerFrames
    <3>. QED  BY <3>1, <3>2, <3>3 DEF Older, Protects
  <2>3. ASSUME NEW i \in n + 1 .. Len(cstack') PROVE Waits(T.ci, cstack'[i - 1], cstack'[i])
    <3>1. Protects(cstack'[i])
      BY DEF n
    <3>2. CASE i = n + 1
      <4>0. i - 1 = n /\ n \in 1 .. n
        BY <1>1, <3>2
      <4>1. cstack'[i - 1] = Top
        BY <1>1, <4>0
      <4>. QED  BY <1>4, <3>1, <4>1 DEF Waits, Protects, Rests
    <3>3. CASE i /= n + 1
      <4>1. i - 1 \in n + 1 .. Len(cstack')
        BY <1>1, <3>3
      <4>2. Protects(cstack'[i - 1])
        BY <4>1 DEF n
      <4>. QED  BY <3>1, <4>2 DEF Waits, Protects
    <3>. QED  BY <3>2, <3>3
  <2>4. Rests(T, Top', mode')
    <3>1. Len(cstack') \in n + 1 .. Len(cstack')
      BY <1>1 DEF n
    <3>2. Protects(Top')
      BY <1>1, <3>1 DEF n
    <3>. QED  BY <3>2 DEF Rests, Returning, Protects
  <2>. QED  BY <2>1, <2>2, <2>3, <2>4, HandlersKept DEF ThirdInv, n
<1>7. ReadyInv'
  <2>1. \A i \in n + 1 .. Len(cstack') : MayContinue(T.ci, cstack'[i - 1], cstack'[i])
    BY DEF MayContinue, Protects, n
  <2>2. ~(S.status = "YIELD" \/ Returning(Top, mode))
    BY RunMode DEF Returning
  <2>3. \A d \in 1 .. NewCi : d > Depth => d \in LuaFrames(T.ci) \/ InUse(cstack', Running, d)
    BY <1>1
  <2>. QED  BY <1>2, <2>1, <2>2, <2>3, ReadyKept DEF ThirdInv, n
<1>8. RoomInv'
  <2>1. \A j \in n + 1 .. Len(cstack) : cstack[j].kind /= "errormsg"
    BY <1>2
  <2>2. ~Handling(mode) /\ (NewCi > MAXFRAMES => S.big \/ Depth > MAXFRAMES)
    BY <1>1 DEF Handling, ErrorStatus
  <2>4. \A d \in Suspended(T.ci) : d <= MAXFRAMES
    BY RunningRoom DEF ThirdInv, SizeOK
  <2>. QED  BY <2>1, <2>2, <2>4, RoomKept DEF ThirdInv, n
<1>. QED  BY <1>6, <1>7, <1>8 DEF ThirdInv


LEMMA OwnPush3 ==
  ASSUME CountInv, NEW t, Update(t), NEW b \in Activation, b.th = Running,
         NEW c \in Activation, c.th = Running, NEW d \in Activation, d.th = Running,
         cstack' = Append(Append(Append(cstack, b), c), d)
  PROVE  /\ Own(Len(cstack)) /\ T = t /\ Len(cstack') > Len(cstack)
         /\ \A i \in Len(cstack) + 1 .. Len(cstack') :
              i = Len(cstack) + 1 \/ i = Len(cstack) + 2 \/ i = Len(cstack) + 3
         /\ Len(cstack) + 1 \in Len(cstack) + 1 .. Len(cstack') /\ Len(cstack) + 2 \in Len(cstack) + 1 .. Len(cstack')
         /\ Len(cstack) + 1 /= Len(cstack) + 2
         /\ cstack'[Len(cstack) + 1] = b /\ cstack'[Len(cstack) + 2] = c /\ cstack'[Len(cstack) + 3] = d
<1>1. StackFacts
  BY StackPrimed
<1>. DEFINE n == Len(cstack)  ds == Append(cstack, b)  es == Append(ds, c)
<1>2. /\ ds \in Seq(Activation) /\ Len(ds) = n + 1 /\ ds[n + 1] = b
      /\ \A j \in 1 .. n : ds[j] = cstack[j]
  BY <1>1, Pushed DEF StackFacts
<1>. HIDE DEF ds
<1>3. /\ es \in Seq(Activation) /\ Len(es) = Len(ds) + 1 /\ es[Len(ds) + 1] = c
      /\ \A j \in 1 .. Len(ds) : es[j] = ds[j]
  BY <1>2, Pushed
<1>. HIDE DEF es
<1>4. /\ Len(cstack') = Len(es) + 1 /\ cstack'[Len(es) + 1] = d
      /\ \A j \in 1 .. Len(es) : cstack'[j] = es[j]
  BY <1>3, Pushed DEF es, ds
<1>5. n \in Nat \ {0} /\ Len(cstack') = n + 3 /\ \A j \in 1 .. n : cstack'[j] = cstack[j]
  BY <1>1, <1>2, <1>3, <1>4 DEF StackFacts
<1>6. cstack'[n + 1] = b /\ cstack'[n + 2] = c /\ cstack'[n + 3] = d
  <2>1. n + 1 \in 1 .. Len(ds) /\ n + 1 \in 1 .. Len(es) /\ n + 2 \in 1 .. Len(es) /\ n + 2 = Len(ds) + 1
        /\ n + 3 = Len(es) + 1
    BY <1>2, <1>3, <1>5
  <2>. QED  BY <1>2, <1>3, <1>4, <2>1
<1>7. \A i \in n + 1 .. Len(cstack') : cstack'[i] \in {b, c, d}
  <2>1. \A i \in n + 1 .. Len(cstack') : i = n + 1 \/ i = n + 2 \/ i = n + 3
    BY <1>5
  <2>. QED  BY <1>6, <2>1
<1>8. Own(n) /\ T = t
  BY <1>1, <1>5, <1>7 DEF Own, Moves, T, Update, StackFacts
<1>9. /\ \A i \in n + 1 .. Len(cstack') : i = n + 1 \/ i = n + 2 \/ i = n + 3
      /\ n + 1 \in n + 1 .. Len(cstack') /\ n + 2 \in n + 1 .. Len(cstack') /\ n + 1 /= n + 2
  BY <1>5
<1>. QED  BY <1>5, <1>6, <1>8, <1>9

LEMMA PcallProtects ==
  ASSUME CountInv, FrameInv, NEW k \in BOOLEAN, NEW ef \in Nat, PcallK(k, ef), ~(k /\ S.nny = 0)
  PROVE  Protecting
<1>. DEFINE t == [S EXCEPT !.errfunc = ef, !.armed = @ \/ Top.kind = "host"]  b == PcallAct(S)
<1>1. mode = "run" /\ DCall(t, Append(cstack, b), TRUE, FALSE) /\ ef \in {0, Depth}
  BY DEF PcallK, InC, UserHook, Body
<1>2. b \in Activation /\ b.kind = "pcall" /\ b.th = Running /\ b.ci = Depth /\ b.oerr = S.errfunc
  BY PcallActOK, RunningFacts, FrameInvFacts
<1>3. t \in ThreadState /\ t.ci = S.ci /\ t.big = S.big /\ t.errfunc = ef
  <2>1. (S.armed \/ Top.kind = "host") \in BOOLEAN
    OBVIOUS
  <2>. QED  BY <2>1, RunningFacts DEF ThreadState
<1>. HIDE DEF t, b
<1>4. PICK u, c : Called(t, Append(cstack, b), TRUE, FALSE, u, c)
  BY <1>1, <1>3, DCallOwn
<1>5. /\ c \in Activation /\ c.th = Running /\ c.kind = "call" /\ ~c.yp /\ c.noyield /\ c.ci = Depth /\ Update(u)
      /\ cstack' = Append(Append(cstack, b), c) /\ u.ci = S.ci /\ u.big = S.big /\ u.errfunc = ef
  BY <1>3, <1>4, FrameInvFacts DEF Called, Like
<1>6. /\ Own(Len(cstack)) /\ T = u /\ Len(cstack') = Len(cstack) + 2
      /\ cstack'[Len(cstack) + 1] = b /\ cstack'[Len(cstack) + 2] = c
  BY <1>2, <1>5, OwnPush2
<1>7. Len(cstack) \in Nat /\ Len(cstack') > Len(cstack) /\ Len(cstack) + 1 \in 1 .. Len(cstack')
      /\ Len(cstack) + 1 \in Len(cstack) + 1 .. Len(cstack')
      /\ \A i \in Len(cstack) + 1 .. Len(cstack') : i = Len(cstack) + 1 \/ i = Len(cstack) + 2
  <2>1. Len(cstack) \in Nat
    BY StackPrimed DEF StackFacts
  <2>. QED  BY <1>6, <2>1
<1>8. \A i \in Len(cstack) + 1 .. Len(cstack') : Protects(cstack'[i])
  BY <1>2, <1>5, <1>6, <1>7 DEF Protects
<1>9. T.errfunc \in {0, S.errfunc} \union PcallFrames(cstack', Running, Len(cstack'))
  <2>1. Depth \in PcallFrames(cstack', Running, Len(cstack'))
    BY <1>2, <1>6, <1>7 DEF PcallFrames
  <2>. QED  BY <1>1, <1>5, <1>6, <2>1
<1>10. \E p \in Len(cstack) + 1 .. Len(cstack') :
         /\ cstack'[p].kind = "pcall"
         /\ \A i \in Len(cstack) + 1 .. Len(cstack') : i /= p => cstack'[i].kind /= "pcall"
  <2>. DEFINE p == Len(cstack) + 1
  <2>1. /\ p \in Len(cstack) + 1 .. Len(cstack') /\ cstack'[p].kind = "pcall"
        /\ \A i \in Len(cstack) + 1 .. Len(cstack') : i /= p => cstack'[i].kind /= "pcall"
    BY <1>2, <1>5, <1>6, <1>7
  <2>. QED  BY <2>1
<1>. QED  BY <1>1, <1>5, <1>6, <1>7, <1>8, <1>9, <1>10 DEF Protecting

LEMMA FinalizerProtects ==
  ASSUME CountInv, FrameInv, CallFinalizer
  PROVE  Protecting
<1>. DEFINE s == [S EXCEPT !.allowhook = FALSE]
            t == [s EXCEPT !.errfunc = 0]
            a == GCTM(S.allowhook)
            b == PcallAct(s)
<1>1. s \in ThreadState /\ s.ci = S.ci /\ s.big = S.big /\ s.errfunc = S.errfunc
  BY RunningFacts DEF ThreadState
<1>2. t \in ThreadState /\ t.ci = S.ci /\ t.big = S.big /\ t.errfunc = 0
  BY RunningFacts DEF ThreadState
<1>3. S.allowhook \in BOOLEAN
  BY RunningFacts DEF ThreadState
<1>4. DCall(t, cstack \o <<a, b>>, TRUE, FALSE) /\ mode = "run"
  BY DEF CallFinalizer, InCode, InC, UserHook, InLua, InParser, Body
<1>. HIDE DEF s, t
<1>5. ThreadOK(s)
  BY <1>1, ThreadUpdate, RunningFacts
<1>6. a \in Activation /\ a.kind = "gctm" /\ a.th = Running /\ a.ci = Depth
  BY <1>3, AtLastFacts DEF AtLast, GCTM
<1>7. b \in Activation /\ b.kind = "pcall" /\ b.th = Running /\ b.ci = Depth /\ b.oerr = S.errfunc
  BY <1>1, <1>5, PcallActOK, FrameInvFacts
<1>. HIDE DEF a, b
<1>8. cstack \o <<a, b>> = Append(Append(cstack, a), b)
  BY <1>6, <1>7, Push2, RunningFacts
<1>9. PICK u, c : Called(t, cstack \o <<a, b>>, TRUE, FALSE, u, c)
  BY <1>2, <1>4, DCallOwn
<1>10. /\ c \in Activation /\ c.th = Running /\ c.kind = "call" /\ ~c.yp /\ c.noyield /\ c.ci = Depth /\ Update(u)
       /\ cstack' = Append(Append(Append(cstack, a), b), c) /\ u.ci = S.ci /\ u.big = S.big /\ u.errfunc = 0
  BY <1>2, <1>8, <1>9, FrameInvFacts DEF Called, Like
<1>11. /\ Own(Len(cstack)) /\ T = u /\ Len(cstack') > Len(cstack)
       /\ \A i \in Len(cstack) + 1 .. Len(cstack') :
            i = Len(cstack) + 1 \/ i = Len(cstack) + 2 \/ i = Len(cstack) + 3
       /\ Len(cstack) + 2 \in Len(cstack) + 1 .. Len(cstack')
       /\ cstack'[Len(cstack) + 1] = a /\ cstack'[Len(cstack) + 2] = b /\ cstack'[Len(cstack) + 3] = c
  BY <1>6, <1>7, <1>10, OwnPush3
<1>12. \A i \in Len(cstack) + 1 .. Len(cstack') : Protects(cstack'[i])
  BY <1>6, <1>7, <1>10, <1>11 DEF Protects
<1>13. \E p \in Len(cstack) + 1 .. Len(cstack') :
         /\ cstack'[p].kind = "pcall"
         /\ \A i \in Len(cstack) + 1 .. Len(cstack') : i /= p => cstack'[i].kind /= "pcall"
  <2>. DEFINE p == Len(cstack) + 2
  <2>1. /\ p \in Len(cstack) + 1 .. Len(cstack') /\ cstack'[p].kind = "pcall"
        /\ \A i \in Len(cstack) + 1 .. Len(cstack') : i /= p => cstack'[i].kind /= "pcall"
    BY <1>6, <1>7, <1>10, <1>11
  <2>. QED  BY <2>1
<1>. QED  BY <1>4, <1>10, <1>11, <1>12, <1>13 DEF Protecting

LEMMA LoadProtects ==
  ASSUME CountInv, FrameInv, Load
  PROVE  Protecting
<1>. DEFINE s == [S EXCEPT !.nny = @ + 1]
            a == Kind("load", Depth)
            b == PcallAct(s)
            c == Kind("parser", Depth)
<1>1. s \in ThreadState /\ s.ci = S.ci /\ s.big = S.big /\ s.errfunc = S.errfunc
  <2>1. S \in ThreadState /\ S.nny + 1 \in Int
    BY RunningFacts
  <2>. QED  BY <2>1 DEF ThreadState
<1>2. Update(s) /\ cstack' = cstack \o <<a, b, c>> /\ mode = "run"
  BY DEF Load, Body
<1>. HIDE DEF s
<1>3. ThreadOK(s)
  BY <1>1, ThreadUpdate, RunningFacts
<1>4. /\ a \in Activation /\ a.kind = "load" /\ a.th = Running /\ a.ci = Depth
      /\ c \in Activation /\ c.kind = "parser" /\ c.th = Running /\ c.ci = Depth
  BY AtLastFacts DEF AtLast, Kind
<1>5. b \in Activation /\ b.kind = "pcall" /\ b.th = Running /\ b.ci = Depth /\ b.oerr = S.errfunc
  BY <1>1, <1>3, PcallActOK, FrameInvFacts
<1>. HIDE DEF a, b, c
<1>6. cstack \o <<a, b, c>> = Append(Append(Append(cstack, a), b), c)
  BY <1>4, <1>5, Push3, RunningFacts
<1>7. /\ Own(Len(cstack)) /\ T = s /\ Len(cstack') > Len(cstack)
      /\ \A i \in Len(cstack) + 1 .. Len(cstack') :
           i = Len(cstack) + 1 \/ i = Len(cstack) + 2 \/ i = Len(cstack) + 3
      /\ Len(cstack) + 2 \in Len(cstack) + 1 .. Len(cstack')
      /\ cstack'[Len(cstack) + 1] = a /\ cstack'[Len(cstack) + 2] = b /\ cstack'[Len(cstack) + 3] = c
  <2>1. cstack' = Append(Append(Append(cstack, a), b), c) /\ Update(s)
    BY <1>2, <1>6
  <2>. QED  BY <1>4, <1>5, <2>1, OwnPush3
<1>8. \A i \in Len(cstack) + 1 .. Len(cstack') : Protects(cstack'[i])
  BY <1>4, <1>5, <1>7 DEF Protects
<1>9. \E p \in Len(cstack) + 1 .. Len(cstack') :
         /\ cstack'[p].kind = "pcall"
         /\ \A i \in Len(cstack) + 1 .. Len(cstack') : i /= p => cstack'[i].kind /= "pcall"
  <2>. DEFINE p == Len(cstack) + 2
  <2>1. /\ p \in Len(cstack) + 1 .. Len(cstack') /\ cstack'[p].kind = "pcall"
        /\ \A i \in Len(cstack) + 1 .. Len(cstack') : i /= p => cstack'[i].kind /= "pcall"
    BY <1>4, <1>5, <1>7
  <2>. QED  BY <2>1
<1>. QED  BY <1>1, <1>2, <1>7, <1>8, <1>9 DEF Protecting

LEMMA ProtectsThird ==
  ASSUME CountInv, FrameInv, ThirdInv, CountInv', FrameInv'
  PROVE  /\ Load \/ CallFinalizer => ThirdInv'
         /\ \A k \in BOOLEAN, ef \in Nat : PcallK(k, ef) /\ ~(k /\ S.nny = 0) => ThirdInv'
BY PcallProtects, FinalizerProtects, LoadProtects, ProtectThird


(* Of the numbers after n, up to the next, ...                             *)
LEMMA OnlyLast ==
  ASSUME NEW n \in Nat \ {0}, NEW l \in Nat, n = l - 1
  PROVE  /\ l - 1 = n /\ n + 1 = l /\ n /= l /\ l \in 1 .. l /\ l \in 2 .. l
         /\ \A j \in n + 1 .. l : j = l
OBVIOUS

(* A protected call returns.                                               *)
LEMMA PcallDoneThird ==
  ASSUME CountInv, FrameInv, ThirdInv, CountInv', FrameInv', PcallDone
  PROVE  ThirdInv'
<1>. DEFINE t == [S EXCEPT !.errfunc = Top.oerr, !.nCcalls = Top.ncc, !.armed = @ /\ Below.kind /= "host"]
            n == Len(cstack) - 1
<1>1. Top.kind = "pcall" /\ mode = "run" /\ mode' = "run" /\ Update(t) /\ cstack' = Pop
  BY DEF PcallDone, Body
<1>2. t \in ThreadState /\ t.ci = S.ci /\ t.big = S.big /\ t.errfunc = Top.oerr
  <2>1. Top.oerr \in Nat /\ Top.ncc \in Int /\ Top \in Activation
    BY <1>1, RunningFacts DEF Activation
  <2>2. (S.armed /\ Below.kind /= "host") \in BOOLEAN
    OBVIOUS
  <2>. QED  BY <2>1, <2>2, RunningFacts DEF ThreadState
<1>. HIDE DEF t
<1>3. /\ n \in 1 .. Len(cstack) /\ Below = cstack[n] /\ cstack[n].th = Running /\ cstack' = SubSeq(cstack, 1, n)
      /\ Made(Below, Top)
  BY <1>1, PopFacts
<1>4. Own(n) /\ T = t /\ Len(cstack') = n /\ Top' = Below
  BY <1>1, <1>3, OwnCut
<1>5. /\ n \in Nat \ {0} /\ n <= Len(cstack) /\ Len(cstack) \in Nat /\ Top = cstack[Len(cstack)]
      /\ NewCi = Depth /\ Depth = Len(S.ci) /\ Depth \in Nat
      /\ \A j \in 1 .. n : cstack'[j] = cstack[j]
  BY <1>2, <1>4, OwnPlaces
<1>5a. n = Len(cstack) - 1
  OBVIOUS
<1>. HIDE DEF n
<1>6. /\ \A j \in n + 1 .. Len(cstack) : cstack[j] = Top
      /\ Len(cstack) - 1 = n /\ Len(cstack) \in 1 .. Len(cstack) /\ Len(cstack) \in 2 .. Len(cstack)
  BY <1>5, <1>5a, OnlyLast
<1>7. HandlersInv'
  <2>1. Older(S.ci, cstack, Len(cstack)) /\ Waits(S.ci, Below, Top)
    BY <1>3, <1>5, <1>6, RunningHandlers DEF ThirdInv, Running
  <2>2. T.errfunc \in HandlerFrames(T.ci, cstack', Running, Len(cstack'))
    <3>1. Top.oerr \in HandlerFrames(S.ci, cstack, Running, n)
      BY <1>1, <1>5, <1>6, <2>1 DEF Older, Running
    <3>2. PcallFrames(cstack', Running, n) = PcallFrames(cstack, Running, n)
      BY <1>5, PrefixFacts
    <3>. QED  BY <1>2, <1>4, <3>1, <3>2 DEF HandlerFrames
  <2>3. \A i \in n + 1 .. Len(cstack') : FALSE
    BY <1>4, <1>5
  <2>4. Rests(T, Top', mode')
    BY <1>1, <1>2, <1>4, <2>1 DEF Rests, Returning, Waits
  <2>. QED  BY <1>2, <1>4, <2>2, <2>3, <2>4, HandlersKept DEF ThirdInv
<1>8. ReadyInv'
  <2>1. /\ \A i \in n + 1 .. Len(cstack') : MayContinue(T.ci, cstack'[i - 1], cstack'[i])
        /\ \A d \in 1 .. NewCi : d > Depth => d \in LuaFrames(T.ci) \/ InUse(cstack', Running, d)
    BY <1>4, <1>5
  <2>2. ~(S.status = "YIELD" \/ Returning(Top, mode))
    BY <1>1, RunMode DEF Returning
  <2>3. \A j \in n + 1 .. Len(cstack) : cstack[j].kind \notin {"cfun", "hook"}
    BY <1>1, <1>6
  <2>. QED  BY <1>2, <1>4, <2>1, <2>2, <2>3, ReadyKept DEF ThirdInv
<1>9. RoomInv'
  <2>1. \A j \in n + 1 .. Len(cstack) : cstack[j].kind /= "errormsg"
    BY <1>1, <1>6
  <2>2. ~Handling(mode) /\ (T.big => S.big) /\ (NewCi > MAXFRAMES => S.big \/ Depth > MAXFRAMES)
    BY <1>1, <1>2, <1>4, <1>5 DEF Handling, ErrorStatus
  <2>4. \A d \in Suspended(T.ci) : d <= MAXFRAMES
    BY <1>2, <1>4, RunningRoom DEF ThirdInv, SizeOK
  <2>. QED  BY <1>4, <2>1, <2>2, <2>4, RoomKept DEF ThirdInv
<1>. QED  BY <1>7, <1>8, <1>9 DEF ThirdInv

(* A lua_pcallk with a continuation returns.                               *)
CallDoneMoves(n) ==
  /\ Own(n) /\ Len(cstack') = n /\ n + 1 = Len(cstack) /\ \A j \in n + 1 .. Len(cstack) : cstack[j] = Top
  /\ Top.kind = "call" /\ mode = "run" /\ mode' = "run" /\ Top' = Below /\ Below = cstack[n]
  /\ Below.kind = "cfun" /\ Below.ci = Depth /\ Depth \in Suspended(S.ci)
  /\ T.errfunc = S.ci[Depth].oerr /\ T.big = S.big /\ NewCi = Depth
  /\ ~T.ci[Depth].yp /\ \A d \in 1 .. Depth : d /= Depth => T.ci[d] = S.ci[d]
  /\ \A d : d \in Suspended(T.ci) <=> d \in Suspended(S.ci) /\ d /= Depth
  /\ \A d \in 1 .. Depth : (d \in LuaFrames(T.ci) <=> d \in LuaFrames(S.ci)) /\ (S.ci[d].k => T.ci[d].k)

LEMMA CallDoneShape ==
  ASSUME CountInv, FrameInv, ThirdInv, CountInv', CallDone, Top.yp
  PROVE  \E n : CallDoneMoves(n)
<1>. DEFINE s == [S EXCEPT !.nCcalls = @ - 1, !.nny = IF Top.noyield THEN @ - 1 ELSE @]
            f == [CurrentCI EXCEPT !.yp = FALSE]
            t == [SetFrame(s, f) EXCEPT !.errfunc = CurrentCI.oerr]
            n == Len(cstack) - 1
<1>1. Top.kind = "call" /\ mode = "run" /\ mode' = "run" /\ Update(t) /\ cstack' = Pop
  BY DEF CallDone, Body
<1>2. s \in ThreadState /\ s.ci = S.ci /\ s.big = S.big
  <2>1. S.nCcalls - 1 \in Int /\ (IF Top.noyield THEN S.nny - 1 ELSE S.nny) \in Int
    BY RunningFacts DEF ThreadState
  <2>. QED  BY <2>1, RunningFacts DEF ThreadState
<1>3. CurrentCI \in Frame /\ Depth \in Nat \ {0} /\ Depth = Len(S.ci) /\ S.ci[Depth] = CurrentCI
      /\ S.ci \in Seq(Frame)
  BY RunningFrames, FrameInvFacts, RunningFacts DEF CurrentCI
<1>4. f \in Frame /\ f.lua = CurrentCI.lua /\ f.oerr = CurrentCI.oerr /\ f.k = CurrentCI.k /\ ~f.yp
  BY <1>3 DEF Frame
<1>. HIDE DEF s, f
<1>5. t \in ThreadState /\ t.ci = [S.ci EXCEPT ![Depth] = f] /\ t.big = S.big /\ t.errfunc = CurrentCI.oerr
  <2>1. [S.ci EXCEPT ![Depth] = f] \in Seq(Frame)
    BY <1>3, <1>4
  <2>2. SetFrame(s, f) \in ThreadState /\ SetFrame(s, f).ci = [S.ci EXCEPT ![Depth] = f] /\ SetFrame(s, f).big = S.big
    BY <1>2, <1>3, <2>1 DEF SetFrame, ThreadState
  <2>3. CurrentCI.oerr \in Nat
    BY <1>3 DEF Frame
  <2>. QED  BY <2>2, <2>3 DEF ThreadState
<1>. HIDE DEF t
<1>6. Len(t.ci) = Depth /\ t.ci[Depth] = f /\ \A d \in 1 .. Depth : d /= Depth => t.ci[d] = S.ci[d]
  BY <1>3, <1>4, <1>5
<1>7. /\ n \in 1 .. Len(cstack) /\ Below = cstack[n] /\ cstack[n].th = Running /\ cstack' = SubSeq(cstack, 1, n)
  BY <1>1, PopFacts
<1>8. Own(n) /\ T = t /\ Len(cstack') = n /\ Top' = Below
  BY <1>1, <1>7, OwnCut
<1>9. /\ n \in Nat \ {0} /\ n <= Len(cstack) /\ Len(cstack) \in Nat /\ Top = cstack[Len(cstack)]
      /\ NewCi = Depth /\ DOMAIN T.ci = 1 .. Depth /\ DOMAIN S.ci = 1 .. Depth
      /\ \A j \in 1 .. n : cstack'[j] = cstack[j]
  BY <1>6, <1>8, OwnPlaces
<1>9a. n = Len(cstack) - 1
  OBVIOUS
<1>. HIDE DEF n
<1>10. /\ \A j \in n + 1 .. Len(cstack) : cstack[j] = Top
       /\ Len(cstack) - 1 = n /\ Len(cstack) \in 1 .. Len(cstack) /\ Len(cstack) \in 2 .. Len(cstack)
       /\ n /= Len(cstack) /\ n + 1 = Len(cstack)
  BY <1>9, <1>9a, OnlyLast
<1>11. Older(S.ci, cstack, Len(cstack)) /\ Waits(S.ci, Below, Top) /\ ErrfuncOK(S, cstack, Running)
  BY <1>7, <1>9, <1>10, RunningHandlers DEF ThirdInv, Running
<1>12. Below.kind = "cfun" /\ Below.ci = Depth /\ Depth \in Suspended(S.ci)
  <2>1. Below.kind = "cfun" /\ Below.ci \in Suspended(S.ci)
    BY <1>1, <1>11 DEF Waits
  <2>2. Extent(state, cstack, n) = Top.ci /\ Top.ci = Depth
    BY <1>1, <1>9, <1>10, NextExtent, TopFrame DEF Bodies
  <2>3. Place(Below, Ci(state, cstack, n), Extent(state, cstack, n))
    BY <1>7, FrameFacts, FrameInvFacts, RunningFacts
  <2>4. Below.ci = Depth
    BY <2>1, <2>2, <2>3 DEF Place
  <2>. QED  BY <2>1, <2>4
<1>13. /\ \A d : d \in Suspended(T.ci) <=> d \in Suspended(S.ci) /\ d /= Depth
       /\ \A d \in 1 .. Depth : (d \in LuaFrames(T.ci) <=> d \in LuaFrames(S.ci)) /\ (S.ci[d].k => T.ci[d].k)
  <2>1. \A d : d \in Suspended(T.ci) <=> d \in Suspended(S.ci) /\ d /= Depth
    BY <1>4, <1>6, <1>8, <1>9 DEF Suspended
  <2>2. \A d \in 1 .. Depth : (d \in LuaFrames(T.ci) <=> d \in LuaFrames(S.ci)) /\ (S.ci[d].k => T.ci[d].k)
    BY <1>3, <1>4, <1>6, <1>8, <1>9 DEF LuaFrames
  <2>. QED  BY <2>1, <2>2
<1>. QED  BY <1>1, <1>3, <1>4, <1>5, <1>6, <1>7, <1>8, <1>9, <1>10, <1>12, <1>13 DEF CallDoneMoves

LEMMA CallDoneThird ==
  ASSUME CountInv, FrameInv, ThirdInv, CountInv', FrameInv', CallDone, Top.yp
  PROVE  ThirdInv'
<1>. PICK n : CallDoneMoves(n)
  BY CallDoneShape
<1>1. /\ Own(n) /\ Len(cstack') = n /\ Top.kind = "call" /\ mode = "run" /\ mode' = "run"
      /\ Top' = Below /\ Below = cstack[n] /\ Below.kind = "cfun" /\ Below.ci = Depth /\ Depth \in Suspended(S.ci)
      /\ T.errfunc = S.ci[Depth].oerr /\ T.big = S.big /\ NewCi = Depth
      /\ n + 1 = Len(cstack) /\ \A j \in n + 1 .. Len(cstack) : cstack[j] = Top
      /\ \A d \in 1 .. Depth : d /= Depth => T.ci[d] = S.ci[d]
  BY DEF CallDoneMoves
<1>2. /\ n \in Nat \ {0} /\ n \in 1 .. Len(cstack) /\ Len(cstack) \in Nat /\ Top = cstack[Len(cstack)]
      /\ DOMAIN T.ci = 1 .. Depth /\ DOMAIN S.ci = 1 .. Depth /\ Depth \in Nat \ {0}
      /\ Len(cstack) \in 1 .. Len(cstack) /\ cstack[n].th = Running
  BY <1>1, OwnPlaces DEF Own
<1>3. Older(S.ci, cstack, Len(cstack)) /\ ErrfuncOK(S, cstack, Running)
  BY <1>1, <1>2, RunningHandlers DEF ThirdInv, Running
<1>4. /\ \A d : d \in Suspended(T.ci) <=> d \in Suspended(S.ci) /\ d /= Depth
      /\ \A d \in 1 .. Depth : (d \in LuaFrames(T.ci) <=> d \in LuaFrames(S.ci)) /\ (S.ci[d].k => T.ci[d].k)
  BY DEF CallDoneMoves
<1>5. HandlersInv'
  <2>1. \A j \in 1 .. n : cstack[j].th = Running => cstack[j].kind \in Bodies \union {"call", "resume"}
    <3>1. S.nny = 0
      <4>1. NY(cstack, Len(cstack)) = 0
        BY <1>1, <1>2, <1>3 DEF Older
      <4>. QED  BY <4>1, RunningFacts DEF CY
    <3>. QED  BY <1>1, <1>2, <3>1, YieldableHooks
  <2>2. ASSUME NEW j \in 1 .. n - 1, cstack[j].th = Running, cstack[j].kind = "cfun"
        PROVE  cstack[j].ci \in Suspended(T.ci) <=> cstack[j].ci \in Suspended(S.ci)
    <3>1. InOrder(cstack, n)
      BY <1>2, FrameInvFacts DEF FramesOK
    <3>2. cstack[j].ci < Depth
      BY <1>1, <1>2, <2>2, <3>1 DEF InOrder, Bodies
    <3>. QED  BY <1>2, <1>4, <3>2
  <2>3. ASSUME NEW d \in Suspended(S.ci)
        PROVE  S.ci[d].oerr \in {0} \union {e \in Suspended(T.ci) : e < d}
    <3>1. S.ci[d].oerr \in {0} \union {e \in Suspended(S.ci) : e < d} /\ d \in 1 .. Depth
      BY <1>2, <1>3 DEF ErrfuncOK, Suspended
    <3>2. \A e \in Suspended(S.ci) : e < d => e \in Suspended(T.ci)
      <4>1. \A e \in Suspended(S.ci) : e \in 1 .. Depth
        BY <1>2 DEF Suspended
      <4>. QED  BY <1>2, <1>4, <3>1, <4>1
    <3>. QED  BY <3>1, <3>2
  <2>4. T.errfunc \in {0} \union Suspended(T.ci)
    BY <1>1, <1>2, <2>3
  <2>5. \A d \in Suspended(T.ci) : T.ci[d].oerr \in {0} \union {e \in Suspended(T.ci) : e < d}
    <3>1. \A d \in Suspended(T.ci) : d \in Suspended(S.ci) /\ T.ci[d] = S.ci[d]
      BY <1>1, <1>2, <1>4 DEF Suspended
    <3>. QED  BY <2>3, <3>1
  <2>6. \A i \in n + 1 .. Len(cstack') : FALSE
    BY <1>1, <1>2
  <2>7. Rests(T, Top', mode')
    BY <1>1, <1>4 DEF Rests, Returning
  <2>. QED  BY <1>1, <2>1, <2>2, <2>4, <2>5, <2>6, <2>7, HandlersMoved DEF ThirdInv
<1>6. ReadyInv'
  <2>1. /\ \A i \in n + 1 .. Len(cstack') : MayContinue(T.ci, cstack'[i - 1], cstack'[i])
        /\ \A d \in 1 .. NewCi : d > Depth => d \in LuaFrames(T.ci) \/ InUse(cstack', Running, d)
    BY <1>1, <1>2
  <2>2. ~(S.status = "YIELD" \/ Returning(Top, mode))
    BY <1>1, RunMode DEF Returning
  <2>3. \A j \in n + 1 .. Len(cstack) : cstack[j].kind \notin {"cfun", "hook"}
    BY <1>1
  <2>4. \A e \in Suspended(T.ci) : e \in Suspended(S.ci)
    BY <1>4
  <2>. QED  BY <1>1, <1>2, <1>4, <2>1, <2>2, <2>3, <2>4, ReadyKept DEF ThirdInv
<1>7. RoomInv'
  <2>1. \A j \in n + 1 .. Len(cstack) : cstack[j].kind /= "errormsg"
    BY <1>1
  <2>2. ~Handling(mode) /\ (T.big => S.big) /\ (NewCi > MAXFRAMES => S.big \/ Depth > MAXFRAMES)
    BY <1>1, <1>2 DEF Handling, ErrorStatus
  <2>4. \A d \in Suspended(T.ci) : d <= MAXFRAMES
    BY <1>4, RunningRoom DEF ThirdInv, SizeOK
  <2>. QED  BY <1>1, <2>1, <2>2, <2>4, RoomKept DEF ThirdInv
<1>. QED  BY <1>5, <1>6, <1>7 DEF ThirdInv


(* Where a thread can yield, each C function below the running one has     *)
(* made a call with a continuation.                                        *)
LEMMA BelowReady ==
  ASSUME CountInv, ReadyInv, S.nny = 0, Top.kind \in Bodies \union {"call", "resume"},
         NEW j \in 1 .. Len(cstack) - 1, cstack[j].th = Running, cstack[j].kind = "cfun"
  PROVE  S.ci[cstack[j].ci].k
<1>1. /\ Len(cstack) \in Nat \ {0} /\ StackOK(cstack) /\ Running = cstack[Len(cstack)].th
      /\ CY(cstack) = 0
  BY RunningFacts DEF Last
<1>2. j \in 1 .. Len(cstack) /\ Len(cstack) \in 1 .. Len(cstack) /\ j + 1 \in 2 .. Len(cstack)
      /\ (j + 1) - 1 = j /\ j + 1 \in 1 .. Len(cstack) /\ j + 1 \in j + 1 .. Len(cstack) /\ j + 1 \in j .. Len(cstack)
      /\ j \in 1 .. Len(cstack)
  BY <1>1
<1>3. cstack[j + 1].th = Running /\ cstack[j + 1].kind \notin {"host", "resume"}
  BY <1>1, <1>2, Segment
<1>4. Made(cstack[j], cstack[j + 1])
  BY <1>1, <1>2 DEF StackOK
<1>5. cstack[j + 1].kind \in Bodies \union {"call", "resume"}
  BY <1>2, <1>3, YieldableHooks
<1>6. cstack[j + 1].kind = "call"
  BY <1>3, <1>4, <1>5 DEF Made, Callers, Bodies
<1>7. ~cstack[j + 1].noyield
  <2>1. NoYields(cstack, Len(cstack)) = {}
    <3>1. IsFiniteSet(NoYields(cstack, Len(cstack))) /\ Cardinality(NoYields(cstack, Len(cstack))) \in Nat
      BY <1>1, CountsFinite
    <3>2. Cardinality(NoYields(cstack, Len(cstack))) = 0
      BY <1>1, <3>1 DEF CY, NY
    <3>. QED  BY <3>1, <3>2, FS_EmptySet
  <2>. QED  BY <1>1, <1>2, <1>3, <1>6, <2>1 DEF NoYields
<1>8. MayContinue(S.ci, cstack[j], cstack[j + 1])
  <2>1. \A i \in 2 .. Len(cstack) : cstack[i - 1].th = Running => MayContinue(S.ci, cstack[i - 1], cstack[i])
    BY RunningReady
  <2>. QED  BY <1>2, <2>1
<1>. QED  BY <1>6, <1>7, <1>8 DEF MayContinue

(* Nor is there, in what is on the C stack of the thread, a luaD_pcall or  *)
(* a message handler.                                                      *)
LEMMA YieldableFacts ==
  ASSUME CountInv, RoomInv, S.nny = 0, Top.kind \in Bodies \union {"call", "resume"}
  PROVE  /\ PcallFrames(cstack, Running, Len(cstack)) = {} /\ ~Overflow(cstack, Running, Len(cstack))
         /\ ~(Depth > MAXFRAMES)
         /\ \A j \in 1 .. Len(cstack) : cstack[j].th = Running =>
              cstack[j].kind \in Bodies \union {"call", "resume"}
<1>1. \A j \in 1 .. Len(cstack) : cstack[j].th = Running => cstack[j].kind \in Bodies \union {"call", "resume"}
  BY YieldableHooks
<1>2. PcallFrames(cstack, Running, Len(cstack)) = {} /\ ~Overflow(cstack, Running, Len(cstack))
  BY <1>1 DEF PcallFrames, Overflow, Bodies
<1>. QED  BY <1>1, <1>2, RunningRoom DEF SizeOK, Depth

(* A C function yields.                                                    *)
LEMMA YieldThird ==
  ASSUME CountInv, FrameInv, ThirdInv, CountInv', FrameInv', NEW k \in BOOLEAN, Yield(k)
  PROVE  ThirdInv'
<1>1. Top.kind = "cfun" /\ mode = "run" /\ cstack' = cstack
  BY DEF Yield, Body
<1>2. CASE S.nny > 0
  <2>1. mode' = "errormsg" /\ state' = state
    BY <1>2 DEF Yield
  <2>2. ~Returning(Top, mode) /\ ~Handling(mode) /\ ~Returning(Top, mode')
    BY <1>1 DEF Returning, Handling, ErrorStatus
  <2>3. \E n : Quiet(n)
    BY <1>1, <2>1, <2>2, SameUpdate, QuietStay
  <2>. QED  BY <2>3, QuietStep
<1>3. CASE ~(S.nny > 0)
  <2>. DEFINE f == [CurrentCI EXCEPT !.k = k]
              t == [SetFrame(S, f) EXCEPT !.status = "YIELD"]
              n == Len(cstack)
  <2>1. mode' = "YIELD" /\ Update(t)
    BY <1>3 DEF Yield
  <2>2. CurrentCI \in Frame
    BY RunningFrames, FrameInvFacts
  <2>3. f \in Frame /\ f.lua = CurrentCI.lua /\ f.yp = CurrentCI.yp /\ f.oerr = CurrentCI.oerr
    BY <2>2 DEF Frame
  <2>. HIDE DEF f
  <2>4. /\ t \in ThreadState /\ t.errfunc = S.errfunc /\ t.big = S.big /\ t.status = "YIELD"
        /\ Len(t.ci) = Depth /\ t.ci[Depth] = f /\ S.ci[Depth] = CurrentCI
        /\ \A x \in 1 .. Depth : x /= Depth => t.ci[x] = S.ci[x]
    <3>1. LET u == SetFrame(S, f)
          IN /\ u \in ThreadState /\ u.errfunc = S.errfunc /\ u.big = S.big /\ u.status = S.status
             /\ Len(u.ci) = Depth /\ u.ci[Depth] = f /\ S.ci[Depth] = CurrentCI
             /\ \A x \in 1 .. Depth : x /= Depth => u.ci[x] = S.ci[x]
      BY <2>3, SetFrameIs
    <3>2. t \in ThreadState /\ t.errfunc = SetFrame(S, f).errfunc /\ t.big = SetFrame(S, f).big
          /\ t.status = "YIELD" /\ t.ci = SetFrame(S, f).ci
      BY <3>1 DEF ThreadState
    <3>. QED  BY <3>1, <3>2
  <2>. HIDE DEF t
  <2>5. Own(n) /\ T = t
    BY <1>1, <2>1, OwnStay
  <2>6. /\ n \in Nat \ {0} /\ n = Len(cstack) /\ Len(cstack') = n /\ Top = cstack[n] /\ Top' = Top
        /\ NewCi = Depth /\ DOMAIN T.ci = 1 .. Depth /\ DOMAIN S.ci = 1 .. Depth /\ Depth \in Nat \ {0}
        /\ \A j \in 1 .. n : cstack'[j] = cstack[j]
    <3>1. /\ n \in Nat \ {0} /\ Top = cstack[Len(cstack)] /\ Top' = cstack'[Len(cstack')]
          /\ NewCi = Len(T.ci) /\ DOMAIN T.ci = 1 .. NewCi /\ DOMAIN S.ci = 1 .. Depth /\ Depth \in Nat \ {0}
          /\ \A j \in 1 .. n : cstack'[j] = cstack[j]
      BY <2>5, OwnPlaces
    <3>2. NewCi = Depth
      BY <2>4, <2>5, <3>1
    <3>3. Len(cstack') = n /\ Top' = Top
      BY <1>1, <3>1
    <3>. QED  BY <3>1, <3>2, <3>3
  <2>. HIDE DEF n
  <2>7. Suspended(T.ci) = Suspended(S.ci) /\ LuaFrames(T.ci) = LuaFrames(S.ci)
        /\ \A d \in Suspended(S.ci) : T.ci[d].oerr = S.ci[d].oerr
    <3>1. \A x \in 1 .. Depth : T.ci[x].lua = S.ci[x].lua /\ T.ci[x].yp = S.ci[x].yp /\ T.ci[x].oerr = S.ci[x].oerr
      BY <2>3, <2>4, <2>5
    <3>. QED  BY <2>6, <3>1 DEF Suspended, LuaFrames
  <2>8. HandlersInv'
    <3>1. ErrfuncOK(S, cstack, Running) /\ Rests(S, Top, mode)
      BY RunningHandlers DEF ThirdInv
    <3>2. T.errfunc \in HandlerFrames(T.ci, cstack', Running, Len(cstack'))
      BY <1>1, <2>4, <2>5, <2>7, <3>1 DEF ErrfuncOK, HandlerFrames
    <3>3. \A i \in n + 1 .. Len(cstack') : FALSE
      BY <2>6
    <3>4. Rests(T, Top', mode')
      BY <1>1, <2>6, <2>7, <3>1 DEF Rests, Returning
    <3>. QED  BY <2>5, <2>7, <3>2, <3>3, <3>4, HandlersKept DEF ThirdInv
  <2>9. ReadyInv'
    <3>1. InOrder(cstack, n) /\ Top.ci = Depth
      BY <1>1, <2>6, TopFrame, FrameInvFacts DEF FramesOK, FrameInv
    <3>2. \A j \in 1 .. n - 1 : cstack[j].th = Running => cstack[j].ci < Depth
      BY <1>1, <2>6, <3>1 DEF InOrder, Bodies, Running
    <3>3. ASSUME NEW i \in 2 .. Len(cstack'), cstack'[i - 1].th = Running
          PROVE  MayContinue(T.ci, cstack'[i - 1], cstack'[i])
      <4>1. i - 1 \in 1 .. n - 1 /\ i \in 2 .. Len(cstack)
        BY <2>6
      <4>2. MayContinue(S.ci, cstack[i - 1], cstack[i])
        BY <1>1, <3>3, <4>1, RunningReady DEF ThirdInv
      <4>3. cstack[i - 1].ci \in 1 .. Depth /\ cstack[i - 1].ci /= Depth
        <5>1. cstack[i - 1].ci < Depth
          BY <1>1, <3>2, <3>3, <4>1
        <5>2. cstack[i - 1].ci \in 1 .. Depth
          BY <1>1, <2>6, <3>3, <4>1, TopFrame
        <5>. QED  BY <5>1, <5>2
      <4>4. T.ci[cstack[i - 1].ci] = S.ci[cstack[i - 1].ci]
        BY <2>4, <2>5, <4>3
      <4>. QED  BY <1>1, <4>2, <4>4 DEF MayContinue
    <3>4. LeftOK(T, cstack', Running, mode')
      <4>1. LeftOK(S, cstack, Running, mode) /\ ~Returning(Top, mode) /\ S.status = "OK"
            /\ Last(cstack) = Top
        BY <1>1, RunningReady, RunMode, RunningFacts DEF Returning, ThirdInv
      <4>2. \A d \in 2 .. Depth : d /= Depth /\ S.ci[d].k => T.ci[d].k
        BY <2>4, <2>5, <2>6
      <4>3. Len(T.ci) = Depth /\ Len(S.ci) = Depth
        BY <2>4, <2>5 DEF Depth
      <4>4. ASSUME NEW d \in CFrames(T.ci, Len(T.ci))
            PROVE  T.ci[d].k \/ InUse(cstack', Running, d) \/ d = Len(T.ci)
        <5>1. d \in 2 .. Depth /\ d \in CFrames(S.ci, Len(S.ci))
          BY <2>7, <4>3 DEF CFrames
        <5>2. S.ci[d].k \/ InUse(cstack, Running, d)
              \/ (d = Len(S.ci) /\ (S.status = "YIELD" \/ (Running = Last(cstack).th /\ Returning(Last(cstack), mode))))
          BY <4>1, <5>1 DEF LeftOK
        <5>. QED  BY <1>1, <4>1, <4>2, <4>3, <5>1, <5>2
      <4>5. ASSUME NEW e \in Suspended(T.ci), NEW d \in CFrames(T.ci, e - 1)
            PROVE  T.ci[d].k
        <5>1. e \in Suspended(S.ci) /\ e \in 1 .. Depth /\ d \in CFrames(S.ci, e - 1) /\ d \in 2 .. e - 1
          BY <2>6, <2>7 DEF CFrames, Suspended
        <5>2. S.ci[d].k
          BY <4>1, <5>1 DEF LeftOK
        <5>. QED  BY <2>6, <4>2, <5>1, <5>2
      <4>6. T.status = "YIELD"
        BY <2>4, <2>5
      <4>. QED  BY <4>4, <4>5, <4>6 DEF LeftOK
    <3>. QED  BY <2>5, <3>3, <3>4, OwnReady DEF ThirdInv
  <2>10. RoomInv'
    <3>1. \A j \in n + 1 .. Len(cstack) : cstack[j].kind /= "errormsg"
      BY <2>6
    <3>2. ~Handling(mode) /\ (T.big => S.big) /\ (NewCi > MAXFRAMES => S.big \/ Depth > MAXFRAMES)
      BY <1>1, <2>4, <2>5, <2>6 DEF Handling, ErrorStatus
    <3>3. \A d \in Suspended(T.ci) : d <= MAXFRAMES
      BY <2>7, RunningRoom DEF ThirdInv, SizeOK
    <3>. QED  BY <2>5, <3>1, <3>2, <3>3, RoomKept DEF ThirdInv
  <2>. QED  BY <2>8, <2>9, <2>10 DEF ThirdInv
<1>. QED  BY <1>2, <1>3


(* The frames that C functions without a continuation have, where a thread *)
(* can yield: only the running one.                                        *)
LEMMA LowerReady ==
  ASSUME CountInv, FrameInv, ReadyInv, S.nny = 0, mode = "run", Top.kind = "cfun",
         NEW d \in CFrames(S.ci, Depth - 1)
  PROVE  S.ci[d].k
<1>1. /\ LeftOK(S, cstack, Running, mode) /\ ~Returning(Top, mode) /\ S.status = "OK"
      /\ Last(cstack) = Top /\ Depth = Len(S.ci) /\ Depth \in Nat
  BY RunningReady, RunMode, RunningFacts DEF Returning, Depth
<1>2. d \in CFrames(S.ci, Len(S.ci)) /\ d /= Len(S.ci)
  BY <1>1 DEF CFrames
<1>3. S.ci[d].k \/ InUse(cstack, Running, d)
  BY <1>1, <1>2 DEF LeftOK
<1>4. ASSUME InUse(cstack, Running, d) PROVE S.ci[d].k
  <2>1. PICK j \in 2 .. Len(cstack) : /\ cstack[j].th = Running /\ cstack[j].ci = d
                                      /\ cstack[j].kind = "cfun" \/ (cstack[j].kind = "hook" /\ cstack[j - 1].kind = "resume")
    BY <1>4 DEF InUse
  <2>2. Len(cstack) \in Nat /\ Top = cstack[Len(cstack)] /\ Top.ci = Depth
    BY RunningFacts, TopFrame
  <2>3. j \in 1 .. Len(cstack) /\ j \in 1 .. Len(cstack) - 1
    BY <1>1, <1>2, <2>1, <2>2
  <2>4. cstack[j].kind = "cfun"
    BY <2>1, <2>3, YieldableHooks DEF Bodies
  <2>. QED  BY <2>1, <2>3, <2>4, BelowReady DEF Bodies
<1>. QED  BY <1>3, <1>4

(* The lua_pcallk of a function that can yield.                            *)
LEMMA PcallKThird ==
  ASSUME CountInv, FrameInv, ThirdInv, CountInv', FrameInv', NEW k \in BOOLEAN, NEW ef \in Nat, PcallK(k, ef),
         k /\ S.nny = 0
  PROVE  ThirdInv'
<1>. DEFINE f == [CurrentCI EXCEPT !.k = TRUE, !.yp = TRUE, !.oerr = S.errfunc, !.oah = S.allowhook]
            s == [SetFrame(S, f) EXCEPT !.errfunc = ef]
            n == Len(cstack)
<1>1. Top.kind = "cfun" /\ mode = "run" /\ DCall(s, cstack, FALSE, TRUE) /\ ef \in {0, Depth}
  BY DEF PcallK, InC, UserHook, Body
<1>2. CurrentCI \in Frame /\ S.errfunc \in Nat /\ S.allowhook \in BOOLEAN
  BY RunningFrames, FrameInvFacts, RunningFacts DEF ThreadState
<1>3. f \in Frame /\ f.lua = CurrentCI.lua /\ f.yp /\ f.oerr = S.errfunc /\ f.k
  BY <1>2 DEF Frame
<1>. HIDE DEF f
<1>4. /\ s \in ThreadState /\ s.errfunc = ef /\ s.big = S.big
      /\ Len(s.ci) = Depth /\ s.ci[Depth] = f /\ S.ci[Depth] = CurrentCI
      /\ \A x \in 1 .. Depth : x /= Depth => s.ci[x] = S.ci[x]
  <2>1. LET u == SetFrame(S, f)
        IN /\ u \in ThreadState /\ u.errfunc = S.errfunc /\ u.big = S.big /\ u.status = S.status
           /\ Len(u.ci) = Depth /\ u.ci[Depth] = f /\ S.ci[Depth] = CurrentCI
           /\ \A x \in 1 .. Depth : x /= Depth => u.ci[x] = S.ci[x]
    BY <1>3, SetFrameIs
  <2>2. s \in ThreadState /\ s.errfunc = ef /\ s.big = SetFrame(S, f).big /\ s.ci = SetFrame(S, f).ci
    BY <2>1 DEF ThreadState
  <2>. QED  BY <2>1, <2>2
<1>. HIDE DEF s
<1>5. PICK t, b : Called(s, cstack, FALSE, TRUE, t, b)
  BY <1>1, <1>4, DCallOwn
<1>6. /\ t.ci = s.ci /\ t.errfunc = ef /\ t.big = S.big /\ Update(t)
      /\ b \in Activation /\ b.th = Running /\ b.kind = "call" /\ b.yp /\ ~b.noyield /\ b.ci = Depth
      /\ cstack' = Append(cstack, b)
  BY <1>4, <1>5 DEF Called, Like
<1>7. /\ Own(n) /\ T = t /\ Len(cstack') = n + 1 /\ cstack'[n + 1] = b /\ Top' = b
  BY <1>6, OwnPush
<1>8. /\ n \in Nat \ {0} /\ n = Len(cstack) /\ Top = cstack[n] /\ n \in 1 .. Len(cstack)
      /\ NewCi = Depth /\ DOMAIN T.ci = 1 .. Depth /\ DOMAIN S.ci = 1 .. Depth /\ Depth \in Nat \ {0}
      /\ \A j \in 1 .. n : cstack'[j] = cstack[j]
  <2>1. /\ n \in Nat \ {0} /\ Top = cstack[n] /\ n \in 1 .. Len(cstack)
        /\ NewCi = Len(T.ci) /\ DOMAIN T.ci = 1 .. NewCi /\ DOMAIN S.ci = 1 .. Depth /\ Depth \in Nat \ {0}
        /\ \A j \in 1 .. n : cstack'[j] = cstack[j]
    BY <1>7, OwnPlaces
  <2>2. NewCi = Depth
    BY <1>4, <1>6, <1>7, <2>1
  <2>. QED  BY <2>1, <2>2
<1>. HIDE DEF n
<1>9. (n + 1) - 1 = n /\ n + 1 \in 1 .. Len(cstack') /\ \A i \in n + 1 .. Len(cstack') : i = n + 1
  BY <1>7, <1>8
<1>10. /\ T.ci[Depth] = f /\ \A x \in 1 .. Depth : x /= Depth => T.ci[x] = S.ci[x]
       /\ T.errfunc = ef /\ T.big = S.big
  BY <1>4, <1>6, <1>7
<1>11. /\ Top.ci = Depth /\ Depth \notin Suspended(S.ci) /\ ErrfuncOK(S, cstack, Running)
  BY <1>1, TopFrame, RunningHandlers DEF ThirdInv, Rests
<1>12. /\ \A d : d \in Suspended(T.ci) <=> d = Depth \/ d \in Suspended(S.ci)
       /\ LuaFrames(T.ci) = LuaFrames(S.ci) /\ \A d \in 1 .. Depth : S.ci[d].k => T.ci[d].k
       /\ \A d \in Suspended(S.ci) : d \in 1 .. Depth /\ d /= Depth
  <2>1. \A d : d \in Suspended(T.ci) <=> d = Depth \/ d \in Suspended(S.ci)
    BY <1>3, <1>8, <1>10 DEF Suspended
  <2>2. LuaFrames(T.ci) = LuaFrames(S.ci)
    <3>1. \A x \in 1 .. Depth : T.ci[x].lua = S.ci[x].lua
      BY <1>3, <1>4, <1>8, <1>10
    <3>. QED  BY <1>8, <3>1 DEF LuaFrames
  <2>3. \A d \in 1 .. Depth : S.ci[d].k => T.ci[d].k
    BY <1>3, <1>10
  <2>4. \A d \in Suspended(S.ci) : d \in 1 .. Depth /\ d /= Depth
    BY <1>8, <1>11 DEF Suspended
  <2>. QED  BY <2>1, <2>2, <2>3, <2>4
<1>13. /\ PcallFrames(cstack, Running, Len(cstack)) = {} /\ ~(Depth > MAXFRAMES)
       /\ \A j \in 1 .. n : cstack[j].th = Running => cstack[j].kind \in Bodies \union {"call", "resume"}
  BY <1>1, <1>8, YieldableFacts DEF ThirdInv, Bodies
<1>14. HandlersInv'
  <2>1. ASSUME NEW j \in 1 .. n - 1, cstack[j].th = Running, cstack[j].kind = "cfun"
        PROVE  cstack[j].ci \in Suspended(T.ci) <=> cstack[j].ci \in Suspended(S.ci)
    <3>1. InOrder(cstack, n) /\ cstack[n].th = Running
      BY <1>8, FrameInvFacts DEF FramesOK, FrameInv, Running
    <3>2. cstack[j].ci < Depth
      BY <1>1, <1>8, <1>11, <2>1, <3>1 DEF InOrder, Bodies
    <3>. QED  BY <1>8, <1>12, <3>2
  <2>2. T.errfunc \in {0} \union Suspended(T.ci)
    BY <1>1, <1>10, <1>12
  <2>3. \A d \in Suspended(T.ci) : T.ci[d].oerr \in {0} \union {e \in Suspended(T.ci) : e < d}
    <3>1. S.errfunc \in {0} \union Suspended(S.ci)
      BY <1>11, <1>13 DEF ErrfuncOK, HandlerFrames
    <3>2. T.ci[Depth].oerr \in {0} \union {e \in Suspended(T.ci) : e < Depth}
      <4>1. S.errfunc /= 0 => S.errfunc \in Suspended(T.ci) /\ S.errfunc < Depth
        BY <1>8, <1>12, <3>1
      <4>. QED  BY <1>3, <1>10, <4>1
    <3>3. ASSUME NEW d \in Suspended(S.ci)
          PROVE  T.ci[d].oerr \in {0} \union {e \in Suspended(T.ci) : e < d}
      <4>1. T.ci[d] = S.ci[d]
        BY <1>10, <1>12
      <4>2. S.ci[d].oerr \in {0} \union {e \in Suspended(S.ci) : e < d}
        BY <1>11 DEF ErrfuncOK
      <4>. QED  BY <1>12, <4>1, <4>2
    <3>. QED  BY <1>12, <3>2, <3>3
  <2>4. \A i \in n + 1 .. Len(cstack') : Older(T.ci, cstack', i)
    <3>1. cstack'[n + 1].th = cstack'[n].th
      BY <1>6, <1>7, <1>8 DEF Running
    <3>2. NY(cstack', n + 1) = NY(cstack', n) + NoYield(cstack'[n + 1])
      BY <1>8, <3>1, OneMoreOfThread
    <3>2a. NY(cstack', n) = NY(cstack, n)
      BY <1>8, SamePrefix
    <3>3. NoYield(cstack'[n + 1]) = 0
      BY <1>6, <1>7 DEF NoYield
    <3>4. NY(cstack, n) = 0
      BY <1>8, RunningFacts DEF CY
    <3>. QED  BY <1>6, <1>7, <1>9, <3>2, <3>2a, <3>3, <3>4 DEF Older
  <2>5. \A i \in n + 1 .. Len(cstack') : Waits(T.ci, cstack'[i - 1], cstack'[i])
    <3>1. cstack'[n] = Top
      BY <1>8
    <3>. QED  BY <1>1, <1>6, <1>7, <1>9, <1>11, <1>12, <3>1 DEF Waits
  <2>6. Rests(T, Top', mode')
    BY <1>6, <1>7 DEF Rests, Returning
  <2>. QED  BY <1>7, <1>13, <2>1, <2>2, <2>3, <2>4, <2>5, <2>6, HandlersMoved DEF ThirdInv
<1>15. ReadyInv'
  <2>1. \A i \in n + 1 .. Len(cstack') : MayContinue(T.ci, cstack'[i - 1], cstack'[i])
    <3>1. cstack'[n] = Top
      BY <1>8
    <3>. QED  BY <1>3, <1>9, <1>10, <1>11, <3>1 DEF MayContinue
  <2>2. ~(S.status = "YIELD" \/ Returning(Top, mode))
    BY <1>1, RunMode DEF Returning
  <2>3. \A j \in n + 1 .. Len(cstack) : FALSE
    BY <1>8
  <2>4. ASSUME NEW e \in Suspended(T.ci)
        PROVE  e \in Suspended(S.ci) \/ \A d \in CFrames(T.ci, e - 1) : T.ci[d].k
    <3>1. CASE e \in Suspended(S.ci)
      BY <3>1
    <3>2. CASE e = Depth
      <4>1. \A d \in CFrames(T.ci, Depth - 1) : d \in CFrames(S.ci, Depth - 1) /\ d \in 1 .. Depth
        BY <1>8, <1>12 DEF CFrames
      <4>2. \A d \in CFrames(S.ci, Depth - 1) : S.ci[d].k
        BY <1>1, LowerReady DEF ThirdInv
      <4>. QED  BY <1>12, <3>2, <4>1, <4>2
    <3>. QED  BY <1>12, <3>1, <3>2
  <2>5. \A d \in 1 .. NewCi : d > Depth => FALSE
    BY <1>8
  <2>6. \A d \in 1 .. NewCi : d <= Depth => /\ d \in LuaFrames(T.ci) <=> d \in LuaFrames(S.ci)
                                            /\ S.ci[d].k => T.ci[d].k
    BY <1>8, <1>12
  <2>. QED  BY <1>7, <2>1, <2>2, <2>3, <2>4, <2>5, <2>6, ReadyKept DEF ThirdInv
<1>16. RoomInv'
  <2>1. \A j \in n + 1 .. Len(cstack) : FALSE
    BY <1>8
  <2>2. ~Handling(mode) /\ (T.big => S.big) /\ (NewCi > MAXFRAMES => S.big \/ Depth > MAXFRAMES)
    BY <1>1, <1>8, <1>10 DEF Handling, ErrorStatus
  <2>3. \A d \in Suspended(T.ci) : d <= MAXFRAMES
    <3>1. \A d \in Suspended(S.ci) : d <= MAXFRAMES
      BY RunningRoom DEF ThirdInv, SizeOK
    <3>2. Depth <= MAXFRAMES
      BY <1>8, <1>13, LimitsAssumption
    <3>. QED  BY <1>12, <3>1, <3>2
  <2>. QED  BY <1>7, <2>1, <2>2, <2>3, RoomKept DEF ThirdInv
<1>. QED  BY <1>14, <1>15, <1>16 DEF ThirdInv


(* luaD_pcall catches an error: what is left.                              *)
LEMMA CatchShape ==
  ASSUME CountInv, FrameInv, CatchInPcall
  PROVE  LET c == Catcher
             p == cstack[c]
         IN \E n : /\ Own(n) /\ Len(cstack') = n /\ Top' = cstack[n]
                   /\ n + 1 \in 2 .. Len(cstack) /\ c \in 2 .. Len(cstack)
                   /\ c = n + 1 \/ (c = n + 2 /\ cstack[n + 1].kind = "gctm")
                   /\ p.kind = "pcall" /\ p.th = Running /\ p.ci \in 1 .. Depth
                   /\ \A j \in c + 1 .. Len(cstack) : cstack[j].kind \notin {"host", "pcall", "resume"}
                   /\ Len(T.ci) = p.ci /\ \A d \in 1 .. p.ci : T.ci[d] = S.ci[d]
                   /\ T.errfunc = p.oerr /\ (T.big => p.ci > MAXFRAMES)
                   /\ Thrown /\ mode' \in {"run"} \union ErrorStatus \union {"YIELD"}
<1>. DEFINE c == Catcher
            p == cstack[c]
            caller == cstack[c - 1]
            s1 == CutFrames(S, p.ci)
            s2 == [s1 EXCEPT !.allowhook = p.oah, !.nny = p.nny, !.nCcalls = p.ncc,
                             !.errfunc = p.oerr, !.armed = @ /\ caller.kind /= "host"]
            s == ShrinkStack(s2)
            t == [s EXCEPT !.allowhook = caller.oah]
<1>1. Thrown /\ p.kind = "pcall"
  BY DEF CatchInPcall
<1>2. c \in 2 .. Len(cstack) /\ c - 1 \in 1 .. Len(cstack) /\ p \in Activation /\ caller \in Activation
      /\ p.th = Running /\ Made(caller, p) /\ c \in 1 .. Len(cstack) /\ Len(cstack) \in Nat /\ c \in Nat
      /\ \A j \in c + 1 .. Len(cstack) : cstack[j].kind \notin {"host", "pcall", "resume"}
  BY <1>1, ThrownFacts, CatcherFacts, RunningFacts
<1>3. caller.th = Running
  BY <1>1, <1>2 DEF Made
<1>4. p.oah \in BOOLEAN /\ p.nny \in Int /\ p.ncc \in Int /\ p.oerr \in Nat /\ p.ci \in Nat
  BY <1>1, <1>2 DEF Activation
<1>5. p.ci \in 1 .. Depth
  BY <1>2, FrameInvFacts DEF FramesExist, S
<1>6. s1 \in ThreadState /\ Len(s1.ci) = p.ci /\ \A d \in 1 .. p.ci : s1.ci[d] = S.ci[d]
  BY <1>5, CutIs
<1>7. s2 \in ThreadState /\ s2.ci = s1.ci /\ s2.errfunc = p.oerr
  <2>. HIDE DEF s1, p
  <2>1. (s1.armed /\ caller.kind /= "host") \in BOOLEAN
    OBVIOUS
  <2>. QED  BY <1>4, <1>6, <2>1 DEF ThreadState
<1>8. s \in ThreadState /\ s.ci = s1.ci /\ s.errfunc = p.oerr /\ (s.big => p.ci > MAXFRAMES)
  <2>. HIDE DEF s1, s2, p
  <2>1. (s2.big /\ Len(s2.ci) > MAXFRAMES) \in BOOLEAN
    OBVIOUS
  <2>2. s = [s2 EXCEPT !.big = s2.big /\ Len(s2.ci) > MAXFRAMES]
    BY DEF ShrinkStack
  <2>3. s \in ThreadState /\ s.ci = s2.ci /\ s.errfunc = s2.errfunc
    BY <1>7, <2>1, <2>2 DEF ThreadState
  <2>4. s.big => Len(s2.ci) > MAXFRAMES
    BY <1>7, <2>2 DEF ThreadState
  <2>. QED  BY <1>6, <1>7, <2>3, <2>4
<1>9. IF caller.kind = "gctm"
      THEN /\ cstack' = SubSeq(SubSeq(cstack, 1, c - 1), 1, Len(SubSeq(cstack, 1, c - 1)) - 1)
           /\ Update(t)
           /\ mode' = IF mode = "ERRRUN" THEN "ERRGCMM" ELSE mode
      ELSE cstack' = SubSeq(cstack, 1, c - 1) /\ Update(s) /\ mode' = "run"
  BY DEF CatchInPcall
<1>. HIDE DEF s1, s2, s
<1>10. mode' \in {"run"} \union ErrorStatus \union {"YIELD"}
  BY <1>1, <1>9 DEF Thrown, ErrorStatus
<1>11. CASE caller.kind /= "gctm"
  <2>. DEFINE n == c - 1
  <2>1. cstack' = SubSeq(cstack, 1, n) /\ Update(s)
    BY <1>9, <1>11
  <2>2. n \in 1 .. Len(cstack) /\ cstack[n].th = Running /\ c = n + 1 /\ n + 1 \in 2 .. Len(cstack)
    BY <1>2, <1>3
  <2>. HIDE DEF n
  <2>3. Own(n) /\ T = s /\ Len(cstack') = n /\ Top' = cstack[n]
    BY <2>1, <2>2, OwnCut
  <2>4. Len(T.ci) = p.ci /\ (\A d \in 1 .. p.ci : T.ci[d] = S.ci[d]) /\ T.errfunc = p.oerr
        /\ (T.big => p.ci > MAXFRAMES)
    BY <1>6, <1>8, <2>3
  <2>. QED  BY <1>1, <1>2, <1>5, <1>10, <2>2, <2>3, <2>4
<1>12. CASE caller.kind = "gctm"
  <2>. DEFINE n == c - 2
  <2>1. c - 1 \in 2 .. Len(cstack) /\ c - 1 - 1 = n /\ n \in 1 .. Len(cstack) /\ n + 1 = c - 1
        /\ n + 1 \in 2 .. Len(cstack) /\ c = n + 2
    <3>1. cstack[1].kind = "host"
      BY RunningFacts DEF StackOK, Host
    <3>2. c /= 2
      BY <1>12, <3>1
    <3>. QED  BY <1>2, <3>2
  <2>2. Made(cstack[n], cstack[c - 1])
    BY <2>1, RunningFacts DEF StackOK
  <2>3. cstack[n].th = Running
    BY <1>3, <1>12, <2>2 DEF Made
  <2>4. cstack' = SubSeq(cstack, 1, n)
    <3>1. c - 1 \in 0 .. Len(cstack) /\ n \in 0 .. Len(cstack)
      BY <1>2, <2>1
    <3>2. Len(SubSeq(cstack, 1, c - 1)) = c - 1
      BY <3>1, Cut, RunningFacts
    <3>3. SubSeq(SubSeq(cstack, 1, c - 1), 1, n) = SubSeq(cstack, 1, n)
      BY <2>1, <3>1, RunningFacts
    <3>. QED  BY <1>9, <1>12, <2>1, <3>2, <3>3
  <2>5. caller.oah \in BOOLEAN
    BY <1>2, <1>12 DEF Activation
  <2>6. t \in ThreadState /\ t.ci = s.ci /\ t.errfunc = s.errfunc /\ t.big = s.big
    BY <1>8, <2>5 DEF ThreadState
  <2>7. Update(t)
    BY <1>9, <1>12
  <2>. HIDE DEF t, n
  <2>8. Own(n) /\ T = t /\ Len(cstack') = n /\ Top' = cstack[n]
    BY <2>1, <2>3, <2>4, <2>7, OwnCut
  <2>9. Len(T.ci) = p.ci /\ (\A d \in 1 .. p.ci : T.ci[d] = S.ci[d]) /\ T.errfunc = p.oerr
        /\ (T.big => p.ci > MAXFRAMES)
    BY <1>6, <1>8, <2>6, <2>8
  <2>10. cstack[n + 1].kind = "gctm"
    BY <1>12, <2>1
  <2>. QED  BY <1>1, <1>2, <1>5, <1>10, <2>1, <2>8, <2>9, <2>10
<1>. QED  BY <1>11, <1>12

LEMMA CatchInPcallThird ==
  ASSUME CountInv, FrameInv, ThirdInv, CountInv', FrameInv', CatchInPcall
  PROVE  ThirdInv'
<1>. DEFINE c == Catcher  p == cstack[c]
<1>1. PICK n : /\ Own(n) /\ Len(cstack') = n /\ Top' = cstack[n]
               /\ n + 1 \in 2 .. Len(cstack) /\ c \in 2 .. Len(cstack)
               /\ c = n + 1 \/ (c = n + 2 /\ cstack[n + 1].kind = "gctm")
               /\ p.kind = "pcall" /\ p.th = Running /\ p.ci \in 1 .. Depth
               /\ \A j \in c + 1 .. Len(cstack) : cstack[j].kind \notin {"host", "pcall", "resume"}
               /\ Len(T.ci) = p.ci /\ \A d \in 1 .. p.ci : T.ci[d] = S.ci[d]
               /\ T.errfunc = p.oerr /\ (T.big => p.ci > MAXFRAMES)
               /\ Thrown /\ mode' \in {"run"} \union ErrorStatus \union {"YIELD"}
  BY CatchShape
<1>. HIDE DEF c
<1>2. /\ n \in Nat \ {0} /\ Len(cstack) \in Nat /\ Top = cstack[Len(cstack)] /\ c \in Nat /\ c \in 1 .. Len(cstack)
      /\ Depth \in Nat /\ NewCi = p.ci /\ NewCi <= Depth /\ NewCi \in Nat /\ n <= c - 1 /\ c - 1 \in Nat
      /\ \A j \in 1 .. n : cstack'[j] = cstack[j]
  BY <1>1, OwnPlaces
<1>3. /\ \A d : d \in Suspended(T.ci) <=> d \in Suspended(S.ci) /\ d <= NewCi
      /\ \A d \in 1 .. NewCi : d <= Depth => /\ d \in LuaFrames(T.ci) <=> d \in LuaFrames(S.ci)
                                             /\ S.ci[d].k => T.ci[d].k
  BY <1>1, <1>2, CutSuspended
<1>4. Older(S.ci, cstack, c) /\ Suspended(T.ci) = Suspended(S.ci)
  <2>1. Older(S.ci, cstack, c)
    BY <1>1, <1>2, RunningHandlers DEF ThirdInv
  <2>2. \A d \in Suspended(S.ci) : d <= NewCi
    BY <1>1, <1>2, <2>1 DEF Older
  <2>. QED  BY <1>3, <2>1, <2>2
<1>5. \A j \in 1 .. c - 1 : cstack[j].kind \in {"pcall", "errormsg"} => j \in 1 .. n /\ cstack'[j] = cstack[j]
  BY <1>1, <1>2
<1>6. cstack[n + 1].kind \in {"pcall", "gctm"}
  BY <1>1
<1>7. HandlersInv'
  <2>1. T.errfunc \in HandlerFrames(T.ci, cstack', Running, Len(cstack'))
    <3>1. p.oerr \in HandlerFrames(S.ci, cstack, Running, c - 1)
      BY <1>1, <1>4 DEF Older
    <3>2. PcallFrames(cstack, Running, c - 1) \subseteq PcallFrames(cstack', Running, n)
      BY <1>5 DEF PcallFrames
    <3>. QED  BY <1>1, <1>4, <3>1, <3>2 DEF HandlerFrames
  <2>2. \A i \in n + 1 .. Len(cstack') : FALSE
    BY <1>1, <1>2
  <2>3. Rests(T, Top', mode')
    <3>1. (n + 1) - 1 = n /\ cstack[n].th = Running
      BY <1>1, <1>2 DEF Own
    <3>2. Waits(S.ci, cstack[n], cstack[n + 1])
      BY <1>1, <3>1, RunningHandlers DEF ThirdInv
    <3>3. ~Returning(Top', mode')
      BY <1>1 DEF Returning, ErrorStatus
    <3>. QED  BY <1>1, <1>4, <1>6, <3>2, <3>3 DEF Rests, Waits
  <2>4. \A d \in Suspended(S.ci) : T.ci[d].oerr = S.ci[d].oerr
    <3>1. \A d \in Suspended(S.ci) : d \in 1 .. NewCi
      BY <1>1, <1>3, <1>4, OwnPlaces DEF Suspended
    <3>. QED  BY <1>1, <1>2, <3>1
  <2>. QED  BY <1>1, <1>4, <2>1, <2>2, <2>3, <2>4, HandlersKept DEF ThirdInv
<1>8. ReadyInv'
  <2>1. \A j \in n + 1 .. Len(cstack) : j <= c => cstack[j].kind \in {"pcall", "gctm"}
    BY <1>1, <1>2
  <2>2. ASSUME NEW j \in n + 1 .. Len(cstack), cstack[j].kind = "cfun"
        PROVE  cstack[j].ci > NewCi
    <3>1. j \in c + 1 .. Len(cstack) /\ c \in 1 .. j - 1 /\ j \in 1 .. Len(cstack) /\ j \in n .. Len(cstack)
      BY <1>2, <2>1, <2>2
    <3>2. InOrder(cstack, j) /\ cstack[j].th = Running
      BY <1>1, <3>1, FrameInvFacts, OwnFacts DEF FramesOK, FrameInv
    <3>3. cstack[j].ci \in Nat /\ p.ci < cstack[j].ci
      BY <1>1, <2>2, <3>1, <3>2, TopFrame DEF InOrder, Bodies
    <3>. QED  BY <1>2, <3>3
  <2>3. ASSUME NEW j \in n + 1 .. Len(cstack), cstack[j].kind = "hook"
        PROVE  cstack[j - 1].kind /= "resume"
    <3>1. j - 1 = c \/ j - 1 \in c + 1 .. Len(cstack)
      BY <1>2, <2>1, <2>3
    <3>. QED  BY <1>1, <3>1
  <2>4. /\ \A i \in n + 1 .. Len(cstack') : MayContinue(T.ci, cstack'[i - 1], cstack'[i])
        /\ \A d \in 1 .. NewCi : d > Depth => d \in LuaFrames(T.ci) \/ InUse(cstack', Running, d)
    BY <1>1, <1>2
  <2>5. ~(S.status = "YIELD" \/ Returning(Top, mode))
    <3>1. mode \in ErrorStatus \union {"YIELD"} /\ ~Returning(Top, mode)
      BY <1>1 DEF Thrown, Returning, ErrorStatus
    <3>2. ASSUME S.status = "YIELD" PROVE FALSE
      <4>1. S.nny = 0 /\ Top.kind \in Bodies
        BY <3>2, RunningFacts DEF InMode
      <4>2. cstack[c].kind \in Bodies \union {"call", "resume"}
        BY <1>1, <1>2, <4>1, YieldableHooks
      <4>. QED  BY <1>1, <4>2 DEF Bodies
    <3>. QED  BY <3>1, <3>2
  <2>. QED  BY <1>1, <1>3, <1>4, <2>2, <2>3, <2>4, <2>5, ReadyKept DEF ThirdInv
<1>9. RoomInv'
  <2>1. p.ci > MAXFRAMES => Overflow(cstack', Running, Len(cstack'))
    <3>1. ASSUME p.ci > MAXFRAMES PROVE Overflow(cstack', Running, n)
      <4>1. Overflow(cstack, Running, c - 1)
        BY <1>1, <1>2, <3>1, RunningRoom DEF ThirdInv
      <4>. QED  BY <1>5, <4>1 DEF Overflow
    <3>. QED  BY <1>1, <3>1
  <2>2. T.big => Len(T.ci) >= MAXFRAMES
    BY <1>1, <1>2, LimitsAssumption
  <2>3. SizeOK(T, cstack', Running, mode')
    <3>1. \A d \in Suspended(T.ci) : d <= MAXFRAMES
      BY <1>4, RunningRoom DEF ThirdInv, SizeOK
    <3>. QED  BY <1>1, <2>1, <3>1 DEF SizeOK
  <2>4. \A i \in 1 .. Len(cstack') : ~(i > n)
    BY <1>1, <1>2
  <2>. QED  BY <1>1, <2>2, <2>3, <2>4, OwnRoom DEF ThirdInv
<1>. QED  BY <1>7, <1>8, <1>9 DEF ThirdInv


-----------------------------------------------------------------------------
(* Functions that go on in a coroutine.                                    *)

LEMMA FinishIs ==
  ASSUME NEW s \in ThreadState, NEW i \in DOMAIN s.ci
  PROVE  LET t == FinishCcall(s, i)
         IN /\ t \in ThreadState /\ Len(t.ci) = Len(s.ci) /\ t.big = s.big /\ t.status = s.status
            /\ t.errfunc = (IF s.ci[i].yp THEN s.ci[i].oerr ELSE s.errfunc)
            /\ \A d \in 1 .. Len(s.ci) : d /= i => t.ci[d] = s.ci[d]
            /\ ~t.ci[i].yp /\ t.ci[i].lua = s.ci[i].lua /\ t.ci[i].k = s.ci[i].k
<1>. DEFINE f == [s.ci[i] EXCEPT !.yp = FALSE]  t == FinishCcall(s, i)
            e == IF s.ci[i].yp THEN s.ci[i].oerr ELSE s.errfunc
<1>1. s.ci \in Seq(Frame) /\ s.ci[i] \in Frame /\ s.errfunc \in Nat /\ i \in 1 .. Len(s.ci)
  BY DEF ThreadState
<1>2. f \in Frame /\ f.lua = s.ci[i].lua /\ f.k = s.ci[i].k /\ ~f.yp
  BY <1>1 DEF Frame
<1>3. e \in Nat
  BY <1>1 DEF Frame
<1>4. [s.ci EXCEPT ![i] = f] \in Seq(Frame)
  BY <1>1, <1>2
<1>5. t.ci = [s.ci EXCEPT ![i] = f] /\ t.errfunc = e /\ t.big = s.big /\ t.status = s.status
  BY <1>1 DEF FinishCcall, ThreadState
<1>6. t = [s EXCEPT !.ci = [s.ci EXCEPT ![i] = f], !.errfunc = e]
  BY <1>1 DEF FinishCcall, ThreadState
<1>. HIDE DEF f, t, e
<1>7. t \in ThreadState
  BY <1>3, <1>4, <1>6 DEF ThreadState
<1>8. Len(t.ci) = Len(s.ci) /\ t.ci[i] = f /\ \A d \in 1 .. Len(s.ci) : d /= i => t.ci[d] = s.ci[d]
  BY <1>1, <1>5
<1>. QED  BY <1>2, <1>5, <1>7, <1>8 DEF t, e

LEMMA EnteredIs ==
  ASSUME NEW s \in ThreadState, NEW i \in DOMAIN s.ci
  PROVE  LET t == Entered(s, i)
         IN /\ t \in ThreadState /\ Len(t.ci) = Len(s.ci) /\ t.big = s.big /\ t.status = s.status
            /\ t.errfunc = s.errfunc
            /\ \A d \in 1 .. Len(s.ci) : /\ t.ci[d].lua = s.ci[d].lua /\ t.ci[d].yp = s.ci[d].yp
                                         /\ t.ci[d].oerr = s.ci[d].oerr /\ t.ci[d].k = s.ci[d].k
<1>. DEFINE f == [s.ci[i] EXCEPT !.fresh = TRUE]  t == Entered(s, i)
<1>1. s.ci \in Seq(Frame) /\ s.ci[i] \in Frame /\ i \in 1 .. Len(s.ci)
  BY DEF ThreadState
<1>2. f \in Frame /\ f.lua = s.ci[i].lua /\ f.k = s.ci[i].k /\ f.yp = s.ci[i].yp /\ f.oerr = s.ci[i].oerr
  BY <1>1 DEF Frame
<1>3. [s.ci EXCEPT ![i] = f] \in Seq(Frame)
  BY <1>1, <1>2
<1>4. t = [s EXCEPT !.ci = [s.ci EXCEPT ![i] = f]]
  BY <1>1 DEF Entered, ThreadState
<1>. HIDE DEF f, t
<1>5. t \in ThreadState /\ t.ci = [s.ci EXCEPT ![i] = f] /\ t.errfunc = s.errfunc /\ t.big = s.big /\ t.status = s.status
  BY <1>3, <1>4 DEF ThreadState
<1>6. Len(t.ci) = Len(s.ci) /\ t.ci[i] = f /\ \A d \in 1 .. Len(s.ci) : d /= i => t.ci[d] = s.ci[d]
  BY <1>1, <1>5
<1>. QED  BY <1>2, <1>5, <1>6 DEF t

LEMMA OwnCutPush ==
  ASSUME CountInv, NEW t, Update(t), NEW n \in 1 .. Len(cstack), cstack[n].th = Running,
         NEW b \in Activation, b.th = Running, cstack' = Append(SubSeq(cstack, 1, n), b)
  PROVE  Own(n) /\ T = t /\ Len(cstack') = n + 1 /\ cstack'[n + 1] = b /\ Top' = b
<1>1. StackFacts
  BY StackPrimed
<1>2. /\ SubSeq(cstack, 1, n) \in Seq(Activation) /\ Len(SubSeq(cstack, 1, n)) = n
      /\ \A j \in 1 .. n : SubSeq(cstack, 1, n)[j] = cstack[j]
  BY <1>1, Cut DEF StackFacts
<1>3. Len(cstack') = n + 1 /\ cstack'[n + 1] = b /\ \A j \in 1 .. n : cstack'[j] = cstack[j]
  <2>. DEFINE cs == SubSeq(cstack, 1, n)
  <2>. HIDE DEF cs
  <2>. QED  BY <1>2, Pushed DEF cs
<1>4. \A j \in n + 1 .. Len(cstack) : cstack[j].th = Running
  <2>1. \A j \in n .. Len(cstack) : cstack[j].th = cstack[Len(cstack)].th
    BY <1>1, Segment DEF StackFacts
  <2>. QED  BY <1>1, <2>1 DEF StackFacts
<1>5. Own(n) /\ T = t
  BY <1>1, <1>3, <1>4 DEF Own, Moves, T, Update, StackFacts
<1>6. Top' = b
  BY <1>3 DEF Top
<1>. QED  BY <1>3, <1>5, <1>6

(* A thread has nothing on the C stack before its resume.                  *)
LEMMA ResumeFirst ==
  ASSUME NEW cs, StackOK(cs), NEW r \in 1 .. Len(cs), cs[r].kind = "resume"
  PROVE  \A j \in 1 .. r - 1 : cs[j].th /= cs[r].th
<1>1. PICK i \in 1 .. r : /\ \A j \in i .. r : cs[j].th = cs[r].th
                          /\ \A j \in 1 .. i - 1 : cs[j].th /= cs[r].th
                          /\ \A j \in i + 1 .. r : cs[j].kind \notin {"host", "resume"}
  BY DEF StackOK, Together
<1>2. i = r
  <2>1. ~(r \in i + 1 .. r)
    BY <1>1
  <2>. QED  BY <2>1
<1>. QED  BY <1>1, <1>2

(* After a resume of the thread, a C function goes on.                     *)
LEMMA ContinueThird ==
  ASSUME CountInv, FrameInv, ThirdInv, CountInv', FrameInv',
         NEW c \in 1 .. Len(cstack), cstack[c].kind = "resume", NEW i \in 1 .. Depth,
         Own(c), Len(cstack') = c + 1, Top'.kind = "cfun", Top'.ci = i, mode' = "run",
         Len(T.ci) = i, \A d \in 1 .. i : d /= i => T.ci[d] = S.ci[d],
         ~T.ci[i].yp, T.ci[i].lua = S.ci[i].lua,
         \A d \in CFrames(S.ci, i - 1) : S.ci[d].k,
         T.errfunc \in {0} \union {e \in Suspended(S.ci) : e < i},
         i <= MAXFRAMES, ~T.big
  PROVE  ThirdInv'
<1>1. /\ c \in Nat \ {0} /\ cstack[c].th = Running /\ Depth \in Nat /\ i \in Nat
      /\ DOMAIN T.ci = 1 .. i /\ DOMAIN S.ci = 1 .. Depth /\ T.ci \in Seq(Frame)
      /\ Top' = cstack'[c + 1] /\ \A j \in 1 .. c : cstack'[j] = cstack[j]
      /\ NewCi = i
  BY OwnPlaces DEF Own
<1>2. \A j \in 1 .. c - 1 : cstack[j].th /= Running
  BY <1>1, ResumeFirst, RunningFacts
<1>3. /\ \A d : d \in Suspended(T.ci) <=> d \in Suspended(S.ci) /\ d < i
      /\ \A d \in 1 .. i : d \in LuaFrames(T.ci) <=> d \in LuaFrames(S.ci)
  <2>1. \A d : d \in Suspended(T.ci) <=> d \in Suspended(S.ci) /\ d < i
    BY <1>1 DEF Suspended
  <2>2. \A d \in 1 .. i : d \in LuaFrames(T.ci) <=> d \in LuaFrames(S.ci)
    BY <1>1 DEF LuaFrames
  <2>. QED  BY <2>1, <2>2
<1>4. c + 1 \in 2 .. Len(cstack') /\ (c + 1) - 1 = c /\ \A j \in c + 1 .. Len(cstack') : j = c + 1
  BY <1>1
<1>5. HandlersInv'
  <2>1. \A j \in 1 .. c : cstack[j].th = Running => j = c
    BY <1>1, <1>2
  <2>2. \A j \in 1 .. c - 1 : cstack[j].th = Running /\ cstack[j].kind = "cfun" => FALSE
    BY <1>2
  <2>3. T.errfunc \in {0} \union Suspended(T.ci)
    BY <1>3
  <2>4. ASSUME NEW d \in Suspended(T.ci)
        PROVE  T.ci[d].oerr \in {0} \union {e \in Suspended(T.ci) : e < d}
    <3>1. d \in Suspended(S.ci) /\ d < i /\ d \in 1 .. i
      BY <1>1, <1>3 DEF Suspended
    <3>2. S.ci[d].oerr \in {0} \union {e \in Suspended(S.ci) : e < d} /\ T.ci[d] = S.ci[d]
      BY <3>1, RunningHandlers DEF ThirdInv, ErrfuncOK
    <3>3. \A e \in Suspended(S.ci) : e < d => e \in Suspended(T.ci)
      <4>1. \A e \in Suspended(S.ci) : e \in Nat
        BY <1>1 DEF Suspended
      <4>. QED  BY <1>1, <1>3, <3>1, <4>1
    <3>. QED  BY <3>2, <3>3
  <2>5. \A j \in c + 1 .. Len(cstack') : Older(T.ci, cstack', j)
    BY <1>1, <1>4 DEF Older
  <2>6. \A j \in c + 1 .. Len(cstack') : Waits(T.ci, cstack'[j - 1], cstack'[j])
    BY <1>1, <1>4 DEF Waits
  <2>7. Rests(T, Top', mode')
    BY <1>3 DEF Rests, Returning
  <2>. QED  BY <2>1, <2>2, <2>3, <2>4, <2>5, <2>6, <2>7, HandlersMoved DEF ThirdInv
<1>6. ReadyInv'
  <2>1. ASSUME NEW j \in 2 .. Len(cstack'), cstack'[j - 1].th = Running
        PROVE  MayContinue(T.ci, cstack'[j - 1], cstack'[j])
    <3>1. j - 1 \in 1 .. c - 1 \/ j - 1 = c
      BY <1>1
    <3>2. j - 1 = c
      BY <1>1, <1>2, <2>1, <3>1
    <3>. QED  BY <1>1, <3>2 DEF MayContinue
  <2>2. LeftOK(T, cstack', Running, mode')
    <3>1. ASSUME NEW d \in CFrames(T.ci, i)
          PROVE  T.ci[d].k \/ InUse(cstack', Running, d)
      <4>1. CASE d = i
        <5>1. cstack'[c + 1].th = Running
          BY <1>1, <1>4 DEF Own, Moves
        <5>. QED  BY <1>1, <1>4, <4>1, <5>1 DEF InUse
      <4>2. CASE d /= i
        <5>1. d \in CFrames(S.ci, i - 1) /\ d \in 1 .. i
          BY <1>1, <1>3, <4>2 DEF CFrames
        <5>. QED  BY <4>2, <5>1
      <4>. QED  BY <4>1, <4>2
    <3>2. ASSUME NEW e \in Suspended(T.ci), NEW d \in CFrames(T.ci, e - 1)
          PROVE  T.ci[d].k
      <4>1. e \in 1 .. i /\ e < i
        BY <1>1, <1>3 DEF Suspended
      <4>2. d \in CFrames(S.ci, i - 1) /\ d \in 1 .. i /\ d /= i
        BY <1>1, <1>3, <4>1 DEF CFrames
      <4>. QED  BY <4>2
    <3>. QED  BY <3>1, <3>2 DEF LeftOK
  <2>. QED  BY <2>1, <2>2, OwnReady DEF ThirdInv
<1>7. RoomInv'
  <2>1. \A d \in Suspended(T.ci) : d <= MAXFRAMES
    BY <1>3, RunningRoom DEF ThirdInv, SizeOK
  <2>2. SizeOK(T, cstack', Running, mode')
    BY <1>1, <2>1, LimitsAssumption DEF SizeOK
  <2>3. \A j \in 1 .. Len(cstack') : j > c => ~(cstack'[j].ci > MAXFRAMES)
    <3>1. \A j \in 1 .. Len(cstack') : j > c => j = c + 1
      BY <1>1
    <3>. QED  BY <1>1, <3>1, LimitsAssumption
  <2>. QED  BY <2>2, <2>3, OwnRoom DEF ThirdInv
<1>. QED  BY <1>5, <1>6, <1>7 DEF ThirdInv


(* An error goes on in the innermost suspended lua_pcallk.                 *)
Continues(c, i) ==
  /\ c \in 1 .. Len(cstack) /\ cstack[c].kind = "resume" /\ cstack[c].th = Running /\ i \in 1 .. Depth
  /\ Own(c) /\ Len(cstack') = c + 1 /\ cstack'[c + 1] = Top' /\ Top'.kind = "cfun" /\ Top'.ci = i /\ mode' = "run"
  /\ Len(T.ci) = i /\ \A d \in 1 .. i : d /= i => T.ci[d] = S.ci[d]
  /\ ~T.ci[i].yp /\ T.ci[i].lua = S.ci[i].lua

LEMMA RecoverShape ==
  ASSUME CountInv, FrameInv, CountInv', Recover
  PROVE  \E i : /\ Thrown /\ Continues(Catcher, i) /\ S.ci[i].yp /\ \A d \in Suspended(S.ci) : d <= i
                /\ T.errfunc = S.ci[i].oerr /\ (T.big => i > MAXFRAMES)
<1>. DEFINE c == Catcher
            i == Max(RecoverPoints)
            s1 == CutFrames(S, i)
            s2 == [s1 EXCEPT !.allowhook = S.ci[i].oah, !.nny = 0, !.nCcalls = cstack[c].ncc]
            s == ShrinkStack(s2)
            t == FinishCcall(s, i)
            b == Kind("cfun", i)
<1>1. Thrown /\ mode /= "YIELD" /\ cstack[c].kind = "resume" /\ Update(t)
      /\ cstack' = Append(SubSeq(cstack, 1, c), b) /\ mode' = "run" /\ RecoverPoints /= {}
  BY DEF Recover, RecoverAt
<1>2. i \in 1 .. Depth /\ S.ci[i].yp
  <2>1. RecoverPoints \in SUBSET (1 .. Depth)
    BY DEF RecoverPoints
  <2>2. i \in RecoverPoints
    BY <1>1, <2>1, LargestMember, RunningFacts
  <2>. QED  BY <2>2 DEF RecoverPoints
<1>2a. \A d \in Suspended(S.ci) : d <= i
  <2>1. RecoverPoints \in SUBSET (1 .. Depth) /\ Depth \in Nat /\ DOMAIN S.ci = 1 .. Depth
    BY FrameInvFacts, RunningFacts DEF RecoverPoints
  <2>2. \A d \in RecoverPoints : d <= i
    BY <1>1, <2>1, LargestMember
  <2>3. \A d \in Suspended(S.ci) : d \in RecoverPoints
    BY <2>1 DEF RecoverPoints, Suspended
  <2>. QED  BY <2>2, <2>3
<1>. HIDE DEF i
<1>3. c \in 1 .. Len(cstack) /\ cstack[c].th = Running /\ cstack[c].ncc \in Int
  <2>1. c \in 1 .. Len(cstack) /\ cstack[c].th = Running /\ cstack[c] \in Activation
    BY <1>1, ThrownFacts
  <2>. QED  BY <1>1, <2>1 DEF Activation
<1>. HIDE DEF c
<1>4. S.ci \in Seq(Frame) /\ S.ci[i] \in Frame /\ i \in Suspended(S.ci) /\ Depth = Len(S.ci)
  BY <1>2, RunningFacts DEF Depth, Suspended
<1>5. s1 \in ThreadState /\ ThreadOK(s1) /\ Len(s1.ci) = i /\ (\A d \in 1 .. i : s1.ci[d] = S.ci[d])
  BY <1>2, CutIs
<1>6. s2 \in ThreadState /\ s2.ci = s1.ci
  <2>. DEFINE e == cstack[c].ncc  o == S.ci[i].oah  z == 0
  <2>1. e \in Int /\ z \in Int /\ o \in BOOLEAN
    BY <1>3, <1>4 DEF Frame
  <2>2. s2 = Restored(s1, o, z, e)
    BY DEF Restored
  <2>. HIDE DEF e, o, z, s1, s2
  <2>3. ThreadOK(s2) /\ s2.ci = s1.ci
    BY <1>5, <2>1, <2>2, RestoreOK
  <2>. QED  BY <2>3 DEF ThreadOK
<1>7. s \in ThreadState /\ s.ci = s1.ci /\ (s.big => i > MAXFRAMES)
  <2>. HIDE DEF s1, s2
  <2>1. (s2.big /\ Len(s2.ci) > MAXFRAMES) \in BOOLEAN
    OBVIOUS
  <2>2. s = [s2 EXCEPT !.big = s2.big /\ Len(s2.ci) > MAXFRAMES]
    BY DEF ShrinkStack
  <2>3. s \in ThreadState /\ s.ci = s2.ci
    BY <1>6, <2>1, <2>2 DEF ThreadState
  <2>4. s.big => Len(s2.ci) > MAXFRAMES
    BY <1>6, <2>2 DEF ThreadState
  <2>. QED  BY <1>5, <1>6, <2>3, <2>4
<1>. HIDE DEF s1, s2, s
<1>8. i \in DOMAIN s.ci /\ s.ci[i] = S.ci[i] /\ Len(s.ci) = i /\ \A d \in 1 .. i : s.ci[d] = S.ci[d]
  <2>1. s.ci \in Seq(Frame)
    BY <1>7 DEF ThreadState
  <2>. QED  BY <1>2, <1>5, <1>7, <2>1
<1>9. /\ Len(t.ci) = i /\ t.big = s.big /\ t.errfunc = S.ci[i].oerr
      /\ \A d \in 1 .. i : d /= i => t.ci[d] = S.ci[d]
      /\ ~t.ci[i].yp /\ t.ci[i].lua = S.ci[i].lua
  BY <1>2, <1>7, <1>8, FinishIs
<1>. HIDE DEF t
<1>10. b \in Activation /\ b.kind = "cfun" /\ b.th = Running /\ b.ci = i
  <2>1. i \in Nat
    BY <1>2
  <2>. QED  BY <2>1, BodyAct DEF Bodies
<1>. HIDE DEF b
<1>11. Own(c) /\ T = t /\ Len(cstack') = c + 1 /\ cstack'[c + 1] = b /\ Top' = b
  BY <1>1, <1>3, <1>10, OwnCutPush
<1>12. c = Catcher
  BY DEF c
<1>13. Continues(c, i)
  BY <1>1, <1>2, <1>3, <1>9, <1>10, <1>11 DEF Continues
<1>. QED  BY <1>1, <1>2, <1>2a, <1>7, <1>9, <1>11, <1>12, <1>13

LEMMA RecoverThird ==
  ASSUME CountInv, FrameInv, ThirdInv, CountInv', FrameInv', Recover
  PROVE  ThirdInv'
<1>1. PICK i : /\ Continues(Catcher, i) /\ S.ci[i].yp
               /\ T.errfunc = S.ci[i].oerr /\ (T.big => i > MAXFRAMES)
  BY RecoverShape
<1>2. i \in Suspended(S.ci) /\ i \in 1 .. Depth /\ Own(Catcher)
  BY <1>1, OwnPlaces DEF Continues, Suspended
<1>3. /\ S.ci[i].oerr \in {0} \union {e \in Suspended(S.ci) : e < i}
      /\ \A d \in CFrames(S.ci, i - 1) : S.ci[d].k
      /\ i <= MAXFRAMES
  <2>1. ErrfuncOK(S, cstack, Running) /\ LeftOK(S, cstack, Running, mode) /\ SizeOK(S, cstack, Running, mode)
    BY RunningHandlers, RunningReady, RunningRoom DEF ThirdInv
  <2>. QED  BY <1>2, <2>1 DEF ErrfuncOK, LeftOK, SizeOK
<1>4. ~T.big
  BY <1>1, <1>2, <1>3, LimitsAssumption
<1>. QED  BY <1>1, <1>3, <1>4, ContinueThird DEF Continues

(* lua_resume lets the functions that were left go on.                     *)
LEMMA UnrollThird ==
  ASSUME CountInv, FrameInv, ThirdInv, CountInv', FrameInv', Unroll
  PROVE  ThirdInv'
<1>. DEFINE n == Len(cstack)
<1>1. mode = "run" /\ mode' = "run" /\ Top.kind = "resume" /\ Depth > 1
  BY DEF Unroll, Body
<1>2. /\ n = Len(cstack) /\ n \in Nat \ {0} /\ n \in 1 .. Len(cstack) /\ cstack[n] = Top /\ cstack[n].th = Running
      /\ Depth \in Nat \ {0} /\ Depth = Len(S.ci) /\ S.ci \in Seq(Frame) /\ Depth \in DOMAIN S.ci /\ S \in ThreadState
  BY <1>1, FrameInvFacts, RunningFacts DEF Running
<1>3. ErrfuncOK(S, cstack, Running) /\ LeftOK(S, cstack, Running, mode) /\ SizeOK(S, cstack, Running, mode)
  BY RunningHandlers, RunningReady, RunningRoom DEF ThirdInv
<1>4. CASE IsLua
  <2>. DEFINE t == Entered(S, Depth)  b == Kind("exec", Depth)
  <2>1. cstack' = Append(cstack, b) /\ Update(t)
    BY <1>4 DEF Unroll, Entered
  <2>2. /\ Len(t.ci) = Depth /\ t.big = S.big /\ t.errfunc = S.errfunc
        /\ \A d \in 1 .. Depth : /\ t.ci[d].lua = S.ci[d].lua /\ t.ci[d].yp = S.ci[d].yp
                                 /\ t.ci[d].oerr = S.ci[d].oerr /\ t.ci[d].k = S.ci[d].k
    BY <1>2, EnteredIs
  <2>3. b \in Activation /\ b.kind = "exec" /\ b.th = Running
    BY <1>2, BodyAct DEF Bodies
  <2>. HIDE DEF t, b
  <2>4. Own(n) /\ T = t /\ Len(cstack') = n + 1 /\ cstack'[n + 1] = b /\ Top' = b
    BY <2>1, <2>3, OwnPush
  <2>5. /\ DOMAIN T.ci = 1 .. Depth /\ DOMAIN S.ci = 1 .. Depth /\ NewCi = Depth
        /\ \A j \in 1 .. n : cstack'[j] = cstack[j]
    BY <2>2, <2>4, OwnPlaces
  <2>6. Suspended(T.ci) = Suspended(S.ci) /\ LuaFrames(T.ci) = LuaFrames(S.ci)
        /\ (\A d \in Suspended(S.ci) : T.ci[d].oerr = S.ci[d].oerr)
        /\ \A d \in 1 .. Depth : S.ci[d].k => T.ci[d].k
    BY <2>2, <2>4, <2>5 DEF Suspended, LuaFrames
  <2>. HIDE DEF n
  <2>7. (n + 1) - 1 = n /\ n <= Len(cstack') /\ (\A j \in n + 1 .. Len(cstack') : j = n + 1)
        /\ cstack'[n] = Top
    BY <1>2, <2>4, <2>5
  <2>7a. \A j \in n + 1 .. Len(cstack) : FALSE
    BY <1>2 DEF n
  <2>8. HandlersInv'
    <3>1. T.errfunc \in HandlerFrames(T.ci, cstack', Running, Len(cstack'))
      <4>1. PcallFrames(cstack, Running, Len(cstack)) \subseteq PcallFrames(cstack', Running, Len(cstack'))
        <5>1. Len(cstack) \in Nat /\ Len(cstack') \in Nat /\ Len(cstack) <= Len(cstack')
              /\ \A j \in 1 .. Len(cstack) : cstack'[j] = cstack[j]
          BY <1>2, <2>4, <2>5
        <5>. QED  BY <5>1, PcallFramesMore
      <4>. QED  BY <1>3, <2>2, <2>4, <2>6, <4>1 DEF ErrfuncOK, HandlerFrames
    <3>2. \A j \in n + 1 .. Len(cstack') : Older(T.ci, cstack', j) /\ Waits(T.ci, cstack'[j - 1], cstack'[j])
      BY <1>1, <2>3, <2>4, <2>7 DEF Older, Waits
    <3>3. Rests(T, Top', mode')
      BY <2>3, <2>4 DEF Rests, Returning
    <3>. QED  BY <2>4, <2>6, <3>1, <3>2, <3>3, HandlersKept DEF ThirdInv
  <2>9. ReadyInv'
    <3>1. \A j \in n + 1 .. Len(cstack') : MayContinue(T.ci, cstack'[j - 1], cstack'[j])
      BY <1>1, <2>7 DEF MayContinue
    <3>2. ~(S.status = "YIELD" \/ Returning(Top, mode))
      BY <1>1, RunMode DEF Returning
    <3>3. \A d \in 1 .. NewCi : /\ d <= Depth => /\ d \in LuaFrames(T.ci) <=> d \in LuaFrames(S.ci)
                                                 /\ S.ci[d].k => T.ci[d].k
                                /\ ~(d > Depth)
      BY <1>2, <2>5, <2>6
    <3>. QED  BY <2>4, <2>6, <2>7a, <3>1, <3>2, <3>3, ReadyKept DEF ThirdInv
  <2>10. RoomInv'
    <3>1. ~Handling(mode) /\ (T.big => S.big) /\ (NewCi > MAXFRAMES => S.big \/ Depth > MAXFRAMES)
      BY <1>1, <2>2, <2>4, <2>5 DEF Handling, ErrorStatus
    <3>2. \A d \in Suspended(T.ci) : d <= MAXFRAMES
      BY <1>3, <2>6 DEF SizeOK
    <3>. QED  BY <2>4, <2>7a, <3>1, <3>2, RoomKept DEF ThirdInv
  <2>. QED  BY <2>8, <2>9, <2>10 DEF ThirdInv
<1>5. CASE ~IsLua
  <2>. DEFINE t == FinishCcall(S, Depth)  b == Kind("cfun", Depth)
  <2>1. cstack' = Append(cstack, b) /\ Update(t)
    BY <1>5 DEF Unroll
  <2>2. /\ Len(t.ci) = Depth /\ t.big = S.big
        /\ t.errfunc = (IF S.ci[Depth].yp THEN S.ci[Depth].oerr ELSE S.errfunc)
        /\ \A d \in 1 .. Depth : d /= Depth => t.ci[d] = S.ci[d]
        /\ ~t.ci[Depth].yp /\ t.ci[Depth].lua = S.ci[Depth].lua
    BY <1>2, FinishIs
  <2>3. b \in Activation /\ b.kind = "cfun" /\ b.th = Running /\ b.ci = Depth
    BY <1>2, BodyAct DEF Bodies
  <2>. HIDE DEF t, b
  <2>4. Own(n) /\ T = t /\ Len(cstack') = n + 1 /\ Top' = b
    BY <2>1, <2>3, OwnPush
  <2>5. \A j \in 1 .. Len(cstack) : cstack[j].th = Running => j = n
    <3>1. \A j \in 1 .. n - 1 : cstack[j].th /= Running
      BY <1>1, <1>2, ResumeFirst, RunningFacts
    <3>. QED  BY <1>2, <3>1
  <2>. HIDE DEF n
  <2>6. /\ PcallFrames(cstack, Running, Len(cstack)) = {} /\ ~Overflow(cstack, Running, Len(cstack))
        /\ \A d : ~InUse(cstack, Running, d)
    <3>1. PcallFrames(cstack, Running, Len(cstack)) = {} /\ ~Overflow(cstack, Running, Len(cstack))
      BY <1>1, <1>2, <2>5 DEF PcallFrames, Overflow
    <3>2. \A j \in 2 .. Len(cstack) : j \in 1 .. Len(cstack)
      OBVIOUS
    <3>3. \A d : ~InUse(cstack, Running, d)
      BY <1>1, <1>2, <2>5, <3>2 DEF InUse
    <3>. QED  BY <3>1, <3>3
  <2>7. T.errfunc \in {0} \union {e \in Suspended(S.ci) : e < Depth}
    <3>1. CASE S.ci[Depth].yp
      <4>1. Depth \in Suspended(S.ci)
        BY <1>2, <3>1 DEF Suspended
      <4>. QED  BY <1>3, <2>2, <2>4, <3>1, <4>1 DEF ErrfuncOK
    <3>2. CASE ~S.ci[Depth].yp
      <4>1. S.errfunc \in {0} \union Suspended(S.ci)
        BY <1>3, <2>6 DEF ErrfuncOK, HandlerFrames
      <4>2. \A e \in Suspended(S.ci) : e < Depth
        <5>1. \A e \in Suspended(S.ci) : e \in 1 .. Depth /\ e /= Depth
          BY <1>2, <3>2 DEF Suspended
        <5>. QED  BY <1>2, <5>1
      <4>. QED  BY <2>2, <2>4, <3>2, <4>1, <4>2
    <3>. QED  BY <3>1, <3>2
  <2>8. \A d \in CFrames(S.ci, Depth - 1) : S.ci[d].k
    <3>1. \A d \in CFrames(S.ci, Depth - 1) : d \in CFrames(S.ci, Len(S.ci)) /\ d /= Len(S.ci)
      BY <1>2 DEF CFrames
    <3>. QED  BY <1>3, <2>6, <3>1 DEF LeftOK
  <2>9. Depth <= MAXFRAMES /\ ~T.big
    <3>1. ~(Len(S.ci) > MAXFRAMES)
      BY <1>3, <2>6 DEF SizeOK
    <3>2. ~Handling(mode)
      BY <1>1 DEF Handling, ErrorStatus
    <3>3. ~S.big
      BY <1>3, <2>6, <3>2 DEF SizeOK
    <3>. QED  BY <1>2, <2>2, <2>4, <3>1, <3>3, LimitsAssumption
  <2>10. Depth \in 1 .. Depth
    BY <1>2
  <2>. QED  BY <1>1, <1>2, <2>2, <2>3, <2>4, <2>7, <2>8, <2>9, <2>10, ContinueThird
<1>. QED  BY <1>4, <1>5


(* The thread that called lua_resume is on, and the coroutine is left.     *)
LEMMA LeaveMoves ==
  ASSUME CountInv, NEW t, Update(t), NEW r \in 1 .. Len(cstack), cstack[r].kind = "resume", cstack[r].th = Running,
         cstack' = SubSeq(cstack, 1, r - 1)
  PROVE  /\ Moves(r - 1, Running) /\ T = t /\ r - 1 \in 1 .. Len(cstack) /\ Len(cstack') = r - 1
         /\ Top' = cstack[r - 1] /\ Top'.kind = "cfun"
         /\ S' = state[cstack[r - 1].th] /\ \A j \in 1 .. Len(cstack') : cstack'[j].th /= Running
         /\ r \in 2 .. Len(cstack)
<1>1. StackFacts
  BY StackPrimed
<1>2. \A j \in 1 .. r - 1 : cstack[j].th /= Running
  BY <1>1, ResumeFirst DEF StackFacts
<1>3. r /= 1
  BY <1>1 DEF StackFacts, StackOK, Host
<1>4. r - 1 \in 1 .. Len(cstack) /\ r \in 2 .. Len(cstack) /\ r - 1 \in 1 .. r - 1 /\ Len(cstack) \in Nat
  BY <1>1, <1>3 DEF StackFacts
<1>5. Len(cstack') = r - 1 /\ \A j \in 1 .. r - 1 : cstack'[j] = cstack[j]
  <2>1. r - 1 \in 0 .. Len(cstack)
    BY <1>4
  <2>. QED  BY <1>1, <2>1, Cut DEF StackFacts
<1>6. \A j \in r .. Len(cstack) : cstack[j].th = Running
  <2>1. \A j \in r .. Len(cstack) : cstack[j].th = cstack[Len(cstack)].th
    BY <1>1, Segment DEF StackFacts
  <2>. QED  BY <1>1, <2>1 DEF StackFacts
<1>7. Moves(r - 1, Running) /\ T = t
  <2>. DEFINE n == r - 1
  <2>1. n + 1 = r /\ n \in 1 .. Len(cstack) /\ n \in 1 .. Len(cstack')
    BY <1>4, <1>5
  <2>2. \A j \in n + 1 .. Len(cstack) : cstack[j].th = Running
    BY <1>6, <2>1
  <2>3. \A j \in n + 1 .. Len(cstack') : cstack'[j].th = Running
    BY <1>4, <1>5
  <2>4. \A j \in 1 .. n : cstack'[j] = cstack[j]
    BY <1>5
  <2>. HIDE DEF n
  <2>5. Moves(n, Running) /\ T = t
    BY <1>1, <2>1, <2>2, <2>3, <2>4 DEF Moves, T, Update, StackFacts
  <2>. QED  BY <2>5 DEF n
<1>8. Top' = cstack[r - 1] /\ cstack[r - 1].th /= Running
  BY <1>2, <1>4, <1>5 DEF Top
<1>9. cstack[r - 1].kind = "cfun"
  <2>1. Made(cstack[r - 1], cstack[r])
    BY <1>1, <1>4 DEF StackFacts, StackOK
  <2>. QED  BY <2>1 DEF Made, Callers, Bodies
<1>10. S' = state[cstack[r - 1].th]
  <2>1. S' = state'[cstack[r - 1].th] /\ cstack[r - 1].th \in Threads
    BY <1>1, <1>4, <1>8 DEF S, Running, StackFacts
  <2>. QED  BY <1>1, <1>8, <2>1 DEF Update, StackFacts
<1>11. \A j \in 1 .. Len(cstack') : cstack'[j].th /= Running
  BY <1>2, <1>5
<1>. QED  BY <1>4, <1>5, <1>7, <1>8, <1>9, <1>10, <1>11

LEMMA LeaveThird ==
  ASSUME CountInv, FrameInv, ThirdInv, CountInv',
         NEW r \in 1 .. Len(cstack), cstack[r].kind = "resume", cstack[r].th = Running,
         NEW t, t.ci = S.ci, t.big = S.big, t.errfunc = S.errfunc, Update(t),
         cstack' = SubSeq(cstack, 1, r - 1), mode' = "run",
         Live(t) => /\ PcallFrames(cstack, Running, Len(cstack)) = {}
                    /\ ~Overflow(cstack, Running, Len(cstack)) /\ ~S.big
                    /\ t.status = "YIELD" => LastNot(S)
                    /\ \A d \in CFrames(S.ci, Len(S.ci)) : S.ci[d].k \/ (d = Len(S.ci) /\ t.status = "YIELD")
  PROVE  ThirdInv'
<1>. DEFINE n == r - 1
<1>1. /\ Moves(n, Running) /\ T = t /\ n \in 1 .. Len(cstack) /\ Len(cstack') = n
      /\ Top' = cstack[n] /\ Top'.kind = "cfun"
      /\ S' = state[cstack[n].th] /\ \A j \in 1 .. Len(cstack') : cstack'[j].th /= Running
      /\ r \in 2 .. Len(cstack) /\ r - 1 = n
  BY LeaveMoves
<1>. HIDE DEF n
<1>2. n \in Nat /\ \A i \in 2 .. Len(cstack') : i - 1 \in 1 .. Len(cstack') /\ ~(i > n)
  BY <1>1
<1>3. ErrfuncOK(S, cstack, Running) /\ LeftOK(S, cstack, Running, mode) /\ SizeOK(S, cstack, Running, mode)
      /\ (S.big => Len(S.ci) >= MAXFRAMES)
  BY RunningHandlers, RunningReady, RunningRoom DEF ThirdInv
<1>4. HandlersInv'
  <2>1. Live(T) => ErrfuncOK(T, cstack', Running)
    <3>1. ASSUME Live(T)
          PROVE  T.errfunc \in HandlerFrames(T.ci, cstack', Running, Len(cstack'))
      BY <1>1, <1>3, <3>1 DEF ErrfuncOK, HandlerFrames
    <3>2. \A d \in Suspended(T.ci) : T.ci[d].oerr \in {0} \union {e \in Suspended(T.ci) : e < d}
      BY <1>1, <1>3 DEF ErrfuncOK
    <3>3. ASSUME Live(T), T.status = "YIELD"
          PROVE  LastNot(T)
      BY <1>1, <3>3 DEF LastNot
    <3>. QED  BY <3>1, <3>2, <3>3 DEF ErrfuncOK
  <2>2. Rests(S', Top', mode')
    <3>1. Waits(Ci(state, cstack, n), cstack[n], cstack[r])
      BY <1>1 DEF ThirdInv, HandlersInv, HandlersOK
    <3>2. cstack[n].ci \notin Suspended(Ci(state, cstack, n))
      BY <1>1, <3>1 DEF Waits
    <3>. QED  BY <1>1, <3>2 DEF Rests, Returning, Ci
  <2>. QED  BY <1>1, <1>2, <2>1, <2>2, MovesHandlers DEF ThirdInv, T
<1>5. ReadyInv'
  <2>1. Live(T) => LeftOK(T, cstack', Running, mode')
    <3>1. ASSUME Live(T)
          PROVE  LeftOK(T, cstack', Running, mode')
      BY <1>1, <1>3, <3>1 DEF LeftOK
    <3>. QED  BY <3>1
  <2>. QED  BY <1>1, <1>2, <2>1, MovesReady DEF ThirdInv, T
<1>6. RoomInv'
  <2>1. Live(T) => SizeOK(T, cstack', Running, mode')
    BY <1>1, <1>3 DEF SizeOK
  <2>2. T.big => Len(T.ci) >= MAXFRAMES
    BY <1>1, <1>3
  <2>3. \A i \in 1 .. Len(cstack') : ~(i > n)
    BY <1>1
  <2>. QED  BY <1>1, <2>1, <2>2, <2>3, MovesRoom DEF ThirdInv, T
<1>. QED  BY <1>4, <1>5, <1>6 DEF ThirdInv


LEMMA ReturnsIs ==
  ASSUME CountInv, NEW r \in 1 .. Len(cstack), cstack[r].kind = "resume", NEW s \in ThreadState, ResumeReturns(s, r)
  PROVE  \E t : /\ Update(t) /\ t.ci = s.ci /\ t.big = s.big /\ t.errfunc = s.errfunc /\ t.status = s.status
                /\ t.body = s.body
                /\ cstack' = SubSeq(cstack, 1, r - 1) /\ mode' = "run"
<1>. DEFINE e == cstack[r].ncc - 1  o == cstack[r].oldnny  t == [s EXCEPT !.nny = o, !.nCcalls = e]
<1>1. Update(t) /\ cstack' = SubSeq(cstack, 1, r - 1) /\ mode' = "run"
  BY DEF ResumeReturns
<1>. HIDE DEF e, o
<1>2. t.ci = s.ci /\ t.big = s.big /\ t.errfunc = s.errfunc /\ t.status = s.status /\ t.body = s.body
  BY DEF ThreadState
<1>. HIDE DEF t
<1>. QED  BY <1>1, <1>2

(* With nothing above its resume a thread has no more on the C stack.      *)
LEMMA OnlyResume ==
  ASSUME CountInv, RoomInv, Top.kind = "resume", mode = "run"
  PROVE  /\ PcallFrames(cstack, Running, Len(cstack)) = {} /\ ~Overflow(cstack, Running, Len(cstack))
         /\ (\A d : ~InUse(cstack, Running, d)) /\ ~S.big /\ ~(Len(S.ci) > MAXFRAMES)
<1>. DEFINE n == Len(cstack)
<1>1. n \in Nat \ {0} /\ n \in 1 .. Len(cstack) /\ cstack[n] = Top /\ cstack[n].th = Running
  BY RunningFacts DEF Running
<1>2. \A j \in 1 .. Len(cstack) : cstack[j].th = Running => j = n
  <2>1. \A j \in 1 .. n - 1 : cstack[j].th /= Running
    BY <1>1, ResumeFirst, RunningFacts
  <2>. QED  BY <1>1, <2>1
<1>. HIDE DEF n
<1>3. PcallFrames(cstack, Running, Len(cstack)) = {} /\ ~Overflow(cstack, Running, Len(cstack))
  BY <1>1, <1>2 DEF PcallFrames, Overflow
<1>4. \A j \in 2 .. Len(cstack) : j \in 1 .. Len(cstack)
  OBVIOUS
<1>5. \A d : ~InUse(cstack, Running, d)
  BY <1>1, <1>2, <1>4 DEF InUse
<1>6. ~Handling(mode) /\ SizeOK(S, cstack, Running, mode)
  BY RunningRoom DEF Handling, ErrorStatus
<1>. QED  BY <1>3, <1>5, <1>6 DEF SizeOK

LEMMA DieThird ==
  ASSUME CountInv, FrameInv, ThirdInv, CountInv', Die
  PROVE  ThirdInv'
<1>. DEFINE s == [S EXCEPT !.status = mode]
<1>1. Thrown /\ mode /= "YIELD" /\ cstack[Catcher].kind = "resume" /\ ResumeReturns(s, Catcher)
  BY DEF Die
<1>2. mode \in ErrorStatus
  BY <1>1 DEF Thrown
<1>3. s \in ThreadState /\ s.ci = S.ci /\ s.status = mode /\ s.big = S.big /\ s.errfunc = S.errfunc
  BY <1>2, RunningFacts DEF ThreadState
<1>. HIDE DEF s
<1>4. Catcher \in 1 .. Len(cstack) /\ cstack[Catcher].th = Running
  BY <1>1, ThrownFacts
<1>5. PICK t : /\ Update(t) /\ t.ci = s.ci /\ t.big = s.big /\ t.errfunc = s.errfunc /\ t.status = s.status
               /\ cstack' = SubSeq(cstack, 1, Catcher - 1) /\ mode' = "run"
  BY <1>1, <1>3, <1>4, ReturnsIs
<1>6. ~Live(t)
  BY <1>2, <1>3, <1>5 DEF Live, ErrorStatus
<1>. QED  BY <1>1, <1>3, <1>4, <1>5, <1>6, LeaveThird

(* What a coroutine leaves when it yields.                                 *)
LEMMA YieldedFacts ==
  ASSUME CountInv, FrameInv, ThirdInv, mode = "YIELD"
  PROVE  /\ PcallFrames(cstack, Running, Len(cstack)) = {}
         /\ ~Overflow(cstack, Running, Len(cstack)) /\ ~S.big /\ LastNot(S)
         /\ \A d \in CFrames(S.ci, Len(S.ci)) : S.ci[d].k \/ d = Len(S.ci)
<1>1. S.nny = 0 /\ Top.kind \in Bodies /\ S.status = "YIELD"
  BY RunningFacts DEF InMode
<1>2. PcallFrames(cstack, Running, Len(cstack)) = {} /\ ~Overflow(cstack, Running, Len(cstack))
      /\ \A j \in 1 .. Len(cstack) : cstack[j].th = Running => cstack[j].kind \in Bodies \union {"call", "resume"}
  BY <1>1, YieldableFacts DEF ThirdInv
<1>3. ~S.big
  <2>1. ~Handling(mode) /\ SizeOK(S, cstack, Running, mode)
    BY RunningRoom DEF ThirdInv, Handling, ErrorStatus
  <2>. QED  BY <1>2, <2>1 DEF SizeOK
<1>4. /\ Len(cstack) \in Nat /\ Top = cstack[Len(cstack)] /\ Depth = Len(S.ci) /\ Depth \in Nat \ {0}
      /\ Place(Top, S.ci, Depth) /\ Rests(S, Top, mode) /\ LeftOK(S, cstack, Running, mode)
      /\ (Top.kind = "cfun" => Top.ci = Depth) /\ FrameOK(S.ci)
  BY RunningHandlers, RunningReady, RunningFacts, FrameInvFacts, TopFrame DEF ThirdInv
<1>5. LastNot(S)
  <2>1. CASE Top.kind = "cfun"
    BY <1>4, <2>1 DEF Rests, LastNot
  <2>2. CASE Top.kind = "exec"
    <3>1. Depth \in Top.ci .. Depth
      BY FrameInvFacts
    <3>2. Depth \in LuaFrames(S.ci)
      BY <1>4, <2>2, <3>1 DEF Place
    <3>. QED  BY <1>4, <3>2 DEF FrameOK, LastNot
  <2>. QED  BY <1>1, <2>1, <2>2 DEF Bodies
<1>6. ASSUME NEW d \in CFrames(S.ci, Len(S.ci)), d /= Len(S.ci)
      PROVE  S.ci[d].k
  <2>1. S.ci[d].k \/ InUse(cstack, Running, d)
    BY <1>4, <1>6 DEF LeftOK
  <2>2. ASSUME InUse(cstack, Running, d) PROVE S.ci[d].k
    <3>1. PICK j \in 2 .. Len(cstack) : /\ cstack[j].th = Running /\ cstack[j].ci = d
                                        /\ cstack[j].kind = "cfun" \/ (cstack[j].kind = "hook" /\ cstack[j - 1].kind = "resume")
      BY <2>2 DEF InUse
    <3>2. j \in 1 .. Len(cstack)
      BY <1>4, <3>1
    <3>3. cstack[j].kind = "cfun"
      BY <1>2, <3>1, <3>2 DEF Bodies
    <3>4. j \in 1 .. Len(cstack) - 1
      BY <1>4, <1>6, <3>1, <3>2, <3>3
    <3>. QED  BY <1>1, <3>1, <3>3, <3>4, BelowReady DEF ThirdInv
  <2>. QED  BY <2>1, <2>2
<1>. QED  BY <1>2, <1>3, <1>5, <1>6

LEMMA SuspendThird ==
  ASSUME CountInv, FrameInv, ThirdInv, CountInv', Suspend
  PROVE  ThirdInv'
<1>1. mode = "YIELD" /\ Thrown /\ cstack[Catcher].kind = "resume" /\ ResumeReturns(S, Catcher)
  BY DEF Suspend, Thrown
<1>2. Catcher \in 1 .. Len(cstack) /\ cstack[Catcher].th = Running
  BY <1>1, ThrownFacts
<1>3. PICK t : /\ Update(t) /\ t.ci = S.ci /\ t.big = S.big /\ t.errfunc = S.errfunc /\ t.status = S.status
               /\ cstack' = SubSeq(cstack, 1, Catcher - 1) /\ mode' = "run"
  BY <1>1, <1>2, ReturnsIs, RunningFacts
<1>4. S.status = "YIELD"
  BY <1>1, RunningFacts DEF InMode
<1>. QED  BY <1>1, <1>2, <1>3, <1>4, YieldedFacts, LeaveThird

LEMMA FinishThird ==
  ASSUME CountInv, FrameInv, ThirdInv, CountInv', Finish
  PROVE  ThirdInv'
<1>1. Top.kind = "resume" /\ mode = "run" /\ Depth = 1 /\ ResumeReturns(S, Len(cstack))
  BY DEF Finish, Body
<1>2. Len(cstack) \in 1 .. Len(cstack) /\ cstack[Len(cstack)].kind = "resume" /\ cstack[Len(cstack)].th = Running
  BY <1>1, RunningFacts
<1>3. PICK t : /\ Update(t) /\ t.ci = S.ci /\ t.big = S.big /\ t.errfunc = S.errfunc /\ t.status = S.status
               /\ cstack' = SubSeq(cstack, 1, Len(cstack) - 1) /\ mode' = "run"
  BY <1>1, <1>2, ReturnsIs, RunningFacts
<1>4. S.status = "OK" /\ CFrames(S.ci, Len(S.ci)) = {}
  BY <1>1, RunMode DEF CFrames, Depth
<1>. QED  BY <1>1, <1>2, <1>3, <1>4, OnlyResume, LeaveThird DEF ThirdInv


-----------------------------------------------------------------------------
(* Steps of a thread that does not run, and of lua_resume.                 *)

(* What the steps below leave of the threads is all that the layer reads.  *)
LEMMA ThirdSame ==
  ASSUME CountInv, ThirdInv, cstack' = cstack, mode' = mode,
         \A L \in Threads : Like(state'[L], state[L])
  PROVE  ThirdInv'
<1>1. /\ Len(cstack) \in Nat \ {0} /\ \A i \in 1 .. Len(cstack) : cstack[i].th \in Threads
      /\ Last(cstack).th \in Threads
  BY RunningFacts, StackPrimed DEF StackFacts
<1>2. \A i \in 1 .. Len(cstack) : Ci(state', cstack, i) = Ci(state, cstack, i)
  BY <1>1 DEF Ci, Like
<1>3. \A i \in 2 .. Len(cstack) : i - 1 \in 1 .. Len(cstack)
  BY <1>1
<1>4. HandlersOK(state', cstack, mode)
  <2>1. \A i \in 1 .. Len(cstack) : Older(Ci(state', cstack, i), cstack, i)
    BY <1>2 DEF ThirdInv, HandlersInv, HandlersOK
  <2>2. \A i \in 2 .. Len(cstack) : Waits(Ci(state', cstack, i - 1), cstack[i - 1], cstack[i])
    BY <1>2, <1>3 DEF ThirdInv, HandlersInv, HandlersOK
  <2>3. ASSUME NEW L \in Threads, Live(state'[L]) PROVE ErrfuncOK(state'[L], cstack, L)
    BY <2>3 DEF ThirdInv, HandlersInv, HandlersOK, Live, ErrfuncOK, Like, LastNot
  <2>4. Rests(state'[Last(cstack).th], Last(cstack), mode)
    BY <1>1 DEF ThirdInv, HandlersInv, HandlersOK, Rests, Like, LastNot
  <2>. QED  BY <2>1, <2>2, <2>3, <2>4 DEF HandlersOK
<1>5. ReadyOK(state', cstack, mode)
  <2>1. \A i \in 2 .. Len(cstack) : MayContinue(Ci(state', cstack, i - 1), cstack[i - 1], cstack[i])
    BY <1>2, <1>3 DEF ThirdInv, ReadyInv, ReadyOK
  <2>2. ASSUME NEW L \in Threads, Live(state'[L]) PROVE LeftOK(state'[L], cstack, L, mode)
    BY <2>2 DEF ThirdInv, ReadyInv, ReadyOK, Live, LeftOK, Like
  <2>. QED  BY <2>1, <2>2 DEF ReadyOK
<1>6. RoomOK(state', cstack, mode)
  <2>1. ASSUME NEW L \in Threads
        PROVE  /\ state'[L].big => Len(state'[L].ci) >= MAXFRAMES
               /\ Live(state'[L]) => SizeOK(state'[L], cstack, L, mode)
    BY DEF ThirdInv, RoomInv, RoomOK, Live, SizeOK, Like
  <2>. QED  BY <2>1 DEF ThirdInv, RoomInv, RoomOK
<1>. QED  BY <1>4, <1>5, <1>6 DEF ThirdInv, HandlersInv, ReadyInv, RoomInv

LEMMA SignalThird ==
  ASSUME CountInv, ThirdInv, Signal
  PROVE  ThirdInv'
<1>1. cstack' = cstack /\ mode' = mode
      /\ state' = [state EXCEPT ![Main] = [state[Main] EXCEPT !.hook = "lstop", !.armed = FALSE]]
  BY DEF Signal
<1>2. state \in [Threads -> ThreadState] /\ Main \in Threads /\ state[Main] \in ThreadState
  BY RunningFacts DEF Threads
<1>3. Like([state[Main] EXCEPT !.hook = "lstop", !.armed = FALSE], state[Main])
  BY <1>2 DEF Like, ThreadState
<1>4. \A L \in Threads : Like(state'[L], state[L])
  BY <1>1, <1>2, <1>3 DEF Like
<1>. QED  BY <1>1, <1>4, ThirdSame

(* A thread that is not active.                                            *)
LEMMA IdleFacts ==
  ASSUME CountInv, ThirdInv, mode = "run", NEW L \in Threads, ~Runs(cstack, L), Live(state[L])
  PROVE  LET l == state[L]
         IN /\ l.errfunc \in {0} \union Suspended(l.ci)
            /\ \A d \in Suspended(l.ci) : l.ci[d].oerr \in {0} \union {e \in Suspended(l.ci) : e < d}
            /\ l.status = "YIELD" => LastNot(l)
            /\ \A d \in CFrames(l.ci, Len(l.ci)) : l.ci[d].k \/ (d = Len(l.ci) /\ l.status = "YIELD")
            /\ \A e \in Suspended(l.ci) : \A d \in CFrames(l.ci, e - 1) : l.ci[d].k
            /\ ~l.big /\ ~(Len(l.ci) > MAXFRAMES) /\ \A d \in Suspended(l.ci) : d <= MAXFRAMES
<1>1. \A i \in 1 .. Len(cstack) : cstack[i].th /= L
  BY DEF Runs
<1>2. PcallFrames(cstack, L, Len(cstack)) = {} /\ ~Overflow(cstack, L, Len(cstack))
  BY <1>1 DEF PcallFrames, Overflow
<1>3. \A i \in 2 .. Len(cstack) : i \in 1 .. Len(cstack)
  OBVIOUS
<1>4. \A d : ~InUse(cstack, L, d)
  BY <1>1, <1>3 DEF InUse
<1>5. L /= Last(cstack).th
  BY <1>1, RunningFacts DEF Last
<1>6. ErrfuncOK(state[L], cstack, L) /\ LeftOK(state[L], cstack, L, mode) /\ SizeOK(state[L], cstack, L, mode)
  BY DEF ThirdInv, HandlersInv, HandlersOK, ReadyInv, ReadyOK, RoomInv, RoomOK
<1>7. state[L].errfunc \in {0} \union Suspended(state[L].ci)
  BY <1>2, <1>6 DEF ErrfuncOK, HandlerFrames
<1>8. ~state[L].big /\ ~(Len(state[L].ci) > MAXFRAMES) /\ \A d \in Suspended(state[L].ci) : d <= MAXFRAMES
  BY <1>2, <1>5, <1>6 DEF SizeOK
<1>9. \A d \in CFrames(state[L].ci, Len(state[L].ci)) :
        state[L].ci[d].k \/ (d = Len(state[L].ci) /\ state[L].status = "YIELD")
  BY <1>4, <1>5, <1>6 DEF LeftOK
<1>10. /\ \A d \in Suspended(state[L].ci) : state[L].ci[d].oerr \in {0} \union {e \in Suspended(state[L].ci) : e < d}
       /\ state[L].status = "YIELD" => LastNot(state[L])
       /\ \A e \in Suspended(state[L].ci) : \A d \in CFrames(state[L].ci, e - 1) : state[L].ci[d].k
  BY <1>6 DEF ErrfuncOK, LeftOK
<1>. QED  BY <1>7, <1>8, <1>9, <1>10

(* The thread stays so.                                                    *)
LEMMA IdleThird ==
  ASSUME CountInv, FrameInv, ThirdInv, CountInv', mode = "run", mode' = "run", cstack' = cstack,
         NEW L \in Threads, L /= Running, ~Runs(cstack, L), NEW t, state' = [state EXCEPT ![L] = t],
         ~t.big, t.status = "OK", t.errfunc = 0, Suspended(t.ci) = {}, Len(t.ci) = 1
  PROVE  ThirdInv'
<1>. DEFINE n == Len(cstack)
<1>1. n \in Nat \ {0} /\ n = Len(cstack) /\ n \in 1 .. Len(cstack) /\ \A i \in 1 .. Len(cstack) : cstack[i].th /= L
  BY RunningFacts DEF Runs
<1>2. state'[L] = t /\ \A M \in Threads : M /= L => state'[M] = state[M]
  BY RunningFacts
<1>. HIDE DEF n
<1>3. Moves(n, L)
  BY <1>1, <1>2 DEF Moves
<1>4. \A i \in 2 .. Len(cstack) : i - 1 \in 1 .. Len(cstack) /\ ~(i > n)
  BY <1>1
<1>5. S' = S /\ Top' = Top
  BY <1>2, RunningFacts DEF S, Running, Top
<1>6. HandlersInv'
  <2>1. ErrfuncOK(t, cstack, L)
    BY DEF ErrfuncOK, HandlerFrames
  <2>2. Rests(S, Top, "run")
    BY RunningHandlers DEF ThirdInv
  <2>. QED  BY <1>1, <1>2, <1>3, <1>4, <1>5, <2>1, <2>2, MovesHandlers DEF ThirdInv
<1>7. ReadyInv'
  <2>1. LeftOK(t, cstack, L, "run")
    BY DEF LeftOK, CFrames
  <2>. QED  BY <1>1, <1>2, <1>3, <1>4, <2>1, MovesReady DEF ThirdInv
<1>8. RoomInv'
  <2>1. SizeOK(t, cstack, L, "run")
    BY LimitsAssumption DEF SizeOK
  <2>2. \A i \in 1 .. Len(cstack) : ~(i > n)
    BY <1>1
  <2>. QED  BY <1>2, <1>3, <2>1, <2>2, MovesRoom DEF ThirdInv
<1>. QED  BY <1>6, <1>7, <1>8 DEF ThirdInv

LEMMA CreateThird ==
  ASSUME CountInv, FrameInv, ThirdInv, CountInv', NEW L \in Coroutines, Create(L)
  PROVE  ThirdInv'
<1>. DEFINE t == NewThread(L, S.hook, state[L].ops)
<1>1. state' = [state EXCEPT ![L] = t] /\ cstack' = cstack /\ mode' = "run" /\ mode = "run"
  BY DEF Create, Body
<1>2. ~Runs(cstack, L) /\ L \in Threads /\ L /= Running
  <2>1. ~Runs(cstack, L) /\ L \in Threads
    BY RunningFacts DEF Create, Runs, Threads
  <2>. QED  BY <2>1, RunningFacts DEF Runs, Last
<1>3. ~t.big /\ t.status = "OK" /\ t.errfunc = 0 /\ Len(t.ci) = 1 /\ Suspended(t.ci) = {}
  BY DEF NewThread, NewFrame, Suspended
<1>. HIDE DEF t
<1>. QED  BY <1>1, <1>2, <1>3, IdleThird


(* lua_resume: the thread starts, or goes on in its last frame.            *)
Goes(l, t) ==
  /\ t.status = "OK" /\ t.errfunc = l.errfunc /\ t.big = l.big /\ Len(t.ci) = Len(l.ci)
  /\ LuaFrames(t.ci) = LuaFrames(l.ci) /\ Suspended(t.ci) = Suspended(l.ci)
  /\ \A d \in 1 .. Len(l.ci) : t.ci[d].k = l.ci[d].k /\ t.ci[d].oerr = l.ci[d].oerr

Started(l, L, m) ==
  /\ Len(cstack') \in {m + 1, m + 2} /\ \A j \in 1 .. m : cstack'[j] = cstack[j]
  /\ cstack'[m + 1].kind = "resume" /\ cstack'[m + 1].th = L /\ cstack'[m + 1].ci = 1
  /\ Len(cstack') = m + 2 =>
       /\ l.status = "YIELD" /\ mode' = "run" /\ cstack'[m + 2].kind \in Bodies /\ cstack'[m + 2].th = L
       /\ cstack'[m + 2].ci = Len(l.ci) /\ (cstack'[m + 2].kind = "exec" => Len(l.ci) \in LuaFrames(l.ci))
  /\ Len(cstack') = m + 1 =>
       (mode' = "precall" /\ Len(l.ci) = 1) \/ (mode' = "ret" /\ l.status = "YIELD")

LEMMA StartThird ==
  ASSUME CountInv, FrameInv, ThirdInv, CountInv', mode = "run", Top.kind = "cfun",
         NEW L \in Threads, L /= Running, ~Runs(cstack, L), Live(state[L]),
         NEW t, state' = [state EXCEPT ![L] = t], Goes(state[L], t), Started(state[L], L, Len(cstack))
  PROVE  ThirdInv'
<1>. DEFINE n == Len(cstack)  l == state[L]
<1>1. /\ n \in Nat \ {0} /\ n = Len(cstack) /\ n \in 1 .. Len(cstack) /\ cstack[n] = Top /\ Top.th = Running
      /\ Running \in Threads /\ \A i \in 1 .. n : cstack[i].th /= L
  BY RunningFacts, StackPrimed DEF StackFacts, Runs
<1>2. state'[L] = t /\ \A M \in Threads : M /= L => state'[M] = state[M]
  BY RunningFacts
<1>3. Goes(l, t) /\ Started(l, L, n) /\ l \in ThreadState /\ l.ci \in Seq(Frame) /\ Len(l.ci) \in Nat
      /\ DOMAIN l.ci = 1 .. Len(l.ci)
  BY RunningFacts DEF ThreadState
<1>4. /\ l.errfunc \in {0} \union Suspended(l.ci)
      /\ \A d \in Suspended(l.ci) : l.ci[d].oerr \in {0} \union {e \in Suspended(l.ci) : e < d}
      /\ l.status = "YIELD" => LastNot(l)
      /\ \A d \in CFrames(l.ci, Len(l.ci)) : l.ci[d].k \/ (d = Len(l.ci) /\ l.status = "YIELD")
      /\ \A e \in Suspended(l.ci) : \A d \in CFrames(l.ci, e - 1) : l.ci[d].k
      /\ ~l.big /\ ~(Len(l.ci) > MAXFRAMES) /\ \A d \in Suspended(l.ci) : d <= MAXFRAMES
  BY IdleFacts
<1>5. StackFacts' /\ Len(cstack') \in {n + 1, n + 2}
  BY <1>3, StackPrimed DEF Started
<1>. HIDE DEF n, l
<1>6. \A i \in 1 .. Len(cstack') : i > n => i = n + 1 \/ (i = n + 2 /\ Len(cstack') = n + 2)
  BY <1>1, <1>5
<1>7. \A i \in 1 .. Len(cstack') : i > n =>
        /\ cstack'[i].th = L /\ cstack'[i].ci <= MAXFRAMES /\ cstack'[i].kind \in {"resume"} \union Bodies
        /\ cstack'[i].kind = "resume" <=> i = n + 1
  <2>1. 1 <= MAXFRAMES /\ Len(l.ci) <= MAXFRAMES
    BY <1>3, <1>4, LimitsAssumption
  <2>2. n + 1 /= n + 2
    BY <1>1
  <2>. QED  BY <1>3, <1>6, <2>1, <2>2 DEF Started, Bodies
<1>8. Moves(n, L)
  <2>1. n \in 1 .. Len(cstack') /\ \A j \in n + 1 .. Len(cstack') : j \in 1 .. Len(cstack') /\ j > n
    BY <1>1, <1>5
  <2>2. \A j \in n + 1 .. Len(cstack) : cstack[j].th = L
    BY <1>1
  <2>. QED  BY <1>1, <1>2, <1>3, <1>7, <2>1, <2>2 DEF Moves, Started
<1>9. S' = t /\ Running' = L /\ Top' = cstack'[Len(cstack')] /\ Last(cstack)' = Top'
  <2>1. Len(cstack') \in 1 .. Len(cstack') /\ Len(cstack') > n
    BY <1>1, <1>5
  <2>2. cstack'[Len(cstack')].th = L
    BY <1>7, <2>1
  <2>. QED  BY <1>2, <1>5, <2>2 DEF StackFacts, S
<1>10. \A i \in 2 .. Len(cstack') : i \in 1 .. Len(cstack') /\ i - 1 \in 1 .. Len(cstack') /\ i - 1 \in Nat
  BY <1>1, <1>5
<1>11. \A i \in 2 .. Len(cstack') : i > n \/ cstack'[i - 1].th = L =>
         \/ i = n + 1 /\ cstack'[i - 1] = Top
         \/ i = n + 2 /\ i - 1 = n + 1
  <2>1. ASSUME NEW i \in 2 .. Len(cstack'), ~(i > n)
        PROVE  cstack'[i - 1].th /= L
    <3>1. i - 1 \in 1 .. n
      BY <1>1, <2>1
    <3>. QED  BY <1>1, <1>3, <3>1 DEF Started
  <2>2. n + 1 - 1 = n /\ n + 2 - 1 = n + 1 /\ n \in 1 .. n
    BY <1>1
  <2>3. cstack'[n] = Top
    BY <1>1, <1>3, <2>2 DEF Started
  <2>. QED  BY <1>6, <1>10, <2>1, <2>2, <2>3
<1>12. Ci(state', cstack', n) = S.ci /\ cstack'[n] = Top
  <2>1. n \in 1 .. n
    BY <1>1
  <2>2. cstack'[n] = Top
    BY <1>1, <1>3, <2>1 DEF Started
  <2>. QED  BY <1>1, <1>2, <2>2 DEF Ci, S
<1>13. HandlersInv'
  <2>1. \A i \in 1 .. Len(cstack') : cstack'[i].th = L => Older(t.ci, cstack', i)
    <3>1. ASSUME NEW i \in 1 .. Len(cstack'), cstack'[i].th = L
          PROVE  i > n
      <4>1. CASE i \in 1 .. n
        BY <1>1, <1>3, <3>1, <4>1 DEF Started
      <4>. QED  BY <1>1, <4>1
    <3>. QED  BY <1>7, <3>1 DEF Older, Bodies
  <2>2. Rests(S, Top, "run")
    BY RunningHandlers DEF ThirdInv
  <2>3. ASSUME NEW i \in 2 .. Len(cstack'), i > n \/ cstack'[i - 1].th = L
        PROVE  Waits(Ci(state', cstack', i - 1), cstack'[i - 1], cstack'[i])
    <3>1. CASE i = n + 1
      <4>1. i - 1 = n /\ i > n
        BY <1>1, <3>1
      <4>2. cstack'[i].kind = "resume"
        BY <1>7, <1>10, <3>1, <4>1
      <4>. QED  BY <1>12, <2>2, <4>1, <4>2 DEF Waits, Rests
    <3>2. CASE i = n + 2
      <4>1. i - 1 = n + 1 /\ i > n /\ i - 1 > n /\ i /= n + 1
        BY <1>1, <3>2
      <4>2. cstack'[i].kind \in Bodies /\ cstack'[i - 1].kind = "resume"
        BY <1>7, <1>10, <4>1
      <4>. QED  BY <4>2 DEF Waits, Bodies
    <3>. QED  BY <1>11, <2>3, <3>1, <3>2
  <2>4. ErrfuncOK(t, cstack', L)
    <3>1. \A d \in Suspended(l.ci) : d \in 1 .. Len(l.ci)
      BY <1>3 DEF Suspended
    <3>. QED  BY <1>3, <1>4, <3>1 DEF ErrfuncOK, HandlerFrames, Goes
  <2>5. Rests(S', Top', mode')
    <3>1. CASE Len(cstack') = n + 1
      BY <1>1, <1>3, <1>4, <1>9, <3>1 DEF Rests, Returning, Started, Goes, LastNot
    <3>2. CASE Len(cstack') = n + 2
      <4>1. Top'.ci = Len(l.ci) /\ l.status = "YIELD" /\ mode' = "run"
        BY <1>3, <1>9, <3>2 DEF Started
      <4>. QED  BY <1>3, <1>4, <1>9, <4>1 DEF Rests, Returning, Goes, LastNot
    <3>. QED  BY <1>5, <3>1, <3>2
  <2>. QED  BY <1>2, <1>8, <2>1, <2>3, <2>4, <2>5, MovesHandlers DEF ThirdInv
<1>14. ReadyInv'
  <2>1. ASSUME NEW i \in 2 .. Len(cstack'), i > n \/ cstack'[i - 1].th = L
        PROVE  MayContinue(Ci(state', cstack', i - 1), cstack'[i - 1], cstack'[i])
    <3>1. i > n
      BY <1>1, <1>11, <2>1
    <3>. QED  BY <1>7, <1>10, <3>1 DEF MayContinue, Bodies
  <2>2. ASSUME NEW d \in CFrames(t.ci, Len(t.ci))
        PROVE  \/ t.ci[d].k \/ InUse(cstack', L, d)
               \/ d = Len(t.ci) /\ (t.status = "YIELD" \/ (L = Last(cstack').th /\ Returning(Last(cstack'), mode')))
    <3>1. d \in CFrames(l.ci, Len(l.ci)) /\ d \in 1 .. Len(l.ci) /\ d >= 2 /\ d \notin LuaFrames(l.ci)
      BY <1>3, <2>2 DEF CFrames, Goes
    <3>2. t.ci[d].k = l.ci[d].k
      BY <1>3, <3>1 DEF Goes
    <3>3. CASE ~l.ci[d].k
      <4>1. d = Len(l.ci) /\ l.status = "YIELD"
        BY <1>4, <3>1, <3>3
      <4>2. CASE Len(cstack') = n + 1
        <5>1. mode' = "ret"
          <6>1. Len(l.ci) /= 1
            <7>1. d /= 1
              BY <3>1
            <7>. QED  BY <4>1, <7>1
          <6>2. (mode' = "precall" /\ Len(l.ci) = 1) \/ (mode' = "ret" /\ l.status = "YIELD")
            BY <1>3, <4>2, Zenon DEF Started
          <6>. QED  BY <6>1, <6>2
        <5>2. Last(cstack').kind = "resume" /\ Last(cstack').th = L
          BY <1>3, <4>2 DEF Started, Last
        <5>. QED  BY <1>3, <4>1, <5>1, <5>2 DEF Returning, Goes
      <4>3. CASE Len(cstack') = n + 2
        <5>1. n + 2 \in 2 .. Len(cstack')
          BY <1>1, <4>3
        <5>2. cstack'[n + 2].kind = "cfun" /\ cstack'[n + 2].th = L /\ cstack'[n + 2].ci = d
          BY <1>3, <3>1, <4>1, <4>3 DEF Started, Bodies
        <5>. QED  BY <5>1, <5>2 DEF InUse
      <4>. QED  BY <1>5, <4>2, <4>3
    <3>. QED  BY <3>2, <3>3
  <2>3. \A e \in Suspended(t.ci) : \A d \in CFrames(t.ci, e - 1) : t.ci[d].k
    <3>1. ASSUME NEW e \in Suspended(t.ci), NEW d \in CFrames(t.ci, e - 1)
          PROVE  t.ci[d].k
      <4>1. e \in Suspended(l.ci) /\ e \in 1 .. Len(l.ci)
        BY <1>3, <3>1 DEF Goes, Suspended
      <4>2. d \in CFrames(l.ci, e - 1) /\ d \in 1 .. Len(l.ci)
        BY <1>3, <3>1, <4>1 DEF CFrames, Goes
      <4>. QED  BY <1>3, <1>4, <4>1, <4>2 DEF Goes
    <3>. QED  BY <3>1
  <2>4. LeftOK(t, cstack', L, mode')
    BY <2>2, <2>3 DEF LeftOK
  <2>. QED  BY <1>2, <1>8, <2>1, <2>4, MovesReady DEF ThirdInv
<1>15. RoomInv'
  <2>1. SizeOK(t, cstack', L, mode')
    BY <1>3, <1>4 DEF SizeOK, Goes
  <2>2. \A i \in 1 .. Len(cstack') : i > n => ~(cstack'[i].ci > MAXFRAMES)
    <3>1. ASSUME NEW i \in 1 .. Len(cstack'), i > n
          PROVE  ~(cstack'[i].ci > MAXFRAMES)
      <4>1. cstack'[i].ci <= MAXFRAMES /\ cstack'[i].ci \in Nat
        BY <1>3, <1>6, <1>7, <3>1 DEF Started
      <4>. QED  BY <4>1, LimitsAssumption
    <3>. QED  BY <3>1
  <2>. QED  BY <1>2, <1>3, <1>4, <1>8, <2>1, <2>2, MovesRoom DEF ThirdInv, Goes
<1>. QED  BY <1>13, <1>14, <1>15 DEF ThirdInv


LEMMA ResumedIs ==
  ASSUME NEW l \in ThreadState, NEW n \in Int
  PROVE  LET s == Resumed(l, n)
         IN s \in ThreadState /\ s.status = "OK" /\ s.ci = l.ci /\ s.big = l.big /\ s.errfunc = l.errfunc
<1>1. Resumed(l, n).big = l.big /\ Resumed(l, n).errfunc = l.errfunc
  BY Zenon DEF ThreadState, Resumed
<1>. QED  BY <1>1, ResumedFields

Refuses(L) ==
  \E t : /\ state' = [state EXCEPT ![L] = t] /\ UNCHANGED <<cstack, mode>>
         /\ Like(t, state[L]) /\ t.body = state[L].body
Starts(L) ==
  /\ state[L].body \/ state[L].status = "YIELD"
  /\ \E t : state' = [state EXCEPT ![L] = t] /\ Goes(state[L], t) /\ Started(state[L], L, Len(cstack))

LEMMA ResumeShape ==
  ASSUME CountInv, FrameInv, CountInv', NEW L \in Coroutines, Resume(L)
  PROVE  /\ mode = "run" /\ Top.kind = "cfun" /\ L \in Threads /\ L /= Running /\ ~Runs(cstack, L) /\ Live(state[L])
         /\ Refuses(L) \/ Starts(L)
<1>. DEFINE n == S.nCcalls + 1
            l == state[L]
            s == Resumed(l, n)
            act == [kind |-> "resume", th |-> L, ci |-> 1, oldnny |-> l.nny, ncc |-> n]
            k == Len(l.ci)
            body(kind) == [kind |-> kind, th |-> L, ci |-> k]
            Go(t, acts, m) == state' = [state EXCEPT ![L] = t] /\ cstack' = cstack \o acts /\ mode' = m
<1>1. mode = "run" /\ Top.kind = "cfun" /\ L /= Running
  BY DEF Resume, Body
<1>2. l.status = "YIELD" \/ (l.status = "OK" /\ Len(l.ci) = 1 /\ l.body)
  BY SMTT(40) DEF Resume
<1>3. \/ /\ state' = [state EXCEPT ![L] = Refused(l, n)] /\ UNCHANGED <<cstack, mode>>
      \/ l.status = "OK" /\ Go(s, <<act>>, "precall")
      \/ l.status = "YIELD" /\ l.ci[k].lua /\ Go([s EXCEPT !.ci[k].fresh = TRUE], <<act, body("exec")>>, "run")
      \/ l.status = "YIELD" /\ ~l.ci[k].lua /\ Go(s, <<act, body("cfun")>>, "run")
      \/ l.status = "YIELD" /\ Go(s, <<act>>, "ret")
  BY DEF Resume, Resumed, Refused
<1>4. ~Runs(cstack, L)
  BY <1>1, <1>2, NotActive
<1>5. L \in Threads /\ n \in Int /\ k \in Nat /\ l \in ThreadState /\ l.nny = 1
      /\ DOMAIN l.ci = 1 .. k /\ (l.status = "YIELD" => k > 1 /\ k \in 1 .. k) /\ Live(l)
  <2>1. L \in Threads /\ ThreadOK(l) /\ Idle(l)
    BY <1>4 DEF CountInv, CountOK, OthersOK, Threads
  <2>2. S.nCcalls \in Int
    BY RunningFacts DEF ThreadState
  <2>3. l.status = "YIELD" => k > 1
    BY <1>4 DEF FrameInv, FramesOK
  <2>4. Live(l)
    BY <1>2 DEF Live
  <2>. QED  BY <2>1, <2>2, <2>3, <2>4 DEF ThreadOK, ThreadState, Idle
<1>6. s \in ThreadState /\ s.status = "OK" /\ s.ci = l.ci /\ s.big = l.big /\ s.errfunc = l.errfunc
  BY <1>5, ResumedIs
<1>7. act \in Activation /\ act.kind = "resume" /\ act.th = L /\ act.ci = 1
  BY <1>5 DEF Activation
<1>8. ASSUME NEW kind \in Bodies
      PROVE  body(kind) \in Activation /\ body(kind).kind = kind /\ body(kind).th = L /\ body(kind).ci = k
  BY <1>5, <1>8 DEF Activation, Bodies
<1>9. Goes(l, s)
  BY <1>6 DEF Goes
<1>10. cstack \o <<act>> = Append(cstack, act)
  BY <1>7, RunningFacts
<1>11. \A kind \in Bodies : cstack \o <<act, body(kind)>> = Append(Append(cstack, act), body(kind))
  <2>1. ASSUME NEW b \in Activation PROVE cstack \o <<act, b>> = Append(Append(cstack, act), b)
    BY <1>7, RunningFacts, Push2
  <2>. QED  BY <1>8, <2>1
<1>12. cstack \in Seq(Activation) /\ Len(cstack) \in Nat
  BY RunningFacts
<1>. HIDE DEF act, s
<1>13. ASSUME cstack' = Append(cstack, act), (mode' = "precall" /\ k = 1) \/ (mode' = "ret" /\ l.status = "YIELD")
       PROVE  Started(l, L, Len(cstack))
  <2>1. Len(cstack') = Len(cstack) + 1 /\ (\A j \in 1 .. Len(cstack) : cstack'[j] = cstack[j])
        /\ cstack'[Len(cstack) + 1] = act
    BY <1>7, <1>12, <1>13
  <2>2. Len(cstack) + 1 /= Len(cstack) + 2
    BY <1>12
  <2>. QED  BY <1>7, <1>13, <2>1, <2>2 DEF Started
<1>14. ASSUME NEW kind \in Bodies, cstack' = Append(Append(cstack, act), body(kind)), mode' = "run",
              l.status = "YIELD", kind = "exec" => k \in LuaFrames(l.ci)
       PROVE  Started(l, L, Len(cstack))
  <2>. DEFINE b == body(kind)
  <2>1. b \in Activation /\ b.kind = kind /\ b.th = L /\ b.ci = k
    BY <1>8
  <2>. HIDE DEF b
  <2>2. cstack' = Append(Append(cstack, act), b)
    BY <1>14 DEF b
  <2>3. Len(cstack') = Len(cstack) + 2 /\ (\A j \in 1 .. Len(cstack) : cstack'[j] = cstack[j])
        /\ cstack'[Len(cstack) + 1] = act /\ cstack'[Len(cstack) + 2] = b
    BY <1>7, <1>12, <2>1, <2>2
  <2>4. Len(cstack) + 1 /= Len(cstack) + 2
    BY <1>12
  <2>. QED  BY <1>7, <1>14, <2>1, <2>3, <2>4 DEF Started
<1>15. l.body \/ l.status = "YIELD"
  BY <1>2
<1>16. CASE state' = [state EXCEPT ![L] = Refused(l, n)] /\ UNCHANGED <<cstack, mode>>
  <2>. DEFINE t == Refused(l, n)
  <2>1. Like(t, l) /\ t.body = l.body
    BY <1>5 DEF Refused, Like, ThreadState
  <2>. HIDE DEF t
  <2>2. state' = [state EXCEPT ![L] = t] /\ UNCHANGED <<cstack, mode>>
    BY <1>16 DEF t
  <2>3. Refuses(L)
    BY <2>1, <2>2 DEF Refuses
  <2>. QED  BY <1>1, <1>4, <1>5, <2>3
<1>17. CASE l.status = "OK" /\ Go(s, <<act>>, "precall")
  <2>1. Started(l, L, Len(cstack))
    BY <1>2, <1>10, <1>13, <1>17
  <2>2. Starts(L)
    BY <1>9, <1>15, <1>17, <2>1 DEF Starts
  <2>. QED  BY <1>1, <1>4, <1>5, <2>2
<1>18. CASE l.status = "YIELD" /\ Go(s, <<act>>, "ret")
  <2>1. Started(l, L, Len(cstack))
    BY <1>10, <1>13, <1>18
  <2>2. Starts(L)
    BY <1>9, <1>15, <1>18, <2>1 DEF Starts
  <2>. QED  BY <1>1, <1>4, <1>5, <2>2
<1>19. CASE l.status = "YIELD" /\ ~l.ci[k].lua /\ Go(s, <<act, body("cfun")>>, "run")
  <2>1. Started(l, L, Len(cstack))
    BY <1>11, <1>14, <1>19 DEF Bodies
  <2>2. Starts(L)
    BY <1>9, <1>15, <1>19, <2>1 DEF Starts
  <2>. QED  BY <1>1, <1>4, <1>5, <2>2
<1>20. CASE l.status = "YIELD" /\ l.ci[k].lua /\ Go([s EXCEPT !.ci[k].fresh = TRUE], <<act, body("exec")>>, "run")
  <2>. DEFINE t == Entered(s, k)
  <2>1. state' = [state EXCEPT ![L] = t]
    BY <1>20 DEF Entered
  <2>2. Started(l, L, Len(cstack))
    <3>1. k \in LuaFrames(l.ci)
      BY <1>5, <1>20 DEF LuaFrames
    <3>. QED  BY <1>11, <1>14, <1>20, <3>1 DEF Bodies
  <2>3. Goes(l, t)
    <3>1. k \in DOMAIN s.ci /\ DOMAIN s.ci = 1 .. Len(s.ci) /\ Len(s.ci) = k
      BY <1>5, <1>6, <1>20
    <3>2. /\ t \in ThreadState /\ Len(t.ci) = k /\ t.big = l.big /\ t.status = "OK" /\ t.errfunc = l.errfunc
          /\ \A d \in 1 .. k : /\ t.ci[d].lua = l.ci[d].lua /\ t.ci[d].yp = l.ci[d].yp
                              /\ t.ci[d].oerr = l.ci[d].oerr /\ t.ci[d].k = l.ci[d].k
      BY <1>6, <3>1, EnteredIs
    <3>3. DOMAIN t.ci = 1 .. k
      BY <3>2 DEF ThreadState
    <3>. QED  BY <1>5, <3>2, <3>3 DEF Goes, LuaFrames, Suspended
  <2>. HIDE DEF t
  <2>4. Starts(L)
    BY <1>15, <2>1, <2>2, <2>3 DEF Starts
  <2>. QED  BY <1>1, <1>4, <1>5, <2>4
<1>. QED  BY <1>3, <1>16, <1>17, <1>18, <1>19, <1>20

LEMMA ResumeThird ==
  ASSUME CountInv, FrameInv, ThirdInv, CountInv', NEW L \in Coroutines, Resume(L)
  PROVE  ThirdInv'
<1>1. CASE Refuses(L)
  <2>1. \A M \in Threads : Like(state'[M], state[M])
    BY <1>1, RunningFacts DEF Refuses, Like
  <2>. QED  BY <1>1, <2>1, ThirdSame DEF Refuses
<1>2. CASE Starts(L)
  BY <1>2, ResumeShape, StartThird DEF Starts
<1>. QED  BY <1>1, <1>2, ResumeShape


(* The layer holds at the start and is kept by every step.                 *)
LEMMA ApiThird ==
  ASSUME CountInv, FrameInv, ThirdInv, CountInv', FrameInv', ApiCall
  PROVE  ThirdInv'
<1>1. CASE \E k \in BOOLEAN : CallK(k)
  BY <1>1, CallKQuiet, QuietStep
<1>2. CASE \E k \in BOOLEAN : Yield(k)
  BY <1>2, YieldThird
<1>3. CASE \E k \in BOOLEAN : \E ef \in Nat \cap {0, Depth} : PcallK(k, ef)
  <2>1. PICK k \in BOOLEAN, ef \in Nat : PcallK(k, ef)
    BY <1>3
  <2>. QED  BY <2>1, ProtectsThird, PcallKThird
<1>4. CASE \E L \in Coroutines : Resume(L)
  BY <1>4, ResumeThird
<1>5. CASE \E L \in Coroutines : Create(L)
  BY <1>5, CreateThird
<1>6. CASE \E h \in {"none", "user"} : SetHook(h)
  BY <1>6, HooksSetQuiet, QuietStep
<1>7. CASE Load
  BY <1>7, ProtectsThird
<1>8. CASE ApiMetamethod
  BY <1>8, MetamethodsQuiet, QuietStep
<1>. QED  BY <1>1, <1>2, <1>3, <1>4, <1>5, <1>6, <1>7, <1>8 DEF ApiCall

LEMMA ThirdInductive ==
  ASSUME CountInv, FrameInv, ThirdInv, CountInv', FrameInv', [Next]_vars
  PROVE  ThirdInv'
<1>1. CASE UNCHANGED vars
  BY <1>1, ThirdSame DEF vars, Like
<1>2. CASE ApiCall
  BY <1>2, ApiThird
<1>3. CASE OpCall \/ Return \/ Error \/ HandlerDone
  BY <1>3, ModesQuiet, QuietStep
<1>4. CASE Metamethod \/ Reader \/ ErrorMsg
  BY <1>4, MetamethodsQuiet, ErrorMsgQuiet, QuietStep
<1>5. CASE Precall \/ PrecallFails
  BY <1>5, PrecallThird, PrecallFailsQuiet, QuietStep
<1>6. CASE ReturnHook \/ Poscall
  BY <1>6, ReturnHookQuiet, PoscallThird, QuietStep
<1>7. CASE CallDone \/ PcallDone
  <2>1. CASE CallDone /\ ~Top.yp
    BY <2>1, CallDoneQuiet, QuietStep
  <2>. QED  BY <1>7, <2>1, CallDoneThird, PcallDoneThird
<1>8. CASE CallFinalizer \/ FinalizerDone
  BY <1>8, ProtectsThird, DonesQuiet, QuietStep
<1>9. CASE EnterLevel \/ LeaveLevel
  BY <1>9, EnterLevelQuiet, DonesQuiet, QuietStep
<1>10. CASE ParserEnds \/ LoadDone
  BY <1>10, ParserEndsQuiet, DonesQuiet, QuietStep
<1>11. CASE CatchInPcall \/ Recover \/ Die
  BY <1>11, CatchInPcallThird, RecoverThird, DieThird
<1>12. CASE YieldInHook \/ Suspend
  BY <1>12, YieldInHookQuiet, QuietStep, SuspendThird
<1>13. CASE Unroll \/ Finish
  BY <1>13, UnrollThird, FinishThird
<1>14. CASE CountHook \/ Lstop \/ HookDone \/ Signal
  BY <1>14, CountHookQuiet, HooksSetQuiet, HookDoneQuiet, QuietStep, SignalThird
<1>. QED
  BY <1>1, <1>2, <1>3, <1>4, <1>5, <1>6, <1>7, <1>8, <1>9, <1>10, <1>11, <1>12, <1>13, <1>14 DEF Next

LEMMA InitThird ==
  ASSUME HooksAvoidMetamethods, Init
  PROVE  ThirdInv
<1>1. PICK p \in Programs : state = [L \in Threads |-> NewThread(L, "none", p[L])]
  BY DEF Init
<1>2. cstack = <<Host>> /\ mode = "run"
  BY DEF Init
<1>3. Len(cstack) = 1 /\ cstack[1] = Host /\ Host.kind = "host" /\ Host.th = Main /\ Host.ci = 1 /\ Main \in Threads
  BY <1>2 DEF Host, Threads
<1>4. ASSUME NEW L \in Threads
      PROVE  LET s == state[L]
             IN Len(s.ci) = 1 /\ Suspended(s.ci) = {} /\ s.errfunc = 0 /\ s.big = FALSE /\ s.status = "OK"
  BY <1>1 DEF NewThread, NewFrame, Suspended
<1>5. \A i \in 1 .. Len(cstack) : i = 1 /\ cstack[i] = Host
  BY <1>3
<1>6. Last(cstack) = Host /\ \A i \in 2 .. Len(cstack) : FALSE
  BY <1>3 DEF Last
<1>7. HandlersInv
  <2>1. \A i \in 1 .. Len(cstack) : Older(Ci(state, cstack, i), cstack, i)
    BY <1>3, <1>5 DEF Older
  <2>2. \A L \in Threads : ErrfuncOK(state[L], cstack, L)
    BY <1>4 DEF ErrfuncOK, HandlerFrames
  <2>3. Rests(state[Last(cstack).th], Last(cstack), mode)
    BY <1>2, <1>3, <1>6 DEF Rests, Returning
  <2>. QED  BY <1>6, <2>1, <2>2, <2>3 DEF HandlersInv, HandlersOK
<1>8. ReadyInv
  <2>1. ASSUME NEW L \in Threads
        PROVE  LeftOK(state[L], cstack, L, mode)
    <3>1. Len(state[L].ci) = 1 /\ Suspended(state[L].ci) = {}
      BY <1>4
    <3>2. CFrames(state[L].ci, 1) = {}
      BY DEF CFrames
    <3>. QED  BY <3>1, <3>2 DEF LeftOK
  <2>. QED  BY <1>6, <2>1 DEF ReadyInv, ReadyOK
<1>9. RoomInv
  <2>1. ASSUME NEW L \in Threads
        PROVE  ~state[L].big /\ SizeOK(state[L], cstack, L, mode)
    <3>1. Len(state[L].ci) = 1 /\ Suspended(state[L].ci) = {} /\ ~state[L].big
      BY <1>4
    <3>2. ~(1 > MAXFRAMES)
      BY LimitsAssumption
    <3>. QED  BY <3>1, <3>2 DEF SizeOK
  <2>. QED  BY <1>3, <1>5, <2>1, LimitsAssumption DEF RoomInv, RoomOK
<1>. QED  BY <1>7, <1>8, <1>9 DEF ThirdInv

-----------------------------------------------------------------------------
(* The limit of C calls.                                                   *)
LEMMA MoreCalls ==
  ASSUME NEW cs, NEW i \in Nat, NEW j \in Nat, i <= j
  PROVE  NC(cs, i) <= NC(cs, j) /\ NC(cs, i) \in Nat /\ NC(cs, j) \in Nat
<1>1. 1 .. i \subseteq 1 .. j
  OBVIOUS
<1>2. CCalls(cs, i) \subseteq CCalls(cs, j)
  BY <1>1 DEF CCalls
<1>3. IsFiniteSet(CCalls(cs, j))
  BY CountsFinite
<1>. QED  BY <1>2, <1>3, FS_Subset, CountsFinite DEF NC

(* Below the top of the C stack, and where no error is thrown, the limit   *)
(* is not reached.                                                         *)
LEMMA BelowLimit ==
  ASSUME CountInv, LimitInv, NEW n \in 1 .. Len(cstack),
         mode \notin ErrorStatus \/ n < Len(cstack) \/ Top.kind \notin {"call", "level"}
  PROVE  NC(cstack, n) < CLimit /\ NC(cstack, n) \in Nat /\ S.nCcalls <= CLimit
<1>1. S.nCcalls = NC(cstack, Len(cstack)) /\ Len(cstack) \in Nat \ {0} /\ Top = cstack[Len(cstack)]
  BY RunningFacts DEF CN
<1>2. n \in Nat /\ NC(cstack, n) <= NC(cstack, Len(cstack)) /\ NC(cstack, n) \in Nat
      /\ NC(cstack, Len(cstack)) \in Nat /\ CLimit \in Nat
  BY <1>1, MoreCalls, LimitsAssumption DEF CLimit
<1>3. CASE S.nCcalls < CLimit
  BY <1>1, <1>2, <1>3
<1>4. CASE S.nCcalls = CLimit /\ Top.kind \in {"call", "level"} /\ mode \in ErrorStatus
  <2>. DEFINE k == Len(cstack) - 1
  <2>1. n < Len(cstack)
    BY <1>4
  <2>2. k \in Nat /\ k + 1 = Len(cstack) /\ n <= k
    BY <1>1, <1>2, <2>1
  <2>. HIDE DEF k
  <2>3. NC(cstack, Len(cstack)) = NC(cstack, k) + 1
    BY <1>1, <1>4, <2>2, OneMore DEF Counts
  <2>4. NC(cstack, n) <= NC(cstack, k) /\ NC(cstack, k) \in Nat
    BY <1>2, <2>2, MoreCalls
  <2>5. NC(cstack, k) + 1 = CLimit
    BY <1>1, <1>4, <2>3
  <2>6. NC(cstack, k) < CLimit
    BY <2>4, <2>5
  <2>. QED  BY <1>2, <1>4, <2>4, <2>6
<1>. QED  BY <1>3, <1>4 DEF LimitInv

(* The counters of the active threads.                                     *)
CountsActive ==
  /\ S.nCcalls = NC(cstack, Len(cstack)) /\ NC(cstack, Len(cstack)) \in Nat
  /\ \A L \in Threads : Runs(cstack, L) =>
       state[L].nCcalls <= NC(cstack, Len(cstack)) /\ state[L].nCcalls \in Nat

LEMMA ActiveCounts ==
  /\ CountInv => CountsActive
  /\ CountInv' => CountsActive'
<1>1. CountInv => S.nCcalls = NC(cstack, Len(cstack)) /\ NC(cstack, Len(cstack)) \in Nat
  BY RunningFacts DEF CN
<1>2. ASSUME CountInv, NEW L \in Threads, Runs(cstack, L)
      PROVE  state[L].nCcalls <= NC(cstack, Len(cstack)) /\ state[L].nCcalls \in Nat
  <2>1. LastOf(L) \in 1 .. Len(cstack) /\ state[L].nCcalls = NC(cstack, LastOf(L)) /\ Len(cstack) \in Nat
    BY <1>2, LastCounted, RunningFacts DEF Counted, Active, Activations, Runs
  <2>. QED  BY <2>1, MoreCalls
<1>3. CountInv => CountsActive
  BY <1>1, <1>2 DEF CountsActive
<1>. QED  BY <1>3, PTL

(* The counters after a step.                                              *)
LEMMA LimitKept ==
  ASSUME CountInv',
         \/ NC(cstack', Len(cstack')) < CLimit
         \/ NC(cstack', Len(cstack')) = CLimit /\ Top'.kind \in {"call", "level"} /\ mode' \in ErrorStatus,
         \A L \in Threads : Runs(cstack', L) \/ state'[L].nCcalls <= CLimit
  PROVE  LimitInv'
<1>2. /\ S'.nCcalls = NC(cstack', Len(cstack')) /\ NC(cstack', Len(cstack')) \in Nat
      /\ \A L \in Threads : Runs(cstack', L) =>
           state'[L].nCcalls <= NC(cstack', Len(cstack')) /\ state'[L].nCcalls \in Nat
  BY ActiveCounts DEF CountsActive
<1>3. CLimit \in Nat
  BY LimitsAssumption DEF CLimit
<1>4. \A L \in Threads : state'[L].nCcalls <= CLimit
  BY <1>2, <1>3
<1>. QED  BY <1>2, <1>4 DEF LimitInv

LEMMA Uncounted ==
  ASSUME NEW cs, NEW ds, NEW m \in Nat, NEW n \in Nat, m <= n, \A j \in 1 .. m : ds[j] = cs[j],
         \A j \in m + 1 .. n : Counts(ds[j]) = 0
  PROVE  NC(ds, n) = NC(cs, m)
<1>1. \A j \in 1 .. n : j \in 1 .. m \/ j \in m + 1 .. n
  OBVIOUS
<1>2. \A j \in 1 .. m : j \in 1 .. n
  OBVIOUS
<1>3. \A j \in m + 1 .. n : ds[j].kind \notin {"call", "resume", "level"}
  BY DEF Counts
<1>4. CCalls(ds, n) = CCalls(cs, m)
  BY <1>1, <1>2, <1>3 DEF CCalls
<1>. QED  BY <1>4 DEF NC

(* A step that makes no C call.                                            *)
LEMMA LimitOwn ==
  ASSUME CountInv, CountInv', LimitInv, NEW n, Own(n),
         \A i \in n + 1 .. Len(cstack') : Counts(cstack'[i]) = 0,
         mode \notin ErrorStatus \/ n < Len(cstack) \/ Top.kind \notin {"call", "level"}
  PROVE  LimitInv'
<1>1. n \in 1 .. Len(cstack) /\ n \in Nat /\ Len(cstack') \in Nat /\ n <= Len(cstack')
      /\ (\A j \in 1 .. n : cstack'[j] = cstack[j]) /\ \A L \in Threads : L /= Running => state'[L] = state[L]
  BY StackPrimed, OwnFacts DEF Own, Moves, StackFacts
<1>2. NC(cstack', Len(cstack')) = NC(cstack, n)
  BY <1>1, Uncounted
<1>3. NC(cstack, n) < CLimit
  BY <1>1, BelowLimit
<1>4. \A L \in Threads : Runs(cstack', L) \/ state'[L].nCcalls <= CLimit
  BY <1>1, OwnFacts DEF LimitInv
<1>. QED  BY <1>2, <1>3, <1>4, LimitKept

(* luaD_call.                                                              *)
LEMMA LimitCall ==
  ASSUME CountInv, CountInv', LimitInv, mode \notin ErrorStatus,
         NEW s \in ThreadState, s.nCcalls = S.nCcalls, NEW stack \in Seq(Activation),
         NEW noyield \in BOOLEAN, NEW yp \in BOOLEAN, DCall(s, stack, noyield, yp)
  PROVE  LimitInv'
<1>1. PICK t, b : Called(s, stack, noyield, yp, t, b)
  BY DCallOwn
<1>2. Top' = b /\ Running' = Running /\ Runs(cstack', Running)
  <2>1. Len(cstack') = Len(stack) + 1 /\ cstack'[Len(stack) + 1] = b /\ Len(stack) \in Nat
    BY <1>1, Pushed DEF Called
  <2>2. Top' = b /\ Len(cstack') \in 1 .. Len(cstack')
    BY <2>1 DEF Top
  <2>3. b.th = Running
    BY <1>1 DEF Called
  <2>. QED  BY <2>1, <2>2, <2>3 DEF Running, Runs
<1>3. S' = t /\ t.nCcalls = S.nCcalls + 1 /\ \A L \in Threads : L /= Running => state'[L] = state[L]
  <2>1. Update(t) /\ t.nCcalls = S.nCcalls + 1
    BY <1>1 DEF Called
  <2>. QED  BY <1>2, <2>1, RunningFacts DEF S, Update
<1>4. NC(cstack', Len(cstack')) = S.nCcalls + 1 /\ S.nCcalls \in Nat
  BY <1>3, ActiveCounts DEF CountsActive
<1>5. S.nCcalls < CLimit /\ CLimit \in Nat /\ CLimit > LUAI_MAXCCALLS
  BY LimitsAssumption DEF LimitInv, CLimit
<1>6. CASE S.nCcalls + 1 = CLimit
  <2>1. mode' = "ERRERR"
    <3>1. /\ s.nCcalls + 1 /= LUAI_MAXCCALLS /\ s.nCcalls + 1 >= LUAI_MAXCCALLS + EXTRACCALLS
      BY <1>5, <1>6, LimitsAssumption DEF CLimit
    <3>. QED  BY <3>1 DEF DCall
  <2>. QED  BY <1>1, <1>2, <1>3, <1>4, <1>6, <2>1, LimitKept DEF Called, ErrorStatus, LimitInv
<1>7. CASE S.nCcalls + 1 < CLimit
  BY <1>2, <1>3, <1>4, <1>7, LimitKept DEF LimitInv
<1>. QED  BY <1>4, <1>5, <1>6, <1>7


LEMMA LimitStay ==
  ASSUME CountInv, CountInv', LimitInv, mode \notin ErrorStatus, NEW t, Update(t), cstack' = cstack
  PROVE  LimitInv'
<1>1. Own(Len(cstack)) /\ Len(cstack) \in Nat
  BY OwnStay, RunningFacts
<1>. QED  BY <1>1, LimitOwn

LEMMA LimitPush ==
  ASSUME CountInv, CountInv', LimitInv, mode \notin ErrorStatus, NEW t, Update(t),
         NEW b \in Activation, b.th = Running, Counts(b) = 0, cstack' = Append(cstack, b)
  PROVE  LimitInv'
<1>1. Own(Len(cstack)) /\ Len(cstack) \in Nat /\ Len(cstack') = Len(cstack) + 1 /\ cstack'[Len(cstack) + 1] = b
  BY OwnPush, RunningFacts
<1>. QED  BY <1>1, LimitOwn

LEMMA LimitPop ==
  ASSUME CountInv, CountInv', LimitInv, mode \notin ErrorStatus, Top.kind \notin {"host", "resume"},
         NEW t, Update(t), cstack' = Pop
  PROVE  LimitInv'
<1>. DEFINE n == Len(cstack) - 1
<1>1. n \in 1 .. Len(cstack) /\ cstack[n].th = Running /\ cstack' = SubSeq(cstack, 1, n) /\ n \in Nat
  BY PopFacts, RunningFacts
<1>. HIDE DEF n
<1>2. Own(n) /\ Len(cstack') = n
  BY <1>1, OwnCut
<1>. QED  BY <1>1, <1>2, LimitOwn

(* The steps that leave the C stack as it is.                              *)
LEMMA StayLimits ==
  ASSUME CountInv, CountInv', LimitInv,
         OpCall \/ Return \/ Error \/ HandlerDone \/ PrecallFails \/ (\E k \in BOOLEAN : Yield(k))
           \/ (\E h \in {"none", "user"} : SetHook(h)) \/ Lstop
  PROVE  LimitInv'
<1>1. mode \in {"run", "precall"}
  BY DEF OpCall, Return, Error, HandlerDone, PrecallFails, Yield, SetHook, Lstop, InCode, InC, InLua, UserHook, Body
<1>2. cstack' = cstack /\ \E t : Update(t)
  <2>1. CASE OpCall \/ Return \/ Error \/ HandlerDone
    BY <2>1, SameUpdate DEF OpCall, Return, Error, HandlerDone
  <2>2. CASE PrecallFails
    BY <2>2, SameUpdate, Zenon DEF PrecallFails
  <2>3. CASE \E k \in BOOLEAN : Yield(k)
    BY <2>3, SameUpdate, Zenon DEF Yield
  <2>4. CASE (\E h \in {"none", "user"} : SetHook(h)) \/ Lstop
    BY <2>4, Zenon DEF SetHook, Lstop
  <2>. QED  BY <2>1, <2>2, <2>3, <2>4
<1>. QED  BY <1>1, <1>2, LimitStay DEF ErrorStatus

(* Those that return.                                                      *)
LEMMA PopLimits ==
  ASSUME CountInv, CountInv', LimitInv,
         CallDone \/ PcallDone \/ FinalizerDone \/ LeaveLevel \/ LoadDone \/ HookDone \/ YieldInHook
  PROVE  LimitInv'
<1>1. mode = "run" /\ Top.kind \in {"call", "pcall", "gctm", "level", "load", "hook"}
  BY DEF CallDone, PcallDone, FinalizerDone, LeaveLevel, LoadDone, HookDone, YieldInHook, UserHook, Body
<1>2. cstack' = Pop /\ \E t : Update(t)
  BY Zenon DEF CallDone, PcallDone, FinalizerDone, LeaveLevel, LoadDone, HookDone, YieldInHook
<1>. QED  BY <1>1, <1>2, LimitPop DEF ErrorStatus

LEMMA ParserEndsLimits ==
  ASSUME CountInv, CountInv', LimitInv, ParserEnds
  PROVE  LimitInv'
<1>1. mode = "run" /\ state' = state
  BY DEF ParserEnds, InParser, Body
<1>2. Update(S)
  BY <1>1, SameUpdate
<1>3. CASE cstack' = cstack
  BY <1>1, <1>2, <1>3, LimitStay DEF ErrorStatus
<1>4. CASE Body({"parser"}) /\ cstack' = Pop
  BY <1>1, <1>2, <1>4, LimitPop DEF ErrorStatus, Body
<1>. QED  BY <1>3, <1>4 DEF ParserEnds

LEMMA PoscallLimits ==
  ASSUME CountInv, CountInv', LimitInv, Poscall
  PROVE  LimitInv'
<1>1. mode \in {"ret", "poscall"} /\ \E t : Update(t)
  BY Zenon DEF Poscall
<1>2. CASE cstack' = cstack
  BY <1>1, <1>2, LimitStay DEF ErrorStatus
<1>3. CASE cstack' = Pop /\ Top.kind \in {"cfun", "exec"}
  BY <1>1, <1>3, LimitPop DEF ErrorStatus
<1>. QED  BY <1>2, <1>3 DEF Poscall

(* Those that put an activation on it.                                     *)
LEMMA HookLimits ==
  ASSUME CountInv, CountInv', LimitInv, ReturnHook \/ CountHook
  PROVE  LimitInv'
<1>1. mode \in {"ret", "run"} /\ \E t : Update(t)
  BY Zenon DEF ReturnHook, CountHook, Body
<1>2. CASE cstack' = cstack
  BY <1>1, <1>2, LimitStay DEF ErrorStatus
<1>3. ASSUME NEW ev \in {"ret", "count"}, cstack' = Append(cstack, HookAct(Depth, ev))
      PROVE  LimitInv'
  <2>1. /\ HookAct(Depth, ev) \in Activation /\ HookAct(Depth, ev).kind = "hook"
        /\ HookAct(Depth, ev).th = Running
    BY <1>3, HookActOK, RunningFacts
  <2>2. Counts(HookAct(Depth, ev)) = 0
    BY <2>1 DEF Counts
  <2>. QED  BY <1>1, <1>3, <2>1, <2>2, LimitPush DEF ErrorStatus
<1>. QED  BY <1>2, <1>3 DEF ReturnHook, CountHook

LEMMA UnrollLimits ==
  ASSUME CountInv, CountInv', LimitInv, Unroll
  PROVE  LimitInv'
<1>1. mode = "run" /\ \E t : Update(t)
  BY Zenon DEF Unroll, Body
<1>2. ASSUME NEW kind \in {"exec", "cfun"}, cstack' = Append(cstack, Kind(kind, Depth))
      PROVE  LimitInv'
  <2>1. Kind(kind, Depth) \in Activation /\ Kind(kind, Depth).kind = kind /\ Kind(kind, Depth).th = Running
    BY <1>2, RunningFacts DEF Kind, Activation
  <2>2. Counts(Kind(kind, Depth)) = 0
    BY <1>2, <2>1 DEF Counts
  <2>. QED  BY <1>1, <1>2, <2>1, <2>2, LimitPush DEF ErrorStatus
<1>. QED  BY <1>2 DEF Unroll

LEMMA PrecallLimits ==
  ASSUME CountInv, FrameInv, CountInv', LimitInv, Precall
  PROVE  LimitInv'
<1>1. /\ Own(Len(cstack)) /\ Len(cstack) \in Nat
      /\ \A i \in Len(cstack) + 1 .. Len(cstack') : cstack'[i].kind \in Bodies \union {"hook"}
  BY PrecallShape, RunningFacts
<1>2. \A i \in Len(cstack) + 1 .. Len(cstack') : Counts(cstack'[i]) = 0
  BY <1>1 DEF Bodies, Counts
<1>3. mode = "precall"
  BY DEF Precall
<1>. QED  BY <1>1, <1>2, <1>3, LimitOwn DEF ErrorStatus

LEMMA LoadLimits ==
  ASSUME CountInv, FrameInv, CountInv', LimitInv, Load
  PROVE  LimitInv'
<1>. DEFINE s == [S EXCEPT !.nny = @ + 1]  a == Kind("load", Depth)  b == PcallAct(s)  c == Kind("parser", Depth)
<1>1. mode = "run" /\ Update(s) /\ cstack' = cstack \o <<a, b, c>>
  BY DEF Load, Body
<1>2. s \in ThreadState /\ s.ci = S.ci
  <2>1. S \in ThreadState /\ S.nny + 1 \in Int
    BY RunningFacts
  <2>. QED  BY <2>1 DEF ThreadState
<1>. HIDE DEF s
<1>3. ThreadOK(s)
  BY <1>2, ThreadUpdate, RunningFacts
<1>4. a \in Activation /\ a.kind = "load" /\ a.th = Running /\ c \in Activation /\ c.kind = "parser" /\ c.th = Running
  BY RunningFacts DEF Kind, Activation
<1>5. b \in Activation /\ b.kind = "pcall" /\ b.th = Running
  BY <1>3, PcallActOK
<1>. HIDE DEF a, b, c
<1>6. cstack' = Append(Append(Append(cstack, a), b), c)
  BY <1>1, <1>4, <1>5, Push3, RunningFacts
<1>7. Own(Len(cstack)) /\ \A i \in Len(cstack) + 1 .. Len(cstack') : cstack'[i] \in {a, b, c}
  <2>1. /\ Own(Len(cstack))
        /\ \A i \in Len(cstack) + 1 .. Len(cstack') :
             i = Len(cstack) + 1 \/ i = Len(cstack) + 2 \/ i = Len(cstack) + 3
        /\ cstack'[Len(cstack) + 1] = a /\ cstack'[Len(cstack) + 2] = b /\ cstack'[Len(cstack) + 3] = c
    <3>. HIDE DEF Own, Update
    <3>1. Update(s)
      BY <1>1
    <3>. QED  BY <3>1, <1>4, <1>5, <1>6, OwnPush3
  <2>. QED  BY <2>1, Zenon
<1>8. \A i \in Len(cstack) + 1 .. Len(cstack') : Counts(cstack'[i]) = 0
  BY <1>4, <1>5, <1>7 DEF Counts
<1>. QED  BY <1>1, <1>7, <1>8, LimitOwn, RunningFacts DEF ErrorStatus


(* Those that call.                                                        *)
LEMMA CallKLimits ==
  ASSUME CountInv, FrameInv, CountInv', LimitInv, NEW k \in BOOLEAN, CallK(k)
  PROVE  LimitInv'
<1>1. mode = "run" /\ cstack \in Seq(Activation) /\ S \in ThreadState
  BY RunningFacts DEF CallK, InC, UserHook, Body
<1>2. CASE k /\ S.nny = 0
  <2>. DEFINE f == [CurrentCI EXCEPT !.k = TRUE]
  <2>1. DCall(SetFrame(S, f), cstack, FALSE, FALSE)
    BY <1>2 DEF CallK
  <2>2. f \in Frame
    BY RunningFrames, FrameInvFacts DEF Frame
  <2>. HIDE DEF f
  <2>3. SetFrame(S, f) \in ThreadState /\ SetFrame(S, f).nCcalls = S.nCcalls
    BY <2>2, SetFrameIs
  <2>. QED  BY <1>1, <2>1, <2>3, LimitCall DEF ErrorStatus
<1>3. CASE ~(k /\ S.nny = 0)
  <2>1. DCall(S, cstack, TRUE, FALSE)
    BY <1>3 DEF CallK
  <2>. QED  BY <1>1, <2>1, LimitCall DEF ErrorStatus
<1>. QED  BY <1>2, <1>3

LEMMA MetamethodsLimits ==
  ASSUME CountInv, CountInv', LimitInv, Metamethod \/ Reader \/ ApiMetamethod
  PROVE  LimitInv'
<1>1. mode = "run" /\ cstack \in Seq(Activation) /\ S \in ThreadState
  BY RunningFacts DEF Metamethod, Reader, ApiMetamethod, InLua, InParser, UserHook, Body
<1>2. \E noyield \in BOOLEAN : DCall(S, cstack, noyield, FALSE)
  <2>1. CASE Metamethod
    BY <2>1 DEF Metamethod
  <2>2. CASE Reader
    BY <2>2 DEF Reader
  <2>3. CASE ApiMetamethod
    <3>. DEFINE noyield == ~IsLua
    <3>1. noyield \in BOOLEAN /\ DCall(S, cstack, noyield, FALSE)
      BY <2>3 DEF ApiMetamethod
    <3>. HIDE DEF noyield
    <3>. QED  BY <3>1
  <2>. QED  BY <2>1, <2>2, <2>3
<1>. QED  BY <1>1, <1>2, LimitCall DEF ErrorStatus

LEMMA ErrorMsgLimits ==
  ASSUME CountInv, CountInv', LimitInv, ErrorMsg
  PROVE  LimitInv'
<1>1. mode = "errormsg" /\ mode \notin ErrorStatus
  BY DEF ErrorMsg, ErrorStatus
<1>2. CASE S.errfunc = 0
  <2>1. state' = state /\ cstack' = cstack
    BY <1>2 DEF ErrorMsg
  <2>. QED  BY <1>1, <2>1, SameUpdate, LimitStay
<1>3. CASE S.errfunc /= 0
  <2>. DEFINE b == Kind("errormsg", Depth)
  <2>1. DCall(S, Append(cstack, b), TRUE, FALSE)
    BY <1>3 DEF ErrorMsg
  <2>2. b \in Activation
    BY RunningFacts DEF Kind, Activation
  <2>. HIDE DEF b
  <2>3. Append(cstack, b) \in Seq(Activation)
    BY <2>2, RunningFacts
  <2>. QED  BY <1>1, <2>1, <2>3, RunningFacts, LimitCall
<1>. QED  BY <1>2, <1>3

LEMMA PcallLimits ==
  ASSUME CountInv, FrameInv, CountInv', LimitInv, NEW k \in BOOLEAN, NEW ef \in Nat, PcallK(k, ef)
  PROVE  LimitInv'
<1>1. mode = "run" /\ mode \notin ErrorStatus
  BY DEF PcallK, InC, UserHook, Body, ErrorStatus
<1>2. CASE k /\ S.nny = 0
  <2>. DEFINE f == [CurrentCI EXCEPT !.k = TRUE, !.yp = TRUE, !.oerr = S.errfunc, !.oah = S.allowhook]
              s == [SetFrame(S, f) EXCEPT !.errfunc = ef]
  <2>1. DCall(s, cstack, FALSE, TRUE)
    BY <1>2 DEF PcallK
  <2>2. CurrentCI \in Frame /\ S.errfunc \in Nat /\ S.allowhook \in BOOLEAN
    BY RunningFrames, FrameInvFacts, RunningFacts DEF ThreadState
  <2>3. f \in Frame
    BY <2>2 DEF Frame
  <2>. HIDE DEF f
  <2>4. SetFrame(S, f) \in ThreadState /\ SetFrame(S, f).nCcalls = S.nCcalls
    BY <2>3, SetFrameIs
  <2>5. s \in ThreadState /\ s.nCcalls = S.nCcalls
    BY <2>4 DEF ThreadState
  <2>. HIDE DEF s
  <2>. QED  BY <1>1, <2>1, <2>5, RunningFacts, LimitCall
<1>3. CASE ~(k /\ S.nny = 0)
  <2>. DEFINE t == [S EXCEPT !.errfunc = ef, !.armed = @ \/ Top.kind = "host"]  b == PcallAct(S)
  <2>1. DCall(t, Append(cstack, b), TRUE, FALSE)
    BY <1>3 DEF PcallK
  <2>2. t \in ThreadState /\ t.nCcalls = S.nCcalls
    <3>1. (S.armed \/ Top.kind = "host") \in BOOLEAN
      OBVIOUS
    <3>. QED  BY <3>1, RunningFacts DEF ThreadState
  <2>. HIDE DEF t
  <2>3. b \in Activation
    BY PcallActOK, RunningFacts
  <2>. HIDE DEF b
  <2>4. Append(cstack, b) \in Seq(Activation)
    BY <2>3, RunningFacts
  <2>. QED  BY <1>1, <2>1, <2>2, <2>4, LimitCall
<1>. QED  BY <1>2, <1>3

LEMMA CallFinalizerLimits ==
  ASSUME CountInv, CountInv', LimitInv, CallFinalizer
  PROVE  LimitInv'
<1>. DEFINE s == [S EXCEPT !.allowhook = FALSE]
            t == [s EXCEPT !.errfunc = 0]
            a == GCTM(S.allowhook)
            b == PcallAct(s)
<1>1. s \in ThreadState /\ s.ci = S.ci
  BY RunningFacts DEF ThreadState
<1>2. t \in ThreadState /\ t.nCcalls = S.nCcalls
  BY RunningFacts DEF ThreadState
<1>3. S.allowhook \in BOOLEAN
  BY RunningFacts DEF ThreadState
<1>4. DCall(t, cstack \o <<a, b>>, TRUE, FALSE) /\ mode = "run"
  BY DEF CallFinalizer, InCode, InC, UserHook, InLua, InParser, Body
<1>. HIDE DEF s, t
<1>5. a \in Activation /\ b \in Activation
  <2>1. a \in Activation
    BY <1>3, RunningFacts DEF GCTM, Activation
  <2>2. ThreadOK(s)
    BY <1>1, ThreadUpdate, RunningFacts
  <2>. QED  BY <2>1, <2>2, PcallActOK
<1>. HIDE DEF a, b
<1>6. cstack \o <<a, b>> \in Seq(Activation)
  BY <1>5, RunningFacts
<1>. QED  BY <1>2, <1>4, <1>6, LimitCall DEF ErrorStatus

LEMMA EnterLevelLimits ==
  ASSUME CountInv, CountInv', LimitInv, EnterLevel
  PROVE  LimitInv'
<1>. DEFINE t == [S EXCEPT !.nCcalls = @ + 1]  b == Kind("level", Depth)
<1>1. mode = "run" /\ Update(t) /\ cstack' = Append(cstack, b)
      /\ mode' = IF S.nCcalls + 1 > LUAI_MAXCCALLS THEN "ERRSYNTAX" ELSE mode
  BY DEF EnterLevel, InParser, Body
<1>2. b \in Activation /\ b.kind = "level" /\ b.th = Running
  BY RunningFacts DEF Kind, Activation
<1>. HIDE DEF t, b
<1>3. /\ Own(Len(cstack)) /\ Top' = b /\ Len(cstack) \in Nat /\ Len(cstack') = Len(cstack) + 1
      /\ cstack'[Len(cstack) + 1] = b
  BY <1>1, <1>2, OwnPush, RunningFacts
<1>4. Runs(cstack', Running) /\ \A L \in Threads : L /= Running => state'[L] = state[L]
  BY <1>3, OwnFacts DEF Own, Moves
<1>5. NC(cstack', Len(cstack')) = S.nCcalls + 1 /\ S.nCcalls \in Nat
  <2>. DEFINE n == Len(cstack)
  <2>1. NC(cstack', n) = NC(cstack, n)
    <3>1. n \in Nat /\ \A j \in 1 .. n : cstack'[j] = cstack[j]
      BY <1>3 DEF Own, Moves
    <3>. HIDE DEF n
    <3>. QED  BY <3>1, Uncounted
  <2>2. NC(cstack', n + 1) = NC(cstack', n) + 1
    BY <1>2, <1>3, OneMore DEF Counts
  <2>. QED  BY <1>3, <2>1, <2>2, ActiveCounts DEF CountsActive
<1>6. S.nCcalls < CLimit /\ CLimit \in Nat /\ CLimit > LUAI_MAXCCALLS
  BY <1>1, LimitsAssumption DEF LimitInv, CLimit, ErrorStatus
<1>7. CASE S.nCcalls + 1 = CLimit
  <2>1. mode' = "ERRSYNTAX"
    BY <1>1, <1>6, <1>7
  <2>. QED  BY <1>2, <1>3, <1>4, <1>5, <1>7, <2>1, LimitKept DEF ErrorStatus, LimitInv
<1>8. CASE S.nCcalls + 1 < CLimit
  BY <1>4, <1>5, <1>8, LimitKept DEF LimitInv
<1>. QED  BY <1>5, <1>6, <1>7, <1>8


(* Those that catch an error: it was thrown with no C call above.          *)
LEMMA CatchLimits ==
  ASSUME CountInv, FrameInv, CountInv', LimitInv, CatchInPcall
  PROVE  LimitInv'
<1>1. PICK n : /\ Own(n) /\ Len(cstack') = n /\ n + 1 \in 2 .. Len(cstack)
  BY CatchShape
<1>2. n \in Nat /\ n < Len(cstack)
  BY <1>1, RunningFacts, OwnFacts
<1>. QED  BY <1>1, <1>2, LimitOwn

LEMMA RecoverLimits ==
  ASSUME CountInv, CountInv', LimitInv, Recover
  PROVE  LimitInv'
<1>. DEFINE c == Catcher  i == Max(RecoverPoints)  b == Kind("cfun", i)
<1>1. Thrown /\ cstack[c].kind = "resume" /\ (\E t : Update(t)) /\ RecoverPoints /= {}
      /\ cstack' = Append(SubSeq(cstack, 1, c), b)
  BY Zenon DEF Recover, RecoverAt
<1>2. i \in Nat
  <2>1. RecoverPoints \in SUBSET (1 .. Depth)
    BY DEF RecoverPoints
  <2>2. i \in RecoverPoints
    BY <1>1, <2>1, LargestMember, RunningFacts
  <2>. QED  BY <2>2 DEF RecoverPoints
<1>. HIDE DEF i
<1>3. c \in 1 .. Len(cstack) /\ cstack[c].th = Running /\ c \in Nat
  BY <1>1, ThrownFacts
<1>4. c < Len(cstack) \/ Top.kind \notin {"call", "level"}
  BY <1>1, <1>3, RunningFacts
<1>. HIDE DEF c
<1>5. b \in Activation /\ b.kind = "cfun" /\ b.th = Running
  BY <1>2, RunningFacts DEF Kind, Activation
<1>6. Counts(b) = 0
  BY <1>5 DEF Counts
<1>. HIDE DEF b
<1>7. Own(c) /\ Len(cstack') = c + 1 /\ cstack'[c + 1] = b
  BY <1>1, <1>3, <1>5, OwnCutPush
<1>. QED  BY <1>3, <1>4, <1>6, <1>7, LimitOwn

(* Those that leave a thread.                                              *)
LEMMA LeaveLimits ==
  ASSUME CountInv, CountInv', LimitInv, NEW r \in 1 .. Len(cstack), cstack[r].kind = "resume",
         cstack[r].th = Running, NEW s \in ThreadState, ResumeReturns(s, r)
  PROVE  LimitInv'
<1>. DEFINE e == cstack[r].ncc - 1  o == cstack[r].oldnny  t == [s EXCEPT !.nny = o, !.nCcalls = e]
<1>1. Update(t) /\ cstack' = SubSeq(cstack, 1, r - 1)
  BY DEF ResumeReturns
<1>2. e <= CLimit
  <2>1. cstack[r].ncc = NC(cstack, r)
    BY AtResume
  <2>2. NC(cstack, r) <= S.nCcalls /\ NC(cstack, r) \in Nat /\ S.nCcalls \in Nat
    <3>1. r \in Nat /\ Len(cstack) \in Nat /\ r <= Len(cstack) /\ S.nCcalls = NC(cstack, Len(cstack))
      BY RunningFacts DEF CN
    <3>. QED  BY <3>1, MoreCalls
  <2>3. S.nCcalls <= CLimit /\ CLimit \in Nat
    BY RunningFacts, LimitsAssumption DEF LimitInv, CLimit, S
  <2>. QED  BY <2>1, <2>2, <2>3
<1>. HIDE DEF e, o
<1>3. t.nCcalls = e
  BY DEF ThreadState
<1>. HIDE DEF t
<1>4. Moves(r - 1, Running) /\ T = t /\ Len(cstack') = r - 1 /\ r \in 2 .. Len(cstack) /\ r - 1 \in 1 .. Len(cstack)
  BY <1>1, LeaveMoves
<1>5. NC(cstack', Len(cstack')) < CLimit
  <2>. DEFINE n == r - 1
  <2>1. n \in Nat /\ n < Len(cstack) /\ n \in 1 .. Len(cstack) /\ Len(cstack') = n
    BY <1>4, RunningFacts
  <2>2. \A j \in 1 .. n : cstack'[j] = cstack[j]
    BY <1>4 DEF Moves
  <2>. HIDE DEF n
  <2>3. NC(cstack', n) = NC(cstack, n)
    BY <2>1, <2>2, Uncounted
  <2>. QED  BY <2>1, <2>3, BelowLimit
<1>6. ASSUME NEW L \in Threads
      PROVE  state'[L].nCcalls <= CLimit
  <2>1. CASE L = Running
    BY <1>2, <1>3, <1>4, <2>1 DEF T
  <2>2. CASE L /= Running
    BY <1>4, <2>2 DEF Moves, LimitInv
  <2>. QED  BY <2>1, <2>2
<1>. QED  BY <1>5, <1>6, LimitKept

LEMMA LeavingLimits ==
  ASSUME CountInv, CountInv', LimitInv, Die \/ Suspend \/ Finish
  PROVE  LimitInv'
<1>1. CASE Die \/ Suspend
  <2>. DEFINE s == [S EXCEPT !.status = mode]
  <2>1. Thrown /\ cstack[Catcher].kind = "resume" /\ (ResumeReturns(S, Catcher) \/ (ResumeReturns(s, Catcher) /\ Die))
    BY <1>1 DEF Die, Suspend, Thrown
  <2>2. Catcher \in 1 .. Len(cstack) /\ cstack[Catcher].th = Running
    BY <2>1, ThrownFacts
  <2>3. S \in ThreadState /\ (Die => s \in ThreadState)
    <3>1. S \in ThreadState
      BY RunningFacts
    <3>2. Die => mode \in ErrorStatus
      BY DEF Die, Thrown
    <3>. QED  BY <3>1, <3>2 DEF ThreadState
  <2>. HIDE DEF s
  <2>. QED  BY <2>1, <2>2, <2>3, LeaveLimits
<1>2. CASE Finish
  <2>1. Top.kind = "resume" /\ ResumeReturns(S, Len(cstack))
    BY <1>2 DEF Finish, Body
  <2>2. Len(cstack) \in 1 .. Len(cstack) /\ cstack[Len(cstack)] = Top /\ Top.th = Running /\ S \in ThreadState
    BY RunningFacts
  <2>. QED  BY <2>1, <2>2, LeaveLimits
<1>. QED  BY <1>1, <1>2

(* Those of another thread.                                                *)
LEMMA SignalLimits ==
  ASSUME CountInv, CountInv', LimitInv, Signal
  PROVE  LimitInv'
<1>1. cstack' = cstack /\ mode' = mode
      /\ state' = [state EXCEPT ![Main] = [state[Main] EXCEPT !.hook = "lstop", !.armed = FALSE]]
  BY DEF Signal
<1>2. state \in [Threads -> ThreadState] /\ Main \in Threads /\ state[Main] \in ThreadState
  BY RunningFacts DEF Threads
<1>3. [state[Main] EXCEPT !.hook = "lstop", !.armed = FALSE].nCcalls = state[Main].nCcalls
  BY <1>2 DEF ThreadState
<1>4. \A L \in Threads : state'[L].nCcalls = state[L].nCcalls
  BY <1>1, <1>2, <1>3
<1>5. Running' = Running /\ Running \in Threads /\ Top' = Top
  BY <1>1, RunningFacts DEF Running, Top
<1>. QED  BY <1>1, <1>4, <1>5 DEF LimitInv, S

LEMMA CreateLimits ==
  ASSUME CountInv, CountInv', LimitInv, NEW L \in Coroutines, Create(L)
  PROVE  LimitInv'
<1>1. state' = [state EXCEPT ![L] = NewThread(L, S.hook, state[L].ops)] /\ cstack' = cstack /\ mode' = mode
      /\ ~Runs(cstack, L)
  BY RunningFacts DEF Create, Runs
<1>2. NewThread(L, S.hook, state[L].ops).nCcalls = 0 /\ 0 <= CLimit
  BY LimitsAssumption DEF NewThread, CLimit
<1>3. L \in Threads /\ L /= Running
  BY <1>1, RunningFacts DEF Threads, Runs
<1>4. \A M \in Threads : state'[M].nCcalls <= CLimit
  BY <1>1, <1>2, RunningFacts DEF LimitInv
<1>5. Running' = Running /\ Top' = Top /\ S' = S
  BY <1>1, <1>3, RunningFacts DEF Running, Top, S
<1>. QED  BY <1>1, <1>4, <1>5 DEF LimitInv


LEMMA ResumeLimits ==
  ASSUME CountInv, FrameInv, CountInv', LimitInv, NEW L \in Coroutines, Resume(L)
  PROVE  LimitInv'
<1>. DEFINE n == S.nCcalls + 1
            l == state[L]
            act == [kind |-> "resume", th |-> L, ci |-> 1, oldnny |-> l.nny, ncc |-> n]
            body(kind) == [kind |-> kind, th |-> L, ci |-> Len(l.ci)]
            m == Len(cstack)
<1>1. mode = "run" /\ L /= Running /\ L \in Threads /\ l \in ThreadState
  BY RunningFacts DEF Resume, Body, Threads
<1>2. \/ n >= LUAI_MAXCCALLS /\ state' = [state EXCEPT ![L] = Refused(l, n)] /\ UNCHANGED <<cstack, mode>>
      \/ /\ n < LUAI_MAXCCALLS /\ \E t : state' = [state EXCEPT ![L] = t]
         /\ \/ cstack' = cstack \o <<act>>
            \/ \E kind \in Bodies : cstack' = cstack \o <<act, body(kind)>>
  BY DEF Resume, Refused, Bodies
<1>3. S.nCcalls = NC(cstack, m) /\ S.nCcalls \in Nat /\ S.nCcalls < CLimit /\ CLimit \in Nat /\ LUAI_MAXCCALLS < CLimit
      /\ m \in Nat \ {0} /\ m = Len(cstack) /\ cstack \in Seq(Activation)
  BY <1>1, ActiveCounts, RunningFacts, LimitsAssumption DEF CountsActive, LimitInv, CLimit, ErrorStatus
<1>4. act \in Activation /\ act.kind = "resume" /\ act.th = L
  BY <1>1, <1>3 DEF Activation, ThreadState
<1>5. ASSUME NEW kind \in Bodies
      PROVE  body(kind) \in Activation /\ Counts(body(kind)) = 0
  <2>1. body(kind) \in Activation /\ body(kind).kind = kind
    BY <1>1, <1>5 DEF Activation, Bodies, ThreadState
  <2>. QED  BY <1>5, <2>1 DEF Counts, Bodies
<1>6. CASE n >= LUAI_MAXCCALLS /\ state' = [state EXCEPT ![L] = Refused(l, n)] /\ UNCHANGED <<cstack, mode>>
  <2>1. Refused(l, n).nCcalls = n /\ n <= CLimit
    BY <1>1, <1>3 DEF Refused, ThreadState
  <2>2. \A M \in Threads : state'[M].nCcalls <= CLimit
    BY <1>1, <1>6, <2>1, RunningFacts DEF LimitInv
  <2>3. Running' = Running /\ Top' = Top /\ S' = S
    BY <1>1, <1>6, RunningFacts DEF Running, Top, S
  <2>. QED  BY <1>6, <2>2, <2>3 DEF LimitInv
<1>7. CASE /\ n < LUAI_MAXCCALLS /\ \E t : state' = [state EXCEPT ![L] = t]
           /\ \/ cstack' = cstack \o <<act>>
              \/ \E kind \in Bodies : cstack' = cstack \o <<act, body(kind)>>
  <2>1. /\ Len(cstack') \in {m + 1, m + 2} /\ cstack'[m + 1] = act /\ \A j \in 1 .. m : cstack'[j] = cstack[j]
        /\ Len(cstack') = m + 2 => Counts(cstack'[m + 2]) = 0
    <3>1. CASE cstack' = cstack \o <<act>>
      <4>. HIDE DEF act
      <4>1. cstack' = Append(cstack, act)
        BY <1>3, <1>4, <3>1
      <4>2. m + 1 /= m + 2
        BY <1>3
      <4>. QED  BY <1>3, <1>4, <4>1, <4>2, Pushed
    <3>2. ASSUME NEW kind \in Bodies, cstack' = cstack \o <<act, body(kind)>>
          PROVE  <2>1!:
      <4>. DEFINE b == body(kind)
      <4>1. b \in Activation /\ Counts(b) = 0
        BY <1>5
      <4>. HIDE DEF act, b
      <4>2. cstack' = Append(Append(cstack, act), b)
        BY <1>3, <1>4, <3>2, <4>1, Push2 DEF b
      <4>. QED  BY <1>3, <1>4, <4>1, <4>2
    <3>. QED  BY <1>7, <3>1, <3>2
  <2>. HIDE DEF act, m, l
  <2>2. NC(cstack', Len(cstack')) = n
    <3>1. NC(cstack', m) = NC(cstack, m)
      BY <1>3, <2>1, Uncounted
    <3>2. NC(cstack', m + 1) = NC(cstack', m) + 1
      BY <1>3, <1>4, <2>1, OneMore DEF Counts
    <3>3. CASE Len(cstack') = m + 2
      <4>1. m + 1 \in Nat /\ m + 1 + 1 = m + 2
        BY <1>3
      <4>2. NC(cstack', m + 2) = NC(cstack', m + 1) + 0
        BY <2>1, <3>3, <4>1, OneMore
      <4>. QED  BY <1>3, <3>1, <3>2, <3>3, <4>2
    <3>. QED  BY <1>3, <2>1, <3>1, <3>2, <3>3
  <2>3. Runs(cstack', L)
    <3>1. m + 1 \in 1 .. Len(cstack')
      BY <1>3, <2>1
    <3>. QED  BY <1>4, <2>1, <3>1 DEF Runs
  <2>4. \A M \in Threads : Runs(cstack', M) \/ state'[M].nCcalls <= CLimit
    BY <1>7, <2>3, RunningFacts DEF LimitInv
  <2>5. n < CLimit
    BY <1>3, <1>7, LimitsAssumption
  <2>. QED  BY <2>2, <2>4, <2>5, LimitKept
<1>. QED  BY <1>2, <1>6, <1>7

LEMMA LimitInductive ==
  ASSUME CountInv, FrameInv, LimitInv, CountInv', [Next]_vars
  PROVE  LimitInv'
<1>1. CASE UNCHANGED vars
  BY <1>1 DEF vars, LimitInv, S, Running, Top
<1>2. CASE ApiCall
  <2>1. CASE \E k \in BOOLEAN : CallK(k) \/ \E ef \in Nat \cap {0, Depth} : PcallK(k, ef)
    BY <2>1, CallKLimits, PcallLimits
  <2>2. CASE (\E k \in BOOLEAN : Yield(k)) \/ \E h \in {"none", "user"} : SetHook(h)
    BY <2>2, StayLimits
  <2>3. CASE \E L \in Coroutines : Resume(L) \/ Create(L)
    BY <2>3, ResumeLimits, CreateLimits
  <2>4. CASE Load \/ ApiMetamethod
    BY <2>4, LoadLimits, MetamethodsLimits
  <2>. QED  BY <1>2, <2>1, <2>2, <2>3, <2>4 DEF ApiCall
<1>3. CASE OpCall \/ Return \/ Error \/ HandlerDone \/ PrecallFails \/ Lstop
  BY <1>3, StayLimits
<1>4. CASE Metamethod \/ Reader \/ ErrorMsg
  BY <1>4, MetamethodsLimits, ErrorMsgLimits
<1>5. CASE Precall \/ ReturnHook \/ CountHook \/ Poscall
  BY <1>5, PrecallLimits, HookLimits, PoscallLimits
<1>6. CASE CallDone \/ PcallDone \/ FinalizerDone \/ LeaveLevel \/ LoadDone \/ HookDone \/ YieldInHook
  BY <1>6, PopLimits
<1>7. CASE CallFinalizer \/ EnterLevel \/ ParserEnds
  BY <1>7, CallFinalizerLimits, EnterLevelLimits, ParserEndsLimits
<1>8. CASE CatchInPcall \/ Recover \/ Unroll
  BY <1>8, CatchLimits, RecoverLimits, UnrollLimits
<1>9. CASE Die \/ Suspend \/ Finish
  BY <1>9, LeavingLimits
<1>10. CASE Signal
  BY <1>10, SignalLimits
<1>. QED
  BY <1>1, <1>2, <1>3, <1>4, <1>5, <1>6, <1>7, <1>8, <1>9, <1>10 DEF Next

LEMMA InitLimit ==
  ASSUME Init
  PROVE  LimitInv
<1>1. PICK p \in Programs : state = [L \in Threads |-> NewThread(L, "none", p[L])]
  BY DEF Init
<1>2. Running = Main /\ Main \in Threads
  BY DEF Init, Running, Top, Host, Threads
<1>3. \A L \in Threads : state[L].nCcalls = 0
  BY <1>1 DEF NewThread
<1>4. 0 < CLimit /\ 0 <= CLimit
  BY LimitsAssumption DEF CLimit
<1>5. S.nCcalls = 0
  BY <1>2, <1>3 DEF S
<1>. QED  BY <1>3, <1>4, <1>5 DEF LimitInv

-----------------------------------------------------------------------------
(* The three layers hold together in every state.                          *)
THEOREM StacksInvariant ==
  ASSUME HooksAvoidMetamethods
  PROVE  Spec => [](CountInv /\ FrameInv /\ ThirdInv /\ LimitInv)
<1>1. Init => ThirdInv /\ LimitInv
  BY InitThird, InitLimit
<1>2. (CountInv /\ FrameInv) /\ (CountInv /\ FrameInv)' /\ (ThirdInv /\ LimitInv) /\ [Next]_vars
        => (ThirdInv /\ LimitInv)'
  <2>. SUFFICES ASSUME CountInv, FrameInv, CountInv', FrameInv', ThirdInv, LimitInv, [Next]_vars
                PROVE  ThirdInv' /\ LimitInv'
    OBVIOUS
  <2>. QED  BY ThirdInductive, LimitInductive
<1>. QED  BY <1>1, <1>2, LayersInvariant, PTL DEF Spec


(* What the layers say of the properties.                                  *)
LEMMA HandlersLive ==
  ASSUME CountInv, FrameInv, ThirdInv
  PROVE  HandlerAlive
<1>. SUFFICES ASSUME NEW L \in Threads, state[L].status \in {"OK", "YIELD"}, state[L].errfunc /= 0,
                     NEW e, e = state[L].errfunc
              PROVE  e \in DOMAIN state[L].ci /\ PendingCalls(L, e) > 0
  BY DEF HandlerAlive
<1>. DEFINE A == {j \in Of(L, {"pcall"}) : cstack[j].ci = e}
<1>1. DOMAIN cstack = 1 .. Len(cstack) /\ Len(cstack) \in Nat /\ state[L].ci \in Seq(Frame)
  BY RunningFacts DEF ThreadState
<1>2. DOMAIN state[L].ci = 1 .. Len(state[L].ci)
  BY <1>1
<1>3. IsFiniteSet(A) /\ Cardinality(A) \in Nat
  <2>1. A \subseteq 1 .. Len(cstack) /\ IsFiniteSet(1 .. Len(cstack))
    BY <1>1, FS_Interval DEF Of, Activations
  <2>. QED  BY <2>1, FS_Subset, FS_CardinalityType
<1>4. e \in HandlerFrames(state[L].ci, cstack, L, Len(cstack))
  BY DEF ThirdInv, HandlersInv, HandlersOK, Live, ErrfuncOK
<1>5. PendingCalls(L, e) = Cardinality(A) + (IF state[L].ci[e].yp THEN 1 ELSE 0)
  BY DEF PendingCalls
<1>6. CASE e \in Suspended(state[L].ci)
  BY <1>3, <1>5, <1>6 DEF Suspended
<1>7. CASE e \in PcallFrames(cstack, L, Len(cstack))
  <2>1. PICK j \in 1 .. Len(cstack) : cstack[j].kind = "pcall" /\ cstack[j].th = L /\ cstack[j].ci = e
    BY <1>7 DEF PcallFrames
  <2>2. e \in 1 .. Len(state[L].ci)
    BY <2>1 DEF FrameInv, FramesOK, FramesExist
  <2>3. j \in A
    BY <1>1, <2>1 DEF Of, Activations
  <2>4. Cardinality(A) /= 0
    BY <1>3, <2>3, FS_EmptySet
  <2>5. Cardinality(A) + (IF state[L].ci[e].yp THEN 1 ELSE 0) > 0
    BY <1>3, <2>4
  <2>. QED  BY <1>2, <1>5, <2>2, <2>5
<1>. QED  BY <1>4, <1>6, <1>7 DEF HandlerFrames

LEMMA ContinuationsReady ==
  ASSUME CountInv, FrameInv, ThirdInv
  PROVE  ContinuationReady
<1>1. Len(cstack) \in Nat \ {0} /\ cstack[Len(cstack)] = Top /\ Top.th = Running /\ DOMAIN S.ci = 1 .. Depth
      /\ Depth \in Nat /\ Depth = Len(S.ci)
  BY RunningFacts DEF Depth
<1>2. ASSUME mode = "YIELD"
      PROVE  /\ cstack[Catcher].kind = "resume" /\ S.nny = 0
             /\ \A i \in Catcher + 1 .. Len(cstack) : cstack[i].kind \in {"call", "exec", "cfun"}
  <2>1. S.nny = 0 /\ Top.kind \in Bodies /\ Thrown
    BY <1>2, RunningFacts DEF InMode, Thrown
  <2>2. \A j \in 1 .. Len(cstack) : cstack[j].th = Running => cstack[j].kind \in Bodies \union {"call", "resume"}
    BY <2>1, YieldableFacts DEF ThirdInv
  <2>3. /\ Catcher \in 1 .. Len(cstack) /\ cstack[Catcher].kind \in {"pcall", "resume"}
        /\ cstack[Catcher].th = Running /\ Len(cstack) /= 1
    BY <2>1, ThrownFacts
  <2>4. \A j \in Catcher + 1 .. Len(cstack) :
          cstack[j].th = Running /\ cstack[j].kind \notin {"host", "pcall", "resume"} /\ j \in 1 .. Len(cstack)
    BY <1>1, <2>3, CatcherFacts
  <2>. QED  BY <2>1, <2>2, <2>3, <2>4 DEF Bodies
<1>3. ASSUME Body({"resume"}), Depth > 1, ~IsLua
      PROVE  CurrentCI.k /\ S.nny = 0
  <2>1. Top.kind = "resume" /\ mode = "run"
    BY <1>3 DEF Body
  <2>2. ~InUse(cstack, Running, Depth)
    BY <2>1, OnlyResume DEF ThirdInv
  <2>3. Depth \in CFrames(S.ci, Len(S.ci))
    BY <1>1, <1>3 DEF CFrames, LuaFrames, IsLua, CurrentCI
  <2>4. LeftOK(S, cstack, Running, mode) /\ S.status = "OK" /\ ~Returning(Last(cstack), mode)
    BY <2>1, RunningReady, RunMode DEF ThirdInv, Returning
  <2>5. S.ci[Depth].k
    BY <2>2, <2>3, <2>4 DEF LeftOK
  <2>6. S.nny = 0
    <3>1. Len(cstack) \in 1 .. Len(cstack)
      BY <1>1
    <3>2. NY(cstack, Len(cstack)) = 0
      BY <1>1, <2>1, <3>1, AtResume
    <3>. QED  BY <3>2, RunningFacts DEF CY
  <2>. QED  BY <2>5, <2>6 DEF CurrentCI
<1>4. ASSUME Thrown
      PROVE  \A i \in Catcher .. Len(cstack) : cstack[i].th = Running
  <2>1. Catcher \in 1 .. Len(cstack) /\ cstack[Catcher].th = Running /\ Len(cstack) /= 1
    BY <1>4, ThrownFacts
  <2>2. \A i \in Catcher .. Len(cstack) : i = Catcher \/ i \in Catcher + 1 .. Len(cstack)
    BY <1>1, <2>1
  <2>. QED  BY <2>1, <2>2, CatcherFacts
<1>. QED  BY <1>2, <1>3, <1>4 DEF ContinuationReady

LEMMA OverflowsHandled ==
  ASSUME ThirdInv, LimitInv
  PROVE  OverflowHandled
BY DEF OverflowHandled, LimitInv, CLimit, ThirdInv, RoomInv, RoomOK

(* A message handler belongs to a frame that is still there, in a          *)
(* protected call that has not returned, whatever errors and yields have   *)
(* left: L->errfunc (src/ldo.c) is never the index of a value that has     *)
(* taken the place of the handler.                                         *)
THEOREM HandlerAlwaysAlive ==
  ASSUME HooksAvoidMetamethods
  PROVE  Spec => []HandlerAlive
BY HandlersLive, StacksInvariant, PTL

(* A yield reaches the lua_resume of its own thread, over nothing that     *)
(* cannot be left, and 'unroll' finds a continuation in every C function.  *)
THEOREM ContinuationsAlwaysReady ==
  ASSUME HooksAvoidMetamethods
  PROVE  Spec => []ContinuationReady
BY ContinuationsReady, StacksInvariant, PTL

(* Handlers that fail stay within the extra C calls, and the extra stack   *)
(* is in use only above the frames that fill the stack.                    *)
THEOREM OverflowAlwaysHandled ==
  ASSUME HooksAvoidMetamethods
  PROVE  Spec => []OverflowHandled
BY OverflowsHandled, StacksInvariant, PTL

-----------------------------------------------------------------------------
(* LuaCall implements LuaThreads.                                          *)

(* The protected calls of the i-th function of L on the C stack, those     *)
(* that count as pending, and the stack of functions of L with theirs.     *)
PcallsAt(cs, L, i) == {j \in 1 .. Len(cs) : cs[j].th = L /\ cs[j].kind = "pcall" /\ cs[j].ci = i}
PendingAt(cs, ci, L, i) == Cardinality(PcallsAt(cs, L, i)) + (IF ci[i].yp THEN 1 ELSE 0)
StackOf(st, cs, L) == [i \in 1 .. Len(st[L].ci) |-> PendingAt(cs, st[L].ci, L, i)]

ResumersOf(cs, L) == {cs[j - 1].th : j \in {i \in 1 .. Len(cs) : cs[i].th = L /\ cs[i].kind = "resume"}}
Lives(s, cs, L) == s.status \notin ErrorStatus /\ (Runs(cs, L) \/ s.body \/ s.status = "YIELD")

(* What LuaThreads sees, in these terms.                                   *)
AbstractFacts ==
  /\ Pending = [L \in Threads |-> StackOf(state, cstack, L)]
  /\ ResumedBy = [L \in Coroutines |-> ResumersOf(cstack, L)]
  /\ Unfinished = {L \in Coroutines : Lives(state[L], cstack, L)}
  /\ \A L \in Threads : StackOf(state, cstack, L) \in Seq(Nat) /\ Len(StackOf(state, cstack, L)) = Len(state[L].ci)
  /\ \A L : \A i : PcallsAt(cstack, L, i) \in SUBSET (1 .. Len(cstack))
                   /\ IsFiniteSet(PcallsAt(cstack, L, i)) /\ Cardinality(PcallsAt(cstack, L, i)) \in Nat

LEMMA CountPcalls ==
  ASSUME NEW cs, Len(cs) \in Nat, NEW L, NEW i
  PROVE  /\ PcallsAt(cs, L, i) \in SUBSET (1 .. Len(cs)) /\ IsFiniteSet(PcallsAt(cs, L, i))
         /\ Cardinality(PcallsAt(cs, L, i)) \in Nat
<1>1. PcallsAt(cs, L, i) \in SUBSET (1 .. Len(cs)) /\ IsFiniteSet(1 .. Len(cs))
  BY FS_Interval DEF PcallsAt
<1>. QED  BY <1>1, FS_Subset, FS_CardinalityType

LEMMA AbstractIs ==
  /\ CountInv => AbstractFacts
  /\ CountInv' => AbstractFacts'
<1>1. CountInv => AbstractFacts
  <2>. SUFFICES ASSUME CountInv PROVE AbstractFacts
    OBVIOUS
  <2>1. DOMAIN cstack = 1 .. Len(cstack) /\ Len(cstack) \in Nat /\ state \in [Threads -> ThreadState]
    BY RunningFacts
  <2>2. \A L \in Threads : DOMAIN state[L].ci = 1 .. Len(state[L].ci) /\ Len(state[L].ci) \in Nat
    BY <2>1 DEF ThreadState
  <2>3. \A L, i : {j \in Of(L, {"pcall"}) : cstack[j].ci = i} = PcallsAt(cstack, L, i)
    BY <2>1 DEF Of, Activations, PcallsAt
  <2>4. \A L, i : PendingCalls(L, i) = PendingAt(cstack, state[L].ci, L, i)
    BY <2>3 DEF PendingCalls, PendingAt
  <2>5. Pending = [L \in Threads |-> StackOf(state, cstack, L)]
    BY <2>2, <2>4 DEF Pending, StackOf
  <2>6. ResumedBy = [L \in Coroutines |-> ResumersOf(cstack, L)]
    <3>1. \A L : Of(L, {"resume"}) = {i \in 1 .. Len(cstack) : cstack[i].th = L /\ cstack[i].kind = "resume"}
      BY <2>1 DEF Of, Activations
    <3>. QED  BY <3>1 DEF ResumedBy, ResumersOf
  <2>7. \A L : Active(L) <=> Runs(cstack, L)
    BY <2>1 DEF Active, Activations, Runs
  <2>8. Unfinished = {L \in Coroutines : Lives(state[L], cstack, L)}
    BY <2>7 DEF Unfinished, Lives
  <2>9. \A L, i : /\ PcallsAt(cstack, L, i) \in SUBSET (1 .. Len(cstack))
                  /\ IsFiniteSet(PcallsAt(cstack, L, i)) /\ Cardinality(PcallsAt(cstack, L, i)) \in Nat
    BY <2>1, CountPcalls
  <2>10. ASSUME NEW L \in Threads
         PROVE  StackOf(state, cstack, L) \in Seq(Nat) /\ Len(StackOf(state, cstack, L)) = Len(state[L].ci)
    <3>. DEFINE m == Len(state[L].ci)
    <3>1. \A i \in 1 .. m : PendingAt(cstack, state[L].ci, L, i) \in Nat
      BY <2>9 DEF PendingAt
    <3>2. m \in Nat
      BY <2>2
    <3>. HIDE DEF m
    <3>3. [i \in 1 .. m |-> PendingAt(cstack, state[L].ci, L, i)] \in Seq(Nat)
          /\ Len([i \in 1 .. m |-> PendingAt(cstack, state[L].ci, L, i)]) = m
      BY <3>1, <3>2
    <3>. QED  BY <3>3 DEF StackOf, m
  <2>. QED  BY <2>5, <2>6, <2>8, <2>9, <2>10 DEF AbstractFacts
<1>. QED  BY <1>1, PTL

(* Two stacks with the same protected calls of L, or one more.             *)
LEMMA PcallsSame ==
  ASSUME NEW cs, NEW ds, Len(cs) \in Nat, Len(ds) \in Nat, NEW n \in Nat, n <= Len(cs), n <= Len(ds),
         \A j \in 1 .. n : ds[j] = cs[j], NEW L, NEW i,
         \A j \in n + 1 .. Len(cs) : ~(cs[j].th = L /\ cs[j].kind = "pcall" /\ cs[j].ci = i),
         \A j \in n + 1 .. Len(ds) : ~(ds[j].th = L /\ ds[j].kind = "pcall" /\ ds[j].ci = i)
  PROVE  PcallsAt(ds, L, i) = PcallsAt(cs, L, i)
<1>1. ASSUME NEW j \in PcallsAt(ds, L, i) PROVE j \in PcallsAt(cs, L, i)
  <2>1. j \in 1 .. Len(ds) /\ ~(j \in n + 1 .. Len(ds))
    BY <1>1 DEF PcallsAt
  <2>2. j \in 1 .. n /\ j \in 1 .. Len(cs)
    BY <2>1
  <2>. QED  BY <1>1, <2>2 DEF PcallsAt
<1>2. ASSUME NEW j \in PcallsAt(cs, L, i) PROVE j \in PcallsAt(ds, L, i)
  <2>1. j \in 1 .. Len(cs) /\ ~(j \in n + 1 .. Len(cs))
    BY <1>2 DEF PcallsAt
  <2>2. j \in 1 .. n /\ j \in 1 .. Len(ds)
    BY <2>1
  <2>. QED  BY <1>2, <2>2 DEF PcallsAt
<1>. QED  BY <1>1, <1>2

IsPcall(a, L, i) == a.th = L /\ a.kind = "pcall" /\ a.ci = i
Adds(cs, ds, n, p, L, i) ==
  /\ Len(cs) \in Nat /\ Len(ds) \in Nat /\ n \in Nat /\ n <= Len(cs) /\ n <= Len(ds)
  /\ \A j \in 1 .. n : ds[j] = cs[j]
  /\ \A j \in n + 1 .. Len(cs) : ~IsPcall(cs[j], L, i)
  /\ p \in n + 1 .. Len(ds) /\ IsPcall(ds[p], L, i)
  /\ \A j \in n + 1 .. Len(ds) : j /= p => ~IsPcall(ds[j], L, i)

LEMMA PcallsOneMore ==
  ASSUME NEW cs, NEW ds, NEW n, NEW p, NEW L, NEW i, Adds(cs, ds, n, p, L, i)
  PROVE  Cardinality(PcallsAt(ds, L, i)) = Cardinality(PcallsAt(cs, L, i)) + 1
<1>. USE DEF Adds, IsPcall
<1>1. p \notin PcallsAt(cs, L, i)
  <2>. SUFFICES ASSUME p \in PcallsAt(cs, L, i) PROVE FALSE
    OBVIOUS
  <2>1. p \in 1 .. Len(cs) /\ p \in n + 1 .. Len(cs)
    BY DEF PcallsAt
  <2>. QED  BY <2>1 DEF PcallsAt
<1>2. p \in PcallsAt(ds, L, i)
  BY DEF PcallsAt
<1>3. ASSUME NEW j \in PcallsAt(ds, L, i), j /= p PROVE j \in PcallsAt(cs, L, i)
  <2>1. j \in 1 .. Len(ds) /\ ~(j \in n + 1 .. Len(ds))
    BY <1>3 DEF PcallsAt
  <2>2. j \in 1 .. n /\ j \in 1 .. Len(cs)
    BY <2>1
  <2>. QED  BY <1>3, <2>2 DEF PcallsAt
<1>4. ASSUME NEW j \in PcallsAt(cs, L, i) PROVE j \in PcallsAt(ds, L, i)
  <2>1. j \in 1 .. Len(cs) /\ ~(j \in n + 1 .. Len(cs))
    BY <1>4 DEF PcallsAt
  <2>2. j \in 1 .. n /\ j \in 1 .. Len(ds)
    BY <2>1
  <2>. QED  BY <1>4, <2>2 DEF PcallsAt
<1>5. PcallsAt(ds, L, i) = PcallsAt(cs, L, i) \union {p}
  BY <1>2, <1>3, <1>4
<1>6. IsFiniteSet(PcallsAt(cs, L, i))
  BY CountPcalls
<1>. DEFINE A == PcallsAt(cs, L, i)
<1>7. p \notin A /\ IsFiniteSet(A)
  BY <1>1, <1>6
<1>. HIDE DEF A
<1>8. Cardinality(A \union {p}) = Cardinality(A) + 1
  BY <1>7, FS_AddElement
<1>. QED  BY <1>5, <1>8 DEF A

(* A thread that a step does not touch.                                    *)
LEMMA UnmovedAbstract ==
  ASSUME NEW cs, NEW ds, NEW n, NEW L, Unmoved(cs, ds, n, L)
  PROVE  /\ \A i : PcallsAt(ds, L, i) = PcallsAt(cs, L, i)
         /\ (/\ \A j \in 1 .. Len(cs) : cs[j].kind = "resume" => j >= 2
             /\ \A j \in 1 .. Len(ds) : ds[j].kind = "resume" => j >= 2) => ResumersOf(ds, L) = ResumersOf(cs, L)
         /\ Runs(ds, L) <=> Runs(cs, L)
<1>1. /\ \A j \in 1 .. Len(cs) : cs[j].th = L => j \in 1 .. Len(ds) /\ ds[j] = cs[j]
      /\ \A j \in 1 .. Len(ds) : ds[j].th = L => j \in 1 .. Len(cs) /\ ds[j] = cs[j]
      /\ \A j \in 2 .. Len(cs) : cs[j].th = L => j \in 2 .. Len(ds) /\ ds[j] = cs[j] /\ ds[j - 1] = cs[j - 1]
      /\ \A j \in 2 .. Len(ds) : ds[j].th = L => j \in 2 .. Len(cs) /\ ds[j] = cs[j] /\ ds[j - 1] = cs[j - 1]
  BY UnmovedPlaces
<1>2. Len(cs) \in Nat /\ Len(ds) \in Nat
  BY DEF Unmoved
<1>3. \A i : PcallsAt(ds, L, i) = PcallsAt(cs, L, i)
  BY <1>1 DEF PcallsAt
<1>4. ASSUME \A j \in 1 .. Len(cs) : cs[j].kind = "resume" => j >= 2,
             \A j \in 1 .. Len(ds) : ds[j].kind = "resume" => j >= 2
      PROVE  ResumersOf(ds, L) = ResumersOf(cs, L)
  <2>1. \A j \in 1 .. Len(cs) : cs[j].kind = "resume" => j \in 2 .. Len(cs)
    BY <1>2, <1>4
  <2>2. \A j \in 1 .. Len(ds) : ds[j].kind = "resume" => j \in 2 .. Len(ds)
    BY <1>2, <1>4
  <2>. QED  BY <1>1, <2>1, <2>2 DEF ResumersOf
<1>. QED  BY <1>3, <1>4, UnmovedFacts


LEMMA AliveFacts ==
  /\ CountInv => Live(S) /\ ~S.body /\ \A j \in 1 .. Len(cstack) : cstack[j].kind = "resume" => j >= 2
  /\ CountInv' => (Live(S) /\ ~S.body /\ \A j \in 1 .. Len(cstack) : cstack[j].kind = "resume" => j >= 2)'
<1>1. CountInv => Live(S) /\ ~S.body /\ \A j \in 1 .. Len(cstack) : cstack[j].kind = "resume" => j >= 2
  <2>. SUFFICES ASSUME CountInv
                PROVE  Live(S) /\ ~S.body /\ \A j \in 1 .. Len(cstack) : cstack[j].kind = "resume" => j >= 2
    OBVIOUS
  <2>1. Live(S) /\ ~S.body
    BY RunningFacts DEF InMode, Live
  <2>2. cstack[1].kind /= "resume" /\ Len(cstack) \in Nat
    BY RunningFacts DEF StackOK, Host
  <2>. QED  BY <2>1, <2>2
<1>. QED  BY <1>1, PTL

(* The resumes that start the threads are below what a step of the thread  *)
(* that runs changes.                                                      *)
LEMMA ResumersKept ==
  ASSUME NEW cs, NEW ds, Len(cs) \in Nat, Len(ds) \in Nat, NEW n \in Nat, n <= Len(cs), n <= Len(ds),
         \A j \in 1 .. n : ds[j] = cs[j], NEW L,
         \A j \in n + 1 .. Len(cs) : cs[j].kind /= "resume",
         \A j \in n + 1 .. Len(ds) : ds[j].kind /= "resume",
         \A j \in 1 .. Len(cs) : cs[j].kind = "resume" => j >= 2
  PROVE  ResumersOf(ds, L) = ResumersOf(cs, L)
<1>. DEFINE A == {i \in 1 .. Len(cs) : cs[i].th = L /\ cs[i].kind = "resume"}
            B == {i \in 1 .. Len(ds) : ds[i].th = L /\ ds[i].kind = "resume"}
<1>1. ASSUME NEW j \in A PROVE j \in B /\ ds[j - 1] = cs[j - 1]
  <2>1. j \in 1 .. n /\ j >= 2
    <3>1. j \in 1 .. Len(cs) /\ ~(j \in n + 1 .. Len(cs)) /\ j >= 2
      OBVIOUS
    <3>. QED  BY <3>1
  <2>2. j \in 1 .. Len(ds) /\ ds[j] = cs[j] /\ j - 1 \in 1 .. n
    BY <2>1
  <2>. QED  BY <2>2
<1>2. ASSUME NEW j \in B PROVE j \in A
  <2>1. j \in 1 .. n
    <3>1. j \in 1 .. Len(ds) /\ ~(j \in n + 1 .. Len(ds))
      OBVIOUS
    <3>. QED  BY <3>1
  <2>. QED  BY <2>1
<1>3. A = B
  BY <1>1, <1>2
<1>4. \A j \in A : ds[j - 1].th = cs[j - 1].th
  BY <1>1
<1>5. ResumersOf(cs, L) = {cs[j - 1].th : j \in A} /\ ResumersOf(ds, L) = {ds[j - 1].th : j \in B}
  BY DEF ResumersOf
<1>. HIDE DEF A, B
<1>. QED  BY <1>3, <1>4, <1>5

(* What LuaThreads sees of such a step: the stack of that thread changes,  *)
(* and nothing else.                                                       *)
WasPending(i) == PendingAt(cstack, S.ci, Running, i)
IsPending(i)  == PendingAt(cstack', T.ci, Running, i)
Stack    == [i \in 1 .. Len(S.ci) |-> WasPending(i)]
NewStack == [i \in 1 .. Len(T.ci) |-> IsPending(i)]

LEMMA OwnAbstract ==
  ASSUME CountInv, CountInv', NEW n, Own(n)
  PROVE  /\ Running' = Running /\ ResumedBy' = ResumedBy /\ Unfinished' = Unfinished
         /\ Pending[Running] = Stack /\ Stack \in Seq(Nat) /\ Len(Stack) = Len(S.ci) /\ Len(S.ci) \in Nat
         /\ Pending' = [Pending EXCEPT ![Running] = NewStack]
         /\ NewStack \in Seq(Nat) /\ Len(NewStack) = Len(T.ci) /\ Len(T.ci) \in Nat
<1>1. /\ n \in Nat \ {0} /\ n <= Len(cstack) /\ n <= Len(cstack') /\ Len(cstack) \in Nat /\ Len(cstack') \in Nat
      /\ \A M \in Threads : M /= Running => Unmoved(cstack, cstack', n, M) /\ state'[M] = state[M]
      /\ \A j \in 1 .. n : cstack'[j] = cstack[j]
  BY MovesFacts DEF Own, Moves
<1>2. /\ Running' = Running /\ S' = T /\ T \in ThreadState /\ S \in ThreadState /\ Running \in Threads
      /\ Runs(cstack', Running) /\ Runs(cstack, Running) /\ \A j \in n .. Len(cstack) : cstack[j].th = Running
      /\ \A j \in n .. Len(cstack') : cstack'[j].th = Running
  <2>1. Runs(cstack, Running)
    BY StackPrimed DEF Runs, StackFacts
  <2>. QED  BY <2>1, OwnFacts
<1>3. AbstractFacts /\ AbstractFacts'
  BY AbstractIs
<1>4. /\ Live(S) /\ Live(T) /\ \A j \in 1 .. Len(cstack) : cstack[j].kind = "resume" => j >= 2
      /\ \A j \in 1 .. Len(cstack') : cstack'[j].kind = "resume" => j >= 2
  <2>1. (Live(S))' <=> Live(T)
    BY <1>2 DEF Live
  <2>. QED  BY <2>1, AliveFacts
<1>5. /\ \A j \in n + 1 .. Len(cstack) : cstack[j].kind /= "resume"
      /\ \A j \in n + 1 .. Len(cstack') : cstack'[j].kind /= "resume"
  <2>1. StackOK(cstack) /\ StackOK(cstack')
    BY StackPrimed DEF StackFacts
  <2>2. n \in 1 .. Len(cstack) /\ n \in 1 .. Len(cstack') /\ Len(cstack) \in 1 .. Len(cstack)
        /\ Len(cstack') \in 1 .. Len(cstack')
    BY <1>1
  <2>3. cstack[n].th = cstack[Len(cstack)].th /\ cstack'[n].th = cstack'[Len(cstack')].th
    <3>1. n \in n .. Len(cstack) /\ Len(cstack) \in n .. Len(cstack) /\ n \in n .. Len(cstack')
          /\ Len(cstack') \in n .. Len(cstack')
      BY <1>1
    <3>. QED  BY <1>2, <3>1
  <2>4. \A j \in n + 1 .. Len(cstack) : cstack[j].kind \notin {"host", "resume"}
    BY <2>1, <2>2, <2>3, Segment
  <2>5. \A j \in n + 1 .. Len(cstack') : cstack'[j].kind \notin {"host", "resume"}
    BY <2>1, <2>2, <2>3, Segment
  <2>. QED  BY <2>4, <2>5
<1>6. \A L : ResumersOf(cstack', L) = ResumersOf(cstack, L)
  BY <1>1, <1>4, <1>5, ResumersKept
<1>7. ASSUME NEW L \in Coroutines PROVE Lives(state'[L], cstack', L) <=> Lives(state[L], cstack, L)
  <2>1. CASE L = Running
    <3>1. T.status \notin ErrorStatus /\ S.status \notin ErrorStatus
      BY <1>4 DEF Live, ErrorStatus
    <3>. QED  BY <1>2, <2>1, <3>1 DEF Lives, S, T
  <2>2. CASE L /= Running
    <3>1. state'[L] = state[L] /\ (Runs(cstack', L) <=> Runs(cstack, L))
      BY <1>1, <2>2, UnmovedFacts DEF Threads
    <3>. QED  BY <3>1 DEF Lives
  <2>. QED  BY <2>1, <2>2
<1>8. ASSUME NEW L \in Threads, L /= Running PROVE StackOf(state', cstack', L) = StackOf(state, cstack, L)
  <2>1. state'[L] = state[L] /\ \A i : PcallsAt(cstack', L, i) = PcallsAt(cstack, L, i)
    BY <1>1, <1>8, UnmovedAbstract
  <2>2. \A i : PendingAt(cstack', state'[L].ci, L, i) = PendingAt(cstack, state[L].ci, L, i)
    BY <2>1 DEF PendingAt
  <2>. QED  BY <2>1, <2>2 DEF StackOf
<1>9. StackOf(state, cstack, Running) = Stack /\ StackOf(state', cstack', Running) = NewStack
  BY DEF StackOf, Stack, NewStack, WasPending, IsPending, S, T
<1>10. Pending[Running] = Stack /\ Pending' = [Pending EXCEPT ![Running] = NewStack]
  <2>1. Pending = [L \in Threads |-> StackOf(state, cstack, L)]
        /\ Pending' = [L \in Threads |-> StackOf(state', cstack', L)]
    BY <1>3 DEF AbstractFacts
  <2>. QED  BY <1>2, <1>8, <1>9, <2>1
<1>11. ResumedBy' = ResumedBy /\ Unfinished' = Unfinished
  BY <1>3, <1>6, <1>7 DEF AbstractFacts
<1>12. Stack \in Seq(Nat) /\ Len(Stack) = Len(S.ci) /\ NewStack \in Seq(Nat) /\ Len(NewStack) = Len(T.ci)
  BY <1>2, <1>3, <1>9 DEF AbstractFacts, S, T
<1>13. Len(S.ci) \in Nat /\ Len(T.ci) \in Nat
  BY <1>2 DEF ThreadState
<1>. QED  BY <1>2, <1>10, <1>11, <1>12, <1>13


-----------------------------------------------------------------------------
(* The steps of LuaThreads that the thread that runs makes.                *)
LEMMA IsCut ==
  ASSUME NEW p \in Seq(Nat), NEW q \in Seq(Nat), Len(q) <= Len(p), \A i \in 1 .. Len(q) : q[i] = p[i]
  PROVE  q = SubSeq(p, 1, Len(q))
<1>1. Len(q) \in Nat /\ Len(p) \in Nat /\ q = [i \in 1 .. Len(q) |-> q[i]]
  OBVIOUS
<1>2. SubSeq(p, 1, Len(q)) = [i \in 1 .. Len(q) |-> p[i]]
  BY <1>1
<1>. QED  BY <1>1, <1>2

LEMMA IsPut ==
  ASSUME NEW p \in Seq(Nat), NEW q \in Seq(Nat), Len(q) = Len(p), NEW k \in 1 .. Len(p),
         \A i \in 1 .. Len(p) : i /= k => q[i] = p[i]
  PROVE  q = [p EXCEPT ![k] = q[k]]
<1>1. q = [i \in 1 .. Len(p) |-> q[i]] /\ DOMAIN p = 1 .. Len(p)
  OBVIOUS
<1>2. [p EXCEPT ![k] = q[k]] = [i \in 1 .. Len(p) |-> IF i = k THEN q[k] ELSE p[i]]
  BY <1>1
<1>. QED  BY <1>1, <1>2

Implemented == Abstract!Next \/ UNCHANGED <<Pending, Running, ResumedBy, Unfinished>>

LEMMA AbstractPut ==
  ASSUME CountInv, CountInv', NEW n, Own(n)
  PROVE  Abstract!Put(NewStack)
BY OwnAbstract DEF Abstract!Put

(* The pending calls of the first m functions are as they were.            *)
Same(m) == \A i \in 1 .. m : IsPending(i) = WasPending(i)

LEMMA DoesNothing ==
  ASSUME CountInv, CountInv', NEW n, Own(n), Len(T.ci) = Len(S.ci), Same(Len(S.ci))
  PROVE  Implemented
<1>1. NewStack = Stack
  BY DEF Same, NewStack, Stack
<1>2. Pending' = Pending
  <2>1. Pending = [L \in Threads |-> StackOf(state, cstack, L)]
    BY AbstractIs DEF AbstractFacts
  <2>. QED  BY <1>1, <2>1, OwnAbstract
<1>. QED  BY <1>2, OwnAbstract DEF Implemented

LEMMA DoesCall ==
  ASSUME CountInv, CountInv', NEW n, Own(n), Len(T.ci) = Len(S.ci) + 1, Same(Len(S.ci)),
         IsPending(Len(S.ci) + 1) = 0
  PROVE  Implemented
<1>1. NewStack = Append(Stack, 0)
  <2>1. Stack \in Seq(Nat) /\ Len(Stack) = Len(S.ci) /\ Len(S.ci) \in Nat
        /\ NewStack \in Seq(Nat) /\ Len(NewStack) = Len(S.ci) + 1
    BY OwnAbstract
  <2>2. \A i \in 1 .. Len(S.ci) : NewStack[i] = Stack[i]
    BY <2>1 DEF Same, NewStack, Stack
  <2>3. NewStack[Len(S.ci) + 1] = 0
    BY <2>1 DEF NewStack
  <2>. QED  BY <2>1, <2>2, <2>3
<1>. QED  BY <1>1, AbstractPut, OwnAbstract DEF Implemented, Abstract!Next, Abstract!Call

LEMMA DoesReturn ==
  ASSUME CountInv, CountInv', NEW n, Own(n), Len(S.ci) > 1, Len(T.ci) = Len(S.ci) - 1, Same(Len(T.ci)),
         WasPending(Len(S.ci)) = 0
  PROVE  Implemented
<1>1. Stack \in Seq(Nat) /\ Len(Stack) = Len(S.ci) /\ Len(S.ci) \in Nat
      /\ NewStack \in Seq(Nat) /\ Len(NewStack) = Len(S.ci) - 1 /\ Pending[Running] = Stack
  BY OwnAbstract
<1>2. NewStack = SubSeq(Stack, 1, Len(Stack) - 1)
  <2>1. \A i \in 1 .. Len(S.ci) - 1 : NewStack[i] = Stack[i]
    BY <1>1 DEF Same, NewStack, Stack
  <2>. DEFINE p == Stack  q == NewStack  m == Len(S.ci)
  <2>2. /\ p \in Seq(Nat) /\ q \in Seq(Nat) /\ Len(p) = m /\ Len(q) = m - 1 /\ m \in Nat
        /\ \A i \in 1 .. m - 1 : q[i] = p[i]
    BY <1>1, <2>1
  <2>. HIDE DEF p, q, m
  <2>3. Len(q) <= Len(p) /\ \A i \in 1 .. Len(q) : q[i] = p[i]
    BY <2>2
  <2>4. q = SubSeq(p, 1, Len(q))
    BY <2>2, <2>3, IsCut
  <2>5. Len(q) = Len(p) - 1
    BY <2>2
  <2>. QED  BY <2>4, <2>5 DEF p, q
<1>3. Stack[Len(Stack)] = 0
  BY <1>1 DEF Stack
<1>. QED  BY <1>1, <1>2, <1>3, AbstractPut DEF Implemented, Abstract!Next, Abstract!Return, Abstract!Top

(* All but the last function have the pending calls they had.              *)
LEMMA LastChanges ==
  ASSUME CountInv, CountInv', NEW n, Own(n), Len(S.ci) > 0, Len(T.ci) = Len(S.ci), Same(Len(S.ci) - 1)
  PROVE  /\ NewStack = [Stack EXCEPT ![Len(Stack)] = NewStack[Len(Stack)]] /\ Pending[Running] = Stack
         /\ NewStack[Len(Stack)] = IsPending(Len(S.ci)) /\ Stack[Len(Stack)] = WasPending(Len(S.ci))
         /\ NewStack[Len(Stack)] \in Nat /\ Stack[Len(Stack)] \in Nat /\ Len(Stack) \in DOMAIN Stack
<1>1. Stack \in Seq(Nat) /\ Len(Stack) = Len(S.ci) /\ Len(S.ci) \in Nat
      /\ NewStack \in Seq(Nat) /\ Len(NewStack) = Len(S.ci) /\ Pending[Running] = Stack
  BY OwnAbstract
<1>2. NewStack[Len(S.ci)] = IsPending(Len(S.ci)) /\ Stack[Len(S.ci)] = WasPending(Len(S.ci))
  BY <1>1 DEF NewStack, Stack
<1>3. \A i \in 1 .. Len(S.ci) : i /= Len(S.ci) => NewStack[i] = Stack[i]
  BY <1>1 DEF Same, NewStack, Stack
<1>. DEFINE k == Len(S.ci)
<1>4. /\ k \in 1 .. Len(Stack) /\ Len(NewStack) = Len(Stack) /\ Len(Stack) = k
      /\ \A i \in 1 .. Len(Stack) : i /= k => NewStack[i] = Stack[i]
  BY <1>1, <1>3
<1>5. Stack \in Seq(Nat) /\ NewStack \in Seq(Nat)
  BY <1>1
<1>. HIDE DEF k
<1>6. NewStack = [Stack EXCEPT ![k] = NewStack[k]]
  BY <1>4, <1>5, IsPut
<1>7. NewStack[k] \in Nat /\ Stack[k] \in Nat /\ k \in DOMAIN Stack
  BY <1>4, <1>5
<1>. QED  BY <1>1, <1>2, <1>4, <1>6, <1>7 DEF k

LEMMA DoesProtect ==
  ASSUME CountInv, CountInv', NEW n, Own(n), Len(S.ci) > 0, Len(T.ci) = Len(S.ci), Same(Len(S.ci) - 1),
         IsPending(Len(S.ci)) = WasPending(Len(S.ci)) + 1
  PROVE  Implemented
<1>1. NewStack = [Stack EXCEPT ![Len(Stack)] = @ + 1]
  BY LastChanges
<1>. QED  BY <1>1, LastChanges, AbstractPut DEF Implemented, Abstract!Next, Abstract!Protect, Abstract!Top

LEMMA DoesUnprotect ==
  ASSUME CountInv, CountInv', NEW n, Own(n), Len(S.ci) > 0, Len(T.ci) = Len(S.ci), Same(Len(S.ci) - 1),
         WasPending(Len(S.ci)) = IsPending(Len(S.ci)) + 1
  PROVE  Implemented
<1>1. Stack[Len(Stack)] = NewStack[Len(Stack)] + 1 /\ NewStack[Len(Stack)] \in Nat
  BY LastChanges
<1>2. NewStack = [Stack EXCEPT ![Len(Stack)] = @ - 1] /\ Stack[Len(Stack)] > 0
  BY <1>1, LastChanges
<1>. QED  BY <1>2, LastChanges, AbstractPut
          DEF Implemented, Abstract!Next, Abstract!Unprotect, Abstract!Top, Abstract!Protected

(* The f-th function is the last one with a pending call.                  *)
LEMMA DoesCatch ==
  ASSUME CountInv, CountInv', NEW n, Own(n), Len(T.ci) \in 1 .. Len(S.ci), Same(Len(T.ci) - 1),
         WasPending(Len(T.ci)) = IsPending(Len(T.ci)) + 1,
         \A i \in Len(T.ci) + 1 .. Len(S.ci) : WasPending(i) = 0
  PROVE  Implemented
<1>. DEFINE f == Len(T.ci)  s == SubSeq(Stack, 1, f)
<1>1. Stack \in Seq(Nat) /\ Len(Stack) = Len(S.ci) /\ Len(S.ci) \in Nat
      /\ NewStack \in Seq(Nat) /\ Len(NewStack) = f /\ Pending[Running] = Stack /\ f \in Nat
  BY OwnAbstract
<1>2. Stack[f] = NewStack[f] + 1 /\ NewStack[f] \in Nat
  <2>1. f \in 1 .. Len(S.ci) /\ f \in 1 .. f
    BY <1>1
  <2>. QED  BY <1>1, <2>1 DEF NewStack, Stack
<1>3. NewStack = [s EXCEPT ![f] = @ - 1]
  <2>1. \A i \in 1 .. f : i /= f => NewStack[i] = Stack[i]
    BY <1>1 DEF Same, NewStack, Stack
  <2>2. s \in Seq(Nat) /\ Len(s) = f /\ \A i \in 1 .. f : s[i] = Stack[i]
    BY <1>1
  <2>3. f \in 1 .. Len(S.ci) /\ f \in 1 .. f
    BY <1>1
  <2>. HIDE DEF f, s
  <2>4. NewStack = [s EXCEPT ![f] = NewStack[f]]
    <3>1. f \in 1 .. Len(s) /\ (\A i \in 1 .. Len(s) : i /= f => NewStack[i] = s[i]) /\ Len(NewStack) = Len(s)
      BY <1>1, <2>1, <2>2, <2>3
    <3>. QED  BY <1>1, <2>2, <3>1, IsPut
  <2>. QED  BY <1>1, <1>2, <2>2, <2>3, <2>4
<1>. DEFINE P == {i \in DOMAIN Stack : Stack[i] > 0}
<1>4. f \in P /\ P \subseteq Nat /\ \A i \in P : i <= f
  <2>1. \A i \in f + 1 .. Len(S.ci) : Stack[i] = 0
    BY <1>1 DEF Stack
  <2>2. DOMAIN Stack = 1 .. Len(S.ci)
    BY <1>1
  <2>3. f \in 1 .. Len(S.ci)
    BY <1>1
  <2>. HIDE DEF f
  <2>4. f \in P
    BY <1>2, <2>2, <2>3
  <2>5. ASSUME NEW i \in P PROVE i <= f
    <3>1. i \in 1 .. Len(S.ci) /\ Stack[i] > 0 /\ Stack[i] /= 0
      BY <1>1, <2>2
    <3>2. ~(i \in f + 1 .. Len(S.ci))
      BY <2>1, <3>1
    <3>. QED  BY <1>1, <3>1, <3>2
  <2>. QED  BY <2>2, <2>4, <2>5
<1>5. Max(P) = f
  <2>. HIDE DEF f
  <2>1. P \in SUBSET (1 .. Len(Stack)) /\ P /= {} /\ Len(Stack) \in Nat
    BY <1>1, <1>4
  <2>. HIDE DEF P
  <2>2. Max(P) \in P /\ \A y \in P : y <= Max(P)
    BY <2>1, LargestMember
  <2>3. f \in Nat
    BY <1>1 DEF f
  <2>4. Max(P) \in Nat /\ Max(P) <= f /\ f <= Max(P)
    BY <1>4, <2>2
  <2>. QED  BY <2>3, <2>4
<1>6. Abstract!Protected(Running) = P
  BY <1>1 DEF Abstract!Protected
<1>7. Abstract!Put([SubSeq(Pending[Running], 1, f) EXCEPT ![f] = @ - 1])
  BY <1>1, <1>3, AbstractPut
<1>. HIDE DEF P, f
<1>8. Abstract!Caught
  <2>1. Abstract!Max(P) = f
    BY <1>5 DEF Abstract!Max, Max
  <2>2. P /= {}
    BY <1>4
  <2>. QED  BY <1>6, <1>7, <2>1, <2>2 DEF Abstract!Caught
<1>. QED  BY <1>8 DEF Implemented, Abstract!Next


-----------------------------------------------------------------------------
(* The steps of LuaCall, as steps of LuaThreads.                           *)
Pcalls(i)    == Cardinality(PcallsAt(cstack, Running, i))
NewPcalls(i) == Cardinality(PcallsAt(cstack', Running, i))

LEMMA PendingIs ==
  ASSUME CountInv, CountInv', NEW i
  PROVE  /\ WasPending(i) = Pcalls(i) + (IF S.ci[i].yp THEN 1 ELSE 0)
         /\ IsPending(i) = NewPcalls(i) + (IF T.ci[i].yp THEN 1 ELSE 0)
         /\ Pcalls(i) \in Nat /\ NewPcalls(i) \in Nat
<1>1. Pcalls(i) \in Nat /\ NewPcalls(i) \in Nat
  BY AbstractIs DEF AbstractFacts, Pcalls, NewPcalls
<1>. QED  BY <1>1 DEF WasPending, IsPending, PendingAt, Pcalls, NewPcalls

(* A step of the thread that runs that neither enters nor leaves a         *)
(* protected call of the i-th function on the C stack.                     *)
LEMMA PcallsKept ==
  ASSUME CountInv, CountInv', NEW n, Own(n), NEW i,
         \A j \in n + 1 .. Len(cstack) : cstack[j].kind = "pcall" => cstack[j].ci /= i,
         \A j \in n + 1 .. Len(cstack') : cstack'[j].kind = "pcall" => cstack'[j].ci /= i
  PROVE  NewPcalls(i) = Pcalls(i)
<1>1. /\ n \in Nat /\ n <= Len(cstack) /\ n <= Len(cstack') /\ Len(cstack) \in Nat /\ Len(cstack') \in Nat
      /\ \A j \in 1 .. n : cstack'[j] = cstack[j]
  BY MovesFacts DEF Own, Moves
<1>2. PcallsAt(cstack', Running, i) = PcallsAt(cstack, Running, i)
  BY <1>1, PcallsSame
<1>. QED  BY <1>2 DEF Pcalls, NewPcalls

(* ... that enters one, ...                                                *)
LEMMA PcallsAdded ==
  ASSUME CountInv, CountInv', NEW n, Own(n), NEW i,
         \A j \in n + 1 .. Len(cstack) : cstack[j].kind = "pcall" => cstack[j].ci /= i,
         NEW p \in n + 1 .. Len(cstack'), cstack'[p].kind = "pcall" /\ cstack'[p].ci = i,
         \A j \in n + 1 .. Len(cstack') : j /= p /\ cstack'[j].kind = "pcall" => cstack'[j].ci /= i
  PROVE  NewPcalls(i) = Pcalls(i) + 1
<1>1. /\ n \in Nat /\ n <= Len(cstack) /\ n <= Len(cstack') /\ Len(cstack) \in Nat /\ Len(cstack') \in Nat
      /\ \A j \in 1 .. n : cstack'[j] = cstack[j]
  BY MovesFacts DEF Own, Moves
<1>2. cstack'[p].th = Running
  BY OwnFacts, <1>1 DEF Own, Moves
<1>3. Adds(cstack, cstack', n, p, Running, i)
  BY <1>1, <1>2 DEF Adds, IsPcall
<1>4. Cardinality(PcallsAt(cstack', Running, i)) = Cardinality(PcallsAt(cstack, Running, i)) + 1
  BY <1>3, PcallsOneMore
<1>. QED  BY <1>4 DEF Pcalls, NewPcalls

(* ... or that leaves one.                                                 *)
LEMMA PcallsRemoved ==
  ASSUME CountInv, CountInv', NEW n, Own(n), NEW i,
         \A j \in n + 1 .. Len(cstack') : cstack'[j].kind = "pcall" => cstack'[j].ci /= i,
         NEW p \in n + 1 .. Len(cstack), cstack[p].kind = "pcall" /\ cstack[p].ci = i,
         \A j \in n + 1 .. Len(cstack) : j /= p /\ cstack[j].kind = "pcall" => cstack[j].ci /= i
  PROVE  Pcalls(i) = NewPcalls(i) + 1
<1>1. /\ n \in Nat /\ n <= Len(cstack) /\ n <= Len(cstack') /\ Len(cstack) \in Nat /\ Len(cstack') \in Nat
      /\ \A j \in 1 .. n : cstack[j] = cstack'[j]
  BY MovesFacts DEF Own, Moves
<1>2. cstack[p].th = Running
  BY OwnFacts, <1>1 DEF Own, Moves
<1>3. Adds(cstack', cstack, n, p, Running, i)
  BY <1>1, <1>2 DEF Adds, IsPcall
<1>4. Cardinality(PcallsAt(cstack, Running, i)) = Cardinality(PcallsAt(cstack', Running, i)) + 1
  BY <1>3, PcallsOneMore
<1>. QED  BY <1>4 DEF Pcalls, NewPcalls

LEMMA QuietRefines ==
  ASSUME CountInv, CountInv', NEW n, Quiet(n)
  PROVE  Implemented
<1>1. /\ Own(n) /\ SameCalls(T, S)
      /\ \A i \in n + 1 .. Len(cstack) : Popped(cstack[i]) /\ cstack[i].kind /= "pcall"
      /\ \A i \in n + 1 .. Len(cstack') : Put(cstack'[i]) /\ cstack'[i].kind /= "pcall"
  BY DEF Quiet, Popped, Put
<1>2. \A i : NewPcalls(i) = Pcalls(i)
  BY <1>1, PcallsKept
<1>3. Same(Len(S.ci)) /\ Len(T.ci) = Len(S.ci)
  BY <1>1, <1>2, PendingIs DEF Same, SameCalls
<1>. QED  BY <1>1, <1>3, DoesNothing


LEMMA NoPcallsAt ==
  ASSUME NEW cs, NEW L, NEW i, \A j \in 1 .. Len(cs) : ~IsPcall(cs[j], L, i)
  PROVE  Cardinality(PcallsAt(cs, L, i)) = 0
<1>1. PcallsAt(cs, L, i) = {}
  BY DEF PcallsAt, IsPcall
<1>. QED  BY <1>1, FS_EmptySet

LEMMA PrecallRefines ==
  ASSUME CountInv, FrameInv, CountInv', Precall
  PROVE  Implemented
<1>. DEFINE n == Len(cstack)
<1>1. /\ Own(n) /\ Len(T.ci) = Depth + 1 /\ \A d \in 1 .. Depth : T.ci[d] = S.ci[d]
      /\ ~T.ci[Depth + 1].yp
      /\ \A i \in n + 1 .. Len(cstack') : cstack'[i].kind \in Bodies \union {"hook"}
  BY PrecallShape
<1>2. /\ n \in Nat \ {0} /\ Len(cstack') \in Nat /\ n <= Len(cstack') /\ Depth \in Nat /\ Depth = Len(S.ci)
      /\ \A j \in 1 .. n : cstack'[j] = cstack[j]
  BY <1>1, OwnPlaces
<1>3. /\ \A i \in n + 1 .. Len(cstack) : FALSE
      /\ \A i \in n + 1 .. Len(cstack') : cstack'[i].kind /= "pcall"
  BY <1>1, <1>2 DEF Bodies
<1>4. \A i : NewPcalls(i) = Pcalls(i)
  BY <1>1, <1>3, PcallsKept
<1>5. Same(Len(S.ci))
  BY <1>1, <1>2, <1>4, PendingIs DEF Same
<1>6. Pcalls(Depth + 1) = 0
  <2>1. \A j \in 1 .. Len(cstack) : cstack[j].th = Running => cstack[j].ci \in 1 .. Depth
    BY TopFrame
  <2>2. \A j \in 1 .. Len(cstack) : ~IsPcall(cstack[j], Running, Depth + 1)
    BY <1>2, <2>1 DEF IsPcall
  <2>. QED  BY <2>2, NoPcallsAt DEF Pcalls
<1>7. IsPending(Len(S.ci) + 1) = 0
  BY <1>1, <1>2, <1>4, <1>6, PendingIs
<1>. QED  BY <1>1, <1>2, <1>5, <1>7, DoesCall

LEMMA PoscallRefines ==
  ASSUME CountInv, FrameInv, ThirdInv, CountInv', Poscall
  PROVE  Implemented
<1>1. PICK n : PoscallMoves(n)
  BY PoscallShape
<1>2. /\ Own(n) /\ Len(cstack') = n /\ NewCi = Depth - 1 /\ Depth > 1 /\ Depth = Len(S.ci) /\ NewCi = Len(T.ci)
      /\ Depth \in Nat /\ n \in Nat /\ \A d \in 1 .. NewCi : T.ci[d] = S.ci[d]
      /\ \A j \in n + 1 .. Len(cstack) : cstack[j].kind /= "pcall"
      /\ Depth \notin Suspended(S.ci) /\ Top.kind \in Bodies \union {"resume"} /\ DOMAIN S.ci = 1 .. Depth
  BY <1>1, OwnPlaces DEF PoscallMoves, Bodies
<1>3. \A i : NewPcalls(i) = Pcalls(i)
  BY <1>2, PcallsKept
<1>4. Same(Len(T.ci))
  BY <1>2, <1>3, PendingIs DEF Same
<1>5. ASSUME NEW j \in 1 .. Len(cstack), IsPcall(cstack[j], Running, Depth) PROVE FALSE
  <2>0. /\ InOrder(cstack, Len(cstack)) /\ Top = cstack[Len(cstack)] /\ Top.ci <= Depth /\ Top.ci \in Nat
        /\ Len(cstack) \in 1 .. Len(cstack) /\ cstack[Len(cstack)].th = Running /\ StackOK(cstack)
    BY FrameInvFacts, RunningFacts
  <2>1. j /= Len(cstack) /\ j \in 1 .. Len(cstack) - 1
    BY <1>2, <1>5, <2>0 DEF IsPcall, Bodies
  <2>2. CASE Top.kind \in Bodies
    <3>1. cstack[j].ci < Top.ci
      BY <1>5, <2>0, <2>1, <2>2 DEF InOrder, IsPcall
    <3>. QED  BY <1>2, <1>5, <2>0, <3>1 DEF IsPcall
  <2>3. CASE Top.kind = "resume"
    BY <1>5, <2>0, <2>1, <2>3, ResumeFirst DEF IsPcall
  <2>. QED  BY <1>2, <2>2, <2>3
<1>6. Pcalls(Depth) = 0
  BY <1>5, NoPcallsAt DEF Pcalls
<1>7. WasPending(Len(S.ci)) = 0
  <2>1. ~S.ci[Depth].yp
    BY <1>2 DEF Suspended
  <2>. QED  BY <1>2, <1>6, <2>1, PendingIs
<1>. QED  BY <1>2, <1>4, <1>7, DoesReturn


(* The protected call is one more of the function that runs.               *)
LEMMA ProtectRefines ==
  ASSUME CountInv, FrameInv, CountInv', Protecting
  PROVE  Implemented
<1>. DEFINE n == Len(cstack)
<1>1. /\ Own(n) /\ T.ci = S.ci
      /\ \A i \in n + 1 .. Len(cstack') : cstack'[i].ci = Depth
  BY DEF Protecting, Protects
<1>2. PICK p \in n + 1 .. Len(cstack') :
        /\ cstack'[p].kind = "pcall"
        /\ \A i \in n + 1 .. Len(cstack') : i /= p => cstack'[i].kind /= "pcall"
  BY DEF Protecting
<1>3. n \in Nat \ {0} /\ Depth \in Nat \ {0} /\ Depth = Len(S.ci)
  BY <1>1, OwnPlaces
<1>4. \A i \in n + 1 .. Len(cstack) : FALSE
  BY <1>3
<1>. HIDE DEF n
<1>5. NewPcalls(Depth) = Pcalls(Depth) + 1
  BY <1>1, <1>2, <1>4, PcallsAdded
<1>6. ASSUME NEW i \in 1 .. Depth - 1 PROVE NewPcalls(i) = Pcalls(i)
  <2>1. i /= Depth
    BY <1>3
  <2>2. \A j \in n + 1 .. Len(cstack') : cstack'[j].kind = "pcall" => cstack'[j].ci /= i
    BY <1>1, <2>1
  <2>. QED  BY <1>1, <1>4, <2>2, PcallsKept
<1>7. Same(Len(S.ci) - 1)
  BY <1>1, <1>3, <1>6, PendingIs DEF Same
<1>8. IsPending(Len(S.ci)) = WasPending(Len(S.ci)) + 1
  BY <1>1, <1>3, <1>5, PendingIs
<1>. QED  BY <1>1, <1>3, <1>7, <1>8, DoesProtect

LEMMA PcallKRefines ==
  ASSUME CountInv, FrameInv, ThirdInv, CountInv', NEW k \in BOOLEAN, NEW ef \in Nat, PcallK(k, ef)
  PROVE  Implemented
<1>1. CASE ~(k /\ S.nny = 0)
  BY <1>1, PcallProtects, ProtectRefines
<1>2. CASE k /\ S.nny = 0
  <2>. DEFINE f == [CurrentCI EXCEPT !.k = TRUE, !.yp = TRUE, !.oerr = S.errfunc, !.oah = S.allowhook]
              s == [SetFrame(S, f) EXCEPT !.errfunc = ef]
              n == Len(cstack)
  <2>1. Top.kind = "cfun" /\ DCall(s, cstack, FALSE, TRUE)
    BY <1>2 DEF PcallK, InC, UserHook, Body
  <2>2. CurrentCI \in Frame /\ S.errfunc \in Nat /\ S.allowhook \in BOOLEAN
    BY RunningFrames, FrameInvFacts, RunningFacts DEF ThreadState
  <2>3. f \in Frame /\ f.yp
    BY <2>2 DEF Frame
  <2>. HIDE DEF f
  <2>4. /\ s \in ThreadState /\ Len(s.ci) = Depth /\ s.ci[Depth] = f
        /\ \A x \in 1 .. Depth : x /= Depth => s.ci[x] = S.ci[x]
    <3>1. LET u == SetFrame(S, f)
          IN /\ u \in ThreadState /\ Len(u.ci) = Depth /\ u.ci[Depth] = f
             /\ \A x \in 1 .. Depth : x /= Depth => u.ci[x] = S.ci[x]
      BY <2>3, SetFrameIs
    <3>2. s \in ThreadState /\ s.ci = SetFrame(S, f).ci
      BY <3>1 DEF ThreadState
    <3>. QED  BY <3>1, <3>2
  <2>. HIDE DEF s
  <2>5. PICK t, b : Called(s, cstack, FALSE, TRUE, t, b)
    BY <2>1, <2>4, DCallOwn
  <2>6. /\ t.ci = s.ci /\ Update(t) /\ b \in Activation /\ b.th = Running /\ b.kind = "call"
        /\ cstack' = Append(cstack, b)
    BY <2>5 DEF Called, Like
  <2>7. Own(n) /\ T = t /\ Len(cstack') = n + 1 /\ cstack'[n + 1] = b
    BY <2>6, OwnPush
  <2>8. n \in Nat \ {0} /\ Depth \in Nat \ {0} /\ Depth = Len(S.ci) /\ DOMAIN S.ci = 1 .. Depth
    BY <2>7, OwnPlaces
  <2>9. /\ \A i \in n + 1 .. Len(cstack) : FALSE
        /\ \A i \in n + 1 .. Len(cstack') : cstack'[i].kind /= "pcall"
    BY <2>6, <2>7, <2>8
  <2>. HIDE DEF n
  <2>10. \A i : NewPcalls(i) = Pcalls(i)
    BY <2>7, <2>9, PcallsKept
  <2>11. ~S.ci[Depth].yp /\ T.ci[Depth].yp
    <3>1. Top.ci = Depth /\ Top.ci \notin Suspended(S.ci)
      BY <2>1, TopFrame, RunningHandlers DEF ThirdInv, Rests
    <3>. QED  BY <2>3, <2>4, <2>6, <2>7, <2>8, <3>1 DEF Suspended
  <2>12. Same(Len(S.ci) - 1)
    <3>1. \A i \in 1 .. Depth - 1 : T.ci[i] = S.ci[i]
      BY <2>4, <2>6, <2>7, <2>8
    <3>. QED  BY <2>8, <2>10, <3>1, PendingIs DEF Same
  <2>13. IsPending(Len(S.ci)) = WasPending(Len(S.ci)) + 1 /\ Len(T.ci) = Len(S.ci)
    BY <2>4, <2>6, <2>7, <2>8, <2>10, <2>11, PendingIs
  <2>. QED  BY <2>7, <2>8, <2>12, <2>13, DoesProtect
<1>. QED  BY <1>1, <1>2

LEMMA PcallDoneRefines ==
  ASSUME CountInv, FrameInv, CountInv', PcallDone
  PROVE  Implemented
<1>. DEFINE t == [S EXCEPT !.errfunc = Top.oerr, !.nCcalls = Top.ncc, !.armed = @ /\ Below.kind /= "host"]
            n == Len(cstack) - 1
<1>1. Top.kind = "pcall" /\ Update(t) /\ cstack' = Pop
  BY DEF PcallDone, Body
<1>2. t.ci = S.ci
  BY RunningFacts DEF ThreadState
<1>. HIDE DEF t
<1>3. n \in 1 .. Len(cstack) /\ cstack[n].th = Running /\ cstack' = SubSeq(cstack, 1, n)
  BY <1>1, PopFacts
<1>4. Own(n) /\ T = t /\ Len(cstack') = n
  BY <1>1, <1>3, OwnCut
<1>5. /\ n \in Nat \ {0} /\ Len(cstack) \in Nat /\ Top = cstack[Len(cstack)] /\ Depth = Len(S.ci)
      /\ Depth \in Nat \ {0} /\ T.ci = S.ci /\ Top.ci = Depth
  BY <1>1, <1>2, <1>4, OwnPlaces, TopFrame
<1>5a. n = Len(cstack) - 1
  OBVIOUS
<1>. HIDE DEF n
<1>6. /\ Len(cstack) \in n + 1 .. Len(cstack) /\ \A j \in n + 1 .. Len(cstack) : j = Len(cstack)
      /\ \A j \in n + 1 .. Len(cstack') : FALSE
  BY <1>4, <1>5, <1>5a
<1>7. Pcalls(Depth) = NewPcalls(Depth) + 1
  BY <1>1, <1>4, <1>5, <1>6, PcallsRemoved
<1>8. ASSUME NEW i \in 1 .. Depth - 1 PROVE NewPcalls(i) = Pcalls(i)
  <2>1. i /= Depth
    BY <1>5
  <2>. QED  BY <1>4, <1>5, <1>6, <2>1, PcallsKept
<1>9. Same(Len(S.ci) - 1)
  BY <1>5, <1>8, PendingIs DEF Same
<1>10. WasPending(Len(S.ci)) = IsPending(Len(S.ci)) + 1
  BY <1>5, <1>7, PendingIs
<1>. QED  BY <1>4, <1>5, <1>9, <1>10, DoesUnprotect



(* lua_pcallk with a continuation returns.                                 *)
LEMMA CallDoneRefines ==
  ASSUME CountInv, FrameInv, ThirdInv, CountInv', CallDone
  PROVE  Implemented
<1>1. CASE ~Top.yp
  BY <1>1, CallDoneQuiet, QuietRefines
<1>2. CASE Top.yp
  <2>1. PICK n : CallDoneMoves(n)
    BY <1>2, CallDoneShape
  <2>2. /\ Own(n) /\ Len(cstack') = n /\ n + 1 = Len(cstack) /\ \A j \in n + 1 .. Len(cstack) : cstack[j] = Top
        /\ Top.kind = "call" /\ Depth \in Suspended(S.ci) /\ NewCi = Depth
        /\ ~T.ci[Depth].yp /\ \A d \in 1 .. Depth : d /= Depth => T.ci[d] = S.ci[d]
    BY <2>1 DEF CallDoneMoves
  <2>3. /\ n \in Nat \ {0} /\ Depth \in Nat \ {0} /\ Depth = Len(S.ci) /\ NewCi = Len(T.ci) /\ S.ci[Depth].yp
    BY <2>2, OwnPlaces DEF Suspended
  <2>4. /\ \A j \in n + 1 .. Len(cstack) : cstack[j].kind /= "pcall"
        /\ \A j \in n + 1 .. Len(cstack') : FALSE
    BY <2>2, <2>3
  <2>5. \A i : NewPcalls(i) = Pcalls(i)
    BY <2>2, <2>4, PcallsKept
  <2>6. Same(Len(S.ci) - 1)
    <3>1. \A i \in 1 .. Depth - 1 : T.ci[i] = S.ci[i]
      BY <2>2, <2>3
    <3>. QED  BY <2>3, <2>5, <3>1, PendingIs DEF Same
  <2>7. WasPending(Len(S.ci)) = IsPending(Len(S.ci)) + 1
    BY <2>2, <2>3, <2>5, PendingIs
  <2>. QED  BY <2>2, <2>3, <2>6, <2>7, DoesUnprotect
<1>. QED  BY <1>1, <1>2

(* lua_yieldk, or its error where the thread cannot yield.                 *)
LEMMA YieldRefines ==
  ASSUME CountInv, FrameInv, CountInv', NEW k \in BOOLEAN, Yield(k)
  PROVE  Implemented
<1>1. Top.kind = "cfun" /\ mode = "run" /\ cstack' = cstack
  BY DEF Yield, Body
<1>2. CASE S.nny > 0
  <2>1. mode' = "errormsg" /\ state' = state
    BY <1>2 DEF Yield
  <2>2. ~Returning(Top, mode) /\ ~Handling(mode) /\ ~Returning(Top, mode')
    BY <1>1, <2>1 DEF Returning, Handling, ErrorStatus
  <2>3. \E n : Quiet(n)
    BY <1>1, <2>1, <2>2, SameUpdate, QuietStay
  <2>. QED  BY <2>3, QuietRefines
<1>3. CASE ~(S.nny > 0)
  <2>. DEFINE f == [CurrentCI EXCEPT !.k = k]
              t == [SetFrame(S, f) EXCEPT !.status = "YIELD"]
              n == Len(cstack)
  <2>1. Update(t)
    BY <1>3 DEF Yield
  <2>2. f \in Frame /\ f.yp = CurrentCI.yp
    BY RunningFrames, FrameInvFacts DEF Frame
  <2>. HIDE DEF f
  <2>3. /\ Len(t.ci) = Depth /\ t.ci[Depth] = f /\ S.ci[Depth] = CurrentCI
        /\ \A x \in 1 .. Depth : x /= Depth => t.ci[x] = S.ci[x]
    <3>1. LET u == SetFrame(S, f)
          IN /\ u \in ThreadState /\ Len(u.ci) = Depth /\ u.ci[Depth] = f /\ S.ci[Depth] = CurrentCI
             /\ \A x \in 1 .. Depth : x /= Depth => u.ci[x] = S.ci[x]
      BY <2>2, SetFrameIs
    <3>2. t.ci = SetFrame(S, f).ci
      BY <3>1 DEF ThreadState
    <3>. QED  BY <3>1, <3>2
  <2>. HIDE DEF t
  <2>4. Own(n) /\ T = t
    BY <1>1, <2>1, OwnStay
  <2>5. n \in Nat /\ Depth = Len(S.ci) /\ NewCi = Len(T.ci) /\ Len(cstack') = n
    BY <1>1, <2>4, OwnPlaces
  <2>6. (\A j \in n + 1 .. Len(cstack) : FALSE) /\ (\A j \in n + 1 .. Len(cstack') : FALSE)
    BY <2>5
  <2>. HIDE DEF n
  <2>7. \A i : NewPcalls(i) = Pcalls(i)
    BY <2>4, <2>6, PcallsKept
  <2>8. \A i \in 1 .. Depth : T.ci[i].yp = S.ci[i].yp
    BY <2>2, <2>3, <2>4
  <2>9. Same(Len(S.ci)) /\ Len(T.ci) = Len(S.ci)
    BY <2>3, <2>4, <2>5, <2>7, <2>8, PendingIs DEF Same
  <2>. QED  BY <2>4, <2>9, DoesNothing
<1>. QED  BY <1>2, <1>3

(* 'unroll' takes a suspended call of the function that goes on back.      *)
LEMMA UnrollRefines ==
  ASSUME CountInv, FrameInv, CountInv', Unroll
  PROVE  Implemented
<1>. DEFINE n == Len(cstack)
<1>1. Depth > 1
  BY DEF Unroll
<1>2. /\ n \in Nat /\ Depth \in Nat \ {0} /\ Depth = Len(S.ci) /\ S \in ThreadState /\ Depth \in DOMAIN S.ci
  BY FrameInvFacts, RunningFacts
<1>3. PICK t, b : /\ cstack' = Append(cstack, b) /\ Update(t)
                  /\ b \in Activation /\ b.th = Running /\ b.kind \in Bodies
                  /\ Len(t.ci) = Depth /\ \A d \in 1 .. Depth : d /= Depth => t.ci[d].yp = S.ci[d].yp
                  /\ IF IsLua THEN t.ci[Depth].yp = S.ci[Depth].yp ELSE ~t.ci[Depth].yp
  <2>1. CASE IsLua
    <3>. DEFINE t == Entered(S, Depth)  b == Kind("exec", Depth)
    <3>1. cstack' = Append(cstack, b) /\ Update(t)
      BY <2>1 DEF Unroll, Entered
    <3>2. Len(t.ci) = Depth /\ \A d \in 1 .. Depth : t.ci[d].yp = S.ci[d].yp
      BY <1>2, EnteredIs
    <3>3. b \in Activation /\ b.kind \in Bodies /\ b.th = Running
      BY <1>2, BodyAct DEF Bodies
    <3>4. Depth \in 1 .. Depth
      BY <1>2
    <3>. HIDE DEF t, b
    <3>. QED  BY <2>1, <3>1, <3>2, <3>3, <3>4
  <2>2. CASE ~IsLua
    <3>. DEFINE t == FinishCcall(S, Depth)  b == Kind("cfun", Depth)
    <3>1. cstack' = Append(cstack, b) /\ Update(t)
      BY <2>2 DEF Unroll
    <3>2. Len(t.ci) = Depth /\ (\A d \in 1 .. Depth : d /= Depth => t.ci[d] = S.ci[d]) /\ ~t.ci[Depth].yp
      BY <1>2, FinishIs
    <3>3. b \in Activation /\ b.kind \in Bodies /\ b.th = Running
      BY <1>2, BodyAct DEF Bodies
    <3>. HIDE DEF t, b
    <3>. QED  BY <2>2, <3>1, <3>2, <3>3
  <2>. QED  BY <2>1, <2>2
<1>4. Own(n) /\ T = t /\ Len(cstack') = n + 1 /\ cstack'[n + 1] = b
  BY <1>3, OwnPush
<1>5. (\A j \in n + 1 .. Len(cstack) : FALSE) /\ \A j \in n + 1 .. Len(cstack') : cstack'[j].kind /= "pcall"
  BY <1>2, <1>3, <1>4 DEF Bodies
<1>. HIDE DEF n
<1>6. \A i : NewPcalls(i) = Pcalls(i)
  BY <1>4, <1>5, PcallsKept
<1>7. Same(Len(S.ci) - 1) /\ Len(T.ci) = Len(S.ci)
  <2>1. \A i \in 1 .. Depth - 1 : T.ci[i].yp = S.ci[i].yp
    BY <1>2, <1>3, <1>4
  <2>. QED  BY <1>2, <1>3, <1>4, <1>6, <2>1, PendingIs DEF Same
<1>8. CASE S.ci[Depth].yp /\ ~IsLua
  <2>1. WasPending(Len(S.ci)) = IsPending(Len(S.ci)) + 1
    BY <1>2, <1>3, <1>4, <1>6, <1>8, PendingIs
  <2>. QED  BY <1>1, <1>2, <1>4, <1>7, <2>1, DoesUnprotect
<1>9. CASE ~(S.ci[Depth].yp /\ ~IsLua)
  <2>1. WasPending(Len(S.ci)) = IsPending(Len(S.ci))
    BY <1>2, <1>3, <1>4, <1>6, <1>9, PendingIs
  <2>2. Same(Len(S.ci))
    BY <1>2, <1>7, <2>1 DEF Same
  <2>. QED  BY <1>4, <1>7, <2>2, DoesNothing
<1>. QED  BY <1>8, <1>9



(* luaD_pcall catches an error: it is the last call that is pending.       *)
LEMMA CatchRefines ==
  ASSUME CountInv, FrameInv, ThirdInv, CountInv', CatchInPcall
  PROVE  Implemented
<1>. DEFINE c == Catcher  p == cstack[c]
<1>1. PICK n : /\ Own(n) /\ Len(cstack') = n /\ Top' = cstack[n]
               /\ n + 1 \in 2 .. Len(cstack) /\ c \in 2 .. Len(cstack)
               /\ c = n + 1 \/ (c = n + 2 /\ cstack[n + 1].kind = "gctm")
               /\ p.kind = "pcall" /\ p.th = Running /\ p.ci \in 1 .. Depth
               /\ \A j \in c + 1 .. Len(cstack) : cstack[j].kind \notin {"host", "pcall", "resume"}
               /\ Len(T.ci) = p.ci /\ \A d \in 1 .. p.ci : T.ci[d] = S.ci[d]
               /\ T.errfunc = p.oerr /\ (T.big => p.ci > MAXFRAMES)
               /\ Thrown /\ mode' \in {"run"} \union ErrorStatus \union {"YIELD"}
  BY CatchShape
<1>. HIDE DEF c
<1>2. /\ n \in Nat \ {0} /\ Len(cstack) \in Nat /\ c \in n + 1 .. Len(cstack) /\ c \in 1 .. Len(cstack)
      /\ Depth \in Nat /\ Depth = Len(S.ci) /\ DOMAIN S.ci = 1 .. Depth /\ p.ci \in Nat
  BY <1>1, OwnPlaces
<1>3. /\ \A j \in n + 1 .. Len(cstack) : j /= c => cstack[j].kind /= "pcall"
      /\ \A j \in n + 1 .. Len(cstack') : FALSE
  <2>1. ASSUME NEW j \in n + 1 .. Len(cstack), j /= c PROVE cstack[j].kind /= "pcall"
    <3>1. j \in c + 1 .. Len(cstack) \/ (j = n + 1 /\ c = n + 2)
      BY <1>1, <1>2, <2>1
    <3>. QED  BY <1>1, <1>2, <3>1
  <2>. QED  BY <1>1, <1>2, <2>1
<1>. DEFINE f == p.ci
<1>3a. /\ Own(n) /\ cstack[c].kind = "pcall" /\ cstack[c].ci = f /\ Len(T.ci) = f /\ f \in 1 .. f /\ f \in Nat
       /\ \A d \in 1 .. f : T.ci[d] = S.ci[d]
  BY <1>1, <1>2
<1>. HIDE DEF f
<1>4. Pcalls(f) = NewPcalls(f) + 1
  BY <1>2, <1>3, <1>3a, PcallsRemoved
<1>5. ASSUME NEW i \in 1 .. f - 1 PROVE NewPcalls(i) = Pcalls(i)
  <2>1. i /= f
    BY <1>3a
  <2>. QED  BY <1>3, <1>3a, <2>1, PcallsKept
<1>6. Same(Len(T.ci) - 1)
  <2>1. \A i \in 1 .. f - 1 : i \in 1 .. f
    BY <1>3a
  <2>. QED  BY <1>3a, <1>5, <2>1, PendingIs DEF Same
<1>7. WasPending(Len(T.ci)) = IsPending(Len(T.ci)) + 1
  BY <1>3a, <1>4, PendingIs
<1>8. ASSUME NEW i \in Len(T.ci) + 1 .. Len(S.ci) PROVE WasPending(i) = 0
  <2>1. i \in 1 .. Depth /\ i > p.ci /\ ~(i <= p.ci)
    BY <1>1, <1>2, <1>8
  <2>2. ~S.ci[i].yp
    <3>1. Older(S.ci, cstack, c)
      BY <1>1, <1>2, RunningHandlers DEF ThirdInv
    <3>. QED  BY <1>1, <1>2, <2>1, <3>1 DEF Older, Suspended
  <2>3. ASSUME NEW j \in 1 .. Len(cstack), IsPcall(cstack[j], Running, i) PROVE FALSE
    <3>1. CASE j \in c + 1 .. Len(cstack)
      BY <1>1, <2>3, <3>1 DEF IsPcall
    <3>2. CASE j \in 1 .. c - 1
      <4>1. InOrder(cstack, c)
        BY <1>2, FrameInvFacts DEF FramesOK, FrameInv
      <4>. QED  BY <1>1, <2>1, <2>3, <3>2, <4>1 DEF InOrder, IsPcall
    <3>3. CASE j = c
      BY <2>1, <2>3, <3>3 DEF IsPcall
    <3>. QED  BY <1>2, <3>1, <3>2, <3>3
  <2>4. Pcalls(i) = 0
    BY <2>3, NoPcallsAt DEF Pcalls
  <2>. QED  BY <2>2, <2>4, PendingIs
<1>9. Len(T.ci) \in 1 .. Len(S.ci)
  BY <1>1, <1>2
<1>. QED  BY <1>1, <1>6, <1>7, <1>8, <1>9, DoesCatch


(* An error that recover() catches: the call was suspended.                *)
LEMMA RecoverRefines ==
  ASSUME CountInv, FrameInv, CountInv', Recover
  PROVE  Implemented
<1>. DEFINE c == Catcher
<1>1. PICK i : Thrown /\ Continues(c, i) /\ S.ci[i].yp /\ \A d \in Suspended(S.ci) : d <= i
  BY RecoverShape
<1>2. \A j \in c + 1 .. Len(cstack) : cstack[j].kind /= "pcall"
  BY <1>1, ThrownFacts, CatcherFacts
<1>. HIDE DEF c
<1>3. /\ c \in 1 .. Len(cstack) /\ cstack[c].kind = "resume" /\ cstack[c].th = Running /\ i \in 1 .. Depth
      /\ Own(c) /\ Len(cstack') = c + 1 /\ cstack'[c + 1].kind = "cfun"
      /\ Len(T.ci) = i /\ (\A d \in 1 .. i : d /= i => T.ci[d] = S.ci[d]) /\ ~T.ci[i].yp
  BY <1>1 DEF Continues
<1>4. /\ c \in Nat \ {0} /\ Depth \in Nat /\ Depth = Len(S.ci) /\ DOMAIN S.ci = 1 .. Depth /\ i \in Nat
      /\ Len(cstack) \in Nat
  BY <1>3, OwnPlaces
<1>5. \A j \in c + 1 .. Len(cstack') : cstack'[j].kind /= "pcall"
  BY <1>3, <1>4
<1>6. \A d : NewPcalls(d) = Pcalls(d)
  BY <1>2, <1>3, <1>5, PcallsKept
<1>7. Same(Len(T.ci) - 1)
  <2>1. \A d \in 1 .. i - 1 : T.ci[d] = S.ci[d]
    BY <1>3, <1>4
  <2>. QED  BY <1>3, <1>6, <2>1, PendingIs DEF Same
<1>8. WasPending(Len(T.ci)) = IsPending(Len(T.ci)) + 1
  BY <1>1, <1>3, <1>6, PendingIs
<1>9. ASSUME NEW d \in Len(T.ci) + 1 .. Len(S.ci) PROVE WasPending(d) = 0
  <2>1. d \in 1 .. Depth /\ ~(d <= i)
    BY <1>3, <1>4, <1>9
  <2>2. ~S.ci[d].yp
    BY <1>1, <1>4, <2>1 DEF Suspended
  <2>3. ASSUME NEW j \in 1 .. Len(cstack), IsPcall(cstack[j], Running, d) PROVE FALSE
    <3>1. \A x \in 1 .. c - 1 : cstack[x].th /= Running
      BY <1>3, ResumeFirst, RunningFacts
    <3>2. j \in 1 .. c - 1 \/ j = c \/ j \in c + 1 .. Len(cstack)
      BY <1>4
    <3>. QED  BY <1>2, <1>3, <2>3, <3>1, <3>2 DEF IsPcall
  <2>4. Pcalls(d) = 0
    BY <2>3, NoPcallsAt DEF Pcalls
  <2>. QED  BY <2>2, <2>4, PendingIs
<1>10. Len(T.ci) \in 1 .. Len(S.ci)
  BY <1>3, <1>4
<1>. QED  BY <1>3, <1>7, <1>8, <1>9, <1>10, DoesCatch



-----------------------------------------------------------------------------
(* Steps that leave or start a thread.                                     *)
LEMMA ElseAbstract ==
  ASSUME CountInv, CountInv', NEW n, NEW L, Moves(n, L)
  PROVE  \A M \in Threads : M /= L =>
           /\ StackOf(state', cstack', M) = StackOf(state, cstack, M)
           /\ ResumersOf(cstack', M) = ResumersOf(cstack, M)
           /\ Lives(state'[M], cstack', M) <=> Lives(state[M], cstack, M)
<1>. SUFFICES ASSUME NEW M \in Threads, M /= L
              PROVE  /\ StackOf(state', cstack', M) = StackOf(state, cstack, M)
                     /\ ResumersOf(cstack', M) = ResumersOf(cstack, M)
                     /\ Lives(state'[M], cstack', M) <=> Lives(state[M], cstack, M)
  OBVIOUS
<1>1. Unmoved(cstack, cstack', n, M) /\ state'[M] = state[M]
  <2>1. Unmoved(cstack, cstack', n, M)
    BY MovesFacts
  <2>2. state'[M] = state[M]
    BY DEF Moves
  <2>. QED  BY <2>1, <2>2
<1>2. /\ \A j \in 1 .. Len(cstack) : cstack[j].kind = "resume" => j >= 2
      /\ \A j \in 1 .. Len(cstack') : cstack'[j].kind = "resume" => j >= 2
  BY AliveFacts
<1>3. /\ \A i : PcallsAt(cstack', M, i) = PcallsAt(cstack, M, i)
      /\ ResumersOf(cstack', M) = ResumersOf(cstack, M) /\ (Runs(cstack', M) <=> Runs(cstack, M))
  BY <1>1, <1>2, UnmovedAbstract
<1>4. \A i : PendingAt(cstack', state'[M].ci, M, i) = PendingAt(cstack, state[M].ci, M, i)
  BY <1>1, <1>3 DEF PendingAt
<1>. QED  BY <1>1, <1>3, <1>4 DEF StackOf, Lives

(* The coroutine that runs stops: lua_resume returns.                      *)
LEMMA LeaveAbstract ==
  ASSUME CountInv, CountInv', NEW t, Update(t), t.ci = S.ci,
         NEW r \in 1 .. Len(cstack), cstack[r].kind = "resume", cstack[r].th = Running,
         cstack' = SubSeq(cstack, 1, r - 1), \A j \in r + 1 .. Len(cstack) : cstack[j].kind /= "pcall"
  PROVE  /\ Pending' = Pending /\ Running \in Coroutines /\ ResumedBy[Running] = {Running'}
         /\ ResumedBy' = [ResumedBy EXCEPT ![Running] = {}]
         /\ (t.status = "YIELD") => Unfinished' = Unfinished
         /\ (t.status \in ErrorStatus \/ (t.status = "OK" /\ ~t.body)) => Unfinished' = Unfinished \ {Running}
         /\ (\A i : Pcalls(i) = 0) /\ Pending[Running] = Stack
<1>1. /\ Moves(r - 1, Running) /\ T = t /\ Len(cstack') = r - 1 /\ Top' = cstack[r - 1]
      /\ (\A j \in 1 .. Len(cstack') : cstack'[j].th /= Running) /\ r \in 2 .. Len(cstack)
  BY LeaveMoves
<1>2. StackFacts /\ AbstractFacts /\ AbstractFacts'
  BY StackPrimed, AbstractIs
<1>3. Len(cstack) \in Nat /\ StackOK(cstack) /\ Running \in Threads
  BY <1>2 DEF StackFacts
<1>4. \A j \in 1 .. r - 1 : cstack[j].th /= Running
  BY <1>3, ResumeFirst
<1>5. Running \in Coroutines
  <2>1. cstack[1].th = Main /\ 1 \in 1 .. r - 1
    BY <1>1, <1>3 DEF StackOK, Host
  <2>. QED  BY <1>3, <1>4, <2>1 DEF Threads
<1>6. ResumersOf(cstack, Running) = {Running'}
  <2>1. ASSUME NEW j \in 1 .. Len(cstack), cstack[j].th = Running, cstack[j].kind = "resume" PROVE j = r
    <3>1. \A i \in 1 .. j - 1 : cstack[i].th /= Running
      BY <1>3, <2>1, ResumeFirst
    <3>. QED  BY <1>3, <1>4, <2>1, <3>1
  <2>2. {i \in 1 .. Len(cstack) : cstack[i].th = Running /\ cstack[i].kind = "resume"} = {r}
    BY <2>1
  <2>3. Running' = cstack[r - 1].th
    BY <1>1 DEF Running
  <2>. QED  BY <2>2, <2>3 DEF ResumersOf
<1>7. ResumersOf(cstack', Running) = {}
  BY <1>1 DEF ResumersOf
<1>8. \A i : Pcalls(i) = 0 /\ NewPcalls(i) = 0
  <2>1. ASSUME NEW i, NEW j \in 1 .. Len(cstack), IsPcall(cstack[j], Running, i) PROVE FALSE
    <3>1. j \in 1 .. r - 1 \/ j = r \/ j \in r + 1 .. Len(cstack)
      BY <1>1, <1>3
    <3>. QED  BY <1>4, <2>1, <3>1 DEF IsPcall
  <2>2. \A i : \A j \in 1 .. Len(cstack') : ~IsPcall(cstack'[j], Running, i)
    BY <1>1 DEF IsPcall
  <2>. QED  BY <2>1, <2>2, NoPcallsAt DEF Pcalls, NewPcalls
<1>9. StackOf(state', cstack', Running) = StackOf(state, cstack, Running)
  <2>1. \A i : PendingAt(cstack', state'[Running].ci, Running, i) = PendingAt(cstack, state[Running].ci, Running, i)
    BY <1>1, <1>8 DEF PendingAt, Pcalls, NewPcalls, T, S
  <2>. QED  BY <1>1, <2>1 DEF StackOf, T, S
<1>10. /\ \A M \in Threads : M /= Running =>
            /\ StackOf(state', cstack', M) = StackOf(state, cstack, M)
            /\ ResumersOf(cstack', M) = ResumersOf(cstack, M)
            /\ Lives(state'[M], cstack', M) <=> Lives(state[M], cstack, M)
       /\ \A M \in Coroutines : M \in Threads
  BY <1>1, ElseAbstract DEF Threads
<1>11. Pending' = Pending /\ Pending[Running] = Stack
  <2>1. Pending = [L \in Threads |-> StackOf(state, cstack, L)]
        /\ Pending' = [L \in Threads |-> StackOf(state', cstack', L)]
    BY <1>2 DEF AbstractFacts
  <2>2. \A L \in Threads : StackOf(state', cstack', L) = StackOf(state, cstack, L)
    BY <1>9, <1>10
  <2>3. StackOf(state, cstack, Running) = Stack
    BY DEF StackOf, Stack, WasPending, S
  <2>. QED  BY <1>3, <2>1, <2>2, <2>3
<1>12. ResumedBy' = [ResumedBy EXCEPT ![Running] = {}] /\ ResumedBy[Running] = {Running'}
  <2>1. ResumedBy = [L \in Coroutines |-> ResumersOf(cstack, L)]
        /\ ResumedBy' = [L \in Coroutines |-> ResumersOf(cstack', L)]
    BY <1>2 DEF AbstractFacts
  <2>. QED  BY <1>5, <1>6, <1>7, <1>10, <2>1
<1>13. Lives(state[Running], cstack, Running)
  <2>1. Live(S) /\ S = state[Running]
    BY AliveFacts DEF S
  <2>2. Runs(cstack, Running)
    BY <1>3 DEF Runs
  <2>. QED  BY <2>1, <2>2 DEF Lives, Live, ErrorStatus
<1>14. Lives(state'[Running], cstack', Running) <=> t.status \notin ErrorStatus /\ (t.body \/ t.status = "YIELD")
  <2>1. ~Runs(cstack', Running) /\ state'[Running] = t
    BY <1>1 DEF Runs, T
  <2>. QED  BY <2>1 DEF Lives
<1>15. /\ (t.status = "YIELD") => Unfinished' = Unfinished
       /\ (t.status \in ErrorStatus \/ (t.status = "OK" /\ ~t.body)) => Unfinished' = Unfinished \ {Running}
  <2>1. Unfinished = {L \in Coroutines : Lives(state[L], cstack, L)}
        /\ Unfinished' = {L \in Coroutines : Lives(state'[L], cstack', L)}
    BY <1>2 DEF AbstractFacts
  <2>2. "YIELD" \notin ErrorStatus /\ "OK" \notin ErrorStatus
    BY DEF ErrorStatus
  <2>3. \A L \in Coroutines : L /= Running => (Lives(state'[L], cstack', L) <=> Lives(state[L], cstack, L))
    BY <1>10
  <2>4. ASSUME t.status = "YIELD" PROVE Unfinished' = Unfinished
    BY <1>13, <1>14, <2>1, <2>2, <2>3, <2>4
  <2>5. ASSUME t.status \in ErrorStatus \/ (t.status = "OK" /\ ~t.body) PROVE Unfinished' = Unfinished \ {Running}
    <3>1. ~Lives(state'[Running], cstack', Running)
      BY <1>14, <2>2, <2>5
    <3>. QED  BY <2>1, <2>3, <3>1
  <2>. QED  BY <2>4, <2>5
<1>. QED  BY <1>5, <1>8, <1>11, <1>12, <1>15


LEMMA DieRefines ==
  ASSUME CountInv, FrameInv, CountInv', Die
  PROVE  Implemented
<1>. DEFINE s == [S EXCEPT !.status = mode]
<1>1. Thrown /\ mode /= "YIELD" /\ cstack[Catcher].kind = "resume" /\ ResumeReturns(s, Catcher) /\ RecoverPoints = {}
  BY DEF Die
<1>2. mode \in ErrorStatus
  BY <1>1 DEF Thrown
<1>3. s \in ThreadState /\ s.ci = S.ci /\ s.status = mode
  BY <1>2, RunningFacts DEF ThreadState
<1>. HIDE DEF s
<1>4. Catcher \in 1 .. Len(cstack) /\ cstack[Catcher].th = Running
      /\ \A j \in Catcher + 1 .. Len(cstack) : cstack[j].kind /= "pcall"
  BY <1>1, ThrownFacts, CatcherFacts
<1>5. PICK t : /\ Update(t) /\ t.ci = S.ci /\ t.status = mode
               /\ cstack' = SubSeq(cstack, 1, Catcher - 1)
  BY <1>1, <1>3, <1>4, ReturnsIs
<1>6. /\ Pending' = Pending /\ Running \in Coroutines /\ ResumedBy[Running] = {Running'}
      /\ ResumedBy' = [ResumedBy EXCEPT ![Running] = {}]
      /\ Unfinished' = Unfinished \ {Running}
      /\ (\A i : Pcalls(i) = 0) /\ Pending[Running] = Stack
  BY <1>1, <1>2, <1>4, <1>5, LeaveAbstract
<1>7. Abstract!Protected(Running) = {}
  <2>1. \A i \in 1 .. Len(S.ci) : ~S.ci[i].yp
    BY <1>1, RunningFacts DEF RecoverPoints, Depth
  <2>2. \A i \in 1 .. Len(S.ci) : WasPending(i) = 0
    BY <1>6, <2>1, PendingIs
  <2>3. \A i \in DOMAIN Stack : Stack[i] = 0
    BY <2>2 DEF Stack
  <2>. QED  BY <1>6, <2>3 DEF Abstract!Protected
<1>. QED  BY <1>6, <1>7 DEF Implemented, Abstract!Next, Abstract!Uncaught, Abstract!Back

LEMMA SuspendRefines ==
  ASSUME CountInv, FrameInv, CountInv', Suspend
  PROVE  Implemented
<1>1. mode = "YIELD" /\ Thrown /\ cstack[Catcher].kind = "resume" /\ ResumeReturns(S, Catcher)
  BY DEF Suspend, Thrown
<1>2. Catcher \in 1 .. Len(cstack) /\ cstack[Catcher].th = Running
      /\ \A j \in Catcher + 1 .. Len(cstack) : cstack[j].kind /= "pcall"
  BY <1>1, ThrownFacts, CatcherFacts
<1>3. PICK t : Update(t) /\ t.ci = S.ci /\ t.status = S.status /\ cstack' = SubSeq(cstack, 1, Catcher - 1)
  BY <1>1, <1>2, ReturnsIs, RunningFacts
<1>4. S.status = "YIELD"
  BY <1>1, RunningFacts DEF InMode
<1>5. /\ Pending' = Pending /\ Running \in Coroutines /\ ResumedBy[Running] = {Running'}
      /\ ResumedBy' = [ResumedBy EXCEPT ![Running] = {}] /\ Unfinished' = Unfinished
  BY <1>1, <1>2, <1>3, <1>4, LeaveAbstract
<1>. QED  BY <1>5 DEF Implemented, Abstract!Next, Abstract!Yield, Abstract!Back

LEMMA FinishRefines ==
  ASSUME CountInv, FrameInv, CountInv', Finish
  PROVE  Implemented
<1>1. Top.kind = "resume" /\ mode = "run" /\ Depth = 1 /\ ResumeReturns(S, Len(cstack))
  BY DEF Finish, Body
<1>2. Len(cstack) \in 1 .. Len(cstack) /\ cstack[Len(cstack)].kind = "resume" /\ cstack[Len(cstack)].th = Running
      /\ \A j \in Len(cstack) + 1 .. Len(cstack) : FALSE
  BY <1>1, RunningFacts
<1>3. PICK t : /\ Update(t) /\ t.ci = S.ci /\ t.status = S.status /\ t.body = S.body
               /\ cstack' = SubSeq(cstack, 1, Len(cstack) - 1)
  BY <1>1, <1>2, ReturnsIs, RunningFacts
<1>4. S.status = "OK" /\ ~S.body
  BY <1>1, RunMode, AliveFacts
<1>5. /\ Pending' = Pending /\ Running \in Coroutines /\ ResumedBy[Running] = {Running'}
      /\ ResumedBy' = [ResumedBy EXCEPT ![Running] = {}] /\ Unfinished' = Unfinished \ {Running}
      /\ (\A i : Pcalls(i) = 0) /\ Pending[Running] = Stack
  BY <1>1, <1>2, <1>3, <1>4, LeaveAbstract
<1>6. Pending[Running] = <<0>>
  <2>1. Len(S.ci) = 1 /\ DOMAIN S.ci = 1 .. 1 /\ FrameOK(S.ci)
    BY <1>1, FrameInvFacts, RunningFacts DEF Depth
  <2>2. ~S.ci[1].yp
    BY <2>1 DEF FrameOK, Suspended
  <2>3. WasPending(1) = 0
    BY <1>5, <2>2, PendingIs
  <2>4. Stack = [i \in 1 .. 1 |-> WasPending(i)]
    BY <2>1 DEF Stack
  <2>. QED  BY <1>5, <2>3, <2>4
<1>. QED  BY <1>5, <1>6 DEF Implemented, Abstract!Next, Abstract!Finish, Abstract!Back



(* Nothing that LuaThreads sees changes.                                   *)
LEMMA LikeRefines ==
  ASSUME CountInv, CountInv', cstack' = cstack,
         \A L \in Threads : Like(state'[L], state[L]) /\ state'[L].body = state[L].body
  PROVE  Implemented
<1>1. AbstractFacts /\ AbstractFacts'
  BY AbstractIs
<1>2. \A L \in Threads : StackOf(state', cstack', L) = StackOf(state, cstack, L)
  BY DEF StackOf, PendingAt, Like
<1>3. \A L \in Coroutines : Lives(state'[L], cstack', L) <=> Lives(state[L], cstack, L)
  BY DEF Lives, Like, Threads
<1>4. Pending' = Pending /\ ResumedBy' = ResumedBy /\ Unfinished' = Unfinished
  BY <1>1, <1>2, <1>3 DEF AbstractFacts
<1>5. Running' = Running
  BY DEF Running, Top
<1>. QED  BY <1>4, <1>5 DEF Implemented

LEMMA SignalRefines ==
  ASSUME CountInv, CountInv', Signal
  PROVE  Implemented
<1>1. cstack' = cstack
      /\ state' = [state EXCEPT ![Main] = [state[Main] EXCEPT !.hook = "lstop", !.armed = FALSE]]
  BY DEF Signal
<1>2. state \in [Threads -> ThreadState] /\ Main \in Threads /\ state[Main] \in ThreadState
  BY RunningFacts DEF Threads
<1>. DEFINE t == [state[Main] EXCEPT !.hook = "lstop", !.armed = FALSE]
<1>3. Like(t, state[Main]) /\ t.body = state[Main].body
  BY <1>2 DEF Like, ThreadState
<1>. HIDE DEF t
<1>4. \A L \in Threads : Like(state'[L], state[L]) /\ state'[L].body = state[L].body
  BY <1>1, <1>2, <1>3 DEF Like, t
<1>. QED  BY <1>1, <1>4, LikeRefines

(* lua_resume, where it is not refused.                                    *)
LEMMA StartRefines ==
  ASSUME CountInv, CountInv', mode = "run",
         NEW L \in Coroutines, L /= Running, ~Runs(cstack, L), Live(state[L]), Starts(L)
  PROVE  Implemented
<1>. DEFINE n == Len(cstack)  l == state[L]
<1>1. /\ StackFacts /\ StackFacts' /\ AbstractFacts /\ AbstractFacts'
      /\ n \in Nat \ {0} /\ n = Len(cstack) /\ cstack[n].th = Running /\ \A i \in 1 .. n : cstack[i].th /= L
      /\ L \in Threads /\ l.ci \in Seq(Frame)
  BY StackPrimed, AbstractIs, RunningFacts DEF StackFacts, Runs, Threads, ThreadState
<1>2. PICK t : state' = [state EXCEPT ![L] = t] /\ Goes(l, t) /\ Started(l, L, n)
  BY DEF Starts
<1>3. state'[L] = t /\ \A M \in Threads : M /= L => state'[M] = state[M]
  BY <1>1, <1>2 DEF StackFacts
<1>4. /\ Len(cstack') \in {n + 1, n + 2} /\ \A j \in 1 .. n : cstack'[j] = cstack[j]
      /\ cstack'[n + 1].kind = "resume" /\ cstack'[n + 1].th = L
      /\ Len(cstack') = n + 2 => cstack'[n + 2].kind \in Bodies /\ cstack'[n + 2].th = L
  BY <1>2 DEF Started
<1>. HIDE DEF n, l
<1>5. \A i \in 1 .. Len(cstack') : i \in 1 .. n \/ i = n + 1 \/ (i = n + 2 /\ Len(cstack') = n + 2)
  BY <1>1, <1>4
<1>6. /\ n + 1 \in 1 .. Len(cstack') /\ n \in 1 .. n /\ (n + 1) - 1 = n /\ n \in 1 .. Len(cstack')
      /\ Len(cstack') \in 1 .. Len(cstack') /\ Len(cstack') \notin 1 .. n
      /\ \A i \in n + 1 .. Len(cstack') : i \in 1 .. Len(cstack') /\ i \notin 1 .. n
  BY <1>1, <1>4
<1>7. Moves(n, L)
  <2>1. \A i \in n + 1 .. Len(cstack') : cstack'[i].th = L
    BY <1>4, <1>5, <1>6
  <2>2. n \in 1 .. Len(cstack) /\ \A j \in n + 1 .. Len(cstack) : FALSE
    BY <1>1
  <2>. QED  BY <1>1, <1>3, <1>4, <1>6, <2>1, <2>2 DEF Moves
<1>8. Running' = L
  <2>1. cstack'[Len(cstack')].th = L
    BY <1>4, <1>5, <1>6
  <2>. QED  BY <2>1 DEF Running, Top
<1>9. ResumersOf(cstack, L) = {} /\ ResumersOf(cstack', L) = {Running}
  <2>1. \A i \in 1 .. Len(cstack') : cstack'[i].th = L /\ cstack'[i].kind = "resume" <=> i = n + 1
    <3>1. \A i \in 1 .. n : cstack'[i].th /= L /\ i /= n + 1
      BY <1>1, <1>4
    <3>. QED  BY <1>4, <1>5, <3>1 DEF Bodies
  <2>2. {i \in 1 .. Len(cstack') : cstack'[i].th = L /\ cstack'[i].kind = "resume"} = {n + 1}
    BY <1>6, <2>1
  <2>3. cstack'[n].th = Running
    BY <1>1, <1>4, <1>6
  <2>4. ResumersOf(cstack', L) = {Running}
    BY <1>6, <2>2, <2>3 DEF ResumersOf
  <2>5. ResumersOf(cstack, L) = {}
    BY <1>1 DEF ResumersOf
  <2>. QED  BY <2>4, <2>5
<1>10. \A i : Cardinality(PcallsAt(cstack, L, i)) = 0 /\ Cardinality(PcallsAt(cstack', L, i)) = 0
  <2>1. \A i : \A j \in 1 .. Len(cstack) : ~IsPcall(cstack[j], L, i)
    BY <1>1 DEF IsPcall
  <2>2. \A i : \A j \in 1 .. Len(cstack') : ~IsPcall(cstack'[j], L, i)
    BY <1>1, <1>4, <1>5 DEF IsPcall, Bodies
  <2>. QED  BY <2>1, <2>2, NoPcallsAt
<1>11. StackOf(state', cstack', L) = StackOf(state, cstack, L)
  <2>1. Len(t.ci) = Len(l.ci) /\ Suspended(t.ci) = Suspended(l.ci)
    BY <1>2 DEF Goes
  <2>2. t \in ThreadState
    BY <1>1, <1>3 DEF StackFacts
  <2>3. DOMAIN t.ci = 1 .. Len(l.ci) /\ DOMAIN l.ci = 1 .. Len(l.ci)
    BY <1>1, <2>1, <2>2 DEF ThreadState
  <2>4. \A i \in 1 .. Len(l.ci) : t.ci[i].yp <=> l.ci[i].yp
    BY <2>1, <2>3 DEF Suspended
  <2>5. \A i \in 1 .. Len(l.ci) : PendingAt(cstack', t.ci, L, i) = PendingAt(cstack, l.ci, L, i)
    BY <1>10, <2>4 DEF PendingAt
  <2>. QED  BY <1>3, <2>1, <2>5 DEF StackOf, l
<1>12. \A M \in Threads : M /= L =>
            /\ StackOf(state', cstack', M) = StackOf(state, cstack, M)
            /\ ResumersOf(cstack', M) = ResumersOf(cstack, M)
            /\ Lives(state'[M], cstack', M) <=> Lives(state[M], cstack, M)
  BY <1>7, ElseAbstract
<1>13. Pending' = Pending
  <2>1. Pending = [M \in Threads |-> StackOf(state, cstack, M)]
        /\ Pending' = [M \in Threads |-> StackOf(state', cstack', M)]
    BY <1>1 DEF AbstractFacts
  <2>2. \A M \in Threads : StackOf(state', cstack', M) = StackOf(state, cstack, M)
    BY <1>11, <1>12
  <2>. QED  BY <2>1, <2>2
<1>14. ResumedBy' = [ResumedBy EXCEPT ![L] = {Running}] /\ ResumedBy[L] = {}
  <2>1. ResumedBy = [M \in Coroutines |-> ResumersOf(cstack, M)]
        /\ ResumedBy' = [M \in Coroutines |-> ResumersOf(cstack', M)]
    BY <1>1 DEF AbstractFacts
  <2>2. \A M \in Coroutines : M /= L => ResumersOf(cstack', M) = ResumersOf(cstack, M)
    BY <1>12 DEF Threads
  <2>. QED  BY <1>9, <2>1, <2>2
<1>15. Unfinished' = Unfinished /\ L \in Unfinished
  <2>1. Unfinished = {M \in Coroutines : Lives(state[M], cstack, M)}
        /\ Unfinished' = {M \in Coroutines : Lives(state'[M], cstack', M)}
    BY <1>1 DEF AbstractFacts
  <2>2. Lives(state[L], cstack, L)
    BY DEF Lives, Live, Starts, ErrorStatus
  <2>3. Lives(state'[L], cstack', L)
    <3>1. Runs(cstack', L) /\ t.status = "OK"
      BY <1>2, <1>4, <1>6 DEF Runs, Goes
    <3>. QED  BY <1>3, <3>1 DEF Lives, ErrorStatus
  <2>4. \A M \in Coroutines : M /= L => (Lives(state'[M], cstack', M) <=> Lives(state[M], cstack, M))
    BY <1>12 DEF Threads
  <2>. QED  BY <2>1, <2>2, <2>3, <2>4
<1>16. Abstract!Resume
  BY <1>8, <1>13, <1>14, <1>15 DEF Abstract!Resume, Abstract!Waiting
<1>. QED  BY <1>16 DEF Implemented, Abstract!Next

LEMMA ResumeRefines ==
  ASSUME CountInv, FrameInv, CountInv', NEW L \in Coroutines, Resume(L)
  PROVE  Implemented
<1>1. CASE Refuses(L)
  <2>1. cstack' = cstack /\ \A M \in Threads : Like(state'[M], state[M]) /\ state'[M].body = state[M].body
    BY <1>1, RunningFacts DEF Refuses, Like
  <2>. QED  BY <2>1, LikeRefines
<1>2. CASE Starts(L)
  BY <1>2, ResumeShape, StartRefines
<1>. QED  BY <1>1, <1>2, ResumeShape

(* coroutine.create takes the place of a thread that has ended.            *)
LEMMA CreateRefines ==
  ASSUME CountInv, CountInv', NEW L \in Coroutines, Create(L)
  PROVE  Implemented
<1>. DEFINE t == NewThread(L, S.hook, state[L].ops)  n == Len(cstack)
<1>1. state' = [state EXCEPT ![L] = t] /\ cstack' = cstack /\ mode = "run"
      /\ (state[L].status \in ErrorStatus \/ (state[L].status = "OK" /\ ~state[L].body))
      /\ \A i \in DOMAIN cstack : cstack[i].th /= L
  BY DEF Create, Body
<1>2. /\ StackFacts /\ AbstractFacts /\ AbstractFacts' /\ L \in Threads
      /\ n \in 1 .. Len(cstack) /\ \A i \in 1 .. Len(cstack) : cstack[i].th /= L
      /\ \A j \in n + 1 .. Len(cstack) : FALSE
  BY <1>1, StackPrimed, AbstractIs DEF StackFacts, Threads
<1>3. state'[L] = t /\ \A M \in Threads : M /= L => state'[M] = state[M]
  BY <1>1, <1>2 DEF StackFacts
<1>4. t.ci = <<NewFrame(FALSE, FALSE)>> /\ t.status = "OK" /\ t.body
  <2>1. L /= Main
    BY ThreadsAssumption
  <2>. QED  BY <2>1 DEF NewThread
<1>. HIDE DEF t, n
<1>5. Moves(n, L)
  BY <1>1, <1>2, <1>3 DEF Moves
<1>6. \A M \in Threads : M /= L =>
            /\ StackOf(state', cstack', M) = StackOf(state, cstack, M)
            /\ ResumersOf(cstack', M) = ResumersOf(cstack, M)
            /\ Lives(state'[M], cstack', M) <=> Lives(state[M], cstack, M)
  BY <1>5, ElseAbstract
<1>7. StackOf(state', cstack', L) = <<0>>
  <2>1. Cardinality(PcallsAt(cstack', L, 1)) = 0
    BY <1>1, <1>2, NoPcallsAt DEF IsPcall
  <2>2. Len(t.ci) = 1 /\ ~t.ci[1].yp
    BY <1>4 DEF NewFrame
  <2>3. PendingAt(cstack', t.ci, L, 1) = 0
    BY <2>1, <2>2 DEF PendingAt
  <2>4. StackOf(state', cstack', L) = [i \in 1 .. 1 |-> PendingAt(cstack', t.ci, L, i)]
    BY <1>3, <2>2 DEF StackOf
  <2>. QED  BY <2>3, <2>4
<1>8. Pending' = [Pending EXCEPT ![L] = <<0>>]
  <2>1. Pending = [M \in Threads |-> StackOf(state, cstack, M)]
        /\ Pending' = [M \in Threads |-> StackOf(state', cstack', M)]
    BY <1>2 DEF AbstractFacts
  <2>. QED  BY <1>2, <1>6, <1>7, <2>1
<1>9. ResumedBy' = ResumedBy /\ Running' = Running
  <2>1. ResumedBy' = ResumedBy
    BY <1>1, <1>2 DEF AbstractFacts
  <2>. QED  BY <1>1, <2>1 DEF Running, Top
<1>10. L \notin Unfinished /\ Unfinished' = Unfinished \union {L}
  <2>1. Unfinished = {M \in Coroutines : Lives(state[M], cstack, M)}
        /\ Unfinished' = {M \in Coroutines : Lives(state'[M], cstack', M)}
    BY <1>2 DEF AbstractFacts
  <2>2. ~Lives(state[L], cstack, L)
    BY <1>1, <1>2 DEF Lives, Runs
  <2>3. Lives(state'[L], cstack', L)
    BY <1>3, <1>4 DEF Lives, ErrorStatus
  <2>4. \A M \in Coroutines : M /= L => (Lives(state'[M], cstack', M) <=> Lives(state[M], cstack, M))
    BY <1>6 DEF Threads
  <2>. QED  BY <2>1, <2>2, <2>3, <2>4
<1>11. Abstract!Create
  BY <1>8, <1>9, <1>10 DEF Abstract!Create
<1>. QED  BY <1>11 DEF Implemented, Abstract!Next



-----------------------------------------------------------------------------
(* Every step of LuaCall is one of LuaThreads, or changes nothing it sees. *)
LEMMA ApiRefines ==
  ASSUME CountInv, FrameInv, ThirdInv, CountInv', ApiCall
  PROVE  Implemented
<1>1. CASE \E k \in BOOLEAN : CallK(k)
  BY <1>1, CallKQuiet, QuietRefines
<1>2. CASE \E k \in BOOLEAN : Yield(k)
  BY <1>2, YieldRefines
<1>3. CASE \E k \in BOOLEAN : \E ef \in Nat \cap {0, Depth} : PcallK(k, ef)
  BY <1>3, PcallKRefines
<1>4. CASE \E L \in Coroutines : Resume(L)
  BY <1>4, ResumeRefines
<1>5. CASE \E L \in Coroutines : Create(L)
  BY <1>5, CreateRefines
<1>6. CASE \E h \in {"none", "user"} : SetHook(h)
  BY <1>6, HooksSetQuiet, QuietRefines
<1>7. CASE Load
  BY <1>7, LoadProtects, ProtectRefines
<1>8. CASE ApiMetamethod
  BY <1>8, MetamethodsQuiet, QuietRefines
<1>. QED  BY <1>1, <1>2, <1>3, <1>4, <1>5, <1>6, <1>7, <1>8 DEF ApiCall

LEMMA StepRefines ==
  ASSUME CountInv, FrameInv, ThirdInv, CountInv', [Next]_vars
  PROVE  Implemented
<1>1. CASE UNCHANGED vars
  BY <1>1, LikeRefines DEF vars, Like
<1>2. CASE ApiCall
  BY <1>2, ApiRefines
<1>3. CASE OpCall \/ Return \/ Error \/ HandlerDone
  BY <1>3, ModesQuiet, QuietRefines
<1>4. CASE Metamethod \/ Reader \/ ErrorMsg
  BY <1>4, MetamethodsQuiet, ErrorMsgQuiet, QuietRefines
<1>5. CASE Precall \/ PrecallFails
  BY <1>5, PrecallRefines, PrecallFailsQuiet, QuietRefines
<1>6. CASE ReturnHook \/ Poscall
  BY <1>6, ReturnHookQuiet, QuietRefines, PoscallRefines
<1>7. CASE CallDone \/ PcallDone
  BY <1>7, CallDoneRefines, PcallDoneRefines
<1>8. CASE CallFinalizer \/ FinalizerDone
  BY <1>8, FinalizerProtects, ProtectRefines, DonesQuiet, QuietRefines
<1>9. CASE EnterLevel \/ LeaveLevel
  BY <1>9, EnterLevelQuiet, DonesQuiet, QuietRefines
<1>10. CASE ParserEnds \/ LoadDone
  BY <1>10, ParserEndsQuiet, DonesQuiet, QuietRefines
<1>11. CASE CatchInPcall \/ Recover \/ Die
  BY <1>11, CatchRefines, RecoverRefines, DieRefines
<1>12. CASE YieldInHook \/ Suspend
  BY <1>12, YieldInHookQuiet, QuietRefines, SuspendRefines
<1>13. CASE Unroll \/ Finish
  BY <1>13, UnrollRefines, FinishRefines
<1>14. CASE CountHook \/ Lstop \/ HookDone \/ Signal
  BY <1>14, CountHookQuiet, HooksSetQuiet, HookDoneQuiet, QuietRefines, SignalRefines
<1>. QED
  BY <1>1, <1>2, <1>3, <1>4, <1>5, <1>6, <1>7, <1>8, <1>9, <1>10, <1>11, <1>12, <1>13, <1>14 DEF Next

LEMMA InitRefines ==
  ASSUME Init, CountInv
  PROVE  Abstract!Init
<1>1. PICK p \in Programs : state = [L \in Threads |-> NewThread(L, "none", p[L])]
  BY DEF Init
<1>2. cstack = <<Host>> /\ Len(cstack) = 1 /\ cstack[1] = Host
  BY DEF Init
<1>3. AbstractFacts
  BY AbstractIs
<1>4. ASSUME NEW L \in Threads
      PROVE  state[L].ci = <<NewFrame(FALSE, FALSE)>> /\ state[L].status = "OK" /\ state[L].body = (L /= Main)
  BY <1>1 DEF NewThread
<1>5. ASSUME NEW L \in Threads PROVE StackOf(state, cstack, L) = <<0>>
  <2>1. Cardinality(PcallsAt(cstack, L, 1)) = 0
    BY <1>2, NoPcallsAt DEF IsPcall, Host
  <2>2. Len(state[L].ci) = 1 /\ ~state[L].ci[1].yp
    BY <1>4 DEF NewFrame
  <2>3. PendingAt(cstack, state[L].ci, L, 1) = 0
    BY <2>1, <2>2 DEF PendingAt
  <2>4. StackOf(state, cstack, L) = [i \in 1 .. 1 |-> PendingAt(cstack, state[L].ci, L, i)]
    BY <2>2 DEF StackOf
  <2>. QED  BY <2>3, <2>4
<1>6. \A L : ResumersOf(cstack, L) = {}
  BY <1>2 DEF ResumersOf, Host
<1>7. \A L \in Coroutines : Lives(state[L], cstack, L)
  <2>1. \A L \in Coroutines : L \in Threads /\ L /= Main
    BY ThreadsAssumption DEF Threads
  <2>. QED  BY <1>4, <2>1 DEF Lives, ErrorStatus
<1>8. Pending = [L \in Threads |-> <<0>>] /\ ResumedBy = [L \in Coroutines |-> {}] /\ Unfinished = Coroutines
  BY <1>3, <1>5, <1>6, <1>7 DEF AbstractFacts
<1>9. Running = Main
  BY <1>2 DEF Running, Top, Host
<1>. QED  BY <1>8, <1>9 DEF Abstract!Init, Abstract!Threads, Threads

(* Calls, errors and coroutines implement LuaThreads (src/ldo.c): whether  *)
(* the C stack was cut by a yield, rebuilt by 'unroll' or left by an       *)
(* error, an error reaches the innermost protected call of its thread, no  *)
(* function or protected call is lost, no other thread is touched.         *)
THEOREM CallsImplementThreads ==
  ASSUME HooksAvoidMetamethods
  PROVE  Spec => ImplementsThreads
<1>1. Init /\ CountInv => Abstract!Init
  BY InitRefines
<1>2. (CountInv /\ FrameInv /\ ThirdInv /\ LimitInv) /\ (CountInv /\ FrameInv /\ ThirdInv /\ LimitInv)' /\ [Next]_vars
        => [Abstract!Next]_(Abstract!tvars)
  BY StepRefines DEF Implemented, Abstract!tvars
<1>. QED  BY <1>1, <1>2, StacksInvariant, PTL DEF Spec, ImplementsThreads, Abstract!Spec

=============================================================================
