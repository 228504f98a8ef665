--------------------------- MODULE LuaFinalizers ---------------------------
(* The order in which finalizers are called (lgc.c): the lists finobj and  *)
(* tobefnz, the first object first, with collections in steps, full ones,  *)
(* those of an emergency, those a finalizer starts, errors in finalizers,  *)
(* and lua_close.  The colours of objects, and those without a finalizer,  *)
(* are in LuaHeap.                                                         *)
EXTENDS Naturals, Sequences, SequencesExt

CONSTANTS Finalizable,   (* names of objects; a dead one's is used again    *)
          MaxFinalizers  (* finalizers that run, one within the other       *)

ASSUME FinalizersAssumption == MaxFinalizers \in Nat

VARIABLES
  finobj, tobefnz, gcfinnum,
  gcstate,     (* "pause", "propagate", "sweep" or "callfin"                *)
  collecting,  (* the functions of the collector and the finalizers that    *)
               (* are active, the innermost last                            *)
  alive,       (* those of finobj that the program can reach                *)
  shut,        (* "no", or where lua_close is: "closing", "closed"          *)
  marking,     (* the objects of finobj in the order they were marked       *)
  promised     (* those of tobefnz likewise, by the cycle that found them   *)

finVars == <<finobj, tobefnz, gcfinnum, gcstate, collecting, alive, shut, marking, promised>>

Collector == {"step", "full", "emergency", "all"}
Collecting(k)   == [kind |-> k, begun |-> FALSE]
Few(i)      == [kind |-> "few", i |-> i]
Finalizer(o) == [kind |-> "fin", o |-> o]
Within(K)   == collecting # <<>> /\ Last(collecting).kind \in K
Returned    == Front(collecting)
Finalizers  == {i \in DOMAIN collecting : collecting[i].kind = "fin"}
InProgram   == shut # "closed" /\ (collecting = <<>> \/ Within({"fin"}))

-----------------------------------------------------------------------------
(* The lists                                                               *)

Those(s, S) == SelectSeq(s, LAMBDA o : o \in S)

(* Faulty variant: the objects found dead go to the beginning of tobefnz.  *)
SeparatedFirst(S) ==
  /\ tobefnz' = Those(finobj, S) \o tobefnz
  /\ finobj' = Those(finobj, ToSet(finobj) \ S)
  /\ promised' = IF S = {} THEN promised ELSE Append(promised, Those(marking, S))
  /\ marking' = Those(marking, ToSet(marking) \ S) /\ alive' = alive \ S

(* The objects of S, dead ones or all, go to the end of tobefnz.           *)
separatetobefnz(S) ==
  /\ tobefnz' = tobefnz \o Those(finobj, S)
  /\ finobj' = Those(finobj, ToSet(finobj) \ S)
  /\ promised' = IF S = {} THEN promised ELSE Append(promised, Those(marking, S))
  /\ marking' = Those(marking, ToSet(marking) \ S) /\ alive' = alive \ S

(* GCTM: of the first object; nothing is called if its metatable has lost  *)
(* the function.                                                           *)
udata2finalize ==
  /\ tobefnz # <<>> /\ tobefnz' = Tail(tobefnz)
  /\ promised' = IF Len(promised[1]) = 1 THEN Tail(promised) ELSE [promised EXCEPT ![1] = Front(@)]
GCTM(stack) ==
  /\ udata2finalize
  /\ collecting' \in {Append(stack, Finalizer(tobefnz[1])), stack}
  /\ UNCHANGED <<finobj, gcfinnum, gcstate, alive, shut, marking>>

-----------------------------------------------------------------------------
(* The program, also within a finalizer                                    *)

(* luaC_checkfinalizer: setmetatable on an object, a new one or one whose  *)
(* finalizer was called before.                                            *)
luaC_checkfinalizer(o) ==
  /\ InProgram /\ o \notin ToSet(finobj \o tobefnz)
  /\ finobj' = <<o>> \o finobj /\ marking' = Append(marking, o)
  /\ alive' = alive \union {o}
  /\ UNCHANGED <<tobefnz, gcfinnum, gcstate, collecting, shut, promised>>

Forget(o) ==
  /\ InProgram /\ o \in alive /\ \A i \in Finalizers : collecting[i].o # o
  /\ alive' = alive \ {o}
  /\ UNCHANGED <<finobj, tobefnz, gcfinnum, gcstate, collecting, shut, marking, promised>>

(* luaC_step, and lua_gc, which allows one within a finalizer; luaC_fullgc *)
(* from lua_gc, or from a failed allocation.                               *)
Collect ==
  /\ InProgram
  /\ \E k \in {"step", "full", "emergency"} :
       /\ k # "emergency" => Len(SelectSeq(collecting, LAMBDA f : f.kind = "fin")) < MaxFinalizers
       /\ collecting' = Append(collecting, Collecting(k))
  /\ gcstate' = IF Last(collecting').kind # "step" /\ gcstate = "propagate" THEN "sweep" ELSE gcstate
  /\ UNCHANGED <<finobj, tobefnz, gcfinnum, alive, shut, marking, promised>>

(* lua_close, which os.exit calls in a finalizer too, never to return; not *)
(* again within itself, where the C stack would bound it.                  *)
lua_close ==
  /\ InProgram /\ shut = "no" /\ shut' = "closing"
  /\ separatetobefnz(ToSet(finobj)) /\ collecting' = <<Collecting("all")>>
  /\ UNCHANGED <<gcfinnum, gcstate>>

(* A finalizer returns.  With an error GCTM throws, through the functions  *)
(* of the collector, to the finalizer that called them or to the program;  *)
(* but callallpendingfinalizers goes on.                                   *)
Propagates(i) == collecting[i].kind # "all"
FinalizerEnds ==
  /\ Within({"fin"})
  /\ LET n == Len(collecting)
         below == {i \in Finalizers : i < n}
         catcher == IF below = {} THEN 0 ELSE CHOOSE i \in below : \A j \in below : j <= i
     IN \/ collecting' = Returned
        \/ Propagates(n - 1) /\ collecting' = SubSeq(collecting, 1, catcher)
  /\ UNCHANGED <<finobj, tobefnz, gcfinnum, gcstate, alive, shut, marking, promised>>

-----------------------------------------------------------------------------
(* The collector                                                           *)

HasBegun(stack) == [stack EXCEPT ![Len(stack)].begun = TRUE]

(* luaC_step goes on as long as the debt says, but not past the pause;     *)
(* luaC_fullgc until the pause that ends a whole cycle.                    *)
CollectsOn == Within({"step", "full", "emergency"}) /\ ~(Last(collecting).begun /\ gcstate = "pause")
OneStep == collecting' = IF Within({"step"}) \/ gcstate = "pause" THEN HasBegun(collecting) ELSE collecting

restartcollection ==
  /\ CollectsOn /\ gcstate = "pause" /\ gcstate' = "propagate" /\ OneStep
  /\ UNCHANGED <<finobj, tobefnz, gcfinnum, alive, shut, marking, promised>>

(* Incremental marks may have met an object before the program forgot it.  *)
atomicphase ==
  /\ CollectsOn /\ gcstate = "propagate" /\ gcstate' = "sweep" /\ OneStep
  /\ LET dead == ToSet(finobj) \ alive
     IN \E S \in IF Within({"step"}) THEN SUBSET dead ELSE {dead} : separatetobefnz(S)
  /\ gcfinnum' = 1 /\ UNCHANGED shut

sweepphase ==
  /\ CollectsOn /\ gcstate = "sweep" /\ gcstate' = "callfin" /\ OneStep
  /\ UNCHANGED <<finobj, tobefnz, gcfinnum, alive, shut, marking, promised>>

CallFinalizers ==
  /\ CollectsOn /\ gcstate = "callfin" /\ tobefnz # <<>> /\ ~Within({"emergency"})
  /\ collecting' = Append(IF Within({"step"}) THEN HasBegun(collecting) ELSE collecting, Few(0))
  /\ UNCHANGED <<finobj, tobefnz, gcfinnum, gcstate, alive, shut, marking, promised>>

EndCycle ==
  /\ CollectsOn /\ gcstate = "callfin" /\ (tobefnz = <<>> \/ Within({"emergency"}))
  /\ gcstate' = "pause" /\ OneStep
  /\ UNCHANGED <<finobj, tobefnz, gcfinnum, alive, shut, marking, promised>>

(* runafewfinalizers, whose finalizers change gcfinnum if they collect     *)
MayCall(i) == tobefnz # <<>> /\ i < gcfinnum
runafewfinalizers ==
  /\ Within({"few"})
  /\ LET i == Last(collecting).i
     IN \/ MayCall(i) /\ GCTM(Append(Returned, Few(i + 1)))
        \/ /\ ~MayCall(i) /\ collecting' = Returned
           /\ gcfinnum' = IF tobefnz = <<>> THEN 0 ELSE gcfinnum * 2
           /\ UNCHANGED <<finobj, tobefnz, gcstate, alive, shut, marking, promised>>

(* Out of the pause luaC_step calls a few more finalizers.                 *)
EndStep ==
  /\ Within({"step"}) /\ Last(collecting).begun
  /\ collecting' = IF gcstate = "pause" THEN Returned ELSE Append(Returned, Few(0))
  /\ UNCHANGED <<finobj, tobefnz, gcfinnum, gcstate, alive, shut, marking, promised>>

EndFull ==
  /\ Within({"full", "emergency"}) /\ Last(collecting).begun /\ gcstate = "pause"
  /\ collecting' = Returned
  /\ UNCHANGED <<finobj, tobefnz, gcfinnum, gcstate, alive, shut, marking, promised>>

(* What was marked in the meantime is freed without a call.                *)
callallpendingfinalizers ==
  /\ Within({"all"})
  /\ \/ GCTM(collecting)
     \/ /\ tobefnz = <<>> /\ collecting' = <<>> /\ shut' = "closed"
        /\ finobj' = <<>> /\ marking' = <<>> /\ alive' = {}
        /\ UNCHANGED <<tobefnz, gcfinnum, gcstate, promised>>

-----------------------------------------------------------------------------
FinInit ==
  /\ finobj = <<>> /\ tobefnz = <<>> /\ gcfinnum = 0 /\ gcstate = "pause"
  /\ collecting = <<>> /\ alive = {} /\ shut = "no"
  /\ marking = <<>> /\ promised = <<>>

FinNext ==
  \/ \E o \in Finalizable : luaC_checkfinalizer(o) \/ Forget(o)
  \/ Collect \/ lua_close \/ FinalizerEnds
  \/ restartcollection \/ atomicphase \/ sweepphase \/ CallFinalizers \/ EndCycle
  \/ runafewfinalizers \/ EndStep \/ EndFull \/ callallpendingfinalizers

-----------------------------------------------------------------------------
(* The finalizers of the objects that one cycle finds dead are called in   *)
(* the reverse order of their marking, after all those of earlier cycles,  *)
(* each once for each marking; and lua_close calls all that it finds,      *)
(* whatever errors there are, before the state is freed.                   *)
FinalizersInOrder ==
  /\ tobefnz = FlattenSeq([b \in DOMAIN promised |-> Reverse(promised[b])])
  /\ finobj = Reverse(marking)
  /\ shut = "closing" => collecting # <<>> /\ collecting[1].kind = "all"
  /\ shut = "closed" => promised = <<>>

(* The assertion of runafewfinalizers: it can call what is pending.         *)
FinalizersCallable == Within({"few"}) /\ Last(collecting).i = 0 => tobefnz = <<>> \/ gcfinnum > 0

(* The collections that are active are not n for ever: each ends, whatever *)
(* objects its finalizers mark, unless one of them collects in turn, which *)
(* may find new work for it; so does that one, and so does lua_close.  But *)
(* a collection within lua_close may not end: it cannot call what is       *)
(* pending (FinalizersCallable).                                           *)
Depth == Len(SelectSeq(collecting, LAMBDA f : f.kind \in Collector))
Passing(n) == Depth = n => n > 1 /\ shut = "closing"
=============================================================================
