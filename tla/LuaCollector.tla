---------------------------- MODULE LuaCollector ----------------------------
(***************************************************************************)
(* The incremental collector of lgc.c: luaC_step, luaC_fullgc and the      *)
(* single steps they are made of, the atomic phase loop by loop, and the   *)
(* calls of finalizers.  How much one luaC_step does (the debt) is left    *)
(* open.                                                                   *)
(***************************************************************************)
EXTENDS LuaMutator

CONSTANTS
  FullKinds,   (* the full collections that happen: TRUE stands for an     *)
               (* emergency one (an allocation failed), FALSE for one that *)
               (* the program asks for                                     *)
  MaxFrames    (* bound: nested calls of luaC_step, luaC_fullgc and        *)
               (* finalizers when a new one begins                         *)

ASSUME CollectorAssumption == FullKinds \subseteq BOOLEAN /\ MaxFrames \in Nat

Idling == atom.pc = "idle"

StepFrame         == [kind |-> "step"]
FewFrame          == [kind |-> "few"]
FullFrame(em)     == [kind |-> "full", emergency |-> em, begun |-> FALSE]

Pushed(f)    == Append(cstack, f)
Dropped      == SubSeq(cstack, 1, Len(cstack) - 1)
Replaced(f)  == [cstack EXCEPT ![Len(cstack)] = f]
TopIs(k)     == cstack # <<>> /\ Top.kind = k

CanCall == MutatorOn /\ Len(cstack) < MaxFrames

(* singlestep is called in a loop of luaC_step (the first call of the loop *)
(* begins a new luaC_step) or of luaC_fullgc.  cs is the C stack in it.    *)
SingleStep(cs) ==
  /\ Idling
  /\ \/ CanCall /\ cs = Pushed(StepFrame)
     \/ (TopIs("step") \/ TopIs("full")) /\ gcstate # "pause" /\ cs = cstack

(* g->gckind: only a full collection with nothing nested in it is one.     *)
Emergency == TopIs("full") /\ Top.emergency

(***************************************************************************)
(* Mark phase.                                                             *)
(***************************************************************************)
(* restartcollection.  luaC_fullgc leaves the pause once.                  *)
Restart ==
  /\ Idling
  /\ gcstate = "pause"
  /\ \/ CanCall /\ cstack' = Pushed(StepFrame)
     \/ TopIs("full") /\ ~Top.begun /\ cstack' = Replaced([Top EXCEPT !.begun = TRUE])
  /\ Mark({MainThread, Registry, basemt} \union tobefnz, color, {})
  /\ grayagain' = {} /\ weak' = {} /\ ephemeron' = {} /\ allweak' = {}
  /\ gcstate' = "propagate"
  /\ UNCHANGED <<listVars, currentwhite, gcfinnum, atom, sweepVars, refVars, funcVars, stackVars>>

(* traversetable for a table without a weak mode.                          *)
TraverseStrong(h) ==
  /\ Mode(h) = ""
  /\ Mark({mt[h]} \union Keys(h) \union Values(h), [color EXCEPT ![h] = "black"], gray \ {h})
  /\ UNCHANGED <<grayagain, weak, ephemeron, allweak, uv, cache, stale, twups>>

(* traverseweakvalue.  hasclears is also true when the table has an array  *)
(* part; it then leaves strings unmarked.                                  *)
TraverseWeakValue(h) ==
  /\ Mode(h) = "v"
  /\ \E hasclears \in BOOLEAN, S \in SUBSET (Values(h) \intersect Strings) :
       /\ Mark({mt[h]} \union Keys(h) \union S, color, gray \ {h})
       /\ hasclears \/ \A v \in Objs(Values(h)) : color'[v] \notin Whites
       /\ IF gcstate = "propagate"
          THEN grayagain' = grayagain \union {h} /\ UNCHANGED weak
          ELSE weak' = (IF hasclears THEN weak \union {h} ELSE weak) /\ UNCHANGED grayagain
  /\ UNCHANGED <<ephemeron, allweak, uv, cache, stale, twups>>

(* traverseephemeron, under the colours c and with eph in the ephemeron    *)
(* list.  Two passes over the entries stand for the order of the nodes:    *)
(* those of 'early' are visited first, and in each pass those with a white *)
(* key come first.                                                         *)
(* Faulty variants: an ephemeron marks its values whatever the keys are; it *)
(* forgets that an entry has both key and value white.                     *)
KeyAlwaysMarked(e, c) == TRUE
ValueNeverWhite(e, c) == FALSE

KeyMarked(e, c)     == Weakable(e[1]) => c[e[1]] \notin Whites
ValueWhite(e, c)    == e[2] \in Obj /\ c[e[2]] \in Whites
VisitMarks(E, c)    == {e[2] : e \in {d \in E : KeyMarked(d, c)}}
                         \union ({e[1] : e \in E} \intersect Strings)
MarksValue(E, c)    == \E e \in E : KeyMarked(e, c) /\ ValueWhite(e, c)
WhiteKeyed(E, c)    == {e \in E : ~KeyMarked(e, c)}

VisitEphemeron(h, c, g, eph, early) ==
  LET late  == entries[h] \ early
      W1    == VisitMarks(early, c)
      c1    == Marked(W1, c)
      hasww == \/ \E e \in WhiteKeyed(early, c) : ValueWhite(e, c)
               \/ \E e \in WhiteKeyed(late, c1) : ValueWhite(e, c1)
      hasclears == WhiteKeyed(early, c) # {} \/ WhiteKeyed(late, c1) # {}
  IN  /\ Mark(W1 \union VisitMarks(late, c1), c, g)
      /\ grayagain' = IF gcstate = "propagate" THEN grayagain \union {h} ELSE grayagain
      /\ ephemeron' = IF gcstate # "propagate" /\ hasww THEN eph \union {h} ELSE eph
      /\ allweak' = IF gcstate # "propagate" /\ ~hasww /\ hasclears
                    THEN allweak \union {h} ELSE allweak

TraverseEphemeron(h) ==
  /\ Mode(h) = "k"
  /\ \E early \in SUBSET entries[h] :
       VisitEphemeron(h, Marked({mt[h]}, color),
                      (gray \ {h}) \union MarkSet({mt[h]}, color), ephemeron, early)
  /\ UNCHANGED <<weak, uv, cache, stale, twups>>

(* traversetable for a table with weak keys and values.                    *)
TraverseAllWeak(h) ==
  /\ Mode(h) = "kv"
  /\ Mark({mt[h]}, color, gray \ {h})
  /\ allweak' = allweak \union {h}
  /\ UNCHANGED <<grayagain, weak, ephemeron, uv, cache, stale, twups>>

(* traverseproto: a white cached closure is forgotten.                     *)
TraverseProto(p) ==
  /\ cache' = IF cache[p] # Nil /\ IsWhite(cache[p]) THEN [cache EXCEPT ![p] = Nil] ELSE cache
  /\ color' = [color EXCEPT ![p] = "black"]
  /\ gray' = gray \ {p}
  /\ UNCHANGED <<grayagain, weak, ephemeron, allweak, uv, stale, twups>>

TraverseCClosure(c) ==
  /\ Mark({val[c]}, [color EXCEPT ![c] = "black"], gray \ {c})
  /\ UNCHANGED <<grayagain, weak, ephemeron, allweak, uv, cache, stale, twups>>

(* traverseLclosure: the value of an open upvalue is marked with its       *)
(* thread, except inside the atomic phase.                                 *)
TraverseLClosure(c) ==
  /\ IF IsOpen(upv[c]) /\ gcstate # "insideatomic"
     THEN /\ Mark({clp[c]}, [color EXCEPT ![c] = "black"], gray \ {c})
          /\ uv' = [uv EXCEPT ![upv[c]].touched = TRUE]
     ELSE /\ Mark({clp[c], uv[upv[c]].v}, [color EXCEPT ![c] = "black"], gray \ {c})
          /\ UNCHANGED uv
  /\ UNCHANGED <<grayagain, weak, ephemeron, allweak, cache, stale, twups>>

(* The last traversal of a thread puts it back in twups if remarkupvals     *)
(* took it out.  Faulty variant of Relinked: it does not.                  *)
NotRelinked(th) == twups

Relinked(th) == IF OpenUpvals(th) # {} THEN twups \union {th} ELSE twups

(* traversethread: a thread stays gray; its last traversal clears the part *)
(* of the stack above top.                                                 *)
TraverseThread(th) ==
  /\ Mark(StackRefs(th), color, gray \ {th})
  /\ grayagain' = grayagain \union {th}
  /\ IF gcstate = "insideatomic"
     THEN /\ stale' = [stale EXCEPT ![th] = Nil]
          /\ twups' = Relinked(th)
     ELSE UNCHANGED <<stale, twups>>
  /\ UNCHANGED <<weak, ephemeron, allweak, uv, cache>>

(* propagatemark.                                                          *)
Propagate(o) ==
  /\ o \in gray
  /\ \/ o \in Tables /\ (\/ TraverseStrong(o) \/ TraverseWeakValue(o)
                         \/ TraverseEphemeron(o) \/ TraverseAllWeak(o))
     \/ o \in Protos /\ TraverseProto(o)
     \/ o \in CClosures /\ TraverseCClosure(o)
     \/ o \in LClosures /\ TraverseLClosure(o)
     \/ o \in Threads /\ TraverseThread(o)
  /\ UNCHANGED <<listVars, currentwhite, gcfinnum, atom, sweepVars, refVars,
                 clp, upv, stk, running, resumer, strcache>>

(* Faulty variant of PropagateStep: the empty gray list goes unnoticed.     *)
PropagateForever ==
  /\ gcstate = "propagate"
  /\ SingleStep(cstack')
  /\ \E o \in gray : Propagate(o)
  /\ gcstate' = gcstate

(* singlestep in GCSpropagate.                                             *)
PropagateStep ==
  /\ gcstate = "propagate"
  /\ SingleStep(cstack')
  /\ \E o \in gray : Propagate(o)
  /\ gcstate' = IF gray' = {} THEN "atomic" ELSE "propagate"

(***************************************************************************)
(* Atomic phase: nothing else runs until it has entered the sweep.         *)
(***************************************************************************)
At(pc) == [atom EXCEPT !.pc = pc]

(* The collector's state that no step of the atomic phase changes, save    *)
(* those that say so.                                                      *)
quietVars == <<finbit, allgc, sweepVars, mt, val, basemt, clp, upv, stk,
               running, resumer, cstack>>

(* singlestep in GCSatomic begins with propagateall.                       *)
AtomicEnter ==
  /\ gcstate = "atomic"
  /\ SingleStep(cstack')
  /\ atom' = At("pre")
  /\ UNCHANGED <<color, listVars, currentwhite, gcstate, gcfinnum, sweepVars, grayVars,
                 refVars, funcVars, stackVars>>

(* propagateall, wherever atomic() calls it.                               *)
PropagateAll ==
  /\ atom.pc \in {"pre", "prop1", "again", "eph1", "prop2", "eph2"}
  /\ \E o \in gray : Propagate(o)
  /\ UNCHANGED <<gcstate, cstack>>

(* The running thread, the registry and the basic metatables are roots     *)
(* again: they may have changed without a barrier.                         *)
AtomicStart ==
  /\ atom.pc = "pre" /\ gray = {}
  /\ gcstate' = "insideatomic"
  /\ Mark({running, Registry, basemt}, color, gray)
  /\ atom' = [At("remark") EXCEPT !.again = grayagain]
  /\ UNCHANGED <<quietVars, finobj, tobefnz, currentwhite, gcfinnum, grayagain, weak,
                 ephemeron, allweak, entries, cache, uv, stale, twups, strcache>>

(* Faulty variant of Stays: an unmarked thread stays in twups too.          *)
StaysUnmarked(th) == OpenUpvals(th) # {}

(* remarkupvals: a thread stays in twups while it is marked and has open   *)
(* upvalues; otherwise its touched upvalues are marked.                    *)
Stays(th) == color[th] = "gray" /\ OpenUpvals(th) # {}

RemarkUpvals(th) ==
  /\ atom.pc = "remark"
  /\ th \in twups /\ ~Stays(th)
  /\ twups' = twups \ {th}
  /\ Mark({uv[u].v : u \in {w \in OpenUpvals(th) : uv[w].touched}}, color, gray)
  /\ uv' = [u \in UpVals |-> IF u \in OpenUpvals(th) THEN [uv[u] EXCEPT !.touched = FALSE]
                             ELSE uv[u]]
  /\ UNCHANGED <<quietVars, finobj, tobefnz, phaseVars, grayagain, weak, ephemeron, allweak,
                 entries, cache, stale, strcache>>

RemarkDone ==
  /\ atom.pc = "remark"
  /\ \A th \in twups : Stays(th)
  /\ atom' = At("prop1")
  /\ UNCHANGED <<color, listVars, currentwhite, gcstate, gcfinnum, sweepVars, grayVars,
                 refVars, funcVars, stackVars, cstack>>

(* g->gray = grayagain.                                                    *)
GrayAgain ==
  /\ atom.pc = "prop1" /\ gray = {}
  /\ gray' = atom.again
  /\ atom' = [At("again") EXCEPT !.again = {}]
  /\ UNCHANGED <<color, listVars, currentwhite, gcstate, gcfinnum, sweepVars, grayagain, weak,
                 ephemeron, allweak, refVars, funcVars, stackVars, cstack>>

(* convergeephemerons: one round over the ephemeron list, and another one  *)
(* if a visit marked something.                                            *)
ConvergeRound ==
  /\ gray = {}
  /\ \/ atom.pc = "again" /\ atom' = [At("eph1") EXCEPT !.eph = ephemeron, !.changed = FALSE]
     \/ atom.pc = "prop2" /\ atom' = [At("eph2") EXCEPT !.eph = ephemeron, !.changed = FALSE]
     \/ /\ atom.pc \in {"eph1", "eph2"} /\ atom.eph = {} /\ atom.changed
        /\ atom' = [atom EXCEPT !.eph = ephemeron, !.changed = FALSE]
  /\ ephemeron' = {}
  /\ UNCHANGED <<color, listVars, currentwhite, gcstate, gcfinnum, sweepVars, gray, grayagain,
                 weak, allweak, refVars, funcVars, stackVars, cstack>>

ConvergeVisit(w) ==
  /\ atom.pc \in {"eph1", "eph2"} /\ gray = {}
  /\ w \in atom.eph
  /\ \E early \in SUBSET entries[w] :
       /\ VisitEphemeron(w, color, gray, ephemeron, early)
       /\ atom' = [atom EXCEPT !.eph = @ \ {w},
                               !.changed = \/ @
                                           \/ MarksValue(early, color)
                                           \/ MarksValue(entries[w] \ early,
                                                Marked(VisitMarks(early, color), color))]
  /\ UNCHANGED <<listVars, currentwhite, gcstate, gcfinnum, sweepVars, weak,
                 refVars, funcVars, stackVars, cstack>>

Converged(pc) == atom.pc = pc /\ gray = {} /\ atom.eph = {} /\ ~atom.changed

(* Faulty variant of Cleared: objects with a finalizer are not cleared.    *)
ClearedUnpending(x) == Weakable(x) /\ IsWhite(x) /\ x \notin finbit

(* iscleared: a collectable object, not a string, that is still white.     *)
Cleared(x) == Weakable(x) /\ IsWhite(x)

(* clearvalues of the weak tables, separatetobefnz and markbeingfnz.       *)
Separate ==
  /\ Converged("eph1")
  /\ entries' = [t \in Tables |-> IF t \in weak \union allweak
                                  THEN {e \in entries[t] : ~Cleared(e[2])} ELSE entries[t]]
  /\ LET S  == {o \in finobj : IsWhite(o)}
         c1 == Marked(UNION {Values(t) \intersect Strings : t \in weak \union allweak}, color)
     IN  /\ finobj' = finobj \ S
         /\ tobefnz' = tobefnz \union S
         /\ Mark(tobefnz \union S, c1, gray)
  /\ gcfinnum' = TRUE
  /\ atom' = [At("prop2") EXCEPT !.origweak = weak, !.origall = allweak]
  /\ UNCHANGED <<quietVars, currentwhite, gcstate, grayagain, weak, ephemeron, allweak,
                 cache, uv, stale, twups, strcache>>

(* clearkeys, clearvalues of the tables resurrected since, luaS_clearcache *)
(* and the flip of the current white.                                      *)
AtomicFinish ==
  /\ Converged("eph2")
  /\ LET K  == ephemeron \union allweak
         V  == (weak \ atom.origweak) \union (allweak \ atom.origall)
         E1 == [t \in Tables |-> IF t \in K THEN {e \in entries[t] : ~Cleared(e[1])}
                                 ELSE entries[t]]
         S  == (UNION {Keys(t) \intersect Strings : t \in K})
                 \union (UNION {{e[2] : e \in E1[t]} \intersect Strings : t \in V})
     IN  /\ entries' = [t \in Tables |-> IF t \in V THEN {e \in E1[t] : ~Cleared(e[2])}
                                         ELSE E1[t]]
         /\ color' = Marked(S, color)
  /\ strcache' = {s \in strcache : color'[s] \notin Whites}
  /\ currentwhite' = otherwhite
  /\ atom' = [Idle EXCEPT !.pc = "enter"]
  /\ UNCHANGED <<quietVars, finobj, tobefnz, gcstate, gcfinnum, grayVars, cache, uv, stale, twups>>

(***************************************************************************)
(* Sweep phase.                                                            *)
(***************************************************************************)
Batch(S, n) == {C \in SUBSET S : \/ Cardinality(C) = n
                                 \/ C = S /\ Cardinality(S) < n}

(* entersweep, after atomic() or at the start of a full collection.        *)
EnterSweep ==
  /\ atom.pc = "enter"
  /\ gcstate' = "swpallgc"
  /\ atom' = Idle
  /\ \E C \in Batch(allgc, 1) :
       /\ Advance(C, allgc, "allgc")
       /\ color' = Swept(C, color)
       /\ mt' = Erase(Dead(C), mt, Nil)
       /\ Collect(C)
  /\ UNCHANGED <<currentwhite, gcfinnum, grayVars, basemt, running, resumer, twups,
                 strcache, cstack>>

(* sweepstep: one batch of the current list; at its end, the next state.   *)
NextSweep(state) ==
  CASE state = "swpallgc"   -> <<"swpfinobj", "finobj">>
    [] state = "swpfinobj"  -> <<"swptobefnz", "tobefnz">>
    [] state = "swptobefnz" -> <<"swpend", "NULL">>

SweepStep ==
  /\ gcstate \in {"swpallgc", "swpfinobj", "swptobefnz"}
  /\ SingleStep(cstack')
  /\ \E C \in Batch(ToSweep, GCSWEEPMAX) :
       /\ \E p \in IF sweepgc = "NULL" THEN {"NULL"} ELSE AfterSweep(C, ToSweep, sweepgc) :
            /\ gcstate' = IF p = "NULL" THEN NextSweep(gcstate)[1] ELSE gcstate
            /\ sweepgc' = IF p = "NULL" THEN NextSweep(gcstate)[2] ELSE p
       /\ unswept' = IF sweepgc' \in Obj THEN ToSweep \ C ELSE {}
       /\ color' = Swept(C, color)
       /\ mt' = Erase(Dead(C), mt, Nil)
       /\ Collect(C)
  /\ UNCHANGED <<currentwhite, gcfinnum, atom, grayVars, basemt, running, resumer, twups,
                 strcache>>

(* singlestep in GCSswpend.                                                *)
SweepEnd ==
  /\ gcstate = "swpend"
  /\ SingleStep(cstack')
  /\ color' = [color EXCEPT ![MainThread] = currentwhite]
  /\ gcstate' = "callfin"
  /\ UNCHANGED <<listVars, currentwhite, gcfinnum, atom, sweepVars, grayVars, refVars, funcVars,
                 stackVars>>

(***************************************************************************)
(* Finalizers.                                                             *)
(***************************************************************************)
(* GCTM with udata2finalize, called with the C stack cs.  The object goes  *)
(* back to allgc; if the sweep pointer is at it, what follows it is now    *)
(* the rest of allgc.  The finalizer, if there still is one, is called     *)
(* with the object in the stack.                                           *)
GCTM(o, cs) ==
  /\ o \in tobefnz
  /\ tobefnz' = tobefnz \ {o}
  /\ allgc' = allgc \union {o}
  /\ finbit' = finbit \ {o}
  /\ color' = IF issweepphase THEN [color EXCEPT ![o] = currentwhite] ELSE color
  /\ unswept' = IF sweepgc = o THEN allgc ELSE unswept \ {o}
  /\ IF mt[o] # Nil /\ mt[o] \in HasGC
     THEN /\ cstack' = Append(cs, [kind |-> "fin", th |-> L, base |-> stk[L],
                                   open |-> OpenUpvals(L)])
          /\ Push(o)
     ELSE cstack' = cs /\ UNCHANGED <<stk, stale>>
  /\ UNCHANGED <<finobj, currentwhite, gcstate, gcfinnum, atom, sweepgc, grayVars, refVars,
                 funcVars, running, resumer, twups, strcache>>

(* singlestep in GCScallfin: runafewfinalizers.                            *)
CallFin(o) ==
  /\ gcstate = "callfin" /\ ~Emergency /\ gcfinnum
  /\ \E cs \in {cstack, Pushed(StepFrame)} :
       SingleStep(cs) /\ GCTM(o, Append(cs, FewFrame))

(* singlestep in GCScallfin: nothing to finalize, or emergency mode.       *)
Pause ==
  /\ gcstate = "callfin"
  /\ tobefnz = {} \/ Emergency
  /\ SingleStep(cstack')
  /\ gcstate' = "pause"
  /\ UNCHANGED <<color, listVars, currentwhite, gcfinnum, atom, sweepVars, grayVars, refVars,
                 funcVars, stackVars>>

(* The loop of runafewfinalizers goes on...                                *)
FewMore(o) ==
  /\ TopIs("few") /\ gcfinnum
  /\ GCTM(o, cstack)

(* Faulty variant of FewEnd: gcfinnum becomes 0 whatever is pending.        *)
FewEndResets ==
  /\ TopIs("few")
  /\ gcfinnum' = FALSE
  /\ cstack' = Dropped
  /\ UNCHANGED <<color, listVars, currentwhite, gcstate, atom, sweepVars, grayVars, refVars,
                 funcVars, stackVars>>

(* ... or ends; gcfinnum is doubled or becomes 0.                          *)
FewEnd ==
  /\ TopIs("few")
  /\ gcfinnum' = (gcfinnum /\ tobefnz # {})
  /\ cstack' = Dropped
  /\ UNCHANGED <<color, listVars, currentwhite, gcstate, atom, sweepVars, grayVars, refVars,
                 funcVars, stackVars>>

(* The end of luaC_step: out of the pause it runs a few finalizers.        *)
StepFinalizers(o) ==
  /\ TopIs("step") /\ Idling
  /\ gcstate # "pause" /\ gcfinnum
  /\ GCTM(o, Replaced(FewFrame))

StepEnd ==
  /\ TopIs("step") /\ Idling
  /\ gcstate = "pause" \/ tobefnz = {} \/ ~gcfinnum
  /\ gcfinnum' = IF gcstate = "pause" THEN gcfinnum ELSE FALSE
  /\ cstack' = Dropped
  /\ UNCHANGED <<color, listVars, currentwhite, gcstate, atom, sweepVars, grayVars, refVars,
                 funcVars, stackVars>>

(* The finalizer returns, or luaD_pcall ends it: its slots are popped, its *)
(* upvalues closed.  With an error GCTM throws through the C functions     *)
(* down to the program that called them, the innermost finalizer below or  *)
(* the main program.                                                       *)
ToProgram(j) ==
  /\ j # 0 => cstack[j].kind = "fin"
  /\ \A k \in (j + 1)..(Len(cstack) - 1) : cstack[k].kind # "fin"

FinalizerEnd ==
  /\ TopIs("fin") /\ Top.th = L
  /\ LET U == OpenUpvals(L) \ Top.open
     IN  /\ uv' = Closed(U)
         /\ UpvalBarrier(ClosedValues(U))
         /\ stk' = [stk EXCEPT ![L] = Top.base]
         /\ \E x \in (stk[L] \ Top.base) \union {uv[u].v : u \in U} \union {Nil} :
              stale' = [stale EXCEPT ![L] = Left(x)]
  /\ \/ cstack' = Dropped
     \/ \E j \in 0..(Len(cstack) - 1) : ToProgram(j) /\ cstack' = SubSeq(cstack, 1, j)
  /\ UNCHANGED <<listVars, phaseVars, sweepVars, grayagain, weak, ephemeron, allweak, refVars,
                 clp, upv, cache, running, resumer, twups, strcache>>

(***************************************************************************)
(* luaC_fullgc: black objects are swept back to white first; then the      *)
(* current cycle is finished and a whole one is run.                       *)
(***************************************************************************)
FullGC(emergency) ==
  /\ CanCall
  /\ cstack' = Pushed(FullFrame(emergency))
  /\ atom' = IF keepinvariant THEN At("enter") ELSE atom
  /\ UNCHANGED <<color, listVars, currentwhite, gcstate, gcfinnum, sweepVars, grayVars, refVars,
                 funcVars, stackVars>>

(* Faulty variant of FullEnd: it ends as soon as the state is GCSpause.     *)
FullEndEarly ==
  /\ TopIs("full") /\ Idling
  /\ gcstate = "pause"
  /\ cstack' = Dropped
  /\ UNCHANGED <<color, listVars, phaseVars, sweepVars, grayVars, refVars, funcVars, stackVars>>

FullEnd ==
  /\ TopIs("full") /\ Top.begun /\ Idling
  /\ gcstate = "pause"
  /\ cstack' = Dropped
  /\ UNCHANGED <<color, listVars, phaseVars, sweepVars, grayVars, refVars, funcVars, stackVars>>

Atomic ==
  \/ AtomicEnter \/ PropagateAll \/ AtomicStart
  \/ \E th \in twups : RemarkUpvals(th)
  \/ RemarkDone \/ GrayAgain \/ ConvergeRound
  \/ \E w \in Tables : ConvergeVisit(w)
  \/ Separate \/ AtomicFinish

Sweeping == EnterSweep \/ SweepStep \/ SweepEnd

Finalizing ==
  \/ \E o \in tobefnz : CallFin(o) \/ FewMore(o) \/ StepFinalizers(o)
  \/ FewEnd \/ Pause

CollectorStep ==
  \/ Restart \/ PropagateStep \/ Atomic \/ Sweeping \/ Finalizing
  \/ StepEnd \/ FullEnd
=============================================================================
