----------------------------- MODULE LuaSafety -----------------------------
(***************************************************************************)
(* Why the collector never frees what the program can still find: the      *)
(* inductive invariant behind NoDanglingRef and HeapSound, phase by phase. *)
(***************************************************************************)
EXTENDS LuaGC

(***************************************************************************)
(* What the theorems assume of the program.  Section 7 of the README tells *)
(* what happens otherwise.                                                 *)
(***************************************************************************)
(* A table that is given an all-weak metatable is given no other one.      *)
OneAllWeakMeta ==
  \A a, b \in Metas : a[1] = b[1] /\ a[2] # Nil /\ WeakMode[a[2]] = "kv" => b[2] \in {a[2], Nil}

(* The same, and its metatable is not taken away either: such a table      *)
(* would be left untraversed with entries that are strong by now.          *)
AllWeakStays ==
  \A a, b \in Metas : a[1] = b[1] /\ a[2] # Nil /\ WeakMode[a[2]] = "kv" => b[2] = a[2]

(* Never more objects wait for their finalizers than one step sweeps.      *)
FewPending == Cardinality(tobefnz) <= GCSWEEPMAX

(***************************************************************************)
(* The references of an object, field by field, lead into S.               *)
(***************************************************************************)
In(x, S) == x \in Obj => x \in S

KeysIn(t, S)   == \A e \in entries[t] : In(e[1], S)
ValuesIn(t, S) == \A e \in entries[t] : In(e[2], S)

StackIn(th, S) == stk[th] \subseteq S /\ \A u \in UpVals : uv[u].th = th => In(uv[u].v, S)

(* All but the value of a Lua closure's upvalue.                           *)
BaseIn(o, S) ==
  /\ o \in Tables    => In(mt[o], S) /\ KeysIn(o, S) /\ ValuesIn(o, S)
  /\ o \in Udatas    => In(mt[o], S) /\ In(val[o], S)
  /\ o \in CClosures => In(val[o], S)
  /\ o \in LClosures => In(clp[o], S)
  /\ o \in Protos    => In(cache[o], S)
  /\ o \in Threads   => StackIn(o, S) /\ In(stale[o], S)

FieldsIn(o, S) == BaseIn(o, S) /\ (o \in LClosures /\ upv[o] # Nil => In(uv[upv[o]].v, S))

GrayOnes == {o \in Obj : color[o] = "gray"}
Reached  == {o \in Obj : color[o] \in {"gray", "black"}}

(***************************************************************************)
(* The phases.                                                             *)
(***************************************************************************)
Resting == gcstate \in {"callfin", "pause"}

(* Inside atomic(), until it flips the current white.                      *)
Remarking == gcstate = "insideatomic" /\ atom.pc # "enter"

(* Until the flip: what is white may still be reached.                     *)
Marking == keepinvariant \/ Remarking

PhasesOK ==
  /\ atom.pc # "idle" => TopIs("step") \/ TopIs("full")
  /\ atom.pc = "pre" => gcstate = "atomic"
  /\ atom.pc \in {"remark", "prop1", "again", "eph1", "prop2", "eph2"} => gcstate = "insideatomic"
  /\ atom.pc = "enter" => gcstate \in {"propagate", "atomic", "insideatomic"}
  /\ atom.pc = "idle" => gcstate # "insideatomic"
  /\ atom.pc \notin {"remark", "prop1"} => atom.again = {}
  /\ atom.pc \notin {"eph1", "eph2"} => atom.eph = {}

(***************************************************************************)
(* At all times.                                                           *)
(***************************************************************************)
KeptOK ==
  /\ {MainThread, running, Registry} \subseteq NotDead
  /\ In(basemt, NotDead)
  /\ tobefnz \subseteq NotDead /\ strcache \subseteq NotDead /\ twups \subseteq NotDead
  /\ \A o \in NotDead : FieldsIn(o, NotDead)

(* A block that is not handed out refers to nothing, so that a new object  *)
(* does not either.                                                        *)
FreeOK ==
  \A o \in Obj : color[o] = "free" =>
    /\ BaseIn(o, {})
    /\ o \in LClosures => upv[o] = Nil
    /\ \A u \in UpVals : uv[u].th # o

ClosuresOK == \A c \in LClosures : color[c] # "free" => clp[c] \in Protos /\ upv[c] \in UpVals

(* Threads are never black, strings and userdata never gray.               *)
KindsOK == \A o \in Obj : (o \in Threads => color[o] # "black") /\ (o \in Leaves => color[o] # "gray")

(* Only what can be given a metatable can have a finalizer.                *)
MetasOK ==
  /\ \A o \in Tables \union Udatas : mt[o] # Nil => <<o, mt[o]>> \in Metas
  /\ finobj \union tobefnz \subseteq Tables \union Udatas

WhitesOK ==
  /\ Resting => \A o \in Obj : color[o] \in {"free", currentwhite}
  /\ Marking => \A o \in Obj : color[o] # otherwhite

TwupsOK ==
  gcstate # "insideatomic" \/ atom.pc = "enter" =>
    \A u \in UpVals : IsOpen(u) /\ uv[u].th \in NotDead => uv[u].th \in twups

(* The threads that have resumed one another up to the running one: each   *)
(* is in the stack of the one that resumed it, from the main thread on.    *)
Active(th) == th = MainThread \/ resumer[th] # Nil

ThreadsOK ==
  /\ Active(running) /\ resumer[MainThread] = Nil
  /\ \A th \in Threads : resumer[th] # Nil =>
       Active(resumer[th]) /\ th \in stk[resumer[th]] /\ resumer[th] # running
  /\ \A a, b \in Threads : resumer[a] = resumer[b] /\ resumer[a] # Nil => a = b
  /\ \A S \in SUBSET Threads :
       (MainThread \in S /\ \A th \in Threads : resumer[th] \in S => th \in S)
         => \A th \in Threads : Active(th) => th \in S
  /\ \A th \in Threads : Active(th) => th \in NotDead

(* What finalizers find in the stack below them stays there.               *)
FramesOK ==
  /\ \A i \in 1..Len(cstack) : cstack[i].kind = "fin" =>
       Active(cstack[i].th) /\ cstack[i].base \subseteq stk[cstack[i].th]
  /\ \A i, j \in 1..Len(cstack) :
       i < j /\ cstack[i].kind = "fin" /\ cstack[j].kind = "fin" /\ cstack[i].th = cstack[j].th
         => cstack[i].base \subseteq cstack[j].base

(***************************************************************************)
(* The mark phase.                                                         *)
(***************************************************************************)
(* The value of an open upvalue waits for the atomic phase: remarkupvals   *)
(* marks it, or the traversal of its thread.                               *)
UpvalueOK(c) ==
  LET u == upv[c]
  IN  IF ~IsOpen(u) THEN In(uv[u].v, Reached)
      ELSE IF keepinvariant THEN uv[u].touched
      ELSE \/ In(uv[u].v, Reached)
           \/ uv[u].th \in Reached
           \/ atom.pc = "remark" /\ uv[u].touched /\ uv[u].th \in twups

BlackOK ==
  Marking => \A o \in Obj : color[o] = "black" =>
               BaseIn(o, Reached) /\ (o \in LClosures => UpvalueOK(o))

(* Between two steps of the mark phase each gray object is in one list;    *)
(* those of allweak are done but for their metatable.                      *)
AllWeakOK(t) ==
  \E m \in Tables : <<t, m>> \in Metas /\ WeakMode[m] = "kv" /\ m \in Reached

GrayIdleOK ==
  keepinvariant /\ Idling =>
    /\ GrayOnes = gray \union grayagain \union allweak
    /\ gray \intersect grayagain = {} /\ gray \intersect allweak = {} /\ grayagain \intersect allweak = {}
    /\ weak = {} /\ ephemeron = {}
    /\ \A t \in allweak : AllWeakOK(t)

(* In the atomic phase: what is still to be traversed, and what is known   *)
(* of a gray object that is not.                                           *)
Atomically == atom.pc = "pre" \/ Remarking

Again == IF atom.pc = "pre" THEN grayagain ELSE atom.again
Work  == gray \union Again

Visited(o) ==
  \/ /\ o \in Threads /\ Remarking
     /\ StackIn(o, Reached) /\ stale[o] = Nil
     /\ (\E u \in UpVals : uv[u].th = o) => o \in twups
  \/ /\ o \in Tables
     /\ In(mt[o], Reached)
     /\ \/ o \in allweak
        \/ o \in ephemeron \union atom.eph
        \/ o \in weak /\ KeysIn(o, Reached)
        \/ KeysIn(o, Reached) /\ ValuesIn(o, Reached)

GrayAtomicOK ==
  Atomically =>
    /\ Work \subseteq GrayOnes /\ gray \intersect Again = {}
    /\ \A o \in GrayOnes \ Work : Visited(o)

RootsOK ==
  /\ Marking => MainThread \in Reached /\ tobefnz \subseteq Reached
  /\ Remarking => {running, Registry} \subseteq Reached /\ In(basemt, Reached)
  /\ Remarking /\ atom.pc # "remark" => twups \subseteq Reached

(* convergeephemerons: when a round has marked nothing, no ephemeron that  *)
(* it has visited has a marked key with a white value.                     *)
Settled(t) == \A e \in entries[t] : KeyMarked(e, color) => ~ValueWhite(e, color)

ConvergenceOK ==
  /\ atom.pc \in {"eph1", "eph2"} /\ ~atom.changed => gray = {} /\ \A t \in ephemeron : Settled(t)
  /\ atom.pc \in {"prop2", "eph2"} =>
       \A t \in atom.origweak \union atom.origall : ValuesIn(t, Reached)

(***************************************************************************)
(* The sweep phase: what has not the current white is still ahead.         *)
(***************************************************************************)
Ahead ==
  CASE gcstate = "swpallgc"   -> ToSweep \union finobj \union tobefnz
    [] gcstate = "swpfinobj"  -> ToSweep \union tobefnz
    [] gcstate = "swptobefnz" -> ToSweep
    [] OTHER                  -> {}

SweepListOK(name, list) ==
  /\ sweepgc \in {name, "NULL"} \union (list \intersect NotDead)
  /\ unswept \subseteq IF sweepgc \in Obj THEN list \ {sweepgc} ELSE {}

SweepOK2 ==
  /\ ~issweepphase => sweepgc = "NULL" /\ unswept = {}
  /\ gcstate = "swpallgc"   => SweepListOK("allgc", allgc)
  /\ gcstate = "swpfinobj"  => SweepListOK("finobj", finobj)
  /\ gcstate = "swptobefnz" => sweepgc = "tobefnz" /\ unswept = {}
  /\ gcstate = "swpend"     => sweepgc = "NULL" /\ unswept = {}
  /\ issweepphase => \A o \in Obj : color[o] \in {"free", currentwhite} \/ o \in Ahead \union {MainThread}

SafetyInv ==
  /\ PhasesOK /\ KeptOK /\ FreeOK /\ ClosuresOK /\ KindsOK /\ MetasOK /\ WhitesOK
  /\ ListsPartition /\ TwupsOK /\ ThreadsOK /\ FramesOK
  /\ BlackOK /\ GrayIdleOK /\ GrayAtomicOK /\ RootsOK /\ ConvergenceOK
  /\ SweepOK2

(***************************************************************************)
(* What the collector clears and finalizes: the weak lists hold tables of  *)
(* the mode they stand for; a table with weak keys is in allweak when all  *)
(* its values are marked.                                                  *)
(***************************************************************************)
ValuesMarked(t) == \A e \in entries[t] : ~ValueWhite(e, color)

ModesOK ==
  /\ keepinvariant /\ Idling => \A t \in allweak : Mode(t) = "kv"
  /\ Atomically =>
       /\ \A t \in weak : Mode(t) = "v"
       /\ \A t \in ephemeron \union atom.eph : Mode(t) = "k"
       /\ \A t \in allweak : Mode(t) = "kv" \/ (Mode(t) = "k" /\ ValuesMarked(t))
=============================================================================
