-------------------------- MODULE LuaMutatorProofs --------------------------
(***************************************************************************)
(* The program keeps SafetyInv: every operation of the API and of the      *)
(* virtual machine, between any two steps of the collector.                *)
(***************************************************************************)
EXTENDS LuaSafety, LuaHeapProofs

(***************************************************************************)
(* Kinds and colours.                                                      *)
(***************************************************************************)
(* Where each kind of object is, and what is no object.                    *)
LEMMA Kinds ==
  /\ Tables \subseteq Obj /\ Udatas \subseteq Obj /\ Strings \subseteq Obj /\ Protos \subseteq Obj
  /\ CClosures \subseteq Obj /\ LClosures \subseteq Obj /\ Threads \subseteq Obj
  /\ Coroutines \subseteq Threads /\ MainThread \in Threads /\ MainThread \notin Coroutines
  /\ Registry \in Tables /\ Leaves \subseteq Obj
  /\ Nil \notin Obj /\ Num \notin Obj /\ Nil \notin UpVals
  /\ {"allgc", "finobj", "tobefnz", "NULL", "closed", "free"} \intersect Obj = {}
  BY KindsDisjoint, NoClash DEF Obj, Threads, Leaves

(* An object is of one kind.                                               *)
LEMMA OneKind ==
  ASSUME NEW o
  PROVE  /\ o \in Tables => /\ o \notin Udatas /\ o \notin Strings /\ o \notin Protos
                            /\ o \notin CClosures /\ o \notin LClosures /\ o \notin Threads
         /\ o \in Udatas => /\ o \notin Strings /\ o \notin Protos
                            /\ o \notin CClosures /\ o \notin LClosures /\ o \notin Threads
         /\ o \in Strings => /\ o \notin Protos /\ o \notin CClosures
                             /\ o \notin LClosures /\ o \notin Threads
         /\ o \in Protos => o \notin CClosures /\ o \notin LClosures /\ o \notin Threads
         /\ o \in CClosures => o \notin LClosures /\ o \notin Threads
         /\ o \in LClosures => o \notin Threads
         /\ o \in Leaves <=> o \in Udatas \/ o \in Strings
  BY KindsDisjoint DEF Leaves

(* The whites.                                                             *)
LEMMA ColorFacts ==
  ASSUME TypeOK
  PROVE  /\ color \in [Obj -> Colors] /\ currentwhite \in Whites /\ otherwhite \in Whites
         /\ otherwhite # currentwhite
         /\ Whites = {currentwhite, otherwhite}
         /\ "free" \notin Whites /\ "gray" \notin Whites /\ "black" \notin Whites
         /\ NotDead = {o \in Obj : color[o] # "free" /\ color[o] # otherwhite}
         /\ Reached \subseteq NotDead
         /\ NotDead \subseteq Obj
         /\ Alloc = {o \in Obj : color[o] # "free"}
  BY DEF TypeOK, ListsOK, PhaseOK, Whites, otherwhite, NotDead, Alloc, IsDead, Reached

(* The same after a step.                                                  *)
(* The same after a step.                                                  *)
LEMMA ColorFactsNext ==
  ASSUME TypeOK'
  PROVE  /\ color' \in [Obj -> Colors] /\ currentwhite' \in Whites /\ otherwhite' \in Whites
         /\ otherwhite' # currentwhite'
         /\ Whites = {currentwhite', otherwhite'}
         /\ NotDead' = {o \in Obj : color'[o] # "free" /\ color'[o] # otherwhite'}
         /\ Reached' \subseteq NotDead'
         /\ NotDead' \subseteq Obj
         /\ Alloc' = {o \in Obj : color'[o] # "free"}
  BY DEF TypeOK, ListsOK, PhaseOK, Whites, otherwhite, NotDead, Alloc, IsDead, Reached

(* Field by field or all together: what an object refers to.               *)
LEMMA RefsIn ==
  ASSUME TypeOK, NEW S, NEW o \in Obj
  PROVE  Refs(o) \subseteq S <=> FieldsIn(o, S)
<1>. USE OneKind DEF FieldsIn, BaseIn, Refs, Objs, In
<1>1. CASE o \in Tables
  BY <1>1 DEF KeysIn, ValuesIn, Keys, Values
<1>2. CASE o \in Udatas
  BY <1>2
<1>3. CASE o \in CClosures
  BY <1>3
<1>4. CASE o \in LClosures
  BY <1>4, Kinds DEF UpvalueOf
<1>5. CASE o \in Protos
  BY <1>5
<1>6. CASE o \in Threads
  BY <1>6 DEF StackIn, StackRefs, OpenUpvals, TypeOK, StackOK
<1>7. CASE o \in Strings
  BY <1>7
<1>. QED  BY <1>1, <1>2, <1>3, <1>4, <1>5, <1>6, <1>7 DEF Obj

(* What NoDanglingRef says, field by field.                                *)
LEMMA KeptRefs ==
  ASSUME TypeOK, KeptOK
  PROVE  /\ NoDanglingRef
         /\ \A o \in NotDead : Refs(o) \subseteq NotDead
<1>1. \A o \in NotDead : Refs(o) \subseteq NotDead
  BY RefsIn, ColorFacts DEF KeptOK
<1>2. Roots \subseteq NotDead
  BY DEF KeptOK, Roots, Objs, In
<1>. QED  BY <1>1, <1>2 DEF NoDanglingRef, KeptOK

(***************************************************************************)
(* Operations on stacks: what they push is kept.                           *)
(***************************************************************************)
LEMMA StackStep ==
  ASSUME TypeOK, TypeOK', KeptOK, FreeOK,
         UNCHANGED <<color, currentwhite, tobefnz, refVars, funcVars, twups, strcache>>,
         running' \in NotDead,
         \A th \in Threads :
           \/ stk'[th] = stk[th] /\ stale'[th] = stale[th]
           \/ th \in NotDead /\ stk'[th] \subseteq NotDead /\ In(stale'[th], NotDead)
  PROVE  KeptOK' /\ FreeOK'
<1>1. NotDead' = NotDead /\ (\A o \in Obj : o \in NotDead => color[o] # "free")
  BY DEF NotDead, Alloc, IsDead, otherwhite
<1>2. ASSUME NEW o \in Obj, NEW S, BaseIn(o, S), o \in Threads => S = NotDead
      PROVE  o \notin Threads \/ o \in NotDead => BaseIn(o, S)'
  BY <1>1, <1>2, OneKind DEF BaseIn, StackIn, KeysIn, ValuesIn, In, refVars, funcVars
<1>3. ASSUME NEW o \in NotDead PROVE FieldsIn(o, NotDead)'
  BY <1>1, <1>2, ColorFacts DEF FieldsIn, KeptOK, In, funcVars
<1>4. ASSUME NEW o \in Obj, color[o] = "free" PROVE BaseIn(o, {})'
  <2>1. BaseIn(o, {}) /\ o \notin NotDead
    BY <1>1, <1>4 DEF FreeOK
  <2>2. o \in Threads => stk'[o] = stk[o] /\ stale'[o] = stale[o]
    BY <2>1
  <2>. QED  BY <2>1, <2>2 DEF BaseIn, StackIn, KeysIn, ValuesIn, In, refVars, funcVars
<1>5. KeptOK'
  BY <1>1, <1>3 DEF KeptOK, In, refVars
<1>6. FreeOK'
  BY <1>4 DEF FreeOK, funcVars
<1>. QED  BY <1>5, <1>6

(* What the program can use is kept.                                       *)
LEMMA KeptOperands ==
  ASSUME TypeOK, KeptOK
  PROVE  /\ stk[L] \subseteq NotDead /\ Held \subseteq NotDead
         /\ \A v \in Operand : In(v, NotDead)
         /\ In(stale[L], NotDead) /\ In(basemt, NotDead)
         /\ \A v \in Values(Registry) : In(v, NotDead)
         /\ \A o \in NotDead : Readable(o) \subseteq NotDead
<1>1. L \in NotDead /\ L \in Threads /\ Registry \in NotDead /\ Registry \in Tables
  BY Kinds DEF KeptOK, L, TypeOK, StackOK
<1>2. FieldsIn(L, NotDead) /\ FieldsIn(Registry, NotDead)
  BY <1>1 DEF KeptOK
<1>3. stk[L] \subseteq NotDead /\ In(stale[L], NotDead)
  BY <1>1, <1>2 DEF FieldsIn, BaseIn, StackIn
<1>4. \A v \in Values(Registry) : In(v, NotDead)
  BY <1>1, <1>2 DEF FieldsIn, BaseIn, ValuesIn, Values
<1>5. Held \subseteq NotDead
  BY <1>1, <1>3, <1>4, Kinds DEF Held, In
<1>6. \A v \in Operand : In(v, NotDead)
  BY <1>3, Kinds DEF Operand, In
<1>7. ASSUME NEW o \in NotDead PROVE Readable(o) \subseteq NotDead
  <2>1. Refs(o) \subseteq NotDead /\ o \in Obj
    BY KeptRefs, ColorFacts
  <2>2. CASE o \in LClosures
    <3>1. Objs({UpvalueOf(o)}) \subseteq Refs(o)
      BY <2>2, OneKind DEF Refs, Objs
    <3>. QED  BY <2>1, <2>2, <3>1 DEF Readable
  <2>3. CASE o \in Protos \union Threads
    BY <2>3, OneKind DEF Readable
  <2>4. CASE o \notin LClosures \union Protos \union Threads
    BY <2>1, <2>4 DEF Readable
  <2>. QED  BY <2>2, <2>3, <2>4
<1>. QED  BY <1>3, <1>4, <1>5, <1>6, <1>7 DEF KeptOK

(* While the program runs, no step of the atomic phase is under way.       *)
LEMMA MutatorIdle ==
  ASSUME PhasesOK, MutatorOn PROVE Idling /\ ~Remarking
  BY DEF PhasesOK, MutatorOn, TopIs, Idling, Remarking

(* What then needs no proof.                                               *)
LEMMA IdleStep ==
  ASSUME PhasesOK, Idling, UNCHANGED <<gcstate, atom>>
  PROVE  PhasesOK' /\ GrayAtomicOK' /\ ConvergenceOK' /\ ~Remarking /\ ~Remarking' /\ Idling'
  BY DEF PhasesOK, Idling, GrayAtomicOK, Atomically, ConvergenceOK, Remarking

(* Parts of the invariant about colours and lists only.                    *)
LEMMA SameLists ==
  ASSUME UNCHANGED <<color, listVars, gcstate, currentwhite, atom, sweepVars, grayVars>>
  PROVE  /\ KindsOK => KindsOK'
         /\ WhitesOK => WhitesOK'
         /\ ListsPartition => ListsPartition'
         /\ GrayIdleOK => GrayIdleOK'
         /\ SweepOK2 => SweepOK2'
         /\ NotDead' = NotDead /\ Reached' = Reached
<1>. USE DEF listVars, sweepVars, grayVars
<1>1. /\ NotDead' = NotDead /\ Reached' = Reached /\ Alloc' = Alloc
      /\ otherwhite' = otherwhite
      /\ GrayOnes' = GrayOnes
      /\ ToSweep' = ToSweep
  BY DEF NotDead, Alloc, IsDead, otherwhite, Reached, GrayOnes, ToSweep
<1>2. KindsOK => KindsOK'
  BY DEF KindsOK
<1>3. WhitesOK => WhitesOK'
  BY <1>1 DEF WhitesOK, Resting, Marking, keepinvariant, Remarking
<1>4. ListsPartition => ListsPartition'
  BY <1>1 DEF ListsPartition
<1>5. GrayIdleOK => GrayIdleOK'
  BY <1>1 DEF GrayIdleOK, keepinvariant, Idling, AllWeakOK
<1>6. SweepOK2 => SweepOK2'
  BY <1>1 DEF SweepOK2, issweepphase, SweepListOK, Ahead
<1>. QED  BY <1>1, <1>2, <1>3, <1>4, <1>5, <1>6

(* The chain of resumed threads needs only what lies below in their stacks.*)
LEMMA ThreadsKept ==
  ASSUME TypeOK, ThreadsOK, UNCHANGED <<resumer, running>>, NotDead \subseteq NotDead',
         \A th \in Threads : Active(th) /\ th # running => stk[th] \subseteq stk'[th]
  PROVE  ThreadsOK'
<1>1. \A th : Active(th)' <=> Active(th)
  BY DEF Active
<1>2. \A th \in Threads : resumer[th] # Nil => resumer[th] \in Threads
  BY DEF TypeOK, StackOK
<1>. QED  BY <1>1, <1>2 DEF ThreadsOK

(* The frames of the finalizers are those of threads.                      *)
LEMMA FinFrame ==
  ASSUME TypeOK, NEW i \in 1..Len(cstack), cstack[i].kind = "fin"
  PROVE  /\ cstack[i].th \in Threads /\ cstack[i].base \subseteq Obj
         /\ cstack[i] \in FinFrames(cstack[i].th)
<1>1. cstack[i] \in Frame
  BY DEF TypeOK, StackOK
<1>2. cstack[i].th \in Threads /\ cstack[i].base \subseteq Obj
  BY <1>1 DEF Frame
<1>3. cstack[i] \in RangeOf(cstack)
  BY DEF TypeOK, StackOK, RangeOf
<1>. QED  BY <1>2, <1>3 DEF FinFrames

(* Below the finalizers the stacks lose nothing when what is popped lies   *)
(* above them.                                                             *)
LEMMA FramesKept ==
  ASSUME TypeOK, FramesOK, UNCHANGED cstack,
         \A th \in Threads : stk[th] \ stk'[th] \subseteq Poppable(th),
         \A th \in Threads : FinFrames(th) # {} => (Active(th) => Active(th)')
  PROVE  FramesOK'
<1>1. ASSUME NEW i \in 1..Len(cstack), cstack[i].kind = "fin"
      PROVE  Active(cstack[i].th)' /\ cstack[i].base \subseteq stk'[cstack[i].th]
  <2>1. /\ cstack[i].th \in Threads /\ cstack[i] \in FinFrames(cstack[i].th)
        /\ Active(cstack[i].th) /\ cstack[i].base \subseteq stk[cstack[i].th]
    BY <1>1, FinFrame DEF FramesOK
  <2>2. cstack[i].base \subseteq stk'[cstack[i].th]
    BY <2>1 DEF Poppable
  <2>. QED  BY <2>1, <2>2
<1>2. FramesOK' <=>
        /\ \A i \in 1..Len(cstack) : cstack[i].kind = "fin" =>
             Active(cstack[i].th)' /\ cstack[i].base \subseteq stk'[cstack[i].th]
        /\ \A i, j \in 1..Len(cstack) :
             i < j /\ cstack[i].kind = "fin" /\ cstack[j].kind = "fin" /\ cstack[i].th = cstack[j].th
               => cstack[i].base \subseteq cstack[j].base
  BY DEF FramesOK, Active
<1>. QED  BY <1>1, <1>2 DEF FramesOK

(* What only changes stacks, or who runs.                                  *)
LEMMA StackSafe ==
  ASSUME TypeOK, TypeOK', SafetyInv, MutatorOn,
         UNCHANGED <<color, listVars, phaseVars, sweepVars, grayVars, refVars, funcVars,
                     twups, strcache, cstack>>,
         running' \in NotDead,
         \A th \in Threads :
           \/ stk'[th] = stk[th] /\ stale'[th] = stale[th]
           \/ th \in NotDead /\ stk'[th] \subseteq NotDead /\ In(stale'[th], NotDead),
         ThreadsOK', FramesOK'
  PROVE  SafetyInv'
<1>. USE DEF SafetyInv
<1>1. KeptOK' /\ FreeOK'
  BY StackStep DEF phaseVars, listVars
<1>2. /\ KindsOK' /\ WhitesOK' /\ ListsPartition' /\ GrayIdleOK' /\ SweepOK2'
      /\ NotDead' = NotDead /\ Reached' = Reached
  BY SameLists DEF phaseVars
<1>3. PhasesOK' /\ GrayAtomicOK' /\ ConvergenceOK' /\ ~Remarking /\ ~Remarking'
  BY MutatorIdle, IdleStep DEF phaseVars, TopIs, Top, PhasesOK
<1>4. ClosuresOK' /\ MetasOK'
  BY DEF ClosuresOK, MetasOK, funcVars, refVars, listVars
<1>5. TwupsOK'
  BY <1>2 DEF TwupsOK, phaseVars, funcVars, IsOpen
<1>6. RootsOK'
  BY <1>2, <1>3 DEF RootsOK, Marking, keepinvariant, phaseVars, listVars
<1>7. BlackOK'
  <2>. SUFFICES ASSUME Marking', NEW o \in Obj, color'[o] = "black"
                PROVE  BaseIn(o, Reached)' /\ (o \in LClosures => UpvalueOK(o)')
    BY DEF BlackOK
  <2>1. Marking /\ keepinvariant /\ keepinvariant' /\ color[o] = "black" /\ o \notin Threads
    BY <1>3 DEF Marking, keepinvariant, phaseVars, KindsOK
  <2>2. BaseIn(o, Reached) /\ (o \in LClosures => UpvalueOK(o))
    BY <2>1 DEF BlackOK
  <2>3. BaseIn(o, Reached)'
    BY <1>2, <2>1, <2>2 DEF BaseIn, KeysIn, ValuesIn, In, refVars, funcVars
  <2>4. ASSUME o \in LClosures PROVE UpvalueOK(o)'
    BY <1>2, <2>1, <2>2, <2>4 DEF UpvalueOK, IsOpen, In, funcVars
  <2>. QED  BY <2>3, <2>4
<1>. QED  BY <1>1, <1>2, <1>3, <1>4, <1>5, <1>6, <1>7

(* lua_settop, the registers above the top, lua_rawget and the like.       *)
LEMMA PushPopSafe ==
  ASSUME TypeOK, TypeOK', SafetyInv
  PROVE  /\ \A o \in Obj : Pop(o) => SafetyInv'
         /\ Expose => SafetyInv'
         /\ \A o, x \in Obj : Get(o, x) => SafetyInv'
         /\ \A f, n \in LClosures, u \in UpVals : ReuseClosure(f, n, u) => SafetyInv'
<1>1. L \in Threads /\ L = running /\ L \in NotDead /\ stk[L] \subseteq NotDead
  BY KeptOperands DEF L, TypeOK, StackOK, SafetyInv, KeptOK
<1>2. ASSUME MutatorOn, NEW x \in NotDead, Push(x),
             UNCHANGED <<color, listVars, phaseVars, sweepVars, grayVars, refVars, funcVars,
                         running, resumer, twups, strcache, cstack>>
      PROVE  SafetyInv'
  <2>1. \A th \in Threads : stk[th] \subseteq stk'[th]
    BY <1>1, <1>2 DEF Push, TypeOK, StackOK
  <2>2. NotDead' = NotDead
    BY <1>2 DEF NotDead, Alloc, IsDead, otherwhite, phaseVars
  <2>3. ThreadsOK'
    BY <1>2, <2>1, <2>2, ThreadsKept DEF SafetyInv
  <2>4. FramesOK'
    BY <1>2, <2>1, FramesKept DEF SafetyInv, Active
  <2>5. \A th \in Threads :
           \/ stk'[th] = stk[th] /\ stale'[th] = stale[th]
           \/ th \in NotDead /\ stk'[th] \subseteq NotDead /\ In(stale'[th], NotDead)
    BY <1>1, <1>2, Kinds DEF Push, TypeOK, StackOK, In
  <2>. QED  BY <1>1, <1>2, <2>3, <2>4, <2>5, StackSafe
<1>3. ASSUME NEW o \in Obj, Pop(o) PROVE SafetyInv'
  <2>1. /\ MutatorOn /\ o \in Poppable(L) /\ o \in stk[L]
        /\ UNCHANGED <<color, listVars, phaseVars, sweepVars, grayVars, refVars, funcVars,
                       running, resumer, twups, strcache, cstack>>
    BY <1>3 DEF Pop, Poppable
  <2>2. /\ \A th \in Threads : th # L => stk'[th] = stk[th] /\ stale'[th] = stale[th]
        /\ stk'[L] = stk[L] \ {o} /\ stale'[L] \in {o, Nil}
    BY <1>1, <1>3 DEF Pop, Left, TypeOK, StackOK
  <2>3. NotDead' = NotDead
    BY <2>1 DEF NotDead, Alloc, IsDead, otherwhite, phaseVars
  <2>4. ThreadsOK'
    BY <1>1, <2>1, <2>2, <2>3, ThreadsKept DEF SafetyInv
  <2>5. \A th \in Threads : stk[th] \ stk'[th] \subseteq Poppable(th)
    BY <2>1, <2>2
  <2>6. FramesOK'
    BY <2>1, <2>5, FramesKept DEF SafetyInv, Active
  <2>7. In(stale'[L], NotDead) /\ stk'[L] \subseteq NotDead
    BY <1>1, <2>1, <2>2, Kinds DEF In
  <2>. QED  BY <1>1, <2>1, <2>2, <2>4, <2>6, <2>7, StackSafe
<1>4. ASSUME Expose PROVE SafetyInv'
  <2>1. stale[L] \in NotDead
    BY <1>1, <1>4, KeptOperands DEF Expose, In, TypeOK, StackOK, SafetyInv
  <2>. QED  BY <1>2, <1>4, <2>1, ColorFacts DEF Expose
<1>5. ASSUME NEW o \in Obj, NEW x \in Obj, Get(o, x) PROVE SafetyInv'
  <2>1. x \in NotDead
    BY <1>5, KeptOperands DEF Get, SafetyInv, In, Objs
  <2>. QED  BY <1>2, <1>5, <2>1 DEF Get
<1>6. ASSUME NEW f \in LClosures, NEW n \in LClosures, NEW u \in UpVals, ReuseClosure(f, n, u)
      PROVE  SafetyInv'
  <2>1. f \in NotDead /\ n = cache[clp[f]]
    BY <1>1, <1>6 DEF ReuseClosure
  <2>2. clp[f] \in Protos /\ FieldsIn(f, NotDead)
    BY <2>1, Kinds, ColorFacts DEF SafetyInv, ClosuresOK, KeptOK
  <2>3. clp[f] \in NotDead
    BY <2>2, Kinds DEF FieldsIn, BaseIn, In
  <2>4. FieldsIn(clp[f], NotDead)
    BY <2>3 DEF SafetyInv, KeptOK
  <2>5. n \in NotDead
    BY <2>1, <2>2, <2>4, Kinds DEF FieldsIn, BaseIn, In
  <2>. QED  BY <1>2, <1>6, <2>5, ColorFacts DEF ReuseClosure
<1>. QED  BY <1>3, <1>4, <1>5, <1>6

(* lua_xmove, lua_resume and lua_yield.                                    *)
LEMMA CoroutineSafe ==
  ASSUME TypeOK, TypeOK', SafetyInv
  PROVE  /\ \A from, to \in Threads, o \in Obj : Xmove(from, to, o) => SafetyInv'
         /\ \A co \in Coroutines : Resume(co) => SafetyInv'
         /\ Yield => SafetyInv'
<1>1. /\ L \in Threads /\ L = running /\ L \in NotDead /\ stk[L] \subseteq NotDead
      /\ Coroutines \subseteq Threads /\ MainThread \in Threads \ Coroutines
      /\ Nil \notin Threads
      /\ resumer \in [Threads -> Threads \union {Nil}]
  BY KeptOperands, Kinds DEF L, TypeOK, StackOK, SafetyInv, KeptOK
<1>2. ASSUME NEW from \in Threads, NEW to \in Threads, NEW o \in Obj, Xmove(from, to, o)
      PROVE  SafetyInv'
  <2>1. /\ MutatorOn /\ o \in Poppable(from) /\ o \in stk[from] /\ from # to
        /\ \/ from = L /\ to \in stk[L] /\ Suspended(to)
           \/ to = L /\ from \in stk[L] /\ Suspended(from)
        /\ UNCHANGED <<color, listVars, phaseVars, sweepVars, grayVars, refVars, funcVars,
                       running, resumer, twups, strcache, cstack>>
    BY <1>2 DEF Xmove, Poppable
  <2>2. /\ \A th \in Threads \ {from, to} : stk'[th] = stk[th] /\ stale'[th] = stale[th]
        /\ stk'[from] = stk[from] \ {o} /\ stale'[from] \in {o, Nil}
        /\ stk'[to] = stk[to] \union {o} /\ stale'[to] = Nil
    BY <1>2, <2>1 DEF Xmove, Left, TypeOK, StackOK
  <2>3. NotDead' = NotDead
    BY <2>1 DEF NotDead, Alloc, IsDead, otherwhite, phaseVars
  <2>4. ThreadsOK'
    BY <1>1, <2>1, <2>2, <2>3, ThreadsKept DEF SafetyInv, Suspended, Active
  <2>5. \A th \in Threads : stk[th] \ stk'[th] \subseteq Poppable(th)
    BY <2>1, <2>2
  <2>6. FramesOK'
    BY <2>1, <2>5, FramesKept DEF SafetyInv, Active
  <2>7. {from, to} \subseteq NotDead
    BY <1>1, <2>1
  <2>8. stk[from] \subseteq NotDead /\ stk[to] \subseteq NotDead
    BY <2>7, Kinds DEF SafetyInv, KeptOK, FieldsIn, BaseIn, StackIn
  <2>9. \A th \in {from, to} : stk'[th] \subseteq NotDead /\ In(stale'[th], NotDead)
    BY <2>1, <2>2, <2>8, Kinds DEF In
  <2>10. \A th \in Threads :
           \/ stk'[th] = stk[th] /\ stale'[th] = stale[th]
           \/ th \in NotDead /\ stk'[th] \subseteq NotDead /\ In(stale'[th], NotDead)
    BY <2>2, <2>7, <2>9
  <2>. QED  BY <1>1, <2>1, <2>4, <2>6, <2>10, StackSafe
<1>3. ASSUME NEW co \in Coroutines, Resume(co) PROVE SafetyInv'
  <2>1. /\ MutatorOn /\ co \in stk[L] /\ Suspended(co) /\ running' = co
        /\ resumer' = [resumer EXCEPT ![co] = L]
        /\ UNCHANGED <<color, listVars, phaseVars, sweepVars, grayVars, refVars, funcVars,
                       stk, stale, twups, strcache, cstack>>
    BY <1>3 DEF Resume
  <2>2. NotDead' = NotDead
    BY <2>1 DEF NotDead, Alloc, IsDead, otherwhite, phaseVars
  <2>3. /\ ~Active(co) /\ co # L /\ Active(L) /\ resumer[co] = Nil
        /\ resumer'[co] = L
        /\ \A th \in Threads : th # co => resumer'[th] = resumer[th]
        /\ \A th \in Threads : Active(th)' <=> Active(th) \/ th = co
    BY <1>1, <2>1 DEF Suspended, Active, SafetyInv, ThreadsOK
  <2>4. ThreadsOK'
    <3>1. Active(running)' /\ resumer'[MainThread] = Nil
      BY <1>1, <2>1, <2>3 DEF SafetyInv, ThreadsOK
    <3>2. ASSUME NEW th \in Threads, resumer'[th] # Nil
          PROVE Active(resumer[th])' /\ th \in stk'[resumer'[th]] /\ resumer'[th] # running'
      BY <1>1, <2>1, <2>3, <3>2 DEF SafetyInv, ThreadsOK
    <3>3. ASSUME NEW a \in Threads, NEW b \in Threads, resumer'[a] = resumer'[b], resumer'[a] # Nil
          PROVE a = b
      BY <1>1, <2>1, <2>3, <3>3 DEF SafetyInv, ThreadsOK
    <3>4. ASSUME NEW S \in SUBSET Threads, MainThread \in S,
                 \A th \in Threads : resumer'[th] \in S => th \in S
          PROVE  \A th \in Threads : Active(th)' => th \in S
      <4>1. \A th \in Threads : resumer[th] \in S => th \in S
        BY <1>1, <2>3, <3>4
      <4>2. \A th \in Threads : Active(th) => th \in S
        BY <3>4, <4>1 DEF SafetyInv, ThreadsOK
      <4>. QED  BY <1>1, <2>3, <3>4, <4>2
    <3>5. \A th \in Threads : Active(th)' => th \in NotDead
      BY <1>1, <2>1, <2>3 DEF SafetyInv, ThreadsOK
    <3>. QED  BY <2>2, <3>1, <3>2, <3>3, <3>4, <3>5 DEF ThreadsOK
  <2>5. FramesOK'
    BY <2>1, <2>3, FramesKept DEF SafetyInv
  <2>. QED  BY <1>1, <2>1, <2>4, <2>5, StackSafe
<1>4. ASSUME Yield PROVE SafetyInv'
  <2>1. /\ MutatorOn /\ resumer[L] # Nil /\ FinFrames(L) = {}
        /\ running' = resumer[L] /\ resumer' = [resumer EXCEPT ![L] = Nil]
        /\ UNCHANGED <<color, listVars, phaseVars, sweepVars, grayVars, refVars, funcVars,
                       stk, stale, twups, strcache, cstack>>
    BY <1>4 DEF Yield
  <2>2. NotDead' = NotDead
    BY <2>1 DEF NotDead, Alloc, IsDead, otherwhite, phaseVars
  <2>3. /\ L # MainThread /\ resumer[L] \in Threads /\ Active(resumer[L]) /\ resumer[L] # L
        /\ resumer'[L] = Nil
        /\ \A th \in Threads : th # L => resumer'[th] = resumer[th]
        /\ \A th \in Threads : Active(th)' <=> Active(th) /\ th # L
    BY <1>1, <2>1 DEF Active, SafetyInv, ThreadsOK
  <2>4. ThreadsOK'
    <3>1. Active(running)' /\ resumer'[MainThread] = Nil
      BY <1>1, <2>1, <2>3 DEF SafetyInv, ThreadsOK, Active
    <3>2. ASSUME NEW th \in Threads, resumer'[th] # Nil
          PROVE Active(resumer[th])' /\ th \in stk'[resumer'[th]] /\ resumer'[th] # running'
      <4>1. th # L /\ resumer'[th] = resumer[th] /\ resumer[th] \in Threads
        BY <1>1, <2>3, <3>2
      <4>2. Active(resumer[th]) /\ th \in stk[resumer[th]] /\ resumer[th] # L
        BY <1>1, <3>2, <4>1 DEF SafetyInv, ThreadsOK
      <4>3. resumer[th] # resumer[L]
        BY <1>1, <2>3, <3>2, <4>1 DEF SafetyInv, ThreadsOK
      <4>. QED  BY <2>1, <2>3, <4>1, <4>2, <4>3 DEF Active
    <3>3. ASSUME NEW a \in Threads, NEW b \in Threads, resumer'[a] = resumer'[b], resumer'[a] # Nil
          PROVE a = b
      BY <1>1, <2>1, <2>3, <3>3 DEF SafetyInv, ThreadsOK
    <3>4. ASSUME NEW S \in SUBSET Threads, MainThread \in S,
                 \A th \in Threads : resumer'[th] \in S => th \in S
          PROVE  \A th \in Threads : Active(th)' => th \in S
      <4>. DEFINE T == S \union {L}
      <4>1. \A th \in Threads : resumer[th] \in T => th \in T
        BY <1>1, <2>3, <3>4 DEF SafetyInv, ThreadsOK
      <4>2. T \in SUBSET Threads /\ MainThread \in T
        BY <1>1, <3>4
      <4>3. \A th \in Threads : Active(th) => th \in T
        BY <4>1, <4>2 DEF SafetyInv, ThreadsOK
      <4>. QED  BY <1>1, <2>3, <4>3
    <3>5. \A th \in Threads : Active(th)' => th \in NotDead
      BY <1>1, <2>1, <2>3 DEF SafetyInv, ThreadsOK
    <3>. QED  BY <2>2, <3>1, <3>2, <3>3, <3>4, <3>5 DEF ThreadsOK
  <2>5. FramesOK'
    BY <2>1, <2>3, FramesKept DEF SafetyInv
  <2>6. running' \in NotDead
    BY <2>1, <2>3 DEF SafetyInv, ThreadsOK
  <2>. QED  BY <1>1, <2>1, <2>4, <2>5, <2>6, StackSafe
<1>. QED  BY <1>2, <1>3, <1>4

(***************************************************************************)
(* Operations that change objects.                                         *)
(***************************************************************************)
(* How the program changes the colour of an object: it takes a free block, *)
(* revives a dead string, or runs into a write barrier.                    *)
PaintOK(o) ==
  \/ color'[o] = color[o]
  \/ color[o] = "free" /\ color'[o] = currentwhite
  \/ o \in Strings /\ color[o] = otherwhite /\ color'[o] = currentwhite
  \/ keepinvariant /\ color[o] \in Whites /\ color'[o] = IF o \in Leaves THEN "black" ELSE "gray"
  \/ ~keepinvariant /\ color[o] = "black" /\ color'[o] = currentwhite
  \/ o \in Tables /\ color[o] = "black" /\ color'[o] = "gray"

(* What an object refers to that it did not refer to before is in T.       *)
NewRefsIn(o, T) ==
  /\ o \in Tables =>
       /\ mt'[o] = mt[o] \/ In(mt'[o], T)
       /\ \A e \in entries'[o] : /\ e[1] \in Keys(o) \/ In(e[1], T)
                                 /\ e[2] \in Values(o) \/ In(e[2], T)
  /\ o \in Udatas => mt'[o] = mt[o] \/ In(mt'[o], T)
  /\ o \in Udatas \union CClosures => val'[o] = val[o] \/ In(val'[o], T)
  /\ o \in LClosures => clp'[o] = clp[o] \/ In(clp'[o], T)
  /\ o \in Protos => cache'[o] = cache[o] \/ In(cache'[o], T)
  /\ o \in Threads =>
       /\ stk'[o] \subseteq stk[o] \union T
       /\ stale'[o] = stale[o] \/ In(stale'[o], T)
       /\ \A u \in UpVals : uv'[u].th = o => \/ uv[u].th = o /\ uv'[u].v = uv[u].v
                                             \/ In(uv'[u].v, T)

(* The upvalue cells of a thread are those it had.                         *)
SameOpen == \A u \in UpVals, th \in Threads :
              uv'[u].th = th => uv[u].th = th /\ uv'[u].v = uv[u].v

(* An object that does not change refers to nothing new.                   *)
LEMMA Untouched ==
  ASSUME NEW o, NEW T,
         o \in Tables => entries'[o] = entries[o],
         o \in Tables \union Udatas => mt'[o] = mt[o],
         o \in Udatas \union CClosures => val'[o] = val[o],
         o \in LClosures => clp'[o] = clp[o],
         o \in Protos => cache'[o] = cache[o],
         o \in Threads => stk'[o] \subseteq stk[o] /\ stale'[o] = stale[o] /\ SameOpen
  PROVE  NewRefsIn(o, T)
BY DEF NewRefsIn, SameOpen, Keys, Values

(* References into S and new ones into T.                                  *)
LEMMA BaseGrows ==
  ASSUME NEW o, NEW S, NEW T, S \subseteq T, BaseIn(o, S), NewRefsIn(o, T)
  PROVE  BaseIn(o, T)'
<1>. USE DEF BaseIn, NewRefsIn, In
<1>1. o \in Tables => (In(mt[o], T) /\ KeysIn(o, T) /\ ValuesIn(o, T))'
  BY DEF KeysIn, ValuesIn, Keys, Values
<1>2. o \in Threads => (StackIn(o, T) /\ In(stale[o], T))'
  BY DEF StackIn
<1>. QED  BY <1>1, <1>2

(* The colours after an operation of the program.                          *)
LEMMA Painted ==
  ASSUME TypeOK, TypeOK', SafetyInv, MutatorOn, UNCHANGED phaseVars, \A o \in Obj : PaintOK(o)
  PROVE  /\ KindsOK' /\ WhitesOK'
         /\ NotDead \subseteq NotDead'
         /\ \A o \in NotDead' \ NotDead : color[o] = "free" \/ o \in Strings
         /\ \A o \in Obj : color'[o] = "free" => color[o] = "free"
         /\ keepinvariant => Reached \subseteq Reached' /\ GrayOnes \subseteq GrayOnes'
         /\ keepinvariant => \A o \in NotDead' : color'[o] \notin Whites => o \in Reached'
         /\ ~Remarking /\ ~Remarking' /\ Idling
<1>. USE DEF phaseVars
<1>1. ~Remarking /\ ~Remarking' /\ Idling
  BY MutatorIdle DEF SafetyInv, Remarking
<1>2. otherwhite' = otherwhite
  BY DEF otherwhite
<1>3. \A o \in Obj : color[o] \in Colors /\ color'[o] \in Colors
  BY DEF TypeOK, ListsOK
<1>4. KindsOK'
  BY ColorFacts, OneKind DEF SafetyInv, KindsOK, PaintOK, Leaves
<1>5. WhitesOK'
  <2>1. ASSUME Resting', NEW o \in Obj PROVE color'[o] \in {"free", currentwhite'}
    BY <2>1, ColorFacts DEF SafetyInv, WhitesOK, Resting, PaintOK, keepinvariant
  <2>2. ASSUME Marking', NEW o \in Obj PROVE color'[o] # otherwhite'
    BY <1>1, <1>2, <2>2, ColorFacts DEF SafetyInv, WhitesOK, Marking, keepinvariant, PaintOK
  <2>. QED  BY <2>1, <2>2 DEF WhitesOK
<1>6. NotDead \subseteq NotDead'
  BY <1>2, ColorFacts, ColorFactsNext DEF PaintOK
<1>7. \A o \in NotDead' \ NotDead : color[o] = "free" \/ o \in Strings
  BY <1>2, ColorFacts, ColorFactsNext DEF PaintOK, SafetyInv, WhitesOK, Marking
<1>8. \A o \in Obj : color'[o] = "free" => color[o] = "free"
  BY <1>3, ColorFacts DEF PaintOK
<1>9. keepinvariant => Reached \subseteq Reached' /\ GrayOnes \subseteq GrayOnes'
  BY ColorFacts DEF PaintOK, Reached, GrayOnes
<1>10. keepinvariant => \A o \in NotDead' : color'[o] \notin Whites => o \in Reached'
  BY <1>3, ColorFactsNext DEF Reached, Colors
<1>. QED  BY <1>1, <1>4, <1>5, <1>6, <1>7, <1>8, <1>9, <1>10

(* The sweep when the lists only grow.                                     *)
LEMMA PaintedSweep ==
  ASSUME TypeOK, TypeOK', SafetyInv, MutatorOn, UNCHANGED <<phaseVars, sweepVars>>,
         \A o \in Obj : PaintOK(o), allgc \subseteq allgc', finobj' = finobj, tobefnz' = tobefnz
  PROVE  SweepOK2'
<1>. USE DEF phaseVars, sweepVars, SafetyInv
<1>1. NotDead \subseteq NotDead'
  BY Painted
<1>2. issweepphase' = issweepphase /\ ToSweep \subseteq ToSweep'
  BY DEF issweepphase, ToSweep
<1>3. Ahead \subseteq Ahead'
  BY <1>2 DEF Ahead
<1>4. ASSUME gcstate' = "swpallgc" PROVE SweepListOK("allgc", allgc)'
  BY <1>1, <1>4 DEF SweepOK2, SweepListOK
<1>5. ASSUME gcstate' = "swpfinobj" PROVE SweepListOK("finobj", finobj)'
  BY <1>1, <1>5 DEF SweepOK2, SweepListOK
<1>6. ASSUME issweepphase', NEW o \in Obj
      PROVE  color'[o] \in {"free", currentwhite'} \/ o \in (Ahead \union {MainThread})'
  <2>1. ~keepinvariant
    BY <1>2, <1>6 DEF keepinvariant, issweepphase, SweepStates
  <2>2. color[o] \in {"free", currentwhite} \/ o \in Ahead \union {MainThread}
    BY <1>2, <1>6 DEF SweepOK2
  <2>3. "black" \notin {"free", currentwhite}
    BY ColorFacts
  <2>. QED  BY <1>3, <2>1, <2>2, <2>3 DEF PaintOK
<1>. QED  BY <1>2, <1>4, <1>5, <1>6 DEF SweepOK2

(* What an operation has to keep.                                          *)
LEMMA ProgramSafe ==
  ASSUME TypeOK, TypeOK', SafetyInv, MutatorOn,
         UNCHANGED <<phaseVars, tobefnz, weak, ephemeron, allweak>>,
         \A o \in Obj : PaintOK(o),
         PhasesOK', ThreadsOK', FramesOK', ListsPartition', SweepOK2', ClosuresOK', MetasOK', TwupsOK',
         keepinvariant =>
           \/ gray' = gray \union (GrayOnes' \ GrayOnes) /\ grayagain' = grayagain
           \/ gray' = gray /\ grayagain' = grayagain \union (GrayOnes' \ GrayOnes),
         (* KeptOK *)
         running' \in NotDead',
         In(basemt', NotDead'), strcache' \subseteq NotDead', twups' \subseteq NotDead',
         \A o \in NotDead : NewRefsIn(o, NotDead'),
         \A o \in NotDead' \ NotDead : BaseIn(o, NotDead)',
         \A c \in LClosures : c \in NotDead' /\ upv'[c] # Nil => In(uv'[upv'[c]].v, NotDead'),
         (* FreeOK *)
         \A o \in Obj : color'[o] = "free" =>
           /\ NewRefsIn(o, {})
           /\ o \in LClosures => upv'[o] = upv[o]
           /\ \A u \in UpVals : uv'[u].th # o,
         (* BlackOK *)
         keepinvariant => \A o \in Obj : color'[o] = "black" =>
           /\ \/ color[o] = "black" /\ NewRefsIn(o, Reached')
              \/ BaseIn(o, Reached)'
           /\ o \in LClosures => UpvalueOK(o)'
  PROVE  SafetyInv'
<1>1. /\ KindsOK' /\ WhitesOK'
      /\ NotDead \subseteq NotDead'
      /\ \A o \in Obj : color'[o] = "free" => color[o] = "free"
      /\ keepinvariant => Reached \subseteq Reached' /\ GrayOnes \subseteq GrayOnes'
      /\ ~Remarking /\ ~Remarking' /\ Idling
  BY Painted
<1>2. GrayAtomicOK' /\ ConvergenceOK'
  BY <1>1, IdleStep DEF SafetyInv, phaseVars, GrayAtomicOK, Atomically, ConvergenceOK
<1>3. KeptOK'
  <2>1. ASSUME NEW o \in NotDead PROVE BaseIn(o, NotDead)'
    <3>1. BaseIn(o, NotDead)
      BY <2>1 DEF SafetyInv, KeptOK, FieldsIn
    <3>. QED  BY <1>1, <3>1, BaseGrows
  <2>2. \A o \in NotDead' : FieldsIn(o, NotDead)'
    BY <2>1 DEF FieldsIn
  <2>3. {MainThread, running', Registry} \subseteq NotDead' /\ tobefnz' \subseteq NotDead'
    BY <1>1 DEF SafetyInv, KeptOK
  <2>. QED  BY <2>2, <2>3 DEF KeptOK
<1>4. FreeOK'
  <2>. SUFFICES ASSUME NEW o \in Obj, color'[o] = "free"
                PROVE  /\ BaseIn(o, {})'
                       /\ o \in LClosures => upv'[o] = Nil
                       /\ \A u \in UpVals : uv'[u].th # o
    BY DEF FreeOK
  <2>1. color[o] = "free" /\ BaseIn(o, {}) /\ NewRefsIn(o, {})
    BY <1>1 DEF SafetyInv, FreeOK
  <2>2. BaseIn(o, {})'
    BY <2>1, BaseGrows
  <2>. QED  BY <2>1, <2>2 DEF SafetyInv, FreeOK
<1>5. BlackOK'
  <2>. SUFFICES ASSUME Marking', NEW o \in Obj, color'[o] = "black"
                PROVE  BaseIn(o, Reached)' /\ (o \in LClosures => UpvalueOK(o)')
    BY DEF BlackOK
  <2>1. keepinvariant /\ Marking
    BY <1>1 DEF Marking, keepinvariant, phaseVars
  <2>2. ASSUME color[o] = "black", NewRefsIn(o, Reached') PROVE BaseIn(o, Reached)'
    <3>1. BaseIn(o, Reached)
      BY <2>1, <2>2 DEF SafetyInv, BlackOK
    <3>. QED  BY <1>1, <2>1, <2>2, <3>1, BaseGrows
  <2>. QED  BY <2>1, <2>2
<1>6. GrayIdleOK'
  <2>. SUFFICES ASSUME keepinvariant', Idling' PROVE
         /\ GrayOnes' = gray' \union grayagain' \union allweak'
         /\ gray' \intersect grayagain' = {} /\ gray' \intersect allweak' = {}
         /\ grayagain' \intersect allweak' = {}
         /\ weak' = {} /\ ephemeron' = {}
         /\ \A t \in allweak' : AllWeakOK(t)'
    BY DEF GrayIdleOK
  <2>1. keepinvariant
    BY DEF keepinvariant, phaseVars
  <2>2. /\ GrayOnes = gray \union grayagain \union allweak
        /\ gray \intersect grayagain = {} /\ gray \intersect allweak = {}
        /\ grayagain \intersect allweak = {}
        /\ weak = {} /\ ephemeron = {}
        /\ \A t \in allweak : AllWeakOK(t)
    BY <1>1, <2>1 DEF SafetyInv, GrayIdleOK
  <2>3. \A t \in allweak' : AllWeakOK(t)'
    BY <1>1, <2>1, <2>2 DEF AllWeakOK
  <2>. QED  BY <1>1, <2>1, <2>2, <2>3
<1>7. RootsOK'
  BY <1>1 DEF SafetyInv, RootsOK, Marking, keepinvariant, phaseVars
<1>. QED  BY <1>1, <1>2, <1>3, <1>4, <1>5, <1>6, <1>7 DEF SafetyInv

(* What an operation that only pushes on stacks has to keep.               *)
LEMMA MutatorSafe ==
  ASSUME TypeOK, TypeOK', SafetyInv, MutatorOn,
         UNCHANGED <<phaseVars, tobefnz, weak, ephemeron, allweak, running, resumer, cstack>>,
         \A o \in Obj : PaintOK(o),
         ListsPartition', SweepOK2', ClosuresOK', MetasOK', TwupsOK',
         keepinvariant =>
           \/ gray' = gray \union (GrayOnes' \ GrayOnes) /\ grayagain' = grayagain
           \/ gray' = gray /\ grayagain' = grayagain \union (GrayOnes' \ GrayOnes),
         \A th \in Threads : stk[th] \subseteq stk'[th],
         (* KeptOK *)
         In(basemt', NotDead'), strcache' \subseteq NotDead', twups' \subseteq NotDead',
         \A o \in NotDead : NewRefsIn(o, NotDead'),
         \A o \in NotDead' \ NotDead : BaseIn(o, NotDead)',
         \A c \in LClosures : c \in NotDead' /\ upv'[c] # Nil => In(uv'[upv'[c]].v, NotDead'),
         (* FreeOK *)
         \A o \in Obj : color'[o] = "free" =>
           /\ NewRefsIn(o, {})
           /\ o \in LClosures => upv'[o] = upv[o]
           /\ \A u \in UpVals : uv'[u].th # o,
         (* BlackOK *)
         keepinvariant => \A o \in Obj : color'[o] = "black" =>
           /\ \/ color[o] = "black" /\ NewRefsIn(o, Reached')
              \/ BaseIn(o, Reached)'
           /\ o \in LClosures => UpvalueOK(o)'
  PROVE  SafetyInv'
<1>1. NotDead \subseteq NotDead'
  BY Painted
<1>2. PhasesOK'
  BY DEF SafetyInv, phaseVars, PhasesOK, TopIs, Top
<1>3. ThreadsOK'
  BY <1>1, ThreadsKept DEF SafetyInv
<1>4. FramesOK'
  BY FramesKept DEF SafetyInv, Active
<1>5. running' \in NotDead'
  BY <1>1 DEF SafetyInv, KeptOK
<1>. QED  BY <1>2, <1>3, <1>4, <1>5, ProgramSafe

(* What a push changes.                                                    *)
LEMMA PushRefs ==
  ASSUME TypeOK, NEW x, Push(x), SameOpen
  PROVE  /\ \A th \in Threads : stk[th] \subseteq stk'[th]
         /\ \A th \in Threads : \A T : th # L \/ x \in T => NewRefsIn(th, T)
<1>1. /\ \A th \in Threads : stk'[th] = IF th = L THEN stk[th] \union {x} ELSE stk[th]
      /\ \A th \in Threads : stale'[th] = IF th = L THEN Nil ELSE stale[th]
  BY DEF Push, TypeOK, StackOK
<1>2. ASSUME NEW th \in Threads, NEW T, th # L \/ x \in T PROVE NewRefsIn(th, T)
  <2>1. stk'[th] \subseteq stk[th] \union T
    BY <1>1, <1>2
  <2>2. stale'[th] = stale[th] \/ In(stale'[th], T)
    BY <1>1, <1>2, Kinds DEF In
  <2>3. \A u \in UpVals : uv'[u].th = th => uv[u].th = th /\ uv'[u].v = uv[u].v
    BY DEF SameOpen
  <2>4. /\ th \notin Tables /\ th \notin Udatas /\ th \notin CClosures /\ th \notin LClosures
        /\ th \notin Protos
    BY OneKind
  <2>. QED  BY <2>1, <2>2, <2>3, <2>4 DEF NewRefsIn
<1>. QED  BY <1>1, <1>2

(* A closure that keeps its upvalue.                                       *)
LEMMA UpvalueSame ==
  ASSUME NEW c \in LClosures, upv'[c] = upv[c], UNCHANGED gcstate, keepinvariant,
         uv'[upv[c]].th = uv[upv[c]].th, uv'[upv[c]].v = uv[upv[c]].v,
         uv[upv[c]].touched => uv'[upv[c]].touched,
         Reached \subseteq Reached', UpvalueOK(c)
  PROVE  UpvalueOK(c)'
BY DEF UpvalueOK, keepinvariant, IsOpen, In

(* The value of a kept closure's upvalue.                                  *)
LEMMA KeptUpvalue ==
  ASSUME TypeOK, SafetyInv, NEW c \in LClosures, c \in NotDead
  PROVE  /\ clp[c] \in Protos /\ clp[c] \in NotDead
         /\ upv[c] \in UpVals /\ In(uv[upv[c]].v, NotDead)
<1>1. FieldsIn(c, NotDead) /\ color[c] # "free"
  BY ColorFacts DEF SafetyInv, KeptOK
<1>2. clp[c] \in Protos /\ upv[c] \in UpVals
  BY <1>1 DEF SafetyInv, ClosuresOK
<1>. QED  BY <1>1, <1>2, Kinds DEF FieldsIn, BaseIn, In

(* luaC_newobj.                                                            *)
LEMMA Created ==
  ASSUME TypeOK, TypeOK', SafetyInv, MutatorOn, NEW K \in SUBSET Obj, Create(K)
  PROVE  /\ \A o \in Obj : PaintOK(o)
         /\ ListsPartition' /\ SweepOK2'
         /\ NotDead' = NotDead \union K /\ Reached' = Reached /\ GrayOnes' = GrayOnes
         /\ K \intersect NotDead = {}
         /\ \A o \in Obj : color'[o] = "free" => color[o] = "free" /\ o \notin K
         /\ \A o \in Obj : color'[o] = "black" => color[o] = "black"
         /\ \A o \in Obj : color'[o] # "free" => color[o] # "free" \/ o \in K
         /\ \A o \in K : color[o] = "free"
<1>1. /\ \A o \in K : color[o] = "free" /\ color'[o] = currentwhite
      /\ \A o \in Obj \ K : color'[o] = color[o]
      /\ otherwhite' = otherwhite
  BY DEF Create, otherwhite, phaseVars
<1>2. \A o \in Obj : PaintOK(o)
  BY <1>1 DEF PaintOK
<1>3. NotDead' = NotDead \union K /\ K \intersect NotDead = {}
  BY <1>1, ColorFacts, ColorFactsNext
<1>4. Reached' = Reached /\ GrayOnes' = GrayOnes
  BY <1>1, ColorFacts DEF Reached, GrayOnes
<1>5. MainThread \notin K
  BY <1>3 DEF SafetyInv, KeptOK
<1>6. ListsPartition'
  <2>1. Alloc' = Alloc \union K /\ K \intersect Alloc = {}
    BY <1>1, ColorFacts, ColorFactsNext
  <2>2. /\ allgc' = allgc \union K /\ finobj' = finobj /\ tobefnz' = tobefnz /\ finbit' = finbit
        /\ ListsPartition
    BY DEF Create, SafetyInv
  <2>3. K \intersect (allgc \union finobj \union tobefnz) = {}
    BY <2>1, <2>2 DEF ListsPartition
  <2>. QED  BY <1>5, <2>1, <2>2, <2>3 DEF ListsPartition
<1>7. SweepOK2'
  BY <1>2, PaintedSweep DEF Create
<1>. QED  BY <1>1, <1>2, <1>3, <1>4, <1>6, <1>7, ColorFacts

(* A new object is anchored in the stack; a closure may be cached in its   *)
(* prototype and may have captured a local variable.                       *)
LEMMA CreateSafe ==
  ASSUME TypeOK, TypeOK', SafetyInv, MutatorOn, NEW o \in Obj, Create({o}), Push(o),
         UNCHANGED <<entries, mt, basemt, running, resumer, strcache>>,
         \A x \in Udatas \union CClosures : x # o => val'[x] = val[x],
         \A x \in LClosures : x # o => clp'[x] = clp[x] /\ upv'[x] = upv[x],
         \A p \in Protos : \/ cache'[p] = cache[p]
                           \/ cache'[p] = o /\ color[p] \notin {"free", "black"},
         \A u \in UpVals : \/ /\ uv'[u].th = uv[u].th /\ uv'[u].v = uv[u].v
                              /\ uv'[u].touched = uv[u].touched
                           \/ /\ uv'[u].th = L /\ uv'[u].touched /\ L \in twups'
                              /\ In(uv'[u].v, NotDead),
         twups \subseteq twups', twups' \subseteq twups \union {L},
         o \in CClosures => In(val'[o], NotDead),
         o \in Udatas => val'[o] = val[o],
         o \in LClosures => /\ clp'[o] \in Protos /\ clp'[o] \in NotDead
                            /\ upv'[o] \in UpVals /\ In(uv'[upv'[o]].v, NotDead)
  PROVE  SafetyInv'
<1>1. UNCHANGED <<finbit, finobj, tobefnz, phaseVars, sweepVars, grayVars, cstack>>
  BY DEF Create
<1>2. L \in NotDead /\ L \in Threads
  BY DEF L, SafetyInv, KeptOK, TypeOK, StackOK
<1>3. /\ \A x \in Obj : PaintOK(x)
      /\ ListsPartition' /\ SweepOK2'
      /\ NotDead' = NotDead \union {o} /\ Reached' = Reached /\ GrayOnes' = GrayOnes
      /\ \A x \in Obj : color'[x] = "free" => color[x] = "free" /\ x # o
      /\ \A x \in Obj : color'[x] = "black" => color[x] = "black"
      /\ \A x \in Obj : color'[x] # "free" => color[x] # "free" \/ x = o
      /\ color[o] = "free" /\ o \notin NotDead
  BY Created
<1>4. /\ \A th \in Threads : stk'[th] = IF th = L THEN stk[th] \union {o} ELSE stk[th]
      /\ \A th \in Threads : stale'[th] = IF th = L THEN Nil ELSE stale[th]
  BY DEF Push, TypeOK, StackOK
<1>5. BaseIn(o, {}) /\ \A u \in UpVals : uv[u].th # o
  BY <1>3 DEF SafetyInv, FreeOK
<1>6. ASSUME NEW x \in Obj, NEW T, x \notin {L, o}, x \in Protos => cache'[x] = cache[x] \/ o \in T
      PROVE  NewRefsIn(x, T)
  BY <1>4, <1>6 DEF NewRefsIn, Keys, Values, In
<1>7. NewRefsIn(L, NotDead')
  <2>1. /\ L \notin Tables /\ L \notin Udatas /\ L \notin CClosures /\ L \notin LClosures
        /\ L \notin Protos
    BY <1>2, OneKind
  <2>2. stk'[L] = stk[L] \union {o} /\ stale'[L] = Nil /\ o \in NotDead'
    BY <1>2, <1>3, <1>4
  <2>4. stk'[L] \subseteq stk[L] \union NotDead' /\ In(stale'[L], NotDead')
    BY <2>2, Kinds DEF In
  <2>3. \A u \in UpVals : uv'[u].th = L => \/ uv[u].th = L /\ uv'[u].v = uv[u].v
                                           \/ In(uv'[u].v, NotDead')
    BY <1>3 DEF In
  <2>. QED  BY <2>1, <2>3, <2>4 DEF NewRefsIn
<1>8. ASSUME NEW x \in NotDead PROVE NewRefsIn(x, NotDead')
  BY <1>3, <1>6, <1>7, ColorFacts
<1>9. BaseIn(o, NotDead)'
  <2>1. NewRefsIn(o, NotDead')
    <3>1. o \in Protos => cache'[o] = cache[o]
      BY <1>3
    <3>2. o # L
      BY <1>2, <1>3
    <3>3. o \in CClosures => In(val'[o], NotDead')
      BY <1>3 DEF In
    <3>4. o \in LClosures => In(clp'[o], NotDead')
      BY <1>3 DEF In
    <3>5. o \in Udatas \union CClosures => val'[o] = val[o] \/ In(val'[o], NotDead')
      BY <3>3
    <3>. QED  BY <1>4, <1>5, <3>1, <3>2, <3>4, <3>5 DEF NewRefsIn, Keys, Values
  <2>. QED  BY <1>5, <2>1, BaseGrows
<1>10. ClosuresOK' /\ MetasOK'
  <2>1. ASSUME NEW c \in LClosures, color'[c] # "free" PROVE clp'[c] \in Protos /\ upv'[c] \in UpVals
    BY <1>3, <2>1, Kinds DEF SafetyInv, ClosuresOK
  <2>. QED  BY <1>1, <2>1 DEF SafetyInv, ClosuresOK, MetasOK
<1>11. TwupsOK'
  BY <1>1, <1>3, <1>5 DEF SafetyInv, TwupsOK, IsOpen, phaseVars
<1>12. In(basemt', NotDead') /\ strcache' \subseteq NotDead' /\ twups' \subseteq NotDead'
  BY <1>2, <1>3 DEF SafetyInv, KeptOK, In
<1>13. ASSUME NEW c \in LClosures, c \in NotDead', upv'[c] # Nil
       PROVE  In(uv'[upv'[c]].v, NotDead')
  <2>1. CASE c = o
    BY <1>3, <2>1 DEF In
  <2>2. CASE c # o
    <3>1. upv'[c] = upv[c] /\ upv[c] \in UpVals /\ In(uv[upv[c]].v, NotDead)
      BY <1>3, <1>13, <2>2, KeptUpvalue
    <3>. QED  BY <1>3, <3>1 DEF In
  <2>. QED  BY <2>1, <2>2
<1>14. ASSUME NEW x \in Obj, color'[x] = "free"
       PROVE  /\ NewRefsIn(x, {})
              /\ x \in LClosures => upv'[x] = upv[x]
              /\ \A u \in UpVals : uv'[u].th # x
  <2>1. color[x] = "free" /\ x # L /\ x # o
    BY <1>2, <1>3, <1>14, ColorFacts
  <2>2. NewRefsIn(x, {})
    BY <1>6, <2>1
  <2>. QED  BY <2>1, <2>2 DEF SafetyInv, FreeOK
<1>15. ASSUME keepinvariant, NEW x \in Obj, color'[x] = "black"
       PROVE  /\ color[x] = "black" /\ NewRefsIn(x, Reached')
              /\ x \in LClosures => UpvalueOK(x)'
  <2>1. color[x] = "black" /\ x # L /\ x # o
    BY <1>2, <1>3, <1>15 DEF SafetyInv, KindsOK
  <2>2. NewRefsIn(x, Reached')
    BY <1>6, <2>1
  <2>3. ASSUME x \in LClosures PROVE UpvalueOK(x)'
    <3>1. UpvalueOK(x) /\ upv'[x] = upv[x] /\ upv[x] \in UpVals
      BY <1>15, <2>1, <2>3 DEF SafetyInv, BlackOK, ClosuresOK, Marking
    <3>2. CASE uv'[upv[x]].th = L
      BY <1>1, <1>2, <1>3, <1>15, <3>1, <3>2
      DEF UpvalueOK, phaseVars, keepinvariant, IsOpen, In
    <3>3. CASE uv'[upv[x]].th # L
      BY <1>1, <1>3, <1>15, <2>3, <3>1, <3>3, UpvalueSame DEF phaseVars
    <3>. QED  BY <3>2, <3>3
  <2>. QED  BY <2>1, <2>2, <2>3
<1>16. \A th \in Threads : stk[th] \subseteq stk'[th]
  BY <1>4
<1>. QED
  BY <1>1, <1>3, <1>8, <1>9, <1>10, <1>11, <1>12, <1>13, <1>14, <1>15, <1>16, MutatorSafe DEF grayVars

(* lua_newtable, lua_newuserdata, lua_newthread, lua_pushcclosure.         *)
LEMMA NewObjectSafe ==
  ASSUME TypeOK, TypeOK', SafetyInv
  PROVE  /\ \A o \in Tables \union Udatas \union Coroutines : NewObject(o) => SafetyInv'
         /\ \A c \in CClosures : \A v : NewCClosure(c, v) => SafetyInv'
<1>1. ASSUME NEW o \in Tables \union Udatas \union Coroutines, NewObject(o) PROVE SafetyInv'
  <2>1. o \in Obj /\ o \notin LClosures /\ o \notin CClosures
    BY Kinds, OneKind
  <2>2. /\ MutatorOn /\ Create({o}) /\ Push(o)
        /\ UNCHANGED <<entries, mt, val, basemt, clp, upv, cache, uv, running, resumer, twups,
                       strcache>>
    BY <1>1 DEF NewObject, refVars, funcVars
  <2>. QED  BY <2>1, <2>2, CreateSafe
<1>2. ASSUME NEW c \in CClosures, NEW v, NewCClosure(c, v) PROVE SafetyInv'
  <2>1. c \in Obj /\ c \notin LClosures /\ c \notin Udatas
    BY Kinds, OneKind
  <2>2. /\ MutatorOn /\ Create({c}) /\ Push(c) /\ v \in Operand
        /\ val' = [val EXCEPT ![c] = v]
        /\ UNCHANGED <<entries, mt, basemt, clp, upv, cache, uv, running, resumer, twups,
                       strcache>>
    BY <1>2 DEF NewCClosure, funcVars
  <2>3. In(v, NotDead)
    BY <2>2, KeptOperands DEF SafetyInv
  <2>4. val'[c] = v /\ \A x \in Udatas \union CClosures : x # c => val'[x] = val[x]
    BY <2>2 DEF TypeOK, RefsOK
  <2>. QED  BY <2>1, <2>2, <2>3, <2>4, CreateSafe
<1>. QED  BY <1>1, <1>2

(* OP_CLOSURE: pushclosure, luaF_findupval.                                *)
LEMMA NewClosureSafe ==
  ASSUME TypeOK, TypeOK', SafetyInv, NEW f \in LClosures, NEW n \in LClosures, NEW u \in UpVals
  PROVE  /\ NewClosure(f, n, u) => SafetyInv'
         /\ \A v : CaptureLocal(f, n, u, v) => SafetyInv'
<1>1. n \in Obj /\ n \notin CClosures /\ n \notin Udatas
  BY Kinds, OneKind
<1>2. ASSUME MutatorOn, f \in stk[L], Closure(f, n, u)
      PROVE  /\ Create({n}) /\ Push(n)
             /\ clp[f] \in Protos /\ clp[f] \in NotDead /\ upv[f] \in UpVals
             /\ In(uv[upv[f]].v, NotDead)
             /\ clp'[n] = clp[f] /\ upv'[n] = u
             /\ \A x \in LClosures : x # n => clp'[x] = clp[x] /\ upv'[x] = upv[x]
             /\ \A p \in Protos : \/ cache'[p] = cache[p]
                                  \/ cache'[p] = n /\ color[p] \notin {"free", "black"}
  <2>1. f \in NotDead
    BY <1>2, KeptOperands DEF SafetyInv
  <2>2. clp[f] \in Protos /\ clp[f] \in NotDead /\ upv[f] \in UpVals /\ In(uv[upv[f]].v, NotDead)
    BY <2>1, KeptUpvalue
  <2>3. /\ Create({n}) /\ Push(n)
        /\ clp' = [clp EXCEPT ![n] = clp[f]]
        /\ upv' = [upv EXCEPT ![n] = u]
        /\ cache' = IF color[clp[f]] = "black" THEN cache ELSE [cache EXCEPT ![clp[f]] = n]
    BY <1>2 DEF Closure
  <2>4. /\ clp'[n] = clp[f] /\ upv'[n] = u
        /\ \A x \in LClosures : x # n => clp'[x] = clp[x] /\ upv'[x] = upv[x]
    BY <2>3 DEF TypeOK, FuncsOK
  <2>5. color[clp[f]] # "free"
    BY <2>2, ColorFacts
  <2>6. \A p \in Protos : \/ cache'[p] = cache[p]
                          \/ cache'[p] = n /\ color[p] \notin {"free", "black"}
    BY <2>2, <2>3, <2>5 DEF TypeOK, FuncsOK
  <2>. QED  BY <2>2, <2>3, <2>4, <2>6
<1>3. ASSUME NewClosure(f, n, u) PROVE SafetyInv'
  <2>1. /\ MutatorOn /\ f \in stk[L] /\ u \in Askable(f) /\ Closure(f, n, u)
        /\ uv' = [uv EXCEPT ![u].refcount = @ + 1]
        /\ UNCHANGED <<entries, mt, val, basemt, running, resumer, twups, strcache>>
    BY <1>3 DEF NewClosure, refVars
  <2>2. \A w \in UpVals : /\ uv'[w].th = uv[w].th /\ uv'[w].v = uv[w].v
                          /\ uv'[w].touched = uv[w].touched
    BY <2>1 DEF TypeOK, FuncsOK, Cell
  <2>3. In(uv[u].v, NotDead)
    <3>1. CASE u = upv[f]
      BY <1>2, <2>1, <3>1
    <3>2. CASE u \in OpenUpvals(L)
      <4>1. L \in NotDead /\ L \in Threads
        BY DEF L, SafetyInv, KeptOK, TypeOK, StackOK
      <4>. QED  BY <3>2, <4>1 DEF SafetyInv, KeptOK, FieldsIn, BaseIn, StackIn, OpenUpvals
    <3>. QED  BY <2>1, <3>1, <3>2 DEF Askable
  <2>. QED  BY <1>1, <1>2, <2>1, <2>2, <2>3, CreateSafe
<1>4. ASSUME NEW v, CaptureLocal(f, n, u, v) PROVE SafetyInv'
  <2>1. /\ MutatorOn /\ f \in stk[L] /\ v \in Operand /\ Closure(f, n, u)
        /\ uv' = [uv EXCEPT ![u] = [th |-> L, v |-> v, touched |-> TRUE, refcount |-> 1]]
        /\ twups' = twups \union {L}
        /\ UNCHANGED <<entries, mt, val, basemt, running, resumer, strcache>>
    BY <1>4 DEF CaptureLocal, refVars
  <2>2. In(v, NotDead)
    BY <2>1, KeptOperands DEF SafetyInv
  <2>3. \A w \in UpVals : IF w = u THEN uv'[w].th = L /\ uv'[w].v = v /\ uv'[w].touched
                          ELSE uv'[w] = uv[w]
    BY <2>1 DEF TypeOK, FuncsOK
  <2>. QED  BY <1>1, <1>2, <2>1, <2>2, <2>3, CreateSafe
<1>. QED  BY <1>3, <1>4

(* lua_pushstring, lua_pushlstring: a dead string is revived.              *)
LEMMA StringSafe ==
  ASSUME TypeOK, TypeOK', SafetyInv, NEW s \in Strings
  PROVE  NewString(s) \/ NewLString(s) => SafetyInv'
<1>. SUFFICES ASSUME NewString(s) \/ NewLString(s) PROVE SafetyInv'
  OBVIOUS
<1>1. /\ MutatorOn /\ Push(s)
      /\ UNCHANGED <<phaseVars, sweepVars, grayVars, refVars, funcVars, running, resumer, twups,
                     cstack>>
      /\ \/ s \in strcache /\ UNCHANGED <<color, listVars, strcache>>
         \/ Intern(s) /\ strcache' \subseteq strcache \union {s}
  BY DEF NewString, NewLString
<1>2. /\ L \in NotDead /\ L \in Threads /\ s \in Obj
      /\ s \notin Tables /\ s \notin Udatas /\ s \notin LClosures /\ s \notin Threads
      /\ s \notin CClosures /\ s \notin Protos
  BY Kinds, OneKind DEF L, SafetyInv, KeptOK, TypeOK, StackOK
<1>3. SameOpen
  BY <1>1 DEF SameOpen, funcVars
<1>4. /\ \A o \in Obj : o # s => color'[o] = color[o]
      /\ color'[s] = IF color[s] \in {"free", otherwhite} THEN currentwhite ELSE color[s]
      /\ allgc' = allgc \union {s} /\ finobj' = finobj /\ tobefnz' = tobefnz /\ finbit' = finbit
      /\ strcache' \subseteq strcache \union {s}
  <2>1. CASE s \in strcache /\ UNCHANGED <<color, listVars, strcache>>
    <3>1. s \in NotDead
      BY <2>1 DEF SafetyInv, KeptOK
    <3>2. color[s] \notin {"free", otherwhite} /\ s \in Alloc
      BY <3>1, ColorFacts
    <3>3. s \in allgc
      <4>1. s \in allgc \union finobj \union tobefnz
        BY <1>2, <3>2, Kinds DEF SafetyInv, ListsPartition
      <4>. QED  BY <1>2, <4>1 DEF SafetyInv, MetasOK
    <3>. QED  BY <2>1, <3>2, <3>3 DEF listVars
  <2>2. CASE Intern(s) /\ strcache' \subseteq strcache \union {s}
    BY <1>2, <2>2 DEF Intern, TypeOK, ListsOK
  <2>. QED  BY <1>1, <2>1, <2>2
<1>5. otherwhite' = otherwhite /\ currentwhite' = currentwhite
  BY <1>1 DEF otherwhite, phaseVars
<1>6. \A o \in Obj : PaintOK(o)
  BY <1>4 DEF PaintOK
<1>7. /\ NotDead' = NotDead \union {s} /\ Reached \subseteq Reached' /\ GrayOnes' = GrayOnes
      /\ \A o \in Obj : color'[o] = "free" => color[o] = "free" /\ o # s
      /\ \A o \in Obj : color'[o] = "black" => color[o] = "black"
  BY <1>2, <1>4, <1>5, ColorFacts, ColorFactsNext DEF Reached, GrayOnes
<1>8. ListsPartition'
  <2>1. Alloc' = Alloc \union {s}
    BY <1>2, <1>4, ColorFacts, ColorFactsNext
  <2>2. s \notin finobj \union tobefnz /\ s # MainThread
    BY <1>2, Kinds DEF SafetyInv, MetasOK
  <2>. QED  BY <1>4, <2>1, <2>2 DEF SafetyInv, ListsPartition
<1>9. SweepOK2'
  BY <1>1, <1>4, <1>6, PaintedSweep
<1>10. ASSUME NEW x \in Obj, NEW T, x # L \/ s \in T PROVE NewRefsIn(x, T)
  <2>1. CASE x \in Threads
    BY <1>1, <1>3, <1>10, <2>1, PushRefs
  <2>2. CASE x \notin Threads
    BY <1>1, <2>2, Untouched DEF refVars, funcVars
  <2>. QED  BY <2>1, <2>2
<1>11. ClosuresOK' /\ MetasOK'
  BY <1>1, <1>2, <1>4, Kinds DEF SafetyInv, ClosuresOK, MetasOK, refVars, funcVars
<1>12. TwupsOK'
  BY <1>1, <1>2, <1>7 DEF SafetyInv, TwupsOK, IsOpen, phaseVars, funcVars
<1>13. In(basemt', NotDead') /\ strcache' \subseteq NotDead' /\ twups' \subseteq NotDead'
  BY <1>1, <1>4, <1>7 DEF SafetyInv, KeptOK, In, refVars
<1>14. ASSUME NEW c \in LClosures, c \in NotDead', upv'[c] # Nil
       PROVE  In(uv'[upv'[c]].v, NotDead')
  BY <1>1, <1>2, <1>7, <1>14, KeptUpvalue DEF In, funcVars
<1>15. ASSUME NEW x \in Obj, color'[x] = "free"
       PROVE  /\ NewRefsIn(x, {})
              /\ x \in LClosures => upv'[x] = upv[x]
              /\ \A u \in UpVals : uv'[u].th # x
  <2>1. color[x] = "free" /\ x # L
    BY <1>2, <1>7, <1>15, ColorFacts
  <2>. QED  BY <1>1, <1>10, <2>1 DEF SafetyInv, FreeOK, funcVars
<1>16. ASSUME keepinvariant, NEW x \in Obj, color'[x] = "black"
       PROVE  /\ color[x] = "black" /\ NewRefsIn(x, Reached')
              /\ x \in LClosures => UpvalueOK(x)'
  <2>1. color[x] = "black" /\ x # L
    BY <1>2, <1>7, <1>16 DEF SafetyInv, KindsOK
  <2>2. x \in LClosures => UpvalueOK(x)
    BY <1>16, <2>1 DEF SafetyInv, BlackOK, Marking
  <2>3. x \in LClosures => UpvalueOK(x)'
    BY <1>1, <1>7, <1>16, <2>2, UpvalueSame DEF phaseVars, funcVars
  <2>. QED  BY <1>10, <2>1, <2>3
<1>17. \A th \in Threads : stk[th] \subseteq stk'[th]
  BY <1>1, <1>3, PushRefs
<1>18. \A x \in NotDead : NewRefsIn(x, NotDead')
  BY <1>7, <1>10, ColorFacts
<1>19. \A x \in NotDead' \ NotDead : BaseIn(x, NotDead)'
  BY <1>2, <1>7 DEF BaseIn
<1>. QED
  BY <1>1, <1>4, <1>6, <1>7, <1>8, <1>9, <1>11, <1>12, <1>13, <1>14, <1>15, <1>16, <1>17, <1>18,
     <1>19, MutatorSafe DEF grayVars

(***************************************************************************)
(* reallymarkobject.                                                       *)
(***************************************************************************)
(* What is marked was white; afterwards what was asked for is not, nor is  *)
(* what the userdata that were marked refer to.                            *)
LEMMA MarkFacts ==
  ASSUME NEW W, NEW c \in [Obj -> Colors], RefsOK
  PROVE  /\ MarkSet(W, c) \subseteq Obj
         /\ \A o \in MarkSet(W, c) :
              c[o] \in Whites /\ Marked(W, c)[o] = IF o \in Leaves THEN "black" ELSE "gray"
         /\ \A o \in Obj \ MarkSet(W, c) : Marked(W, c)[o] = c[o]
         /\ \A o \in Obj : Marked(W, c)[o] \in Whites => c[o] \in Whites /\ o \notin MarkSet(W, c)
         /\ \A x \in W : x \in Obj => Marked(W, c)[x] \notin Whites
         /\ \A u \in MarkSet(W, c) \intersect Udatas :
              /\ mt[u] \in Obj => Marked(W, c)[mt[u]] \notin Whites
              /\ val[u] \in Obj => Marked(W, c)[val[u]] \notin Whites
<1>. DEFINE U == MarkedUdatas(W, c)
            M == MarkSet(W, c)
<1>1. /\ M \subseteq Obj
      /\ \A o \in M : c[o] \in Whites /\ Marked(W, c)[o] = IF o \in Leaves THEN "black" ELSE "gray"
      /\ \A o \in Obj \ M : Marked(W, c)[o] = c[o]
  BY DEF MarkSet, Marked, White, Objs
<1>2. "gray" \notin Whites /\ "black" \notin Whites
  BY DEF Whites
<1>3. \A o \in Obj : Marked(W, c)[o] \in Whites => c[o] \in Whites /\ o \notin M
  BY <1>1, <1>2
<1>4. \A x \in Obj : x \in W \/ (\E u \in U : x = mt[u] \/ x = val[u]) => Marked(W, c)[x] \notin Whites
  <2>. SUFFICES ASSUME NEW x \in Obj, x \in W \/ (\E u \in U : x = mt[u] \/ x = val[u]),
                       c[x] \in Whites
                PROVE  x \in M
    BY <1>3
  <2>. QED  BY DEF MarkSet, White, Objs
<1>5. M \intersect Udatas \subseteq U
  <2>. SUFFICES ASSUME NEW x \in M, x \in Udatas PROVE x \in U
    OBVIOUS
  <2>1. x \in W \/ \E u \in U : x = mt[u] \/ x = val[u]
    BY DEF MarkSet, White, Objs
  <2>2. x \in White(c, Udatas)
    BY <1>1 DEF White
  <2>3. \A u \in U : mt[u] # x
    BY KindsDisjoint, NoClash, Kinds DEF MarkedUdatas, White, RefsOK
  <2>4. CASE x \in W
    BY <2>2, <2>4 DEF MarkedUdatas
  <2>5. CASE \E u \in U : x = val[u]
    BY <2>2, <2>5 DEF MarkedUdatas
  <2>. QED  BY <2>1, <2>3, <2>4, <2>5
<1>. QED  BY <1>1, <1>3, <1>4, <1>5

(* A barrier that marks keeps the gray lists and the black objects right.  *)
LEMMA MarkPaint ==
  ASSUME TypeOK, TypeOK', SafetyInv, MutatorOn, UNCHANGED phaseVars, keepinvariant,
         NEW V, \A v \in V : In(v, NotDead), Mark(V, color, gray)
  PROVE  /\ \A x \in Obj : PaintOK(x)
         /\ gray' = gray \union (GrayOnes' \ GrayOnes)
         /\ \A v \in V : In(v, Reached')
         /\ \A x \in Obj : color'[x] = "free" <=> color[x] = "free"
         /\ \A x \in Obj : color'[x] = "black" =>
              \/ color[x] = "black"
              \/ x \in Strings
              \/ x \in Udatas /\ In(mt[x], Reached') /\ In(val[x], Reached')
<1>. DEFINE M == MarkSet(V, color)
<1>1. color \in [Obj -> Colors] /\ RefsOK
  BY DEF TypeOK, ListsOK
<1>2. /\ M \subseteq Obj
      /\ \A o \in M : color[o] \in Whites /\ color'[o] = IF o \in Leaves THEN "black" ELSE "gray"
      /\ \A o \in Obj \ M : color'[o] = color[o]
      /\ \A x \in V : x \in Obj => color'[x] \notin Whites
      /\ \A u \in M \intersect Udatas : /\ mt[u] \in Obj => color'[mt[u]] \notin Whites
                                        /\ val[u] \in Obj => color'[val[u]] \notin Whites
  BY <1>1, MarkFacts DEF Mark
<1>3. gray' = gray \union (M \ Leaves)
  BY DEF Mark
<1>. HIDE DEF M
<1>4. \A x \in Obj : PaintOK(x)
  BY <1>2 DEF PaintOK
<1>5. gray' = gray \union (GrayOnes' \ GrayOnes)
  <2>1. GrayOnes' \ GrayOnes = M \ Leaves
    BY <1>2, ColorFacts DEF GrayOnes
  <2>. QED  BY <1>3, <2>1
<1>6. \A x \in Obj : color'[x] = "free" <=> color[x] = "free"
  BY <1>2, ColorFacts
<1>7. \A x \in NotDead : color'[x] \notin Whites => x \in Reached'
  BY <1>4, Painted
<1>8. \A v \in V : In(v, Reached')
  BY <1>2, <1>7 DEF In
<1>9. ASSUME NEW x \in Udatas, x \in M PROVE In(mt[x], Reached') /\ In(val[x], Reached')
  <2>1. x \in NotDead
    BY <1>2, <1>9, Kinds, ColorFacts DEF SafetyInv, WhitesOK, Marking
  <2>2. In(mt[x], NotDead) /\ In(val[x], NotDead)
    BY <2>1 DEF SafetyInv, KeptOK, FieldsIn, BaseIn
  <2>. QED  BY <1>2, <1>7, <1>9, <2>2 DEF In
<1>10. ASSUME NEW x \in Obj, color'[x] = "black"
       PROVE  \/ color[x] = "black"
              \/ x \in Strings
              \/ x \in Udatas /\ In(mt[x], Reached') /\ In(val[x], Reached')
  BY <1>2, <1>9, <1>10 DEF Leaves
<1>. QED  BY <1>4, <1>5, <1>6, <1>8, <1>10

(* luaC_barrier.                                                           *)
LEMMA BarrierPaint ==
  ASSUME TypeOK, TypeOK', SafetyInv, MutatorOn, UNCHANGED phaseVars,
         NEW o \in Obj, NEW v, In(v, NotDead), Barrier(o, v)
  PROVE  /\ \A x \in Obj : PaintOK(x)
         /\ keepinvariant => gray' = gray \union (GrayOnes' \ GrayOnes)
         /\ keepinvariant /\ color'[o] = "black" => In(v, Reached')
         /\ color[o] # "black" => color'[o] # "black"
         /\ \A x \in Obj : color'[x] = "free" <=> color[x] = "free"
         /\ \A x \in Obj : color'[x] = "black" =>
              \/ color[x] = "black"
              \/ keepinvariant /\ x \in Strings
              \/ keepinvariant /\ x \in Udatas /\ In(mt[x], Reached') /\ In(val[x], Reached')
<1>1. CASE color[o] = "black" /\ v \in Obj /\ IsWhite(v) /\ keepinvariant
  <2>1. Mark({v}, color, gray) /\ \A w \in {v} : In(w, NotDead)
    BY <1>1 DEF Barrier
  <2>. QED  BY <1>1, <2>1, MarkPaint
<1>2. CASE color[o] = "black" /\ v \in Obj /\ IsWhite(v) /\ ~keepinvariant
  <2>1. color' = [color EXCEPT ![o] = currentwhite]
    BY <1>2 DEF Barrier
  <2>2. \A x \in Obj : color'[x] = IF x = o THEN currentwhite ELSE color[x]
    BY <2>1, ColorFacts
  <2>. QED  BY <1>2, <2>2, ColorFacts DEF PaintOK
<1>3. CASE ~(color[o] = "black" /\ v \in Obj /\ IsWhite(v))
  <2>1. color' = color /\ gray' = gray
    BY <1>3 DEF Barrier
  <2>2. color[o] = "black" => In(v, Reached)
    BY <1>3, ColorFacts DEF In, Reached, IsWhite, Colors
  <2>. QED  BY <2>1, <2>2 DEF PaintOK, GrayOnes, Reached, In
<1>. QED  BY <1>1, <1>2, <1>3

(***************************************************************************)
(* Stores.                                                                 *)
(***************************************************************************)
(* A store changes the fields of one object and runs into a barrier.       *)
LEMMA StoreSafe ==
  ASSUME TypeOK, TypeOK', SafetyInv, MutatorOn,
         NEW o \in Obj, o \in NotDead, o \notin LClosures, o \notin Threads,
         UNCHANGED <<phaseVars, tobefnz, weak, ephemeron, allweak, funcVars, stackVars, cstack>>,
         \A x \in Tables : x # o => entries'[x] = entries[x],
         \A x \in Tables \union Udatas : x # o => mt'[x] = mt[x],
         \A x \in Udatas \union CClosures : x # o => val'[x] = val[x],
         ListsPartition', SweepOK2', MetasOK', In(basemt', NotDead),
         \A x \in Obj : PaintOK(x),
         \A x \in Obj : color'[x] = "free" <=> color[x] = "free",
         keepinvariant =>
           \/ gray' = gray \union (GrayOnes' \ GrayOnes) /\ grayagain' = grayagain
           \/ gray' = gray /\ grayagain' = grayagain \union (GrayOnes' \ GrayOnes),
         \A x \in Obj : color'[x] = "black" =>
           \/ color[x] = "black"
           \/ x # o /\ x \in Strings
           \/ x # o /\ x \in Udatas /\ In(mt[x], Reached') /\ In(val[x], Reached'),
         NewRefsIn(o, NotDead'),
         keepinvariant /\ color'[o] = "black" => NewRefsIn(o, Reached')
  PROVE  SafetyInv'
<1>. USE DEF stackVars
<1>1. SameOpen
  BY DEF SameOpen, funcVars
<1>2. \A x \in Obj \ {o} : \A T : NewRefsIn(x, T)
  BY <1>1, Untouched DEF funcVars
<1>3. /\ NotDead \subseteq NotDead'
      /\ \A x \in NotDead' \ NotDead : x \in Strings
      /\ keepinvariant => Reached \subseteq Reached'
  BY Painted, ColorFactsNext
<1>4. ClosuresOK'
  BY Kinds DEF SafetyInv, ClosuresOK, funcVars
<1>5. TwupsOK'
  BY <1>3, OneKind DEF SafetyInv, TwupsOK, IsOpen, phaseVars, funcVars
<1>6. In(basemt', NotDead') /\ strcache' \subseteq NotDead' /\ twups' \subseteq NotDead'
  BY <1>3 DEF SafetyInv, KeptOK, In
<1>7. \A x \in NotDead : NewRefsIn(x, NotDead')
  BY <1>2, ColorFacts
<1>8. \A x \in NotDead' \ NotDead : BaseIn(x, NotDead)'
  BY <1>3, OneKind DEF BaseIn
<1>9. ASSUME NEW c \in LClosures, c \in NotDead', upv'[c] # Nil
      PROVE  In(uv'[upv'[c]].v, NotDead')
  <2>1. c \in NotDead
    BY <1>3, <1>9, OneKind
  <2>. QED  BY <1>3, <2>1, KeptUpvalue DEF In, funcVars
<1>10. ASSUME NEW x \in Obj, color'[x] = "free"
       PROVE  /\ NewRefsIn(x, {})
              /\ x \in LClosures => upv'[x] = upv[x]
              /\ \A u \in UpVals : uv'[u].th # x
  <2>1. color[x] = "free" /\ x # o
    BY <1>10, ColorFacts
  <2>. QED  BY <1>2, <2>1 DEF SafetyInv, FreeOK, funcVars
<1>11. ASSUME keepinvariant, NEW x \in Obj, color'[x] = "black"
       PROVE  /\ \/ color[x] = "black" /\ NewRefsIn(x, Reached')
                 \/ BaseIn(x, Reached)'
              /\ x \in LClosures => UpvalueOK(x)'
  <2>1. CASE color[x] = "black"
    <3>1. NewRefsIn(x, Reached')
      BY <1>2, <1>11
    <3>2. x \in LClosures => UpvalueOK(x)
      BY <1>11, <2>1 DEF SafetyInv, BlackOK, Marking
    <3>3. x \in LClosures => UpvalueOK(x)'
      BY <1>3, <1>11, <3>2, UpvalueSame DEF phaseVars, funcVars
    <3>. QED  BY <2>1, <3>1, <3>3
  <2>2. CASE x # o /\ x \in Strings
    BY <2>2, OneKind DEF BaseIn
  <2>3. CASE x # o /\ x \in Udatas /\ In(mt[x], Reached') /\ In(val[x], Reached')
    BY <2>3, OneKind DEF BaseIn, In
  <2>. QED  BY <1>11, <2>1, <2>2, <2>3
<1>. QED
  BY <1>3, <1>4, <1>5, <1>6, <1>7, <1>8, <1>9, <1>10, <1>11, MutatorSafe

(* lua_setuservalue, lua_setupvalue of a C closure, lua_setmetatable.      *)
LEMMA FieldStoreSafe ==
  ASSUME TypeOK, TypeOK', SafetyInv
  PROVE  /\ \A w \in Vals : SetVal(w[1], w[2]) => SafetyInv'
         /\ \A w \in Metas : SetMetatable(w[1], w[2]) => SafetyInv'
         /\ \A w \in Metas : SetFinalizer(w[1], w[2]) => SafetyInv'
<1>1. ASSUME NEW o \in Obj, o \notin LClosures, o \notin Threads, o \in stk[L], NEW v,
             v \in Operand, MutatorOn, Barrier(o, v),
             UNCHANGED <<phaseVars, tobefnz, sweepVars, grayagain, weak, ephemeron, allweak, entries,
                         basemt, funcVars, stackVars, cstack>>,
             \A x \in Tables \union Udatas : x # o => mt'[x] = mt[x],
             \A x \in Udatas \union CClosures : x # o => val'[x] = val[x],
             o \in Tables \union Udatas => mt'[o] \in {mt[o], v},
             o \in Udatas \union CClosures => val'[o] \in {val[o], v},
             ListsPartition', SweepOK2', MetasOK'
      PROVE  SafetyInv'
  <2>1. o \in NotDead /\ In(v, NotDead)
    BY <1>1, KeptOperands DEF SafetyInv
  <2>2. /\ \A x \in Obj : PaintOK(x)
        /\ keepinvariant => gray' = gray \union (GrayOnes' \ GrayOnes)
        /\ keepinvariant /\ color'[o] = "black" => In(v, Reached')
        /\ color[o] # "black" => color'[o] # "black"
        /\ \A x \in Obj : color'[x] = "free" <=> color[x] = "free"
        /\ \A x \in Obj : color'[x] = "black" =>
              \/ color[x] = "black"
              \/ keepinvariant /\ x \in Strings
              \/ keepinvariant /\ x \in Udatas /\ In(mt[x], Reached') /\ In(val[x], Reached')
    BY <1>1, <2>1, BarrierPaint
  <2>3. ASSUME NEW T, In(v, T) PROVE NewRefsIn(o, T)
    <3>1. /\ o \in Tables \union Udatas => mt'[o] = mt[o] \/ In(mt'[o], T)
          /\ o \in Udatas \union CClosures => val'[o] = val[o] \/ In(val'[o], T)
      BY <1>1, <2>3
    <3>2. o \in Tables => entries'[o] = entries[o]
      BY <1>1
    <3>3. o \in Protos => cache'[o] = cache[o]
      BY <1>1 DEF funcVars
    <3>. QED  BY <1>1, <3>1, <3>2, <3>3 DEF NewRefsIn, Keys, Values
  <2>4. NotDead \subseteq NotDead'
    BY <1>1, <2>2, Painted
  <2>5. NewRefsIn(o, NotDead')
    BY <2>1, <2>3, <2>4 DEF In
  <2>6. keepinvariant /\ color'[o] = "black" => NewRefsIn(o, Reached')
    BY <2>2, <2>3
  <2>7. In(basemt', NotDead)
    BY <1>1 DEF SafetyInv, KeptOK
  <2>. QED  BY <1>1, <2>1, <2>2, <2>5, <2>6, <2>7, StoreSafe
<1>2. ASSUME NEW o \in Obj, NEW v, v \in Operand, o \in stk[L], MutatorOn, Barrier(o, v),
             UNCHANGED <<phaseVars, grayagain, sweepVars, listVars>>
      PROVE  ListsPartition' /\ SweepOK2' /\ (\A x \in Obj : color'[x] = "free" <=> color[x] = "free")
  <2>1. In(v, NotDead)
    BY <1>2, KeptOperands DEF SafetyInv
  <2>2. /\ \A x \in Obj : PaintOK(x)
        /\ \A x \in Obj : color'[x] = "free" <=> color[x] = "free"
    BY <1>2, <2>1, BarrierPaint
  <2>3. Alloc' = Alloc
    BY <2>2 DEF Alloc
  <2>4. ListsPartition'
    BY <1>2, <2>3 DEF SafetyInv, ListsPartition, listVars
  <2>5. SweepOK2'
    BY <1>2, <2>2, PaintedSweep DEF listVars
  <2>. QED  BY <2>2, <2>4, <2>5
<1>3. ASSUME NEW w \in Vals, SetVal(w[1], w[2]) PROVE SafetyInv'
  <2>1. w[1] \in Udatas \union CClosures
    BY MutatorAssumption
  <2>2. w[1] \in Obj /\ w[1] \notin LClosures /\ w[1] \notin Threads
    BY <2>1, Kinds, OneKind
  <2>3. /\ MutatorOn /\ w[1] \in stk[L] /\ w[2] \in Operand /\ Barrier(w[1], w[2])
        /\ val' = [val EXCEPT ![w[1]] = w[2]]
        /\ UNCHANGED <<listVars, tobefnz, phaseVars, sweepVars, grayagain, weak, ephemeron, allweak,
                       entries, mt, basemt, funcVars, stackVars, cstack>>
    BY <1>3 DEF SetVal, listVars
  <2>4. ListsPartition' /\ SweepOK2'
    BY <1>2, <2>2, <2>3
  <2>5. MetasOK'
    BY <2>3 DEF SafetyInv, MetasOK, listVars
  <2>6. \A x \in Udatas \union CClosures : val'[x] = IF x = w[1] THEN w[2] ELSE val[x]
    BY <2>3 DEF TypeOK, RefsOK
  <2>. QED  BY <1>1, <2>2, <2>3, <2>4, <2>5, <2>6
<1>4. ASSUME NEW w \in Metas
      PROVE  /\ w[1] \in Obj /\ w[1] \notin LClosures /\ w[1] \notin Threads
             /\ w[1] \in Tables \union Udatas /\ w[2] \in Tables \union {Nil}
  BY MutatorAssumption, Kinds, OneKind
<1>5. ASSUME NEW w \in Metas, mt' = [mt EXCEPT ![w[1]] = w[2]]
      PROVE  /\ \A x \in Tables \union Udatas : mt'[x] = IF x = w[1] THEN w[2] ELSE mt[x]
             /\ \A o \in Tables \union Udatas : mt'[o] # Nil => <<o, mt'[o]>> \in Metas
  <2>1. \A x \in Tables \union Udatas : mt'[x] = IF x = w[1] THEN w[2] ELSE mt[x]
    BY <1>5 DEF TypeOK, RefsOK
  <2>2. <<w[1], w[2]>> \in Metas
    BY MutatorAssumption
  <2>. QED  BY <2>1, <2>2 DEF SafetyInv, MetasOK
<1>6. ASSUME NEW w \in Metas, SetMetatable(w[1], w[2]) PROVE SafetyInv'
  <2>1. /\ MutatorOn /\ w[1] \in stk[L] /\ w[2] \in Operand /\ Barrier(w[1], w[2])
        /\ mt' = [mt EXCEPT ![w[1]] = w[2]]
        /\ UNCHANGED <<listVars, tobefnz, phaseVars, sweepVars, grayagain, weak, ephemeron, allweak,
                       entries, val, basemt, funcVars, stackVars, cstack>>
    BY <1>6 DEF SetMetatable, listVars, Operand
  <2>2. ListsPartition' /\ SweepOK2'
    BY <1>2, <1>4, <2>1
  <2>3. MetasOK'
    BY <1>5, <2>1 DEF SafetyInv, MetasOK, listVars
  <2>. QED  BY <1>1, <1>4, <1>5, <2>1, <2>2, <2>3
<1>7. ASSUME NEW w \in Metas, SetFinalizer(w[1], w[2]) PROVE SafetyInv'
  <2>1. /\ MutatorOn /\ w[1] \in stk[L] /\ w[2] \in Operand /\ Barrier(w[1], w[2])
        /\ NeedsFinobj(w[1], w[2]) /\ ~issweepphase
        /\ mt' = [mt EXCEPT ![w[1]] = w[2]]
        /\ allgc' = allgc \ {w[1]} /\ finobj' = finobj \union {w[1]}
        /\ finbit' = finbit \union {w[1]}
        /\ UNCHANGED <<tobefnz, phaseVars, sweepVars, grayagain, weak, ephemeron, allweak,
                       entries, val, basemt, funcVars, stackVars, cstack>>
    BY <1>7 DEF SetFinalizer, Operand
  <2>2. In(w[2], NotDead) /\ w[1] \in NotDead
    BY <2>1, KeptOperands DEF SafetyInv
  <2>3. \A x \in Obj : color'[x] = "free" <=> color[x] = "free"
    BY <1>4, <2>1, <2>2, BarrierPaint
  <2>4. Alloc' = Alloc
    BY <2>3 DEF Alloc
  <2>5. ListsPartition'
    <3>1. w[1] \in Alloc /\ w[1] # MainThread /\ w[1] \notin finbit
      BY <1>4, <2>1, <2>2, Kinds, OneKind, ColorFacts DEF NeedsFinobj
    <3>. QED  BY <2>1, <2>4, <3>1 DEF SafetyInv, ListsPartition
  <2>6. SweepOK2'
    BY <2>1 DEF SafetyInv, SweepOK2, issweepphase, SweepStates, phaseVars, sweepVars
  <2>7. MetasOK'
    BY <1>4, <1>5, <2>1 DEF SafetyInv, MetasOK
  <2>. QED  BY <1>1, <1>4, <1>5, <2>1, <2>5, <2>6, <2>7
<1>. QED  BY <1>3, <1>6, <1>7

(* luaV_finishset and luaH_newkey; assigning nil; the basic metatables.    *)
LEMMA TableStoreSafe ==
  ASSUME TypeOK, TypeOK', SafetyInv
  PROVE  /\ \A w \in Writes : SetTable(w[1], w[2], w[3]) => SafetyInv'
         /\ \A t \in Tables : \A e \in entries[t] : ClearEntry(t, e) => SafetyInv'
         /\ \A m \in BaseMetas : SetBaseMt(m) => SafetyInv'
<1>1. ASSUME NEW t \in Tables, t \in NotDead, MutatorOn,
             UNCHANGED <<listVars, phaseVars, sweepVars, gray, weak, ephemeron, allweak, mt, val,
                         funcVars, stackVars, cstack>>,
             In(basemt', NotDead),
             \A x \in Tables : x # t => entries'[x] = entries[x],
             \A x \in Obj : \/ color'[x] = color[x]
                            \/ x = t /\ color[x] = "black" /\ color'[x] = "gray",
             grayagain' = grayagain \union (GrayOnes' \ GrayOnes),
             NewRefsIn(t, NotDead'),
             keepinvariant /\ color'[t] = "black" => NewRefsIn(t, Reached')
      PROVE  SafetyInv'
  <2>1. t \in Obj /\ t \notin LClosures /\ t \notin Threads
    BY Kinds, OneKind
  <2>2. \A x \in Obj : PaintOK(x)
    BY <1>1 DEF PaintOK
  <2>3. /\ \A x \in Obj : color'[x] = "free" <=> color[x] = "free"
        /\ \A x \in Obj : color'[x] = "black" => color[x] = "black"
    BY <1>1
  <2>4. Alloc' = Alloc
    BY <2>3 DEF Alloc
  <2>5. ListsPartition'
    BY <1>1, <2>4 DEF SafetyInv, ListsPartition, listVars
  <2>6. SweepOK2'
    BY <1>1, <2>2, PaintedSweep DEF listVars
  <2>7. MetasOK'
    BY <1>1 DEF SafetyInv, MetasOK, listVars
  <2>. QED  BY <1>1, <2>1, <2>2, <2>3, <2>5, <2>6, <2>7, StoreSafe DEF listVars
<1>2. ASSUME NEW w \in Writes, SetTable(w[1], w[2], w[3]) PROVE SafetyInv'
  <2>. DEFINE t == w[1]
              k == w[2]
              v == w[3]
              V == IF k \in Keys(t) THEN {v} ELSE {k, v}
  <2>1. t \in Tables /\ t \in Obj
    BY MutatorAssumption, Kinds
  <2>2. /\ MutatorOn /\ t \in Held /\ k \in Operand /\ v \in Operand
        /\ entries' = [entries EXCEPT ![t] = {e \in @ : e[1] # k} \union {<<k, v>>}]
        /\ BarrierBack(t, V)
        /\ UNCHANGED <<listVars, phaseVars, sweepVars, gray, weak, ephemeron, allweak,
                       mt, val, basemt, funcVars, stackVars, cstack>>
    BY <1>2 DEF SetTable
  <2>3. t \in NotDead /\ In(k, NotDead) /\ In(v, NotDead) /\ In(basemt', NotDead)
    BY <2>2, KeptOperands DEF SafetyInv
  <2>4. /\ entries'[t] = {e \in entries[t] : e[1] # k} \union {<<k, v>>}
        /\ \A x \in Tables : x # t => entries'[x] = entries[x]
    BY <2>1, <2>2 DEF TypeOK, RefsOK
  <2>13. v \in V /\ (k \in Keys(t) \/ k \in V)
    OBVIOUS
  <2>. HIDE DEF t, k, v, V
  <2>5. ASSUME NEW T, In(v, T), k \in Keys(t) \/ In(k, T) PROVE NewRefsIn(t, T)
    <3>1. mt'[t] = mt[t] /\ t \notin Udatas /\ t \notin CClosures /\ t \notin LClosures
          /\ t \notin Protos /\ t \notin Threads
      BY <2>1, <2>2, OneKind
    <3>2. ASSUME NEW e \in entries'[t]
          PROVE  (e[1] \in Keys(t) \/ In(e[1], T)) /\ (e[2] \in Values(t) \/ In(e[2], T))
      <4>1. CASE e \in entries[t]
        BY <4>1 DEF Keys, Values
      <4>2. CASE e = <<k, v>>
        BY <2>5, <4>2
      <4>. QED  BY <2>4, <4>1, <4>2
    <3>. QED  BY <3>1, <3>2 DEF NewRefsIn
  <2>6. \/ /\ color[t] = "black" /\ \E x \in Objs(V) : IsWhite(x)
           /\ \A x \in Obj : color'[x] = IF x = t THEN "gray" ELSE color[x]
           /\ grayagain' = grayagain \union {t}
        \/ /\ color[t] = "black" => \A x \in Objs(V) : ~IsWhite(x)
           /\ color' = color /\ grayagain' = grayagain
    <3>1. CASE color[t] = "black" /\ \E x \in Objs(V) : IsWhite(x)
      <4>1. color' = [color EXCEPT ![t] = "gray"] /\ grayagain' = grayagain \union {t}
        BY <2>2, <3>1 DEF BarrierBack
      <4>. QED  BY <2>1, <3>1, <4>1 DEF TypeOK, ListsOK
    <3>2. CASE ~(color[t] = "black" /\ \E x \in Objs(V) : IsWhite(x))
      BY <2>2, <3>2 DEF BarrierBack
    <3>. QED  BY <3>1, <3>2
  <2>7. \A x \in Obj : \/ color'[x] = color[x]
                       \/ x = t /\ color[x] = "black" /\ color'[x] = "gray"
    BY <2>6
  <2>8. grayagain' = grayagain \union (GrayOnes' \ GrayOnes)
    BY <2>1, <2>6 DEF GrayOnes
  <2>9. \A x \in Obj : PaintOK(x)
    BY <2>1, <2>7 DEF PaintOK
  <2>10. NotDead \subseteq NotDead'
    BY <2>2, <2>9, Painted
  <2>11. NewRefsIn(t, NotDead')
    BY <2>3, <2>5, <2>10 DEF In
  <2>12. ASSUME keepinvariant, color'[t] = "black" PROVE NewRefsIn(t, Reached')
    <3>1. color' = color /\ \A x \in Objs(V) : ~IsWhite(x)
      BY <2>1, <2>6, <2>12
    <3>2. \A x \in NotDead : ~IsWhite(x) => x \in Reached'
      BY <3>1, ColorFacts DEF IsWhite, Reached, Colors
    <3>4. In(v, Reached') /\ (k \in Keys(t) \/ In(k, Reached'))
      BY <2>3, <2>13, <3>1, <3>2 DEF Objs, In
    <3>. QED  BY <2>5, <3>4
  <2>. QED  BY <1>1, <2>1, <2>2, <2>3, <2>4, <2>7, <2>8, <2>11, <2>12
<1>3. ASSUME NEW t \in Tables, t \in NotDead, MutatorOn,
             UNCHANGED <<color, listVars, phaseVars, sweepVars, grayVars, mt, val, funcVars,
                         stackVars, cstack>>,
             In(basemt', NotDead),
             \A x \in Tables : entries'[x] \subseteq entries[x],
             \A x \in Tables : x # t => entries'[x] = entries[x]
      PROVE  SafetyInv'
  <2>1. \A T : NewRefsIn(t, T)
    BY <1>3, OneKind DEF NewRefsIn, Keys, Values
  <2>2. NewRefsIn(t, NotDead') /\ NewRefsIn(t, Reached')
    BY <2>1
  <2>3. grayagain' = grayagain \union (GrayOnes' \ GrayOnes)
    BY <1>3 DEF GrayOnes, grayVars
  <2>4. UNCHANGED <<gray, weak, ephemeron, allweak>> /\ \A x \in Obj : color'[x] = color[x]
    BY <1>3 DEF grayVars
  <2>5. UNCHANGED <<listVars, phaseVars, sweepVars, gray, weak, ephemeron, allweak, mt, val,
                    funcVars, stackVars, cstack>>
    BY <1>3, <2>4
  <2>. QED  BY <1>1, <1>3, <2>2, <2>3, <2>4, <2>5
<1>4. ASSUME NEW t \in Tables, NEW e \in entries[t], ClearEntry(t, e) PROVE SafetyInv'
  <2>1. t \in NotDead /\ In(basemt', NotDead)
    BY <1>4, KeptOperands DEF SafetyInv, ClearEntry
  <2>2. \A x \in Tables : entries'[x] = IF x = t THEN entries[t] \ {e} ELSE entries[x]
    BY <1>4 DEF ClearEntry, TypeOK, RefsOK
  <2>. QED  BY <1>3, <1>4, <2>1, <2>2 DEF ClearEntry
<1>5. ASSUME NEW m \in BaseMetas, SetBaseMt(m) PROVE SafetyInv'
  <2>1. In(m, NotDead) /\ Registry \in NotDead /\ Registry \in Tables
    BY <1>5, Kinds, KeptOperands DEF SafetyInv, SetBaseMt, Operand, KeptOK
  <2>. QED  BY <1>3, <1>5, <2>1 DEF SetBaseMt
<1>. QED  BY <1>2, <1>4, <1>5

(***************************************************************************)
(* Upvalues.                                                               *)
(***************************************************************************)
(* luaC_upvalbarrier, or no barrier.                                       *)
LEMMA UpvalPaint ==
  ASSUME TypeOK, TypeOK', SafetyInv, MutatorOn, UNCHANGED phaseVars,
         NEW V, \A v \in V : In(v, NotDead), UpvalBarrier(V) \/ UNCHANGED <<color, gray>>
  PROVE  /\ \A x \in Obj : PaintOK(x)
         /\ keepinvariant => gray' = gray \union (GrayOnes' \ GrayOnes)
         /\ keepinvariant /\ UpvalBarrier(V) => \A v \in V : In(v, Reached')
         /\ \A x \in Obj : color'[x] = "free" <=> color[x] = "free"
         /\ \A x \in Obj : color'[x] = "black" =>
              \/ color[x] = "black"
              \/ x \in Strings
              \/ x \in Udatas /\ In(mt[x], Reached') /\ In(val[x], Reached')
<1>1. CASE keepinvariant /\ UpvalBarrier(V)
  <2>1. Mark(V, color, gray)
    BY <1>1 DEF UpvalBarrier
  <2>. QED  BY <1>1, <2>1, MarkPaint
<1>2. CASE ~(keepinvariant /\ UpvalBarrier(V))
  <2>1. color' = color /\ gray' = gray
    BY <1>2 DEF UpvalBarrier
  <2>. QED  BY <1>2, <2>1 DEF PaintOK, GrayOnes
<1>. QED  BY <1>1, <1>2

(* Cells get values, are closed, are taken over by closures.  Only what    *)
(* the barrier has seen gets into a closed cell.                           *)
LEMMA CellsSafe ==
  ASSUME TypeOK, TypeOK', SafetyInv, MutatorOn,
         UNCHANGED <<listVars, phaseVars, sweepVars, grayagain, weak, ephemeron, allweak, refVars,
                     clp, cache, running, resumer, twups, strcache>>,
         PhasesOK', ThreadsOK', FramesOK',
         NEW V, \A v \in V : In(v, NotDead),
         UpvalBarrier(V) \/ (V = {} /\ UNCHANGED <<color, gray>>),
         \A th \in Threads : /\ stk'[th] \subseteq stk[th]
                             /\ \/ stale'[th] = stale[th]
                                \/ th \in NotDead /\ In(stale'[th], NotDead),
         \A u \in UpVals :
           /\ uv'[u].th \in Threads => uv'[u].th = uv[u].th
           /\ uv'[u].v = uv[u].v \/ In(uv'[u].v, NotDead)
           /\ IsOpen(u) /\ uv[u].touched => uv'[u].th \notin Threads \/ uv'[u].touched
           /\ uv'[u].th \notin Threads => \/ ~IsOpen(u) /\ uv'[u].v = uv[u].v
                                          \/ In(uv'[u].v, V),
         \A c \in LClosures :
           \/ upv'[c] = upv[c]
           \/ /\ c \in NotDead /\ upv'[c] \in UpVals /\ In(uv'[upv'[c]].v, NotDead)
              /\ IF uv'[upv'[c]].th \in Threads THEN uv'[upv'[c]].touched ELSE In(uv'[upv'[c]].v, V)
  PROVE  SafetyInv'
<1>1. /\ \A x \in Obj : PaintOK(x)
      /\ keepinvariant => gray' = gray \union (GrayOnes' \ GrayOnes)
      /\ keepinvariant => \A v \in V : In(v, Reached')
      /\ \A x \in Obj : color'[x] = "free" <=> color[x] = "free"
      /\ \A x \in Obj : color'[x] = "black" =>
              \/ color[x] = "black"
              \/ x \in Strings
              \/ x \in Udatas /\ In(mt[x], Reached') /\ In(val[x], Reached')
  BY UpvalPaint
<1>2. /\ NotDead \subseteq NotDead'
      /\ \A x \in NotDead' \ NotDead : x \in Strings
      /\ keepinvariant => Reached \subseteq Reached'
  BY <1>1, Painted, ColorFactsNext
<1>3. Alloc' = Alloc
  BY <1>1 DEF Alloc
<1>4. ListsPartition' /\ MetasOK'
  BY <1>3 DEF SafetyInv, ListsPartition, MetasOK, listVars, refVars
<1>5. SweepOK2'
  BY <1>1, PaintedSweep DEF listVars
<1>6. ASSUME NEW c \in LClosures, color'[c] # "free"
      PROVE  clp'[c] \in Protos /\ upv'[c] \in UpVals
  BY <1>1, <1>6, Kinds DEF SafetyInv, ClosuresOK
<1>7. ClosuresOK'
  BY <1>6 DEF ClosuresOK
<1>8. TwupsOK'
  <2>1. ASSUME NEW u \in UpVals, uv'[u].th \in Threads, uv'[u].th \in NotDead'
        PROVE  IsOpen(u) /\ uv[u].th = uv'[u].th /\ uv[u].th \in NotDead
    BY <1>2, <2>1, OneKind DEF IsOpen
  <2>. QED  BY <2>1 DEF SafetyInv, TwupsOK, IsOpen, phaseVars
<1>9. ASSUME NEW x \in Obj, NEW T, x \notin Threads PROVE NewRefsIn(x, T)
  BY <1>9, Untouched DEF refVars
<1>10. ASSUME NEW x \in Threads PROVE NewRefsIn(x, NotDead')
  <2>1. /\ x \notin Tables /\ x \notin Udatas /\ x \notin CClosures /\ x \notin LClosures
        /\ x \notin Protos
    BY OneKind
  <2>2. stk'[x] \subseteq stk[x] \union NotDead'
    OBVIOUS
  <2>3. stale'[x] = stale[x] \/ In(stale'[x], NotDead')
    BY <1>2 DEF In
  <2>4. ASSUME NEW u \in UpVals, uv'[u].th = x
        PROVE  \/ uv[u].th = x /\ uv'[u].v = uv[u].v
               \/ In(uv'[u].v, NotDead')
    BY <1>2, <2>4 DEF In
  <2>. QED  BY <2>1, <2>2, <2>3, <2>4 DEF NewRefsIn
<1>11. \A x \in NotDead : NewRefsIn(x, NotDead')
  BY <1>9, <1>10, ColorFacts
<1>12. \A x \in NotDead' \ NotDead : BaseIn(x, NotDead)'
  BY <1>2, OneKind DEF BaseIn
<1>13. ASSUME NEW c \in LClosures, c \in NotDead', upv'[c] # Nil
       PROVE  In(uv'[upv'[c]].v, NotDead')
  <2>1. CASE upv'[c] = upv[c]
    <3>1. c \in NotDead
      BY <1>2, <1>13, OneKind
    <3>2. upv[c] \in UpVals /\ In(uv[upv[c]].v, NotDead)
      BY <3>1, KeptUpvalue
    <3>. QED  BY <1>2, <2>1, <3>2 DEF In
  <2>2. CASE upv'[c] # upv[c]
    BY <1>2, <2>2 DEF In
  <2>. QED  BY <2>1, <2>2
<1>14. ASSUME NEW x \in Obj, color'[x] = "free"
       PROVE  /\ NewRefsIn(x, {})
              /\ x \in LClosures => upv'[x] = upv[x]
              /\ \A u \in UpVals : uv'[u].th # x
  <2>1. color[x] = "free" /\ x \notin NotDead /\ \A u \in UpVals : uv[u].th # x
    BY <1>1, <1>14, ColorFacts DEF SafetyInv, FreeOK
  <2>2. \A u \in UpVals : uv'[u].th # x
    <3>. SUFFICES ASSUME NEW u \in UpVals, uv'[u].th = x PROVE FALSE
      OBVIOUS
    <3>1. uv'[u].th \in Threads
      <4>1. uv'[u] \in Cell
        BY DEF TypeOK, FuncsOK
      <4>2. uv'[u].th \in Threads \union {"closed", "free"}
        BY <4>1 DEF Cell
      <4>. QED  BY <4>2, Kinds
    <3>. QED  BY <2>1, <3>1
  <2>3. CASE x \in Threads
    <3>1. stale'[x] = stale[x]
      BY <2>1, <2>3
    <3>2. /\ x \notin Tables /\ x \notin Udatas /\ x \notin CClosures /\ x \notin LClosures
          /\ x \notin Protos
      BY <2>3, OneKind
    <3>3. NewRefsIn(x, {})
      BY <2>2, <2>3, <3>1, <3>2 DEF NewRefsIn
    <3>. QED  BY <2>1, <2>2, <3>2, <3>3
  <2>4. CASE x \notin Threads
    BY <1>9, <2>1, <2>2, <2>4
  <2>. QED  BY <2>3, <2>4
<1>15. ASSUME keepinvariant, NEW x \in Obj, color'[x] = "black"
       PROVE  /\ \/ color[x] = "black" /\ NewRefsIn(x, Reached')
                 \/ BaseIn(x, Reached)'
              /\ x \in LClosures => UpvalueOK(x)'
  <2>1. CASE color[x] = "black"
    <3>1. x \notin Threads
      BY <2>1 DEF SafetyInv, KindsOK
    <3>2. NewRefsIn(x, Reached')
      BY <1>9, <3>1
    <3>3. ASSUME x \in LClosures PROVE UpvalueOK(x)'
      <4>. DEFINE u == upv[x]
                  w == upv'[x]
      <4>1. UpvalueOK(x) /\ u \in UpVals /\ keepinvariant'
        BY <1>15, <2>1, <3>3 DEF SafetyInv, BlackOK, ClosuresOK, Marking, phaseVars, keepinvariant
      <4>2. CASE w # u
        <5>1. IF uv'[w].th \in Threads THEN uv'[w].touched ELSE In(uv'[w].v, V)
          BY <3>3, <4>2
        <5>. QED  BY <1>1, <1>15, <4>1, <5>1 DEF UpvalueOK, IsOpen, In
      <4>3. CASE w = u /\ uv'[u].th \in Threads
        <5>1. IsOpen(u) /\ uv[u].touched
          BY <1>15, <4>1, <4>3 DEF UpvalueOK, IsOpen
        <5>2. uv'[u].touched
          BY <4>1, <4>3, <5>1
        <5>. QED  BY <4>1, <4>3, <5>2 DEF UpvalueOK, IsOpen
      <4>4. CASE w = u /\ uv'[u].th \notin Threads
        <5>1. In(uv'[u].v, Reached')
          BY <1>1, <1>2, <1>15, <4>1, <4>4 DEF UpvalueOK, IsOpen, In
        <5>. QED  BY <4>4, <5>1 DEF UpvalueOK, IsOpen, In
      <4>. QED  BY <4>2, <4>3, <4>4
    <3>. QED  BY <2>1, <3>2, <3>3
  <2>2. CASE x \in Strings
    BY <2>2, OneKind DEF BaseIn
  <2>3. CASE x \in Udatas /\ In(mt[x], Reached') /\ In(val[x], Reached')
    BY <2>3, OneKind DEF BaseIn, In, refVars
  <2>. QED  BY <1>1, <1>15, <2>1, <2>2, <2>3
<1>16. /\ In(basemt', NotDead') /\ strcache' \subseteq NotDead' /\ twups' \subseteq NotDead'
       /\ running' \in NotDead'
  BY <1>2 DEF SafetyInv, KeptOK, In, refVars
<1>. QED
  BY <1>1, <1>4, <1>5, <1>7, <1>8, <1>11, <1>12, <1>13, <1>14, <1>15, <1>16, ProgramSafe
  DEF listVars

(* luaF_close.                                                             *)
LEMMA ClosedCells ==
  ASSUME TypeOK, SafetyInv, NEW U, U \subseteq OpenUpvals(L), uv' = Closed(U)
  PROVE  /\ \A v \in ClosedValues(U) : In(v, NotDead)
         /\ \A u \in U : In(uv[u].v, NotDead)
         /\ \A u \in UpVals :
              /\ uv'[u].th \in Threads => uv'[u].th = uv[u].th
              /\ uv'[u].v = uv[u].v \/ In(uv'[u].v, NotDead)
              /\ IsOpen(u) /\ uv[u].touched => uv'[u].th \notin Threads \/ uv'[u].touched
              /\ uv'[u].th \notin Threads => \/ ~IsOpen(u) /\ uv'[u].v = uv[u].v
                                             \/ In(uv'[u].v, ClosedValues(U))
<1>1. L \in NotDead /\ L \in Threads
  BY DEF L, SafetyInv, KeptOK, TypeOK, StackOK
<1>2. \A u \in U : In(uv[u].v, NotDead)
  BY <1>1 DEF SafetyInv, KeptOK, FieldsIn, BaseIn, StackIn, OpenUpvals
<1>3. \A v \in ClosedValues(U) : In(v, NotDead)
  BY <1>2 DEF ClosedValues
<1>4. ASSUME NEW u \in UpVals
      PROVE  /\ uv'[u].th \in Threads => uv'[u].th = uv[u].th
             /\ uv'[u].v = uv[u].v \/ In(uv'[u].v, NotDead)
             /\ IsOpen(u) /\ uv[u].touched => uv'[u].th \notin Threads \/ uv'[u].touched
             /\ uv'[u].th \notin Threads => \/ ~IsOpen(u) /\ uv'[u].v = uv[u].v
                                            \/ In(uv'[u].v, ClosedValues(U))
  <2>1. uv[u] \in Cell /\ "closed" \notin Threads /\ "free" \notin Threads
    BY Kinds DEF TypeOK, FuncsOK
  <2>2. CASE u \notin U
    <3>1. uv'[u] = uv[u]
      BY <2>2 DEF Closed
    <3>. QED  BY <3>1 DEF IsOpen
  <2>3. CASE u \in U /\ uv[u].refcount = 0
    <3>1. uv'[u] = FreeCell
      BY <2>3 DEF Closed
    <3>2. uv'[u].th \notin Threads /\ uv'[u].v = Nil
      BY <2>1, <3>1 DEF FreeCell
    <3>. QED  BY <3>2, Kinds DEF In
  <2>4. CASE u \in U /\ uv[u].refcount # 0
    <3>1. uv'[u] = [uv[u] EXCEPT !.th = "closed", !.touched = FALSE]
      BY <2>4 DEF Closed
    <3>2. uv'[u].th = "closed" /\ uv'[u].v = uv[u].v
      BY <2>1, <3>1 DEF Cell
    <3>3. uv[u].v \in ClosedValues(U)
      BY <2>4 DEF ClosedValues
    <3>. QED  BY <2>1, <3>2, <3>3 DEF In
  <2>. QED  BY <2>2, <2>3, <2>4
<1>. QED  BY <1>2, <1>3, <1>4

(* OP_SETUPVAL, an assignment to a captured local variable, luaF_close,    *)
(* lua_upvaluejoin.                                                        *)
LEMMA UpvaluesSafe ==
  ASSUME TypeOK, TypeOK', SafetyInv
  PROVE  /\ \A c \in LClosures, v \in Assigned : SetUpval(c, v) => SafetyInv'
         /\ \A u \in UpVals, v \in Assigned : SetLocal(u, v) => SafetyInv'
         /\ \A U \in SUBSET UpVals : CloseUpvals(U) => SafetyInv'
         /\ \A j \in Joins : UpvalueJoin(j[1], j[2]) => SafetyInv'
<1>1. L \in NotDead /\ L \in Threads
  BY DEF L, SafetyInv, KeptOK, TypeOK, StackOK
<1>2. ASSUME UNCHANGED <<color, phaseVars, stk, running, resumer, cstack>>
      PROVE  ThreadsOK'
  BY <1>2, ThreadsKept DEF SafetyInv, NotDead, Alloc, IsDead, otherwhite, phaseVars
<1>3. ASSUME MutatorOn, NEW V, \A v \in V : In(v, NotDead), UpvalBarrier(V),
             UNCHANGED <<phaseVars, stk, running, resumer, cstack>>
      PROVE  ThreadsOK'
  <2>1. \A x \in Obj : PaintOK(x)
    BY <1>3, UpvalPaint
  <2>2. NotDead \subseteq NotDead'
    BY <1>3, <2>1, Painted
  <2>. QED  BY <1>3, <2>2, ThreadsKept DEF SafetyInv
<1>4. ASSUME UNCHANGED <<phaseVars, stk, resumer, cstack>> PROVE PhasesOK' /\ FramesOK'
  <2>1. PhasesOK'
    BY <1>4 DEF SafetyInv, phaseVars, PhasesOK, TopIs, Top
  <2>2. FramesOK'
    BY <1>4, FramesKept DEF SafetyInv, Active
  <2>. QED  BY <2>1, <2>2
<1>5. ASSUME NEW c \in LClosures, NEW v \in Assigned, SetUpval(c, v) PROVE SafetyInv'
  <2>. DEFINE u == upv[c]
              V == IF IsOpen(u) THEN {} ELSE {v}
  <2>1. /\ MutatorOn /\ c \in stk[L] /\ v \in Operand
        /\ uv' = [uv EXCEPT ![u].v = v]
        /\ IF IsOpen(u) THEN UNCHANGED <<color, gray>> ELSE UpvalBarrier({v})
        /\ UNCHANGED <<listVars, phaseVars, sweepVars, grayagain, weak, ephemeron, allweak,
                       refVars, clp, upv, cache, stk, stale, running, resumer, twups, strcache, cstack>>
    BY <1>5 DEF SetUpval, stackVars
  <2>2. c \in NotDead /\ In(v, NotDead)
    BY <2>1, KeptOperands DEF SafetyInv
  <2>3. u \in UpVals
    BY <2>2, KeptUpvalue
  <2>4. ASSUME NEW w \in UpVals
        PROVE  /\ uv'[w].th = uv[w].th /\ uv'[w].touched = uv[w].touched
               /\ uv'[w].v = IF w = u THEN v ELSE uv[w].v
    <3>1. uv[w] \in Cell
      BY DEF TypeOK, FuncsOK
    <3>. QED  BY <2>1, <2>3, <3>1 DEF TypeOK, FuncsOK, Cell
  <2>5. ASSUME NEW w \in UpVals
        PROVE  /\ uv'[w].th \in Threads => uv'[w].th = uv[w].th
               /\ uv'[w].v = uv[w].v \/ In(uv'[w].v, NotDead)
               /\ IsOpen(w) /\ uv[w].touched => uv'[w].th \notin Threads \/ uv'[w].touched
               /\ uv'[w].th \notin Threads => \/ ~IsOpen(w) /\ uv'[w].v = uv[w].v
                                              \/ In(uv'[w].v, V)
    BY <2>2, <2>4 DEF IsOpen, In
  <2>6. UpvalBarrier(V) \/ (V = {} /\ UNCHANGED <<color, gray>>)
    BY <2>1
  <2>7. \A x \in V : In(x, NotDead)
    BY <2>2
  <2>8. ThreadsOK' /\ PhasesOK' /\ FramesOK'
    BY <1>2, <1>3, <1>4, <2>1, <2>6, <2>7
  <2>. HIDE DEF u, V
  <2>. QED  BY <2>1, <2>5, <2>6, <2>7, <2>8, CellsSafe
<1>6. ASSUME NEW u \in UpVals, NEW v \in Assigned, SetLocal(u, v) PROVE SafetyInv'
  <2>1. /\ MutatorOn /\ u \in OpenUpvals(L) /\ v \in Operand
        /\ uv' = [uv EXCEPT ![u].v = v]
        /\ UNCHANGED <<color, gray>>
        /\ UNCHANGED <<listVars, phaseVars, sweepVars, grayagain, weak, ephemeron, allweak,
                       refVars, clp, upv, cache, stk, stale, running, resumer, twups, strcache, cstack>>
    BY <1>6 DEF SetLocal, stackVars, grayVars
  <2>2. In(v, NotDead)
    BY <2>1, KeptOperands DEF SafetyInv
  <2>3. IsOpen(u)
    BY <1>1, <2>1 DEF OpenUpvals, IsOpen
  <2>4. ASSUME NEW w \in UpVals
        PROVE  /\ uv'[w].th = uv[w].th /\ uv'[w].touched = uv[w].touched
               /\ uv'[w].v = IF w = u THEN v ELSE uv[w].v
    <3>1. uv[w] \in Cell
      BY DEF TypeOK, FuncsOK
    <3>. QED  BY <2>1, <3>1 DEF TypeOK, FuncsOK, Cell
  <2>5. ASSUME NEW w \in UpVals
        PROVE  /\ uv'[w].th \in Threads => uv'[w].th = uv[w].th
               /\ uv'[w].v = uv[w].v \/ In(uv'[w].v, NotDead)
               /\ IsOpen(w) /\ uv[w].touched => uv'[w].th \notin Threads \/ uv'[w].touched
               /\ uv'[w].th \notin Threads => \/ ~IsOpen(w) /\ uv'[w].v = uv[w].v
                                              \/ In(uv'[w].v, {})
    BY <2>2, <2>3, <2>4 DEF IsOpen, In
  <2>6. ThreadsOK' /\ PhasesOK' /\ FramesOK'
    BY <1>2, <1>4, <2>1
  <2>. QED  BY <2>1, <2>5, <2>6, CellsSafe
<1>7. ASSUME NEW U \in SUBSET UpVals, CloseUpvals(U) PROVE SafetyInv'
  <2>1. /\ MutatorOn /\ U \subseteq OpenUpvals(L)
        /\ uv' = Closed(U) /\ UpvalBarrier(ClosedValues(U))
        /\ \E x \in {stale[L]} \union {uv[u].v : u \in U} : stale' = [stale EXCEPT ![L] = Left(x)]
        /\ UNCHANGED <<listVars, phaseVars, sweepVars, grayagain, weak, ephemeron, allweak,
                       refVars, clp, upv, cache, stk, running, resumer, twups, strcache, cstack>>
    BY <1>7 DEF CloseUpvals, Closable
  <2>2. PICK x \in {stale[L]} \union {uv[u].v : u \in U} : stale' = [stale EXCEPT ![L] = Left(x)]
    BY <2>1
  <2>3. In(Left(x), NotDead)
    <3>1. In(x, NotDead)
      BY <2>1, <2>2, ClosedCells, KeptOperands DEF SafetyInv
    <3>. QED  BY <3>1, Kinds DEF Left, In
  <2>4. \A th \in Threads : \/ stale'[th] = stale[th]
                            \/ th \in NotDead /\ In(stale'[th], NotDead)
    BY <1>1, <2>2, <2>3 DEF TypeOK, StackOK
  <2>5. ThreadsOK' /\ PhasesOK' /\ FramesOK'
    BY <1>3, <1>4, <2>1, ClosedCells
  <2>. QED  BY <2>1, <2>4, <2>5, ClosedCells, CellsSafe
<1>8. ASSUME NEW j \in Joins, UpvalueJoin(j[1], j[2]) PROVE SafetyInv'
  <2>. DEFINE u1 == upv[j[1]]
              u2 == upv[j[2]]
              V == IF IsOpen(u2) THEN {} ELSE {uv[u2].v}
  <2>1. j[1] \in LClosures /\ j[2] \in LClosures
    BY MutatorAssumption
  <2>2. /\ MutatorOn /\ j[1] \in stk[L] /\ j[2] \in stk[L] /\ u1 \in UpVals /\ u2 \in UpVals
        /\ uv' = [Decremented(u1) EXCEPT ![u2].refcount = @ + 1,
                                         ![u2].touched = @ \/ IsOpen(u2)]
        /\ upv' = [upv EXCEPT ![j[1]] = u2]
        /\ IF IsOpen(u2) THEN UNCHANGED <<color, gray>> ELSE UpvalBarrier({uv[u2].v})
        /\ UNCHANGED <<listVars, phaseVars, sweepVars, grayagain, weak, ephemeron, allweak,
                       refVars, clp, cache, stk, stale, running, resumer, twups, strcache, cstack>>
    BY <1>8 DEF UpvalueJoin, stackVars
  <2>3. /\ j[1] \in NotDead /\ j[2] \in NotDead /\ In(uv[u2].v, NotDead)
    BY <2>1, <2>2, KeptOperands, KeptUpvalue DEF SafetyInv
  <2>. DEFINE d == Decremented(u1)
  <2>4. ASSUME NEW w \in UpVals
        PROVE  /\ d[w] \in Cell /\ d \in [UpVals -> Cell]
               /\ \/ d[w].th = uv[w].th /\ d[w].v = uv[w].v /\ d[w].touched = uv[w].touched
                  \/ ~IsOpen(w) /\ d[w].th = "free" /\ d[w].v = Nil
    <3>1. uv \in [UpVals -> Cell] /\ uv[u1] \in Cell
      BY <2>2 DEF TypeOK, FuncsOK
    <3>2. [uv[u1] EXCEPT !.refcount = uv[u1].refcount - 1] \in Cell
      BY <3>1, CellUpdate
    <3>3. d = [uv EXCEPT ![u1] = IF uv[u1].refcount = 1 /\ ~IsOpen(u1)
                                 THEN FreeCell
                                 ELSE [uv[u1] EXCEPT !.refcount = uv[u1].refcount - 1]]
      BY DEF Decremented
    <3>4. d \in [UpVals -> Cell]
      BY <3>1, <3>2, <3>3, CellType
    <3>5. CASE w # u1
      BY <2>2, <3>1, <3>3, <3>4, <3>5
    <3>6. CASE w = u1 /\ uv[u1].refcount = 1 /\ ~IsOpen(u1)
      <4>0. d = [uv EXCEPT ![u1] = FreeCell]
        BY <3>3, <3>6
      <4>1. d[w] = FreeCell
        BY <2>2, <3>1, <3>6, <4>0
      <4>2. d[w].th = "free" /\ d[w].v = Nil
        BY <4>1 DEF FreeCell
      <4>3. ~IsOpen(w)
        BY <3>6
      <4>. HIDE DEF d
      <4>. QED  BY <3>4, <4>2, <4>3
    <3>7. CASE w = u1 /\ ~(uv[u1].refcount = 1 /\ ~IsOpen(u1))
      <4>1. d[w] = [uv[u1] EXCEPT !.refcount = uv[u1].refcount - 1]
        BY <2>2, <3>1, <3>3, <3>7
      <4>. QED  BY <3>1, <3>4, <3>7, <4>1 DEF Cell
    <3>. QED  BY <3>5, <3>6, <3>7
  <2>. HIDE DEF d
  <2>5. ASSUME NEW w \in UpVals
        PROVE  /\ uv'[w].th = d[w].th /\ uv'[w].v = d[w].v
               /\ d[w].touched => uv'[w].touched
               /\ w = u2 /\ IsOpen(u2) => uv'[w].touched
    <3>1. d[w] \in Cell /\ d \in [UpVals -> Cell]
      BY <2>4
    <3>2. uv' = [d EXCEPT ![u2] = [d[u2] EXCEPT !.refcount = d[u2].refcount + 1,
                                               !.touched = d[u2].touched \/ IsOpen(u2)]]
      BY <2>2, <3>1 DEF d
    <3>3. CASE w # u2
      BY <3>1, <3>2, <3>3
    <3>4. CASE w = u2
      <4>. DEFINE b == d[u2].touched \/ IsOpen(u2)
                  n == d[u2].refcount + 1
      <4>1. uv'[w] = [d[w] EXCEPT !.refcount = n, !.touched = b]
        BY <2>2, <3>1, <3>2, <3>4
      <4>2. (d[w].touched => b) /\ (IsOpen(u2) => b)
        BY <3>4
      <4>. HIDE DEF b, n
      <4>3. uv'[w].th = d[w].th /\ uv'[w].v = d[w].v /\ uv'[w].touched = b
        BY <3>1, <4>1 DEF Cell
      <4>. QED  BY <4>2, <4>3
    <3>. QED  BY <3>3, <3>4
  <2>6. Nil \notin Obj /\ "free" \notin Threads
    BY Kinds
  <2>7. ASSUME NEW w \in UpVals
        PROVE  /\ uv'[w].th \in Threads => uv'[w].th = uv[w].th
               /\ uv'[w].v = uv[w].v \/ In(uv'[w].v, NotDead)
               /\ IsOpen(w) /\ uv[w].touched => uv'[w].th \notin Threads \/ uv'[w].touched
               /\ uv'[w].th \notin Threads => \/ ~IsOpen(w) /\ uv'[w].v = uv[w].v
                                              \/ In(uv'[w].v, V)
    BY <2>4, <2>5, <2>6 DEF IsOpen, In
  <2>8. ASSUME NEW c \in LClosures
        PROVE  \/ upv'[c] = upv[c]
               \/ /\ c \in NotDead /\ upv'[c] \in UpVals /\ In(uv'[upv'[c]].v, NotDead)
                  /\ IF uv'[upv'[c]].th \in Threads THEN uv'[upv'[c]].touched
                     ELSE In(uv'[upv'[c]].v, V)
    <3>1. CASE c = j[1]
      <4>1. upv'[c] = u2
        BY <2>1, <2>2, <3>1 DEF TypeOK, FuncsOK
      <4>2. In(uv'[u2].v, NotDead)
        BY <2>2, <2>3, <2>7
      <4>3. uv'[u2].th \in Threads => uv'[u2].touched
        <5>1. d[u2].th = uv[u2].th \/ d[u2].th = "free"
          BY <2>2, <2>4
        <5>2. uv'[u2].th = d[u2].th /\ (IsOpen(u2) => uv'[u2].touched)
          BY <2>2, <2>5
        <5>. QED  BY <2>6, <5>1, <5>2 DEF IsOpen
      <4>4. uv'[u2].th \notin Threads => In(uv'[u2].v, V)
        <5>1. (d[u2].th = uv[u2].th /\ d[u2].v = uv[u2].v) \/ d[u2].v = Nil
          BY <2>2, <2>4
        <5>2. uv'[u2].th = d[u2].th /\ uv'[u2].v = d[u2].v
          BY <2>2, <2>5
        <5>3. ASSUME uv'[u2].v # Nil, uv'[u2].th \notin Threads PROVE uv'[u2].v \in V
          BY <5>1, <5>2, <5>3 DEF IsOpen
        <5>. QED  BY <2>6, <5>3 DEF In
      <4>. QED  BY <2>2, <2>3, <3>1, <4>1, <4>2, <4>3, <4>4
    <3>2. CASE c # j[1]
      BY <2>2, <3>2 DEF TypeOK, FuncsOK
    <3>. QED  BY <3>1, <3>2
  <2>9. UpvalBarrier(V) \/ (V = {} /\ UNCHANGED <<color, gray>>)
    BY <2>2
  <2>10. \A x \in V : In(x, NotDead)
    BY <2>3
  <2>11. ThreadsOK' /\ PhasesOK' /\ FramesOK'
    BY <1>2, <1>3, <1>4, <2>2, <2>9, <2>10
  <2>. HIDE DEF V, u1, u2
  <2>. QED  BY <2>2, <2>7, <2>8, <2>9, <2>10, <2>11, CellsSafe
<1>. QED  BY <1>5, <1>6, <1>7, <1>8

(***************************************************************************)
(* lua_load.                                                               *)
(***************************************************************************)
(* Marking stays in a set that userdata do not lead out of.                *)
LEMMA MarkClosed ==
  ASSUME NEW S, NEW W, NEW c, \A x \in W : In(x, S),
         \A u \in Udatas \intersect S : In(mt[u], S) /\ In(val[u], S)
  PROVE  MarkSet(W, c) \subseteq S
<1>. DEFINE U == MarkedUdatas(W, c)
            T == White(c, Udatas) \intersect S
<1>1. T \in SUBSET White(c, Udatas) /\ T \subseteq Udatas \intersect S
  BY DEF White
<1>2. W \intersect White(c, Udatas) \subseteq T
  BY Kinds DEF White, In
<1>3. \A x \in T : val[x] \in White(c, Udatas) => val[x] \in T
  BY <1>1, Kinds DEF White, In
<1>4. \A u \in U : u \in T
  <2>. HIDE DEF T
  <2>. QED  BY <1>1, <1>2, <1>3 DEF MarkedUdatas
<1>5. \A u \in U : In(mt[u], S) /\ In(val[u], S)
  BY <1>1, <1>4
<1>. HIDE DEF U, T
<1>6. MarkSet(W, c) = White(c, Objs(W \union {mt[u] : u \in U} \union {val[u] : u \in U}))
  BY DEF MarkSet, U
<1>. QED  BY <1>5, <1>6 DEF White, Objs, In

(* luaY_parser creates the main function and its prototype; its upvalue,   *)
(* the globals, is closed, and the barrier has seen it.                    *)
LEMMA LoadSafe ==
  ASSUME TypeOK, TypeOK', SafetyInv, NEW c \in LClosures, NEW p \in Protos, NEW u \in UpVals,
         NEW v \in Values(Registry) \union {Nil}, Load(c, p, u, v)
  PROVE  SafetyInv'
<1>. DEFINE c0 == [color EXCEPT ![c] = currentwhite, ![p] = currentwhite]
            M == IF keepinvariant THEN MarkSet({v}, c0) ELSE {}
<1>1. /\ MutatorOn /\ uv[u] = FreeCell /\ color[c] = "free" /\ color[p] = "free" /\ Push(c)
      /\ IF keepinvariant THEN Mark({v}, c0, gray) ELSE color' = c0 /\ gray' = gray
      /\ allgc' = allgc \union {c, p}
      /\ clp' = [clp EXCEPT ![c] = p]
      /\ upv' = [upv EXCEPT ![c] = u]
      /\ uv' = [uv EXCEPT ![u] = [th |-> "closed", v |-> v, touched |-> FALSE, refcount |-> 1]]
      /\ UNCHANGED <<finbit, finobj, tobefnz, phaseVars, sweepVars, grayagain, weak, ephemeron,
                     allweak, entries, mt, val, basemt, cache, running, resumer, twups, strcache,
                     cstack>>
  BY DEF Load, refVars
<1>2. /\ c \in Obj /\ p \in Obj /\ c # p
      /\ c \notin Tables /\ c \notin Udatas /\ c \notin CClosures /\ c \notin Protos
      /\ c \notin Threads /\ c \notin Leaves
      /\ p \notin Tables /\ p \notin Udatas /\ p \notin CClosures /\ p \notin LClosures
      /\ p \notin Threads /\ p \notin Leaves
      /\ Nil \notin Obj /\ "closed" \notin Obj /\ "free" \notin Obj
  BY Kinds, OneKind
<1>3. L \in NotDead /\ L \in Threads /\ In(v, NotDead) /\ Threads \subseteq Obj
  BY Kinds, KeptOperands DEF L, SafetyInv, KeptOK, TypeOK, StackOK, In
<1>4. c0 \in [Obj -> Colors] /\ RefsOK
      /\ \A x \in Obj : c0[x] = IF x \in {c, p} THEN currentwhite ELSE color[x]
  BY <1>2, ColorFacts DEF TypeOK, Colors
<1>5. M \subseteq NotDead
  <2>1. \A x \in Udatas \intersect NotDead : In(mt[x], NotDead) /\ In(val[x], NotDead)
    BY DEF SafetyInv, KeptOK, FieldsIn, BaseIn
  <2>2. \A x \in {v} : In(x, NotDead)
    BY <1>3
  <2>. QED  BY <2>1, <2>2, MarkClosed
<1>6. /\ \A o \in M : keepinvariant /\ c0[o] \in Whites
                      /\ color'[o] = IF o \in Leaves THEN "black" ELSE "gray"
      /\ \A o \in Obj \ M : color'[o] = c0[o]
      /\ keepinvariant /\ v \in Obj => color'[v] \notin Whites
      /\ \A x \in M \intersect Udatas : /\ mt[x] \in Obj => color'[mt[x]] \notin Whites
                                        /\ val[x] \in Obj => color'[val[x]] \notin Whites
      /\ gray' = gray \union (M \ Leaves)
  <2>1. CASE keepinvariant
    <3>1. color' = Marked({v}, c0) /\ gray' = gray \union (MarkSet({v}, c0) \ Leaves)
      BY <1>1, <2>1 DEF Mark
    <3>. HIDE DEF c0
    <3>. QED  BY <1>4, <2>1, <3>1, MarkFacts
  <2>2. CASE ~keepinvariant
    BY <1>1, <2>2
  <2>. QED  BY <2>1, <2>2
<1>. HIDE DEF M, c0
<1>7. /\ c \notin NotDead /\ p \notin NotDead /\ M \intersect {c, p} = {} /\ M \subseteq Obj
  BY <1>1, <1>2, <1>5, ColorFacts
<1>8. /\ color'[c] = currentwhite /\ color'[p] = currentwhite
      /\ \A o \in M : color[o] \in Whites
      /\ \A o \in Obj \ M : o \notin {c, p} => color'[o] = color[o]
  BY <1>2, <1>4, <1>6, <1>7
<1>9. \A o \in Obj : PaintOK(o)
  BY <1>1, <1>6, <1>7, <1>8 DEF PaintOK
<1>10. /\ NotDead \subseteq NotDead'
       /\ keepinvariant => Reached \subseteq Reached' /\ GrayOnes \subseteq GrayOnes'
       /\ keepinvariant => \A o \in NotDead' : color'[o] \notin Whites => o \in Reached'
  BY <1>1, <1>9, Painted
<1>11. otherwhite' = otherwhite /\ currentwhite' = currentwhite /\ gcstate' = gcstate
  BY <1>1 DEF otherwhite, phaseVars
<1>12. NotDead' = NotDead \union {c, p}
  BY <1>2, <1>5, <1>8, <1>10, <1>11, ColorFacts, ColorFactsNext
<1>13. keepinvariant => gray' = gray \union (GrayOnes' \ GrayOnes)
  <2>1. GrayOnes' \ GrayOnes = M \ Leaves
    BY <1>2, <1>6, <1>7, <1>8, ColorFacts DEF GrayOnes
  <2>. QED  BY <1>6, <2>1
<1>14. \A o \in Obj : color'[o] = "free" => color[o] = "free" /\ o \notin {c, p}
  BY <1>6, <1>7, <1>8, ColorFacts
<1>15. \A o \in Obj : color'[o] # "free" => color[o] # "free" \/ o \in {c, p}
  BY <1>7, <1>8, ColorFacts
<1>16. /\ \A th \in Threads : stk'[th] = IF th = L THEN stk[th] \union {c} ELSE stk[th]
       /\ \A th \in Threads : stale'[th] = IF th = L THEN Nil ELSE stale[th]
  BY <1>1 DEF Push, TypeOK, StackOK
<1>17. /\ \A x \in LClosures : clp'[x] = IF x = c THEN p ELSE clp[x]
       /\ \A x \in LClosures : upv'[x] = IF x = c THEN u ELSE upv[x]
       /\ \A w \in UpVals : w # u => uv'[w] = uv[w]
       /\ uv'[u].th = "closed" /\ uv'[u].v = v
       /\ uv[u].th = "free" /\ uv[u].v = Nil
  BY <1>1 DEF TypeOK, FuncsOK, FreeCell
<1>18. SameOpen /\ \A w \in UpVals : uv'[w].th \in Threads => w # u
  BY <1>2, <1>3, <1>17 DEF SameOpen
<1>19. ASSUME NEW x \in Obj, NEW T, x \notin {L, c} PROVE NewRefsIn(x, T)
  <2>1. UNCHANGED <<entries, mt, val, cache>>
    BY <1>1 DEF refVars
  <2>2. x \in LClosures => clp'[x] = clp[x]
    BY <1>17, <1>19
  <2>3. x \in Threads => stk'[x] = stk[x] /\ stale'[x] = stale[x]
    BY <1>16, <1>19
  <2>. QED  BY <1>18, <2>1, <2>2, <2>3, Untouched
<1>20. NewRefsIn(L, NotDead')
  BY <1>1, <1>3, <1>12, <1>18, PushRefs
<1>21. BaseIn(c, NotDead)' /\ BaseIn(p, NotDead)'
  <2>1. BaseIn(c, NotDead)'
    BY <1>2, <1>12, <1>17 DEF BaseIn, In
  <2>2. BaseIn(p, {}) /\ cache'[p] = cache[p]
    BY <1>1, <1>2 DEF SafetyInv, FreeOK
  <2>3. BaseIn(p, NotDead)'
    BY <1>2, <2>2 DEF BaseIn, In
  <2>. QED  BY <2>1, <2>3
<1>22. \A x \in NotDead : NewRefsIn(x, NotDead')
  BY <1>7, <1>19, <1>20, ColorFacts
<1>23. \A x \in NotDead' \ NotDead : BaseIn(x, NotDead)'
  BY <1>12, <1>21
<1>24. ListsPartition'
  <2>1. Alloc' = Alloc \union {c, p} /\ c \notin Alloc /\ p \notin Alloc
    BY <1>1, <1>2, <1>8, <1>14, <1>15, ColorFacts, ColorFactsNext
  <2>2. MainThread \notin {c, p}
    BY <1>2, Kinds
  <2>. QED  BY <1>1, <2>1, <2>2 DEF SafetyInv, ListsPartition
<1>25. SweepOK2'
  BY <1>1, <1>9, PaintedSweep
<1>26. ClosuresOK' /\ MetasOK'
  <2>1. ASSUME NEW x \in LClosures, color'[x] # "free" PROVE clp'[x] \in Protos /\ upv'[x] \in UpVals
    BY <1>2, <1>15, <1>17, <2>1, Kinds DEF SafetyInv, ClosuresOK
  <2>. QED  BY <1>1, <2>1 DEF SafetyInv, ClosuresOK, MetasOK
<1>27. TwupsOK'
  <2>1. ASSUME NEW w \in UpVals, uv'[w].th \in Threads, uv'[w].th \in NotDead'
        PROVE  uv[w].th = uv'[w].th /\ uv[w].th \in NotDead
    BY <1>2, <1>12, <1>17, <1>18, <2>1
  <2>. QED  BY <1>1, <2>1 DEF SafetyInv, TwupsOK, IsOpen, phaseVars
<1>28. In(basemt', NotDead') /\ strcache' \subseteq NotDead' /\ twups' \subseteq NotDead'
  BY <1>1, <1>10 DEF SafetyInv, KeptOK, In
<1>29. ASSUME NEW x \in LClosures, x \in NotDead', upv'[x] # Nil
       PROVE  In(uv'[upv'[x]].v, NotDead')
  <2>1. CASE upv'[x] = u
    BY <1>3, <1>10, <1>17, <2>1 DEF In
  <2>2. CASE upv'[x] # u
    <3>1. x \in NotDead
      BY <1>2, <1>12, <1>17, <1>29, <2>2
    <3>2. upv'[x] = upv[x] /\ upv[x] \in UpVals /\ In(uv[upv[x]].v, NotDead)
      BY <1>17, <2>2, <3>1, KeptUpvalue
    <3>. QED  BY <1>10, <1>17, <2>2, <3>2 DEF In
  <2>. QED  BY <2>1, <2>2
<1>30. ASSUME NEW x \in Obj, color'[x] = "free"
       PROVE  /\ NewRefsIn(x, {})
              /\ x \in LClosures => upv'[x] = upv[x]
              /\ \A w \in UpVals : uv'[w].th # x
  <2>1. color[x] = "free" /\ x # L /\ x # c
    BY <1>3, <1>14, <1>30, ColorFacts
  <2>2. \A w \in UpVals : uv'[w].th # x
    BY <1>2, <1>17, <2>1 DEF SafetyInv, FreeOK
  <2>. QED  BY <1>17, <1>19, <2>1, <2>2
<1>31. ASSUME keepinvariant, NEW x \in Obj, color'[x] = "black"
       PROVE  /\ \/ color[x] = "black" /\ NewRefsIn(x, Reached')
                 \/ BaseIn(x, Reached)'
              /\ x \in LClosures => UpvalueOK(x)'
  <2>1. CASE color[x] = "black"
    <3>1. x # L /\ x # c
      BY <1>1, <1>3, <2>1 DEF SafetyInv, KindsOK
    <3>2. NewRefsIn(x, Reached')
      BY <1>19, <3>1
    <3>3. ASSUME x \in LClosures PROVE UpvalueOK(x)'
      <4>1. UpvalueOK(x) /\ upv'[x] = upv[x] /\ upv[x] \in UpVals
        BY <1>17, <1>31, <2>1, <3>1, <3>3 DEF SafetyInv, BlackOK, ClosuresOK, Marking
      <4>2. CASE upv[x] = u
        <5>1. In(v, Reached')
          BY <1>3, <1>6, <1>10, <1>31 DEF In
        <5>2. ~(uv'[u].th \in Threads)
          BY <1>2, <1>3, <1>17
        <5>. QED  BY <1>17, <4>1, <4>2, <5>1, <5>2 DEF UpvalueOK, IsOpen, In
      <4>3. CASE upv[x] # u
        <5>1. uv'[upv[x]] = uv[upv[x]]
          BY <1>17, <4>1, <4>3
        <5>. QED  BY <1>10, <1>11, <1>31, <3>3, <4>1, <5>1, UpvalueSame
      <4>. QED  BY <4>2, <4>3
    <3>. QED  BY <2>1, <3>2, <3>3
  <2>2. CASE color[x] # "black"
    <3>1. x \in M /\ x \in Leaves
      BY <1>2, <1>6, <1>8, <1>31, <2>2, ColorFacts
    <3>2. CASE x \in Strings
      BY <3>2, OneKind DEF BaseIn
    <3>3. CASE x \in Udatas
      <4>1. In(mt[x], NotDead) /\ In(val[x], NotDead)
        BY <1>5, <3>1, <3>3 DEF SafetyInv, KeptOK, FieldsIn, BaseIn
      <4>2. In(mt[x], Reached') /\ In(val[x], Reached')
        BY <1>6, <1>10, <1>31, <3>1, <3>3, <4>1 DEF In
      <4>. QED  BY <1>1, <3>3, <4>2, OneKind DEF BaseIn, In
    <3>. QED  BY <3>1, <3>2, <3>3 DEF Leaves
  <2>. QED  BY <2>1, <2>2
<1>32. \A th \in Threads : stk[th] \subseteq stk'[th]
  BY <1>16
<1>. QED
  BY <1>1, <1>9, <1>13, <1>22, <1>23, <1>24, <1>25, <1>26, <1>27, <1>28, <1>29, <1>30, <1>31, <1>32,
     MutatorSafe

(***************************************************************************)
(* Sweeping.                                                               *)
(***************************************************************************)
(* freeobj touches nothing that a kept object refers to.                   *)
LEMMA FreedRefs ==
  ASSUME TypeOK, NEW D \in SUBSET Obj, Free(D)
  PROVE  /\ \A t \in Tables : entries'[t] = IF t \in D THEN {} ELSE entries[t]
         /\ \A o \in Udatas \union CClosures : val'[o] = IF o \in D THEN Nil ELSE val[o]
         /\ \A c \in LClosures : /\ clp'[c] = IF c \in D THEN Nil ELSE clp[c]
                                 /\ upv'[c] = IF c \in D THEN Nil ELSE upv[c]
         /\ \A p \in Protos : cache'[p] = IF p \in D THEN Nil ELSE cache[p]
         /\ \A th \in Threads : /\ stk'[th] = IF th \in D THEN {} ELSE stk[th]
                                /\ stale'[th] = IF th \in D THEN Nil ELSE stale[th]
         /\ \A u \in UpVals : /\ uv'[u].v = uv[u].v \/ uv'[u].v = Nil
                              /\ uv'[u].th \in Obj => uv'[u].th = uv[u].th /\ uv[u].th \notin D
<1>1. ASSUME NEW u \in UpVals
      PROVE  /\ uv'[u].v = uv[u].v \/ uv'[u].v = Nil
             /\ uv'[u].th \in Obj => uv'[u].th = uv[u].th /\ uv[u].th \notin D
  <2>. DEFINE n  == uv[u].refcount - Cardinality({c \in D \intersect LClosures : upv[c] = u})
              th == IF uv[u].th \in D THEN "closed" ELSE uv[u].th
              b  == th # "closed" /\ uv[u].touched
  <2>1. uv'[u] = IF th = "closed" /\ n = 0 THEN FreeCell
                 ELSE [th |-> th, v |-> uv[u].v, refcount |-> n, touched |-> b]
    BY DEF Free, Released
  <2>2. th \in Obj => th = uv[u].th /\ uv[u].th \notin D
    BY Kinds
  <2>. HIDE DEF n, th, b
  <2>3. "free" \notin Obj
    BY Kinds
  <2>4. CASE th = "closed" /\ n = 0
    <3>1. uv'[u] = FreeCell
      BY <2>1, <2>4
    <3>. QED  BY <2>3, <3>1 DEF FreeCell
  <2>5. CASE ~(th = "closed" /\ n = 0)
    <3>1. uv'[u] = [th |-> th, v |-> uv[u].v, refcount |-> n, touched |-> b]
      BY <2>1, <2>5
    <3>. QED  BY <2>2, <3>1
  <2>. QED  BY <2>4, <2>5
<1>2. /\ \A t \in Tables : entries'[t] = IF t \in D THEN {} ELSE entries[t]
      /\ \A o \in Udatas \union CClosures : val'[o] = IF o \in D THEN Nil ELSE val[o]
      /\ \A p \in Protos : cache'[p] = IF p \in D THEN Nil ELSE cache[p]
  BY DEF Free, Erase, TypeOK, RefsOK, FuncsOK
<1>3. \A c \in LClosures : /\ clp'[c] = IF c \in D THEN Nil ELSE clp[c]
                           /\ upv'[c] = IF c \in D THEN Nil ELSE upv[c]
  BY DEF Free, Erase, TypeOK, FuncsOK
<1>4. \A th \in Threads : /\ stk'[th] = IF th \in D THEN {} ELSE stk[th]
                          /\ stale'[th] = IF th \in D THEN Nil ELSE stale[th]
  BY DEF Free, Erase, TypeOK, StackOK
<1>. QED  BY <1>1, <1>2, <1>3, <1>4

(* The C stack grows only by what is no finalizer.                         *)
LEMMA FramesGrow ==
  ASSUME TypeOK, FramesOK, NEW f, f.kind # "fin", cstack' \in {cstack, Append(cstack, f)},
         \A th \in Threads : Active(th) => Active(th)' /\ stk[th] \subseteq stk'[th]
  PROVE  FramesOK'
<1>1. \A i \in 1..Len(cstack') : cstack'[i].kind = "fin" =>
         i \in 1..Len(cstack) /\ cstack'[i] = cstack[i]
  BY DEF TypeOK, StackOK
<1>2. \A i \in 1..Len(cstack) : cstack[i].kind = "fin" => cstack[i].th \in Threads
  BY FinFrame
<1>3. ASSUME NEW i \in 1..Len(cstack'), cstack'[i].kind = "fin"
      PROVE  Active(cstack[i].th)' /\ cstack'[i].base \subseteq stk'[cstack'[i].th]
  <2>1. i \in 1..Len(cstack) /\ cstack'[i] = cstack[i] /\ cstack[i].th \in Threads
    BY <1>1, <1>2, <1>3
  <2>2. Active(cstack[i].th) /\ cstack[i].base \subseteq stk[cstack[i].th]
    BY <1>3, <2>1 DEF FramesOK
  <2>3. Active(cstack[i].th)' <=> cstack'[i].th = MainThread \/ resumer'[cstack'[i].th] # Nil
    BY DEF Active
  <2>4. cstack[i].th = MainThread \/ resumer'[cstack[i].th] # Nil
    BY <2>1, <2>2 DEF Active
  <2>. QED  BY <2>1, <2>2, <2>3, <2>4
<1>. QED  BY <1>1, <1>3 DEF FramesOK

(* Objects with the old white are freed, others turn white.                *)
LEMMA SweepSafe ==
  ASSUME TypeOK, TypeOK', SafetyInv,
         UNCHANGED <<currentwhite, basemt, running, resumer, twups, strcache>>,
         gcstate # "insideatomic" \/ atom.pc = "enter",
         issweepphase', Idling', PhasesOK', FramesOK', ListsPartition', SweepOK2',
         NEW D \in SUBSET Obj, \A o \in D : IsDead(o), Free(D),
         \A o \in D : color'[o] = "free",
         \A o \in Obj \ D : \/ color'[o] = color[o]
                            \/ o \in NotDead /\ color'[o] = currentwhite,
         \A o \in Tables \union Udatas :
           \/ mt'[o] = IF o \in D THEN Nil ELSE mt[o]
           \/ o \in NotDead /\ In(mt'[o], NotDead) /\ <<o, mt'[o]>> \in Metas,
         finobj' \union tobefnz' \subseteq Tables \union Udatas, tobefnz' \subseteq tobefnz
  PROVE  SafetyInv'
<1>1. otherwhite' = otherwhite
  BY DEF otherwhite
<1>2. NotDead' = NotDead /\ D \intersect NotDead = {} /\ NotDead \subseteq Obj
  <2>1. /\ NotDead = {x \in Obj : color[x] # "free" /\ color[x] # otherwhite}
        /\ NotDead' = {x \in Obj : color'[x] # "free" /\ color'[x] # otherwhite}
        /\ currentwhite # "free" /\ currentwhite # otherwhite
    BY <1>1, ColorFacts, ColorFactsNext
  <2>2. \A x \in D : color[x] = otherwhite
    BY DEF IsDead
  <2>. QED  BY <2>1, <2>2
<1>3. ~keepinvariant' /\ ~Remarking' /\ ~Marking' /\ ~Resting'
  BY DEF issweepphase, SweepStates, keepinvariant, Remarking, Marking, Resting
<1>4. /\ \A t \in Tables : entries'[t] = IF t \in D THEN {} ELSE entries[t]
      /\ \A o \in Udatas \union CClosures : val'[o] = IF o \in D THEN Nil ELSE val[o]
      /\ \A c \in LClosures : /\ clp'[c] = IF c \in D THEN Nil ELSE clp[c]
                              /\ upv'[c] = IF c \in D THEN Nil ELSE upv[c]
      /\ \A p \in Protos : cache'[p] = IF p \in D THEN Nil ELSE cache[p]
      /\ \A th \in Threads : /\ stk'[th] = IF th \in D THEN {} ELSE stk[th]
                             /\ stale'[th] = IF th \in D THEN Nil ELSE stale[th]
      /\ \A u \in UpVals : /\ uv'[u].v = uv[u].v \/ uv'[u].v = Nil
                           /\ uv'[u].th \in Obj => uv'[u].th = uv[u].th /\ uv[u].th \notin D
  BY FreedRefs
<1>5. ASSUME NEW o \in NotDead PROVE FieldsIn(o, NotDead)'
  <2>1. FieldsIn(o, NotDead) /\ o \notin D /\ o \in Obj
    BY <1>2 DEF SafetyInv, KeptOK
  <2>2. Nil \notin Obj /\ Threads \subseteq Obj
    BY Kinds
  <2>3. o \in Tables => In(mt'[o], NotDead) /\ (KeysIn(o, NotDead) /\ ValuesIn(o, NotDead))'
    <3>. SUFFICES ASSUME o \in Tables
                  PROVE  In(mt'[o], NotDead) /\ (KeysIn(o, NotDead) /\ ValuesIn(o, NotDead))'
      OBVIOUS
    <3>1. In(mt'[o], NotDead)
      BY <2>1 DEF FieldsIn, BaseIn
    <3>2. entries'[o] = entries[o] /\ KeysIn(o, NotDead) /\ ValuesIn(o, NotDead)
      BY <1>4, <2>1 DEF FieldsIn, BaseIn
    <3>. QED  BY <1>2, <3>1, <3>2 DEF KeysIn, ValuesIn, In
  <2>4. /\ o \in Udatas    => In(mt'[o], NotDead) /\ In(val'[o], NotDead)
        /\ o \in CClosures => In(val'[o], NotDead)
        /\ o \in LClosures => In(clp'[o], NotDead)
        /\ o \in Protos    => In(cache'[o], NotDead)
    BY <1>4, <2>1 DEF FieldsIn, BaseIn
  <2>5. o \in Threads => StackIn(o, NotDead)' /\ In(stale'[o], NotDead)
    <3>. SUFFICES ASSUME o \in Threads PROVE StackIn(o, NotDead)' /\ In(stale'[o], NotDead)
      OBVIOUS
    <3>1. StackIn(o, NotDead) /\ stk'[o] = stk[o] /\ stale'[o] = stale[o] /\ In(stale[o], NotDead)
      BY <1>4, <2>1 DEF FieldsIn, BaseIn
    <3>2. ASSUME NEW u \in UpVals, uv'[u].th = o PROVE In(uv'[u].v, NotDead)
      <4>1. uv[u].th = o /\ In(uv[u].v, NotDead)
        BY <1>4, <2>1, <3>1, <3>2 DEF StackIn
      <4>. QED  BY <1>4, <2>2, <4>1 DEF In
    <3>. QED  BY <1>2, <3>1, <3>2 DEF StackIn, In
  <2>6. o \in LClosures /\ upv'[o] # Nil => In(uv'[upv'[o]].v, NotDead)
    <3>. SUFFICES ASSUME o \in LClosures PROVE In(uv'[upv'[o]].v, NotDead)
      OBVIOUS
    <3>1. upv[o] \in UpVals /\ In(uv[upv[o]].v, NotDead) /\ upv'[o] = upv[o]
      BY <1>4, <2>1, KeptUpvalue
    <3>. QED  BY <1>4, <2>2, <3>1 DEF In
  <2>. QED  BY <1>2, <2>3, <2>4, <2>5, <2>6 DEF FieldsIn, BaseIn, In
<1>6. KeptOK'
  BY <1>2, <1>5 DEF SafetyInv, KeptOK
<1>7. FreeOK'
  <2>. SUFFICES ASSUME NEW o \in Obj, color'[o] = "free"
                PROVE  /\ BaseIn(o, {})'
                       /\ o \in LClosures => upv'[o] = Nil
                       /\ \A u \in UpVals : uv'[u].th # o
    BY DEF FreeOK
  <2>0. Nil \notin Obj /\ Threads \subseteq Obj
    BY Kinds
  <2>1. o \notin NotDead
    BY <1>2, ColorFactsNext
  <2>2. CASE o \in D
    <3>1. \A u \in UpVals : uv'[u].th # o
      BY <1>4, <2>2
    <3>2. BaseIn(o, {})'
      BY <1>4, <2>0, <2>1, <2>2, <3>1 DEF BaseIn, KeysIn, ValuesIn, StackIn, In
    <3>. QED  BY <1>4, <2>2, <3>1, <3>2
  <2>3. CASE o \notin D
    <3>1. color[o] = "free"
      BY <2>1, <2>3
    <3>2. BaseIn(o, {}) /\ (o \in LClosures => upv[o] = Nil) /\ \A u \in UpVals : uv[u].th # o
      BY <3>1 DEF SafetyInv, FreeOK
    <3>3. \A u \in UpVals : uv'[u].th # o
      BY <1>4, <3>2
    <3>4. BaseIn(o, {})'
      BY <1>4, <2>1, <2>3, <3>2, <3>3 DEF BaseIn, KeysIn, ValuesIn, StackIn, In
    <3>. QED  BY <1>4, <2>3, <3>2, <3>3, <3>4
  <2>. QED  BY <2>2, <2>3
<1>8. ASSUME NEW o \in Obj, color'[o] # "free" PROVE color[o] # "free" /\ o \notin D
  BY <1>8, ColorFacts
<1>9. ClosuresOK'
  <2>. SUFFICES ASSUME NEW c \in LClosures, color'[c] # "free"
                PROVE  clp'[c] \in Protos /\ upv'[c] \in UpVals
    BY DEF ClosuresOK
  <2>1. color[c] # "free" /\ c \notin D
    BY <1>8, Kinds
  <2>. QED  BY <1>4, <2>1 DEF SafetyInv, ClosuresOK
<1>10. KindsOK'
  BY ColorFacts, ColorFactsNext DEF SafetyInv, KindsOK
<1>11. MetasOK'
  BY DEF SafetyInv, MetasOK
<1>12. TwupsOK'
  <2>1. ASSUME NEW u \in UpVals, uv'[u].th \in Threads, uv'[u].th \in NotDead'
        PROVE  uv'[u].th \in twups
    BY <1>2, <1>4, <2>1, Kinds DEF SafetyInv, TwupsOK, IsOpen
  <2>. QED  BY <2>1 DEF TwupsOK, IsOpen
<1>13. ThreadsOK'
  <2>1. \A th \in Threads : Active(th) => stk'[th] = stk[th]
    BY <1>2, <1>4 DEF SafetyInv, ThreadsOK
  <2>. QED  BY <1>2, <2>1, ThreadsKept DEF SafetyInv
<1>14. /\ WhitesOK' /\ BlackOK' /\ GrayIdleOK' /\ GrayAtomicOK' /\ RootsOK' /\ ConvergenceOK'
  BY <1>3 DEF WhitesOK, BlackOK, GrayIdleOK, GrayAtomicOK, Atomically, RootsOK, ConvergenceOK, Idling
<1>. QED
  BY <1>6, <1>7, <1>9, <1>10, <1>11, <1>12, <1>13, <1>14 DEF SafetyInv

(* luaC_checkfinalizer in the sweep phase: the object is swept, and the    *)
(* sweep pointer moved off it.                                             *)
LEMMA SetFinalizerInSweepSafe ==
  ASSUME TypeOK, TypeOK', SafetyInv, NEW w \in Metas, SetFinalizerInSweep(w[1], w[2])
  PROVE  SafetyInv'
<1>. DEFINE o == w[1]
            m == w[2]
<1>1. /\ o \in Tables \union Udatas /\ <<o, m>> \in Metas
      /\ Tables \union Udatas \subseteq Obj /\ MainThread \notin Tables \union Udatas
  BY MutatorAssumption, Kinds, OneKind
<1>2. PICK C \in SUBSET ToSweep :
         /\ IF sweepgc = o
            THEN ToLive(C) /\ Advance(C, ToSweep, sweepgc)
            ELSE C = {} /\ sweepgc' = sweepgc /\ unswept' = unswept \ {o}
         /\ color' = [Swept(C, color) EXCEPT ![o] = currentwhite]
         /\ mt' = [Erase(Dead(C), mt, Nil) EXCEPT ![o] = m]
         /\ allgc' = (allgc \ Dead(C)) \ {o}
         /\ finobj' = (finobj \ Dead(C)) \union {o}
         /\ tobefnz' = tobefnz \ Dead(C)
         /\ finbit' = (finbit \ Dead(C)) \union {o}
         /\ Free(Dead(C))
  BY DEF SetFinalizerInSweep
<1>3. /\ MutatorOn /\ o \in stk[L] /\ m \in stk[L] /\ o \notin finbit /\ issweepphase
      /\ UNCHANGED <<phaseVars, grayVars, basemt, running, resumer, twups, strcache, cstack>>
  BY DEF SetFinalizerInSweep, NeedsFinobj
<1>. DEFINE D == Dead(C)
<1>. HIDE DEF o, m
<1>4. o \in NotDead /\ In(m, NotDead) /\ tobefnz \subseteq NotDead
  BY <1>3, KeptOperands DEF SafetyInv, In, KeptOK
<1>5. /\ Idling /\ PhasesOK' /\ FramesOK' /\ Idling' /\ issweepphase' /\ gcstate # "insideatomic"
      /\ gcstate' = gcstate
  <2>1. Idling /\ PhasesOK' /\ Idling'
    BY <1>3, MutatorIdle DEF SafetyInv, PhasesOK, Idling, phaseVars, TopIs, Top
  <2>2. issweepphase' /\ gcstate # "insideatomic" /\ gcstate' = gcstate
    BY <1>3 DEF issweepphase, phaseVars, SweepStates
  <2>3. \A th \in Threads : Active(th) => Active(th)' /\ stk[th] \subseteq stk'[th]
    <3>. SUFFICES ASSUME NEW th \in Threads, Active(th) PROVE Active(th)' /\ stk[th] \subseteq stk'[th]
      OBVIOUS
    <3>1. th \in NotDead /\ D \in SUBSET Obj
      BY SweepType DEF SafetyInv, ThreadsOK, Dead
    <3>2. th \notin D
      BY <3>1 DEF Dead, NotDead
    <3>. QED  BY <1>2, <1>3, <3>1, <3>2, FreedRefs DEF Active
  <2>4. FramesOK'
    <3>1. FramesOK /\ StepFrame.kind # "fin" /\ cstack' = cstack
      BY <1>3 DEF SafetyInv, StepFrame
    <3>. QED  BY <2>3, <3>1, FramesGrow
  <2>. QED  BY <2>1, <2>2, <2>4
<1>6. C \subseteq ToSweep /\ C \subseteq Obj /\ D \in SUBSET Obj /\ D \subseteq C
      /\ \A x \in D : IsDead(x) /\ x \notin NotDead
  BY SweepType DEF Dead, NotDead
<1>7. ListsPartition /\ o \in Alloc /\ o \in allgc /\ o \notin finobj /\ o \notin tobefnz
  <2>1. o \in Alloc
    BY <1>4 DEF NotDead
  <2>. QED  BY <1>1, <1>3, <2>1 DEF SafetyInv, ListsPartition
<1>8. /\ \A x \in Obj : color'[x] = IF x = o THEN currentwhite
                                    ELSE IF x \in D THEN "free"
                                    ELSE IF x \in C THEN currentwhite ELSE color[x]
      /\ \A x \in Tables \union Udatas :
           mt'[x] = IF x = o THEN m ELSE IF x \in D THEN Nil ELSE mt[x]
  BY <1>1, <1>2, SweepType DEF Swept, TypeOK, RefsOK, Erase
<1>9. o \notin D
  BY <1>4, <1>6
<1>10. \/ /\ sweepgc = o /\ gcstate = "swpallgc" /\ ToSweep = unswept
          /\ sweepgc' \in {"NULL"} \union (C \ D)
          /\ unswept' = IF sweepgc' \in Obj THEN unswept \ C ELSE {}
          /\ sweepgc' = "NULL" => C = unswept
       \/ sweepgc # o /\ C = {} /\ sweepgc' = sweepgc /\ unswept' = unswept \ {o}
  <2>1. CASE sweepgc = o
    <3>1. ToLive(C) /\ Advance(C, ToSweep, sweepgc)
      BY <1>2, <2>1
    <3>2. o \notin {"allgc", "finobj", "tobefnz", "NULL"}
      BY <1>1, Kinds
    <3>3. ToSweep = unswept
      BY <2>1, <3>2 DEF ToSweep
    <3>4. gcstate = "swpallgc"
      BY <1>3, <1>7, <2>1, <3>2 DEF SafetyInv, SweepOK2, issweepphase, SweepStates, SweepListOK
    <3>5. C # ToSweep => C # Dead(C)
      BY <1>6, <3>1, FS_EmptySet DEF ToLive
    <3>6. sweepgc' \in {"NULL"} \union (C \ D) /\ (sweepgc' = "NULL" => C = ToSweep)
      <4>1. CASE C = ToSweep
        BY <3>1, <4>1 DEF Advance, AfterSweep
      <4>2. CASE C # ToSweep
        <5>1. sweepgc' \in C \ D
          BY <3>1, <3>5, <4>2 DEF Advance, AfterSweep
        <5>2. sweepgc' # "NULL"
          BY <1>6, <5>1, Kinds
        <5>. QED  BY <5>1, <5>2
      <4>. QED  BY <4>1, <4>2
    <3>7. unswept' = IF sweepgc' \in Obj THEN unswept \ C ELSE {}
      BY <3>1, <3>3 DEF Advance
    <3>. HIDE DEF D
    <3>. QED  BY <2>1, <3>3, <3>4, <3>6, <3>7
  <2>2. CASE sweepgc # o
    BY <1>2, <2>2
  <2>. QED  BY <2>1, <2>2
<1>11. D \subseteq allgc
  <2>1. CASE sweepgc = o
    <3>1. unswept \subseteq allgc
      BY <1>1, <1>10, <2>1 DEF SafetyInv, SweepOK2, SweepListOK
    <3>. QED  BY <1>6, <1>10, <2>1, <3>1
  <2>2. CASE sweepgc # o
    BY <1>6, <1>10, <2>2
  <2>. QED  BY <2>1, <2>2
<1>12. /\ D \subseteq allgc /\ allgc' = (allgc \ D) \ {o} /\ finobj' = finobj \union {o}
       /\ tobefnz' = tobefnz /\ finbit' = finbit \union {o}
       /\ Alloc' = Alloc \ D /\ MainThread \notin D
  <2>1. Alloc' = Alloc \ D
    <3>1. ASSUME NEW x \in Obj PROVE color'[x] # "free" <=> color[x] # "free" /\ x \notin D
      <4>1. C \subseteq Alloc
        BY <1>6, <1>7, <1>10 DEF SafetyInv, SweepOK2, SweepListOK, ListsPartition
      <4>2. color[o] # "free" /\ currentwhite # "free"
        BY <1>7, ColorFacts
      <4>3. x \in C => color[x] # "free"
        BY <4>1, ColorFacts
      <4>. QED  BY <1>8, <1>9, <4>2, <4>3
    <3>. QED  BY <1>6, <3>1, ColorFacts, ColorFactsNext
  <2>2. MainThread \notin D
    BY <1>6 DEF SafetyInv, KeptOK
  <2>. QED  BY <1>2, <1>7, <1>11, <2>1, <2>2 DEF ListsPartition
<1>13. ListsPartition'
  BY <1>7, <1>9, <1>12 DEF ListsPartition
<1>14. NotDead' = NotDead /\ currentwhite' = currentwhite
  <2>1. otherwhite' = otherwhite /\ currentwhite' = currentwhite
    BY <1>3 DEF otherwhite, phaseVars
  <2>2. \A x \in C \ D : x \in Obj /\ (x \in NotDead \/ color[x] = "free")
    BY <1>6, ColorFacts DEF Dead, IsDead
  <2>3. C \subseteq Alloc
    <3>1. CASE sweepgc = o
      BY <1>1, <1>6, <1>7, <1>10, <3>1 DEF SafetyInv, SweepOK2, SweepListOK, ListsPartition
    <3>2. CASE sweepgc # o
      BY <1>10, <3>2
    <3>. QED  BY <3>1, <3>2
  <2>4. C \ D \subseteq NotDead
    BY <2>2, <2>3, ColorFacts
  <2>. QED  BY <1>4, <1>6, <1>8, <2>1, <2>4, ColorFacts, ColorFactsNext
<1>15. SweepOK2'
  <2>1. ASSUME gcstate = "swpallgc" PROVE SweepListOK("allgc", allgc)'
    <3>1. SweepListOK("allgc", allgc)
      BY <2>1 DEF SafetyInv, SweepOK2
    <3>2. CASE sweepgc = o
      <4>1. unswept \subseteq allgc \ {o}
        BY <1>1, <3>1, <3>2 DEF SweepListOK
      <4>2. C \ D \subseteq allgc' \intersect NotDead
        <5>1. C \ D \subseteq allgc'
          BY <1>6, <1>10, <1>12, <3>2, <4>1
        <5>2. C \ D \subseteq NotDead
          BY <1>6, <1>7, <1>10, <3>2, <4>1, ColorFacts DEF Dead, IsDead, ListsPartition
        <5>. QED  BY <5>1, <5>2
      <4>3. sweepgc' \in Obj => unswept' \subseteq allgc' \ {sweepgc'}
        <5>1. unswept \ C \subseteq allgc'
          BY <1>6, <1>12, <4>1
        <5>2. sweepgc' \in Obj => sweepgc' \in C
          BY <1>10, <3>2, Kinds
        <5>. QED  BY <1>10, <3>2, <5>1, <5>2
      <4>4. sweepgc' \in {"NULL"} \union (C \ D)
        BY <1>10, <3>2
      <4>5. sweepgc' \notin Obj => unswept' = {}
        BY <1>10, <3>2
      <4>. QED  BY <1>14, <4>2, <4>3, <4>4, <4>5 DEF SweepListOK
    <3>3. CASE sweepgc # o
      <4>1. C = {} /\ sweepgc' = sweepgc /\ unswept' = unswept \ {o} /\ allgc' = allgc \ {o}
        BY <1>6, <1>10, <1>12, <3>3
      <4>. QED  BY <1>14, <3>1, <3>3, <4>1 DEF SweepListOK
    <3>. QED  BY <3>2, <3>3
  <2>2. ASSUME gcstate # "swpallgc" PROVE sweepgc # o /\ sweepgc' = sweepgc /\ unswept' = unswept \ {o}
    BY <1>10, <2>2
  <2>3. ASSUME gcstate = "swpfinobj" PROVE SweepListOK("finobj", finobj)'
    <3>1. SweepListOK("finobj", finobj)
      BY <2>3 DEF SafetyInv, SweepOK2
    <3>. QED  BY <1>12, <1>14, <2>2, <2>3, <3>1 DEF SweepListOK
  <2>4. gcstate = "swptobefnz" => sweepgc' = "tobefnz" /\ unswept' = {}
    BY <2>2 DEF SafetyInv, SweepOK2
  <2>5. gcstate = "swpend" => sweepgc' = "NULL" /\ unswept' = {}
    BY <2>2 DEF SafetyInv, SweepOK2
  <2>6. ASSUME NEW x \in Obj
        PROVE  color'[x] \in {"free", currentwhite'} \/ x \in (Ahead \union {MainThread})'
    <3>1. color[x] \in {"free", currentwhite} \/ x \in Ahead \union {MainThread}
      BY <1>3 DEF SafetyInv, SweepOK2
    <3>2. CASE x = o \/ x \in C
      BY <1>6, <1>8, <1>14, <3>2
    <3>3. CASE x # o /\ x \notin C
      <4>1. color'[x] = color[x]
        BY <1>6, <1>8, <3>3
      <4>2. x \in ToSweep => x \in ToSweep'
        <5>1. CASE sweepgc = o
          <6>1. ToSweep = unswept /\ x \in ToSweep => sweepgc' \in Obj /\ unswept' = unswept \ C
            <7>1. ToSweep = unswept /\ sweepgc' \in {"NULL"} \union (C \ D)
                  /\ unswept' = (IF sweepgc' \in Obj THEN unswept \ C ELSE {})
                  /\ (sweepgc' = "NULL" => C = unswept)
              BY <1>10, <5>1
            <7>2. C \subseteq Obj
              BY <1>6
            <7>. QED  BY <3>3, <7>1, <7>2
          <6>2. sweepgc' \in Obj => sweepgc' \notin {"allgc", "finobj", "tobefnz"}
            BY Kinds
          <6>. QED  BY <1>10, <3>3, <5>1, <6>1, <6>2 DEF ToSweep
        <5>2. CASE sweepgc # o
          <6>1. C = {} /\ sweepgc' = sweepgc /\ unswept' = unswept \ {o} /\ allgc' = allgc \ {o}
            BY <1>6, <1>10, <1>12, <5>2
          <6>. QED  BY <1>12, <3>3, <6>1 DEF ToSweep
        <5>. QED  BY <5>1, <5>2
      <4>3. x \in Ahead => x \in Ahead'
        BY <1>5, <1>12, <4>2 DEF Ahead
      <4>. QED  BY <1>14, <3>1, <4>1, <4>3
    <3>. QED  BY <3>2, <3>3
  <2>. QED  BY <1>5, <2>1, <2>3, <2>4, <2>5, <2>6 DEF SweepOK2
<1>16. ASSUME NEW x \in Obj \ D
       PROVE  color'[x] = color[x] \/ (x \in NotDead /\ color'[x] = currentwhite)
  <2>1. CASE x \in C
    <3>1. x \in NotDead'
      BY <1>6, <1>8, <1>14, <1>16, <2>1, ColorFacts, ColorFactsNext DEF otherwhite
    <3>. QED  BY <1>8, <1>14, <1>16, <2>1, <3>1
  <2>2. CASE x \notin C
    BY <1>4, <1>8, <1>16, <2>2
  <2>. QED  BY <2>1, <2>2
<1>17. finobj' \union tobefnz' \subseteq Tables \union Udatas
  BY <1>1, <1>12 DEF SafetyInv, MetasOK
<1>18. /\ \A x \in D : color'[x] = "free"
       /\ \A x \in Tables \union Udatas :
            \/ mt'[x] = IF x \in D THEN Nil ELSE mt[x]
            \/ x \in NotDead /\ In(mt'[x], NotDead) /\ <<x, mt'[x]>> \in Metas
  BY <1>1, <1>4, <1>6, <1>8, <1>9
<1>19. Free(D) /\ UNCHANGED <<currentwhite, basemt, running, resumer, twups, strcache>>
  BY <1>2, <1>3 DEF phaseVars
<1>. HIDE DEF D
<1>. QED
  BY <1>5, <1>6, <1>12, <1>13, <1>15, <1>16, <1>17, <1>18, <1>19, SweepSafe

(***************************************************************************)
(* The end of a finalizer.                                                 *)
(***************************************************************************)
(* What GCTM's caller finds in its stack is what it left there.            *)
LEMMA FinalizerEndSafe ==
  ASSUME TypeOK, TypeOK', SafetyInv, FinalizerEnd
  PROVE  SafetyInv'
<1>. DEFINE U == OpenUpvals(L) \ Top.open
            n == Len(cstack)
<1>1. /\ cstack # <<>> /\ Top.kind = "fin" /\ Top.th = L
      /\ uv' = Closed(U) /\ UpvalBarrier(ClosedValues(U))
      /\ stk' = [stk EXCEPT ![L] = Top.base]
      /\ \E x \in (stk[L] \ Top.base) \union {uv[u].v : u \in U} \union {Nil} :
           stale' = [stale EXCEPT ![L] = Left(x)]
      /\ UNCHANGED <<listVars, phaseVars, sweepVars, grayagain, weak, ephemeron, allweak, refVars,
                     clp, upv, cache, running, resumer, twups, strcache>>
  BY DEF FinalizerEnd, TopIs
<1>2. PICK j \in 0..(n - 1) : cstack' = SubSeq(cstack, 1, j)
  <2>1. n \in Nat /\ n >= 1
    BY <1>1 DEF TypeOK, StackOK
  <2>2. \/ cstack' = SubSeq(cstack, 1, n - 1)
        \/ \E k \in 0..(n - 1) : cstack' = SubSeq(cstack, 1, k)
    BY DEF FinalizerEnd, Dropped
  <2>3. n - 1 \in 0..(n - 1)
    BY <2>1
  <2>. HIDE DEF n
  <2>. QED  BY <2>2, <2>3
<1>3. /\ n \in Nat /\ n >= 1 /\ cstack \in Seq(Frame)
      /\ n \in 1..n /\ cstack[n].kind = "fin" /\ cstack[n].th = L /\ cstack[n].base = Top.base
  BY <1>1 DEF TypeOK, StackOK, Top
<1>4. /\ MutatorOn /\ L \in NotDead /\ L \in Threads
  BY <1>1 DEF MutatorOn, L, SafetyInv, KeptOK, TypeOK, StackOK
<1>5. Top.base \subseteq stk[L]
  BY <1>3 DEF SafetyInv, FramesOK
<1>6. U \subseteq OpenUpvals(L)
  OBVIOUS
<1>. HIDE DEF U
<1>7. \A v \in ClosedValues(U) : In(v, NotDead)
  BY <1>1, <1>6, ClosedCells
<1>8. NotDead \subseteq NotDead'
  <2>1. \A x \in Obj : PaintOK(x)
    BY <1>1, <1>4, <1>7, UpvalPaint
  <2>. QED  BY <1>1, <1>4, <2>1, Painted
<1>9. \A th \in Threads : stk'[th] = IF th = L THEN Top.base ELSE stk[th]
  BY <1>1 DEF TypeOK, StackOK
<1>10. ThreadsOK'
  BY <1>1, <1>8, <1>9, ThreadsKept DEF SafetyInv, L
<1>11. PhasesOK'
  BY <1>1, <1>4, MutatorIdle, IdleStep DEF SafetyInv, phaseVars
<1>12. FramesOK'
  <2>1. j \in Nat /\ j < n
    BY <1>2, <1>3
  <2>2. Len(cstack') = j /\ \A i \in 1..j : i \in 1..n /\ i < n /\ cstack'[i] = cstack[i]
    BY <1>2, <1>3, <2>1
  <2>3. ASSUME NEW i \in 1..j, cstack[i].kind = "fin"
        PROVE  Active(cstack[i].th)' /\ cstack[i].base \subseteq stk'[cstack[i].th]
    <3>1. i \in 1..n /\ i < n /\ cstack[i].th \in Threads
      BY <2>2, <2>3, FinFrame
    <3>2. Active(cstack[i].th) /\ cstack[i].base \subseteq stk[cstack[i].th]
      BY <2>3, <3>1 DEF SafetyInv, FramesOK
    <3>3. cstack[i].th = L => cstack[i].base \subseteq Top.base
      BY <1>3, <2>3, <3>1 DEF SafetyInv, FramesOK
    <3>4. Active(cstack[i].th)'
      <4>1. cstack[i].th = MainThread \/ resumer'[cstack[i].th] # Nil
        BY <1>1, <3>2 DEF Active
      <4>. QED  BY <2>2, <2>3, <4>1 DEF Active
    <3>. QED  BY <1>9, <3>1, <3>2, <3>3, <3>4
  <2>4. ASSUME NEW i \in 1..j, cstack'[i].kind = "fin"
        PROVE  Active(cstack[i].th)' /\ cstack'[i].base \subseteq stk'[cstack'[i].th]
    <3>1. cstack'[i] = cstack[i]
      BY <2>2
    <3>. QED  BY <2>3, <2>4, <3>1
  <2>5. \A i, k \in 1..j :
          i < k /\ cstack'[i].kind = "fin" /\ cstack'[k].kind = "fin" /\ cstack'[i].th = cstack'[k].th
            => cstack'[i].base \subseteq cstack'[k].base
    BY <2>2 DEF SafetyInv, FramesOK
  <2>. HIDE DEF n
  <2>. QED  BY <2>2, <2>4, <2>5 DEF FramesOK
<1>13. \A th \in Threads : \/ stale'[th] = stale[th]
                           \/ th \in NotDead /\ In(stale'[th], NotDead)
  <2>1. PICK x \in (stk[L] \ Top.base) \union {uv[u].v : u \in U} \union {Nil} :
          stale' = [stale EXCEPT ![L] = Left(x)]
    BY <1>1
  <2>2. In(x, NotDead)
    BY <1>1, <1>6, <2>1, ClosedCells, KeptOperands, Kinds DEF SafetyInv, In
  <2>3. In(Left(x), NotDead)
    BY <2>2, Kinds DEF Left, In
  <2>. QED  BY <1>4, <2>1, <2>3 DEF TypeOK, StackOK
<1>14. \A th \in Threads : stk'[th] \subseteq stk[th]
  BY <1>5, <1>9
<1>. QED
  BY <1>1, <1>4, <1>6, <1>7, <1>10, <1>11, <1>12, <1>13, <1>14, ClosedCells, CellsSafe

(* An operation of the program, wherever the collector is.                 *)
LEMMA MutateSafe ==
  ASSUME TypeOK, TypeOK', SafetyInv, Mutate PROVE SafetyInv'
<1>. USE DEF Mutate
<1>1. CASE \E o \in Obj : Pop(o)
  BY <1>1, PushPopSafe
<1>2. CASE Expose
  BY <1>2, PushPopSafe
<1>3. CASE \E o, x \in Obj : Get(o, x)
  BY <1>3, PushPopSafe
<1>4. CASE \E o \in Tables \union Udatas \union Coroutines : NewObject(o)
  BY <1>4, NewObjectSafe
<1>5. CASE \E w \in Vals : w[1] \in CClosures /\ NewCClosure(w[1], w[2])
  BY <1>5, NewObjectSafe
<1>6. CASE \E s \in Strings : NewString(s)
  BY <1>6, StringSafe
<1>7. CASE \E s \in Strings : NewLString(s)
  BY <1>7, StringSafe
<1>8. CASE \E w \in Writes : SetTable(w[1], w[2], w[3])
  BY <1>8, TableStoreSafe
<1>9. CASE \E t \in Tables : \E e \in entries[t] : ClearEntry(t, e)
  BY <1>9, TableStoreSafe
<1>10. CASE \E w \in Vals : SetVal(w[1], w[2])
  BY <1>10, FieldStoreSafe
<1>11. CASE \E m \in BaseMetas : SetBaseMt(m)
  BY <1>11, TableStoreSafe
<1>12. CASE \E w \in Metas : \/ SetMetatable(w[1], w[2])
                             \/ SetFinalizer(w[1], w[2])
                             \/ SetFinalizerInSweep(w[1], w[2])
  BY <1>12, FieldStoreSafe, SetFinalizerInSweepSafe
<1>13. CASE \E c \in LClosures, p \in Protos, u \in UpVals :
              \E v \in Values(Registry) \union {Nil} : Load(c, p, u, v)
  BY <1>13, LoadSafe
<1>14. CASE \E f, n \in LClosures, u \in UpVals : ReuseClosure(f, n, u) \/ NewClosure(f, n, u)
  BY <1>14, PushPopSafe, NewClosureSafe
<1>15. CASE \E f, n \in LClosures, u \in UpVals : \E v \in Locals : CaptureLocal(f, n, u, v)
  BY <1>15, NewClosureSafe
<1>16. CASE \E c \in LClosures : \E v \in Assigned : SetUpval(c, v)
  BY <1>16, UpvaluesSafe
<1>17. CASE \E u \in UpVals : \E v \in Assigned : SetLocal(u, v)
  BY <1>17, UpvaluesSafe
<1>18. CASE \E U \in SUBSET UpVals : CloseUpvals(U)
  BY <1>18, UpvaluesSafe
<1>19. CASE \E j \in Joins : UpvalueJoin(j[1], j[2])
  BY <1>19, UpvaluesSafe
<1>20. CASE \E from, to \in Threads, o \in Obj : Xmove(from, to, o)
  BY <1>20, CoroutineSafe
<1>21. CASE \E co \in Coroutines : Resume(co)
  BY <1>21, CoroutineSafe
<1>22. CASE Yield
  BY <1>22, CoroutineSafe
<1>. QED
  BY <1>1, <1>2, <1>3, <1>4, <1>5, <1>6, <1>7, <1>8, <1>9, <1>10, <1>11, <1>12, <1>13, <1>14,
     <1>15, <1>16, <1>17, <1>18, <1>19, <1>20, <1>21, <1>22
=============================================================================
