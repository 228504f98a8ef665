-------------------------------- MODULE LuaGC --------------------------------
(***************************************************************************)
(* The program and its incremental garbage collector, interleaved.         *)
(***************************************************************************)
EXTENDS LuaCollector

Next ==
  \/ Mutate
  \/ CollectorStep
  \/ FinalizerEnd
  \/ \E emergency \in FullKinds : FullGC(emergency)

Spec == HeapInit /\ [][Next]_vars

(***************************************************************************)
(* Safety.                                                                 *)
(***************************************************************************)
(* Some set of allocated objects holds the roots and everything that its   *)
(* members keep alive: no freed object can be reached.                     *)
ReachableAllocated ==
  \E S \in SUBSET Alloc : Roots \subseteq S /\ \A o \in S : StrongRefs(o, S) \subseteq S

(* The objects the sweep will keep.                                        *)
NotDead == {o \in Alloc : ~IsDead(o)}

(* An object that the sweep keeps never refers, not even weakly, from a    *)
(* register above the top or through a cache, to an object that was freed  *)
(* or that the sweep will free (lgc.c: sweeplist frees what carries the    *)
(* old white; the checkliveness assertions of lobject.h).                  *)
NoDanglingRef ==
  /\ Roots \subseteq NotDead
  /\ \A o \in NotDead : Refs(o) \subseteq NotDead
  /\ strcache \subseteq NotDead
  /\ twups \subseteq NotDead

(* lgc.h: while the invariant is kept, no black object points to a white   *)
(* one.  An open upvalue counts through its thread: it is touched, or the  *)
(* atomic phase marks its value.                                           *)
BlackRefs(o) ==
  IF o \in LClosures /\ IsOpen(upv[o]) THEN Objs({clp[o]}) ELSE Refs(o)

NoBlackToWhite ==
  keepinvariant => \A o \in Obj : color[o] = "black" => \A x \in BlackRefs(o) : ~IsWhite(x)

(* lgc.h: any gray object is in a gray list, and as the objects are linked *)
(* through one field, in one only; what is in a gray list is gray.         *)
GrayLists == <<gray, grayagain, weak, ephemeron, allweak>>

GrayListed ==
  keepinvariant /\ Idling =>
    /\ \A o \in Obj : color[o] = "gray" <=> \E i \in 1..5 : o \in GrayLists[i]
    /\ \A i, j \in 1..5 : i # j => GrayLists[i] \intersect GrayLists[j] = {}

(* propagatemark in GCSpropagate is never called with an empty gray list   *)
(* (the assertion of singlestep).                                          *)
PropagateHasGray == gcstate = "propagate" /\ Idling => gray # {}

(* Every allocated object but the main thread is in exactly one list, and  *)
(* FINALIZEDBIT tells the lists of objects with a pending finalizer: the   *)
(* assertions of udata2finalize and separatetobefnz.                       *)
ListsPartition ==
  /\ allgc \union finobj \union tobefnz = Alloc \ {MainThread}
  /\ allgc \intersect (finobj \union tobefnz) = {}
  /\ finobj \intersect tobefnz = {}
  /\ finbit = finobj \union tobefnz

(* lgc.h: when the sweep has ended, all objects are white again; between   *)
(* two cycles none has the old white, which would free it in the next one. *)
SweepRestoresWhite ==
  gcstate \in {"callfin", "pause"} => \A o \in Alloc : color[o] = currentwhite

(* The sweep pointer is NULL outside the sweep phase (the assertion of     *)
(* entersweep) and never points into a freed object or into another list   *)
(* than the one being swept.                                               *)
SweepPointer ==
  /\ ~issweepphase => sweepgc = "NULL"
  /\ sweepgc \in Obj => /\ sweepgc \in Alloc
                        /\ \E K \in {allgc, finobj, tobefnz} : {sweepgc} \union unswept \subseteq K

(* runafewfinalizers asserts that a pending finalizer can be called.       *)
PendingFinalizersCounted == tobefnz # {} /\ Idling => gcfinnum

(* luaC_upvdeccount, luaF_close: a cell counts the closures that hold it,  *)
(* and a closed one is allocated as long as there is one.                  *)
Holders(u) == {c \in LClosures : upv[c] = u}

RefcountExact ==
  \A u \in UpVals :
    /\ uv[u].refcount = Cardinality(Holders(u))
    /\ uv[u].th = "closed" => uv[u].refcount > 0
    /\ uv[u].th = "free" => uv[u].refcount = 0

(* luaF_findupval and traversethread assert that a thread with open        *)
(* upvalues is in the list twups, except inside the atomic phase.          *)
OpenInTwups ==
  gcstate # "insideatomic" =>
    \A u \in UpVals : IsOpen(u) /\ uv[u].th \in NotDead => uv[u].th \in twups

(* What the collector's and the program's steps rely on together, however  *)
(* they interleave: the barriers keep black objects from white ones, and   *)
(* every gray object is in one list to be visited again; each object is in *)
(* the list that its bits say, and the sweep pointer in the one that is    *)
(* swept, also when setmetatable or a finalizer moves it (luaC_checkfinal- *)
(* izer, udata2finalize); the sweep leaves all objects white; threads with *)
(* open upvalues are found by the atomic phase.                            *)
HeapSound ==
  /\ NoBlackToWhite /\ GrayListed
  /\ ListsPartition /\ SweepPointer /\ SweepRestoresWhite
  /\ OpenInTwups

(* lgc.h: a gray object is in a list "so that it can be visited again      *)
(* before finishing the collection cycle": when the mark phase is over,    *)
(* what it keeps alive is marked.                                          *)
GrayRevisited ==
  atom.pc = "enter" =>
    \A o \in Obj : color[o] = "gray" => \A x \in StrongRefs(o, NotDead) : ~IsDead(x)

(* What the program can still reach: the least set with the roots and all  *)
(* that its members keep alive.                                            *)
KeptAlive(S)  == Roots \subseteq S /\ \A o \in S : StrongRefs(o, S) \subseteq S
Reachable   == {o \in Alloc : \A S \in SUBSET Alloc : KeptAlive(S) => o \in S}

(* separatetobefnz: an object that the program can still reach is never    *)
(* handed to its finalizer, whatever moved while the mark was under way.   *)
OnlyGarbageFinalized ==
  [][tobefnz' \subseteq tobefnz \union (Alloc \ Reachable)]_vars

(* atomic() clears weak values before it separates the objects to be       *)
(* finalized: a finalizer, which revives its object, can never find it in  *)
(* the weak values of a table that the program can reach.                  *)
WeakValuesCleared ==
  [][\A t \in Tables \intersect (IF tobefnz' = tobefnz THEN {} ELSE Reachable) :
       Mode(t) \in {"v", "kv"} =>
         \A e \in entries'[t] : e[2] \notin tobefnz' \ tobefnz]_vars

(* clearkeys, clearvalues: the collector takes an entry out of a live weak *)
(* table only if its key or its value has become unreachable; an object    *)
(* that waits for its finalizer still counts as a key.                     *)
WeakEntriesKept ==
  [][~MutatorOn \/ cstack' # cstack =>
       \A t \in Tables : \A e \in entries[t] \ entries'[t] :
         t \in Reachable => \/ Weakable(e[1]) /\ e[1] \notin Reachable
                            \/ Weakable(e[2]) /\ e[2] \notin Reachable]_vars

(* Objects that may outlive a cycle as garbage: the key of an entry of a   *)
(* table with weak values, which is marked before the entry is cleared     *)
(* (traverseweakvalue), and the value of an upvalue that was touched in an *)
(* earlier cycle, in a thread that has died since (remarkupvals).          *)
MayFloat ==
  \/ Coroutines # {}
  \/ \E e \in Writes, m \in Metas : /\ e[1] = m[1] /\ Weakable(e[2])
                                    /\ m[2] # Nil /\ WeakMode[m[2]] = "v"

(* luaC_fullgc, the collection of last resort when an allocation fails:    *)
(* the program does not run in it, and it leaves no other garbage behind   *)
(* than strings: iscleared marks those in a weak table, even in entries    *)
(* that it clears for their other half.                                    *)
EmergencyFreesGarbage ==
  [][Emergency /\ cstack' # cstack /\ cstack' = Dropped /\ ~MayFloat =>
       Alloc \ Reachable \subseteq {s \in Strings : \E t \in Tables : Mode(t) # ""}]_vars
=============================================================================
