------------------------------ MODULE LuaTable ------------------------------
(***************************************************************************)
(* One Lua table (ltable.c): an array part, a node part with the collision *)
(* chains of Brent's variation of chained scatter tables, the pointer      *)
(* 'lastfree', and the bits that cache the absence of metamethods.         *)
(*                                                                         *)
(* A node is numbered by its place in t->node from 1, and 'next' holds the *)
(* number of the next node of the chain, 0 at the end, where the code      *)
(* holds a distance.  The dummy node is an empty node part.  A rehash is   *)
(* cut into the luaH_set calls that re-insert the entries one by one:      *)
(* 'todo' holds what is still to be inserted, the key that caused the      *)
(* rehash last.                                                            *)
(*                                                                         *)
(* An object as a key stands for its address: a dead key and a live one of *)
(* the same address are the same member of KeySet.                         *)
(***************************************************************************)
EXTENDS Integers, Sequences, FiniteSets

CONSTANTS
  KeySet,         (* the keys after normalization: integers and others       *)
  Floats,       (* floats with an integral value                           *)
  Integral,     (* Integral[f]: the integer equal to f                     *)
  Hash,         (* Hash[k]: hash of a string, address of an object; the    *)
                (* integer itself                                          *)
  Pow2Hashed,   (* the keys whose hash is reduced modulo the size: strings *)
                (* and integers; modulo an odd number for the others       *)
  Collectable,  (* the keys that are objects of the collector              *)
  Events,       (* the keys that are names of metamethods with a flag      *)
  ValueSet, Nil,
  Storable,     (* Storable[k]: the values the program may store at k      *)
  WeakEntries,      (* the keys whose entries a collection may clear           *)
  NoKey,        (* the nil in the key of a free node                       *)
  PowersOf2,    (* the powers of 2 up to MAXASIZE                          *)
  MAXASIZE,     (* largest size of the array part                          *)
  LUA_MAXINTEGER,
  ArraySizes, HashSizes,  (* the sizes a table may be created with         *)
  MaxList,      (* longest list constructor                                *)
  RawKeys       (* the keys the program stores at without metamethods      *)

Integers_ == {k \in KeySet : k \in 1 .. LUA_MAXINTEGER}

(* The sizes of a node part: MAXHBITS is MAXABITS - 1.                     *)
NodeSizes == {p \in PowersOf2 : 2 * p \in PowersOf2}

ASSUME KeysAssumption ==
  /\ NoKey \notin KeySet
  /\ Collectable \subseteq KeySet /\ Events \subseteq KeySet /\ WeakEntries \subseteq KeySet
  /\ RawKeys \subseteq KeySet \union Floats
  /\ Floats \cap KeySet = {}
  /\ Integral \in [Floats -> Integers_]
  /\ Hash \in [KeySet -> Nat]
  /\ \A k \in Integers_ : Hash[k] = k
  /\ Integers_ \cap (Collectable \union Events) = {}

ASSUME ValuesAssumption ==
  /\ Nil \in ValueSet
  /\ Storable \in [KeySet -> SUBSET ValueSet]

ASSUME SizesAssumption ==
  /\ MAXASIZE \in Nat /\ LUA_MAXINTEGER \in Nat /\ MaxList \in Nat
  /\ PowersOf2 \subseteq 1 .. MAXASIZE
  /\ ArraySizes \subseteq Nat /\ HashSizes \subseteq Nat
  /\ 1 .. MaxList \subseteq KeySet /\ MaxList <= LUA_MAXINTEGER

ASSUME PowersAssumption ==
  \E bits \in 0 .. MAXASIZE : MAXASIZE = 2^bits /\ PowersOf2 = {2^i : i \in 0 .. bits}

VARIABLES
  array,      (* t->array, of length t->sizearray                          *)
  node,       (* t->node, empty if it is the dummy node                    *)
  lastfree,   (* every free node is numbered at most lastfree              *)
  todo,       (* the insertions a resize has still to do                   *)
  flags,      (* the events whose bit says "absent"                        *)
  iter,       (* the program's use of the table: construction, traversal   *)
  stored      (* history: what the last assignment stored                  *)

tvars == <<array, node, lastfree, todo>>
vars  == <<array, node, lastfree, todo, flags, iter, stored>>

Node == [key: KeySet \union {NoKey}, dead: BOOLEAN, val: ValueSet, next: Nat]

FreeNode == [key |-> NoKey, dead |-> FALSE, val |-> Nil, next |-> 0]

Insertion == [key: KeySet \union {NoKey}, val: ValueSet]

NoTraversal == [phase |-> "off", key |-> NoKey, legal |-> TRUE, seen |-> {}]

(* A float key with an integral value is used as that integer.             *)
Normal(k) == IF k \in Floats THEN Integral[k] ELSE k

-----------------------------------------------------------------------------
(* Finding keys.                                                           *)

mainposition(k) ==
  1 + (Hash[k] % (IF k \in Pow2Hashed \/ Len(node) = 1 THEN Len(node) ELSE Len(node) - 1))

Links == [n \in DOMAIN node |-> node[n].next]

(* The nodes that no set closed under 'links' can leave out that has       *)
(* 'start'.                                                                *)
Closed(S, links) == \A m \in S : links[m] \in S \/ links[m] = 0
Follow(links, start) ==
  {n \in DOMAIN links : \A S \in SUBSET (DOMAIN links \ {n}) : start \in S => ~Closed(S, links)}

(* The nodes that a search meets from 'start' on.                          *)
Chain(start) == Follow(Links, start)

InArray(k) == k \in Integers_ /\ k <= Len(array)

(* Fault: 'next' accepts live keys only.                                   *)
MatchingLive(k) ==
  {n \in DOMAIN node : node[n].key = k /\ ~node[n].dead /\ n \in Chain(mainposition(k))}

(* The nodes of the chain of k whose key is k, dead or alive.              *)
Matching(k) == {n \in DOMAIN node : node[n].key = k /\ n \in Chain(mainposition(k))}

(* Where luaH_getint, luaH_getshortstr and getgeneric find k.              *)
Slots(k) ==
  {n \in DOMAIN node : node[n].key = k /\ ~node[n].dead /\ n \in Chain(mainposition(k))}

Present(k) == InArray(k) \/ Slots(k) # {}

luaH_get(k) ==
  IF InArray(k) THEN array[k]
  ELSE LET slots == Slots(k)
       IN  IF slots = {} THEN Nil ELSE node[CHOOSE n \in slots : TRUE].val

-----------------------------------------------------------------------------
(* Inserting keys.                                                         *)

(* luaH_set or luaH_setint of a key that has a slot.                       *)
Store(k, v) ==
  /\ IF InArray(k)
     THEN array' = [array EXCEPT ![k] = v] /\ UNCHANGED node
     ELSE /\ \E n \in Slots(k) : node' = [node EXCEPT ![n].val = v]
          /\ UNCHANGED array
  /\ UNCHANGED lastfree

(* The node getfreepos returns: the last one whose key is nil.             *)
getfreepos == {f \in 1 .. lastfree :
                 /\ node[f].key = NoKey
                 /\ \A n \in f + 1 .. lastfree : node[n].key # NoKey}

MainTaken(k) == node # <<>> => node[mainposition(k)].val # Nil

(* The main position is free: it may still be linked into a chain and hold *)
(* a key without a value.                                                  *)
TakeMain(k, v) ==
  LET mp == mainposition(k)
  IN  /\ ~MainTaken(k)
      /\ node' = [node EXCEPT ![mp].key = k, ![mp].dead = FALSE, ![mp].val = v]
      /\ UNCHANGED lastfree

(* Fault: the chain is not made to point to the new place of the node.     *)
MoveCollidingUnlinked(k, v) ==
  LET mp    == mainposition(k)
      othern == mainposition(node[mp].key)
  IN  /\ MainTaken(k)
      /\ othern # mp
      /\ \E f \in getfreepos :
           /\ node' = [node EXCEPT ![f] = node[mp],
                         ![mp] = [key |-> k, dead |-> FALSE, val |-> v, next |-> 0]]
           /\ lastfree' = f - 1

(* The colliding node is not in its main position: it moves to a free      *)
(* place, and the new key takes the one it leaves.                         *)
MoveColliding(k, v) ==
  LET mp    == mainposition(k)
      othern == mainposition(node[mp].key)
  IN  /\ MainTaken(k)
      /\ othern # mp
      /\ \E f \in getfreepos : \E p \in Chain(othern) :
           /\ node[p].next = mp
           /\ node' = [node EXCEPT ![p].next = f, ![f] = node[mp],
                         ![mp] = [key |-> k, dead |-> FALSE, val |-> v, next |-> 0]]
           /\ lastfree' = f - 1

(* The colliding node is in its main position: the new key goes to a free  *)
(* place and is linked behind it.                                          *)
LinkNew(k, v) ==
  LET mp == mainposition(k)
  IN  /\ MainTaken(k)
      /\ mainposition(node[mp].key) = mp
      /\ \E f \in getfreepos :
           /\ node' = [node EXCEPT ![mp].next = f,
                         ![f] = [key |-> k, dead |-> FALSE, val |-> v, next |-> node[mp].next]]
           /\ lastfree' = f - 1

luaH_newkey(k, v) ==
  /\ node # <<>>
  /\ TakeMain(k, v) \/ MoveColliding(k, v) \/ LinkNew(k, v)
  /\ UNCHANGED array

NeedsRehash(k) == MainTaken(k) /\ getfreepos = {}

-----------------------------------------------------------------------------
(* Resizing.                                                               *)

(* The integer keys with a value, and the new key ek: numusearray,         *)
(* numusehash and countint.                                                *)
IntegersInUse(ek) ==
  {i \in Integers_ : /\ i <= MAXASIZE
                     /\ \/ InArray(i) /\ array[i] # Nil
                        \/ \E n \in DOMAIN node : node[n].key = i /\ node[n].val # Nil
                        \/ i = ek}

InUse == {i \in DOMAIN array : array[i] # Nil}
NodesInUse == {n \in DOMAIN node : node[n].val # Nil}

MoreThanHalf(size, ints) == 2 * Cardinality(ints \cap 1 .. size) > size

(* computesizes: the largest power of 2 such that more than half of the    *)
(* array is used.                                                          *)
IsOptimal(size, ints) ==
  /\ size = 0 \/ MoreThanHalf(size, ints)
  /\ \A p \in PowersOf2 : p > size => ~MoreThanHalf(p, ints)

(* Fault: the node part gets the size asked for.                           *)
RoundedUpNot(h) == {h}

(* The sizes setnodevector rounds h to; none is a "table overflow".        *)
RoundedUp(h) == IF h = 0 THEN {0} ELSE {p \in NodeSizes : h <= p /\ p < 2 * h}

(* Fault: the vanishing slice is re-inserted with the indices of C.        *)
MovedSliceFromZero(nasize) ==
  [i \in 1 .. Len(array) - nasize |->
     [key |-> IF array[nasize + i] = Nil \/ nasize + i = 1 THEN NoKey ELSE nasize + i - 1,
      val |-> array[nasize + i]]]

(* The entries of the vanishing slice, then the old nodes from the last to *)
(* the first; one without a value is passed over.                          *)
MovedSlice(nasize) ==
  [i \in 1 .. Len(array) - nasize |->
     [key |-> IF array[nasize + i] = Nil THEN NoKey ELSE nasize + i,
      val |-> array[nasize + i]]]

MovedNodes ==
  [i \in 1 .. Len(node) |->
     LET old == node[Len(node) + 1 - i]
     IN  [key |-> IF old.val = Nil THEN NoKey ELSE old.key, val |-> old.val]]

(* luaH_resize up to its first re-insertion; what its caller inserts       *)
(* afterwards is 'rest'.                                                   *)
luaH_resize(nasize, nhsize, rest) ==
  /\ array' = [i \in 1 .. nasize |-> IF i <= Len(array) THEN array[i] ELSE Nil]
  /\ \E size \in RoundedUp(nhsize) :
       /\ node' = [n \in 1 .. size |-> FreeNode]
       /\ lastfree' = size
  /\ todo' = MovedSlice(nasize) \o MovedNodes \o rest

rehash(ek, rest) ==
  \E asize \in PowersOf2 \union {0} :
    LET ints == IntegersInUse(ek)
        totaluse == Cardinality(InUse) + Cardinality(NodesInUse) + 1
    IN  /\ IsOptimal(asize, ints)
        /\ luaH_resize(asize, totaluse - Cardinality(ints \cap 1 .. asize), rest)

(* luaH_set or luaH_setint of v at k, then the insertions of 'rest'.       *)
luaH_set(k, v, rest) ==
  \/ Present(k) /\ Store(k, v) /\ todo' = rest
  \/ ~Present(k) /\ luaH_newkey(k, v) /\ todo' = rest
  \/ ~Present(k) /\ NeedsRehash(k) /\ rehash(k, <<[key |-> k, val |-> v]>> \o rest)

(* The next re-insertion of luaH_resize.                                   *)
Reinsert ==
  /\ todo # <<>>
  /\ LET e == Head(todo)
     IN  \/ e.key = NoKey /\ todo' = Tail(todo) /\ UNCHANGED <<array, node, lastfree>>
         \/ e.key # NoKey /\ luaH_set(e.key, e.val, Tail(todo))
  /\ UNCHANGED <<flags, iter, stored>>

-----------------------------------------------------------------------------
(* The operations of the program.                                          *)

Ready == todo = <<>>

(* A traversal loses its promise when a key without a value is assigned.   *)
Assigning(k, v) ==
  /\ v \in Storable[k]
  /\ iter' = IF iter.phase = "on" /\ luaH_get(k) = Nil
             THEN [iter EXCEPT !.legal = FALSE, !.seen = {}] ELSE iter
  /\ stored' = [key \in {k} |-> v]

(* Fault: luaV_finishset leaves the cache alone.                           *)
SetTableCached(key, v) ==
  LET k == Normal(key)
  IN  /\ Ready
      /\ luaH_set(k, v, <<>>)
      /\ Assigning(k, v)
      /\ UNCHANGED flags

(* t[k] = v: luaV_fastset if the key has a value, else luaV_finishset.     *)
SetTable(key, v) ==
  LET k == Normal(key)
  IN  /\ Ready
      /\ luaH_set(k, v, <<>>)
      /\ flags' = IF luaH_get(k) = Nil THEN {} ELSE flags
      /\ Assigning(k, v)

(* lua_rawset invalidates the cache whatever it stores.                    *)
lua_rawset(key, v) ==
  LET k == Normal(key)
  IN  /\ Ready
      /\ luaH_set(k, v, <<>>)
      /\ flags' = {}
      /\ Assigning(k, v)

(* lua_rawseti never does: no integer names a metamethod.                  *)
lua_rawseti(i, v) ==
  /\ Ready
  /\ luaH_set(i, v, <<>>)
  /\ Assigning(i, v)
  /\ UNCHANGED flags

(* The memory for a resize is refused, or the node part would be too       *)
(* large: the array gets its old size back and the error is thrown again.  *)
SetFails(k) ==
  /\ Ready
  /\ ~Present(k) /\ NeedsRehash(k)
  /\ lastfree' = 0
  /\ UNCHANGED <<array, node, todo, flags, iter, stored>>

(* OP_SETLIST in a constructor: the values f[n] .. f[1].                   *)
SetList(f) ==
  LET n == Len(f)
      list == [i \in 1 .. n |-> [key |-> n + 1 - i, val |-> f[n + 1 - i]]]
  IN  /\ Ready
      /\ iter.phase = "new"
      /\ IF n > Len(array)
         THEN luaH_resize(n, Len(node), list)
         ELSE todo' = list /\ UNCHANGED <<array, node, lastfree>>
      /\ iter' = NoTraversal
      /\ stored' = f
      /\ UNCHANGED flags

(* fasttm: a flag answers, otherwise luaT_gettm looks and may set it.      *)
luaT_gettm(e) ==
  /\ Ready
  /\ e \notin flags /\ luaH_get(e) = Nil
  /\ flags' = flags \union {e}
  /\ UNCHANGED <<tvars, iter, stored>>

-----------------------------------------------------------------------------
(* Traversal.  The index of an entry counts the array part, then the nodes. *)

LastIndex == Len(array) + Len(node)
ValueAt(i) == IF i <= Len(array) THEN array[i] ELSE node[i - Len(array)].val
KeyAt(i) == IF i <= Len(array) THEN i ELSE node[i - Len(array)].key

(* The index of a key given to 'next': the first match in its chain, dead  *)
(* or alive.  There is none if 'next' raises "invalid key to 'next'".      *)
findindex(k) ==
  IF k = NoKey THEN {0}
  ELSE IF InArray(k) THEN {k}
  ELSE {Len(array) + n : n \in {m \in Matching(k) : Matching(k) \subseteq Chain(m)}}

NonNil(i) == {j \in i + 1 .. LastIndex : ValueAt(j) # Nil}

(* luaH_next after key k; 'from' is what the traversal has seen so far.    *)
Advance(k, legal, seen) ==
  \E i \in findindex(k) :
    \/ /\ NonNil(i) = {}
       /\ iter' = NoTraversal
    \/ \E j \in NonNil(i) :
         /\ \A m \in NonNil(i) : j <= m
         /\ iter' = [phase |-> "on", key |-> KeyAt(j), legal |-> legal,
                     seen |-> IF legal THEN seen \union {KeyAt(j)} ELSE {}]

(* next(t): a traversal begins.                                            *)
FirstNext ==
  /\ Ready
  /\ Advance(NoKey, TRUE, {})
  /\ UNCHANGED <<tvars, flags, stored>>

luaH_next ==
  /\ Ready
  /\ iter.phase = "on"
  /\ Advance(iter.key, iter.legal, iter.seen)
  /\ UNCHANGED <<tvars, flags, stored>>

(* A rehash dropped the key, which has no value any more.                  *)
InvalidKey ==
  /\ Ready
  /\ iter.phase = "on"
  /\ findindex(iter.key) = {}
  /\ iter' = NoTraversal
  /\ UNCHANGED <<tvars, flags, stored>>

-----------------------------------------------------------------------------
(* The collector.                                                          *)

(* Fault: the key is set to nil instead of dead.                           *)
removeentryNil(n) ==
  /\ Ready
  /\ node[n].val = Nil /\ node[n].key \in Collectable /\ ~node[n].dead
  /\ node' = [node EXCEPT ![n].key = NoKey]
  /\ UNCHANGED <<array, lastfree, todo, flags, iter, stored>>

(* removeentry: the key of an entry without a value is white.              *)
removeentry(n) ==
  /\ Ready
  /\ node[n].val = Nil /\ node[n].key \in Collectable /\ ~node[n].dead
  /\ node' = [node EXCEPT ![n].dead = TRUE]
  /\ UNCHANGED <<array, lastfree, todo, flags, iter, stored>>

(* clearvalues or clearkeys on a weak table; removeentry may follow.       *)
ClearEntry(k) ==
  /\ Ready
  /\ luaH_get(k) # Nil
  /\ Store(k, Nil)
  /\ stored' = [key \in {k} |-> Nil]
  /\ UNCHANGED <<todo, flags, iter>>

-----------------------------------------------------------------------------
(* luaH_new and luaH_resize with the sizes of OP_NEWTABLE.                 *)
Init ==
  /\ \E nasize \in ArraySizes : array = [i \in 1 .. nasize |-> Nil]
  /\ \E nhsize \in HashSizes : \E size \in RoundedUp(nhsize) :
       /\ node = [n \in 1 .. size |-> FreeNode]
       /\ lastfree = size
  /\ todo = <<>>
  /\ flags = Events
  /\ iter = [NoTraversal EXCEPT !.phase = "new"]
  /\ stored = <<>>

Lists == UNION {[1 .. n -> ValueSet] : n \in 1 .. MaxList}

Next ==
  \/ Reinsert
  \/ \E k \in KeySet \union Floats : \E v \in ValueSet : SetTable(k, v)
  \/ \E k \in RawKeys : \E v \in ValueSet : lua_rawset(k, v)
  \/ \E i \in RawKeys \cap Integers_ : \E v \in ValueSet : lua_rawseti(i, v)
  \/ \E k \in KeySet : SetFails(k)
  \/ \E f \in Lists : (\A i \in DOMAIN f : f[i] \in Storable[i]) /\ SetList(f)
  \/ \E e \in Events : luaT_gettm(e)
  \/ FirstNext \/ luaH_next \/ InvalidKey
  \/ \E n \in DOMAIN node : removeentry(n)
  \/ \E k \in WeakEntries : ClearEntry(k)

Spec == Init /\ [][Next]_vars

-----------------------------------------------------------------------------
(* The length operator.                                                    *)

IntValue(j) == IF j \in KeySet THEN luaH_get(j) ELSE Nil

(* Fault: the search stops one step early.                                 *)
BisectShort(i, j) ==
  LET search[b \in Nat \X Nat] ==
        LET m == (b[1] + b[2]) \div 2
        IN  IF b[2] - b[1] <= 2 THEN b[2] - 1
            ELSE IF IntValue(m) = Nil THEN search[<<b[1], m>>] ELSE search[<<m, b[2]>>]
  IN  search[<<i, j>>]

(* The binary search of luaH_getn and unbound_search between a present     *)
(* index i and an absent one j.                                            *)
Bisect(i, j) ==
  LET search[b \in Nat \X Nat] ==
        LET m == (b[1] + b[2]) \div 2
        IN  IF b[2] - b[1] <= 1 THEN b[1]
            ELSE IF IntValue(m) = Nil THEN search[<<b[1], m>>] ELSE search[<<m, b[2]>>]
  IN  search[<<i, j>>]

(* The linear search from 1: the integers before the first absent one.     *)
LinearSearch ==
  CHOOSE n \in 0 .. LUA_MAXINTEGER :
    (\A i \in 1 .. n : IntValue(i) # Nil) /\ IntValue(n + 1) = Nil

unbound_search(start) ==
  LET probe[b \in Nat \X Nat] ==
        IF IntValue(b[2]) = Nil THEN Bisect(b[1], b[2])
        ELSE IF b[2] > LUA_MAXINTEGER \div 2 THEN LinearSearch
        ELSE probe[<<b[2], 2 * b[2]>>]
  IN  probe[<<start, start + 1>>]

luaH_getn ==
  IF array # <<>> /\ array[Len(array)] = Nil THEN Bisect(0, Len(array))
  ELSE IF node = <<>> THEN Len(array)
  ELSE unbound_search(Len(array))

-----------------------------------------------------------------------------
(* Properties.                                                             *)

(* The state has the types of struct Table; every link and the pointer     *)
(* lastfree lie within the node part, values of the array part are at keys.*)
TypeOK ==
  /\ array \in Seq(ValueSet) /\ \A i \in DOMAIN array : array[i] # Nil => i \in KeySet
  /\ node \in Seq(Node) /\ Len(node) \in NodeSizes \union {0}
  /\ \A n \in DOMAIN node : node[n].next \in 0 .. Len(node)
  /\ lastfree \in 0 .. Len(node)
  /\ todo \in Seq(Insertion)
  /\ flags \subseteq Events
  /\ iter \in [phase: {"new", "off", "on"}, key: KeySet \union {NoKey},
               legal: BOOLEAN, seen: SUBSET (KeySet \union {NoKey})]
  /\ stored \in UNION {[S -> ValueSet] : S \in SUBSET KeySet}

(* lobject.h:585, "any free position is before this position": getfreepos  *)
(* misses no free node, so that a table is rehashed only when it is full,  *)
(* and a free node is unlinked and carries nothing.                        *)
FreePositions ==
  \A n \in DOMAIN node : node[n].key = NoKey =>
    n <= lastfree /\ node[n].val = Nil /\ node[n].next = 0

(* The chains that luaH_newkey (ltable.c:542-565) relinks: an entry with a *)
(* value is in the chain of its main position, no node follows two others, *)
(* every chain ends, and no key has two live nodes.  The search loops and  *)
(* the loop for the previous node rest on it.                              *)
ChainsSound ==
  /\ \A n \in DOMAIN node :
       /\ node[n].val # Nil => n \in Chain(mainposition(node[n].key))
       /\ \E m \in Chain(n) : node[m].next = 0
  /\ \A m, n \in DOMAIN node :
       m # n => /\ node[m].next = node[n].next => node[m].next = 0
                /\ node[m].key = node[n].key =>
                     node[m].key = NoKey \/ node[m].dead \/ node[n].dead

(* No insertion made by luaH_resize, nor the one rehash was called for,    *)
(* runs out of free nodes (ltable.c:439-460): the sizes counted suffice,   *)
(* and a rehash never calls itself.                                        *)
NoNestedRehash ==
  todo # <<>> /\ Head(todo).key # NoKey =>
    Present(Head(todo).key) \/ ~NeedsRehash(Head(todo).key)

(* What luaH_newkey and rehash rely on between any two insertions of one   *)
(* another: the chains hold, and there is room for what is to be inserted. *)
NodesSound == ChainsSound /\ NoNestedRehash

(* ltable.c:742, "a boundary is an integer index such that t[i] is non-nil *)
(* and t[i+1] is nil (and 0 if t[1] is nil)": whatever entries are in which*)
(* part, and when doubling the probe would overflow.                       *)
LengthIsBorder ==
  Ready => /\ luaH_getn = 0 \/ IntValue(luaH_getn) # Nil
           /\ IntValue(luaH_getn + 1) = Nil

(* ltable.c:676, "invalidate the TM cache": a flag never hides a           *)
(* metamethod that is there, whichever of the store operations put it.     *)
TMCacheSound == Ready => \A e \in flags : luaH_get(e) = Nil

(* ltable.c:174, "key may be dead already, but it is ok to use it in       *)
(* 'next'": as long as the program assigns no new fields, the key it got   *)
(* is found again, though a collection may have cleared its entry.         *)
NextFindsKey ==
  Ready /\ iter.phase = "on" /\ iter.legal => findindex(iter.key) # {}

-----------------------------------------------------------------------------
(* Refinement: an assignment takes effect when it is called; insertions    *)
(* still to be done count already.                                         *)

Pending(k) == {i \in DOMAIN todo : todo[i].key = k}

Contents ==
  [k \in KeySet |->
     IF Pending(k) = {} THEN luaH_get(k)
     ELSE todo[CHOOSE i \in Pending(k) : \A j \in Pending(k) : j <= i].val]

Traversal ==
  LET covered == iter.phase = "on" /\ iter.legal
  IN  [running |-> covered, seen |-> IF covered THEN iter.seen ELSE {}]

Map == INSTANCE LuaMap WITH Keys <- KeySet, map <- Contents, traversal <- Traversal

(* The table is a map: no sequence of insertions, moves, rehashes, failed  *)
(* rehashes and collections loses, duplicates or exchanges an entry, and a *)
(* legal traversal visits every key that keeps its value exactly once.     *)
ImplementsMap == Map!Spec

=============================================================================
