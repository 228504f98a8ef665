--------------------------- MODULE LuaTableProofs ---------------------------
(***************************************************************************)
(* Theorems about LuaTable: types, the pointer lastfree, the chains of the *)
(* node part, the metamethod cache, the traversal with 'next', and that a  *)
(* table is a map (LuaMap).  The inductive invariant is                    *)
(*     TypeOK /\ Inserting /\ CacheOK /\ TravOK,                           *)
(* where Inserting says that every key stored is linked from its main      *)
(* position, that no node holds a key of the array part, and that an       *)
(* unfinished rehash has room for all that is still to be inserted.        *)
(***************************************************************************)
EXTENDS LuaTable, SequenceTheorems, FiniteSetTheorems, WellFoundedInduction, TLAPS

(* A node part whose links stay inside it.                                 *)
Linked(nd) == /\ nd \in Seq(Node)
              /\ \A n \in DOMAIN nd : nd[n].next \in 0 .. Len(nd)

Sized(nd) == Len(nd) \in NodeSizes \union {0}

-----------------------------------------------------------------------------

(* The node sizes are positive numbers.                                    *)
LEMMA SizesPositive == NodeSizes \subseteq Nat \ {0}
<1>1. NodeSizes \subseteq PowersOf2
  BY Zenon DEF NodeSizes
<1>. QED  BY <1>1, SizesAssumption

(* Integers_ are keys, and integers.                                       *)
LEMMA IntegersAreKeys == Integers_ \subseteq KeySet /\ Integers_ \subseteq Int
  BY SizesAssumption DEF Integers_

(* The main position of a key is a node.                                   *)
LEMMA MainInRange ==
  ASSUME node \in Seq(Node), node # <<>>, NEW k \in KeySet
  PROVE  mainposition(k) \in DOMAIN node
<1>1. Len(node) \in Nat \ {0} /\ DOMAIN node = 1 .. Len(node)
  OBVIOUS
<1>2. Hash[k] \in Nat
  BY KeysAssumption
<1>3. \A d \in Nat \ {0} : d <= Len(node) => 1 + (Hash[k] % d) \in 1 .. Len(node)
  BY <1>1, <1>2
<1>. DEFINE d == IF k \in Pow2Hashed \/ Len(node) = 1 THEN Len(node) ELSE Len(node) - 1
<1>4. d \in Nat \ {0} /\ d <= Len(node)
  BY <1>1
<1>5. mainposition(k) = 1 + (Hash[k] % d)
  BY DEF mainposition
<1>. HIDE DEF d
<1>. QED  BY <1>1, <1>3, <1>4, <1>5

(* A chain consists of nodes.                                              *)
LEMMA ChainInRange == \A s : Chain(s) \subseteq DOMAIN node
  BY DEF Chain, Follow, Links

(* Replacing nodes by well-linked ones leaves a well-linked node part.     *)
LEMMA Relinked ==
  ASSUME NEW nd, NEW new, Linked(nd), Sized(nd),
         new \in [DOMAIN nd -> Node],
         \A n \in DOMAIN nd : new[n].next \in 0 .. Len(nd)
  PROVE  Linked(new) /\ Sized(new) /\ Len(new) = Len(nd) /\ DOMAIN new = DOMAIN nd
<1>1. nd \in Seq(Node) /\ DOMAIN nd = 1 .. Len(nd) /\ Len(nd) \in Nat
  BY DEF Linked
<1>2. new \in Seq(Node) /\ Len(new) = Len(nd)
  BY <1>1, IsASeq
<1>. QED  BY <1>1, <1>2 DEF Linked, Sized

-----------------------------------------------------------------------------
(* Type correctness.                                                       *)

TableOK ==
  /\ array \in Seq(ValueSet) /\ \A i \in DOMAIN array : array[i] # Nil => i \in KeySet
  /\ Linked(node) /\ Sized(node)
  /\ lastfree \in 0 .. Len(node)

IterOK ==
  iter \in [phase: {"new", "off", "on"}, key: KeySet \union {NoKey},
            legal: BOOLEAN, seen: SUBSET (KeySet \union {NoKey})]

StoredOK == stored \in UNION {[S -> ValueSet] : S \in SUBSET KeySet}

LEMMA TypeParts ==
  /\ TypeOK <=> /\ TableOK /\ todo \in Seq(Insertion)
                /\ flags \subseteq Events /\ IterOK /\ StoredOK
  /\ TypeOK' <=> /\ TableOK' /\ todo' \in Seq(Insertion)
                 /\ flags' \subseteq Events /\ IterOK' /\ StoredOK'
  BY DEF TypeOK, TableOK, Linked, Sized, IterOK, StoredOK

(* A set of numbers up to a bound has a largest member.                    *)
LEMMA LargestMember ==
  ASSUME NEW b \in Nat, NEW S \in SUBSET (1 .. b), S # {}
  PROVE  \E x \in S : \A y \in S : y <= x
<1>. DEFINE R == {ss \in Nat \X Nat : ss[1] < ss[2]}
            T == {x \in Nat : b - x \in S}
<1>1. IsWellFoundedOn(R, Nat)
  BY NatLessThanWellFounded DEF OpToRel
<1>2. T \subseteq Nat /\ T # {}
  <2>1. PICK x \in S : TRUE
    OBVIOUS
  <2>2. b - x \in T
    BY <2>1
  <2>. QED  BY <2>2
<1>. HIDE DEF R, T
<1>3. PICK t \in T : \A u \in T : <<u, t>> \notin R
  BY <1>1, <1>2, WFMin
<1>4. b - t \in S /\ \A y \in S : y <= b - t
  <2>1. t \in Nat /\ b - t \in S
    BY <1>3 DEF T
  <2>2. ASSUME NEW y \in S PROVE y <= b - t
    <3>1. y \in Nat /\ b - y \in Nat /\ b - (b - y) = y
      OBVIOUS
    <3>2. b - y \in T
      BY <3>1, <2>2 DEF T
    <3>3. ~(b - y < t)
      BY <1>3, <2>1, <3>1, <3>2 DEF R
    <3>. QED  BY <2>1, <3>1, <3>3
  <2>. QED  BY <2>1, <2>2
<1>. QED  BY <1>4

(* Fields of a node.                                                       *)
LEMMA NodeFields ==
  /\ FreeNode \in Node /\ FreeNode.next = 0 /\ FreeNode.key = NoKey /\ FreeNode.val = Nil
  /\ \A k \in KeySet \union {NoKey}, d \in BOOLEAN, v \in ValueSet, n \in Nat :
       [key |-> k, dead |-> d, val |-> v, next |-> n] \in Node
  BY ValuesAssumption DEF FreeNode, Node

(* A new sequence of the size of another, made element by element.         *)
LEMMA StoreType ==
  ASSUME TableOK, NEW k \in KeySet, NEW v \in ValueSet, Store(k, v)
  PROVE  TableOK'
<1>1. Linked(node) /\ Sized(node) /\ array \in Seq(ValueSet)
  BY DEF TableOK
<1>2. CASE InArray(k)
  <2>1. array' = [array EXCEPT ![k] = v] /\ UNCHANGED <<node, lastfree>>
    BY <1>2 DEF Store
  <2>2. k \in 1 .. Len(array)
    BY <1>1, <1>2, SizesAssumption DEF InArray, Integers_
  <2>3. array' \in Seq(ValueSet)
    BY <1>1, <2>1, <2>2, ExceptSeq
  <2>4. \A i \in DOMAIN array' : array'[i] # Nil => i \in KeySet
    BY <1>1, <2>1, <2>2 DEF TableOK
  <2>. QED  BY <2>1, <2>3, <2>4 DEF TableOK, Linked, Sized
<1>3. CASE ~InArray(k)
  <2>1. UNCHANGED <<array, lastfree>>
    BY <1>3 DEF Store
  <2>2. PICK n \in Slots(k) : node' = [node EXCEPT ![n].val = v]
    BY <1>3 DEF Store
  <2>3. n \in DOMAIN node /\ node \in Seq(Node)
    BY <1>1 DEF Slots, Linked
  <2>. DEFINE new == [node[n] EXCEPT !.val = v]
  <2>5. node[n] \in Node
    BY <2>3
  <2>6. new \in Node /\ new.next = node[n].next
    BY <2>5 DEF Node
  <2>7. node' = [m \in DOMAIN node |-> IF m = n THEN new ELSE node[m]]
    BY <2>2, <2>3
  <2>. HIDE DEF new
  <2>4. node' \in [DOMAIN node -> Node] /\ \A m \in DOMAIN node : node'[m].next = node[m].next
    BY <2>3, <2>6, <2>7
  <2>8. Linked(node') /\ Sized(node') /\ Len(node') = Len(node)
    BY <1>1, <2>4, Relinked DEF Linked
  <2>. QED  BY <1>1, <2>1, <2>8 DEF TableOK
<1>. QED  BY <1>2, <1>3

LEMMA NewKeyType ==
  ASSUME TableOK, NEW k \in KeySet, NEW v \in ValueSet, luaH_newkey(k, v)
  PROVE  TableOK'
<1>. DEFINE mp == mainposition(k)
<1>1. Linked(node) /\ Sized(node) /\ node # <<>> /\ UNCHANGED array
  BY DEF TableOK, luaH_newkey
<1>2. node \in Seq(Node) /\ DOMAIN node = 1 .. Len(node) /\ Len(node) \in Nat
  BY <1>1 DEF Linked
<1>3. mp \in DOMAIN node
  BY <1>1, <1>2, MainInRange
<1>4. SUFFICES /\ node' \in [DOMAIN node -> Node]
               /\ \A n \in DOMAIN node : node'[n].next \in 0 .. Len(node)
               /\ lastfree' \in 0 .. Len(node)
  BY <1>1, Relinked DEF TableOK
<1>5. lastfree \in 0 .. Len(node)
  BY DEF TableOK
<1>6. \A f \in getfreepos : f \in DOMAIN node /\ f \in 0 .. Len(node) /\ f - 1 \in 0 .. Len(node)
  BY <1>2, <1>5 DEF getfreepos
<1>7. \A n \in DOMAIN node : node[n] \in Node /\ node[n].next \in 0 .. Len(node)
  BY <1>1, <1>2 DEF Linked
<1>. HIDE DEF mp
<1>8. CASE TakeMain(k, v)
  <2>1. node' = [node EXCEPT ![mp].key = k, ![mp].dead = FALSE, ![mp].val = v]
        /\ lastfree' = lastfree
    BY <1>8 DEF TakeMain, mp
  <2>. QED  BY <1>2, <1>3, <1>5, <1>7, <2>1 DEF Node
<1>9. CASE MoveColliding(k, v)
  <2>. DEFINE new == [key |-> k, dead |-> FALSE, val |-> v, next |-> 0]
  <2>1. PICK f \in getfreepos : \E p \in Chain(mainposition(node[mp].key)) :
           /\ node' = [node EXCEPT ![p].next = f, ![f] = node[mp], ![mp] = new]
           /\ lastfree' = f - 1
    BY <1>9 DEF MoveColliding, mp
  <2>2. PICK p \in DOMAIN node :
           /\ node' = [node EXCEPT ![p].next = f, ![f] = node[mp], ![mp] = new]
           /\ lastfree' = f - 1
    BY <2>1, ChainInRange
  <2>3. new \in Node /\ new.next = 0
    BY DEF Node
  <2>4. [node[p] EXCEPT !.next = f] \in Node /\ [node[p] EXCEPT !.next = f].next = f
    BY <1>6, <1>7 DEF Node
  <2>. HIDE DEF new
  <2>5. node' = [n \in DOMAIN node |->
                   IF n = mp THEN new ELSE IF n = f THEN node[mp]
                   ELSE IF n = p THEN [node[p] EXCEPT !.next = f] ELSE node[n]]
    BY <1>3, <1>6, <2>2
  <2>6. \A n \in DOMAIN node : node'[n] \in Node /\ node'[n].next \in 0 .. Len(node)
    <3>. TAKE n \in DOMAIN node
    <3>. QED  BY <1>2, <1>3, <1>6, <1>7, <2>3, <2>4, <2>5
  <2>7. node' \in [DOMAIN node -> Node]
    BY <2>5, <2>6
  <2>. QED  BY <1>6, <2>2, <2>6, <2>7
<1>10. CASE LinkNew(k, v)
  <2>. DEFINE new == [key |-> k, dead |-> FALSE, val |-> v, next |-> node[mp].next]
  <2>1. PICK f \in getfreepos :
           /\ node' = [node EXCEPT ![mp].next = f, ![f] = new]
           /\ lastfree' = f - 1
    BY <1>10 DEF LinkNew, mp
  <2>2. new \in Node /\ new.next \in 0 .. Len(node)
    BY <1>2, <1>3, <1>7 DEF Node
  <2>3. [node[mp] EXCEPT !.next = f] \in Node /\ [node[mp] EXCEPT !.next = f].next = f
    BY <1>3, <1>6, <1>7 DEF Node
  <2>. HIDE DEF new
  <2>4. node' = [n \in DOMAIN node |->
                   IF n = f THEN new
                   ELSE IF n = mp THEN [node[mp] EXCEPT !.next = f] ELSE node[n]]
    BY <1>3, <1>6, <2>1
  <2>. QED  BY <1>2, <1>3, <1>6, <1>7, <2>1, <2>2, <2>3, <2>4
<1>. QED  BY <1>8, <1>9, <1>10 DEF luaH_newkey

(* What a resize has still to insert.                                      *)
LEMMA MovedType ==
  ASSUME TableOK, NEW nasize \in Nat
  PROVE  MovedSlice(nasize) \in Seq(Insertion) /\ MovedNodes \in Seq(Insertion)
<1>1. /\ array \in Seq(ValueSet) /\ DOMAIN array = 1 .. Len(array) /\ Len(array) \in Nat
      /\ \A i \in DOMAIN array : array[i] # Nil => i \in KeySet
      /\ node \in Seq(Node) /\ DOMAIN node = 1 .. Len(node) /\ Len(node) \in Nat
  BY DEF TableOK, Linked
<1>2. MovedSlice(nasize) \in Seq(Insertion)
  <2>. DEFINE e(i) == [key |-> IF array[nasize + i] = Nil THEN NoKey ELSE nasize + i,
                       val |-> array[nasize + i]]
              n == IF nasize < Len(array) THEN Len(array) - nasize ELSE 0
  <2>1. n \in Nat /\ (1 .. Len(array) - nasize) = 1 .. n
    <3>1. CASE nasize < Len(array)
      <4>1. n = Len(array) - nasize
        BY <3>1
      <4>. QED  BY <1>1, <3>1, <4>1
    <3>2. CASE ~(nasize < Len(array))
      <4>1. n = 0
        BY <3>2
      <4>2. \A i \in Int : i \notin (1 .. Len(array) - nasize) /\ i \notin 1 .. 0
        BY <1>1, <3>2
      <4>3. (1 .. Len(array) - nasize) \subseteq Int /\ 1 .. 0 \subseteq Int
        BY <1>1
      <4>. QED  BY <4>1, <4>2, <4>3
    <3>. QED  BY <3>1, <3>2
  <2>2. \A i \in 1 .. n : nasize + i \in DOMAIN array
    <3>. HIDE DEF n
    <3>1. \A i \in 1 .. Len(array) - nasize : nasize + i \in 1 .. Len(array)
      BY <1>1
    <3>. QED  BY <1>1, <2>1, <3>1
  <2>3. \A i \in 1 .. n : e(i) \in Insertion
    BY <1>1, <2>2 DEF Insertion
  <2>4. MovedSlice(nasize) = [i \in 1 .. n |-> e(i)]
    BY <2>1 DEF MovedSlice
  <2>. HIDE DEF e, n
  <2>. QED  BY <2>1, <2>3, <2>4
<1>3. MovedNodes \in Seq(Insertion)
  <2>. DEFINE old(i) == node[Len(node) + 1 - i]
              e(i) == [key |-> IF old(i).val = Nil THEN NoKey ELSE old(i).key, val |-> old(i).val]
  <2>1. \A i \in 1 .. Len(node) : old(i) \in Node
    BY <1>1
  <2>. HIDE DEF old
  <2>2. \A i \in 1 .. Len(node) : e(i) \in Insertion
    BY <2>1 DEF Insertion, Node
  <2>3. MovedNodes = [i \in 1 .. Len(node) |-> e(i)]
    BY DEF MovedNodes, old
  <2>. HIDE DEF e
  <2>. QED  BY <1>1, <2>2, <2>3
<1>. QED  BY <1>2, <1>3

LEMMA ResizeType ==
  ASSUME TableOK, NEW nasize \in Nat, NEW nhsize, NEW rest \in Seq(Insertion),
         luaH_resize(nasize, nhsize, rest)
  PROVE  TableOK' /\ todo' \in Seq(Insertion)
<1>1. /\ array \in Seq(ValueSet) /\ DOMAIN array = 1 .. Len(array) /\ Len(array) \in Nat
      /\ \A i \in DOMAIN array : array[i] # Nil => i \in KeySet
  BY DEF TableOK
<1>2. array' = [i \in 1 .. nasize |-> IF i <= Len(array) THEN array[i] ELSE Nil]
  BY DEF luaH_resize
<1>3. array' \in Seq(ValueSet) /\ \A i \in DOMAIN array' : array'[i] # Nil => i \in KeySet
  <2>1. \A i \in 1 .. nasize : array'[i] \in ValueSet /\ (array'[i] # Nil => i \in KeySet)
    BY <1>1, <1>2, ValuesAssumption
  <2>2. array' \in [1 .. nasize -> ValueSet] /\ DOMAIN array' = 1 .. nasize
    BY <1>2, <2>1
  <2>. QED  BY <2>1, <2>2
<1>4. PICK size \in NodeSizes \union {0} :
        node' = [n \in 1 .. size |-> FreeNode] /\ lastfree' = size
  BY DEF luaH_resize, RoundedUp
<1>5. size \in Nat
  BY <1>4, SizesPositive
<1>6. node' \in Seq(Node) /\ Len(node') = size /\ \A n \in DOMAIN node' : node'[n].next = 0
  BY <1>4, <1>5, NodeFields
<1>7. TableOK'
  BY <1>3, <1>4, <1>5, <1>6 DEF TableOK, Linked, Sized
<1>8. todo' = MovedSlice(nasize) \o MovedNodes \o rest
  BY DEF luaH_resize
<1>9. todo' \in Seq(Insertion)
  BY <1>8, MovedType, ConcatProperties
<1>. QED  BY <1>7, <1>9

LEMMA SetType ==
  ASSUME TableOK, NEW k \in KeySet, NEW v \in ValueSet, NEW rest \in Seq(Insertion),
         luaH_set(k, v, rest)
  PROVE  TableOK' /\ todo' \in Seq(Insertion)
<1>1. CASE Store(k, v) /\ todo' = rest
  BY <1>1, StoreType
<1>2. CASE luaH_newkey(k, v) /\ todo' = rest
  BY <1>2, NewKeyType
<1>3. CASE rehash(k, <<[key |-> k, val |-> v]>> \o rest)
  <2>. DEFINE new == <<[key |-> k, val |-> v]>>
  <2>1. [key |-> k, val |-> v] \in Insertion
    BY DEF Insertion
  <2>2. new \in Seq(Insertion)
    BY <2>1
  <2>3. new \o rest \in Seq(Insertion)
    BY <2>2, ConcatProperties
  <2>4. PICK asize \in PowersOf2 \union {0} : \E h : luaH_resize(asize, h, new \o rest)
    BY <1>3 DEF rehash
  <2>5. asize \in Nat
    BY <2>4, SizesAssumption
  <2>. HIDE DEF new
  <2>. QED  BY <2>3, <2>4, <2>5, ResizeType
<1>. QED  BY <1>1, <1>2, <1>3 DEF luaH_set

(* The record of the program's use and the history of its assignments.     *)
LEMMA AssigningType ==
  ASSUME IterOK, NEW k \in KeySet, NEW v \in ValueSet, Assigning(k, v)
  PROVE  IterOK' /\ StoredOK'
<1>1. IterOK'
  <2>1. iter' = iter \/ iter' = [iter EXCEPT !.legal = FALSE, !.seen = {}]
    BY DEF Assigning
  <2>. QED  BY <2>1 DEF IterOK
<1>2. stored' \in [{k} -> ValueSet]
  BY DEF Assigning
<1>3. {k} \in SUBSET KeySet
  OBVIOUS
<1>. QED  BY <1>1, <1>2, <1>3 DEF StoredOK

LEMMA AdvanceType ==
  ASSUME TableOK, IterOK, NEW k, NEW legal \in BOOLEAN,
         NEW seen \in SUBSET (KeySet \union {NoKey}), Advance(k, legal, seen)
  PROVE  IterOK'
<1>1. CASE iter' = NoTraversal
  BY <1>1 DEF NoTraversal, IterOK
<1>2. CASE \E j \in 1 .. LastIndex :
             /\ ValueAt(j) # Nil
             /\ iter' = [phase |-> "on", key |-> KeyAt(j), legal |-> legal,
                         seen |-> IF legal THEN seen \union {KeyAt(j)} ELSE {}]
  <2>1. PICK j \in 1 .. LastIndex :
             /\ ValueAt(j) # Nil
             /\ iter' = [phase |-> "on", key |-> KeyAt(j), legal |-> legal,
                         seen |-> IF legal THEN seen \union {KeyAt(j)} ELSE {}]
    BY <1>2
  <2>2. KeyAt(j) \in KeySet \union {NoKey}
    <3>1. /\ array \in Seq(ValueSet) /\ Len(array) \in Nat /\ DOMAIN array = 1 .. Len(array)
          /\ node \in Seq(Node) /\ Len(node) \in Nat /\ DOMAIN node = 1 .. Len(node)
      BY DEF TableOK, Linked
    <3>2. CASE j <= Len(array)
      BY <2>1, <3>1, <3>2 DEF KeyAt, ValueAt, TableOK
    <3>3. CASE ~(j <= Len(array))
      <4>1. j - Len(array) \in DOMAIN node
        BY <3>1, <3>3 DEF LastIndex
      <4>2. node[j - Len(array)] \in Node
        BY <3>1, <4>1
      <4>. QED  BY <3>3, <4>2 DEF KeyAt, Node
    <3>. QED  BY <3>2, <3>3
  <2>. QED  BY <2>1, <2>2 DEF IterOK
<1>3. \A i \in findindex(k) : NonNil(i) \subseteq {j \in 1 .. LastIndex : ValueAt(j) # Nil}
  <2>1. /\ Len(array) \in Nat /\ Len(node) \in Nat /\ DOMAIN node = 1 .. Len(node)
    BY DEF TableOK, Linked
  <2>2. findindex(k) \subseteq Nat
    <3>1. Matching(k) \subseteq Nat
      BY <2>1 DEF Matching
    <3>2. InArray(k) => k \in Nat
      BY SizesAssumption DEF InArray, Integers_
    <3>. QED  BY <2>1, <3>1, <3>2 DEF findindex
  <2>3. LastIndex \in Nat
    BY <2>1 DEF LastIndex
  <2>. QED  BY <2>2, <2>3 DEF NonNil
<1>. QED  BY <1>1, <1>2, <1>3 DEF Advance

LEMMA NormalIsKey == \A k \in KeySet \union Floats : Normal(k) \in KeySet
  BY KeysAssumption, IntegersAreKeys DEF Normal

LEMMA InitType == Init => TypeOK
<1>. SUFFICES ASSUME Init PROVE TypeOK
  OBVIOUS
<1>1. array \in Seq(ValueSet) /\ \A i \in DOMAIN array : array[i] # Nil => i \in KeySet
  <2>1. PICK n \in ArraySizes : array = [i \in 1 .. n |-> Nil]
    BY DEF Init
  <2>2. n \in Nat
    BY SizesAssumption
  <2>. QED  BY <2>1, <2>2, ValuesAssumption
<1>2. Linked(node) /\ Sized(node) /\ lastfree \in 0 .. Len(node)
  <2>1. PICK size \in NodeSizes \union {0} :
          node = [n \in 1 .. size |-> FreeNode] /\ lastfree = size
    BY DEF Init, RoundedUp
  <2>2. size \in Nat
    BY SizesPositive
  <2>. QED  BY <2>1, <2>2, NodeFields DEF Linked, Sized
<1>3. IterOK
  BY DEF Init, NoTraversal, IterOK
<1>4. StoredOK
  <2>1. stored \in [{} -> ValueSet] /\ {} \in SUBSET KeySet
    BY DEF Init
  <2>. QED  BY <2>1 DEF StoredOK
<1>5. todo \in Seq(Insertion) /\ flags \subseteq Events
  BY DEF Init
<1>. QED  BY <1>1, <1>2, <1>3, <1>4, <1>5, TypeParts DEF TableOK

LEMMA ReinsertType == TypeOK /\ Reinsert => TypeOK'
<1>. SUFFICES ASSUME TypeOK, Reinsert PROVE TypeOK'
  OBVIOUS
<1>1. /\ TableOK /\ todo \in Seq(Insertion) /\ flags \subseteq Events /\ IterOK /\ StoredOK
  BY TypeParts
<1>2. todo # <<>> /\ UNCHANGED <<flags, iter, stored>>
  BY DEF Reinsert
<1>3. Head(todo) \in Insertion /\ Tail(todo) \in Seq(Insertion)
  BY <1>1, <1>2, HeadTailProperties
<1>4. TableOK' /\ todo' \in Seq(Insertion)
  <2>1. CASE todo' = Tail(todo) /\ UNCHANGED <<array, node, lastfree>>
    BY <1>1, <1>3, <2>1 DEF TableOK, Linked, Sized
  <2>2. CASE Head(todo).key # NoKey /\ luaH_set(Head(todo).key, Head(todo).val, Tail(todo))
    <3>1. Head(todo).key \in KeySet /\ Head(todo).val \in ValueSet
      BY <1>3, <2>2 DEF Insertion
    <3>. QED  BY <1>1, <1>3, <2>2, <3>1, SetType
  <2>. QED  BY <2>1, <2>2 DEF Reinsert
<1>. QED  BY <1>1, <1>2, <1>4, TypeParts DEF IterOK, StoredOK

(* The three ways to assign to a field share all but what becomes of the   *)
(* flags.                                                                  *)
LEMMA AssignmentType ==
  ASSUME TypeOK, NEW k \in KeySet, NEW v \in ValueSet,
         luaH_set(k, v, <<>>), Assigning(k, v), flags' \subseteq Events
  PROVE  TypeOK'
<1>1. TableOK /\ IterOK
  BY TypeParts
<1>2. TableOK' /\ todo' \in Seq(Insertion)
  <2>. <<>> \in Seq(Insertion)
    OBVIOUS
  <2>. QED  BY <1>1, SetType
<1>3. IterOK' /\ StoredOK'
  BY <1>1, AssigningType
<1>. QED  BY <1>2, <1>3, TypeParts

LEMMA SetListType ==
  ASSUME TypeOK, NEW f \in Lists, SetList(f)
  PROVE  TypeOK'
<1>1. TableOK /\ IterOK /\ flags \subseteq Events
  BY TypeParts
<1>2. PICK n \in 1 .. MaxList : f \in [1 .. n -> ValueSet]
  BY DEF Lists
<1>3. n \in Nat /\ f \in Seq(ValueSet) /\ Len(f) = n /\ 1 .. n \subseteq KeySet
  BY <1>2, SizesAssumption
<1>. DEFINE list == [i \in 1 .. Len(f) |-> [key |-> Len(f) + 1 - i, val |-> f[Len(f) + 1 - i]]]
<1>4. list \in Seq(Insertion)
  <2>1. \A i \in 1 .. n : n + 1 - i \in 1 .. n
    BY <1>3
  <2>2. \A i \in 1 .. n : [key |-> n + 1 - i, val |-> f[n + 1 - i]] \in Insertion
    BY <1>2, <1>3, <2>1 DEF Insertion
  <2>. QED  BY <1>3, <2>2
<1>5. TableOK' /\ todo' \in Seq(Insertion)
  <2>1. CASE luaH_resize(Len(f), Len(node), list)
    <3>. HIDE DEF list
    <3>. QED  BY <1>1, <1>3, <1>4, <2>1, ResizeType
  <2>2. CASE todo' = list /\ UNCHANGED <<array, node, lastfree>>
    <3>. HIDE DEF list
    <3>. QED  BY <1>1, <1>4, <2>2 DEF TableOK, Linked, Sized
  <2>. QED  BY <2>1, <2>2 DEF SetList
<1>6. IterOK' /\ StoredOK' /\ flags' \subseteq Events
  <2>1. iter' = NoTraversal /\ stored' = f /\ flags' = flags
    BY DEF SetList
  <2>2. stored' \in [1 .. n -> ValueSet] /\ 1 .. n \in SUBSET KeySet
    BY <1>2, <1>3, <2>1
  <2>. QED  BY <1>1, <2>1, <2>2 DEF IterOK, NoTraversal, StoredOK
<1>. QED  BY <1>5, <1>6, TypeParts

LEMMA CollectorType ==
  ASSUME TypeOK, (\E n \in DOMAIN node : removeentry(n)) \/ (\E k \in WeakEntries : ClearEntry(k))
  PROVE  TypeOK'
<1>1. TableOK /\ todo \in Seq(Insertion) /\ flags \subseteq Events /\ IterOK /\ StoredOK
  BY TypeParts
<1>2. Linked(node) /\ Sized(node) /\ node \in Seq(Node)
  BY <1>1 DEF TableOK, Linked
<1>3. CASE \E n \in DOMAIN node : removeentry(n)
  <2>1. PICK n \in DOMAIN node : removeentry(n)
    BY <1>3
  <2>. DEFINE new == [node[n] EXCEPT !.dead = TRUE]
  <2>2. node[n] \in Node
    BY <1>2
  <2>3. new \in Node /\ new.next = node[n].next
    BY <2>2 DEF Node
  <2>4. node' = [m \in DOMAIN node |-> IF m = n THEN new ELSE node[m]]
    BY <1>2, <2>1 DEF removeentry
  <2>. HIDE DEF new
  <2>5. node' \in [DOMAIN node -> Node] /\ \A m \in DOMAIN node : node'[m].next = node[m].next
    BY <1>2, <2>3, <2>4
  <2>6. Linked(node') /\ Sized(node') /\ Len(node') = Len(node)
    BY <1>2, <2>5, Relinked DEF Linked
  <2>7. UNCHANGED <<array, lastfree, todo, flags, iter, stored>>
    BY <2>1 DEF removeentry
  <2>. QED  BY <1>1, <2>6, <2>7, TypeParts DEF TableOK, IterOK, StoredOK
<1>4. CASE \E k \in WeakEntries : ClearEntry(k)
  <2>1. PICK k \in WeakEntries : ClearEntry(k)
    BY <1>4
  <2>2. k \in KeySet /\ Nil \in ValueSet
    BY KeysAssumption, ValuesAssumption
  <2>3. TableOK'
    BY <1>1, <2>1, <2>2, StoreType DEF ClearEntry
  <2>4. stored' \in [{k} -> ValueSet] /\ {k} \in SUBSET KeySet
    BY <2>1, <2>2 DEF ClearEntry
  <2>5. UNCHANGED <<todo, flags, iter>>
    BY <2>1 DEF ClearEntry
  <2>. QED  BY <1>1, <2>3, <2>4, <2>5, TypeParts DEF IterOK, StoredOK
<1>. QED  BY <1>3, <1>4

LEMMA NextType == TypeOK /\ [Next]_vars => TypeOK'
<1>. SUFFICES ASSUME TypeOK, [Next]_vars PROVE TypeOK'
  OBVIOUS
<1>1. TableOK /\ todo \in Seq(Insertion) /\ flags \subseteq Events /\ IterOK /\ StoredOK
  BY TypeParts
<1>2. CASE Reinsert
  BY <1>2, ReinsertType
<1>3. ASSUME NEW key \in KeySet \union Floats, NEW v \in ValueSet,
             SetTable(key, v) \/ lua_rawset(key, v)
      PROVE  TypeOK'
  <2>1. Normal(key) \in KeySet
    BY NormalIsKey
  <2>2. luaH_set(Normal(key), v, <<>>) /\ Assigning(Normal(key), v)
    BY <1>3 DEF SetTable, lua_rawset
  <2>3. flags' \subseteq Events
    BY <1>1, <1>3 DEF SetTable, lua_rawset
  <2>. QED  BY <2>1, <2>2, <2>3, AssignmentType
<1>4. ASSUME NEW i \in Integers_, NEW v \in ValueSet, lua_rawseti(i, v)
      PROVE  TypeOK'
  <2>1. i \in KeySet
    BY IntegersAreKeys
  <2>. QED  BY <1>1, <1>4, <2>1, AssignmentType DEF lua_rawseti
<1>5. ASSUME NEW k \in KeySet, SetFails(k)
      PROVE  TypeOK'
  BY <1>1, <1>5, TypeParts DEF SetFails, TableOK, Linked, Sized, IterOK, StoredOK
<1>6. ASSUME NEW f \in Lists, SetList(f)
      PROVE  TypeOK'
  BY <1>6, SetListType
<1>7. ASSUME NEW e \in Events, luaT_gettm(e)
      PROVE  TypeOK'
  BY <1>1, <1>7, TypeParts DEF luaT_gettm, tvars, TableOK, Linked, Sized, IterOK, StoredOK
<1>8. CASE FirstNext \/ luaH_next \/ InvalidKey
  <2>1. UNCHANGED <<array, node, lastfree, todo, flags, stored>>
    BY <1>8 DEF FirstNext, luaH_next, InvalidKey, tvars
  <2>2. IterOK'
    <3>1. CASE FirstNext
      BY <1>1, <3>1, AdvanceType DEF FirstNext
    <3>2. CASE luaH_next
      <4>1. iter.legal \in BOOLEAN /\ iter.seen \in SUBSET (KeySet \union {NoKey})
        BY <1>1 DEF IterOK
      <4>. QED  BY <1>1, <3>2, <4>1, AdvanceType DEF luaH_next
    <3>3. CASE InvalidKey
      BY <3>3 DEF InvalidKey, NoTraversal, IterOK
    <3>. QED  BY <1>8, <3>1, <3>2, <3>3
  <2>. QED  BY <1>1, <2>1, <2>2, TypeParts DEF TableOK, Linked, Sized, StoredOK
<1>9. CASE (\E n \in DOMAIN node : removeentry(n)) \/ (\E k \in WeakEntries : ClearEntry(k))
  BY <1>9, CollectorType
<1>10. CASE UNCHANGED vars
  BY <1>1, <1>10, TypeParts DEF vars, TableOK, Linked, Sized, IterOK, StoredOK
<1>11. RawKeys \subseteq KeySet \union Floats
  BY KeysAssumption
<1>. QED
  BY <1>2, <1>3, <1>4, <1>5, <1>6, <1>7, <1>8, <1>9, <1>10, <1>11 DEF Next

(* The state of a table keeps its types, whatever the keys, their hash     *)
(* values and the sizes are: links and lastfree stay inside the node part. *)
THEOREM TableTypeCorrect == Spec => []TypeOK
<1>. QED  BY InitType, NextType, PTL DEF Spec

-----------------------------------------------------------------------------
(* The pointer lastfree.  A free node is one without a key; FreePositions  *)
(* is inductive because a node with a value has a key: the node that       *)
(* luaH_newkey moves takes its key along, and the place it is moved to is  *)
(* the last free one.                                                      *)

LEMMA StoreFree ==
  ASSUME TableOK, FreePositions, NEW k \in KeySet, NEW v \in ValueSet, Store(k, v)
  PROVE  FreePositions'
<1>1. node \in Seq(Node) /\ DOMAIN node = 1 .. Len(node) /\ lastfree' = lastfree
  BY DEF TableOK, Linked, Store
<1>2. CASE node' = node
  BY <1>1, <1>2 DEF FreePositions
<1>3. CASE \E n \in Slots(k) : node' = [node EXCEPT ![n].val = v]
  <2>1. PICK n \in Slots(k) : node' = [node EXCEPT ![n].val = v]
    BY <1>3
  <2>2. n \in DOMAIN node /\ node[n].key = k /\ k # NoKey
    BY KeysAssumption DEF Slots
  <2>. DEFINE new == [node[n] EXCEPT !.val = v]
  <2>3. node[n] \in Node
    BY <1>1, <2>2
  <2>4. new.key = k
    BY <2>2, <2>3 DEF Node
  <2>5. node' = [m \in DOMAIN node |-> IF m = n THEN new ELSE node[m]]
    BY <1>1, <2>1, <2>2
  <2>. HIDE DEF new
  <2>. QED  BY <1>1, <2>2, <2>4, <2>5 DEF FreePositions
<1>. QED  BY <1>2, <1>3 DEF Store

LEMMA NewKeyFree ==
  ASSUME TableOK, FreePositions, NEW k \in KeySet, NEW v \in ValueSet, luaH_newkey(k, v)
  PROVE  FreePositions'
<1>. DEFINE mp == mainposition(k)
<1>1. node \in Seq(Node) /\ DOMAIN node = 1 .. Len(node) /\ node # <<>> /\ Len(node) \in Nat
  BY DEF TableOK, Linked, luaH_newkey
<1>2. mp \in DOMAIN node
  BY <1>1, MainInRange
<1>3. k # NoKey
  BY KeysAssumption
<1>4. \A n \in DOMAIN node : node[n] \in Node
  BY <1>1
<1>5. lastfree \in 0 .. Len(node)
  BY DEF TableOK
<1>. HIDE DEF mp
<1>6. CASE TakeMain(k, v)
  <2>1. node' = [node EXCEPT ![mp].key = k, ![mp].dead = FALSE, ![mp].val = v]
        /\ lastfree' = lastfree
    BY <1>6 DEF TakeMain, mp
  <2>. DEFINE new == [node[mp] EXCEPT !.key = k, !.dead = FALSE, !.val = v]
  <2>2. new.key = k
    BY <1>2, <1>4 DEF Node
  <2>3. node' = [n \in DOMAIN node |-> IF n = mp THEN new ELSE node[n]]
    BY <1>1, <1>2, <2>1
  <2>. HIDE DEF new
  <2>. QED  BY <1>2, <1>3, <2>1, <2>2, <2>3 DEF FreePositions
<1>7. ASSUME NEW f \in getfreepos, NEW new, new.key = k,
             NEW p \in DOMAIN node, NEW q, q.key = node[p].key, node[p].key # NoKey,
             lastfree' = f - 1, DOMAIN node' = DOMAIN node, node'[f].key # NoKey,
             \A n \in DOMAIN node \ {f} :
                node'[n] = new \/ node'[n] = node[n] \/ node'[n] = q
      PROVE  FreePositions'
  <2>1. /\ f \in 1 .. lastfree /\ f \in DOMAIN node /\ node[f].key = NoKey
        /\ \A n \in f + 1 .. lastfree : node[n].key # NoKey
    BY <1>1, <1>5 DEF getfreepos
  <2>2. SUFFICES ASSUME NEW n \in DOMAIN node, node'[n].key = NoKey
                 PROVE  n <= f - 1 /\ node'[n].val = Nil /\ node'[n].next = 0
    BY <1>7 DEF FreePositions
  <2>3. n # f /\ node'[n] = node[n]
    BY <1>3, <1>7, <2>2
  <2>4. n <= lastfree /\ node[n].key = NoKey /\ node[n].val = Nil /\ node[n].next = 0
    BY <2>2, <2>3 DEF FreePositions
  <2>5. n <= f - 1
    BY <1>1, <1>5, <2>1, <2>2, <2>3, <2>4
  <2>. QED  BY <2>3, <2>4, <2>5
<1>8. CASE MoveColliding(k, v)
  <2>. DEFINE new == [key |-> k, dead |-> FALSE, val |-> v, next |-> 0]
  <2>1. PICK f \in getfreepos : \E p \in Chain(mainposition(node[mp].key)) :
           /\ node[p].next = mp
           /\ node' = [node EXCEPT ![p].next = f, ![f] = node[mp], ![mp] = new]
           /\ lastfree' = f - 1
    BY <1>8 DEF MoveColliding, mp
  <2>2. PICK p \in DOMAIN node :
           /\ node[p].next = mp
           /\ node' = [node EXCEPT ![p].next = f, ![f] = node[mp], ![mp] = new]
           /\ lastfree' = f - 1
    BY <2>1, ChainInRange
  <2>3. node[mp].val # Nil
    BY <1>1, <1>8 DEF MoveColliding, MainTaken, mp
  <2>4. node[mp].key # NoKey /\ node[p].key # NoKey
    BY <1>1, <1>2, <2>2, <2>3 DEF FreePositions
  <2>. DEFINE q == [node[p] EXCEPT !.next = f]
  <2>5. new.key = k /\ q.key = node[p].key
    BY <1>4 DEF Node
  <2>6. f \in DOMAIN node /\ node[f].key = NoKey
    BY <1>1, <1>5 DEF getfreepos
  <2>. HIDE DEF new
  <2>7. node' = [n \in DOMAIN node |->
                   IF n = mp THEN new ELSE IF n = f THEN node[mp]
                   ELSE IF n = p THEN q ELSE node[n]]
    BY <1>1, <1>2, <2>2, <2>6
  <2>. HIDE DEF q
  <2>. QED  BY <1>2, <1>3, <1>7, <2>2, <2>4, <2>5, <2>6, <2>7
<1>9. CASE LinkNew(k, v)
  <2>. DEFINE new == [key |-> k, dead |-> FALSE, val |-> v, next |-> node[mp].next]
  <2>1. PICK f \in getfreepos :
           /\ node' = [node EXCEPT ![mp].next = f, ![f] = new]
           /\ lastfree' = f - 1
    BY <1>9 DEF LinkNew, mp
  <2>2. node[mp].val # Nil
    BY <1>1, <1>9 DEF LinkNew, MainTaken, mp
  <2>3. node[mp].key # NoKey
    BY <1>2, <2>2 DEF FreePositions
  <2>. DEFINE r == [node[mp] EXCEPT !.next = f]
  <2>4. new.key = k /\ r.key = node[mp].key
    BY <1>2, <1>4 DEF Node
  <2>5. f \in DOMAIN node
    BY <1>1, <1>5 DEF getfreepos
  <2>. HIDE DEF new
  <2>6. node' = [n \in DOMAIN node |->
                   IF n = f THEN new ELSE IF n = mp THEN r ELSE node[n]]
    BY <1>1, <1>2, <2>1, <2>5
  <2>. HIDE DEF r
  <2>. QED  BY <1>2, <1>3, <1>7, <2>1, <2>3, <2>4, <2>5, <2>6
<1>. QED  BY <1>6, <1>8, <1>9 DEF luaH_newkey

(* If getfreepos returns NULL, no node is free: the largest of the free    *)
(* nodes would be found.                                                   *)
LEMMA NoFreeNode ==
  ASSUME TableOK, FreePositions, getfreepos = {}, NEW m \in DOMAIN node, node[m].key = NoKey
  PROVE  FALSE
<1>. DEFINE free == {n \in 1 .. lastfree : node[n].key = NoKey}
<1>1. lastfree \in Nat /\ DOMAIN node = 1 .. Len(node) /\ Len(node) \in Nat
  BY DEF TableOK, Linked
<1>2. m \in free
  BY <1>1 DEF FreePositions
<1>3. free \subseteq 1 .. lastfree
  OBVIOUS
<1>. HIDE DEF free
<1>4. PICK f \in free : \A n \in free : n <= f
  BY <1>1, <1>2, <1>3, LargestMember
<1>5. f \in getfreepos
  BY <1>1, <1>3, <1>4 DEF getfreepos, free
<1>. QED  BY <1>5

LEMMA ResizeFree ==
  ASSUME NEW nasize, NEW nhsize, NEW rest, luaH_resize(nasize, nhsize, rest)
  PROVE  FreePositions'
<1>1. PICK size \in NodeSizes \union {0} :
        node' = [n \in 1 .. size |-> FreeNode] /\ lastfree' = size
  BY DEF luaH_resize, RoundedUp
<1>2. size \in Nat
  BY SizesPositive
<1>. QED  BY <1>1, <1>2, NodeFields DEF FreePositions

LEMMA SetFree ==
  ASSUME TableOK, FreePositions, NEW k \in KeySet, NEW v \in ValueSet, NEW rest,
         luaH_set(k, v, rest)
  PROVE  FreePositions'
<1>1. CASE Store(k, v)
  BY <1>1, StoreFree
<1>2. CASE luaH_newkey(k, v)
  BY <1>2, NewKeyFree
<1>3. CASE rehash(k, <<[key |-> k, val |-> v]>> \o rest)
  <2>1. \E a, h, r : luaH_resize(a, h, r)
    BY <1>3 DEF rehash
  <2>. QED  BY <2>1, ResizeFree
<1>. QED  BY <1>1, <1>2, <1>3 DEF luaH_set

LEMMA NextFree == TypeOK /\ FreePositions /\ [Next]_vars => FreePositions'
<1>. SUFFICES ASSUME TypeOK, FreePositions, [Next]_vars PROVE FreePositions'
  OBVIOUS
<1>1. TableOK /\ todo \in Seq(Insertion)
  BY TypeParts
<1>2. node \in Seq(Node) /\ lastfree \in 0 .. Len(node)
  BY <1>1 DEF TableOK, Linked
<1>3. CASE UNCHANGED <<node, lastfree>>
  BY <1>3 DEF FreePositions
<1>4. CASE Reinsert /\ ~UNCHANGED <<node, lastfree>>
  <2>1. Head(todo) \in Insertion
    BY <1>1, <1>4, HeadTailProperties DEF Reinsert
  <2>2. Head(todo).key # NoKey /\ luaH_set(Head(todo).key, Head(todo).val, Tail(todo))
    BY <1>4 DEF Reinsert
  <2>3. Head(todo).key \in KeySet /\ Head(todo).val \in ValueSet
    BY <2>1, <2>2 DEF Insertion
  <2>. QED  BY <1>1, <2>2, <2>3, SetFree
<1>5. ASSUME NEW key \in KeySet \union Floats, NEW v \in ValueSet,
             SetTable(key, v) \/ lua_rawset(key, v)
      PROVE  FreePositions'
  <2>1. luaH_set(Normal(key), v, <<>>) /\ Normal(key) \in KeySet
    BY <1>5, NormalIsKey DEF SetTable, lua_rawset
  <2>. QED  BY <1>1, <2>1, SetFree
<1>6. ASSUME NEW i \in Integers_, NEW v \in ValueSet, lua_rawseti(i, v)
      PROVE  FreePositions'
  <2>1. i \in KeySet /\ luaH_set(i, v, <<>>)
    BY <1>6, IntegersAreKeys DEF lua_rawseti
  <2>. QED  BY <1>1, <2>1, SetFree
<1>7. ASSUME NEW k \in KeySet, SetFails(k)
      PROVE  FreePositions'
  <2>1. node' = node /\ lastfree' = 0 /\ getfreepos = {}
    BY <1>7 DEF SetFails, NeedsRehash
  <2>2. \A n \in DOMAIN node : node[n].key # NoKey
    <3>1. SUFFICES ASSUME NEW m \in DOMAIN node, node[m].key = NoKey PROVE FALSE
      OBVIOUS
    <3>. QED  BY <1>1, <2>1, <3>1, NoFreeNode
  <2>. QED  BY <2>1, <2>2 DEF FreePositions
<1>8. ASSUME NEW f \in Lists, SetList(f)
      PROVE  FreePositions'
  BY <1>3, <1>8, ResizeFree DEF SetList
<1>9. ASSUME NEW n \in DOMAIN node, removeentry(n)
      PROVE  FreePositions'
  <2>1. node' = [node EXCEPT ![n].dead = TRUE] /\ lastfree' = lastfree /\ node[n].key # NoKey
    BY <1>9, KeysAssumption DEF removeentry
  <2>. DEFINE new == [node[n] EXCEPT !.dead = TRUE]
  <2>2. node[n] \in Node
    BY <1>2
  <2>3. new.key = node[n].key
    BY <2>2 DEF Node
  <2>4. node' = [m \in DOMAIN node |-> IF m = n THEN new ELSE node[m]]
    BY <1>2, <2>1
  <2>. HIDE DEF new
  <2>. QED  BY <2>1, <2>3, <2>4 DEF FreePositions
<1>10. ASSUME NEW k \in WeakEntries, ClearEntry(k)
       PROVE  FreePositions'
  <2>1. k \in KeySet /\ Nil \in ValueSet /\ Store(k, Nil)
    BY <1>10, KeysAssumption, ValuesAssumption DEF ClearEntry
  <2>. QED  BY <1>1, <2>1, StoreFree
<1>11. ASSUME (\E e \in Events : luaT_gettm(e)) \/ FirstNext \/ luaH_next \/ InvalidKey
              \/ UNCHANGED vars
       PROVE  FreePositions'
  <2>1. UNCHANGED <<node, lastfree>>
    BY <1>11 DEF luaT_gettm, FirstNext, luaH_next, InvalidKey, tvars, vars
  <2>. QED  BY <1>3, <2>1
<1>12. RawKeys \subseteq KeySet \union Floats
  BY KeysAssumption
<1>. QED
  BY <1>3, <1>4, <1>5, <1>6, <1>7, <1>8, <1>9, <1>10, <1>11, <1>12 DEF Next

LEMMA InitFree == Init => FreePositions
<1>. SUFFICES ASSUME Init PROVE FreePositions
  OBVIOUS
<1>1. PICK size \in NodeSizes \union {0} :
        node = [n \in 1 .. size |-> FreeNode] /\ lastfree = size
  BY DEF Init, RoundedUp
<1>2. size \in Nat
  BY SizesPositive
<1>. QED  BY <1>1, <1>2, NodeFields DEF FreePositions

(* getfreepos (ltable.c:491-500) never passes a free node over: lastfree   *)
(* only moves down past nodes that have a key, so a table is rehashed only *)
(* when every node has one, for all keys, hash values and sizes.           *)
THEOREM FreePositionsCorrect == Spec => []FreePositions
BY InitType, InitFree, NextType, NextFree, PTL DEF Spec

-----------------------------------------------------------------------------
(* Chains.  'L' holds the links of the nodes and 'K' their keys.           *)

LinkFn(L) == /\ DOMAIN L \subseteq Nat \ {0}
             /\ \A n \in DOMAIN L : L[n] \in DOMAIN L \union {0}

(* There is no cycle: every set of nodes has one that leads out of it.     *)
Ends(L) == \A C \in SUBSET DOMAIN L : C # {} => \E n \in C : L[n] \notin C

(* A chain starts at its start, ...                                        *)
LEMMA FollowStart ==
  ASSUME NEW L, NEW s \in DOMAIN L
  PROVE  s \in Follow(L, s)
  BY DEF Follow

(* ... goes on along the links, ...                                        *)
LEMMA FollowLink ==
  ASSUME NEW L, LinkFn(L), NEW s, NEW n \in Follow(L, s), L[n] # 0
  PROVE  L[n] \in Follow(L, s)
<1>1. n \in DOMAIN L /\ L[n] \in DOMAIN L
  BY DEF Follow, LinkFn
<1>2. SUFFICES ASSUME NEW S \in SUBSET (DOMAIN L \ {L[n]}), s \in S, Closed(S, L)
               PROVE  FALSE
  BY <1>1 DEF Follow
<1>3. n \notin S
  BY <1>2 DEF Closed
<1>4. S \in SUBSET (DOMAIN L \ {n})
  BY <1>2, <1>3
<1>. QED  BY <1>2, <1>4 DEF Follow

(* ... and to nothing else.                                                *)
LEMMA FollowLeast ==
  ASSUME NEW L, NEW S \in SUBSET DOMAIN L, NEW s \in S, Closed(S, L)
  PROVE  Follow(L, s) \subseteq S
<1>1. SUFFICES ASSUME NEW n \in Follow(L, s), n \notin S PROVE FALSE
  OBVIOUS
<1>2. S \in SUBSET (DOMAIN L \ {n})
  BY <1>1
<1>. QED  BY <1>1, <1>2 DEF Follow

LEMMA FollowClosed ==
  ASSUME NEW L, LinkFn(L), NEW s
  PROVE  Follow(L, s) \subseteq DOMAIN L /\ Closed(Follow(L, s), L)
<1>1. Follow(L, s) \subseteq DOMAIN L
  BY DEF Follow
<1>. QED  BY <1>1, FollowLink DEF Closed

(* What follows a node of a chain is in the chain.                         *)
LEMMA FollowTransitive ==
  ASSUME NEW L, LinkFn(L), NEW s, NEW n \in Follow(L, s)
  PROVE  Follow(L, n) \subseteq Follow(L, s)
  BY FollowClosed, FollowLeast

(* A chain is its first node and what follows the next one.                *)
LEMMA FollowNext ==
  ASSUME NEW L, LinkFn(L), NEW s \in DOMAIN L, NEW n \in Follow(L, s), n # s
  PROVE  L[s] # 0 /\ n \in Follow(L, L[s])
<1>1. CASE L[s] = 0
  <2>1. Closed({s}, L)
    BY <1>1 DEF Closed
  <2>2. Follow(L, s) \subseteq {s}
    BY <2>1, FollowLeast
  <2>. QED  BY <2>2
<1>2. CASE L[s] # 0
  <2>. DEFINE S == {s} \union Follow(L, L[s])
  <2>1. L[s] \in DOMAIN L
    BY <1>2 DEF LinkFn
  <2>2. L[s] \in Follow(L, L[s])
    BY <2>1, FollowStart
  <2>3. S \subseteq DOMAIN L /\ Closed(S, L)
    BY <2>2, FollowClosed DEF Closed
  <2>. HIDE DEF S
  <2>4. s \in S
    BY DEF S
  <2>5. n \in S
    BY <2>3, <2>4, FollowLeast
  <2>. QED  BY <1>2, <2>5 DEF S
<1>. QED  BY <1>1, <1>2

(* Two nodes do not follow each other.                                     *)
LEMMA FollowOrder ==
  ASSUME NEW L, LinkFn(L), Ends(L), NEW m \in DOMAIN L, NEW n \in DOMAIN L,
         m \in Follow(L, n), n \in Follow(L, m)
  PROVE  m = n
<1>. SUFFICES ASSUME m # n PROVE FALSE
  OBVIOUS
<1>. DEFINE C == {y \in DOMAIN L : n \in Follow(L, y) /\ y \in Follow(L, n)}
<1>1. n \in C /\ C \in SUBSET DOMAIN L
  BY FollowStart
<1>2. PICK y \in C : L[y] \notin C
  BY <1>1 DEF Ends
<1>3. y \in DOMAIN L /\ n \in Follow(L, y) /\ y \in Follow(L, n)
  BY <1>2
<1>4. L[y] # 0 => ~(n \in Follow(L, L[y]))
  <2>1. ASSUME L[y] # 0 PROVE L[y] \in DOMAIN L /\ L[y] \in Follow(L, n)
    BY <1>3, <2>1, FollowLink DEF LinkFn
  <2>. QED  BY <1>2, <2>1
<1>5. y = n
  BY <1>3, <1>4, FollowNext
<1>6. L[n] # 0 /\ m \in Follow(L, L[n])
  BY FollowNext
<1>7. n \in Follow(L, L[n])
  BY <1>6, FollowTransitive
<1>. QED  BY <1>4, <1>5, <1>6, <1>7

(* Every chain has a last node.                                            *)
LEMMA FollowEnds ==
  ASSUME NEW L, LinkFn(L), Ends(L), NEW s \in DOMAIN L
  PROVE  \E n \in Follow(L, s) : L[n] = 0
<1>1. Follow(L, s) \in SUBSET DOMAIN L /\ s \in Follow(L, s)
  BY FollowClosed, FollowStart
<1>2. PICK n \in Follow(L, s) : L[n] \notin Follow(L, s)
  BY <1>1 DEF Ends
<1>. QED  BY <1>2, FollowLink

(* Of some nodes of a chain one is the first.                              *)
LEMMA FollowFirst ==
  ASSUME NEW L, LinkFn(L), Ends(L), NEW s \in DOMAIN L,
         NEW T \in SUBSET Follow(L, s), T # {}
  PROVE  \E n \in T : T \subseteq Follow(L, n)
<1>. DEFINE C == {n \in DOMAIN L : T \subseteq Follow(L, n)}
<1>1. s \in C /\ C \in SUBSET DOMAIN L
  OBVIOUS
<1>2. PICK n \in C : L[n] \notin C
  BY <1>1 DEF Ends
<1>3. n \in DOMAIN L /\ T \subseteq Follow(L, n)
  BY <1>2
<1>4. CASE n \in T
  BY <1>3, <1>4
<1>5. CASE n \notin T
  <2>1. PICK t \in T : TRUE
    OBVIOUS
  <2>2. L[n] # 0
    BY <1>3, <1>5, <2>1, FollowNext
  <2>3. T \subseteq Follow(L, L[n])
    BY <1>3, <1>5, FollowNext
  <2>4. L[n] \in DOMAIN L
    BY <1>3, <2>2 DEF LinkFn
  <2>. QED  BY <1>2, <2>3, <2>4
<1>. QED  BY <1>4, <1>5

(* What insertions keep, of the keys 'K', the links 'L' and the main       *)
(* positions 'M': a node with a key is in the chain of its main position,  *)
(* which holds a key that is there by right.  This is why a key that is    *)
(* moved away, because another has a better claim to its place, cannot     *)
(* leave a third one behind whose chain began there.                       *)
InChain(K, L, M) ==
  \A n \in DOMAIN L : K[n] # NoKey =>
    /\ n \in Follow(L, M[K[n]])
    /\ K[M[K[n]]] # NoKey /\ M[K[M[K[n]]]] = M[K[n]]

(* No node follows two others, or is followed or pointed to without a key. *)
LinksOK(K, L) ==
  /\ Ends(L)
  /\ \A m, n \in DOMAIN L : m # n /\ L[m] = L[n] => L[m] = 0
  /\ \A n \in DOMAIN L : K[n] = NoKey => L[n] = 0 /\ \A m \in DOMAIN L : L[m] # n

(* A key has one live node, and its dead ones come later in the chain: a   *)
(* new object may have the address of one that is gone.                    *)
OneLive(K, X, L) ==
  \A m, n \in DOMAIN L : m # n /\ K[m] = K[n] /\ K[m] # NoKey =>
    (m \in X \/ n \in X) /\ (m \in X /\ n \notin X => m \in Follow(L, n))

(* 'X' are the dead nodes.                                                 *)
ChainsOK(K, X, L, M) ==
  /\ LinkFn(L) /\ K \in [DOMAIN L -> KeySet \union {NoKey}] /\ M \in [KeySet -> DOMAIN L]
  /\ InChain(K, L, M) /\ LinksOK(K, L) /\ OneLive(K, X, L)

(* A key takes its main position, whose key has no value.                  *)
LEMMA TakeChains ==
  ASSUME NEW K, NEW X, NEW L, NEW M, ChainsOK(K, X, L, M), NEW k \in KeySet,
         \A n \in DOMAIN L : K[n] = k => n \in X
  PROVE  ChainsOK([K EXCEPT ![M[k]] = k], X \ {M[k]}, L, M)
<1>. DEFINE mp == M[k]
            K2 == [K EXCEPT ![mp] = k]
            X2 == X \ {mp}
<1>1. /\ LinkFn(L) /\ K \in [DOMAIN L -> KeySet \union {NoKey}] /\ M \in [KeySet -> DOMAIN L]
      /\ InChain(K, L, M) /\ LinksOK(K, L) /\ OneLive(K, X, L) /\ mp \in DOMAIN L
      /\ k # NoKey
  BY KeysAssumption DEF ChainsOK
<1>2. K2 \in [DOMAIN L -> KeySet \union {NoKey}] /\ K2[mp] = k
      /\ \A n \in DOMAIN L : n # mp => K2[n] = K[n]
  BY <1>1
<1>3. M[k] = mp /\ mp \in Follow(L, mp)
  BY <1>1, FollowStart
<1>. HIDE DEF mp, K2
<1>4. InChain(K2, L, M)
  BY <1>1, <1>2, <1>3 DEF InChain
<1>5. LinksOK(K2, L)
  BY <1>1, <1>2 DEF LinksOK
<1>6. OneLive(K2, X2, L)
  <2>. SUFFICES ASSUME NEW m \in DOMAIN L, NEW n \in DOMAIN L, m # n, K2[m] = K2[n], K2[m] # NoKey
                PROVE  (m \in X2 \/ n \in X2) /\ (m \in X2 /\ n \notin X2 => m \in Follow(L, n))
    BY DEF OneLive
  <2>1. CASE m # mp /\ n # mp
    BY <1>1, <1>2, <2>1 DEF OneLive
  <2>2. CASE n = mp
    BY <1>1, <1>2, <1>3, <2>2 DEF InChain
  <2>3. CASE m = mp
    BY <1>1, <1>2, <1>3, <2>3
  <2>. QED  BY <2>1, <2>2, <2>3
<1>. QED  BY <1>1, <1>2, <1>4, <1>5, <1>6 DEF ChainsOK, K2, mp

(* A free node is put behind the main position.                            *)
LEMMA LinkChains ==
  ASSUME NEW K, NEW X, NEW L, NEW M, ChainsOK(K, X, L, M), NEW k \in KeySet,
         \A n \in DOMAIN L : K[n] = k => n \in X,
         K[M[k]] # NoKey, M[K[M[k]]] = M[k], M[k] \notin X,
         NEW f \in DOMAIN L, K[f] = NoKey
  PROVE  ChainsOK([K EXCEPT ![f] = k], X \ {f}, [L EXCEPT ![M[k]] = f, ![f] = L[M[k]]], M)
<1>. DEFINE mp == M[k]
            K2 == [K EXCEPT ![f] = k]
            X2 == X \ {f}
            L2 == [L EXCEPT ![mp] = f, ![f] = L[mp]]
            D == DOMAIN L
<1>1. /\ LinkFn(L) /\ K \in [D -> KeySet \union {NoKey}] /\ M \in [KeySet -> D]
      /\ InChain(K, L, M) /\ LinksOK(K, L) /\ OneLive(K, X, L) /\ mp \in D
      /\ k # NoKey /\ f # 0
  BY KeysAssumption DEF ChainsOK, LinkFn
<1>2. /\ K2 \in [D -> KeySet \union {NoKey}] /\ K2[f] = k
      /\ \A n \in D : n # f => K2[n] = K[n]
  BY <1>1
<1>3. f # mp /\ L[f] = 0 /\ \A m \in D : L[m] # f
  BY <1>1 DEF LinksOK
<1>4. /\ DOMAIN L2 = D /\ L2[mp] = f /\ L2[f] = L[mp]
      /\ \A n \in D : n # mp /\ n # f => L2[n] = L[n]
  BY <1>1, <1>3 DEF LinkFn
<1>5. LinkFn(L2)
  BY <1>1, <1>4 DEF LinkFn
<1>. HIDE DEF mp, K2, L2, D
<1>6. ASSUME NEW x \in D, x # f, NEW y \in Follow(L, x)
      PROVE  y # f /\ y \in Follow(L2, x)
  <2>. DEFINE S == Follow(L2, x) \ {f}
  <2>1. x \in S /\ S \subseteq D
    BY <1>4, <1>5, <1>6, FollowStart, FollowClosed
  <2>2. ASSUME NEW z \in S, L[z] # 0 PROVE L[z] \in S
    <3>1. L[z] # f
      BY <1>3, <2>1
    <3>2. CASE z = mp
      <4>1. f \in Follow(L2, x)
        BY <1>1, <1>4, <1>5, <2>2, <3>2, FollowLink
      <4>2. L2[f] = L[z]
        BY <1>4, <3>2
      <4>. QED  BY <1>5, <2>2, <3>1, <4>1, <4>2, FollowLink
    <3>3. CASE z # mp
      <4>1. L2[z] = L[z]
        BY <1>4, <2>1, <3>3
      <4>. QED  BY <1>5, <2>2, <3>1, <4>1, FollowLink
    <3>. QED  BY <3>2, <3>3
  <2>3. Closed(S, L)
    BY <2>2 DEF Closed
  <2>4. Follow(L, x) \subseteq S
    BY <2>1, <2>3, FollowLeast DEF D
  <2>. QED  BY <1>6, <2>4
<1>7. f \in Follow(L2, mp)
  BY <1>1, <1>4, <1>5, FollowStart, FollowLink
<1>8. InChain(K2, L2, M)
  <2>. SUFFICES ASSUME NEW n \in D, K2[n] # NoKey
                PROVE  /\ n \in Follow(L2, M[K2[n]])
                       /\ K2[M[K2[n]]] # NoKey /\ M[K2[M[K2[n]]]] = M[K2[n]]
    BY <1>4 DEF InChain
  <2>1. M[k] = mp
    BY DEF mp
  <2>2. CASE n = f
    BY <1>1, <1>2, <1>3, <1>7, <2>1, <2>2 DEF mp
  <2>3. CASE n # f
    <3>1. /\ K2[n] = K[n] /\ n \in Follow(L, M[K[n]])
          /\ K[M[K[n]]] # NoKey /\ M[K[M[K[n]]]] = M[K[n]]
      BY <1>1, <1>2, <2>3 DEF InChain, D
    <3>2. M[K[n]] \in D /\ M[K[n]] # f
      BY <1>1, <1>2, <3>1
    <3>. QED  BY <1>2, <1>6, <3>1, <3>2
  <2>. QED  BY <2>2, <2>3
<1>9. Ends(L2)
  <2>. SUFFICES ASSUME NEW C \in SUBSET D, C # {}, \A n \in C : L2[n] \in C
                PROVE  FALSE
    BY <1>4 DEF Ends
  <2>. DEFINE B == C \ {f}
  <2>1. B # {}
    <3>. SUFFICES ASSUME C = {f} PROVE FALSE
      OBVIOUS
    <3>1. L[mp] = f
      BY <1>4
    <3>. QED  BY <1>1, <1>3, <3>1
  <2>2. ASSUME NEW z \in B PROVE L[z] \in B
    <3>1. L[z] # f
      BY <1>3
    <3>2. L[z] \in C
      BY <1>4
    <3>. QED  BY <3>1, <3>2
  <2>3. \E n \in B : L[n] \notin B
    BY <1>1, <2>1 DEF LinksOK, Ends, D
  <2>. QED  BY <2>2, <2>3
<1>10. LinksOK(K2, L2)
  <2>1. \A m, n \in D : m # n /\ L[m] = L[n] => L[m] = 0
    BY <1>1 DEF LinksOK, D
  <2>2. \A n \in D : K[n] = NoKey => L[n] = 0 /\ \A m \in D : L[m] # n
    BY <1>1 DEF LinksOK, D
  <2>3. ASSUME NEW m \in D, NEW n \in D, m # n, L2[m] = L2[n] PROVE L2[m] = 0
    BY <1>1, <1>3, <1>4, <2>1, <2>3
  <2>4. ASSUME NEW n \in D, K2[n] = NoKey PROVE L2[n] = 0 /\ \A m \in D : L2[m] # n
    <3>1. n # f /\ K[n] = NoKey /\ n # mp
      BY <1>1, <1>2, <2>4 DEF mp
    <3>. QED  BY <1>1, <1>4, <2>2, <3>1
  <2>. QED  BY <1>4, <1>9, <2>3, <2>4 DEF LinksOK
<1>11. OneLive(K2, X2, L2)
  <2>. SUFFICES ASSUME NEW m \in D, NEW n \in D, m # n, K2[m] = K2[n], K2[m] # NoKey
                PROVE  (m \in X2 \/ n \in X2) /\ (m \in X2 /\ n \notin X2 => m \in Follow(L2, n))
    BY <1>4 DEF OneLive
  <2>1. CASE m # f /\ n # f
    <3>1. K[m] = K[n] /\ K[m] # NoKey
      BY <1>2, <2>1
    <3>2. (m \in X \/ n \in X) /\ (m \in X /\ n \notin X => m \in Follow(L, n))
      BY <1>1, <3>1 DEF OneLive, D
    <3>. QED  BY <1>6, <2>1, <3>2
  <2>2. CASE n = f
    <3>1. K[m] = k /\ m \in X
      BY <1>2, <2>2 DEF D
    <3>2. m \in Follow(L, mp) /\ m # mp
      BY <1>1, <3>1 DEF InChain, mp, D
    <3>3. m \in Follow(L2, mp)
      BY <1>1, <1>3, <1>6, <3>2
    <3>4. m \in Follow(L2, f)
      BY <1>1, <1>4, <1>5, <3>2, <3>3, FollowNext
    <3>. QED  BY <2>2, <3>1, <3>4
  <2>3. CASE m = f
    BY <1>2, <2>3 DEF D
  <2>. QED  BY <2>1, <2>2, <2>3
<1>. QED  BY <1>1, <1>2, <1>4, <1>5, <1>8, <1>10, <1>11 DEF ChainsOK, K2, L2, X2, mp

(* The colliding key moves to a free node, which takes the place of its    *)
(* node in the chain.                                                      *)
LEMMA MoveChains ==
  ASSUME NEW K, NEW X, NEW L, NEW M, ChainsOK(K, X, L, M), NEW k \in KeySet,
         \A n \in DOMAIN L : K[n] = k => n \in X,
         K[M[k]] # NoKey, M[K[M[k]]] # M[k], M[k] \notin X,
         NEW f \in DOMAIN L, K[f] = NoKey,
         NEW p \in DOMAIN L, L[p] = M[k]
  PROVE  ChainsOK([K EXCEPT ![f] = K[M[k]], ![M[k]] = k], X \ {f},
                  [L EXCEPT ![p] = f, ![f] = L[M[k]], ![M[k]] = 0], M)
<1>. DEFINE mp == M[k]
            K2 == [K EXCEPT ![f] = K[mp], ![mp] = k]
            X2 == X \ {f}
            L2 == [L EXCEPT ![p] = f, ![f] = L[mp], ![mp] = 0]
            D == DOMAIN L
            r(z) == IF z = mp THEN f ELSE z
<1>1. /\ LinkFn(L) /\ K \in [D -> KeySet \union {NoKey}] /\ M \in [KeySet -> D]
      /\ InChain(K, L, M) /\ LinksOK(K, L) /\ OneLive(K, X, L) /\ mp \in D
      /\ k # NoKey /\ f # 0 /\ p # 0 /\ mp # 0
  BY KeysAssumption DEF ChainsOK, LinkFn
<1>2. /\ \A m, n \in D : m # n /\ L[m] = L[n] => L[m] = 0
      /\ \A n \in D : K[n] = NoKey => L[n] = 0 /\ \A m \in D : L[m] # n
      /\ \A n \in D : L[n] \in D \union {0}
  BY <1>1 DEF LinksOK, LinkFn
<1>3. f # mp /\ f # p /\ L[f] = 0 /\ \A m \in D : L[m] # f
  BY <1>1, <1>2
<1>4. p # mp
  <2>1. SUFFICES ASSUME L[mp] = mp PROVE FALSE
    OBVIOUS
  <2>2. {mp} \in SUBSET DOMAIN L
    BY <1>1
  <2>3. Ends(L)
    BY <1>1 DEF LinksOK
  <2>. QED  BY <2>1, <2>2, <2>3 DEF Ends
<1>5. /\ K2 \in [D -> KeySet \union {NoKey}] /\ K2[f] = K[mp] /\ K2[mp] = k
      /\ \A n \in D : n # f /\ n # mp => K2[n] = K[n]
  BY <1>1, <1>3
<1>6. /\ DOMAIN L2 = D /\ L2[mp] = 0 /\ L2[f] = L[mp] /\ L2[p] = f
      /\ \A n \in D : n # mp /\ n # f /\ n # p => L2[n] = L[n]
  BY <1>1, <1>3, <1>4
<1>7. LinkFn(L2)
  <2>1. D \subseteq Nat \ {0}
    BY <1>1 DEF LinkFn
  <2>2. \A n \in D : L2[n] \in D \union {0}
    BY <1>1, <1>2, <1>6
  <2>. QED  BY <1>6, <2>1, <2>2 DEF LinkFn
<1>8. M[k] = mp /\ L[p] = mp /\ M[K[mp]] # mp /\ K[mp] # NoKey /\ mp \notin X
      /\ (\A n \in D : K[n] = k => n \in X) /\ p \in D /\ f \in D
  OBVIOUS
<1>. HIDE DEF mp, K2, L2, D
<1>9. ASSUME NEW x \in D, x # f, NEW y \in Follow(L, x)
      PROVE  y # f /\ r(y) \in Follow(L2, r(x))
  <2>. DEFINE S == {z \in D \ {f} : r(z) \in Follow(L2, r(x))}
  <2>1. x \in S /\ S \subseteq D
    <3>1. r(x) \in DOMAIN L2
      BY <1>6, <1>8, <1>9
    <3>. QED  BY <1>9, <3>1, FollowStart
  <2>2. ASSUME NEW z \in S, L[z] # 0 PROVE L[z] \in S
    <3>1. L[z] # f /\ L[z] \in D
      BY <1>2, <1>3, <2>2
    <3>2. L2[r(z)] = r(L[z])
      <4>1. CASE z = mp
        BY <1>1, <1>4, <1>6, <1>8, <4>1, <1>2
      <4>2. CASE z = p
        BY <1>6, <1>8, <4>2, <1>4
      <4>3. CASE z # mp /\ z # p
        <5>1. L[z] # mp
          BY <1>1, <1>2, <1>8, <4>3
        <5>. QED  BY <1>6, <4>3, <5>1
      <4>. QED  BY <4>1, <4>2, <4>3
    <3>3. r(L[z]) # 0
      BY <1>1, <2>2
    <3>. QED  BY <1>7, <2>2, <3>1, <3>2, <3>3, FollowLink
  <2>3. Closed(S, L)
    BY <2>2 DEF Closed
  <2>4. Follow(L, x) \subseteq S
    BY <2>1, <2>3, FollowLeast DEF D
  <2>. QED  BY <1>9, <2>4
<1>10. \A n \in D : K[n] # NoKey =>
          /\ n \in Follow(L, M[K[n]]) /\ n # f
          /\ M[K[n]] \in D /\ M[K[n]] # f /\ M[K[n]] # mp
          /\ K[M[K[n]]] # NoKey /\ M[K[M[K[n]]]] = M[K[n]]
  BY <1>1, <1>8 DEF InChain, D
<1>11. InChain(K2, L2, M)
  <2>. SUFFICES ASSUME NEW n \in D, K2[n] # NoKey
                PROVE  /\ n \in Follow(L2, M[K2[n]])
                       /\ K2[M[K2[n]]] # NoKey /\ M[K2[M[K2[n]]]] = M[K2[n]]
    BY <1>6 DEF InChain
  <2>1. CASE n = mp
    BY <1>1, <1>5, <1>6, <1>8, <2>1, FollowStart
  <2>2. CASE n = f
    <3>1. mp \in Follow(L, M[K[mp]])
      BY <1>1, <1>8, <1>10
    <3>2. f \in Follow(L2, M[K[mp]])
      BY <1>1, <1>8, <1>9, <1>10, <3>1
    <3>. QED  BY <1>1, <1>5, <1>8, <1>10, <2>2, <3>2
  <2>3. CASE n # f /\ n # mp
    <3>1. K2[n] = K[n]
      BY <1>5, <2>3
    <3>2. n \in Follow(L2, M[K[n]])
      BY <1>9, <1>10, <2>3, <3>1
    <3>. QED  BY <1>5, <1>10, <2>3, <3>1, <3>2
  <2>. QED  BY <2>1, <2>2, <2>3
<1>12. Ends(L2)
  <2>. SUFFICES ASSUME NEW C \in SUBSET D, C # {}, \A n \in C : L2[n] \in C
                PROVE  FALSE
    BY <1>6 DEF Ends
  <2>0. mp \notin C
    BY <1>1, <1>6, <1>7 DEF LinkFn
  <2>. DEFINE B == {z \in D \ {f} : r(z) \in C}
  <2>1. B # {}
    <3>1. PICK c \in C : TRUE
      OBVIOUS
    <3>2. CASE c = f
      BY <1>1, <1>3, <3>2
    <3>3. CASE c # f
      BY <2>0, <3>3
    <3>. QED  BY <3>2, <3>3
  <2>2. ASSUME NEW z \in B PROVE L[z] \in B
    <3>1. L[z] # f
      BY <1>3
    <3>2. CASE z = mp
      <4>1. L[mp] \in C /\ L[mp] # mp
        BY <1>6, <2>0, <3>2
      <4>. QED  BY <3>1, <3>2, <4>1
    <3>3. CASE z = p
      <4>1. f \in C
        BY <1>4, <1>6, <3>3
      <4>. QED  BY <1>1, <1>3, <1>8, <3>3, <4>1
    <3>4. CASE z # mp /\ z # p
      <4>1. L[z] \in C
        BY <1>6, <3>4
      <4>. QED  BY <2>0, <3>1, <4>1
    <3>. QED  BY <3>2, <3>3, <3>4
  <2>3. \E n \in B : L[n] \notin B
    BY <1>1, <2>1 DEF LinksOK, Ends, D
  <2>. QED  BY <2>2, <2>3
<1>13. LinksOK(K2, L2)
  <2>3. ASSUME NEW m \in D, NEW n \in D, m # n, L2[m] = L2[n] PROVE L2[m] = 0
    BY <1>1, <1>2, <1>3, <1>4, <1>6, <1>8, <2>3
  <2>4. ASSUME NEW n \in D, K2[n] = NoKey PROVE L2[n] = 0 /\ \A m \in D : L2[m] # n
    <3>1. n # f /\ n # mp /\ K[n] = NoKey
      BY <1>1, <1>5, <1>8, <2>4
    <3>2. n # 0
      BY <1>1 DEF LinkFn, D
    <3>3. L[n] = 0 /\ \A m \in D : L[m] # n
      BY <1>2, <3>1
    <3>. QED  BY <1>1, <1>6, <1>8, <3>1, <3>2, <3>3
  <2>. QED  BY <1>6, <1>12, <2>3, <2>4 DEF LinksOK
<1>14. OneLive(K2, X2, L2)
  <2>. SUFFICES ASSUME NEW m \in D, NEW n \in D, m # n, K2[m] = K2[n], K2[m] # NoKey
                PROVE  (m \in X2 \/ n \in X2) /\ (m \in X2 /\ n \notin X2 => m \in Follow(L2, n))
    BY <1>6 DEF OneLive
  <2>1. \A z \in D : K[z] # k
    BY <1>1, <1>8, <1>10
  <2>2. m # mp /\ n # mp
    BY <1>1, <1>5, <1>8, <2>1
  <2>3. \A z \in D : z # mp => \E y \in D \ {f} : r(y) = z /\ K[y] = K2[z] /\ (y \in X <=> z \in X2)
    BY <1>1, <1>5, <1>3, <1>8
  <2>4. PICK a \in D \ {f} : r(a) = m /\ K[a] = K2[m] /\ (a \in X <=> m \in X2)
    BY <2>2, <2>3
  <2>5. PICK b \in D \ {f} : r(b) = n /\ K[b] = K2[n] /\ (b \in X <=> n \in X2)
    BY <2>2, <2>3
  <2>6. a # b /\ (a \in X \/ b \in X) /\ (a \in X /\ b \notin X => a \in Follow(L, b))
    BY <1>1, <2>4, <2>5 DEF OneLive, D
  <2>. HIDE DEF r
  <2>. QED  BY <1>9, <2>4, <2>5, <2>6
<1>. QED  BY <1>1, <1>5, <1>6, <1>7, <1>11, <1>13, <1>14 DEF ChainsOK, K2, L2, X2, mp

-----------------------------------------------------------------------------
(* The node part.                                                          *)

KeyOf  == [n \in DOMAIN node |-> node[n].key]
Dead   == {n \in DOMAIN node : node[n].dead}
MainOf == [k \in KeySet |-> mainposition(k)]

NodesOK ==
  /\ node # <<>> => ChainsOK(KeyOf, Dead, Links, MainOf)
  /\ \A n \in DOMAIN node : node[n].dead => node[n].val = Nil

LEMMA Remainder ==
  ASSUME NEW N \in Nat \ {0}, NEW h \in Nat, NEW c
  PROVE  1 + (h % (IF c \/ N = 1 THEN N ELSE N - 1)) \in 1 .. N
<1>. DEFINE d == IF c \/ N = 1 THEN N ELSE N - 1
<1>1. d \in Nat \ {0} /\ d <= N
  OBVIOUS
<1>2. \A e \in Nat \ {0} : e <= N => 1 + (h % e) \in 1 .. N
  OBVIOUS
<1>. HIDE DEF d
<1>3. 1 + (h % d) \in 1 .. N
  BY <1>1, <1>2
<1>. QED  BY <1>3 DEF d

(* Main positions are nodes, and depend on the number of nodes only.       *)
LEMMA MainRange ==
  /\ node \in Seq(Node) /\ node # <<>> => MainOf \in [KeySet -> DOMAIN node]
  /\ node' \in Seq(Node) /\ node' # <<>> => MainOf' \in [KeySet -> DOMAIN node']
  /\ Len(node') = Len(node) => MainOf' = MainOf
  /\ \A k \in KeySet : MainOf[k] = mainposition(k)
<1>1. ASSUME node' \in Seq(Node), node' # <<>> PROVE MainOf' \in [KeySet -> DOMAIN node']
  <2>1. Len(node') \in Nat \ {0} /\ DOMAIN node' = 1 .. Len(node')
    BY <1>1
  <2>2. ASSUME NEW k \in KeySet PROVE mainposition(k)' \in DOMAIN node'
    <3>1. Hash[k] \in Nat
      BY KeysAssumption
    <3>2. 1 + (Hash[k] % (IF k \in Pow2Hashed \/ Len(node') = 1 THEN Len(node') ELSE Len(node') - 1))
            \in 1 .. Len(node')
      BY <2>1, <3>1, Remainder
    <3>. QED  BY <2>1, <3>2 DEF mainposition
  <2>. QED  BY <2>2 DEF MainOf
<1>2. Len(node') = Len(node) => MainOf' = MainOf
  BY DEF MainOf, mainposition
<1>3. node \in Seq(Node) /\ node # <<>> => MainOf \in [KeySet -> DOMAIN node]
  BY MainInRange DEF MainOf
<1>. QED  BY <1>1, <1>2, <1>3 DEF MainOf

(* A key is in its chain.                                                  *)
LEMMA KeyInChain ==
  ASSUME node \in Seq(Node), NodesOK, NEW n \in DOMAIN node, node[n].key \in KeySet
  PROVE  n \in Chain(mainposition(node[n].key))
<1>1. node # <<>> /\ node[n].key # NoKey
  BY KeysAssumption
<1>2. InChain(KeyOf, Links, MainOf)
  BY <1>1 DEF NodesOK, ChainsOK
<1>. QED  BY <1>1, <1>2, MainRange DEF InChain, KeyOf, Links, Chain

(* The slot of a key is its live node, and there is one at most.           *)
LEMMA OneSlot ==
  ASSUME node \in Seq(Node), NodesOK, NEW k \in KeySet
  PROVE  /\ Slots(k) = {n \in DOMAIN node : node[n].key = k /\ ~node[n].dead}
         /\ \A m, n \in Slots(k) : m = n
<1>1. \A n \in DOMAIN node : node[n].key = k => n \in Chain(mainposition(k))
  BY KeyInChain
<1>2. Slots(k) = {n \in DOMAIN node : node[n].key = k /\ ~node[n].dead}
  BY <1>1 DEF Slots
<1>3. ASSUME NEW m \in Slots(k), NEW n \in Slots(k) PROVE m = n
  <2>1. k # NoKey /\ node # <<>>
    BY <1>2, KeysAssumption
  <2>2. OneLive(KeyOf, Dead, Links)
    BY <2>1 DEF NodesOK, ChainsOK
  <2>. QED  BY <1>2, <2>1, <2>2 DEF OneLive, KeyOf, Dead, Links
<1>. QED  BY <1>2, <1>3

(* Steps that change values only, or kill keys without a value.            *)
LEMMA SameChains ==
  ASSUME TableOK, NodesOK, DOMAIN node' = DOMAIN node, Len(node') = Len(node),
         \A n \in DOMAIN node : /\ node'[n].key = node[n].key /\ node'[n].dead = node[n].dead
                                /\ node'[n].next = node[n].next
                                /\ node'[n].dead => node'[n].val = Nil
  PROVE  NodesOK'
<1>1. KeyOf' = KeyOf /\ Links' = Links /\ Dead' = Dead
  BY DEF KeyOf, Links, Dead
<1>2. MainOf' = MainOf
  BY MainRange
<1>3. node' # <<>> => node # <<>>
  BY DEF TableOK, Linked
<1>. QED  BY <1>1, <1>2, <1>3 DEF NodesOK

LEMMA StoreNodes ==
  ASSUME TableOK, NodesOK, NEW k \in KeySet, NEW v \in ValueSet, Store(k, v)
  PROVE  NodesOK'
<1>1. node \in Seq(Node) /\ DOMAIN node = 1 .. Len(node) /\ Len(node) \in Nat
  BY DEF TableOK, Linked
<1>2. CASE node' = node
  BY <1>2 DEF NodesOK, KeyOf, Dead, Links, MainOf, mainposition
<1>3. CASE \E n \in Slots(k) : node' = [node EXCEPT ![n].val = v]
  <2>1. PICK n \in Slots(k) : node' = [node EXCEPT ![n].val = v]
    BY <1>3
  <2>2. n \in DOMAIN node /\ ~node[n].dead
    BY <2>1 DEF Slots
  <2>. DEFINE new == [node[n] EXCEPT !.val = v]
  <2>3. node[n] \in Node
    BY <1>1, <2>2
  <2>4. new.key = node[n].key /\ new.dead = node[n].dead /\ new.next = node[n].next
    BY <2>3 DEF Node
  <2>5. node' = [m \in DOMAIN node |-> IF m = n THEN new ELSE node[m]]
    BY <1>1, <2>1, <2>2
  <2>6. Len(node') = Len(node)
    BY <1>1, <2>1
  <2>. HIDE DEF new
  <2>7. \A m \in DOMAIN node :
          /\ node'[m].key = node[m].key /\ node'[m].dead = node[m].dead
          /\ node'[m].next = node[m].next /\ (node'[m].dead => node'[m].val = Nil)
    BY <2>2, <2>4, <2>5 DEF NodesOK
  <2>. QED  BY <2>5, <2>6, <2>7, SameChains
<1>. QED  BY <1>2, <1>3 DEF Store

LEMMA NewKeyNodes ==
  ASSUME TableOK, FreePositions, NodesOK, NEW k \in KeySet, NEW v \in ValueSet,
         Slots(k) = {}, luaH_newkey(k, v)
  PROVE  NodesOK'
<1>. DEFINE mp == mainposition(k)
            D == DOMAIN node
<1>1. /\ node \in Seq(Node) /\ D = 1 .. Len(node) /\ Len(node) \in Nat /\ node # <<>>
      /\ lastfree \in 0 .. Len(node)
  BY DEF TableOK, Linked, luaH_newkey
<1>2. mp \in D /\ mp = MainOf[k] /\ k # NoKey
  BY <1>1, MainInRange, MainRange, KeysAssumption
<1>3. \A n \in D : node[n] \in Node
  BY <1>1
<1>4. /\ ChainsOK(KeyOf, Dead, Links, MainOf)
      /\ \A n \in D : node[n].dead => node[n].val = Nil
  BY <1>1 DEF NodesOK
<1>5. \A n \in D : KeyOf[n] = k => n \in Dead
  BY <1>1, OneSlot DEF KeyOf, Dead
<1>6. /\ DOMAIN KeyOf = D /\ DOMAIN Links = D /\ Dead \subseteq D
      /\ \A n \in D : KeyOf[n] = node[n].key /\ Links[n] = node[n].next /\ (n \in Dead <=> node[n].dead)
  BY DEF KeyOf, Links, Dead
<1>7. \A q \in KeySet : MainOf[q] = mainposition(q)
  BY MainRange
<1>8. MainTaken(k) => /\ node[mp].key \in KeySet /\ KeyOf[mp] # NoKey /\ mp \notin Dead
                      /\ MainOf[KeyOf[mp]] = mainposition(node[mp].key)
  <2>. SUFFICES ASSUME MainTaken(k)
                PROVE  /\ node[mp].key \in KeySet /\ KeyOf[mp] # NoKey /\ mp \notin Dead
                       /\ MainOf[KeyOf[mp]] = mainposition(node[mp].key)
    OBVIOUS
  <2>1. node[mp].val # Nil
    BY <1>1 DEF MainTaken
  <2>2. node[mp].key # NoKey /\ node[mp] \in Node
    BY <1>2, <1>3, <2>1 DEF FreePositions
  <2>3. node[mp].key \in KeySet
    BY <2>2 DEF Node
  <2>. QED  BY <1>2, <1>4, <1>6, <1>7, <2>1, <2>2, <2>3
<1>9. \A f \in getfreepos : f \in D /\ KeyOf[f] = NoKey
  BY <1>1, <1>6 DEF getfreepos
<1>. HIDE DEF mp, D
<1>10. ASSUME NEW K, NEW X, NEW L, ChainsOK(K, X, L, MainOf),
              Len(node') = Len(node), DOMAIN node' = D,
              DOMAIN K = D, L = [n \in D |-> L[n]], X \subseteq D,
              \A n \in D : /\ node'[n].key = K[n] /\ node'[n].next = L[n]
                           /\ (node'[n].dead <=> n \in X)
                           /\ (node'[n].dead => node'[n].val = Nil)
       PROVE  NodesOK'
  <2>1. MainOf' = MainOf
    BY <1>10, MainRange
  <2>2. KeyOf' = [n \in D |-> K[n]] /\ Links' = [n \in D |-> L[n]]
    BY <1>10 DEF KeyOf, Links
  <2>3. Dead' = X
    BY <1>10 DEF Dead
  <2>4. K \in [DOMAIN L -> KeySet \union {NoKey}] /\ LinkFn(L)
    BY <1>10 DEF ChainsOK
  <2>5. KeyOf' = K
    BY <1>10, <2>2, <2>4
  <2>6. Links' = L
    BY <1>10, <2>2
  <2>. QED  BY <1>10, <2>1, <2>3, <2>5, <2>6 DEF NodesOK
<1>11. CASE TakeMain(k, v)
  <2>1. node' = [node EXCEPT ![mp].key = k, ![mp].dead = FALSE, ![mp].val = v]
    BY <1>11 DEF TakeMain, mp
  <2>. DEFINE new == [node[mp] EXCEPT !.key = k, !.dead = FALSE, !.val = v]
  <2>2. new.key = k /\ ~new.dead /\ new.next = node[mp].next
    BY <1>2, <1>3 DEF Node
  <2>3. node' = [n \in D |-> IF n = mp THEN new ELSE node[n]]
    BY <1>1, <1>2, <2>1 DEF D
  <2>9. Len(node') = Len(node)
    BY <1>1, <2>1 DEF D
  <2>. HIDE DEF new
  <2>4. ChainsOK([KeyOf EXCEPT ![mp] = k], Dead \ {mp}, Links, MainOf)
    BY <1>2, <1>4, <1>5, <1>6, TakeChains
  <2>5. Links = [n \in D |-> Links[n]]
    <3>1. \A n \in D : Links[n] = node[n].next
      BY <1>6
    <3>2. Links = [n \in D |-> node[n].next]
      BY DEF Links, D
    <3>. QED  BY <3>1, <3>2
  <2>6. /\ [KeyOf EXCEPT ![mp] = k] \in [D -> KeySet \union {NoKey}]
        /\ \A n \in D : [KeyOf EXCEPT ![mp] = k][n] = IF n = mp THEN k ELSE node[n].key
    BY <1>2, <1>6, <2>4 DEF ChainsOK
  <2>7. ASSUME NEW n \in D
        PROVE  /\ node'[n].next = Links[n] /\ (node'[n].dead <=> n \in Dead \ {mp})
               /\ (node'[n].dead => node'[n].val = Nil)
               /\ node'[n].key = IF n = mp THEN k ELSE node[n].key
    BY <1>4, <1>6, <2>2, <2>3
  <2>. DEFINE K2 == [KeyOf EXCEPT ![mp] = k]
  <2>. HIDE DEF K2
  <2>8. /\ DOMAIN K2 = D /\ DOMAIN node' = D /\ ChainsOK(K2, Dead \ {mp}, Links, MainOf)
        /\ \A n \in D : node'[n].key = K2[n]
    BY <2>3, <2>4, <2>6, <2>7 DEF K2
  <2>. QED  BY <1>6, <1>10, <2>5, <2>7, <2>8, <2>9
<1>12. CASE LinkNew(k, v)
  <2>. DEFINE new == [key |-> k, dead |-> FALSE, val |-> v, next |-> node[mp].next]
  <2>1. PICK f \in getfreepos : node' = [node EXCEPT ![mp].next = f, ![f] = new]
    BY <1>12 DEF LinkNew, mp
  <2>2. /\ MainTaken(k) /\ mainposition(node[mp].key) = mp
        /\ f \in D /\ KeyOf[f] = NoKey
    BY <1>9, <1>12, <2>1 DEF LinkNew, mp
  <2>3. f # mp
    BY <1>8, <2>2
  <2>. DEFINE q == [node[mp] EXCEPT !.next = f]
  <2>4. q.key = node[mp].key /\ q.dead = node[mp].dead /\ q.val = node[mp].val /\ q.next = f
    BY <1>2, <1>3 DEF Node
  <2>5. node' = [n \in D |-> IF n = f THEN new ELSE IF n = mp THEN q ELSE node[n]]
    BY <1>1, <1>2, <2>1, <2>2 DEF D
  <2>9. Len(node') = Len(node)
    BY <1>1, <2>1 DEF D
  <2>6. new.key = k /\ ~new.dead /\ new.next = node[mp].next
    OBVIOUS
  <2>. HIDE DEF new, q
  <2>. DEFINE L2 == [Links EXCEPT ![mp] = f, ![f] = Links[mp]]
  <2>7. ChainsOK([KeyOf EXCEPT ![f] = k], Dead \ {f}, L2, MainOf)
    BY <1>2, <1>4, <1>5, <1>6, <1>8, <2>2, LinkChains
  <2>8. L2 = [n \in D |-> L2[n]] /\ L2[f] = Links[mp] /\ L2[mp] = f
        /\ \A n \in D : n # f /\ n # mp => L2[n] = Links[n]
    BY <1>2, <1>6, <2>2, <2>3
  <2>. DEFINE K2 == [KeyOf EXCEPT ![f] = k]
  <2>10. DOMAIN K2 = D /\ K2[f] = k /\ \A n \in D : n # f => K2[n] = KeyOf[n]
    BY <1>6, <2>2
  <2>. HIDE DEF L2, K2
  <2>11. ASSUME NEW n \in D
         PROVE  /\ node'[n].key = K2[n] /\ node'[n].next = L2[n]
                /\ (node'[n].dead <=> n \in Dead \ {f})
                /\ (node'[n].dead => node'[n].val = Nil)
    <3>1. CASE n = f
      BY <1>2, <1>6, <2>2, <2>3, <2>5, <2>6, <2>8, <2>10, <3>1
    <3>2. CASE n = mp
      BY <1>2, <1>4, <1>6, <2>3, <2>4, <2>5, <2>8, <2>10, <3>2
    <3>3. CASE n # f /\ n # mp
      BY <1>4, <1>6, <2>5, <2>8, <2>10, <3>3
    <3>. QED  BY <3>1, <3>2, <3>3
  <2>12. ChainsOK(K2, Dead \ {f}, L2, MainOf) /\ DOMAIN node' = D /\ Dead \ {f} \subseteq D
    BY <1>6, <2>5, <2>7 DEF K2
  <2>. QED  BY <1>10, <2>8, <2>9, <2>10, <2>11, <2>12
<1>13. CASE MoveColliding(k, v)
  <2>. DEFINE new == [key |-> k, dead |-> FALSE, val |-> v, next |-> 0]
  <2>1. PICK f \in getfreepos : \E p \in Chain(mainposition(node[mp].key)) :
           /\ node[p].next = mp
           /\ node' = [node EXCEPT ![p].next = f, ![f] = node[mp], ![mp] = new]
    BY <1>13 DEF MoveColliding, mp
  <2>2. PICK p \in D :
           /\ node[p].next = mp
           /\ node' = [node EXCEPT ![p].next = f, ![f] = node[mp], ![mp] = new]
    BY <2>1, ChainInRange DEF D
  <2>3. /\ MainTaken(k) /\ mainposition(node[mp].key) # mp
        /\ f \in D /\ KeyOf[f] = NoKey
    BY <1>9, <1>13, <2>1 DEF MoveColliding, mp
  <2>4. f # mp
    BY <1>8, <2>3
  <2>. DEFINE q == [node[p] EXCEPT !.next = f]
  <2>5. q.key = node[p].key /\ q.dead = node[p].dead /\ q.val = node[p].val /\ q.next = f
    BY <1>3 DEF Node
  <2>6. node' = [n \in D |-> IF n = mp THEN new ELSE IF n = f THEN node[mp]
                             ELSE IF n = p THEN q ELSE node[n]]
    <3>1. node' = [node EXCEPT ![p] = q, ![f] = node[mp], ![mp] = new]
      BY <1>1, <2>2 DEF D
    <3>. HIDE DEF q, new
    <3>. QED  BY <1>1, <1>2, <2>2, <2>3, <3>1 DEF D
  <2>12. Len(node') = Len(node)
    BY <1>1, <2>2 DEF D
  <2>7. new.key = k /\ ~new.dead /\ new.next = 0
    OBVIOUS
  <2>. HIDE DEF new, q
  <2>. DEFINE L2 == [Links EXCEPT ![p] = f, ![f] = Links[mp], ![mp] = 0]
              K2 == [KeyOf EXCEPT ![f] = KeyOf[mp], ![mp] = k]
  <2>8. ChainsOK(K2, Dead \ {f}, L2, MainOf)
    <3>1. /\ Links[p] = MainOf[k] /\ MainOf[KeyOf[MainOf[k]]] # MainOf[k]
          /\ p \in DOMAIN Links /\ f \in DOMAIN Links /\ KeyOf[f] = NoKey
          /\ KeyOf[MainOf[k]] # NoKey /\ MainOf[k] \notin Dead
          /\ \A n \in DOMAIN Links : KeyOf[n] = k => n \in Dead
      BY <1>2, <1>5, <1>6, <1>8, <2>2, <2>3
    <3>. QED  BY <1>2, <1>4, <3>1, MoveChains
  <2>9. p # f /\ p # mp
    <3>1. Links[f] = 0 /\ mp # 0
      BY <1>1, <1>2, <1>4, <1>6, <2>3 DEF ChainsOK, LinksOK
    <3>2. p # f
      BY <1>6, <2>2, <3>1
    <3>3. {mp} \in SUBSET DOMAIN Links
      BY <1>2, <1>6
    <3>4. Links[mp] # mp
      BY <1>4, <3>3 DEF ChainsOK, LinksOK, Ends
    <3>. QED  BY <1>6, <2>2, <3>2, <3>4
  <2>10. /\ L2 = [n \in D |-> L2[n]] /\ L2[f] = Links[mp] /\ L2[mp] = 0 /\ L2[p] = f
         /\ \A n \in D : n # f /\ n # mp /\ n # p => L2[n] = Links[n]
         /\ DOMAIN K2 = D /\ K2[f] = KeyOf[mp] /\ K2[mp] = k
         /\ \A n \in D : n # f /\ n # mp => K2[n] = KeyOf[n]
    BY <1>2, <1>6, <2>2, <2>3, <2>4, <2>9
  <2>. HIDE DEF L2, K2
  <2>11. ASSUME NEW n \in D
         PROVE  /\ node'[n].key = K2[n] /\ node'[n].next = L2[n]
                /\ (node'[n].dead <=> n \in Dead \ {f})
                /\ (node'[n].dead => node'[n].val = Nil)
    <3>1. CASE n = mp
      BY <1>2, <1>8, <2>3, <2>4, <2>6, <2>7, <2>10, <3>1
    <3>2. CASE n = f
      BY <1>2, <1>6, <1>8, <2>3, <2>4, <2>6, <2>10, <3>2
    <3>3. CASE n = p
      <4>1. node'[n] = q
        BY <2>6, <2>9, <3>3
      <4>2. K2[n] = node[p].key /\ L2[n] = f /\ p \in D
        BY <1>6, <2>2, <2>9, <2>10, <3>3
      <4>. QED  BY <1>4, <1>6, <2>5, <2>9, <3>3, <4>1, <4>2
    <3>4. CASE n # mp /\ n # f /\ n # p
      BY <1>4, <1>6, <2>6, <2>10, <3>4
    <3>. QED  BY <3>1, <3>2, <3>3, <3>4
  <2>13. DOMAIN node' = D /\ Dead \ {f} \subseteq D
    BY <1>6, <2>6
  <2>. QED  BY <1>10, <2>8, <2>10, <2>11, <2>12, <2>13
<1>. QED  BY <1>11, <1>12, <1>13 DEF luaH_newkey

(* The chains of free nodes.                                               *)
LEMMA FreshChains ==
  ASSUME NEW size \in Nat, NEW K \in [1 .. size -> KeySet \union {NoKey}], NEW X,
         NEW L \in [1 .. size -> {0}], NEW M \in [KeySet -> 1 .. size],
         \A n \in 1 .. size : K[n] = NoKey
  PROVE  ChainsOK(K, X, L, M)
<1>1. DOMAIN L = 1 .. size /\ \A n \in 1 .. size : L[n] = 0 /\ n # 0
  OBVIOUS
<1>2. LinkFn(L)
  BY <1>1 DEF LinkFn
<1>3. Ends(L)
  <2>1. ASSUME NEW C \in SUBSET DOMAIN L, C # {} PROVE \E n \in C : L[n] \notin C
    BY <1>1, <2>1
  <2>. QED  BY <2>1 DEF Ends
<1>4. InChain(K, L, M) /\ OneLive(K, X, L)
  BY <1>1 DEF InChain, OneLive
<1>5. LinksOK(K, L)
  BY <1>1, <1>3 DEF LinksOK
<1>. QED  BY <1>1, <1>2, <1>4, <1>5 DEF ChainsOK

LEMMA ResizeNodes ==
  ASSUME NEW nasize, NEW nhsize, NEW rest, luaH_resize(nasize, nhsize, rest)
  PROVE  NodesOK'
<1>1. PICK size \in NodeSizes \union {0} : node' = [n \in 1 .. size |-> FreeNode]
  BY DEF luaH_resize, RoundedUp
<1>2. size \in Nat
  BY SizesPositive
<1>3. /\ node' \in Seq(Node) /\ DOMAIN node' = 1 .. size
      /\ \A n \in 1 .. size : node'[n].key = NoKey /\ node'[n].next = 0
                               /\ ~node'[n].dead /\ node'[n].val = Nil
  BY <1>1, <1>2, NodeFields DEF FreeNode
<1>4. ASSUME node' # <<>> PROVE ChainsOK(KeyOf, Dead, Links, MainOf)'
  <2>1. MainOf' \in [KeySet -> 1 .. size]
    BY <1>3, <1>4, MainRange
  <2>2. Links' \in [1 .. size -> {0}]
    BY <1>3 DEF Links
  <2>3. KeyOf' \in [1 .. size -> KeySet \union {NoKey}] /\ \A n \in 1 .. size : KeyOf'[n] = NoKey
    BY <1>3 DEF KeyOf
  <2>. QED  BY <1>2, <2>1, <2>2, <2>3, FreshChains
<1>. QED  BY <1>3, <1>4 DEF NodesOK

(* The array part holds values at integers that are keys, and no key has a *)
(* place in both parts.                                                    *)
ArrayOK ==
  /\ \A i \in DOMAIN array : array[i] # Nil => i \in Integers_
  /\ \A n \in DOMAIN node : ~InArray(node[n].key)

LEMMA StoreArray ==
  ASSUME TableOK, ArrayOK, NEW k \in KeySet, NEW v \in ValueSet, Store(k, v)
  PROVE  ArrayOK' /\ Len(array') = Len(array)
<1>1. node \in Seq(Node) /\ array \in Seq(ValueSet)
  BY DEF TableOK, Linked
<1>2. CASE InArray(k)
  <2>1. array' = [array EXCEPT ![k] = v] /\ node' = node
    BY <1>2 DEF Store
  <2>2. k \in Integers_
    BY <1>2 DEF InArray
  <2>3. Len(array') = Len(array) /\ DOMAIN array' = DOMAIN array
        /\ \A i \in DOMAIN array : i # k => array'[i] = array[i]
    BY <1>1, <2>1
  <2>. QED  BY <2>1, <2>2, <2>3 DEF ArrayOK, InArray
<1>3. CASE ~InArray(k)
  <2>1. array' = array /\ \E n \in Slots(k) : node' = [node EXCEPT ![n].val = v]
    BY <1>3 DEF Store
  <2>2. PICK n \in DOMAIN node : node' = [node EXCEPT ![n].val = v]
    BY <2>1 DEF Slots
  <2>. DEFINE new == [node[n] EXCEPT !.val = v]
  <2>3. node[n] \in Node
    BY <1>1
  <2>4. new.key = node[n].key
    BY <2>3 DEF Node
  <2>5. node' = [m \in DOMAIN node |-> IF m = n THEN new ELSE node[m]]
    BY <1>1, <2>2
  <2>. HIDE DEF new
  <2>. QED  BY <2>1, <2>4, <2>5 DEF ArrayOK, InArray
<1>. QED  BY <1>2, <1>3

(* The entries in the nodes are those that were there and the new one, no  *)
(* value is lost, and one free node is taken at most.                      *)
LEMMA NewKeyEntries ==
  ASSUME TableOK, FreePositions, NEW k \in KeySet, NEW v \in ValueSet, luaH_newkey(k, v)
  PROVE  /\ DOMAIN node' = DOMAIN node
         /\ \A n \in DOMAIN node :
              \/ node'[n].key = k /\ node'[n].val = v
              \/ \E m \in DOMAIN node : node'[n].key = node[m].key /\ node'[n].val = node[m].val
         /\ \E n \in DOMAIN node : node'[n].key = k /\ node'[n].val = v
         /\ \A m \in DOMAIN node : node[m].val # Nil =>
              \E n \in DOMAIN node : node'[n].key = node[m].key /\ node'[n].val = node[m].val
         /\ \E f \in DOMAIN node : \A n \in DOMAIN node :
              node[n].key = NoKey /\ node'[n].key # NoKey => n = f
<1>. DEFINE mp == mainposition(k)
            D == DOMAIN node
<1>1. /\ node \in Seq(Node) /\ D = 1 .. Len(node) /\ Len(node) \in Nat /\ node # <<>>
      /\ lastfree \in 0 .. Len(node)
  BY DEF TableOK, Linked, luaH_newkey
<1>2. mp \in D
  BY <1>1, MainInRange
<1>3. \A n \in D : node[n] \in Node
  BY <1>1
<1>4. \A f \in getfreepos : f \in D /\ node[f].key = NoKey /\ node[f].val = Nil
  BY <1>1 DEF getfreepos, FreePositions
<1>. HIDE DEF mp
<1>5. CASE TakeMain(k, v)
  <2>1. node' = [node EXCEPT ![mp].key = k, ![mp].dead = FALSE, ![mp].val = v]
        /\ node[mp].val = Nil
    BY <1>5 DEF TakeMain, MainTaken, mp
  <2>. DEFINE new == [node[mp] EXCEPT !.key = k, !.dead = FALSE, !.val = v]
  <2>2. new.key = k /\ new.val = v
    BY <1>2, <1>3 DEF Node
  <2>3. node' = [n \in D |-> IF n = mp THEN new ELSE node[n]]
    BY <1>1, <1>2, <2>1
  <2>. HIDE DEF new
  <2>. QED  BY <1>2, <2>1, <2>2, <2>3
<1>6. CASE LinkNew(k, v)
  <2>. DEFINE new == [key |-> k, dead |-> FALSE, val |-> v, next |-> node[mp].next]
  <2>1. PICK f \in getfreepos : node' = [node EXCEPT ![mp].next = f, ![f] = new]
    BY <1>6 DEF LinkNew, mp
  <2>. DEFINE q == [node[mp] EXCEPT !.next = f]
  <2>2. /\ q.key = node[mp].key /\ q.val = node[mp].val
        /\ new.key = k /\ new.val = v /\ f \in D /\ node[f].val = Nil
    BY <1>2, <1>3, <1>4 DEF Node
  <2>3. node' = [n \in D |-> IF n = f THEN new ELSE IF n = mp THEN q ELSE node[n]]
    BY <1>1, <1>2, <2>1, <2>2
  <2>. HIDE DEF new, q
  <2>4. \A n \in D : n # f => node'[n].key = node[n].key /\ node'[n].val = node[n].val
    BY <2>2, <2>3
  <2>5. node'[f].key = k /\ node'[f].val = v
    BY <2>2, <2>3
  <2>6. DOMAIN node' = D
    BY <2>3
  <2>. QED  BY <2>2, <2>4, <2>5, <2>6
<1>7. CASE MoveColliding(k, v)
  <2>. DEFINE new == [key |-> k, dead |-> FALSE, val |-> v, next |-> 0]
  <2>1. PICK f \in getfreepos : \E p \in Chain(mainposition(node[mp].key)) :
           node' = [node EXCEPT ![p].next = f, ![f] = node[mp], ![mp] = new]
    BY <1>7 DEF MoveColliding, mp
  <2>2. PICK p \in D :
           node' = [node EXCEPT ![p].next = f, ![f] = node[mp], ![mp] = new]
    BY <2>1, ChainInRange
  <2>3. f \in D /\ node[f].key = NoKey /\ node[f].val = Nil
    BY <1>4
  <2>4. node[mp].val # Nil
    BY <1>1, <1>7 DEF MoveColliding, MainTaken, mp
  <2>. DEFINE q == [node[p] EXCEPT !.next = f]
  <2>5. q.key = node[p].key /\ q.val = node[p].val /\ new.key = k /\ new.val = v
    BY <1>3 DEF Node
  <2>6. node' = [n \in D |-> IF n = mp THEN new ELSE IF n = f THEN node[mp]
                             ELSE IF n = p THEN q ELSE node[n]]
    <3>1. node' = [node EXCEPT ![p] = q, ![f] = node[mp], ![mp] = new]
      BY <1>1, <2>2
    <3>. HIDE DEF q, new
    <3>. QED  BY <1>1, <1>2, <2>2, <2>3, <3>1
  <2>. HIDE DEF new, q
  <2>7. f # mp
    BY <2>3, <2>4
  <2>8. \A n \in D : n # f /\ n # mp => node'[n].key = node[n].key /\ node'[n].val = node[n].val
    BY <2>5, <2>6
  <2>9. node'[mp].key = k /\ node'[mp].val = v /\ node'[f] = node[mp]
    BY <1>2, <2>3, <2>5, <2>6, <2>7
  <2>10. DOMAIN node' = D
    BY <2>6
  <2>11. node[mp].key # NoKey
    BY <1>2, <2>4 DEF FreePositions
  <2>. QED  BY <1>2, <2>3, <2>8, <2>9, <2>10, <2>11
<1>. QED  BY <1>5, <1>6, <1>7 DEF luaH_newkey

LEMMA NewKeyArray ==
  ASSUME TableOK, FreePositions, ArrayOK, NEW k \in KeySet, NEW v \in ValueSet,
         ~InArray(k), luaH_newkey(k, v)
  PROVE  ArrayOK' /\ array' = array
<1>1. array' = array
  BY DEF luaH_newkey
<1>. QED  BY <1>1, NewKeyEntries DEF ArrayOK, InArray

LEMMA ResizeArray ==
  ASSUME TableOK, ArrayOK, NEW nasize \in Nat, NEW nhsize, NEW rest, luaH_resize(nasize, nhsize, rest)
  PROVE  ArrayOK' /\ Len(array') = nasize
<1>1. PICK size \in NodeSizes \union {0} : node' = [n \in 1 .. size |-> FreeNode]
  BY DEF luaH_resize, RoundedUp
<1>2. array' = [i \in 1 .. nasize |-> IF i <= Len(array) THEN array[i] ELSE Nil]
  BY DEF luaH_resize
<1>3. array \in Seq(ValueSet) /\ DOMAIN array = 1 .. Len(array)
  BY DEF TableOK
<1>4. \A n \in DOMAIN node' : node'[n].key = NoKey
  BY <1>1, NodeFields
<1>5. \A i \in DOMAIN array' : array'[i] # Nil => i \in DOMAIN array /\ array[i] # Nil
  BY <1>2, <1>3
<1>6. Len(array') = nasize
  BY <1>2
<1>. QED  BY <1>4, <1>5, <1>6, KeysAssumption, IntegersAreKeys DEF ArrayOK, InArray

-----------------------------------------------------------------------------
(* Room for what is still to be inserted.                                  *)

KeysIn(s) == {s[i].key : i \in DOMAIN s}
NoTwice(s, P) == \A i, j \in DOMAIN s : i # j /\ s[i].key = s[j].key => s[i].key \in P

(* The keys that need no node: those of the array part.                    *)
Seated    == {NoKey} \union {k \in Integers_ : InArray(k)}
Waiting   == KeysIn(todo) \ Seated
FreeNodes == {n \in DOMAIN node : node[n].key = NoKey}

RoomOK == Cardinality(Waiting) <= Cardinality(FreeNodes) /\ NoTwice(todo, Seated)

(* The values of a function on a finite set are as many at most.           *)
LEMMA ImageSize ==
  ASSUME NEW f, IsFiniteSet(DOMAIN f)
  PROVE  LET T == {f[x] : x \in DOMAIN f}
         IN  IsFiniteSet(T) /\ Cardinality(T) <= Cardinality(DOMAIN f)
<1>. DEFINE T == {f[x] : x \in DOMAIN f}
            g == [x \in DOMAIN f |-> f[x]]
<1>1. g \in Surjection(DOMAIN f, T)
  BY DEF Surjection
<1>. QED  BY <1>1, FS_Surjection

LEMMA KeysFinite ==
  ASSUME NEW s \in Seq(Insertion)
  PROVE  IsFiniteSet(KeysIn(s)) /\ Cardinality(KeysIn(s)) <= Len(s) /\ Cardinality(KeysIn(s)) \in Nat
<1>. DEFINE f == [i \in DOMAIN s |-> s[i].key]
<1>1. DOMAIN f = 1 .. Len(s) /\ Len(s) \in Nat
  OBVIOUS
<1>2. IsFiniteSet(DOMAIN f) /\ Cardinality(DOMAIN f) = Len(s)
  BY <1>1, FS_Interval
<1>3. KeysIn(s) = {f[x] : x \in DOMAIN f}
  BY DEF KeysIn
<1>. HIDE DEF f
<1>. QED  BY <1>1, <1>2, <1>3, ImageSize, FS_CardinalityType

LEMMA FreeFinite ==
  ASSUME node \in Seq(Node)
  PROVE  IsFiniteSet(FreeNodes) /\ Cardinality(FreeNodes) \in Nat
<1>1. IsFiniteSet(1 .. Len(node)) /\ FreeNodes \subseteq 1 .. Len(node)
  BY FS_Interval DEF FreeNodes
<1>. QED  BY <1>1, FS_Subset, FS_CardinalityType

LEMMA KeysConcat ==
  ASSUME NEW s \in Seq(Insertion), NEW t \in Seq(Insertion)
  PROVE  /\ KeysIn(s \o t) = KeysIn(s) \union KeysIn(t)
         /\ \A P : NoTwice(s, P) /\ NoTwice(t, P) /\ KeysIn(s) \cap KeysIn(t) \subseteq P
                     => NoTwice(s \o t, P)
<1>. DEFINE u == s \o t
<1>1. /\ u \in Seq(Insertion) /\ Len(u) = Len(s) + Len(t) /\ Len(s) \in Nat /\ Len(t) \in Nat
      /\ DOMAIN u = 1 .. Len(s) + Len(t) /\ DOMAIN s = 1 .. Len(s) /\ DOMAIN t = 1 .. Len(t)
      /\ \A i \in 1 .. Len(s) : u[i] = s[i]
      /\ \A i \in 1 .. Len(t) : u[Len(s) + i] = t[i]
  BY ConcatProperties
<1>. HIDE DEF u
<1>2. \A i \in DOMAIN u : \/ i \in DOMAIN s /\ u[i] = s[i]
                          \/ /\ i > Len(s) /\ i - Len(s) \in DOMAIN t
                             /\ u[i] = t[i - Len(s)]
  <2>. TAKE i \in DOMAIN u
  <2>1. CASE i <= Len(s)
    BY <1>1, <2>1
  <2>2. CASE i > Len(s)
    <3>1. i - Len(s) \in 1 .. Len(t) /\ Len(s) + (i - Len(s)) = i
      BY <1>1, <2>2
    <3>. QED  BY <1>1, <2>2, <3>1
  <2>. QED  BY <1>1, <2>1, <2>2
<1>3. KeysIn(u) \subseteq KeysIn(s) \union KeysIn(t)
  BY <1>2 DEF KeysIn
<1>4. KeysIn(s) \union KeysIn(t) \subseteq KeysIn(u)
  <2>1. \A i \in DOMAIN s : i \in DOMAIN u /\ u[i] = s[i]
    BY <1>1
  <2>2. \A i \in DOMAIN t : Len(s) + i \in DOMAIN u /\ u[Len(s) + i] = t[i]
    BY <1>1
  <2>. QED  BY <2>1, <2>2 DEF KeysIn
<1>5. ASSUME NEW P, NoTwice(s, P), NoTwice(t, P), KeysIn(s) \cap KeysIn(t) \subseteq P
      PROVE  NoTwice(u, P)
  <2>. SUFFICES ASSUME NEW i \in DOMAIN u, NEW j \in DOMAIN u, i # j, u[i].key = u[j].key
                PROVE  u[i].key \in P
    BY DEF NoTwice
  <2>0. i \in Int /\ j \in Int
    BY <1>1
  <2>1. CASE i \in DOMAIN s /\ u[i] = s[i] /\ j \in DOMAIN s /\ u[j] = s[j]
    BY <1>5, <2>1 DEF NoTwice
  <2>2. CASE i > Len(s) /\ j > Len(s)
    <3>1. /\ i - Len(s) \in DOMAIN t /\ u[i] = t[i - Len(s)]
          /\ j - Len(s) \in DOMAIN t /\ u[j] = t[j - Len(s)]
          /\ i - Len(s) # j - Len(s)
      BY <1>1, <1>2, <2>0, <2>2
    <3>. QED  BY <1>5, <3>1 DEF NoTwice
  <2>3. CASE i \in DOMAIN s /\ j > Len(s)
    <3>1. u[i] = s[i] /\ j - Len(s) \in DOMAIN t /\ u[j] = t[j - Len(s)]
      BY <1>1, <1>2, <2>3
    <3>2. u[i].key \in KeysIn(s) \cap KeysIn(t)
      BY <2>3, <3>1 DEF KeysIn
    <3>. QED  BY <1>5, <3>2
  <2>4. CASE j \in DOMAIN s /\ i > Len(s)
    <3>1. u[j] = s[j] /\ i - Len(s) \in DOMAIN t /\ u[i] = t[i - Len(s)]
      BY <1>1, <1>2, <2>4
    <3>2. u[i].key \in KeysIn(s) \cap KeysIn(t)
      BY <2>4, <3>1 DEF KeysIn
    <3>. QED  BY <1>5, <3>2
  <2>. QED  BY <1>2, <2>1, <2>2, <2>3, <2>4
<1>. QED  BY <1>3, <1>4, <1>5 DEF u

(* The next insertion finds a slot or a free node.                         *)
LEMMA RoomForNext ==
  ASSUME TableOK, FreePositions, todo \in Seq(Insertion), RoomOK,
         todo # <<>>, Head(todo).key # NoKey
  PROVE  Present(Head(todo).key) \/ ~NeedsRehash(Head(todo).key)
<1>. DEFINE k == Head(todo).key
<1>. SUFFICES ASSUME ~Present(k), getfreepos = {} PROVE FALSE
  BY DEF NeedsRehash
<1>1. 1 \in DOMAIN todo /\ k = todo[1].key
  OBVIOUS
<1>2. k \in Waiting
  BY <1>1 DEF Waiting, KeysIn, Seated, Present
<1>3. IsFiniteSet(Waiting) /\ Cardinality(Waiting) \in Nat /\ Cardinality(Waiting) # 0
  BY <1>2, KeysFinite, FS_Difference, FS_CardinalityType, FS_EmptySet DEF Waiting
<1>4. FreeNodes = {}
  BY NoFreeNode DEF FreeNodes
<1>5. Cardinality(FreeNodes) = 0
  BY <1>4, FS_EmptySet
<1>. QED  BY <1>3, <1>5 DEF RoomOK

(* An insertion that is done.                                              *)
LEMMA ReinsertRoom ==
  ASSUME TableOK, FreePositions, NodesOK, ArrayOK, RoomOK, todo \in Seq(Insertion), Reinsert
  PROVE  RoomOK'
<1>. DEFINE k == Head(todo).key
<1>1. /\ todo # <<>> /\ todo' = Tail(todo) /\ 1 \in DOMAIN todo /\ k = todo[1].key
      /\ Tail(todo) \in Seq(Insertion) /\ Head(todo) \in Insertion
      /\ DOMAIN Tail(todo) = 1 .. Len(todo) - 1 /\ Len(todo) \in Nat /\ DOMAIN todo = 1 .. Len(todo)
      /\ \A i \in 1 .. Len(todo) - 1 : Tail(todo)[i] = todo[i + 1] /\ i + 1 \in DOMAIN todo /\ i + 1 # 1
      /\ (UNCHANGED <<array, node>>) \/ (k # NoKey /\ luaH_set(k, Head(todo).val, Tail(todo)))
  <2>1. todo # <<>>
    BY DEF Reinsert
  <2>2. k # NoKey => ~(~Present(k) /\ NeedsRehash(k))
    BY <2>1, RoomForNext
  <2>3. todo' = Tail(todo)
    BY <2>2 DEF Reinsert, luaH_set
  <2>4. (UNCHANGED <<array, node>>) \/ (k # NoKey /\ luaH_set(k, Head(todo).val, Tail(todo)))
    BY DEF Reinsert
  <2>. QED  BY <2>1, <2>3, <2>4
<1>2. node \in Seq(Node)
  BY DEF TableOK, Linked
<1>3. IsFiniteSet(Waiting) /\ Cardinality(Waiting) \in Nat
  BY KeysFinite, FS_Difference, FS_CardinalityType DEF Waiting
<1>4. KeysIn(Tail(todo)) \subseteq KeysIn(todo)
  BY <1>1 DEF KeysIn
<1>5. NoTwice(Tail(todo), Seated)
  <2>. SUFFICES ASSUME NEW i \in 1 .. Len(todo) - 1, NEW j \in 1 .. Len(todo) - 1, i # j,
                       Tail(todo)[i].key = Tail(todo)[j].key
                PROVE  Tail(todo)[i].key \in Seated
    BY <1>1 DEF NoTwice
  <2>1. /\ i + 1 \in DOMAIN todo /\ j + 1 \in DOMAIN todo /\ i + 1 # j + 1
        /\ todo[i + 1].key = todo[j + 1].key /\ Tail(todo)[i] = todo[i + 1]
    BY <1>1
  <2>. QED  BY <2>1 DEF RoomOK, NoTwice
<1>6. ASSUME Len(array') = Len(array), FreeNodes \subseteq FreeNodes', FreeNodes' \subseteq DOMAIN node
      PROVE  RoomOK'
  <2>1. Seated' = Seated
    BY <1>6 DEF Seated, InArray
  <2>2. Waiting' \subseteq Waiting
    BY <1>1, <1>4, <2>1 DEF Waiting
  <2>3. Cardinality(Waiting') <= Cardinality(Waiting) /\ Cardinality(Waiting') \in Nat
    BY <1>3, <2>2, FS_Subset, FS_CardinalityType
  <2>4. IsFiniteSet(FreeNodes') /\ Cardinality(FreeNodes') \in Nat /\ Cardinality(FreeNodes) \in Nat
    <3>1. IsFiniteSet(DOMAIN node)
      BY <1>2, FS_Interval
    <3>. QED  BY <1>2, <1>6, <3>1, FreeFinite, FS_Subset, FS_CardinalityType
  <2>5. Cardinality(FreeNodes) <= Cardinality(FreeNodes')
    BY <1>6, <2>4, FS_Subset
  <2>6. NoTwice(todo', Seated')
    BY <1>1, <1>5, <2>1
  <2>7. Cardinality(Waiting) <= Cardinality(FreeNodes)
    BY DEF RoomOK
  <2>8. Cardinality(Waiting') <= Cardinality(FreeNodes')
    BY <1>3, <2>3, <2>4, <2>5, <2>7
  <2>. QED  BY <2>6, <2>8 DEF RoomOK
<1>7. CASE UNCHANGED <<array, node>>
  BY <1>6, <1>7 DEF FreeNodes
<1>8. CASE k # NoKey /\ luaH_set(k, Head(todo).val, Tail(todo))
  <2>1. k \in KeySet /\ Head(todo).val \in ValueSet
    BY <1>1, <1>8 DEF Insertion
  <2>2. CASE Present(k) /\ Store(k, Head(todo).val)
    <3>1. Len(array') = Len(array)
      BY <2>1, <2>2, StoreArray
    <3>2. FreeNodes' = FreeNodes /\ FreeNodes \subseteq DOMAIN node
      <4>1. CASE node' = node
        BY <4>1 DEF FreeNodes
      <4>2. CASE \E n \in Slots(k) : node' = [node EXCEPT ![n].val = Head(todo).val]
        <5>. DEFINE v == Head(todo).val
        <5>1. PICK n \in DOMAIN node : node' = [node EXCEPT ![n].val = v]
          BY <4>2 DEF Slots
        <5>. DEFINE new == [node[n] EXCEPT !.val = v]
        <5>2. node[n] \in Node
          BY <1>2
        <5>3. new.key = node[n].key
          BY <5>2 DEF Node
        <5>4. node' = [m \in DOMAIN node |-> IF m = n THEN new ELSE node[m]]
          BY <1>2, <5>1
        <5>. HIDE DEF new
        <5>. QED  BY <5>3, <5>4 DEF FreeNodes
      <4>. QED  BY <2>2, <4>1, <4>2 DEF Store
    <3>. QED  BY <1>6, <3>1, <3>2
  <2>3. CASE ~Present(k) /\ luaH_newkey(k, Head(todo).val)
    <3>1. Len(array') = Len(array)
      BY <2>3 DEF luaH_newkey
    <3>2. Seated' = Seated
      BY <3>1 DEF Seated, InArray
    <3>3. k \in Waiting /\ k \notin Seated
      BY <1>1, <1>8, <2>3 DEF Waiting, KeysIn, Seated, Present
    <3>4. k \notin KeysIn(Tail(todo))
      <4>. SUFFICES ASSUME NEW i \in 1 .. Len(todo) - 1, Tail(todo)[i].key = k PROVE FALSE
        BY <1>1 DEF KeysIn
      <4>1. i + 1 \in DOMAIN todo /\ i + 1 # 1 /\ todo[i + 1].key = todo[1].key
        BY <1>1
      <4>. QED  BY <1>1, <3>3, <4>1 DEF RoomOK, NoTwice
    <3>5. Waiting' \subseteq Waiting \ {k}
      BY <1>1, <1>4, <3>2, <3>4 DEF Waiting
    <3>6. Cardinality(Waiting') <= Cardinality(Waiting) - 1 /\ Cardinality(Waiting') \in Nat
      BY <1>3, <3>3, <3>5, FS_RemoveElement, FS_Subset, FS_CardinalityType
    <3>7. PICK f \in DOMAIN node : \A n \in DOMAIN node :
             node[n].key = NoKey /\ node'[n].key # NoKey => n = f
      BY <2>1, <2>3, NewKeyEntries
    <3>8. FreeNodes \ {f} \subseteq FreeNodes' /\ FreeNodes' \subseteq DOMAIN node
      BY <2>1, <2>3, <3>7, NewKeyEntries DEF FreeNodes
    <3>9. IsFiniteSet(FreeNodes) /\ Cardinality(FreeNodes) \in Nat /\ IsFiniteSet(DOMAIN node)
      BY <1>2, FreeFinite, FS_Interval
    <3>10. IsFiniteSet(FreeNodes') /\ Cardinality(FreeNodes') \in Nat
      BY <3>8, <3>9, FS_Subset, FS_CardinalityType
    <3>11. Cardinality(FreeNodes) - 1 <= Cardinality(FreeNodes')
      <4>. DEFINE R == FreeNodes \ {f}
      <4>1. IsFiniteSet(R) /\ Cardinality(R) \in Nat
        BY <3>9, FS_Subset, FS_CardinalityType
      <4>2. Cardinality(FreeNodes) - 1 <= Cardinality(R)
        <5>1. CASE f \in FreeNodes
          <6>1. Cardinality(R) = Cardinality(FreeNodes) - 1
            BY <3>9, <5>1, FS_RemoveElement
          <6>. HIDE DEF R
          <6>. QED  BY <3>9, <4>1, <6>1
        <5>2. CASE f \notin FreeNodes
          <6>1. R = FreeNodes
            BY <5>2
          <6>. HIDE DEF R
          <6>. QED  BY <3>9, <6>1
        <5>. QED  BY <5>1, <5>2
      <4>3. Cardinality(R) <= Cardinality(FreeNodes')
        BY <3>8, <3>10, FS_Subset
      <4>. HIDE DEF R
      <4>. QED  BY <3>9, <3>10, <4>1, <4>2, <4>3
    <3>12. NoTwice(todo', Seated')
      BY <1>1, <1>5, <3>2
    <3>13. Cardinality(Waiting) <= Cardinality(FreeNodes)
      BY DEF RoomOK
    <3>14. Cardinality(Waiting') <= Cardinality(FreeNodes')
      BY <1>3, <3>6, <3>9, <3>10, <3>11, <3>13
    <3>. QED  BY <3>12, <3>14 DEF RoomOK
  <2>4. ~(~Present(k) /\ NeedsRehash(k))
    BY <1>1, <1>8, RoomForNext
  <2>. QED  BY <1>8, <2>2, <2>3, <2>4 DEF luaH_set
<1>. QED  BY <1>1, <1>7, <1>8

(* Every entry that luaH_resize moves has a key of its own, ...            *)
LEMMA MovedKeys ==
  ASSUME TableOK, NodesOK, ArrayOK, NEW a \in Nat
  PROVE  /\ MovedSlice(a) \o MovedNodes \in Seq(Insertion)
         /\ KeysIn(MovedSlice(a) \o MovedNodes) \subseteq
              {NoKey} \union {i \in InUse : i > a} \union {node[n].key : n \in NodesInUse}
         /\ NoTwice(MovedSlice(a) \o MovedNodes, {NoKey})
<1>. DEFINE s == MovedSlice(a)
            t == MovedNodes
<1>1. s \in Seq(Insertion) /\ t \in Seq(Insertion)
  BY MovedType
<1>2. /\ node \in Seq(Node) /\ DOMAIN node = 1 .. Len(node) /\ Len(node) \in Nat
      /\ array \in Seq(ValueSet) /\ DOMAIN array = 1 .. Len(array) /\ Len(array) \in Nat
  BY DEF TableOK, Linked
<1>3. ASSUME NEW i \in DOMAIN s
      PROVE  i \in Int /\ (s[i].key # NoKey => s[i].key = a + i /\ a + i \in InUse /\ a + i > a)
  <2>1. i \in 1 .. Len(array) - a /\ s[i].key = IF array[a + i] = Nil THEN NoKey ELSE a + i
    BY <1>3 DEF MovedSlice
  <2>. QED  BY <1>2, <2>1 DEF InUse
<1>4. ASSUME NEW i \in DOMAIN t
      PROVE  /\ i \in Int
             /\ t[i].key # NoKey =>
                  Len(node) + 1 - i \in NodesInUse /\ t[i].key = node[Len(node) + 1 - i].key
  <2>. DEFINE old == node[Len(node) + 1 - i]
  <2>1. i \in 1 .. Len(node) /\ t[i].key = IF old.val = Nil THEN NoKey ELSE old.key
    BY <1>4 DEF MovedNodes
  <2>2. Len(node) + 1 - i \in DOMAIN node
    BY <1>2, <2>1
  <2>. QED  BY <2>1, <2>2 DEF NodesInUse
<1>5. \A i \in InUse : InArray(i)
  BY <1>2 DEF InUse, ArrayOK, InArray
<1>. HIDE DEF s, t
<1>6. NoTwice(s, {NoKey})
  BY <1>2, <1>3 DEF NoTwice
<1>7. NoTwice(t, {NoKey})
  <2>. SUFFICES ASSUME NEW i \in DOMAIN t, NEW j \in DOMAIN t, i # j, t[i].key = t[j].key,
                       t[i].key # NoKey
                PROVE  FALSE
    BY DEF NoTwice
  <2>. DEFINE m == Len(node) + 1 - i
              n == Len(node) + 1 - j
  <2>1. /\ m \in DOMAIN node /\ n \in DOMAIN node /\ m # n
        /\ node[m].key = node[n].key /\ node[m].key # NoKey
        /\ node[m].val # Nil /\ node[n].val # Nil
    BY <1>2, <1>4 DEF NodesInUse
  <2>. HIDE DEF m, n
  <2>2. m \notin Dead /\ n \notin Dead
    BY <2>1 DEF NodesOK, Dead
  <2>3. OneLive(KeyOf, Dead, Links)
    BY <1>2, <2>1 DEF NodesOK, ChainsOK
  <2>. QED  BY <2>1, <2>2, <2>3 DEF OneLive, KeyOf, Links
<1>8. KeysIn(s) \cap KeysIn(t) \subseteq {NoKey}
  <2>. SUFFICES ASSUME NEW i \in DOMAIN s, NEW j \in DOMAIN t, s[i].key = t[j].key, s[i].key # NoKey
                PROVE  FALSE
    BY DEF KeysIn
  <2>1. InArray(s[i].key)
    BY <1>3, <1>5
  <2>2. \E n \in DOMAIN node : s[i].key = node[n].key
    BY <1>4 DEF NodesInUse
  <2>. QED  BY <2>1, <2>2 DEF ArrayOK
<1>9. KeysIn(s) \subseteq {NoKey} \union {i \in InUse : i > a}
  BY <1>3 DEF KeysIn
<1>10. KeysIn(t) \subseteq {NoKey} \union {node[n].key : n \in NodesInUse}
  BY <1>4 DEF KeysIn
<1>11. s \o t \in Seq(Insertion)
  BY <1>1, ConcatProperties
<1>12. KeysIn(s \o t) = KeysIn(s) \union KeysIn(t) /\ NoTwice(s \o t, {NoKey})
  BY <1>1, <1>6, <1>7, <1>8, KeysConcat
<1>13. KeysIn(s \o t) \subseteq {NoKey} \union {i \in InUse : i > a} \union {node[n].key : n \in NodesInUse}
  BY <1>9, <1>10, <1>12
<1>. QED  BY <1>11, <1>12, <1>13 DEF s, t

(* ... the nodes are all free after it, ...                                *)
LEMMA ResizedNodes ==
  ASSUME NEW a \in Nat, NEW h \in Nat, NEW rest, luaH_resize(a, h, rest)
  PROVE  /\ Cardinality(FreeNodes') \in Nat /\ h <= Cardinality(FreeNodes')
         /\ Seated' = {NoKey} \union {k \in Integers_ : k <= a}
         /\ todo' = MovedSlice(a) \o MovedNodes \o rest
<1>1. PICK size \in RoundedUp(h) : node' = [n \in 1 .. size |-> FreeNode]
  BY DEF luaH_resize
<1>2. size \in Nat /\ h <= size
  BY SizesPositive DEF RoundedUp
<1>3. FreeNodes' = 1 .. size
  BY <1>1, NodeFields DEF FreeNodes
<1>4. Cardinality(FreeNodes') = size
  BY <1>2, <1>3, FS_Interval
<1>5. array' = [i \in 1 .. a |-> IF i <= Len(array) THEN array[i] ELSE Nil]
  BY DEF luaH_resize
<1>6. Len(array') = a
  BY <1>5
<1>. QED  BY <1>2, <1>4, <1>6 DEF luaH_resize, Seated, InArray

LEMMA InUseFinite ==
  ASSUME TableOK
  PROVE  /\ IsFiniteSet(InUse) /\ Cardinality(InUse) \in Nat
         /\ IsFiniteSet(NodesInUse) /\ Cardinality(NodesInUse) \in Nat
         /\ Cardinality(NodesInUse) <= Len(node)
         /\ IsFiniteSet({node[n].key : n \in NodesInUse})
         /\ Cardinality({node[n].key : n \in NodesInUse}) <= Cardinality(NodesInUse)
<1>1. /\ DOMAIN node = 1 .. Len(node) /\ Len(node) \in Nat
      /\ DOMAIN array = 1 .. Len(array) /\ Len(array) \in Nat
  BY DEF TableOK, Linked
<1>2. /\ IsFiniteSet(DOMAIN node) /\ IsFiniteSet(DOMAIN array)
      /\ Cardinality(DOMAIN node) = Len(node)
  <2>1. \A n \in Nat : IsFiniteSet(1 .. n) /\ Cardinality(1 .. n) = n
    BY FS_Interval
  <2>. QED  BY <1>1, <2>1
<1>3. InUse \subseteq DOMAIN array /\ NodesInUse \subseteq DOMAIN node
  BY DEF InUse, NodesInUse
<1>4. /\ IsFiniteSet(InUse) /\ IsFiniteSet(NodesInUse)
      /\ Cardinality(NodesInUse) <= Len(node)
  BY <1>2, <1>3, FS_Subset
<1>. DEFINE f == [n \in NodesInUse |-> node[n].key]
<1>5. DOMAIN f = NodesInUse /\ {f[n] : n \in DOMAIN f} = {node[n].key : n \in NodesInUse}
  OBVIOUS
<1>. HIDE DEF f
<1>6. /\ IsFiniteSet({node[n].key : n \in NodesInUse})
      /\ Cardinality({node[n].key : n \in NodesInUse}) <= Cardinality(NodesInUse)
  BY <1>4, <1>5, ImageSize
<1>. QED  BY <1>4, <1>6, FS_CardinalityType

(* ... and rehash counts what it takes: of the array's entries, the        *)
(* nodes' and the new key, those that the new array part does not hold.    *)
LEMMA RehashRoom ==
  ASSUME TableOK, NodesOK, ArrayOK, NEW k \in KeySet, NEW v \in ValueSet, ~Present(k),
         rehash(k, <<[key |-> k, val |-> v]>>)
  PROVE  RoomOK'
<1>. DEFINE rest == <<[key |-> k, val |-> v]>>
            Keys == {node[n].key : n \in NodesInUse}
            U == InUse \union Keys \union {k}
<1>1. PICK a \in PowersOf2 \union {0} :
        luaH_resize(a, (Cardinality(InUse) + Cardinality(NodesInUse) + 1)
                         - Cardinality(IntegersInUse(k) \cap 1 .. a), rest)
  BY Zenon DEF rehash
<1>. DEFINE I == IntegersInUse(k) \cap 1 .. a
            h == (Cardinality(InUse) + Cardinality(NodesInUse) + 1) - Cardinality(I)
            moved == MovedSlice(a) \o MovedNodes
<1>2. a \in Nat
  BY SizesAssumption
<1>3. array \in Seq(ValueSet) /\ DOMAIN array = 1 .. Len(array) /\ node \in Seq(Node)
  BY DEF TableOK, Linked
<1>4. I \subseteq U
  <2>. SUFFICES ASSUME NEW i \in I, i # k PROVE i \in U
    OBVIOUS
  <2>1. i \in Integers_
        /\ ((InArray(i) /\ array[i] # Nil) \/ \E n \in DOMAIN node : node[n].key = i /\ node[n].val # Nil)
    BY DEF IntegersInUse
  <2>2. CASE InArray(i) /\ array[i] # Nil
    <3>1. i \in DOMAIN array
      BY <1>3, <2>2, SizesAssumption DEF InArray, Integers_
    <3>. QED  BY <2>2, <3>1 DEF InUse
  <2>3. CASE \E n \in DOMAIN node : node[n].key = i /\ node[n].val # Nil
    BY <2>3 DEF NodesInUse
  <2>. QED  BY <2>1, <2>2, <2>3
<1>5. rest \in Seq(Insertion) /\ KeysIn(rest) = {k} /\ NoTwice(rest, {NoKey})
  <2>1. [key |-> k, val |-> v] \in Insertion
    BY DEF Insertion
  <2>2. DOMAIN rest = {1} /\ rest[1].key = k
    OBVIOUS
  <2>3. rest \in Seq(Insertion)
    BY <2>1
  <2>. HIDE DEF rest
  <2>. QED  BY <2>2, <2>3 DEF KeysIn, NoTwice
<1>6. /\ moved \in Seq(Insertion) /\ NoTwice(moved, {NoKey})
      /\ KeysIn(moved) \subseteq {NoKey} \union {i \in InUse : i > a} \union Keys
  BY <1>2, MovedKeys
<1>7. k \notin KeysIn(moved)
  <2>1. k # NoKey
    BY KeysAssumption
  <2>2. k \notin InUse
    BY <1>3 DEF Present, InArray, InUse, ArrayOK
  <2>3. k \notin Keys
    <3>. SUFFICES ASSUME NEW n \in NodesInUse, node[n].key = k PROVE FALSE
      OBVIOUS
    <3>1. n \in DOMAIN node /\ ~node[n].dead
      BY DEF NodesInUse, NodesOK
    <3>. QED  BY <1>3, <3>1, OneSlot DEF Present
  <2>. QED  BY <1>6, <2>1, <2>2, <2>3
<1>8. IsFiniteSet(U) /\ Cardinality(U) \in Nat
      /\ Cardinality(U) <= Cardinality(InUse) + Cardinality(NodesInUse) + 1
  <2>. DEFINE V == InUse \union Keys
  <2>1. /\ IsFiniteSet(InUse) /\ Cardinality(InUse) \in Nat /\ Cardinality(NodesInUse) \in Nat
        /\ IsFiniteSet(Keys) /\ Cardinality(Keys) \in Nat /\ Cardinality(Keys) <= Cardinality(NodesInUse)
    BY InUseFinite, FS_CardinalityType
  <2>2. IsFiniteSet(InUse \cap Keys) /\ Cardinality(InUse \cap Keys) \in Nat
    BY <2>1, FS_Intersection, FS_CardinalityType
  <2>3. IsFiniteSet(V) /\ Cardinality(V) = Cardinality(InUse) + Cardinality(Keys) - Cardinality(InUse \cap Keys)
    BY <2>1, FS_Union
  <2>. HIDE DEF V
  <2>4. Cardinality(V) \in Nat /\ Cardinality(V) <= Cardinality(InUse) + Cardinality(NodesInUse)
    BY <2>1, <2>2, <2>3, FS_CardinalityType
  <2>5. IsFiniteSet(V \union {k})
        /\ (Cardinality(V \union {k}) = Cardinality(V) \/ Cardinality(V \union {k}) = Cardinality(V) + 1)
    BY <2>3, FS_AddElement
  <2>6. U = V \union {k}
    BY DEF V
  <2>. HIDE DEF U
  <2>. QED  BY <2>1, <2>4, <2>5, <2>6
<1>9. Cardinality(I) \in Nat /\ IsFiniteSet(U \ I) /\ Cardinality(U \ I) \in Nat
      /\ Cardinality(U \ I) = Cardinality(U) - Cardinality(I)
  <2>1. IsFiniteSet(I)
    BY <1>4, <1>8, FS_Subset
  <2>2. U \cap I = I
    BY <1>4
  <2>. HIDE DEF U, I
  <2>3. IsFiniteSet(U \ I) /\ Cardinality(U \ I) = Cardinality(U) - Cardinality(I)
    BY <1>8, <2>2, FS_Difference
  <2>. QED  BY <2>1, <2>3, FS_CardinalityType
<1>10. Cardinality(InUse) \in Nat /\ Cardinality(NodesInUse) \in Nat
  BY InUseFinite
<1>11. h \in Nat /\ Cardinality(U \ I) <= h
  <2>. HIDE DEF U, I
  <2>. QED  BY <1>8, <1>9, <1>10
<1>12. luaH_resize(a, h, rest)
  BY <1>1
<1>. HIDE DEF h
<1>13. /\ Cardinality(FreeNodes') \in Nat /\ h <= Cardinality(FreeNodes')
       /\ Seated' = {NoKey} \union {i \in Integers_ : i <= a}
       /\ todo' = moved \o rest
  BY <1>2, <1>11, <1>12, ResizedNodes
<1>. HIDE DEF rest, moved
<1>14. KeysIn(todo') = KeysIn(moved) \union {k} /\ NoTwice(todo', {NoKey})
  <2>1. KeysIn(moved) \cap KeysIn(rest) \subseteq {NoKey}
    BY <1>5, <1>7
  <2>. QED  BY <1>5, <1>6, <1>13, <2>1, KeysConcat
<1>15. Waiting' \subseteq U \ I
  <2>1. KeysIn(todo') \ {NoKey} \subseteq U
    BY <1>6, <1>14
  <2>2. I \subseteq Seated'
    <3>1. I \subseteq Integers_ /\ \A i \in I : i <= a
      BY <1>2 DEF IntegersInUse
    <3>. QED  BY <1>13, <3>1
  <2>. QED  BY <1>13, <2>1, <2>2 DEF Waiting
<1>16. Cardinality(Waiting') \in Nat /\ Cardinality(Waiting') <= Cardinality(U \ I)
  <2>. HIDE DEF U, I
  <2>. QED  BY <1>9, <1>15, FS_Subset, FS_CardinalityType
<1>17. Cardinality(Waiting') <= Cardinality(FreeNodes')
  <2>. HIDE DEF U, I
  <2>. QED  BY <1>9, <1>11, <1>13, <1>16
<1>18. NoTwice(todo', Seated')
  BY <1>13, <1>14 DEF NoTwice
<1>. QED  BY <1>17, <1>18 DEF RoomOK

(* Nothing waits when nothing is left to insert.                           *)
LEMMA NothingWaits ==
  ASSUME node' \in Seq(Node), todo' = <<>>
  PROVE  RoomOK'
<1>1. Waiting' = {}
  BY DEF Waiting, KeysIn
<1>3. Cardinality(Waiting') = 0
  BY <1>1, FS_EmptySet
<1>2. Cardinality(FreeNodes') \in Nat
  <2>1. IsFiniteSet(1 .. Len(node')) /\ FreeNodes' \subseteq 1 .. Len(node')
    BY FS_Interval DEF FreeNodes
  <2>. QED  BY <2>1, FS_Subset, FS_CardinalityType
<1>. QED  BY <1>2, <1>3 DEF RoomOK, NoTwice

(* The values of a constructor go to the array part; the entries of the    *)
(* node part need as many nodes at most as there were.                     *)
LEMMA SetListRoom ==
  ASSUME TableOK, NodesOK, ArrayOK, NEW f \in Lists, SetList(f)
  PROVE  RoomOK'
<1>. DEFINE n == Len(f)
            list == [i \in 1 .. n |-> [key |-> n + 1 - i, val |-> f[n + 1 - i]]]
            Keys == {node[m].key : m \in NodesInUse}
<1>1. PICK l \in 1 .. MaxList : f \in [1 .. l -> ValueSet]
  BY DEF Lists
<1>2. l \in Nat /\ n = l /\ l <= MaxList
  BY <1>1, SizesAssumption
<1>3. \A i \in 1 .. n : n + 1 - i \in Integers_ /\ n + 1 - i <= n /\ n + 1 - i \in DOMAIN f
  <2>1. \A i \in 1 .. l : l + 1 - i \in 1 .. MaxList /\ l + 1 - i \in 1 .. l
    BY <1>2, SizesAssumption
  <2>2. 1 .. MaxList \subseteq Integers_
    BY SizesAssumption DEF Integers_
  <2>. QED  BY <1>1, <1>2, <2>1, <2>2
<1>4. \A i \in 1 .. n : [key |-> n + 1 - i, val |-> f[n + 1 - i]] \in Insertion
  BY <1>1, <1>3, IntegersAreKeys DEF Insertion
<1>. HIDE DEF n
<1>5. /\ list \in Seq(Insertion) /\ DOMAIN list = 1 .. n
      /\ \A i \in 1 .. n : list[i].key = n + 1 - i
  BY <1>2, <1>4
<1>. HIDE DEF list
<1>6. NoTwice(list, {NoKey})
  <2>. SUFFICES ASSUME NEW i \in 1 .. n, NEW j \in 1 .. n, list[i].key = list[j].key PROVE i = j
    BY <1>5 DEF NoTwice
  <2>1. n + 1 - i = n + 1 - j
    BY <1>5
  <2>. QED  BY <1>2, <2>1
<1>7. \A k \in KeysIn(list) : k \in Integers_ /\ k <= n
  BY <1>3, <1>5 DEF KeysIn
<1>8. array \in Seq(ValueSet) /\ node \in Seq(Node) /\ Len(array) \in Nat /\ Len(node) \in Nat
  BY DEF TableOK, Linked
<1>9. CASE n > Len(array) /\ luaH_resize(n, Len(node), list)
  <2>. DEFINE moved == MovedSlice(n) \o MovedNodes
  <2>1. /\ Cardinality(FreeNodes') \in Nat /\ Len(node) <= Cardinality(FreeNodes')
        /\ Seated' = {NoKey} \union {k \in Integers_ : k <= n}
        /\ todo' = moved \o list
    BY <1>2, <1>8, <1>9, ResizedNodes
  <2>2. /\ moved \in Seq(Insertion) /\ NoTwice(moved, {NoKey})
        /\ KeysIn(moved) \subseteq {NoKey} \union {i \in InUse : i > n} \union Keys
    BY <1>2, MovedKeys
  <2>. HIDE DEF moved
  <2>3. {i \in InUse : i > n} = {}
    BY <1>2, <1>8, <1>9 DEF InUse
  <2>4. KeysIn(list) \subseteq Seated'
    BY <1>7, <2>1
  <2>5. NoTwice(moved, Seated') /\ NoTwice(list, Seated') /\ NoKey \in Seated'
    BY <1>6, <2>1, <2>2 DEF NoTwice
  <2>6. KeysIn(todo') = KeysIn(moved) \union KeysIn(list) /\ NoTwice(todo', Seated')
    BY <1>5, <2>1, <2>2, <2>4, <2>5, KeysConcat
  <2>7. Waiting' \subseteq Keys
    BY <2>2, <2>3, <2>4, <2>5, <2>6 DEF Waiting
  <2>8. IsFiniteSet(Keys) /\ Cardinality(Keys) <= Cardinality(NodesInUse)
        /\ Cardinality(NodesInUse) <= Len(node) /\ Cardinality(NodesInUse) \in Nat
    BY InUseFinite
  <2>. HIDE DEF Keys
  <2>9. Cardinality(Waiting') <= Cardinality(Keys) /\ Cardinality(Waiting') \in Nat /\ Cardinality(Keys) \in Nat
    BY <2>7, <2>8, FS_Subset, FS_CardinalityType
  <2>10. Cardinality(Waiting') <= Cardinality(FreeNodes')
    BY <1>8, <2>1, <2>8, <2>9
  <2>. QED  BY <2>6, <2>10 DEF RoomOK
<1>10. CASE n <= Len(array) /\ todo' = list /\ UNCHANGED <<array, node>>
  <2>1. KeysIn(todo') \subseteq Seated'
    BY <1>2, <1>7, <1>8, <1>10, SizesAssumption DEF Seated, InArray, Integers_
  <2>2. Waiting' = {} /\ Cardinality(Waiting') = 0
    BY <2>1, FS_EmptySet DEF Waiting
  <2>3. FreeNodes' = FreeNodes /\ Cardinality(FreeNodes) \in Nat
    BY <1>8, <1>10, FreeFinite DEF FreeNodes
  <2>4. NoTwice(todo', Seated')
    BY <1>6, <1>10 DEF NoTwice, Seated
  <2>. QED  BY <2>2, <2>3, <2>4 DEF RoomOK
<1>. QED  BY <1>2, <1>8, <1>9, <1>10 DEF SetList, n, list

(* What one insertion keeps, wherever the key goes.                        *)
LEMMA SetNodes ==
  ASSUME TableOK, FreePositions, NodesOK, ArrayOK, NEW k \in KeySet, NEW v \in ValueSet,
         NEW rest, luaH_set(k, v, rest)
  PROVE  NodesOK' /\ ArrayOK'
<1>1. CASE Store(k, v)
  BY <1>1, StoreNodes, StoreArray
<1>2. CASE ~Present(k) /\ luaH_newkey(k, v)
  BY <1>2, NewKeyNodes, NewKeyArray DEF Present
<1>3. CASE rehash(k, <<[key |-> k, val |-> v]>> \o rest)
  <2>1. PICK a \in PowersOf2 \union {0} : \E h, r : luaH_resize(a, h, r)
    BY <1>3 DEF rehash
  <2>2. a \in Nat
    BY SizesAssumption
  <2>. QED  BY <2>1, <2>2, ResizeNodes, ResizeArray
<1>. QED  BY <1>1, <1>2, <1>3 DEF luaH_set

(* An assignment of the program begins when nothing is left to insert.     *)
LEMMA SetRoom ==
  ASSUME TableOK, NodesOK, ArrayOK, NEW k \in KeySet, NEW v \in ValueSet,
         luaH_set(k, v, <<>>)
  PROVE  RoomOK'
<1>1. TableOK'
  <2>1. <<>> \in Seq(Insertion)
    OBVIOUS
  <2>. QED  BY <2>1, SetType
<1>2. node' \in Seq(Node)
  BY <1>1 DEF TableOK, Linked
<1>3. CASE todo' = <<>>
  BY <1>2, <1>3, NothingWaits
<1>4. CASE ~Present(k) /\ rehash(k, <<[key |-> k, val |-> v]>> \o <<>>)
  <2>1. [key |-> k, val |-> v] \in Insertion
    BY DEF Insertion
  <2>2. <<[key |-> k, val |-> v]>> \in Seq(Insertion)
    BY <2>1
  <2>3. <<[key |-> k, val |-> v]>> \o <<>> = <<[key |-> k, val |-> v]>>
    BY <2>2, ConcatEmptySeq
  <2>. QED  BY <1>4, <2>3, RehashRoom
<1>. QED  BY <1>3, <1>4 DEF luaH_set

(* The death of a key: no other node of the key can be alive.              *)
LEMMA RemoveNodes ==
  ASSUME TableOK, NodesOK, ArrayOK, NEW n \in DOMAIN node, removeentry(n), node' \in Seq(Node)
  PROVE  NodesOK' /\ ArrayOK' /\ RoomOK'
<1>1. /\ node \in Seq(Node) /\ todo' = <<>> /\ array' = array
      /\ node[n].val = Nil /\ ~node[n].dead
      /\ node' = [node EXCEPT ![n].dead = TRUE]
  BY DEF TableOK, Linked, removeentry, Ready
<1>. DEFINE new == [node[n] EXCEPT !.dead = TRUE]
<1>2. node[n] \in Node
  BY <1>1
<1>3. /\ new.key = node[n].key /\ new.dead /\ new.next = node[n].next /\ new.val = node[n].val
      /\ new \in Node
  BY <1>2 DEF Node
<1>4. node' = [m \in DOMAIN node |-> IF m = n THEN new ELSE node[m]]
  BY <1>1
<1>14. Len(node') = Len(node)
  BY <1>1
<1>. HIDE DEF new
<1>5. /\ DOMAIN node' = DOMAIN node
      /\ \A m \in DOMAIN node : /\ node'[m].key = node[m].key /\ node'[m].next = node[m].next
                                /\ node'[m].val = node[m].val
                                /\ m # n => node'[m].dead = node[m].dead
      /\ node'[n].dead
  BY <1>3, <1>4
<1>6. KeyOf' = KeyOf /\ Links' = Links /\ Dead' = Dead \union {n}
  BY <1>5 DEF KeyOf, Links, Dead
<1>7. MainOf' = MainOf
  BY <1>14, MainRange
<1>8. node # <<>> /\ n \notin Dead
  BY <1>1 DEF Dead
<1>9. ChainsOK(KeyOf, Dead, Links, MainOf)
  BY <1>8 DEF NodesOK
<1>10. OneLive(KeyOf, Dead \union {n}, Links)
  <2>1. OneLive(KeyOf, Dead, Links)
    BY <1>9 DEF ChainsOK
  <2>. QED  BY <1>8, <2>1 DEF OneLive
<1>11. ChainsOK(KeyOf, Dead, Links, MainOf)'
  BY <1>6, <1>7, <1>9, <1>10 DEF ChainsOK
<1>12. NodesOK'
  BY <1>1, <1>5, <1>11 DEF NodesOK
<1>13. ArrayOK'
  BY <1>1, <1>5 DEF ArrayOK, InArray
<1>. QED  BY <1>1, <1>12, <1>13, NothingWaits

Inserting == FreePositions /\ NodesOK /\ ArrayOK /\ RoomOK

LEMMA NextNodes == TypeOK /\ Inserting /\ [Next]_vars => Inserting'
<1>. SUFFICES ASSUME TypeOK, Inserting, [Next]_vars PROVE NodesOK' /\ ArrayOK' /\ RoomOK'
  BY NextFree DEF Inserting
<1>1. TableOK /\ todo \in Seq(Insertion) /\ FreePositions /\ NodesOK /\ ArrayOK /\ RoomOK
  BY TypeParts DEF Inserting
<1>2. CASE UNCHANGED <<array, node, todo>>
  BY <1>1, <1>2 DEF NodesOK, KeyOf, Dead, Links, MainOf, mainposition, ArrayOK, InArray,
                    RoomOK, Waiting, Seated, FreeNodes
<1>3. TableOK' /\ node' \in Seq(Node)
  BY NextType, TypeParts DEF TableOK, Linked
<1>4. CASE Reinsert
  <2>1. RoomOK'
    BY <1>1, <1>4, ReinsertRoom
  <2>2. CASE UNCHANGED <<array, node>>
    BY <1>1, <2>1, <2>2 DEF NodesOK, KeyOf, Dead, Links, MainOf, mainposition, ArrayOK, InArray
  <2>3. CASE Head(todo).key # NoKey /\ luaH_set(Head(todo).key, Head(todo).val, Tail(todo))
    <3>1. Head(todo) \in Insertion
      BY <1>1, <1>4, HeadTailProperties DEF Reinsert
    <3>2. Head(todo).key \in KeySet /\ Head(todo).val \in ValueSet
      BY <2>3, <3>1 DEF Insertion
    <3>. QED  BY <1>1, <2>1, <2>3, <3>2, SetNodes
  <2>. QED  BY <1>4, <2>2, <2>3 DEF Reinsert
<1>5. ASSUME NEW key \in KeySet \union Floats, NEW v \in ValueSet,
             SetTable(key, v) \/ lua_rawset(key, v)
      PROVE  NodesOK' /\ ArrayOK' /\ RoomOK'
  <2>1. luaH_set(Normal(key), v, <<>>) /\ Normal(key) \in KeySet
    BY <1>5, NormalIsKey DEF SetTable, lua_rawset
  <2>. QED  BY <1>1, <2>1, SetNodes, SetRoom
<1>6. ASSUME NEW i \in Integers_, NEW v \in ValueSet, lua_rawseti(i, v)
      PROVE  NodesOK' /\ ArrayOK' /\ RoomOK'
  <2>1. i \in KeySet /\ luaH_set(i, v, <<>>)
    BY <1>6, IntegersAreKeys DEF lua_rawseti
  <2>. QED  BY <1>1, <2>1, SetNodes, SetRoom
<1>7. ASSUME NEW f \in Lists, SetList(f)
      PROVE  NodesOK' /\ ArrayOK' /\ RoomOK'
  <2>1. RoomOK'
    BY <1>1, <1>7, SetListRoom
  <2>2. CASE UNCHANGED <<array, node>>
    BY <1>1, <2>1, <2>2 DEF NodesOK, KeyOf, Dead, Links, MainOf, mainposition, ArrayOK, InArray
  <2>3. CASE \E list : luaH_resize(Len(f), Len(node), list)
    <3>1. Len(f) \in Nat
      BY <1>7 DEF Lists
    <3>. QED  BY <1>1, <2>1, <2>3, <3>1, ResizeNodes, ResizeArray
  <2>. QED  BY <1>7, <2>2, <2>3 DEF SetList
<1>8. ASSUME NEW n \in DOMAIN node, removeentry(n)
      PROVE  NodesOK' /\ ArrayOK' /\ RoomOK'
  BY <1>1, <1>3, <1>8, RemoveNodes
<1>9. ASSUME NEW k \in WeakEntries, ClearEntry(k)
      PROVE  NodesOK' /\ ArrayOK' /\ RoomOK'
  <2>1. k \in KeySet /\ Nil \in ValueSet /\ Store(k, Nil) /\ todo' = <<>>
    BY <1>9, KeysAssumption, ValuesAssumption DEF ClearEntry, Ready
  <2>. QED  BY <1>1, <1>3, <2>1, StoreNodes, StoreArray, NothingWaits
<1>10. ASSUME (\E e \in Events : luaT_gettm(e)) \/ FirstNext \/ luaH_next \/ InvalidKey
              \/ (\E k \in KeySet : SetFails(k)) \/ UNCHANGED vars
       PROVE  NodesOK' /\ ArrayOK' /\ RoomOK'
  <2>1. UNCHANGED <<array, node, todo>>
    BY <1>10 DEF luaT_gettm, FirstNext, luaH_next, InvalidKey, SetFails, tvars, vars
  <2>. QED  BY <1>2, <2>1
<1>11. RawKeys \subseteq KeySet \union Floats
  BY KeysAssumption
<1>. QED
  BY <1>4, <1>5, <1>6, <1>7, <1>8, <1>9, <1>10, <1>11 DEF Next

LEMMA InitNodes == Init => NodesOK /\ ArrayOK /\ RoomOK
<1>. SUFFICES ASSUME Init PROVE NodesOK /\ ArrayOK /\ RoomOK
  OBVIOUS
<1>1. PICK size \in NodeSizes \union {0} : node = [n \in 1 .. size |-> FreeNode]
  BY DEF Init, RoundedUp
<1>2. PICK a \in ArraySizes : array = [i \in 1 .. a |-> Nil]
  BY DEF Init
<1>3. size \in Nat /\ a \in Nat /\ todo = <<>>
  BY SizesPositive, SizesAssumption DEF Init
<1>4. /\ node \in Seq(Node) /\ DOMAIN node = 1 .. size
      /\ \A n \in 1 .. size : node[n].key = NoKey /\ node[n].next = 0
                               /\ ~node[n].dead /\ node[n].val = Nil
  BY <1>1, <1>3, NodeFields DEF FreeNode
<1>5. ASSUME node # <<>> PROVE ChainsOK(KeyOf, Dead, Links, MainOf)
  <2>1. MainOf \in [KeySet -> 1 .. size]
    BY <1>4, <1>5, MainRange
  <2>2. Links \in [1 .. size -> {0}]
    BY <1>4 DEF Links
  <2>3. KeyOf \in [1 .. size -> KeySet \union {NoKey}] /\ \A n \in 1 .. size : KeyOf[n] = NoKey
    BY <1>4 DEF KeyOf
  <2>. QED  BY <1>3, <2>1, <2>2, <2>3, FreshChains
<1>6. NodesOK
  BY <1>4, <1>5 DEF NodesOK
<1>7. ArrayOK
  BY <1>2, <1>4, KeysAssumption, IntegersAreKeys DEF ArrayOK, InArray
<1>8. Waiting = {}
  BY <1>3 DEF Waiting, KeysIn
<1>9. Cardinality(Waiting) = 0 /\ Cardinality(FreeNodes) \in Nat
  BY <1>4, <1>8, FS_EmptySet, FreeFinite
<1>10. NoTwice(todo, Seated)
  BY <1>3 DEF NoTwice
<1>. QED  BY <1>6, <1>7, <1>9, <1>10 DEF RoomOK

LEMMA SoundNodes == TypeOK /\ Inserting => NodesSound
<1>. SUFFICES ASSUME TypeOK, Inserting PROVE NodesSound
  OBVIOUS
<1>1. TableOK /\ todo \in Seq(Insertion) /\ FreePositions /\ NodesOK /\ RoomOK
  BY TypeParts DEF Inserting
<1>2. node \in Seq(Node)
  BY <1>1 DEF TableOK, Linked
<1>3. ASSUME NEW n \in DOMAIN node
      PROVE  /\ node[n].val # Nil => n \in Chain(mainposition(node[n].key))
             /\ \E m \in Chain(n) : node[m].next = 0
  <2>1. node[n].key \in KeySet \union {NoKey}
    <3>1. node[n] \in Node
      BY <1>2, <1>3
    <3>. QED  BY <3>1 DEF Node
  <2>2. node[n].val # Nil => n \in Chain(mainposition(node[n].key))
    BY <1>1, <1>2, <2>1, KeyInChain DEF FreePositions
  <2>3. ChainsOK(KeyOf, Dead, Links, MainOf)
    BY <1>1, <1>2, <1>3 DEF NodesOK
  <2>4. LinkFn(Links) /\ Ends(Links) /\ n \in DOMAIN Links
    BY <2>3 DEF ChainsOK, LinksOK, Links
  <2>5. PICK m \in Follow(Links, n) : Links[m] = 0
    BY <2>4, FollowEnds
  <2>6. m \in Chain(n) /\ m \in DOMAIN node
    BY ChainInRange DEF Chain
  <2>. QED  BY <2>2, <2>5, <2>6 DEF Links
<1>4. ASSUME NEW m \in DOMAIN node, NEW n \in DOMAIN node, m # n
      PROVE  /\ node[m].next = node[n].next => node[m].next = 0
             /\ node[m].key = node[n].key => node[m].key = NoKey \/ node[m].dead \/ node[n].dead
  <2>1. ChainsOK(KeyOf, Dead, Links, MainOf)
    BY <1>1, <1>2, <1>4 DEF NodesOK
  <2>2. node[m].next = node[n].next => node[m].next = 0
    BY <1>4, <2>1 DEF ChainsOK, LinksOK, Links
  <2>3. node[m].key = node[n].key => node[m].key = NoKey \/ node[m].dead \/ node[n].dead
    BY <1>4, <2>1 DEF ChainsOK, OneLive, Dead, KeyOf, Links
  <2>. QED  BY <2>2, <2>3
<1>5. ChainsSound
  BY <1>3, <1>4 DEF ChainsSound
<1>6. NoNestedRehash
  BY <1>1, RoomForNext DEF NoNestedRehash
<1>. QED  BY <1>5, <1>6 DEF NodesSound

LEMMA AlwaysInserting == Spec => [](TypeOK /\ Inserting)
<1>1. Init => TypeOK /\ Inserting
  BY InitType, InitFree, InitNodes DEF Inserting
<1>2. (TypeOK /\ Inserting) /\ [Next]_vars => (TypeOK /\ Inserting)'
  BY NextType, NextNodes
<1>. QED  BY <1>1, <1>2, PTL DEF Spec

(* luaH_newkey (ltable.c:509-569) keeps the chains whatever it moves, for  *)
(* all keys, hash values and sizes: every entry is found from its main     *)
(* position, every chain ends, and no key has two live nodes; and rehash   *)
(* (ltable.c:439-460) makes room for all it counted, so that it is never   *)
(* called again while the table is resized.                                *)
THEOREM NodesAlwaysSound == Spec => []NodesSound
BY AlwaysInserting, SoundNodes, PTL

-----------------------------------------------------------------------------
(* The entries: what luaH_get finds, and what is still to be inserted.     *)

Holds(k, x) ==
  \/ InArray(k) /\ array[k] = x
  \/ \E n \in DOMAIN node : node[n].key = k /\ node[n].val = x

(* What a key has after the insertions 's', if it had 'x' before.          *)
LastValue(s, k, x) ==
  LET at == {i \in DOMAIN s : s[i].key = k}
  IN  IF at = {} THEN x ELSE s[CHOOSE i \in at : \A j \in at : j <= i].val

(* luaH_get finds what is there.                                           *)
LEMMA GetHolds ==
  ASSUME TableOK, NodesOK, ArrayOK, NEW k \in KeySet, NEW x, x # Nil
  PROVE  luaH_get(k) = x <=> Holds(k, x)
<1>1. node \in Seq(Node)
  BY DEF TableOK, Linked
<1>2. CASE InArray(k)
  BY <1>2 DEF luaH_get, Holds, ArrayOK
<1>3. CASE ~InArray(k)
  <2>1. /\ Slots(k) = {n \in DOMAIN node : node[n].key = k /\ ~node[n].dead}
        /\ \A m, n \in Slots(k) : m = n
    BY <1>1, OneSlot
  <2>2. CASE Slots(k) = {}
    <3>1. luaH_get(k) = Nil
      BY <1>3, <2>2 DEF luaH_get
    <3>2. ~Holds(k, x)
      BY <1>3, <2>1, <2>2 DEF Holds, NodesOK
    <3>. QED  BY <3>1, <3>2
  <2>3. CASE Slots(k) # {}
    <3>1. PICK n \in Slots(k) : TRUE
      BY <2>3
    <3>2. (CHOOSE m \in Slots(k) : TRUE) = n
      BY <2>1, <3>1
    <3>3. luaH_get(k) = node[n].val
      BY <1>3, <2>3, <3>2 DEF luaH_get
    <3>4. Holds(k, x) <=> node[n].val = x
      <4>1. n \in DOMAIN node /\ node[n].key = k
        BY <2>1
      <4>2. ASSUME NEW m \in DOMAIN node, node[m].key = k, node[m].val = x PROVE m = n
        <5>1. ~node[m].dead
          BY <4>2 DEF NodesOK
        <5>2. m \in Slots(k)
          BY <2>1, <4>2, <5>1
        <5>. QED  BY <2>1, <5>2
      <4>. QED  BY <1>3, <4>1, <4>2 DEF Holds
    <3>. QED  BY <3>3, <3>4
  <2>. QED  BY <2>2, <2>3
<1>. QED  BY <1>2, <1>3

GetAgrees == \A k \in KeySet : \A x : x # Nil => (luaH_get(k) = x <=> Holds(k, x))

LEMMA GetAgreesNow == TableOK /\ NodesOK /\ ArrayOK => GetAgrees
BY GetHolds DEF GetAgrees

LEMMA GetAgreesNext == (TableOK /\ NodesOK /\ ArrayOK)' => GetAgrees'
BY GetAgreesNow, PTL

(* Storing at a slot or in a new node changes the entry of the key only.   *)
LEMMA SetGet ==
  ASSUME TableOK, FreePositions, NodesOK, ArrayOK, NEW k \in KeySet, NEW v \in ValueSet,
         (Present(k) /\ Store(k, v)) \/ (~Present(k) /\ luaH_newkey(k, v))
  PROVE  \A j \in KeySet : luaH_get(j)' = IF j = k THEN v ELSE luaH_get(j)
<1>1. /\ node \in Seq(Node) /\ array \in Seq(ValueSet) /\ DOMAIN array = 1 .. Len(array)
      /\ DOMAIN node = 1 .. Len(node)
  BY DEF TableOK, Linked
<1>2. TableOK' /\ NodesOK' /\ ArrayOK'
  BY StoreType, NewKeyType, StoreNodes, StoreArray, NewKeyNodes, NewKeyArray DEF Present
<1>3. ASSUME NEW j \in KeySet, NEW x, x # Nil
      PROVE  Holds(j, x)' <=> IF j = k THEN x = v ELSE Holds(j, x)
  <2>1. CASE InArray(k) /\ Store(k, v)
    <3>1. array' = [array EXCEPT ![k] = v] /\ node' = node
      BY <2>1 DEF Store
    <3>2. k \in DOMAIN array /\ Len(array') = Len(array)
      BY <1>1, <2>1, <3>1, SizesAssumption DEF InArray, Integers_
    <3>3. array'[k] = v /\ \A i \in DOMAIN array : i # k => array'[i] = array[i]
      BY <1>1, <3>1, <3>2
    <3>4. InArray(j)' <=> InArray(j)
      BY <3>2 DEF InArray
    <3>5. InArray(j) => j \in DOMAIN array
      BY <1>1, SizesAssumption DEF InArray, Integers_
    <3>6. CASE j = k
      <4>1. \A n \in DOMAIN node : node[n].key # k
        BY <2>1 DEF ArrayOK
      <4>. QED  BY <2>1, <3>1, <3>3, <3>4, <3>6, <4>1 DEF Holds
    <3>7. CASE j # k
      BY <3>1, <3>3, <3>4, <3>5, <3>7 DEF Holds
    <3>. QED  BY <3>6, <3>7
  <2>2. CASE ~InArray(k) /\ Store(k, v)
    <3>1. array' = array /\ \E n \in Slots(k) : node' = [node EXCEPT ![n].val = v]
      BY <2>2 DEF Store
    <3>2. PICK n \in Slots(k) : node' = [node EXCEPT ![n].val = v]
      BY <3>1
    <3>3. n \in DOMAIN node /\ node[n].key = k /\ ~node[n].dead
      BY DEF Slots
    <3>. DEFINE new == [node[n] EXCEPT !.val = v]
    <3>4. node[n] \in Node
      BY <1>1, <3>3
    <3>5. new.key = k /\ new.val = v
      BY <3>3, <3>4 DEF Node
    <3>6. node' = [m \in DOMAIN node |-> IF m = n THEN new ELSE node[m]]
      BY <1>1, <3>2, <3>3
    <3>. HIDE DEF new
    <3>7. \A m \in DOMAIN node : node[m].key = k /\ m # n => node[m].val = Nil
      <4>. SUFFICES ASSUME NEW m \in DOMAIN node, node[m].key = k, m # n, node[m].val # Nil
                    PROVE  FALSE
        OBVIOUS
      <4>1. ~node[m].dead
        BY DEF NodesOK
      <4>2. m \in Slots(k) /\ \A a, b \in Slots(k) : a = b
        BY <1>1, <4>1, OneSlot
      <4>. QED  BY <4>2
    <3>8. InArray(j)' <=> InArray(j)
      BY <3>1 DEF InArray
    <3>9. DOMAIN node' = DOMAIN node /\ node'[n].key = k /\ node'[n].val = v
          /\ \A m \in DOMAIN node : m # n => node'[m] = node[m]
      BY <3>3, <3>5, <3>6
    <3>10. CASE j = k
      <4>1. x = v => Holds(j, x)'
        BY <3>3, <3>9, <3>10 DEF Holds
      <4>2. ASSUME Holds(j, x)' PROVE x = v
        <5>1. PICK m \in DOMAIN node : node'[m].key = k /\ node'[m].val = x
          BY <2>2, <3>8, <3>9, <3>10, <4>2 DEF Holds
        <5>. QED  BY <1>3, <3>7, <3>9, <5>1
      <4>. QED  BY <3>10, <4>1, <4>2
    <3>11. CASE j # k
      BY <3>1, <3>3, <3>8, <3>9, <3>11 DEF Holds
    <3>. QED  BY <3>10, <3>11
  <2>3. CASE ~Present(k) /\ luaH_newkey(k, v)
    <3>1. array' = array
      BY <2>3 DEF luaH_newkey
    <3>2. \A n \in DOMAIN node : node[n].key = k => node[n].val = Nil
      <4>. SUFFICES ASSUME NEW n \in DOMAIN node, node[n].key = k, node[n].val # Nil PROVE FALSE
        OBVIOUS
      <4>1. ~node[n].dead
        BY DEF NodesOK
      <4>. QED  BY <1>1, <2>3, <4>1, OneSlot DEF Present
    <3>3. /\ DOMAIN node' = DOMAIN node
          /\ \A n \in DOMAIN node :
               \/ node'[n].key = k /\ node'[n].val = v
               \/ \E m \in DOMAIN node : node'[n].key = node[m].key /\ node'[n].val = node[m].val
          /\ \E n \in DOMAIN node : node'[n].key = k /\ node'[n].val = v
          /\ \A m \in DOMAIN node : node[m].val # Nil =>
               \E n \in DOMAIN node : node'[n].key = node[m].key /\ node'[n].val = node[m].val
      BY <2>3, NewKeyEntries
    <3>4. (InArray(j)' <=> InArray(j)) /\ ~InArray(k)
      BY <2>3, <3>1 DEF InArray, Present
    <3>5. CASE j = k
      BY <1>3, <3>1, <3>2, <3>3, <3>4, <3>5 DEF Holds
    <3>6. CASE j # k
      BY <1>3, <3>1, <3>2, <3>3, <3>4, <3>6 DEF Holds
    <3>. QED  BY <3>5, <3>6
  <2>. QED  BY <2>1, <2>2, <2>3
<1>4. ASSUME NEW j \in KeySet
      PROVE  luaH_get(j)' = IF j = k THEN v ELSE luaH_get(j)
  <2>1. \A x : x # Nil => ((luaH_get(j) = x <=> Holds(j, x)) /\ (luaH_get(j)' = x <=> Holds(j, x)'))
    BY <1>2, GetAgreesNow, GetAgreesNext DEF GetAgrees
  <2>2. \A x : x # Nil => (luaH_get(j)' = x <=> IF j = k THEN x = v ELSE luaH_get(j) = x)
    BY <1>3, <2>1
  <2>. HIDE DEF luaH_get
  <2>. QED  BY <2>2
<1>. QED  BY <1>4

(* The last insertion of a key decides.                                    *)
LEMMA LastIs ==
  ASSUME NEW s \in Seq(Insertion), NEW x, NEW i \in DOMAIN s,
         \A j \in DOMAIN s : s[j].key = s[i].key => j <= i
  PROVE  LastValue(s, s[i].key, x) = s[i].val
<1>. DEFINE at == {j \in DOMAIN s : s[j].key = s[i].key}
<1>1. i \in at /\ \A j \in at : j <= i /\ j \in Int
  OBVIOUS
<1>2. (CHOOSE m \in at : \A j \in at : j <= m) = i
  <2>1. \A m \in at : (\A j \in at : j <= m) => m = i
    BY <1>1
  <2>2. \E m \in at : \A j \in at : j <= m
    BY <1>1
  <2>. HIDE DEF at
  <2>. QED  BY <2>1, <2>2
<1>3. at # {}
  BY <1>1
<1>. QED  BY <1>2, <1>3 DEF LastValue

LEMMA LastNone ==
  ASSUME NEW s, NEW k, NEW x, \A i \in DOMAIN s : s[i].key # k
  PROVE  LastValue(s, k, x) = x
BY DEF LastValue

LEMMA LastExists ==
  ASSUME NEW s \in Seq(Insertion), NEW k, \E i \in DOMAIN s : s[i].key = k
  PROVE  \E i \in DOMAIN s : s[i].key = k /\ \A j \in DOMAIN s : s[j].key = k => j <= i
<1>. DEFINE at == {i \in DOMAIN s : s[i].key = k}
<1>1. Len(s) \in Nat /\ at \in SUBSET (1 .. Len(s)) /\ at # {}
  OBVIOUS
<1>. HIDE DEF at
<1>2. PICK i \in at : \A j \in at : j <= i
  BY <1>1, LargestMember
<1>. QED  BY <1>2 DEF at

LEMMA LastConcat ==
  ASSUME NEW s \in Seq(Insertion), NEW t \in Seq(Insertion), NEW k, NEW x
  PROVE  LastValue(s \o t, k, x) = LastValue(t, k, LastValue(s, k, x))
<1>. DEFINE u == s \o t
<1>1. /\ u \in Seq(Insertion) /\ Len(u) = Len(s) + Len(t) /\ Len(s) \in Nat /\ Len(t) \in Nat
      /\ DOMAIN u = 1 .. Len(s) + Len(t) /\ DOMAIN s = 1 .. Len(s) /\ DOMAIN t = 1 .. Len(t)
      /\ \A i \in 1 .. Len(s) : u[i] = s[i]
      /\ \A i \in 1 .. Len(t) : u[Len(s) + i] = t[i]
  BY ConcatProperties
<1>. HIDE DEF u
<1>2. \A i \in DOMAIN u : \/ i \in DOMAIN s /\ u[i] = s[i]
                          \/ i > Len(s) /\ i - Len(s) \in DOMAIN t /\ u[i] = t[i - Len(s)]
  <2>. TAKE i \in DOMAIN u
  <2>1. CASE i <= Len(s)
    BY <1>1, <2>1
  <2>2. CASE i > Len(s)
    <3>1. i - Len(s) \in 1 .. Len(t) /\ Len(s) + (i - Len(s)) = i
      BY <1>1, <2>2
    <3>. QED  BY <1>1, <2>2, <3>1
  <2>. QED  BY <1>1, <2>1, <2>2
<1>3. CASE \E i \in DOMAIN t : t[i].key = k
  <2>1. PICK i \in DOMAIN t : t[i].key = k /\ \A j \in DOMAIN t : t[j].key = k => j <= i
    BY <1>3, LastExists
  <2>2. Len(s) + i \in DOMAIN u /\ u[Len(s) + i] = t[i]
    BY <1>1
  <2>3. \A j \in DOMAIN u : u[j].key = u[Len(s) + i].key => j <= Len(s) + i
    <3>. SUFFICES ASSUME NEW j \in DOMAIN u, u[j].key = k PROVE j <= Len(s) + i
      BY <2>1, <2>2
    <3>1. CASE j \in DOMAIN s
      BY <1>1, <3>1
    <3>2. CASE j - Len(s) \in DOMAIN t /\ u[j] = t[j - Len(s)]
      <4>1. j - Len(s) <= i
        BY <2>1, <3>2
      <4>. QED  BY <1>1, <4>1
    <3>. QED  BY <1>2, <3>1, <3>2
  <2>4. LastValue(u, u[Len(s) + i].key, x) = u[Len(s) + i].val
    <3>. DEFINE q == Len(s) + i
    <3>1. q \in DOMAIN u /\ \A j \in DOMAIN u : u[j].key = u[q].key => j <= q
      BY <2>2, <2>3
    <3>. HIDE DEF q
    <3>2. LastValue(u, u[q].key, x) = u[q].val
      BY <1>1, <3>1, LastIs
    <3>. QED  BY <3>2 DEF q
  <2>5. LastValue(t, t[i].key, LastValue(s, k, x)) = t[i].val
    BY <2>1, LastIs
  <2>. QED  BY <2>1, <2>2, <2>4, <2>5 DEF u
<1>4. CASE \A i \in DOMAIN t : t[i].key # k
  <2>1. LastValue(t, k, LastValue(s, k, x)) = LastValue(s, k, x)
    BY <1>4, LastNone
  <2>2. CASE \E i \in DOMAIN s : s[i].key = k
    <3>1. PICK i \in DOMAIN s : s[i].key = k /\ \A j \in DOMAIN s : s[j].key = k => j <= i
      BY <2>2, LastExists
    <3>2. i \in DOMAIN u /\ u[i] = s[i]
      BY <1>1
    <3>3. \A j \in DOMAIN u : u[j].key = u[i].key => j <= i
      BY <1>2, <1>4, <3>1, <3>2
    <3>4. LastValue(u, u[i].key, x) = u[i].val
      BY <1>1, <3>2, <3>3, LastIs
    <3>5. LastValue(s, s[i].key, x) = s[i].val
      BY <3>1, LastIs
    <3>. QED  BY <2>1, <3>1, <3>2, <3>4, <3>5 DEF u
  <2>3. CASE \A i \in DOMAIN s : s[i].key # k
    <3>1. \A i \in DOMAIN u : u[i].key # k
      BY <1>2, <1>4, <2>3
    <3>2. LastValue(u, k, x) = x
      BY <3>1, LastNone
    <3>3. LastValue(s, k, x) = x
      BY <2>3, LastNone
    <3>. QED  BY <2>1, <3>2, <3>3 DEF u
  <2>. QED  BY <2>2, <2>3
<1>. QED  BY <1>3, <1>4

LEMMA LastPrepend ==
  ASSUME NEW e \in Insertion, NEW t \in Seq(Insertion), NEW k, NEW x
  PROVE  LastValue(<<e>> \o t, k, x) = LastValue(t, k, LastValue(<<e>>, k, x))
<1>. DEFINE s == <<e>>
<1>1. s \in Seq(Insertion)
  OBVIOUS
<1>. HIDE DEF s
<1>2. LastValue(s \o t, k, x) = LastValue(t, k, LastValue(s, k, x))
  BY <1>1, LastConcat
<1>. QED  BY <1>2 DEF s

LEMMA LastOnly ==
  ASSUME NEW s \in Seq(Insertion), NoTwice(s, {NoKey}), NEW x, NEW i \in DOMAIN s, s[i].key # NoKey
  PROVE  LastValue(s, s[i].key, x) = s[i].val
<1>1. \A j \in DOMAIN s : s[j].key = s[i].key => j <= i
  BY DEF NoTwice
<1>. QED  BY <1>1, LastIs

LEMMA LastSingle ==
  ASSUME NEW k \in KeySet, NEW v \in ValueSet, NEW j, NEW x
  PROVE  /\ <<[key |-> k, val |-> v]>> \in Seq(Insertion)
         /\ LastValue(<<[key |-> k, val |-> v]>>, j, x) = IF j = k THEN v ELSE x
<1>. DEFINE e == [key |-> k, val |-> v]
            s == <<e>>
<1>1. e \in Insertion /\ e.key = k /\ e.val = v
  BY DEF Insertion
<1>. HIDE DEF e
<1>2. s \in Seq(Insertion) /\ DOMAIN s = {1} /\ s[1] = e
  BY <1>1
<1>. HIDE DEF s
<1>3. CASE j = k
  <2>1. 1 \in DOMAIN s /\ \A i \in DOMAIN s : s[i].key = s[1].key => i <= 1
    BY <1>2
  <2>2. LastValue(s, s[1].key, x) = s[1].val
    BY <1>2, <2>1, LastIs
  <2>. QED  BY <1>1, <1>2, <1>3, <2>2 DEF s, e
<1>4. CASE j # k
  <2>1. LastValue(s, j, x) = x
    BY <1>1, <1>2, <1>4, LastNone
  <2>. QED  BY <1>2, <1>4, <2>1 DEF s, e
<1>. QED  BY <1>3, <1>4

(* What luaH_resize moves are entries, and the others stay where they are. *)
LEMMA MovedEntries ==
  ASSUME TableOK, NodesOK, ArrayOK, NEW a \in Nat
  PROVE  LET moved == MovedSlice(a) \o MovedNodes
         IN  /\ \A i \in DOMAIN moved : moved[i].key # NoKey =>
                  moved[i].val # Nil /\ Holds(moved[i].key, moved[i].val)
             /\ \A i \in InUse : i > a => \E p \in DOMAIN moved : moved[p].key = i
             /\ \A n \in NodesInUse : \E p \in DOMAIN moved : moved[p].key = node[n].key
<1>. DEFINE s == MovedSlice(a)
            t == MovedNodes
            moved == s \o t
<1>1. s \in Seq(Insertion) /\ t \in Seq(Insertion)
  BY MovedType
<1>2. /\ node \in Seq(Node) /\ DOMAIN node = 1 .. Len(node) /\ Len(node) \in Nat
      /\ array \in Seq(ValueSet) /\ DOMAIN array = 1 .. Len(array) /\ Len(array) \in Nat
  BY DEF TableOK, Linked
<1>3. ASSUME NEW i \in DOMAIN s, s[i].key # NoKey
      PROVE  s[i].val # Nil /\ Holds(s[i].key, s[i].val)
  <2>1. /\ i \in 1 .. Len(array) - a
        /\ s[i].key = IF array[a + i] = Nil THEN NoKey ELSE a + i
        /\ s[i].val = array[a + i]
    BY <1>3 DEF MovedSlice
  <2>2. a + i \in DOMAIN array
    BY <1>2, <2>1
  <2>3. s[i].key = a + i /\ array[a + i] # Nil
    BY <1>3, <2>1
  <2>4. InArray(a + i)
    BY <1>2, <2>2, <2>3 DEF ArrayOK, InArray
  <2>. QED  BY <2>1, <2>3, <2>4 DEF Holds
<1>4. ASSUME NEW i \in DOMAIN t, t[i].key # NoKey
      PROVE  t[i].val # Nil /\ Holds(t[i].key, t[i].val)
  <2>. DEFINE old == node[Len(node) + 1 - i]
  <2>1. /\ i \in 1 .. Len(node)
        /\ t[i].key = (IF old.val = Nil THEN NoKey ELSE old.key) /\ t[i].val = old.val
    BY <1>4 DEF MovedNodes
  <2>2. Len(node) + 1 - i \in DOMAIN node
    BY <1>2, <2>1
  <2>3. old.val # Nil /\ t[i].key = old.key
    BY <1>4, <2>1
  <2>. QED  BY <2>1, <2>2, <2>3 DEF Holds
<1>5. ASSUME NEW i \in InUse, i > a
      PROVE  \E p \in DOMAIN s : s[p].key = i
  <2>1. i \in 1 .. Len(array) /\ array[i] # Nil
    BY <1>2 DEF InUse
  <2>2. i - a \in 1 .. Len(array) - a /\ a + (i - a) = i
    BY <1>2, <1>5, <2>1
  <2>3. i - a \in DOMAIN s /\ s[i - a].key = IF array[a + (i - a)] = Nil THEN NoKey ELSE a + (i - a)
    BY <2>2 DEF MovedSlice
  <2>. QED  BY <2>1, <2>2, <2>3
<1>6. ASSUME NEW n \in NodesInUse
      PROVE  \E p \in DOMAIN t : t[p].key = node[n].key
  <2>. DEFINE p == Len(node) + 1 - n
  <2>1. n \in 1 .. Len(node) /\ node[n].val # Nil
    BY <1>2 DEF NodesInUse
  <2>2. p \in 1 .. Len(node) /\ Len(node) + 1 - p = n
    BY <1>2, <2>1
  <2>. HIDE DEF p
  <2>3. p \in DOMAIN t /\ t[p].key = IF node[Len(node) + 1 - p].val = Nil THEN NoKey
                                     ELSE node[Len(node) + 1 - p].key
    BY <2>2 DEF MovedNodes
  <2>. QED  BY <2>1, <2>2, <2>3
<1>. HIDE DEF s, t
<1>7. /\ DOMAIN moved = 1 .. Len(s) + Len(t) /\ Len(s) \in Nat /\ Len(t) \in Nat
      /\ DOMAIN s = 1 .. Len(s) /\ DOMAIN t = 1 .. Len(t)
      /\ \A i \in 1 .. Len(s) : moved[i] = s[i]
      /\ \A i \in 1 .. Len(t) : moved[Len(s) + i] = t[i]
  BY <1>1, ConcatProperties
<1>8. ASSUME NEW i \in DOMAIN moved
      PROVE  \/ i \in DOMAIN s /\ moved[i] = s[i]
             \/ i - Len(s) \in DOMAIN t /\ moved[i] = t[i - Len(s)]
  <2>. HIDE DEF moved
  <2>1. CASE i <= Len(s)
    BY <1>7, <2>1
  <2>2. CASE i > Len(s)
    <3>1. i - Len(s) \in 1 .. Len(t) /\ Len(s) + (i - Len(s)) = i
      BY <1>7, <2>2
    <3>. QED  BY <1>7, <2>2, <3>1
  <2>. QED  BY <1>7, <2>1, <2>2
<1>. HIDE DEF moved
<1>9. \A i \in DOMAIN moved : moved[i].key # NoKey =>
         moved[i].val # Nil /\ Holds(moved[i].key, moved[i].val)
  BY <1>3, <1>4, <1>8
<1>10. \A p \in DOMAIN s : p \in DOMAIN moved /\ moved[p] = s[p]
  BY <1>7
<1>11. \A p \in DOMAIN t : Len(s) + p \in DOMAIN moved /\ moved[Len(s) + p] = t[p]
  BY <1>7
<1>12. \A i \in InUse : i > a => \E p \in DOMAIN moved : moved[p].key = i
  BY <1>5, <1>10
<1>13. \A n \in NodesInUse : \E p \in DOMAIN moved : moved[p].key = node[n].key
  BY <1>6, <1>11
<1>. QED  BY <1>9, <1>12, <1>13 DEF moved, s, t

(* A resize loses no entry: those it moves and those it leaves in the      *)
(* array part are all there were.                                          *)
LEMMA ResizeGet ==
  ASSUME TableOK, NodesOK, ArrayOK, NEW a \in Nat, NEW h, NEW rest \in Seq(Insertion),
         luaH_resize(a, h, rest), NEW j \in KeySet
  PROVE  LastValue(todo', j, luaH_get(j)') = LastValue(rest, j, luaH_get(j))
<1>. DEFINE moved == MovedSlice(a) \o MovedNodes
<1>1. moved \in Seq(Insertion) /\ NoTwice(moved, {NoKey})
  BY MovedKeys
<1>2. /\ \A i \in DOMAIN moved : moved[i].key # NoKey =>
           moved[i].val # Nil /\ Holds(moved[i].key, moved[i].val)
      /\ \A i \in InUse : i > a => \E p \in DOMAIN moved : moved[p].key = i
      /\ \A n \in NodesInUse : \E p \in DOMAIN moved : moved[p].key = node[n].key
  BY MovedEntries
<1>3. todo' = moved \o rest
  BY DEF luaH_resize
<1>. HIDE DEF moved
<1>4. LastValue(todo', j, luaH_get(j)') = LastValue(rest, j, LastValue(moved, j, luaH_get(j)'))
  BY <1>1, <1>3, LastConcat
<1>5. j # NoKey
  BY KeysAssumption
<1>6. CASE \E i \in DOMAIN moved : moved[i].key = j
  <2>1. PICK i \in DOMAIN moved : moved[i].key = j
    BY <1>6
  <2>2. LastValue(moved, moved[i].key, luaH_get(j)') = moved[i].val
    BY <1>1, <1>5, <2>1, LastOnly
  <2>3. moved[i].val # Nil /\ Holds(j, moved[i].val)
    BY <1>2, <1>5, <2>1
  <2>4. luaH_get(j) = moved[i].val
    BY <2>3, GetHolds
  <2>. QED  BY <1>4, <2>1, <2>2, <2>4
<1>7. CASE \A i \in DOMAIN moved : moved[i].key # j
  <2>1. LastValue(moved, j, luaH_get(j)') = luaH_get(j)'
    BY <1>7, LastNone
  <2>2. PICK size \in NodeSizes \union {0} : node' = [n \in 1 .. size |-> FreeNode]
    BY DEF luaH_resize, RoundedUp
  <2>3. Slots(j)' = {}
    BY <1>5, <2>2, NodeFields DEF Slots
  <2>4. array' = [i \in 1 .. a |-> IF i <= Len(array) THEN array[i] ELSE Nil]
    BY DEF luaH_resize
  <2>5. Len(array') = a
    BY <2>4
  <2>6. /\ array \in Seq(ValueSet) /\ DOMAIN array = 1 .. Len(array) /\ Len(array) \in Nat
        /\ Integers_ \subseteq Nat \ {0}
    BY SizesAssumption DEF TableOK, Integers_
  <2>7. luaH_get(j)' = IF InArray(j)' THEN array'[j] ELSE Nil
    BY <2>3 DEF luaH_get
  <2>8. InArray(j)' <=> j \in Integers_ /\ j <= a
    BY <2>5 DEF InArray
  <2>9. CASE luaH_get(j) # Nil
    <3>1. Holds(j, luaH_get(j))
      BY <2>9, GetHolds
    <3>2. ~\E n \in DOMAIN node : node[n].key = j /\ node[n].val = luaH_get(j)
      BY <1>2, <1>7, <2>9 DEF NodesInUse
    <3>3. InArray(j) /\ array[j] = luaH_get(j)
      BY <3>1, <3>2 DEF Holds
    <3>4. j \in DOMAIN array /\ j \in Integers_
      BY <2>6, <3>3 DEF InArray
    <3>5. j <= a
      BY <1>2, <1>7, <2>6, <2>9, <3>3, <3>4 DEF InUse
    <3>6. array'[j] = array[j]
      BY <2>4, <2>6, <3>4, <3>5
    <3>. QED  BY <1>4, <2>1, <2>7, <2>8, <3>3, <3>4, <3>5, <3>6
  <2>10. CASE luaH_get(j) = Nil
    <3>1. ASSUME InArray(j)' PROVE array'[j] = Nil
      <4>1. j \in 1 .. a
        <5>1. j \in Integers_ /\ j <= a
          BY <2>8, <3>1
        <5>2. j \in Nat \ {0}
          BY <2>6, <5>1
        <5>. QED  BY <5>1, <5>2
      <4>2. CASE j <= Len(array)
        <5>1. InArray(j)
          BY <2>8, <3>1, <4>2 DEF InArray
        <5>2. array[j] = Nil
          BY <2>10, <5>1 DEF luaH_get
        <5>. QED  BY <2>4, <4>1, <4>2, <5>2
      <4>3. CASE ~(j <= Len(array))
        BY <2>4, <4>1, <4>3
      <4>. QED  BY <4>2, <4>3
    <3>. QED  BY <1>4, <2>1, <2>7, <2>10, <3>1
  <2>. QED  BY <2>9, <2>10
<1>. QED  BY <1>6, <1>7

LEMMA ContentsLast ==
  /\ Contents = [k \in KeySet |-> LastValue(todo, k, luaH_get(k))]
  /\ Contents' = [k \in KeySet |-> LastValue(todo', k, luaH_get(k)')]
BY DEF Contents, LastValue, Pending

(* luaH_set puts the value at the key, and before what is left to do.      *)
LEMMA SetContents ==
  ASSUME TableOK, FreePositions, NodesOK, ArrayOK, NEW k \in KeySet, NEW v \in ValueSet,
         NEW rest \in Seq(Insertion), luaH_set(k, v, rest)
  PROVE  Contents' = [j \in KeySet |-> LastValue(rest, j, IF j = k THEN v ELSE luaH_get(j))]
<1>. SUFFICES ASSUME NEW j \in KeySet
              PROVE  LastValue(todo', j, luaH_get(j)')
                       = LastValue(rest, j, IF j = k THEN v ELSE luaH_get(j))
  BY ContentsLast
<1>1. CASE /\ (Present(k) /\ Store(k, v)) \/ (~Present(k) /\ luaH_newkey(k, v))
           /\ todo' = rest
  <2>1. luaH_get(j)' = IF j = k THEN v ELSE luaH_get(j)
    BY <1>1, SetGet
  <2>. QED  BY <1>1, <2>1
<1>2. CASE rehash(k, <<[key |-> k, val |-> v]>> \o rest)
  <2>. DEFINE new == <<[key |-> k, val |-> v]>>
  <2>1. PICK a \in PowersOf2 \union {0} : \E h : luaH_resize(a, h, new \o rest)
    BY <1>2 DEF rehash
  <2>2. new \in Seq(Insertion) /\ LastValue(new, j, luaH_get(j)) = IF j = k THEN v ELSE luaH_get(j)
    BY LastSingle
  <2>. HIDE DEF new
  <2>3. a \in Nat
    BY SizesAssumption
  <2>4. new \o rest \in Seq(Insertion)
    BY <2>2, ConcatProperties
  <2>5. LastValue(todo', j, luaH_get(j)') = LastValue(new \o rest, j, luaH_get(j))
    BY <2>1, <2>3, <2>4, ResizeGet
  <2>6. LastValue(new \o rest, j, luaH_get(j)) = LastValue(rest, j, LastValue(new, j, luaH_get(j)))
    BY <2>2, LastConcat
  <2>. QED  BY <2>2, <2>5, <2>6
<1>. QED  BY <1>1, <1>2 DEF luaH_set

-----------------------------------------------------------------------------
(* What each operation does to the map.                                    *)

LEMMA ReadyContents ==
  ASSUME Ready, NEW k \in KeySet
  PROVE  Contents[k] = luaH_get(k)
<1>1. \A i \in DOMAIN todo : todo[i].key # k
  BY DEF Ready
<1>2. LastValue(todo, k, luaH_get(k)) = luaH_get(k)
  BY <1>1, LastNone
<1>. QED  BY <1>2, ContentsLast

LEMMA AssignContents ==
  ASSUME TableOK, FreePositions, NodesOK, ArrayOK, Ready, NEW k \in KeySet, NEW v \in ValueSet,
         luaH_set(k, v, <<>>)
  PROVE  Contents' = [j \in KeySet |-> IF j = k THEN v ELSE Contents[j]]
<1>1. <<>> \in Seq(Insertion)
  OBVIOUS
<1>2. Contents' = [j \in KeySet |-> LastValue(<<>>, j, IF j = k THEN v ELSE luaH_get(j))]
  BY <1>1, SetContents
<1>3. ASSUME NEW j \in KeySet, NEW x PROVE LastValue(<<>>, j, x) = x
  BY LastNone
<1>. QED  BY <1>2, <1>3, ReadyContents

LEMMA ReinsertContents ==
  ASSUME TableOK, FreePositions, NodesOK, ArrayOK, todo \in Seq(Insertion), Reinsert
  PROVE  Contents' = Contents
<1>. DEFINE e == Head(todo)
            rest == Tail(todo)
<1>1. /\ e \in Insertion /\ rest \in Seq(Insertion) /\ todo = <<e>> \o rest /\ <<e>> \in Seq(Insertion)
  BY HeadTailProperties, ConcatProperties DEF Reinsert
<1>2. e = [key |-> e.key, val |-> e.val]
  BY <1>1 DEF Insertion
<1>3. CASE e.key # NoKey /\ luaH_set(e.key, e.val, rest)
  <2>1. e.key \in KeySet /\ e.val \in ValueSet
    BY <1>1, <1>3 DEF Insertion
  <2>2. Contents' = [j \in KeySet |-> LastValue(rest, j, IF j = e.key THEN e.val ELSE luaH_get(j))]
    <3>. HIDE DEF rest, e
    <3>. QED  BY <1>1, <1>3, <2>1, SetContents
  <2>3. ASSUME NEW j \in KeySet
        PROVE  LastValue(todo, j, luaH_get(j))
                 = LastValue(rest, j, IF j = e.key THEN e.val ELSE luaH_get(j))
    <3>. HIDE DEF rest, e
    <3>1. LastValue(<<e>>, j, luaH_get(j)) = IF j = e.key THEN e.val ELSE luaH_get(j)
      <4>1. LastValue(<<[key |-> e.key, val |-> e.val]>>, j, luaH_get(j))
              = IF j = e.key THEN e.val ELSE luaH_get(j)
        BY <2>1, LastSingle
      <4>. QED  BY <1>2, <4>1
    <3>2. LastValue(<<e>> \o rest, j, luaH_get(j)) = LastValue(rest, j, LastValue(<<e>>, j, luaH_get(j)))
      BY <1>1, LastPrepend
    <3>. QED  BY <1>1, <3>1, <3>2
  <2>. HIDE DEF rest, e
  <2>. QED  BY <2>2, <2>3, ContentsLast
<1>4. CASE e.key = NoKey /\ todo' = rest /\ UNCHANGED <<array, node>>
  <2>1. \A j \in KeySet : luaH_get(j)' = luaH_get(j)
    BY <1>4 DEF luaH_get, Slots, InArray, Chain, Follow, Links, mainposition
  <2>2. ASSUME NEW j \in KeySet
        PROVE  LastValue(todo, j, luaH_get(j)) = LastValue(rest, j, luaH_get(j))
    <3>. HIDE DEF rest, e
    <3>1. j # e.key
      BY <1>4, KeysAssumption
    <3>2. DOMAIN <<e>> = {1} /\ <<e>>[1] = e
      OBVIOUS
    <3>3. LastValue(<<e>>, j, luaH_get(j)) = luaH_get(j)
      BY <3>1, <3>2, LastNone
    <3>4. LastValue(<<e>> \o rest, j, luaH_get(j)) = LastValue(rest, j, LastValue(<<e>>, j, luaH_get(j)))
      BY <1>1, LastPrepend
    <3>. QED  BY <1>1, <3>3, <3>4
  <2>. HIDE DEF rest, e
  <2>. QED  BY <1>4, <2>1, <2>2, ContentsLast
<1>. QED  BY <1>3, <1>4 DEF Reinsert

LEMMA SetListContents ==
  ASSUME TableOK, NodesOK, ArrayOK, NEW f \in Lists, SetList(f)
  PROVE  Contents' = [k \in KeySet |-> IF k \in DOMAIN f THEN f[k] ELSE Contents[k]]
<1>. DEFINE n == Len(f)
            list == [i \in 1 .. n |-> [key |-> n + 1 - i, val |-> f[n + 1 - i]]]
<1>1. PICK l \in 1 .. MaxList : f \in [1 .. l -> ValueSet]
  BY DEF Lists
<1>2. l \in Nat /\ n = l /\ l <= MaxList /\ DOMAIN f = 1 .. n
  BY <1>1, SizesAssumption
<1>3. \A i \in 1 .. n : n + 1 - i \in KeySet /\ n + 1 - i \in 1 .. n
  <2>1. \A i \in 1 .. l : l + 1 - i \in 1 .. MaxList /\ l + 1 - i \in 1 .. l
    BY <1>2, SizesAssumption
  <2>. QED  BY <1>2, <2>1, SizesAssumption
<1>4. \A i \in 1 .. n : [key |-> n + 1 - i, val |-> f[n + 1 - i]] \in Insertion
  BY <1>1, <1>2, <1>3 DEF Insertion
<1>. HIDE DEF n
<1>5. /\ list \in Seq(Insertion) /\ DOMAIN list = 1 .. n
      /\ \A i \in 1 .. n : list[i].key = n + 1 - i /\ list[i].val = f[n + 1 - i]
  BY <1>2, <1>4
<1>. HIDE DEF list
<1>6. ASSUME NEW k \in KeySet, NEW x
      PROVE  LastValue(list, k, x) = IF k \in DOMAIN f THEN f[k] ELSE x
  <2>1. CASE k \in DOMAIN f
    <3>. DEFINE i == n + 1 - k
    <3>1. i \in 1 .. n /\ n + 1 - i = k /\ k \in 1 .. n
      BY <1>2, <2>1
    <3>. HIDE DEF i
    <3>2. list[i].key = k /\ list[i].val = f[k]
      BY <1>5, <3>1
    <3>3. \A j \in DOMAIN list : list[j].key = list[i].key => j <= i
      BY <1>2, <1>5, <3>1
    <3>4. LastValue(list, list[i].key, x) = list[i].val
      <4>1. i \in DOMAIN list /\ list \in Seq(Insertion)
        BY <1>5, <3>1
      <4>. QED  BY <3>3, <4>1, LastIs, Zenon
    <3>. QED  BY <2>1, <3>2, <3>4
  <2>2. CASE k \notin DOMAIN f
    <3>1. \A i \in DOMAIN list : list[i].key # k
      BY <1>2, <1>3, <1>5, <2>2
    <3>. QED  BY <2>2, <3>1, LastNone
  <2>. QED  BY <2>1, <2>2
<1>7. ASSUME NEW k \in KeySet
      PROVE  LastValue(todo', k, luaH_get(k)') = LastValue(list, k, luaH_get(k))
  <2>1. CASE luaH_resize(n, Len(node), list)
    BY <1>2, <1>5, <2>1, ResizeGet
  <2>2. CASE todo' = list /\ UNCHANGED <<array, node, lastfree>>
    <3>1. luaH_get(k)' = luaH_get(k)
      BY <2>2 DEF luaH_get, Slots, InArray, Chain, Follow, Links, mainposition
    <3>. QED  BY <2>2, <3>1
  <2>. QED  BY <2>1, <2>2 DEF SetList, n, list
<1>8. \A k \in KeySet : Contents[k] = luaH_get(k)
  BY ReadyContents DEF SetList
<1>. QED  BY <1>6, <1>7, <1>8, ContentsLast

(* Steps that leave every entry in its place.                              *)
LEMMA SameContents ==
  ASSUME TableOK, NodesOK, ArrayOK, TableOK', NodesOK', ArrayOK', todo' = todo,
         array' = array, DOMAIN node' = DOMAIN node,
         \A n \in DOMAIN node : node'[n].key = node[n].key /\ node'[n].val = node[n].val
  PROVE  Contents' = Contents
<1>1. ASSUME NEW k \in KeySet PROVE luaH_get(k)' = luaH_get(k)
  <2>1. \A x : Holds(k, x)' <=> Holds(k, x)
    BY DEF Holds, InArray
  <2>2. \A x : x # Nil => ((luaH_get(k) = x <=> Holds(k, x)) /\ (luaH_get(k)' = x <=> Holds(k, x)'))
    BY GetAgreesNow, GetAgreesNext DEF GetAgrees
  <2>3. \A x : x # Nil => (luaH_get(k)' = x <=> luaH_get(k) = x)
    BY <2>1, <2>2
  <2>. HIDE DEF luaH_get
  <2>. QED  BY <2>3
<1>. QED  BY <1>1, ContentsLast

LEMMA RemoveContents ==
  ASSUME TableOK, NodesOK, ArrayOK, NEW n \in DOMAIN node, removeentry(n), TableOK'
  PROVE  Contents' = Contents
<1>1. node \in Seq(Node) /\ node' \in Seq(Node)
  BY DEF TableOK, Linked
<1>2. NodesOK' /\ ArrayOK'
  BY <1>1, RemoveNodes
<1>. DEFINE new == [node[n] EXCEPT !.dead = TRUE]
<1>3. node' = [m \in DOMAIN node |-> IF m = n THEN new ELSE node[m]]
  BY <1>1 DEF removeentry
<1>4. node[n] \in Node
  BY <1>1
<1>5. new.key = node[n].key /\ new.val = node[n].val
  BY <1>4 DEF Node
<1>. HIDE DEF new
<1>6. \A m \in DOMAIN node : node'[m].key = node[m].key /\ node'[m].val = node[m].val
  BY <1>3, <1>5
<1>. QED  BY <1>2, <1>3, <1>6, SameContents DEF removeentry

LEMMA ClearContents ==
  ASSUME TableOK, FreePositions, NodesOK, ArrayOK, NEW k \in KeySet, ClearEntry(k)
  PROVE  Contents' = [j \in KeySet |-> IF j = k THEN Nil ELSE Contents[j]]
<1>1. Nil \in ValueSet /\ Store(k, Nil) /\ todo' = todo /\ todo = <<>> /\ Present(k)
  <2>1. luaH_get(k) # Nil => Present(k)
    BY DEF luaH_get, Present
  <2>. QED  BY <2>1, ValuesAssumption DEF ClearEntry, Ready
<1>2. luaH_set(k, Nil, <<>>)
  BY <1>1 DEF luaH_set
<1>. QED  BY <1>1, <1>2, AssignContents DEF Ready

(* An absence that is cached is an absence of the map, whatever is still   *)
(* to be inserted.                                                         *)
CacheOK == flags \subseteq Events /\ \A e \in flags : Contents[e] = Nil

LEMMA EventsAreKeys == Events \subseteq KeySet /\ Events \cap Integers_ = {}
BY KeysAssumption

LEMMA NextCache == TypeOK /\ Inserting /\ CacheOK /\ [Next]_vars => CacheOK'
<1>. SUFFICES ASSUME TypeOK, Inserting, CacheOK, [Next]_vars PROVE CacheOK'
  OBVIOUS
<1>1. TableOK /\ todo \in Seq(Insertion) /\ FreePositions /\ NodesOK /\ ArrayOK
  BY TypeParts DEF Inserting
<1>2. TableOK' /\ flags' \subseteq Events
  BY NextType, TypeParts
<1>3. ASSUME Contents' = Contents, flags' = flags PROVE CacheOK'
  BY <1>3 DEF CacheOK
<1>4. ASSUME NEW k \in KeySet, NEW v \in ValueSet, Ready, luaH_set(k, v, <<>>),
             flags' = {} \/ (flags' = flags /\ k \notin flags)
      PROVE  CacheOK'
  <2>1. Contents' = [j \in KeySet |-> IF j = k THEN v ELSE Contents[j]]
    BY <1>1, <1>4, AssignContents
  <2>. QED  BY <1>2, <1>4, <2>1, EventsAreKeys DEF CacheOK
<1>5. CASE Reinsert
  BY <1>1, <1>3, <1>5, ReinsertContents DEF Reinsert
<1>6. ASSUME NEW key \in KeySet \union Floats, NEW v \in ValueSet, SetTable(key, v)
      PROVE  CacheOK'
  <2>. DEFINE k == Normal(key)
  <2>1. k \in KeySet /\ Ready /\ luaH_set(k, v, <<>>)
        /\ flags' = IF luaH_get(k) = Nil THEN {} ELSE flags
    BY <1>6, NormalIsKey DEF SetTable
  <2>. HIDE DEF k
  <2>2. luaH_get(k) # Nil => k \notin flags
    BY <2>1, ReadyContents DEF CacheOK
  <2>. QED  BY <1>4, <2>1, <2>2
<1>7. ASSUME NEW key \in KeySet \union Floats, NEW v \in ValueSet, lua_rawset(key, v)
      PROVE  CacheOK'
  <2>1. Normal(key) \in KeySet /\ Ready /\ luaH_set(Normal(key), v, <<>>) /\ flags' = {}
    BY <1>7, NormalIsKey DEF lua_rawset
  <2>. QED  BY <1>4, <2>1
<1>8. ASSUME NEW i \in Integers_, NEW v \in ValueSet, lua_rawseti(i, v)
      PROVE  CacheOK'
  <2>1. i \in KeySet /\ Ready /\ luaH_set(i, v, <<>>) /\ flags' = flags
    BY <1>8, IntegersAreKeys DEF lua_rawseti
  <2>2. i \notin flags
    BY EventsAreKeys DEF CacheOK
  <2>. QED  BY <1>4, <2>1, <2>2
<1>9. ASSUME NEW f \in Lists, SetList(f)
      PROVE  CacheOK'
  <2>1. Contents' = [k \in KeySet |-> IF k \in DOMAIN f THEN f[k] ELSE Contents[k]]
    BY <1>1, <1>9, SetListContents
  <2>2. \A e \in Events : e \in KeySet /\ e \notin DOMAIN f
    <3>1. PICK l \in 1 .. MaxList : f \in [1 .. l -> ValueSet]
      BY DEF Lists
    <3>2. DOMAIN f \subseteq Integers_
      BY <3>1, SizesAssumption DEF Integers_
    <3>. QED  BY <3>2, EventsAreKeys
  <2>3. flags' = flags
    BY <1>9 DEF SetList
  <2>. QED  BY <2>1, <2>2, <2>3 DEF CacheOK
<1>10. ASSUME NEW e \in Events, luaT_gettm(e)
       PROVE  CacheOK'
  <2>1. Ready /\ luaH_get(e) = Nil /\ flags' = flags \union {e} /\ UNCHANGED <<array, node, todo>>
    BY <1>10 DEF luaT_gettm, tvars
  <2>2. Contents[e] = Nil
    BY <2>1, ReadyContents, EventsAreKeys
  <2>3. Contents' = Contents
    BY <2>1 DEF Contents, Pending, luaH_get, Slots, InArray, Chain, Follow, Links, mainposition
  <2>. QED  BY <1>2, <2>1, <2>2, <2>3 DEF CacheOK
<1>11. ASSUME NEW n \in DOMAIN node, removeentry(n)
       PROVE  CacheOK'
  <2>1. Contents' = Contents
    BY <1>1, <1>2, <1>11, RemoveContents
  <2>. QED  BY <1>3, <1>11, <2>1 DEF removeentry
<1>12. ASSUME NEW k \in WeakEntries, ClearEntry(k)
       PROVE  CacheOK'
  <2>1. k \in KeySet
    BY KeysAssumption
  <2>2. Contents' = [j \in KeySet |-> IF j = k THEN Nil ELSE Contents[j]]
    BY <1>1, <1>12, <2>1, ClearContents
  <2>3. flags' = flags
    BY <1>12 DEF ClearEntry
  <2>. QED  BY <2>2, <2>3, EventsAreKeys DEF CacheOK
<1>13. ASSUME FirstNext \/ luaH_next \/ InvalidKey \/ (\E k \in KeySet : SetFails(k)) \/ UNCHANGED vars
       PROVE  CacheOK'
  <2>1. UNCHANGED <<array, node, todo, flags>>
    BY <1>13 DEF FirstNext, luaH_next, InvalidKey, SetFails, tvars, vars
  <2>2. Contents' = Contents
    BY <2>1 DEF Contents, Pending, luaH_get, Slots, InArray, Chain, Follow, Links, mainposition
  <2>. QED  BY <1>3, <2>1, <2>2
<1>14. RawKeys \subseteq KeySet \union Floats
  BY KeysAssumption
<1>. QED
  BY <1>5, <1>6, <1>7, <1>8, <1>9, <1>10, <1>11, <1>12, <1>13, <1>14 DEF Next

(* A table is empty at first.                                              *)
LEMMA EmptyAtFirst ==
  ASSUME Init
  PROVE  \A k \in KeySet : luaH_get(k) = Nil
<1>1. PICK size \in NodeSizes \union {0} : node = [n \in 1 .. size |-> FreeNode]
  BY DEF Init, RoundedUp
<1>2. PICK a \in ArraySizes : array = [i \in 1 .. a |-> Nil]
  BY DEF Init
<1>3. a \in Nat /\ Integers_ \subseteq Nat \ {0}
  BY SizesAssumption DEF Integers_
<1>4. ASSUME NEW k \in KeySet PROVE luaH_get(k) = Nil
  <2>1. k # NoKey
    BY KeysAssumption
  <2>2. Slots(k) = {}
    BY <1>1, <2>1, NodeFields DEF Slots
  <2>3. ASSUME InArray(k) PROVE array[k] = Nil
    <3>1. Len(array) = a
      BY <1>2, <1>3
    <3>2. k \in 1 .. a
      <4>1. k \in Integers_ /\ k <= a
        BY <2>3, <3>1 DEF InArray
      <4>. QED  BY <1>3, <4>1
    <3>. QED  BY <1>2, <3>2
  <2>. QED  BY <2>2, <2>3 DEF luaH_get
<1>. QED  BY <1>4

(* A flag of the cache (ltm.c:82-91) never hides a metamethod: whichever   *)
(* operation put it there, for all keys, sizes and orders of insertions.   *)
THEOREM CacheAlwaysSound == Spec => []TMCacheSound
<1>1. Init => CacheOK
  <2>. SUFFICES ASSUME Init PROVE CacheOK
    OBVIOUS
  <2>1. flags = Events /\ Ready
    BY DEF Init, Ready
  <2>2. \A e \in Events : Contents[e] = Nil
    BY <2>1, EmptyAtFirst, ReadyContents, EventsAreKeys
  <2>. QED  BY <2>1, <2>2 DEF CacheOK
<1>2. TypeOK /\ Inserting /\ CacheOK => TMCacheSound
  BY ReadyContents, EventsAreKeys DEF CacheOK, TMCacheSound
<1>. QED  BY <1>1, <1>2, NextCache, AlwaysInserting, PTL DEF Spec

-----------------------------------------------------------------------------
(* Traversals.                                                             *)

Covered == iter.phase = "on" /\ iter.legal

(* A traversal stands at a place, and has seen the entries up to it.       *)
SeenUpTo(seen, p) ==
  \A j \in 1 .. LastIndex : ValueAt(j) # Nil => (KeyAt(j) \in seen <=> j <= p)

TravOK ==
  Covered => Ready /\ \E p \in Nat : findindex(iter.key) = {p} /\ SeenUpTo(iter.seen, p)

(* An entry is found at its place and nowhere else: in its chain the dead  *)
(* nodes of the same key come after it.                                    *)
LEMMA EntryAt ==
  ASSUME TableOK, FreePositions, NodesOK, ArrayOK, NEW j \in 1 .. LastIndex, ValueAt(j) # Nil
  PROVE  /\ KeyAt(j) \in KeySet /\ luaH_get(KeyAt(j)) = ValueAt(j)
         /\ findindex(KeyAt(j)) = {j}
<1>1. /\ node \in Seq(Node) /\ DOMAIN node = 1 .. Len(node) /\ Len(node) \in Nat
      /\ array \in Seq(ValueSet) /\ DOMAIN array = 1 .. Len(array) /\ Len(array) \in Nat
  BY DEF TableOK, Linked
<1>2. CASE j <= Len(array)
  <2>1. KeyAt(j) = j /\ ValueAt(j) = array[j] /\ j \in DOMAIN array
    BY <1>1, <1>2 DEF KeyAt, ValueAt, LastIndex
  <2>2. j \in Integers_ /\ j \in KeySet /\ j # NoKey
    BY <2>1, KeysAssumption, IntegersAreKeys DEF ArrayOK
  <2>3. InArray(j)
    BY <1>2, <2>2 DEF InArray
  <2>. QED  BY <2>1, <2>2, <2>3 DEF findindex, luaH_get
<1>3. CASE ~(j <= Len(array))
  <2>. DEFINE n == j - Len(array)
              k == node[n].key
  <2>1. /\ KeyAt(j) = k /\ ValueAt(j) = node[n].val /\ n \in DOMAIN node
        /\ j = Len(array) + n
    BY <1>1, <1>3 DEF KeyAt, ValueAt, LastIndex
  <2>2. node[n] \in Node
    BY <1>1, <2>1
  <2>3. k \in KeySet /\ k # NoKey /\ ~InArray(k) /\ ~node[n].dead
    BY <2>1, <2>2 DEF Node, FreePositions, ArrayOK, NodesOK
  <2>4. luaH_get(k) = node[n].val
    BY <2>1, <2>3, GetHolds DEF Holds
  <2>. HIDE DEF n
  <2>5. Matching(k) = {m \in DOMAIN node : node[m].key = k}
    BY <1>1, <2>3, KeyInChain DEF Matching
  <2>6. ChainsOK(KeyOf, Dead, Links, MainOf)
    BY <1>1, <2>1 DEF NodesOK
  <2>7. /\ LinkFn(Links) /\ Ends(Links) /\ OneLive(KeyOf, Dead, Links) /\ DOMAIN Links = DOMAIN node
    BY <2>6 DEF ChainsOK, LinksOK, Links
  <2>8. n \in Matching(k)
    BY <2>1, <2>5
  <2>9. ASSUME NEW m \in Matching(k) PROVE m \in Chain(n)
    <3>1. CASE m = n
      BY <2>1, <2>7, <3>1, FollowStart DEF Chain
    <3>2. CASE m # n
      <4>1. m \in DOMAIN node /\ KeyOf[m] = k /\ KeyOf[n] = k
        BY <2>1, <2>5 DEF KeyOf
      <4>2. n \notin Dead
        BY <2>3 DEF Dead
      <4>3. m \in Dead /\ m \in Follow(Links, n)
        BY <2>1, <2>3, <2>7, <3>2, <4>1, <4>2 DEF OneLive
      <4>. QED  BY <4>3 DEF Chain
    <3>. QED  BY <3>1, <3>2
  <2>10. ASSUME NEW m \in Matching(k), Matching(k) \subseteq Chain(m) PROVE m = n
    <3>1. m \in DOMAIN Links /\ n \in DOMAIN Links
      BY <2>1, <2>5, <2>7
    <3>2. m \in Follow(Links, n) /\ n \in Follow(Links, m)
      BY <2>8, <2>9, <2>10 DEF Chain
    <3>. QED  BY <2>7, <3>1, <3>2, FollowOrder
  <2>11. {m \in Matching(k) : Matching(k) \subseteq Chain(m)} = {n}
    BY <2>8, <2>9, <2>10
  <2>12. findindex(k) = {Len(array) + m : m \in {n}}
    BY <2>3, <2>11 DEF findindex
  <2>13. findindex(k) = {j}
    BY <2>1, <2>12
  <2>. QED  BY <2>1, <2>3, <2>4, <2>13
<1>. QED  BY <1>2, <1>3

LEMMA EntryOf ==
  ASSUME TableOK, NodesOK, ArrayOK, NEW k \in KeySet, luaH_get(k) # Nil
  PROVE  \E j \in 1 .. LastIndex : KeyAt(j) = k /\ ValueAt(j) # Nil
<1>1. /\ DOMAIN node = 1 .. Len(node) /\ Len(node) \in Nat
      /\ DOMAIN array = 1 .. Len(array) /\ Len(array) \in Nat
  BY DEF TableOK, Linked
<1>2. Holds(k, luaH_get(k))
  BY GetHolds
<1>3. CASE InArray(k) /\ array[k] = luaH_get(k)
  <2>1. k \in 1 .. Len(array)
    BY <1>1, <1>3, SizesAssumption DEF InArray, Integers_
  <2>2. k \in 1 .. LastIndex /\ KeyAt(k) = k /\ ValueAt(k) = array[k]
    BY <1>1, <2>1 DEF LastIndex, KeyAt, ValueAt
  <2>. QED  BY <1>3, <2>2
<1>4. CASE \E n \in DOMAIN node : node[n].key = k /\ node[n].val = luaH_get(k)
  <2>1. PICK n \in DOMAIN node : node[n].key = k /\ node[n].val = luaH_get(k)
    BY <1>4
  <2>. DEFINE j == Len(array) + n
  <2>2. j \in 1 .. LastIndex /\ ~(j <= Len(array)) /\ j - Len(array) = n
    BY <1>1, <2>1 DEF LastIndex
  <2>. HIDE DEF j
  <2>3. KeyAt(j) = node[n].key /\ ValueAt(j) = node[n].val
    BY <2>2 DEF KeyAt, ValueAt
  <2>. QED  BY <2>1, <2>2, <2>3
<1>. QED  BY <1>2, <1>3, <1>4 DEF Holds

(* Steps that leave the keys where they are do not move a traversal.       *)
SameLayout ==
  /\ Len(array') = Len(array) /\ Len(node') = Len(node) /\ DOMAIN node' = DOMAIN node
  /\ \A n \in DOMAIN node : node'[n].key = node[n].key /\ node'[n].next = node[n].next
  /\ \A j \in 1 .. LastIndex : ValueAt(j)' # Nil => ValueAt(j) # Nil

LEMMA Steady ==
  ASSUME TableOK, TravOK, SameLayout, iter' = iter, Covered => todo' = <<>>
  PROVE  TravOK'
<1>1. /\ DOMAIN node = 1 .. Len(node) /\ Len(node) \in Nat /\ Len(array) \in Nat
  BY DEF TableOK, Linked
<1>2. LastIndex' = LastIndex /\ Links' = Links /\ \A k : InArray(k)' <=> InArray(k)
  BY DEF SameLayout, LastIndex, Links, InArray
<1>3. \A k : mainposition(k)' = mainposition(k)
  BY DEF SameLayout, mainposition
<1>4. \A s : Chain(s)' = Chain(s)
  BY <1>2 DEF Chain
<1>5. \A k : Matching(k)' = Matching(k)
  BY <1>3, <1>4 DEF SameLayout, Matching
<1>6. \A k : findindex(k)' = findindex(k)
  BY <1>2, <1>4, <1>5 DEF findindex, SameLayout
<1>7. ASSUME NEW j \in 1 .. LastIndex
      PROVE  KeyAt(j)' = KeyAt(j) /\ (ValueAt(j)' # Nil => ValueAt(j) # Nil)
  <2>1. KeyAt(j)' = KeyAt(j)
    <3>1. CASE j <= Len(array)
      BY <3>1 DEF SameLayout, KeyAt
    <3>2. CASE ~(j <= Len(array))
      <4>1. j - Len(array) \in DOMAIN node
        BY <1>1, <3>2 DEF LastIndex
      <4>. QED  BY <3>2, <4>1 DEF SameLayout, KeyAt
    <3>. QED  BY <3>1, <3>2
  <2>. QED  BY <2>1 DEF SameLayout
<1>8. SUFFICES ASSUME Covered
               PROVE  Ready' /\ \E p \in Nat : findindex(iter.key)' = {p} /\ SeenUpTo(iter.seen, p)'
  BY DEF TravOK, Covered
<1>9. PICK p \in Nat : findindex(iter.key) = {p} /\ SeenUpTo(iter.seen, p)
  BY <1>8 DEF TravOK
<1>10. SeenUpTo(iter.seen, p)'
  BY <1>2, <1>7, <1>9 DEF SeenUpTo
<1>11. findindex(iter.key)' = {p}
  BY <1>6, <1>9
<1>. QED  BY <1>8, <1>9, <1>10, <1>11 DEF Ready

(* A value stored where there is one.                                      *)
LEMMA StoreLayout ==
  ASSUME TableOK, NodesOK, ArrayOK, NEW k \in KeySet, NEW v \in ValueSet,
         luaH_get(k) # Nil, Store(k, v)
  PROVE  SameLayout
<1>1. /\ node \in Seq(Node) /\ DOMAIN node = 1 .. Len(node) /\ Len(node) \in Nat
      /\ array \in Seq(ValueSet) /\ DOMAIN array = 1 .. Len(array) /\ Len(array) \in Nat
  BY DEF TableOK, Linked
<1>2. CASE InArray(k)
  <2>1. array' = [array EXCEPT ![k] = v] /\ node' = node
    BY <1>2 DEF Store
  <2>2. Len(array') = Len(array) /\ \A i \in DOMAIN array : i # k => array'[i] = array[i]
    BY <1>1, <2>1
  <2>3. array[k] # Nil
    BY <1>2 DEF luaH_get
  <2>4. \A j \in 1 .. LastIndex : ValueAt(j)' # Nil => ValueAt(j) # Nil
    BY <1>1, <2>1, <2>2, <2>3 DEF ValueAt, LastIndex
  <2>. QED  BY <2>1, <2>2, <2>4 DEF SameLayout
<1>3. CASE ~InArray(k)
  <2>1. array' = array /\ \E n \in Slots(k) : node' = [node EXCEPT ![n].val = v]
    BY <1>3 DEF Store
  <2>2. PICK n \in Slots(k) : node' = [node EXCEPT ![n].val = v]
    BY <2>1
  <2>3. n \in DOMAIN node
    BY DEF Slots
  <2>4. node[n].val # Nil
    <3>1. (CHOOSE m \in Slots(k) : TRUE) = n
      BY <1>1, OneSlot
    <3>. QED  BY <1>3, <2>2, <3>1 DEF luaH_get
  <2>. DEFINE new == [node[n] EXCEPT !.val = v]
  <2>5. node[n] \in Node
    BY <1>1, <2>3
  <2>6. new.key = node[n].key /\ new.next = node[n].next
    BY <2>5 DEF Node
  <2>7. node' = [m \in DOMAIN node |-> IF m = n THEN new ELSE node[m]]
    BY <1>1, <2>2, <2>3
  <2>8. Len(node') = Len(node)
    BY <1>1, <2>2
  <2>. HIDE DEF new
  <2>9. \A m \in DOMAIN node : /\ node'[m].key = node[m].key /\ node'[m].next = node[m].next
                               /\ node'[m].val # Nil => node[m].val # Nil
    BY <2>4, <2>6, <2>7
  <2>10. ASSUME NEW j \in 1 .. LastIndex, ValueAt(j)' # Nil PROVE ValueAt(j) # Nil
    <3>1. CASE j <= Len(array)
      BY <2>1, <2>10, <3>1 DEF ValueAt
    <3>2. CASE ~(j <= Len(array))
      <4>1. j - Len(array) \in DOMAIN node
        BY <1>1, <3>2 DEF LastIndex
      <4>. QED  BY <2>1, <2>9, <2>10, <3>2, <4>1 DEF ValueAt
    <3>. QED  BY <3>1, <3>2
  <2>. QED  BY <2>1, <2>7, <2>8, <2>9, <2>10 DEF SameLayout
<1>. QED  BY <1>2, <1>3

(* One step of a traversal: it ends when it has seen every entry, or goes  *)
(* to one that it has not seen.                                            *)
LEMMA AdvanceSeen ==
  ASSUME TableOK, FreePositions, NodesOK, ArrayOK, Ready, UNCHANGED <<array, node, todo>>,
         NEW k, NEW seen, NEW p \in Nat, findindex(k) = {p}, SeenUpTo(seen, p),
         Advance(k, TRUE, seen)
  PROVE  /\ TravOK'
         /\ \/ iter' = NoTraversal /\ \A j \in KeySet : luaH_get(j) # Nil => j \in seen
            \/ \E j \in KeySet \ seen :
                 /\ luaH_get(j) # Nil
                 /\ iter' = [phase |-> "on", key |-> j, legal |-> TRUE, seen |-> seen \union {j}]
<1>1. LastIndex \in Nat
  BY DEF TableOK, Linked, LastIndex
<1>2. CASE NonNil(p) = {} /\ iter' = NoTraversal
  <2>1. ASSUME NEW j \in KeySet, luaH_get(j) # Nil PROVE j \in seen
    <3>1. PICK q \in 1 .. LastIndex : KeyAt(q) = j /\ ValueAt(q) # Nil
      BY <2>1, EntryOf
    <3>2. q <= p
      BY <1>1, <1>2, <3>1 DEF NonNil
    <3>. QED  BY <3>1, <3>2 DEF SeenUpTo
  <2>2. TravOK'
    BY <1>2 DEF TravOK, Covered, NoTraversal
  <2>. QED  BY <1>2, <2>1, <2>2
<1>3. CASE \E j \in NonNil(p) :
             /\ \A m \in NonNil(p) : j <= m
             /\ iter' = [phase |-> "on", key |-> KeyAt(j), legal |-> TRUE,
                         seen |-> seen \union {KeyAt(j)}]
  <2>1. PICK j \in NonNil(p) :
             /\ \A m \in NonNil(p) : j <= m
             /\ iter' = [phase |-> "on", key |-> KeyAt(j), legal |-> TRUE,
                         seen |-> seen \union {KeyAt(j)}]
    BY <1>3
  <2>2. j \in 1 .. LastIndex /\ j > p /\ ValueAt(j) # Nil /\ j \in Nat
    BY <1>1 DEF NonNil
  <2>3. KeyAt(j) \in KeySet /\ luaH_get(KeyAt(j)) = ValueAt(j) /\ findindex(KeyAt(j)) = {j}
    BY <2>2, EntryAt
  <2>4. KeyAt(j) \notin seen
    BY <2>2 DEF SeenUpTo
  <2>5. SeenUpTo(seen \union {KeyAt(j)}, j)
    <3>. SUFFICES ASSUME NEW m \in 1 .. LastIndex, ValueAt(m) # Nil
                  PROVE  KeyAt(m) \in seen \union {KeyAt(j)} <=> m <= j
      BY DEF SeenUpTo
    <3>1. CASE KeyAt(m) = KeyAt(j)
      <4>1. {m} = {j}
        BY <2>3, <3>1, EntryAt
      <4>. QED  BY <2>2, <3>1, <4>1
    <3>2. CASE KeyAt(m) # KeyAt(j)
      <4>1. m # j
        BY <3>2
      <4>2. KeyAt(m) \in seen <=> m <= p
        BY DEF SeenUpTo
      <4>3. m > p => j <= m
        BY <1>1, <2>1 DEF NonNil
      <4>. QED  BY <1>1, <2>2, <3>2, <4>1, <4>2, <4>3
    <3>. QED  BY <3>1, <3>2
  <2>6. TravOK'
    <3>1. iter'.key = KeyAt(j) /\ iter'.seen = seen \union {KeyAt(j)}
      BY <2>1
    <3>2. findindex(iter.key)' = {j}
      <4>1. \A q : findindex(q)' = findindex(q)
        BY DEF findindex, InArray, Matching, Chain, Follow, Links, mainposition
      <4>. QED  BY <2>3, <3>1, <4>1
    <3>3. SeenUpTo(iter.seen, j)'
      BY <2>5, <3>1 DEF SeenUpTo, LastIndex, ValueAt, KeyAt
    <3>. QED  BY <2>2, <3>2, <3>3 DEF TravOK, Ready
  <2>. QED  BY <2>1, <2>2, <2>3, <2>4, <2>6
<1>4. \/ NonNil(p) = {} /\ iter' = NoTraversal
      \/ \E j \in NonNil(p) :
           /\ \A m \in NonNil(p) : j <= m
           /\ iter' = [phase |-> "on", key |-> KeyAt(j), legal |-> TRUE,
                       seen |-> seen \union {KeyAt(j)}]
  BY DEF Advance
<1>. QED  BY <1>2, <1>3, <1>4

(* An assignment: a covered traversal goes on only if the key has a value, *)
(* so that the assignment stores it in place.                              *)
LEMMA AssigningTrav ==
  ASSUME TableOK, FreePositions, NodesOK, ArrayOK, TravOK, NEW k \in KeySet, NEW v \in ValueSet,
         luaH_set(k, v, <<>>), Assigning(k, v)
  PROVE  /\ TravOK'
         /\ iter' = IF iter.phase = "on" /\ luaH_get(k) = Nil
                    THEN [iter EXCEPT !.legal = FALSE, !.seen = {}] ELSE iter
         /\ stored' = [key \in {k} |-> v]
<1>1. /\ iter' = IF iter.phase = "on" /\ luaH_get(k) = Nil
                 THEN [iter EXCEPT !.legal = FALSE, !.seen = {}] ELSE iter
      /\ stored' = [key \in {k} |-> v]
  BY DEF Assigning
<1>2. CASE luaH_get(k) = Nil
  <2>1. ~Covered'
    <3>1. CASE iter.phase = "on"
      <4>1. iter' = [iter EXCEPT !.legal = FALSE, !.seen = {}]
        BY <1>1, <1>2, <3>1
      <4>. QED  BY <4>1 DEF Covered
    <3>2. CASE iter.phase # "on"
      BY <1>1, <3>2 DEF Covered
    <3>. QED  BY <3>1, <3>2
  <2>. QED  BY <1>1, <2>1 DEF TravOK
<1>3. CASE luaH_get(k) # Nil
  <2>1. Present(k)
    BY <1>3 DEF luaH_get, Present
  <2>2. Store(k, v) /\ todo' = <<>>
    BY <2>1 DEF luaH_set
  <2>3. SameLayout /\ iter' = iter
    BY <1>1, <1>3, <2>2, StoreLayout
  <2>. QED  BY <1>1, <2>2, <2>3, Steady
<1>. QED  BY <1>2, <1>3

(* The first call of 'next' and the following ones.                        *)
LEMMA NextTraversal ==
  ASSUME TableOK, FreePositions, NodesOK, ArrayOK, TravOK, FirstNext \/ luaH_next
  PROVE  /\ TravOK' /\ UNCHANGED <<array, node, todo, stored>> /\ Ready
         /\ \/ ~Covered /\ ~Covered'
            \/ /\ ~Covered' /\ iter' = NoTraversal
               /\ \A j \in KeySet : luaH_get(j) # Nil => Covered /\ j \in iter.seen
            \/ \E j \in KeySet :
                 /\ luaH_get(j) # Nil
                 /\ iter' = [phase |-> "on", key |-> j, legal |-> TRUE, seen |-> {j}]
            \/ /\ Covered
               /\ \E j \in KeySet \ iter.seen :
                    /\ luaH_get(j) # Nil
                    /\ iter' = [phase |-> "on", key |-> j, legal |-> TRUE,
                                seen |-> iter.seen \union {j}]
<1>1. UNCHANGED <<array, node, todo, stored>> /\ Ready
  BY DEF FirstNext, luaH_next, tvars
<1>2. ~NoTraversal.phase = "on"
  BY DEF NoTraversal
<1>3. CASE FirstNext
  <2>1. Advance(NoKey, TRUE, {}) /\ findindex(NoKey) = {0}
    BY <1>3 DEF FirstNext, findindex
  <2>2. SeenUpTo({}, 0)
    BY DEF SeenUpTo
  <2>3. /\ TravOK'
        /\ \/ iter' = NoTraversal /\ \A j \in KeySet : luaH_get(j) # Nil => j \in {}
           \/ \E j \in KeySet \ {} :
                /\ luaH_get(j) # Nil
                /\ iter' = [phase |-> "on", key |-> j, legal |-> TRUE, seen |-> {} \union {j}]
    BY <1>1, <2>1, <2>2, AdvanceSeen
  <2>4. CASE iter' = NoTraversal /\ \A j \in KeySet : luaH_get(j) # Nil => j \in {}
    BY <1>1, <1>2, <2>3, <2>4 DEF Covered
  <2>5. CASE \E j \in KeySet \ {} :
                /\ luaH_get(j) # Nil
                /\ iter' = [phase |-> "on", key |-> j, legal |-> TRUE, seen |-> {} \union {j}]
    <3>1. \A j : {} \union {j} = {j}
      OBVIOUS
    <3>2. \E j \in KeySet :
            /\ luaH_get(j) # Nil
            /\ iter' = [phase |-> "on", key |-> j, legal |-> TRUE, seen |-> {j}]
      BY <2>5, <3>1
    <3>. QED  BY <1>1, <2>3, <3>2
  <2>. QED  BY <2>3, <2>4, <2>5
<1>4. CASE luaH_next /\ iter.legal
  <2>1. Covered /\ Advance(iter.key, TRUE, iter.seen)
    BY <1>4 DEF luaH_next, Covered
  <2>2. PICK p \in Nat : findindex(iter.key) = {p} /\ SeenUpTo(iter.seen, p)
    BY <2>1 DEF TravOK
  <2>. DEFINE key == iter.key
              seen == iter.seen
  <2>. HIDE DEF key, seen
  <2>3. findindex(key) = {p} /\ SeenUpTo(seen, p) /\ Advance(key, TRUE, seen)
    BY <2>1, <2>2 DEF key, seen
  <2>4. /\ TravOK'
        /\ \/ iter' = NoTraversal /\ \A j \in KeySet : luaH_get(j) # Nil => j \in seen
           \/ \E j \in KeySet \ seen :
                /\ luaH_get(j) # Nil
                /\ iter' = [phase |-> "on", key |-> j, legal |-> TRUE, seen |-> seen \union {j}]
    BY <1>1, <2>3, AdvanceSeen
  <2>. QED  BY <1>1, <1>2, <2>1, <2>4 DEF Covered, seen
<1>5. CASE luaH_next /\ ~iter.legal
  <2>1. \E i \in findindex(iter.key) :
          \/ iter' = NoTraversal
          \/ \E j : iter' = [phase |-> "on", key |-> KeyAt(j), legal |-> iter.legal,
                             seen |-> IF iter.legal THEN iter.seen \union {KeyAt(j)} ELSE {}]
    BY <1>5, Zenon DEF luaH_next, Advance
  <2>2. ~Covered /\ ~Covered'
    BY <1>2, <1>5, <2>1 DEF Covered
  <2>3. TravOK'
    BY <2>2 DEF TravOK
  <2>. QED  BY <1>1, <2>2, <2>3
<1>. QED  BY <1>3, <1>4, <1>5

LEMMA NextTrav == TypeOK /\ Inserting /\ TravOK /\ [Next]_vars => TravOK'
<1>. SUFFICES ASSUME TypeOK, Inserting, TravOK, [Next]_vars PROVE TravOK'
  OBVIOUS
<1>1. TableOK /\ todo \in Seq(Insertion) /\ FreePositions /\ NodesOK /\ ArrayOK
  BY TypeParts DEF Inserting
<1>2. ~NoTraversal.phase = "on"
  BY DEF NoTraversal
<1>3. CASE iter' = NoTraversal
  BY <1>2, <1>3 DEF TravOK, Covered
<1>4. CASE UNCHANGED <<array, node, todo, iter>>
  <2>1. SameLayout
    <3>1. \A j : ValueAt(j)' = ValueAt(j)
      BY <1>4 DEF ValueAt
    <3>. QED  BY <1>4, <3>1 DEF SameLayout
  <2>. QED  BY <1>1, <1>4, <2>1, Steady DEF TravOK, Ready
<1>5. CASE Reinsert
  <2>1. ~Covered /\ iter' = iter
    BY <1>5 DEF Reinsert, TravOK, Ready
  <2>. QED  BY <2>1 DEF TravOK, Covered
<1>6. ASSUME NEW key \in KeySet \union Floats, NEW v \in ValueSet,
             SetTable(key, v) \/ lua_rawset(key, v)
      PROVE  TravOK'
  <2>1. Normal(key) \in KeySet /\ luaH_set(Normal(key), v, <<>>) /\ Assigning(Normal(key), v)
    BY <1>6, NormalIsKey DEF SetTable, lua_rawset
  <2>. QED  BY <1>1, <2>1, AssigningTrav
<1>7. ASSUME NEW i \in Integers_, NEW v \in ValueSet, lua_rawseti(i, v)
      PROVE  TravOK'
  <2>1. i \in KeySet /\ luaH_set(i, v, <<>>) /\ Assigning(i, v)
    BY <1>7, IntegersAreKeys DEF lua_rawseti
  <2>. QED  BY <1>1, <2>1, AssigningTrav
<1>8. ASSUME NEW f \in Lists, SetList(f)
      PROVE  TravOK'
  BY <1>3, <1>8 DEF SetList
<1>9. CASE FirstNext \/ luaH_next
  BY <1>1, <1>9, NextTraversal
<1>10. CASE InvalidKey
  BY <1>3, <1>10 DEF InvalidKey
<1>11. ASSUME NEW n \in DOMAIN node, removeentry(n)
       PROVE  TravOK'
  <2>1. /\ node \in Seq(Node) /\ array' = array /\ iter' = iter /\ todo' = <<>>
        /\ node' = [node EXCEPT ![n].dead = TRUE]
    BY <1>1, <1>11 DEF TableOK, Linked, removeentry, Ready
  <2>. DEFINE new == [node[n] EXCEPT !.dead = TRUE]
  <2>2. node[n] \in Node
    BY <2>1
  <2>3. new.key = node[n].key /\ new.val = node[n].val /\ new.next = node[n].next
    BY <2>2 DEF Node
  <2>4. node' = [m \in DOMAIN node |-> IF m = n THEN new ELSE node[m]]
    BY <2>1
  <2>5. Len(node') = Len(node)
    BY <2>1
  <2>. HIDE DEF new
  <2>6. \A m \in DOMAIN node : /\ node'[m].key = node[m].key /\ node'[m].next = node[m].next
                               /\ node'[m].val = node[m].val
    BY <2>3, <2>4
  <2>7. ASSUME NEW j \in 1 .. LastIndex PROVE ValueAt(j)' = ValueAt(j)
    <3>1. CASE j <= Len(array)
      BY <2>1, <3>1 DEF ValueAt
    <3>2. CASE ~(j <= Len(array))
      <4>1. j - Len(array) \in DOMAIN node
        BY <1>1, <3>2 DEF LastIndex, TableOK, Linked
      <4>. QED  BY <2>1, <2>6, <3>2, <4>1 DEF ValueAt
    <3>. QED  BY <3>1, <3>2
  <2>8. SameLayout
    BY <2>1, <2>4, <2>5, <2>6, <2>7 DEF SameLayout
  <2>. QED  BY <1>1, <2>1, <2>8, Steady
<1>12. ASSUME NEW k \in WeakEntries, ClearEntry(k)
       PROVE  TravOK'
  <2>1. /\ k \in KeySet /\ Nil \in ValueSet /\ luaH_get(k) # Nil /\ Store(k, Nil)
        /\ iter' = iter /\ todo' = <<>>
    BY <1>12, KeysAssumption, ValuesAssumption DEF ClearEntry, Ready
  <2>. QED  BY <1>1, <2>1, StoreLayout, Steady
<1>13. ASSUME (\E e \in Events : luaT_gettm(e)) \/ (\E k \in KeySet : SetFails(k)) \/ UNCHANGED vars
       PROVE  TravOK'
  <2>1. UNCHANGED <<array, node, todo, iter>>
    BY <1>13 DEF luaT_gettm, SetFails, tvars, vars
  <2>. QED  BY <1>4, <2>1
<1>14. RawKeys \subseteq KeySet \union Floats
  BY KeysAssumption
<1>. QED
  BY <1>5, <1>6, <1>7, <1>8, <1>9, <1>10, <1>11, <1>12, <1>13, <1>14 DEF Next

LEMMA InitTrav == Init => TravOK
BY DEF Init, TravOK, Covered, NoTraversal

(* A key that a covered traversal got is found again (ltable.c:155-184):   *)
(* clearing its entry, and killing it, leaves it in its chain, and before  *)
(* the dead keys of the same address.                                      *)
THEOREM NextAlwaysFindsKey == Spec => []NextFindsKey
<1>1. TravOK => NextFindsKey
  BY DEF TravOK, Covered, NextFindsKey
<1>. QED  BY <1>1, InitTrav, NextTrav, AlwaysInserting, PTL DEF Spec

-----------------------------------------------------------------------------
(* The table implements LuaMap.                                            *)

LEMMA TraversalIs ==
  /\ Covered => Traversal = [running |-> TRUE, seen |-> iter.seen]
  /\ ~Covered => Traversal = Map!Idle
  /\ Covered' => Traversal' = [running |-> TRUE, seen |-> iter'.seen]
  /\ ~Covered' => Traversal' = Map!Idle
<1>. DEFINE Seen(c, i) == [running |-> c, seen |-> IF c THEN i.seen ELSE {}]
<1>1. Traversal = Seen(Covered, iter) /\ Traversal' = Seen(Covered', iter')
  BY DEF Traversal, Covered
<1>2. \A i : Seen(TRUE, i) = [running |-> TRUE, seen |-> i.seen] /\ Seen(FALSE, i) = Map!Idle
  BY DEF Map!Idle
<1>3. Covered \in BOOLEAN /\ Covered' \in BOOLEAN
  BY DEF Covered
<1>. HIDE DEF Seen
<1>4. ASSUME Covered PROVE Traversal = Seen(TRUE, iter)
  <2>1. Covered = TRUE
    BY <1>3, <1>4, Zenon
  <2>. QED  BY <1>1, <2>1, Zenon
<1>5. ASSUME ~Covered PROVE Traversal = Seen(FALSE, iter)
  <2>1. Covered = FALSE
    BY <1>3, <1>5, Zenon
  <2>. QED  BY <1>1, <2>1, Zenon
<1>6. ASSUME Covered' PROVE Traversal' = Seen(TRUE, iter')
  <2>1. Covered' = TRUE
    BY <1>3, <1>6, Zenon
  <2>. QED  BY <1>1, <2>1, Zenon
<1>7. ASSUME ~Covered' PROVE Traversal' = Seen(FALSE, iter')
  <2>1. Covered' = FALSE
    BY <1>3, <1>7, Zenon
  <2>. QED  BY <1>1, <2>1, Zenon
<1>. QED  BY <1>2, <1>4, <1>5, <1>6, <1>7

LEMMA AssignMaps ==
  ASSUME NEW k \in KeySet, NEW v, stored' = [key \in {k} |-> v],
         Contents' = [j \in KeySet |-> IF j = k THEN v ELSE Contents[j]],
         Traversal' = IF Contents[k] = Nil THEN Map!Idle ELSE Traversal
  PROVE  Map!Assign
<1>1. DOMAIN stored' = {k} /\ stored'[k] = v
  OBVIOUS
<1>2. Contents' = [j \in KeySet |-> IF j \in DOMAIN stored' THEN stored'[j] ELSE Contents[j]]
  BY <1>1
<1>3. Traversal' = IF \E j \in DOMAIN stored' : Contents[j] = Nil THEN Map!Idle ELSE Traversal
  BY <1>1
<1>. QED  BY <1>2, <1>3 DEF Map!Assign

LEMMA AssigningMaps ==
  ASSUME TableOK, FreePositions, NodesOK, ArrayOK, TravOK, Ready,
         NEW k \in KeySet, NEW v \in ValueSet, luaH_set(k, v, <<>>), Assigning(k, v)
  PROVE  Map!Assign
<1>1. Contents' = [j \in KeySet |-> IF j = k THEN v ELSE Contents[j]]
  BY AssignContents
<1>2. /\ iter' = IF iter.phase = "on" /\ luaH_get(k) = Nil
                 THEN [iter EXCEPT !.legal = FALSE, !.seen = {}] ELSE iter
      /\ stored' = [key \in {k} |-> v]
  BY AssigningTrav
<1>3. Contents[k] = luaH_get(k)
  BY ReadyContents
<1>4. Traversal' = IF Contents[k] = Nil THEN Map!Idle ELSE Traversal
  <2>1. CASE luaH_get(k) = Nil
    <3>1. ~Covered'
      <4>1. CASE iter.phase = "on"
        <5>1. iter' = [iter EXCEPT !.legal = FALSE, !.seen = {}]
          BY <1>2, <2>1, <4>1
        <5>. QED  BY <5>1 DEF Covered
      <4>2. CASE iter.phase # "on"
        BY <1>2, <4>2 DEF Covered
      <4>. QED  BY <4>1, <4>2
    <3>. QED  BY <1>3, <2>1, <3>1, TraversalIs
  <2>2. CASE luaH_get(k) # Nil
    BY <1>2, <1>3, <2>2 DEF Traversal
  <2>. QED  BY <2>1, <2>2
<1>. QED  BY <1>1, <1>2, <1>4, AssignMaps

LEMMA NextMaps ==
  ASSUME TypeOK, Inserting, TravOK, [Next]_vars
  PROVE  [Map!Next]_(Map!vars)
<1>1. TableOK /\ todo \in Seq(Insertion) /\ FreePositions /\ NodesOK /\ ArrayOK
  BY TypeParts DEF Inserting
<1>2. TableOK'
  BY NextType, TypeParts
<1>3. CASE Contents' = Contents /\ stored' = stored /\ Traversal' = Traversal
  BY <1>3 DEF Map!vars
<1>4. CASE Map!Next
  BY <1>4
<1>5. CASE Reinsert
  <2>1. Contents' = Contents
    BY <1>1, <1>5, ReinsertContents
  <2>2. stored' = stored /\ Traversal' = Traversal
    BY <1>5 DEF Reinsert, Traversal
  <2>. QED  BY <1>3, <2>1, <2>2
<1>6. ASSUME NEW key \in KeySet \union Floats, NEW v \in ValueSet,
             SetTable(key, v) \/ lua_rawset(key, v)
      PROVE  Map!Next
  <2>1. /\ Normal(key) \in KeySet /\ luaH_set(Normal(key), v, <<>>)
        /\ Assigning(Normal(key), v) /\ Ready
    BY <1>6, NormalIsKey DEF SetTable, lua_rawset
  <2>. QED  BY <1>1, <2>1, AssigningMaps DEF Map!Next
<1>7. ASSUME NEW i \in Integers_, NEW v \in ValueSet, lua_rawseti(i, v)
      PROVE  Map!Next
  <2>1. i \in KeySet /\ luaH_set(i, v, <<>>) /\ Assigning(i, v) /\ Ready
    BY <1>7, IntegersAreKeys DEF lua_rawseti
  <2>. QED  BY <1>1, <2>1, AssigningMaps DEF Map!Next
<1>8. ASSUME NEW f \in Lists, SetList(f)
      PROVE  Map!Next
  <2>1. Contents' = [k \in KeySet |-> IF k \in DOMAIN f THEN f[k] ELSE Contents[k]]
    BY <1>1, <1>8, SetListContents
  <2>2. stored' = f /\ iter' = NoTraversal /\ iter.phase = "new"
    BY <1>8 DEF SetList
  <2>3. Traversal = Map!Idle /\ Traversal' = Map!Idle
    BY <2>2, TraversalIs DEF Covered, NoTraversal, Map!Idle
  <2>4. Map!Assign
    BY <2>1, <2>2, <2>3 DEF Map!Assign
  <2>. QED  BY <2>4 DEF Map!Next
<1>9. CASE FirstNext \/ luaH_next
  <2>1. UNCHANGED <<array, node, todo, stored>> /\ Ready
    BY <1>1, <1>9, NextTraversal
  <2>2. Contents' = Contents
    BY <2>1 DEF Contents, Pending, luaH_get, Slots, InArray, Chain, Follow, Links, mainposition
  <2>3. \A j \in KeySet : Contents[j] = luaH_get(j)
    BY <2>1, ReadyContents
  <2>4. \/ ~Covered /\ ~Covered'
        \/ /\ ~Covered' /\ iter' = NoTraversal
           /\ \A j \in KeySet : luaH_get(j) # Nil => Covered /\ j \in iter.seen
        \/ \E j \in KeySet :
             /\ luaH_get(j) # Nil
             /\ iter' = [phase |-> "on", key |-> j, legal |-> TRUE, seen |-> {j}]
        \/ /\ Covered
           /\ \E j \in KeySet \ iter.seen :
                /\ luaH_get(j) # Nil
                /\ iter' = [phase |-> "on", key |-> j, legal |-> TRUE, seen |-> iter.seen \union {j}]
    BY <1>1, <1>9, NextTraversal
  <2>5. CASE ~Covered /\ ~Covered'
    BY <1>3, <2>1, <2>2, <2>5, TraversalIs
  <2>6. CASE /\ ~Covered' /\ iter' = NoTraversal
             /\ \A j \in KeySet : luaH_get(j) # Nil => Covered /\ j \in iter.seen
    <3>1. Traversal' = Map!Idle
      BY <2>6, TraversalIs
    <3>2. \A j \in KeySet : Contents[j] # Nil => Traversal.running /\ j \in Traversal.seen
      BY <2>3, <2>6, TraversalIs
    <3>3. Map!Finish
      BY <2>1, <2>2, <3>1, <3>2 DEF Map!Finish
    <3>. QED  BY <3>3 DEF Map!Next
  <2>7. CASE \E j \in KeySet :
               /\ luaH_get(j) # Nil
               /\ iter' = [phase |-> "on", key |-> j, legal |-> TRUE, seen |-> {j}]
    <3>1. PICK j \in KeySet :
               /\ luaH_get(j) # Nil
               /\ iter' = [phase |-> "on", key |-> j, legal |-> TRUE, seen |-> {j}]
      BY <2>7
    <3>2. Covered' /\ iter'.seen = {j}
      BY <3>1 DEF Covered
    <3>3. Traversal' = [running |-> TRUE, seen |-> {j}]
      BY <3>2, TraversalIs
    <3>4. Map!Start
      BY <2>1, <2>2, <2>3, <3>1, <3>3 DEF Map!Start
    <3>. QED  BY <3>4 DEF Map!Next
  <2>8. CASE /\ Covered
             /\ \E j \in KeySet \ iter.seen :
                  /\ luaH_get(j) # Nil
                  /\ iter' = [phase |-> "on", key |-> j, legal |-> TRUE, seen |-> iter.seen \union {j}]
    <3>1. PICK j \in KeySet \ iter.seen :
                  /\ luaH_get(j) # Nil
                  /\ iter' = [phase |-> "on", key |-> j, legal |-> TRUE, seen |-> iter.seen \union {j}]
      BY <2>8
    <3>2. Covered' /\ iter'.seen = iter.seen \union {j}
      BY <3>1 DEF Covered
    <3>3. Traversal = [running |-> TRUE, seen |-> iter.seen]
      BY <2>8, TraversalIs
    <3>4. Traversal' = [running |-> TRUE, seen |-> Traversal.seen \union {j}]
      BY <3>2, <3>3, TraversalIs
    <3>5. Map!Visit
      BY <2>1, <2>2, <2>3, <3>1, <3>3, <3>4 DEF Map!Visit
    <3>. QED  BY <3>5 DEF Map!Next
  <2>. QED  BY <2>4, <2>5, <2>6, <2>7, <2>8
<1>10. CASE InvalidKey
  <2>1. UNCHANGED <<array, node, todo, stored>> /\ iter' = NoTraversal /\ ~Covered
    BY <1>10 DEF InvalidKey, tvars, TravOK
  <2>2. Contents' = Contents
    BY <2>1 DEF Contents, Pending, luaH_get, Slots, InArray, Chain, Follow, Links, mainposition
  <2>3. Traversal' = Traversal
    BY <2>1, TraversalIs DEF Covered, NoTraversal
  <2>. QED  BY <1>3, <2>1, <2>2, <2>3
<1>11. ASSUME NEW n \in DOMAIN node, removeentry(n)
       PROVE  UNCHANGED Map!vars
  <2>1. Contents' = Contents
    BY <1>1, <1>2, <1>11, RemoveContents
  <2>2. stored' = stored /\ Traversal' = Traversal
    BY <1>11 DEF removeentry, Traversal
  <2>. QED  BY <2>1, <2>2 DEF Map!vars
<1>12. ASSUME NEW k \in WeakEntries, ClearEntry(k)
       PROVE  Map!Next
  <2>1. k \in KeySet
    BY KeysAssumption
  <2>2. Contents' = [j \in KeySet |-> IF j = k THEN Nil ELSE Contents[j]]
    BY <1>1, <1>12, <2>1, ClearContents
  <2>3. stored' = [key \in {k} |-> Nil] /\ Traversal' = Traversal
    BY <1>12 DEF ClearEntry, Traversal
  <2>4. Contents[k] # Nil
    BY <1>12, <2>1, ReadyContents DEF ClearEntry
  <2>5. Map!Assign
    BY <2>1, <2>2, <2>3, <2>4, AssignMaps
  <2>. QED  BY <2>5 DEF Map!Next
<1>13. ASSUME (\E e \in Events : luaT_gettm(e)) \/ (\E k \in KeySet : SetFails(k)) \/ UNCHANGED vars
       PROVE  UNCHANGED Map!vars
  <2>1. UNCHANGED <<array, node, todo, iter, stored>>
    BY <1>13 DEF luaT_gettm, SetFails, tvars, vars
  <2>2. Contents' = Contents
    BY <2>1 DEF Contents, Pending, luaH_get, Slots, InArray, Chain, Follow, Links, mainposition
  <2>3. Traversal' = Traversal
    BY <2>1 DEF Traversal
  <2>. QED  BY <2>1, <2>2, <2>3 DEF Map!vars
<1>14. RawKeys \subseteq KeySet \union Floats
  BY KeysAssumption
<1>. QED
  BY <1>5, <1>6, <1>7, <1>8, <1>9, <1>10, <1>11, <1>12, <1>13, <1>14 DEF Next

LEMMA InitMaps == Init => Map!Init
<1>. SUFFICES ASSUME Init PROVE Map!Init
  OBVIOUS
<1>1. Contents = [k \in KeySet |-> Nil]
  <2>1. Ready
    BY DEF Init, Ready
  <2>2. \A k \in KeySet : Contents[k] = Nil
    BY <2>1, EmptyAtFirst, ReadyContents
  <2>. QED  BY <2>2 DEF Contents
<1>2. Traversal = Map!Idle
  <2>1. iter.phase = "new"
    BY DEF Init, NoTraversal
  <2>. QED  BY <2>1, TraversalIs DEF Covered, Map!Idle
<1>3. stored = <<>>
  BY DEF Init
<1>. QED  BY <1>1, <1>2, <1>3 DEF Map!Init

(* A table is a map (ltable.c:509-569, 439-460, 155-184): for all keys,    *)
(* hash values and sizes, no sequence of insertions, moves, rehashes,      *)
(* failed rehashes and collections loses, duplicates or exchanges an       *)
(* entry, and a traversal without assignments of new fields visits every   *)
(* key that keeps its value exactly once.                                  *)
THEOREM TableIsMap == Spec => ImplementsMap
<1>1. (TypeOK /\ Inserting) /\ TravOK /\ [Next]_vars => TravOK'
  BY NextTrav
<1>2. (TypeOK /\ Inserting) /\ TravOK /\ [Next]_vars => [Map!Next]_(Map!vars)
  BY NextMaps
<1>. QED  BY <1>1, <1>2, InitTrav, InitMaps, AlwaysInserting, PTL DEF Spec, ImplementsMap, Map!Spec

=============================================================================
