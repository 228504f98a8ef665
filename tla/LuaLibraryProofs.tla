-------------------------- MODULE LuaLibraryProofs --------------------------
(***************************************************************************)
(* Theorems about two parts of the library.  LuaSearch: the matcher counts *)
(* its nested calls exactly, for every subject, pattern and limit, until a *)
(* program goes on with an iterator that has failed.  LuaAux: references   *)
(* keep their objects, and a buffer returns what was added to it, for      *)
(* every size of integers and of blocks, every set of strings and objects, *)
(* and every order of the calls.                                           *)
(***************************************************************************)
EXTENDS LuaSearch, LuaAux, SequenceTheorems, TLAPS

-----------------------------------------------------------------------------
(* The depth of the matcher                                                *)

Positions == {"try", "call", "item", "return", "result", "done", "nil", "error"}

(* The frames of the waiting calls are a sequence, and no call waits when  *)
(* the search runs: that is what lets a search start with all its calls.   *)
DepthInv ==
  /\ pc \in Positions
  /\ matchdepth \in Int /\ errors \in Nat
  /\ stack \in Seq({stack[n] : n \in DOMAIN stack})
  /\ pc \in {"try", "result"} => stack = <<>>
  /\ DepthCounted

-----------------------------------------------------------------------------
(* Any sequence is a sequence of its own elements.                         *)
LEMMA OwnElements ==
  ASSUME NEW S, NEW q \in Seq(S)
  PROVE  q \in Seq({q[n] : n \in DOMAIN q})
<1>1. q = [n \in 1 .. Len(q) |-> q[n]] /\ Len(q) \in Nat /\ DOMAIN q = 1 .. Len(q)
  OBVIOUS
<1>. DEFINE R == {q[n] : n \in DOMAIN q}
<1>2. \A n \in 1 .. Len(q) : q[n] \in R
  BY <1>1
<1>3. q \in [1 .. Len(q) -> R]
  BY <1>1, <1>2
<1>. HIDE DEF R
<1>4. q \in Seq(R)
  BY <1>1, <1>3
<1>. QED  BY <1>4 DEF R

(* A call of match that waits is one more frame, and one that gets its     *)
(* answer one less.                                                        *)
LEMMA Pushed ==
  ASSUME NEW S, NEW q \in Seq(S), NEW f
  PROVE  /\ Append(q, f) \in Seq(S \union {f})
         /\ Len(Append(q, f)) = Len(q) + 1
<1>1. q \in Seq(S \union {f})
  <2>1. q \in [1 .. Len(q) -> S] /\ Len(q) \in Nat
    OBVIOUS
  <2>2. q \in [1 .. Len(q) -> S \union {f}]
    BY <2>1
  <2>. QED  BY <2>1, <2>2
<1>. QED  BY <1>1

LEMMA Popped ==
  ASSUME NEW S, NEW q \in Seq(S), q # <<>>
  PROVE  /\ Front(q) \in Seq(S)
         /\ Len(Front(q)) = Len(q) - 1
         /\ Len(q) > 0
<1>1. /\ Len(q) \in Nat /\ Len(q) > 0
      /\ \A i \in 1 .. Len(q) - 1 : q[i] \in S
  BY EmptySeq, LenProperties
<1>2. /\ SubSeq(q, 1, Len(q) - 1) \in Seq(S)
      /\ Len(SubSeq(q, 1, Len(q) - 1)) = Len(q) - 1
  <2>. DEFINE m == Len(q) - 1
  <2>1. 1 \in Int /\ m \in Int /\ (\A i \in 1 .. m : q[i] \in S) /\ m >= 0
    BY <1>1
  <2>. HIDE DEF m
  <2>2. /\ SubSeq(q, 1, m) \in Seq(S)
        /\ Len(SubSeq(q, 1, m)) = IF 1 <= m THEN m - 1 + 1 ELSE 0
    BY <2>1, SubSeqProperties
  <2>3. (IF 1 <= m THEN m - 1 + 1 ELSE 0) = m
    BY <2>1
  <2>. QED  BY <2>2, <2>3 DEF m
<1>. QED  BY <1>1, <1>2 DEF Front

(* What the steps do to the stack, in terms of the stack alone.            *)
LEMMA PushKeeps ==
  ASSUME NEW f, stack \in Seq({stack[n] : n \in DOMAIN stack}), stack' = Append(stack, f)
  PROVE  /\ Len(stack) \in Nat /\ Len(stack') = Len(stack) + 1
         /\ stack' \in Seq({stack'[n] : n \in DOMAIN stack'})
<1>. DEFINE R == {stack[n] : n \in DOMAIN stack}
<1>1. stack \in Seq(R)
  OBVIOUS
<1>. HIDE DEF R
<1>2. stack' \in Seq(R \union {f}) /\ Len(stack') = Len(stack) + 1
  BY <1>1, Pushed
<1>3. Len(stack) \in Nat
  BY <1>1
<1>. QED  BY <1>2, <1>3, OwnElements

LEMMA PopKeeps ==
  ASSUME stack \in Seq({stack[n] : n \in DOMAIN stack}), stack # <<>>, stack' = Front(stack)
  PROVE  /\ Len(stack) \in Nat /\ Len(stack) > 0 /\ Len(stack') = Len(stack) - 1
         /\ stack' \in Seq({stack'[n] : n \in DOMAIN stack'})
<1>. DEFINE R == {stack[n] : n \in DOMAIN stack}
<1>1. stack \in Seq(R)
  OBVIOUS
<1>. HIDE DEF R
<1>2. stack' \in Seq(R) /\ Len(stack') = Len(stack) - 1 /\ Len(stack) > 0
  BY <1>1, Popped
<1>3. Len(stack) \in Nat
  BY <1>1
<1>. QED  BY <1>2, <1>3, OwnElements

LEMMA ReplaceKeeps ==
  ASSUME NEW f, stack \in Seq({stack[n] : n \in DOMAIN stack}), stack # <<>>,
         stack' = Append(Front(stack), f)
  PROVE  /\ Len(stack) \in Nat /\ Len(stack') = Len(stack)
         /\ stack' \in Seq({stack'[n] : n \in DOMAIN stack'})
<1>. DEFINE R == {stack[n] : n \in DOMAIN stack}
<1>1. stack \in Seq(R)
  OBVIOUS
<1>. HIDE DEF R
<1>2. Front(stack) \in Seq(R) /\ Len(Front(stack)) = Len(stack) - 1
  BY <1>1, Popped
<1>3. Len(stack) \in Nat
  BY <1>1
<1>4. stack' \in Seq(R \union {f}) /\ Len(stack') = Len(Front(stack)) + 1
  BY <1>2, Pushed
<1>. QED  BY <1>2, <1>3, <1>4, OwnElements

LEMMA EmptyKeeps ==
  ASSUME stack' = <<>>
  PROVE  stack' \in Seq({stack'[n] : n \in DOMAIN stack'}) /\ Len(stack') = 0
BY EmptySeq

-----------------------------------------------------------------------------
(* The four ways in which an item ends: it fails for good, it calls match, *)
(* it goes on with the next item, or match returns.                        *)
LEMMA RaiseKeeps ==
  ASSUME DepthInv, NEW msg, Raise(msg)
  PROVE  DepthInv'
BY DEF DepthInv, DepthCounted, Positions, Raise, matchVars

LEMMA RecurKeeps ==
  ASSUME DepthInv, pc = "item", NEW f, NEW pt, NEW q, Recur(f, pt, q)
  PROVE  DepthInv'
<1>1. /\ Len(stack) \in Nat /\ Len(stack') = Len(stack) + 1
      /\ stack' \in Seq({stack'[n] : n \in DOMAIN stack'})
  BY PushKeeps DEF DepthInv, Recur
<1>2. Active = Len(stack) + 1
  BY DEF Active
<1>3. pc' = "call" /\ Active' = Len(stack') /\ matchdepth' = matchdepth /\ errors' = errors
  BY DEF Active, Recur
<1>. QED  BY <1>1, <1>2, <1>3 DEF DepthInv, DepthCounted, Positions

LEMMA GotoKeeps ==
  ASSUME DepthInv, pc = "item", NEW pt, NEW q, Goto(pt, q)
  PROVE  DepthInv'
<1>1. Active = Len(stack) + 1 /\ Active' = Len(stack) + 1
  BY DEF Active, Goto
<1>. QED  BY <1>1 DEF DepthInv, DepthCounted, Positions, Goto

LEMMA ReturnKeeps ==
  ASSUME DepthInv, pc = "item", NEW r, Return(r)
  PROVE  DepthInv'
<1>1. Active = Len(stack) + 1 /\ Active' = Len(stack) + 1
  BY DEF Active, Return
<1>. QED  BY <1>1 DEF DepthInv, DepthCounted, Positions, Return

(* A call that returns to a frame gives its call back and takes the frame  *)
(* away.                                                                   *)
LEMMA ReturnUpKeeps ==
  ASSUME DepthInv, pc = "return", stack # <<>>, Pop, GiveBack,
         pc' \in {"return", "item"}, errors' = errors
  PROVE  DepthInv'
<1>1. /\ Len(stack) \in Nat /\ Len(stack) > 0 /\ Len(stack') = Len(stack) - 1
      /\ stack' \in Seq({stack'[n] : n \in DOMAIN stack'})
  BY PopKeeps DEF DepthInv, Pop
<1>2. Active = Len(stack) + 1 /\ Active' = Len(stack') + 1
  BY DEF Active
<1>. QED  BY <1>1, <1>2 DEF DepthInv, DepthCounted, Positions, GiveBack

(* Or the frame makes another call.                                        *)
LEMMA CallAgainKeeps ==
  ASSUME DepthInv, pc = "return", stack # <<>>, NEW f, NEW pt, CallAgain(f, pt)
  PROVE  DepthInv'
<1>1. /\ Len(stack) \in Nat /\ Len(stack') = Len(stack)
      /\ stack' \in Seq({stack'[n] : n \in DOMAIN stack'})
  BY ReplaceKeeps DEF DepthInv, CallAgain
<1>2. Active = Len(stack) + 1 /\ Active' = Len(stack')
  BY DEF Active, CallAgain
<1>3. pc' = "call" /\ matchdepth' = matchdepth + 1 /\ errors' = errors
  BY DEF CallAgain, GiveBack, Same
<1>. QED  BY <1>1, <1>2, <1>3 DEF DepthInv, DepthCounted, Positions

-----------------------------------------------------------------------------
LEMMA MatchStepKeeps ==
  ASSUME DepthInv, MatchStep
  PROVE  DepthInv'
<1>1. CASE match
  <2>1. Active = Len(stack) /\ pc' \in {"item", "error"}
    BY <1>1 DEF match, Active
  <2>2. pc' = "item" => Active' = Len(stack) + 1
    BY <1>1 DEF match, Active
  <2>3. Len(stack) \in Nat /\ stack' = stack
    BY <1>1, LenProperties DEF DepthInv, match
  <2>4. pc = "call" /\ matchdepth' = matchdepth - 1 /\ errors' = errors
    BY <1>1 DEF match
  <2>5. stack' \in Seq({stack'[n] : n \in DOMAIN stack'})
    BY <2>3 DEF DepthInv
  <2>. QED  BY <2>1, <2>2, <2>3, <2>4, <2>5, PatternAssumption DEF DepthInv, DepthCounted, Positions
<1>2. CASE PatternEnd \/ SubjectEnd \/ NoMatch
  BY <1>2, ReturnKeeps DEF PatternEnd, SubjectEnd, NoMatch, InItem, IsDefault, NoSuffix, Suffix
<1>3. CASE start_capture
  BY <1>3, RaiseKeeps, RecurKeeps DEF start_capture, InItem
<1>4. CASE end_capture
  BY <1>4, RaiseKeeps, RecurKeeps DEF end_capture, InItem
<1>5. CASE Balance
  BY <1>5, RaiseKeeps, GotoKeeps, ReturnKeeps DEF Balance, GoOn, InItem
<1>6. CASE Frontier
  BY <1>6, RaiseKeeps, GotoKeeps, ReturnKeeps DEF Frontier, InItem
<1>7. CASE match_capture
  BY <1>7, RaiseKeeps, GotoKeeps, ReturnKeeps DEF match_capture, GoOn, InItem
<1>8. CASE Malformed
  BY <1>8, RaiseKeeps DEF Malformed
<1>9. CASE AcceptEmpty \/ Single
  BY <1>9, GotoKeeps DEF AcceptEmpty, Single, Suffix, NoSuffix, IsDefault, InItem
<1>10. CASE Optional \/ max_expand \/ min_expand
  BY <1>10, RecurKeeps DEF Optional, max_expand, min_expand, Suffix, IsDefault, InItem
<1>11. CASE UndoStart \/ UndoEnd \/ Passed
  <2>1. pc = "return" /\ stack # <<>> /\ ReturnUp
    BY <1>11 DEF UndoStart, UndoEnd, Passed, Waiting
  <2>. QED  BY <2>1, ReturnUpKeeps DEF ReturnUp, Same
<1>12. CASE WithoutOptional
  BY <1>12, ReturnUpKeeps DEF WithoutOptional, Waiting, Same
<1>13. CASE OneLess \/ OneMore
  BY <1>13, CallAgainKeeps DEF OneLess, OneMore, Waiting
<1>14. CASE Matched
  <2>1. Len(stack) = 0 /\ Active = 1 /\ Active' = 0
    BY <1>14, EmptySeq DEF Matched, Active
  <2>. QED  BY <1>14, <2>1 DEF Matched, DepthInv, DepthCounted, Positions, GiveBack
<1>. QED
  BY <1>1, <1>2, <1>3, <1>4, <1>5, <1>6, <1>7, <1>8, <1>9, <1>10, <1>11, <1>12, <1>13, <1>14
     DEF MatchStep

(* The search moves between positions where no call of match is active; it *)
(* starts one with an empty stack.                                         *)
LEMMA IdleKeeps ==
  ASSUME DepthInv, pc \in {"try", "result"}, Idle, pc' \in {"try", "done", "nil", "error"}
  PROVE  DepthInv'
<1>1. Active = 0 /\ Active' = 0
  BY DEF Active
<1>. QED  BY <1>1 DEF DepthInv, DepthCounted, Positions, Idle, matchVars

LEMMA SearchStepKeeps ==
  ASSUME DepthInv, SearchStep
  PROVE  DepthInv'
<1>1. CASE Try
  <2>1. stack = <<>> /\ Active = 0 /\ Active' = 0
    BY <1>1, EmptySeq DEF Try, DepthInv, Active
  <2>. QED  BY <1>1, <2>1 DEF Try, DepthInv, DepthCounted, Positions
<1>2. CASE PlainFind \/ FindNext \/ FindDone \/ GmatchNext \/ GmatchDone
  BY <1>2, IdleKeeps DEF PlainFind, FindNext, FindDone, GmatchNext, GmatchDone, Result
<1>3. CASE IterateAgain
  <2>1. stack' \in Seq({stack'[n] : n \in DOMAIN stack'})
    BY <1>3, EmptyKeeps DEF IterateAgain
  <2>2. errors' # 0 /\ errors' \in Nat
    BY <1>3 DEF IterateAgain, DepthInv
  <2>. QED  BY <1>3, <2>1, <2>2 DEF IterateAgain, DepthInv, DepthCounted, Positions
<1>4. CASE GsubMatch \/ GsubSkip
  BY <1>4, IdleKeeps DEF GsubMatch, GsubSkip, Iterated, Result
<1>5. CASE GsubBad \/ GsubEnd
  BY <1>5, IdleKeeps DEF GsubBad, GsubEnd, Result
<1>. QED  BY <1>1, <1>2, <1>3, <1>4, <1>5 DEF SearchStep

LEMMA DepthInit ==
  ASSUME Init
  PROVE  DepthInv
<1>1. stack = <<>> /\ pc \in {"nil", "try"} /\ matchdepth = MAXCCALLS /\ errors = 0
  BY DEF Init, SearchInit
<1>2. stack \in Seq({stack[n] : n \in DOMAIN stack})
  BY <1>1, EmptySeq
<1>3. Active = 0
  BY <1>1 DEF Active
<1>. QED  BY <1>1, <1>2, <1>3, PatternAssumption DEF DepthInv, DepthCounted, Positions

(* Between calls of the program and inside them, matchdepth and the active *)
(* calls of match add up to MAXCCALLS, so a search never starts with less  *)
(* than all its calls, until an iterator goes on after an error.           *)
THEOREM DepthAlwaysCounted == Spec => []DepthCounted
<1>1. Init => DepthInv
  BY DepthInit
<1>2. DepthInv /\ [Next]_vars => DepthInv'
  <2>. SUFFICES ASSUME DepthInv, [Next]_vars
                PROVE  DepthInv'
    OBVIOUS
  <2>1. CASE MatchStep
    BY <2>1, MatchStepKeeps
  <2>2. CASE SearchStep
    BY <2>2, SearchStepKeeps
  <2>3. CASE UNCHANGED vars
    BY <2>3 DEF vars, matchVars, DepthInv, DepthCounted, Active
  <2>. QED  BY <2>1, <2>2, <2>3 DEF Next
<1>3. DepthInv => DepthCounted
  BY DEF DepthInv
<1>. QED  BY <1>1, <1>2, <1>3, PTL DEF Spec

-----------------------------------------------------------------------------
(* References                                                              *)

(* The keys of the list of free references: those with a number.  The list *)
(* starts at 0; each of its keys but the last has the next one's number.   *)
Links(t)   == {k \in DOMAIN t : t[k][1] = "number"}
LinkTo(t, k) == t[k][2]

(* A table of references t with the references r in use.  The list needs   *)
(* no order: no two links lead to the same key, none leads to a reference  *)
(* in use, and at most one leads out of the table, none if the list is     *)
(* empty, so that a new key after a border is the target of no link.       *)
Entries(t, r) ==
  /\ DOMAIN t \subseteq Nat
  /\ \A k \in DOMAIN t : t[k][1] # "nil"
  /\ freelist \in DOMAIN t => freelist \in Links(t)
  /\ \A x \in r : x[1] \in DOMAIN t /\ x[1] # freelist /\ t[x[1]] = x[2] /\ x[2][1] # "number"
LinksApart(t, r) ==
  /\ \A k \in Links(t) : /\ LinkTo(t, k) \in Nat \ {0} /\ t[k] = Number(LinkTo(t, k))
                         /\ LinkTo(t, k) \in DOMAIN t => LinkTo(t, k) \in Links(t)
  /\ \A k, m \in Links(t) : LinkTo(t, k) = LinkTo(t, m) => k = m
OneEnd(t) ==
  /\ \A k, m \in Links(t) : LinkTo(t, k) \notin DOMAIN t /\ LinkTo(t, m) \notin DOMAIN t => k = m
  /\ freelist \notin DOMAIN t => \A k \in Links(t) : LinkTo(t, k) \in DOMAIN t

RefOK(t, r) == Entries(t, r) /\ LinksApart(t, r) /\ OneEnd(t)
RefPairs(r) == \A x \in r : x = <<x[1], x[2]>>

RefInv == RefOK(reftab, refs) /\ RefPairs(refs)

(* Free is 0 exactly when the list is empty.                               *)
LEMMA FreeIsHead ==
  ASSUME NEW t, NEW r, RefOK(t, r)
  PROVE  /\ freelist \in DOMAIN t => Free(t) = LinkTo(t, freelist) /\ Free(t) \in Nat \ {0}
         /\ freelist \notin DOMAIN t => Free(t) = 0
BY DEF RefOK, Entries, LinksApart, Free, rawgeti, Nobody, freelist, Links, LinkTo

(* What is left after the entries that became nil are gone.                *)
LEMMA CleanEntry ==
  ASSUME NEW t
  PROVE  /\ DOMAIN Cleaned(t) = {k \in DOMAIN t : t[k] # Nobody}
         /\ \A j \in DOMAIN Cleaned(t) : Cleaned(t)[j] = t[j]
BY DEF Cleaned

(* luaL_ref with an empty list: a key after a border.                      *)
LEMMA NewKey ==
  ASSUME NEW t, NEW r, RefOK(t, r), freelist \notin DOMAIN t,
         NEW k \in Nat \ {0}, k \notin DOMAIN t,
         NEW o, o[1] # "number", o[1] # "nil"
  PROVE  RefOK(rawseti(t, k, o), r \union {<<k, o>>})
<1>. DEFINE u == rawseti(t, k, o)
<1>1. /\ DOMAIN u = DOMAIN t \union {k}
      /\ \A j \in DOMAIN t : u[j] = t[j]
      /\ u[k] = o
  <2>1. /\ DOMAIN u = DOMAIN t \union {k} /\ u[k] = o
        /\ \A j \in DOMAIN t : u[j] = IF j = k THEN o ELSE t[j]
    BY DEF rawseti
  <2>. HIDE DEF u
  <2>. QED  BY <2>1
<1>. HIDE DEF u
<1>2. Links(u) = Links(t) /\ \A j \in Links(t) : LinkTo(u, j) = LinkTo(t, j) /\ u[j] = t[j]
  <2>1. Links(u) = {j \in DOMAIN t : t[j][1] = "number"}
    BY <1>1 DEF Links
  <2>. QED  BY <1>1, <2>1 DEF Links, LinkTo
<1>3. \A j \in Links(t) : LinkTo(t, j) \in DOMAIN t
  BY DEF RefOK, OneEnd
<1>4. Entries(u, r \union {<<k, o>>})
  BY <1>1, <1>2 DEF RefOK, Entries, freelist
<1>5. LinksApart(u, r \union {<<k, o>>})
  BY <1>1, <1>2, <1>3 DEF RefOK, LinksApart, Links
<1>6. OneEnd(u)
  BY <1>1, <1>2, <1>3 DEF RefOK, OneEnd
<1>. QED  BY <1>4, <1>5, <1>6 DEF RefOK, u

(* luaL_ref with a list: its first key, whose link becomes the head's.     *)
LEMMA FirstKey ==
  ASSUME NEW t, NEW r, RefOK(t, r), freelist \in DOMAIN t,
         NEW o, o[1] # "number", o[1] # "nil"
  PROVE  RefOK(rawseti(Unlinked(t, Free(t)), Free(t), o), r \union {<<Free(t), o>>})
<1>. DEFINE f == Free(t)
            u == rawseti(Unlinked(t, f), f, o)
<1>1. f = LinkTo(t, 0) /\ f \in Nat \ {0} /\ 0 \in Links(t) /\ t[0] = Number(f)
  BY FreeIsHead DEF freelist, RefOK, Entries, LinksApart
<1>2. f \in DOMAIN t => f \in Links(t) /\ t[f] = Number(LinkTo(t, f)) /\ LinkTo(t, f) # f
  BY <1>1 DEF RefOK, LinksApart
<1>. HIDE DEF f
<1>3. Unlinked(t, f) = Cleaned(rawseti(t, 0, rawgeti(t, f)))
  BY DEF Unlinked, f, freelist
<1>4. CASE f \in DOMAIN t
  <2>1. rawgeti(t, f) = t[f]
    BY <1>4 DEF rawgeti
  <2>2. t[f] # Nobody
    BY <1>2, <1>4 DEF Nobody, Number
  <2>3. \A k \in DOMAIN t : t[k] # Nobody
    BY DEF RefOK, Entries, Nobody
  <2>. DEFINE a == rawseti(t, 0, t[f])
  <2>4. DOMAIN a = DOMAIN t /\ \A k \in DOMAIN t : a[k] = IF k = 0 THEN t[f] ELSE t[k]
    <3>1. 0 \in DOMAIN t
      BY <1>1 DEF Links
    <3>. QED  BY <3>1 DEF rawseti
  <2>. HIDE DEF a
  <2>5. DOMAIN Cleaned(a) = DOMAIN t /\ \A k \in DOMAIN t : Cleaned(a)[k] = IF k = 0 THEN t[f] ELSE t[k]
    <3>1. \A k \in DOMAIN a : a[k] # Nobody
      BY <2>2, <2>3, <2>4
    <3>. QED  BY <2>4, <3>1, CleanEntry
  <2>6. DOMAIN u = DOMAIN t
        /\ \A k \in DOMAIN t : u[k] = IF k = f THEN o ELSE IF k = 0 THEN t[f] ELSE t[k]
    <3>1. u = rawseti(Cleaned(a), f, o)
      BY <1>3, <2>1 DEF a
    <3>. HIDE DEF u
    <3>. DEFINE c == Cleaned(a)
    <3>2. u = rawseti(c, f, o) /\ f \in DOMAIN c
      BY <1>4, <2>5, <3>1
    <3>3. DOMAIN c = DOMAIN t /\ \A k \in DOMAIN t : c[k] = IF k = 0 THEN t[f] ELSE t[k]
      BY <2>5
    <3>. HIDE DEF c
    <3>4. DOMAIN u = DOMAIN c /\ \A k \in DOMAIN c : u[k] = IF k = f THEN o ELSE c[k]
      BY <3>2 DEF rawseti
    <3>. QED  BY <3>3, <3>4
  <2>. HIDE DEF u
  <2>7. Links(u) = Links(t) \ {f}
    <3>1. t[f][1] = "number" /\ t[0][1] = "number"
      BY <1>1, <1>2, <1>4 DEF Links
    <3>. QED  BY <2>6, <3>1, <1>1 DEF Links
  <2>8. \A k \in Links(u) : LinkTo(u, k) = (IF k = 0 THEN LinkTo(t, f) ELSE LinkTo(t, k))
                            /\ u[k] = (IF k = 0 THEN t[f] ELSE t[k])
    BY <2>6, <2>7 DEF LinkTo, Links
  <2>9. \A k \in Links(u) : LinkTo(u, k) # f
    BY <1>1, <1>2, <1>4, <2>7, <2>8 DEF RefOK, LinksApart
  <2>10. Entries(u, r \union {<<f, o>>})
    <3>1. DOMAIN u \subseteq Nat /\ \A k \in DOMAIN u : u[k][1] # "nil"
      BY <1>4, <2>6 DEF RefOK, Entries
    <3>2. 0 \in Links(u)
      BY <1>1, <2>7
    <3>3. \A x \in r : x[1] \in DOMAIN u /\ x[1] # 0 /\ u[x[1]] = x[2] /\ x[2][1] # "number"
      <4>1. \A x \in r : x[1] # f
        BY <1>2 DEF RefOK, Entries, Links
      <4>. QED  BY <2>6, <4>1 DEF RefOK, Entries, freelist
    <3>. QED  BY <1>1, <1>4, <2>6, <3>1, <3>2, <3>3 DEF Entries, freelist
  <2>11. LinksApart(u, r \union {<<f, o>>})
    <3>1. \A k, m \in Links(u) : LinkTo(u, k) = LinkTo(u, m) => k = m
      BY <1>2, <1>4, <2>7, <2>8 DEF RefOK, LinksApart
    <3>2. \A k \in Links(u) : LinkTo(u, k) \in Nat \ {0} /\ u[k] = Number(LinkTo(u, k))
      BY <1>2, <1>4, <2>7, <2>8 DEF RefOK, LinksApart
    <3>3. \A k \in Links(u) : LinkTo(u, k) \in DOMAIN u => LinkTo(u, k) \in Links(u)
      BY <1>2, <1>4, <2>6, <2>7, <2>8, <2>9 DEF RefOK, LinksApart
    <3>. QED  BY <3>1, <3>2, <3>3 DEF LinksApart
  <2>12. OneEnd(u)
    BY <1>1, <1>2, <1>4, <2>6, <2>7, <2>8 DEF RefOK, OneEnd, Links, freelist
  <2>. QED  BY <2>10, <2>11, <2>12 DEF RefOK, u, f
<1>5. CASE f \notin DOMAIN t
  <2>1. rawgeti(t, f) = Nobody
    BY <1>5 DEF rawgeti
  <2>2. \A k \in DOMAIN t : t[k] # Nobody
    BY DEF RefOK, Entries, Nobody
  <2>. DEFINE a == rawseti(t, 0, Nobody)
  <2>3. DOMAIN a = DOMAIN t /\ \A k \in DOMAIN t : a[k] = IF k = 0 THEN Nobody ELSE t[k]
    <3>1. 0 \in DOMAIN t
      BY <1>1 DEF Links
    <3>. QED  BY <3>1 DEF rawseti
  <2>. HIDE DEF a
  <2>4. DOMAIN Cleaned(a) = DOMAIN t \ {0} /\ \A k \in DOMAIN t \ {0} : Cleaned(a)[k] = t[k]
    <3>1. DOMAIN Cleaned(a) = DOMAIN t \ {0}
      BY <2>2, <2>3, CleanEntry
    <3>. QED  BY <2>3, <3>1, CleanEntry
  <2>5. DOMAIN u = (DOMAIN t \ {0}) \union {f}
        /\ u[f] = o /\ \A k \in DOMAIN t \ {0} : u[k] = t[k]
    <3>1. u = rawseti(Cleaned(a), f, o)
      BY <1>3, <2>1 DEF a
    <3>. HIDE DEF u
    <3>. DEFINE c == Cleaned(a)
    <3>2. DOMAIN c = DOMAIN t \ {0} /\ \A k \in DOMAIN t \ {0} : c[k] = t[k]
      BY <2>4
    <3>3. u = rawseti(c, f, o) /\ f \notin DOMAIN c
      BY <1>5, <3>1, <3>2
    <3>. HIDE DEF c
    <3>4. /\ DOMAIN u = DOMAIN c \union {f} /\ u[f] = o
          /\ \A k \in DOMAIN c : u[k] = IF k = f THEN o ELSE c[k]
      BY <3>3 DEF rawseti
    <3>. QED  BY <3>2, <3>3, <3>4
  <2>. HIDE DEF u
  <2>6. Links(u) = Links(t) \ {0}
    BY <1>1, <1>5, <2>5 DEF Links
  <2>7. \A k \in Links(u) : LinkTo(u, k) = LinkTo(t, k) /\ u[k] = t[k]
    BY <1>5, <2>5, <2>6 DEF LinkTo, Links
  <2>8. \A k \in Links(u) : LinkTo(u, k) # f /\ LinkTo(u, k) \in DOMAIN t
    <3>1. \A k \in Links(u) : LinkTo(t, k) # f
      BY <1>1, <2>6 DEF RefOK, LinksApart
    <3>2. \A k \in Links(u) : LinkTo(t, k) \in DOMAIN t
      BY <1>1, <1>5, <2>6 DEF RefOK, OneEnd
    <3>. QED  BY <2>7, <3>1, <3>2
  <2>9. \A k \in Links(u) : LinkTo(u, k) \in Links(u)
    BY <2>6, <2>7, <2>8 DEF RefOK, LinksApart
  <2>10. Entries(u, r \union {<<f, o>>})
    <3>1. DOMAIN u \subseteq Nat /\ \A k \in DOMAIN u : u[k][1] # "nil"
      BY <1>1, <2>5 DEF RefOK, Entries
    <3>2. 0 \notin DOMAIN u
      BY <1>1, <2>5
    <3>3. \A x \in r : x[1] \in DOMAIN u /\ x[1] # 0 /\ u[x[1]] = x[2] /\ x[2][1] # "number"
      BY <2>5 DEF RefOK, Entries, freelist
    <3>. QED  BY <1>1, <2>5, <3>1, <3>2, <3>3 DEF Entries, freelist
  <2>11. LinksApart(u, r \union {<<f, o>>})
    BY <2>6, <2>7, <2>9 DEF RefOK, LinksApart
  <2>12. OneEnd(u)
    BY <2>9 DEF OneEnd, Links
  <2>. QED  BY <2>10, <2>11, <2>12 DEF RefOK, u, f
<1>. QED  BY <1>4, <1>5

(* luaL_unref: the key becomes the first of the list.                      *)
LEMMA ReleasedKey ==
  ASSUME NEW t, NEW r, RefOK(t, r), RefPairs(r), NEW x \in r
  PROVE  RefOK(Linked(t, x[1]), r \ {x})
<1>. DEFINE f == x[1]
            u == Linked(t, f)
            rest == r \ {x}
<1>1. f \in DOMAIN t /\ f \in Nat \ {0} /\ f \notin Links(t)
  BY DEF RefOK, Entries, Links, freelist
<1>2. \A y \in rest : y \in r /\ y[1] # f
  BY DEF RefPairs, RefOK, Entries
<1>3. \A k \in Links(t) : LinkTo(t, k) # f
  BY <1>1 DEF RefOK, LinksApart
<1>4. \A k \in DOMAIN t : t[k] # Nobody
  BY DEF RefOK, Entries, Nobody
<1>. HIDE DEF f, rest
<1>. DEFINE a == rawseti(t, f, rawgeti(t, 0))
            b == rawseti(a, 0, Number(f))
<1>5. u = Cleaned(b)
  BY DEF Linked, freelist
<1>6. DOMAIN a = DOMAIN t /\ \A k \in DOMAIN t : a[k] = IF k = f THEN rawgeti(t, 0) ELSE t[k]
  BY <1>1 DEF rawseti
<1>. HIDE DEF a
<1>7. /\ DOMAIN b = DOMAIN t \union {0} /\ b[0] = Number(f)
      /\ \A k \in DOMAIN t \ {0} : b[k] = IF k = f THEN rawgeti(t, 0) ELSE t[k]
  BY <1>6 DEF rawseti
<1>. HIDE DEF b, u
<1>8. Number(f) # Nobody /\ Number(f)[1] = "number" /\ Number(f)[2] = f
  BY DEF Number, Nobody
<1>9. CASE 0 \in DOMAIN t
  <2>1. 0 \in Links(t) /\ rawgeti(t, 0) = t[0] /\ t[0] # Nobody
    BY <1>4, <1>9 DEF RefOK, Entries, rawgeti, freelist
  <2>2. \A k \in DOMAIN b : b[k] # Nobody
    BY <1>4, <1>7, <1>8, <2>1
  <2>3. DOMAIN u = DOMAIN t /\ \A k \in DOMAIN t : u[k] = b[k]
    BY <1>5, <1>7, <1>9, <2>2 DEF Cleaned
  <2>4. /\ u[0] = Number(f) /\ u[f] = t[0]
        /\ \A k \in DOMAIN t : k # 0 /\ k # f => u[k] = t[k]
    BY <1>1, <1>7, <1>9, <2>1, <2>3
  <2>5. Links(u) = Links(t) \union {f}
    <3>1. t[0][1] = "number"
      BY <2>1 DEF Links
    <3>. QED  BY <1>1, <1>8, <1>9, <2>3, <2>4, <3>1 DEF Links
  <2>6. /\ LinkTo(u, 0) = f /\ LinkTo(u, f) = LinkTo(t, 0)
        /\ \A k \in Links(t) : k # 0 => LinkTo(u, k) = LinkTo(t, k) /\ u[k] = t[k]
    BY <1>1, <1>8, <2>4 DEF LinkTo, Links
  <2>7. Entries(u, rest)
    <3>1. \A k \in DOMAIN u : u[k][1] # "nil"
      BY <1>8, <2>3, <2>4, <2>1, <1>9 DEF RefOK, Entries
    <3>2. 0 \in Links(u)
      BY <2>1, <2>5
    <3>. QED  BY <1>2, <2>3, <2>4, <3>1, <3>2 DEF RefOK, Entries, freelist
  <2>8. LinksApart(u, rest)
    <3>1. \A k, m \in Links(u) : LinkTo(u, k) = LinkTo(u, m) => k = m
      BY <1>1, <1>3, <2>1, <2>5, <2>6 DEF RefOK, LinksApart
    <3>2. \A k \in Links(u) : LinkTo(u, k) \in Nat \ {0} /\ u[k] = Number(LinkTo(u, k))
      BY <1>1, <2>1, <2>4, <2>5, <2>6 DEF RefOK, LinksApart
    <3>3. \A k \in Links(u) : LinkTo(u, k) \in DOMAIN u => LinkTo(u, k) \in Links(u)
      BY <1>1, <2>1, <2>3, <2>5, <2>6 DEF RefOK, LinksApart
    <3>. QED  BY <3>1, <3>2, <3>3 DEF LinksApart
  <2>9. OneEnd(u)
    BY <1>1, <1>9, <2>1, <2>3, <2>5, <2>6 DEF RefOK, OneEnd, freelist
  <2>. QED  BY <2>7, <2>8, <2>9 DEF RefOK, u, f, rest
<1>10. CASE 0 \notin DOMAIN t
  <2>1. rawgeti(t, 0) = Nobody
    BY <1>10 DEF rawgeti
  <2>2. b[f] = Nobody /\ \A k \in DOMAIN t : k # f => b[k] = t[k]
    BY <1>1, <1>7, <1>10, <2>1
  <2>3. DOMAIN u = (DOMAIN t \ {f}) \union {0} /\ \A k \in DOMAIN u : u[k] = b[k]
    <3>1. DOMAIN u = {k \in DOMAIN b : b[k] # Nobody} /\ \A k \in DOMAIN u : u[k] = b[k]
      BY <1>5 DEF Cleaned
    <3>2. \A k \in DOMAIN t : k # f => b[k] # Nobody
      BY <1>4, <2>2
    <3>. QED  BY <1>1, <1>7, <1>8, <1>10, <2>2, <3>1, <3>2
  <2>4. u[0] = Number(f) /\ \A k \in DOMAIN t \ {f} : u[k] = t[k]
    BY <1>7, <2>2, <2>3
  <2>5. Links(u) = Links(t) \union {0}
    BY <1>1, <1>8, <1>10, <2>3, <2>4 DEF Links
  <2>6. LinkTo(u, 0) = f /\ \A k \in Links(t) : LinkTo(u, k) = LinkTo(t, k) /\ u[k] = t[k]
    BY <1>1, <1>8, <2>4 DEF LinkTo, Links
  <2>7. \A k \in Links(t) : LinkTo(t, k) \in DOMAIN t
    BY <1>10 DEF RefOK, OneEnd, freelist
  <2>8. Entries(u, rest)
    <3>1. \A k \in DOMAIN u : u[k][1] # "nil"
      BY <1>8, <2>3, <2>4 DEF RefOK, Entries
    <3>2. 0 \in Links(u)
      BY <2>5
    <3>3. \A y \in rest : y[1] \in DOMAIN u /\ u[y[1]] = t[y[1]]
      BY <1>2, <2>3, <2>4 DEF RefOK, Entries
    <3>. QED  BY <1>2, <2>3, <3>1, <3>2, <3>3 DEF RefOK, Entries, freelist
  <2>9. LinksApart(u, rest)
    <3>1. \A k, m \in Links(u) : LinkTo(u, k) = LinkTo(u, m) => k = m
      BY <1>3, <1>10, <2>5, <2>6 DEF RefOK, LinksApart, Links
    <3>2. \A k \in Links(u) : LinkTo(u, k) \in Nat \ {0} /\ u[k] = Number(LinkTo(u, k))
      BY <1>1, <2>4, <2>5, <2>6 DEF RefOK, LinksApart
    <3>3. \A k \in Links(u) : LinkTo(u, k) \in DOMAIN u => LinkTo(u, k) \in Links(u)
      BY <1>1, <1>3, <2>3, <2>5, <2>6, <2>7 DEF RefOK, LinksApart
    <3>. QED  BY <3>1, <3>2, <3>3 DEF LinksApart
  <2>10. OneEnd(u)
    BY <1>1, <1>3, <2>3, <2>5, <2>6, <2>7 DEF OneEnd, freelist
  <2>. QED  BY <2>8, <2>9, <2>10 DEF RefOK, u, f, rest
<1>. QED  BY <1>9, <1>10

(* luaL_unref that runs out of memory as it starts a list: the key is lost.*)
LEMMA LostKey ==
  ASSUME NEW t, NEW r, RefOK(t, r), RefPairs(r), NEW x \in r, freelist \notin DOMAIN t
  PROVE  RefOK(Cleaned(rawseti(t, x[1], Nobody)), r \ {x})
<1>. DEFINE f == x[1]
            u == Cleaned(rawseti(t, f, Nobody))
            rest == r \ {x}
<1>1. f \in DOMAIN t /\ f \notin Links(t)
  BY DEF RefOK, Entries, Links
<1>2. \A y \in rest : y \in r /\ y[1] # f
  BY DEF RefPairs, RefOK, Entries
<1>3. \A k \in DOMAIN t : t[k] # Nobody
  BY DEF RefOK, Entries, Nobody
<1>. HIDE DEF f, rest
<1>. DEFINE b == rawseti(t, f, Nobody)
<1>4. DOMAIN b = DOMAIN t /\ \A k \in DOMAIN t : b[k] = IF k = f THEN Nobody ELSE t[k]
  BY <1>1 DEF rawseti
<1>5. u = Cleaned(b)
  OBVIOUS
<1>. HIDE DEF b, u
<1>6. DOMAIN u = DOMAIN t \ {f} /\ \A k \in DOMAIN u : u[k] = t[k]
  BY <1>3, <1>4, <1>5 DEF Cleaned
<1>7. Links(u) = Links(t) /\ \A k \in Links(t) : LinkTo(u, k) = LinkTo(t, k) /\ u[k] = t[k]
  BY <1>1, <1>6 DEF Links, LinkTo
<1>8. \A k \in Links(t) : LinkTo(t, k) \in DOMAIN u
  BY <1>1, <1>6 DEF RefOK, OneEnd, LinksApart
<1>9. Entries(u, rest)
  BY <1>2, <1>6 DEF RefOK, Entries
<1>10. LinksApart(u, rest)
  BY <1>6, <1>7 DEF RefOK, LinksApart
<1>11. OneEnd(u)
  BY <1>7, <1>8 DEF OneEnd
<1>. QED  BY <1>9, <1>10, <1>11 DEF RefOK, u, f, rest

(* luaL_ref that runs out of memory for the key it has taken: only the     *)
(* last one of the list has no entry yet, and the list is empty then.      *)
LEMMA TakenKey ==
  ASSUME NEW t, NEW r, RefOK(t, r), freelist \in DOMAIN t,
         rawgeti(Unlinked(t, Free(t)), Free(t)) = Nobody
  PROVE  RefOK(Unlinked(t, Free(t)), r)
<1>. DEFINE f == Free(t)
            u == Unlinked(t, f)
<1>1. f = LinkTo(t, 0) /\ f \in Nat \ {0} /\ 0 \in Links(t) /\ 0 \in DOMAIN t
  BY FreeIsHead DEF freelist, RefOK, Entries
<1>2. rawgeti(u, f) = Nobody
  OBVIOUS
<1>3. u = Cleaned(rawseti(t, 0, rawgeti(t, f)))
  BY DEF Unlinked, freelist
<1>4. \A k \in DOMAIN t : t[k] # Nobody
  BY DEF RefOK, Entries, Nobody
<1>. HIDE DEF f
<1>. DEFINE b == rawseti(t, 0, rawgeti(t, f))
<1>5. DOMAIN b = DOMAIN t /\ \A k \in DOMAIN t : b[k] = IF k = 0 THEN rawgeti(t, f) ELSE t[k]
  BY <1>1 DEF rawseti
<1>6. u = Cleaned(b)
  BY <1>3
<1>. HIDE DEF b, u
<1>7. f \notin DOMAIN t
  <2>1. SUFFICES ASSUME f \in DOMAIN t
                 PROVE  FALSE
    OBVIOUS
  <2>2. f \in DOMAIN b /\ b[f] = t[f] /\ t[f] # Nobody
    BY <1>1, <1>4, <1>5, <2>1
  <2>3. f \in DOMAIN u /\ u[f] = t[f]
    BY <1>6, <2>2 DEF Cleaned
  <2>. QED  BY <1>2, <2>2, <2>3 DEF rawgeti
<1>8. rawgeti(t, f) = Nobody
  BY <1>7 DEF rawgeti
<1>9. DOMAIN u = DOMAIN t \ {0} /\ \A k \in DOMAIN u : u[k] = t[k]
  BY <1>1, <1>4, <1>5, <1>6, <1>8 DEF Cleaned
<1>10. Links(u) = Links(t) \ {0} /\ \A k \in Links(u) : LinkTo(u, k) = LinkTo(t, k) /\ u[k] = t[k]
  BY <1>9 DEF Links, LinkTo
<1>11. \A k \in Links(u) : LinkTo(t, k) # f /\ LinkTo(t, k) \in DOMAIN t
  <2>1. \A k \in Links(u) : LinkTo(t, k) # f
    BY <1>1, <1>10 DEF RefOK, LinksApart
  <2>. QED  BY <1>1, <1>7, <1>10, <2>1 DEF RefOK, OneEnd
<1>12. \A k \in Links(u) : LinkTo(u, k) \in DOMAIN u /\ LinkTo(u, k) \in Links(u)
  BY <1>9, <1>10, <1>11 DEF RefOK, LinksApart
<1>13. Entries(u, r)
  BY <1>9 DEF RefOK, Entries, freelist
<1>14. LinksApart(u, r)
  BY <1>10, <1>12 DEF RefOK, LinksApart
<1>15. OneEnd(u)
  BY <1>12 DEF OneEnd
<1>. QED  BY <1>13, <1>14, <1>15 DEF RefOK, u, f

LEMMA RefStep ==
  ASSUME RefInv, RefNext
  PROVE  RefInv'
<1>1. CASE luaL_ref
  <2>1. PICK o \in Objects, ref \in IF Free(reftab) # 0 THEN {Free(reftab)} ELSE {j + 1 : j \in Borders(reftab)} :
          \/ /\ reftab' = rawseti(Unlinked(reftab, ref), ref, o)
             /\ refs' = refs \union {<<ref, o>>}
          \/ /\ rawgeti(Unlinked(reftab, ref), ref) = Nobody
             /\ reftab' = Unlinked(reftab, ref) /\ refs' = refs
    BY <1>1 DEF luaL_ref
  <2>2. o[1] # "number" /\ o[1] # "nil"
    BY AuxAssumption
  <2>3. RefPairs(refs')
    BY <2>1 DEF RefInv, RefPairs
  <2>4. CASE freelist \in DOMAIN reftab
    <3>1. ref = Free(reftab)
      BY <2>1, <2>4, FreeIsHead DEF RefInv
    <3>. QED  BY <2>1, <2>2, <2>3, <2>4, <3>1, FirstKey, TakenKey DEF RefInv
  <2>5. CASE freelist \notin DOMAIN reftab
    <3>1. Free(reftab) = 0
      BY <2>5, FreeIsHead DEF RefInv
    <3>2. ref \in Nat \ {0} /\ ref \notin DOMAIN reftab
      BY <2>1, <3>1, AuxAssumption DEF Borders
    <3>3. Unlinked(reftab, ref) = reftab
      BY <3>1, <3>2 DEF Unlinked
    <3>. QED  BY <2>1, <2>2, <2>3, <2>5, <3>2, <3>3, NewKey DEF RefInv
  <2>. QED  BY <2>4, <2>5
<1>2. CASE luaL_unref
  <2>1. PICK r \in refs :
          /\ refs' = refs \ {r}
          /\ \/ reftab' = Linked(reftab, r[1])
             \/ Free(reftab) = 0 /\ reftab' = Cleaned(rawseti(reftab, r[1], Nobody))
    BY <1>2 DEF luaL_unref
  <2>2. RefPairs(refs')
    BY <2>1 DEF RefInv, RefPairs
  <2>3. Free(reftab) = 0 => freelist \notin DOMAIN reftab
    BY FreeIsHead DEF RefInv
  <2>. QED  BY <2>1, <2>2, <2>3, ReleasedKey, LostKey DEF RefInv
<1>. QED  BY <1>1, <1>2 DEF RefNext

LEMMA RefStart ==
  ASSUME RefInit(0 .. Reserved)
  PROVE  RefInv
<1>1. PICK n \in 0 .. Reserved :
        reftab = [k \in 1 .. n |-> <<"kept", k>>] /\ refs = {<<k, reftab[k]>> : k \in 1 .. n}
  BY DEF RefInit
<1>2. n \in Nat
  BY AuxAssumption
<1>3. /\ DOMAIN reftab = 1 .. n
      /\ \A k \in 1 .. n : reftab[k][1] = "kept"
      /\ \A x \in refs : x[1] \in 1 .. n /\ x[2] = reftab[x[1]] /\ x = <<x[1], x[2]>>
  <2>1. DOMAIN reftab = 1 .. n /\ \A k \in 1 .. n : reftab[k] = <<"kept", k>>
    BY <1>1
  <2>2. \A k \in 1 .. n : reftab[k][1] = "kept"
    BY <2>1
  <2>3. SUFFICES ASSUME NEW x \in refs
                 PROVE  x[1] \in 1 .. n /\ x[2] = reftab[x[1]] /\ x = <<x[1], x[2]>>
    BY <2>1, <2>2
  <2>4. PICK k \in 1 .. n : x = <<k, reftab[k]>>
    BY <1>1
  <2>. QED  BY <2>4
<1>4. Links(reftab) = {}
  BY <1>3 DEF Links
<1>5. Entries(reftab, refs)
  BY <1>2, <1>3 DEF Entries, freelist
<1>. QED  BY <1>3, <1>4, <1>5 DEF RefInv, RefOK, RefPairs, LinksApart, OneEnd

LEMMA RefResult ==
  ASSUME RefInv
  PROVE  RefsExact
BY DEF RefInv, RefOK, Entries, RefsExact, rawgeti

-----------------------------------------------------------------------------
(* Buffers                                                                 *)

(* Stacks of one and two values.                                           *)
LEMMA One ==
  ASSUME NEW a
  PROVE  /\ <<a>> \in Seq({a}) /\ Len(<<a>>) = 1 /\ <<a>>[1] = a
         /\ Last(<<a>>) = a /\ Append(<<>>, a) = <<a>> /\ RemoveAt(<<a>>, 1) = <<>>
         /\ \A c : [<<a>> EXCEPT ![1] = c] = <<c>>
<1>1. <<a>> \in Seq({a}) /\ Len(<<a>>) = 1 /\ <<a>>[1] = a
  OBVIOUS
<1>2. Last(<<a>>) = a
  BY DEF Last
<1>3. Append(<<>>, a) = <<a>>
  OBVIOUS
<1>4. SubSeq(<<a>>, 1, 0) = <<>> /\ SubSeq(<<a>>, 2, 1) = <<>>
  BY SubSeqEmpty
<1>5. <<>> \o <<>> = <<>>
  OBVIOUS
<1>6. RemoveAt(<<a>>, 1) = <<>>
  BY <1>1, <1>4, <1>5 DEF RemoveAt
<1>7. \A c : [<<a>> EXCEPT ![1] = c] = <<c>>
  OBVIOUS
<1>. QED  BY <1>1, <1>2, <1>3, <1>6, <1>7

LEMMA AppendOne ==
  ASSUME NEW a, NEW b
  PROVE  Append(<<a>>, b) = <<a, b>>
<1>. DEFINE q == Append(<<a>>, b)
            w == <<a, b>>
<1>1. <<a>> \in Seq({a, b}) /\ b \in {a, b} /\ Len(<<a>>) = 1
  OBVIOUS
<1>2. q \in Seq({a, b}) /\ Len(q) = 2 /\ q[1] = a /\ q[2] = b
  BY <1>1, AppendProperties
<1>3. w \in Seq({a, b}) /\ Len(w) = 2 /\ w[1] = a /\ w[2] = b
  OBVIOUS
<1>4. Len(q) = Len(w) /\ \A i \in 1 .. Len(q) : q[i] = w[i]
  BY <1>2, <1>3
<1>. HIDE DEF q, w
<1>5. q = w
  BY <1>2, <1>3, <1>4, SeqEqual
<1>. QED  BY <1>5 DEF q, w

LEMMA Two ==
  ASSUME NEW a, NEW b
  PROVE  /\ <<a, b>> \in Seq({a, b}) /\ Len(<<a, b>>) = 2 /\ <<a, b>>[1] = a /\ <<a, b>>[2] = b
         /\ Last(<<a, b>>) = b /\ Append(<<a>>, b) = <<a, b>>
         /\ RemoveAt(<<a, b>>, 1) = <<b>>
         /\ SubSeq(<<a, b>>, 1, 0) \o <<b, a>> = <<b, a>>
<1>1. <<a, b>> \in Seq({a, b}) /\ Len(<<a, b>>) = 2 /\ <<a, b>>[1] = a /\ <<a, b>>[2] = b
  OBVIOUS
<1>2. Last(<<a, b>>) = b
  BY DEF Last
<1>3. Append(<<a>>, b) = <<a, b>>
  BY AppendOne
<1>4. SubSeq(<<a, b>>, 1, 0) = <<>>
  BY SubSeqEmpty
<1>5. SubSeq(<<a, b>>, 2, 2) = <<b>>
  <2>. DEFINE p2 == <<a, b>>
              q == SubSeq(p2, 2, 2)
  <2>1. \A i \in 2 .. 2 : p2[i] \in {b}
    BY <1>1
  <2>2. /\ q \in Seq({b}) /\ Len(q) = (IF 2 <= 2 THEN 2 - 2 + 1 ELSE 0)
        /\ \A i \in 1 .. 2 - 2 + 1 : q[i] = p2[2 + i - 1]
    <3>. HIDE DEF p2
    <3>. QED  BY <2>1, SubSeqProperties
  <2>3. Len(q) = 1 /\ q[1] = b
    BY <1>1, <2>2
  <2>. DEFINE w == <<b>>
  <2>4. w \in Seq({b}) /\ Len(q) = Len(w) /\ \A i \in 1 .. Len(q) : q[i] = w[i]
    BY <2>3
  <2>. HIDE DEF q, w
  <2>5. q = w
    BY <2>2, <2>4, SeqEqual
  <2>. QED  BY <2>5 DEF q, w, p2
<1>6. <<>> \o <<b>> = <<b>> /\ <<>> \o <<b, a>> = <<b, a>>
  OBVIOUS
<1>7. RemoveAt(<<a, b>>, 1) = <<b>>
  <2>1. RemoveAt(<<a, b>>, 1) = SubSeq(<<a, b>>, 1, 0) \o SubSeq(<<a, b>>, 2, 2)
    BY <1>1 DEF RemoveAt
  <2>. QED  BY <1>4, <1>5, <1>6, <2>1
<1>8. SubSeq(<<a, b>>, 1, 0) \o <<b, a>> = <<b, a>>
  BY <1>4, <1>6
<1>. QED  BY <1>1, <1>2, <1>3, <1>7, <1>8

(* A sequence is all of itself.                                            *)
LEMMA WholeSeq ==
  ASSUME NEW S, NEW q \in Seq(S)
  PROVE  SubSeq(q, 1, Len(q)) = q
OBVIOUS

Bytes == UNION {Range(piece) : piece \in Pieces}

(* What a function has on the stack: the box of the buffer, if it has one, *)
(* and perhaps a value.                                                    *)
Based(b, stk)     == stk = IF b.box THEN <<BoxV(b.size)>> ELSE <<>>
Topped(b, stk, v) == stk = IF b.box THEN <<BoxV(b.size), v>> ELSE <<v>>

SpaceOK ==
  /\ B \in [n : Nat, size : 0 .. Wide - 1, box : BOOLEAN]
  /\ bytes \in Seq(Bytes) /\ text \in Seq(Bytes)
  /\ BufContents = text /\ B.n = Len(text)
  /\ area \in Nat /\ B.n + area <= B.size
  /\ ~B.box => B.size = LUAL_BUFFERSIZE

BufInv ==
  /\ bpc \in {"start", "open", "area", "done", "error"}
  /\ bpc = "start" => lstack = <<>> /\ bytes = <<>> /\ text = <<>> /\ area = 0
  /\ bpc \in {"open", "area"} => SpaceOK
  /\ bpc = "open" => area = 0 /\ (Based(B, lstack) \/ \E piece \in Pieces : Topped(B, lstack, StrV(piece)))
  /\ bpc = "area" => Based(B, lstack)
  /\ bpc = "done" => lstack = <<StrV(text)>>

(* Remainders modulo the width of a size.                                  *)
LEMMA SizeRange ==
  /\ Wide \in Nat /\ Wide > 1
  /\ \A x \in Int : x % Wide \in 0 .. Wide - 1
  /\ \A x \in 0 .. Wide - 1 : x % Wide = x
<1>1. Wide \in Nat /\ Wide > 1
  BY AuxAssumption
<1>2. \A w \in Nat : w > 1 => (\A x \in Int : x % w \in 0 .. w - 1) /\ (\A x \in 0 .. w - 1 : x % w = x)
  OBVIOUS
<1>. QED  BY <1>1, <1>2

(* A size that newbuffsize accepts has the space, wrapped around or not.   *)
LEMMA NewSizeFits ==
  ASSUME SpaceOK, NEW sz \in Nat, NewSize(sz) # 0
  PROVE  NewSize(sz) \in 0 .. Wide - 1 /\ NewSize(sz) - B.n >= sz
<1>. DEFINE double  == (B.size * 2) % Wide
            newsize == IF (double - B.n) % Wide < sz THEN (B.n + sz) % Wide ELSE double
<1>1. B.n \in Nat /\ B.size \in Nat /\ B.n < Wide
  <2>1. B \in [n : Nat, size : 0 .. Wide - 1, box : BOOLEAN] /\ area \in Nat /\ B.n + area <= B.size
    BY DEF SpaceOK
  <2>2. B.n \in Nat /\ B.size \in 0 .. Wide - 1
    BY <2>1
  <2>. QED  BY <2>1, <2>2, SizeRange
<1>2. double \in 0 .. Wide - 1 /\ newsize \in 0 .. Wide - 1
  <2>1. B.size * 2 \in Int /\ B.n + sz \in Int
    BY <1>1
  <2>. QED  BY <2>1, SizeRange
<1>3. NewSize(sz) = IF newsize < B.n \/ (newsize - B.n) % Wide < sz THEN 0 ELSE newsize
  BY DEF NewSize
<1>. HIDE DEF newsize
<1>4. NewSize(sz) = newsize /\ ~(newsize < B.n) /\ ~((newsize - B.n) % Wide < sz)
  BY <1>3
<1>5. newsize - B.n \in 0 .. Wide - 1
  BY <1>1, <1>2, <1>4, SizeRange
<1>6. (newsize - B.n) % Wide = newsize - B.n
  BY <1>5, SizeRange
<1>. QED  BY <1>1, <1>2, <1>4, <1>6

(* The space that luaL_prepbuffsize returns, and what it leaves on the     *)
(* stack.                                                                  *)
LEMMA PreparedFits ==
  ASSUME SpaceOK, NEW stk, NEW sz \in Nat, NEW r \in Prepared(stk, sz)
  PROVE  /\ r.B \in [n : Nat, size : 0 .. Wide - 1, box : BOOLEAN]
         /\ r.B.n = B.n /\ r.B.n + sz <= r.B.size
         /\ \/ r.B = B /\ r.stack = stk
            \/ /\ r.B.box
               /\ r.stack = IF B.box THEN resizebox(stk, r.B.size) ELSE Append(stk, BoxV(r.B.size))
<1>1. B.n \in Nat /\ B.size \in 0 .. Wide - 1 /\ B \in [n : Nat, size : 0 .. Wide - 1, box : BOOLEAN]
  BY DEF SpaceOK
<1>2. CASE B.size - B.n >= sz
  <2>1. r = [B |-> B, stack |-> stk]
    BY <1>2 DEF Prepared
  <2>. QED  BY <1>1, <1>2, <2>1, SizeRange
<1>3. CASE ~(B.size - B.n >= sz)
  <2>1. B.size - B.n < sz
    BY <1>1, <1>3, SizeRange
  <2>. DEFINE larger == [B EXCEPT !.size = NewSize(sz), !.box = TRUE]
  <2>2. NewSize(sz) # 0
        /\ r = [B |-> larger,
                stack |-> IF B.box THEN resizebox(stk, NewSize(sz)) ELSE Append(stk, BoxV(NewSize(sz)))]
    BY <1>3, <2>1 DEF Prepared, buffonstack
  <2>3. NewSize(sz) \in 0 .. Wide - 1 /\ NewSize(sz) - B.n >= sz
    BY <2>2, NewSizeFits
  <2>4. larger \in [n : Nat, size : 0 .. Wide - 1, box : BOOLEAN]
        /\ larger.n = B.n /\ larger.size = NewSize(sz) /\ larger.box
    BY <1>1, <2>3
  <2>. HIDE DEF larger
  <2>5. r.B = larger
        /\ r.stack = IF B.box THEN resizebox(stk, NewSize(sz)) ELSE Append(stk, BoxV(NewSize(sz)))
    BY <2>2
  <2>6. r.B.size = NewSize(sz) /\ r.B.box /\ r.B.n = B.n
    BY <2>4, <2>5
  <2>7. r.stack = IF B.box THEN resizebox(stk, r.B.size) ELSE Append(stk, BoxV(r.B.size))
    BY <2>5, <2>6
  <2>8. B.n + sz <= r.B.size
    BY <1>1, <2>3, <2>6, SizeRange
  <2>. QED  BY <2>4, <2>5, <2>6, <2>7, <2>8
<1>. QED  BY <1>2, <1>3

(* The text after an addition, for which the space is enough.              *)
LEMMA AddedFits ==
  ASSUME SpaceOK, NEW piece \in Seq(Bytes), NEW b \in [n : Nat, size : 0 .. Wide - 1, box : BOOLEAN],
         b.n = B.n, b.n + Len(piece) <= b.size, ~b.box => b.size = LUAL_BUFFERSIZE,
         Added(b, piece), area' = 0
  PROVE  SpaceOK' /\ B'.box = b.box /\ B'.size = b.size
<1>1. text \in Seq(Bytes) /\ B.n = Len(text) /\ Len(piece) \in Nat /\ Len(text) \in Nat
  BY LenProperties DEF SpaceOK
<1>2. /\ B' \in [n : Nat, size : 0 .. Wide - 1, box : BOOLEAN]
      /\ B'.n = b.n + Len(piece) /\ B'.size = b.size /\ B'.box = b.box
  <2>1. B' = [b EXCEPT !.n = b.n + Len(piece)]
    BY DEF Added
  <2>2. b.n + Len(piece) \in Nat
    BY <1>1
  <2>. QED  BY <2>1, <2>2
<1>3. text' = text \o piece /\ bytes' = text \o piece
  BY DEF Added, SpaceOK
<1>4. text \o piece \in Seq(Bytes) /\ Len(text \o piece) = Len(text) + Len(piece)
  BY <1>1, ConcatProperties
<1>5. SubSeq(bytes', 1, B'.n) = text'
  BY <1>1, <1>2, <1>3, <1>4, WholeSeq
<1>. QED  BY <1>1, <1>2, <1>3, <1>4, <1>5 DEF SpaceOK, BufContents

(* The box stays where it was, alone or, during luaL_addvalue, above the   *)
(* value; a new one comes to the top.                                      *)
LEMMA BoxStays ==
  ASSUME SpaceOK, Based(B, lstack), NEW sz \in Nat, NEW r \in Prepared(lstack, sz)
  PROVE  Based(r.B, r.stack)
<1>1. CASE r.B = B /\ r.stack = lstack
  BY <1>1 DEF Based
<1>2. CASE r.B.box /\ r.stack = IF B.box THEN resizebox(lstack, r.B.size) ELSE Append(lstack, BoxV(r.B.size))
  <2>1. CASE B.box
    <3>. DEFINE bx == BoxV(B.size)
    <3>1. lstack = <<bx>> /\ bx.box
      BY <2>1 DEF Based, BoxV
    <3>. HIDE DEF bx
    <3>2. Last(<<bx>>) = bx /\ Len(<<bx>>) = 1 /\ [<<bx>> EXCEPT ![1] = BoxV(r.B.size)] = <<BoxV(r.B.size)>>
      BY One
    <3>3. resizebox(lstack, r.B.size) = <<BoxV(r.B.size)>>
      BY <3>1, <3>2 DEF resizebox
    <3>. QED  BY <1>2, <2>1, <3>3 DEF Based
  <2>2. CASE ~B.box
    BY <1>2, <2>2, One DEF Based
  <2>. QED  BY <2>1, <2>2
<1>. QED  BY <1>1, <1>2, PreparedFits

LEMMA ValueStays ==
  ASSUME SpaceOK, NEW v, ~v.box, NEW sz \in Nat,
         NEW stk, stk = IF B.box THEN <<v, BoxV(B.size)>> ELSE <<v>>,
         NEW r \in Prepared(stk, sz)
  PROVE  r.stack = IF r.B.box THEN <<v, BoxV(r.B.size)>> ELSE <<v>>
<1>1. CASE r.B = B /\ r.stack = stk
  BY <1>1
<1>2. CASE r.B.box /\ r.stack = IF B.box THEN resizebox(stk, r.B.size) ELSE Append(stk, BoxV(r.B.size))
  <2>1. CASE B.box
    <3>. DEFINE bx == BoxV(B.size)
    <3>1. stk = <<v, bx>> /\ bx.box
      BY <2>1 DEF BoxV
    <3>. HIDE DEF bx
    <3>2. Last(<<v, bx>>) = bx /\ Len(<<v, bx>>) = 2
      BY DEF Last
    <3>3. \A c : [<<v, bx>> EXCEPT ![2] = c] = <<v, c>>
      OBVIOUS
    <3>4. resizebox(stk, r.B.size) = <<v, BoxV(r.B.size)>>
      BY <3>1, <3>2, <3>3 DEF resizebox
    <3>. QED  BY <1>2, <2>1, <3>4
  <2>2. CASE ~B.box
    <3>. DEFINE bx == BoxV(r.B.size)
    <3>1. r.stack = Append(<<v>>, bx)
      BY <1>2, <2>2
    <3>. HIDE DEF bx
    <3>2. Append(<<v>>, bx) = <<v, bx>>
      BY AppendOne
    <3>. QED  BY <1>2, <3>1, <3>2 DEF bx
  <2>. QED  BY <2>1, <2>2
<1>. QED  BY <1>1, <1>2, PreparedFits

(* Is the function's stack as luaL_Buffer asks, or is there a value?       *)
LEMMA StackShape ==
  ASSUME BufInv, bpc = "open"
  PROVE  /\ Balanced => Based(B, lstack)
         /\ ~Balanced => \E piece \in Pieces : Topped(B, lstack, StrV(piece))
<1>1. ASSUME Based(B, lstack) PROVE Balanced
  BY <1>1, One DEF Based, Balanced
<1>2. ASSUME NEW piece \in Pieces, Topped(B, lstack, StrV(piece)) PROVE ~Balanced
  <2>1. Len(lstack) = IF B.box THEN 2 ELSE 1
    BY <1>2, One, Two DEF Topped
  <2>. QED  BY <2>1 DEF Balanced
<1>. QED  BY <1>1, <1>2 DEF BufInv

LEMMA PiecesAreTexts == \A piece \in Pieces : piece \in Seq(Bytes) /\ Len(piece) \in Nat
<1>1. \A piece \in Pieces : piece \in Seq(Bytes)
  BY AuxAssumption DEF Bytes
<1>. QED  BY <1>1, LenProperties

-----------------------------------------------------------------------------
LEMMA ErrorKeeps ==
  ASSUME BufferError
  PROVE  BufInv'
BY DEF BufferError, BufInv

LEMMA InitKeeps ==
  ASSUME BufInv, luaL_buffinit
  PROVE  BufInv'
<1>1. lstack = <<>> /\ bytes = <<>> /\ text = <<>> /\ area = 0
  BY DEF BufInv, luaL_buffinit
<1>2. /\ bpc' = "open" /\ B' = [n |-> 0, size |-> LUAL_BUFFERSIZE, box |-> FALSE]
      /\ lstack' = <<>> /\ bytes' = <<>> /\ text' = <<>> /\ area' = 0
  BY <1>1 DEF luaL_buffinit
<1>3. LUAL_BUFFERSIZE \in 1 .. Wide - 1 /\ Wide \in Nat
  BY AuxAssumption
<1>4. /\ B' \in [n : Nat, size : 0 .. Wide - 1, box : BOOLEAN]
      /\ B'.n = 0 /\ B'.size = LUAL_BUFFERSIZE /\ ~B'.box
  BY <1>2, <1>3
<1>5. <<>> \in Seq(Bytes) /\ Len(<<>>) = 0 /\ SubSeq(<<>>, 1, 0) = <<>>
  BY EmptySeq, SubSeqEmpty
<1>6. SpaceOK'
  BY <1>2, <1>3, <1>4, <1>5 DEF SpaceOK, BufContents
<1>. QED  BY <1>2, <1>4, <1>6 DEF BufInv, Based

LEMMA PushValueKeeps ==
  ASSUME BufInv, PushValue
  PROVE  BufInv'
<1>1. PICK piece \in Pieces : lstack' = Append(lstack, StrV(piece))
  BY DEF PushValue
<1>2. bpc = "open" /\ bpc' = "open" /\ B' = B /\ bytes' = bytes /\ area' = area /\ text' = text /\ Balanced
  BY DEF PushValue
<1>3. Based(B, lstack) /\ SpaceOK /\ area = 0
  BY <1>2, StackShape DEF BufInv
<1>4. SpaceOK'
  BY <1>2, <1>3 DEF SpaceOK, BufContents
<1>5. Topped(B, lstack', StrV(piece))
  <2>. DEFINE v == StrV(piece)
              bx == BoxV(B.size)
  <2>1. lstack' = Append(IF B.box THEN <<bx>> ELSE <<>>, v)
    BY <1>1, <1>3 DEF Based
  <2>. HIDE DEF v, bx
  <2>2. lstack' = IF B.box THEN <<bx, v>> ELSE <<v>>
    BY <2>1, AppendOne, One
  <2>. QED  BY <2>2 DEF Topped, bx, v
<1>. QED  BY <1>2, <1>3, <1>4, <1>5 DEF BufInv

LEMMA AddStringKeeps ==
  ASSUME BufInv, luaL_addlstring
  PROVE  BufInv'
<1>1. bpc = "open" /\ Based(B, lstack) /\ SpaceOK /\ area = 0
  BY StackShape DEF luaL_addlstring, BufInv
<1>2. CASE BufferError
  BY <1>2, ErrorKeeps
<1>3. ASSUME NEW piece \in Pieces, NEW r \in Prepared(lstack, Len(piece)),
             lstack' = r.stack, Added(r.B, piece), bpc' = bpc, area' = area
      PROVE  BufInv'
  <2>1. piece \in Seq(Bytes) /\ Len(piece) \in Nat
    BY PiecesAreTexts
  <2>2. Based(r.B, r.stack)
    BY <1>1, <2>1, BoxStays
  <2>3. /\ r.B \in [n : Nat, size : 0 .. Wide - 1, box : BOOLEAN]
        /\ r.B.n = B.n /\ r.B.n + Len(piece) <= r.B.size
        /\ ~r.B.box => r.B = B
    BY <1>1, <2>1, PreparedFits
  <2>4. ~r.B.box => r.B.size = LUAL_BUFFERSIZE
    BY <1>1, <2>3 DEF SpaceOK
  <2>5. SpaceOK' /\ B'.box = r.B.box /\ B'.size = r.B.size
    BY <1>1, <1>3, <2>1, <2>3, <2>4, AddedFits
  <2>6. Based(B', lstack')
    BY <1>3, <2>2, <2>5 DEF Based
  <2>. QED  BY <1>1, <1>3, <2>5, <2>6 DEF BufInv
<1>. QED  BY <1>2, <1>3 DEF luaL_addlstring, NoSpace

LEMMA AddValueKeeps ==
  ASSUME BufInv, luaL_addvalue
  PROVE  BufInv'
<1>1. bpc = "open" /\ SpaceOK /\ area = 0
  BY DEF luaL_addvalue, BufInv
<1>2. PICK piece \in Pieces : Topped(B, lstack, StrV(piece))
  BY <1>1, StackShape DEF luaL_addvalue
<1>. DEFINE v == Last(lstack)
            inserted == IF buffonstack(B) THEN SubSeq(lstack, 1, FromTop(-3)) \o <<v, lstack[FromTop(-2)]>> ELSE lstack
<1>3. v = StrV(piece)
  <2>. DEFINE w == StrV(piece)
              bx == BoxV(B.size)
  <2>1. lstack = IF B.box THEN <<bx, w>> ELSE <<w>>
    BY <1>2 DEF Topped
  <2>. HIDE DEF w, bx
  <2>2. Last(<<bx, w>>) = w /\ Last(<<w>>) = w
    BY DEF Last
  <2>. QED  BY <2>1, <2>2 DEF w
<1>4. v.str = piece /\ ~v.box /\ piece \in Seq(Bytes) /\ Len(piece) \in Nat
  BY <1>3, PiecesAreTexts DEF StrV
<1>5. inserted = IF B.box THEN <<v, BoxV(B.size)>> ELSE <<v>>
  <2>1. CASE B.box
    <3>. DEFINE bx == BoxV(B.size)
    <3>1. lstack = <<bx, v>>
      BY <1>2, <1>3, <2>1 DEF Topped
    <3>. HIDE DEF bx, v
    <3>2. Len(lstack) = 2 /\ lstack[1] = bx
      BY <3>1
    <3>3. FromTop(-3) = 0 /\ FromTop(-2) = 1
      BY <3>2 DEF FromTop
    <3>4. SubSeq(lstack, 1, 0) \o <<v, bx>> = <<v, bx>>
      BY <3>1, Two
    <3>. QED  BY <2>1, <3>2, <3>3, <3>4 DEF buffonstack, bx
  <2>2. CASE ~B.box
    BY <1>2, <1>3, <2>2 DEF Topped, buffonstack
  <2>. QED  BY <2>1, <2>2
<1>6. CASE BufferError
  BY <1>6, ErrorKeeps
<1>7. ASSUME NEW r \in Prepared(inserted, Len(v.str)),
             lstack' = RemoveAt(r.stack, Len(r.stack) + 1 + ValueIndex(r.B)),
             Added(r.B, v.str), bpc' = bpc, area' = area
      PROVE  BufInv'
  <2>. HIDE DEF v, inserted
  <2>1. r.stack = IF r.B.box THEN <<v, BoxV(r.B.size)>> ELSE <<v>>
    BY <1>1, <1>4, <1>5, <1>7, ValueStays
  <2>2. /\ r.B \in [n : Nat, size : 0 .. Wide - 1, box : BOOLEAN]
        /\ r.B.n = B.n /\ r.B.n + Len(piece) <= r.B.size
        /\ ~r.B.box => r.B = B
    BY <1>1, <1>4, <1>7, PreparedFits
  <2>3. ~r.B.box => r.B.size = LUAL_BUFFERSIZE
    BY <1>1, <2>2 DEF SpaceOK
  <2>4. SpaceOK' /\ B'.box = r.B.box /\ B'.size = r.B.size
    BY <1>1, <1>4, <1>7, <2>2, <2>3, AddedFits
  <2>5. lstack' = IF r.B.box THEN <<BoxV(r.B.size)>> ELSE <<>>
    <3>. DEFINE bx == BoxV(r.B.size)
    <3>1. r.stack = IF r.B.box THEN <<v, bx>> ELSE <<v>>
      BY <2>1
    <3>. HIDE DEF bx
    <3>2. Len(r.stack) + 1 + ValueIndex(r.B) = 1
      BY <3>1 DEF ValueIndex, buffonstack
    <3>3. lstack' = RemoveAt(r.stack, 1)
      BY <1>7, <3>2
    <3>4. RemoveAt(<<v, bx>>, 1) = <<bx>>
      BY Two
    <3>5. RemoveAt(<<v>>, 1) = <<>>
      BY One
    <3>. QED  BY <3>1, <3>3, <3>4, <3>5 DEF bx
  <2>6. Based(B', lstack')
    BY <2>4, <2>5 DEF Based
  <2>. QED  BY <1>1, <1>7, <2>4, <2>6 DEF BufInv
<1>. QED  BY <1>6, <1>7 DEF luaL_addvalue, NoSpace

LEMMA PrepareKeeps ==
  ASSUME BufInv, luaL_prepbuffsize
  PROVE  BufInv'
<1>1. bpc = "open" /\ Based(B, lstack) /\ SpaceOK
  BY StackShape DEF luaL_prepbuffsize, BufInv
<1>2. CASE BufferError
  BY <1>2, ErrorKeeps
<1>3. ASSUME NEW sz \in Areas, NEW r \in Prepared(lstack, sz),
             B' = r.B, lstack' = r.stack, area' = sz, bpc' = "area", bytes' = bytes, text' = text
      PROVE  BufInv'
  <2>1. sz \in Nat
    BY AuxAssumption
  <2>2. Based(r.B, r.stack)
    BY <1>1, <2>1, BoxStays
  <2>3. /\ r.B \in [n : Nat, size : 0 .. Wide - 1, box : BOOLEAN]
        /\ r.B.n = B.n /\ r.B.n + sz <= r.B.size
        /\ ~r.B.box => r.B = B
    BY <1>1, <2>1, PreparedFits
  <2>4. SpaceOK'
    BY <1>1, <1>3, <2>1, <2>3 DEF SpaceOK, BufContents
  <2>. QED  BY <1>3, <2>2, <2>4 DEF BufInv
<1>. QED  BY <1>2, <1>3 DEF luaL_prepbuffsize, NoSpace

LEMMA AddSizeKeeps ==
  ASSUME BufInv, luaL_addsize
  PROVE  BufInv'
<1>1. bpc = "area" /\ bpc' = "open" /\ area' = 0 /\ lstack' = lstack /\ SpaceOK /\ Based(B, lstack)
  BY DEF luaL_addsize, BufInv
<1>2. PICK piece \in Pieces \union {<<>>} : Len(piece) <= area /\ Added(B, piece)
  BY DEF luaL_addsize
<1>3. piece \in Seq(Bytes) /\ Len(piece) \in Nat
  BY PiecesAreTexts, EmptySeq
<1>4. /\ B \in [n : Nat, size : 0 .. Wide - 1, box : BOOLEAN] /\ area \in Nat
      /\ B.n + area <= B.size /\ (~B.box => B.size = LUAL_BUFFERSIZE)
  BY <1>1 DEF SpaceOK
<1>5. B.n + Len(piece) <= B.size
  <2>1. B.n \in Nat /\ B.size \in 0 .. Wide - 1 /\ Wide \in Nat
    BY <1>4, SizeRange
  <2>. QED  BY <1>2, <1>3, <1>4, <2>1
<1>6. SpaceOK' /\ B'.box = B.box /\ B'.size = B.size
  BY <1>1, <1>2, <1>3, <1>4, <1>5, AddedFits
<1>. QED  BY <1>1, <1>6 DEF BufInv, Based

LEMMA ResultKeeps ==
  ASSUME BufInv, luaL_pushresult
  PROVE  BufInv'
<1>1. bpc = "open" /\ Based(B, lstack) /\ BufContents = text
  BY StackShape DEF luaL_pushresult, BufInv, SpaceOK
<1>2. CASE BufferError
  BY <1>2, ErrorKeeps
<1>3. CASE ~BufferError
  <2>. DEFINE v == StrV(text)
              bx == BoxV(B.size)
  <2>1. /\ bpc' = "done" /\ text' = text
        /\ lstack' = IF B.box THEN RemoveAt(Append(lstack, v), FromTop(-1)) ELSE Append(lstack, v)
    BY <1>1, <1>3 DEF luaL_pushresult, buffonstack
  <2>2. lstack = IF B.box THEN <<bx>> ELSE <<>>
    BY <1>1 DEF Based
  <2>3. StrV(text') = v
    BY <2>1
  <2>. HIDE DEF v, bx
  <2>4. B.box => FromTop(-1) = 1
    BY <2>2 DEF FromTop
  <2>5. Append(<<bx>>, v) = <<bx, v>> /\ Append(<<>>, v) = <<v>>
    BY AppendOne, One
  <2>6. RemoveAt(<<bx, v>>, 1) = <<v>>
    BY Two
  <2>7. lstack' = <<v>>
    BY <2>1, <2>2, <2>4, <2>5, <2>6
  <2>. QED  BY <2>1, <2>3, <2>7 DEF BufInv
<1>. QED  BY <1>2, <1>3

LEMMA BufStep ==
  ASSUME BufInv, BufNext
  PROVE  BufInv'
BY InitKeeps, PushValueKeeps, AddStringKeeps, AddValueKeeps, PrepareKeeps, AddSizeKeeps, ResultKeeps
   DEF BufNext

LEMMA BufStart ==
  ASSUME BufInit
  PROVE  BufInv
BY DEF BufInit, BufInv

LEMMA BufResult ==
  ASSUME BufInv
  PROVE  BufferExact
<1>1. ASSUME bpc \in {"open", "area"}
      PROVE  IF B.box THEN \/ lstack = <<BoxV(B.size)>>
                           \/ \E piece \in Pieces : lstack = <<BoxV(B.size), StrV(piece)>>
             ELSE lstack = <<>> \/ \E piece \in Pieces : lstack = <<StrV(piece)>>
  BY <1>1 DEF BufInv, Based, Topped
<1>2. ASSUME bpc \in {"open", "area"}
      PROVE  /\ B.box => lstack[1] = BoxV(B.size)
             /\ \A k \in DOMAIN lstack : lstack[k].box => B.box /\ k = 1
  <2>1. BoxV(B.size).box /\ \A piece : ~StrV(piece).box
    BY DEF BoxV, StrV
  <2>. QED  BY <1>1, <1>2, <2>1
<1>3. bpc \in {"open", "area"} => SpaceOK
  BY DEF BufInv
<1>. QED  BY <1>2, <1>3 DEF BufInv, SpaceOK, BufferExact

-----------------------------------------------------------------------------
(* Functions that use a buffer and a table of references, independently.   *)
AuxInit == BufInit /\ RefInit(0 .. Reserved)
AuxNext == \/ BufNext /\ UNCHANGED refVars
           \/ RefNext /\ UNCHANGED bufVars
AuxSpec == AuxInit /\ [][AuxNext]_<<bufVars, refVars>>

(* A buffer returns what was added to it, in the space it has, and         *)
(* references in use keep their objects, whatever the sizes, the pieces    *)
(* and the calls, and also when an allocation fails.                       *)
THEOREM AuxAlwaysSound == AuxSpec => []AuxSound
<1>1. AuxInit => BufInv /\ RefInv
  BY BufStart, RefStart DEF AuxInit
<1>2. BufInv /\ RefInv /\ [AuxNext]_<<bufVars, refVars>> => (BufInv /\ RefInv)'
  <2>. SUFFICES ASSUME BufInv, RefInv, [AuxNext]_<<bufVars, refVars>>
                PROVE  BufInv' /\ RefInv'
    OBVIOUS
  <2>1. ASSUME UNCHANGED bufVars PROVE BufInv'
    BY <2>1 DEF BufInv, SpaceOK, BufContents, Based, Topped, bufVars
  <2>2. ASSUME UNCHANGED refVars PROVE RefInv'
    BY <2>2 DEF RefInv, refVars
  <2>3. CASE BufNext /\ UNCHANGED refVars
    BY <2>2, <2>3, BufStep
  <2>4. CASE RefNext /\ UNCHANGED bufVars
    BY <2>1, <2>4, RefStep
  <2>5. CASE UNCHANGED <<bufVars, refVars>>
    BY <2>1, <2>2, <2>5
  <2>. QED  BY <2>3, <2>4, <2>5 DEF AuxNext
<1>3. BufInv /\ RefInv => AuxSound
  BY BufResult, RefResult DEF AuxSound
<1>. QED  BY <1>1, <1>2, <1>3, PTL DEF AuxSpec
=============================================================================
