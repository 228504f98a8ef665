----------------------------- MODULE LuaStrings -----------------------------
(* The table of short strings and the cache of the API (lstring.c), with   *)
(* the collector as far as it meets them: it makes strings dead, removes   *)
(* them one by one and shrinks the table (lgc.c).  An allocation may run a *)
(* whole emergency collection in the middle of an operation (lmem.c).      *)
EXTENDS Integers, Sequences, SequencesExt, FiniteSetsExt

CONSTANTS Names,         (* contents of strings                             *)
          MEMERRMSG,     (* one of them, of the fixed string                *)
          Literals,      (* contents the API passes by address              *)
          Hash,          (* hash of each content                            *)
          STRCACHE_M,    (* strings in a row of the cache                   *)
          MINSTRTABSIZE,
          MaxTable       (* MAX_INT: a larger table does not grow           *)

ASSUME StringsAssumption ==
  /\ MEMERRMSG \in Names /\ Literals \subseteq Names /\ Hash \in [Names -> Nat]
  /\ STRCACHE_M \in Nat \ {0} /\ MINSTRTABSIZE \in Nat \ {0} /\ MaxTable \in Nat

VARIABLES
  g,       (* of the global_State: the strings, those of them that are dead *)
           (* and not swept, the table with its chains, nuse and one row of *)
           (* the cache                                                     *)
  phase,   (* "pause", also while it marks, or "sweep"                      *)
  making,  (* the string that is being made: where internshrstr is          *)
  held     (* the last string made, which the program holds, or NoString    *)

strVars == <<g, phase, making, held>>

(* A string: its content, and a number to tell equal ones apart.           *)
Name(ts)   == ts[1]
memerrmsg  == <<MEMERRMSG, 1>>
NoString   == <<>>
Resting    == [pc |-> "none", name |-> MEMERRMSG, new |-> FALSE]
lmod(n, size)    == (Hash[n] % size) + 1
list(s, n)       == s.hash[lmod(n, Len(s.hash))]

(* Every node goes to the front of its new chain.                          *)
luaS_resize(s, newsize) ==
  [s EXCEPT !.hash = FoldLeft(LAMBDA tb, ts : [tb EXCEPT ![lmod(Name(ts), newsize)] = <<ts>> \o @],
                              [h \in 1..newsize |-> <<>>], FlattenSeq(s.hash))]

luaS_remove(s, ts) ==
  [s EXCEPT !.hash[lmod(Name(ts), Len(s.hash))] = SelectSeq(@, LAMBDA x : x # ts), !.nuse = @ - 1]
freeobj(s, ts) == [luaS_remove(s, ts) EXCEPT !.strs = @ \ {ts}, !.dead = @ \ {ts}]

luaS_clearcache(s, white) ==
  [s EXCEPT !.cache = [j \in DOMAIN s.cache |-> IF s.cache[j] \in white THEN memerrmsg ELSE s.cache[j]]]
atomic(s, white) == [luaS_clearcache(s, white) EXCEPT !.dead = @ \union white]

(* What may be white: all but what the program holds and the fixed string. *)
White == g.strs \ {memerrmsg, held}

(* The state after an emergency collection; it does not resize the table.  *)
luaC_fullgc(white) == FoldSet(LAMBDA ts, s : freeobj(s, ts), atomic(g, white), g.dead \union white)
Collections == {luaC_fullgc(white) : white \in SUBSET White}

-----------------------------------------------------------------------------
(* Making a string                                                         *)

(* Fault: a dead string is used as it is.                                  *)
ResurrectedNot(s, ts) == s
Resurrected(s, ts) == [s EXCEPT !.dead = @ \ {ts}]

(* The string goes to the program and, from luaS_new, into the cache.      *)
Done(s, new, ts) ==
  /\ g' = IF new THEN [s EXCEPT !.cache[1] = ts] ELSE s
  /\ making' = Resting /\ held' = ts

Full(s) == s.nuse >= Len(s.hash) /\ Len(s.hash) <= MaxTable \div 2

(* internshrstr: the string is in its chain, or is created.                *)
internshrstr(s, n, new) ==
  LET found == SelectSeq(list(s, n), LAMBDA ts : Name(ts) = n)
  IN IF found # <<>> THEN Done(Resurrected(s, found[1]), new, found[1])
     ELSE /\ g' = s /\ held' = held
          /\ making' = [pc |-> IF Full(s) THEN "resize" ELSE "create", name |-> n, new |-> new]

luaS_newlstr == making.pc = "none" /\ \E n \in Names : internshrstr(g, n, FALSE) /\ UNCHANGED phase

(* The cache compares contents, since the bytes at an address may change.  *)
luaS_new ==
  /\ making.pc = "none" /\ UNCHANGED phase
  /\ \E n \in Literals :
       LET hits == {j \in DOMAIN g.cache : Name(g.cache[j]) = n}
           moved == [g EXCEPT !.cache = [j \in DOMAIN @ |-> IF j = 1 THEN @[1] ELSE @[j - 1]]]
       IN IF hits # {} THEN Done(g, FALSE, g.cache[Min(hits)])
          ELSE internshrstr(moved, n, TRUE)

(* An allocation, at once or after an emergency collection, ...            *)
Allocates(s) ==
  \/ s = g /\ UNCHANGED phase
  \/ s \in Collections /\ phase' = "pause"

(* ... of a larger table, ...                                              *)
Grow ==
  /\ making.pc = "resize" /\ making' = [making EXCEPT !.pc = "create"] /\ UNCHANGED held
  /\ \E s \in {g} \union Collections : Allocates(s) /\ g' = luaS_resize(s, 2 * Len(s.hash))

(* ... of the string, which is chained to what the list has become, ...    *)
createstrobj ==
  /\ making.pc = "create"
  /\ \E s \in {g} \union Collections :
       LET n  == making.name
           ts == <<n, IF <<n, 1>> \in s.strs THEN 2 ELSE 1>>
       IN /\ Allocates(s)
          /\ Done([s EXCEPT !.hash[lmod(n, Len(s.hash))] = <<ts>> \o @, !.nuse = @ + 1, !.strs = @ \union {ts}],
                  making.new, ts)

(* ... or its failure.                                                     *)
MemoryError ==
  /\ making.pc # "none" /\ making' = Resting /\ held' = NoString
  /\ g' \in Collections /\ phase' = "pause"

Drop == making.pc = "none" /\ held # NoString /\ held' = NoString /\ UNCHANGED <<g, phase, making>>

-----------------------------------------------------------------------------
(* The collector, between the operations of the program                    *)

Atomic ==
  /\ making.pc = "none" /\ phase = "pause" /\ phase' = "sweep"
  /\ \E white \in SUBSET White : g' = atomic(g, white)
  /\ UNCHANGED <<making, held>>

sweeplist ==
  /\ making.pc = "none" /\ phase = "sweep" /\ \E ts \in g.dead : g' = freeobj(g, ts)
  /\ UNCHANGED <<phase, making, held>>

checkSizes ==
  /\ making.pc = "none" /\ phase = "sweep" /\ g.dead = {} /\ phase' = "pause"
  /\ g' = IF g.nuse < Len(g.hash) \div 4 THEN luaS_resize(g, Len(g.hash) \div 2) ELSE g
  /\ UNCHANGED <<making, held>>

-----------------------------------------------------------------------------
(* luaS_init                                                               *)
StrInit ==
  /\ g = [strs |-> {memerrmsg}, dead |-> {}, nuse |-> 1,
          hash |-> [h \in 1..MINSTRTABSIZE |-> IF h = lmod(MEMERRMSG, MINSTRTABSIZE) THEN <<memerrmsg>> ELSE <<>>],
          cache |-> [j \in 1..STRCACHE_M |-> memerrmsg]]
  /\ phase = "pause" /\ making = Resting /\ held = NoString

StrNext ==
  \/ luaS_newlstr \/ luaS_new \/ Grow \/ createstrobj \/ MemoryError \/ Drop
  \/ Atomic \/ sweeplist \/ checkSizes

-----------------------------------------------------------------------------
(* Short strings are equal only if they are the same object, so a content  *)
(* has one string; each is in the chain of its hash, once, and counted, or *)
(* luaS_remove would run past the end of a chain; and neither the cache    *)
(* nor the program has one that the sweep will free.  Collections in the   *)
(* middle of luaS_resize and internshrstr change none of this.             *)
StringsSound ==
  LET nodes == FlattenSeq(g.hash)
  IN /\ g.nuse = Len(nodes) /\ ToSet(nodes) = g.strs /\ IsInjective(nodes)
     /\ \A h \in DOMAIN g.hash : \A i \in DOMAIN g.hash[h] : lmod(Name(g.hash[h][i]), Len(g.hash)) = h
     /\ \A ts, us \in g.strs : Name(ts) = Name(us) => ts = us
     /\ ToSet(g.cache) \union ({held} \ {NoString}) \subseteq g.strs \ g.dead
=============================================================================
