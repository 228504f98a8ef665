------------------------------- MODULE LuaAux -------------------------------
(* The protocols of the auxiliary library, lauxlib.c: string buffers, whose*)
(* space moves from the C stack to a userdata on the Lua stack when they   *)
(* grow, and references, integer keys of a table with a list of free ones  *)
(* threaded through it.  Sizes are of W bits and wrap around.              *)
EXTENDS LuaNumbers

CONSTANTS Pieces,          (* strings a program adds: sequences             *)
          Areas,           (* sizes it asks for                             *)
          LUAL_BUFFERSIZE,
          MaxText,         (* bound on the text of a buffer                 *)
          Reserved,        (* indices a table of references may start with  *)
          Objects,         (* values that references are made to            *)
          MaxRef           (* bound on the references                       *)

ASSUME AuxAssumption ==
  /\ LUAL_BUFFERSIZE \in 1..Wide - 1 /\ MaxText \in Nat /\ Areas \subseteq 0..Wide - 1
  /\ Wide \in Nat /\ Reserved \in Nat /\ MaxRef \in Nat
  /\ Pieces \subseteq Seq(UNION {Range(piece) : piece \in Pieces})
  /\ \A o \in Objects : o[1] \notin {"nil", "number"}

VARIABLES
  B,       (* the luaL_Buffer: n, size, and does b point to a box?          *)
  lstack,  (* what the function has on the Lua stack: strings and boxes     *)
  bpc,     (* "start", "open", "area", "done" or "error"                    *)
  bytes,   (* what is in the space of the buffer                            *)
  area,    (* size of the area that prepbuffsize returned                   *)
  text,    (* what the program added                                        *)
  reftab,  (* the table of references: index to value, when it is not nil   *)
  refs     (* the references in use: pairs of an integer and an object      *)

bufVars == <<B, lstack, bpc, bytes, area, text>>
refVars == <<reftab, refs>>

-----------------------------------------------------------------------------
(* Buffers                                                                 *)

StrV(piece) == [box |-> FALSE, size |-> 0, str |-> piece]
BoxV(size)  == [box |-> TRUE, size |-> size, str |-> <<>>]
buffonstack(b) == b.box
FromTop(k) == Len(lstack) + 1 + k

(* Twice the size, or what is needed; 0 if the sum wraps around.           *)
NewSize(sz) ==
  LET double  == (B.size * 2) % Wide
      newsize == IF (double - B.n) % Wide < sz THEN (B.n + sz) % Wide ELSE double
  IN IF newsize < B.n \/ (newsize - B.n) % Wide < sz THEN 0 ELSE newsize

BufferError == bpc' = "error" /\ lstack' = <<>> /\ UNCHANGED <<B, bytes, area, text>>

(* luaL_prepbuffsize: the box that holds the bytes is taken to be at the   *)
(* top of the stack.                                                       *)
resizebox(stack, newsize) ==
  IF Last(stack).box THEN [stack EXCEPT ![Len(stack)] = BoxV(newsize)] ELSE stack
Prepared(stack, sz) ==
  LET newsize == NewSize(sz)
      larger == [B EXCEPT !.size = newsize, !.box = TRUE]
  IN CASE B.size - B.n >= sz -> {[B |-> B, stack |-> stack]}
       [] newsize = 0 /\ B.size - B.n < sz -> {}
       [] OTHER -> {[B |-> larger,
                     stack |-> IF buffonstack(B) THEN resizebox(stack, newsize) ELSE Append(stack, BoxV(newsize))]}

Grows(sz) == B.size - B.n < sz
(* An allocation that fails, or a size too large, ends the function.       *)
NoSpace(sz) == Grows(sz) /\ BufferError

luaL_buffinit ==
  /\ bpc = "start" /\ bpc' = "open"
  /\ B' = [n |-> 0, size |-> LUAL_BUFFERSIZE, box |-> FALSE]
  /\ UNCHANGED <<lstack, bytes, area, text>>

(* The program leaves the stack as it found it between two calls, but may  *)
(* have a value at its top for luaL_addvalue.                              *)
Balanced == Len(lstack) = IF B.box THEN 1 ELSE 0
Short(piece) == Len(text \o piece) <= MaxText

PushValue ==
  /\ bpc = "open" /\ Balanced
  /\ \E piece \in Pieces : Short(piece) /\ lstack' = Append(lstack, StrV(piece))
  /\ UNCHANGED <<B, bpc, bytes, area, text>>

(* The bytes go to where the contents end; a box gets a copy of those.     *)
BufContents == SubSeq(bytes, 1, B.n)
Added(b, piece) ==
  B' = [b EXCEPT !.n = @ + Len(piece)] /\ bytes' = BufContents \o piece /\ text' = text \o piece

luaL_addlstring ==
  /\ bpc = "open" /\ Balanced
  /\ \E piece \in Pieces :
       /\ Short(piece)
       /\ \/ \E r \in Prepared(lstack, Len(piece)) :
             /\ lstack' = r.stack /\ Added(r.B, piece)
             /\ UNCHANGED <<bpc, area>>
          \/ NoSpace(Len(piece))

(* Fault: the value is looked for where it was before the buffer grew.     *)
ValueIndexBefore(b) == IF buffonstack(B) THEN -2 ELSE -1
ValueIndex(b) == IF buffonstack(b) THEN -2 ELSE -1

(* The value goes below the box, if there is one; growing may make one.    *)
luaL_addvalue ==
  /\ bpc = "open" /\ ~Balanced
  /\ LET v == Last(lstack)
         inserted == IF buffonstack(B) THEN SubSeq(lstack, 1, FromTop(-3)) \o <<v, lstack[FromTop(-2)]>> ELSE lstack
     IN \/ \E r \in Prepared(inserted, Len(v.str)) :
             /\ lstack' = RemoveAt(r.stack, Len(r.stack) + 1 + ValueIndex(r.B))
             /\ Added(r.B, v.str) /\ UNCHANGED <<bpc, area>>
        \/ NoSpace(Len(v.str))

luaL_prepbuffsize ==
  /\ bpc = "open" /\ Balanced
  /\ \E sz \in Areas :
       \/ \E r \in Prepared(lstack, sz) :
            /\ B' = r.B /\ lstack' = r.stack /\ area' = sz /\ bpc' = "area" /\ UNCHANGED <<bytes, text>>
       \/ NoSpace(sz)

(* The program writes to the area and adds what it has written.            *)
luaL_addsize ==
  /\ bpc = "area" /\ bpc' = "open" /\ area' = 0 /\ UNCHANGED lstack
  /\ \E piece \in Pieces \union {<<>>} :
       /\ Len(piece) <= area /\ Short(piece)
       /\ Added(B, piece)

luaL_pushresult ==
  /\ bpc = "open" /\ Balanced
  /\ \/ /\ bpc' = "done" /\ UNCHANGED <<B, bytes, area, text>>
        /\ LET pushed == Append(lstack, StrV(BufContents))
           IN lstack' = IF buffonstack(B) THEN RemoveAt(pushed, FromTop(-1)) ELSE pushed
     \/ BufferError

BufNext ==
  \/ luaL_buffinit \/ PushValue \/ luaL_addlstring \/ luaL_addvalue \/ luaL_prepbuffsize
  \/ luaL_addsize \/ luaL_pushresult

-----------------------------------------------------------------------------
(* References                                                              *)

freelist == 0
Number(k) == <<"number", k>>
Nobody    == <<"nil", 0>>

rawgeti(t, k) == IF k \in DOMAIN t THEN t[k] ELSE Nobody
rawseti(t, k, v) == [j \in {k} \union DOMAIN t |-> IF j = k THEN v ELSE t[j]]
(* An entry that becomes nil is no entry.                                  *)
Cleaned(t) == [j \in {k \in DOMAIN t : t[k] # Nobody} |-> t[j]]
(* lua_rawlen: any border (luaH_getn).                                     *)
Borders(t) == {j \in 0..MaxRef : (j = 0 \/ j \in DOMAIN t) /\ j + 1 \notin DOMAIN t}
Free(t) == IF rawgeti(t, freelist) = Nobody THEN 0 ELSE rawgeti(t, freelist)[2]

(* t[freelist] = t[ref]                                                    *)
Unlinked(t, ref) == IF ref = Free(t) THEN Cleaned(rawseti(t, freelist, rawgeti(t, ref))) ELSE t

(* A reference to an object that has none; to store it in a new key may    *)
(* run out of memory, with the reference taken from the list already.      *)
luaL_ref ==
  \E o \in Objects, ref \in IF Free(reftab) # 0 THEN {Free(reftab)} ELSE {j + 1 : j \in Borders(reftab)} :
    LET t == Unlinked(reftab, ref)
    IN /\ ref <= MaxRef /\ \A r \in refs : r[2] # o
       /\ \/ reftab' = rawseti(t, ref, o) /\ refs' = refs \union {<<ref, o>>}
          \/ rawgeti(t, ref) = Nobody /\ reftab' = t /\ UNCHANGED refs

(* t[ref] = t[freelist], t[freelist] = ref                                 *)
Linked(t, ref) == Cleaned(rawseti(rawseti(t, ref, rawgeti(t, freelist)), freelist, Number(ref)))

luaL_unref ==
  \E r \in refs :
    /\ r[2] \in Objects /\ refs' = refs \ {r}
    /\ \/ reftab' = Linked(reftab, r[1])
       \/ Free(reftab) = 0 /\ reftab' = Cleaned(rawseti(reftab, r[1], Nobody))

RefNext == luaL_ref \/ luaL_unref

-----------------------------------------------------------------------------
BufInit ==
  /\ B = [n |-> 0, size |-> 0, box |-> FALSE] /\ lstack = <<>> /\ bpc = "start"
  /\ bytes = <<>> /\ area = 0 /\ text = <<>>
RefInit(reserved) ==
  \E n \in reserved : LET kept == [k \in 1..n |-> <<"kept", k>>]
                       IN reftab = kept /\ refs = {<<k, kept[k]>> : k \in 1..n}

-----------------------------------------------------------------------------
(* What a buffer returns is what was added, in order; meanwhile the space  *)
(* it believes to have is that of its first block or of the box, which is  *)
(* alone on the stack or below a value, and no addition, requested area or *)
(* wrap-around of a size goes beyond it (luaL_Buffer in lauxlib.h).        *)
BufferExact ==
  /\ bpc \in {"open", "area"} =>
       /\ BufContents = text /\ B.n = Len(text) /\ B.n + area <= B.size
       /\ IF B.box THEN lstack[1] = BoxV(B.size) ELSE B.size = LUAL_BUFFERSIZE
       /\ \A k \in DOMAIN lstack : lstack[k].box => B.box /\ k = 1
  /\ bpc = "done" => lstack = <<StrV(text)>>

(* A reference in use keeps its object and no two are the same, although   *)
(* the list of free ones lives in the values of the table, a free one at   *)
(* its end is a hole, and the length of a table with holes is any border.  *)
RefsExact == \A r \in refs : rawgeti(reftab, r[1]) = r[2]

AuxSound == BufferExact /\ RefsExact
=============================================================================
