---------------------------- MODULE LuaTableLib -----------------------------
(* The functions of ltablib.c that move, read and write ranges of indices, *)
(* on tables of any length: a metamethod may answer every integer.  An     *)
(* iteration of their loops is a step.  table.sort is LuaSort.             *)
EXTENDS LuaNumbers

CONSTANTS TabCalls,   (* calls: the function fn, its integer arguments f, e *)
                      (* and t (or NoArg), 'same': is the destination the   *)
                      (* table itself?, and len, the length it answers      *)
          MaxResults  (* values that fit in the stack                       *)

VARIABLES
  tcall, tpc,  (* "start", "loop", "done" or "error"                        *)
  tab, dst,    (* the tables, by index: what was at which index of which    *)
  ti, dir, stop, (* the loop's index, its direction and its last index       *)
  out          (* values read: concatenated or returned                     *)

tabVars == <<tcall, tpc, tab, dst, ti, dir, stop, out>>

Index == LUA_MININTEGER..LUA_MAXINTEGER
NoArg == Wide

(* The length is an integer, the arguments likewise, if they are given.    *)
ASSUME TabAssumption ==
  /\ MaxResults \in Nat
  /\ \A c \in TabCalls :
       /\ c.fn \in {"insert", "remove", "move", "concat", "unpack", "pack"} /\ c.same \in BOOLEAN
       /\ c.len \in Index /\ c.t \in Index /\ {c.f, c.e} \subseteq Index \union {NoArg}
       /\ c.fn = "move" => {c.f, c.e} \subseteq Index

Nil   == <<"nil", 0>>
New   == <<"new", 0>>
optinteger(arg, default) == IF arg = NoArg THEN default ELSE arg

Called(fn) == tpc = "start" /\ tcall.fn = fn
Refuse == tpc' = "error" /\ UNCHANGED <<tcall, tab, dst, ti, dir, stop, out>>
(* The loop starts: its index, its direction (of tmove), its last index.   *)
Begin(i, d, last) ==
  /\ tpc' = "loop" /\ ti' = i /\ dir' = d /\ stop' = last
  /\ UNCHANGED <<tcall, tab, dst>>
Looping(fn) == tpc = "loop" /\ tcall.fn = fn
GoTo(i) == ti' = i /\ UNCHANGED <<tcall, tpc, dir, stop>>
Finish == tpc' = "done" /\ UNCHANGED <<tcall, ti, dir, stop>>

(* 1 <= pos && pos <= size + 1: the sum overflows for the largest size and *)
(* the comparison may give either answer.                                  *)
InBounds(pos, size, res) ==
  IF size = LUA_MAXINTEGER THEN res => 1 <= pos ELSE res <=> 1 <= pos /\ pos <= size + 1

-----------------------------------------------------------------------------
(* table.insert(t, [f,] New): elements move up, the last one first.        *)
tinsert ==
  LET e == Wrap(tcall.len + 1)
      pos == optinteger(tcall.f, e)
  IN /\ Called("insert") /\ UNCHANGED out
     /\ \E res \in BOOLEAN :
          /\ IF tcall.f = NoArg THEN res ELSE InBounds(pos, tcall.len, res) /\ (res => pos <= e)
          /\ IF res THEN Begin(e, 0, pos) ELSE Refuse

MoveUp ==
  /\ Looping("insert") /\ UNCHANGED <<dst, out>>
  /\ IF ti > stop THEN tab' = [tab EXCEPT ![ti] = tab[ti - 1]] /\ GoTo(ti - 1)
     ELSE tab' = [tab EXCEPT ![stop] = New] /\ Finish

(* table.remove(t [, f])                                                   *)
tremove ==
  LET size == tcall.len
      pos == optinteger(tcall.f, size)
  IN /\ Called("remove")
     /\ \E res \in BOOLEAN :
          /\ IF pos = size THEN res ELSE InBounds(pos, size, res)
          /\ IF res THEN Begin(pos, 0, size) /\ out' = <<tab[pos]>> ELSE Refuse

MoveDown ==
  /\ Looping("remove") /\ UNCHANGED <<dst, out>>
  /\ IF ti < stop THEN tab' = [tab EXCEPT ![ti] = tab[ti + 1]] /\ GoTo(ti + 1)
     ELSE tab' = [tab EXCEPT ![ti] = Nil] /\ Finish

(* table.move(tab, f, e, t [, dst])                                        *)
(* Fault: a range that overlaps its destination is copied upwards.         *)
UpwardsAlways(f, e, t) == t > f \/ t <= f

Upwards(f, e, t) == t > e \/ t <= f \/ ~tcall.same
TooMany(f, e) == ~(f > 0 \/ e < LUA_MAXINTEGER + f)
Count(f, e) == e - f + 1
WrapsAround(f, e, t) == ~(t <= LUA_MAXINTEGER - Count(f, e) + 1)

tmove ==
  LET f == tcall.f  e == tcall.e  t == tcall.t
  IN /\ Called("move") /\ UNCHANGED out
     /\ CASE e < f -> tpc' = "done" /\ UNCHANGED <<tcall, tab, dst, ti, dir, stop>>
          [] e >= f /\ (TooMany(f, e) \/ WrapsAround(f, e, t)) -> Refuse
          [] OTHER -> IF Upwards(f, e, t) THEN Begin(0, 1, Count(f, e) - 1)
                      ELSE Begin(Count(f, e) - 1, -1, 0)

(* ti counts the elements from 0, or down to it.                           *)
MoveOne ==
  LET from == tcall.f + ti  dest == tcall.t + ti
  IN /\ Looping("move") /\ UNCHANGED out
     /\ IF tcall.same THEN tab' = [tab EXCEPT ![dest] = tab[from]] /\ UNCHANGED dst
        ELSE dst' = [dst EXCEPT ![dest] = tab[from]] /\ UNCHANGED tab
     /\ IF ti = stop THEN Finish ELSE GoTo(ti + dir)

(* table.concat(t, sep [, f [, e]])                                        *)
tconcat ==
  /\ Called("concat") /\ UNCHANGED out
  /\ Begin(optinteger(tcall.f, 1), 0, optinteger(tcall.e, tcall.len))

addfield ==
  /\ Looping("concat") /\ UNCHANGED <<tab, dst>>
  /\ CASE ti < stop -> out' = Append(out, tab[ti]) /\ GoTo(ti + 1)
       [] ti = stop -> out' = Append(out, tab[ti]) /\ Finish
       [] ti > stop -> UNCHANGED out /\ Finish

(* table.unpack(t [, f [, e]])                                             *)
unpack ==
  LET i == optinteger(tcall.f, 1)
      e == optinteger(tcall.e, tcall.len)
      n == (Unsigned(e) - i) % Wide
  IN /\ Called("unpack") /\ UNCHANGED out
     /\ CASE i > e -> tpc' = "done" /\ UNCHANGED <<tcall, tab, dst, ti, dir, stop>>
          [] i <= e /\ n + 1 > MaxResults -> Refuse
          [] OTHER -> Begin(i, 0, e)

PushOne ==
  /\ Looping("unpack") /\ UNCHANGED <<tab, dst>> /\ out' = Append(out, tab[ti])
  /\ IF ti < stop THEN GoTo(ti + 1) ELSE Finish

(* table.pack(...): the arguments become elements, the last one first.     *)
pack ==
  /\ Called("pack") /\ UNCHANGED out /\ Begin(tcall.len, 0, 1)

PackOne ==
  /\ Looping("pack") /\ UNCHANGED <<dst, out>>
  /\ IF ti >= 1 THEN tab' = [tab EXCEPT ![ti] = <<"arg", ti>>] /\ GoTo(ti - 1)
     ELSE UNCHANGED tab /\ Finish

TabInit(calls) ==
  /\ tcall \in calls
  /\ tpc = "start" /\ ti = 0 /\ dir = 0 /\ stop = 0 /\ out = <<>>
  /\ tab = [n \in Index |-> IF tcall.fn = "pack" THEN Nil ELSE <<"src", n>>]
  /\ dst = [n \in Index |-> <<"dst", n>>]

TabNext ==
  \/ tinsert \/ MoveUp \/ tremove \/ MoveDown \/ tmove \/ MoveOne
  \/ tconcat \/ addfield \/ unpack \/ PushOne \/ pack \/ PackOne

(* The calls by themselves; in a program they are in LuaLibrary.           *)
TabSpec == TabInit(TabCalls) /\ [][TabNext]_tabVars

-----------------------------------------------------------------------------
(* Properties                                                              *)

Src(n) == <<"src", n>>
Moved(n) == LET m == n - tcall.t + tcall.f IN IF m \in tcall.f..tcall.e THEN Src(m) ELSE Nil
Sources(first, last) == [n \in 1..last - first + 1 |-> Src(first + n - 1)]

(* The tables and values each function leaves, with arithmetic that does   *)
(* not wrap: a range is moved as if all of it were read before any of it   *)
(* is written, however it overlaps its destination.                        *)
Leaves(fn) ==
  LET size == tcall.len
      e == optinteger(tcall.e, size)
      from == optinteger(tcall.f, 1)
      pos == IF fn = "insert" THEN optinteger(tcall.f, Wrap(size + 1)) ELSE optinteger(tcall.f, size)
  IN CASE fn = "insert" -> tab = [n \in Index |-> CASE n = pos -> New
                                                   [] pos < n /\ n <= size + 1 /\ tcall.f # NoArg -> Src(n - 1)
                                                   [] OTHER -> Src(n)]
       [] fn = "remove" -> /\ tab = [n \in Index |-> CASE n = size /\ pos <= size -> Nil
                                                      [] n = pos /\ pos > size -> Nil
                                                      [] pos <= n /\ n < size -> Src(n + 1)
                                                      [] OTHER -> Src(n)]
                           /\ out = <<Src(pos)>>
       [] fn = "move" -> LET target == [n \in Index |-> IF Moved(n) # Nil THEN Moved(n)
                                                        ELSE IF tcall.same THEN Src(n) ELSE <<"dst", n>>]
                         IN IF tcall.same THEN tab = target ELSE dst = target /\ tab = [n \in Index |-> Src(n)]
       [] fn \in {"concat", "unpack"} -> out = Sources(from, e)
       [] fn = "pack" -> tab = [n \in Index |-> IF n \in 1..tcall.len THEN <<"arg", n>> ELSE Nil]

(* An error: a destination or a count beyond the integers, a position out  *)
(* of bounds or too many values.                                           *)
Unanswerable ==
  CASE tcall.fn = "move" -> tcall.e - tcall.f >= LUA_MAXINTEGER \/ tcall.t + tcall.e - tcall.f > LUA_MAXINTEGER
    [] tcall.fn = "unpack" -> optinteger(tcall.e, tcall.len) - optinteger(tcall.f, 1) + 1 > MaxResults
    [] OTHER -> tcall.len = LUA_MAXINTEGER \/ tcall.f \notin 1..tcall.len + 1

(* Every call does what it says for all positions and lengths up to the    *)
(* limits of integers, or, only where that is impossible, raises an error  *)
(* without a change of the tables; no index leaves the integers on the     *)
(* way: the sums and differences in tmove, unpack and the loops never      *)
(* overflow (ltablib.c:128 to 235).                                        *)
RangesExact ==
  /\ tpc = "done" => Leaves(tcall.fn)
  /\ tpc = "error" => /\ Unanswerable
                      /\ tab = [n \in Index |-> Src(n)] /\ dst = [n \in Index |-> <<"dst", n>>]
  /\ tpc = "loop" => {ti, stop} \subseteq Index
  /\ tcall.fn = "move" /\ tpc = "loop" => {tcall.f + ti, tcall.t + ti} \subseteq Index
=============================================================================
