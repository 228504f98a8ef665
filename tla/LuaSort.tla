------------------------------- MODULE LuaSort ------------------------------
(* table.sort, ltablib.c: quicksort with the pivot of three.  A step is a  *)
(* comparison, a call of the program's order function, and what follows    *)
(* until the next one.  The function may answer anything: only with a      *)
(* 'valid' order does it compare the keys.                                 *)
(* C calls of auxsort are frames of intervals still to be sorted.          *)
EXTENDS Integers, Sequences, SequencesExt

CONSTANTS Sorts,     (* calls of sort: the keys, and "valid": is the order    *)
                     (* function an order?                                    *)
          RANLIMIT,  (* larger arrays may use randomized pivots             *)
          IMBALANCE, (* 128 in the code                                     *)
          Rnds       (* values of l_randomizePivot                          *)

ASSUME SortAssumption ==
  /\ RANLIMIT \in Nat /\ RANLIMIT >= 4 /\ IMBALANCE \in Nat \ {0} /\ Rnds \subseteq Nat
  /\ \A c \in Sorts : c.keys \in Seq(Int) /\ c.valid \in BOOLEAN

VARIABLES
  array0,   (* the keys as they were                                        *)
  valid,    (* is the order function an order?                              *)
  a,        (* the array: elements are positions in array0                  *)
  frames,   (* intervals [lo, up, rnd] of the active calls of auxsort       *)
  spc,      (* the comparison to do: "ends", "low", "high", "left", "right",*)
            (* or "done", "error"                                           *)
  pivot, i, j, (* the pivot's index, and those of partition                 *)
  P         (* the pivot                                                    *)

sortVars == <<array0, valid, a, frames, spc, pivot, i, j, P>>

N == Len(a)
Top == Last(frames)
lo  == Top.lo
up  == Top.up
Key(x) == array0[x]

(* sort_comp: is x less than y?                                            *)
sort_comp(x, y, res) == valid => (res <=> Key(x) < Key(y))

(* set2 after the values at m and n were pushed.                           *)
Swap(arr, m, n) == [arr EXCEPT ![m] = arr[n], ![n] = arr[m]]

(* Calls return until one has an interval left, or the last has returned.  *)
Pending(fs) == SubSeq(fs, 1, SelectLastInSeq(fs, LAMBDA f : f.lo < f.up))
Go(fs) == /\ frames' = Pending(fs)
          /\ spc' = IF Pending(fs) = <<>> THEN "done" ELSE "ends"

(* The pivot's index for the interval of f.                                *)
choosePivot(f) ==
  LET r4 == (f.up - f.lo) \div 4
  IN IF f.up - f.lo < RANLIMIT \/ f.rnd = 0 THEN (f.lo + f.up) \div 2
     ELSE (f.rnd % (r4 * 2)) + f.lo + r4

(* Fault: an interval of two elements is not left after their comparison.  *)
EndsAgain ==
  \E res \in BOOLEAN :
    /\ spc = "ends" /\ sort_comp(a[up], a[lo], res)
    /\ a' = IF res THEN Swap(a, lo, up) ELSE a
    /\ IF up - lo = 1 THEN UNCHANGED <<spc, frames, pivot>>
       ELSE spc' = "low" /\ pivot' = choosePivot(Top) /\ UNCHANGED frames
    /\ UNCHANGED <<array0, valid, i, j, P>>

Ends ==
  \E res \in BOOLEAN :
    /\ spc = "ends" /\ sort_comp(a[up], a[lo], res)
    /\ a' = IF res THEN Swap(a, lo, up) ELSE a
    /\ IF up - lo = 1 THEN Go(Front(frames)) /\ UNCHANGED pivot
       ELSE spc' = "low" /\ pivot' = choosePivot(Top) /\ UNCHANGED frames
    /\ UNCHANGED <<array0, valid, i, j, P>>

(* The pivot goes to up - 1 and the partition starts; three are sorted.    *)
Start(arr) ==
  IF up - lo = 2 THEN a' = arr /\ Go(Front(frames)) /\ UNCHANGED <<i, j, P>>
  ELSE /\ a' = Swap(arr, pivot, up - 1) /\ P' = arr[pivot]
       /\ i' = lo + 1 /\ j' = up - 1
       /\ spc' = "left" /\ UNCHANGED frames

Low ==
  \E res \in BOOLEAN :
    /\ spc = "low" /\ sort_comp(a[pivot], a[lo], res)
    /\ IF res THEN Start(Swap(a, pivot, lo)) ELSE spc' = "high" /\ UNCHANGED <<a, frames, i, j, P>>
    /\ UNCHANGED <<array0, valid, pivot>>

High ==
  \E res \in BOOLEAN :
    /\ spc = "high" /\ sort_comp(a[up], a[pivot], res)
    /\ Start(IF res THEN Swap(a, pivot, up) ELSE a)
    /\ UNCHANGED <<array0, valid, pivot>>

InvalidOrder == spc' = "error" /\ UNCHANGED <<a, frames, pivot, i, j>>

(* Fault: the check for an invalid order comes one element too late.       *)
LeftLate ==
  \E res \in BOOLEAN :
    /\ spc = "left" /\ sort_comp(a[i], P, res)
    /\ CASE res /\ i = up -> InvalidOrder
         [] res /\ i /= up -> i' = i + 1 /\ UNCHANGED <<spc, a, frames, pivot, j>>
         [] OTHER -> spc' = "right" /\ j' = j - 1 /\ UNCHANGED <<a, frames, pivot, i>>
    /\ UNCHANGED <<array0, valid, P>>

(* while a[++i] < P                                                        *)
Left ==
  \E res \in BOOLEAN :
    /\ spc = "left" /\ sort_comp(a[i], P, res)
    /\ CASE res /\ i = up - 1 -> InvalidOrder
         [] res /\ i /= up - 1 -> i' = i + 1 /\ UNCHANGED <<spc, a, frames, pivot, j>>
         [] OTHER -> spc' = "right" /\ j' = j - 1 /\ UNCHANGED <<a, frames, pivot, i>>
    /\ UNCHANGED <<array0, valid, P>>

(* The smaller interval is sorted in a new call, the larger one by this    *)
(* call, with a new random number if the partition was too imbalanced.     *)
Split(q, rnd) ==
  LET call(l, u) == [lo |-> l, up |-> u, rnd |-> Top.rnd]
      rest(l, u, n) == [lo |-> l, up |-> u, rnd |-> IF (u - l) \div IMBALANCE > n THEN rnd ELSE Top.rnd]
  IN Front(frames) \o IF q - lo < up - q THEN <<rest(q + 1, up, q - lo), call(lo, q - 1)>>
                      ELSE <<rest(lo, q - 1, up - q), call(q + 1, up)>>

(* while P < a[--j]; then the pivot is put in its place, or a[i] and a[j]  *)
(* are swapped and the search goes on.                                     *)
Right ==
  \E res \in BOOLEAN :
    /\ spc = "right" /\ sort_comp(P, a[j], res)
    /\ CASE res /\ j < i -> InvalidOrder
         [] res /\ j >= i -> j' = j - 1 /\ UNCHANGED <<spc, a, frames, pivot, i>>
         [] ~res /\ j < i -> /\ a' = Swap(a, up - 1, i) /\ pivot' = i
                             /\ \E rnd \in Rnds : Go(Split(i, rnd))
                             /\ UNCHANGED <<i, j>>
         [] OTHER -> a' = Swap(a, i, j) /\ i' = i + 1 /\ spc' = "left" /\ UNCHANGED <<frames, pivot, j>>
    /\ UNCHANGED <<array0, valid, P>>

SortInit(sorts) ==
  /\ \E c \in sorts : array0 = c.keys /\ valid = c.valid
  /\ a = [n \in DOMAIN array0 |-> n]
  /\ frames = Pending(<<[lo |-> 1, up |-> Len(array0), rnd |-> 0]>>)
  /\ spc = IF frames = <<>> THEN "done" ELSE "ends"
  /\ pivot = 0 /\ i = 0 /\ j = 0 /\ P = 0

SortNext == Ends \/ Low \/ High \/ Left \/ Right

(* The calls of sort by themselves; in a program they are in LuaLibrary.   *)
SortSpec == SortInit(Sorts) /\ [][SortNext]_sortVars

-----------------------------------------------------------------------------
(* Properties                                                              *)

Keys(from, to) == {Key(a[n]) : n \in from..to}
NotAbove(xs, y) == \A x \in xs : x <= y
NotBelow(xs, y) == \A x \in xs : x >= y

(* The order function may raise an error or be no order at all: before     *)
(* each of its calls the array is a permutation of what it was, and the    *)
(* elements to compare are in the interval being sorted (the checks for an *)
(* invalid order in partition, ltablib.c:317 and 324).  With an order, the *)
(* comments of partition hold: a[lo .. i - 1] <= P <= a[j + 1 .. up]; the  *)
(* intervals are apart from what is around them; no order is called        *)
(* invalid; at the end the array is sorted.                                *)
SortSound ==
  /\ \A m, n \in 1..N : a[m] = a[n] => m = n
  /\ spc = "left" => i \in lo + 1..up - 1 /\ j \in lo..up
  /\ spc = "right" => i \in lo + 1..up - 1 /\ j \in lo..up - 2
  /\ spc \in {"low", "high"} => pivot \in lo + 1..up - 1
  /\ valid =>
       /\ spc /= "error"
       /\ spc \in {"left", "right"} =>
            NotAbove(Keys(lo, i - 1), Key(P)) /\ NotBelow(Keys(j + 1, up), Key(P))
       /\ \A f \in ToSet(frames) : \A n \in f.lo..f.up :
            NotAbove(Keys(1, f.lo - 1), Key(a[n])) /\ NotBelow(Keys(f.up + 1, N), Key(a[n]))
       /\ spc = "done" => \A n \in 1..N - 1 : Key(a[n]) <= Key(a[n + 1])

(* The recursion goes to the smaller interval, so that no order function   *)
(* can make it deeper than the logarithm of the array's size (auxsort,     *)
(* ltablib.c:357).                                                         *)
RecursionShallow == frames /= <<>> => 2 ^ Len(frames) <= N

(* No order function makes sort fail otherwise than by an error.           *)
SortSafe == SortSound /\ RecursionShallow
=============================================================================
