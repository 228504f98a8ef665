------------------------- MODULE LuaTableLibProofs --------------------------
(***************************************************************************)
(* Theorems about the table library.  table.sort is right for every array, *)
(* every size and every order function: SortSafe is an invariant.  The     *)
(* functions that move, read and write ranges are right for integers of    *)
(* every width: RangesExact is an invariant.                               *)
(***************************************************************************)
EXTENDS LuaSort, LuaTableLib, FiniteSets, FiniteSetTheorems, SequenceTheorems, TLAPS

-----------------------------------------------------------------------------
(* table.sort                                                              *)

Interval == [lo : Nat, up : Nat, rnd : Nat]

(* What is left to sort, of an array of n elements: intervals apart, each  *)
(* no larger than the half of the one whose call called its own.           *)
FramesOK(fs, n) ==
  /\ fs \in Seq(Interval)
  /\ \A k \in 1..Len(fs) : /\ fs[k].lo \in 1..fs[k].up /\ fs[k].up <= n
                           /\ 2^(k - 1) * (fs[k].up - fs[k].lo + 2) <= n + 1
  /\ \A k, m \in 1..Len(fs) : k < m => fs[k].up < fs[m].lo \/ fs[m].up < fs[k].lo

(* No element of the interval is less than one before it, or greater than  *)
(* one after it.                                                           *)
Apart(arr, l, u) ==
  \A n \in l..u, m \in 1..Len(arr) : /\ m < l => Key(arr[m]) <= Key(arr[n])
                                     /\ m > u => Key(arr[n]) <= Key(arr[m])

(* Where the array is not sorted yet, that is left to do.                  *)
Ordered(arr, fs) ==
  \A n \in 1..Len(arr) - 1 :
    \/ Key(arr[n]) <= Key(arr[n + 1])
    \/ \E k \in 1..Len(fs) : fs[k].lo <= n /\ n + 1 <= fs[k].up

LeftToDo(arr, fs) ==
  /\ \A k \in 1..Len(fs) : Apart(arr, fs[k].lo, fs[k].up)
  /\ Ordered(arr, fs)

(* The array is a permutation of its indices.                              *)
Permutation(arr) ==
  /\ arr \in Seq(1..Len(array0)) /\ Len(arr) = Len(array0)
  /\ \A m, n \in 1..Len(arr) : arr[m] = arr[n] => m = n

AllNotAbove(arr, from, to, p) == \A n \in from..to : Key(arr[n]) <= Key(p)
AllNotBelow(arr, from, to, p) == \A n \in from..to : Key(p) <= Key(arr[n])

(* Where the comparisons of an interval are; with an order, what they have *)
(* shown (the comments of partition, ltablib.c:308 to 330).                *)
PhaseOK ==
  /\ spc \in {"low", "high"} => up - lo >= 2 /\ pivot \in lo + 1..up - 1
  /\ spc \in {"left", "right"} => up - lo >= 3 /\ i \in lo + 1..up - 1 /\ a[up - 1] = P
  /\ spc = "left" => j \in lo + 1..up - 1
  /\ spc = "right" => j \in lo..up - 2
  /\ valid =>
       /\ spc \in {"low", "high"} => Key(a[lo]) <= Key(a[up])
       /\ spc = "high" => Key(a[lo]) <= Key(a[pivot])
       /\ spc \in {"left", "right"} => AllNotAbove(a, lo, i - 1, P)
       /\ spc = "left" => AllNotBelow(a, j, up, P)
       /\ spc = "right" => AllNotBelow(a, j + 1, up, P) /\ Key(P) <= Key(a[i])

SortInv ==
  /\ array0 \in Seq(Int) /\ valid \in BOOLEAN
  /\ spc \in {"ends", "low", "high", "left", "right", "done", "error"}
  /\ pivot \in Int /\ i \in Int /\ j \in Int
  /\ Permutation(a)
  /\ FramesOK(frames, N)
  /\ frames /= <<>> => lo < up
  /\ spc \notin {"done", "error"} => frames /= <<>>
  /\ spc = "done" => frames = <<>>
  /\ valid => LeftToDo(a, frames) /\ spc /= "error"
  /\ PhaseOK

-----------------------------------------------------------------------------
(* What a level more of calls does to the size of an interval.             *)
LEMMA TwoPower ==
  ASSUME NEW n \in Nat
  PROVE  2^n \in Nat \ {0} /\ 2^(n + 1) = 2 * 2^n /\ 2^0 = 1
<1>. DEFINE A == SUBSET (1..n)
            f == [T \in A |-> T \union {n + 1}]
            B == {T \union {n + 1} : T \in A}
<1>1. \A m \in Nat : /\ IsFiniteSet(SUBSET (1..m)) /\ Cardinality(SUBSET (1..m)) = 2^m
                     /\ 2^m \in Nat
  <2>. TAKE m \in Nat
  <2>1. IsFiniteSet(1..m) /\ Cardinality(1..m) = m
    BY FS_Interval
  <2>2. IsFiniteSet(SUBSET (1..m)) /\ Cardinality(SUBSET (1..m)) = 2^Cardinality(1..m)
    BY <2>1, FS_SUBSET
  <2>3. Cardinality(SUBSET (1..m)) \in Nat
    BY <2>2, FS_CardinalityType
  <2>. QED  BY <2>1, <2>2, <2>3
<1>2. SUBSET (1..n + 1) = A \union B
  <2>1. 1..n + 1 = (1..n) \union {n + 1} /\ n + 1 \notin 1..n
    OBVIOUS
  <2>2. ASSUME NEW T \in SUBSET (1..n + 1), T \notin A  PROVE T \in B
    <3>1. n + 1 \in T
      BY <2>1, <2>2
    <3>2. T = (T \ {n + 1}) \union {n + 1} /\ T \ {n + 1} \in A
      BY <2>1, <2>2, <3>1
    <3>. QED  BY <3>2
  <2>. QED  BY <2>1, <2>2, ZenonT(60)
<1>3. A \intersect B = {}
  OBVIOUS
<1>4. ExistsBijection(A, B)
  <2>1. f \in [A -> B] /\ \A b \in B : \E x \in A : f[x] = b
    OBVIOUS
  <2>2. ASSUME NEW x \in A, NEW y \in A, f[x] = f[y]  PROVE x = y
    <3>1. n + 1 \notin x /\ n + 1 \notin y /\ x \union {n + 1} = y \union {n + 1}
      BY <2>2
    <3>. QED  BY <3>1
  <2>3. f \in Bijection(A, B)
    BY <2>1, <2>2 DEF Bijection, Injection, IsInjective, Surjection
  <2>. QED  BY <2>3 DEF ExistsBijection
<1>5. IsFiniteSet(B) /\ Cardinality(B) = Cardinality(A)
  BY <1>1, <1>4, FS_Bijection
<1>6. Cardinality(A \union B) = Cardinality(A) + Cardinality(B)
  <2>1. IsFiniteSet(A) /\ Cardinality(A) \in Nat
    BY <1>1
  <2>2. Cardinality(A \union B) = Cardinality(A) + Cardinality(B) - Cardinality(A \intersect B)
    BY <2>1, <1>5, FS_Union
  <2>3. Cardinality(A \intersect B) = 0
    BY <1>3, FS_EmptySet
  <2>. QED  BY <2>1, <2>2, <2>3, <1>5
<1>7. 2^(n + 1) = 2 * 2^n
  <2>1. n + 1 \in Nat
    OBVIOUS
  <2>2. Cardinality(SUBSET (1..n + 1)) = 2^(n + 1) /\ Cardinality(A) = 2^n
    BY <1>1, <2>1
  <2>3. Cardinality(A) \in Nat
    BY <1>1
  <2>4. Cardinality(SUBSET (1..n + 1)) = Cardinality(A) + Cardinality(A)
    BY <1>2, <1>5, <1>6
  <2>. HIDE DEF A
  <2>5. 2^(n + 1) = 2^n + 2^n
    BY <2>2, <2>4
  <2>. QED  BY <2>2, <2>3, <2>5
<1>8. 2^n # 0
  <2>1. A # {}
    OBVIOUS
  <2>. QED  BY <2>1, <1>1, FS_EmptySet
<1>9. 2^0 = 1
  <2>1. SUBSET (1..0) = {{}}
    OBVIOUS
  <2>2. Cardinality(SUBSET (1..0)) = 2^0
    BY <1>1
  <2>. QED  BY <2>1, <2>2, FS_Singleton
<1>. QED  BY <1>1, <1>7, <1>8, <1>9

(* Doubled for an interval no larger than the half.                        *)
LEMMA HalfFits ==
  ASSUME NEW p \in Nat \ {0}, NEW s \in Nat, NEW t \in Nat, NEW n \in Nat,
         p * s <= n, 2 * t <= s
  PROVE  (2 * p) * t <= n
<1>1. p * (2 * t) <= p * s
  OBVIOUS
<1>2. (2 * p) * t = p * (2 * t)
  OBVIOUS
<1>. QED  BY <1>1, <1>2

LEMMA SmallerFits ==
  ASSUME NEW p \in Nat \ {0}, NEW s \in Nat, NEW t \in Nat, NEW n \in Nat,
         p * s <= n, t <= s
  PROVE  p * t <= n
<1>1. p * t <= p * s
  OBVIOUS
<1>. QED  BY <1>1

-----------------------------------------------------------------------------
(* The array                                                               *)

LEMMA KeyInt ==
  ASSUME array0 \in Seq(Int), NEW arr, Permutation(arr)
  PROVE  /\ Len(arr) \in Nat
         /\ \A n \in 1..Len(arr) : arr[n] \in 1..Len(array0) /\ Key(arr[n]) \in Int
BY SMTT(40) DEF Permutation, Key

(* Elements of the interval change their places.                           *)
Shuffled(arr, brr, l, u) ==
  \A x \in 1..Len(arr) : IF x \in l..u THEN \E y \in l..u : brr[x] = arr[y] ELSE brr[x] = arr[x]

LEMMA SwapIs ==
  ASSUME NEW arr, Permutation(arr), NEW m \in 1..Len(arr), NEW n \in 1..Len(arr)
  PROVE  /\ Permutation(Swap(arr, m, n)) /\ Len(Swap(arr, m, n)) = Len(arr)
         /\ Swap(arr, m, n)[m] = arr[n] /\ Swap(arr, m, n)[n] = arr[m]
         /\ \A x \in 1..Len(arr) : x /= m /\ x /= n => Swap(arr, m, n)[x] = arr[x]
<1>. DEFINE D == 1..Len(arr)
            R == 1..Len(array0)
<1>1. arr \in Seq(R) /\ Len(arr) = Len(array0) /\ \A x, y \in D : arr[x] = arr[y] => x = y
  BY DEF Permutation
<1>2. Swap(arr, m, n) \in Seq(R) /\ Len(Swap(arr, m, n)) = Len(arr)
  BY <1>1, SMTT(40) DEF Swap
<1>3. \A x \in D : Swap(arr, m, n)[x] = IF x = n THEN arr[m] ELSE IF x = m THEN arr[n] ELSE arr[x]
  <2>1. DOMAIN arr = D
    BY <1>1
  <2>. QED  BY <2>1 DEF Swap
<1>. HIDE DEF R
<1>4. \A x, y \in D : Swap(arr, m, n)[x] = Swap(arr, m, n)[y] => x = y
  <2>. TAKE x, y \in D
  <2>1. m \in D /\ n \in D
    OBVIOUS
  <2>. HIDE DEF D
  <2>. QED  BY <1>1, <1>3, <2>1
<1>5. Swap(arr, m, n)[m] = arr[n] /\ Swap(arr, m, n)[n] = arr[m]
  BY <1>3
<1>. QED  BY <1>1, <1>2, <1>3, <1>4, <1>5 DEF Permutation, R

LEMMA SwapShuffles ==
  ASSUME NEW arr, Permutation(arr), NEW l \in Int, NEW u \in Int, 1 <= l, u <= Len(arr),
         NEW m \in l..u, NEW n \in l..u
  PROVE  Shuffled(arr, Swap(arr, m, n), l, u) /\ Shuffled(arr, arr, l, u)
<1>1. m \in 1..Len(arr) /\ n \in 1..Len(arr)
  BY DEF Permutation
<1>. DEFINE b == Swap(arr, m, n)
<1>2. b[m] = arr[n] /\ b[n] = arr[m] /\ \A x \in 1..Len(arr) : x /= m /\ x /= n => b[x] = arr[x]
  BY <1>1, SwapIs
<1>. HIDE DEF b
<1>3. Shuffled(arr, b, l, u)
  BY <1>2 DEF Shuffled
<1>4. Shuffled(arr, arr, l, u)
  BY DEF Shuffled
<1>. QED  BY <1>3, <1>4 DEF b

LEMMA ShuffledTwice ==
  ASSUME NEW arr, NEW brr, NEW crr, NEW l \in Int, NEW u \in Int, 1 <= l, u <= Len(arr),
         Len(arr) \in Nat, Len(brr) = Len(arr), Shuffled(arr, brr, l, u), Shuffled(brr, crr, l, u)
  PROVE  Shuffled(arr, crr, l, u)
<1>. SUFFICES ASSUME NEW x \in 1..Len(arr)
              PROVE  IF x \in l..u THEN \E y \in l..u : crr[x] = arr[y] ELSE crr[x] = arr[x]
  BY DEF Shuffled
<1>1. CASE x \in l..u
  <2>1. PICK y \in l..u : crr[x] = brr[y]
    BY <1>1 DEF Shuffled
  <2>2. PICK z \in l..u : brr[y] = arr[z]
    BY <2>1 DEF Shuffled
  <2>. QED  BY <1>1, <2>1, <2>2
<1>2. CASE x \notin l..u
  BY <1>2 DEF Shuffled
<1>. QED  BY <1>1, <1>2

(* An interval stays apart when another one is shuffled, or itself.        *)
LEMMA ApartKept ==
  ASSUME array0 \in Seq(Int), NEW arr, NEW brr, Permutation(arr), Permutation(brr),
         NEW l \in Int, NEW u \in Int, 1 <= l, l <= u, u <= Len(arr), Shuffled(arr, brr, l, u),
         NEW f \in Int, NEW g \in Int, 1 <= f, f <= g, g <= Len(arr),
         (f = l /\ g = u) \/ g < l \/ u < f, Apart(arr, f, g)
  PROVE  Apart(brr, f, g)
<1>. SUFFICES ASSUME NEW n \in f..g, NEW m \in 1..Len(brr)
              PROVE  /\ m < f => Key(brr[m]) <= Key(brr[n])
                     /\ m > g => Key(brr[n]) <= Key(brr[m])
  BY DEF Apart
<1>1. Len(brr) = Len(arr) /\ Len(arr) \in Nat
  BY DEF Permutation
<1>2. PICK y \in f..g : brr[n] = arr[y]
  <2>1. n \in 1..Len(arr)
    BY <1>1
  <2>2. CASE f = l /\ g = u
    BY <2>1, <2>2 DEF Shuffled
  <2>3. CASE g < l \/ u < f
    BY <2>1, <2>3 DEF Shuffled
  <2>. QED  BY <2>2, <2>3
<1>3. PICK z \in 1..Len(arr) : brr[m] = arr[z] /\ (m < f => z < f) /\ (m > g => z > g)
  BY <1>1, SMTT(40) DEF Shuffled
<1>. QED  BY <1>2, <1>3 DEF Apart

(* What is left to do when the innermost interval is shuffled.             *)
LEMMA TopShuffled ==
  ASSUME array0 \in Seq(Int), NEW arr, NEW brr, Permutation(arr), Permutation(brr),
         NEW fs, FramesOK(fs, Len(arr)), fs /= <<>>, LeftToDo(arr, fs),
         Shuffled(arr, brr, Last(fs).lo, Last(fs).up)
  PROVE  LeftToDo(brr, fs)
<1>. DEFINE d == Len(fs)
            l == Last(fs).lo
            u == Last(fs).up
<1>1. /\ d \in 1..d /\ d \in Nat /\ fs[d].lo = l /\ fs[d].up = u
      /\ Len(brr) = Len(arr) /\ Len(arr) \in Nat
      /\ \A k \in 1..d : fs[k].lo \in Int /\ fs[k].up \in Int /\ 1 <= fs[k].lo
                         /\ fs[k].lo <= fs[k].up /\ fs[k].up <= Len(arr)
  <2>1. fs \in Seq(Interval) /\ d \in Nat /\ d \in 1..d
    BY DEF FramesOK
  <2>2. ASSUME NEW k \in 1..d
        PROVE  fs[k].lo \in Int /\ fs[k].up \in Int /\ 1 <= fs[k].lo
               /\ fs[k].lo <= fs[k].up /\ fs[k].up <= Len(arr)
    <3>1. fs[k] \in Interval
      BY <2>1
    <3>2. fs[k].lo \in Int /\ fs[k].up \in Int
      BY <3>1 DEF Interval
    <3>. QED  BY <3>2 DEF FramesOK
  <2>3. Len(brr) = Len(arr) /\ Len(arr) \in Nat
    BY DEF Permutation
  <2>. QED  BY <2>1, <2>2, <2>3 DEF Last
<1>2. \A k \in 1..d : (fs[k].lo = l /\ fs[k].up = u) \/ fs[k].up < l \/ u < fs[k].lo
  <2>. TAKE k \in 1..d
  <2>1. k < d => fs[k].up < fs[d].lo \/ fs[d].up < fs[k].lo
    BY <1>1 DEF FramesOK
  <2>2. k = d => fs[k].lo = l /\ fs[k].up = u
    BY <1>1
  <2>3. k < d \/ k = d
    BY <1>1
  <2>. QED  BY <1>1, <2>1, <2>2, <2>3
<1>3. ASSUME NEW k \in 1..d  PROVE Apart(brr, fs[k].lo, fs[k].up)
  <2>1. Apart(arr, fs[k].lo, fs[k].up)
    BY DEF LeftToDo
  <2>2. l \in Int /\ u \in Int /\ 1 <= l /\ l <= u /\ u <= Len(arr)
    BY <1>1
  <2>. HIDE DEF l, u
  <2>3. Shuffled(arr, brr, l, u)
    BY DEF l, u
  <2>. QED  BY <1>1, <1>2, <2>1, <2>2, <2>3, ApartKept
<1>4. Ordered(brr, fs)
  <2>. SUFFICES ASSUME NEW n \in 1..Len(arr) - 1,
                       ~\E k \in 1..d : fs[k].lo <= n /\ n + 1 <= fs[k].up
                PROVE  Key(brr[n]) <= Key(brr[n + 1])
    BY <1>1 DEF Ordered
  <2>1. Key(arr[n]) <= Key(arr[n + 1])
    BY DEF LeftToDo, Ordered
  <2>2. ~(l <= n /\ n + 1 <= u)
    BY <1>1
  <2>3. n \in 1..Len(arr) /\ n + 1 \in 1..Len(arr)
    BY <1>1
  <2>4. Apart(brr, l, u)
    BY <1>1, <1>3
  <2>5. l \in Int /\ u \in Int
    BY <1>1
  <2>. HIDE DEF l, u
  <2>6. CASE n \notin l..u /\ n + 1 \notin l..u
    <3>1. brr[n] = arr[n] /\ brr[n + 1] = arr[n + 1]
      BY <2>3, <2>6 DEF Shuffled, l, u
    <3>. QED  BY <2>1, <3>1
  <2>7. CASE n \in l..u
    BY <1>1, <2>2, <2>3, <2>4, <2>5, <2>7 DEF Apart
  <2>8. CASE n + 1 \in l..u
    BY <1>1, <2>2, <2>3, <2>4, <2>5, <2>8 DEF Apart
  <2>. QED  BY <2>6, <2>7, <2>8
<1>. QED  BY <1>3, <1>4 DEF LeftToDo

-----------------------------------------------------------------------------
(* The intervals                                                           *)

(* An interval and its place among the intervals left.                     *)
LEMMA IntervalIs ==
  ASSUME NEW fs, NEW n \in Nat, FramesOK(fs, n), NEW k \in 1..Len(fs)
  PROVE  /\ fs[k] \in Interval /\ fs[k].lo \in Nat /\ fs[k].up \in Nat /\ fs[k].rnd \in Nat
         /\ 1 <= fs[k].lo /\ fs[k].lo <= fs[k].up /\ fs[k].up <= n
<1>1. fs \in Seq(Interval)
  BY DEF FramesOK
<1>2. fs[k] \in Interval
  BY <1>1
<1>3. fs[k].lo \in Nat /\ fs[k].up \in Nat /\ fs[k].rnd \in Nat
  BY <1>2 DEF Interval
<1>4. fs[k].lo \in 1..fs[k].up /\ fs[k].up <= n
  BY DEF FramesOK
<1>. QED  BY <1>2, <1>3, <1>4

LEMMA PrefixFrames ==
  ASSUME NEW fs, NEW n \in Nat, FramesOK(fs, n), NEW gs, NEW d \in 0..Len(fs),
         gs \in Seq(Interval), Len(gs) = d, \A k \in 1..d : gs[k] = fs[k]
  PROVE  FramesOK(gs, n)
<1>1. \A k \in 1..d : k \in 1..Len(fs)
  BY DEF FramesOK
<1>2. \A k \in 1..d : /\ gs[k].lo \in 1..gs[k].up /\ gs[k].up <= n
                      /\ 2^(k - 1) * (gs[k].up - gs[k].lo + 2) <= n + 1
  BY <1>1 DEF FramesOK
<1>3. \A k, m \in 1..d : k < m => gs[k].up < gs[m].lo \/ gs[m].up < gs[k].lo
  BY <1>1 DEF FramesOK
<1>. QED  BY <1>2, <1>3 DEF FramesOK

(* The largest of some positions.                                          *)
LEMMA LargestMember ==
  ASSUME NEW b \in Nat, NEW U \in SUBSET (1 .. b), U /= {}
  PROVE  Max(U) \in U /\ \A y \in U : y <= Max(U)
<1>. DEFINE R == {ss \in Nat \X Nat : ss[1] < ss[2]}
            T == {x \in Nat : b - x \in U}
<1>1. IsWellFoundedOn(R, Nat)
  BY NatLessThanWellFounded DEF OpToRel
<1>2. T \subseteq Nat /\ T /= {}
  <2>1. PICK x \in U : TRUE
    OBVIOUS
  <2>2. b - x \in T
    BY <2>1
  <2>. QED  BY <2>2
<1>. HIDE DEF R, T
<1>3. PICK t \in T : \A u \in T : <<u, t>> \notin R
  BY <1>1, <1>2, WFMin
<1>4. b - t \in U /\ \A y \in U : b - t >= y
  <2>1. t \in Nat /\ b - t \in U
    BY <1>3 DEF T
  <2>2. ASSUME NEW y \in U PROVE b - t >= y
    <3>1. y \in Nat /\ b - y \in Nat /\ b - (b - y) = y
      OBVIOUS
    <3>2. b - y \in T
      BY <3>1, <2>2 DEF T
    <3>3. ~(b - y < t)
      BY <1>3, <2>1, <3>1, <3>2 DEF R
    <3>. QED  BY <2>1, <3>1, <3>3
  <2>. QED  BY <2>1, <2>2
<1>5. Max(U) \in U /\ \A y \in U : Max(U) >= y
  BY <1>4 DEF Max
<1>6. \A y \in U : y \in Int
  OBVIOUS
<1>. QED  BY <1>5, <1>6

(* Intervals of one element, or of none, are skipped.                      *)
LEMMA PendingIs ==
  ASSUME NEW fs \in Seq(Interval)
  PROVE  \E d \in 0..Len(fs) :
           /\ Pending(fs) \in Seq(Interval) /\ Len(Pending(fs)) = d
           /\ \A k \in 1..d : Pending(fs)[k] = fs[k]
           /\ d > 0 => fs[d].lo < fs[d].up
           /\ \A k \in d + 1..Len(fs) : ~(fs[k].lo < fs[k].up)
<1>. DEFINE I == {k \in 1..Len(fs) : fs[k].lo < fs[k].up}
            d == IF I /= {} THEN Max(I) ELSE 0
<1>1. Pending(fs) = SubSeq(fs, 1, d)
  BY DEF Pending, SelectLastInSeq
<1>2. /\ d \in 0..Len(fs)
      /\ d > 0 => d \in I
      /\ \A k \in I : k <= d
  <2>1. CASE I = {}
    BY <2>1
  <2>2. CASE I /= {}
    <3>1. Len(fs) \in Nat /\ I \subseteq 1..Len(fs) /\ \A k \in I : k \in Nat /\ 1 <= k /\ k <= Len(fs)
      OBVIOUS
    <3>2. I \in SUBSET (1..Len(fs))
      BY <3>1
    <3>3. Max(I) \in I /\ \A k \in I : k <= Max(I)
      BY <2>2, <3>1, <3>2, LargestMember
    <3>4. d = Max(I)
      BY <2>2
    <3>. HIDE DEF I, d
    <3>5. d \in I /\ \A k \in I : k <= d
      BY <3>3, <3>4
    <3>6. d \in 0..Len(fs)
      BY <3>1, <3>5
    <3>. QED  BY <3>5, <3>6
  <2>. QED  BY <2>1, <2>2
<1>. HIDE DEF d
<1>3. d \in 0..Len(fs)
  BY <1>2
<1>4. /\ SubSeq(fs, 1, d) \in Seq(Interval) /\ Len(SubSeq(fs, 1, d)) = d
      /\ \A k \in 1..d : SubSeq(fs, 1, d)[k] = fs[k]
  BY <1>3
<1>5. d > 0 => fs[d].lo < fs[d].up
  BY <1>2
<1>6. ASSUME NEW k \in d + 1..Len(fs)  PROVE ~(fs[k].lo < fs[k].up)
  <2>1. k \in 1..Len(fs) /\ ~(k <= d)
    BY <1>3
  <2>2. k \notin I
    BY <1>2, <2>1
  <2>. QED  BY <2>1, <2>2
<1>. QED  BY <1>1, <1>3, <1>4, <1>5, <1>6

(* What is left to sort and to do, when the intervals of one element are   *)
(* skipped.                                                                *)
LEMMA PendingFrames ==
  ASSUME NEW fs, NEW n \in Nat, FramesOK(fs, n)
  PROVE  /\ FramesOK(Pending(fs), n)
         /\ Pending(fs) /= <<>> => Last(Pending(fs)).lo < Last(Pending(fs)).up
         /\ \A arr : LeftToDo(arr, fs) /\ Len(arr) \in Nat => LeftToDo(arr, Pending(fs))
<1>. DEFINE gs == Pending(fs)
<1>1. fs \in Seq(Interval) /\ Len(fs) \in Nat
  BY DEF FramesOK
<1>2. PICK d \in 0..Len(fs) : /\ gs \in Seq(Interval) /\ Len(gs) = d
                              /\ \A k \in 1..d : gs[k] = fs[k]
                              /\ d > 0 => fs[d].lo < fs[d].up
                              /\ \A k \in d + 1..Len(fs) : ~(fs[k].lo < fs[k].up)
  BY <1>1, PendingIs
<1>. HIDE DEF gs
<1>3. FramesOK(gs, n)
  BY <1>2, PrefixFrames
<1>4. gs /= <<>> => Last(gs).lo < Last(gs).up
  <2>. SUFFICES ASSUME gs /= <<>>  PROVE Last(gs).lo < Last(gs).up
    OBVIOUS
  <2>1. d > 0
    BY <1>2
  <2>. QED  BY <1>2, <2>1 DEF Last
<1>5. ASSUME NEW arr, LeftToDo(arr, fs), Len(arr) \in Nat  PROVE LeftToDo(arr, gs)
  <2>1. ASSUME NEW k \in 1..d  PROVE Apart(arr, gs[k].lo, gs[k].up)
    BY <1>1, <1>2, <1>5, <2>1 DEF LeftToDo
  <2>2. ASSUME NEW m \in 1..Len(arr) - 1, ~(Key(arr[m]) <= Key(arr[m + 1]))
        PROVE  \E k \in 1..d : gs[k].lo <= m /\ m + 1 <= gs[k].up
    <3>1. PICK k \in 1..Len(fs) : fs[k].lo <= m /\ m + 1 <= fs[k].up
      BY <1>5, <2>2 DEF LeftToDo, Ordered
    <3>2. fs[k].lo < fs[k].up
      BY <1>5, <3>1, IntervalIs
    <3>3. k \in 1..d
      BY <1>1, <1>2, <3>2
    <3>. QED  BY <1>2, <3>1, <3>3
  <2>. QED  BY <1>2, <2>1, <2>2 DEF LeftToDo, Ordered
<1>. QED  BY <1>3, <1>4, <1>5 DEF gs

(* The innermost call returns: its interval is sorted.                     *)
LEMMA FrontFrames ==
  ASSUME NEW fs, NEW n \in Nat, FramesOK(fs, n), fs /= <<>>
  PROVE  /\ FramesOK(Front(fs), n)
         /\ \A arr : /\ LeftToDo(arr, fs) /\ Len(arr) \in Nat
                     /\ \A m \in Last(fs).lo..Last(fs).up - 1 : Key(arr[m]) <= Key(arr[m + 1])
                     => LeftToDo(arr, Front(fs))
<1>. DEFINE gs == Front(fs)
            d == Len(fs) - 1
<1>1. fs \in Seq(Interval) /\ Len(fs) \in Nat /\ d \in Nat /\ d \in 0..Len(fs) /\ Len(fs) = d + 1
  BY DEF FramesOK
<1>2. gs \in Seq(Interval) /\ Len(gs) = d /\ \A k \in 1..d : gs[k] = fs[k]
  BY <1>1 DEF Front
<1>. HIDE DEF gs
<1>3. FramesOK(gs, n)
  BY <1>1, <1>2, PrefixFrames
<1>4. ASSUME NEW arr, LeftToDo(arr, fs), Len(arr) \in Nat,
             \A m \in Last(fs).lo..Last(fs).up - 1 : Key(arr[m]) <= Key(arr[m + 1])
      PROVE  LeftToDo(arr, gs)
  <2>1. ASSUME NEW k \in 1..d  PROVE Apart(arr, gs[k].lo, gs[k].up)
    BY <1>1, <1>2, <1>4, <2>1 DEF LeftToDo
  <2>2. ASSUME NEW m \in 1..Len(arr) - 1, ~(Key(arr[m]) <= Key(arr[m + 1]))
        PROVE  \E k \in 1..d : gs[k].lo <= m /\ m + 1 <= gs[k].up
    <3>1. PICK k \in 1..Len(fs) : fs[k].lo <= m /\ m + 1 <= fs[k].up
      BY <1>4, <2>2 DEF LeftToDo, Ordered
    <3>2. fs[k].lo \in Nat /\ fs[k].up \in Nat
      BY IntervalIs
    <3>3. k /= Len(fs)
      <4>. SUFFICES ASSUME k = Len(fs)  PROVE FALSE
        OBVIOUS
      <4>1. Last(fs) = fs[k]
        BY DEF Last
      <4>2. m \in Last(fs).lo..Last(fs).up - 1
        BY <3>1, <3>2, <4>1
      <4>. QED  BY <1>4, <2>2, <4>2
    <3>4. k \in Nat /\ 1 <= k /\ k <= Len(fs) /\ Len(fs) \in Nat
      BY <1>1
    <3>5. k <= d
      BY <3>3, <3>4
    <3>6. k \in 1..d
      BY <1>1, <3>4, <3>5
    <3>. QED  BY <1>2, <3>1, <3>6
  <2>. QED  BY <1>2, <2>1, <2>2 DEF LeftToDo, Ordered
<1>. QED  BY <1>3, <1>4 DEF gs

(* The innermost interval in the place of which there are two.             *)
LEMMA OneCallMore ==
  ASSUME NEW fs \in Seq(Interval), fs /= <<>>, NEW x \in Interval, NEW y \in Interval
  PROVE  LET gs == Front(fs) \o <<x, y>>
             d == Len(fs)
         IN /\ gs \in Seq(Interval) /\ Len(gs) = d + 1
            /\ \A k \in 1..d - 1 : gs[k] = fs[k]
            /\ gs[d] = x /\ gs[d + 1] = y
<1>. DEFINE fr == Front(fs)
            t == <<x, y>>
            d == Len(fs)
<1>1. d \in Nat /\ d >= 1
  OBVIOUS
<1>2. t \in Seq(Interval) /\ Len(t) = 2 /\ t[1] = x /\ t[2] = y
  OBVIOUS
<1>3. fr \in Seq(Interval) /\ Len(fr) = d - 1 /\ \A k \in 1..d - 1 : fr[k] = fs[k]
  <2>1. d - 1 \in 0..Len(fs)
    BY <1>1
  <2>2. fr = SubSeq(fs, 1, d - 1)
    BY DEF Front
  <2>3. \A z \in 0..Len(fs) : /\ SubSeq(fs, 1, z) \in Seq(Interval) /\ Len(SubSeq(fs, 1, z)) = z
                              /\ \A k \in 1..z : SubSeq(fs, 1, z)[k] = fs[k]
    OBVIOUS
  <2>. HIDE DEF fr, d
  <2>. QED  BY <2>1, <2>2, <2>3
<1>. HIDE DEF fr, t, d
<1>4. /\ fr \o t \in Seq(Interval) /\ Len(fr \o t) = Len(fr) + Len(t)
      /\ \A k \in 1..Len(fr) + Len(t) : (fr \o t)[k] = IF k <= Len(fr) THEN fr[k] ELSE t[k - Len(fr)]
  BY <1>2, <1>3, ConcatProperties
<1>5. \A k \in 1..d - 1 : (fr \o t)[k] = fs[k]
  BY <1>1, <1>2, <1>3, <1>4
<1>6. (fr \o t)[d] = t[1] /\ (fr \o t)[d + 1] = t[2]
  <2>1. d \in 1..Len(fr) + Len(t) /\ ~(d <= Len(fr)) /\ d - Len(fr) = 1
    BY <1>1, <1>2, <1>3
  <2>2. d + 1 \in 1..Len(fr) + Len(t) /\ ~(d + 1 <= Len(fr)) /\ (d + 1) - Len(fr) = 2
    BY <1>1, <1>2, <1>3
  <2>. QED  BY <1>4, <2>1, <2>2
<1>7. Len(fr \o t) = d + 1
  BY <1>1, <1>2, <1>3, <1>4
<1>. QED  BY <1>2, <1>4, <1>5, <1>6, <1>7 DEF fr, t, d

(* The interval is split around the pivot: what is left are the two parts, *)
(* the one that a new call sorts no larger than the half.                  *)
LEMMA SplitIs ==
  ASSUME FramesOK(frames, N), N \in Nat, frames /= <<>>, NEW q \in Nat, lo < q, q < up, NEW rnd \in Nat
  PROVE  LET gs == Split(q, rnd)
             d == Len(frames)
         IN /\ gs \in Seq(Interval) /\ Len(gs) = d + 1
            /\ \A k \in 1..d - 1 : gs[k] = frames[k]
            /\ \E l, u, l1, u1 \in Nat :
                 /\ gs[d].lo = l /\ gs[d].up = u /\ gs[d + 1].lo = l1 /\ gs[d + 1].up = u1
                 /\ 2 * (u1 - l1 + 2) <= up - lo + 2
                 /\ \/ l = lo /\ u = q - 1 /\ l1 = q + 1 /\ u1 = up
                    \/ l1 = lo /\ u1 = q - 1 /\ l = q + 1 /\ u = up
<1>. DEFINE d == Len(frames)
            rest(l, u, n) == [lo |-> l, up |-> u, rnd |-> IF (u - l) \div IMBALANCE > n THEN rnd ELSE Top.rnd]
            call(l, u) == [lo |-> l, up |-> u, rnd |-> Top.rnd]
            c == q - lo < up - q
            x == IF c THEN rest(q + 1, up, q - lo) ELSE rest(lo, q - 1, up - q)
            y == IF c THEN call(lo, q - 1) ELSE call(q + 1, up)
<1>1. frames \in Seq(Interval) /\ d \in Nat /\ d >= 1 /\ d - 1 \in 0..d
  BY DEF FramesOK
<1>2. Top \in Interval /\ lo \in Nat /\ up \in Nat /\ Top.rnd \in Nat /\ 1 <= lo
  <2>1. d \in 1..Len(frames) /\ Top = frames[d]
    BY <1>1 DEF Top, Last
  <2>. HIDE DEF d
  <2>. QED  BY <2>1, IntervalIs DEF lo, up
<1>3. x \in Interval /\ y \in Interval
  <2>1. q + 1 \in Nat /\ q - 1 \in Nat
    BY <1>2
  <2>2. \A l, u \in Nat : \A n : rest(l, u, n) \in Interval /\ call(l, u) \in Interval
    BY <1>2 DEF Interval
  <2>. HIDE DEF rest, call
  <2>. QED  BY <1>2, <2>1, <2>2
<1>4. Split(q, rnd) = Front(frames) \o <<x, y>>
  BY DEF Split
<1>. DEFINE gs == Split(q, rnd)
<1>5. /\ gs \in Seq(Interval) /\ Len(gs) = d + 1
      /\ \A k \in 1..d - 1 : gs[k] = frames[k]
      /\ gs[d] = x /\ gs[d + 1] = y
  <2>. HIDE DEF x, y
  <2>. DEFINE hs == Front(frames) \o <<x, y>>
  <2>1. /\ hs \in Seq(Interval) /\ Len(hs) = Len(frames) + 1
        /\ \A k \in 1..Len(frames) - 1 : hs[k] = frames[k]
        /\ hs[Len(frames)] = x /\ hs[Len(frames) + 1] = y
    BY <1>1, <1>3, OneCallMore, SMTT(40)
  <2>2. gs = hs
    BY <1>4
  <2>. HIDE DEF gs, hs
  <2>. QED  BY <2>1, <2>2
<1>6. CASE c
  <2>1. x.lo = q + 1 /\ x.up = up /\ y.lo = lo /\ y.up = q - 1
    BY <1>6
  <2>2. 2 * ((q - 1) - lo + 2) <= up - lo + 2 /\ q + 1 \in Nat /\ q - 1 \in Nat
    BY <1>2, <1>6
  <2>. HIDE DEF gs, x, y, d, c
  <2>. QED  BY <1>2, <1>5, <2>1, <2>2 DEF gs, d
<1>7. CASE ~c
  <2>1. x.lo = lo /\ x.up = q - 1 /\ y.lo = q + 1 /\ y.up = up
    BY <1>7
  <2>2. 2 * (up - (q + 1) + 2) <= up - lo + 2 /\ q + 1 \in Nat /\ q - 1 \in Nat
    BY <1>2, <1>7
  <2>. HIDE DEF gs, x, y, d, c
  <2>. QED  BY <1>2, <1>5, <2>1, <2>2 DEF gs, d
<1>. QED  BY <1>6, <1>7


LEMMA SplitFrames ==
  ASSUME FramesOK(frames, N), N \in Nat, frames /= <<>>, NEW q \in Nat, lo < q, q < up, NEW rnd \in Nat
  PROVE  FramesOK(Split(q, rnd), N)
<1>. DEFINE gs == Split(q, rnd)
            d == Len(frames)
<1>1. /\ gs \in Seq(Interval) /\ Len(gs) = d + 1
      /\ \A k \in 1..d - 1 : gs[k] = frames[k]
      /\ \E l, u, l1, u1 \in Nat :
           /\ gs[d].lo = l /\ gs[d].up = u /\ gs[d + 1].lo = l1 /\ gs[d + 1].up = u1
           /\ 2 * (u1 - l1 + 2) <= up - lo + 2
           /\ \/ l = lo /\ u = q - 1 /\ l1 = q + 1 /\ u1 = up
              \/ l1 = lo /\ u1 = q - 1 /\ l = q + 1 /\ u = up
  BY SplitIs, ZenonT(60)
<1>. HIDE DEF gs
<1>2. PICK l, u, l1, u1 \in Nat :
        /\ gs[d].lo = l /\ gs[d].up = u /\ gs[d + 1].lo = l1 /\ gs[d + 1].up = u1
        /\ 2 * (u1 - l1 + 2) <= up - lo + 2
        /\ \/ l = lo /\ u = q - 1 /\ l1 = q + 1 /\ u1 = up
           \/ l1 = lo /\ u1 = q - 1 /\ l = q + 1 /\ u = up
  BY <1>1
<1>3. d \in Nat /\ d >= 1 /\ d \in 1..Len(frames) /\ frames[d].lo = lo /\ frames[d].up = up
  BY DEF FramesOK, lo, up, Top, Last
<1>4. lo \in Nat /\ up \in Nat /\ 1 <= lo /\ up <= N
  BY <1>3, IntervalIs
<1>5. /\ 1 <= l /\ l <= u /\ u <= N /\ 1 <= l1 /\ l1 <= u1 /\ u1 <= N
      /\ lo <= l /\ u <= up /\ lo <= l1 /\ u1 <= up
      /\ u < l1 \/ u1 < l
  BY <1>2, <1>4
<1>6. 2^(d - 1) \in Nat \ {0} /\ 2^((d + 1) - 1) = 2 * 2^(d - 1)
  <2>1. d - 1 \in Nat /\ (d - 1) + 1 = (d + 1) - 1
    BY <1>3
  <2>. QED  BY <2>1, TwoPower
<1>7. 2^(d - 1) * (up - lo + 2) <= N + 1
  BY <1>3 DEF FramesOK
<1>8. 2^(d - 1) * (u - l + 2) <= N + 1 /\ 2^((d + 1) - 1) * (u1 - l1 + 2) <= N + 1
  <2>1. up - lo + 2 \in Nat /\ u - l + 2 \in Nat /\ u - l + 2 <= up - lo + 2 /\ N + 1 \in Nat
        /\ u1 - l1 + 2 \in Nat /\ 2 * (u1 - l1 + 2) <= up - lo + 2
    BY <1>2, <1>4, <1>5
  <2>2. 2^(d - 1) * (u - l + 2) <= N + 1
    BY <1>6, <1>7, <2>1, SmallerFits
  <2>3. (2 * 2^(d - 1)) * (u1 - l1 + 2) <= N + 1
    BY <1>6, <1>7, <2>1, HalfFits
  <2>. QED  BY <1>6, <2>2, <2>3
<1>9. ASSUME NEW k \in 1..d + 1
      PROVE  /\ gs[k].lo \in 1..gs[k].up /\ gs[k].up <= N
             /\ 2^(k - 1) * (gs[k].up - gs[k].lo + 2) <= N + 1
  <2>1. CASE k = d
    <3>1. gs[k].lo = l /\ gs[k].up = u /\ 2^(k - 1) = 2^(d - 1)
      BY <1>2, <2>1
    <3>2. l \in 1..u
      BY <1>5
    <3>. QED  BY <1>5, <1>8, <3>1, <3>2
  <2>2. CASE k = d + 1
    <3>1. gs[k].lo = l1 /\ gs[k].up = u1 /\ 2^(k - 1) = 2^((d + 1) - 1)
      BY <1>2, <2>2
    <3>2. l1 \in 1..u1
      BY <1>5
    <3>. QED  BY <1>5, <1>8, <3>1, <3>2
  <2>3. CASE k <= d - 1
    <3>1. k \in 1..d - 1 /\ k \in 1..Len(frames)
      BY <1>3, <2>3
    <3>. QED  BY <1>1, <3>1 DEF FramesOK
  <2>. QED  BY <1>3, <2>1, <2>2, <2>3
<1>10. ASSUME NEW k \in 1..d - 1
       PROVE  gs[k].up < lo \/ up < gs[k].lo
  <2>1. k \in 1..Len(frames) /\ k < d
    BY <1>3
  <2>. QED  BY <1>1, <1>3, <2>1 DEF FramesOK
<1>11. ASSUME NEW k \in 1..d + 1, NEW m \in 1..d + 1, k < m
       PROVE  gs[k].up < gs[m].lo \/ gs[m].up < gs[k].lo
  <2>1. CASE m <= d - 1
    <3>1. k \in 1..d - 1 /\ m \in 1..d - 1 /\ k \in 1..Len(frames) /\ m \in 1..Len(frames)
      BY <1>3, <1>11, <2>1
    <3>. QED  BY <1>1, <1>11, <3>1 DEF FramesOK
  <2>2. CASE k <= d - 1 /\ (m = d \/ m = d + 1)
    <3>1. k \in 1..d - 1 /\ k \in 1..Len(frames)
      BY <1>3, <2>2
    <3>2. gs[k].lo \in Nat /\ gs[k].up \in Nat
      BY <1>1, <3>1, IntervalIs
    <3>3. gs[k].up < lo \/ up < gs[k].lo
      BY <1>10, <3>1
    <3>4. PICK l2, u2 \in Nat : gs[m].lo = l2 /\ gs[m].up = u2 /\ lo <= l2 /\ u2 <= up
      BY <1>2, <1>5, <2>2
    <3>. QED  BY <1>4, <3>2, <3>3, <3>4, SMTT(40)
  <2>3. CASE k = d /\ m = d + 1
    BY <1>2, <1>5, <2>3
  <2>. QED  BY <1>3, <1>11, <2>1, <2>2, <2>3
<1>. QED  BY <1>1, <1>9, <1>11 DEF FramesOK, gs

(* Around the pivot in its place the parts are apart.                      *)
LEMMA SplitToDo ==
  ASSUME FramesOK(frames, N), N \in Nat, frames /= <<>>, NEW q \in Nat, lo < q, q < up, NEW rnd \in Nat,
         array0 \in Seq(Int), NEW arr, Permutation(arr), Len(arr) = N, LeftToDo(arr, frames), NEW p,
         arr[q] = p, AllNotAbove(arr, lo, q - 1, p), AllNotBelow(arr, q + 1, up, p)
  PROVE  LeftToDo(arr, Split(q, rnd))
<1>. DEFINE gs == Split(q, rnd)
            d == Len(frames)
<1>1. /\ gs \in Seq(Interval) /\ Len(gs) = d + 1
      /\ \A k \in 1..d - 1 : gs[k] = frames[k]
      /\ \E l, u, l1, u1 \in Nat :
           /\ gs[d].lo = l /\ gs[d].up = u /\ gs[d + 1].lo = l1 /\ gs[d + 1].up = u1
           /\ 2 * (u1 - l1 + 2) <= up - lo + 2
           /\ \/ l = lo /\ u = q - 1 /\ l1 = q + 1 /\ u1 = up
              \/ l1 = lo /\ u1 = q - 1 /\ l = q + 1 /\ u = up
  BY SplitIs, ZenonT(60)
<1>. HIDE DEF gs
<1>2. /\ \/ gs[d].lo = lo /\ gs[d].up = q - 1 /\ gs[d + 1].lo = q + 1 /\ gs[d + 1].up = up
         \/ gs[d + 1].lo = lo /\ gs[d + 1].up = q - 1 /\ gs[d].lo = q + 1 /\ gs[d].up = up
  BY <1>1
<1>3. d \in Nat /\ d >= 1 /\ d \in 1..Len(frames) /\ frames[d].lo = lo /\ frames[d].up = up
  BY DEF FramesOK, lo, up, Top, Last
<1>4. lo \in Nat /\ up \in Nat /\ 1 <= lo /\ up <= N
  BY <1>3, IntervalIs
<1>5. \A n \in 1..N : Key(arr[n]) \in Int
  BY KeyInt
<1>6. Apart(arr, lo, up)
  BY <1>3 DEF LeftToDo
<1>7. Apart(arr, lo, q - 1)
  <2>. SUFFICES ASSUME NEW n \in lo..q - 1, NEW m \in 1..N
                PROVE  /\ m < lo => Key(arr[m]) <= Key(arr[n])
                       /\ m > q - 1 => Key(arr[n]) <= Key(arr[m])
    BY DEF Apart
  <2>1. n \in lo..up /\ n \in 1..N
    BY <1>4
  <2>2. m < lo => Key(arr[m]) <= Key(arr[n])
    BY <1>6, <2>1 DEF Apart
  <2>3. m > up => Key(arr[n]) <= Key(arr[m])
    BY <1>6, <2>1 DEF Apart
  <2>4. Key(arr[n]) <= Key(arr[q])
    BY DEF AllNotAbove
  <2>5. m \in q + 1..up => Key(arr[q]) <= Key(arr[m])
    BY DEF AllNotBelow
  <2>6. q \in 1..N
    BY <1>4
  <2>7. Key(arr[n]) \in Int /\ Key(arr[m]) \in Int /\ Key(arr[q]) \in Int
    BY <1>5, <2>1, <2>6
  <2>8. CASE m > q - 1
    <3>1. m = q \/ m \in q + 1..up \/ m > up
      BY <1>4, <2>8
    <3>2. Key(arr[n]) <= Key(arr[m])
      BY <2>3, <2>4, <2>5, <2>7, <3>1
    <3>. QED  BY <1>4, <2>8, <3>2
  <2>9. CASE ~(m > q - 1)
    BY <2>2, <2>9
  <2>. QED  BY <2>8, <2>9
<1>8. Apart(arr, q + 1, up)
  <2>. SUFFICES ASSUME NEW n \in q + 1..up, NEW m \in 1..N
                PROVE  /\ m < q + 1 => Key(arr[m]) <= Key(arr[n])
                       /\ m > up => Key(arr[n]) <= Key(arr[m])
    BY DEF Apart
  <2>1. n \in lo..up /\ n \in 1..N
    BY <1>4
  <2>2. m < lo => Key(arr[m]) <= Key(arr[n])
    BY <1>6, <2>1 DEF Apart
  <2>3. m > up => Key(arr[n]) <= Key(arr[m])
    BY <1>6, <2>1 DEF Apart
  <2>4. Key(arr[q]) <= Key(arr[n])
    BY DEF AllNotBelow
  <2>5. m \in lo..q - 1 => Key(arr[m]) <= Key(arr[q])
    BY DEF AllNotAbove
  <2>6. q \in 1..N
    BY <1>4
  <2>7. Key(arr[n]) \in Int /\ Key(arr[m]) \in Int /\ Key(arr[q]) \in Int
    BY <1>5, <2>1, <2>6
  <2>8. CASE m < q + 1
    <3>1. m = q \/ m \in lo..q - 1 \/ m < lo
      BY <1>4, <2>8
    <3>2. Key(arr[m]) <= Key(arr[n])
      BY <2>2, <2>4, <2>5, <2>7, <3>1
    <3>. QED  BY <1>4, <2>8, <3>2
  <2>9. CASE ~(m < q + 1)
    BY <2>3, <2>9
  <2>. QED  BY <2>8, <2>9
<1>9. ASSUME NEW k \in 1..d + 1  PROVE Apart(arr, gs[k].lo, gs[k].up)
  <2>1. CASE k = d \/ k = d + 1
    BY <1>2, <1>7, <1>8, <2>1
  <2>2. CASE k <= d - 1
    <3>1. k \in 1..d - 1 /\ k \in 1..Len(frames)
      BY <1>3, <2>2
    <3>. QED  BY <1>1, <3>1 DEF LeftToDo
  <2>. QED  BY <1>3, <2>1, <2>2, SMTT(40)
<1>10. ASSUME NEW n \in 1..N - 1, ~(Key(arr[n]) <= Key(arr[n + 1]))
       PROVE  \E k \in 1..d + 1 : gs[k].lo <= n /\ n + 1 <= gs[k].up
  <2>1. PICK k \in 1..d : frames[k].lo <= n /\ n + 1 <= frames[k].up
    BY <1>10 DEF LeftToDo, Ordered
  <2>2. CASE k <= d - 1
    <3>1. k \in 1..d - 1 /\ k \in 1..d + 1
      BY <1>3, <2>2
    <3>. QED  BY <1>1, <2>1, <3>1
  <2>3. CASE k = d
    <3>1. lo <= n /\ n + 1 <= up
      BY <1>3, <2>1, <2>3
    <3>2. n + 1 /= q
      <4>. SUFFICES ASSUME n + 1 = q  PROVE FALSE
        OBVIOUS
      <4>1. n \in lo..q - 1
        BY <1>4, <3>1
      <4>. QED  BY <1>10, <4>1 DEF AllNotAbove
    <3>3. n /= q
      <4>. SUFFICES ASSUME n = q  PROVE FALSE
        OBVIOUS
      <4>1. n + 1 \in q + 1..up
        BY <1>4, <3>1
      <4>. QED  BY <1>10, <4>1 DEF AllNotBelow
    <3>4. (lo <= n /\ n + 1 <= q - 1) \/ (q + 1 <= n /\ n + 1 <= up)
      BY <1>4, <3>1, <3>2, <3>3
    <3>5. d \in 1..d + 1 /\ d + 1 \in 1..d + 1
      BY <1>3
    <3>. QED  BY <1>2, <3>4, <3>5
  <2>4. k <= d - 1 \/ k = d
    BY <1>3
  <2>. QED  BY <2>2, <2>3, <2>4
<1>11. Ordered(arr, gs)
  BY <1>1, <1>10 DEF Ordered
<1>. QED  BY <1>1, <1>9, <1>11 DEF LeftToDo, gs

-----------------------------------------------------------------------------
(* The steps                                                               *)

Active == SortInv /\ spc \notin {"done", "error"}

LEMMA ActiveFacts ==
  ASSUME Active
  PROVE  /\ N \in Nat /\ N = Len(array0) /\ array0 \in Seq(Int) /\ Permutation(a) /\ valid \in BOOLEAN
         /\ FramesOK(frames, N) /\ frames /= <<>>
         /\ lo = Last(frames).lo /\ up = Last(frames).up /\ Top = Last(frames)
         /\ lo \in Nat /\ up \in Nat /\ 1 <= lo /\ lo < up /\ up <= N /\ Top.rnd \in Nat
         /\ \A n \in lo..up : n \in 1..N
<1>1. N \in Nat /\ N = Len(array0) /\ array0 \in Seq(Int) /\ Permutation(a) /\ valid \in BOOLEAN
  BY DEF Active, SortInv, Permutation, N
<1>2. FramesOK(frames, N) /\ frames /= <<>> /\ lo < up
  BY DEF Active, SortInv
<1>3. Len(frames) \in 1..Len(frames) /\ Top = frames[Len(frames)]
  BY <1>2 DEF FramesOK, Top, Last
<1>4. lo \in Nat /\ up \in Nat /\ 1 <= lo /\ up <= N /\ Top.rnd \in Nat
  BY <1>1, <1>2, <1>3, IntervalIs DEF lo, up
<1>5. \A n \in lo..up : n \in 1..N
  BY <1>1, <1>4
<1>6. lo = Last(frames).lo /\ up = Last(frames).up /\ Top = Last(frames)
  BY DEF lo, up, Top
<1>. QED  BY <1>1, <1>2, <1>4, <1>5, <1>6

LEMMA ActiveKeys ==
  ASSUME Active, NEW arr, Permutation(arr)
  PROVE  Len(arr) = N /\ \A n \in lo..up : Key(arr[n]) \in Int /\ arr[n] \in Nat
<1>1. Len(arr) = Len(array0)
  BY DEF Permutation
<1>2. \A n \in 1..Len(arr) : arr[n] \in 1..Len(array0) /\ Key(arr[n]) \in Int
  BY ActiveFacts, KeyInt
<1>. QED  BY <1>1, <1>2, ActiveFacts

(* One more swap within the interval.                                      *)
LEMMA SwapMore ==
  ASSUME Active, NEW arr, Permutation(arr), Shuffled(a, arr, lo, up), NEW m \in lo..up, NEW n \in lo..up
  PROVE  /\ Permutation(Swap(arr, m, n)) /\ Shuffled(a, Swap(arr, m, n), lo, up)
         /\ Swap(arr, m, n)[m] = arr[n] /\ Swap(arr, m, n)[n] = arr[m]
         /\ \A x \in lo..up : x /= m /\ x /= n => Swap(arr, m, n)[x] = arr[x]
<1>. DEFINE b == Swap(arr, m, n)
<1>1. /\ N \in Nat /\ lo \in Int /\ up \in Int /\ 1 <= lo /\ up <= N /\ \A x \in lo..up : x \in 1..N
      /\ Len(a) = N /\ Len(arr) = N
  BY ActiveFacts, ActiveKeys DEF N
<1>2. /\ Permutation(b) /\ Len(b) = N /\ b[m] = arr[n] /\ b[n] = arr[m]
      /\ \A x \in 1..N : x /= m /\ x /= n => b[x] = arr[x]
  <2>1. m \in 1..Len(arr) /\ n \in 1..Len(arr)
    BY <1>1
  <2>2. /\ Permutation(b) /\ Len(b) = Len(arr) /\ b[m] = arr[n] /\ b[n] = arr[m]
        /\ \A x \in 1..Len(arr) : x /= m /\ x /= n => b[x] = arr[x]
    BY <2>1, SwapIs
  <2>. HIDE DEF b
  <2>. QED  BY <1>1, <2>2
<1>3. Shuffled(arr, b, lo, up)
  BY <1>1, SwapShuffles
<1>. HIDE DEF b
<1>4. Shuffled(a, b, lo, up)
  BY <1>1, <1>2, <1>3, ShuffledTwice
<1>. QED  BY <1>1, <1>2, <1>4 DEF b

LEMMA NoSwap ==
  ASSUME Active
  PROVE  Permutation(a) /\ Shuffled(a, a, lo, up)
BY ActiveFacts DEF Shuffled

LEMMA ShuffledToDo ==
  ASSUME Active, valid, NEW arr, Permutation(arr), Shuffled(a, arr, lo, up)
  PROVE  LeftToDo(arr, frames)
<1>1. LeftToDo(a, frames)
  BY DEF Active, SortInv
<1>2. array0 \in Seq(Int) /\ Permutation(a) /\ FramesOK(frames, Len(a)) /\ frames /= <<>>
      /\ Shuffled(a, arr, Last(frames).lo, Last(frames).up)
  BY ActiveFacts DEF N
<1>. QED  BY <1>1, <1>2, TopShuffled

LEMMA NextArray ==
  ASSUME array0' = array0
  PROVE  /\ Permutation(a)' <=> Permutation(a')
         /\ LeftToDo(a, frames)' <=> LeftToDo(a', frames')
         /\ \A x : Key(x)' = Key(x)
<1>1. \A x : Key(x)' = Key(x)
  BY DEF Key
<1>2. Permutation(a)' <=> Permutation(a')
  BY DEF Permutation
<1>3. LeftToDo(a, frames)' <=> LeftToDo(a', frames')
  BY DEF LeftToDo, Apart, Ordered, Key
<1>. QED  BY <1>1, <1>2, <1>3

(* A comparison that leaves the interval as it is.                         *)
LEMMA StayInv ==
  ASSUME Active, array0' = array0, valid' = valid, frames' = frames, Permutation(a'),
         pivot' \in Int, i' \in Int, j' \in Int,
         spc' \in {"low", "high", "left", "right", "error"},
         valid => LeftToDo(a', frames) /\ spc' /= "error", PhaseOK'
  PROVE  SortInv'
<1>1. Permutation(a)' /\ (LeftToDo(a, frames)' <=> LeftToDo(a', frames'))
  BY NextArray
<1>2. N' = N
  BY ActiveFacts DEF Permutation, N
<1>3. lo' = lo /\ up' = up
  BY DEF lo, up, Top
<1>4. /\ FramesOK(frames', N') /\ (frames /= <<>> => lo < up)'
  BY <1>2, <1>3, ActiveFacts
<1>. QED  BY <1>1, <1>4, ActiveFacts DEF SortInv

(* The calls return until one has an interval left.                        *)
LEMMA GoInv ==
  ASSUME Active, array0' = array0, valid' = valid, Permutation(a'),
         pivot' \in Int, i' \in Int, j' \in Int,
         NEW fs, FramesOK(fs, N), Go(fs), valid => LeftToDo(a', fs)
  PROVE  SortInv'
<1>1. Permutation(a)' /\ (LeftToDo(a, frames)' <=> LeftToDo(a', frames'))
  BY NextArray
<1>2. N' = N /\ N \in Nat /\ Len(a') \in Nat
  BY ActiveFacts DEF Permutation, N
<1>3. /\ FramesOK(Pending(fs), N)
      /\ Pending(fs) /= <<>> => Last(Pending(fs)).lo < Last(Pending(fs)).up
      /\ valid => LeftToDo(a', Pending(fs))
  BY <1>2, PendingFrames
<1>4. frames' = Pending(fs) /\ spc' = IF Pending(fs) = <<>> THEN "done" ELSE "ends"
  BY DEF Go
<1>5. FramesOK(frames', N') /\ (frames /= <<>> => lo < up)'
  BY <1>2, <1>3, <1>4 DEF lo, up, Top
<1>6. PhaseOK'
  BY <1>4 DEF PhaseOK
<1>. QED  BY <1>1, <1>3, <1>4, <1>5, <1>6, ActiveFacts DEF SortInv

LEMMA Compared ==
  ASSUME NEW x, NEW y, NEW res \in BOOLEAN, sort_comp(x, y, res), valid
  PROVE  res <=> Key(x) < Key(y)
BY DEF sort_comp

LEMMA PivotInside ==
  ASSUME Active, up - lo >= 2
  PROVE  choosePivot(Top) \in lo + 1..up - 1
<1>. DEFINE r == (up - lo) \div 4
<1>1. lo \in Nat /\ up \in Nat /\ Top.rnd \in Nat /\ Top.lo = lo /\ Top.up = up
  BY ActiveFacts DEF lo, up
<1>2. CASE up - lo < RANLIMIT \/ Top.rnd = 0
  <2>1. choosePivot(Top) = (lo + up) \div 2
    BY <1>1, <1>2 DEF choosePivot
  <2>2. (lo + up) \div 2 \in lo + 1..up - 1
    BY <1>1
  <2>. QED  BY <2>1, <2>2
<1>3. CASE ~(up - lo < RANLIMIT \/ Top.rnd = 0)
  <2>1. choosePivot(Top) = (Top.rnd % (r * 2)) + lo + r
    BY <1>1, <1>3 DEF choosePivot
  <2>2. r \in Nat /\ r >= 1 /\ r * 4 <= up - lo
    BY <1>1, <1>3, SortAssumption
  <2>. HIDE DEF r
  <2>3. Top.rnd % (r * 2) \in 0..r * 2 - 1
    <3>1. \A x, y \in Nat : y >= 1 => x % y \in 0..y - 1
      OBVIOUS
    <3>2. r * 2 \in Nat /\ r * 2 >= 1
      BY <2>2
    <3>. QED  BY <1>1, <3>1, <3>2
  <2>. QED  BY <1>1, <2>1, <2>2, <2>3
<1>. QED  BY <1>2, <1>3

(* The ends of the interval are compared.                                  *)
LEMMA EndsInv ==
  ASSUME Active, Ends
  PROVE  SortInv'
<1>. PICK res \in BOOLEAN :
       /\ spc = "ends" /\ sort_comp(a[up], a[lo], res)
       /\ a' = IF res THEN Swap(a, lo, up) ELSE a
       /\ IF up - lo = 1 THEN Go(Front(frames)) /\ UNCHANGED pivot
          ELSE spc' = "low" /\ pivot' = choosePivot(Top) /\ UNCHANGED frames
       /\ UNCHANGED <<array0, valid, i, j, P>>
  BY DEF Ends
<1>1. lo \in lo..up /\ up \in lo..up /\ lo \in Nat /\ up \in Nat /\ lo < up
  BY ActiveFacts
<1>2. /\ Permutation(a') /\ Shuffled(a, a', lo, up)
      /\ a'[lo] = (IF res THEN a[up] ELSE a[lo]) /\ a'[up] = (IF res THEN a[lo] ELSE a[up])
  BY <1>1, NoSwap, SwapMore
<1>3. valid => LeftToDo(a', frames)
  BY <1>2, ShuffledToDo
<1>4. valid => Key(a'[lo]) <= Key(a'[up])
  <2>. SUFFICES ASSUME valid  PROVE Key(a'[lo]) <= Key(a'[up])
    OBVIOUS
  <2>1. res <=> Key(a[up]) < Key(a[lo])
    BY Compared
  <2>2. Key(a[up]) \in Int /\ Key(a[lo]) \in Int
    BY <1>1, ActiveFacts, ActiveKeys
  <2>. QED  BY <1>2, <2>1, <2>2
<1>5. array0' = array0 /\ valid' = valid /\ i' \in Int /\ j' \in Int /\ pivot \in Int
  BY DEF Active, SortInv
<1>6. CASE up - lo = 1
  <2>1. Go(Front(frames)) /\ pivot' \in Int
    BY <1>5, <1>6
  <2>2. FramesOK(Front(frames), N)
    BY ActiveFacts, FrontFrames
  <2>3. ASSUME valid  PROVE LeftToDo(a', Front(frames))
    <3>1. Len(a') \in Nat
      BY <1>2, ActiveFacts, ActiveKeys
    <3>2. ASSUME NEW m \in Last(frames).lo..Last(frames).up - 1  PROVE Key(a'[m]) <= Key(a'[m + 1])
      <4>1. m = lo /\ m + 1 = up
        BY <1>1, <1>6, ActiveFacts
      <4>. QED  BY <1>4, <2>3, <4>1
    <3>. QED  BY <1>3, <2>3, <3>1, <3>2, ActiveFacts, FrontFrames
  <2>. QED  BY <1>2, <1>5, <2>1, <2>2, <2>3, GoInv
<1>7. CASE up - lo /= 1
  <2>1. spc' = "low" /\ pivot' = choosePivot(Top) /\ frames' = frames
    BY <1>7
  <2>2. up - lo >= 2 /\ pivot' \in lo + 1..up - 1
    <3>1. up - lo >= 2
      BY <1>1, <1>7
    <3>. QED  BY <2>1, <3>1, PivotInside
  <2>3. lo' = lo /\ up' = up
    BY <2>1 DEF lo, up, Top
  <2>4. Key(a[lo])' = Key(a'[lo]) /\ Key(a[up])' = Key(a'[up])
    BY <1>5, <2>3 DEF Key
  <2>5. PhaseOK'
    BY <1>4, <1>5, <2>1, <2>2, <2>3, <2>4 DEF PhaseOK
  <2>6. pivot' \in Int
    BY <1>1, <2>2
  <2>. QED  BY <1>2, <1>3, <1>5, <2>1, <2>5, <2>6, StayInv
<1>. QED  BY <1>6, <1>7

(* The ends and the middle are in order: the partition starts, if there is *)
(* more to sort.                                                           *)
LEMMA StartInv ==
  ASSUME Active, spc \in {"low", "high"}, NEW arr, Permutation(arr), Shuffled(a, arr, lo, up), Start(arr),
         valid => Key(arr[lo]) <= Key(arr[pivot]) /\ Key(arr[pivot]) <= Key(arr[up]),
         UNCHANGED <<array0, valid, pivot>>
  PROVE  SortInv'
<1>1. /\ lo \in Nat /\ up \in Nat /\ lo < up /\ up - lo >= 2 /\ pivot \in lo + 1..up - 1
      /\ pivot \in Int /\ i \in Int /\ j \in Int
  BY ActiveFacts DEF Active, SortInv, PhaseOK
<1>2. lo \in lo..up /\ up \in lo..up /\ pivot \in lo..up /\ up - 1 \in lo..up
  BY <1>1
<1>3. valid => LeftToDo(arr, frames)
  BY ShuffledToDo
<1>4. CASE up - lo = 2
  <2>1. a' = arr /\ Go(Front(frames)) /\ i' = i /\ j' = j
    BY <1>4 DEF Start
  <2>2. FramesOK(Front(frames), N)
    BY ActiveFacts, FrontFrames
  <2>3. ASSUME valid  PROVE LeftToDo(arr, Front(frames))
    <3>1. Len(arr) \in Nat
      BY ActiveFacts, ActiveKeys
    <3>2. ASSUME NEW m \in Last(frames).lo..Last(frames).up - 1  PROVE Key(arr[m]) <= Key(arr[m + 1])
      <4>1. \/ m = lo /\ m + 1 = pivot
            \/ m = pivot /\ m + 1 = up
        BY <1>1, <1>4, ActiveFacts
      <4>. QED  BY <2>3, <4>1
    <3>. QED  BY <1>3, <2>3, <3>1, <3>2, ActiveFacts, FrontFrames
  <2>4. pivot' \in Int /\ i' \in Int /\ j' \in Int
    BY <1>1, <2>1
  <2>. QED  BY <2>1, <2>2, <2>3, <2>4, GoInv
<1>5. CASE up - lo /= 2
  <2>1. /\ a' = Swap(arr, pivot, up - 1) /\ P' = arr[pivot]
        /\ i' = lo + 1 /\ j' = up - 1 /\ spc' = "left" /\ frames' = frames
    BY <1>5 DEF Start
  <2>2. up - lo >= 3 /\ up - 1 /= lo
    BY <1>1, <1>5
  <2>3. /\ Permutation(a') /\ Shuffled(a, a', lo, up)
        /\ a'[up - 1] = arr[pivot] /\ a'[lo] = arr[lo] /\ a'[up] = arr[up]
    <3>1. lo /= pivot /\ lo /= up - 1 /\ up /= pivot /\ up /= up - 1
      BY <1>1, <2>2
    <3>. DEFINE z == up - 1
                b == Swap(arr, pivot, up - 1)
    <3>2. /\ Permutation(b) /\ Shuffled(a, b, lo, up)
          /\ b[up - 1] = arr[pivot] /\ \A x \in lo..up : x /= pivot /\ x /= up - 1 => b[x] = arr[x]
      <4>1. pivot \in lo..up /\ z \in lo..up
        BY <1>2
      <4>. HIDE DEF z
      <4>2. /\ Permutation(Swap(arr, pivot, z)) /\ Shuffled(a, Swap(arr, pivot, z), lo, up)
            /\ Swap(arr, pivot, z)[z] = arr[pivot]
            /\ \A x \in lo..up : x /= pivot /\ x /= z => Swap(arr, pivot, z)[x] = arr[x]
        BY <4>1, SwapMore, ZenonT(60)
      <4>. QED  BY <4>2 DEF z
    <3>3. a' = b
      BY <2>1
    <3>. HIDE DEF b
    <3>. QED  BY <1>2, <3>1, <3>2, <3>3
  <2>4. valid => LeftToDo(a', frames)
    BY <2>3, ShuffledToDo
  <2>5. lo' = lo /\ up' = up /\ array0' = array0 /\ valid' = valid
    BY <2>1 DEF lo, up, Top
  <2>6. \A x : Key(x)' = Key(x)
    BY <2>5, NextArray
  <2>7. ASSUME valid  PROVE AllNotAbove(a, lo, i - 1, P)'
    <3>1. \A n \in lo..i' - 1 : Key(a'[n]) <= Key(P')
      <4>1. Key(a'[lo]) <= Key(P')
        BY <2>1, <2>3, <2>7
      <4>2. ASSUME NEW n \in lo..i' - 1  PROVE n = lo
        BY <1>1, <2>1
      <4>. QED  BY <4>1, <4>2
    <3>. QED  BY <2>5, <3>1 DEF AllNotAbove, Key
  <2>8. ASSUME valid  PROVE AllNotBelow(a, j, up, P)'
    <3>1. \A n \in up - 1..up : n = up - 1 \/ n = up
      BY <1>1
    <3>2. Key(arr[pivot]) \in Int
      BY <1>2, ActiveKeys
    <3>3. Key(arr[pivot]) <= Key(arr[pivot])
      BY <3>2
    <3>4. \A n \in j'..up : Key(P') <= Key(a'[n])
      BY <2>1, <2>3, <2>8, <3>1, <3>3
    <3>. QED  BY <2>5, <3>4 DEF AllNotBelow, Key
  <2>9. i' \in lo + 1..up - 1 /\ j' \in lo + 1..up - 1 /\ a'[up - 1] = P'
    BY <1>1, <2>1, <2>2, <2>3
  <2>10. PhaseOK'
    BY <2>1, <2>2, <2>5, <2>7, <2>8, <2>9 DEF PhaseOK
  <2>11. pivot' \in Int /\ i' \in Int /\ j' \in Int
    BY <1>1, <2>1
  <2>. QED  BY <2>1, <2>3, <2>4, <2>5, <2>10, <2>11, StayInv
<1>. QED  BY <1>4, <1>5

(* The middle is compared with the low end.                                *)
LEMMA LowInv ==
  ASSUME Active, Low
  PROVE  SortInv'
<1>. PICK res \in BOOLEAN :
       /\ spc = "low" /\ sort_comp(a[pivot], a[lo], res)
       /\ IF res THEN Start(Swap(a, pivot, lo)) ELSE spc' = "high" /\ UNCHANGED <<a, frames, i, j, P>>
       /\ UNCHANGED <<array0, valid, pivot>>
  BY DEF Low
<1>1. /\ lo \in Nat /\ up \in Nat /\ up - lo >= 2 /\ pivot \in lo + 1..up - 1
      /\ pivot \in Int /\ i \in Int /\ j \in Int
      /\ valid => Key(a[lo]) <= Key(a[up])
  BY ActiveFacts DEF Active, SortInv, PhaseOK
<1>2. lo \in lo..up /\ up \in lo..up /\ pivot \in lo..up /\ up /= lo /\ up /= pivot
  BY <1>1
<1>3. /\ Key(a[pivot]) \in Int /\ Key(a[lo]) \in Int /\ Key(a[up]) \in Int
  BY <1>2, ActiveFacts, ActiveKeys
<1>4. valid => (res <=> Key(a[pivot]) < Key(a[lo]))
  BY Compared
<1>5. CASE res
  <2>. DEFINE b == Swap(a, pivot, lo)
  <2>1. /\ Permutation(b) /\ Shuffled(a, b, lo, up)
        /\ b[pivot] = a[lo] /\ b[lo] = a[pivot] /\ b[up] = a[up]
    <3>1. Permutation(a) /\ Shuffled(a, a, lo, up)
      BY NoSwap
    <3>2. /\ Permutation(b) /\ Shuffled(a, b, lo, up) /\ b[pivot] = a[lo] /\ b[lo] = a[pivot]
          /\ \A x \in lo..up : x /= pivot /\ x /= lo => b[x] = a[x]
      BY <1>2, <3>1, SwapMore, ZenonT(60)
    <3>. HIDE DEF b
    <3>. QED  BY <1>2, <3>2
  <2>2. Start(b)
    BY <1>5
  <2>. HIDE DEF b
  <2>3. valid => Key(b[lo]) <= Key(b[pivot]) /\ Key(b[pivot]) <= Key(b[up])
    BY <1>1, <1>3, <1>4, <1>5, <2>1
  <2>. QED  BY <2>1, <2>2, <2>3, StartInv
<1>6. CASE ~res
  <2>1. spc' = "high" /\ a' = a /\ frames' = frames /\ i' = i /\ j' = j /\ pivot' = pivot
    BY <1>6
  <2>2. lo' = lo /\ up' = up /\ array0' = array0 /\ valid' = valid
    BY <2>1 DEF lo, up, Top
  <2>3. valid => Key(a[lo]) <= Key(a[pivot])
    BY <1>3, <1>4, <1>6
  <2>4. Key(a[lo])' = Key(a[lo]) /\ Key(a[up])' = Key(a[up]) /\ Key(a[pivot])' = Key(a[pivot])
    BY <2>1, <2>2 DEF Key
  <2>5. PhaseOK'
    BY <1>1, <2>1, <2>2, <2>3, <2>4 DEF PhaseOK
  <2>6. Permutation(a') /\ (valid => LeftToDo(a', frames))
    BY <2>1, NoSwap, ShuffledToDo
  <2>. QED  BY <1>1, <2>1, <2>2, <2>5, <2>6, StayInv
<1>. QED  BY <1>5, <1>6

(* The middle is compared with the high end.                               *)
LEMMA HighInv ==
  ASSUME Active, High
  PROVE  SortInv'
<1>. PICK res \in BOOLEAN :
       /\ spc = "high" /\ sort_comp(a[up], a[pivot], res)
       /\ Start(IF res THEN Swap(a, pivot, up) ELSE a)
       /\ UNCHANGED <<array0, valid, pivot>>
  BY DEF High
<1>1. /\ lo \in Nat /\ up \in Nat /\ up - lo >= 2 /\ pivot \in lo + 1..up - 1
      /\ valid => Key(a[lo]) <= Key(a[up])
      /\ valid => Key(a[lo]) <= Key(a[pivot])
  BY ActiveFacts DEF Active, SortInv, PhaseOK
<1>2. lo \in lo..up /\ up \in lo..up /\ pivot \in lo..up /\ up /= lo /\ lo /= pivot
  BY <1>1
<1>3. /\ Key(a[pivot]) \in Int /\ Key(a[lo]) \in Int /\ Key(a[up]) \in Int
  BY <1>2, ActiveFacts, ActiveKeys
<1>4. valid => (res <=> Key(a[up]) < Key(a[pivot]))
  BY Compared
<1>. DEFINE b == IF res THEN Swap(a, pivot, up) ELSE a
<1>5. /\ Permutation(b) /\ Shuffled(a, b, lo, up) /\ b[lo] = a[lo]
      /\ b[pivot] = (IF res THEN a[up] ELSE a[pivot]) /\ b[up] = (IF res THEN a[pivot] ELSE a[up])
  <2>1. Permutation(a) /\ Shuffled(a, a, lo, up)
    BY NoSwap
  <2>2. CASE res
    <3>1. b = Swap(a, pivot, up)
      BY <2>2
    <3>2. /\ Permutation(Swap(a, pivot, up)) /\ Shuffled(a, Swap(a, pivot, up), lo, up)
          /\ Swap(a, pivot, up)[pivot] = a[up] /\ Swap(a, pivot, up)[up] = a[pivot]
          /\ \A x \in lo..up : x /= pivot /\ x /= up => Swap(a, pivot, up)[x] = a[x]
      BY <1>2, <2>1, SwapMore, ZenonT(60)
    <3>. HIDE DEF b
    <3>. QED  BY <1>2, <2>2, <3>1, <3>2
  <2>3. CASE ~res
    <3>1. b = a
      BY <2>3
    <3>. HIDE DEF b
    <3>. QED  BY <2>1, <2>3, <3>1
  <2>. QED  BY <2>2, <2>3
<1>6. Start(b)
  OBVIOUS
<1>. HIDE DEF b
<1>7. valid => Key(b[lo]) <= Key(b[pivot]) /\ Key(b[pivot]) <= Key(b[up])
  BY <1>1, <1>3, <1>4, <1>5
<1>. QED  BY <1>5, <1>6, <1>7, StartInv

(* The next element from the left is compared with the pivot.              *)
LEMMA LeftInv ==
  ASSUME Active, Left
  PROVE  SortInv'
<1>. PICK res \in BOOLEAN :
       /\ spc = "left" /\ sort_comp(a[i], P, res)
       /\ CASE res /\ i = up - 1 -> InvalidOrder
            [] res /\ i /= up - 1 -> i' = i + 1 /\ UNCHANGED <<spc, a, frames, pivot, j>>
            [] OTHER -> spc' = "right" /\ j' = j - 1 /\ UNCHANGED <<a, frames, pivot, i>>
       /\ UNCHANGED <<array0, valid, P>>
  BY DEF Left
<1>1. /\ lo \in Nat /\ up \in Nat /\ up - lo >= 3 /\ i \in lo + 1..up - 1 /\ j \in lo + 1..up - 1
      /\ a[up - 1] = P /\ pivot \in Int /\ i \in Int /\ j \in Int
      /\ valid => AllNotAbove(a, lo, i - 1, P) /\ AllNotBelow(a, j, up, P)
  BY ActiveFacts DEF Active, SortInv, PhaseOK
<1>2. i \in lo..up /\ up - 1 \in lo..up
  BY <1>1
<1>3. Key(a[i]) \in Int /\ Key(P) \in Int
  BY <1>1, <1>2, ActiveFacts, ActiveKeys
<1>4. valid => (res <=> Key(a[i]) < Key(P))
  BY Compared
<1>5. /\ a' = a /\ frames' = frames /\ pivot' = pivot /\ array0' = array0 /\ valid' = valid /\ P' = P
      /\ CASE res /\ i = up - 1 -> spc' = "error" /\ i' = i /\ j' = j
           [] res /\ i /= up - 1 -> i' = i + 1 /\ spc' = "left" /\ j' = j
           [] OTHER -> spc' = "right" /\ j' = j - 1 /\ i' = i
  BY DEF InvalidOrder
<1>6. lo' = lo /\ up' = up
  BY <1>5 DEF lo, up, Top
<1>7. Permutation(a') /\ (valid => LeftToDo(a', frames'))
  BY <1>5, NoSwap, ShuffledToDo
<1>8. CASE res /\ i = up - 1
  <2>1. ~valid
    BY <1>1, <1>3, <1>4, <1>8
  <2>2. spc' = "error" /\ i' = i /\ j' = j
    BY <1>5, <1>8
  <2>3. PhaseOK'
    BY <2>1, <2>2, <1>5 DEF PhaseOK
  <2>. QED  BY <1>1, <1>5, <1>7, <2>1, <2>2, <2>3, StayInv
<1>9. CASE res /\ i /= up - 1
  <2>1. spc' = "left" /\ i' = i + 1 /\ j' = j
    BY <1>5, <1>9
  <2>2. i' \in lo + 1..up - 1
    BY <1>1, <1>9, <2>1
  <2>3. ASSUME valid  PROVE AllNotAbove(a, lo, i - 1, P)'
    <3>1. \A n \in lo..i' - 1 : n \in lo..i - 1 \/ n = i
      BY <1>1, <2>1
    <3>2. Key(a[i]) <= Key(P)
      BY <1>3, <1>4, <1>9, <2>3
    <3>3. \A n \in lo..i' - 1 : Key(a[n]) <= Key(P)
      BY <1>1, <2>3, <3>1, <3>2 DEF AllNotAbove
    <3>. QED  BY <1>5, <1>6, <3>3 DEF AllNotAbove, Key
  <2>4. ASSUME valid  PROVE AllNotBelow(a, j, up, P)'
    BY <1>1, <1>5, <1>6, <2>1, <2>4 DEF AllNotBelow, Key
  <2>5. PhaseOK'
    BY <1>1, <1>5, <1>6, <2>1, <2>2, <2>3, <2>4 DEF PhaseOK
  <2>6. i' \in Int
    BY <1>1, <2>1
  <2>. QED  BY <1>1, <1>5, <1>7, <2>1, <2>5, <2>6, StayInv
<1>10. CASE ~res
  <2>1. spc' = "right" /\ j' = j - 1 /\ i' = i
    BY <1>5, <1>10
  <2>2. j' \in lo..up - 2 /\ j' + 1 = j
    BY <1>1, <2>1
  <2>3. ASSUME valid  PROVE AllNotAbove(a, lo, i - 1, P)'
    BY <1>1, <1>5, <1>6, <2>1, <2>3 DEF AllNotAbove, Key
  <2>4. ASSUME valid  PROVE AllNotBelow(a, j + 1, up, P)'
    <3>1. \A n \in j' + 1..up : Key(P) <= Key(a[n])
      BY <1>1, <2>2, <2>4 DEF AllNotBelow
    <3>. QED  BY <1>5, <1>6, <3>1 DEF AllNotBelow, Key
  <2>5. ASSUME valid  PROVE Key(P)' <= Key(a[i])'
    <3>1. Key(P) <= Key(a[i])
      BY <1>3, <1>4, <1>10, <2>5
    <3>2. Key(P)' = Key(P) /\ Key(a[i])' = Key(a[i])
      BY <1>5, <2>1 DEF Key
    <3>. QED  BY <3>1, <3>2
  <2>6. PhaseOK'
    BY <1>1, <1>5, <1>6, <2>1, <2>2, <2>3, <2>4, <2>5 DEF PhaseOK
  <2>7. j' \in Int
    BY <1>1, <2>1
  <2>. QED  BY <1>1, <1>5, <1>7, <2>1, <2>6, <2>7, StayInv
<1>. QED  BY <1>8, <1>9, <1>10

(* The next element from the right is compared with the pivot; when the    *)
(* two have met the interval is split.                                     *)
LEMMA RightInv ==
  ASSUME Active, Right
  PROVE  SortInv'
<1>. PICK res \in BOOLEAN :
       /\ spc = "right" /\ sort_comp(P, a[j], res)
       /\ CASE res /\ j < i -> InvalidOrder
            [] res /\ j >= i -> j' = j - 1 /\ UNCHANGED <<spc, a, frames, pivot, i>>
            [] ~res /\ j < i -> /\ a' = Swap(a, up - 1, i) /\ pivot' = i
                                /\ \E rnd \in Rnds : Go(Split(i, rnd))
                                /\ UNCHANGED <<i, j>>
            [] OTHER -> a' = Swap(a, i, j) /\ i' = i + 1 /\ spc' = "left" /\ UNCHANGED <<frames, pivot, j>>
       /\ UNCHANGED <<array0, valid, P>>
  BY DEF Right
<1>1. /\ lo \in Nat /\ up \in Nat /\ up - lo >= 3 /\ i \in lo + 1..up - 1 /\ j \in lo..up - 2
      /\ a[up - 1] = P /\ pivot \in Int /\ i \in Int /\ j \in Int
      /\ valid => /\ AllNotAbove(a, lo, i - 1, P) /\ AllNotBelow(a, j + 1, up, P)
                  /\ Key(P) <= Key(a[i])
  BY ActiveFacts DEF Active, SortInv, PhaseOK
<1>2. i \in lo..up /\ j \in lo..up /\ up - 1 \in lo..up /\ i \in Nat /\ lo < i /\ i < up
  BY <1>1
<1>3. /\ Key(P) \in Int /\ \A n \in lo..up : Key(a[n]) \in Int
  BY <1>1, <1>2, ActiveFacts, ActiveKeys
<1>4. valid => (res <=> Key(P) < Key(a[j]))
  BY Compared
<1>5. array0' = array0 /\ valid' = valid /\ P' = P
  OBVIOUS
<1>6. CASE res /\ j < i
  <2>1. ~valid
    <3>. SUFFICES ASSUME valid  PROVE FALSE
      OBVIOUS
    <3>1. j \in lo..i - 1
      BY <1>1, <1>6
    <3>2. Key(a[j]) <= Key(P)
      BY <1>1, <3>1 DEF AllNotAbove
    <3>. QED  BY <1>2, <1>3, <1>4, <1>6, <3>2
  <2>2. spc' = "error" /\ a' = a /\ frames' = frames /\ pivot' = pivot /\ i' = i /\ j' = j
    <3>1. ~(j >= i)
      BY <1>1, <1>6
    <3>. QED  BY <1>6, <3>1 DEF InvalidOrder
  <2>3. PhaseOK'
    BY <1>5, <2>1, <2>2 DEF PhaseOK
  <2>4. Permutation(a')
    BY <2>2, NoSwap
  <2>. QED  BY <1>1, <1>5, <2>1, <2>2, <2>3, <2>4, StayInv
<1>7. CASE res /\ j >= i
  <2>1. /\ ~(res /\ j < i)
        /\ spc' = "right" /\ a' = a /\ frames' = frames /\ pivot' = pivot /\ i' = i /\ j' = j - 1
    <3>1. ~(res /\ j < i)
      BY <1>1, <1>7
    <3>. QED  BY <1>7, <3>1
  <2>2. lo' = lo /\ up' = up
    BY <2>1 DEF lo, up, Top
  <2>3. j' \in lo..up - 2
    BY <1>1, <1>7, <2>1
  <2>4. ASSUME valid  PROVE AllNotAbove(a, lo, i - 1, P)'
    BY <1>1, <1>5, <2>1, <2>2, <2>4 DEF AllNotAbove, Key
  <2>5. ASSUME valid  PROVE AllNotBelow(a, j + 1, up, P)'
    <3>1. \A n \in j' + 1..up : n = j \/ n \in j + 1..up
      BY <1>1, <2>1
    <3>2. Key(P) <= Key(a[j])
      BY <1>2, <1>3, <1>4, <1>7, <2>5
    <3>3. \A n \in j' + 1..up : Key(P) <= Key(a[n])
      BY <1>1, <2>5, <3>1, <3>2 DEF AllNotBelow
    <3>. QED  BY <1>5, <2>1, <2>2, <3>3 DEF AllNotBelow, Key
  <2>6. ASSUME valid  PROVE Key(P)' <= Key(a[i])'
    <3>1. Key(P)' = Key(P) /\ Key(a[i])' = Key(a[i])
      BY <1>5, <2>1 DEF Key
    <3>. QED  BY <1>1, <2>6, <3>1
  <2>7. PhaseOK'
    BY <1>1, <1>5, <2>1, <2>2, <2>3, <2>4, <2>5, <2>6 DEF PhaseOK
  <2>8. j' \in Int /\ Permutation(a') /\ (valid => LeftToDo(a', frames))
    BY <1>1, <2>1, NoSwap, ShuffledToDo
  <2>. QED  BY <1>1, <1>5, <2>1, <2>7, <2>8, StayInv
<1>8. CASE ~res /\ j < i
  <2>1. a' = Swap(a, up - 1, i) /\ pivot' = i /\ i' = i /\ j' = j /\ \E rnd \in Rnds : Go(Split(i, rnd))
    BY <1>8
  <2>2. PICK rnd \in Rnds : Go(Split(i, rnd))
    BY <2>1
  <2>3. /\ Permutation(a') /\ Shuffled(a, a', lo, up) /\ a'[up - 1] = a[i] /\ a'[i] = P
        /\ \A x \in lo..up : x /= up - 1 /\ x /= i => a'[x] = a[x]
    <3>. DEFINE b == Swap(a, up - 1, i)
    <3>1. /\ Permutation(b) /\ Shuffled(a, b, lo, up) /\ b[up - 1] = a[i] /\ b[i] = a[up - 1]
          /\ \A x \in lo..up : x /= up - 1 /\ x /= i => b[x] = a[x]
      <4>1. Permutation(a) /\ Shuffled(a, a, lo, up)
        BY NoSwap
      <4>. DEFINE z == up - 1
      <4>2. z \in lo..up /\ i \in lo..up
        BY <1>2
      <4>. HIDE DEF z
      <4>3. /\ Permutation(Swap(a, z, i)) /\ Shuffled(a, Swap(a, z, i), lo, up)
            /\ Swap(a, z, i)[z] = a[i] /\ Swap(a, z, i)[i] = a[z]
            /\ \A x \in lo..up : x /= z /\ x /= i => Swap(a, z, i)[x] = a[x]
        BY <4>1, <4>2, SwapMore, ZenonT(60)
      <4>. QED  BY <4>3 DEF z
    <3>2. a' = b
      BY <2>1
    <3>. HIDE DEF b
    <3>. QED  BY <1>1, <3>1, <3>2
  <2>4. rnd \in Nat /\ N \in Nat
    BY SortAssumption, ActiveFacts
  <2>5. FramesOK(Split(i, rnd), N)
    BY <1>2, <2>4, ActiveFacts, SplitFrames
  <2>6. ASSUME valid  PROVE LeftToDo(a', Split(i, rnd))
    <3>1. LeftToDo(a', frames)
      BY <2>3, <2>6, ShuffledToDo
    <3>2. AllNotAbove(a', lo, i - 1, P)
      <4>. SUFFICES ASSUME NEW n \in lo..i - 1  PROVE Key(a'[n]) <= Key(P)
        BY DEF AllNotAbove
      <4>1. n \in lo..up /\ n /= up - 1 /\ n /= i
        BY <1>1
      <4>. QED  BY <1>1, <2>3, <2>6, <4>1 DEF AllNotAbove
    <3>3. AllNotBelow(a', i + 1, up, P)
      <4>. SUFFICES ASSUME NEW n \in i + 1..up  PROVE Key(P) <= Key(a'[n])
        BY DEF AllNotBelow
      <4>1. n \in lo..up /\ n /= i /\ n \in j + 1..up
        BY <1>1, <1>8
      <4>2. CASE n = up - 1
        BY <1>1, <2>3, <2>6, <4>2
      <4>3. CASE n /= up - 1
        BY <1>1, <2>3, <2>6, <4>1, <4>3 DEF AllNotBelow
      <4>. QED  BY <4>2, <4>3
    <3>4. Len(a') = N
      BY <2>3, ActiveKeys
    <3>. QED  BY <1>2, <2>3, <2>4, <3>1, <3>2, <3>3, <3>4, ActiveFacts, SplitToDo
  <2>7. pivot' \in Int /\ i' \in Int /\ j' \in Int
    BY <1>1, <2>1
  <2>. QED  BY <1>5, <2>2, <2>3, <2>5, <2>6, <2>7, GoInv
<1>9. CASE ~res /\ j >= i
  <2>1. a' = Swap(a, i, j) /\ i' = i + 1 /\ spc' = "left" /\ frames' = frames /\ pivot' = pivot /\ j' = j
    <3>1. ~(j < i)
      BY <1>1, <1>9
    <3>. QED  BY <1>9, <3>1
  <2>2. lo' = lo /\ up' = up
    BY <2>1 DEF lo, up, Top
  <2>3. i' \in lo + 1..up - 1 /\ j' \in lo + 1..up - 1
    BY <1>1, <1>9, <2>1
  <2>4. /\ Permutation(a') /\ Shuffled(a, a', lo, up) /\ a'[i] = a[j] /\ a'[j] = a[i]
        /\ \A x \in lo..up : x /= i /\ x /= j => a'[x] = a[x]
    <3>. DEFINE b == Swap(a, i, j)
    <3>1. /\ Permutation(b) /\ Shuffled(a, b, lo, up) /\ b[i] = a[j] /\ b[j] = a[i]
          /\ \A x \in lo..up : x /= i /\ x /= j => b[x] = a[x]
      BY <1>2, NoSwap, SwapMore, ZenonT(60)
    <3>2. a' = b
      BY <2>1
    <3>. HIDE DEF b
    <3>. QED  BY <3>1, <3>2
  <2>5. a'[up - 1] = P
    <3>1. up - 1 /= i /\ up - 1 /= j
      BY <1>1, <1>9
    <3>. QED  BY <1>1, <1>2, <2>4, <3>1
  <2>6. ASSUME valid  PROVE AllNotAbove(a, lo, i - 1, P)'
    <3>1. ASSUME NEW n \in lo..i' - 1  PROVE Key(a'[n]) <= Key(P)
      <4>1. CASE n = i
        <5>1. Key(a[j]) <= Key(P)
          BY <1>2, <1>3, <1>4, <1>9, <2>6
        <5>. QED  BY <2>4, <4>1, <5>1
      <4>2. CASE n /= i
        <5>1. n \in lo..i - 1 /\ n \in lo..up /\ n /= j
          BY <1>1, <1>9, <2>1, <4>2
        <5>. QED  BY <1>1, <2>4, <2>6, <4>2, <5>1 DEF AllNotAbove
      <4>. QED  BY <4>1, <4>2
    <3>. QED  BY <1>5, <2>2, <3>1 DEF AllNotAbove, Key
  <2>7. ASSUME valid  PROVE AllNotBelow(a, j, up, P)'
    <3>1. ASSUME NEW n \in j'..up  PROVE Key(P) <= Key(a'[n])
      <4>1. CASE n = j
        BY <1>1, <2>4, <2>7, <4>1
      <4>2. CASE n /= j
        <5>1. n \in j + 1..up /\ n \in lo..up /\ n /= i
          BY <1>1, <1>9, <2>1, <4>2
        <5>. QED  BY <1>1, <2>4, <2>7, <4>2, <5>1 DEF AllNotBelow
      <4>. QED  BY <4>1, <4>2
    <3>. QED  BY <1>5, <2>2, <3>1 DEF AllNotBelow, Key
  <2>8. PhaseOK'
    BY <1>1, <1>5, <2>1, <2>2, <2>3, <2>5, <2>6, <2>7 DEF PhaseOK
  <2>9. i' \in Int /\ j' \in Int /\ pivot' \in Int /\ (valid => LeftToDo(a', frames))
    BY <1>1, <2>1, <2>4, ShuffledToDo
  <2>. QED  BY <1>5, <2>1, <2>4, <2>8, <2>9, StayInv
<1>. QED  BY <1>1, <1>6, <1>7, <1>8, <1>9

-----------------------------------------------------------------------------
(* SortInv holds of the array as it is given, and every step keeps it.     *)
LEMMA SortStart ==
  ASSUME SortInit(Sorts)
  PROVE  SortInv
<1>. DEFINE n == Len(array0)
            f == [lo |-> 1, up |-> n, rnd |-> 0]
            fs == <<f>>
<1>1. PICK c \in Sorts : array0 = c.keys /\ valid = c.valid
  BY DEF SortInit
<1>2. array0 \in Seq(Int) /\ valid \in BOOLEAN /\ n \in Nat
  BY <1>1, SortAssumption
<1>3. /\ a = [x \in 1..n |-> x] /\ frames = Pending(fs) /\ pivot = 0 /\ i = 0 /\ j = 0
      /\ spc = IF frames = <<>> THEN "done" ELSE "ends"
  <2>1. DOMAIN array0 = 1..n
    BY <1>2
  <2>. QED  BY <2>1 DEF SortInit
<1>4. Permutation(a) /\ N = n
  <2>1. a \in Seq(1..n) /\ Len(a) = n /\ \A x \in 1..n : a[x] = x
    BY <1>2, <1>3
  <2>. QED  BY <1>2, <2>1 DEF Permutation, N
<1>5. PhaseOK
  BY <1>3 DEF PhaseOK
<1>6. CASE n = 0
  <2>1. f \in Interval /\ fs \in Seq(Interval) /\ Len(fs) = 1 /\ fs[1] = f
    BY <1>2 DEF Interval
  <2>2. PICK d \in 0..1 : /\ frames \in Seq(Interval) /\ Len(frames) = d
                          /\ d > 0 => fs[d].lo < fs[d].up
    BY <1>3, <2>1, PendingIs
  <2>3. d = 0
    BY <1>6, <2>1, <2>2
  <2>4. frames = <<>> /\ spc = "done"
    BY <1>3, <2>2, <2>3
  <2>5. FramesOK(frames, N)
    BY <2>4 DEF FramesOK
  <2>6. LeftToDo(a, frames)
    BY <1>2, <1>4, <1>6, <2>4 DEF LeftToDo, Ordered, N
  <2>. QED  BY <1>2, <1>3, <1>4, <1>5, <2>4, <2>5, <2>6 DEF SortInv
<1>7. CASE n > 0
  <2>1. f \in Interval /\ fs \in Seq(Interval) /\ Len(fs) = 1 /\ fs[1] = f /\ Len(a) = n
    BY <1>2, <1>4 DEF Interval, N
  <2>2. FramesOK(fs, n)
    <3>1. 2^0 * (n - 1 + 2) <= n + 1
      BY <1>2, TwoPower
    <3>2. \A k \in 1..1 : k = 1 /\ k - 1 = 0
      OBVIOUS
    <3>3. 1 \in 1..n
      BY <1>2, <1>7
    <3>4. \A k \in 1..Len(fs) : /\ fs[k].lo \in 1..fs[k].up /\ fs[k].up <= n
                                /\ 2^(k - 1) * (fs[k].up - fs[k].lo + 2) <= n + 1
      <4>. TAKE k \in 1..Len(fs)
      <4>1. k = 1 /\ 2^(k - 1) = 2^0
        BY <2>1, <3>2
      <4>2. fs[k].lo = 1 /\ fs[k].up = n
        BY <2>1, <4>1
      <4>. HIDE DEF fs, n
      <4>. QED  BY <1>2, <3>1, <3>3, <4>1, <4>2
    <3>5. \A k, m \in 1..Len(fs) : ~(k < m)
      BY <2>1
    <3>. HIDE DEF fs
    <3>. QED  BY <2>1, <3>4, <3>5 DEF FramesOK
  <2>3. LeftToDo(a, fs)
    <3>1. \A k \in 1..1 : Apart(a, fs[k].lo, fs[k].up)
      BY <1>2, <2>1 DEF Apart
    <3>2. \A m \in 1..n - 1 : fs[1].lo <= m /\ m + 1 <= fs[1].up
      BY <1>2, <2>1
    <3>. HIDE DEF fs
    <3>. QED  BY <2>1, <3>1, <3>2 DEF LeftToDo, Ordered
  <2>4. /\ FramesOK(frames, n) /\ LeftToDo(a, frames)
        /\ frames /= <<>> => Last(frames).lo < Last(frames).up
    BY <1>2, <1>3, <2>1, <2>2, <2>3, PendingFrames
  <2>. QED  BY <1>2, <1>3, <1>4, <1>5, <2>4 DEF SortInv, lo, up, Top
<1>. QED  BY <1>2, <1>6, <1>7

LEMMA SortStep ==
  ASSUME SortInv, [SortNext]_sortVars
  PROVE  SortInv'
<1>1. CASE SortNext
  <2>1. Active
    BY <1>1 DEF SortNext, Ends, Low, High, Left, Right, Active
  <2>. QED  BY <1>1, <2>1, EndsInv, LowInv, HighInv, LeftInv, RightInv DEF SortNext
<1>2. CASE UNCHANGED sortVars
  <2>1. /\ array0' = array0 /\ valid' = valid /\ a' = a /\ frames' = frames /\ spc' = spc
        /\ pivot' = pivot /\ i' = i /\ j' = j /\ P' = P
    BY <1>2 DEF sortVars
  <2>2. Permutation(a)' <=> Permutation(a)
    BY <2>1 DEF Permutation
  <2>3. LeftToDo(a, frames)' <=> LeftToDo(a, frames)
    BY <2>1, NextArray
  <2>4. N' = N /\ lo' = lo /\ up' = up
    BY <2>1 DEF N, lo, up, Top
  <2>5. PhaseOK' <=> PhaseOK
    BY <2>1, <2>4 DEF PhaseOK, AllNotAbove, AllNotBelow, Key
  <2>. QED  BY <2>1, <2>2, <2>3, <2>4, <2>5 DEF SortInv
<1>. QED  BY <1>1, <1>2

(* What SortInv says of the intervals and of the calls.                    *)
LEMMA SortInvIsSafe ==
  ASSUME SortInv
  PROVE  SortSafe
<1>1. /\ N \in Nat /\ array0 \in Seq(Int) /\ Permutation(a) /\ FramesOK(frames, N)
  BY DEF SortInv, Permutation, N
<1>2. \A n \in 1..N : Key(a[n]) \in Int
  BY <1>1, KeyInt DEF N
<1>3. RecursionShallow
  <2>. SUFFICES ASSUME frames /= <<>>  PROVE 2 ^ Len(frames) <= N
    BY DEF RecursionShallow
  <2>. DEFINE d == Len(frames)
              p == 2^(d - 1)
  <2>1. d \in Nat /\ d >= 1 /\ d \in 1..Len(frames) /\ frames[d].lo = lo /\ frames[d].up = up
    BY <1>1 DEF FramesOK, lo, up, Top, Last
  <2>2. lo \in Nat /\ up \in Nat /\ lo < up
    <3>1. lo \in Nat /\ up \in Nat
      BY <1>1, <2>1, IntervalIs
    <3>. QED  BY <3>1 DEF SortInv
  <2>3. p * (up - lo + 2) <= N + 1
    BY <1>1, <2>1 DEF FramesOK
  <2>4. p \in Nat \ {0} /\ 2^d = 2 * p
    <3>1. d - 1 \in Nat /\ (d - 1) + 1 = d
      BY <2>1
    <3>. QED  BY <3>1, TwoPower
  <2>. HIDE DEF p, d
  <2>5. p * 3 <= N + 1
    <3>1. up - lo + 2 \in Nat /\ 3 <= up - lo + 2 /\ N + 1 \in Nat
      BY <1>1, <2>2
    <3>. QED  BY <2>3, <2>4, <3>1, SmallerFits
  <2>6. 2 * p <= N
    BY <1>1, <2>4, <2>5
  <2>. QED  BY <2>4, <2>6 DEF d
<1>4. spc \in {"ends", "low", "high", "left", "right"} =>
        lo \in Nat /\ up \in Nat /\ 1 <= lo /\ lo < up /\ up <= N
  BY ActiveFacts DEF Active
<1>5. spc = "left" => i \in lo + 1..up - 1 /\ j \in lo..up
  <2>. SUFFICES ASSUME spc = "left"  PROVE i \in lo + 1..up - 1 /\ j \in lo..up
    OBVIOUS
  <2>1. i \in lo + 1..up - 1 /\ j \in lo + 1..up - 1
    BY DEF SortInv, PhaseOK
  <2>. QED  BY <1>4, <2>1
<1>6. spc = "right" => i \in lo + 1..up - 1 /\ j \in lo..up - 2
  BY DEF SortInv, PhaseOK
<1>7. spc \in {"low", "high"} => pivot \in lo + 1..up - 1
  BY DEF SortInv, PhaseOK
<1>8. ASSUME valid, spc \in {"left", "right"}
      PROVE  NotAbove(Keys(lo, i - 1), Key(P)) /\ NotBelow(Keys(j + 1, up), Key(P))
  <2>1. AllNotAbove(a, lo, i - 1, P)
    BY <1>8 DEF SortInv, PhaseOK
  <2>2. AllNotBelow(a, j + 1, up, P)
    <3>1. CASE spc = "left"
      <4>1. AllNotBelow(a, j, up, P) /\ j \in Int
        BY <1>8, <3>1 DEF SortInv, PhaseOK
      <4>2. \A n \in j + 1..up : n \in j..up
        BY <1>4, <3>1, <4>1
      <4>. QED  BY <4>1, <4>2 DEF AllNotBelow
    <3>2. CASE spc = "right"
      BY <1>8, <3>2 DEF SortInv, PhaseOK
    <3>. QED  BY <1>8, <3>1, <3>2
  <2>3. Key(P) \in Int /\ i \in Int /\ j \in Int
    <3>1. a[up - 1] = P /\ i \in Int /\ j \in Int
      BY <1>8 DEF SortInv, PhaseOK
    <3>2. up - 1 \in 1..N
      BY <1>1, <1>4, <1>8
    <3>. QED  BY <1>2, <3>1, <3>2
  <2>4. \A n \in j + 1..up : n \in 1..N
    <3>1. j \in lo..up
      <4>1. CASE spc = "left"
        BY <1>5, <4>1
      <4>2. CASE spc = "right"
        BY <1>4, <1>6, <4>2
      <4>. QED  BY <1>8, <4>1, <4>2
    <3>. QED  BY <1>1, <1>4, <1>8, <3>1
  <2>5. NotAbove(Keys(lo, i - 1), Key(P))
    BY <2>1 DEF AllNotAbove, NotAbove, Keys
  <2>6. \A n \in j + 1..up : Key(a[n]) >= Key(P)
    BY <1>2, <2>2, <2>3, <2>4 DEF AllNotBelow
  <2>. QED  BY <2>5, <2>6 DEF NotBelow, Keys
<1>9. ASSUME valid, NEW f \in ToSet(frames), NEW n \in f.lo..f.up
      PROVE  NotAbove(Keys(1, f.lo - 1), Key(a[n])) /\ NotBelow(Keys(f.up + 1, N), Key(a[n]))
  <2>1. PICK k \in 1..Len(frames) : f = frames[k]
    BY <1>1 DEF ToSet, FramesOK
  <2>2. f.lo \in Nat /\ f.up \in Nat /\ 1 <= f.lo /\ f.lo <= f.up /\ f.up <= N
    BY <1>1, <2>1, IntervalIs
  <2>3. Apart(a, f.lo, f.up)
    BY <1>9, <2>1 DEF SortInv, LeftToDo
  <2>4. n \in 1..N
    BY <1>1, <2>2
  <2>5. ASSUME NEW m \in 1..f.lo - 1  PROVE Key(a[m]) <= Key(a[n])
    <3>1. m \in 1..N /\ m < f.lo
      BY <1>1, <2>2
    <3>. QED  BY <2>3, <3>1 DEF Apart, N
  <2>6. ASSUME NEW m \in f.up + 1..N  PROVE Key(a[m]) >= Key(a[n])
    <3>1. m \in 1..N /\ m > f.up
      BY <1>1, <2>2
    <3>2. Key(a[n]) <= Key(a[m])
      BY <2>3, <3>1 DEF Apart, N
    <3>. QED  BY <1>2, <2>4, <3>1, <3>2
  <2>. QED  BY <2>5, <2>6 DEF NotAbove, NotBelow, Keys
<1>10. ASSUME valid, spc = "done"  PROVE \A n \in 1..N - 1 : Key(a[n]) <= Key(a[n + 1])
  <2>1. frames = <<>> /\ Ordered(a, frames)
    BY <1>10 DEF SortInv, LeftToDo
  <2>. QED  BY <2>1 DEF Ordered, N
<1>11. valid => spc /= "error"
  BY DEF SortInv
<1>12. \A m, n \in 1..N : a[m] = a[n] => m = n
  BY <1>1 DEF Permutation, N
<1>. QED  BY <1>3, <1>5, <1>6, <1>7, <1>8, <1>9, <1>10, <1>11, <1>12 DEF SortSafe, SortSound

(* A sort is safe and right, whatever the array, its size and the answers  *)
(* of the order function: the array stays a permutation, no comparison is  *)
(* made out of the interval, the calls of auxsort that are active are no   *)
(* more than the logarithm of the size; and with an order none is called   *)
(* invalid, and the array is sorted at the end.                            *)
THEOREM SortAlwaysSafe == SortSpec => []SortSafe
<1>1. SortInit(Sorts) => SortInv
  BY SortStart
<1>2. SortInv /\ [SortNext]_sortVars => SortInv'
  BY SortStep
<1>3. SortInv => SortSafe
  BY SortInvIsSafe
<1>. QED  BY <1>1, <1>2, <1>3, PTL DEF SortSpec

-----------------------------------------------------------------------------
(* The loops over ranges                                                   *)

SrcTab == [n \in Index |-> Src(n)]
DstTab == [n \in Index |-> <<"dst", n>>]

From     == optinteger(tcall.f, 1)
To       == optinteger(tcall.e, tcall.len)
InsertPos == optinteger(tcall.f, Wrap(tcall.len + 1))
RemovePos == optinteger(tcall.f, tcall.len)

(* The elements at (or after) which index the loop has still to move.      *)
InsertLoop ==
  /\ stop = InsertPos /\ InsertPos <= ti
  /\ tcall.f = NoArg => ti = InsertPos
  /\ tcall.f /= NoArg => tcall.len < LUA_MAXINTEGER /\ ti <= tcall.len + 1
  /\ tab = [n \in Index |-> IF ti < n /\ n <= tcall.len + 1 /\ tcall.f /= NoArg THEN Src(n - 1) ELSE Src(n)]

RemoveLoop ==
  /\ stop = tcall.len /\ RemovePos <= ti /\ (ti <= stop \/ ti = RemovePos)
  /\ out = <<Src(RemovePos)>>
  /\ tab = [n \in Index |-> IF RemovePos <= n /\ n < ti THEN Src(n + 1) ELSE Src(n)]

Copied(n) == IF dir = 1 THEN tcall.t <= n /\ n < tcall.t + ti
             ELSE tcall.t + ti < n /\ n <= tcall.t + (tcall.e - tcall.f)
MoveLoop ==
  LET last == tcall.e - tcall.f
      After(old) == [n \in Index |-> IF Copied(n) THEN Src(n - tcall.t + tcall.f) ELSE old[n]]
  IN /\ ti \in 0..last /\ tcall.t + last <= LUA_MAXINTEGER
     /\ IF Upwards(tcall.f, tcall.e, tcall.t) THEN dir = 1 /\ stop = last ELSE dir = -1 /\ stop = 0
     /\ IF tcall.same THEN tab = After(SrcTab) ELSE tab = SrcTab /\ dst = After(DstTab)

ReadLoop ==
  /\ stop = To /\ From <= ti /\ (ti <= stop \/ ti = From) /\ (tcall.fn = "unpack" => ti <= stop)
  /\ out = Sources(From, ti - 1) /\ tab = SrcTab

PackLoop ==
  /\ stop = 1 /\ ti <= tcall.len /\ (ti >= 0 \/ ti = tcall.len)
  /\ tab = [n \in Index |-> IF n >= 1 /\ ti < n /\ n <= tcall.len THEN <<"arg", n>> ELSE Nil]

TabInv ==
  /\ tcall \in TabCalls
  /\ tpc \in {"start", "loop", "done", "error"}
  /\ tpc \in {"start", "error"} => /\ tab = IF tcall.fn = "pack" THEN [n \in Index |-> Nil] ELSE SrcTab
                                   /\ dst = DstTab
  /\ tpc = "start" => out = <<>>
  /\ tpc = "error" => Unanswerable /\ tcall.fn /= "pack"
  /\ tpc = "done" => Leaves(tcall.fn)
  /\ tpc = "loop" => /\ ti \in Index /\ stop \in Index
                     /\ tcall.fn = "insert" => InsertLoop
                     /\ tcall.fn = "remove" => RemoveLoop
                     /\ tcall.fn = "move" => MoveLoop
                     /\ tcall.fn \in {"concat", "unpack"} => ReadLoop
                     /\ tcall.fn = "pack" => PackLoop

-----------------------------------------------------------------------------
(* The limits of integers, for a word of any size                          *)
LEMMA Limits ==
  /\ LUA_MAXINTEGER \in Nat /\ LUA_MAXINTEGER >= 1 /\ LUA_MININTEGER \in Int
  /\ LUA_MININTEGER = -LUA_MAXINTEGER - 1
  /\ Wide \in Nat /\ Wide = 2 * (LUA_MAXINTEGER + 1)
<1>1. W \in Nat /\ W >= 3 /\ W - 1 \in Nat /\ W - 2 \in Nat /\ (W - 2) + 1 = W - 1 /\ (W - 1) + 1 = W
  BY NumberAssumption
<1>2. 2^(W - 2) \in Nat \ {0} /\ 2^(W - 1) = 2 * 2^(W - 2) /\ 2^(W - 1) \in Nat \ {0} /\ 2^W = 2 * 2^(W - 1)
  BY <1>1, TwoPower
<1>. DEFINE h == 2^(W - 1)
            q == 2^(W - 2)
<1>3. LUA_MAXINTEGER = h - 1 /\ LUA_MININTEGER = -h /\ Wide = 2 * h /\ h = 2 * q /\ q \in Nat \ {0} /\ h \in Nat
  BY <1>2 DEF LUA_MAXINTEGER, LUA_MININTEGER, Wide
<1>. HIDE DEF h, q
<1>. QED  BY <1>3

LEMMA Remainder ==
  ASSUME NEW w \in Nat \ {0}, NEW x \in Int
  PROVE  /\ (0 <= x /\ x < w => x % w = x)
         /\ (-w <= x /\ x < 0 => x % w = x + w)
         /\ (w <= x /\ x < 2 * w => x % w = x - w)
OBVIOUS

LEMMA WrapIs ==
  ASSUME NEW x \in Index
  PROVE  Wrap(x + 1) = IF x = LUA_MAXINTEGER THEN LUA_MININTEGER ELSE x + 1
<1>1. Wide \in Nat \ {0} /\ x \in Int /\ LUA_MININTEGER <= x /\ x <= LUA_MAXINTEGER
  BY Limits DEF Index
<1>. DEFINE y == (x + 1) - LUA_MININTEGER
<1>2. y \in Int /\ 0 <= y /\ (x = LUA_MAXINTEGER => y = Wide) /\ (x /= LUA_MAXINTEGER => y < Wide)
  BY <1>1, Limits
<1>3. Wrap(x + 1) = (y % Wide) + LUA_MININTEGER
  BY DEF Wrap
<1>. HIDE DEF y
<1>4. x = LUA_MAXINTEGER => y % Wide = 0
  BY <1>1, <1>2, Remainder
<1>5. x /= LUA_MAXINTEGER => y % Wide = y
  BY <1>1, <1>2, Remainder
<1>6. x /= LUA_MAXINTEGER => Wrap(x + 1) = x + 1
  BY <1>1, <1>3, <1>5, Limits DEF y
<1>7. x = LUA_MAXINTEGER => Wrap(x + 1) = LUA_MININTEGER
  BY <1>1, <1>3, <1>4, Limits
<1>. QED  BY <1>6, <1>7

(* The unsigned difference that unpack computes.                           *)
LEMMA DifferenceIs ==
  ASSUME NEW x \in Index, NEW y \in Index, x <= y
  PROVE  (Unsigned(y) - x) % Wide = y - x
<1>1. /\ Wide \in Nat \ {0} /\ x \in Int /\ y \in Int /\ y - x \in Nat /\ y - x < Wide
      /\ -Wide <= y /\ y < Wide
  BY Limits DEF Index
<1>2. Unsigned(y) = IF y < 0 THEN y + Wide ELSE y
  <2>1. /\ (0 <= y /\ y < Wide => y % Wide = y)
        /\ (-Wide <= y /\ y < 0 => y % Wide = y + Wide)
    BY <1>1, Remainder
  <2>2. Unsigned(y) = y % Wide
    BY DEF Unsigned
  <2>. QED  BY <1>1, <2>1, <2>2
<1>3. CASE y < 0
  <2>1. Unsigned(y) - x = (y - x) + Wide
    BY <1>1, <1>2, <1>3
  <2>2. Wide <= (y - x) + Wide /\ (y - x) + Wide < 2 * Wide /\ (y - x) + Wide \in Int
    BY <1>1
  <2>3. ((y - x) + Wide) % Wide = ((y - x) + Wide) - Wide
    BY <1>1, <2>2, Remainder
  <2>. QED  BY <1>1, <2>1, <2>3
<1>4. CASE y >= 0
  <2>1. Unsigned(y) - x = y - x
    BY <1>1, <1>2, <1>4
  <2>. QED  BY <1>1, <2>1, Remainder
<1>. QED  BY <1>1, <1>3, <1>4

LEMMA CallIs ==
  ASSUME tcall \in TabCalls
  PROVE  /\ tcall.fn \in {"insert", "remove", "move", "concat", "unpack", "pack"} /\ tcall.same \in BOOLEAN
         /\ tcall.len \in Index /\ tcall.len \in Int
         /\ tcall.len <= LUA_MAXINTEGER /\ LUA_MININTEGER <= tcall.len
         /\ tcall.f /= NoArg => tcall.f \in Index /\ tcall.f \in Int
         /\ tcall.fn = "move" => /\ {tcall.f, tcall.e, tcall.t} \subseteq Index
                                 /\ {tcall.f, tcall.e, tcall.t} \subseteq Int
         /\ \A n : n \in Index <=> n \in Int /\ LUA_MININTEGER <= n /\ n <= LUA_MAXINTEGER
         /\ From \in Index /\ To \in Index /\ InsertPos \in Index /\ RemovePos \in Index
<1>1. \A n : n \in Index <=> n \in Int /\ LUA_MININTEGER <= n /\ n <= LUA_MAXINTEGER
  BY Limits DEF Index
<1>2. /\ tcall.fn \in {"insert", "remove", "move", "concat", "unpack", "pack"} /\ tcall.same \in BOOLEAN
      /\ tcall.len \in Index /\ tcall.t \in Index /\ {tcall.f, tcall.e} \subseteq Index \union {NoArg}
      /\ tcall.fn = "move" => {tcall.f, tcall.e} \subseteq Index
  BY TabAssumption
<1>3. 1 \in Index
  BY <1>1, Limits
<1>4. Wrap(tcall.len + 1) \in Index
  BY <1>1, <1>2, WrapIs, Limits
<1>5. From \in Index /\ To \in Index /\ InsertPos \in Index /\ RemovePos \in Index
  BY <1>2, <1>3, <1>4 DEF From, To, InsertPos, RemovePos, optinteger
<1>. QED  BY <1>1, <1>2, <1>5

(* One element more is read.                                               *)
LEMMA OneMoreSource ==
  ASSUME NEW first \in Int, NEW n \in Int, first <= n
  PROVE  Append(Sources(first, n - 1), Src(n)) = Sources(first, n)
<1>. DEFINE k == n - first
            s == Sources(first, n - 1)
            t == Sources(first, n)
            R == {Src(m) : m \in Int}
<1>1. k \in Nat /\ (n - 1) - first + 1 = k /\ n - first + 1 = k + 1 /\ first + (k + 1) - 1 = n
  OBVIOUS
<1>2. s = [m \in 1..k |-> Src(first + m - 1)] /\ t = [m \in 1..k + 1 |-> Src(first + m - 1)]
  BY <1>1 DEF Sources
<1>. HIDE DEF s, t, k
<1>3. s \in Seq(R) /\ Len(s) = k
  <2>1. \A m \in 1..k : Src(first + m - 1) \in R
    BY <1>1
  <2>. HIDE DEF R
  <2>. QED  BY <1>1, <1>2, <2>1
<1>4. Src(n) \in R
  OBVIOUS
<1>. HIDE DEF R
<1>5. t \in Seq(R) /\ Len(t) = k + 1
  <2>1. \A m \in 1..k + 1 : Src(first + m - 1) \in R
    BY <1>1 DEF R
  <2>. QED  BY <1>1, <1>2, <2>1
<1>6. /\ Append(s, Src(n)) \in Seq(R) /\ Len(Append(s, Src(n))) = k + 1
      /\ \A m \in 1..k : Append(s, Src(n))[m] = s[m]
      /\ Append(s, Src(n))[k + 1] = Src(n)
  BY <1>3, <1>4, AppendProperties
<1>7. ASSUME NEW m \in 1..k + 1  PROVE Append(s, Src(n))[m] = t[m]
  <2>1. CASE m \in 1..k
    BY <1>2, <1>6, <2>1
  <2>2. CASE m = k + 1
    BY <1>1, <1>2, <1>6, <2>2
  <2>3. m \in 1..k \/ m = k + 1
    BY <1>1
  <2>. QED  BY <2>1, <2>2, <2>3
<1>. QED  BY <1>5, <1>6, <1>7, SeqEqual DEF s, t

-----------------------------------------------------------------------------
(* A call goes on with its loop.                                           *)
LEMMA LoopStep ==
  ASSUME TabInv, tcall' = tcall, tpc' = "loop", ti' \in Index, stop' \in Index,
         /\ tcall.fn = "insert" => InsertLoop'
         /\ tcall.fn = "remove" => RemoveLoop'
         /\ tcall.fn = "move" => MoveLoop'
         /\ tcall.fn \in {"concat", "unpack"} => ReadLoop'
         /\ tcall.fn = "pack" => PackLoop'
  PROVE  TabInv'
BY DEF TabInv

(* A call that ends has done what it says, or could not.                   *)
LEMMA DoneStep ==
  ASSUME TabInv, tcall' = tcall, tpc' = "done", Leaves(tcall.fn)'
  PROVE  TabInv'
BY DEF TabInv

LEMMA RefuseStep ==
  ASSUME TabInv, tpc = "start", tcall.fn /= "pack", Refuse, Unanswerable
  PROVE  TabInv'
<1>1. /\ tcall' = tcall /\ tpc' = "error" /\ tab' = tab /\ dst' = dst
  BY DEF Refuse
<1>2. Unanswerable'
  BY <1>1 DEF Unanswerable, optinteger
<1>. QED  BY <1>1, <1>2 DEF TabInv

LEMMA SameCall ==
  ASSUME tcall' = tcall
  PROVE  From' = From /\ To' = To /\ InsertPos' = InsertPos /\ RemovePos' = RemovePos
BY DEF From, To, InsertPos, RemovePos

(* table.insert starts its loop, or refuses a position out of bounds.      *)
LEMMA InsertStarts ==
  ASSUME TabInv, tinsert
  PROVE  TabInv'
<1>1. tcall \in TabCalls /\ tpc = "start" /\ tcall.fn = "insert" /\ tab = SrcTab
  BY DEF TabInv, tinsert, Called
<1>. DEFINE e == Wrap(tcall.len + 1)
<1>2. PICK res \in BOOLEAN :
        /\ IF tcall.f = NoArg THEN res ELSE InBounds(InsertPos, tcall.len, res) /\ (res => InsertPos <= e)
        /\ IF res THEN Begin(e, 0, InsertPos) ELSE Refuse
  BY DEF tinsert, InsertPos
<1>3. /\ tcall.len \in Int /\ tcall.len <= LUA_MAXINTEGER /\ InsertPos \in Index /\ InsertPos \in Int
      /\ tcall.f /= NoArg => tcall.f \in Int
      /\ tcall.f = NoArg => InsertPos = e
      /\ tcall.f /= NoArg => InsertPos = tcall.f
      /\ e = IF tcall.len = LUA_MAXINTEGER THEN LUA_MININTEGER ELSE tcall.len + 1
  BY <1>1, CallIs, WrapIs DEF InsertPos, optinteger
<1>. HIDE DEF e
<1>4. LUA_MAXINTEGER \in Nat /\ LUA_MAXINTEGER >= 1 /\ LUA_MININTEGER = -LUA_MAXINTEGER - 1
  BY Limits
<1>5. CASE res
  <2>1. /\ tcall' = tcall /\ tpc' = "loop" /\ ti' = e /\ stop' = InsertPos /\ tab' = tab
    BY <1>2, <1>5 DEF Begin
  <2>2. tcall.f /= NoArg => tcall.len < LUA_MAXINTEGER /\ 1 <= InsertPos /\ InsertPos <= e /\ e = tcall.len + 1
    <3>. SUFFICES ASSUME tcall.f /= NoArg
                  PROVE  tcall.len < LUA_MAXINTEGER /\ 1 <= InsertPos /\ InsertPos <= e /\ e = tcall.len + 1
      OBVIOUS
    <3>1. InBounds(InsertPos, tcall.len, res) /\ InsertPos <= e
      BY <1>2, <1>5
    <3>2. 1 <= InsertPos
      BY <1>5, <3>1 DEF InBounds
    <3>3. tcall.len /= LUA_MAXINTEGER
      BY <1>3, <1>4, <3>1, <3>2
    <3>. QED  BY <1>3, <1>4, <3>1, <3>2, <3>3
  <2>3. e \in Index
    BY <1>1, <1>3, <1>4, CallIs
  <2>4. InsertPos <= e /\ (tcall.f = NoArg => e = InsertPos)
    BY <1>3, <2>2
  <2>5. tab' = [n \in Index |-> IF e < n /\ n <= tcall.len + 1 /\ tcall.f /= NoArg THEN Src(n - 1) ELSE Src(n)]
    <3>1. \A n \in Index : ~(e < n /\ n <= tcall.len + 1 /\ tcall.f /= NoArg)
      BY <1>1, <1>3, <2>2, CallIs
    <3>. QED  BY <1>1, <2>1, <3>1 DEF SrcTab
  <2>6. InsertLoop'
    BY <1>3, <2>1, <2>2, <2>4, <2>5, SameCall DEF InsertLoop
  <2>. QED  BY <1>1, <1>3, <2>1, <2>3, <2>6, LoopStep
<1>6. CASE ~res
  <2>1. Refuse /\ tcall.f /= NoArg /\ InBounds(InsertPos, tcall.len, res)
    BY <1>2, <1>6
  <2>2. tcall.len = LUA_MAXINTEGER \/ tcall.f \notin 1..tcall.len + 1
    <3>1. tcall.len /= LUA_MAXINTEGER => ~(1 <= InsertPos /\ InsertPos <= tcall.len + 1)
      BY <1>6, <2>1 DEF InBounds
    <3>. QED  BY <1>3, <2>1, <3>1
  <2>3. Unanswerable
    BY <1>1, <2>2 DEF Unanswerable
  <2>. QED  BY <1>1, <2>1, <2>3, RefuseStep
<1>. QED  BY <1>5, <1>6

(* An element moves up, or the new one is stored in its place.             *)
LEMMA InsertGoesOn ==
  ASSUME TabInv, MoveUp
  PROVE  TabInv'
<1>1. /\ tcall \in TabCalls /\ tpc = "loop" /\ tcall.fn = "insert" /\ InsertLoop /\ ti \in Index /\ stop \in Index
  BY DEF TabInv, MoveUp, Looping
<1>2. /\ ti \in Int /\ InsertPos \in Int /\ InsertPos \in Index /\ tcall.len \in Int /\ stop = InsertPos
      /\ \A n : n \in Index <=> n \in Int /\ LUA_MININTEGER <= n /\ n <= LUA_MAXINTEGER
      /\ LUA_MININTEGER \in Int /\ LUA_MAXINTEGER \in Int
  BY <1>1, CallIs, Limits DEF InsertLoop
<1>3. CASE ti > stop
  <2>1. tab' = [tab EXCEPT ![ti] = tab[ti - 1]] /\ ti' = ti - 1 /\ tcall' = tcall /\ tpc' = "loop" /\ stop' = stop
    BY <1>1, <1>3 DEF MoveUp, GoTo
  <2>2. tcall.f /= NoArg /\ tcall.len < LUA_MAXINTEGER /\ ti <= tcall.len + 1
    BY <1>2, <1>3, <1>1 DEF InsertLoop
  <2>3. ti - 1 \in Index /\ InsertPos <= ti - 1 /\ ti - 1 <= tcall.len + 1
    BY <1>2, <1>3, <2>2
  <2>4. tab = [n \in Index |-> IF ti < n /\ n <= tcall.len + 1 /\ tcall.f /= NoArg THEN Src(n - 1) ELSE Src(n)]
    BY <1>1 DEF InsertLoop
  <2>5. tab[ti - 1] = Src(ti - 1)
    BY <1>2, <2>3, <2>4
  <2>6. tab' = [n \in Index |-> IF ti - 1 < n /\ n <= tcall.len + 1 /\ tcall.f /= NoArg THEN Src(n - 1) ELSE Src(n)]
    <3>1. tab' = [n \in Index |-> IF n = ti THEN Src(ti - 1) ELSE tab[n]]
      BY <2>1, <2>4, <2>5
    <3>2. \A n \in Index : (IF n = ti THEN Src(ti - 1) ELSE tab[n])
            = IF ti - 1 < n /\ n <= tcall.len + 1 /\ tcall.f /= NoArg THEN Src(n - 1) ELSE Src(n)
      BY <1>2, <2>2, <2>4
    <3>. QED  BY <3>1, <3>2
  <2>7. InsertLoop'
    BY <1>2, <2>1, <2>2, <2>3, <2>6, SameCall DEF InsertLoop
  <2>. QED  BY <1>1, <2>1, <2>3, <2>7, LoopStep
<1>4. CASE ~(ti > stop)
  <2>1. tab' = [tab EXCEPT ![stop] = New] /\ tcall' = tcall /\ tpc' = "done"
    BY <1>1, <1>4 DEF MoveUp, Finish
  <2>2. ti = InsertPos
    BY <1>1, <1>2, <1>4 DEF InsertLoop
  <2>3. tab = [n \in Index |-> IF ti < n /\ n <= tcall.len + 1 /\ tcall.f /= NoArg THEN Src(n - 1) ELSE Src(n)]
    BY <1>1 DEF InsertLoop
  <2>4. tab' = [n \in Index |-> CASE n = InsertPos -> New
                                  [] InsertPos < n /\ n <= tcall.len + 1 /\ tcall.f # NoArg -> Src(n - 1)
                                  [] OTHER -> Src(n)]
    BY <1>2, <2>1, <2>2, <2>3
  <2>5. Leaves(tcall.fn)'
    <3>1. tcall.fn = "insert" /\ (tcall.fn)' = "insert"
      BY <1>1, <2>1
    <3>2. InsertPos = optinteger(tcall.f, Wrap(tcall.len + 1)) /\ InsertPos' = InsertPos
      BY <2>1, SameCall DEF InsertPos
    <3>. QED  BY <2>1, <2>4, <3>1, <3>2 DEF Leaves
  <2>. QED  BY <2>1, <2>5, DoneStep
<1>. QED  BY <1>3, <1>4

-----------------------------------------------------------------------------
(* table.remove: the element is read first, then the others move down.     *)
LEMMA RemoveStarts ==
  ASSUME TabInv, tremove
  PROVE  TabInv'
<1>1. tcall \in TabCalls /\ tpc = "start" /\ tcall.fn = "remove" /\ tab = SrcTab
  BY DEF TabInv, tremove, Called
<1>2. PICK res \in BOOLEAN :
        /\ IF RemovePos = tcall.len THEN res ELSE InBounds(RemovePos, tcall.len, res)
        /\ IF res THEN Begin(RemovePos, 0, tcall.len) /\ out' = <<tab[RemovePos]>> ELSE Refuse
  BY DEF tremove, RemovePos
<1>3. /\ tcall.len \in Int /\ tcall.len \in Index /\ tcall.len <= LUA_MAXINTEGER
      /\ RemovePos \in Index /\ RemovePos \in Int /\ RemovePos <= LUA_MAXINTEGER
      /\ RemovePos /= tcall.len => tcall.f /= NoArg /\ RemovePos = tcall.f
  BY <1>1, CallIs DEF RemovePos, optinteger
<1>4. LUA_MAXINTEGER \in Nat /\ LUA_MAXINTEGER >= 1
  BY Limits
<1>5. CASE res
  <2>1. /\ tcall' = tcall /\ tpc' = "loop" /\ ti' = RemovePos /\ stop' = tcall.len /\ tab' = tab
        /\ out' = <<tab[RemovePos]>>
    BY <1>2, <1>5 DEF Begin
  <2>2. tab[RemovePos] = Src(RemovePos)
    BY <1>1, <1>3 DEF SrcTab
  <2>3. tab' = [n \in Index |-> IF RemovePos <= n /\ n < RemovePos THEN Src(n + 1) ELSE Src(n)]
    <3>1. \A n \in Index : ~(RemovePos <= n /\ n < RemovePos)
      BY <1>1, <1>3, CallIs
    <3>. QED  BY <1>1, <2>1, <3>1 DEF SrcTab
  <2>4. RemoveLoop'
    BY <1>3, <2>1, <2>2, <2>3, SameCall DEF RemoveLoop
  <2>. QED  BY <1>1, <1>3, <2>1, <2>4, LoopStep
<1>6. CASE ~res
  <2>1. Refuse /\ RemovePos /= tcall.len /\ InBounds(RemovePos, tcall.len, res)
    BY <1>2, <1>6
  <2>2. tcall.len = LUA_MAXINTEGER \/ tcall.f \notin 1..tcall.len + 1
    <3>1. tcall.len /= LUA_MAXINTEGER => ~(1 <= RemovePos /\ RemovePos <= tcall.len + 1)
      BY <1>6, <2>1 DEF InBounds
    <3>. QED  BY <1>3, <2>1, <3>1
  <2>3. Unanswerable
    BY <1>1, <2>2 DEF Unanswerable
  <2>. QED  BY <1>1, <2>1, <2>3, RefuseStep
<1>. QED  BY <1>5, <1>6

(* An element moves down, or the last one becomes nil.                     *)
LEMMA RemoveGoesOn ==
  ASSUME TabInv, MoveDown
  PROVE  TabInv'
<1>1. /\ tcall \in TabCalls /\ tpc = "loop" /\ tcall.fn = "remove" /\ RemoveLoop /\ ti \in Index /\ stop \in Index
  BY DEF TabInv, MoveDown, Looping
<1>2. /\ ti \in Int /\ RemovePos \in Int /\ RemovePos \in Index /\ tcall.len \in Int /\ stop = tcall.len
      /\ \A n : n \in Index <=> n \in Int /\ LUA_MININTEGER <= n /\ n <= LUA_MAXINTEGER
      /\ LUA_MININTEGER \in Int /\ LUA_MAXINTEGER \in Int /\ tcall.len \in Index
  BY <1>1, CallIs, Limits DEF RemoveLoop
<1>3. /\ RemovePos <= ti /\ (ti <= stop \/ ti = RemovePos) /\ out = <<Src(RemovePos)>>
      /\ tab = [n \in Index |-> IF RemovePos <= n /\ n < ti THEN Src(n + 1) ELSE Src(n)]
  BY <1>1 DEF RemoveLoop
<1>4. CASE ti < stop
  <2>1. /\ tab' = [tab EXCEPT ![ti] = tab[ti + 1]] /\ ti' = ti + 1 /\ tcall' = tcall /\ tpc' = "loop"
        /\ stop' = stop /\ out' = out
    BY <1>1, <1>4 DEF MoveDown, GoTo
  <2>2. ti + 1 \in Index /\ RemovePos <= ti + 1 /\ ti + 1 <= stop
    BY <1>2, <1>3, <1>4
  <2>3. tab[ti + 1] = Src(ti + 1)
    BY <1>2, <1>3, <2>2
  <2>4. tab' = [n \in Index |-> IF RemovePos <= n /\ n < ti + 1 THEN Src(n + 1) ELSE Src(n)]
    <3>1. tab' = [n \in Index |-> IF n = ti THEN Src(ti + 1) ELSE tab[n]]
      BY <1>3, <2>1, <2>3
    <3>2. \A n \in Index : (IF n = ti THEN Src(ti + 1) ELSE tab[n])
            = IF RemovePos <= n /\ n < ti + 1 THEN Src(n + 1) ELSE Src(n)
      BY <1>2, <1>3
    <3>. QED  BY <3>1, <3>2
  <2>5. RemoveLoop'
    BY <1>2, <1>3, <2>1, <2>2, <2>4, SameCall DEF RemoveLoop
  <2>. QED  BY <1>1, <2>1, <2>2, <2>5, LoopStep
<1>5. CASE ~(ti < stop)
  <2>1. tab' = [tab EXCEPT ![ti] = Nil] /\ tcall' = tcall /\ tpc' = "done" /\ out' = out
    BY <1>1, <1>5 DEF MoveDown, Finish
  <2>2. tab' = [n \in Index |-> IF n = ti THEN Nil ELSE tab[n]]
    BY <1>3, <2>1
  <2>3. \A n \in Index : (IF n = ti THEN Nil ELSE tab[n])
          = CASE n = tcall.len /\ RemovePos <= tcall.len -> Nil
              [] n = RemovePos /\ RemovePos > tcall.len -> Nil
              [] RemovePos <= n /\ n < tcall.len -> Src(n + 1)
              [] OTHER -> Src(n)
    <3>1. ASSUME NEW n \in Index
          PROVE  (n = ti) <=> \/ n = tcall.len /\ RemovePos <= tcall.len
                              \/ n = RemovePos /\ RemovePos > tcall.len
      BY <1>2, <1>3, <1>5
    <3>2. ASSUME NEW n \in Index, n /= ti
          PROVE  (RemovePos <= n /\ n < ti) <=> (RemovePos <= n /\ n < tcall.len)
      BY <1>2, <1>3, <1>5, <3>2
    <3>3. \A n \in Index : tab[n] = IF RemovePos <= n /\ n < ti THEN Src(n + 1) ELSE Src(n)
      BY <1>3
    <3>. SUFFICES ASSUME NEW n \in Index
                  PROVE  (IF n = ti THEN Nil ELSE tab[n])
                           = CASE n = tcall.len /\ RemovePos <= tcall.len -> Nil
                               [] n = RemovePos /\ RemovePos > tcall.len -> Nil
                               [] RemovePos <= n /\ n < tcall.len -> Src(n + 1)
                               [] OTHER -> Src(n)
      OBVIOUS
    <3>4. CASE n = ti
      <4>1. CASE n = tcall.len /\ RemovePos <= tcall.len
        BY <3>4, <4>1, <1>2
      <4>2. CASE n = RemovePos /\ RemovePos > tcall.len
        BY <3>4, <4>2, <1>2
      <4>. QED  BY <3>1, <3>4, <4>1, <4>2
    <3>5. CASE n /= ti
      <4>1. tab[n] = IF RemovePos <= n /\ n < tcall.len THEN Src(n + 1) ELSE Src(n)
        BY <3>2, <3>3, <3>5
      <4>2. ~(n = tcall.len /\ RemovePos <= tcall.len) /\ ~(n = RemovePos /\ RemovePos > tcall.len)
        BY <3>1, <3>5
      <4>. QED  BY <3>5, <4>1, <4>2
    <3>. QED  BY <3>4, <3>5
  <2>4. tab' = [n \in Index |-> CASE n = tcall.len /\ RemovePos <= tcall.len -> Nil
                                  [] n = RemovePos /\ RemovePos > tcall.len -> Nil
                                  [] RemovePos <= n /\ n < tcall.len -> Src(n + 1)
                                  [] OTHER -> Src(n)]
    BY <2>2, <2>3
  <2>5. Leaves(tcall.fn)'
    <3>1. tcall.fn = "remove" /\ (tcall.fn)' = "remove"
      BY <1>1, <2>1
    <3>2. RemovePos = optinteger(tcall.f, tcall.len) /\ RemovePos' = RemovePos
      BY <2>1, SameCall DEF RemovePos
    <3>. QED  BY <1>3, <2>1, <2>4, <3>1, <3>2 DEF Leaves
  <2>. QED  BY <2>1, <2>5, DoneStep
<1>. QED  BY <1>4, <1>5

-----------------------------------------------------------------------------
(* table.move: upwards when no element is overwritten before it is read.   *)
LEMMA MoveStarts ==
  ASSUME TabInv, tmove
  PROVE  TabInv'
<1>. DEFINE f == tcall.f
            e == tcall.e
            t == tcall.t
            last == e - f
<1>1. tcall \in TabCalls /\ tpc = "start" /\ tcall.fn = "move" /\ tab = SrcTab /\ dst = DstTab
  BY DEF TabInv, tmove, Called
<1>2. /\ f \in Int /\ e \in Int /\ t \in Int /\ {f, e, t} \subseteq Index /\ tcall.same \in BOOLEAN
      /\ LUA_MININTEGER <= f /\ f <= LUA_MAXINTEGER /\ LUA_MININTEGER <= e /\ e <= LUA_MAXINTEGER
      /\ LUA_MININTEGER <= t /\ t <= LUA_MAXINTEGER
      /\ \A n : n \in Index <=> n \in Int /\ LUA_MININTEGER <= n /\ n <= LUA_MAXINTEGER
  BY <1>1, CallIs
<1>3. LUA_MAXINTEGER \in Nat /\ LUA_MAXINTEGER >= 1 /\ LUA_MININTEGER = -LUA_MAXINTEGER - 1
  BY Limits
<1>4. /\ Count(f, e) = e - f + 1
      /\ TooMany(f, e) <=> ~(f > 0 \/ e < LUA_MAXINTEGER + f)
      /\ WrapsAround(f, e, t) <=> ~(t <= LUA_MAXINTEGER - Count(f, e) + 1)
  BY DEF Count, TooMany, WrapsAround
<1>5. Upwards(f, e, t) <=> t > e \/ t <= f \/ ~tcall.same
  BY DEF Upwards
<1>6. /\ (e < f => tpc' = "done" /\ UNCHANGED <<tcall, tab, dst, ti, dir, stop>>)
      /\ (e >= f /\ (TooMany(f, e) \/ WrapsAround(f, e, t)) => Refuse)
      /\ (e >= f /\ ~TooMany(f, e) /\ ~WrapsAround(f, e, t)
            => IF Upwards(f, e, t) THEN Begin(0, 1, Count(f, e) - 1) ELSE Begin(Count(f, e) - 1, -1, 0))
  <2>1. \/ e < f /\ tpc' = "done" /\ UNCHANGED <<tcall, tab, dst, ti, dir, stop>>
        \/ e >= f /\ (TooMany(f, e) \/ WrapsAround(f, e, t)) /\ Refuse
        \/ /\ ~(e < f) /\ ~(e >= f /\ (TooMany(f, e) \/ WrapsAround(f, e, t)))
           /\ IF Upwards(f, e, t) THEN Begin(0, 1, Count(f, e) - 1) ELSE Begin(Count(f, e) - 1, -1, 0)
    BY DEF tmove
  <2>2. ~(e < f) <=> e >= f
    BY <1>2
  <2>. HIDE DEF f, e, t
  <2>. QED  BY <2>1, <2>2
<1>. HIDE DEF f, e, t
<1>7. CASE e < f
  <2>1. tpc' = "done" /\ tcall' = tcall /\ tab' = tab /\ dst' = dst
    BY <1>6, <1>7
  <2>2. ASSUME NEW n \in Index  PROVE Moved(n) = Nil
    <3>1. n \in Int
      BY <1>2
    <3>2. n - t + f \notin f..e
      BY <1>2, <1>7, <3>1
    <3>. QED  BY <3>2 DEF Moved, f, e, t
  <2>3. \A n \in Index : Moved(n)' = Moved(n)
    BY <2>1 DEF Moved
  <2>4. (tcall.fn)' = "move" /\ tab' = SrcTab /\ dst' = DstTab
    BY <1>1, <2>1
  <2>5. [n \in Index |-> IF Moved(n) # Nil THEN Moved(n) ELSE IF tcall.same THEN Src(n) ELSE <<"dst", n>>]'
          = [n \in Index |-> IF tcall.same THEN Src(n) ELSE <<"dst", n>>]
    BY <2>1, <2>2, <2>3
  <2>6. Leaves(tcall.fn)'
    BY <2>1, <2>4, <2>5 DEF Leaves, SrcTab, DstTab
  <2>. QED  BY <2>1, <2>4, <2>6, <1>1, DoneStep
<1>8. CASE e >= f /\ (TooMany(f, e) \/ WrapsAround(f, e, t))
  <2>1. Refuse
    BY <1>6, <1>8
  <2>2. e - f >= LUA_MAXINTEGER \/ t + e - f > LUA_MAXINTEGER
    BY <1>2, <1>3, <1>4, <1>8
  <2>3. Unanswerable
    BY <1>1, <2>2 DEF Unanswerable, f, e, t
  <2>. QED  BY <1>1, <2>1, <2>3, RefuseStep
<1>9. CASE e >= f /\ ~TooMany(f, e) /\ ~WrapsAround(f, e, t)
  <2>1. /\ last \in Nat /\ last < LUA_MAXINTEGER /\ t + last <= LUA_MAXINTEGER /\ Count(f, e) - 1 = last
        /\ last \in Index /\ 0 \in Index
    BY <1>2, <1>3, <1>4, <1>9
  <2>. HIDE DEF last
  <2>2. IF Upwards(f, e, t) THEN Begin(0, 1, last) ELSE Begin(last, -1, 0)
    BY <1>6, <1>9, <2>1
  <2>3. /\ tpc' = "loop" /\ tcall' = tcall /\ tab' = tab /\ dst' = dst
        /\ Upwards(f, e, t) => ti' = 0 /\ dir' = 1 /\ stop' = last
        /\ ~Upwards(f, e, t) => ti' = last /\ dir' = -1 /\ stop' = 0
    BY <2>2 DEF Begin
  <2>4. Upwards(f, e, t)' <=> Upwards(f, e, t)
    BY <2>3 DEF Upwards, f, e, t
  <2>5. \A n \in Index : ~Copied(n)'
    <3>1. Upwards(f, e, t) => \A n \in Index : ~(t <= n /\ n < t + 0)
      BY <1>2
    <3>2. ~Upwards(f, e, t) => \A n \in Index : ~(t + last < n /\ n <= t + (e - f))
      BY <1>2 DEF last
    <3>. QED  BY <2>3, <3>1, <3>2 DEF Copied, f, e, t
  <2>6. /\ [n \in Index |-> IF Copied(n) THEN Src(n - tcall.t + tcall.f) ELSE SrcTab[n]]' = SrcTab
        /\ [n \in Index |-> IF Copied(n) THEN Src(n - tcall.t + tcall.f) ELSE DstTab[n]]' = DstTab
    BY <2>5 DEF SrcTab, DstTab
  <2>7. MoveLoop'
    BY <1>1, <2>1, <2>3, <2>4, <2>6 DEF MoveLoop, f, e, t, last
  <2>. QED  BY <1>1, <2>1, <2>3, <2>7, LoopStep
<1>. QED
  <2>1. e < f \/ e >= f
    BY <1>2
  <2>. QED  BY <2>1, <1>7, <1>8, <1>9

(* An element is copied from an index that no copy has overwritten.        *)
LEMMA MoveGoesOn ==
  ASSUME TabInv, MoveOne
  PROVE  TabInv'
<1>. DEFINE f == tcall.f
            e == tcall.e
            t == tcall.t
            last == e - f
            After(old) == [n \in Index |-> IF Copied(n) THEN Src(n - t + f) ELSE old[n]]
            Now(n) == Copied(n) \/ n = t + ti
            Written(old) == [n \in Index |-> IF Now(n) THEN Src(n - t + f) ELSE old[n]]
<1>1. /\ tcall \in TabCalls /\ tpc = "loop" /\ tcall.fn = "move" /\ MoveLoop /\ ti \in Index /\ stop \in Index
  BY DEF TabInv, MoveOne, Looping
<1>2. /\ f \in Int /\ e \in Int /\ t \in Int /\ f \in Index /\ e \in Index /\ t \in Index /\ tcall.same \in BOOLEAN
      /\ LUA_MININTEGER <= f /\ e <= LUA_MAXINTEGER /\ LUA_MININTEGER <= t
      /\ \A n : n \in Index <=> n \in Int /\ LUA_MININTEGER <= n /\ n <= LUA_MAXINTEGER
  BY <1>1, CallIs
<1>3. LUA_MAXINTEGER \in Nat /\ LUA_MAXINTEGER >= 1 /\ LUA_MININTEGER = -LUA_MAXINTEGER - 1
  BY Limits
<1>4. /\ ti \in 0..last /\ t + last <= LUA_MAXINTEGER
      /\ IF Upwards(f, e, t) THEN dir = 1 /\ stop = last ELSE dir = -1 /\ stop = 0
      /\ IF tcall.same THEN tab = After(SrcTab) ELSE tab = SrcTab /\ dst = After(DstTab)
  BY <1>1 DEF MoveLoop
<1>5. Upwards(f, e, t) <=> t > e \/ t <= f \/ ~tcall.same
  BY DEF Upwards
<1>6. \A n : Copied(n) <=> IF dir = 1 THEN t <= n /\ n < t + ti ELSE t + ti < n /\ n <= t + last
  BY DEF Copied
<1>7. /\ tcall' = tcall
      /\ IF tcall.same THEN tab' = [tab EXCEPT ![t + ti] = tab[f + ti]] /\ dst' = dst
         ELSE dst' = [dst EXCEPT ![t + ti] = tab[f + ti]] /\ tab' = tab
      /\ IF ti = stop THEN Finish ELSE GoTo(ti + dir)
  BY DEF MoveOne, Finish, GoTo
<1>8. /\ ti \in Nat /\ ti <= last /\ last \in Int /\ f + ti \in Index /\ t + ti \in Index
      /\ f + ti \in Int /\ t + ti \in Int /\ t + ti <= t + last
  BY <1>2, <1>3, <1>4
<1>9. tcall' = tcall
  BY <1>7
<1>. HIDE DEF f, e, t
(* What is read is still what was there at first.                          *)
<1>10. tab[f + ti] = Src(f + ti)
  <2>1. CASE tcall.same
    <3>1. ~Copied(f + ti)
      <4>1. CASE Upwards(f, e, t)
        BY <1>2, <1>4, <1>5, <1>6, <1>8, <2>1, <4>1
      <4>2. CASE ~Upwards(f, e, t)
        BY <1>2, <1>4, <1>5, <1>6, <1>8, <2>1, <4>2
      <4>. QED  BY <4>1, <4>2
    <3>2. tab = After(SrcTab)
      BY <1>4, <2>1
    <3>. QED  BY <1>8, <3>1, <3>2 DEF SrcTab
  <2>2. CASE ~tcall.same
    BY <1>4, <1>8, <2>2 DEF SrcTab
  <2>. QED  BY <2>1, <2>2
<1>11. (t + ti) - t + f = f + ti
  BY <1>2, <1>8
<1>. HIDE DEF last
<1>12. IF tcall.same THEN tab' = Written(SrcTab) ELSE tab' = SrcTab /\ dst' = Written(DstTab)
  <2>1. CASE tcall.same
    <3>1. tab = After(SrcTab) /\ tab' = [tab EXCEPT ![t + ti] = Src(f + ti)]
      BY <1>4, <1>7, <1>10, <2>1
    <3>2. tab' = [n \in Index |-> IF n = t + ti THEN Src(f + ti) ELSE tab[n]]
      BY <3>1
    <3>3. ASSUME NEW n \in Index
          PROVE  (IF n = t + ti THEN Src(f + ti) ELSE tab[n]) = IF Now(n) THEN Src(n - t + f) ELSE SrcTab[n]
      BY <1>11, <3>1
    <3>. QED  BY <2>1, <3>2, <3>3
  <2>2. CASE ~tcall.same
    <3>1. tab = SrcTab /\ tab' = tab /\ dst = After(DstTab) /\ dst' = [dst EXCEPT ![t + ti] = Src(f + ti)]
      BY <1>4, <1>7, <1>10, <2>2
    <3>2. dst' = [n \in Index |-> IF n = t + ti THEN Src(f + ti) ELSE dst[n]]
      BY <3>1
    <3>3. ASSUME NEW n \in Index
          PROVE  (IF n = t + ti THEN Src(f + ti) ELSE dst[n]) = IF Now(n) THEN Src(n - t + f) ELSE DstTab[n]
      BY <1>11, <3>1
    <3>. QED  BY <2>2, <3>1, <3>2, <3>3
  <2>. QED  BY <2>1, <2>2
<1>13. /\ SrcTab' = SrcTab /\ DstTab' = DstTab /\ f' = f /\ e' = e /\ t' = t /\ last' = last
       /\ Upwards(f, e, t)' = Upwards(f, e, t)
  BY <1>9 DEF SrcTab, DstTab, Upwards, f, e, t, last
<1>14. CASE ti /= stop
  <2>1. ti' = ti + dir /\ tpc' = "loop" /\ dir' = dir /\ stop' = stop
    BY <1>1, <1>7, <1>14 DEF GoTo
  <2>2. ti' \in 0..last /\ ti' \in Index /\ stop' \in Index
    <3>1. ti \in Int /\ stop \in Int /\ stop <= LUA_MAXINTEGER /\ LUA_MININTEGER <= 0 /\ ti <= LUA_MAXINTEGER
      BY <1>1, <1>2, <1>3
    <3>2. CASE dir = 1
      BY <1>1, <1>2, <1>3, <1>4, <1>8, <1>14, <2>1, <3>1, <3>2
    <3>3. CASE dir = -1
      BY <1>1, <1>2, <1>3, <1>4, <1>8, <1>14, <2>1, <3>1, <3>3
    <3>. QED  BY <1>4, <3>2, <3>3
  <2>3. ASSUME NEW n \in Index  PROVE Copied(n)' <=> Now(n)
    <3>1. Copied(n)' <=> IF dir = 1 THEN t <= n /\ n < t + (ti + dir) ELSE t + (ti + dir) < n /\ n <= t + last
      BY <1>9, <2>1 DEF Copied, f, e, t, last
    <3>2. n \in Int
      BY <1>2
    <3>3. CASE dir = 1
      BY <1>2, <1>6, <1>8, <3>1, <3>2, <3>3
    <3>4. CASE dir = -1
      BY <1>2, <1>6, <1>8, <3>1, <3>2, <3>4
    <3>. QED  BY <1>4, <3>3, <3>4
  <2>4. /\ [n \in Index |-> IF Copied(n) THEN Src(n - tcall.t + tcall.f) ELSE SrcTab[n]]' = Written(SrcTab)
        /\ [n \in Index |-> IF Copied(n) THEN Src(n - tcall.t + tcall.f) ELSE DstTab[n]]' = Written(DstTab)
    BY <1>9, <1>13, <2>3 DEF f, t
  <2>. HIDE DEF Written
  <2>5. MoveLoop'
    BY <1>4, <1>9, <1>12, <1>13, <2>1, <2>2, <2>4 DEF MoveLoop, f, e, t, last
  <2>. QED  BY <1>1, <1>9, <2>1, <2>2, <2>5, LoopStep
<1>15. CASE ti = stop
  <2>1. tpc' = "done"
    BY <1>7, <1>15 DEF Finish
  <2>2. ASSUME NEW n \in Index  PROVE Now(n) <=> t <= n /\ n <= t + last
    <3>1. n \in Int
      BY <1>2
    <3>2. CASE dir = 1
      BY <1>2, <1>4, <1>6, <1>8, <1>15, <3>1, <3>2
    <3>3. CASE dir = -1
      BY <1>2, <1>4, <1>6, <1>8, <1>15, <3>1, <3>3
    <3>. QED  BY <1>4, <3>2, <3>3
  <2>3. ASSUME NEW n \in Index
        PROVE  Moved(n) = IF Now(n) THEN Src(n - t + f) ELSE Nil
    <3>1. n - t + f \in f..e <=> Now(n)
      BY <1>2, <2>2 DEF last
    <3>. QED  BY <3>1 DEF Moved, f, e, t
  <2>4. \A n \in Index : Src(n - t + f) # Nil
    BY DEF Src, Nil
  <2>5. /\ [n \in Index |-> IF Moved(n) # Nil THEN Moved(n) ELSE Src(n)] = Written(SrcTab)
        /\ [n \in Index |-> IF Moved(n) # Nil THEN Moved(n) ELSE <<"dst", n>>] = Written(DstTab)
    BY <2>3, <2>4 DEF SrcTab, DstTab
  <2>6. \A n : Moved(n)' = Moved(n)
    BY <1>9 DEF Moved
  <2>7. tcall.fn = "move" /\ (tcall.fn)' = "move" /\ tcall'.same = tcall.same
    BY <1>1, <1>9
  <2>. HIDE DEF Written
  <2>8. Leaves(tcall.fn)'
    <3>1. CASE tcall.same
      BY <1>12, <2>5, <2>6, <2>7, <3>1 DEF Leaves
    <3>2. CASE ~tcall.same
      BY <1>12, <2>5, <2>6, <2>7, <3>2 DEF Leaves, SrcTab
    <3>. QED  BY <3>1, <3>2
  <2>. QED  BY <1>9, <2>1, <2>8, DoneStep
<1>. QED  BY <1>14, <1>15

-----------------------------------------------------------------------------
(* table.concat and table.unpack: what has been read is a range of the     *)
(* elements, from the first one.                                           *)
LEMMA NoSources ==
  ASSUME NEW first \in Int, NEW n \in Int, n <= first
  PROVE  Sources(first, n - 1) = <<>>
<1>1. 1..(n - 1) - first + 1 = {}
  OBVIOUS
<1>. QED  BY <1>1 DEF Sources

LEMMA ReadStarts ==
  ASSUME TabInv, tpc = "start", tcall.fn \in {"concat", "unpack"}, tcall.fn = "unpack" => From <= To,
         UNCHANGED out, Begin(From, 0, To)
  PROVE  TabInv'
<1>1. tcall \in TabCalls /\ tab = SrcTab /\ out = <<>>
  BY DEF TabInv
<1>2. From \in Index /\ To \in Index /\ From \in Int /\ To \in Int
  BY <1>1, CallIs
<1>3. tcall' = tcall /\ tpc' = "loop" /\ ti' = From /\ stop' = To /\ tab' = tab /\ out' = out
  BY DEF Begin
<1>4. Sources(From, From - 1) = <<>>
  BY <1>2, NoSources
<1>5. From' = From /\ To' = To
  BY <1>3, SameCall
<1>6. ReadLoop'
  BY <1>1, <1>2, <1>3, <1>4, <1>5 DEF ReadLoop
<1>. QED  BY <1>2, <1>3, <1>6, LoopStep

(* An element is read, and it was not the last one.                        *)
LEMMA ReadGoesOn ==
  ASSUME TabInv, tpc = "loop", tcall.fn \in {"concat", "unpack"},
         ti < stop, out' = Append(out, tab[ti]), GoTo(ti + 1), UNCHANGED tab
  PROVE  TabInv'
<1>1. tcall \in TabCalls /\ ReadLoop /\ ti \in Index /\ stop \in Index
  BY DEF TabInv
<1>2. /\ From \in Int /\ To \in Int /\ ti \in Int /\ stop = To /\ From <= ti
      /\ out = Sources(From, ti - 1) /\ tab = SrcTab
  BY <1>1, CallIs DEF ReadLoop
<1>3. tcall' = tcall /\ tpc' = "loop" /\ ti' = ti + 1 /\ stop' = stop /\ From' = From /\ To' = To
  BY SameCall DEF GoTo
<1>4. ti + 1 \in Index /\ ti + 1 <= stop /\ From <= ti + 1 /\ (ti + 1) - 1 = ti
  BY <1>1, <1>2, CallIs, Limits
<1>5. tab[ti] = Src(ti)
  BY <1>1, <1>2 DEF SrcTab
<1>6. out' = Sources(From, ti)
  BY <1>2, <1>5, OneMoreSource
<1>7. ReadLoop'
  BY <1>2, <1>3, <1>4, <1>6 DEF ReadLoop, SrcTab
<1>. QED  BY <1>1, <1>3, <1>4, <1>7, LoopStep

(* The last element is read, or there is none.                             *)
LEMMA ReadEnds ==
  ASSUME TabInv, tpc = "loop", tcall.fn \in {"concat", "unpack"}, Finish,
         IF ti = stop THEN out' = Append(out, tab[ti]) ELSE out' = out /\ ti > stop
  PROVE  TabInv'
<1>1. tcall \in TabCalls /\ ReadLoop /\ ti \in Index /\ stop \in Index
  BY DEF TabInv
<1>2. /\ From \in Int /\ To \in Int /\ ti \in Int /\ stop = To /\ From <= ti /\ (ti <= stop \/ ti = From)
      /\ out = Sources(From, ti - 1) /\ tab = SrcTab
  BY <1>1, CallIs DEF ReadLoop
<1>3. tcall' = tcall /\ tpc' = "done"
  BY DEF Finish
<1>4. out' = Sources(From, To)
  <2>1. CASE ti = stop
    <3>1. tab[ti] = Src(ti)
      BY <1>1, <1>2 DEF SrcTab
    <3>. QED  BY <1>2, <2>1, <3>1, OneMoreSource
  <2>2. CASE ti /= stop
    <3>. DEFINE z == To + 1
    <3>1. z \in Int /\ z <= From /\ z - 1 = To /\ ti <= From
      BY <1>2, <2>2
    <3>. HIDE DEF z
    <3>2. Sources(From, z - 1) = <<>> /\ Sources(From, ti - 1) = <<>>
      BY <1>2, <3>1, NoSources
    <3>. QED  BY <1>2, <2>2, <3>1, <3>2
  <2>. QED  BY <2>1, <2>2
<1>5. Sources(From, To)' = Sources(From, To)
  BY <1>3 DEF From, To, Sources, Src, optinteger
<1>6. (tcall.fn)' \in {"concat", "unpack"} /\ tcall'.fn = tcall.fn
  BY <1>3
<1>7. Leaves(tcall.fn)'
  BY <1>3, <1>4, <1>5, <1>6 DEF Leaves, From, To
<1>. QED  BY <1>3, <1>7, DoneStep

LEMMA ConcatStarts ==
  ASSUME TabInv, tconcat
  PROVE  TabInv'
<1>1. tpc = "start" /\ tcall.fn = "concat" /\ UNCHANGED out /\ Begin(From, 0, To)
  BY DEF tconcat, Called, From, To
<1>. QED  BY <1>1, ReadStarts

LEMMA ConcatGoesOn ==
  ASSUME TabInv, addfield
  PROVE  TabInv'
<1>1. tpc = "loop" /\ tcall.fn = "concat" /\ tab' = tab /\ ti \in Index /\ stop \in Index /\ tcall \in TabCalls
  BY DEF TabInv, addfield, Looping
<1>2. ti \in Int /\ stop \in Int
  BY <1>1, CallIs
<1>3. /\ ti < stop => out' = Append(out, tab[ti]) /\ GoTo(ti + 1)
      /\ ti = stop => out' = Append(out, tab[ti]) /\ Finish
      /\ ti > stop => out' = out /\ Finish
  <2>1. \/ ti < stop /\ out' = Append(out, tab[ti]) /\ GoTo(ti + 1)
        \/ ti = stop /\ out' = Append(out, tab[ti]) /\ Finish
        \/ ti > stop /\ out' = out /\ Finish
    <3>1. ti < stop \/ ti = stop \/ ti > stop
      BY <1>2
    <3>. QED  BY <3>1, Zenon DEF addfield
  <2>. QED  BY <1>2, <2>1
<1>4. CASE ti < stop
  BY <1>1, <1>3, <1>4, ReadGoesOn
<1>5. CASE ti = stop
  BY <1>1, <1>3, <1>5, ReadEnds
<1>6. CASE ti > stop
  <2>1. ti /= stop
    BY <1>2, <1>6
  <2>. QED  BY <1>1, <1>3, <1>6, <2>1, ReadEnds
<1>. QED  BY <1>2, <1>4, <1>5, <1>6

(* The unsigned count of the values is the right one.                      *)
LEMMA UnpackStarts ==
  ASSUME TabInv, unpack
  PROVE  TabInv'
<1>1. tpc = "start" /\ tcall.fn = "unpack" /\ tcall \in TabCalls /\ out' = out /\ out = <<>>
  BY DEF TabInv, unpack, Called
<1>2. From \in Index /\ To \in Index /\ From \in Int /\ To \in Int
  BY <1>1, CallIs
<1>. DEFINE count == (Unsigned(To) - From) % Wide
<1>3. /\ From > To => tpc' = "done" /\ UNCHANGED <<tcall, tab, dst, ti, dir, stop>>
      /\ From <= To /\ count + 1 > MaxResults => Refuse
      /\ From <= To /\ ~(count + 1 > MaxResults) => Begin(From, 0, To)
  <2>1. \/ From > To /\ tpc' = "done" /\ UNCHANGED <<tcall, tab, dst, ti, dir, stop>>
        \/ From <= To /\ count + 1 > MaxResults /\ Refuse
        \/ ~(From > To) /\ ~(From <= To /\ count + 1 > MaxResults) /\ Begin(From, 0, To)
    BY DEF unpack, From, To
  <2>. HIDE DEF count
  <2>. QED  BY <1>2, <2>1
<1>4. From <= To => count = To - From
  BY <1>2, DifferenceIs
<1>. HIDE DEF count
<1>5. CASE From > To
  <2>1. tcall' = tcall /\ tpc' = "done"
    BY <1>3, <1>5
  <2>. DEFINE z == To + 1
  <2>2. z \in Int /\ z <= From /\ z - 1 = To
    BY <1>2, <1>5
  <2>. HIDE DEF z
  <2>3. Sources(From, z - 1) = <<>>
    BY <1>2, <2>2, NoSources
  <2>4. Sources(From, To) = <<>>
    BY <2>2, <2>3
  <2>5. Sources(From, To)' = Sources(From, To)
    BY <2>1 DEF From, To, Sources, Src, optinteger
  <2>6. (tcall.fn)' = "unpack"
    BY <1>1, <2>1
  <2>7. tcall.fn = "unpack" /\ out' = <<>>
    BY <1>1
  <2>8. Leaves(tcall.fn)'
    BY <2>4, <2>5, <2>6, <2>7 DEF Leaves, From, To
  <2>. QED  BY <2>1, <2>8, DoneStep
<1>6. CASE From <= To /\ count + 1 > MaxResults
  <2>1. Refuse /\ To - From + 1 > MaxResults
    BY <1>3, <1>4, <1>6
  <2>2. Unanswerable
    BY <1>1, <2>1 DEF Unanswerable, From, To
  <2>3. tcall.fn /= "pack"
    BY <1>1
  <2>. QED  BY <1>1, <2>1, <2>2, <2>3, RefuseStep
<1>7. CASE From <= To /\ ~(count + 1 > MaxResults)
  <2>1. Begin(From, 0, To)
    BY <1>3, <1>7
  <2>. QED  BY <1>1, <1>7, <2>1, ReadStarts
<1>8. From > To \/ From <= To
  BY <1>2
<1>. QED  BY <1>5, <1>6, <1>7, <1>8

LEMMA UnpackGoesOn ==
  ASSUME TabInv, PushOne
  PROVE  TabInv'
<1>1. /\ tpc = "loop" /\ tcall.fn = "unpack" /\ tab' = tab /\ ti \in Index /\ stop \in Index /\ tcall \in TabCalls
      /\ ReadLoop /\ out' = Append(out, tab[ti])
      /\ IF ti < stop THEN GoTo(ti + 1) ELSE Finish
  BY DEF TabInv, PushOne, Looping
<1>2. ti \in Int /\ stop \in Int /\ ti <= stop
  BY <1>1, CallIs DEF ReadLoop
<1>3. CASE ti < stop
  BY <1>1, <1>3, ReadGoesOn
<1>4. CASE ~(ti < stop)
  <2>1. ti = stop
    BY <1>2, <1>4
  <2>2. Finish
    BY <1>1, <1>4
  <2>. QED  BY <1>1, <2>1, <2>2, ReadEnds
<1>. QED  BY <1>3, <1>4

-----------------------------------------------------------------------------
(* table.pack: the last argument is stored first.                          *)
LEMMA PackStarts ==
  ASSUME TabInv, pack
  PROVE  TabInv'
<1>1. tcall \in TabCalls /\ tpc = "start" /\ tcall.fn = "pack" /\ tab = [n \in Index |-> Nil]
  BY DEF TabInv, pack, Called
<1>2. /\ tcall' = tcall /\ tpc' = "loop" /\ ti' = tcall.len /\ stop' = 1 /\ tab' = tab
  BY DEF pack, Begin
<1>3. /\ tcall.len \in Int /\ tcall.len \in Index /\ 1 \in Index
      /\ \A n : n \in Index <=> n \in Int /\ LUA_MININTEGER <= n /\ n <= LUA_MAXINTEGER
  BY <1>1, CallIs, Limits
<1>4. tab' = [n \in Index |-> IF n >= 1 /\ tcall.len < n /\ n <= tcall.len THEN <<"arg", n>> ELSE Nil]
  <2>1. \A n \in Index : ~(tcall.len < n /\ n <= tcall.len)
    BY <1>3
  <2>. QED  BY <1>1, <1>2, <2>1
<1>5. PackLoop'
  BY <1>2, <1>3, <1>4 DEF PackLoop
<1>. QED  BY <1>1, <1>2, <1>3, <1>5, LoopStep

LEMMA PackGoesOn ==
  ASSUME TabInv, PackOne
  PROVE  TabInv'
<1>1. /\ tcall \in TabCalls /\ tpc = "loop" /\ tcall.fn = "pack" /\ PackLoop /\ ti \in Index /\ stop \in Index
  BY DEF TabInv, PackOne, Looping
<1>2. /\ ti \in Int /\ tcall.len \in Int /\ 0 \in Index /\ ti - 1 < ti
      /\ \A n : n \in Index <=> n \in Int /\ LUA_MININTEGER <= n /\ n <= LUA_MAXINTEGER
      /\ LUA_MININTEGER \in Int /\ LUA_MAXINTEGER \in Int
      /\ LUA_MININTEGER <= 0 /\ 0 <= LUA_MAXINTEGER
  BY <1>1, CallIs, Limits
<1>3. /\ stop = 1 /\ ti <= tcall.len /\ (ti >= 0 \/ ti = tcall.len)
      /\ tab = [n \in Index |-> IF n >= 1 /\ ti < n /\ n <= tcall.len THEN <<"arg", n>> ELSE Nil]
  BY <1>1 DEF PackLoop
<1>4. CASE ti >= 1
  <2>1. tab' = [tab EXCEPT ![ti] = <<"arg", ti>>] /\ ti' = ti - 1 /\ tcall' = tcall /\ tpc' = "loop" /\ stop' = stop
    BY <1>1, <1>4 DEF PackOne, GoTo
  <2>2. ti - 1 \in Index /\ ti - 1 <= tcall.len /\ ti - 1 >= 0
    BY <1>1, <1>2, <1>3, <1>4
  <2>3. tab' = [n \in Index |-> IF n >= 1 /\ ti - 1 < n /\ n <= tcall.len THEN <<"arg", n>> ELSE Nil]
    <3>1. tab' = [n \in Index |-> IF n = ti THEN <<"arg", ti>> ELSE tab[n]]
      BY <1>3, <2>1
    <3>2. \A n \in Index : (IF n = ti THEN <<"arg", ti>> ELSE tab[n])
            = IF n >= 1 /\ ti - 1 < n /\ n <= tcall.len THEN <<"arg", n>> ELSE Nil
      BY <1>2, <1>3, <1>4
    <3>. QED  BY <3>1, <3>2
  <2>4. PackLoop'
    BY <1>3, <2>1, <2>2, <2>3 DEF PackLoop
  <2>. QED  BY <1>1, <2>1, <2>2, <2>4, LoopStep
<1>5. CASE ~(ti >= 1)
  <2>1. tab' = tab /\ tcall' = tcall /\ tpc' = "done"
    BY <1>1, <1>5 DEF PackOne, Finish
  <2>2. \A n \in Index : (n >= 1 /\ ti < n /\ n <= tcall.len) <=> n \in 1..tcall.len
    BY <1>2, <1>5
  <2>3. tab' = [n \in Index |-> IF n \in 1..tcall.len THEN <<"arg", n>> ELSE Nil]
    BY <1>3, <2>1, <2>2
  <2>4. tcall.fn = "pack" /\ (tcall.fn)' = "pack"
    BY <1>1, <2>1
  <2>5. Leaves(tcall.fn)'
    BY <2>1, <2>3, <2>4 DEF Leaves
  <2>. QED  BY <2>1, <2>5, DoneStep
<1>. QED  BY <1>4, <1>5

-----------------------------------------------------------------------------
LEMMA TabStart ==
  ASSUME TabInit(TabCalls)
  PROVE  TabInv
<1>1. tcall \in TabCalls /\ tpc = "start" /\ out = <<>> /\ dst = DstTab
  BY DEF TabInit, DstTab
<1>2. tab = IF tcall.fn = "pack" THEN [n \in Index |-> Nil] ELSE SrcTab
  BY DEF TabInit, SrcTab, Src
<1>. QED  BY <1>1, <1>2 DEF TabInv

LEMMA TabStep ==
  ASSUME TabInv, [TabNext]_tabVars
  PROVE  TabInv'
<1>1. CASE TabNext
  BY <1>1, InsertStarts, InsertGoesOn, RemoveStarts, RemoveGoesOn, MoveStarts, MoveGoesOn, ConcatStarts,
     ConcatGoesOn, UnpackStarts, UnpackGoesOn, PackStarts, PackGoesOn DEF TabNext
<1>2. CASE UNCHANGED tabVars
  <2>1. tcall' = tcall /\ tpc' = tpc /\ tab' = tab /\ dst' = dst /\ ti' = ti /\ dir' = dir /\ stop' = stop /\ out' = out
    BY <1>2 DEF tabVars
  <2>2. From' = From /\ To' = To /\ InsertPos' = InsertPos /\ RemovePos' = RemovePos
    BY <2>1, SameCall
  <2>3. InsertLoop' = InsertLoop /\ RemoveLoop' = RemoveLoop /\ ReadLoop' = ReadLoop /\ PackLoop' = PackLoop
    BY <2>1, <2>2 DEF InsertLoop, RemoveLoop, ReadLoop, PackLoop, SrcTab
  <2>4. MoveLoop' = MoveLoop
    <3>1. SrcTab' = SrcTab /\ DstTab' = DstTab /\ \A n : Copied(n)' = Copied(n)
      BY <2>1 DEF Copied, SrcTab, DstTab
    <3>2. \A f, e, t : Upwards(f, e, t)' = Upwards(f, e, t)
      BY <2>1 DEF Upwards
    <3>. QED  BY <2>1, <3>1, <3>2 DEF MoveLoop, Src
  <2>5. Unanswerable' = Unanswerable
    BY <2>1 DEF Unanswerable
  <2>6. Leaves(tcall.fn)' = Leaves(tcall.fn)
    BY <2>1 DEF Leaves, Moved
  <2>. QED  BY <2>1, <2>3, <2>4, <2>5, <2>6 DEF TabInv
<1>. QED  BY <1>1, <1>2

(* The indices that move reads and writes are integers: the last ones are. *)
LEMMA TabInvExact ==
  ASSUME TabInv
  PROVE  RangesExact
<1>1. tcall \in TabCalls
  BY DEF TabInv
<1>2. tpc = "done" => Leaves(tcall.fn)
  BY DEF TabInv
<1>3. tpc = "error" => /\ Unanswerable
                       /\ tab = [n \in Index |-> Src(n)] /\ dst = [n \in Index |-> <<"dst", n>>]
  BY DEF TabInv, SrcTab, DstTab
<1>4. tpc = "loop" => {ti, stop} \subseteq Index
  BY DEF TabInv
<1>5. ASSUME tcall.fn = "move", tpc = "loop"  PROVE {tcall.f + ti, tcall.t + ti} \subseteq Index
  <2>1. MoveLoop
    BY <1>5 DEF TabInv
  <2>2. /\ tcall.f \in Int /\ tcall.e \in Int /\ tcall.t \in Int /\ tcall.f \in Index /\ tcall.e \in Index
        /\ tcall.t \in Index
        /\ \A n : n \in Index <=> n \in Int /\ LUA_MININTEGER <= n /\ n <= LUA_MAXINTEGER
        /\ LUA_MININTEGER \in Int /\ LUA_MAXINTEGER \in Int
    BY <1>1, <1>5, CallIs, Limits
  <2>3. ti \in 0..tcall.e - tcall.f /\ tcall.t + (tcall.e - tcall.f) <= LUA_MAXINTEGER
    BY <2>1 DEF MoveLoop
  <2>. QED  BY <2>2, <2>3
<1>. QED  BY <1>2, <1>3, <1>4, <1>5 DEF RangesExact

(* For integers of every width, every call of a function that moves, reads *)
(* or writes a range leaves the tables and values that arithmetic without  *)
(* a width describes, or fails, without a change, only where the answer is *)
(* no integer or too long: no sum, difference or index on the way wraps    *)
(* around (ltablib.c:78 to 246).                                           *)
THEOREM RangesAlwaysExact == TabSpec => []RangesExact
<1>1. TabInit(TabCalls) => TabInv
  BY TabStart
<1>2. TabInv /\ [TabNext]_tabVars => TabInv'
  BY TabStep
<1>3. TabInv => RangesExact
  BY TabInvExact
<1>. QED  BY <1>1, <1>2, <1>3, PTL DEF TabSpec
=============================================================================
