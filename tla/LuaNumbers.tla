----------------------------- MODULE LuaNumbers -----------------------------
(* Numbers at the limits of their representation: the operations of lvm.c  *)
(* and lobject.c on integers of W bits, the comparisons of integers with   *)
(* floats of fewer bits, and the numeric 'for'.                            *)
(* A float has NBM bits of mantissa; its value is kept in halves, so that  *)
(* there are fractions, and HUGE_VAL stands for infinity.                  *)
EXTENDS Integers, Sequences, SequencesExt

CONSTANTS W,         (* bits of an integer                                  *)
          NBM,       (* bits of the mantissa of a float                     *)
          MaxLoops,  (* iterations of a loop that are followed              *)
          Sums       (* what the program computes: [op, x, y, z]            *)

ASSUME NumberAssumption == W \in Nat /\ NBM \in Nat /\ NBM >= 1 /\ W > NBM + 1

VARIABLES
  sum,       (* the computation                                             *)
  at,        (* "start", "loop", "done" or "error"                          *)
  idx, limit, step, (* the registers of a loop                              *)
  result,
  visited    (* the values the loop's variable had                          *)

numVars == <<sum, at, idx, limit, step, result, visited>>

-----------------------------------------------------------------------------
(* Integers and floats                                                     *)

Wide == 2 ^ W
LUA_MAXINTEGER == 2 ^ (W - 1) - 1
LUA_MININTEGER == -(2 ^ (W - 1))
Wrap(n) == ((n - LUA_MININTEGER) % Wide) + LUA_MININTEGER
Unsigned(n) == n % Wide

HUGE_VAL == 2 ^ (W + 3)
IntN(n) == <<"int", n>>
Flt(h)  == <<"flt", h>>
NaN     == <<"nan", 0>>
BoolR(b) == <<"bool", b>>
IsInt(x) == x[1] = "int"

(* The float nearest to h halves, the even one of two.                     *)
Magnitude(h) == CHOOSE e \in 0..W + 4 : /\ h < 2 ^ (NBM + e)
                                        /\ \A d \in 0..W + 4 : h < 2 ^ (NBM + d) => e <= d
Nearest(h) ==
  LET unit == 2 ^ Magnitude(h)
      q == h \div unit
      rest == h % unit
      up == 2 * rest > unit \/ (2 * rest = unit /\ q % 2 = 1)
  IN IF h >= HUGE_VAL THEN HUGE_VAL ELSE unit * IF up THEN q + 1 ELSE q
Round(h) == IF h < 0 THEN -Nearest(-h) ELSE Nearest(h)

cast_num(n) == Flt(Round(2 * n))
numlt(f, g) == f # NaN /\ g # NaN /\ f[2] < g[2]
numle(f, g) == f # NaN /\ g # NaN /\ f[2] <= g[2]
Infinite(f) == f[2] \in {HUGE_VAL, -HUGE_VAL}
numadd(f, g) ==
  CASE f = NaN \/ g = NaN \/ (Infinite(f) /\ Infinite(g) /\ f # g) -> NaN
    [] f # NaN /\ g # NaN /\ Infinite(f) /\ (Infinite(g) => f = g) -> f
    [] f # NaN /\ g # NaN /\ ~Infinite(f) /\ Infinite(g) -> g
    [] OTHER -> Flt(Round(f[2] + g[2]))
numunm(f) == IF f = NaN THEN f ELSE Flt(-f[2])

-----------------------------------------------------------------------------
(* Conversions                                                             *)

tonumber(x) == IF IsInt(x) THEN cast_num(x[2]) ELSE x

(* lua_numbertointeger: the tests are on floats.                           *)
Fits(f) == numle(cast_num(LUA_MININTEGER), f) /\ numlt(f, numunm(cast_num(LUA_MININTEGER)))

(* The integer, in a set that is empty if there is none: by mode 0 only    *)
(* integral values, 1 rounds down, 2 rounds up.                            *)
luaV_tointeger(x, mode) ==
  LET fl == IF Infinite(x) THEN x ELSE Flt(2 * (x[2] \div 2))
      f == IF fl # x /\ mode = 2 THEN Flt(fl[2] + 2) ELSE fl
  IN CASE IsInt(x) -> {x[2]}
       [] x = NaN -> {}
       [] OTHER -> IF (fl # x /\ mode = 0) \/ ~Fits(f) THEN {} ELSE {f[2] \div 2}

tointeger(x) == luaV_tointeger(x, 0)

-----------------------------------------------------------------------------
(* Arithmetic on integers                                                  *)

(* C's division truncates.                                                 *)
Abs(n) == IF n < 0 THEN -n ELSE n
cdiv(m, n) == IF (m < 0) = (n < 0) THEN Abs(m) \div Abs(n) ELSE -(Abs(m) \div Abs(n))
cmod(m, n) == m - n * cdiv(m, n)

luaV_div(m, n) ==
  IF n = -1 THEN Wrap(-m)
  ELSE IF (m < 0) # (n < 0) /\ cmod(m, n) # 0 THEN cdiv(m, n) - 1 ELSE cdiv(m, n)

luaV_mod(m, n) ==
  IF n = -1 THEN 0
  ELSE IF cmod(m, n) # 0 /\ (m < 0) # (n < 0) THEN cmod(m, n) + n ELSE cmod(m, n)

luaV_shiftl(x, y) ==
  CASE y <= -W -> 0
    [] -W < y /\ y < 0 -> Wrap(Unsigned(x) \div 2 ^ (-y))
    [] y >= W -> 0
    [] OTHER -> Wrap(Unsigned(x) * 2 ^ y)

(* -v2 in luaV_shiftl(v1, -v2) is an operation of C on signed integers:    *)
(* it wraps.                                                               *)
intarith(op, v1, v2) ==
  CASE op = "add" -> Wrap(v1 + v2)
    [] op = "sub" -> Wrap(v1 - v2)
    [] op = "mul" -> Wrap(v1 * v2)
    [] op = "mod" -> luaV_mod(v1, v2)
    [] op = "idiv" -> luaV_div(v1, v2)
    [] op = "shl" -> luaV_shiftl(v1, v2)
    [] op = "shr" -> luaV_shiftl(v1, Wrap(-v2))

numarith(op, f, g) == IF op = "add" THEN numadd(f, g) ELSE numadd(f, numunm(g))

-----------------------------------------------------------------------------
(* Comparisons                                                             *)

l_intfitsf(i) == -(2 ^ NBM) <= i /\ i <= 2 ^ NBM
maxint1 == numunm(cast_num(LUA_MININTEGER))
minint  == cast_num(LUA_MININTEGER)
Truncate(f) == cdiv(f[2], 2)

(* Fault: the integer is rounded to a float before the comparison.         *)
LTintfloatRounded(i, f) == numlt(cast_num(i), f)

LTintfloat(i, f) ==
  IF l_intfitsf(i) THEN numlt(cast_num(i), f)
  ELSE numle(maxint1, f) \/ (numlt(minint, f) /\ i < Truncate(f))

LEintfloat(i, f) ==
  IF l_intfitsf(i) THEN numle(cast_num(i), f)
  ELSE numle(maxint1, f) \/ (numle(minint, f) /\ i <= Truncate(f))

LTnum(l, r) ==
  CASE IsInt(l) /\ IsInt(r) -> l[2] < r[2]
    [] IsInt(l) /\ ~IsInt(r) -> LTintfloat(l[2], r)
    [] ~IsInt(l) /\ ~IsInt(r) -> numlt(l, r)
    [] OTHER -> l # NaN /\ ~LEintfloat(r[2], l)

LEnum(l, r) ==
  CASE IsInt(l) /\ IsInt(r) -> l[2] <= r[2]
    [] IsInt(l) /\ ~IsInt(r) -> LEintfloat(l[2], r)
    [] ~IsInt(l) /\ ~IsInt(r) -> numle(l, r)
    [] OTHER -> l # NaN /\ ~LTintfloat(r[2], l)

luaV_equalobj(l, r) ==
  IF l[1] = r[1] THEN l # NaN /\ l = r
  ELSE tointeger(l) # {} /\ tointeger(l) = tointeger(r)

-----------------------------------------------------------------------------
(* One operation                                                           *)

Give(r) == at' = "done" /\ result' = r
Sum(ops) == at = "start" /\ sum.op \in ops
Loop == UNCHANGED <<sum, idx, limit, step, visited>>

Compare ==
  /\ Sum({"lt", "le", "eq"}) /\ Loop
  /\ Give(BoolR(CASE sum.op = "lt" -> LTnum(sum.x, sum.y)
                  [] sum.op = "le" -> LEnum(sum.x, sum.y)
                  [] sum.op = "eq" -> luaV_equalobj(sum.x, sum.y)))

Shifts == {"shl", "shr"}
Traps(op) ==
  \/ op \in Shifts /\ (tointeger(sum.x) = {} \/ tointeger(sum.y) = {})
  \/ op \in {"mod", "idiv"} /\ sum.y = IntN(0)

luaO_arith ==
  /\ Sum({"add", "sub", "mul", "mod", "idiv"} \union Shifts) /\ Loop
  /\ \/ Traps(sum.op) /\ at' = "error" /\ UNCHANGED result
     \/ ~Traps(sum.op) /\ sum.op \in Shifts /\ \E m \in tointeger(sum.x), n \in tointeger(sum.y) :
          Give(IntN(intarith(sum.op, m, n)))
     \/ /\ ~Traps(sum.op) /\ sum.op \notin Shifts
        /\ Give(IF IsInt(sum.x) /\ IsInt(sum.y) THEN IntN(intarith(sum.op, sum.x[2], sum.y[2]))
                ELSE numarith(sum.op, tonumber(sum.x), tonumber(sum.y)))

-----------------------------------------------------------------------------
(* The numeric 'for'                                                       *)

(* The limit as an integer; a float out of range is clipped.               *)
forlimit(lim, st) ==
  LET n == luaV_tointeger(lim, IF st < 0 THEN 2 ELSE 1)
      positive == numlt(Flt(0), tonumber(lim))
  IN IF n # {} THEN [limit |-> CHOOSE l \in n : TRUE, stopnow |-> FALSE]
     ELSE [limit |-> IF positive THEN LUA_MAXINTEGER ELSE LUA_MININTEGER,
           stopnow |-> IF positive THEN st < 0 ELSE st >= 0]

(* x, y and z are the initial value, the limit and the step.  The first    *)
(* FORLOOP adds the step again.                                            *)
FORPREP ==
  /\ Sum({"for"}) /\ at' = "loop" /\ UNCHANGED <<sum, result, visited>>
  /\ \/ /\ IsInt(sum.x) /\ IsInt(sum.z)
        /\ LET fl == forlimit(sum.y, sum.z[2])
           IN /\ limit' = IntN(fl.limit) /\ step' = sum.z
              /\ idx' = IntN(Wrap((IF fl.stopnow THEN 0 ELSE sum.x[2]) - sum.z[2]))
     \/ /\ ~(IsInt(sum.x) /\ IsInt(sum.z))
        /\ limit' = tonumber(sum.y) /\ step' = tonumber(sum.z)
        /\ idx' = numadd(tonumber(sum.x), numunm(tonumber(sum.z)))

Stepped == IF IsInt(idx) THEN IntN(Wrap(idx[2] + step[2])) ELSE numadd(idx, step)
GoesOn ==
  IF IsInt(idx) THEN IF 0 < step[2] THEN Stepped[2] <= limit[2] ELSE limit[2] <= Stepped[2]
  ELSE IF numlt(Flt(0), step) THEN numle(Stepped, limit) ELSE numle(limit, Stepped)

FORLOOP ==
  /\ at = "loop" /\ Len(visited) < MaxLoops /\ UNCHANGED <<sum, result, limit, step>>
  /\ \/ GoesOn /\ idx' = Stepped /\ visited' = Append(visited, Stepped) /\ UNCHANGED at
     \/ ~GoesOn /\ at' = "done" /\ UNCHANGED <<idx, visited>>

NumInit(sums) ==
  /\ sum \in sums /\ at = "start" /\ visited = <<>>
  /\ idx = IntN(0) /\ limit = IntN(0) /\ step = IntN(0) /\ result = IntN(0)

NumNext == Compare \/ luaO_arith \/ FORPREP \/ FORLOOP

-----------------------------------------------------------------------------
(* Properties                                                              *)

(* In halves, what a number is; infinities are beyond all integers.        *)
Value(x) == IF IsInt(x) THEN 2 * x[2] ELSE x[2]
Less(x, y)  == x # NaN /\ y # NaN /\ Value(x) < Value(y)
Equal(x, y) == x # NaN /\ y # NaN /\ Value(x) = Value(y)

(* Integers and floats compare by their exact values, although most        *)
(* integers are no floats and casts round (LTintfloat and LEintfloat,      *)
(* lvm.c:281 and 300).                                                     *)
OrderExact ==
  at = "done" =>
    CASE sum.op = "lt" -> result[2] = Less(sum.x, sum.y)
      [] sum.op = "le" -> result[2] = (Less(sum.x, sum.y) \/ Equal(sum.x, sum.y))
      [] sum.op = "eq" -> result[2] = Equal(sum.x, sum.y)
      [] OTHER -> TRUE

(* Quotients are rounded down and remainders have the sign of the divisor, *)
(* also at -1 and at the smallest integer, where C's division traps; all   *)
(* results are exact modulo 2 ^ W and shifts are logical, by any distance  *)
(* (luaV_div, luaV_mod and luaV_shiftl, lvm.c:552, 572 and 593).           *)
ArithmeticExact ==
  at = "done" /\ IsInt(result) /\ IsInt(sum.x) /\ IsInt(sum.y) =>
    LET x == sum.x[2]  y == sum.y[2]  r == result[2]
        Same(m, n) == m % Wide = n % Wide
    IN /\ r \in LUA_MININTEGER..LUA_MAXINTEGER
       /\ CASE sum.op = "add" -> Same(r, x + y)
            [] sum.op = "sub" -> Same(r, x - y)
            [] sum.op = "mul" -> Same(r, x * y)
            [] sum.op = "idiv" -> \E q \in -Wide..Wide :
                                    Same(r, q) /\ IF y > 0 THEN q * y <= x /\ x < (q + 1) * y
                                                  ELSE q * y >= x /\ x > (q + 1) * y
            [] sum.op = "mod" -> /\ \E q \in -Wide..Wide : x = q * y + r
                                 /\ IF y > 0 THEN r \in 0..y - 1 ELSE r \in y + 1..0
            [] sum.op = "shl" -> Same(r, IF y >= 0 THEN x * 2 ^ y ELSE Unsigned(x) \div 2 ^ (-y))
            [] sum.op = "shr" -> Same(r, IF y >= 0 THEN Unsigned(x) \div 2 ^ y ELSE x * 2 ^ (-y))
            [] OTHER -> TRUE

(* A loop over integers runs for exactly the values that are not past its  *)
(* limit as it was written, which may be a fraction or beyond all integers *)
(* (forlimit, lvm.c:135); values wrap around.  A step of 0 and a limit     *)
(* that is not a number are left out.                                      *)
ForExact ==
  (sum.op = "for" /\ IsInt(sum.x) /\ IsInt(sum.z) /\ sum.z[2] # 0 /\ sum.y # NaN) =>
    LET value(n) == IntN(Wrap(sum.x[2] + (n - 1) * sum.z[2]))
        runs(n) == IF sum.z[2] > 0 THEN ~Less(sum.y, value(n)) ELSE ~Less(value(n), sum.y)
    IN /\ \A n \in DOMAIN visited : visited[n] = value(n) /\ runs(n)
       /\ at = "done" => ~runs(Len(visited) + 1)

(* Operations on numbers give what is exact, or exact modulo 2 ^ W, at all *)
(* limits of the representation, and loops run as often as they should     *)
(* (lvm.c, lobject.c:83).                                                  *)
NumbersExact == OrderExact /\ ArithmeticExact /\ ForExact
=============================================================================
