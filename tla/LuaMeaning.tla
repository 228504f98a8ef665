----------------------------- MODULE LuaMeaning -----------------------------
(* What a pattern means, without a matcher: the list of all ways in which  *)
(* its items match, in the order of preference.  Jobs are calls of the     *)
(* functions of LuaSearch with the items their patterns are written from.  *)
EXTENDS LuaSearch

(* What a pattern means.  An item matches a set of characters ("one", with *)
(* a suffix), opens or closes a capture, is a position capture, the text   *)
(* of a capture, a balanced text, a frontier or the end of the subject; a  *)
(* "bad" one cannot be the end of a pattern.                               *)

Concat(ss) == FoldLeft(LAMBDA x, y : x \o y, <<>>, ss)
Text(items) == Concat([n \in DOMAIN items |-> items[n].text])

(* A call, with the items its pattern is written from.                     *)
Job(fn, subj, items, anch, init, repl, max) ==
  [fn |-> fn, src |-> subj, pat |-> Text(items), items |-> items, anchor |-> anch, init |-> init,
   repl |-> repl, max |-> max]

Item(k, text, set, suffix, n) == [k |-> k, text |-> text, set |-> set, suffix |-> suffix, n |-> n]

Run(subj, from, set) ==
  LET stops == {n \in from..Len(subj) : n = Len(subj) \/ subj[n + 1] \notin set}
  IN (CHOOSE n \in stops : \A k \in stops : n <= k) - from

(* How often an item is repeated, the preferred number first.              *)
Counts(suffix, run) ==
  CASE suffix = ""  -> IF run > 0 THEN <<1>> ELSE <<>>
    [] suffix = "?" -> IF run > 0 THEN <<1, 0>> ELSE <<0>>
    [] suffix = "*" -> [n \in 1..run + 1 |-> run + 1 - n]
    [] suffix = "+" -> [n \in 1..run |-> run + 1 - n]
    [] suffix = "-" -> [n \in 1..run + 1 |-> n - 1]

CountOf(subj, c) == Cardinality({n \in DOMAIN subj : subj[n] = c})
BalancedEnds(subj, from, b, e) ==
  {n \in from + 2..Len(subj) : subj[from + 1] = b /\ CountOf(Sub(subj, from, n), b) = CountOf(Sub(subj, from, n), e)}

LastOpen(caps) == CHOOSE n \in DOMAIN caps : caps[n].to = CAP_UNFINISHED
                    /\ \A k \in DOMAIN caps : caps[k].to = CAP_UNFINISHED => k <= n

RECURSIVE Ways(_, _, _, _)
Ways(subj, items, at, caps) ==
  LET it   == Head(items)
      To(n, cs) == Ways(subj, Tail(items), n, cs)
      counts == Counts(it.suffix, Run(subj, at, it.set))
      text == Sub(subj, caps[it.n].from, caps[it.n].to)
      ends == BalancedEnds(subj, at, it.set[1], it.set[2])
  IN IF items = <<>> THEN <<[e |-> at, caps |-> caps]>>
     ELSE CASE it.k = "one"   -> Concat([n \in DOMAIN counts |-> To(at + counts[n], caps)])
            [] it.k = "open"  -> To(at, Append(caps, [from |-> at, to |-> CAP_UNFINISHED]))
            [] it.k = "pos"   -> To(at, Append(caps, [from |-> at, to |-> CAP_POSITION]))
            [] it.k = "close" -> To(at, [caps EXCEPT ![LastOpen(caps)].to = at])
            [] it.k = "back"  -> IF caps[it.n].to /= CAP_POSITION /\ at + Len(text) <= Len(subj)
                                      /\ Sub(subj, at, at + Len(text)) = text
                                 THEN To(at + Len(text), caps) ELSE <<>>
            [] it.k = "bal"   -> IF ends = {} THEN <<>>
                                 ELSE To(CHOOSE n \in ends : \A k \in ends : n <= k, caps)
            [] it.k = "front" -> IF At(subj, at - 1) \notin it.set /\ At(subj, at) \in it.set
                                 THEN To(at, caps) ELSE <<>>
            [] it.k = "end"   -> IF at = Len(subj) THEN To(at, caps) ELSE <<>>

(* Captures are closed in order, references are to closed captures.        *)
Opened(items, n) == Cardinality({k \in 1..n : items[k].k = "open"})
                     - Cardinality({k \in 1..n : items[k].k = "close"})
Captures(items, n) == {k \in 1..n : items[k].k \in {"open", "pos"}}
ClosedAt(items, k) ==
  IF items[k].k = "pos" THEN k
  ELSE CHOOSE n \in k..Len(items) : /\ Opened(items, n) = Opened(items, k) - 1
                                    /\ \A m \in k..n - 1 : Opened(items, m) >= Opened(items, k)
WellFormed(items) ==
  /\ \A n \in DOMAIN items : items[n].k # "bad"
  /\ \A n \in DOMAIN items : Opened(items, n) >= 0
  /\ Opened(items, Len(items)) = 0
  /\ Cardinality(Captures(items, Len(items))) <= LUA_MAXCAPTURES
  /\ \A n \in DOMAIN items : items[n].k = "back" =>
       \E k \in Captures(items, n) :
         Cardinality(Captures(items, k)) = items[n].n /\ ClosedAt(items, k) < n

Shown(subj, c) == IF c.to = CAP_POSITION THEN <<"position", c.from + 1>>
               ELSE <<"string", Sub(subj, c.from, c.to)>>
Captured(subj, from, way, whole) ==
  IF way.caps = <<>> /\ whole THEN <<<<"string", Sub(subj, from, way.e)>>>>
  ELSE [n \in DOMAIN way.caps |-> Shown(subj, way.caps[n])]

(* All matches from 'from' on, none ending where the one before it ended.  *)
RECURSIVE Matches(_, _, _, _)
Matches(c, from, last, whole) ==
  LET ways == Ways(c.src, c.items, from, <<>>)
      way == ways[1]
      hit == ways /= <<>> /\ way.e /= last
      this == <<Match(from, way.e, Captured(c.src, from, way, whole))>>
  IN IF from > Len(c.src) THEN <<>>
     ELSE IF c.anchor THEN IF hit THEN this ELSE <<>>
     ELSE IF hit /\ c.fn \in {"find", "match"} THEN this
     ELSE IF hit THEN this \o Matches(c, way.e, way.e, whole)
     ELSE Matches(c, from + 1, last, whole)

StartOf(c) == IF c.init >= 0 THEN c.init - 1 ELSE Len(c.src) + c.init
Expected(c) ==
  LET all == Matches(c, IF StartOf(c) < 0 THEN 0 ELSE StartOf(c), NULL, c.fn /= "find")
  IN IF c.fn = "gsub" /\ c.max < Len(all) THEN SubSeq(all, 1, c.max) ELSE all

(* gsub: the subject with each match replaced.                             *)
Replacement(c, m) ==
  CASE c.repl \in {NilRepl, <<"%", "0">>} -> Sub(c.src, m.s, m.e)
    [] c.repl = <<"%", "1">> ->
         IF m.caps[1][1] = "position" THEN <<ToString(m.caps[1][2])>> ELSE m.caps[1][2]
    [] c.repl = <<"%", "%">> -> <<"%">>
    [] OTHER -> c.repl

RECURSIVE Replaced(_, _, _)
Replaced(c, all, from) ==
  LET m == Head(all)
  IN IF all = <<>> THEN Sub(c.src, from, Len(c.src))
     ELSE Sub(c.src, from, m.s) \o Replacement(c, m) \o Replaced(c, Tail(all), m.e)

-----------------------------------------------------------------------------
(* Properties                                                              *)

TextRepl == call.fn = "gsub" /\ call.repl /= NilRepl
Spans(all) == [n \in DOMAIN all |-> <<all[n].s, all[n].e>>]

(* A well-formed pattern finds what it means: the matches, their captures  *)
(* and the text that replaces them are those of the ways in which its      *)
(* items match, tried in the order of preference, whatever the matcher     *)
(* undid on its way (start_capture, end_capture and max_expand restore the *)
(* MatchState when the rest of the pattern fails).  A malformed one finds  *)
(* nothing.  Only a pattern with as many items as MAXCCALLS is too complex.*)
SearchAgrees ==
  LET good == WellFormed(call.items)
      all == Expected(call)
  IN errors = 0 =>
       /\ pc \in {"done", "nil"} /\ good =>
            /\ IF TextRepl THEN Spans(found) = Spans(all) ELSE found = all
            /\ call.fn = "gsub" => buf = Replaced(call, all, 0)
       /\ pc \in {"done", "nil"} /\ ~good => found = <<>> \/ TextRepl
       /\ pc = "error" /\ good =>
            \/ err = "pattern too complex" /\ Len(call.items) >= MAXCCALLS
            \/ TextRepl /\ err = ""

=============================================================================
