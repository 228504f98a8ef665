----------------------------- MODULE LuaPattern -----------------------------
(* Pattern matching, lstrlib.c: the matcher and the functions that search  *)
(* with it, string.find, string.match, string.gmatch and string.gsub.      *)
(* Subjects and patterns are sequences of characters; positions are        *)
(* offsets from 0, and the character at an end is NUL.                     *)
(*                                                                         *)
(* The matcher calls itself to match the rest of a pattern and undoes what *)
(* it did when that fails.  A step here is an item of the pattern or the   *)
(* return of such a call; 'stack' holds what waits for the calls.          *)
EXTENDS Integers, Sequences, SequencesExt, FiniteSets, TLC

CONSTANTS MAXCCALLS,       (* nested calls of 'match'                       *)
          LUA_MAXCAPTURES,
          Chars,           (* characters in their order, as a sequence      *)
          Calls,           (* calls of the searching functions: the fields  *)
                           (* fn, src, pat (without '^'), anchor, init (of  *)
                           (* find), repl (of gsub, or NilRepl) and max     *)
          MaxErrors        (* errors of an iterator the program catches     *)

ASSUME PatternAssumption == MAXCCALLS \in Nat \ {0} /\ LUA_MAXCAPTURES \in Nat \ {0}

CAP_UNFINISHED == -1
CAP_POSITION   == -2
NULL  == -1
NUL   == "NUL"
L_ESC == "%"
Specials == {"^", "$", "*", "+", "?", ".", "(", "[", "%", "-"}
Letters  == {"a", "b", "c"}
Digits   == {"0", "1", "2"}

(* gsub with a function that returns nil.                                  *)
NilRepl == <<NUL>>

VARIABLES
  call,        (* the function that runs and its arguments                  *)
  pc,          (* "try": next position, "call": a call of match, "item":    *)
               (* in match, "return": match returns s, "result": to the     *)
               (* search, "done", "nil": not found, "error"                 *)
  s, p,        (* match: position in the subject, or NULL, and the pattern  *)
  stack,       (* the calls of match that wait for another one              *)
  matchdepth, level, capture, (* of the MatchState                          *)
  src,         (* search: the position where a match is tried               *)
  gmsrc,       (* gmatch: where the next call starts                        *)
  lastmatch,   (* the end of the last match                                 *)
  found,       (* start, end and captures of each match                     *)
  buf,         (* the result of gsub                                        *)
  err, errors

matchVars  == <<s, p, stack, matchdepth, level, capture>>
searchVars == <<src, gmsrc, lastmatch, found, buf>>
vars == <<call, pc, matchVars, searchVars, err, errors>>

At(str, i) == IF i \in 0..Len(str) - 1 THEN str[i + 1] ELSE NUL
uchar(c)   == IF c = NUL THEN 0 ELSE CHOOSE n \in DOMAIN Chars : Chars[n] = c
Sub(str, from, to) == SubSeq(str, from + 1, to)
Subject == call.src
Pat     == call.pat

-----------------------------------------------------------------------------
(* Single characters and classes                                           *)

(* The offset after the item at q, or NULL for a malformed pattern.        *)
classend(pat, q) ==
  LET skip(k) == IF At(pat, k) = L_ESC /\ k + 1 < Len(pat) THEN k + 2 ELSE k + 1
      SetEnd[k \in 0..Len(pat)] ==
        IF k = Len(pat) THEN NULL
        ELSE IF At(pat, skip(k)) = "]" THEN skip(k) + 1 ELSE SetEnd[skip(k)]
      first == IF At(pat, q + 1) = "^" THEN q + 2 ELSE q + 1
  IN CASE At(pat, q) = L_ESC -> IF q + 1 = Len(pat) THEN NULL ELSE q + 2
       [] At(pat, q) = "[" -> SetEnd[first]
       [] OTHER -> q + 1

match_class(c, cl) ==
  CASE cl = "a" -> c \in Letters
    [] cl = "A" -> c \notin Letters
    [] cl = "d" -> c \in Digits
    [] cl = "D" -> c \notin Digits
    [] OTHER -> cl = c

(* A set from its '[' at q to its ']' at ec: characters, classes, ranges.  *)
matchbracketclass(pat, c, q, ec) ==
  LET in[k \in 0..ec + 2] ==
        CASE k >= ec -> FALSE
          [] k < ec /\ At(pat, k) = L_ESC -> match_class(c, At(pat, k + 1)) \/ in[k + 2]
          [] k + 2 < ec /\ At(pat, k) /= L_ESC /\ At(pat, k + 1) = "-" ->
               uchar(c) \in uchar(At(pat, k))..uchar(At(pat, k + 2)) \/ in[k + 3]
          [] OTHER -> At(pat, k) = c \/ in[k + 1]
  IN IF At(pat, q + 1) = "^" THEN ~in[q + 2] ELSE in[q + 1]

singlematch(at, q, ep) ==
  LET c == At(Subject, at)
      x == At(Pat, q)
  IN at < Len(Subject) /\ CASE x = "." -> TRUE
                            [] x = L_ESC -> match_class(c, At(Pat, q + 1))
                            [] x = "[" -> matchbracketclass(Pat, c, q, ep - 1)
                            [] OTHER -> x = c

(* The number of repetitions from 'at' on.                                 *)
MaxRun(at, q, ep) ==
  LET stops == {n \in at..Len(Subject) : ~singlematch(n, q, ep)}
  IN (CHOOSE n \in stops : \A k \in stops : n <= k) - at

(* %bxy: the end of the balanced text at 'at', or NULL.                    *)
matchbalance(at, b, e) ==
  LET next(st, n) == CASE st.cont = 0 -> st
                       [] st.cont > 0 /\ At(Subject, n) = e -> [cont |-> st.cont - 1, end |-> n + 1]
                       [] OTHER -> [st EXCEPT !.cont = IF At(Subject, n) = b THEN @ + 1 ELSE @]
      last == FoldLeft(next, [cont |-> 1, end |-> NULL], [n \in 1..Len(Subject) - at - 1 |-> at + n])
  IN IF At(Subject, at) = b /\ last.cont = 0 THEN last.end ELSE NULL

-----------------------------------------------------------------------------
(* The matcher                                                             *)

Raise(msg) == /\ pc' = "error" /\ err' = msg
              /\ UNCHANGED <<call, matchVars, searchVars, errors>>

(* match calls itself at 'at' with the pattern from q; frame f waits.      *)
Recur(f, at, q) ==
  /\ pc' = "call" /\ stack' = Append(stack, f) /\ s' = at /\ p' = q
  /\ UNCHANGED <<call, matchdepth, searchVars, err, errors>>

Frame(k, at, q, ep, i) == [k |-> k, s |-> at, p |-> q, ep |-> ep, i |-> i]

(* goto init                                                               *)
Goto(at, q) ==
  /\ s' = at /\ p' = q /\ pc' = "item"
  /\ UNCHANGED <<call, stack, matchdepth, level, capture, searchVars, err, errors>>

Return(r) ==
  /\ s' = r /\ pc' = "return"
  /\ UNCHANGED <<call, p, stack, matchdepth, level, capture, searchVars, err, errors>>

(* A call of match counts until it returns.                                *)
match ==
  /\ pc = "call"
  /\ matchdepth' = matchdepth - 1
  /\ pc' = IF matchdepth = 0 THEN "error" ELSE "item"
  /\ err' = IF matchdepth = 0 THEN "pattern too complex" ELSE err
  /\ UNCHANGED <<call, s, p, stack, level, capture, searchVars, errors>>

InItem  == pc = "item"
Char    == At(Pat, p)
Escaped == Char = L_ESC
NextChar == At(Pat, p + 1)

PatternEnd == InItem /\ p = Len(Pat) /\ Return(s)

start_capture ==
  LET position == NextChar = ")"
  IN /\ InItem /\ Char = "("
     /\ \/ level >= LUA_MAXCAPTURES /\ Raise("too many captures")
        \/ /\ level < LUA_MAXCAPTURES
           /\ capture' = Append(SubSeq(capture, 1, level),
                                [init |-> s, len |-> IF position THEN CAP_POSITION ELSE CAP_UNFINISHED])
           /\ level' = level + 1
           /\ Recur(Frame("start", s, p, 0, 0), s, IF position THEN p + 2 ELSE p + 1)

Unfinished == {l \in 1..level : capture[l].len = CAP_UNFINISHED}
capture_to_close == CHOOSE l \in Unfinished : \A k \in Unfinished : k <= l

end_capture ==
  LET l == capture_to_close
  IN /\ InItem /\ Char = ")"
     /\ \/ Unfinished = {} /\ Raise("invalid pattern capture")
        \/ /\ Unfinished /= {}
           /\ capture' = [capture EXCEPT ![l].len = s - capture[l].init]
           /\ level' = level
           /\ Recur(Frame("end", s, p, 0, l), s, p + 1)

SubjectEnd ==
  InItem /\ Char = "$" /\ p + 1 = Len(Pat) /\ Return(IF s = Len(Subject) THEN s ELSE NULL)

GoOn(at, q) == IF at = NULL THEN Return(NULL) ELSE Goto(at, q)

Balance ==
  /\ InItem /\ Escaped /\ NextChar = "b"
  /\ IF p + 2 >= Len(Pat) - 1 THEN Raise("malformed pattern")
     ELSE GoOn(matchbalance(s, At(Pat, p + 2), At(Pat, p + 3)), p + 4)

Frontier ==
  LET ep == classend(Pat, p + 2)
      in(c) == matchbracketclass(Pat, c, p + 2, ep - 1)
  IN /\ InItem /\ Escaped /\ NextChar = "f"
     /\ CASE At(Pat, p + 2) /= "[" -> Raise("missing '['")
          [] At(Pat, p + 2) = "[" /\ ep = NULL -> Raise("malformed pattern")
          [] OTHER -> IF ~in(At(Subject, s - 1)) /\ in(At(Subject, s)) THEN Goto(s, ep) ELSE Return(NULL)

CaptureIndex(c) == uchar(c) - uchar("1") + 1
check_capture(l) == l \in 1..level /\ capture[l].len /= CAP_UNFINISHED

(* The length of a position capture, as a size, is longer than any text.   *)
match_capture ==
  LET l == CaptureIndex(NextChar)
      len == capture[l].len
      same == /\ len /= CAP_POSITION /\ len <= Len(Subject) - s
              /\ Sub(Subject, capture[l].init, capture[l].init + len) = Sub(Subject, s, s + len)
  IN /\ InItem /\ Escaped /\ NextChar \in Digits
     /\ IF ~check_capture(l) THEN Raise("invalid capture index")
        ELSE GoOn(IF same THEN s + len ELSE NULL, p + 2)

(* A class with an optional suffix.                                        *)
IsDefault == /\ InItem /\ p < Len(Pat) /\ Char \notin {"(", ")"}
             /\ ~(Char = "$" /\ p + 1 = Len(Pat))
             /\ ~(Escaped /\ NextChar \in {"b", "f"} \union Digits)
ep_ == classend(Pat, p)
Suffix(x) == IsDefault /\ ep_ /= NULL /\ At(Pat, ep_) \in x
Once == singlematch(s, p, ep_)
NoSuffix == IsDefault /\ ep_ /= NULL /\ At(Pat, ep_) \notin {"?", "*", "+", "-"}

Malformed   == IsDefault /\ ep_ = NULL /\ Raise("malformed pattern")
AcceptEmpty == Suffix({"*", "?", "-"}) /\ ~Once /\ Goto(s, ep_ + 1)
NoMatch     == (NoSuffix \/ Suffix({"+"})) /\ ~Once /\ Return(NULL)
Single      == NoSuffix /\ Once /\ Goto(s + 1, ep_)
Optional    == /\ Suffix({"?"}) /\ Once /\ Recur(Frame("optional", s, p, ep_, 0), s + 1, ep_ + 1)
               /\ UNCHANGED <<level, capture>>
max_expand  ==
  LET from == IF At(Pat, ep_) = "+" THEN s + 1 ELSE s
      i == MaxRun(from, p, ep_)
  IN /\ Suffix({"*", "+"}) /\ Once /\ Recur(Frame("max", from, p, ep_, i), from + i, ep_ + 1)
     /\ UNCHANGED <<level, capture>>
min_expand  == /\ Suffix({"-"}) /\ Once /\ Recur(Frame("min", s, p, ep_, 0), s, ep_ + 1)
               /\ UNCHANGED <<level, capture>>

-----------------------------------------------------------------------------
(* Returns: match gives s, which is NULL when it failed, to the frame that *)
(* waits.  Every one gives back the call of match.                         *)

Waiting(k) == pc = "return" /\ stack /= <<>> /\ Last(stack).k = k
F == Last(stack)
Pop == stack' = Front(stack)
GiveBack == matchdepth' = matchdepth + 1
Same == UNCHANGED <<call, searchVars, err, errors>>

ReturnUp == Pop /\ GiveBack /\ Same /\ UNCHANGED <<pc, s, p>>
CallAgain(f, at) ==
  /\ GiveBack /\ Same /\ stack' = Append(Front(stack), f) /\ pc' = "call" /\ s' = at /\ p' = f.ep + 1
  /\ UNCHANGED <<level, capture>>

UndoStart == /\ Waiting("start") /\ ReturnUp
             /\ level' = IF s = NULL THEN level - 1 ELSE level
             /\ UNCHANGED capture

(* Fault: a failed match leaves the capture closed.                        *)
UndoEndNot == /\ Waiting("end") /\ ReturnUp /\ UNCHANGED <<level, capture>>

UndoEnd == /\ Waiting("end") /\ ReturnUp
           /\ capture' = IF s = NULL THEN [capture EXCEPT ![F.i].len = CAP_UNFINISHED] ELSE capture
           /\ UNCHANGED level

(* A match, or the last way to match: the caller returns the same.         *)
Passed == /\ Waiting("optional") \/ Waiting("max") \/ Waiting("min")
          /\ \/ s /= NULL
             \/ F.k = "max" /\ F.i = 0
             \/ F.k = "min" /\ ~singlematch(F.s, F.p, F.ep)
          /\ ReturnUp /\ UNCHANGED <<level, capture>>

(* Fault: the call that failed is not given back.                          *)
WithoutOptionalKeeps ==
  /\ Waiting("optional") /\ s = NULL /\ Pop /\ Same /\ UNCHANGED matchdepth
  /\ pc' = "item" /\ s' = F.s /\ p' = F.ep + 1
  /\ UNCHANGED <<level, capture>>

WithoutOptional == /\ Waiting("optional") /\ s = NULL /\ Pop /\ GiveBack /\ Same
                   /\ pc' = "item" /\ s' = F.s /\ p' = F.ep + 1
                   /\ UNCHANGED <<level, capture>>
OneLess == Waiting("max") /\ s = NULL /\ F.i > 0 /\ CallAgain([F EXCEPT !.i = @ - 1], F.s + F.i - 1)
OneMore == /\ Waiting("min") /\ s = NULL /\ singlematch(F.s, F.p, F.ep)
           /\ CallAgain([F EXCEPT !.s = @ + 1], F.s + 1)

Matched == /\ pc = "return" /\ stack = <<>> /\ pc' = "result" /\ GiveBack
           /\ UNCHANGED <<call, s, p, stack, level, capture, searchVars, err, errors>>

MatchStep ==
  \/ match \/ PatternEnd \/ start_capture \/ end_capture \/ SubjectEnd \/ Balance \/ Frontier
  \/ match_capture \/ Malformed \/ AcceptEmpty \/ NoMatch \/ Single \/ Optional \/ max_expand \/ min_expand
  \/ UndoStart \/ UndoEnd \/ Passed \/ WithoutOptional \/ OneLess \/ OneMore \/ Matched

=============================================================================
