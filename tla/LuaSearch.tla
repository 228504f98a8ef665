------------------------------ MODULE LuaSearch -----------------------------
(* The functions that search with a pattern: str_find_aux, gmatch_aux and  *)
(* str_gsub of lstrlib.c.  They call the matcher of LuaPattern at one      *)
(* position of the subject after the other.  The program may call the      *)
(* iterator of gmatch again, also after an error that it has caught.       *)
EXTENDS LuaPattern

(* push_onecapture: capture l, or the whole match if there is none.        *)
push_onecapture(l) ==
  LET c == capture[l]
  IN IF level = 0 THEN <<"string", Sub(Subject, src, s)>>
     ELSE IF c.len = CAP_POSITION THEN <<"position", c.init + 1>>
     ELSE <<"string", Sub(Subject, c.init, c.init + c.len)>>

push_captures(whole) == [l \in 1..IF level = 0 /\ whole THEN 1 ELSE level |-> push_onecapture(l)]
BadCapture(l) == IF l > level THEN l > 1 ELSE capture[l].len = CAP_UNFINISHED
BadCaptures   == \E l \in 1..level : BadCapture(l)

posrelat(pos, len) == IF pos >= 0 THEN pos ELSE IF -pos > len THEN 0 ELSE len + pos + 1

(* The first place from 'from' on where s2 stands, or NULL.                *)
lmemfind(s1, from, s2) ==
  LET places == {n \in from..Len(s1) - Len(s2) : Sub(s1, n, n + Len(s2)) = s2}
  IN IF places = {} THEN NULL ELSE CHOOSE n \in places : \A k \in places : n <= k

nospecials == ~call.anchor /\ \A n \in DOMAIN Pat : Pat[n] \notin Specials

Match(from, to, caps) == [s |-> from, e |-> to, caps |-> caps]
Fn(fns) == call.fn \in fns
Plain == Fn({"find"}) /\ nospecials

-----------------------------------------------------------------------------
(* A search tries a match at src; reprepstate forgets the captures.        *)
Try ==
  /\ pc = "try" /\ ~Plain /\ ~(Fn({"gsub"}) /\ Len(found) >= call.max)
  /\ pc' = "call" /\ s' = src /\ p' = 0
  /\ level' = 0 /\ capture' = <<>>
  /\ UNCHANGED <<call, stack, matchdepth, searchVars, err, errors>>

Result(fns) == pc = "result" /\ Fn(fns)
Failed == s = NULL
Idle == UNCHANGED <<call, matchVars, errors>>

(* find and match                                                          *)
PlainFind ==
  LET at == lmemfind(Subject, src, Pat)
  IN /\ pc = "try" /\ Plain
     /\ found' = IF at = NULL THEN <<>> ELSE <<Match(at, at + Len(Pat), <<>>)>>
     /\ pc' = IF at = NULL THEN "nil" ELSE "done"
     /\ UNCHANGED <<src, lastmatch, buf, gmsrc, err>> /\ Idle

FindNext ==
  /\ Result({"find", "match"}) /\ Failed
  /\ src' = src + 1
  /\ pc' = IF src = Len(Subject) \/ call.anchor THEN "nil" ELSE "try"
  /\ UNCHANGED <<lastmatch, found, buf, gmsrc, err>> /\ Idle

FindDone ==
  /\ Result({"find", "match"}) /\ ~Failed
  /\ pc' = IF BadCaptures THEN "error" ELSE "done"
  /\ found' = IF BadCaptures THEN found ELSE <<Match(src, s, push_captures(Fn({"match"})))>>
  /\ UNCHANGED <<src, lastmatch, buf, gmsrc, err>> /\ Idle

(* gmatch: a call of the iterator searches from gmsrc on for a match that  *)
(* does not end where the last one ended.                                  *)
GmatchNext ==
  /\ Result({"gmatch"}) /\ (Failed \/ s = lastmatch)
  /\ src' = src + 1
  /\ pc' = IF src = Len(Subject) THEN "nil" ELSE "try"
  /\ UNCHANGED <<lastmatch, found, buf, gmsrc, err>> /\ Idle

GmatchDone ==
  /\ Result({"gmatch"}) /\ ~Failed /\ s /= lastmatch
  /\ src' = s /\ gmsrc' = s /\ lastmatch' = s
  /\ pc' = IF BadCaptures THEN "error" ELSE "try"
  /\ found' = IF BadCaptures THEN found ELSE Append(found, Match(src, s, push_captures(TRUE)))
  /\ UNCHANGED <<buf, err>> /\ Idle

IterateAgain ==
  /\ pc = "error" /\ Fn({"gmatch"}) /\ errors < MaxErrors
  /\ pc' = "try" /\ errors' = errors + 1 /\ src' = gmsrc /\ stack' = <<>>
  /\ UNCHANGED <<call, s, p, matchdepth, level, capture, gmsrc, lastmatch, found, buf, err>>

(* gsub                                                                    *)
add_s(repl) ==
  LET cap(c) == push_onecapture(CaptureIndex(c))
      esc(c) == CASE c = L_ESC -> <<L_ESC>>
                  [] c = "0" -> Sub(Subject, src, s)
                  [] OTHER -> IF cap(c)[1] = "position" THEN <<ToString(cap(c)[2])>> ELSE cap(c)[2]
      from[n \in 1..Len(repl) + 2] ==
        CASE n > Len(repl) -> <<>>
          [] n <= Len(repl) /\ repl[n] = L_ESC -> esc(repl[n + 1]) \o from[n + 2]
          [] OTHER -> <<repl[n]>> \o from[n + 1]
  IN from[1]

add_value == IF call.repl = NilRepl THEN Sub(Subject, src, s) ELSE add_s(call.repl)

BadReplacement ==
  IF call.repl = NilRepl THEN BadCaptures
  ELSE \E n \in 1..Len(call.repl) - 1 :
         LET c == call.repl[n + 1]
         IN call.repl[n] = L_ESC /\ (\/ c \notin (Digits \union {L_ESC})
                                    \/ (c \in Digits \ {"0"} /\ BadCapture(CaptureIndex(c))))

(* Fault: a match may end where the last one ended.                        *)
NewMatchAny == ~Failed
NewMatch == ~Failed /\ s /= lastmatch

Rest(from) == SubSeq(Subject, from + 1, Len(Subject))

(* An iteration that leaves 'text' in the buffer and goes on at 'from'.    *)
Iterated(text, from) ==
  /\ src' = from
  /\ buf' = buf \o text \o IF call.anchor THEN Rest(from) ELSE <<>>
  /\ pc' = IF call.anchor THEN "done" ELSE "try"

GsubMatch ==
  /\ Result({"gsub"}) /\ NewMatch /\ ~BadReplacement
  /\ Iterated(add_value, s)
  /\ lastmatch' = s
  /\ found' = Append(found, Match(src, s, IF call.repl = NilRepl THEN push_captures(TRUE) ELSE <<>>))
  /\ UNCHANGED <<gmsrc, err>> /\ Idle

GsubBad ==
  /\ Result({"gsub"}) /\ NewMatch /\ BadReplacement
  /\ pc' = "error" /\ UNCHANGED <<searchVars, err>> /\ Idle

GsubSkip ==
  /\ Result({"gsub"}) /\ ~NewMatch /\ src < Len(Subject)
  /\ Iterated(<<Subject[src + 1]>>, src + 1)
  /\ UNCHANGED <<lastmatch, found, gmsrc, err>> /\ Idle

GsubEnd ==
  /\ \/ Result({"gsub"}) /\ ~NewMatch /\ src = Len(Subject)
     \/ pc = "try" /\ Fn({"gsub"}) /\ Len(found) >= call.max
  /\ buf' = buf \o Rest(src) /\ pc' = "done"
  /\ UNCHANGED <<src, lastmatch, found, gmsrc, err>> /\ Idle

-----------------------------------------------------------------------------
SearchInit(calls) ==
  /\ call \in calls
  /\ src = IF posrelat(call.init, Len(Subject)) < 1 THEN 0 ELSE posrelat(call.init, Len(Subject)) - 1
  /\ pc = IF src > Len(Subject) THEN "nil" ELSE "try"
  /\ s = 0 /\ p = 0 /\ stack = <<>> /\ matchdepth = MAXCCALLS /\ level = 0 /\ capture = <<>>
  /\ gmsrc = src /\ lastmatch = NULL /\ found = <<>> /\ buf = <<>> /\ err = "" /\ errors = 0

Init == SearchInit(Calls)

SearchStep ==
  \/ Try \/ PlainFind \/ FindNext \/ FindDone \/ GmatchNext \/ GmatchDone \/ IterateAgain
  \/ GsubMatch \/ GsubBad \/ GsubSkip \/ GsubEnd

Next == MatchStep \/ SearchStep

Spec == Init /\ [][Next]_vars

-----------------------------------------------------------------------------
(* The calls of match that are active.                                     *)
Active == CASE pc \in {"item", "return"} -> Len(stack) + 1
            [] pc = "call" -> Len(stack)
            [] OTHER -> 0

(* matchdepth is what is left of MAXCCALLS after the active calls: each    *)
(* way out of match gives its call back, also when it undoes captures or   *)
(* tries again (lstrlib.c:426 and 522), so that a search starts with all   *)
(* its calls (the assertion of reprepstate, lstrlib.c:603).  It is not so  *)
(* for the iterator of gmatch after an error: gmatch_aux does not give     *)
(* back the calls that the error left.                                     *)
DepthCounted == pc /= "error" /\ errors = 0 => matchdepth + Active = MAXCCALLS
=============================================================================
