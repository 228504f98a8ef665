------------------------------ MODULE LuaCall ------------------------------
(***************************************************************************)
(* Calls, protected calls, errors, hooks and coroutines (ldo.c, the call   *)
(* API of lapi.c, the coroutine library, the interpreter's signal).        *)
(*                                                                         *)
(* A lua_State has its frames ('ci', the base level first) and counters.   *)
(* The one C stack of the process is 'cstack': the activations of the C    *)
(* functions that matter, of all threads, the running one last.  A long    *)
(* jump cuts it.  'mode' says where in a call or an error the running C    *)
(* code is.  What a function does is free: any operation its kind allows.  *)
(***************************************************************************)
EXTENDS Integers, Sequences, FiniteSetsExt

CONSTANTS
  Main, Coroutines,
  LUAI_MAXCCALLS,  (* limit of nested C calls, ...                          *)
  EXTRACCALLS,     (* ... and how many more may handle an error: 1/8 of it *)
  MAXFRAMES,       (* frames that fit in LUAI_MAXSTACK slots, ...          *)
  EXTRAFRAMES,     (* ... and how many more in ERRORSTACKSIZE              *)
  Programs,        (* what the functions of each thread may do: functions  *)
                   (* from threads to sets of Operations                   *)
  MaxActs          (* bound on the activations on the C stack              *)

Threads == {Main} \union Coroutines

ASSUME ThreadsAssumption == Main \notin Coroutines
ASSUME LimitsAssumption ==
  /\ LUAI_MAXCCALLS \in Nat \ {0} /\ EXTRACCALLS \in Nat \ {0}
  /\ MAXFRAMES \in Nat \ {0, 1} /\ EXTRAFRAMES \in Nat
  /\ MaxActs \in Nat \ {0}

(* "hookmetamethod": an operator with a metamethod used by a hook.         *)
Operations ==
  {"call", "callk", "pcall", "pcallk", "xpcall", "opcall", "metamethod", "hookmetamethod",
   "finalizer", "load", "yield", "yieldk", "hookyield", "resume", "sethook", "signal", "error",
   "lua", "c"}

ASSUME ProgramsAssumption == Programs \subseteq [Threads -> SUBSET Operations]

VARIABLES
  state,    (* the lua_State of each thread                                *)
  cstack,   (* the activations on the C stack                              *)
  mode      (* "run", a phase of a call, or the status that is thrown      *)

vars == <<state, cstack, mode>>

ErrorStatus == {"ERRRUN", "ERRERR", "ERRSYNTAX", "ERRGCMM"}
Phases      == {"run", "precall", "errormsg", "ret", "poscall"}
Hooks       == {"none", "user", "lstop"}

(* A CallInfo: a Lua function or not; has it a continuation; CIST_YPCALL   *)
(* with old_errfunc and the bit CIST_OAH; CIST_FRESH; CIST_HOOKYIELD.      *)
Frame == [lua: BOOLEAN, k: BOOLEAN, yp: BOOLEAN, oerr: Nat, oah: BOOLEAN,
          fresh: BOOLEAN, hookyield: BOOLEAN]

NewFrame(lua, fresh) ==
  [lua |-> lua, k |-> FALSE, yp |-> FALSE, oerr |-> 0, oah |-> FALSE,
   fresh |-> fresh, hookyield |-> FALSE]

(* 'errfunc' is the frame that keeps the handler; 'big' says that the      *)
(* stack grew to ERRORSTACKSIZE; 'body', that a function waits to be       *)
(* started; 'ops' is what the functions of the thread do.  'armed': the    *)
(* interpreter, which the main thread belongs to, handles SIGINT.          *)
NewThread(L, hook, ops) ==
  [status |-> "OK", ci |-> <<NewFrame(FALSE, FALSE)>>, nny |-> 1, nCcalls |-> 0,
   errfunc |-> 0, allowhook |-> TRUE, hook |-> hook, big |-> FALSE,
   body |-> L /= Main, ops |-> ops, armed |-> FALSE]

Top     == cstack[Len(cstack)]
Running == Top.th
S       == state[Running]
Pop     == SubSeq(cstack, 1, Len(cstack) - 1)
Below   == cstack[Len(cstack) - 1]
Depth   == Len(S.ci)
CurrentCI == S.ci[Depth]
IsLua   == CurrentCI.lua

Update(s) == state' = [state EXCEPT ![Running] = s]

(* An activation knows the frame it belongs to: its 'ci', or L->ci when it *)
(* was entered.                                                            *)
Kind(kind, ci) == [kind |-> kind, th |-> Running, ci |-> ci]
Host == [kind |-> "host", th |-> Main, ci |-> 1]

(* The function that runs: what its kind may do is below.  'lstop' does    *)
(* nothing but Lstop.                                                      *)
Body(kinds) == mode = "run" /\ Top.kind \in kinds
May(op) == op \in S.ops /\ Len(cstack) < MaxActs
UserHook == Body({"hook"}) /\ Top.fn = "user"
InC    == Body({"cfun"}) \/ UserHook
InLua  == Body({"exec"}) /\ ~(CurrentCI.hookyield /\ S.hook /= "none")
InCode == InC \/ InLua
InParser == Body({"parser", "level"})

-----------------------------------------------------------------------------
(* Calls.  luaD_call and luaD_callnoyield put an activation on 'stack' for *)
(* a caller in the state 's'; 'yp' marks the call of a lua_pcallk that has *)
(* a continuation.                                                         *)

DCall(s, stack, noyield, yp) ==
  LET n == s.nCcalls + 1
  IN /\ Update([s EXCEPT !.nCcalls = n, !.nny = IF noyield THEN @ + 1 ELSE @])
     /\ cstack' = Append(stack, [kind |-> "call", th |-> Running, ci |-> Len(s.ci),
                                noyield |-> noyield, yp |-> yp])
     /\ mode' = IF n = LUAI_MAXCCALLS THEN "errormsg"
                ELSE IF n >= LUAI_MAXCCALLS + EXTRACCALLS THEN "ERRERR" ELSE "precall"

SetFrame(s, f) == [s EXCEPT !.ci = [@ EXCEPT ![Len(@)] = f]]
CutFrames(s, n) == [s EXCEPT !.ci = SubSeq(@, 1, n)]

(* Fault: the stack keeps its extra size.                               *)
ShrinkStackNever(s) == s

(* The stack shrinks back from ERRORSTACKSIZE once it is used less.        *)
ShrinkStack(s) == [s EXCEPT !.big = @ /\ Len(s.ci) > MAXFRAMES]

HookSet == S.hook /= "none" /\ S.allowhook
HookAct(ci, ev) == [kind |-> "hook", th |-> Running, ci |-> ci, ev |-> ev, fn |-> S.hook]

(* A function that is not callable, or the stack is full; ...              *)
PrecallFails ==
  /\ mode = "precall"
  /\ \/ mode' = "errormsg" /\ UNCHANGED <<state, cstack>>
     \/ /\ Depth >= MAXFRAMES
        /\ IF S.big
           THEN Depth >= MAXFRAMES + EXTRAFRAMES /\ mode' = "ERRERR" /\ UNCHANGED state
           ELSE mode' = "errormsg" /\ Update([S EXCEPT !.big = TRUE])
        /\ UNCHANGED cstack

(* ... or a frame is pushed.  luaV_execute runs a function called by       *)
(* OP_CALL in the same activation.  The call hook runs first.              *)
Precall ==
  /\ mode = "precall"
  /\ Depth < MAXFRAMES + (IF S.big THEN EXTRAFRAMES ELSE 0)
  /\ \E lua \in BOOLEAN :
       /\ (IF lua THEN "lua" ELSE "c") \in S.ops
       /\ LET reentry == lua /\ Top.kind = "exec"
              act == Kind(IF lua THEN "exec" ELSE "cfun", Depth + 1)
              acts == IF reentry THEN cstack ELSE Append(cstack, act)
              s == [S EXCEPT !.ci = Append(@, NewFrame(lua, lua /\ ~reentry))]
          IN IF HookSet THEN /\ cstack' = Append(acts, HookAct(Depth + 1, "call"))
                             /\ Update([s EXCEPT !.allowhook = FALSE])
             ELSE cstack' = acts /\ Update(s)
  /\ mode' = "run"

(* lua_callk: with a continuation, the callee may yield.                   *)
CallK(k) ==
  /\ InC /\ May(IF k THEN "callk" ELSE "call")
  /\ Top.kind = "hook" => ~k
  /\ IF k /\ S.nny = 0
     THEN DCall(SetFrame(S, [CurrentCI EXCEPT !.k = TRUE]), cstack, FALSE, FALSE)
     ELSE DCall(S, cstack, TRUE, FALSE)

(* OP_CALL, OP_TFORCALL; an operator or an access with a metamethod        *)
(* (luaT_callTM), from Lua code ...                                        *)
OpCall == InLua /\ May("opcall") /\ mode' = "precall" /\ UNCHANGED <<state, cstack>>
Metamethod == InLua /\ May("metamethod") /\ DCall(S, cstack, FALSE, FALSE)

(* ... and from the API, where it may yield if the frame is a Lua function *)
(* -- as it is when a hook calls the API.                                  *)
ApiMetamethod ==
  /\ UserHook /\ May("hookmetamethod")
  /\ DCall(S, cstack, ~IsLua, FALSE)

(* The return hook, then luaD_poscall removes the frame.                   *)
Return ==
  /\ Body({"cfun"}) \/ InLua
  /\ mode' = "ret" /\ UNCHANGED <<state, cstack>>

ReturnHook ==
  /\ mode = "ret" /\ HookSet
  /\ cstack' = Append(cstack, HookAct(Depth, "ret"))
  /\ Update([S EXCEPT !.allowhook = FALSE])
  /\ mode' = "run"

Poscall ==
  /\ mode = "poscall" \/ (mode = "ret" /\ ~HookSet)
  /\ Update(CutFrames(S, Depth - 1))
  /\ cstack' = IF Top.kind = "cfun" \/ (Top.kind = "exec" /\ CurrentCI.fresh) THEN Pop ELSE cstack
  /\ mode' = "run"

(* luaD_call returns; lua_pcallk clears CIST_YPCALL.                       *)
CallDone ==
  /\ Body({"call"})
  /\ LET s == [S EXCEPT !.nCcalls = @ - 1, !.nny = IF Top.noyield THEN @ - 1 ELSE @]
     IN Update(IF Top.yp THEN [SetFrame(s, [CurrentCI EXCEPT !.yp = FALSE])
                                 EXCEPT !.errfunc = CurrentCI.oerr]
               ELSE s)
  /\ cstack' = Pop /\ UNCHANGED mode

-----------------------------------------------------------------------------
(* Protected calls                                                         *)

(* luaD_pcall with luaD_rawrunprotected: what they save and restore.       *)
PcallAct(s) ==
  [kind |-> "pcall", th |-> Running, ci |-> Len(s.ci), oah |-> s.allowhook, nny |-> s.nny,
   oerr |-> s.errfunc, ncc |-> s.nCcalls]

(* Fault: the handler is not restored.                                  *)
PcallDoneKeepsHandler ==
  /\ Body({"pcall"})
  /\ Update([S EXCEPT !.nCcalls = Top.ncc])
  /\ cstack' = Pop /\ UNCHANGED mode

(* lua_pcallk, with a message handler or not.                              *)
PcallK(k, ef) ==
  /\ Body({"host"}) \/ (InC /\ May(IF k THEN "pcallk" ELSE "pcall"))
  /\ Top.kind /= "cfun" => ~k
  /\ ef \in {0} \union (IF May("xpcall") THEN {Depth} ELSE {})
  /\ IF k /\ S.nny = 0
     THEN DCall([SetFrame(S, [CurrentCI EXCEPT !.k = TRUE, !.yp = TRUE, !.oerr = S.errfunc,
                                               !.oah = S.allowhook])
                   EXCEPT !.errfunc = ef],
                cstack, FALSE, TRUE)
     ELSE DCall([S EXCEPT !.errfunc = ef, !.armed = @ \/ Top.kind = "host"],
                Append(cstack, PcallAct(S)), TRUE, FALSE)

PcallDone ==
  /\ Body({"pcall"})
  /\ Update([S EXCEPT !.errfunc = Top.oerr, !.nCcalls = Top.ncc,
                      !.armed = @ /\ Below.kind /= "host"])
  /\ cstack' = Pop /\ UNCHANGED mode

GCTM(oah) == [kind |-> "gctm", th |-> Running, ci |-> Depth, oah |-> oah]

(* Fault: a finalizer may yield.                                        *)
CallFinalizerYieldable ==
  /\ May("finalizer") /\ InCode
  /\ \A i \in DOMAIN cstack : cstack[i].kind /= "gctm"
  /\ LET s == [S EXCEPT !.allowhook = FALSE]
     IN DCall([s EXCEPT !.errfunc = 0],
              cstack \o <<GCTM(S.allowhook), PcallAct(s)>>, FALSE, FALSE)

(* GCTM: a step of the collector, wherever memory is allocated, calls a    *)
(* finalizer.  The collector is stopped meanwhile.                         *)
CallFinalizer ==
  /\ May("finalizer")
  /\ InCode \/ InParser
  /\ \A i \in DOMAIN cstack : cstack[i].kind /= "gctm"
  /\ LET s == [S EXCEPT !.allowhook = FALSE]
     IN DCall([s EXCEPT !.errfunc = 0],
              cstack \o <<GCTM(S.allowhook), PcallAct(s)>>, TRUE, FALSE)

FinalizerDone ==
  /\ Body({"gctm"})
  /\ Update([S EXCEPT !.allowhook = Top.oah])
  /\ cstack' = Pop /\ UNCHANGED mode

(* lua_load: the parser cannot be yielded across; it may call the reader   *)
(* function of 'load', and fails with a syntax error or any other.         *)
Load ==
  /\ May("load")
  /\ Body({"cfun"})
  /\ LET s == [S EXCEPT !.nny = @ + 1]
     IN /\ Update(s)
        /\ cstack' = cstack \o <<Kind("load", Depth), PcallAct(s), Kind("parser", Depth)>>
  /\ UNCHANGED mode

Reader == InParser /\ May("call") /\ DCall(S, cstack, TRUE, FALSE)

(* enterlevel and leavelevel: nested syntax counts as C calls.             *)
EnterLevel ==
  /\ InParser
  /\ Update([S EXCEPT !.nCcalls = @ + 1])
  /\ cstack' = Append(cstack, Kind("level", Depth))
  /\ mode' = IF S.nCcalls + 1 > LUAI_MAXCCALLS THEN "ERRSYNTAX" ELSE mode

LeaveLevel ==
  /\ Body({"level"})
  /\ Update([S EXCEPT !.nCcalls = @ - 1])
  /\ cstack' = Pop /\ UNCHANGED mode

ParserEnds ==
  /\ \/ Body({"parser"}) /\ cstack' = Pop /\ UNCHANGED mode
     \/ InParser /\ mode' = "ERRSYNTAX" /\ UNCHANGED cstack
  /\ UNCHANGED state

LoadDone ==
  /\ Body({"load"})
  /\ Update([S EXCEPT !.nny = @ - 1])
  /\ cstack' = Pop /\ UNCHANGED mode

-----------------------------------------------------------------------------
(* Errors                                                                  *)

(* lua_error, luaG_runerror: any code may fail.                            *)
Error == InCode /\ "error" \in S.ops /\ mode' = "errormsg" /\ UNCHANGED <<state, cstack>>

(* luaG_errormsg calls the handler, if there is one.                       *)
ErrorMsg ==
  /\ mode = "errormsg"
  /\ IF S.errfunc = 0 THEN mode' = "ERRRUN" /\ UNCHANGED <<state, cstack>>
     ELSE DCall(S, Append(cstack, Kind("errormsg", Depth)), TRUE, FALSE)

HandlerDone == Body({"errormsg"}) /\ mode' = "ERRRUN" /\ UNCHANGED <<state, cstack>>

(* L->errorJmp: the innermost setjmp of the running thread.                *)
Catcher == Max({i \in DOMAIN cstack : cstack[i].kind \in {"pcall", "resume"}
                                        /\ cstack[i].th = Running})
Thrown  == mode \in ErrorStatus \union {"YIELD"}

(* luaD_pcall catches; GCTM throws again.                                  *)
CatchInPcall ==
  /\ Thrown
  /\ LET p == cstack[Catcher]
         caller == cstack[Catcher - 1]
         s == ShrinkStack([CutFrames(S, p.ci) EXCEPT
                !.allowhook = p.oah, !.nny = p.nny, !.nCcalls = p.ncc, !.errfunc = p.oerr,
                !.armed = @ /\ caller.kind /= "host"])
         stack == SubSeq(cstack, 1, Catcher - 1)
     IN /\ p.kind = "pcall"
        /\ IF caller.kind = "gctm"
           THEN /\ cstack' = SubSeq(stack, 1, Len(stack) - 1)
                /\ Update([s EXCEPT !.allowhook = caller.oah])
                /\ mode' = IF mode = "ERRRUN" THEN "ERRGCMM" ELSE mode
           ELSE cstack' = stack /\ Update(s) /\ mode' = "run"

(* findpcall: the frames that suspended a lua_pcallk.                      *)
RecoverPoints == {i \in 1 .. Depth : S.ci[i].yp}

(* recover: the innermost of them goes on, with its continuation called    *)
(* with the error's status by finishCcall; ...                             *)
FinishCcall(s, i) ==
  [s EXCEPT !.ci[i].yp = FALSE, !.errfunc = IF s.ci[i].yp THEN s.ci[i].oerr ELSE @]

RecoverAt(i, nny) ==
  /\ Thrown /\ mode /= "YIELD" /\ cstack[Catcher].kind = "resume"
  /\ LET s == ShrinkStack([CutFrames(S, i) EXCEPT !.allowhook = S.ci[i].oah, !.nny = nny,
                             !.nCcalls = cstack[Catcher].ncc])
     IN Update(FinishCcall(s, i))
  /\ cstack' = Append(SubSeq(cstack, 1, Catcher), Kind("cfun", i))
  /\ mode' = "run"

(* Faults: the outermost call; nny as the error left it.              *)
RecoverOutermost == RecoverPoints /= {} /\ RecoverAt(Min(RecoverPoints), 0)
RecoverKeepsNny == RecoverPoints /= {} /\ RecoverAt(Max(RecoverPoints), S.nny)

Recover == RecoverPoints /= {} /\ RecoverAt(Max(RecoverPoints), 0)

(* ... without one the thread is dead.  lua_resume returns; what it        *)
(* restores:                                                               *)
ResumeReturns(s, i) ==
  /\ Update([s EXCEPT !.nny = cstack[i].oldnny, !.nCcalls = cstack[i].ncc - 1])
  /\ cstack' = SubSeq(cstack, 1, i - 1)
  /\ mode' = "run"

Die ==
  /\ Thrown /\ mode /= "YIELD"
  /\ cstack[Catcher].kind = "resume" /\ RecoverPoints = {}
  /\ ResumeReturns([S EXCEPT !.status = mode], Catcher)

-----------------------------------------------------------------------------
(* Coroutines                                                              *)

(* lua_yieldk from a C function.                                           *)
Yield(k) ==
  /\ May(IF k THEN "yieldk" ELSE "yield")
  /\ Body({"cfun"})
  /\ IF S.nny > 0 THEN mode' = "errormsg" /\ UNCHANGED state
     ELSE /\ mode' = "YIELD"
          /\ Update([SetFrame(S, [CurrentCI EXCEPT !.k = k]) EXCEPT !.status = "YIELD"])
  /\ UNCHANGED cstack

(* lua_yield from the count hook: the hook returns, and luaG_traceexec     *)
(* marks the frame and throws.                                             *)
YieldInHook ==
  /\ May("hookyield")
  /\ UserHook /\ Top.ev = "count" /\ S.nny = 0
  /\ Update([SetFrame(S, [CurrentCI EXCEPT !.hookyield = TRUE])
               EXCEPT !.status = "YIELD", !.allowhook = TRUE])
  /\ cstack' = Pop
  /\ mode' = "YIELD"

Suspend ==
  /\ mode = "YIELD" /\ cstack[Catcher].kind = "resume"
  /\ ResumeReturns(S, Catcher)

(* lua_resume by a C function, through auxresume: refused for a thread     *)
(* that runs, is dead or has finished, and at the limit of C calls, where  *)
(* nCcalls of the thread stays as it was set.                              *)
Resume(L) ==
  /\ Body({"cfun"}) /\ May("resume") /\ L /= Running /\ state[L].ops /= {}
  /\ \/ state[L].status = "YIELD"
     \/ state[L].status = "OK" /\ Len(state[L].ci) = 1 /\ state[L].body
  /\ LET n == S.nCcalls + 1
         l == state[L]
         s == [l EXCEPT !.nCcalls = n, !.nny = 0, !.status = "OK", !.body = FALSE]
         act == [kind |-> "resume", th |-> L, ci |-> 1, oldnny |-> l.nny, ncc |-> n]
         f == l.ci[Len(l.ci)]
         Go(st, acts, m) == /\ state' = [state EXCEPT ![L] = st]
                            /\ cstack' = cstack \o acts /\ mode' = m
     IN \/ /\ n >= LUAI_MAXCCALLS
           /\ state' = [state EXCEPT ![L].nCcalls = n] /\ UNCHANGED <<cstack, mode>>
        \/ /\ n < LUAI_MAXCCALLS
           /\ \/ l.status = "OK" /\ Go(s, <<act>>, "precall")
              \/ /\ l.status = "YIELD" /\ f.lua
                 /\ Go([s EXCEPT !.ci[Len(l.ci)].fresh = TRUE],
                       <<act, [kind |-> "exec", th |-> L, ci |-> Len(l.ci)]>>, "run")
              \/ /\ l.status = "YIELD" /\ ~f.lua /\ f.k
                 /\ Go(s, <<act, [kind |-> "cfun", th |-> L, ci |-> Len(l.ci)]>>, "run")
              \/ /\ l.status = "YIELD" /\ ~f.lua /\ ~f.k
                 /\ Go(s, <<act>>, "ret")

(* unroll: the frames go on one by one, C functions in their continuation; *)
Unroll ==
  /\ Body({"resume"}) /\ Depth > 1
  /\ IF IsLua
     THEN /\ cstack' = Append(cstack, Kind("exec", Depth))
          /\ Update([S EXCEPT !.ci[Depth].fresh = TRUE])
     ELSE /\ cstack' = Append(cstack, Kind("cfun", Depth))
          /\ Update(FinishCcall(S, Depth))
  /\ UNCHANGED mode

(* the coroutine has finished.                                             *)
Finish == Body({"resume"}) /\ Depth = 1 /\ ResumeReturns(S, Len(cstack))

(* coroutine.create: the place of a thread that ended is used again; the   *)
(* new thread inherits the hook.                                           *)
Create(L) ==
  /\ Body({"cfun"}) /\ May("resume") /\ state[L].ops /= {}
  /\ \A i \in DOMAIN cstack : cstack[i].th /= L
  /\ state[L].status \in ErrorStatus \/ (state[L].status = "OK" /\ ~state[L].body)
  /\ state' = [state EXCEPT ![L] = NewThread(L, S.hook, state[L].ops)]
  /\ UNCHANGED <<cstack, mode>>

-----------------------------------------------------------------------------
(* Hooks                                                                   *)

(* luaG_traceexec at some instruction: a frame that yielded in its count   *)
(* hook does not call it again.                                            *)
CountHook ==
  /\ Body({"exec"}) /\ S.hook /= "none"
  /\ IF CurrentCI.hookyield
     THEN Update(SetFrame(S, [CurrentCI EXCEPT !.hookyield = FALSE])) /\ UNCHANGED cstack
     ELSE /\ S.allowhook
          /\ cstack' = Append(cstack, HookAct(Depth, "count"))
          /\ Update([S EXCEPT !.allowhook = FALSE])
  /\ UNCHANGED mode

(* 'lstop' has only one way to go: it resets the hook and fails.           *)
Lstop ==
  /\ Body({"hook"}) /\ Top.fn = "lstop"
  /\ Update([S EXCEPT !.hook = "none"])
  /\ mode' = "errormsg" /\ UNCHANGED cstack

HookDone ==
  /\ UserHook
  /\ Update([S EXCEPT !.allowhook = TRUE])
  /\ cstack' = Pop
  /\ mode' = IF Top.ev = "ret" THEN "poscall" ELSE "run"

(* debug.sethook.                                                          *)
SetHook(h) ==
  /\ May("sethook")
  /\ Body({"cfun"})
  /\ Update([S EXCEPT !.hook = h]) /\ UNCHANGED <<cstack, mode>>

(* laction: SIGINT arrives between any two instructions of the process,    *)
(* once for each docall of the interpreter.                                *)
Signal ==
  /\ "signal" \in state[Main].ops
  /\ state[Main].armed
  /\ state' = [state EXCEPT ![Main].hook = "lstop", ![Main].armed = FALSE]
  /\ UNCHANGED <<cstack, mode>>

-----------------------------------------------------------------------------
Init ==
  /\ \E program \in Programs : state = [L \in Threads |-> NewThread(L, "none", program[L])]
  /\ cstack = <<Host>>
  /\ mode = "run"

ApiCall ==
  \/ \E k \in BOOLEAN : CallK(k) \/ Yield(k) \/ \E ef \in Nat \cap {0, Depth} : PcallK(k, ef)
  \/ \E L \in Coroutines : Resume(L) \/ Create(L)
  \/ \E h \in {"none", "user"} : SetHook(h)
  \/ Load \/ ApiMetamethod

Next ==
  \/ ApiCall \/ OpCall \/ Metamethod \/ Precall \/ PrecallFails
  \/ Return \/ ReturnHook \/ Poscall \/ CallDone \/ PcallDone
  \/ CallFinalizer \/ FinalizerDone \/ Reader \/ EnterLevel \/ LeaveLevel \/ ParserEnds \/ LoadDone
  \/ Error \/ ErrorMsg \/ HandlerDone \/ CatchInPcall \/ Recover \/ Die
  \/ YieldInHook \/ Suspend \/ Unroll \/ Finish
  \/ CountHook \/ Lstop \/ HookDone \/ Signal

Spec == Init /\ [][Next]_vars
-----------------------------------------------------------------------------
(* Properties.                                                             *)

Activations == DOMAIN cstack
Of(L, kinds) == {i \in Activations : cstack[i].th = L /\ cstack[i].kind \in kinds}
Active(L)    == \E i \in Activations : cstack[i].th = L
LastOf(L)    == Max({i \in Activations : cstack[i].th = L})

(* The three counters that luaD_call, lua_resume, luaD_pcall, the parser   *)
(* and 'recover' increment, save and restore each in its own way agree     *)
(* with the C stack after every return, error, yield and recovery: nCcalls *)
(* counts the C calls of all threads below, nny the calls that cannot be   *)
(* yielded across, and hooks are off exactly inside a hook or a finalizer. *)
CountersExact ==
  \A L \in Threads : Active(L) =>
    /\ state[L].nCcalls =
         Cardinality({i \in 1 .. LastOf(L) : cstack[i].kind \in {"call", "resume", "level"}})
    /\ state[L].nny =
         (IF L = Main THEN 1 ELSE 0) + Cardinality(Of(L, {"load"}))
         + Cardinality({i \in Of(L, {"call"}) : cstack[i].noyield})
    /\ state[L].allowhook = (Of(L, {"hook", "gctm"}) = {})

(* A yield must reach the lua_resume of its own thread, jumping over no    *)
(* hook, finalizer, parser or protected call, and every C function that    *)
(* 'unroll' then meets must have a continuation: what the assertions of    *)
(* finishCcall and lua_resume say.  No jump leaves its thread.             *)
ContinuationReady ==
  /\ mode = "YIELD" =>
       /\ cstack[Catcher].kind = "resume" /\ S.nny = 0
       /\ \A i \in Catcher + 1 .. Len(cstack) : cstack[i].kind \in {"call", "exec", "cfun"}
  /\ Body({"resume"}) /\ Depth > 1 /\ ~IsLua => CurrentCI.k /\ S.nny = 0
  /\ Thrown => \A i \in Catcher .. Len(cstack) : cstack[i].th = Running

(* The protected calls of the i-th frame of L that have not returned, on   *)
(* the C stack or suspended.                                               *)
PendingCalls(L, i) ==
  Cardinality({j \in Of(L, {"pcall"}) : cstack[j].ci = i})
  + (IF state[L].ci[i].yp THEN 1 ELSE 0)

(* L->errfunc is an index into the stack: it must belong to a frame that   *)
(* is still there, inside a protected call, or luaG_errormsg would call    *)
(* whatever value has taken the slot.                                      *)
HandlerAlive ==
  \A L \in Threads : state[L].status \in {"OK", "YIELD"} /\ state[L].errfunc /= 0 =>
    state[L].errfunc \in DOMAIN state[L].ci /\ PendingCalls(L, state[L].errfunc) > 0

(* A chain of handlers that fail, each in the handler of the one before,   *)
(* stays within what the extra C calls and the extra stack allow, and the  *)
(* extra stack is given back once the overflow has been handled.           *)
OverflowHandled ==
  \A L \in Threads :
    /\ state[L].nCcalls <= LUAI_MAXCCALLS + EXTRACCALLS
    /\ state[L].big => Len(state[L].ci) >= MAXFRAMES

-----------------------------------------------------------------------------
(* The implementation of LuaThreads: the protected calls are where the     *)
(* code keeps them, in the C stack and in the suspended frames.            *)

Pending == [L \in Threads |-> [i \in DOMAIN state[L].ci |-> PendingCalls(L, i)]]
ResumedBy == [L \in Coroutines |-> {cstack[i - 1].th : i \in Of(L, {"resume"})}]
Unfinished == {L \in Coroutines : /\ state[L].status \notin ErrorStatus
                                  /\ Active(L) \/ state[L].body \/ state[L].status = "YIELD"}

Abstract == INSTANCE LuaThreads WITH
  pending <- Pending, running <- Running, resumer <- ResumedBy, alive <- Unfinished

(* Whether the C stack was cut by a yield, rebuilt by 'unroll' or left by  *)
(* an error: an error reaches the innermost protected call of its thread,  *)
(* no function or protected call is lost, and no other thread is touched.  *)
ImplementsThreads == Abstract!Spec
=============================================================================
