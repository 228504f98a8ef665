------------------------------- MODULE MCCall -------------------------------
(***************************************************************************)
(* Instances of LuaCall: programs that bring together the operations whose *)
(* interplay is delicate.                                                  *)
(***************************************************************************)
EXTENDS LuaCall, TLC

CONSTANTS co, other

(* The functions of the main thread and of the two coroutines; a thread    *)
(* without functions takes no part.                                        *)
Three(main, ops, ops2) == (Main :> main) @@ (co :> ops) @@ (other :> ops2)
Coroutine(main, ops) == Three(main, ops, {})
Resumer == {"c", "resume"}

(* Protected calls, with continuations and without, that yield and fail.   *)
Recovery == Coroutine(Resumer, {"c", "pcall", "pcallk", "xpcall", "yield", "yieldk", "error"})
(* Calls with continuations between Lua and C functions.                   *)
Calls == Coroutine(Resumer, {"lua", "c", "callk", "call", "opcall", "metamethod", "yield", "error"})
(* Yields that hooks, finalizers and the parser stand in the way of.       *)
Barriers == Coroutine(Resumer, {"lua", "c", "opcall", "pcallk", "call", "finalizer", "load", "yieldk", "error"})
HookYields == Coroutine(Resumer, {"lua", "c", "opcall", "pcallk", "yield", "sethook", "hookyield", "error"})
(* The interpreter alone: overflows, handlers that fail, the signal.       *)
Handlers == Coroutine({"lua", "c", "xpcall", "pcall", "signal", "error"}, {})

(* A hook that uses operators with metamethods, in the main thread.        *)
HookOperators == Coroutine({"lua", "c", "opcall", "sethook", "hookmetamethod"}, {})
(* A coroutine that resumes another.                                       *)
Nested == Three(Resumer, {"c", "pcallk", "resume", "yieldk", "error"}, {"c", "pcallk", "yieldk", "error"})

MCPrograms == {Nested, HookOperators, Recovery, Calls, Barriers, HookYields, Handlers}
=============================================================================
