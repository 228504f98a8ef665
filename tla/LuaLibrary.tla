----------------------------- MODULE LuaLibrary -----------------------------
(* The parts of the runtime and its libraries that share no state with     *)
(* each other, one of which a program uses: table functions (LuaTableLib), *)
(* table.sort (LuaSort), string.dump and load (LuaChunk), a search with a  *)
(* pattern (LuaSearch), an operation on numbers or a numeric 'for'         *)
(* (LuaNumbers), short strings (LuaStrings), a string buffer or references *)
(* (LuaAux), finalizers (LuaFinalizers).                                   *)
EXTENDS LuaTableLib, LuaSort, LuaChunk, LuaMeaning, LuaStrings, LuaAux, LuaFinalizers

VARIABLE part   (* the one that is used                                    *)

NoSum   == [op |-> "none", x |-> IntN(0), y |-> IntN(0), z |-> IntN(0)]
NoSort  == [keys |-> <<>>, valid |-> TRUE]
NoTCall == [fn |-> "none", f |-> 0, e |-> 0, t |-> 0, same |-> TRUE, len |-> 0]
NoCall  == Job("none", <<>>, <<>>, FALSE, 1, NilRepl, 0)

(* The part that is used starts with any of its calls, the others idle.    *)
LibInit ==
  /\ part \in {"numbers", "table", "sort", "chunk", "search", "strings", "buffer", "references", "finalizers"}
  /\ NumInit(IF part = "numbers" THEN Sums ELSE {NoSum})
  /\ TabInit(IF part = "table" THEN TabCalls ELSE {NoTCall})
  /\ SortInit(IF part = "sort" THEN Sorts ELSE {NoSort})
  /\ IF part = "chunk" THEN ChunkInit(Dumps) ELSE ChunkIdle
  /\ SearchInit(IF part = "search" THEN Calls ELSE {NoCall})
  /\ StrInit /\ BufInit /\ FinInit
  /\ RefInit(IF part = "references" THEN 0..Reserved ELSE {0})

libVars == <<part, numVars, tabVars, sortVars, chunkVars, vars, strVars, bufVars, refVars, finVars>>

LibNext ==
  \/ part = "numbers" /\ NumNext /\ UNCHANGED <<part, tabVars, sortVars, chunkVars, vars, strVars, bufVars, refVars, finVars>>
  \/ part = "table" /\ TabNext /\ UNCHANGED <<part, numVars, sortVars, chunkVars, vars, strVars, bufVars, refVars, finVars>>
  \/ part = "sort" /\ SortNext /\ UNCHANGED <<part, numVars, tabVars, chunkVars, vars, strVars, bufVars, refVars, finVars>>
  \/ part = "chunk" /\ ChunkNext /\ UNCHANGED <<part, numVars, tabVars, sortVars, vars, strVars, bufVars, refVars, finVars>>
  \/ part = "search" /\ Next /\ UNCHANGED <<part, numVars, tabVars, sortVars, chunkVars, strVars, bufVars, refVars, finVars>>
  \/ part = "strings" /\ StrNext /\ UNCHANGED <<part, numVars, tabVars, sortVars, chunkVars, vars, bufVars, refVars, finVars>>
  \/ part = "buffer" /\ BufNext /\ UNCHANGED <<part, numVars, tabVars, sortVars, chunkVars, vars, strVars, refVars, finVars>>
  \/ part = "references" /\ RefNext /\ UNCHANGED <<part, numVars, tabVars, sortVars, chunkVars, vars, strVars, bufVars, finVars>>
  \/ part = "finalizers" /\ FinNext /\ UNCHANGED <<part, numVars, tabVars, sortVars, chunkVars, vars, strVars, bufVars, refVars>>

(* A function that is running runs on, and a reader that steps the         *)
(* collector returns in the end.                                           *)
ReaderReturns == part = "chunk" /\ luaZ_fill /\ UNCHANGED <<part, numVars, tabVars, sortVars, vars, strVars, bufVars, refVars, finVars>>
LibSpec == LibInit /\ [][LibNext]_libVars /\ WF_libVars(LibNext) /\ WF_libVars(ReaderReturns)

(* Every call ends, whatever an order function answers and in whatever     *)
(* pieces a reader delivers: all loops and recursions of ltablib.c,        *)
(* lundump.c and the matcher go on towards their end.  So do collections.  *)
Ended ==
  /\ part = "numbers" => at \in {"done", "error"} \/ Len(visited) = MaxLoops
  /\ part = "table" => tpc \in {"done", "error"}
  /\ part = "sort" => spc \in {"done", "error"}
  /\ part = "chunk" => dpc \in {"idle", "done", "text", "failed", "error"}
  /\ part = "search" => pc \in {"done", "nil", "error"}
CallsEnd == \A n \in 1..MaxFinalizers : []<>(Ended /\ Passing(n))
=============================================================================
