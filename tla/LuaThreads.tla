----------------------------- MODULE LuaThreads -----------------------------
(***************************************************************************)
(* What calls, errors and coroutines promise: threads that resume each     *)
(* other, each a stack of functions, each function with the number of      *)
(* protected calls it has pending.  An error goes to the innermost pending *)
(* protected call of its thread, whoever made it and however the thread    *)
(* was suspended in between, or kills the thread and no other.             *)
(***************************************************************************)
EXTENDS Integers, Sequences, FiniteSetsExt

CONSTANTS Main, Coroutines

Threads == {Main} \union Coroutines

VARIABLES
  pending,   (* pending[L][i]: the protected calls the i-th function has     *)
  running,
  resumer,   (* the thread that each coroutine was resumed by, if any        *)
  alive      (* the coroutines that have not ended                           *)

tvars == <<pending, running, resumer, alive>>

Waiting(L) == resumer[L] = {}
Protected(L) == {i \in DOMAIN pending[L] : pending[L][i] > 0}

(* The first element of every stack is the level of the host or of the     *)
(* resume, which no function occupies.                                     *)
Init ==
  /\ pending = [L \in Threads |-> <<0>>]
  /\ running = Main
  /\ resumer = [L \in Coroutines |-> {}]
  /\ alive = Coroutines

Top(L) == Len(pending[L])

Put(stack) ==
  /\ pending' = [pending EXCEPT ![running] = stack]
  /\ UNCHANGED <<running, resumer, alive>>

Call == Put(Append(pending[running], 0))

Return ==
  /\ Top(running) > 1 /\ pending[running][Top(running)] = 0
  /\ Put(SubSeq(pending[running], 1, Top(running) - 1))

Protect == Put([pending[running] EXCEPT ![Top(running)] = @ + 1])

Unprotect ==
  /\ Top(running) \in Protected(running)
  /\ Put([pending[running] EXCEPT ![Top(running)] = @ - 1])

(* An error is caught by the innermost protected call, ...                 *)
Caught ==
  /\ Protected(running) /= {}
  /\ LET f == Max(Protected(running))
     IN Put([SubSeq(pending[running], 1, f) EXCEPT ![f] = @ - 1])

(* The coroutine that runs stops: the one that resumed it goes on.         *)
Back ==
  /\ running \in Coroutines
  /\ resumer[running] = {running'}
  /\ resumer' = [resumer EXCEPT ![running] = {}]
  /\ UNCHANGED pending

(* ... or ends the coroutine it is in.                                     *)
Uncaught == Protected(running) = {} /\ alive' = alive \ {running} /\ Back

(* A thread that yields keeps its functions and its protected calls.       *)
Yield == Back /\ UNCHANGED alive

Resume ==
  \E L \in alive :
    /\ Waiting(L)
    /\ running' = L
    /\ resumer' = [resumer EXCEPT ![L] = {running}]
    /\ UNCHANGED <<pending, alive>>

Finish == pending[running] = <<0>> /\ alive' = alive \ {running} /\ Back

(* The place of a thread that has ended is taken by a new one.             *)
Create ==
  \E L \in Coroutines \ alive :
    /\ pending' = [pending EXCEPT ![L] = <<0>>]
    /\ alive' = alive \union {L}
    /\ UNCHANGED <<running, resumer>>

Next ==
  \/ Call \/ Return \/ Protect \/ Unprotect \/ Caught \/ Uncaught
  \/ Yield \/ Resume \/ Finish \/ Create

Spec == Init /\ [][Next]_tvars
=============================================================================
