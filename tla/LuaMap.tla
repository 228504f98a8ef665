------------------------------- MODULE LuaMap -------------------------------
(***************************************************************************)
(* What a Lua table promises, without its representation: a map from keys  *)
(* to values that is nil almost everywhere, and a traversal with 'next'    *)
(* that visits every key once, as long as the program assigns nothing to   *)
(* a key that has no value.  The collector may take entries away from a    *)
(* weak table, during a traversal too.                                     *)
(***************************************************************************)
CONSTANTS Keys, Nil

VARIABLES
  map,         (* the value of every key                                   *)
  stored,      (* what the last assignment stored: a function on some keys *)
  traversal    (* whether a traversal is running that the promise covers,  *)
               (* and the keys it has visited                              *)

vars == <<map, stored, traversal>>

Idle == [running |-> FALSE, seen |-> {}]

Init == map = [k \in Keys |-> Nil] /\ stored = <<>> /\ traversal = Idle

(* The program stores values, several at a time in a constructor; to store *)
(* at a key without a value ends the promise, even to store nil.  That a   *)
(* collection clears an entry is the same step.                            *)
Assign ==
  /\ map' = [k \in Keys |-> IF k \in DOMAIN stored' THEN stored'[k] ELSE map[k]]
  /\ traversal' = IF \E k \in DOMAIN stored' : map[k] = Nil THEN Idle ELSE traversal

(* A new traversal, whatever became of the one before.                     *)
Start ==
  /\ \E k \in Keys : traversal' = [running |-> TRUE, seen |-> {k}] /\ map[k] # Nil
  /\ UNCHANGED <<map, stored>>

Visit ==
  /\ traversal.running
  /\ \E k \in Keys \ traversal.seen :
       /\ traversal' = [running |-> TRUE, seen |-> traversal.seen \union {k}]
       /\ map[k] # Nil
  /\ UNCHANGED <<map, stored>>

(* The traversal ends when no key that has a value is left out; one of an  *)
(* empty table ends where it starts.                                       *)
Finish ==
  /\ traversal' = Idle
  /\ \A k \in Keys : map[k] # Nil => traversal.running /\ k \in traversal.seen
  /\ UNCHANGED <<map, stored>>

Next == Assign \/ Start \/ Visit \/ Finish

Spec == Init /\ [][Next]_vars

=============================================================================
