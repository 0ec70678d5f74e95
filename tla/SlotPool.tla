------------------------------ MODULE SlotPool ------------------------------
(***************************************************************************)
(* What the throttle promises the executor, without counter, condition or  *)
(* wake-ups: a pool of slots with a limit that may move at any time.       *)
(* Operations are admitted one at a time and only below the limit; moving  *)
(* the limit evicts nobody and admits nobody.                              *)
(***************************************************************************)
EXTENDS Integers, FiniteSets

CONSTANTS Slot, InitialLimit, Lowest, Highest

VARIABLES held, limit

vars == <<held, limit>>

Init == held = {} /\ limit = InitialLimit

Admit(s) ==
  /\ s \in Slot \ held
  /\ Cardinality(held) < limit
  /\ held' = held \cup {s}
  /\ UNCHANGED limit

Leave(S) ==
  /\ S \subseteq held
  /\ held' = held \ S
  /\ UNCHANGED limit

MoveLimit ==
  /\ limit' \in Lowest .. Highest
  /\ UNCHANGED held

Next ==
  \/ \E s \in Slot : Admit(s)
  \/ \E S \in SUBSET held : Leave(S)
  \/ MoveLimit

Spec == Init /\ [][Next]_vars
=============================================================================
