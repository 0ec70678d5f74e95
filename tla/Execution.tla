----------------------------- MODULE Execution -----------------------------
(***************************************************************************)
(* What the executor promises of a plan, without batches, coroutines,      *)
(* throttle, retries or BAM: each operation is tried at most once, when    *)
(* everything it depends on is settled, and a failure takes exactly what   *)
(* descends from it down, in the step in which it happens.                 *)
(***************************************************************************)
CONSTANTS
  Op,          \* the operations of the plan
  Ancestors,   \* [Op -> SUBSET Op], what each depends on at any distance
  DeferredOn   \* [Op -> SUBSET Op], the creates whose ids it waits for

VARIABLES
  before,   \* what a resumed run takes for done and leaves out
  running,  \* the operations that are under way
  outcome   \* "open", or how an operation ended

vars == <<before, running, outcome>>

Init ==
  /\ before \in SUBSET Op
  /\ \A o \in before : Ancestors[o] \subseteq before
  /\ running = {}
  /\ outcome = [o \in Op |-> "open"]

\* An unresolved id stops the operation it belongs to and nobody else.
Settled(o) == o \in before \/ outcome[o] \in {"succeeded", "unresolved"}

MayStart(o) ==
  /\ o \notin before \cup running
  /\ outcome[o] = "open"
  /\ \A a \in Ancestors[o] : Settled(a)

Start(o) ==
  /\ MayStart(o)
  /\ running' = running \cup {o}
  /\ UNCHANGED <<before, outcome>>

Succeed(o) ==
  /\ o \in running
  /\ running' = running \ {o}
  /\ outcome' = [outcome EXCEPT ![o] = "succeeded"]
  /\ UNCHANGED before

\* A row that never became a request fails without being under way.
Fail(o) ==
  /\ o \in running \/ MayStart(o)
  /\ running' = running \ {o}
  /\ outcome' = [x \in Op |-> IF x = o THEN "failed"
                            ELSE IF o \in Ancestors[x] THEN "skipped" ELSE outcome[x]]
  /\ UNCHANGED before

\* The id of p cannot be known: the graph does not order o after p, an
\* earlier run was to create p, or p has no id for the same reason.
NoIdOf(p, o) == p \notin Ancestors[o] \/ p \in before \/ outcome[p] = "unresolved"

LeaveUnresolved(o) ==
  /\ o \in running \/ MayStart(o)
  /\ \E p \in DeferredOn[o] : NoIdOf(p, o)
  /\ running' = running \ {o}
  /\ outcome' = [outcome EXCEPT ![o] = "unresolved"]
  /\ UNCHANGED before

Next == \E o \in Op : Start(o) \/ Succeed(o) \/ Fail(o) \/ LeaveUnresolved(o)

Spec == Init /\ [][Next]_vars
=============================================================================
