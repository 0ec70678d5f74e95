-------------------------- MODULE AdaptiveThrottle --------------------------
(***************************************************************************)
(* AdaptiveThrottle of src/importer/execution/throttle.py: a hand-made     *)
(* counter of running operations, a limit that moves at run time, and an   *)
(* asyncio.Condition on which the operations that find no room wait.       *)
(*                                                                         *)
(* The event loop is single threaded and the condition's lock is never     *)
(* held across an await (Condition.wait gives it up before it suspends),   *)
(* so each of the class's critical sections is one action here.            *)
(*                                                                         *)
(* A slot is one acquisition: one execution of `async with self.throttle`. *)
(* An operation that enters the block again while it is still inside (the  *)
(* executor's rate-limit retry does) uses another slot.                    *)
(***************************************************************************)
EXTENDS Integers, Sequences, FiniteSets

CONSTANTS
  Slot,               \* the acquisitions that may ever be made
  InitialConcurrency, \* ThrottleConfig.initial_concurrency
  MinConcurrency,     \* ThrottleConfig.min_concurrency
  MaxConcurrency,     \* ThrottleConfig.max_concurrency
  FactorUnit,         \* the three factors are fractions of FactorUnit
  IncreaseFraction,   \* increase_factor - 1.0
  DecreaseFraction,   \* 1.0 - decrease_factor
  RateLimitFraction   \* 1.0 - rate_limit_decrease

(***************************************************************************)
(* The code validates nothing about the configured limits.  A minimum of 0 *)
(* would let the limit reach 0; the defaults are 1, 10 and 50.             *)
(***************************************************************************)
ASSUME ConcurrencyAssumption ==
  /\ InitialConcurrency \in Nat \ {0}
  /\ MinConcurrency \in Nat \ {0}
  /\ MaxConcurrency \in Nat \ {0}

ASSUME FactorAssumption ==
  /\ FactorUnit \in Nat \ {0}
  /\ IncreaseFraction \in Nat
  /\ DecreaseFraction \in 0 .. FactorUnit
  /\ RateLimitFraction \in 0 .. FactorUnit

VARIABLES
  active,        \* _active_tasks
  limit,         \* current_concurrency
  queue,         \* the deque of waiting futures inside the Condition
  notified,      \* how many of them, from the front, are already woken
  held,          \* ghost: the slots that are inside the `async with` block
  requested,     \* ghost: the slots for which acquire() was ever called
  rateLimited,   \* ghost: the slots that reported a rate limit
  adjusting,     \* _adjusting
  increases,     \* scheduled _increase_concurrency_safe tasks
  decreases,     \* scheduled _decrease_concurrency_safe tasks
  rateDecreases  \* scheduled _decrease_concurrency_rate_limit tasks

slotVars   == <<active, queue, notified, held, requested>>
adjustVars == <<adjusting, increases, decreases>>
vars == <<slotVars, limit, rateLimited, adjustVars, rateDecreases>>

MinOf(a, b) == IF a <= b THEN a ELSE b
MaxOf(a, b) == IF a >= b THEN a ELSE b

\* The range of the limit, widened to the configured starting point.
Lowest  == MinOf(MinConcurrency, InitialConcurrency)
Highest == MaxOf(MaxConcurrency, InitialConcurrency)

-----------------------------------------------------------------------------
Init ==
  /\ active = 0
  /\ limit = InitialConcurrency
  /\ queue = << >>
  /\ notified = 0
  /\ held = {}
  /\ requested = {}
  /\ rateLimited = {}
  /\ adjusting = FALSE
  /\ increases = 0
  /\ decreases = 0
  /\ rateDecreases = 0

HasRoom == active < limit

\* Condition.notify(n): the first n futures that are not done yet
NotifiedAfter(n) == MinOf(notified + n, Len(queue))

-----------------------------------------------------------------------------
(***************************************************************************)
(* Next to some definitions stand slips: what a plausible mistake in that  *)
(* code would make of them.  They are not part of the specification; each  *)
(* is there to be noticed by one of the properties.                        *)
(***************************************************************************)

(***************************************************************************)
(* acquire() up to its first suspension: the slot is taken at once, also   *)
(* past operations that were woken and have not run yet, or it waits.      *)
(***************************************************************************)
Acquire(s) ==
  /\ s \in Slot \ requested
  /\ requested' = requested \cup {s}
  /\ IF HasRoom
       THEN /\ active' = active + 1
            /\ held' = held \cup {s}
            /\ queue' = queue
       ELSE /\ queue' = Append(queue, s)
            /\ UNCHANGED <<active, held>>
  /\ UNCHANGED notified

\* Slip: the woken operation does not look at the limit again.
ResumeUnchecked ==
  /\ notified > 0
  /\ notified' = notified - 1
  /\ active' = active + 1
  /\ held' = held \cup {Head(queue)}
  /\ queue' = Tail(queue)
  /\ UNCHANGED requested

\* Slip: the woken operation that waits again keeps its old place, too.
ResumeKeepingPlace ==
  /\ notified > 0
  /\ notified' = notified - 1
  /\ IF HasRoom
       THEN /\ active' = active + 1
            /\ held' = held \cup {Head(queue)}
            /\ queue' = Tail(queue)
       ELSE /\ queue' = Append(queue, Head(queue))
            /\ UNCHANGED <<active, held>>
  /\ UNCHANGED requested

(***************************************************************************)
(* A woken operation runs: it re-checks the limit and either takes the     *)
(* slot or waits again, at the back of the queue.  Futures are completed   *)
(* in FIFO order and the loop resumes their tasks in that order.           *)
(***************************************************************************)
Resume ==
  /\ notified > 0
  /\ notified' = notified - 1
  /\ IF HasRoom
       THEN /\ active' = active + 1
            /\ held' = held \cup {Head(queue)}
            /\ queue' = Tail(queue)
       ELSE /\ queue' = Append(Tail(queue), Head(queue))
            /\ UNCHANGED <<active, held>>
  /\ UNCHANGED requested

\* Slip: leaving nested blocks gives back one slot only.
ReleaseOnce(S) ==
  LET freed == MinOf(1, active) IN
  /\ S \subseteq held
  /\ held' = held \ S
  /\ active' = active - freed
  /\ notified' = NotifiedAfter(freed)
  /\ UNCHANGED <<queue, requested>>

\* Slip: a release wakes nobody.
ReleaseSilently(S) ==
  /\ S \subseteq held
  /\ held' = held \ S
  /\ active' = active - MinOf(Cardinality(S), active)
  /\ UNCHANGED <<notified, queue, requested>>

(***************************************************************************)
(* _release_async() of the slots S, one after another without a suspension *)
(* in between (several when nested blocks unwind).  Each notifies one      *)
(* waiter, and a release that finds the counter at 0 only logs a warning.  *)
(***************************************************************************)
Release(S) ==
  LET freed == MinOf(Cardinality(S), active) IN
  /\ S \subseteq held
  /\ held' = held \ S
  /\ active' = active - freed
  /\ notified' = NotifiedAfter(freed)
  /\ UNCHANGED <<queue, requested>>

\* Slip: an adjustment is scheduled while another one is.
MaybeAdjustUnguarded ==
  \/ UNCHANGED adjustVars
  \/ /\ adjusting' = TRUE
     /\ \/ increases' = increases + 1 /\ UNCHANGED decreases
        \/ decreases' = decreases + 1 /\ UNCHANGED increases

(***************************************************************************)
(* _maybe_adjust_concurrency(), called by record_success() and             *)
(* record_failure(): nothing while an adjustment is scheduled; otherwise   *)
(* the clock, the error rate and the latency decide between nothing, an    *)
(* increase and a decrease.                                                *)
(***************************************************************************)
MaybeAdjust ==
  \/ UNCHANGED adjustVars
  \/ /\ ~adjusting
     /\ adjusting' = TRUE
     /\ \/ increases' = increases + 1 /\ UNCHANGED decreases
        \/ decreases' = decreases + 1 /\ UNCHANGED increases

\* An operation reports its outcome and leaves the block with its slots S.
Complete(S) ==
  /\ S # {}
  /\ Release(S)
  /\ MaybeAdjust
  /\ UNCHANGED <<limit, rateLimited, rateDecreases>>

\* record_failure(is_rate_limit=True), reported from inside the block
RateLimit(s) ==
  /\ s \in held \ rateLimited
  /\ rateLimited' = rateLimited \cup {s}
  /\ rateDecreases' = rateDecreases + 1
  /\ MaybeAdjust
  /\ UNCHANGED <<slotVars, limit>>

-----------------------------------------------------------------------------
(***************************************************************************)
(* The adjustments.  int() truncates, and every adjustment moves the limit *)
(* by at least one before it is clipped.                                   *)
(***************************************************************************)
StepOf(fraction) == MaxOf(1, (limit * fraction) \div FactorUnit)
Raised           == MinOf(limit + StepOf(IncreaseFraction), MaxConcurrency)
Lowered(fraction) == MaxOf(limit - StepOf(fraction), MinConcurrency)

\* Slip: the new room is announced to nobody.
IncreaseSilently ==
  /\ increases > 0
  /\ increases' = increases - 1
  /\ adjusting' = FALSE
  /\ limit' = IF limit < MaxConcurrency THEN Raised ELSE limit
  /\ UNCHANGED <<notified, active, queue, held, requested, rateLimited, decreases,
                 rateDecreases>>

\* _increase_concurrency_safe()
Increase ==
  /\ increases > 0
  /\ increases' = increases - 1
  /\ adjusting' = FALSE
  /\ IF limit < MaxConcurrency
       THEN /\ limit' = Raised
            /\ notified' = NotifiedAfter(Raised - limit)
       ELSE UNCHANGED <<limit, notified>>
  /\ UNCHANGED <<active, queue, held, requested, rateLimited, decreases,
                 rateDecreases>>

\* Slip: the minimum is not respected.
LowerUnclipped(fraction) == limit' = limit - StepOf(fraction)

Lower(fraction) ==
  limit' = IF limit > MinConcurrency THEN Lowered(fraction) ELSE limit

\* _decrease_concurrency_safe()
Decrease ==
  /\ decreases > 0
  /\ decreases' = decreases - 1
  /\ adjusting' = FALSE
  /\ Lower(DecreaseFraction)
  /\ UNCHANGED <<slotVars, rateLimited, increases, rateDecreases>>

\* _decrease_concurrency_rate_limit(), which ignores the _adjusting flag
RateDecrease ==
  /\ rateDecreases > 0
  /\ rateDecreases' = rateDecreases - 1
  /\ Lower(RateLimitFraction)
  /\ UNCHANGED <<slotVars, rateLimited, adjustVars>>

-----------------------------------------------------------------------------
Enter(s) == Acquire(s) /\ UNCHANGED <<limit, rateLimited, adjustVars, rateDecreases>>
WakeUp == Resume /\ UNCHANGED <<limit, rateLimited, adjustVars, rateDecreases>>

Next ==
  \/ \E s \in Slot : Enter(s) \/ RateLimit(s)
  \/ \E S \in SUBSET held : Complete(S)
  \/ WakeUp
  \/ Increase
  \/ Decrease
  \/ RateDecrease

Spec == Init /\ [][Next]_vars

(***************************************************************************)
(* The event loop runs every task that is ready, and an operation inside   *)
(* the block leaves it: its request is answered or times out.              *)
(***************************************************************************)
Fairness ==
  /\ WF_vars(WakeUp)
  /\ WF_vars(Increase)
  /\ WF_vars(Decrease)
  /\ WF_vars(RateDecrease)
  /\ \A s \in Slot : WF_vars(Complete({s}))

FairSpec == Spec /\ Fairness

-----------------------------------------------------------------------------
SeqElems(q) == {q[i] : i \in 1 .. Len(q)}

\* Every variable has its type.
TypeOK ==
  /\ active \in Nat
  /\ limit \in Nat \ {0}
  /\ queue \in Seq(Slot)
  /\ notified \in 0 .. Len(queue)
  /\ held \subseteq Slot
  /\ requested \subseteq Slot
  /\ rateLimited \subseteq Slot
  /\ adjusting \in BOOLEAN
  /\ increases \in Nat
  /\ decreases \in Nat
  /\ rateDecreases \in Nat

(***************************************************************************)
(* The hand-made counter equals the number of operations inside the block, *)
(* whatever the order of acquisitions, wake-ups, limit changes and nested  *)
(* releases: no slot leaks and none is given back twice, so the warning    *)
(* "Attempted to release when no tasks active" is never logged.            *)
(***************************************************************************)
CounterIsExact == active = Cardinality(held)

(***************************************************************************)
(* No lost wake-up: as long as an operation sleeps on the condition, the   *)
(* free slots are all spoken for by operations that are awake or woken.    *)
(* notify(1) per release and notify(new - old) per increase are enough,    *)
(* also when the limit was lowered below the number of running operations. *)
(***************************************************************************)
NoLostWakeup == Len(queue) > notified => active + notified >= limit

(***************************************************************************)
(* An operation waits in one place only, and never while it is inside.     *)
(***************************************************************************)
WaitersAreDistinct ==
  /\ \A i, j \in 1 .. Len(queue) : queue[i] = queue[j] => i = j
  /\ SeqElems(queue) \cap held = {}

(***************************************************************************)
(* The _adjusting flag admits one scheduled increase or decrease at a time *)
(* and is never left set with nothing scheduled, which would switch the    *)
(* adaptation off for good.                                                *)
(***************************************************************************)
OneAdjustment == increases + decreases = (IF adjusting THEN 1 ELSE 0)

(***************************************************************************)
(* However increases, decreases and rate-limit decreases interleave, the   *)
(* limit stays between the configured bounds (widened to the configured    *)
(* starting point, which nothing checks against them).                     *)
(***************************************************************************)
LimitInBounds ==
  /\ limit >= Lowest
  /\ limit <= Highest

(***************************************************************************)
(* However acquisitions, woken operations that are overtaken and moves of  *)
(* the limit interleave, no more operations are inside the block than the  *)
(* highest limit there can be: BAM sees at most that many requests.        *)
(***************************************************************************)
ConcurrencyIsBounded == Cardinality(held) <= Highest

(***************************************************************************)
(* Every operation that asks for a slot gets it in the end.                *)
(***************************************************************************)
EveryWaiterServed == \A s \in Slot : s \in SeqElems(queue) ~> s \in held

(***************************************************************************)
(* The throttle implements the slot pool: counter, condition variable,     *)
(* overtaking of woken operations and concurrent adjustments can be        *)
(* forgotten by the throttle's users.                                      *)
(***************************************************************************)
Pool == INSTANCE SlotPool WITH InitialLimit <- InitialConcurrency

ImplementsSlotPool == Pool!Spec
=============================================================================
