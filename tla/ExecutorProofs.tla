--------------------------- MODULE ExecutorProofs ---------------------------
(***************************************************************************)
(* Proofs about Executor for any plan, any deferred ids, any outcome of    *)
(* each call and any throttle configuration: the executor is a correct     *)
(* user of the throttle, so what AdaptiveThrottleProofs proves holds of it *)
(* here, and with it the executor's own safety properties.                 *)
(***************************************************************************)
EXTENDS Executor, PlanProofs, FiniteSetTheorems, SequenceTheorems

Proofs == INSTANCE AdaptiveThrottleProofs

-----------------------------------------------------------------------------
(***************************************************************************)
(* The inductive invariant                                                 *)
(***************************************************************************)
OperationTypes ==
  /\ start \in StartBatches
  /\ batch \in Nat
  /\ pc \in [Op -> Places]
  /\ attempt \in [Op -> 0 .. MaxRetries]
  /\ status \in [Op -> Statuses]
  /\ result \in [Op -> Results]
  /\ created \in [Key -> Id \cup {None}]
  /\ bound \in [Op -> SUBSET (Op \X Id)]
  /\ bam \in [Resource -> Id \cup {None}]

\* Every batch from the start to the current one is done, no other has begun.
BatchesInOrder ==
  /\ start <= batch
  /\ \A o \in Op :
       /\ BatchOf[o] < start \/ BatchOf[o] > batch => pc[o] = "ready"
       /\ start <= BatchOf[o] /\ BatchOf[o] < batch => pc[o] = "done"

\* A coroutine has a result when it is done, and runs only while its
\* operation is pending.
ResultsWhenDone ==
  \A o \in Op :
    /\ result[o] = "none" <=> pc[o] # "done"
    /\ Underway(o) => status[o] = "pending"

\* What hangs on a broken operation is broken: the cascade is complete at
\* every moment.
Broken == {"failed", "skipped"}
FailuresSpread ==
  \A o \in Op : status[o] \notin Broken => \A d \in Deps[o] : status[d] \notin Broken

\* The cascade reaches only what descends from a failure and has not begun.
SkipsDescend ==
  \A o \in Op : status[o] = "skipped" =>
    /\ \E a \in Ancestors[o] : status[a] = "failed"
    /\ pc[o] \in {"ready", "done"}

\* A create that succeeded left an id for those that wait for it.
CreatesAreStored ==
  \A o \in Op : status[o] = "succeeded" /\ Kind[o] = "create" => created[KeyOf[o]] # None

\* No request is out without a slot of its own: not while the attempt waits in
\* the queue, not after a retry, not with the slot of an outer block only.
Inside(o) == pc[o] \in {"calling", "lookup", "sleeping", "slept"}
CallsHoldSlots == \A o \in Op : Inside(o) => CurrentSlot(o) \in held

\* Who is queued waits for its current slot, who is inside holds it, and
\* only operations that are under way hold any.
SlotsMatchCoroutines ==
  /\ \A s \in Throttle!SeqElems(queue) : pc[s[1]] = "waiting" /\ s = CurrentSlot(s[1])
  /\ \A s \in held : Underway(s[1])
  /\ CallsHoldSlots

IInv ==
  /\ OperationTypes
  /\ Proofs!IInv
  /\ BatchesInOrder
  /\ ResultsWhenDone
  /\ ResultsMatchStatuses
  /\ FailuresSpread
  /\ SkipsDescend
  /\ CreatesAreStored
  /\ SlotsMatchCoroutines

-----------------------------------------------------------------------------
(***************************************************************************)
(* The executor as a user of the throttle                                  *)
(***************************************************************************)
\* The two instances of the throttle are the same, and count alike.
LEMMA SameCardinality ==
  ASSUME NEW S
  PROVE  Throttle!Cardinality(S) = Cardinality(S) /\ Proofs!Cardinality(S) = Cardinality(S)
BY DEF Throttle!Cardinality, Proofs!Cardinality, Cardinality

LEMMA SameThrottle ==
  /\ Throttle!Init <=> Proofs!Init
  /\ Throttle!Next <=> Proofs!Next
  /\ UNCHANGED Throttle!vars <=> UNCHANGED Proofs!vars
  /\ Throttle!TypeOK <=> Proofs!TypeOK
<1>1. /\ Throttle!Init <=> Proofs!Init
      /\ Throttle!TypeOK <=> Proofs!TypeOK
  BY DEF Throttle!Init, Proofs!Init, Throttle!TypeOK, Proofs!TypeOK
<1>2. UNCHANGED Throttle!vars <=> UNCHANGED Proofs!vars
  BY DEF Throttle!vars, Throttle!slotVars, Throttle!adjustVars,
         Proofs!vars, Proofs!slotVars, Proofs!adjustVars
<1>3. ASSUME NEW s \in Slot
      PROVE  (Throttle!Enter(s) \/ Throttle!RateLimit(s)) <=> (Proofs!Enter(s) \/ Proofs!RateLimit(s))
  BY DEF Throttle!Enter, Throttle!RateLimit, Throttle!Acquire, Throttle!HasRoom,
         Throttle!MaybeAdjust, Throttle!slotVars, Throttle!adjustVars,
         Proofs!Enter, Proofs!RateLimit, Proofs!Acquire, Proofs!HasRoom,
         Proofs!MaybeAdjust, Proofs!slotVars, Proofs!adjustVars
<1>4. ASSUME NEW S
      PROVE  Throttle!Complete(S) <=> Proofs!Complete(S)
  BY SameCardinality DEF Throttle!Complete, Throttle!Release, Throttle!MaybeAdjust, Throttle!NotifiedAfter,
         Throttle!MinOf, Throttle!adjustVars,
         Proofs!Complete, Proofs!Release, Proofs!MaybeAdjust, Proofs!NotifiedAfter,
         Proofs!MinOf, Proofs!adjustVars
<1>5. Throttle!WakeUp <=> Proofs!WakeUp
  BY DEF Throttle!WakeUp, Throttle!Resume, Throttle!HasRoom, Throttle!adjustVars,
         Proofs!WakeUp, Proofs!Resume, Proofs!HasRoom, Proofs!adjustVars
<1>6. /\ Throttle!Increase <=> Proofs!Increase
      /\ Throttle!Decrease <=> Proofs!Decrease
      /\ Throttle!RateDecrease <=> Proofs!RateDecrease
  BY DEF Throttle!Increase, Throttle!Decrease, Throttle!RateDecrease, Throttle!Raised,
         Throttle!Lower, Throttle!Lowered, Throttle!StepOf, Throttle!NotifiedAfter,
         Throttle!MinOf, Throttle!MaxOf, Throttle!slotVars, Throttle!adjustVars,
         Proofs!Increase, Proofs!Decrease, Proofs!RateDecrease, Proofs!Raised,
         Proofs!Lower, Proofs!Lowered, Proofs!StepOf, Proofs!NotifiedAfter,
         Proofs!MinOf, Proofs!MaxOf, Proofs!slotVars, Proofs!adjustVars
<1>7. Throttle!Next <=> Proofs!Next
  BY <1>3, <1>4, <1>5, <1>6 DEF Throttle!Next, Proofs!Next
<1> QED
  BY <1>1, <1>2, <1>7

LEMMA ThrottleConstants ==
  /\ InitialConcurrency \in Nat \ {0}
  /\ MinConcurrency \in Nat \ {0}
  /\ MaxConcurrency \in Nat \ {0}
  /\ FactorUnit \in Nat \ {0}
  /\ IncreaseFraction \in Nat
  /\ DecreaseFraction \in 0 .. FactorUnit
  /\ RateLimitFraction \in 0 .. FactorUnit
BY ThrottleAssumption

\* The throttle's inductive invariant, for the slots of this plan.
LEMMA ThrottleInitially == Throttle!Init => Proofs!IInv
BY SameThrottle, ThrottleConstants, Proofs!InitEstablishesIInv

LEMMA ThrottlePreserves ==
  ASSUME Proofs!IInv, [Throttle!Next]_(Throttle!vars)
  PROVE  Proofs!IInv'
BY SameThrottle, ThrottleConstants, Proofs!StepPreservesIInv

LEMMA ThrottleTypes ==
  ASSUME Proofs!IInv
  PROVE  /\ Throttle!TypeOK
         /\ active \in Nat /\ queue \in Seq(Slot) /\ notified \in 0 .. Len(queue)
         /\ held \subseteq Slot
BY SameThrottle DEF Proofs!IInv, Proofs!TypeOK

\* Leaving the blocks without a report: nothing, or a completion.
LEMMA LeavingIsCompleting ==
  ASSUME Proofs!IInv, NEW o, LeaveBlocks(o)
  PROVE  [Throttle!Next]_(Throttle!vars)
<1>1. /\ active \in Nat /\ queue \in Seq(Slot) /\ notified \in 0 .. Len(queue)
      /\ held \subseteq Slot
  BY ThrottleTypes
<1>2. /\ Throttle!Release(SlotsHeld(o))
      /\ UNCHANGED <<limit, rateLimited, adjusting, increases, decreases, rateDecreases>>
  BY DEF LeaveBlocks
<1>3. CASE SlotsHeld(o) # {}
  <2>1. Throttle!Complete(SlotsHeld(o)) /\ SlotsHeld(o) \in SUBSET held
    BY <1>2, <1>3 DEF Throttle!Complete, Throttle!MaybeAdjust, Throttle!adjustVars, SlotsHeld
  <2> QED
    BY <2>1 DEF Throttle!Next
<1>4. CASE SlotsHeld(o) = {}
  <2>1. Throttle!MinOf(Throttle!Cardinality({}), active) = 0
    BY <1>1, FS_EmptySet, SameCardinality DEF Throttle!MinOf
  <2>2. /\ held' = held \ {}
        /\ active' = active - 0
        /\ notified' = Throttle!NotifiedAfter(0)
        /\ UNCHANGED <<queue, requested>>
    BY <1>2, <1>4, <2>1 DEF Throttle!Release
  <2>3. Len(queue) \in Nat
    BY <1>1, LenProperties
  <2>4. Throttle!NotifiedAfter(0) = notified
    BY <1>1, <2>3 DEF Throttle!NotifiedAfter, Throttle!MinOf
  <2> QED
    BY <1>1, <1>2, <2>2, <2>4 DEF Throttle!vars, Throttle!slotVars, Throttle!adjustVars
<1> QED
  BY <1>3, <1>4

LEMMA ThrottleAtRest ==
  ASSUME UNCHANGED throttleVars
  PROVE  UNCHANGED Throttle!vars
BY DEF throttleVars, Throttle!vars, Throttle!slotVars, Throttle!adjustVars

\* Every step of the executor is one of the throttle, or leaves it alone.
LEMMA StepRefinesThrottle ==
  ASSUME Proofs!IInv, [Next]_vars
  PROVE  [Throttle!Next]_(Throttle!vars)
<1>1. held \subseteq Slot
  BY ThrottleTypes
<1>2. ASSUME NEW o \in Op, Begin(o) PROVE [Throttle!Next]_(Throttle!vars)
  <2>1. CASE ReturnSkipped(o) \/ RejectBadPayload(o) \/ RaiseUnresolved(o)
    <3>1. LeaveBlocks(o)
      BY <2>1 DEF ReturnSkipped, RejectBadPayload, RaiseUnresolved
    <3> QED
      BY <3>1, LeavingIsCompleting
  <2>2. CASE EnterThrottle(o)
    <3>1. \E k : Throttle!Enter(<<o, k>>)
      BY <2>2 DEF EnterThrottle
    <3>2. PICK k : Throttle!Enter(<<o, k>>)
      BY <3>1
    <3>3. <<o, k>> \in Slot
      BY <3>2 DEF Throttle!Enter, Throttle!Acquire
    <3> QED
      BY <3>2, <3>3 DEF Throttle!Next
  <2> QED
    BY <1>2, <2>1, <2>2 DEF Begin
<1>3. ASSUME NEW o \in Op, Answer(o) PROVE [Throttle!Next]_(Throttle!vars)
  <2>1. ASSUME Throttle!Complete(SlotsHeld(o)) PROVE Throttle!Next
    BY <2>1 DEF Throttle!Next, SlotsHeld
  <2>2. CASE CreateSucceeds(o) \/ LookupFinds(o) \/ UpdateSucceeds(o) \/ DeleteSucceeds(o)
             \/ PassBarrier(o)
    BY <2>1, <2>2 DEF CreateSucceeds, LookupFinds, UpdateSucceeds, DeleteSucceeds, PassBarrier,
                      Succeed
  <2>3. CASE LookupMisses(o) \/ CallFails(o)
    BY <2>1, <2>3 DEF LookupMisses, CallFails, Fail
  <2>4. CASE CreateConflicts(o)
    BY <2>4, ThrottleAtRest DEF CreateConflicts
  <2>5. CASE RateLimitHit(o)
    <3>1. Throttle!RateLimit(CurrentSlot(o))
      BY <2>5 DEF RateLimitHit
    <3>2. CurrentSlot(o) \in Slot
      BY <3>1, <1>1 DEF Throttle!RateLimit
    <3> QED
      BY <3>1, <3>2 DEF Throttle!Next
  <2> QED
    BY <1>3, <2>2, <2>3, <2>4, <2>5 DEF Answer
<1>4. ASSUME NEW o \in Op, WakeFromSleep(o) PROVE UNCHANGED Throttle!vars
  BY <1>4, ThrottleAtRest DEF WakeFromSleep
<1>5. WakeWaiter => Throttle!Next
  BY DEF WakeWaiter, Throttle!Next
<1>6. NextBatch => UNCHANGED Throttle!vars
  BY ThrottleAtRest DEF NextBatch
<1>7. Adjust => Throttle!Next
  BY DEF Adjust, Throttle!Next
<1>8. UNCHANGED vars => UNCHANGED Throttle!vars
  BY ThrottleAtRest DEF vars
<1> QED
  BY <1>2, <1>3, <1>4, <1>5, <1>6, <1>7, <1>8 DEF Next

-----------------------------------------------------------------------------
(***************************************************************************)
(* What may change about the operations in one step                        *)
(***************************************************************************)
\* o's coroutine, in the current batch, is suspended at another place.
Moves(o, place) ==
  /\ InBatch(o)
  /\ pc' = [pc EXCEPT ![o] = place]
  /\ UNCHANGED <<start, batch>>

LEMMA MovesKeepOrder ==
  ASSUME OperationTypes, BatchesInOrder, NEW o \in Op, NEW place, Moves(o, place)
  PROVE  BatchesInOrder'
<1>1. BatchOf \in [Op -> Nat] /\ start \in Nat /\ batch \in Nat /\ pc \in [Op -> Places]
  BY PlanAssumption, RunAssumption DEF OperationTypes
<1> QED
  BY <1>1 DEF BatchesInOrder, Moves, InBatch

\* Whoever is under way is in the current batch, and everything it depends
\* on, at any distance, is behind it.
LEMMA UnderwayIsInBatch ==
  ASSUME OperationTypes, BatchesInOrder, NEW o \in Op, pc[o] # "ready", pc[o] # "done"
  PROVE  InBatch(o)
<1>1. BatchOf[o] \in Nat /\ start \in Nat /\ batch \in Nat
  BY PlanAssumption, RunAssumption DEF OperationTypes
<1> QED
  BY <1>1 DEF BatchesInOrder, InBatch

LEMMA AncestorsAreDone ==
  ASSUME OperationTypes, BatchesInOrder, NEW o \in Op, InBatch(o), NEW a \in Ancestors[o]
  PROVE  a \in Op /\ (BatchOf[a] < start \/ pc[a] = "done")
<1>1. a \in Op /\ BatchOf[a] < BatchOf[o]
  BY AncestorsComeEarlier
<1>2. BatchOf[a] \in Nat /\ BatchOf[o] \in Nat /\ start \in Nat /\ batch \in Nat
  BY <1>1, PlanAssumption, RunAssumption DEF OperationTypes
<1> QED
  BY <1>1, <1>2 DEF BatchesInOrder, InBatch

\* What hangs on an operation of the current batch has not begun.
LEMMA DescendantsAreReady ==
  ASSUME OperationTypes, BatchesInOrder, NEW o \in Op, InBatch(o),
         NEW x \in Op, o \in Ancestors[x]
  PROVE  x # o /\ pc[x] = "ready"
<1>1. BatchOf[o] < BatchOf[x]
  BY AncestorsComeEarlier
<1>2. BatchOf[x] \in Nat /\ BatchOf[o] \in Nat /\ batch \in Nat
  BY PlanAssumption DEF OperationTypes
<1> QED
  BY <1>1, <1>2 DEF BatchesInOrder, InBatch

\* The failure of an ancestor breaks everything below it.
LEMMA AncestorsOfSoundAreSound ==
  ASSUME FailuresSpread, NEW o \in Op, status[o] \notin Broken, NEW a \in Ancestors[o]
  PROVE  status[a] \notin Broken
<1> DEFINE S == {x \in Op : status[x] \notin Broken}
<1>1. Deps[o] \subseteq S
  BY PlanAssumption DEF FailuresSpread
<1>2. Closed(S)
  BY PlanAssumption DEF Closed, FailuresSpread
<1>3. Ancestors[o] \subseteq S
  BY <1>1, <1>2, AncestorsInClosed
<1> QED
  BY <1>3

-----------------------------------------------------------------------------
(***************************************************************************)
(* What a step does to results and statuses                                *)
(***************************************************************************)
Outcomes == ResultsWhenDone /\ ResultsMatchStatuses /\ FailuresSpread /\ SkipsDescend

\* A parent that explains why o stays unresolved.
Missing(o, p) == p \notin Ancestors[o] \/ BatchOf[p] < start \/ result[p] = "raised"

LEMMA MovesKeepOutcomes ==
  ASSUME OperationTypes, Outcomes, NEW o \in Op, Moves(o, pc'[o]),
         pc[o] # "done", Underway(o)', status[o] = "pending", UNCHANGED <<status, result>>
  PROVE  Outcomes'
<1>1. \A x \in Op : x # o => pc'[x] = pc[x]
  BY DEF OperationTypes, Moves
<1>2. pc'[o] \notin {"ready", "done"}
  BY DEF Underway
<1>3. ResultsWhenDone'
  BY <1>1, <1>2 DEF Outcomes, ResultsWhenDone, Underway
<1>4. ResultsMatchStatuses'
  BY DEF Outcomes, ResultsMatchStatuses, Moves
<1>5. FailuresSpread' /\ SkipsDescend'
  BY <1>1 DEF Outcomes, FailuresSpread, SkipsDescend
<1> QED
  BY <1>3, <1>4, <1>5 DEF Outcomes

\* An operation ends as skipped, or with an unresolved id.
LEMMA EndingUnmarked ==
  ASSUME OperationTypes, Outcomes, NEW o \in Op, Moves(o, "done"), pc[o] # "done",
         NEW r, result' = [result EXCEPT ![o] = r], UNCHANGED status,
         \/ r = "skipped" /\ status[o] = "skipped"
         \/ r = "raised" /\ status[o] = "pending" /\ \E p \in DeferredOn[o] : Missing(o, p)
  PROVE  Outcomes'
<1>1. /\ \A x \in Op : x # o => pc'[x] = pc[x] /\ result'[x] = result[x]
      /\ pc'[o] = "done" /\ result'[o] = r
  BY DEF OperationTypes, Moves
<1>2. result[o] = "none"
  BY DEF Outcomes, ResultsWhenDone
<1>3. ResultsWhenDone'
  BY <1>1 DEF Outcomes, ResultsWhenDone, Underway
<1>4. \A x, p \in Op : Missing(x, p) => Missing(x, p)'
  BY <1>1, <1>2 DEF Missing, Moves
<1>5. \A x \in Op : DeferredOn[x] \subseteq Op
  BY PlanAssumption
<1>6. ASSUME NEW x \in Op, result'[x] = "raised"
      PROVE  status[x] = "pending" /\ \E p \in DeferredOn[x] : Missing(x, p)
  BY <1>1, <1>6 DEF Outcomes, ResultsMatchStatuses, Missing
<1>7. ResultsMatchStatuses'
  <2>1. ASSUME NEW x \in Op, result'[x] = "raised"
        PROVE  status'[x] = "pending" /\ \E p \in DeferredOn[x] : Missing(x, p)'
    BY <2>1, <1>4, <1>5, <1>6
  <2>2. ASSUME NEW x \in Op
        PROVE  /\ result'[x] \in {"ok", "exists"} <=> status'[x] = "succeeded"
               /\ result'[x] = "failed" <=> status'[x] = "failed"
               /\ result'[x] = "skipped" => status'[x] = "skipped"
    BY <1>1, <1>2 DEF Outcomes, ResultsMatchStatuses
  <2> QED
    BY <2>1, <2>2 DEF ResultsMatchStatuses, Missing
<1>8. FailuresSpread' /\ SkipsDescend'
  BY <1>1 DEF Outcomes, FailuresSpread, SkipsDescend
<1> QED
  BY <1>3, <1>7, <1>8 DEF Outcomes

\* Results that were there stay, and so do the reasons of those unresolved.
LEMMA EndingKeepsReasons ==
  ASSUME OperationTypes, Outcomes, NEW o \in Op, pc[o] # "done", UNCHANGED start,
         NEW r, r # "raised", result' = [result EXCEPT ![o] = r],
         NEW x \in Op, result'[x] = "raised"
  PROVE  /\ x # o /\ status[x] = "pending"
         /\ \E p \in DeferredOn[x] : Missing(x, p)'
<1>1. /\ \A y \in Op : y # o => result'[y] = result[y]
      /\ result'[o] = r /\ result[o] = "none"
  BY DEF OperationTypes, Outcomes, ResultsWhenDone
<1>2. x # o /\ result[x] = "raised"
  BY <1>1
<1>3. status[x] = "pending" /\ \E p \in DeferredOn[x] : Missing(x, p)
  BY <1>2 DEF Outcomes, ResultsMatchStatuses, Missing
<1>4. \A p \in DeferredOn[x] : Missing(x, p) => Missing(x, p)'
  BY <1>1, PlanAssumption DEF Missing
<1> QED
  BY <1>2, <1>3, <1>4

LEMMA EndingWell ==
  ASSUME OperationTypes, Outcomes, NEW o \in Op, Moves(o, "done"), pc[o] # "done",
         NEW r \in {"ok", "exists"}, result' = [result EXCEPT ![o] = r],
         status[o] = "pending", status' = [status EXCEPT ![o] = "succeeded"]
  PROVE  Outcomes'
<1>1. /\ \A x \in Op : x # o => /\ pc'[x] = pc[x] /\ result'[x] = result[x]
                                /\ status'[x] = status[x]
      /\ pc'[o] = "done" /\ result'[o] = r /\ status'[o] = "succeeded"
  BY DEF OperationTypes, Moves
<1>2. ResultsWhenDone'
  BY <1>1 DEF Outcomes, ResultsWhenDone, Underway
<1>3. ASSUME NEW x \in Op, result'[x] = "raised"
      PROVE  status'[x] = "pending" /\ \E p \in DeferredOn[x] : Missing(x, p)'
  <2>1. x # o /\ status[x] = "pending" /\ \E p \in DeferredOn[x] : Missing(x, p)'
    BY <1>3, EndingKeepsReasons DEF Moves
  <2> QED
    BY <1>1, <2>1
<1>4. ASSUME NEW x \in Op
      PROVE  /\ result'[x] \in {"ok", "exists"} <=> status'[x] = "succeeded"
             /\ result'[x] = "failed" <=> status'[x] = "failed"
             /\ result'[x] = "skipped" => status'[x] = "skipped"
  BY <1>1 DEF Outcomes, ResultsMatchStatuses
<1>5. ResultsMatchStatuses'
  BY <1>3, <1>4 DEF ResultsMatchStatuses, Missing
<1>6. \A x \in Op : Deps[x] \subseteq Op /\ Ancestors[x] \subseteq Op
  BY PlanAssumption, AncestorsType
<1>7. FailuresSpread'
  BY <1>1, <1>6 DEF Outcomes, FailuresSpread, Broken
<1>8. SkipsDescend'
  BY <1>1, <1>6 DEF Outcomes, SkipsDescend
<1> QED
  BY <1>2, <1>5, <1>7, <1>8 DEF Outcomes

\* _mark_operation_failed(): who fails, who is skipped, and who is neither.
LEMMA MarkFailedMarks ==
  ASSUME OperationTypes, NEW o \in Op, MarkFailed(o)
  PROVE  /\ status' \in [Op -> Statuses]
         /\ status'[o] = "failed"
         /\ \A x \in Op : x # o => \/ status'[x] = status[x]
                                   \/ /\ status'[x] = "skipped"
                                      /\ status[x] \notin Broken
                                      /\ o \in Ancestors[x]
         /\ \A x \in Op : status'[x] \notin Broken =>
              /\ status'[x] = status[x]
              /\ \A d \in Deps[x] : d # o /\ d \notin Cascade(o, Unsettled)
         /\ \A x \in Op : x # o /\ x \notin Cascade(o, Unsettled) => status'[x] = status[x]
<1> DEFINE C == Cascade(o, Unsettled)
<1>1. Unsettled \in SUBSET Op /\ \A x \in Op : x \in Unsettled <=> status[x] \notin Broken
  BY DEF Unsettled, Broken
<1>2. /\ C \subseteq Unsettled
      /\ \A x \in Unsettled : x \in C <=> \E d \in Deps[x] : d = o \/ d \in C
  BY <1>1, CascadeFixpoint
<1>3. o \notin C /\ \A x \in C : o \in Ancestors[x]
  BY <1>1, CascadeDescends, AncestorsComeEarlier, PlanAssumption
<1>4. status' = [x \in Op |-> CASE x = o -> "failed"
                                [] x \in C -> "skipped"
                                [] OTHER -> status[x]]
  BY DEF MarkFailed
<1> HIDE DEF C
<1>5. ASSUME NEW x \in Op
      PROVE  status'[x] = IF x = o THEN "failed" ELSE IF x \in C THEN "skipped" ELSE status[x]
  <2>1. status'[x] = CASE x = o -> "failed" [] x \in C -> "skipped" [] OTHER -> status[x]
    BY <1>4
  <2>2. CASE x = o
    BY <1>3, <2>1, <2>2
  <2>3. CASE x # o
    BY <2>1, <2>3
  <2> QED
    BY <2>2, <2>3
<1>6. status' \in [Op -> Statuses]
  BY <1>4, <1>5 DEF OperationTypes, Statuses
<1>7. ASSUME NEW x \in Op, status'[x] \notin Broken
      PROVE  status'[x] = status[x] /\ \A d \in Deps[x] : d # o /\ d \notin C
  <2>1. x # o /\ x \notin C /\ status'[x] = status[x]
    BY <1>5, <1>7 DEF Broken
  <2>2. x \in Unsettled
    BY <1>1, <1>7, <2>1
  <2> QED
    BY <1>2, <2>1, <2>2
<1>8. ASSUME NEW x \in Op, x # o, status'[x] # status[x]
      PROVE  status'[x] = "skipped" /\ status[x] \notin Broken /\ o \in Ancestors[x]
  BY <1>1, <1>2, <1>3, <1>5, <1>8
<1>9. status'[o] = "failed" /\ \A x \in Op : x # o /\ x \notin C => status'[x] = status[x]
  BY <1>5
<1> QED
  BY <1>6, <1>7, <1>8, <1>9 DEF C

LEMMA EndingBroken ==
  ASSUME OperationTypes, BatchesInOrder, Outcomes, NEW o \in Op, Moves(o, "done"),
         pc[o] # "done", result' = [result EXCEPT ![o] = "failed"],
         status[o] = "pending", MarkFailed(o)
  PROVE  Outcomes'
<1>1. /\ \A x \in Op : x # o => pc'[x] = pc[x] /\ result'[x] = result[x]
      /\ pc'[o] = "done" /\ result'[o] = "failed"
  BY DEF OperationTypes, Moves
<1>2. status'[o] = "failed"
  BY MarkFailedMarks
<1>3. ASSUME NEW x \in Op, x # o, status'[x] # status[x]
      PROVE  /\ status'[x] = "skipped" /\ status[x] \notin Broken /\ o \in Ancestors[x]
             /\ pc[x] = "ready" /\ result[x] = "none"
  <2>1. status'[x] = "skipped" /\ status[x] \notin Broken /\ o \in Ancestors[x]
    BY <1>3, MarkFailedMarks
  <2>2. pc[x] = "ready"
    BY <2>1, DescendantsAreReady DEF Moves
  <2> QED
    BY <2>1, <2>2 DEF Outcomes, ResultsWhenDone
<1>4. ResultsWhenDone'
  <2>1. ASSUME NEW x \in Op PROVE result'[x] = "none" <=> pc'[x] # "done"
    BY <1>1 DEF Outcomes, ResultsWhenDone
  <2>2. ASSUME NEW x \in Op, Underway(x)' PROVE status'[x] = "pending"
    <3>1. x # o /\ Underway(x) /\ pc[x] # "ready"
      BY <1>1, <2>2 DEF Underway
    <3> QED
      BY <1>3, <3>1 DEF Outcomes, ResultsWhenDone
  <2> QED
    BY <2>1, <2>2 DEF ResultsWhenDone
<1>5. ASSUME NEW x \in Op, result'[x] = "raised"
      PROVE  status'[x] = "pending" /\ \E p \in DeferredOn[x] : Missing(x, p)'
  <2>1. /\ x # o /\ status[x] = "pending"
        /\ \E p \in DeferredOn[x] : Missing(x, p)'
    BY <1>5, EndingKeepsReasons DEF Moves
  <2>2. result[x] # "none"
    BY <1>1, <1>5, <2>1
  <2> QED
    BY <1>3, <2>1, <2>2
<1>6. ASSUME NEW x \in Op
      PROVE  /\ result'[x] \in {"ok", "exists"} <=> status'[x] = "succeeded"
             /\ result'[x] = "failed" <=> status'[x] = "failed"
             /\ result'[x] = "skipped" => status'[x] = "skipped"
  <2>1. CASE x = o
    BY <2>1, <1>1, <1>2
  <2>2. CASE x # o /\ status'[x] = status[x]
    BY <2>2, <1>1 DEF Outcomes, ResultsMatchStatuses
  <2>3. CASE x # o /\ status'[x] # status[x]
    BY <2>3, <1>1, <1>3
  <2> QED
    BY <2>1, <2>2, <2>3
<1>7. ResultsMatchStatuses'
  BY <1>5, <1>6 DEF ResultsMatchStatuses, Missing
<1>8. FailuresSpread'
  <2>1. ASSUME NEW x \in Op, status'[x] \notin Broken, NEW d \in Deps[x]
        PROVE  status'[d] \notin Broken
    <3>1. d \in Op
      BY PlanAssumption
    <3>2. /\ status[x] \notin Broken
          /\ d # o /\ d \notin Cascade(o, Unsettled)
      BY <2>1, MarkFailedMarks
    <3>3. status'[d] = status[d]
      BY <3>1, <3>2, MarkFailedMarks
    <3> QED
      BY <3>2, <3>3 DEF Outcomes, FailuresSpread
  <2> QED
    BY <2>1 DEF FailuresSpread, Broken
<1>9. SkipsDescend'
  <2>1. ASSUME NEW x \in Op, status'[x] = "skipped"
        PROVE  /\ \E a \in Ancestors[x] : status'[a] = "failed"
               /\ pc'[x] \in {"ready", "done"}
    <3>1. CASE status'[x] # status[x]
      BY <1>1, <1>2, <1>3, <2>1, <3>1
    <3>2. CASE status'[x] = status[x]
      <4>1. x # o /\ status[x] = "skipped"
        BY <1>2, <2>1, <3>2
      <4>2. PICK a \in Ancestors[x] : status[a] = "failed"
        BY <4>1 DEF Outcomes, SkipsDescend
      <4>3. a \in Op /\ status'[a] = "failed"
        BY <4>2, <1>2, <1>3, AncestorsType DEF Broken
      <4> QED
        BY <4>1, <4>3, <1>1 DEF Outcomes, SkipsDescend
    <3> QED
      BY <3>1, <3>2
  <2> QED
    BY <2>1 DEF SkipsDescend
<1> QED
  BY <1>4, <1>7, <1>8, <1>9 DEF Outcomes

-----------------------------------------------------------------------------
(***************************************************************************)
(* What a step does to the slots                                           *)
(***************************************************************************)
LEMMA QueueFacts ==
  ASSUME Proofs!IInv
  PROVE  /\ queue \in Seq(Slot) /\ Proofs!Distinct(queue) /\ held \subseteq Slot
         /\ Throttle!SeqElems(queue) \subseteq Slot
         /\ \A q : Throttle!SeqElems(q) = Proofs!SeqElems(q)
<1>1. queue \in Seq(Slot) /\ held \subseteq Slot
  BY ThrottleTypes
<1>2. Proofs!Distinct(queue)
  BY DEF Proofs!IInv, Proofs!WaitersAreDistinct, Proofs!Distinct
<1>3. \A q : Throttle!SeqElems(q) = Proofs!SeqElems(q)
  BY DEF Throttle!SeqElems, Proofs!SeqElems
<1>4. \A i \in 1 .. Len(queue) : queue[i] \in Slot
  BY <1>1, ElementOfSeq
<1>5. Throttle!SeqElems(queue) \subseteq Slot
  BY <1>4 DEF Throttle!SeqElems
<1> QED
  BY <1>1, <1>2, <1>3, <1>5

LEMMA EnteringMatches ==
  ASSUME OperationTypes, Proofs!IInv, SlotsMatchCoroutines, NEW o \in Op,
         pc[o] \in {"ready", "slept"}, NEW k, attempt' = [attempt EXCEPT ![o] = k],
         Throttle!Enter(<<o, k>>),
         pc' = [pc EXCEPT ![o] = IF Throttle!HasRoom THEN "calling" ELSE "waiting"]
  PROVE  SlotsMatchCoroutines'
<1>1. /\ queue \in Seq(Slot) /\ Proofs!Distinct(queue) /\ held \subseteq Slot
      /\ Throttle!SeqElems(queue) \subseteq Slot
      /\ \A q : Throttle!SeqElems(q) = Proofs!SeqElems(q)
  BY QueueFacts
<1>2. /\ \A x \in Op : x # o => pc'[x] = pc[x] /\ attempt'[x] = attempt[x]
      /\ attempt'[o] = k
      /\ pc'[o] = IF Throttle!HasRoom THEN "calling" ELSE "waiting"
  BY DEF OperationTypes
<1>3. /\ <<o, k>> \in Slot
      /\ IF Throttle!HasRoom
           THEN held' = held \cup {<<o, k>>} /\ queue' = queue
           ELSE held' = held /\ queue' = Append(queue, <<o, k>>)
  BY DEF Throttle!Enter, Throttle!Acquire
<1>4. \A s \in Throttle!SeqElems(queue) :
        s[1] \in Op /\ s[1] # o /\ pc'[s[1]] = "waiting" /\ s = <<s[1], attempt'[s[1]]>>
  BY <1>1, <1>2 DEF SlotsMatchCoroutines, CallsHoldSlots, CurrentSlot, Slot
<1>5. \A s \in held : s[1] \in Op /\ Underway(s[1])'
  <2>1. \A s \in held : s[1] \in Op /\ Underway(s[1])
    BY <1>1 DEF SlotsMatchCoroutines, CallsHoldSlots, Slot
  <2> QED
    BY <1>2, <2>1 DEF Underway
<1>6. CASE Throttle!HasRoom
  <2>1. \A s \in held' : Underway(s[1])'
    BY <1>2, <1>3, <1>5, <1>6 DEF Underway
  <2>2. \A x \in Op : Inside(x)' => CurrentSlot(x)' \in held'
    BY <1>2, <1>3, <1>6 DEF SlotsMatchCoroutines, CallsHoldSlots, Inside, CurrentSlot
  <2> QED
    BY <1>3, <1>4, <1>6, <2>1, <2>2 DEF SlotsMatchCoroutines, CallsHoldSlots, CurrentSlot
<1>7. CASE ~Throttle!HasRoom
  <2>1. <<o, k>> \notin Throttle!SeqElems(queue)
    BY <1>4
  <2>2. Throttle!SeqElems(queue') = Throttle!SeqElems(queue) \cup {<<o, k>>}
    BY <1>1, <1>3, <1>7, <2>1, ThrottleConstants, Proofs!AppendWaiter
  <2>3. \A s \in Throttle!SeqElems(queue') :
          pc'[s[1]] = "waiting" /\ s = <<s[1], attempt'[s[1]]>>
    BY <1>2, <1>4, <1>7, <2>2
  <2>4. \A x \in Op : Inside(x)' => CurrentSlot(x)' \in held'
    BY <1>2, <1>3, <1>7 DEF SlotsMatchCoroutines, CallsHoldSlots, Inside, CurrentSlot
  <2> QED
    BY <1>3, <1>5, <1>7, <2>3, <2>4 DEF SlotsMatchCoroutines, CallsHoldSlots, CurrentSlot
<1> QED
  BY <1>6, <1>7

\* The head of the queue is a waiting operation's current slot.
LEMMA HeadWaits ==
  ASSUME OperationTypes, Proofs!IInv, SlotsMatchCoroutines, notified > 0
  PROVE  /\ Head(queue)[1] \in Op
         /\ pc[Head(queue)[1]] = "waiting"
         /\ Head(queue) = CurrentSlot(Head(queue)[1])
         /\ Head(queue) \notin Throttle!SeqElems(Tail(queue))
         /\ Throttle!SeqElems(queue) = Throttle!SeqElems(Tail(queue)) \cup {Head(queue)}
         /\ Tail(queue) \in Seq(Slot) /\ Head(queue) \in Slot
         /\ Proofs!Distinct(Tail(queue))
<1>1. /\ queue \in Seq(Slot) /\ Proofs!Distinct(queue)
      /\ \A q : Throttle!SeqElems(q) = Proofs!SeqElems(q)
  BY QueueFacts
<1>2. notified \in 0 .. Len(queue) /\ Len(queue) \in Nat
  BY <1>1, ThrottleTypes, LenProperties
<1>3. queue # << >>
  BY <1>1, <1>2, EmptySeq
<1>4. /\ Head(queue) \in Slot /\ Tail(queue) \in Seq(Slot) /\ Proofs!Distinct(Tail(queue))
      /\ Head(queue) \notin Throttle!SeqElems(Tail(queue))
      /\ Throttle!SeqElems(queue) = Throttle!SeqElems(Tail(queue)) \cup {Head(queue)}
  BY <1>1, <1>3, ThrottleConstants, Proofs!TailOfWaiters
<1>5. Head(queue)[1] \in Op
  BY <1>4 DEF Slot
<1> QED
  BY <1>4, <1>5 DEF SlotsMatchCoroutines, CallsHoldSlots

LEMMA WakingMatches ==
  ASSUME OperationTypes, Proofs!IInv, SlotsMatchCoroutines, WakeWaiter
  PROVE  SlotsMatchCoroutines'
<1> DEFINE h == Head(queue)
           w == h[1]
<1>1. /\ notified > 0 /\ attempt' = attempt
      /\ pc' = IF Throttle!HasRoom THEN [pc EXCEPT ![w] = "calling"] ELSE pc
      /\ IF Throttle!HasRoom
           THEN held' = held \cup {h} /\ queue' = Tail(queue)
           ELSE held' = held /\ queue' = Append(Tail(queue), h)
  BY DEF WakeWaiter, Throttle!WakeUp, Throttle!Resume
<1>2. /\ w \in Op /\ pc[w] = "waiting" /\ h = CurrentSlot(w)
      /\ h \notin Throttle!SeqElems(Tail(queue))
      /\ Throttle!SeqElems(queue) = Throttle!SeqElems(Tail(queue)) \cup {h}
      /\ Tail(queue) \in Seq(Slot) /\ h \in Slot /\ Proofs!Distinct(Tail(queue))
  BY <1>1, HeadWaits
<1>3. /\ Throttle!SeqElems(queue) \subseteq Slot /\ held \subseteq Slot
      /\ \A q : Throttle!SeqElems(q) = Proofs!SeqElems(q)
  BY QueueFacts
<1> HIDE DEF h
<1>4. CASE Throttle!HasRoom
  <2>1. /\ \A x \in Op : x # w => pc'[x] = pc[x]
        /\ pc'[w] = "calling"
        /\ held' = held \cup {h} /\ queue' = Tail(queue)
    BY <1>1, <1>2, <1>4 DEF OperationTypes
  <2>2. ASSUME NEW s \in Throttle!SeqElems(Tail(queue))
        PROVE  pc'[s[1]] = "waiting" /\ s = CurrentSlot(s[1])
    <3>1. s \in Throttle!SeqElems(queue) /\ s # h
      BY <1>2
    <3>2. s[1] \in Op /\ pc[s[1]] = "waiting" /\ s = CurrentSlot(s[1])
      BY <3>1, <1>3 DEF SlotsMatchCoroutines, CallsHoldSlots, Slot
    <3>3. s[1] # w
      BY <3>1, <3>2, <1>2
    <3> QED
      BY <2>1, <3>2, <3>3
  <2>3. ASSUME NEW s \in held' PROVE Underway(s[1])'
    <3>1. CASE s = h
      BY <2>1, <3>1 DEF Underway
    <3>2. CASE s \in held
      <4>1. s[1] \in Op /\ Underway(s[1])
        BY <1>3, <3>2 DEF SlotsMatchCoroutines, CallsHoldSlots, Slot
      <4> QED
        BY <2>1, <4>1 DEF Underway
    <3> QED
      BY <2>1, <2>3, <3>1, <3>2
  <2>4. \A x \in Op : Inside(x)' => CurrentSlot(x) \in held'
    BY <1>2, <2>1 DEF SlotsMatchCoroutines, CallsHoldSlots, Inside
  <2> QED
    BY <1>1, <2>1, <2>2, <2>3, <2>4 DEF SlotsMatchCoroutines, CallsHoldSlots, CurrentSlot
<1>5. CASE ~Throttle!HasRoom
  <2>1. pc' = pc /\ held' = held /\ queue' = Append(Tail(queue), h)
    BY <1>1, <1>5
  <2>2. Throttle!SeqElems(queue') = Throttle!SeqElems(queue)
    BY <1>2, <1>3, <2>1, ThrottleConstants, Proofs!AppendWaiter
  <2> QED
    BY <1>1, <2>1, <2>2 DEF SlotsMatchCoroutines, CallsHoldSlots, CurrentSlot, Underway, Inside
<1> QED
  BY <1>4, <1>5

\* A coroutine that ends has left all its blocks.
LEMMA LeavingMatches ==
  ASSUME OperationTypes, Proofs!IInv, SlotsMatchCoroutines, NEW o \in Op, pc[o] # "waiting",
         pc' = [pc EXCEPT ![o] = "done"], UNCHANGED <<attempt, queue>>,
         held' = held \ SlotsHeld(o)
  PROVE  SlotsMatchCoroutines'
<1>1. /\ \A x \in Op : x # o => pc'[x] = pc[x]
      /\ pc'[o] = "done"
  BY DEF OperationTypes
<1>2. Throttle!SeqElems(queue) \subseteq Slot /\ held \subseteq Slot
  BY QueueFacts
<1>3. \A s \in Throttle!SeqElems(queue) : pc'[s[1]] = "waiting" /\ s = CurrentSlot(s[1])
  BY <1>1, <1>2 DEF SlotsMatchCoroutines, CallsHoldSlots, Slot
<1>4. \A s \in held' : Underway(s[1])'
  BY <1>1, <1>2 DEF SlotsMatchCoroutines, CallsHoldSlots, SlotsHeld, Underway, Slot
<1>5. \A x \in Op : Inside(x)' => CurrentSlot(x) \in held'
  BY <1>1 DEF SlotsMatchCoroutines, CallsHoldSlots, Inside, SlotsHeld, CurrentSlot
<1> QED
  BY <1>3, <1>4, <1>5 DEF SlotsMatchCoroutines, CallsHoldSlots, CurrentSlot, Throttle!SeqElems

\* A coroutine that stays inside its blocks keeps its slots.
LEMMA StayingMatches ==
  ASSUME OperationTypes, Proofs!IInv, SlotsMatchCoroutines, NEW o \in Op, Inside(o),
         NEW place \in {"calling", "lookup", "sleeping", "slept"},
         pc' = [pc EXCEPT ![o] = place], UNCHANGED <<attempt, queue, held>>
  PROVE  SlotsMatchCoroutines'
<1>1. /\ \A x \in Op : x # o => pc'[x] = pc[x]
      /\ pc'[o] = place
  BY DEF OperationTypes
<1>2. Throttle!SeqElems(queue) \subseteq Slot /\ held \subseteq Slot
  BY QueueFacts
<1>3. \A s \in Throttle!SeqElems(queue) : pc'[s[1]] = "waiting" /\ s = CurrentSlot(s[1])
  BY <1>1, <1>2 DEF SlotsMatchCoroutines, CallsHoldSlots, Slot, Inside
<1>4. \A s \in held : Underway(s[1])'
  BY <1>1, <1>2 DEF SlotsMatchCoroutines, CallsHoldSlots, Underway, Slot
<1>5. \A x \in Op : Inside(x)' => CurrentSlot(x) \in held
  BY <1>1 DEF SlotsMatchCoroutines, CallsHoldSlots, Inside
<1> QED
  BY <1>3, <1>4, <1>5 DEF SlotsMatchCoroutines, CallsHoldSlots, CurrentSlot, Throttle!SeqElems

LEMMA RestingMatches ==
  ASSUME SlotsMatchCoroutines, UNCHANGED <<pc, attempt, queue, held>>
  PROVE  SlotsMatchCoroutines'
BY DEF SlotsMatchCoroutines, CallsHoldSlots, CurrentSlot, Underway, Inside, Throttle!SeqElems

-----------------------------------------------------------------------------
(***************************************************************************)
(* The steps, by the way they end an operation or do not                   *)
(***************************************************************************)
\* The part of the invariant that is not the throttle's.
OwnInv ==
  /\ OperationTypes
  /\ BatchesInOrder
  /\ Outcomes
  /\ CreatesAreStored
  /\ SlotsMatchCoroutines

LEMMA IInvIsOwnAndThrottle == IInv <=> OwnInv /\ Proofs!IInv
BY DEF IInv, OwnInv, Outcomes

\* An operation may begin only while it is pending and in the current batch;
\* one that is under way is both.
LEMMA BeginningIsPending ==
  ASSUME OwnInv, NEW o \in Op, Entering(o), status[o] # "skipped"
  PROVE  InBatch(o) /\ status[o] = "pending" /\ pc[o] \in {"ready", "slept"}
<1>1. InBatch(o) /\ pc[o] \in {"ready", "slept"}
  BY DEF Entering
<1>2. result[o] = "none"
  BY <1>1 DEF OwnInv, Outcomes, ResultsWhenDone
<1>3. status[o] \in Statuses
  BY DEF OwnInv, OperationTypes
<1> QED
  BY <1>1, <1>2, <1>3 DEF OwnInv, Outcomes, ResultsMatchStatuses, Statuses

LEMMA InsideIsPending ==
  ASSUME OwnInv, NEW o \in Op, Inside(o)
  PROVE  InBatch(o) /\ status[o] = "pending"
<1>1. Underway(o) /\ pc[o] # "ready" /\ pc[o] # "done"
  BY DEF Inside, Underway
<1> QED
  BY <1>1, UnderwayIsInBatch DEF OwnInv, Outcomes, ResultsWhenDone

\* Ids that are stored stay stored.
LEMMA StoredStays ==
  ASSUME OwnInv, NEW o \in Op,
         \A x \in Op : x # o => (status'[x] = "succeeded" => status[x] = "succeeded"),
         status'[o] = "succeeded" /\ Kind[o] = "create" => created'[KeyOf[o]] # None,
         \A k \in Key : created[k] # None => created'[k] # None
  PROVE  CreatesAreStored'
BY RunAssumption DEF OwnInv, CreatesAreStored

LEMMA BrokenStep ==
  ASSUME OwnInv, Proofs!IInv, NEW o \in Op, InBatch(o), status[o] = "pending",
         pc[o] # "done", pc[o] # "waiting", Finish(o, "failed"), MarkFailed(o),
         Throttle!Release(SlotsHeld(o)), UNCHANGED <<start, batch, attempt, bound, created>>,
         bam' \in [Resource -> Id \cup {None}]
  PROVE  OwnInv'
<1>1. Moves(o, "done") /\ result' = [result EXCEPT ![o] = "failed"]
  BY DEF Moves, Finish
<1>2. OperationTypes'
  BY <1>1, MarkFailedMarks DEF OwnInv, OperationTypes, Moves, Places, Results
<1>3. BatchesInOrder'
  BY <1>1, MovesKeepOrder DEF OwnInv
<1>4. Outcomes'
  BY <1>1, EndingBroken DEF OwnInv
<1>5. CreatesAreStored'
  <2>1. \A x \in Op : x # o => (status'[x] = "succeeded" => status[x] = "succeeded")
    BY MarkFailedMarks DEF OwnInv
  <2>2. status'[o] = "failed"
    BY MarkFailedMarks DEF OwnInv
  <2> QED
    BY <2>1, <2>2, StoredStays
<1>6. SlotsMatchCoroutines'
  BY <1>1, LeavingMatches DEF OwnInv, Moves, Throttle!Release
<1> QED
  BY <1>2, <1>3, <1>4, <1>5, <1>6 DEF OwnInv

LEMMA UnmarkedStep ==
  ASSUME OwnInv, Proofs!IInv, NEW o \in Op, InBatch(o), pc[o] # "done", pc[o] # "waiting",
         NEW r, Finish(o, r),
         \/ r = "skipped" /\ status[o] = "skipped"
         \/ r = "raised" /\ status[o] = "pending" /\ \E p \in DeferredOn[o] : Missing(o, p),
         Throttle!Release(SlotsHeld(o)),
         UNCHANGED <<start, batch, attempt, status, created, bound, bam>>
  PROVE  OwnInv'
<1>1. Moves(o, "done") /\ result' = [result EXCEPT ![o] = r]
  BY DEF Moves, Finish
<1>2. OperationTypes'
  BY <1>1 DEF OwnInv, OperationTypes, Moves, Places, Results
<1>3. BatchesInOrder'
  BY <1>1, MovesKeepOrder DEF OwnInv
<1>4. Outcomes'
  BY <1>1, EndingUnmarked DEF OwnInv
<1>5. CreatesAreStored'
  BY DEF OwnInv, CreatesAreStored
<1>6. SlotsMatchCoroutines'
  BY <1>1, LeavingMatches DEF OwnInv, Moves, Throttle!Release
<1> QED
  BY <1>2, <1>3, <1>4, <1>5, <1>6 DEF OwnInv

LEMMA SucceedStep ==
  ASSUME OwnInv, Proofs!IInv, NEW o \in Op, Inside(o), NEW r \in {"ok", "exists"},
         Succeed(o, r), bam' \in [Resource -> Id \cup {None}],
         \/ UNCHANGED created /\ Kind[o] # "create"
         \/ \E id \in Id : StoreCreated(o, id)
  PROVE  OwnInv'
<1>1. InBatch(o) /\ status[o] = "pending" /\ pc[o] # "done" /\ pc[o] # "waiting"
  BY InsideIsPending DEF Inside
<1>2. /\ Moves(o, "done") /\ result' = [result EXCEPT ![o] = r]
      /\ status' = [status EXCEPT ![o] = "succeeded"]
      /\ UNCHANGED <<attempt, bound>>
  BY <1>1 DEF Moves, Finish, Succeed
<1>3. /\ created' \in [Key -> Id \cup {None}]
      /\ \A k \in Key : created[k] # None => created'[k] # None
      /\ Kind[o] = "create" => created'[KeyOf[o]] # None
  <2>1. created \in [Key -> Id \cup {None}] /\ KeyOf[o] \in Key /\ None \notin Id
    BY RunAssumption DEF OwnInv, OperationTypes
  <2>2. CASE UNCHANGED created /\ Kind[o] # "create"
    BY <2>1, <2>2
  <2>3. ASSUME NEW id \in Id, created' = [created EXCEPT ![KeyOf[o]] = id]
        PROVE  /\ created' \in [Key -> Id \cup {None}]
               /\ \A k \in Key : created[k] # None => created'[k] # None
               /\ created'[KeyOf[o]] # None
    BY <2>1, <2>3
  <2> QED
    BY <2>2, <2>3 DEF StoreCreated
<1>4. OperationTypes'
  BY <1>2, <1>3 DEF OwnInv, OperationTypes, Moves, Places, Results, Statuses
<1>5. BatchesInOrder'
  BY <1>2, MovesKeepOrder DEF OwnInv
<1>6. Outcomes'
  BY <1>1, <1>2, EndingWell DEF OwnInv
<1>7. CreatesAreStored'
  <2>1. \A x \in Op : x # o => status'[x] = status[x]
    BY <1>2 DEF OwnInv, OperationTypes
  <2> QED
    BY <1>3, <2>1, StoredStays
<1>8. SlotsMatchCoroutines'
  BY <1>1, <1>2, LeavingMatches DEF OwnInv, Moves, Succeed, Throttle!Complete, Throttle!Release
<1> QED
  BY <1>4, <1>5, <1>6, <1>7, <1>8 DEF OwnInv

\* A step after which o is under way, or still is, with the same status.
LEMMA UnderwayStep ==
  ASSUME OwnInv, NEW o \in Op, InBatch(o), status[o] = "pending", pc[o] # "done",
         NEW place \in {"waiting", "calling", "lookup", "sleeping", "slept"},
         pc' = [pc EXCEPT ![o] = place],
         UNCHANGED <<start, batch, status, result, created, bam>>,
         attempt' \in [Op -> 0 .. MaxRetries], bound' \in [Op -> SUBSET (Op \X Id)],
         SlotsMatchCoroutines'
  PROVE  OwnInv'
<1>1. pc \in [Op -> Places] /\ pc'[o] = place /\ Underway(o)'
  BY DEF OwnInv, OperationTypes, Underway
<1>2. Moves(o, place) /\ Moves(o, pc'[o])
  BY <1>1 DEF Moves
<1>3. OperationTypes'
  BY <1>1 DEF OwnInv, OperationTypes, Places
<1>4. BatchesInOrder'
  BY <1>2, MovesKeepOrder DEF OwnInv
<1>5. Outcomes'
  BY <1>1, <1>2, MovesKeepOutcomes DEF OwnInv
<1>6. CreatesAreStored'
  BY DEF OwnInv, CreatesAreStored
<1> QED
  BY <1>3, <1>4, <1>5, <1>6 DEF OwnInv

\* An id that is not there when it is needed belongs to a parent that is no
\* ancestor, was left to an earlier run, or stayed unresolved itself.
LEMMA UnresolvedIsMissing ==
  ASSUME OwnInv, NEW o \in Op, InBatch(o), status[o] = "pending", ~Resolvable(o)
  PROVE  \E p \in DeferredOn[o] : Missing(o, p)
<1>1. PICK p \in DeferredOn[o] : created[KeyOf[p]] = None
  BY DEF Resolvable, DeferredKeys
<1>2. p \in Op /\ Kind[p] = "create"
  BY PlanAssumption
<1>3. ASSUME p \in Ancestors[o], ~(BatchOf[p] < start), result[p] # "raised" PROVE FALSE
  <2>1. pc[p] = "done"
    BY <1>3, AncestorsAreDone DEF OwnInv
  <2>2. status[p] \notin Broken
    BY <1>3, AncestorsOfSoundAreSound DEF OwnInv, Outcomes, Broken
  <2>3. result[p] \in Results /\ result[p] # "none"
    BY <1>2, <2>1 DEF OwnInv, OperationTypes, Outcomes, ResultsWhenDone
  <2>4. status[p] = "succeeded"
    BY <1>2, <1>3, <2>2, <2>3 DEF OwnInv, Outcomes, ResultsMatchStatuses, Results, Broken
  <2> QED
    BY <1>1, <1>2, <2>4 DEF OwnInv, CreatesAreStored
<1> QED
  BY <1>3 DEF Missing

LEMMA BeginStep ==
  ASSUME OwnInv, Proofs!IInv, NEW o \in Op, Begin(o)
  PROVE  OwnInv'
<1>1. CASE ReturnSkipped(o)
  <2>1. InBatch(o) /\ pc[o] # "done" /\ pc[o] # "waiting"
    BY <1>1 DEF ReturnSkipped, Entering
  <2> QED
    BY <1>1, <2>1, UnmarkedStep DEF ReturnSkipped, LeaveBlocks
<1>2. CASE RejectBadPayload(o)
  <2>1. InBatch(o) /\ status[o] = "pending" /\ pc[o] # "done" /\ pc[o] # "waiting"
    BY <1>2, BeginningIsPending DEF RejectBadPayload
  <2>2. bam' \in [Resource -> Id \cup {None}]
    BY <1>2 DEF RejectBadPayload, OwnInv, OperationTypes
  <2> QED
    BY <1>2, <2>1, <2>2, BrokenStep DEF RejectBadPayload, LeaveBlocks
<1>3. CASE RaiseUnresolved(o)
  <2>1. InBatch(o) /\ status[o] = "pending" /\ pc[o] # "done" /\ pc[o] # "waiting"
    BY <1>3, BeginningIsPending DEF RaiseUnresolved, Runnable
  <2>2. \E p \in DeferredOn[o] : Missing(o, p)
    BY <1>3, <2>1, UnresolvedIsMissing DEF RaiseUnresolved
  <2> QED
    BY <1>3, <2>1, <2>2, UnmarkedStep DEF RaiseUnresolved, LeaveBlocks
<1>4. CASE EnterThrottle(o)
  <2>1. InBatch(o) /\ status[o] = "pending" /\ pc[o] \in {"ready", "slept"}
    BY <1>4, BeginningIsPending DEF EnterThrottle, Runnable
  <2>2. /\ Resolvable(o) /\ ResolveDeferred(o)
        /\ UNCHANGED <<start, batch, status, result, created, bam>>
        /\ pc' = [pc EXCEPT ![o] = IF Throttle!HasRoom THEN "calling" ELSE "waiting"]
        /\ \E k : attempt' = [attempt EXCEPT ![o] = k] /\ Throttle!Enter(<<o, k>>)
    BY <1>4 DEF EnterThrottle
  <2>3. PICK k : attempt' = [attempt EXCEPT ![o] = k] /\ Throttle!Enter(<<o, k>>)
    BY <2>2
  <2>4. k \in 0 .. MaxRetries
    BY <2>3 DEF Throttle!Enter, Throttle!Acquire, Slot
  <2>5. attempt' \in [Op -> 0 .. MaxRetries]
    BY <2>3, <2>4 DEF OwnInv, OperationTypes
  <2>6. {<<p, created[KeyOf[p]]>> : p \in DeferredOn[o]} \in SUBSET (Op \X Id)
    <3>1. ASSUME NEW p \in DeferredOn[o] PROVE p \in Op /\ created[KeyOf[p]] \in Id
      <4>1. p \in Op /\ KeyOf[p] \in Key /\ created[KeyOf[p]] # None
        BY <2>2, PlanAssumption, RunAssumption DEF Resolvable, DeferredKeys
      <4> QED
        BY <4>1 DEF OwnInv, OperationTypes
    <3> QED
      BY <3>1
  <2>7. bound' \in [Op -> SUBSET (Op \X Id)]
    BY <2>2, <2>6 DEF ResolveDeferred, OwnInv, OperationTypes
  <2>8. SlotsMatchCoroutines'
    BY <2>1, <2>2, <2>3, EnteringMatches DEF OwnInv
  <2>9. PICK place \in {"waiting", "calling"} : pc' = [pc EXCEPT ![o] = place]
    BY <2>2
  <2> QED
    BY <2>1, <2>2, <2>5, <2>7, <2>8, <2>9, UnderwayStep
<1> QED
  BY <1>1, <1>2, <1>3, <1>4 DEF Begin

LEMMA AnswerStep ==
  ASSUME OwnInv, Proofs!IInv, NEW o \in Op, Answer(o)
  PROVE  OwnInv'
<1>1. Inside(o)
  BY DEF Answer, CreateSucceeds, CreateConflicts, LookupFinds, LookupMisses, UpdateSucceeds,
         DeleteSucceeds, PassBarrier, CallFails, RateLimitHit, Calling, Inside
<1>2. InBatch(o) /\ status[o] = "pending" /\ pc[o] # "done" /\ pc[o] # "waiting"
  BY <1>1, InsideIsPending DEF Inside
<1>3. /\ bam \in [Resource -> Id \cup {None}] /\ Target[o] \in Resource
      /\ <<Target[o], o>> \in Id
  BY RunAssumption DEF OwnInv, OperationTypes, Id
<1>4. CASE CreateSucceeds(o)
  BY <1>1, <1>3, <1>4, SucceedStep DEF CreateSucceeds
<1>5. CASE LookupFinds(o)
  <2>1. bam[Target[o]] \in Id /\ StoreCreated(o, bam[Target[o]])
    BY <1>3, <1>5 DEF LookupFinds
  <2> QED
    BY <1>1, <1>3, <1>5, <2>1, SucceedStep DEF LookupFinds
<1>6. CASE UpdateSucceeds(o) \/ DeleteSucceeds(o) \/ PassBarrier(o)
  <2>1. Kind[o] # "create" /\ UNCHANGED created /\ Succeed(o, "ok")
    BY <1>6 DEF UpdateSucceeds, DeleteSucceeds, PassBarrier, Calling
  <2>2. bam' \in [Resource -> Id \cup {None}]
    BY <1>3, <1>6 DEF UpdateSucceeds, DeleteSucceeds, PassBarrier
  <2> QED
    BY <1>1, <2>1, <2>2, SucceedStep
<1>7. CASE LookupMisses(o) \/ CallFails(o)
  <2>1. Fail(o)
    BY <1>7 DEF LookupMisses, CallFails
  <2>2. bam' \in [Resource -> Id \cup {None}]
    BY <1>3, <1>7 DEF LookupMisses, CallFails
  <2> QED
    BY <1>2, <2>1, <2>2, BrokenStep DEF Fail, Throttle!Complete
<1>8. ASSUME CreateConflicts(o) \/ RateLimitHit(o) PROVE OwnInv'
  <2>1. PICK place \in {"lookup", "sleeping"} : pc' = [pc EXCEPT ![o] = place]
    BY <1>8 DEF CreateConflicts, RateLimitHit
  <2>2. UNCHANGED <<start, batch, attempt, status, result, created, bound, bam, queue, held>>
    BY <1>8 DEF CreateConflicts, RateLimitHit, throttleVars, Throttle!RateLimit,
                Throttle!slotVars
  <2>3. SlotsMatchCoroutines'
    BY <1>1, <2>1, <2>2, StayingMatches DEF OwnInv
  <2>4. attempt' \in [Op -> 0 .. MaxRetries] /\ bound' \in [Op -> SUBSET (Op \X Id)]
    BY <2>2 DEF OwnInv, OperationTypes
  <2> QED
    BY <1>2, <2>1, <2>2, <2>3, <2>4, UnderwayStep
<1> QED
  BY <1>4, <1>5, <1>6, <1>7, <1>8 DEF Answer

LEMMA WakeFromSleepStep ==
  ASSUME OwnInv, Proofs!IInv, NEW o \in Op, WakeFromSleep(o)
  PROVE  OwnInv'
<1>1. /\ Inside(o) /\ pc' = [pc EXCEPT ![o] = "slept"]
      /\ UNCHANGED <<start, batch, attempt, status, result, created, bound, bam, queue, held>>
  BY DEF WakeFromSleep, Inside, throttleVars
<1>2. InBatch(o) /\ status[o] = "pending" /\ pc[o] # "done"
  BY <1>1, InsideIsPending DEF Inside
<1>3. SlotsMatchCoroutines'
  BY <1>1, StayingMatches DEF OwnInv
<1>4. attempt' \in [Op -> 0 .. MaxRetries] /\ bound' \in [Op -> SUBSET (Op \X Id)]
  BY <1>1 DEF OwnInv, OperationTypes
<1> QED
  BY <1>1, <1>2, <1>3, <1>4, UnderwayStep

LEMMA RestingStep ==
  ASSUME OwnInv, UNCHANGED opVars, SlotsMatchCoroutines'
  PROVE  OwnInv'
<1>1. UNCHANGED <<start, batch, pc, attempt, status, result, created, bound, bam>>
  BY DEF opVars
<1>2. OperationTypes' /\ BatchesInOrder' /\ CreatesAreStored'
  BY <1>1 DEF OwnInv, OperationTypes, BatchesInOrder, CreatesAreStored
<1>3. Outcomes'
  BY <1>1 DEF OwnInv, Outcomes, ResultsWhenDone, ResultsMatchStatuses, FailuresSpread,
              SkipsDescend, Underway
<1> QED
  BY <1>2, <1>3 DEF OwnInv

LEMMA WakeWaiterStep ==
  ASSUME OwnInv, Proofs!IInv, WakeWaiter
  PROVE  OwnInv'
<1> DEFINE w == Head(queue)[1]
<1>1. SlotsMatchCoroutines'
  BY WakingMatches DEF OwnInv
<1>2. /\ notified > 0
      /\ UNCHANGED <<start, batch, attempt, status, result, created, bound, bam>>
      /\ pc' = IF Throttle!HasRoom THEN [pc EXCEPT ![w] = "calling"] ELSE pc
  BY DEF WakeWaiter, Throttle!WakeUp, Throttle!Resume
<1>3. w \in Op /\ pc[w] = "waiting"
  BY <1>2, HeadWaits DEF OwnInv
<1> HIDE DEF w
<1>4. CASE Throttle!HasRoom
  <2>1. InBatch(w) /\ status[w] = "pending" /\ pc[w] # "done"
    BY <1>3, UnderwayIsInBatch DEF OwnInv, Outcomes, ResultsWhenDone, Underway
  <2>2. attempt' \in [Op -> 0 .. MaxRetries] /\ bound' \in [Op -> SUBSET (Op \X Id)]
    BY <1>2 DEF OwnInv, OperationTypes
  <2> QED
    BY <1>1, <1>2, <1>3, <1>4, <2>1, <2>2, UnderwayStep
<1>5. CASE ~Throttle!HasRoom
  BY <1>1, <1>2, <1>5, RestingStep DEF opVars
<1> QED
  BY <1>4, <1>5

LEMMA NextBatchStep ==
  ASSUME OwnInv, NextBatch
  PROVE  OwnInv'
<1>1. /\ batch' = batch + 1
      /\ \A o \in BatchOps(batch) : pc[o] = "done"
      /\ UNCHANGED <<start, pc, attempt, status, result, created, bound, bam, queue, held>>
  BY DEF NextBatch, throttleVars
<1>2. batch \in Nat /\ start \in Nat /\ BatchOf \in [Op -> Nat]
  BY PlanAssumption, RunAssumption DEF OwnInv, OperationTypes
<1>3. OperationTypes' /\ CreatesAreStored'
  BY <1>1, <1>2 DEF OwnInv, OperationTypes, CreatesAreStored
<1>4. BatchesInOrder'
  <2>1. start' <= batch'
    BY <1>1, <1>2 DEF OwnInv, BatchesInOrder
  <2>2. ASSUME NEW o \in Op, BatchOf[o] < start \/ BatchOf[o] > batch + 1
        PROVE  pc[o] = "ready"
    BY <1>2, <2>2 DEF OwnInv, BatchesInOrder
  <2>3. ASSUME NEW o \in Op, start <= BatchOf[o], BatchOf[o] < batch + 1
        PROVE  pc[o] = "done"
    BY <1>1, <1>2, <2>3 DEF OwnInv, BatchesInOrder, BatchOps
  <2> QED
    BY <1>1, <2>1, <2>2, <2>3 DEF BatchesInOrder
<1>5. Outcomes'
  BY <1>1 DEF OwnInv, Outcomes, ResultsWhenDone, ResultsMatchStatuses, FailuresSpread,
              SkipsDescend, Underway
<1>6. SlotsMatchCoroutines'
  BY <1>1, RestingMatches DEF OwnInv
<1> QED
  BY <1>3, <1>4, <1>5, <1>6 DEF OwnInv

LEMMA AdjustStep ==
  ASSUME OwnInv, Adjust
  PROVE  OwnInv'
<1>1. UNCHANGED opVars /\ UNCHANGED <<queue, held>>
  BY DEF Adjust, Throttle!Increase, Throttle!Decrease, Throttle!RateDecrease, Throttle!slotVars
<1>2. SlotsMatchCoroutines'
  BY <1>1, RestingMatches DEF OwnInv, opVars
<1> QED
  BY <1>1, <1>2, RestingStep

-----------------------------------------------------------------------------
(***************************************************************************)
(* The invariant holds                                                     *)
(***************************************************************************)
LEMMA InitEstablishesIInv == Init => IInv
<1> SUFFICES ASSUME Init PROVE IInv
  OBVIOUS
<1>1. Proofs!IInv /\ queue = << >> /\ held = {}
  BY ThrottleInitially DEF Init, Throttle!Init
<1>2. /\ start \in StartBatches /\ start \in Nat /\ batch = start
      /\ pc = [o \in Op |-> "ready"] /\ attempt = [o \in Op |-> 0]
      /\ status = [o \in Op |-> "pending"] /\ result = [o \in Op |-> "none"]
      /\ bound = [o \in Op |-> {}]
  BY RunAssumption DEF Init
<1>3. PICK done \in LeftBehind(start) :
        /\ bam = [r \in Resource |-> LeftOf(r, done)]
        /\ \E known \in SUBSET {o \in done : Kind[o] = "create"} :
             created = [k \in Key |-> Loaded(known, k)]
  BY DEF Init
<1>4. PICK known \in SUBSET {o \in done : Kind[o] = "create"} :
        created = [k \in Key |-> Loaded(known, k)]
  BY <1>3
<1>5. done \in SUBSET Op
  BY <1>3 DEF LeftBehind, Tried
<1>6. \A r \in Resource : LeftOf(r, done) \in Id \cup {None}
  <2> SUFFICES ASSUME NEW r \in Resource PROVE LeftOf(r, done) \in Id \cup {None}
    OBVIOUS
  <2> DEFINE about  == {o \in done : Target[o] = r}
             makers == {o \in about : Kind[o] = "create"}
             first  == CHOOSE o \in makers : \A p \in makers : BatchOf[o] <= BatchOf[p]
  <2>1. LeftOf(r, done) = IF r \in Existing /\ about = makers THEN <<r, None>>
                          ELSE IF makers = {} THEN None ELSE <<r, first>>
    BY DEF LeftOf
  <2>2. makers # {} => first \in Op
    <3>1. makers \in SUBSET Op
      BY <1>5
    <3>2. makers # {} => \E o \in makers : \A p \in makers : BatchOf[o] <= BatchOf[p]
      <4> HIDE DEF makers
      <4> QED
        BY <3>1, EarliestExists
    <3> HIDE DEF makers
    <3> QED
      BY <3>1, <3>2
  <2> HIDE DEF about, makers, first
  <2> QED
    BY <2>1, <2>2 DEF Id
<1>7. \A k \in Key : Loaded(known, k) \in Id \cup {None}
  <2> SUFFICES ASSUME NEW k \in Key PROVE Loaded(known, k) \in Id \cup {None}
    OBVIOUS
  <2> DEFINE o == CHOOSE o \in known : KeyOf[o] = k
  <2>1. CASE \E p \in known : KeyOf[p] = k
    <3>1. o \in Op
      BY <1>4, <1>5, <2>1
    <3>2. Target[o] \in Resource
      BY <3>1, RunAssumption
    <3>3. bam[Target[o]] \in Id \cup {None}
      BY <1>3, <1>6, <3>2
    <3> QED
      BY <2>1, <3>3 DEF Loaded
  <2>2. CASE ~ \E p \in known : KeyOf[p] = k
    BY <2>2 DEF Loaded
  <2> QED
    BY <2>1, <2>2
<1>8. created \in [Key -> Id \cup {None}]
  BY <1>4, <1>7
<1>9. bam \in [Resource -> Id \cup {None}]
  BY <1>3, <1>6
<1>10. OperationTypes
  BY <1>2, <1>8, <1>9, RunAssumption DEF OperationTypes, Places, Statuses, Results
<1>11. BatchesInOrder
  BY <1>2, PlanAssumption DEF BatchesInOrder
<1>12. Outcomes
  BY <1>2, PlanAssumption DEF Outcomes, ResultsWhenDone, ResultsMatchStatuses, FailuresSpread,
                              SkipsDescend, Underway, Broken
<1>13. CreatesAreStored
  BY <1>2 DEF CreatesAreStored
<1>14. SlotsMatchCoroutines
  BY <1>1, <1>2 DEF SlotsMatchCoroutines, CallsHoldSlots, Throttle!SeqElems, Inside
<1> QED
  BY <1>1, <1>10, <1>11, <1>12, <1>13, <1>14, IInvIsOwnAndThrottle DEF OwnInv

LEMMA StepPreservesIInv == IInv /\ [Next]_vars => IInv'
<1> SUFFICES ASSUME IInv, [Next]_vars PROVE IInv'
  OBVIOUS
<1>1. OwnInv /\ Proofs!IInv
  BY IInvIsOwnAndThrottle
<1>2. Proofs!IInv'
  BY <1>1, StepRefinesThrottle, ThrottlePreserves
<1>3. UNCHANGED vars => OwnInv'
  <2>1. ASSUME UNCHANGED vars PROVE OwnInv'
    <3>1. UNCHANGED opVars /\ UNCHANGED <<pc, attempt, queue, held>>
      BY <2>1 DEF vars, opVars, throttleVars
    <3> QED
      BY <1>1, <3>1, RestingMatches, RestingStep DEF OwnInv
  <2> QED
    BY <2>1
<1>4. OwnInv'
  BY <1>1, <1>3, BeginStep, AnswerStep, WakeFromSleepStep, WakeWaiterStep, NextBatchStep,
     AdjustStep DEF Next
<1> QED
  BY <1>2, <1>4 DEF IInv, OwnInv, Outcomes

(***************************************************************************)
(* The inductive invariant holds in every reachable state: statuses,       *)
(* results, places, stored ids and slots of all operations fit together    *)
(* whatever the plan is and however its calls are answered.                *)
(***************************************************************************)
THEOREM ExecutorInvariant == Spec => []IInv
BY InitEstablishesIInv, StepPreservesIInv, PTL DEF Spec

(***************************************************************************)
(* Every variable of the executor has its type.                            *)
(***************************************************************************)
THEOREM ExecutorTypes == Spec => []TypeOK
<1>1. IInv => TypeOK
  BY ThrottleTypes DEF IInv, OperationTypes, TypeOK
<1> QED
  BY <1>1, ExecutorInvariant, PTL

(***************************************************************************)
(* execute_plan() and its batches: no operation is under way while one it  *)
(* depends on, at any distance in the graph, has not come to its end.      *)
(***************************************************************************)
THEOREM BatchesSettleDependencies == Spec => []DependenciesSettled
<1>1. IInv => DependenciesSettled
  <2>1. ASSUME IInv, NEW o \in Op, Underway(o), NEW a \in Ancestors[o]
        PROVE  BatchOf[a] < start \/ pc[a] = "done"
    <3>1. InBatch(o)
      BY <2>1, UnderwayIsInBatch DEF IInv, Underway
    <3> QED
      BY <2>1, <3>1, AncestorsAreDone DEF IInv
  <2> QED
    BY <2>1 DEF DependenciesSettled
<1> QED
  BY <1>1, ExecutorInvariant, PTL

(***************************************************************************)
(* _cascade_failure() is complete and in time: no call is made, and none   *)
(* has succeeded, below an operation that failed or was skipped.           *)
(***************************************************************************)
THEOREM CascadeIsInTime == Spec => []NoCallBelowFailure
<1>1. IInv => NoCallBelowFailure
  <2>1. ASSUME IInv, NEW o \in Op, Underway(o) \/ status[o] = "succeeded",
               NEW a \in Ancestors[o]
        PROVE  status[a] \notin {"failed", "skipped"}
    <3>1. status[o] \notin Broken
      BY <2>1 DEF IInv, ResultsWhenDone, Broken
    <3> QED
      BY <2>1, <3>1, AncestorsOfSoundAreSound DEF IInv, Broken
  <2> QED
    BY <2>1 DEF NoCallBelowFailure
<1> QED
  BY <1>1, ExecutorInvariant, PTL

(***************************************************************************)
(* The cascade reaches nobody else: a skipped operation descends from one  *)
(* that failed, and nothing is ever called for it.                         *)
(***************************************************************************)
SkippedForAReason ==
  \A o \in Op : status[o] = "skipped" =>
    /\ \E a \in Ancestors[o] : status[a] = "failed"
    /\ pc[o] \in {"ready", "done"}
    /\ result[o] \in {"none", "skipped"}

(***************************************************************************)
(* _cascade_failure() goes no further than it should: a skipped operation  *)
(* descends from a failed one, and was not called.                         *)
(***************************************************************************)
THEOREM CascadeIsExact == Spec => []SkippedForAReason
<1>1. IInv => SkippedForAReason
  <2>1. ASSUME IInv, NEW o \in Op, status[o] = "skipped"
        PROVE  /\ \E a \in Ancestors[o] : status[a] = "failed"
               /\ pc[o] \in {"ready", "done"}
               /\ result[o] \in {"none", "skipped"}
    <3>1. result[o] \in Results
      BY <2>1 DEF IInv, OperationTypes
    <3>2. result[o] \in {"none", "skipped"}
      BY <2>1, <3>1 DEF IInv, ResultsMatchStatuses, Results
    <3> QED
      BY <2>1, <3>2 DEF IInv, SkipsDescend
  <2> QED
    BY <2>1 DEF SkippedForAReason
<1> QED
  BY <1>1, ExecutorInvariant, PTL

(***************************************************************************)
(* What gather() returns and what Operation.status says agree, and an      *)
(* unresolved deferred id always has one of three causes.                  *)
(***************************************************************************)
THEOREM ResultsAgree == Spec => []ResultsMatchStatuses
<1>1. IInv => ResultsMatchStatuses
  BY DEF IInv
<1> QED
  BY <1>1, ExecutorInvariant, PTL

(***************************************************************************)
(* Retries, errors and nested blocks leak no slot of the throttle: when no *)
(* operation is under way all slots are back and nobody waits for one.     *)
(***************************************************************************)
THEOREM SlotsComeBack == Spec => []SlotsReturnedBetweenBatches
<1>1. IInv => SlotsReturnedBetweenBatches
  <2>1. ASSUME IInv, \A o \in Op : ~Underway(o)
        PROVE  active = 0 /\ held = {} /\ queue = << >>
    <3>1. /\ queue \in Seq(Slot) /\ held \subseteq Slot
          /\ Throttle!SeqElems(queue) \subseteq Slot
      BY <2>1, QueueFacts DEF IInv
    <3>2. held = {}
      BY <2>1, <3>1 DEF IInv, SlotsMatchCoroutines, Slot
    <3>3. active = 0
      BY <2>1, <3>2, SameCardinality, FS_EmptySet DEF IInv, Proofs!IInv, Proofs!CounterIsExact
    <3>4. \A s \in Throttle!SeqElems(queue) : s[1] \in Op /\ Underway(s[1])
      BY <2>1, <3>1 DEF IInv, SlotsMatchCoroutines, Slot, Underway
    <3>5. 1 \notin 1 .. Len(queue)
      BY <2>1, <3>4 DEF Throttle!SeqElems
    <3>6. queue = << >>
      BY <3>1, <3>5, LenProperties, EmptySeq
    <3> QED
      BY <3>2, <3>3, <3>6
  <2> QED
    BY <2>1 DEF SlotsReturnedBetweenBatches
<1> QED
  BY <1>1, ExecutorInvariant, PTL

(***************************************************************************)
(* The executor implements the throttle's specification: all that is       *)
(* proved of AdaptiveThrottle holds of the throttle in the executor.       *)
(***************************************************************************)
THEOREM ExecutorUsesThrottle == Spec => UsesThrottleCorrectly
<1>1. Init => Throttle!Init
  BY DEF Init
<1>2. IInv /\ [Next]_vars => [Throttle!Next]_(Throttle!vars)
  BY StepRefinesThrottle DEF IInv
<1> QED
  BY <1>1, <1>2, ExecutorInvariant, PTL DEF Spec, UsesThrottleCorrectly, Throttle!Spec

(***************************************************************************)
(* No request is out without a slot of its own.                            *)
(***************************************************************************)
THEOREM CallsAreCovered == Spec => []CallsHoldSlots
<1>1. IInv => CallsHoldSlots
  BY DEF IInv, SlotsMatchCoroutines
<1> QED
  BY <1>1, ExecutorInvariant, PTL

\* The operations with a request out, or asleep inside their blocks.
OutNow == {o \in Op : Inside(o)}

\* Each of them holds a slot of its own, and the slots are counted.
LEMMA OutNowIsBounded ==
  ASSUME IInv, Proofs!ConcurrencyIsBounded
  PROVE  Cardinality(OutNow) <= Throttle!Highest
<1>1. IsFiniteSet(held)
  BY DEF IInv, Proofs!IInv, Proofs!AskedBefore, Proofs!IsFiniteSet, IsFiniteSet
<1>2. Cardinality(held) <= Throttle!Highest
  BY SameCardinality DEF Proofs!ConcurrencyIsBounded, Proofs!Highest, Proofs!MaxOf,
                         Throttle!Highest, Throttle!MaxOf
<1> DEFINE f == [o \in OutNow |-> CurrentSlot(o)]
<1>3. f \in Injection(OutNow, held)
  BY DEF IInv, SlotsMatchCoroutines, CallsHoldSlots, OutNow, CurrentSlot, Injection, IsInjective
<1>4. IsFiniteSet(OutNow) /\ Cardinality(OutNow) <= Cardinality(held)
  BY <1>1, <1>3, FS_Injection
<1>5. Cardinality(OutNow) \in Nat /\ Cardinality(held) \in Nat
  BY <1>1, <1>4, FS_CardinalityType
<1>6. Throttle!Highest \in Nat
  BY ThrottleConstants DEF Throttle!Highest, Throttle!MaxOf
<1> QED
  BY <1>2, <1>4, <1>5, <1>6

(***************************************************************************)
(* "Never exceed max_concurrency", seen from BAM: however large a batch is *)
(* and however its calls are retried, no more requests are out at a time   *)
(* than the highest limit there can be.                                    *)
(***************************************************************************)
THEOREM CallsAreBounded == Spec => [](Cardinality(OutNow) <= Throttle!Highest)
<1>1. Init => Proofs!ConcurrencyIsBounded
  BY SameThrottle, ThrottleConstants, Proofs!BoundInitially DEF Init
<1>2. IInv /\ Proofs!ConcurrencyIsBounded /\ [Next]_vars => Proofs!ConcurrencyIsBounded'
  BY SameThrottle, StepRefinesThrottle, ThrottleConstants, Proofs!StepIsBounded DEF IInv
<1>3. IInv /\ Proofs!ConcurrencyIsBounded => Cardinality(OutNow) <= Throttle!Highest
  BY OutNowIsBounded
<1> QED
  BY <1>1, <1>2, <1>3, ExecutorInvariant, PTL DEF Spec

-----------------------------------------------------------------------------
(***************************************************************************)
(* The executor keeps the promise of Execution                             *)
(***************************************************************************)
\* Steps that Execution does not see.
LEMMA PromiseAtRest ==
  ASSUME UNCHANGED <<start, status, result>>, \A x \in Op : Underway(x)' <=> Underway(x)
  PROVE  UNCHANGED Promise!vars
BY DEF Promise!vars, LeftOut, InProgress, OutcomeOf

\* o is no longer under way, and nobody else is or ceases to be.
LEMMA EndingLeaves ==
  ASSUME OperationTypes, NEW o \in Op, pc' = [pc EXCEPT ![o] = "done"]
  PROVE  InProgress' = InProgress \ {o}
BY DEF OperationTypes, InProgress, Underway

\* What o depends on is left out or has ended well.
LEMMA AncestorsAreSettled ==
  ASSUME OwnInv, NEW o \in Op, InBatch(o), status[o] = "pending", NEW a \in Ancestors[o]
  PROVE  Promise!Settled(a)
<1>1. a \in Op /\ (BatchOf[a] < start \/ pc[a] = "done")
  BY AncestorsAreDone DEF OwnInv
<1>2. status[a] \notin Broken
  BY AncestorsOfSoundAreSound DEF OwnInv, Outcomes, Broken
<1>3. CASE BatchOf[a] < start
  BY <1>1, <1>3 DEF Promise!Settled, LeftOut
<1>4. CASE pc[a] = "done"
  <2>1. result[a] \in Results /\ result[a] # "none"
    BY <1>1, <1>4 DEF OwnInv, OperationTypes, Outcomes, ResultsWhenDone
  <2>2. result[a] = "raised" \/ status[a] = "succeeded"
    BY <1>1, <1>2, <2>1 DEF OwnInv, Outcomes, ResultsMatchStatuses, Results, Broken
  <2>3. OutcomeOf[a] \in {"succeeded", "unresolved"}
    BY <1>1, <2>2 DEF OutcomeOf
  <2> QED
    BY <2>3 DEF Promise!Settled
<1> QED
  BY <1>1, <1>3, <1>4

LEMMA ReadyMayStart ==
  ASSUME OwnInv, NEW o \in Op, InBatch(o), status[o] = "pending", pc[o] = "ready"
  PROVE  Promise!MayStart(o)
<1>1. o \notin LeftOut
  <2>1. BatchOf[o] = batch /\ batch \in Nat /\ start \in Nat /\ start <= batch
    BY RunAssumption DEF OwnInv, OperationTypes, BatchesInOrder, InBatch
  <2> QED
    BY <2>1 DEF LeftOut
<1>2. o \notin InProgress
  BY DEF InProgress, Underway
<1>3. result[o] = "none"
  BY DEF OwnInv, Outcomes, ResultsWhenDone
<1>4. OutcomeOf[o] = "open"
  BY <1>3 DEF OutcomeOf
<1>5. \A a \in Ancestors[o] : Promise!Settled(a)
  BY AncestorsAreSettled
<1> QED
  BY <1>1, <1>2, <1>4, <1>5 DEF Promise!MayStart

LEMMA BeginningIsAllowed ==
  ASSUME OwnInv, NEW o \in Op, Entering(o), status[o] # "skipped"
  PROVE  o \in InProgress \/ Promise!MayStart(o)
<1>1. InBatch(o) /\ status[o] = "pending" /\ pc[o] \in {"ready", "slept"}
  BY BeginningIsPending
<1>2. CASE pc[o] = "ready"
  BY <1>1, <1>2, ReadyMayStart
<1>3. CASE pc[o] = "slept"
  BY <1>3 DEF InProgress, Underway
<1> QED
  BY <1>1, <1>2, <1>3

\* All that descends from an operation that just failed has been skipped,
\* either now or by an earlier failure.
LEMMA DescendantsAreSkipped ==
  ASSUME OwnInv, FailuresSpread', NEW o \in Op, InBatch(o), MarkFailed(o),
         NEW x \in Op, o \in Ancestors[x]
  PROVE  x # o /\ status'[x] = "skipped" /\ result[x] = "none"
<1>1. x # o /\ pc[x] = "ready"
  BY DescendantsAreReady DEF OwnInv
<1>2. result[x] = "none" /\ status[x] # "failed"
  BY <1>1 DEF OwnInv, Outcomes, ResultsWhenDone, ResultsMatchStatuses
<1>3. status'[o] = "failed"
  BY MarkFailedMarks DEF OwnInv
<1>4. ASSUME status'[x] \notin Broken PROVE FALSE
  <2> DEFINE S == {y \in Op : status'[y] \notin Broken}
  <2>1. Deps[x] \subseteq S
    BY <1>4, PlanAssumption DEF FailuresSpread, Broken
  <2>2. Closed(S)
    BY PlanAssumption DEF Closed, FailuresSpread, Broken
  <2>3. o \in S
    BY <2>1, <2>2, AncestorsInClosed
  <2> QED
    BY <1>3, <2>3 DEF Broken
<1>5. status'[x] = status[x] \/ status'[x] = "skipped"
  BY <1>1, MarkFailedMarks DEF OwnInv
<1> QED
  BY <1>1, <1>2, <1>4, <1>5 DEF Broken

LEMMA FailureIsPromised ==
  ASSUME OwnInv, OwnInv', NEW o \in Op, InBatch(o), o \in InProgress \/ Promise!MayStart(o),
         Finish(o, "failed"), MarkFailed(o), UNCHANGED start
  PROVE  Promise!Fail(o)
<1>1. InProgress' = InProgress \ {o}
  BY EndingLeaves DEF OwnInv, Finish
<1>2. /\ result'[o] = "failed"
      /\ \A x \in Op : x # o => result'[x] = result[x]
  BY DEF Finish, OwnInv, OperationTypes
<1>3. status'[o] = "failed"
  BY MarkFailedMarks DEF OwnInv
<1>4. ASSUME NEW x \in Op, o \in Ancestors[x]
      PROVE  x # o /\ status'[x] = "skipped" /\ result'[x] = "none"
  BY <1>2, <1>4, DescendantsAreSkipped DEF OwnInv, Outcomes
<1>5. ASSUME NEW x \in Op, x # o, o \notin Ancestors[x]
      PROVE  status'[x] = status[x] /\ result'[x] = result[x]
  BY <1>2, <1>5, MarkFailedMarks DEF OwnInv
<1>6. OutcomeOf' = [x \in Op |-> IF x = o THEN "failed"
                                ELSE IF o \in Ancestors[x] THEN "skipped" ELSE OutcomeOf[x]]
  <2>1. ASSUME NEW x \in Op
        PROVE  OutcomeOf'[x] = IF x = o THEN "failed"
                               ELSE IF o \in Ancestors[x] THEN "skipped" ELSE OutcomeOf[x]
    <3>1. CASE x = o
      BY <1>2, <1>3, <3>1 DEF OutcomeOf
    <3>2. CASE o \in Ancestors[x]
      BY <1>4, <3>2 DEF OutcomeOf
    <3>3. CASE x # o /\ o \notin Ancestors[x]
      BY <1>5, <3>3 DEF OutcomeOf
    <3> QED
      BY <1>4, <3>1, <3>2, <3>3
  <2> QED
    BY <2>1 DEF OutcomeOf
<1> QED
  BY <1>1, <1>6 DEF Promise!Fail, LeftOut

LEMMA SuccessIsPromised ==
  ASSUME OwnInv, NEW o \in Op, Inside(o), NEW r \in {"ok", "exists"}, Succeed(o, r)
  PROVE  Promise!Succeed(o)
<1>1. /\ pc' = [pc EXCEPT ![o] = "done"]
      /\ result' = [result EXCEPT ![o] = r]
      /\ status' = [status EXCEPT ![o] = "succeeded"]
      /\ UNCHANGED start
  BY DEF Succeed, Finish
<1>2. InProgress' = InProgress \ {o} /\ o \in InProgress
  BY <1>1, EndingLeaves DEF OwnInv, InProgress, Inside, Underway
<1>3. OutcomeOf' = [OutcomeOf EXCEPT ![o] = "succeeded"]
  BY <1>1 DEF OwnInv, OperationTypes, OutcomeOf
<1> QED
  BY <1>1, <1>2, <1>3 DEF Promise!Succeed, LeftOut

LEMMA BeginIsPromised ==
  ASSUME OwnInv, OwnInv', NEW o \in Op, Begin(o)
  PROVE  [Promise!Next]_(Promise!vars)
<1>1. CASE ReturnSkipped(o)
  <2>1. pc[o] = "ready" /\ status[o] = "skipped"
    BY <1>1 DEF ReturnSkipped, Entering, OwnInv, Outcomes, ResultsWhenDone, Underway
  <2>2. /\ pc' = [pc EXCEPT ![o] = "done"]
        /\ result' = [result EXCEPT ![o] = "skipped"]
        /\ UNCHANGED <<start, status>>
    BY <1>1 DEF ReturnSkipped, Finish
  <2>3. InProgress' = InProgress
    BY <2>1, <2>2, EndingLeaves DEF OwnInv, InProgress, Underway
  <2>4. result[o] = "none"
    BY <2>1 DEF OwnInv, Outcomes, ResultsWhenDone
  <2>5. OutcomeOf' = OutcomeOf
    BY <2>2, <2>4 DEF OutcomeOf, OwnInv, OperationTypes
  <2> QED
    BY <2>2, <2>3, <2>5 DEF Promise!vars, LeftOut
<1>2. CASE RejectBadPayload(o)
  <2>1. InBatch(o) /\ (o \in InProgress \/ Promise!MayStart(o))
    BY <1>2, BeginningIsAllowed DEF RejectBadPayload, Entering
  <2>2. Promise!Fail(o)
    BY <1>2, <2>1, FailureIsPromised DEF RejectBadPayload
  <2> QED
    BY <2>2 DEF Promise!Next
<1>3. CASE RaiseUnresolved(o)
  <2>1. InBatch(o) /\ status[o] = "pending" /\ (o \in InProgress \/ Promise!MayStart(o))
    BY <1>3, BeginningIsPending, BeginningIsAllowed DEF RaiseUnresolved, Runnable
  <2>2. PICK p \in DeferredOn[o] : Missing(o, p)
    BY <1>3, <2>1, UnresolvedIsMissing DEF RaiseUnresolved
  <2>3. p \in Op
    BY PlanAssumption
  <2>4. Promise!NoIdOf(p, o)
    BY <2>2, <2>3 DEF Promise!NoIdOf, Missing, LeftOut, OutcomeOf
  <2>5. /\ pc' = [pc EXCEPT ![o] = "done"]
        /\ result' = [result EXCEPT ![o] = "raised"]
        /\ UNCHANGED <<start, status>>
    BY <1>3 DEF RaiseUnresolved, Finish
  <2>6. InProgress' = InProgress \ {o}
    BY <2>5, EndingLeaves DEF OwnInv
  <2>7. OutcomeOf' = [OutcomeOf EXCEPT ![o] = "unresolved"]
    BY <2>5 DEF OutcomeOf, OwnInv, OperationTypes
  <2>8. Promise!LeaveUnresolved(o)
    BY <2>1, <2>4, <2>5, <2>6, <2>7 DEF Promise!LeaveUnresolved, LeftOut
  <2> QED
    BY <2>8 DEF Promise!Next
<1>4. CASE EnterThrottle(o)
  <2>1. InBatch(o) /\ status[o] = "pending" /\ pc[o] \in {"ready", "slept"}
    BY <1>4, BeginningIsPending DEF EnterThrottle, Runnable
  <2>2. /\ UNCHANGED <<start, status, result>>
        /\ \E place \in {"waiting", "calling"} : pc' = [pc EXCEPT ![o] = place]
    BY <1>4 DEF EnterThrottle
  <2>3. CASE pc[o] = "slept"
    <3>1. \A x \in Op : Underway(x)' <=> Underway(x)
      BY <2>2, <2>3 DEF Underway, OwnInv, OperationTypes
    <3> QED
      BY <2>2, <3>1, PromiseAtRest
  <2>4. CASE pc[o] = "ready"
    <3>1. Promise!MayStart(o)
      BY <2>1, <2>4, ReadyMayStart
    <3>2. InProgress' = InProgress \cup {o}
      BY <2>2 DEF InProgress, Underway, OwnInv, OperationTypes
    <3>3. Promise!Start(o)
      BY <2>2, <3>1, <3>2 DEF Promise!Start, LeftOut, OutcomeOf
    <3> QED
      BY <3>3 DEF Promise!Next
  <2> QED
    BY <2>1, <2>3, <2>4
<1> QED
  BY <1>1, <1>2, <1>3, <1>4 DEF Begin

LEMMA AnswerIsPromised ==
  ASSUME OwnInv, OwnInv', NEW o \in Op, Answer(o)
  PROVE  [Promise!Next]_(Promise!vars)
<1>1. Inside(o)
  BY DEF Answer, CreateSucceeds, CreateConflicts, LookupFinds, LookupMisses, UpdateSucceeds,
         DeleteSucceeds, PassBarrier, CallFails, RateLimitHit, Calling, Inside
<1>2. InBatch(o) /\ o \in InProgress
  BY <1>1, InsideIsPending DEF InProgress, Inside, Underway
<1>3. CASE CreateSucceeds(o) \/ LookupFinds(o) \/ UpdateSucceeds(o) \/ DeleteSucceeds(o)
           \/ PassBarrier(o)
  <2>1. \E r \in {"ok", "exists"} : Succeed(o, r)
    BY <1>3 DEF CreateSucceeds, LookupFinds, UpdateSucceeds, DeleteSucceeds, PassBarrier
  <2>2. Promise!Succeed(o)
    BY <1>1, <2>1, SuccessIsPromised
  <2> QED
    BY <2>2 DEF Promise!Next
<1>4. CASE LookupMisses(o) \/ CallFails(o)
  <2>1. Fail(o)
    BY <1>4 DEF LookupMisses, CallFails
  <2>2. Promise!Fail(o)
    BY <1>2, <2>1, FailureIsPromised DEF Fail
  <2> QED
    BY <2>2 DEF Promise!Next
<1>5. CASE CreateConflicts(o) \/ RateLimitHit(o)
  <2>1. /\ UNCHANGED <<start, status, result>>
        /\ \E place \in {"lookup", "sleeping"} : pc' = [pc EXCEPT ![o] = place]
    BY <1>5 DEF CreateConflicts, RateLimitHit
  <2>2. \A x \in Op : Underway(x)' <=> Underway(x)
    BY <1>1, <2>1 DEF Underway, Inside, OwnInv, OperationTypes
  <2> QED
    BY <2>1, <2>2, PromiseAtRest
<1> QED
  BY <1>3, <1>4, <1>5 DEF Answer

LEMMA StepIsPromised ==
  ASSUME IInv, IInv', [Next]_vars
  PROVE  [Promise!Next]_(Promise!vars)
<1>1. OwnInv /\ OwnInv' /\ Proofs!IInv
  BY DEF IInv, OwnInv, Outcomes
<1>2. ASSUME NEW o \in Op, WakeFromSleep(o) PROVE UNCHANGED Promise!vars
  <2>1. /\ pc[o] = "sleeping" /\ pc' = [pc EXCEPT ![o] = "slept"]
        /\ UNCHANGED <<start, status, result>>
    BY <1>2 DEF WakeFromSleep
  <2>2. \A x \in Op : Underway(x)' <=> Underway(x)
    BY <1>1, <2>1 DEF Underway, OwnInv, OperationTypes
  <2> QED
    BY <2>1, <2>2, PromiseAtRest
<1>3. ASSUME WakeWaiter PROVE UNCHANGED Promise!vars
  <2> DEFINE w == Head(queue)[1]
  <2>1. /\ notified > 0
        /\ UNCHANGED <<start, status, result>>
        /\ pc' = IF Throttle!HasRoom THEN [pc EXCEPT ![w] = "calling"] ELSE pc
    BY <1>3 DEF WakeWaiter, Throttle!WakeUp, Throttle!Resume
  <2>2. w \in Op /\ pc[w] = "waiting"
    BY <1>1, <2>1, HeadWaits DEF OwnInv
  <2> HIDE DEF w
  <2>3. \A x \in Op : Underway(x)' <=> Underway(x)
    BY <1>1, <2>1, <2>2 DEF Underway, OwnInv, OperationTypes
  <2> QED
    BY <2>1, <2>3, PromiseAtRest
<1>4. ASSUME NextBatch \/ Adjust \/ UNCHANGED vars PROVE UNCHANGED Promise!vars
  <2>1. UNCHANGED <<start, pc, status, result>>
    BY <1>4 DEF NextBatch, Adjust, vars, opVars
  <2> QED
    BY <2>1, PromiseAtRest DEF Underway
<1> QED
  BY <1>1, <1>2, <1>3, <1>4, BeginIsPromised, AnswerIsPromised DEF Next

(***************************************************************************)
(* The executor implements Execution, for every plan: batches, the         *)
(* throttle, retries and the pruned search of _cascade_failure() add up to *)
(* operations that are tried at most once, after all that they depend on   *)
(* has ended, and to failures that take down exactly their descendants.    *)
(***************************************************************************)
THEOREM ExecutorKeepsItsPromise == Spec => ImplementsExecution
<1>1. Init => Promise!Init
  <2> SUFFICES ASSUME Init PROVE Promise!Init
    OBVIOUS
  <2>1. /\ start \in Nat /\ pc = [o \in Op |-> "ready"]
        /\ status = [o \in Op |-> "pending"] /\ result = [o \in Op |-> "none"]
    BY RunAssumption DEF Init
  <2>2. ASSUME NEW o \in LeftOut, NEW a \in Ancestors[o] PROVE a \in LeftOut
    <3>1. o \in Op /\ a \in Op /\ BatchOf[a] < BatchOf[o] /\ BatchOf[o] < start
      BY <2>2, AncestorsComeEarlier DEF LeftOut
    <3>2. BatchOf[a] \in Nat /\ BatchOf[o] \in Nat
      BY <3>1, PlanAssumption
    <3> QED
      BY <2>1, <3>1, <3>2 DEF LeftOut
  <2>3. LeftOut \in SUBSET Op
    BY DEF LeftOut
  <2>4. InProgress = {} /\ OutcomeOf = [o \in Op |-> "open"]
    BY <2>1 DEF InProgress, OutcomeOf, Underway
  <2> QED
    BY <2>2, <2>3, <2>4 DEF Promise!Init
<1>2. IInv /\ IInv' /\ [Next]_vars => [Promise!Next]_(Promise!vars)
  BY StepIsPromised
<1> QED
  BY <1>1, <1>2, ExecutorInvariant, PTL DEF Spec, ImplementsExecution, Promise!Spec
=============================================================================
