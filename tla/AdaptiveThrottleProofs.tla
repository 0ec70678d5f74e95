----------------------- MODULE AdaptiveThrottleProofs -----------------------
(***************************************************************************)
(* Proofs about AdaptiveThrottle for any set of slots, any limits and any  *)
(* factors: the safety invariants, and that it implements SlotPool.        *)
(***************************************************************************)
EXTENDS AdaptiveThrottle, FiniteSetTheorems, SequenceTheorems, TLAPS

(***************************************************************************)
(* Slots are used once: whoever waits or is inside has asked before.  The  *)
(* set of slots inside is finite, because they enter one at a time.        *)
(***************************************************************************)
AskedBefore ==
  /\ IsFiniteSet(held)
  /\ held \subseteq requested
  /\ SeqElems(queue) \subseteq requested

IInv ==
  /\ TypeOK
  /\ AskedBefore
  /\ CounterIsExact
  /\ NoLostWakeup
  /\ WaitersAreDistinct
  /\ OneAdjustment
  /\ LimitInBounds

-----------------------------------------------------------------------------
(***************************************************************************)
(* Operators                                                               *)
(***************************************************************************)
\* An adjustment moves the limit by at least one.
LEMMA StepOfPositive ==
  ASSUME limit \in Nat, NEW fraction \in Nat
  PROVE  StepOf(fraction) \in Nat \ {0}
<1>1. limit * fraction \in Nat
  OBVIOUS
<1>2. \A n \in Nat : n \div FactorUnit \in Nat
  BY FactorAssumption
<1>3. (limit * fraction) \div FactorUnit \in Nat
  BY <1>1, <1>2
<1> HIDE <1>1
<1> DEFINE q == (limit * fraction) \div FactorUnit
<1>4. q \in Nat
  BY <1>3
<1> HIDE DEF q
<1>5. MaxOf(1, q) \in Nat \ {0}
  BY <1>4 DEF MaxOf
<1> QED
  BY <1>5 DEF StepOf, q

\* An increase raises the limit and stays within the maximum.
LEMMA RaisedInRange ==
  ASSUME limit \in Nat \ {0}, limit < MaxConcurrency
  PROVE  Raised \in limit + 1 .. MaxConcurrency
<1>1. StepOf(IncreaseFraction) \in Nat \ {0}
  BY StepOfPositive, FactorAssumption
<1> QED
  BY <1>1, ConcurrencyAssumption DEF Raised, MinOf

\* A decrease lowers the limit and stays within the minimum.
LEMMA LoweredInRange ==
  ASSUME limit \in Nat \ {0}, limit > MinConcurrency, NEW fraction \in Nat
  PROVE  Lowered(fraction) \in MinConcurrency .. limit - 1
<1>1. StepOf(fraction) \in Nat \ {0}
  BY StepOfPositive
<1> QED
  BY <1>1, ConcurrencyAssumption DEF Lowered, MaxOf

\* Lower() keeps the limit in bounds and never raises it.
LEMMA LowerStep ==
  ASSUME limit \in Nat \ {0}, LimitInBounds, NEW fraction \in Nat, Lower(fraction)
  PROVE  /\ limit' \in Nat \ {0}
         /\ limit' <= limit
         /\ LimitInBounds'
<1>1. CASE limit > MinConcurrency
  <2>1. limit' \in MinConcurrency .. limit - 1
    BY <1>1, LoweredInRange DEF Lower
  <2> QED
    BY <2>1, ConcurrencyAssumption DEF LimitInBounds, Lowest, Highest, MinOf, MaxOf
<1>2. CASE ~(limit > MinConcurrency)
  BY <1>2, ConcurrencyAssumption DEF Lower, LimitInBounds, Lowest, Highest, MinOf, MaxOf
<1> QED
  BY <1>1, <1>2

LEMMA FractionsAreNat ==
  IncreaseFraction \in Nat /\ DecreaseFraction \in Nat /\ RateLimitFraction \in Nat
BY FactorAssumption

LEMMA NotifiedAfterInRange ==
  ASSUME TypeOK, NEW n \in Nat
  PROVE  /\ NotifiedAfter(n) \in 0 .. Len(queue)
         /\ NotifiedAfter(n) = notified + n \/ NotifiedAfter(n) = Len(queue)
<1>1. Len(queue) \in Nat
  BY LenProperties DEF TypeOK
<1> QED
  BY <1>1 DEF TypeOK, NotifiedAfter, MinOf

-----------------------------------------------------------------------------
(***************************************************************************)
(* What Append and Tail do to the set of waiters and to their order        *)
(***************************************************************************)
Distinct(q) == \A i, j \in 1 .. Len(q) : q[i] = q[j] => i = j

LEMMA AppendWaiter ==
  ASSUME NEW q \in Seq(Slot), NEW s \in Slot, Distinct(q), s \notin SeqElems(q)
  PROVE  /\ Append(q, s) \in Seq(Slot)
         /\ Len(Append(q, s)) = Len(q) + 1
         /\ Distinct(Append(q, s))
         /\ SeqElems(Append(q, s)) = SeqElems(q) \cup {s}
<1> DEFINE r == Append(q, s)
<1>1. /\ r \in Seq(Slot)
      /\ Len(r) = Len(q) + 1
      /\ \A i \in 1 .. Len(q) : r[i] = q[i]
      /\ r[Len(q) + 1] = s
  BY AppendProperties
<1>2. Len(q) \in Nat
  BY LenProperties
<1>3. \A i \in 1 .. Len(q) : q[i] # s
  BY DEF SeqElems
<1> HIDE DEF r
<1>4. Distinct(r)
  BY <1>1, <1>2, <1>3 DEF Distinct
<1>5. SeqElems(r) = SeqElems(q) \cup {s}
  BY <1>1, <1>2 DEF SeqElems
<1> QED
  BY <1>1, <1>4, <1>5 DEF r

LEMMA TailOfWaiters ==
  ASSUME NEW q \in Seq(Slot), q # << >>, Distinct(q)
  PROVE  /\ Head(q) \in Slot
         /\ Tail(q) \in Seq(Slot)
         /\ Len(Tail(q)) = Len(q) - 1
         /\ Distinct(Tail(q))
         /\ Head(q) \notin SeqElems(Tail(q))
         /\ SeqElems(q) = SeqElems(Tail(q)) \cup {Head(q)}
<1> DEFINE t == Tail(q)
<1>1. /\ Head(q) \in Slot
      /\ t \in Seq(Slot)
      /\ Len(t) = Len(q) - 1
      /\ \A i \in 1 .. Len(t) : t[i] = q[i + 1]
  BY HeadTailProperties
<1>2. Len(q) \in Nat /\ Len(q) > 0 /\ Head(q) = q[1]
  BY EmptySeq, LenProperties
<1> HIDE DEF t
<1>3. Distinct(t)
  BY <1>1, <1>2 DEF Distinct
<1>4. Head(q) \notin SeqElems(t)
  BY <1>1, <1>2 DEF Distinct, SeqElems
<1>5. SeqElems(q) = SeqElems(t) \cup {Head(q)}
  <2>1. SeqElems(t) \cup {Head(q)} \subseteq SeqElems(q)
    BY <1>1, <1>2 DEF SeqElems
  <2>2. ASSUME NEW i \in 1 .. Len(q)
        PROVE  q[i] \in SeqElems(t) \cup {Head(q)}
    <3>1. CASE i = 1
      BY <3>1, <1>2
    <3>2. CASE i # 1
      <4>1. i - 1 \in 1 .. Len(t) /\ t[i - 1] = q[i]
        BY <3>2, <1>1, <1>2
      <4> QED
        BY <4>1 DEF SeqElems
    <3> QED
      BY <3>1, <3>2
  <2> QED
    BY <2>1, <2>2 DEF SeqElems
<1> QED
  BY <1>1, <1>3, <1>4, <1>5 DEF t

-----------------------------------------------------------------------------
(***************************************************************************)
(* The effect of the critical sections on the slots, without the limit.    *)
(***************************************************************************)
SlotTypes ==
  /\ active \in Nat
  /\ queue \in Seq(Slot)
  /\ notified \in 0 .. Len(queue)
  /\ held \subseteq Slot
  /\ requested \subseteq Slot

SlotInv ==
  /\ SlotTypes
  /\ AskedBefore
  /\ CounterIsExact
  /\ WaitersAreDistinct

LEMMA SlotInvFromIInv == IInv => SlotInv
BY DEF IInv, SlotInv, SlotTypes, TypeOK

\* A slot that was not asked for before is taken or queued.
LEMMA AcquireStep ==
  ASSUME SlotInv, NEW s \in Slot, Acquire(s), limit \in Nat, limit' = limit, NoLostWakeup
  PROVE  SlotInv' /\ NoLostWakeup'
<1>1. s \notin held /\ s \notin SeqElems(queue) /\ s \notin requested
  BY DEF Acquire, SlotInv, AskedBefore
<1>2. Len(queue) \in Nat
  BY LenProperties DEF SlotInv, SlotTypes
<1>3. CASE HasRoom
  <2>1. /\ requested' = requested \cup {s} /\ active' = active + 1
        /\ held' = held \cup {s} /\ queue' = queue /\ notified' = notified
    BY <1>3 DEF Acquire
  <2>2. IsFiniteSet(held') /\ Cardinality(held') = Cardinality(held) + 1
    BY <2>1, <1>1, FS_AddElement DEF SlotInv, AskedBefore
  <2>3. SeqElems(queue)' = SeqElems(queue)
    BY <2>1 DEF SeqElems
  <2>4. SlotTypes' /\ AskedBefore'
    BY <2>1, <2>2, <2>3 DEF SlotInv, SlotTypes, AskedBefore
  <2>5. CounterIsExact'
    BY <2>1, <2>2 DEF SlotInv, CounterIsExact
  <2>6. WaitersAreDistinct'
    BY <2>1, <2>3, <1>1 DEF SlotInv, WaitersAreDistinct
  <2>7. NoLostWakeup'
    BY <2>1, <1>2 DEF NoLostWakeup, SlotInv, SlotTypes
  <2> QED
    BY <2>4, <2>5, <2>6, <2>7 DEF SlotInv
<1>4. CASE ~HasRoom
  <2>1. /\ requested' = requested \cup {s} /\ active' = active
        /\ held' = held /\ queue' = Append(queue, s) /\ notified' = notified
    BY <1>4 DEF Acquire
  <2>2. Distinct(queue) /\ queue \in Seq(Slot)
    BY DEF SlotInv, WaitersAreDistinct, Distinct, SlotTypes
  <2>3. /\ queue' \in Seq(Slot) /\ Len(queue') = Len(queue) + 1
        /\ Distinct(queue') /\ SeqElems(queue') = SeqElems(queue) \cup {s}
    BY <2>1, <2>2, <1>1, AppendWaiter
  <2>4. SlotTypes' /\ AskedBefore'
    BY <2>1, <2>3, <1>2 DEF SlotInv, SlotTypes, AskedBefore
  <2>5. CounterIsExact'
    BY <2>1 DEF SlotInv, CounterIsExact
  <2>6. WaitersAreDistinct'
    BY <2>1, <2>3, <1>1 DEF SlotInv, WaitersAreDistinct, Distinct
  <2>7. NoLostWakeup'
    BY <2>1, <1>4 DEF NoLostWakeup, HasRoom, SlotInv, SlotTypes
  <2> QED
    BY <2>4, <2>5, <2>6, <2>7 DEF SlotInv
<1> QED
  BY <1>3, <1>4

\* The first waiter takes a slot or moves to the back.
LEMMA ResumeStep ==
  ASSUME SlotInv, Resume, limit \in Nat, limit' = limit, NoLostWakeup
  PROVE  SlotInv' /\ NoLostWakeup'
<1> DEFINE s == Head(queue)
<1>1. Len(queue) \in Nat /\ queue # << >> /\ Len(queue) > 0
  BY LenProperties, EmptySeq DEF SlotInv, SlotTypes, Resume
<1>2. Distinct(queue) /\ queue \in Seq(Slot)
  BY DEF SlotInv, WaitersAreDistinct, Distinct, SlotTypes
<1>3. /\ s \in Slot /\ Tail(queue) \in Seq(Slot)
      /\ Len(Tail(queue)) = Len(queue) - 1
      /\ Distinct(Tail(queue)) /\ s \notin SeqElems(Tail(queue))
      /\ SeqElems(queue) = SeqElems(Tail(queue)) \cup {s}
  BY <1>1, <1>2, TailOfWaiters
<1>4. s \notin held /\ s \in requested
  BY <1>3 DEF SlotInv, WaitersAreDistinct, AskedBefore
<1>5. CASE HasRoom
  <2>1. /\ requested' = requested /\ active' = active + 1 /\ notified' = notified - 1
        /\ held' = held \cup {s} /\ queue' = Tail(queue) /\ notified > 0
    BY <1>5 DEF Resume
  <2>2. IsFiniteSet(held') /\ Cardinality(held') = Cardinality(held) + 1
    BY <2>1, <1>4, FS_AddElement DEF SlotInv, AskedBefore
  <2>3. SeqElems(queue)' = SeqElems(Tail(queue))
    BY <2>1 DEF SeqElems
  <2>4. SlotTypes' /\ AskedBefore'
    BY <2>1, <2>2, <2>3, <1>1, <1>3, <1>4 DEF SlotInv, SlotTypes, AskedBefore
  <2>5. CounterIsExact'
    BY <2>1, <2>2 DEF SlotInv, CounterIsExact
  <2>6. WaitersAreDistinct'
    BY <2>1, <2>3, <1>3 DEF SlotInv, WaitersAreDistinct, Distinct
  <2>7. NoLostWakeup'
    BY <2>1, <1>1, <1>3 DEF NoLostWakeup, SlotInv, SlotTypes
  <2> QED
    BY <2>4, <2>5, <2>6, <2>7 DEF SlotInv
<1>6. CASE ~HasRoom
  <2>1. /\ requested' = requested /\ active' = active /\ notified' = notified - 1
        /\ held' = held /\ queue' = Append(Tail(queue), s) /\ notified > 0
    BY <1>6 DEF Resume
  <2> DEFINE t == Tail(queue)
             r == Append(t, s)
  <2> HIDE DEF s, t
  <2>a. /\ r \in Seq(Slot) /\ Len(r) = Len(t) + 1
        /\ Distinct(r) /\ SeqElems(r) = SeqElems(t) \cup {s}
    BY <1>3, AppendWaiter DEF t
  <2> HIDE DEF r
  <2>2. /\ queue' \in Seq(Slot) /\ Len(queue') = Len(queue)
        /\ Distinct(queue') /\ SeqElems(queue') = SeqElems(queue)
    BY <2>1, <2>a, <1>1, <1>3 DEF r, t
  <2>3. SlotTypes' /\ AskedBefore'
    BY <2>1, <2>2, <1>1 DEF SlotInv, SlotTypes, AskedBefore
  <2>4. CounterIsExact'
    BY <2>1 DEF SlotInv, CounterIsExact
  <2>5. WaitersAreDistinct'
    BY <2>1, <2>2 DEF SlotInv, WaitersAreDistinct, Distinct
  <2>6. NoLostWakeup'
    BY <2>1, <1>6 DEF NoLostWakeup, HasRoom, SlotInv, SlotTypes
  <2> QED
    BY <2>3, <2>4, <2>5, <2>6 DEF SlotInv
<1> QED
  BY <1>5, <1>6

\* Taking a set of slots out takes its size off the counter.
LEMMA ReleaseStep ==
  ASSUME SlotInv, NEW S, Release(S), limit \in Nat, limit' = limit, NoLostWakeup, TypeOK
  PROVE  SlotInv' /\ NoLostWakeup'
<1>1. S \subseteq held /\ IsFiniteSet(held) /\ IsFiniteSet(S)
  BY FS_Subset DEF Release, SlotInv, AskedBefore
<1>2. Cardinality(S) \in Nat /\ Cardinality(S) <= active
  BY <1>1, FS_Subset, FS_CardinalityType DEF SlotInv, CounterIsExact
<1>3. IsFiniteSet(held \ S) /\ Cardinality(held \ S) = Cardinality(held) - Cardinality(S)
  <2>1. held \cap S = S
    BY <1>1
  <2> QED
    BY <1>1, <2>1, FS_Difference
<1> DEFINE freed == MinOf(Cardinality(S), active)
<1>4. freed = Cardinality(S)
  BY <1>2 DEF MinOf, SlotInv, SlotTypes
<1>5. /\ held' = held \ S /\ active' = active - freed
      /\ notified' = NotifiedAfter(freed) /\ queue' = queue /\ requested' = requested
  BY DEF Release
<1>6. /\ NotifiedAfter(freed) \in 0 .. Len(queue)
      /\ NotifiedAfter(freed) = notified + freed \/ NotifiedAfter(freed) = Len(queue)
  BY <1>2, <1>4, NotifiedAfterInRange
<1> HIDE DEF freed
<1>7. SeqElems(queue)' = SeqElems(queue)
  BY <1>5 DEF SeqElems
<1>8. SlotTypes' /\ AskedBefore'
  BY <1>2, <1>3, <1>4, <1>5, <1>6, <1>7 DEF SlotInv, SlotTypes, AskedBefore
<1>9. CounterIsExact'
  BY <1>3, <1>4, <1>5 DEF SlotInv, CounterIsExact
<1>10. WaitersAreDistinct'
  BY <1>5, <1>7 DEF SlotInv, WaitersAreDistinct
<1>11. NoLostWakeup'
  <2>1. Len(queue) \in Nat
    BY LenProperties DEF SlotInv, SlotTypes
  <2> QED
    BY <2>1, <1>2, <1>4, <1>5, <1>6 DEF NoLostWakeup, SlotInv, SlotTypes
<1> QED
  BY <1>8, <1>9, <1>10, <1>11 DEF SlotInv

\* The slots are left alone.
LEMMA SlotStutter ==
  ASSUME SlotInv, UNCHANGED <<active, queue, held, requested>>, notified' \in 0 .. Len(queue)
  PROVE  SlotInv'
<1>1. SeqElems(queue)' = SeqElems(queue)
  BY DEF SeqElems
<1>2. SlotTypes' /\ AskedBefore'
  BY <1>1 DEF SlotInv, SlotTypes, AskedBefore
<1>3. CounterIsExact' /\ WaitersAreDistinct'
  BY <1>1 DEF SlotInv, CounterIsExact, WaitersAreDistinct
<1> QED
  BY <1>2, <1>3 DEF SlotInv

-----------------------------------------------------------------------------
(***************************************************************************)
(* The effect on the scheduled adjustments                                 *)
(***************************************************************************)
AdjustTypes ==
  /\ rateLimited \subseteq Slot
  /\ adjusting \in BOOLEAN
  /\ increases \in Nat
  /\ decreases \in Nat
  /\ rateDecreases \in Nat

LEMMA MaybeAdjustStep ==
  ASSUME AdjustTypes, OneAdjustment, MaybeAdjust
  PROVE  /\ adjusting' \in BOOLEAN /\ increases' \in Nat /\ decreases' \in Nat
         /\ OneAdjustment'
<1>1. CASE UNCHANGED adjustVars
  <2>1. adjusting' = adjusting /\ increases' = increases /\ decreases' = decreases
    BY <1>1 DEF adjustVars
  <2> QED
    BY <2>1 DEF AdjustTypes, OneAdjustment
<1>2. CASE /\ ~adjusting
           /\ adjusting' = TRUE
           /\ \/ increases' = increases + 1 /\ UNCHANGED decreases
              \/ decreases' = decreases + 1 /\ UNCHANGED increases
  <2>1. increases = 0 /\ decreases = 0
    <3>1. increases + decreases = 0
      BY <1>2 DEF OneAdjustment
    <3> QED
      BY <3>1 DEF AdjustTypes
  <2>2. \/ increases' = 1 /\ decreases' = 0
        \/ increases' = 0 /\ decreases' = 1
    BY <1>2, <2>1
  <2> QED
    BY <1>2, <2>2 DEF OneAdjustment
<1> QED
  BY <1>1, <1>2 DEF MaybeAdjust

LEMMA IInvParts ==
  IInv <=> /\ SlotInv /\ AdjustTypes /\ limit \in Nat \ {0}
           /\ NoLostWakeup /\ OneAdjustment /\ LimitInBounds
BY DEF IInv, SlotInv, SlotTypes, AdjustTypes, TypeOK

LEMMA IInvPartsNext ==
  IInv' <=> /\ SlotInv' /\ AdjustTypes' /\ (limit \in Nat \ {0})'
            /\ NoLostWakeup' /\ OneAdjustment' /\ LimitInBounds'
BY DEF IInv, SlotInv, SlotTypes, AdjustTypes, TypeOK

-----------------------------------------------------------------------------
(***************************************************************************)
(* The invariant is inductive.                                             *)
(***************************************************************************)
LEMMA InitEstablishesIInv == Init => IInv
<1> SUFFICES ASSUME Init PROVE IInv
  OBVIOUS
<1>1. queue \in Seq(Slot) /\ Len(queue) = 0
  BY EmptySeq DEF Init
<1>2. SeqElems(queue) = {}
  BY <1>1 DEF SeqElems
<1>3. IsFiniteSet(held) /\ Cardinality(held) = 0
  BY FS_EmptySet DEF Init
<1>4. SlotInv
  BY <1>1, <1>2, <1>3 DEF Init, SlotInv, SlotTypes, AskedBefore, CounterIsExact,
     WaitersAreDistinct
<1>5. AdjustTypes /\ OneAdjustment /\ NoLostWakeup
  <2>1. adjusting \in BOOLEAN
    BY DEF Init
  <2>2. AdjustTypes
    BY <2>1 DEF Init, AdjustTypes
  <2>3. OneAdjustment
    BY DEF Init, OneAdjustment
  <2>4. NoLostWakeup
    BY <1>1 DEF Init, NoLostWakeup
  <2> QED
    BY <2>2, <2>3, <2>4
<1>6. limit \in Nat \ {0} /\ LimitInBounds
  BY ConcurrencyAssumption DEF Init, LimitInBounds, Lowest, Highest, MinOf, MaxOf
<1> QED
  BY <1>4, <1>5, <1>6, IInvParts

LEMMA StepPreservesIInv == IInv /\ [Next]_vars => IInv'
<1> SUFFICES ASSUME IInv, [Next]_vars PROVE IInv'
  OBVIOUS
<1>1. /\ SlotInv /\ AdjustTypes /\ limit \in Nat \ {0}
      /\ NoLostWakeup /\ OneAdjustment /\ LimitInBounds /\ TypeOK
  BY IInvParts DEF IInv
<1>2. ASSUME NEW s \in Slot, Enter(s) PROVE IInv'
  <2>1. Acquire(s) /\ UNCHANGED <<limit, rateLimited, adjustVars, rateDecreases>>
    BY <1>2 DEF Enter
  <2>2. SlotInv' /\ NoLostWakeup'
    BY <1>1, <2>1, AcquireStep
  <2>3. AdjustTypes' /\ (limit \in Nat \ {0})' /\ OneAdjustment' /\ LimitInBounds'
    BY <1>1, <2>1 DEF AdjustTypes, OneAdjustment, LimitInBounds, adjustVars
  <2> QED
    BY <2>2, <2>3, IInvPartsNext
<1>3. ASSUME WakeUp PROVE IInv'
  <2>1. Resume /\ UNCHANGED <<limit, rateLimited, adjustVars, rateDecreases>>
    BY <1>3 DEF WakeUp
  <2>2. SlotInv' /\ NoLostWakeup'
    BY <1>1, <2>1, ResumeStep
  <2>3. AdjustTypes' /\ (limit \in Nat \ {0})' /\ OneAdjustment' /\ LimitInBounds'
    BY <1>1, <2>1 DEF AdjustTypes, OneAdjustment, LimitInBounds, adjustVars
  <2> QED
    BY <2>2, <2>3, IInvPartsNext
<1>4. ASSUME NEW S \in SUBSET held, Complete(S) PROVE IInv'
  <2>1. /\ Release(S) /\ MaybeAdjust
        /\ UNCHANGED <<limit, rateLimited, rateDecreases>>
    BY <1>4 DEF Complete
  <2>2. SlotInv' /\ NoLostWakeup'
    BY <1>1, <2>1, ReleaseStep
  <2>3. AdjustTypes' /\ OneAdjustment'
    BY <1>1, <2>1, MaybeAdjustStep DEF AdjustTypes
  <2>4. (limit \in Nat \ {0})' /\ LimitInBounds'
    BY <1>1, <2>1 DEF LimitInBounds
  <2> QED
    BY <2>2, <2>3, <2>4, IInvPartsNext
<1>5. ASSUME NEW s \in Slot, RateLimit(s) PROVE IInv'
  <2>1. /\ rateLimited' = rateLimited \cup {s} /\ rateDecreases' = rateDecreases + 1
        /\ MaybeAdjust /\ UNCHANGED <<active, queue, notified, held, requested, limit>>
    BY <1>5 DEF RateLimit, slotVars
  <2>2. SlotInv'
    BY <1>1, <2>1, SlotStutter DEF SlotInv, SlotTypes
  <2>3. AdjustTypes' /\ OneAdjustment'
    BY <1>1, <2>1, MaybeAdjustStep DEF AdjustTypes
  <2>4. NoLostWakeup' /\ (limit \in Nat \ {0})' /\ LimitInBounds'
    BY <1>1, <2>1 DEF LimitInBounds, NoLostWakeup
  <2> QED
    BY <2>2, <2>3, <2>4, IInvPartsNext
<1>6. ASSUME Increase PROVE IInv'
  <2>1. /\ increases > 0 /\ increases' = increases - 1 /\ adjusting' = FALSE
        /\ UNCHANGED <<active, queue, held, requested, rateLimited, decreases,
                       rateDecreases>>
    BY <1>6 DEF Increase
  <2>2. AdjustTypes'
    <3>1. adjusting' \in BOOLEAN
      BY <2>1
    <3>2. /\ rateLimited' \subseteq Slot /\ increases' \in Nat
          /\ decreases' \in Nat /\ rateDecreases' \in Nat
      BY <1>1, <2>1 DEF AdjustTypes
    <3> QED
      BY <3>1, <3>2 DEF AdjustTypes
  <2>3. OneAdjustment'
    BY <1>1, <2>1 DEF AdjustTypes, OneAdjustment
  <2>4. CASE limit < MaxConcurrency
    <3>1. limit' = Raised /\ notified' = NotifiedAfter(Raised - limit)
      BY <1>6, <2>4 DEF Increase
    <3>2. Raised \in limit + 1 .. MaxConcurrency
      BY <1>1, <2>4, RaisedInRange
    <3>3. Raised - limit \in Nat
      BY <1>1, <3>2, ConcurrencyAssumption
    <3>4. /\ notified' \in 0 .. Len(queue)
          /\ notified' = notified + (limit' - limit) \/ notified' = Len(queue)
      BY <1>1, <3>1, <3>3, NotifiedAfterInRange
    <3>5. SlotInv'
      BY <1>1, <2>1, <3>4, SlotStutter
    <3>6. NoLostWakeup'
      <4>1. Len(queue) \in Nat
        BY <1>1, LenProperties DEF SlotInv, SlotTypes
      <4> QED
        BY <1>1, <2>1, <3>1, <3>2, <3>4, <4>1, ConcurrencyAssumption
        DEF NoLostWakeup, SlotInv, SlotTypes
    <3>7. (limit \in Nat \ {0})' /\ LimitInBounds'
      BY <1>1, <3>1, <3>2, ConcurrencyAssumption
      DEF LimitInBounds, Lowest, Highest, MinOf, MaxOf
    <3> QED
      BY <2>2, <2>3, <3>5, <3>6, <3>7, IInvPartsNext
  <2>5. CASE ~(limit < MaxConcurrency)
    <3>1. limit' = limit /\ notified' = notified
      BY <1>6, <2>5 DEF Increase
    <3>2. SlotInv'
      BY <1>1, <2>1, <3>1, SlotStutter DEF SlotInv, SlotTypes
    <3>3. NoLostWakeup' /\ (limit \in Nat \ {0})' /\ LimitInBounds'
      BY <1>1, <2>1, <3>1 DEF NoLostWakeup, LimitInBounds
    <3> QED
      BY <2>2, <2>3, <3>2, <3>3, IInvPartsNext
  <2> QED
    BY <2>4, <2>5
<1>7. ASSUME Decrease PROVE IInv'
  <2>1. /\ decreases > 0 /\ decreases' = decreases - 1 /\ adjusting' = FALSE
        /\ UNCHANGED <<active, queue, notified, held, requested, rateLimited,
                       increases, rateDecreases>>
        /\ Lower(DecreaseFraction)
    BY <1>7 DEF Decrease, slotVars
  <2>2. SlotInv'
    BY <1>1, <2>1, SlotStutter DEF SlotInv, SlotTypes
  <2>3. AdjustTypes'
    <3>1. adjusting' \in BOOLEAN
      BY <2>1
    <3>2. /\ rateLimited' \subseteq Slot /\ increases' \in Nat
          /\ decreases' \in Nat /\ rateDecreases' \in Nat
      BY <1>1, <2>1 DEF AdjustTypes
    <3> QED
      BY <3>1, <3>2 DEF AdjustTypes
  <2>4. OneAdjustment'
    BY <1>1, <2>1 DEF AdjustTypes, OneAdjustment
  <2>5. limit' \in Nat \ {0} /\ limit' <= limit /\ LimitInBounds'
    BY <1>1, <2>1, LowerStep, FractionsAreNat
  <2>6. NoLostWakeup'
    BY <1>1, <2>1, <2>5 DEF NoLostWakeup, SlotInv, SlotTypes
  <2> QED
    BY <2>2, <2>3, <2>4, <2>5, <2>6, IInvPartsNext
<1>8. ASSUME RateDecrease PROVE IInv'
  <2>1. /\ rateDecreases > 0 /\ rateDecreases' = rateDecreases - 1
        /\ UNCHANGED <<active, queue, notified, held, requested, rateLimited,
                       adjusting, increases, decreases>>
        /\ Lower(RateLimitFraction)
    BY <1>8 DEF RateDecrease, slotVars, adjustVars
  <2>2. SlotInv'
    BY <1>1, <2>1, SlotStutter DEF SlotInv, SlotTypes
  <2>3. AdjustTypes' /\ OneAdjustment'
    BY <1>1, <2>1 DEF AdjustTypes, OneAdjustment
  <2>4. limit' \in Nat \ {0} /\ limit' <= limit /\ LimitInBounds'
    BY <1>1, <2>1, LowerStep, FractionsAreNat
  <2>5. NoLostWakeup'
    BY <1>1, <2>1, <2>4 DEF NoLostWakeup, SlotInv, SlotTypes
  <2> QED
    BY <2>2, <2>3, <2>4, <2>5, IInvPartsNext
<1>9. ASSUME UNCHANGED vars PROVE IInv'
  <2>1. UNCHANGED <<active, queue, notified, held, requested, limit, rateLimited,
                    adjusting, increases, decreases, rateDecreases>>
    BY <1>9 DEF vars, slotVars, adjustVars
  <2>2. SlotInv'
    BY <1>1, <2>1, SlotStutter DEF SlotInv, SlotTypes
  <2>3. /\ AdjustTypes' /\ OneAdjustment' /\ (limit \in Nat \ {0})'
        /\ NoLostWakeup' /\ LimitInBounds'
    BY <1>1, <2>1 DEF AdjustTypes, OneAdjustment, NoLostWakeup, LimitInBounds
  <2> QED
    BY <2>2, <2>3, IInvPartsNext
<1> QED
  BY <1>2, <1>3, <1>4, <1>5, <1>6, <1>7, <1>8, <1>9 DEF Next

(***************************************************************************)
(* The inductive invariant holds in every reachable state.                 *)
(***************************************************************************)
THEOREM InductiveInvariant == Spec => []IInv
BY InitEstablishesIInv, StepPreservesIInv, PTL DEF Spec

(***************************************************************************)
(* Every variable of the throttle has its type.                            *)
(***************************************************************************)
THEOREM TypeCorrectness == Spec => []TypeOK
<1>1. IInv => TypeOK
  BY DEF IInv
<1> QED
  BY <1>1, InductiveInvariant, PTL

(***************************************************************************)
(* The counter _active_tasks is the number of operations inside the block, *)
(* and no slot is leaked or given back twice.                              *)
(***************************************************************************)
THEOREM CounterCorrectness == Spec => []CounterIsExact
<1>1. IInv => CounterIsExact
  BY DEF IInv
<1> QED
  BY <1>1, InductiveInvariant, PTL

(***************************************************************************)
(* No wake-up is lost: a waiter sleeps only while all slots are spoken for.*)
(***************************************************************************)
THEOREM WakeupCorrectness == Spec => []NoLostWakeup
<1>1. IInv => NoLostWakeup
  BY DEF IInv
<1> QED
  BY <1>1, InductiveInvariant, PTL

(***************************************************************************)
(* Nobody waits twice or while inside.                                     *)
(***************************************************************************)
THEOREM WaiterCorrectness == Spec => []WaitersAreDistinct
<1>1. IInv => WaitersAreDistinct
  BY DEF IInv
<1> QED
  BY <1>1, InductiveInvariant, PTL

(***************************************************************************)
(* The _adjusting flag and the scheduled adjustments agree.                *)
(***************************************************************************)
THEOREM AdjustmentCorrectness == Spec => []OneAdjustment
<1>1. IInv => OneAdjustment
  BY DEF IInv
<1> QED
  BY <1>1, InductiveInvariant, PTL

(***************************************************************************)
(* The limit stays in its bounds, for any factors.                         *)
(***************************************************************************)
THEOREM LimitCorrectness == Spec => []LimitInBounds
<1>1. IInv => LimitInBounds
  BY DEF IInv
<1> QED
  BY <1>1, InductiveInvariant, PTL

-----------------------------------------------------------------------------
(***************************************************************************)
(* Refinement                                                              *)
(***************************************************************************)
LEMMA MovingTheLimit ==
  ASSUME IInv', held' = held
  PROVE  Pool!MoveLimit
<1>1. limit' \in Nat \ {0} /\ LimitInBounds'
  BY DEF IInv, TypeOK
<1>2. Lowest \in Nat /\ Highest \in Nat
  BY ConcurrencyAssumption DEF Lowest, Highest, MinOf, MaxOf
<1> QED
  BY <1>1, <1>2 DEF LimitInBounds, Pool!MoveLimit

LEMMA StepRefinesPool == IInv /\ IInv' /\ [Next]_vars => [Pool!Next]_(Pool!vars)
<1> SUFFICES ASSUME IInv, IInv', [Next]_vars PROVE [Pool!Next]_(Pool!vars)
  OBVIOUS
<1>1. /\ SlotInv /\ limit \in Nat /\ active = Cardinality(held)
      /\ held \subseteq Slot /\ queue \in Seq(Slot)
  BY IInvParts DEF IInv, TypeOK, CounterIsExact
<1>2. ASSUME NEW s \in Slot, s \notin held, HasRoom, held' = held \cup {s}, limit' = limit
      PROVE  Pool!Next
  <2>1. Cardinality(held) < limit
    BY <1>1, <1>2 DEF HasRoom
  <2>2. Pool!Admit(s)
    BY <2>1, <1>2 DEF Pool!Admit, Pool!Cardinality, Cardinality
  <2> QED
    BY <2>2 DEF Pool!Next
<1>3. ASSUME held' = held, limit' = limit PROVE UNCHANGED Pool!vars
  BY <1>3 DEF Pool!vars
<1>4. ASSUME NEW s \in Slot, Enter(s) PROVE [Pool!Next]_(Pool!vars)
  <2>1. Acquire(s) /\ limit' = limit
    BY <1>4 DEF Enter
  <2>2. s \notin held
    BY <1>1, <2>1 DEF Acquire, SlotInv, AskedBefore
  <2>3. CASE HasRoom
    BY <2>1, <2>2, <2>3, <1>2 DEF Acquire
  <2>4. CASE ~HasRoom
    BY <2>1, <2>4, <1>3 DEF Acquire
  <2> QED
    BY <2>3, <2>4
<1>5. ASSUME WakeUp PROVE [Pool!Next]_(Pool!vars)
  <2>1. Resume /\ limit' = limit
    BY <1>5 DEF WakeUp
  <2>2. queue # << >>
    BY <1>1, <2>1, EmptySeq DEF Resume, SlotInv, SlotTypes
  <2>3. Head(queue) \in Slot /\ Head(queue) \notin held
    <3>1. Distinct(queue)
      BY <1>1 DEF SlotInv, WaitersAreDistinct, Distinct
    <3>2. Head(queue) \in Slot /\ Head(queue) \in SeqElems(queue)
      BY <1>1, <2>2, <3>1, TailOfWaiters
    <3> QED
      BY <1>1, <3>2 DEF SlotInv, WaitersAreDistinct
  <2>4. CASE HasRoom
    BY <2>1, <2>3, <2>4, <1>2 DEF Resume
  <2>5. CASE ~HasRoom
    BY <2>1, <2>5, <1>3 DEF Resume
  <2> QED
    BY <2>4, <2>5
<1>6. ASSUME NEW S \in SUBSET held, Complete(S) PROVE [Pool!Next]_(Pool!vars)
  <2>1. S \subseteq held /\ held' = held \ S /\ limit' = limit
    BY <1>6 DEF Complete, Release
  <2> QED
    BY <2>1 DEF Pool!Next, Pool!Leave
<1>7. ASSUME NEW s \in Slot, RateLimit(s) PROVE [Pool!Next]_(Pool!vars)
  BY <1>3, <1>7 DEF RateLimit, slotVars
<1>8. ASSUME Increase \/ Decrease \/ RateDecrease PROVE [Pool!Next]_(Pool!vars)
  <2>1. held' = held
    BY <1>8 DEF Increase, Decrease, RateDecrease, slotVars
  <2> QED
    BY <2>1, MovingTheLimit DEF Pool!Next
<1>9. ASSUME UNCHANGED vars PROVE [Pool!Next]_(Pool!vars)
  BY <1>3, <1>9 DEF vars, slotVars
<1> QED
  BY <1>4, <1>5, <1>6, <1>7, <1>8, <1>9 DEF Next

(***************************************************************************)
(* The throttle implements the slot pool: operations are admitted one by   *)
(* one, and only while fewer than the current limit are inside.            *)
(***************************************************************************)
THEOREM ThrottleImplementsPool == Spec => ImplementsSlotPool
<1>1. Init => Pool!Init
  BY DEF Init, Pool!Init
<1>2. IInv /\ IInv' /\ [Next]_vars => [Pool!Next]_(Pool!vars)
  BY StepRefinesPool
<1> QED
  BY <1>1, <1>2, InductiveInvariant, PTL DEF Spec, ImplementsSlotPool, Pool!Spec

(***************************************************************************)
(* The bound on concurrency follows from the slot pool alone: it admits    *)
(* below the limit, and the limit is never above the highest one.          *)
(***************************************************************************)
LEMMA PoolStepIsBounded ==
  ASSUME IInv, ConcurrencyIsBounded, [Pool!Next]_(Pool!vars)
  PROVE  ConcurrencyIsBounded'
<1>1. /\ IsFiniteSet(held) /\ Cardinality(held) \in Nat
      /\ limit \in Nat /\ limit <= Highest /\ Highest \in Nat
  <2>1. IsFiniteSet(held) /\ limit \in Nat /\ limit <= Highest
    BY DEF IInv, AskedBefore, TypeOK, LimitInBounds
  <2>2. Highest \in Nat
    BY ConcurrencyAssumption DEF Highest, MaxOf
  <2> QED
    BY <2>1, <2>2, FS_CardinalityType
<1>2. ASSUME NEW s \in Slot, Pool!Admit(s) PROVE ConcurrencyIsBounded'
  <2>1. Cardinality(held) < limit /\ held' = held \cup {s} /\ s \notin held
    BY <1>2 DEF Pool!Admit, Pool!Cardinality, Cardinality
  <2>2. Cardinality(held') = Cardinality(held) + 1
    BY <1>1, <2>1, FS_AddElement
  <2>3. Cardinality(held') \in Nat
    BY <1>1, <2>1, FS_AddElement, FS_CardinalityType
  <2> DEFINE n == Cardinality(held)
             m == Cardinality(held')
  <2>4. n \in Nat /\ m \in Nat /\ n < limit /\ m = n + 1
    BY <1>1, <2>1, <2>2, <2>3
  <2> HIDE DEF n, m
  <2>5. m <= Highest
    BY <1>1, <2>4
  <2> QED
    BY <2>5 DEF ConcurrencyIsBounded, Highest, m
<1>3. ASSUME NEW S \in SUBSET held, Pool!Leave(S) PROVE ConcurrencyIsBounded'
  <2>1. held' \in SUBSET held
    BY <1>3 DEF Pool!Leave
  <2>2. Cardinality(held') <= Cardinality(held) /\ Cardinality(held') \in Nat
    BY <1>1, <2>1, FS_Subset, FS_CardinalityType
  <2> QED
    BY <1>1, <2>2 DEF ConcurrencyIsBounded, Highest
<1>4. ASSUME held' = held PROVE ConcurrencyIsBounded'
  BY <1>4 DEF ConcurrencyIsBounded, Highest
<1> QED
  BY <1>2, <1>3, <1>4 DEF Pool!Next, Pool!MoveLimit, Pool!vars

LEMMA BoundInitially == Init => ConcurrencyIsBounded
<1>1. Highest \in Nat
  BY ConcurrencyAssumption DEF Highest, MaxOf
<1> QED
  BY <1>1, FS_EmptySet DEF Init, ConcurrencyIsBounded

LEMMA StepIsBounded == IInv /\ ConcurrencyIsBounded /\ [Next]_vars => ConcurrencyIsBounded'
BY StepPreservesIInv, StepRefinesPool, PoolStepIsBounded

(***************************************************************************)
(* "Never exceed max_concurrency" holds of the operations inside, not only *)
(* of the limit: woken operations check it again, and those that overtake  *)
(* them are counted.                                                       *)
(***************************************************************************)
THEOREM ConcurrencyBound == Spec => []ConcurrencyIsBounded
BY BoundInitially, StepIsBounded, InductiveInvariant, PTL DEF Spec
=============================================================================
