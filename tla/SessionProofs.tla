---------------------------- MODULE SessionProofs ----------------------------
(***************************************************************************)
(* Proofs about Session for any plan, any number of runs and any number of *)
(* stops at any point: what a resume may rely on in the tables that the    *)
(* runs before it left behind.                                             *)
(***************************************************************************)
EXTENDS Session, PlanProofs, FiniteSetTheorems, SequenceTheorems

-----------------------------------------------------------------------------
(***************************************************************************)
(* The inductive invariant                                                 *)
(***************************************************************************)
\* Session ids are taken in turn; nothing is known of one before its run.
SessionsInTurn ==
  /\ phase # "down" => session <= runs
  /\ \A i \in DOMAIN checkpoints : checkpoints[i].session <= runs
  /\ \A s \in SessionId : s > runs => succeeded[s] = {}

\* What lies below a checkpoint is settled, and so is what lies below the
\* batch of the run, and what the run is done with itself; the run's successes
\* are successes of the session.
Tried == {"ok", "failed", "raised"}
CheckpointsAreSettled ==
  \A i \in DOMAIN checkpoints : \A o \in Op :
    BatchOf[o] < checkpoints[i].batch => o \in settled[checkpoints[i].session]
RunIsSettled ==
  /\ phase = "executing" => \A o \in Op : BatchOf[o] < batch => o \in settled[session]
  /\ \A o \in Op : outcome[o] \in Tried => o \in settled[session]
  /\ \A o \in Op : outcome[o] = "ok" => o \in succeeded[session]

\* A run tries operations from its first to its current batch only.
TriedInOrder ==
  /\ start <= batch
  /\ \A o \in Op : outcome[o] \in Tried => start <= BatchOf[o] /\ BatchOf[o] <= batch

\* Rows of created resources are those of creates that succeeded, and are
\* deleted only once the session is marked completed.
Creates == {o \in Op : Kind[o] = "create"}
RowsAreKept ==
  /\ \A s \in SessionId :
       /\ saved[s] \subseteq succeeded[s]
       /\ WasCompleted(s) \/ succeeded[s] \cap Creates \subseteq saved[s]
  /\ phase = "clearing" => WasCompleted(session)

\* What a run can know of the session's creates, it does know.
IdsAreKnown ==
  phase = "executing" =>
    WasCompleted(session) \/ succeeded[session] \cap Creates \cap Reloaded \subseteq created

\* While no run was stopped, what succeeded is in the changelog or among the
\* results that the runner has yet to look at.
LogIsComplete ==
  stops = 0 =>
    /\ \A s \in SessionId : changelog[s] =
         IF phase # "down" /\ s = session
           THEN succeeded[s] \ {o \in Op : outcome[o] = "ok" /\ o \notin changelog[s]}
           ELSE succeeded[s]
    /\ \A o \in recorded : outcome[o] = "ok" => o \in changelog[session]
    /\ phase = "executing" => recorded = {}
    /\ phase \in {"closing", "clearing"} => Unrecorded = {}

\* Rows that end a session repeat the batch of the session's last
\* in_progress row.
EndsRepeatTheBatch ==
  \A i, j \in DOMAIN checkpoints :
    \/ ~(i < j /\ checkpoints[i].session = checkpoints[j].session)
    \/ checkpoints[i].batch = checkpoints[j].batch
    \/ \E k \in InProgress :
         i < k /\ k <= j /\ checkpoints[k].session = checkpoints[i].session

\* A run is never behind the checkpoints of its session.
RunIsNotBehind ==
  phase = "executing" /\ HasCheckpoint(session) => Latest(session).batch <= batch

IInv ==
  /\ TypeOK
  /\ SessionsInTurn
  /\ CheckpointsAreSettled
  /\ RunIsSettled
  /\ TriedInOrder
  /\ RowsAreKept
  /\ KnownIdsAreTheSessions
  /\ IdsAreKnown
  /\ UnresolvedForAReason
  /\ LogIsComplete
  /\ EndsRepeatTheBatch
  /\ RunIsNotBehind

-----------------------------------------------------------------------------
(***************************************************************************)
(* The last row of a session                                               *)
(***************************************************************************)
LEMMA MaxIsLargest ==
  ASSUME NEW S \in SUBSET Nat, IsFiniteSet(S), S # {}
  PROVE  Max(S) \in S /\ \A y \in S : y <= Max(S)
<1> DEFINE Above == [x \in S |-> {y \in S : y > x}]
           N     == {Cardinality(Above[x]) : x \in S}
<1>1. \A x \in S : IsFiniteSet(Above[x]) /\ Cardinality(Above[x]) \in Nat
  BY FS_Subset, FS_CardinalityType
<1>2. N \subseteq Nat /\ N # {}
  BY <1>1
<1>3. PICK n \in N : \A m \in N : ~(<<m, n>> \in OpToRel(<, Nat))
  BY <1>2, WFMin, NatLessThanWellFounded
<1>4. PICK x \in S : n = Cardinality(Above[x])
  BY <1>3
<1>5. ASSUME NEW y \in S, y > x PROVE FALSE
  <2>1. Above[y] \subseteq Above[x] /\ Above[y] # Above[x]
    <3>1. y \in Above[x] /\ y \notin Above[y]
      BY <1>5
    <3>2. \A z \in S : z > y => z > x
      BY <1>5
    <3> QED
      BY <3>1, <3>2
  <2> DEFINE k == Cardinality(Above[y])
             m == Cardinality(Above[x])
  <2>2. k <= m /\ m # k
    BY <2>1, <1>1, FS_Subset
  <2>3. k \in Nat /\ m \in Nat /\ k \in N /\ n = m
    BY <1>1, <1>4, <1>5
  <2> HIDE DEF k, m, N
  <2>4. k < n
    BY <2>2, <2>3
  <2> QED
    BY <1>3, <2>3, <2>4 DEF OpToRel
<1>6. \A y \in S : x >= y
  BY <1>5
<1>7. \E z \in S : \A y \in S : z >= y
  BY <1>6
<1> DEFINE C == CHOOSE z : z \in S /\ \A y \in S : z >= y
<1>8. C \in S /\ \A y \in S : C >= y
  BY <1>7, Zenon
<1>9. C = Max(S)
  BY DEF Max
<1> QED
  BY <1>8, <1>9

\* The last batch comes last.
LEMMA LastBatchIsLast == LastBatch \in Nat /\ \A o \in Op : BatchOf[o] <= LastBatch
<1> DEFINE T == {BatchOf[o] : o \in Op}
<1>1. T \subseteq Nat /\ T # {}
  BY PlanAssumption, SessionAssumption
<1>2. BatchOf \in Surjection(Op, T)
  BY PlanAssumption DEF Surjection
<1>3. IsFiniteSet(T)
  BY <1>2, FS_Surjection, PlanAssumption
<1>4. Max(T) \in T /\ \A n \in T : n <= Max(T)
  BY <1>1, <1>3, MaxIsLargest
<1> QED
  BY <1>1, <1>4 DEF LastBatch

\* Rows are numbered from one.
LEMMA RowNumbers ==
  ASSUME TypeOK
  PROVE  /\ DOMAIN checkpoints = 1 .. Len(checkpoints)
         /\ Len(checkpoints) \in Nat
         /\ \A i \in DOMAIN checkpoints : checkpoints[i] \in Row
         /\ InProgress \in SUBSET Nat /\ IsFiniteSet(InProgress)
<1>1. checkpoints \in Seq(Row)
  BY DEF TypeOK
<1>2. /\ DOMAIN checkpoints = 1 .. Len(checkpoints)
      /\ Len(checkpoints) \in Nat
      /\ \A i \in DOMAIN checkpoints : checkpoints[i] \in Row
  BY <1>1
<1>3. InProgress \subseteq 1 .. Len(checkpoints)
  BY <1>2 DEF InProgress
<1>4. IsFiniteSet(1 .. Len(checkpoints))
  BY <1>2, FS_Interval
<1>5. IsFiniteSet(InProgress)
  BY <1>3, <1>4, FS_Subset
<1>6. InProgress \subseteq Nat
  BY <1>3
<1> QED
  BY <1>2, <1>5, <1>6

\* The latest checkpoint of a session is its last row.
LEMMA LatestIsLast ==
  ASSUME TypeOK, NEW s \in SessionId, HasCheckpoint(s)
  PROVE  /\ Max(Rows(s)) \in Rows(s)
         /\ \A i \in Rows(s) : i <= Max(Rows(s))
         /\ Latest(s) \in Row
<1>1. Rows(s) \subseteq 1 .. Len(checkpoints)
  BY RowNumbers DEF Rows
<1>2. IsFiniteSet(1 .. Len(checkpoints))
  BY RowNumbers, FS_Interval
<1>3. IsFiniteSet(Rows(s)) /\ Rows(s) \in SUBSET Nat
  <2>1. IsFiniteSet(Rows(s))
    BY <1>1, <1>2, FS_Subset
  <2>2. Rows(s) \subseteq Nat
    BY <1>1
  <2> QED
    BY <2>1, <2>2
<1>4. Max(Rows(s)) \in Rows(s) /\ \A i \in Rows(s) : i <= Max(Rows(s))
  BY <1>3, MaxIsLargest DEF HasCheckpoint
<1> QED
  BY <1>4, RowNumbers DEF Rows, Latest

\* The row a session is resumed from is the last in_progress row.
LEMMA ResumableIsLast ==
  ASSUME TypeOK, InProgress # {}
  PROVE  /\ Max(InProgress) \in InProgress
         /\ \A i \in InProgress : i <= Max(InProgress)
         /\ Resumable \in Row
<1>1. Max(InProgress) \in InProgress /\ \A i \in InProgress : i <= Max(InProgress)
  BY RowNumbers, MaxIsLargest
<1> QED
  BY <1>1, RowNumbers DEF Resumable, InProgress

-----------------------------------------------------------------------------
(***************************************************************************)
(* Writing a checkpoint                                                    *)
(***************************************************************************)
LEMMA SaveAppends ==
  ASSUME TypeOK, NEW s \in SessionId, NEW b \in 0 .. LastBatch,
         NEW st \in {"in_progress", "completed", "failed"}, Save(s, b, st)
  PROVE  /\ checkpoints' \in Seq(Row)
         /\ DOMAIN checkpoints' = DOMAIN checkpoints \cup {Len(checkpoints) + 1}
         /\ \A i \in DOMAIN checkpoints :
              i \in Nat /\ i < Len(checkpoints) + 1 /\ checkpoints'[i] = checkpoints[i]
         /\ checkpoints'[Len(checkpoints) + 1] = [session |-> s, batch |-> b, status |-> st]
<1> DEFINE row == [session |-> s, batch |-> b, status |-> st]
<1>1. checkpoints \in Seq(Row) /\ row \in Row
  BY DEF TypeOK, Row
<1>2. checkpoints' = Append(checkpoints, row)
  BY DEF Save
<1> HIDE DEF row
<1>3. /\ checkpoints' \in Seq(Row)
      /\ Len(checkpoints') = Len(checkpoints) + 1
      /\ \A i \in 1 .. Len(checkpoints) : checkpoints'[i] = checkpoints[i]
      /\ checkpoints'[Len(checkpoints) + 1] = row
  BY <1>1, <1>2, AppendProperties
<1>4. DOMAIN checkpoints' = 1 .. Len(checkpoints')
  BY <1>3
<1>5. DOMAIN checkpoints = 1 .. Len(checkpoints) /\ Len(checkpoints) \in Nat
  BY RowNumbers
<1> QED
  BY <1>3, <1>4, <1>5 DEF row

\* The new row is the latest of its session; other sessions keep theirs, and
\* no session forgets that it was completed.
LEMMA SaveIsLatest ==
  ASSUME TypeOK, TypeOK', NEW s \in SessionId, NEW b \in 0 .. LastBatch,
         NEW st \in {"in_progress", "completed", "failed"}, Save(s, b, st)
  PROVE  /\ HasCheckpoint(s)' /\ Latest(s)'.batch = b
         /\ \A x \in SessionId \ {s} : Rows(x)' = Rows(x)
         /\ \A x \in SessionId \ {s} : HasCheckpoint(x) => Latest(x)' = Latest(x)
         /\ \A x \in SessionId : WasCompleted(x) => WasCompleted(x)'
         /\ st = "completed" => WasCompleted(s)'
<1> DEFINE n == Len(checkpoints) + 1
<1>1. /\ DOMAIN checkpoints' = DOMAIN checkpoints \cup {n}
      /\ \A i \in DOMAIN checkpoints :
           i \in Nat /\ i < n /\ checkpoints'[i] = checkpoints[i]
      /\ checkpoints'[n] = [session |-> s, batch |-> b, status |-> st]
      /\ n \in Nat
  <2>1. n \in Nat
    BY RowNumbers
  <2> QED
    BY <2>1, SaveAppends
<1> HIDE DEF n
<1>2. Rows(s)' = Rows(s) \cup {n}
  BY <1>1 DEF Rows
<1>3. \A x \in SessionId \ {s} : Rows(x)' = Rows(x)
  BY <1>1 DEF Rows
<1>4. HasCheckpoint(s)'
  BY <1>2 DEF HasCheckpoint
<1>5. Max(Rows(s)') \in Rows(s)' /\ \A i \in Rows(s)' : i <= Max(Rows(s)')
  <2>1. IsFiniteSet(DOMAIN checkpoints)
    BY RowNumbers, FS_Interval
  <2>2. IsFiniteSet(DOMAIN checkpoints')
    BY <2>1, <1>1, FS_AddElement
  <2>3. Rows(s)' \subseteq DOMAIN checkpoints' /\ Rows(s)' \subseteq Nat
    BY <1>1 DEF Rows
  <2> QED
    BY <2>2, <2>3, <1>2, FS_Subset, MaxIsLargest
<1>6. Max(Rows(s)') = n
  <2>1. \A i \in Rows(s) : i \in Nat /\ i < n
    BY <1>1 DEF Rows
  <2> HIDE DEF n
  <2> QED
    BY <1>1, <1>2, <1>5, <2>1
<1>7. Latest(s)'.batch = b
  BY <1>1, <1>6 DEF Latest
<1>8. ASSUME NEW x \in SessionId \ {s}, HasCheckpoint(x) PROVE Latest(x)' = Latest(x)
  <2>1. Max(Rows(x)) \in DOMAIN checkpoints
    BY <1>8, LatestIsLast DEF Rows
  <2> QED
    BY <1>1, <1>3, <2>1 DEF Latest
<1>9. \A x \in SessionId : WasCompleted(x) => WasCompleted(x)'
  BY <1>1 DEF WasCompleted, Rows
<1>10. st = "completed" => WasCompleted(s)'
  BY <1>1, <1>2 DEF WasCompleted
<1> QED
  BY <1>3, <1>4, <1>7, <1>8, <1>9, <1>10

-----------------------------------------------------------------------------
(***************************************************************************)
(* The steps of a run                                                      *)
(***************************************************************************)
\* What the conjuncts of the invariant need to know of the plan.
LEMMA Numbers ==
  ASSUME TypeOK
  PROVE  /\ LastBatch \in Nat
         /\ session \in Nat /\ start \in Nat /\ batch \in Nat /\ runs \in Nat /\ stops \in Nat
         /\ \A o \in Op : BatchOf[o] \in Nat /\ BatchOf[o] <= LastBatch
BY LastBatchIsLast, PlanAssumption, SessionAssumption DEF TypeOK, SessionId

LEMMA BeginType ==
  ASSUME TypeOK, NEW s \in SessionId, NEW b \in 0 .. LastBatch, NEW known \in SUBSET Op,
         Begin(s, b, known), resumes' = resumes
  PROVE  TypeOK'
<1>1. runs' \in 0 .. MaxRuns
  BY SessionAssumption DEF TypeOK, Begin
<1>2. outcome' \in [Op -> Outcomes]
  BY DEF Begin, NoOutcome, Outcomes
<1> QED
  BY <1>1, <1>2 DEF TypeOK, Begin, tables, ghosts, Phases

LEMMA StartNewKeepsIInv ==
  ASSUME IInv, StartNew, resumes' = resumes
  PROVE  IInv'
<1> DEFINE s == runs + 1
<1>1. s \in SessionId /\ 0 \in 0 .. LastBatch
  BY Numbers, SessionAssumption DEF IInv, StartNew, Begin, SessionId, TypeOK
<1>2. TypeOK'
  BY <1>1, BeginType DEF IInv, StartNew
<1>3. Rows(s) = {} /\ succeeded[s] = {} /\ ~WasCompleted(s)
  <2>1. \A i \in DOMAIN checkpoints : checkpoints[i].session # s
    BY Numbers DEF IInv, SessionsInTurn
  <2> QED
    BY <1>1, <2>1, Numbers DEF IInv, SessionsInTurn, Rows, WasCompleted
<1>4. SessionsInTurn'
  BY <1>2, Numbers, RowNumbers DEF IInv, SessionsInTurn, StartNew, Begin, tables, ghosts, TypeOK, Row, SessionId
<1>5. CheckpointsAreSettled' /\ RunIsSettled' /\ TriedInOrder'
  BY Numbers DEF IInv, CheckpointsAreSettled, RunIsSettled, TriedInOrder, StartNew, Begin,
     tables, ghosts, NoOutcome, Tried
<1>6. RowsAreKept' /\ KnownIdsAreTheSessions' /\ IdsAreKnown' /\ UnresolvedForAReason'
  BY <1>3 DEF IInv, RowsAreKept, KnownIdsAreTheSessions, IdsAreKnown, UnresolvedForAReason,
     StartNew, Begin, tables, ghosts, NoOutcome, WasCompleted, Rows, Creates
<1>7. LogIsComplete'
  BY DEF IInv, LogIsComplete, StartNew, Begin, tables, ghosts, NoOutcome, Unrecorded, Executed
<1>8. EndsRepeatTheBatch' /\ RunIsNotBehind'
  BY <1>3 DEF IInv, EndsRepeatTheBatch, RunIsNotBehind, StartNew, Begin, tables, ghosts,
     HasCheckpoint, Rows, InProgress
<1> QED
  BY <1>2, <1>4, <1>5, <1>6, <1>7, <1>8 DEF IInv

LEMMA StartResumedKeepsIInv ==
  ASSUME IInv, StartResumed, resumes' = resumes
  PROVE  IInv'
<1> DEFINE m == Max(InProgress)
           s == Resumable.session
           b == Resumable.batch
<1>1. /\ m \in DOMAIN checkpoints /\ m \in InProgress
      /\ \A i \in InProgress : i <= m
      /\ Resumable = checkpoints[m] /\ Resumable \in Row
  BY ResumableIsLast DEF IInv, StartResumed, InProgress, Resumable
<1>2. s \in SessionId /\ b \in 0 .. LastBatch
  BY <1>1 DEF Row
<1>3. Begin(s, b, Reload(s)) /\ Reload(s) \in SUBSET Op
  BY SessionAssumption DEF StartResumed, Reload
<1>4. TypeOK'
  BY <1>2, <1>3, BeginType DEF IInv
<1>5. SessionsInTurn'
  <2>1. s <= runs
    BY <1>1 DEF IInv, SessionsInTurn
  <2> QED
    BY <1>2, <1>3, <2>1, Numbers, RowNumbers
    DEF IInv, SessionsInTurn, Begin, tables, ghosts, TypeOK, Row, SessionId
<1>6. CheckpointsAreSettled' /\ RunIsSettled' /\ TriedInOrder'
  <2>1. \A o \in Op : BatchOf[o] < b => o \in settled[s]
    BY <1>1 DEF IInv, CheckpointsAreSettled
  <2>2. CheckpointsAreSettled'
    BY <1>3 DEF IInv, CheckpointsAreSettled, Begin, tables, ghosts
  <2>3. RunIsSettled'
    BY <1>3, <2>1 DEF RunIsSettled, Begin, tables, ghosts, NoOutcome, Tried
  <2>4. TriedInOrder'
    BY <1>2, <1>3 DEF TriedInOrder, Begin, NoOutcome, Tried
  <2> QED
    BY <2>2, <2>3, <2>4
<1>7. RowsAreKept' /\ KnownIdsAreTheSessions' /\ IdsAreKnown' /\ UnresolvedForAReason'
  <2>1. RowsAreKept'
    BY <1>3 DEF IInv, RowsAreKept, Begin, tables, ghosts, WasCompleted, Rows
  <2>2. /\ Reload(s) \subseteq succeeded[s]
        /\ WasCompleted(s) \/ succeeded[s] \cap Creates \cap Reloaded \subseteq Reload(s)
    BY <1>2 DEF IInv, RowsAreKept, Reload
  <2>3. /\ created' = Reload(s) /\ session' = s /\ outcome' = NoOutcome
        /\ UNCHANGED <<checkpoints, succeeded>>
    BY <1>3 DEF Begin, tables, ghosts
  <2>4. WasCompleted(s) => WasCompleted(session)'
    BY <2>3 DEF WasCompleted, Rows
  <2>5. KnownIdsAreTheSessions' /\ IdsAreKnown'
    BY <2>2, <2>3, <2>4 DEF KnownIdsAreTheSessions, IdsAreKnown
  <2>6. UnresolvedForAReason'
    BY <2>3 DEF UnresolvedForAReason, NoOutcome
  <2> QED
    BY <2>1, <2>5, <2>6
<1>8. LogIsComplete'
  BY <1>3 DEF IInv, LogIsComplete, Begin, tables, ghosts, NoOutcome, Unrecorded, Executed
<1>9. EndsRepeatTheBatch'
  BY <1>3 DEF IInv, EndsRepeatTheBatch, Begin, tables, InProgress
<1>10. RunIsNotBehind'
  <2>1. HasCheckpoint(s) /\ m \in Rows(s)
    BY <1>1 DEF HasCheckpoint, Rows
  <2> DEFINE l == Max(Rows(s))
  <2>2. l \in DOMAIN checkpoints /\ checkpoints[l].session = s /\ m <= l
    BY <1>2, <2>1, LatestIsLast DEF IInv, Rows
  <2>3. l \in Nat /\ m \in Nat
    BY <1>1, <2>2, RowNumbers DEF IInv
  <2>4. checkpoints[l].batch = b
    <3> HIDE DEF l, m
    <3>1. CASE m = l
      BY <3>1, <1>1
    <3>2. ASSUME m < l, checkpoints[l].batch # b PROVE FALSE
      <4>1. PICK k \in InProgress : m < k /\ k <= l
        BY <1>1, <2>2, <3>2 DEF IInv, EndsRepeatTheBatch
      <4>2. k \in Nat /\ k <= m
        BY <1>1, <4>1, RowNumbers DEF IInv
      <4> QED
        BY <2>3, <4>1, <4>2
    <3> QED
      BY <2>2, <2>3, <3>1, <3>2
  <2>5. Latest(session)'.batch = b /\ batch' = b
    BY <1>3, <2>4 DEF Begin, tables, Latest, Rows
  <2>6. b \in Nat
    BY <1>2, Numbers DEF IInv
  <2> QED
    BY <2>5, <2>6 DEF RunIsNotBehind
<1> QED
  BY <1>4, <1>5, <1>6, <1>7, <1>8, <1>9, <1>10 DEF IInv

\* An operation that is tried comes from the current batch of the run and from
\* no other, so what is settled or known elsewhere is not touched.
LEMMA AttemptedIsCurrent ==
  ASSUME TypeOK, NEW o \in Op, Attempted(o)
  PROVE  phase = "executing" /\ BatchOf[o] = batch /\ outcome[o] = "none" /\ o \in Op
BY DEF Attempted

LEMMA RequestsStayTyped ==
  ASSUME NEW o \in Op, NEW S \in SUBSET Resource
  PROVE  CarriedOut(o, S) \in SUBSET Resource
BY SessionAssumption DEF CarriedOut

LEMMA SucceedKeepsIInv ==
  ASSUME IInv, NEW o \in Op, Succeed(o), resumes' = resumes
  PROVE  IInv'
<1>1. /\ phase = "executing" /\ BatchOf[o] = batch /\ outcome[o] = "none"
      /\ session \in SessionId
  BY AttemptedIsCurrent DEF IInv, Succeed, TypeOK
<1>2. /\ outcome' = [outcome EXCEPT ![o] = "ok"]
      /\ settled' = [settled EXCEPT ![session] = @ \cup {o}]
      /\ succeeded' = [succeeded EXCEPT ![session] = @ \cup {o}]
      /\ UNCHANGED <<checkpoints, changelog, phase, session, start, batch, recorded, runs, stops>>
      /\ bam' = CarriedOut(o, bam)
  BY DEF Succeed, Settle
<1>3. \/ /\ Kind[o] = "create" /\ created' = created \cup {o}
         /\ saved' = [saved EXCEPT ![session] = @ \cup {o}]
      \/ Kind[o] # "create" /\ UNCHANGED <<created, saved>>
  BY DEF Succeed, SaveCreated
<1>4. TypeOK'
  <2>1. bam' \subseteq Resource
    BY <1>2, RequestsStayTyped DEF IInv, TypeOK
  <2>2. /\ outcome' \in [Op -> Outcomes] /\ settled' \in [SessionId -> SUBSET Op]
        /\ succeeded' \in [SessionId -> SUBSET Op]
    BY <1>2 DEF IInv, TypeOK, Outcomes
  <2>3. created' \in SUBSET Op /\ saved' \in [SessionId -> SUBSET Op]
    BY <1>3 DEF IInv, TypeOK
  <2> QED
    BY <1>2, <2>1, <2>2, <2>3 DEF IInv, TypeOK
<1>5. /\ \A s \in SessionId : s # session => /\ settled'[s] = settled[s]
                                             /\ succeeded'[s] = succeeded[s]
      /\ settled'[session] = settled[session] \cup {o}
      /\ succeeded'[session] = succeeded[session] \cup {o}
      /\ \A x \in Op : x # o => outcome'[x] = outcome[x]
      /\ outcome'[o] = "ok"
  BY <1>1, <1>2 DEF IInv, TypeOK
<1>6. SessionsInTurn'
  BY <1>1, <1>2, <1>5, Numbers DEF IInv, SessionsInTurn
<1>7. CheckpointsAreSettled'
  <2>1. \A i \in DOMAIN checkpoints : checkpoints[i].session \in SessionId
    BY RowNumbers DEF IInv, Row
  <2> QED
    BY <1>2, <1>5, <2>1 DEF IInv, CheckpointsAreSettled
<1>8. RunIsSettled' /\ TriedInOrder'
  <2>1. start <= batch
    BY DEF IInv, TriedInOrder
  <2>2. RunIsSettled'
    BY <1>2, <1>5 DEF IInv, RunIsSettled
  <2>3. TriedInOrder'
    BY <1>1, <1>2, <1>5, <2>1, Numbers DEF IInv, TriedInOrder
  <2> QED
    BY <2>2, <2>3
<1>9. \A s \in SessionId : WasCompleted(s)' <=> WasCompleted(s)
  BY <1>2 DEF WasCompleted, Rows
<1>10. RowsAreKept'
  <2>1. ASSUME NEW s \in SessionId
        PROVE  /\ saved'[s] \subseteq succeeded'[s]
               /\ WasCompleted(s) \/ succeeded'[s] \cap Creates \subseteq saved'[s]
    <3>1. /\ saved[s] \subseteq succeeded[s]
          /\ WasCompleted(s) \/ succeeded[s] \cap Creates \subseteq saved[s]
      BY DEF IInv, RowsAreKept
    <3>2. s # session => saved'[s] = saved[s]
      BY <1>3 DEF IInv, TypeOK
    <3>3. saved'[session] = IF Kind[o] = "create" THEN saved[session] \cup {o} ELSE saved[session]
      BY <1>1, <1>3 DEF IInv, TypeOK
    <3> QED
      BY <1>5, <3>1, <3>2, <3>3 DEF Creates
  <2> QED
    BY <1>1, <1>2, <1>9, <2>1 DEF RowsAreKept
<1>11. KnownIdsAreTheSessions' /\ IdsAreKnown'
  BY <1>1, <1>2, <1>3, <1>5, <1>9 DEF IInv, KnownIdsAreTheSessions, IdsAreKnown, Creates
<1>12. UnresolvedForAReason'
  <2>1. ASSUME NEW x \in Op, outcome'[x] = "raised"
        PROVE  \E p \in DeferredOn[x] : \/ p \notin succeeded'[session]
                                        \/ p \notin Ancestors[x]
                                        \/ p \notin Reloaded
                                        \/ WasCompleted(session)
    <3>1. x # o /\ outcome[x] = "raised"
      BY <1>5, <2>1
    <3>2. BatchOf[x] <= batch
      BY <3>1 DEF IInv, TriedInOrder, Tried
    <3>3. o \notin Ancestors[x]
      <4>1. o \in Ancestors[x] => BatchOf[o] < BatchOf[x]
        BY AncestorsComeEarlier
      <4> QED
        BY <1>1, <3>2, <4>1, Numbers DEF IInv
    <3> QED
      BY <1>5, <3>1, <3>3 DEF IInv, UnresolvedForAReason
  <2> QED
    BY <1>1, <1>2, <1>9, <2>1 DEF UnresolvedForAReason
<1>13. LogIsComplete'
  <2>1. ASSUME stops = 0
        PROVE  changelog[session] = succeeded'[session] \ {x \in Op : outcome'[x] = "ok" /\ x \notin changelog[session]}
    <3>1. changelog[session] = succeeded[session] \ {x \in Op : outcome[x] = "ok" /\ x \notin changelog[session]}
      BY <1>1, <2>1 DEF IInv, LogIsComplete
    <3> QED
      BY <1>1, <1>5, <3>1
  <2>2. ASSUME stops = 0, NEW s \in SessionId, s # session
        PROVE  changelog[s] = succeeded'[s]
    BY <1>5, <2>2 DEF IInv, LogIsComplete
  <2>3. ASSUME stops = 0, NEW s \in SessionId
        PROVE  changelog'[s] =
                 IF phase' # "down" /\ s = session'
                   THEN succeeded'[s] \ {x \in Op : outcome'[x] = "ok" /\ x \notin changelog'[s]}
                   ELSE succeeded'[s]
    <3>1. CASE s = session
      BY <1>1, <1>2, <2>1, <2>3, <3>1
    <3>2. CASE s # session
      BY <1>2, <2>2, <2>3, <3>2
    <3> QED
      BY <3>1, <3>2
  <2>4. stops = 0 => recorded = {}
    BY <1>1 DEF IInv, LogIsComplete
  <2> QED
    BY <1>1, <1>2, <2>3, <2>4 DEF LogIsComplete
<1>14. EndsRepeatTheBatch' /\ RunIsNotBehind'
  BY <1>2 DEF IInv, EndsRepeatTheBatch, RunIsNotBehind, InProgress, HasCheckpoint, Latest, Rows
<1> QED
  BY <1>4, <1>6, <1>7, <1>8, <1>10, <1>11, <1>12, <1>13, <1>14 DEF IInv

\* A failure marks what has not been tried.
LEMMA FailMarksUntried ==
  ASSUME IInv, NEW o \in Op, Fail(o)
  PROVE  /\ o \notin Cascade(o, Open)
         /\ \A x \in Cascade(o, Open) : x \in Op /\ outcome[x] = "none"
<1>1. BatchOf[o] = batch /\ Open \in SUBSET Op
  BY DEF Fail, Attempted, Open
<1>2. ASSUME NEW x \in Cascade(o, Open)
      PROVE  x # o /\ x \in Op /\ outcome[x] = "none"
  <2>1. x \in Open /\ x \in Op
    BY <1>1, CascadeFixpoint
  <2>2. o \in Ancestors[x]
    BY <1>1, CascadeDescends
  <2>3. BatchOf[o] < BatchOf[x]
    BY <2>1, <2>2, AncestorsComeEarlier
  <2>4. ~(BatchOf[x] <= batch)
    BY <1>1, <2>1, <2>3, Numbers DEF IInv
  <2>5. outcome[x] \notin Tried
    BY <2>1, <2>4 DEF IInv, TriedInOrder
  <2>6. outcome[x] \in Outcomes
    BY <2>1 DEF IInv, TypeOK
  <2> QED
    BY <1>1, <2>1, <2>3, <2>5, <2>6, Numbers DEF IInv, Open, Tried, Outcomes
<1> QED
  BY <1>2

\* An operation that fails in one way or the other is tried, and no more.
LEMMA LossKeepsIInv ==
  ASSUME IInv, NEW o \in Op, Attempted(o), NEW r \in {"failed", "raised"},
         outcome'[o] = r, outcome' \in [Op -> Outcomes],
         \A x \in Op : x # o => \/ outcome'[x] = outcome[x]
                                \/ outcome[x] = "none" /\ outcome'[x] = "skipped",
         r = "raised" => Unresolved(o),
         bam' \subseteq Resource, Settle({o}),
         UNCHANGED <<checkpoints, saved, changelog, phase, session, start, batch, created,
                     recorded, runs, stops, succeeded, resumes>>
  PROVE  IInv'
<1>1. /\ phase = "executing" /\ BatchOf[o] = batch /\ outcome[o] = "none"
      /\ session \in SessionId
  BY AttemptedIsCurrent DEF IInv, TypeOK
<1>2. settled' = [settled EXCEPT ![session] = @ \cup {o}]
  BY DEF Settle
<1>3. TypeOK'
  <2>1. settled' \in [SessionId -> SUBSET Op]
    BY <1>2 DEF IInv, TypeOK
  <2> QED
    BY <2>1 DEF IInv, TypeOK
<1>4. \A s \in SessionId : /\ settled[s] \subseteq settled'[s]
                           /\ s = session => o \in settled'[s]
  BY <1>1, <1>2 DEF IInv, TypeOK
<1>5. /\ SessionsInTurn' /\ RowsAreKept' /\ KnownIdsAreTheSessions' /\ IdsAreKnown'
      /\ EndsRepeatTheBatch' /\ RunIsNotBehind'
  BY DEF IInv, SessionsInTurn, RowsAreKept, KnownIdsAreTheSessions, IdsAreKnown,
     EndsRepeatTheBatch, RunIsNotBehind, WasCompleted, HasCheckpoint, Latest, Rows, InProgress
<1>6. \A i \in DOMAIN checkpoints : checkpoints[i].session \in SessionId
  BY RowNumbers DEF IInv, Row
<1>7. CheckpointsAreSettled'
  BY <1>4, <1>6 DEF IInv, CheckpointsAreSettled
<1>8. \A x \in Op : /\ outcome'[x] \in Tried => x = o \/ outcome[x] \in Tried
                    /\ outcome'[x] = "ok" <=> outcome[x] = "ok"
                    /\ outcome'[x] = "raised" => (x = o /\ r = "raised") \/ outcome[x] = "raised"
  BY <1>1 DEF Tried
<1>9. RunIsSettled'
  BY <1>1, <1>4, <1>8 DEF IInv, RunIsSettled
<1>10. TriedInOrder'
  BY <1>1, <1>8, Numbers DEF IInv, TriedInOrder
<1>11. UnresolvedForAReason'
  <2>1. WasCompleted(session)' <=> WasCompleted(session)
    BY DEF WasCompleted, Rows
  <2>2. ASSUME r = "raised"
        PROVE  \E p \in DeferredOn[o] : \/ p \notin succeeded[session]
                                        \/ p \notin Reloaded
                                        \/ WasCompleted(session)
    <3>1. PICK p \in DeferredOn[o] : p \notin created
      BY <2>2 DEF Unresolved
    <3>2. p \in Creates
      BY <3>1, PlanAssumption DEF Creates
    <3> QED
      BY <1>1, <3>1, <3>2 DEF IInv, IdsAreKnown
  <2>3. ASSUME NEW x \in Op, outcome'[x] = "raised"
        PROVE  \E p \in DeferredOn[x] : \/ p \notin succeeded[session]
                                        \/ p \notin Ancestors[x]
                                        \/ p \notin Reloaded
                                        \/ WasCompleted(session)
    <3>1. CASE x = o /\ r = "raised"
      BY <3>1, <2>2
    <3>2. CASE outcome[x] = "raised"
      BY <3>2 DEF IInv, UnresolvedForAReason
    <3> QED
      BY <1>8, <2>3, <3>1, <3>2
  <2> QED
    BY <2>1, <2>3 DEF UnresolvedForAReason
<1>12. LogIsComplete'
  <2>1. stops = 0 => recorded = {}
    BY <1>1 DEF IInv, LogIsComplete
  <2> QED
    BY <1>1, <1>8, <2>1 DEF IInv, LogIsComplete
<1> QED
  BY <1>3, <1>5, <1>7, <1>9, <1>10, <1>11, <1>12 DEF IInv

LEMMA FailKeepsIInv ==
  ASSUME IInv, NEW o \in Op, Fail(o), resumes' = resumes
  PROVE  IInv'
<1> DEFINE below == Cascade(o, Open)
<1>1. o \notin below /\ \A x \in below : x \in Op /\ outcome[x] = "none"
  BY FailMarksUntried
<1>2. outcome' = [x \in Op |-> CASE x = o      -> "failed"
                                 [] x \in below -> "skipped"
                                 [] OTHER       -> outcome[x]]
  BY DEF Fail
<1> HIDE DEF below
<1>3. ASSUME NEW x \in Op
      PROVE  /\ x = o => outcome'[x] = "failed"
             /\ x # o /\ x \in below => outcome'[x] = "skipped"
             /\ x # o /\ x \notin below => outcome'[x] = outcome[x]
  BY <1>1, <1>2
<1>4. outcome' \in [Op -> Outcomes]
  <2>1. \A x \in Op : outcome'[x] \in Outcomes
    BY <1>3 DEF IInv, TypeOK, Outcomes
  <2>2. outcome' = [x \in Op |-> outcome'[x]]
    BY <1>2
  <2> QED
    BY <2>1, <2>2
<1>5. bam' \subseteq Resource
  BY RequestsStayTyped DEF IInv, TypeOK, Fail
<1>6. /\ Attempted(o) /\ Settle({o})
      /\ UNCHANGED <<checkpoints, saved, changelog, phase, session, start, batch, created,
                     recorded, runs, stops, succeeded, resumes>>
  BY DEF Fail, tables
<1> QED
  BY <1>1, <1>3, <1>4, <1>5, <1>6, LossKeepsIInv

LEMMA RaiseUnresolvedKeepsIInv ==
  ASSUME IInv, NEW o \in Op, RaiseUnresolved(o), resumes' = resumes
  PROVE  IInv'
<1>1. outcome' = [outcome EXCEPT ![o] = "raised"] /\ outcome \in [Op -> Outcomes]
  BY DEF IInv, TypeOK, RaiseUnresolved
<1>2. /\ outcome' \in [Op -> Outcomes] /\ outcome'[o] = "raised"
      /\ \A x \in Op : x # o => outcome'[x] = outcome[x]
  BY <1>1 DEF Outcomes
<1>3. bam' \subseteq Resource
  BY DEF IInv, TypeOK, RaiseUnresolved
<1>4. /\ Attempted(o) /\ Settle({o}) /\ Unresolved(o)
      /\ UNCHANGED <<checkpoints, saved, changelog, phase, session, start, batch, created,
                     recorded, runs, stops, succeeded, resumes>>
  BY DEF RaiseUnresolved, tables
<1> QED
  BY <1>2, <1>3, <1>4, LossKeepsIInv

-----------------------------------------------------------------------------
(***************************************************************************)
(* The steps that write to the tables, and the end of a run                *)
(***************************************************************************)
\* The operations below batch b are settled.
Covered(s, b) == \A o \in Op : BatchOf[o] < b => o \in settled[s]

SettledGrows == \A x \in SessionId : settled[x] \subseteq settled'[x]

\* A row that repeats the latest batch, or is in_progress, leaves the tables
\* as a resume expects them.
LEMMA SaveKeepsRows ==
  ASSUME TypeOK, CheckpointsAreSettled, EndsRepeatTheBatch, SessionsInTurn,
         NEW s \in SessionId, s <= runs, NEW b \in 0 .. LastBatch,
         NEW st \in {"in_progress", "completed", "failed"}, Save(s, b, st),
         st = "in_progress" \/ (HasCheckpoint(s) /\ b = Latest(s).batch),
         Covered(s, b), SettledGrows
  PROVE  /\ CheckpointsAreSettled' /\ EndsRepeatTheBatch'
         /\ \A i \in DOMAIN checkpoints' : checkpoints'[i].session <= runs
<1> DEFINE n   == Len(checkpoints) + 1
           row == [session |-> s, batch |-> b, status |-> st]
<1>1. /\ DOMAIN checkpoints' = DOMAIN checkpoints \cup {n}
      /\ \A i \in DOMAIN checkpoints :
           i \in Nat /\ i < n /\ checkpoints'[i] = checkpoints[i]
      /\ checkpoints'[n] = row
      /\ n \in Nat
  <2>1. n \in Nat
    BY RowNumbers
  <2> QED
    BY <2>1, SaveAppends
<1>2. row.session = s /\ row.batch = b /\ row.status = st
  OBVIOUS
<1> HIDE DEF n, row
<1>3. \A i \in DOMAIN checkpoints : checkpoints[i].session \in SessionId
  BY RowNumbers DEF Row
<1>4. CheckpointsAreSettled'
  <2>1. ASSUME NEW i \in DOMAIN checkpoints', NEW o \in Op, BatchOf[o] < checkpoints'[i].batch
        PROVE  o \in settled'[checkpoints'[i].session]
    BY <1>1, <1>2, <1>3, <2>1 DEF CheckpointsAreSettled, Covered, SettledGrows
  <2> QED
    BY <2>1 DEF CheckpointsAreSettled
<1>5. \A i \in DOMAIN checkpoints' : checkpoints'[i].session <= runs
  BY <1>1, <1>2 DEF SessionsInTurn
<1>6. InProgress' = IF st = "in_progress" THEN InProgress \cup {n} ELSE InProgress
  BY <1>1, <1>2 DEF InProgress
<1>7. \A k \in InProgress : k \in DOMAIN checkpoints /\ k < n /\ k \in Nat
  BY <1>1 DEF InProgress
<1>8. ASSUME NEW i \in DOMAIN checkpoints', NEW j \in DOMAIN checkpoints',
             i < j, checkpoints'[i].session = checkpoints'[j].session,
             checkpoints'[i].batch # checkpoints'[j].batch
      PROVE  \E k \in InProgress' :
               i < k /\ k <= j /\ checkpoints'[k].session = checkpoints'[i].session
  <2>1. i \in DOMAIN checkpoints /\ i \in Nat /\ j \in Nat
    BY <1>1, <1>8
  <2>2. CASE j \in DOMAIN checkpoints
    <3>1. PICK k \in InProgress :
            i < k /\ k <= j /\ checkpoints[k].session = checkpoints[i].session
      BY <1>1, <1>8, <2>1, <2>2 DEF EndsRepeatTheBatch
    <3> QED
      BY <1>1, <1>6, <1>7, <2>1, <3>1
  <2>3. CASE j = n /\ st = "in_progress"
    BY <1>1, <1>2, <1>6, <1>8, <2>1, <2>3
  <2>4. CASE j = n /\ st # "in_progress"
    <3> DEFINE l == Max(Rows(s))
    <3>1. /\ l \in DOMAIN checkpoints /\ checkpoints[l].session = s
          /\ checkpoints[l].batch = b
          /\ i \in Rows(s) /\ i <= l
      <4>1. i \in Rows(s)
        BY <1>1, <1>2, <1>8, <2>1, <2>4 DEF Rows
      <4> QED
        BY <2>4, <4>1, LatestIsLast DEF Rows, Latest
    <3> HIDE DEF l
    <3>2. i # l /\ l \in Nat /\ l < n
      BY <1>1, <1>2, <1>8, <2>1, <2>4, <3>1
    <3>3. i < l /\ checkpoints[i].session = s /\ checkpoints[i].batch # b
      BY <1>1, <1>2, <1>8, <2>1, <2>4, <3>1, <3>2
    <3>4. PICK k \in InProgress : i < k /\ k <= l /\ checkpoints[k].session = s
      BY <2>1, <3>1, <3>3 DEF EndsRepeatTheBatch
    <3>5. k <= n
      BY <1>1, <1>7, <3>4
    <3> QED
      BY <1>1, <1>6, <1>7, <2>1, <2>4, <3>3, <3>4, <3>5
  <2> QED
    BY <1>1, <2>2, <2>3, <2>4
<1>9. EndsRepeatTheBatch'
  BY <1>8 DEF EndsRepeatTheBatch
<1> QED
  BY <1>4, <1>5, <1>9

LEMMA EndBatchKeepsIInv ==
  ASSUME IInv, EndBatch, resumes' = resumes
  PROVE  IInv'
<1> DEFINE skipped == {o \in BatchOps(batch) : outcome[o] = "skipped"}
<1>1. /\ phase = "executing" /\ session \in SessionId /\ batch \in 0 .. LastBatch
      /\ session <= runs
      /\ Save(session, batch, "in_progress")
      /\ UNCHANGED <<bam, saved, changelog, session, start, created, outcome, recorded,
                     runs, stops, succeeded>>
  BY DEF IInv, TypeOK, SessionsInTurn, EndBatch
<1>2. \/ batch < LastBatch /\ batch' = batch + 1 /\ phase' = "executing"
      \/ batch' = batch /\ phase' = "recording"
  BY <1>1 DEF EndBatch
<1>3. /\ settled' \in [SessionId -> SUBSET Op]
      /\ \A s \in SessionId : settled[s] \subseteq settled'[s]
      /\ skipped \subseteq settled'[session]
  <2>1. skipped \in SUBSET Op /\ settled' = [settled EXCEPT ![session] = @ \cup skipped]
    BY DEF EndBatch, Settle, BatchOps
  <2> HIDE DEF skipped
  <2> QED
    BY <1>1, <2>1 DEF IInv, TypeOK
<1>4. TypeOK'
  <2>1. checkpoints' \in Seq(Row)
    BY <1>1, SaveAppends DEF IInv
  <2>2. batch' \in 0 .. LastBatch /\ phase' \in Phases
    BY <1>1, <1>2, Numbers DEF IInv, Phases
  <2> QED
    BY <1>1, <1>3, <2>1, <2>2 DEF IInv, TypeOK
<1>5. \A o \in Op : BatchOf[o] < batch => o \in settled[session]
  BY <1>1 DEF IInv, RunIsSettled
<1>6. /\ CheckpointsAreSettled' /\ EndsRepeatTheBatch'
      /\ \A i \in DOMAIN checkpoints' : checkpoints'[i].session <= runs
  <2>1. TypeOK /\ CheckpointsAreSettled /\ EndsRepeatTheBatch /\ SessionsInTurn
    BY DEF IInv
  <2>2. /\ session \in SessionId /\ session <= runs /\ batch \in 0 .. LastBatch
        /\ Save(session, batch, "in_progress")
    BY <1>1
  <2>3. SettledGrows /\ Covered(session, batch)
    BY <1>3, <1>5 DEF SettledGrows, Covered
  <2> HIDE DEF skipped
  <2> QED
    BY <2>1, <2>2, <2>3, SaveKeepsRows
<1>7. SessionsInTurn'
  BY <1>1, <1>6 DEF IInv, SessionsInTurn
<1>8. RunIsSettled'
  <2>1. ASSUME NEW o \in Op, BatchOf[o] <= batch PROVE o \in settled'[session]
    <3>1. CASE BatchOf[o] < batch
      BY <1>1, <1>3, <1>5, <3>1
    <3>2. CASE BatchOf[o] = batch
      <4>1. outcome[o] # "none" /\ outcome[o] \in Outcomes
        BY <3>2 DEF EndBatch, BatchOps, IInv, TypeOK
      <4>2. CASE outcome[o] = "skipped"
        BY <1>3, <3>2, <4>2 DEF BatchOps
      <4>3. CASE outcome[o] \in Tried
        BY <1>1, <1>3, <4>3 DEF IInv, RunIsSettled
      <4> QED
        BY <4>1, <4>2, <4>3 DEF Outcomes, Tried
    <3> QED
      BY <2>1, <3>1, <3>2, Numbers DEF IInv
  <2>2. ASSUME NEW o \in Op, BatchOf[o] < batch', phase' = "executing" PROVE o \in settled'[session]
    BY <1>2, <2>1, <2>2, Numbers DEF IInv
  <2> QED
    BY <1>1, <1>3, <2>2 DEF IInv, RunIsSettled
<1>9. TriedInOrder'
  BY <1>1, <1>2, Numbers DEF IInv, TriedInOrder
<1>10. \A s \in SessionId : WasCompleted(s) => WasCompleted(s)'
  BY <1>1, <1>4, SaveIsLatest DEF IInv
<1>11. RowsAreKept' /\ KnownIdsAreTheSessions' /\ IdsAreKnown' /\ UnresolvedForAReason'
  BY <1>1, <1>2, <1>10 DEF IInv, RowsAreKept, KnownIdsAreTheSessions, IdsAreKnown, UnresolvedForAReason
<1>12. LogIsComplete'
  BY <1>1, <1>2 DEF IInv, LogIsComplete
<1>13. RunIsNotBehind'
  <2>1. Latest(session)'.batch = batch
    BY <1>1, <1>4, SaveIsLatest DEF IInv
  <2> QED
    BY <1>1, <1>2, <2>1, Numbers DEF IInv, RunIsNotBehind
<1> QED
  BY <1>4, <1>6, <1>7, <1>8, <1>9, <1>11, <1>12, <1>13 DEF IInv

LEMMA RecordKeepsIInv ==
  ASSUME IInv, NEW o \in Op, Record(o), resumes' = resumes
  PROVE  IInv'
<1>1. /\ phase = "recording" /\ session \in SessionId
      /\ recorded' = recorded \cup {o}
      /\ UNCHANGED <<bam, checkpoints, saved, phase, session, start, batch, created, outcome,
                     runs, stops, settled, succeeded, resumes>>
  BY DEF IInv, TypeOK, Record, ghosts
<1>2. changelog' = [changelog EXCEPT ![session] =
                      IF outcome[o] = "ok" THEN @ \cup {o} ELSE @]
  BY DEF Record
<1>3. /\ changelog' \in [SessionId -> SUBSET Op]
      /\ \A s \in SessionId : s # session => changelog'[s] = changelog[s]
      /\ changelog'[session] =
           IF outcome[o] = "ok" THEN changelog[session] \cup {o} ELSE changelog[session]
  BY <1>1, <1>2 DEF IInv, TypeOK
<1>4. TypeOK'
  BY <1>1, <1>3 DEF IInv, TypeOK
<1>5. outcome[o] = "ok" => o \in succeeded[session]
  BY DEF IInv, RunIsSettled
<1>6. LogIsComplete'
  <2>1. ASSUME stops = 0, NEW s \in SessionId
        PROVE  changelog'[s] =
                 IF s = session
                   THEN succeeded[s] \ {x \in Op : outcome[x] = "ok" /\ x \notin changelog'[s]}
                   ELSE succeeded[s]
    <3>1. CASE s # session
      BY <1>1, <1>3, <2>1, <3>1 DEF IInv, LogIsComplete
    <3>2. CASE s = session
      <4>1. changelog[s] = succeeded[s] \ {x \in Op : outcome[x] = "ok" /\ x \notin changelog[s]}
        BY <1>1, <2>1, <3>2 DEF IInv, LogIsComplete
      <4> QED
        BY <1>3, <1>5, <3>2, <4>1
    <3> QED
      BY <3>1, <3>2
  <2>2. ASSUME stops = 0, NEW x \in recorded', outcome[x] = "ok"
        PROVE  x \in changelog'[session]
    BY <1>1, <1>3, <2>2 DEF IInv, LogIsComplete
  <2> QED
    BY <1>1, <2>1, <2>2 DEF LogIsComplete
<1>7. /\ SessionsInTurn' /\ CheckpointsAreSettled' /\ RunIsSettled' /\ TriedInOrder'
      /\ RowsAreKept' /\ KnownIdsAreTheSessions' /\ IdsAreKnown' /\ UnresolvedForAReason'
  BY <1>1 DEF IInv, SessionsInTurn, CheckpointsAreSettled, RunIsSettled, TriedInOrder,
     RowsAreKept, KnownIdsAreTheSessions, IdsAreKnown, UnresolvedForAReason, WasCompleted, Rows
<1>8. EndsRepeatTheBatch' /\ RunIsNotBehind'
  BY <1>1 DEF IInv, EndsRepeatTheBatch, RunIsNotBehind, InProgress, HasCheckpoint, Latest, Rows
<1> QED
  BY <1>4, <1>6, <1>7, <1>8 DEF IInv

LEMMA AllRecordedKeepsIInv ==
  ASSUME IInv, AllRecorded, resumes' = resumes
  PROVE  IInv'
<1>1. /\ phase = "recording" /\ phase' = "closing" /\ Unrecorded = {}
      /\ UNCHANGED <<bam, checkpoints, saved, changelog, session, start, batch, created,
                     outcome, recorded, runs, stops, settled, succeeded, resumes>>
  BY DEF AllRecorded, tables, run, ghosts
<1>2. TypeOK'
  BY <1>1 DEF IInv, TypeOK, Phases
<1>3. LogIsComplete'
  BY <1>1 DEF IInv, LogIsComplete, Unrecorded, Executed
<1>4. /\ SessionsInTurn' /\ CheckpointsAreSettled' /\ RunIsSettled' /\ TriedInOrder'
      /\ RowsAreKept' /\ KnownIdsAreTheSessions' /\ IdsAreKnown' /\ UnresolvedForAReason'
  BY <1>1 DEF IInv, SessionsInTurn, CheckpointsAreSettled, RunIsSettled, TriedInOrder,
     RowsAreKept, KnownIdsAreTheSessions, IdsAreKnown, UnresolvedForAReason, WasCompleted, Rows
<1>5. EndsRepeatTheBatch' /\ RunIsNotBehind'
  BY <1>1 DEF IInv, EndsRepeatTheBatch, RunIsNotBehind, InProgress
<1> QED
  BY <1>2, <1>3, <1>4, <1>5 DEF IInv

\* A process that is gone knows and has done nothing.
LEMMA DownForgets ==
  ASSUME TypeOK, Down
  PROVE  /\ RunIsSettled' /\ TriedInOrder' /\ KnownIdsAreTheSessions' /\ IdsAreKnown'
         /\ UnresolvedForAReason' /\ RunIsNotBehind'
         /\ phase' = "down" /\ phase' \in Phases /\ session' = session /\ recorded' = {}
         /\ start' \in 0 .. LastBatch /\ batch' \in 0 .. LastBatch
         /\ created' \subseteq Op /\ outcome' \in [Op -> Outcomes]
<1>1. \A o \in Op : outcome'[o] = "none"
  BY DEF Down, NoOutcome
<1>2. outcome' \in [Op -> Outcomes]
  BY DEF Down, NoOutcome, Outcomes
<1>3. 0 \in 0 .. LastBatch
  BY LastBatchIsLast
<1>4. RunIsSettled' /\ TriedInOrder' /\ UnresolvedForAReason'
  BY <1>1 DEF Down, RunIsSettled, TriedInOrder, UnresolvedForAReason, Tried
<1>5. KnownIdsAreTheSessions' /\ IdsAreKnown' /\ RunIsNotBehind'
  BY DEF Down, KnownIdsAreTheSessions, IdsAreKnown, RunIsNotBehind
<1> QED
  BY <1>2, <1>3, <1>4, <1>5 DEF Down, Phases

\* A run that comes to its end has logged what it did.
LEMMA EndedRunIsLogged ==
  ASSUME IInv, phase \in {"closing", "clearing"}, stops = 0
  PROVE  \A s \in SessionId : changelog[s] = succeeded[s]
<1>1. /\ Unrecorded = {}
      /\ \A o \in recorded : outcome[o] = "ok" => o \in changelog[session]
  BY DEF IInv, LogIsComplete
<1>2. \A o \in Op : outcome[o] = "ok" => start <= BatchOf[o]
  BY DEF IInv, TriedInOrder, Tried
<1>3. \A o \in Op : outcome[o] = "ok" => o \in recorded
  BY <1>1, <1>2, Numbers DEF IInv, Unrecorded, Executed
<1>4. {o \in Op : outcome[o] = "ok" /\ o \notin changelog[session]} = {}
  BY <1>1, <1>3
<1> QED
  BY <1>4 DEF IInv, LogIsComplete

LEMMA LatestIsCovered ==
  ASSUME IInv, NEW s \in SessionId, HasCheckpoint(s)
  PROVE  Latest(s).batch \in 0 .. LastBatch /\ Covered(s, Latest(s).batch)
<1>1. Max(Rows(s)) \in Rows(s) /\ Latest(s) \in Row
  BY LatestIsLast DEF IInv
<1>2. \A o \in Op : BatchOf[o] < Latest(s).batch => o \in settled[s]
  BY <1>1 DEF IInv, CheckpointsAreSettled, Rows, Latest
<1> QED
  BY <1>1, <1>2 DEF Row, Covered

\* The last row of a session changes neither what is settled nor what is known.
LEMMA ClosingRow ==
  ASSUME IInv, phase = "closing", HasCheckpoint(session), NEW st \in {"completed", "failed"},
         Save(session, Latest(session).batch, st),
         UNCHANGED <<runs, saved, settled, succeeded, session>>
  PROVE  /\ checkpoints' \in Seq(Row)
         /\ CheckpointsAreSettled' /\ EndsRepeatTheBatch'
         /\ \A i \in DOMAIN checkpoints' : checkpoints'[i].session <= runs
         /\ session \in SessionId /\ session <= runs
<1> DEFINE b == Latest(session).batch
<1>1. session \in SessionId /\ session <= runs
  BY DEF IInv, TypeOK, SessionsInTurn
<1>2. b \in 0 .. LastBatch /\ Covered(session, b)
  BY <1>1, LatestIsCovered
<1>3. SettledGrows
  BY DEF SettledGrows
<1>4. st \in {"in_progress", "completed", "failed"}
  OBVIOUS
<1>5. TypeOK /\ CheckpointsAreSettled /\ EndsRepeatTheBatch /\ SessionsInTurn
  BY DEF IInv
<1>6. checkpoints' \in Seq(Row)
  BY <1>1, <1>2, <1>4, <1>5, SaveAppends
<1>7. /\ CheckpointsAreSettled' /\ EndsRepeatTheBatch'
      /\ \A i \in DOMAIN checkpoints' : checkpoints'[i].session <= runs
  BY <1>1, <1>2, <1>3, <1>4, <1>5, SaveKeepsRows
<1> QED
  BY <1>1, <1>6, <1>7

\* The run ends without a row, or with its rows deleted.
LEMMA EndsWithoutRow ==
  ASSUME IInv, phase \in {"closing", "clearing"}, Down, resumes' = resumes,
         UNCHANGED <<bam, checkpoints, changelog, runs, stops, settled, succeeded>>,
         \/ UNCHANGED saved
         \/ phase = "clearing" /\ saved' = [saved EXCEPT ![session] = {}]
  PROVE  IInv'
<1>1. TypeOK'
  <2>1. saved' \in [SessionId -> SUBSET Op]
    BY DEF IInv, TypeOK
  <2> QED
    BY <2>1, DownForgets DEF IInv, TypeOK, Down
<1>2. SessionsInTurn' /\ CheckpointsAreSettled' /\ EndsRepeatTheBatch'
  BY DEF IInv, SessionsInTurn, CheckpointsAreSettled, EndsRepeatTheBatch, InProgress, Down
<1>3. RowsAreKept'
  <2>1. \A s \in SessionId : WasCompleted(s)' <=> WasCompleted(s)
    BY DEF WasCompleted, Rows
  <2>2. phase = "clearing" => WasCompleted(session)
    BY DEF IInv, RowsAreKept
  <2>3. ASSUME NEW s \in SessionId
        PROVE  saved'[s] = saved[s] \/ (saved'[s] = {} /\ WasCompleted(s))
    BY <2>2 DEF IInv, TypeOK
  <2>4. ASSUME NEW s \in SessionId
        PROVE  /\ saved[s] \subseteq succeeded[s]
               /\ WasCompleted(s) \/ succeeded[s] \cap Creates \subseteq saved[s]
    BY DEF IInv, RowsAreKept
  <2>5. ASSUME NEW s \in SessionId
        PROVE  /\ saved'[s] \subseteq succeeded[s]
               /\ WasCompleted(s) \/ succeeded[s] \cap Creates \subseteq saved'[s]
    BY <2>3, <2>4
  <2> QED
    BY <2>1, <2>5 DEF RowsAreKept, Down
<1>4. LogIsComplete'
  BY DownForgets, EndedRunIsLogged DEF LogIsComplete, Down
<1> QED
  BY <1>1, <1>2, <1>3, <1>4, DownForgets DEF IInv

LEMMA MarkFailedKeepsIInv ==
  ASSUME IInv, MarkFailed, resumes' = resumes
  PROVE  IInv'
<1>1. /\ phase = "closing" /\ Down
      /\ UNCHANGED <<bam, saved, changelog, runs, stops, settled, succeeded, session>>
  BY DEF MarkFailed, ghosts, Down
<1>2. CASE ~HasCheckpoint(session)
  BY <1>1, <1>2, EndsWithoutRow DEF MarkFailed
<1>3. CASE HasCheckpoint(session)
  <2>1. Save(session, Latest(session).batch, "failed")
    BY <1>3 DEF MarkFailed
  <2>2. /\ checkpoints' \in Seq(Row)
        /\ CheckpointsAreSettled' /\ EndsRepeatTheBatch'
        /\ \A i \in DOMAIN checkpoints' : checkpoints'[i].session <= runs
        /\ session \in SessionId /\ Latest(session).batch \in 0 .. LastBatch
    BY <1>1, <1>3, <2>1, ClosingRow, LatestIsCovered
  <2>3. TypeOK'
    BY <1>1, <2>2, DownForgets DEF IInv, TypeOK
  <2>4. \A s \in SessionId : WasCompleted(s) => WasCompleted(s)'
    BY <2>1, <2>2, <2>3, SaveIsLatest DEF IInv
  <2>5. SessionsInTurn' /\ RowsAreKept'
    BY <1>1, <2>2, <2>4 DEF IInv, SessionsInTurn, RowsAreKept, Down
  <2>6. LogIsComplete'
    BY <1>1, DownForgets, EndedRunIsLogged DEF IInv, LogIsComplete
  <2> QED
    BY <1>1, <2>2, <2>3, <2>5, <2>6, DownForgets DEF IInv
<1> QED
  BY <1>2, <1>3

LEMMA MarkCompletedKeepsIInv ==
  ASSUME IInv, MarkCompleted, resumes' = resumes
  PROVE  IInv'
<1>1. /\ phase = "closing"
      /\ UNCHANGED <<bam, saved, changelog, runs, stops, settled, succeeded, session>>
  BY DEF MarkCompleted, ghosts, run, Down
<1>2. CASE ~HasCheckpoint(session)
  BY <1>1, <1>2, EndsWithoutRow DEF MarkCompleted
<1>3. CASE HasCheckpoint(session)
  <2>1. /\ Save(session, Latest(session).batch, "completed")
        /\ phase' = "clearing"
        /\ UNCHANGED <<start, batch, created, outcome, recorded>>
    BY <1>3 DEF MarkCompleted, run
  <2>2. /\ checkpoints' \in Seq(Row)
        /\ CheckpointsAreSettled' /\ EndsRepeatTheBatch'
        /\ \A i \in DOMAIN checkpoints' : checkpoints'[i].session <= runs
        /\ session \in SessionId /\ session <= runs /\ Latest(session).batch \in 0 .. LastBatch
    BY <1>1, <1>3, <2>1, ClosingRow, LatestIsCovered
  <2>3. TypeOK'
    BY <1>1, <2>1, <2>2 DEF IInv, TypeOK, Phases
  <2>4. /\ \A s \in SessionId : WasCompleted(s) => WasCompleted(s)'
        /\ WasCompleted(session)'
    <3> DEFINE b == Latest(session).batch
    <3>1. TypeOK /\ session \in SessionId /\ b \in 0 .. LastBatch /\ Save(session, b, "completed")
      BY <2>1, <2>2 DEF IInv
    <3> HIDE DEF b
    <3>2. WasCompleted(session)'
      BY <1>1, <2>3, <3>1, SaveIsLatest
    <3>3. \A s \in SessionId : WasCompleted(s) => WasCompleted(s)'
      BY <2>3, <3>1, SaveIsLatest
    <3> QED
      BY <3>2, <3>3
  <2>5. SessionsInTurn' /\ RowsAreKept'
    BY <1>1, <2>1, <2>2, <2>4 DEF IInv, SessionsInTurn, RowsAreKept
  <2>6. /\ RunIsSettled' /\ TriedInOrder' /\ KnownIdsAreTheSessions' /\ IdsAreKnown'
        /\ UnresolvedForAReason' /\ RunIsNotBehind'
    BY <1>1, <2>1, <2>2, <2>4 DEF IInv, RunIsSettled, TriedInOrder, KnownIdsAreTheSessions, IdsAreKnown,
       UnresolvedForAReason, RunIsNotBehind
  <2>7. LogIsComplete'
    BY <1>1, <2>1 DEF IInv, LogIsComplete, Unrecorded, Executed
  <2> QED
    BY <2>2, <2>3, <2>5, <2>6, <2>7 DEF IInv
<1> QED
  BY <1>2, <1>3

LEMMA ClearCreatedKeepsIInv ==
  ASSUME IInv, ClearCreated, resumes' = resumes
  PROVE  IInv'
BY EndsWithoutRow DEF ClearCreated, ghosts

-----------------------------------------------------------------------------
(***************************************************************************)
(* Runs that are stopped                                                   *)
(***************************************************************************)
LEMMA LostAnswersAreTyped ==
  ASSUME TypeOK, LostAnswers
  PROVE  bam' \subseteq Resource
<1>1. \A o \in Op : Target[o] \in Resource
  BY SessionAssumption
<1> QED
  BY <1>1 DEF TypeOK, LostAnswers, InFlight

LEMMA InterruptKeepsIInv ==
  ASSUME IInv, Interrupt
  PROVE  IInv'
<1>1. /\ phase \in {"executing", "recording"} /\ phase' = "closing"
      /\ stops' = stops + 1 /\ stops < MaxStops /\ LostAnswers
      /\ UNCHANGED <<checkpoints, saved, changelog, session, start, batch, created,
                     outcome, recorded, runs, settled, succeeded, resumes>>
  BY DEF Interrupt, tables, run, ghosts
<1>2. stops \in Nat /\ stops' \in 0 .. MaxStops /\ stops' # 0
  BY <1>1, Numbers, SessionAssumption DEF IInv
<1>3. TypeOK'
  BY <1>1, <1>2, LostAnswersAreTyped DEF IInv, TypeOK, Phases
<1>4. LogIsComplete'
  BY <1>2 DEF LogIsComplete
<1>5. /\ SessionsInTurn' /\ CheckpointsAreSettled' /\ RunIsSettled' /\ TriedInOrder'
      /\ RowsAreKept' /\ KnownIdsAreTheSessions' /\ IdsAreKnown' /\ UnresolvedForAReason'
  BY <1>1 DEF IInv, SessionsInTurn, CheckpointsAreSettled, RunIsSettled, TriedInOrder,
     RowsAreKept, KnownIdsAreTheSessions, IdsAreKnown, UnresolvedForAReason, WasCompleted, Rows
<1>6. EndsRepeatTheBatch' /\ RunIsNotBehind'
  BY <1>1 DEF IInv, EndsRepeatTheBatch, RunIsNotBehind, InProgress
<1> QED
  BY <1>3, <1>4, <1>5, <1>6 DEF IInv

LEMMA CrashKeepsIInv ==
  ASSUME IInv, Crash
  PROVE  IInv'
<1>1. /\ stops' = stops + 1 /\ stops < MaxStops /\ LostAnswers /\ Down
      /\ UNCHANGED <<checkpoints, saved, changelog, runs, settled, succeeded, resumes>>
  BY DEF Crash, tables, ghosts
<1>2. stops \in Nat /\ stops' \in 0 .. MaxStops /\ stops' # 0
  BY <1>1, Numbers, SessionAssumption DEF IInv
<1>3. TypeOK'
  BY <1>1, <1>2, LostAnswersAreTyped, DownForgets DEF IInv, TypeOK
<1>4. LogIsComplete'
  BY <1>2 DEF LogIsComplete
<1>5. SessionsInTurn' /\ CheckpointsAreSettled' /\ RowsAreKept' /\ EndsRepeatTheBatch'
  BY <1>1 DEF IInv, SessionsInTurn, CheckpointsAreSettled, RowsAreKept, EndsRepeatTheBatch,
     WasCompleted, Rows, InProgress, Down
<1> QED
  BY <1>1, <1>3, <1>4, <1>5, DownForgets DEF IInv

-----------------------------------------------------------------------------
LEMMA InitIInv ==
  ASSUME Init
  PROVE  IInv
<1>1. TypeOK
  <2>1. << >> \in Seq(Row) /\ 0 \in 0 .. LastBatch /\ 1 \in SessionId
    BY LastBatchIsLast, SessionAssumption DEF SessionId
  <2>2. outcome \in [Op -> Outcomes]
    BY DEF Init, NoOutcome, Outcomes
  <2>3. 0 \in 0 .. MaxRuns /\ 0 \in 0 .. MaxStops
    BY SessionAssumption
  <2> QED
    BY <2>1, <2>2, <2>3, SessionAssumption DEF Init, TypeOK, Phases
<1>2. DOMAIN checkpoints = {}
  BY DEF Init
<1>3. \A o \in Op : outcome[o] = "none"
  BY DEF Init, NoOutcome
<1>4. SessionsInTurn /\ CheckpointsAreSettled /\ RunIsSettled /\ TriedInOrder
  BY <1>2, <1>3 DEF Init, SessionsInTurn, CheckpointsAreSettled, RunIsSettled, TriedInOrder, Tried
<1>5. RowsAreKept /\ KnownIdsAreTheSessions /\ IdsAreKnown /\ UnresolvedForAReason
  BY <1>3 DEF Init, RowsAreKept, KnownIdsAreTheSessions, IdsAreKnown, UnresolvedForAReason
<1>6. LogIsComplete /\ EndsRepeatTheBatch /\ RunIsNotBehind
  BY <1>2 DEF Init, LogIsComplete, EndsRepeatTheBatch, RunIsNotBehind
<1> QED
  BY <1>1, <1>4, <1>5, <1>6 DEF IInv

LEMMA NextKeepsIInv ==
  ASSUME IInv, [Next]_vars
  PROVE  IInv'
<1>1. ASSUME Rerun PROVE IInv'
  BY <1>1, StartNewKeepsIInv, StartResumedKeepsIInv DEF Rerun
<1>2. ASSUME Proceed PROVE IInv'
  <2>1. resumes' = resumes
    BY <1>2 DEF Proceed
  <2>2. ASSUME NEW o \in Op, Execute(o) PROVE IInv'
    BY <2>1, <2>2, SucceedKeepsIInv, FailKeepsIInv, RaiseUnresolvedKeepsIInv DEF Execute
  <2>3. ASSUME NEW o \in Op, Record(o) PROVE IInv'
    BY <2>1, <2>3, RecordKeepsIInv
  <2>4. ASSUME EndBatch PROVE IInv'
    BY <2>1, <2>4, EndBatchKeepsIInv
  <2>5. ASSUME AllRecorded PROVE IInv'
    BY <2>1, <2>5, AllRecordedKeepsIInv
  <2>6. ASSUME MarkFailed PROVE IInv'
    BY <2>1, <2>6, MarkFailedKeepsIInv
  <2>7. ASSUME MarkCompleted PROVE IInv'
    BY <2>1, <2>7, MarkCompletedKeepsIInv
  <2>8. ASSUME ClearCreated PROVE IInv'
    BY <2>1, <2>8, ClearCreatedKeepsIInv
  <2> QED
    BY <1>2, <2>2, <2>3, <2>4, <2>5, <2>6, <2>7, <2>8 DEF Proceed
<1>3. ASSUME Interrupt PROVE IInv'
  BY <1>3, InterruptKeepsIInv
<1>4. ASSUME Crash PROVE IInv'
  BY <1>4, CrashKeepsIInv
<1>5. ASSUME UNCHANGED vars PROVE IInv'
  <2>1. UNCHANGED <<bam, checkpoints, saved, changelog, phase, session, start, batch, created,
                    outcome, recorded, resumes, runs, stops, settled, succeeded>>
    BY <1>5 DEF vars, tables, run, ghosts
  <2>2. TypeOK' /\ SessionsInTurn' /\ CheckpointsAreSettled' /\ RunIsSettled' /\ TriedInOrder'
    BY <2>1 DEF IInv, TypeOK, SessionsInTurn, CheckpointsAreSettled, RunIsSettled, TriedInOrder
  <2>3. RowsAreKept' /\ KnownIdsAreTheSessions' /\ IdsAreKnown' /\ UnresolvedForAReason'
    BY <2>1 DEF IInv, RowsAreKept, KnownIdsAreTheSessions, IdsAreKnown, UnresolvedForAReason,
       WasCompleted, Rows
  <2>4. LogIsComplete'
    BY <2>1 DEF IInv, LogIsComplete, Unrecorded, Executed
  <2>5. EndsRepeatTheBatch' /\ RunIsNotBehind'
    BY <2>1 DEF IInv, EndsRepeatTheBatch, RunIsNotBehind, InProgress, HasCheckpoint, Latest, Rows
  <2> QED
    BY <2>2, <2>3, <2>4, <2>5 DEF IInv
<1> QED
  BY <1>1, <1>2, <1>3, <1>4, <1>5 DEF Next

-----------------------------------------------------------------------------
(***************************************************************************)
(* The theorems                                                            *)
(***************************************************************************)
\* The tables and the run agree at all times, whatever runs came before.
THEOREM SessionInvariant == Spec => []IInv
<1>1. Init => IInv
  BY InitIInv
<1>2. IInv /\ [Next]_vars => IInv'
  BY NextKeepsIInv
<1> QED
  BY <1>1, <1>2, PTL DEF Spec

\* Every variable of run_session(), and every row it writes, has its type.
THEOREM SessionTypes == Spec => []TypeOK
<1>1. IInv => TypeOK
  BY DEF IInv
<1> QED
  BY <1>1, SessionInvariant, PTL

\* A run that starts at start_batch_id leaves out nothing that was not tried
\* by earlier runs of its session, wherever those were stopped.
THEOREM ResumeSkipsNothingUntried == Spec => []NothingSkippedUntried
<1>1. IInv => NothingSkippedUntried
  <2> SUFFICES ASSUME IInv, phase = "executing", NEW o \in Op, BatchOf[o] < start
               PROVE  o \in settled[session]
    BY DEF NothingSkippedUntried
  <2>1. BatchOf[o] < batch
    BY Numbers DEF IInv, TriedInOrder
  <2> QED
    BY <2>1 DEF IInv, RunIsSettled
<1> QED
  BY <1>1, SessionInvariant, PTL

\* load_created_resources() hands a run the ids of its own session only.
THEOREM ResumeKnowsItsOwnIds == Spec => []KnownIdsAreTheSessions
<1>1. IInv => KnownIdsAreTheSessions
  BY DEF IInv
<1> QED
  BY <1>1, SessionInvariant, PTL

\* The four reasons why a deferred id may be missing, across all resumes.
THEOREM UnresolvedHasAReason == Spec => []UnresolvedForAReason
<1>1. IInv => UnresolvedForAReason
  BY DEF IInv
<1> QED
  BY <1>1, SessionInvariant, PTL

\* Only a run that is stopped keeps successes from the changelog.
THEOREM UnstoppedRunsAreLogged == Spec => []ChangelogMissesStoppedRunsOnly
<1>1. IInv => ChangelogMissesStoppedRunsOnly
  BY DEF IInv, LogIsComplete, ChangelogMissesStoppedRunsOnly
<1> QED
  BY <1>1, SessionInvariant, PTL

\* Checkpoints are only ever added, and no step adds one with a batch before
\* that of the latest row of its session.
LEMMA StepKeepsWatermark ==
  ASSUME IInv, [Next]_vars, NEW s \in SessionId, HasCheckpoint(s)
  PROVE  HasCheckpoint(s)' /\ Latest(s)'.batch >= Latest(s).batch
<1>1. Latest(s).batch \in Nat
  BY LatestIsCovered, LastBatchIsLast
<1>2. ASSUME UNCHANGED checkpoints PROVE HasCheckpoint(s)' /\ Latest(s)'.batch >= Latest(s).batch
  BY <1>1, <1>2 DEF HasCheckpoint, Latest, Rows
<1>3. ASSUME NEW b \in 0 .. LastBatch, NEW st \in {"in_progress", "completed", "failed"},
             Save(session, b, st), HasCheckpoint(session) => b >= Latest(session).batch
      PROVE  HasCheckpoint(s)' /\ Latest(s)'.batch >= Latest(s).batch
  <2>1. TypeOK /\ TypeOK' /\ session \in SessionId
    BY NextKeepsIInv DEF IInv, TypeOK
  <2>2. CASE s = session
    BY <1>3, <2>1, <2>2, SaveIsLatest
  <2>3. CASE s # session
    <3>1. Rows(s)' = Rows(s) /\ Latest(s)' = Latest(s)
      BY <1>3, <2>1, <2>3, SaveIsLatest
    <3> QED
      BY <1>1, <3>1 DEF HasCheckpoint
  <2> QED
    BY <2>2, <2>3
<1>4. CASE EndBatch
  <2>1. Save(session, batch, "in_progress") /\ batch \in 0 .. LastBatch
    BY <1>4 DEF EndBatch, IInv, TypeOK
  <2>2. HasCheckpoint(session) => batch >= Latest(session).batch
    <3>1. HasCheckpoint(session) => Latest(session).batch \in Nat
      BY LatestIsCovered, LastBatchIsLast DEF IInv, TypeOK
    <3> QED
      BY <1>4, <3>1, Numbers DEF EndBatch, IInv, RunIsNotBehind
  <2> QED
    BY <1>3, <2>1, <2>2
<1>5. ASSUME NEW st \in {"completed", "failed"}, HasCheckpoint(session),
             Save(session, Latest(session).batch, st)
      PROVE  HasCheckpoint(s)' /\ Latest(s)'.batch >= Latest(s).batch
  <2>1. Latest(session).batch \in 0 .. LastBatch
    BY <1>5, LatestIsCovered DEF IInv, TypeOK
  <2>2. Latest(session).batch >= Latest(session).batch
    BY <2>1, LastBatchIsLast
  <2> QED
    BY <1>3, <1>5, <2>1, <2>2
<1>6. CASE MarkFailed
  BY <1>2, <1>5, <1>6 DEF MarkFailed
<1>7. CASE MarkCompleted
  BY <1>2, <1>5, <1>7 DEF MarkCompleted
<1>8. CASE Rerun \/ AllRecorded \/ ClearCreated \/ Interrupt \/ Crash \/ UNCHANGED vars
  BY <1>2, <1>8 DEF Rerun, StartNew, StartResumed, Begin, AllRecorded, ClearCreated, Interrupt,
     Crash, vars, tables
<1>9. CASE \E o \in Op : Execute(o) \/ Record(o)
  BY <1>2, <1>9 DEF Execute, Succeed, Fail, RaiseUnresolved, Record, tables
<1> QED
  BY <1>4, <1>6, <1>7, <1>8, <1>9 DEF Next, Proceed

\* A session is never resumed further back than it has come: neither a crash
\* between two steps nor a resume moves its latest checkpoint backwards.
THEOREM WatermarkStays == Spec => WatermarkNeverFalls
<1> DEFINE Forward == \A s \in SessionId :
             HasCheckpoint(s) => HasCheckpoint(s)' /\ Latest(s)'.batch >= Latest(s).batch
<1>1. IInv /\ [Next]_vars => [Forward]_vars
  BY StepKeepsWatermark
<1> QED
  BY <1>1, SessionInvariant, PTL DEF Spec, WatermarkNeverFalls
=============================================================================
