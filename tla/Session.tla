------------------------------ MODULE Session ------------------------------
(***************************************************************************)
(* Import sessions of one CSV file across crashes and resumes:             *)
(* ImportRunner.run_session() of execution/runner.py over the tables of    *)
(* CheckpointManager (persistence/checkpoint.py) and the changelog.        *)
(*                                                                         *)
(* The executor is reduced to what it leaves behind: batches in order, the *)
(* operations of a batch in any order, a failure cascading to those that   *)
(* depend on it.  Module Executor has the concurrency of a batch; here an  *)
(* operation's answer is handled in one step, and answers may be lost.     *)
(* Every database call commits before it returns.                          *)
(*                                                                         *)
(* Slips next to some definitions are not part of the specification: each  *)
(* is a mistake that one of the properties notices.                        *)
(***************************************************************************)
EXTENDS Integers, Sequences, FiniteSetsExt, Plan

CONSTANTS
  Resource,   \* the BAM resources the operations are about
  Target,     \* [Op -> Resource]
  Existing,   \* resources in BAM before the first run
  Reloaded,   \* creates of the types load_created_resources() returns
  MaxRuns,    \* runs of the importer (bounds the model)
  MaxStops    \* runs that do not come to their end (bounds the model)

\* The k-th run may open session k.
SessionId == 1 .. MaxRuns

\* create_plan() numbers the batches from 0 without a gap.
LastBatch == Max({BatchOf[o] : o \in Op})

ASSUME SessionAssumption ==
  /\ Target \in [Op -> Resource]
  /\ Existing \subseteq Resource
  /\ Reloaded \subseteq Op
  /\ MaxRuns \in Nat \ {0}
  /\ MaxStops \in Nat
  /\ Op # {}
  /\ \A b \in 0 .. LastBatch : BatchOps(b) # {}

VARIABLES
  bam,          \* external: the resources of BAM
  checkpoints,  \* table checkpoints, in the order of insertion
  saved,        \* table created_resources: the creates with a row, by session
  changelog,    \* the changelog's success records, by session
  phase,        \* where run_session() is; "down" between runs
  session,      \* session_id
  start,        \* start_batch_id
  batch,        \* the batch being executed
  created,      \* the executor's created_* maps: the creates with a known id
  outcome,      \* what became of each operation in this run
  recorded,     \* operations whose result the runner has looked at
  resumes,      \* ghost: the user resumes whatever is offered, until the end
  runs, stops,  \* counters for MaxRuns and MaxStops
  settled,      \* ghost: operations some run of the session is done with
  succeeded     \* ghost: operations that succeeded in a run of the session

tables == <<checkpoints, saved, changelog>>
run    == <<session, start, batch, created, outcome, recorded>>
ghosts == <<settled, succeeded>>
vars   == <<bam, tables, phase, run, resumes, runs, stops, ghosts>>

-----------------------------------------------------------------------------
\* CheckpointManager
Rows(s)          == {i \in DOMAIN checkpoints : checkpoints[i].session = s}
HasCheckpoint(s) == Rows(s) # {}
\* get_latest_checkpoint()
Latest(s)        == checkpoints[Max(Rows(s))]

InProgress == {i \in DOMAIN checkpoints : checkpoints[i].status = "in_progress"}
\* find_resumable_session(): only in_progress rows carry the input hash
Resumable  == checkpoints[Max(InProgress)]

\* save_checkpoint()
Save(s, b, st) ==
  checkpoints' = Append(checkpoints, [session |-> s, batch |-> b, status |-> st])

\* save_created_resource()
SaveCreated(o) == saved' = [saved EXCEPT ![session] = @ \cup {o}]
\* load_created_resources()
Reload(s) == saved[s] \cap Reloaded

NoOutcome == [o \in Op |-> "none"]

Init ==
  /\ bam = Existing
  /\ checkpoints = << >>
  /\ saved = [s \in SessionId |-> {}]
  /\ changelog = [s \in SessionId |-> {}]
  /\ phase = "down"
  /\ session = 1
  /\ start = 0
  /\ batch = 0
  /\ created = {}
  /\ outcome = NoOutcome
  /\ recorded = {}
  /\ resumes \in BOOLEAN
  /\ runs = 0
  /\ stops = 0
  /\ settled = [s \in SessionId |-> {}]
  /\ succeeded = [s \in SessionId |-> {}]

-----------------------------------------------------------------------------
Begin(s, b, known) ==
  /\ phase = "down"
  /\ runs < MaxRuns
  /\ runs' = runs + 1
  /\ phase' = "executing"
  /\ session' = s
  /\ start' = b
  /\ batch' = b
  /\ created' = known
  /\ outcome' = NoOutcome
  /\ recorded' = {}
  /\ UNCHANGED <<bam, tables, stops, ghosts>>

\* No session to resume, or resuming it is declined (--no-resume, the prompt).
StartNew == Begin(runs + 1, 0, {})

\* Slip: the rows of all sessions are loaded.
StartResumedWithAllRows ==
  /\ InProgress # {}
  /\ Begin(Resumable.session, Resumable.batch,
           UNION {Reload(s) : s \in SessionId})

\* Slip: nothing is loaded.
StartResumedForgetful ==
  /\ InProgress # {}
  /\ Begin(Resumable.session, Resumable.batch, {})

\* Slip: the session is resumed, but from its beginning.
StartResumedFromZero ==
  /\ InProgress # {}
  /\ Begin(Resumable.session, 0, Reload(Resumable.session))

StartResumed ==
  /\ InProgress # {}
  /\ Begin(Resumable.session, Resumable.batch, Reload(Resumable.session))

-----------------------------------------------------------------------------
(***************************************************************************)
(* execute_plan()                                                          *)
(***************************************************************************)
Attempted(o) ==
  /\ phase = "executing"
  /\ BatchOf[o] = batch
  /\ outcome[o] = "none"
Unresolved(o) == ~(DeferredOn[o] \subseteq created)
Open          == {x \in Op : outcome[x] \notin {"failed", "skipped"}}

\* BAM carries out the request of o, if it can.
CarriedOut(o, resources) ==
  CASE Kind[o] = "create" -> resources \cup {Target[o]}
    [] Kind[o] = "delete" -> resources \ {Target[o]}
    [] OTHER              -> resources

Settle(S) == settled' = [settled EXCEPT ![session] = @ \cup S]

(***************************************************************************)
(* A create may find its resource there already (409, then the lookup) and *)
(* still succeeds; an update or a delete needs its resource.               *)
(***************************************************************************)
Succeed(o) ==
  /\ Attempted(o)
  /\ ~Unresolved(o)
  /\ Kind[o] \in {"update", "delete"} => Target[o] \in bam
  /\ bam' = CarriedOut(o, bam)
  /\ outcome' = [outcome EXCEPT ![o] = "ok"]
  /\ IF Kind[o] = "create"
       THEN /\ created' = created \cup {o}
            /\ SaveCreated(o)
       ELSE UNCHANGED <<created, saved>>
  /\ Settle({o})
  /\ succeeded' = [succeeded EXCEPT ![session] = @ \cup {o}]
  /\ UNCHANGED <<checkpoints, changelog, phase, session, start, batch, recorded,
                 runs, stops>>

Fail(o) ==
  LET below == Cascade(o, Open) IN
  /\ Attempted(o)
  /\ ~Unresolved(o)
  /\ Kind[o] # "noop"
  /\ bam' \in {bam, CarriedOut(o, bam)}
  /\ outcome' = [x \in Op |-> CASE x = o        -> "failed"
                                [] x \in below -> "skipped"
                                [] OTHER       -> outcome[x]]
  /\ Settle({o})
  /\ UNCHANGED <<tables, phase, session, start, batch, created, recorded, runs,
                 stops, succeeded>>

\* The deferred id of a parent is not known: the operation fails by itself.
RaiseUnresolved(o) ==
  /\ Attempted(o)
  /\ Unresolved(o)
  /\ outcome' = [outcome EXCEPT ![o] = "raised"]
  /\ Settle({o})
  /\ UNCHANGED <<bam, tables, phase, session, start, batch, created, recorded,
                 runs, stops, succeeded>>

\* Slip: the checkpoint is written before the whole batch is over.
EndBatchEarly ==
  /\ phase = "executing"
  /\ \E o \in BatchOps(batch) : outcome[o] # "none"
  /\ Save(session, batch, "in_progress")
  /\ IF batch < LastBatch
       THEN batch' = batch + 1 /\ UNCHANGED phase
       ELSE phase' = "recording" /\ UNCHANGED batch
  /\ Settle({o \in BatchOps(batch) : outcome[o] = "skipped"})
  /\ UNCHANGED <<bam, saved, changelog, session, start, created, outcome,
                 recorded, runs, stops, succeeded>>

\* Slip: one batch too many.
EndBatchOffByOne ==
  /\ phase = "executing"
  /\ \A o \in BatchOps(batch) : outcome[o] # "none"
  /\ Save(session, batch, "in_progress")
  /\ IF batch <= LastBatch
       THEN batch' = batch + 1 /\ UNCHANGED phase
       ELSE phase' = "recording" /\ UNCHANGED batch
  /\ Settle({o \in BatchOps(batch) : outcome[o] = "skipped"})
  /\ UNCHANGED <<bam, saved, changelog, session, start, created, outcome,
                 recorded, runs, stops, succeeded>>

\* Slip: a batch is over only when everything in it succeeded.
EndBatchAllOk ==
  /\ phase = "executing"
  /\ \A o \in BatchOps(batch) : outcome[o] = "ok"
  /\ Save(session, batch, "in_progress")
  /\ IF batch < LastBatch
       THEN batch' = batch + 1 /\ UNCHANGED phase
       ELSE phase' = "recording" /\ UNCHANGED batch
  /\ UNCHANGED <<bam, saved, changelog, session, start, created, outcome,
                 recorded, runs, stops, ghosts>>

\* The batch is over: its checkpoint is written, then the next one starts.
EndBatch ==
  /\ phase = "executing"
  /\ \A o \in BatchOps(batch) : outcome[o] # "none"
  /\ Save(session, batch, "in_progress")
  /\ IF batch < LastBatch
       THEN batch' = batch + 1 /\ UNCHANGED phase
       ELSE phase' = "recording" /\ UNCHANGED batch
  /\ Settle({o \in BatchOps(batch) : outcome[o] = "skipped"})
  /\ UNCHANGED <<bam, saved, changelog, session, start, created, outcome,
                 recorded, runs, stops, succeeded>>

-----------------------------------------------------------------------------
(***************************************************************************)
(* The runner looks at the results once execute_plan() has returned all of *)
(* them, and writes the changelog one record at a time.                    *)
(***************************************************************************)
\* Slip: the first batch of the run is taken for one that was done before.
ExecutedAfterStart == {o \in Op : BatchOf[o] > start}

Executed   == {o \in Op : BatchOf[o] >= start}
Unrecorded == Executed \ recorded

Record(o) ==
  /\ phase = "recording"
  /\ o \in Unrecorded
  /\ \A x \in Unrecorded : BatchOf[o] <= BatchOf[x]
  /\ recorded' = recorded \cup {o}
  /\ changelog' = [changelog EXCEPT ![session] =
                     IF outcome[o] = "ok" THEN @ \cup {o} ELSE @]
  /\ UNCHANGED <<bam, checkpoints, saved, phase, session, start, batch, created,
                 outcome, runs, stops, ghosts>>

AllRecorded ==
  /\ phase = "recording"
  /\ Unrecorded = {}
  /\ phase' = "closing"
  /\ UNCHANGED <<bam, tables, run, runs, stops, ghosts>>

\* `failed` counts the failures among the results looked at so far.
SawFailure == \E o \in recorded : outcome[o] \in {"failed", "raised"}

\* Nothing of a run outlives its process but the tables.
Down ==
  /\ phase' = "down"
  /\ start' = 0
  /\ batch' = 0
  /\ created' = {}
  /\ outcome' = NoOutcome
  /\ recorded' = {}
  /\ UNCHANGED session

(***************************************************************************)
(* The finally block: mark_session_failed() or mark_session_completed().   *)
(* Both do nothing for a session without a checkpoint.                     *)
(***************************************************************************)
MarkFailed ==
  /\ phase = "closing"
  /\ SawFailure
  /\ IF HasCheckpoint(session)
       THEN Save(session, Latest(session).batch, "failed")
       ELSE UNCHANGED checkpoints
  /\ Down
  /\ UNCHANGED <<bam, saved, changelog, runs, stops, ghosts>>

MarkCompleted ==
  /\ phase = "closing"
  /\ ~SawFailure
  /\ IF HasCheckpoint(session)
       THEN /\ Save(session, Latest(session).batch, "completed")
            /\ phase' = "clearing"
            /\ UNCHANGED run
       ELSE UNCHANGED checkpoints /\ Down
  /\ UNCHANGED <<bam, saved, changelog, runs, stops, ghosts>>

\* clear_created_resources(), the second half of mark_session_completed()
ClearCreated ==
  /\ phase = "clearing"
  /\ saved' = [saved EXCEPT ![session] = {}]
  /\ Down
  /\ UNCHANGED <<bam, checkpoints, changelog, runs, stops, ghosts>>

-----------------------------------------------------------------------------
\* Requests that may be out when the process goes away; their answers are lost.
InFlight == {o \in Op : Attempted(o) /\ ~Unresolved(o)}

LostAnswers ==
  \E S \in SUBSET InFlight :
    bam' = (bam \cup {Target[o] : o \in {x \in S : Kind[x] = "create"}})
             \ {Target[o] : o \in {x \in S : Kind[x] = "delete"}}

\* An exception or Ctrl-C: the finally block still runs.
Interrupt ==
  /\ phase \in {"executing", "recording"}
  /\ stops < MaxStops
  /\ stops' = stops + 1
  /\ phase' = "closing"
  /\ LostAnswers
  /\ UNCHANGED <<tables, run, resumes, runs, ghosts>>

\* The process is killed: nothing runs any more.
Crash ==
  /\ phase # "down"
  /\ stops < MaxStops
  /\ stops' = stops + 1
  /\ LostAnswers
  /\ Down
  /\ UNCHANGED <<tables, resumes, runs, ghosts>>

Execute(o) == Succeed(o) \/ Fail(o) \/ RaiseUnresolved(o)

Proceed ==
  /\ \/ \E o \in Op : Execute(o) \/ Record(o)
     \/ EndBatch
     \/ AllRecorded
     \/ MarkFailed
     \/ MarkCompleted
     \/ ClearCreated
  /\ UNCHANGED resumes

\* A user who resumes starts anew only when nothing is offered, and stops when
\* a session is through with the file; any other user does as they like.
Unfinished == \A s \in SessionId : settled[s] # Op

Rerun ==
  /\ resumes => Unfinished
  /\ \/ StartResumed
     \/ (resumes => InProgress = {}) /\ StartNew
  /\ UNCHANGED resumes

Next ==
  \/ Rerun
  \/ Proceed
  \/ Interrupt
  \/ Crash

\* A run that is not stopped goes on, and a user who resumes does so in the end.
Spec ==
  Init /\ [][Next]_vars /\ WF_vars(resumes /\ Rerun) /\ WF_vars(Proceed)

-----------------------------------------------------------------------------
Phases   == {"down", "executing", "recording", "closing", "clearing"}
Outcomes == {"none", "ok", "failed", "skipped", "raised"}
Row == [session : SessionId, batch : 0 .. LastBatch,
        status : {"in_progress", "completed", "failed"}]

\* Every variable has its type.
TypeOK ==
  /\ bam \subseteq Resource
  /\ checkpoints \in Seq(Row)
  /\ saved \in [SessionId -> SUBSET Op]
  /\ changelog \in [SessionId -> SUBSET Op]
  /\ phase \in Phases
  /\ session \in SessionId
  /\ start \in 0 .. LastBatch
  /\ batch \in 0 .. LastBatch
  /\ created \subseteq Op
  /\ outcome \in [Op -> Outcomes]
  /\ recorded \subseteq Op
  /\ resumes \in BOOLEAN
  /\ runs \in 0 .. MaxRuns
  /\ stops \in 0 .. MaxStops
  /\ settled \in [SessionId -> SUBSET Op]
  /\ succeeded \in [SessionId -> SUBSET Op]

(***************************************************************************)
(* A resumed run leaves out nothing that was not tried: every operation of *)
(* a batch it skips has been settled by earlier runs of the same session,  *)
(* wherever those runs were stopped.                                       *)
(***************************************************************************)
NothingSkippedUntried ==
  phase = "executing" =>
    \A o \in Op : BatchOf[o] < start => o \in settled[session]

(***************************************************************************)
(* The ids a run knows are ids this very session got from BAM, in this run *)
(* or before: a resume never picks up the rows of another session.         *)
(***************************************************************************)
KnownIdsAreTheSessions == created \subseteq succeeded[session]

WasCompleted(s) == \E i \in Rows(s) : checkpoints[i].status = "completed"

(***************************************************************************)
(* A deferred id is missing for one of four reasons only: the parent never *)
(* succeeded in the session, the graph has no path to it, its type is not  *)
(* reloaded, or the session was marked completed before (which deletes the *)
(* rows) and was resumed all the same.                                     *)
(***************************************************************************)
UnresolvedForAReason ==
  \A o \in Op : outcome[o] = "raised" =>
    \E p \in DeferredOn[o] :
      \/ p \notin succeeded[session]
      \/ p \notin Ancestors[o]
      \/ p \notin Reloaded
      \/ WasCompleted(session)

(***************************************************************************)
(* The batch a session can be resumed from never moves backwards: neither  *)
(* a crash nor a resume makes it repeat more than its last batch.          *)
(***************************************************************************)
WatermarkNeverFalls ==
  [][\A s \in SessionId :
       HasCheckpoint(s) => HasCheckpoint(s)' /\ Latest(s)'.batch >= Latest(s).batch]_vars

(***************************************************************************)
(* However often it is stopped, an import whose user keeps resuming it     *)
(* comes to its end: one session tries every operation of the file.        *)
(***************************************************************************)
ResumedImportCompletes == resumes => <>(\E s \in SessionId : settled[s] = Op)

(***************************************************************************)
(* As long as no run was stopped, the changelog of a session has between   *)
(* its runs a record of every operation that succeeded in it, also when    *)
(* the session was resumed: only a stopped run loses what it has done.     *)
(***************************************************************************)
ChangelogMissesStoppedRunsOnly ==
  stops = 0 /\ phase = "down" => \A s \in SessionId : changelog[s] = succeeded[s]
=============================================================================
