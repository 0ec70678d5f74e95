------------------------------ MODULE Executor ------------------------------
(***************************************************************************)
(* OperationExecutor of src/importer/execution/executor.py running one     *)
(* plan (not a dry run): batches one after the other, the operations of a  *)
(* batch as concurrent coroutines behind the adaptive throttle, deferred   *)
(* ids resolved just before the call, failures cascading over the          *)
(* dependency graph.                                                       *)
(*                                                                         *)
(* An action is what a coroutine does between two suspensions.  The        *)
(* k-th attempt of operation o enters the throttle with slot <<o, k>>: a   *)
(* retry after a rate limit enters it again from inside the earlier block. *)
(* BlueCat Address Manager (BAM) answers each request once.                *)
(*                                                                         *)
(* Slips next to some definitions are not part of the specification: each  *)
(* is a mistake that one of the properties notices.                        *)
(***************************************************************************)
EXTENDS Integers, Sequences, Plan

CONSTANTS
  Resource,          \* the BAM resources the operations are about
  Target,            \* [Op -> Resource]
  Key,               \* the keys of the created_* maps (CIDR, zone name, ...)
  KeyOf,             \* [Op -> Key], under which a created resource is stored
  BadPayload,        \* operations whose payload already carries an "error"
  Existing,          \* resources in BAM before the run
  StartBatches,      \* the start_batch_ids to look at (0: a new session)
  MayBeRateLimited,  \* operations BAM may answer with 429 (bounds the model)
  MaxRetries,        \* 429 answers per operation (bounds the model)
  None,
  InitialConcurrency, MinConcurrency, MaxConcurrency,
  FactorUnit, IncreaseFraction, DecreaseFraction, RateLimitFraction

\* A BAM id: the resource and who created it (None: it was there before).
Id   == Resource \X (Op \cup {None})
Slot == Op \X (0 .. MaxRetries)

ASSUME RunAssumption ==
  /\ Target \in [Op -> Resource]
  /\ KeyOf \in [Op -> Key]
  /\ BadPayload \subseteq Op
  /\ StartBatches \subseteq Nat
  /\ MaxRetries \in Nat
  /\ None \notin Op \cup Id

\* What AdaptiveThrottle assumes of its configuration.
ASSUME ThrottleAssumption ==
  /\ {InitialConcurrency, MinConcurrency, MaxConcurrency, FactorUnit} \subseteq Nat \ {0}
  /\ IncreaseFraction \in Nat
  /\ {DecreaseFraction, RateLimitFraction} \subseteq 0 .. FactorUnit

VARIABLES
  start,    \* start_batch_id
  batch,    \* the batch being executed
  pc,       \* where each operation's coroutine is suspended
  attempt,  \* how many rate-limited attempts it is nested in
  status,   \* Operation.status
  result,   \* what the coroutine returned to gather()
  created,  \* the created_* maps
  bound,    \* the ids put in place of deferred keys in the working copy
  bam,      \* external: the resources of BAM and their ids
  active, limit, queue, notified, held, requested, rateLimited,
  adjusting, increases, decreases, rateDecreases

opVars       == <<start, batch, pc, attempt, status, result, created, bound, bam>>
throttleVars == <<active, limit, queue, notified, held, requested, rateLimited,
                  adjusting, increases, decreases, rateDecreases>>
vars         == <<opVars, throttleVars>>

Throttle == INSTANCE AdaptiveThrottle

-----------------------------------------------------------------------------
(***************************************************************************)
(* What the runs before left, of this session or of one without a          *)
(* checkpoint yet.  They tried the batches up to start, and what they got  *)
(* to of the one after it; done are the operations that BAM carried out.   *)
(* A resume forgets who failed, so a zone may be done and its deletion     *)
(* before it not, but nobody was sent without the ids that it waits for.   *)
(***************************************************************************)
Tried(b)   == {o \in Op \ BadPayload : BatchOf[o] <= b + 1 /\ Kind[o] \in {"create", "delete"}}
LeftBehind(b) == {done \in SUBSET Tried(b) : \A o \in done : DeferredOn[o] \subseteq done}

\* The id of r then: deletions come before creations, and a creation gets the id
\* of what is there (409).
LeftOf(r, done) ==
  LET about  == {o \in done : Target[o] = r}
      makers == {o \in about : Kind[o] = "create"}
      first  == CHOOSE o \in makers : \A p \in makers : BatchOf[o] <= BatchOf[p]
  IN IF r \in Existing /\ about = makers THEN <<r, None>>
     ELSE IF makers = {} THEN None ELSE <<r, first>>

(***************************************************************************)
(* Of the ids of what was created, the maps have those with a row in       *)
(* created_resources that load_created_resources() looks at: none when the *)
(* session ended by an error or an interrupt, and never one of a device.   *)
(***************************************************************************)
Loaded(known, k) ==
  IF \E o \in known : KeyOf[o] = k THEN bam[Target[CHOOSE o \in known : KeyOf[o] = k]] ELSE None

Init ==
  /\ start \in StartBatches
  /\ batch = start
  /\ \E done \in LeftBehind(start) :
       /\ bam = [r \in Resource |-> LeftOf(r, done)]
       /\ \E known \in SUBSET {o \in done : Kind[o] = "create"} :
            created = [k \in Key |-> Loaded(known, k)]
  /\ pc = [o \in Op |-> "ready"]
  /\ attempt = [o \in Op |-> 0]
  /\ status = [o \in Op |-> "pending"]
  /\ result = [o \in Op |-> "none"]
  /\ bound = [o \in Op |-> {}]
  /\ Throttle!Init

InBatch(o)      == BatchOf[o] = batch
CurrentSlot(o)  == <<o, attempt[o]>>
\* the nested `async with` blocks the coroutine is inside
SlotsHeld(o)    == {s \in held : s[1] = o}
\* _execute_operation is entered for the first time, or again after the sleep
Entering(o)     == InBatch(o) /\ pc[o] \in {"ready", "slept"}

\* The coroutine returns r; leaving its blocks is up to the caller.
Finish(o, r) ==
  /\ pc' = [pc EXCEPT ![o] = "done"]
  /\ result' = [result EXCEPT ![o] = r]

\* Leaves the blocks without reporting to the throttle.
LeaveBlocks(o) ==
  /\ Throttle!Release(SlotsHeld(o))
  /\ UNCHANGED <<limit, rateLimited, adjusting, increases, decreases, rateDecreases>>

-----------------------------------------------------------------------------
\* where a cascade goes on: the operations that are not failed or skipped yet
Unsettled == {x \in Op : status[x] \notin {"failed", "skipped"}}

\* Slip: a failure concerns nobody else.
MarkFailedAlone(o) == status' = [status EXCEPT ![o] = "failed"]

\* Slip: the search stops at the direct dependents.
MarkFailedOneLevel(o) ==
  status' = [x \in Op |-> CASE x = o -> "failed"
                            [] x \in Unsettled /\ o \in Deps[x] -> "skipped"
                            [] OTHER -> status[x]]

\* _mark_operation_failed()
MarkFailed(o) ==
  LET below == Cascade(o, Unsettled) IN
  status' = [x \in Op |-> CASE x = o        -> "failed"
                            [] x \in below -> "skipped"
                            [] OTHER       -> status[x]]

\* _check_operation_skipped()
ReturnSkipped(o) ==
  /\ Entering(o)
  /\ status[o] = "skipped"
  /\ Finish(o, "skipped")
  /\ LeaveBlocks(o)
  /\ UNCHANGED <<start, batch, attempt, status, created, bound, bam>>

\* "error" in operation.payload
RejectBadPayload(o) ==
  /\ Entering(o)
  /\ status[o] # "skipped"
  /\ o \in BadPayload
  /\ MarkFailed(o)
  /\ Finish(o, "failed")
  /\ LeaveBlocks(o)
  /\ UNCHANGED <<start, batch, attempt, created, bound, bam>>

Runnable(o) == Entering(o) /\ status[o] # "skipped" /\ o \notin BadPayload

DeferredKeys(o) == {KeyOf[p] : p \in DeferredOn[o]}
Resolvable(o)   == \A k \in DeferredKeys(o) : created[k] # None

\* _resolve_deferred_ids(): ids from the created_* maps replace the keys.
ResolveDeferred(o) ==
  bound' = [bound EXCEPT ![o] = {<<p, created[KeyOf[p]]>> : p \in DeferredOn[o]}]

(***************************************************************************)
(* _resolve_deferred_ids() raises outside of the try block: gather() gets  *)
(* the exception, the operation keeps its status and nothing cascades.     *)
(***************************************************************************)
RaiseUnresolved(o) ==
  /\ Runnable(o)
  /\ ~Resolvable(o)
  /\ Finish(o, "raised")
  /\ LeaveBlocks(o)
  /\ UNCHANGED <<start, batch, attempt, status, created, bound, bam>>

\* Slip: a deferred id that is not known yet goes into the request as it is.
EnterThrottleUnresolved(o) ==
  LET k == IF pc[o] = "slept" THEN attempt[o] + 1 ELSE 0 IN
  /\ Runnable(o)
  /\ ResolveDeferred(o)
  /\ attempt' = [attempt EXCEPT ![o] = k]
  /\ Throttle!Enter(<<o, k>>)
  /\ pc' = [pc EXCEPT ![o] = IF Throttle!HasRoom THEN "calling" ELSE "waiting"]
  /\ UNCHANGED <<start, batch, status, result, created, bam>>

\* Deferred ids resolved; the throttle admits the operation or makes it wait.
EnterThrottle(o) ==
  LET k == IF pc[o] = "slept" THEN attempt[o] + 1 ELSE 0 IN
  /\ Runnable(o)
  /\ Resolvable(o)
  /\ ResolveDeferred(o)
  /\ attempt' = [attempt EXCEPT ![o] = k]
  /\ Throttle!Enter(<<o, k>>)
  /\ pc' = [pc EXCEPT ![o] = IF Throttle!HasRoom THEN "calling" ELSE "waiting"]
  /\ UNCHANGED <<start, batch, status, result, created, bam>>

\* The next woken coroutine gets its slot or waits again.
WakeWaiter ==
  /\ Throttle!WakeUp
  /\ pc' = IF Throttle!HasRoom THEN [pc EXCEPT ![Head(queue)[1]] = "calling"] ELSE pc
  /\ UNCHANGED <<start, batch, attempt, status, result, created, bound, bam>>

-----------------------------------------------------------------------------
(***************************************************************************)
(* Answers to the request of an operation that is inside its block.  The   *)
(* outcome is recorded with the throttle and all its blocks unwind.        *)
(***************************************************************************)
Calling(o, kind) == pc[o] = "calling" /\ Kind[o] = kind

\* Slip: only the innermost of the nested blocks gives its slot back.
SucceedReleasingOnce(o, r) ==
  /\ Finish(o, r)
  /\ status' = [status EXCEPT ![o] = "succeeded"]
  /\ Throttle!Complete({CurrentSlot(o)})
  /\ UNCHANGED <<start, batch, attempt, bound>>

Succeed(o, r) ==
  /\ Finish(o, r)
  /\ status' = [status EXCEPT ![o] = "succeeded"]
  /\ Throttle!Complete(SlotsHeld(o))
  /\ UNCHANGED <<start, batch, attempt, bound>>

\* Slip: the failure is returned but not marked.
FailUnmarked(o) ==
  /\ Finish(o, "failed")
  /\ Throttle!Complete(SlotsHeld(o))
  /\ UNCHANGED <<start, batch, attempt, status, bound, created>>

Fail(o) ==
  /\ Finish(o, "failed")
  /\ MarkFailed(o)
  /\ Throttle!Complete(SlotsHeld(o))
  /\ UNCHANGED <<start, batch, attempt, bound, created>>

\* Slip: the id is the one that was cached before the resource was deleted.
CreateSucceedsWithStaleId(o) ==
  /\ Calling(o, "create")
  /\ bam[Target[o]] = None
  /\ bam' = [bam EXCEPT ![Target[o]] = <<Target[o], o>>]
  /\ created' = [created EXCEPT ![KeyOf[o]] = <<Target[o], None>>]
  /\ Succeed(o, "ok")

\* _store_created_resource()
StoreCreated(o, id) == created' = [created EXCEPT ![KeyOf[o]] = id]

CreateSucceeds(o) ==
  /\ Calling(o, "create")
  /\ bam[Target[o]] = None
  /\ bam' = [bam EXCEPT ![Target[o]] = <<Target[o], o>>]
  /\ StoreCreated(o, <<Target[o], o>>)
  /\ Succeed(o, "ok")

\* 409: the executor looks the resource up before it gives up
CreateConflicts(o) ==
  /\ Calling(o, "create")
  /\ bam[Target[o]] # None
  /\ pc' = [pc EXCEPT ![o] = "lookup"]
  /\ UNCHANGED <<start, batch, attempt, status, result, created, bound, bam, throttleVars>>

LookupFinds(o) ==
  /\ pc[o] = "lookup"
  /\ bam[Target[o]] # None
  /\ StoreCreated(o, bam[Target[o]])
  /\ Succeed(o, "exists")
  /\ UNCHANGED bam

\* nothing found, no lookup for this type, or an error swallowed by the lookup
LookupMisses(o) ==
  /\ pc[o] = "lookup"
  /\ Fail(o)
  /\ UNCHANGED bam

UpdateSucceeds(o) ==
  /\ Calling(o, "update")
  /\ bam[Target[o]] # None
  /\ Succeed(o, "ok")
  /\ UNCHANGED <<created, bam>>

DeleteSucceeds(o) ==
  /\ Calling(o, "delete")
  /\ bam[Target[o]] # None
  /\ bam' = [bam EXCEPT ![Target[o]] = None]
  /\ Succeed(o, "ok")
  /\ UNCHANGED created

\* phase barriers: _execute_noop() makes no request
PassBarrier(o) ==
  /\ Calling(o, "noop")
  /\ Succeed(o, "ok")
  /\ UNCHANGED <<created, bam>>

\* An error answer, or a lost one: BAM may have carried the request out.
CallFails(o) ==
  /\ pc[o] = "calling"
  /\ Kind[o] # "noop"
  /\ \/ bam' = bam
     \/ Kind[o] = "create" /\ bam[Target[o]] = None
        /\ bam' = [bam EXCEPT ![Target[o]] = <<Target[o], o>>]
     \/ Kind[o] = "delete" /\ bam' = [bam EXCEPT ![Target[o]] = None]
  /\ Fail(o)

\* Slip: the rate limit is reported twice, by the client and by the executor.
RateLimitHitTwice(o) ==
  /\ pc[o] = "calling"
  /\ Kind[o] # "noop"
  /\ o \in MayBeRateLimited
  /\ attempt[o] < MaxRetries
  /\ rateLimited' = rateLimited \cup {CurrentSlot(o)}
  /\ rateDecreases' = rateDecreases + 2
  /\ pc' = [pc EXCEPT ![o] = "sleeping"]
  /\ UNCHANGED <<start, batch, attempt, status, result, created, bound, bam, active, limit,
                 queue, notified, held, requested, adjusting, increases, decreases>>

\* 429: reported to the throttle; the coroutine sleeps inside its block.
RateLimitHit(o) ==
  /\ pc[o] = "calling"
  /\ Kind[o] # "noop"
  /\ o \in MayBeRateLimited
  /\ attempt[o] < MaxRetries
  /\ Throttle!RateLimit(CurrentSlot(o))
  /\ pc' = [pc EXCEPT ![o] = "sleeping"]
  /\ UNCHANGED <<start, batch, attempt, status, result, created, bound, bam>>

WakeFromSleep(o) ==
  /\ pc[o] = "sleeping"
  /\ pc' = [pc EXCEPT ![o] = "slept"]
  /\ UNCHANGED <<start, batch, attempt, status, result, created, bound, bam, throttleVars>>

-----------------------------------------------------------------------------
Remaining   == {o \in Op : BatchOf[o] >= batch}
Finished    == Remaining = {}

\* Slip: the next batch starts when the first coroutine is done.
NextBatchEarly ==
  /\ ~Finished
  /\ \E o \in BatchOps(batch) : pc[o] = "done"
  /\ batch' = batch + 1
  /\ UNCHANGED <<start, pc, attempt, status, result, created, bound, bam, throttleVars>>

\* gather() returned: execute_plan() goes on with the next batch.
NextBatch ==
  /\ ~Finished
  /\ \A o \in BatchOps(batch) : pc[o] = "done"
  /\ batch' = batch + 1
  /\ UNCHANGED <<start, pc, attempt, status, result, created, bound, bam, throttleVars>>

Adjust ==
  /\ Throttle!Increase \/ Throttle!Decrease \/ Throttle!RateDecrease
  /\ UNCHANGED opVars

Begin(o) ==
  \/ ReturnSkipped(o)
  \/ RejectBadPayload(o)
  \/ RaiseUnresolved(o)
  \/ EnterThrottle(o)

Answer(o) ==
  \/ CreateSucceeds(o)
  \/ CreateConflicts(o)
  \/ LookupFinds(o)
  \/ LookupMisses(o)
  \/ UpdateSucceeds(o)
  \/ DeleteSucceeds(o)
  \/ PassBarrier(o)
  \/ CallFails(o)
  \/ RateLimitHit(o)

Next ==
  \/ \E o \in Op : Begin(o) \/ Answer(o) \/ WakeFromSleep(o)
  \/ WakeWaiter
  \/ NextBatch
  \/ Adjust

Spec == Init /\ [][Next]_vars

(***************************************************************************)
(* The event loop runs every coroutine that is ready, timers fire, and     *)
(* every request is answered or times out (httpx timeouts).                *)
(***************************************************************************)
Fairness ==
  /\ \A o \in Op : WF_vars(Begin(o)) /\ WF_vars(Answer(o)) /\ WF_vars(WakeFromSleep(o))
  /\ WF_vars(WakeWaiter)
  /\ WF_vars(NextBatch)
  /\ WF_vars(Adjust)

FairSpec == Spec /\ Fairness

-----------------------------------------------------------------------------
Places   == {"ready", "waiting", "calling", "lookup", "sleeping", "slept", "done"}
Statuses == {"pending", "succeeded", "failed", "skipped"}
Results  == {"none", "ok", "exists", "failed", "skipped", "raised"}

\* Every variable has its type.
TypeOK ==
  /\ start \in StartBatches
  /\ batch \in Nat
  /\ pc \in [Op -> Places]
  /\ attempt \in [Op -> 0 .. MaxRetries]
  /\ status \in [Op -> Statuses]
  /\ result \in [Op -> Results]
  /\ created \in [Key -> Id \cup {None}]
  /\ bound \in [Op -> SUBSET (Op \X Id)]
  /\ bam \in [Resource -> Id \cup {None}]
  /\ Throttle!TypeOK

Underway(o) == pc[o] \in {"waiting", "calling", "lookup", "sleeping", "slept"}

(***************************************************************************)
(* "All operations in a batch complete before next batch starts", and so   *)
(* no operation is under way (waiting for a slot included) while anything  *)
(* it depends on, at any distance, still is or has not been tried.         *)
(***************************************************************************)
DependenciesSettled ==
  \A o \in Op : Underway(o) =>
    \A a \in Ancestors[o] : BatchOf[a] < start \/ pc[a] = "done"

(***************************************************************************)
(* The cascade reaches everyone in time: an operation that is under way or *)
(* succeeded has no ancestor that failed or was skipped.                   *)
(***************************************************************************)
NoCallBelowFailure ==
  \A o \in Op : Underway(o) \/ status[o] = "succeeded" =>
    \A a \in Ancestors[o] : status[a] \notin {"failed", "skipped"}

(***************************************************************************)
(* The ids put in place of deferred keys are those of the parents, as BAM  *)
(* knows them while the operation's request is out.                        *)
(***************************************************************************)
DeferredIdsAreTheParents ==
  \A o \in Op : pc[o] \in {"calling", "lookup", "sleeping"} =>
    \A p \in DeferredOn[o] : <<p, bam[Target[p]]>> \in bound[o]

(***************************************************************************)
(* The result list and the operations' statuses, which the runner and the  *)
(* cascade read respectively, tell the same story once a coroutine is      *)
(* done.  The one exception is an unresolved deferred id, and that happens *)
(* only where the graph has no path to the parent, a resume skipped it, or *)
(* its own deferred id was unresolved.                                     *)
(***************************************************************************)
ResultsMatchStatuses ==
  \A o \in Op :
    /\ result[o] \in {"ok", "exists"} <=> status[o] = "succeeded"
    /\ result[o] = "failed" <=> status[o] = "failed"
    /\ result[o] = "skipped" => status[o] = "skipped"
    /\ result[o] = "raised" =>
         /\ status[o] = "pending"
         /\ \E p \in DeferredOn[o] :
              p \notin Ancestors[o] \/ BatchOf[p] < start \/ result[p] = "raised"

(***************************************************************************)
(* When nothing is under way all slots are back and nobody is queued: no   *)
(* path through retries, errors and nested blocks leaks a slot into the    *)
(* next batch.                                                             *)
(***************************************************************************)
SlotsReturnedBetweenBatches ==
  (\A o \in Op : ~Underway(o)) => active = 0 /\ held = {} /\ queue = << >>

(***************************************************************************)
(* Seen from the throttle, the executor is a well-behaved user: it enters  *)
(* a block once per attempt and leaves it once.                            *)
(***************************************************************************)
UsesThrottleCorrectly == Throttle!Spec

(***************************************************************************)
(* Batches, coroutines, throttle, retries and the search of the cascade    *)
(* add up to what Execution says: every operation is tried once at most    *)
(* and after all it depends on, and a failure skips what descends from it. *)
(***************************************************************************)
LeftOut    == {o \in Op : BatchOf[o] < start}
InProgress == {o \in Op : Underway(o)}
OutcomeOf  ==
  [o \in Op |-> IF result[o] = "raised" THEN "unresolved"
               ELSE IF status[o] = "pending" THEN "open" ELSE status[o]]

Promise ==
  INSTANCE Execution WITH before <- LeftOut, running <- InProgress, outcome <- OutcomeOf

ImplementsExecution == Promise!Spec

(***************************************************************************)
(* Every plan comes to its end, whatever fails and however often BAM       *)
(* answers with a rate limit (at most MaxRetries times per operation).     *)
(***************************************************************************)
EveryPlanFinishes == <>Finished
=============================================================================
