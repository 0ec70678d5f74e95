# TLA+ models of the BlueCat CSV importer

The importer reads a CSV file, turns its rows into operations on BlueCat
Address Manager (BAM), orders them by their dependencies and executes them
concurrently, so that an interrupted import can be resumed and a finished one
rolled back. These modules model that way from the lines of the file to BAM and
back, with what tests hardly reach in mind: interleavings of coroutines,
failures that cascade, crashes and resumes, caches that outlive a run, requests
that are retried. Paths below are relative to `src/importer/`.

## Inventory

| Component | State it keeps | Operations | Hard behaviour | What makes it correct |
|---|---|---|---|---|
| `core/parser.py`, `models/csv_row.py` | none | lines to rows, duplicate ids | one bad row refuses the file | a file is all in or all out |
| `core/operation_factory.py` | pending resources of the file | a row to a payload | what the file creates itself cannot be looked up yet | every reference is an id, a deferred key or an error |
| `core/resolver.py`, `utils/locking.py` | cache of ids by path, on disk | resolve, invalidate | stale answer written after an invalidation; paths that differ from those invalidated | an id in use is one BAM has |
| `dependency/planner.py`, `dependency/graph.py`, `execution/planner.py` | nodes, edges, depths, phase barriers | add operation, add edge (cycles rejected), phasing, sorting, batches | swallowed rejections, edges against the phases, batch numbers | batches respect edges and phases, parents before children, deletes the other way round |
| `execution/executor.py` OperationExecutor | status and result of each operation, `created_*` maps, skipped operations | execute_plan, one coroutine per operation, cascade, deferred ids, 409 lookup, rate-limit retry | concurrent failures, retries inside the block, lost answers | dependencies first, nothing below a failure, skipped for a reason, plans end |
| `execution/throttle.py` AdaptiveThrottle | counter of running operations, moving limit, condition variable, `_adjusting` | enter and leave the block, record success or failure, scheduled increase / decrease / rate-limit decrease | woken operations are overtaken, the limit moves while others wait, nested blocks | counter exact, no lost wake-up, everyone served, limit in bounds |
| `execution/handlers.py` | none | an operation to requests | operations of several requests, guards in one layer only | protected types need the flag |
| `bam/client.py` BAMClient | token, lock around the login | request with 429 and 401 handling, paging, endpoint wrappers | several 401 at once, nested retries, links in a circle | no write twice, bounded retries, every request ends |
| `execution/runner.py` ImportRunner | session id, start batch, result counters | run_session: resume decision, plan, execute, record, close | crash or interrupt anywhere | nothing left out, truthful final status |
| `persistence/checkpoint.py` CheckpointManager | tables `checkpoints`, `created_resources` | save, latest, find resumable, mark completed / failed, save / load / clear created resources | rows of ended sessions, partial loads | resume point and ids fit the session |
| `persistence/changelog.py`, `rollback/generator.py` | table of records | record, list, generate inverse rows | written late; undoing what was not done | complete and invertible |
| `core/state_loader.py`, `core/diff_engine.py`, `validation/`, `core/sanitizer.py` | none | pure functions | - | - |
| `core/exporter.py`, `cli.py`, `self_test.py`, `observability/` | none that others read | input and output | - | - |

How they interact: `run_session()` asks the CheckpointManager for a session to
resume, has the parser read the file and the factory make operations (using
resolver and client), has the DependencyPlanner draw edges and the
DependencyGraph add phase barriers, gets batches from the ExecutionPlanner and
hands plan and graph to the executor. The executor runs each batch under the
throttle, one handler and its requests per operation, and writes a row per
created resource and a checkpoint per batch. When it has returned every result,
the runner invalidates the resolver cache, writes the changelog and marks the
session. All of this is one asyncio event loop; the only concurrency within a
process is between coroutines, at their awaits. Processes share the resolver's
cache and the database on disk.

## Modules

The state machines, from the bottom up:

**SlotPool** is what a user of the throttle may rely on: operations are admitted
one at a time and only below the limit, and moving the limit admits and evicts
nobody.

**AdaptiveThrottle** is the class. `active` is `_active_tasks`, `limit` is
`current_concurrency`; `queue` and `notified` are the condition's deque of
futures and how many of them are done; `increases`, `decreases` and
`rateDecreases` count scheduled tasks. `Acquire` is `acquire()` up to its first
suspension, `Resume` a pass of its loop after a wake-up, `Release(S)` the
`_release_async()` of one block or of several nested ones. No code awaits while
it holds the condition's lock (waiting gives it up), so a critical section is
one action. Clock, error rate and latency only decide whether
`_maybe_adjust_concurrency()` schedules something, and are a free choice. The
factors are fractions of `FactorUnit`. In binary floating point `1.2 - 1.0` is
a little below 0.2, which instances can express with a large unit; at ten running operations the
code therefore adds one, where its docstring (throttle.py:309) gives 12.

**Plan** holds what the executor receives: operations, kinds, edges, batch
numbers and deferred parents, with `Cascade`, the set that `_cascade_failure()`
marks. It is the solution of the equation "open, and depending on the failed
operation or on a marked one", which in an acyclic graph is unique.

**Execution** is what the executor promises of a plan. It knows no batches,
coroutines, slots, retries or answers, only which operations are left out by a
resumed run (`before`), which are under way and how each one ended. An operation
starts once, when everything it depends on is left out, has succeeded or was
left unresolved; a failure turns all its descendants to "skipped" in the same step; an
operation is left unresolved only where the id of a parent cannot be known.

**Executor** extends Plan and instantiates AdaptiveThrottle. Each operation has
a coroutine whose `pc` says where it is suspended. `Begin(o)` is the part of
`_execute_operation()` before the throttle, `Answer(o)` what it does with BAM's
answer. A rate limit makes it sleep and call itself inside its own block, so
slot `<<o, k>>` is the k-th nesting, and ending the operation leaves all of
them. `bam` maps resources to ids, an id being the resource and who created it,
so that a re-created resource has another id. A run starts at any of
`StartBatches`, over what earlier runs left: of the creations and deletions in
the batches that they tried, the last of them perhaps not to its end, BAM has
carried out any that had the ids they wait for (`LeftBehind`), so a zone may be
there, be gone, be another one or still be the old one. The maps hold the ids of any
of the creations among these (`Loaded`): the rows may have been deleted with the
session (runner.py:447), and those of devices are never loaded
(checkpoint.py:481). A failing call may or may not have been carried out (a lost
answer).

**Session** extends Plan. `Begin` is the head of `run_session()`; `Succeed`,
`Fail` and `RaiseUnresolved` are the executor reduced to what it leaves behind;
`EndBatch` writes the checkpoint; `Record` is an iteration of the results loop;
`MarkFailed`, `MarkCompleted` and `ClearCreated` are the finally block,
`MarkCompleted` and `ClearCreated` being separate commits. `Interrupt` is an
exception or Ctrl-C (the finally block runs), `Crash` a kill (it does not).
Both may happen at every step and lose any answers that are out.

**Client** is `request()`, `authenticate()` and `get_all_pages()`. `call` holds
the locals of each request, `lock` and `queue` are `_auth_lock`, `credentials`
is the session it sends, `sessions` are those that BAM accepts. The part of a
request between two awaits is one action. A request that meets an ended session
forces a login (`Unauthorized`) and starts over with a fresh count of rate-limit
retries (`LoggedIn`). A walk knows pages by their keys, endpoint and sorted
parameters (client.py:735, 770-778): the first is `limit=N`, a link back to the
first page adds `offset=0`, so that page can have two keys and is read for each.
tenacity's decorator never sees a network error, because
`request()` turns it into a BAMAPIError itself; so `Lost` ends a request.

**Resolver** is the cache of ids by path. A path is what a row spells: slashes in
front, and names. The key of an entry is the type with the path as written
(resolver.py:1046), what BAM is asked for (`LeadsTo`) leaves the slashes out, so
two keys can lead to one thing. Each run resolves the parents of its
rows one after the other (`CacheHit`, or `Query` and later `Store`, which are
apart because of the await between them), carries out the operations, and
invalidates by its results. `Phase` orders the operations as the barriers do.
Blocks are at the root (blocks nested in blocks are left out), and ranges are
created and not deleted. The cache is one table for all runs; BAM gives an id
only once. `quiet` collects ids that were deleted, each with the one key that the
deletion will invalidate, or none; `overlapped` remembers that two runs were under way at once.

**OperationFactory** has an operator for each `_build_..._payload()` and
`_resolve_...()`: given a row, what the file creates and what is in BAM, it is
the references that were looked up, those deferred and whether the row is an
error. **DependencyPlanner** is `build_graph()`: the lookup maps and the edges
of a row (a set, as edges that leave one node do not decide about each other).
**DependencyGraph** has `AddOperation`, `AddDependency` with the search for a
cycle (a search that can go on for ever among the nodes of some set), the edges
that `build_from_operations()` detects, the barrier of a phase (`ApplyPhase`,
`WaitForBarrier`), and `BatchFor`, the depth of a node from the batches of what
it depends on. **ExecutionPlanner** cuts a batch into parts (`PartEnd`,
`NextBatch`). None of the four has variables; **Planning** composes them into
`run_session()` from rows to plan, one step for each node (`AddNode`), each row
that is wired (`WireOperation`, `DetectForOperation`; `Wirings` says by whom),
each edge (`AddEdge`), each phase (`AddBarrier`), each turn of Kahn's algorithm
(`QueueRoots`, `SortNode`) and each batch of the plan (`CutBatch`). A Python set
has no order to rely on, so `SortNode` takes the freed nodes in any.

**Rows** has an operator per row class, with the columns it requires and checks,
and `Parse`. **Handlers** has an operator per handler: the request that it makes
for each action, what it needs for it, from where it takes the id (the bam_id of the
row, or for devices, their types and subtypes, ACLs and access rights a column,
`ByColumn`) and which types it accepts in a column (`OfType`); a value that is no
number in such a column counts as missing. **Rollback** composes both with the
factory: `ParseFile`, the operations (`Create`, `Conflict`, `Change`, `Fault`,
`FailWithoutRequest`), `EndSession` with the changelog, `ImportAgain`, and
`RollBack`, which imports what RollbackGenerator wrote. A result has the id that
the executor reports and, apart from it, the resource that the handler acted on;
the link of a device to an address is a resource of its own. An operation is one step
there; how operations overlap is Executor's subject.

**MCExecutor**, **MCSession**, **MCPlanning**, **MCRollback**, **MCClient** and
**MCResolver** hold the plans, files, pages and contents of BAM used for model
checking. The theorems are in **AdaptiveThrottleProofs**, **PlanProofs**,
**ExecutorProofs**, **SessionProofs**, **ResolverProofs**, **PlanningProofs**,
**RollbackProofs** and **ClientProofs**, each beside the module of that name.

Definitions with a comment that begins with "Slip" are not part of any
specification. Each is the neighbouring definition with a plausible mistake in
it, kept because one of the properties fails when it takes that definition's
place; this is how we know that the property looks at the code at all.

## Runs

| Run | Instance | Shows |
|---|---|---|
| `throttle.cfg` on AdaptiveThrottle | 4 acquisitions, limit 1..3 from 2 (29147 states) | the counter is exact, no wake-up is lost, the maximum is kept, refinement of SlotPool, every waiter served |
| `executor.cfg` on MCExecutor | 10 operations, 5 batches, 2 to 3 slots, one operation may be rate-limited once; a new session, or one resumed at batch 2 or 3 over whatever earlier runs can have left (250824 states) | the safety properties of a plan, current deferred ids, correct use of the throttle, refinement of Execution, termination |
| `session.cfg` on MCSession | 6 operations, 3 runs, 2 stops (1.4 million states) | resume leaves nothing out and mixes up no sessions; a user who always resumes gets through the file |
| `planning.cfg` on MCPlanning | 886 files of up to four rows, BAM with and without what they name, both wirings, batches of any size or of two (245791 states) | the plan has everything once, after what it depends on, in the order of the phases |
| `rollback.cfg` on MCRollback | files with a row of each type and action, pairs, refused ones; BAM empty, prepared or full; one fault per session (27646 states) | what a rollback and a second import do, and of what a reported id is the id |
| `client.cfg` on MCClient | two writes and a walk over three pages, the first with two keys, one expiry, two 429, one fault (674464 states) | no write twice, bounded attempts, complete walks, every request ends |
| `resolver.cfg` on MCResolver | 14 files with both spellings, two processes, three sessions, one stop, one change by others (4.9 million states, up to a swap of the processes) | which entries can be stale, which rows miss their parents |
| `executor_nested_slots.cfg`, `planning_deletes.cfg`, `rollback_undo.cfg`, `rollback_verify.cfg`, `client_logins.cfg` | as above | the five disagreements below |

Bounds. Four acquisitions and a limit of at most three give every constellation
the throttle distinguishes: two operations inside with two waiting, a woken one
overtaken by a newcomer, a limit lowered below the operations inside, nested
blocks left together; the proofs cover the rest. The plan of Executor has each
kind of edge (deferred and ordered, deferred and not ordered, through a barrier)
and each kind of operation. `MaxRetries` bounds the 429 answers per operation.
`MaxRuns` and `MaxStops` suffice for a run that is stopped, resumed, stopped
again and resumed to the end, and for a run in a new session after an ended one.
An edge of the planner joins two rows and a barrier three sets of them, so files
of four rows have every pair with something in between; they are all the
sublists of lists with one row of each kind, and in every order where the order
matters. In Rollback each type stands alone, beside its parent and against BAM
with and without it. Three requests have one that logs in, one in line and one
that sleeps; two 429 and one expiry exhaust a count and start it again. Two
processes and three sessions have a run after an overlap, one that is stopped
and one that finds what it left; among the files are those that create a parent
with its child, and one that replaces a parent. Deadlock checking is off because
all these systems may stop: when nobody asks for a slot, when the plan is over,
when the runs are used up.

Fairness. Throttle: ready tasks run, and an operation inside the block leaves
it. Executor: ready coroutines run, timers fire and requests are answered or
time out (httpx timeouts). That a slot becomes free is not assumed there; it
has to follow. Session: a run that is not stopped goes on, and the user runs the
importer again and resumes as long as no session has tried the whole file;
stops are bounded. Client: each request goes on, as it is answered or times out
and sleeps end; that the lock becomes free has to follow. Fairness of the loop
is that of asyncio, which runs callbacks in the order in which they became
ready. Planning, Rollback and Resolver state safety only.

Assumptions. `min_concurrency` is at least 1: the configuration does not check
it, the default is 1, and with 0 the limit could reach 0. In `executor.cfg` it
is 2, one more than the only operation that meets a rate limit can hold in
vain; `executor_nested_slots.cfg` has the default. Dry runs are not modelled.
The executor's plan is acyclic with batches that respect the edges
(`BatchOrderAssumption`); that the planner makes no other is proved
(`ThePlanFollowsTheGraph`).
Sessions concern one file and one process at a time, and a resumed run makes
the same plan as the first one; deferred keys are decided from the file before
BAM is asked, so this holds as long as no row changes between resolving and
failing to resolve. A login leaves earlier sessions of BAM alone
(`KeepsSessions`); with a BAM that ends them, requests that log in one after
the other can end each other's sessions, and `OneExpiryFailsNothing` is not
claimed. Names are sequences of strings and what covers what is a constant:
the arithmetic of addresses is Python's. Database calls commit before they
return and do not fail; a changelog write that fails is swallowed by the code.

## Proofs

All of `AdaptiveThrottleProofs` holds for any set of slots, any positive limits
and any factors (`ConcurrencyAssumption`, `FactorAssumption`). The limits need
not be ordered: the bounds of `LimitInBounds` are widened to the start value.

The inductive invariant `IInv` is the conjunction of all the invariants with
`AskedBefore`: whoever waits or is inside has asked before, and finitely many
are inside. `AskedBefore` is what makes a new slot differ from all others, so
that adding one to `held` adds one to its cardinality and appending it to the
queue keeps the queue free of repetitions. `CounterIsExact` needs it,
`NoLostWakeup` needs `CounterIsExact` only where a nested release frees several
slots: each freed slot wakes one waiter as long as one sleeps, so
`active + notified` does not fall below the limit while somebody sleeps; an
increase wakes as many as it makes room for; a resumed waiter trades a
notification for a slot, or finds none free and then `active` alone reaches the
limit. Each of the lemmas `AcquireStep`, `ResumeStep`, `ReleaseStep` and
`SlotStutter` proves the slots' half of `IInv` for one kind of step,
`MaybeAdjustStep` the adjustment's half, and `StepPreservesIInv` puts them
together for each action. The refinement of SlotPool follows from `IInv` step
by step: `Acquire` and `Resume` map to `Admit` or a stutter, `Complete` to
`Leave`, the adjustments to `MoveLimit`.

`ConcurrencyBound` is about SlotPool: as the throttle implements it, the number
of slots held moves by `Admit` and `Leave` only. `LimitCorrectness` and the
bounds of the counters have no run of their own; they follow from `IInv`.

`ClientProofs` holds for any requests, pages, links and limits
(`LimitAssumption`: writes and walks are different requests, and the items of a
page are a sequence). Its invariant says of each request by itself what it has
used up (`Counted`) and what BAM did for it (`Carries`), and of all of them
together which credentials are good (`Renewed`) and who has the lock and who
waits for it (`LockInv`). `Counted` carries the number of attempts through a
login: before it they are at most the allowed waits and one, which is what
`Before` adds to the count of a request that is in its second round. `Renewed`
is the argument for one expiry: as long as no session ended, nothing in use is
bad; when the first one ends nobody has logged in a second time yet, and
whoever does gets credentials that no other login takes away and only a second
expiry could. A request that is at its last attempt therefore never has bad
ones. Each step changes the record of one request, so `OneCallStep` reduces a
step to what it does to that record, and every action has a lemma that shows
this. `Acquire` needs `InLine`: whoever is first in line is waiting for the lock
and nothing else. `ClientTypes` counts the line by a bijection between its
places and those who wait.

Its second part is about the walks, for any pages and links of a finite collection
with each item in one place of one page and any number of keys for a page
(`PageAssumption`; the runs evaluate it on theirs). `OnItsWay` says that the keys
before the present one were read, once each, and that every link of their pages
leads to a key that was asked for. So when the last link leads nowhere or back,
the keys read follow all their links and are all that can be reached
(`NothingMissing`, by the definition of `Reached` as what every such set
contains); when the walk stops at its limit of pages instead, the link leads to
one more than the limit (`TooManyPages`). An item has come as often as its page
has a key among those read: each key that is read adds one to both numbers
(`OnePageMore`, `OneKeyMore`). All
actions but `ReadPage` leave the walk where it is (`StepKeeps`).

`PlanProofs` is about `Ancestors` and `Cascade`, for any finite plan whose
operations come in later batches than what they depend on
(`PlanAssumption`, `BatchOrderAssumption`; the latter is what
`ThePlanFollowsTheGraph` proves of the planner). `Ancestors` is closed, holds
earlier batches only and is what the edges reach step by step
(`AncestorsAreReached`). A cascade is chosen as a solution of an equation; that
there is one and no other (`CascadeIsUnique`) is shown by looking at the
earliest batch in which two solutions differ, and makes the order in which
`_cascade_failure()` visits dependents irrelevant.

`ExecutorProofs` holds for any such plan, any deferred ids, start batches,
retries and any throttle (`RunAssumption`, `ThrottleAssumption`: what
AdaptiveThrottle itself assumes). Its invariant contains the throttle's:
`Proofs == INSTANCE AdaptiveThrottleProofs` brings the lemmas about the
throttle's steps, and `SlotsMatchCoroutines` says that an operation which asks
for a slot neither has it nor waits for it, so that every step of the executor
is one that a user of the throttle may take (`ExecutorUsesThrottle`). Of the
rest, `BatchesInOrder` gives `BatchesSettleDependencies`, and `FailuresSpread`
(no operation that is neither failed nor skipped depends on one that is) is the
form in which `NoCallBelowFailure` is inductive: it speaks of direct
dependencies, so a step has to be compared with its neighbours only, and
`PlanProofs` carries it to all ancestors. It needs that the cascade stops at
marked operations without leaving a descendant out, which is
`FailuresSpread` again. `ResultsMatchStatuses` was first stated with two causes
of an unresolved id; a plan with a chain of deferred ids (a role, its network,
the block of that) showed the third, an unresolved id above.

`ExecutorKeepsItsPromise` is the refinement of Execution. The mapping forgets:
`LeftOut` are the operations in batches before the start, `InProgress` those
whose coroutine has entered the throttle and not ended (waiting for a slot,
calling, asleep before a retry or about to enter again), and `OutcomeOf` reads
the status, or "unresolved" where the coroutine raised. Entering the throttle
for the first time is `Start`; entering it again, being woken, a 409, a 429, the
next batch, the adjustments and the return of a skipped operation are stutters.
The step that is not immediate is `Fail`. Execution skips everything that
descends from the operation; the search in the code goes through dependents
that are not marked yet and turns back at the others. That it misses nobody is
`DescendantsAreSkipped`: after the step the operations that are neither failed
nor skipped are closed under dependencies, so nothing among them has the failed
one as an ancestor. That it overwrites no outcome is `DescendantsAreReady`: what
descends from an operation of the current batch has not begun.
`SkippedForAReason` (`CascadeIsExact`), which Execution contains for the most part,
`CallsHoldSlots` and the bound of the requests that are out have no run of their own.

`SessionProofs` holds for any plan, any number of runs and any number of stops
(`SessionAssumption`: the batches are numbered without a gap, as create_plan()
does). What a resume relies on is in the tables: all that lies below a
checkpoint was tried (`CheckpointsAreSettled`), the row that ends a session has
the batch of its last row (`EndsRepeatTheBatch`, which is why the search for a
resumable session may look at either), created ids are deleted only when the
session was marked completed (`RowsAreKept`), and a run knows every id it could
know (`IdsAreKnown`). `WatermarkStays` is an action property: with
`RunIsNotBehind`, each row that is inserted has at least the batch of the last
one. `UnstoppedRunsAreLogged` needs `LogIsComplete`, which counts what the
runner has yet to look at.

`ResolverProofs` holds for any things, files and processes. It assumes what BAM
and the columns give: ids are distinct and no network is without its block
(`BamAssumption`), None is no thing (`ThingAssumption`), a path has slashes and
names (`FileAssumption`), and a row is within the thing to which its path leads,
if it leads anywhere (`WithinAssumption`). Any spelling is allowed, and paths of
one thing may have any number of keys. Its first invariant has two ideas. An
entry of what is there is filed under a key that leads to it (`KeysFit`), though
other keys may lead there too. And an entry is alive, or was deleted where its
key is not the one to be invalidated, or there is a run that has its deletion
among the results it has yet to look at and will invalidate this very key
(`EntriesAreAccountedFor`); between runs only the first two are left, which is
`StaleEntries`. The second invariant is about a run that is alone: each id that
it found for a row is the parent's, or will be found out when the row runs, or
was deleted without an invalidation of the key by which the row asks (`IdsFit`).
`ParentsAreThere` follows step by step. Proving it showed that the property was
too strong: a row can ask BAM for its parent before the parent is what it will
be, and `AskedTooEarly` names the ways, an IPv6 network that names its block by
a path, a row whose path does not end with what it is in, and an address in a
network that its file deletes and creates anew; and a path may lead nowhere
(`Misread`). Files with the first, the last and a misread path are in the
instance; the first way is also a disagreement with the documents.

`PlanningProofs` holds for any files whose rows have ids of their own and types
that are in a phase (`FileAssumption`, which is what the parser lets through,
parser.py:200-218), any contents of BAM, any batch sizes, both wirings and any
order in which the sort meets its sets; the last two theorems also assume that
the code of a location begins with the code of its parent
(`LocationAssumption`, csv_row.py:1982-1997). For the first three theorems
neither what a row looks up nor which edges it asks for plays a part: they are
about what the graph makes of any edges. Their invariant follows the stages. `OpsInv` and `NodesInv` say which
nodes there are: one for each operation, one for each phase that was held up.
`AcyclicInv` says that no set of nodes is endless (each node of it depends on
one of it), which is what a search for a cycle looks for; as an edge changes one
node only, a search from that node finds every new cycle, and for a barrier the
search from the barrier and the nodes of its phase does. `PhaseInv` says of the
barriers so far that each has the nodes of its phase as dependencies, the nodes
of a later phase that came after it depend on it, and each barrier leads back
to the one before; so an induction along the barriers, written as a choice of
the smallest phase for which it fails, brings every node of a later phase behind
every node of an earlier one. `SortInv` is Kahn's queue: what is queued and what
is sorted are different nodes, a node is one of them exactly if all it depends
on is sorted, and it comes after that. `BatchInv` and `CutInv` follow each node
into a batch and into a part of it. That `topological_sort()` never raises
(`TheSortNeverFails`) is the same argument turned round: what an empty queue
leaves unsorted would be an endless set.

The other two theorems turn on what a row looks up. `BuildMade` goes through the
builders of the factory: a row waits for at most one row per kind of reference,
the kinds go with its type (`Slots`), and what it waits for is a row of the file
that creates such a resource (`AwaitedIsCreated`). The nine phases give each
type a level, and no edge of the planner leads to a higher one (`EdgesDown`):
with barriers that is the order of creation wherever the levels differ. Within
the third level there are locations, blocks and networks. Their codes get
shorter towards the parent, so no endless set contains a location
(`LocationsEnd`), a block waits for locations only, and thus none of their edges
is ever rejected (`Level3Added`). `WireInv` carries this through the wiring:
edges drawn are edges the planner asks for, what it asked for is drawn or still
to do (`DrawnInv`), and an edge to a barrier leads to an earlier phase. For
`ParentsAreCreatedFirst` the rest is that the map of the planner gives the
awaited row, which it does unless a later row has its name. For
`AbortsHaveReasons` the rest is what a search for a cycle may find. If no row
waits for one of a later phase, the earliest phase in a cycle through the new
edge or barrier is a cycle of its own and was there before (`DetectedIsAdded`,
`BarrierIsAdded`); the planner catches whatever its edges raise, and its edges
lead to a later phase from deletions only (`UpwardDeletes`).

`RollbackProofs` holds for any files, any contents of BAM with one resource per
id (`BamAssumption`) and any number of faults; of the values of cells it assumes
that the empty one is not the name of the apex and no number
(`CellAssumption`). What a rollback does is decided by its file. Its rows have a
bam_id and no other column, so those that parse are of five types
(`BareLines`, from the required columns of all row classes), their handlers
delete by the id alone (`BareDeletes`), and what they delete contains nothing
(`BareContainNothing`): each takes away one resource (`RollbackDeletes`). None of
the five can be looked up after a conflict (`BareAreNotLooked`), so the id in the
changelog is that of a resource which the session created, and what was there
before stays (`RollbacksKeepWhatWasThere`). Conversely each entry has its row,
and each row comes to its request, for it waits for nothing and the rollback
command has permission (`RollbacksAreAllOrNothing`). `Reported` carries an id
from the result of an operation through the changelog into the rollback: while
BAM and the sessions go on, what has that id, if anything, is in the collection
of the row's type. `RerunInv` is an induction over the operations done, in
whatever order: each stored the key that the rows waiting for it ask for, and
is in BAM under the id reported. `ProtectedWithoutPermission` goes through the
table of handlers (`HandlersAreSound`): each deletion from the collections of
blocks, networks and zones is guarded. A set of row numbers in order is chosen,
and `OrderExists` shows by counting the members up to each that there is one.
`SuccessesNameResources` is about the resource on which the handler acted and the
id that the executor reports: they are the same but for the handlers that take
the id from a column (`OwnColumn`) and the two that unlink.
A record in a zone below a zone which the file
creates waits for a row under a key that this row never stores, so a second
import does not complete either (`Repeatable`).

Only model-checked. Every liveness property (`EveryWaiterServed`,
`EveryPlanFinishes`, `ResumedImportCompletes`, `RequestsEnd`), because the
prover does not handle fairness. `DeferredIdsAreTheParents`: it holds in plans
where nobody else deletes or replaces a parent while an operation that uses its
id is out, and where different parents have different keys; the code
guarantees neither, so a proof would assume what the property says.

## Where code and description disagree

Each of the first five is shown by a run that violates the property named.

* `EveryPlanFinishes` - the retry after a rate limit enters the throttle again
  from inside the block (executor.py:719). With the limit lowered to 1 the
  operation waits for itself.
* `ChildrenDeletedFirst` - the planner looks for `parent_path`, which no row class
  and no document has (planner.py:167; only an extra column of that name would do), and barriers order phases only: a network and its block are
  deleted in the same batch (samples/README.md:458, docs/ARCHITECTURE.md:476,
  graph.py:289).
* `RollbackUndoesTheImport` - the rows of a rollback file lack the columns that
  the parser requires (generator.py:180), and one such row refuses the file
  (docs/EXPORT_GUIDE.md:591).
* `VerifiedBeforeChange` - nothing compares `verify_name` with anything
  (client.py:3224, 3198; docs/CSV_GUIDE.md:138, csv_row.py:254).
* `OneLoginPerExpiry` - a forced login skips the double check, so each request
  that met the ended session logs in (client.py:447; client.py:137, 412).

Noted without a run, executing and resuming: docs/ARCHITECTURE.md:560 gives a
decrease of 30 percent where the default is 20. An unresolvable deferred id is
reported as a failed operation, but nothing cascades (executor.py:672, 249,
1063). Rows of ended sessions are found as resumable (checkpoint.py:284, 256;
runner.py:127), and an interrupted session is marked completed while its
changes are not in the changelog (runner.py:321, 442-450; docs/README.md:389).
`load_created_resources()` (checkpoint.py:457) calls its result compatible with
the executor's maps but leaves out the three device maps. A failure anywhere in
a phase skips every later phase through the barrier, while executor.py:145 says
that failed operations do not prevent others from completing. A resume repeats
the last checkpointed batch. Several handlers turn a rate limit into a plain
failure, so the executor's retry never sees it.

Planning: an IPv6 network may be in the same batch as its block
(samples/README.md:459, docs/QUICKSTART.md:274). A host record with addresses
rebinds `addresses` (planner.py:251), and a link to an address in a later row
then ends the import. A hierarchy that is deleted and created anew in one file
cannot be phased and is given up (docs/ARCHITECTURE.md:483, 489). A row that
deletes gets the deferred id of a parent the file creates like any other, and is
planned before it: the deletion of an address in a network that the same file
creates anew fails, for the deferred id is not known (executor.py:321-345). A location may name itself as its
parent and then waits for its own id. Tags and links never consult the pending resources; the key of a pending nested zone is never
the one looked for; `build_from_operations()` looks for a parent under the name
of the configuration; split batches may repeat a number.

Handlers and rollback: an access right can be created without its resource
(handlers.py:2374; samples/README.md:357). Deletions of devices, device types and subtypes and
changes of access rights and device addresses, like those of ACLs, need an id that
only an undocumented extra column gives (docs/CHANGELOG.md:22,
docs/CSV_GUIDE.md:859); with one, the changelog still gets the bam_id of the row,
which may be empty (`OwnColumn` in `SuccessNamesAResource`). So an update or a
deletion of an ACL by its name (docs/CSV_GUIDE.md:1155-1156,
samples/README.md:339-340) fails (handlers.py:2292, 2326). The lookup after a 409
accepts a resource of another type with the same name in the collection, and
types without a lookup fail when a file is imported again.
`validate_operation_safety()` and the bulk validator are called by nobody in a
run: the client's delete guard is the only one.

Resolver: an IPv6 network with a path as its `parent` (docs/CSV_GUIDE.md:309,
317) is not deferred to the block that its file creates, because the path is
compared with CIDRs (operation_factory.py:771). BAM is asked before anything is
executed, and the network fails for want of a block id, where
docs/ARCHITECTURE.md:948 promises parent and child in one file and
docs/CHANGELOG.md:43 parity with IPv4. An address in a network that the file
deletes and creates anew looks it up before either, and keeps the old id. Both
are in the files of `resolver.cfg`, and excepted in `AskedTooEarly`. The comment
at runner.py:325-336 calls the invalidation conservative but safe. A deletion by a
path with a slash in front leaves the entry of the path without one, although
both lead to the same resource (resolver.py:1046; docs/CHANGELOG.md:55); an IPv6
network whose parent has a slash in front is asked for under a path with an empty
name in the middle and finds nothing (`Misread`). Blocks at the
root are never invalidated, the path stored for a nested resource need not be
the one another row resolves it by, the key used to invalidate a parent is never
stored, a deletion without `parent` has no path, and the cache on disk is shared
for an hour by all runs; `--no-cache` skips reading it, not writing it.
`StaleForAReason` lists these ways and excludes any other.

## Not modelled

Of the client the several hundred endpoint wrappers, and of the row and payload
models their formatting: requests and fields without state or order. Of the
resolver `register_pending_create()` and its companions, the prefetching and
bulk methods, which nothing in a run calls, and the list caches of zones and
views, which only save requests. `optimize_plan()`, `get_plan_summary()`,
`to_dot()` and `validate()` change nothing that is executed. The state loader
and diff engine are not called by `run_session()`. Parsing of strings,
sanitizing, exporting, the command line, the self test and observability have
no state of their own worth a model. Not modelled of sessions are several
processes on one database, `--session-id` and `cleanup_old_checkpoints()`,
whose date arithmetic (checkpoint.py:391) fails on most days of a month.

## Plan

1. Done: SlotPool, AdaptiveThrottle and Client with proofs, Plan, Executor,
   Session, Resolver, the factory, planner and graph with Planning, rows,
   handlers and Rollback.
2. Done: Execution, with Executor refining it.
3. Open: a resumed run whose plan is computed anew (Session over Planning), and
   two configurations in one file.
4. Open: a proof that Session is an abstraction of Executor.
