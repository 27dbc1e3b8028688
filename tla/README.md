# ArgusOS: a TLA+ model

ArgusOS (`src/argus`) is a single-process Python "operating system" for an
assistant: about thirty services, wired together by `argus/bootstrap.py`, that
call each other directly and announce what they did on a synchronous event bus.
Nothing in it starts a thread of its own.  What makes it hard is elsewhere:

* the bus runs every handler inside the call that publishes, so a handler can
  call back into the service that is in the middle of an operation;
* an exception raised by a handler leaves `publish()` and cuts the operation in
  two;
* some services (Scheduler, Knowledge, Memory) guard their registries with a
  non-reentrant `threading.Lock` because hosts may call them from threads, and
  publish after they release it;
* several services persist JSON files and must survive a failing save or a
  restart;
* most services take a snapshot of an immutable value object, call out, and then
  store a new copy made from the snapshot.

The modules here model those parts as state machines, check them with TLC on
small instances, and prove the core ones with TLAPS for every instance.

## Inventory

Each row: the state the component keeps, its operations, what it calls, what
makes it hard, and the properties that make it correct.

| Component | State | Operations | Interaction | Hard behaviour and correctness |
|---|---|---|---|---|
| Scheduler (`scheduler/`) | registry id -> task, lock, own lifecycle state | schedule, cancel, pause, resume, tick, initialize, start, stop | publishes `TASK_*`, `SCHEDULER_TICK`; runs callbacks | ticks that overlap or nest, selection used after the lock is freed, `_finish` on stale copies, aborted ticks.  One-shot tasks fire once, cancelled tasks stay gone, paused tasks stay paused, due tasks are served, the lock cannot deadlock |
| Agent runtime (`runtime/`) | executions id -> (status, step), lifecycle state | start, pause, resume, cancel, run loop | planner, capability registry, dispatcher, bus | a handler or an action pauses, resumes or cancels the execution that is running it; raising handlers.  Terminal statuses are final, steps are not skipped |
| Workflow engine (`workflow/`) | workflows id -> status | register, execute, cancel | runs step callables, bus | a step's result or a handler raises half way; re-entrant execute |
| Event bus (`events/`) | subscriptions per event type | subscribe, unsubscribe, publish | everyone | changes of the subscription list during dispatch, raising handlers, nested publications |
| Planner and capability registry (`planner/`, `capability/`) | plans, capabilities | create, add, remove and reorder steps, validate; register, unregister | bus | a validated plan and the registry drift apart before the runtime uses the plan |
| Intent dispatcher, router, connectors, plugins (`dispatcher/`, `intent/`, `connectors/`, `plugins/`) | registrations, enabled flags | register, enable, disable, dispatch, invoke | capability registry, actions, bus | check and use of a registration around publications; a failing action |
| Knowledge and memory services (`knowledge/`, `memory/`) | in-memory index, JSON files | put, update, delete, query, purge | storage, bus | a failing save leaves index and disk apart; expiry against duplicates; restart; events out of version order |
| Knowledge graph, memory integration, reasoning (`knowledge_graph/`, `memory_integration/`, `reasoning/`) | entities, relationships | add, remove, sync, traverse | memory, bus | removal cascades; a sync drops inbound edges; graph searches |
| Lifecycle manager, module loader, container, application (`lifecycle/`, `services/`, `container.py`, `module_loader.py`, `bootstrap.py`) | state per service name, plus each service's own state | register, initialize, start, stop | every service | two records of one state that drift apart (ADR-0002) |
| Conversation manager (`conversation/`) | sessions, the active one | start, receive, end | intent router, workflow engine, bus | a session ended while a message is being handled |
| Cognitive pipeline, execution engine, capability executor, response engine, agent (`pipeline/`, `execution_engine/`, `capability_executor/`, `response/`, `agent/`) | mostly none | run, execute, resolve, respond | each other in order | partial outcomes along the chain |
| Sales module (`modules/sales/`) | companies, contacts, campaigns, leads, work queue, JSON files | import, persist, plan work, complete work | repositories | deduplication, save order across a crash, re-import, closed work items |
| Value objects and builders (`task`, `goal`, `project`, `workspace`, `policy`, `automation`, `context`, `trace`, ...) | the fields of a builder | checked setters, appends, build | the pipeline, the repositories | Python lists are shared unless copied, and copies are shallow: what was built must keep its entries whatever is done to its builder, its caller or its siblings, and must come back from its JSON record as far as JSON has a form for it |
| Decision engine (`decision/`) | rules in order | register, remove, evaluate | predicates of the host, bus | predicates and handlers change the rules while they are asked |
| Prototype (`argus/*.py`) | none kept | shell commands | - | retired by the packages above |

## Modules

Every module models what the table says; modules with `Proofs` in their name hold
theorems about the one they are named after, or about those that the table lists.

| Module | Part of the system | Composed with |
|---|---|---|
| `Scheduler`, `SchedulerProofs` | `scheduler/`: locks, nested calls, triggers | |
| `AgentRuntime`, `AgentRuntimeProofs`, `ExecutionLifecycle` | `runtime/`, and the abstract life of an execution that it implements | |
| `RecordStore`, `RecordStoreProofs` | `knowledge/` and `memory/`: failing saves, expiry, crashes and restarts | |
| `CallStack` | calls of one thread that nest in publications; used by all of the following | |
| `WorkflowEngine`, `WorkflowEngineProofs` | `workflow/` | |
| `Conversation`, `ConversationProofs` | `conversation/`, with `IntentRouter.parse` | `WorkflowEngine` |
| `CapabilityRegistry` | `capability/` | |
| `Dispatcher` | `dispatcher/` | `CapabilityRegistry`, `WorkflowEngine` |
| `Planner` | `planner/`, with the planning session | `CapabilityRegistry` |
| `RegistryProofs` | theorems about `Planner`, `AgentService`, `Dispatcher` and `Extensions`, and about the `CapabilityRegistry` that they use | |
| `ServiceProofs` | theorems about `LeadIntake`, `EventBus`, `DecisionEngine`, `Bootstrap` and `Builders` | |
| `AgentService` | `agent/`, `pipeline/`, `execution_engine/`, `capability_executor/`, `response/` | `Planner` |
| `EventBus` | `events/`, and the handlers of `intent/router.py` | |
| `EventTypes` | `events/event_types.py`, by publisher | |
| `KnowledgeGraph`, `KnowledgeGraphProofs` | `knowledge_graph/`; the theorems are also about `MemoryIntegration` and `Reasoning` | |
| `MemoryIntegration` | `memory_integration/` | `KnowledgeGraph` |
| `Reasoning` | `reasoning/`, as operators on the graph | `KnowledgeGraph` |
| `DecisionEngine` | `decision/engine.py` | |
| `Extensions` | `connectors/`, `plugins/` | |
| `LeadIntake` | `modules/sales/`: import, files, work queue, intake workflow | |
| `Records`, `ValueObjects`, `Builders` | the frozen classes of all packages, and their builders | |
| `Bootstrap` | `bootstrap.py`, `lifecycle/`, `services/`, `container.py`, `module_loader.py`, `application.py`, `main.py` | |
| `Errors` | the `exceptions.py` of all packages, and which operation lets out what | |
| `MCServices`, `MCParts`, `MCScheduler`, `MCAgentRuntime`, `MCRecordStore` | instances for TLC | |

Two specifications implement another one.  `ExecutionLifecycle` is the abstract life of
an execution, in which terminal is final, and the agent runtime maps to it.
`KnowledgeGraph` is a service with a specification of its own, and `MemoryIntegration`
implements it: whatever its calls are cut into, one step is one operation of the graph or
none.  The other promises are stated as invariants and action properties of the modules.

## Scheduler

`Scheduler.tla` models `argus/scheduler/scheduler.py` with `triggers.py` and
`task.py`.

| Model | Code |
|---|---|
| `tasks[id]` | `Scheduler._tasks`; `None` where the id is absent; `serial` tells two registrations of one id apart |
| `lock` | `Scheduler._lock`, held by a frame |
| frame `<<thread, depth>>` | one call in progress; depth 2 is a call made by a handler or a callback of the call at depth 1, which waits for it |
| `pc`, `request`, `at`, `batch`, `current` | the call's program point, arguments, `reference_time`/`current_time`, the rest of `due_tasks`, the task in `_run_one` |
| `Call`, `Acquire` | entry of an operation: the clock is read, then the lock is taken; two steps |
| `Schedule`, `Cancel`, `Pause`, `Resume`, `SelectDue`, `Finish`, `Reject` | the locked sections, with the release |
| `Publish`, `EnterCallback`, `CallbackDone`, `Done`, `Heartbeat` | the code outside the lock: publications and callbacks |
| `HandlerRaises` | an exception from a handler leaves `tick()` |

A callback that raises and one that returns lead to the same `_finish`, so they
are one action; the kind of the event published afterwards is left out.  Tasks of
equal rank and `next_run` run in any order (the code uses the order of
scheduling).  Explicit `now=` arguments are not modelled: the clock is read.

One hazard of the list is covered by no property: `resume()` reads its reference time
(`scheduler.py:216`) before it takes the lock, and a tick at a later time may come in
between; the one-shot task that it fired then gets its old time again, and fires again.
`scheduler_concurrent` has this interleaving (the call of `Resume` with clock 0, a tick with
clock 1) but checks no property that it breaks: `OneShotFiresOnce` does not hold with two
threads anyway, for overlapping ticks.  `OneShotsFireOnce` (below) excludes both by its
hypothesis `TicksApart`.

A task that was selected and is paused or cancelled before its turn runs all the same
in that tick (`EnterCallback` does not look at the registry, nor does the code); what
the properties say is that the registry is right afterwards.

Bounds: `Depth`, how deep each thread nests calls, `MaxTime` instants, `MaxSchedules`
registrations.  Two registrations are what it takes to reuse an id, two frames to
overlap two calls, and two instants after a task's time to see it due late and
rescheduled.

| Run | Instance | Shows |
|---|---|---|
| `scheduler_live` | one thread, no nesting, two ids, two ranks, fairness | a one-shot registration fires once across late and aborted ticks, pause and resume; higher ranks run first; no due task stays due for ever |
| `scheduler_concurrent` | two threads, one of which nests calls, one id used twice | `_finish` writes nothing stale: cancelled tasks stay gone, paused ones stay paused, `next_run` belongs to the task's own trigger; the lock is never held while host code runs |
| `scheduler_refire` | one thread, nesting 2 | violated: a tick made by the callback of a one-shot task fires it again |

Fairness (`FairSpec`): frames that can move do; the host calls `tick()` again and
again (the scheduler has no timer, its documentation leaves this to the host); and
handlers do not raise for ever, for a handler that always raises on the first due
task keeps every tick from reaching the others.

`SchedulerProofs.tla` proves, for every value of the constants:

* `TypeCorrect`: the type invariant.  It is not inductive alone; `FrameOK` adds what
  a call in progress knows (a request, a reference time that has passed, and a
  current task while one runs).
* `LockIsReleasable`: from `Nested` (the frames around an active one wait in host
  code) and `HolderInside` (the holder is in a locked section).
* `CancelIsFinal`, `NextRunIsOwn`: from `SerialsOK` (serials are handed out once
  and registered under one id at most).
* `PauseLasts`: an action property, from the type invariant.
* `PriorityOrder`: `HigherPriorityFirst`, for any number of overlapping and nested ticks.
  `TickInv` adds that only a tick has a batch or a current task, and only in its loop,
  and that nothing left in a batch goes before the task that runs.
* `OneShotsFireOnce`: `OneShotFiresOnce` as long as ticks stay apart (`[]TicksApart`): no
  two are in progress at once, and no `resume` in progress with a tick works with an
  instant before that of the tick.  The first half is what `scheduler_refire` shows to be needed.  The second
  half came out of the proof: `resume` reads the clock before it takes the lock, and one
  that a tick overtakes computes the next run from an instant at which the one-shot
  task had not fired yet.  The invariant is about copies as well as the registry: copies
  with one serial are copies of one registration (`KnownInv`); what waits in a batch has
  not fired, is due, and waits there once (`BatchOK`); and a registered task that has
  fired is `Spent`: it has no next run, or its `_run_one` is about to say so, and every
  tick or resume in progress starts from an instant at or after its trigger.
* `OneCallAtATime`: with one thread that does not nest calls, `TicksApart` holds by
  itself, so one-shot tasks fire once without any assumption about the history.

`DueIsServed` is liveness, and model-checked only.

## Agent runtime

`AgentRuntime.tla` models `argus/runtime/runtime.py` with `execution.py`.  The runtime
has no thread and no lock; its hazard is re-entrancy.  `start_execution` and
`resume_execution` run the step loop in the caller, and every publication and every
dispatched action is host code that may start, resume, pause or cancel executions, the
running one included.

| Model | Code |
|---|---|
| `executions[e]` | `AgentRuntime._executions`: status, `current_step`, and the steps that have a result |
| `plans[e]` | `AgentRuntime._plans`: the plan captured at the start; only its number of steps matters |
| `plan`, `EditPlan`, `ValidatePlan` | the planner's own record of the plan, which may change while an execution runs |
| frame `d`, `pc[d]`, `running[d]`, `local[d]` | one call in progress, its id and its loop-local `execution.current_step`; only the innermost frame moves |
| `StartExecution`, `MarkRunning`, `EnterLoop` | `start_execution`: the publication of `EXECUTION_CREATED` lies between the first two, the one of `EXECUTION_STARTED` between the last two |
| `ResumeExecution` | `resume_execution`, which enters the loop without a publication |
| `PauseExecution`, `CancelExecution` | the control calls, which act at once |
| `LeaveLoop`, `Complete`, `BeginStep`, `Dispatch`, `StepSucceeds`, `StepFails`, `NextStep`, `Leave` | `_run` |
| `HandlerRaises` | an exception from a handler leaves the call where it was |

The planner and the dispatcher are abstracted to what `_run` sees of them: a validated
plan with so many steps, and a dispatch that runs host code and then returns or raises.
Metadata, timestamps and the contents of results are left out.

| Run | Instance | Shows |
|---|---|---|
| `runtime_nested` | two executions, two steps, nesting 2, all control calls from host code | no step is skipped, COMPLETED means all results are there, what is RUNNING has a call in progress, only a resume starts an execution again |
| `runtime_lifecycle` | the same size; host code starts, pauses and raises; fairness | every execution implements `ExecutionLifecycle`, no step runs twice, calls end |
| `runtime_resurrect` | one execution, host code cancels | violated: a cancel by a handler of `EXECUTION_CREATED` is overwritten |
| `runtime_rewind` | one execution, host code pauses and resumes | violated: the outer frame moves `current_step` of a COMPLETED execution back |

Why the passing runs are split: raising handlers leave a RUNNING execution without a
call, so `RunningHasRunner` is checked without them; a resume or a cancel from inside
breaks the abstract lifecycle, as the two violated runs show on the smallest instance,
so `IsLifecycle` is checked for host code that starts and pauses, with raising handlers.
Two steps are enough for a step to have a predecessor and a successor, two executions for
one to be started inside another, and two frames for one execution to have two.

Fairness: every call in progress moves on when it can again and again, which is to say
that handlers and actions return (`SF`, because a pause and a resume from host code
switch the innermost frame).

`AgentRuntimeProofs.tla` proves, for every number of executions, steps and frames:
`TypeCorrect`, `StepsInOrder`, `CompletedIsComplete` and `RestartsAreResumes`.  The
inductive invariant adds to the type: `StoreOK` (exactly the created ids are stored),
`FrameOK` (a call in progress has an execution, every step before its own has a result,
and a start that is not announced yet is alone on its execution) and `ProgressOK` (every
step before `current_step` has a result, and all of them when the status is COMPLETED).
`FrameOK` is the point: a frame moves the execution on from its own step, not from the
stored one, so the stored `current_step` can go back, and what makes that harmless for
the results is that no frame is ever ahead of them.

Further theorems are about runs in which host code does less than it may:

* `RunningIsRun`: if handlers do not raise, what is RUNNING has a call in progress.
* `CompletedHasNoNext` and `StepsAreNotRepeated`: under `[]SoleRunner`, by which no two
  calls run one execution (host code does not resume what a call below it still runs), the
  stored `current_step` of a COMPLETED execution is its end, and no step is dispatched
  twice.  The invariant is `ExactOK`: the results are those of the steps before
  `current_step` and of no other.  `runtime_rewind` shows that the condition is needed.
* `RuntimeImplementsLifecycle`: the refinement of `ExecutionLifecycle`, for host code that
  starts and pauses executions (`HostIsTame`) and raises wherever it likes.  Initial
  states map to initial states, and each action to a step of the abstract
  specification or to none.  Cancels and resumes are outside, since with them the code
  does not implement it: `runtime_resurrect` is the counterexample for the cancel.

`CallsEnd` is liveness, and model-checked only.

## Record store

`RecordStore.tla` models the knowledge service (`argus/knowledge`) and the memory
service (`argus/memory`).  Their code is the same protocol twice: take the lock, change
the index, save a whole file through a temporary file and `os.replace`, free the lock,
publish.  The module has both; constants choose.  The knowledge service has a file per
category and no expiry; the memory service has one file, expiry and `purge_expired`.

| Model | Code |
|---|---|
| `index`, `lock` | `_index`, `_write_lock` |
| `disk[file][key]` | the JSON files; a save replaces a file as a whole, which `os.replace` makes atomic |
| `pc[th]`, `request[th]`, `save`, `announce[th]` | a write in progress, the file being saved, the events left to publish |
| `Put`, `Update`, `Delete`, `Purge`, `Reject` | the locked section up to the save |
| `SaveSucceeds`, `SaveFails` | `storage.save`; it fails when the file system does, or when any record of the file, whichever write stored it, cannot be serialized.  On the way out the lock is freed and the index keeps the change |
| `Publish`, `Leave` | `_publish`; a handler that raises ends the call early, nothing else |
| `Restart` | the process dies at any point; the constructor's `_load_all` reads the files in the order of their names |
| `acked`, `unsure`, `removed`, `writes` | history, for the properties |

A file is identified with a number, the highest for the name that sorts first, so that
`LastOf` is a least element.  The numbers stand for ordinary names of categories.  One with a
"/" in it is saved too, in a subdirectory, but the glob of `list_categories`
(`knowledge/storage.py:70`) does not go into directories: `_load_all` never reads the file,
and the record is gone after a restart although its `put` was acknowledged.  Nothing in
`put` forbids the name, and these modules do not show it.  A record carries the number of the write that made it as
its id, and the one of the last update as its value.  Readers (`get`, `exists`, `list`,
`search`) change nothing and are not actions.

| Run | Instance | Shows |
|---|---|---|
| `memory` | two threads, two keys, one file, expiry, failing saves, unserializable values, three writes | a restart recovers what was acknowledged or a later unacknowledged write, never something older; what is announced is durable; versions grow; calls return |
| `knowledge` | two threads, two keys, two files, five writes, crashes, no failing save | the same for keys that move between categories |
| `knowledge_shadow` | one thread, one key, two files, failing saves | violated: a deleted record comes back over a newer, acknowledged one |

Three writes are what it takes to fail one, acknowledge one and depend on both; five let a
key be put, deleted, put elsewhere, updated and deleted again.  Threads and keys are
interchangeable, and symmetry is used in `knowledge`, which has no liveness.

Fairness: a thread that can go on does, and `threading.Lock` is granted in the end to one
who waits again and again.

`RecordStoreProofs.tla` proves, for all threads, keys, files and writes:

* `TypeCorrect`.  The strengthening is `WriterOK` (a write between its check and its
  save holds the lock and has a request) and `SaverOK` (a save belongs to a thread).
  That a restart loads records at all needs that a set of file names has a last one
  (lemma `Least`, from the well-foundedness of the naturals).
* `MemoryIsDurable`: with one file, `RecoversAcknowledged` whatever fails.  The
  strengthening is `IndexRecent`: a save stores the whole index, so the index itself
  must never be behind what was acknowledged.
* `KnowledgeIsDurable`: with any number of files, `RecoversAcknowledged` if no save
  fails.  The strengthening says that every file agrees with the index but for the
  change that is being saved, and so that no key stands in two files.  The violated run
  shows that the assumption is needed.

* `EventsFollowFile` and `NoUpdateLost`: `AnnouncedIsDurable` and `VersionsGrow`, in
  either of the two cases (`Durable`: one file, or no failing save); with the two above,
  `RecordsAlwaysSurvive`: `RecordsSurvive`, which is `RecoversAcknowledged` and
  `AnnouncedIsDurable` together.  `HistoryInv` says
  that numbers of records are given once, that what is about to be announced is in the
  index or was replaced by something newer, and that every outcome a restart may recover
  is newer than what was acknowledged.

`CallsReturn` is liveness, and model-checked only.

## Calls that nest

`CallStack.tla` is the idea behind the modules that follow.  These services run in the
thread of their caller and hold no lock.  `stack` is a sequence of frames, the calls in
progress; only the last one moves.  A frame is at a point named after the event it is
publishing, or after the callable it is running: there host code may make any call of any
service of the module (`HostRuns`, `MayCall`), or raise, which takes the frame away and
leaves the ones below to catch it or not (`Unwind`).  Between two such points nothing can
interfere, and one action models all the code between them.  `Depth` bounds the stack.

Two runs, `services` and `parts`, check these modules.  `MCServices` and `MCParts` put
small instances of them side by side.  The variable `focus` is chosen in the initial
state and says whose actions may happen; all others stay as they start, so the state
space is the sum of the instances and no property is weakened by another's presence.
Each property is a conjunction of named parts, listed below; a part states one promise.
Where a module extends its service, the property is the service's own definition, the same
that the theorems are about.

| Run | Instance | Distinct states |
|---|---|---|
| `services` | calls 3 deep; one workflow of 2 steps; 2 sessions, 2 messages; 2 capabilities for one intent; 2 handlers and one routed callback, 2 intents, 3 subscriptions at a time; 2 memory keys that name each other; an import file of up to 2 rows, a company and a contact key, 2 work items | 1.9 million, depth 40 |
| `parts` | calls 2 deep (4 in the chain, one evaluation of the rules at a time); a plan of 3 steps, 2 goals; 2 requests; 3 entities, 2 relationships, searches 2 hops deep; 2 connectors on one implementation, 3 invocations, one plugin; 3 rules, two of one priority; ten classes, 2 objects each (one capability); the whole program with 2 managed services and the sales module | 0.30 million, depth 71 |

Why these bounds reach the interesting cases: a call nested in a call shows every
interference of two calls, and the third frame lets a conversation run a workflow whose
step comes back, or a dispatch run one whose handler dispatches again.  Two of anything
that is kept by order or by name (steps, rules of one priority, keys, capabilities of one
intent, connectors that share an implementation) is what it takes to mix them up.  A path
of two hops over three entities and two relationships has loops, parallel edges and a
cycle.  The bounds end the behaviours, so these configurations do not check deadlock.

### Workflow engine and conversation manager

`WorkflowEngine.tla`: `workflows[w]` is the stored status with, as history, the steps
that ran and the frame that runs it.  `Begin` is `execute` as far as the publication of
WORKFLOW_STARTED; `BeginStep`, `CallAction`, `ActionReturns`, `ActionRaises` are the loop,
`Finish` is `_finish`, which stores without looking.  The mapping that a step returns is
converted outside the `try`, so `ExecuteRaises` also follows a step that returns
something else, and leaves the workflow RUNNING for ever.

`Conversation.tla`: `Receive` takes a snapshot of the active session and appends the
message; `Parse`, `Resolve`, `Delegate`, `Delegated` and `Respond` carry the snapshot
through the publications and the workflow, and store it again.

* `WorkflowsRunOnce` = `RanOnceInOrder` (steps run once, in order, all of them when
  COMPLETED) and `RunningHasOneRunner` (what is RUNNING is run by one call, or was left
  by an exception).
* `FinishedIsFinal`: although `_finish` overwrites, a finished workflow stays as it is.
* `ConversationIsOne`: the types, `ActiveIsOpen` (the active session is a stored, open
  one), `AnswersFollowMessages`, `ExecutedHasEnded` (WORKFLOW_EXECUTED is announced only
  of a workflow that is finished) and `HistoryKept` (no message of a session is lost,
  unless host code inside `receive()` used the session itself: there the code does lose
  them).

`WorkflowEngineProofs.tla` proves `WorkflowsAreSound` and `FinishedStays` for every
number of workflows and steps and every depth.  The inductive invariant adds the runners:
each frame in `execute` has its workflow RUNNING and no other frame has the same one, and
its step is the number of steps that ran.  That is why `_finish` need not look: who
finishes a workflow is its only runner.  The lemmas are stated for stacks that also hold
calls of other services, so that the services which call the engine can cite them.

`ConversationProofs.tla` proves `ConversationStaysOne` for the two services together, and
that the engine keeps its promises there (`DelegatedRunOnce`, `DelegatedStayFinished`).
The strengthening is about the copy that `receive()` carries through its publications and
stores again: `Faithful`, by which every stored or carried history is made of messages
that were received, none of them twice, with an answer directly after its message only
(`SessionsSound`, `CallsTold`); and `OneReceives`, by which as long as no host code has used the session inside
`receive()` there is one such call, and its copy is the stored one.  A call that waits for
`execute()` `Awaits` it: right above it in the stack is that call, or the workflow has
ended.  `EndsTold`, on the side of the engine: an `execute()` at its end reports the state
that it has stored.

### Dispatcher and capability registry

`Dispatcher.tla` extends both of the services it calls.  `Dispatch` publishes
INTENT_DISPATCHED, `ResolveCapability` takes the first registered capability for the intent and
builds its action, and from there the frame holds that capability while its handlers
change the registry.  `CallWorkflow` enters the engine, `WorkflowReturned` and
`WorkflowRaised` are the two ends.  `DispatchesAreServed` = `NoTwins` (ids and names in
the registry are unique), `CompletedOnce` (a dispatch that announces DISPATCH_COMPLETED
had its workflow run to its end, by an execution of its own).

`RegistryProofs.tla` proves it for any capabilities, workflows and intents
(`DispatchesStayTrue`), together with the promises of the engine when the dispatcher is
its caller (`DispatchedRunOnce`, `DispatchedStayFinished`).  `DispatchInv` joins the
invariant of the engine with four facts: no two dispatches wait for the same workflow
(`OneWaits`); one that waits can count on its execution, which has served nobody yet
(`WaitOK`); one at DISPATCH_COMPLETED has its workflow served (`DispatchOK`); and a served
workflow is finished, so no later execution can serve it again (`ServedOK`).

### Event bus and intent router

`EventBus.tla`: `subscribers` is the dictionary of lists; a publication is a frame with what
is left of its copy of the list, and what has run of it.  `RegisterHandler` is the router's:
it subscribes an adapter to INTENT_ROUTED, which returns at once when the event is of
another intent (`Unconcerned`), and otherwise catches what the callback raises and announces
INTENT_FAILED.  `EventsArrive` = the types, `RunsOnce` and `SteadyHandlersRun` (a handler that
stays subscribed runs once for each publication, even if others come and go, unless one
before it raised), `FailuresIsolated` (what a routed handler raises does not leave
`publish()`, unless announcing it fails as well), and `OwnEvents`.

`EventTypes.tla` has the types by publisher.  `OwnEvents`, a part of `EventsArrive`
and of `DecisionsAreSound`, says that no type has two publishers and that a call announces only
types of its own component or of one it calls: the type is all a subscriber has to tell
whose doing it is.  Eight types exist that nothing publishes (`Unused`).

`ServiceProofs.tla` proves `EventsArrive` (`EventsArriveAlways`) for any handlers, intents,
callbacks and depth.  `BusInv` says that no list has a handler twice, and of each dispatch in
progress that it is `Whole`: something is left of its copy, what ran and what is left have no
handler twice, and whoever was subscribed all the time is in one of the two.  Subscribing
and unsubscribing change the list and not the copies; the end of a handler moves it from
one part to the other (`MovedOn`), so that at the last one everybody has had the event.

### Knowledge graph, memory integration, reasoning

`KnowledgeGraph.tla`: `entities` and `relationships`; removing an entity removes what
touches it.  `GraphIsSound` = `NoDangling` and `IdsUnique`.  `KnowledgeGraphProofs.tla`
proves it for all sets (`GraphStaysSound`).

`MemoryIntegration.tla`: `synchronize_memory` removes the entity of a memory, adds a new
one and links it, with publications between; `synchronize_all` nests it.
`MemoryIsMirrored` = the types, `StatusIsTrue` (a key is listed as synchronized
exactly while its entity is in the graph, but for keys that host code touched during a
call on them) and `NeverOlder` (no entity is overwritten in place, so none by an older
version of its memory).

`KnowledgeGraphProofs.tla` proves that the integration implements the graph's own
specification (`IntegrationUsesGraph`), so `GraphIsSound` carries over, and proves
`MemoryStaysMirrored` for any keys, records and depth.  The strengthening of `StatusIsTrue`
is one statement for each point of a call in progress: whether the entity of its key is
in the graph there, and in which of the two books the key stands, unless the key was
disturbed.

`Reasoning.tla` has the searches as operators, two of them with the loops of the code as
recursive functions, and `SearchesAreRight` checks them in every graph the instance can
build: the breadth-first and the depth-first search agree (`SearchesAgree`), `find_paths`
returns exactly the simple paths by definition (`PathsAreAll`), the two neighbor searches
agree (`OneHopIsNeighbors`), the branches of `query()` agree where they overlap
(`PatternAgrees`), summaries count loops right (`SummaryCounts`), and a call either
answers and is announced, or fails exactly when an entity it asks about is not there
(`CallsAreAnnounced`).

`KnowledgeGraphProofs.tla` proves it for every graph that additions and removals can build
(`SearchesStayRight`), of any size and for any depth.  That the two loops have the values
that their recursive definitions ask for is an argument of its own: a step that maps a set
into itself can be taken any number of times (`Iterated`), so the function exists, and the
search is it (`HopsUnfold`, `SearchesUnfold`).  The induction theorems of the library take
an operator and cannot be used; `AllNumbers` is induction for a set of numbers, from the
well-foundedness of `<`.  The rest is about `Trails`, the walks that visit no entity twice:
the calls of `dfs()` with n relationships behind them are the trails of that length that
have not met the target (`SearchesAreTrails`), what a hop discovers is the end of a trail
(`FrontiersAreTrails`), and a trail ends where the hops have been (`TrailsAreVisited`).  The
ways of `PathsAreAll`, which count entities instead, are trails by a lemma on sequences
(`CountsPositions`), and so both searches agree.  They rely on `GraphIsSound`, and the counts
of a summary on the graph being finite (`GraphIsFinite`).

### Planner and the chain of the agent service

`Planner.tla`: `plans[p]` is the stored plan; `plan_session` is `CreatePlan` and a
`NextGoal` for each goal, with the handlers of PLAN_CREATED and PLAN_UPDATED in between.
`AgentService.tla` puts the pipeline before it and the execution and response engines
behind.  `PlansAreWhole` = the types, `NoStepLost` (no step that was added disappears
without a removal, or stands twice), `OrdersCount` (step numbers are positions) and
`ValidatedWasComplete` (a validated plan had all its capabilities at the moment of the
validation).  `ChainIsSound` = `PlansAreWhole`, the types of the chain, and
`RequestsKeptApart`: requests that run inside each other get each one answer, with a plan of
its own, and an earlier request never the plan of a later one.

`RegistryProofs.tla` proves `PlansStayWhole` for the planner with its registry, and
`ChainStaysSound` for the whole chain, with any number of requests, plans, steps and
capabilities and any depth.  `PlannerInv` adds that a planning session in progress has a
plan, and that step ids are given once over all plans (`StepsKept`), from which it follows
that removing by id removes one step; a permutation of the steps keeps the set of their ids
and the number of their places.  `ChainInv` adds the requests (`RequestsOK`): a request has
its plan from the moment it is created, and any two of them, in progress or answered, have
their plans in the order in which they came (`InOrder`).  No step of the planner or of the
registry touches that (`RequestsStay`), whoever makes it, so a response delivered late
belongs to its request.

`Errors.tla` is about the exceptions, package by package: the families, which operation
raises what, and what becomes of an exception at each `try`.  An operation is the set of
exceptions that can leave it, computed from those of the operations it calls; a handler's
exception is `Foreign`.  `BoundariesHold`, a part of the run's `FailuresEnd` (the other
is `MainEnds`, below), says that a service lets out its own family and Foreign, that
nothing at all but `AgentError`s leaves `AgentService.run`, and that
`synchronize_all` goes on after a memory that fails.  It is a constant: TLC evaluates it
once, over tables that were read off the source, and no step of the model can break it.
The mutant of `FailuresEnd` is about `MainEnds` and does not touch it, so what it is worth
rests on the tables being read rightly.  Two operations keep less than their
words, and the definitions say so: `CognitivePipeline.run` builds the context before its
`try` and lets an `InvalidContextError` out (an empty key in the metadata of a request),
and the three JSON stores let an `OSError` of `mkdir` or `mkstemp` and a
`UnicodeDecodeError` of a damaged file out, although
`modules/sales/persistence/exceptions.py:13` calls `SalesPersistenceError` the single
exception of that package.

### Decisions, connectors, plugins

`DecisionEngine.tla`: an evaluation works on the rules as they were when it began, in the
order of `ListRules`: the n-th is the one that n - 1 others go before.
`DecisionsAreSound` = the types (ids are unique), every rule of that moment is asked once
(`EveryRuleAsked`), the matched ones are in order of priority and registration
(`MatchedInOrder`), and `OwnEvents`.

`ServiceProofs.tla` proves it (`DecisionsStaySound`) for any rules with integer priorities, and
any depth of evaluations inside predicates.  The lemma `ListRulesIsOrder` says that the list
has each rule once and in order, because `GoesBefore` is a strict total order of the places
and so the number of places before one tells them apart and leaves none out.  The
invariant `DecisionInv` says of each evaluation that it is `AsItWas`: the rules asked and the
rules left are together that list, the matched ones are among those asked, and the rules
that stayed registered have kept their order among each other (`OrderStays`: removing one
takes no other past its neighbor, and a rule registered again counts as a new one).

`Extensions.tla`: `connectors`, `implementations` and `plugins` are the dictionaries,
`connected` the state of the implementations, which two connectors may share.
`BooksAgree` = the types (both connector dictionaries have the same ids) and
`AnnouncedOnce`: each invocation that left its connector was announced once, as
CONNECTOR_INVOKED or CONNECTOR_FAILED, whatever connectors and handlers call back.
`RegistryProofs.tla` proves it (`BooksStayInAgreement`): the invocations still with their
connector are a finite set of frames, and each action adds to it, takes from it or leaves
it, as it counts.

### Sales intake

`LeadIntake.tla`: an import loads three files, learns companies, contacts and campaigns
row by row and saves four files one after the other; the intake workflow loads the queue
of work items, adds one, works on the first and saves the queue.  Handlers of
LeadImported and of the work item events are host code; an exception or a crash
(`Crash`) may come between any two saves.

* `FilesStayWhole` = `LeadsResolve` (a stored lead has its company, contact and campaign
  in the files, unless imports overlapped), `PartiesAreKept` and `LeadsAreKept` (no
  import takes back or renumbers what is stored).
* `WorkStaysInOrder` = `ItemsResolve` (a work item is for a stored lead), `DueFirst` (what
  an intake works on is due before all else that is open) and `ClosedItemsStay` (nothing
  reopens a closed item, unless host code saves in between).

`ServiceProofs.tla` proves both.  `FilesAreWhole`: the inductive invariant `FilesInv`
has the shape of the frames, that imports are only on top of other calls, and for each
point of `import_and_persist` which files are already ahead of the others; the order of
the saves (leads last) is what makes it true.  `WorkIsOrdered`: `QueueInv` says of the
queue that an intake carries through its publications what is true of the stored one (its
items are for stored leads, their ids are their places), that it has all closed items of
the stored one unless others have saved meanwhile, and that the item it has started stands
before all open ones.  The sort of `order_work_items` is modelled by what the intake uses
of it, the item that stands before all others (`Foremost`); that there always is one is the
lemma `ForemostExists`, for any dates that are ordered like numbers.

### Value objects and builders

`Records.tla` and `ValueObjects.tla` have, for 28 classes constructed directly and 20
with a builder, the fields with their defaults, the enumerations, and which containers are
copied or shared; for the sales entities, knowledge and memory records and intents also
the conversion to a JSON record and back.  `Builders.tla` is the one protocol they share,
over a heap of lists and dictionaries, because aliasing is what can go wrong.

| Model | Code |
|---|---|
| `heap`, `lists`, `objects[i].lists` | the lists and dictionaries in use; who refers to which |
| `Copied`, `Containers`, `Held` | the containers that an object has for itself: those `__post_init__` copies (an empty mapping by default counts, as in `Capability.metadata`), and the lists and the dictionary of a builder, which `build()` copies |
| `Shared` | what a class keeps as it is given, on purpose: the value of a knowledge or memory record and the like |
| `Nested`, `Inside` | a mutable object of the caller, and the lists with what is in their entries |
| `Set`, `PutExtra`, `AppendItem`, `AppendPair`, `Clear`, `Build`, `CallClass` | setters, `with_metadata`, `with_task`, `with_tasks`, `clear_tasks` and the like, `build()`, a call of the class |
| `HostAppends` | the caller changes its own list, or its own mutable object |
| `Written`, `Read`, `AfterJson` | `..._to_dict`, `..._from_dict` and the JSON file between them |

All copies are shallow: `tuple(self._tasks)`, `dict(self._metadata_extra)`,
`MappingProxyType(dict(self.extra))`.  `with_metadata` takes any value, by reference.  So a
list that is put into the dictionary is one and the same for the caller, the builder and
all it builds: after `l = [1]; b.with_metadata("tags", l); o = b.build(); l.append(2)` the
object shows the 2.  The model has this object of the caller (`Nested`), as a value of a
dictionary, as an entry of a list that a class is called with, and inside the `value` that
a record shares.  The lists of a builder hold texts and frozen objects (`Items`),
which the setters check; of a frozen object in a list the same holds as of any other.

`BuiltIsFrozen` =

* `TablesAgree`: the defaults of class, builder and metadata agree;
* `BuilderTypeOK`: no two fields of a builder, its caller and its objects share a list or
  dictionary of their own;
* `NoTwinItems`: no setter lets an item in twice where the code forbids it;
* `SnapshotsGrow`: the objects of a builder that keeps its identifier are snapshots of one
  growing trace;
* `ObjectsFrozen`: an object keeps its values and its entries, whatever is done to its
  builder, its caller or its siblings.  What is inside an entry changes only in a step in
  which the caller changes its own mutable object, and only in the lists that hold it.  An
  object with such an entry is not immutable; nothing the builder does changes it;
* `RestoredAsBuilt`: what is saved and loaded is the same in every field but its arbitrary
  data (`extra` of the metadata, `value` of a record), and in the data too unless there is
  something in it that JSON has no form for: a tuple comes back as a list, and keys of a
  nested dictionary that are no text come back as text (`JsonForms`; `memory/storage.py:95`,
  `knowledge/storage.py:97`, the repositories of the sales module).  What came back once comes
  back unchanged from then on.  Values that `json.dumps` refuses are in `RecordStore`, where
  they make a save fail.

In the instance one capability is built, and up to two objects of the other kinds; the
caller's list and its mutable object hold one entry, those of a builder two.  One object
and a builder that goes on, or two objects of one builder, are what can share; the data is a
tuple, alone or inside the mutable object, or nothing, so saved data is changed by JSON in
some states and not in others.  A second capability would only repeat what the builders of
the other kinds do twice.

`ServiceProofs.tla` proves it (`BuiltStaysFrozen`) for all 48 classes, any values, items,
data, lengths and number of objects.  The tables come first: one lemma for the builders
(`BuildersFit`), one for the classes without one (`FrozensFit`) and one for the records
(`CodecsFit`) go through them class by class, and `EveryKindFits` gathers what the steps
need of them.  Then JSON: `JsonKeeps` (it changes nothing the second time, and nothing at all
in data that is not `Lossy`) and `DataInPlace` (an object has its data in one place, where it
can be replaced) give `RestoredIsSame`.  The rest is about the heap.  `FreshIsNew`: there is
always an address that nobody uses, because there is one more number to try than there are
addresses.  Then the invariant `BuilderInv` says who holds which list, and what is in it:
each list has one holder, so a change in place (`ListChanges`) touches nobody else's, and a
copy (`MakeKeeps`) starts on new addresses.  `IsSnapshot` is the strengthening that
`SnapshotsGrow` needs: a builder that passes on its own identifier has no `clear_` method,
so its lists only grow.  Every step keeps the mutable object of the caller or is the
caller's change of it (`BuilderStep`), and what is inside an entry depends on nothing else
(`InsideStays`), which is the action property.

### The program

`Bootstrap.tla`: `Order` is the order of the constructors with what each needs; the three
registries (container, service registry, lifecycle manager) are filled by hand.  Services
keep a state of their own, which nothing couples to the lifecycle manager's; both have
their operations here.  `ProgramIsSound` = the types, built in order, complete when
running, final when ended, and a service's own state goes one way.  `MainEnds`: main() comes
to its end, whatever raises.

`ServiceProofs.tla` proves `ProgramIsSound` (`ProgramStaysSound`) for any managed services among
those of the table `LifecycleOf`, and any modules.  The order of 26 constructors and the list of the
services to register are written by hand in two places of the code, so two lemmas go
through them part by part: no constructor needs what is not built yet (`OrderIsBuildable`), and
the names registered are the names built, each once (`ListsAgree`).  `BootInv` says that while the
program is being built, the container holds the constructors so far and the registries
hold the services so far; that nothing is missing at the end is then a matter of counting.

Fairness: weak fairness of `Main`.  main() is one thread that runs to its end; a
registrar of a module is assumed to return or raise.

## What the theorems assume

All theorems assume the named assumptions on the constants, which TLC evaluates in the
runs: numbers are numbers, `None` and the like are no identifiers, a handler is no adapter
(`HandlersApart`), priorities are integers (`RulesAssumption`), a managed service is one
that the program has, and the workflow engine is among them, whose operations the instance
needs (`ManagedAssumption`), a class that is looked at is one of the tables
(`KindsAssumption`), no entity, entity type or relationship type is the `None` of a query
(`UnsetAssumption`), depths are numbers (`HopsAssumption`), and no caller passes the
identifier that a builder has made for itself (`ValuesAssumption`).  Beyond these, a
theorem names its hypothesis itself:

| Hypothesis | Theorems | Why it is there |
|---|---|---|
| `OneFile`, `NoFailures`, `Durable` | `MemoryIsDurable`, `KnowledgeIsDurable`, `EventsFollowFile`, `RecordsAlwaysSurvive`, `NoUpdateLost` | the memory service has one file; with several, as the knowledge service has them, a failing save loses what `knowledge_shadow` shows |
| `[]TicksApart` | `OneShotsFireOnce` | overlapping ticks fire a task again (`scheduler_refire`) |
| one frame | `OneCallAtATime` | the instance of `scheduler_live`, of any size |
| `~HandlersMayRaise` | `RunningIsRun` | an exception leaves a RUNNING execution without a call |
| `[]SoleRunner` | `CompletedHasNoNext`, `StepsAreNotRepeated` | two calls that run one execution take it back (`runtime_rewind`) |
| `HostIsTame` | `RuntimeImplementsLifecycle` | a cancel from inside is overwritten (`runtime_resurrect`) |
| `ConstantsFit` | those of the memory integration | constants of two modules fit: editions are contents, `related_to` is a type of relationship |
| `CapabilitiesFit`, `Steps \in Nat` | those of the dispatcher, the conversation and the engine | a capability names a workflow or none; a workflow has a number of steps |
| `PlannerBounds`, `ChainBounds`, `MaxInvocations \in Nat` | those of the planner, the chain and the extensions | the bounds of the model are numbers |

The first six say what a host must not do for the promise to hold, and each has its
counterexample in a run or in the text above; the runs `scheduler_live`,
`runtime_lifecycle`, `runtime_nested` (host code that does not raise), `memory` and
`knowledge` satisfy them, and check the same properties there.  The rest only type the
constants, and hold in the runs.

What stays with TLC, and why:

* liveness (`DueIsServed`, `CallsEnd`, `CallsReturn`, `MainEnds`): the prover handles
  neither fairness nor ENABLED;
* `BoundariesHold`: sets of exceptions in finite tables of the source, without constants
  or states; TLC evaluates the tables completely, so there is no larger instance to prove;
* the four runs that expect a violation, which show what does not hold.

## What is not modelled

* The intent parser (`intent/parser.py`): a table of keywords looked up in a text, without
  state.  (It takes the subject from the text as given and finds the keyword in the
  stripped one, so leading blanks shift the subject by as much: `intent/parser.py:124`.)
  The models take its result as one of a few intents.
* `configuration.py` and `logging_service.py`: read a file once, set up a logger.
* Categories of the knowledge service with a "/" in their name (see there).
* `sales_demo.py`, and the conversion of cells to values in the import.
* The first prototype (`argus/*.py` besides the above): superseded, wired to nothing.
* `interfaces.py` of all packages: abstract signatures without behaviour; what they
  promise in words is checked on the classes that implement them.
* Owner and tags of the metadata, which no builder sets, and the words of reasons and
  responses.
* Within the modelled ones: explicit `now=` arguments of the scheduler, timestamps and the
  texts of events and exceptions; readers that change no state; the iteration of a
  dictionary while another thread changes it, which is below the grain of these modules.
