------------------------------ MODULE Scheduler ------------------------------
(***************************************************************************)
(* The tick-driven Scheduler (argus/scheduler/scheduler.py) and the        *)
(* triggers it consults (argus/scheduler/triggers.py).                     *)
(*                                                                         *)
(* Several host threads call the scheduler.  A call runs in a frame        *)
(* <<thread, depth>>: an event handler or a task callback that calls the   *)
(* scheduler again opens the next deeper frame of its thread, and the      *)
(* outer frame waits until the inner one returns.  The registry lock is    *)
(* threading.Lock, which is not reentrant; reading the clock, taking the   *)
(* lock, the locked section and every publication are separate steps.      *)
(***************************************************************************)
EXTENDS Naturals, FiniteSets

CONSTANTS
    Threads,     \* host threads that call the scheduler
    Depth,       \* bound: thread -> nesting of calls made from handlers and callbacks
    Ids,         \* task ids
    Triggers,    \* the triggers callers schedule with
    Priorities,  \* sort ranks of _PRIORITY_ORDER, 0 runs first
    Day,         \* length of a day in clock units
    MaxTime,     \* bound: the last instant of the clock
    MaxSchedules,\* bound: how many schedule() calls are made
    HandlersMayRaise, \* TRUE: an event handler may raise out of publish()
    None         \* Python's None

TriggerType ==
    [kind : {"oneshot"}, at : Nat]
      \cup [kind : {"interval"}, every : Nat \ {0}, start : Nat \cup {None}]
      \cup [kind : {"daily"}, at : Nat]

ASSUME NoneAssumption == None \notin Nat
ASSUME DepthAssumption == Depth \in [Threads -> Nat \ {0}]
ASSUME DayAssumption == Day \in Nat \ {0}
ASSUME TriggersAssumption ==
    /\ Triggers \subseteq TriggerType
    /\ \A tr \in Triggers : tr.kind = "daily" => tr.at < Day
ASSUME PrioritiesAssumption == Priorities \subseteq Nat
ASSUME BoundsAssumption ==
    MaxTime \in Nat /\ MaxSchedules \in Nat /\ HandlersMayRaise \in BOOLEAN

VARIABLES
    state,       \* Scheduler._state, the service's own lifecycle state
    clock,       \* the host's clock
    lock,        \* the frame that holds Scheduler._lock, or None
    tasks,       \* Scheduler._tasks: id -> task, None where absent
    pc,          \* where each frame is
    request,     \* the call a frame makes
    at,          \* reference_time / current_time, read when the call begins
    batch,       \* tick: the due tasks selected and not yet started
    current,     \* tick: the selected task being run
    serial,      \* history: the number of registrations made
    cancelled,   \* history: serials of cancelled registrations
    fired,       \* history: serials whose callback was entered
    refired      \* history: serials whose callback was entered again

frameVars == <<pc, request, at, batch, current>>
history == <<serial, cancelled, fired, refired>>
vars == <<state, clock, lock, tasks, frameVars, history>>

-----------------------------------------------------------------------------
(* Data *)

Frames == UNION {{th} \X (1 .. Depth[th]) : th \in Threads}

States == {"CREATED", "INITIALIZING", "RUNNING", "STOPPED"}

Instant == Nat \cup {None}

\* A ScheduledTask; serial tells registrations under the same id apart.
Task == [id : Ids, trigger : Triggers, priority : Priorities, enabled : BOOLEAN,
         next_run : Instant, last_run : Instant, serial : Nat]

Requests ==
    [op : {"schedule"}, id : Ids, trigger : Triggers, priority : Priorities]
      \cup [op : {"cancel", "pause", "resume"}, id : Ids]
      \cup [op : {"tick"}]

Points == {"idle", "lock", "body", "publish", "loop", "started", "callback",
           "finish", "finishing", "done", "heartbeat"}

\* Where a frame runs code of the host: handlers of a publication, a callback.
CallingOut == {"publish", "started", "callback", "done", "heartbeat"}

Registered == {id \in Ids : tasks[id] # None}

\* Mutants of NextFire: "at" still counts as due; a delay instead of an instant.
NextFireInclusive(tr, after) ==
    IF tr.kind = "oneshot" THEN IF tr.at >= after THEN tr.at ELSE None ELSE after + 1

NextFireDelay(tr, after) ==
    IF tr.kind = "oneshot" THEN tr.at - (after + 1) ELSE after + 1

\* Trigger.next_fire_time: the next instant strictly after "after", or None.
NextFire(tr, after) ==
    CASE tr.kind = "oneshot"  -> IF tr.at > after THEN tr.at ELSE None
      [] tr.kind = "interval" -> IF tr.start # None /\ tr.start > after
                                 THEN tr.start ELSE after + tr.every
      [] tr.kind = "daily"    -> LET today == (after \div Day) * Day + tr.at
                                 IN  IF today <= after THEN today + Day ELSE today

\* Mutant of Due: an instant that passed between two ticks is missed.
DueOnTheDot(t, now) == t.enabled /\ t.next_run = now

\* Mutant of Precedes: the earliest first, whatever its priority.
PrecedesInTime(t, u) == t.next_run < u.next_run

\* _due_tasks: the filter, and the key its result is sorted by.
Due(t, now) == t.enabled /\ t.next_run # None /\ t.next_run <= now

Precedes(t, u) ==
    \/ t.priority < u.priority
    \/ t.priority = u.priority /\ t.next_run < u.next_run

-----------------------------------------------------------------------------
(* Frames *)

\* The innermost active frame of its thread: the only one that takes steps.
Innermost(c) == \A d \in Frames : d[1] = c[1] /\ d[2] > c[2] => pc[d] = "idle"

\* A call may begin on an idle thread, or from host code run by the outer frame.
MayCall(c) ==
    /\ pc[c] = "idle"
    /\ Innermost(c)
    /\ c[2] > 1 => pc[<<c[1], c[2] - 1>>] \in CallingOut

At(c, point) == pc[c] = point /\ Innermost(c)

Goto(c, point) == pc' = [pc EXCEPT ![c] = point]

\* The call of frame c returns or raises to its caller.
Return(c) ==
    /\ pc' = [pc EXCEPT ![c] = "idle"]
    /\ request' = [request EXCEPT ![c] = None]
    /\ at' = [at EXCEPT ![c] = None]
    /\ batch' = [batch EXCEPT ![c] = {}]
    /\ current' = [current EXCEPT ![c] = None]

Locked(c) == At(c, "body") /\ lock = c

\* Mutant of Release: the locked section extends over the publication.
ReleaseLater == UNCHANGED lock

Release == lock' = None

-----------------------------------------------------------------------------
(* The service's own lifecycle; the registry operations do not depend on it *)

Init ==
    /\ state = "CREATED"
    /\ clock = 0
    /\ lock = None
    /\ tasks = [id \in Ids |-> None]
    /\ pc = [c \in Frames |-> "idle"]
    /\ request = [c \in Frames |-> None]
    /\ at = [c \in Frames |-> None]
    /\ batch = [c \in Frames |-> {}]
    /\ current = [c \in Frames |-> None]
    /\ serial = 0
    /\ cancelled = {}
    /\ fired = {}
    /\ refired = {}

SetState(from, to) ==
    /\ state = from
    /\ state' = to
    /\ UNCHANGED <<clock, lock, tasks, frameVars, history>>

Initialize == SetState("CREATED", "INITIALIZING")
Start == SetState("INITIALIZING", "RUNNING")
Stop == SetState("RUNNING", "STOPPED")

\* Environment: time passes.
Elapse ==
    /\ clock < MaxTime
    /\ clock' = clock + 1
    /\ UNCHANGED <<state, lock, tasks, frameVars, history>>

-----------------------------------------------------------------------------
(* Calls: begin (the clock is read), take the lock, and leave *)

\* Bound: registrations made and in flight.
SchedulesLeft ==
    serial + Cardinality({c \in Frames : request[c] # None /\ request[c].op = "schedule"})
        < MaxSchedules

\* A raising call (tick() while not RUNNING) changes nothing and is not a step.
Call(c) ==
    /\ MayCall(c)
    /\ \E r \in Requests :
         /\ r.op = "tick" => state = "RUNNING"
         /\ r.op = "schedule" => SchedulesLeft
         /\ request' = [request EXCEPT ![c] = r]
    /\ at' = [at EXCEPT ![c] = clock]
    /\ Goto(c, "lock")
    /\ UNCHANGED <<state, clock, lock, tasks, batch, current, history>>

AcquireAt(c, from, to) ==
    /\ At(c, from)
    /\ lock = None
    /\ lock' = c
    /\ Goto(c, to)
    /\ UNCHANGED <<state, clock, tasks, request, at, batch, current, history>>

Acquire(c) == AcquireAt(c, "lock", "body")
AcquireToFinish(c) == AcquireAt(c, "finish", "finishing")

-----------------------------------------------------------------------------
(* The locked sections of the registry operations *)

\* TaskAlreadyExists, TaskNotFound: the section raises and the lock is freed.
Reject(c) ==
    /\ Locked(c)
    /\ CASE request[c].op = "schedule" -> request[c].id \in Registered
         [] request[c].op \in {"cancel", "pause", "resume"} ->
              request[c].id \notin Registered
         [] OTHER -> FALSE
    /\ Release
    /\ Return(c)
    /\ UNCHANGED <<state, clock, tasks, history>>

Schedule(c) ==
    /\ Locked(c)
    /\ request[c].op = "schedule"
    /\ request[c].id \notin Registered
    /\ tasks' = [tasks EXCEPT ![request[c].id] =
           [id |-> request[c].id, trigger |-> request[c].trigger,
            priority |-> request[c].priority, enabled |-> TRUE,
            next_run |-> NextFire(request[c].trigger, at[c]), last_run |-> None,
            serial |-> serial]]
    /\ serial' = serial + 1
    /\ Release
    /\ Goto(c, "publish")
    /\ UNCHANGED <<state, clock, request, at, batch, current, cancelled, fired, refired>>

Cancel(c) ==
    /\ Locked(c)
    /\ request[c].op = "cancel"
    /\ request[c].id \in Registered
    /\ tasks' = [tasks EXCEPT ![request[c].id] = None]
    /\ cancelled' = cancelled \cup {tasks[request[c].id].serial}
    /\ Release
    /\ Goto(c, "publish")
    /\ UNCHANGED <<state, clock, request, at, batch, current, serial, fired, refired>>

\* pause() and resume() replace the registered task by an updated copy.
Replace(c, op, update) ==
    /\ Locked(c)
    /\ request[c].op = op
    /\ request[c].id \in Registered
    /\ tasks' = [tasks EXCEPT ![request[c].id] = update]
    /\ Release
    /\ Goto(c, "publish")
    /\ UNCHANGED <<state, clock, request, at, batch, current, history>>

Paused(t) == [t EXCEPT !.enabled = FALSE]

Resumed(t, now) ==
    [t EXCEPT !.enabled = TRUE, !.next_run = NextFire(t.trigger, now)]

Pause(c) == Replace(c, "pause", Paused(tasks[request[c].id]))
Resume(c) == Replace(c, "resume", Resumed(tasks[request[c].id], at[c]))

\* The handlers of TASK_SCHEDULED, _CANCELLED, _PAUSED or _RESUMED have run (or
\* one of them raised): the call leaves either way.
Publish(c) ==
    /\ At(c, "publish")
    /\ Return(c)
    /\ UNCHANGED <<state, clock, lock, tasks, history>>

-----------------------------------------------------------------------------
(* tick() *)

SelectDue(c) ==
    /\ Locked(c)
    /\ request[c].op = "tick"
    /\ batch' = [batch EXCEPT ![c] = {tasks[id] : id \in {i \in Registered :
                                                     Due(tasks[i], at[c])}}]
    /\ Release
    /\ Goto(c, "loop")
    /\ UNCHANGED <<state, clock, tasks, request, at, current, history>>

\* The loop over the sorted due tasks: TASK_STARTED of the next one, or the end.
\* Tasks equal in rank and next_run are taken in any order.
StartNext(c) ==
    /\ At(c, "loop")
    /\ \E t \in batch[c] :
         /\ \A u \in batch[c] : ~ Precedes(u, t)
         /\ batch' = [batch EXCEPT ![c] = @ \ {t}]
         /\ current' = [current EXCEPT ![c] = t]
    /\ Goto(c, "started")
    /\ UNCHANGED <<state, clock, lock, tasks, request, at, history>>

BatchDone(c) ==
    /\ At(c, "loop")
    /\ batch[c] = {}
    /\ Goto(c, "heartbeat")
    /\ UNCHANGED <<state, clock, lock, tasks, request, at, batch, current, history>>

EnterCallback(c) ==
    /\ At(c, "started")
    /\ fired' = fired \cup {current[c].serial}
    /\ refired' = refired \cup ({current[c].serial} \cap fired)
    /\ Goto(c, "callback")
    /\ UNCHANGED <<state, clock, lock, tasks, request, at, batch, current, serial, cancelled>>

\* The callback returned, or raised and _execute wrapped the exception: _finish
\* does the same for both.
CallbackDone(c) ==
    /\ At(c, "callback")
    /\ Goto(c, "finish")
    /\ UNCHANGED <<state, clock, lock, tasks, request, at, batch, current, history>>

\* Mutants of Finished: the selected copy is written back, whether or not the task is
\* still registered; the copy replaces the registered task; its trigger is used.
FinishedUnchecked(id, t, now) ==
    [t EXCEPT !.last_run = now, !.next_run = NextFire(t.trigger, now)]

FinishedFromCopy(id, t, now) ==
    IF tasks[id] = None
    THEN None
    ELSE [t EXCEPT !.last_run = now, !.next_run = NextFire(t.trigger, now)]

FinishedByCopyTrigger(id, t, now) ==
    IF tasks[id] = None
    THEN None
    ELSE [tasks[id] EXCEPT !.last_run = now, !.next_run = NextFire(t.trigger, now)]

\* _finish: the task registered under the id now, if any, is brought up to date.
Finished(id, t, now) ==
    IF tasks[id] = None
    THEN None
    ELSE [tasks[id] EXCEPT !.last_run = now,
                           !.next_run = NextFire(tasks[id].trigger, now)]

Finish(c) ==
    /\ At(c, "finishing")
    /\ lock = c
    /\ tasks' = [tasks EXCEPT ![current[c].id] = Finished(current[c].id, current[c], at[c])]
    /\ Release
    /\ Goto(c, "done")
    /\ UNCHANGED <<state, clock, request, at, batch, current, history>>

\* The handlers of TASK_COMPLETED or TASK_FAILED have run.
Done(c) ==
    /\ At(c, "done")
    /\ current' = [current EXCEPT ![c] = None]
    /\ Goto(c, "loop")
    /\ UNCHANGED <<state, clock, lock, tasks, request, at, batch, history>>

\* The handlers of SCHEDULER_TICK have run, and tick() returns.
Heartbeat(c) ==
    /\ At(c, "heartbeat")
    /\ Return(c)
    /\ UNCHANGED <<state, clock, lock, tasks, history>>

\* A handler of TASK_STARTED, TASK_COMPLETED or TASK_FAILED raised: the exception
\* leaves tick(), and what is left of the batch is dropped.
HandlerRaises(c) ==
    /\ HandlersMayRaise
    /\ \E point \in {"started", "done"} : At(c, point)
    /\ Return(c)
    /\ UNCHANGED <<state, clock, lock, tasks, history>>

-----------------------------------------------------------------------------

\* The steps of a call once it has begun.
Step(c) ==
    \/ Acquire(c) \/ AcquireToFinish(c)
    \/ Reject(c) \/ Schedule(c) \/ Cancel(c) \/ Pause(c) \/ Resume(c) \/ Publish(c)
    \/ SelectDue(c) \/ StartNext(c) \/ BatchDone(c) \/ EnterCallback(c)
    \/ CallbackDone(c) \/ Finish(c) \/ Done(c) \/ Heartbeat(c) \/ HandlerRaises(c)

Next ==
    \/ Initialize \/ Start \/ Stop \/ Elapse
    \/ \E c \in Frames : Call(c) \/ Step(c)

Spec == Init /\ [][Next]_vars

\* A thread that runs keeps running, the host goes on calling tick() and handlers
\* do not raise for ever: the scheduler has no thread of its own and does not
\* guard publish(), so all three are assumptions about the host.
TickCall(c) == Call(c) /\ request'[c] = [op |-> "tick"]

FairSpec ==
    /\ Spec
    /\ \A c \in Frames : WF_vars(Step(c)) /\ SF_vars(EnterCallback(c)) /\ SF_vars(Done(c))
    /\ SF_vars(\E th \in Threads : TickCall(<<th, 1>>))

-----------------------------------------------------------------------------
(* Properties *)

TypeOK ==
    /\ state \in States
    /\ clock \in Nat
    /\ lock \in Frames \cup {None}
    /\ tasks \in [Ids -> Task \cup {None}]
    /\ pc \in [Frames -> Points]
    /\ request \in [Frames -> Requests \cup {None}]
    /\ at \in [Frames -> Instant]
    /\ batch \in [Frames -> SUBSET Task]
    /\ current \in [Frames -> Task \cup {None}]
    /\ serial \in Nat
    /\ cancelled \subseteq Nat
    /\ fired \subseteq Nat
    /\ refired \subseteq Nat

\* The frame that holds the registry lock is the innermost of its thread and
\* inside a locked section: no handler, callback or nested call ever runs under
\* the lock, so a handler that calls back into the scheduler cannot deadlock on
\* it (the reason _publish is called after every "with self._lock").
HolderCanRelease ==
    lock # None => \E point \in {"body", "finishing"} : At(lock, point)

\* A cancelled registration never comes back: a tick that selected the task
\* before the cancel does not put it into the registry again when it finishes.
NoResurrection ==
    \A id \in Registered : tasks[id].serial \notin cancelled

\* A registered task's next_run is always its own trigger's answer for some past
\* instant, also when the id was cancelled and scheduled anew with another trigger
\* while a tick was running the old task.
NextRunFromOwnTrigger ==
    \A id \in Registered :
        \E after \in 0 .. clock : tasks[id].next_run = NextFire(tasks[id].trigger, after)

\* A task that is enabled by a step was enabled by a resume() of that task.
EnabledByResume ==
    \A id \in Ids :
        /\ tasks[id] # None /\ tasks'[id] # None
        /\ tasks[id].serial = tasks'[id].serial
        /\ ~ tasks[id].enabled /\ tasks'[id].enabled
        => \E c \in Frames : Locked(c) /\ request[c].op = "resume" /\ request[c].id = id

\* Only resume() enables a task: a tick that runs a task while it is being paused
\* does not write the stale, enabled copy back.
OnlyResumeEnables == [][EnabledByResume]_vars

\* "Fires exactly once, at run_at" (OneShotTrigger): no callback of a one-shot
\* registration is entered a second time.
OneShotFiresOnce ==
    \A t \in {tasks[id] : id \in Registered} \cup {current[c] : c \in {d \in Frames : current[d] # None}} :
        t.trigger.kind = "oneshot" => t.serial \notin refired

\* "Higher priority first" (_PRIORITY_ORDER): of the due tasks of one tick, none that
\* is still waiting has a higher priority than the one that runs.
HigherPriorityFirst ==
    \A c \in Frames : current[c] # None =>
        \A t \in batch[c] : current[c].priority <= t.priority

\* "Execute every enabled, due task" (IScheduler.tick): while the host keeps
\* ticking a running scheduler, a due task does not stay due forever, although a
\* raising handler makes tick() drop the rest of its batch now and then.
Waiting(id) ==
    tasks[id] # None /\ tasks[id].enabled
        /\ tasks[id].next_run # None /\ tasks[id].next_run <= clock

DueIsServed ==
    \A id \in Ids : (state = "RUNNING" /\ Waiting(id)) ~> (state # "RUNNING" \/ ~ Waiting(id))
=============================================================================
