---------------------------- MODULE AgentRuntime ----------------------------
(***************************************************************************)
(* The agent runtime (argus/runtime/runtime.py): executions of a validated *)
(* plan, one step after the other, in the thread of the caller.            *)
(*                                                                         *)
(* There is no concurrency; what interleaves is re-entrancy.  Handlers of  *)
(* the events the runtime publishes and the actions its steps dispatch are *)
(* host code, which may call the runtime again: pause and cancel act at    *)
(* once, start and resume open a deeper frame that the outer one waits     *)
(* for.  Host code may also raise.                                         *)
(***************************************************************************)
EXTENDS Naturals

CONSTANTS
    MaxExecutions,    \* bound: executions started
    MaxSteps,         \* bound: steps of the plan
    MaxDepth,         \* bound: start and resume calls nested in host code
    HostCalls,        \* the operations that handlers and actions call
    HandlersMayRaise, \* TRUE: an event handler may raise out of publish()
    None              \* Python's None

Operations == {"start", "resume", "pause", "cancel"}

ASSUME BoundsAssumption ==
    MaxExecutions \in Nat /\ MaxSteps \in Nat /\ MaxDepth \in Nat \ {0}
ASSUME HostAssumption == HostCalls \subseteq Operations /\ HandlersMayRaise \in BOOLEAN

VARIABLES
    state,        \* AgentRuntime._state, the service's own lifecycle state
    plan,         \* the planner's canonical record of the plan
    created,      \* number of executions created; ids are 1 .. created
    executions,   \* AgentRuntime._executions: id -> Execution, or None
    plans,        \* AgentRuntime._plans: id -> number of steps captured at the start
    pc,           \* where each frame is
    running,      \* the id a frame works on
    local         \* the frame's loop-local execution.current_step

frameVars == <<pc, running, local>>
vars == <<state, plan, created, executions, plans, frameVars>>

-----------------------------------------------------------------------------
(* Data *)

Ids == 1 .. MaxExecutions
Frames == 1 .. MaxDepth
States == {"CREATED", "INITIALIZING", "RUNNING", "STOPPED"}
Statuses == {"CREATED", "RUNNING", "PAUSED", "FAILED", "COMPLETED", "CANCELLED"}
Terminal == {"FAILED", "COMPLETED", "CANCELLED"}

Execution == [status : Statuses, current_step : Nat, results : SUBSET Nat]
ASSUME NoneAssumption == None \notin Nat /\ None \notin Execution

NewExecution == [status |-> "CREATED", current_step |-> 0, results |-> {}]

Points == {"idle", "created", "announced", "loop", "stepping", "dispatched",
           "stepped", "failed", "completed"}

\* Where a frame runs host code: the handlers of a publication, or the action.
CallingOut == Points \ {"idle", "loop"}
Publishing == CallingOut \ {"dispatched"}

Started == {e \in Ids : executions[e] # None}
Status(e) == executions[e].status

-----------------------------------------------------------------------------
(* Frames and host code *)

Idle == \A d \in Frames : pc[d] = "idle"
Innermost(d) == pc[d] # "idle" /\ \A f \in Frames : f > d => pc[f] = "idle"
At(d, point) == pc[d] = point /\ Innermost(d)

\* Who may call the runtime: a caller from outside, or host code run by the
\* innermost frame.
MayCall(op) ==
    Idle \/ (op \in HostCalls /\ \E d \in Frames : Innermost(d) /\ pc[d] \in CallingOut)

\* The frame a start or resume call opens.
Opens(d) == \A f \in Frames : (f < d => pc[f] # "idle") /\ (f >= d => pc[f] = "idle")

Goto(d, point) == pc' = [pc EXCEPT ![d] = point]

\* The call of frame d returns or raises.
Return(d) ==
    /\ pc' = [pc EXCEPT ![d] = "idle"]
    /\ running' = [running EXCEPT ![d] = None]
    /\ local' = [local EXCEPT ![d] = None]

Store(e, execution) == executions' = [executions EXCEPT ![e] = execution]

-----------------------------------------------------------------------------
(* The service's lifecycle and the planner *)

Init ==
    /\ state = "CREATED"
    /\ plan = [steps |-> 0, validated |-> FALSE]
    /\ created = 0
    /\ executions = [e \in Ids |-> None]
    /\ plans = [e \in Ids |-> 0]
    /\ pc = [d \in Frames |-> "idle"]
    /\ running = [d \in Frames |-> None]
    /\ local = [d \in Frames |-> None]

SetState(from, to) ==
    /\ state = from
    /\ state' = to
    /\ UNCHANGED <<plan, created, executions, plans, frameVars>>

Initialize == SetState("CREATED", "INITIALIZING")
Start == SetState("INITIALIZING", "RUNNING")
Stop == SetState("RUNNING", "STOPPED")

\* The planner's add_step, remove_step and reorder_steps: any of them takes the
\* plan's validation away.  They may happen at any time, also during an execution.
EditPlan ==
    /\ \E n \in 0 .. MaxSteps : plan' = [steps |-> n, validated |-> FALSE]
    /\ UNCHANGED <<state, created, executions, plans, frameVars>>

\* validate_plan of the planner succeeds.
ValidatePlan ==
    /\ plan' = [plan EXCEPT !.validated = TRUE]
    /\ UNCHANGED <<state, created, executions, plans, frameVars>>

-----------------------------------------------------------------------------
(* start_execution and resume_execution *)

\* The execution is stored as CREATED and EXECUTION_CREATED is published.
StartExecution(d) ==
    /\ MayCall("start")
    /\ Opens(d)
    /\ state = "RUNNING"
    /\ plan.validated
    /\ created < MaxExecutions
    /\ created' = created + 1
    /\ Store(created + 1, NewExecution)
    /\ plans' = [plans EXCEPT ![created + 1] = plan.steps]
    /\ running' = [running EXCEPT ![d] = created + 1]
    /\ Goto(d, "created")
    /\ UNCHANGED <<state, plan, local>>

\* The local copy, now RUNNING, is stored over whatever is there.
Announced(e) == [NewExecution EXCEPT !.status = "RUNNING"]

MarkRunning(d) ==
    /\ At(d, "created")
    /\ Store(running[d], Announced(running[d]))
    /\ Goto(d, "announced")
    /\ UNCHANGED <<state, plan, created, plans, running, local>>

\* The handlers of EXECUTION_STARTED have run.
EnterLoop(d) ==
    /\ At(d, "announced")
    /\ Goto(d, "loop")
    /\ UNCHANGED <<state, plan, created, executions, plans, running, local>>

ResumeExecution(d, e) ==
    /\ MayCall("resume")
    /\ Opens(d)
    /\ state = "RUNNING"
    /\ e \in Started
    /\ Status(e) = "PAUSED"
    /\ Store(e, [executions[e] EXCEPT !.status = "RUNNING"])
    /\ running' = [running EXCEPT ![d] = e]
    /\ Goto(d, "loop")
    /\ UNCHANGED <<state, plan, created, plans, local>>

-----------------------------------------------------------------------------
(* pause_execution and cancel_execution: not gated, and they publish nothing *)

PauseExecution(e) ==
    /\ MayCall("pause")
    /\ e \in Started
    /\ Status(e) = "RUNNING"
    /\ Store(e, [executions[e] EXCEPT !.status = "PAUSED"])
    /\ UNCHANGED <<state, plan, created, plans, frameVars>>

CancelExecution(e) ==
    /\ MayCall("cancel")
    /\ e \in Started
    /\ Status(e) \notin Terminal
    /\ Store(e, [executions[e] EXCEPT !.status = "CANCELLED"])
    /\ UNCHANGED <<state, plan, created, plans, frameVars>>

-----------------------------------------------------------------------------
(* _run *)

\* The top of the loop: the execution is no longer RUNNING ...
LeaveLoop(d) ==
    /\ At(d, "loop")
    /\ Status(running[d]) # "RUNNING"
    /\ Return(d)
    /\ UNCHANGED <<state, plan, created, executions, plans>>

\* Mutant of Complete: the new status is not stored.
CompleteUnstored(d) ==
    /\ At(d, "loop")
    /\ Status(running[d]) = "RUNNING"
    /\ executions[running[d]].current_step >= plans[running[d]]
    /\ Goto(d, "completed")
    /\ UNCHANGED <<state, plan, created, executions, plans, running, local>>

\* ... or every step is done ...
Complete(d) ==
    /\ At(d, "loop")
    /\ Status(running[d]) = "RUNNING"
    /\ executions[running[d]].current_step >= plans[running[d]]
    /\ Store(running[d], [executions[running[d]] EXCEPT !.status = "COMPLETED"])
    /\ Goto(d, "completed")
    /\ UNCHANGED <<state, plan, created, plans, running, local>>

\* ... or STEP_STARTED of the next step is published.
BeginStep(d) ==
    /\ At(d, "loop")
    /\ Status(running[d]) = "RUNNING"
    /\ executions[running[d]].current_step < plans[running[d]]
    /\ local' = [local EXCEPT ![d] = executions[running[d]].current_step]
    /\ Goto(d, "stepping")
    /\ UNCHANGED <<state, plan, created, executions, plans, running>>

\* The dispatcher runs the action of the step.
Dispatch(d) ==
    /\ At(d, "stepping")
    /\ Goto(d, "dispatched")
    /\ UNCHANGED <<state, plan, created, executions, plans, running, local>>

\* Mutants of Advanced: the frame's own view of the status is stored; the execution
\* does not move on; it moves on too far; it moves back.
AdvancedFromCopy(execution, step) ==
    [execution EXCEPT !.status = "RUNNING", !.current_step = step + 1, !.results = @ \cup {step}]

AdvancedNowhere(execution, step) == [execution EXCEPT !.results = @ \cup {step}]

AdvancedTwice(execution, step) ==
    [execution EXCEPT !.current_step = step + 2, !.results = @ \cup {step}]

AdvancedBack(execution, step) ==
    [execution EXCEPT !.current_step = step - 1, !.results = @ \cup {step}]

\* dispatch() returned: the stored execution is fetched again and moves on from the
\* step this frame ran.  STEP_COMPLETED is published.
Advanced(execution, step) ==
    [execution EXCEPT !.current_step = step + 1, !.results = @ \cup {step}]

StepSucceeds(d) ==
    /\ At(d, "dispatched")
    /\ Store(running[d], Advanced(executions[running[d]], local[d]))
    /\ Goto(d, "stepped")
    /\ UNCHANGED <<state, plan, created, plans, running, local>>

\* dispatch() raised: the stored execution becomes FAILED, and EXECUTION_FAILED is
\* published.
StepFails(d) ==
    /\ At(d, "dispatched")
    /\ Store(running[d], [executions[running[d]] EXCEPT !.status = "FAILED"])
    /\ Goto(d, "failed")
    /\ UNCHANGED <<state, plan, created, plans, running, local>>

\* The handlers of STEP_COMPLETED have run.
NextStep(d) ==
    /\ At(d, "stepped")
    /\ local' = [local EXCEPT ![d] = None]
    /\ Goto(d, "loop")
    /\ UNCHANGED <<state, plan, created, executions, plans, running>>

\* The handlers of EXECUTION_COMPLETED or EXECUTION_FAILED have run: the call
\* returns the execution, or raises StepExecutionError.
Leave(d) ==
    /\ \E point \in {"completed", "failed"} : At(d, point)
    /\ Return(d)
    /\ UNCHANGED <<state, plan, created, executions, plans>>

\* A handler raised: the exception leaves the call where it was.
HandlerRaises(d) ==
    /\ HandlersMayRaise
    /\ \E point \in Publishing : At(d, point)
    /\ Return(d)
    /\ UNCHANGED <<state, plan, created, executions, plans>>

-----------------------------------------------------------------------------

\* The steps of a call in progress.
Step(d) ==
    \/ MarkRunning(d) \/ EnterLoop(d) \/ LeaveLoop(d) \/ Complete(d) \/ BeginStep(d)
    \/ Dispatch(d) \/ StepSucceeds(d) \/ StepFails(d) \/ NextStep(d) \/ Leave(d)
    \/ HandlerRaises(d)

Control ==
    \/ \E d \in Frames : StartExecution(d) \/ \E e \in Ids : ResumeExecution(d, e)
    \/ \E e \in Ids : PauseExecution(e) \/ CancelExecution(e)

Environment == Initialize \/ Start \/ Stop \/ EditPlan \/ ValidatePlan

Next == Environment \/ Control \/ \E d \in Frames : Step(d)

Spec == Init /\ [][Next]_vars

\* Host code returns in the end: the step of a frame that is enabled again and
\* again, whenever its handlers and actions return, is taken.
FairSpec == Spec /\ \A d \in Frames : SF_vars(Step(d))

-----------------------------------------------------------------------------
(* Properties *)

TypeOK ==
    /\ state \in States
    /\ plan \in [steps : Nat, validated : BOOLEAN]
    /\ created \in 0 .. MaxExecutions
    /\ executions \in [Ids -> Execution \cup {None}]
    /\ plans \in [Ids -> Nat]
    /\ pc \in [Frames -> Points]
    /\ running \in [Frames -> Ids \cup {None}]
    /\ local \in [Frames -> Nat \cup {None}]

\* No step is skipped: every step before current_step has a result, although a frame
\* moves on from the step it ran itself while nested calls moved the execution.
NoStepSkipped ==
    \A e \in Started :
        \A k \in 0 .. plans[e] : k < executions[e].current_step => k \in executions[e].results

\* "COMPLETED: set when every step in the Plan has been dispatched successfully."
CompletedHasAllResults ==
    \A e \in Started : Status(e) = "COMPLETED" =>
        \A k \in 0 .. plans[e] : k < plans[e] => k \in executions[e].results

\* Nothing starts an execution again but a resume of a PAUSED one, or the start
\* itself: the update a frame makes after its step does not undo a pause, a cancel
\* or an end that happened while the step ran.
Restarted(e) ==
    \/ \E d \in Frames : pc[d] = "created" /\ running[d] = e
    \/ Status(e) = "PAUSED" /\ \E d \in Frames : Opens(d) /\ running'[d] = e

RunsAgainByResume ==
    \A e \in Started :
        Status(e) # "RUNNING" /\ executions'[e].status = "RUNNING" => Restarted(e)

OnlyResumeRestarts == [][RunsAgainByResume]_vars

\* No step is dispatched again once it has a result.
StepsRunOnce ==
    [][\A d \in Frames : pc[d] = "stepping" /\ pc'[d] = "dispatched" =>
            local[d] \notin executions[running[d]].results]_vars

\* current_step is "a 0-based index of the next step to dispatch" (Execution): of a
\* COMPLETED execution none is left.
CompletedIsAtEnd ==
    \A e \in Started : Status(e) = "COMPLETED" => executions[e].current_step = plans[e]

\* "RUNNING: set ... for the duration of start_execution()'s (or resume_execution()'s)
\* synchronous step loop" (ExecutionStatus): a call in progress runs it.
RunningHasRunner ==
    \A e \in Started : Status(e) = "RUNNING" => \E d \in Frames : running[d] = e

\* "CANCELLED ... Terminal - a caller-initiated stop, distinct from FAILED ... and
\* COMPLETED" (ExecutionStatus): a cancelled execution neither runs nor fails.
CancelledIsFinal ==
    [][\A e \in Started : Status(e) = "CANCELLED" => executions'[e].status = "CANCELLED"]_vars

\* start_execution and resume_execution end, "returning only once every dispatched
\* step has completed, one step has failed, or the Execution is no longer RUNNING".
CallsEnd == \A d \in Frames : pc[d] # "idle" ~> pc[d] = "idle"

\* The life of every execution, as the runtime promises it: a refinement.
Busy(e) == \E d \in Frames : running[d] = e /\ pc[d] \in {"stepping", "dispatched"}

Lifecycle == INSTANCE ExecutionLifecycle WITH
    Lengths <- 0 .. MaxSteps,
    status <- [e \in Ids |-> IF executions[e] = None THEN None ELSE Status(e)],
    length <- plans,
    done <- [e \in Ids |-> IF executions[e] = None THEN 0 ELSE executions[e].current_step],
    busy <- [e \in Ids |-> Busy(e)]

IsLifecycle == Lifecycle!Spec
=============================================================================
