--------------------------- MODULE WorkflowEngine ---------------------------
(***************************************************************************)
(* The workflow engine (argus/workflow/engine.py): named sequences of      *)
(* steps, each registered once and executed in the thread of the caller.   *)
(* The actions of the steps and the handlers of the WORKFLOW_* events are  *)
(* host code and may register, cancel and execute workflows again, raise,  *)
(* and, being callables, return what is not a mapping.                     *)
(***************************************************************************)
EXTENDS CallStack

CONSTANTS
    Workflow,   \* ids of workflows
    Steps       \* bound: steps of each workflow

VARIABLES
    engine,     \* WorkflowEngine._state
    workflows,  \* WorkflowEngine._workflows: id -> state, "ABSENT" when there is none
    ran,        \* history: id -> the steps whose action was called, in order
    abandoned   \* history: the workflows whose execute() was left by an exception

workflowVars == <<engine, workflows, ran, abandoned>>

States == {"CREATED", "INITIALIZING", "RUNNING", "STOPPED"}
Finished == {"COMPLETED", "FAILED", "CANCELLED"}
Executing(f, w) == f.call = "execute" /\ f.workflow = w /\ f.at \notin Finished

Init ==
    /\ stack = << >>
    /\ engine = "CREATED"
    /\ workflows = [w \in Workflow |-> "ABSENT"]
    /\ ran = [w \in Workflow |-> << >>]
    /\ abandoned = {}

-----------------------------------------------------------------------------
(* The lifecycle of the service and its registry *)

Shift(from, to) ==
    /\ HostRuns
    /\ engine = from
    /\ engine' = to
    /\ UNCHANGED <<stack, workflows, ran, abandoned>>

Initialize == Shift("CREATED", "INITIALIZING")
Start == Shift("INITIALIZING", "RUNNING")
Stop == Shift("RUNNING", "STOPPED")

SetWorkflow(w, from, to) ==
    /\ workflows[w] = from
    /\ workflows' = [workflows EXCEPT ![w] = to]

\* register_workflow publishes nothing; an id that is taken is refused.
Register(w) ==
    /\ HostRuns
    /\ SetWorkflow(w, "ABSENT", "PENDING")
    /\ UNCHANGED <<stack, engine, ran, abandoned>>

\* Mutant of Cancel: a workflow that is RUNNING may be cancelled.
CancelRunning(w) ==
    /\ MayCall
    /\ \E from \in {"PENDING", "RUNNING"} : SetWorkflow(w, from, "CANCELLED")
    /\ Enter([call |-> "execute", workflow |-> w, step |-> 0, at |-> "CANCELLED"])
    /\ UNCHANGED <<engine, ran, abandoned>>

Cancel(w) ==
    /\ MayCall
    /\ SetWorkflow(w, "PENDING", "CANCELLED")
    /\ Enter([call |-> "execute", workflow |-> w, step |-> 0, at |-> "CANCELLED"])
    /\ UNCHANGED <<engine, ran, abandoned>>

-----------------------------------------------------------------------------
(* execute *)

Executable(w) == engine = "RUNNING" /\ workflows[w] = "PENDING"

\* Mutant of Begin: RUNNING is announced and not stored.
BeginUnstored(w, below) ==
    /\ Executable(w)
    /\ stack' = Append(below, [call |-> "execute", workflow |-> w, step |-> 0, at |-> "STARTED"])
    /\ UNCHANGED workflowVars

\* The workflow is stored as RUNNING and WORKFLOW_STARTED is published.
Begin(w, below) ==
    /\ Executable(w)
    /\ SetWorkflow(w, "PENDING", "RUNNING")
    /\ stack' = Append(below, [call |-> "execute", workflow |-> w, step |-> 0, at |-> "STARTED"])
    /\ UNCHANGED <<engine, ran, abandoned>>

Execute(w) == MayCall /\ Begin(w, stack)

\* The loop takes the next step and publishes WORKFLOW_STEP_STARTED.
BeginStep ==
    /\ TopIs("execute", {"STARTED", "STEP_COMPLETED"})
    /\ Top.step < Steps
    /\ stack' = [stack EXCEPT ![Len(stack)].step = @ + 1,
                              ![Len(stack)].at = "STEP_STARTED"]
    /\ UNCHANGED workflowVars

CallAction ==
    /\ TopIs("execute", {"STEP_STARTED"})
    /\ Goto("action")
    /\ ran' = [ran EXCEPT ![Top.workflow] = Append(@, Top.step)]
    /\ UNCHANGED <<engine, workflows, abandoned>>

ActionReturns ==
    /\ TopIs("execute", {"action"})
    /\ Goto("STEP_COMPLETED")
    /\ UNCHANGED workflowVars

\* _finish stores the state it is given over whatever is stored.
Finish(result) ==
    /\ workflows' = [workflows EXCEPT ![Top.workflow] = result]
    /\ Goto(result)
    /\ UNCHANGED <<engine, ran, abandoned>>

ActionRaises == TopIs("execute", {"action"}) /\ Finish("FAILED")

Complete ==
    /\ TopIs("execute", {"STEP_COMPLETED"})
    /\ Top.step = Steps
    /\ Finish("COMPLETED")

ExecuteReturns ==
    /\ TopIs("execute", Finished)
    /\ Return
    /\ UNCHANGED workflowVars

\* A handler raises out of a publication, or dict() rejects what the action
\* returned, outside the try of the action: the state stays what it was.
ExecuteRaises ==
    /\ Busy /\ Top.call = "execute"
    /\ Unwind
    /\ abandoned' = abandoned \union {w \in {Top.workflow} : workflows[w] = "RUNNING"}
    /\ UNCHANGED <<engine, workflows, ran>>

Next ==
    \/ Initialize \/ Start \/ Stop
    \/ \E w \in Workflow : Register(w) \/ Cancel(w) \/ Execute(w)
    \/ BeginStep \/ CallAction \/ ActionReturns \/ ActionRaises
    \/ Complete \/ ExecuteReturns \/ ExecuteRaises

Spec == Init /\ [][Next]_<<stack, workflowVars>>

-----------------------------------------------------------------------------
(* Properties *)

\* A workflow is executed at most once, whatever its steps and handlers call:
\* its actions ran one after the other from the first, all of them when it is
\* COMPLETED, some when it FAILED, and none before it was executed.
RanOnceInOrder ==
    \A w \in Workflow :
        LET n == Len(ran[w]) IN
        /\ \A i \in 1 .. n : ran[w][i] = i
        /\ workflows[w] \in {"ABSENT", "PENDING", "CANCELLED"} => n = 0
        /\ workflows[w] = "COMPLETED" => n = Steps
        /\ workflows[w] = "FAILED" => n \in 1 .. Steps

\* A workflow that is RUNNING is run by exactly one call, unless that call was
\* left by an exception; nothing else is run (the registry against the calls).
RunningHasOneRunner ==
    \A w \in Workflow :
        LET runners == {i \in DOMAIN stack : Executing(stack[i], w)} IN
        /\ runners # {} => workflows[w] = "RUNNING"
        /\ workflows[w] = "RUNNING" => runners # {} \/ w \in abandoned
        /\ \A i, j \in runners : i = j

\* What is finished stays as it is: no nested call, and no late _finish of an
\* outer one, overwrites it.
FinishedIsFinal ==
    [][\A w \in Workflow : workflows[w] \in Finished => workflows'[w] = workflows[w]]_<<stack, workflowVars>>

\* Nested calls, errors and late results leave every workflow with one execution
\* at most: its steps once and in order, by the one call that runs it.
WorkflowsRunOnce == RanOnceInOrder /\ RunningHasOneRunner
=============================================================================
