----------------------------- MODULE Dispatcher -----------------------------
(***************************************************************************)
(* The intent dispatcher (argus/dispatcher) over the capability registry   *)
(* and the workflow engine: an intent is resolved to the capability that   *)
(* was registered first, an action is built for it, and the action runs    *)
(* the capability's workflow.  Four events are published on the way, and   *)
(* their handlers may change the registry and the workflows.               *)
(***************************************************************************)
EXTENDS WorkflowEngine, CapabilityRegistry

CONSTANTS
    Intents,      \* the intents that are dispatched
    MaxDispatches,\* bound: dispatches
    NoWorkflow,   \* the workflow of a capability of another action_kind
    NoCapability  \* no capability resolved yet

VARIABLES
    dispatcher,   \* IntentDispatcher._state
    dispatched,   \* history: number of dispatches begun
    served        \* history: workflow -> number of DISPATCH_COMPLETED for it

dispatcherVars == <<dispatcher, dispatched, served>>
dispatchVars == <<stack, workflowVars, registry, dispatcherVars>>

DispatcherInit ==
    /\ Init
    /\ RegistryInit
    /\ dispatcher = "CREATED"
    /\ dispatched = 0
    /\ served = [w \in Workflow |-> 0]

Still == UNCHANGED <<workflowVars, registry, dispatcherVars>>

ShiftDispatcher(from, to) ==
    /\ HostRuns
    /\ dispatcher = from
    /\ dispatcher' = to
    /\ UNCHANGED <<stack, workflowVars, registry, dispatched, served>>

InitializeDispatcher == ShiftDispatcher("CREATED", "INITIALIZING")
StartDispatcher == ShiftDispatcher("INITIALIZING", "RUNNING")
StopDispatcher == ShiftDispatcher("RUNNING", "STOPPED")

-----------------------------------------------------------------------------
(* dispatch *)

Dispatch(intent) ==
    /\ MayCall
    /\ dispatcher = "RUNNING"
    /\ dispatched < MaxDispatches
    /\ dispatched' = dispatched + 1
    /\ Enter([call |-> "dispatch", intent |-> intent, capability |-> NoCapability,
              at |-> "INTENT_DISPATCHED"])
    /\ UNCHANGED <<workflowVars, registry, dispatcher, served>>

\* The first enabled capability that serves the intent, if the action factory,
\* which knows only workflows, makes an action of it.
Resolved(intent) ==
    {i \in Serving(intent) : /\ \A j \in Serving(intent) : i <= j
                             /\ registry[i].workflow # NoWorkflow}

ResolveCapability ==
    /\ TopIs("dispatch", {"INTENT_DISPATCHED"})
    /\ \/ \E i \in Resolved(Top.intent) :
              stack' = [stack EXCEPT ![Len(stack)].capability = registry[i],
                                     ![Len(stack)].at = "ACTION_RESOLVED"]
       \/ Resolved(Top.intent) = {} /\ Goto("DISPATCH_FAILED")
    /\ Still

Announced ==
    /\ \/ TopIs("dispatch", {"ACTION_RESOLVED"}) /\ Goto("WORKFLOW_SELECTED")
       \/ TopIs("dispatch", {"WORKFLOW_SELECTED"}) /\ Goto("DISPATCH_STARTED")
    /\ Still

\* action.execute: the engine runs the workflow, or refuses to.
CallWorkflow ==
    /\ TopIs("dispatch", {"DISPATCH_STARTED"})
    /\ Len(stack) < Depth
    /\ Begin(Top.capability.workflow, [stack EXCEPT ![Len(stack)].at = "calling"])
    /\ UNCHANGED <<registry, dispatcherVars>>

CallRefused ==
    /\ TopIs("dispatch", {"DISPATCH_STARTED"})
    /\ ~Executable(Top.capability.workflow)
    /\ Goto("DISPATCH_FAILED")
    /\ Still

\* Mutant of WorkflowReturned: an error of the action counts as its end.
WorkflowReturnedAnyhow ==
    /\ TopIs("dispatch", {"calling", "raised"})
    /\ Goto("DISPATCH_COMPLETED")
    /\ served' = [served EXCEPT ![Top.capability.workflow] = @ + 1]
    /\ UNCHANGED <<workflowVars, registry, dispatcher, dispatched>>

WorkflowReturned ==
    /\ TopIs("dispatch", {"calling"})
    /\ Goto("DISPATCH_COMPLETED")
    /\ served' = [served EXCEPT ![Top.capability.workflow] = @ + 1]
    /\ UNCHANGED <<workflowVars, registry, dispatcher, dispatched>>

WorkflowRaised == TopIs("dispatch", {"raised"}) /\ Goto("DISPATCH_FAILED") /\ Still

\* After DISPATCH_FAILED dispatch() raises what it has wrapped.
DispatchReturns == TopIs("dispatch", {"DISPATCH_COMPLETED"}) /\ Return /\ Still
DispatchRaises == Busy /\ Top.call = "dispatch" /\ HostRuns /\ Unwind /\ Still

DispatcherNext ==
    \/ Next /\ UNCHANGED <<registry, dispatcherVars>>
    \/ RegistryNext /\ UNCHANGED <<workflowVars, dispatcherVars>>
    \/ InitializeDispatcher \/ StartDispatcher \/ StopDispatcher
    \/ \E intent \in Intents : Dispatch(intent)
    \/ ResolveCapability \/ Announced \/ CallWorkflow \/ CallRefused
    \/ WorkflowReturned \/ WorkflowRaised \/ DispatchReturns \/ DispatchRaises

DispatcherSpec == DispatcherInit /\ [][DispatcherNext]_dispatchVars

-----------------------------------------------------------------------------
(* Properties *)

\* Types of the dispatcher and of its calls.
DispatcherTypeOK ==
    /\ dispatcher \in States /\ dispatched \in 0 .. MaxDispatches
    /\ registry \in Seq(Offered)
    /\ \A i \in DOMAIN stack : stack[i].call = "dispatch" =>
           stack[i].intent \in Intents /\ stack[i].capability \in Offered \union {NoCapability}

\* DISPATCH_COMPLETED tells that the workflow of the resolved capability came to
\* its end in this very dispatch, although the capability may be gone by then and
\* handlers may have run, cancelled or registered workflows; a workflow is
\* executed once, so it completes one dispatch at most, and all later ones fail.
CompletedOnce ==
    /\ \A w \in Workflow :
           /\ served[w] <= 1
           /\ served[w] = 1 => workflows[w] \in {"COMPLETED", "FAILED"}
    /\ \A i \in DOMAIN stack : stack[i].at = "DISPATCH_COMPLETED" =>
           served[stack[i].capability.workflow] = 1

\* A dispatch is decided by one registered capability, and what it announces of
\* the workflow is true, although handlers change registry and workflows meanwhile.
DispatchesAreServed == DispatcherTypeOK /\ NoTwins /\ CompletedOnce
=============================================================================
