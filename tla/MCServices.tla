----------------------------- MODULE MCServices -----------------------------
(***************************************************************************)
(* Small instances, side by side, of the services whose calls nest in      *)
(* their own publications.  They share no state but the workflow engine: a *)
(* behaviour is one of the service in focus, all others stay as they start,*)
(* and the run is the sum of theirs.  The stack is that of the service in  *)
(* focus.                                                                  *)
(***************************************************************************)
EXTENDS Conversation, Dispatcher, LeadIntake, MemoryIntegration, EventBus

CONSTANT MaxSubscriptions   \* bound: subscriptions to the event bus

VARIABLE focus

dispatchingVars == <<registry, dispatcherVars>>
memoryVars == <<graphVars, integration, memory, stored, synchronized, failed, disturbed>>
vars == <<focus, allVars, dispatchingVars, subscribers, intakeVars, memoryVars>>

\* The memory of the second key names the first.
MCRelated == {<<CHOOSE k \in EntityIds : TRUE>>}

\* Two capabilities of one name for one workflow, and one that runs none.
Capability(id, name, workflow) ==
    [id |-> id, name |-> name, intents |-> Intents, enabled |-> TRUE, workflow |-> workflow]
MCOffered ==
    {Capability(i, "a", w) : i \in 1 .. 2, w \in Workflow}
        \union {Capability(3, "b", NoWorkflow)}

MCInit ==
    /\ focus \in {"conversation", "dispatcher", "bus", "memory", "intake"}
    /\ ConversationInit
    /\ focus # "conversation" => reentrant = FALSE
    /\ DispatcherInit
    /\ BusInit
    /\ IntegrationInit
    /\ IntakeInit

MCNext ==
    \/ /\ focus = "conversation" /\ ConversationNext
       /\ UNCHANGED <<focus, dispatchingVars, subscribers, intakeVars, memoryVars>>
    \/ /\ focus = "dispatcher" /\ DispatcherNext
       /\ UNCHANGED <<focus, conversationVars, subscribers, intakeVars, memoryVars>>
    \/ /\ focus = "bus" /\ BusNext
       /\ Len(stack') < Depth      \* one call less is enough here
       /\ Len(subscribers'["INTENT_ROUTED"]) + Len(subscribers'["INTENT_FAILED"]) <= MaxSubscriptions
       /\ UNCHANGED <<focus, workflowVars, conversationVars, dispatchingVars, intakeVars, memoryVars>>
    \/ /\ focus = "intake" /\ IntakeNext
       /\ UNCHANGED <<focus, workflowVars, conversationVars, dispatchingVars, subscribers, memoryVars>>
    \/ /\ focus = "memory" /\ IntegrationNext
       /\ Len(stack') < Depth      \* and here
       /\ UNCHANGED <<focus, workflowVars, conversationVars, dispatchingVars, subscribers, intakeVars>>

MCSpec == MCInit /\ [][MCNext]_vars

=============================================================================
