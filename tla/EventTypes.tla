----------------------------- MODULE EventTypes -----------------------------
(***************************************************************************)
(* The event types, by the component that publishes them.  Components know *)
(* each other's doings by nothing but the type of an event, so a type that *)
(* two of them published would tell a subscriber nothing.                  *)
(***************************************************************************)
EXTENDS Naturals, FiniteSets

KnowledgeEvents == {"KNOWLEDGE_CREATED", "KNOWLEDGE_UPDATED", "KNOWLEDGE_DELETED"}
MemoryEvents == {"MEMORY_UPDATED"}
SchedulerEvents ==
    {"TASK_SCHEDULED", "TASK_STARTED", "TASK_COMPLETED", "TASK_FAILED", "TASK_CANCELLED",
     "TASK_PAUSED", "TASK_RESUMED"}
TickEvents == {"SCHEDULER_TICK"}
IntentEvents == {"INTENT_PARSED", "INTENT_ROUTED", "INTENT_FAILED"}
WorkflowEvents ==
    {"WORKFLOW_STARTED", "WORKFLOW_STEP_STARTED", "WORKFLOW_STEP_COMPLETED",
     "WORKFLOW_COMPLETED", "WORKFLOW_FAILED", "WORKFLOW_CANCELLED"}
ConversationEvents ==
    {"CONVERSATION_STARTED", "MESSAGE_RECEIVED", "INTENT_RESOLVED", "WORKFLOW_EXECUTED",
     "RESPONSE_GENERATED", "CONVERSATION_ENDED"}
DispatcherEvents ==
    {"INTENT_DISPATCHED", "ACTION_RESOLVED", "WORKFLOW_SELECTED", "DISPATCH_STARTED",
     "DISPATCH_COMPLETED", "DISPATCH_FAILED"}
CapabilityEvents == {"CAPABILITY_REGISTERED", "CAPABILITY_UNREGISTERED"}
PluginEvents ==
    {"PLUGIN_REGISTERED", "PLUGIN_UNREGISTERED", "PLUGIN_ENABLED", "PLUGIN_DISABLED"}
PlannerEvents == {"PLAN_CREATED", "PLAN_UPDATED", "PLAN_VALIDATED"}
RuntimeEvents ==
    {"EXECUTION_CREATED", "EXECUTION_STARTED", "STEP_STARTED", "STEP_COMPLETED",
     "EXECUTION_COMPLETED", "EXECUTION_FAILED"}
ConnectorEvents ==
    {"CONNECTOR_REGISTERED", "CONNECTOR_ENABLED", "CONNECTOR_DISABLED", "CONNECTOR_INVOKED",
     "CONNECTOR_FAILED"}
GraphEvents == {"ENTITY_ADDED", "ENTITY_REMOVED", "RELATIONSHIP_ADDED", "RELATIONSHIP_REMOVED"}
IntegrationEvents == {"MEMORY_SYNCHRONIZED", "MEMORY_DESYNCHRONIZED", "MEMORY_MAPPING_FAILED"}
ReasoningEvents ==
    {"REASONING_QUERY_EXECUTED", "REASONING_RESULT_CREATED", "REASONING_QUERY_FAILED"}
DecisionEvents == {"DECISION_EVALUATED", "DECISION_CREATED", "DECISION_FAILED"}
SalesEvents == {"SALES_MODULE_EVENT"}

\* One set for each publisher; the scheduler has two.
Published ==
    {KnowledgeEvents, MemoryEvents, SchedulerEvents \union TickEvents, IntentEvents,
     WorkflowEvents, ConversationEvents, DispatcherEvents, CapabilityEvents, PluginEvents,
     PlannerEvents, RuntimeEvents, ConnectorEvents, GraphEvents, IntegrationEvents,
     ReasoningEvents, DecisionEvents, SalesEvents}

\* Types that exist and that nothing publishes.
Unused ==
    {"SYSTEM_STARTED", "SYSTEM_STOPPING", "SYSTEM_STOPPED", "SERVICE_STARTED",
     "SERVICE_STOPPED", "EVENT_PUBLISHED", "USER_COMMAND", "LOG_MESSAGE"}

EventType == (UNION Published) \union Unused

\* Which types the calls on the stack announce: their own, and of those they call.
Announces ==
    [planner |-> PlannerEvents, registry |-> CapabilityEvents, dispatch |-> DispatcherEvents,
     receive |-> ConversationEvents \union {"INTENT_PARSED"}, session |-> ConversationEvents,
     evaluate |-> DecisionEvents, invoke |-> ConnectorEvents,
     sync |-> IntegrationEvents \union GraphEvents, all |-> IntegrationEvents,
     forget |-> IntegrationEvents \union GraphEvents]

\* No two components publish one type.
TypesApart == \A one, other \in Published : one # other => one \intersect other = {}

\* ... and a call announces nothing in the name of a component that it has no part in:
\* subscribers can tell by the type who it was.
OwnEvents(frames) ==
    /\ TypesApart
    /\ \A i \in DOMAIN frames :
           frames[i].at \in EventType /\ frames[i].call \in DOMAIN Announces =>
               frames[i].at \in Announces[frames[i].call]
=============================================================================
