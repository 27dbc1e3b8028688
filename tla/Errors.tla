------------------------------- MODULE Errors -------------------------------
(***************************************************************************)
(* Which exceptions leave which operation.  Every package has a family of  *)
(* exceptions of its own: a base class and its subclasses.  An operation   *)
(* raises its own, and lets out what the operations that it calls raise,   *)
(* except for what a "try" around the call catches.  An operation that     *)
(* publishes lets out what a handler of the event raises, since the bus    *)
(* isolates nothing: that may be any exception, and is called Foreign      *)
(* here, like that of a workflow step, of a predicate or of a connector.   *)
(*                                                                         *)
(* An argument of an operation may be anything; the fields of an object    *)
(* that passed a check of its class have the types they are annotated      *)
(* with, as builders and parser make them.  Names that two packages use    *)
(* are told apart.                                                         *)
(***************************************************************************)

(* The families of the services *)

AgentErrors == {"AgentError", "InvalidAgentRequestError", "AgentExecutionError"}
CapabilityErrors ==
    {"CapabilityError", "InvalidCapabilityError", "DuplicateCapabilityError", "CapabilityNotFoundError"}
ExecutorErrors ==
    {"CapabilityExecutionError", "InvalidCapabilityContextReferenceError",
     "InvalidTaskReferenceError", "InvalidCapabilityExecutionResultError"}
ConnectorErrors ==
    {"ConnectorError", "InvalidConnectorError", "DuplicateConnectorError", "ConnectorNotFoundError",
     "ConnectorDisabledError", "InvalidConnectorStateError", "ConnectorInvocationError"}
ConversationErrors ==
    {"ConversationError", "NoActiveSessionError", "SessionNotFoundError", "ActiveSessionExistsError",
     "InvalidMessageError"}
DecisionErrors ==
    {"DecisionError", "InvalidDecisionRuleError", "DuplicateRuleError", "RuleNotFoundError",
     "InvalidDecisionInputError", "RuleEvaluationError"}
DispatcherErrors ==
    {"DispatcherError", "dispatcher.InvalidIntentError", "InvalidActionError", "NoCapabilityError",
     "ActionExecutionError"}
EventErrors == {"EventValidationError", "SubscriptionError"}
EngineErrors ==
    {"ExecutionError", "execution_engine.InvalidPlanReferenceError",
     "execution_engine.InvalidExecutionResultError"}
IntentErrors ==
    {"IntentError", "IntentParseError", "intent.InvalidIntentError", "DuplicateHandlerError"}
KnowledgeErrors == {"KnowledgeError", "KnowledgeNotFoundError", "DuplicateKnowledgeError"}
GraphErrors ==
    {"KnowledgeGraphError", "InvalidEntityError", "DuplicateEntityError", "EntityNotFoundError",
     "InvalidRelationshipError", "DuplicateRelationshipError", "RelationshipNotFoundError"}
LifecycleErrors == {"LifecycleError", "InvalidStateTransitionError"}
MemoryErrors == {"MemoryServiceError", "MemoryNotFoundError", "DuplicateMemoryError"}
IntegrationErrors ==
    {"MemoryIntegrationError", "InvalidMemoryRecordError", "MemoryMappingError",
     "MemoryNotSynchronizedError", "InvalidMemoryIntegrationStateError"}
PipelineErrors == {"PipelineError", "InvalidPipelineRequestError", "PipelineExecutionError"}
PlannerErrors ==
    {"PlannerError", "InvalidPlanError", "PlanNotFoundError", "StepNotFoundError", "PlanValidationError"}
PluginErrors == {"PluginError", "InvalidPluginError", "DuplicatePluginError", "PluginNotFoundError"}
ReasoningErrors ==
    {"ReasoningError", "InvalidReasoningQueryError", "ReasoningTargetNotFoundError"}
ResponseErrors ==
    {"ResponseError", "response.InvalidPlanReferenceError", "InvalidExecutionTraceError",
     "response.InvalidExecutionResultError"}
RuntimeErrors ==
    {"AgentRuntimeError", "InvalidExecutionError", "ExecutionNotFoundError",
     "InvalidExecutionStateError", "StepExecutionError"}
SchedulerErrors ==
    {"SchedulerError", "TaskAlreadyExists", "TaskNotFound", "InvalidTrigger", "TaskExecutionError"}
\* The registry's have no base class.
ServiceErrors == {"ServiceRegistrationError", "ServiceNotFoundError"}
WorkflowErrors ==
    {"WorkflowError", "WorkflowNotFoundError", "DuplicateWorkflowError", "InvalidWorkflowError",
     "WorkflowExecutionError"}
ImportErrors == {"ImportError_", "RowParseError"}
PersistenceErrors == {"SalesPersistenceError"}
QueueErrors == {"WorkQueueError", "WorkItemNotFoundError"}

(* The families of the value objects *)

AutomationErrors == {"AutomationError", "InvalidAutomationError"}
CapabilityContextErrors == {"CapabilityContextError", "InvalidCapabilityContextError"}
ContextErrors == {"ContextError", "InvalidContextError"}
DecisionRecordErrors == {"DecisionRecordError", "InvalidDecisionRecordError"}
GoalErrors == {"GoalError", "InvalidGoalError"}
CampaignErrors == {"CampaignError", "InvalidCampaignError"}
CompanyErrors == {"CompanyError", "InvalidCompanyError"}
ContactErrors == {"ContactError", "InvalidContactError"}
LeadErrors == {"LeadError", "InvalidLeadError"}
WorkItemErrors == {"WorkItemError", "InvalidWorkItemError"}
PlanningErrors == {"PlanningError", "InvalidPlanningSessionError"}
PolicyErrors == {"PolicyError", "InvalidPolicyError"}
ProjectErrors == {"ProjectError", "InvalidProjectError"}
TaskErrors == {"TaskError", "InvalidTaskError"}
TaskRelationshipErrors == {"TaskRelationshipError", "InvalidTaskRelationshipError"}
TraceErrors == {"TraceError", "InvalidTraceStepError"}
WorkspaceErrors == {"WorkspaceError", "InvalidWorkspaceError"}

\* The second of each is what its builder raises.
ObjectFamilies ==
    {AutomationErrors, CapabilityContextErrors, ContextErrors, DecisionRecordErrors, GoalErrors,
     CampaignErrors, CompanyErrors, ContactErrors, LeadErrors, WorkItemErrors, PlanningErrors,
     PolicyErrors, ProjectErrors, TaskErrors, TaskRelationshipErrors, TraceErrors, WorkspaceErrors}

-----------------------------------------------------------------------------
(* try and except *)

Foreign == {"Foreign"}

\* try: inside; except caught: becomes.  Without a match nothing becomes of it.
Tried(inside, caught, becomes) ==
    (inside \ caught) \union {e \in becomes : inside \intersect caught # {}}

\* except Exception catches all of it.
TriedAll(inside, becomes) == Tried(inside, inside, becomes)

-----------------------------------------------------------------------------
(* Planner, agent runtime, capability registry and executor, and the chain    *)

RequirePlan == {"InvalidPlanError", "PlanNotFoundError"}
ValidateTasks == {"InvalidPlanError"}
PlanEdited == RequirePlan \union {"InvalidPlanError", "StepNotFoundError"} \union Foreign
PlanValidated == RequirePlan \union {"PlanValidationError"} \union Foreign

\* The tasks of a session are not looked at before the planner does.  The plan that
\* its steps are added to exists, and every goal has a name.
PlanSession == {"InvalidPlanError"} \union ValidateTasks \union Foreign

\* The context is built before the "try": an empty id of the conversation or an empty
\* key of the metadata is refused by its builder.
RunPipeline ==
    {"PipelineError", "InvalidPipelineRequestError", "InvalidContextError"} \union
        TriedAll(PlanSession, {"PipelineExecutionError"})

ValidateCapability == {"InvalidCapabilityError"}
RequireCapability == {"InvalidCapabilityError", "CapabilityNotFoundError"}
GetByName == {"CapabilityNotFoundError"}     \* of a string
RegistryChanged ==
    ValidateCapability \union RequireCapability \union {"DuplicateCapabilityError"} \union Foreign

ResolveTask ==
    {"InvalidCapabilityContextReferenceError", "InvalidTaskReferenceError"} \union
        Tried(GetByName, {"CapabilityNotFoundError"}, {})

\* The contexts that the engine builds pass the checks of the executor.
ExecutePlan ==
    {"execution_engine.InvalidPlanReferenceError"} \union
        (ResolveTask \ {"InvalidCapabilityContextReferenceError", "InvalidTaskReferenceError"})

BuildResponse ==
    {"response.InvalidPlanReferenceError", "response.InvalidExecutionResultError",
     "InvalidExecutionTraceError"}

\* Each of the three calls has a "try" of its own.
RunAgent ==
    {"AgentError", "InvalidAgentRequestError"} \union
        TriedAll(RunPipeline, {"AgentExecutionError"}) \union
        TriedAll(ExecutePlan, {"AgentExecutionError"}) \union
        TriedAll(BuildResponse, {"AgentExecutionError"})

RequireValidatedPlan ==
    {"InvalidExecutionStateError"} \union
        Tried(RequirePlan, {"PlanNotFoundError", "InvalidPlanError"}, {"InvalidExecutionStateError"})
RequireExecution == {"InvalidExecutionError", "ExecutionNotFoundError"}

-----------------------------------------------------------------------------
(* The three JSON stores, and what is built on them *)

\* What is not UTF-8 is caught by neither of the two.  Each record that is malformed
\* has a "try" of its own.
JsonLoad(error) ==
    {error} \union
        Tried({"OSError", "JSONDecodeError", "UnicodeDecodeError"}, {"OSError", "JSONDecodeError"},
              {error}) \union
        TriedAll({"KeyError", "TypeError", "ValueError"}, {error})

\* The directory and the temporary file are made outside of both.
JsonSave(error) ==
    {"OSError"} \union TriedAll({"TypeError", "ValueError"}, {error}) \union
        Tried({"OSError"}, {"OSError"}, {error})

LoadKnowledge == JsonLoad("KnowledgeError")
SaveKnowledge == JsonSave("KnowledgeError")
LoadMemory == JsonLoad("MemoryServiceError")
SaveMemory == JsonSave("MemoryServiceError")
LoadSales == JsonLoad("SalesPersistenceError")
SaveSales == JsonSave("SalesPersistenceError")

GetKnowledge == {"KnowledgeNotFoundError"}
PutKnowledge == {"KnowledgeError", "DuplicateKnowledgeError"} \union SaveKnowledge \union Foreign
DeleteKnowledge == GetKnowledge \union SaveKnowledge \union Foreign
GetMemory == {"MemoryNotFoundError"}
PutMemory == {"MemoryServiceError", "DuplicateMemoryError"} \union SaveMemory \union Foreign
UpdateMemory == GetMemory \union SaveMemory \union Foreign

ParseRow == {"RowParseError"}
\* One bad row does not end the import; a file that cannot be read does.
ImportFile ==
    Tried(ParseRow, {"RowParseError"}, {}) \union
        {"OSError", "UnicodeDecodeError", "csv.Error"} \union Foreign

\* The steps of the sales workflow stand in the engine's "try".
SalesStep == {"KeyError"} \union LoadSales \union SaveSales \union ImportFile

-----------------------------------------------------------------------------
(* Workflows, conversations and dispatch *)

\* A step's exception does not come out of the engine, but the conversion of what it
\* returned stands behind the "try".
ExecuteWorkflow ==
    {"WorkflowError", "WorkflowNotFoundError"} \union TriedAll(SalesStep \union Foreign, {}) \union
        Foreign

RequireActiveSession == {"NoActiveSessionError"}
RequireSession == {"SessionNotFoundError"}
ReceiveMessage ==
    {"ConversationError", "InvalidMessageError"} \union RequireActiveSession \union Foreign \union
        Tried(ExecuteWorkflow, {"WorkflowNotFoundError"} \union WorkflowErrors, {})

\* The registry is asked for an intent type.
ResolveIntent == {"dispatcher.InvalidIntentError", "NoCapabilityError"}
BuildAction == {"InvalidActionError"}

\* Inside all but the first of these, what is raised is announced and raised again.
DispatchIntent ==
    {"DispatcherError", "dispatcher.InvalidIntentError"} \union Foreign \union
        Tried(ResolveIntent, DispatcherErrors, ResolveIntent) \union
        TriedAll(BuildAction, {"ActionExecutionError"}) \union
        TriedAll(ExecuteWorkflow, {"ActionExecutionError"})

RunExecution == TriedAll(DispatchIntent, {"StepExecutionError"}) \union Foreign
StartExecution ==
    {"InvalidExecutionStateError", "InvalidExecutionError"} \union RequireValidatedPlan \union
        RunExecution \union RequireExecution

-----------------------------------------------------------------------------
(* Graph, integration, reasoning and decisions *)

RequireEntity == {"InvalidEntityError", "EntityNotFoundError"}
RequireRelationship == {"InvalidRelationshipError", "RelationshipNotFoundError"}
EntityAdded == {"InvalidEntityError", "DuplicateEntityError"} \union Foreign
RelationshipAdded ==
    {"InvalidRelationshipError", "DuplicateRelationshipError"} \union RequireEntity \union Foreign

RequireRunning == {"InvalidMemoryIntegrationStateError"}
RequireMemoryRecord ==
    {"InvalidMemoryRecordError"} \union
        Tried({"MemoryNotFoundError"}, {"MemoryNotFoundError"}, {"InvalidMemoryRecordError"})
RequireRecord == {"InvalidMemoryRecordError"}
UpdatedEntity == RequireRecord \union {"InvalidMemoryRecordError"}

\* The entity that is removed was there just before.
SynchronizeMemory ==
    RequireRunning \union RequireMemoryRecord \union UpdatedEntity \union Foreign \union
        Tried(RequireEntity \ {"InvalidEntityError"}, {"EntityNotFoundError"}, {}) \union
        Tried(EntityAdded, GraphErrors, {"MemoryMappingError"}) \union
        Tried(RelationshipAdded, GraphErrors, {})
SynchronizeAll == RequireRunning \union Tried(SynchronizeMemory, IntegrationErrors, {})
RemoveMemory ==
    RequireRunning \union {"InvalidMemoryRecordError", "MemoryNotSynchronizedError"} \union
        Tried((RequireEntity \ {"InvalidEntityError"}) \union Foreign, {"EntityNotFoundError"}, {})

RequireNonEmptyString == {"InvalidReasoningQueryError"}
RequirePositiveInt == {"InvalidReasoningQueryError"}
\* The graph is asked for a string that is not empty.
RequireTarget ==
    RequireNonEmptyString \union
        Tried(RequireEntity \ {"InvalidEntityError"}, {"EntityNotFoundError"},
              {"ReasoningTargetNotFoundError"})
Question == RequireTarget \union RequirePositiveInt
Reason == Tried(Question, ReasoningErrors, Question) \union Foreign

RequireRule == {"InvalidDecisionRuleError", "RuleNotFoundError"}
RequireReasoningResults == {"InvalidDecisionInputError"}
EvaluateAll ==
    RequireReasoningResults \union TriedAll(Foreign, {"RuleEvaluationError"}) \union Foreign

RequireConnector == {"InvalidConnectorError", "ConnectorNotFoundError"}
InvokeConnector ==
    {"InvalidConnectorStateError", "ConnectorDisabledError"} \union RequireConnector \union
        TriedAll(Foreign, {"ConnectorInvocationError"}) \union Foreign
RequirePlugin == {"InvalidPluginError", "PluginNotFoundError"}
ValidatePlugin == {"InvalidPluginError"}
PluginsChanged == RequirePlugin \union ValidatePlugin \union {"DuplicatePluginError"} \union Foreign

-----------------------------------------------------------------------------
(* Scheduler, events and intents, and the registries of the program *)

ExecuteTask == TriedAll(Foreign, {"TaskExecutionError"})
Tick == {"SchedulerError"} \union Tried(ExecuteTask, {"TaskExecutionError"}, {}) \union Foreign

ValidateEvent == {"EventValidationError"}
PublishEvent == ValidateEvent \union Foreign
ParseIntent == {"IntentParseError"} \union Foreign
\* A handler of an intent stands in a "try", and what announces its failure does not.
HandleIntent == TriedAll(Foreign, {}) \union Foreign
RequireName == {"LifecycleError"}
MoveService == RequireName \union {"InvalidStateTransitionError"}
ResolveService == {"ServiceNotFoundError"}
MoveWorkItem == {"WorkItemNotFoundError", "WorkQueueError"} \union Foreign

-----------------------------------------------------------------------------
(* Properties *)

\* What the stores let out of the file system, against their words.
Disk == {"OSError", "UnicodeDecodeError"}

Operations ==
    {[escapes |-> e[1], family |-> e[2]] :
        e \in {<<PlanEdited, PlannerErrors>>, <<PlanValidated, PlannerErrors>>,
               <<PlanSession, PlannerErrors>>, <<RegistryChanged, CapabilityErrors>>,
               <<ResolveTask, ExecutorErrors>>, <<ExecutePlan, EngineErrors>>,
               <<BuildResponse, ResponseErrors>>, <<StartExecution, RuntimeErrors>>,
               <<ExecuteWorkflow, WorkflowErrors>>, <<ReceiveMessage, ConversationErrors>>,
               <<DispatchIntent, DispatcherErrors>>, <<RelationshipAdded, GraphErrors>>,
               <<SynchronizeMemory, IntegrationErrors>>, <<RemoveMemory, IntegrationErrors>>,
               <<Reason, ReasoningErrors>>, <<EvaluateAll, DecisionErrors>>,
               <<InvokeConnector, ConnectorErrors>>, <<PluginsChanged, PluginErrors>>,
               <<Tick, SchedulerErrors>>, <<PublishEvent, EventErrors>>,
               <<ParseIntent, IntentErrors>>, <<HandleIntent, IntentErrors>>,
               <<MoveService, LifecycleErrors>>, <<ResolveService, ServiceErrors>>,
               <<MoveWorkItem, QueueErrors>>, <<ParseRow, ImportErrors>>,
               <<PutKnowledge \ Disk, KnowledgeErrors>>, <<DeleteKnowledge \ Disk, KnowledgeErrors>>,
               <<PutMemory \ Disk, MemoryErrors>>, <<UpdateMemory \ Disk, MemoryErrors>>,
               <<LoadSales \ Disk, PersistenceErrors>>, <<SaveSales \ Disk, PersistenceErrors>>}}

\* An exception tells whose operation failed.  What leaves a service is of its own
\* family or comes from a handler; nothing of a service that it calls shows through.
\* The agent service lets out nothing but its own, handlers or not, the pipeline nothing
\* else but the refusal of a context, a question fails with what its "except" announces,
\* and one memory that cannot be synchronized does not keep the others from it.
BoundariesHold ==
    /\ RunPipeline \subseteq PipelineErrors \union ContextErrors
    /\ RunAgent \subseteq AgentErrors
    /\ \A o \in Operations : o.escapes \ Foreign \subseteq o.family
    /\ Question \subseteq ReasoningErrors
    /\ SynchronizeAll \subseteq RequireRunning \union Foreign
    /\ \A one, other \in ObjectFamilies : one # other => one \intersect other = {}
=============================================================================
