------------------------------ MODULE Records ------------------------------
(***************************************************************************)
(* The frozen classes that are constructed directly, without a builder:    *)
(* what each field is when nothing is said, which containers the           *)
(* constructor copies, and which things it goes on sharing with its        *)
(* caller.                                                                 *)
(*                                                                         *)
(* Builders.tla says what constructing one does.                           *)
(***************************************************************************)
EXTENDS Naturals, SequencesExt

\* What a field is when nothing is said:
New == "new"             \* an identifier of its own, at every construction
Own == "own"             \* an identifier of the builder, the same at every build
NotSet == "None"
Blank == "blank"         \* the empty text
Listed == "list"         \* no items
Mapped == "dict"         \* no entries
Made == "made"           \* metadata with the time of the construction
TheTime == "now"         \* the time of the construction
Mandatory == "required"   \* there is no default

\* A class: the defaults, the containers that __post_init__ copies, and the fields
\* that keep the very object they are given.
Frozen(defaults, copied, shared) ==
    [defaults |-> defaults, copied |-> copied, shared |-> shared]

-----------------------------------------------------------------------------
(* Enumerations *)

ConversationRole == {"USER", "ASSISTANT", "SYSTEM"}
EventPriority == {"LOW", "NORMAL", "HIGH", "CRITICAL"}
IntentType == {"QUESTION", "COMMAND", "MEMORY", "SCHEDULE", "UNKNOWN"}
RuntimeStatus == {"CREATED", "RUNNING", "PAUSED", "FAILED", "COMPLETED", "CANCELLED"}

-----------------------------------------------------------------------------
(* From a request to its response *)

AgentSession ==
    Frozen([conversation |-> Mandatory, session_id |-> New, metadata |-> Mapped],
           {"metadata"}, {})
AgentRequest ==
    Frozen([session |-> Mandatory, conversation |-> Mandatory, request_id |-> New,
            metadata |-> Mapped], {"metadata"}, {})
AgentResponse ==
    Frozen([session |-> Mandatory, response |-> Mandatory, response_id |-> New,
            metadata |-> Mapped], {"metadata"}, {})
PipelineRequest ==
    Frozen([conversation |-> Mandatory, request_id |-> New, metadata |-> Mapped],
           {"metadata"}, {})
PipelineResult ==
    Frozen([conversation |-> Mandatory, cognitive_context |-> Mandatory,
            planning_session |-> Mandatory, plan |-> Mandatory, pipeline_id |-> New,
            metadata |-> Mapped], {"metadata"}, {})
ResponseMetadata ==
    Frozen([timestamp |-> TheTime, version |-> "1.0", correlation_id |-> New, extra |-> Mapped],
           {"extra"}, {})
Response ==
    Frozen([plan |-> Mandatory, execution_result |-> Mandatory, execution_trace |-> Mandatory,
            response_id |-> New, status |-> "CREATED", metadata |-> Made], {}, {})
TraceStep ==
    Frozen([component |-> Mandatory, action |-> Mandatory, step_id |-> New, timestamp |-> TheTime,
            metadata |-> Mapped], {"metadata"}, {})
PlanningGoal ==
    Frozen([name |-> Mandatory, goal_id |-> New, description |-> Blank, priority |-> "0"], {}, {})
PlanningConstraint ==
    Frozen([name |-> Mandatory, constraint_id |-> New, description |-> Blank, metadata |-> Mapped],
           {"metadata"}, {})

(* Conversations, intents and events *)

ConversationMessage ==
    Frozen([role |-> Mandatory, content |-> Mandatory, id |-> New, timestamp |-> TheTime,
            metadata |-> Mapped], {"metadata"}, {})
Intent ==
    Frozen([name |-> Mandatory, confidence |-> Mandatory, id |-> New, entities |-> Mapped,
            parameters |-> Mapped, timestamp |-> TheTime], {"entities", "parameters"}, {})
ParsedText ==
    Frozen([name |-> Mandatory, confidence |-> Mandatory, entities |-> Mapped,
            parameters |-> Mapped], {}, {"entities", "parameters"})
Event ==
    Frozen([type |-> Mandatory, source |-> Mandatory, id |-> New, timestamp |-> TheTime,
            payload |-> Mapped, metadata |-> Mapped, priority |-> "NORMAL"],
           {"payload", "metadata"}, {})

(* Knowledge, memory and reasoning *)

KnowledgeRecord ==
    Frozen([category |-> Mandatory, key |-> Mandatory, value |-> Mandatory, id |-> New,
            created_at |-> TheTime, updated_at |-> TheTime, version |-> "1"], {}, {"value"})
MemoryRecord ==
    Frozen([key |-> Mandatory, value |-> Mandatory, id |-> New, created_at |-> TheTime,
            updated_at |-> TheTime, expires_at |-> NotSet, version |-> "1"], {}, {"value"})
Entity ==
    Frozen([entity_type |-> Mandatory, name |-> Mandatory, id |-> New, attributes |-> Mapped],
           {"attributes"}, {})
ReasoningQuery ==
    Frozen([entity_type |-> NotSet, relationship_type |-> NotSet, entity_id |-> NotSet,
            depth |-> "1", filters |-> Mapped], {"filters"}, {})
ReasoningResult ==
    Frozen([matched_entities |-> Listed, matched_relationships |-> Listed,
            reasoning_steps |-> Listed, metadata |-> Mapped],
           {"matched_entities", "matched_relationships", "reasoning_steps", "metadata"}, {})
DecisionRule ==
    Frozen([name |-> Mandatory, predicate |-> Mandatory, priority |-> "0", id |-> New,
            description |-> Blank], {}, {})
Decision ==
    Frozen([decision_type |-> Mandatory, decision_id |-> New, matched_rules |-> Listed,
            reasoning_results |-> Listed, metadata |-> Mapped],
           {"matched_rules", "reasoning_results", "metadata"}, {})

(* Work and extensions *)

WorkflowStep == Frozen([name |-> Mandatory, action |-> Mandatory], {}, {})
Workflow ==
    Frozen([name |-> Mandatory, steps |-> Mandatory, id |-> New, state |-> "PENDING",
            created_at |-> TheTime, started_at |-> NotSet, completed_at |-> NotSet,
            metadata |-> Mapped], {"steps", "metadata"}, {})
Execution ==
    Frozen([plan_id |-> Mandatory, id |-> New, status |-> "CREATED", current_step |-> "0",
            results |-> Mapped, started_at |-> NotSet, completed_at |-> NotSet,
            metadata |-> Mapped], {"results", "metadata"}, {})
Connector ==
    Frozen([name |-> Mandatory, description |-> Mandatory, version |-> Mandatory, id |-> New,
            enabled |-> "True", capabilities |-> Listed, metadata |-> Mapped],
           {"capabilities", "metadata"}, {})
Plugin ==
    Frozen([name |-> Mandatory, version |-> Mandatory, author |-> Mandatory,
            description |-> Mandatory, id |-> New, enabled |-> "True",
            exported_capabilities |-> Listed, metadata |-> Mapped],
           {"exported_capabilities", "metadata"}, {})
ServiceDescriptor ==
    Frozen([name |-> Mandatory, instance |-> Mandatory, interface |-> Mandatory,
            version |-> Mandatory, metadata |-> Mapped], {"metadata"}, {"instance"})
ImportResult ==
    Frozen([total_rows |-> "0", leads_created |-> "0", companies_created |-> "0",
            companies_reused |-> "0", contacts_created |-> "0", contacts_reused |-> "0",
            campaigns_created |-> "0", campaigns_reused |-> "0", errors |-> Listed,
            leads |-> Listed, companies |-> Listed, contacts |-> Listed, campaigns |-> Listed],
           {"errors", "leads", "companies", "contacts", "campaigns"}, {})

Frozens ==
    [agent_session |-> AgentSession, agent_request |-> AgentRequest,
     agent_response |-> AgentResponse, pipeline_request |-> PipelineRequest,
     pipeline_result |-> PipelineResult, response_metadata |-> ResponseMetadata,
     response |-> Response, trace_step |-> TraceStep, planning_goal |-> PlanningGoal,
     planning_constraint |-> PlanningConstraint, message |-> ConversationMessage,
     intent |-> Intent, parsed_text |-> ParsedText, event |-> Event,
     knowledge_record |-> KnowledgeRecord, memory_record |-> MemoryRecord, entity |-> Entity,
     query |-> ReasoningQuery, result |-> ReasoningResult, rule |-> DecisionRule,
     decision |-> Decision, workflow_step |-> WorkflowStep, workflow |-> Workflow,
     execution |-> Execution, connector |-> Connector, plugin |-> Plugin,
     service |-> ServiceDescriptor, import_result |-> ImportResult]

\* Defaults are members of their enumerations, and a container that has a default is
\* either copied, or shared on purpose.
FrozenAgrees(k) ==
    LET class == Frozens[k] IN
    /\ class.copied \union class.shared \subseteq DOMAIN class.defaults
    /\ class.copied \intersect class.shared = {}
    /\ \A f \in DOMAIN class.defaults :
           class.defaults[f] \in {Listed, Mapped} => f \in class.copied \union class.shared
    /\ k = "event" => class.defaults.priority \in EventPriority
    /\ k = "execution" => class.defaults.status \in RuntimeStatus

-----------------------------------------------------------------------------
(* Ways out of the program and back: field |-> how it is written, and read. *)

\* JSON files of the knowledge and the memory service
knowledge_to_dict ==
    [id |-> "same", category |-> "same", key |-> "same", value |-> "json",
     created_at |-> "iso", updated_at |-> "iso", version |-> "same"]
knowledge_from_dict ==
    [id |-> "same", category |-> "same", key |-> "same", value |-> "json",
     created_at |-> "iso", updated_at |-> "iso", version |-> "same"]
memory_to_dict ==
    [id |-> "same", key |-> "same", value |-> "json", created_at |-> "iso",
     updated_at |-> "iso", expires_at |-> "iso", version |-> "same"]
memory_from_dict ==
    [id |-> "same", key |-> "same", value |-> "json", created_at |-> "iso",
     updated_at |-> "iso", expires_at |-> "iso", version |-> "same"]

\* The payload of INTENT_ROUTED
_intent_to_payload ==
    [id |-> "same", name |-> "value", confidence |-> "same", entities |-> "same",
     parameters |-> "same", timestamp |-> "iso"]
_intent_from_payload ==
    [id |-> "same", name |-> "value", confidence |-> "same", entities |-> "same",
     parameters |-> "same", timestamp |-> "iso"]
=============================================================================
